------------------------------ MODULE Documents ------------------------------
(***************************************************************************)
(* Document processing and the embedding jobs on the same rows: the two    *)
(* share documents.celery_task_id, documents.embedding_status, the chunks  *)
(* and the vectors, and nothing in the code keeps one from running while   *)
(* the other does.                                                         *)
(***************************************************************************)
EXTENDS DocumentProcessing, EmbeddingJobs

(* Each document is not uploaded yet, was processed before, or had a rebuild *)
(* cancelled after some of its chunks.                                       *)
Histories == {"unborn", "indexed", "interrupted"}

Past(h, m) == CASE h = "unborn"      -> Unborn
                [] h = "indexed"     -> FreshRow("completed", "indexed", m)
                [] h = "interrupted" -> FreshRow("cancelled", "indexed", m)

(* Each processed document has chunks of its own *)
Cut(ids, past) ==
    /\ ids \in [Docs -> SUBSET Chunks]
    /\ \A d \in Docs : Cardinality(ids[d]) = IF past[d] = "unborn" THEN 0 ELSE ChunkCount
    /\ \A d, e \in Docs : d # e => ids[d] \cap ids[e] = {}

Init ==
    /\ \E past \in [Docs -> Histories] :
        LET first == CHOOSE m \in Models : TRUE
            ids == CHOOSE f \in [Docs -> SUBSET Chunks] : Cut(f, past)
            done(d) == IF past[d] = "interrupted" THEN {c \in ids[d] : c = CHOOSE e \in ids[d] : TRUE}
                       ELSE ids[d]
        IN /\ Cut(ids, past) /\ chunks = ids
           /\ vectors = UNION {done(d) \X {first} : d \in Docs}
           /\ row = [x \in Rows |-> IF x = Project THEN Uploaded ELSE Past(past[x], first)]
    /\ locked = [x \in Rows |-> None]
    /\ kind = [t \in Tasks |-> "none"]
    /\ target = [t \in Tasks |-> None]
    /\ queued = {}
    /\ runner = [w \in Runners |-> IdleRunner]
    /\ request = [h \in Handlers |-> IdleRequest]
    /\ asked = 0
    /\ lost = {}
    /\ mixed = {}

(* DELETE /projects/{id}: the documents, chunks and vectors go with it *)
ProjectRequest(h) == Load(h, "delete_project", Project, TRUE)

DeleteProject(h) ==
    /\ Doing(h, "delete_project") /\ Exists(Project)
    /\ \A d \in Docs : Free(d)
    /\ row' = [x \in Rows |-> IF row[x] = Unborn THEN Unborn ELSE None]
    /\ vectors' = {}
    /\ chunks' = [d \in Docs |-> {}]
    /\ Finish(h)
    /\ UNCHANGED <<locked, broker, runner, asked, ghosts>>

HandlerStep(h) ==
    ProcessingHandler(h) \/ EmbeddingHandler(h) \/ Enqueue(h) \/ Record(h) \/ DeleteProject(h)
        \/ RowGone(h)

RunnerStep(w) == ProcessingTask(w) \/ EmbeddingTask(w)

Next ==
    \/ \E h \in Handlers : \/ ProcessingRequest(h) \/ EmbeddingRequest(h) \/ ProjectRequest(h)
                           \/ HandlerStep(h)
    \/ \E d \in Docs : Upload(d)
    \/ \E w \in Runners : RunnerStep(w)
    \/ Fault

Spec == Init /\ [][Next]_vars

(* Requests, pool processes and background tasks run to their end *)
Fairness ==
    /\ \A h \in Handlers : WF_vars(HandlerStep(h))
    /\ \A w \in Runners : WF_vars(RunnerStep(w))

FairSpec == Spec /\ Fairness

-----------------------------------------------------------------------------
(* Properties *)

RunnerType ==
    [pc : {"idle", "loaded", "processing", "failing", "fail", "list", "next", "embedded",
           "insert", "mark", "mark_project", "cancelled", "raised", "write_failed",
           "write_cancelled"},
     job : {"none", "process", "rebuild", "sync"}, row : Rows \cup {None},
     task : Tasks \cup {Local, None}, seen : RowType \cup {None}, todo : SUBSET Chunks,
     model : Models \cup {None}, created : BOOLEAN, force : BOOLEAN]

(* Types of the variables, and that every stored vector belongs to a chunk  *)
(* and every chunk to one document (the foreign keys).                      *)
TypeOK ==
    /\ row \in [Rows -> RowType \cup {None, Unborn}]
    /\ chunks \in [Docs -> SUBSET Chunks] /\ vectors \subseteq OfDocs(Docs) \X Models
    /\ \A d, e \in Docs : d # e => chunks[d] \cap chunks[e] = {}
    /\ locked \in [Rows -> Runners \cup {None}]
    /\ kind \in [Tasks -> {"none", "process", "rebuild", "sync"}]
    /\ target \in [Tasks -> Rows \cup {None}] /\ queued \subseteq Tasks
    /\ runner \in [Runners -> RunnerType]
    /\ asked \in 0 .. MaxEvents /\ lost \subseteq Rows /\ mixed \subseteq Docs

(* Deliveries of the same document, retries and redeliveries may all run    *)
(* process(), whose QUEUED test is not locked; the chunks of a document     *)
(* still come from one of them, never from two.                             *)
OneGeneration == \A d \in Docs : Cardinality(chunks[d]) \in {0, ChunkCount}

(* docs/ARCHITECTURE.md: "indexed: chunks and embeddings are available for  *)
(* retrieval".  When a row says COMPLETED with a model and no job holds the *)
(* document, each of its chunks has a vector of that model: whatever was    *)
(* cancelled, resumed, retried, deleted or failed half-way before, as long  *)
(* as no two jobs overlapped on it and no resumed job failed over.          *)
AtRest(d) == \A w \in Runners : ~Holds(w, d)

CompletedCoversChunks ==
    \A d \in Docs \ (mixed \cup lost) : Exists(d) /\ AtRest(d) =>
        (row[d].embedding = "completed" => \A c \in chunks[d] : <<c, row[d].model>> \in vectors)

(* A QUEUED row always has somebody who will act on it: a request about to  *)
(* publish its message, to take QUEUED back or to write CANCELLED, a        *)
(* message, or a runner that has loaded it.                                 *)
Attended(x, k) == \E h \in Handlers : Row(h) = x /\
    \/ At(h, "enqueue") /\ TaskOf(request[h].op) = k
    \/ At(h, "spawn") /\ JobOf(x) = k
    \/ At(h, "cancelled")

Scheduled(x, k) ==
    \/ Attended(x, k)
    \/ \E t \in queued : kind[t] = k /\ target[t] = x
    \/ \E w \in Runners : runner[w].job = k /\ Target(w) = x

QueuedIsScheduled ==
    \A x \in Rows \ lost : Exists(x) =>
        /\ row[x].status = "queued" => Scheduled(x, "process")
        /\ row[x].embedding = "queued" => Scheduled(x, JobOf(x))

(* Of two cancellations, one has read the CANCELLED that the other wrote and *)
(* is about to revoke the process of a job that had read QUEUED before both: *)
(* it does not write the row again, so that a PROCESSING which that job has  *)
(* set meanwhile is left behind.                                             *)
Overtaken(x) ==
    \E h \in Handlers, w \in Workers :
        /\ At(h, "revoke") /\ Row(h) = x /\ Seen(h).embedding = "cancelled"
        /\ runner[w].task = Seen(h).task /\ runner[w].job \in {"rebuild", "sync"}

(* Once the requests stop, every document and the project come to rest: no  *)
(* job that was cancelled, resumed, retried, overtaken by a processing or   *)
(* interrupted by a deletion leaves a status QUEUED, PROCESSING or          *)
(* CANCELLING behind, unless its message or process was lost, or one of two *)
(* cancellations overtook it.                                               *)
Settled(x) == Exists(x) => row[x].status \notin Busy /\ row[x].embedding \notin Busy

EverythingSettles ==
    [](\A x \in Rows : ~Overtaken(x)) => <>[](\A x \in Rows \ lost : Settled(x))
=============================================================================
