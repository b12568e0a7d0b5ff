---------------------------- MODULE DocumentRows ----------------------------
(***************************************************************************)
(* What document processing (DocumentProcessing) and the embedding jobs    *)
(* (EmbeddingJobs) share: the documents and projects rows, the chunks and  *)
(* their vectors, the Celery broker, the API requests and the runners that *)
(* execute tasks.  app/repositories/documents.py, document_chunks.py and   *)
(* chunk_embeddings.py, app/services/background_jobs.py.                   *)
(*                                                                         *)
(* The row of the project is kept with those of its documents: its         *)
(* embedding_sync_status and embedding_sync_task_id are the fields         *)
(* embedding and task of the same record, its status and model are unused. *)
(* Sessions are opened with expire_on_commit=False: what a request or a    *)
(* task read stays in its record (seen) until it refreshes.  The refresh   *)
(* that follows a commit of the same request is one step with it.          *)
(***************************************************************************)
EXTENDS Naturals, FiniteSets

CONSTANTS
    Docs,         \* documents.id values
    Project,      \* the project they belong to
    Chunks,       \* document_chunks.id values; an id nobody refers to is free
    ChunkCount,   \* chunks the chunker cuts a document's text into
    Models,       \* embedding models of the user's chain; the first may change
    Tasks,        \* Celery task ids, one per message
    Local,        \* the "local-..." task ids of in-process jobs
    Workers,      \* Celery pool processes
    Slots,        \* background tasks of the API process
    Handlers,     \* concurrent API requests
    MaxEvents,    \* bound on the requests and faults of a behaviour
    Faults,       \* the faults of the environment a model considers
    Unborn,       \* the row of an id that was not given out yet
    None          \* ... and of one whose row was deleted; also: no task, no model

FaultKinds == { "child",       \* the pool process dies: its message is acknowledged
                "redelivery",  \* the node dies or the visibility timeout passes
                "api",         \* the API process dies
                "broker",      \* Redis refuses a publish or a revoke
                "resolve",     \* resolve_embedding_service raises
                "failover" }   \* a model of the chain answers for another

VARIABLES
    row,      \* the committed row of each document and of the project
    chunks,   \* committed chunks of each document
    vectors,  \* committed chunk_embeddings: pairs of a chunk and a model
    locked,   \* the runner whose open transaction updated a row
    kind,     \* the task of a message: process, rebuild or sync
    target,   \* the document or project it names
    queued,   \* messages waiting in Redis
    runner,   \* what each pool process and background task is doing
    request,  \* what each API request is doing
    asked,    \* requests and faults so far
    lost,     \* rows whose job was dropped by a fault or by a foreign revoke (history)
    mixed     \* documents on which two jobs overlapped or one failed over (history)

data   == <<row, chunks, vectors, locked>>
broker == <<kind, target, queued>>
ghosts == <<lost, mixed>>
vars   == <<data, broker, runner, request, asked, ghosts>>

Rows    == Docs \cup {Project}
Runners == Workers \cup Slots
Busy      == {"queued", "processing", "cancelling"}
Cancelled == {"cancelling", "cancelled"}

DocumentStatus  == Busy \cup {"uploaded", "cancelled", "indexed", "failed"}
EmbeddingStatus == Busy \cup {"pending", "cancelled", "completed", "failed"}

RowType == [status : DocumentStatus, embedding : EmbeddingStatus,
            task : Tasks \cup {Local, None}, model : Models \cup {None}]

ASSUME DocumentsAssumption ==
    /\ Project \notin Docs /\ Unborn # None
    /\ {None, Unborn} \cap (Docs \cup {Project} \cup Tasks \cup Models \cup RowType) = {}
    /\ None \notin Workers \cup Slots
    /\ Local \notin Tasks \cup {None}
    /\ Workers \cap Slots = {}
    /\ ChunkCount \in Nat /\ MaxEvents \in Nat /\ IsFiniteSet(Chunks) /\ Models # {}
    /\ Faults \subseteq FaultKinds

FreshRow(embedding, st, m) == [status |-> st, embedding |-> embedding, task |-> None, model |-> m]

Uploaded == FreshRow("pending", "uploaded", None)

IdleRunner  == [pc |-> "idle", job |-> "none", row |-> None, task |-> None, seen |-> None,
                todo |-> {}, model |-> None, created |-> FALSE, force |-> FALSE]
IdleRequest == [pc |-> "idle", op |-> "none", row |-> None, task |-> None, seen |-> None]

Exists(x) == row[x] \notin {None, Unborn}

Faulty(fault) == fault \in Faults /\ asked < MaxEvents /\ asked' = asked + 1

-----------------------------------------------------------------------------
(* Faulty forms of definitions below, for the mutation runs of the README *)

DeleteForDocument_None(cs) == {}
ListMissing_None(d, m)     == {}

-----------------------------------------------------------------------------
(* The ORM writes a field only when the value assigned differs from the one *)
(* it loaded; the UPDATE waits for the transaction that holds the row.      *)

Free(x) == locked[x] = None

Flush(x, seen, new) ==
    /\ Exists(x)
    /\ seen # new => Free(x)
    /\ row' = [row EXCEPT ![x] = [f \in DOMAIN @ |-> IF new[f] # seen[f] THEN new[f] ELSE @[f]]]

(* DocumentChunkRepository and ChunkEmbeddingRepository *)

OfDocs(ds) == UNION {chunks[d] : d \in ds}

(* list_for_document *)
ListForDocument(d) == chunks[d]

(* list_missing_embeddings_for_document *)
ListMissing(d, m) == {c \in chunks[d] : <<c, m>> \notin vectors}

(* list_missing_embeddings_for_project *)
ListMissingForProject(m) == {c \in OfDocs(Docs) : <<c, m>> \notin vectors}

(* delete_for_document: the vectors of the chunks go by ON DELETE CASCADE *)
DeleteForDocument(cs) == {v \in vectors : v[1] \in cs}

(* delete_for_chunks *)
DeleteForChunks(cs, m) == {v \in vectors : v[1] \in cs /\ v[2] = m}

(* delete_dimension_mismatches_for_project: the column is                   *)
(* Vector(EMBEDDING_DIM), so a vector of another dimension was never stored *)
DimensionMismatches == {}

(* create_many: ids nobody refers to, neither a row nor a list a job holds *)
Unused == Chunks \ (OfDocs(Docs) \cup UNION {runner[w].todo : w \in Runners})

NewChunks == CHOOSE S \in SUBSET Unused : Cardinality(S) = ChunkCount

(* commit_created_for_chunks fails when the chunk is gone (foreign key) or  *)
(* when it has a vector of this model (uq_chunk_embedding_provider_model)   *)
Storable(c, m) == c \in OfDocs(Docs) /\ <<c, m>> \notin vectors

-----------------------------------------------------------------------------
(* Requests *)

At(h, pc) == request[h].pc = pc
Row(h)    == request[h].row
Seen(h)   == request[h].seen

Finish(h) == request' = [request EXCEPT ![h] = IdleRequest]
MoveTo(h, pc, seen) == request' = [request EXCEPT ![h].pc = pc, ![h].seen = seen]

(* The Owned...Dep dependency loads the row; the handler goes on when the   *)
(* status it loaded allows what is asked and answers at once when not.      *)
Load(h, op, x, allowed) ==
    /\ At(h, "idle") /\ Exists(x) /\ asked < MaxEvents
    /\ allowed
    /\ asked' = asked + 1
    /\ request' = [request EXCEPT ![h] =
            [pc |-> "load", op |-> op, row |-> x, task |-> None, seen |-> row[x]]]
    /\ UNCHANGED <<data, broker, runner, ghosts>>

Doing(h, op) == At(h, "load") /\ request[h].op = op

(* The row was deleted under the request: StaleDataError, answered with 500 *)
RowGone(h) ==
    /\ ~At(h, "idle") /\ ~Exists(Row(h))
    /\ Finish(h)
    /\ UNCHANGED <<data, broker, runner, asked, ghosts>>

(* BackgroundJobService.enqueue: delay() puts a message with a new task id *)
Publish(k, x, t) ==
    /\ kind[t] = "none"
    /\ kind' = [kind EXCEPT ![t] = k]
    /\ target' = [target EXCEPT ![t] = x]
    /\ queued' = queued \cup {t}

(* ... or the broker refuses it with 503.  The model has no other way to    *)
(* bound the messages than to refuse the ones it has no id for.             *)
QueueUnavailable ==
    \/ Faulty("broker")
    \/ (\A t \in Tasks : kind[t] # "none") /\ UNCHANGED asked

TaskOf(op) == CASE op \in {"process", "retry", "tool_process"} -> "process"
                [] op = "tool_rebuild" -> "rebuild"
                [] op = "tool_sync"    -> "sync"

Enqueue(h) ==
    /\ At(h, "enqueue") /\ Exists(Row(h))
    /\ \E t \in Tasks :
        /\ Publish(TaskOf(request[h].op), Row(h), t)
        /\ request' = [request EXCEPT ![h].pc = "record", ![h].task = t]
    /\ UNCHANGED <<data, runner, asked, ghosts>>

(* set_task_id *)
Record(h) ==
    /\ At(h, "record")
    /\ Flush(Row(h), Seen(h), [Seen(h) EXCEPT !.task = request[h].task])
    /\ Finish(h)
    /\ UNCHANGED <<chunks, vectors, locked, broker, runner, asked, ghosts>>

(* BackgroundJobService.revoke(terminate=True): the message is dropped, or  *)
(* the pool process that executes it is killed, its transaction rolled back *)
(* and the message acknowledged.  `job` is what the caller means to stop;   *)
(* celery_task_id may name a task of another kind.                          *)
Revoked(t) == {w \in Workers : runner[w].task = t /\ t # None}

Revoke(t, jobs) ==
    /\ queued' = queued \ {t}
    /\ runner' = [w \in Runners |-> IF w \in Revoked(t) THEN IdleRunner ELSE runner[w]]
    /\ locked' = [d \in Rows |-> IF locked[d] \in Revoked(t) THEN None ELSE locked[d]]
    /\ lost' = IF t \in Tasks /\ kind[t] \notin jobs /\ (t \in queued \/ Revoked(t) # {})
               THEN lost \cup {target[t]} ELSE lost

-----------------------------------------------------------------------------
(* Runners *)

Is(w, pc)   == runner[w].pc = pc
Target(w)   == runner[w].row
Loaded(w)   == runner[w].seen
GoTo(w, pc) == runner' = [runner EXCEPT ![w].pc = pc]
Ack(w)      == runner' = [runner EXCEPT ![w] = IdleRunner]

(* A task holds the rows it may write: a sync those of all documents *)
Holds(w, x) == ~Is(w, "idle") /\ (Target(w) = x \/ Target(w) = Project)

(* The document joins `mixed` when a job starts while another holds it *)
NoteOverlap(w, x) ==
    mixed' = mixed \cup {d \in Docs : (x = d \/ x = Project)
                                      /\ \E v \in Runners \ {w} : Holds(v, d)}

(* A message of kind k reaches an idle pool process *)
Deliver(w, t, k) ==
    /\ w \in Workers /\ Is(w, "idle") /\ t \in queued /\ kind[t] = k
    /\ queued' = queued \ {t}

Begin(w, job, x, t, force) ==
    runner' = [runner EXCEPT ![w] =
        [IdleRunner EXCEPT !.pc = "loaded", !.job = job, !.row = x, !.task = t,
                           !.seen = row[x], !.force = force]]

(* resolve_embedding_service is called outside the task's try block *)
ResolveFails(w) ==
    /\ Faulty("resolve") /\ Is(w, "loaded")
    /\ lost' = lost \cup {Target(w)}
    /\ Ack(w)
    /\ UNCHANGED <<data, broker, request, mixed>>

Unlock(w) == locked' = [d \in Rows |-> IF locked[d] = w THEN None ELSE locked[d]]

(* The pool process dies and its message is acknowledged *)
ChildDies(w) ==
    /\ Faulty("child") /\ w \in Workers /\ ~Is(w, "idle")
    /\ lost' = lost \cup {Target(w)}
    /\ Unlock(w) /\ Ack(w)
    /\ UNCHANGED <<row, chunks, vectors, broker, request, mixed>>

(* task_acks_late: the node dies, or holds the message for too long *)
Redeliver(w) ==
    /\ Faulty("redelivery") /\ w \in Workers /\ ~Is(w, "idle")
    /\ queued' = queued \cup {runner[w].task}
    /\ \/ /\ Unlock(w) /\ Ack(w)
          /\ lost' = lost \cup (IF runner[w].job = "process" THEN {} ELSE {Target(w)})
       \/ UNCHANGED <<locked, runner, lost>>
    /\ UNCHANGED <<row, chunks, vectors, kind, target, request, mixed>>

(* The API process dies with its requests and its background tasks *)
ApiCrash ==
    /\ Faulty("api")
    /\ (\E h \in Handlers : ~At(h, "idle")) \/ (\E s \in Slots : ~Is(s, "idle"))
    /\ lost' = lost \cup {Row(h) : h \in {k \in Handlers : ~At(k, "idle")}}
                    \cup {Target(s) : s \in {s \in Slots : ~Is(s, "idle")}}
    /\ request' = [h \in Handlers |-> IdleRequest]
    /\ runner' = [w \in Runners |-> IF w \in Slots THEN IdleRunner ELSE runner[w]]
    /\ UNCHANGED <<data, broker, mixed>>

Fault == ApiCrash \/ \E w \in Runners : ResolveFails(w) \/ ChildDies(w) \/ Redeliver(w)
=============================================================================
