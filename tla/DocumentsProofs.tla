---------------------------- MODULE DocumentsProofs ----------------------------
(***************************************************************************)
(* For any documents, models, tasks, processes, requests and faults: the   *)
(* chunks of a document come from one processing, a busy row has somebody  *)
(* who acts on it or ends it, and COMPLETED means a vector of the row's    *)
(* model for every chunk.                                                  *)
(***************************************************************************)
EXTENDS Documents, FiniteSetTheorems, FunctionTheorems, TLAPS

-----------------------------------------------------------------------------
(* What a record holds at each step *)

DocOps     == {"process", "retry", "cancel", "delete", "tool_process", "rebuild", "resume_rebuild",
               "retry_rebuild", "tool_rebuild"}
ProjectOps == {"sync", "tool_sync", "delete_project"}

RequestType ==
    [pc : {"idle", "load", "queue", "enqueue", "record", "revoke", "cancelled", "spawn"},
     op : DocOps \cup ProjectOps \cup {"none", "cancel_job"}, row : Rows \cup {None},
     task : Tasks \cup {None}, seen : RowType \cup {None}]

(* A recorded id is the one of a message sent for the row *)
Named(t, x) == t \in Tasks => kind[t] # "none" /\ target[t] = x

RequestOK(r) ==
    r.pc # "idle" =>
        /\ r.row \in Rows
        /\ r.op \in DocOps => r.row \in Docs
        /\ r.op \in ProjectOps => r.row = Project
        /\ r.pc # "spawn" => r.seen \in RowType /\ Named(r.seen.task, r.row)
        /\ r.pc = "load" /\ r.op = "process" => r.seen.status \notin Busy
        /\ r.pc = "queue" => r.op = "retry" /\ r.seen.status \notin Busy
        /\ r.pc = "enqueue" => r.op \in {"process", "retry", "tool_process", "tool_rebuild", "tool_sync"}
        /\ r.pc = "enqueue" /\ r.op \in {"process", "retry"} => r.seen.status = "queued"
        /\ r.pc = "record" => r.task \in Tasks /\ Named(r.task, r.row)
        /\ r.pc \in {"revoke", "cancelled"} => r.op \in {"cancel", "cancel_job"}
        /\ r.pc = "spawn" => r.op \in {"rebuild", "resume_rebuild", "retry_rebuild", "sync"}

RunnerOK(w, r) ==
    /\ r.pc = "idle" => r = IdleRunner
    /\ r.pc # "idle" =>
        /\ r.row \in Rows /\ r.job # "none"
        /\ r.job = "sync" => r.row = Project
        /\ r.job # "sync" => r.row \in Docs
        /\ r.job = "process" => w \in Workers /\ r.pc \in {"loaded", "processing", "failing", "fail"}
        /\ r.job # "process" => r.pc \notin {"processing", "failing", "fail"}
        /\ r.pc \in {"loaded", "processing", "failing", "fail", "mark", "mark_project", "write_failed",
                     "write_cancelled"} => r.seen \in RowType
        /\ r.pc \in {"list", "next", "embedded", "insert", "mark", "mark_project"} => r.model \in Models
        /\ r.pc \in {"embedded", "insert"} => r.todo # {}
        /\ r.pc \in {"mark", "mark_project"} => r.todo = {}
        /\ r.pc = "mark_project" => r.job = "sync"
        /\ w \in Workers => r.task \in Tasks /\ kind[r.task] = r.job /\ target[r.task] = r.row
        /\ w \in Slots => r.task = Local

(* start_processing locks the row until the end of the transaction: the     *)
(* chunks that will be deleted are those of the document                    *)
LockOK(w, r) ==
    r.pc = "processing" => locked[r.row] = w /\ Exists(r.row) /\ r.todo = chunks[r.row]

MessageOK(t) ==
    /\ t \in queued => kind[t] # "none"
    /\ kind[t] \in {"process", "rebuild"} => target[t] \in Docs
    /\ kind[t] = "sync" => target[t] = Project

RowsType == [Rows -> RowType \cup {None, Unborn}]

DataOK ==
    /\ row \in RowsType
    /\ chunks \in [Docs -> SUBSET Chunks] /\ vectors \subseteq OfDocs(Docs) \X Models
    /\ \A d, e \in Docs : d # e => chunks[d] \cap chunks[e] = {}
    /\ \A d \in Docs : Cardinality(chunks[d]) \in {0, ChunkCount}
    /\ \A d \in Docs : ~Exists(d) => chunks[d] = {}
    /\ \A x \in Rows : Exists(x) => Named(row[x].task, x)

BrokerOK ==
    /\ kind \in [Tasks -> {"none", "process", "rebuild", "sync"}]
    /\ target \in [Tasks -> Rows \cup {None}] /\ queued \subseteq Tasks
    /\ \A t \in Tasks : MessageOK(t)

RequestsOK ==
    request \in [Handlers -> RequestType] /\ \A h \in Handlers : RequestOK(request[h])

RunnersOK ==
    /\ runner \in [Runners -> RunnerType] /\ locked \in [Rows -> Runners \cup {None}]
    /\ \A w \in Runners : RunnerOK(w, runner[w]) /\ LockOK(w, runner[w])

CountsOK == asked \in 0 .. MaxEvents /\ lost \subseteq Rows /\ mixed \subseteq Docs

TypeInv == DataOK /\ BrokerOK /\ RequestsOK /\ RunnersOK /\ CountsOK

-----------------------------------------------------------------------------
(* Who will end that a row is QUEUED.  A cancellation that read CANCELLED    *)
(* writes nothing, but it revokes the message it read.                      *)

StatusOf(q, k) == IF k = "process" THEN q.status ELSE q.embedding

Cancels(r, k) ==
    /\ (r.op = "cancel" \/ (r.op = "cancel_job" /\ k # "process"))
    /\ StatusOf(r.seen, k) # "cancelled"

Doomed(t, x, k) ==
    \E h \in Handlers :
        /\ At(h, "revoke") /\ Row(h) = x /\ Seen(h).task = t
        /\ request[h].op = "cancel" \/ k # "process"
        /\ StatusOf(Seen(h), k) = "cancelled"

WillAct(r, x, k) ==
    /\ r.row = x
    /\ \/ r.pc = "enqueue" /\ TaskOf(r.op) = k
       \/ r.pc = "spawn" /\ JobOf(x) = k
       \/ r.pc = "cancelled" /\ Cancels(r, k)

WillEnd(r, x, k) ==
    /\ r.job = k /\ r.row = x
    /\ \/ r.pc \in {"loaded", "processing", "failing"}
       \/ r.pc = "fail" /\ r.seen.status # "failed"
    /\ r.pc = "loaded" => StatusOf(r.seen, k) = "queued"

SafelyQueued(x, k) ==
    \/ \E h \in Handlers : WillAct(request[h], x, k)
    \/ \E t \in queued : kind[t] = k /\ target[t] = x /\ ~Doomed(t, x, k)
    \/ \E w \in Runners : WillEnd(runner[w], x, k) /\ (w \in Workers => ~Doomed(runner[w].task, x, k))

Kinds(x) == {"process", JobOf(x)}

QueueInv ==
    \A x \in Rows \ lost : Exists(x) =>
        \A k \in Kinds(x) : StatusOf(row[x], k) = "queued" => SafelyQueued(x, k)

-----------------------------------------------------------------------------
(* How far a job is that runs alone on a document *)

Alone(d) == \A v, w \in Runners : Holds(v, d) /\ Holds(w, d) => v = w

Covered(d) ==
    Exists(d) /\ row[d].embedding = "completed" => \A c \in chunks[d] : <<c, row[d].model>> \in vectors

Progress(r, d) ==
    r.pc # "idle" /\ (r.row = d \/ r.row = Project) =>
        /\ r.job = "sync" => ~r.force
        /\ r.row = d => row[d] # Unborn
        /\ Exists(d) =>
            /\ r.job = "process" /\ r.pc \in {"loaded", "processing"} => r.seen.model = row[d].model
            /\ r.job = "rebuild" /\ r.pc # "loaded" => row[d].embedding # "completed"
            /\ r.job = "rebuild" /\ r.pc = "loaded" => r.seen.embedding = "queued"
            /\ r.job = "rebuild" /\ r.pc = "mark" => r.seen.model = row[d].model
            /\ r.pc \in {"next", "embedded", "insert", "mark"} =>
                    \A c \in chunks[d] \ r.todo : <<c, r.model>> \in vectors
            /\ r.pc \in {"next", "embedded", "insert"} /\ r.force /\ ~r.created =>
                    chunks[d] \subseteq r.todo

CoverInv == \A d \in Docs \ mixed : Alone(d) /\ Covered(d) /\ \A w \in Runners : Progress(runner[w], d)

-----------------------------------------------------------------------------
(* What every step keeps: a message keeps its task and its target once sent, *)
(* a row exists or not.                                                     *)

Sent ==
    \A t \in Tasks : kind[t] # "none" => kind'[t] = kind[t] /\ target'[t] = target[t]

RowsKept ==
    /\ row' \in RowsType
    /\ \A x \in Rows : (Exists(x)' <=> Exists(x)) /\ (Exists(x) => Named(row'[x].task, x))

LEMMA TypeInvTypeOK == TypeInv => TypeOK
BY DEF TypeInv, TypeOK, DataOK, BrokerOK, RunnersOK, CountsOK, RowsType

(* A row that exists is a record *)
LEMMA ExistsRow ==
    ASSUME DataOK, NEW x \in Rows, Exists(x)
    PROVE  row[x] \in RowType
BY DEF DataOK, RowsType, Exists

LEMMA RowIsNot ==
    ASSUME NEW q \in RowType
    PROVE  q # None /\ q # Unborn
BY DocumentsAssumption

(* A flush writes the fields that changed over the committed ones *)
LEMMA FlushWrites ==
    ASSUME DataOK, NEW x \in Rows, NEW seen \in RowType, NEW new \in RowType, Flush(x, seen, new),
           new.task = seen.task \/ Named(new.task, x)
    PROVE  \E q \in RowType :
            /\ row' = [row EXCEPT ![x] = q] /\ Exists(x) /\ Named(q.task, x)
            /\ q.status = IF new.status # seen.status THEN new.status ELSE row[x].status
            /\ q.embedding = IF new.embedding # seen.embedding THEN new.embedding ELSE row[x].embedding
            /\ q.task = IF new.task # seen.task THEN new.task ELSE row[x].task
            /\ q.model = IF new.model # seen.model THEN new.model ELSE row[x].model
<1> DEFINE q == [f \in DOMAIN row[x] |-> IF new[f] # seen[f] THEN new[f] ELSE row[x][f]]
<1>1. row' = [row EXCEPT ![x] = q] /\ Exists(x)
  BY DEF Flush, DataOK, RowsType
<1>2. row[x] \in RowType
  BY <1>1, ExistsRow
<1>3. DOMAIN row[x] = {"status", "embedding", "task", "model"}
  BY <1>2 DEF RowType
<1>4. /\ q.status = IF new.status # seen.status THEN new.status ELSE row[x].status
      /\ q.embedding = IF new.embedding # seen.embedding THEN new.embedding ELSE row[x].embedding
      /\ q.task = IF new.task # seen.task THEN new.task ELSE row[x].task
      /\ q.model = IF new.model # seen.model THEN new.model ELSE row[x].model
  BY <1>3
<1>5. q = [status |-> q.status, embedding |-> q.embedding, task |-> q.task, model |-> q.model]
  BY <1>3
<1>6. q \in RowType
  <2>1. /\ q.status \in DocumentStatus /\ q.embedding \in EmbeddingStatus
        /\ q.task \in Tasks \cup {Local, None} /\ q.model \in Models \cup {None}
    BY <1>2, <1>4 DEF RowType
  <2> HIDE DEF q
  <2> QED
    BY <1>5, <2>1 DEF RowType
<1>7. Named(q.task, x)
  BY <1>1, <1>4 DEF DataOK
<1> HIDE DEF q
<1> QED
  BY <1>1, <1>4, <1>6, <1>7

LEMMA WriteKeepsRows ==
    ASSUME DataOK, NEW x \in Rows, Exists(x), NEW q \in RowType, Named(q.task, x),
           row' = [row EXCEPT ![x] = q]
    PROVE  RowsKept
<1>1. row' \in RowsType
  BY DEF DataOK, RowsType
<1>2. \A y \in Rows : Exists(y)' <=> Exists(y)
  BY RowIsNot DEF DataOK, RowsType, Exists
<1>3. \A y \in Rows : Exists(y) => Named(row'[y].task, y)
  BY DEF DataOK, RowsType
<1> QED
  BY <1>1, <1>2, <1>3 DEF RowsKept

LEMMA SameKeepsRows ==
    ASSUME DataOK, row' = row
    PROVE  RowsKept
BY DEF DataOK, RowsKept, RowsType, Exists

LEMMA DataStays ==
    ASSUME DataOK, RowsKept, Sent, chunks' = chunks, vectors' \subseteq OfDocs(Docs) \X Models
    PROVE  DataOK'
<1>1. OfDocs(Docs)' = OfDocs(Docs)
  BY DEF OfDocs
<1>2. \A x \in Rows : Exists(x)' => Named(row[x].task, x)'
  BY DEF RowsKept, Sent, Named
<1>3. \A x \in Rows : Exists(x)' <=> Exists(x)
  BY DEF RowsKept
<1>4. row' \in RowsType
  BY DEF RowsKept
<1>5. \A d \in Docs : ~Exists(d)' => chunks'[d] = {}
  BY <1>3 DEF DataOK, Rows
<1>6. /\ chunks' \in [Docs -> SUBSET Chunks]
      /\ \A d, e \in Docs : d # e => chunks'[d] \cap chunks'[e] = {}
      /\ \A d \in Docs : Cardinality(chunks'[d]) \in {0, ChunkCount}
      /\ vectors' \subseteq OfDocs(Docs)' \X Models
  BY <1>1 DEF DataOK
<1> QED
  BY <1>2, <1>4, <1>5, <1>6 DEF DataOK

LEMMA BrokerStays ==
    ASSUME BrokerOK, kind' = kind, target' = target, queued' \subseteq queued
    PROVE  BrokerOK' /\ Sent
BY DEF BrokerOK, MessageOK, Sent

LEMMA RequestStays ==
    ASSUME Sent, NEW r, RequestOK(r)
    PROVE  RequestOK(r)'
BY DEF RequestOK, Sent, Named

LEMMA RequestMoves ==
    ASSUME RequestsOK, Sent, NEW h \in Handlers, NEW r \in RequestType, RequestOK(r)',
           request' = [request EXCEPT ![h] = r]
    PROVE  RequestsOK'
<1>1. request' \in [Handlers -> RequestType]
  BY DEF RequestsOK
<1>2. \A k \in Handlers : RequestOK(request[k])'
  <2> TAKE k \in Handlers
  <2>1. CASE k = h
    BY <2>1 DEF RequestsOK, RequestOK, Named
  <2>2. CASE k # h
    <3>1. request'[k] = request[k] /\ RequestOK(request[k])
      BY <2>2 DEF RequestsOK
    <3> QED
      BY <3>1 DEF RequestOK, Named, Sent
  <2> QED
    BY <2>1, <2>2
<1> QED
  BY <1>1, <1>2 DEF RequestsOK

LEMMA RequestsStay ==
    ASSUME RequestsOK, Sent, request' = request
    PROVE  RequestsOK'
BY DEF RequestsOK, RequestOK, Named, Sent

LEMMA RunnerStays ==
    ASSUME Sent, NEW w \in Runners, NEW r \in RunnerType, RunnerOK(w, r)
    PROVE  RunnerOK(w, r)'
BY DEF RunnerOK, Sent, RunnerType

LEMMA RunnersStay ==
    ASSUME RunnersOK, Sent, RowsKept, UNCHANGED <<chunks, locked, runner>>
    PROVE  RunnersOK'
<1>1. \A w \in Runners : RunnerOK(w, runner[w])'
  BY RunnerStays DEF RunnersOK
<1>2. \A w \in Runners : LockOK(w, runner[w])'
  <2> TAKE w \in Runners
  <2>1. runner[w].pc = "processing" => runner[w].row \in Rows
    BY DEF RunnersOK, RunnerOK
  <2>2. runner[w].pc = "processing" => Exists(runner[w].row)
    BY DEF RunnersOK, LockOK
  <2> QED
    BY <2>1, <2>2 DEF RunnersOK, LockOK, RowsKept, Exists
<1> QED
  BY <1>1, <1>2 DEF RunnersOK

LEMMA IdleRecords ==
    /\ IdleRequest \in RequestType /\ RequestOK(IdleRequest) /\ RequestOK(IdleRequest)'
    /\ IdleRunner \in RunnerType
    /\ \A w : RunnerOK(w, IdleRunner) /\ LockOK(w, IdleRunner)
    /\ \A w : RunnerOK(w, IdleRunner)' /\ LockOK(w, IdleRunner)'
BY DEF IdleRequest, IdleRunner, RequestType, RunnerType, RequestOK, RunnerOK, LockOK

(* A request that moves on after a write, or without one *)
LEMMA HandlerMoves ==
    ASSUME TypeInv, RowsKept, UNCHANGED <<chunks, vectors, locked, broker, runner>>, CountsOK',
           NEW h \in Handlers, NEW r \in RequestType, RequestOK(r),
           request' = [request EXCEPT ![h] = r]
    PROVE  TypeInv'
<1>1. BrokerOK' /\ Sent
  BY BrokerStays DEF TypeInv, broker
<1>2. DataOK'
  BY <1>1, DataStays DEF TypeInv, DataOK
<1>3. RunnersOK'
  BY <1>1, RunnersStay DEF TypeInv
<1>4. RequestsOK'
  BY <1>1, RequestStays, RequestMoves DEF TypeInv
<1> QED
  BY <1>1, <1>2, <1>3, <1>4 DEF TypeInv

(* A runner that is not in its processing transaction, and does not enter it *)
LEMMA RunnersMove ==
    ASSUME RunnersOK, Sent, RowsKept, UNCHANGED <<chunks, locked>>,
           NEW w \in Runners, NEW r \in RunnerType, RunnerOK(w, r), r.pc # "processing",
           runner' = [runner EXCEPT ![w] = r]
    PROVE  RunnersOK'
<1>1. runner' \in [Runners -> RunnerType]
  BY DEF RunnersOK
<1>2. \A v \in Runners : RunnerOK(v, runner[v])'
  BY DEF RunnersOK, RunnerOK, Sent, RunnerType
<1>3. \A v \in Runners : LockOK(v, runner[v])'
  <2> TAKE v \in Runners
  <2>1. CASE v = w
    BY <2>1 DEF LockOK, RunnersOK
  <2>2. CASE v # w
    <3>1. runner'[v] = runner[v] /\ RunnerOK(v, runner[v]) /\ LockOK(v, runner[v])
      BY <2>2 DEF RunnersOK
    <3>2. runner[v].pc = "processing" => runner[v].row \in Rows
      BY <3>1 DEF RunnerOK
    <3> QED
      BY <3>1, <3>2 DEF LockOK, RowsKept, Exists
  <2> QED
    BY <2>1, <2>2
<1> QED
  BY <1>1, <1>2, <1>3 DEF RunnersOK

LEMMA RunnerMoves ==
    ASSUME TypeInv, RowsKept, UNCHANGED <<chunks, locked, kind, target, request>>,
           queued' \subseteq queued, vectors' \subseteq OfDocs(Docs) \X Models, CountsOK',
           NEW w \in Runners, NEW r \in RunnerType, RunnerOK(w, r), r.pc # "processing",
           runner' = [runner EXCEPT ![w] = r]
    PROVE  TypeInv'
<1>1. BrokerOK' /\ Sent
  BY BrokerStays DEF TypeInv
<1>2. DataOK'
  BY <1>1, DataStays DEF TypeInv
<1>3. RequestsOK'
  BY <1>1, RequestsStay DEF TypeInv
<1>4. RunnersOK'
  BY <1>1, RunnersMove DEF TypeInv
<1> QED
  BY <1>1, <1>2, <1>3, <1>4 DEF TypeInv

(* Runners that are stopped, their transactions rolled back *)
LEMMA RunnersStop ==
    ASSUME RunnersOK, Sent, RowsKept, chunks' = chunks, NEW R,
           runner' = [w \in Runners |-> IF w \in R THEN IdleRunner ELSE runner[w]],
           locked' \in [Rows -> Runners \cup {None}],
           \A x \in Rows : locked[x] \notin R => locked'[x] = locked[x]
    PROVE  RunnersOK'
<1>1. runner' \in [Runners -> RunnerType]
  BY IdleRecords DEF RunnersOK
<1>2. ASSUME NEW w \in Runners
      PROVE  RunnerOK(w, runner[w])' /\ LockOK(w, runner[w])'
  <2>1. CASE w \in R
    BY <2>1 DEF IdleRunner, RunnerOK, LockOK
  <2>2. CASE w \notin R
    <3>1. /\ runner'[w] = runner[w] /\ runner[w] \in RunnerType
          /\ RunnerOK(w, runner[w]) /\ LockOK(w, runner[w])
      BY <2>2 DEF RunnersOK
    <3>2. runner[w].pc = "processing" => runner[w].row \in Rows
      BY <3>1 DEF RunnerOK
    <3>3. RunnerOK(w, runner[w])'
      BY <3>1 DEF RunnerOK, Sent, RunnerType
    <3>4. LockOK(w, runner[w])'
      BY <2>2, <3>1, <3>2 DEF LockOK, RowsKept, Exists
    <3> QED
      BY <3>3, <3>4
  <2> QED
    BY <2>1, <2>2
<1> QED
  BY <1>1, <1>2 DEF RunnersOK

-----------------------------------------------------------------------------
(* The requests *)

(* Request h writes the row q and goes on as r: no write of a request says   *)
(* COMPLETED or changes the model, and one that leaves a status QUEUED will  *)
(* act on it or did not have to.                                            *)
WritesQueued(h, q, r, k) ==
    \/ WillAct(r, Row(h), k)
    \/ StatusOf(row[Row(h)], k) = "queued" /\ ~WillAct(request[h], Row(h), k)

WriteOf(h, q, r) ==
    /\ Row(h) \in Rows /\ Exists(Row(h)) /\ Named(q.task, Row(h))
    /\ row' = [row EXCEPT ![Row(h)] = q]
    /\ request' = [request EXCEPT ![h] = r]
    /\ RequestOK(r)
    /\ q.model = row[Row(h)].model
    /\ q.embedding = "completed" => row[Row(h)].embedding = "completed"
    /\ r.pc = "revoke" => r.row = Row(h) /\ r.seen = q
    /\ \A k \in Kinds(Row(h)) : StatusOf(q, k) = "queued" => WritesQueued(h, q, r, k)

LEMMA RequestAt ==
    ASSUME TypeInv, NEW h \in Handlers
    PROVE  /\ request[h] \in RequestType /\ RequestOK(request[h])
           /\ Row(h) = request[h].row /\ Seen(h) = request[h].seen
           /\ request[h].pc \notin {"idle", "spawn"} =>
                Row(h) \in Rows /\ Seen(h) \in RowType /\ Named(Seen(h).task, Row(h))
BY DEF TypeInv, RequestsOK, RequestOK, Row, Seen

LEMMA MovesTo ==
    ASSUME TypeInv, NEW h \in Handlers, NEW pc, NEW seen \in RowType \cup {None},
           pc \in {"queue", "enqueue", "record", "revoke", "cancelled", "spawn"}, MoveTo(h, pc, seen)
    PROVE  \E r \in RequestType :
            /\ request' = [request EXCEPT ![h] = r]
            /\ r.pc = pc /\ r.seen = seen /\ r.op = request[h].op /\ r.row = Row(h)
            /\ r.task = request[h].task
<1> DEFINE r == [request[h] EXCEPT !.pc = pc, !.seen = seen]
<1>1. request[h] \in RequestType
  BY DEF TypeInv, RequestsOK
<1>2. r \in RequestType
  BY <1>1 DEF RequestType
<1>3. /\ r.pc = pc /\ r.seen = seen /\ r.op = request[h].op /\ r.row = Row(h)
      /\ r.task = request[h].task
  BY <1>1 DEF RequestType, Row
<1>4. request' = [request EXCEPT ![h] = r]
  BY DEF MoveTo, TypeInv, RequestsOK
<1> QED
  BY <1>2, <1>3, <1>4

LEMMA Finishes ==
    ASSUME NEW h \in Handlers, Finish(h)
    PROVE  /\ request' = [request EXCEPT ![h] = IdleRequest]
           /\ IdleRequest \in RequestType /\ RequestOK(IdleRequest) /\ IdleRequest.pc = "idle"
BY IdleRecords DEF Finish, IdleRequest

(* What is written is a row whose id names a message of it *)
LEMMA NewRow ==
    ASSUME NEW seen \in RowType, NEW st \in DocumentStatus, NEW e \in EmbeddingStatus,
           NEW t \in Tasks \cup {Local, None}
    PROVE  /\ [seen EXCEPT !.status = st] \in RowType
           /\ [seen EXCEPT !.status = st, !.task = t] \in RowType
           /\ [seen EXCEPT !.status = st, !.embedding = e] \in RowType
           /\ [seen EXCEPT !.embedding = e] \in RowType
           /\ [seen EXCEPT !.embedding = e, !.task = t] \in RowType
           /\ [seen EXCEPT !.task = t] \in RowType
           /\ DOMAIN seen = {"status", "embedding", "task", "model"}
BY DEF RowType

LEMMA IdsNamed ==
    ASSUME NEW x
    PROVE  Named(None, x) /\ Named(Local, x)
BY DocumentsAssumption DEF Named

LEMMA Flushes ==
    ASSUME TypeInv, NEW h \in Handlers, request[h].pc \notin {"idle", "spawn"},
           NEW new \in RowType, Named(new.task, Row(h)), Flush(Row(h), Seen(h), new)
    PROVE  \E q \in RowType :
            /\ Row(h) \in Rows /\ Exists(Row(h)) /\ row[Row(h)] \in RowType
            /\ row' = [row EXCEPT ![Row(h)] = q] /\ row'[Row(h)] = q /\ Named(q.task, Row(h))
            /\ q.status = IF new.status # Seen(h).status THEN new.status ELSE row[Row(h)].status
            /\ q.embedding = IF new.embedding # Seen(h).embedding THEN new.embedding
                             ELSE row[Row(h)].embedding
            /\ q.model = IF new.model # Seen(h).model THEN new.model ELSE row[Row(h)].model
<1>1. Row(h) \in Rows /\ Seen(h) \in RowType /\ DataOK
  BY RequestAt DEF TypeInv
<1>2. PICK q \in RowType :
        /\ row' = [row EXCEPT ![Row(h)] = q] /\ Exists(Row(h)) /\ Named(q.task, Row(h))
        /\ q.status = IF new.status # Seen(h).status THEN new.status ELSE row[Row(h)].status
        /\ q.embedding = IF new.embedding # Seen(h).embedding THEN new.embedding
                         ELSE row[Row(h)].embedding
        /\ q.model = IF new.model # Seen(h).model THEN new.model ELSE row[Row(h)].model
  BY <1>1, FlushWrites
<1>3. row'[Row(h)] = q
  BY <1>1, <1>2 DEF DataOK, RowsType
<1>4. row[Row(h)] \in RowType
  BY <1>1, <1>2, ExistsRow
<1> QED
  BY <1>1, <1>2, <1>3, <1>4

LEMMA QueueWrites ==
    ASSUME TypeInv, NEW h \in Handlers, QueueProcessing(h)
    PROVE  \E q \in RowType, r \in RequestType : WriteOf(h, q, r)
<1> DEFINE new == [Seen(h) EXCEPT !.status = "queued"]
<1>1. /\ Row(h) \in Rows /\ Seen(h) \in RowType /\ Named(Seen(h).task, Row(h))
      /\ request[h] \in RequestType /\ request[h].row = Row(h) /\ request[h].seen = Seen(h)
      /\ request[h].pc \in {"load", "queue"} /\ request[h].op \in {"process", "retry"}
      /\ Seen(h).status \notin Busy /\ Row(h) \in Docs
  BY RequestAt DEF QueueProcessing, Doing, At, RequestOK, DocOps
<1>2. /\ new \in RowType /\ Named(new.task, Row(h))
      /\ new.status = "queued" /\ new.embedding = Seen(h).embedding
      /\ new.model = Seen(h).model
  <2>1. new \in RowType
    BY <1>1, NewRow DEF DocumentStatus, EmbeddingStatus, Busy
  <2>2. /\ new.task = Seen(h).task
        /\ new.status = "queued" /\ new.embedding = Seen(h).embedding
        /\ new.model = Seen(h).model
    BY <1>1 DEF RowType
  <2> HIDE DEF new
  <2> QED
    BY <1>1, <2>1, <2>2, IdsNamed
<1> HIDE DEF new
<1>3. Flush(Row(h), Seen(h), new)
  BY DEF QueueProcessing, new
<1>4. PICK q \in RowType :
        /\ Exists(Row(h)) /\ row[Row(h)] \in RowType
        /\ row' = [row EXCEPT ![Row(h)] = q] /\ row'[Row(h)] = q /\ Named(q.task, Row(h))
        /\ q.status = IF "queued" # Seen(h).status THEN "queued" ELSE row[Row(h)].status
        /\ q.embedding = IF Seen(h).embedding # Seen(h).embedding THEN Seen(h).embedding
                         ELSE row[Row(h)].embedding
        /\ q.model = row[Row(h)].model
  BY <1>1, <1>2, <1>3, Flushes
<1>5. MoveTo(h, "enqueue", q)
  BY <1>4 DEF QueueProcessing, MoveTo
<1>6. PICK r \in RequestType :
        /\ request' = [request EXCEPT ![h] = r]
        /\ r.pc = "enqueue" /\ r.seen = q /\ r.op = request[h].op /\ r.row = Row(h)
  BY <1>5, MovesTo
<1>7. RequestOK(r)
  BY <1>1, <1>4, <1>6 DEF RequestOK, DocOps, ProjectOps, Busy
<1>8. ASSUME NEW k \in Kinds(Row(h)), StatusOf(q, k) = "queued"
      PROVE  WritesQueued(h, q, r, k)
  BY <1>1, <1>4, <1>6, <1>8 DEF Kinds, StatusOf, WritesQueued, WillAct, TaskOf, JobOf, Cancels
<1> QED
  BY <1>1, <1>4, <1>6, <1>7, <1>8 DEF WriteOf

LEMMA RestoreWrites ==
    ASSUME TypeInv, NEW h \in Handlers, RestoreUploaded(h)
    PROVE  \E q \in RowType, r \in RequestType : WriteOf(h, q, r)
<1> DEFINE new == [Seen(h) EXCEPT !.status = RestoredStatus]
<1>1. /\ Row(h) \in Rows /\ Seen(h) \in RowType /\ Named(Seen(h).task, Row(h))
      /\ request[h] \in RequestType /\ request[h].row = Row(h) /\ request[h].seen = Seen(h)
      /\ request[h].pc = "enqueue" /\ request[h].op \in {"process", "retry"}
      /\ Seen(h).status = "queued"
  BY RequestAt DEF RestoreUploaded, At, RequestOK
<1>2. /\ new \in RowType /\ Named(new.task, Row(h))
      /\ new.status = "uploaded" /\ new.embedding = Seen(h).embedding
      /\ new.model = Seen(h).model
  <2>1. new \in RowType
    BY <1>1, NewRow DEF RestoredStatus, DocumentStatus, EmbeddingStatus, Busy
  <2>2. /\ new.task = Seen(h).task
        /\ new.status = "uploaded" /\ new.embedding = Seen(h).embedding
        /\ new.model = Seen(h).model
    BY <1>1 DEF RowType, RestoredStatus
  <2> HIDE DEF new
  <2> QED
    BY <1>1, <2>1, <2>2, IdsNamed
<1> HIDE DEF new
<1>3. Flush(Row(h), Seen(h), new)
  BY DEF RestoreUploaded, new
<1>4. PICK q \in RowType :
        /\ Exists(Row(h)) /\ row[Row(h)] \in RowType
        /\ row' = [row EXCEPT ![Row(h)] = q] /\ row'[Row(h)] = q /\ Named(q.task, Row(h))
        /\ q.status = IF "uploaded" # Seen(h).status THEN "uploaded" ELSE row[Row(h)].status
        /\ q.embedding = IF Seen(h).embedding # Seen(h).embedding THEN Seen(h).embedding
                         ELSE row[Row(h)].embedding
        /\ q.model = row[Row(h)].model
  BY <1>1, <1>2, <1>3, Flushes
<1>5. PICK r \in RequestType : request' = [request EXCEPT ![h] = r] /\ RequestOK(r) /\ r.pc = "idle"
  BY Finishes DEF RestoreUploaded
<1>8. ASSUME NEW k \in Kinds(Row(h)), StatusOf(q, k) = "queued"
      PROVE  WritesQueued(h, q, r, k)
  BY <1>1, <1>4, <1>5, <1>8 DEF Kinds, StatusOf, WritesQueued, WillAct, TaskOf, JobOf, Cancels
<1> QED
  BY <1>1, <1>4, <1>5, <1>8 DEF WriteOf

LEMMA ToolQueueWrites ==
    ASSUME TypeInv, NEW h \in Handlers, ToolQueue(h)
    PROVE  \E q \in RowType, r \in RequestType : WriteOf(h, q, r)
<1> DEFINE new == [Seen(h) EXCEPT !.status = "queued", !.task = None]
<1>1. /\ Row(h) \in Rows /\ Seen(h) \in RowType /\ Named(Seen(h).task, Row(h))
      /\ request[h] \in RequestType /\ request[h].row = Row(h) /\ request[h].seen = Seen(h)
      /\ request[h].pc = "load" /\ request[h].op = "tool_process" /\ Row(h) \in Docs
  BY RequestAt DEF ToolQueue, Doing, At, RequestOK, DocOps
<1>2. /\ new \in RowType /\ Named(new.task, Row(h))
      /\ new.status = "queued" /\ new.embedding = Seen(h).embedding
      /\ new.model = Seen(h).model
  <2>1. new \in RowType
    BY <1>1, NewRow DEF DocumentStatus, EmbeddingStatus, Busy
  <2>2. /\ new.task = None
        /\ new.status = "queued" /\ new.embedding = Seen(h).embedding
        /\ new.model = Seen(h).model
    BY <1>1 DEF RowType
  <2> HIDE DEF new
  <2> QED
    BY <1>1, <2>1, <2>2, IdsNamed
<1> HIDE DEF new
<1>3. Flush(Row(h), Seen(h), new)
  BY DEF ToolQueue, new
<1>4. PICK q \in RowType :
        /\ Exists(Row(h)) /\ row[Row(h)] \in RowType
        /\ row' = [row EXCEPT ![Row(h)] = q] /\ row'[Row(h)] = q /\ Named(q.task, Row(h))
        /\ q.status = IF "queued" # Seen(h).status THEN "queued" ELSE row[Row(h)].status
        /\ q.embedding = IF Seen(h).embedding # Seen(h).embedding THEN Seen(h).embedding
                         ELSE row[Row(h)].embedding
        /\ q.model = row[Row(h)].model
  BY <1>1, <1>2, <1>3, Flushes
<1>5. MoveTo(h, "enqueue", q)
  BY <1>4 DEF ToolQueue, MoveTo
<1>6. PICK r \in RequestType :
        /\ request' = [request EXCEPT ![h] = r]
        /\ r.pc = "enqueue" /\ r.seen = q /\ r.op = request[h].op /\ r.row = Row(h)
  BY <1>5, MovesTo
<1>7. RequestOK(r)
  BY <1>1, <1>4, <1>6 DEF RequestOK, DocOps, ProjectOps, Busy
<1>8. ASSUME NEW k \in Kinds(Row(h)), StatusOf(q, k) = "queued"
      PROVE  WritesQueued(h, q, r, k)
  BY <1>1, <1>4, <1>6, <1>8 DEF Kinds, StatusOf, WritesQueued, WillAct, TaskOf, JobOf, Cancels
<1> QED
  BY <1>1, <1>4, <1>6, <1>7, <1>8 DEF WriteOf

LEMMA CancelMarkWrites ==
    ASSUME TypeInv, NEW h \in Handlers, CancelMark(h)
    PROVE  \E q \in RowType, r \in RequestType : WriteOf(h, q, r)
<1> DEFINE new == [Seen(h) EXCEPT !.status = "cancelling"]
<1>1. /\ Row(h) \in Rows /\ Seen(h) \in RowType /\ Named(Seen(h).task, Row(h))
      /\ request[h] \in RequestType /\ request[h].row = Row(h) /\ request[h].seen = Seen(h)
      /\ request[h].pc = "load" /\ request[h].op = "cancel" /\ Row(h) \in Docs
  BY RequestAt DEF CancelMark, Doing, At, RequestOK, DocOps
<1>2. /\ new \in RowType /\ Named(new.task, Row(h))
      /\ new.status = "cancelling" /\ new.embedding = Seen(h).embedding
      /\ new.model = Seen(h).model
  <2>1. new \in RowType
    BY <1>1, NewRow DEF DocumentStatus, EmbeddingStatus, Busy
  <2>2. /\ new.task = Seen(h).task
        /\ new.status = "cancelling" /\ new.embedding = Seen(h).embedding
        /\ new.model = Seen(h).model
    BY <1>1 DEF RowType
  <2> HIDE DEF new
  <2> QED
    BY <1>1, <2>1, <2>2, IdsNamed
<1> HIDE DEF new
<1>3. Flush(Row(h), Seen(h), new)
  BY DEF CancelMark, new
<1>4. PICK q \in RowType :
        /\ Exists(Row(h)) /\ row[Row(h)] \in RowType
        /\ row' = [row EXCEPT ![Row(h)] = q] /\ row'[Row(h)] = q /\ Named(q.task, Row(h))
        /\ q.status = IF "cancelling" # Seen(h).status THEN "cancelling" ELSE row[Row(h)].status
        /\ q.embedding = IF Seen(h).embedding # Seen(h).embedding THEN Seen(h).embedding
                         ELSE row[Row(h)].embedding
        /\ q.model = row[Row(h)].model
  BY <1>1, <1>2, <1>3, Flushes
<1>5. MoveTo(h, "revoke", q)
  BY <1>4 DEF CancelMark, MoveTo
<1>6. PICK r \in RequestType :
        /\ request' = [request EXCEPT ![h] = r]
        /\ r.pc = "revoke" /\ r.seen = q /\ r.op = request[h].op /\ r.row = Row(h)
  BY <1>5, MovesTo
<1>7. RequestOK(r)
  BY <1>1, <1>4, <1>6 DEF RequestOK, DocOps, ProjectOps, Busy
<1>8. ASSUME NEW k \in Kinds(Row(h)), StatusOf(q, k) = "queued"
      PROVE  WritesQueued(h, q, r, k)
  BY <1>1, <1>4, <1>6, <1>8 DEF Kinds, StatusOf, WritesQueued, WillAct, TaskOf, JobOf, Cancels
<1> QED
  BY <1>1, <1>4, <1>6, <1>7, <1>8 DEF WriteOf

LEMMA CancelDoneWrites ==
    ASSUME TypeInv, NEW h \in Handlers, CancelDone(h)
    PROVE  \E q \in RowType, r \in RequestType : WriteOf(h, q, r)
<1> DEFINE new == [Seen(h) EXCEPT !.status = "cancelled", !.embedding = "cancelled"]
<1>1. /\ Row(h) \in Rows /\ Seen(h) \in RowType /\ Named(Seen(h).task, Row(h))
      /\ request[h] \in RequestType /\ request[h].row = Row(h) /\ request[h].seen = Seen(h)
      /\ request[h].pc = "cancelled" /\ request[h].op = "cancel"
  BY RequestAt DEF CancelDone, At, RequestOK
<1>2. /\ new \in RowType /\ Named(new.task, Row(h))
      /\ new.status = "cancelled" /\ new.embedding = "cancelled"
      /\ new.model = Seen(h).model
  BY <1>1 DEF DocumentStatus, EmbeddingStatus, Busy, RowType
<1> HIDE DEF new
<1>3. Flush(Row(h), Seen(h), new)
  BY DEF CancelDone, new
<1>4. PICK q \in RowType :
        /\ Exists(Row(h)) /\ row[Row(h)] \in RowType
        /\ row' = [row EXCEPT ![Row(h)] = q] /\ row'[Row(h)] = q /\ Named(q.task, Row(h))
        /\ q.status = IF "cancelled" # Seen(h).status THEN "cancelled" ELSE row[Row(h)].status
        /\ q.embedding = IF "cancelled" # Seen(h).embedding THEN "cancelled"
                         ELSE row[Row(h)].embedding
        /\ q.model = row[Row(h)].model
  BY <1>1, <1>2, <1>3, Flushes
<1>5. PICK r \in RequestType : request' = [request EXCEPT ![h] = r] /\ RequestOK(r) /\ r.pc = "idle"
  BY Finishes DEF CancelDone
<1>8. ASSUME NEW k \in Kinds(Row(h)), StatusOf(q, k) = "queued"
      PROVE  WritesQueued(h, q, r, k)
  BY <1>1, <1>4, <1>5, <1>8 DEF Kinds, StatusOf, WritesQueued, WillAct, TaskOf, JobOf, Cancels
<1> QED
  BY <1>1, <1>4, <1>5, <1>8 DEF WriteOf

LEMMA QueueLocalWrites ==
    ASSUME TypeInv, NEW h \in Handlers, QueueLocal(h)
    PROVE  \E q \in RowType, r \in RequestType : WriteOf(h, q, r)
<1> DEFINE new == [Seen(h) EXCEPT !.embedding = "queued", !.task = Local]
<1>1. /\ Row(h) \in Rows /\ Seen(h) \in RowType /\ Named(Seen(h).task, Row(h))
      /\ request[h] \in RequestType /\ request[h].row = Row(h) /\ request[h].seen = Seen(h)
      /\ request[h].pc = "load" /\ request[h].op \in {"rebuild", "resume_rebuild", "retry_rebuild", "sync"}
      /\ request[h].op \in DocOps => Row(h) \in Docs
      /\ request[h].op = "sync" => Row(h) = Project
  BY RequestAt DEF QueueLocal, Doing, At, RequestOK, DocOps, ProjectOps
<1>2. /\ new \in RowType /\ Named(new.task, Row(h))
      /\ new.status = Seen(h).status /\ new.embedding = "queued"
      /\ new.model = Seen(h).model
  <2>1. new \in RowType
    BY <1>1, NewRow DEF DocumentStatus, EmbeddingStatus, Busy
  <2>2. /\ new.task = Local
        /\ new.status = Seen(h).status /\ new.embedding = "queued"
        /\ new.model = Seen(h).model
    BY <1>1 DEF RowType
  <2> HIDE DEF new
  <2> QED
    BY <1>1, <2>1, <2>2, IdsNamed
<1> HIDE DEF new
<1>3. Flush(Row(h), Seen(h), new)
  BY DEF QueueLocal, new
<1>4. PICK q \in RowType :
        /\ Exists(Row(h)) /\ row[Row(h)] \in RowType
        /\ row' = [row EXCEPT ![Row(h)] = q] /\ row'[Row(h)] = q /\ Named(q.task, Row(h))
        /\ q.status = IF Seen(h).status # Seen(h).status THEN Seen(h).status ELSE row[Row(h)].status
        /\ q.embedding = IF "queued" # Seen(h).embedding THEN "queued"
                         ELSE row[Row(h)].embedding
        /\ q.model = row[Row(h)].model
  BY <1>1, <1>2, <1>3, Flushes
<1>5. MoveTo(h, "spawn", None)
  BY DEF QueueLocal
<1>6. PICK r \in RequestType :
        /\ request' = [request EXCEPT ![h] = r]
        /\ r.pc = "spawn" /\ r.seen = None /\ r.op = request[h].op /\ r.row = Row(h)
  BY <1>5, MovesTo
<1>7. RequestOK(r)
  BY <1>1, <1>4, <1>6 DEF RequestOK, DocOps, ProjectOps, Busy
<1>8. ASSUME NEW k \in Kinds(Row(h)), StatusOf(q, k) = "queued"
      PROVE  WritesQueued(h, q, r, k)
  BY <1>1, <1>4, <1>6, <1>8 DEF Kinds, StatusOf, WritesQueued, WillAct, TaskOf, JobOf, Cancels
<1> QED
  BY <1>1, <1>4, <1>6, <1>7, <1>8 DEF WriteOf

LEMMA QueueToolWrites ==
    ASSUME TypeInv, NEW h \in Handlers, QueueTool(h)
    PROVE  \E q \in RowType, r \in RequestType : WriteOf(h, q, r)
<1> DEFINE new == [Seen(h) EXCEPT !.embedding = "queued", !.task = IF Row(h) = Project THEN None ELSE @]
<1>1. /\ Row(h) \in Rows /\ Seen(h) \in RowType /\ Named(Seen(h).task, Row(h))
      /\ request[h] \in RequestType /\ request[h].row = Row(h) /\ request[h].seen = Seen(h)
      /\ request[h].pc = "load" /\ request[h].op \in {"tool_rebuild", "tool_sync"}
      /\ request[h].op = "tool_rebuild" => Row(h) \in Docs
      /\ request[h].op = "tool_sync" => Row(h) = Project
  BY RequestAt DEF QueueTool, Doing, At, RequestOK, DocOps, ProjectOps
<1>2. /\ new \in RowType /\ Named(new.task, Row(h))
      /\ new.status = Seen(h).status /\ new.embedding = "queued"
      /\ new.model = Seen(h).model
  <2>1. new \in RowType
    BY <1>1 DEF RowType, EmbeddingStatus, Busy
  <2>2. /\ new.task = (IF Row(h) = Project THEN None ELSE Seen(h).task)
        /\ new.status = Seen(h).status /\ new.embedding = "queued"
        /\ new.model = Seen(h).model
    BY <1>1 DEF RowType
  <2> HIDE DEF new
  <2> QED
    BY <1>1, <2>1, <2>2, IdsNamed
<1> HIDE DEF new
<1>3. Flush(Row(h), Seen(h), new)
  BY DEF QueueTool, new
<1>4. PICK q \in RowType :
        /\ Exists(Row(h)) /\ row[Row(h)] \in RowType
        /\ row' = [row EXCEPT ![Row(h)] = q] /\ row'[Row(h)] = q /\ Named(q.task, Row(h))
        /\ q.status = IF Seen(h).status # Seen(h).status THEN Seen(h).status ELSE row[Row(h)].status
        /\ q.embedding = IF "queued" # Seen(h).embedding THEN "queued"
                         ELSE row[Row(h)].embedding
        /\ q.model = row[Row(h)].model
  BY <1>1, <1>2, <1>3, Flushes
<1>5. MoveTo(h, "enqueue", q)
  BY <1>4 DEF QueueTool, MoveTo
<1>6. PICK r \in RequestType :
        /\ request' = [request EXCEPT ![h] = r]
        /\ r.pc = "enqueue" /\ r.seen = q /\ r.op = request[h].op /\ r.row = Row(h)
  BY <1>5, MovesTo
<1>7. RequestOK(r)
  BY <1>1, <1>4, <1>6 DEF RequestOK, DocOps, ProjectOps, Busy
<1>8. ASSUME NEW k \in Kinds(Row(h)), StatusOf(q, k) = "queued"
      PROVE  WritesQueued(h, q, r, k)
  BY <1>1, <1>4, <1>6, <1>8, DocumentsAssumption DEF Kinds, StatusOf, WritesQueued, WillAct, TaskOf, JobOf, Cancels
<1> QED
  BY <1>1, <1>4, <1>6, <1>7, <1>8 DEF WriteOf

LEMMA MarkCancellingWrites ==
    ASSUME TypeInv, NEW h \in Handlers, MarkCancelling(h)
    PROVE  \E q \in RowType, r \in RequestType : WriteOf(h, q, r)
<1> DEFINE new == [Seen(h) EXCEPT !.embedding = "cancelling"]
<1>1. /\ Row(h) \in Rows /\ Seen(h) \in RowType /\ Named(Seen(h).task, Row(h))
      /\ request[h] \in RequestType /\ request[h].row = Row(h) /\ request[h].seen = Seen(h)
      /\ request[h].pc = "load" /\ request[h].op = "cancel_job"
  BY RequestAt DEF MarkCancelling, Doing, At, RequestOK
<1>2. /\ new \in RowType /\ Named(new.task, Row(h))
      /\ new.status = Seen(h).status /\ new.embedding = "cancelling"
      /\ new.model = Seen(h).model
  <2>1. new \in RowType
    BY <1>1, NewRow DEF DocumentStatus, EmbeddingStatus, Busy
  <2>2. /\ new.task = Seen(h).task
        /\ new.status = Seen(h).status /\ new.embedding = "cancelling"
        /\ new.model = Seen(h).model
    BY <1>1 DEF RowType
  <2> HIDE DEF new
  <2> QED
    BY <1>1, <2>1, <2>2, IdsNamed
<1> HIDE DEF new
<1>3. Flush(Row(h), Seen(h), new)
  BY DEF MarkCancelling, new
<1>4. PICK q \in RowType :
        /\ Exists(Row(h)) /\ row[Row(h)] \in RowType
        /\ row' = [row EXCEPT ![Row(h)] = q] /\ row'[Row(h)] = q /\ Named(q.task, Row(h))
        /\ q.status = IF Seen(h).status # Seen(h).status THEN Seen(h).status ELSE row[Row(h)].status
        /\ q.embedding = IF "cancelling" # Seen(h).embedding THEN "cancelling"
                         ELSE row[Row(h)].embedding
        /\ q.model = row[Row(h)].model
  BY <1>1, <1>2, <1>3, Flushes
<1>5. MoveTo(h, "revoke", q)
  BY <1>4 DEF MarkCancelling, MoveTo
<1>6. PICK r \in RequestType :
        /\ request' = [request EXCEPT ![h] = r]
        /\ r.pc = "revoke" /\ r.seen = q /\ r.op = request[h].op /\ r.row = Row(h)
  BY <1>5, MovesTo
<1>7. RequestOK(r)
  BY <1>1, <1>4, <1>6 DEF RequestOK, DocOps, ProjectOps, Busy
<1>8. ASSUME NEW k \in Kinds(Row(h)), StatusOf(q, k) = "queued"
      PROVE  WritesQueued(h, q, r, k)
  <2>1. ~WillAct(request[h], Row(h), k)
    BY <1>1 DEF WillAct
  <2>2. StatusOf(row[Row(h)], k) = "queued"
    BY <1>4, <1>8 DEF StatusOf
  <2> QED
    BY <2>1, <2>2 DEF WritesQueued
<1> QED
  BY <1>1, <1>4, <1>6, <1>7, <1>8 DEF WriteOf

LEMMA MarkCancelledWrites ==
    ASSUME TypeInv, NEW h \in Handlers, MarkCancelled(h)
    PROVE  \E q \in RowType, r \in RequestType : WriteOf(h, q, r)
<1> DEFINE new == [Seen(h) EXCEPT !.embedding = "cancelled", !.task = None]
<1>1. /\ Row(h) \in Rows /\ Seen(h) \in RowType /\ Named(Seen(h).task, Row(h))
      /\ request[h] \in RequestType /\ request[h].row = Row(h) /\ request[h].seen = Seen(h)
      /\ request[h].pc = "cancelled" /\ request[h].op = "cancel_job"
  BY RequestAt DEF MarkCancelled, At, RequestOK
<1>2. /\ new \in RowType /\ Named(new.task, Row(h))
      /\ new.status = Seen(h).status /\ new.embedding = "cancelled"
      /\ new.model = Seen(h).model
  <2>1. new \in RowType
    BY <1>1, NewRow DEF DocumentStatus, EmbeddingStatus, Busy
  <2>2. /\ new.task = None
        /\ new.status = Seen(h).status /\ new.embedding = "cancelled"
        /\ new.model = Seen(h).model
    BY <1>1 DEF RowType
  <2> HIDE DEF new
  <2> QED
    BY <1>1, <2>1, <2>2, IdsNamed
<1> HIDE DEF new
<1>3. Flush(Row(h), Seen(h), new)
  BY DEF MarkCancelled, new
<1>4. PICK q \in RowType :
        /\ Exists(Row(h)) /\ row[Row(h)] \in RowType
        /\ row' = [row EXCEPT ![Row(h)] = q] /\ row'[Row(h)] = q /\ Named(q.task, Row(h))
        /\ q.status = IF Seen(h).status # Seen(h).status THEN Seen(h).status ELSE row[Row(h)].status
        /\ q.embedding = IF "cancelled" # Seen(h).embedding THEN "cancelled"
                         ELSE row[Row(h)].embedding
        /\ q.model = row[Row(h)].model
  BY <1>1, <1>2, <1>3, Flushes
<1>5. PICK r \in RequestType : request' = [request EXCEPT ![h] = r] /\ RequestOK(r) /\ r.pc = "idle"
  BY Finishes DEF MarkCancelled
<1>8. ASSUME NEW k \in Kinds(Row(h)), StatusOf(q, k) = "queued"
      PROVE  WritesQueued(h, q, r, k)
  BY <1>1, <1>4, <1>5, <1>8 DEF Kinds, StatusOf, WritesQueued, WillAct, TaskOf, JobOf, Cancels
<1> QED
  BY <1>1, <1>4, <1>5, <1>8 DEF WriteOf

LEMMA RecordWrites ==
    ASSUME TypeInv, NEW h \in Handlers, Record(h)
    PROVE  \E q \in RowType, r \in RequestType : WriteOf(h, q, r)
<1> DEFINE new == [Seen(h) EXCEPT !.task = request[h].task]
<1>1. /\ Row(h) \in Rows /\ Seen(h) \in RowType /\ Named(Seen(h).task, Row(h))
      /\ request[h] \in RequestType /\ request[h].row = Row(h) /\ request[h].seen = Seen(h)
      /\ request[h].pc = "record" /\ request[h].task \in Tasks /\ Named(request[h].task, Row(h))
  BY RequestAt DEF Record, At, RequestOK
<1>2. /\ new \in RowType /\ Named(new.task, Row(h))
      /\ new.status = Seen(h).status /\ new.embedding = Seen(h).embedding
      /\ new.model = Seen(h).model
  <2>1. new \in RowType
    BY <1>1, NewRow DEF DocumentStatus, EmbeddingStatus, Busy
  <2>2. /\ new.task = request[h].task
        /\ new.status = Seen(h).status /\ new.embedding = Seen(h).embedding
        /\ new.model = Seen(h).model
    BY <1>1 DEF RowType
  <2> HIDE DEF new
  <2> QED
    BY <1>1, <2>1, <2>2, IdsNamed
<1> HIDE DEF new
<1>3. Flush(Row(h), Seen(h), new)
  BY DEF Record, new
<1>4. PICK q \in RowType :
        /\ Exists(Row(h)) /\ row[Row(h)] \in RowType
        /\ row' = [row EXCEPT ![Row(h)] = q] /\ row'[Row(h)] = q /\ Named(q.task, Row(h))
        /\ q.status = IF Seen(h).status # Seen(h).status THEN Seen(h).status ELSE row[Row(h)].status
        /\ q.embedding = IF Seen(h).embedding # Seen(h).embedding THEN Seen(h).embedding
                         ELSE row[Row(h)].embedding
        /\ q.model = row[Row(h)].model
  BY <1>1, <1>2, <1>3, Flushes
<1>5. PICK r \in RequestType : request' = [request EXCEPT ![h] = r] /\ RequestOK(r) /\ r.pc = "idle"
  BY Finishes DEF Record
<1>8. ASSUME NEW k \in Kinds(Row(h)), StatusOf(q, k) = "queued"
      PROVE  WritesQueued(h, q, r, k)
  BY <1>1, <1>4, <1>5, <1>8 DEF Kinds, StatusOf, WritesQueued, WillAct, TaskOf, JobOf, Cancels
<1> QED
  BY <1>1, <1>4, <1>5, <1>8 DEF WriteOf

LEMMA RetryWrites ==
    ASSUME TypeInv, NEW h \in Handlers, RetryReset(h)
    PROVE  \E q \in RowType, r \in RequestType : WriteOf(h, q, r)
<1> DEFINE new == [Seen(h) EXCEPT !.status = "uploaded"]
<1>1. /\ Row(h) \in Rows /\ Seen(h) \in RowType /\ Named(Seen(h).task, Row(h))
      /\ request[h] \in RequestType /\ request[h].row = Row(h) /\ request[h].seen = Seen(h)
      /\ request[h].pc = "load" /\ request[h].op = "retry" /\ Row(h) \in Docs
  BY RequestAt DEF RetryReset, Doing, At, RequestOK, DocOps
<1>2. /\ new \in RowType /\ Named(new.task, Row(h))
      /\ new.status = "uploaded" /\ new.embedding = Seen(h).embedding
      /\ new.model = Seen(h).model
  <2>1. new \in RowType
    BY <1>1, NewRow DEF DocumentStatus, EmbeddingStatus, Busy
  <2>2. /\ new.task = Seen(h).task
        /\ new.status = "uploaded" /\ new.embedding = Seen(h).embedding
        /\ new.model = Seen(h).model
    BY <1>1 DEF RowType
  <2> HIDE DEF new
  <2> QED
    BY <1>1, <2>1, <2>2, IdsNamed
<1> HIDE DEF new
<1>3. Flush(Row(h), Seen(h), new)
  BY DEF RetryReset, new
<1>4. PICK q \in RowType :
        /\ Exists(Row(h)) /\ row[Row(h)] \in RowType
        /\ row' = [row EXCEPT ![Row(h)] = q] /\ row'[Row(h)] = q /\ Named(q.task, Row(h))
        /\ q.status = IF "uploaded" # Seen(h).status THEN "uploaded" ELSE row[Row(h)].status
        /\ q.embedding = IF Seen(h).embedding # Seen(h).embedding THEN Seen(h).embedding
                         ELSE row[Row(h)].embedding
        /\ q.model = row[Row(h)].model
  BY <1>1, <1>2, <1>3, Flushes
<1>5. CASE q.status \notin Busy
  <2>1. MoveTo(h, "queue", q)
    BY <1>4, <1>5 DEF RetryReset, MoveTo, UnscheduledStatus
  <2>2. PICK r \in RequestType :
        /\ request' = [request EXCEPT ![h] = r]
        /\ r.pc = "queue" /\ r.seen = q /\ r.op = request[h].op /\ r.row = Row(h)
    BY <2>1, MovesTo
  <2>3. RequestOK(r)
    BY <1>1, <1>4, <1>5, <2>2 DEF RequestOK, DocOps, ProjectOps, Busy
  <2>4. ASSUME NEW k \in Kinds(Row(h)), StatusOf(q, k) = "queued"
        PROVE  WritesQueued(h, q, r, k)
    BY <1>1, <1>4, <1>5, <2>2, <2>4 DEF Kinds, StatusOf, WritesQueued, WillAct, JobOf, Busy
  <2> QED
    BY <1>1, <1>4, <2>2, <2>3, <2>4 DEF WriteOf
<1>6. CASE q.status \in Busy
  <2>1. PICK r \in RequestType : request' = [request EXCEPT ![h] = r] /\ RequestOK(r) /\ r.pc = "idle"
    BY <1>4, <1>6, Finishes DEF RetryReset, UnscheduledStatus
  <2>2. ASSUME NEW k \in Kinds(Row(h)), StatusOf(q, k) = "queued"
        PROVE  WritesQueued(h, q, r, k)
    BY <1>1, <1>4, <2>2 DEF Kinds, StatusOf, WritesQueued, WillAct, JobOf
  <2> QED
    BY <1>1, <1>4, <2>1, <2>2 DEF WriteOf
<1> QED
  BY <1>5, <1>6

Writing(h) ==
    \/ RetryReset(h) \/ QueueProcessing(h) \/ RestoreUploaded(h) \/ ToolQueue(h) \/ CancelMark(h)
    \/ CancelDone(h) \/ QueueLocal(h) \/ QueueTool(h) \/ MarkCancelling(h) \/ MarkCancelled(h)
    \/ Record(h)

LEMMA RequestWrites ==
    ASSUME TypeInv, NEW h \in Handlers, Writing(h)
    PROVE  /\ \E q \in RowType, r \in RequestType : WriteOf(h, q, r)
           /\ UNCHANGED <<chunks, vectors, locked, broker, runner, ghosts>>
           /\ asked' \in 0 .. MaxEvents
<1>1. \E q \in RowType, r \in RequestType : WriteOf(h, q, r)
  BY RetryWrites, QueueWrites, RestoreWrites, ToolQueueWrites, CancelMarkWrites, CancelDoneWrites,
     QueueLocalWrites, QueueToolWrites, MarkCancellingWrites, MarkCancelledWrites, RecordWrites
     DEF Writing
<1>2. UNCHANGED <<chunks, vectors, locked, broker, runner, ghosts>>
  BY DEF Writing, RetryReset, QueueProcessing, RestoreUploaded, ToolQueue, CancelMark, CancelDone,
         QueueLocal, QueueTool, MarkCancelling, MarkCancelled, Record
<1>3. asked \in 0 .. MaxEvents
  BY DEF TypeInv, CountsOK
<1>4. asked' = asked \/ (asked < MaxEvents /\ asked' = asked + 1)
  BY DEF Writing, RetryReset, QueueProcessing, RestoreUploaded, ToolQueue, CancelMark, CancelDone,
         QueueLocal, QueueTool, MarkCancelling, MarkCancelled, Record, QueueUnavailable, Faulty
<1>5. asked' \in 0 .. MaxEvents
  BY <1>3, <1>4, DocumentsAssumption
<1> QED
  BY <1>1, <1>2, <1>5

(* A request that begins with the row it loads *)
LoadOf(h, r) ==
    /\ At(h, "idle") /\ asked < MaxEvents /\ asked' = asked + 1
    /\ request' = [request EXCEPT ![h] = r]
    /\ RequestOK(r) /\ r.pc = "load" /\ r.row \in Rows
    /\ UNCHANGED <<data, broker, runner, ghosts>>

Begun(h, op, x) ==
    /\ At(h, "idle") /\ Exists(x) /\ asked < MaxEvents /\ asked' = asked + 1
    /\ request' = [request EXCEPT ![h] =
            [pc |-> "load", op |-> op, row |-> x, task |-> None, seen |-> row[x]]]
    /\ UNCHANGED <<data, broker, runner, ghosts>>

LEMMA LoadBegins ==
    ASSUME TypeInv, NEW h \in Handlers, NEW op \in DocOps \cup ProjectOps \cup {"cancel_job"},
           NEW x \in Rows, Begun(h, op, x),
           op \in DocOps => x \in Docs, op \in ProjectOps => x = Project,
           op = "process" => row[x].status \notin Busy
    PROVE  \E r \in RequestType : LoadOf(h, r)
<1> DEFINE r == [pc |-> "load", op |-> op, row |-> x, task |-> None, seen |-> row[x]]
<1>1. /\ At(h, "idle") /\ Exists(x) /\ asked < MaxEvents /\ asked' = asked + 1
      /\ request' = [request EXCEPT ![h] = r]
      /\ UNCHANGED <<data, broker, runner, ghosts>>
  BY DEF Begun
<1>2. row[x] \in RowType /\ Named(row[x].task, x)
  BY <1>1, ExistsRow DEF TypeInv, DataOK
<1>3. /\ r \in RequestType /\ r.pc = "load" /\ r.op = op /\ r.row = x /\ r.seen = row[x]
  BY <1>2 DEF RequestType
<1> HIDE DEF r
<1>4. RequestOK(r)
  BY <1>2, <1>3 DEF RequestOK
<1> QED
  BY <1>1, <1>3, <1>4 DEF LoadOf

Asking(h) == ProcessingRequest(h) \/ EmbeddingRequest(h) \/ ProjectRequest(h)

LEMMA Loads ==
    ASSUME TypeInv, NEW h \in Handlers, Asking(h)
    PROVE  \E r \in RequestType : LoadOf(h, r)
<1>1. CASE ProcessingRequest(h)
  <2>1. PICK d \in Docs : \/ ProcessRequest(h, d) \/ RetryRequest(h, d) \/ CancelRequest(h, d)
                          \/ DeleteRequest(h, d)  \/ ToolProcess(h, d)
    BY <1>1 DEF ProcessingRequest
  <2>2. \/ Begun(h, "process", d) /\ row[d].status \notin Busy
        \/ Begun(h, "retry", d) \/ Begun(h, "cancel", d) \/ Begun(h, "delete", d)
        \/ Begun(h, "tool_process", d)
    BY <2>1 DEF ProcessRequest, RetryRequest, CancelRequest, DeleteRequest, ToolProcess,
                UnscheduledStatus, Load, Begun
  <2> QED
    BY <2>2, LoadBegins, DocumentsAssumption DEF DocOps, ProjectOps, Rows
<1>2. CASE EmbeddingRequest(h)
  <2>1. ASSUME NEW d \in Docs,
               \/ RebuildRequest(h, d) \/ ResumeRebuild(h, d) \/ RetryRebuild(h, d)
               \/ CancelRebuild(h, d)  \/ ToolRebuild(h, d)
        PROVE  \E r \in RequestType : LoadOf(h, r)
    <3>1. \/ Begun(h, "rebuild", d) \/ Begun(h, "resume_rebuild", d) \/ Begun(h, "retry_rebuild", d)
          \/ Begun(h, "cancel_job", d) \/ Begun(h, "tool_rebuild", d)
      BY <2>1 DEF RebuildRequest, ResumeRebuild, RetryRebuild, CancelRebuild, ToolRebuild, Ask, Load, Begun
    <3> QED
      BY <3>1, LoadBegins, DocumentsAssumption DEF DocOps, ProjectOps, Rows
  <2>2. ASSUME SyncRequest(h) \/ ResumeSync(h) \/ RetrySync(h) \/ CancelSync(h) \/ ToolSync(h)
        PROVE  \E r \in RequestType : LoadOf(h, r)
    <3>1. Begun(h, "sync", Project) \/ Begun(h, "cancel_job", Project) \/ Begun(h, "tool_sync", Project)
      BY <2>2 DEF SyncRequest, ResumeSync, RetrySync, CancelSync, ToolSync, Load, Begun
    <3> QED
      BY <3>1, LoadBegins, DocumentsAssumption DEF DocOps, ProjectOps, Rows
  <2> QED
    BY <1>2, <2>1, <2>2 DEF EmbeddingRequest
<1>3. CASE ProjectRequest(h)
  <2>1. Begun(h, "delete_project", Project)
    BY <1>3 DEF ProjectRequest, Load, Begun
  <2> QED
    BY <2>1, LoadBegins, DocumentsAssumption DEF DocOps, ProjectOps, Rows
<1> QED
  BY <1>1, <1>2, <1>3 DEF Asking

(* A request that sends a message *)
LEMMA Enqueues ==
    ASSUME TypeInv, NEW h \in Handlers, Enqueue(h)
    PROVE  \E t \in Tasks, r \in RequestType :
            /\ At(h, "enqueue") /\ Exists(Row(h)) /\ Row(h) \in Rows
            /\ kind[t] = "none" /\ TaskOf(request[h].op) \in {"process", "rebuild", "sync"}
            /\ kind' = [kind EXCEPT ![t] = TaskOf(request[h].op)]
            /\ target' = [target EXCEPT ![t] = Row(h)] /\ queued' = queued \cup {t}
            /\ TaskOf(request[h].op) \in {"process", "rebuild"} => Row(h) \in Docs
            /\ TaskOf(request[h].op) = "sync" => Row(h) = Project
            /\ request' = [request EXCEPT ![h] = r]
            /\ r.pc = "record" /\ r.row = Row(h) /\ r.task = t /\ RequestOK(r)'
            /\ UNCHANGED <<data, runner, asked, ghosts>>
<1>1. PICK t \in Tasks :
        /\ Publish(TaskOf(request[h].op), Row(h), t)
        /\ request' = [request EXCEPT ![h].pc = "record", ![h].task = t]
  BY DEF Enqueue
<1>2. /\ request[h].pc = "enqueue" /\ request[h] \in RequestType /\ Row(h) = request[h].row
      /\ request[h].op \in {"process", "retry", "tool_process", "tool_rebuild", "tool_sync"}
      /\ request[h].op \in DocOps => Row(h) \in Docs
      /\ request[h].op \in ProjectOps => Row(h) = Project
      /\ Row(h) \in Rows /\ Seen(h) = request[h].seen /\ Seen(h) \in RowType
      /\ Named(Seen(h).task, Row(h))
  BY RequestAt DEF Enqueue, At, RequestOK
<1>3. /\ TaskOf(request[h].op) \in {"process", "rebuild", "sync"}
      /\ TaskOf(request[h].op) \in {"process", "rebuild"} => Row(h) \in Docs
      /\ TaskOf(request[h].op) = "sync" => Row(h) = Project
  BY <1>2 DEF TaskOf, DocOps, ProjectOps
<1>4. /\ kind[t] = "none"
      /\ kind' = [kind EXCEPT ![t] = TaskOf(request[h].op)]
      /\ target' = [target EXCEPT ![t] = Row(h)] /\ queued' = queued \cup {t}
  BY <1>1 DEF Publish
<1>5. PICK r \in RequestType :
        /\ request' = [request EXCEPT ![h] = r]
        /\ r.pc = "record" /\ r.task = t /\ r.op = request[h].op /\ r.row = Row(h) /\ r.seen = Seen(h)
  <2> DEFINE r == [request[h] EXCEPT !.pc = "record", !.task = t]
  <2>1. /\ r \in RequestType
        /\ r.pc = "record" /\ r.task = t /\ r.op = request[h].op /\ r.row = Row(h) /\ r.seen = Seen(h)
    BY <1>2 DEF RequestType
  <2>2. request' = [request EXCEPT ![h] = r]
    BY <1>1 DEF TypeInv, RequestsOK
  <2> QED
    BY <2>1, <2>2
<1>6. kind'[t] = TaskOf(request[h].op) /\ target'[t] = Row(h)
  BY <1>4 DEF TypeInv, BrokerOK
<1>8. Sent
  BY <1>4 DEF Sent, TypeInv, BrokerOK
<1>9. RequestOK(r)'
  <2>1. r.seen.task \in Tasks => kind'[r.seen.task] # "none" /\ target'[r.seen.task] = r.row
    BY <1>2, <1>5, <1>8 DEF Sent, Named
  <2>2. kind'[t] # "none" /\ target'[t] = r.row
    BY <1>3, <1>5, <1>6
  <2> QED
    BY <1>2, <1>5, <2>1, <2>2 DEF RequestOK, Named
<1>10. At(h, "enqueue") /\ Exists(Row(h)) /\ UNCHANGED <<data, runner, asked, ghosts>>
  BY DEF Enqueue
<1> QED
  BY <1>2, <1>3, <1>4, <1>5, <1>9, <1>10

LEMMA EnqueueType ==
    ASSUME TypeInv, NEW h \in Handlers, Enqueue(h)
    PROVE  TypeInv'
<1>1. PICK t \in Tasks, r \in RequestType :
            /\ At(h, "enqueue") /\ Exists(Row(h)) /\ Row(h) \in Rows
            /\ kind[t] = "none" /\ TaskOf(request[h].op) \in {"process", "rebuild", "sync"}
            /\ kind' = [kind EXCEPT ![t] = TaskOf(request[h].op)]
            /\ target' = [target EXCEPT ![t] = Row(h)] /\ queued' = queued \cup {t}
            /\ TaskOf(request[h].op) \in {"process", "rebuild"} => Row(h) \in Docs
            /\ TaskOf(request[h].op) = "sync" => Row(h) = Project
            /\ request' = [request EXCEPT ![h] = r]
            /\ r.pc = "record" /\ r.row = Row(h) /\ r.task = t /\ RequestOK(r)'
            /\ UNCHANGED <<data, runner, asked, ghosts>>
  BY Enqueues
<1> DEFINE k == TaskOf(request[h].op)
<1>2. Sent
  BY <1>1 DEF Sent, TypeInv, BrokerOK
<1> HIDE DEF k
<1>3. /\ kind' = [kind EXCEPT ![t] = k] /\ target' = [target EXCEPT ![t] = Row(h)]
      /\ k \in {"process", "rebuild", "sync"}
      /\ k \in {"process", "rebuild"} => Row(h) \in Docs
      /\ k = "sync" => Row(h) = Project
  BY <1>1 DEF k
<1>4. BrokerOK'
  <2>1. /\ kind' \in [Tasks -> {"none", "process", "rebuild", "sync"}]
        /\ target' \in [Tasks -> Rows \cup {None}] /\ queued' \subseteq Tasks
    BY <1>1, <1>3 DEF TypeInv, BrokerOK
  <2>2. ASSUME NEW s \in Tasks
        PROVE  MessageOK(s)'
    <3>1. CASE s = t
      BY <1>3, <3>1 DEF TypeInv, BrokerOK, MessageOK
    <3>2. CASE s # t
      BY <1>1, <1>3, <3>2 DEF TypeInv, BrokerOK, MessageOK
    <3> QED
      BY <3>1, <3>2
  <2> QED
    BY <2>1, <2>2 DEF BrokerOK
<1>5. UNCHANGED <<row, chunks, vectors, locked, runner, asked, lost, mixed>>
  BY <1>1 DEF data, ghosts
<1>6. RowsKept
  BY <1>5, SameKeepsRows DEF TypeInv
<1>7. DataOK' /\ RunnersOK' /\ RequestsOK'
  BY <1>1, <1>2, <1>5, <1>6, DataStays, RunnersStay, RequestMoves DEF TypeInv, DataOK
<1>8. CountsOK'
  BY <1>5 DEF TypeInv, CountsOK
<1> QED
  BY <1>4, <1>7, <1>8 DEF TypeInv

(* A request that revokes what it read, or is refused by the broker *)
Revoking(h) == CancelRevoke(h) \/ RevokeJob(h)

LEMMA Revokes ==
    ASSUME TypeInv, NEW h \in Handlers, Revoking(h)
    PROVE  /\ At(h, "revoke") /\ Exists(Row(h)) /\ Row(h) \in Rows /\ Seen(h) \in RowType
           /\ Named(Seen(h).task, Row(h)) /\ UNCHANGED <<row, chunks, vectors, kind, target, mixed>>
           /\ \/ /\ Revoke(Seen(h).task, IF request[h].op = "cancel" THEN {"process", "rebuild"}
                                         ELSE {"rebuild", "sync"})
                 /\ UNCHANGED asked
                 /\ \E r \in RequestType :
                        /\ request' = [request EXCEPT ![h] = r] /\ RequestOK(r)
                        /\ r.pc = "cancelled" /\ r.seen = Seen(h) /\ r.op = request[h].op /\ r.row = Row(h)
              \/ /\ lost' = lost \cup {Row(h)} /\ asked < MaxEvents /\ asked' = asked + 1
                 /\ request' = [request EXCEPT ![h] = IdleRequest]
                 /\ UNCHANGED <<queued, runner, locked>>
<1>1. /\ request[h].pc = "revoke" /\ request[h] \in RequestType /\ Row(h) = request[h].row
      /\ request[h].op \in {"cancel", "cancel_job"}
      /\ request[h].op \in DocOps => Row(h) \in Docs
      /\ Row(h) \in Rows /\ Seen(h) = request[h].seen /\ Seen(h) \in RowType
      /\ Named(Seen(h).task, Row(h))
  BY RequestAt DEF Revoking, CancelRevoke, RevokeJob, At, RequestOK
<1>2. ASSUME MoveTo(h, "cancelled", Seen(h))
      PROVE  \E r \in RequestType :
                /\ request' = [request EXCEPT ![h] = r] /\ RequestOK(r)
                /\ r.pc = "cancelled" /\ r.seen = Seen(h) /\ r.op = request[h].op /\ r.row = Row(h)
  <2>1. PICK r \in RequestType :
            /\ request' = [request EXCEPT ![h] = r]
            /\ r.pc = "cancelled" /\ r.seen = Seen(h) /\ r.op = request[h].op /\ r.row = Row(h)
    BY <1>1, <1>2, MovesTo
  <2>2. RequestOK(r)
    BY <1>1, <2>1 DEF RequestOK, DocOps, ProjectOps
  <2> QED
    BY <2>1, <2>2
<1>3. CASE CancelRevoke(h)
  BY <1>1, <1>2, <1>3 DEF CancelRevoke, Faulty, Finish, At
<1>4. CASE RevokeJob(h)
  BY <1>1, <1>2, <1>4 DEF RevokeJob, Faulty, Finish, At
<1> QED
  BY <1>3, <1>4 DEF Revoking

LEMMA RevokeType ==
    ASSUME TypeInv, NEW h \in Handlers, Revoking(h)
    PROVE  TypeInv'
<1>1. UNCHANGED <<row, chunks, vectors, kind, target, mixed>>
  BY Revokes
<1>2. RowsKept
  BY <1>1, SameKeepsRows DEF TypeInv
<1>3. Row(h) \in Rows /\ Named(Seen(h).task, Row(h)) /\ Seen(h) \in RowType
  BY Revokes
<1>4. ASSUME NEW jobs, Revoke(Seen(h).task, jobs), UNCHANGED asked, NEW r \in RequestType,
             request' = [request EXCEPT ![h] = r], RequestOK(r)
      PROVE  TypeInv'
  <2> DEFINE t == Seen(h).task
             R == Revoked(t)
  <2>1. queued' = queued \ {t} /\ Sent /\ BrokerOK'
    BY <1>1, <1>4, BrokerStays DEF Revoke, TypeInv
  <2>2. /\ runner' = [w \in Runners |-> IF w \in R THEN IdleRunner ELSE runner[w]]
        /\ locked' = [d \in Rows |-> IF locked[d] \in R THEN None ELSE locked[d]]
    BY <1>4 DEF Revoke
  <2>3. lost' \subseteq Rows
    BY <1>3, <1>4 DEF Revoke, Named, TypeInv, CountsOK, BrokerOK, MessageOK, Rows
  <2> HIDE DEF t, R
  <2>4. locked' \in [Rows -> Runners \cup {None}] /\ \A x \in Rows : locked[x] \notin R => locked'[x] = locked[x]
    BY <2>2 DEF TypeInv, RunnersOK
  <2>5. RunnersOK'
    BY <1>1, <1>2, <2>1, <2>2, <2>4, RunnersStop DEF TypeInv
  <2>6. RequestsOK'
    BY <1>4, <2>1, RequestStays, RequestMoves DEF TypeInv
  <2>7. DataOK'
    BY <1>1, <1>2, <2>1, DataStays DEF TypeInv, DataOK
  <2>8. CountsOK'
    BY <1>1, <1>4, <2>3 DEF TypeInv, CountsOK
  <2> QED
    BY <2>1, <2>5, <2>6, <2>7, <2>8 DEF TypeInv
<1>5. ASSUME lost' = lost \cup {Row(h)}, asked < MaxEvents, asked' = asked + 1,
             request' = [request EXCEPT ![h] = IdleRequest], UNCHANGED <<queued, runner, locked>>
      PROVE  TypeInv'
  <2>1. CountsOK'
    BY <1>1, <1>3, <1>5, DocumentsAssumption DEF TypeInv, CountsOK
  <2>2. IdleRequest \in RequestType /\ RequestOK(IdleRequest)
    BY IdleRecords
  <2> QED
    BY <1>1, <1>2, <1>5, <2>1, <2>2, HandlerMoves DEF broker
<1> QED
  BY <1>4, <1>5, Revokes

LEMMA WriteType ==
    ASSUME TypeInv, NEW h \in Handlers, Writing(h)
    PROVE  TypeInv'
<1>1. /\ UNCHANGED <<chunks, vectors, locked, broker, runner, ghosts>>
      /\ asked' \in 0 .. MaxEvents
  BY RequestWrites
<1>2. PICK q \in RowType, r \in RequestType : WriteOf(h, q, r)
  BY RequestWrites
<1>3. RowsKept
  BY <1>2, WriteKeepsRows DEF WriteOf, TypeInv
<1>4. CountsOK'
  BY <1>1 DEF TypeInv, CountsOK, ghosts
<1> QED
  BY <1>1, <1>2, <1>3, <1>4, HandlerMoves DEF WriteOf

LEMMA LoadType ==
    ASSUME TypeInv, NEW h \in Handlers, Asking(h)
    PROVE  TypeInv'
<1>1. PICK r \in RequestType : LoadOf(h, r)
  BY Loads
<1>2. UNCHANGED <<row, chunks, vectors, locked, broker, runner, lost, mixed>>
  BY <1>1 DEF LoadOf, data, ghosts
<1>3. RowsKept
  BY <1>2, SameKeepsRows DEF TypeInv
<1>4. CountsOK'
  BY <1>1, <1>2, DocumentsAssumption DEF LoadOf, TypeInv, CountsOK
<1> QED
  BY <1>1, <1>2, <1>3, <1>4, HandlerMoves DEF LoadOf

(* A request that ends without a write *)
Ending(h) ==
    /\ ~At(h, "idle") /\ request' = [request EXCEPT ![h] = IdleRequest]
    /\ UNCHANGED <<data, broker, runner, mixed>>
    /\ asked' \in 0 .. MaxEvents
    /\ \/ At(h, "enqueue") /\ lost' = lost \cup {Row(h)}
       \/ ~Exists(Row(h)) /\ lost' = lost

LEMMA Ends ==
    ASSUME TypeInv, NEW h \in Handlers, ToolRefused(h) \/ RowGone(h)
    PROVE  Ending(h)
<1>1. asked \in 0 .. MaxEvents
  BY DEF TypeInv, CountsOK
<1>2. CASE ToolRefused(h)
  <2>1. asked' = asked \/ (asked < MaxEvents /\ asked' = asked + 1)
    BY <1>2 DEF ToolRefused, QueueUnavailable, Faulty
  <2>2. asked' \in 0 .. MaxEvents
    BY <1>1, <2>1, DocumentsAssumption
  <2> QED
    BY <1>2, <2>2 DEF ToolRefused, Ending, Finish, At
<1>3. CASE RowGone(h)
  BY <1>1, <1>3 DEF RowGone, Ending, Finish, ghosts
<1> QED
  BY <1>2, <1>3

LEMMA EndType ==
    ASSUME TypeInv, NEW h \in Handlers, Ending(h)
    PROVE  TypeInv'
<1>1. UNCHANGED <<row, chunks, vectors, locked, broker, runner, mixed>>
  BY DEF Ending, data
<1>2. RowsKept
  BY <1>1, SameKeepsRows DEF TypeInv
<1>3. At(h, "enqueue") => Row(h) \in Rows
  BY RequestAt DEF At
<1>4. CountsOK'
  BY <1>1, <1>3 DEF Ending, TypeInv, CountsOK
<1> QED
  BY <1>1, <1>2, <1>4, IdleRecords, HandlerMoves DEF Ending

(* A runner that takes a job *)
LEMMA Begins ==
    ASSUME TypeInv, NEW w \in Runners, NEW job \in {"process", "rebuild", "sync"}, NEW x \in Rows,
           NEW t \in Tasks \cup {Local}, NEW force \in BOOLEAN, Begin(w, job, x, t, force), Exists(x)
    PROVE  \E r \in RunnerType :
            /\ runner' = [runner EXCEPT ![w] = r]
            /\ r.pc = "loaded" /\ r.job = job /\ r.row = x /\ r.task = t /\ r.seen = row[x]
            /\ r.force = force /\ row[x] \in RowType
<1> DEFINE r == [IdleRunner EXCEPT !.pc = "loaded", !.job = job, !.row = x, !.task = t,
                           !.seen = row[x], !.force = force]
<1>1. row[x] \in RowType
  BY ExistsRow DEF TypeInv
<1>2. r \in RunnerType
  BY <1>1 DEF RunnerType, IdleRunner
<1>3. r.pc = "loaded" /\ r.job = job /\ r.row = x /\ r.task = t /\ r.seen = row[x]
  BY DEF IdleRunner
<1>4. r.force = force
  BY DEF IdleRunner
<1>5. runner' = [runner EXCEPT ![w] = r]
  BY DEF Begin
<1> HIDE DEF r
<1> QED
  BY <1>1, <1>2, <1>3, <1>4, <1>5

LEMMA Spawns ==
    ASSUME TypeInv, NEW h \in Handlers, NEW s \in Slots, Spawn(h, s)
    PROVE  /\ At(h, "spawn") /\ Is(s, "idle") /\ Row(h) \in Rows
           /\ request' = [request EXCEPT ![h] = IdleRequest]
           /\ UNCHANGED <<data, broker, asked, lost>>
           /\ \/ Runnable(Row(h)) /\ NoteOverlap(s, Row(h))
                 /\ \E r \in RunnerType :
                        /\ runner' = [runner EXCEPT ![s] = r] /\ RunnerOK(s, r)
                        /\ r.pc = "loaded" /\ r.job = JobOf(Row(h)) /\ r.row = Row(h)
                        /\ r.seen = row[Row(h)] /\ (r.job = "sync" => ~r.force)
              \/ ~Runnable(Row(h)) /\ UNCHANGED <<runner, mixed>>
<1>1. /\ request[h].pc = "spawn" /\ Row(h) \in Rows
      /\ request[h].op \in {"rebuild", "resume_rebuild", "retry_rebuild", "sync"}
      /\ request[h].op = "sync" => Row(h) = Project
      /\ request[h].op # "sync" => Row(h) \in Docs
  BY RequestAt DEF Spawn, At, RequestOK, Row, DocOps, ProjectOps
<1>2. /\ At(h, "spawn") /\ Is(s, "idle") /\ request' = [request EXCEPT ![h] = IdleRequest]
      /\ UNCHANGED <<data, broker, asked, lost>>
  BY DEF Spawn, Finish
<1>3. CASE Runnable(Row(h))
  <2>1. Begin(s, JobOf(Row(h)), Row(h), Local, Forced(request[h].op)) /\ NoteOverlap(s, Row(h))
    BY <1>3 DEF Spawn, BeginJob
  <2>2. JobOf(Row(h)) \in {"rebuild", "sync"} /\ Exists(Row(h))
    BY <1>3 DEF JobOf, Runnable
  <2>3. Forced(request[h].op) \in BOOLEAN
    BY DEF Forced
  <2>4. PICK r \in RunnerType :
            /\ runner' = [runner EXCEPT ![s] = r]
            /\ r.pc = "loaded" /\ r.job = JobOf(Row(h)) /\ r.row = Row(h) /\ r.task = Local
            /\ r.seen = row[Row(h)] /\ r.force = Forced(request[h].op) /\ row[Row(h)] \in RowType
    BY <1>1, <2>1, <2>2, <2>3, Begins DEF Runners
  <2>5. RunnerOK(s, r)
    BY <1>1, <2>4, DocumentsAssumption DEF RunnerOK, JobOf, Rows
  <2>6. r.job = "sync" => ~r.force
    BY <1>1, <2>4, DocumentsAssumption DEF JobOf, Forced
  <2> QED
    BY <1>1, <1>2, <1>3, <2>1, <2>4, <2>5, <2>6
<1>4. CASE ~Runnable(Row(h))
  BY <1>1, <1>2, <1>4 DEF Spawn, BeginJob
<1> QED
  BY <1>3, <1>4

LEMMA MixedType ==
    ASSUME TypeInv, NEW w, NEW x, NoteOverlap(w, x) \/ mixed' = mixed
    PROVE  mixed' \subseteq Docs
BY DEF NoteOverlap, TypeInv, CountsOK

LEMMA SpawnType ==
    ASSUME TypeInv, NEW h \in Handlers, NEW s \in Slots, Spawn(h, s)
    PROVE  TypeInv'
<1>1. /\ UNCHANGED <<row, chunks, vectors, locked, broker, asked, lost>>
      /\ request' = [request EXCEPT ![h] = IdleRequest]
  BY Spawns DEF data
<1>2. BrokerOK' /\ Sent
  BY <1>1, BrokerStays DEF TypeInv, broker
<1>3. RowsKept
  BY <1>1, SameKeepsRows DEF TypeInv
<1>4. RunnersOK' /\ mixed' \subseteq Docs
  <2>1. CASE Runnable(Row(h))
    <3>1. PICK r \in RunnerType :
            runner' = [runner EXCEPT ![s] = r] /\ RunnerOK(s, r) /\ r.pc = "loaded"
      BY <2>1, Spawns
    <3>2. NoteOverlap(s, Row(h))
      BY <2>1, Spawns
    <3> QED
      BY <1>1, <1>2, <1>3, <3>1, <3>2, RunnersMove, MixedType DEF TypeInv, Runners
  <2>2. CASE ~Runnable(Row(h))
    <3>1. UNCHANGED <<runner, mixed>>
      BY <2>2, Spawns
    <3> QED
      BY <1>1, <1>2, <1>3, <3>1, RunnersStay DEF TypeInv, CountsOK
  <2> QED
    BY <2>1, <2>2
<1>5. RequestsOK' /\ DataOK'
  BY <1>1, <1>2, <1>3, IdleRecords, RequestMoves, DataStays DEF TypeInv, DataOK
<1>6. CountsOK'
  BY <1>1, <1>4 DEF TypeInv, CountsOK
<1> QED
  BY <1>2, <1>4, <1>5, <1>6 DEF TypeInv

(* The rows of ds go, with their chunks and vectors *)
LEMMA RemoveData ==
    ASSUME TypeInv, Sent, NEW ds \in SUBSET Rows,
           row' = [x \in Rows |-> IF x \in ds THEN None ELSE row[x]],
           chunks' = [d \in Docs |-> IF d \in ds THEN {} ELSE chunks[d]],
           vectors' = vectors \ DeleteForDocument(OfDocs(ds \cap Docs))
    PROVE  DataOK'
<1>1. row' \in RowsType /\ \A x \in Rows : Exists(x)' <=> (Exists(x) /\ x \notin ds)
  BY DEF TypeInv, DataOK, RowsType, Exists
<1>2. \A x \in Rows : Exists(x)' => Named(row[x].task, x)'
  BY <1>1 DEF TypeInv, DataOK, Sent, Named, Exists
<1>3. /\ chunks' \in [Docs -> SUBSET Chunks]
      /\ \A d, e \in Docs : d # e => chunks'[d] \cap chunks'[e] = {}
  BY DEF TypeInv, DataOK
<1>4. \A d \in Docs : Cardinality(chunks'[d]) \in {0, ChunkCount}
  BY FS_EmptySet DEF TypeInv, DataOK
<1>5. \A d \in Docs : ~Exists(d)' => chunks'[d] = {}
  BY <1>1 DEF TypeInv, DataOK, Rows
<1>6. vectors' \subseteq OfDocs(Docs)' \X Models
  <2> SUFFICES ASSUME NEW v \in vectors'
               PROVE  v \in OfDocs(Docs)' \X Models
    OBVIOUS
  <2>1. v \in vectors /\ v \notin DeleteForDocument(OfDocs(ds \cap Docs))
    OBVIOUS
  <2>2. PICK c \in OfDocs(Docs), m \in Models : v = <<c, m>>
    BY <2>1 DEF TypeInv, DataOK
  <2>3. c \notin OfDocs(ds \cap Docs)
    BY <2>1, <2>2 DEF DeleteForDocument
  <2>4. PICK d \in Docs : c \in chunks[d]
    BY <2>2 DEF OfDocs
  <2>5. d \notin ds
    BY <2>3, <2>4 DEF OfDocs
  <2>6. c \in chunks'[d]
    BY <2>4, <2>5
  <2>7. c \in OfDocs(Docs)'
    BY <2>6 DEF OfDocs
  <2> QED
    BY <2>2, <2>7
<1> QED
  BY <1>1, <1>2, <1>3, <1>4, <1>5, <1>6 DEF DataOK

(* ... which no processing has locked *)
LEMMA RemoveRunners ==
    ASSUME TypeInv, Sent, NEW ds \in SUBSET Rows,
           \A x \in ds : Exists(x) => Free(x) \/ x = Project,
           \A x \in Rows \ ds : row'[x] = row[x],
           \A d \in Docs \ ds : chunks'[d] = chunks[d],
           UNCHANGED <<runner, locked>>
    PROVE  RunnersOK'
<1>1. ASSUME NEW w \in Runners
      PROVE  LockOK(w, runner[w])'
  <2>1. /\ runner[w] \in RunnerType /\ RunnerOK(w, runner[w]) /\ LockOK(w, runner[w]) /\ w # None
    BY DocumentsAssumption DEF TypeInv, RunnersOK, Runners
  <2>2. runner[w].pc = "processing" => runner[w].row \in Docs /\ runner[w].row \notin ds
    BY <2>1, DocumentsAssumption DEF RunnerOK, LockOK, Free
  <2> QED
    BY <2>1, <2>2 DEF LockOK, Exists, Rows
<1>2. \A w \in Runners : RunnerOK(w, runner[w])'
  BY DEF TypeInv, RunnersOK, RunnerOK, Sent, RunnerType
<1> QED
  BY <1>1, <1>2 DEF TypeInv, RunnersOK

LEMMA RemoveType ==
    ASSUME TypeInv, NEW h \in Handlers, NEW ds \in SUBSET Rows,
           \A x \in ds : Exists(x) => Free(x) \/ x = Project,
           row' = [x \in Rows |-> IF x \in ds THEN None ELSE row[x]],
           chunks' = [d \in Docs |-> IF d \in ds THEN {} ELSE chunks[d]],
           vectors' = vectors \ DeleteForDocument(OfDocs(ds \cap Docs)),
           request' = [request EXCEPT ![h] = IdleRequest],
           UNCHANGED <<locked, broker, runner, asked, ghosts>>
    PROVE  TypeInv'
<1>1. BrokerOK' /\ Sent
  BY BrokerStays DEF TypeInv, broker
<1>2. DataOK'
  BY <1>1, RemoveData
<1>3. RunnersOK'
  <2>1. \A x \in Rows \ ds : row'[x] = row[x]
    OBVIOUS
  <2>2. \A d \in Docs \ ds : chunks'[d] = chunks[d]
    OBVIOUS
  <2> QED
    BY <1>1, <2>1, <2>2, RemoveRunners
<1>4. RequestsOK'
  BY <1>1, IdleRecords, RequestMoves DEF TypeInv
<1>5. CountsOK'
  BY DEF TypeInv, CountsOK, ghosts
<1> QED
  BY <1>1, <1>2, <1>3, <1>4, <1>5 DEF TypeInv

(* DELETE of a document, or of the project with all there are *)
LEMMA Deletes ==
    ASSUME TypeInv, NEW h \in Handlers, DeleteCommit(h) \/ DeleteProject(h)
    PROVE  \E ds \in SUBSET Rows :
            /\ request[h].pc = "load" /\ request' = [request EXCEPT ![h] = IdleRequest]
            /\ Row(h) \in ds /\ (\A x \in ds : Exists(x)) /\ (\A x \in ds : Free(x) \/ x = Project)
            /\ row' = [x \in Rows |-> IF x \in ds THEN None ELSE row[x]]
            /\ chunks' = [d \in Docs |-> IF d \in ds THEN {} ELSE chunks[d]]
            /\ vectors' = vectors \ DeleteForDocument(OfDocs(ds \cap Docs))
            /\ UNCHANGED <<locked, broker, runner, asked, ghosts>>
<1>1. CASE DeleteCommit(h)
  <2>1. /\ request[h].pc = "load" /\ Row(h) \in Docs /\ Exists(Row(h)) /\ Row(h) \in Rows
    BY <1>1, RequestAt DEF DeleteCommit, Doing, At, RequestOK, DocOps
  <2>2. {Row(h)} \cap Docs = {Row(h)} /\ {Row(h)} \in SUBSET Rows
    BY <2>1
  <2>3. /\ request' = [request EXCEPT ![h] = IdleRequest]
        /\ UNCHANGED <<locked, broker, runner, asked, ghosts>>
    BY <1>1 DEF DeleteCommit, Finish
  <2>4. /\ Free(Row(h))
        /\ row' = [x \in Rows |-> IF x \in {Row(h)} THEN None ELSE row[x]]
        /\ chunks' = [d \in Docs |-> IF d \in {Row(h)} THEN {} ELSE chunks[d]]
        /\ vectors' = vectors \ DeleteForDocument(OfDocs({Row(h)}))
    BY <1>1 DEF DeleteCommit, Remove
  <2> QED
    BY <2>1, <2>2, <2>3, <2>4
<1>2. CASE DeleteProject(h)
  <2> DEFINE ds == {x \in Rows : Exists(x)}
  <2>1. /\ request[h].pc = "load" /\ Row(h) = Project /\ Exists(Project) /\ Project \in Rows
        /\ request' = [request EXCEPT ![h] = IdleRequest]
        /\ UNCHANGED <<locked, broker, runner, asked, ghosts>>
    BY <1>2, RequestAt DEF DeleteProject, Doing, At, RequestOK, ProjectOps, Finish, Rows
  <2>2. \A d \in Docs : Free(d)
    BY <1>2 DEF DeleteProject
  <2>3. row' = [x \in Rows |-> IF x \in ds THEN None ELSE row[x]]
    BY <1>2, DocumentsAssumption DEF DeleteProject, Exists
  <2>4. chunks' = [d \in Docs |-> IF d \in ds THEN {} ELSE chunks[d]]
    BY <1>2 DEF DeleteProject, TypeInv, DataOK, Rows
  <2>5. vectors \ DeleteForDocument(OfDocs(ds \cap Docs)) = {}
    <3> SUFFICES ASSUME NEW v \in vectors
                 PROVE  v \in DeleteForDocument(OfDocs(ds \cap Docs))
      OBVIOUS
    <3>1. PICK c \in OfDocs(Docs), m \in Models : v = <<c, m>>
      BY DEF TypeInv, DataOK
    <3>2. PICK d \in Docs : c \in chunks[d]
      BY <3>1 DEF OfDocs
    <3>3. d \in ds \cap Docs
      BY <3>2 DEF TypeInv, DataOK, Rows
    <3>4. c \in OfDocs(ds \cap Docs)
      BY <3>2, <3>3 DEF OfDocs
    <3> QED
      BY <3>1, <3>4 DEF DeleteForDocument
  <2>6. vectors' = {}
    BY <1>2 DEF DeleteProject
  <2>7. Row(h) \in ds /\ (\A x \in ds : Exists(x)) /\ (\A x \in ds : Free(x) \/ x = Project)
    BY <2>1, <2>2 DEF Rows
  <2>8. ds \in SUBSET Rows
    OBVIOUS
  <2> HIDE DEF ds
  <2> QED
    BY <2>1, <2>3, <2>4, <2>5, <2>6, <2>7, <2>8
<1> QED
  BY <1>1, <1>2

LEMMA DeleteType ==
    ASSUME TypeInv, NEW h \in Handlers, DeleteCommit(h) \/ DeleteProject(h)
    PROVE  TypeInv'
<1>1. PICK ds \in SUBSET Rows :
            /\ request[h].pc = "load" /\ request' = [request EXCEPT ![h] = IdleRequest]
            /\ Row(h) \in ds /\ (\A x \in ds : Exists(x)) /\ (\A x \in ds : Free(x) \/ x = Project)
            /\ row' = [x \in Rows |-> IF x \in ds THEN None ELSE row[x]]
            /\ chunks' = [d \in Docs |-> IF d \in ds THEN {} ELSE chunks[d]]
            /\ vectors' = vectors \ DeleteForDocument(OfDocs(ds \cap Docs))
            /\ UNCHANGED <<locked, broker, runner, asked, ghosts>>
  BY Deletes
<1> QED
  BY <1>1, RemoveType

LEMMA UploadType ==
    ASSUME TypeInv, NEW d \in Docs, Upload(d)
    PROVE  TypeInv'
<1>1. /\ row[d] = Unborn /\ row' = [row EXCEPT ![d] = Uploaded] /\ asked < MaxEvents /\ asked' = asked + 1
      /\ UNCHANGED <<chunks, vectors, locked, broker, runner, request, ghosts>>
  BY DEF Upload
<1>2. BrokerOK' /\ Sent
  BY <1>1, BrokerStays DEF TypeInv, broker
<1>3. Uploaded \in RowType /\ Uploaded.task = None /\ d \in Rows
  BY DEF Uploaded, FreshRow, RowType, DocumentStatus, EmbeddingStatus, Rows
<1>4. row' \in RowsType /\ \A x \in Rows : Exists(x)' <=> (Exists(x) \/ x = d)
  BY <1>1, <1>3, RowIsNot DEF TypeInv, DataOK, RowsType, Exists
<1>5. \A x \in Rows : x # d => row'[x] = row[x]
  BY <1>1, <1>3 DEF TypeInv, DataOK, RowsType
<1>6. row'[d] = Uploaded
  BY <1>1, <1>3 DEF TypeInv, DataOK, RowsType
<1>7. DataOK'
  <2>1. \A x \in Rows : Exists(x)' => Named(row[x].task, x)'
    BY <1>2, <1>3, <1>4, <1>5, <1>6, DocumentsAssumption DEF TypeInv, DataOK, Sent, Named
  <2>2. OfDocs(Docs)' = OfDocs(Docs)
    BY <1>1 DEF OfDocs
  <2>3. \A e \in Docs : ~Exists(e)' => chunks'[e] = {}
    BY <1>1, <1>4 DEF TypeInv, DataOK, Rows
  <2> QED
    BY <1>1, <1>4, <2>1, <2>2, <2>3 DEF TypeInv, DataOK
<1>8. RunnersOK'
  <2>1. \A x \in {d} : Exists(x) => Free(x) \/ x = Project
    BY <1>1, DocumentsAssumption DEF Exists
  <2>2. {d} \in SUBSET Rows
    BY <1>3
  <2> QED
    BY <1>1, <1>2, <1>5, <2>1, <2>2, RemoveRunners
<1>9. RequestsOK' /\ CountsOK'
  BY <1>1, <1>2, RequestsStay, DocumentsAssumption DEF TypeInv, CountsOK, ghosts
<1> QED
  BY <1>2, <1>7, <1>8, <1>9 DEF TypeInv

-----------------------------------------------------------------------------
(* The runners *)

LEMMA RunnerAt ==
    ASSUME TypeInv, NEW w \in Runners
    PROVE  /\ runner[w] \in RunnerType /\ RunnerOK(w, runner[w]) /\ LockOK(w, runner[w])
           /\ Target(w) = runner[w].row /\ Loaded(w) = runner[w].seen
           /\ runner[w].pc # "idle" => Target(w) \in Rows
BY DEF TypeInv, RunnersOK, RunnerOK, Target, Loaded

RunnerPc == {"loaded", "processing", "failing", "fail", "list", "next", "embedded", "insert", "mark",
             "mark_project", "cancelled", "raised", "write_failed", "write_cancelled"}

(* Runner w goes on at pc with what else it has *)
LEMMA Goes ==
    ASSUME TypeInv, NEW w \in Runners, NEW pc \in RunnerPc, GoTo(w, pc)
    PROVE  \E r \in RunnerType :
            /\ runner' = [runner EXCEPT ![w] = r]
            /\ r.pc = pc /\ r.job = runner[w].job /\ r.row = Target(w) /\ r.task = runner[w].task
            /\ r.seen = Loaded(w) /\ r.todo = runner[w].todo /\ r.model = runner[w].model
            /\ r.created = runner[w].created /\ r.force = runner[w].force
<1> DEFINE r == [runner[w] EXCEPT !.pc = pc]
<1>1. runner[w] \in RunnerType
  BY RunnerAt
<1>2. r \in RunnerType
  BY <1>1 DEF RunnerType, RunnerPc
<1>3. /\ r.pc = pc /\ r.job = runner[w].job /\ r.row = Target(w) /\ r.task = runner[w].task
      /\ r.seen = Loaded(w) /\ r.todo = runner[w].todo /\ r.model = runner[w].model
      /\ r.created = runner[w].created /\ r.force = runner[w].force
  BY <1>1 DEF RunnerType, Target, Loaded
<1>4. runner' = [runner EXCEPT ![w] = r]
  BY DEF GoTo, TypeInv, RunnersOK
<1> QED
  BY <1>2, <1>3, <1>4

(* ... with the row it reads *)
ReadsRow(w, pc, x) == runner' = [runner EXCEPT ![w].seen = row[x], ![w].pc = pc]

LEMMA Reads ==
    ASSUME TypeInv, NEW w \in Runners, NEW pc \in RunnerPc, NEW x \in Rows, Exists(x), ReadsRow(w, pc, x)
    PROVE  \E r \in RunnerType :
            /\ runner' = [runner EXCEPT ![w] = r]
            /\ r.pc = pc /\ r.job = runner[w].job /\ r.row = Target(w) /\ r.task = runner[w].task
            /\ r.seen = row[x] /\ r.todo = runner[w].todo /\ r.model = runner[w].model
            /\ r.created = runner[w].created /\ r.force = runner[w].force /\ r.seen \in RowType
<1> DEFINE r == [runner[w] EXCEPT !.seen = row[x], !.pc = pc]
<1>1. runner[w] \in RunnerType /\ row[x] \in RowType
  BY RunnerAt, ExistsRow DEF TypeInv
<1>2. r \in RunnerType
  BY <1>1 DEF RunnerType, RunnerPc
<1>3. /\ r.pc = pc /\ r.job = runner[w].job /\ r.row = Target(w) /\ r.task = runner[w].task
      /\ r.seen = row[x] /\ r.todo = runner[w].todo /\ r.model = runner[w].model
      /\ r.created = runner[w].created /\ r.force = runner[w].force
  BY <1>1 DEF RunnerType, Target
<1>4. runner' = [runner EXCEPT ![w] = r]
  BY DEF ReadsRow, TypeInv, RunnersOK
<1> QED
  BY <1>1, <1>2, <1>3, <1>4

(* ... or with its list of chunks, the model and whether it stored a vector *)
SetsTo(w, pc, todo, m, created) ==
    runner' = [runner EXCEPT ![w] = [runner[w] EXCEPT !.pc = pc, !.todo = todo, !.model = m, !.created = created]]

LEMMA Updates ==
    ASSUME TypeInv, NEW w \in Runners, NEW pc \in RunnerPc, NEW todo \in SUBSET Chunks,
           NEW m \in Models, NEW created \in BOOLEAN, SetsTo(w, pc, todo, m, created)
    PROVE  \E r \in RunnerType :
            /\ runner' = [runner EXCEPT ![w] = r]
            /\ r.pc = pc /\ r.job = runner[w].job /\ r.row = Target(w) /\ r.task = runner[w].task
            /\ r.seen = Loaded(w) /\ r.todo = todo /\ r.model = m
            /\ r.created = created /\ r.force = runner[w].force
<1> DEFINE r == [runner[w] EXCEPT !.pc = pc, !.todo = todo, !.model = m, !.created = created]
<1>1. runner[w] \in RunnerType
  BY RunnerAt
<1>2. r \in RunnerType
  BY <1>1 DEF RunnerType, RunnerPc
<1>3. /\ r.pc = pc /\ r.job = runner[w].job /\ r.row = Target(w) /\ r.task = runner[w].task
      /\ r.seen = Loaded(w) /\ r.todo = todo /\ r.model = m
      /\ r.created = created /\ r.force = runner[w].force
  BY <1>1 DEF RunnerType, Target, Loaded
<1>4. runner' = [runner EXCEPT ![w] = r]
  BY DEF SetsTo, TypeInv, RunnersOK
<1> QED
  BY <1>2, <1>3, <1>4

LEMMA Acks ==
    ASSUME NEW w \in Runners, Ack(w)
    PROVE  /\ runner' = [runner EXCEPT ![w] = IdleRunner]
           /\ IdleRunner \in RunnerType /\ IdleRunner.pc = "idle" /\ RunnerOK(w, IdleRunner)
BY IdleRecords DEF Ack, IdleRunner

(* A runner writes the row it names over the one it loaded *)
LEMMA RunnerFlushes ==
    ASSUME TypeInv, NEW w \in Runners, runner[w].pc # "idle", Loaded(w) \in RowType,
           NEW new \in RowType, new.task = Loaded(w).task \/ new.task = None,
           Flush(Target(w), Loaded(w), new)
    PROVE  \E q \in RowType :
            /\ Target(w) \in Rows /\ Exists(Target(w)) /\ row[Target(w)] \in RowType
            /\ row' = [row EXCEPT ![Target(w)] = q] /\ Named(q.task, Target(w))
            /\ q.status = IF new.status # Loaded(w).status THEN new.status ELSE row[Target(w)].status
            /\ q.embedding = IF new.embedding # Loaded(w).embedding THEN new.embedding
                             ELSE row[Target(w)].embedding
            /\ q.model = IF new.model # Loaded(w).model THEN new.model ELSE row[Target(w)].model
<1>1. Target(w) \in Rows /\ DataOK
  BY RunnerAt DEF TypeInv
<1>2. new.task = Loaded(w).task \/ Named(new.task, Target(w))
  BY IdsNamed
<1>3. PICK q \in RowType :
            /\ Exists(Target(w))
            /\ row' = [row EXCEPT ![Target(w)] = q] /\ Named(q.task, Target(w))
            /\ q.status = IF new.status # Loaded(w).status THEN new.status ELSE row[Target(w)].status
            /\ q.embedding = IF new.embedding # Loaded(w).embedding THEN new.embedding
                             ELSE row[Target(w)].embedding
            /\ q.model = IF new.model # Loaded(w).model THEN new.model ELSE row[Target(w)].model
  BY <1>1, <1>2, FlushWrites
<1>4. row[Target(w)] \in RowType
  BY <1>1, <1>3, ExistsRow
<1> QED
  BY <1>1, <1>3, <1>4

(* A message reaches a pool process: its job starts when the row is QUEUED *)
Taking(w, t) == TakeProcess(w, t) \/ TakeJob(w, t)

ReadyFor(x, k) == Exists(x) /\ StatusOf(row[x], k) = "queued"

LEMMA Takes ==
    ASSUME TypeInv, NEW w \in Runners, NEW t \in Tasks, Taking(w, t)
    PROVE  /\ w \in Workers /\ Is(w, "idle") /\ t \in queued /\ queued' = queued \ {t}
           /\ UNCHANGED <<row, chunks, vectors, locked, kind, target, request, asked, lost>>
           /\ target[t] \in Rows /\ kind[t] \in {"process", "rebuild", "sync"}
           /\ \/ /\ ReadyFor(target[t], kind[t]) /\ NoteOverlap(w, target[t])
                 /\ \E r \in RunnerType :
                        /\ runner' = [runner EXCEPT ![w] = r] /\ RunnerOK(w, r)
                        /\ r.pc = "loaded" /\ r.job = kind[t] /\ r.row = target[t] /\ r.task = t
                        /\ r.seen = row[target[t]] /\ (r.job = "sync" => ~r.force)
              \/ ~ReadyFor(target[t], kind[t]) /\ UNCHANGED <<runner, mixed>>
<1>1. /\ w \in Workers /\ Is(w, "idle") /\ t \in queued /\ queued' = queued \ {t}
      /\ UNCHANGED <<row, chunks, vectors, locked, kind, target, request, asked, lost>>
      /\ kind[t] \in {"process", "rebuild", "sync"}
  BY DEF Taking, TakeProcess, TakeJob, Deliver, data
<1>2. /\ target[t] \in Rows
      /\ kind[t] \in {"process", "rebuild"} => target[t] \in Docs
      /\ kind[t] = "sync" => target[t] = Project
  BY <1>1 DEF TypeInv, BrokerOK, MessageOK, Rows
<1>3. ASSUME NEW force \in BOOLEAN, Begin(w, kind[t], target[t], t, force), Exists(target[t]),
             kind[t] = "sync" => ~force
      PROVE  \E r \in RunnerType :
                /\ runner' = [runner EXCEPT ![w] = r] /\ RunnerOK(w, r)
                /\ r.pc = "loaded" /\ r.job = kind[t] /\ r.row = target[t] /\ r.task = t
                /\ r.seen = row[target[t]] /\ (r.job = "sync" => ~r.force)
  <2>1. PICK r \in RunnerType :
            /\ runner' = [runner EXCEPT ![w] = r]
            /\ r.pc = "loaded" /\ r.job = kind[t] /\ r.row = target[t] /\ r.task = t
            /\ r.seen = row[target[t]] /\ r.force = force /\ row[target[t]] \in RowType
    BY <1>1, <1>2, <1>3, Begins
  <2>2. RunnerOK(w, r)
    BY <1>1, <1>2, <2>1, DocumentsAssumption DEF RunnerOK
  <2> QED
    BY <1>3, <2>1, <2>2
<1>4. CASE TakeProcess(w, t)
  <2>1. kind[t] = "process"
    BY <1>4 DEF TakeProcess, Deliver
  <2>2. CASE ReadyFor(target[t], kind[t])
    <3>1. Begin(w, kind[t], target[t], t, FALSE) /\ NoteOverlap(w, target[t]) /\ Exists(target[t])
      BY <1>4, <2>1, <2>2 DEF TakeProcess, ReadyFor, StatusOf
    <3> QED
      BY <1>1, <1>2, <1>3, <2>2, <3>1
  <2>3. CASE ~ReadyFor(target[t], kind[t])
    <3>1. UNCHANGED <<runner, mixed>>
      BY <1>4, <2>1, <2>3 DEF TakeProcess, ReadyFor, StatusOf
    <3> QED
      BY <1>1, <1>2, <2>3, <3>1
  <2> QED
    BY <2>2, <2>3
<1>5. CASE TakeJob(w, t)
  <2>1. kind[t] \in {"rebuild", "sync"}
    BY <1>5 DEF TakeJob, Deliver
  <2>2. CASE ReadyFor(target[t], kind[t])
    <3>1. Begin(w, kind[t], target[t], t, kind[t] = "rebuild") /\ NoteOverlap(w, target[t])
          /\ Exists(target[t])
      BY <1>5, <2>1, <2>2 DEF TakeJob, BeginJob, Runnable, ReadyFor, StatusOf
    <3>2. (kind[t] = "rebuild") \in BOOLEAN /\ (kind[t] = "sync" => ~(kind[t] = "rebuild"))
      OBVIOUS
    <3> QED
      BY <1>1, <1>2, <1>3, <2>2, <3>1, <3>2
  <2>3. CASE ~ReadyFor(target[t], kind[t])
    <3>1. UNCHANGED <<runner, mixed>>
      BY <1>5, <2>1, <2>3 DEF TakeJob, BeginJob, Runnable, ReadyFor, StatusOf
    <3> QED
      BY <1>1, <1>2, <2>3, <3>1
  <2> QED
    BY <2>2, <2>3
<1> QED
  BY <1>4, <1>5 DEF Taking

LEMMA TakeType ==
    ASSUME TypeInv, NEW w \in Runners, NEW t \in Tasks, Taking(w, t)
    PROVE  TypeInv'
<1>1. /\ queued' = queued \ {t} /\ target[t] \in Rows
      /\ UNCHANGED <<row, chunks, vectors, locked, kind, target, request, asked, lost>>
  BY Takes
<1>2. BrokerOK' /\ Sent
  BY <1>1, BrokerStays DEF TypeInv
<1>3. RowsKept
  BY <1>1, SameKeepsRows DEF TypeInv
<1>4. RunnersOK' /\ mixed' \subseteq Docs
  <2>1. CASE ReadyFor(target[t], kind[t])
    <3>1. PICK r \in RunnerType :
            runner' = [runner EXCEPT ![w] = r] /\ RunnerOK(w, r) /\ r.pc = "loaded"
      BY <2>1, Takes
    <3>2. NoteOverlap(w, target[t])
      BY <2>1, Takes
    <3> QED
      BY <1>1, <1>2, <1>3, <3>1, <3>2, RunnersMove, MixedType DEF TypeInv
  <2>2. CASE ~ReadyFor(target[t], kind[t])
    <3>1. UNCHANGED <<runner, mixed>>
      BY <2>2, Takes
    <3> QED
      BY <1>1, <1>2, <1>3, <3>1, RunnersStay DEF TypeInv, CountsOK
  <2> QED
    BY <2>1, <2>2
<1>5. RequestsOK' /\ DataOK'
  BY <1>1, <1>2, <1>3, RequestsStay, DataStays DEF TypeInv, DataOK
<1>6. CountsOK'
  BY <1>1, <1>4 DEF TypeInv, CountsOK
<1> QED
  BY <1>2, <1>4, <1>5, <1>6 DEF TypeInv

(* process() takes the lock of its row, or finds it gone *)
LEMMA Starts ==
    ASSUME TypeInv, NEW w \in Runners, StartProcessing(w)
    PROVE  /\ runner[w].pc = "loaded" /\ runner[w].job = "process" /\ Target(w) \in Docs
           /\ w \in Workers
           /\ UNCHANGED <<row, chunks, vectors, broker, request, asked, ghosts>>
           /\ \/ /\ Exists(Target(w)) /\ Free(Target(w)) /\ locked' = [locked EXCEPT ![Target(w)] = w]
                 /\ \E r \in RunnerType :
                        /\ runner' = [runner EXCEPT ![w] = r] /\ RunnerOK(w, r)
                        /\ r.pc = "processing" /\ r.row = Target(w) /\ r.todo = chunks[Target(w)]
                        /\ r.job = "process" /\ r.seen = Loaded(w) /\ r.task = runner[w].task
              \/ ~Exists(Target(w)) /\ runner' = [runner EXCEPT ![w] = IdleRunner] /\ locked' = locked
<1>1. /\ runner[w].pc = "loaded" /\ runner[w].job = "process" /\ Target(w) \in Docs /\ w \in Workers
      /\ runner[w] \in RunnerType /\ RunnerOK(w, runner[w])
      /\ Target(w) = runner[w].row /\ Loaded(w) = runner[w].seen
      /\ UNCHANGED <<row, chunks, vectors, broker, request, asked, ghosts>>
  BY RunnerAt DEF StartProcessing, Is, RunnerOK
<1>2. CASE Exists(Target(w))
  <2>1. /\ Free(Target(w)) /\ locked' = [locked EXCEPT ![Target(w)] = w]
        /\ runner' = [runner EXCEPT ![w].pc = "processing", ![w].todo = chunks[Target(w)]]
    BY <1>2 DEF StartProcessing, WaitsForLock
  <2> DEFINE r == [runner[w] EXCEPT !.pc = "processing", !.todo = chunks[Target(w)]]
  <2>2. chunks[Target(w)] \in SUBSET Chunks
    BY <1>1 DEF TypeInv, DataOK
  <2>3. r \in RunnerType
    BY <1>1, <2>2 DEF RunnerType
  <2>4. /\ r.pc = "processing" /\ r.row = Target(w) /\ r.todo = chunks[Target(w)]
        /\ r.job = "process" /\ r.seen = Loaded(w) /\ r.task = runner[w].task
    BY <1>1 DEF RunnerType
  <2>5. runner' = [runner EXCEPT ![w] = r]
    BY <2>1 DEF TypeInv, RunnersOK
  <2> HIDE DEF r
  <2>6. RunnerOK(w, r)
    BY <1>1, <2>4 DEF RunnerOK
  <2> QED
    BY <1>1, <1>2, <2>1, <2>3, <2>4, <2>5, <2>6
<1>3. CASE ~Exists(Target(w))
  BY <1>1, <1>3 DEF StartProcessing, Ack
<1> QED
  BY <1>2, <1>3

LEMMA StartType ==
    ASSUME TypeInv, NEW w \in Runners, StartProcessing(w)
    PROVE  TypeInv'
<1>1. /\ UNCHANGED <<row, chunks, vectors, kind, target, queued, request, asked, lost, mixed>>
      /\ Target(w) \in Docs /\ runner[w].pc = "loaded"
  BY Starts DEF broker, ghosts
<1>2. BrokerOK' /\ Sent
  BY <1>1, BrokerStays DEF TypeInv
<1>3. RowsKept
  BY <1>1, SameKeepsRows DEF TypeInv
<1>4. DataOK' /\ RequestsOK' /\ CountsOK'
  BY <1>1, <1>2, <1>3, DataStays, RequestsStay DEF TypeInv, DataOK, CountsOK
<1>5. CASE Exists(Target(w))
  <2>1. Free(Target(w)) /\ locked' = [locked EXCEPT ![Target(w)] = w]
    BY <1>5, Starts
  <2>2. PICK r \in RunnerType :
            /\ runner' = [runner EXCEPT ![w] = r] /\ RunnerOK(w, r)
            /\ r.pc = "processing" /\ r.row = Target(w) /\ r.todo = chunks[Target(w)]
    BY <1>5, Starts
  <2>3. runner' \in [Runners -> RunnerType] /\ locked' \in [Rows -> Runners \cup {None}]
    BY <2>1, <2>2 DEF TypeInv, RunnersOK
  <2>4. \A v \in Runners : RunnerOK(v, runner[v])'
    BY <1>2, <2>2 DEF TypeInv, RunnersOK, RunnerOK, Sent, RunnerType
  <2>5. ASSUME NEW v \in Runners
        PROVE  LockOK(v, runner[v])'
    <3>1. CASE v = w
      <4>1. locked'[Target(w)] = w /\ runner'[v] = r /\ row'[Target(w)] \notin {None, Unborn}
        BY <1>1, <1>5, <2>1, <2>2, <3>1 DEF TypeInv, RunnersOK, Exists, Rows
      <4> QED
        BY <1>1, <2>2, <3>1, <4>1 DEF LockOK, Exists
    <3>2. CASE v # w
      <4>1. runner'[v] = runner[v] /\ RunnerOK(v, runner[v]) /\ LockOK(v, runner[v]) /\ v # None
        BY <2>2, <3>2, DocumentsAssumption DEF TypeInv, RunnersOK, Runners
      <4>2. runner[v].pc = "processing" => runner[v].row # Target(w) /\ runner[v].row \in Rows
        BY <2>1, <4>1 DEF LockOK, Free, RunnerOK
      <4>3. runner[v].pc = "processing" => locked'[runner[v].row] = locked[runner[v].row]
        BY <2>1, <4>2 DEF TypeInv, RunnersOK
      <4> QED
        BY <1>1, <4>1, <4>2, <4>3 DEF LockOK, Exists
    <3> QED
      BY <3>1, <3>2
  <2>6. RunnersOK'
    BY <2>3, <2>4, <2>5 DEF RunnersOK
  <2> QED
    BY <1>2, <1>4, <2>6 DEF TypeInv
<1>6. CASE ~Exists(Target(w))
  <2>1. runner' = [runner EXCEPT ![w] = IdleRunner] /\ locked' = locked
    BY <1>6, Starts
  <2>2. IdleRunner \in RunnerType /\ RunnerOK(w, IdleRunner) /\ IdleRunner.pc # "processing"
    BY IdleRecords DEF IdleRunner
  <2>3. RunnersOK'
    BY <1>1, <1>2, <1>3, <2>1, <2>2, RunnersMove DEF TypeInv
  <2> QED
    BY <1>2, <1>4, <2>3 DEF TypeInv
<1> QED
  BY <1>5, <1>6

(* A finite set has subsets of every smaller size, so NewChunks is one *)
LEMMA SubsetOfSize ==
    ASSUME NEW S, IsFiniteSet(S), NEW n \in Nat, n <= Cardinality(S)
    PROVE  \E T \in SUBSET S : Cardinality(T) = n
<1>1. Cardinality(S) \in Nat /\ ExistsBijection(1 .. Cardinality(S), S)
  BY FS_CardinalityType
<1>2. PICK f \in Bijection(1 .. Cardinality(S), S) : TRUE
  BY <1>1 DEF ExistsBijection
<1>3. /\ f \in [1 .. Cardinality(S) -> S]
      /\ \A a, b \in 1 .. Cardinality(S) : f[a] = f[b] => a = b
  BY <1>2, Fun_BijectionProperties
<1> DEFINE T == {f[i] : i \in 1 .. n}
           g == [i \in 1 .. n |-> f[i]]
<1>4. \A i \in 1 .. n : i \in 1 .. Cardinality(S)
  BY <1>1
<1>5. T \in SUBSET S
  BY <1>3, <1>4
<1>6. /\ g \in [1 .. n -> T]
      /\ \A a, b \in 1 .. n : g[a] = g[b] => a = b
      /\ \A t \in T : \E i \in 1 .. n : g[i] = t
  BY <1>3, <1>4
<1>7. g \in Bijection(1 .. n, T)
  <2> HIDE DEF g, T
  <2> QED
    BY <1>6, Fun_IsBij
<1>8. Cardinality(T) = n
  <2> HIDE DEF g, T
  <2> QED
    BY <1>7, FS_CountingElements DEF ExistsBijection
<1> QED
  BY <1>5, <1>8

LEMMA NewChunksChosen ==
    ASSUME Cardinality(Unused) >= ChunkCount
    PROVE  NewChunks \in SUBSET Unused /\ Cardinality(NewChunks) = ChunkCount
<1>1. IsFiniteSet(Unused) /\ Cardinality(Unused) \in Nat
  BY DocumentsAssumption, FS_Subset, FS_CardinalityType DEF Unused
<1>2. \E S \in SUBSET Unused : Cardinality(S) = ChunkCount
  BY <1>1, SubsetOfSize, DocumentsAssumption
<1> QED
  BY <1>2 DEF NewChunks

(* process() commits: the document has the new chunks and no others *)
LEMMA Completes ==
    ASSUME TypeInv, NEW w \in Runners, NEW m \in Models, CompleteProcessing(w, m)
    PROVE  \E N \in SUBSET Unused, q \in RowType :
            /\ runner[w].pc = "processing" /\ runner[w].job = "process" /\ w \in Workers
            /\ Target(w) \in Docs /\ Exists(Target(w)) /\ locked[Target(w)] = w
            /\ Loaded(w) \in RowType
            /\ Cardinality(N) = ChunkCount
            /\ chunks' = [chunks EXCEPT ![Target(w)] = N]
            /\ vectors' = (vectors \ DeleteForDocument(chunks[Target(w)])) \cup (N \X {m})
            /\ row' = [row EXCEPT ![Target(w)] = q]
            /\ q.status = "indexed" /\ q.embedding = "completed" /\ q.task = row[Target(w)].task
            /\ q.model = IF m # Loaded(w).model THEN m ELSE row[Target(w)].model
            /\ locked' = [locked EXCEPT ![Target(w)] = None]
            /\ runner' = [runner EXCEPT ![w] = IdleRunner]
            /\ UNCHANGED <<broker, request, asked, ghosts>>
<1>1. /\ runner[w].pc = "processing" /\ runner[w].job = "process" /\ w \in Workers
      /\ Target(w) \in Docs /\ Exists(Target(w)) /\ locked[Target(w)] = w
      /\ Loaded(w) \in RowType /\ runner[w].todo = chunks[Target(w)] /\ Target(w) \in Rows
  BY RunnerAt DEF CompleteProcessing, Is, RunnerOK, LockOK
<1>2. NewChunks \in SUBSET Unused /\ Cardinality(NewChunks) = ChunkCount
  BY NewChunksChosen DEF CompleteProcessing
<1> DEFINE q == Completed(w, m)
<1>3. row[Target(w)] \in RowType
  BY <1>1, ExistsRow DEF TypeInv
<1>4. DOMAIN Loaded(w) = {"status", "embedding", "task", "model"}
  BY <1>1 DEF RowType
<1>5. /\ q.status = "indexed" /\ q.embedding = "completed" /\ q.task = row[Target(w)].task
      /\ q.model = IF m # Loaded(w).model THEN m ELSE row[Target(w)].model
  BY <1>4 DEF Completed
<1>6. q = [status |-> q.status, embedding |-> q.embedding, task |-> q.task, model |-> q.model]
  BY <1>4 DEF Completed
<1>7. q \in RowType
  <2>1. /\ q.status \in DocumentStatus /\ q.embedding \in EmbeddingStatus
        /\ q.task \in Tasks \cup {Local, None} /\ q.model \in Models \cup {None}
    BY <1>3, <1>5 DEF RowType, DocumentStatus, EmbeddingStatus
  <2> HIDE DEF q
  <2> QED
    BY <1>6, <2>1 DEF RowType
<1>8. /\ chunks' = [chunks EXCEPT ![Target(w)] = NewChunks]
      /\ vectors' = (vectors \ DeleteForDocument(chunks[Target(w)])) \cup (NewChunks \X {m})
      /\ row' = [row EXCEPT ![Target(w)] = q]
      /\ locked' = [locked EXCEPT ![Target(w)] = None]
      /\ runner' = [runner EXCEPT ![w] = IdleRunner]
      /\ UNCHANGED <<broker, request, asked, ghosts>>
  <2>1. chunks' = [chunks EXCEPT ![Target(w)] = (chunks[Target(w)] \ chunks[Target(w)]) \cup NewChunks]
    BY <1>1 DEF CompleteProcessing, TypeInv, DataOK
  <2>2. (chunks[Target(w)] \ chunks[Target(w)]) \cup NewChunks = NewChunks
    OBVIOUS
  <2>3. chunks' = [chunks EXCEPT ![Target(w)] = NewChunks]
    BY <2>1, <2>2
  <2> QED
    BY <1>1, <2>3 DEF CompleteProcessing, Ack
<1> HIDE DEF q
<1> QED
  BY <1>1, <1>2, <1>5, <1>7, <1>8

LEMMA CompleteType ==
    ASSUME TypeInv, NEW w \in Runners, NEW m \in Models, CompleteProcessing(w, m)
    PROVE  TypeInv'
<1>1. PICK N \in SUBSET Unused, q \in RowType :
            /\ runner[w].pc = "processing" /\ runner[w].job = "process" /\ w \in Workers
            /\ Target(w) \in Docs /\ Exists(Target(w)) /\ locked[Target(w)] = w
            /\ Loaded(w) \in RowType
            /\ Cardinality(N) = ChunkCount
            /\ chunks' = [chunks EXCEPT ![Target(w)] = N]
            /\ vectors' = (vectors \ DeleteForDocument(chunks[Target(w)])) \cup (N \X {m})
            /\ row' = [row EXCEPT ![Target(w)] = q]
            /\ q.status = "indexed" /\ q.embedding = "completed" /\ q.task = row[Target(w)].task
            /\ q.model = IF m # Loaded(w).model THEN m ELSE row[Target(w)].model
            /\ locked' = [locked EXCEPT ![Target(w)] = None]
            /\ runner' = [runner EXCEPT ![w] = IdleRunner]
            /\ UNCHANGED <<broker, request, asked, ghosts>>
  BY Completes
<1>2. PICK d \in Docs : d = Target(w)
  BY <1>1
<1>3. BrokerOK' /\ Sent
  BY <1>1, BrokerStays DEF TypeInv, broker
<1>4. d \in Rows /\ Named(row[d].task, d)
  BY <1>1, <1>2 DEF Rows, TypeInv, DataOK
<1>5. RowsKept
  BY <1>1, <1>2, <1>4, WriteKeepsRows DEF TypeInv
<1>6. DataOK'
  <2>1. \A x \in Rows : Exists(x)' => Named(row[x].task, x)'
    BY <1>3, <1>5 DEF RowsKept, Sent, Named
  <2>2. row' \in RowsType
    BY <1>5 DEF RowsKept
  <2>3. N \subseteq Chunks /\ \A e \in Docs : N \cap chunks[e] = {}
    BY DEF Unused, OfDocs
  <2>4. /\ chunks' \in [Docs -> SUBSET Chunks]
        /\ \A e \in Docs : chunks'[e] = IF e = d THEN N ELSE chunks[e]
    BY <1>1, <1>2, <2>3 DEF TypeInv, DataOK
  <2>5. /\ \A e, f \in Docs : e # f => chunks'[e] \cap chunks'[f] = {}
        /\ \A e \in Docs : Cardinality(chunks'[e]) \in {0, ChunkCount}
    BY <1>1, <2>3, <2>4 DEF TypeInv, DataOK
  <2>6. \A e \in Docs : ~Exists(e)' => chunks'[e] = {}
    BY <1>1, <1>2, <1>5, <2>4 DEF RowsKept, TypeInv, DataOK, Rows
  <2>7. ASSUME NEW v \in vectors'
        PROVE  v \in OfDocs(Docs)' \X Models
    <3>1. CASE v \in N \X {m}
      <4>1. v[1] \in chunks'[d] /\ v = <<v[1], v[2]>> /\ v[2] \in Models
        BY <2>4, <3>1
      <4> QED
        BY <4>1 DEF OfDocs
    <3>2. CASE v \in vectors /\ v \notin DeleteForDocument(chunks[d])
      <4>1. PICK c \in OfDocs(Docs), n \in Models : v = <<c, n>>
        BY <3>2 DEF TypeInv, DataOK
      <4>2. PICK e \in Docs : c \in chunks[e]
        BY <4>1 DEF OfDocs
      <4>3. e # d
        BY <3>2, <4>1, <4>2 DEF DeleteForDocument
      <4>4. c \in chunks'[e]
        BY <2>4, <4>2, <4>3
      <4> QED
        BY <4>1, <4>4 DEF OfDocs
    <3> QED
      BY <1>1, <1>2, <3>1, <3>2
  <2> QED
    BY <2>1, <2>2, <2>4, <2>5, <2>6, <2>7 DEF DataOK
<1>7. RunnersOK'
  <2>1. runner' \in [Runners -> RunnerType] /\ locked' \in [Rows -> Runners \cup {None}]
    BY <1>1, IdleRecords DEF TypeInv, RunnersOK
  <2>2. \A v \in Runners : RunnerOK(v, runner[v])'
    BY <1>1, <1>3, IdleRecords DEF TypeInv, RunnersOK, RunnerOK, Sent, RunnerType
  <2>3. ASSUME NEW v \in Runners
        PROVE  LockOK(v, runner[v])'
    <3>1. CASE v = w
      BY <1>1, <3>1 DEF LockOK, IdleRunner, TypeInv, RunnersOK
    <3>2. CASE v # w
      <4>1. runner'[v] = runner[v] /\ RunnerOK(v, runner[v]) /\ LockOK(v, runner[v])
        BY <1>1, <3>2 DEF TypeInv, RunnersOK
      <4>2. runner[v].pc = "processing" =>
                runner[v].row # d /\ runner[v].row \in Docs /\ runner[v].row \in Rows
        BY <1>1, <1>2, <3>2, <4>1 DEF LockOK, RunnerOK
      <4>3. runner[v].pc = "processing" =>
                /\ locked'[runner[v].row] = locked[runner[v].row]
                /\ chunks'[runner[v].row] = chunks[runner[v].row]
                /\ row'[runner[v].row] = row[runner[v].row]
        BY <1>1, <1>2, <4>2 DEF TypeInv, RunnersOK, DataOK, RowsType
      <4> QED
        BY <4>1, <4>3 DEF LockOK, Exists
    <3> QED
      BY <3>1, <3>2
  <2> QED
    BY <2>1, <2>2, <2>3 DEF RunnersOK
<1>8. RequestsOK' /\ CountsOK'
  BY <1>1, <1>3, RequestsStay DEF TypeInv, CountsOK, ghosts
<1> QED
  BY <1>3, <1>6, <1>7, <1>8 DEF TypeInv

(* Its transaction is rolled back *)
LEMMA RaiseType ==
    ASSUME TypeInv, NEW w \in Runners, ProcessRaises(w)
    PROVE  TypeInv'
<1>1. PICK r \in RunnerType :
            /\ runner' = [runner EXCEPT ![w] = r]
            /\ r.pc = "failing" /\ r.job = runner[w].job /\ r.row = Target(w) /\ r.task = runner[w].task
            /\ r.seen = Loaded(w)
  BY Goes DEF ProcessRaises, RunnerPc
<1>2. /\ runner[w].pc = "processing" /\ locked' = [d \in Rows |-> IF locked[d] = w THEN None ELSE locked[d]]
      /\ UNCHANGED <<row, chunks, vectors, kind, target, queued, request, asked, lost, mixed>>
  BY DEF ProcessRaises, Is, Unlock, broker, ghosts
<1>3. RunnerOK(w, r)
  BY <1>1, <1>2, RunnerAt DEF RunnerOK
<1>4. BrokerOK' /\ Sent
  BY <1>2, BrokerStays DEF TypeInv
<1>5. RowsKept
  BY <1>2, SameKeepsRows DEF TypeInv
<1>6. DataOK' /\ RequestsOK' /\ CountsOK'
  BY <1>2, <1>4, <1>5, DataStays, RequestsStay DEF TypeInv, DataOK, CountsOK
<1>7. RunnersOK'
  <2>1. runner' \in [Runners -> RunnerType] /\ locked' \in [Rows -> Runners \cup {None}]
    BY <1>1, <1>2 DEF TypeInv, RunnersOK
  <2>2. \A v \in Runners : RunnerOK(v, runner[v])'
    BY <1>1, <1>3, <1>4 DEF TypeInv, RunnersOK, RunnerOK, Sent, RunnerType
  <2>3. ASSUME NEW v \in Runners
        PROVE  LockOK(v, runner[v])'
    <3>1. CASE v = w
      BY <1>1, <3>1 DEF LockOK, TypeInv, RunnersOK
    <3>2. CASE v # w
      <4>1. runner'[v] = runner[v] /\ RunnerOK(v, runner[v]) /\ LockOK(v, runner[v])
        BY <1>1, <3>2 DEF TypeInv, RunnersOK
      <4>2. runner[v].pc = "processing" => runner[v].row \in Rows
        BY <4>1 DEF RunnerOK
      <4> QED
        BY <1>2, <3>2, <4>1, <4>2 DEF LockOK, Exists
    <3> QED
      BY <3>1, <3>2
  <2> QED
    BY <2>1, <2>2, <2>3 DEF RunnersOK
<1> QED
  BY <1>4, <1>6, <1>7 DEF TypeInv

(* A step of runner w outside its processing transaction, after which it is r *)
MoveOf(w, r) ==
    /\ runner[w].pc # "idle" /\ runner' = [runner EXCEPT ![w] = r]
    /\ RunnerOK(w, r) /\ r.pc # "processing"
    /\ \/ r.pc = "idle"
       \/ r.row = Target(w) /\ r.job = runner[w].job /\ r.task = runner[w].task /\ r.force = runner[w].force
    /\ UNCHANGED <<chunks, locked, broker, request, lost>>
    /\ RowsKept /\ vectors' \subseteq OfDocs(Docs) \X Models
    /\ asked' \in 0 .. MaxEvents /\ mixed' \subseteq Docs /\ mixed \subseteq mixed'

LEMMA MoveType ==
    ASSUME TypeInv, NEW w \in Runners, NEW r \in RunnerType, MoveOf(w, r)
    PROVE  TypeInv'
<1>1. CountsOK'
  BY DEF MoveOf, TypeInv, CountsOK
<1> QED
  BY <1>1, RunnerMoves DEF MoveOf, broker

(* ... in which nothing is written but what the step says *)
LEMMA PlainMove ==
    ASSUME TypeInv, NEW w \in Runners, NEW r \in RunnerType, runner[w].pc # "idle",
           runner' = [runner EXCEPT ![w] = r], RunnerOK(w, r), r.pc # "processing",
           \/ r.pc = "idle"
           \/ r.row = Target(w) /\ r.job = runner[w].job /\ r.task = runner[w].task /\ r.force = runner[w].force,
           UNCHANGED <<chunks, locked, broker, request, lost>>,
           RowsKept \/ row' = row,
           vectors' \subseteq vectors,
           asked' = asked \/ (asked < MaxEvents /\ asked' = asked + 1),
           mixed' \subseteq Docs, mixed \subseteq mixed'
    PROVE  MoveOf(w, r)
<1>1. RowsKept
  BY SameKeepsRows DEF TypeInv
<1>2. vectors' \subseteq OfDocs(Docs) \X Models
  BY DEF TypeInv, DataOK
<1>3. asked' \in 0 .. MaxEvents
  BY DocumentsAssumption DEF TypeInv, CountsOK
<1> QED
  BY <1>1, <1>2, <1>3 DEF MoveOf

LEMMA MixedSame ==
    ASSUME TypeInv
    PROVE  mixed \subseteq Docs /\ lost \subseteq Rows
BY DEF TypeInv, CountsOK

(* fail_processing *)
LEMMA FailReads ==
    ASSUME TypeInv, NEW w \in Runners, FailRefresh(w)
    PROVE  \E r \in RunnerType :
            /\ MoveOf(w, r) /\ UNCHANGED <<row, vectors, mixed>>
            /\ runner[w].pc = "failing" /\ runner[w].job = "process" /\ Target(w) \in Rows
            /\ \/ Exists(Target(w)) /\ r.pc = "fail" /\ r.job = "process" /\ r.seen = row[Target(w)]
               \/ (Exists(Target(w)) => row[Target(w)].status = "cancelled") /\ r.pc = "idle"
<1>1. /\ runner[w].pc = "failing" /\ Target(w) \in Rows /\ runner[w].job = "process" /\ w \in Workers
      /\ UNCHANGED <<row, chunks, vectors, locked, broker, request, asked, lost, mixed>>
  BY RunnerAt DEF FailRefresh, Is, RunnerOK, data, ghosts
<1>2. CASE Exists(Target(w)) /\ row[Target(w)].status # "cancelled"
  <2>1. ReadsRow(w, "fail", Target(w))
    BY <1>2 DEF FailRefresh, ReadsRow
  <2>2. PICK r \in RunnerType :
            /\ runner' = [runner EXCEPT ![w] = r]
            /\ r.pc = "fail" /\ r.job = runner[w].job /\ r.row = Target(w) /\ r.task = runner[w].task
            /\ r.seen = row[Target(w)] /\ r.force = runner[w].force /\ r.seen \in RowType
    <3>1. "fail" \in RunnerPc /\ Exists(Target(w))
      BY <1>2 DEF RunnerPc
    <3> QED
      BY <1>1, <2>1, <3>1, Reads
  <2>3. RunnerOK(w, r)
    BY <1>1, <2>2, RunnerAt DEF RunnerOK
  <2>4. MoveOf(w, r)
    BY <1>1, <2>2, <2>3, MixedSame, PlainMove
  <2> QED
    BY <1>1, <1>2, <2>2, <2>4
<1>3. CASE ~(Exists(Target(w)) /\ row[Target(w)].status # "cancelled")
  <2>1. Ack(w)
    BY <1>3 DEF FailRefresh
  <2>2. MoveOf(w, IdleRunner)
    BY <1>1, <2>1, Acks, MixedSame, PlainMove
  <2> QED
    BY <1>1, <1>3, <2>1, <2>2, Acks
<1> QED
  BY <1>2, <1>3

LEMMA FailWrites ==
    ASSUME TypeInv, NEW w \in Runners, FailProcessing(w)
    PROVE  /\ MoveOf(w, IdleRunner) /\ UNCHANGED <<vectors, mixed>>
           /\ runner[w].pc = "fail" /\ runner[w].job = "process" /\ Target(w) \in Rows
           /\ \/ \E q \in RowType :
                    /\ row' = [row EXCEPT ![Target(w)] = q] /\ q.model = row[Target(w)].model
                    /\ q.status = IF "failed" # Loaded(w).status THEN "failed" ELSE row[Target(w)].status
                    /\ q.embedding \in {"failed", row[Target(w)].embedding}
              \/ ~Exists(Target(w)) /\ row' = row
<1>1. /\ runner[w].pc = "fail" /\ Target(w) \in Rows /\ runner[w].job = "process" /\ Loaded(w) \in RowType
      /\ UNCHANGED <<chunks, vectors, locked, broker, request, asked, lost, mixed>> /\ Ack(w)
  BY RunnerAt DEF FailProcessing, Is, RunnerOK, ghosts
<1>2. CASE Exists(Target(w))
  <2> DEFINE new == [Loaded(w) EXCEPT !.status = "failed", !.embedding = "failed"]
  <2>1. /\ new \in RowType /\ new.status = "failed" /\ new.embedding = "failed"
        /\ new.task = Loaded(w).task /\ new.model = Loaded(w).model
    BY <1>1 DEF RowType, DocumentStatus, EmbeddingStatus
  <2> HIDE DEF new
  <2>2. Flush(Target(w), Loaded(w), new)
    BY <1>2 DEF FailProcessing, new
  <2>3. PICK q \in RowType :
            /\ row[Target(w)] \in RowType /\ row' = [row EXCEPT ![Target(w)] = q] /\ Named(q.task, Target(w))
            /\ q.status = IF "failed" # Loaded(w).status THEN "failed" ELSE row[Target(w)].status
            /\ q.embedding = IF "failed" # Loaded(w).embedding THEN "failed" ELSE row[Target(w)].embedding
            /\ q.model = row[Target(w)].model
    BY <1>1, <2>1, <2>2, RunnerFlushes
  <2>4. RowsKept
    BY <1>1, <1>2, <2>3, WriteKeepsRows DEF TypeInv
  <2>5. MoveOf(w, IdleRunner)
    BY <1>1, <2>4, Acks, MixedSame, PlainMove
  <2> QED
    BY <1>1, <2>3, <2>5
<1>3. CASE ~Exists(Target(w))
  <2>1. row' = row
    BY <1>3 DEF FailProcessing
  <2>2. MoveOf(w, IdleRunner)
    BY <1>1, <2>1, Acks, MixedSame, PlainMove
  <2> QED
    BY <1>1, <1>3, <2>1, <2>2
<1> QED
  BY <1>2, <1>3

(* The commit of PROCESSING *)
LEMMA JobStarts ==
    ASSUME TypeInv, NEW w \in Runners, NEW m \in Models, StartJob(w, m)
    PROVE  \E r \in RunnerType :
            /\ MoveOf(w, r) /\ UNCHANGED <<vectors, mixed>>
            /\ runner[w].pc = "loaded" /\ runner[w].job \in {"rebuild", "sync"} /\ Target(w) \in Rows
            /\ \/ /\ Exists(Target(w)) /\ r.pc = "list" /\ r.job = runner[w].job
                  /\ \E q \in RowType :
                        /\ row' = [row EXCEPT ![Target(w)] = q] /\ q.model = row[Target(w)].model
                        /\ q.status = row[Target(w)].status
                        /\ q.embedding = IF "processing" # Loaded(w).embedding THEN "processing"
                                         ELSE row[Target(w)].embedding
               \/ ~Exists(Target(w)) /\ row' = row /\ r.pc = "idle"
<1>1. /\ runner[w].pc = "loaded" /\ Target(w) \in Rows /\ runner[w].job \in {"rebuild", "sync"}
      /\ Loaded(w) \in RowType /\ runner[w] \in RunnerType
      /\ UNCHANGED <<chunks, vectors, locked, broker, request, asked, lost, mixed>>
  BY RunnerAt DEF StartJob, Is, RunnerOK, ghosts
<1>2. CASE Exists(Target(w))
  <2> DEFINE new == [Loaded(w) EXCEPT !.embedding = "processing"]
  <2>1. /\ new \in RowType /\ new.status = Loaded(w).status /\ new.embedding = "processing"
        /\ new.task = Loaded(w).task /\ new.model = Loaded(w).model
    BY <1>1 DEF RowType, DocumentStatus, EmbeddingStatus, Busy
  <2> HIDE DEF new
  <2>2. /\ Flush(Target(w), Loaded(w), new)
        /\ runner' = [runner EXCEPT ![w].pc = "list", ![w].model = m, ![w].seen = None]
    BY <1>2 DEF StartJob, new
  <2>3. PICK q \in RowType :
            /\ row[Target(w)] \in RowType /\ row' = [row EXCEPT ![Target(w)] = q] /\ Named(q.task, Target(w))
            /\ q.status = row[Target(w)].status
            /\ q.embedding = IF "processing" # Loaded(w).embedding THEN "processing"
                             ELSE row[Target(w)].embedding
            /\ q.model = row[Target(w)].model
    BY <1>1, <2>1, <2>2, RunnerFlushes
  <2>4. RowsKept
    BY <1>1, <1>2, <2>3, WriteKeepsRows DEF TypeInv
  <2>5. PICK r \in RunnerType :
            /\ runner' = [runner EXCEPT ![w] = r]
            /\ r.pc = "list" /\ r.job = runner[w].job /\ r.row = Target(w) /\ r.task = runner[w].task
            /\ r.model = m /\ r.force = runner[w].force
    <3> DEFINE r == [runner[w] EXCEPT !.pc = "list", !.model = m, !.seen = None]
    <3>1. r \in RunnerType
      BY <1>1 DEF RunnerType
    <3>2. /\ r.pc = "list" /\ r.job = runner[w].job /\ r.row = Target(w) /\ r.task = runner[w].task
          /\ r.model = m /\ r.force = runner[w].force
      BY <1>1 DEF RunnerType, Target
    <3>3. runner' = [runner EXCEPT ![w] = r]
      BY <2>2 DEF TypeInv, RunnersOK
    <3> QED
      BY <3>1, <3>2, <3>3
  <2>6. RunnerOK(w, r)
    BY <1>1, <2>5, RunnerAt DEF RunnerOK
  <2>7. MoveOf(w, r)
    BY <1>1, <2>4, <2>5, <2>6, MixedSame, PlainMove
  <2> QED
    BY <1>1, <1>2, <2>3, <2>5, <2>7
<1>3. CASE ~Exists(Target(w))
  <2>1. row' = row /\ Ack(w)
    BY <1>3 DEF StartJob
  <2>2. MoveOf(w, IdleRunner)
    BY <1>1, <2>1, Acks, MixedSame, PlainMove
  <2> QED
    BY <1>1, <1>3, <2>1, <2>2, Acks
<1> QED
  BY <1>2, <1>3

(* A job that has begun *)
JobPc == {"list", "next", "embedded", "insert", "mark", "mark_project", "cancelled", "raised",
          "write_failed", "write_cancelled"}

LEMMA JobAt ==
    ASSUME TypeInv, NEW w \in Runners, runner[w].pc \in JobPc
    PROVE  /\ runner[w].pc # "idle" /\ Target(w) \in Rows /\ runner[w].job \in {"rebuild", "sync"}
           /\ runner[w].job = "sync" => Target(w) = Project
           /\ runner[w].job = "rebuild" => Target(w) \in Docs
           /\ runner[w].todo \in SUBSET Chunks /\ runner[w].created \in BOOLEAN
           /\ runner[w].pc \in {"list", "next", "embedded", "insert", "mark", "mark_project"} =>
                runner[w].model \in Models
           /\ runner[w].pc \in {"mark", "mark_project", "write_failed", "write_cancelled"} =>
                Loaded(w) \in RowType
           /\ mixed \subseteq Docs
<1>1. /\ runner[w] \in RunnerType /\ RunnerOK(w, runner[w])
      /\ Target(w) = runner[w].row /\ Loaded(w) = runner[w].seen
  BY RunnerAt
<1>2. runner[w].job \in {"rebuild", "sync"}
  BY <1>1 DEF JobPc, RunnerOK, RunnerType
<1>3. runner[w].todo \in SUBSET Chunks /\ runner[w].created \in BOOLEAN
  BY <1>1 DEF RunnerType
<1> QED
  BY <1>1, <1>2, <1>3, MixedSame DEF JobPc, RunnerOK

(* delete_for_chunks when forced, then the chunks that have no vector *)
LEMMA RebuildLists ==
    ASSUME TypeInv, NEW w \in Runners, ListRebuild(w)
    PROVE  \E r \in RunnerType :
            /\ MoveOf(w, r) /\ UNCHANGED <<row, mixed>>
            /\ runner[w].pc = "list" /\ runner[w].job = "rebuild" /\ Target(w) \in Docs /\ r.pc = "next"
            /\ \A v \in vectors : v[1] \notin chunks[Target(w)] => v \in vectors'
            /\ r.force => r.todo = chunks[Target(w)]
            /\ \A c \in chunks[Target(w)] \ r.todo : <<c, r.model>> \in vectors'
<1>1. /\ runner[w].pc = "list" /\ runner[w].job = "rebuild" /\ runner[w].pc \in JobPc
      /\ UNCHANGED <<row, chunks, locked, broker, request, asked, lost, mixed>>
  BY DEF ListRebuild, Is, ghosts, JobPc
<1>2. /\ Target(w) \in Docs /\ runner[w].model \in Models /\ runner[w].created \in BOOLEAN
      /\ runner[w].pc # "idle" /\ mixed \subseteq Docs
  BY <1>1, JobAt
<1>3. chunks[Target(w)] \in SUBSET Chunks /\ "next" \in RunnerPc
  BY <1>2 DEF TypeInv, DataOK, RunnerPc
<1>4. ASSUME NEW todo \in SUBSET Chunks,
             runner' = [runner EXCEPT ![w].pc = "next", ![w].todo = todo]
      PROVE  \E r \in RunnerType :
                /\ runner' = [runner EXCEPT ![w] = r] /\ RunnerOK(w, r)
                /\ r.pc = "next" /\ r.todo = todo /\ r.model = runner[w].model
                /\ r.row = Target(w) /\ r.job = runner[w].job /\ r.task = runner[w].task
                /\ r.force = runner[w].force
  <2>1. runner' = [runner EXCEPT ![w] = [runner[w] EXCEPT !.pc = "next", !.todo = todo]]
    BY <1>4 DEF TypeInv, RunnersOK
  <2>2. [runner[w] EXCEPT !.pc = "next", !.todo = todo]
            = [runner[w] EXCEPT !.pc = "next", !.todo = todo, !.model = runner[w].model,
                                !.created = runner[w].created]
    BY RunnerAt DEF RunnerType
  <2>3. SetsTo(w, "next", todo, runner[w].model, runner[w].created)
    BY <2>1, <2>2 DEF SetsTo
  <2>4. PICK r \in RunnerType :
            /\ runner' = [runner EXCEPT ![w] = r]
            /\ r.pc = "next" /\ r.job = runner[w].job /\ r.row = Target(w) /\ r.task = runner[w].task
            /\ r.seen = Loaded(w) /\ r.todo = todo /\ r.model = runner[w].model
            /\ r.created = runner[w].created /\ r.force = runner[w].force
    BY <1>2, <1>3, <2>3, Updates
  <2>5. RunnerOK(w, r)
    BY <1>1, <1>2, <2>4, RunnerAt DEF RunnerOK
  <2> QED
    BY <2>4, <2>5
<1>5. CASE runner[w].force
  <2>1. /\ vectors' = vectors \ DeleteForChunks(chunks[Target(w)], runner[w].model)
        /\ runner' = [runner EXCEPT ![w].pc = "next", ![w].todo = chunks[Target(w)]]
    BY <1>5 DEF ListRebuild, ListForDocument
  <2>2. PICK r \in RunnerType :
            /\ runner' = [runner EXCEPT ![w] = r] /\ RunnerOK(w, r)
            /\ r.pc = "next" /\ r.todo = chunks[Target(w)] /\ r.model = runner[w].model
            /\ r.row = Target(w) /\ r.job = runner[w].job /\ r.task = runner[w].task
            /\ r.force = runner[w].force
    BY <1>3, <1>4, <2>1
  <2>3. MoveOf(w, r)
    BY <1>1, <1>2, <2>1, <2>2, PlainMove
  <2>4. \A v \in vectors : v[1] \notin chunks[Target(w)] => v \in vectors'
    BY <2>1 DEF DeleteForChunks
  <2> QED
    BY <1>1, <1>2, <2>2, <2>3, <2>4
<1>6. CASE ~runner[w].force
  <2>1. /\ vectors' = vectors
        /\ runner' = [runner EXCEPT ![w].pc = "next", ![w].todo = ListMissing(Target(w), runner[w].model)]
    BY <1>6 DEF ListRebuild
  <2>2. ListMissing(Target(w), runner[w].model) \in SUBSET Chunks
    BY <1>3 DEF ListMissing
  <2>3. PICK r \in RunnerType :
            /\ runner' = [runner EXCEPT ![w] = r] /\ RunnerOK(w, r)
            /\ r.pc = "next" /\ r.todo = ListMissing(Target(w), runner[w].model)
            /\ r.model = runner[w].model
            /\ r.row = Target(w) /\ r.job = runner[w].job /\ r.task = runner[w].task
            /\ r.force = runner[w].force
    BY <1>4, <2>1, <2>2
  <2>4. MoveOf(w, r)
    BY <1>1, <1>2, <2>1, <2>3, PlainMove
  <2>5. \A c \in chunks[Target(w)] \ r.todo : <<c, r.model>> \in vectors'
    BY <2>1, <2>3 DEF ListMissing
  <2> QED
    BY <1>1, <1>2, <1>6, <2>1, <2>3, <2>4, <2>5
<1> QED
  BY <1>5, <1>6

LEMMA SyncLists ==
    ASSUME TypeInv, NEW w \in Runners, ListSync(w)
    PROVE  \E r \in RunnerType :
            /\ MoveOf(w, r) /\ UNCHANGED <<row, vectors, mixed>>
            /\ runner[w].pc = "list" /\ runner[w].job = "sync" /\ Target(w) = Project /\ r.pc = "next"
            /\ \A d \in Docs : \A c \in chunks[d] \ r.todo : <<c, r.model>> \in vectors
<1>1. /\ runner[w].pc = "list" /\ runner[w].job = "sync" /\ runner[w].pc \in JobPc
      /\ UNCHANGED <<row, chunks, locked, broker, request, asked, lost, mixed>>
      /\ vectors' = vectors
  BY DEF ListSync, Is, ghosts, JobPc, DimensionMismatches
<1>2. /\ Target(w) = Project /\ runner[w].model \in Models /\ runner[w].created \in BOOLEAN
      /\ runner[w].pc # "idle" /\ mixed \subseteq Docs
  BY <1>1, JobAt
<1> DEFINE todo == ListMissingForProject(runner[w].model)
<1>3. todo \in SUBSET Chunks /\ "next" \in RunnerPc
  BY <1>2 DEF TypeInv, DataOK, RunnerPc, ListMissingForProject, OfDocs
<1>4. \A d \in Docs : \A c \in chunks[d] \ todo : <<c, runner[w].model>> \in vectors
  BY DEF ListMissingForProject, OfDocs
<1>5. runner' = [runner EXCEPT ![w].pc = "next", ![w].todo = todo]
  BY DEF ListSync
<1> HIDE DEF todo
<1>6. runner' = [runner EXCEPT ![w] = [runner[w] EXCEPT !.pc = "next", !.todo = todo]]
  BY <1>5 DEF TypeInv, RunnersOK
<1>7. [runner[w] EXCEPT !.pc = "next", !.todo = todo]
          = [runner[w] EXCEPT !.pc = "next", !.todo = todo, !.model = runner[w].model,
                              !.created = runner[w].created]
  BY RunnerAt DEF RunnerType
<1>8. SetsTo(w, "next", todo, runner[w].model, runner[w].created)
  BY <1>6, <1>7 DEF SetsTo
<1>9. PICK r \in RunnerType :
          /\ runner' = [runner EXCEPT ![w] = r]
          /\ r.pc = "next" /\ r.job = runner[w].job /\ r.row = Target(w) /\ r.task = runner[w].task
          /\ r.seen = Loaded(w) /\ r.todo = todo /\ r.model = runner[w].model
          /\ r.created = runner[w].created /\ r.force = runner[w].force
  BY <1>2, <1>3, <1>8, Updates
<1>10. RunnerOK(w, r)
  BY <1>1, <1>2, <1>9, RunnerAt DEF RunnerOK
<1>11. MoveOf(w, r)
  BY <1>1, <1>2, <1>9, <1>10, PlainMove
<1> QED
  BY <1>1, <1>2, <1>4, <1>9, <1>11

(* One chunk: the checks, the call and the insert *)
Embedding(w) == (\E m \in Models : Embed(w, m)) \/ EmbedRaises(w) \/ Recheck(w)

LEMMA Embeds ==
    ASSUME TypeInv, NEW w \in Runners, Embedding(w)
    PROVE  \E r \in RunnerType :
            /\ MoveOf(w, r) /\ UNCHANGED <<row, vectors>>
            /\ runner[w].pc \in {"next", "embedded"} /\ Target(w) \in Rows
            /\ r.pc \in {"embedded", "insert", "cancelled", "raised"}
            /\ r.pc \in {"embedded", "insert"} =>
                /\ r.todo = runner[w].todo /\ r.created = runner[w].created
                /\ \/ r.model = runner[w].model
                   \/ ~runner[w].created /\ runner[w].force
                   \/ \A d \in Docs : Target(w) \in {d, Project} => d \in mixed'
<1>1. /\ runner[w].pc \in {"next", "embedded"} /\ runner[w].pc \in JobPc
      /\ UNCHANGED <<row, chunks, vectors, locked, broker, request, lost>>
  BY DEF Embedding, Embed, EmbedRaises, Recheck, Is, data, ghosts, JobPc
<1>2. /\ Target(w) \in Rows /\ runner[w].model \in Models /\ runner[w].created \in BOOLEAN
      /\ runner[w].todo \in SUBSET Chunks
      /\ runner[w].pc # "idle" /\ mixed \subseteq Docs
  BY <1>1, JobAt
<1>3. ASSUME NEW pc \in {"insert", "cancelled", "raised"}, GoTo(w, pc),
             pc = "insert" => runner[w].pc = "embedded",
             asked' = asked \/ (asked < MaxEvents /\ asked' = asked + 1), mixed' = mixed
      PROVE  \E r \in RunnerType :
                /\ MoveOf(w, r) /\ r.pc = pc /\ r.todo = runner[w].todo
                /\ r.created = runner[w].created /\ r.model = runner[w].model
  <2>1. pc \in RunnerPc
    BY DEF RunnerPc
  <2>2. PICK r \in RunnerType :
            /\ runner' = [runner EXCEPT ![w] = r]
            /\ r.pc = pc /\ r.job = runner[w].job /\ r.row = Target(w) /\ r.task = runner[w].task
            /\ r.seen = Loaded(w) /\ r.todo = runner[w].todo /\ r.model = runner[w].model
            /\ r.created = runner[w].created /\ r.force = runner[w].force
    BY <1>3, <2>1, Goes
  <2>3. RunnerOK(w, r)
    BY <1>1, <1>3, <2>2, RunnerAt DEF RunnerOK
  <2>4. MoveOf(w, r)
    BY <1>1, <1>2, <1>3, <2>2, <2>3, PlainMove
  <2> QED
    BY <2>2, <2>4
<1>4. CASE \E m \in Models : Embed(w, m)
  <2>1. PICK m \in Models : Embed(w, m)
    BY <1>4
  <2>2. /\ runner[w].pc = "next" /\ runner[w].todo # {}
        /\ asked' = asked \/ (asked < MaxEvents /\ asked' = asked + 1)
    BY <2>1 DEF Embed, Is, Faulty
  <2>3. CASE CancelSeen(Target(w)) \/ ~StaysAfter(w, m)
    <3>1. mixed' = mixed /\ (GoTo(w, "cancelled") \/ GoTo(w, "raised"))
      BY <2>1, <2>3 DEF Embed
    <3>2. CASE GoTo(w, "cancelled")
      <4>1. PICK r \in RunnerType : MoveOf(w, r) /\ r.pc = "cancelled"
        BY <1>3, <2>2, <3>1, <3>2
      <4> QED
        BY <1>1, <1>2, <4>1
    <3>3. CASE GoTo(w, "raised")
      <4>1. PICK r \in RunnerType : MoveOf(w, r) /\ r.pc = "raised"
        BY <1>3, <2>2, <3>1, <3>3
      <4> QED
        BY <1>1, <1>2, <4>1
    <3> QED
      BY <3>1, <3>2, <3>3
  <2>4. CASE ~CancelSeen(Target(w)) /\ StaysAfter(w, m)
    <3>1. /\ runner' = [runner EXCEPT ![w].pc = "embedded", ![w].model = m]
          /\ mixed' = IF m # runner[w].model /\ ~runner[w].force
                        THEN mixed \cup (IF Target(w) = Project THEN Docs ELSE {Target(w)})
                        ELSE mixed
      BY <2>1, <2>4 DEF Embed
    <3>2. runner' = [runner EXCEPT ![w] = [runner[w] EXCEPT !.pc = "embedded", !.model = m]]
      BY <3>1 DEF TypeInv, RunnersOK
    <3>3. [runner[w] EXCEPT !.pc = "embedded", !.model = m]
            = [runner[w] EXCEPT !.pc = "embedded", !.todo = runner[w].todo, !.model = m,
                                !.created = runner[w].created]
      BY RunnerAt DEF RunnerType
    <3>4. SetsTo(w, "embedded", runner[w].todo, m, runner[w].created) /\ "embedded" \in RunnerPc
      BY <3>2, <3>3 DEF SetsTo, RunnerPc
    <3>5. PICK r \in RunnerType :
            /\ runner' = [runner EXCEPT ![w] = r]
            /\ r.pc = "embedded" /\ r.job = runner[w].job /\ r.row = Target(w) /\ r.task = runner[w].task
            /\ r.seen = Loaded(w) /\ r.todo = runner[w].todo /\ r.model = m
            /\ r.created = runner[w].created /\ r.force = runner[w].force
      BY <1>2, <3>4, Updates
    <3>6. RunnerOK(w, r)
      BY <1>1, <2>2, <3>5, RunnerAt DEF RunnerOK
    <3>7. mixed \subseteq mixed' /\ mixed' \subseteq Docs
      BY <1>2, <3>1 DEF Rows
    <3>8. MoveOf(w, r)
      BY <1>1, <1>2, <2>2, <3>5, <3>6, <3>7, PlainMove
    <3>9. \/ m = runner[w].model
          \/ ~runner[w].created /\ runner[w].force
          \/ \A d \in Docs : Target(w) \in {d, Project} => d \in mixed'
      <4>1. CASE m # runner[w].model /\ runner[w].force
        BY <2>4, <4>1 DEF StaysAfter
      <4>2. CASE m # runner[w].model /\ ~runner[w].force
        BY <3>1, <4>2
      <4>3. CASE m = runner[w].model
        BY <4>3
      <4> QED
        BY <4>1, <4>2, <4>3
    <3> QED
      BY <1>1, <1>2, <3>5, <3>8, <3>9
  <2> QED
    BY <2>3, <2>4
<1>5. CASE EmbedRaises(w)
  <2>1. GoTo(w, "raised") /\ asked' = asked /\ mixed' = mixed
    BY <1>5 DEF EmbedRaises, ghosts
  <2>2. PICK r \in RunnerType : MoveOf(w, r) /\ r.pc = "raised"
    BY <1>3, <2>1
  <2> QED
    BY <1>1, <1>2, <2>2
<1>6. CASE Recheck(w)
  <2>1. /\ GoTo(w, "cancelled") \/ GoTo(w, "insert")
        /\ asked' = asked /\ mixed' = mixed /\ runner[w].pc = "embedded"
    BY <1>6 DEF Recheck, ghosts, Is
  <2>2. PICK r \in RunnerType :
                /\ MoveOf(w, r) /\ r.pc \in {"cancelled", "insert"} /\ r.todo = runner[w].todo
                /\ r.created = runner[w].created /\ r.model = runner[w].model
    BY <1>3, <2>1
  <2> QED
    BY <1>1, <1>2, <2>2
<1> QED
  BY <1>4, <1>5, <1>6 DEF Embedding

LEMMA Inserts ==
    ASSUME TypeInv, NEW w \in Runners, Insert(w)
    PROVE  \E r \in RunnerType :
            /\ MoveOf(w, r) /\ UNCHANGED <<row, mixed>> /\ vectors \subseteq vectors'
            /\ runner[w].pc = "insert" /\ Target(w) \in Rows
            /\ r.pc \in {"next", "raised"}
            /\ r.pc = "next" => /\ r.created /\ r.model = runner[w].model
                                /\ \A c \in runner[w].todo \ r.todo : <<c, r.model>> \in vectors'
<1>1. /\ runner[w].pc = "insert" /\ runner[w].pc \in JobPc
      /\ UNCHANGED <<row, chunks, locked, broker, request, asked, lost, mixed>>
  BY DEF Insert, Is, ghosts, JobPc
<1>2. /\ Target(w) \in Rows /\ runner[w].model \in Models /\ runner[w].created \in BOOLEAN
      /\ runner[w].todo \in SUBSET Chunks
      /\ runner[w].pc # "idle" /\ mixed \subseteq Docs
  BY <1>1, JobAt
<1> DEFINE c == ChunkInHand(w)
           m == runner[w].model
           todo == runner[w].todo \ {c}
<1>3. CASE Storable(c, m)
  <2>1. /\ vectors' = vectors \cup {<<c, m>>}
        /\ runner' = [runner EXCEPT ![w].pc = "next", ![w].created = TRUE, ![w].todo = @ \ {c}]
    BY <1>3 DEF Insert
  <2>2. vectors' \subseteq OfDocs(Docs) \X Models
    BY <1>2, <1>3, <2>1 DEF Storable, TypeInv, DataOK
  <2>3. todo \in SUBSET Chunks /\ \A b \in runner[w].todo \ todo : b = c
    BY <1>2
  <2> HIDE DEF c
  <2>4. runner' = [runner EXCEPT ![w] = [runner[w] EXCEPT !.pc = "next", !.created = TRUE, !.todo = todo]]
    BY <2>1 DEF TypeInv, RunnersOK
  <2> HIDE DEF todo
  <2>5. [runner[w] EXCEPT !.pc = "next", !.created = TRUE, !.todo = todo]
            = [runner[w] EXCEPT !.pc = "next", !.todo = todo, !.model = m, !.created = TRUE]
    BY RunnerAt DEF RunnerType
  <2> HIDE DEF m
  <2>6. PICK created \in BOOLEAN : created /\ SetsTo(w, "next", todo, m, created)
    BY <2>4, <2>5 DEF SetsTo
  <2>7. PICK r \in RunnerType :
            /\ runner' = [runner EXCEPT ![w] = r]
            /\ r.pc = "next" /\ r.job = runner[w].job /\ r.row = Target(w) /\ r.task = runner[w].task
            /\ r.seen = Loaded(w) /\ r.todo = todo /\ r.model = m
            /\ r.created = created /\ r.force = runner[w].force
    <3>1. m \in Models /\ "next" \in RunnerPc
      BY <1>2 DEF m, RunnerPc
    <3>2. todo \in SUBSET Chunks /\ SetsTo(w, "next", todo, m, created)
      BY <2>3, <2>6
    <3> QED
      BY <3>1, <3>2, Updates
  <2>8. RunnerOK(w, r)
    BY <1>1, <1>2, <2>7, RunnerAt DEF RunnerOK, m
  <2>9. RowsKept /\ asked' \in 0 .. MaxEvents
    BY <1>1, SameKeepsRows DEF TypeInv, CountsOK
  <2>10. MoveOf(w, r)
    BY <1>1, <1>2, <2>2, <2>7, <2>8, <2>9 DEF MoveOf
  <2>11. \A b \in runner[w].todo \ r.todo : <<b, r.model>> \in vectors'
    BY <2>1, <2>3, <2>7 DEF todo
  <2> QED
    BY <1>1, <1>2, <2>1, <2>6, <2>7, <2>10, <2>11 DEF m
<1>4. CASE ~Storable(c, m)
  <2>1. GoTo(w, "raised") /\ vectors' = vectors /\ "raised" \in RunnerPc
    BY <1>4 DEF Insert, RunnerPc
  <2>2. PICK r \in RunnerType :
            /\ runner' = [runner EXCEPT ![w] = r]
            /\ r.pc = "raised" /\ r.job = runner[w].job /\ r.row = Target(w) /\ r.task = runner[w].task
            /\ r.seen = Loaded(w) /\ r.force = runner[w].force
    BY <2>1, Goes
  <2>3. RunnerOK(w, r)
    BY <1>1, <2>2, RunnerAt DEF RunnerOK
  <2>4. MoveOf(w, r)
    BY <1>1, <1>2, <2>1, <2>2, <2>3, PlainMove
  <2> QED
    BY <1>1, <1>2, <2>1, <2>2, <2>4
<1> QED
  BY <1>3, <1>4

LEMMA Refreshes ==
    ASSUME TypeInv, NEW w \in Runners, RefreshRow(w)
    PROVE  \E r \in RunnerType :
            /\ MoveOf(w, r) /\ UNCHANGED <<row, vectors, mixed>>
            /\ runner[w].pc = "next" /\ runner[w].todo = {} /\ Target(w) \in Rows
            /\ r.pc \in {"mark", "write_cancelled", "raised"}
            /\ r.pc = "mark" => r.todo = {} /\ r.model = runner[w].model /\ r.seen = row[Target(w)]
<1>1. /\ runner[w].pc = "next" /\ runner[w].pc \in JobPc /\ runner[w].todo = {}
      /\ UNCHANGED <<row, chunks, vectors, locked, broker, request, asked, lost, mixed>>
  BY DEF RefreshRow, Is, data, ghosts, JobPc
<1>2. /\ Target(w) \in Rows /\ runner[w].pc # "idle" /\ mixed \subseteq Docs /\ runner[w].model \in Models
  BY <1>1, JobAt
<1>3. CASE Exists(Target(w))
  <2>1. PICK pc \in {"write_cancelled", "mark"} :
            pc = IF CancelSeen(Target(w)) THEN "write_cancelled" ELSE "mark"
    OBVIOUS
  <2>2. ReadsRow(w, pc, Target(w)) /\ pc \in RunnerPc
    BY <1>3, <2>1 DEF RefreshRow, ReadsRow, RunnerPc
  <2>3. PICK r \in RunnerType :
            /\ runner' = [runner EXCEPT ![w] = r]
            /\ r.pc = pc /\ r.job = runner[w].job /\ r.row = Target(w) /\ r.task = runner[w].task
            /\ r.seen = row[Target(w)] /\ r.todo = runner[w].todo /\ r.model = runner[w].model
            /\ r.created = runner[w].created /\ r.force = runner[w].force /\ r.seen \in RowType
    BY <1>2, <1>3, <2>2, Reads
  <2>4. RunnerOK(w, r)
    BY <1>1, <1>2, <2>3, RunnerAt DEF RunnerOK
  <2>5. MoveOf(w, r)
    BY <1>1, <1>2, <2>3, <2>4, PlainMove
  <2> QED
    BY <1>1, <1>2, <2>3, <2>5
<1>4. CASE ~Exists(Target(w))
  <2>1. GoTo(w, "raised") /\ "raised" \in RunnerPc
    BY <1>4 DEF RefreshRow, RunnerPc
  <2>2. PICK r \in RunnerType :
            /\ runner' = [runner EXCEPT ![w] = r]
            /\ r.pc = "raised" /\ r.job = runner[w].job /\ r.row = Target(w) /\ r.task = runner[w].task
            /\ r.seen = Loaded(w) /\ r.force = runner[w].force
    BY <2>1, Goes
  <2>3. RunnerOK(w, r)
    BY <1>1, <2>2, RunnerAt DEF RunnerOK
  <2>4. MoveOf(w, r)
    BY <1>1, <1>2, <2>2, <2>3, PlainMove
  <2> QED
    BY <1>1, <1>2, <2>2, <2>4
<1> QED
  BY <1>3, <1>4

(* mark_embeddings_current *)
LEMMA MarksCurrent ==
    ASSUME TypeInv, NEW w \in Runners, MarkCurrent(w)
    PROVE  \E r \in RunnerType :
            /\ MoveOf(w, r) /\ UNCHANGED <<vectors, mixed>>
            /\ runner[w].pc = "mark" /\ runner[w].job = "rebuild" /\ Target(w) \in Docs
            /\ \/ /\ Exists(Target(w)) /\ r.pc = "idle"
                  /\ \E q \in RowType :
                        /\ row' = [row EXCEPT ![Target(w)] = q] /\ q.status = row[Target(w)].status
                        /\ q.embedding = IF "completed" # Loaded(w).embedding THEN "completed"
                                         ELSE row[Target(w)].embedding
                        /\ q.model = IF runner[w].model # Loaded(w).model THEN runner[w].model
                                     ELSE row[Target(w)].model
               \/ row' = row /\ r.pc = "raised"
<1>1. /\ runner[w].pc = "mark" /\ runner[w].pc \in JobPc /\ Target(w) # Project
      /\ UNCHANGED <<chunks, vectors, locked, broker, request, asked, lost, mixed>>
  BY DEF MarkCurrent, Is, ghosts, JobPc
<1>2. /\ Target(w) \in Docs /\ runner[w].job = "rebuild" /\ runner[w].pc # "idle" /\ mixed \subseteq Docs
      /\ runner[w].model \in Models /\ Loaded(w) \in RowType /\ Target(w) \in Rows
  BY <1>1, JobAt
<1>3. CASE Exists(Target(w))
  <2> DEFINE new == [Loaded(w) EXCEPT !.embedding = "completed", !.model = runner[w].model, !.task = None]
  <2>1. /\ new \in RowType /\ new.status = Loaded(w).status /\ new.embedding = "completed"
        /\ new.task = None /\ new.model = runner[w].model
    BY <1>2 DEF RowType, EmbeddingStatus
  <2> HIDE DEF new
  <2>2. Flush(Target(w), Loaded(w), new) /\ Ack(w)
    BY <1>3 DEF MarkCurrent, new
  <2>3. PICK q \in RowType :
            /\ row[Target(w)] \in RowType /\ row' = [row EXCEPT ![Target(w)] = q] /\ Named(q.task, Target(w))
            /\ q.status = row[Target(w)].status
            /\ q.embedding = IF "completed" # Loaded(w).embedding THEN "completed"
                             ELSE row[Target(w)].embedding
            /\ q.model = IF runner[w].model # Loaded(w).model THEN runner[w].model ELSE row[Target(w)].model
    BY <1>2, <2>1, <2>2, RunnerFlushes
  <2>4. RowsKept
    BY <1>2, <1>3, <2>3, WriteKeepsRows DEF TypeInv
  <2>5. MoveOf(w, IdleRunner)
    BY <1>1, <1>2, <2>2, <2>4, Acks, PlainMove
  <2> QED
    BY <1>1, <1>2, <1>3, <2>2, <2>3, <2>5, Acks
<1>4. CASE ~Exists(Target(w))
  <2>1. row' = row /\ GoTo(w, "raised") /\ "raised" \in RunnerPc
    BY <1>4 DEF MarkCurrent, RunnerPc
  <2>2. PICK r \in RunnerType :
            /\ runner' = [runner EXCEPT ![w] = r]
            /\ r.pc = "raised" /\ r.job = runner[w].job /\ r.row = Target(w) /\ r.task = runner[w].task
            /\ r.force = runner[w].force
    BY <2>1, Goes
  <2>3. RunnerOK(w, r)
    BY <1>1, <1>2, <2>2, RunnerAt DEF RunnerOK
  <2>4. MoveOf(w, r)
    BY <1>1, <1>2, <2>1, <2>2, <2>3, PlainMove
  <2> QED
    BY <1>1, <1>2, <2>1, <2>2, <2>4
<1> QED
  BY <1>3, <1>4

(* mark_project_embeddings_current *)
LEMMA MarksDocuments ==
    ASSUME TypeInv, NEW w \in Runners, MarkDocuments(w)
    PROVE  \E r \in RunnerType :
            /\ MoveOf(w, r) /\ UNCHANGED <<vectors, mixed>>
            /\ runner[w].pc = "mark" /\ runner[w].job = "sync" /\ Target(w) = Project
            /\ r.pc = "mark_project" /\ row'[Project] = row[Project]
            /\ \A d \in Docs : chunks[d] = {} => row'[d] = row[d]
            /\ \A d \in Docs : chunks[d] # {} =>
                    /\ row'[d].embedding = "completed" /\ row'[d].model = runner[w].model
                    /\ row'[d].status = row[d].status
<1>1. /\ runner[w].pc = "mark" /\ runner[w].pc \in JobPc /\ Target(w) = Project
      /\ UNCHANGED <<chunks, vectors, locked, broker, request, asked, lost, mixed>>
  BY DEF MarkDocuments, Is, ghosts, JobPc
<1>2. /\ runner[w].job = "sync" /\ runner[w].pc # "idle" /\ mixed \subseteq Docs
      /\ runner[w].model \in Models /\ Target(w) \in Rows
  BY <1>1, JobAt, DocumentsAssumption
<1>3. /\ row' = [x \in Rows |-> IF x \in Embedded
                    THEN [row[x] EXCEPT !.embedding = "completed", !.model = runner[w].model]
                    ELSE row[x]]
      /\ GoTo(w, "mark_project") /\ "mark_project" \in RunnerPc
  BY DEF MarkDocuments, RunnerPc
<1>4. \A d \in Docs : chunks[d] # {} =>
        /\ row'[d] \in RowType /\ Exists(d) /\ row'[d].task = row[d].task
        /\ row'[d].embedding = "completed" /\ row'[d].model = runner[w].model
        /\ row'[d].status = row[d].status
  <2> SUFFICES ASSUME NEW d \in Docs, chunks[d] # {}
               PROVE  /\ row'[d] \in RowType /\ Exists(d) /\ row'[d].task = row[d].task
                      /\ row'[d].embedding = "completed" /\ row'[d].model = runner[w].model
                      /\ row'[d].status = row[d].status
    OBVIOUS
  <2>1. d \in Rows /\ Exists(d)
    BY DEF TypeInv, DataOK, Rows
  <2>2. row[d] \in RowType
    BY <2>1, ExistsRow DEF TypeInv
  <2>3. row'[d] = [row[d] EXCEPT !.embedding = "completed", !.model = runner[w].model]
    BY <1>3, <2>1 DEF Embedded
  <2> QED
    BY <1>2, <2>1, <2>2, <2>3 DEF RowType, EmbeddingStatus
<1>5. /\ \A d \in Docs : chunks[d] = {} => row'[d] = row[d]
      /\ row'[Project] = row[Project]
  BY <1>3, DocumentsAssumption DEF Embedded, Rows
<1>6. RowsKept
  <2>1. \A x \in Rows : row'[x] = row[x]
                        \/ (row'[x] \in RowType /\ Exists(x) /\ row'[x].task = row[x].task)
    BY <1>4, <1>5 DEF Rows
  <2>2. row' \in RowsType
    <3>1. \A x \in Rows : row'[x] \in RowType \cup {None, Unborn}
      BY <2>1 DEF TypeInv, DataOK, RowsType
    <3>2. row' = [x \in Rows |-> row'[x]]
      BY <1>3
    <3> QED
      BY <3>1, <3>2 DEF RowsType
  <2>3. \A x \in Rows : Exists(x)' <=> Exists(x)
    BY <2>1, RowIsNot DEF Exists
  <2>4. \A x \in Rows : Exists(x) => Named(row'[x].task, x)
    BY <2>1 DEF TypeInv, DataOK
  <2> QED
    BY <2>2, <2>3, <2>4 DEF RowsKept
<1>7. PICK r \in RunnerType :
            /\ runner' = [runner EXCEPT ![w] = r]
            /\ r.pc = "mark_project" /\ r.job = runner[w].job /\ r.row = Target(w) /\ r.task = runner[w].task
            /\ r.force = runner[w].force /\ r.seen = Loaded(w) /\ r.model = runner[w].model
            /\ r.todo = runner[w].todo
  <2>1. GoTo(w, "mark_project") /\ "mark_project" \in RunnerPc
    BY <1>3
  <2> QED
    BY <2>1, Goes
<1>8. RunnerOK(w, r)
  BY <1>1, <1>2, <1>7, RunnerAt DEF RunnerOK
<1>9. MoveOf(w, r)
  BY <1>1, <1>2, <1>6, <1>7, <1>8, PlainMove
<1> QED
  BY <1>1, <1>2, <1>4, <1>5, <1>7, <1>9

(* What the job writes to the row that it ran for: COMPLETED for a project, *)
(* FAILED or CANCELLED for either                                           *)
Closing(w) == MarkProject(w) \/ ReadRow(w) \/ WriteOutcome(w)

LEMMA Closes ==
    ASSUME TypeInv, NEW w \in Runners, Closing(w)
    PROVE  \E r \in RunnerType :
            /\ MoveOf(w, r) /\ UNCHANGED <<vectors, mixed>>
            /\ runner[w].pc \in JobPc /\ Target(w) \in Rows
            /\ r.pc \in {"idle", "raised", "write_failed", "write_cancelled"}
            /\ \/ \E q \in RowType :
                    /\ row' = [row EXCEPT ![Target(w)] = q] /\ q.status = row[Target(w)].status
                    /\ q.model = row[Target(w)].model
                    /\ \/ Target(w) = Project /\ q.embedding = "completed"
                       \/ q.embedding \in {"failed", "cancelled", row[Target(w)].embedding}
               \/ row' = row
<1>1. /\ runner[w].pc \in {"mark_project", "cancelled", "raised", "write_failed", "write_cancelled"}
      /\ runner[w].pc \in JobPc
      /\ UNCHANGED <<chunks, vectors, locked, broker, request, asked, lost, mixed>>
  BY DEF Closing, MarkProject, ReadRow, WriteOutcome, Is, ghosts, data, JobPc
<1>2. /\ runner[w].pc # "idle" /\ mixed \subseteq Docs /\ Target(w) \in Rows
      /\ runner[w].pc \in {"mark_project", "write_failed", "write_cancelled"} => Loaded(w) \in RowType
      /\ runner[w].pc = "mark_project" => Target(w) = Project
  BY <1>1, JobAt, RunnerAt DEF RunnerOK
<1>3. CASE MarkProject(w)
  <2>1. runner[w].pc = "mark_project" /\ Loaded(w) \in RowType /\ Target(w) = Project
    BY <1>2, <1>3 DEF MarkProject, Is
  <2>2. CASE Exists(Project)
    <3> DEFINE new == [Loaded(w) EXCEPT !.embedding = "completed", !.task = None]
    <3>1. /\ new \in RowType /\ new.status = Loaded(w).status /\ new.embedding = "completed"
          /\ new.task = None /\ new.model = Loaded(w).model
      BY <2>1 DEF RowType, EmbeddingStatus
    <3> HIDE DEF new
    <3>2. Flush(Target(w), Loaded(w), new) /\ Ack(w)
      BY <1>3, <2>1, <2>2 DEF MarkProject, new
    <3>3. PICK q \in RowType :
            /\ row[Target(w)] \in RowType /\ row' = [row EXCEPT ![Target(w)] = q] /\ Named(q.task, Target(w))
            /\ q.status = row[Target(w)].status
            /\ q.embedding = IF "completed" # Loaded(w).embedding THEN "completed"
                             ELSE row[Target(w)].embedding
            /\ q.model = row[Target(w)].model
      BY <1>2, <2>1, <3>1, <3>2, RunnerFlushes
    <3>4. RowsKept
      BY <1>2, <2>1, <2>2, <3>3, WriteKeepsRows DEF TypeInv
    <3>5. MoveOf(w, IdleRunner)
      BY <1>1, <1>2, <3>2, <3>4, Acks, PlainMove
    <3> QED
      BY <1>1, <1>2, <2>1, <3>2, <3>3, <3>5, Acks
  <2>3. CASE ~Exists(Project)
    <3>1. row' = row /\ GoTo(w, "raised") /\ "raised" \in RunnerPc
      BY <1>3, <2>3 DEF MarkProject, RunnerPc
    <3>2. PICK r \in RunnerType :
            /\ runner' = [runner EXCEPT ![w] = r]
            /\ r.pc = "raised" /\ r.job = runner[w].job /\ r.row = Target(w) /\ r.task = runner[w].task
            /\ r.force = runner[w].force
      BY <3>1, Goes
    <3>3. RunnerOK(w, r)
      BY <1>1, <1>2, <3>2, RunnerAt DEF RunnerOK
    <3>4. MoveOf(w, r)
      BY <1>1, <1>2, <3>1, <3>2, <3>3, PlainMove
    <3> QED
      BY <1>1, <1>2, <3>1, <3>2, <3>4
  <2> QED
    BY <2>2, <2>3
<1>4. CASE ReadRow(w)
  <2>1. row' = row
    BY <1>4 DEF ReadRow, data
  <2>2. CASE Exists(Target(w)) /\ (Is(w, "raised") => ~CancelSeen(Target(w)))
    <3>1. PICK pc \in {"write_failed", "write_cancelled"} :
            pc = IF Is(w, "raised") THEN "write_failed" ELSE "write_cancelled"
      OBVIOUS
    <3>2. ReadsRow(w, pc, Target(w)) /\ pc \in RunnerPc
      BY <1>4, <2>2, <3>1 DEF ReadRow, ReadsRow, RunnerPc
    <3>3. Exists(Target(w))
      BY <2>2
    <3>4. PICK r \in RunnerType :
            /\ runner' = [runner EXCEPT ![w] = r]
            /\ r.pc = pc /\ r.job = runner[w].job /\ r.row = Target(w) /\ r.task = runner[w].task
            /\ r.force = runner[w].force /\ r.seen \in RowType
      BY <1>2, <3>2, <3>3, Reads
    <3>5. RunnerOK(w, r)
      BY <1>1, <1>2, <3>4, RunnerAt DEF RunnerOK
    <3>6. MoveOf(w, r)
      BY <1>1, <1>2, <2>1, <3>4, <3>5, PlainMove
    <3> QED
      BY <1>1, <1>2, <2>1, <3>4, <3>6
  <2>3. CASE ~(Exists(Target(w)) /\ (Is(w, "raised") => ~CancelSeen(Target(w))))
    <3>1. Ack(w)
      BY <1>4, <2>3 DEF ReadRow
    <3>2. MoveOf(w, IdleRunner)
      BY <1>1, <1>2, <2>1, <3>1, Acks, PlainMove
    <3> QED
      BY <1>1, <1>2, <2>1, <3>1, <3>2, Acks
  <2> QED
    BY <2>2, <2>3
<1>5. CASE WriteOutcome(w)
  <2>1. runner[w].pc \in {"write_failed", "write_cancelled"} /\ Loaded(w) \in RowType /\ Ack(w)
    BY <1>2, <1>5 DEF WriteOutcome, Is
  <2>2. CASE Exists(Target(w))
    <3>1. PICK e \in {"failed", "cancelled"} : e = IF Is(w, "write_failed") THEN Failed ELSE "cancelled"
      BY DEF Failed
    <3> DEFINE new == [Loaded(w) EXCEPT !.task = None, !.embedding = e]
    <3>2. /\ new \in RowType /\ new.status = Loaded(w).status /\ new.embedding = e
          /\ new.task = None /\ new.model = Loaded(w).model
      BY <2>1 DEF RowType, EmbeddingStatus
    <3>3. new = [Loaded(w) EXCEPT !.task = None,
                    !.embedding = IF Is(w, "write_failed") THEN Failed ELSE "cancelled"]
      BY <3>1
    <3> HIDE DEF new
    <3>4. Flush(Target(w), Loaded(w), new)
      BY <1>5, <2>2, <3>3 DEF WriteOutcome
    <3>5. PICK q \in RowType :
            /\ row[Target(w)] \in RowType /\ row' = [row EXCEPT ![Target(w)] = q] /\ Named(q.task, Target(w))
            /\ q.status = row[Target(w)].status
            /\ q.embedding = IF e # Loaded(w).embedding THEN e ELSE row[Target(w)].embedding
            /\ q.model = row[Target(w)].model
      BY <1>2, <2>1, <3>2, <3>4, RunnerFlushes
    <3>6. RowsKept
      BY <1>2, <2>2, <3>5, WriteKeepsRows DEF TypeInv
    <3>7. MoveOf(w, IdleRunner)
      BY <1>1, <1>2, <2>1, <3>6, Acks, PlainMove
    <3> QED
      BY <1>1, <1>2, <2>1, <3>5, <3>7, Acks
  <2>3. CASE ~Exists(Target(w))
    <3>1. row' = row
      BY <1>5, <2>3 DEF WriteOutcome
    <3>2. MoveOf(w, IdleRunner)
      BY <1>1, <1>2, <2>1, <3>1, Acks, PlainMove
    <3> QED
      BY <1>1, <1>2, <2>1, <3>1, <3>2, Acks
  <2> QED
    BY <2>2, <2>3
<1> QED
  BY <1>3, <1>4, <1>5 DEF Closing

-----------------------------------------------------------------------------
(* The faults: the runners of R stop, every other goes on.  A row whose job  *)
(* or request stops with them is noted as lost unless its message returns.  *)
Stops(R) ==
    /\ runner' = [v \in Runners |-> IF v \in R THEN IdleRunner ELSE runner[v]]
    /\ locked' \in [Rows -> Runners \cup {None}]
    /\ \A x \in Rows : locked[x] \notin R => locked'[x] = locked[x]
    /\ UNCHANGED <<row, chunks, vectors, kind, target, mixed>>
    /\ queued \subseteq queued' /\ queued' \subseteq Tasks
    /\ \A t \in queued' \ queued : kind[t] # "none"
    /\ \A h \in Handlers : \/ request'[h] = request[h]
                           \/ request'[h] = IdleRequest /\ (At(h, "idle") \/ Row(h) \in lost')
    /\ request' \in [Handlers -> RequestType]
    /\ lost \subseteq lost' /\ lost' \subseteq Rows /\ asked' \in 0 .. MaxEvents
    /\ \A v \in R : \/ Is(v, "idle") \/ Target(v) \in lost'
                    \/ v \in Workers /\ runner[v].job = "process" /\ runner[v].task \in queued'

LEMMA StopsOne ==
    ASSUME TypeInv, NEW w \in Runners, Ack(w)
    PROVE  runner' = [v \in Runners |-> IF v \in {w} THEN IdleRunner ELSE runner[v]]
BY DEF Ack, TypeInv, RunnersOK

LEMMA FaultCounts ==
    ASSUME TypeInv, NEW fault, Faulty(fault)
    PROVE  asked' \in 0 .. MaxEvents
BY DocumentsAssumption DEF Faulty, TypeInv, CountsOK

LEMMA Unlocks ==
    ASSUME TypeInv, NEW w \in Runners, Unlock(w) \/ locked' = locked
    PROVE  /\ locked' \in [Rows -> Runners \cup {None}]
           /\ \A x \in Rows : locked[x] \notin {w} => locked'[x] = locked[x]
BY DEF Unlock, TypeInv, RunnersOK

LEMMA FaultStops ==
    ASSUME TypeInv, Fault
    PROVE  \E R \in SUBSET Runners : Stops(R)
<1>1. /\ request \in [Handlers -> RequestType] /\ lost \subseteq Rows /\ queued \subseteq Tasks
      /\ locked \in [Rows -> Runners \cup {None}] /\ runner \in [Runners -> RunnerType]
  BY DEF TypeInv, RequestsOK, CountsOK, BrokerOK, RunnersOK
<1>2. ASSUME NEW w \in Runners, ResolveFails(w)
      PROVE  Stops({w})
  <2>1. /\ Faulty("resolve") /\ ~Is(w, "idle") /\ Ack(w) /\ lost' = lost \cup {Target(w)}
        /\ UNCHANGED <<row, chunks, vectors, kind, target, mixed, locked, queued, request>>
    BY <1>2 DEF ResolveFails, Is, data, broker
  <2>2. Target(w) \in Rows
    BY <2>1, RunnerAt DEF Is
  <2> QED
    BY <1>1, <2>1, <2>2, StopsOne, FaultCounts, Unlocks DEF Stops
<1>3. ASSUME NEW w \in Runners, ChildDies(w)
      PROVE  Stops({w})
  <2>1. /\ Faulty("child") /\ ~Is(w, "idle") /\ Ack(w) /\ Unlock(w) /\ lost' = lost \cup {Target(w)}
        /\ UNCHANGED <<row, chunks, vectors, kind, target, mixed, queued, request>>
    BY <1>3 DEF ChildDies, broker
  <2>2. Target(w) \in Rows
    BY <2>1, RunnerAt DEF Is
  <2> QED
    BY <1>1, <2>1, <2>2, StopsOne, FaultCounts, Unlocks DEF Stops
<1>4. ASSUME NEW w \in Runners, Redeliver(w)
      PROVE  \E R \in SUBSET Runners : Stops(R)
  <2>1. /\ Faulty("redelivery") /\ w \in Workers /\ ~Is(w, "idle")
        /\ queued' = queued \cup {runner[w].task}
        /\ UNCHANGED <<row, chunks, vectors, kind, target, request, mixed>>
    BY <1>4 DEF Redeliver
  <2>2. /\ runner[w].task \in Tasks /\ kind[runner[w].task] = runner[w].job /\ runner[w].job # "none"
        /\ Target(w) \in Rows
    BY <2>1, RunnerAt DEF Is, RunnerOK
  <2>3. CASE /\ Unlock(w) /\ Ack(w)
             /\ lost' = lost \cup (IF runner[w].job = "process" THEN {} ELSE {Target(w)})
    <3>1. asked' \in 0 .. MaxEvents
      BY <2>1, FaultCounts
    <3>2. runner' = [v \in Runners |-> IF v \in {w} THEN IdleRunner ELSE runner[v]]
      BY <2>3, StopsOne
    <3>3. /\ locked' \in [Rows -> Runners \cup {None}]
          /\ \A x \in Rows : locked[x] \notin {w} => locked'[x] = locked[x]
      BY <2>3, Unlocks
    <3>4. lost \subseteq lost' /\ lost' \subseteq Rows
      BY <1>1, <2>2, <2>3
    <3>5. \/ Target(w) \in lost'
          \/ w \in Workers /\ runner[w].job = "process" /\ runner[w].task \in queued'
      BY <2>1, <2>3
    <3>6. /\ queued \subseteq queued' /\ queued' \subseteq Tasks
          /\ \A t \in queued' \ queued : kind[t] # "none"
      BY <1>1, <2>1, <2>2
    <3>7. Stops({w})
      BY <1>1, <2>1, <3>1, <3>2, <3>3, <3>4, <3>5, <3>6 DEF Stops
    <3> QED
      BY <3>7
  <2>4. CASE UNCHANGED <<locked, runner, lost>>
    <3>1. runner' = [v \in Runners |-> IF v \in {} THEN IdleRunner ELSE runner[v]]
      BY <1>1, <2>4
    <3>2. asked' \in 0 .. MaxEvents
      BY <2>1, FaultCounts
    <3>3. Stops({})
      BY <1>1, <2>1, <2>2, <2>4, <3>1, <3>2 DEF Stops
    <3> QED
      BY <3>3
  <2> QED
    BY <1>4, <2>3, <2>4 DEF Redeliver
<1>5. ASSUME ApiCrash
      PROVE  Stops(Slots)
  <2>1. /\ Faulty("api")
        /\ request' = [h \in Handlers |-> IdleRequest]
        /\ runner' = [v \in Runners |-> IF v \in Slots THEN IdleRunner ELSE runner[v]]
        /\ UNCHANGED <<row, chunks, vectors, kind, target, mixed, locked, queued>>
    BY <1>5 DEF ApiCrash, data, broker
  <2>2. lost' = lost \cup {Row(h) : h \in {k \in Handlers : ~At(k, "idle")}}
                    \cup {Target(s) : s \in {s \in Slots : ~Is(s, "idle")}}
    BY <1>5 DEF ApiCrash
  <2>3. /\ lost \subseteq lost'
        /\ \A h \in Handlers : At(h, "idle") \/ Row(h) \in lost'
        /\ \A v \in Slots : Is(v, "idle") \/ Target(v) \in lost'
    BY <2>2
  <2>4. lost' \subseteq Rows
    <3>1. \A h \in Handlers : ~At(h, "idle") => Row(h) \in Rows
      BY DEF TypeInv, RequestsOK, RequestOK, At, Row
    <3>2. \A v \in Slots : ~Is(v, "idle") => Target(v) \in Rows
      BY RunnerAt DEF Is, Runners
    <3> QED
      BY <1>1, <2>2, <3>1, <3>2
  <2>5. request' \in [Handlers -> RequestType]
    BY <2>1, IdleRecords
  <2>6. \A h \in Handlers : request'[h] = IdleRequest
    BY <2>1
  <2>7. asked' \in 0 .. MaxEvents
    BY <2>1, FaultCounts
  <2> QED
    BY <1>1, <2>1, <2>3, <2>4, <2>5, <2>6, <2>7 DEF Stops
<1>6. Slots \in SUBSET Runners
  BY DEF Runners
<1> QED
  BY <1>2, <1>3, <1>4, <1>5, <1>6 DEF Fault

LEMMA StopsType ==
    ASSUME TypeInv, NEW R \in SUBSET Runners, Stops(R)
    PROVE  TypeInv'
<1>1. Sent
  BY DEF Stops, Sent
<1>2. BrokerOK'
  BY DEF Stops, TypeInv, BrokerOK, MessageOK
<1>3. RowsKept
  BY SameKeepsRows DEF Stops, TypeInv
<1>4. DataOK'
  <2>1. vectors' \subseteq OfDocs(Docs) \X Models /\ chunks' = chunks
    BY DEF Stops, TypeInv, DataOK
  <2> QED
    BY <1>1, <1>3, <2>1, DataStays DEF TypeInv
<1>5. RunnersOK'
  BY <1>1, <1>3, RunnersStop DEF Stops, TypeInv
<1>6. RequestsOK'
  <2>1. ASSUME NEW h \in Handlers
        PROVE  RequestOK(request[h])'
    <3>1. CASE request'[h] = request[h]
      BY <1>1, <3>1 DEF TypeInv, RequestsOK, RequestOK, Sent, Named
    <3>2. CASE request'[h] = IdleRequest
      BY <3>2 DEF RequestOK, IdleRequest
    <3> QED
      BY <3>1, <3>2 DEF Stops
  <2> QED
    BY <2>1 DEF RequestsOK, Stops
<1>7. CountsOK'
  BY DEF Stops, TypeInv, CountsOK
<1> QED
  BY <1>2, <1>4, <1>5, <1>6, <1>7 DEF TypeInv

-----------------------------------------------------------------------------
(* Every step, by what it does *)

Moving(w) ==
    \/ FailRefresh(w) \/ FailProcessing(w) \/ \E m \in Models : StartJob(w, m)
    \/ ListRebuild(w) \/ ListSync(w) \/ Embedding(w) \/ Insert(w) \/ RefreshRow(w)
    \/ MarkCurrent(w) \/ MarkDocuments(w) \/ Closing(w)

LEMMA Moves ==
    ASSUME TypeInv, NEW w \in Runners, Moving(w)
    PROVE  \E r \in RunnerType : MoveOf(w, r)
<1>1. CASE FailRefresh(w)
  BY <1>1, FailReads
<1>2. CASE FailProcessing(w)
  BY <1>2, FailWrites, IdleRecords
<1>3. ASSUME NEW m \in Models, StartJob(w, m)
      PROVE  \E r \in RunnerType : MoveOf(w, r)
  BY <1>3, JobStarts
<1>4. CASE ListRebuild(w)
  BY <1>4, RebuildLists
<1>5. CASE ListSync(w)
  BY <1>5, SyncLists
<1>6. CASE Embedding(w)
  BY <1>6, Embeds
<1>7. CASE Insert(w)
  BY <1>7, Inserts
<1>8. CASE RefreshRow(w)
  BY <1>8, Refreshes
<1>9. CASE MarkCurrent(w)
  BY <1>9, MarksCurrent
<1>10. CASE MarkDocuments(w)
  BY <1>10, MarksDocuments
<1>11. CASE Closing(w)
  BY <1>11, Closes
<1> QED
  BY <1>1, <1>2, <1>3, <1>4, <1>5, <1>6, <1>7, <1>8, <1>9, <1>10, <1>11 DEF Moving

LEMMA HandlerSteps ==
    ASSUME NEW h \in Handlers, HandlerStep(h)
    PROVE  \/ Writing(h) \/ Enqueue(h) \/ Revoking(h) \/ ToolRefused(h) \/ RowGone(h)
           \/ DeleteCommit(h) \/ DeleteProject(h) \/ \E s \in Slots : Spawn(h, s)
BY DEF HandlerStep, ProcessingHandler, EmbeddingHandler, Writing, Revoking

LEMMA RunnerSteps ==
    ASSUME NEW w \in Runners, RunnerStep(w)
    PROVE  \/ \E t \in Tasks : Taking(w, t)
           \/ StartProcessing(w) \/ ProcessRaises(w) \/ Moving(w)
           \/ \E m \in Models : CompleteProcessing(w, m)
BY DEF RunnerStep, ProcessingTask, EmbeddingTask, Taking, Moving, Embedding, Closing

LEMMA NextSteps ==
    ASSUME Next
    PROVE  \/ \E h \in Handlers : Asking(h) \/ HandlerStep(h)
           \/ \E d \in Docs : Upload(d)
           \/ \E w \in Runners : RunnerStep(w)
           \/ Fault
BY DEF Next, Asking

LEMMA HandlerType ==
    ASSUME TypeInv, NEW h \in Handlers, HandlerStep(h)
    PROVE  TypeInv'
<1>1. CASE Writing(h)
  BY <1>1, WriteType
<1>2. CASE Enqueue(h)
  BY <1>2, EnqueueType
<1>3. CASE Revoking(h)
  BY <1>3, RevokeType
<1>4. CASE ToolRefused(h) \/ RowGone(h)
  BY <1>4, Ends, EndType
<1>5. CASE DeleteCommit(h) \/ DeleteProject(h)
  BY <1>5, DeleteType
<1>6. CASE \E s \in Slots : Spawn(h, s)
  BY <1>6, SpawnType
<1> QED
  BY <1>1, <1>2, <1>3, <1>4, <1>5, <1>6, HandlerSteps

LEMMA RunnerStepType ==
    ASSUME TypeInv, NEW w \in Runners, RunnerStep(w)
    PROVE  TypeInv'
<1>1. CASE \E t \in Tasks : Taking(w, t)
  BY <1>1, TakeType
<1>2. CASE StartProcessing(w)
  BY <1>2, StartType
<1>3. CASE ProcessRaises(w)
  BY <1>3, RaiseType
<1>4. CASE Moving(w)
  BY <1>4, Moves, MoveType
<1>5. CASE \E m \in Models : CompleteProcessing(w, m)
  BY <1>5, CompleteType
<1> QED
  BY <1>1, <1>2, <1>3, <1>4, <1>5, RunnerSteps

LEMMA NextType ==
    ASSUME TypeInv, [Next]_vars
    PROVE  TypeInv'
<1>1. CASE \E h \in Handlers : Asking(h) \/ HandlerStep(h)
  BY <1>1, LoadType, HandlerType
<1>2. CASE \E d \in Docs : Upload(d)
  BY <1>2, UploadType
<1>3. CASE \E w \in Runners : RunnerStep(w)
  BY <1>3, RunnerStepType
<1>4. CASE Fault
  BY <1>4, FaultStops, StopsType
<1>5. CASE UNCHANGED vars
  <2>1. Sent /\ BrokerOK'
    BY <1>5, BrokerStays DEF TypeInv, vars, broker
  <2>2. RowsKept
    BY <1>5, SameKeepsRows DEF TypeInv, vars, data
  <2>3. /\ vectors' = vectors /\ chunks' = chunks /\ locked' = locked /\ runner' = runner
        /\ request' = request /\ asked' = asked /\ lost' = lost /\ mixed' = mixed
    BY <1>5 DEF vars, data, ghosts
  <2>4. DataOK'
    BY <2>1, <2>2, <2>3, DataStays DEF TypeInv, DataOK
  <2>5. RunnersOK' /\ RequestsOK'
    BY <2>1, <2>2, <2>3, RunnersStay, RequestsStay DEF TypeInv
  <2>6. CountsOK'
    BY <2>3 DEF TypeInv, CountsOK
  <2> QED
    BY <2>1, <2>4, <2>5, <2>6 DEF TypeInv
<1> QED
  BY <1>1, <1>2, <1>3, <1>4, <1>5, NextSteps

(* What the model starts from: every processed document has its own chunks *)
Started(past, ids, first) ==
    /\ past \in [Docs -> Histories] /\ first \in Models /\ Cut(ids, past)
    /\ chunks = ids
    /\ vectors \subseteq {v \in OfDocs(Docs) \X Models : v[2] = first}
    /\ \A d \in Docs : past[d] = "indexed" => \A c \in ids[d] : <<c, first>> \in vectors
    /\ row = [x \in Rows |-> IF x = Project THEN Uploaded ELSE Past(past[x], first)]

LEMMA Starts0 ==
    ASSUME Init
    PROVE  \E past, ids, first : Started(past, ids, first)
<1> DEFINE first == CHOOSE m \in Models : TRUE
           ids(past) == CHOOSE f \in [Docs -> SUBSET Chunks] : Cut(f, past)
           done(past, d) == IF past[d] = "interrupted"
                            THEN {c \in ids(past)[d] : c = CHOOSE e \in ids(past)[d] : TRUE}
                            ELSE ids(past)[d]
<1>1. PICK past \in [Docs -> Histories] :
            /\ Cut(ids(past), past) /\ chunks = ids(past)
            /\ vectors = UNION {done(past, d) \X {first} : d \in Docs}
            /\ row = [x \in Rows |-> IF x = Project THEN Uploaded ELSE Past(past[x], first)]
  BY DEF Init
<1>2. first \in Models
  BY DocumentsAssumption
<1> HIDE DEF first
<1>3. \A d \in Docs : done(past, d) \subseteq chunks[d]
  BY <1>1
<1>4. \A d \in Docs : past[d] = "indexed" => done(past, d) = chunks[d]
  BY <1>1
<1> HIDE DEF done, ids
<1>5. vectors \subseteq {v \in OfDocs(Docs) \X Models : v[2] = first}
  BY <1>1, <1>2, <1>3 DEF OfDocs
<1>6. \A d \in Docs : past[d] = "indexed" => \A c \in ids(past)[d] : <<c, first>> \in vectors
  BY <1>1, <1>4
<1> QED
  BY <1>1, <1>2, <1>5, <1>6 DEF Started

LEMMA InitType ==
    ASSUME Init
    PROVE  TypeInv
<1>1. PICK past, ids, first : Started(past, ids, first)
  BY Starts0
<1>2. \A x \in Rows : x \notin Docs <=> x = Project
  BY DocumentsAssumption DEF Rows
<1>3. Uploaded \in RowType /\ Uploaded.task = None
  BY DEF Uploaded, FreshRow, RowType, DocumentStatus, EmbeddingStatus
<1>4. \A d \in Docs : IF past[d] = "unborn" THEN Past(past[d], first) = Unborn
                      ELSE Past(past[d], first) \in RowType /\ Past(past[d], first).task = None
  BY <1>1 DEF Started, Histories, Past, FreshRow, RowType, DocumentStatus, EmbeddingStatus
<1>5. /\ \A x \in Rows : x = Project => row[x] = Uploaded
      /\ \A d \in Docs : row[d] = Past(past[d], first)
      /\ row = [x \in Rows |-> row[x]]
  BY <1>1, <1>2 DEF Started, Rows
<1>6. \A x \in Rows : row[x] = Unborn \/ (row[x] \in RowType /\ row[x].task = None)
  BY <1>2, <1>3, <1>4, <1>5
<1>7. row \in RowsType
  BY <1>5, <1>6 DEF RowsType
<1>8. \A x \in Rows : Exists(x) => Named(row[x].task, x)
  BY <1>6, IdsNamed DEF Exists
<1>9. \A d \in Docs : ~Exists(d) => past[d] = "unborn"
  BY <1>4, <1>5, RowIsNot DEF Exists
<1>10. \A d \in Docs : IsFiniteSet(chunks[d]) /\ chunks[d] \subseteq Chunks
  BY <1>1, DocumentsAssumption, FS_Subset DEF Started, Cut
<1>11. \A d \in Docs : ~Exists(d) => chunks[d] = {}
  BY <1>1, <1>9, <1>10, FS_EmptySet DEF Started, Cut
<1>12. /\ chunks \in [Docs -> SUBSET Chunks] /\ vectors \subseteq OfDocs(Docs) \X Models
       /\ \A d, e \in Docs : d # e => chunks[d] \cap chunks[e] = {}
       /\ \A d \in Docs : Cardinality(chunks[d]) \in {0, ChunkCount}
  BY <1>1 DEF Started, Cut
<1>13. DataOK
  BY <1>7, <1>8, <1>11, <1>12 DEF DataOK
<1>14. BrokerOK
  BY DEF Init, BrokerOK, MessageOK
<1>15. RequestsOK
  BY IdleRecords DEF Init, RequestsOK
<1>16. RunnersOK
  BY IdleRecords DEF Init, RunnersOK
<1>17. CountsOK
  BY DocumentsAssumption DEF Init, CountsOK
<1> QED
  BY <1>13, <1>14, <1>15, <1>16, <1>17 DEF TypeInv

(* Rows, chunks, vectors, messages, requests and runners are what the code  *)
(* reads them as, and a stored vector belongs to a chunk of one document.   *)
THEOREM DocumentTypes == Spec => []TypeOK
<1>1. Spec => []TypeInv
  BY InitType, NextType, PTL DEF Spec
<1> QED
  BY <1>1, TypeInvTypeOK, PTL

(* Whatever deliveries, retries and redeliveries of process() run on a      *)
(* document, whose QUEUED test takes no lock, its chunks come from one of   *)
(* them: start_processing's UPDATE holds the row until the commit, and the  *)
(* chunks it deletes are still the document's when it commits.              *)
THEOREM ChunksOfOneProcessing == Spec => []OneGeneration
<1>1. Spec => []TypeInv
  BY InitType, NextType, PTL DEF Spec
<1>2. TypeInv => OneGeneration
  BY DEF TypeInv, DataOK, OneGeneration
<1> QED
  BY <1>1, <1>2, PTL

-----------------------------------------------------------------------------
(* A QUEUED row has somebody who will end that *)

Waits(x, k) == x \notin lost /\ Exists(x) /\ StatusOf(row[x], k) = "queued"

LEMMA QueueKept ==
    ASSUME \A x \in Rows : \A k \in Kinds(x) : Waits(x, k)' => SafelyQueued(x, k)'
    PROVE  QueueInv'
BY DEF QueueInv, Waits, StatusOf

LEMMA QueueSafe ==
    ASSUME QueueInv, NEW x \in Rows, NEW k \in Kinds(x), Waits(x, k)
    PROVE  SafelyQueued(x, k)
BY DEF QueueInv, Waits

(* By a request, a message or a runner *)
LEMMA SafeByRequest ==
    ASSUME NEW x, NEW k, NEW h \in Handlers, WillAct(request'[h], x, k)
    PROVE  SafelyQueued(x, k)'
BY DEF SafelyQueued, WillAct, Cancels, StatusOf, JobOf, TaskOf

LEMMA SafeByMessage ==
    ASSUME NEW x, NEW k, NEW t \in queued', kind'[t] = k, target'[t] = x, ~Doomed(t, x, k)'
    PROVE  SafelyQueued(x, k)'
BY DEF SafelyQueued

LEMMA SafeByRunner ==
    ASSUME NEW x, NEW k, NEW w \in Runners, WillEnd(runner'[w], x, k),
           NEW t, runner'[w].task = t, w \in Workers => ~Doomed(t, x, k)'
    PROVE  SafelyQueued(x, k)'
BY DEF SafelyQueued, WillEnd, StatusOf

LEMMA SafeCases ==
    ASSUME NEW x, NEW k, SafelyQueued(x, k)
    PROVE  \/ \E h \in Handlers : WillAct(request[h], x, k)
           \/ \E t \in queued : kind[t] = k /\ target[t] = x /\ ~Doomed(t, x, k)
           \/ \E w \in Runners : WillEnd(runner[w], x, k) /\ (w \in Workers => ~Doomed(runner[w].task, x, k))
BY DEF SafelyQueued

(* Who cancels a message is a request that read CANCELLED already *)
LEMMA DoomedStays ==
    ASSUME NEW x, NEW k, request' = request
    PROVE  \A t : Doomed(t, x, k)' => Doomed(t, x, k)
BY DEF Doomed, At, Row, Seen, StatusOf

LEMMA DoomedBy ==
    ASSUME TypeInv, NEW x, NEW k, NEW h \in Handlers, NEW r \in RequestType,
           request' = [request EXCEPT ![h] = r],
           r.pc = "revoke" /\ r.row = x => StatusOf(r.seen, k) # "cancelled"
    PROVE  \A t : Doomed(t, x, k)' => Doomed(t, x, k)
<1>1. ASSUME NEW t, NEW g \in Handlers,
             /\ request'[g].pc = "revoke" /\ request'[g].row = x /\ request'[g].seen.task = t
             /\ request'[g].op = "cancel" \/ k # "process"
             /\ StatusOf(request'[g].seen, k) = "cancelled"
      PROVE  Doomed(t, x, k)
  <2>1. request'[g] = IF g = h THEN r ELSE request[g]
    BY DEF TypeInv, RequestsOK
  <2>2. g # h
    BY <1>1, <2>1
  <2> QED
    BY <1>1, <2>1, <2>2 DEF Doomed, At, Row, Seen
<1> QED
  BY <1>1 DEF Doomed, At, Row, Seen, StatusOf

(* Only request h moves *)
LEMMA RequestQueue ==
    ASSUME TypeInv, NEW x \in Rows, NEW k \in Kinds(x), SafelyQueued(x, k),
           NEW h \in Handlers, NEW r \in RequestType, request' = [request EXCEPT ![h] = r],
           UNCHANGED <<kind, target, queued, runner>>,
           WillAct(request[h], x, k) => WillAct(r, x, k),
           r.pc = "revoke" /\ r.row = x => StatusOf(r.seen, k) # "cancelled"
    PROVE  SafelyQueued(x, k)'
<1>1. \A t : Doomed(t, x, k)' => Doomed(t, x, k)
  BY DoomedBy
<1>2. ASSUME NEW g \in Handlers, WillAct(request[g], x, k)
      PROVE  SafelyQueued(x, k)'
  <2>1. request'[g] = IF g = h THEN r ELSE request[g]
    BY DEF TypeInv, RequestsOK
  <2>2. WillAct(request'[g], x, k)
    BY <1>2, <2>1
  <2> QED
    BY <2>2, SafeByRequest
<1>3. ASSUME NEW t \in queued, kind[t] = k, target[t] = x, ~Doomed(t, x, k)
      PROVE  SafelyQueued(x, k)'
  <2>1. t \in queued' /\ kind'[t] = k /\ target'[t] = x /\ ~Doomed(t, x, k)'
    BY <1>1, <1>3
  <2> QED
    BY <2>1, SafeByMessage
<1>4. ASSUME NEW w \in Runners, WillEnd(runner[w], x, k), w \in Workers => ~Doomed(runner[w].task, x, k)
      PROVE  SafelyQueued(x, k)'
  <2>1. PICK t : t = runner[w].task
    OBVIOUS
  <2>2. WillEnd(runner'[w], x, k) /\ runner'[w].task = t /\ (w \in Workers => ~Doomed(t, x, k)')
    BY <1>1, <1>4, <2>1
  <2> QED
    BY <2>2, SafeByRunner
<1> QED
  BY <1>2, <1>3, <1>4, SafeCases

(* Only runner w moves *)
LEMMA RunnerQueue ==
    ASSUME TypeInv, NEW x \in Rows, NEW k \in Kinds(x), SafelyQueued(x, k),
           NEW w \in Runners, NEW r \in RunnerType, runner' = [runner EXCEPT ![w] = r],
           UNCHANGED <<kind, target, queued, request>>,
           WillEnd(runner[w], x, k) => WillEnd(r, x, k) /\ r.task = runner[w].task
    PROVE  SafelyQueued(x, k)'
<1>1. \A t : Doomed(t, x, k)' => Doomed(t, x, k)
  BY DoomedStays
<1>2. ASSUME NEW g \in Handlers, WillAct(request[g], x, k)
      PROVE  SafelyQueued(x, k)'
  BY <1>2, SafeByRequest
<1>3. ASSUME NEW t \in queued, kind[t] = k, target[t] = x, ~Doomed(t, x, k)
      PROVE  SafelyQueued(x, k)'
  <2>1. t \in queued' /\ kind'[t] = k /\ target'[t] = x /\ ~Doomed(t, x, k)'
    BY <1>1, <1>3
  <2> QED
    BY <2>1, SafeByMessage
<1>4. ASSUME NEW v \in Runners, WillEnd(runner[v], x, k), v \in Workers => ~Doomed(runner[v].task, x, k)
      PROVE  SafelyQueued(x, k)'
  <2>1. PICK t : t = runner[v].task
    OBVIOUS
  <2>2. runner'[v] = IF v = w THEN r ELSE runner[v]
    BY DEF TypeInv, RunnersOK
  <2>3. WillEnd(runner'[v], x, k) /\ runner'[v].task = t /\ (v \in Workers => ~Doomed(t, x, k)')
    BY <1>1, <1>4, <2>1, <2>2
  <2> QED
    BY <2>3, SafeByRunner
<1> QED
  BY <1>2, <1>3, <1>4, SafeCases

LEMMA RequestTyped ==
    ASSUME TypeInv, NEW h \in Handlers
    PROVE  /\ IdleRequest \in RequestType /\ IdleRequest.pc = "idle"
           /\ \A x, k : ~WillAct(IdleRequest, x, k)
           /\ At(h, "idle") \/ At(h, "load") => \A x, k : ~WillAct(request[h], x, k)
           /\ \A x, k : WillAct(request[h], x, k) => Row(h) = x
BY IdleRecords DEF WillAct, IdleRequest, At, Row

(* A request that loads a row acts on nothing yet *)
LEMMA LoadQueue ==
    ASSUME TypeInv, QueueInv, NEW h \in Handlers, Asking(h)
    PROVE  QueueInv'
<1>1. PICK r \in RequestType : LoadOf(h, r)
  BY Loads
<1>2. /\ request' = [request EXCEPT ![h] = r] /\ r.pc = "load" /\ At(h, "idle")
      /\ UNCHANGED <<row, kind, target, queued, runner, lost>>
  BY <1>1 DEF LoadOf, data, broker, ghosts
<1>3. ASSUME NEW x \in Rows, NEW k \in Kinds(x), Waits(x, k)'
      PROVE  SafelyQueued(x, k)'
  <2>1. Waits(x, k)
    BY <1>2, <1>3 DEF Waits, Exists, StatusOf
  <2>2. SafelyQueued(x, k)
    BY <2>1, QueueSafe
  <2>3. ~WillAct(request[h], x, k)
    BY <1>2, RequestTyped
  <2> QED
    BY <1>2, <2>2, <2>3, RequestQueue
<1> QED
  BY <1>3, QueueKept

(* A request that writes the row: it acts on what it leaves QUEUED *)
LEMMA WriteQueue ==
    ASSUME TypeInv, QueueInv, NEW h \in Handlers, Writing(h)
    PROVE  QueueInv'
<1>1. PICK q \in RowType, r \in RequestType : WriteOf(h, q, r)
  BY RequestWrites
<1>2. UNCHANGED <<kind, target, queued, runner, lost>>
  BY RequestWrites DEF broker, ghosts
<1>3. /\ Row(h) \in Rows /\ Exists(Row(h))
      /\ row' = [row EXCEPT ![Row(h)] = q] /\ request' = [request EXCEPT ![h] = r]
      /\ r.pc = "revoke" => r.row = Row(h) /\ r.seen = q
      /\ \A k \in Kinds(Row(h)) : StatusOf(q, k) = "queued" => WritesQueued(h, q, r, k)
  BY <1>1 DEF WriteOf
<1>4. row'[Row(h)] = q /\ \A x \in Rows : x # Row(h) => row'[x] = row[x]
  BY <1>3 DEF TypeInv, DataOK, RowsType
<1>5. request'[h] = r
  BY <1>3 DEF TypeInv, RequestsOK
<1>6. ASSUME NEW x \in Rows, NEW k \in Kinds(x), Waits(x, k)'
      PROVE  SafelyQueued(x, k)'
  <2>1. x \notin lost /\ Exists(x)' /\ StatusOf(row'[x], k) = "queued"
    BY <1>2, <1>6 DEF Waits, StatusOf
  <2>2. CASE x # Row(h)
    <3>1. Waits(x, k)
      BY <1>4, <2>1, <2>2 DEF Waits, Exists
    <3>2. SafelyQueued(x, k)
      BY <3>1, QueueSafe
    <3>3. ~WillAct(request[h], x, k)
      BY <2>2, RequestTyped
    <3> QED
      BY <1>2, <1>3, <2>2, <3>2, <3>3, RequestQueue
  <2>3. CASE x = Row(h)
    <3>1. StatusOf(q, k) = "queued" /\ k \in Kinds(Row(h))
      BY <1>4, <2>1, <2>3
    <3>2. WritesQueued(h, q, r, k)
      BY <1>3, <3>1
    <3>3. CASE WillAct(r, x, k)
      BY <1>5, <3>3, SafeByRequest
    <3>4. CASE ~WillAct(r, x, k)
      <4>1. StatusOf(row[x], k) = "queued" /\ ~WillAct(request[h], x, k)
        BY <2>3, <3>2, <3>4 DEF WritesQueued
      <4>2. Waits(x, k)
        BY <1>3, <2>1, <2>3, <4>1 DEF Waits
      <4>3. SafelyQueued(x, k)
        BY <4>2, QueueSafe
      <4>4. r.pc = "revoke" /\ r.row = x => StatusOf(r.seen, k) # "cancelled"
        BY <1>3, <3>1
      <4> QED
        BY <1>2, <1>3, <4>1, <4>3, <4>4, RequestQueue
    <3> QED
      BY <3>3, <3>4
  <2> QED
    BY <2>2, <2>3
<1> QED
  BY <1>6, QueueKept

(* A request that ends, its row lost or gone *)
LEMMA LeavesQueue ==
    ASSUME TypeInv, QueueInv, NEW h \in Handlers,
           request' = [request EXCEPT ![h] = IdleRequest],
           UNCHANGED <<kind, target, queued, runner>>, lost \subseteq lost',
           \A x \in Rows : row'[x] = row[x] \/ ~Exists(x)',
           ~At(h, "load") => Row(h) \in lost' \/ ~Exists(Row(h))
    PROVE  QueueInv'
<1>1. ASSUME NEW x \in Rows, NEW k \in Kinds(x), Waits(x, k)'
      PROVE  SafelyQueued(x, k)'
  <2>1. x \notin lost' /\ x \notin lost /\ Exists(x)' /\ StatusOf(row'[x], k) = "queued"
    BY <1>1 DEF Waits, StatusOf
  <2>2. row'[x] = row[x]
    BY <2>1
  <2>3. Waits(x, k)
    BY <2>1, <2>2 DEF Waits, Exists
  <2>4. SafelyQueued(x, k)
    BY <2>3, QueueSafe
  <2>5. ~WillAct(request[h], x, k)
    <3>1. CASE At(h, "load")
      BY <3>1, RequestTyped
    <3>2. CASE Row(h) # x
      BY <3>2, RequestTyped
    <3>3. Exists(x)
      BY <2>3 DEF Waits
    <3> QED
      BY <2>1, <3>1, <3>2, <3>3
  <2>6. IdleRequest \in RequestType /\ IdleRequest.pc = "idle"
    BY RequestTyped
  <2> QED
    BY <2>4, <2>5, <2>6, RequestQueue
<1> QED
  BY <1>1, QueueKept

LEMMA EndQueue ==
    ASSUME TypeInv, QueueInv, NEW h \in Handlers, Ending(h)
    PROVE  QueueInv'
<1>1. /\ request' = [request EXCEPT ![h] = IdleRequest]
      /\ UNCHANGED <<row, kind, target, queued, runner>>
      /\ lost \subseteq lost' /\ (Row(h) \in lost' \/ ~Exists(Row(h)))
  BY DEF Ending, data, broker
<1> QED
  BY <1>1, LeavesQueue

LEMMA DeleteQueue ==
    ASSUME TypeInv, QueueInv, NEW h \in Handlers, DeleteCommit(h) \/ DeleteProject(h)
    PROVE  QueueInv'
<1>1. PICK ds \in SUBSET Rows :
            /\ request[h].pc = "load" /\ request' = [request EXCEPT ![h] = IdleRequest]
            /\ row' = [x \in Rows |-> IF x \in ds THEN None ELSE row[x]]
            /\ UNCHANGED <<locked, broker, runner, asked, ghosts>>
  BY Deletes
<1>2. \A x \in Rows : row'[x] = row[x] \/ ~Exists(x)'
  BY <1>1 DEF Exists
<1>3. UNCHANGED <<kind, target, queued, runner, lost>> /\ At(h, "load")
  BY <1>1 DEF broker, ghosts, At
<1> QED
  BY <1>1, <1>2, <1>3, LeavesQueue

(* The request that was to publish has published *)
LEMMA EnqueueQueue ==
    ASSUME TypeInv, QueueInv, NEW h \in Handlers, Enqueue(h)
    PROVE  QueueInv'
<1>1. PICK t \in Tasks, r \in RequestType :
            /\ At(h, "enqueue") /\ Exists(Row(h)) /\ Row(h) \in Rows
            /\ kind[t] = "none" /\ TaskOf(request[h].op) \in {"process", "rebuild", "sync"}
            /\ kind' = [kind EXCEPT ![t] = TaskOf(request[h].op)]
            /\ target' = [target EXCEPT ![t] = Row(h)] /\ queued' = queued \cup {t}
            /\ request' = [request EXCEPT ![h] = r]
            /\ r.pc = "record"
            /\ UNCHANGED <<data, runner, asked, ghosts>>
  BY Enqueues
<1>2. UNCHANGED <<row, runner, lost>> /\ t \in queued'
  BY <1>1 DEF data, ghosts
<1>3. kind'[t] = TaskOf(request[h].op) /\ target'[t] = Row(h)
  BY <1>1 DEF TypeInv, BrokerOK
<1>4. \A u \in queued : u # t /\ kind'[u] = kind[u] /\ target'[u] = target[u] /\ u \in queued'
  BY <1>1 DEF TypeInv, BrokerOK, MessageOK
<1>5. \A x, k : ~Doomed(t, x, k)
  <2> SUFFICES ASSUME NEW x, NEW k, Doomed(t, x, k)
               PROVE  FALSE
    OBVIOUS
  <2>1. PICK g \in Handlers : At(g, "revoke") /\ Seen(g).task = t
    BY DEF Doomed
  <2>2. Named(Seen(g).task, Row(g))
    BY <2>1, RequestAt DEF At
  <2> QED
    BY <1>1, <2>1, <2>2 DEF Named
<1>6. ASSUME NEW x \in Rows, NEW k \in Kinds(x), Waits(x, k)'
      PROVE  SafelyQueued(x, k)'
  <2>1. Waits(x, k)
    BY <1>2, <1>6 DEF Waits, Exists, StatusOf
  <2>2. SafelyQueued(x, k)
    BY <2>1, QueueSafe
  <2>3. \A u : Doomed(u, x, k)' => Doomed(u, x, k)
    BY <1>1, DoomedBy
  <2>4. ASSUME NEW g \in Handlers, WillAct(request[g], x, k)
        PROVE  SafelyQueued(x, k)'
    <3>1. CASE g = h
      <4>1. Row(h) = x /\ TaskOf(request[h].op) = k
        BY <1>1, <2>4, <3>1 DEF WillAct, At, Row
      <4>2. ~Doomed(t, x, k)'
        BY <1>5, <2>3
      <4> QED
        BY <1>2, <1>3, <4>1, <4>2, SafeByMessage
    <3>2. CASE g # h
      <4>1. request'[g] = request[g]
        BY <1>1, <3>2 DEF TypeInv, RequestsOK
      <4>2. WillAct(request'[g], x, k)
        BY <2>4, <4>1
      <4> QED
        BY <4>2, SafeByRequest
    <3> QED
      BY <3>1, <3>2
  <2>5. ASSUME NEW u \in queued, kind[u] = k, target[u] = x, ~Doomed(u, x, k)
        PROVE  SafelyQueued(x, k)'
    <3>1. u \in queued' /\ kind'[u] = k /\ target'[u] = x /\ ~Doomed(u, x, k)'
      BY <1>4, <2>3, <2>5
    <3> QED
      BY <3>1, SafeByMessage
  <2>6. ASSUME NEW v \in Runners, WillEnd(runner[v], x, k), v \in Workers => ~Doomed(runner[v].task, x, k)
        PROVE  SafelyQueued(x, k)'
    <3>1. PICK u : u = runner[v].task
      OBVIOUS
    <3>2. WillEnd(runner'[v], x, k) /\ runner'[v].task = u /\ (v \in Workers => ~Doomed(u, x, k)')
      BY <1>2, <2>3, <2>6, <3>1
    <3> QED
      BY <3>2, SafeByRunner
  <2> QED
    BY <2>2, <2>4, <2>5, <2>6, SafeCases
<1> QED
  BY <1>6, QueueKept

(* A revoke drops what somebody else was to do only when the request itself  *)
(* writes CANCELLED, or when the message was of a task that it did not mean *)
LEMMA RevokeQueue ==
    ASSUME TypeInv, QueueInv, NEW h \in Handlers, Revoking(h)
    PROVE  QueueInv'
<1> DEFINE t == Seen(h).task
           jobs == IF request[h].op = "cancel" THEN {"process", "rebuild"} ELSE {"rebuild", "sync"}
<1>1. /\ At(h, "revoke") /\ Exists(Row(h)) /\ Row(h) \in Rows /\ Seen(h) \in RowType
      /\ Named(t, Row(h)) /\ UNCHANGED <<row, kind, target>>
  BY Revokes
<1>2. request[h].op \in {"cancel", "cancel_job"}
  BY <1>1, RequestAt DEF At, RequestOK
<1>3. CASE /\ Revoke(t, jobs)
           /\ \E r \in RequestType :
                /\ request' = [request EXCEPT ![h] = r]
                /\ r.pc = "cancelled" /\ r.seen = Seen(h) /\ r.op = request[h].op /\ r.row = Row(h)
  <2>1. PICK r \in RequestType :
                /\ request' = [request EXCEPT ![h] = r]
                /\ r.pc = "cancelled" /\ r.seen = Seen(h) /\ r.op = request[h].op /\ r.row = Row(h)
    BY <1>3
  <2>2. /\ queued' = queued \ {t}
        /\ \A w \in Runners : runner'[w] = IF w \in Revoked(t) THEN IdleRunner ELSE runner[w]
        /\ t \in Tasks /\ kind[t] \notin jobs /\ (t \in queued \/ Revoked(t) # {}) => target[t] \in lost'
        /\ lost \subseteq lost'
    BY <1>3 DEF Revoke
  <2> HIDE DEF t, jobs
  <2>3. request'[h] = r /\ \A g \in Handlers : g # h => request'[g] = request[g]
    BY <2>1 DEF TypeInv, RequestsOK
  <2>4. ASSUME NEW x \in Rows, NEW k \in Kinds(x), Waits(x, k)'
        PROVE  SafelyQueued(x, k)'
    <3>1. x \notin lost' /\ Waits(x, k)
      BY <1>1, <2>2, <2>4 DEF Waits, Exists, StatusOf
    <3>2. SafelyQueued(x, k)
      BY <3>1, QueueSafe
    <3>3. \A u : Doomed(u, x, k)' => Doomed(u, x, k)
      BY <2>1, DoomedBy
    <3>4. ASSUME NEW g \in Handlers, WillAct(request[g], x, k)
          PROVE  SafelyQueued(x, k)'
      <4>1. g # h
        BY <1>1, <3>4 DEF WillAct, At
      <4>2. WillAct(request'[g], x, k)
        BY <2>3, <3>4, <4>1
      <4> QED
        BY <4>2, SafeByRequest
    (* the message was t *)
    <3>5. ASSUME t \in Tasks, kind[t] = k, target[t] = x, ~Doomed(t, x, k),
                 t \in queued \/ Revoked(t) # {}
          PROVE  SafelyQueued(x, k)'
      <4>1. k \in jobs
        BY <2>2, <3>1, <3>5
      <4>2. kind[t] # "none" => Row(h) = x
        BY <1>1, <3>5 DEF Named
      <4>3. k # "none"
        BY <4>1 DEF jobs
      <4>4. Row(h) = x /\ (request[h].op = "cancel" \/ k # "process")
        BY <1>2, <3>5, <4>1, <4>2, <4>3 DEF jobs
      <4>5. StatusOf(Seen(h), k) # "cancelled"
        BY <1>1, <3>5, <4>4 DEF Doomed, t
      <4>6. WillAct(r, x, k)
        BY <1>2, <2>1, <4>4, <4>5 DEF WillAct, Cancels
      <4> QED
        BY <2>3, <4>6, SafeByRequest
    <3>6. ASSUME NEW u \in queued, kind[u] = k, target[u] = x, ~Doomed(u, x, k)
          PROVE  SafelyQueued(x, k)'
      <4>1. CASE u = t
        BY <3>5, <3>6, <4>1 DEF TypeInv, BrokerOK
      <4>2. CASE u # t
        <5>1. u \in queued' /\ kind'[u] = k /\ target'[u] = x /\ ~Doomed(u, x, k)'
          BY <1>1, <2>2, <3>3, <3>6, <4>2
        <5> QED
          BY <5>1, SafeByMessage
      <4> QED
        BY <4>1, <4>2
    <3>7. ASSUME NEW w \in Runners, WillEnd(runner[w], x, k), w \in Workers => ~Doomed(runner[w].task, x, k)
          PROVE  SafelyQueued(x, k)'
      <4>1. CASE w \in Revoked(t)
        <5>1. w \in Workers /\ runner[w].task = t
          BY <4>1 DEF Revoked
        <5>2. runner[w].pc # "idle" /\ runner[w].row = x /\ runner[w].job = k
          BY <3>7 DEF WillEnd
        <5>3. t \in Tasks /\ kind[t] = k /\ target[t] = x
          BY <5>1, <5>2, RunnerAt DEF RunnerOK
        <5> QED
          BY <3>5, <3>7, <4>1, <5>1, <5>3
      <4>2. CASE w \notin Revoked(t)
        <5>1. PICK u : u = runner[w].task
          OBVIOUS
        <5>2. WillEnd(runner'[w], x, k) /\ runner'[w].task = u /\ (w \in Workers => ~Doomed(u, x, k)')
          BY <2>2, <3>3, <3>7, <4>2, <5>1
        <5> QED
          BY <5>2, SafeByRunner
      <4> QED
        BY <4>1, <4>2
    <3> QED
      BY <3>2, <3>4, <3>6, <3>7, SafeCases
  <2> QED
    BY <2>4, QueueKept
<1>4. CASE /\ lost' = lost \cup {Row(h)} /\ request' = [request EXCEPT ![h] = IdleRequest]
           /\ UNCHANGED <<queued, runner, locked>>
  <2>1. UNCHANGED <<row, kind, target, queued, runner>> /\ lost \subseteq lost' /\ Row(h) \in lost'
    BY <1>1, <1>4
  <2> QED
    BY <1>4, <2>1, LeavesQueue
<1> QED
  BY <1>3, <1>4, Revokes

(* A job that starts has loaded QUEUED *)
LEMMA SpawnQueue ==
    ASSUME TypeInv, QueueInv, NEW h \in Handlers, NEW s \in Slots, Spawn(h, s)
    PROVE  QueueInv'
<1>1. /\ At(h, "spawn") /\ Is(s, "idle") /\ Row(h) \in Rows
      /\ request' = [request EXCEPT ![h] = IdleRequest]
      /\ UNCHANGED <<data, broker, asked, lost>>
  BY Spawns
<1>2. /\ UNCHANGED <<row, kind, target, queued, lost>> /\ s \in Runners /\ s \notin Workers
  BY <1>1, DocumentsAssumption DEF data, broker, Runners
<1>3. PICK r \in RunnerType :
        /\ runner' = [runner EXCEPT ![s] = r]
        /\ Runnable(Row(h)) => r.pc = "loaded" /\ r.job = JobOf(Row(h)) /\ r.row = Row(h)
                               /\ r.seen = row[Row(h)]
  <2>1. CASE Runnable(Row(h))
    BY <2>1, Spawns
  <2>2. CASE ~Runnable(Row(h))
    <3>1. runner' = runner
      BY <2>2, Spawns
    <3>2. runner' = [runner EXCEPT ![s] = runner[s]] /\ runner[s] \in RunnerType
      BY <1>2, <3>1 DEF TypeInv, RunnersOK
    <3> QED
      BY <2>2, <3>2
  <2> QED
    BY <2>1, <2>2
<1>4. ASSUME NEW x \in Rows, NEW k \in Kinds(x), Waits(x, k)'
      PROVE  SafelyQueued(x, k)'
  <2>1. Waits(x, k)
    BY <1>2, <1>4 DEF Waits, Exists, StatusOf
  <2>2. SafelyQueued(x, k)
    BY <2>1, QueueSafe
  <2>3. \A u : Doomed(u, x, k)' => Doomed(u, x, k)
    BY <1>1, DoomedBy, RequestTyped
  <2>4. ASSUME NEW g \in Handlers, WillAct(request[g], x, k)
        PROVE  SafelyQueued(x, k)'
    <3>1. CASE g = h
      <4>1. Row(h) = x /\ JobOf(x) = k /\ k # "process"
        BY <1>1, <2>4, <3>1 DEF WillAct, At, Row, JobOf
      <4>2. Runnable(Row(h))
        BY <2>1, <4>1 DEF Waits, Runnable, StatusOf
      <4>3. WillEnd(r, x, k)
        BY <1>3, <2>1, <4>1, <4>2 DEF WillEnd, Waits
      <4>4. runner'[s] = r
        BY <1>2, <1>3 DEF TypeInv, RunnersOK
      <4> QED
        BY <1>2, <4>3, <4>4, SafeByRunner
    <3>2. CASE g # h
      <4>1. request'[g] = request[g]
        BY <1>1, <3>2 DEF TypeInv, RequestsOK
      <4>2. WillAct(request'[g], x, k)
        BY <2>4, <4>1
      <4> QED
        BY <4>2, SafeByRequest
    <3> QED
      BY <3>1, <3>2
  <2>5. ASSUME NEW u \in queued, kind[u] = k, target[u] = x, ~Doomed(u, x, k)
        PROVE  SafelyQueued(x, k)'
    <3>1. u \in queued' /\ kind'[u] = k /\ target'[u] = x /\ ~Doomed(u, x, k)'
      BY <1>2, <2>3, <2>5
    <3> QED
      BY <3>1, SafeByMessage
  <2>6. ASSUME NEW v \in Runners, WillEnd(runner[v], x, k), v \in Workers => ~Doomed(runner[v].task, x, k)
        PROVE  SafelyQueued(x, k)'
    <3>1. PICK u : u = runner[v].task
      OBVIOUS
    <3>2. v # s
      BY <1>1, <2>6 DEF WillEnd, Is
    <3>3. runner'[v] = runner[v]
      BY <1>2, <1>3, <3>2 DEF TypeInv, RunnersOK
    <3>4. WillEnd(runner'[v], x, k) /\ runner'[v].task = u /\ (v \in Workers => ~Doomed(u, x, k)')
      BY <2>3, <2>6, <3>1, <3>3
    <3> QED
      BY <3>4, SafeByRunner
  <2> QED
    BY <2>2, <2>4, <2>5, <2>6, SafeCases
<1> QED
  BY <1>4, QueueKept

(* ... and so has a task; a message is dropped for a row that is not QUEUED *)
LEMMA TakeQueue ==
    ASSUME TypeInv, QueueInv, NEW w \in Runners, NEW t \in Tasks, Taking(w, t)
    PROVE  QueueInv'
<1>1. /\ Is(w, "idle") /\ t \in queued /\ queued' = queued \ {t}
      /\ UNCHANGED <<row, kind, target, request, lost>>
      /\ target[t] \in Rows
  BY Takes
<1>2. PICK r \in RunnerType :
        /\ runner' = [runner EXCEPT ![w] = r]
        /\ ReadyFor(target[t], kind[t]) =>
                r.pc = "loaded" /\ r.job = kind[t] /\ r.row = target[t] /\ r.task = t
                /\ r.seen = row[target[t]]
  <2>1. CASE ReadyFor(target[t], kind[t])
    BY <2>1, Takes
  <2>2. CASE ~ReadyFor(target[t], kind[t])
    <3>1. runner' = runner
      BY <2>2, Takes
    <3>2. runner' = [runner EXCEPT ![w] = runner[w]] /\ runner[w] \in RunnerType
      BY <3>1 DEF TypeInv, RunnersOK
    <3> QED
      BY <2>2, <3>2
  <2> QED
    BY <2>1, <2>2
<1>3. ASSUME NEW x \in Rows, NEW k \in Kinds(x), Waits(x, k)'
      PROVE  SafelyQueued(x, k)'
  <2>1. Waits(x, k)
    BY <1>1, <1>3 DEF Waits, Exists, StatusOf
  <2>2. SafelyQueued(x, k)
    BY <2>1, QueueSafe
  <2>3. \A u : Doomed(u, x, k)' => Doomed(u, x, k)
    BY <1>1, DoomedStays
  <2>4. ASSUME NEW g \in Handlers, WillAct(request[g], x, k)
        PROVE  SafelyQueued(x, k)'
    BY <1>1, <2>4, SafeByRequest
  <2>5. ASSUME NEW u \in queued, kind[u] = k, target[u] = x, ~Doomed(u, x, k)
        PROVE  SafelyQueued(x, k)'
    <3>1. CASE u = t
      <4>1. ReadyFor(target[t], kind[t])
        BY <2>1, <2>5, <3>1 DEF Waits, ReadyFor
      <4>2. WillEnd(r, x, k) /\ r.task = t /\ ~Doomed(t, x, k)'
        BY <1>2, <2>1, <2>3, <2>5, <3>1, <4>1 DEF WillEnd, Waits
      <4>3. runner'[w] = r
        BY <1>2 DEF TypeInv, RunnersOK
      <4> QED
        BY <4>2, <4>3, SafeByRunner
    <3>2. CASE u # t
      <4>1. u \in queued' /\ kind'[u] = k /\ target'[u] = x /\ ~Doomed(u, x, k)'
        BY <1>1, <2>3, <2>5, <3>2
      <4> QED
        BY <4>1, SafeByMessage
    <3> QED
      BY <3>1, <3>2
  <2>6. ASSUME NEW v \in Runners, WillEnd(runner[v], x, k), v \in Workers => ~Doomed(runner[v].task, x, k)
        PROVE  SafelyQueued(x, k)'
    <3>1. PICK u : u = runner[v].task
      OBVIOUS
    <3>2. v # w
      BY <1>1, <2>6 DEF WillEnd, Is
    <3>3. runner'[v] = runner[v]
      BY <1>2, <3>2 DEF TypeInv, RunnersOK
    <3>4. WillEnd(runner'[v], x, k) /\ runner'[v].task = u /\ (v \in Workers => ~Doomed(u, x, k)')
      BY <2>3, <2>6, <3>1, <3>3
    <3> QED
      BY <3>4, SafeByRunner
  <2> QED
    BY <2>2, <2>4, <2>5, <2>6, SafeCases
<1> QED
  BY <1>3, QueueKept

LEMMA RunnerKeepsQueue ==
    ASSUME TypeInv, QueueInv, NEW w \in Runners, NEW r \in RunnerType,
           runner' = [runner EXCEPT ![w] = r], UNCHANGED <<kind, target, queued, request, lost>>,
           \A x \in Rows : Exists(x)' => Exists(x),
           \A x \in Rows : \A k \in Kinds(x) : Exists(x)' /\ StatusOf(row'[x], k) = "queued" =>
                /\ StatusOf(row[x], k) = "queued"
                /\ WillEnd(runner[w], x, k) => WillEnd(r, x, k) /\ r.task = runner[w].task
    PROVE  QueueInv'
<1>1. ASSUME NEW x \in Rows, NEW k \in Kinds(x), Waits(x, k)'
      PROVE  SafelyQueued(x, k)'
  <2>1. x \notin lost /\ Exists(x)' /\ StatusOf(row'[x], k) = "queued"
    BY <1>1 DEF Waits, StatusOf
  <2>2. Waits(x, k)
    BY <2>1 DEF Waits
  <2>3. SafelyQueued(x, k)
    BY <2>2, QueueSafe
  <2>4. WillEnd(runner[w], x, k) => WillEnd(r, x, k) /\ r.task = runner[w].task
    BY <2>1
  <2> QED
    BY <2>3, <2>4, RunnerQueue
<1> QED
  BY <1>1, QueueKept

(* A job past its start ends no QUEUED of the row, and leaves none behind *)
LEMMA JobKeepsQueue ==
    ASSUME TypeInv, QueueInv, NEW w \in Runners, NEW r \in RunnerType, MoveOf(w, r),
           runner[w].pc \in JobPc,
           \A x \in Rows : Exists(x) => \/ row'[x] = row[x]
                                        \/ /\ row'[x].status = row[x].status
                                           /\ row'[x].embedding \in {"completed", "failed", "cancelled",
                                                                     row[x].embedding}
    PROVE  QueueInv'
<1>1. /\ runner' = [runner EXCEPT ![w] = r] /\ UNCHANGED <<kind, target, queued, request, lost>>
      /\ \A x \in Rows : Exists(x)' => Exists(x)
  BY DEF MoveOf, RowsKept, broker
<1>2. \A x, k : ~WillEnd(runner[w], x, k)
  BY DEF WillEnd, JobPc
<1>3. \A x \in Rows : \A k \in Kinds(x) : Exists(x)' /\ StatusOf(row'[x], k) = "queued" =>
                                            StatusOf(row[x], k) = "queued"
  BY <1>1 DEF StatusOf
<1> QED
  BY <1>1, <1>2, <1>3, RunnerKeepsQueue

LEMMA StartQueue ==
    ASSUME TypeInv, QueueInv, NEW w \in Runners, StartProcessing(w)
    PROVE  QueueInv'
<1>1. /\ runner[w].pc = "loaded" /\ runner[w].job = "process" /\ Target(w) = runner[w].row
      /\ UNCHANGED <<row, kind, target, queued, request, lost>>
  BY Starts, RunnerAt DEF broker, ghosts
<1>2. CASE Exists(Target(w))
  <2>1. PICK r \in RunnerType :
            /\ runner' = [runner EXCEPT ![w] = r]
            /\ r.pc = "processing" /\ r.row = Target(w) /\ r.job = "process" /\ r.task = runner[w].task
    BY <1>2, Starts
  <2>2. \A x, k : WillEnd(runner[w], x, k) => WillEnd(r, x, k) /\ r.task = runner[w].task
    BY <1>1, <2>1 DEF WillEnd
  <2> QED
    BY <1>1, <2>1, <2>2, RunnerKeepsQueue DEF Exists
<1>3. CASE ~Exists(Target(w))
  <2>1. runner' = [runner EXCEPT ![w] = IdleRunner] /\ IdleRunner \in RunnerType
    BY <1>3, Starts, IdleRecords
  <2>2. \A x, k : WillEnd(runner[w], x, k) => ~Exists(x)
    BY <1>1, <1>3 DEF WillEnd
  <2> QED
    BY <1>1, <2>1, <2>2, RunnerKeepsQueue DEF Exists
<1> QED
  BY <1>2, <1>3

LEMMA RaiseQueue ==
    ASSUME TypeInv, QueueInv, NEW w \in Runners, ProcessRaises(w)
    PROVE  QueueInv'
<1>1. GoTo(w, "failing") /\ runner[w].pc = "processing" /\ "failing" \in RunnerPc
      /\ UNCHANGED <<row, kind, target, queued, request, lost>>
  BY DEF ProcessRaises, Is, broker, ghosts, RunnerPc
<1>2. PICK r \in RunnerType :
            /\ runner' = [runner EXCEPT ![w] = r]
            /\ r.pc = "failing" /\ r.job = runner[w].job /\ r.row = Target(w) /\ r.task = runner[w].task
  BY <1>1, Goes
<1>3. \A x, k : WillEnd(runner[w], x, k) => WillEnd(r, x, k) /\ r.task = runner[w].task
  BY <1>1, <1>2, RunnerAt DEF WillEnd
<1> QED
  BY <1>1, <1>2, <1>3, RunnerKeepsQueue DEF Exists

LEMMA CompleteQueue ==
    ASSUME TypeInv, QueueInv, NEW w \in Runners, NEW m \in Models, CompleteProcessing(w, m)
    PROVE  QueueInv'
<1>1. PICK q \in RowType :
            /\ Target(w) \in Docs /\ Exists(Target(w))
            /\ row' = [row EXCEPT ![Target(w)] = q]
            /\ q.status = "indexed" /\ q.embedding = "completed"
            /\ runner' = [runner EXCEPT ![w] = IdleRunner]
            /\ UNCHANGED <<broker, request, asked, ghosts>>
  BY Completes
<1>2. UNCHANGED <<kind, target, queued, request, lost>> /\ IdleRunner \in RunnerType
  BY <1>1, IdleRecords DEF broker, ghosts
<1>3. \A x \in Rows : row'[x] = IF x = Target(w) THEN q ELSE row[x]
  BY <1>1 DEF TypeInv, DataOK, RowsType
<1>4. \A x \in Rows : Exists(x)' => Exists(x)
  BY <1>1, <1>3 DEF Exists
<1>5. \A x, k : WillEnd(runner[w], x, k) => x = Target(w)
  BY RunnerAt DEF WillEnd
<1>6. ASSUME NEW x \in Rows, NEW k \in Kinds(x), StatusOf(row'[x], k) = "queued"
      PROVE  StatusOf(row[x], k) = "queued" /\ ~WillEnd(runner[w], x, k)
  <2>1. StatusOf(q, k) # "queued"
    BY <1>1 DEF StatusOf
  <2>2. x # Target(w)
    BY <1>3, <1>6, <2>1
  <2> QED
    BY <1>3, <1>5, <1>6, <2>2
<1>7. runner' = [runner EXCEPT ![w] = IdleRunner]
  BY <1>1
<1> QED
  BY <1>2, <1>4, <1>6, <1>7, RunnerKeepsQueue

LEMMA FailReadQueue ==
    ASSUME TypeInv, QueueInv, NEW w \in Runners, FailRefresh(w)
    PROVE  QueueInv'
<1>1. PICK r \in RunnerType :
            /\ MoveOf(w, r) /\ UNCHANGED <<row, vectors, mixed>>
            /\ runner[w].pc = "failing" /\ runner[w].job = "process" /\ Target(w) \in Rows
            /\ \/ Exists(Target(w)) /\ r.pc = "fail" /\ r.job = "process" /\ r.seen = row[Target(w)]
               \/ (Exists(Target(w)) => row[Target(w)].status = "cancelled") /\ r.pc = "idle"
  BY FailReads
<1>2. /\ runner' = [runner EXCEPT ![w] = r] /\ UNCHANGED <<row, kind, target, queued, request, lost>>
      /\ r.pc # "idle" => r.row = Target(w) /\ r.task = runner[w].task
  BY <1>1 DEF MoveOf, broker
<1>3. ASSUME NEW x \in Rows, NEW k \in Kinds(x), Exists(x), StatusOf(row[x], k) = "queued",
             WillEnd(runner[w], x, k)
      PROVE  WillEnd(r, x, k) /\ r.task = runner[w].task
  <2>1. x = Target(w) /\ k = "process" /\ row[x].status = "queued"
    BY <1>1, <1>3, RunnerAt DEF WillEnd, StatusOf
  <2>2. r.pc = "fail" /\ r.job = "process" /\ r.seen.status = "queued"
    BY <1>1, <1>3, <2>1
  <2> QED
    BY <1>2, <2>1, <2>2 DEF WillEnd
<1> QED
  BY <1>2, <1>3, RunnerKeepsQueue DEF Exists

LEMMA FailWriteQueue ==
    ASSUME TypeInv, QueueInv, NEW w \in Runners, FailProcessing(w)
    PROVE  QueueInv'
<1>1. /\ MoveOf(w, IdleRunner)
      /\ runner[w].pc = "fail" /\ runner[w].job = "process" /\ Target(w) \in Rows
      /\ \/ \E q \in RowType :
                /\ row' = [row EXCEPT ![Target(w)] = q]
                /\ q.status = IF "failed" # Loaded(w).status THEN "failed" ELSE row[Target(w)].status
                /\ q.embedding \in {"failed", row[Target(w)].embedding}
         \/ ~Exists(Target(w)) /\ row' = row
  BY FailWrites
<1>2. /\ runner' = [runner EXCEPT ![w] = IdleRunner] /\ UNCHANGED <<kind, target, queued, request, lost>>
      /\ IdleRunner \in RunnerType /\ \A x \in Rows : Exists(x)' => Exists(x)
  BY <1>1, IdleRecords DEF MoveOf, broker, RowsKept
<1>3. \A x, k : WillEnd(runner[w], x, k) => x = Target(w) /\ k = "process" /\ Loaded(w).status # "failed"
  BY <1>1, RunnerAt DEF WillEnd
<1>4. CASE \E q \in RowType :
                /\ row' = [row EXCEPT ![Target(w)] = q]
                /\ q.status = IF "failed" # Loaded(w).status THEN "failed" ELSE row[Target(w)].status
                /\ q.embedding \in {"failed", row[Target(w)].embedding}
  <2>1. PICK q \in RowType :
                /\ row' = [row EXCEPT ![Target(w)] = q]
                /\ q.status = IF "failed" # Loaded(w).status THEN "failed" ELSE row[Target(w)].status
                /\ q.embedding \in {"failed", row[Target(w)].embedding}
    BY <1>4
  <2>2. \A x \in Rows : row'[x] = IF x = Target(w) THEN q ELSE row[x]
    BY <2>1 DEF TypeInv, DataOK, RowsType
  <2>3. ASSUME NEW x \in Rows, NEW k \in Kinds(x), StatusOf(row'[x], k) = "queued"
        PROVE  StatusOf(row[x], k) = "queued" /\ ~WillEnd(runner[w], x, k)
    <3>1. CASE x # Target(w)
      BY <1>3, <2>2, <2>3, <3>1
    <3>2. CASE x = Target(w)
      <4>1. StatusOf(q, k) = "queued"
        BY <2>2, <2>3, <3>2
      <4>2. CASE k = "process"
        <5>1. q.status = "queued"
          BY <4>1, <4>2 DEF StatusOf
        <5>2. Loaded(w).status = "failed" /\ row[x].status = "queued"
          BY <2>1, <3>2, <5>1
        <5> QED
          BY <1>3, <4>2, <5>2 DEF StatusOf
      <4>3. CASE k # "process"
        <5>1. q.embedding = "queued"
          BY <4>1, <4>3 DEF StatusOf
        <5> QED
          BY <1>3, <2>1, <3>2, <4>3, <5>1 DEF StatusOf
      <4> QED
        BY <4>2, <4>3
    <3> QED
      BY <3>1, <3>2
  <2> QED
    BY <1>2, <2>3, RunnerKeepsQueue
<1>5. CASE ~Exists(Target(w)) /\ row' = row
  <2>1. \A x \in Rows : \A k \in Kinds(x) : Exists(x)' /\ StatusOf(row'[x], k) = "queued" =>
            StatusOf(row[x], k) = "queued" /\ ~WillEnd(runner[w], x, k)
    BY <1>2, <1>3, <1>5
  <2> QED
    BY <1>2, <2>1, RunnerKeepsQueue
<1> QED
  BY <1>1, <1>4, <1>5

LEMMA StartJobQueue ==
    ASSUME TypeInv, QueueInv, NEW w \in Runners, NEW m \in Models, StartJob(w, m)
    PROVE  QueueInv'
<1>1. PICK r \in RunnerType :
            /\ MoveOf(w, r)
            /\ runner[w].pc = "loaded" /\ runner[w].job \in {"rebuild", "sync"} /\ Target(w) \in Rows
            /\ \/ \E q \in RowType :
                        /\ row' = [row EXCEPT ![Target(w)] = q]
                        /\ q.status = row[Target(w)].status
                        /\ q.embedding = IF "processing" # Loaded(w).embedding THEN "processing"
                                         ELSE row[Target(w)].embedding
               \/ ~Exists(Target(w)) /\ row' = row
  BY JobStarts
<1>2. /\ runner' = [runner EXCEPT ![w] = r] /\ UNCHANGED <<kind, target, queued, request, lost>>
      /\ \A x \in Rows : Exists(x)' => Exists(x)
  BY <1>1 DEF MoveOf, broker, RowsKept
<1>3. \A x, k : WillEnd(runner[w], x, k) =>
                    x = Target(w) /\ k # "process" /\ Loaded(w).embedding = "queued"
  BY <1>1, RunnerAt DEF WillEnd, StatusOf
<1>4. CASE \E q \in RowType :
                /\ row' = [row EXCEPT ![Target(w)] = q]
                /\ q.status = row[Target(w)].status
                /\ q.embedding = IF "processing" # Loaded(w).embedding THEN "processing"
                                 ELSE row[Target(w)].embedding
  <2>1. PICK q \in RowType :
                /\ row' = [row EXCEPT ![Target(w)] = q]
                /\ q.status = row[Target(w)].status
                /\ q.embedding = IF "processing" # Loaded(w).embedding THEN "processing"
                                 ELSE row[Target(w)].embedding
    BY <1>4
  <2>2. \A x \in Rows : row'[x] = IF x = Target(w) THEN q ELSE row[x]
    BY <2>1 DEF TypeInv, DataOK, RowsType
  <2>3. ASSUME NEW x \in Rows, NEW k \in Kinds(x), StatusOf(row'[x], k) = "queued"
        PROVE  StatusOf(row[x], k) = "queued" /\ ~WillEnd(runner[w], x, k)
    <3>1. CASE x # Target(w)
      BY <1>3, <2>2, <2>3, <3>1
    <3>2. CASE x = Target(w)
      <4>1. StatusOf(q, k) = "queued"
        BY <2>2, <2>3, <3>2
      <4>2. CASE k = "process"
        BY <1>3, <2>1, <3>2, <4>1, <4>2 DEF StatusOf
      <4>3. CASE k # "process"
        <5>1. q.embedding = "queued"
          BY <4>1, <4>3 DEF StatusOf
        <5>2. Loaded(w).embedding = "processing" /\ row[x].embedding = "queued"
          BY <2>1, <3>2, <5>1
        <5> QED
          BY <1>3, <4>3, <5>2 DEF StatusOf
      <4> QED
        BY <4>2, <4>3
    <3> QED
      BY <3>1, <3>2
  <2> QED
    BY <1>2, <2>3, RunnerKeepsQueue
<1>5. CASE ~Exists(Target(w)) /\ row' = row
  <2>1. \A x \in Rows : \A k \in Kinds(x) : Exists(x)' /\ StatusOf(row'[x], k) = "queued" =>
            StatusOf(row[x], k) = "queued" /\ ~WillEnd(runner[w], x, k)
    BY <1>2, <1>3, <1>5
  <2> QED
    BY <1>2, <2>1, RunnerKeepsQueue
<1> QED
  BY <1>1, <1>4, <1>5

(* Every other step of a job *)
LEMMA JobQueue ==
    ASSUME TypeInv, QueueInv, NEW w \in Runners,
           \/ ListRebuild(w) \/ ListSync(w) \/ Embedding(w) \/ Insert(w) \/ RefreshRow(w)
           \/ MarkCurrent(w) \/ MarkDocuments(w) \/ Closing(w)
    PROVE  QueueInv'
<1>1. CASE ListRebuild(w) \/ ListSync(w) \/ Embedding(w) \/ Insert(w) \/ RefreshRow(w)
  <2>1. \E r \in RunnerType : MoveOf(w, r) /\ row' = row /\ runner[w].pc \in JobPc
    BY <1>1, RebuildLists, SyncLists, Embeds, Inserts, Refreshes DEF JobPc
  <2> QED
    BY <2>1, JobKeepsQueue
<1>2. CASE MarkCurrent(w)
  <2>1. PICK r \in RunnerType :
            /\ MoveOf(w, r) /\ runner[w].pc = "mark"
            /\ \/ \E q \in RowType :
                        /\ row' = [row EXCEPT ![Target(w)] = q] /\ q.status = row[Target(w)].status
                        /\ q.embedding = IF "completed" # Loaded(w).embedding THEN "completed"
                                         ELSE row[Target(w)].embedding
               \/ row' = row
    BY <1>2, MarksCurrent
  <2>2. \A x \in Rows : \/ row'[x] = row[x]
                        \/ /\ row'[x].status = row[x].status
                           /\ row'[x].embedding \in {"completed", "failed", "cancelled", row[x].embedding}
    BY <2>1 DEF TypeInv, DataOK, RowsType
  <2> QED
    BY <2>1, <2>2, JobKeepsQueue DEF JobPc
<1>3. CASE MarkDocuments(w)
  <2>1. PICK r \in RunnerType :
            /\ MoveOf(w, r) /\ runner[w].pc = "mark" /\ row'[Project] = row[Project]
            /\ \A d \in Docs : chunks[d] = {} => row'[d] = row[d]
            /\ \A d \in Docs : chunks[d] # {} =>
                    /\ row'[d].embedding = "completed" /\ row'[d].status = row[d].status
    BY <1>3, MarksDocuments
  <2>2. \A x \in Rows : \/ row'[x] = row[x]
                        \/ /\ row'[x].status = row[x].status
                           /\ row'[x].embedding \in {"completed", "failed", "cancelled", row[x].embedding}
    BY <2>1 DEF Rows
  <2> QED
    BY <2>1, <2>2, JobKeepsQueue DEF JobPc
<1>4. CASE Closing(w)
  <2>1. PICK r \in RunnerType :
            /\ MoveOf(w, r) /\ runner[w].pc \in JobPc
            /\ \/ \E q \in RowType :
                    /\ row' = [row EXCEPT ![Target(w)] = q] /\ q.status = row[Target(w)].status
                    /\ \/ Target(w) = Project /\ q.embedding = "completed"
                       \/ q.embedding \in {"failed", "cancelled", row[Target(w)].embedding}
               \/ row' = row
    BY <1>4, Closes
  <2>2. \A x \in Rows : \/ row'[x] = row[x]
                        \/ /\ row'[x].status = row[x].status
                           /\ row'[x].embedding \in {"completed", "failed", "cancelled", row[x].embedding}
    BY <2>1 DEF TypeInv, DataOK, RowsType
  <2> QED
    BY <2>1, <2>2, JobKeepsQueue
<1> QED
  BY <1>1, <1>2, <1>3, <1>4

LEMMA MoveQueue ==
    ASSUME TypeInv, QueueInv, NEW w \in Runners, Moving(w)
    PROVE  QueueInv'
BY FailReadQueue, FailWriteQueue, StartJobQueue, JobQueue DEF Moving

(* A row whose job stopped with its process is noted, or its message is back *)
LEMMA StopsQueue ==
    ASSUME TypeInv, QueueInv, NEW R \in SUBSET Runners, Stops(R)
    PROVE  QueueInv'
<1>1. /\ \A v \in Runners : runner'[v] = IF v \in R THEN IdleRunner ELSE runner[v]
      /\ UNCHANGED <<row, kind, target>> /\ queued \subseteq queued' /\ lost \subseteq lost'
      /\ \A h \in Handlers : \/ request'[h] = request[h]
                             \/ request'[h] = IdleRequest /\ (At(h, "idle") \/ Row(h) \in lost')
      /\ \A v \in R : \/ Is(v, "idle") \/ Target(v) \in lost'
                      \/ v \in Workers /\ runner[v].job = "process" /\ runner[v].task \in queued'
  BY DEF Stops
<1>2. ASSUME NEW x \in Rows, NEW k \in Kinds(x), Waits(x, k)'
      PROVE  SafelyQueued(x, k)'
  <2>1. x \notin lost' /\ Waits(x, k)
    BY <1>1, <1>2 DEF Waits, Exists, StatusOf
  <2>2. SafelyQueued(x, k)
    BY <2>1, QueueSafe
  <2>3. \A u : Doomed(u, x, k)' => Doomed(u, x, k)
    BY <1>1 DEF Doomed, At, Row, Seen, StatusOf, IdleRequest
  <2>4. ASSUME NEW g \in Handlers, WillAct(request[g], x, k)
        PROVE  SafelyQueued(x, k)'
    <3>1. ~At(g, "idle") /\ Row(g) = x
      BY <2>4, RequestTyped
    <3>2. WillAct(request'[g], x, k)
      BY <1>1, <2>1, <2>4, <3>1
    <3> QED
      BY <3>2, SafeByRequest
  <2>5. ASSUME NEW u \in queued', kind[u] = k, target[u] = x, ~Doomed(u, x, k)
        PROVE  SafelyQueued(x, k)'
    <3>1. kind'[u] = k /\ target'[u] = x /\ ~Doomed(u, x, k)'
      BY <1>1, <2>3, <2>5
    <3> QED
      BY <3>1, SafeByMessage
  <2>6. ASSUME NEW v \in Runners, WillEnd(runner[v], x, k), v \in Workers => ~Doomed(runner[v].task, x, k)
        PROVE  SafelyQueued(x, k)'
    <3>1. runner[v].pc # "idle" /\ Target(v) = x /\ runner[v].job = k
      BY <2>6 DEF WillEnd, Target
    <3>2. CASE v \in R
      <4>1. v \in Workers /\ runner[v].task \in queued'
        BY <1>1, <2>1, <3>1, <3>2 DEF Is
      <4>2. kind[runner[v].task] = k /\ target[runner[v].task] = x
        BY <3>1, <4>1, RunnerAt DEF RunnerOK
      <4> QED
        BY <2>5, <2>6, <4>1, <4>2
    <3>3. CASE v \notin R
      <4>1. PICK u : u = runner[v].task
        OBVIOUS
      <4>2. WillEnd(runner'[v], x, k) /\ runner'[v].task = u /\ (v \in Workers => ~Doomed(u, x, k)')
        BY <1>1, <2>3, <2>6, <3>3, <4>1
      <4> QED
        BY <4>2, SafeByRunner
    <3> QED
      BY <3>2, <3>3
  <2> QED
    BY <1>1, <2>2, <2>4, <2>5, <2>6, SafeCases
<1> QED
  BY <1>2, QueueKept

LEMMA SafeStays ==
    ASSUME NEW x, NEW k, SafelyQueued(x, k), UNCHANGED <<request, runner, kind, target, queued>>
    PROVE  SafelyQueued(x, k)'
<1>1. \A t : Doomed(t, x, k)' => Doomed(t, x, k)
  BY DoomedStays
<1>2. ASSUME NEW g \in Handlers, WillAct(request[g], x, k)
      PROVE  SafelyQueued(x, k)'
  BY <1>2, SafeByRequest
<1>3. ASSUME NEW t \in queued, kind[t] = k, target[t] = x, ~Doomed(t, x, k)
      PROVE  SafelyQueued(x, k)'
  <2>1. t \in queued' /\ kind'[t] = k /\ target'[t] = x /\ ~Doomed(t, x, k)'
    BY <1>1, <1>3
  <2> QED
    BY <2>1, SafeByMessage
<1>4. ASSUME NEW v \in Runners, WillEnd(runner[v], x, k), v \in Workers => ~Doomed(runner[v].task, x, k)
      PROVE  SafelyQueued(x, k)'
  <2>1. PICK t : t = runner[v].task
    OBVIOUS
  <2>2. WillEnd(runner'[v], x, k) /\ runner'[v].task = t /\ (v \in Workers => ~Doomed(t, x, k)')
    BY <1>1, <1>4, <2>1
  <2> QED
    BY <2>2, SafeByRunner
<1> QED
  BY <1>2, <1>3, <1>4, SafeCases

LEMMA UploadQueue ==
    ASSUME TypeInv, QueueInv, NEW d \in Docs, Upload(d)
    PROVE  QueueInv'
<1>1. /\ row' = [row EXCEPT ![d] = Uploaded]
      /\ UNCHANGED <<kind, target, queued, runner, request, lost>>
  BY DEF Upload, broker, ghosts
<1>2. \A x \in Rows : row'[x] = IF x = d THEN Uploaded ELSE row[x]
  BY <1>1 DEF TypeInv, DataOK, RowsType
<1>3. \A k : StatusOf(Uploaded, k) # "queued"
  BY DEF StatusOf, Uploaded, FreshRow
<1>4. ASSUME NEW x \in Rows, NEW k \in Kinds(x), Waits(x, k)'
      PROVE  SafelyQueued(x, k)'
  <2>1. x \notin lost /\ Exists(x)' /\ StatusOf(row'[x], k) = "queued"
    BY <1>1, <1>4 DEF Waits, StatusOf
  <2>2. Waits(x, k)
    BY <1>2, <1>3, <2>1 DEF Waits, Exists
  <2> QED
    BY <1>1, <2>2, QueueSafe, SafeStays
<1> QED
  BY <1>4, QueueKept

LEMMA NextQueue ==
    ASSUME TypeInv, QueueInv, [Next]_vars
    PROVE  QueueInv'
<1>1. ASSUME NEW h \in Handlers, Asking(h) \/ HandlerStep(h)
      PROVE  QueueInv'
  <2>1. CASE Asking(h)
    BY <2>1, LoadQueue
  <2>2. CASE Writing(h) \/ Enqueue(h) \/ Revoking(h)
    BY <2>2, WriteQueue, EnqueueQueue, RevokeQueue
  <2>3. CASE ToolRefused(h) \/ RowGone(h)
    BY <2>3, Ends, EndQueue
  <2>4. CASE DeleteCommit(h) \/ DeleteProject(h)
    BY <2>4, DeleteQueue
  <2>5. CASE \E s \in Slots : Spawn(h, s)
    BY <2>5, SpawnQueue
  <2> QED
    BY <1>1, <2>1, <2>2, <2>3, <2>4, <2>5, HandlerSteps
<1>2. CASE \E d \in Docs : Upload(d)
  BY <1>2, UploadQueue
<1>3. ASSUME NEW w \in Runners, RunnerStep(w)
      PROVE  QueueInv'
  <2>1. CASE \E t \in Tasks : Taking(w, t)
    BY <2>1, TakeQueue
  <2>2. CASE StartProcessing(w) \/ ProcessRaises(w) \/ Moving(w)
    BY <2>2, StartQueue, RaiseQueue, MoveQueue
  <2>3. CASE \E m \in Models : CompleteProcessing(w, m)
    BY <2>3, CompleteQueue
  <2> QED
    BY <1>3, <2>1, <2>2, <2>3, RunnerSteps
<1>4. CASE Fault
  BY <1>4, FaultStops, StopsQueue
<1>5. CASE UNCHANGED vars
  <2>1. UNCHANGED <<row, lost, request, runner, kind, target, queued>>
    BY <1>5 DEF vars, data, broker, ghosts
  <2>2. ASSUME NEW x \in Rows, NEW k \in Kinds(x), Waits(x, k)'
        PROVE  SafelyQueued(x, k)'
    <3>1. Waits(x, k)
      BY <2>1, <2>2 DEF Waits, Exists, StatusOf
    <3> QED
      BY <2>1, <3>1, QueueSafe, SafeStays
  <2> QED
    BY <2>2, QueueKept
<1> QED
  BY <1>1, <1>2, <1>3, <1>4, <1>5, NextSteps

LEMMA InitQueue ==
    ASSUME Init
    PROVE  QueueInv
<1>1. PICK past, ids, first : Started(past, ids, first)
  BY Starts0
<1>2. ASSUME NEW x \in Rows, Exists(x)
      PROVE  row[x].status # "queued" /\ row[x].embedding # "queued"
  <2>1. CASE x = Project
    BY <1>1, <2>1 DEF Started, Uploaded, FreshRow, Rows
  <2>2. CASE x # Project
    <3>1. x \in Docs /\ row[x] = Past(past[x], first) /\ past[x] \in Histories
      BY <1>1, <2>2 DEF Started, Rows
    <3>2. past[x] # "unborn"
      BY <1>2, <3>1 DEF Exists, Past
    <3> QED
      BY <3>1, <3>2 DEF Past, Histories, FreshRow
  <2> QED
    BY <2>1, <2>2
<1> QED
  BY <1>2 DEF QueueInv, StatusOf

LEMMA QueueScheduled ==
    ASSUME QueueInv
    PROVE  QueuedIsScheduled
<1>1. ASSUME NEW x, NEW k, SafelyQueued(x, k)
      PROVE  Scheduled(x, k)
  BY <1>1 DEF SafelyQueued, Scheduled, Attended, WillAct, WillEnd, At, Row, Target
<1>2. ASSUME NEW x \in Rows \ lost, Exists(x)
      PROVE  /\ row[x].status = "queued" => SafelyQueued(x, "process")
             /\ row[x].embedding = "queued" => SafelyQueued(x, JobOf(x))
  BY <1>2 DEF QueueInv, Kinds, StatusOf, JobOf
<1> QED
  BY <1>1, <1>2 DEF QueuedIsScheduled

(* A document or project QUEUED for processing, rebuild or sync has a        *)
(* request that is about to publish, spawn or cancel, a message, or a runner *)
(* that will end it, whatever was cancelled, revoked, redelivered, deleted   *)
(* or overtaken: a revoke drops only the message of a row to which the       *)
(* revoking request writes CANCELLED, or that another request reads as       *)
(* CANCELLED, unless the message was of a task the request did not mean.     *)
THEOREM QueuedRowsAreScheduled == Spec => []QueuedIsScheduled
<1>1. Init => TypeInv /\ QueueInv
  BY InitType, InitQueue
<1>2. TypeInv /\ QueueInv /\ [Next]_vars => TypeInv' /\ QueueInv'
  BY NextType, NextQueue
<1>3. Spec => [](TypeInv /\ QueueInv)
  BY <1>1, <1>2, PTL DEF Spec
<1> QED
  BY <1>3, QueueScheduled, PTL

-----------------------------------------------------------------------------
(* Who will end that a row is CANCELLING or PROCESSING: a cancellation that  *)
(* has still to write CANCELLED, or a job that is to write its outcome.  A   *)
(* job that loaded the outcome it is to write, from another one, writes      *)
(* nothing: it ends no status of the row.                                   *)

Withdraws(r, x, k) == r.row = x /\ r.pc \in {"revoke", "cancelled"} /\ Cancels(r, k)

Withdrawn(x, k) == \E h \in Handlers : Withdraws(request[h], x, k)

WillFinish(r, x) ==
    /\ r.row = x /\ r.job # "process"
    /\ \/ r.pc \in {"list", "next", "embedded", "insert", "cancelled", "raised"}
       \/ r.pc \in {"mark", "mark_project"} /\ r.seen.embedding # "completed"
       \/ r.pc = "write_failed" /\ r.seen.embedding # "failed"
       \/ r.pc = "write_cancelled" /\ r.seen.embedding # "cancelled"

Finished(x) == \E w \in Runners : WillFinish(runner[w], x)

Unsettled == {"processing", "cancelling"}

Ended(x, k) ==
    StatusOf(row[x], k) \in Unsettled =>
        /\ Withdrawn(x, k) \/ (StatusOf(row[x], k) = "processing" /\ Finished(x))
        /\ k = "process" => StatusOf(row[x], k) # "processing"

EndInv(x) == x \notin lost /\ Exists(x) => \A k \in Kinds(x) : Ended(x, k)

(* A step of request h, or of none *)
LEMMA RequestEndsIt ==
    ASSUME NEW x \in Rows, EndInv(x), NEW h \in Handlers, lost \subseteq lost',
           \A g \in Handlers : g # h => request'[g] = request[g],
           x \notin lost' /\ Exists(x)' =>
             \A w \in Runners : WillFinish(runner[w], x) => WillFinish(runner'[w], x),
           x \notin lost' /\ Exists(x)' => \A k \in Kinds(x) : StatusOf(row'[x], k) \in Unsettled =>
                \/ /\ Withdraws(request'[h], x, k)
                   /\ k = "process" => StatusOf(row'[x], k) # "processing"
                \/ /\ Exists(x) /\ StatusOf(row'[x], k) = StatusOf(row[x], k)
                   /\ Withdraws(request[h], x, k) => Withdraws(request'[h], x, k)
    PROVE  EndInv(x)'
<1> SUFFICES ASSUME x \notin lost', Exists(x)', NEW k \in Kinds(x), StatusOf(row'[x], k) \in Unsettled
             PROVE  /\ Withdrawn(x, k)' \/ (StatusOf(row'[x], k) = "processing" /\ Finished(x)')
                    /\ k = "process" => StatusOf(row'[x], k) # "processing"
  BY DEF EndInv, Ended, Kinds, JobOf, StatusOf
<1>1. CASE Withdraws(request'[h], x, k) /\ (k = "process" => StatusOf(row'[x], k) # "processing")
  BY <1>1 DEF Withdrawn, Withdraws, Cancels, StatusOf
<1>2. CASE /\ Exists(x) /\ StatusOf(row'[x], k) = StatusOf(row[x], k)
           /\ Withdraws(request[h], x, k) => Withdraws(request'[h], x, k)
  <2>1. /\ Withdrawn(x, k) \/ (StatusOf(row[x], k) = "processing" /\ Finished(x))
        /\ k = "process" => StatusOf(row[x], k) # "processing"
    BY <1>2 DEF EndInv, Ended
  <2>2. ASSUME Withdrawn(x, k) PROVE Withdrawn(x, k)'
    <3>1. PICK g \in Handlers : Withdraws(request[g], x, k)
      BY <2>2 DEF Withdrawn
    <3>2. Withdraws(request'[g], x, k)
      BY <1>2, <3>1
    <3> QED
      BY <3>2 DEF Withdrawn, Withdraws, Cancels, StatusOf
  <2>3. ASSUME Finished(x) PROVE Finished(x)'
    BY <2>3 DEF Finished, WillFinish
  <2> QED
    BY <1>2, <2>1, <2>2, <2>3
<1> QED
  BY <1>1, <1>2

(* A step of runner w *)
LEMMA RunnerEndsIt ==
    ASSUME NEW x \in Rows, EndInv(x), NEW w \in Runners, lost \subseteq lost', request' = request,
           \A v \in Runners : v # w => runner'[v] = runner[v],
           x \notin lost' /\ Exists(x)' => \A k \in Kinds(x) : StatusOf(row'[x], k) \in Unsettled =>
                \/ /\ StatusOf(row'[x], k) = "processing" /\ k # "process"
                   /\ WillFinish(runner'[w], x)
                \/ /\ Exists(x) /\ StatusOf(row'[x], k) = StatusOf(row[x], k)
                   /\ StatusOf(row[x], k) = "processing" /\ k # "process" /\ WillFinish(runner[w], x)
                        => WillFinish(runner'[w], x)
    PROVE  EndInv(x)'
<1> SUFFICES ASSUME x \notin lost', Exists(x)', NEW k \in Kinds(x), StatusOf(row'[x], k) \in Unsettled
             PROVE  /\ Withdrawn(x, k)' \/ (StatusOf(row'[x], k) = "processing" /\ Finished(x)')
                    /\ k = "process" => StatusOf(row'[x], k) # "processing"
  BY DEF EndInv, Ended, Kinds, JobOf, StatusOf
<1>1. CASE /\ StatusOf(row'[x], k) = "processing" /\ k # "process"
           /\ WillFinish(runner'[w], x)
  BY <1>1 DEF Finished, WillFinish
<1>2. CASE /\ Exists(x) /\ StatusOf(row'[x], k) = StatusOf(row[x], k)
           /\ StatusOf(row[x], k) = "processing" /\ k # "process" /\ WillFinish(runner[w], x)
                        => WillFinish(runner'[w], x)
  <2>1. /\ Withdrawn(x, k) \/ (StatusOf(row[x], k) = "processing" /\ Finished(x))
        /\ k = "process" => StatusOf(row[x], k) # "processing"
    BY <1>2 DEF EndInv, Ended
  <2>2. ASSUME Withdrawn(x, k) PROVE Withdrawn(x, k)'
    BY <2>2 DEF Withdrawn, Withdraws, Cancels, StatusOf
  <2>3. ASSUME Finished(x), StatusOf(row[x], k) = "processing" PROVE Finished(x)'
    <3>1. PICK v \in Runners : WillFinish(runner[v], x)
      BY <2>3 DEF Finished
    <3>2. WillFinish(runner'[v], x)
      BY <1>2, <2>1, <2>3, <3>1
    <3> QED
      BY <3>2 DEF Finished, WillFinish
  <2> QED
    BY <1>2, <2>1, <2>2, <2>3
<1> QED
  BY <1>1, <1>2

(* What a write of the fields leaves in the row *)
LEMMA FlushFields ==
    ASSUME TypeInv, NEW x \in Rows, NEW seen, NEW new, Flush(x, seen, new)
    PROVE  /\ Exists(x) /\ \A y \in Rows : y # x => row'[y] = row[y]
           /\ row'[x].status = IF new.status # seen.status THEN new.status ELSE row[x].status
           /\ row'[x].embedding = IF new.embedding # seen.embedding THEN new.embedding ELSE row[x].embedding
<1>1. Exists(x) /\ row[x] \in RowType
  BY ExistsRow DEF TypeInv, Flush
<1>2. DOMAIN row[x] = {"status", "embedding", "task", "model"}
  BY <1>1 DEF RowType
<1>3. row' = [row EXCEPT ![x] = [f \in DOMAIN row[x] |-> IF new[f] # seen[f] THEN new[f] ELSE row[x][f]]]
  BY DEF Flush
<1>4. row'[x] = [f \in DOMAIN row[x] |-> IF new[f] # seen[f] THEN new[f] ELSE row[x][f]]
  BY <1>3 DEF TypeInv, DataOK, RowsType
<1>5. \A y \in Rows : y # x => row'[y] = row[y]
  BY <1>3 DEF TypeInv, DataOK, RowsType
<1> QED
  BY <1>1, <1>2, <1>4, <1>5

LEMMA MovesRequest ==
    ASSUME TypeInv, NEW h \in Handlers, NEW pc, NEW seen, MoveTo(h, pc, seen)
    PROVE  /\ request'[h].pc = pc /\ request'[h].seen = seen /\ request'[h].op = request[h].op
           /\ request'[h].row = request[h].row
           /\ \A g \in Handlers : g # h => request'[g] = request[g]
<1>1. request[h] \in RequestType /\ request \in [Handlers -> RequestType]
  BY DEF TypeInv, RequestsOK
<1> QED
  BY <1>1 DEF MoveTo, RequestType

LEMMA FinishesRequest ==
    ASSUME TypeInv, NEW h \in Handlers, Finish(h)
    PROVE  /\ request'[h] = IdleRequest
           /\ \A g \in Handlers : g # h => request'[g] = request[g]
BY DEF Finish, TypeInv, RequestsOK

(* A request that writes the row leaves CANCELLING for itself to end, and   *)
(* what it does not write to those who will end it                          *)
WritesIt(h) ==
    /\ \A g \in Handlers : g # h => request'[g] = request[g]
    /\ \A y \in Rows : y # Row(h) => row'[y] = row[y]
    /\ Row(h) \in Rows /\ Exists(Row(h))
    /\ \A k \in {"process", JobOf(Row(h))} : StatusOf(row'[Row(h)], k) \in Unsettled =>
        \/ StatusOf(row'[Row(h)], k) = "cancelling" /\ Withdraws(request'[h], Row(h), k)
        \/ StatusOf(row'[Row(h)], k) = StatusOf(row[Row(h)], k) /\ ~Withdraws(request[h], Row(h), k)

(* ... one that is not a cancellation *)
LEMMA OtherWrites ==
    ASSUME TypeInv, NEW h \in Handlers, request[h].pc \in {"load", "queue", "enqueue", "record"},
           NEW new, Flush(Row(h), Seen(h), new),
           new.status \in {"queued", "uploaded", Seen(h).status},
           new.embedding \in {"queued", Seen(h).embedding},
           \A g \in Handlers : g # h => request'[g] = request[g]
    PROVE  WritesIt(h)
<1>1. Row(h) \in Rows
  BY RequestAt
<1>2. /\ Exists(Row(h)) /\ \A y \in Rows : y # Row(h) => row'[y] = row[y]
      /\ row'[Row(h)].status \in {"queued", "uploaded", row[Row(h)].status}
      /\ row'[Row(h)].embedding \in {"queued", row[Row(h)].embedding}
  BY <1>1, FlushFields
<1>3. \A k : ~Withdraws(request[h], Row(h), k)
  BY DEF Withdraws
<1> QED
  BY <1>1, <1>2, <1>3 DEF WritesIt, StatusOf, Unsettled

LEMMA OtherWritesIt ==
    ASSUME TypeInv, NEW h \in Handlers,
           \/ RetryReset(h) \/ QueueProcessing(h) \/ RestoreUploaded(h) \/ ToolQueue(h)
           \/ QueueLocal(h) \/ QueueTool(h) \/ Record(h)
    PROVE  WritesIt(h)
<1>1. /\ request[h].pc \in {"load", "queue", "enqueue", "record"}
      /\ \/ \E pc, seen : MoveTo(h, pc, seen)
         \/ Finish(h)
  BY DEF RetryReset, QueueProcessing, RestoreUploaded, ToolQueue, QueueLocal, QueueTool, Record, Doing, At
<1>2. Seen(h) \in RowType
  BY <1>1, RequestAt
<1>3. \A g \in Handlers : g # h => request'[g] = request[g]
  BY <1>1, MovesRequest, FinishesRequest
<1>4. \E new : /\ Flush(Row(h), Seen(h), new)
               /\ new.status \in {"queued", "uploaded", Seen(h).status}
               /\ new.embedding \in {"queued", Seen(h).embedding}
  <2>1. PICK s : s = Seen(h)
    OBVIOUS
  <2>2. s \in RowType
    BY <1>2, <2>1
  <2>3. CASE RetryReset(h)
    <3>1. Flush(Row(h), s, [s EXCEPT !.status = "uploaded"])
      BY <2>1, <2>3 DEF RetryReset
    <3>2. [s EXCEPT !.status = "uploaded"].status = "uploaded" /\ [s EXCEPT !.status = "uploaded"].embedding = s.embedding
      BY <2>2 DEF RowType
    <3> QED
      BY <2>1, <3>1, <3>2
  <2>4. CASE QueueProcessing(h)
    <3>1. Flush(Row(h), s, [s EXCEPT !.status = "queued"])
      BY <2>1, <2>4 DEF QueueProcessing
    <3>2. [s EXCEPT !.status = "queued"].status = "queued" /\ [s EXCEPT !.status = "queued"].embedding = s.embedding
      BY <2>2 DEF RowType
    <3> QED
      BY <2>1, <3>1, <3>2
  <2>5. CASE RestoreUploaded(h)
    <3>1. Flush(Row(h), s, [s EXCEPT !.status = RestoredStatus])
      BY <2>1, <2>5 DEF RestoreUploaded
    <3>2. /\ [s EXCEPT !.status = RestoredStatus].status = "uploaded"
          /\ [s EXCEPT !.status = RestoredStatus].embedding = s.embedding
      BY <2>2 DEF RowType, RestoredStatus
    <3> QED
      BY <2>1, <3>1, <3>2
  <2>6. CASE ToolQueue(h)
    <3>1. Flush(Row(h), s, [s EXCEPT !.status = "queued", !.task = None])
      BY <2>1, <2>6 DEF ToolQueue
    <3>2. /\ [s EXCEPT !.status = "queued", !.task = None].status = "queued"
          /\ [s EXCEPT !.status = "queued", !.task = None].embedding = s.embedding
      BY <2>2 DEF RowType
    <3> QED
      BY <2>1, <3>1, <3>2
  <2>7. CASE QueueLocal(h)
    <3>1. Flush(Row(h), s, [s EXCEPT !.embedding = "queued", !.task = Local])
      BY <2>1, <2>7 DEF QueueLocal
    <3>2. /\ [s EXCEPT !.embedding = "queued", !.task = Local].status = s.status
          /\ [s EXCEPT !.embedding = "queued", !.task = Local].embedding = "queued"
      BY <2>2 DEF RowType
    <3> QED
      BY <2>1, <3>1, <3>2
  <2>8. CASE QueueTool(h)
    <3>1. PICK t : Flush(Row(h), s, [s EXCEPT !.embedding = "queued", !.task = t])
      <4>1. Flush(Row(h), s, [s EXCEPT !.embedding = "queued", !.task = IF Row(h) = Project THEN None ELSE s.task])
        BY <2>1, <2>2, <2>8 DEF QueueTool, RowType
      <4> QED
        BY <4>1
    <3>2. /\ [s EXCEPT !.embedding = "queued", !.task = t].status = s.status
          /\ [s EXCEPT !.embedding = "queued", !.task = t].embedding = "queued"
      BY <2>2 DEF RowType
    <3> QED
      BY <2>1, <3>1, <3>2
  <2>9. CASE Record(h)
    <3>1. Flush(Row(h), s, [s EXCEPT !.task = request[h].task])
      BY <2>1, <2>9 DEF Record
    <3>2. /\ [s EXCEPT !.task = request[h].task].status = s.status
          /\ [s EXCEPT !.task = request[h].task].embedding = s.embedding
      BY <2>2 DEF RowType
    <3> QED
      BY <2>1, <3>1, <3>2
  <2> QED
    BY <2>3, <2>4, <2>5, <2>6, <2>7, <2>8, <2>9
<1> QED
  BY <1>1, <1>3, <1>4, OtherWrites

(* A cancellation marks the row and reads it back; when it writes CANCELLED *)
(* it ends what it read                                                     *)
LEMMA CancelWritesIt ==
    ASSUME TypeInv, NEW h \in Handlers,
           CancelMark(h) \/ CancelDone(h) \/ MarkCancelling(h) \/ MarkCancelled(h)
    PROVE  WritesIt(h)
<1>1. /\ request[h].pc \in {"load", "cancelled"} /\ request[h].op \in {"cancel", "cancel_job"}
      /\ \/ \E pc, seen : MoveTo(h, pc, seen)
         \/ Finish(h)
  BY DEF CancelMark, CancelDone, MarkCancelling, MarkCancelled, Doing, At
<1>2. Seen(h) \in RowType /\ Row(h) \in Rows /\ Seen(h) = request[h].seen /\ Row(h) = request[h].row
  BY <1>1, RequestAt
<1>3. \A g \in Handlers : g # h => request'[g] = request[g]
  BY <1>1, MovesRequest, FinishesRequest
<1>4. JobOf(Row(h)) # "process"
  BY DEF JobOf
<1>5. PICK s : s = Seen(h)
  OBVIOUS
<1>6. s \in RowType
  BY <1>2, <1>5
<1>7. CASE CancelMark(h)
  <2>0. PICK n : n = [s EXCEPT !.status = "cancelling"]
    OBVIOUS
  <2>1. /\ Flush(Row(h), s, n)
        /\ MoveTo(h, "revoke", row'[Row(h)]) /\ At(h, "load") /\ request[h].op = "cancel"
    BY <1>5, <1>7, <2>0 DEF CancelMark, Doing
  <2>2. /\ n.status = "cancelling"
        /\ n.embedding = s.embedding
    BY <1>6, <2>0 DEF RowType
  <2>3. /\ Exists(Row(h)) /\ \A y \in Rows : y # Row(h) => row'[y] = row[y]
        /\ row'[Row(h)].status \in {"cancelling", row[Row(h)].status}
        /\ row'[Row(h)].embedding = row[Row(h)].embedding
    BY <1>2, <2>1, <2>2, FlushFields
  <2>4. /\ request'[h].pc = "revoke" /\ request'[h].seen = row'[Row(h)] /\ request'[h].op = "cancel"
        /\ request'[h].row = Row(h)
    BY <1>2, <2>1, MovesRequest
  <2>5. \A k : ~Withdraws(request[h], Row(h), k)
    BY <2>1 DEF Withdraws, At
  <2>6. row'[Row(h)].status = "cancelling" => Withdraws(request'[h], Row(h), "process")
    BY <2>4 DEF Withdraws, Cancels, StatusOf
  <2> QED
    BY <1>2, <1>3, <1>4, <2>3, <2>5, <2>6 DEF WritesIt, StatusOf
<1>8. CASE MarkCancelling(h)
  <2>0. PICK n : n = [s EXCEPT !.embedding = "cancelling"]
    OBVIOUS
  <2>1. /\ Flush(Row(h), s, n)
        /\ MoveTo(h, "revoke", row'[Row(h)]) /\ At(h, "load") /\ request[h].op = "cancel_job"
    BY <1>5, <1>8, <2>0 DEF MarkCancelling, Doing
  <2>2. /\ n.embedding = "cancelling"
        /\ n.status = s.status
    BY <1>6, <2>0 DEF RowType
  <2>3. /\ Exists(Row(h)) /\ \A y \in Rows : y # Row(h) => row'[y] = row[y]
        /\ row'[Row(h)].embedding \in {"cancelling", row[Row(h)].embedding}
        /\ row'[Row(h)].status = row[Row(h)].status
    BY <1>2, <2>1, <2>2, FlushFields
  <2>4. /\ request'[h].pc = "revoke" /\ request'[h].seen = row'[Row(h)] /\ request'[h].op = "cancel_job"
        /\ request'[h].row = Row(h)
    BY <1>2, <2>1, MovesRequest
  <2>5. \A k : ~Withdraws(request[h], Row(h), k)
    BY <2>1 DEF Withdraws, At
  <2>6. row'[Row(h)].embedding = "cancelling" => Withdraws(request'[h], Row(h), JobOf(Row(h)))
    BY <1>4, <2>4 DEF Withdraws, Cancels, StatusOf
  <2> QED
    BY <1>2, <1>3, <1>4, <2>3, <2>5, <2>6 DEF WritesIt, StatusOf
<1>9. CASE CancelDone(h)
  <2>0. PICK n : n = [s EXCEPT !.status = "cancelled", !.embedding = "cancelled"]
    OBVIOUS
  <2>1. /\ Flush(Row(h), s, n)
        /\ request[h].pc = "cancelled" /\ request[h].op = "cancel"
    BY <1>5, <1>9, <2>0 DEF CancelDone, At
  <2>2. /\ n.status = "cancelled"
        /\ n.embedding = "cancelled"
    BY <1>6, <2>0 DEF RowType
  <2>3. /\ Exists(Row(h)) /\ \A y \in Rows : y # Row(h) => row'[y] = row[y]
        /\ row'[Row(h)].status = IF "cancelled" # s.status THEN "cancelled" ELSE row[Row(h)].status
        /\ row'[Row(h)].embedding = IF "cancelled" # s.embedding THEN "cancelled" ELSE row[Row(h)].embedding
    BY <1>2, <2>1, <2>2, FlushFields
  <2>4. \A k : StatusOf(s, k) = "cancelled" => ~Withdraws(request[h], Row(h), k)
    BY <1>2, <1>5 DEF Withdraws, Cancels
  <2>5. \A k : StatusOf(row'[Row(h)], k) = IF "cancelled" # StatusOf(s, k) THEN "cancelled"
                                            ELSE StatusOf(row[Row(h)], k)
    BY <2>3 DEF StatusOf
  <2> QED
    BY <1>2, <1>3, <2>3, <2>4, <2>5 DEF WritesIt, Unsettled
<1>10. CASE MarkCancelled(h)
  <2>0. PICK n : n = [s EXCEPT !.embedding = "cancelled", !.task = None]
    OBVIOUS
  <2>1. /\ Flush(Row(h), s, n)
        /\ request[h].pc = "cancelled" /\ request[h].op = "cancel_job"
    BY <1>5, <1>10, <2>0 DEF MarkCancelled, At
  <2>2. /\ n.status = s.status
        /\ n.embedding = "cancelled"
    BY <1>6, <2>0 DEF RowType
  <2>3. /\ Exists(Row(h)) /\ \A y \in Rows : y # Row(h) => row'[y] = row[y]
        /\ row'[Row(h)].status = row[Row(h)].status
        /\ row'[Row(h)].embedding = IF "cancelled" # s.embedding THEN "cancelled" ELSE row[Row(h)].embedding
    BY <1>2, <2>1, <2>2, FlushFields
  <2>4. ~Withdraws(request[h], Row(h), "process")
    BY <2>1 DEF Withdraws, Cancels
  <2>5. \A k : StatusOf(s, k) = "cancelled" => ~Withdraws(request[h], Row(h), k)
    BY <1>2, <1>5 DEF Withdraws, Cancels
  <2>6. \A k : k # "process" =>
            StatusOf(row'[Row(h)], k) = IF "cancelled" # StatusOf(s, k) THEN "cancelled"
                                        ELSE StatusOf(row[Row(h)], k)
    BY <2>3 DEF StatusOf
  <2>7. StatusOf(row'[Row(h)], "process") = StatusOf(row[Row(h)], "process")
    BY <2>3 DEF StatusOf
  <2> QED
    BY <1>2, <1>3, <1>4, <2>3, <2>4, <2>5, <2>6, <2>7 DEF WritesIt, Unsettled
<1> QED
  BY <1>7, <1>8, <1>9, <1>10

LEMMA WriteEndsIt ==
    ASSUME TypeInv, NEW x \in Rows, EndInv(x), NEW h \in Handlers, Writing(h)
    PROVE  EndInv(x)'
<1>1. WritesIt(h)
  BY OtherWritesIt, CancelWritesIt DEF Writing
<1>2. UNCHANGED <<runner, lost>>
  BY RequestWrites DEF ghosts
<1>3. /\ \A g \in Handlers : g # h => request'[g] = request[g]
      /\ \A y \in Rows : y # Row(h) => row'[y] = row[y]
      /\ Row(h) \in Rows /\ Exists(Row(h))
      /\ \A k \in {"process", JobOf(Row(h))} : StatusOf(row'[Row(h)], k) \in Unsettled =>
        \/ StatusOf(row'[Row(h)], k) = "cancelling" /\ Withdraws(request'[h], Row(h), k)
        \/ StatusOf(row'[Row(h)], k) = StatusOf(row[Row(h)], k) /\ ~Withdraws(request[h], Row(h), k)
  BY <1>1 DEF WritesIt
<1>4. CASE x = Row(h)
  <2>1. \A k \in Kinds(x) : StatusOf(row'[x], k) \in Unsettled =>
                \/ /\ Withdraws(request'[h], x, k)
                   /\ k = "process" => StatusOf(row'[x], k) # "processing"
                \/ /\ Exists(x) /\ StatusOf(row'[x], k) = StatusOf(row[x], k)
                   /\ Withdraws(request[h], x, k) => Withdraws(request'[h], x, k)
    BY <1>3, <1>4 DEF Kinds
  <2> QED
    BY <1>2, <1>3, <2>1, RequestEndsIt
<1>5. CASE x # Row(h)
  <2>1. row'[x] = row[x] /\ (Exists(x)' => Exists(x))
    BY <1>3, <1>5 DEF Exists
  <2>2. \A k : ~Withdraws(request[h], x, k)
    BY <1>5, RequestAt DEF Withdraws
  <2> QED
    BY <1>2, <1>3, <2>1, <2>2, RequestEndsIt
<1> QED
  BY <1>4, <1>5

(* The steps of a request that leave the rows as they are, or delete them *)
LEMMA QuietEndsIt ==
    ASSUME TypeInv, NEW x \in Rows, EndInv(x), NEW h \in Handlers, lost \subseteq lost', 
           \A g \in Handlers : g # h => request'[g] = request[g],
           \A w \in Runners : WillFinish(runner[w], x) => WillFinish(runner'[w], x),
           row'[x] = row[x] \/ ~Exists(x)',
           \/ request[h].pc \notin {"revoke", "cancelled"}
           \/ Row(h) = x => ~Exists(x) \/ x \in lost'
    PROVE  EndInv(x)'
<1>1. x \notin lost' /\ Exists(x)' => Exists(x) /\ row'[x] = row[x]
  BY DEF Exists
<1>2. x \notin lost' /\ Exists(x)' => \A k : ~Withdraws(request[h], x, k)
  BY <1>1, RequestAt DEF Withdraws
<1> QED
  BY <1>1, <1>2, RequestEndsIt

LEMMA HandlerEndsIt ==
    ASSUME TypeInv, NEW x \in Rows, EndInv(x), NEW h \in Handlers,
           \/ Asking(h) \/ Enqueue(h) \/ ToolRefused(h) \/ RowGone(h)
           \/ DeleteCommit(h) \/ DeleteProject(h)
    PROVE  EndInv(x)'
<1>1. CASE Asking(h)
  <2>1. PICK r \in RequestType : LoadOf(h, r)
    BY <1>1, Loads
  <2>2. request' = [request EXCEPT ![h] = r] /\ UNCHANGED <<row, runner, lost>> /\ request[h].pc = "idle"
    BY <2>1 DEF LoadOf, data, ghosts, At
  <2>3. \A g \in Handlers : g # h => request'[g] = request[g]
    BY <2>2 DEF TypeInv, RequestsOK
  <2> QED
    BY <2>2, <2>3, QuietEndsIt
<1>2. CASE Enqueue(h)
  <2>1. PICK t \in Tasks, r \in RequestType :
            /\ At(h, "enqueue") /\ request' = [request EXCEPT ![h] = r]
            /\ UNCHANGED <<data, runner, asked, ghosts>>
    BY <1>2, Enqueues
  <2>2. UNCHANGED <<row, runner, lost>> /\ request[h].pc = "enqueue"
    BY <2>1 DEF data, ghosts, At
  <2>3. \A g \in Handlers : g # h => request'[g] = request[g]
    BY <2>1 DEF TypeInv, RequestsOK
  <2> QED
    BY <2>2, <2>3, QuietEndsIt
<1>3. CASE ToolRefused(h)
  <2>1. Finish(h) /\ request[h].pc = "enqueue" /\ UNCHANGED <<row, runner>> /\ lost \subseteq lost'
    BY <1>3 DEF ToolRefused, At, data
  <2> QED
    BY <2>1, FinishesRequest, QuietEndsIt
<1>4. CASE RowGone(h)
  <2>1. Finish(h) /\ ~Exists(Row(h)) /\ UNCHANGED <<row, runner, lost>>
    BY <1>4 DEF RowGone, data, ghosts
  <2> QED
    BY <2>1, FinishesRequest, QuietEndsIt
<1>5. CASE DeleteCommit(h) \/ DeleteProject(h)
  <2>1. PICK ds \in SUBSET Rows :
            /\ request[h].pc = "load" /\ request' = [request EXCEPT ![h] = IdleRequest]
            /\ row' = [y \in Rows |-> IF y \in ds THEN None ELSE row[y]]
            /\ UNCHANGED <<locked, broker, runner, asked, ghosts>>
    BY <1>5, Deletes
  <2>2. row'[x] = row[x] \/ ~Exists(x)'
    BY <2>1 DEF Exists
  <2>3. \A g \in Handlers : g # h => request'[g] = request[g]
    BY <2>1 DEF TypeInv, RequestsOK
  <2>4. UNCHANGED <<runner, lost>>
    BY <2>1 DEF ghosts
  <2> QED
    BY <2>1, <2>2, <2>3, <2>4, QuietEndsIt
<1> QED
  BY <1>1, <1>2, <1>3, <1>4, <1>5

(* A revoke kills no job that is to end a status of x, but one whose row the *)
(* revoking request will write, or one of a task that it did not mean       *)
LEMMA RevokeEndsIt ==
    ASSUME TypeInv, NEW x \in Rows, EndInv(x), ~Overtaken(x), NEW h \in Handlers, Revoking(h)
    PROVE  EndInv(x)'
<1> DEFINE t == Seen(h).task
           jobs == IF request[h].op = "cancel" THEN {"process", "rebuild"} ELSE {"rebuild", "sync"}
<1>1. /\ request[h].pc = "revoke" /\ Exists(Row(h)) /\ Row(h) \in Rows /\ Seen(h) \in RowType
      /\ Named(t, Row(h)) /\ UNCHANGED <<row, kind, target>>
  BY Revokes DEF At
<1>2. /\ request[h].op \in {"cancel", "cancel_job"} /\ Row(h) = request[h].row /\ Seen(h) = request[h].seen
  BY <1>1, RequestAt DEF RequestOK
<1>3. CASE /\ Revoke(t, jobs)
           /\ \E r \in RequestType :
                /\ request' = [request EXCEPT ![h] = r]
                /\ r.pc = "cancelled" /\ r.seen = Seen(h) /\ r.op = request[h].op /\ r.row = Row(h)
  <2>1. PICK r \in RequestType :
                /\ request' = [request EXCEPT ![h] = r]
                /\ r.pc = "cancelled" /\ r.seen = Seen(h) /\ r.op = request[h].op /\ r.row = Row(h)
    BY <1>3
  <2>2. /\ \A w \in Runners : runner'[w] = IF w \in Revoked(t) THEN IdleRunner ELSE runner[w]
        /\ t \in Tasks /\ kind[t] \notin jobs /\ (t \in queued \/ Revoked(t) # {}) => target[t] \in lost'
        /\ lost \subseteq lost'
    BY <1>3 DEF Revoke
  <2> HIDE DEF t, jobs
  <2>3. request'[h] = r /\ \A g \in Handlers : g # h => request'[g] = request[g]
    BY <2>1 DEF TypeInv, RequestsOK
  <2>4. \A k : Withdraws(request[h], x, k) => Withdraws(request'[h], x, k)
    BY <1>2, <2>1, <2>3 DEF Withdraws, Cancels
  <2>5. SUFFICES ASSUME x \notin lost', Exists(x)', NEW k \in Kinds(x), StatusOf(row'[x], k) \in Unsettled
                 PROVE  /\ Withdrawn(x, k)' \/ (StatusOf(row'[x], k) = "processing" /\ Finished(x)')
                        /\ k = "process" => StatusOf(row'[x], k) # "processing"
    BY DEF EndInv, Ended, Kinds, JobOf, StatusOf
  <2>6. /\ Withdrawn(x, k) \/ (StatusOf(row[x], k) = "processing" /\ Finished(x))
        /\ k = "process" => StatusOf(row[x], k) # "processing"
        /\ StatusOf(row'[x], k) = StatusOf(row[x], k)
    BY <1>1, <2>2, <2>5 DEF EndInv, Ended, Exists
  <2>7. ASSUME NEW g \in Handlers, Withdraws(request'[g], x, k)
        PROVE  Withdrawn(x, k)'
    BY <2>7 DEF Withdrawn, Withdraws, Cancels, StatusOf
  <2>8. ASSUME Withdrawn(x, k) PROVE Withdrawn(x, k)'
    <3>1. PICK g \in Handlers : Withdraws(request[g], x, k)
      BY <2>8 DEF Withdrawn
    <3>2. Withdraws(request'[g], x, k)
      BY <2>3, <2>4, <3>1
    <3> QED
      BY <2>7, <3>2
  <2>9. ASSUME k # "process", NEW w \in Runners, WillFinish(runner[w], x)
        PROVE  Withdrawn(x, k)' \/ Finished(x)'
    <3>1. runner[w].pc # "idle" /\ runner[w].row = x /\ runner[w].job # "process"
      BY <2>9 DEF WillFinish
    <3>2. CASE w \notin Revoked(t)
      <4>1. WillFinish(runner'[w], x)
        BY <2>2, <2>9, <3>2
      <4> QED
        BY <4>1 DEF Finished, WillFinish
    <3>3. CASE w \in Revoked(t)
      <4>1. w \in Workers /\ runner[w].task = t
        BY <3>3 DEF Revoked
      <4>2. t \in Tasks /\ kind[t] = runner[w].job /\ target[t] = x /\ kind[t] # "none"
        BY <3>1, <4>1, RunnerAt DEF RunnerOK
      <4>3. kind[t] \in jobs
        BY <2>2, <2>5, <3>3, <4>2
      <4>4. runner[w].job \in {"rebuild", "sync"} /\ Row(h) = x
        BY <1>1, <3>1, <4>2, <4>3 DEF jobs, Named
      <4>5. Seen(h).embedding # "cancelled"
        BY <1>1, <4>1, <4>4 DEF Overtaken, At, t
      <4>6. Withdraws(r, x, k)
        BY <1>2, <2>1, <2>9, <4>4, <4>5 DEF Withdraws, Cancels, StatusOf
      <4> QED
        BY <2>3, <2>7, <4>6
    <3> QED
      BY <3>2, <3>3
  <2> QED
    BY <2>6, <2>8, <2>9 DEF Finished
<1>4. CASE /\ lost' = lost \cup {Row(h)} /\ request' = [request EXCEPT ![h] = IdleRequest]
           /\ UNCHANGED <<queued, runner, locked>>
  <2>1. /\ UNCHANGED <<row, runner>> /\ lost \subseteq lost' /\ Row(h) \in lost'
        /\ \A g \in Handlers : g # h => request'[g] = request[g]
    BY <1>1, <1>4 DEF TypeInv, RequestsOK
  <2> QED
    BY <2>1, QuietEndsIt
<1> QED
  BY <1>3, <1>4, Revokes

LEMMA SpawnEndsIt ==
    ASSUME TypeInv, NEW x \in Rows, EndInv(x), NEW h \in Handlers, NEW s \in Slots, Spawn(h, s)
    PROVE  EndInv(x)'
<1>1. /\ request[h].pc = "spawn" /\ runner[s].pc = "idle"
      /\ request' = [request EXCEPT ![h] = IdleRequest]
      /\ UNCHANGED <<row, lost>>
      /\ (\E r \in RunnerType : runner' = [runner EXCEPT ![s] = r]) \/ UNCHANGED runner
  BY Spawns DEF At, Is, data
<1>2. \A w \in Runners : WillFinish(runner[w], x) => WillFinish(runner'[w], x)
  BY <1>1 DEF WillFinish, TypeInv, RunnersOK
<1>3. \A g \in Handlers : g # h => request'[g] = request[g]
  BY <1>1 DEF TypeInv, RequestsOK
<1> QED
  BY <1>1, <1>2, <1>3, QuietEndsIt

-----------------------------------------------------------------------------
(* A step of a runner that does not write the row *)
LEMMA SameRowEndsIt ==
    ASSUME TypeInv, NEW x \in Rows, EndInv(x), NEW w \in Runners, NEW r,
           runner' = [runner EXCEPT ![w] = r], request' = request, lost \subseteq lost',
           row'[x] = row[x],
           Exists(x) /\ row[x].embedding = "processing" /\ WillFinish(runner[w], x) => WillFinish(r, x)
    PROVE  EndInv(x)'
<1>1. runner'[w] = r /\ \A v \in Runners : v # w => runner'[v] = runner[v]
  BY DEF TypeInv, RunnersOK
<1>2. Exists(x)' => Exists(x)
  BY DEF Exists
<1>3. \A k \in Kinds(x) : StatusOf(row'[x], k) = StatusOf(row[x], k)
  BY DEF StatusOf
<1>4. \A k \in Kinds(x) : Exists(x) /\ StatusOf(row[x], k) = "processing" /\ k # "process"
                            /\ WillFinish(runner[w], x) => WillFinish(runner'[w], x)
  BY <1>1 DEF StatusOf
<1> QED
  BY <1>1, <1>2, <1>3, <1>4, RunnerEndsIt

(* The processing of a document ends no status that is committed *)
LEMMA ProcessEndsIt ==
    ASSUME TypeInv, NEW x \in Rows, EndInv(x), NEW w \in Runners,
           \/ \E t \in Tasks : Taking(w, t)
           \/ StartProcessing(w) \/ ProcessRaises(w) \/ FailRefresh(w)
    PROVE  EndInv(x)'
<1>1. CASE \E t \in Tasks : Taking(w, t)
  <2>1. /\ runner[w].pc = "idle" /\ UNCHANGED <<row, request, lost>>
        /\ (\E r \in RunnerType : runner' = [runner EXCEPT ![w] = r]) \/ UNCHANGED runner
    BY <1>1, Takes DEF Is
  <2>2. runner \in [Runners -> RunnerType]
    BY DEF TypeInv, RunnersOK
  <2>3. \E r : runner' = [runner EXCEPT ![w] = r]
    <3>1. runner = [runner EXCEPT ![w] = runner[w]]
      BY <2>2
    <3> QED
      BY <2>1, <3>1
  <2>4. ~WillFinish(runner[w], x)
    BY <2>1 DEF WillFinish
  <2> QED
    BY <2>1, <2>3, <2>4, SameRowEndsIt
<1>2. CASE StartProcessing(w)
  <2>1. /\ runner[w].job = "process" /\ UNCHANGED <<row, request, lost>>
        /\ \E r : runner' = [runner EXCEPT ![w] = r]
    BY <1>2, Starts DEF ghosts
  <2>2. ~WillFinish(runner[w], x)
    BY <2>1 DEF WillFinish
  <2> QED
    BY <2>1, <2>2, SameRowEndsIt
<1>3. CASE ProcessRaises(w)
  <2>1. /\ runner[w].pc = "processing" /\ UNCHANGED <<row, request, lost>>
        /\ \E r : runner' = [runner EXCEPT ![w] = r]
    BY <1>3 DEF ProcessRaises, Is, GoTo, ghosts
  <2>2. ~WillFinish(runner[w], x)
    BY <2>1 DEF WillFinish
  <2> QED
    BY <2>1, <2>2, SameRowEndsIt
<1>4. CASE FailRefresh(w)
  <2>1. /\ runner[w].pc = "failing" /\ UNCHANGED <<row, request, lost>>
        /\ \E r : runner' = [runner EXCEPT ![w] = r]
    BY <1>4, FailReads DEF MoveOf
  <2>2. ~WillFinish(runner[w], x)
    BY <2>1 DEF WillFinish
  <2> QED
    BY <2>1, <2>2, SameRowEndsIt
<1> QED
  BY <1>1, <1>2, <1>3, <1>4

LEMMA OutcomeEndsIt ==
    ASSUME TypeInv, NEW x \in Rows, EndInv(x), NEW w \in Runners,
           FailProcessing(w) \/ \E m \in Models : CompleteProcessing(w, m)
    PROVE  EndInv(x)'
<1>1. /\ runner[w].job = "process" /\ UNCHANGED <<request, lost>>
      /\ \E r : runner' = [runner EXCEPT ![w] = r]
      /\ \/ row' = row
         \/ \E q \in RowType :
                /\ row' = [row EXCEPT ![Target(w)] = q] /\ Exists(Target(w))
                /\ q.status \in {"indexed", "failed", row[Target(w)].status}
                /\ q.embedding \in {"completed", "failed", row[Target(w)].embedding}
  <2>1. CASE FailProcessing(w)
    <3>1. /\ MoveOf(w, IdleRunner) /\ runner[w].job = "process" /\ Target(w) \in Rows
          /\ \/ \E q \in RowType :
                    /\ row' = [row EXCEPT ![Target(w)] = q]
                    /\ q.status = IF "failed" # Loaded(w).status THEN "failed" ELSE row[Target(w)].status
                    /\ q.embedding \in {"failed", row[Target(w)].embedding}
             \/ row' = row
      BY <2>1, FailWrites
    <3>2. Exists(Target(w)) \/ row' = row
      BY <2>1 DEF FailProcessing
    <3> QED
      BY <3>1, <3>2 DEF MoveOf
  <2>2. CASE \E m \in Models : CompleteProcessing(w, m)
    BY <2>2, Completes DEF ghosts
  <2> QED
    BY <2>1, <2>2
<1>2. ~WillFinish(runner[w], x)
  BY <1>1 DEF WillFinish
<1>3. CASE row' = row
  BY <1>1, <1>2, <1>3, SameRowEndsIt
<1>4. CASE \E q \in RowType :
                /\ row' = [row EXCEPT ![Target(w)] = q] /\ Exists(Target(w))
                /\ q.status \in {"indexed", "failed", row[Target(w)].status}
                /\ q.embedding \in {"completed", "failed", row[Target(w)].embedding}
  <2>1. PICK q \in RowType :
                /\ row' = [row EXCEPT ![Target(w)] = q] /\ Exists(Target(w))
                /\ q.status \in {"indexed", "failed", row[Target(w)].status}
                /\ q.embedding \in {"completed", "failed", row[Target(w)].embedding}
    BY <1>4
  <2>2. row'[x] = IF x = Target(w) THEN q ELSE row[x]
    BY <2>1 DEF TypeInv, DataOK, RowsType
  <2>3. Exists(x)' => Exists(x)
    BY <2>1, <2>2 DEF Exists
  <2>4. \A k \in Kinds(x) : StatusOf(row'[x], k) \in Unsettled => StatusOf(row'[x], k) = StatusOf(row[x], k)
    BY <2>1, <2>2 DEF StatusOf, Unsettled
  <2>5. \A v \in Runners : v # w => runner'[v] = runner[v]
    BY <1>1 DEF TypeInv, RunnersOK
  <2> QED
    BY <1>1, <1>2, <2>3, <2>4, <2>5, RunnerEndsIt
<1> QED
  BY <1>1, <1>3, <1>4

(* A job that sets PROCESSING will end it *)
LEMMA StartJobEndsIt ==
    ASSUME TypeInv, NEW x \in Rows, EndInv(x), NEW w \in Runners, NEW m \in Models, StartJob(w, m)
    PROVE  EndInv(x)'
<1>1. PICK r \in RunnerType :
            /\ MoveOf(w, r)
            /\ runner[w].pc = "loaded" /\ runner[w].job \in {"rebuild", "sync"} /\ Target(w) \in Rows
            /\ \/ /\ Exists(Target(w)) /\ r.pc = "list" /\ r.job = runner[w].job
                  /\ \E q \in RowType :
                        /\ row' = [row EXCEPT ![Target(w)] = q]
                        /\ q.status = row[Target(w)].status
                        /\ q.embedding = IF "processing" # Loaded(w).embedding THEN "processing"
                                         ELSE row[Target(w)].embedding
               \/ ~Exists(Target(w)) /\ row' = row
  BY JobStarts
<1>2. /\ runner' = [runner EXCEPT ![w] = r] /\ UNCHANGED <<request, lost>>
      /\ r.pc = "idle" \/ r.row = Target(w)
  BY <1>1 DEF MoveOf
<1>3. ~WillFinish(runner[w], x)
  BY <1>1 DEF WillFinish
<1>4. CASE row' = row
  BY <1>2, <1>3, <1>4, SameRowEndsIt
<1>5. ASSUME Exists(Target(w)), r.pc = "list", r.job = runner[w].job, NEW q \in RowType,
             row' = [row EXCEPT ![Target(w)] = q], q.status = row[Target(w)].status,
             q.embedding = IF "processing" # Loaded(w).embedding THEN "processing"
                           ELSE row[Target(w)].embedding
      PROVE  EndInv(x)'
  <2>1. row'[x] = IF x = Target(w) THEN q ELSE row[x]
    BY <1>5 DEF TypeInv, DataOK, RowsType
  <2>2. Exists(x)' => Exists(x)
    BY <1>5, <2>1 DEF Exists
  <2>3. x = Target(w) => WillFinish(runner'[w], x)
    BY <1>1, <1>2, <1>5 DEF WillFinish, TypeInv, RunnersOK
  <2>4. \A k \in Kinds(x) :
            \/ StatusOf(row'[x], k) = StatusOf(row[x], k)
            \/ x = Target(w) /\ k # "process" /\ StatusOf(row'[x], k) = "processing"
    BY <1>5, <2>1 DEF StatusOf
  <2>5. \A v \in Runners : v # w => runner'[v] = runner[v]
    BY <1>2 DEF TypeInv, RunnersOK
  <2> QED
    BY <1>2, <1>3, <2>2, <2>3, <2>4, <2>5, RunnerEndsIt
<1> QED
  BY <1>1, <1>4, <1>5

(* A job at work stays so until it reads the row; what it reads then is not *)
(* the outcome it is to write, when the row is PROCESSING                   *)
LEMMA WorkEndsIt ==
    ASSUME TypeInv, NEW x \in Rows, EndInv(x), NEW w \in Runners,
           ListRebuild(w) \/ ListSync(w) \/ Embedding(w) \/ Insert(w)
    PROVE  EndInv(x)'
<1>1. PICK r \in RunnerType :
        /\ MoveOf(w, r) /\ row' = row
        /\ r.pc \in {"next", "embedded", "insert", "cancelled", "raised"}
  BY RebuildLists, SyncLists, Embeds, Inserts
<1>2. /\ runner' = [runner EXCEPT ![w] = r] /\ UNCHANGED <<request, lost>>
      /\ r.row = Target(w) /\ r.job = runner[w].job
  BY <1>1 DEF MoveOf
<1>3. WillFinish(runner[w], x) => WillFinish(r, x)
  BY <1>1, <1>2 DEF WillFinish, Target
<1> QED
  BY <1>1, <1>2, <1>3, SameRowEndsIt

LEMMA ReadEndsIt ==
    ASSUME TypeInv, NEW x \in Rows, EndInv(x), NEW w \in Runners, RefreshRow(w) \/ ReadRow(w)
    PROVE  EndInv(x)'
<1>1. /\ UNCHANGED <<row, request, lost>>
      /\ \E r : runner' = [runner EXCEPT ![w] = r]
  BY DEF RefreshRow, ReadRow, GoTo, Ack, data, ghosts
<1>2. ASSUME Exists(x), row[x].embedding = "processing", WillFinish(runner[w], x)
      PROVE  WillFinish(runner'[w], x)
  <2>1. Target(w) = x /\ runner[w].row = x /\ runner[w].job # "process" /\ ~CancelSeen(x)
    BY <1>2 DEF WillFinish, Target, CancelSeen, Cancelled
  <2>2. runner[w] \in RunnerType /\ runner \in [Runners -> RunnerType]
    BY DEF TypeInv, RunnersOK
  <2>3. CASE RefreshRow(w)
    <3>1. runner' = [runner EXCEPT ![w].seen = row[x], ![w].pc = "mark"]
      BY <1>2, <2>1, <2>3 DEF RefreshRow
    <3>2. /\ runner'[w].seen = row[x] /\ runner'[w].pc = "mark" /\ runner'[w].row = x
          /\ runner'[w].job = runner[w].job
      BY <2>1, <2>2, <3>1 DEF RunnerType
    <3> QED
      BY <1>2, <2>1, <3>2 DEF WillFinish
  <2>4. CASE ReadRow(w)
    <3>1. PICK pc \in {"write_failed", "write_cancelled"} :
            runner' = [runner EXCEPT ![w].seen = row[x], ![w].pc = pc]
      BY <1>2, <2>1, <2>4 DEF ReadRow
    <3>2. /\ runner'[w].seen = row[x] /\ runner'[w].pc = pc /\ runner'[w].row = x
          /\ runner'[w].job = runner[w].job
      BY <2>1, <2>2, <3>1 DEF RunnerType
    <3> QED
      BY <1>2, <2>1, <3>1, <3>2 DEF WillFinish
  <2> QED
    BY <2>3, <2>4
<1>3. PICK r : runner' = [runner EXCEPT ![w] = r]
  BY <1>1
<1>4. runner'[w] = r
  BY <1>3 DEF TypeInv, RunnersOK
<1> QED
  BY <1>1, <1>2, <1>3, <1>4, SameRowEndsIt

(* The outcome is written unless the job has read it: either way it ends no *)
(* PROCESSING that is left                                                  *)
LEMMA WroteOutcome ==
    ASSUME TypeInv, NEW x \in Rows, EndInv(x), NEW w \in Runners, NEW n, NEW r,
           Flush(Target(w), Loaded(w), n), Target(w) \in Rows,
           n.status = Loaded(w).status, n.embedding \in {"completed", "failed", "cancelled"},
           n.embedding = Loaded(w).embedding => ~WillFinish(runner[w], x),
           runner' = [runner EXCEPT ![w] = r], request' = request, lost' = lost
    PROVE  EndInv(x)'
<1>1. /\ Exists(Target(w)) /\ \A y \in Rows : y # Target(w) => row'[y] = row[y]
      /\ row'[Target(w)].status = row[Target(w)].status
      /\ row'[Target(w)].embedding = IF n.embedding # Loaded(w).embedding THEN n.embedding
                                     ELSE row[Target(w)].embedding
  BY FlushFields
<1>2. CASE x # Target(w)
  <2>1. row'[x] = row[x] /\ ~WillFinish(runner[w], x)
    BY <1>1, <1>2 DEF WillFinish, Target
  <2> QED
    BY <2>1, SameRowEndsIt
<1>3. CASE x = Target(w)
  <2>1. \A k \in Kinds(x) : StatusOf(row'[x], k) \in Unsettled =>
            /\ Exists(x) /\ StatusOf(row'[x], k) = StatusOf(row[x], k)
            /\ k # "process" => ~WillFinish(runner[w], x)
    BY <1>1, <1>3 DEF StatusOf, Unsettled
  <2>2. \A v \in Runners : v # w => runner'[v] = runner[v]
    BY DEF TypeInv, RunnersOK
  <2> QED
    BY <2>1, <2>2, RunnerEndsIt
<1> QED
  BY <1>2, <1>3

LEMMA MarkEndsIt ==
    ASSUME TypeInv, NEW x \in Rows, EndInv(x), NEW w \in Runners,
           MarkCurrent(w) \/ MarkProject(w)
    PROVE  EndInv(x)'
<1>1. /\ runner[w].pc \in {"mark", "mark_project"} /\ UNCHANGED <<request, lost>>
      /\ \E r : runner' = [runner EXCEPT ![w] = r]
  BY DEF MarkCurrent, MarkProject, Is, Ack, GoTo, ghosts
<1>2. PICK r : runner' = [runner EXCEPT ![w] = r]
  BY <1>1
<1>3. PICK s : s = Loaded(w)
  OBVIOUS
<1>4. /\ s \in RowType /\ s = runner[w].seen /\ Target(w) \in Rows /\ runner[w].row = Target(w)
      /\ runner[w].job \in {"rebuild", "sync"}
      /\ runner[w].job = "sync" => Target(w) = Project
  BY <1>1, <1>3, JobAt, RunnerAt DEF JobPc
<1>5. s.embedding = "completed" => ~WillFinish(runner[w], x)
  BY <1>1, <1>4 DEF WillFinish
<1>6. CASE MarkCurrent(w) /\ Exists(Target(w))
  <2>1. PICK n : n = [s EXCEPT !.embedding = "completed", !.model = runner[w].model, !.task = None]
    OBVIOUS
  <2>2. Flush(Target(w), Loaded(w), n)
    BY <1>3, <1>6, <2>1 DEF MarkCurrent
  <2>3. n.status = s.status /\ n.embedding = "completed"
    BY <1>4, <2>1 DEF RowType
  <2> QED
    BY <1>1, <1>2, <1>3, <1>4, <1>5, <2>2, <2>3, WroteOutcome
<1>7. CASE MarkProject(w) /\ Exists(Project)
  <2>1. PICK n : n = [s EXCEPT !.embedding = "completed", !.task = None]
    OBVIOUS
  <2>2. runner[w].pc = "mark_project" /\ Flush(Project, Loaded(w), n)
    BY <1>3, <1>7, <2>1 DEF MarkProject, Is
  <2>3. Target(w) = Project
    BY <1>4, <2>2, RunnerAt DEF RunnerOK
  <2>4. n.status = s.status /\ n.embedding = "completed"
    BY <1>4, <2>1 DEF RowType
  <2> QED
    BY <1>1, <1>2, <1>3, <1>4, <1>5, <2>2, <2>3, <2>4, WroteOutcome
<1>8. CASE row' = row /\ GoTo(w, "raised")
  <2>2. runner[w] \in RunnerType /\ runner \in [Runners -> RunnerType]
    BY DEF TypeInv, RunnersOK
  <2>3. /\ runner'[w].pc = "raised" /\ runner'[w].row = runner[w].row /\ runner'[w].job = runner[w].job
        /\ runner'[w] = r
    BY <1>2, <1>8, <2>2 DEF GoTo, RunnerType
  <2>4. WillFinish(runner[w], x) => WillFinish(r, x)
    BY <2>3 DEF WillFinish
  <2> QED
    BY <1>1, <1>2, <1>8, <2>4, SameRowEndsIt
<1>9. CASE MarkCurrent(w)
  <2>1. CASE Exists(Target(w))
    BY <1>6, <1>9, <2>1
  <2>2. CASE ~Exists(Target(w))
    BY <1>8, <1>9, <2>2 DEF MarkCurrent
  <2> QED
    BY <2>1, <2>2
<1>10. CASE MarkProject(w)
  <2>1. CASE Exists(Project)
    BY <1>7, <1>10, <2>1
  <2>2. CASE ~Exists(Project)
    BY <1>8, <1>10, <2>2 DEF MarkProject
  <2> QED
    BY <2>1, <2>2
<1> QED
  BY <1>9, <1>10

LEMMA WriteOutcomeEndsIt ==
    ASSUME TypeInv, NEW x \in Rows, EndInv(x), NEW w \in Runners, WriteOutcome(w)
    PROVE  EndInv(x)'
<1>1. /\ runner[w].pc \in {"write_failed", "write_cancelled"} /\ UNCHANGED <<request, lost>>
      /\ runner' = [runner EXCEPT ![w] = IdleRunner]
  BY DEF WriteOutcome, Is, Ack, ghosts
<1>2. PICK s : s = Loaded(w)
  OBVIOUS
<1>3. s \in RowType /\ s = runner[w].seen /\ Target(w) \in Rows /\ runner[w].row = Target(w)
  BY <1>1, <1>2, JobAt, RunnerAt DEF JobPc
<1>4. PICK st : st = IF Is(w, "write_failed") THEN Failed ELSE "cancelled"
  OBVIOUS
<1>5. st \in {"failed", "cancelled"} /\ (s.embedding = st => ~WillFinish(runner[w], x))
  BY <1>1, <1>3, <1>4 DEF Is, Failed, WillFinish
<1>6. CASE Exists(Target(w))
  <2>1. PICK n : n = [s EXCEPT !.task = None, !.embedding = st]
    OBVIOUS
  <2>2. Flush(Target(w), Loaded(w), n)
    BY <1>2, <1>4, <1>6, <2>1 DEF WriteOutcome
  <2>3. n.status = s.status /\ n.embedding = st
    BY <1>3, <2>1 DEF RowType
  <2> QED
    BY <1>1, <1>2, <1>3, <1>5, <2>2, <2>3, WroteOutcome
<1>7. CASE ~Exists(Target(w))
  <2>1. row' = row
    BY <1>7 DEF WriteOutcome
  <2>2. ~(Exists(x) /\ WillFinish(runner[w], x))
    BY <1>3, <1>7 DEF WillFinish
  <2> QED
    BY <1>1, <2>1, <2>2, SameRowEndsIt
<1> QED
  BY <1>6, <1>7

LEMMA MarkDocumentsEndsIt ==
    ASSUME TypeInv, NEW x \in Rows, EndInv(x), NEW w \in Runners, MarkDocuments(w)
    PROVE  EndInv(x)'
<1>1. PICK r \in RunnerType :
            /\ MoveOf(w, r) /\ runner[w].pc = "mark" /\ Target(w) = Project
            /\ r.pc = "mark_project" /\ row'[Project] = row[Project]
            /\ \A d \in Docs : chunks[d] = {} => row'[d] = row[d]
            /\ \A d \in Docs : chunks[d] # {} =>
                    row'[d].embedding = "completed" /\ row'[d].status = row[d].status
  BY MarksDocuments
<1>2. /\ runner' = [runner EXCEPT ![w] = r] /\ UNCHANGED <<request, lost>> /\ RowsKept
      /\ r.job = runner[w].job /\ r.row = Target(w)
  BY <1>1 DEF MoveOf
<1>3. CASE row'[x] = row[x]
  <2>1. runner[w] \in RunnerType /\ runner \in [Runners -> RunnerType]
    BY DEF TypeInv, RunnersOK
  <2>2. GoTo(w, "mark_project")
    BY DEF MarkDocuments
  <2>3. r.seen = runner[w].seen
    BY <1>2, <2>1, <2>2 DEF GoTo, RunnerType
  <2>4. WillFinish(runner[w], x) => WillFinish(r, x)
    BY <1>1, <1>2, <2>3 DEF WillFinish, Target
  <2> QED
    BY <1>2, <1>3, <2>4, SameRowEndsIt
<1>4. CASE row'[x] # row[x]
  <2>1. row'[x].embedding = "completed" /\ row'[x].status = row[x].status /\ x # Project
    BY <1>1, <1>4 DEF Rows
  <2>2. Exists(x)' => Exists(x)
    BY <1>2 DEF RowsKept
  <2>3. \A k \in Kinds(x) : StatusOf(row'[x], k) \in Unsettled =>
            StatusOf(row'[x], k) = StatusOf(row[x], k) /\ k = "process"
    BY <2>1 DEF StatusOf, Unsettled
  <2>4. \A v \in Runners : v # w => runner'[v] = runner[v]
    BY <1>2 DEF TypeInv, RunnersOK
  <2> QED
    BY <1>2, <2>2, <2>3, <2>4, RunnerEndsIt
<1> QED
  BY <1>3, <1>4

LEMMA StopsEndIt ==
    ASSUME TypeInv, NEW x \in Rows, EndInv(x), NEW R \in SUBSET Runners, Stops(R)
    PROVE  EndInv(x)'
<1>1. /\ \A v \in Runners : runner'[v] = IF v \in R THEN IdleRunner ELSE runner[v]
      /\ row' = row /\ lost \subseteq lost'
      /\ \A h \in Handlers : \/ request'[h] = request[h]
                             \/ request'[h] = IdleRequest /\ (At(h, "idle") \/ Row(h) \in lost')
      /\ \A v \in R : \/ Is(v, "idle") \/ Target(v) \in lost' \/ runner[v].job = "process"
  BY DEF Stops
<1>2. SUFFICES ASSUME x \notin lost', Exists(x)', NEW k \in Kinds(x), StatusOf(row'[x], k) \in Unsettled
               PROVE  /\ Withdrawn(x, k)' \/ (StatusOf(row'[x], k) = "processing" /\ Finished(x)')
                      /\ k = "process" => StatusOf(row'[x], k) # "processing"
  BY DEF EndInv, Ended, Kinds, JobOf, StatusOf
<1>3. /\ Withdrawn(x, k) \/ (StatusOf(row[x], k) = "processing" /\ Finished(x))
      /\ k = "process" => StatusOf(row[x], k) # "processing"
  BY <1>1, <1>2 DEF EndInv, Ended, Exists
<1>4. ASSUME Withdrawn(x, k) PROVE Withdrawn(x, k)'
  <2>1. PICK h \in Handlers : Withdraws(request[h], x, k)
    BY <1>4 DEF Withdrawn
  <2>2. request'[h] = request[h]
    BY <1>1, <1>2, <2>1 DEF Withdraws, At, Row
  <2>3. Withdraws(request'[h], x, k)
    BY <2>1, <2>2
  <2> QED
    BY <2>3 DEF Withdrawn, Withdraws, Cancels, StatusOf
<1>5. ASSUME Finished(x) PROVE Finished(x)'
  <2>1. PICK w \in Runners : WillFinish(runner[w], x)
    BY <1>5 DEF Finished
  <2>2. w \notin R
    BY <1>1, <1>2, <2>1 DEF WillFinish, Is, Target
  <2>3. WillFinish(runner'[w], x)
    BY <1>1, <2>1, <2>2
  <2> QED
    BY <2>3 DEF Finished, WillFinish
<1> QED
  BY <1>1, <1>3, <1>4, <1>5

LEMMA UploadEndsIt ==
    ASSUME TypeInv, NEW x \in Rows, EndInv(x), NEW d \in Docs, Upload(d)
    PROVE  EndInv(x)'
<1>1. row' = [row EXCEPT ![d] = Uploaded] /\ UNCHANGED <<runner, request, lost>>
  BY DEF Upload, ghosts
<1>2. row'[x] = IF x = d THEN Uploaded ELSE row[x]
  BY <1>1 DEF TypeInv, DataOK, RowsType
<1>3. \A k : StatusOf(Uploaded, k) \notin Unsettled
  BY DEF StatusOf, Uploaded, FreshRow, Unsettled
<1>4. \A k \in Kinds(x) : StatusOf(row'[x], k) \in Unsettled => row'[x] = row[x]
  BY <1>2, <1>3
<1>5. CASE row'[x] = row[x]
  BY <1>1, <1>5 DEF EndInv, Ended, Withdrawn, Withdraws, Cancels, StatusOf, Finished, WillFinish, Exists,
                   Kinds, JobOf
<1>6. CASE row'[x] # row[x]
  BY <1>4, <1>6 DEF EndInv, Ended, StatusOf, Kinds, JobOf
<1> QED
  BY <1>5, <1>6

LEMMA NextEndsIt ==
    ASSUME TypeInv, NEW x \in Rows, EndInv(x), ~Overtaken(x), [Next]_vars
    PROVE  EndInv(x)'
<1>1. ASSUME NEW h \in Handlers, Asking(h) \/ HandlerStep(h)
      PROVE  EndInv(x)'
  <2>1. CASE Writing(h)
    BY <2>1, WriteEndsIt
  <2>2. CASE Revoking(h)
    BY <2>2, RevokeEndsIt
  <2>3. CASE \/ Asking(h) \/ Enqueue(h) \/ ToolRefused(h) \/ RowGone(h)
             \/ DeleteCommit(h) \/ DeleteProject(h)
    BY <2>3, HandlerEndsIt
  <2>4. CASE \E s \in Slots : Spawn(h, s)
    BY <2>4, SpawnEndsIt
  <2> QED
    BY <1>1, <2>1, <2>2, <2>3, <2>4, HandlerSteps
<1>2. CASE \E d \in Docs : Upload(d)
  BY <1>2, UploadEndsIt
<1>3. ASSUME NEW w \in Runners, RunnerStep(w)
      PROVE  EndInv(x)'
  <2>1. CASE (\E t \in Tasks : Taking(w, t)) \/ StartProcessing(w) \/ ProcessRaises(w) \/ FailRefresh(w)
    BY <2>1, ProcessEndsIt
  <2>2. CASE FailProcessing(w) \/ \E m \in Models : CompleteProcessing(w, m)
    BY <2>2, OutcomeEndsIt
  <2>3. CASE \E m \in Models : StartJob(w, m)
    BY <2>3, StartJobEndsIt
  <2>4. CASE ListRebuild(w) \/ ListSync(w) \/ Embedding(w) \/ Insert(w)
    BY <2>4, WorkEndsIt
  <2>5. CASE RefreshRow(w) \/ MarkCurrent(w) \/ MarkDocuments(w) \/ Closing(w)
    BY <2>5, ReadEndsIt, MarkEndsIt, MarkDocumentsEndsIt, WriteOutcomeEndsIt DEF Closing
  <2> QED
    BY <1>3, <2>1, <2>2, <2>3, <2>4, <2>5, RunnerSteps DEF Moving
<1>4. CASE Fault
  BY <1>4, FaultStops, StopsEndIt
<1>5. CASE UNCHANGED vars
  BY <1>5 DEF vars, data, ghosts, EndInv, Ended, Withdrawn, Withdraws, Cancels, StatusOf, Finished,
              WillFinish, Exists, Kinds, JobOf
<1> QED
  BY <1>1, <1>2, <1>3, <1>4, <1>5, NextSteps

LEMMA InitEndsIt ==
    ASSUME Init, NEW x \in Rows
    PROVE  EndInv(x)
<1>1. PICK past, ids, first : Started(past, ids, first)
  BY Starts0
<1>2. ASSUME Exists(x)
      PROVE  row[x].status \notin Unsettled /\ row[x].embedding \notin Unsettled
  <2>1. CASE x = Project
    BY <1>1, <2>1 DEF Started, Uploaded, FreshRow, Rows, Unsettled
  <2>2. CASE x # Project
    <3>1. x \in Docs /\ row[x] = Past(past[x], first) /\ past[x] \in Histories
      BY <1>1, <2>2 DEF Started, Rows
    <3>2. past[x] # "unborn"
      BY <1>2, <3>1 DEF Exists, Past
    <3> QED
      BY <3>1, <3>2 DEF Past, Histories, FreshRow, Unsettled
  <2> QED
    BY <2>1, <2>2
<1> QED
  BY <1>2 DEF EndInv, Ended, StatusOf

(* For any documents, requests, tasks and faults, while no cancellation     *)
(* overtakes another (Overtaken) on a document or project whose job was not *)
(* lost: PROCESSING is never a committed status of the document, a row      *)
(* CANCELLING has a cancellation that has still to write CANCELLED, and an  *)
(* embedding status PROCESSING has such a cancellation or a job that is to  *)
(* write its outcome over it, whatever other jobs finished, failed, were    *)
(* cancelled or were killed meanwhile.  A QUEUED row has a request, a       *)
(* message or a runner (QueuedRowsAreScheduled): no busy status is left     *)
(* behind, which with the fairness of FairSpec is why everything settles.   *)
THEOREM BusyRowsAreCarried ==
    ASSUME NEW x \in Rows
    PROVE  Spec /\ []~Overtaken(x) =>
             [](x \notin lost /\ Exists(x) =>
                  /\ row[x].status # "processing"
                  /\ row[x].status = "cancelling" => Withdrawn(x, "process")
                  /\ row[x].embedding = "cancelling" => Withdrawn(x, JobOf(x))
                  /\ row[x].embedding = "processing" => Withdrawn(x, JobOf(x)) \/ Finished(x))
<1> DEFINE Carried == x \notin lost /\ Exists(x) =>
                        /\ row[x].status # "processing"
                        /\ row[x].status = "cancelling" => Withdrawn(x, "process")
                        /\ row[x].embedding = "cancelling" => Withdrawn(x, JobOf(x))
                        /\ row[x].embedding = "processing" => Withdrawn(x, JobOf(x)) \/ Finished(x)
<1>1. Init => TypeInv /\ EndInv(x)
  BY InitType, InitEndsIt
<1>2. TypeInv /\ EndInv(x) /\ ~Overtaken(x) /\ [Next]_vars => TypeInv' /\ EndInv(x)'
  BY NextType, NextEndsIt
<1>3. EndInv(x) => Carried
  BY DEF EndInv, Ended, Kinds, StatusOf, Unsettled, JobOf
<1> HIDE DEF Carried
<1>4. Spec /\ []~Overtaken(x) => []Carried
  BY <1>1, <1>2, <1>3, PTL DEF Spec
<1> QED
  BY <1>4 DEF Carried

(* When no message waits and no request or runner is at work, every row     *)
(* whose job was not lost, and on which no cancellation overtook another,   *)
(* is at rest: EverythingSettles can fail only by a step that is never      *)
(* taken.                                                                   *)
THEOREM IdleMeansSettled ==
    ASSUME NEW x \in Rows
    PROVE  Spec /\ []~Overtaken(x) =>
             [](/\ x \notin lost /\ queued = {}
                /\ \A h \in Handlers : At(h, "idle")
                /\ \A w \in Runners : Is(w, "idle")
                => Settled(x))
<1> DEFINE Idle == /\ x \notin lost /\ queued = {}
                   /\ \A h \in Handlers : At(h, "idle")
                   /\ \A w \in Runners : Is(w, "idle")
<1>1. Init => TypeInv /\ EndInv(x) /\ QueueInv
  BY InitType, InitEndsIt, InitQueue
<1>2. TypeInv /\ EndInv(x) /\ QueueInv /\ ~Overtaken(x) /\ [Next]_vars => TypeInv' /\ EndInv(x)' /\ QueueInv'
  BY NextType, NextEndsIt, NextQueue
<1>3. EndInv(x) /\ QueueInv => (Idle => Settled(x))
  <2> SUFFICES ASSUME EndInv(x), QueueInv, Idle, Exists(x)
               PROVE  row[x].status \notin Busy /\ row[x].embedding \notin Busy
    BY DEF Settled
  <2>1. \A k : ~Withdrawn(x, k) /\ ~Finished(x)
    BY DEF Withdrawn, Withdraws, Finished, WillFinish, At, Is
  <2>2. \A k \in Kinds(x) : StatusOf(row[x], k) \notin Unsettled
    BY <2>1 DEF EndInv, Ended
  <2>3. \A k : ~SafelyQueued(x, k)
    BY DEF SafelyQueued, WillAct, WillEnd, At, Is
  <2>4. \A k \in Kinds(x) : StatusOf(row[x], k) # "queued"
    BY <2>3 DEF QueueInv
  <2>5. "process" \in Kinds(x) /\ JobOf(x) \in Kinds(x) /\ JobOf(x) # "process"
    BY DEF Kinds, JobOf
  <2>6. row[x].status \notin Unsettled \cup {"queued"} /\ row[x].embedding \notin Unsettled \cup {"queued"}
    BY <2>2, <2>4, <2>5 DEF StatusOf
  <2> QED
    BY <2>6 DEF Busy, Unsettled
<1> HIDE DEF Idle
<1>4. Spec /\ []~Overtaken(x) => [](Idle => Settled(x))
  BY <1>1, <1>2, <1>3, PTL DEF Spec
<1> QED
  BY <1>4 DEF Idle

-----------------------------------------------------------------------------
(* COMPLETED covers the chunks *)

(* What a step does to a document at most, when no job finishes or restarts on it *)
Gentle(d) ==
    /\ row'[d] = Unborn => row[d] = Unborn
    /\ Exists(d)' =>
        /\ Exists(d) /\ chunks'[d] = chunks[d]
        /\ \A c \in chunks[d] : \A m : <<c, m>> \in vectors => <<c, m>> \in vectors'
        /\ row'[d].model = row[d].model
        /\ row'[d].embedding = "completed" => row[d].embedding = "completed"

LEMMA GentleSame ==
    ASSUME NEW d, row'[d] = row[d], chunks'[d] = chunks[d],
           \A c \in chunks[d] : \A m : <<c, m>> \in vectors => <<c, m>> \in vectors'
    PROVE  Gentle(d)
BY DEF Gentle, Exists

LEMMA CoveredStays ==
    ASSUME NEW d, Covered(d), Gentle(d)
    PROVE  Covered(d)'
BY DEF Covered, Gentle

LEMMA ProgressStays ==
    ASSUME NEW r, NEW d, Progress(r, d), Gentle(d)
    PROVE  Progress(r, d)'
BY DEF Progress, Gentle

LEMMA CoverAt ==
    ASSUME CoverInv, mixed \subseteq mixed', NEW d \in Docs \ mixed'
    PROVE  Alone(d) /\ Covered(d) /\ \A w \in Runners : Progress(runner[w], d)
BY DEF CoverInv

LEMMA CoverBy ==
    ASSUME \A d \in Docs \ mixed' : Alone(d)' /\ Covered(d)' /\ \A w \in Runners : Progress(runner[w], d)'
    PROVE  CoverInv'
BY DEF CoverInv

LEMMA ProgressOf ==
    ASSUME NEW w, NEW r, NEW d, runner'[w] = r, Progress(r, d)'
    PROVE  Progress(runner[w], d)'
BY DEF Progress, Exists

LEMMA ProgressIdle ==
    ASSUME NEW w, NEW d, runner'[w].pc = "idle" \/ (runner'[w].row # d /\ runner'[w].row # Project)
    PROVE  Progress(runner[w], d)'
BY DEF Progress

(* Steps of requests, and of processes that stop *)
LEMMA CoverStays ==
    ASSUME CoverInv, mixed \subseteq mixed',
           \A v \in Runners : runner'[v] = runner[v] \/ runner'[v].pc = "idle",
           \A d \in Docs \ mixed' : Gentle(d)
    PROVE  CoverInv'
<1>1. ASSUME NEW d \in Docs \ mixed'
      PROVE  Alone(d)' /\ Covered(d)' /\ \A w \in Runners : Progress(runner[w], d)'
  <2>1. Alone(d) /\ Covered(d) /\ Gentle(d) /\ \A w \in Runners : Progress(runner[w], d)
    BY CoverAt
  <2>2. Alone(d)'
    BY <2>1 DEF Alone, Holds, Is, Target
  <2>3. ASSUME NEW w \in Runners
        PROVE  Progress(runner[w], d)'
    <3>1. CASE runner'[w].pc = "idle"
      BY <3>1, ProgressIdle
    <3>2. CASE runner'[w] = runner[w]
      <4>1. PICK r : r = runner[w]
        OBVIOUS
      <4>2. Progress(r, d)'
        BY <2>1, <4>1, ProgressStays
      <4> QED
        BY <3>2, <4>1, <4>2, ProgressOf
    <3> QED
      BY <3>1, <3>2
  <2> QED
    BY <2>1, <2>2, <2>3, CoveredStays
<1> QED
  BY <1>1, CoverBy

(* Runner w goes on as r, or ends *)
Becomes(w, r) ==
    /\ runner[w].pc # "idle" /\ runner' = [runner EXCEPT ![w] = r] /\ mixed \subseteq mixed'
    /\ \/ r.pc = "idle"
       \/ /\ r.row = Target(w) /\ r.job = runner[w].job
          /\ r.job = "process" \/ r.force = runner[w].force

LEMMA RunnerCover ==
    ASSUME TypeInv, CoverInv, NEW w \in Runners, NEW r \in RunnerType, Becomes(w, r),
           \A d \in Docs \ mixed' : ~Holds(w, d) => Gentle(d),
           \A d \in Docs \ mixed' : Holds(w, d) => Covered(d)' /\ Progress(r, d)'
    PROVE  CoverInv'
<1>1. \A v \in Runners : runner'[v] = IF v = w THEN r ELSE runner[v]
  BY DEF Becomes, TypeInv, RunnersOK
<1>2. ASSUME NEW d \in Docs \ mixed'
      PROVE  Alone(d)' /\ Covered(d)' /\ \A v \in Runners : Progress(runner[v], d)'
  <2>1. Alone(d) /\ Covered(d) /\ \A v \in Runners : Progress(runner[v], d)
    BY CoverAt DEF Becomes
  <2>2. /\ runner[w].pc # "idle"
        /\ r.pc # "idle" /\ (r.row = d \/ r.row = Project) => Holds(w, d)
    BY DEF Becomes, Holds, Is, Target
  <2>3. \A v \in Runners : Holds(v, d)' => Holds(v, d)
    BY <1>1, <2>2 DEF Holds, Is, Target
  <2>4. Alone(d)'
    BY <2>1, <2>3 DEF Alone
  <2>5. CASE Holds(w, d)
    <3>1. ASSUME NEW v \in Runners, v # w
          PROVE  Progress(runner[v], d)'
      <4>1. runner'[v] = runner[v] /\ ~Holds(v, d)
        BY <1>1, <2>1, <2>5, <3>1 DEF Alone
      <4> QED
        BY <4>1, ProgressIdle DEF Holds, Is, Target
    <3>2. Progress(runner[w], d)'
      BY <1>1, <2>5, ProgressOf
    <3> QED
      BY <2>4, <2>5, <3>1, <3>2
  <2>6. CASE ~Holds(w, d)
    <3>1. Gentle(d)
      BY <2>6
    <3>2. ASSUME NEW v \in Runners, v # w
          PROVE  Progress(runner[v], d)'
      <4>1. PICK q : q = runner[v]
        OBVIOUS
      <4>2. Progress(q, d)'
        BY <2>1, <3>1, <4>1, ProgressStays
      <4> QED
        BY <1>1, <3>2, <4>1, <4>2, ProgressOf
    <3>3. Progress(runner[w], d)'
      BY <1>1, <2>2, <2>6, ProgressIdle
    <3> QED
      BY <2>1, <2>4, <3>1, <3>2, <3>3, CoveredStays
  <2> QED
    BY <2>5, <2>6
<1> QED
  BY <1>2, CoverBy

(* The requests neither say COMPLETED nor change a model *)
LEMMA HandlerCover ==
    ASSUME TypeInv, CoverInv, NEW h \in Handlers,
           Asking(h) \/ Writing(h) \/ Enqueue(h) \/ Revoking(h) \/ ToolRefused(h) \/ RowGone(h)
    PROVE  CoverInv'
<1>1. CASE Asking(h)
  <2>1. UNCHANGED <<row, chunks, vectors, runner, mixed>>
    BY <1>1, Loads DEF LoadOf, data, ghosts
  <2> QED
    BY <2>1, GentleSame, CoverStays
<1>2. CASE Writing(h)
  <2>1. PICK q \in RowType, r \in RequestType : WriteOf(h, q, r)
    BY <1>2, RequestWrites
  <2>2. UNCHANGED <<chunks, vectors, runner, mixed>>
    BY <1>2, RequestWrites DEF ghosts
  <2>3. /\ Exists(Row(h)) /\ row' = [row EXCEPT ![Row(h)] = q] /\ q.model = row[Row(h)].model
        /\ q.embedding = "completed" => row[Row(h)].embedding = "completed"
    BY <2>1 DEF WriteOf
  <2>4. \A x \in Rows : row'[x] = IF x = Row(h) THEN q ELSE row[x]
    BY <2>3 DEF TypeInv, DataOK, RowsType
  <2>5. \A d \in Docs : Gentle(d)
    BY <2>2, <2>3, <2>4, RowIsNot DEF Gentle, Exists, Rows
  <2> QED
    BY <2>2, <2>5, CoverStays
<1>3. CASE Enqueue(h)
  <2>1. UNCHANGED <<row, chunks, vectors, runner, mixed>>
    BY <1>3 DEF Enqueue, data, ghosts
  <2> QED
    BY <2>1, GentleSame, CoverStays
<1>4. CASE Revoking(h)
  <2>1. UNCHANGED <<row, chunks, vectors, mixed>>
    BY <1>4, Revokes
  <2>2. \A v \in Runners : runner'[v] = runner[v] \/ runner'[v].pc = "idle"
    BY <1>4, Revokes DEF Revoke, IdleRunner
  <2> QED
    BY <2>1, <2>2, GentleSame, CoverStays
<1>5. CASE ToolRefused(h) \/ RowGone(h)
  <2>1. UNCHANGED <<row, chunks, vectors, runner, mixed>>
    BY <1>5, Ends DEF Ending, data
  <2> QED
    BY <2>1, GentleSame, CoverStays
<1> QED
  BY <1>1, <1>2, <1>3, <1>4, <1>5

(* A deletion takes the vectors of the chunks it takes, and no other: a      *)
(* chunk belongs to one document.                                           *)
LEMMA DeleteCover ==
    ASSUME TypeInv, CoverInv, NEW h \in Handlers, DeleteCommit(h) \/ DeleteProject(h)
    PROVE  CoverInv'
<1>1. PICK ds \in SUBSET Rows :
            /\ \A x \in ds : Exists(x)
            /\ row' = [x \in Rows |-> IF x \in ds THEN None ELSE row[x]]
            /\ chunks' = [d \in Docs |-> IF d \in ds THEN {} ELSE chunks[d]]
            /\ vectors' = vectors \ DeleteForDocument(OfDocs(ds \cap Docs))
            /\ UNCHANGED <<locked, broker, runner, asked, ghosts>>
  BY Deletes
<1>2. runner' = runner /\ mixed' = mixed
  BY <1>1 DEF ghosts
<1>3. ASSUME NEW d \in Docs
      PROVE  Gentle(d)
  <2>1. CASE d \in ds
    BY <1>1, <2>1, DocumentsAssumption DEF Gentle, Exists, Rows
  <2>2. CASE d \notin ds
    <3>1. row'[d] = row[d] /\ chunks'[d] = chunks[d]
      BY <1>1, <2>2 DEF Rows
    <3>2. \A c \in chunks[d] : c \notin OfDocs(ds \cap Docs)
      BY <2>2 DEF TypeInv, DataOK, OfDocs
    <3>3. \A c \in chunks[d] : \A m : <<c, m>> \in vectors => <<c, m>> \in vectors'
      BY <1>1, <3>2 DEF DeleteForDocument
    <3> QED
      BY <3>1, <3>3, GentleSame
  <2> QED
    BY <2>1, <2>2
<1> QED
  BY <1>2, <1>3, CoverStays

(* A document that is uploaded has no chunks, and only a sync can hold it yet *)
LEMMA UploadCover ==
    ASSUME TypeInv, CoverInv, NEW d \in Docs, Upload(d)
    PROVE  CoverInv'
<1>1. /\ row[d] = Unborn /\ row' = [row EXCEPT ![d] = Uploaded]
      /\ UNCHANGED <<chunks, vectors, runner, mixed>>
  BY DEF Upload, ghosts
<1>2. \A x \in Rows : row'[x] = IF x = d THEN Uploaded ELSE row[x]
  BY <1>1 DEF TypeInv, DataOK, RowsType
<1>3. Uploaded \in RowType /\ Uploaded.embedding = "pending" /\ d \in Rows
  BY DEF Uploaded, FreshRow, RowType, DocumentStatus, EmbeddingStatus, Rows
<1>4. chunks[d] = {}
  BY <1>1 DEF TypeInv, DataOK, Exists
<1>5. ASSUME NEW e \in Docs \ mixed'
      PROVE  Alone(e)' /\ Covered(e)' /\ \A w \in Runners : Progress(runner[w], e)'
  <2>1. Alone(e) /\ Covered(e) /\ \A w \in Runners : Progress(runner[w], e)
    BY <1>1, CoverAt
  <2>2. Alone(e)'
    BY <1>1, <2>1 DEF Alone, Holds, Is, Target
  <2>3. CASE e # d
    <3>1. Gentle(e)
      BY <1>1, <1>2, <2>3, GentleSame DEF Rows
    <3>2. ASSUME NEW w \in Runners
          PROVE  Progress(runner[w], e)'
      <4>1. PICK r : r = runner[w]
        OBVIOUS
      <4>2. Progress(r, e)'
        BY <2>1, <3>1, <4>1, ProgressStays
      <4> QED
        BY <1>1, <4>1, <4>2, ProgressOf
    <3> QED
      BY <2>1, <2>2, <3>1, <3>2, CoveredStays
  <2>4. CASE e = d
    <3>1. row'[e] = Uploaded /\ chunks'[e] = {}
      BY <1>1, <1>2, <1>3, <1>4, <2>4
    <3>2. Covered(e)'
      BY <1>3, <3>1 DEF Covered
    <3>3. ASSUME NEW w \in Runners
          PROVE  Progress(runner[w], e)'
      <4>1. PICK r : r = runner[w]
        OBVIOUS
      <4>2. CASE r.pc # "idle" /\ r.row = Project
        <5>1. r.job = "sync" /\ r.row # e
          BY <4>1, <4>2, RunnerAt, DocumentsAssumption DEF RunnerOK
        <5>2. ~r.force
          BY <2>1, <4>1, <4>2, <5>1 DEF Progress
        <5>3. Progress(r, e)'
          BY <3>1, <5>1, <5>2 DEF Progress
        <5> QED
          BY <1>1, <4>1, <5>3, ProgressOf
      <4>3. CASE r.pc # "idle" /\ r.row = e
        BY <1>1, <2>1, <2>4, <4>1, <4>3 DEF Progress
      <4>4. CASE ~(r.pc # "idle" /\ (r.row = Project \/ r.row = e))
        <5>1. runner'[w] = r
          BY <1>1, <4>1
        <5> QED
          BY <4>4, <5>1, ProgressIdle
      <4> QED
        BY <4>2, <4>3, <4>4
    <3> QED
      BY <2>2, <3>2, <3>3
  <2> QED
    BY <2>3, <2>4
<1> QED
  BY <1>5, CoverBy

LEMMA StopsCover ==
    ASSUME TypeInv, CoverInv, NEW R \in SUBSET Runners, Stops(R)
    PROVE  CoverInv'
<1>1. /\ UNCHANGED <<row, chunks, vectors, mixed>>
      /\ \A v \in Runners : runner'[v] = runner[v] \/ runner'[v].pc = "idle"
  BY DEF Stops, IdleRunner
<1> QED
  BY <1>1, GentleSame, CoverStays

(* A job that starts on a document that another holds is noted as an overlap *)
LEMMA BeginCover ==
    ASSUME TypeInv, CoverInv, NEW w \in Runners, NEW r \in RunnerType, Is(w, "idle"), RunnerOK(w, r),
           runner' = [runner EXCEPT ![w] = r], UNCHANGED <<row, chunks, vectors>>,
           NEW x \in Rows, NoteOverlap(w, x), Exists(x), r.pc = "loaded", r.row = x, r.seen = row[x],
           r.job = "rebuild" => row[x].embedding = "queued", r.job = "sync" => ~r.force
    PROVE  CoverInv'
<1>1. \A v \in Runners : runner'[v] = IF v = w THEN r ELSE runner[v]
  BY DEF TypeInv, RunnersOK
<1>2. mixed \subseteq mixed'
  BY DEF NoteOverlap
<1>3. ASSUME NEW d \in Docs \ mixed'
      PROVE  Alone(d)' /\ Covered(d)' /\ \A v \in Runners : Progress(runner[v], d)'
  <2>1. Alone(d) /\ Covered(d) /\ \A v \in Runners : Progress(runner[v], d)
    BY <1>2, <1>3, CoverAt
  <2>2. Gentle(d)
    BY GentleSame
  <2>3. (x = d \/ x = Project) => \A v \in Runners \ {w} : ~Holds(v, d)
    BY <1>3 DEF NoteOverlap
  <2>4. \A v \in Runners : Holds(v, d)' => IF v = w THEN x = d \/ x = Project ELSE Holds(v, d)
    BY <1>1 DEF Holds, Is, Target
  <2>5. Alone(d)'
    BY <2>1, <2>3, <2>4 DEF Alone
  <2>6. ASSUME NEW v \in Runners, v # w
        PROVE  Progress(runner[v], d)'
    <3>1. PICK q : q = runner[v]
      OBVIOUS
    <3>2. Progress(q, d)'
      BY <2>1, <2>2, <3>1, ProgressStays
    <3> QED
      BY <1>1, <2>6, <3>1, <3>2, ProgressOf
  <2>7. Progress(r, d)'
    <3>1. r.job # "sync" => r.row \in Docs
      BY DEF RunnerOK
    <3> QED
      BY <3>1, DocumentsAssumption DEF Progress, Exists
  <2> QED
    BY <1>1, <2>1, <2>2, <2>5, <2>6, <2>7, CoveredStays, ProgressOf
<1> QED
  BY <1>3, CoverBy

LEMMA SpawnCover ==
    ASSUME TypeInv, CoverInv, NEW h \in Handlers, NEW s \in Slots, Spawn(h, s)
    PROVE  CoverInv'
<1>1. /\ Is(s, "idle") /\ Row(h) \in Rows /\ s \in Runners
      /\ UNCHANGED <<row, chunks, vectors>>
  BY Spawns DEF data, Runners
<1>2. CASE Runnable(Row(h))
  <2>1. PICK r \in RunnerType :
            /\ runner' = [runner EXCEPT ![s] = r] /\ RunnerOK(s, r)
            /\ r.pc = "loaded" /\ r.row = Row(h) /\ r.seen = row[Row(h)] /\ (r.job = "sync" => ~r.force)
    BY <1>2, Spawns
  <2>2. NoteOverlap(s, Row(h)) /\ Exists(Row(h)) /\ row[Row(h)].embedding = "queued"
    BY <1>2, Spawns DEF Runnable
  <2> QED
    BY <1>1, <2>1, <2>2, BeginCover
<1>3. CASE ~Runnable(Row(h))
  <2>1. UNCHANGED <<runner, mixed>>
    BY <1>3, Spawns
  <2> QED
    BY <1>1, <2>1, GentleSame, CoverStays
<1> QED
  BY <1>2, <1>3

LEMMA TakeCover ==
    ASSUME TypeInv, CoverInv, NEW w \in Runners, NEW t \in Tasks, Taking(w, t)
    PROVE  CoverInv'
<1>1. Is(w, "idle") /\ target[t] \in Rows /\ UNCHANGED <<row, chunks, vectors>>
  BY Takes
<1>2. CASE ReadyFor(target[t], kind[t])
  <2>1. PICK r \in RunnerType :
            /\ runner' = [runner EXCEPT ![w] = r] /\ RunnerOK(w, r)
            /\ r.pc = "loaded" /\ r.job = kind[t] /\ r.row = target[t] /\ r.seen = row[target[t]]
            /\ (r.job = "sync" => ~r.force)
    BY <1>2, Takes
  <2>2. NoteOverlap(w, target[t]) /\ Exists(target[t])
    BY <1>2, Takes DEF ReadyFor
  <2>3. r.job = "rebuild" => row[target[t]].embedding = "queued"
    BY <1>2, <2>1 DEF ReadyFor, StatusOf
  <2> QED
    BY <1>1, <2>1, <2>2, <2>3, BeginCover
<1>3. CASE ~ReadyFor(target[t], kind[t])
  <2>1. UNCHANGED <<runner, mixed>>
    BY <1>3, Takes
  <2> QED
    BY <1>1, <2>1, GentleSame, CoverStays
<1> QED
  BY <1>2, <1>3

(* Which documents a runner holds *)
LEMMA HeldBy ==
    ASSUME TypeInv, NEW w \in Runners, NEW d \in Docs, runner[w].pc # "idle"
    PROVE  /\ Holds(w, d) <=> Target(w) = d \/ Target(w) = Project
           /\ runner[w].job = "sync" <=> Target(w) = Project
           /\ runner[w].job \in {"process", "rebuild", "sync"} /\ d # Project /\ d \in Rows
BY RunnerAt, DocumentsAssumption DEF Holds, Is, RunnerOK, RunnerType, Rows

(* A step after which no list, load or refreshed row matters any more *)
LEMMA QuietCover ==
    ASSUME TypeInv, CoverInv, NEW w \in Runners, NEW r \in RunnerType, Becomes(w, r),
           \A d \in Docs \ mixed' : Gentle(d),
           r.pc \notin {"loaded", "processing", "next", "embedded", "insert", "mark"},
           runner[w].job = "rebuild" => runner[w].pc # "loaded" \/ r.pc = "idle"
    PROVE  CoverInv'
<1>1. ASSUME NEW d \in Docs \ mixed', Holds(w, d)
      PROVE  Covered(d)' /\ Progress(r, d)'
  <2>1. Covered(d) /\ Progress(runner[w], d) /\ Gentle(d)
    BY CoverAt DEF Becomes
  <2>2. CASE r.pc = "idle"
    BY <2>1, <2>2, CoveredStays DEF Progress
  <2>3. CASE r.pc # "idle"
    <3>1. /\ r.row = Target(w) /\ r.job = runner[w].job /\ (r.job = "process" \/ r.force = runner[w].force)
          /\ runner[w].pc # "idle" /\ (runner[w].row = d \/ runner[w].row = Project)
      BY <1>1, <2>3 DEF Becomes, Holds, Target
    <3>2. /\ r.job = "sync" => ~r.force
          /\ r.row = d => row'[d] # Unborn
      BY <2>1, <3>1 DEF Progress, Gentle, Target
    <3>3. r.job = "rebuild" /\ Exists(d)' => row'[d].embedding # "completed"
      BY <2>1, <2>3, <3>1 DEF Progress, Gentle
    <3>4. Progress(r, d)'
      BY <3>2, <3>3 DEF Progress
    <3> QED
      BY <2>1, <3>4, CoveredStays
  <2> QED
    BY <2>2, <2>3
<1> QED
  BY <1>1, RunnerCover

LEMMA MoveBecomes ==
    ASSUME NEW w, NEW r, MoveOf(w, r)
    PROVE  Becomes(w, r) /\ chunks' = chunks /\ (\A x \in Rows : Exists(x)' <=> Exists(x))
BY DEF MoveOf, Becomes, RowsKept

(* start_processing, and the steps of a processing that failed *)
LEMMA ProcessCover ==
    ASSUME TypeInv, CoverInv, NEW w \in Runners,
           StartProcessing(w) \/ ProcessRaises(w) \/ FailRefresh(w) \/ FailProcessing(w)
    PROVE  CoverInv'
<1>1. CASE StartProcessing(w)
  <2>1. /\ runner[w].pc = "loaded" /\ runner[w].job = "process"
        /\ UNCHANGED <<row, chunks, vectors, mixed>>
    BY <1>1, Starts DEF ghosts
  <2>2. CASE Exists(Target(w))
    <3>1. PICK r \in RunnerType :
            /\ runner' = [runner EXCEPT ![w] = r]
            /\ r.pc = "processing" /\ r.row = Target(w) /\ r.job = "process" /\ r.seen = Loaded(w)
      BY <1>1, <2>2, Starts
    <3>2. Becomes(w, r)
      BY <2>1, <3>1 DEF Becomes
    <3>3. ASSUME NEW d \in Docs \ mixed'
          PROVE  Gentle(d) /\ (Holds(w, d) => Covered(d)' /\ Progress(r, d)')
      <4>1. Covered(d) /\ Progress(runner[w], d) /\ Gentle(d)
        BY <2>1, <3>3, CoverAt, GentleSame
      <4>2. CASE Holds(w, d)
        <5>1. runner[w].row = d /\ runner[w].pc # "idle"
          BY <2>1, <4>2, HeldBy DEF Target
        <5>2. row[d] # Unborn /\ (Exists(d) => r.seen.model = row[d].model)
          BY <2>1, <3>1, <4>1, <5>1 DEF Progress, Loaded
        <5>3. Progress(r, d)'
          BY <2>1, <3>1, <5>2 DEF Progress, Exists
        <5> QED
          BY <4>1, <5>3, CoveredStays
      <4> QED
        BY <4>1, <4>2
    <3> QED
      BY <3>2, <3>3, RunnerCover
  <2>3. CASE ~Exists(Target(w))
    <3>1. \A v \in Runners : runner'[v] = runner[v] \/ runner'[v].pc = "idle"
      BY <1>1, <2>3, Starts DEF IdleRunner, TypeInv, RunnersOK
    <3> QED
      BY <2>1, <3>1, GentleSame, CoverStays
  <2> QED
    BY <2>2, <2>3
<1>2. CASE ProcessRaises(w)
  <2>1. /\ runner[w].pc = "processing" /\ GoTo(w, "failing") /\ "failing" \in RunnerPc
        /\ UNCHANGED <<row, chunks, vectors, mixed>>
    BY <1>2 DEF ProcessRaises, Is, ghosts, RunnerPc
  <2>2. PICK r \in RunnerType :
            /\ runner' = [runner EXCEPT ![w] = r]
            /\ r.pc = "failing" /\ r.job = runner[w].job /\ r.row = Target(w) /\ r.force = runner[w].force
    BY <2>1, Goes
  <2>3. Becomes(w, r)
    BY <2>1, <2>2 DEF Becomes
  <2> QED
    BY <2>1, <2>2, <2>3, GentleSame, QuietCover
<1>3. CASE FailRefresh(w)
  <2>1. PICK r \in RunnerType :
            /\ MoveOf(w, r) /\ UNCHANGED <<row, vectors, mixed>> /\ runner[w].pc = "failing"
            /\ r.pc \in {"fail", "idle"}
    BY <1>3, FailReads
  <2>2. Becomes(w, r) /\ chunks' = chunks
    BY <2>1, MoveBecomes
  <2> QED
    BY <2>1, <2>2, GentleSame, QuietCover
<1>4. CASE FailProcessing(w)
  <2>1. /\ MoveOf(w, IdleRunner) /\ UNCHANGED <<vectors, mixed>> /\ runner[w].pc = "fail"
        /\ Target(w) \in Rows
        /\ \/ \E q \in RowType :
                /\ row' = [row EXCEPT ![Target(w)] = q] /\ q.model = row[Target(w)].model
                /\ q.embedding \in {"failed", row[Target(w)].embedding}
           \/ row' = row
    BY <1>4, FailWrites
  <2>2. Becomes(w, IdleRunner) /\ chunks' = chunks /\ (\A x \in Rows : Exists(x)' <=> Exists(x))
    BY <2>1, MoveBecomes
  <2>3. \A x \in Rows : \/ row'[x] = row[x]
                        \/ /\ row'[x] \in RowType /\ row'[x].model = row[x].model
                           /\ row'[x].embedding = "completed" => row[x].embedding = "completed"
    BY <2>1 DEF TypeInv, DataOK, RowsType
  <2>4. \A d \in Docs : Gentle(d)
    BY <2>1, <2>2, <2>3, RowIsNot DEF Gentle, Rows
  <2>5. IdleRunner \in RunnerType /\ IdleRunner.pc = "idle"
    BY IdleRecords DEF IdleRunner
  <2> QED
    BY <2>2, <2>4, <2>5, QuietCover
<1> QED
  BY <1>1, <1>2, <1>3, <1>4

(* complete_processing: new chunks, all their vectors of one model, and the  *)
(* model itself when it differs from the one loaded before the lock          *)
LEMMA CompleteCover ==
    ASSUME TypeInv, CoverInv, NEW w \in Runners, NEW m \in Models, CompleteProcessing(w, m)
    PROVE  CoverInv'
<1>1. PICK N \in SUBSET Unused, q \in RowType :
            /\ runner[w].pc = "processing" /\ runner[w].job = "process" /\ w \in Workers
            /\ Target(w) \in Docs /\ Exists(Target(w)) /\ locked[Target(w)] = w
            /\ Loaded(w) \in RowType
            /\ Cardinality(N) = ChunkCount
            /\ chunks' = [chunks EXCEPT ![Target(w)] = N]
            /\ vectors' = (vectors \ DeleteForDocument(chunks[Target(w)])) \cup (N \X {m})
            /\ row' = [row EXCEPT ![Target(w)] = q]
            /\ q.status = "indexed" /\ q.embedding = "completed" /\ q.task = row[Target(w)].task
            /\ q.model = IF m # Loaded(w).model THEN m ELSE row[Target(w)].model
            /\ locked' = [locked EXCEPT ![Target(w)] = None]
            /\ runner' = [runner EXCEPT ![w] = IdleRunner]
            /\ UNCHANGED <<broker, request, asked, ghosts>>
  BY Completes
<1>2. /\ mixed' = mixed /\ Becomes(w, IdleRunner)
      /\ IdleRunner \in RunnerType /\ IdleRunner.pc = "idle"
  BY <1>1, IdleRecords DEF Becomes, ghosts, IdleRunner
<1>3. /\ \A x \in Rows : row'[x] = IF x = Target(w) THEN q ELSE row[x]
      /\ \A d \in Docs : chunks'[d] = IF d = Target(w) THEN N ELSE chunks[d]
  BY <1>1 DEF TypeInv, DataOK, RowsType
<1>4. ASSUME NEW d \in Docs, d # Target(w)
      PROVE  Gentle(d)
  <2>1. row'[d] = row[d] /\ chunks'[d] = chunks[d]
    BY <1>3, <1>4 DEF Rows
  <2>2. chunks[d] \cap chunks[Target(w)] = {}
    BY <1>1, <1>4 DEF TypeInv, DataOK
  <2>3. \A c \in chunks[d] : \A k : <<c, k>> \in vectors => <<c, k>> \in vectors'
    BY <1>1, <2>2 DEF DeleteForDocument
  <2> QED
    BY <2>1, <2>3, GentleSame
<1>5. ASSUME NEW d \in Docs \ mixed', Holds(w, d)
      PROVE  Covered(d)' /\ Progress(IdleRunner, d)'
  <2>1. d = Target(w)
    BY <1>1, <1>5, HeldBy, DocumentsAssumption
  <2>2. Loaded(w).model = row[d].model
    <3>1. Progress(runner[w], d)
      BY <1>2, <1>5, CoverAt
    <3> QED
      BY <1>1, <2>1, <3>1 DEF Progress, Target, Loaded
  <2>3. q.model = m
    BY <1>1, <2>1, <2>2
  <2>4. row'[d].model = m /\ chunks'[d] = N /\ \A c \in N : <<c, m>> \in vectors'
    BY <1>1, <1>3, <2>1, <2>3 DEF Rows
  <2> QED
    BY <1>2, <2>4 DEF Covered, Progress
<1>6. ASSUME NEW d \in Docs \ mixed', ~Holds(w, d)
      PROVE  Gentle(d)
  BY <1>1, <1>4, <1>6, HeldBy
<1> QED
  BY <1>2, <1>5, <1>6, RunnerCover

(* A job that has its chunks listed *)
LEMMA ListedCover ==
    ASSUME TypeInv, CoverInv, NEW w \in Runners, NEW r \in RunnerType, Becomes(w, r),
           UNCHANGED <<row, chunks>>, runner[w].pc # "loaded", runner[w].job # "process", r.pc # "idle",
           \A d \in Docs \ mixed' : Gentle(d) \/ (runner[w].job = "rebuild" /\ Holds(w, d)),
           \A d \in Docs \ mixed' : Holds(w, d) /\ Exists(d) =>
                /\ r.pc = "mark" /\ runner[w].job = "rebuild" => r.seen.model = row[d].model
                /\ \A c \in chunks[d] \ r.todo : <<c, r.model>> \in vectors'
                /\ r.pc # "mark" /\ r.force /\ ~r.created => chunks[d] \subseteq r.todo,
           r.pc \in {"next", "embedded", "insert", "mark"}
    PROVE  CoverInv'
<1>1. ASSUME NEW d \in Docs \ mixed', Holds(w, d)
      PROVE  Covered(d)' /\ Progress(r, d)'
  <2>1. Covered(d) /\ Progress(runner[w], d)
    BY CoverAt DEF Becomes
  <2>2. /\ r.row = Target(w) /\ r.job = runner[w].job /\ r.force = runner[w].force
        /\ runner[w].pc # "idle" /\ (runner[w].row = d \/ runner[w].row = Project)
    BY <1>1 DEF Becomes, Holds, Target
  <2>3. /\ r.job = "sync" => ~r.force
        /\ r.row = d => row[d] # Unborn
        /\ r.job = "rebuild" /\ Exists(d) => row[d].embedding # "completed"
    BY <2>1, <2>2 DEF Progress, Target
  <2>4. Exists(d)' <=> Exists(d)
    BY DEF Exists
  <2>5. /\ r.row = d => row'[d] # Unborn
        /\ Exists(d)' =>
            /\ r.job = "rebuild" => row'[d].embedding # "completed"
            /\ r.job = "rebuild" /\ r.pc = "mark" => r.seen.model = row'[d].model
            /\ \A c \in chunks'[d] \ r.todo : <<c, r.model>> \in vectors'
            /\ r.pc # "mark" /\ r.force /\ ~r.created => chunks'[d] \subseteq r.todo
    BY <1>1, <2>2, <2>3, <2>4
  <2>6. Progress(r, d)'
    BY <2>2, <2>3, <2>5 DEF Progress
  <2>7. Covered(d)'
    <3>1. CASE Gentle(d)
      BY <2>1, <3>1, CoveredStays
    <3>2. CASE runner[w].job = "rebuild"
      BY <2>2, <2>5, <3>2 DEF Covered
    <3> QED
      BY <3>1, <3>2
  <2> QED
    BY <2>6, <2>7
<1> QED
  BY <1>1, RunnerCover

LEMMA MoveFacts ==
    ASSUME TypeInv, NEW w \in Runners, NEW r \in RunnerType, MoveOf(w, r)
    PROVE  /\ Becomes(w, r) /\ chunks' = chunks /\ (\A x \in Rows : Exists(x)' <=> Exists(x))
           /\ runner[w].pc # "idle" /\ mixed \subseteq mixed'
           /\ r.pc # "idle" => r.row = Target(w) /\ r.job = runner[w].job /\ r.force = runner[w].force
BY DEF MoveOf, Becomes, RowsKept

(* What the job knows of a document that it holds, alone *)
LEMMA JobProgress ==
    ASSUME TypeInv, CoverInv, NEW w \in Runners, NEW d \in Docs, d \notin mixed, Holds(w, d), Exists(d)
    PROVE  /\ runner[w].job = "sync" => ~runner[w].force
           /\ runner[w].job = "rebuild" /\ runner[w].pc # "loaded" => row[d].embedding # "completed"
           /\ runner[w].job = "rebuild" /\ runner[w].pc = "loaded" => Loaded(w).embedding = "queued"
           /\ runner[w].job = "rebuild" /\ runner[w].pc = "mark" => Loaded(w).model = row[d].model
           /\ runner[w].pc \in {"next", "embedded", "insert", "mark"} =>
                    \A c \in chunks[d] \ runner[w].todo : <<c, runner[w].model>> \in vectors
           /\ runner[w].pc \in {"next", "embedded", "insert"} /\ runner[w].force /\ ~runner[w].created =>
                    chunks[d] \subseteq runner[w].todo
<1>1. Progress(runner[w], d) /\ runner[w].pc # "idle" /\ (runner[w].row = d \/ runner[w].row = Project)
  BY DEF CoverInv, Holds, Is, Target
<1> QED
  BY <1>1 DEF Progress, Loaded

LEMMA RebuildListCover ==
    ASSUME TypeInv, CoverInv, NEW w \in Runners, ListRebuild(w)
    PROVE  CoverInv'
<1>1. PICK r \in RunnerType :
            /\ MoveOf(w, r) /\ UNCHANGED <<row, mixed>>
            /\ runner[w].pc = "list" /\ runner[w].job = "rebuild" /\ Target(w) \in Docs /\ r.pc = "next"
            /\ \A v \in vectors : v[1] \notin chunks[Target(w)] => v \in vectors'
            /\ r.force => r.todo = chunks[Target(w)]
            /\ \A c \in chunks[Target(w)] \ r.todo : <<c, r.model>> \in vectors'
  BY RebuildLists
<1>2. Becomes(w, r) /\ chunks' = chunks /\ runner[w].pc # "idle"
  BY <1>1, MoveFacts
<1>3. ASSUME NEW d \in Docs
      PROVE  Gentle(d) \/ Holds(w, d)
  <2>1. CASE d = Target(w)
    BY <1>2, <2>1, HeldBy
  <2>2. CASE d # Target(w)
    <3>1. chunks[d] \cap chunks[Target(w)] = {}
      BY <1>1, <2>2 DEF TypeInv, DataOK
    <3>2. \A c \in chunks[d] : \A m : <<c, m>> \in vectors => <<c, m>> \in vectors'
      BY <1>1, <3>1
    <3> QED
      BY <1>1, <1>2, <3>2, GentleSame
  <2> QED
    BY <2>1, <2>2
<1>4. \A d \in Docs : Holds(w, d) => d = Target(w)
  BY <1>1, <1>2, HeldBy, DocumentsAssumption
<1> QED
  BY <1>1, <1>2, <1>3, <1>4, ListedCover

LEMMA SyncListCover ==
    ASSUME TypeInv, CoverInv, NEW w \in Runners, ListSync(w)
    PROVE  CoverInv'
<1>1. PICK r \in RunnerType :
            /\ MoveOf(w, r) /\ UNCHANGED <<row, vectors, mixed>>
            /\ runner[w].pc = "list" /\ runner[w].job = "sync" /\ Target(w) = Project /\ r.pc = "next"
            /\ \A d \in Docs : \A c \in chunks[d] \ r.todo : <<c, r.model>> \in vectors
  BY SyncLists
<1>2. Becomes(w, r) /\ chunks' = chunks /\ r.force = runner[w].force
  BY <1>1, MoveFacts
<1>3. \A d \in Docs : Gentle(d)
  BY <1>1, <1>2, GentleSame
<1>4. \A d \in Docs \ mixed' : Holds(w, d) /\ Exists(d) => ~r.force
  BY <1>1, <1>2, JobProgress
<1> QED
  BY <1>1, <1>2, <1>3, <1>4, ListedCover

(* A model that answers for another before the first insert: a forced       *)
(* rebuild has its whole list left, and any other job is noted              *)
LEMMA EmbedCover ==
    ASSUME TypeInv, CoverInv, NEW w \in Runners, Embedding(w)
    PROVE  CoverInv'
<1>1. PICK r \in RunnerType :
            /\ MoveOf(w, r) /\ UNCHANGED <<row, vectors>>
            /\ runner[w].pc \in {"next", "embedded"} /\ Target(w) \in Rows
            /\ r.pc \in {"embedded", "insert", "cancelled", "raised"}
            /\ r.pc \in {"embedded", "insert"} =>
                /\ r.todo = runner[w].todo /\ r.created = runner[w].created
                /\ \/ r.model = runner[w].model
                   \/ ~runner[w].created /\ runner[w].force
                   \/ \A d \in Docs : Target(w) \in {d, Project} => d \in mixed'
  BY Embeds
<1>2. /\ Becomes(w, r) /\ chunks' = chunks /\ mixed \subseteq mixed' /\ runner[w].pc # "idle"
      /\ r.pc # "idle" => r.force = runner[w].force
  BY <1>1, MoveFacts
<1>3. \A d \in Docs : Gentle(d)
  BY <1>1, <1>2, GentleSame
<1>4. CASE r.pc \in {"cancelled", "raised"}
  BY <1>1, <1>2, <1>3, <1>4, QuietCover
<1>5. CASE r.pc \in {"embedded", "insert"}
  <2>1. runner[w].job # "process"
    BY <1>1, RunnerAt DEF RunnerOK
  <2>2. ASSUME NEW d \in Docs \ mixed', Holds(w, d), Exists(d)
        PROVE  /\ \A c \in chunks[d] \ r.todo : <<c, r.model>> \in vectors'
               /\ r.force /\ ~r.created => chunks[d] \subseteq r.todo
    <3>1. /\ \A c \in chunks[d] \ runner[w].todo : <<c, runner[w].model>> \in vectors
          /\ runner[w].force /\ ~runner[w].created => chunks[d] \subseteq runner[w].todo
      BY <1>1, <1>2, <2>2, JobProgress
    <3>2. Target(w) \in {d, Project}
      BY <1>2, <2>2, HeldBy
    <3>3. r.model = runner[w].model \/ (~runner[w].created /\ runner[w].force)
      BY <1>1, <1>5, <2>2, <3>2
    <3> QED
      BY <1>1, <1>2, <1>5, <3>1, <3>3
  <2> QED
    BY <1>1, <1>2, <1>3, <1>5, <2>1, <2>2, ListedCover
<1> QED
  BY <1>1, <1>4, <1>5

LEMMA InsertCover ==
    ASSUME TypeInv, CoverInv, NEW w \in Runners, Insert(w)
    PROVE  CoverInv'
<1>1. PICK r \in RunnerType :
            /\ MoveOf(w, r) /\ UNCHANGED <<row, mixed>> /\ vectors \subseteq vectors'
            /\ runner[w].pc = "insert" /\ Target(w) \in Rows
            /\ r.pc \in {"next", "raised"}
            /\ r.pc = "next" => /\ r.created /\ r.model = runner[w].model
                                /\ \A c \in runner[w].todo \ r.todo : <<c, r.model>> \in vectors'
  BY Inserts
<1>2. Becomes(w, r) /\ chunks' = chunks
  BY <1>1, MoveFacts
<1>3. \A d \in Docs : Gentle(d)
  BY <1>1, <1>2, GentleSame
<1>4. CASE r.pc = "raised"
  BY <1>1, <1>2, <1>3, <1>4, QuietCover
<1>5. CASE r.pc = "next"
  <2>1. runner[w].job # "process"
    BY <1>1, RunnerAt DEF RunnerOK
  <2>2. ASSUME NEW d \in Docs \ mixed', Holds(w, d), Exists(d)
        PROVE  \A c \in chunks[d] \ r.todo : <<c, r.model>> \in vectors'
    <3>1. \A c \in chunks[d] \ runner[w].todo : <<c, runner[w].model>> \in vectors
      BY <1>1, <2>2, JobProgress
    <3> QED
      BY <1>1, <1>5, <3>1
  <2> QED
    BY <1>1, <1>2, <1>3, <1>5, <2>1, <2>2, ListedCover
<1> QED
  BY <1>1, <1>4, <1>5

LEMMA RefreshCover ==
    ASSUME TypeInv, CoverInv, NEW w \in Runners, RefreshRow(w)
    PROVE  CoverInv'
<1>1. PICK r \in RunnerType :
            /\ MoveOf(w, r) /\ UNCHANGED <<row, vectors, mixed>>
            /\ runner[w].pc = "next" /\ runner[w].todo = {} /\ Target(w) \in Rows
            /\ r.pc \in {"mark", "write_cancelled", "raised"}
            /\ r.pc = "mark" => r.todo = {} /\ r.model = runner[w].model /\ r.seen = row[Target(w)]
  BY Refreshes
<1>2. Becomes(w, r) /\ chunks' = chunks /\ runner[w].pc # "idle"
  BY <1>1, MoveFacts
<1>3. \A d \in Docs : Gentle(d)
  BY <1>1, <1>2, GentleSame
<1>4. CASE r.pc \in {"write_cancelled", "raised"}
  BY <1>1, <1>2, <1>3, <1>4, QuietCover
<1>5. CASE r.pc = "mark"
  <2>1. runner[w].job # "process"
    BY <1>1, RunnerAt DEF RunnerOK
  <2>2. ASSUME NEW d \in Docs \ mixed', Holds(w, d), Exists(d)
        PROVE  /\ \A c \in chunks[d] \ r.todo : <<c, r.model>> \in vectors'
               /\ runner[w].job = "rebuild" => r.seen.model = row[d].model
    <3>1. \A c \in chunks[d] \ runner[w].todo : <<c, runner[w].model>> \in vectors
      BY <1>1, <2>2, JobProgress
    <3>2. runner[w].job = "rebuild" => Target(w) = d
      BY <1>2, <2>2, HeldBy
    <3> QED
      BY <1>1, <1>5, <3>1, <3>2
  <2> QED
    BY <1>1, <1>2, <1>3, <1>5, <2>1, <2>2, ListedCover
<1> QED
  BY <1>1, <1>4, <1>5

(* PROCESSING is written before the vectors of a rebuild are touched: the   *)
(* job loaded QUEUED, so the ORM sees a change                              *)
LEMMA StartJobCover ==
    ASSUME TypeInv, CoverInv, NEW w \in Runners, NEW m \in Models, StartJob(w, m)
    PROVE  CoverInv'
<1>1. PICK r \in RunnerType :
            /\ MoveOf(w, r) /\ UNCHANGED <<vectors, mixed>>
            /\ runner[w].pc = "loaded" /\ runner[w].job \in {"rebuild", "sync"} /\ Target(w) \in Rows
            /\ \/ /\ Exists(Target(w)) /\ r.pc = "list" /\ r.job = runner[w].job
                  /\ \E q \in RowType :
                        /\ row' = [row EXCEPT ![Target(w)] = q] /\ q.model = row[Target(w)].model
                        /\ q.status = row[Target(w)].status
                        /\ q.embedding = IF "processing" # Loaded(w).embedding THEN "processing"
                                         ELSE row[Target(w)].embedding
               \/ ~Exists(Target(w)) /\ row' = row /\ r.pc = "idle"
  BY JobStarts
<1>2. /\ Becomes(w, r) /\ chunks' = chunks /\ mixed \subseteq mixed' /\ runner[w].pc # "idle"
      /\ \A x \in Rows : Exists(x)' <=> Exists(x)
      /\ r.pc # "idle" => r.row = Target(w) /\ r.force = runner[w].force
  BY <1>1, MoveFacts
<1>3. CASE ~Exists(Target(w)) /\ row' = row /\ r.pc = "idle"
  <2>1. \A d \in Docs : Gentle(d)
    BY <1>1, <1>2, <1>3, GentleSame
  <2> QED
    BY <1>2, <1>3, <2>1, QuietCover
<1>4. CASE /\ Exists(Target(w)) /\ r.pc = "list" /\ r.job = runner[w].job
           /\ \E q \in RowType :
                /\ row' = [row EXCEPT ![Target(w)] = q] /\ q.model = row[Target(w)].model
                /\ q.embedding = IF "processing" # Loaded(w).embedding THEN "processing"
                                 ELSE row[Target(w)].embedding
  <2>1. PICK q \in RowType :
                /\ row' = [row EXCEPT ![Target(w)] = q] /\ q.model = row[Target(w)].model
                /\ q.embedding = IF "processing" # Loaded(w).embedding THEN "processing"
                                 ELSE row[Target(w)].embedding
    BY <1>4
  <2>2. \A x \in Rows : row'[x] = IF x = Target(w) THEN q ELSE row[x]
    BY <2>1 DEF TypeInv, DataOK, RowsType
  <2>3. \A x \in Rows : row'[x] = row[x] \/ row'[x] \in RowType
    BY <2>2
  <2>4. \A x \in Rows : row'[x] = Unborn => row[x] = Unborn
    BY <2>3, RowIsNot
  <2>5. \A d \in Docs : d \in Rows
    BY DEF Rows
  <2>6. ASSUME NEW d \in Docs
        PROVE  Gentle(d)
    <3>1. /\ row'[d].model = row[d].model
          /\ row'[d].embedding = "completed" => row[d].embedding = "completed"
      BY <2>1, <2>2, <2>5
    <3> QED
      BY <1>1, <1>2, <2>4, <2>5, <3>1 DEF Gentle
  <2>7. CASE runner[w].job = "sync"
    BY <1>1, <1>2, <1>4, <2>6, <2>7, QuietCover
  <2>8. CASE runner[w].job = "rebuild"
    <3>1. ASSUME NEW d \in Docs \ mixed', Holds(w, d)
          PROVE  Covered(d)' /\ Progress(r, d)'
      <4>1. Target(w) = d /\ d \notin mixed
        BY <1>1, <1>2, <2>8, <3>1, HeldBy
      <4>2. Loaded(w).embedding = "queued"
        BY <1>1, <1>4, <2>8, <3>1, <4>1, JobProgress
      <4>3. row'[d] = q /\ q.embedding = "processing"
        BY <2>1, <2>2, <2>5, <4>1, <4>2
      <4>4. row'[d] # Unborn
        BY <4>3, RowIsNot
      <4> QED
        BY <1>4, <2>8, <4>3, <4>4 DEF Covered, Progress
    <3> QED
      BY <1>2, <2>6, <3>1, RunnerCover
  <2> QED
    BY <1>1, <2>7, <2>8
<1> QED
  BY <1>1, <1>3, <1>4

(* mark_embeddings_current: the model that is written, or was there, is the  *)
(* one of the vectors                                                       *)
LEMMA MarkCover ==
    ASSUME TypeInv, CoverInv, NEW w \in Runners, MarkCurrent(w)
    PROVE  CoverInv'
<1>1. PICK r \in RunnerType :
            /\ MoveOf(w, r) /\ UNCHANGED <<vectors, mixed>>
            /\ runner[w].pc = "mark" /\ runner[w].job = "rebuild" /\ Target(w) \in Docs
            /\ \/ /\ Exists(Target(w)) /\ r.pc = "idle"
                  /\ \E q \in RowType :
                        /\ row' = [row EXCEPT ![Target(w)] = q] /\ q.status = row[Target(w)].status
                        /\ q.embedding = IF "completed" # Loaded(w).embedding THEN "completed"
                                         ELSE row[Target(w)].embedding
                        /\ q.model = IF runner[w].model # Loaded(w).model THEN runner[w].model
                                     ELSE row[Target(w)].model
               \/ row' = row /\ r.pc = "raised"
  BY MarksCurrent
<1>2. Becomes(w, r) /\ chunks' = chunks /\ runner[w].pc # "idle"
  BY <1>1, MoveFacts
<1>3. CASE row' = row /\ r.pc = "raised"
  <2>1. \A d \in Docs : Gentle(d)
    BY <1>1, <1>2, <1>3, GentleSame
  <2> QED
    BY <1>1, <1>2, <1>3, <2>1, QuietCover
<1>4. CASE /\ Exists(Target(w)) /\ r.pc = "idle"
           /\ \E q \in RowType :
                /\ row' = [row EXCEPT ![Target(w)] = q]
                /\ q.model = IF runner[w].model # Loaded(w).model THEN runner[w].model
                             ELSE row[Target(w)].model
  <2>1. PICK q \in RowType :
                /\ row' = [row EXCEPT ![Target(w)] = q]
                /\ q.model = IF runner[w].model # Loaded(w).model THEN runner[w].model
                             ELSE row[Target(w)].model
    BY <1>4
  <2>2. \A x \in Rows : row'[x] = IF x = Target(w) THEN q ELSE row[x]
    BY <2>1 DEF TypeInv, DataOK, RowsType
  <2>3. ASSUME NEW d \in Docs, d # Target(w)
        PROVE  Gentle(d)
    <3>1. row'[d] = row[d]
      BY <2>2, <2>3 DEF Rows
    <3> QED
      BY <1>1, <1>2, <3>1, GentleSame
  <2>4. \A d \in Docs : Holds(w, d) <=> d = Target(w)
    BY <1>1, <1>2, HeldBy, DocumentsAssumption
  <2>5. ASSUME NEW d \in Docs \ mixed', Holds(w, d)
        PROVE  Covered(d)' /\ Progress(r, d)'
    <3>1. d = Target(w) /\ d \notin mixed /\ d \in Rows
      BY <1>1, <2>4, <2>5, HeldBy, <1>2
    <3>2. /\ Loaded(w).model = row[d].model
          /\ \A c \in chunks[d] \ runner[w].todo : <<c, runner[w].model>> \in vectors
      BY <1>1, <1>4, <2>5, <3>1, JobProgress
    <3>3. runner[w].todo = {}
      BY <1>1, RunnerAt DEF RunnerOK
    <3>4. row'[d].model = runner[w].model
      BY <2>1, <2>2, <3>1, <3>2
    <3>5. \A c \in chunks'[d] : <<c, row'[d].model>> \in vectors'
      BY <1>1, <1>2, <3>2, <3>3, <3>4
    <3> QED
      BY <1>4, <3>5 DEF Covered, Progress
  <2> QED
    BY <1>2, <2>3, <2>4, <2>5, RunnerCover
<1> QED
  BY <1>1, <1>3, <1>4

(* mark_project_embeddings_current: a sync holds every document *)
LEMMA MarkDocumentsCover ==
    ASSUME TypeInv, CoverInv, NEW w \in Runners, MarkDocuments(w)
    PROVE  CoverInv'
<1>1. PICK r \in RunnerType :
            /\ MoveOf(w, r) /\ UNCHANGED <<vectors, mixed>>
            /\ runner[w].pc = "mark" /\ runner[w].job = "sync" /\ Target(w) = Project
            /\ r.pc = "mark_project" /\ row'[Project] = row[Project]
            /\ \A d \in Docs : chunks[d] = {} => row'[d] = row[d]
            /\ \A d \in Docs : chunks[d] # {} =>
                    /\ row'[d].embedding = "completed" /\ row'[d].model = runner[w].model
                    /\ row'[d].status = row[d].status
  BY MarksDocuments
<1>2. /\ Becomes(w, r) /\ chunks' = chunks /\ runner[w].pc # "idle" /\ mixed \subseteq mixed'
      /\ \A x \in Rows : Exists(x)' <=> Exists(x)
      /\ r.row = Target(w) /\ r.job = runner[w].job /\ r.force = runner[w].force
  BY <1>1, MoveFacts
<1>3. \A d \in Docs : Holds(w, d) /\ r.row # d
  BY <1>1, <1>2, HeldBy, DocumentsAssumption
<1>4. runner[w].todo = {}
  BY <1>1, RunnerAt DEF RunnerOK
<1>5. ASSUME NEW d \in Docs \ mixed'
      PROVE  Covered(d)' /\ Progress(r, d)'
  <2>1. Covered(d) /\ Progress(runner[w], d)
    BY <1>2, CoverAt
  <2>2. ~r.force
    BY <1>1, <1>2, <2>1 DEF Progress, Target
  <2>3. Progress(r, d)'
    BY <1>1, <1>2, <1>3, <2>2 DEF Progress
  <2>4. Exists(d)' <=> Exists(d)
    BY <1>2 DEF Rows
  <2>5. CASE chunks[d] = {}
    BY <1>2, <2>3, <2>5 DEF Covered
  <2>6. CASE chunks[d] # {}
    <3>1. Exists(d)' => \A c \in chunks[d] : <<c, runner[w].model>> \in vectors
      BY <1>1, <1>2, <1>3, <1>4, <1>5, <2>4, JobProgress
    <3> QED
      BY <1>1, <1>2, <2>3, <2>6, <3>1 DEF Covered
  <2> QED
    BY <2>3, <2>5, <2>6
<1> QED
  BY <1>2, <1>3, <1>5, RunnerCover

LEMMA CloseCover ==
    ASSUME TypeInv, CoverInv, NEW w \in Runners, Closing(w)
    PROVE  CoverInv'
<1>1. PICK r \in RunnerType :
            /\ MoveOf(w, r) /\ UNCHANGED <<vectors, mixed>>
            /\ runner[w].pc \in JobPc /\ Target(w) \in Rows
            /\ r.pc \in {"idle", "raised", "write_failed", "write_cancelled"}
            /\ \/ \E q \in RowType :
                    /\ row' = [row EXCEPT ![Target(w)] = q] /\ q.status = row[Target(w)].status
                    /\ q.model = row[Target(w)].model
                    /\ \/ Target(w) = Project /\ q.embedding = "completed"
                       \/ q.embedding \in {"failed", "cancelled", row[Target(w)].embedding}
               \/ row' = row
  BY Closes
<1>2. Becomes(w, r) /\ chunks' = chunks /\ \A x \in Rows : Exists(x)' <=> Exists(x)
  BY <1>1, MoveFacts
<1>3. \A d \in Docs : \/ row'[d] = row[d]
                      \/ /\ row'[d] \in RowType /\ row'[d].model = row[d].model
                         /\ row'[d].embedding = "completed" => row[d].embedding = "completed"
  BY <1>1, DocumentsAssumption DEF TypeInv, DataOK, RowsType, Rows
<1>4. \A d \in Docs : Gentle(d)
  BY <1>1, <1>2, <1>3, RowIsNot DEF Gentle, Rows
<1>5. runner[w].pc # "loaded"
  BY <1>1 DEF JobPc
<1> QED
  BY <1>1, <1>2, <1>4, <1>5, QuietCover

LEMMA MoveCover ==
    ASSUME TypeInv, CoverInv, NEW w \in Runners, Moving(w)
    PROVE  CoverInv'
BY ProcessCover, StartJobCover, RebuildListCover, SyncListCover, EmbedCover, InsertCover, RefreshCover,
   MarkCover, MarkDocumentsCover, CloseCover DEF Moving

LEMMA NextCover ==
    ASSUME TypeInv, CoverInv, [Next]_vars
    PROVE  CoverInv'
<1>1. ASSUME NEW h \in Handlers, Asking(h) \/ HandlerStep(h)
      PROVE  CoverInv'
  <2>1. CASE Asking(h) \/ Writing(h) \/ Enqueue(h) \/ Revoking(h) \/ ToolRefused(h) \/ RowGone(h)
    BY <2>1, HandlerCover
  <2>2. CASE DeleteCommit(h) \/ DeleteProject(h)
    BY <2>2, DeleteCover
  <2>3. CASE \E s \in Slots : Spawn(h, s)
    BY <2>3, SpawnCover
  <2> QED
    BY <1>1, <2>1, <2>2, <2>3, HandlerSteps
<1>2. CASE \E d \in Docs : Upload(d)
  BY <1>2, UploadCover
<1>3. ASSUME NEW w \in Runners, RunnerStep(w)
      PROVE  CoverInv'
  <2>1. CASE \E t \in Tasks : Taking(w, t)
    BY <2>1, TakeCover
  <2>2. CASE StartProcessing(w) \/ ProcessRaises(w) \/ Moving(w)
    BY <2>2, ProcessCover, MoveCover
  <2>3. CASE \E m \in Models : CompleteProcessing(w, m)
    BY <2>3, CompleteCover
  <2> QED
    BY <1>3, <2>1, <2>2, <2>3, RunnerSteps
<1>4. CASE Fault
  BY <1>4, FaultStops, StopsCover
<1>5. CASE UNCHANGED vars
  <2>1. UNCHANGED <<row, chunks, vectors, runner, mixed>>
    BY <1>5 DEF vars, data, ghosts
  <2> QED
    BY <2>1, GentleSame, CoverStays
<1> QED
  BY <1>1, <1>2, <1>3, <1>4, <1>5, NextSteps

LEMMA InitCover ==
    ASSUME Init
    PROVE  CoverInv
<1>1. PICK past, ids, first : Started(past, ids, first)
  BY Starts0
<1>2. \A w \in Runners : runner[w].pc = "idle"
  BY DEF Init, IdleRunner
<1>3. ASSUME NEW d \in Docs, Exists(d), row[d].embedding = "completed"
      PROVE  \A c \in chunks[d] : <<c, row[d].model>> \in vectors
  <2>1. row[d] = Past(past[d], first) /\ past[d] \in Histories
    BY <1>1, DocumentsAssumption DEF Started, Rows
  <2>2. past[d] = "indexed"
    BY <1>3, <2>1 DEF Past, Histories, FreshRow, Exists
  <2>3. row[d].model = first
    BY <2>1, <2>2 DEF Past, FreshRow
  <2> QED
    BY <1>1, <2>2, <2>3 DEF Started
<1> QED
  BY <1>2, <1>3 DEF CoverInv, Alone, Holds, Is, Covered, Progress

(* COMPLETED means a vector of the row's model for every chunk, whatever     *)
(* processings, rebuilds and syncs were cancelled, resumed, retried, failed, *)
(* revoked or redelivered before, as long as no two of them held the         *)
(* document together and no resumed one failed over: a job that started on a *)
(* QUEUED row writes PROCESSING before it deletes a vector, inserts what its *)
(* list lacks and records the model of its inserts.                         *)
THEOREM CompletedMeansCovered == Spec => []CompletedCoversChunks
<1>1. Init => TypeInv /\ CoverInv
  BY InitType, InitCover
<1>2. TypeInv /\ CoverInv /\ [Next]_vars => TypeInv' /\ CoverInv'
  BY NextType, NextCover
<1>3. Spec => [](TypeInv /\ CoverInv)
  BY <1>1, <1>2, PTL DEF Spec
<1>4. CoverInv => CompletedCoversChunks
  BY DEF CoverInv, CompletedCoversChunks, Covered
<1> QED
  BY <1>3, <1>4, PTL
=============================================================================
