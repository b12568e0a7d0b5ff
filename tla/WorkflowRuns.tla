---------------------------- MODULE WorkflowRuns ----------------------------
(***************************************************************************)
(* The life of a workflow run: the row in workflow_runs, the Celery        *)
(* messages that execute it, the API requests that change it, the pool     *)
(* processes that claim and execute it and the recovery pass of an API     *)
(* start-up.  app/services/workflow/workflow.py,                           *)
(* app/repositories/workflow_runs.py, app/tasks/workflows.py,              *)
(* app/services/workflow/recovery.py and app/services/background_jobs.py.  *)
(*                                                                         *)
(* PostgreSQL runs at READ COMMITTED: a step of this module is one         *)
(* statement that reads the row or one commit that publishes a change.     *)
(* What a handler or a task read earlier is kept in its record (seen,      *)
(* prev) and used later, as the ORM object is.  What the engine does       *)
(* between the claim and the final commit is module DagEngine; here it is  *)
(* an execution that succeeds or fails.                                    *)
(***************************************************************************)
EXTENDS Naturals, FiniteSets

CONSTANTS
    Runs,        \* workflow_runs.id values; an id is never reused
    Tasks,       \* Celery task ids, one per message; bounds the messages sent
    Workers,     \* Celery pool processes (prefetch 1, acks_late)
    Handlers,    \* concurrent API requests
    Recoverers,  \* API processes running recover_running_workflows
    Faults,      \* the faults of the environment a model considers
    None

FaultKinds == { "node",     \* the worker's host dies: its message is redelivered
                "child",    \* the pool process dies: its message is acknowledged
                "api",      \* the API process dies in the middle of a request
                "broker",   \* Redis refuses a publish or a revoke
                "resolve" } \* resolve_ai_service raises

ASSUME RunsAssumption ==
    /\ Faults \subseteq FaultKinds
    /\ None \notin Runs \cup Tasks

VARIABLES
    status,      \* workflow_runs.status of each id, absent before the insert
    recent,      \* of an active run: updated_at is younger than STALE_AFTER
    taskId,      \* workflow_runs.celery_task_id
    claims,      \* how often claim_pending won the run (history)
    doneEvents,  \* committed workflow_done events of the run
    kind,        \* the task a message names: workflows.run or workflows.resume
    target,      \* the run a message names
    queued,      \* messages waiting in Redis
    worker,      \* what each pool process is doing
    request,     \* what each API request is doing
    backlog      \* what each recovery pass has still to enqueue

rows   == <<status, recent, taskId, claims, doneEvents>>
broker == <<kind, target, queued>>
vars   == <<rows, broker, worker, request, backlog>>

Stored    == {"pending", "running", "completed", "failed", "canceled"}
Active    == {"pending", "running"}
\* PAUSED is in these sets of the code too, but nothing ever writes it.
Resumable == {"failed", "canceled"}
Deletable == {"completed", "failed", "canceled"}

Exists(r) == status[r] \in Stored

IdleWorker  == [pc |-> "idle", task |-> None, seen |-> "none"]
IdleRequest == [pc |-> "idle", run |-> None, task |-> None, prev |-> "none", seen |-> "none"]

Init ==
    /\ status = [r \in Runs |-> "absent"]
    /\ recent = [r \in Runs |-> FALSE]
    /\ taskId = [r \in Runs |-> None]
    /\ claims = [r \in Runs |-> 0]
    /\ doneEvents = [r \in Runs |-> 0]
    /\ kind = [t \in Tasks |-> "none"]
    /\ target = [t \in Tasks |-> None]
    /\ queued = {}
    /\ worker = [w \in Workers |-> IdleWorker]
    /\ request = [h \in Handlers |-> IdleRequest]
    /\ backlog = [p \in Recoverers |-> {}]

-----------------------------------------------------------------------------
(* Faulty forms of definitions below, for the mutation runs of the README *)

KeepsCanceled_Never(st)   == FALSE
QueueFailureStatus_None   == "pending"
RecoveryTask_Status(st)   == st
Fresh_Any(w)              == TRUE
Claimable_Active(r)       == status[r] \in Active
Claimable_Stale(r)        == status[r] = "pending" /\ ~recent[r]
ResumeRunnable_Pending(r) == status[r] = "pending"

-----------------------------------------------------------------------------
(* Writing the row.  The ORM emits an UPDATE of status only when the value  *)
(* assigned differs from the one loaded; any UPDATE moves updated_at.       *)

Write(r, new) ==
    /\ status' = [status EXCEPT ![r] = new]
    /\ recent' = [recent EXCEPT ![r] = new \in Active]

Assign(r, seen, new) ==
    IF seen = new THEN UNCHANGED <<status, recent>> ELSE Write(r, new)

(* output or error is written with the status, so the row is always updated *)
AssignWithText(r, seen, new) ==
    /\ status' = IF seen = new THEN status ELSE [status EXCEPT ![r] = new]
    /\ recent' = [recent EXCEPT ![r] = status'[r] \in Active]

(* STALE_AFTER passes without an UPDATE of the row *)
Age(r) ==
    /\ status[r] \in Active /\ recent[r]
    /\ recent' = [recent EXCEPT ![r] = FALSE]
    /\ UNCHANGED <<status, taskId, claims, doneEvents, broker, worker, request, backlog>>

(* BackgroundJobService.enqueue: delay() puts a message with a new task id *)
Publish(k, r, t) ==
    /\ kind[t] = "none"
    /\ kind' = [kind EXCEPT ![t] = k]
    /\ target' = [target EXCEPT ![t] = r]
    /\ queued' = queued \cup {t}

(* ... or the broker refuses and enqueue raises 503.  A model whose task    *)
(* ids are all used has no other way to bound what is sent.                 *)
QueueUnavailable ==
    \/ "broker" \in Faults
    \/ \A t \in Tasks : kind[t] # "none"

-----------------------------------------------------------------------------
(* API requests.  At(h, pc) is a request at a step; a request whose row was  *)
(* deleted meanwhile gets a StaleDataError or an InvalidRequestError.       *)

At(h, pc) == request[h].pc = pc
Row(h)    == request[h].run

Finish(h) == request' = [request EXCEPT ![h] = IdleRequest]
MoveTo(h, pc, t, seen) ==
    request' = [request EXCEPT ![h] =
        [pc |-> pc, run |-> Row(h), task |-> t, prev |-> request[h].prev, seen |-> seen]]

RowGone(h) ==
    /\ ~At(h, "idle") /\ ~Exists(Row(h))
    /\ Finish(h)
    /\ UNCHANGED <<rows, broker, worker, backlog>>

(* POST /workflows/{id}/run and POST /runs/{id}/retry: a new PENDING row *)
CreateRun(h, r) ==
    /\ At(h, "idle") /\ status[r] = "absent"
    /\ Write(r, "pending")
    /\ request' = [request EXCEPT ![h] =
            [pc |-> "enqueue", run |-> r, task |-> None, prev |-> "none", seen |-> "none"]]
    /\ UNCHANGED <<taskId, claims, doneEvents, broker, worker, backlog>>

(* create_committed's refresh and the enqueue *)
EnqueueRun(h) ==
    /\ At(h, "enqueue") /\ Exists(Row(h))
    /\ \/ \E t \in Tasks :
            /\ Publish("run", Row(h), t)
            /\ MoveTo(h, "record", t, "none")
       \/ /\ QueueUnavailable
          /\ MoveTo(h, "unqueued", None, "none")
          /\ UNCHANGED broker
    /\ UNCHANGED <<rows, worker, backlog>>

(* fail_with_error after a refused enqueue: refresh, then commit FAILED *)
KeepsCanceled(st) == st = "canceled"

UnqueuedRefresh(h) ==
    /\ At(h, "unqueued") /\ Exists(Row(h))
    /\ IF KeepsCanceled(status[Row(h)])
       THEN Finish(h)
       ELSE MoveTo(h, "fail", None, status[Row(h)])
    /\ UNCHANGED <<rows, broker, worker, backlog>>

QueueFailureStatus == "failed"

UnqueuedFail(h) ==
    /\ At(h, "fail") /\ Exists(Row(h))
    /\ AssignWithText(Row(h), request[h].seen, QueueFailureStatus)
    /\ Finish(h)
    /\ UNCHANGED <<taskId, claims, doneEvents, broker, worker, backlog>>

SetTaskId(h) ==
    /\ At(h, "record") /\ Exists(Row(h))
    /\ taskId' = [taskId EXCEPT ![Row(h)] = request[h].task]
    /\ recent' = [recent EXCEPT ![Row(h)] = status[Row(h)] \in Active]
    /\ Finish(h)
    /\ UNCHANGED <<status, claims, doneEvents, broker, worker, backlog>>

(* Every other request loads the row first (get_for_user) and answers 409   *)
(* unless the loaded status is one of `allowed`; enqueue_resume keeps the    *)
(* status as previous_status.                                               *)
Load(h, r, allowed, pc) ==
    /\ At(h, "idle") /\ status[r] \in allowed
    /\ request' = [request EXCEPT ![h] =
            [pc |-> pc, run |-> r, task |-> None,
             prev |-> IF pc = "resume" THEN status[r] ELSE "none", seen |-> "none"]]
    /\ UNCHANGED <<rows, broker, worker, backlog>>

(* POST /runs/{id}/resume *)
ResumeLoad(h, r) == Load(h, r, Resumable, "resume")

ResumeStart(h) ==
    /\ At(h, "resume") /\ Exists(Row(h))
    /\ Write(Row(h), "running")
    /\ MoveTo(h, "reenqueue", None, "none")
    /\ UNCHANGED <<taskId, claims, doneEvents, broker, worker, backlog>>

(* start()'s refresh and the enqueue *)
EnqueueResume(h) ==
    /\ At(h, "reenqueue") /\ Exists(Row(h))
    /\ \/ \E t \in Tasks :
            /\ Publish("resume", Row(h), t)
            /\ MoveTo(h, "record", t, "none")
       \/ /\ QueueUnavailable
          /\ MoveTo(h, "restore", None, status[Row(h)])
          /\ UNCHANGED broker
    /\ UNCHANGED <<rows, worker, backlog>>

ResumeRestore(h) ==
    /\ At(h, "restore") /\ Exists(Row(h))
    /\ Assign(Row(h), request[h].seen, request[h].prev)
    /\ Finish(h)
    /\ UNCHANGED <<taskId, claims, doneEvents, broker, worker, backlog>>

(* POST /runs/{id}/cancel *)
CancelLoad(h, r) == Load(h, r, Active, "cancel")

CancelCommit(h) ==
    /\ At(h, "cancel") /\ Exists(Row(h))
    /\ Write(Row(h), "canceled")
    /\ MoveTo(h, "revoke", None, "none")
    /\ UNCHANGED <<taskId, claims, doneEvents, broker, worker, backlog>>

(* cancel()'s refresh, then revoke(terminate=True).  The nodes that get the *)
(* broadcast kill the process executing the task, whose message is then     *)
(* acknowledged, and will drop the message if it still waits; a node that   *)
(* is down does not get it, and a broker that is down refuses it.           *)
Revoke(h) ==
    /\ At(h, "revoke") /\ Exists(Row(h))
    /\ LET t == taskId[Row(h)] IN
       \/ /\ t # None
          /\ queued' = queued \ {t}
          /\ worker' = [w \in Workers |-> IF worker[w].task = t THEN IdleWorker ELSE worker[w]]
       \/ /\ t = None \/ Faults \cap {"broker", "node"} # {}
          /\ UNCHANGED <<queued, worker>>
    /\ Finish(h)
    /\ UNCHANGED <<rows, kind, target, backlog>>

(* DELETE /runs/{id} and DELETE /runs/canceled.  Uncommitted step runs and  *)
(* events of an execution lock the row against deletion by their foreign    *)
(* keys, and the delete waits for the execution's transaction to end.       *)
DeleteLoad(h, r) == Load(h, r, Deletable, "delete")

Executes(w, r) == worker[w].pc # "idle" /\ target[worker[w].task] = r

LocksRow(w, r) == Executes(w, r) /\ worker[w].pc \in {"flushed", "complete", "fail"}

DeleteCommit(h) ==
    /\ At(h, "delete") /\ Exists(Row(h))
    /\ \A w \in Workers : ~LocksRow(w, Row(h))
    /\ status' = [status EXCEPT ![Row(h)] = "deleted"]
    /\ recent' = [recent EXCEPT ![Row(h)] = FALSE]
    /\ taskId' = [taskId EXCEPT ![Row(h)] = None]
    /\ doneEvents' = [doneEvents EXCEPT ![Row(h)] = 0]
    /\ Finish(h)
    /\ UNCHANGED <<claims, broker, worker, backlog>>

(* The API process dies: the request is lost between two of its commits *)
ApiCrash(h) ==
    /\ "api" \in Faults /\ ~At(h, "idle")
    /\ Finish(h)
    /\ UNCHANGED <<rows, broker, worker, backlog>>

-----------------------------------------------------------------------------
(* recover_running_workflows: one query for the stale runs, the session is  *)
(* closed, then one message per run; a refused message is skipped.          *)

Stale(r) == status[r] \in Active /\ ~recent[r]

RecoverScan(p) ==
    /\ backlog[p] = {}
    /\ \E r \in Runs : Stale(r)
    /\ backlog' = [backlog EXCEPT ![p] = {<<r, status[r]>> : r \in {q \in Runs : Stale(q)}}]
    /\ UNCHANGED <<rows, broker, worker, request>>

RecoveryTask(st) == IF st = "pending" THEN "run" ELSE "resume"

RecoverEnqueue(p, e) ==
    /\ e \in backlog[p]
    /\ backlog' = [backlog EXCEPT ![p] = @ \ {e}]
    /\ \/ \E t \in Tasks : Publish(RecoveryTask(e[2]), e[1], t)
       \/ QueueUnavailable /\ UNCHANGED broker
    /\ UNCHANGED <<rows, worker, request>>

-----------------------------------------------------------------------------
(* Pool processes. *)

Doing(w, pc) == worker[w].pc = pc
Job(w)       == target[worker[w].task]
Fresh(w)     == kind[worker[w].task] = "run"

Ack(w)         == worker' = [worker EXCEPT ![w] = IdleWorker]
GoTo(w, pc)    == worker' = [worker EXCEPT ![w].pc = pc]
Settle(w, pc)  == worker' = [worker EXCEPT ![w] =
                    [pc |-> pc, task |-> worker[w].task, seen |-> status[Job(w)]]]

(* A message reaches an idle process.  Nothing of the row or of the broker  *)
(* is touched between the delivery and the task's first statement.          *)
Take(w, t) ==
    /\ Doing(w, "idle") /\ t \in queued
    /\ queued' = queued \ {t}
    /\ UNCHANGED <<kind, target, request, backlog>>

Begin(w, t, pc) ==
    worker' = [worker EXCEPT ![w] = [pc |-> pc, task |-> t, seen |-> "none"]]

(* WorkflowRunRepository.claim_pending: SELECT ... FOR UPDATE, test, commit *)
Claimable(r) == status[r] = "pending"

ClaimPending(w, t) ==
    /\ kind[t] = "run" /\ Take(w, t)
    /\ IF Claimable(target[t])
       THEN /\ Write(target[t], "running")
            /\ claims' = [claims EXCEPT ![target[t]] = @ + 1]
            /\ Begin(w, t, "refresh")
       ELSE UNCHANGED <<status, recent, claims, worker>>
    /\ UNCHANGED <<taskId, doneEvents>>

(* _resume_workflow: get_by_id without a lock, go on only when RUNNING *)
ResumeRunnable(r) == status[r] = "running"

ResumeTask(w, t) ==
    /\ kind[t] = "resume" /\ Take(w, t)
    /\ IF ResumeRunnable(target[t]) THEN Begin(w, t, "exec") ELSE UNCHANGED worker
    /\ UNCHANGED rows

(* The pool process died on the task's first statement *)
DropMessage(t) ==
    /\ "child" \in Faults /\ t \in queued
    /\ queued' = queued \ {t}
    /\ UNCHANGED <<rows, kind, target, worker, request, backlog>>

(* The refresh that ends claim_pending.  execute_run's start() then assigns *)
(* RUNNING: to a row loaded as RUNNING that is no UPDATE, and any other     *)
(* status, a cancellation too, is overwritten.                              *)
ClaimRefresh(w) ==
    /\ Doing(w, "refresh")
    /\ CASE ~Exists(Job(w))            -> Ack(w)
         [] status[Job(w)] = "running" -> GoTo(w, "exec")
         [] OTHER                      -> GoTo(w, "start")
    /\ UNCHANGED <<rows, broker, request, backlog>>

Start(w) ==
    /\ Doing(w, "start")
    /\ IF Exists(Job(w))
       THEN Write(Job(w), "running") /\ GoTo(w, "exec")
       ELSE Ack(w) /\ UNCHANGED <<status, recent>>
    /\ UNCHANGED <<taskId, claims, doneEvents, broker, request, backlog>>

(* resolve_ai_service is outside the task's try block: when it raises, the  *)
(* task ends, the message is acknowledged and the row keeps its status.     *)
ResolveFails(w) ==
    /\ "resolve" \in Faults
    /\ Doing(w, "start") \/ Doing(w, "exec")
    /\ Ack(w)
    /\ UNCHANGED <<rows, broker, request, backlog>>

(* The engine flushes its first event; its foreign key needs the row *)
FirstFlush(w) ==
    /\ Doing(w, "exec")
    /\ IF Exists(Job(w)) THEN GoTo(w, "flushed") ELSE Ack(w)
    /\ UNCHANGED <<rows, broker, request, backlog>>

(* The engine raised, or it returned and execute_run flushed workflow_done; *)
(* a resume with no step left flushes nothing.  commit_complete and         *)
(* fail_with_error then refresh: a canceled run is left as it is and the    *)
(* transaction, with every step run and event, is dropped.                  *)
EngineEnds(w, pc) ==
    /\ \/ Doing(w, "flushed")
       \/ Doing(w, "exec") /\ (pc = "complete" => ~Fresh(w))
    /\ IF ~Exists(Job(w)) \/ KeepsCanceled(status[Job(w)])
       THEN Ack(w)
       ELSE Settle(w, pc)
    /\ UNCHANGED <<rows, broker, request, backlog>>

(* the commit of commit_complete *)
Complete(w) ==
    /\ Doing(w, "complete")
    /\ AssignWithText(Job(w), worker[w].seen, "completed")
    /\ doneEvents' = [doneEvents EXCEPT ![Job(w)] = IF Fresh(w) THEN @ + 1 ELSE @]
    /\ Ack(w)
    /\ UNCHANGED <<taskId, claims, broker, request, backlog>>

(* the commit of fail_with_error *)
Fail(w) ==
    /\ Doing(w, "fail")
    /\ AssignWithText(Job(w), worker[w].seen, "failed")
    /\ Ack(w)
    /\ UNCHANGED <<taskId, claims, doneEvents, broker, request, backlog>>

(* The pool process dies; the main process acknowledges its message *)
ChildDies(w) ==
    /\ "child" \in Faults /\ ~Doing(w, "idle")
    /\ Ack(w)
    /\ UNCHANGED <<rows, broker, request, backlog>>

(* task_acks_late: the message of a node that dies was never acknowledged *)
NodeDies(w) ==
    /\ "node" \in Faults /\ ~Doing(w, "idle")
    /\ queued' = queued \cup {worker[w].task}
    /\ Ack(w)
    /\ UNCHANGED <<rows, kind, target, request, backlog>>

(* The visibility timeout of the Redis transport redelivers a message that  *)
(* a live process has held for too long.                                    *)
VisibilityTimeout(w) ==
    /\ "node" \in Faults /\ ~Doing(w, "idle")
    /\ queued' = queued \cup {worker[w].task}
    /\ UNCHANGED <<rows, kind, target, worker, request, backlog>>

-----------------------------------------------------------------------------
HandlerStep(h) ==
    \/ EnqueueRun(h) \/ UnqueuedRefresh(h) \/ UnqueuedFail(h) \/ SetTaskId(h)
    \/ ResumeStart(h) \/ EnqueueResume(h) \/ ResumeRestore(h)
    \/ CancelCommit(h) \/ Revoke(h) \/ DeleteCommit(h) \/ RowGone(h)

NewRequest(h) ==
    \E r \in Runs : \/ CreateRun(h, r)  \/ ResumeLoad(h, r)
                    \/ CancelLoad(h, r) \/ DeleteLoad(h, r)

WorkerStep(w) ==
    \/ \E t \in Tasks : ClaimPending(w, t) \/ ResumeTask(w, t)
    \/ ClaimRefresh(w) \/ Start(w)
    \/ EngineEnds(w, "complete") \/ EngineEnds(w, "fail")
    \/ Complete(w) \/ Fail(w)

WorkerFault(w) ==
    ResolveFails(w) \/ ChildDies(w) \/ NodeDies(w) \/ VisibilityTimeout(w)

Recovery(p) == RecoverScan(p) \/ \E e \in backlog[p] : RecoverEnqueue(p, e)

Next ==
    \/ \E h \in Handlers : HandlerStep(h) \/ NewRequest(h) \/ ApiCrash(h)
    \/ \E w \in Workers : WorkerStep(w) \/ FirstFlush(w) \/ WorkerFault(w)
    \/ \E p \in Recoverers : Recovery(p)
    \/ \E r \in Runs : Age(r)
    \/ \E t \in Tasks : DropMessage(t)

Spec == Init /\ [][Next]_vars

(* A live broker, live processes and requests that run to their end: what   *)
(* asyncio, the Celery consumer loop and PostgreSQL do when nothing fails.  *)
Fairness ==
    /\ \A h \in Handlers : WF_vars(HandlerStep(h))
    /\ \A w \in Workers : WF_vars(WorkerStep(w))

FairSpec == Spec /\ Fairness

-----------------------------------------------------------------------------
(* Properties *)

RowsOK ==
    /\ status \in [Runs -> Stored \cup {"absent", "deleted"}]
    /\ recent \in [Runs -> BOOLEAN]
    /\ taskId \in [Runs -> Tasks \cup {None}]
    /\ claims \in [Runs -> Nat]
    /\ doneEvents \in [Runs -> Nat]

BrokerOK ==
    /\ kind \in [Tasks -> {"none", "run", "resume"}]
    /\ target \in [Tasks -> Runs \cup {None}]
    /\ queued \subseteq Tasks

WorkersOK ==
    worker \in [Workers ->
        [pc : {"idle", "refresh", "start", "exec", "flushed", "complete", "fail"},
         task : Tasks \cup {None}, seen : Stored \cup {"none"}]]

RequestsOK ==
    request \in [Handlers ->
        [pc : {"idle", "enqueue", "unqueued", "fail", "record", "resume", "reenqueue",
               "restore", "cancel", "revoke", "delete"},
         run : Runs \cup {None}, task : Tasks \cup {None},
         prev : Resumable \cup {"none"}, seen : Stored \cup {"none"}]]

TypeOK ==
    /\ RowsOK /\ BrokerOK /\ WorkersOK /\ RequestsOK
    /\ backlog \in [Recoverers -> SUBSET (Runs \X Active)]

(* Whatever is delivered twice, re-enqueued by a recovery or retried after  *)
(* a crash, a run is claimed for execution from its start at most once.     *)
FreshExecutionOnce == \A r \in Runs : claims[r] <= 1

(* As long as no resume of a run was ever enqueued, by a user or by a       *)
(* recovery, at most one process executes it.                               *)
ResumeIssued(r) == \E t \in Tasks : kind[t] = "resume" /\ target[t] = r

SoleExecutorUnlessResumed ==
    \A r \in Runs : ~ResumeIssued(r) =>
        \A v, w \in Workers : Executes(v, r) /\ Executes(w, r) => v = w

(* The run's history holds workflow_done at most once, and once it is there *)
(* no execution is left that could commit a second one.                     *)
WorkflowDoneOnce ==
    \A r \in Runs : /\ doneEvents[r] <= 1
                    /\ doneEvents[r] = 1 => \A w \in Workers : ~(Executes(w, r) /\ Fresh(w))

(* Nobody holds a read of the row, older than the cancellation, that a      *)
(* pending write rests on, and no user asked for a resume.                  *)
NoWriteUnderWay(r) ==
    /\ \A h \in Handlers : Row(h) = r =>
            ~(At(h, "resume") \/ At(h, "restore") \/ At(h, "fail"))
    /\ \A w \in Workers : Executes(w, r) =>
            /\ ~Doing(w, "start")
            /\ Doing(w, "complete") \/ Doing(w, "fail") => worker[w].seen = "canceled"

(* A committed cancellation that no write was racing with stays: neither a  *)
(* process that still executes the run, nor a delivery, nor a recovery      *)
(* changes the status again before the user resumes or deletes the run.     *)
CancelStays ==
    [][\A r \in Runs : status[r] = "canceled" /\ NoWriteUnderWay(r) =>
            status'[r] \in {"canceled", "deleted"}]_vars

(* Without a crash between a commit and the publish after it, a PENDING run *)
(* is never lost: a request is about to enqueue it or to fail it, or its    *)
(* message waits in Redis, or a process is about to claim it.               *)
PendingNeverLost ==
    \A r \in Runs : status[r] = "pending" =>
        \/ \E h \in Handlers : Row(h) = r /\ \E pc \in {"enqueue", "unqueued", "fail"} : At(h, pc)
        \/ \E t \in queued : kind[t] = "run" /\ target[t] = r

(* Recovery's docstring: a run that a live worker still processes is left   *)
(* alone.                                                                   *)
RecoverySparesLiveRuns ==
    [][\A p \in Recoverers : backlog[p] = {} =>
            \A e \in backlog'[p] : e[2] = "running" => \A w \in Workers : ~Executes(w, e[1])]_vars

(* README 7b: a run that waits is picked up once a worker is there.         *)
PendingIsPickedUp ==
    \A r \in Runs : status[r] = "pending" ~> status[r] # "pending"

(* The README's workflow flow: pending -> running -> completed, or failed.  *)
RunningSettles ==
    \A r \in Runs : status[r] = "running" ~> status[r] # "running"

(* ... which the code keeps as long as no user cancels.                     *)
RunningSettlesUnlessCanceled ==
    [](\A h \in Handlers : ~At(h, "cancel")) => RunningSettles
=============================================================================
