------------------------- MODULE WorkflowRunsProofs -------------------------
(***************************************************************************)
(* Proofs about WorkflowRuns for any runs, tasks, processes, requests,     *)
(* recovery passes and faults.                                             *)
(***************************************************************************)
EXTENDS WorkflowRuns, TLAPS

(* What the records of the types hold at which step *)
MessageInv ==
    \A t \in Tasks : kind[t] # "none" => target[t] \in Runs

QueueInv ==
    \A t \in queued : kind[t] # "none"

WorkerInv ==
    \A w \in Workers : ~Doing(w, "idle") =>
        /\ worker[w].task \in Tasks
        /\ kind[worker[w].task] # "none"

RequestInv ==
    \A h \in Handlers :
        /\ ~At(h, "idle") => Row(h) \in Runs
        /\ At(h, "record") => request[h].task \in Tasks
        /\ At(h, "resume") \/ At(h, "reenqueue") \/ At(h, "restore") =>
                request[h].prev \in Resumable

TypeInv == TypeOK /\ MessageInv /\ QueueInv /\ WorkerInv /\ RequestInv

(* A fresh execution: a process that won claim_pending and has not ended *)
FreshExecutes(w, r) == Executes(w, r) /\ Fresh(w)

(* A run nobody claimed has no fresh execution, and a run that can still be *)
(* claimed was never claimed before.                                        *)
ClaimInv ==
    \A r \in Runs :
        /\ claims[r] \in {0, 1}
        /\ status[r] \in {"absent", "pending"} => claims[r] = 0
        /\ claims[r] = 0 => \A w \in Workers : ~FreshExecutes(w, r)

SoleInv ==
    \A r \in Runs : \A v, w \in Workers :
        FreshExecutes(v, r) /\ FreshExecutes(w, r) => v = w

DoneInv ==
    \A r \in Runs :
        /\ doneEvents[r] \in {0, 1}
        /\ doneEvents[r] = 1 => claims[r] = 1 /\ \A w \in Workers : ~FreshExecutes(w, r)

IInv == TypeInv /\ ClaimInv /\ SoleInv /\ DoneInv

-----------------------------------------------------------------------------
LEMMA WriteType ==
  ASSUME NEW r \in Runs, NEW new \in Stored, RowsOK, Write(r, new)
  PROVE  /\ status' \in [Runs -> Stored \cup {"absent", "deleted"}]
         /\ recent' \in [Runs -> BOOLEAN]
  BY DEF RowsOK, Write

LEMMA TypeStep == TypeInv /\ [Next]_vars => TypeInv'
<1> SUFFICES ASSUME TypeInv, [Next]_vars PROVE TypeInv'
  OBVIOUS
<1> USE DEF TypeInv, TypeOK, RowsOK, BrokerOK, WorkersOK, RequestsOK, MessageInv, QueueInv, WorkerInv, RequestInv, At, Row, Doing, Exists,
            Stored, Active, Resumable, Deletable, IdleWorker, IdleRequest, rows, broker
<1>1. ASSUME NEW h \in Handlers, NEW r \in Runs, CreateRun(h, r) PROVE TypeInv'
  BY <1>1 DEF CreateRun, Write, Job, Fresh
<1>2. ASSUME NEW h \in Handlers, EnqueueRun(h) PROVE TypeInv'
  <2> USE <1>2 DEF EnqueueRun, Publish, MoveTo, Job, Fresh
  <2>1. TypeOK'
    <3>1. ASSUME NEW t \in Tasks, Publish("run", Row(h), t) /\ MoveTo(h, "record", t, "none")
          PROVE TypeOK'
      BY <3>1
    <3>2. CASE UNCHANGED broker
      BY <3>2
    <3> QED
      BY <3>1, <3>2
  <2>2. MessageInv'
    OBVIOUS
  <2>3. QueueInv'
    OBVIOUS
  <2>4. WorkerInv'
    OBVIOUS
  <2>5. RequestInv'
    <3>1. ASSUME NEW t \in Tasks, Publish("run", Row(h), t) /\ MoveTo(h, "record", t, "none")
          PROVE RequestInv'
      BY <3>1
    <3>2. CASE UNCHANGED broker
      BY <3>2
    <3> QED
      BY <3>1, <3>2
  <2> QED
    BY <2>1, <2>2, <2>3, <2>4, <2>5
<1>3. ASSUME NEW h \in Handlers, UnqueuedRefresh(h) PROVE TypeInv'
  <2> USE <1>3 DEF UnqueuedRefresh, KeepsCanceled, Finish, MoveTo, Job, Fresh
  <2>1. TypeOK'
    OBVIOUS
  <2>2. MessageInv'
    OBVIOUS
  <2>3. QueueInv'
    OBVIOUS
  <2>4. WorkerInv'
    OBVIOUS
  <2>5. RequestInv'
    OBVIOUS
  <2> QED
    BY <2>1, <2>2, <2>3, <2>4, <2>5
<1>4. ASSUME NEW h \in Handlers, UnqueuedFail(h) PROVE TypeInv'
  BY <1>4 DEF UnqueuedFail, AssignWithText, QueueFailureStatus, Finish, Job, Fresh
<1>5. ASSUME NEW h \in Handlers, SetTaskId(h) PROVE TypeInv'
  BY <1>5 DEF SetTaskId, Finish, Job, Fresh
<1>6. ASSUME NEW h \in Handlers, NEW r \in Runs, ResumeLoad(h, r) PROVE TypeInv'
  BY <1>6 DEF ResumeLoad, Load, Job, Fresh
<1>7. ASSUME NEW h \in Handlers, NEW r \in Runs, CancelLoad(h, r) PROVE TypeInv'
  BY <1>7 DEF CancelLoad, Load, Job, Fresh
<1>8. ASSUME NEW h \in Handlers, NEW r \in Runs, DeleteLoad(h, r) PROVE TypeInv'
  BY <1>8 DEF DeleteLoad, Load, Job, Fresh
<1>9. ASSUME NEW h \in Handlers, ResumeStart(h) PROVE TypeInv'
  <2> USE <1>9 DEF ResumeStart, Write, MoveTo, Job, Fresh
  <2>1. TypeOK'
    OBVIOUS
  <2>2. MessageInv'
    OBVIOUS
  <2>3. QueueInv'
    OBVIOUS
  <2>4. WorkerInv'
    OBVIOUS
  <2>5. RequestInv'
    OBVIOUS
  <2> QED
    BY <2>1, <2>2, <2>3, <2>4, <2>5
<1>10. ASSUME NEW h \in Handlers, EnqueueResume(h) PROVE TypeInv'
  <2> USE <1>10 DEF EnqueueResume, Publish, MoveTo, Job, Fresh
  <2>1. TypeOK'
    <3>1. ASSUME NEW t \in Tasks, Publish("resume", Row(h), t) /\ MoveTo(h, "record", t, "none")
          PROVE TypeOK'
      BY <3>1
    <3>2. CASE UNCHANGED broker
      BY <3>2
    <3> QED
      BY <3>1, <3>2
  <2>2. MessageInv'
    OBVIOUS
  <2>3. QueueInv'
    OBVIOUS
  <2>4. WorkerInv'
    OBVIOUS
  <2>5. RequestInv'
    <3>1. ASSUME NEW t \in Tasks, Publish("resume", Row(h), t) /\ MoveTo(h, "record", t, "none")
          PROVE RequestInv'
      BY <3>1
    <3>2. CASE UNCHANGED broker
      BY <3>2
    <3> QED
      BY <3>1, <3>2
  <2> QED
    BY <2>1, <2>2, <2>3, <2>4, <2>5
<1>11. ASSUME NEW h \in Handlers, ResumeRestore(h) PROVE TypeInv'
  <2> USE <1>11 DEF ResumeRestore, Assign, Write, Finish, Job, Fresh
  <2>1. TypeOK'
    <3>1. CASE UNCHANGED <<status, recent>>
      BY <3>1
    <3>2. CASE Write(Row(h), request[h].prev)
      BY <3>2
    <3> QED
      BY <3>1, <3>2
  <2>2. MessageInv'
    OBVIOUS
  <2>3. QueueInv'
    OBVIOUS
  <2>4. WorkerInv'
    OBVIOUS
  <2>5. RequestInv'
    OBVIOUS
  <2> QED
    BY <2>1, <2>2, <2>3, <2>4, <2>5
<1>12. ASSUME NEW h \in Handlers, CancelCommit(h) PROVE TypeInv'
  BY <1>12 DEF CancelCommit, Write, MoveTo, Job, Fresh
<1>13. ASSUME NEW h \in Handlers, Revoke(h) PROVE TypeInv'
  BY <1>13 DEF Revoke, Finish, Job, Fresh
<1>14. ASSUME NEW h \in Handlers, DeleteCommit(h) PROVE TypeInv'
  BY <1>14 DEF DeleteCommit, Finish, Job, Fresh
<1>15. ASSUME NEW h \in Handlers, RowGone(h) PROVE TypeInv'
  BY <1>15 DEF RowGone, Finish, Job, Fresh
<1>16. ASSUME NEW h \in Handlers, ApiCrash(h) PROVE TypeInv'
  BY <1>16 DEF ApiCrash, Finish, Job, Fresh
<1>17. ASSUME NEW p \in Recoverers, RecoverScan(p) PROVE TypeInv'
  BY <1>17 DEF RecoverScan, Stale, Job, Fresh
<1>18. ASSUME NEW p \in Recoverers, NEW e \in backlog[p], RecoverEnqueue(p, e) PROVE TypeInv'
  <2> USE <1>18 DEF RecoverEnqueue, RecoveryTask, Publish, Job, Fresh
  <2>1. TypeOK'
    <3> e[1] \in Runs /\ e[2] \in Active
      OBVIOUS
    <3>1. RowsOK'
      OBVIOUS
    <3>2. BrokerOK'
      OBVIOUS
    <3>3. WorkersOK'
      OBVIOUS
    <3>4. RequestsOK'
      OBVIOUS
    <3>5. (backlog \in [Recoverers -> SUBSET (Runs \X Active)])'
      OBVIOUS
    <3> QED
      BY <3>1, <3>2, <3>3, <3>4, <3>5
  <2>2. MessageInv'
    OBVIOUS
  <2>3. QueueInv'
    OBVIOUS
  <2>4. WorkerInv'
    OBVIOUS
  <2>5. RequestInv'
    OBVIOUS
  <2> QED
    BY <2>1, <2>2, <2>3, <2>4, <2>5
<1>19. ASSUME NEW w \in Workers, NEW t \in Tasks, ClaimPending(w, t) PROVE TypeInv'
  <2> USE <1>19 DEF ClaimPending, Take, Begin, Claimable, Job, Fresh
  <2>1. TypeOK'
    <3> target[t] \in Runs
      OBVIOUS
    <3>1. RowsOK'
      <4>1. CASE Claimable(target[t])
        <5>1. status' \in [Runs -> Stored \cup {"absent", "deleted"}] /\ recent' \in [Runs -> BOOLEAN]
          BY <4>1, WriteType
        <5>2. claims' \in [Runs -> Nat]
          BY <4>1
        <5> QED
          BY <4>1, <5>1, <5>2
      <4>2. CASE ~Claimable(target[t])
        BY <4>2
      <4> QED
        BY <4>1, <4>2
    <3>2. BrokerOK'
      OBVIOUS
    <3>3. WorkersOK'
      OBVIOUS
    <3>4. RequestsOK'
      OBVIOUS
    <3>5. (backlog \in [Recoverers -> SUBSET (Runs \X Active)])'
      OBVIOUS
    <3> QED
      BY <3>1, <3>2, <3>3, <3>4, <3>5
  <2>2. MessageInv'
    OBVIOUS
  <2>3. QueueInv'
    OBVIOUS
  <2>4. WorkerInv'
    <3>1. CASE Claimable(target[t])
      BY <3>1
    <3>2. CASE ~Claimable(target[t])
      BY <3>2
    <3> QED
      BY <3>1, <3>2
  <2>5. RequestInv'
    OBVIOUS
  <2> QED
    BY <2>1, <2>2, <2>3, <2>4, <2>5
<1>20. ASSUME NEW w \in Workers, NEW t \in Tasks, ResumeTask(w, t) PROVE TypeInv'
  <2> USE <1>20 DEF ResumeTask, Take, Begin, Job, Fresh
  <2>1. TypeOK'
    <3>1. CASE ResumeRunnable(target[t])
      BY <3>1
    <3>2. CASE ~ResumeRunnable(target[t])
      BY <3>2
    <3> QED
      BY <3>1, <3>2
  <2>2. MessageInv'
    OBVIOUS
  <2>3. QueueInv'
    OBVIOUS
  <2>4. WorkerInv'
    <3>1. CASE ResumeRunnable(target[t])
      BY <3>1
    <3>2. CASE ~ResumeRunnable(target[t])
      BY <3>2
    <3> QED
      BY <3>1, <3>2
  <2>5. RequestInv'
    OBVIOUS
  <2> QED
    BY <2>1, <2>2, <2>3, <2>4, <2>5
<1>21. ASSUME NEW w \in Workers, ClaimRefresh(w) PROVE TypeInv'
  <2> USE <1>21 DEF ClaimRefresh, Ack, GoTo, Job, Fresh
  <2>1. TypeOK'
    <3>1. CASE Ack(w)
      BY <3>1
    <3>2. CASE ~Ack(w)
      BY <3>2, SMTT(30)
    <3> QED
      BY <3>1, <3>2
  <2>2. MessageInv'
    OBVIOUS
  <2>3. QueueInv'
    OBVIOUS
  <2>4. WorkerInv'
    OBVIOUS
  <2>5. RequestInv'
    OBVIOUS
  <2> QED
    BY <2>1, <2>2, <2>3, <2>4, <2>5
<1>22. ASSUME NEW w \in Workers, Start(w) PROVE TypeInv'
  <2> USE <1>22 DEF Start, Ack, GoTo, Job, Fresh
  <2>1. TypeOK'
    <3> Job(w) \in Runs
      OBVIOUS
    <3>1. RowsOK'
      <4>1. CASE Exists(Job(w))
        BY <4>1, WriteType
      <4>2. CASE ~Exists(Job(w))
        BY <4>2
      <4> QED
        BY <4>1, <4>2
    <3>2. BrokerOK'
      OBVIOUS
    <3>3. WorkersOK'
      <4>1. CASE GoTo(w, "exec")
        BY <4>1, SMTT(30)
      <4>2. CASE Ack(w)
        BY <4>2
      <4> QED
        BY <4>1, <4>2
    <3>4. RequestsOK'
      OBVIOUS
    <3>5. (backlog \in [Recoverers -> SUBSET (Runs \X Active)])'
      OBVIOUS
    <3> QED
      BY <3>1, <3>2, <3>3, <3>4, <3>5
  <2>2. MessageInv'
    OBVIOUS
  <2>3. QueueInv'
    OBVIOUS
  <2>4. WorkerInv'
    OBVIOUS
  <2>5. RequestInv'
    OBVIOUS
  <2> QED
    BY <2>1, <2>2, <2>3, <2>4, <2>5
<1>23. ASSUME NEW w \in Workers, NEW pc \in {"complete", "fail"}, EngineEnds(w, pc) PROVE TypeInv'
  <2> USE <1>23 DEF EngineEnds, Ack, KeepsCanceled, Settle, Job, Fresh
  <2>1. TypeOK'
    <3>1. RowsOK'
      OBVIOUS
    <3>2. BrokerOK'
      OBVIOUS
    <3>3. WorkersOK'
      OBVIOUS
    <3>4. RequestsOK'
      OBVIOUS
    <3>5. (backlog \in [Recoverers -> SUBSET (Runs \X Active)])'
      OBVIOUS
    <3> QED
      BY <3>1, <3>2, <3>3, <3>4, <3>5
  <2>2. MessageInv'
    OBVIOUS
  <2>3. QueueInv'
    OBVIOUS
  <2>4. WorkerInv'
    <3>1. CASE Ack(w)
      BY <3>1
    <3>2. CASE Settle(w, pc)
      BY <3>2
    <3> QED
      BY <3>1, <3>2
  <2>5. RequestInv'
    OBVIOUS
  <2> QED
    BY <2>1, <2>2, <2>3, <2>4, <2>5
<1>24. ASSUME NEW w \in Workers, Complete(w) PROVE TypeInv'
  BY <1>24 DEF Complete, AssignWithText, Ack, Job, Fresh
<1>25. ASSUME NEW w \in Workers, Fail(w) PROVE TypeInv'
  BY <1>25 DEF Fail, AssignWithText, Ack, Job, Fresh
<1>26. ASSUME NEW w \in Workers, FirstFlush(w) PROVE TypeInv'
  BY <1>26 DEF FirstFlush, Ack, GoTo, Job, Fresh
<1>27. ASSUME NEW w \in Workers, ResolveFails(w) PROVE TypeInv'
  BY <1>27 DEF ResolveFails, Ack, Job, Fresh
<1>28. ASSUME NEW w \in Workers, ChildDies(w) PROVE TypeInv'
  BY <1>28 DEF ChildDies, Ack, Job, Fresh
<1>29. ASSUME NEW w \in Workers, NodeDies(w) PROVE TypeInv'
  BY <1>29 DEF NodeDies, Ack, Job, Fresh
<1>30. ASSUME NEW w \in Workers, VisibilityTimeout(w) PROVE TypeInv'
  BY <1>30 DEF VisibilityTimeout, Job, Fresh
<1>31. ASSUME NEW r \in Runs, Age(r) PROVE TypeInv'
  BY <1>31 DEF Age, Job, Fresh
<1>32. ASSUME NEW t \in Tasks, DropMessage(t) PROVE TypeInv'
  BY <1>32 DEF DropMessage, Job, Fresh
<1>u. CASE UNCHANGED vars
  BY <1>u DEF vars
<1> QED
  BY <1>1, <1>2, <1>3, <1>4, <1>5, <1>6, <1>7, <1>8, <1>9, <1>10, <1>11, <1>12, <1>13, <1>14, <1>15, <1>16, <1>17, <1>18, <1>19, <1>20, <1>21, <1>22, <1>23, <1>24, <1>25, <1>26, <1>27, <1>28, <1>29, <1>30, <1>31, <1>32, <1>u DEF Next, HandlerStep, NewRequest, WorkerStep, WorkerFault, Recovery

LEMMA TypeInit == Init => TypeInv
  BY RunsAssumption DEF Init, TypeInv, TypeOK, RowsOK, BrokerOK, WorkersOK, RequestsOK, MessageInv,
     QueueInv, WorkerInv, RequestInv, At, Row, Doing, IdleWorker, IdleRequest, Resumable

(* Type correctness: whatever the interleaving and the faults, the row, the *)
(* messages and the records of requests and processes keep their types.     *)
THEOREM TypeCorrect == Spec => []TypeOK
<1>1. Init => TypeInv
  BY TypeInit
<1>2. TypeInv /\ [Next]_vars => TypeInv'
  BY TypeStep
<1>3. TypeInv => TypeOK
  BY DEF TypeInv
<1> QED
  BY <1>1, <1>2, <1>3, PTL DEF Spec

-----------------------------------------------------------------------------
(* What every action but a claim, a completion and a deletion leaves alone: *)
(* the history of the runs and the meaning of the messages sent; and no     *)
(* process starts a fresh execution.                                        *)
HistoryKept ==
    /\ claims' = claims /\ doneEvents' = doneEvents
    /\ \A r \in Runs : status'[r] \in {"absent", "pending"} => status[r] \in {"absent", "pending"}

MessagesKept ==
    \A t \in Tasks : kind[t] # "none" => kind'[t] = kind[t] /\ target'[t] = target[t]

NoFreshStart ==
    \A w \in Workers : worker'[w].pc # "idle" =>
        \/ worker[w].pc # "idle" /\ worker'[w].task = worker[w].task
        \/ kind'[worker'[w].task] = "resume"

LEMMA FreshKept ==
  ASSUME TypeInv, MessagesKept, NoFreshStart
  PROVE  \A w \in Workers, r \in Runs : FreshExecutes(w, r)' => FreshExecutes(w, r)
  BY DEF TypeInv, WorkerInv, MessagesKept, NoFreshStart, FreshExecutes, Executes, Fresh, Doing

LEMMA QuietStep ==
  ASSUME IInv, HistoryKept, MessagesKept, NoFreshStart
  PROVE  (ClaimInv /\ SoleInv /\ DoneInv)'
<1>1. \A w \in Workers, r \in Runs : FreshExecutes(w, r)' => FreshExecutes(w, r)
  BY FreshKept DEF IInv
<1>2. ClaimInv'
  BY <1>1 DEF IInv, ClaimInv, HistoryKept
<1>3. SoleInv'
  BY <1>1 DEF IInv, SoleInv
<1>4. DoneInv'
  BY <1>1 DEF IInv, DoneInv, HistoryKept
<1> QED
  BY <1>2, <1>3, <1>4

LEMMA DeleteStep ==
  ASSUME IInv, NEW h \in Handlers, DeleteCommit(h)
  PROVE  (ClaimInv /\ SoleInv /\ DoneInv)'
<1>1. MessagesKept /\ NoFreshStart
  BY DEF DeleteCommit, broker, MessagesKept, NoFreshStart
<1>2. \A w \in Workers, r \in Runs : FreshExecutes(w, r)' => FreshExecutes(w, r)
  BY <1>1, FreshKept DEF IInv
<1>3. /\ claims' = claims
      /\ \A r \in Runs : /\ status'[r] \in {"absent", "pending"} => status[r] \in {"absent", "pending"}
                         /\ doneEvents'[r] \in {0, doneEvents[r]}
  BY DEF DeleteCommit, IInv, TypeInv, TypeOK, RowsOK
<1>4. ClaimInv'
  BY <1>2, <1>3 DEF IInv, ClaimInv
<1>5. SoleInv'
  BY <1>2 DEF IInv, SoleInv
<1>6. DoneInv'
  BY <1>2, <1>3 DEF IInv, DoneInv
<1> QED
  BY <1>4, <1>5, <1>6

LEMMA CompleteStep ==
  ASSUME IInv, NEW w \in Workers, Complete(w)
  PROVE  (ClaimInv /\ SoleInv /\ DoneInv)'
<1>1. MessagesKept /\ NoFreshStart
  BY DEF Complete, Ack, IdleWorker, broker, MessagesKept, NoFreshStart, IInv, TypeInv, TypeOK, WorkersOK
<1>2. \A v \in Workers, r \in Runs : FreshExecutes(v, r)' => FreshExecutes(v, r)
  BY <1>1, FreshKept DEF IInv
<1>3. PICK j \in Runs : j = Job(w)
  BY DEF Complete, Doing, Job, IInv, TypeInv, WorkerInv, MessageInv
<1>4. claims' = claims
  BY DEF Complete
<1>5. \A r \in Runs : status'[r] \in {"absent", "pending"} => status[r] \in {"absent", "pending"}
  BY <1>3 DEF Complete, AssignWithText, IInv, TypeInv, TypeOK, RowsOK
<1>6. ClaimInv'
  BY <1>2, <1>4, <1>5 DEF IInv, ClaimInv
<1>7. SoleInv'
  BY <1>2 DEF IInv, SoleInv
<1>8. DoneInv'
  <2>1. CASE Fresh(w)
    <3>1. FreshExecutes(w, j)
      BY <1>3, <2>1 DEF FreshExecutes, Executes, Complete, Doing, Job
    <3>2. doneEvents[j] = 0 /\ claims[j] = 1
      BY <3>1, <1>3 DEF IInv, DoneInv, ClaimInv
    <3>3. doneEvents' = [doneEvents EXCEPT ![j] = 1]
      BY <2>1, <3>2, <1>3 DEF Complete, IInv, TypeInv, TypeOK, RowsOK
    <3>4. ~FreshExecutes(w, j)'
      BY DEF FreshExecutes, Executes, Complete, Ack, IdleWorker, IInv, TypeInv, TypeOK, WorkersOK
    <3>5. \A v \in Workers : ~FreshExecutes(v, j)'
      BY <1>2, <1>3, <3>1, <3>4 DEF IInv, SoleInv
    <3> QED
      BY <1>2, <1>3, <1>4, <3>2, <3>3, <3>5 DEF IInv, DoneInv, TypeInv, TypeOK, RowsOK
  <2>2. CASE ~Fresh(w)
    <3>1. doneEvents' = doneEvents
      BY <2>2 DEF Complete, IInv, TypeInv, TypeOK, RowsOK
    <3> QED
      BY <1>2, <1>4, <3>1 DEF IInv, DoneInv
  <2> QED
    BY <2>1, <2>2
<1> QED
  BY <1>6, <1>7, <1>8

LEMMA ClaimStep ==
  ASSUME IInv, NEW w \in Workers, NEW t \in Tasks, ClaimPending(w, t)
  PROVE  (ClaimInv /\ SoleInv /\ DoneInv)'
<1>1. MessagesKept
  BY DEF ClaimPending, Take, MessagesKept
<1>2. target[t] \in Runs
  BY DEF ClaimPending, Take, IInv, TypeInv, QueueInv, MessageInv
<1>3. CASE Claimable(target[t])
  <2> DEFINE j == target[t]
  <2>1. status[j] = "pending" /\ claims[j] = 0 /\ doneEvents[j] = 0
    BY <1>2, <1>3 DEF Claimable, IInv, ClaimInv, DoneInv
  <2>2. claims' = [claims EXCEPT ![j] = 1] /\ doneEvents' = doneEvents
    BY <1>2, <1>3, <2>1 DEF ClaimPending, IInv, TypeInv, TypeOK, RowsOK
  <2>3. status' = [status EXCEPT ![j] = "running"]
    BY <1>3 DEF ClaimPending, Write
  <2>4. worker' = [worker EXCEPT ![w] = [pc |-> "refresh", task |-> t, seen |-> "none"]]
    BY <1>3 DEF ClaimPending, Begin
  <2>5. kind' = kind /\ target' = target
    BY DEF ClaimPending, Take
  <2>6. \A v \in Workers, r \in Runs : FreshExecutes(v, r)' =>
            \/ v = w /\ r = j
            \/ FreshExecutes(v, r) /\ r # j
    <3> SUFFICES ASSUME NEW v \in Workers, NEW r \in Runs, FreshExecutes(v, r)'
                 PROVE  (v = w /\ r = j) \/ (FreshExecutes(v, r) /\ r # j)
      OBVIOUS
    <3>1. CASE v = w
      <4>1. worker'[w].task = t
        BY <2>4 DEF IInv, TypeInv, TypeOK, WorkersOK
      <4>2. target'[t] = r
        BY <3>1, <4>1 DEF FreshExecutes, Executes
      <4>3. r = j
        BY <4>2, <2>5
      <4> QED
        BY <3>1, <4>3
    <3>2. CASE v # w
      <4>1. FreshExecutes(v, r)
        BY <3>2, <2>4, <2>5 DEF FreshExecutes, Executes, Fresh, IInv, TypeInv, TypeOK, WorkersOK
      <4> QED
        BY <4>1, <1>2, <2>1 DEF IInv, ClaimInv
    <3> QED
      BY <3>1, <3>2
  <2> HIDE DEF j
  <2>7. ClaimInv'
    BY <2>1, <2>2, <2>3, <2>6 DEF IInv, ClaimInv, TypeInv, TypeOK, RowsOK
  <2>8. SoleInv'
    BY <2>6 DEF IInv, SoleInv
  <2>9. DoneInv'
    BY <2>1, <2>2, <2>6 DEF IInv, DoneInv, TypeInv, TypeOK, RowsOK
  <2> QED
    BY <2>7, <2>8, <2>9
<1>4. CASE ~Claimable(target[t])
  <2>1. HistoryKept /\ NoFreshStart
    BY <1>4 DEF ClaimPending, HistoryKept, NoFreshStart
  <2> QED
    BY <1>1, <2>1, QuietStep
<1> QED
  BY <1>3, <1>4

LEMMA InvStep == IInv /\ [Next]_vars => IInv'
<1> SUFFICES ASSUME IInv, [Next]_vars PROVE (ClaimInv /\ SoleInv /\ DoneInv)'
  BY TypeStep DEF IInv
<1> DEFINE Quiet == HistoryKept /\ MessagesKept /\ NoFreshStart
<1> USE DEF IInv, TypeInv, TypeOK, RowsOK, BrokerOK, WorkersOK, RequestsOK, MessageInv, QueueInv, WorkerInv,
            RequestInv, At, Row, Doing, Exists, Stored, Active, Resumable, IdleWorker, rows, broker,
            Job, Fresh, HistoryKept, MessagesKept, NoFreshStart
<1>1. ASSUME NEW h \in Handlers, NEW r \in Runs, CreateRun(h, r) PROVE Quiet
  BY <1>1 DEF CreateRun, Write
<1>2. ASSUME NEW h \in Handlers, EnqueueRun(h) PROVE Quiet
  BY <1>2 DEF EnqueueRun, Publish
<1>3. ASSUME NEW h \in Handlers, UnqueuedRefresh(h) PROVE Quiet
  BY <1>3 DEF UnqueuedRefresh
<1>4. ASSUME NEW h \in Handlers, UnqueuedFail(h) PROVE Quiet
  BY <1>4 DEF UnqueuedFail, AssignWithText, QueueFailureStatus
<1>5. ASSUME NEW h \in Handlers, SetTaskId(h) PROVE Quiet
  BY <1>5 DEF SetTaskId
<1>6. ASSUME NEW h \in Handlers, NEW r \in Runs, ResumeLoad(h, r) PROVE Quiet
  BY <1>6 DEF ResumeLoad, Load
<1>7. ASSUME NEW h \in Handlers, NEW r \in Runs, CancelLoad(h, r) PROVE Quiet
  BY <1>7 DEF CancelLoad, Load
<1>8. ASSUME NEW h \in Handlers, NEW r \in Runs, DeleteLoad(h, r) PROVE Quiet
  BY <1>8 DEF DeleteLoad, Load
<1>9. ASSUME NEW h \in Handlers, ResumeStart(h) PROVE Quiet
  BY <1>9 DEF ResumeStart, Write
<1>10. ASSUME NEW h \in Handlers, EnqueueResume(h) PROVE Quiet
  BY <1>10 DEF EnqueueResume, Publish
<1>11. ASSUME NEW h \in Handlers, ResumeRestore(h) PROVE Quiet
  BY <1>11 DEF ResumeRestore, Assign, Write
<1>12. ASSUME NEW h \in Handlers, CancelCommit(h) PROVE Quiet
  BY <1>12 DEF CancelCommit, Write
<1>13. ASSUME NEW h \in Handlers, Revoke(h) PROVE Quiet
  BY <1>13 DEF Revoke
<1>14. ASSUME NEW h \in Handlers, RowGone(h) PROVE Quiet
  BY <1>14 DEF RowGone
<1>15. ASSUME NEW h \in Handlers, ApiCrash(h) PROVE Quiet
  BY <1>15 DEF ApiCrash
<1>16. ASSUME NEW p \in Recoverers, RecoverScan(p) PROVE Quiet
  BY <1>16 DEF RecoverScan
<1>17. ASSUME NEW p \in Recoverers, NEW e \in backlog[p], RecoverEnqueue(p, e) PROVE Quiet
  BY <1>17 DEF RecoverEnqueue, Publish
<1>18. ASSUME NEW w \in Workers, NEW t \in Tasks, ResumeTask(w, t) PROVE Quiet
  BY <1>18 DEF ResumeTask, Take, Begin
<1>19. ASSUME NEW w \in Workers, ClaimRefresh(w) PROVE Quiet
  BY <1>19 DEF ClaimRefresh, Ack, GoTo
<1>20. ASSUME NEW w \in Workers, Start(w) PROVE Quiet
  BY <1>20, SMTT(30) DEF Start, Write, Ack, GoTo
<1>21. ASSUME NEW w \in Workers, NEW pc \in {"complete", "fail"}, EngineEnds(w, pc) PROVE Quiet
  BY <1>21 DEF EngineEnds, Ack, Settle
<1>22. ASSUME NEW w \in Workers, Fail(w) PROVE Quiet
  BY <1>22 DEF Fail, AssignWithText, Ack
<1>23. ASSUME NEW w \in Workers, FirstFlush(w) PROVE Quiet
  BY <1>23 DEF FirstFlush, Ack, GoTo
<1>24. ASSUME NEW w \in Workers, ResolveFails(w) PROVE Quiet
  BY <1>24 DEF ResolveFails, Ack
<1>25. ASSUME NEW w \in Workers, ChildDies(w) PROVE Quiet
  BY <1>25 DEF ChildDies, Ack
<1>26. ASSUME NEW w \in Workers, NodeDies(w) PROVE Quiet
  BY <1>26 DEF NodeDies, Ack
<1>27. ASSUME NEW w \in Workers, VisibilityTimeout(w) PROVE Quiet
  BY <1>27 DEF VisibilityTimeout
<1>28. ASSUME NEW r \in Runs, Age(r) PROVE Quiet
  BY <1>28 DEF Age
<1>29. ASSUME NEW t \in Tasks, DropMessage(t) PROVE Quiet
  BY <1>29 DEF DropMessage
<1>30. CASE UNCHANGED vars
  <2> Quiet
    BY <1>30 DEF vars
  <2> QED
    BY QuietStep
<1>31. ASSUME NEW h \in Handlers, DeleteCommit(h) PROVE (ClaimInv /\ SoleInv /\ DoneInv)'
  BY <1>31, DeleteStep
<1>32. ASSUME NEW w \in Workers, NEW t \in Tasks, ClaimPending(w, t) PROVE (ClaimInv /\ SoleInv /\ DoneInv)'
  BY <1>32, ClaimStep
<1>33. ASSUME NEW w \in Workers, Complete(w) PROVE (ClaimInv /\ SoleInv /\ DoneInv)'
  BY <1>33, CompleteStep
<1> QED
  BY <1>1, <1>2, <1>3, <1>4, <1>5, <1>6, <1>7, <1>8, <1>9, <1>10, <1>11, <1>12, <1>13, <1>14, <1>15, <1>16, <1>17, <1>18, <1>19, <1>20, <1>21, <1>22, <1>23, <1>24, <1>25, <1>26, <1>27, <1>28, <1>29, <1>30, <1>31, <1>32, <1>33, QuietStep DEF Next, HandlerStep, NewRequest, WorkerStep, WorkerFault, Recovery, Quiet

LEMMA InvInit == Init => IInv
<1> SUFFICES ASSUME Init PROVE IInv
  OBVIOUS
<1>1. TypeInv
  BY TypeInit
<1>2. \A w \in Workers, r \in Runs : ~FreshExecutes(w, r)
  BY DEF Init, FreshExecutes, Executes, IdleWorker
<1>3. ClaimInv /\ SoleInv /\ DoneInv
  BY <1>2 DEF Init, ClaimInv, SoleInv, DoneInv
<1> QED
  BY <1>1, <1>3 DEF IInv

(* What the three properties below rest on: claims, fresh executions and the *)
(* committed workflow_done of each run, together.                           *)
THEOREM InductiveInvariant == Spec => []IInv
  BY InvInit, InvStep, PTL DEF Spec

(* claim_pending wins a run once, whatever is delivered twice, redelivered  *)
(* after a crash, retried or re-enqueued by a recovery.                     *)
THEOREM ClaimedOnce == Spec => []FreshExecutionOnce
<1>1. IInv => FreshExecutionOnce
  BY DEF IInv, ClaimInv, FreshExecutionOnce
<1> QED
  BY <1>1, InductiveInvariant, PTL

(* Two processes execute the same run only after a resume of it was sent. *)
THEOREM SoleExecutor == Spec => []SoleExecutorUnlessResumed
<1>1. IInv => SoleExecutorUnlessResumed
  <2> SUFFICES ASSUME IInv, NEW r \in Runs, ~ResumeIssued(r),
                      NEW v \in Workers, NEW w \in Workers, Executes(v, r), Executes(w, r)
               PROVE  v = w
    BY DEF SoleExecutorUnlessResumed
  <2>1. \A u \in Workers : Executes(u, r) => FreshExecutes(u, r)
    BY DEF IInv, TypeInv, TypeOK, BrokerOK, WorkerInv, Doing, Executes, FreshExecutes, Fresh, ResumeIssued
  <2> QED
    BY <2>1 DEF IInv, SoleInv
<1> QED
  BY <1>1, InductiveInvariant, PTL

(* workflow_done is committed at most once in the life of a run, and not    *)
(* while a process could still commit another.                              *)
THEOREM DoneOnce == Spec => []WorkflowDoneOnce
<1>1. IInv => WorkflowDoneOnce
  BY DEF IInv, DoneInv, WorkflowDoneOnce, FreshExecutes
<1> QED
  BY <1>1, InductiveInvariant, PTL

-----------------------------------------------------------------------------
(* A request that is about to publish the message of a run, or to fail it   *)
Waits(h) == \E pc \in {"enqueue", "unqueued", "fail"} : At(h, pc)

(* A request works on a run that was created.  The one that fails a PENDING *)
(* run has read it as PENDING, and the one that revokes follows its own     *)
(* cancellation.                                                            *)
RequestOK(h) ==
    /\ ~At(h, "idle") => status[Row(h)] # "absent"
    /\ At(h, "fail") /\ status[Row(h)] = "pending" => request[h].seen = "pending"
    /\ At(h, "revoke") => status[Row(h)] # "pending"
    /\ At(h, "record") => kind[request[h].task] # "none" /\ target[request[h].task] = Row(h)

(* celery_task_id names a message of the run *)
TaskOK(r) == taskId[r] # None => kind[taskId[r]] # "none" /\ target[taskId[r]] = r

WaitInv ==
    /\ \A h \in Handlers : RequestOK(h)
    /\ \A r \in Runs : TaskOK(r)
    /\ PendingNeverLost

(* No commit is based on a row read as CANCELED. *)
SettleInv ==
    \A w \in Workers : Doing(w, "complete") \/ Doing(w, "fail") => worker[w].seen # "canceled"

-----------------------------------------------------------------------------
(* no row becomes PENDING, and none is inserted *)
StatusForward ==
    \A r \in Runs : /\ status'[r] = "pending" => status[r] = "pending"
                    /\ status'[r] = "absent" => status[r] = "absent"

TaskKept == \A r \in Runs : taskId'[r] = taskId[r] \/ TaskOK(r)'

(* A request that changes is in order afterwards, and a PENDING run it was  *)
(* to enqueue is still looked after.                                        *)
RequestKept ==
    \A h \in Handlers :
        \/ request'[h] = request[h]
        \/ /\ RequestOK(h)'
           /\ Waits(h) /\ status'[Row(h)] = "pending" =>
                \/ Waits(h)' /\ Row(h)' = Row(h)
                \/ \E t \in queued' : kind'[t] = "run" /\ target'[t] = Row(h)

(* no message of a PENDING run is taken away *)
QueueKept ==
    \A t \in queued \ queued' : kind[t] = "run" => status'[target[t]] # "pending"

LEMMA WaitStep ==
  ASSUME TypeInv, WaitInv, StatusForward, MessagesKept, TaskKept, RequestKept, QueueKept
  PROVE  WaitInv'
<1>1. ASSUME NEW h \in Handlers PROVE RequestOK(h)'
  <2>1. CASE request'[h] = request[h]
    BY <2>1 DEF TypeInv, RequestInv, WaitInv, RequestOK, StatusForward, MessagesKept, At, Row
  <2> QED
    BY <2>1 DEF RequestKept
<1>2. ASSUME NEW r \in Runs PROVE TaskOK(r)'
  <2>1. CASE taskId'[r] = taskId[r]
    BY <2>1 DEF TypeInv, TypeOK, RowsOK, WaitInv, TaskOK, MessagesKept
  <2> QED
    BY <2>1 DEF TaskKept
<1>3. ASSUME NEW r \in Runs, status'[r] = "pending"
      PROVE  \/ \E h \in Handlers : Row(h)' = r /\ Waits(h)'
             \/ \E t \in queued' : kind'[t] = "run" /\ target'[t] = r
  <2>1. status[r] = "pending"
    BY <1>3 DEF StatusForward
  <2>2. \/ \E h \in Handlers : Row(h) = r /\ Waits(h)
        \/ \E t \in queued : kind[t] = "run" /\ target[t] = r
    BY <2>1 DEF WaitInv, PendingNeverLost, Waits
  <2>3. ASSUME NEW h \in Handlers, Row(h) = r, Waits(h)
        PROVE  \/ Row(h)' = r /\ Waits(h)'
               \/ \E t \in queued' : kind'[t] = "run" /\ target'[t] = r
    <3>1. CASE request'[h] = request[h]
      BY <2>3, <3>1 DEF Row, Waits, At
    <3>2. CASE request'[h] # request[h]
      BY <1>3, <2>3, <3>2 DEF RequestKept
    <3> QED
      BY <3>1, <3>2
  <2>4. ASSUME NEW t \in queued, kind[t] = "run", target[t] = r
        PROVE  t \in queued' /\ kind'[t] = "run" /\ target'[t] = r
    <3>1. t \in queued'
      BY <1>3, <2>4 DEF QueueKept
    <3>2. t \in Tasks
      BY DEF TypeInv, TypeOK, BrokerOK
    <3> QED
      BY <2>4, <3>1, <3>2 DEF MessagesKept
  <2> QED
    BY <2>2, <2>3, <2>4
<1>4. PendingNeverLost'
  BY <1>3 DEF PendingNeverLost, Waits
<1> QED
  BY <1>1, <1>2, <1>4 DEF WaitInv

LEMMA CreateRunWaits ==
  ASSUME TypeInv, WaitInv, NEW h \in Handlers, NEW r \in Runs, CreateRun(h, r)
  PROVE  WaitInv'
<1>1. /\ status[r] = "absent" /\ status' = [status EXCEPT ![r] = "pending"]
      /\ request' = [request EXCEPT ![h] =
            [pc |-> "enqueue", run |-> r, task |-> None, prev |-> "none", seen |-> "none"]]
      /\ UNCHANGED <<taskId, kind, target, queued>>
  BY DEF CreateRun, Write, broker
<1>2. request'[h].pc = "enqueue" /\ request'[h].run = r
  BY <1>1 DEF TypeInv, TypeOK, RequestsOK
<1>3. \A g \in Handlers : g # h => request'[g] = request[g]
  BY <1>1 DEF TypeInv, TypeOK, RequestsOK
<1>4. \A q \in Runs : status'[q] = (IF q = r THEN "pending" ELSE status[q])
  BY <1>1 DEF TypeInv, TypeOK, RowsOK
<1>5. ASSUME NEW g \in Handlers PROVE RequestOK(g)'
  <2>1. CASE g = h
    BY <1>2, <1>4, <2>1 DEF RequestOK, At, Row
  <2>2. CASE g # h
    <3>1. RequestOK(g) /\ (~At(g, "idle") => Row(g) \in Runs) /\ request'[g] = request[g]
      BY <1>3, <2>2 DEF WaitInv, TypeInv, RequestInv
    <3>2. ~At(g, "idle") => Row(g) # r
      BY <1>1, <3>1 DEF RequestOK
    <3> QED
      BY <1>1, <1>4, <3>1, <3>2 DEF RequestOK, At, Row
  <2> QED
    BY <2>1, <2>2
<1>6. \A q \in Runs : TaskOK(q)'
  BY <1>1 DEF WaitInv, TaskOK
<1>7. ASSUME NEW q \in Runs, status'[q] = "pending"
      PROVE  \/ \E g \in Handlers : Row(g)' = q /\ Waits(g)'
             \/ \E t \in queued' : kind'[t] = "run" /\ target'[t] = q
  <2>1. CASE q = r
    BY <1>2, <2>1 DEF Waits, At, Row
  <2>2. CASE q # r
    <3>1. status[q] = "pending"
      BY <1>4, <1>7, <2>2
    <3>2. \/ \E g \in Handlers : Row(g) = q /\ Waits(g)
          \/ \E t \in queued : kind[t] = "run" /\ target[t] = q
      BY <3>1 DEF WaitInv, PendingNeverLost, Waits
    <3>3. ASSUME NEW g \in Handlers, Waits(g) PROVE g # h
      BY <3>3 DEF CreateRun, Waits, At
    <3> QED
      BY <1>1, <1>3, <3>2, <3>3 DEF Waits, At, Row
  <2> QED
    BY <2>1, <2>2
<1> QED
  BY <1>5, <1>6, <1>7 DEF WaitInv, PendingNeverLost, Waits

LEMMA RequestWaits ==
  ASSUME TypeInv, WaitInv, NEW h \in Handlers,
         \/ HandlerStep(h)
         \/ \E r \in Runs : ResumeLoad(h, r) \/ CancelLoad(h, r) \/ DeleteLoad(h, r)
  PROVE  StatusForward /\ MessagesKept /\ TaskKept /\ RequestKept /\ QueueKept
<1> DEFINE Kept == StatusForward /\ MessagesKept /\ TaskKept /\ RequestKept /\ QueueKept
<1>0. RequestOK(h) /\ (~At(h, "idle") => Row(h) \in Runs) /\ \A r \in Runs : TaskOK(r)
  BY DEF WaitInv, TypeInv, RequestInv
<1> USE DEF TypeInv, TypeOK, RowsOK, BrokerOK, RequestsOK, RequestOK, MessagesKept, StatusForward, TaskKept,
            RequestKept, QueueKept, At, Row, Waits, rows, broker, Finish, MoveTo, IdleRequest
<1>1. ASSUME EnqueueRun(h) PROVE Kept
  <2>1. UNCHANGED <<status, taskId>>
    BY <1>1 DEF EnqueueRun
  <2>2. ASSUME NEW t \in Tasks, Publish("run", Row(h), t), MoveTo(h, "record", t, "none") PROVE Kept
    <3>1. /\ kind'[t] = "run" /\ target'[t] = Row(h) /\ t \in queued' /\ queued \subseteq queued'
          /\ \A u \in Tasks : kind[u] # "none" => kind'[u] = kind[u] /\ target'[u] = target[u]
      BY <2>2 DEF Publish
    <3>2. /\ request'[h].pc = "record" /\ request'[h].task = t /\ request'[h].run = Row(h)
          /\ \A g \in Handlers : g # h => request'[g] = request[g]
      BY <2>2
    <3> QED
      BY <1>0, <1>1, <2>1, <3>1, <3>2 DEF EnqueueRun
  <2>3. CASE UNCHANGED broker /\ MoveTo(h, "unqueued", None, "none")
    BY <1>0, <1>1, <2>1, <2>3 DEF EnqueueRun
  <2> QED
    BY <1>1, <2>2, <2>3 DEF EnqueueRun
<1>2. ASSUME UnqueuedRefresh(h) PROVE Kept
  <2>1. UNCHANGED <<status, taskId, kind, target, queued>>
    BY <1>2 DEF UnqueuedRefresh
  <2>2. CASE KeepsCanceled(status[Row(h)])
    BY <1>2, <2>1, <2>2 DEF UnqueuedRefresh, KeepsCanceled
  <2>3. CASE ~KeepsCanceled(status[Row(h)])
    BY <1>0, <1>2, <2>1, <2>3 DEF UnqueuedRefresh
  <2> QED
    BY <2>2, <2>3
<1>3. ASSUME UnqueuedFail(h) PROVE Kept
  <2>1. status'[Row(h)] # "pending" /\ \A r \in Runs : r # Row(h) => status'[r] = status[r]
    BY <1>0, <1>3 DEF UnqueuedFail, AssignWithText, QueueFailureStatus
  <2>2. UNCHANGED <<taskId, kind, target, queued>> /\ Finish(h) /\ status'[Row(h)] # "absent"
    BY <1>0, <1>3 DEF UnqueuedFail, AssignWithText, QueueFailureStatus
  <2> QED
    BY <1>0, <2>1, <2>2
<1>4. ASSUME SetTaskId(h) PROVE Kept
  <2>1. UNCHANGED <<status, kind, target, queued>> /\ Finish(h) /\ taskId' = [taskId EXCEPT ![Row(h)] = request[h].task]
    BY <1>4 DEF SetTaskId
  <2>2. At(h, "record")
    BY <1>4 DEF SetTaskId
  <2> QED
    BY <1>0, <2>1, <2>2 DEF TaskOK
<1>5. ASSUME ResumeStart(h) PROVE Kept
  BY <1>0, <1>5 DEF ResumeStart, Write
<1>6. ASSUME EnqueueResume(h) PROVE Kept
  <2>1. UNCHANGED <<status, taskId>> /\ ~Waits(h)
    BY <1>6 DEF EnqueueResume
  <2>2. ASSUME NEW t \in Tasks, Publish("resume", Row(h), t), MoveTo(h, "record", t, "none") PROVE Kept
    <3>1. /\ kind'[t] = "resume" /\ target'[t] = Row(h) /\ queued \subseteq queued'
          /\ \A u \in Tasks : kind[u] # "none" => kind'[u] = kind[u] /\ target'[u] = target[u]
      BY <2>2 DEF Publish
    <3>2. /\ request'[h].pc = "record" /\ request'[h].task = t /\ request'[h].run = Row(h)
          /\ \A g \in Handlers : g # h => request'[g] = request[g]
      BY <2>2
    <3> QED
      BY <1>0, <1>6, <2>1, <3>1, <3>2 DEF EnqueueResume
  <2>3. CASE UNCHANGED broker /\ MoveTo(h, "restore", None, status[Row(h)])
    BY <1>0, <1>6, <2>1, <2>3 DEF EnqueueResume
  <2> QED
    BY <1>6, <2>2, <2>3 DEF EnqueueResume
<1>7. ASSUME ResumeRestore(h) PROVE Kept
  <2>1. request[h].prev \in Resumable /\ UNCHANGED <<taskId, kind, target, queued>> /\ Finish(h) /\ ~Waits(h)
    BY <1>7 DEF ResumeRestore, RequestInv
  <2>2. StatusForward
    BY <1>0, <1>7, <2>1 DEF ResumeRestore, Assign, Write, Resumable
  <2> QED
    BY <2>1, <2>2
<1>8. ASSUME CancelCommit(h) PROVE Kept
  BY <1>0, <1>8 DEF CancelCommit, Write
<1>9. ASSUME Revoke(h) PROVE Kept
  <2>1. UNCHANGED <<status, taskId, kind, target>> /\ Finish(h) /\ ~Waits(h)
    BY <1>9 DEF Revoke
  <2>2. QueueKept
    <3>1. queued' = queued \/ (taskId[Row(h)] # None /\ queued' = queued \ {taskId[Row(h)]})
      BY <1>9 DEF Revoke
    <3>2. status[Row(h)] # "pending" /\ TaskOK(Row(h))
      BY <1>0, <1>9 DEF Revoke
    <3> QED
      BY <2>1, <3>1, <3>2 DEF TaskOK
  <2> QED
    BY <2>1, <2>2
<1>10. ASSUME DeleteCommit(h) PROVE Kept
  BY <1>0, <1>10 DEF DeleteCommit, TaskOK
<1>11. ASSUME RowGone(h) PROVE Kept
  <2>1. UNCHANGED <<status, taskId, kind, target, queued>> /\ Finish(h) /\ status[Row(h)] # "pending"
    BY <1>11 DEF RowGone, Exists, Stored
  <2> QED
    BY <2>1
<1>12. ASSUME NEW r \in Runs, ResumeLoad(h, r) \/ CancelLoad(h, r) \/ DeleteLoad(h, r) PROVE Kept
  <2>1. /\ UNCHANGED <<status, taskId, kind, target, queued>> /\ At(h, "idle")
        /\ status[r] # "absent"
        /\ request'[h].pc \in {"resume", "cancel", "delete"} /\ request'[h].run = r
        /\ \A g \in Handlers : g # h => request'[g] = request[g]
    BY <1>12 DEF ResumeLoad, CancelLoad, DeleteLoad, Load, Resumable, Active, Deletable
  <2> QED
    BY <2>1
<1> QED
  BY <1>1, <1>2, <1>3, <1>4, <1>5, <1>6, <1>7, <1>8, <1>9, <1>10, <1>11, <1>12 DEF HandlerStep

LEMMA WorkerWaits ==
  ASSUME TypeInv, WaitInv, NEW w \in Workers, WorkerStep(w) \/ FirstFlush(w) \/ WorkerFault(w)
  PROVE  StatusForward /\ MessagesKept /\ TaskKept /\ RequestKept /\ QueueKept
<1> DEFINE Kept == StatusForward /\ MessagesKept /\ TaskKept /\ RequestKept /\ QueueKept
<1>0. ~Doing(w, "idle") => Job(w) \in Runs
  BY DEF TypeInv, WorkerInv, MessageInv, Job
<1> USE DEF TypeInv, TypeOK, RowsOK, BrokerOK, MessagesKept, StatusForward, TaskKept, RequestKept, QueueKept, rows, broker
<1>1. ASSUME NEW t \in Tasks, ClaimPending(w, t) PROVE Kept
  <2>1. target[t] \in Runs
    BY <1>1 DEF ClaimPending, Take, QueueInv, MessageInv
  <2>2. UNCHANGED <<taskId, kind, target, request>> /\ queued' = queued \ {t}
    BY <1>1 DEF ClaimPending, Take
  <2>3. StatusForward /\ status'[target[t]] # "pending"
    <3>1. CASE Claimable(target[t])
      BY <1>1, <2>1, <3>1 DEF ClaimPending, Write, Claimable
    <3>2. CASE ~Claimable(target[t])
      BY <1>1, <2>1, <3>2 DEF ClaimPending, Claimable
    <3> QED
      BY <3>1, <3>2
  <2> QED
    BY <2>2, <2>3
<1>2. ASSUME NEW t \in Tasks, ResumeTask(w, t) PROVE Kept
  BY <1>2 DEF ResumeTask, Take
<1>3. ASSUME ClaimRefresh(w) PROVE Kept
  BY <1>3 DEF ClaimRefresh
<1>4. ASSUME Start(w) PROVE Kept
  BY <1>0, <1>4 DEF Start, Write, Doing, Exists, Stored
<1>5. ASSUME NEW pc \in {"complete", "fail"}, EngineEnds(w, pc) PROVE Kept
  BY <1>5 DEF EngineEnds
<1>6. ASSUME Complete(w) PROVE Kept
  BY <1>0, <1>6 DEF Complete, AssignWithText, Doing
<1>7. ASSUME Fail(w) PROVE Kept
  BY <1>0, <1>7 DEF Fail, AssignWithText, Doing
<1>8. ASSUME FirstFlush(w) \/ ResolveFails(w) \/ ChildDies(w) PROVE Kept
  BY <1>8 DEF FirstFlush, ResolveFails, ChildDies
<1>9. ASSUME NodeDies(w) \/ VisibilityTimeout(w) PROVE Kept
  BY <1>9 DEF NodeDies, VisibilityTimeout
<1> QED
  BY <1>1, <1>2, <1>3, <1>4, <1>5, <1>6, <1>7, <1>8, <1>9 DEF WorkerStep, WorkerFault

LEMMA WaitInvariant ==
  ASSUME Faults \cap {"api", "child"} = {}
  PROVE  Spec => []WaitInv
<1>1. Init => WaitInv
  BY DEF Init, WaitInv, RequestOK, TaskOK, PendingNeverLost, At, IdleRequest
<1>2. TypeInv /\ WaitInv /\ [Next]_vars => WaitInv'
  <2> SUFFICES ASSUME TypeInv, WaitInv, [Next]_vars PROVE WaitInv'
    OBVIOUS
  <2>1. ASSUME NEW h \in Handlers, HandlerStep(h) \/ NewRequest(h) \/ ApiCrash(h) PROVE WaitInv'
    <3>1. ~ApiCrash(h)
      BY DEF ApiCrash
    <3>2. ASSUME NEW r \in Runs, CreateRun(h, r) PROVE WaitInv'
      BY <3>2, CreateRunWaits
    <3>3. CASE HandlerStep(h) \/ \E r \in Runs : ResumeLoad(h, r) \/ CancelLoad(h, r) \/ DeleteLoad(h, r)
      BY <3>3, RequestWaits, WaitStep
    <3> QED
      BY <2>1, <3>1, <3>2, <3>3 DEF NewRequest
  <2>2. ASSUME NEW w \in Workers, WorkerStep(w) \/ FirstFlush(w) \/ WorkerFault(w) PROVE WaitInv'
    BY <2>2, WorkerWaits, WaitStep
  <2>3. ASSUME StatusForward, MessagesKept, UNCHANGED <<taskId, request>>, queued \subseteq queued' PROVE WaitInv'
    BY <2>3, WaitStep DEF TaskKept, RequestKept, QueueKept
  <2>4. ASSUME NEW p \in Recoverers, Recovery(p) PROVE WaitInv'
    <3>1. CASE RecoverScan(p)
      BY <2>3, <3>1 DEF RecoverScan, StatusForward, MessagesKept, rows, broker
    <3>2. ASSUME NEW e \in backlog[p], RecoverEnqueue(p, e) PROVE WaitInv'
      <4>1. MessagesKept /\ queued \subseteq queued'
        BY <3>2 DEF RecoverEnqueue, Publish, MessagesKept, broker, TypeInv, TypeOK, BrokerOK
      <4> QED
        BY <2>3, <3>2, <4>1 DEF RecoverEnqueue, StatusForward, rows
    <3> QED
      BY <2>4, <3>1, <3>2 DEF Recovery
  <2>5. ASSUME NEW r \in Runs, Age(r) PROVE WaitInv'
    BY <2>3, <2>5 DEF Age, StatusForward, MessagesKept, broker
  <2>6. \A t \in Tasks : ~DropMessage(t)
    BY DEF DropMessage
  <2>7. CASE UNCHANGED vars
    BY <2>3, <2>7 DEF vars, rows, broker, StatusForward, MessagesKept
  <2> QED
    BY <2>1, <2>2, <2>4, <2>5, <2>6, <2>7 DEF Next
<1> QED
  BY <1>1, <1>2, TypeInit, TypeStep, PTL DEF Spec

(* As long as neither an API process nor a pool process dies, a PENDING run *)
(* has a request that will enqueue or fail it, or its message waits.        *)
THEOREM NoPendingRunIsLost ==
  ASSUME Faults \cap {"api", "child"} = {}
  PROVE  Spec => []PendingNeverLost
<1>1. WaitInv => PendingNeverLost
  BY DEF WaitInv
<1> QED
  BY <1>1, WaitInvariant, PTL

-----------------------------------------------------------------------------
LEMMA SettleStep == TypeInv /\ SettleInv /\ [Next]_vars => SettleInv'
<1> SUFFICES ASSUME TypeInv, SettleInv, [Next]_vars PROVE SettleInv'
  OBVIOUS
<1>0. worker \in [Workers -> [pc : {"idle", "refresh", "start", "exec", "flushed", "complete", "fail"},
                             task : Tasks \cup {None}, seen : Stored \cup {"none"}]]
  BY DEF TypeInv, TypeOK, WorkersOK
<1>w. ASSUME \A v \in Workers : worker'[v].pc \in {"complete", "fail"} => worker'[v] = worker[v] \/ worker'[v].seen # "canceled"
      PROVE  SettleInv'
  BY <1>w DEF SettleInv, Doing
<1>1. CASE UNCHANGED worker
  BY <1>1, <1>w
<1>2. ASSUME NEW w \in Workers, Ack(w) PROVE SettleInv'
  BY <1>0, <1>2, <1>w DEF Ack, IdleWorker
<1>3. ASSUME NEW w \in Workers, NEW pc \in {"exec", "start", "flushed"}, GoTo(w, pc) PROVE SettleInv'
  BY <1>0, <1>3, <1>w DEF GoTo
<1>4. ASSUME NEW w \in Workers, NEW t \in Tasks, NEW pc \in {"refresh", "exec"}, Begin(w, t, pc) PROVE SettleInv'
  BY <1>0, <1>4, <1>w DEF Begin
<1>5. ASSUME NEW w \in Workers, NEW pc \in {"complete", "fail"}, EngineEnds(w, pc) PROVE SettleInv'
  <2>1. CASE ~Exists(Job(w)) \/ KeepsCanceled(status[Job(w)])
    BY <1>2, <1>5, <2>1 DEF EngineEnds
  <2>2. CASE Exists(Job(w)) /\ ~KeepsCanceled(status[Job(w)])
    BY <1>0, <1>5, <1>w, <2>2 DEF EngineEnds, Settle, KeepsCanceled
  <2> QED
    BY <2>1, <2>2
<1>6. ASSUME NEW h \in Handlers, Revoke(h) PROVE SettleInv'
  BY <1>0, <1>6, <1>w DEF Revoke, IdleWorker
<1>7. ASSUME NEW h \in Handlers, HandlerStep(h) \/ NewRequest(h) \/ ApiCrash(h) PROVE SettleInv'
  BY <1>1, <1>6, <1>7 DEF HandlerStep, NewRequest, CreateRun, EnqueueRun, UnqueuedRefresh, UnqueuedFail, SetTaskId,
     ResumeStart, EnqueueResume, ResumeRestore, CancelCommit, DeleteCommit, RowGone, ApiCrash,
     ResumeLoad, CancelLoad, DeleteLoad, Load
<1>8. ASSUME NEW w \in Workers, NEW t \in Tasks, ClaimPending(w, t) \/ ResumeTask(w, t) PROVE SettleInv'
  BY <1>1, <1>4, <1>8 DEF ClaimPending, ResumeTask
<1>9. ASSUME NEW w \in Workers, ClaimRefresh(w) \/ Start(w) \/ FirstFlush(w) PROVE SettleInv'
  BY <1>2, <1>3, <1>9 DEF ClaimRefresh, Start, FirstFlush
<1>10. ASSUME NEW w \in Workers, Complete(w) \/ Fail(w) \/ WorkerFault(w) PROVE SettleInv'
  BY <1>1, <1>2, <1>10 DEF Complete, Fail, WorkerFault, ResolveFails, ChildDies, NodeDies, VisibilityTimeout
<1>11. CASE (\E p \in Recoverers : Recovery(p)) \/ (\E r \in Runs : Age(r)) \/ (\E t \in Tasks : DropMessage(t))
  BY <1>1, <1>11 DEF Recovery, RecoverScan, RecoverEnqueue, Age, DropMessage
<1>12. CASE UNCHANGED vars
  BY <1>1, <1>12 DEF vars
<1> QED
  BY <1>5, <1>7, <1>8, <1>9, <1>10, <1>11, <1>12 DEF Next, WorkerStep

(* A cancellation that no write was racing with is not written over: only   *)
(* a deletion, or a resume that the user asks for, changes the row again.   *)
THEOREM CancellationStays == Spec => CancelStays
<1> DEFINE A == \A r \in Runs : status[r] = "canceled" /\ NoWriteUnderWay(r) => status'[r] \in {"canceled", "deleted"}
<1>1. TypeInv /\ SettleInv /\ [Next]_vars => A
  <2> SUFFICES ASSUME TypeInv, SettleInv, [Next]_vars, NEW r \in Runs, status[r] = "canceled", NoWriteUnderWay(r)
               PROVE  status'[r] \in {"canceled", "deleted"}
    OBVIOUS
  <2>0. status \in [Runs -> Stored \cup {"absent", "deleted"}]
    BY DEF TypeInv, TypeOK, RowsOK
  <2>1. CASE UNCHANGED status
    BY <2>1
  <2>2. ASSUME NEW q, q # r, NEW new, status' = [status EXCEPT ![q] = new] PROVE status'[r] = "canceled"
    BY <2>0, <2>2
  <2>3. ASSUME NEW h \in Handlers, HandlerStep(h) \/ NewRequest(h) \/ ApiCrash(h)
        PROVE  status'[r] \in {"canceled", "deleted"}
    <3>1. ASSUME NEW q \in Runs, CreateRun(h, q) PROVE status'[r] = "canceled"
      BY <2>2, <3>1 DEF CreateRun, Write
    <3>2. CASE UnqueuedFail(h)
      <4>1. Row(h) # r
        BY <3>2 DEF UnqueuedFail, NoWriteUnderWay
      <4> QED
        BY <2>1, <2>2, <3>2, <4>1 DEF UnqueuedFail, AssignWithText
    <3>3. CASE ResumeStart(h)
      BY <2>2, <3>3 DEF ResumeStart, Write, NoWriteUnderWay
    <3>4. CASE ResumeRestore(h)
      BY <2>1, <2>2, <3>4 DEF ResumeRestore, Assign, Write, NoWriteUnderWay
    <3>5. CASE CancelCommit(h)
      BY <2>0, <3>5 DEF CancelCommit, Write
    <3>6. CASE DeleteCommit(h)
      BY <2>0, <3>6 DEF DeleteCommit
    <3>7. CASE \/ EnqueueRun(h) \/ UnqueuedRefresh(h) \/ SetTaskId(h) \/ EnqueueResume(h)
               \/ Revoke(h) \/ RowGone(h) \/ ApiCrash(h)
               \/ \E q \in Runs : ResumeLoad(h, q) \/ CancelLoad(h, q) \/ DeleteLoad(h, q)
      BY <2>1, <3>7 DEF EnqueueRun, UnqueuedRefresh, SetTaskId, EnqueueResume, Revoke, RowGone, ApiCrash,
         ResumeLoad, CancelLoad, DeleteLoad, Load, rows
    <3> QED
      BY <2>3, <3>1, <3>2, <3>3, <3>4, <3>5, <3>6, <3>7 DEF HandlerStep, NewRequest
  <2>4. ASSUME NEW w \in Workers, WorkerStep(w) \/ FirstFlush(w) \/ WorkerFault(w)
        PROVE  status'[r] = "canceled"
    <3>1. Job(w) = r => ~Doing(w, "start") /\ ~Doing(w, "complete") /\ ~Doing(w, "fail")
      BY DEF NoWriteUnderWay, Executes, Job, Doing, SettleInv
    <3>2. ASSUME NEW t \in Tasks, ClaimPending(w, t) PROVE status'[r] = "canceled"
      <4>1. CASE Claimable(target[t])
        BY <2>2, <3>2, <4>1 DEF ClaimPending, Write, Claimable
      <4>2. CASE ~Claimable(target[t])
        BY <2>1, <3>2, <4>2 DEF ClaimPending
      <4> QED
        BY <4>1, <4>2
    <3>3. CASE Start(w)
      BY <2>1, <2>2, <3>1, <3>3 DEF Start, Write
    <3>4. CASE Complete(w)
      BY <2>1, <2>2, <3>1, <3>4 DEF Complete, AssignWithText
    <3>5. CASE Fail(w)
      BY <2>1, <2>2, <3>1, <3>5 DEF Fail, AssignWithText
    <3>6. CASE \/ \E t \in Tasks : ResumeTask(w, t)
               \/ ClaimRefresh(w) \/ EngineEnds(w, "complete") \/ EngineEnds(w, "fail")
               \/ FirstFlush(w) \/ WorkerFault(w)
      BY <2>1, <3>6 DEF ResumeTask, ClaimRefresh, EngineEnds, FirstFlush, WorkerFault, ResolveFails,
         ChildDies, NodeDies, VisibilityTimeout, rows
    <3> QED
      BY <2>4, <3>2, <3>3, <3>4, <3>5, <3>6 DEF WorkerStep
  <2>5. CASE (\E p \in Recoverers : Recovery(p)) \/ (\E q \in Runs : Age(q)) \/ (\E t \in Tasks : DropMessage(t))
    BY <2>1, <2>5 DEF Recovery, RecoverScan, RecoverEnqueue, Age, DropMessage, rows
  <2>6. CASE UNCHANGED vars
    BY <2>1, <2>6 DEF vars, rows
  <2> QED
    BY <2>3, <2>4, <2>5, <2>6 DEF Next
<1>2. Init => SettleInv
  BY DEF Init, SettleInv, Doing, IdleWorker
<1>3. TypeInv /\ SettleInv /\ [Next]_vars => [A]_vars
  BY <1>1
<1> QED
  BY <1>2, <1>3, SettleStep, TypeInit, TypeStep, PTL DEF Spec, CancelStays
-----------------------------------------------------------------------------
(* A process that will settle the RUNNING run it executes: before its       *)
(* refresh it may be anywhere, after it only what it read as RUNNING is     *)
(* written over.                                                            *)
Carries(w, r) ==
    /\ Executes(w, r)
    /\ Doing(w, "complete") \/ Doing(w, "fail") => worker[w].seen = "running"

(* A resume request that will publish the message, or restore the status *)
Returns(h, r) ==
    /\ Row(h) = r
    /\ At(h, "reenqueue") \/ (At(h, "restore") /\ request[h].seen = "running")

ResumeWaits(r) == \E t \in queued : kind[t] = "resume" /\ target[t] = r

Carried(r) ==
    (\E w \in Workers : Carries(w, r)) \/ ResumeWaits(r) \/ (\E h \in Handlers : Returns(h, r))

NobodyCancels(r) == \A h \in Handlers : At(h, "cancel") => Row(h) # r

CarriedInv(r) ==
    /\ \A h \in Handlers : At(h, "revoke") => Row(h) # r
    /\ status[r] = "running" => Carried(r)

LEMMA CarrierKept ==
  ASSUME TypeInv, MessagesKept, NEW r \in Runs, Carried(r),
         \A w \in Workers : Carries(w, r) => worker'[w] = worker[w],
         \A t \in queued : kind[t] = "resume" /\ target[t] = r => t \in queued',
         \A h \in Handlers : Returns(h, r) => request'[h] = request[h]
  PROVE  Carried(r)'
<1>1. ASSUME NEW w \in Workers, Carries(w, r) PROVE Carries(w, r)'
  BY <1>1 DEF TypeInv, WorkerInv, MessagesKept, Carries, Executes, Doing
<1>2. ASSUME ResumeWaits(r) PROVE ResumeWaits(r)'
  <2>1. PICK t \in queued : kind[t] = "resume" /\ target[t] = r
    BY <1>2 DEF ResumeWaits
  <2> QED
    BY <2>1 DEF TypeInv, TypeOK, BrokerOK, MessagesKept, ResumeWaits
<1>3. ASSUME NEW h \in Handlers, Returns(h, r) PROVE Returns(h, r)'
  BY <1>3 DEF Returns, At, Row
<1> QED
  BY <1>1, <1>2, <1>3 DEF Carried

(* A request leaves a RUNNING run carried *)
LEMMA RequestCarries ==
  ASSUME TypeInv, WaitInv, NEW r \in Runs, CarriedInv(r), NobodyCancels(r),
         NEW h \in Handlers, HandlerStep(h) \/ NewRequest(h)
  PROVE  CarriedInv(r)'
<1> DEFINE Other == \A g \in Handlers : g # h => request'[g] = request[g]
           Quiet == status'[r] = "running" => status[r] = "running"
<1>0. Row(h) \in Runs \/ At(h, "idle")
  BY DEF TypeInv, RequestInv
<1>w. UNCHANGED worker \/ Revoke(h)
  BY DEF HandlerStep, NewRequest, CreateRun, EnqueueRun, UnqueuedRefresh, UnqueuedFail, SetTaskId,
     ResumeStart, EnqueueResume, ResumeRestore, CancelCommit, DeleteCommit, RowGone,
     ResumeLoad, CancelLoad, DeleteLoad, Load
<1>m. MessagesKept
  BY DEF HandlerStep, NewRequest, CreateRun, EnqueueRun, UnqueuedRefresh, UnqueuedFail, SetTaskId,
     ResumeStart, EnqueueResume, ResumeRestore, CancelCommit, DeleteCommit, RowGone,
     ResumeLoad, CancelLoad, DeleteLoad, Load, Revoke, Publish, broker, MessagesKept, TypeInv, TypeOK, BrokerOK
<1>q. queued \subseteq queued' \/ Revoke(h)
  BY DEF HandlerStep, NewRequest, CreateRun, EnqueueRun, UnqueuedRefresh, UnqueuedFail, SetTaskId,
     ResumeStart, EnqueueResume, ResumeRestore, CancelCommit, DeleteCommit, RowGone,
     ResumeLoad, CancelLoad, DeleteLoad, Load, Publish, broker
<1> USE DEF TypeInv, TypeOK, RowsOK
<1>k. ASSUME Other, ~Returns(h, r), ~Revoke(h), Carried(r) PROVE Carried(r)'
  BY <1>k, <1>w, <1>m, <1>q, CarrierKept
<1>v. ASSUME Other, At(h, "revoke")' => Row(h)' # r PROVE \A g \in Handlers : At(g, "revoke")' => Row(g)' # r
  BY <1>v DEF CarriedInv, At, Row
<1>o. Other
  BY DEF RequestsOK, HandlerStep, NewRequest, CreateRun, EnqueueRun, UnqueuedRefresh, UnqueuedFail, SetTaskId,
     ResumeStart, EnqueueResume, ResumeRestore, CancelCommit, DeleteCommit, RowGone,
     ResumeLoad, CancelLoad, DeleteLoad, Load, Revoke, Finish, MoveTo
<1>f. ASSUME Finish(h) PROVE ~At(h, "revoke")'
  BY <1>f DEF Finish, At, IdleRequest, RequestsOK
<1>t. ASSUME NEW pc, NEW t, NEW seen, MoveTo(h, pc, t, seen)
      PROVE  At(h, pc)' /\ Row(h)' = Row(h) /\ request'[h].seen = seen
  BY <1>t DEF MoveTo, At, Row, RequestsOK
<1> DEFINE Step == CarriedInv(r)'
<1>z. ASSUME Quiet, ~Returns(h, r), ~Revoke(h), At(h, "revoke")' => Row(h)' # r PROVE Step
  BY <1>z, <1>k, <1>o, <1>v DEF CarriedInv
<1> HIDE DEF Other
<1>1. ASSUME NEW q \in Runs, CreateRun(h, q) PROVE Step
  <2>1. Quiet /\ ~Returns(h, r) /\ ~Revoke(h) /\ ~At(h, "revoke")'
    BY <1>1 DEF CreateRun, Write, Returns, At, Revoke, RequestsOK
  <2> QED
    BY <1>z, <2>1
<1>2. ASSUME EnqueueRun(h) \/ UnqueuedRefresh(h) PROVE Step
  <2>1. Quiet /\ ~Returns(h, r) /\ ~Revoke(h)
    BY <1>2 DEF EnqueueRun, UnqueuedRefresh, Returns, At, Revoke, rows
  <2>2. ~At(h, "revoke")'
    BY <1>2, <1>f, <1>t DEF EnqueueRun, UnqueuedRefresh, At
  <2> QED
    BY <1>z, <2>1, <2>2
<1>3. ASSUME UnqueuedFail(h) PROVE Step
  <2>1. ~Returns(h, r) /\ ~Revoke(h)
    BY <1>3 DEF UnqueuedFail, Returns, At, Revoke
  <2>2. Quiet
    BY <1>3 DEF UnqueuedFail, AssignWithText, QueueFailureStatus
  <2> QED
    BY <1>3, <1>f, <1>z, <2>1, <2>2 DEF UnqueuedFail
<1>4. ASSUME SetTaskId(h) PROVE Step
  <2>1. Quiet /\ ~Returns(h, r) /\ ~Revoke(h)
    BY <1>4 DEF SetTaskId, Returns, At, Revoke
  <2> QED
    BY <1>4, <1>f, <1>z, <2>1 DEF SetTaskId
<1>5. ASSUME ResumeStart(h) PROVE Step
  <2>1. ~Returns(h, r) /\ ~Revoke(h)
    BY <1>5 DEF ResumeStart, Returns, At, Revoke
  <2>2. At(h, "reenqueue")' /\ Row(h)' = Row(h)
    BY <1>5, <1>t DEF ResumeStart
  <2>3. CASE Row(h) = r
    <3>1. Returns(h, r)'
      BY <2>2, <2>3 DEF Returns
    <3> QED
      BY <3>1, <2>2, <1>o, <1>v DEF Carried, CarriedInv, At
  <2>4. CASE Row(h) # r
    <3>1. Quiet
      BY <1>5, <2>4 DEF ResumeStart, Write
    <3> QED
      BY <1>z, <2>1, <2>2, <2>4, <3>1 DEF At
  <2> QED
    BY <2>3, <2>4
<1>6. ASSUME EnqueueResume(h) PROVE Step
  <2>1. Quiet /\ ~Revoke(h) /\ At(h, "reenqueue")
    BY <1>6 DEF EnqueueResume, At, Revoke, rows
  <2>2. ~At(h, "revoke")'
    BY <1>6, <1>t DEF EnqueueResume, At
  <2>3. CASE Row(h) = r
    <3>1. CASE \E t \in Tasks : Publish("resume", Row(h), t)
      <4>1. PICK t \in Tasks : Publish("resume", Row(h), t)
        BY <3>1
      <4>2. t \in queued' /\ kind'[t] = "resume" /\ target'[t] = r
        BY <4>1, <2>3 DEF Publish, BrokerOK
      <4> QED
        BY <4>2, <2>2, <1>o, <1>v DEF Carried, CarriedInv, ResumeWaits
    <3>2. CASE MoveTo(h, "restore", None, status[Row(h)])
      <4>1. At(h, "restore")' /\ Row(h)' = r /\ request'[h].seen = status[r]
        BY <3>2, <1>t, <2>3
      <4>2. status' = status
        BY <1>6 DEF EnqueueResume, rows
      <4>3. status'[r] = "running" => Returns(h, r)'
        BY <4>1, <4>2 DEF Returns
      <4> QED
        BY <4>3, <2>2, <1>o, <1>v DEF Carried, CarriedInv
    <3> QED
      BY <1>6, <3>1, <3>2 DEF EnqueueResume
  <2>4. CASE Row(h) # r
    BY <1>z, <2>1, <2>2, <2>4 DEF Returns
  <2> QED
    BY <2>3, <2>4
<1>7. ASSUME ResumeRestore(h) PROVE Step
  <2>1. ~Revoke(h) /\ At(h, "restore") /\ request[h].prev \in Resumable
    BY <1>7 DEF ResumeRestore, At, Revoke, RequestInv
  <2>2. ~At(h, "revoke")'
    BY <1>7, <1>f DEF ResumeRestore
  <2>3. Quiet
    BY <1>7, <2>1 DEF ResumeRestore, Assign, Write, Resumable
  <2>4. CASE Returns(h, r)
    <3>1. status'[r] # "running"
      BY <1>7, <2>1, <2>4 DEF ResumeRestore, Assign, Write, Resumable, Returns, At
    <3> QED
      BY <3>1, <2>2, <1>o, <1>v DEF CarriedInv
  <2>5. CASE ~Returns(h, r)
    BY <1>z, <2>1, <2>2, <2>3, <2>5
  <2> QED
    BY <2>4, <2>5
<1>8. ASSUME CancelCommit(h) PROVE Step
  <2>1. ~Revoke(h) /\ ~Returns(h, r) /\ Row(h) # r
    BY <1>8 DEF CancelCommit, At, Revoke, Returns, NobodyCancels
  <2>2. Row(h)' = Row(h)
    BY <1>8, <1>t DEF CancelCommit
  <2>3. Quiet
    BY <1>8, <2>1 DEF CancelCommit, Write
  <2> QED
    BY <1>z, <2>1, <2>2, <2>3
<1>9. ASSUME Revoke(h) PROVE Step
  <2>1. Row(h) # r /\ ~Returns(h, r) /\ Row(h) \in Runs
    BY <1>0, <1>9 DEF Revoke, CarriedInv, At, Returns
  <2>2. Quiet /\ ~At(h, "revoke")'
    BY <1>9, <1>f DEF Revoke, rows
  <2>3. taskId[Row(h)] # None => target[taskId[Row(h)]] # r
    BY <2>1 DEF WaitInv, TaskOK
  <2>4. \A w \in Workers : Carries(w, r) => worker'[w] = worker[w]
    BY <1>9, <2>3 DEF Revoke, Carries, Executes, WorkersOK
  <2>5. \A t \in queued : kind[t] = "resume" /\ target[t] = r => t \in queued'
    BY <1>9, <2>3 DEF Revoke
  <2>6. \A g \in Handlers : Returns(g, r) => request'[g] = request[g]
    BY <1>o, <2>1 DEF Other
  <2>7. Carried(r) => Carried(r)'
    BY <1>m, <2>4, <2>5, <2>6, CarrierKept
  <2> QED
    BY <1>o, <1>v, <2>2, <2>7 DEF CarriedInv
<1>10. ASSUME DeleteCommit(h) PROVE Step
  <2>1. ~Revoke(h) /\ ~Returns(h, r)
    BY <1>10 DEF DeleteCommit, At, Revoke, Returns
  <2>2. Quiet
    BY <1>10 DEF DeleteCommit
  <2> QED
    BY <1>10, <1>f, <1>z, <2>1, <2>2 DEF DeleteCommit
<1>11. ASSUME RowGone(h) PROVE Step
  <2>1. UNCHANGED status /\ ~Revoke(h) /\ ~At(h, "revoke")' /\ status[Row(h)] # "running"
    BY <1>11, <1>f DEF RowGone, Revoke, Exists, Stored, rows
  <2>2. CASE Returns(h, r)
    BY <2>1, <2>2, <1>o, <1>v DEF CarriedInv, Returns
  <2>3. CASE ~Returns(h, r)
    BY <1>z, <2>1, <2>3
  <2> QED
    BY <2>2, <2>3
<1>12. ASSUME NEW q \in Runs, ResumeLoad(h, q) \/ CancelLoad(h, q) \/ DeleteLoad(h, q) PROVE Step
  <2>1. /\ UNCHANGED status /\ At(h, "idle")
        /\ request'[h].pc \in {"resume", "cancel", "delete"}
    BY <1>12 DEF ResumeLoad, CancelLoad, DeleteLoad, Load, RequestsOK, rows
  <2>2. ~Returns(h, r) /\ ~Revoke(h) /\ ~At(h, "revoke")'
    BY <2>1 DEF Returns, Revoke, At
  <2> QED
    BY <1>z, <2>1, <2>2
<1> QED
  BY <1>1, <1>2, <1>3, <1>4, <1>5, <1>6, <1>7, <1>8, <1>9, <1>10, <1>11, <1>12 DEF HandlerStep, NewRequest

(* So does a pool process that no fault hits *)
LEMMA WorkerCarries ==
  ASSUME TypeInv, NEW r \in Runs, CarriedInv(r), NEW w \in Workers, WorkerStep(w) \/ FirstFlush(w)
  PROVE  CarriedInv(r)'
<1> DEFINE Quiet == status'[r] = "running" => status[r] = "running"
           Other == \A v \in Workers : v # w => worker'[v] = worker[v]
           Step  == CarriedInv(r)'
<1> USE DEF TypeInv, TypeOK, RowsOK, BrokerOK
<1>0. ~Doing(w, "idle") => Job(w) \in Runs /\ worker[w].task \in Tasks
  BY DEF WorkerInv, MessageInv, Job
<1>1. UNCHANGED <<kind, target, request>>
  BY DEF WorkerStep, FirstFlush, ClaimPending, ResumeTask, Take, ClaimRefresh, Start, EngineEnds, Complete, Fail, broker
<1>2. Other
  BY DEF WorkerStep, FirstFlush, ClaimPending, ResumeTask, Take, ClaimRefresh, Start, EngineEnds, Complete, Fail,
     Ack, GoTo, Settle, Begin, WorkersOK
<1>3. ASSUME status'[r] = "running" => Carried(r)' PROVE Step
  BY <1>1, <1>3 DEF CarriedInv, At, Row
<1>4. ASSUME Quiet, ~Carries(w, r), \A t \in queued : kind[t] = "resume" /\ target[t] = r => t \in queued' PROVE Step
  <2>1. Carried(r) => Carried(r)'
    BY <1>1, <1>2, <1>4, CarrierKept DEF MessagesKept
  <2> QED
    BY <1>3, <1>4, <2>1 DEF CarriedInv
<1>5. ASSUME Carries(w, r)' PROVE Step
  BY <1>3, <1>5 DEF Carried
<1> HIDE DEF Other, Step
<1>6. ASSUME NEW t \in Tasks, ClaimPending(w, t) PROVE Step
  <2>1. ~Carries(w, r) /\ queued' = queued \ {t} /\ kind[t] = "run"
    BY <1>6 DEF ClaimPending, Take, Carries, Executes, Doing
  <2>2. CASE Claimable(target[t]) /\ target[t] = r
    <3>1. worker'[w] = [pc |-> "refresh", task |-> t, seen |-> "none"]
      BY <1>6, <2>2 DEF ClaimPending, Begin, WorkersOK
    <3>2. Carries(w, r)'
      BY <1>1, <2>2, <3>1 DEF Carries, Executes, Doing
    <3> QED
      BY <1>5, <3>2
  <2>3. CASE ~(Claimable(target[t]) /\ target[t] = r)
    <3>1. Quiet
      BY <1>6, <2>3 DEF ClaimPending, Write
    <3> QED
      BY <1>4, <2>1, <3>1
  <2> QED
    BY <2>2, <2>3
<1>7. ASSUME NEW t \in Tasks, ResumeTask(w, t) PROVE Step
  <2>1. ~Carries(w, r) /\ queued' = queued \ {t} /\ UNCHANGED status
    BY <1>7 DEF ResumeTask, Take, Carries, Executes, Doing, rows
  <2>2. CASE status[r] = "running" /\ target[t] = r
    <3>1. worker'[w] = [pc |-> "exec", task |-> t, seen |-> "none"]
      BY <1>7, <2>2 DEF ResumeTask, ResumeRunnable, Begin, WorkersOK
    <3>2. Carries(w, r)'
      BY <1>1, <2>2, <3>1 DEF Carries, Executes, Doing
    <3> QED
      BY <1>5, <3>2
  <2>3. CASE status[r] # "running"
    BY <1>3, <2>1, <2>3
  <2>4. CASE target[t] # r
    BY <1>4, <2>1, <2>4
  <2> QED
    BY <2>2, <2>3, <2>4
(* a process that goes on executes the same run, and has read its status    *)
(* when it is about to settle it                                            *)
<1>8. ASSUME UNCHANGED queued, ~Doing(w, "idle"), Quiet,
             worker'[w].pc # "idle" /\ worker'[w].task = worker[w].task,
             worker'[w].pc \in {"complete", "fail"} => worker'[w].seen = status[Job(w)] /\ UNCHANGED status
      PROVE  Step
  <2>1. CASE Job(w) = r /\ status'[r] = "running"
    <3>1. Executes(w, r)'
      BY <1>1, <1>8, <2>1 DEF Executes, Job
    <3>2. Carries(w, r)'
      BY <1>8, <2>1, <3>1 DEF Carries, Doing
    <3> QED
      BY <1>5, <3>2
  <2>2. CASE Job(w) # r
    <3>1. ~Carries(w, r)
      BY <2>2 DEF Carries, Executes, Job
    <3> QED
      BY <1>4, <1>8, <3>1
  <2>3. CASE status'[r] # "running"
    BY <1>3, <2>3
  <2> QED
    BY <2>1, <2>2, <2>3
(* one that stops leaves a run that is not RUNNING, or was not its own *)
<1>9. ASSUME UNCHANGED queued, Quiet, Carries(w, r) => status'[r] # "running" PROVE Step
  BY <1>3, <1>4, <1>9
<1>10. ASSUME ClaimRefresh(w) PROVE Step
  <2>1. UNCHANGED <<status, queued>> /\ ~Doing(w, "idle")
    BY <1>10 DEF ClaimRefresh, Doing, rows, broker
  <2>2. CASE ~Exists(Job(w))
    BY <1>9, <2>1, <2>2 DEF Exists, Stored, Carries, Executes, Job
  <2>3. CASE Exists(Job(w))
    <3>1. worker'[w].pc \in {"exec", "start"} /\ worker'[w].task = worker[w].task
      BY <1>10, <2>3 DEF ClaimRefresh, GoTo, WorkersOK
    <3> QED
      BY <1>8, <2>1, <3>1
  <2> QED
    BY <2>2, <2>3
<1>11. ASSUME Start(w) PROVE Step
  <2>1. UNCHANGED queued /\ ~Doing(w, "idle")
    BY <1>11 DEF Start, Doing, broker
  <2>2. CASE ~Exists(Job(w))
    <3>1. UNCHANGED status
      BY <1>11, <2>2 DEF Start
    <3> QED
      BY <1>9, <2>1, <2>2, <3>1 DEF Exists, Stored, Carries, Executes, Job
  <2>3. CASE Exists(Job(w))
    <3>1. worker'[w].pc = "exec" /\ worker'[w].task = worker[w].task
      BY <1>11, <2>3 DEF Start, GoTo, WorkersOK
    <3>2. CASE Job(w) = r
      <4>1. Carries(w, r)'
        BY <1>1, <3>1, <3>2 DEF Carries, Executes, Doing, Job
      <4> QED
        BY <1>5, <4>1
    <3>3. CASE Job(w) # r
      <4>1. Quiet
        BY <1>11, <2>3, <3>3 DEF Start, Write
      <4> QED
        BY <1>8, <2>1, <3>1, <4>1
    <3> QED
      BY <3>2, <3>3
  <2> QED
    BY <2>2, <2>3
<1>12. ASSUME NEW pc \in {"complete", "fail"}, EngineEnds(w, pc) PROVE Step
  <2>1. UNCHANGED <<status, queued>> /\ ~Doing(w, "idle")
    BY <1>12 DEF EngineEnds, Doing, rows, broker
  <2>2. CASE ~Exists(Job(w)) \/ KeepsCanceled(status[Job(w)])
    BY <1>9, <2>1, <2>2 DEF Exists, Stored, KeepsCanceled, Carries, Executes, Job
  <2>3. CASE ~(~Exists(Job(w)) \/ KeepsCanceled(status[Job(w)]))
    <3>1. worker'[w] = [pc |-> pc, task |-> worker[w].task, seen |-> status[Job(w)]]
      BY <1>12, <2>3 DEF EngineEnds, Settle, WorkersOK
    <3> QED
      BY <1>8, <2>1, <3>1
  <2> QED
    BY <2>2, <2>3
<1>13. ASSUME NEW new \in {"completed", "failed"}, Doing(w, "complete") \/ Doing(w, "fail"),
              UNCHANGED queued, AssignWithText(Job(w), worker[w].seen, new)
       PROVE  Step
  <2>1. Quiet
    BY <1>13 DEF AssignWithText
  <2>2. Carries(w, r) => status'[r] # "running"
    BY <1>13 DEF AssignWithText, Carries, Executes, Job
  <2> QED
    BY <1>9, <1>13, <2>1, <2>2
<1>14. ASSUME Complete(w) \/ Fail(w) PROVE Step
  <2>1. UNCHANGED queued /\ (Doing(w, "complete") \/ Doing(w, "fail"))
    BY <1>14 DEF Complete, Fail, broker
  <2>2. AssignWithText(Job(w), worker[w].seen, "completed") \/ AssignWithText(Job(w), worker[w].seen, "failed")
    BY <1>14 DEF Complete, Fail
  <2> QED
    BY <1>13, <2>1, <2>2
<1>15. ASSUME FirstFlush(w) PROVE Step
  <2>1. UNCHANGED <<status, queued>> /\ ~Doing(w, "idle")
    BY <1>15 DEF FirstFlush, Doing, rows, broker
  <2>2. CASE ~Exists(Job(w))
    BY <1>9, <2>1, <2>2 DEF Exists, Stored, Carries, Executes, Job
  <2>3. CASE Exists(Job(w))
    <3>1. worker'[w].pc = "flushed" /\ worker'[w].task = worker[w].task
      BY <1>15, <2>3 DEF FirstFlush, GoTo, WorkersOK
    <3> QED
      BY <1>8, <2>1, <3>1
  <2> QED
    BY <2>2, <2>3
<1> QED
  BY <1>6, <1>7, <1>10, <1>11, <1>12, <1>14, <1>15 DEF WorkerStep, Step

(* Without a fault of a process, as long as no user cancels it, a RUNNING   *)
(* run is never left to nobody: a process executes it and will settle it,   *)
(* the message of its resume waits, or the request that set it RUNNING is   *)
(* about to publish that message or to restore the status.  With the        *)
(* fairness of FairSpec this is why such a run settles.                     *)
THEOREM RunningIsCarried ==
  ASSUME Faults \subseteq {"broker"}, NEW r \in Runs
  PROVE  Spec /\ []NobodyCancels(r) => [](status[r] = "running" => Carried(r))
<1>1. Init => CarriedInv(r)
  BY DEF Init, CarriedInv, At, IdleRequest
<1>2. TypeInv /\ WaitInv /\ CarriedInv(r) /\ NobodyCancels(r) /\ [Next]_vars => CarriedInv(r)'
  <2> SUFFICES ASSUME TypeInv, WaitInv, CarriedInv(r), NobodyCancels(r), [Next]_vars PROVE CarriedInv(r)'
    OBVIOUS
  <2>1. ASSUME NEW h \in Handlers, HandlerStep(h) \/ NewRequest(h) \/ ApiCrash(h) PROVE CarriedInv(r)'
    <3>1. ~ApiCrash(h)
      BY DEF ApiCrash
    <3> QED
      BY <2>1, <3>1, RequestCarries
  <2>2. ASSUME NEW w \in Workers, WorkerStep(w) \/ FirstFlush(w) \/ WorkerFault(w) PROVE CarriedInv(r)'
    <3>1. ~WorkerFault(w)
      BY DEF WorkerFault, ResolveFails, ChildDies, NodeDies, VisibilityTimeout
    <3> QED
      BY <2>2, <3>1, WorkerCarries
  <2>3. ASSUME MessagesKept, UNCHANGED <<status, worker, request>>, queued \subseteq queued' PROVE CarriedInv(r)'
    <3>1. Carried(r) => Carried(r)'
      BY <2>3, CarrierKept
    <3> QED
      BY <2>3, <3>1 DEF CarriedInv, At, Row
  <2>4. ASSUME NEW p \in Recoverers, Recovery(p) PROVE CarriedInv(r)'
    <3>1. UNCHANGED <<status, worker, request>>
      BY <2>4 DEF Recovery, RecoverScan, RecoverEnqueue, rows
    <3>2. MessagesKept /\ queued \subseteq queued'
      BY <2>4 DEF Recovery, RecoverScan, RecoverEnqueue, Publish, MessagesKept, broker, TypeInv, TypeOK, BrokerOK
    <3> QED
      BY <2>3, <3>1, <3>2
  <2>5. ASSUME NEW q \in Runs, Age(q) PROVE CarriedInv(r)'
    BY <2>3, <2>5 DEF Age, MessagesKept, broker
  <2>6. \A t \in Tasks : ~DropMessage(t)
    BY DEF DropMessage
  <2>7. CASE UNCHANGED vars
    BY <2>3, <2>7 DEF vars, rows, broker, MessagesKept
  <2> QED
    BY <2>1, <2>2, <2>4, <2>5, <2>6, <2>7 DEF Next
<1>3. CarriedInv(r) => (status[r] = "running" => Carried(r))
  BY DEF CarriedInv
<1>4. Spec => []WaitInv
  BY WaitInvariant
<1> QED
  BY <1>1, <1>2, <1>3, <1>4, TypeInit, TypeStep, PTL DEF Spec
=============================================================================
