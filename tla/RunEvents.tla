------------------------------ MODULE RunEvents ------------------------------
(***************************************************************************)
(* The events of one workflow run and their two readers: the SSE tail      *)
(* GET /runs/{id}/stream, which polls the database (_tail_run_events of    *)
(* app/api/routes/workflow_runs.py), and the reader of                     *)
(* POST /workflows/{id}/runs/stream, which is handed the frames of an      *)
(* execution in its own process (run_workflow_stream of                    *)
(* app/services/workflow/workflow.py, app/services/workflow/event_bus.py). *)
(*                                                                         *)
(* Events are flushed while a run executes and become visible with the     *)
(* commit that ends the execution.  What an execution does besides         *)
(* emitting, and the life of the run's status, are those of DagEngine and  *)
(* WorkflowRuns, reduced here to what the readers can see.                 *)
(***************************************************************************)
EXTENDS Naturals, Sequences, FiniteSets, SequencesExt, Ordering

CONSTANTS
    Workers,      \* Celery pool processes
    Streamer,     \* the asyncio task that executes a streamed run
    Tails,        \* SSE connections that tail the run
    MaxSteps,     \* bound on the step events of an execution
    MaxRequests,  \* bound on the requests, recoveries and faults of a behaviour
    None

ASSUME RunEventsAssumption ==
    /\ Streamer \notin Workers
    /\ MaxSteps \in Nat /\ MaxRequests \in Nat
    /\ None \notin {"completed", "failed"}

VARIABLES
    status,      \* workflow_runs.status as committed; absent before, deleted after
    events,      \* committed workflow_run_events: id and start of their transaction
    nextId,      \* the sequence of the ids
    begun,       \* transactions of executions begun so far: orders created_at
    jobs,        \* messages of workflows.run and workflows.resume
    exec,        \* the executions
    reader,      \* the reader of the streamed run: its queue and its last frame
    tail,        \* the tails
    request,     \* a request on the run between its read and its write
    asked,       \* requests, recoveries and faults so far
    overlapped,  \* two executions ran at the same time (history)
    outcome,     \* the status the streamed execution committed (history)
    silent       \* the handler of an exception of the streamed run raised (history)

ghosts  == <<overlapped, outcome, silent>>
readers == <<reader, tail>>
rows    == <<status, events, nextId, begun>>
vars    == <<rows, jobs, exec, readers, request, asked, ghosts>>

Execs == Workers \cup {Streamer}

Active   == {"pending", "running"}
Terminal == {"completed", "failed", "canceled"}
Visible  == status \in Active \cup Terminal

IdleExec   == [pc |-> "idle", job |-> "none", events |-> {}, born |-> 0, left |-> 0,
               outcome |-> None]
IdleTail   == [pc |-> "idle", status |-> None, last |-> 0, sent |-> <<>>, read |-> {}]
NoRequest  == [op |-> "none", seen |-> None]

Init ==
    /\ \/ status = "pending" /\ jobs = [run |-> 1, resume |-> 0]   \* a queued run
       \/ status = "absent" /\ jobs = [run |-> 0, resume |-> 0]    \* a streamed one
    /\ events = {} /\ nextId = 1 /\ begun = 0
    /\ exec = [e \in Execs |-> IdleExec]
    /\ reader = [pc |-> "idle", queue |-> <<>>, last |-> None]
    /\ tail = [t \in Tails |-> IdleTail]
    /\ request = NoRequest /\ asked = 0
    /\ overlapped = FALSE /\ outcome = None /\ silent = FALSE

Asks == asked < MaxRequests /\ asked' = asked + 1

-----------------------------------------------------------------------------
(* Faulty forms of definitions below, for the mutation runs of the README *)

After_OrEqual(id, last)      == id >= last
Refreshed_Stale(t)           == tail[t].status
HoldsRow_Never               == FALSE
IsTerminal_CompletedOnly(f)  == f = "completed"
NewEvent_Unflushed(e)        == [id |-> 0, born |-> exec[e].born]

-----------------------------------------------------------------------------
(* Locks: the flush of an event takes FOR KEY SHARE on the run, which a     *)
(* deletion waits for; complete() has updated the row of a streamed run     *)
(* before commit_complete(), which any other update waits for.              *)
HoldsRow == exec[Streamer].outcome = "completed" /\ exec[Streamer].pc \in {"refresh", "commit"}
KeyFree  == \A e \in Execs : exec[e].events = {}

(* Executions *)

Running(e) == exec[e].pc # "idle"

BeginExecution(e, job, extra) ==
    /\ \E n \in 0 .. MaxSteps :
        exec' = [exec EXCEPT ![e] = [pc |-> "run", job |-> job, events |-> {},
                                     born |-> begun + 1, left |-> n + extra,
                                     outcome |-> None]]
    /\ begun' = begun + 1
    /\ overlapped' = (overlapped \/ \E f \in Execs \ {e} : Running(f))

End(e) == exec' = [exec EXCEPT ![e] = IdleExec]

(* _run_workflow: claim_pending() finds PENDING or the task ends; the       *)
(* commit of start(), RUNNING over RUNNING, changes nothing                 *)
RunTask(w) ==
    /\ ~Running(w) /\ jobs.run > 0
    /\ jobs' = [jobs EXCEPT !.run = @ - 1]
    /\ IF status = "pending"
       THEN status' = "running" /\ BeginExecution(w, "run", 0)
       ELSE UNCHANGED <<status, begun, exec, overlapped>>
    /\ UNCHANGED <<events, nextId, readers, request, asked, outcome, silent>>

(* _resume_workflow: the run is RUNNING or the task ends *)
ResumeTask(w) ==
    /\ ~Running(w) /\ jobs.resume > 0
    /\ jobs' = [jobs EXCEPT !.resume = @ - 1]
    /\ IF status = "running"
       THEN BeginExecution(w, "resume", 0)
       ELSE UNCHANGED <<begun, exec, overlapped>>
    /\ UNCHANGED <<status, events, nextId, readers, request, asked, outcome, silent>>

(* run_workflow_stream: the row and workflow_queued are flushed, start()    *)
(* commits them, and workflow_started is the first event of what follows    *)
OpenStream ==
    /\ status = "absent" /\ reader.pc = "idle"
    /\ exec' = [exec EXCEPT ![Streamer] =
            [pc |-> "queued", job |-> "stream", left |-> 0, born |-> begun + 1,
             outcome |-> None, events |-> {[id |-> nextId, born |-> begun + 1]}]]
    /\ nextId' = nextId + 1 /\ begun' = begun + 1
    /\ reader' = [reader EXCEPT !.pc = "reading", !.queue = <<"event">>]
    /\ UNCHANGED <<status, events, jobs, tail, request, asked, ghosts>>

StartStream ==
    /\ exec[Streamer].pc = "queued"
    /\ status' = "running"
    /\ events' = events \cup exec[Streamer].events
    /\ BeginExecution(Streamer, "stream", 1)
    /\ UNCHANGED <<nextId, jobs, readers, request, asked, outcome, silent>>

(* EventBus.emit: the event is flushed and its frame put in the queue of    *)
(* every subscriber of this process.  The insert of an event of a deleted   *)
(* run violates its foreign key.                                            *)
Put(e, frame) ==
    reader' = IF e = Streamer /\ reader.pc = "reading"
              THEN [reader EXCEPT !.queue = Append(@, frame)] ELSE reader

NewEvent(e) == [id |-> nextId, born |-> exec[e].born]

Emit(e) ==
    /\ exec[e].pc = "run" /\ exec[e].left > 0 /\ Visible
    /\ exec' = [exec EXCEPT ![e].left = @ - 1, ![e].events = @ \cup {NewEvent(e)}]
    /\ nextId' = nextId + 1
    /\ Put(e, "event")
    /\ UNCHANGED <<status, events, begun, jobs, tail, request, asked, ghosts>>

Ends(e, result) == exec' = [exec EXCEPT ![e].pc = "refresh", ![e].outcome = result]

EngineRaises(e) ==
    /\ exec[e].pc = "run" /\ (e = Streamer => exec[e].events # {})
    /\ Ends(e, "failed")
    /\ UNCHANGED <<rows, jobs, readers, request, asked, ghosts>>

(* The engine returns: workflow_done is emitted by a first execution, after *)
(* complete() when it is streamed, and not at all by a resumed one.         *)
EngineReturns(e) ==
    /\ exec[e].pc = "run" /\ exec[e].left = 0 /\ Visible
    /\ exec[e].job = "resume"
    /\ Ends(e, "completed")
    /\ UNCHANGED <<rows, jobs, readers, request, asked, ghosts>>

WorkflowDone(e) ==
    /\ exec[e].pc = "run" /\ exec[e].left = 0 /\ Visible
    /\ exec[e].job \in {"run", "stream"}
    /\ exec' = [exec EXCEPT ![e].pc = "refresh", ![e].outcome = "completed",
                    ![e].events = @ \cup {NewEvent(e)}]
    /\ nextId' = nextId + 1
    /\ Put(e, "completed")
    /\ UNCHANGED <<status, events, begun, jobs, tail, request, asked, ghosts>>

(* commit_complete and fail_with_error refresh the run and do nothing when  *)
(* it is CANCELED; the refresh of a streamed completion reads the COMPLETED *)
(* that complete() flushed                                                  *)
Refresh(e) ==
    /\ exec[e].pc = "refresh" /\ Visible
    /\ IF status # "canceled" \/ (e = Streamer /\ HoldsRow)
       THEN exec' = [exec EXCEPT ![e].pc = "commit"]
       ELSE IF e = Streamer /\ exec[e].outcome = "failed"
       THEN exec' = [exec EXCEPT ![e].pc = "notify"]
       ELSE End(e)
    /\ UNCHANGED <<rows, jobs, readers, request, asked, ghosts>>

(* ... then commit the status and the flushed events together *)
Commit(e) ==
    /\ exec[e].pc = "commit" /\ Visible /\ (HoldsRow => e = Streamer)
    /\ status' = exec[e].outcome
    /\ events' = events \cup exec[e].events
    /\ IF e = Streamer
       THEN /\ outcome' = exec[e].outcome
            /\ exec' = [exec EXCEPT ![e].pc = "notify", ![e].events = {}]
       ELSE End(e) /\ UNCHANGED outcome
    /\ UNCHANGED <<nextId, begun, jobs, readers, request, asked, overlapped, silent>>

(* The handler of the streamed run then emits workflow_failed, in a         *)
(* transaction that nobody commits                                          *)
Notify ==
    /\ exec[Streamer].pc = "notify"
    /\ IF exec[Streamer].outcome = "failed"
       THEN Visible /\ nextId' = nextId + 1 /\ Put(Streamer, "failed")
       ELSE UNCHANGED <<nextId, reader>>
    /\ End(Streamer)
    /\ UNCHANGED <<status, events, begun, jobs, tail, request, asked, ghosts>>

(* A statement fails, or the row is gone: the session refuses what the      *)
(* handler does with it, and the execution ends without a commit or a frame *)
Breaks(e) ==
    /\ exec[e].pc \in {"run", "refresh", "commit", "notify"}
    /\ IF Visible THEN Asks ELSE UNCHANGED asked
    /\ silent' = (silent \/ e = Streamer)
    /\ End(e)
    /\ UNCHANGED <<rows, jobs, readers, request, overlapped, outcome>>

(* The pool process dies; the message is acknowledged *)
WorkerDies(w) ==
    /\ Running(w) /\ Asks
    /\ End(w)
    /\ UNCHANGED <<rows, jobs, readers, request, ghosts>>

-----------------------------------------------------------------------------
(* Requests on the run, each of which acts on the status it loaded, and the *)
(* recovery of runs without progress (app/services/workflow/recovery.py)    *)

RequestLoad(op, allowed) ==
    /\ request = NoRequest /\ Asks
    /\ status \in allowed
    /\ request' = [op |-> op, seen |-> status]
    /\ UNCHANGED <<rows, jobs, exec, readers, ghosts>>

CancelLoad == RequestLoad("cancel", Active)
ResumeLoad == RequestLoad("resume", {"failed", "canceled"})
DeleteLoad == RequestLoad("delete", Terminal)

Answer == request' = NoRequest

CancelCommit ==
    /\ request.op = "cancel" /\ Visible /\ ~HoldsRow
    /\ status' = "canceled" /\ Answer
    /\ UNCHANGED <<events, nextId, begun, jobs, exec, readers, asked, ghosts>>

ResumeCommit ==
    /\ request.op = "resume" /\ Visible /\ ~HoldsRow
    /\ status' = "running" /\ Answer
    /\ jobs' = [jobs EXCEPT !.resume = @ + 1]
    /\ UNCHANGED <<events, nextId, begun, exec, readers, asked, ghosts>>

DeleteCommit ==
    /\ request.op = "delete" /\ Visible /\ ~HoldsRow /\ KeyFree
    /\ status' = "deleted" /\ events' = {} /\ Answer
    /\ UNCHANGED <<nextId, begun, jobs, exec, readers, asked, ghosts>>

Recover ==
    /\ status \in Active /\ Asks
    /\ jobs' = IF status = "pending" THEN [jobs EXCEPT !.run = @ + 1]
                                     ELSE [jobs EXCEPT !.resume = @ + 1]
    /\ UNCHANGED <<rows, exec, readers, request, ghosts>>

-----------------------------------------------------------------------------
(* The reader of the streamed run *)

IsTerminal(frame) == frame \in {"completed", "failed"}

NextFrame ==
    /\ reader.pc = "reading" /\ reader.queue # <<>>
    /\ reader' = [pc |-> IF IsTerminal(Head(reader.queue)) THEN "await" ELSE "reading",
                  queue |-> Tail(reader.queue), last |-> Head(reader.queue)]
    /\ UNCHANGED <<rows, jobs, exec, tail, request, asked, ghosts>>

(* `await task` raises what the task raised *)
TaskAwaited ==
    /\ reader.pc = "await" /\ ~Running(Streamer)
    /\ reader' = [reader EXCEPT !.pc = IF silent THEN "raised" ELSE "done"]
    /\ UNCHANGED <<rows, jobs, exec, tail, request, asked, ghosts>>

(* The client disconnects: the request's session is closed under the task,  *)
(* whose run object is detached: its refresh raises and nothing is committed *)
ReaderLeaves ==
    /\ reader.pc \in {"reading", "await"} /\ Asks
    /\ reader' = [reader EXCEPT !.pc = "gone", !.queue = <<>>]
    /\ exec' = [exec EXCEPT ![Streamer] = IdleExec]
    /\ UNCHANGED <<rows, jobs, tail, request, ghosts>>

(* The API process dies, with its streamed run and its tails *)
ApiDies ==
    /\ reader.pc \in {"reading", "await"} \/ \E t \in Tails : tail[t].pc \in {"replay", "poll", "check"}
    /\ Asks
    /\ reader' = IF reader.pc = "idle" THEN reader ELSE [reader EXCEPT !.pc = "gone", !.queue = <<>>]
    /\ exec' = [exec EXCEPT ![Streamer] = IdleExec]
    /\ tail' = [t \in Tails |-> IF tail[t].pc = "idle" THEN IdleTail
                                ELSE [IdleTail EXCEPT !.pc = "gone"]]
    /\ request' = NoRequest
    /\ UNCHANGED <<rows, jobs, ghosts>>

-----------------------------------------------------------------------------
(* The tails *)

ById      == {p \in events \X events : p[1].id < p[2].id}
ByCreated == {p \in events \X events :
                \/ p[1].born < p[2].born
                \/ p[1].born = p[2].born /\ p[1].id < p[2].id}

(* get_for_run orders by created_at, the start of the transaction, then id; *)
(* get_after_id by id                                                       *)
After(id, last) == id > last

GetForRun        == OrderBy(events, ByCreated)
GetAfterId(last) == OrderBy({ev \in events : After(ev.id, last)}, ById)

(* Send the events found, `last_id` being the last one's *)
Send(t, found, pc) ==
    tail' = [tail EXCEPT ![t].pc = pc, ![t].read = {ev.id : ev \in events},
        ![t].sent = @ \o [i \in DOMAIN found |-> found[i].id],
        ![t].last = IF found = <<>> THEN @ ELSE Last(found).id]

(* The dependency loads the run; its status is captured before the replay *)
OpenTail(t) ==
    /\ tail[t].pc = "idle" /\ Visible
    /\ tail' = [tail EXCEPT ![t].pc = "replay", ![t].status = status]
    /\ UNCHANGED <<rows, jobs, exec, reader, request, asked, ghosts>>

Loop(st) == IF st \in Terminal THEN "done" ELSE "poll"

Replay(t) ==
    /\ tail[t].pc = "replay"
    /\ Send(t, GetForRun, Loop(tail[t].status))
    /\ UNCHANGED <<rows, jobs, exec, reader, request, asked, ghosts>>

Poll(t) ==
    /\ tail[t].pc = "poll"
    /\ Send(t, GetAfterId(tail[t].last), "check")
    /\ UNCHANGED <<rows, jobs, exec, reader, request, asked, ghosts>>

(* expire_all() and get_by_id(); the status is kept when the run is gone *)
Refreshed(t) == IF Visible THEN status ELSE tail[t].status

Check(t) ==
    /\ tail[t].pc = "check"
    /\ tail' = [tail EXCEPT ![t].status = Refreshed(t), ![t].pc = Loop(Refreshed(t))]
    /\ UNCHANGED <<rows, jobs, exec, reader, request, asked, ghosts>>

TailLeaves(t) ==
    /\ tail[t].pc \in {"poll", "check"} /\ Asks
    /\ tail' = [tail EXCEPT ![t] = [IdleTail EXCEPT !.pc = "gone"]]
    /\ UNCHANGED <<rows, jobs, exec, reader, request, ghosts>>

-----------------------------------------------------------------------------
ExecStep(e) ==
    \/ Emit(e) \/ EngineRaises(e) \/ EngineReturns(e) \/ WorkflowDone(e) \/ Refresh(e) \/ Commit(e)
    \/ (~Visible /\ Breaks(e))
WorkerStep(w) == RunTask(w) \/ ResumeTask(w) \/ ExecStep(w)
StreamStep    == StartStream \/ ExecStep(Streamer) \/ Notify
RequestStep   == CancelCommit \/ ResumeCommit \/ DeleteCommit
ReaderStep    == NextFrame \/ TaskAwaited
TailStep(t)   == Replay(t) \/ Poll(t) \/ Check(t)

Fault == ReaderLeaves \/ ApiDies \/ (\E e \in Execs : Breaks(e)) \/ (\E w \in Workers : WorkerDies(w))
            \/ (\E t \in Tails : TailLeaves(t))

Next ==
    \/ \E w \in Workers : WorkerStep(w)
    \/ OpenStream \/ StreamStep \/ ReaderStep
    \/ CancelLoad \/ ResumeLoad \/ DeleteLoad \/ RequestStep \/ Recover
    \/ \E t \in Tails : OpenTail(t) \/ TailStep(t)
    \/ Fault

Spec == Init /\ [][Next]_vars

Fairness ==
    /\ \A w \in Workers : WF_vars(WorkerStep(w))
    /\ WF_vars(StreamStep) /\ WF_vars(RequestStep) /\ WF_vars(ReaderStep)
    /\ \A t \in Tails : WF_vars(TailStep(t))

FairSpec == Spec /\ Fairness

-----------------------------------------------------------------------------
(* Properties *)

Event == [id : 1 .. nextId, born : 1 .. begun]
Frame == {"event", "completed", "failed"}

(* Types of the variables *)
TypeOK ==
    /\ status \in {"absent", "deleted"} \cup Active \cup Terminal
    /\ events \subseteq Event
    /\ nextId \in Nat \ {0} /\ begun \in Nat /\ asked \in 0 .. MaxRequests
    /\ jobs \in [run : Nat, resume : Nat]
    /\ exec \in [Execs -> [pc : {"idle", "queued", "run", "refresh", "commit", "notify"},
                           job : {"none", "run", "resume", "stream"},
                           events : SUBSET Event, born : 0 .. begun, left : Nat,
                           outcome : {"completed", "failed", None}]]
    /\ reader \in [pc : {"idle", "reading", "await", "done", "raised", "gone"},
                    queue : Seq(Frame), last : Frame \cup {None}]
    /\ tail \in [Tails -> [pc : {"idle", "replay", "poll", "check", "done", "gone"},
                           status : Active \cup Terminal \cup {None},
                           last : Nat, sent : Seq(Nat), read : SUBSET Nat]]
    /\ request \in [op : {"none", "cancel", "resume", "delete"},
                    seen : Active \cup Terminal \cup {None}]
    /\ outcome \in {"completed", "failed", None} /\ overlapped \in BOOLEAN /\ silent \in BOOLEAN

(* What a tail sent is exactly what was committed when it last read the     *)
(* events, each once and in order: neither a rollback, a cancellation nor a *)
(* resumption makes it skip or repeat one, as long as no two executions     *)
(* overlap (their ids interleave) and the run is not deleted.               *)
SentWhatWasCommitted ==
    \A t \in Tails : ~overlapped /\ status # "deleted" /\ tail[t].pc \in {"poll", "check", "done"} =>
        /\ ToSet(tail[t].sent) = tail[t].read
        /\ \A i, j \in DOMAIN tail[t].sent : i < j => tail[t].sent[i] < tail[t].sent[j]

(* The frames of a streamed run are sent before its outcome is committed.   *)
(* When the answer ends without an error, its last frame was completed      *)
(* exactly when COMPLETED was committed: a cancellation or a deletion       *)
(* cannot slip in between, because complete() holds the row.                *)
CompletedFrameIsCommitted ==
    reader.pc = "done" => (reader.last = "completed" <=> outcome = "completed")

(* Once a run stays terminal, every tail ends by itself: "the terminal-     *)
(* status check never fired, and the connection just hung until timeout"    *)
(* (the comment in _tail_run_events on the bug fixed with expire_all).      *)
TailEnds == <>[](status \in Terminal => \A t \in Tails : tail[t].pc \notin {"replay", "poll", "check"})

(* The reader of a streamed run ends, unless the handler of an exception    *)
(* raised: then no terminal frame ever comes (see the README).              *)
StreamEnds == <>[](reader.pc \in {"reading", "await"} => silent)
=============================================================================
