--------------------------- MODULE RunEventsProofs ---------------------------
(***************************************************************************)
(* Proofs about RunEvents for any pool, any number of tails and any bounds *)
(* on events and requests.                                                 *)
(***************************************************************************)
EXTENDS RunEvents, OrderingProofs, FiniteSetTheorems, TLAPS

Flushed(e) == exec[e].events

(* An id is given out once; an execution that ended holds no event *)
IdsInv ==
    /\ \A c \in events : c.id < nextId
    /\ \A c, d \in events : c.id = d.id => c = d
    /\ \A e \in Execs : \A a \in Flushed(e) :
        /\ a.id < nextId /\ a.born = exec[e].born
        /\ \A c \in events : a.id # c.id
        /\ \A f \in Execs : \A b \in Flushed(f) : a.id = b.id => e = f /\ a = b
    /\ \A e \in Execs : IF Running(e) THEN exec[e].born # 0 ELSE Flushed(e) = {}

(* An outcome is known when the engine has ended; no reader, no streamed run *)
OutcomeInv ==
    /\ \A e \in Execs : exec[e].pc \in {"refresh", "commit", "notify"} =>
            exec[e].outcome \in {"completed", "failed"}
    /\ reader.pc = "idle" => ~Running(Streamer)

TypeInv == TypeOK /\ IdsInv /\ OutcomeInv

(* A run that is not there yet is executed by nobody but its streamer *)
AbsentInv ==
    /\ exec[Streamer].pc = "queued" => status = "absent"
    /\ status = "absent" => \A w \in Workers : ~Running(w)

(* As long as no two executions overlap, the ids of an execution follow all *)
(* the committed ones, and the order of creation is the order of the ids.   *)
Alone ==
    \A e, f \in Execs : Running(e) /\ Running(f) => e = f

InOrder ==
    /\ \A e \in Execs : Running(e) => \A c \in events : c.born <= exec[e].born
    /\ \A e \in Execs : \A a \in Flushed(e), c \in events : c.id < a.id
    /\ \A c, d \in events : c.id < d.id => c.born <= d.born

(* What a tail has read is all there was up to `last_id` *)
UpToLast(t) ==
    /\ ToSet(tail[t].sent) = tail[t].read
    /\ \A i, j \in DOMAIN tail[t].sent : i < j => tail[t].sent[i] < tail[t].sent[j]
    /\ \A i \in tail[t].read : i <= tail[t].last
    /\ \A i \in tail[t].read : \E c \in events : c.id = i
    /\ tail[t].last # 0 => tail[t].last \in tail[t].read
    /\ \A c \in events : c.id \in tail[t].read \/ tail[t].last < c.id

TailInv ==
    \A t \in Tails :
        /\ tail[t].pc \in {"idle", "replay"} => tail[t].last = 0 /\ tail[t].sent = <<>>
        /\ tail[t].pc \in {"poll", "check", "done"} /\ status # "deleted" => UpToLast(t)

SentInv == ~overlapped => Alone /\ InOrder /\ TailInv

(* A frame that was put in the queue of the reader, and may have been read *)
Told(f) == reader.last = f \/ \E i \in DOMAIN reader.queue : reader.queue[i] = f

NothingTold == ~Told("completed") /\ ~Told("failed") /\ reader.pc = "reading"
Succeeds    == Told("completed") /\ ~Told("failed") /\ reader.pc \in {"reading", "await"}

(* The frames that announce the end of the streamed run, and what it committed *)
FrameInv ==
    /\ reader.pc = "idle" => reader.queue = <<>> /\ reader.last = None /\ outcome = None
    /\ reader.pc = "reading" => reader.last \notin {"completed", "failed"}
    /\ reader.pc = "await" => reader.last \in {"completed", "failed"}
    /\ exec[Streamer].pc \in {"queued", "run"} => NothingTold /\ outcome = None
    /\ exec[Streamer].pc \in {"refresh", "commit"} =>
        /\ outcome = None
        /\ exec[Streamer].outcome = "completed" => Succeeds
        /\ exec[Streamer].outcome = "failed" => NothingTold
    /\ exec[Streamer].pc = "notify" =>
        /\ exec[Streamer].outcome = "completed" => Succeeds /\ outcome = "completed"
        /\ exec[Streamer].outcome = "failed" => NothingTold /\ outcome # "completed"
    /\ Running(Streamer) => exec[Streamer].job = "stream" /\ reader.pc \in {"reading", "await"}
    /\ ~Running(Streamer) /\ ~silent /\ reader.pc \in {"reading", "await"} =>
        /\ ~(Told("completed") /\ Told("failed"))
        /\ Told("completed") <=> outcome = "completed"
    /\ CompletedFrameIsCommitted

-----------------------------------------------------------------------------
(* The queries of a tail *)

LEMMA Queried ==
  ASSUME TypeInv, NEW last \in Nat
  PROVE  /\ GetForRun \in Seq(events)
         /\ ToSet(GetForRun) = events
         /\ \A i, j \in DOMAIN GetForRun : i < j => <<GetForRun[i], GetForRun[j]>> \in ByCreated
         /\ GetAfterId(last) \in Seq(events)
         /\ ToSet(GetAfterId(last)) = {c \in events : last < c.id}
         /\ \A i, j \in DOMAIN GetAfterId(last) :
                i < j => <<GetAfterId(last)[i], GetAfterId(last)[j]>> \in ById
<1> DEFINE found == {c \in events : After(c.id, last)}
<1>1. /\ \A c \in events : c.id \in Nat /\ c.born \in Nat
      /\ \A c, d \in events : c.id = d.id => c = d
  BY DEF TypeInv, TypeOK, IdsInv, Event
<1>2. StrictTotal(events, ByCreated)
  BY <1>1 DEF StrictTotal, ByCreated
<1>3. StrictTotal(found, ById)
  BY <1>1 DEF StrictTotal, ById
<1>4. IsFiniteSet(events) /\ IsFiniteSet(found)
  <2>1. IsFiniteSet(1 .. nextId) /\ IsFiniteSet(1 .. begun)
    <3>1. nextId \in Int /\ begun \in Int
      BY DEF TypeInv, TypeOK
    <3> QED
      BY <3>1, FS_Interval
  <2>2. IsFiniteSet((1 .. begun) \X (1 .. nextId))
    BY <2>1, FS_Product
  <2> DEFINE f == [c \in events |-> <<c.born, c.id>>]
  <2>3. f \in Injection(events, (1 .. begun) \X (1 .. nextId))
    <3>1. \A c \in events : <<c.born, c.id>> \in (1 .. begun) \X (1 .. nextId)
      BY DEF TypeInv, TypeOK, Event
    <3>2. f \in [events -> (1 .. begun) \X (1 .. nextId)]
      BY <3>1
    <3>3. ASSUME NEW c \in events, NEW d \in events, f[c] = f[d] PROVE c = d
      BY <1>1, <3>3
    <3> QED
      BY <3>2, <3>3 DEF Injection, IsInjective
  <2>4. IsFiniteSet(events)
    BY <2>2, <2>3, FS_Injection
  <2>5. found \in SUBSET events
    OBVIOUS
  <2> QED
    BY ONLY <2>4, <2>5, FS_Subset
<1>5. /\ GetForRun \in Seq(events) /\ ToSet(GetForRun) = events
      /\ \A i, j \in DOMAIN GetForRun : i < j => <<GetForRun[i], GetForRun[j]>> \in ByCreated
  BY <1>2, <1>4, OrderedBy DEF GetForRun
<1>6. /\ GetAfterId(last) \in Seq(found) /\ ToSet(GetAfterId(last)) = found
      /\ \A i, j \in DOMAIN GetAfterId(last) :
            i < j => <<GetAfterId(last)[i], GetAfterId(last)[j]>> \in ById
  BY <1>3, <1>4, OrderedBy DEF GetAfterId
<1>7. found = {c \in events : last < c.id}
  BY <1>1 DEF After
<1>8. Seq(found) \subseteq Seq(events)
  OBVIOUS
<1> QED
  BY <1>5, <1>6, <1>7, <1>8

-----------------------------------------------------------------------------
(* Steps by what they do to the events *)

ExecRow == [pc : {"idle", "queued", "run", "refresh", "commit", "notify"},
            job : {"none", "run", "resume", "stream"},
            events : SUBSET Event, born : 0 .. begun, left : Nat,
            outcome : {"completed", "failed", None}]

SameRow(e) == Flushed(e)' = Flushed(e) /\ exec'[e].born = exec[e].born
BornOK(e)  == Running(e)' => exec'[e].born # 0

Loses ==
    /\ events' \subseteq events /\ nextId' \in Nat /\ nextId <= nextId'
    /\ \A e \in Execs :
        /\ BornOK(e)
        /\ Flushed(e)' = {} \/ (SameRow(e) /\ Running(e)')

Commits ==
    \E e \in Execs :
        /\ events' = events \cup Flushed(e) /\ Flushed(e)' = {} /\ BornOK(e)
        /\ \A f \in Execs \ {e} : exec'[f] = exec[f]
        /\ nextId' = nextId

Adds ==
    \E e \in Execs :
        /\ Flushed(e)' = Flushed(e) \cup {[id |-> nextId, born |-> exec'[e].born]}
        /\ Flushed(e) = {} \/ exec'[e].born = exec[e].born
        /\ Running(e)' /\ BornOK(e)
        /\ \A f \in Execs \ {e} : exec'[f] = exec[f]
        /\ nextId' = nextId + 1 /\ events' = events

LEMMA IdsStep ==
  ASSUME TypeInv, Loses \/ Commits \/ Adds
  PROVE  IdsInv'
<1> USE DEF TypeInv
<1>0. /\ \A c \in events : c.id \in Nat
      /\ \A e \in Execs : \A a \in Flushed(e) : a.id \in Nat
      /\ nextId \in Nat
  BY DEF TypeOK, Event, Flushed
<1>1. CASE Loses
  BY <1>0, <1>1 DEF Loses, IdsInv, SameRow, BornOK
<1>2. CASE Commits
  <2>1. PICK e \in Execs :
            /\ events' = events \cup Flushed(e) /\ Flushed(e)' = {} /\ BornOK(e)
            /\ \A f \in Execs \ {e} : exec'[f] = exec[f]
            /\ nextId' = nextId
    BY <1>2 DEF Commits
  <2>2. \A f \in Execs : f # e => Flushed(f)' = Flushed(f) /\ (Running(f)' <=> Running(f))
    BY <2>1 DEF Flushed, Running
  <2> QED
    BY <1>0, <2>1, <2>2 DEF IdsInv, BornOK
<1>3. CASE Adds
  <2>1. PICK e \in Execs :
            /\ Flushed(e)' = Flushed(e) \cup {[id |-> nextId, born |-> exec'[e].born]}
            /\ Flushed(e) = {} \/ exec'[e].born = exec[e].born
            /\ Running(e)' /\ BornOK(e)
            /\ \A f \in Execs \ {e} : exec'[f] = exec[f]
            /\ nextId' = nextId + 1 /\ events' = events
    BY <1>3 DEF Adds
  <2>2. \A f \in Execs : f # e => Flushed(f)' = Flushed(f) /\ (Running(f)' <=> Running(f))
    BY <2>1 DEF Flushed, Running
  <2> QED
    BY <1>0, <2>1, <2>2 DEF IdsInv, BornOK
<1> QED
  BY <1>1, <1>2, <1>3

(* The ids of the events lie below the next one, and their executions have begun *)
LEMMA EventFields ==
  ASSUME TypeOK
  PROVE  /\ events \subseteq Event
         /\ \A e \in Execs : Flushed(e) \subseteq Event /\ exec[e].born \in Nat
         /\ \A c \in Event : /\ c.id \in Nat /\ 0 < c.id
                            /\ c.born \in Nat /\ 0 < c.born /\ c.born <= begun
         /\ nextId \in Nat /\ begun \in Nat
<1>1. nextId \in Nat /\ begun \in Nat /\ events \subseteq Event
  BY DEF TypeOK
<1>2. ASSUME NEW c \in Event
      PROVE  /\ c.id \in Nat /\ 0 < c.id
             /\ c.born \in Nat /\ 0 < c.born /\ c.born <= begun
  BY <1>1, <1>2 DEF Event
<1>3. ASSUME NEW e \in Execs PROVE Flushed(e) \subseteq Event /\ exec[e].born \in Nat
  <2>1. exec[e].events \subseteq Event /\ exec[e].born \in 0 .. begun
    BY DEF TypeOK
  <2> QED
    BY <1>1, <2>1 DEF Flushed
<1> QED
  BY <1>1, <1>2, <1>3

(* The fields of a tail have their types *)
LEMMA TailTypes ==
  ASSUME TypeOK, NEW t \in Tails
  PROVE  tail[t].last \in Nat /\ tail[t].sent \in Seq(Nat) /\ tail[t].read \subseteq Nat
<1>1. PICK r : r = tail[t]
  OBVIOUS
<1>2. r \in [pc : {"idle", "replay", "poll", "check", "done", "gone"},
             status : Active \cup Terminal \cup {None},
             last : Nat, sent : Seq(Nat), read : SUBSET Nat]
  BY <1>1 DEF TypeOK
<1>3. r.last \in Nat /\ r.sent \in Seq(Nat) /\ r.read \in SUBSET Nat
  BY <1>2
<1> QED
  BY <1>1, <1>3

(* What makes the next state well typed when readers and requests keep theirs *)
LEMMA Typed ==
  ASSUME TypeOK, status' \in {"absent", "deleted"} \cup Active \cup Terminal, events' \subseteq Event',
         nextId' \in Nat \ {0}, begun' \in Nat, asked' \in 0 .. MaxRequests,
         jobs' \in [run : Nat, resume : Nat], exec' \in [Execs -> ExecRow'],
         UNCHANGED <<reader, tail, request>>,
         outcome' \in {"completed", "failed", None}, overlapped' \in BOOLEAN, silent' \in BOOLEAN
  PROVE  TypeOK'
<1>1. /\ reader' \in [pc : {"idle", "reading", "await", "done", "raised", "gone"},
                      queue : Seq(Frame), last : Frame \cup {None}]
      /\ request' \in [op : {"none", "cancel", "resume", "delete"},
                       seen : Active \cup Terminal \cup {None}]
  BY DEF TypeOK
<1>2. tail' \in [Tails -> [pc : {"idle", "replay", "poll", "check", "done", "gone"},
                          status : Active \cup Terminal \cup {None},
                          last : Nat, sent : Seq(Nat), read : SUBSET Nat]]
  BY DEF TypeOK
<1> QED
  BY <1>1, <1>2 DEF TypeOK, ExecRow

(* More ids and executions only widen the types *)
LEMMA Wider ==
  ASSUME TypeOK, nextId' \in Nat, begun' \in Nat, nextId <= nextId', begun <= begun'
  PROVE  /\ Event \subseteq Event' /\ events \subseteq Event'
         /\ exec \in [Execs -> ExecRow']
<1>1. Event \subseteq Event'
  BY DEF TypeOK, Event
<1>2. ASSUME NEW e \in Execs PROVE exec[e] \in ExecRow'
  BY <1>1 DEF TypeOK, ExecRow
<1> QED
  BY <1>1, <1>2 DEF TypeOK

(* Steps that leave the executions alone *)
LEMMA SameExecs ==
  ASSUME TypeInv, exec' = exec, events' \subseteq events, nextId' = nextId
  PROVE  Loses
<1>1. nextId \in Nat
  BY DEF TypeInv, TypeOK
<1>2. \A e \in Execs : Running(e)' <=> Running(e)
  BY DEF Running
<1> QED
  BY <1>1, <1>2 DEF TypeInv, Loses, IdsInv, SameRow, BornOK, Flushed

LEMMA LosesOwn ==
  ASSUME TypeInv, NEW e \in Execs, \A f \in Execs \ {e} : exec'[f] = exec[f],
         Flushed(e)' = {} \/ (SameRow(e) /\ Running(e) /\ Running(e)'),
         Running(e)' => exec'[e].born # 0,
         events' = events, nextId' \in {nextId, nextId + 1}
  PROVE  Loses
<1>1. nextId \in Nat
  BY DEF TypeInv, TypeOK
<1>2. \A f \in Execs \ {e} : (Running(f)' <=> Running(f)) /\ SameRow(f)
  BY DEF Running, SameRow, Flushed
<1> QED
  BY <1>1, <1>2 DEF TypeInv, Loses, IdsInv, SameRow, BornOK

(* The actions, the executions' ones for any of them *)
WorkerMoves(w) == RunTask(w) \/ ResumeTask(w) \/ WorkerDies(w)
ExecMoves(e) ==
    \/ Emit(e) \/ EngineRaises(e) \/ EngineReturns(e) \/ WorkflowDone(e)
    \/ Refresh(e) \/ Commit(e) \/ Breaks(e)
StreamMoves == OpenStream \/ StartStream \/ Notify
RunMoves == CancelLoad \/ ResumeLoad \/ DeleteLoad \/ CancelCommit \/ ResumeCommit \/ DeleteCommit \/ Recover
ReaderMoves == NextFrame \/ TaskAwaited \/ ReaderLeaves \/ ApiDies
TailMoves(t) == OpenTail(t) \/ Replay(t) \/ Poll(t) \/ Check(t) \/ TailLeaves(t)

LEMMA Moves ==
  ASSUME [Next]_vars
  PROVE  \/ \E w \in Workers : WorkerMoves(w)
         \/ \E e \in Execs : ExecMoves(e)
         \/ StreamMoves \/ RunMoves \/ ReaderMoves
         \/ \E t \in Tails : TailMoves(t)
         \/ UNCHANGED vars
<1>1. Workers \subseteq Execs /\ Streamer \in Execs
  BY DEF Execs
<1>2. ASSUME NEW e \in Execs, ExecStep(e) PROVE ExecMoves(e)
  BY <1>2 DEF ExecStep, ExecMoves
<1>3. CASE \E w \in Workers : WorkerStep(w)
  BY <1>1, <1>2, <1>3 DEF WorkerStep, WorkerMoves
<1>4. CASE OpenStream \/ StreamStep \/ ReaderStep
  BY <1>1, <1>2, <1>4 DEF StreamStep, ReaderStep, StreamMoves, ReaderMoves
<1>5. CASE CancelLoad \/ ResumeLoad \/ DeleteLoad \/ RequestStep \/ Recover
  BY <1>5 DEF RequestStep, RunMoves
<1>6. CASE \E t \in Tails : OpenTail(t) \/ TailStep(t)
  BY <1>6 DEF TailStep, TailMoves
<1>7. CASE Fault
  BY <1>7 DEF Fault, ReaderMoves, ExecMoves, WorkerMoves, TailMoves
<1> QED
  BY <1>3, <1>4, <1>5, <1>6, <1>7 DEF Next

LEMMA Begins ==
  ASSUME TypeInv, NEW e \in Execs, NEW job \in {"run", "resume", "stream"}, NEW extra \in Nat,
         BeginExecution(e, job, extra), nextId' = nextId
  PROVE  /\ begun' = begun + 1 /\ begun' \in Nat
         /\ exec' \in [Execs -> ExecRow']
         /\ exec'[e].pc = "run" /\ exec'[e].events = {} /\ exec'[e].born = begun + 1
         /\ exec'[e].outcome = None /\ exec'[e].job = job
         /\ \A f \in Execs \ {e} : exec'[f] = exec[f]
         /\ overlapped' \in BOOLEAN
<1>1. PICK n \in 0 .. MaxSteps :
        exec' = [exec EXCEPT ![e] = [pc |-> "run", job |-> job, events |-> {},
                                     born |-> begun + 1, left |-> n + extra, outcome |-> None]]
  BY DEF BeginExecution
<1> DEFINE r == [pc |-> "run", job |-> job, events |-> {}, born |-> begun + 1,
                 left |-> n + extra, outcome |-> None]
<1>2. begun' = begun + 1 /\ begun' \in Nat /\ nextId' \in Nat
  BY DEF TypeInv, TypeOK, BeginExecution
<1>3. n + extra \in Nat
  BY RunEventsAssumption
<1>4. r \in ExecRow'
  BY <1>2, <1>3 DEF ExecRow
<1>5. exec \in [Execs -> ExecRow']
  BY <1>2, Wider DEF TypeInv, TypeOK
<1>6. exec' \in [Execs -> ExecRow']
  BY <1>1, <1>4, <1>5
<1>7. exec'[e] = r /\ \A f \in Execs \ {e} : exec'[f] = exec[f]
  BY <1>1, <1>5
<1>8. overlapped' \in BOOLEAN
  <2>1. overlapped' = (overlapped \/ \E f \in Execs \ {e} : Running(f))
    BY DEF BeginExecution
  <2> QED
    BY <2>1
<1> QED
  BY <1>2, <1>6, <1>7, <1>8

LEMMA WorkerShape ==
  ASSUME TypeInv, NEW w \in Workers, WorkerMoves(w)
  PROVE  TypeOK' /\ Loses
<1> USE DEF TypeInv
<1>1. w \in Execs
  BY DEF Execs
<1>2. CASE RunTask(w)
  <2>1. /\ jobs' \in [run : Nat, resume : Nat]
        /\ status' \in {"absent", "deleted"} \cup Active \cup Terminal
    <3>1. /\ jobs \in [run : Nat, resume : Nat] /\ jobs.run > 0
          /\ jobs' = [jobs EXCEPT !.run = @ - 1]
      BY <1>2 DEF RunTask, TypeOK
    <3>2. status' = "running" \/ status' = status
      <4>1. CASE status = "pending"
        BY <1>2, <4>1 DEF RunTask
      <4>2. CASE status # "pending"
        BY <1>2, <4>2 DEF RunTask
      <4> QED
        BY <4>1, <4>2
    <3>3. jobs' \in [run : Nat, resume : Nat]
      BY <3>1
    <3>4. status' \in {"absent", "deleted"} \cup Active \cup Terminal
      BY <3>2 DEF TypeOK, Active
    <3> QED
      BY <3>3, <3>4
  <2>2. /\ UNCHANGED <<events, nextId, reader, tail, request, asked, outcome>>
        /\ silent' = silent
    BY <1>2 DEF RunTask, readers
  <2>3. CASE status = "pending"
    <3>1. BeginExecution(w, "run", 0)
      BY <1>2, <2>3 DEF RunTask
    <3>2. /\ begun' = begun + 1 /\ begun' \in Nat
          /\ exec' \in [Execs -> ExecRow']
          /\ exec'[w].events = {} /\ exec'[w].born = begun + 1
          /\ \A f \in Execs \ {w} : exec'[f] = exec[f]
      BY <1>1, <2>2, <3>1, Begins
    <3>3. overlapped' \in BOOLEAN
      BY <1>1, <2>2, <3>1, Begins
    <3>4. Event \subseteq Event' /\ events \subseteq Event'
      BY <2>2, <3>2, Wider DEF TypeOK
    <3>5. Loses
      <4>1. Flushed(w)' = {} /\ events' = events
        BY <2>2, <3>2 DEF Flushed
      <4>2. exec'[w].born # 0 /\ w \in Execs /\ nextId' \in {nextId, nextId + 1}
        BY <1>1, <2>2, <3>2 DEF TypeInv, TypeOK, Execs
      <4>3. events' = events /\ \A f \in Execs \ {w} : exec'[f] = exec[f]
        BY <2>2, <3>2
      <4> QED
        BY <4>1, <4>2, <4>3, LosesOwn
    <3>6. TypeOK'
      <4>1. events' \subseteq Event'
        BY <2>2, <3>4
      <4>2. /\ nextId' \in Nat \ {0} /\ asked' \in 0 .. MaxRequests
            /\ outcome' \in {"completed", "failed", None} /\ silent' \in BOOLEAN
        BY <2>2 DEF TypeOK
      <4> QED
        BY <2>1, <2>2, <3>2, <3>3, <4>1, <4>2, Typed
    <3> QED
      BY <3>5, <3>6
  <2>4. CASE status # "pending"
    <3>1. /\ UNCHANGED <<begun, exec>>
          /\ overlapped' = overlapped
      BY <1>2, <2>4 DEF RunTask
    <3>2. Loses
      BY <2>2, <3>1, SameExecs
    <3>3. TypeOK'
      BY <2>1, <2>2, <3>1 DEF TypeOK, Event
    <3> QED
      BY <3>2, <3>3
  <2> QED
    BY <2>3, <2>4
<1>3. CASE ResumeTask(w)
  <2>1. jobs' \in [run : Nat, resume : Nat]
    <3>1. /\ jobs \in [run : Nat, resume : Nat] /\ jobs.resume > 0
          /\ jobs' = [jobs EXCEPT !.resume = @ - 1]
      BY <1>3 DEF ResumeTask, TypeOK
    <3> QED
      BY <3>1
  <2>2. /\ UNCHANGED <<status, events, nextId, reader, tail, request, asked, outcome>>
        /\ silent' = silent
    BY <1>3 DEF ResumeTask, readers
  <2>3. CASE status = "running"
    <3>1. BeginExecution(w, "resume", 0)
      BY <1>3, <2>3 DEF ResumeTask
    <3>2. /\ begun' = begun + 1 /\ begun' \in Nat
          /\ exec' \in [Execs -> ExecRow']
          /\ exec'[w].events = {} /\ exec'[w].born = begun + 1
          /\ \A f \in Execs \ {w} : exec'[f] = exec[f]
      BY <1>1, <2>2, <3>1, Begins
    <3>3. overlapped' \in BOOLEAN
      BY <1>1, <2>2, <3>1, Begins
    <3>4. Event \subseteq Event' /\ events \subseteq Event'
      BY <2>2, <3>2, Wider DEF TypeOK
    <3>5. Loses
      BY <1>1, <2>2, <3>2, LosesOwn DEF Flushed, TypeOK
    <3>6. TypeOK'
      BY <2>1, <2>2, <3>2, <3>3, <3>4 DEF TypeOK, ExecRow
    <3> QED
      BY <3>5, <3>6
  <2>4. CASE status # "running"
    <3>1. /\ UNCHANGED <<begun, exec>>
          /\ overlapped' = overlapped
      BY <1>3, <2>4 DEF ResumeTask
    <3>2. Loses
      BY <2>2, <3>1, SameExecs
    <3>3. TypeOK'
      BY <2>1, <2>2, <3>1 DEF TypeOK, Event
    <3> QED
      BY <3>2, <3>3
  <2> QED
    BY <2>3, <2>4
<1>4. CASE WorkerDies(w)
  <2>1. /\ UNCHANGED <<status, events, nextId, begun, jobs, reader, tail, request, outcome>>
        /\ asked' \in 0 .. MaxRequests
    BY <1>4, RunEventsAssumption DEF WorkerDies, rows, readers, ghosts, Asks, TypeOK
  <2>2. overlapped' = overlapped /\ silent' = silent
    BY <1>4 DEF WorkerDies, ghosts
  <2>3. exec' = [exec EXCEPT ![w] = IdleExec]
    BY <1>4 DEF WorkerDies, End
  <2>4. exec'[w] = IdleExec /\ \A f \in Execs \ {w} : exec'[f] = exec[f]
    BY <1>1, <2>3 DEF TypeOK
  <2>5. IdleExec \in ExecRow
    BY DEF IdleExec, ExecRow, TypeOK
  <2>6. exec' \in [Execs -> ExecRow]
    BY <2>3, <2>5 DEF TypeOK, ExecRow
  <2>7. Loses
    BY <1>1, <2>1, <2>4, LosesOwn DEF IdleExec, Flushed, Running
  <2>8. TypeOK'
    BY <2>1, <2>2, <2>6 DEF TypeOK, ExecRow, Event
  <2> QED
    BY <2>7, <2>8
<1> QED
  BY <1>2, <1>3, <1>4 DEF WorkerMoves

(* A step of an execution that ends or goes on without touching its events *)
LEMMA OwnStep ==
  ASSUME TypeInv, NEW e \in Execs,
         \/ exec' = [exec EXCEPT ![e] = IdleExec]
         \/ \E pc \in {"refresh", "commit", "notify"}, result \in {"completed", "failed", None} :
                /\ Running(e)
                /\ exec' = [exec EXCEPT ![e].pc = pc, ![e].outcome = result],
         events' = events, begun' = begun, nextId' \in {nextId, nextId + 1}
  PROVE  exec' \in [Execs -> ExecRow'] /\ Loses /\ events' \subseteq Event' /\ nextId' \in Nat \ {0}
<1> USE DEF TypeInv
<1>1. /\ nextId \in Nat /\ nextId' \in Nat /\ nextId <= nextId' /\ nextId' # 0
      /\ begun \in Nat /\ begun' \in Nat /\ begun <= begun'
  BY DEF TypeOK
<1>2. exec \in [Execs -> ExecRow'] /\ events \subseteq Event'
  BY <1>1, Wider
<1>3. CASE exec' = [exec EXCEPT ![e] = IdleExec]
  <2>1. exec'[e] = IdleExec /\ \A f \in Execs \ {e} : exec'[f] = exec[f]
    BY <1>3, <1>2
  <2>2. IdleExec \in ExecRow'
    BY <1>1 DEF IdleExec, ExecRow
  <2>3. exec' \in [Execs -> ExecRow']
    BY <1>2, <1>3, <2>2
  <2>4. Loses
    BY <2>1, LosesOwn DEF IdleExec, Flushed, Running
  <2> QED
    BY <1>1, <1>2, <2>3, <2>4
<1>4. ASSUME NEW pc \in {"refresh", "commit", "notify"}, NEW result \in {"completed", "failed", None},
             Running(e), exec' = [exec EXCEPT ![e].pc = pc, ![e].outcome = result]
      PROVE  exec' \in [Execs -> ExecRow'] /\ Loses
  <2>1. exec' \in [Execs -> ExecRow']
    <3>1. PICK r : r = [exec[e] EXCEPT !.pc = pc, !.outcome = result]
      OBVIOUS
    <3>2. exec[e] \in ExecRow'
      BY <1>2
    <3>3. r \in ExecRow'
      BY <3>1, <3>2 DEF ExecRow
    <3>4. exec' = [exec EXCEPT ![e] = r]
      BY <1>4, <3>1
    <3> QED
      BY <1>2, <3>3, <3>4
  <2>2. \A f \in Execs \ {e} : exec'[f] = exec[f]
    BY <1>2, <1>4
  <2>3. exec'[e].events = exec[e].events /\ exec'[e].born = exec[e].born /\ exec'[e].pc = pc
    BY <1>2, <1>4 DEF ExecRow
  <2>4. SameRow(e) /\ Running(e)' /\ exec'[e].born # 0
    BY <1>4, <2>3 DEF SameRow, Flushed, Running, IdsInv
  <2>5. Loses
    BY <1>4, <2>2, <2>4, LosesOwn
  <2> QED
    BY <2>1, <2>5
<1> QED
  BY <1>1, <1>2, <1>3, <1>4

(* An event is flushed *)
LEMMA AddStep ==
  ASSUME TypeInv, NEW e \in Execs, NEW born \in 1 .. begun', begun' \in {begun, begun + 1},
         Flushed(e) = {} \/ born = exec[e].born,
         NEW q \in [pc : {"queued", "run", "refresh"}, job : {"none", "run", "resume", "stream"},
                    events : {Flushed(e) \cup {[id |-> nextId, born |-> born]}}, born : {born},
                    left : Nat, outcome : {"completed", "failed", None}],
         exec' = [exec EXCEPT ![e] = q],
         events' = events, nextId' = nextId + 1
  PROVE  exec' \in [Execs -> ExecRow'] /\ Adds /\ events' \subseteq Event' /\ nextId' \in Nat \ {0}
<1> USE DEF TypeInv
<1>1. /\ nextId \in Nat /\ nextId' \in Nat /\ nextId <= nextId' /\ nextId # 0
      /\ begun \in Nat /\ begun' \in Nat /\ begun <= begun'
  BY DEF TypeOK
<1>2. exec \in [Execs -> ExecRow'] /\ events \subseteq Event'
  BY <1>1, Wider
<1>3. Flushed(e) \subseteq Event'
  BY <1>2 DEF Flushed, ExecRow
<1>4. [id |-> nextId, born |-> born] \in Event'
  BY <1>1 DEF Event
<1>5. q.events \subseteq Event' /\ q.born \in 0 .. begun'
  BY <1>1, <1>3, <1>4
<1>6. q \in ExecRow'
  BY <1>5 DEF ExecRow
<1>7. exec' \in [Execs -> ExecRow']
  BY <1>2, <1>6
<1>8. exec'[e] = q /\ \A f \in Execs \ {e} : exec'[f] = exec[f]
  BY <1>2
<1>9. exec'[e].pc \in {"queued", "run", "refresh"} /\ exec'[e].born = born
      /\ exec'[e].events = Flushed(e) \cup {[id |-> nextId, born |-> born]}
  BY <1>8
<1>10. Flushed(e)' = Flushed(e) \cup {[id |-> nextId, born |-> exec'[e].born]}
  BY <1>9 DEF Flushed
<1>11. Running(e)' /\ BornOK(e)
  BY <1>1, <1>9 DEF Running, BornOK
<1>12. Adds
  BY <1>8, <1>9, <1>10, <1>11 DEF Adds
<1> QED
  BY <1>1, <1>2, <1>7, <1>12

LEMMA PutFrame ==
  ASSUME TypeOK, NEW e \in Execs, NEW frame \in Frame, Put(e, frame)
  PROVE  reader' \in [pc : {"idle", "reading", "await", "done", "raised", "gone"},
                      queue : Seq(Frame), last : Frame \cup {None}]
<1>1. CASE e = Streamer /\ reader.pc = "reading"
  <2>1. reader' = [reader EXCEPT !.queue = Append(@, frame)] /\ reader.queue \in Seq(Frame)
    BY <1>1 DEF Put, TypeOK
  <2>2. Append(reader.queue, frame) \in Seq(Frame)
    BY <2>1
  <2> QED
    BY <2>1, <2>2 DEF TypeOK
<1>2. CASE ~(e = Streamer /\ reader.pc = "reading")
  BY <1>2 DEF Put, TypeOK
<1> QED
  BY <1>1, <1>2

LEMMA ExecShape ==
  ASSUME TypeInv, NEW e \in Execs, ExecMoves(e)
  PROVE  TypeOK' /\ (Loses \/ Commits \/ Adds)
<1> USE DEF TypeInv
<1> DEFINE Good == /\ exec' \in [Execs -> ExecRow'] /\ events' \subseteq Event'
                   /\ nextId' \in Nat \ {0}
<1>1. exec[e] \in ExecRow /\ (Running(e) => exec[e].born \in 1 .. begun)
  BY DEF TypeOK, ExecRow, IdsInv
<1>2. "event" \in Frame /\ "completed" \in Frame
  BY DEF Frame
<1>3. CASE Emit(e)
  <2>1. /\ exec[e].pc = "run" /\ exec[e].left > 0
        /\ exec' = [exec EXCEPT ![e].left = @ - 1, ![e].events = @ \cup {NewEvent(e)}]
        /\ nextId' = nextId + 1 /\ Put(e, "event")
        /\ UNCHANGED <<status, events, begun, jobs, tail, request, asked>>
    BY <1>3 DEF Emit
  <2>2. UNCHANGED ghosts
    BY <1>3 DEF Emit
  <2>0. PICK n : n = exec[e].left - 1
    OBVIOUS
  <2> DEFINE q == [exec[e] EXCEPT !.left = n, !.events = @ \cup {NewEvent(e)}]
  <2>3. exec' = [exec EXCEPT ![e] = q]
    BY <2>0, <2>1 DEF TypeOK
  <2>4. q \in [pc : {"queued", "run", "refresh"}, job : {"none", "run", "resume", "stream"},
               events : {Flushed(e) \cup {[id |-> nextId, born |-> exec[e].born]}}, born : {exec[e].born},
               left : Nat, outcome : {"completed", "failed", None}]
    <3>1. exec[e].left \in Nat
      BY <1>1 DEF ExecRow
    <3>2. n \in Nat
      BY <2>0, <2>1, <3>1
    <3> QED
      BY <1>1, <2>1, <3>2 DEF ExecRow, NewEvent, Flushed
  <2>5. exec[e].born \in 1 .. begun' /\ begun' \in {begun, begun + 1}
    BY <1>1, <2>1 DEF Running
  <2> HIDE DEF q
  <2>6. Good /\ Adds
    BY <2>1, <2>3, <2>4, <2>5, AddStep
  <2>7. reader' \in [pc : {"idle", "reading", "await", "done", "raised", "gone"},
                      queue : Seq(Frame), last : Frame \cup {None}]
    BY <1>2, <2>1, PutFrame
  <2>8. outcome' = outcome /\ overlapped' = overlapped /\ silent' = silent
    BY <2>2 DEF ghosts
  <2>9. TypeOK'
    BY <2>1, <2>6, <2>7, <2>8 DEF TypeOK, ExecRow
  <2> QED
    BY <2>6, <2>9
<1>4. CASE WorkflowDone(e)
  <2>1. /\ exec[e].pc = "run"
        /\ exec' = [exec EXCEPT ![e].pc = "refresh", ![e].outcome = "completed",
                        ![e].events = @ \cup {NewEvent(e)}]
        /\ nextId' = nextId + 1 /\ Put(e, "completed")
        /\ UNCHANGED <<status, events, begun, jobs, tail, request, asked>>
    BY <1>4 DEF WorkflowDone
  <2>2. UNCHANGED ghosts
    BY <1>4 DEF WorkflowDone
  <2> DEFINE q == [exec[e] EXCEPT !.pc = "refresh", !.outcome = "completed",
                                  !.events = @ \cup {NewEvent(e)}]
  <2>3. exec' = [exec EXCEPT ![e] = q]
    BY <2>1 DEF TypeOK
  <2>4. q \in [pc : {"queued", "run", "refresh"}, job : {"none", "run", "resume", "stream"},
               events : {Flushed(e) \cup {[id |-> nextId, born |-> exec[e].born]}}, born : {exec[e].born},
               left : Nat, outcome : {"completed", "failed", None}]
    BY <1>1, <2>1 DEF ExecRow, NewEvent, Flushed
  <2>5. exec[e].born \in 1 .. begun' /\ begun' \in {begun, begun + 1}
    BY <1>1, <2>1 DEF Running
  <2> HIDE DEF q
  <2>6. Good /\ Adds
    BY <2>1, <2>3, <2>4, <2>5, AddStep
  <2>7. reader' \in [pc : {"idle", "reading", "await", "done", "raised", "gone"},
                      queue : Seq(Frame), last : Frame \cup {None}]
    BY <1>2, <2>1, PutFrame
  <2>8. outcome' = outcome /\ overlapped' = overlapped /\ silent' = silent
    BY <2>2 DEF ghosts
  <2>9. TypeOK'
    BY <2>1, <2>6, <2>7, <2>8 DEF TypeOK, ExecRow
  <2> QED
    BY <2>6, <2>9
<1>5. CASE EngineRaises(e) \/ EngineReturns(e) \/ Refresh(e)
  <2>1. UNCHANGED <<status, events, nextId, begun, jobs, reader, tail, request, asked>>
    BY <1>5 DEF EngineRaises, EngineReturns, Refresh, rows, readers
  <2>2. UNCHANGED ghosts
    BY <1>5 DEF EngineRaises, EngineReturns, Refresh
  <2>3. \/ exec' = [exec EXCEPT ![e] = IdleExec]
        \/ \E pc \in {"refresh", "commit", "notify"}, result \in {"completed", "failed", None} :
                /\ Running(e)
                /\ exec' = [exec EXCEPT ![e].pc = pc, ![e].outcome = result]
    <3>1. CASE EngineRaises(e) \/ EngineReturns(e)
      BY <3>1 DEF EngineRaises, EngineReturns, Ends, Running
    <3>2. CASE Refresh(e)
      <4>1. Running(e)
        BY <3>2 DEF Refresh, Running
      <4>2. exec[e].outcome \in {"completed", "failed", None}
        BY <1>1 DEF ExecRow
      <4>3. \/ exec' = [exec EXCEPT ![e].pc = "commit"]
            \/ exec' = [exec EXCEPT ![e].pc = "notify"]
            \/ exec' = [exec EXCEPT ![e] = IdleExec]
        BY <3>2, Zenon DEF Refresh, End
      <4>4. ASSUME NEW pc \in {"commit", "notify"}, exec' = [exec EXCEPT ![e].pc = pc]
            PROVE  exec' = [exec EXCEPT ![e].pc = pc, ![e].outcome = exec[e].outcome]
        BY <4>4 DEF TypeOK
      <4> QED
        BY <4>1, <4>2, <4>3, <4>4
    <3> QED
      BY <1>5, <3>1, <3>2
  <2>4. Good /\ Loses
    BY <2>1, <2>3, OwnStep
  <2>5. outcome' = outcome /\ overlapped' = overlapped /\ silent' = silent
    BY <2>2 DEF ghosts
  <2>6. TypeOK'
    BY <2>1, <2>4, <2>5 DEF TypeOK, ExecRow
  <2> QED
    BY <2>4, <2>6
<1>6. CASE Breaks(e)
  <2>1. UNCHANGED <<status, events, nextId, begun, jobs, reader, tail, request, outcome>>
    BY <1>6 DEF Breaks, rows, readers
  <2>2. exec' = [exec EXCEPT ![e] = IdleExec]
    BY <1>6 DEF Breaks, End
  <2>3. Good /\ Loses
    BY <2>1, <2>2, OwnStep
  <2>4. asked' \in 0 .. MaxRequests
    <3>1. asked' = asked \/ (asked < MaxRequests /\ asked' = asked + 1)
      BY <1>6 DEF Breaks, Asks
    <3> QED
      BY <3>1, RunEventsAssumption DEF TypeOK
  <2>5. overlapped' = overlapped /\ silent' = (silent \/ e = Streamer)
    BY <1>6 DEF Breaks
  <2>6. silent' \in BOOLEAN
    BY <2>5
  <2>7. TypeOK'
    BY <2>1, <2>3, <2>4, <2>5, <2>6 DEF TypeOK, ExecRow
  <2> QED
    BY <2>3, <2>7
<1>7. CASE Commit(e)
  <2>1. /\ exec[e].pc = "commit" /\ status' = exec[e].outcome
        /\ events' = events \cup exec[e].events
        /\ UNCHANGED <<nextId, begun, jobs, reader, tail, request, asked>>
    BY <1>7 DEF Commit, readers
  <2>2. overlapped' = overlapped /\ silent' = silent
    BY <1>7 DEF Commit
  <2>3. exec[e].outcome \in {"completed", "failed"}
    BY <2>1 DEF OutcomeInv
  <2>4. exec[e].events \subseteq Event /\ nextId \in Nat \ {0} /\ begun \in Nat
    BY DEF TypeOK
  <2>5. /\ exec' \in [Execs -> ExecRow'] /\ outcome' \in {"completed", "failed", None}
        /\ exec'[e].events = {} /\ (Running(e)' => exec'[e].born # 0)
        /\ \A f \in Execs \ {e} : exec'[f] = exec[f]
    <3>1. exec \in [Execs -> ExecRow']
      BY <2>1, <2>4, Wider
    <3>2. CASE e = Streamer
      <4>1. /\ outcome' = exec[e].outcome
            /\ exec' = [exec EXCEPT ![e].pc = "notify", ![e].events = {}]
        BY <1>7, <3>2 DEF Commit
      <4> DEFINE q == [exec[e] EXCEPT !.pc = "notify", !.events = {}]
      <4>2. exec' = [exec EXCEPT ![e] = q]
        BY <3>1, <4>1
      <4>3. q \in ExecRow' /\ q.events = {} /\ q.born = exec[e].born
        BY <3>1 DEF ExecRow
      <4>4. exec'[e] = q
        BY <3>1, <4>2
      <4>5. exec[e].born # 0
        BY <1>1, <2>1, <2>4 DEF Running
      <4>6. exec' \in [Execs -> ExecRow'] /\ \A f \in Execs \ {e} : exec'[f] = exec[f]
        BY <3>1, <4>2, <4>3
      <4> QED
        BY <2>3, <4>1, <4>3, <4>4, <4>5, <4>6
    <3>3. CASE e # Streamer
      <4>1. outcome' = outcome /\ exec' = [exec EXCEPT ![e] = IdleExec]
        BY <1>7, <3>3 DEF Commit, End
      <4>2. IdleExec \in ExecRow'
        BY <2>1, <2>4 DEF IdleExec, ExecRow
      <4>3. exec'[e] = IdleExec
        BY <3>1, <4>1
      <4> QED
        BY <3>1, <4>1, <4>2, <4>3 DEF IdleExec, TypeOK, Running
    <3> QED
      BY <3>2, <3>3
  <2>6. Commits
    BY <2>1, <2>5 DEF Commits, Flushed, BornOK
  <2>7. events' \subseteq Event'
    BY <2>1, <2>4 DEF TypeOK, Event
  <2>8. TypeOK'
    BY <2>1, <2>2, <2>3, <2>5, <2>7 DEF TypeOK, ExecRow, Terminal
  <2> QED
    BY <2>6, <2>8
<1> QED
  BY <1>3, <1>4, <1>5, <1>6, <1>7 DEF ExecMoves

LEMMA StreamShape ==
  ASSUME TypeInv, StreamMoves
  PROVE  TypeOK' /\ (Loses \/ Commits \/ Adds)
<1> USE DEF TypeInv
<1> DEFINE Good == /\ exec' \in [Execs -> ExecRow'] /\ events' \subseteq Event'
                   /\ nextId' \in Nat \ {0}
<1>0. Streamer \in Execs /\ nextId \in Nat \ {0} /\ begun \in Nat
  BY DEF Execs, TypeOK
<1>1. CASE OpenStream
  <2>1. /\ exec' = [exec EXCEPT ![Streamer] =
                [pc |-> "queued", job |-> "stream", left |-> 0, born |-> begun + 1,
                 outcome |-> None, events |-> {[id |-> nextId, born |-> begun + 1]}]]
        /\ nextId' = nextId + 1 /\ begun' = begun + 1
        /\ reader' = [reader EXCEPT !.pc = "reading", !.queue = <<"event">>]
        /\ UNCHANGED <<status, events, jobs, tail, request, asked>>
    BY <1>1 DEF OpenStream
  <2>2. UNCHANGED ghosts
    BY <1>1 DEF OpenStream
  <2> DEFINE q == [pc |-> "queued", job |-> "stream", left |-> 0, born |-> begun + 1,
                   outcome |-> None, events |-> {[id |-> nextId, born |-> begun + 1]}]
  <2>3. Flushed(Streamer) = {}
    BY <1>0, <1>1 DEF IdsInv, OutcomeInv, OpenStream
  <2>4. q \in [pc : {"queued", "run", "refresh"}, job : {"none", "run", "resume", "stream"},
               events : {Flushed(Streamer) \cup {[id |-> nextId, born |-> begun + 1]}},
               born : {begun + 1}, left : Nat, outcome : {"completed", "failed", None}]
    BY <2>3
  <2>5. begun + 1 \in 1 .. begun' /\ begun' \in {begun, begun + 1}
    BY <1>0, <2>1
  <2>6. exec' = [exec EXCEPT ![Streamer] = q]
    BY <2>1
  <2> HIDE DEF q
  <2>7. Good /\ Adds
    BY <1>0, <2>1, <2>3, <2>4, <2>5, <2>6, AddStep
  <2>8. reader' \in [pc : {"idle", "reading", "await", "done", "raised", "gone"},
                      queue : Seq(Frame), last : Frame \cup {None}]
    <3>1. <<"event">> \in Seq(Frame)
      BY DEF Frame
    <3>2. PICK q0 : q0 = <<"event">>
      OBVIOUS
    <3>3. reader' = [reader EXCEPT !.pc = "reading", !.queue = q0] /\ q0 \in Seq(Frame)
      BY <2>1, <3>1, <3>2
    <3>4. reader \in [pc : {"idle", "reading", "await", "done", "raised", "gone"},
                     queue : Seq(Frame), last : Frame \cup {None}]
      BY DEF TypeInv, TypeOK
    <3> QED
      BY <3>3, <3>4
  <2>9. outcome' = outcome /\ overlapped' = overlapped /\ silent' = silent
    BY <2>2 DEF ghosts
  <2>10. TypeOK'
    BY <1>0, <2>1, <2>7, <2>8, <2>9 DEF TypeOK, ExecRow
  <2> QED
    BY <2>7, <2>10
<1>2. CASE StartStream
  <2>1. /\ exec[Streamer].pc = "queued" /\ status' = "running"
        /\ events' = events \cup exec[Streamer].events
        /\ BeginExecution(Streamer, "stream", 1)
        /\ UNCHANGED <<nextId, jobs, reader, tail, request, asked, outcome>>
    BY <1>2 DEF StartStream, readers
  <2>2. silent' = silent
    BY <1>2 DEF StartStream
  <2>3. /\ begun' = begun + 1 /\ begun' \in Nat
        /\ exec' \in [Execs -> ExecRow']
        /\ exec'[Streamer].events = {} /\ exec'[Streamer].born = begun + 1
        /\ \A f \in Execs \ {Streamer} : exec'[f] = exec[f]
    BY <1>0, <2>1, Begins
  <2>4. overlapped' \in BOOLEAN
    BY <1>0, <2>1, Begins
  <2>5. Event \subseteq Event' /\ events \subseteq Event'
    BY <1>0, <2>1, <2>3, Wider
  <2>6. exec[Streamer].events \subseteq Event
    BY <1>0 DEF TypeOK
  <2>7. Commits
    BY <1>0, <2>1, <2>3 DEF Commits, Flushed, BornOK
  <2>8. TypeOK'
    BY <1>0, <2>1, <2>2, <2>3, <2>4, <2>5, <2>6 DEF TypeOK, ExecRow, Active
  <2> QED
    BY <2>7, <2>8
<1>3. CASE Notify
  <2>1. /\ exec' = [exec EXCEPT ![Streamer] = IdleExec]
        /\ UNCHANGED <<status, events, begun, jobs, tail, request, asked>>
    BY <1>3 DEF Notify, End
  <2>2. UNCHANGED ghosts
    BY <1>3 DEF Notify
  <2>3. \/ nextId' = nextId + 1 /\ Put(Streamer, "failed")
        \/ UNCHANGED <<nextId, reader>>
    BY <1>3, Zenon DEF Notify
  <2>4. Good /\ Loses
    BY <1>0, <2>1, <2>3, OwnStep
  <2>5. reader' \in [pc : {"idle", "reading", "await", "done", "raised", "gone"},
                      queue : Seq(Frame), last : Frame \cup {None}]
    <3>1. "failed" \in Frame
      BY DEF Frame
    <3> QED
      BY <1>0, <2>3, <3>1, PutFrame DEF TypeOK
  <2>6. outcome' = outcome /\ overlapped' = overlapped /\ silent' = silent
    BY <2>2 DEF ghosts
  <2>7. TypeOK'
    BY <2>1, <2>4, <2>5, <2>6 DEF TypeOK, ExecRow
  <2> QED
    BY <2>4, <2>7
<1> QED
  BY <1>1, <1>2, <1>3 DEF StreamMoves

LEMMA RunShape ==
  ASSUME TypeInv, RunMoves
  PROVE  TypeOK' /\ Loses
<1> USE DEF TypeInv
<1>1. /\ UNCHANGED <<nextId, begun, exec, reader, tail>>
      /\ events' \subseteq events
  BY DEF RunMoves, CancelLoad, ResumeLoad, DeleteLoad, RequestLoad, CancelCommit, ResumeCommit,
         DeleteCommit, Recover, rows, readers
<1>2. UNCHANGED ghosts
  BY DEF RunMoves, CancelLoad, ResumeLoad, DeleteLoad, RequestLoad, CancelCommit, ResumeCommit,
         DeleteCommit, Recover
<1>3. outcome' = outcome /\ overlapped' = overlapped /\ silent' = silent
  BY <1>2 DEF ghosts
<1>4. Loses
  BY <1>1, SameExecs
<1>5. CASE CancelLoad \/ ResumeLoad \/ DeleteLoad
  <2>1. UNCHANGED <<status, events, jobs>>
    BY <1>5 DEF CancelLoad, ResumeLoad, DeleteLoad, RequestLoad, rows
  <2>2. asked' \in 0 .. MaxRequests
    BY <1>5, RunEventsAssumption DEF CancelLoad, ResumeLoad, DeleteLoad, RequestLoad, Asks, TypeOK
  <2>3. request' \in [op : {"none", "cancel", "resume", "delete"},
                      seen : Active \cup Terminal \cup {None}]
    BY <1>5 DEF CancelLoad, ResumeLoad, DeleteLoad, RequestLoad, Active, Terminal
  <2> QED
    BY <1>1, <1>3, <1>4, <2>1, <2>2, <2>3 DEF TypeOK, Event
<1>6. CASE CancelCommit \/ ResumeCommit \/ DeleteCommit
  <2>1. /\ asked' = asked /\ events' \subseteq events
        /\ status' \in {"canceled", "running", "deleted"}
    BY <1>6 DEF CancelCommit, ResumeCommit, DeleteCommit
  <2>2. request' \in [op : {"none", "cancel", "resume", "delete"},
                      seen : Active \cup Terminal \cup {None}]
    BY <1>6 DEF CancelCommit, ResumeCommit, DeleteCommit, Answer, NoRequest
  <2>3. jobs' \in [run : Nat, resume : Nat]
    <3>1. jobs' = jobs \/ jobs' = [jobs EXCEPT !.resume = @ + 1]
      BY <1>6 DEF CancelCommit, ResumeCommit, DeleteCommit
    <3>2. jobs \in [run : Nat, resume : Nat]
      BY DEF TypeOK
    <3> QED
      BY <3>1, <3>2
  <2> QED
    BY <1>1, <1>3, <1>4, <2>1, <2>2, <2>3 DEF TypeOK, Event, Active, Terminal
<1>7. CASE Recover
  <2>1. UNCHANGED <<status, events, request>>
    BY <1>7 DEF Recover, rows
  <2>2. asked' \in 0 .. MaxRequests
    BY <1>7, RunEventsAssumption DEF Recover, Asks, TypeOK
  <2>3. jobs' \in [run : Nat, resume : Nat]
    BY <1>7 DEF Recover, TypeOK
  <2> QED
    BY <1>1, <1>3, <1>4, <2>1, <2>2, <2>3 DEF TypeOK, Event
<1> QED
  BY <1>5, <1>6, <1>7 DEF RunMoves

LEMMA ReaderShape ==
  ASSUME TypeInv, ReaderMoves
  PROVE  TypeOK' /\ Loses
<1> USE DEF TypeInv
<1>1. UNCHANGED <<status, events, nextId, begun, jobs>> /\ UNCHANGED ghosts
  BY DEF ReaderMoves, NextFrame, TaskAwaited, ReaderLeaves, ApiDies, rows
<1>2. outcome' = outcome /\ overlapped' = overlapped /\ silent' = silent
  BY <1>1 DEF ghosts
<1>3. Streamer \in Execs
  BY DEF Execs
<1>4. /\ exec' \in [Execs -> ExecRow'] /\ Loses
  <2>1. CASE exec' = exec
    BY <1>1, <2>1, SameExecs, Wider DEF TypeOK
  <2>2. CASE exec' = [exec EXCEPT ![Streamer] = IdleExec]
    BY <1>1, <1>3, <2>2, OwnStep
  <2> QED
    BY <2>1, <2>2 DEF ReaderMoves, NextFrame, TaskAwaited, ReaderLeaves, ApiDies
<1>5. reader' \in [pc : {"idle", "reading", "await", "done", "raised", "gone"},
                   queue : Seq(Frame), last : Frame \cup {None}]
  <2>1. CASE NextFrame
    <3>1. reader.queue \in Seq(Frame) /\ reader.queue # <<>>
      BY <2>1 DEF NextFrame, TypeOK
    <3>2. Head(reader.queue) \in Frame /\ Tail(reader.queue) \in Seq(Frame)
      BY <3>1
    <3> QED
      BY <2>1, <3>2 DEF NextFrame
  <2>2. CASE TaskAwaited
    BY <2>2 DEF TaskAwaited, TypeOK
  <2>3. CASE ReaderLeaves \/ ApiDies
    <3>1. <<>> \in Seq(Frame)
      OBVIOUS
    <3> QED
      BY <2>3, <3>1 DEF ReaderLeaves, ApiDies, TypeOK
  <2> QED
    BY <2>1, <2>2, <2>3 DEF ReaderMoves
<1>6. asked' \in 0 .. MaxRequests
  BY RunEventsAssumption DEF ReaderMoves, NextFrame, TaskAwaited, ReaderLeaves, ApiDies, Asks, TypeOK
<1>7. request' \in [op : {"none", "cancel", "resume", "delete"},
                    seen : Active \cup Terminal \cup {None}]
  BY DEF ReaderMoves, NextFrame, TaskAwaited, ReaderLeaves, ApiDies, NoRequest, TypeOK
<1>8. tail' \in [Tails -> [pc : {"idle", "replay", "poll", "check", "done", "gone"},
                           status : Active \cup Terminal \cup {None},
                           last : Nat, sent : Seq(Nat), read : SUBSET Nat]]
  <2>1. CASE NextFrame \/ TaskAwaited \/ ReaderLeaves
    BY <2>1 DEF NextFrame, TaskAwaited, ReaderLeaves, TypeOK
  <2>2. CASE ApiDies
    <3>1. <<>> \in Seq(Nat)
      OBVIOUS
    <3> QED
      BY <2>2, <3>1 DEF ApiDies, IdleTail
  <2> QED
    BY <2>1, <2>2 DEF ReaderMoves
<1> QED
  BY <1>1, <1>2, <1>4, <1>5, <1>6, <1>7, <1>8 DEF TypeOK, ExecRow, Event

LEMMA TailShape ==
  ASSUME TypeInv, NEW t \in Tails, TailMoves(t)
  PROVE  TypeOK' /\ Loses
<1> USE DEF TypeInv
<1> DEFINE TailType == [pc : {"idle", "replay", "poll", "check", "done", "gone"},
                        status : Active \cup Terminal \cup {None},
                        last : Nat, sent : Seq(Nat), read : SUBSET Nat]
<1>1. UNCHANGED <<status, events, nextId, begun, jobs, exec, reader, request>> /\ UNCHANGED ghosts
  BY DEF TailMoves, OpenTail, Replay, Poll, Check, TailLeaves, rows
<1>2. outcome' = outcome /\ overlapped' = overlapped /\ silent' = silent
  BY <1>1 DEF ghosts
<1>3. Loses
  BY <1>1, SameExecs
<1>4. asked' \in 0 .. MaxRequests
  BY RunEventsAssumption DEF TailMoves, OpenTail, Replay, Poll, Check, TailLeaves, Asks, TypeOK
<1>5. tail \in [Tails -> TailType] /\ tail[t] \in TailType
  BY DEF TypeOK
<1>6. \A st : Loop(st) \in {"done", "poll"}
  BY DEF Loop
<1>7. ASSUME NEW found \in Seq(events), NEW pc \in {"poll", "check", "done"}, Send(t, found, pc)
      PROVE  tail' \in [Tails -> TailType]
  <2> DEFINE ids == [i \in DOMAIN found |-> found[i].id]
             q == [tail[t] EXCEPT !.pc = pc, !.read = {ev.id : ev \in events}, !.sent = @ \o ids,
                        !.last = IF found = <<>> THEN @ ELSE Last(found).id]
  <2>1. \A c \in events : c.id \in Nat
    BY DEF TypeOK, Event
  <2>2. ids \in Seq(Nat)
    <3>1. DOMAIN found = 1 .. Len(found) /\ Len(found) \in Nat /\ \A i \in DOMAIN found : found[i] \in events
      BY <1>7
    <3> QED
      BY <2>1, <3>1
  <2>3. tail[t].sent \o ids \in Seq(Nat)
    <3>1. tail[t].sent \in Seq(Nat)
      BY <1>5
    <3> HIDE DEF ids
    <3> QED
      BY <2>2, <3>1
  <2>4. (IF found = <<>> THEN tail[t].last ELSE Last(found).id) \in Nat
    <3>1. CASE found # <<>>
      <4>1. Last(found) \in events
        BY <1>7, <3>1 DEF Last
      <4> QED
        BY <2>1, <3>1, <4>1
    <3> QED
      BY <1>5, <3>1
  <2>5. {ev.id : ev \in events} \in SUBSET Nat
    BY <2>1
  <2>6. PICK s, l, r : s = tail[t].sent \o ids /\ r = {ev.id : ev \in events}
                       /\ l = (IF found = <<>> THEN tail[t].last ELSE Last(found).id)
    OBVIOUS
  <2>7. tail' = [tail EXCEPT ![t].pc = pc, ![t].read = r, ![t].sent = s, ![t].last = l]
    BY <1>7, <2>6 DEF Send
  <2>8. s \in Seq(Nat) /\ l \in Nat /\ r \in SUBSET Nat
    BY <2>3, <2>4, <2>5, <2>6
  <2> QED
    BY <1>5, <2>7, <2>8
<1>8. tail' \in [Tails -> TailType]
  <2>1. CASE OpenTail(t)
    <3>1. status \in Active \cup Terminal
      BY <2>1 DEF OpenTail, Visible
    <3> QED
      BY <1>5, <2>1, <3>1 DEF OpenTail
  <2>2. CASE Replay(t)
    <3>1. 0 \in Nat
      OBVIOUS
    <3>2. GetForRun \in Seq(events)
      BY <3>1, Queried
    <3> QED
      BY <1>6, <1>7, <2>2, <3>2 DEF Replay
  <2>3. CASE Poll(t)
    <3>1. tail[t].last \in Nat
      BY <1>5
    <3>2. GetAfterId(tail[t].last) \in Seq(events)
      BY <3>1, Queried
    <3> QED
      BY <1>7, <2>3, <3>2 DEF Poll
  <2>4. CASE Check(t)
    <3>1. Refreshed(t) \in Active \cup Terminal \cup {None}
      BY <1>5 DEF Refreshed, Visible
    <3> QED
      BY <1>5, <1>6, <2>4, <3>1 DEF Check
  <2>5. CASE TailLeaves(t)
    <3>1. <<>> \in Seq(Nat)
      OBVIOUS
    <3>2. [IdleTail EXCEPT !.pc = "gone"] \in TailType
      BY <3>1 DEF IdleTail
    <3>3. tail' = [tail EXCEPT ![t] = [IdleTail EXCEPT !.pc = "gone"]]
      BY <2>5 DEF TailLeaves
    <3> QED
      BY <1>5, <3>2, <3>3
  <2> QED
    BY <2>1, <2>2, <2>3, <2>4, <2>5 DEF TailMoves
<1> QED
  BY <1>1, <1>2, <1>3, <1>4, <1>8 DEF TypeOK, Event

LEMMA OutcomeStep ==
  ASSUME TypeInv, [Next]_vars
  PROVE  OutcomeInv'
<1> USE DEF TypeInv
<1> DEFINE Known(e) == exec[e].pc \in {"refresh", "commit", "notify"} =>
                            exec[e].outcome \in {"completed", "failed"}
<1>1. Streamer \in Execs /\ Workers \subseteq Execs \ {Streamer}
  BY RunEventsAssumption DEF Execs
<1>2. \A e \in Execs : Known(e)
  BY DEF OutcomeInv
<1>3. ASSUME NEW e \in Execs, NEW r, exec' = [exec EXCEPT ![e] = r],
             r.pc \in {"refresh", "commit", "notify"} => r.outcome \in {"completed", "failed"}
      PROVE  \A f \in Execs : Known(f)'
  BY <1>2, <1>3 DEF TypeOK
<1>4. CASE UNCHANGED <<exec, reader>>
  BY <1>2, <1>4 DEF OutcomeInv, Running
<1>5. ASSUME NEW w \in Workers, WorkerMoves(w) PROVE OutcomeInv'
  <2>1. reader' = reader /\ w \in Execs /\ w # Streamer
    BY <1>1, <1>5 DEF WorkerMoves, RunTask, ResumeTask, WorkerDies, readers
  <2>2. CASE exec' = exec
    BY <1>4, <2>1, <2>2
  <2>3. CASE exec' # exec
    <3>1. CASE RunTask(w) \/ ResumeTask(w)
      <4>1. PICK job : BeginExecution(w, job, 0)
        BY <2>3, <3>1 DEF RunTask, ResumeTask
      <4>2. PICK n \in 0 .. MaxSteps :
                exec' = [exec EXCEPT ![w] = [pc |-> "run", job |-> job, events |-> {},
                                             born |-> begun + 1, left |-> n + 0, outcome |-> None]]
        BY <4>1 DEF BeginExecution
      <4>3. exec'[Streamer] = exec[Streamer]
        BY <1>1, <2>1, <4>2 DEF TypeOK
      <4>4. \A f \in Execs : Known(f)'
        BY <1>3, <2>1, <4>2
      <4> QED
        BY <2>1, <4>3, <4>4 DEF OutcomeInv, Running
    <3>2. CASE WorkerDies(w)
      <4>1. exec' = [exec EXCEPT ![w] = IdleExec]
        BY <3>2 DEF WorkerDies, End
      <4>2. exec'[Streamer] = exec[Streamer]
        BY <1>1, <2>1, <4>1 DEF TypeOK
      <4>3. \A f \in Execs : Known(f)'
        BY <1>3, <2>1, <4>1 DEF IdleExec
      <4> QED
        BY <2>1, <4>2, <4>3 DEF OutcomeInv, Running
    <3> QED
      BY <1>5, <3>1, <3>2 DEF WorkerMoves
  <2> QED
    BY <2>2, <2>3
<1>6. ASSUME NEW e \in Execs, ExecMoves(e) PROVE OutcomeInv'
  <2>1. exec[e].pc \in {"run", "refresh", "commit", "notify"} /\ exec[e] \in ExecRow
    BY <1>6 DEF ExecMoves, Emit, EngineRaises, EngineReturns, WorkflowDone, Refresh, Commit, Breaks,
                TypeOK, ExecRow
  <2>2. \A f \in Execs : Known(f)'
    <3>1. CASE Emit(e)
      <4>1. \A f \in Execs : exec'[f].pc = exec[f].pc /\ exec'[f].outcome = exec[f].outcome
        BY <3>1 DEF Emit, TypeOK, ExecRow
      <4> QED
        BY <1>2, <4>1
    <3>2. CASE EngineRaises(e) \/ EngineReturns(e) \/ WorkflowDone(e)
      <4>1. exec'[e].outcome \in {"completed", "failed"} /\ \A f \in Execs \ {e} : exec'[f] = exec[f]
        BY <3>2 DEF EngineRaises, EngineReturns, WorkflowDone, Ends, TypeOK, ExecRow
      <4> QED
        BY <1>2, <4>1
    <3>3. CASE Refresh(e)
      <4>1. /\ exec[e].outcome \in {"completed", "failed"}
            /\ \/ exec' = [exec EXCEPT ![e].pc = "commit"]
               \/ exec' = [exec EXCEPT ![e].pc = "notify"]
               \/ exec' = [exec EXCEPT ![e] = IdleExec]
        BY <1>2, <3>3, Zenon DEF Refresh, End
      <4>2. /\ exec'[e].outcome = exec[e].outcome \/ exec'[e].pc = "idle"
            /\ \A f \in Execs \ {e} : exec'[f] = exec[f]
        BY <4>1 DEF IdleExec, TypeOK, ExecRow
      <4> QED
        BY <1>2, <4>1, <4>2
    <3>4. CASE Commit(e)
      <4>1. /\ exec[e].outcome \in {"completed", "failed"}
            /\ \/ exec' = [exec EXCEPT ![e].pc = "notify", ![e].events = {}]
               \/ exec' = [exec EXCEPT ![e] = IdleExec]
        BY <1>2, <3>4 DEF Commit, End
      <4>2. /\ exec'[e].outcome = exec[e].outcome \/ exec'[e].pc = "idle"
            /\ \A f \in Execs \ {e} : exec'[f] = exec[f]
        BY <4>1 DEF IdleExec, TypeOK, ExecRow
      <4> QED
        BY <1>2, <4>1, <4>2
    <3>5. CASE Breaks(e)
      BY <1>3, <3>5 DEF Breaks, End, IdleExec
    <3> QED
      BY <1>6, <3>1, <3>2, <3>3, <3>4, <3>5 DEF ExecMoves
  <2>3. reader'.pc = reader.pc
    BY <1>6 DEF ExecMoves, Emit, EngineRaises, EngineReturns, WorkflowDone, Refresh, Commit, Breaks,
                Put, readers, TypeOK
  <2>4. reader.pc = "idle" => e # Streamer
    BY <2>1 DEF OutcomeInv, Running
  <2>5. \A f \in Execs \ {e} : exec'[f] = exec[f]
    BY <1>6 DEF ExecMoves, Emit, EngineRaises, EngineReturns, WorkflowDone, Refresh, Commit, Breaks,
                Ends, End, TypeOK
  <2> QED
    BY <1>1, <2>2, <2>3, <2>4, <2>5 DEF OutcomeInv, Running
<1>7. ASSUME StreamMoves PROVE OutcomeInv'
  <2>1. CASE OpenStream
    <3>1. reader'.pc = "reading"
      BY <2>1 DEF OpenStream, TypeOK
    <3>2. \A f \in Execs : Known(f)'
      BY <1>1, <1>3, <2>1 DEF OpenStream
    <3> QED
      BY <3>1, <3>2 DEF OutcomeInv
  <2>2. CASE StartStream
    <3>1. reader' = reader /\ reader.pc # "idle"
      BY <2>2 DEF StartStream, readers, OutcomeInv, Running
    <3>2. BeginExecution(Streamer, "stream", 1)
      BY <2>2 DEF StartStream
    <3>3. \A f \in Execs : Known(f)'
      BY <1>1, <1>3, <3>2 DEF BeginExecution
    <3> QED
      BY <3>1, <3>3 DEF OutcomeInv
  <2>3. CASE Notify
    <3>1. reader'.pc = reader.pc /\ reader.pc # "idle"
      BY <2>3 DEF Notify, Put, OutcomeInv, Running, TypeOK
    <3>2. \A f \in Execs : Known(f)'
      BY <1>1, <1>3, <2>3 DEF Notify, End, IdleExec
    <3> QED
      BY <3>1, <3>2 DEF OutcomeInv
  <2> QED
    BY <1>7, <2>1, <2>2, <2>3 DEF StreamMoves
<1>8. ASSUME RunMoves PROVE OutcomeInv'
  BY <1>4, <1>8 DEF RunMoves, CancelLoad, ResumeLoad, DeleteLoad, RequestLoad, CancelCommit, ResumeCommit,
                    DeleteCommit, Recover, readers
<1>9. ASSUME ReaderMoves PROVE OutcomeInv'
  <2>1. reader'.pc # "idle" \/ reader' = reader
    <3>1. CASE TaskAwaited
      <4>1. reader' = [reader EXCEPT !.pc = "raised"] \/ reader' = [reader EXCEPT !.pc = "done"]
        BY <3>1, Zenon DEF TaskAwaited
      <4> QED
        BY <4>1 DEF TypeOK
    <3>2. CASE NextFrame
      BY <3>2 DEF NextFrame
    <3>3. CASE ReaderLeaves
      BY <3>3 DEF ReaderLeaves, TypeOK
    <3>4. CASE ApiDies
      <4>1. reader' = reader \/ reader' = [reader EXCEPT !.pc = "gone", !.queue = <<>>]
        BY <3>4 DEF ApiDies
      <4> QED
        BY <4>1 DEF TypeOK
    <3> QED
      BY <1>9, <3>1, <3>2, <3>3, <3>4 DEF ReaderMoves
  <2>2. CASE exec' = exec
    BY <1>2, <2>1, <2>2 DEF OutcomeInv, Running
  <2>3. CASE exec' = [exec EXCEPT ![Streamer] = IdleExec]
    <3>1. ~Running(Streamer)'
      BY <1>1, <2>3 DEF Running, IdleExec, TypeOK
    <3> QED
      BY <1>1, <1>3, <2>1, <2>3, <3>1 DEF OutcomeInv, IdleExec
  <2> QED
    BY <1>9, <2>2, <2>3 DEF ReaderMoves, NextFrame, TaskAwaited, ReaderLeaves, ApiDies
<1>10. ASSUME NEW t \in Tails, TailMoves(t) PROVE OutcomeInv'
  BY <1>4, <1>10 DEF TailMoves, OpenTail, Replay, Poll, Check, TailLeaves
<1>11. CASE UNCHANGED vars
  BY <1>4, <1>11 DEF vars, readers
<1> QED
  BY <1>5, <1>6, <1>7, <1>8, <1>9, <1>10, <1>11, Moves

LEMMA TypeStep ==
  ASSUME TypeInv, [Next]_vars
  PROVE  TypeInv' /\ (Loses \/ Commits \/ Adds)
<1>1. OutcomeInv'
  BY OutcomeStep
<1>2. TypeOK' /\ (Loses \/ Commits \/ Adds)
  <2>1. CASE UNCHANGED vars
    <3>1. UNCHANGED <<status, events, nextId, begun, jobs, exec, reader, tail, request, asked>>
          /\ UNCHANGED ghosts
      BY <2>1 DEF vars, rows, readers
    <3>2. outcome' = outcome /\ overlapped' = overlapped /\ silent' = silent
      BY <3>1 DEF ghosts
    <3>3. TypeOK'
      BY <3>1, <3>2 DEF TypeInv, TypeOK, Event
    <3>4. Loses
      BY <3>1, SameExecs
    <3> QED
      BY <3>3, <3>4
  <2> QED
    BY <2>1, Moves, WorkerShape, ExecShape, StreamShape, RunShape, ReaderShape, TailShape
<1>3. IdsInv'
  BY <1>2, IdsStep
<1> QED
  BY <1>1, <1>2, <1>3 DEF TypeInv

LEMMA TypeInit == Init => TypeInv
<1> SUFFICES ASSUME Init PROVE TypeInv
  OBVIOUS
<1>1. TypeOK
  <2>1. <<>> \in Seq(Nat) /\ <<>> \in Seq(Frame)
    OBVIOUS
  <2>2. IdleExec \in ExecRow
    BY DEF Init, IdleExec, ExecRow
  <2>3. exec \in [Execs -> ExecRow]
    BY <2>2 DEF Init
  <2>4. overlapped \in BOOLEAN /\ silent \in BOOLEAN
    BY DEF Init
  <2>5. events \subseteq Event
    BY DEF Init
  <2>6. jobs \in [run : Nat, resume : Nat]
    BY DEF Init
  <2>7. reader \in [pc : {"idle", "reading", "await", "done", "raised", "gone"},
                    queue : Seq(Frame), last : Frame \cup {None}]
    BY <2>1 DEF Init
  <2>8. tail \in [Tails -> [pc : {"idle", "replay", "poll", "check", "done", "gone"},
                            status : Active \cup Terminal \cup {None},
                            last : Nat, sent : Seq(Nat), read : SUBSET Nat]]
    BY <2>1 DEF Init, IdleTail
  <2> QED
    BY <2>3, <2>4, <2>5, <2>6, <2>7, <2>8, RunEventsAssumption
       DEF Init, TypeOK, ExecRow, NoRequest, Active, Terminal
<1>2. IdsInv
  BY DEF Init, IdsInv, IdleExec, Flushed, Running
<1>3. OutcomeInv
  <2>1. Streamer \in Execs
    BY DEF Execs
  <2> QED
    BY <2>1 DEF Init, OutcomeInv, IdleExec, Running
<1> QED
  BY <1>1, <1>2, <1>3 DEF TypeInv

-----------------------------------------------------------------------------
(* How executions begin *)

StillRuns(e) == Running(e)' => Running(e) /\ exec'[e].born = exec[e].born

BeginsAlone(e) ==
    /\ exec'[e].born = begun + 1
    /\ \A f \in Execs \ {e} : exec'[f] = exec[f]
    /\ \/ overlapped' = (overlapped \/ \E f \in Execs \ {e} : Running(f))
       \/ overlapped' = overlapped /\ e = Streamer /\ status = "absent" /\ reader.pc = "idle"

LEMMA Starts ==
  ASSUME TypeInv, [Next]_vars
  PROVE  \/ overlapped' = overlapped /\ \A e \in Execs : StillRuns(e)
         \/ \E e \in Execs : BeginsAlone(e)
<1> USE DEF TypeInv
<1>1. Streamer \in Execs /\ Workers \subseteq Execs
  BY DEF Execs
<1>2. CASE exec' = exec /\ overlapped' = overlapped
  BY <1>2 DEF StillRuns, Running
<1>3. ASSUME NEW e \in Execs, exec' = [exec EXCEPT ![e] = IdleExec], overlapped' = overlapped
      PROVE  \A f \in Execs : StillRuns(f)
  BY <1>3 DEF StillRuns, Running, IdleExec, TypeOK
<1>4. ASSUME NEW e \in Execs, NEW job \in {"run", "resume", "stream"}, NEW extra \in Nat,
             BeginExecution(e, job, extra), nextId' = nextId
      PROVE  BeginsAlone(e)
  <2>1. exec'[e].born = begun + 1 /\ \A f \in Execs \ {e} : exec'[f] = exec[f]
    BY <1>4, Begins
  <2>2. overlapped' = (overlapped \/ \E f \in Execs \ {e} : Running(f))
    BY <1>4 DEF BeginExecution
  <2> QED
    BY <2>1, <2>2 DEF BeginsAlone
<1>5. ASSUME NEW w \in Workers, WorkerMoves(w)
      PROVE  \/ overlapped' = overlapped /\ \A e \in Execs : StillRuns(e)
             \/ \E e \in Execs : BeginsAlone(e)
  <2>1. CASE RunTask(w) \/ ResumeTask(w)
    <3>1. nextId' = nextId
      BY <2>1 DEF RunTask, ResumeTask
    <3>2. \/ BeginExecution(w, "run", 0) \/ BeginExecution(w, "resume", 0)
          \/ exec' = exec /\ overlapped' = overlapped
      <4>1. CASE RunTask(w)
        BY <4>1, Zenon DEF RunTask
      <4>2. CASE ResumeTask(w)
        BY <4>2, Zenon DEF ResumeTask
      <4> QED
        BY <2>1, <4>1, <4>2
    <3> QED
      BY <1>1, <1>2, <1>4, <3>1, <3>2
  <2>2. CASE WorkerDies(w)
    BY <1>1, <1>3, <2>2 DEF WorkerDies, End, ghosts
  <2> QED
    BY <1>5, <2>1, <2>2 DEF WorkerMoves
<1>6. ASSUME NEW e \in Execs, ExecMoves(e)
      PROVE  overlapped' = overlapped /\ \A f \in Execs : StillRuns(f)
  <2>1. overlapped' = overlapped
    <3>1. CASE Commit(e) \/ Breaks(e)
      BY <3>1 DEF Commit, Breaks
    <3>2. CASE ~(Commit(e) \/ Breaks(e))
      <4>1. UNCHANGED ghosts
        BY <1>6, <3>2 DEF ExecMoves, Emit, EngineRaises, EngineReturns, WorkflowDone, Refresh
      <4> QED
        BY <4>1 DEF ghosts
    <3> QED
      BY <3>1, <3>2
  <2>2. Running(e)
    BY <1>6 DEF ExecMoves, Emit, EngineRaises, EngineReturns, WorkflowDone, Refresh, Commit, Breaks, Running
  <2>3. \A f \in Execs \ {e} : exec'[f] = exec[f]
    BY <1>6 DEF ExecMoves, Emit, EngineRaises, EngineReturns, WorkflowDone, Refresh, Commit, Breaks,
                Ends, End, TypeOK
  <2>4. exec'[e] = IdleExec \/ exec'[e].born = exec[e].born
    <3>1. CASE Emit(e) \/ WorkflowDone(e)
      BY <3>1 DEF Emit, WorkflowDone, TypeOK, ExecRow
    <3>2. CASE EngineRaises(e) \/ EngineReturns(e) \/ Breaks(e)
      BY <3>2 DEF EngineRaises, EngineReturns, Breaks, Ends, End, TypeOK
    <3>3. CASE Refresh(e) \/ Commit(e)
      <4>1. \/ exec' = [exec EXCEPT ![e].pc = "commit"]
            \/ exec' = [exec EXCEPT ![e].pc = "notify"]
            \/ exec' = [exec EXCEPT ![e].pc = "notify", ![e].events = {}]
            \/ exec' = [exec EXCEPT ![e] = IdleExec]
        BY <3>3, Zenon DEF Refresh, Commit, End
      <4> QED
        BY <4>1 DEF TypeOK
    <3> QED
      BY <1>6, <3>1, <3>2, <3>3 DEF ExecMoves
  <2> QED
    BY <2>1, <2>2, <2>3, <2>4 DEF StillRuns, Running, IdleExec
<1>7. ASSUME StreamMoves
      PROVE  \/ overlapped' = overlapped /\ \A e \in Execs : StillRuns(e)
             \/ \E e \in Execs : BeginsAlone(e)
  <2>1. CASE OpenStream
    <3>1. exec'[Streamer].born = begun + 1 /\ \A f \in Execs \ {Streamer} : exec'[f] = exec[f]
      BY <1>1, <2>1 DEF OpenStream, TypeOK
    <3>2. status = "absent" /\ reader.pc = "idle" /\ overlapped' = overlapped
      BY <2>1 DEF OpenStream, ghosts
    <3> QED
      BY <1>1, <3>1, <3>2 DEF BeginsAlone
  <2>2. CASE StartStream
    BY <1>1, <1>4, <2>2 DEF StartStream
  <2>3. CASE Notify
    BY <1>1, <1>3, <2>3 DEF Notify, End, ghosts
  <2> QED
    BY <1>7, <2>1, <2>2, <2>3 DEF StreamMoves
<1>8. CASE RunMoves
  BY <1>2, <1>8 DEF RunMoves, CancelLoad, ResumeLoad, DeleteLoad, RequestLoad, CancelCommit, ResumeCommit,
                    DeleteCommit, Recover, ghosts
<1>9. CASE ReaderMoves
  BY <1>1, <1>2, <1>3, <1>9 DEF ReaderMoves, NextFrame, TaskAwaited, ReaderLeaves, ApiDies, ghosts
<1>10. ASSUME NEW t \in Tails, TailMoves(t) PROVE exec' = exec /\ overlapped' = overlapped
  BY <1>10 DEF TailMoves, OpenTail, Replay, Poll, Check, TailLeaves, ghosts
<1>11. CASE UNCHANGED vars
  BY <1>2, <1>11 DEF vars, ghosts
<1> QED
  BY <1>2, <1>5, <1>6, <1>7, <1>8, <1>9, <1>10, <1>11, Moves

LEMMA AbsentStep ==
  ASSUME TypeInv, AbsentInv, [Next]_vars
  PROVE  AbsentInv' /\ (status' = "absent" => status = "absent")
<1> USE DEF TypeInv
<1>1. Streamer \in Execs /\ Workers \subseteq Execs \ {Streamer}
  BY RunEventsAssumption DEF Execs
<1>2. CASE exec' = exec /\ (status' = status \/ (status # "absent" /\ status' # "absent"))
  BY <1>2 DEF AbsentInv, Running
<1>3. ASSUME NEW e \in Execs, exec' = [exec EXCEPT ![e] = IdleExec], status' = status
      PROVE  AbsentInv'
  BY <1>1, <1>3 DEF AbsentInv, Running, IdleExec, TypeOK
<1>4. ASSUME NEW w \in Workers, WorkerMoves(w)
      PROVE  AbsentInv' /\ (status' = "absent" => status = "absent")
  <2>1. CASE RunTask(w) /\ status = "pending"
    <3>1. BeginExecution(w, "run", 0) /\ status' = "running" /\ nextId' = nextId
      BY <2>1 DEF RunTask
    <3>2. exec'[Streamer] = exec[Streamer]
      BY <1>1, <3>1, Begins
    <3> QED
      BY <2>1, <3>1, <3>2 DEF AbsentInv
  <2>2. CASE ResumeTask(w) /\ status = "running"
    <3>1. BeginExecution(w, "resume", 0) /\ status' = status /\ nextId' = nextId
      BY <2>2 DEF ResumeTask
    <3>2. exec'[Streamer] = exec[Streamer]
      BY <1>1, <3>1, Begins
    <3> QED
      BY <2>2, <3>1, <3>2 DEF AbsentInv
  <2>3. CASE (RunTask(w) /\ status # "pending") \/ (ResumeTask(w) /\ status # "running")
    <3>1. exec' = exec /\ status' = status
      BY <2>3 DEF RunTask, ResumeTask
    <3> QED
      BY <1>2, <3>1
  <2>4. CASE WorkerDies(w)
    BY <1>1, <1>3, <2>4 DEF WorkerDies, End, rows
  <2> QED
    BY <1>4, <2>1, <2>2, <2>3, <2>4 DEF WorkerMoves
<1>5. ASSUME NEW e \in Execs, ExecMoves(e)
      PROVE  AbsentInv' /\ (status' = "absent" => status = "absent")
  <2>1. exec[e].pc \in {"run", "refresh", "commit", "notify"} /\ Running(e)
    BY <1>5 DEF ExecMoves, Emit, EngineRaises, EngineReturns, WorkflowDone, Refresh, Commit, Breaks, Running
  <2>2. \A f \in Execs \ {e} : exec'[f] = exec[f]
    BY <1>5 DEF ExecMoves, Emit, EngineRaises, EngineReturns, WorkflowDone, Refresh, Commit, Breaks,
                Ends, End, TypeOK
  <2>3. exec'[e].pc # "queued"
    <3>1. CASE Emit(e) \/ WorkflowDone(e)
      BY <3>1, <2>1 DEF Emit, WorkflowDone, TypeOK, ExecRow
    <3>2. CASE EngineRaises(e) \/ EngineReturns(e) \/ Breaks(e)
      BY <3>2 DEF EngineRaises, EngineReturns, Breaks, Ends, End, TypeOK, IdleExec
    <3>3. CASE Refresh(e) \/ Commit(e)
      <4>1. \/ exec' = [exec EXCEPT ![e].pc = "commit"]
            \/ exec' = [exec EXCEPT ![e].pc = "notify"]
            \/ exec' = [exec EXCEPT ![e].pc = "notify", ![e].events = {}]
            \/ exec' = [exec EXCEPT ![e] = IdleExec]
        BY <3>3, Zenon DEF Refresh, Commit, End
      <4> QED
        BY <4>1 DEF TypeOK, IdleExec
    <3> QED
      BY <1>5, <3>1, <3>2, <3>3 DEF ExecMoves
  <2>4. \/ status' = status
        \/ Visible /\ status' \in {"completed", "failed"}
    <3>1. CASE Commit(e)
      BY <3>1 DEF Commit, OutcomeInv
    <3>2. CASE ~Commit(e)
      BY <1>5, <3>2 DEF ExecMoves, Emit, EngineRaises, EngineReturns, WorkflowDone, Refresh, Breaks, rows
    <3> QED
      BY <3>1, <3>2
  <2>5. ~(Visible /\ status = "absent")
    BY DEF Visible, Active, Terminal
  <2>6. ASSUME status' = "absent" PROVE status = "absent" /\ e = Streamer
    <3>1. status = "absent"
      BY <2>4, <2>6
    <3> QED
      BY <1>1, <2>1, <3>1 DEF AbsentInv, Execs
  <2>7. ASSUME exec'[Streamer].pc = "queued" PROVE status' = "absent"
    <3>1. e # Streamer /\ exec[Streamer].pc = "queued"
      BY <1>1, <2>2, <2>3, <2>7
    <3>2. status = "absent"
      BY <3>1 DEF AbsentInv
    <3> QED
      BY <1>1, <2>1, <3>1, <3>2 DEF AbsentInv, Execs
  <2>8. ASSUME status' = "absent", NEW w \in Workers PROVE ~Running(w)'
    <3>1. exec'[w] = exec[w]
      BY <1>1, <2>2, <2>6, <2>8
    <3> QED
      BY <2>6, <2>8, <3>1 DEF AbsentInv, Running
  <2> QED
    BY <2>6, <2>7, <2>8 DEF AbsentInv
<1>6. ASSUME StreamMoves
      PROVE  AbsentInv' /\ (status' = "absent" => status = "absent")
  <2>1. CASE OpenStream
    <3>1. status' = status /\ status = "absent" /\ \A f \in Execs \ {Streamer} : exec'[f] = exec[f]
      BY <1>1, <2>1 DEF OpenStream, TypeOK
    <3> QED
      BY <1>1, <3>1 DEF AbsentInv, Running
  <2>2. CASE StartStream
    <3>1. BeginExecution(Streamer, "stream", 1) /\ nextId' = nextId /\ status' = "running"
      BY <2>2 DEF StartStream
    <3>2. exec'[Streamer].pc = "run"
      BY <1>1, <3>1, Begins
    <3> QED
      BY <3>1, <3>2 DEF AbsentInv
  <2>3. CASE Notify
    BY <1>1, <1>3, <2>3 DEF Notify, End
  <2> QED
    BY <1>6, <2>1, <2>2, <2>3 DEF StreamMoves
<1>7. CASE RunMoves
  <2>1. exec' = exec /\ (status' = status \/ (status # "absent" /\ status' # "absent"))
    BY <1>7 DEF RunMoves, CancelLoad, ResumeLoad, DeleteLoad, RequestLoad, CancelCommit, ResumeCommit,
                DeleteCommit, Recover, rows, Visible, Active, Terminal
  <2> QED
    BY <1>2, <2>1
<1>8. CASE ReaderMoves
  BY <1>1, <1>2, <1>3, <1>8 DEF ReaderMoves, NextFrame, TaskAwaited, ReaderLeaves, ApiDies, rows
<1>9. ASSUME NEW t \in Tails, TailMoves(t) PROVE exec' = exec /\ status' = status
  BY <1>9 DEF TailMoves, OpenTail, Replay, Poll, Check, TailLeaves, rows
<1>10. CASE UNCHANGED vars
  BY <1>2, <1>10 DEF vars, rows
<1> QED
  BY <1>2, <1>4, <1>5, <1>6, <1>7, <1>8, <1>9, <1>10, Moves

-----------------------------------------------------------------------------
(* While no two executions overlap *)

LEMMA OverlapStays ==
  ASSUME TypeInv, [Next]_vars, ~overlapped'
  PROVE  ~overlapped
<1>1. CASE overlapped' = overlapped
  BY <1>1
<1>2. ASSUME NEW e \in Execs, BeginsAlone(e) PROVE ~overlapped
  BY <1>2 DEF BeginsAlone
<1> QED
  BY <1>1, <1>2, Starts

LEMMA AloneStep ==
  ASSUME TypeInv, TypeInv', AbsentInv, Alone, [Next]_vars, ~overlapped'
  PROVE  Alone'
<1>1. CASE \A e \in Execs : StillRuns(e)
  BY <1>1 DEF Alone, StillRuns
<1>2. ASSUME NEW e \in Execs, BeginsAlone(e) PROVE Alone'
  <2>1. ASSUME NEW f \in Execs \ {e} PROVE ~Running(f)
    <3>1. CASE overlapped' = (overlapped \/ \E g \in Execs \ {e} : Running(g))
      BY <3>1
    <3>2. CASE e = Streamer /\ status = "absent"
      BY <2>1, <3>2 DEF AbsentInv, Execs
    <3> QED
      BY <1>2, <3>1, <3>2 DEF BeginsAlone
  <2>2. \A f \in Execs \ {e} : ~Running(f)'
    BY <1>2, <2>1 DEF BeginsAlone, Running
  <2> QED
    BY <2>2 DEF Alone
<1> QED
  BY <1>1, <1>2, Starts

LEMMA InOrderStep ==
  ASSUME TypeInv, TypeInv', Alone, InOrder, [Next]_vars, Loses \/ Commits \/ Adds
  PROVE  InOrder'
<1>1. /\ \A c \in events : c.id \in Nat /\ c.born \in Nat /\ c.born <= begun /\ c.id < nextId
      /\ \A e \in Execs : \A a \in Flushed(e) :
            /\ a.id \in Nat /\ a.born \in Nat /\ a.born <= begun /\ a.id < nextId
            /\ a.born = exec[e].born /\ Running(e)
      /\ \A e \in Execs : exec[e].born \in Nat
      /\ nextId \in Nat /\ begun \in Nat
  <2>1. ASSUME NEW e \in Execs, NEW a \in Flushed(e)
        PROVE  a.born = exec[e].born /\ a.id < nextId /\ Running(e)
    BY <2>1 DEF TypeInv, IdsInv, Flushed
  <2>2. \A c \in events : c.id < nextId
    BY DEF TypeInv, IdsInv
  <2>3. TypeOK
    BY DEF TypeInv
  <2> QED
    BY <2>1, <2>2, <2>3, EventFields
<1>2. ASSUME NEW e \in Execs, Running(e)'
      PROVE  (Running(e) /\ exec'[e].born = exec[e].born) \/ exec'[e].born = begun + 1
  <2>1. CASE \A f \in Execs : StillRuns(f)
    BY <1>2, <2>1 DEF StillRuns
  <2>2. ASSUME NEW f \in Execs, BeginsAlone(f)
        PROVE  (Running(e) /\ exec'[e].born = exec[e].born) \/ exec'[e].born = begun + 1
    BY <1>2, <2>2 DEF BeginsAlone, Running
  <2> QED
    BY <2>1, <2>2, Starts
<1>3. CASE Loses
  <2>1. \A e \in Execs : Running(e)' => \A c \in events' : c.born <= exec'[e].born
    BY <1>1, <1>2, <1>3 DEF Loses, InOrder
  <2> QED
    BY <1>3, <2>1 DEF Loses, SameRow, InOrder
<1>4. CASE Commits
  <2>1. PICK e \in Execs :
            /\ events' = events \cup Flushed(e) /\ Flushed(e)' = {}
            /\ \A f \in Execs \ {e} : exec'[f] = exec[f]
    BY <1>4 DEF Commits
  <2>2. CASE Flushed(e) = {}
    <3>1. events' = events /\ \A f \in Execs : Flushed(f)' = Flushed(f)
      BY <2>1, <2>2 DEF Flushed
    <3> QED
      BY <1>1, <1>2, <3>1 DEF InOrder
  <2>3. CASE Flushed(e) # {}
    <3>1. Running(e)
      BY <1>1, <2>3
    <3>2. \A f \in Execs \ {e} : ~Running(f) /\ Flushed(f) = {} /\ Flushed(f)' = {} /\ ~Running(f)'
      BY <1>1, <2>1, <3>1 DEF Alone, Running, Flushed
    <3>3. \A c \in events' : c.born <= exec[e].born /\ c.born <= begun
      BY <1>1, <2>1, <3>1 DEF InOrder
    <3>4. \A f \in Execs : Running(f)' => \A c \in events' : c.born <= exec'[f].born
      BY <1>1, <1>2, <2>1, <3>2, <3>3
    <3>5. \A c, d \in events' : c.id < d.id => c.born <= d.born
      BY <1>1, <2>1, <3>1 DEF InOrder
    <3> QED
      BY <2>1, <3>2, <3>4, <3>5 DEF InOrder
  <2> QED
    BY <2>2, <2>3
<1>5. CASE Adds
  <2>1. PICK e \in Execs :
            /\ Flushed(e)' = Flushed(e) \cup {[id |-> nextId, born |-> exec'[e].born]}
            /\ \A f \in Execs \ {e} : exec'[f] = exec[f]
            /\ events' = events
    BY <1>5 DEF Adds
  <2>2. \A f \in Execs \ {e} : Flushed(f)' = Flushed(f)
    BY <2>1 DEF Flushed
  <2>3. \A f \in Execs : \A a \in Flushed(f)', c \in events' : c.id < a.id
    BY <1>1, <2>1, <2>2 DEF InOrder
  <2>4. \A f \in Execs : Running(f)' => \A c \in events' : c.born <= exec'[f].born
    BY <1>1, <1>2, <2>1 DEF InOrder
  <2> QED
    BY <2>1, <2>3, <2>4 DEF InOrder
<1> QED
  BY <1>3, <1>4, <1>5

(* An event disappears only with its run, which stays deleted *)
LEMMA EventsStay ==
  ASSUME TypeInv, AbsentInv, [Next]_vars, status' # "deleted"
  PROVE  status # "deleted" /\ events \subseteq events'
<1> USE DEF TypeInv
<1>1. ASSUME NEW w \in Workers, WorkerMoves(w) PROVE status # "deleted" /\ events \subseteq events'
  BY <1>1 DEF WorkerMoves, RunTask, ResumeTask, WorkerDies, rows
<1>2. ASSUME NEW e \in Execs, ExecMoves(e) PROVE status # "deleted" /\ events \subseteq events'
  <2>1. CASE Commit(e)
    BY <2>1 DEF Commit, Visible, Active, Terminal
  <2>2. CASE ~Commit(e)
    BY <1>2, <2>2 DEF ExecMoves, Emit, EngineRaises, EngineReturns, WorkflowDone, Refresh, Breaks, rows
  <2> QED
    BY <2>1, <2>2
<1>3. CASE StreamMoves
  BY <1>3 DEF StreamMoves, OpenStream, StartStream, Notify, AbsentInv
<1>4. CASE RunMoves
  BY <1>4 DEF RunMoves, CancelLoad, ResumeLoad, DeleteLoad, RequestLoad, CancelCommit, ResumeCommit,
              DeleteCommit, Recover, rows, Visible, Active, Terminal
<1>5. CASE ReaderMoves
  BY <1>5 DEF ReaderMoves, NextFrame, TaskAwaited, ReaderLeaves, ApiDies, rows
<1>6. ASSUME NEW t \in Tails, TailMoves(t) PROVE status # "deleted" /\ events \subseteq events'
  BY <1>6 DEF TailMoves, OpenTail, Replay, Poll, Check, TailLeaves, rows
<1>7. CASE UNCHANGED vars
  BY <1>7 DEF vars, rows
<1> QED
  BY <1>1, <1>2, <1>3, <1>4, <1>5, <1>6, <1>7, Moves

LEMMA TailsMove ==
  ASSUME [Next]_vars
  PROVE  \/ tail' = tail
         \/ \A t \in Tails : tail'[t].pc \in {"idle", "gone"} /\ (tail'[t].pc = "idle" => tail'[t] = IdleTail)
         \/ \E t \in Tails : TailMoves(t) /\ UNCHANGED <<status, events>>
<1>1. ASSUME NEW w \in Workers, WorkerMoves(w) PROVE tail' = tail
  BY <1>1 DEF WorkerMoves, RunTask, ResumeTask, WorkerDies, readers
<1>2. ASSUME NEW e \in Execs, ExecMoves(e) PROVE tail' = tail
  BY <1>2 DEF ExecMoves, Emit, EngineRaises, EngineReturns, WorkflowDone, Refresh, Breaks, Commit, readers
<1>3. CASE StreamMoves
  BY <1>3 DEF StreamMoves, OpenStream, StartStream, Notify, readers
<1>4. CASE RunMoves
  BY <1>4 DEF RunMoves, CancelLoad, ResumeLoad, DeleteLoad, RequestLoad, CancelCommit, ResumeCommit,
              DeleteCommit, Recover, readers
<1>5. CASE NextFrame \/ TaskAwaited \/ ReaderLeaves
  BY <1>5 DEF NextFrame, TaskAwaited, ReaderLeaves
<1>6. CASE ApiDies
  BY <1>6 DEF ApiDies, IdleTail
<1>7. ASSUME NEW t \in Tails, TailMoves(t) PROVE UNCHANGED <<status, events>>
  BY <1>7 DEF TailMoves, OpenTail, Replay, Poll, Check, TailLeaves, rows
<1>8. CASE UNCHANGED vars
  BY <1>8 DEF vars, readers
<1> QED
  BY <1>1, <1>2, <1>3, <1>4, <1>5, <1>6, <1>7, <1>8, Moves DEF ReaderMoves

(* What was committed since a tail read it comes after all it has read *)
LEMMA TailWaits ==
  ASSUME TypeInv, TypeInv', InOrder, NEW t \in Tails, UpToLast(t), tail'[t].sent = tail[t].sent,
         tail'[t].read = tail[t].read, tail'[t].last = tail[t].last,
         events \subseteq events', Loses \/ Commits \/ Adds
  PROVE  UpToLast(t)'
<1>1. /\ \A c \in events : c.id \in Nat
      /\ \A e \in Execs : \A a \in Flushed(e) : a.id \in Nat /\ 0 < a.id
      /\ tail[t].last \in Nat
  BY EventFields, TailTypes DEF TypeInv
<1>2. ASSUME NEW c \in events', c \notin events PROVE tail[t].last < c.id
  <2>1. PICK e \in Execs : c \in Flushed(e)
    BY <1>2 DEF Loses, Commits, Adds
  <2>2. CASE tail[t].last = 0
    BY <1>1, <2>1, <2>2
  <2>3. CASE tail[t].last # 0
    <3>1. PICK d \in events : d.id = tail[t].last
      BY <2>3 DEF UpToLast
    <3> QED
      BY <2>1, <3>1 DEF InOrder
  <2> QED
    BY <2>2, <2>3
<1> QED
  BY <1>2 DEF UpToLast

LEMMA Joined ==
  ASSUME NEW u \in Seq(Nat), NEW v \in Seq(Nat)
  PROVE  /\ Len(u \o v) = Len(u) + Len(v) /\ DOMAIN (u \o v) = 1 .. (Len(u) + Len(v))
         /\ \A i \in 1 .. Len(u) : (u \o v)[i] = u[i]
         /\ \A i \in (Len(u) + 1) .. (Len(u) + Len(v)) :
                (u \o v)[i] = v[i - Len(u)] /\ i - Len(u) \in 1 .. Len(v)
OBVIOUS

(* The events found are sent after the earlier ones *)
LEMMA TailSends ==
  ASSUME TypeInv, TypeInv', NEW t \in Tails, NEW found \in Seq(events), NEW pc, Send(t, found, pc), events' = events,
         ToSet(found) = {c \in events : tail[t].last < c.id},
         \A i, j \in DOMAIN found : i < j => found[i].id < found[j].id,
         \A i, j \in DOMAIN tail[t].sent : i < j => tail[t].sent[i] < tail[t].sent[j],
         \A i \in DOMAIN tail[t].sent :
                tail[t].sent[i] <= tail[t].last /\ \E c \in events : c.id = tail[t].sent[i],
         \A c \in events : tail[t].last < c.id \/ \E i \in DOMAIN tail[t].sent : tail[t].sent[i] = c.id,
         tail[t].last # 0 => \E i \in DOMAIN tail[t].sent : tail[t].sent[i] = tail[t].last
  PROVE  UpToLast(t)'
<1> DEFINE s == tail[t].sent
           n == Len(tail[t].sent)
           m == Len(found)
           ids == [i \in DOMAIN found |-> found[i].id]
<1>1. s \in Seq(Nat) /\ tail[t].last \in Nat
  BY TailTypes DEF TypeInv
<1>2. \A c \in events : c.id \in Nat
  BY EventFields DEF TypeInv
<1>3. DOMAIN found = 1 .. m /\ m \in Nat /\ \A i \in 1 .. m : found[i] \in events
  OBVIOUS
<1>4. DOMAIN s = 1 .. n /\ n \in Nat /\ \A i \in 1 .. n : s[i] \in Nat
  BY <1>1
<1>5. ids \in Seq(Nat) /\ Len(ids) = m /\ \A i \in 1 .. m : ids[i] = found[i].id
  BY <1>2, <1>3
<1>6. /\ tail'[t].sent = s \o ids /\ tail'[t].read = {ev.id : ev \in events}
      /\ tail'[t].last = IF found = <<>> THEN tail[t].last ELSE Last(found).id
  <2>1. PICK a, l, r : a = s \o ids /\ r = {ev.id : ev \in events}
                       /\ l = (IF found = <<>> THEN tail[t].last ELSE Last(found).id)
    OBVIOUS
  <2>2. tail' = [tail EXCEPT ![t].pc = pc, ![t].read = r, ![t].sent = a, ![t].last = l]
    BY <2>1 DEF Send
  <2>3. tail'[t].sent = a /\ tail'[t].read = r /\ tail'[t].last = l
    BY <2>2 DEF TypeInv, TypeOK
  <2> QED
    BY <2>1, <2>3
<1> HIDE DEF ids
<1>7. /\ DOMAIN tail'[t].sent = 1 .. (n + m)
      /\ \A i \in 1 .. n : tail'[t].sent[i] = s[i]
      /\ \A i \in (n + 1) .. (n + m) : tail'[t].sent[i] = found[i - n].id /\ i - n \in 1 .. m
  <2>1. /\ Len(s \o ids) = n + m /\ DOMAIN (s \o ids) = 1 .. (n + m)
        /\ \A i \in 1 .. n : (s \o ids)[i] = s[i]
        /\ \A i \in (n + 1) .. (n + m) : (s \o ids)[i] = ids[i - n] /\ i - n \in 1 .. m
    <3>1. /\ Len(s \o ids) = Len(s) + Len(ids) /\ DOMAIN (s \o ids) = 1 .. (Len(s) + Len(ids))
          /\ \A i \in 1 .. Len(s) : (s \o ids)[i] = s[i]
          /\ \A i \in (Len(s) + 1) .. (Len(s) + Len(ids)) :
                (s \o ids)[i] = ids[i - Len(s)] /\ i - Len(s) \in 1 .. Len(ids)
      <4>1. s \in Seq(Nat) /\ ids \in Seq(Nat)
        BY <1>1, <1>5
      <4> HIDE DEF s
      <4> QED
        BY ONLY <4>1, Joined
    <3>2. Len(s) = n /\ Len(ids) = m
      BY <1>5
    <3> HIDE DEF n, m, s
    <3> QED
      BY ONLY <3>1, <3>2
  <2> QED
    BY <1>5, <1>6, <2>1
<1> HIDE DEF n, m
<1>8. ASSUME NEW i \in 1 .. m
      PROVE  found[i] \in events /\ tail[t].last < found[i].id /\ tail'[t].sent[n + i] = found[i].id
             /\ n + i \in 1 .. (n + m)
  <2>1. found[i] \in ToSet(found)
    BY <1>3 DEF ToSet
  <2>2. n + i \in (n + 1) .. (n + m) /\ (n + i) - n = i
    BY <1>3, <1>4
  <2>3. n + i \in 1 .. (n + m)
    BY <1>3, <1>4
  <2> QED
    BY <1>7, <2>1, <2>2, <2>3
<1>9. ASSUME NEW c \in events
      PROVE  \E i \in DOMAIN tail'[t].sent : tail'[t].sent[i] = c.id
  <2>1. CASE tail[t].last < c.id
    <3>1. c \in ToSet(found)
      BY <2>1
    <3>2. PICK i \in 1 .. m : found[i] = c
      BY <1>3, <3>1 DEF ToSet
    <3> QED
      BY <1>7, <1>8, <3>2
  <2>2. CASE \E i \in DOMAIN s : s[i] = c.id
    <3>1. PICK i \in 1 .. n : s[i] = c.id
      BY <1>4, <2>2
    <3>2. i \in 1 .. (n + m)
      BY <1>3, <1>4
    <3> QED
      BY <1>7, <3>1, <3>2
  <2> QED
    BY <2>1, <2>2
<1>10. ASSUME NEW i \in DOMAIN tail'[t].sent
       PROVE  \E c \in events : c.id = tail'[t].sent[i]
  <2>1. CASE i \in 1 .. n
    BY <1>4, <1>7, <2>1
  <2>2. CASE i \in (n + 1) .. (n + m)
    BY <1>3, <1>7, <2>2
  <2> QED
    BY <1>3, <1>4, <1>7, <2>1, <2>2
<1>11. ToSet(tail'[t].sent) = tail'[t].read
  <2>1. \A i \in DOMAIN tail'[t].sent : tail'[t].sent[i] \in tail'[t].read
    BY <1>6, <1>10
  <2>2. ASSUME NEW x \in tail'[t].read
        PROVE  \E i \in DOMAIN tail'[t].sent : tail'[t].sent[i] = x
    <3>1. tail'[t].read = {ev.id : ev \in events}
      BY <1>6
    <3>2. PICK c \in events : x = c.id
      BY <3>1
    <3> QED
      BY <1>9, <3>2
  <2> QED
    BY <2>1, <2>2 DEF ToSet
<1>12. ASSUME NEW i \in DOMAIN tail'[t].sent, NEW j \in DOMAIN tail'[t].sent, i < j
       PROVE  tail'[t].sent[i] < tail'[t].sent[j]
  <2>1. CASE i \in 1 .. n /\ j \in 1 .. n
    BY <1>4, <1>7, <1>12, <2>1
  <2>2. CASE i \in 1 .. n /\ j \in (n + 1) .. (n + m)
    <3>1. s[i] <= tail[t].last /\ s[i] \in Nat
      BY <1>4, <2>2
    <3>2. tail[t].last < found[j - n].id /\ found[j - n].id \in Nat
      BY <1>2, <1>7, <1>8, <2>2
    <3>3. tail'[t].sent[i] = s[i] /\ tail'[t].sent[j] = found[j - n].id
      BY <1>7, <2>2
    <3>4. s[i] < found[j - n].id
      <4>1. \A x, y, z \in Nat : x <= y /\ y < z => x < z
        OBVIOUS
      <4>2. tail[t].last \in Nat
        BY <1>1
      <4> QED
        BY <3>1, <3>2, <4>1, <4>2
    <3> QED
      BY <3>3, <3>4
  <2>3. CASE i \in (n + 1) .. (n + m) /\ j \in (n + 1) .. (n + m)
    <3>1. i - n \in 1 .. m /\ j - n \in 1 .. m /\ i - n < j - n
      BY ONLY <1>3, <1>4, <1>12, <2>3
    <3>2. found[i - n].id < found[j - n].id
      BY <1>3, <3>1
    <3> QED
      BY <1>7, <2>3, <3>2
  <2> QED
    BY <1>3, <1>4, <1>7, <1>12, <2>1, <2>2, <2>3
<1>13. /\ tail'[t].last # 0 => tail'[t].last \in tail'[t].read
       /\ \A c \in events : c.id <= tail'[t].last
  <2>1. CASE found = <<>>
    <3>1. tail'[t].last = tail[t].last /\ m = 0
      BY <1>6, <2>1 DEF m
    <3>2. \A c \in events : c.id <= tail[t].last
      <4>1. ToSet(found) = {}
        BY <1>3, <3>1 DEF ToSet
      <4> QED
        BY <1>1, <1>2, <4>1
    <3>3. tail[t].last # 0 => \E c \in events : c.id = tail[t].last
      OBVIOUS
    <3> QED
      BY <1>6, <3>1, <3>2, <3>3
  <2>2. CASE found # <<>>
    <3>1. m \in 1 .. m /\ m # 0
      BY <1>3, <2>2
    <3>2. tail'[t].last = found[m].id
      BY <1>6, <2>2 DEF Last, m
    <3>3. ASSUME NEW c \in events PROVE c.id <= found[m].id
      <4>1. CASE tail[t].last < c.id
        <5>1. c \in ToSet(found)
          BY <4>1
        <5>2. PICK i \in 1 .. m : found[i] = c
          BY <1>3, <5>1 DEF ToSet
        <5>3. i = m \/ found[i].id < found[m].id
          <6>1. CASE i # m
            <7>1. i < m
              BY ONLY <1>3, <6>1, i \in 1 .. m
            <7>2. i \in DOMAIN found /\ m \in DOMAIN found
              BY <1>3, <3>1
            <7> QED
              BY <7>1, <7>2
          <6> QED
            BY <6>1
        <5>4. found[i].id \in Nat /\ found[m].id \in Nat
          BY <1>2, <1>3, <3>1
        <5> QED
          BY <5>2, <5>3, <5>4
      <4>2. CASE ~(tail[t].last < c.id)
        <5>1. tail[t].last < found[m].id /\ found[m].id \in Nat /\ c.id \in Nat
              /\ tail[t].last \in Nat
          BY <1>1, <1>2, <1>8, <3>1
        <5> QED
          BY ONLY <4>2, <5>1
      <4> QED
        BY <4>1, <4>2
    <3> QED
      BY <1>6, <1>8, <3>1, <3>2, <3>3
  <2> QED
    BY <2>1, <2>2
<1> QED
  BY <1>6, <1>11, <1>12, <1>13 DEF UpToLast

LEMMA SendsTo ==
  ASSUME TypeOK, NEW t \in Tails, NEW found, NEW pc, Send(t, found, pc)
  PROVE  tail'[t].pc = pc /\ \A u \in Tails \ {t} : tail'[u] = tail[u]
<1>1. PICK a, l, r :
        tail' = [tail EXCEPT ![t].pc = pc, ![t].read = r, ![t].sent = a, ![t].last = l]
  BY DEF Send
<1> QED
  BY <1>1 DEF TypeOK

LEMMA TailStays ==
  ASSUME TypeInv, TypeInv', AbsentInv, InOrder, TailInv, [Next]_vars, Loses \/ Commits \/ Adds,
         NEW t \in Tails, tail'[t] = tail[t]
  PROVE  /\ tail'[t].pc \in {"idle", "replay"} => tail'[t].last = 0 /\ tail'[t].sent = <<>>
         /\ tail'[t].pc \in {"poll", "check", "done"} /\ status' # "deleted" => UpToLast(t)'
<1>1. tail[t].pc \in {"idle", "replay"} => tail[t].last = 0 /\ tail[t].sent = <<>>
  BY DEF TailInv
<1>2. ASSUME tail[t].pc \in {"poll", "check", "done"}, status' # "deleted" PROVE UpToLast(t)'
  <2>1. UpToLast(t) /\ events \subseteq events'
    BY <1>2, EventsStay DEF TailInv
  <2> QED
    BY <2>1, TailWaits
<1> QED
  BY <1>1, <1>2

LEMMA TailsStep ==
  ASSUME TypeInv, TypeInv', AbsentInv, InOrder, TailInv, [Next]_vars, Loses \/ Commits \/ Adds
  PROVE  TailInv'
<1> DEFINE Ok(t) == /\ tail'[t].pc \in {"idle", "replay"} => tail'[t].last = 0 /\ tail'[t].sent = <<>>
                    /\ tail'[t].pc \in {"poll", "check", "done"} /\ status' # "deleted" => UpToLast(t)'
<1>0. SUFFICES ASSUME NEW u \in Tails PROVE Ok(u)
  BY DEF TailInv
<1>1. CASE tail'[u] = tail[u]
  BY <1>1, TailStays
<1>2. CASE \A t \in Tails : tail'[t].pc \in {"idle", "gone"} /\ (tail'[t].pc = "idle" => tail'[t] = IdleTail)
  BY <1>2 DEF IdleTail
<1>3. ASSUME TailMoves(u), UNCHANGED <<status, events>> PROVE Ok(u)
  <2> USE DEF TypeInv
  <2>1. \A c \in events : c.id \in Nat /\ c.born \in Nat /\ 0 < c.id
    BY EventFields
  <2>2. CASE OpenTail(u)
    <3>1. tail'[u].pc = "replay" /\ tail'[u].last = tail[u].last /\ tail'[u].sent = tail[u].sent
          /\ tail[u].pc = "idle"
      BY <2>2 DEF OpenTail, TypeOK
    <3> QED
      BY <3>1 DEF TailInv
  <2>3. CASE Replay(u)
    <3>1. tail[u].last = 0 /\ tail[u].sent = <<>>
      BY <2>3 DEF Replay, TailInv
    <3>2. /\ GetForRun \in Seq(events) /\ ToSet(GetForRun) = events
          /\ \A i, j \in DOMAIN GetForRun : i < j => <<GetForRun[i], GetForRun[j]>> \in ByCreated
      BY <3>1, Queried DEF TypeOK
    <3>3. PICK found : found = GetForRun
      OBVIOUS
    <3>4. ASSUME NEW i \in DOMAIN found, NEW j \in DOMAIN found, i < j PROVE found[i].id < found[j].id
      <4>1. found[i] \in events /\ found[j] \in events /\ <<found[i], found[j]>> \in ByCreated
        BY <3>2, <3>3, <3>4
      <4>2. found[i].born <= found[j].born /\ (found[i].born = found[j].born => found[i].id < found[j].id)
        BY <2>1, <4>1 DEF ByCreated
      <4>3. found[j].id < found[i].id => found[j].born <= found[i].born
        BY <4>1 DEF InOrder
      <4>4. found[i] # found[j]
        BY <2>1, <4>1 DEF ByCreated
      <4>5. found[i].id # found[j].id
        BY <4>1, <4>4 DEF IdsInv
      <4> QED
        BY <2>1, <4>1, <4>2, <4>3, <4>5
    <3>5. ToSet(found) = {c \in events : tail[u].last < c.id}
      BY <2>1, <3>1, <3>2, <3>3
    <3>6. PICK pc : pc = Loop(tail[u].status)
      OBVIOUS
    <3>7. Send(u, found, pc) /\ pc \in {"poll", "done"}
      BY <2>3, <3>3, <3>6 DEF Replay, Loop
    <3>8. DOMAIN tail[u].sent = {}
      BY <3>1
    <3>9. UpToLast(u)'
      BY <1>3, <2>1, <3>1, <3>2, <3>3, <3>4, <3>5, <3>7, <3>8, TailSends
    <3>10. tail'[u].pc = pc
      BY <3>7, SendsTo
    <3> QED
      BY <3>7, <3>9, <3>10
  <2>4. CASE Poll(u)
    <3>1. PICK found : found = GetAfterId(tail[u].last)
      OBVIOUS
    <3>2. tail[u].last \in Nat
      BY DEF TypeOK
    <3>3. /\ found \in Seq(events) /\ ToSet(found) = {c \in events : tail[u].last < c.id}
          /\ \A i, j \in DOMAIN found : i < j => <<found[i], found[j]>> \in ById
      BY <3>1, <3>2, Queried
    <3>4. \A i, j \in DOMAIN found : i < j => found[i].id < found[j].id
      BY <3>3 DEF ById
    <3>5. Send(u, found, "check") /\ tail[u].pc = "poll"
      BY <2>4, <3>1 DEF Poll
    <3>6. tail'[u].pc = "check"
      BY <3>5, SendsTo
    <3>7. ASSUME status' # "deleted" PROVE UpToLast(u)'
      <4>1. UpToLast(u)
        BY <1>3, <3>5, <3>7 DEF TailInv
      <4>2. \A i \in DOMAIN tail[u].sent :
                tail[u].sent[i] <= tail[u].last /\ \E c \in events : c.id = tail[u].sent[i]
        BY <4>1 DEF UpToLast, ToSet
      <4>3. \A c \in events : tail[u].last < c.id \/ \E i \in DOMAIN tail[u].sent : tail[u].sent[i] = c.id
        BY <4>1 DEF UpToLast, ToSet
      <4>4. tail[u].last # 0 => \E i \in DOMAIN tail[u].sent : tail[u].sent[i] = tail[u].last
        BY <4>1 DEF UpToLast, ToSet
      <4>5. \A i, j \in DOMAIN tail[u].sent : i < j => tail[u].sent[i] < tail[u].sent[j]
        BY <4>1 DEF UpToLast
      <4> QED
        BY <1>3, <3>3, <3>4, <3>5, <4>2, <4>3, <4>4, <4>5, TailSends
    <3> QED
      BY <3>6, <3>7
  <2>5. CASE Check(u)
    <3>1. /\ tail'[u].pc \in {"done", "poll"} /\ tail[u].pc = "check"
          /\ tail'[u].last = tail[u].last /\ tail'[u].sent = tail[u].sent /\ tail'[u].read = tail[u].read
      BY <2>5 DEF Check, Loop, TypeOK
    <3>2. ASSUME status' # "deleted" PROVE UpToLast(u)'
      <4>1. UpToLast(u)
        BY <1>3, <3>1, <3>2 DEF TailInv
      <4> QED
        BY <1>3, <3>1, <4>1, TailWaits
    <3> QED
      BY <3>1, <3>2
  <2>6. CASE TailLeaves(u)
    <3>1. tail'[u].pc = "gone"
      BY <2>6 DEF TailLeaves, IdleTail, TypeOK
    <3> QED
      BY <3>1
  <2> QED
    BY <1>3, <2>2, <2>3, <2>4, <2>5, <2>6 DEF TailMoves
<1>4. ASSUME NEW t \in Tails, TailMoves(t), t # u PROVE tail'[u] = tail[u]
  <2>1. ASSUME NEW found, NEW pc, Send(t, found, pc) PROVE tail'[u] = tail[u]
    BY <1>4, <2>1, SendsTo DEF TypeInv
  <2>3. CASE Replay(t)
    <3>1. PICK found, pc : found = GetForRun /\ pc = Loop(tail[t].status)
      OBVIOUS
    <3>2. Send(t, found, pc)
      BY <2>3, <3>1 DEF Replay
    <3> QED
      BY <2>1, <3>2
  <2>4. CASE Poll(t)
    <3>1. PICK found : found = GetAfterId(tail[t].last)
      OBVIOUS
    <3>2. Send(t, found, "check")
      BY <2>4, <3>1 DEF Poll
    <3> QED
      BY <2>1, <3>2
  <2>2. CASE OpenTail(t) \/ Check(t) \/ TailLeaves(t)
    <3>1. PICK r : tail' = [tail EXCEPT ![t] = r]
      BY <2>2 DEF OpenTail, Check, TailLeaves
    <3> QED
      BY <1>4, <3>1 DEF TypeInv, TypeOK
  <2> QED
    BY <1>4, <2>2, <2>3, <2>4 DEF TailMoves
<1> QED
  BY <1>1, <1>2, <1>3, <1>4, TailsMove

SendingInv == TypeInv /\ AbsentInv /\ SentInv

LEMMA SendingStep == SendingInv /\ [Next]_vars => SendingInv'
<1> SUFFICES ASSUME SendingInv, [Next]_vars PROVE SendingInv'
  OBVIOUS
<1>1. TypeInv' /\ (Loses \/ Commits \/ Adds) /\ AbsentInv'
  BY TypeStep, AbsentStep DEF SendingInv
<1>2. ASSUME ~overlapped' PROVE Alone' /\ InOrder' /\ TailInv'
  <2>1. ~overlapped
    BY <1>2, OverlapStays DEF SendingInv
  <2>2. Alone /\ InOrder /\ TailInv
    BY <2>1 DEF SendingInv, SentInv
  <2> QED
    BY <1>1, <1>2, <2>2, AloneStep, InOrderStep, TailsStep DEF SendingInv
<1> QED
  BY <1>1, <1>2 DEF SendingInv, SentInv

LEMMA SendingInit == Init => SendingInv
<1> SUFFICES ASSUME Init PROVE SendingInv
  OBVIOUS
<1>1. AbsentInv
  BY RunEventsAssumption DEF Init, AbsentInv, Running, IdleExec, Execs
<1>2. Alone /\ InOrder
  BY DEF Init, Alone, InOrder, Running, IdleExec, Flushed
<1>3. TailInv
  BY DEF Init, TailInv, IdleTail
<1> QED
  BY <1>1, <1>2, <1>3, TypeInit DEF SendingInv, SentInv

(* The variables keep their types *)
THEOREM EventTypes == Spec => []TypeOK
<1>1. SendingInv => TypeOK
  BY DEF SendingInv, TypeInv
<1> QED
  BY <1>1, SendingInit, SendingStep, PTL DEF Spec

(* What a tail sent is what was committed when it last read the events, each *)
(* once and in order (SentWhatWasCommitted): get_after_id never skips an    *)
(* event, because the ids of an execution come after all the committed ones *)
(* as long as no two executions overlap.                                    *)
THEOREM TailsSendTheLog == Spec => []SentWhatWasCommitted
<1>1. SendingInv => SentWhatWasCommitted
  BY DEF SendingInv, SentInv, TailInv, UpToLast, SentWhatWasCommitted
<1> QED
  BY <1>1, SendingInit, SendingStep, PTL DEF Spec

-----------------------------------------------------------------------------
(* The frames of the streamed run *)

LEMMA FrameQuiet ==
  ASSUME FrameInv, exec'[Streamer] = exec[Streamer], reader' = reader, outcome' = outcome,
         ~silent' => ~silent
  PROVE  FrameInv'
<1>1. \A f : Told(f)' <=> Told(f)
  BY DEF Told
<1>2. (NothingTold' <=> NothingTold) /\ (Succeeds' <=> Succeeds) /\ (Running(Streamer)' <=> Running(Streamer))
  BY <1>1 DEF NothingTold, Succeeds, Running
<1>3. CompletedFrameIsCommitted'
  BY DEF FrameInv, CompletedFrameIsCommitted
<1> QED
  BY <1>1, <1>2, <1>3 DEF FrameInv

(* A frame put in the reader's queue is told, and nothing else is *)
LEMMA PutTold ==
  ASSUME TypeOK, NEW frame \in Frame, Put(Streamer, frame), reader.pc = "reading"
  PROVE  /\ reader'.pc = reader.pc /\ reader'.last = reader.last
         /\ \A f : Told(f)' <=> Told(f) \/ f = frame
<1>1. reader' = [reader EXCEPT !.queue = Append(@, frame)] /\ reader.queue \in Seq(Frame)
  BY DEF Put, TypeOK
<1>2. reader'.queue = Append(reader.queue, frame) /\ reader'.pc = reader.pc /\ reader'.last = reader.last
  BY <1>1 DEF TypeOK
<1>3. PICK q \in Seq(Frame) : q = reader.queue
  BY <1>1
<1>4. \A f : (\E i \in DOMAIN Append(q, frame) : Append(q, frame)[i] = f) <=>
             (\E i \in DOMAIN q : q[i] = f) \/ f = frame
  <2>1. /\ DOMAIN q = 1 .. Len(q) /\ DOMAIN Append(q, frame) = 1 .. (Len(q) + 1) /\ Len(q) \in Nat
        /\ \A i \in 1 .. Len(q) : Append(q, frame)[i] = q[i]
        /\ Append(q, frame)[Len(q) + 1] = frame
    OBVIOUS
  <2>2. \A i \in 1 .. (Len(q) + 1) : i \in 1 .. Len(q) \/ i = Len(q) + 1
    BY <2>1
  <2>3. 1 .. Len(q) \subseteq 1 .. (Len(q) + 1) /\ Len(q) + 1 \in 1 .. (Len(q) + 1)
    BY <2>1
  <2>4. ASSUME NEW f, NEW i \in DOMAIN Append(q, frame), Append(q, frame)[i] = f
        PROVE  (\E j \in DOMAIN q : q[j] = f) \/ f = frame
    <3>1. CASE i \in 1 .. Len(q)
      BY <2>1, <2>4, <3>1
    <3>2. CASE i = Len(q) + 1
      BY <2>1, <2>4, <3>2
    <3> QED
      BY <2>1, <2>2, <2>4, <3>1, <3>2
  <2>5. ASSUME NEW f, NEW i \in DOMAIN q, q[i] = f
        PROVE  \E j \in DOMAIN Append(q, frame) : Append(q, frame)[j] = f
    BY <2>1, <2>3, <2>5
  <2>6. \E j \in DOMAIN Append(q, frame) : Append(q, frame)[j] = frame
    BY <2>1, <2>3
  <2> QED
    BY <2>4, <2>5, <2>6
<1>5. /\ \A f : Told(f) <=> reader.last = f \/ \E i \in DOMAIN q : q[i] = f
      /\ \A f : Told(f)' <=> reader.last = f \/ \E i \in DOMAIN Append(q, frame) : Append(q, frame)[i] = f
  BY <1>2, <1>3 DEF Told
<1> QED
  BY <1>2, <1>4, <1>5

(* What the reader takes from its queue stays told *)
LEMMA ReadTold ==
  ASSUME TypeOK, NextFrame, reader.last \notin {"completed", "failed"}
  PROVE  /\ Told("completed")' <=> Told("completed")
         /\ Told("failed")' <=> Told("failed")
<1>1. PICK q \in Seq(Frame) : q = reader.queue /\ q # <<>>
  BY DEF NextFrame, TypeOK
<1>2. reader'.queue = Tail(q) /\ reader'.last = Head(q)
  BY <1>1 DEF NextFrame
<1>3. ASSUME NEW f
      PROVE  (Head(q) = f \/ \E i \in DOMAIN Tail(q) : Tail(q)[i] = f) <=> \E i \in DOMAIN q : q[i] = f
  <2>1. /\ DOMAIN q = 1 .. Len(q) /\ Len(q) \in Nat \ {0} /\ Head(q) = q[1]
        /\ DOMAIN Tail(q) = 1 .. (Len(q) - 1)
        /\ \A i \in 1 .. (Len(q) - 1) : Tail(q)[i] = q[i + 1]
    BY <1>1
  <2>2. \A i \in 1 .. (Len(q) - 1) : i + 1 \in 1 .. Len(q)
    BY <2>1
  <2>3. \A i \in 1 .. Len(q) : i = 1 \/ (i - 1 \in 1 .. (Len(q) - 1) /\ (i - 1) + 1 = i)
    BY <2>1
  <2>4. 1 \in 1 .. Len(q)
    BY <2>1
  <2>5. ASSUME NEW i \in DOMAIN q, q[i] = f
        PROVE  Head(q) = f \/ \E j \in DOMAIN Tail(q) : Tail(q)[j] = f
    <3>1. CASE i = 1
      BY <2>1, <2>5, <3>1
    <3>2. CASE i # 1
      <4>1. i - 1 \in 1 .. (Len(q) - 1) /\ (i - 1) + 1 = i
        BY <2>1, <2>3, <3>2
      <4>2. Tail(q)[i - 1] = q[i]
        BY <2>1, <4>1
      <4> QED
        BY <2>1, <2>5, <4>1, <4>2
    <3> QED
      BY <3>1, <3>2
  <2>6. ASSUME NEW i \in DOMAIN Tail(q), Tail(q)[i] = f PROVE \E j \in DOMAIN q : q[j] = f
    BY <2>1, <2>2, <2>6
  <2>7. Head(q) = f => \E j \in DOMAIN q : q[j] = f
    BY <2>1, <2>4
  <2> QED
    BY <2>5, <2>6, <2>7
<1>4. ASSUME NEW f \in {"completed", "failed"} PROVE Told(f)' <=> Told(f)
  <2>1. reader.last # f
    BY <1>4
  <2>2. (Head(q) = f \/ \E i \in DOMAIN Tail(q) : Tail(q)[i] = f) <=> \E i \in DOMAIN q : q[i] = f
    BY <1>3
  <2>3. Told(f) <=> \E i \in DOMAIN q : q[i] = f
    BY <1>1, <2>1 DEF Told
  <2>4. Told(f)' <=> (Head(q) = f \/ \E i \in DOMAIN Tail(q) : Tail(q)[i] = f)
    BY <1>2 DEF Told
  <2> QED
    BY <2>2, <2>3, <2>4
<1> QED
  BY <1>4

LEMMA FrameExec ==
  ASSUME TypeInv, FrameInv, NEW e \in Execs, ExecMoves(e)
  PROVE  FrameInv'
<1> USE DEF TypeInv
<1>0. Streamer \in Execs /\ exec[e] \in ExecRow
  BY DEF Execs, TypeOK, ExecRow
<1>1. CASE e # Streamer
  <2>1. exec'[Streamer] = exec[Streamer]
    BY <1>0, <1>1 DEF ExecMoves, Emit, EngineRaises, EngineReturns, WorkflowDone, Refresh, Commit, Breaks,
                Ends, End, TypeOK
  <2>2. reader' = reader
    BY <1>1 DEF ExecMoves, Emit, EngineRaises, EngineReturns, WorkflowDone, Refresh, Commit, Breaks,
                Put, readers
  <2>3. outcome' = outcome
    BY <1>1 DEF ExecMoves, Emit, EngineRaises, EngineReturns, WorkflowDone, Refresh, Commit, Breaks, ghosts
  <2>4. silent' = silent \/ silent' = (silent \/ e = Streamer)
    <3>1. CASE Commit(e) \/ Breaks(e)
      BY <3>1 DEF Commit, Breaks
    <3>2. CASE ~(Commit(e) \/ Breaks(e))
      <4>1. UNCHANGED ghosts
        BY <3>2 DEF ExecMoves, Emit, EngineRaises, EngineReturns, WorkflowDone, Refresh
      <4> QED
        BY <4>1 DEF ghosts
    <3> QED
      BY <3>1, <3>2
  <2>5. ~silent' => ~silent
    BY <2>4
  <2> QED
    BY <2>1, <2>2, <2>3, <2>5, FrameQuiet
<1>2. CASE e = Streamer
  <2> DEFINE x == exec[Streamer]
  <2>1. CASE Emit(e)
    <3>1. /\ x.pc = "run" /\ Put(Streamer, "event") /\ UNCHANGED ghosts
          /\ exec'[Streamer].pc = "run" /\ exec'[Streamer].job = x.job
      BY <1>0, <1>2, <2>1 DEF Emit, TypeOK, ExecRow
    <3>2. NothingTold /\ outcome = None /\ outcome' = outcome /\ x.job = "stream"
      BY <3>1 DEF FrameInv, ghosts, Running
    <3>3. /\ reader'.pc = reader.pc /\ reader'.last = reader.last
          /\ \A f : Told(f)' <=> Told(f) \/ f = "event"
      BY <3>1, <3>2, PutTold DEF NothingTold, Frame
    <3>4. NothingTold'
      BY <3>2, <3>3 DEF NothingTold
    <3> QED
      BY <3>1, <3>2, <3>3, <3>4 DEF FrameInv, Running, NothingTold, CompletedFrameIsCommitted
  <2>2. CASE WorkflowDone(e)
    <3>1. /\ x.pc = "run" /\ Put(Streamer, "completed") /\ UNCHANGED ghosts
          /\ exec'[Streamer].pc = "refresh" /\ exec'[Streamer].job = x.job
          /\ exec'[Streamer].outcome = "completed"
      BY <1>0, <1>2, <2>2 DEF WorkflowDone, TypeOK, ExecRow
    <3>2. NothingTold /\ outcome = None /\ outcome' = outcome /\ x.job = "stream"
      BY <3>1 DEF FrameInv, ghosts, Running
    <3>3. /\ reader'.pc = reader.pc /\ reader'.last = reader.last
          /\ \A f : Told(f)' <=> Told(f) \/ f = "completed"
      BY <3>1, <3>2, PutTold DEF NothingTold, Frame
    <3>4. Succeeds'
      BY <3>2, <3>3 DEF NothingTold, Succeeds
    <3> QED
      BY <3>1, <3>2, <3>3, <3>4 DEF FrameInv, Running, NothingTold, CompletedFrameIsCommitted
  <2>3. CASE EngineRaises(e) \/ EngineReturns(e)
    <3>1. /\ x.pc = "run" /\ UNCHANGED ghosts /\ reader' = reader
          /\ exec'[Streamer].pc = "refresh" /\ exec'[Streamer].job = x.job
          /\ exec'[Streamer].outcome = "failed" \/ x.job = "resume"
      BY <1>0, <1>2, <2>3 DEF EngineRaises, EngineReturns, Ends, TypeOK, ExecRow, readers
    <3>2. NothingTold /\ outcome = None /\ outcome' = outcome /\ x.job = "stream"
      BY <3>1 DEF FrameInv, ghosts, Running
    <3>3. NothingTold' /\ exec'[Streamer].outcome = "failed"
      BY <3>1, <3>2 DEF NothingTold, Told
    <3> QED
      BY <3>1, <3>2, <3>3 DEF FrameInv, Running, NothingTold, CompletedFrameIsCommitted
  <2>4. CASE Refresh(e)
    <3>1. x.pc = "refresh" /\ UNCHANGED ghosts /\ reader' = reader
      BY <1>2, <2>4 DEF Refresh, readers
    <3>2. x.outcome \in {"completed", "failed"} /\ outcome' = outcome
      BY <1>0, <3>1 DEF OutcomeInv, ghosts
    <3>3. \/ exec' = [exec EXCEPT ![Streamer].pc = "commit"]
          \/ exec' = [exec EXCEPT ![Streamer].pc = "notify"] /\ x.outcome = "failed"
      <4>1. CASE x.outcome = "completed"
        <5>1. HoldsRow
          BY <3>1, <4>1 DEF HoldsRow
        <5> QED
          BY <1>2, <2>4, <5>1 DEF Refresh
      <4>2. CASE x.outcome = "failed"
        BY <1>2, <2>4, <4>2, Zenon DEF Refresh
      <4> QED
        BY <3>2, <4>1, <4>2
    <3>4. /\ exec'[Streamer].outcome = x.outcome /\ exec'[Streamer].job = x.job
          /\ exec'[Streamer].pc = "commit" \/ (exec'[Streamer].pc = "notify" /\ x.outcome = "failed")
      BY <1>0, <3>3 DEF TypeOK
    <3>5. \A f : Told(f)' <=> Told(f)
      BY <3>1 DEF Told
    <3>6. (NothingTold' <=> NothingTold) /\ (Succeeds' <=> Succeeds)
      BY <3>1, <3>5 DEF NothingTold, Succeeds
    <3>7. /\ outcome = None /\ x.job = "stream" /\ reader.pc \in {"reading", "await"}
          /\ x.outcome = "completed" => Succeeds
          /\ x.outcome = "failed" => NothingTold
      BY <3>1 DEF FrameInv, Running
    <3> QED
      BY <3>1, <3>2, <3>4, <3>6, <3>7, RunEventsAssumption
         DEF FrameInv, Running, CompletedFrameIsCommitted
  <2>5. CASE Commit(e)
    <3>1. /\ x.pc = "commit" /\ reader' = reader /\ outcome' = x.outcome
          /\ exec' = [exec EXCEPT ![Streamer].pc = "notify", ![Streamer].events = {}]
      BY <1>2, <2>5 DEF Commit, readers
    <3>2. x.outcome \in {"completed", "failed"}
      BY <1>0, <3>1 DEF OutcomeInv
    <3>3. exec'[Streamer].pc = "notify" /\ exec'[Streamer].outcome = x.outcome /\ exec'[Streamer].job = x.job
      BY <1>0, <3>1 DEF TypeOK
    <3>5. \A f : Told(f)' <=> Told(f)
      BY <3>1 DEF Told
    <3>6. (NothingTold' <=> NothingTold) /\ (Succeeds' <=> Succeeds)
      BY <3>1, <3>5 DEF NothingTold, Succeeds
    <3>7. /\ x.job = "stream" /\ reader.pc \in {"reading", "await"}
          /\ x.outcome = "completed" => Succeeds
          /\ x.outcome = "failed" => NothingTold
      BY <3>1 DEF FrameInv, Running
    <3> QED
      BY <3>1, <3>2, <3>3, <3>6, <3>7 DEF FrameInv, Running, CompletedFrameIsCommitted
  <2>6. CASE Breaks(e)
    <3>1. /\ exec' = [exec EXCEPT ![Streamer] = IdleExec] /\ reader' = reader /\ outcome' = outcome
          /\ x.pc # "idle"
      BY <1>2, <2>6 DEF Breaks, End, readers
    <3>2. silent' = (silent \/ e = Streamer)
      BY <2>6 DEF Breaks
    <3>3. silent'
      BY <1>2, <3>2
    <3>4. exec'[Streamer] = IdleExec
      BY <1>0, <3>1 DEF TypeOK
    <3>5. reader.pc \in {"reading", "await"}
      BY <3>1 DEF FrameInv, Running
    <3> QED
      BY <3>1, <3>3, <3>4, <3>5 DEF FrameInv, Running, IdleExec, CompletedFrameIsCommitted
  <2> QED
    BY <1>2, <2>1, <2>2, <2>3, <2>4, <2>5, <2>6 DEF ExecMoves
<1> QED
  BY <1>1, <1>2

LEMMA FrameStream ==
  ASSUME TypeInv, FrameInv, StreamMoves
  PROVE  FrameInv'
<1> USE DEF TypeInv
<1>0. Streamer \in Execs /\ exec[Streamer] \in ExecRow
  BY DEF Execs, TypeOK, ExecRow
<1>1. outcome' = outcome /\ silent' = silent
  BY DEF StreamMoves, OpenStream, StartStream, Notify, ghosts
<1>2. CASE OpenStream
  <2>1. /\ exec'[Streamer].pc = "queued" /\ exec'[Streamer].job = "stream"
        /\ reader' = [reader EXCEPT !.pc = "reading", !.queue = <<"event">>]
        /\ reader.pc = "idle"
    BY <1>0, <1>2 DEF OpenStream, TypeOK
  <2>2. reader'.pc = "reading" /\ reader'.queue = <<"event">> /\ reader'.last = None /\ outcome = None
    BY <2>1 DEF FrameInv, TypeOK
  <2>3. \A i \in DOMAIN <<"event">> : <<"event">>[i] = "event"
    OBVIOUS
  <2>4. NothingTold'
    BY <2>2, <2>3, RunEventsAssumption DEF NothingTold, Told
  <2> QED
    BY <1>1, <2>1, <2>2, <2>4, RunEventsAssumption DEF FrameInv, Running, CompletedFrameIsCommitted
<1>3. CASE StartStream
  <2>1. exec[Streamer].pc = "queued" /\ reader' = reader /\ nextId' = nextId
    BY <1>3 DEF StartStream, readers
  <2>2. BeginExecution(Streamer, "stream", 1)
    BY <1>3 DEF StartStream
  <2>3. exec'[Streamer].pc = "run" /\ exec'[Streamer].job = "stream"
    BY <1>0, <2>1, <2>2, Begins
  <2>4. NothingTold /\ outcome = None /\ Running(Streamer)
    BY <2>1 DEF FrameInv, Running
  <2>5. NothingTold'
    BY <2>1, <2>4 DEF NothingTold, Told
  <2> QED
    BY <1>1, <2>1, <2>3, <2>4, <2>5 DEF FrameInv, Running, CompletedFrameIsCommitted
<1>4. CASE Notify
  <2>1. exec[Streamer].pc = "notify" /\ exec'[Streamer] = IdleExec
    BY <1>0, <1>4 DEF Notify, End, TypeOK
  <2>2. exec[Streamer].outcome \in {"completed", "failed"}
    BY <1>0, <2>1 DEF OutcomeInv
  <2>3. CASE exec[Streamer].outcome = "failed"
    <3>1. Put(Streamer, "failed")
      BY <1>4, <2>3 DEF Notify
    <3>2. NothingTold /\ outcome # "completed"
      BY <2>1, <2>3 DEF FrameInv
    <3>3. /\ reader'.pc = reader.pc /\ reader'.last = reader.last
          /\ \A f : Told(f)' <=> Told(f) \/ f = "failed"
      BY <3>1, <3>2, PutTold DEF NothingTold, Frame
    <3>4. ~Told("completed")' /\ reader'.pc = "reading" /\ reader'.last \notin {"completed", "failed"}
      BY <3>2, <3>3 DEF NothingTold, Told
    <3> QED
      BY <1>1, <2>1, <3>2, <3>4 DEF FrameInv, Running, IdleExec, CompletedFrameIsCommitted
  <2>4. CASE exec[Streamer].outcome = "completed"
    <3>1. reader' = reader
      BY <1>4, <2>4 DEF Notify
    <3>2. Succeeds /\ outcome = "completed"
      BY <2>1, <2>4 DEF FrameInv
    <3>3. Told("completed")' /\ ~Told("failed")'
      BY <3>1, <3>2 DEF Succeeds, Told
    <3> QED
      BY <1>1, <2>1, <3>1, <3>2, <3>3 DEF FrameInv, Running, IdleExec, CompletedFrameIsCommitted, Succeeds
  <2> QED
    BY <2>2, <2>3, <2>4
<1> QED
  BY <1>2, <1>3, <1>4 DEF StreamMoves

LEMMA FrameReader ==
  ASSUME TypeInv, FrameInv, ReaderMoves
  PROVE  FrameInv'
<1> USE DEF TypeInv
<1>0. Streamer \in Execs
  BY DEF Execs
<1>1. outcome' = outcome /\ silent' = silent
  BY DEF ReaderMoves, NextFrame, TaskAwaited, ReaderLeaves, ApiDies, ghosts
<1>2. CASE NextFrame
  <2>1. exec' = exec /\ reader.pc = "reading" /\ reader.last \notin {"completed", "failed"}
    BY <1>2 DEF NextFrame, FrameInv
  <2>2. PICK q \in Seq(Frame) : q = reader.queue /\ q # <<>>
    BY <1>2 DEF NextFrame, TypeOK
  <2>3. reader'.last = Head(q) /\ reader'.pc = IF IsTerminal(Head(q)) THEN "await" ELSE "reading"
    BY <1>2, <2>2 DEF NextFrame
  <2>4. (Told("completed")' <=> Told("completed")) /\ (Told("failed")' <=> Told("failed"))
    BY <1>2, <2>1, ReadTold
  <2>5. /\ reader'.pc \in {"reading", "await"}
        /\ reader'.pc = "reading" => reader'.last \notin {"completed", "failed"}
        /\ reader'.pc = "await" => reader'.last \in {"completed", "failed"}
    BY <2>3 DEF IsTerminal
  <2>6. NothingTold => NothingTold'
    <3>1. SUFFICES ASSUME NothingTold PROVE NothingTold'
      OBVIOUS
    <3>2. ~Told("completed")' /\ ~Told("failed")'
      BY <2>4, <3>1 DEF NothingTold
    <3>3. reader'.last \notin {"completed", "failed"}
      BY <3>2 DEF Told
    <3> QED
      BY <2>5, <3>2, <3>3 DEF NothingTold
  <2>7. Succeeds => Succeeds'
    BY <2>4, <2>5 DEF Succeeds
  <2> QED
    BY <1>1, <2>1, <2>4, <2>5, <2>6, <2>7 DEF FrameInv, Running, CompletedFrameIsCommitted
<1>3. CASE TaskAwaited
  <2>1. /\ exec' = exec /\ reader.pc = "await" /\ ~Running(Streamer)
        /\ reader' = [reader EXCEPT !.pc = IF silent THEN "raised" ELSE "done"]
    BY <1>3 DEF TaskAwaited
  <2>2. /\ reader'.last = reader.last
        /\ silent => reader'.pc = "raised"
        /\ ~silent => reader'.pc = "done"
    BY <2>1 DEF TypeOK
  <2>3. reader.last \in {"completed", "failed"}
    BY <2>1 DEF FrameInv
  <2>4. ~silent => (reader.last = "completed" <=> outcome = "completed")
    <3>1. SUFFICES ASSUME ~silent PROVE reader.last = "completed" <=> outcome = "completed"
      OBVIOUS
    <3>2. ~(Told("completed") /\ Told("failed")) /\ (Told("completed") <=> outcome = "completed")
      BY <2>1, <3>1 DEF FrameInv
    <3>3. Told(reader.last)
      BY DEF Told
    <3> QED
      BY <2>3, <3>2, <3>3
  <2>5. CompletedFrameIsCommitted'
    BY <1>1, <2>2, <2>4 DEF CompletedFrameIsCommitted
  <2>6. exec[Streamer].pc = "idle"
    BY <2>1 DEF Running
  <2>7. reader'.pc \in {"raised", "done"}
    BY <2>2
  <2> QED
    BY <2>1, <2>5, <2>6, <2>7 DEF FrameInv, Running
<1>4. CASE ReaderLeaves \/ ApiDies
  <2>1. exec'[Streamer] = IdleExec
    BY <1>0, <1>4 DEF ReaderLeaves, ApiDies, TypeOK
  <2>2. (reader' = reader /\ reader.pc = "idle") \/ reader'.pc = "gone"
    BY <1>4 DEF ReaderLeaves, ApiDies, TypeOK
  <2> QED
    BY <1>1, <2>1, <2>2 DEF FrameInv, Running, IdleExec, CompletedFrameIsCommitted
<1> QED
  BY <1>2, <1>3, <1>4 DEF ReaderMoves

LEMMA FrameStep == TypeInv /\ FrameInv /\ [Next]_vars => FrameInv'
<1> SUFFICES ASSUME TypeInv, FrameInv, [Next]_vars PROVE FrameInv'
  OBVIOUS
<1>0. Streamer \in Execs /\ Streamer \notin Workers
  BY RunEventsAssumption DEF Execs
<1>1. CASE \E w \in Workers : WorkerMoves(w)
  <2>1. PICK w \in Workers : WorkerMoves(w)
    BY <1>1
  <2>2. w # Streamer /\ w \in Execs
    BY <1>0 DEF Execs
  <2>3. exec'[Streamer] = exec[Streamer]
    BY <1>0, <2>1, <2>2 DEF WorkerMoves, RunTask, ResumeTask, WorkerDies, BeginExecution, End, TypeInv, TypeOK
  <2>4. reader' = reader
    BY <2>1 DEF WorkerMoves, RunTask, ResumeTask, WorkerDies, readers
  <2>5. outcome' = outcome /\ silent' = silent
    BY <2>1 DEF WorkerMoves, RunTask, ResumeTask, WorkerDies, ghosts
  <2> QED
    BY <2>3, <2>4, <2>5, FrameQuiet
<1>2. CASE \E e \in Execs : ExecMoves(e)
  BY <1>2, FrameExec
<1>3. CASE StreamMoves
  BY <1>3, FrameStream
<1>4. CASE RunMoves
  <2>1. exec' = exec /\ reader' = reader
    BY <1>4 DEF RunMoves, CancelLoad, ResumeLoad, DeleteLoad, RequestLoad, CancelCommit, ResumeCommit,
                DeleteCommit, Recover, readers
  <2>2. outcome' = outcome /\ silent' = silent
    BY <1>4 DEF RunMoves, CancelLoad, ResumeLoad, DeleteLoad, RequestLoad, CancelCommit, ResumeCommit,
                DeleteCommit, Recover, ghosts
  <2> QED
    BY <2>1, <2>2, FrameQuiet
<1>5. CASE ReaderMoves
  BY <1>5, FrameReader
<1>6. CASE \E t \in Tails : TailMoves(t)
  <2>1. exec' = exec /\ reader' = reader
    BY <1>6 DEF TailMoves, OpenTail, Replay, Poll, Check, TailLeaves
  <2>2. outcome' = outcome /\ silent' = silent
    BY <1>6 DEF TailMoves, OpenTail, Replay, Poll, Check, TailLeaves, ghosts
  <2> QED
    BY <2>1, <2>2, FrameQuiet
<1>7. CASE UNCHANGED vars
  <2>1. exec' = exec /\ reader' = reader
    BY <1>7 DEF vars, readers
  <2>2. outcome' = outcome /\ silent' = silent
    BY <1>7 DEF vars, ghosts
  <2> QED
    BY <2>1, <2>2, FrameQuiet
<1> QED
  BY <1>1, <1>2, <1>3, <1>4, <1>5, <1>6, <1>7, Moves

LEMMA FrameInit == Init => FrameInv
<1> SUFFICES ASSUME Init PROVE FrameInv
  OBVIOUS
<1>1. exec[Streamer] = IdleExec /\ reader = [pc |-> "idle", queue |-> <<>>, last |-> None] /\ outcome = None
  BY DEF Init, Execs
<1> QED
  BY <1>1 DEF FrameInv, Running, IdleExec, CompletedFrameIsCommitted

(* When the answer of a streamed run ends without an error, its last frame  *)
(* was `completed` exactly when COMPLETED was committed                     *)
(* (CompletedFrameIsCommitted): the frame is put in the queue before the    *)
(* commit, by an execution that from then on either commits or raises.      *)
THEOREM LastFrameIsTrue == Spec => []CompletedFrameIsCommitted
<1>1. FrameInv => CompletedFrameIsCommitted
  BY DEF FrameInv
<1>2. Init => TypeInv /\ FrameInv
  BY TypeInit, FrameInit
<1>3. TypeInv /\ FrameInv /\ [Next]_vars => (TypeInv /\ FrameInv)'
  BY TypeStep, FrameStep
<1> QED
  BY <1>1, <1>2, <1>3, PTL DEF Spec
-----------------------------------------------------------------------------
(* What the reader of a streamed run waits for *)

TerminalQueued == \E i \in DOMAIN reader.queue : IsTerminal(reader.queue[i])

ServedInv ==
    reader.pc = "reading" => silent \/ Running(Streamer) \/ Told("completed") \/ Told("failed")

LEMMA ServedQuiet ==
  ASSUME ServedInv, exec'[Streamer] = exec[Streamer], reader' = reader, silent => silent'
  PROVE  ServedInv'
  BY DEF ServedInv, Running, Told

LEMMA ServedExec ==
  ASSUME TypeInv, FrameInv, ServedInv, NEW e \in Execs, ExecMoves(e)
  PROVE  ServedInv'
<1>0. exec[e] \in ExecRow
  BY DEF TypeInv, TypeOK, ExecRow
<1>1. CASE e # Streamer
  <2>1. exec'[Streamer] = exec[Streamer]
    BY <1>1 DEF ExecMoves, Emit, EngineRaises, EngineReturns, WorkflowDone, Refresh, Commit, Breaks,
                Ends, End, TypeInv, TypeOK, Execs
  <2>2. reader' = reader
    BY <1>1 DEF ExecMoves, Emit, EngineRaises, EngineReturns, WorkflowDone, Refresh, Commit, Breaks,
                Put, readers
  <2>3. silent => silent'
    BY DEF ExecMoves, Emit, EngineRaises, EngineReturns, WorkflowDone, Refresh, Commit, Breaks, ghosts
  <2> QED
    BY <2>1, <2>2, <2>3, ServedQuiet
<1>2. CASE e = Streamer
  <2>1. CASE Breaks(e)
    <3>1. silent' = (silent \/ e = Streamer)
      BY <2>1 DEF Breaks
    <3> QED
      BY <1>2, <3>1 DEF ServedInv
  <2>2. CASE Emit(e) \/ EngineRaises(e) \/ EngineReturns(e) \/ WorkflowDone(e)
    <3>1. exec'[e].pc \in {"run", "refresh"}
      BY <1>0, <2>2 DEF Emit, EngineRaises, EngineReturns, WorkflowDone, Ends, TypeInv, TypeOK, ExecRow
    <3> QED
      BY <1>2, <3>1 DEF ServedInv, Running
  <2>3. CASE Commit(e)
    <3>1. exec'[e].pc = "notify"
      BY <1>0, <1>2, <2>3 DEF Commit, TypeInv, TypeOK, ExecRow
    <3> QED
      BY <1>2, <3>1 DEF ServedInv, Running
(* a completion holds the row, and a failure still has its frame to put *)
  <2>4. CASE Refresh(e)
    <3>1. exec[e].pc = "refresh" /\ exec[e].outcome \in {"completed", "failed"}
      BY <1>0, <2>4 DEF Refresh, TypeInv, OutcomeInv
    <3>2. exec' = [exec EXCEPT ![e].pc = "commit"] \/ exec' = [exec EXCEPT ![e].pc = "notify"]
      <4>1. CASE exec[e].outcome = "completed"
        <5>1. HoldsRow
          BY <1>2, <3>1, <4>1 DEF HoldsRow
        <5> QED
          BY <1>2, <2>4, <5>1 DEF Refresh
      <4>2. CASE exec[e].outcome = "failed"
        BY <1>2, <2>4, <4>2, Zenon DEF Refresh
      <4> QED
        BY <3>1, <4>1, <4>2
    <3>3. exec'[e].pc \in {"commit", "notify"}
      BY <1>0, <3>2 DEF TypeInv, TypeOK, ExecRow
    <3> QED
      BY <1>2, <3>3 DEF ServedInv, Running
  <2> QED
    BY <2>1, <2>2, <2>3, <2>4 DEF ExecMoves
<1> QED
  BY <1>1, <1>2

LEMMA ServedStream ==
  ASSUME TypeInv, FrameInv, ServedInv, StreamMoves
  PROVE  ServedInv'
<1>0. Streamer \in Execs /\ exec[Streamer] \in ExecRow
  BY DEF Execs, TypeInv, TypeOK, ExecRow
<1>1. CASE OpenStream
  <2>1. exec'[Streamer].pc = "queued"
    BY <1>0, <1>1 DEF OpenStream, TypeInv, TypeOK
  <2> QED
    BY <2>1 DEF ServedInv, Running
<1>2. CASE StartStream
  <2>1. exec'[Streamer].pc = "run"
    BY <1>0, <1>2, Begins DEF StartStream, TypeInv
  <2> QED
    BY <2>1 DEF ServedInv, Running
<1>3. CASE Notify
  <2>1. exec[Streamer].pc = "notify" /\ exec[Streamer].outcome \in {"completed", "failed"}
    BY <1>0, <1>3 DEF Notify, TypeInv, OutcomeInv
  <2>2. CASE exec[Streamer].outcome = "failed"
    <3>1. Put(Streamer, "failed") /\ NothingTold
      BY <1>3, <2>1, <2>2 DEF Notify, FrameInv
    <3>2. Told("failed")'
      BY <3>1, PutTold DEF NothingTold, Frame, TypeInv
    <3> QED
      BY <3>2 DEF ServedInv
  <2>3. CASE exec[Streamer].outcome = "completed"
    <3>1. Succeeds /\ reader' = reader
      BY <1>3, <2>1, <2>3 DEF Notify, FrameInv
    <3> QED
      BY <3>1 DEF ServedInv, Succeeds, Told
  <2> QED
    BY <2>1, <2>2, <2>3
<1> QED
  BY <1>1, <1>2, <1>3 DEF StreamMoves

LEMMA ServedReader ==
  ASSUME TypeInv, FrameInv, ServedInv, ReaderMoves
  PROVE  ServedInv'
<1>1. CASE NextFrame
  <2>1. exec' = exec /\ silent' = silent /\ reader.pc = "reading"
    BY <1>1 DEF NextFrame, ghosts
  <2>2. (Told("completed")' <=> Told("completed")) /\ (Told("failed")' <=> Told("failed"))
    BY <1>1, <2>1, ReadTold DEF FrameInv, TypeInv
  <2> QED
    BY <2>1, <2>2 DEF ServedInv, Running
<1>2. CASE TaskAwaited
  <2>1. reader'.pc \in {"raised", "done"}
    BY <1>2 DEF TaskAwaited, TypeInv, TypeOK
  <2> QED
    BY <2>1 DEF ServedInv
<1>3. CASE ReaderLeaves \/ ApiDies
  <2>1. reader'.pc \in {"idle", "gone"}
    BY <1>3 DEF ReaderLeaves, ApiDies, TypeInv, TypeOK
  <2> QED
    BY <2>1 DEF ServedInv
<1> QED
  BY <1>1, <1>2, <1>3 DEF ReaderMoves

LEMMA ServedStep == TypeInv /\ FrameInv /\ ServedInv /\ [Next]_vars => ServedInv'
<1> SUFFICES ASSUME TypeInv, FrameInv, ServedInv, [Next]_vars PROVE ServedInv'
  OBVIOUS
<1>0. Streamer \in Execs /\ Streamer \notin Workers
  BY RunEventsAssumption DEF Execs
<1>1. ASSUME NEW w \in Workers, WorkerMoves(w) PROVE ServedInv'
  <2>1. w # Streamer /\ w \in Execs
    BY <1>0 DEF Execs
  <2>2. exec'[Streamer] = exec[Streamer]
    BY <1>0, <1>1, <2>1 DEF WorkerMoves, RunTask, ResumeTask, WorkerDies, BeginExecution, End, TypeInv, TypeOK
  <2>3. reader' = reader /\ silent' = silent
    BY <1>1 DEF WorkerMoves, RunTask, ResumeTask, WorkerDies, readers, ghosts
  <2> QED
    BY <2>2, <2>3, ServedQuiet
<1>2. CASE RunMoves
  <2>1. exec' = exec /\ reader' = reader /\ silent' = silent
    BY <1>2 DEF RunMoves, CancelLoad, ResumeLoad, DeleteLoad, RequestLoad, CancelCommit, ResumeCommit,
                DeleteCommit, Recover, readers, ghosts
  <2> QED
    BY <2>1, ServedQuiet
<1>3. ASSUME NEW t \in Tails, TailMoves(t) PROVE ServedInv'
  <2>1. exec' = exec /\ reader' = reader /\ silent' = silent
    BY <1>3 DEF TailMoves, OpenTail, Replay, Poll, Check, TailLeaves, ghosts
  <2> QED
    BY <2>1, ServedQuiet
<1>4. CASE UNCHANGED vars
  <2>1. exec' = exec /\ reader' = reader /\ silent' = silent
    BY <1>4 DEF vars, readers, ghosts
  <2> QED
    BY <2>1, ServedQuiet
<1> QED
  BY <1>1, <1>2, <1>3, <1>4, ServedExec, ServedStream, ServedReader, Moves

(* The reader of a streamed run never waits for a frame that cannot come:   *)
(* until an exception of the handler is lost, the execution is under way or *)
(* the frame that ends the answer is already in the queue.  With the        *)
(* fairness of FairSpec this is why the answer ends.                        *)
THEOREM ReaderIsServed ==
  Spec => [](reader.pc = "reading" => silent \/ Running(Streamer) \/ TerminalQueued)
<1>1. Init => TypeInv /\ FrameInv /\ ServedInv
  BY TypeInit, FrameInit DEF Init, ServedInv
<1>2. TypeInv /\ FrameInv /\ ServedInv /\ [Next]_vars => (TypeInv /\ FrameInv /\ ServedInv)'
  BY TypeStep, FrameStep, ServedStep
<1>3. FrameInv /\ ServedInv => (reader.pc = "reading" => silent \/ Running(Streamer) \/ TerminalQueued)
  <2> SUFFICES ASSUME FrameInv, ServedInv, reader.pc = "reading", ~silent, ~Running(Streamer)
               PROVE  TerminalQueued
    OBVIOUS
  <2>1. PICK f \in {"completed", "failed"} : Told(f) /\ reader.last # f
    BY DEF FrameInv, ServedInv
  <2> QED
    BY <2>1 DEF Told, TerminalQueued, IsTerminal
<1> QED
  BY <1>1, <1>2, <1>3, PTL DEF Spec
=============================================================================
