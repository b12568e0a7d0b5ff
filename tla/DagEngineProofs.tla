--------------------------- MODULE DagEngineProofs ---------------------------
(***************************************************************************)
(* Proofs about DagEngine for any steps, graphs, conditions and executors. *)
(* Inv carries the order of the steps: the loop never raises "Deadlock     *)
(* detected in DAG", and the engine implements the abstract schedule.      *)
(* TypeInv and RecordInv carry what an execution records, and SoloInv what *)
(* the rows of a run are as long as its executions do not overlap.         *)
(***************************************************************************)
EXTENDS DagEngine, TLAPS

(* the sets and the step of an execution; what it records plays no part     *)
SetsOK ==
    /\ pc \in [Executors -> {"idle", "round", "gather", "persist", "done", "raised"}]
    /\ pending \in [Executors -> SUBSET Steps]
    /\ settled \in [Executors -> SUBSET Steps]
    /\ flight \in [Executors -> SUBSET Steps]

(* A step of a running execution is pending, settled or in flight, and      *)
(* pending ones are neither of the others.  Outside gather and persist nothing is in *)
(* flight.                                                                  *)
Accounted(x) ==
    /\ pc[x] \in {"round", "gather", "persist"} =>
            /\ Valid
            /\ pending[x] \cup settled[x] \cup flight[x] = Steps
    /\ pending[x] \cap (settled[x] \cup flight[x]) = {}
    /\ pc[x] \in {"idle", "round", "done"} => flight[x] = {}
    /\ pc[x] = "idle" => settled[x] = {} /\ pending[x] = {}

Inv == SetsOK /\ \A x \in Executors : Accounted(x)

-----------------------------------------------------------------------------
LEMMA InvInit == Init => Inv
  BY DEF Init, Inv, SetsOK, Accounted

LEMMA InvStep == Inv /\ [Next]_vars => Inv'
<1> SUFFICES ASSUME Inv, [Next]_vars PROVE Inv'
  OBVIOUS
<1> USE DEF Inv, SetsOK, Accounted, At, GoTo, graph, round, Valid, CycleFound
<1>1. ASSUME NEW x \in Executors, Begin(x) PROVE Inv'
  BY <1>1 DEF Begin, CommittedSteps
<1>2. ASSUME NEW x \in Executors, Dispatch(x) PROVE Inv'
  BY <1>2 DEF Dispatch, Popped, Ready, Skipped, Unblocked
<1>3. ASSUME NEW x \in Executors, Gather(x) PROVE Inv'
  BY <1>3 DEF Gather
<1>4. ASSUME NEW x \in Executors, Persist(x) PROVE Inv'
  BY <1>4 DEF Persist
<1>5. ASSUME NEW x \in Executors, Process(x) PROVE Inv'
  BY <1>5 DEF Process
<1>6. ASSUME NEW x \in Executors, Finish(x) PROVE Inv'
  BY <1>6 DEF Finish
<1>7. ASSUME NEW x \in Executors, Close(x) PROVE Inv'
  BY <1>7 DEF Close
<1>8. CASE Cancel \/ Resume
  BY <1>8 DEF Cancel, Resume
<1>9. CASE UNCHANGED vars
  BY <1>9 DEF vars
<1> QED
  BY <1>1, <1>2, <1>3, <1>4, <1>5, <1>6, <1>7, <1>8, <1>9
  DEF Next, ExecutionStep, CommitComplete, FailWithError, Commit, Crash

(* Steps that all wait for one another would be a cycle, and detect_cycles  *)
(* has refused those: some pending step is always unblocked.                *)
THEOREM NeverDeadlocked == Spec => []NeverStuck
<1>1. Inv => NeverStuck
  <2> SUFFICES ASSUME Inv, NEW x \in Executors, At(x, "round"), pending[x] # {}, Unblocked(x) = {}
               PROVE  FALSE
    BY DEF NeverStuck
  <2>1. /\ Valid /\ pending[x] \cup settled[x] = Steps /\ pending[x] \in SUBSET Steps
    BY DEF Inv, SetsOK, Accounted, At
  <2>2. \A s \in pending[x] : deps[s] \cap pending[x] # {}
    BY <2>1 DEF Unblocked, Valid
  <2> QED
    BY <2>1, <2>2 DEF Valid, CycleFound, HasCycle, Cycle
<1> QED
  BY <1>1, InvInit, InvStep, PTL DEF Spec

-----------------------------------------------------------------------------
(* Every step of the engine is a step of the schedule, or leaves it alone:  *)
(* Begin starts an execution, Dispatch chooses, Process lands, and a        *)
(* commit, a failure or a crash stops it.                                   *)
LEMMA ScheduleStep == Inv /\ [Next]_vars => [Schedule!Next]_(Schedule!vars)
<1> SUFFICES ASSUME Inv, [Next]_vars PROVE [Schedule!Next]_(Schedule!vars)
  OBVIOUS
<1> DEFINE active == [x \in Executors |-> pc[x] # "idle"]
<1> USE DEF Inv, SetsOK, At, GoTo
<1>1. ASSUME NEW x \in Executors, Begin(x) PROVE \E former \in SUBSET Steps : Schedule!Start(x, former)
  <2>1. settled[x] = {} /\ ~active[x]
    BY <1>1 DEF Accounted, Begin
  <2>2. active' = [active EXCEPT ![x] = TRUE]
    BY <1>1 DEF Begin
  <2>3. \E former \in SUBSET Steps : settled' = [settled EXCEPT ![x] = former]
    <3>1. CASE Valid
      BY <1>1, <3>1 DEF Begin, CommittedSteps
    <3>2. CASE ~Valid
      <4>1. settled' = [settled EXCEPT ![x] = {}]
        BY <1>1, <3>2, <2>1 DEF Begin
      <4> QED
        BY <4>1
    <3> QED
      BY <3>1, <3>2
  <2>4. deps' = deps /\ flight' = flight
    BY <1>1 DEF Begin, graph, round
  <2> QED
    BY <2>1, <2>2, <2>3, <2>4 DEF Schedule!Start
<1>2. ASSUME NEW x \in Executors, Dispatch(x) PROVE Schedule!Choose(x, Ready(x), Skipped(x))
  <2>1. active[x] /\ active' = active
    BY <1>2 DEF Dispatch
  <2>2. flight[x] = {} /\ pending[x] \cap settled[x] = {}
    BY <1>2 DEF Dispatch, Accounted
  <2>3. \A s \in Ready(x) \cup Skipped(x) : Schedule!Eligible(x, s)
    BY <2>2 DEF Ready, Skipped, Unblocked, Schedule!Eligible
  <2>4. Ready(x) \cap Skipped(x) = {}
    BY DEF Ready, Skipped
  <2>5. /\ flight' = [flight EXCEPT ![x] = Ready(x)]
        /\ settled' = [settled EXCEPT ![x] = settled[x] \cup Skipped(x)]
        /\ deps' = deps
    BY <1>2 DEF Dispatch, graph
  <2> QED
    BY <2>1, <2>2, <2>3, <2>4, <2>5 DEF Schedule!Choose
<1>3. ASSUME NEW x \in Executors, Process(x) PROVE Schedule!Land(x)
  <2>1. active[x] /\ active' = active
    BY <1>3 DEF Process
  <2> QED
    BY <1>3, <2>1 DEF Process, graph, Schedule!Land
<1>4. ASSUME NEW x \in Executors, ~At(x, "idle"), Close(x) PROVE Schedule!Stop(x)
  <2>1. active[x] /\ active' = [active EXCEPT ![x] = FALSE]
    BY <1>4 DEF Close
  <2> QED
    BY <1>4, <2>1 DEF Close, graph, Schedule!Stop
<1>5. ASSUME NEW x \in Executors, Gather(x) \/ Persist(x) \/ Finish(x) PROVE UNCHANGED Schedule!vars
  <2>1. active' = active /\ deps' = deps /\ settled' = settled /\ flight' = flight
    BY <1>5 DEF Gather, Persist, Finish, graph, round
  <2> QED
    BY <2>1 DEF Schedule!vars
<1>6. CASE Cancel \/ Resume \/ UNCHANGED vars
  BY <1>6 DEF Cancel, Resume, vars, graph, round, Schedule!vars
<1>7. \A x \in Executors : Ready(x) \in SUBSET Steps /\ Skipped(x) \in SUBSET Steps
  BY DEF Ready, Skipped, Unblocked
<1> QED
  BY <1>1, <1>2, <1>3, <1>4, <1>5, <1>6, <1>7
  DEF Next, ExecutionStep, CommitComplete, FailWithError, Commit, Crash, Schedule!Next

(* An execution settles its steps in the order the schedule promises: each  *)
(* once, after its dependencies, and one group after the other.             *)
THEOREM ImplementsSchedule == Spec => FollowsSchedule
<1>1. Init => Schedule!Init
  BY DEF Init, Schedule!Init
<1> QED
  BY <1>1, InvInit, InvStep, ScheduleStep, PTL DEF Spec, FollowsSchedule, Schedule!Spec

-----------------------------------------------------------------------------
(* What an execution records                                               *)

(* the step runs of a step that an execution sees: committed or its own     *)
Held(x, s) == Range(rows[s]) \cup Range(staged[x][s])

(* The persist loop goes through the round that gather ran, and what        *)
(* gather gave has a value for just the steps of that round.  An idle       *)
(* executor holds nothing.                                                  *)
RoundOK(x) ==
    /\ todo[x] \subseteq flight[x]
    /\ pc[x] \notin {"persist", "raised"} => todo[x] = {}
    /\ pc[x] = "persist" => \A s \in Steps :
            IF s \in flight[x] THEN results[x][s] \in Outcomes ELSE results[x][s] = "none"
    /\ pc[x] = "idle" => staged[x] = NoRows /\ failed[x] = {}

TypeInv == TypeOK /\ \A x \in Executors : RoundOK(x)

(* What was executed is held by the execution, up to the result the persist *)
(* loop has reached.                                                        *)
Recording(x) ==
    pc[x] \in {"round", "gather", "persist", "done"} =>
        /\ \A s \in Steps : outputs[x][s] # "none" => Held(x, s) \cap Outputs # {}
        /\ \A s \in failed[x] : Held(x, s) # {}
        /\ pc[x] = "persist" => \A s \in flight[x] \ todo[x] :
                /\ Held(x, s) # {}
                /\ Completed(results[x][s]) => Held(x, s) \cap Outputs # {}
        /\ pc[x] = "done" => settled[x] = Steps /\ ~TerminalsFailed(x)

(* A step in flight was chosen when what it depends on was settled.         *)
Given(x) ==
    /\ flight[x] \cap settled[x] = {}
    /\ \A s \in flight[x] : deps[s] \subseteq settled[x]

RowsOfStep == {<<>>, <<"failed">>, <<"failed", "failed">>}
                \cup {<<o>> : o \in Outputs} \cup {<<"failed", o>> : o \in Outputs}

(* With one execution at a time its outputs are the ones it holds, it       *)
(* executes no step that was completed, and it flushes one step run of a    *)
(* step, after the step left the pending ones and its turn in the loop.     *)
Alone(x) == \A y \in Executors : pc[x] # "idle" /\ pc[y] # "idle" => x = y

FreshSteps(x) == \A s \in pending[x] \cup flight[x] : Range(rows[s]) \cap Outputs = {}

FlushedOnce(x) ==
    \A s \in Steps : staged[x][s] # <<>> =>
        /\ s \notin pending[x]
        /\ s \in flight[x] => pc[x] \in {"persist", "raised"} /\ s \notin todo[x]
        /\ \E o \in Outcomes : staged[x][s] = <<o>>
        /\ rows[s] \in {<<>>, <<"failed">>}

HoldsOutputs(x) ==
    pc[x] \in {"round", "gather", "persist", "done"} => \A s \in Steps :
        /\ outputs[x][s] # "none" => outputs[x][s] \in Held(x, s)
        /\ pc[x] = "persist" /\ s \in flight[x] \ todo[x] /\ Completed(results[x][s]) =>
                results[x][s] \in Held(x, s)

Solo(x) == Alone(x) /\ (pc[x] # "idle" => FreshSteps(x) /\ FlushedOnce(x) /\ HoldsOutputs(x))

SoloInv == ~shared => (\A s \in Steps : rows[s] \in RowsOfStep) /\ \A x \in Executors : Solo(x)

RecordInv == \A x \in Executors : Recording(x) /\ Given(x)

-----------------------------------------------------------------------------
LEMMA RangeAppend == ASSUME NEW S, NEW q \in Seq(S), NEW e \in S
                     PROVE  /\ Append(q, e) \in Seq(S)
                            /\ Range(Append(q, e)) = Range(q) \cup {e}
                            /\ q = <<>> => Append(q, e) = <<e>>
<1>1. DOMAIN Append(q, e) = 1..(Len(q) + 1) /\ DOMAIN q = 1..Len(q) /\ Len(q) \in Nat
  OBVIOUS
<1>2. \A i \in 1..Len(q) : Append(q, e)[i] = q[i]
  OBVIOUS
<1>3. Append(q, e)[Len(q) + 1] = e
  OBVIOUS
<1>4. 1..(Len(q) + 1) = (1..Len(q)) \cup {Len(q) + 1}
  BY <1>1
<1>5. Range(Append(q, e)) = Range(q) \cup {e}
  BY <1>1, <1>2, <1>3, <1>4 DEF Range
<1>6. q = <<>> => Append(q, e) = <<e>>
  OBVIOUS
<1> QED
  BY <1>5, <1>6

LEMMA RangeConcat == ASSUME NEW S, NEW q \in Seq(S), NEW r \in Seq(S)
                     PROVE  /\ q \o r \in Seq(S)
                            /\ Range(q \o r) = Range(q) \cup Range(r)
                            /\ (q \o r # <<>>) <=> (Range(q) \cup Range(r) # {})
                            /\ r = <<>> => q \o r = q
                            /\ q = <<>> => q \o r = r
<1> DEFINE m == Len(q)  n == Len(r)  c == q \o r
<1>1. m \in Nat /\ n \in Nat /\ DOMAIN q = 1..m /\ DOMAIN r = 1..n /\ DOMAIN c = 1..(m + n)
  OBVIOUS
<1>2. c \in Seq(S) /\ Len(c) = m + n
  OBVIOUS
<1>3. \A i \in 1..m : c[i] = q[i] /\ i \in 1..(m + n)
  OBVIOUS
<1>4. \A i \in 1..n : c[m + i] = r[i] /\ m + i \in 1..(m + n)
  OBVIOUS
<1>5. \A i \in 1..(m + n) : i \in 1..m \/ \E j \in 1..n : i = m + j
  <2> SUFFICES ASSUME NEW i \in 1..(m + n), i \notin 1..m PROVE \E j \in 1..n : i = m + j
    OBVIOUS
  <2>1. i - m \in 1..n /\ i = m + (i - m)
    BY <1>1
  <2> QED
    BY <2>1
<1> HIDE DEF m, n, c
<1>6. Range(c) = Range(q) \cup Range(r)
  <2>1. Range(c) \subseteq Range(q) \cup Range(r)
    <3> SUFFICES ASSUME NEW i \in 1..(m + n) PROVE c[i] \in Range(q) \cup Range(r)
      BY <1>1 DEF Range
    <3>1. CASE i \in 1..m
      BY <3>1, <1>1, <1>3 DEF Range
    <3>2. ASSUME NEW j \in 1..n, i = m + j PROVE c[i] \in Range(r)
      BY <3>2, <1>1, <1>4 DEF Range
    <3> QED
      BY <3>1, <3>2, <1>5
  <2>2. Range(q) \subseteq Range(c) /\ Range(r) \subseteq Range(c)
    BY <1>1, <1>3, <1>4 DEF Range
  <2> QED
    BY <2>1, <2>2
<1>7. c = <<>> <=> Range(c) = {}
  <2>1. Range(c) = {} <=> m + n = 0
    <3>1. 1..(m + n) = {} <=> m + n = 0
      BY <1>1
    <3>2. Range(c) = {} <=> 1..(m + n) = {}
      BY <1>1 DEF Range
    <3> QED
      BY <3>1, <3>2
  <2>2. c = <<>> <=> Len(c) = 0
    BY <1>2
  <2> QED
    BY <2>1, <2>2, <1>2
<1>8. r = <<>> => q \o r = q
  OBVIOUS
<1>9. q = <<>> => q \o r = r
  OBVIOUS
<1> QED
  BY <1>2, <1>6, <1>7, <1>8, <1>9 DEF c

-----------------------------------------------------------------------------
LEMMA TypeInit == Init => TypeInv
<1>1. 0 \in 0..MaxExecutions
  BY DagAssumption
<1>2. <<>> \in Seq(Outcomes)
  OBVIOUS
<1>3. NoRows \in [Steps -> Seq(Outcomes)]
  BY <1>2 DEF NoRows
<1>4. Init => NoOutputs \in [Steps -> Outputs \cup {"none"}] /\ NoOutputs \in [Steps -> Outcomes \cup {"none"}]
  BY DEF NoOutputs
<1>5. Init => shared \in BOOLEAN
  BY DEF Init
<1>6. Init => TypeOK
  BY <1>1, <1>3, <1>4, <1>5 DEF Init, TypeOK
<1> QED
  BY <1>6 DEF Init, TypeInv, RoundOK

LEMMA TypeStep == TypeInv /\ [Next]_vars => TypeInv'
<1> SUFFICES ASSUME TypeInv, [Next]_vars PROVE TypeInv'
  OBVIOUS
<1> USE DEF TypeInv, TypeOK, RoundOK, At, GoTo, graph, round
<1>1. ASSUME NEW x \in Executors, Begin(x) PROVE TypeInv'
  <2>1. begun' \in 0..MaxExecutions
    BY <1>1, DagAssumption DEF Begin
  <2>0. shared' \in BOOLEAN
    BY <1>1 DEF Begin
  <2>2. CASE Valid
    <3>1. PICK out \in CommittedOutputs : outputs' = [outputs EXCEPT ![x] = out]
      BY <1>1, <2>2 DEF Begin
    <3>2. out \in [Steps -> Outputs \cup {"none"}] /\ CommittedSteps \in SUBSET Steps
      BY <3>1 DEF CommittedOutputs, CommittedSteps
    <3> QED
      <4>1. TypeOK'
        <5>1. /\ pending' = [pending EXCEPT ![x] = Steps \ CommittedSteps]
              /\ settled' = [settled EXCEPT ![x] = CommittedSteps]
              /\ pc' = [pc EXCEPT ![x] = "round"]
              /\ UNCHANGED <<deps, cond, status, rows, failed, flight, results, todo, staged>>
          BY <1>1, <2>2 DEF Begin
        <5> QED
          BY <2>0, <2>1, <3>1, <3>2, <5>1
      <4>2. ASSUME NEW y \in Executors PROVE RoundOK(y)'
        BY <1>1, <2>2 DEF Begin
      <4> QED
        BY <4>1, <4>2
  <2>3. CASE ~Valid
    <3>1. TypeOK'
      <4>1. /\ pc' = [pc EXCEPT ![x] = "raised"]
            /\ UNCHANGED <<deps, cond, status, rows, pending, settled, outputs, failed, flight, results, todo, staged>>
        BY <1>1, <2>3 DEF Begin
      <4> QED
        BY <2>0, <2>1, <4>1
    <3>2. ASSUME NEW y \in Executors PROVE RoundOK(y)'
      BY <1>1, <2>3 DEF Begin
    <3> QED
      BY <3>1, <3>2
  <2> QED
    BY <2>2, <2>3
<1>2. ASSUME NEW x \in Executors, Dispatch(x) PROVE TypeInv'
  <2>1. Ready(x) \subseteq pending[x] /\ Skipped(x) \subseteq pending[x] /\ Popped(x) \subseteq pending[x]
    BY DEF Popped, Ready, Skipped, Unblocked
  <2>2. PICK next : pc' = [pc EXCEPT ![x] = next] /\ next \in {"gather", "round", "raised"}
    BY <1>2 DEF Dispatch
  <2>3. /\ pending' = [pending EXCEPT ![x] = @ \ Popped(x)]
        /\ settled' = [settled EXCEPT ![x] = @ \cup Skipped(x)]
        /\ flight' = [flight EXCEPT ![x] = Ready(x)]
        /\ UNCHANGED <<deps, cond, status, rows, begun, shared, outputs, failed, results, todo, staged>>
        /\ pc[x] = "round"
    BY <1>2 DEF Dispatch
  <2>4. TypeOK'
    BY <2>1, <2>2, <2>3
  <2>5. ASSUME NEW y \in Executors PROVE RoundOK(y)'
    BY <2>1, <2>2, <2>3
  <2> QED
    BY <2>4, <2>5
<1>3. ASSUME NEW x \in Executors, Gather(x) PROVE TypeInv'
  BY <1>3 DEF Gather
<1>4. ASSUME NEW x \in Executors, Persist(x) PROVE TypeInv'
  <2>1. PICK s \in todo[x] :
        /\ todo' = [todo EXCEPT ![x] = @ \ {s}]
        /\ IF Len(Visible(x, s)) > 1
           THEN GoTo(x, "raised") /\ UNCHANGED staged
           ELSE /\ UNCHANGED pc
                /\ staged' = IF Recorded(x, s) THEN staged
                             ELSE [staged EXCEPT ![x][s] = Append(@, results[x][s])]
    BY <1>4 DEF Persist
  <2>2. s \in Steps /\ results[x][s] \in Outcomes
    BY <1>4 DEF Persist
  <2>3. Append(staged[x][s], results[x][s]) \in Seq(Outcomes)
    BY <2>2, RangeAppend
  <2>4. staged' \in [Executors -> [Steps -> Seq(Outcomes)]]
    <3>1. [staged EXCEPT ![x][s] = Append(@, results[x][s])] \in [Executors -> [Steps -> Seq(Outcomes)]]
      <4>1. PICK q \in Seq(Outcomes) : q = Append(staged[x][s], results[x][s])
        BY <2>3
      <4>2. [staged[x] EXCEPT ![s] = q] \in [Steps -> Seq(Outcomes)]
        BY <2>2
      <4>3. [staged EXCEPT ![x][s] = Append(@, results[x][s])] = [staged EXCEPT ![x] = [staged[x] EXCEPT ![s] = q]]
        BY <4>1
      <4> QED
        BY <4>2, <4>3
    <3>2. staged' \in {staged, [staged EXCEPT ![x][s] = Append(@, results[x][s])]}
      BY <2>1
    <3> QED
      BY <3>1, <3>2
  <2>5. CASE Len(Visible(x, s)) > 1
    <3>1. TypeOK'
      <4>1. /\ pc' = [pc EXCEPT ![x] = "raised"]
            /\ UNCHANGED <<deps, cond, status, rows, begun, shared, pending, settled, outputs, failed, flight, results, staged>>
        BY <1>4, <2>1, <2>5 DEF Persist
      <4> QED
        BY <2>1, <4>1
    <3>2. ASSUME NEW y \in Executors PROVE RoundOK(y)'
      BY <1>4, <2>1, <2>5 DEF Persist
    <3> QED
      BY <3>1, <3>2
  <2>6. CASE ~(Len(Visible(x, s)) > 1)
    <3>1. TypeOK'
      BY <1>4, <2>1, <2>4, <2>6 DEF Persist
    <3>2. ASSUME NEW y \in Executors PROVE RoundOK(y)'
      BY <1>4, <2>1, <2>6 DEF Persist
    <3> QED
      BY <3>1, <3>2
  <2> QED
    BY <2>5, <2>6
<1>5. ASSUME NEW x \in Executors, Process(x) PROVE TypeInv'
  BY <1>5 DEF Process, Produced, Completed, NoOutputs
<1>6. ASSUME NEW x \in Executors, Finish(x) PROVE TypeInv'
  BY <1>6 DEF Finish
<1>7. ASSUME NEW x \in Executors, Close(x), rows' \in [Steps -> Seq(Outcomes)],
             status' \in {"running", "completed", "failed", "canceled"}
      PROVE  TypeInv'
  BY <1>7 DEF Close, NoOutputs, NoRows
<1>8. ASSUME NEW x \in Executors, Publish(x) PROVE rows' \in [Steps -> Seq(Outcomes)]
  BY <1>8, RangeConcat DEF Publish
<1>9. CASE Cancel \/ Resume
  BY <1>9 DEF Cancel, Resume
<1>10. CASE UNCHANGED vars
  BY <1>10 DEF vars
<1> QED
  BY <1>1, <1>2, <1>3, <1>4, <1>5, <1>6, <1>7, <1>8, <1>9, <1>10
  DEF Next, ExecutionStep, CommitComplete, FailWithError, Commit, Crash

(* Type correctness for any steps, graphs, conditions and executors: what   *)
(* the persist loop records is the outcome of an executed step.             *)
THEOREM TypeCorrect == Spec => []TypeOK
<1>1. TypeInv => TypeOK
  BY DEF TypeInv
<1> QED
  BY <1>1, TypeInit, TypeStep, PTL DEF Spec

-----------------------------------------------------------------------------
(* What is held stays held, and an execution is changed by its own steps.   *)
Slot(x) == <<pc[x], pending[x], settled[x], outputs[x], failed[x], flight[x], results[x], todo[x]>>

LEMMA RecordedHeld == ASSUME TypeOK, NEW x \in Executors, NEW s \in Steps
                      PROVE  /\ Range(Visible(x, s)) = Held(x, s)
                             /\ Recorded(x, s) <=> Held(x, s) \cap Outputs # {}
<1>1. rows[s] \in Seq(Outcomes) /\ staged[x][s] \in Seq(Outcomes)
  BY DEF TypeOK
<1>2. Range(Visible(x, s)) = Held(x, s)
  BY <1>1, RangeConcat DEF Visible, Held
<1> QED
  BY <1>2 DEF Recorded, Completed, Range

(* Publish adds to the rows of a step what the execution flushed for it     *)
LEMMA RowsGrow == ASSUME TypeOK, NEW x \in Executors, Publish(x), NEW s \in Steps
                  PROVE  Range(rows'[s]) = Held(x, s)
<1>1. rows[s] \in Seq(Outcomes) /\ staged[x][s] \in Seq(Outcomes)
  BY DEF TypeOK
<1>2. rows'[s] = rows[s] \o staged[x][s]
  BY DEF Publish
<1> QED
  BY <1>1, <1>2, RangeConcat DEF Held

LEMMA SlotKept == ASSUME NEW x \in Executors, UNCHANGED <<graph, Slot(x)>>, Recording(x), Given(x),
                         \A s \in Steps : Held(x, s) \subseteq Held(x, s)', failed[x] \subseteq Steps,
                         flight[x] \subseteq Steps
                  PROVE  Recording(x)' /\ Given(x)'
<1>1. Terminal' = Terminal
  BY DEF graph, Terminal
<1>2. TerminalsFailed(x)' <=> TerminalsFailed(x)
  BY <1>1 DEF Slot, TerminalsFailed
<1>3. Given(x)'
  BY DEF Given, Slot, graph
<1>4. Recording(x)'
  BY <1>2 DEF Recording, Slot, Completed
<1> QED
  BY <1>3, <1>4

(* one turn of the persist loop: the result of the step is recorded, unless *)
(* it was before, or the second step run of the step is found               *)
LEMMA PersistTurn ==
    ASSUME TypeInv, NEW x \in Executors, Persist(x)
    PROVE  \E s \in todo[x] :
        /\ s \in Steps /\ results[x][s] \in Outcomes
        /\ todo' = [todo EXCEPT ![x] = @ \ {s}]
        /\ \/ Len(Visible(x, s)) > 1 /\ GoTo(x, "raised") /\ UNCHANGED staged
           \/ Recorded(x, s) /\ UNCHANGED <<pc, staged>>
           \/ /\ ~(Len(Visible(x, s)) > 1) /\ ~Recorded(x, s) /\ UNCHANGED pc
              /\ \A y \in Executors, r \in Steps : ~(y = x /\ r = s) => staged'[y][r] = staged[y][r]
              /\ Append(staged[x][s], results[x][s]) \in Seq(Outcomes)
              /\ staged'[x][s] = Append(staged[x][s], results[x][s])
              /\ Held(x, s)' = Held(x, s) \cup {results[x][s]}
<1>1. PICK s \in todo[x] :
        /\ todo' = [todo EXCEPT ![x] = @ \ {s}]
        /\ IF Len(Visible(x, s)) > 1
           THEN GoTo(x, "raised") /\ UNCHANGED staged
           ELSE /\ UNCHANGED pc
                /\ staged' = IF Recorded(x, s) THEN staged
                             ELSE [staged EXCEPT ![x][s] = Append(@, results[x][s])]
  BY DEF Persist
<1>2. s \in Steps /\ results[x][s] \in Outcomes
  BY DEF Persist, At, TypeInv, TypeOK, RoundOK
<1>3. CASE Len(Visible(x, s)) > 1
  BY <1>1, <1>2, <1>3
<1>4. CASE ~(Len(Visible(x, s)) > 1) /\ Recorded(x, s)
  BY <1>1, <1>2, <1>4
<1>5. CASE ~(Len(Visible(x, s)) > 1) /\ ~Recorded(x, s)
  <2>1. UNCHANGED <<pc, rows>> /\ staged' = [staged EXCEPT ![x][s] = Append(@, results[x][s])]
    BY <1>1, <1>5 DEF Persist
  <2>3. staged \in [Executors -> [Steps -> Seq(Outcomes)]]
    BY DEF TypeInv, TypeOK
  <2>2. PICK p : p = Append(staged[x][s], results[x][s])
    OBVIOUS
  <2>4. staged' = [staged EXCEPT ![x][s] = p]
    BY <2>1, <2>2
  <2>8. /\ staged'[x][s] = p
        /\ \A y \in Executors, r \in Steps : ~(y = x /\ r = s) => staged'[y][r] = staged[y][r]
    BY <2>3, <2>4, <1>2
  <2>5. PICK q \in Seq(Outcomes), e \in Outcomes : q = staged[x][s] /\ e = results[x][s]
    BY <2>3, <1>2
  <2>6. Append(q, e) \in Seq(Outcomes) /\ Range(Append(q, e)) = Range(q) \cup {e}
    BY RangeAppend
  <2>7. Held(x, s)' = Held(x, s) \cup {results[x][s]}
    BY <2>1, <2>2, <2>8, <2>5, <2>6 DEF Held
  <2> QED
    BY <1>1, <1>2, <1>5, <2>1, <2>2, <2>8, <2>5, <2>6, <2>7
<1> QED
  BY <1>3, <1>4, <1>5

(* What an execution holds, it holds until it ends.                         *)
LEMMA HeldStays ==
    ASSUME TypeInv, [Next]_vars, NEW y \in Executors, pc'[y] # "idle", NEW s \in Steps
    PROVE  Held(y, s) \subseteq Held(y, s)'
<1> USE DEF Held
<1>1. ASSUME NEW x \in Executors, Begin(x) \/ Dispatch(x) \/ Gather(x) \/ Process(x) \/ Finish(x)
      PROVE  UNCHANGED <<rows, staged>>
  BY <1>1 DEF Begin, Dispatch, Gather, Process, Finish
<1>2. ASSUME NEW x \in Executors, Persist(x) PROVE Held(y, s) \subseteq Held(y, s)'
  <2>1. UNCHANGED rows /\ staged \in [Executors -> [Steps -> Seq(Outcomes)]]
    BY <1>2 DEF Persist, TypeInv, TypeOK
  <2>2. PICK t \in todo[x] :
        \/ UNCHANGED staged
        \/ /\ \A z \in Executors, r \in Steps : ~(z = x /\ r = t) => staged'[z][r] = staged[z][r]
           /\ Held(x, t)' = Held(x, t) \cup {results[x][t]}
    BY <1>2, PersistTurn DEF GoTo
  <2>3. CASE y = x /\ s = t
    BY <2>1, <2>2, <2>3
  <2>4. CASE ~(y = x /\ s = t)
    <3>1. staged'[y][s] = staged[y][s]
      BY <2>1, <2>2, <2>4
    <3> QED
      BY <2>1, <3>1
  <2> QED
    BY <2>3, <2>4
<1>3. ASSUME NEW x \in Executors, Close(x), Publish(x) \/ UNCHANGED rows PROVE Held(y, s) \subseteq Held(y, s)'
  <2>1. staged'[y] = staged[y]
    BY <1>3 DEF Close, GoTo, TypeInv, TypeOK
  <2>2. Range(rows[s]) \subseteq Range(rows'[s])
    BY <1>3, RowsGrow DEF TypeInv
  <2> QED
    BY <2>1, <2>2
<1>4. CASE Cancel \/ Resume \/ UNCHANGED vars
  BY <1>4 DEF Cancel, Resume, vars
<1> QED
  BY <1>1, <1>2, <1>3, <1>4 DEF Next, ExecutionStep, CommitComplete, FailWithError, Commit, Crash

-----------------------------------------------------------------------------
Acts(x) == Begin(x) \/ ExecutionStep(x) \/ Crash(x)

(* A step of one executor, or of none, leaves the slots of the others.      *)
LEMMA OthersKept ==
    ASSUME TypeInv, NEW x \in Executors, Acts(x), NEW y \in Executors, y # x
    PROVE  UNCHANGED <<graph, Slot(y)>>
<1> USE DEF TypeInv, TypeOK, Slot, GoTo, graph, round
<1>1. CASE Begin(x)
  <2>1. CASE Valid
    BY <1>1, <2>1 DEF Begin
  <2>2. CASE ~Valid
    BY <1>1, <2>2 DEF Begin
  <2> QED
    BY <2>1, <2>2
<1>2. CASE Dispatch(x)
  BY <1>2 DEF Dispatch
<1>3. CASE Gather(x)
  BY <1>3 DEF Gather
<1>4. CASE Persist(x)
  <2>1. PICK s \in todo[x] :
        /\ todo' = [todo EXCEPT ![x] = @ \ {s}]
        /\ GoTo(x, "raised") \/ UNCHANGED pc
    BY <1>4 DEF Persist
  <2> QED
    BY <1>4, <2>1 DEF Persist
<1>5. CASE Process(x)
  BY <1>5 DEF Process
<1>6. CASE Finish(x)
  BY <1>6 DEF Finish
<1>7. CASE Close(x)
  BY <1>7 DEF Close
<1> QED
  BY <1>1, <1>2, <1>3, <1>4, <1>5, <1>6, <1>7
  DEF Acts, ExecutionStep, CommitComplete, FailWithError, Commit, Crash

LEMMA CanceledOrResumed ==
    ASSUME Cancel \/ Resume \/ UNCHANGED vars, NEW y
    PROVE  UNCHANGED <<graph, Slot(y), rows, staged, shared>>
BY DEF Cancel, Resume, vars, graph, round, Slot

LEMMA RecordInit == Init => RecordInv
BY DEF Init, RecordInv, Recording, Given

(* the executor's own step                                                  *)
LEMMA OwnRecord ==
    ASSUME Inv, TypeInv, NEW x \in Executors, Recording(x), Given(x), Acts(x),
           \A s \in Steps : pc'[x] # "idle" => Held(x, s) \subseteq Held(x, s)'
    PROVE  Recording(x)' /\ Given(x)'
<1> DEFINE live == pc'[x] \in {"round", "gather", "persist", "done"}
<1>0. /\ pc \in [Executors -> {"idle", "round", "gather", "persist", "done", "raised"}]
      /\ outputs \in [Executors -> [Steps -> Outputs \cup {"none"}]]
      /\ failed \in [Executors -> SUBSET Steps] /\ flight \in [Executors -> SUBSET Steps]
      /\ settled \in [Executors -> SUBSET Steps] /\ pending \in [Executors -> SUBSET Steps]
      /\ todo \in [Executors -> SUBSET Steps]
      /\ results \in [Executors -> [Steps -> Outcomes \cup {"none"}]]
      /\ staged \in [Executors -> [Steps -> Seq(Outcomes)]]
  BY DEF TypeInv, TypeOK
<1> USE DEF At, GoTo, graph, round
<1>1. CASE Begin(x)
  <2>1. flight[x] = {} /\ failed[x] = {} /\ UNCHANGED <<deps, rows, staged, flight, failed>>
    BY <1>1 DEF Begin, Inv, Accounted, TypeInv, RoundOK
  <2>2. Given(x)'
    BY <2>1 DEF Given
  <2>3. CASE Valid
    <3>1. PICK out \in CommittedOutputs : outputs' = [outputs EXCEPT ![x] = out]
      BY <1>1, <2>3 DEF Begin
    <3>2. ASSUME NEW s \in Steps, out[s] # "none" PROVE Range(rows[s]) \cap Outputs # {}
      <4>1. s \in CommittedSteps
        BY <3>2 DEF CommittedOutputs
      <4> QED
        BY <4>1 DEF CommittedSteps, Completed, Range
    <3>3. pc'[x] = "round" /\ outputs'[x] = out
      BY <1>1, <2>3, <1>0, <3>1 DEF Begin
    <3> QED
      BY <2>1, <2>2, <3>2, <3>3 DEF Recording, Held
  <2>4. CASE ~Valid
    BY <1>1, <1>0, <2>2, <2>4 DEF Begin, Recording
  <2> QED
    BY <2>3, <2>4
<1>2. CASE Dispatch(x)
  <2>1. pc'[x] \in {"round", "gather", "raised"} /\ UNCHANGED <<deps, rows, staged, outputs, failed>>
    BY <1>2, <1>0 DEF Dispatch
  <2>2. Recording(x)'
    BY <1>2, <2>1 DEF Recording, Held, Dispatch
  <2>3. /\ flight'[x] = Ready(x) /\ settled'[x] = settled[x] \cup Skipped(x)
        /\ Ready(x) \cap settled[x] = {}
    BY <1>2, <1>0 DEF Dispatch, Inv, Accounted, Ready, Unblocked
  <2>4. Given(x)'
    BY <2>1, <2>3 DEF Given, Ready, Skipped, Unblocked
  <2> QED
    BY <2>2, <2>4
<1>3. CASE Gather(x)
  <2>1. pc'[x] = "persist" /\ todo'[x] = flight[x] /\ UNCHANGED <<deps, rows, staged, outputs, failed, flight, settled>>
    BY <1>3, <1>0 DEF Gather
  <2> QED
    BY <1>3, <2>1 DEF Gather, Recording, Given, Held
<1>4. CASE Persist(x)
  <2>1. UNCHANGED <<deps, rows, outputs, failed, flight, settled, results>> /\ pc[x] = "persist"
    BY <1>4 DEF Persist
  <2>2. Given(x)'
    BY <2>1 DEF Given
  <2>3. PICK s \in todo[x] :
        /\ s \in Steps /\ results[x][s] \in Outcomes
        /\ todo' = [todo EXCEPT ![x] = @ \ {s}]
        /\ \/ GoTo(x, "raised")
           \/ Recorded(x, s) /\ UNCHANGED <<pc, staged>>
           \/ UNCHANGED pc /\ Held(x, s)' = Held(x, s) \cup {results[x][s]}
    BY <1>4, PersistTurn
  <2>4. CASE GoTo(x, "raised")
    BY <2>2, <2>4, <1>0 DEF Recording
  <2>5. CASE UNCHANGED pc /\ (Recorded(x, s) \/ Held(x, s)' = Held(x, s) \cup {results[x][s]})
    <3>1. todo'[x] = todo[x] \ {s}
      BY <2>3, <1>0
    <3>2. \A r \in Steps : Held(x, r) \subseteq Held(x, r)'
      BY <2>1, <2>5
    <3>3. Held(x, s)' # {} /\ (Completed(results[x][s]) => Held(x, s)' \cap Outputs # {})
      <4>1. CASE Recorded(x, s)
        BY <4>1, <3>2, <2>3, RecordedHeld DEF TypeInv
      <4>2. CASE Held(x, s)' = Held(x, s) \cup {results[x][s]}
        BY <4>2 DEF Completed
      <4> QED
        BY <2>5, <4>1, <4>2
    <3>4. \A r \in flight[x] \ todo'[x] : r = s \/ r \in flight[x] \ todo[x]
      BY <3>1
    <3>5. \A r \in flight[x] : r \in Steps
      BY <1>0
    <3>6. \A r \in failed[x] : r \in Steps
      BY <1>0
    <3>7. \A r \in Steps : outputs[x][r] # "none" => Held(x, r)' \cap Outputs # {}
      BY <2>1, <3>2 DEF Recording
    <3>8. \A r \in failed[x] : Held(x, r)' # {}
      BY <2>1, <3>2, <3>6 DEF Recording
    <3>9. \A r \in flight[x] \ todo'[x] : Held(x, r)' # {} /\ (Completed(results[x][r]) => Held(x, r)' \cap Outputs # {})
      BY <2>1, <3>2, <3>3, <3>4, <3>5 DEF Recording
    <3> QED
      BY <2>1, <2>2, <2>5, <3>7, <3>8, <3>9 DEF Recording, Completed
  <2> QED
    BY <2>3, <2>4, <2>5
<1>5. CASE Process(x)
  <2>1. /\ pc[x] = "persist" /\ pc'[x] = "round" /\ todo[x] = {} /\ flight'[x] = {}
        /\ UNCHANGED <<deps, rows, staged>>
        /\ \A s \in Steps : outputs'[x][s] = Produced(x, s)
        /\ failed'[x] = failed[x] \cup {s \in flight[x] : results[x][s] = "failed"}
    BY <1>5, <1>0 DEF Process
  <2>2. Given(x)'
    BY <2>1 DEF Given
  <2>3. \A s \in Steps : s \notin flight[x] => ~Completed(results[x][s])
    BY <2>1 DEF TypeInv, RoundOK, Completed, Outputs
  <2>4. ASSUME NEW s \in Steps, outputs'[x][s] # "none" PROVE Held(x, s) \cap Outputs # {}
    BY <2>1, <2>3, <2>4 DEF Recording, Produced
  <2>5. \A s \in failed'[x] : Held(x, s) # {}
    BY <2>1 DEF Recording
  <2>6. \A s : Held(x, s)' = Held(x, s)
    BY <2>1 DEF Held
  <2> QED
    BY <2>1, <2>2, <2>4, <2>5, <2>6 DEF Recording
<1>6. CASE Finish(x)
  <2>1. /\ pc'[x] = (IF TerminalsFailed(x) THEN "raised" ELSE "done") /\ pc[x] = "round" /\ pending[x] = {}
        /\ UNCHANGED <<deps, rows, staged, outputs, failed, flight, settled, results, todo>>
    BY <1>6, <1>0 DEF Finish
  <2>2. settled[x] = Steps
    <3>1. Accounted(x)
      BY DEF Inv
    <3>2. pending[x] \cup settled[x] \cup flight[x] = Steps /\ flight[x] = {}
      BY <2>1, <3>1 DEF Accounted
    <3> QED
      BY <2>1, <3>2
  <2>3. TerminalsFailed(x)' <=> TerminalsFailed(x)
    BY <2>1 DEF TerminalsFailed, Terminal
  <2>4. \A s : Held(x, s)' = Held(x, s)
    BY <2>1 DEF Held
  <2>5. Given(x)'
    BY <2>1 DEF Given
  <2> QED
    BY <2>1, <2>2, <2>3, <2>4, <2>5 DEF Recording
<1>7. CASE Close(x)
  <2>1. pc'[x] = "idle" /\ flight'[x] = {}
    BY <1>7, <1>0 DEF Close
  <2> QED
    BY <2>1 DEF Recording, Given
<1> QED
  BY <1>1, <1>2, <1>3, <1>4, <1>5, <1>6, <1>7
  DEF Acts, ExecutionStep, CommitComplete, FailWithError, Commit, Crash

LEMMA RecordStep == Inv /\ TypeInv /\ RecordInv /\ [Next]_vars => RecordInv'
<1> SUFFICES ASSUME Inv, TypeInv, RecordInv, [Next]_vars, NEW y \in Executors
             PROVE  Recording(y)' /\ Given(y)'
  BY DEF RecordInv
<1>1. Recording(y) /\ Given(y) /\ failed[y] \subseteq Steps /\ flight[y] \subseteq Steps
  BY DEF RecordInv, TypeInv, TypeOK
<1>2. ASSUME NEW x \in Executors, Acts(x) PROVE Recording(y)' /\ Given(y)'
  <2>1. CASE x = y
    BY <1>1, <1>2, <2>1, OwnRecord, HeldStays
  <2>2. CASE x # y
    <3>1. UNCHANGED <<graph, Slot(y)>>
      BY <1>2, <2>2, OthersKept
    <3>2. CASE pc[y] = "idle"
      <4>1. pc'[y] = "idle" /\ UNCHANGED <<flight[y], settled[y], deps>>
        BY <3>1, <3>2 DEF Slot, graph
      <4> QED
        BY <4>1, <1>1 DEF Recording, Given
    <3>3. CASE pc[y] # "idle"
      <4>1. pc'[y] # "idle"
        BY <3>1, <3>3 DEF Slot
      <4> QED
        BY <1>1, <3>1, <4>1, SlotKept, HeldStays
    <3> QED
      BY <3>2, <3>3
  <2> QED
    BY <2>1, <2>2
<1>3. CASE Cancel \/ Resume \/ UNCHANGED vars
  <2>1. UNCHANGED <<graph, Slot(y), rows, staged>>
    BY <1>3, CanceledOrResumed
  <2>2. \A s : Held(y, s)' = Held(y, s)
    BY <2>1 DEF Held
  <2> QED
    BY <1>1, <2>1, <2>2, SlotKept
<1> QED
  BY <1>2, <1>3 DEF Next, Acts

(* What an execution did is recorded when its loop ends, whatever other     *)
(* executions of the run committed meanwhile.                               *)
THEOREM NothingLostWithCommit == Spec => []EverythingRecorded
<1>1. TypeInv /\ RecordInv => EverythingRecorded
  <2> SUFFICES ASSUME TypeInv, RecordInv, NEW x \in Executors, At(x, "done")
               PROVE  /\ settled[x] = Steps
                      /\ \A s \in Steps :
                          /\ outputs[x][s] # "none" =>
                                \E i \in DOMAIN rows[s] \cup DOMAIN staged[x][s] :
                                    \/ i \in DOMAIN rows[s] /\ Completed(rows[s][i])
                                    \/ i \in DOMAIN staged[x][s] /\ Completed(staged[x][s][i])
                          /\ s \in failed[x] => rows[s] \o staged[x][s] # <<>>
    BY DEF EverythingRecorded
  <2>1. Recording(x) /\ pc[x] = "done"
    BY DEF RecordInv, At
  <2>2. ASSUME NEW s \in Steps, outputs[x][s] # "none"
        PROVE  \E i \in DOMAIN rows[s] \cup DOMAIN staged[x][s] :
                  \/ i \in DOMAIN rows[s] /\ Completed(rows[s][i])
                  \/ i \in DOMAIN staged[x][s] /\ Completed(staged[x][s][i])
    <3>1. Held(x, s) \cap Outputs # {}
      BY <2>1, <2>2 DEF Recording
    <3> QED
      BY <3>1 DEF Held, Range, Completed
  <2>3. ASSUME NEW s \in Steps, s \in failed[x] PROVE rows[s] \o staged[x][s] # <<>>
    <3>1. Held(x, s) # {}
      BY <2>1, <2>3 DEF Recording
    <3>2. rows[s] \in Seq(Outcomes) /\ staged[x][s] \in Seq(Outcomes)
      BY DEF TypeInv, TypeOK
    <3> QED
      BY <3>1, <3>2, RangeConcat DEF Held
  <2> QED
    BY <2>1, <2>2, <2>3 DEF Recording
<1> QED
  BY <1>1, InvInit, InvStep, TypeInit, TypeStep, RecordInit, RecordStep, PTL DEF Spec

-----------------------------------------------------------------------------
(* A step is executed after what it depends on was settled, and no later    *)
(* round changes what it was given.                                         *)
THEOREM StepsGivenWhatTheyDependOn == Spec => DependenciesFirst
<1> DEFINE A == \A x \in Executors : ~At(x, "idle") /\ pc'[x] # "idle" =>
                    /\ \A s \in flight'[x] : deps[s] \subseteq settled[x] \ flight'[x]
                    /\ \A s \in settled[x] : outputs'[x][s] = outputs[x][s]
<1>1. Inv /\ TypeInv /\ RecordInv /\ [Next]_vars => A
  <2> SUFFICES ASSUME Inv, TypeInv, RecordInv, [Next]_vars, NEW y \in Executors, ~At(y, "idle"), pc'[y] # "idle"
               PROVE  /\ \A s \in flight'[y] : deps[s] \subseteq settled[y] \ flight'[y]
                      /\ \A s \in settled[y] : outputs'[y][s] = outputs[y][s]
    OBVIOUS
  <2>0. /\ flight \in [Executors -> SUBSET Steps] /\ settled \in [Executors -> SUBSET Steps]
        /\ pending \in [Executors -> SUBSET Steps]
        /\ outputs \in [Executors -> [Steps -> Outputs \cup {"none"}]]
        /\ pc \in [Executors -> {"idle", "round", "gather", "persist", "done", "raised"}]
    BY DEF TypeInv, TypeOK
  <2>1. /\ flight[y] \cap settled[y] = {} /\ \A s \in flight[y] : deps[s] \subseteq settled[y]
    BY DEF RecordInv, Given
  <2>2. CASE UNCHANGED <<flight[y], outputs[y]>>
    BY <2>1, <2>2
  <2>3. CASE Dispatch(y)
    <3>1. /\ flight'[y] = Ready(y) /\ UNCHANGED outputs /\ pending[y] \cap settled[y] = {}
      BY <2>0, <2>3 DEF Dispatch, Inv, Accounted
    <3> QED
      BY <3>1 DEF Ready, Unblocked
  <2>4. CASE Process(y)
    <3>1. /\ flight'[y] = {} /\ \A s \in Steps : outputs'[y][s] = Produced(y, s)
          /\ pc[y] = "persist"
      BY <2>0, <2>4 DEF Process, At
    <3>2. ASSUME NEW s \in settled[y] PROVE outputs'[y][s] = outputs[y][s]
      <4>1. s \in Steps /\ s \notin flight[y]
        BY <2>0, <2>1
      <4>2. results[y][s] = "none"
        BY <3>1, <4>1 DEF TypeInv, RoundOK
      <4> QED
        BY <3>1, <4>1, <4>2 DEF Produced, Completed, Outputs
    <3> QED
      BY <3>1, <3>2
  <2>5. ASSUME NEW x \in Executors, Acts(x)
        PROVE  UNCHANGED <<flight[y], outputs[y]>> \/ Dispatch(y) \/ Process(y)
    <3>1. CASE x # y
      BY <2>5, <3>1, OthersKept DEF Slot
    <3>2. CASE x = y /\ Close(x)
      BY <2>0, <3>2 DEF Close, GoTo
    <3>3. CASE x = y /\ ~Close(x)
      BY <2>5, <3>3 DEF Acts, Begin, At, Gather, Persist, Finish, round, ExecutionStep, CommitComplete, FailWithError, Commit, Crash
    <3> QED
      BY <3>1, <3>2, <3>3
  <2>6. CASE Cancel \/ Resume \/ UNCHANGED vars
    BY <2>2, <2>6, CanceledOrResumed DEF Slot
  <2> QED
    BY <2>2, <2>3, <2>4, <2>5, <2>6 DEF Next, Acts
<1>2. Inv /\ TypeInv /\ RecordInv /\ [Next]_vars => [A]_vars
  BY <1>1
<1> QED
  BY <1>2, InvInit, InvStep, TypeInit, TypeStep, RecordInit, RecordStep, PTL DEF Spec, DependenciesFirst

-----------------------------------------------------------------------------
(* One execution at a time                                                  *)

LEMMA RowShapes == ASSUME NEW r \in RowsOfStep
                   PROVE  /\ Range(r) \cap Outputs = {} /\ ~(Len(r) > 1) => r \in {<<>>, <<"failed">>}
                          /\ r \in {<<>>, <<"failed">>} => \A o \in Outcomes : r \o <<o>> \in RowsOfStep
<1> USE DEF Outcomes, Outputs
<1>1. \A o : Range(<<o>>) = {o}
  BY DEF Range
<1>2. \A o, q : q = <<"failed", o>> => Len(q) > 1
  OBVIOUS
<1>3. ASSUME Range(r) \cap Outputs = {}, ~(Len(r) > 1) PROVE r \in {<<>>, <<"failed">>}
  BY <1>1, <1>2, <1>3 DEF RowsOfStep
<1>4. ASSUME r \in {<<>>, <<"failed">>}, NEW o \in Outcomes PROVE r \o <<o>> \in RowsOfStep
  <2>1. CASE r = <<>>
    <3>1. r \o <<o>> = <<o>>
      BY <2>1
    <3> QED
      BY <3>1 DEF RowsOfStep
  <2>2. CASE r = <<"failed">>
    <3>1. r \o <<o>> = <<"failed", o>>
      <4>0. PICK S : S = {"failed", o}
        OBVIOUS
      <4>1. <<"failed">> \in Seq(S) /\ Len(<<"failed">>) = 1 /\ <<"failed">>[1] = "failed"
        BY <4>0
      <4>2. <<o>> \in Seq(S) /\ Len(<<o>>) = 1 /\ <<o>>[1] = o
        BY <4>0
      <4>8. PICK u \in Seq(S), v \in Seq(S) : u = <<"failed">> /\ v = <<o>>
        BY <4>1, <4>2
      <4>3. PICK w \in Seq(S) : w = u \o v
        BY RangeConcat
      <4>4. Len(w) = 2
        BY <4>1, <4>2, <4>3, <4>8
      <4>5. w[1] = "failed"
        BY <4>1, <4>2, <4>3, <4>8
      <4>6. w[2] = o
        BY <4>1, <4>2, <4>3, <4>8
      <4>7. w = <<"failed", o>>
        BY <4>4, <4>5, <4>6
      <4> QED
        BY <2>2, <4>3, <4>7, <4>8
    <3> QED
      BY <3>1 DEF RowsOfStep
  <2> QED
    BY <1>4, <2>1, <2>2
<1> QED
  BY <1>3, <1>4

LEMMA SoloInit == Init => SoloInv
BY DEF Init, SoloInv, RowsOfStep, Solo, Alone, NoRows

LEMMA OwnSolo ==
    ASSUME Inv, TypeInv, NEW x \in Executors, Acts(x), pc[x] # "idle", pc'[x] # "idle",
           Solo(x), \A s \in Steps : rows[s] \in RowsOfStep
    PROVE  FreshSteps(x)' /\ FlushedOnce(x)' /\ HoldsOutputs(x)' /\ UNCHANGED rows
<1>0. /\ pc \in [Executors -> {"idle", "round", "gather", "persist", "done", "raised"}]
      /\ outputs \in [Executors -> [Steps -> Outputs \cup {"none"}]]
      /\ failed \in [Executors -> SUBSET Steps] /\ flight \in [Executors -> SUBSET Steps]
      /\ settled \in [Executors -> SUBSET Steps] /\ pending \in [Executors -> SUBSET Steps]
      /\ todo \in [Executors -> SUBSET Steps]
      /\ results \in [Executors -> [Steps -> Outcomes \cup {"none"}]]
      /\ staged \in [Executors -> [Steps -> Seq(Outcomes)]]
      /\ rows \in [Steps -> Seq(Outcomes)]
  BY DEF TypeInv, TypeOK
<1> USE DEF At, GoTo, graph, round
<1>s. FreshSteps(x) /\ FlushedOnce(x) /\ HoldsOutputs(x)
  BY DEF Solo
<1>h. UNCHANGED <<rows, staged>> => \A s : Held(x, s)' = Held(x, s)
  BY DEF Held
<1>1. CASE Dispatch(x)
  <2>1. /\ pc[x] = "round" /\ pc'[x] \in {"round", "gather", "raised"} /\ UNCHANGED <<rows, staged, outputs>>
        /\ pending'[x] = pending[x] \ Popped(x) /\ flight'[x] = Ready(x) /\ Ready(x) \subseteq Popped(x)
        /\ Popped(x) \subseteq pending[x]
    BY <1>1, <1>0 DEF Dispatch, Popped, Ready, Skipped, Unblocked
  <2>2. FreshSteps(x)'
    BY <1>s, <2>1 DEF FreshSteps
  <2>3. FlushedOnce(x)'
    BY <1>s, <2>1 DEF FlushedOnce
  <2>4. HoldsOutputs(x)'
    BY <1>s, <1>h, <2>1 DEF HoldsOutputs
  <2> QED
    BY <2>1, <2>2, <2>3, <2>4
<1>2. CASE Gather(x)
  <2>1. /\ pc[x] = "gather" /\ pc'[x] = "persist" /\ todo'[x] = flight[x]
        /\ UNCHANGED <<rows, staged, outputs, flight, pending>>
    BY <1>2, <1>0 DEF Gather
  <2>2. FreshSteps(x)'
    BY <1>s, <2>1 DEF FreshSteps
  <2>3. FlushedOnce(x)'
    BY <1>s, <2>1 DEF FlushedOnce
  <2>4. HoldsOutputs(x)'
    BY <1>s, <1>h, <2>1 DEF HoldsOutputs
  <2> QED
    BY <2>1, <2>2, <2>3, <2>4
<1>3. CASE Persist(x)
  <2>1. UNCHANGED <<rows, outputs, flight, pending, results>> /\ pc[x] = "persist"
    BY <1>3 DEF Persist
  <2>2. FreshSteps(x)'
    BY <1>s, <2>1 DEF FreshSteps
  <2>3. PICK s \in todo[x] :
        /\ s \in Steps /\ results[x][s] \in Outcomes
        /\ todo' = [todo EXCEPT ![x] = @ \ {s}]
        /\ \/ GoTo(x, "raised") /\ UNCHANGED staged
           \/ Recorded(x, s) /\ UNCHANGED <<pc, staged>>
           \/ /\ ~(Len(Visible(x, s)) > 1) /\ UNCHANGED pc
              /\ \A r \in Steps : r # s => staged'[x][r] = staged[x][r]
              /\ staged'[x][s] = Append(staged[x][s], results[x][s])
              /\ Held(x, s)' = Held(x, s) \cup {results[x][s]}
    BY <1>3, PersistTurn
  <2>4. todo'[x] = todo[x] \ {s} /\ s \in flight[x]
    BY <1>0, <2>3 DEF TypeInv, RoundOK
  <2>5. staged[x][s] = <<>> /\ Range(rows[s]) \cap Outputs = {} /\ s \notin pending[x]
    BY <1>s, <2>3, <2>4 DEF FlushedOnce, FreshSteps, Inv, Accounted
  <2>6. ~Recorded(x, s)
    <3>1. Range(staged[x][s]) = {}
      BY <2>5 DEF Range
    <3> QED
      BY <2>3, <2>5, <3>1, RecordedHeld DEF Held, TypeInv
  <2>7. CASE GoTo(x, "raised") /\ UNCHANGED staged
    <3>1. pc'[x] = "raised"
      BY <1>0, <2>7
    <3>2. FlushedOnce(x)'
      BY <1>s, <2>1, <2>4, <2>7, <3>1 DEF FlushedOnce
    <3> QED
      BY <2>1, <2>2, <3>1, <3>2 DEF HoldsOutputs
  <2>8. CASE /\ ~(Len(Visible(x, s)) > 1) /\ UNCHANGED pc
             /\ \A r \in Steps : r # s => staged'[x][r] = staged[x][r]
             /\ staged'[x][s] = Append(staged[x][s], results[x][s])
             /\ Held(x, s)' = Held(x, s) \cup {results[x][s]}
    <3>1. staged'[x][s] = <<results[x][s]>>
      BY <2>3, <2>5, <2>8, RangeAppend
    <3>2. Visible(x, s) = rows[s]
      BY <1>0, <2>3, <2>5, RangeConcat DEF Visible
    <3>3. rows[s] \in {<<>>, <<"failed">>}
      BY <2>3, <2>5, <2>8, <3>2, RowShapes
    <3>4. FlushedOnce(x)'
      <4> SUFFICES ASSUME NEW r \in Steps, staged'[x][r] # <<>>
                   PROVE  /\ r \notin pending[x]
                          /\ r \in flight[x] => pc'[x] \in {"persist", "raised"} /\ r \notin todo'[x]
                          /\ \E o \in Outcomes : staged'[x][r] = <<o>>
                          /\ rows[r] \in {<<>>, <<"failed">>}
        BY <2>1 DEF FlushedOnce
      <4>1. CASE r = s
        BY <2>1, <2>3, <2>4, <2>5, <2>8, <3>1, <3>3, <4>1
      <4>2. CASE r # s
        BY <1>s, <2>1, <2>4, <2>8, <4>2 DEF FlushedOnce
      <4> QED
        BY <4>1, <4>2
    <3>5. \A r \in Steps : Held(x, r) \subseteq Held(x, r)'
      BY <2>1, <2>8 DEF Held
    <3>6. HoldsOutputs(x)'
      BY <1>s, <2>1, <2>4, <2>8, <3>5 DEF HoldsOutputs, Completed
    <3> QED
      BY <2>1, <2>2, <3>4, <3>6
  <2> QED
    BY <2>3, <2>6, <2>7, <2>8
<1>4. CASE Process(x)
  <2>1. /\ pc[x] = "persist" /\ pc'[x] = "round" /\ todo[x] = {} /\ flight'[x] = {}
        /\ UNCHANGED <<rows, staged, pending>>
        /\ \A s \in Steps : outputs'[x][s] = Produced(x, s)
    BY <1>4, <1>0 DEF Process
  <2>2. FreshSteps(x)'
    BY <1>s, <2>1 DEF FreshSteps
  <2>3. FlushedOnce(x)'
    BY <1>s, <2>1 DEF FlushedOnce
  <2>4. \A s \in Steps : s \notin flight[x] => ~Completed(results[x][s])
    BY <2>1 DEF TypeInv, RoundOK, Completed, Outputs
  <2>5. HoldsOutputs(x)'
    BY <1>s, <1>h, <2>1, <2>4 DEF HoldsOutputs, Produced
  <2> QED
    BY <2>1, <2>2, <2>3, <2>5
<1>5. CASE Finish(x)
  <2>1. /\ pc[x] = "round" /\ pc'[x] \in {"raised", "done"}
        /\ UNCHANGED <<rows, staged, outputs, flight, todo, pending, results>>
    BY <1>5, <1>0 DEF Finish
  <2>2. FreshSteps(x)'
    BY <1>s, <2>1 DEF FreshSteps
  <2>3. FlushedOnce(x)'
    BY <1>s, <2>1 DEF FlushedOnce
  <2>4. HoldsOutputs(x)'
    BY <1>s, <1>h, <2>1 DEF HoldsOutputs
  <2> QED
    BY <2>1, <2>2, <2>3, <2>4
<1>6. ~Begin(x) /\ ~Close(x)
  BY <1>0 DEF Begin, Close
<1> QED
  BY <1>1, <1>2, <1>3, <1>4, <1>5, <1>6
  DEF Acts, ExecutionStep, CommitComplete, FailWithError, Commit, Crash

LEMMA SoloStep == Inv /\ TypeInv /\ SoloInv /\ [Next]_vars => SoloInv'
<1> SUFFICES ASSUME Inv, TypeInv, SoloInv, [Next]_vars, ~shared'
             PROVE  (\A s \in Steps : rows[s] \in RowsOfStep)' /\ \A y \in Executors : Solo(y)'
  BY DEF SoloInv
<1>0. /\ pc \in [Executors -> {"idle", "round", "gather", "persist", "done", "raised"}]
      /\ rows \in [Steps -> Seq(Outcomes)] /\ staged \in [Executors -> [Steps -> Seq(Outcomes)]]
  BY DEF TypeInv, TypeOK
<1>1. ASSUME NEW x \in Executors, Acts(x), ~Begin(x) PROVE UNCHANGED shared
  BY <1>1 DEF Acts, ExecutionStep, CommitComplete, FailWithError, Commit, Crash, Close,
              Dispatch, Gather, Persist, Process, Finish
<1>2. ASSUME NEW x \in Executors, Begin(x) PROVE ~shared /\ \A y \in Executors : pc[y] = "idle"
  BY <1>2 DEF Begin, At
<1>3. CASE Cancel \/ Resume \/ UNCHANGED vars
  <2>1. ASSUME NEW y \in Executors PROVE UNCHANGED <<Slot(y), rows, staged, shared>>
    BY <1>3, CanceledOrResumed
  <2>2. UNCHANGED <<rows, staged, shared>>
    BY <1>3, CanceledOrResumed
  <2>3. ASSUME NEW y \in Executors PROVE Solo(y)'
    <3>1. Solo(y)
      BY <2>2 DEF SoloInv
    <3>2. \A s : Held(y, s)' = Held(y, s)
      BY <2>2 DEF Held
    <3>3. UNCHANGED <<pc[y], pending[y], outputs[y], flight[y], results[y], todo[y]>> /\ \A z \in Executors : pc'[z] = pc[z]
      BY <2>1 DEF Slot
    <3> QED
      BY <3>1, <3>2, <3>3, <2>2 DEF Solo, Alone, FreshSteps, FlushedOnce, HoldsOutputs, Completed
  <2> QED
    BY <2>2, <2>3 DEF SoloInv
<1>4. ASSUME NEW x \in Executors, Begin(x) PROVE (\A s \in Steps : rows[s] \in RowsOfStep)' /\ \A y \in Executors : Solo(y)'
  <2>1. ~shared /\ (\A y \in Executors : pc[y] = "idle") /\ UNCHANGED <<rows, staged>>
    BY <1>2, <1>4 DEF Begin
  <2>2. \A y \in Executors : y # x => pc'[y] = "idle"
    <3> SUFFICES ASSUME NEW y \in Executors, y # x PROVE pc'[y] = "idle"
      OBVIOUS
    <3> QED
      BY <1>4, <2>1, OthersKept DEF Acts, Slot
  <2>3. staged[x] = NoRows /\ flight[x] = {} /\ UNCHANGED <<flight, todo>> /\ pending[x] = {}
    BY <1>4, <2>1 DEF Begin, TypeInv, RoundOK, Inv, Accounted, round
  <2>4. FlushedOnce(x)'
    BY <2>1, <2>3 DEF FlushedOnce, NoRows
  <2>5. FreshSteps(x)' /\ HoldsOutputs(x)'
    <3>1. CASE Valid
      <4>1. PICK out \in CommittedOutputs : outputs' = [outputs EXCEPT ![x] = out]
        BY <1>4, <3>1 DEF Begin
      <4>2. pc'[x] = "round" /\ outputs'[x] = out /\ pending'[x] = Steps \ CommittedSteps
        BY <1>0, <1>4, <3>1, <4>1 DEF Begin, GoTo, TypeInv, TypeOK
      <4>3. ASSUME NEW s \in Steps, out[s] # "none" PROVE out[s] \in Range(rows[s])
        BY <4>3 DEF CommittedOutputs
      <4>4. ASSUME NEW s \in Steps \ CommittedSteps PROVE Range(rows[s]) \cap Outputs = {}
        BY DEF CommittedSteps, Completed, Range
      <4> QED
        BY <2>1, <2>3, <4>2, <4>3, <4>4 DEF FreshSteps, HoldsOutputs, Held
    <3>2. CASE ~Valid
      <4>1. pc'[x] = "raised" /\ UNCHANGED pending
        BY <1>0, <1>4, <3>2 DEF Begin, GoTo
      <4> QED
        BY <2>3, <4>1 DEF FreshSteps, HoldsOutputs
    <3> QED
      BY <3>1, <3>2
  <2>6. \A y \in Executors : Alone(y)'
    BY <2>2 DEF Alone
  <2> QED
    BY <2>1, <2>2, <2>4, <2>5, <2>6 DEF Solo, SoloInv
<1>5. ASSUME NEW x \in Executors, Acts(x), ~Begin(x) PROVE (\A s \in Steps : rows[s] \in RowsOfStep)' /\ \A y \in Executors : Solo(y)'
  <2>1. ~shared /\ pc[x] # "idle"
    BY <1>1, <1>5 DEF Acts, At, ExecutionStep, CommitComplete, FailWithError, Commit, Crash,
              Dispatch, Gather, Persist, Process, Finish
  <2>2. (\A s \in Steps : rows[s] \in RowsOfStep) /\ \A y \in Executors : Solo(y)
    BY <2>1 DEF SoloInv
  <2>3. \A y \in Executors : y # x => pc[y] = "idle" /\ pc'[y] = "idle"
    <3> SUFFICES ASSUME NEW y \in Executors, y # x PROVE pc[y] = "idle" /\ pc'[y] = "idle"
      OBVIOUS
    <3>1. pc[y] = "idle"
      BY <2>1, <2>2 DEF Solo, Alone
    <3> QED
      BY <1>5, <3>1, OthersKept DEF Slot
  <2>4. \A y \in Executors : Alone(y)'
    BY <2>3 DEF Alone
  <2>5. CASE pc'[x] # "idle"
    <3>1. FreshSteps(x)' /\ FlushedOnce(x)' /\ HoldsOutputs(x)' /\ UNCHANGED rows
      BY <1>5, <2>1, <2>2, <2>5, OwnSolo
    <3> QED
      BY <2>2, <2>3, <2>4, <3>1 DEF Solo
  <2>6. CASE pc'[x] = "idle"
    <3>1. UNCHANGED rows \/ Publish(x)
      BY <1>5 DEF Acts, ExecutionStep, CommitComplete, FailWithError, Commit, Crash,
                  Dispatch, Gather, Persist, Process, Finish
    <3>2. ASSUME Publish(x), NEW s \in Steps PROVE rows'[s] \in RowsOfStep
      <4>1. rows'[s] = rows[s] \o staged[x][s]
        BY <3>2 DEF Publish
      <4>2. CASE staged[x][s] = <<>>
        BY <1>0, <2>2, <4>1, <4>2, RangeConcat
      <4>3. CASE staged[x][s] # <<>>
        <5>1. PICK o \in Outcomes : staged[x][s] = <<o>> /\ rows[s] \in {<<>>, <<"failed">>}
          BY <2>1, <2>2, <4>3 DEF Solo, FlushedOnce
        <5>2. rows[s] \in RowsOfStep
          BY <2>2
        <5> QED
          BY <4>1, <5>1, <5>2, RowShapes
      <4> QED
        BY <4>2, <4>3
    <3> QED
      BY <2>2, <2>3, <2>4, <2>6, <3>1, <3>2 DEF Solo
  <2> QED
    BY <2>5, <2>6
<1> QED
  BY <1>3, <1>4, <1>5 DEF Next, Acts

LEMMA Invariants == Spec => [](Inv /\ TypeInv /\ RecordInv /\ SoloInv)
BY InvInit, InvStep, TypeInit, TypeStep, RecordInit, RecordStep, SoloInit, SoloStep, PTL DEF Spec

(* With one execution at a time nothing is recorded of a step after its     *)
(* COMPLETED step run, and no third one.                                    *)
THEOREM OneResultPerStep == Spec => []OneCompletedRow
<1>1. SoloInv => OneCompletedRow
  BY DEF SoloInv, OneCompletedRow, RowsOfStep
<1> QED
  BY <1>1, Invariants, PTL

(* ... and a resume executes no step that is COMPLETED in the database.     *)
THEOREM ResumesAfterCommitted == Spec => []CommittedNotRerun
<1>1. Inv /\ SoloInv => CommittedNotRerun
  BY DEF Inv, Accounted, SoloInv, Solo, FreshSteps, CommittedNotRerun
<1> QED
  BY <1>1, Invariants, PTL

(* ... and what makes it COMPLETED is committed with it: the text of a      *)
(* terminal step, unless no terminal step failed.                           *)
THEOREM AnswerIsCommitted == Spec => CompletedHasAnswer
<1> DEFINE A == \A x \in Executors :
        ~shared /\ At(x, "done") /\ pc'[x] = "idle" /\ status' = "completed" /\ status # "completed" =>
        \/ \E s \in Terminal : "text" \in Range(rows'[s])
        \/ \A s \in Terminal : s \notin failed[x]
<1>1. Inv /\ TypeInv /\ RecordInv /\ SoloInv /\ [Next]_vars => A
  <2> SUFFICES ASSUME Inv, TypeInv, RecordInv, SoloInv, [Next]_vars, NEW y \in Executors, ~shared, At(y, "done"),
                      pc'[y] = "idle", status' = "completed", status # "completed",
                      \E s \in Terminal : s \in failed[y]
               PROVE  \E s \in Terminal : "text" \in Range(rows'[s])
    OBVIOUS
  <2>1. PICK s \in Terminal : outputs[y][s] = "text"
    BY DEF At, RecordInv, Recording, TerminalsFailed
  <2>2. s \in Steps
    BY DEF Terminal, Terminals
  <2>3. "text" \in Held(y, s)
    BY <2>1, <2>2 DEF At, SoloInv, Solo, HoldsOutputs
  <2>4. ASSUME NEW x \in Executors, Acts(x) PROVE Publish(x) /\ x = y
    <3>1. x = y
      BY <2>4, OthersKept DEF Slot, At
    <3>2. Publish(x)
      BY <2>4 DEF Acts, ExecutionStep, CommitComplete, FailWithError, Commit, Crash,
                  Begin, Dispatch, Gather, Persist, Process, Finish
    <3> QED
      BY <3>1, <3>2
  <2>5. CASE Cancel \/ Resume \/ UNCHANGED vars
    BY <2>5, CanceledOrResumed DEF Slot, At
  <2> QED
    BY <2>2, <2>3, <2>4, <2>5, RowsGrow DEF Next, Acts, TypeInv
<1>2. Inv /\ TypeInv /\ RecordInv /\ SoloInv /\ [Next]_vars => [A]_vars
  BY <1>1
<1>3. Spec => [][Next]_vars
  BY DEF Spec
<1> QED
  BY <1>2, <1>3, Invariants, PTL DEF CompletedHasAnswer
-----------------------------------------------------------------------------
(* How far an execution is from its end: the steps it has still to take,    *)
(* the stage of its round, and the results it has still to persist.         *)
Stage(x) ==
    CASE pc[x] = "gather"             -> 4
      [] pc[x] = "persist"            -> 3
      [] pc[x] = "round"              -> 2
      [] pc[x] \in {"done", "raised"} -> 1
      [] pc[x] = "idle"               -> 0

Smaller(S, T) == S \subseteq T /\ S # T

Advances(x) ==
    \/ pc'[x] = "idle"
    \/ Smaller(pending'[x], pending[x])
    \/ pending'[x] = pending[x] /\ Stage(x)' < Stage(x)
    \/ pending'[x] = pending[x] /\ Stage(x)' = Stage(x) /\ Smaller(todo'[x], todo[x])

LEMMA StepAdvances ==
  ASSUME Inv, TypeInv, NEW x \in Executors, ExecutionStep(x)
  PROVE  Advances(x)
<1> USE DEF Inv, SetsOK, At, GoTo
<1>1. CASE Dispatch(x)
  <2>1. pc[x] = "round" /\ pending'[x] = pending[x] \ Popped(x) /\ Popped(x) \subseteq pending[x]
    BY <1>1 DEF Dispatch, Popped, Ready, Skipped, Unblocked
  <2>2. CASE Popped(x) # {}
    BY <2>1, <2>2 DEF Advances, Smaller
  <2>3. CASE Popped(x) = {}
    <3>1. Ready(x) = {} /\ Skipped(x) = {}
      BY <2>3 DEF Popped
    <3>2. pc'[x] = "raised"
      BY <1>1, <3>1 DEF Dispatch
    <3> QED
      BY <2>1, <2>3, <3>2 DEF Advances, Stage
  <2> QED
    BY <2>2, <2>3
<1>2. CASE Gather(x)
  BY <1>2 DEF Gather, Advances, Stage
<1>3. CASE Persist(x)
  <2>1. PICK s \in todo[x] : /\ todo' = [todo EXCEPT ![x] = @ \ {s}]
                             /\ GoTo(x, "raised") \/ UNCHANGED pc
    BY <1>3 DEF Persist
  <2>2. pending'[x] = pending[x] /\ pc[x] = "persist"
    BY <1>3 DEF Persist
  <2>3. CASE GoTo(x, "raised")
    BY <2>2, <2>3 DEF Advances, Stage
  <2>4. CASE UNCHANGED pc
    <3>1. Smaller(todo'[x], todo[x])
      BY <2>1 DEF Smaller, TypeInv, TypeOK
    <3> QED
      BY <2>2, <2>4, <3>1 DEF Advances, Stage
  <2> QED
    BY <2>1, <2>3, <2>4
<1>4. CASE Process(x)
  BY <1>4 DEF Process, Advances, Stage
<1>5. CASE Finish(x)
  BY <1>5 DEF Finish, Advances, Stage
<1>6. CASE CommitComplete(x) \/ FailWithError(x)
  BY <1>6 DEF CommitComplete, FailWithError, Commit, Close, Advances
<1> QED
  BY <1>1, <1>2, <1>3, <1>4, <1>5, <1>6 DEF ExecutionStep

(* The loop of the engine cannot go round for ever: whatever the other      *)
(* executions and the user do, each step of an execution ends it, takes a   *)
(* step out of its pending ones, or brings the round it is in nearer to its *)
(* end.  With the fairness of FairSpec this is why an execution ends.       *)
THEOREM ExecutionAdvances ==
  Spec => [][\A x \in Executors : pc[x] # "idle" => Slot(x)' = Slot(x) \/ Advances(x)]_vars
<1> DEFINE A == \A x \in Executors : pc[x] # "idle" => Slot(x)' = Slot(x) \/ Advances(x)
<1>1. Inv /\ TypeInv /\ [Next]_vars => A
  <2> SUFFICES ASSUME Inv, TypeInv, [Next]_vars, NEW x \in Executors, pc[x] # "idle"
               PROVE  Slot(x)' = Slot(x) \/ Advances(x)
    OBVIOUS
  <2>1. CASE \E y \in Executors : Acts(y)
    <3>1. PICK y \in Executors : Acts(y)
      BY <2>1
    <3>2. CASE x = y
      <4>1. CASE Begin(x)
        BY <4>1 DEF Begin, At
      <4>2. CASE Crash(x)
        BY <4>2 DEF Crash, Close, GoTo, Advances, Inv, SetsOK
      <4>3. CASE ExecutionStep(x)
        BY <4>3, StepAdvances
      <4> QED
        BY <3>1, <3>2, <4>1, <4>2, <4>3 DEF Acts
    <3>3. CASE x # y
      BY <3>1, <3>3, OthersKept
    <3> QED
      BY <3>2, <3>3
  <2>2. CASE Cancel \/ Resume \/ UNCHANGED vars
    BY <2>2 DEF Cancel, Resume, vars, round, Slot
  <2> QED
    BY <2>1, <2>2 DEF Next, Acts
<1>2. Inv /\ TypeInv /\ [Next]_vars => [A]_vars
  BY <1>1
<1> QED
  BY <1>2, Invariants, PTL DEF Spec
=============================================================================
