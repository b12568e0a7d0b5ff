------------------------------ MODULE DagEngine ------------------------------
(***************************************************************************)
(* One workflow run through the DAG engine: rounds of ready steps that are *)
(* executed in parallel, steps skipped by their condition, step runs that  *)
(* are flushed in one transaction and committed with the outcome of the    *)
(* run, and the resumes that start again from what was committed.          *)
(* app/services/workflow/dag_engine.py, ai_executor.py and                 *)
(* app/repositories/workflow_step_runs.py.                                 *)
(*                                                                         *)
(* Which executions of a run start is decided in module WorkflowRuns; here *)
(* any idle executor may take a RUNNING run, so that what two executions   *)
(* of one run do to each other's rows is in the model too.  Every caller   *)
(* passes continue_on_error = True.                                        *)
(***************************************************************************)
EXTENDS Naturals, Sequences, Functions, StepGraph

CONSTANTS
    Steps,          \* the workflow's step ids, in step_order
    Executors,      \* processes that may execute the run
    Graphs,         \* the values of depends_on to consider
    Conditions,     \* the conditions to consider, see Holds
    MaxExecutions   \* bounds how often the run is begun

Outputs  == {"text", "empty"}          \* what a successful step returns
Outcomes == Outputs \cup {"failed"}

ASSUME DagAssumption ==
    /\ Steps \subseteq Nat \ {0}
    /\ \A g \in Graphs : DOMAIN g = Steps
    /\ \A c \in Conditions : DOMAIN c = Steps
    /\ MaxExecutions \in Nat

VARIABLES
    deps,      \* WorkflowStep.depends_on; may name a step that does not exist
    cond,      \* WorkflowStep.condition
    status,    \* committed status of the run
    rows,      \* committed workflow_step_runs of each step, oldest first
    begun,     \* executions begun so far
    shared,    \* two executions of the run were under way at once (history)
    pc,
    pending,   \* pending_steps
    settled,   \* completed_steps
    outputs,   \* completed_outputs, "none" where it has no entry
    failed,    \* failed_steps
    flight,    \* the steps of the round that gather executes
    results,   \* what they returned
    todo,      \* results the persist loop has not reached
    staged     \* step runs flushed in the execution's open transaction

graph == <<deps, cond>>
round == <<flight, results, todo>>
vars  == <<graph, status, rows, begun, shared, pc, pending, settled, outputs, failed, round, staged>>

NoRows    == [s \in Steps |-> <<>>]
NoOutputs == [s \in Steps |-> "none"]

Init ==
    /\ deps \in Graphs /\ cond \in Conditions
    /\ status = "running"
    /\ rows = NoRows
    /\ begun = 0 /\ shared = FALSE
    /\ pc = [x \in Executors |-> "idle"]
    /\ pending = [x \in Executors |-> {}]
    /\ settled = [x \in Executors |-> {}]
    /\ outputs = [x \in Executors |-> NoOutputs]
    /\ failed = [x \in Executors |-> {}]
    /\ flight = [x \in Executors |-> {}]
    /\ results = [x \in Executors |-> NoOutputs]
    /\ todo = [x \in Executors |-> {}]
    /\ staged = [x \in Executors |-> NoRows]

-----------------------------------------------------------------------------
(* Faulty forms of definitions below, for the mutation runs of the README *)

CycleFound_Never     == FALSE
Unblocked_Any(x)     == {s \in pending[x] : deps[s] = {} \/ deps[s] \cap settled[x] # {}}
Popped_Ready(x)    == {s \in pending[x] : deps[s] \subseteq settled[x]
                            /\ cond[s].want \in {"any", outputs[x][cond[s].on]}}
Skipped_Unblocked(x) == {s \in pending[x] : deps[s] \subseteq settled[x]}
CommittedSteps_First == {s \in Steps : rows[s] # <<>> /\ rows[s][1] \in Outputs}
Visible_Staged(x, s) == staged[x][s]
Recorded_Any(x, s)   == rows[s] \o staged[x][s] # <<>>
Produced_Any(x, s)   == IF s \in flight[x] THEN results[x][s] ELSE outputs[x][s]
TerminalsFailed_All(x) == Terminals(deps, Steps) \subseteq failed[x]

-----------------------------------------------------------------------------
(* The step graph *)

(* detect_cycles raises; module CycleDetection is its depth-first search *)
CycleFound == HasCycle(deps, Steps)

(* execute's checks before the first round *)
Valid == Steps # {} /\ (\A s \in Steps : deps[s] \subseteq Steps) /\ ~CycleFound

Terminal == Terminals(deps, Steps)

(* evaluate_condition: true without a condition (want "any"); otherwise the  *)
(* outputs known so far decide, whether or not they are the step's           *)
(* dependencies.  `outputs[n]` wants a text: it raises without the output,   *)
(* which counts as false.  `not (n in outputs)` wants no output.             *)
Holds(x, s) == cond[s].want \in {"any", outputs[x][cond[s].on]}

Unblocked(x) == {s \in pending[x] : deps[s] \subseteq settled[x]}
Ready(x)     == {s \in Unblocked(x) : Holds(x, s)}
Skipped(x)   == {s \in Unblocked(x) : ~Holds(x, s)}
Popped(x)    == Ready(x) \cup Skipped(x)

-----------------------------------------------------------------------------
(* Step runs *)

Completed(row) == row \in Outputs

(* list_completed_for_run *)
CommittedSteps == {s \in Steps : \E i \in DOMAIN rows[s] : Completed(rows[s][i])}

(* completed_outputs; which of two COMPLETED rows of a step comes last in    *)
(* the query's order is open                                                *)
CommittedOutputs ==
    {out \in [Steps -> Outputs \cup {"none"}] :
        \A s \in Steps : IF s \in CommittedSteps THEN out[s] \in Range(rows[s]) \cap Outputs
                         ELSE out[s] = "none"}

(* what get_step_run selects: committed rows and the transaction's own *)
Visible(x, s)  == rows[s] \o staged[x][s]
Recorded(x, s) == \E i \in DOMAIN Visible(x, s) : Completed(Visible(x, s)[i])

Publish(x) == rows' = [s \in Steps |-> rows[s] \o staged[x][s]]

-----------------------------------------------------------------------------
(* One execution *)

At(x, l)   == pc[x] = l
GoTo(x, l) == pc' = [pc EXCEPT ![x] = l]

Begin(x) ==
    /\ At(x, "idle") /\ status = "running" /\ begun < MaxExecutions
    /\ begun' = begun + 1
    /\ shared' = (shared \/ \E y \in Executors : ~At(y, "idle"))
    /\ IF Valid
       THEN /\ GoTo(x, "round")
            /\ pending' = [pending EXCEPT ![x] = Steps \ CommittedSteps]
            /\ settled' = [settled EXCEPT ![x] = CommittedSteps]
            /\ \E out \in CommittedOutputs : outputs' = [outputs EXCEPT ![x] = out]
       ELSE GoTo(x, "raised") /\ UNCHANGED <<pending, settled, outputs>>
    /\ UNCHANGED <<graph, status, rows, failed, round, staged>>

(* the head of the loop, up to gather *)
Dispatch(x) ==
    /\ At(x, "round") /\ pending[x] # {}
    /\ pending' = [pending EXCEPT ![x] = @ \ Popped(x)]
    /\ settled' = [settled EXCEPT ![x] = @ \cup Skipped(x)]
    /\ flight' = [flight EXCEPT ![x] = Ready(x)]
    /\ GoTo(x, CASE Ready(x) # {}                       -> "gather"
                 [] Ready(x) = {} /\ Skipped(x) # {}     -> "round"
                 [] Ready(x) = {} /\ Skipped(x) = {}     -> "raised")
    /\ UNCHANGED <<graph, status, rows, begun, shared, outputs, failed, results, todo, staged>>

(* asyncio.gather: every step of the round ends, after its retries *)
Gather(x) ==
    /\ At(x, "gather")
    /\ \E res \in [flight[x] -> Outcomes] :
            results' = [results EXCEPT ![x] =
                [s \in Steps |-> IF s \in flight[x] THEN res[s] ELSE "none"]]
    /\ todo' = [todo EXCEPT ![x] = flight[x]]
    /\ GoTo(x, "persist")
    /\ UNCHANGED <<graph, status, rows, begun, shared, pending, settled, outputs, failed, flight, staged>>

(* one turn of the persist loop; scalar_one_or_none raises on a second row *)
Persist(x) ==
    /\ At(x, "persist")
    /\ \E s \in todo[x] :
        /\ \A t \in todo[x] : s <= t
        /\ todo' = [todo EXCEPT ![x] = @ \ {s}]
        /\ IF Len(Visible(x, s)) > 1
           THEN GoTo(x, "raised") /\ UNCHANGED staged
           ELSE /\ UNCHANGED pc
                /\ staged' = IF Recorded(x, s)
                             THEN staged
                             ELSE [staged EXCEPT ![x][s] = Append(@, results[x][s])]
    /\ UNCHANGED <<graph, status, rows, begun, shared, pending, settled, outputs, failed, flight, results>>

(* a failed step leaves no entry in completed_outputs *)
Produced(x, s) == IF Completed(results[x][s]) THEN results[x][s] ELSE outputs[x][s]

Process(x) ==
    /\ At(x, "persist") /\ todo[x] = {}
    /\ settled' = [settled EXCEPT ![x] = @ \cup flight[x]]
    /\ outputs' = [outputs EXCEPT ![x] =
            [s \in Steps |-> Produced(x, s)]]
    /\ failed' = [failed EXCEPT ![x] = @ \cup {s \in flight[x] : results[x][s] = "failed"}]
    /\ flight' = [flight EXCEPT ![x] = {}]
    /\ results' = [results EXCEPT ![x] = NoOutputs]
    /\ GoTo(x, "round")
    /\ UNCHANGED <<graph, status, rows, begun, shared, pending, todo, staged>>

(* the final output: an exception when the terminal steps gave no text and  *)
(* one of them failed                                                       *)
TerminalsFailed(x) ==
    /\ \A s \in Terminal : outputs[x][s] # "text"
    /\ Terminal \cap failed[x] # {}

Finish(x) ==
    /\ At(x, "round") /\ pending[x] = {}
    /\ GoTo(x, IF TerminalsFailed(x) THEN "raised" ELSE "done")
    /\ UNCHANGED <<graph, status, rows, begun, shared, pending, settled, outputs, failed, round, staged>>

(* The end of an execution: the session is closed, and what was not         *)
(* committed is rolled back.                                                *)
Close(x) ==
    /\ GoTo(x, "idle")
    /\ pending' = [pending EXCEPT ![x] = {}]
    /\ settled' = [settled EXCEPT ![x] = {}]
    /\ outputs' = [outputs EXCEPT ![x] = NoOutputs]
    /\ failed' = [failed EXCEPT ![x] = {}]
    /\ flight' = [flight EXCEPT ![x] = {}]
    /\ results' = [results EXCEPT ![x] = NoOutputs]
    /\ todo' = [todo EXCEPT ![x] = {}]
    /\ staged' = [staged EXCEPT ![x] = NoRows]
    /\ UNCHANGED <<graph, begun, shared>>

(* commit_complete and fail_with_error: one commit for the status and every *)
(* step run of the execution, unless the run was canceled                   *)
Commit(x, l, st) ==
    /\ At(x, l)
    /\ IF status = "canceled"
       THEN UNCHANGED <<status, rows>>
       ELSE status' = st /\ Publish(x)
    /\ Close(x)

CommitComplete(x) == Commit(x, "done", "completed")
FailWithError(x)  == Commit(x, "raised", "failed")

(* the process dies, is killed by a revoke or its node is lost *)
Crash(x) ==
    /\ ~At(x, "idle")
    /\ Close(x)
    /\ UNCHANGED <<status, rows>>

-----------------------------------------------------------------------------
(* What happens to the run around its executions *)

Cancel ==
    /\ status = "running"
    /\ status' = "canceled"
    /\ UNCHANGED <<graph, rows, begun, shared, pc, pending, settled, outputs, failed, round, staged>>

Resume ==
    /\ status \in {"failed", "canceled"}
    /\ status' = "running"
    /\ UNCHANGED <<graph, rows, begun, shared, pc, pending, settled, outputs, failed, round, staged>>

ExecutionStep(x) ==
    \/ Dispatch(x) \/ Gather(x) \/ Persist(x) \/ Process(x) \/ Finish(x)
    \/ CommitComplete(x) \/ FailWithError(x)

Next ==
    \/ \E x \in Executors : Begin(x) \/ ExecutionStep(x) \/ Crash(x)
    \/ Cancel \/ Resume

Spec == Init /\ [][Next]_vars

(* A live process goes on: model calls return or time out, the session      *)
(* answers.                                                                 *)
FairSpec == Spec /\ \A x \in Executors : WF_vars(ExecutionStep(x))

-----------------------------------------------------------------------------
(* Properties *)

TypeOK ==
    /\ deps \in Graphs /\ cond \in Conditions
    /\ status \in {"running", "completed", "failed", "canceled"}
    /\ rows \in [Steps -> Seq(Outcomes)]
    /\ begun \in 0..MaxExecutions /\ shared \in BOOLEAN
    /\ pc \in [Executors -> {"idle", "round", "gather", "persist", "done", "raised"}]
    /\ pending \in [Executors -> SUBSET Steps]
    /\ settled \in [Executors -> SUBSET Steps]
    /\ outputs \in [Executors -> [Steps -> Outputs \cup {"none"}]]
    /\ failed \in [Executors -> SUBSET Steps]
    /\ flight \in [Executors -> SUBSET Steps]
    /\ results \in [Executors -> [Steps -> Outcomes \cup {"none"}]]
    /\ todo \in [Executors -> SUBSET Steps]
    /\ staged \in [Executors -> [Steps -> Seq(Outcomes)]]

(* A graph that passed the checks never makes the loop raise "Deadlock      *)
(* detected in DAG": as long as steps are pending one of them is unblocked. *)
NeverStuck ==
    \A x \in Executors : At(x, "round") /\ pending[x] # {} => Unblocked(x) # {}

(* A step is executed only when each of its dependencies has an output,     *)
(* failed or was skipped, and what it was given stays: no later round of    *)
(* the execution changes the output of a step that was settled.             *)
DependenciesFirst ==
    [][\A x \in Executors : ~At(x, "idle") /\ pc'[x] # "idle" =>
        /\ \A s \in flight'[x] : deps[s] \subseteq settled[x] \ flight'[x]
        /\ \A s \in settled[x] : outputs'[x][s] = outputs[x][s]]_vars

(* The engine implements the abstract schedule of each execution. *)
Schedule == INSTANCE StepSchedule WITH
    active <- [x \in Executors |-> pc[x] # "idle"], done <- settled, running <- flight

FollowsSchedule == Schedule!Spec

(* When the loop ends every step was settled, and each one that is not      *)
(* skipped has its step run in the database or in the transaction to be     *)
(* committed: nothing that was executed is lost with the commit.            *)
EverythingRecorded ==
    \A x \in Executors : At(x, "done") =>
        /\ settled[x] = Steps
        /\ \A s \in Steps :
            /\ outputs[x][s] # "none" =>
                    \E i \in DOMAIN rows[s] \cup DOMAIN staged[x][s] :
                        \/ i \in DOMAIN rows[s] /\ Completed(rows[s][i])
                        \/ i \in DOMAIN staged[x][s] /\ Completed(staged[x][s][i])
            /\ s \in failed[x] => rows[s] \o staged[x][s] # <<>>

(* With one execution at a time a step has at most one COMPLETED step run,  *)
(* nothing is recorded after it, and at most two FAILED ones.               *)
OneCompletedRow ==
    ~shared => \A s \in Steps :
        rows[s] \in {<<>>, <<"failed">>, <<"failed", "failed">>}
                        \cup {<<o>> : o \in Outputs} \cup {<<"failed", o>> : o \in Outputs}

(* ... and a resume never executes a step that a former execution completed *)
(* and committed.                                                           *)
CommittedNotRerun ==
    ~shared => \A x \in Executors : \A s \in flight[x] : Range(rows[s]) \cap Outputs = {}

(* With one execution at a time a COMPLETED run has a text from a terminal  *)
(* step, unless none of them failed in the execution that completed it.     *)
CompletedHasAnswer ==
    [][\A x \in Executors :
        ~shared /\ At(x, "done") /\ pc'[x] = "idle" /\ status' = "completed" /\ status # "completed" =>
        \/ \E s \in Terminal : "text" \in Range(rows'[s])
        \/ \A s \in Terminal : s \notin failed[x]]_vars

(* Every execution comes to its end, also on a graph that is rejected.      *)
ExecutionEnds == \A x \in Executors : pc[x] # "idle" ~> pc[x] = "idle"

(* README, "Persistent DAG state": after a crash of the server a workflow   *)
(* resumes from the first step that was not completed.                      *)
CompletedStepsSurviveCrash ==
    [][\A x \in Executors, s \in Steps :
        /\ status = "running" /\ pc[x] # "idle" /\ pc'[x] = "idle"
        /\ outputs[x][s] # "none"
        => \E i \in DOMAIN rows'[s] : Completed(rows'[s][i])]_vars
=============================================================================
