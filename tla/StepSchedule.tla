----------------------------- MODULE StepSchedule -----------------------------
(***************************************************************************)
(* What the engine promises about the order in which an execution of a     *)
(* workflow settles its steps, however it groups them into rounds: a step  *)
(* runs, or is skipped, once, after everything it depends on, and all the  *)
(* steps that run together end before the next ones are chosen.            *)
(* DagEngine implements it (README.md, "parallel execution (B & C run      *)
(* concurrently)", "dependency resolution").                               *)
(***************************************************************************)
CONSTANTS Steps, Executors

VARIABLES
    deps,     \* what each step depends on
    active,   \* of each executor: an execution is under way
    done,     \* ... steps that ran, were skipped or were completed before
    running   \* ... steps that run now

vars == <<deps, active, done, running>>

Init ==
    /\ active = [x \in Executors |-> FALSE]
    /\ done = [x \in Executors |-> {}]
    /\ running = [x \in Executors |-> {}]

Eligible(x, s) == s \in Steps \ done[x] /\ deps[s] \subseteq done[x]

Start(x, former) ==
    /\ ~active[x]
    /\ active' = [active EXCEPT ![x] = TRUE]
    /\ done' = [done EXCEPT ![x] = former]
    /\ UNCHANGED <<deps, running>>

Choose(x, run, skip) ==
    /\ active[x] /\ running[x] = {}
    /\ run \cap skip = {}
    /\ \A s \in run \cup skip : Eligible(x, s)
    /\ running' = [running EXCEPT ![x] = run]
    /\ done' = [done EXCEPT ![x] = @ \cup skip]
    /\ UNCHANGED <<deps, active>>

Land(x) ==
    /\ active[x]
    /\ done' = [done EXCEPT ![x] = @ \cup running[x]]
    /\ running' = [running EXCEPT ![x] = {}]
    /\ UNCHANGED <<deps, active>>

(* the execution succeeds, fails or dies *)
Stop(x) ==
    /\ active[x]
    /\ active' = [active EXCEPT ![x] = FALSE]
    /\ done' = [done EXCEPT ![x] = {}]
    /\ running' = [running EXCEPT ![x] = {}]
    /\ UNCHANGED deps

Next == \E x \in Executors :
    \/ \E former \in SUBSET Steps : Start(x, former)
    \/ \E run, skip \in SUBSET Steps : Choose(x, run, skip)
    \/ Land(x) \/ Stop(x)

Spec == Init /\ [][Next]_vars
=============================================================================
