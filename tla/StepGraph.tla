------------------------------ MODULE StepGraph ------------------------------
(* The step graph of a workflow: g[s] is WorkflowStep.depends_on of step s. *)

(* every step of S waits for a step of S *)
Cycle(g, S) == S # {} /\ \A s \in S : g[s] \cap S # {}

HasCycle(g, steps) == \E S \in SUBSET steps : Cycle(g, S)

(* the steps nobody depends on *)
Terminals(g, steps) == {s \in steps : \A t \in steps : s \notin g[t]}
=============================================================================
