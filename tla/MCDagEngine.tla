----------------------------- MODULE MCDagEngine -----------------------------
(* DagEngine on small graphs of every shape, in and against step_order, and *)
(* on the ones execute rejects.                                             *)
EXTENDS DagEngine, TLC

ThreeSteps == 1..3
TwoSteps   == 1..2

ThreeStepGraphs ==
    { <<{}, {}, {}>>,        \* three roots
      <<{}, {1}, {2}>>,      \* chain
      <<{2}, {3}, {}>>,      \* chain against step_order
      <<{}, {1}, {1}>>,      \* fork
      <<{}, {}, {1, 2}>>,    \* join
      <<{}, {1}, {1, 2}>>,   \* triangle
      <<{}, {1}, {}>>,       \* an edge and a step of its own
      <<{1}, {}, {}>>,       \* a step that waits for itself
      <<{}, {3}, {2}>>,      \* cycle of two
      <<{3}, {1}, {2}>>,     \* cycle of three
      <<{}, {4}, {}>> }      \* missing dependency

TwoStepGraphs == { <<{}, {}>>, <<{}, {1}>>, <<{2}, {}>> }

Unconditional(n) == [s \in 1..n |-> [on |-> s, want |-> "any"]]

(* no condition, or one step with a condition on an output, its own included *)
OneCondition(n) ==
    {Unconditional(n)} \cup
    {[Unconditional(n) EXCEPT ![s] = [on |-> d, want |-> w]] :
        s \in 1..n, d \in 1..n, w \in {"text", "none"}}

ThreeStepConditions == OneCondition(3)
TwoStepConditions   == OneCondition(2)

Symmetry == Permutations(Executors)
=============================================================================
