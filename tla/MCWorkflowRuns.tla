--------------------------- MODULE MCWorkflowRuns ---------------------------
(* WorkflowRuns on small sets.  Runs, tasks, processes and requests are     *)
(* interchangeable; the symmetry is used for safety only.                   *)
EXTENDS WorkflowRuns, TLC

Symmetry ==
    Permutations(Runs) \cup Permutations(Tasks) \cup Permutations(Workers)
        \cup Permutations(Handlers)
=============================================================================
