SPECIFICATION Spec
CONSTANTS
    Steps <- TwoSteps
    Executors = {x1, x2}
    Graphs <- TwoStepGraphs
    Conditions <- TwoStepConditions
    MaxExecutions = 3
SYMMETRY Symmetry
INVARIANTS OneCompletedRow CommittedNotRerun
PROPERTIES CompletedHasAnswer
CHECK_DEADLOCK FALSE
