SPECIFICATION Spec
CONSTANTS
    Steps <- TwoSteps
    Executors = {x1}
    Graphs <- TwoStepGraphs
    Conditions <- TwoStepConditions
    MaxExecutions = 2
PROPERTIES CompletedStepsSurviveCrash
CHECK_DEADLOCK FALSE
