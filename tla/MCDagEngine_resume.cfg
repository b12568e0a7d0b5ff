SPECIFICATION FairSpec
CONSTANTS
    Steps <- ThreeSteps
    Executors = {x1}
    Graphs <- ThreeStepGraphs
    Conditions <- ThreeStepConditions
    MaxExecutions = 2
INVARIANTS TypeOK NeverStuck EverythingRecorded
PROPERTIES DependenciesFirst FollowsSchedule ExecutionEnds
CHECK_DEADLOCK FALSE
