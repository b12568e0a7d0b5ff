SPECIFICATION Spec
CONSTANTS
    Runs = {r1}
    Tasks = {t1, t2}
    Workers = {w1, w2}
    Handlers = {h1}
    Recoverers = {p1}
    Faults = {"node", "child", "api", "broker", "resolve"}
    None = None
SYMMETRY Symmetry
INVARIANTS TypeOK FreshExecutionOnce SoleExecutorUnlessResumed WorkflowDoneOnce
CHECK_DEADLOCK FALSE
