SPECIFICATION Spec
CONSTANTS
    Runs = {r1}
    Tasks = {t1, t2}
    Workers = {w1}
    Handlers = {h1}
    Recoverers = {p1}
    Faults = {}
    None = None
PROPERTIES RecoverySparesLiveRuns
CHECK_DEADLOCK FALSE
