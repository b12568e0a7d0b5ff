SPECIFICATION Spec
CONSTANTS
    Runs = {r1}
    Tasks = {t1, t2}
    Workers = {w1, w2}
    Handlers = {h1, h2}
    Recoverers = {}
    Faults = {"node", "broker", "resolve"}
    None = None
SYMMETRY Symmetry
INVARIANTS PendingNeverLost
PROPERTIES CancelStays
CHECK_DEADLOCK FALSE
