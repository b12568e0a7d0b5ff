SPECIFICATION FairSpec
CONSTANTS
    Runs = {r1}
    Tasks = {t1, t2}
    Workers = {w1, w2}
    Handlers = {h1}
    Recoverers = {p1}
    Faults = {"broker"}
    None = None
PROPERTIES PendingIsPickedUp RunningSettlesUnlessCanceled
CHECK_DEADLOCK FALSE
