SPECIFICATION FairSpec
CONSTANTS
    Runs = {r1}
    Tasks = {t1, t2}
    Workers = {w1}
    Handlers = {h1}
    Recoverers = {}
    Faults = {}
    None = None
PROPERTIES RunningSettles
CHECK_DEADLOCK FALSE
