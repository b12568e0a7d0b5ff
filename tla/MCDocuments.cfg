SPECIFICATION FairSpec
CONSTANTS
    Docs = {d1}
    Project = p
    Chunks = {1, 2, 3, 4, 5, 6}
    ChunkCount = 2
    Models = {m1, m2}
    Tasks = {t1}
    Local = local
    Workers = {w1, w2}
    Slots = {s1}
    Handlers = {h1, h2}
    MaxEvents = 2
    Faults = {"failover", "redelivery", "child", "api", "broker", "resolve"}
    Unborn = Unborn
    None = None
INVARIANTS TypeOK OneGeneration CompletedCoversChunks QueuedIsScheduled
PROPERTY EverythingSettles
CHECK_DEADLOCK FALSE
