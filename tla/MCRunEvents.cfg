SPECIFICATION FairSpec
CONSTANTS
    Workers = {w1}
    Streamer = stream
    Tails = {t1}
    MaxSteps = 1
    MaxRequests = 2
    None = None
INVARIANTS TypeOK SentWhatWasCommitted CompletedFrameIsCommitted
PROPERTIES TailEnds StreamEnds
CHECK_DEADLOCK FALSE
