SPECIFICATION Spec
CONSTANTS
    Requests = {r1, r2}
    Chain <- MC_Chain
    MaxRetries = 1
    Threshold = 2
    Cooldown = 1
    Limit = 1
    Counted = {1}
    MaxTime = 1
    MaxAsks = 2
    Docs = {1, 2}
    PerDoc = 2
    Relevant <- MC_Relevant
    Lines = {"question", "other", "third"}
    Question = "question"
    MaxQueries = 2
    TopK = 2
    MaxSources = 1
    Nodes = {n1, n2, n3}
    Lengths = {0, 1, 2, 3, 4, 5, 6, 7}
    Sizes = {0, 1, 2, 3, 4}
    Overlaps <- MC_Overlaps
INVARIANTS VerdictRight OneAnswer ChunksCover AnswerGrounded
PROPERTIES SearchEnds RequestEnds
CHECK_DEADLOCK FALSE
