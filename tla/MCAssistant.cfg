SPECIFICATION Spec
CONSTANTS
    Project = project
    Chats = {chat}
    Workflows = {workflow}
    Steps = {step}
    AgentRuns = {agent_run}
    WorkflowOf <- MC_WorkflowOf
    Editors = {e1, e2}
    MaxRequests = 3
    Made <- MC_Made
    Absent = absent
    Turns = {t1, t2, t3}
    MaxActive = 2
    MaxLoops = 1
    MaxSteps = 2
    MaxInvalid = 1
    Users = {u1, u2}
    Global = global
    Kinds = {"embedding"}
    Providers = {"ollama", "gemini"}
    Order <- MC_Order
    Fields = {"key"}
    Handlers = {h1, h2}
    MaxAsked = 3
    Default = default
    None = none
INVARIANTS TypeOK SavedAsEntered AnsweredOwn TurnSaved RegeneratesItsQuestion AsksItsQuestion NothingOutlivesItsParent
SYMMETRY MC_Symmetry
CHECK_DEADLOCK FALSE
