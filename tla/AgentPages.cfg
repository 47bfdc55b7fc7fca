SPECIFICATION AgentPagesSpec
CONSTANTS
    na = na
    nb = nb
    MaxClicks = 2
    MaxHasty = 1
    MaxPolls = 2
    MaxEvents = 1
    Life = 3
    MintEvery = 2
    WorkspaceWorlds <- MCWorkspaceWorlds
    MaxTurns = 3
    MaxChunks = 1
    ChatWorlds <- MCChatWorlds
    Namespaces <- MCNamespaces
    MaxSessions = 2
    StoredSessions <- MCStoredSessions
    MaxAgentActs = 3
    MaxHastyActs = 2
    MaxJobs = 3
    AgentWorlds <- MCAgentWorlds
INVARIANTS WorkspacePageInv ChatPageInv AgentPageInv
PROPERTIES TypedStays PagesProgress
CHECK_DEADLOCK FALSE
