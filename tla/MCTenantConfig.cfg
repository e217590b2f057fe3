SPECIFICATION FairSpec
CONSTANTS
    NULL = NULL
    Admins = {a1, a2}
    Builders = {b1}
    Providers = {"minimax", "openai"}
    Keys = {"k1", "k2"}
    Models = {"m"}
    Posts <- MCPosts
    Patches <- MCPatches
    ChainPayloads <- MCChains
    EnvChain <- MCEnv
    Registered = {"minimax"}
    Required = FALSE
    MaxOps = 3
    MaxFaults = 1
CHECK_DEADLOCK FALSE
INVARIANTS
    AuditCovers
    AuditExactUnlessRaced
PROPERTY EventuallyCurrent
