SPECIFICATION Spec
CONSTANTS
    Users = {"ann", "ben"}
    Nobody = "nobody"
    MaxSessions = 2
    MaxGets = 1
    MaxLoads = 1
    Early = FALSE
    Mistypes = FALSE
    ServerMayFail = TRUE
CHECK_DEADLOCK FALSE
INVARIANT CacheAlwaysOwn
