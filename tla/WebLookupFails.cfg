SPECIFICATION Spec
CONSTANTS
    Users = {"ann", "ben"}
    Nobody = "nobody"
    MaxSessions = 1
    MaxGets = 1
    MaxLoads = 1
    Early = FALSE
    Mistypes = FALSE
    ServerMayFail = TRUE
CHECK_DEADLOCK FALSE
PROPERTY KeepsLiveSession
