SPECIFICATION Spec
CONSTANTS
    Users = {"ann", "ben"}
    Nobody = "nobody"
    MaxSessions = 2
    MaxGets = 2
    MaxLoads = 1
    Early = FALSE
    Mistypes = FALSE
    ServerMayFail = FALSE
CHECK_DEADLOCK FALSE
PROPERTY KeepsLiveSession
