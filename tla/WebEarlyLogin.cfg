SPECIFICATION Spec
CONSTANTS
    Users = {"ann", "ben"}
    Nobody = "nobody"
    MaxSessions = 2
    MaxGets = 1
    MaxLoads = 1
    Early = TRUE
    Mistypes = FALSE
    ServerMayFail = FALSE
CHECK_DEADLOCK FALSE
PROPERTY SignInReaches
