SPECIFICATION Spec
CONSTANTS
    Users = {"ann", "ben"}
    Nobody = "nobody"
    MaxSessions = 3
    MaxGets = 1
    MaxLoads = 1
    Early = FALSE
    Mistypes = TRUE
    ServerMayFail = TRUE
CHECK_DEADLOCK FALSE
INVARIANTS SessionTypeOK CacheIsOwn SpinnerIsAwaited NoRedirectLoop WizardIsAdmins
PROPERTIES KeepsSession
