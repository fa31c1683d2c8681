CONSTANTS
    Leader = leader
    Helpers = {}
    HelperTraits = {}
    ExitCodes = {0}
    Timeouts = {1}
    GracePeriod = 1
    MaxSignals = 0
    CtxCancels = FALSE
SPECIFICATION Spec
INVARIANT
    NoStrayKill
