\* The helpers keep to the group or leave the pipes; the command may ignore
\* SIGTERM and never exit; there is a timeout or none.
CONSTANTS
    Leader = leader
    Helpers = {h1}
    HelperTraits <- TameTraits
    ExitCodes = {0}
    Timeouts = {0, 1}
    GracePeriod = 1
    MaxSignals = 2
    CtxCancels = FALSE
SPECIFICATION FairSpec
PROPERTIES
    TimeoutEndsRun
    SignalEndsRun
