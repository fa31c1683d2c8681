\* A helper leaves the group and keeps stdout open.
CONSTANTS
    Leader = leader
    Helpers = {h1}
    HelperTraits <- DetachedWriter
    ExitCodes = {0}
    Timeouts = {1}
    GracePeriod = 1
    MaxSignals = 0
    CtxCancels = FALSE
SPECIFICATION FairSpec
PROPERTY
    TimeoutEndsRun
