\* One helper of any kind, both exit codes that matter, two host signals, a
\* timeout that is shorter than the grace period.
CONSTANTS
    Leader = leader
    Helpers = {h1}
    HelperTraits <- AllTraits
    ExitCodes = {0, 7}
    Timeouts = {1}
    GracePeriod = 2
    MaxSignals = 2
    CtxCancels = TRUE
SPECIFICATION Spec
INVARIANTS
    TypeOK
    SignalNeverOrphans
    GraceHonoured
    NoSignalStorm
    ResultFaithful
    SubtreeKilled
    CaptureQuiescent
PROPERTIES
    EscalationNotPostponed
    KeepsPromise
