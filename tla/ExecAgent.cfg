\* Two requests for a ping (one retry) and short budgets: every order of
\* posting, handling, returning and being killed occurs.
CONSTANTS
    Statuses <- AllStatuses
    GracePeriod = 1
    Requests = {1, 2}
    StartBudget = 1
    FinalBudget = 2
SPECIFICATION Spec
INVARIANTS
    TypeOK
    VerdictTrue
    ExitIsTheCommands
    NoSilentRun
PROPERTIES
    JobNotHeldUp
    AgentLeaves
