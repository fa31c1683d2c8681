\* A call of the API server and a client that may stall, with the real
\* proportions of the timeouts: 5 s, 5 s and 10 s in ticks of 2.5 s.
CONSTANTS
    Clients = {api, other}
    ApiServer = {api}
    CallTimeout = 2
    HeaderTimeout = 2
    DrainTimeout = 4
SPECIFICATION Spec
INVARIANTS
    TypeOK
    AdmissionsFinish
    DeadlineUsed
PROPERTY StopEnds
