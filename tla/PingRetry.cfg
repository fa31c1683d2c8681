\* A scaled-down clock (httpClient.Timeout 3, backoff 1, 2, 2): the deadline
\* can fall into any attempt and any backoff.
CONSTANTS
    Retries = 3
    BaseDelay = 1
    MaxDelay = 2
    HttpTimeout = 3
    CtxTimeout = 10
SPECIFICATION Spec
INVARIANTS
    TypeOK
    WithinDeadline
    StopsAtVerdict
    ExhaustedTriedAll
PROPERTY
    KeepsPromise
