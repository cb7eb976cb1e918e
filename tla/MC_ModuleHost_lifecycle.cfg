\* Lifecycle without failure paths: the handshake, status callbacks,
\* errnum propagation and completion of module_stop().
CONSTANTS
    Reqs = {r1, r2}
    NoId = NoId
    Errnos <- MC_Errnos
    ECONNRESET <- MC_ECONNRESET
    Failures <- NoFailures
SPECIFICATION Spec
INVARIANTS
    TypeOK
    EveryRequestAnswered
    StatusTransitionsLegal
    MainFailureVisible
PROPERTIES
    StopCompletes
