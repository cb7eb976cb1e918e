\* module_finalizing() fails: requests routed after the drain loop are lost.
CONSTANTS
    Reqs = {r1, r2}
    NoId = NoId
    Errnos <- MC_Errnos
    ECONNRESET <- MC_ECONNRESET
    Failures <- FinalizeFails
SPECIFICATION Spec
INVARIANT
    EveryRequestAnswered
