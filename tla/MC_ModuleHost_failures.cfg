\* Every failure path enabled: the status callback and errnum stay correct,
\* and the module host still implements the abstract ModuleLifecycle.
CONSTANTS
    Reqs = {r1, r2}
    NoId = NoId
    Errnos <- MC_Errnos
    ECONNRESET <- MC_ECONNRESET
    Failures <- AllFailures
SPECIFICATION Spec
INVARIANTS
    StatusTransitionsLegal
    MainFailureVisible
PROPERTIES
    LifecycleRefined
