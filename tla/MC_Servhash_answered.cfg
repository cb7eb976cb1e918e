\* Every accepted client request is answered when continuations run at once.
CONSTANTS
    Uuids = {A, B}
    Names <- OneName
    Foreign <- NoForeign
    Deferred = FALSE
    MaxRpcs = 5
SPECIFICATION Spec
INVARIANTS
    EveryClientRequestAnswered
    RegistrationsAgree
\* A router with no client activity is idle: stopping is legitimate.
CHECK_DEADLOCK FALSE
