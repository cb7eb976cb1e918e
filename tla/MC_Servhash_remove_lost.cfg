\* service.remove sent while a service.add that will fail is pending.
CONSTANTS
    Uuids = {A, B}
    Names <- TwoNames
    Foreign <- ForeignY
    Deferred = FALSE
    MaxRpcs = 4
SPECIFICATION Spec
INVARIANT
    EveryClientRequestAnswered
\* A router with no client activity is idle: stopping is legitimate.
CHECK_DEADLOCK FALSE
