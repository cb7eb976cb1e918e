\* A disconnect between fulfilment and continuation of service.add.
CONSTANTS
    Uuids = {A, B}
    Names <- OneName
    Foreign <- NoForeign
    Deferred = TRUE
    MaxRpcs = 4
SPECIFICATION Spec
INVARIANT
    RegistrationsAgree
\* A router with no client activity is idle: stopping is legitimate.
CHECK_DEADLOCK FALSE
