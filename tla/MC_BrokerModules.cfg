\* Three modules that use each other's services, end with or without an
\* EXITED report, and are destroyed in any order.
CONSTANTS
    Mods = {A, B, C}
SPECIFICATION Spec
SYMMETRY ModSymmetry
\* Once every module is destroyed the broker has nothing left to do.
CHECK_DEADLOCK FALSE
INVARIANTS
    NoCallbackAfterDestroy
