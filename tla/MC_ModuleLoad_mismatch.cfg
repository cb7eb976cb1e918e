\* A name mismatch reported for a module loaded by path alone.
CONSTANTS
    NULL = NULL
    Art <- MC_Art
    Artifacts <- MC_Artifacts
    NameArgs <- MC_NameArgs
    Failures = {}
    MaxLoads = 2
SPECIFICATION Spec
INVARIANTS
    MismatchErrorNamesModule
\* Once MaxLoads creates were made and every record destroyed the broker
\* loads nothing more: it is idle, not stuck.
CHECK_DEADLOCK FALSE
