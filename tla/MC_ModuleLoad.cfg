\* module_create() and module_destroy() with every failure point enabled.
CONSTANTS
    NULL = NULL
    Art <- MC_Art
    Artifacts <- MC_Artifacts
    NameArgs <- MC_NameArgs
    Failures = {"calloc", "strdup", "sock", "bind", "watcher"}
    MaxLoads = 4
SPECIFICATION Spec
INVARIANTS
    DsoHeldWhileLive
\* Once MaxLoads creates were made and every record destroyed the broker
\* loads nothing more: it is idle, not stuck.
CHECK_DEADLOCK FALSE
