--------------------------- MODULE MC_ModuleHost ---------------------------
(* Instantiates ModuleHost for TLC: two client requests, errno either    *)
(* unset or EIO, ECONNRESET as on Linux.                                 *)
EXTENDS ModuleHost

MC_Errnos == {0, 5}
MC_ECONNRESET == 104
NoFailures == {}
FinalizeFails == {"finalize"}
StartFails == {"start"}
AllFailures == {"start", "setup", "finalize", "exited"}
=============================================================================
