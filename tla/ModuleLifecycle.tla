--------------------------- MODULE ModuleLifecycle ---------------------------
(***************************************************************************)
(* What the module host promises the rest of the broker about one module   *)
(* record, independent of threads and channels: the status seen by the     *)
(* status callback only moves forward (INIT, RUNNING, FINALIZING, EXITED), *)
(* errnum is set when and only when the module enters EXITED, and a        *)
(* record is torn down exactly once, after which its status never changes  *)
(* (spec 4.3, 8).  A record whose module ran is torn down as EXITED, so    *)
(* that the status callback releases its services (flux-core#4564); only  *)
(* a record whose thread never ran may be torn down as INIT.               *)
(*                                                                         *)
(* ModuleHost implements this specification under the mapping given in   *)
(* ModuleHost (LifecycleRefined).                                          *)
(***************************************************************************)
EXTENDS Naturals

CONSTANTS
    ErrnoVals   \* values p->errnum can take

VARIABLES
    status,     \* p->status
    errnum,     \* p->errnum
    gone,       \* the record has been torn down (or the broker has exited)
    ran         \* a module thread was created for the record

vars == <<status, errnum, gone, ran>>

INIT == 0
RUNNING == 1
FINALIZING == 2
EXITED == 3

Init ==
    /\ status = INIT
    /\ errnum = 0
    /\ gone = FALSE
    /\ ran = FALSE

\* The module thread is created (module_start()); it is created at most
\* once, before any report.
Run ==
    /\ ~gone
    /\ ~ran
    /\ status = INIT
    /\ ran' = TRUE
    /\ UNCHANGED <<status, errnum, gone>>

\* The module reports progress before it exits.
Advance(s) ==
    /\ ~gone
    /\ ran
    /\ s \in {RUNNING, FINALIZING}
    /\ status < s
    /\ status' = s
    /\ UNCHANGED <<errnum, gone, ran>>

\* The module reports EXITED with its errnum.
Exit(e) ==
    /\ ~gone
    /\ ran
    /\ status # EXITED
    /\ status' = EXITED
    /\ errnum' = e
    /\ UNCHANGED <<gone, ran>>

\* The record is torn down: a record whose thread ran as EXITED, forcing
\* the transition if the module never reported it; a record whose thread
\* never ran as it is (INIT).
Destroy ==
    /\ ~gone
    /\ gone' = TRUE
    /\ status' = IF ran THEN EXITED ELSE status
    /\ UNCHANGED <<errnum, ran>>

Next ==
    \/ Run
    \/ \E s \in {RUNNING, FINALIZING} : Advance(s)
    \/ \E e \in ErrnoVals : Exit(e)
    \/ Destroy

Spec == Init /\ [][Next]_vars

=============================================================================
