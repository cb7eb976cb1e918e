---------------------------- MODULE BrokerModules ----------------------------
(***************************************************************************)
(* Several modules loaded in one broker, as far as their records, the      *)
(* broker's service table and the disconnect trackers interact            *)
(* (src/src/broker/module.c; flux-core#4564).                              *)
(*                                                                         *)
(* Each module registers a service under its own name.  A module that      *)
(* sends a request to a service arms its disconnect tracker for it         *)
(* (module_disconnect_arm()); module_destroy() joins the thread, forces    *)
(* EXITED if the module never reported it, then sends a disconnect to      *)
(* every service the module used, and frees the record.  The broker       *)
(* routes a request to a service by looking the name up in its service   *)
(* table and calling module_sendmsg() on the record found; the status     *)
(* callback removes a module's services when it enters EXITED.  The        *)
(* service table, the routing and the status callback are in broker.c    *)
(* and are modelled from the spec (4.4, 7).                                *)
(*                                                                         *)
(* The thread of each module is abstracted to whether it still runs and   *)
(* whether it ended with an EXITED report queued (ModuleHost models it in *)
(* detail).                                                                *)
(***************************************************************************)
EXTENDS FiniteSets

CONSTANTS
    Mods         \* loaded modules; a module's service is named after it

VARIABLES
    exited,      \* p->status = FLUX_MODSTATE_EXITED, per module
    thread,      \* "running", or ended: "reported" (EXITED queued) or "silent"
    pending,     \* an EXITED report is queued on the module's socket
    freed,       \* records module_destroy() has freed
    services,    \* the broker's service table: service name -> module
    armed,       \* per module: services its disconnect tracker is armed for
    touched      \* freed records the broker called module_sendmsg() on

vars == <<exited, thread, pending, freed, services, armed, touched>>

\* Every module has been created and started and registered its service.
Init ==
    /\ exited = [m \in Mods |-> FALSE]
    /\ thread = [m \in Mods |-> "running"]
    /\ pending = [m \in Mods |-> FALSE]
    /\ freed = {}
    /\ services = [s \in Mods |-> s]
    /\ armed = [m \in Mods |-> {}]
    /\ touched = {}

-----------------------------------------------------------------------------
\* module_sendmsg() on the records of modules X: its first access to the
\* record is the read of p->muted, a use after free if X was freed.
SendTo(X) ==
    touched' = touched \cup (X \cap freed)

\* The service table without the services of module m.
ServicesWithout(m) ==
    [s \in {n \in DOMAIN services : services[n] # m} |-> services[s]]

\* The status callback of EXITED: service_remove_byuuid() drops every
\* service of module m from the table.
RemoveServices(m) ==
    services' = ServicesWithout(m)

\* Module m sends a request to service s: the broker routes it to the
\* module that registered s and arms m's disconnect tracker for it.
Use(m, s) ==
    /\ m \notin freed
    /\ thread[m] = "running"
    /\ s \in DOMAIN services
    /\ SendTo({services[s]})
    /\ armed' = [armed EXCEPT ![m] = @ \cup {s}]
    /\ UNCHANGED <<exited, thread, pending, freed, services>>

\* The module thread ends, with its EXITED report sent, or without one
\* (cancelled, failed setup, failed send).
ThreadEnd(m) ==
    /\ m \notin freed
    /\ thread[m] = "running"
    /\ \/ thread' = [thread EXCEPT ![m] = "reported"]
          /\ pending' = [pending EXCEPT ![m] = TRUE]
       \/ thread' = [thread EXCEPT ![m] = "silent"]
          /\ UNCHANGED pending
    /\ UNCHANGED <<exited, freed, services, armed, touched>>

\* module_cb() receives the EXITED report; module_set_status() invokes the
\* status callback.
RecvExited(m) ==
    /\ m \notin freed
    /\ pending[m]
    /\ pending' = [pending EXCEPT ![m] = FALSE]
    /\ exited' = [exited EXCEPT ![m] = TRUE]
    /\ RemoveServices(m)
    /\ UNCHANGED <<thread, freed, armed, touched>>

\* Mutant: module_destroy() before flux-core#4564, without the forced
\* EXITED.
DestroyNoForce(m) ==
    /\ m \notin freed
    /\ thread[m] # "running"
    /\ LET svc == services
       IN SendTo({svc[s] : s \in armed[m] \cap DOMAIN svc})
    /\ freed' = freed \cup {m}
    /\ pending' = [pending EXCEPT ![m] = FALSE]
    /\ UNCHANGED <<exited, thread, services, armed>>

\* module_destroy(m), which the broker may call at any time: pthread_join()
\* waits for the thread; a status other than EXITED is forced to EXITED,
\* whose callback removes m's services; disconnect_destroy() sends a
\* disconnect to each service m used, routed through the table as it is
\* now; the socket, with any report still queued, and the record are freed.
Destroy(m) ==
    /\ m \notin freed
    /\ thread[m] # "running"
    /\ LET svc == IF exited[m] THEN services ELSE ServicesWithout(m)
       IN /\ services' = svc
          /\ SendTo({svc[s] : s \in armed[m] \cap DOMAIN svc})
    /\ exited' = [exited EXCEPT ![m] = TRUE]
    /\ freed' = freed \cup {m}
    /\ pending' = [pending EXCEPT ![m] = FALSE]
    /\ UNCHANGED <<thread, armed>>

Next ==
    \E m \in Mods :
        \/ \E s \in Mods : Use(m, s)
        \/ ThreadEnd(m)
        \/ RecvExited(m)
        \/ Destroy(m)

Spec == Init /\ [][Next]_vars

-----------------------------------------------------------------------------
TypeOK ==
    /\ exited \in [Mods -> BOOLEAN]
    /\ thread \in [Mods -> {"running", "reported", "silent"}]
    /\ pending \in [Mods -> BOOLEAN]
    /\ freed \subseteq Mods
    /\ DOMAIN services \subseteq Mods
    /\ armed \in [Mods -> SUBSET Mods]
    /\ touched \subseteq Mods

\* Spec 8 and flux-core#4564: after module_destroy() returns, the broker
\* never calls into that record again, whatever order the modules use each
\* other's services, end, report EXITED or are destroyed in: neither a
\* request from a running module nor a disconnect sent by another module's
\* destroy is routed to a freed record.
NoCallbackAfterDestroy ==
    touched = {}

=============================================================================
