------------------------------ MODULE Servhash ------------------------------
(***************************************************************************)
(* Proxy service registration, servhash.c (src/unnamed/part_002, lines    *)
(* 507-794).  A router keeps a hash of the services its clients           *)
(* registered and registers each one upstream with an asynchronous        *)
(* service.add / service.remove RPC; a continuation on the RPC's future   *)
(* updates the entry and responds to the client.                          *)
(*                                                                         *)
(* The upstream broker is modelled from the spec (section 6): it handles  *)
(* the router's RPCs in order, a service.add fails when the name is       *)
(* registered, a service.remove fails when the router does not own it.    *)
(* Names in Foreign are registered upstream by some other peer.           *)
(*                                                                         *)
(* A future is "pending", then fulfilled ("ok" or "err") when its         *)
(* response arrives, then "done" once its continuation ran.  With         *)
(* Deferred the continuation runs in a later step than the fulfilment, as *)
(* the reactor runs then-callbacks from a watcher after the message       *)
(* handler; without it the two happen together.                          *)
(***************************************************************************)
EXTENDS Naturals, Sequences, SequencesExt, FiniteSets

CONSTANTS
    Names,     \* service names
    Uuids,     \* client uuids
    Foreign,   \* names another peer holds upstream
    Deferred,  \* continuations run after, not with, the fulfilment
    MaxRpcs    \* bound on the RPCs the router issues with a future

ASSUME /\ Foreign \subseteq Names
       /\ Deferred \in BOOLEAN
       /\ MaxRpcs \in Nat

FutStates == {"none", "pending", "ok", "err", "done"}
Fulfilled == {"ok", "err"}
Entries == [uuid : Uuids, live : BOOLEAN,
            addTag : 0..MaxRpcs, addSt : FutStates,
            rmTag : 0..MaxRpcs, rmSt : FutStates]
ClientReqs == [op : {"add", "remove"}, uuid : Uuids, name : Names]

VARIABLES
    services,  \* sh->services: name -> servhash_entry
    alive,     \* the servhash has not been destroyed
    up,        \* RPCs from the router to the upstream broker, in order
    down,      \* responses from upstream, in order
    owner,     \* upstream registration of each name
    waiting,   \* client requests accepted and not yet responded to
    gone,      \* clients that disconnected
    nextTag    \* matchtags used so far

vars == <<services, alive, up, down, owner, waiting, gone, nextTag>>

Init ==
    /\ services = <<>>
    /\ alive = TRUE
    /\ up = <<>>
    /\ down = <<>>
    /\ owner = [n \in Names |-> IF n \in Foreign THEN "other" ELSE "none"]
    /\ waiting = {}
    /\ gone = {}
    /\ nextTag = 0

-----------------------------------------------------------------------------
\* An unregister whose future is destroyed at once: its response is dropped.
OpenLoopRemove(n) == [op |-> "remove", name |-> n, tag |-> 0]

\* Mutant: an add that is still pending is not unregistered.
NeedsUnregisterLiveOnly(e) ==
    e.live /\ e.rmSt = "none"

\* needs_unregister(): a pending service.add, or a successful add with no
\* service.remove sent.  A fulfilled future counts as ready even when its
\* continuation has not run yet.
NeedsUnregister(e) ==
    \/ ~e.live /\ e.addSt = "pending"
    \/ e.live /\ e.rmSt = "none"

\* zhashx_delete() of the names in S: servhash_entry_destroy() sends an
\* open-loop unregister for each entry that needs one and destroys its
\* futures, so their continuations never run.
DeleteEntries(S) ==
    LET unreg == {n \in S : NeedsUnregister(services[n])}
    IN /\ services' = [n \in DOMAIN services \ S |-> services[n]]
       /\ up' = up \o [i \in 1..Cardinality(unreg) |->
                          OpenLoopRemove(SetToSeq(unreg)[i])]

\* No fulfilled future is waiting for its continuation.
NoContinuationDue ==
    \A n \in DOMAIN services :
        services[n].addSt \notin Fulfilled /\ services[n].rmSt \notin Fulfilled

\* Whether a step other than a continuation may happen now.
Scheduled == Deferred \/ NoContinuationDue

-----------------------------------------------------------------------------
\* servhash_add(): a name already in the hash fails with EEXIST and
\* changes nothing; otherwise an entry is added and service.add sent.
ServhashAdd(n, u) ==
    /\ Scheduled
    /\ alive
    /\ u \notin gone
    /\ n \notin DOMAIN services
    /\ nextTag < MaxRpcs
    /\ nextTag' = nextTag + 1
    /\ services' = services @@ (n :> [uuid |-> u, live |-> FALSE,
                                      addTag |-> nextTag + 1,
                                      addSt |-> "pending",
                                      rmTag |-> 0, rmSt |-> "none"])
    /\ up' = Append(up, [op |-> "add", name |-> n, tag |-> nextTag + 1])
    /\ waiting' = waiting \cup {[op |-> "add", uuid |-> u, name |-> n]}
    /\ UNCHANGED <<alive, down, owner, gone>>

\* servhash_remove(): only the owner may remove, and only once (ENOENT
\* otherwise, changing nothing); service.remove is sent even while the
\* service.add is pending.
ServhashRemove(n, u) ==
    /\ Scheduled
    /\ alive
    /\ u \notin gone
    /\ n \in DOMAIN services
    /\ services[n].uuid = u
    /\ services[n].rmSt = "none"
    /\ nextTag < MaxRpcs
    /\ nextTag' = nextTag + 1
    /\ services' = [services EXCEPT ![n].rmTag = nextTag + 1,
                                    ![n].rmSt = "pending"]
    /\ up' = Append(up, [op |-> "remove", name |-> n, tag |-> nextTag + 1])
    /\ waiting' = waiting \cup {[op |-> "remove", uuid |-> u, name |-> n]}
    /\ UNCHANGED <<alive, down, owner, gone>>

\* servhash_disconnect(): delete every entry the client owns.
ServhashDisconnect(u) ==
    /\ Scheduled
    /\ alive
    /\ u \notin gone
    /\ gone' = gone \cup {u}
    /\ waiting' = {w \in waiting : w.uuid # u}
    /\ DeleteEntries({n \in DOMAIN services : services[n].uuid = u})
    /\ UNCHANGED <<alive, down, owner, nextTag>>

\* servhash_destroy(): zhashx_destroy() deletes every entry.
ServhashDestroy ==
    /\ Scheduled
    /\ alive
    /\ alive' = FALSE
    /\ DeleteEntries(DOMAIN services)
    /\ UNCHANGED <<down, owner, waiting, gone, nextTag>>

\* The upstream broker handles the next RPC (spec section 6).
Upstream ==
    /\ Scheduled
    /\ up # <<>>
    /\ LET m == Head(up)
           ok == IF m.op = "add" THEN owner[m.name] = "none"
                                 ELSE owner[m.name] = "me"
       IN /\ owner' = IF ~ok THEN owner
                      ELSE [owner EXCEPT ![m.name] =
                               IF m.op = "add" THEN "me" ELSE "none"]
          /\ down' = IF m.tag = 0 THEN down
                     ELSE Append(down, [tag |-> m.tag, ok |-> ok])
    /\ up' = Tail(up)
    /\ UNCHANGED <<services, alive, waiting, gone, nextTag>>

\* A response arrives and fulfils the future it matches, if that future
\* still exists.
Fulfil ==
    /\ Scheduled
    /\ down # <<>>
    /\ LET r == Head(down)
           st == IF r.ok THEN "ok" ELSE "err"
       IN services' =
            [n \in DOMAIN services |->
                CASE services[n].addTag = r.tag /\ services[n].addSt = "pending"
                        -> [services[n] EXCEPT !.addSt = st]
                  [] services[n].rmTag = r.tag /\ services[n].rmSt = "pending"
                        -> [services[n] EXCEPT !.rmSt = st]
                  [] OTHER -> services[n]]
    /\ down' = Tail(down)
    /\ UNCHANGED <<alive, up, owner, waiting, gone, nextTag>>

\* The client request is answered through sh->respond_cb.
Respond(op, e, n) ==
    waiting' = waiting \ {[op |-> op, uuid |-> e.uuid, name |-> n]}

\* Mutant: the entry is deleted whatever the outcome of service.add.
AddContinuationDeleteAlways(n) ==
    /\ services[n].addSt \in Fulfilled
    /\ Respond("add", services[n], n)
    /\ DeleteEntries({n})
    /\ UNCHANGED <<alive, down, owner, gone, nextTag>>

\* add_continuation(): on success the entry goes live; on error it is
\* deleted.  Either way the client is answered.
AddContinuation(n) ==
    /\ services[n].addSt \in Fulfilled
    /\ Respond("add", services[n], n)
    /\ IF services[n].addSt = "ok"
          THEN /\ services' = [services EXCEPT ![n].live = TRUE,
                                               ![n].addSt = "done"]
               /\ UNCHANGED up
          ELSE DeleteEntries({n})
    /\ UNCHANGED <<alive, down, owner, gone, nextTag>>

\* remove_continuation(): on success the entry is no longer live; the
\* client is answered and the entry deleted either way.
RemoveContinuation(n) ==
    /\ services[n].rmSt \in Fulfilled
    /\ Respond("remove", services[n], n)
    /\ LET e == IF services[n].rmSt = "ok"
                   THEN [services[n] EXCEPT !.live = FALSE, !.rmSt = "done"]
                   ELSE [services[n] EXCEPT !.rmSt = "done"]
       IN /\ services' = [m \in DOMAIN services \ {n} |-> services[m]]
          /\ up' = IF NeedsUnregister(e) THEN Append(up, OpenLoopRemove(n))
                                         ELSE up
    /\ UNCHANGED <<alive, down, owner, gone, nextTag>>

Next ==
    \/ \E n \in Names, u \in Uuids : ServhashAdd(n, u) \/ ServhashRemove(n, u)
    \/ \E u \in Uuids : ServhashDisconnect(u)
    \/ ServhashDestroy
    \/ Upstream
    \/ Fulfil
    \/ \E n \in DOMAIN services : AddContinuation(n) \/ RemoveContinuation(n)

Spec == Init /\ [][Next]_vars

-----------------------------------------------------------------------------
TypeOK ==
    /\ DOMAIN services \subseteq Names
    /\ \A n \in DOMAIN services : services[n] \in Entries
    /\ alive \in BOOLEAN
    /\ \A i \in 1..Len(up) : up[i] \in [op : {"add", "remove"}, name : Names,
                                          tag : 0..MaxRpcs]
    /\ \A i \in 1..Len(down) : down[i] \in [tag : 1..MaxRpcs, ok : BOOLEAN]
    /\ owner \in [Names -> {"none", "me", "other"}]
    /\ waiting \subseteq ClientReqs
    /\ gone \subseteq Uuids
    /\ nextTag \in 0..MaxRpcs

\* Nothing is in flight: no RPC or response queued, no continuation due.
Quiescent == up = <<>> /\ down = <<>> /\ NoContinuationDue

\* Spec 6: when the router is quiet, the upstream broker holds a name for
\* the router exactly when the router's hash holds a live entry for it,
\* whatever adds, removes, disconnects and destroys interleaved with the
\* RPCs in flight.  A violation is a registration leaked upstream (no
\* client can register that name again) or a live entry nobody serves.
RegistrationsAgree ==
    Quiescent =>
        \A n \in Names :
            owner[n] = "me" <=> (n \in DOMAIN services /\ services[n].live)

\* Every service.add or service.remove a connected client made, and that
\* servhash accepted, is answered once the router is quiet.
EveryClientRequestAnswered ==
    (Quiescent /\ alive) => waiting = {}

=============================================================================
