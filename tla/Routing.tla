------------------------------ MODULE Routing ------------------------------
(***************************************************************************)
(* Route stack and credential rewriting on the PAIR socket between the     *)
(* broker and one module (module_recvmsg() and module_sendmsg() in         *)
(* src/src/broker/module.c).  The channel is point-to-point; the rewriting *)
(* makes the module look like a DEALER peer of the broker's ROUTER:        *)
(* requests and events from the module get the module's uuid pushed, so   *)
(* the broker can route the answers back; requests to the module get the  *)
(* broker's uuid pushed, and the hop a response carries for this channel  *)
(* is deleted when it crosses it.                                          *)
(*                                                                         *)
(* The module side is the module's flux handle: it sends requests with    *)
(* the route stack and credential it chose (a connector module forwards   *)
(* its clients' requests with their routes and credentials), answers a    *)
(* request with a response carrying the request's route stack, and        *)
(* receives what the broker sent.  The broker side answers the requests   *)
(* it received in the same way (flux_respond() copies the route stack).  *)
(* Those two sides are not in this repository and are modelled from the   *)
(* spec (4.2).  A message is a record; its payload is left out, its id    *)
(* names the request a response answers.                                   *)
(***************************************************************************)
EXTENDS Naturals, Sequences, SequencesExt, FiniteSets

CONSTANTS
    Uuid,         \* p->uuid_str, the module's route identity
    ParentUuid,   \* p->parent_uuid_str, the broker's identity
    Hops,         \* other route identities (clients of the broker or module)
    BrokerIds,    \* requests the broker sends to the module
    ModuleIds,    \* requests the module sends to the broker
    Topics,       \* request topics, the module status topic among them
    Users,        \* user ids, FLUX_USERID_UNKNOWN among them
    Roles,        \* role masks, FLUX_ROLE_NONE among them
    UNKNOWN,      \* FLUX_USERID_UNKNOWN
    NONE,         \* FLUX_ROLE_NONE
    OWNER,        \* a role mask with the FLUX_ROLE_OWNER bit
    ChanCred,     \* p->cred: [userid, rolemask], fixed by module_create()
    ModCreds,     \* credentials the module may set on what it sends
    MaxHops       \* bound on the route stack the sender of a request chose

ASSUME /\ {Uuid, ParentUuid} \cap Hops = {}
       /\ UNKNOWN \in Users /\ NONE \in Roles /\ OWNER \in Roles
       /\ ChanCred.userid \in Users \ {UNKNOWN}
       /\ ChanCred.rolemask = OWNER
       /\ "broker.module-status" \in Topics
       /\ ModCreds \subseteq [userid : Users, rolemask : Roles]

Creds == [userid : Users, rolemask : Roles]
Routes == UNION {[1..n -> Hops] : n \in 0..MaxHops}

\* A message as it crosses the channel.
Msg(type, id, topic, routes, cred) ==
    [type |-> type, id |-> id, topic |-> topic, routes |-> routes, cred |-> cred]

VARIABLES
    toMod,      \* frames queued at the broker end of the socket, for the module
    toBroker,   \* frames queued by the module, for module_recvmsg()
    muted,      \* p->muted
    brokerGot,  \* messages module_recvmsg() returned to the broker
    modGot,     \* messages the module's handle received
    orig,       \* id -> the route stack of the request when its sender sent it
    modCred,    \* id -> the credential the module set on its message
    answered    \* ids of requests a response was sent for, by either side

vars == <<toMod, toBroker, muted, brokerGot, modGot, orig, modCred, answered>>

Init ==
    /\ toMod = <<>>
    /\ toBroker = <<>>
    /\ muted = FALSE
    /\ brokerGot = {}
    /\ modGot = {}
    /\ orig = <<>>
    /\ modCred = <<>>
    /\ answered = {}

-----------------------------------------------------------------------------
(* The rewriting functions of module.c.                                   *)

\* Mutant: a request to the module is sent without the broker's hop.
SendRoutesNoPush(type, routes) ==
    IF type = "response" THEN Front(routes) ELSE routes

\* The route stack module_sendmsg() transmits: a request gets the broker's
\* uuid pushed (DEALER), a response has its last hop deleted (ROUTER), an
\* event is sent verbatim.
SendRoutes(type, routes) ==
    CASE type = "request" -> Append(routes, ParentUuid)
      [] type = "response" -> Front(routes)
      [] OTHER -> routes

\* The route stack module_recvmsg() returns: a response loses its last
\* hop, a request or an event gets the module's uuid pushed.
RecvRoutes(type, routes) ==
    IF type = "response" THEN Front(routes) ELSE Append(routes, Uuid)

\* Mutant: an empty role mask is passed on.
NormalizeCredKeepsNoRole(c) ==
    [userid |-> IF c.userid = UNKNOWN THEN ChanCred.userid ELSE c.userid,
     rolemask |-> c.rolemask]

\* module_recvmsg(): an unknown userid or an empty role mask is replaced by
\* the channel's credential; what the module set is kept.
NormalizeCred(c) ==
    [userid |-> IF c.userid = UNKNOWN THEN ChanCred.userid ELSE c.userid,
     rolemask |-> IF c.rolemask = NONE THEN ChanCred.rolemask ELSE c.rolemask]

\* The muted check of module_sendmsg().
SendAllowed(m) ==
    ~muted \/ (m.type = "response" /\ m.topic = "broker.module-status")

-----------------------------------------------------------------------------
(* Broker side.                                                           *)

\* module_sendmsg() of a message m of the broker: refused with ENOSYS when
\* muted, else queued with its route stack rewritten.
BrokerSend(m) ==
    IF SendAllowed(m)
       THEN toMod' = Append(toMod,
                            [m EXCEPT !.routes = SendRoutes(m.type, m.routes)])
       ELSE UNCHANGED toMod

\* The broker routes request id, which came with route stack r, to the
\* module.
BrokerRequest(id, r, topic) ==
    /\ id \in BrokerIds \ DOMAIN orig
    /\ orig' = orig @@ (id :> r)
    /\ BrokerSend(Msg("request", id, topic, r, ChanCred))
    /\ UNCHANGED <<toBroker, muted, brokerGot, modGot, modCred, answered>>

\* The broker sends an event to the module (module_event_cast()).
BrokerEvent(id) ==
    /\ id \in BrokerIds \ DOMAIN orig
    /\ orig' = orig @@ (id :> <<>>)
    /\ BrokerSend(Msg("event", id, "event", <<>>, ChanCred))
    /\ UNCHANGED <<toBroker, muted, brokerGot, modGot, modCred, answered>>

\* The broker answers a request it received from the module; the response
\* carries the request's route stack.
BrokerRespond(m) ==
    /\ m.type = "request"
    /\ m.id \notin answered
    /\ answered' = answered \cup {m.id}
    /\ BrokerSend(Msg("response", m.id, m.topic, m.routes, ChanCred))
    /\ UNCHANGED <<toBroker, muted, brokerGot, modGot, orig, modCred>>

\* module_mute().
Mute ==
    /\ ~muted
    /\ muted' = TRUE
    /\ UNCHANGED <<toMod, toBroker, brokerGot, modGot, orig, modCred, answered>>

\* module_cb() -> module_recvmsg(): the next frame, with its route stack
\* and credential rewritten.
BrokerRecv ==
    /\ toBroker # <<>>
    /\ LET m == Head(toBroker)
       IN brokerGot' = brokerGot \cup
              {[m EXCEPT !.routes = RecvRoutes(m.type, m.routes),
                         !.cred = NormalizeCred(m.cred)]}
    /\ toBroker' = Tail(toBroker)
    /\ UNCHANGED <<toMod, muted, modGot, orig, modCred, answered>>

-----------------------------------------------------------------------------
(* Module side (the module's flux handle).                                *)

\* The module sends request id with route stack r and credential c.
ModuleRequest(id, r, topic, c) ==
    /\ id \in ModuleIds \ DOMAIN orig
    /\ orig' = orig @@ (id :> r)
    /\ modCred' = modCred @@ (id :> c)
    /\ toBroker' = Append(toBroker, Msg("request", id, topic, r, c))
    /\ UNCHANGED <<toMod, muted, brokerGot, modGot, answered>>

\* The module publishes an event.
ModuleEvent(id, c) ==
    /\ id \in ModuleIds \ DOMAIN orig
    /\ orig' = orig @@ (id :> <<>>)
    /\ modCred' = modCred @@ (id :> c)
    /\ toBroker' = Append(toBroker, Msg("event", id, "event", <<>>, c))
    /\ UNCHANGED <<toMod, muted, brokerGot, modGot, answered>>

\* The module's handle receives the next frame.
ModuleRecv ==
    /\ toMod # <<>>
    /\ modGot' = modGot \cup {Head(toMod)}
    /\ toMod' = Tail(toMod)
    /\ UNCHANGED <<toBroker, muted, brokerGot, orig, modCred, answered>>

\* The module answers a request it received, with credential c.
ModuleRespond(m, c) ==
    /\ m.type = "request"
    /\ m.id \notin answered
    /\ answered' = answered \cup {m.id}
    /\ modCred' = modCred @@ (m.id :> c)
    /\ toBroker' = Append(toBroker, Msg("response", m.id, m.topic, m.routes, c))
    /\ UNCHANGED <<toMod, muted, brokerGot, modGot, orig>>

Next ==
    \/ \E id \in BrokerIds, r \in Routes, tp \in Topics :
          BrokerRequest(id, r, tp)
    \/ \E id \in BrokerIds : BrokerEvent(id)
    \/ \E m \in brokerGot : BrokerRespond(m)
    \/ Mute
    \/ BrokerRecv
    \/ \E id \in ModuleIds, r \in Routes, tp \in Topics, c \in ModCreds :
          ModuleRequest(id, r, tp, c)
    \/ \E id \in ModuleIds, c \in ModCreds : ModuleEvent(id, c)
    \/ ModuleRecv
    \/ \E m \in modGot, c \in ModCreds : ModuleRespond(m, c)

Spec == Init /\ [][Next]_vars

-----------------------------------------------------------------------------
(* Properties.                                                            *)

TypeOK ==
    /\ muted \in BOOLEAN
    /\ \A m \in brokerGot \cup modGot \cup ToSet(toMod) \cup ToSet(toBroker) :
          /\ m.type \in {"request", "response", "event"}
          /\ m.id \in BrokerIds \cup ModuleIds
          /\ m.cred \in Creds
    /\ DOMAIN orig \subseteq BrokerIds \cup ModuleIds
    /\ \A id \in DOMAIN modCred : modCred[id] \in Creds
    /\ answered \subseteq DOMAIN orig

\* DEALER/ROUTER emulation (spec 4.2): a request or event that crossed the
\* channel carries the sender's route stack with the sender's hop pushed
\* (the module's uuid toward the broker, the broker's toward the module),
\* and a response that crossed it carries exactly the route stack its
\* request had before it crossed, so the receiver routes it on to the
\* original requester.  Takes a request, a response and both rewrites.
RoutesRoundTrip ==
    /\ \A m \in brokerGot :
          m.routes = IF m.type = "response" THEN orig[m.id]
                     ELSE Append(orig[m.id], Uuid)
    /\ \A m \in modGot :
          m.routes = CASE m.type = "response" -> orig[m.id]
                       [] m.type = "request" -> Append(orig[m.id], ParentUuid)
                       [] OTHER -> orig[m.id]

\* Every message module_recvmsg() returns names a user and a role, and a
\* user or role the module set (a connector speaking for its client) is
\* passed on unchanged.
CredNormalized ==
    \A m \in brokerGot :
        /\ m.cred.userid # UNKNOWN
        /\ m.cred.rolemask # NONE
        /\ modCred[m.id].userid # UNKNOWN => m.cred.userid = modCred[m.id].userid
        /\ modCred[m.id].rolemask # NONE =>
              m.cred.rolemask = modCred[m.id].rolemask

=============================================================================
