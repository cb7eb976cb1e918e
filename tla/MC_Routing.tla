----------------------------- MODULE MC_Routing -----------------------------
(* Values for Routing: the instance owner's uid and a second user (a       *)
(* connector module's client), and the role masks none, OWNER|LOCAL (the   *)
(* channel's) and USER.                                                    *)
EXTENDS Routing

MC_Users == {"unknown", "owner", "alice"}
MC_Roles == {"none", "owner", "user"}
MC_ChanCred == [userid |-> "owner", rolemask |-> "owner"]
\* What a module may set: nothing (the handle's default), a client's full
\* credential, or a client's user with no role.
MC_ModCreds == {[userid |-> "unknown", rolemask |-> "none"],
                [userid |-> "alice", rolemask |-> "user"],
                [userid |-> "alice", rolemask |-> "none"]}
MC_Topics == {"broker.module-status", "svc"}
====
