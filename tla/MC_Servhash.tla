---------------------------- MODULE MC_Servhash ----------------------------
(* Two clients; one name free upstream and, where a run needs it, one   *)
(* name another peer already holds.                                     *)
EXTENDS Servhash

OneName == {"x"}
TwoNames == {"x", "y"}
NoForeign == {}
ForeignY == {"y"}
=============================================================================
