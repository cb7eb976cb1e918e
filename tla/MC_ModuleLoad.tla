---------------------------- MODULE MC_ModuleLoad ----------------------------
(* Artifacts for module_create():                                          *)
(*   d/m.so      mod_name "m", loads                                       *)
(*   m.sock.so   no mod_name, loads                                        *)
(*   x/m.so      mod_name "k" (differs from the name the path gives)       *)
(*   bad.so      does not load                                              *)
(*   n.so        has no mod_main                                            *)
(* Paths and names are short sequences of characters, so the name taken    *)
(* from the path and the error message are computed as module.c does.     *)
EXTENDS ModuleLoad

MC_Art ==
    [a1 |-> [path |-> <<"d", "/", "m", ".", "s", "o">>, loads |-> TRUE,
             hasMain |-> TRUE, modName |-> <<"m">>],
     a2 |-> [path |-> <<"m", ".", "s", "o", "c", "k", ".", "s", "o">>,
             loads |-> TRUE, hasMain |-> TRUE, modName |-> NULL],
     a3 |-> [path |-> <<"x", "/", "m", ".", "s", "o">>, loads |-> TRUE,
             hasMain |-> TRUE, modName |-> <<"k">>],
     a4 |-> [path |-> <<"b", ".", "s", "o">>, loads |-> FALSE,
             hasMain |-> FALSE, modName |-> NULL],
     a5 |-> [path |-> <<"n", ".", "s", "o">>, loads |-> TRUE,
             hasMain |-> FALSE, modName |-> NULL]]

MC_Artifacts == DOMAIN MC_Art

MC_NameArgs == {NULL, <<"m">>, <<"k">>}
=============================================================================
