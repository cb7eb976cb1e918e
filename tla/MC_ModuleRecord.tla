--------------------------- MODULE MC_ModuleRecord ---------------------------
(* Topics "a", "ab" and "b": "a" is a strict prefix of "ab", so a match  *)
(* by prefix and a match by equality differ.                            *)
EXTENDS ModuleRecord

MC_Topics == {<<"a">>, <<"a", "b">>, <<"b">>}
=============================================================================
