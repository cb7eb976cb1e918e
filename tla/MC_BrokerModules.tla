--------------------------- MODULE MC_BrokerModules ---------------------------
EXTENDS BrokerModules, TLC

\* Modules are interchangeable: each registers a service under its own name.
ModSymmetry == Permutations(Mods)
====
