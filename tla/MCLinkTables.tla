---------------------------- MODULE MCLinkTables ----------------------------
(* LinkTables on a small instance: two group objects, one object number the *)
(* device does not have, two addresses, a value to write and another.       *)
EXTENDS LinkTables, TLC

CONSTANTS o1, o2, phantom, g1, g2, v1, v2

MCObject == {o1, o2, phantom}
MCPresent == {o1, o2}
MCGAddr == {g1, g2}
MCValue == {v1, v2}
Symmetric == Permutations(MCPresent) \cup Permutations(MCGAddr) \cup Permutations(MCValue)
=============================================================================
