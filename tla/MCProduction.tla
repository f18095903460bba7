---------------------------- MODULE MCProduction ----------------------------
(* Small instances of Production for TLC. *)
EXTENDS Production

CONSTANTS s1, s2

PoolOfTwo == <<"d1", "d2">>
InOrder == <<{s1}, {s2}>>
\* The key changes its letter.
Swap == {[l \in 0..1 |-> 1 - l]}
=============================================================================
