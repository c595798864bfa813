---------------------------- MODULE MCChainReads ----------------------------
(***************************************************************************)
(* ChainReads for TLC: two requests at a time, a primary and a mirror.     *)
(***************************************************************************)
EXTENDS ChainReads

CONSTANTS p1, p2, m1, m2

MCOrder == <<"primary", "mirror">>
MCSymmetry == Permutations({p1, p2}) \cup Permutations({m1, m2})
=============================================================================
