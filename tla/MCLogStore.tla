----------------------------- MODULE MCLogStore -----------------------------
(***************************************************************************)
(* LogStore for TLC: two processes sharing the file and seven leaves, so   *)
(* that the log passes through sizes 3, 5 and 6, whose roots take two      *)
(* reads, size 7, which takes three, and size 4, whose last append         *)
(* completes two pairs in one transaction.                                 *)
(***************************************************************************)
EXTENDS LogStore, TLC

CONSTANTS api, daemon, nobody, l1, l2, l3, l4, l5, l6, l7, none

MCProcess == {api, daemon}
MCLeaf    == {l1, l2, l3, l4, l5, l6, l7}
Symmetry  == Permutations(MCProcess) \cup Permutations(MCLeaf)
=============================================================================
