------------------------------ MODULE LeafLog -------------------------------
(***************************************************************************)
(* What the log service promises whatever process writes to it: a sequence *)
(* of distinct leaves that only grows, one leaf at a time, at its end.     *)
(***************************************************************************)
EXTENDS Naturals, Sequences

CONSTANT Leaf

VARIABLE log

LogInit == log = <<>>

AppendLeaf(l) ==
    /\ \A i \in 1 .. Len(log) : log[i] # l
    /\ log' = Append(log, l)

LogNext == \E l \in Leaf : AppendLeaf(l)

LogSpec == LogInit /\ [][LogNext]_log
=============================================================================
