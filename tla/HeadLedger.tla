----------------------------- MODULE HeadLedger -----------------------------
(***************************************************************************)
(* What an anchored log promises its readers, whichever contract, relayer  *)
(* and chain carry it: a growing set of commitments "the first `size`      *)
(* leaves have this root", each for a size larger than every earlier one   *)
(* and never withdrawn, so that a size has one root for ever (invariant    *)
(* I-2 of the repository's PLAN.md, section 5).                            *)
(***************************************************************************)
EXTENDS Naturals

CONSTANTS LedgerRoot, LedgerSize

VARIABLE commits

Commit == [size: LedgerSize, root: LedgerRoot]

LedgerInit == commits = {}

Publish(size, root) ==
    /\ size > 0
    /\ \A c \in commits : c.size < size
    /\ commits' = commits \cup {[size |-> size, root |-> root]}

LedgerNext == \E size \in LedgerSize, root \in LedgerRoot : Publish(size, root)

LedgerSpec == LedgerInit /\ [][LedgerNext]_commits
=============================================================================
