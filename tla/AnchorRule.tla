----------------------------- MODULE AnchorRule -----------------------------
(***************************************************************************)
(* The anchoring rule D-17 of packages/contracts/src/GraspLog.sol, as      *)
(* operators over a chain's anchor history.  Histories are sequences; the  *)
(* contract's index i is position i + 1.  A Merkle root is an opaque       *)
(* value, and the root of the sparse revocation tree is the set of consent *)
(* keys in it (the tree hashes that set injectively), so that a            *)
(* (non-)membership proof exists exactly when the key is (not) in the set. *)
(***************************************************************************)
EXTENDS Naturals, Sequences

LastAnchor(hist) == hist[Len(hist)]

\* A slip used as a mutant: a check is lost.
NeverRefuses(hist, root, size) == FALSE

\* The five ways anchor() refuses a triple, in the order the code tests them.
SizeMustGrow(hist, size)      == hist = <<>> /\ size = 0
SizeMustNotShrink(hist, size) == hist # <<>> /\ size < LastAnchor(hist).size
RootMustChange(hist, root, size) ==
    hist # <<>> /\ size > LastAnchor(hist).size /\ root = LastAnchor(hist).root
RootMustMatchAtSameSize(hist, root, size) ==
    hist # <<>> /\ size = LastAnchor(hist).size /\ root # LastAnchor(hist).root
NothingToAnchor(hist, root, size, rev) ==
    /\ hist # <<>>
    /\ size = LastAnchor(hist).size
    /\ root = LastAnchor(hist).root
    /\ rev = LastAnchor(hist).revocationRoot

\* anchor() stores the triple: none of its reverts applies.
Accepts(hist, root, size, rev) ==
    /\ ~SizeMustGrow(hist, size)
    /\ ~SizeMustNotShrink(hist, size)
    /\ ~RootMustChange(hist, root, size)
    /\ ~RootMustMatchAtSameSize(hist, root, size)
    /\ ~NothingToAnchor(hist, root, size, rev)

\* The history after an accepted call; prevRoot is recorded, never passed in.
Extend(hist, root, size, rev, noRoot) ==
    Append(hist,
           [root           |-> root,
            prevRoot       |-> IF hist = <<>> THEN noRoot ELSE LastAnchor(hist).root,
            revocationRoot |-> rev,
            size           |-> size])

\* verifyConsentLive(index, key): the key's absence is provable at that anchor.
ConsentLive(hist, i, key) == key \notin hist[i].revocationRoot

\* revocationOnset(index, key) returns: present here, absent one anchor before.
Onset(hist, i, key) ==
    /\ key \in hist[i].revocationRoot
    /\ i > 1 => key \notin hist[i - 1].revocationRoot
=============================================================================
