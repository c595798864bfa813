------------------------------ MODULE GraspLog ------------------------------
(***************************************************************************)
(* The contract packages/contracts/src/GraspLog.sol: the append-only       *)
(* record of log heads, the first-sighting index of roots, and the         *)
(* two-step handover of the anchorer role.  A call that reverts changes    *)
(* nothing and is not a step.  The caller of anchor() is trusted with the  *)
(* root it passes: every root and size may be submitted here.              *)
(***************************************************************************)
EXTENDS AnchorRule, Accounts

CONSTANTS
    Root,         \* log roots a caller can submit
    NoRoot,       \* bytes32(0), the prevRoot of the first anchor
    Key,          \* consent keys
    MaxSize,      \* largest size submitted (the code's bound is 2^64 - 1)
    MaxAnchors    \* bound on the length of the history

ASSUME BoundsAssumption == MaxSize \in Nat /\ MaxAnchors \in Nat

VARIABLES
    anchors,          \* _anchors
    indexOfRoot,      \* _indexOfRoot: index + 1 of the first sighting, 0 if none
    anchorer,
    pendingAnchorer

vars == <<anchors, indexOfRoot, anchorer, pendingAnchorer>>

Size    == 0 .. MaxSize
RevRoot == SUBSET Key
Anchor  == [root: Root, prevRoot: Root \cup {NoRoot}, revocationRoot: RevRoot, size: Size]

Init ==
    /\ anchors = <<>>
    /\ indexOfRoot = [r \in Root |-> 0]
    /\ anchorer \in Address
    /\ pendingAnchorer = ZeroAddress

\* A slip used as a mutant: an index that follows the last sighting.
AnchorHeadIndexingLast(sender, root, size, rev) ==
    /\ sender = anchorer
    /\ Len(anchors) < MaxAnchors
    /\ Accepts(anchors, root, size, rev)
    /\ anchors' = Extend(anchors, root, size, rev, NoRoot)
    /\ indexOfRoot' = [indexOfRoot EXCEPT ![root] = Len(anchors) + 1]
    /\ UNCHANGED <<anchorer, pendingAnchorer>>

\* anchor(root, size, revocationRoot), sent by the anchorer and not reverted
AnchorHead(sender, root, size, rev) ==
    /\ sender = anchorer
    /\ Len(anchors) < MaxAnchors
    /\ Accepts(anchors, root, size, rev)
    /\ anchors' = Extend(anchors, root, size, rev, NoRoot)
    /\ indexOfRoot' = IF indexOfRoot[root] = 0
                      THEN [indexOfRoot EXCEPT ![root] = Len(anchors) + 1]
                      ELSE indexOfRoot
    /\ UNCHANGED <<anchorer, pendingAnchorer>>

TransferAnchorer(sender, to) ==
    /\ sender = anchorer
    /\ pendingAnchorer' = to
    /\ UNCHANGED <<anchors, indexOfRoot, anchorer>>

AcceptAnchorer(sender) ==
    /\ sender = pendingAnchorer
    /\ anchorer' = sender
    /\ pendingAnchorer' = ZeroAddress
    /\ UNCHANGED <<anchors, indexOfRoot>>

Next ==
    \E sender \in Address :
        \/ \E root \in Root, size \in Size, rev \in RevRoot :
              AnchorHead(sender, root, size, rev)
        \/ \E to \in Address \cup {ZeroAddress} : TransferAnchorer(sender, to)
        \/ AcceptAnchorer(sender)

Spec == Init /\ [][Next]_vars

-----------------------------------------------------------------------------
\* The storage of the contract keeps its shape; in particular the anchorer is
\* always a real account, so anchoring can be neither opened nor lost for good.
TypeOK ==
    /\ anchors \in Seq(Anchor)
    /\ indexOfRoot \in [Root -> Nat]
    /\ anchorer \in Address
    /\ pendingAnchorer \in Address \cup {ZeroAddress}

\* Sizes never decrease along the whole history, from a first anchor of at
\* least one leaf (GraspLog.sol:83-96, invariant I-2), and a size is bound to
\* one root for good: any two anchors of equal size carry the same root,
\* however many revocation-only anchors lie between them.
HeadsNeverFork ==
    \A i, j \in 1 .. Len(anchors) :
        i <= j =>
            /\ 0 < anchors[i].size
            /\ anchors[i].size <= anchors[j].size
            /\ anchors[i].size = anchors[j].size => anchors[i].root = anchors[j].root

\* indexOfRoot answers "found" exactly for the anchored roots, and with the
\* first anchor that carried the root, even when later anchors repeat it at
\* the same size or come back to it at a larger one (GraspLog.sol:45-47, 157).
FirstSighting ==
    \A r \in Root :
        LET i == indexOfRoot[r] IN
        /\ i = 0 => \A j \in 1 .. Len(anchors) : anchors[j].root # r
        /\ i # 0 => /\ i \in 1 .. Len(anchors)
                    /\ anchors[i].root = r
                    /\ \A j \in 1 .. i - 1 : anchors[j].root # r

\* No step rewrites or drops an anchor that was readable before it, nor moves
\* a first sighting that was already answered (invariant I-2).
HistoryIsAppendOnly ==
    [][ /\ Len(anchors) <= Len(anchors')
        /\ \A i \in 1 .. Len(anchors) : anchors'[i] = anchors[i]
        /\ \A r \in Root : indexOfRoot[r] # 0 => indexOfRoot'[r] = indexOfRoot[r] ]_vars

\* The commitments a reader of the chain can rely on.
Commitments == {[size |-> anchors[i].size, root |-> anchors[i].root] : i \in 1 .. Len(anchors)}

Ledger == INSTANCE HeadLedger
          WITH LedgerRoot <- Root, LedgerSize <- Size, commits <- Commitments

\* The contract implements the abstract ledger: a revocation-only anchor is
\* invisible to it, every other anchor publishes one new size.
ImplementsLedger == Ledger!LedgerSpec
=============================================================================
