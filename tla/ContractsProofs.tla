-------------------------- MODULE ContractsProofs ---------------------------
(***************************************************************************)
(* Theorems about GraspLog and LicenceRegistry, the two contracts, for     *)
(* every set of accounts, roots, keys and terms, every price, every depth  *)
(* of re-entrance and every bound; and about ChainReads, which answers     *)
(* from them, for any chains, mirrors, clients and times.                  *)
(*                                                                         *)
(* The log.  The inductive invariant is TypeOK with HeadsNeverFork and     *)
(* FirstSighting: a step only ever compares the submitted triple with the  *)
(* last anchor, and it is the monotonicity of all sizes that turns this    *)
(* local test into a fact about every pair of anchors.                     *)
(*                                                                         *)
(* The registry.  Its properties are about sums, and hold only between two *)
(* calls of the token; the invariant RegistryInv says what holds in        *)
(* between.  A storage is sound for the first k waiting calls when its     *)
(* books balance with what those calls hold back (Books), its receipts     *)
(* match corpora the log anchors (Matches), and a call that is still       *)
(* collecting asks for the price of its corpus (Collecting).  The          *)
(* invariant is that the storage is sound for all waiting calls, and that  *)
(* what each of them saved is sound for those below it: with its own       *)
(* shares if license has collected, without them if it has not.  That is   *)
(* why a revert, however much its hooks did, lands in books that balance.  *)
(*                                                                         *)
(* Sums are folds.  The fold over a finite set is shown to be the number   *)
(* of pairs it counts, and from that how it changes with one term; the     *)
(* least counterexample of a well-founded order replaces the induction.    *)
(***************************************************************************)
EXTENDS GraspLog, LicenceRegistry, ChainReads, FiniteSetTheorems, SequenceTheorems,
        WellFoundedInduction, TLAPS

-----------------------------------------------------------------------------
(* What one accepted call does to the history. *)

\* The last position of a non-empty sequence, and what is there.
LEMMA LastInRange ==
    ASSUME NEW S, NEW s \in Seq(S), s # <<>>
    PROVE  Len(s) \in 1 .. Len(s) /\ s[Len(s)] \in S
<1>1. Len(s) \in Nat
  BY LenProperties
<1>2. Len(s) # 0
  BY EmptySeq
<1>3. Len(s) \in 1 .. Len(s)
  BY <1>1, <1>2
<1> QED
  BY <1>3, ElementOfSeq

\* The history after an accepted call: one entry longer, every older entry in
\* place, the new one carrying the submitted triple.
LEMMA ExtendShape ==
    ASSUME NEW hist \in Seq(Anchor), NEW root \in Root, NEW size \in Size, NEW rev \in RevRoot,
           NEW new, new = Extend(hist, root, size, rev, NoRoot)
    PROVE  /\ new \in Seq(Anchor)
           /\ Len(new) = Len(hist) + 1
           /\ \A i \in 1 .. Len(hist) : new[i] = hist[i]
           /\ new[Len(hist) + 1].root = root
           /\ new[Len(hist) + 1].size = size
           /\ new[Len(hist) + 1].revocationRoot = rev
<1>1. PICK prev \in Root \cup {NoRoot} :
        Extend(hist, root, size, rev, NoRoot)
          = Append(hist, [root |-> root, prevRoot |-> prev, revocationRoot |-> rev, size |-> size])
  <2>1. CASE hist = <<>>
    BY <2>1 DEF Extend
  <2>2. CASE hist # <<>>
    <3>1. LastAnchor(hist) \in Anchor
      BY <2>2, LastInRange DEF LastAnchor
    <3>2. LastAnchor(hist).root \in Root
      BY <3>1 DEF Anchor
    <3> QED
      BY <3>2, <2>2 DEF Extend
  <2> QED
    BY <2>1, <2>2
<1>2. [root |-> root, prevRoot |-> prev, revocationRoot |-> rev, size |-> size] \in Anchor
  BY DEF Anchor
<1>3. PICK e \in Anchor : /\ new = Append(hist, e)
                          /\ e.root = root /\ e.size = size /\ e.revocationRoot = rev
  BY <1>1, <1>2
<1> QED
  BY <1>3, AppendProperties

\* An accepted triple never goes below the last anchor, and keeps its root
\* when it stays at its size.
LEMMA AcceptsBounds ==
    ASSUME NEW hist \in Seq(Anchor), NEW root \in Root, NEW size \in Size, NEW rev \in RevRoot,
           Accepts(hist, root, size, rev)
    PROVE  /\ hist = <<>> => size > 0
           /\ hist # <<>> =>
                 /\ hist[Len(hist)].size <= size
                 /\ hist[Len(hist)].size = size => hist[Len(hist)].root = root
<1>1. CASE hist = <<>>
  BY <1>1, BoundsAssumption DEF Accepts, SizeMustGrow, Size
<1>2. CASE hist # <<>>
  <2>1. hist[Len(hist)] \in Anchor
    BY <1>2, LastInRange
  <2>2. hist[Len(hist)].size \in Nat /\ size \in Nat
    BY <2>1, BoundsAssumption DEF Anchor, Size
  <2> QED
    BY <1>2, <2>2 DEF Accepts, SizeMustNotShrink, RootMustMatchAtSameSize, LastAnchor
<1> QED
  BY <1>1, <1>2

-----------------------------------------------------------------------------
(* The state invariants. *)

\* Types are kept.
LEMMA TypeStep == TypeOK /\ [Next]_vars => TypeOK'
<1> SUFFICES ASSUME TypeOK, [Next]_vars
             PROVE  TypeOK'
  OBVIOUS
<1>1. ASSUME NEW sender \in Address, NEW root \in Root, NEW size \in Size, NEW rev \in RevRoot,
             AnchorHead(sender, root, size, rev)
      PROVE  TypeOK'
  <2>1. anchors' \in Seq(Anchor)
    BY <1>1, ExtendShape DEF AnchorHead, TypeOK
  <2>2. Len(anchors) + 1 \in Nat
    BY LenProperties DEF TypeOK
  <2>3. indexOfRoot' \in [Root -> Nat]
    BY <1>1, <2>2 DEF AnchorHead, TypeOK
  <2> QED
    BY <1>1, <2>1, <2>3 DEF AnchorHead, TypeOK
<1>2. ASSUME NEW sender \in Address, NEW to \in Address \cup {ZeroAddress},
             TransferAnchorer(sender, to)
      PROVE  TypeOK'
  BY <1>2 DEF TransferAnchorer, TypeOK
<1>3. ASSUME NEW sender \in Address, AcceptAnchorer(sender)
      PROVE  TypeOK'
  BY <1>3 DEF AcceptAnchorer, TypeOK
<1>4. CASE UNCHANGED vars
  BY <1>4 DEF vars, TypeOK
<1> QED
  BY <1>1, <1>2, <1>3, <1>4 DEF Next

\* Every reachable state is well typed, whatever is submitted by whom.
THEOREM TypeCorrect == Spec => []TypeOK
<1>1. Init => TypeOK
  BY DEF Init, TypeOK
<1> QED
  BY <1>1, TypeStep, PTL DEF Spec

\* An accepted triple forks no head.
LEMMA ForkStep == TypeOK /\ HeadsNeverFork /\ [Next]_vars => HeadsNeverFork'
<1> SUFFICES ASSUME TypeOK, HeadsNeverFork, [Next]_vars
             PROVE  HeadsNeverFork'
  OBVIOUS
<1>1. ASSUME NEW sender \in Address, NEW root \in Root, NEW size \in Size, NEW rev \in RevRoot,
             AnchorHead(sender, root, size, rev)
      PROVE  HeadsNeverFork'
  <2> DEFINE n == Len(anchors)
  <2>1. /\ anchors \in Seq(Anchor)
        /\ n \in Nat
        /\ Accepts(anchors, root, size, rev)
        /\ anchors' = Extend(anchors, root, size, rev, NoRoot)
    BY <1>1, LenProperties DEF AnchorHead, TypeOK
  <2>2. /\ Len(anchors') = n + 1
        /\ \A i \in 1 .. n : anchors'[i] = anchors[i]
        /\ anchors'[n + 1].root = root
        /\ anchors'[n + 1].size = size
    BY <2>1, ExtendShape
  <2>3. \A i \in 1 .. n : anchors[i].size \in Nat
    <3>1. \A i \in 1 .. n : anchors[i] \in Anchor
      BY <2>1, ElementOfSeq
    <3> QED
      BY <3>1, BoundsAssumption DEF Anchor, Size
  <2>4. /\ n = 0 => size > 0
        /\ n > 0 => /\ anchors[n].size <= size
                    /\ anchors[n].size = size => anchors[n].root = root
    <3>1. /\ anchors = <<>> => size > 0
          /\ anchors # <<>> =>
                /\ anchors[Len(anchors)].size <= size
                /\ anchors[Len(anchors)].size = size => anchors[Len(anchors)].root = root
      BY <2>1, AcceptsBounds
    <3>2. n = 0 <=> anchors = <<>>
      BY <2>1, EmptySeq
    <3> QED
      BY <3>1, <3>2, <2>1
  <2>5. size \in Nat
    BY BoundsAssumption DEF Size
  <2>6. ASSUME NEW i \in 1 .. n, NEW j \in 1 .. n, i <= j
        PROVE  /\ 0 < anchors[i].size
               /\ anchors[i].size <= anchors[j].size
               /\ anchors[i].size = anchors[j].size => anchors[i].root = anchors[j].root
    BY <2>6 DEF HeadsNeverFork
  <2>7. ASSUME NEW i \in 1 .. n
        PROVE  /\ 0 < anchors[i].size
               /\ anchors[i].size <= size
               /\ anchors[i].size = size => anchors[i].root = root
    <3>1. n \in 1 .. n /\ i <= n
      BY <2>1
    <3>2. /\ 0 < anchors[i].size
          /\ anchors[i].size <= anchors[n].size
          /\ anchors[i].size = anchors[n].size => anchors[i].root = anchors[n].root
      BY <3>1, <2>6
    <3>3. anchors[i].size \in Nat /\ anchors[n].size \in Nat
      BY <3>1, <2>3
    <3>4. /\ anchors[n].size <= size
          /\ anchors[n].size = size => anchors[n].root = root
      BY <2>1, <2>4, <3>1
    <3> QED
      BY <3>2, <3>3, <3>4, <2>5
  <2>8. 0 < size
    <3>1. CASE n = 0
      BY <3>1, <2>4
    <3>2. CASE n > 0
      <4>1. n \in 1 .. n
        BY <3>2, <2>1
      <4> QED
        BY <4>1, <2>7, <2>3, <2>5
    <3> QED
      BY <3>1, <3>2, <2>1
  <2>9. SUFFICES ASSUME NEW i \in 1 .. n + 1, NEW j \in 1 .. n + 1, i <= j
                 PROVE  /\ 0 < anchors'[i].size
                        /\ anchors'[i].size <= anchors'[j].size
                        /\ anchors'[i].size = anchors'[j].size
                             => anchors'[i].root = anchors'[j].root
    BY <2>2 DEF HeadsNeverFork
  <2>10. CASE j \in 1 .. n
    <3>1. i \in 1 .. n
      BY <2>9, <2>10, <2>1
    <3> QED
      BY <3>1, <2>9, <2>10, <2>2, <2>6
  <2>11. CASE j = n + 1 /\ i \in 1 .. n
    BY <2>11, <2>2, <2>7
  <2>12. CASE j = n + 1 /\ i = n + 1
    BY <2>12, <2>2, <2>5, <2>8
  <2> QED
    BY <2>9, <2>10, <2>11, <2>12, <2>1
<1>2. CASE UNCHANGED anchors
  BY <1>2 DEF HeadsNeverFork
<1> QED
  BY <1>1, <1>2 DEF Next, TransferAnchorer, AcceptAnchorer, vars

\* I-2 on chain: however the anchorer behaves, sizes never decrease and a size
\* keeps one root for the whole life of the contract.
THEOREM HeadsNeverForkHolds == Spec => []HeadsNeverFork
<1>1. Init => HeadsNeverFork
  BY DEF Init, HeadsNeverFork
<1> QED
  BY <1>1, TypeCorrect, ForkStep, PTL DEF Spec

\* The index of a root stays at its first sighting.
LEMMA SightingStep == TypeOK /\ FirstSighting /\ [Next]_vars => FirstSighting'
<1> SUFFICES ASSUME TypeOK, FirstSighting, [Next]_vars
             PROVE  FirstSighting'
  OBVIOUS
<1>1. ASSUME NEW sender \in Address, NEW root \in Root, NEW size \in Size, NEW rev \in RevRoot,
             AnchorHead(sender, root, size, rev)
      PROVE  FirstSighting'
  <2>1. /\ anchors \in Seq(Anchor)
        /\ Len(anchors) \in Nat
        /\ anchors' = Extend(anchors, root, size, rev, NoRoot)
        /\ indexOfRoot \in [Root -> Nat]
    BY <1>1, LenProperties DEF AnchorHead, TypeOK
  <2>2. /\ Len(anchors') = Len(anchors) + 1
        /\ \A i \in 1 .. Len(anchors) : anchors'[i] = anchors[i]
        /\ anchors'[Len(anchors) + 1].root = root
    BY <2>1, ExtendShape
  <2>3. \A r \in Root :
           indexOfRoot'[r] = IF r = root /\ indexOfRoot[r] = 0
                             THEN Len(anchors) + 1 ELSE indexOfRoot[r]
    BY <1>1, <2>1 DEF AnchorHead
  <2> SUFFICES ASSUME NEW r \in Root
               PROVE  /\ indexOfRoot'[r] = 0 =>
                            \A j \in 1 .. Len(anchors') : anchors'[j].root # r
                      /\ indexOfRoot'[r] # 0 =>
                            /\ indexOfRoot'[r] \in 1 .. Len(anchors')
                            /\ anchors'[indexOfRoot'[r]].root = r
                            /\ \A j \in 1 .. indexOfRoot'[r] - 1 : anchors'[j].root # r
    BY DEF FirstSighting
  <2>4. /\ indexOfRoot[r] = 0 => \A j \in 1 .. Len(anchors) : anchors[j].root # r
        /\ indexOfRoot[r] # 0 =>
              /\ indexOfRoot[r] \in 1 .. Len(anchors)
              /\ anchors[indexOfRoot[r]].root = r
              /\ \A j \in 1 .. indexOfRoot[r] - 1 : anchors[j].root # r
    BY DEF FirstSighting
  <2>5. CASE r = root /\ indexOfRoot[r] = 0
    BY <2>1, <2>2, <2>3, <2>4, <2>5
  <2>6. CASE r # root /\ indexOfRoot[r] = 0
    BY <2>1, <2>2, <2>3, <2>4, <2>6
  <2>7. CASE indexOfRoot[r] # 0
    <3>1. indexOfRoot'[r] = indexOfRoot[r] /\ indexOfRoot[r] \in Nat
      BY <2>1, <2>3, <2>7
    <3> QED
      BY <3>1, <2>1, <2>2, <2>4, <2>7
  <2> QED
    BY <2>5, <2>6, <2>7
<1>2. CASE UNCHANGED <<anchors, indexOfRoot>>
  BY <1>2 DEF FirstSighting
<1> QED
  BY <1>1, <1>2 DEF Next, TransferAnchorer, AcceptAnchorer, vars

\* indexOfRoot answers with the first anchor that carried a root, for every
\* order in which roots come, stay and come back.
THEOREM FirstSightingHolds == Spec => []FirstSighting
<1>1. Init => FirstSighting
  BY DEF Init, FirstSighting
<1> QED
  BY <1>1, TypeCorrect, SightingStep, PTL DEF Spec

-----------------------------------------------------------------------------
(* The action properties. *)

\* No step rewrites an anchor.
LEMMA AppendOnlyStep ==
    TypeOK /\ [Next]_vars =>
        /\ Len(anchors) <= Len(anchors')
        /\ \A i \in 1 .. Len(anchors) : anchors'[i] = anchors[i]
        /\ \A r \in Root : indexOfRoot[r] # 0 => indexOfRoot'[r] = indexOfRoot[r]
<1> SUFFICES ASSUME TypeOK, [Next]_vars
             PROVE  /\ Len(anchors) <= Len(anchors')
                    /\ \A i \in 1 .. Len(anchors) : anchors'[i] = anchors[i]
                    /\ \A r \in Root : indexOfRoot[r] # 0 => indexOfRoot'[r] = indexOfRoot[r]
  OBVIOUS
<1>1. anchors \in Seq(Anchor) /\ Len(anchors) \in Nat /\ indexOfRoot \in [Root -> Nat]
  BY LenProperties DEF TypeOK
<1>2. ASSUME NEW sender \in Address, NEW root \in Root, NEW size \in Size, NEW rev \in RevRoot,
             AnchorHead(sender, root, size, rev)
      PROVE  /\ Len(anchors) <= Len(anchors')
             /\ \A i \in 1 .. Len(anchors) : anchors'[i] = anchors[i]
             /\ \A r \in Root : indexOfRoot[r] # 0 => indexOfRoot'[r] = indexOfRoot[r]
  <2>1. anchors' = Extend(anchors, root, size, rev, NoRoot)
    BY <1>2 DEF AnchorHead
  <2>2. /\ Len(anchors') = Len(anchors) + 1
        /\ \A i \in 1 .. Len(anchors) : anchors'[i] = anchors[i]
    BY <1>1, <2>1, ExtendShape
  <2>3. \A r \in Root : indexOfRoot[r] # 0 => indexOfRoot'[r] = indexOfRoot[r]
    BY <1>1, <1>2 DEF AnchorHead
  <2> QED
    BY <1>1, <2>2, <2>3
<1>3. CASE UNCHANGED <<anchors, indexOfRoot>>
  BY <1>1, <1>3
<1> QED
  BY <1>2, <1>3 DEF Next, TransferAnchorer, AcceptAnchorer, vars

\* Nothing a reader once read from the contract is ever rewritten.
THEOREM AppendOnly == Spec => HistoryIsAppendOnly
<1>1. TypeOK /\ [Next]_vars =>
        [ /\ Len(anchors) <= Len(anchors')
          /\ \A i \in 1 .. Len(anchors) : anchors'[i] = anchors[i]
          /\ \A r \in Root : indexOfRoot[r] # 0 => indexOfRoot'[r] = indexOfRoot[r] ]_vars
  BY AppendOnlyStep
<1> QED
  BY <1>1, TypeCorrect, PTL DEF Spec, HistoryIsAppendOnly

-----------------------------------------------------------------------------
(* The contract implements the abstract ledger. *)

\* A larger size is one more commitment, everything else a stutter.
LEMMA LedgerStep ==
    TypeOK /\ HeadsNeverFork /\ [Next]_vars => [Ledger!LedgerNext]_Commitments
<1> SUFFICES ASSUME TypeOK, HeadsNeverFork, [Next]_vars
             PROVE  Ledger!LedgerNext \/ Commitments' = Commitments
  OBVIOUS
<1>1. ASSUME NEW sender \in Address, NEW root \in Root, NEW size \in Size, NEW rev \in RevRoot,
             AnchorHead(sender, root, size, rev)
      PROVE  Ledger!LedgerNext \/ Commitments' = Commitments
  <2>1. /\ anchors \in Seq(Anchor)
        /\ Len(anchors) \in Nat
        /\ Accepts(anchors, root, size, rev)
        /\ anchors' = Extend(anchors, root, size, rev, NoRoot)
    BY <1>1, LenProperties DEF AnchorHead, TypeOK
  <2>2. /\ Len(anchors') = Len(anchors) + 1
        /\ \A i \in 1 .. Len(anchors) : anchors'[i] = anchors[i]
        /\ anchors'[Len(anchors) + 1].root = root
        /\ anchors'[Len(anchors) + 1].size = size
    BY <2>1, ExtendShape
  <2>3. /\ anchors = <<>> => size > 0
        /\ anchors # <<>> =>
              /\ anchors[Len(anchors)].size <= size
              /\ anchors[Len(anchors)].size = size => anchors[Len(anchors)].root = root
    BY <2>1, AcceptsBounds
  <2>4. Commitments' = Commitments \cup {[size |-> size, root |-> root]}
    <3>1. ASSUME NEW c \in Commitments'
          PROVE  c \in Commitments \cup {[size |-> size, root |-> root]}
      <4>1. PICK i \in 1 .. Len(anchors') :
                   c = [size |-> anchors'[i].size, root |-> anchors'[i].root]
        BY <3>1 DEF Commitments
      <4>2. CASE i \in 1 .. Len(anchors)
        BY <4>1, <4>2, <2>2 DEF Commitments
      <4>3. CASE i = Len(anchors) + 1
        BY <4>1, <4>3, <2>2
      <4> QED
        BY <4>1, <4>2, <4>3, <2>1, <2>2
    <3>2. ASSUME NEW c \in Commitments
          PROVE  c \in Commitments'
      <4>1. PICK i \in 1 .. Len(anchors) :
                   c = [size |-> anchors[i].size, root |-> anchors[i].root]
        BY <3>2 DEF Commitments
      <4>2. i \in 1 .. Len(anchors') /\ anchors'[i] = anchors[i]
        BY <4>1, <2>1, <2>2
      <4> QED
        BY <4>1, <4>2 DEF Commitments
    <3>3. [size |-> size, root |-> root] \in Commitments'
      <4>1. Len(anchors) + 1 \in 1 .. Len(anchors')
        BY <2>1, <2>2
      <4> QED
        BY <4>1, <2>2 DEF Commitments
    <3> QED
      BY <3>1, <3>2, <3>3
  <2>5. CASE anchors # <<>> /\ size = anchors[Len(anchors)].size
    <3>1. Len(anchors) \in 1 .. Len(anchors)
      BY <2>1, <2>5, LastInRange
    <3>2. [size |-> size, root |-> root] \in Commitments
      BY <2>3, <2>5, <3>1 DEF Commitments
    <3> QED
      BY <2>4, <3>2
  <2>6. CASE ~(anchors # <<>> /\ size = anchors[Len(anchors)].size)
    <3>1. size \in Nat
      BY BoundsAssumption DEF Size
    <3>2. size > 0 /\ \A i \in 1 .. Len(anchors) : anchors[i].size < size
      <4>1. CASE anchors = <<>>
        <5>1. Len(anchors) = 0
          BY <4>1, EmptySeq
        <5> QED
          BY <4>1, <5>1, <2>3
      <4>2. CASE anchors # <<>>
        <5>1. Len(anchors) \in 1 .. Len(anchors) /\ anchors[Len(anchors)] \in Anchor
          BY <2>1, <4>2, LastInRange
        <5>2. anchors[Len(anchors)].size \in Nat
          BY <5>1, BoundsAssumption DEF Anchor, Size
        <5>3. anchors[Len(anchors)].size < size
          BY <2>3, <2>6, <4>2, <5>2, <3>1
        <5>4. \A i \in 1 .. Len(anchors) :
                 /\ 0 < anchors[i].size
                 /\ anchors[i].size <= anchors[Len(anchors)].size
          BY <5>1, <2>1 DEF HeadsNeverFork
        <5>5. \A i \in 1 .. Len(anchors) : anchors[i].size \in Nat
          <6>1. \A i \in 1 .. Len(anchors) : anchors[i] \in Anchor
            BY <2>1, ElementOfSeq
          <6> QED
            BY <6>1, BoundsAssumption DEF Anchor, Size
        <5> QED
          BY <5>1, <5>2, <5>3, <5>4, <5>5, <3>1
      <4> QED
        BY <4>1, <4>2
    <3>3. \A c \in Commitments : c.size < size
      BY <3>2 DEF Commitments
    <3>4. Ledger!Publish(size, root)
      BY <2>4, <3>2, <3>3 DEF Ledger!Publish
    <3> QED
      BY <3>4 DEF Ledger!LedgerNext
  <2> QED
    BY <2>5, <2>6
<1>2. CASE UNCHANGED anchors
  BY <1>2 DEF Commitments
<1> QED
  BY <1>1, <1>2 DEF Next, TransferAnchorer, AcceptAnchorer, vars

\* Whatever is submitted to the contract, its readers see the ledger HeadLedger
\* promises: commitments to ever larger sizes, never withdrawn.
THEOREM LedgerImplemented == Spec => ImplementsLedger
<1>1. Init => Ledger!LedgerInit
  <2> SUFFICES ASSUME Init
               PROVE  Commitments = {}
    BY DEF Ledger!LedgerInit
  <2>1. anchors = <<>> /\ Len(anchors) = 0
    BY EmptySeq DEF Init
  <2> QED
    BY <2>1 DEF Commitments
<1> QED
  BY <1>1, TypeCorrect, HeadsNeverForkHolds, LedgerStep, PTL
  DEF Spec, ImplementsLedger, Ledger!LedgerSpec

-----------------------------------------------------------------------------
(* Sums over finite sets *)

\* As many pairs for each x of T as f[x] says.
Pairs(f, T) == {p \in T \X Nat : p[2] < f[p[1]]}
Count(f, T) == Cardinality(Pairs(f, T))

\* n pairs that share their first component.
LEMMA RowSize ==
    ASSUME NEW x, NEW n \in Nat
    PROVE  IsFiniteSet({x} \X (0 .. n - 1)) /\ Cardinality({x} \X (0 .. n - 1)) = n
<1>1. IsFiniteSet({x}) /\ Cardinality({x}) = 1
  BY FS_Singleton
<1>2. IsFiniteSet(0 .. n - 1) /\ Cardinality(0 .. n - 1) = n
  <2>1. 0 \in Int /\ n - 1 \in Int /\ (IF 0 > n - 1 THEN 0 ELSE n - 1 - 0 + 1) = n
    OBVIOUS
  <2> QED BY <2>1, FS_Interval
<1> QED BY <1>1, <1>2, FS_Product

\* The pairs of T are those of T without x, and those of x.
LEMMA RowSplit ==
    ASSUME NEW S, NEW f \in [S -> Nat], NEW T \in SUBSET S, NEW x \in T
    PROVE  /\ Pairs(f, T) = Pairs(f, T \ {x}) \cup ({x} \X (0 .. f[x] - 1))
           /\ Pairs(f, T \ {x}) \cap ({x} \X (0 .. f[x] - 1)) = {}
BY DEF Pairs

\* A family of subsets of a finite set has a member that is minimal.
LEMMA MinimalSubset ==
    ASSUME NEW S, IsFiniteSet(S), NEW B \in SUBSET SUBSET S, B # {}
    PROVE  \E T \in B : \A x \in T : T \ {x} \notin B
<1>1. IsWellFoundedOn(StrictSubsetOrdering(S), SUBSET S)
  BY FS_StrictSubsetOrderingWellFounded, FS_FiniteSubsetsOfFinite
<1>2. PICK T \in B : \A U \in B : <<U, T>> \notin StrictSubsetOrdering(S)
  BY <1>1, WFMin
<1>3. ASSUME NEW x \in T PROVE T \ {x} \notin B
  <2>1. T \ {x} \in B => <<T \ {x}, T>> \in StrictSubsetOrdering(S)
    BY DEF StrictSubsetOrdering
  <2> QED BY <1>2, <2>1
<1> QED BY <1>3

\* A finite set of values has finitely many pairs: the largest family of
\* subsets for which this could fail has no minimal member.
LEMMA PairsFinite ==
    ASSUME NEW S, IsFiniteSet(S), NEW f \in [S -> Nat], NEW T \in SUBSET S
    PROVE  IsFiniteSet(Pairs(f, T))
<1> DEFINE B == {U \in SUBSET S : ~ IsFiniteSet(Pairs(f, U))}
<1> SUFFICES ASSUME B # {} PROVE FALSE
  OBVIOUS
<1>1. PICK U \in B : \A x \in U : U \ {x} \notin B
  BY MinimalSubset
<1>2. U # {}
  <2>1. Pairs(f, {}) = {}
    BY DEF Pairs
  <2> QED BY <2>1, FS_EmptySet
<1>3. PICK x \in U : TRUE
  BY <1>2
<1>4. U \ {x} \in SUBSET S
  OBVIOUS
<1>5. IsFiniteSet(Pairs(f, U \ {x}))
  BY <1>1, <1>3, <1>4
<1>6. f[x] \in Nat
  BY <1>3
<1> DEFINE R == {x} \X (0 .. f[x] - 1)
<1>7. IsFiniteSet(R)
  BY <1>6, RowSize
<1>8. Pairs(f, U) = Pairs(f, U \ {x}) \cup R
  BY RowSplit
<1>9. IsFiniteSet(Pairs(f, U))
  <2> HIDE DEF R
  <2>1. IsFiniteSet(Pairs(f, U \ {x}) \cup R)
    BY <1>5, <1>7, FS_Union
  <2> QED BY <2>1, <1>8
<1> QED BY <1>9, <1>1

\* Any element of a set can be counted first.
LEMMA CountStep ==
    ASSUME NEW S, IsFiniteSet(S), NEW f \in [S -> Nat], NEW T \in SUBSET S, NEW x \in T
    PROVE  /\ Count(f, T) \in Nat
           /\ Count(f, T \ {x}) \in Nat
           /\ Count(f, T) = f[x] + Count(f, T \ {x})
<1> DEFINE R == {x} \X (0 .. f[x] - 1)
<1>1. f[x] \in Nat
  OBVIOUS
<1>2. IsFiniteSet(R) /\ Cardinality(R) = f[x]
  BY <1>1, RowSize
<1>3. IsFiniteSet(Pairs(f, T)) /\ IsFiniteSet(Pairs(f, T \ {x}))
  BY PairsFinite, T \ {x} \in SUBSET S
<1>4. /\ Pairs(f, T) = Pairs(f, T \ {x}) \cup R
      /\ Pairs(f, T \ {x}) \cap R = {}
  BY RowSplit
<1> HIDE DEF R
<1>5. Cardinality(Pairs(f, T))
        = Cardinality(Pairs(f, T \ {x})) + Cardinality(R) - Cardinality({})
  BY <1>2, <1>3, <1>4, FS_Union
<1>6. /\ Cardinality(Pairs(f, T)) \in Nat
      /\ Cardinality(Pairs(f, T \ {x})) \in Nat
      /\ Cardinality({}) = 0
  BY <1>3, FS_CardinalityType, FS_EmptySet
<1> QED BY <1>1, <1>2, <1>5, <1>6 DEF Count

\* What the fold of the community modules computes: it is the only function of
\* the subsets that satisfies its recursion, and Count is one.
LEMMA SumIsCount ==
    ASSUME NEW S, IsFiniteSet(S), NEW f \in [S -> Nat]
    PROVE  SumFunction(f) = Count(f, S)
<1> DEFINE SomeElement(s) == CHOOSE x \in s : TRUE
           Step(it, s) == IF s = {} THEN 0 ELSE f[SomeElement(s)] + it[s \ {SomeElement(s)}]
           Sums(it) == it = [s \in SUBSET S |-> Step(it, s)]
           iter == CHOOSE it : Sums(it)
           c == [s \in SUBSET S |-> Count(f, s)]
<1>0. \A s : s # {} => SomeElement(s) \in s
  OBVIOUS
<1>1. Count(f, {}) = 0
  BY FS_EmptySet, Pairs(f, {}) = {} DEF Count, Pairs
<1>2. ASSUME NEW s \in SUBSET S PROVE c[s] = Step(c, s)
  <2>1. CASE s = {}
    BY <2>1, <1>1
  <2>2. CASE s # {}
    <3>1. SomeElement(s) \in s
      BY <2>2
    <3>2. Count(f, s) = f[SomeElement(s)] + Count(f, s \ {SomeElement(s)})
      <4> HIDE DEF SomeElement
      <4> QED BY <3>1, CountStep
    <3>3. s \ {SomeElement(s)} \in SUBSET S
      OBVIOUS
    <3> QED BY <2>2, <3>2, <3>3
  <2> QED BY <2>1, <2>2
<1>3. Sums(c)
  BY <1>2
<1>4. Sums(iter)
  <2> HIDE DEF Sums, c
  <2> QED BY <1>3
<1>5. iter = c
  <2> DEFINE B == {s \in SUBSET S : iter[s] # Count(f, s)}
  <2> HIDE DEF iter
  <2>1. ASSUME B # {} PROVE FALSE
    <3>1. PICK s \in B : \A x \in s : s \ {x} \notin B
      BY <2>1, MinimalSubset
    <3>2. iter[s] = Step(iter, s) /\ c[s] = Step(c, s)
      BY <1>4, <1>2
    <3>3. CASE s = {}
      BY <3>1, <3>2, <3>3, <1>1
    <3>4. CASE s # {}
      <4>1. SomeElement(s) \in s
        BY <3>4
      <4>2. s \ {SomeElement(s)} \in SUBSET S
        OBVIOUS
      <4>3. iter[s \ {SomeElement(s)}] = Count(f, s \ {SomeElement(s)})
        BY <4>1, <4>2, <3>1
      <4> HIDE DEF SomeElement
      <4>4. Count(f, s) = f[SomeElement(s)] + Count(f, s \ {SomeElement(s)})
        BY <4>1, CountStep
      <4> QED BY <3>1, <3>2, <3>4, <4>3, <4>4
    <3> QED BY <3>3, <3>4
  <2> QED BY <2>1, <1>4
<1>6. SumFunction(f) = iter[S]
  <2>1. DOMAIN f = S
    OBVIOUS
  <2> QED BY <2>1, Zenon DEF SumFunction, SumFunctionOnSet, FoldFunctionOnSet, MapThenFoldSet
<1> HIDE DEF iter
<1> QED BY <1>5, <1>6
\* A sum of naturals is a natural.
LEMMA SumNat ==
    ASSUME NEW S, IsFiniteSet(S), NEW f \in [S -> Nat]
    PROVE  SumFunction(f) \in Nat
<1>1. IsFiniteSet(Pairs(f, S))
  BY PairsFinite, S \in SUBSET S
<1> QED BY <1>1, SumIsCount, FS_CardinalityType DEF Count

\* The sum over nothing.
LEMMA SumEmpty ==
    ASSUME NEW f, DOMAIN f = {}, f \in [{} -> Nat]
    PROVE  SumFunction(f) = 0
<1>1. SumFunction(f) = Count(f, {})
  BY SumIsCount, FS_EmptySet
<1> QED BY <1>1, FS_EmptySet, Pairs(f, {}) = {} DEF Count, Pairs

\* A sum of zeros.
LEMMA SumZero ==
    ASSUME NEW S, IsFiniteSet(S)
    PROVE  SumFunction([x \in S |-> 0]) = 0
<1> DEFINE f == [x \in S |-> 0]
<1>1. f \in [S -> Nat]
  OBVIOUS
<1>2. Pairs(f, S) = {}
  BY DEF Pairs
<1> HIDE DEF f
<1>3. SumFunction(f) = Count(f, S)
  BY <1>1, SumIsCount
<1> QED BY <1>2, <1>3, FS_EmptySet DEF Count, f

\* A sum is one of its terms and the sum of the others.
LEMMA SumMember ==
    ASSUME NEW S, IsFiniteSet(S), NEW x \in S,
           NEW f \in [S -> Nat], NEW g \in [S \ {x} -> Nat],
           \A y \in S \ {x} : f[y] = g[y]
    PROVE  SumFunction(f) = f[x] + SumFunction(g)
<1>1. IsFiniteSet(S \ {x})
  BY FS_RemoveElement
<1>2. SumFunction(g) = Count(g, S \ {x})
  BY <1>1, SumIsCount
<1>3. Pairs(f, S \ {x}) = Pairs(g, S \ {x})
  BY DEF Pairs
<1>4. SumFunction(f) = Count(f, S)
  BY SumIsCount
<1>5. Count(f, S) = f[x] + Count(f, S \ {x})
  BY CountStep, S \in SUBSET S
<1> QED BY <1>2, <1>3, <1>4, <1>5 DEF Count

\* The same for the last element of a sequence.
LEMMA SumLast ==
    ASSUME NEW k \in Nat \ {0}, NEW f, NEW g,
           f \in [1 .. k -> Nat], g \in [1 .. (k - 1) -> Nat],
           \A i \in 1 .. (k - 1) : f[i] = g[i]
    PROVE  SumFunction(f) = f[k] + SumFunction(g)
<1>1. PICK S, x : S = 1 .. k /\ x = k
  OBVIOUS
<1>2. IsFiniteSet(S)
  BY <1>1, FS_Interval
<1>3. x \in S
  BY <1>1
<1>4. S \ {x} = 1 .. (k - 1)
  BY <1>1
<1>5. f \in [S -> Nat] /\ g \in [S \ {x} -> Nat]
  BY <1>1, <1>4
<1>6. \A y \in S \ {x} : f[y] = g[y]
  BY <1>4
<1>7. SumFunction(f) = f[x] + SumFunction(g)
  BY ONLY <1>2, <1>3, <1>5, <1>6, SumMember
<1> QED BY <1>1, <1>7

\* One value changed: the sum changes by as much.
LEMMA SumUpdate ==
    ASSUME NEW S, IsFiniteSet(S), NEW x \in S, NEW f \in [S -> Nat], NEW v \in Nat
    PROVE  /\ [f EXCEPT ![x] = v] \in [S -> Nat]
           /\ SumFunction([f EXCEPT ![x] = v]) + f[x] = SumFunction(f) + v
<1> DEFINE g == [y \in S \ {x} |-> f[y]]
           h == [f EXCEPT ![x] = v]
<1>1. g \in [S \ {x} -> Nat] /\ h \in [S -> Nat] /\ h[x] = v
  OBVIOUS
<1>2. \A y \in S \ {x} : f[y] = g[y] /\ h[y] = g[y]
  OBVIOUS
<1>3. IsFiniteSet(S \ {x})
  BY FS_RemoveElement
<1>7. f[x] \in Nat
  OBVIOUS
<1> HIDE DEF g, h
<1>4. SumFunction(g) \in Nat
  BY <1>1, <1>3, SumNat
<1>5. SumFunction(f) = f[x] + SumFunction(g)
  BY <1>1, <1>2, SumMember
<1>6. SumFunction(h) = h[x] + SumFunction(g)
  BY <1>1, <1>2, SumMember
<1>8. SumFunction(h) + f[x] = SumFunction(f) + v
  BY <1>1, <1>4, <1>5, <1>6, <1>7
<1> QED BY <1>1, <1>8 DEF h

-----------------------------------------------------------------------------
(* The inductive invariant *)

Corpus  == [manifest: Manifest, terms: TermsHash, supplier: Payee, price: Nat, open: BOOLEAN]
Sale    == [buyer: Payee, corpus: Nat, terms: TermsHash, manifest: Manifest, amount: Nat]
Stored  == [terms: [TermsHash -> {"unknown", "live", "retired"}],
            corpora: Seq(Corpus), receipts: Seq(Sale),
            credited: [Payee -> Nat], balance: Nat, paid: [Payee -> Nat],
            treasury: Payee, steward: Payee, pendingSteward: Payee]
Stage   == {"collect", "paySupplier", "payProtocol", "payOwed"}
Waiting == [stage: Stage, by: Payee, to: Payee, id: Nat, amount: Nat, saved: Stored]

\* Type correctness.
RegistryTypeOK ==
    /\ reg \in Stored
    /\ anchored \subseteq CorpusLeaf
    /\ stack \in Seq(Waiting)
    /\ settled \in Stored

\* What the first k calls of s hold back, and of that what they owe to a.
Share(f, a) == IF f.stage \in {"paySupplier", "payOwed"} /\ f.to = a THEN Due(f) ELSE 0
HeldBack(s, k) == SumFunction([i \in 1 .. k |-> Outstanding(s[i])])
OwedTo(s, k, a) == SumFunction([i \in 1 .. k |-> Share(s[i], a)])

\* The supplier's share of every receipt of a's corpora.
Sales(st, a) == {i \in DOMAIN st.receipts : st.corpora[st.receipts[i].corpus].supplier = a}
Earned(st, a) == SumFunction([i \in Sales(st, a) |-> ToSupplier(st.receipts[i].amount)])

\* Every receipt matches its corpus, and every corpus is one of those leaves.
Matches(leaves, st) ==
    /\ \A id \in DOMAIN st.corpora :
          [manifest |-> st.corpora[id].manifest, terms |-> st.corpora[id].terms] \in leaves
    /\ \A i \in DOMAIN st.receipts :
          LET r == st.receipts[i] IN
          /\ r.corpus \in DOMAIN st.corpora
          /\ r.manifest = st.corpora[r.corpus].manifest
          /\ r.terms = st.corpora[r.corpus].terms
          /\ r.amount = st.corpora[r.corpus].price

\* The books balance, where calls under way hold back `held` and owe each payee
\* what `owed` says.
Books(st, held, owed) ==
    /\ st.balance = CreditedSum(st) + held
    /\ ReceiptSum(st) = st.balance + PaidSum(st)
    /\ \A a \in Payee : Earned(st, a) <= st.paid[a] + st.credited[a] + owed[a]

\* A call that is collecting asks for the price of its corpus.
Collecting(st, s, k) ==
    \A i \in 1 .. k : s[i].stage = "collect" =>
        /\ s[i].id \in DOMAIN st.corpora
        /\ s[i].amount = st.corpora[s[i].id].price

\* Storage that is sound for the first k calls of s.
Sound(leaves, st, s, k) ==
    /\ Matches(leaves, st)
    /\ Collecting(st, s, k)
    /\ Books(st, HeldBack(s, k), [a \in Payee |-> OwedTo(s, k, a)])

\* How many calls count when the state that call i saved is restored.
Counted(s, i) == IF s[i].stage \in {"paySupplier", "payProtocol"} THEN i ELSE i - 1

\* The inductive invariant.
RegistryInv ==
    /\ RegistryTypeOK
    /\ Sound(anchored, reg, stack, Len(stack))
    /\ \A i \in DOMAIN stack : Sound(anchored, stack[i].saved, stack, Counted(stack, i))
    /\ Sound(anchored, settled, <<>>, 0)

-----------------------------------------------------------------------------
\* There are finitely many accounts to sum over.
LEMMA PayeesAreFinite == IsFiniteSet(Payee)
BY AddressesAreFinite, FS_AddElement DEF Payee

\* The two payouts of a sale are the price, whatever the rounding.
LEMMA Shares ==
    ASSUME NEW n \in Nat
    PROVE  /\ ToProtocol(n) \in Nat /\ ToSupplier(n) \in Nat
           /\ ToProtocol(n) + ToSupplier(n) = n
<1>1. (n * 250) \div 10000 \in Nat /\ (n * 250) \div 10000 <= n
  OBVIOUS
<1> QED BY <1>1 DEF ToProtocol, ToSupplier

\* What a supplier has earned is a natural number.
LEMMA EarnedNat ==
    ASSUME NEW st \in Stored, NEW a
    PROVE  IsFiniteSet(Sales(st, a)) /\ Earned(st, a) \in Nat
<1>1. st.receipts \in Seq(Sale)
  BY DEF Stored
<1>2. IsFiniteSet(DOMAIN st.receipts)
  BY <1>1, FS_Interval, DOMAIN st.receipts = 1 .. Len(st.receipts), Len(st.receipts) \in Nat
<1>3. IsFiniteSet(Sales(st, a))
  BY <1>2, FS_Subset, Sales(st, a) \in SUBSET DOMAIN st.receipts DEF Sales
<1>4. \A i \in Sales(st, a) : st.receipts[i].amount \in Nat
  <2>1. \A i \in DOMAIN st.receipts : st.receipts[i] \in Sale
    BY <1>1
  <2> QED BY <2>1 DEF Sales, Sale
<1>5. [i \in Sales(st, a) |-> ToSupplier(st.receipts[i].amount)] \in [Sales(st, a) -> Nat]
  BY <1>4, Shares
<1> QED BY <1>3, <1>5, SumNat DEF Earned

\* What a waiting call holds back and owes, stage by stage.
LEMMA FrameSums ==
    ASSUME NEW f \in Waiting, NEW a
    PROVE  /\ Due(f) \in Nat /\ Outstanding(f) \in Nat /\ Share(f, a) \in Nat
           /\ f.stage = "collect" => Outstanding(f) = 0 /\ Share(f, a) = 0
           /\ f.stage = "paySupplier" =>
                 Due(f) = ToSupplier(f.amount) /\ Outstanding(f) = f.amount
           /\ f.stage = "payProtocol" =>
                 /\ Due(f) = ToProtocol(f.amount)
                 /\ Outstanding(f) = ToProtocol(f.amount)
                 /\ Share(f, a) = 0
           /\ f.stage = "payOwed" => Due(f) = f.amount /\ Outstanding(f) = f.amount
           /\ f.stage \in {"paySupplier", "payOwed"} =>
                 Share(f, a) = IF f.to = a THEN Due(f) ELSE 0
<1>1. f.amount \in Nat /\ f.stage \in {"collect", "paySupplier", "payProtocol", "payOwed"}
  BY DEF Waiting, Stage
<1>2. ToProtocol(f.amount) \in Nat /\ ToSupplier(f.amount) \in Nat
  BY <1>1, Shares
<1> HIDE DEF ToProtocol, ToSupplier
<1> QED BY <1>1, <1>2 DEF Due, Outstanding, Share

\* The calls below the k-th, and the k-th.
LEMMA PrefixSums ==
    ASSUME NEW s \in Seq(Waiting), NEW k \in 0 .. Len(s), NEW a
    PROVE  /\ HeldBack(s, k) \in Nat /\ OwedTo(s, k, a) \in Nat
           /\ k = 0 => HeldBack(s, k) = 0 /\ OwedTo(s, k, a) = 0
           /\ k > 0 => /\ HeldBack(s, k) = Outstanding(s[k]) + HeldBack(s, k - 1)
                       /\ OwedTo(s, k, a) = Share(s[k], a) + OwedTo(s, k - 1, a)
<1> DEFINE held(j) == [i \in 1 .. j |-> Outstanding(s[i])]
           owed(j) == [i \in 1 .. j |-> Share(s[i], a)]
<1>1. \A i \in 1 .. k : s[i] \in Waiting
  OBVIOUS
<1>2. \A i \in 1 .. k : Outstanding(s[i]) \in Nat /\ Share(s[i], a) \in Nat
  BY <1>1, FrameSums
<1>3. held(k) \in [1 .. k -> Nat] /\ owed(k) \in [1 .. k -> Nat]
  BY <1>2
<1>4. IsFiniteSet(1 .. k)
  BY FS_Interval
<1>5. HeldBack(s, k) \in Nat /\ OwedTo(s, k, a) \in Nat
  BY <1>3, <1>4, SumNat DEF HeldBack, OwedTo
<1>6. ASSUME k = 0 PROVE HeldBack(s, k) = 0 /\ OwedTo(s, k, a) = 0
  <2>1. 1 .. k = {}
    BY <1>6
  <2> QED BY <2>1, <1>3, SumEmpty DEF HeldBack, OwedTo
<1>7. ASSUME k > 0
      PROVE  /\ HeldBack(s, k) = Outstanding(s[k]) + HeldBack(s, k - 1)
             /\ OwedTo(s, k, a) = Share(s[k], a) + OwedTo(s, k - 1, a)
  <2>1. held(k - 1) \in [1 .. (k - 1) -> Nat] /\ owed(k - 1) \in [1 .. (k - 1) -> Nat]
    BY <1>2
  <2>2. /\ \A i \in 1 .. (k - 1) : held(k)[i] = held(k - 1)[i] /\ owed(k)[i] = owed(k - 1)[i]
        /\ held(k)[k] = Outstanding(s[k]) /\ owed(k)[k] = Share(s[k], a)
    BY <1>7
  <2> HIDE DEF held, owed
  <2>3. k \in Nat \ {0}
    BY <1>7
  <2>4. SumFunction(held(k)) = held(k)[k] + SumFunction(held(k - 1))
    BY <1>3, <2>1, <2>2, <2>3, SumLast
  <2>5. SumFunction(owed(k)) = owed(k)[k] + SumFunction(owed(k - 1))
    BY <1>3, <2>1, <2>2, <2>3, SumLast
  <2> QED BY <2>2, <2>4, <2>5 DEF HeldBack, OwedTo, held, owed
<1> QED BY <1>5, <1>6, <1>7

\* Soundness depends on the first k calls only.
LEMMA SamePrefix ==
    ASSUME NEW s, NEW t, NEW k \in Nat, \A i \in 1 .. k : s[i] = t[i],
           NEW st, NEW leaves
    PROVE  /\ HeldBack(s, k) = HeldBack(t, k)
           /\ \A a : OwedTo(s, k, a) = OwedTo(t, k, a)
           /\ Sound(leaves, st, s, k) => Sound(leaves, st, t, k)
<1>1. HeldBack(s, k) = HeldBack(t, k)
  <2>1. [i \in 1 .. k |-> Outstanding(s[i])] = [i \in 1 .. k |-> Outstanding(t[i])]
    OBVIOUS
  <2> QED BY <2>1 DEF HeldBack
<1>2. ASSUME NEW a PROVE OwedTo(s, k, a) = OwedTo(t, k, a)
  <2>1. [i \in 1 .. k |-> Share(s[i], a)] = [i \in 1 .. k |-> Share(t[i], a)]
    OBVIOUS
  <2> QED BY <2>1 DEF OwedTo
<1>3. [a \in Payee |-> OwedTo(s, k, a)] = [a \in Payee |-> OwedTo(t, k, a)]
  BY <1>2
<1>4. Collecting(st, s, k) => Collecting(st, t, k)
  BY DEF Collecting
<1> QED BY <1>1, <1>2, <1>3, <1>4 DEF Sound

\* Nothing above a waiting call touches the state it saved.
LEMMA SavedStaySound ==
    ASSUME NEW s \in Seq(Waiting), NEW t \in Seq(Waiting), NEW leaves,
           NEW m \in Nat, m <= Len(s), m <= Len(t),
           \A i \in 1 .. m : s[i] = t[i],
           \A i \in DOMAIN s : Sound(leaves, s[i].saved, s, Counted(s, i))
    PROVE  \A i \in 1 .. m : Sound(leaves, t[i].saved, t, Counted(t, i))
<1> SUFFICES ASSUME NEW i \in 1 .. m PROVE Sound(leaves, t[i].saved, t, Counted(t, i))
  OBVIOUS
<1>1. i \in DOMAIN s /\ s[i] = t[i]
  OBVIOUS
<1>2. Counted(t, i) = Counted(s, i) /\ Counted(s, i) \in Nat /\ Counted(s, i) <= i
  BY <1>1 DEF Counted
<1>3. Sound(leaves, t[i].saved, s, Counted(s, i))
  BY <1>1
<1>4. \A j \in 1 .. Counted(s, i) : s[j] = t[j]
  BY <1>2
<1> QED BY <1>2, <1>3, <1>4, SamePrefix

\* The first n elements of a sequence.
LEMMA FirstOf ==
    ASSUME NEW W, NEW s \in Seq(W), NEW n \in Nat, n <= Len(s)
    PROVE  /\ SubSeq(s, 1, n) \in Seq(W)
           /\ Len(SubSeq(s, 1, n)) = n
           /\ \A i \in 1 .. n : SubSeq(s, 1, n)[i] = s[i]
<1>1. \A i \in 1 .. n : s[i] \in W
  OBVIOUS
<1>2. /\ Len(SubSeq(s, 1, n)) = IF 1 <= n THEN n - 1 + 1 ELSE 0
      /\ SubSeq(s, 1, n) \in Seq(W)
      /\ \A i \in 1 .. n - 1 + 1 : SubSeq(s, 1, n)[i] = s[1 + i - 1]
  BY <1>1, 1 \in Int, n \in Int, SubSeqProperties
<1>3. (IF 1 <= n THEN n - 1 + 1 ELSE 0) = n
  OBVIOUS
<1> QED BY <1>2, <1>3

\* The stack without its top, and with another top.
LEMMA TopOfStack ==
    ASSUME NEW s \in Seq(Waiting), s # <<>>, NEW f \in Waiting
    PROVE  LET n     == Len(s)
               below == SubSeq(s, 1, n - 1)
               calls == Append(below, f)
           IN  /\ n \in Nat \ {0} /\ s[n] \in Waiting
               /\ below \in Seq(Waiting) /\ Len(below) = n - 1
               /\ \A i \in 1 .. n - 1 : below[i] = s[i]
               /\ calls \in Seq(Waiting) /\ Len(calls) = n /\ calls[n] = f
               /\ \A i \in 1 .. n - 1 : calls[i] = s[i]
<1> DEFINE n == Len(s)
           below == SubSeq(s, 1, n - 1)
<1>1. n \in Nat \ {0} /\ s[n] \in Waiting
  OBVIOUS
<1>2. /\ below \in Seq(Waiting) /\ Len(below) = n - 1
      /\ \A i \in 1 .. n - 1 : below[i] = s[i]
  BY <1>1, FirstOf, n - 1 \in Nat, n - 1 <= Len(s)
<1> HIDE DEF below
<1>3. Append(below, f) \in Seq(Waiting)
  BY <1>2
<1>4. Len(Append(below, f)) = n /\ Append(below, f)[n] = f
  BY <1>1, <1>2
<1>5. \A i \in 1 .. n - 1 : Append(below, f)[i] = s[i]
  BY <1>1, <1>2
<1> QED BY <1>1, <1>2, <1>3, <1>4, <1>5 DEF below

\* Storage whose corpora are extended or closed, and whose books are the same,
\* is as sound as it was.
LEMMA CorporaGrow ==
    ASSUME NEW st \in Stored, NEW after \in Stored, NEW leaves,
           after.receipts = st.receipts, after.credited = st.credited,
           after.balance = st.balance, after.paid = st.paid,
           \A id \in DOMAIN st.corpora :
              /\ id \in DOMAIN after.corpora
              /\ after.corpora[id].manifest = st.corpora[id].manifest
              /\ after.corpora[id].terms = st.corpora[id].terms
              /\ after.corpora[id].supplier = st.corpora[id].supplier
              /\ after.corpora[id].price = st.corpora[id].price,
           \A id \in DOMAIN after.corpora : id \in DOMAIN st.corpora
              \/ [manifest |-> after.corpora[id].manifest,
                  terms |-> after.corpora[id].terms] \in leaves,
           NEW s, NEW k, Sound(leaves, st, s, k)
    PROVE  Sound(leaves, after, s, k)
<1>1. Matches(leaves, st) /\ Collecting(st, s, k)
      /\ Books(st, HeldBack(s, k), [a \in Payee |-> OwedTo(s, k, a)])
  BY DEF Sound
<1>2. Matches(leaves, after)
  BY <1>1 DEF Matches
<1>3. Collecting(after, s, k)
  BY <1>1 DEF Collecting
<1>4. ASSUME NEW a PROVE Earned(after, a) = Earned(st, a)
  <2>1. Sales(after, a) = Sales(st, a)
    BY <1>1 DEF Matches, Sales
  <2> QED BY <2>1 DEF Earned
<1>5. Books(after, HeldBack(s, k), [a \in Payee |-> OwedTo(s, k, a)])
  BY <1>1, <1>4 DEF Books, CreditedSum, PaidSum, ReceiptSum
<1> QED BY <1>2, <1>3, <1>5 DEF Sound

\* Paying or crediting what is due to a payee keeps the books.
LEMMA PayBooks ==
    ASSUME NEW st \in Stored, NEW f \in Waiting, NEW held \in Nat, NEW left \in Nat,
           NEW owed \in [Payee -> Nat], NEW still \in [Payee -> Nat],
           held = Due(f) + left,
           \A a \in Payee : owed[a] <= still[a] + (IF a = f.to THEN Due(f) ELSE 0),
           Books(st, held, owed),
           NEW after \in {Paid(st, f), CreditedTo(st, f)}
    PROVE  /\ after \in Stored
           /\ after.corpora = st.corpora /\ after.receipts = st.receipts
           /\ after.treasury = st.treasury
           /\ Books(after, left, still)
<1> DEFINE due == Due(f)
<1>1. due \in Nat /\ f.to \in Payee
  BY FrameSums DEF Waiting
<1>2. /\ st.credited \in [Payee -> Nat] /\ st.paid \in [Payee -> Nat] /\ st.balance \in Nat
  BY DEF Stored
<1>3. CreditedSum(st) \in Nat /\ PaidSum(st) \in Nat
  BY <1>2, PayeesAreFinite, SumNat DEF CreditedSum, PaidSum
<1>4. st.credited[f.to] \in Nat /\ st.paid[f.to] \in Nat
  BY <1>1, <1>2
<1>5. CASE after = Paid(st, f)
  <2>1. after = [st EXCEPT !.balance = @ - due, !.paid[f.to] = @ + due]
    BY <1>5 DEF Paid
  <2>2. st.balance - due \in Nat
    BY <1>1, <1>2, <1>3 DEF Books
  <2>3. /\ after.balance = st.balance - due
        /\ after.paid = [st.paid EXCEPT ![f.to] = st.paid[f.to] + due]
        /\ after.credited = st.credited
        /\ after.corpora = st.corpora /\ after.receipts = st.receipts
        /\ after.treasury = st.treasury
    BY <2>1 DEF Stored
  <2>4. after.paid \in [Payee -> Nat]
        /\ SumFunction(after.paid) + st.paid[f.to] = SumFunction(st.paid) + (st.paid[f.to] + due)
    BY <1>1, <1>2, <1>4, <2>3, PayeesAreFinite, SumUpdate, st.paid[f.to] + due \in Nat
  <2>5. after \in Stored
    BY <2>1, <2>2, <2>3, <2>4 DEF Stored
  <2>6. SumFunction(after.paid) \in Nat
    BY <2>4, PayeesAreFinite, SumNat
  <2>7. /\ CreditedSum(after) = CreditedSum(st) /\ ReceiptSum(after) = ReceiptSum(st)
        /\ PaidSum(after) = PaidSum(st) + due
    <3>1. PaidSum(after) \in Nat /\ PaidSum(after) + st.paid[f.to] = PaidSum(st) + (st.paid[f.to] + due)
      BY <2>4, <2>6 DEF PaidSum
    <3> HIDE DEF due
    <3>2. PaidSum(after) = PaidSum(st) + due
      BY <1>1, <1>3, <1>4, <3>1
    <3> QED BY <2>3, <3>2 DEF CreditedSum, ReceiptSum
  <2>8. /\ after.balance = CreditedSum(after) + left
        /\ ReceiptSum(after) = after.balance + PaidSum(after)
    <3>1. st.balance = CreditedSum(st) + due + left /\ ReceiptSum(st) = st.balance + PaidSum(st)
      BY <1>1, <1>3 DEF Books
    <3> HIDE DEF due
    <3> QED BY <3>1, <1>1, <1>2, <1>3, <2>2, <2>3, <2>7
  <2>9. ASSUME NEW a \in Payee
        PROVE  Earned(after, a) <= after.paid[a] + after.credited[a] + still[a]
    <3>1. Earned(after, a) = Earned(st, a) /\ Earned(st, a) \in Nat
      BY <2>3, EarnedNat DEF Earned, Sales
    <3>2. Earned(st, a) <= st.paid[a] + st.credited[a] + owed[a]
      BY DEF Books
    <3>3. owed[a] <= still[a] + (IF a = f.to THEN due ELSE 0)
      OBVIOUS
    <3>4. after.paid[a] = st.paid[a] + (IF a = f.to THEN due ELSE 0)
      BY <2>3, <1>1, <1>2
    <3>5. /\ st.paid[a] \in Nat /\ st.credited[a] \in Nat /\ owed[a] \in Nat /\ still[a] \in Nat
          /\ after.credited[a] = st.credited[a]
      BY <1>2, <2>3
    <3> HIDE DEF due
    <3> QED BY <3>1, <3>2, <3>3, <3>4, <3>5, <1>1
  <2> QED BY <2>3, <2>5, <2>8, <2>9 DEF Books
<1>6. CASE after = CreditedTo(st, f)
  <2>1. after = [st EXCEPT !.credited[f.to] = @ + due]
    BY <1>6 DEF CreditedTo
  <2>2. /\ after.balance = st.balance /\ after.paid = st.paid
        /\ after.credited = [st.credited EXCEPT ![f.to] = st.credited[f.to] + due]
        /\ after.corpora = st.corpora /\ after.receipts = st.receipts
        /\ after.treasury = st.treasury
    BY <2>1 DEF Stored
  <2>3. after.credited \in [Payee -> Nat]
        /\ SumFunction(after.credited) + st.credited[f.to]
             = SumFunction(st.credited) + (st.credited[f.to] + due)
    BY <1>1, <1>2, <1>4, <2>2, PayeesAreFinite, SumUpdate, st.credited[f.to] + due \in Nat
  <2>4. after \in Stored
    BY <2>1, <2>2, <2>3 DEF Stored
  <2>5. SumFunction(after.credited) \in Nat
    BY <2>3, PayeesAreFinite, SumNat
  <2>6. /\ PaidSum(after) = PaidSum(st) /\ ReceiptSum(after) = ReceiptSum(st)
        /\ CreditedSum(after) = CreditedSum(st) + due
    <3>1. /\ CreditedSum(after) \in Nat
          /\ CreditedSum(after) + st.credited[f.to] = CreditedSum(st) + (st.credited[f.to] + due)
      BY <2>3, <2>5 DEF CreditedSum
    <3> HIDE DEF due
    <3>2. CreditedSum(after) = CreditedSum(st) + due
      BY <1>1, <1>3, <1>4, <3>1
    <3> QED BY <2>2, <3>2 DEF PaidSum, ReceiptSum
  <2>7. /\ after.balance = CreditedSum(after) + left
        /\ ReceiptSum(after) = after.balance + PaidSum(after)
    <3>1. st.balance = CreditedSum(st) + due + left /\ ReceiptSum(st) = st.balance + PaidSum(st)
      BY <1>1, <1>3 DEF Books
    <3> HIDE DEF due
    <3> QED BY <3>1, <1>1, <1>2, <1>3, <2>2, <2>6
  <2>8. ASSUME NEW a \in Payee
        PROVE  Earned(after, a) <= after.paid[a] + after.credited[a] + still[a]
    <3>1. Earned(after, a) = Earned(st, a) /\ Earned(st, a) \in Nat
      BY <2>2, EarnedNat DEF Earned, Sales
    <3>2. Earned(st, a) <= st.paid[a] + st.credited[a] + owed[a]
      BY DEF Books
    <3>3. owed[a] <= still[a] + (IF a = f.to THEN due ELSE 0)
      OBVIOUS
    <3>4. after.credited[a] = st.credited[a] + (IF a = f.to THEN due ELSE 0)
      BY <2>2, <1>1, <1>2
    <3>5. /\ st.paid[a] \in Nat /\ st.credited[a] \in Nat /\ owed[a] \in Nat /\ still[a] \in Nat
          /\ after.paid[a] = st.paid[a]
      BY <1>2, <2>2
    <3> HIDE DEF due
    <3> QED BY <3>1, <3>2, <3>3, <3>4, <3>5, <1>1
  <2> QED BY <2>2, <2>4, <2>7, <2>8 DEF Books
<1> QED BY <1>5, <1>6

-----------------------------------------------------------------------------
\* A step whose new storage and stack are sound keeps the invariant.
LEMMA RunKeeps ==
    ASSUME RegistryInv, NEW after \in Stored, NEW calls \in Seq(Waiting),
           Sound(anchored, after, calls, Len(calls)),
           \A i \in DOMAIN calls : Sound(anchored, calls[i].saved, calls, Counted(calls, i)),
           Run(after, calls)
    PROVE  RegistryInv'
<1>1. /\ reg' = after /\ stack' = calls /\ anchored' = anchored
      /\ settled' = IF calls = <<>> THEN after ELSE settled
  BY DEF Run
<1>2. RegistryTypeOK'
  BY <1>1 DEF RegistryInv, RegistryTypeOK
<1>3. Sound(anchored', settled', <<>>, 0)
  <2>1. CASE calls = <<>>
    BY <1>1, <2>1
  <2>2. CASE calls # <<>>
    BY <1>1, <2>2 DEF RegistryInv
  <2> QED BY <2>1, <2>2
<1> QED BY <1>1, <1>2, <1>3 DEF RegistryInv

\* The same, for a step that leaves the stack alone,
LEMMA SameCallsKeep ==
    ASSUME RegistryInv, NEW after \in Stored,
           Sound(anchored, after, stack, Len(stack)), Run(after, stack)
    PROVE  RegistryInv'
BY RunKeeps DEF RegistryInv, RegistryTypeOK

\* for one that calls the token,
LEMMA PushKeeps ==
    ASSUME RegistryInv, NEW after \in Stored, NEW f \in Waiting,
           NEW calls, calls = Append(stack, f),
           Sound(anchored, after, calls, Len(calls)),
           Sound(anchored, f.saved, calls, Counted(calls, Len(calls))),
           Run(after, calls)
    PROVE  RegistryInv'
<1> DEFINE n == Len(stack)
<1>1. stack \in Seq(Waiting) /\ n \in Nat
  BY DEF RegistryInv, RegistryTypeOK
<1>2. /\ calls \in Seq(Waiting) /\ Len(calls) = n + 1 /\ calls[n + 1] = f
      /\ \A i \in 1 .. n : calls[i] = stack[i]
  BY <1>1
<1>3. \A i \in DOMAIN stack : Sound(anchored, stack[i].saved, stack, Counted(stack, i))
  BY DEF RegistryInv
<1>4. \A i \in 1 .. n : Sound(anchored, calls[i].saved, calls, Counted(calls, i))
  BY <1>1, <1>2, <1>3, SavedStaySound, n \in Nat, n <= Len(stack), n <= Len(calls)
<1>5. \A i \in DOMAIN calls : Sound(anchored, calls[i].saved, calls, Counted(calls, i))
  BY <1>1, <1>2, <1>4
<1> QED BY <1>2, <1>5, RunKeeps

\* for one whose call goes on to its next payment,
LEMMA ReplaceKeeps ==
    ASSUME RegistryInv, stack # <<>>, NEW after \in Stored, NEW f \in Waiting,
           NEW calls, calls = Append(Below, f),
           Sound(anchored, after, calls, Len(stack)),
           Sound(anchored, f.saved, calls, Counted(calls, Len(stack))),
           Run(after, calls)
    PROVE  RegistryInv'
<1> DEFINE n == Len(stack)
<1>1. stack \in Seq(Waiting)
  BY DEF RegistryInv, RegistryTypeOK
<1>2. /\ n \in Nat \ {0} /\ calls \in Seq(Waiting) /\ Len(calls) = n /\ calls[n] = f
      /\ \A i \in 1 .. n - 1 : calls[i] = stack[i]
  BY <1>1, TopOfStack DEF Below
<1>3. \A i \in DOMAIN stack : Sound(anchored, stack[i].saved, stack, Counted(stack, i))
  BY DEF RegistryInv
<1>4. \A i \in 1 .. n - 1 : Sound(anchored, calls[i].saved, calls, Counted(calls, i))
  BY <1>1, <1>2, <1>3, SavedStaySound, n - 1 \in Nat, n - 1 <= Len(stack), n - 1 <= Len(calls)
<1>5. \A i \in DOMAIN calls : Sound(anchored, calls[i].saved, calls, Counted(calls, i))
  BY <1>2, <1>4
<1> QED BY <1>2, <1>5, RunKeeps

\* and for one whose call returns.
LEMMA PopKeeps ==
    ASSUME RegistryInv, stack # <<>>, NEW after \in Stored,
           Sound(anchored, after, stack, Len(stack) - 1), Run(after, Below)
    PROVE  RegistryInv'
<1> DEFINE n == Len(stack)
<1>1. stack \in Seq(Waiting)
  BY DEF RegistryInv, RegistryTypeOK
<1>2. /\ n \in Nat \ {0} /\ Below \in Seq(Waiting) /\ Len(Below) = n - 1
      /\ \A i \in 1 .. n - 1 : Below[i] = stack[i]
  BY <1>1, TopOfStack, stack[1] \in Waiting DEF Below
<1>3. \A i \in DOMAIN stack : Sound(anchored, stack[i].saved, stack, Counted(stack, i))
  BY DEF RegistryInv
<1> HIDE DEF Below
<1>4. \A i \in 1 .. n - 1 : Sound(anchored, Below[i].saved, Below, Counted(Below, i))
  BY <1>1, <1>2, <1>3, SavedStaySound, n - 1 \in Nat, n - 1 <= Len(stack), n - 1 <= Len(Below)
<1>5. \A i \in DOMAIN Below : Sound(anchored, Below[i].saved, Below, Counted(Below, i))
  BY <1>2, <1>4
<1>6. Sound(anchored, after, Below, Len(Below))
  BY <1>2, SamePrefix, n - 1 \in Nat
<1> QED BY <1>2, <1>5, <1>6, RunKeeps

-----------------------------------------------------------------------------
\* A new anchored leaf takes nothing back.
LEMMA AnchorLeafKeeps ==
    ASSUME RegistryInv, NEW leaf \in CorpusLeaf, AnchorLeaf(leaf)
    PROVE  RegistryInv'
<1>1. /\ reg' = reg /\ settled' = settled /\ stack = <<>> /\ stack' = <<>>
      /\ anchored \subseteq anchored' /\ anchored' \subseteq CorpusLeaf
  BY DEF AnchorLeaf, RegistryInv, RegistryTypeOK
<1>2. ASSUME NEW st, NEW k, Sound(anchored, st, <<>>, k)
      PROVE  Sound(anchored', st, <<>>, k)
  BY <1>1, <1>2 DEF Sound, Matches
<1>3. Sound(anchored', reg', stack', Len(stack')) /\ Sound(anchored', settled', <<>>, 0)
  BY <1>1, <1>2 DEF RegistryInv
<1>4. DOMAIN stack' = {}
  BY <1>1
<1> QED BY <1>1, <1>3, <1>4 DEF RegistryInv, RegistryTypeOK

\* Terms, treasury and stewardship are not in the books.
LEMMA TermsAndStewardKeep ==
    ASSUME RegistryInv, NEW by \in Address,
           \/ \E t \in TermsHash : PublishTerms(by, t) \/ RetireTerms(by, t)
           \/ \E to \in Treasuries : SetTreasury(by, to)
           \/ \E to \in Successors : TransferSteward(by, to)
           \/ AcceptSteward(by)
    PROVE  RegistryInv'
<1>1. reg \in Stored /\ Sound(anchored, reg, stack, Len(stack))
  BY DEF RegistryInv, RegistryTypeOK
<1>2. by \in Payee /\ ZeroAddress \in Payee
      /\ Treasuries \subseteq Payee /\ Successors \subseteq Payee
  BY RegistryAssumption DEF Payee
<1> DEFINE Aside(after) ==
             /\ Run(after, stack)
             /\ after.corpora = reg.corpora /\ after.receipts = reg.receipts
             /\ after.credited = reg.credited /\ after.balance = reg.balance
             /\ after.paid = reg.paid
<1>3. PICK after \in Stored : Aside(after)
  <2>1. ASSUME NEW t \in TermsHash, PublishTerms(by, t)
        PROVE  \E after \in Stored : Aside(after)
    <3>1. [reg EXCEPT !.terms[t] = "live"] \in Stored
      BY <1>1 DEF Stored
    <3> QED BY <2>1, <3>1, <1>1 DEF PublishTerms, Stored
  <2>2. ASSUME NEW t \in TermsHash, RetireTerms(by, t)
        PROVE  \E after \in Stored : Aside(after)
    <3>1. [reg EXCEPT !.terms[t] = "retired"] \in Stored
      BY <1>1 DEF Stored
    <3> QED BY <2>2, <3>1, <1>1 DEF RetireTerms, Stored
  <2>3. ASSUME NEW to \in Treasuries, SetTreasury(by, to)
        PROVE  \E after \in Stored : Aside(after)
    <3>1. [reg EXCEPT !.treasury = to] \in Stored
      BY <1>1, <1>2 DEF Stored
    <3> QED BY <2>3, <3>1, <1>1 DEF SetTreasury, Stored
  <2>4. ASSUME NEW to \in Successors, TransferSteward(by, to)
        PROVE  \E after \in Stored : Aside(after)
    <3>1. [reg EXCEPT !.pendingSteward = to] \in Stored
      BY <1>1, <1>2 DEF Stored
    <3> QED BY <2>4, <3>1, <1>1 DEF TransferSteward, Stored
  <2>5. ASSUME AcceptSteward(by)
        PROVE  \E after \in Stored : Aside(after)
    <3>1. [reg EXCEPT !.steward = by, !.pendingSteward = ZeroAddress] \in Stored
      BY <1>1, <1>2 DEF Stored
    <3> QED BY <2>5, <3>1, <1>1 DEF AcceptSteward, Stored
  <2> HIDE DEF Aside
  <2> QED BY <2>1, <2>2, <2>3, <2>4, <2>5
<1>4. Sound(anchored, after, stack, Len(stack))
  BY <1>1, <1>3, CorporaGrow
<1> QED BY <1>3, <1>4, SameCallsKeep

\* A sealed corpus is one the log anchors, and no receipt names it yet.
LEMMA SealCorpusKeeps ==
    ASSUME RegistryInv, NEW by \in Address, NEW leaf \in CorpusLeaf, NEW supplier \in Payee,
           NEW price \in Price, SealCorpus(by, leaf, supplier, price)
    PROVE  RegistryInv'
<1> DEFINE c == [manifest |-> leaf.manifest, terms |-> leaf.terms,
                 supplier |-> supplier, price |-> price, open |-> TRUE]
           after == [reg EXCEPT !.corpora = Append(@, c)]
<1>1. reg \in Stored /\ Sound(anchored, reg, stack, Len(stack))
  BY DEF RegistryInv, RegistryTypeOK
<1>2. c \in Corpus
  BY RegistryAssumption DEF Corpus, CorpusLeaf
<1>3. reg.corpora \in Seq(Corpus)
  BY <1>1 DEF Stored
<1>4. /\ [manifest |-> c.manifest, terms |-> c.terms] = leaf
      /\ leaf \in anchored /\ Run(after, stack)
  BY DEF SealCorpus, CorpusLeaf
<1> HIDE DEF c
<1>5. Append(reg.corpora, c) \in Seq(Corpus)
  BY <1>2, <1>3
<1>6. /\ after \in Stored
      /\ after.corpora = Append(reg.corpora, c) /\ after.receipts = reg.receipts
      /\ after.credited = reg.credited /\ after.balance = reg.balance
      /\ after.paid = reg.paid
  BY <1>1, <1>5 DEF Stored
<1>7. /\ \A id \in DOMAIN reg.corpora :
            id \in DOMAIN after.corpora /\ after.corpora[id] = reg.corpora[id]
      /\ \A id \in DOMAIN after.corpora : id \in DOMAIN reg.corpora \/ after.corpora[id] = c
  BY <1>2, <1>3, <1>6
<1> HIDE DEF after
<1>8. Sound(anchored, after, stack, Len(stack))
  BY <1>1, <1>4, <1>6, <1>7, CorporaGrow
<1> QED BY <1>4, <1>6, <1>8, SameCallsKeep

\* Closing a corpus changes nothing a receipt copied.
LEMMA CloseCorpusKeeps ==
    ASSUME RegistryInv, NEW by \in Address, NEW id \in Ids, CloseCorpus(by, id)
    PROVE  RegistryInv'
<1> DEFINE after == [reg EXCEPT !.corpora[id].open = FALSE]
<1>1. reg \in Stored /\ Sound(anchored, reg, stack, Len(stack)) /\ Run(after, stack)
  BY DEF RegistryInv, RegistryTypeOK, CloseCorpus
<1>2. reg.corpora \in Seq(Corpus) /\ id \in DOMAIN reg.corpora
  BY <1>1 DEF Stored, Ids
<1>3. /\ after.corpora = [reg.corpora EXCEPT ![id].open = FALSE]
      /\ after.receipts = reg.receipts
      /\ after.credited = reg.credited /\ after.balance = reg.balance
      /\ after.paid = reg.paid
  BY <1>1 DEF Stored
<1>4. [reg.corpora[id] EXCEPT !.open = FALSE] \in Corpus
  <2>1. reg.corpora[id] \in Corpus
    BY <1>2
  <2> QED BY <2>1 DEF Corpus
<1>5. [reg.corpora EXCEPT ![id] = [reg.corpora[id] EXCEPT !.open = FALSE]] \in Seq(Corpus)
  BY <1>2, <1>4
<1>6. after \in Stored
  BY <1>1, <1>5 DEF Stored
<1>7. DOMAIN after.corpora = DOMAIN reg.corpora
  BY <1>3
<1>8. \A i \in DOMAIN reg.corpora :
         /\ after.corpora[i].manifest = reg.corpora[i].manifest
         /\ after.corpora[i].terms = reg.corpora[i].terms
         /\ after.corpora[i].supplier = reg.corpora[i].supplier
         /\ after.corpora[i].price = reg.corpora[i].price
  <2>1. \A i \in DOMAIN reg.corpora : reg.corpora[i] \in Corpus
    BY <1>2
  <2> QED BY <2>1, <1>2, <1>3 DEF Corpus
<1> HIDE DEF after
<1>9. Sound(anchored, after, stack, Len(stack))
  BY <1>1, <1>3, <1>6, <1>7, <1>8, CorporaGrow
<1> QED BY <1>1, <1>6, <1>9, SameCallsKeep

-----------------------------------------------------------------------------
(* license and withdraw *)

\* A frame is what it was made of.
LEMMA FrameOf ==
    ASSUME NEW stage \in Stage, NEW by \in Payee, NEW to \in Payee, NEW id \in Nat,
           NEW amount \in Nat, NEW saved \in Stored
    PROVE  LET f == Frame(stage, by, to, id, amount, saved)
           IN  /\ f \in Waiting
               /\ f.stage = stage /\ f.by = by /\ f.to = to /\ f.id = id
               /\ f.amount = amount /\ f.saved = saved
BY DEF Frame, Waiting

\* What is held back and owed when one call is put above the first k.
LEMMA NewTop ==
    ASSUME NEW s \in Seq(Waiting), NEW t \in Seq(Waiting), NEW k \in Nat,
           k <= Len(s), k + 1 <= Len(t), \A i \in 1 .. k : s[i] = t[i]
    PROVE  /\ HeldBack(s, k) \in Nat
           /\ HeldBack(t, k + 1) = Outstanding(t[k + 1]) + HeldBack(s, k)
           /\ \A a : /\ OwedTo(s, k, a) \in Nat
                     /\ OwedTo(t, k + 1, a) = Share(t[k + 1], a) + OwedTo(s, k, a)
<1>1. k \in 0 .. Len(s) /\ k + 1 \in 0 .. Len(t) /\ k + 1 > 0 /\ (k + 1) - 1 = k
  OBVIOUS
<1>2. HeldBack(s, k) = HeldBack(t, k) /\ \A a : OwedTo(s, k, a) = OwedTo(t, k, a)
  BY SamePrefix
<1>3. HeldBack(s, k) \in Nat /\ \A a : OwedTo(s, k, a) \in Nat
  BY <1>1, PrefixSums
<1>4. ASSUME NEW a
      PROVE  /\ HeldBack(t, k + 1) = Outstanding(t[k + 1]) + HeldBack(t, k)
             /\ OwedTo(t, k + 1, a) = Share(t[k + 1], a) + OwedTo(t, k, a)
  BY <1>1, PrefixSums
<1> QED BY <1>2, <1>3, <1>4

\* license calls the token and has collected nothing yet.
LEMMA LicenseKeeps ==
    ASSUME RegistryInv, NEW by \in Address, NEW id \in Ids, License(by, id)
    PROVE  RegistryInv'
<1> DEFINE n == Len(stack)
           f == Frame("collect", by, by, id, reg.corpora[id].price, reg)
           calls == Append(stack, f)
<1>1. /\ reg \in Stored /\ Sound(anchored, reg, stack, n) /\ Run(reg, calls)
      /\ stack \in Seq(Waiting) /\ n \in Nat
  BY DEF RegistryInv, RegistryTypeOK, License
<1>2. id \in Nat /\ id \in DOMAIN reg.corpora /\ reg.corpora[id] \in Corpus
  BY <1>1 DEF Stored, Ids
<1>3. reg.corpora[id].price \in Nat
  BY <1>2 DEF Corpus
<1>4. /\ f \in Waiting /\ f.stage = "collect" /\ f.id = id
      /\ f.amount = reg.corpora[id].price /\ f.saved = reg
  BY <1>1, <1>2, <1>3, FrameOf DEF Stage, Payee
<1> HIDE DEF f
<1>5. /\ calls \in Seq(Waiting) /\ Len(calls) = n + 1 /\ calls[n + 1] = f
      /\ \A i \in 1 .. n : stack[i] = calls[i]
  BY <1>1, <1>4
<1> HIDE DEF calls
<1>6. /\ HeldBack(calls, n + 1) = HeldBack(stack, n)
      /\ \A a : OwedTo(calls, n + 1, a) = OwedTo(stack, n, a)
  <2>1. /\ HeldBack(stack, n) \in Nat
        /\ HeldBack(calls, n + 1) = Outstanding(f) + HeldBack(stack, n)
        /\ \A a : /\ OwedTo(stack, n, a) \in Nat
                  /\ OwedTo(calls, n + 1, a) = Share(f, a) + OwedTo(stack, n, a)
    <3>1. n <= Len(stack) /\ n + 1 <= Len(calls)
      BY <1>1, <1>5
    <3> HIDE DEF n
    <3> QED BY <1>1, <1>5, <3>1, NewTop
  <2>2. Outstanding(f) = 0 /\ \A a : Share(f, a) = 0
    BY <1>4, FrameSums
  <2> QED BY <2>1, <2>2
<1>7. Collecting(reg, calls, n + 1)
  BY <1>1, <1>2, <1>4, <1>5 DEF Sound, Collecting
<1>8. [a \in Payee |-> OwedTo(calls, n + 1, a)] = [a \in Payee |-> OwedTo(stack, n, a)]
  BY <1>6
<1>9. Sound(anchored, reg, calls, n + 1)
  BY <1>1, <1>6, <1>7, <1>8 DEF Sound
<1>10. Sound(anchored, f.saved, calls, Counted(calls, Len(calls)))
  <2>1. Counted(calls, Len(calls)) = n
    BY <1>1, <1>4, <1>5 DEF Counted
  <2> QED BY <2>1, <1>1, <1>4, <1>5, SamePrefix
<1> QED BY <1>1, <1>4, <1>5, <1>9, <1>10, PushKeeps DEF calls

\* withdraw clears the credit before it calls the token: what was credited is
\* held back for the same payee.
LEMMA WithdrawKeeps ==
    ASSUME RegistryInv, NEW by \in Address, Withdraw(by)
    PROVE  RegistryInv'
<1> DEFINE n == Len(stack)
           owed == reg.credited[by]
           f == Frame("payOwed", by, by, 0, owed, reg)
           calls == Append(stack, f)
           after == [reg EXCEPT !.credited[by] = 0]
<1>1. /\ reg \in Stored /\ Sound(anchored, reg, stack, n) /\ Run(after, calls)
      /\ stack \in Seq(Waiting) /\ n \in Nat
  BY DEF RegistryInv, RegistryTypeOK, Withdraw
<1>2. /\ by \in Payee /\ reg.credited \in [Payee -> Nat] /\ reg.paid \in [Payee -> Nat]
      /\ reg.balance \in Nat /\ owed \in Nat
  BY <1>1 DEF Stored, Payee
<1>4. /\ f \in Waiting /\ f.stage = "payOwed" /\ f.to = by
      /\ f.amount = owed /\ f.saved = reg
  <2> HIDE DEF owed
  <2> QED BY <1>1, <1>2 DEF Frame, Waiting, Stage
<1>5. /\ after.credited = [reg.credited EXCEPT ![by] = 0]
      /\ after.balance = reg.balance /\ after.paid = reg.paid
      /\ after.corpora = reg.corpora /\ after.receipts = reg.receipts
  BY <1>1 DEF Stored
<1>6. /\ after.credited \in [Payee -> Nat]
      /\ SumFunction(after.credited) + owed = SumFunction(reg.credited) + 0
  BY <1>2, <1>5, PayeesAreFinite, SumUpdate
<1>7. after \in Stored
  BY <1>1, <1>5, <1>6 DEF Stored
<1>8. SumFunction(after.credited) \in Nat /\ SumFunction(reg.credited) \in Nat
  BY <1>2, <1>6, PayeesAreFinite, SumNat
<1> HIDE DEF f, after
<1>9. /\ calls \in Seq(Waiting) /\ Len(calls) = n + 1 /\ calls[n + 1] = f
      /\ \A i \in 1 .. n : stack[i] = calls[i]
  BY <1>1, <1>4
<1> HIDE DEF calls
<1>10. /\ HeldBack(stack, n) \in Nat
       /\ HeldBack(calls, n + 1) = owed + HeldBack(stack, n)
       /\ \A a : /\ OwedTo(stack, n, a) \in Nat
                 /\ OwedTo(calls, n + 1, a)
                      = (IF by = a THEN owed ELSE 0) + OwedTo(stack, n, a)
  <2>1. /\ HeldBack(stack, n) \in Nat
        /\ HeldBack(calls, n + 1) = Outstanding(f) + HeldBack(stack, n)
        /\ \A a : /\ OwedTo(stack, n, a) \in Nat
                  /\ OwedTo(calls, n + 1, a) = Share(f, a) + OwedTo(stack, n, a)
    <3>1. n <= Len(stack) /\ n + 1 <= Len(calls)
      BY <1>1, <1>9
    <3> HIDE DEF n
    <3> QED BY <1>1, <1>9, <3>1, NewTop
  <2>2. Outstanding(f) = owed /\ \A a : Share(f, a) = IF by = a THEN owed ELSE 0
    BY <1>4, FrameSums
  <2> QED BY <2>1, <2>2
<1>11. Matches(anchored, after) /\ Collecting(after, calls, n + 1)
  BY <1>1, <1>4, <1>5, <1>9 DEF Sound, Matches, Collecting
<1>12. Books(after, HeldBack(calls, n + 1), [a \in Payee |-> OwedTo(calls, n + 1, a)])
  <2>1. Books(reg, HeldBack(stack, n), [a \in Payee |-> OwedTo(stack, n, a)])
    BY <1>1 DEF Sound
  <2>2. after.balance = CreditedSum(after) + HeldBack(calls, n + 1)
    BY <2>1, <1>2, <1>5, <1>6, <1>8, <1>10 DEF Books, CreditedSum
  <2>3. ReceiptSum(after) = after.balance + PaidSum(after)
    BY <2>1, <1>5 DEF Books, ReceiptSum, PaidSum
  <2>4. ASSUME NEW a \in Payee
        PROVE  Earned(after, a) <= after.paid[a] + after.credited[a] + OwedTo(calls, n + 1, a)
    <3>1. Earned(after, a) = Earned(reg, a) /\ Earned(reg, a) \in Nat
      BY <1>1, <1>5, EarnedNat DEF Earned, Sales
    <3>2. Earned(reg, a) <= reg.paid[a] + reg.credited[a] + OwedTo(stack, n, a)
      BY <2>1 DEF Books
    <3>3. /\ reg.paid[a] \in Nat /\ reg.credited[a] \in Nat /\ OwedTo(stack, n, a) \in Nat
          /\ after.paid[a] = reg.paid[a]
          /\ after.credited[a] = IF a = by THEN 0 ELSE reg.credited[a]
      BY <1>2, <1>5, <1>10
    <3>4. OwedTo(calls, n + 1, a) = (IF by = a THEN owed ELSE 0) + OwedTo(stack, n, a)
      BY <1>10
    <3> QED BY <1>2, <3>1, <3>2, <3>3, <3>4
  <2> QED BY <2>2, <2>3, <2>4 DEF Books
<1>13. Sound(anchored, after, calls, n + 1)
  BY <1>11, <1>12 DEF Sound
<1>14. Sound(anchored, f.saved, calls, Counted(calls, Len(calls)))
  <2>1. Counted(calls, Len(calls)) = n
    BY <1>1, <1>4, <1>9 DEF Counted
  <2> QED BY <2>1, <1>1, <1>4, <1>9, SamePrefix
<1> QED BY <1>1, <1>4, <1>7, <1>9, <1>13, <1>14, PushKeeps DEF calls, after

\* What the token's answer starts from.
LEMMA Answering ==
    ASSUME RegistryInv, NEW stage, WaitsFor(stage)
    PROVE  LET n == Len(stack)
           IN  /\ stack # <<>> /\ stack \in Seq(Waiting) /\ n \in Nat \ {0}
               /\ Caller = stack[n] /\ Caller \in Waiting /\ Caller.stage = stage
               /\ Caller.saved \in Stored /\ reg \in Stored
               /\ Sound(anchored, reg, stack, n)
               /\ Sound(anchored, Caller.saved, stack, Counted(stack, n))
<1>1. stack # <<>> /\ stack \in Seq(Waiting) /\ reg \in Stored
  BY DEF RegistryInv, RegistryTypeOK, WaitsFor
<1>2. Len(stack) \in Nat \ {0} /\ stack[Len(stack)] \in Waiting
  BY <1>1
<1>3. stack[Len(stack)].saved \in Stored
  BY <1>2 DEF Waiting
<1> QED BY <1>1, <1>2, <1>3 DEF RegistryInv, WaitsFor, Caller

\* A reverted license or withdraw restores books that balance with the calls
\* below it.
LEMMA RevertKeeps ==
    ASSUME RegistryInv, NEW stage \in {"collect", "payOwed"}, WaitsFor(stage),
           Run(Caller.saved, Below)
    PROVE  RegistryInv'
<1> DEFINE n == Len(stack)
<1>1. /\ stack # <<>> /\ n \in Nat \ {0} /\ Caller = stack[n] /\ Caller.stage = stage
      /\ Caller.saved \in Stored
      /\ Sound(anchored, Caller.saved, stack, Counted(stack, n))
  BY Answering
<1>2. Counted(stack, n) = n - 1
  BY <1>1 DEF Counted
<1> QED BY <1>1, <1>2, PopKeeps

\* The books after a payment, for a call that the token has answered.
LEMMA AnsweredBooks ==
    ASSUME NEW s \in Seq(Waiting), s # <<>>, NEW leaves, NEW st \in Stored,
           Sound(leaves, st, s, Len(s)),
           NEW held \in Nat, NEW owed \in [Payee -> Nat],
           s[Len(s)].stage \in {"paySupplier", "payProtocol", "payOwed"},
           Outstanding(s[Len(s)]) + HeldBack(s, Len(s) - 1) = Due(s[Len(s)]) + held,
           \A a \in Payee : owed[a] = OwedTo(s, Len(s) - 1, a),
           NEW after \in {Paid(st, s[Len(s)]), CreditedTo(st, s[Len(s)])}
    PROVE  /\ after \in Stored /\ Matches(leaves, after) /\ Collecting(after, s, Len(s))
           /\ Books(after, held, owed)
           /\ after.treasury = st.treasury /\ after.corpora = st.corpora
<1> DEFINE n == Len(s)
           f == s[n]
           before == [a \in Payee |-> OwedTo(s, n, a)]
<1>1. /\ n \in Nat \ {0} /\ f \in Waiting /\ n \in 0 .. Len(s) /\ n > 0
      /\ f.stage \in {"paySupplier", "payProtocol", "payOwed"}
  OBVIOUS
<1>2. /\ HeldBack(s, n) \in Nat
      /\ HeldBack(s, n) = Outstanding(f) + HeldBack(s, n - 1)
      /\ \A a : /\ OwedTo(s, n, a) \in Nat
                /\ OwedTo(s, n, a) = Share(f, a) + OwedTo(s, n - 1, a)
  BY <1>1, PrefixSums
<1>3. before \in [Payee -> Nat] /\ Books(st, HeldBack(s, n), before)
  BY <1>2 DEF Sound
<1>4. HeldBack(s, n) = Due(f) + held
  BY <1>2
<1>5. \A a \in Payee : before[a] <= owed[a] + (IF a = f.to THEN Due(f) ELSE 0)
  <2> TAKE a \in Payee
  <2> HIDE DEF f
  <2>1. Share(f, a) = (IF a = f.to /\ f.stage # "payProtocol" THEN Due(f) ELSE 0)
        /\ Due(f) \in Nat
    BY <1>1, FrameSums
  <2>2. before[a] = Share(f, a) + owed[a] /\ owed[a] \in Nat
    BY <1>2
  <2> HIDE DEF before
  <2> QED BY <2>1, <2>2
<1>6. /\ after \in Stored
      /\ after.corpora = st.corpora /\ after.receipts = st.receipts
      /\ after.treasury = st.treasury
      /\ Books(after, held, owed)
  <2> DEFINE all == HeldBack(s, n)
  <2>1. /\ all \in Nat /\ f \in Waiting /\ all = Due(f) + held
        /\ before \in [Payee -> Nat] /\ Books(st, all, before)
    BY <1>1, <1>2, <1>3, <1>4
  <2>2. after \in {Paid(st, f), CreditedTo(st, f)}
    OBVIOUS
  <2> HIDE DEF f, all, before
  <2> QED BY <1>5, <2>1, <2>2, PayBooks
<1> HIDE DEF f, before
<1>7. Matches(leaves, after) /\ Collecting(after, s, n)
  BY <1>6 DEF Sound, Matches, Collecting
<1> QED BY <1>6, <1>7

\* One receipt more: one price more received, one share more earned.
LEMMA NewReceipt ==
    ASSUME NEW st \in Stored, NEW after \in Stored, NEW r \in Sale,
           after.receipts = Append(st.receipts, r), after.corpora = st.corpora
    PROVE  /\ ReceiptSum(st) \in Nat /\ ReceiptSum(after) = r.amount + ReceiptSum(st)
           /\ \A a : Earned(after, a) = IF st.corpora[r.corpus].supplier = a
                                        THEN ToSupplier(r.amount) + Earned(st, a)
                                        ELSE Earned(st, a)
<1> DEFINE m == Len(st.receipts)
           k == m + 1
<1>1. /\ st.receipts \in Seq(Sale) /\ after.receipts \in Seq(Sale) /\ r.amount \in Nat
      /\ m \in Nat
  BY DEF Stored, Sale
<1>2. /\ DOMAIN st.receipts = 1 .. m /\ DOMAIN after.receipts = 1 .. k
      /\ \A i \in 1 .. m : after.receipts[i] = st.receipts[i]
      /\ after.receipts[k] = r
  BY <1>1
<1>3. \A i \in 1 .. k : after.receipts[i] \in Sale
  BY <1>1, <1>2
<1>4. \A i \in 1 .. k : after.receipts[i].amount \in Nat
  BY <1>3 DEF Sale
<1>5. ReceiptSum(st) \in Nat /\ ReceiptSum(after) = r.amount + ReceiptSum(st)
  <2> DEFINE f == [i \in 1 .. k |-> after.receipts[i].amount]
             g == [i \in 1 .. k - 1 |-> st.receipts[i].amount]
  <2>1. k \in Nat \ {0} /\ k - 1 = m
    BY <1>1
  <2>2. f \in [1 .. k -> Nat] /\ f[k] = r.amount
    BY <1>2, <1>4, <2>1
  <2>3. g \in [1 .. k - 1 -> Nat] /\ \A i \in 1 .. k - 1 : f[i] = g[i]
    BY <1>2, <1>4, <2>1
  <2>4. ReceiptSum(after) = SumFunction(f) /\ ReceiptSum(st) = SumFunction(g)
    BY <1>2, <2>1 DEF ReceiptSum
  <2>5. IsFiniteSet(1 .. k - 1)
    BY FS_Interval, <2>1, 1 \in Int, k - 1 \in Int
  <2> HIDE DEF f, g, k
  <2>6. SumFunction(f) = f[k] + SumFunction(g)
    BY <2>1, <2>2, <2>3, SumLast
  <2>7. SumFunction(g) \in Nat
    BY <2>3, <2>5, SumNat
  <2> QED BY <2>2, <2>4, <2>6, <2>7
<1>6. ASSUME NEW a
      PROVE  Earned(after, a) = IF st.corpora[r.corpus].supplier = a
                                THEN ToSupplier(r.amount) + Earned(st, a)
                                ELSE Earned(st, a)
  <2> DEFINE f == [i \in Sales(after, a) |-> ToSupplier(after.receipts[i].amount)]
             g == [i \in Sales(st, a) |-> ToSupplier(st.receipts[i].amount)]
  <2>1. /\ Earned(after, a) = SumFunction(f) /\ Earned(st, a) = SumFunction(g)
        /\ IsFiniteSet(Sales(after, a))
    BY EarnedNat DEF Earned
  <2>2. \A i \in 1 .. m : i \in Sales(after, a) <=> i \in Sales(st, a)
    BY <1>1, <1>2 DEF Sales
  <2>3. Sales(st, a) \subseteq 1 .. m /\ Sales(after, a) \subseteq 1 .. k
    BY <1>2 DEF Sales
  <2>4. k \in Sales(after, a) <=> st.corpora[r.corpus].supplier = a
    BY <1>1, <1>2 DEF Sales
  <2>5. CASE st.corpora[r.corpus].supplier = a
    <3>1. PICK x : x = k
      OBVIOUS
    <3>2. x \in Sales(after, a) /\ Sales(after, a) \ {x} = Sales(st, a)
      BY <1>1, <2>2, <2>3, <2>4, <2>5, <3>1
    <3>3. f \in [Sales(after, a) -> Nat]
      BY <1>4, <2>3, Shares
    <3>4. g \in [Sales(after, a) \ {x} -> Nat] /\ \A y \in Sales(after, a) \ {x} : f[y] = g[y]
      BY <1>2, <2>3, <3>2, <3>3
    <3>5. f[x] = ToSupplier(r.amount)
      BY <1>2, <3>1, <3>2
    <3> HIDE DEF f, g
    <3>6. SumFunction(f) = f[x] + SumFunction(g)
      BY ONLY <2>1, <3>2, <3>3, <3>4, SumMember
    <3> QED BY <2>1, <2>5, <3>5, <3>6
  <2>6. CASE st.corpora[r.corpus].supplier # a
    <3>1. Sales(after, a) = Sales(st, a)
      <4>1. \A i \in 1 .. k : i \in 1 .. m \/ i = k
        BY <1>1
      <4>2. 1 .. m \subseteq 1 .. k
        BY <1>1
      <4> HIDE DEF k, m
      <4> QED BY <4>1, <4>2, <2>2, <2>3, <2>4, <2>6
    <3>2. f = g
      BY <3>1, <1>2, <2>3
    <3> QED BY <2>1, <2>6, <3>2
  <2> QED BY <2>5, <2>6
<1> QED BY <1>5, <1>6

\* The price is in, the receipt is written and both shares are held back.
LEMMA CollectedKeeps ==
    ASSUME RegistryInv, Collected
    PROVE  RegistryInv'
<1> DEFINE n == Len(stack)
           f == Caller
           m == n - 1
           paid == [reg EXCEPT !.balance = @ + f.amount, !.receipts = Append(@, Receipt(f))]
           to == reg.corpora[f.id].supplier
           g == Frame("paySupplier", f.by, to, f.id, f.amount, paid)
           calls == Append(Below, g)
<1>1. Run(paid, calls) /\ WaitsFor("collect")
  BY DEF Collected
<1>2. /\ stack # <<>> /\ stack \in Seq(Waiting) /\ n \in Nat \ {0}
      /\ f = stack[n] /\ f \in Waiting /\ f.stage = "collect" /\ reg \in Stored
      /\ Sound(anchored, reg, stack, n)
  BY <1>1, Answering
<1>3. /\ f.amount \in Nat /\ f.id \in Nat /\ f.by \in Payee
      /\ reg.balance \in Nat /\ reg.paid \in [Payee -> Nat] /\ reg.credited \in [Payee -> Nat]
      /\ reg.receipts \in Seq(Sale) /\ reg.corpora \in Seq(Corpus)
  BY <1>2 DEF Waiting, Stored
<1>4. f.id \in DOMAIN reg.corpora /\ f.amount = reg.corpora[f.id].price
  BY <1>2, n \in 1 .. n DEF Sound, Collecting
<1>5. reg.corpora[f.id] \in Corpus
  BY <1>3, <1>4
<1>6. to \in Payee
  BY <1>5 DEF Corpus
<1> DEFINE r == Receipt(f)
<1>7. /\ r \in Sale /\ r.amount = f.amount /\ r.corpus = f.id
      /\ r.manifest = reg.corpora[f.id].manifest /\ r.terms = reg.corpora[f.id].terms
  BY <1>3, <1>5 DEF Receipt, Sale, Corpus
<1> HIDE DEF f, r
<1>8. Append(reg.receipts, r) \in Seq(Sale) /\ reg.balance + f.amount \in Nat
  BY <1>3, <1>7
<1>9. /\ paid \in Stored /\ paid.balance = reg.balance + f.amount
      /\ paid.receipts = Append(reg.receipts, r) /\ paid.corpora = reg.corpora
      /\ paid.credited = reg.credited /\ paid.paid = reg.paid
  BY <1>2, <1>8 DEF Stored, r
<1> HIDE DEF paid, to
<1>10. /\ g \in Waiting /\ g.stage = "paySupplier" /\ g.to = to /\ g.amount = f.amount
       /\ g.saved = paid
  BY <1>3, <1>6, <1>9 DEF Frame, Waiting, Stage
<1> HIDE DEF g
<1>11. /\ calls \in Seq(Waiting) /\ Len(calls) = n /\ calls[n] = g
       /\ \A i \in 1 .. n - 1 : calls[i] = stack[i]
  BY <1>2, <1>10, TopOfStack DEF Below
<1> HIDE DEF calls
<1>12. /\ HeldBack(stack, m) \in Nat
       /\ HeldBack(stack, n) = HeldBack(stack, m)
       /\ HeldBack(calls, n) = f.amount + HeldBack(stack, m)
  <2>1. /\ HeldBack(stack, m) \in Nat
        /\ HeldBack(stack, n) = Outstanding(stack[n]) + HeldBack(stack, m)
        /\ HeldBack(calls, n) = Outstanding(calls[n]) + HeldBack(stack, m)
    <3>1. m \in Nat /\ m <= Len(stack) /\ m + 1 <= Len(stack) /\ m + 1 <= Len(calls) /\ m + 1 = n
      BY <1>2, <1>11
    <3>2. \A i \in 1 .. m : stack[i] = calls[i]
      BY <1>11
    <3> HIDE DEF m, n
    <3>3. /\ HeldBack(stack, m) \in Nat
          /\ HeldBack(stack, m + 1) = Outstanding(stack[m + 1]) + HeldBack(stack, m)
          /\ HeldBack(calls, m + 1) = Outstanding(calls[m + 1]) + HeldBack(stack, m)
      BY <1>2, <1>11, <3>1, <3>2, NewTop
    <3> QED BY <3>1, <3>3
  <2>2. Outstanding(f) = 0 /\ Outstanding(g) = f.amount
    BY <1>2, <1>10, FrameSums
  <2> QED BY <1>2, <1>11, <2>1, <2>2
<1>13. ASSUME NEW a
       PROVE  /\ OwedTo(stack, n, a) \in Nat
              /\ OwedTo(calls, n, a)
                   = (IF to = a THEN ToSupplier(f.amount) ELSE 0) + OwedTo(stack, n, a)
  <2>1. /\ OwedTo(stack, m, a) \in Nat
        /\ OwedTo(stack, n, a) = Share(stack[n], a) + OwedTo(stack, m, a)
        /\ OwedTo(calls, n, a) = Share(calls[n], a) + OwedTo(stack, m, a)
    <3>1. m \in Nat /\ m <= Len(stack) /\ m + 1 <= Len(stack) /\ m + 1 <= Len(calls) /\ m + 1 = n
      BY <1>2, <1>11
    <3>2. \A i \in 1 .. m : stack[i] = calls[i]
      BY <1>11
    <3> HIDE DEF m, n
    <3>3. \A b : /\ OwedTo(stack, m, b) \in Nat
                 /\ OwedTo(calls, m + 1, b) = Share(calls[m + 1], b) + OwedTo(stack, m, b)
      BY <1>2, <1>11, <3>1, <3>2, NewTop
    <3>4. \A b : OwedTo(stack, m + 1, b) = Share(stack[m + 1], b) + OwedTo(stack, m, b)
      BY <1>2, <3>1, NewTop
    <3> QED BY <3>1, <3>3, <3>4
  <2>2. Share(f, a) = 0 /\ Share(g, a) = IF to = a THEN ToSupplier(f.amount) ELSE 0
    BY <1>2, <1>10, FrameSums
  <2> QED BY <1>2, <1>11, <2>1, <2>2
<1>14. Matches(anchored, paid)
  <2>1. /\ \A i \in DOMAIN paid.receipts : i \in DOMAIN reg.receipts \/ paid.receipts[i] = r
        /\ \A i \in DOMAIN reg.receipts : paid.receipts[i] = reg.receipts[i]
    BY <1>3, <1>7, <1>9
  <2>2. Matches(anchored, reg)
    BY <1>2 DEF Sound
  <2> QED BY <1>4, <1>7, <1>9, <2>1, <2>2 DEF Matches
<1>15. Collecting(paid, calls, n)
  <2>1. Collecting(reg, stack, n)
    BY <1>2 DEF Sound
  <2> QED BY <1>2, <1>9, <1>10, <1>11, <2>1 DEF Collecting
<1>16. Books(paid, HeldBack(calls, n), [a \in Payee |-> OwedTo(calls, n, a)])
  <2>1. Books(reg, HeldBack(stack, n), [a \in Payee |-> OwedTo(stack, n, a)])
    BY <1>2 DEF Sound
  <2>2. /\ ReceiptSum(reg) \in Nat /\ ReceiptSum(paid) = f.amount + ReceiptSum(reg)
        /\ \A a : Earned(paid, a) = IF to = a THEN ToSupplier(f.amount) + Earned(reg, a)
                                              ELSE Earned(reg, a)
    BY <1>2, <1>7, <1>9, NewReceipt DEF to
  <2>3. CreditedSum(reg) \in Nat /\ PaidSum(reg) \in Nat
    BY <1>3, PayeesAreFinite, SumNat DEF CreditedSum, PaidSum
  <2>4. CreditedSum(paid) = CreditedSum(reg) /\ PaidSum(paid) = PaidSum(reg)
    BY <1>9 DEF CreditedSum, PaidSum
  <2>5. paid.balance = CreditedSum(paid) + HeldBack(calls, n)
    BY <2>1, <2>3, <2>4, <1>3, <1>9, <1>12 DEF Books
  <2>6. ReceiptSum(paid) = paid.balance + PaidSum(paid)
    BY <2>1, <2>2, <2>3, <2>4, <1>3, <1>9 DEF Books
  <2>7. ASSUME NEW a \in Payee
        PROVE  Earned(paid, a) <= paid.paid[a] + paid.credited[a] + OwedTo(calls, n, a)
    <3>1. Earned(reg, a) \in Nat /\ ToSupplier(f.amount) \in Nat
      BY <1>2, <1>3, EarnedNat, Shares
    <3>2. Earned(reg, a) <= reg.paid[a] + reg.credited[a] + OwedTo(stack, n, a)
      BY <2>1 DEF Books
    <3>3. reg.paid[a] \in Nat /\ reg.credited[a] \in Nat
      BY <1>3
    <3>4. OwedTo(stack, n, a) \in Nat /\ paid.paid[a] = reg.paid[a]
          /\ paid.credited[a] = reg.credited[a]
      BY <1>9, <1>13
    <3>5. CASE to = a
      <4>1. /\ Earned(paid, a) = ToSupplier(f.amount) + Earned(reg, a)
            /\ OwedTo(calls, n, a) = ToSupplier(f.amount) + OwedTo(stack, n, a)
        BY <3>5, <1>13, <2>2
      <4> QED BY <3>1, <3>2, <3>3, <3>4, <4>1
    <3>6. CASE to # a
      <4>1. Earned(paid, a) = Earned(reg, a) /\ OwedTo(calls, n, a) = OwedTo(stack, n, a)
        BY <3>6, <1>13, <2>2
      <4> QED BY <3>2, <3>4, <4>1
    <3> QED BY <3>5, <3>6
  <2> QED BY <2>5, <2>6, <2>7 DEF Books
<1>17. Sound(anchored, paid, calls, n)
  BY <1>14, <1>15, <1>16 DEF Sound
<1>18. Counted(calls, n) = n
  BY <1>10, <1>11 DEF Counted
<1>19. Sound(anchored, g.saved, calls, Counted(calls, n))
  BY <1>10, <1>17, <1>18
<1>20. Run(paid, calls) /\ calls = Append(Below, g)
  BY <1>1 DEF calls, g, f, to, paid, r
<1> QED BY <1>2, <1>9, <1>10, <1>17, <1>19, <1>20, ReplaceKeeps

\* A call that the token answers for the last time.
LEMMA LastAnswerKeeps ==
    ASSUME RegistryInv, NEW stage \in {"payProtocol", "payOwed"}, WaitsFor(stage),
           NEW st \in Stored, Sound(anchored, st, stack, Len(stack)),
           NEW after \in {Paid(st, Caller), CreditedTo(st, Caller)}, Run(after, Below)
    PROVE  RegistryInv'
<1> DEFINE n == Len(stack)
           held == HeldBack(stack, n - 1)
           owed == [a \in Payee |-> OwedTo(stack, n - 1, a)]
<1>1. /\ stack # <<>> /\ stack \in Seq(Waiting) /\ n \in Nat \ {0}
      /\ Caller = stack[n] /\ Caller \in Waiting /\ Caller.stage = stage
  BY Answering
<1>2. held \in Nat /\ \A a : OwedTo(stack, n - 1, a) \in Nat
  BY <1>1, PrefixSums, n - 1 \in 0 .. Len(stack)
<1>3. owed \in [Payee -> Nat]
  BY <1>2
<1>4. Outstanding(Caller) = Due(Caller)
  BY <1>1, FrameSums
<1>5. \A a \in Payee : owed[a] = OwedTo(stack, n - 1, a)
  OBVIOUS
<1>6. Outstanding(stack[n]) + HeldBack(stack, n - 1) = Due(stack[n]) + held
  BY <1>1, <1>4
<1>7. /\ after \in {Paid(st, stack[n]), CreditedTo(st, stack[n])}
      /\ stack[n].stage \in {"paySupplier", "payProtocol", "payOwed"}
  BY <1>1
<1>8. /\ after \in Stored /\ Matches(anchored, after) /\ Collecting(after, stack, n)
      /\ Books(after, held, owed)
  <2> HIDE DEF held, owed
  <2> QED BY <1>1, <1>2, <1>3, <1>5, <1>6, <1>7, AnsweredBooks
<1>9. Collecting(after, stack, n - 1)
  BY <1>1, <1>8 DEF Collecting
<1>10. Sound(anchored, after, stack, n - 1)
  BY <1>8, <1>9 DEF Sound
<1> QED BY <1>1, <1>8, <1>10, PopKeeps

\* The supplier is paid or credited, and the protocol's share stays held back.
LEMMA SupplierPaidKeeps ==
    ASSUME RegistryInv, SupplierPaid
    PROVE  RegistryInv'
<1> DEFINE n == Len(stack)
           m == n - 1
           f == Caller
<1>1. WaitsFor("paySupplier")
  BY DEF SupplierPaid
<1>2. /\ stack # <<>> /\ stack \in Seq(Waiting) /\ n \in Nat \ {0}
      /\ f = stack[n] /\ f \in Waiting /\ f.stage = "paySupplier"
      /\ f.saved \in Stored /\ reg \in Stored
      /\ Sound(anchored, reg, stack, n)
      /\ Sound(anchored, f.saved, stack, Counted(stack, n))
  BY <1>1, Answering
<1>3. Sound(anchored, f.saved, stack, n)
  BY <1>2 DEF Counted
<1>4. PICK after \in Payout :
         Run(after, Append(Below, Frame("payProtocol", f.by, after.treasury, f.id, f.amount, after)))
  BY DEF SupplierPaid
<1>5. PICK st \in {reg, f.saved} : after \in {Paid(st, f), CreditedTo(st, f)}
  BY <1>4 DEF Payout
<1> DEFINE g == Frame("payProtocol", f.by, after.treasury, f.id, f.amount, after)
           calls == Append(Below, g)
           held == ToProtocol(f.amount) + HeldBack(stack, m)
           owed == [a \in Payee |-> OwedTo(stack, m, a)]
<1>6. HeldBack(stack, m) \in Nat /\ \A a : OwedTo(stack, m, a) \in Nat
  BY <1>2, PrefixSums, m \in 0 .. Len(stack)
<1>7. f.amount \in Nat /\ f.id \in Nat /\ f.by \in Payee
  BY <1>2 DEF Waiting
<1>8. /\ ToProtocol(f.amount) \in Nat /\ ToSupplier(f.amount) \in Nat
      /\ ToProtocol(f.amount) + ToSupplier(f.amount) = f.amount
  BY <1>7, Shares
<1>9. Due(f) = ToSupplier(f.amount) /\ Outstanding(f) = f.amount
  BY <1>2, FrameSums
<1>10. held \in Nat /\ owed \in [Payee -> Nat]
  BY <1>6, <1>8
<1>11. Outstanding(stack[n]) + HeldBack(stack, m) = Due(stack[n]) + held
  <2>1. Outstanding(f) + HeldBack(stack, m) = Due(f) + held
    BY <1>6, <1>7, <1>8, <1>9
  <2> QED BY <2>1, <1>2
<1>12. /\ after \in {Paid(st, stack[n]), CreditedTo(st, stack[n])}
       /\ stack[n].stage \in {"paySupplier", "payProtocol", "payOwed"}
       /\ st \in Stored /\ Sound(anchored, st, stack, n)
       /\ \A a \in Payee : owed[a] = OwedTo(stack, m, a)
  BY <1>2, <1>3, <1>5
<1>13. /\ after \in Stored /\ Matches(anchored, after) /\ Collecting(after, stack, n)
       /\ Books(after, held, owed)
  <2> HIDE DEF held, owed
  <2> QED BY <1>2, <1>10, <1>11, <1>12, AnsweredBooks
<1> HIDE DEF f
<1>14. after.treasury \in Payee
  BY <1>13 DEF Stored
<1>15. /\ g \in Waiting /\ g.stage = "payProtocol" /\ g.amount = f.amount /\ g.saved = after
  BY <1>7, <1>13, <1>14 DEF Frame, Waiting, Stage
<1> HIDE DEF g
<1>16. /\ calls \in Seq(Waiting) /\ Len(calls) = n /\ calls[n] = g
       /\ \A i \in 1 .. m : calls[i] = stack[i]
  BY <1>2, <1>15, TopOfStack DEF Below
<1> HIDE DEF calls
<1>17. HeldBack(calls, n) = held /\ \A a : OwedTo(calls, n, a) = OwedTo(stack, m, a)
  <2>1. m \in Nat /\ m <= Len(stack) /\ m + 1 <= Len(calls) /\ m + 1 = n
    BY <1>2, <1>16
  <2>2. \A i \in 1 .. m : stack[i] = calls[i]
    BY <1>16
  <2>3. /\ Outstanding(g) = ToProtocol(f.amount)
        /\ \A a : Share(g, a) = 0
    BY <1>15, FrameSums
  <2>4. /\ HeldBack(calls, n) = Outstanding(g) + HeldBack(stack, m)
        /\ \A a : OwedTo(calls, n, a) = Share(g, a) + OwedTo(stack, m, a)
    <3> HIDE DEF m, n
    <3>1. /\ HeldBack(calls, m + 1) = Outstanding(calls[m + 1]) + HeldBack(stack, m)
          /\ \A a : OwedTo(calls, m + 1, a) = Share(calls[m + 1], a) + OwedTo(stack, m, a)
      BY <1>2, <1>16, <2>1, <2>2, NewTop
    <3> QED BY <3>1, <2>1, <1>16
  <2> QED BY <2>3, <2>4, <1>6
<1>18. Books(after, HeldBack(calls, n), [a \in Payee |-> OwedTo(calls, n, a)])
  BY <1>13, <1>17
<1>19. Collecting(after, calls, n)
  BY <1>2, <1>13, <1>15, <1>16 DEF Collecting
<1>20. Sound(anchored, after, calls, n)
  BY <1>13, <1>18, <1>19 DEF Sound
<1>21. Sound(anchored, g.saved, calls, Counted(calls, n))
  BY <1>15, <1>16, <1>20 DEF Counted
<1>22. Run(after, calls) /\ calls = Append(Below, g)
  BY <1>4 DEF calls, g, f
<1> QED BY <1>2, <1>13, <1>15, <1>20, <1>21, <1>22, ReplaceKeeps

\* The protocol's share is paid or credited, and license returns.
LEMMA ProtocolPaidKeeps ==
    ASSUME RegistryInv, ProtocolPaid
    PROVE  RegistryInv'
<1>1. WaitsFor("payProtocol")
  BY DEF ProtocolPaid
<1>2. /\ Caller.stage = "payProtocol" /\ Caller = stack[Len(stack)]
      /\ Caller.saved \in Stored /\ reg \in Stored
      /\ Sound(anchored, reg, stack, Len(stack))
      /\ Sound(anchored, Caller.saved, stack, Counted(stack, Len(stack)))
  BY <1>1, Answering
<1>3. Sound(anchored, Caller.saved, stack, Len(stack))
  BY <1>2 DEF Counted
<1>4. PICK after \in Payout : Run(after, Below)
  BY DEF ProtocolPaid
<1>5. PICK st \in {reg, Caller.saved} : after \in {Paid(st, Caller), CreditedTo(st, Caller)}
  BY <1>4 DEF Payout
<1>6. st \in Stored /\ Sound(anchored, st, stack, Len(stack))
  BY <1>2, <1>3
<1> QED BY <1>1, <1>4, <1>5, <1>6, LastAnswerKeeps

\* withdraw is over.
LEMMA WithdrawnKeeps ==
    ASSUME RegistryInv, Withdrawn
    PROVE  RegistryInv'
<1>1. WaitsFor("payOwed")
  BY DEF Withdrawn
<1>2. reg \in Stored /\ Sound(anchored, reg, stack, Len(stack))
  BY <1>1, Answering
<1>3. CASE Run(Paid(reg, Caller), Below)
  BY <1>1, <1>2, <1>3, LastAnswerKeeps
<1>4. CASE Run(Caller.saved, Below)
  BY <1>1, <1>4, RevertKeeps
<1> QED BY <1>3, <1>4 DEF Withdrawn

-----------------------------------------------------------------------------
\* Nothing is owed when the contract is deployed.
LEMMA RegistryInitInv == RegistryInit => RegistryInv
<1> SUFFICES ASSUME RegistryInit PROVE RegistryInv
  OBVIOUS
<1>1. PICK deployer \in Address, treasury \in Address : reg = Storage(deployer, treasury)
  BY DEF RegistryInit
<1>2. /\ reg.terms = [t \in TermsHash |-> "unknown"] /\ reg.corpora = <<>>
      /\ reg.receipts = <<>> /\ reg.balance = 0
      /\ reg.credited = [a \in Payee |-> 0] /\ reg.paid = [a \in Payee |-> 0]
  BY <1>1 DEF Storage
<1>3. reg \in Stored
  BY <1>1 DEF Storage, Stored, Payee
<1>4. stack = <<>> /\ settled = reg /\ anchored = {}
  BY DEF RegistryInit
<1>5. Sound(anchored, reg, <<>>, 0)
  <2> DEFINE zero == [a \in Payee |-> 0]
  <2>1. CreditedSum(reg) = 0 /\ PaidSum(reg) = 0
    BY <1>2, SumZero, PayeesAreFinite DEF CreditedSum, PaidSum
  <2>2. ReceiptSum(reg) = 0
    <3>1. DOMAIN reg.receipts = {}
      BY <1>2
    <3> QED BY <3>1, SumEmpty DEF ReceiptSum
  <2>3. HeldBack(<<>>, 0) = 0 /\ \A a : OwedTo(<<>>, 0, a) = 0
    BY PrefixSums, <<>> \in Seq(Waiting), 0 \in 0 .. Len(<<>>)
  <2>4. ASSUME NEW a PROVE Earned(reg, a) = 0
    <3>1. Sales(reg, a) = {}
      BY <1>2 DEF Sales
    <3> QED BY <3>1, SumEmpty DEF Earned
  <2>5. Books(reg, HeldBack(<<>>, 0), [a \in Payee |-> OwedTo(<<>>, 0, a)])
    BY <1>2, <2>1, <2>2, <2>3, <2>4 DEF Books
  <2>6. Matches(anchored, reg) /\ Collecting(reg, <<>>, 0)
    BY <1>2 DEF Matches, Collecting
  <2> QED BY <2>5, <2>6 DEF Sound
<1>6. stack \in Seq(Waiting) /\ Len(stack) = 0 /\ DOMAIN stack = {}
  BY <1>4
<1> QED BY <1>3, <1>4, <1>5, <1>6 DEF RegistryInv, RegistryTypeOK

\* Every call, every hook and every answer of the token keeps the invariant.
LEMMA RegistryNextInv == RegistryInv /\ [RegistryNext]_registryVars => RegistryInv'
<1> SUFFICES ASSUME RegistryInv, [RegistryNext]_registryVars PROVE RegistryInv'
  OBVIOUS
<1>1. ASSUME NEW leaf \in CorpusLeaf, AnchorLeaf(leaf) PROVE RegistryInv'
  BY <1>1, AnchorLeafKeeps
<1>2. ASSUME NEW by \in Address, Call(by) PROVE RegistryInv'
  <2>1. ASSUME NEW leaf \in CorpusLeaf, NEW supplier \in Payee, NEW price \in Price,
               SealCorpus(by, leaf, supplier, price)
        PROVE  RegistryInv'
    BY <2>1, SealCorpusKeeps
  <2>2. ASSUME NEW id \in Ids, CloseCorpus(by, id) \/ License(by, id) PROVE RegistryInv'
    BY <2>2, CloseCorpusKeeps, LicenseKeeps
  <2> QED BY <1>2, <2>1, <2>2, WithdrawKeeps, TermsAndStewardKeep DEF Call
<1>3. CASE TokenAnswers
  <2>1. CASE NotCollected
    BY <2>1, RevertKeeps DEF NotCollected
  <2> QED BY <1>3, <2>1, CollectedKeeps, SupplierPaidKeeps, ProtocolPaidKeeps, WithdrawnKeeps
          DEF TokenAnswers
<1>4. CASE UNCHANGED registryVars
  BY <1>4 DEF registryVars, RegistryInv, RegistryTypeOK
<1> QED BY <1>1, <1>2, <1>3, <1>4 DEF RegistryNext

\* The invariant holds in every reachable state.
LEMMA RegistryInvariant == RegistrySpec => []RegistryInv
BY RegistryInitInv, RegistryNextInv, PTL DEF RegistrySpec

\* The storage, every state a waiting call saved and the settled one keep their
\* shape: in particular no balance is ever negative.
THEOREM RegistryTypeCorrect == RegistrySpec => []RegistryTypeOK
<1>1. RegistryInv => RegistryTypeOK
  BY DEF RegistryInv
<1> QED BY <1>1, RegistryInvariant, PTL

\* However deep the hooks of the token re-enter and whichever transfers fail,
\* the registry holds exactly its credits and the shares under way, and every
\* price received is held or paid out.
THEOREM MoneyIsAccountedForHolds == RegistrySpec => []MoneyIsAccountedFor
<1>1. RegistryInv => MoneyIsAccountedFor
  <2> SUFFICES ASSUME RegistryInv PROVE MoneyIsAccountedFor
    OBVIOUS
  <2>1. /\ reg.balance = CreditedSum(reg) + HeldBack(stack, Len(stack))
        /\ ReceiptSum(reg) = reg.balance + PaidSum(reg)
    BY DEF RegistryInv, Sound, Books
  <2>2. DOMAIN stack = 1 .. Len(stack)
    BY DEF RegistryInv, RegistryTypeOK
  <2> QED BY <2>1, <2>2 DEF MoneyIsAccountedFor, HeldBack
<1> QED BY <1>1, RegistryInvariant, PTL

\* When a transaction is over, no failed, refused or re-entered transfer has
\* cost a supplier its share of any receipt.
THEOREM SuppliersAreMadeWholeHolds == RegistrySpec => []SuppliersAreMadeWhole
<1>1. RegistryInv => SuppliersAreMadeWhole
  <2> SUFFICES ASSUME RegistryInv, NEW a \in Payee
               PROVE  Earned(settled, a) <= settled.paid[a] + settled.credited[a]
    BY DEF SuppliersAreMadeWhole, Earned, Sales, ToSupplier, ToProtocol
  <2>1. Earned(settled, a) <= settled.paid[a] + settled.credited[a] + OwedTo(<<>>, 0, a)
    BY DEF RegistryInv, Sound, Books
  <2>2. OwedTo(<<>>, 0, a) = 0
    BY PrefixSums, <<>> \in Seq(Waiting), 0 \in 0 .. Len(<<>>)
  <2>3. settled.paid[a] \in Nat /\ settled.credited[a] \in Nat
    BY DEF RegistryInv, RegistryTypeOK, Stored
  <2> QED BY <2>1, <2>2, <2>3
<1> QED BY <1>1, RegistryInvariant, PTL

\* I-8: every receipt names the manifest, terms and price of a corpus that the
\* log has anchored, through every revert.
THEOREM ReceiptsNameAnchoredCorporaHolds == RegistrySpec => []ReceiptsNameAnchoredCorpora
<1>1. RegistryInv => ReceiptsNameAnchoredCorpora
  BY DEF RegistryInv, Sound, Matches, ReceiptsNameAnchoredCorpora
<1> QED BY <1>1, RegistryInvariant, PTL
-----------------------------------------------------------------------------
(* What the chains, the cache and the requests hold *)

Rows   == [chain: Chain, index: Nat, head: Nat]
Sealed == [manifest: SoldManifest, open: BOOLEAN, age: Nat, old: BOOLEAN]
Shown  == [manifest: SoldManifest, open: BOOLEAN]
Keys   == [chain: Chain, get: {"anchorAt", "corpusCount", "corpusAt"}, at: Nat]

\* What a route knows so far, of a corpus and of an anchor.
OfCorpus == [m: SoldManifest, count: Nat, unread: BOOLEAN, due: BOOLEAN]
OfAnchor == [head: Nat, todo: SUBSET Rows, confirmed: SUBSET Rows, refused: SUBSET Rows]

ContractsOK ==
    /\ log \in [Chain -> Seq(Nat)]
    /\ rows \subseteq Rows
    /\ anchorTable \in Seq(Nat)
    /\ sealed \in Seq(Sealed)

\* A request and what a node told are records.
IsRequest(c) == c = [stage |-> c.stage, key |-> c.key, told |-> c.told, known |-> c.known]
IsAged(entry) == entry = [value |-> entry.value, age |-> entry.age] /\ entry.age \in Nat

\* The value was what the chain says of the key, at most this long ago: heads
\* and manifests stay, a corpus that is missing was sealed since and one that
\* is open or closed by now was changed since.
Was(key, value, age, heads, corpora) ==
    /\ key \in Keys
    /\ key.get = "anchorAt" =>
          key.at \in DOMAIN heads[key.chain] /\ value = heads[key.chain][key.at]
    /\ key.get = "corpusCount" =>
          /\ value \in Nat
          /\ \A i \in DOMAIN corpora : i > value => ~corpora[i].old /\ corpora[i].age <= age
    /\ key.get = "corpusAt" =>
          /\ value \in Shown /\ key.at \in DOMAIN corpora
          /\ value.manifest = corpora[key.at].manifest
          /\ value.open = corpora[key.at].open \/ corpora[key.at].age <= age

CacheIsRecent ==
    \A k \in DOMAIN cache :
        /\ IsAged(cache[k]) /\ cache[k].age < Ttl
        /\ Was(k, cache[k].value, cache[k].age + Delay, log, sealed)

\* So is what a node told a request that has not heard it.
Heard(c, heads, corpora) ==
    c.told # Nothing =>
        /\ IsAged(c.told) /\ c.told.age <= Delay
        /\ Was(c.key, c.told.value, c.told.age, heads, corpora)

\* A corpus that was sealed long ago is at one of these places.
IsDue(m, from, to, corpora) ==
    \E i \in DOMAIN corpora : /\ corpora[i].manifest = m /\ corpora[i].old
                              /\ from <= i /\ i <= to

\* A row is confirmed, or refused, for what its chain carries at its index.
Judged(known, heads) ==
    /\ known \in OfAnchor
    /\ \A r \in known.confirmed :
          r.index \in DOMAIN heads[r.chain] /\ heads[r.chain][r.index] = known.head
    /\ \A r \in known.refused :
          r.index \in DOMAIN heads[r.chain] /\ heads[r.chain][r.index] # known.head

\* What is so at each stage of a request.
At(stage, key, known, heads, corpora) ==
    /\ key # Nothing => key \in Keys
    /\ stage = "count" =>
          /\ key = CorpusCount /\ known \in OfCorpus
          /\ known.due => IsDue(known.m, 1, Len(corpora), corpora)
    /\ stage = "scan" =>
          /\ known \in OfCorpus
          /\ \E at \in 1 .. known.count :
                /\ key = CorpusRead(at)
                /\ known.due /\ ~known.unread => IsDue(known.m, at, known.count, corpora)
    /\ stage = "notSealed" => ~known.due \/ known.unread
    /\ stage = "sealed" => known.id \in DOMAIN corpora /\ corpora[known.id].manifest = known.m
    /\ stage = "licensed" => known.got = known.m
    /\ stage = "prevRoot" =>
          /\ \E chain \in Chain, at \in Nat : key = AnchorRead(chain, at)
          /\ Judged(known, heads)
    /\ stage = "row" =>
          /\ \E row \in known.todo : key = AnchorRead(row.chain, row.index)
          /\ Judged(known, heads)
    /\ stage = "anchor" => Judged(known, heads)

Stands(c, heads, corpora) == IsRequest(c) /\ At(c.stage, c.key, c.known, heads, corpora)

RequestsStand ==
    /\ call = [p \in Client |-> call[p]]
    /\ \A p \in Client : Stands(call[p], log, sealed) /\ Heard(call[p], log, sealed)

ReadsInv == ContractsOK /\ CacheIsRecent /\ RequestsStand

-----------------------------------------------------------------------------
(* The chains go on *)

\* The chains only append, and what was sealed stays sealed.
Later ==
    /\ \A c \in Chain : /\ DOMAIN log[c] \subseteq DOMAIN log'[c]
                        /\ \A i \in DOMAIN log[c] : log'[c][i] = log[c][i]
    /\ Len(sealed) <= Len(sealed') /\ DOMAIN sealed \subseteq DOMAIN sealed'
    /\ \A i \in DOMAIN sealed : /\ sealed'[i].manifest = sealed[i].manifest
                                /\ sealed[i].old => sealed'[i].old

\* What the constants are: every chain has its place in the order.
LEMMA OrderIs ==
    /\ DOMAIN GraspOrder = 1 .. Len(GraspOrder) /\ Len(GraspOrder) \in Nat \ {0}
    /\ \A c \in Chain : Place(c) \in DOMAIN GraspOrder /\ GraspOrder[Place(c)] = c
    /\ \A i \in DOMAIN GraspOrder : GraspOrder[i] \in Chain
    /\ Primary \in Chain
    /\ Ttl \in Nat \ {0} /\ Delay \in Nat /\ Grace \in Nat /\ Delay < Grace
<1>1. Ttl \in Nat \ {0} /\ Delay \in Nat /\ Grace \in Nat /\ Delay < Grace
  BY ChainReadsAssumption DEF Grace
<1>2. \A i \in DOMAIN GraspOrder : GraspOrder[i] \in Chain
  BY DEF Chain, Range
<1>3. \A c \in Chain : Place(c) \in DOMAIN GraspOrder /\ GraspOrder[Place(c)] = c
  BY DEF Chain, Range, Place
<1> QED BY <1>1, <1>2, <1>3, ChainReadsAssumption DEF Primary

\* How a sealed corpus is after a step that takes so much time.
Aging(time) ==
    \A i \in DOMAIN sealed' :
        \/ /\ sealed'[i].age = 0
           /\ sealed'[i].old => i \in DOMAIN sealed /\ sealed[i].old
        \/ /\ i \in DOMAIN sealed /\ sealed'[i].open = sealed[i].open
           /\ sealed'[i].age <= sealed[i].age + time
           /\ sealed'[i].old => sealed[i].old \/ sealed[i].age >= Grace

\* A head that is mined comes after those there are.
LEMMA MineLater ==
    ASSUME ContractsOK, NEW c \in Chain, Mine(c)
    PROVE  ContractsOK' /\ Later /\ Aging(0)
<1>1. PICK h \in 1 .. MaxHeads : log' = [log EXCEPT ![c] = Append(@, h)]
  BY DEF Mine
<1>2. UNCHANGED <<rows, anchorTable, sealed>>
  BY DEF Mine
<1>3. \A d \in Chain : log[d] \in Seq(Nat) /\ log'[d] = IF d = c THEN Append(log[c], h) ELSE log[d]
  BY <1>1 DEF ContractsOK
<1>4. h \in Nat
  BY ChainReadsAssumption
<1>5. log' \in [Chain -> Seq(Nat)]
  BY <1>1, <1>4 DEF ContractsOK
<1>6. \A d \in Chain : /\ DOMAIN log[d] \subseteq DOMAIN log'[d]
                       /\ \A i \in DOMAIN log[d] : log'[d][i] = log[d][i]
  <2>1. ASSUME NEW s \in Seq(Nat)
        PROVE  /\ DOMAIN s \subseteq DOMAIN Append(s, h)
               /\ \A i \in DOMAIN s : Append(s, h)[i] = s[i]
    BY <1>4
  <2>2. \A d \in Chain : log[d] \in Seq(Nat)
    BY <1>3
  <2> SUFFICES ASSUME NEW d \in Chain
               PROVE  /\ DOMAIN log[d] \subseteq DOMAIN log'[d]
                      /\ \A i \in DOMAIN log[d] : log'[d][i] = log[d][i]
    OBVIOUS
  <2>3. CASE d = c
    <3>1. log'[d] = Append(log[d], h)
      BY <1>3, <2>3
    <3> QED BY <2>1, <2>2, <3>1
  <2>4. CASE d # c
    BY <1>3, <2>4
  <2> QED BY <2>3, <2>4
<1>7. \A i \in DOMAIN sealed : sealed[i] \in Sealed
  BY DEF ContractsOK
<1>8. Aging(0)
  BY <1>2, <1>7 DEF Aging, Sealed
<1>9. Len(sealed) \in Nat
  BY DEF ContractsOK
<1> QED BY <1>2, <1>5, <1>6, <1>8, <1>9 DEF ContractsOK, Later

\* A row that is written changes no chain.
LEMMA RecordLater ==
    ASSUME ContractsOK, NEW c \in Chain, RecordAnchor(c)
    PROVE  ContractsOK' /\ Later /\ Aging(0)
<1>1. UNCHANGED <<log, sealed>>
  BY DEF RecordAnchor
<1>2. PICK h \in Range(log[c]) :
          /\ rows' = {r \in rows : r.chain # c \/ r.index # Len(log[c])}
                        \cup {[chain |-> c, index |-> Len(log[c]), head |-> h]}
          /\ anchorTable' \in {anchorTable, Append(anchorTable, h)}
  BY DEF RecordAnchor
<1>3. log[c] \in Seq(Nat)
  BY DEF ContractsOK
<1>4. h \in Nat /\ Len(log[c]) \in Nat
  BY <1>3 DEF Range
<1>5. [chain |-> c, index |-> Len(log[c]), head |-> h] \in Rows
  BY <1>4 DEF Rows
<1>6. rows' \subseteq Rows
  BY <1>2, <1>5 DEF ContractsOK
<1>10. anchorTable' \in Seq(Nat)
  <2>1. Append(anchorTable, h) \in Seq(Nat)
    BY <1>4 DEF ContractsOK
  <2> QED BY <1>2, <2>1 DEF ContractsOK
<1>7. \A i \in DOMAIN sealed : sealed[i] \in Sealed
  BY DEF ContractsOK
<1>8. Aging(0)
  BY <1>1, <1>7 DEF Aging, Sealed
<1>9. Len(sealed) \in Nat
  BY DEF ContractsOK
<1> QED BY <1>1, <1>6, <1>8, <1>9, <1>10 DEF ContractsOK, Later

\* A corpus that is sealed is the last, and is new.
LEMMA SealLater ==
    ASSUME ContractsOK, NEW m \in SoldManifest, Seal(m)
    PROVE  ContractsOK' /\ Later /\ Aging(0)
<1> DEFINE new == [manifest |-> m, open |-> TRUE, age |-> 0, old |-> FALSE]
<1>1. sealed' = Append(sealed, new) /\ UNCHANGED <<log, rows, anchorTable>>
  BY DEF Seal
<1>2. new \in Sealed /\ new.age = 0 /\ ~new.old
  BY DEF Sealed
<1> HIDE DEF new
<1>3. \A i \in DOMAIN sealed : sealed[i] \in Sealed
  BY DEF ContractsOK
<1>4. /\ sealed' \in Seq(Sealed) /\ Len(sealed) <= Len(sealed')
      /\ DOMAIN sealed' = DOMAIN sealed \cup {Len(sealed) + 1}
      /\ \A i \in DOMAIN sealed : sealed'[i] = sealed[i]
      /\ sealed'[Len(sealed) + 1] = new
  BY <1>1, <1>2 DEF ContractsOK
<1>5. Aging(0)
  BY <1>2, <1>3, <1>4 DEF Aging, Sealed
<1> QED BY <1>1, <1>4, <1>5 DEF ContractsOK, Later

\* A corpus that is opened or closed keeps its manifest, and is new.
LEMMA SetOpenLater ==
    ASSUME ContractsOK, NEW i \in DOMAIN sealed, SetOpen(i)
    PROVE  ContractsOK' /\ Later /\ Aging(0)
<1>1. \A j \in DOMAIN sealed : sealed[j] \in Sealed
  BY DEF ContractsOK
<1> DEFINE new == [sealed[i] EXCEPT !.open = ~@, !.age = 0]
<1>2. sealed' = [sealed EXCEPT ![i] = new] /\ UNCHANGED <<log, rows, anchorTable>>
  BY DEF SetOpen
<1>3. /\ new \in Sealed
      /\ new.manifest = sealed[i].manifest /\ new.age = 0 /\ new.old = sealed[i].old
  BY <1>1 DEF Sealed
<1> HIDE DEF new
<1>4. /\ sealed' \in Seq(Sealed) /\ Len(sealed') = Len(sealed) /\ DOMAIN sealed' = DOMAIN sealed
      /\ \A j \in DOMAIN sealed : sealed'[j] = IF j = i THEN new ELSE sealed[j]
      /\ Len(sealed) \in Nat
  BY <1>2, <1>3 DEF ContractsOK
<1>5. Aging(0)
  BY <1>1, <1>3, <1>4 DEF Aging, Sealed
<1> QED BY <1>2, <1>3, <1>4, <1>5 DEF ContractsOK, Later

\* Time makes what was sealed older and changes nothing else.
LEMMA TickLater ==
    ASSUME ContractsOK, Tick
    PROVE  ContractsOK' /\ Later /\ Aging(1)
<1>1. UNCHANGED <<log, rows, anchorTable>>
  BY DEF Tick
<1>2. \A i \in DOMAIN sealed : sealed[i] \in Sealed
  BY DEF ContractsOK
<1>3. ASSUME NEW i \in DOMAIN sealed
      PROVE  /\ sealed'[i] \in Sealed
             /\ sealed'[i].manifest = sealed[i].manifest /\ sealed'[i].open = sealed[i].open
             /\ sealed'[i].age <= sealed[i].age + 1
             /\ sealed'[i].old <=> (sealed[i].old \/ sealed[i].age >= Grace)
  <2> DEFINE age == Older(sealed[i].age)
             old == sealed[i].old \/ sealed[i].age >= Grace
             new == [sealed[i] EXCEPT !.age = age, !.old = old]
  <2>1. sealed[i] \in Sealed
    BY <1>2
  <2>2. age \in Nat /\ age <= sealed[i].age + 1 /\ old \in BOOLEAN
    BY <2>1 DEF Older, Sealed
  <2>3. sealed'[i] = new
    BY DEF Tick
  <2> HIDE DEF age, old
  <2>4. /\ new \in Sealed /\ new.manifest = sealed[i].manifest /\ new.open = sealed[i].open
        /\ new.age = age /\ new.old = old
    BY <2>1, <2>2 DEF Sealed
  <2> HIDE DEF new
  <2> QED BY <2>2, <2>3, <2>4 DEF old
<1>4. /\ DOMAIN sealed' = DOMAIN sealed /\ Len(sealed') = Len(sealed) /\ Len(sealed) \in Nat
      /\ sealed' \in Seq(Sealed)
  <2>1. DOMAIN sealed' = DOMAIN sealed
    BY DEF Tick
  <2>2. DOMAIN sealed = 1 .. Len(sealed) /\ Len(sealed) \in Nat
    BY DEF ContractsOK
  <2>3. sealed' = [i \in 1 .. Len(sealed) |-> sealed'[i]]
    BY <2>2 DEF Tick
  <2>4. sealed' \in Seq(Sealed)
    BY <1>3, <2>2, <2>3
  <2>5. Len(sealed') = Len(sealed)
    BY <2>1, <2>2, <2>4
  <2> QED BY <2>1, <2>2, <2>4, <2>5
<1>5. Aging(1)
  BY <1>3, <1>4 DEF Aging
<1> QED BY <1>1, <1>3, <1>4, <1>5 DEF ContractsOK, Later

\* A value that was so a while ago was so a while and the time of the step ago.
LEMMA WasLater ==
    ASSUME ContractsOK, ContractsOK', Later, NEW time \in Nat, Aging(time),
           NEW k, NEW value, NEW age \in Nat, age < Grace, Was(k, value, age, log, sealed)
    PROVE  Was(k, value, age + time, log', sealed')
<1>1. k \in Keys
  BY DEF Was
<1>2. CASE k.get = "anchorAt"
  BY <1>1, <1>2 DEF Was, Later, Keys
<1>3. /\ \A i \in DOMAIN sealed : sealed[i].age \in Nat
      /\ \A i \in DOMAIN sealed' : sealed'[i].age \in Nat
  <2>1. /\ \A i \in DOMAIN sealed : sealed[i] \in Sealed
        /\ \A i \in DOMAIN sealed' : sealed'[i] \in Sealed
    BY DEF ContractsOK
  <2> QED BY <2>1 DEF Sealed
<1>4. CASE k.get = "corpusCount"
  <2>1. /\ value \in Nat
        /\ \A i \in DOMAIN sealed : i > value => ~sealed[i].old /\ sealed[i].age <= age
    BY <1>4 DEF Was
  <2>2. ASSUME NEW i \in DOMAIN sealed', i > value
        PROVE  ~sealed'[i].old /\ sealed'[i].age <= age + time
    <3>1. CASE sealed'[i].age = 0 /\ (sealed'[i].old => i \in DOMAIN sealed /\ sealed[i].old)
      BY <2>1, <2>2, <3>1
    <3>2. CASE /\ i \in DOMAIN sealed /\ sealed'[i].age <= sealed[i].age + time
               /\ sealed'[i].old => sealed[i].old \/ sealed[i].age >= Grace
      <4>1. ~sealed[i].old /\ sealed[i].age <= age
        BY <2>1, <2>2, <3>2
      <4>2. sealed[i].age \in Nat /\ sealed'[i].age \in Nat
        BY <1>3, <3>2
      <4> QED BY <3>2, <4>1, <4>2, OrderIs
    <3> QED BY <3>1, <3>2 DEF Aging
  <2> QED BY <1>1, <1>4, <2>1, <2>2 DEF Was
<1>5. CASE k.get = "corpusAt"
  <2>1. /\ value \in Shown /\ k.at \in DOMAIN sealed
        /\ value.manifest = sealed[k.at].manifest
        /\ value.open = sealed[k.at].open \/ sealed[k.at].age <= age
    BY <1>5 DEF Was
  <2>2. k.at \in DOMAIN sealed' /\ sealed'[k.at].manifest = sealed[k.at].manifest
    BY <2>1 DEF Later
  <2>3. sealed[k.at].age \in Nat /\ sealed'[k.at].age \in Nat
    BY <1>3, <2>1, <2>2
  <2>4. \/ sealed'[k.at].age = 0
        \/ sealed'[k.at].open = sealed[k.at].open /\ sealed'[k.at].age <= sealed[k.at].age + time
    BY <2>2 DEF Aging
  <2>5. value.open = sealed'[k.at].open \/ sealed'[k.at].age <= age + time
    BY <2>1, <2>3, <2>4
  <2> QED BY <1>1, <1>5, <2>1, <2>2, <2>5 DEF Was
<1> QED BY <1>1, <1>2, <1>4, <1>5 DEF Keys

\* A corpus that was sealed long ago stays where it is.
LEMMA DueLater ==
    ASSUME ContractsOK, ContractsOK', Later, NEW m, NEW from \in Nat, NEW to \in Nat,
           NEW upto \in Nat, to <= upto, IsDue(m, from, to, sealed)
    PROVE  IsDue(m, from, upto, sealed')
<1>1. PICK i \in DOMAIN sealed : sealed[i].manifest = m /\ sealed[i].old /\ from <= i /\ i <= to
  BY DEF IsDue
<1>2. i \in DOMAIN sealed' /\ sealed'[i].manifest = m /\ sealed'[i].old
  BY <1>1 DEF Later
<1>3. i \in Nat
  BY DEF ContractsOK
<1> QED BY <1>1, <1>2, <1>3 DEF IsDue

\* What was confirmed or refused stays so: chains only append.
LEMMA JudgedLater ==
    ASSUME Later, NEW known, Judged(known, log)
    PROVE  Judged(known, log')
<1>1. known \in OfAnchor
  BY DEF Judged
<1>2. known.confirmed \subseteq Rows /\ known.refused \subseteq Rows
  BY <1>1 DEF OfAnchor
<1>3. \A r \in Rows : r.chain \in Chain
  BY DEF Rows
<1> QED BY <1>1, <1>2, <1>3 DEF Judged, Later

\* A request that does not move stands.
LEMMA StandsLater ==
    ASSUME ContractsOK, ContractsOK', Later, NEW stage, NEW key, NEW known,
           At(stage, key, known, log, sealed)
    PROVE  At(stage, key, known, log', sealed')
<1>1. CASE stage = "count"
  <2>1. key = CorpusCount /\ known \in OfCorpus
    BY <1>1 DEF At
  <2>2. known.due => IsDue(known.m, 1, Len(sealed), sealed)
    BY <1>1 DEF At
  <2>3. Len(sealed) \in Nat /\ Len(sealed') \in Nat /\ Len(sealed) <= Len(sealed')
    BY DEF ContractsOK, Later
  <2>4. known.due => IsDue(known.m, 1, Len(sealed'), sealed')
    BY <2>2, <2>3, DueLater
  <2> QED BY <1>1, <2>1, <2>4 DEF At
<1>2. CASE stage = "scan"
  <2>1. known \in OfCorpus
    BY <1>2 DEF At
  <2>2. PICK at \in 1 .. known.count :
            /\ key = CorpusRead(at)
            /\ known.due /\ ~known.unread => IsDue(known.m, at, known.count, sealed)
    BY <1>2 DEF At
  <2>3. known.count \in Nat /\ at \in Nat
    BY <2>1 DEF OfCorpus
  <2>4. known.due /\ ~known.unread => IsDue(known.m, at, known.count, sealed')
    BY <2>2, <2>3, DueLater
  <2> QED BY <1>2, <2>1, <2>2, <2>4 DEF At
<1>3. CASE stage = "sealed"
  BY <1>3 DEF At, Later
<1>4. CASE stage \in {"prevRoot", "row", "anchor"}
  <2>1. Judged(known, log')
    BY <1>4, JudgedLater DEF At
  <2> QED BY <1>4, <2>1 DEF At
<1>5. CASE stage \notin {"count", "scan", "sealed", "prevRoot", "row", "anchor"}
  BY <1>5 DEF At
<1> QED BY <1>1, <1>2, <1>3, <1>4, <1>5

-----------------------------------------------------------------------------
(* What a route makes of an answer *)

\* A request goes on: nothing was told to it yet.
Moves(p) ==
    /\ call' = [q \in Client |-> call'[q]]
    /\ \A q \in Client : q # p => call'[q] = call[q]
    /\ call'[p].told = Nothing /\ Stands(call'[p], log, sealed)

\* What a page is shown of a corpus is so or was changed since.
ShowsRecent(p) ==
    call'[p].stage = "sealed" =>
        \/ call'[p].known.corpus.open = sealed[call'[p].known.id].open
        \/ sealed[call'[p].known.id].age <= Grace

\* The answer of a read, or that there was none.
IsAnswer(key, r) == r = Nothing \/ Was(key, r, Grace, log, sealed)

\* A request that goes on is at its next stage, and nobody else moves.
LEMMA GoOnIs ==
    ASSUME RequestsStand, NEW p \in Client, NEW stage, NEW key, NEW known,
           GoOn(p, stage, key, known)
    PROVE  /\ call' = [q \in Client |-> call'[q]]
           /\ \A q \in Client : q # p => call'[q] = call[q]
           /\ IsRequest(call'[p]) /\ call'[p].told = Nothing
           /\ call'[p].stage = stage /\ call'[p].key = key /\ call'[p].known = known
<1>1. call = [q \in Client |-> call[q]]
  BY DEF RequestsStand
<1>2. call' = [call EXCEPT ![p] = [stage |-> stage, key |-> key, told |-> Nothing, known |-> known]]
  BY DEF GoOn
<1> QED BY <1>1, <1>2 DEF IsRequest

\* The reads of the routes are keys of the cache.
LEMMA KeyTypes ==
    /\ CorpusCount \in Keys
    /\ \A i \in Nat : CorpusRead(i) \in Keys
    /\ \A c \in Chain, i \in Nat : AnchorRead(c, i) \in Keys
BY OrderIs DEF CorpusCount, CorpusRead, AnchorRead, Keys

\* A request that goes on to a stage at which what should be so is.
LEMMA Went ==
    ASSUME RequestsStand, NEW p \in Client, NEW stage, NEW key, NEW known,
           GoOn(p, stage, key, known), At(stage, key, known, log, sealed)
    PROVE  Moves(p) /\ call'[p].stage = stage /\ call'[p].known = known
BY GoOnIs DEF Moves, Stands

\* After corpusCount: an old corpus is within the count that was read.
LEMMA CountGoesOn ==
    ASSUME ContractsOK, RequestsStand, NEW p \in Client, NEW r, IsAnswer(call[p].key, r),
           AfterCount(p, r)
    PROVE  Moves(p) /\ call'[p].stage # "sealed"
<1>1. /\ call[p].stage = "count" /\ call[p].key = CorpusCount /\ call[p].known \in OfCorpus
      /\ call[p].known.due => IsDue(call[p].known.m, 1, Len(sealed), sealed)
  BY DEF AfterCount, RequestsStand, Stands, At
<1>2. PICK known : known = call[p].known
  OBVIOUS
<1>3. CASE r = Nothing
  <2>1. GoOn(p, "unreachable", Nothing, Nothing)
    BY <1>3 DEF AfterCount, Reply
  <2>2. At("unreachable", Nothing, Nothing, log, sealed)
    BY DEF At
  <2>3. Moves(p) /\ call'[p].stage = "unreachable"
    BY <2>1, <2>2, Went
  <2> QED BY <2>3
<1>4. CASE r # Nothing
  <2>1. /\ r \in Nat
        /\ \A i \in DOMAIN sealed : i > r => ~sealed[i].old
    BY <1>1, <1>4 DEF IsAnswer, Was, CorpusCount
  <2>2. known.due => IsDue(known.m, 1, r, sealed)
    <3> SUFFICES ASSUME known.due PROVE IsDue(known.m, 1, r, sealed)
      OBVIOUS
    <3>1. PICK i \in DOMAIN sealed : sealed[i].manifest = known.m /\ sealed[i].old /\ 1 <= i
      BY <1>1, <1>2 DEF IsDue
    <3>2. i \in Nat /\ ~(i > r)
      BY <2>1, <3>1 DEF ContractsOK
    <3> QED BY <2>1, <3>1, <3>2 DEF IsDue
  <2>3. CASE r = 0
    <3> DEFINE new == [known EXCEPT !.count = 0]
    <3>1. GoOn(p, "notSealed", Nothing, new)
      BY <1>2, <1>4, <2>3 DEF AfterCount, NotSealed, Reply
    <3>2. ~known.due
      <4> SUFFICES ASSUME known.due PROVE FALSE
        OBVIOUS
      <4>1. PICK i \in DOMAIN sealed : 1 <= i /\ i <= r
        BY <2>2 DEF IsDue
      <4>2. i \in Nat
        BY DEF ContractsOK
      <4> QED BY <2>3, <4>1, <4>2
    <3>3. ~new.due
      BY <1>1, <1>2, <3>2 DEF OfCorpus
    <3> HIDE DEF new
    <3>4. At("notSealed", Nothing, new, log, sealed)
      BY <3>3 DEF At
    <3>5. Moves(p) /\ call'[p].stage = "notSealed"
      BY <3>1, <3>4, Went
    <3> QED BY <3>5
  <2>4. CASE r # 0
    <3> DEFINE new == [known EXCEPT !.count = r]
    <3>1. GoOn(p, "scan", CorpusRead(1), new)
      BY <1>2, <1>4, <2>4 DEF AfterCount
    <3>2. new \in OfCorpus /\ new.count = r /\ new.due = known.due /\ new.m = known.m
      BY <1>1, <1>2, <2>1 DEF OfCorpus
    <3>3. 1 \in 1 .. r
      BY <2>1, <2>4
    <3> HIDE DEF new
    <3>4. At("scan", CorpusRead(1), new, log, sealed)
      BY <2>2, <3>2, <3>3, KeyTypes DEF At
    <3>5. Moves(p) /\ call'[p].stage = "scan"
      BY <3>1, <3>4, Went
    <3> QED BY <3>5
  <2> QED BY <2>3, <2>4
<1> QED BY <1>3, <1>4

\* After corpusAt: an old corpus that did not match is further on.
LEMMA ScanGoesOn ==
    ASSUME ContractsOK, RequestsStand, NEW p \in Client, NEW r, IsAnswer(call[p].key, r),
           AfterCorpus(p, r)
    PROVE  Moves(p) /\ ShowsRecent(p)
<1>1. call[p].stage = "scan" /\ call[p].known \in OfCorpus
  BY DEF AfterCorpus, RequestsStand, Stands, At
<1>2. PICK at \in 1 .. call[p].known.count :
          /\ call[p].key = CorpusRead(at)
          /\ call[p].known.due /\ ~call[p].known.unread
                => IsDue(call[p].known.m, at, call[p].known.count, sealed)
  BY <1>1 DEF RequestsStand, Stands, At
<1>3. call[p].key.at = at /\ call[p].key.get = "corpusAt"
  BY <1>2 DEF CorpusRead
<1>4. PICK known : known = [call[p].known EXCEPT !.unread = @ \/ r = Nothing]
  OBVIOUS
<1>5. /\ known \in OfCorpus /\ known.count \in Nat
      /\ known.m = call[p].known.m /\ known.count = call[p].known.count
      /\ known.due = call[p].known.due
      /\ known.unread <=> (call[p].known.unread \/ r = Nothing)
  BY <1>1, <1>4 DEF OfCorpus
<1>6. r # Nothing =>
          /\ at \in DOMAIN sealed /\ r.manifest = sealed[at].manifest
          /\ r.open = sealed[at].open \/ sealed[at].age <= Grace
  BY <1>3 DEF IsAnswer, Was
<1>7. CASE r # Nothing /\ r.manifest = known.m
  <2> DEFINE new == [m |-> known.m, id |-> at, corpus |-> r]
  <2>1. GoOn(p, "sealed", Nothing, new)
    BY <1>3, <1>4, <1>7 DEF AfterCorpus, Reply
  <2>2. new.m = known.m /\ new.id = at /\ new.corpus = r
    OBVIOUS
  <2> HIDE DEF new
  <2>3. At("sealed", Nothing, new, log, sealed)
    BY <1>6, <1>7, <2>2 DEF At
  <2>4. Moves(p) /\ call'[p].known = new
    BY <2>1, <2>3, Went
  <2> QED BY <1>6, <1>7, <2>2, <2>4 DEF ShowsRecent
<1>8. CASE ~(r # Nothing /\ r.manifest = known.m)
  <2>1. ASSUME known.due, ~known.unread
        PROVE  at < known.count /\ IsDue(known.m, at + 1, known.count, sealed)
    <3>1. IsDue(known.m, at, known.count, sealed)
      BY <1>2, <1>5, <2>1
    <3>2. PICK i \in DOMAIN sealed : /\ sealed[i].manifest = known.m /\ sealed[i].old
                                     /\ at <= i /\ i <= known.count
      BY <3>1 DEF IsDue
    <3>3. i # at
      BY <1>5, <1>6, <1>8, <2>1, <3>2
    <3>4. i \in Nat /\ at \in Nat
      BY DEF ContractsOK
    <3>5. at + 1 <= i
      BY <3>2, <3>3, <3>4
    <3> QED BY <1>5, <3>2, <3>4, <3>5 DEF IsDue
  <2>2. CASE at = known.count
    <3> DEFINE new == [known EXCEPT !.count = 0]
    <3>1. GoOn(p, "notSealed", Nothing, new)
      BY <1>3, <1>4, <1>8, <2>2 DEF AfterCorpus, NotSealed, Reply
    <3>2. ~known.due \/ known.unread
      BY <1>5, <2>1, <2>2
    <3>3. ~new.due \/ new.unread
      BY <1>5, <3>2 DEF OfCorpus
    <3> HIDE DEF new
    <3>4. At("notSealed", Nothing, new, log, sealed)
      BY <3>3 DEF At
    <3>5. Moves(p) /\ call'[p].stage = "notSealed"
      BY <3>1, <3>4, Went
    <3> QED BY <3>5 DEF ShowsRecent
  <2>3. CASE at # known.count
    <3>1. GoOn(p, "scan", CorpusRead(at + 1), known)
      BY <1>3, <1>4, <1>8, <2>3 DEF AfterCorpus
    <3>2. at + 1 \in 1 .. known.count
      BY <1>2, <1>5, <2>3
    <3>4. At("scan", CorpusRead(at + 1), known, log, sealed)
      BY <1>5, <2>1, <3>2, KeyTypes DEF At
    <3>5. Moves(p) /\ call'[p].stage = "scan"
      BY <3>1, <3>4, Went
    <3> QED BY <3>5 DEF ShowsRecent
  <2> QED BY <2>2, <2>3
<1> QED BY <1>7, <1>8

\* The least of some numbers.
LEMMA LeastNumber ==
    ASSUME NEW S, S \subseteq Nat, S # {}
    PROVE  \E n \in S : \A m \in S : n <= m
<1>1. PICK n \in S : \A y \in Nat : <<y, n>> \in OpToRel(<, Nat) => y \notin S
  BY NatLessThanWellFounded, WFMin
<1>2. \A y \in S : ~(y < n)
  BY <1>1 DEF OpToRel
<1> QED BY <1>2

\* The row that is read next is one of those that are left.
LEMMA NextRowIs ==
    ASSUME RequestsStand, NEW p \in Client, NEW known, Judged(known, log), NextRow(p, known)
    PROVE  Moves(p) /\ call'[p].stage # "sealed"
<1>1. CASE known.todo = {}
  <2>1. GoOn(p, "anchor", Nothing, known)
    BY <1>1 DEF NextRow, Reply
  <2>2. At("anchor", Nothing, known, log, sealed)
    BY DEF At
  <2>3. Moves(p) /\ call'[p].stage = "anchor"
    BY <2>1, <2>2, Went
  <2> QED BY <2>3
<1>2. CASE known.todo # {}
  <2>1. known.todo \subseteq Rows
    BY DEF Judged, OfAnchor
  <2>2. \A x \in known.todo : Place(x.chain) \in Nat
    BY <2>1, OrderIs DEF Rows
  <2>3. PICK n \in {Place(x.chain) : x \in known.todo} :
            \A m \in {Place(x.chain) : x \in known.todo} : n <= m
    BY <1>2, <2>2, LeastNumber
  <2>4. \E x \in known.todo : \A y \in known.todo : Place(x.chain) <= Place(y.chain)
    BY <2>3
  <2>5. PICK row : row = CHOOSE x \in known.todo : \A y \in known.todo : Place(x.chain) <= Place(y.chain)
    OBVIOUS
  <2>6. row \in known.todo
    BY <2>4, <2>5
  <2>7. GoOn(p, "row", AnchorRead(row.chain, row.index), known)
    BY <1>2, <2>5 DEF NextRow
  <2>8. At("row", AnchorRead(row.chain, row.index), known, log, sealed)
    <3>1. row.chain \in Chain /\ row.index \in Nat
      BY <2>1, <2>6 DEF Rows
    <3>2. AnchorRead(row.chain, row.index) \in Keys
      BY <3>1, KeyTypes
    <3> QED BY <2>6, <3>2 DEF At
  <2>9. Moves(p) /\ call'[p].stage = "row"
    BY <2>7, <2>8, Went
  <2> QED BY <2>9
<1> QED BY <1>1, <1>2

\* After the read of prev_root, whichever chain answered it.
LEMMA PrevRootGoesOn ==
    ASSUME ContractsOK, RequestsStand, NEW p \in Client, NEW r, AfterPrevRoot(p, r)
    PROVE  Moves(p) /\ call'[p].stage # "sealed"
<1>1. call[p].stage = "prevRoot" /\ Judged(call[p].known, log)
  BY DEF AfterPrevRoot, RequestsStand, Stands, At
<1>2. PICK chain \in Chain, at \in Nat : call[p].key = AnchorRead(chain, at)
  BY <1>1 DEF RequestsStand, Stands, At
<1>3. call[p].key.chain = chain /\ call[p].key.at = at
  BY <1>2 DEF AnchorRead
<1>4. PICK known : known = call[p].known
  OBVIOUS
<1>5. CASE r = Nothing /\ chain # Last(GraspOrder)
  <2>1. Place(chain) + 1 \in DOMAIN GraspOrder
    <3>1. Place(chain) \in 1 .. Len(GraspOrder) /\ GraspOrder[Place(chain)] = chain
      BY OrderIs
    <3>2. Place(chain) # Len(GraspOrder)
      BY <1>5, <3>1 DEF Last
    <3> QED BY <3>1, <3>2, OrderIs
  <2>2. PICK next \in Chain : next = GraspOrder[Place(chain) + 1]
    BY <2>1, OrderIs
  <2>3. GoOn(p, "prevRoot", AnchorRead(next, at), known)
    BY <1>3, <1>4, <1>5, <2>2 DEF AfterPrevRoot
  <2>4. At("prevRoot", AnchorRead(next, at), known, log, sealed)
    BY <1>1, <1>4, KeyTypes DEF At
  <2>5. Moves(p) /\ call'[p].stage = "prevRoot"
    BY <2>3, <2>4, Went
  <2> QED BY <2>5
<1>6. CASE ~(r = Nothing /\ chain # Last(GraspOrder))
  <2> DEFINE new == [known EXCEPT !.todo = {x \in rows : x.head = known.head}]
  <2>1. NextRow(p, new)
    BY <1>3, <1>4, <1>6 DEF AfterPrevRoot
  <2>2. known \in OfAnchor
    BY <1>1, <1>4 DEF Judged
  <2>3. /\ new \in OfAnchor /\ new.head = known.head
        /\ new.confirmed = known.confirmed /\ new.refused = known.refused
    BY <2>2 DEF OfAnchor, ContractsOK
  <2> HIDE DEF new
  <2>4. Judged(new, log)
    BY <1>1, <1>4, <2>3 DEF Judged
  <2> QED BY <2>1, <2>4, NextRowIs
<1> QED BY <1>5, <1>6

\* After anchorAtOnChain: the row is judged by its own chain's head.
LEMMA RowGoesOn ==
    ASSUME ContractsOK, RequestsStand, NEW p \in Client, NEW r, IsAnswer(call[p].key, r),
           AfterRow(p, r)
    PROVE  Moves(p) /\ call'[p].stage # "sealed"
<1>1. call[p].stage = "row" /\ Judged(call[p].known, log)
  BY DEF AfterRow, RequestsStand, Stands, At
<1>2. PICK known : known = call[p].known
  OBVIOUS
<1>3. PICK key : key = call[p].key
  OBVIOUS
<1>4. PICK asked \in known.todo : key = AnchorRead(asked.chain, asked.index)
  BY <1>1, <1>2, <1>3 DEF RequestsStand, Stands, At
<1>5. key.chain = asked.chain /\ key.at = asked.index /\ key.get = "anchorAt"
  BY <1>4 DEF AnchorRead
<1>6. PICK row : row = CHOOSE x \in known.todo : x.chain = key.chain /\ x.index = key.at
  OBVIOUS
<1>7. row \in known.todo /\ row.chain = key.chain /\ row.index = key.at
  BY <1>4, <1>5, <1>6
<1>8. known \in OfAnchor
  BY <1>1, <1>2 DEF Judged
<1>9. row \in Rows
  BY <1>7, <1>8 DEF OfAnchor
<1>10. PICK left : left = [known EXCEPT !.todo = @ \ {row}]
  OBVIOUS
<1>11. /\ left \in OfAnchor /\ left.head = known.head
       /\ left.confirmed = known.confirmed /\ left.refused = known.refused
  BY <1>8, <1>10 DEF OfAnchor
<1>12. r # Nothing => row.index \in DOMAIN log[row.chain] /\ log[row.chain][row.index] = r
  BY <1>3, <1>5, <1>7 DEF IsAnswer, Was
<1>13. PICK new :
           /\ NextRow(p, new)
           /\ new = IF r = Nothing THEN left
                    ELSE IF r = known.head THEN [left EXCEPT !.confirmed = @ \cup {row}]
                    ELSE [left EXCEPT !.refused = @ \cup {row}]
  BY <1>2, <1>3, <1>6, <1>10 DEF AfterRow
<1>14. Judged(left, log)
  BY <1>1, <1>2, <1>11 DEF Judged
<1>15. Judged(new, log)
  <2>1. CASE r = Nothing
    BY <1>13, <1>14, <2>1
  <2>2. CASE r # Nothing /\ r = known.head
    <3>1. new = [left EXCEPT !.confirmed = @ \cup {row}]
      BY <1>13, <2>2
    <3>2. /\ new \in OfAnchor /\ new.head = known.head
          /\ new.confirmed = left.confirmed \cup {row} /\ new.refused = left.refused
      BY <1>9, <1>11, <3>1 DEF OfAnchor
    <3> QED BY <1>11, <1>12, <1>14, <2>2, <3>2 DEF Judged
  <2>3. CASE r # Nothing /\ r # known.head
    <3>1. new = [left EXCEPT !.refused = @ \cup {row}]
      BY <1>13, <2>3
    <3>2. /\ new \in OfAnchor /\ new.head = known.head
          /\ new.refused = left.refused \cup {row} /\ new.confirmed = left.confirmed
      BY <1>9, <1>11, <3>1 DEF OfAnchor
    <3> QED BY <1>11, <1>12, <1>14, <2>3, <3>2 DEF Judged
  <2> QED BY <2>1, <2>2, <2>3
<1> QED BY <1>13, <1>15, NextRowIs

\* Whatever a route makes of an answer stands, and what it shows of a corpus
\* is recent.
LEMMA ContinueGoesOn ==
    ASSUME ContractsOK, RequestsStand, NEW p \in Client, NEW r, IsAnswer(call[p].key, r),
           Continue(p, r)
    PROVE  Moves(p) /\ ShowsRecent(p)
BY CountGoesOn, ScanGoesOn, PrevRootGoesOn, RowGoesOn DEF Continue, ShowsRecent

-----------------------------------------------------------------------------
(* Every step keeps the invariant *)

\* What a node says of a key is so.
LEMMA TruthWas ==
    ASSUME ContractsOK, NEW k \in Keys, Truth(k) # Nothing
    PROVE  Was(k, Truth(k), 0, log, sealed)
<1>1. CASE k.get = "anchorAt"
  BY <1>1 DEF Truth, Was
<1>2. CASE k.get = "corpusCount"
  <2>1. Truth(k) = Len(sealed)
    BY <1>2 DEF Truth
  <2>2. Len(sealed) \in Nat /\ DOMAIN sealed = 1 .. Len(sealed)
    BY DEF ContractsOK
  <2>3. \A i \in DOMAIN sealed : ~(i > Len(sealed))
    BY <2>2
  <2> QED BY <1>2, <2>1, <2>2, <2>3 DEF Was
<1>3. CASE k.get = "corpusAt"
  <2>1. /\ k.at \in DOMAIN sealed
        /\ Truth(k) = [manifest |-> sealed[k.at].manifest, open |-> sealed[k.at].open]
    BY <1>3 DEF Truth
  <2>2. sealed[k.at] \in Sealed
    BY <2>1 DEF ContractsOK
  <2>3. Truth(k) \in Shown
    BY <2>1, <2>2 DEF Sealed, Shown
  <2> QED BY <1>3, <2>1, <2>3 DEF Was
<1> QED BY <1>1, <1>2, <1>3 DEF Keys

\* A value of a shorter while ago.
LEMMA WasWithin ==
    ASSUME ContractsOK, NEW k, NEW value, NEW age \in Nat, NEW more \in Nat, age <= more,
           Was(k, value, age, log, sealed)
    PROVE  Was(k, value, more, log, sealed)
<1>1. \A i \in DOMAIN sealed : sealed[i] \in Sealed
  BY DEF ContractsOK
<1>2. \A i \in DOMAIN sealed : sealed[i].age \in Nat
  BY <1>1 DEF Sealed
<1>3. \A i \in DOMAIN sealed : sealed[i].age <= age => sealed[i].age <= more
  BY <1>2
<1> QED BY <1>3 DEF Was

\* A request that asks.
LEMMA AskMoves ==
    ASSUME ContractsOK, RequestsStand, NEW p \in Client, AskApi(p)
    PROVE  Moves(p) /\ ShowsRecent(p)
<1>1. ASSUME NEW m \in SoldManifest, AskOnchain(p, m)
      PROVE  Moves(p) /\ call'[p].stage = "count"
  <2> DEFINE due == \E i \in DOMAIN sealed : sealed[i].manifest = m /\ sealed[i].old
             known == [m |-> m, count |-> 0, unread |-> FALSE, due |-> due]
  <2>1. GoOn(p, "count", CorpusCount, known)
    BY <1>1 DEF AskOnchain
  <2>2. known \in OfCorpus /\ known.m = m /\ known.due = due
    BY DEF OfCorpus
  <2>3. due => IsDue(m, 1, Len(sealed), sealed)
    <3>1. \A i \in DOMAIN sealed : 1 <= i /\ i <= Len(sealed)
      BY DEF ContractsOK
    <3> QED BY <3>1 DEF IsDue
  <2> HIDE DEF due, known
  <2>4. At("count", CorpusCount, known, log, sealed)
    BY <2>2, <2>3, KeyTypes DEF At
  <2> QED BY <2>1, <2>4, Went
<1>2. ASSUME NEW j \in DOMAIN anchorTable, AskAnchor(p, j)
      PROVE  Moves(p) /\ call'[p].stage = "prevRoot"
  <2> DEFINE known == [head |-> anchorTable[j], todo |-> {}, confirmed |-> {}, refused |-> {}]
  <2>1. GoOn(p, "prevRoot", AnchorRead(Primary, j), known)
    BY <1>2 DEF AskAnchor
  <2>2. anchorTable[j] \in Nat /\ j \in Nat
    BY DEF ContractsOK
  <2>3. known \in OfAnchor /\ known.confirmed = {} /\ known.refused = {}
    BY <2>2 DEF OfAnchor
  <2> HIDE DEF known
  <2>4. Judged(known, log)
    BY <2>3 DEF Judged
  <2>5. At("prevRoot", AnchorRead(Primary, j), known, log, sealed)
    BY <2>2, <2>4, OrderIs, KeyTypes DEF At
  <2> QED BY <2>1, <2>5, Went
<1> QED BY <1>1, <1>2 DEF AskApi, ShowsRecent

\* A page that reads the chain itself, licenses or goes away.
LEMMA PageMoves ==
    ASSUME ContractsOK, RequestsStand, NEW p \in Client,
           LicenseWithWallet(p) \/ Leave(p) \/ \E i \in DOMAIN sealed : LoadFromChain(p, i)
    PROVE  Moves(p) /\ ShowsRecent(p)
<1>1. ASSUME NEW i \in DOMAIN sealed, LoadFromChain(p, i)
      PROVE  Moves(p) /\ ShowsRecent(p)
  <2> DEFINE known == [m |-> sealed[i].manifest, id |-> i, corpus |-> Truth(CorpusRead(i))]
  <2>1. GoOn(p, "sealed", Nothing, known)
    BY <1>1 DEF LoadFromChain, Reply
  <2>2. Truth(CorpusRead(i)) = [manifest |-> sealed[i].manifest, open |-> sealed[i].open]
    <3>1. CorpusRead(i).get = "corpusAt" /\ CorpusRead(i).at = i
      BY DEF CorpusRead
    <3> QED BY <3>1 DEF Truth
  <2>3. known.m = sealed[i].manifest /\ known.id = i /\ known.corpus.open = sealed[i].open
    BY <2>2
  <2> HIDE DEF known
  <2>4. At("sealed", Nothing, known, log, sealed)
    BY <2>3 DEF At
  <2>5. Moves(p) /\ call'[p].known = known
    BY <2>1, <2>4, Went
  <2> QED BY <2>3, <2>5 DEF ShowsRecent
<1>2. CASE LicenseWithWallet(p)
  <2> DEFINE known == [m |-> call[p].known.m, got |-> sealed[call[p].known.id].manifest]
  <2>1. GoOn(p, "licensed", Nothing, known) /\ call[p].stage = "sealed"
    BY <1>2 DEF LicenseWithWallet, Reply
  <2>2. sealed[call[p].known.id].manifest = call[p].known.m
    BY <2>1 DEF RequestsStand, Stands, At
  <2>3. known.got = known.m
    BY <2>2
  <2> HIDE DEF known
  <2>4. At("licensed", Nothing, known, log, sealed)
    BY <2>3 DEF At
  <2>5. Moves(p) /\ call'[p].stage = "licensed"
    BY <2>1, <2>4, Went
  <2> QED BY <2>5 DEF ShowsRecent
<1>3. CASE Leave(p)
  <2>1. GoOn(p, "idle", Nothing, Nothing)
    BY <1>3 DEF Leave, GoOn, Idle
  <2>2. At("idle", Nothing, Nothing, log, sealed)
    BY DEF At
  <2>3. Moves(p) /\ call'[p].stage = "idle"
    BY <2>1, <2>2, Went
  <2> QED BY <2>3 DEF ShowsRecent
<1> QED BY <1>1, <1>2, <1>3

\* A read that is answered from the cache, by a node or not at all.
LEMMA ReadMoves ==
    ASSUME ContractsOK, CacheIsRecent, RequestsStand, NEW p \in Client,
           Hit(p) \/ AnswerArrives(p) \/ ReadFails(p)
    PROVE  Moves(p) /\ ShowsRecent(p)
<1>1. CASE Hit(p)
  <2>1. PICK k : k = call[p].key
    OBVIOUS
  <2>2. k \in DOMAIN cache /\ Continue(p, cache[k].value)
    BY <1>1, <2>1 DEF Hit, Cached, CacheKey
  <2>3. /\ cache[k].age \in Nat /\ cache[k].age < Ttl
        /\ Was(k, cache[k].value, cache[k].age + Delay, log, sealed)
    BY <2>2 DEF CacheIsRecent, IsAged
  <2>4. cache[k].age + Delay \in Nat /\ Grace \in Nat /\ cache[k].age + Delay <= Grace
    BY <2>3, ChainReadsAssumption DEF Grace
  <2>5. Was(k, cache[k].value, Grace, log, sealed)
    BY <2>3, <2>4, WasWithin
  <2> QED BY <2>1, <2>2, <2>5, ContinueGoesOn DEF IsAnswer
<1>2. CASE AnswerArrives(p)
  <2>1. call[p].told # Nothing /\ Continue(p, call[p].told.value)
    BY <1>2 DEF AnswerArrives
  <2>2. /\ call[p].told.age \in Nat /\ call[p].told.age <= Delay
        /\ Was(call[p].key, call[p].told.value, call[p].told.age, log, sealed)
    BY <2>1 DEF RequestsStand, Heard, IsAged
  <2>3. Was(call[p].key, call[p].told.value, Grace, log, sealed)
    <3>1. Grace \in Nat /\ call[p].told.age <= Grace
      BY <2>2, OrderIs
    <3> QED BY <2>2, <3>1, WasWithin
  <2> QED BY <2>1, <2>3, ContinueGoesOn DEF IsAnswer
<1>3. CASE ReadFails(p)
  BY <1>3, ContinueGoesOn DEF ReadFails, IsAnswer
<1> QED BY <1>1, <1>2, <1>3

\* A step of a request.
ClientStep(p) ==
    \/ AskApi(p) \/ Hit(p) \/ NodeAnswers(p) \/ AnswerArrives(p)
    \/ ReadFails(p) \/ LicenseWithWallet(p) \/ Leave(p)
    \/ \E i \in DOMAIN sealed : LoadFromChain(p, i)

\* A step of a request or a page.
LEMMA ClientKeeps ==
    ASSUME ReadsInv, NEW p \in Client, ClientStep(p)
    PROVE  ReadsInv' /\ (call[p].stage # "sealed" => ShowsRecent(p))
           /\ \A q \in Client : q # p => call'[q] = call[q]
<1>1. UNCHANGED contracts
  BY DEF ClientStep, AskApi, Hit, NodeAnswers, AnswerArrives, ReadFails, LicenseWithWallet, Leave, LoadFromChain
<1>2. UNCHANGED <<log, rows, anchorTable, sealed>>
  BY <1>1 DEF contracts
<1>3. ContractsOK /\ CacheIsRecent /\ RequestsStand /\ ContractsOK'
  BY <1>2 DEF ReadsInv, ContractsOK
<1>4. CASE NodeAnswers(p)
  <2> DEFINE said == [value |-> Truth(call[p].key), age |-> 0]
             new == [call[p] EXCEPT !.told = said]
  <2>1. call' = [call EXCEPT ![p] = new] /\ UNCHANGED cache /\ Truth(call[p].key) # Nothing
    BY <1>4 DEF NodeAnswers
  <2>2. IsRequest(call[p]) /\ At(call[p].stage, call[p].key, call[p].known, log, sealed)
    BY <1>3 DEF RequestsStand, Stands
  <2>3. IsAged(said) /\ said.age = 0 /\ said.value = Truth(call[p].key)
    BY DEF IsAged
  <2> HIDE DEF said
  <2>4. /\ IsRequest(new) /\ new.stage = call[p].stage /\ new.key = call[p].key
        /\ new.known = call[p].known /\ new.told = said
    BY <2>2 DEF IsRequest
  <2> HIDE DEF new
  <2>5. /\ call' = [q \in Client |-> call'[q]] /\ call'[p] = new
        /\ \A q \in Client : q # p => call'[q] = call[q]
    BY <1>3, <2>1 DEF RequestsStand
  <2>6. call[p].key \in Keys
    BY <1>4, <2>2 DEF NodeAnswers, Reading, At
  <2>7. Was(call[p].key, said.value, said.age, log, sealed)
    BY <1>3, <2>1, <2>3, <2>6, TruthWas
  <2>8. Stands(new, log, sealed) /\ Heard(new, log, sealed)
    BY <2>2, <2>3, <2>4, <2>7, OrderIs DEF Stands, Heard
  <2>9. RequestsStand'
    BY <1>2, <1>3, <2>5, <2>8 DEF RequestsStand
  <2>10. CacheIsRecent'
    BY <1>2, <1>3, <2>1 DEF CacheIsRecent
  <2> QED BY <1>3, <2>4, <2>5, <2>9, <2>10 DEF ReadsInv, ShowsRecent
<1>5. CASE ~NodeAnswers(p)
  <2>1. Moves(p) /\ ShowsRecent(p)
    BY <1>3, <1>5, AskMoves, PageMoves, ReadMoves DEF ClientStep
  <2>2. RequestsStand'
    BY <1>2, <1>3, <2>1 DEF Moves, RequestsStand, Heard
  <2>3. CacheIsRecent'
    <3>1. CASE UNCHANGED cache
      BY <1>2, <1>3, <3>1 DEF CacheIsRecent
    <3>2. CASE AnswerArrives(p)
      <4> DEFINE entry == [value |-> call[p].told.value, age |-> 0]
      <4>1. PICK key : key = call[p].key
        OBVIOUS
      <4>2. cache' = [k \in DOMAIN cache \cup {key} |-> IF k = key THEN entry ELSE cache[k]]
        BY <3>2, <4>1 DEF AnswerArrives, CacheKey
      <4>3. /\ call[p].told.age \in Nat /\ call[p].told.age <= Delay
            /\ Was(key, call[p].told.value, call[p].told.age, log, sealed)
        BY <1>3, <3>2, <4>1 DEF AnswerArrives, RequestsStand, Heard, IsAged
      <4>4. IsAged(entry) /\ entry.age = 0 /\ entry.value = call[p].told.value
        BY DEF IsAged
      <4> HIDE DEF entry
      <4>5. entry.age < Ttl /\ entry.age + Delay = Delay /\ Delay \in Nat
        BY <4>4, ChainReadsAssumption
      <4>6. Was(key, entry.value, entry.age + Delay, log, sealed)
        BY <1>3, <4>3, <4>4, <4>5, WasWithin
      <4> QED BY <1>2, <1>3, <4>2, <4>4, <4>5, <4>6 DEF CacheIsRecent
    <3> QED BY <1>5, <3>1, <3>2
        DEF ClientStep, AskApi, Hit, ReadFails, LicenseWithWallet, Leave, LoadFromChain
  <2> QED BY <1>3, <2>1, <2>2, <2>3 DEF ReadsInv, Moves
<1> QED BY <1>4, <1>5

\* A step of the chains or of the anchorer.
LEMMA EnvironmentKeeps ==
    ASSUME ReadsInv,
           \/ \E c \in Chain : Mine(c) \/ RecordAnchor(c)
           \/ \E m \in SoldManifest : Seal(m)
           \/ \E i \in DOMAIN sealed : SetOpen(i)
    PROVE  ReadsInv' /\ UNCHANGED call
<1>1. ContractsOK /\ CacheIsRecent /\ RequestsStand
  BY DEF ReadsInv
<1>2. ContractsOK' /\ Later /\ Aging(0)
  BY <1>1, MineLater, RecordLater, SealLater, SetOpenLater
<1>3. UNCHANGED <<cache, call>>
  BY DEF Mine, RecordAnchor, Seal, SetOpen
<1>4. ASSUME NEW k, NEW value, NEW age \in Nat, age < Grace, Was(k, value, age, log, sealed)
      PROVE  Was(k, value, age, log', sealed')
  <2>1. Was(k, value, age + 0, log', sealed')
    BY <1>1, <1>2, <1>4, WasLater
  <2> QED BY <2>1
<1>5. CacheIsRecent'
  <2> SUFFICES ASSUME NEW k \in DOMAIN cache
               PROVE  /\ IsAged(cache[k]) /\ cache[k].age < Ttl
                      /\ Was(k, cache[k].value, cache[k].age + Delay, log', sealed')
    BY <1>3 DEF CacheIsRecent
  <2>1. /\ IsAged(cache[k]) /\ cache[k].age < Ttl /\ cache[k].age \in Nat
        /\ Was(k, cache[k].value, cache[k].age + Delay, log, sealed)
    BY <1>1 DEF CacheIsRecent, IsAged
  <2>2. cache[k].age + Delay \in Nat /\ cache[k].age + Delay < Grace
    BY <2>1, ChainReadsAssumption DEF Grace
  <2> QED BY <1>4, <2>1, <2>2
<1>6. RequestsStand'
  <2> SUFFICES ASSUME NEW p \in Client
               PROVE  Stands(call[p], log', sealed') /\ Heard(call[p], log', sealed')
    BY <1>1, <1>3 DEF RequestsStand
  <2>1. Stands(call[p], log, sealed) /\ Heard(call[p], log, sealed)
    BY <1>1 DEF RequestsStand
  <2>2. Stands(call[p], log', sealed')
    BY <1>1, <1>2, <2>1, StandsLater DEF Stands
  <2>3. ASSUME call[p].told # Nothing
        PROVE  /\ IsAged(call[p].told) /\ call[p].told.age <= Delay
               /\ Was(call[p].key, call[p].told.value, call[p].told.age, log', sealed')
    <3>1. /\ IsAged(call[p].told) /\ call[p].told.age \in Nat /\ call[p].told.age <= Delay
          /\ Was(call[p].key, call[p].told.value, call[p].told.age, log, sealed)
      BY <2>1, <2>3 DEF Heard, IsAged
    <3>2. call[p].told.age < Grace
      BY <3>1, OrderIs
    <3> QED BY <1>4, <3>1, <3>2
  <2> QED BY <2>2, <2>3 DEF Heard
<1> QED BY <1>2, <1>3, <1>5, <1>6 DEF ReadsInv

\* Time passes: what was told and cached is older, and so is what changed.
LEMMA TickKeeps ==
    ASSUME ReadsInv, Tick
    PROVE  ReadsInv' /\ \A p \in Client : call'[p].stage = call[p].stage
<1>1. ContractsOK /\ CacheIsRecent /\ RequestsStand
  BY DEF ReadsInv
<1>2. ContractsOK' /\ Later /\ Aging(1)
  BY <1>1, TickLater
<1>3. ASSUME NEW k, NEW value, NEW age \in Nat, age < Grace, Was(k, value, age, log, sealed)
      PROVE  Was(k, value, age + 1, log', sealed')
  BY <1>1, <1>2, <1>3, WasLater
<1>4. CacheIsRecent'
  <2> SUFFICES ASSUME NEW k \in DOMAIN cache'
               PROVE  /\ IsAged(cache'[k]) /\ cache'[k].age < Ttl
                      /\ Was(k, cache'[k].value, cache'[k].age + Delay, log', sealed')
    BY DEF CacheIsRecent
  <2>1. /\ k \in DOMAIN cache /\ cache[k].age + 1 < Ttl
        /\ cache'[k] = [cache[k] EXCEPT !.age = @ + 1]
    BY DEF Tick
  <2>2. /\ IsAged(cache[k]) /\ cache[k].age \in Nat
        /\ Was(k, cache[k].value, cache[k].age + Delay, log, sealed)
    BY <1>1, <2>1 DEF CacheIsRecent, IsAged
  <2>3. /\ IsAged(cache'[k]) /\ cache'[k].age = cache[k].age + 1
        /\ cache'[k].value = cache[k].value
    BY <2>1, <2>2 DEF IsAged
  <2>4. cache[k].age + Delay \in Nat /\ cache[k].age + Delay < Grace
    BY <2>1, <2>2, ChainReadsAssumption DEF Grace
  <2>5. Was(k, cache[k].value, (cache[k].age + Delay) + 1, log', sealed')
    BY <1>3, <2>2, <2>4
  <2>6. (cache[k].age + Delay) + 1 = cache'[k].age + Delay
    BY <2>2, <2>3, ChainReadsAssumption
  <2> QED BY <2>1, <2>3, <2>5, <2>6
<1>5. RequestsStand' /\ \A p \in Client : call'[p].stage = call[p].stage
  <2>1. call' = [p \in Client |-> call'[p]]
    BY DEF Tick
  <2>2. ASSUME NEW p \in Client
        PROVE  /\ Stands(call'[p], log', sealed') /\ Heard(call'[p], log', sealed')
               /\ call'[p].stage = call[p].stage
    <3>1. Stands(call[p], log, sealed) /\ Heard(call[p], log, sealed)
      BY <1>1 DEF RequestsStand
    <3>2. /\ IsRequest(call[p])
          /\ At(call[p].stage, call[p].key, call[p].known, log', sealed')
      BY <1>1, <1>2, <3>1, StandsLater DEF Stands
    <3>3. CASE call[p].told = Nothing
      <4>1. call'[p] = call[p]
        BY <3>3 DEF Tick
      <4> QED BY <3>2, <3>3, <4>1 DEF Stands, Heard
    <3>4. CASE call[p].told # Nothing
      <4>1. /\ IsAged(call[p].told) /\ call[p].told.age \in Nat /\ call[p].told.age <= Delay
            /\ Was(call[p].key, call[p].told.value, call[p].told.age, log, sealed)
        BY <3>1, <3>4 DEF Heard, IsAged
      <4>2. call[p].told.age < Delay /\ call'[p] = [call[p] EXCEPT !.told.age = @ + 1]
        BY <3>4 DEF Tick
      <4>3. /\ IsRequest(call'[p]) /\ call'[p].stage = call[p].stage
            /\ call'[p].key = call[p].key /\ call'[p].known = call[p].known
            /\ IsAged(call'[p].told) /\ call'[p].told.age = call[p].told.age + 1
            /\ call'[p].told.value = call[p].told.value
        BY <3>2, <4>1, <4>2 DEF IsRequest, IsAged
      <4>4. call[p].told.age < Grace /\ call[p].told.age + 1 <= Delay
        BY <4>1, <4>2, OrderIs
      <4>5. Was(call[p].key, call[p].told.value, call[p].told.age + 1, log', sealed')
        BY <1>3, <4>1, <4>4
      <4> QED BY <3>2, <4>3, <4>4, <4>5 DEF Stands, Heard
    <3> QED BY <3>3, <3>4
  <2> QED BY <2>1, <2>2 DEF RequestsStand
<1> QED BY <1>2, <1>4, <1>5 DEF ReadsInv

\* What AnswersAreRecent says of a step.
Recent ==
    \A p \in Client :
        /\ call'[p].stage = "notSealed" => ~call'[p].known.due \/ call'[p].known.unread
        /\ (call[p].stage # "sealed" /\ call'[p].stage = "sealed") =>
              LET answer == call'[p].known
              IN  \/ answer.corpus.open = sealed[answer.id].open
                  \/ sealed[answer.id].age <= Grace

\* Every step keeps the invariant, and answers what was so recently.
LEMMA StepKeeps == ReadsInv /\ [ReadsNext]_readVars => ReadsInv' /\ Recent
<1> SUFFICES ASSUME ReadsInv, [ReadsNext]_readVars PROVE ReadsInv' /\ Recent
  OBVIOUS
<1>1. ReadsInv' /\ \A p \in Client : call[p].stage # "sealed" /\ call'[p].stage = "sealed" => ShowsRecent(p)
  <2>1. CASE UNCHANGED readVars
    BY <2>1 DEF readVars, ReadsInv, ContractsOK, CacheIsRecent, RequestsStand
  <2>2. CASE Tick
    BY <2>2, TickKeeps
  <2>3. ASSUME NEW p \in Client, ClientStep(p)
        PROVE  ReadsInv' /\ \A q \in Client : call[q].stage # "sealed" /\ call'[q].stage = "sealed" => ShowsRecent(q)
    BY <2>3, ClientKeeps
  <2> QED BY <2>1, <2>2, <2>3, EnvironmentKeeps DEF ReadsNext, ClientStep
<1>2. \A p \in Client : call'[p].stage = "notSealed" => ~call'[p].known.due \/ call'[p].known.unread
  BY <1>1 DEF ReadsInv, RequestsStand, Stands, At
<1> QED BY <1>1, <1>2 DEF Recent, ShowsRecent

\* Nothing is known at the start.
LEMMA InitReads == ReadsInit => ReadsInv
<1> SUFFICES ASSUME ReadsInit PROVE ReadsInv
  OBVIOUS
<1>1. ContractsOK
  BY DEF ReadsInit, ContractsOK
<1>2. CacheIsRecent
  BY DEF ReadsInit, CacheIsRecent
<1>3. IsRequest(Idle) /\ Idle.stage = "idle" /\ Idle.told = Nothing /\ Idle.key = Nothing
  BY DEF Idle, IsRequest
<1>4. Stands(Idle, log, sealed) /\ Heard(Idle, log, sealed)
  BY <1>3 DEF Stands, Heard, At
<1>5. RequestsStand
  BY <1>4 DEF ReadsInit, RequestsStand
<1> QED BY <1>1, <1>2, <1>5 DEF ReadsInv

\* What the chains, the cache and the requests hold in every state.
LEMMA Invariant == ReadsSpec => []ReadsInv
BY InitReads, StepKeeps, PTL DEF ReadsSpec

\* GET /anchors never says of a chain what is not so, for any chains, rows and
\* requests, whatever the cache answers (anchors.ts:34-49).
THEOREM ConfirmationsAlwaysHold == ReadsSpec => []ConfirmationsHold
<1>1. ReadsInv => ConfirmationsHold
  BY DEF ReadsInv, RequestsStand, Stands, At, Judged, ConfirmationsHold
<1> QED BY <1>1, Invariant, PTL

\* A page licenses the corpus it was opened for (corpus.js).
THEOREM BuyersAlwaysGetWhatTheyRead == ReadsSpec => []BuyersGetWhatTheyRead
<1>1. ReadsInv => BuyersGetWhatTheyRead
  BY DEF ReadsInv, RequestsStand, Stands, At, BuyersGetWhatTheyRead
<1> QED BY <1>1, Invariant, PTL

\* What GET /corpora/{id}/onchain answers was so at most CACHE_TTL_MS and an
\* RPC timeout ago, whatever these are.
THEOREM AnswersAreAlwaysRecent == ReadsSpec => AnswersAreRecent
<1>1. ReadsInv /\ [ReadsNext]_readVars => [Recent]_readVars
  BY StepKeeps
<1> QED BY <1>1, Invariant, PTL DEF ReadsSpec, AnswersAreRecent, Recent
=============================================================================
