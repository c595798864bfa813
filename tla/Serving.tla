------------------------------- MODULE Serving -------------------------------
(***************************************************************************)
(* What the API serves to who wants to check the log, and how the page     *)
(* checks it: the proofs of routes/proofs.ts, the anchor that              *)
(* routes/episodes.ts names for a leaf, the pages of routes/anchors.ts,    *)
(* and the single-leaf mode of apps/web/verify.js.                         *)
(*                                                                         *)
(* anchors is the store's table: a sequence of [idx, size, root] in the    *)
(* order of idx, with the heads that the primary chain was sent. The       *)
(* anchorer reads size and root at two moments, so the root can be that of *)
(* a larger log (anchorer.ts:120-145). The log has all of Log by now,      *)
(* whatever was anchored.                                                  *)
(***************************************************************************)
EXTENDS BuyerChecks

CONSTANTS DefaultLimit, MaxLimit  \* 50 and 500

ASSUME LimitAssumption == DefaultLimit \in 1 .. MaxLimit /\ MaxLimit \in Nat

\* A head as it was sent: a size, and the size of the log whose root went with it.
SentHead == [size : Size, of : Size]
Coherent(row) == row.root = LogRoot[row.size]

NotFound == [status |-> 404]
Invalid  == [status |-> 400]

\* leaves().indexOf: a set with the index of a leaf
IndexOf(leaf) == {l - 1 : l \in {l \in DOMAIN Log : Log[l] = leaf}}
AnchorBy(anchors, root, size) ==
    {anchors[a] : a \in {a \in DOMAIN anchors : anchors[a].root = root /\ anchors[a].size = size}}

\* GET /proofs/inclusion; a proof of the tree that had `size` leaves
ServeInclusion(anchors, leaf, root, size) ==
    LET covered == {index \in IndexOf(leaf) : index < size} IN
    IF size < 1 THEN Invalid
    ELSE IF AnchorBy(anchors, root, size) = {} \/ covered = {} THEN NotFound
    ELSE LET index == CHOOSE index \in covered : TRUE
         IN  [status |-> 200, index |-> index, size |-> size, root |-> root, proof |-> Inclusion[size][index]]

\* GET /proofs/consistency, as fetchConsistencyProof asks for it
ServeConsistency(anchors, from, to) ==
    IF from < 1 \/ to < 1 \/ from > to THEN Invalid
    ELSE IF ~({from, to} \subseteq {anchors[a].size : a \in DOMAIN anchors}) THEN NotFound
    ELSE [status |-> 200, proof |-> IF from = to THEN <<>> ELSE Consistency[to][from]]

\* GET /episodes/{leaf}: the first anchor that covers it, empty when none does
Covering(anchors, leaf) ==
    {a \in DOMAIN anchors : \E index \in IndexOf(leaf) : index < anchors[a].size}
EpisodeAnchor(anchors, leaf) ==
    {anchors[a] : a \in {a \in Covering(anchors, leaf) : \A b \in Covering(anchors, leaf) : a <= b}}

-----------------------------------------------------------------------------
(* Pages                                                                   *)

\* raw is a set with the number that was asked for, or empty; the answer is
\* empty when it is refused.
ParseLimit(raw) ==
    IF raw = {} THEN {DefaultLimit}
    ELSE {IF limit > MaxLimit THEN MaxLimit ELSE limit : limit \in {limit \in raw : limit > 0}}

\* The rows that the cursor has passed: the table is in the order of idx, so they
\* are its first.
Past(anchors, after) ==
    CHOOSE passed \in 0 .. Len(anchors) :
        \A a \in DOMAIN anchors : a > passed <=> \A idx \in after : anchors[a].idx > idx

\* GET /anchors, as the table is; the cursor is the idx of the page's last row,
\* empty before the first page and when nothing is left.
AnchorPage(anchors, after, limit) ==
    LET all   == SubSeq(anchors, Past(anchors, after) + 1, Len(anchors))
        slice == First(all, IF limit < Len(all) THEN limit ELSE Len(all)) IN
    [items |-> slice, next |-> IF Len(all) > limit THEN {slice[Len(slice)].idx} ELSE {}]

\* All the pages, one after the other; the table had `known` rows for the first
\* one and the daemon records another anchor between two of them.
AllPages(anchors, known, limit) ==
    LET rows(k) == First(anchors, IF known + k < Len(anchors) THEN known + k ELSE Len(anchors))
        read[k \in 0 .. Len(anchors)] ==
            IF k = 0 THEN AnchorPage(rows(0), {}, limit)
            ELSE IF read[k - 1].next = {} THEN read[k - 1]
            ELSE LET page == AnchorPage(rows(k), read[k - 1].next, limit)
                 IN  [items |-> read[k - 1].items \o page.items, next |-> page.next]
    IN  read[Len(anchors)]

-----------------------------------------------------------------------------
(* apps/web/verify.js, for one leaf. chain is a set with the sequence of    *)
(* the heads anchored there, empty when its RPC does not answer; the other *)
(* answers are sets with the value that was read, too.                     *)

\* indexOfRoot: the first anchor with that root
ReadIndexOfRoot(chain, root) ==
    UNION {{a - 1 : a \in {a \in DOMAIN heads : /\ heads[a].root = root
                                                 /\ \A b \in 1 .. a - 1 : heads[b].root # root}} : heads \in chain}
ReadChainHead(chain) == {heads[Len(heads)] : heads \in {heads \in chain : heads # <<>>}}

\* LeafVerifier.verifyLeaf for the index-th anchor; a call that reverts is no
\* yes either.
VerifyLeafOnChain(chain, index, leaf, at, proof) ==
    \E heads \in chain : /\ index + 1 \in DOMAIN heads
                          /\ IncludedIn(leaf, at, heads[index + 1].size, proof, heads[index + 1].root)
VerifyLeafLocal(leaf, at, proof, head) == IncludedIn(leaf, at, head.size, proof, head.root)

\* runLeafCheck of verify.html, which asks for the leaf and for the head at the
\* same time; without the head's chain it shows no verdict (empty). The contract is asked
\* about the anchor that was named, the page itself compares with the head.
RunLeafCheck(chain, answers, index, leaf, at, proof) ==
    LET to(call) == IF call \in answers THEN chain ELSE {} IN
    {[onChain |-> VerifyLeafOnChain(to("leaf"), index, leaf, at, proof),
      locally |-> \E head \in ReadChainHead({heads}) : VerifyLeafLocal(leaf, at, proof, head)] :
        heads \in to("head")}
=============================================================================
