----------------------------- MODULE MerkleTree -----------------------------
(***************************************************************************)
(* The RFC 6962 tree of packages/protocol/src/log.ts: the pure functions   *)
(* on a sequence of leaves that everything else in the log is compared to, *)
(* and the proofs of inclusion and consistency made of them (there, and by *)
(* the same recursion over cached subtrees in services/log/src/tree.ts).   *)
(*                                                                         *)
(* Hashing is symbolic: a leaf hash is an opaque value and hashNode(l, r)  *)
(* is the pair <<l, r>>, so that two trees have one hash exactly when they *)
(* are one tree (collision resistance and the 0x00/0x01 prefixes).         *)
(***************************************************************************)
EXTENDS Naturals, Sequences

EmptyRoot      == <<>>
HashNode(l, r) == <<l, r>>

\* Largest power of two strictly below n, for n > 1.
Split(n) == LET largest[k \in Nat \ {0}] == IF 2 * k < n THEN largest[2 * k] ELSE k
            IN  largest[1]

\* root(leaves.slice(start, start + len)) is RangeHash(leaves)[len][start], for
\* len > 0
RangeHash(leaves) ==
    LET hash[len \in Nat \ {0}] ==
          [start \in Nat |->
             IF len = 1 THEN leaves[start + 1]
             ELSE HashNode(hash[Split(len)][start],
                           hash[len - Split(len)][start + Split(len)])]
    IN  hash

RootOf(leaves) == IF leaves = <<>> THEN EmptyRoot ELSE RangeHash(leaves)[Len(leaves)][0]

-----------------------------------------------------------------------------
(* The proofs that the log hands out                                       *)

\* The siblings from the leaf at index up to the root of a range that holds it.
InclusionPath(leaves, index) ==
    LET hash == RangeHash(leaves)
        path[len \in Nat \ {0}] ==
          [start \in Nat |->
             LET k == Split(len) IN
             IF len = 1 THEN <<>>
             ELSE IF index - start < k
                  THEN Append(path[k][start], hash[len - k][start + k])
                  ELSE Append(path[len - k][start + k], hash[k][start])]
    IN  path

InclusionProof(leaves, index) == InclusionPath(leaves, index)[Len(leaves)][0]

\* That the first `left` leaves of a range are a prefix of it.  A prefix that is
\* a whole left subtree is not repeated: the verifier has its root already.
ConsistencyPath(leaves) ==
    LET hash == RangeHash(leaves)
        sub[len \in Nat \ {0}] ==
          [start \in Nat |-> [left \in 1 .. len |->
             LET k == Split(len) IN
             IF left = len THEN IF start = 0 THEN <<>> ELSE <<hash[len][start]>>
             ELSE IF left <= k
                  THEN Append(sub[k][start][left], hash[len - k][start + k])
                  ELSE Append(sub[len - k][start + k][left - k], hash[k][start])]]
    IN  sub

ConsistencyProof(leaves, m) == ConsistencyPath(leaves)[Len(leaves)][0][m]
=============================================================================
