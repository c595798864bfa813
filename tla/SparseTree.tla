----------------------------- MODULE SparseTree -----------------------------
(***************************************************************************)
(* The sparse tree of revocations and its proofs of membership and of      *)
(* absence (packages/protocol/src/sparse.ts).                              *)
(***************************************************************************)
EXTENDS MerkleTree, FiniteSets

CONSTANTS
    Depth,      \* levels of the sparse tree (256 in the code)
    Revocation  \* consent key -> the value written for it; a key is a path

\* The zero word: an empty subtree.  No hash of two nodes is zero.
Zero == <<"zero">>

Key == DOMAIN Revocation

\* A key without its lowest bits
Shift(key, level) ==
    LET shifted[l \in Nat] == IF l = 0 THEN key ELSE shifted[l - 1] \div 2
    IN  shifted[level]
Bit(key, level) == Shift(key, level) % 2

ASSUME SparseAssumption ==
    /\ Depth \in Nat
    /\ \A k \in Key : k \in Nat /\ Shift(k, Depth) = 0
    /\ \A k \in Key : Revocation[k] # Zero

SparseHashNode(l, r) == IF l = Zero /\ r = Zero THEN Zero ELSE HashNode(l, r)

\* layers(): the hash at a level and path of the tree of the revoked keys
SparseLayers(revoked) ==
    LET layer[level \in Nat] ==
          [path \in Nat |->
             IF level = 0 THEN IF path \in revoked THEN Revocation[path] ELSE Zero
             ELSE SparseHashNode(layer[level - 1][2 * path], layer[level - 1][2 * path + 1])]
    IN  layer

SparseRoot(revoked) == SparseLayers(revoked)[Depth][0]

\* The node beside a key's at a level
Sibling(revoked, key, level) ==
    LET path == Shift(key, level)
    IN  SparseLayers(revoked)[level][IF path % 2 = 1 THEN path - 1 ELSE path + 1]

\* proof(key): the levels with a non-zero sibling, and those siblings upwards
SparseProof(revoked, key) ==
    LET bitmap == {level \in 0 .. Depth - 1 : Sibling(revoked, key, level) # Zero}
        up[level \in 0 .. Depth] ==
          IF level = 0 THEN <<>>
          ELSE IF level - 1 \in bitmap THEN Append(up[level - 1], Sibling(revoked, key, level - 1))
               ELSE up[level - 1]
    IN  [bitmap |-> bitmap, siblings |-> up[Depth]]
=============================================================================
