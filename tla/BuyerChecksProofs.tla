------------------------- MODULE BuyerChecksProofs -------------------------
(***************************************************************************)
(* Lemmas about BuyerChecks, for any log, any sparse tree and any proof:   *)
(* each loop of the contracts' verifiers is at every turn in one node of   *)
(* the tree, its hash is right exactly when the words so far were, and the *)
(* recursive verifiers of report-verify.ts come to the same places. The    *)
(* three invariants say so of the question that is asked. Then the same of *)
(* what the API serves: its proofs are accepted for the anchors it names,  *)
(* and its pages, read one after the other, are the table; and what Badges *)
(* makes of an episode's claims follows the last word on each check. At    *)
(* last, a whole report: each step of its verifiers passes exactly when    *)
(* its part is the one the anchor calls for, the reports that are asked    *)
(* about are such reports, and so is what Assembly puts together.          *)
(***************************************************************************)
EXTENDS Assembly, Badges, TreeProofs

-----------------------------------------------------------------------------
(* Words of a proof *)

\* A verifier that has used the first words of a proof has used a path.
Uses(proof, used, path) == used = Len(path) /\ \A k \in 1 .. used : proof[k] = path[k]

\* One more word is the last word of a longer path.
LEMMA UsesMore ==
    ASSUME NEW S, NEW path \in Seq(S), NEW x \in S, NEW proof, NEW used \in Nat
    PROVE  Uses(proof, used + 1, Append(path, x)) <=> Uses(proof, used, path) /\ proof[used + 1] = x
<1>1. /\ Len(path) \in Nat
      /\ Len(Append(path, x)) = Len(path) + 1
      /\ \A k \in 1 .. Len(path) : Append(path, x)[k] = path[k]
      /\ Append(path, x)[Len(path) + 1] = x
  BY AppendProperties
<1> DEFINE longer == Append(path, x)
<1> HIDE DEF longer
<1>2. /\ Len(longer) = Len(path) + 1
      /\ \A k \in 1 .. Len(path) : longer[k] = path[k]
      /\ longer[Len(path) + 1] = x
  BY <1>1 DEF longer
<1>3. ASSUME Uses(proof, used + 1, longer)
      PROVE  Uses(proof, used, path) /\ proof[used + 1] = x
  <2>1. used = Len(path) /\ used + 1 \in 1 .. used + 1 /\ \A k \in 1 .. used : k \in 1 .. used + 1
    BY <1>1, <1>2, <1>3 DEF Uses
  <2> QED BY <1>2, <1>3, <2>1 DEF Uses
<1>4. ASSUME Uses(proof, used, path) /\ proof[used + 1] = x
      PROVE  Uses(proof, used + 1, longer)
  <2>1. used = Len(path) /\ used + 1 = Len(longer)
    BY <1>2, <1>4 DEF Uses
  <2>2. ASSUME NEW k \in 1 .. used + 1 PROVE proof[k] = longer[k]
    <3>1. k \in 1 .. used \/ k = used + 1
      OBVIOUS
    <3> QED BY <1>2, <1>4, <2>1, <3>1 DEF Uses
  <2> QED BY <2>1, <2>2 DEF Uses
<1> QED BY <1>3, <1>4 DEF longer

\* No word more is a path on which there is no word more.
LEMMA UsesAll ==
    ASSUME NEW S, NEW T, NEW proof \in Seq(S), NEW path \in Seq(T)
    PROVE  Uses(proof, Len(proof), path) <=> proof = path
<1>1. /\ proof = [k \in 1 .. Len(proof) |-> proof[k]]
      /\ path = [k \in 1 .. Len(path) |-> path[k]]
  OBVIOUS
<1>2. ASSUME Uses(proof, Len(proof), path) PROVE proof = path
  <2>1. Len(proof) = Len(path) /\ \A k \in 1 .. Len(proof) : proof[k] = path[k]
    BY <1>2 DEF Uses
  <2> QED BY <1>1, <2>1
<1> QED BY <1>2 DEF Uses

\* What arrives of a proof is made of its words.
LEMMA DeliveriesAre ==
    ASSUME NEW S, NEW path \in Seq(S), NEW proof \in Deliveries(path)
    PROVE  proof \in Seq(S)
<1>1. CASE path = <<>>
  BY <1>1 DEF Deliveries
<1>2. CASE path # <<>>
  <2>1. Len(path) \in 1 .. Len(path) /\ Len(path) - 1 \in Int
    BY <1>2, EmptySeq
  <2>2. path[Len(path)] \in S /\ \A k \in 1 .. Len(path) - 1 : path[k] \in S
    BY <2>1
  <2>3. First(path, Len(path) - 1) \in Seq(S)
    BY <2>1, <2>2, SubSeqProperties DEF First
  <2>4. Append(path, path[Len(path)]) \in Seq(S)
    BY <2>2
  <2> QED BY <1>2, <2>3, <2>4 DEF Deliveries
<1> QED BY <1>1, <1>2

-----------------------------------------------------------------------------
(* The sparse tree *)

\* What the recursion of Shift says of one level.
ShiftBy(shifted, key) ==
    shifted = [l \in Nat |-> IF l = 0 THEN key ELSE shifted[l - 1] \div 2]

\* There is a function that satisfies the recursion of Shift.
LEMMA ShiftExists ==
    ASSUME NEW key \in Nat
    PROVE  \E shifted \in [Nat -> Nat] : ShiftBy(shifted, key)
<1> DEFINE step == [l \in Nat |-> [g \in [Nat -> Nat] |-> IF l = 0 THEN key ELSE g[l - 1] \div 2]]
<1>1. step \in [Nat -> [[Nat -> Nat] -> Nat]]
  <2>1. ASSUME NEW l \in Nat, NEW g \in [Nat -> Nat]
        PROVE  (IF l = 0 THEN key ELSE g[l - 1] \div 2) \in Nat
    <3>1. CASE l = 0
      BY <3>1
    <3>2. CASE l # 0
      <4>1. g[l - 1] \in Nat
        BY <3>2
      <4> QED BY <3>2, <4>1
    <3> QED BY <3>1, <3>2
  <2> QED BY <2>1
<1>2. LooksBack(step, Nat, Nat)
  <2> SUFFICES ASSUME NEW l \in Nat, NEW g \in [Nat -> Nat], NEW h \in [Nat -> Nat],
                      \A k \in Nat : k < l => g[k] = h[k]
               PROVE  step[l][g] = step[l][h]
    BY DEF LooksBack
  <2>1. l # 0 => l - 1 \in Nat /\ l - 1 < l
    OBVIOUS
  <2> QED BY <2>1
<1>3. Nat \in SUBSET Nat /\ Nat # {}
  OBVIOUS
<1> HIDE DEF step
<1>4. PICK shifted \in [Nat -> Nat] : Solves(shifted, step, Nat)
  BY <1>1, <1>2, <1>3, Recursion
<1>5. \A l \in Nat : step[l][shifted] = IF l = 0 THEN key ELSE shifted[l - 1] \div 2
  BY <1>4 DEF step
<1> QED BY <1>4, <1>5 DEF ShiftBy, Solves

\* A key without its lowest bits is half of what it is with one of them.
LEMMA ShiftIs ==
    ASSUME NEW key \in Nat, NEW l \in Nat
    PROVE  /\ Shift(key, l) \in Nat
           /\ Shift(key, 0) = key
           /\ Shift(key, l + 1) = Shift(key, l) \div 2
<1> DEFINE shifted == CHOOSE f : ShiftBy(f, key)
<1>1. \A k : Shift(key, k) = shifted[k]
  BY DEF Shift, ShiftBy
<1>2. ShiftBy(shifted, key)
  BY ShiftExists
<1> HIDE DEF shifted
<1>3. \A k \in Nat : shifted[k] = IF k = 0 THEN key ELSE shifted[k - 1] \div 2
  BY <1>2 DEF ShiftBy
<1>4. shifted[0] = key
  BY <1>3
<1>5. shifted[l + 1] = shifted[l] \div 2
  <2>1. l + 1 \in Nat /\ l + 1 # 0 /\ (l + 1) - 1 = l
    OBVIOUS
  <2> QED BY <1>3, <2>1
<1>6. shifted[l] \in Nat
  <2> DEFINE Good == {k \in Nat : shifted[k] \in Nat}
  <2>1. ASSUME NEW k \in Nat, \A m \in Nat : m < k => m \in Good
        PROVE  k \in Good
    <3>1. CASE k = 0
      BY <1>4, <3>1
    <3>2. CASE k # 0
      <4>1. k - 1 \in Nat /\ k - 1 < k
        BY <3>2
      <4>2. shifted[k - 1] \in Nat
        BY <2>1, <4>1
      <4>3. shifted[k] = shifted[k - 1] \div 2
        BY <1>3, <3>2
      <4> QED BY <4>2, <4>3
    <3> QED BY <3>1, <3>2
  <2>2. Good \in SUBSET Nat
    OBVIOUS
  <2> HIDE DEF Good
  <2>3. l \in Good
    BY <2>1, <2>2, AllNumbers
  <2> QED BY <2>3 DEF Good
<1> QED BY <1>1, <1>4, <1>5, <1>6

\* Two words have the hash of two others only when they are those.
LEMMA SparseHashes ==
    ASSUME NEW a, NEW b, NEW c, NEW d
    PROVE  SparseHashNode(a, b) = SparseHashNode(c, d) <=> a = c /\ b = d
<1>1. \A x, y : <<x, y>> # <<"zero">>
  <2> SUFFICES ASSUME NEW x, NEW y, <<x, y>> = <<"zero">> PROVE FALSE
    OBVIOUS
  <2>1. Len(<<x, y>>) = 2 /\ Len(<<"zero">>) = 1
    OBVIOUS
  <2> QED BY <2>1
<1>2. \A x, y, z, w : <<x, y>> = <<z, w>> <=> x = z /\ y = w
  OBVIOUS
<1> QED BY <1>1, <1>2 DEF SparseHashNode, HashNode, Zero

\* What the recursion of SparseLayers says of one node.
LayerTurn(layer, revoked, level, path) ==
    IF level = 0 THEN IF path \in revoked THEN Revocation[path] ELSE Zero
    ELSE SparseHashNode(layer[level - 1][2 * path], layer[level - 1][2 * path + 1])

LayersBy(layer, revoked) ==
    layer = [level \in Nat |-> [path \in Nat |-> LayerTurn(layer, revoked, level, path)]]

\* There is a function that satisfies the recursion of SparseLayers.
LEMMA LayersExist ==
    ASSUME NEW revoked \in SUBSET Key
    PROVE  \E layer : LayersBy(layer, revoked)
<1> DEFINE B == {Zero} \cup {Revocation[k] : k \in Key}
<1>1. PICK U : B \subseteq U /\ \A l, r \in U : HashNode(l, r) \in U
  BY TreesExist
<1> DEFINE V == [Nat -> U]
           step == [level \in Nat |-> [g \in [Nat -> V] |->
                       [path \in Nat |-> LayerTurn(g, revoked, level, path)]]]
<1>2. Zero \in U /\ \A k \in Key : Revocation[k] \in U
  BY <1>1
<1>3. \A l, r \in U : SparseHashNode(l, r) \in U
  BY <1>1, <1>2 DEF SparseHashNode
<1>4. Nat \in SUBSET Nat /\ V # {}
  <2>1. [path \in Nat |-> Zero] \in V
    BY <1>2
  <2> QED BY <2>1
<1>5. ASSUME NEW level \in Nat, NEW g \in [Nat -> V], NEW path \in Nat
      PROVE  LayerTurn(g, revoked, level, path) \in U
  <2>1. CASE level = 0
    BY <1>2, <2>1 DEF LayerTurn
  <2>2. CASE level # 0
    <3>1. level - 1 \in Nat /\ 2 * path \in Nat /\ 2 * path + 1 \in Nat
      BY <2>2
    <3>2. g[level - 1][2 * path] \in U /\ g[level - 1][2 * path + 1] \in U
      BY <3>1
    <3> QED BY <1>3, <2>2, <3>2 DEF LayerTurn
  <2> QED BY <2>1, <2>2
<1>6. step \in [Nat -> [[Nat -> V] -> V]]
  BY <1>5
<1>7. LooksBack(step, Nat, V)
  <2> SUFFICES ASSUME NEW level \in Nat, NEW g \in [Nat -> V], NEW h \in [Nat -> V],
                      \A k \in Nat : k < level => g[k] = h[k]
               PROVE  step[level][g] = step[level][h]
    BY DEF LooksBack
  <2>1. level # 0 => g[level - 1] = h[level - 1]
    <3>1. level # 0 => level - 1 \in Nat /\ level - 1 < level
      OBVIOUS
    <3> QED BY <3>1
  <2>2. \A path \in Nat : LayerTurn(g, revoked, level, path) = LayerTurn(h, revoked, level, path)
    BY <2>1 DEF LayerTurn
  <2> QED BY <2>2
<1> HIDE DEF step, V
<1>8. PICK layer \in [Nat -> V] : Solves(layer, step, Nat)
  BY <1>4, <1>6, <1>7, Recursion
<1>9. \A level \in Nat : step[level][layer] = [path \in Nat |-> LayerTurn(layer, revoked, level, path)]
  BY <1>8 DEF step
<1>10. LayersBy(layer, revoked)
  BY <1>8, <1>9 DEF LayersBy, Solves
<1> QED BY <1>10

\* A node of the sparse tree is a word, or the hash of the two below it.
LEMMA LayersAre ==
    ASSUME NEW revoked \in SUBSET Key, NEW level \in Nat, NEW path \in Nat
    PROVE  SparseLayers(revoked)[level][path]
             = LayerTurn(SparseLayers(revoked), revoked, level, path)
<1>1. SparseLayers(revoked) = CHOOSE layer : LayersBy(layer, revoked)
  BY DEF SparseLayers, LayersBy, LayerTurn
<1>2. LayersBy(SparseLayers(revoked), revoked)
  BY <1>1, LayersExist
<1> DEFINE layer == SparseLayers(revoked)
<1>3. LayersBy(layer, revoked)
  BY <1>2
<1> HIDE DEF layer
<1>4. layer[level][path] = LayerTurn(layer, revoked, level, path)
  BY <1>3 DEF LayersBy
<1> QED BY <1>4 DEF layer

\* The node of a key at a level.
NodeOf(revoked, key, level) == SparseLayers(revoked)[level][Shift(key, level)]

\* It is the hash of the node below and that one's sibling, on the sides that the
\* key's bit says.
LEMMA NodeOfIs ==
    ASSUME NEW revoked \in SUBSET Key, NEW key \in Nat, NEW level \in Nat
    PROVE  NodeOf(revoked, key, level + 1)
             = IF Bit(key, level) = 1
               THEN SparseHashNode(Sibling(revoked, key, level), NodeOf(revoked, key, level))
               ELSE SparseHashNode(NodeOf(revoked, key, level), Sibling(revoked, key, level))
<1> DEFINE at    == Shift(key, level)
           layer == SparseLayers(revoked)
<1>1. at \in Nat /\ Shift(key, level + 1) = at \div 2
  BY ShiftIs
<1>2. NodeOf(revoked, key, level + 1)
        = SparseHashNode(layer[level][2 * (at \div 2)], layer[level][2 * (at \div 2) + 1])
  <2>1. level + 1 \in Nat /\ level + 1 # 0 /\ (level + 1) - 1 = level /\ at \div 2 \in Nat
    BY <1>1
  <2>2. layer[level + 1][at \div 2] = LayerTurn(layer, revoked, level + 1, at \div 2)
    BY <2>1, LayersAre
  <2> HIDE DEF layer, at
  <2> QED BY <1>1, <2>1, <2>2 DEF NodeOf, LayerTurn, layer
<1> HIDE DEF at
<1>3. CASE at % 2 = 1
  <2>1. 2 * (at \div 2) = at - 1 /\ 2 * (at \div 2) + 1 = at
    BY <1>1, <1>3
  <2> QED BY <1>2, <1>3, <2>1 DEF NodeOf, Sibling, Bit, at
<1>4. CASE at % 2 # 1
  <2>1. 2 * (at \div 2) = at
    BY <1>1, <1>4
  <2> QED BY <1>2, <1>4, <2>1 DEF NodeOf, Sibling, Bit, at
<1> QED BY <1>3, <1>4

-----------------------------------------------------------------------------
\* The levels at which a key's sibling is a word, and those words.
Levels(revoked, key) == {level \in 0 .. Depth - 1 : Sibling(revoked, key, level) # Zero}
SiblingWords(revoked, key) == {Sibling(revoked, key, level) : level \in Levels(revoked, key)}

\* What the recursion of SparseProof says of one level.
UpTurn(up, revoked, key, level) ==
    IF level = 0 THEN <<>>
    ELSE IF level - 1 \in Levels(revoked, key)
         THEN Append(up[level - 1], Sibling(revoked, key, level - 1))
         ELSE up[level - 1]

UpBy(up, revoked, key) == up = [level \in 0 .. Depth |-> UpTurn(up, revoked, key, level)]

\* There is a function that satisfies the recursion of SparseProof.
LEMMA UpExists ==
    ASSUME NEW revoked, NEW key
    PROVE  \E up \in [0 .. Depth -> Seq(SiblingWords(revoked, key))] : UpBy(up, revoked, key)
<1> DEFINE V == Seq(SiblingWords(revoked, key))
           step == [level \in 0 .. Depth |-> [g \in [0 .. Depth -> V] |-> UpTurn(g, revoked, key, level)]]
<1>1. (0 .. Depth) \in SUBSET Nat /\ V # {}
  <2>1. <<>> \in V
    OBVIOUS
  <2> HIDE DEF V
  <2>2. (0 .. Depth) \in SUBSET Nat
    BY SparseAssumption
  <2> QED BY <2>1, <2>2
<1>2. ASSUME NEW level \in 0 .. Depth, NEW g \in [0 .. Depth -> V]
      PROVE  UpTurn(g, revoked, key, level) \in V
  <2>1. CASE level = 0
    BY <2>1 DEF UpTurn
  <2>2. CASE level # 0
    <3>1. level - 1 \in 0 .. Depth
      BY <2>2, SparseAssumption
    <3>2. g[level - 1] \in V
      BY <3>1
    <3>3. level - 1 \in Levels(revoked, key) => Sibling(revoked, key, level - 1) \in SiblingWords(revoked, key)
      BY DEF SiblingWords
    <3> QED BY <2>2, <3>2, <3>3 DEF UpTurn
  <2> QED BY <2>1, <2>2
<1>3. step \in [0 .. Depth -> [[0 .. Depth -> V] -> V]]
  BY <1>2
<1>4. LooksBack(step, 0 .. Depth, V)
  <2> SUFFICES ASSUME NEW level \in 0 .. Depth, NEW g \in [0 .. Depth -> V], NEW h \in [0 .. Depth -> V],
                      \A k \in 0 .. Depth : k < level => g[k] = h[k]
               PROVE  step[level][g] = step[level][h]
    BY DEF LooksBack
  <2>1. level # 0 => g[level - 1] = h[level - 1]
    <3>1. level # 0 => level - 1 \in 0 .. Depth /\ level - 1 < level
      BY SparseAssumption
    <3> QED BY <3>1
  <2> QED BY <2>1 DEF UpTurn
<1> HIDE DEF step, V
<1>5. PICK up \in [0 .. Depth -> V] : Solves(up, step, 0 .. Depth)
  BY <1>1, <1>3, <1>4, Recursion
<1>6. \A level \in 0 .. Depth : step[level][up] = UpTurn(up, revoked, key, level)
  BY <1>5 DEF step
<1>7. UpBy(up, revoked, key)
  BY <1>5, <1>6 DEF UpBy, Solves
<1> QED BY <1>7 DEF V

\* The words of a proof below a level.
Up(revoked, key) == CHOOSE up : UpBy(up, revoked, key)

\* A proof is the levels with a word and all the words, upwards.
LEMMA SparseProofIs ==
    ASSUME NEW revoked, NEW key
    PROVE  SparseProof(revoked, key)
             = [bitmap |-> Levels(revoked, key), siblings |-> Up(revoked, key)[Depth]]
BY DEF SparseProof, Levels, Up, UpBy, UpTurn

\* What a proof of the sparse tree has at each level.
LEMMA UpIs ==
    ASSUME NEW revoked, NEW key
    PROVE  LET up == Up(revoked, key) IN
           /\ \A level \in 0 .. Depth : up[level] \in Seq(SiblingWords(revoked, key))
           /\ up[0] = <<>>
           /\ \A level \in 0 .. Depth - 1 :
                 up[level + 1] = IF level \in Levels(revoked, key)
                                 THEN Append(up[level], Sibling(revoked, key, level)) ELSE up[level]
<1> DEFINE up == Up(revoked, key)
           V  == Seq(SiblingWords(revoked, key))
<1>1. UpBy(up, revoked, key)
  BY UpExists DEF Up
<1> HIDE DEF up
<1>2. \A level \in 0 .. Depth : up[level] = UpTurn(up, revoked, key, level)
  BY <1>1 DEF UpBy
<1>3. up[0] = <<>>
  <2>1. 0 \in 0 .. Depth
    BY SparseAssumption
  <2> QED BY <1>2, <2>1 DEF UpTurn
<1>4. \A level \in 0 .. Depth - 1 :
         up[level + 1] = IF level \in Levels(revoked, key)
                         THEN Append(up[level], Sibling(revoked, key, level)) ELSE up[level]
  <2> SUFFICES ASSUME NEW level \in 0 .. Depth - 1
               PROVE  up[level + 1] = IF level \in Levels(revoked, key)
                         THEN Append(up[level], Sibling(revoked, key, level)) ELSE up[level]
    OBVIOUS
  <2>1. level + 1 \in 0 .. Depth /\ level + 1 # 0 /\ (level + 1) - 1 = level
    BY SparseAssumption
  <2> QED BY <1>2, <2>1 DEF UpTurn
<1>5. \A level \in 0 .. Depth : up[level] \in V
  <2> DEFINE Good == {k \in Nat : k \in 0 .. Depth => up[k] \in V}
  <2>1. ASSUME NEW k \in Nat, \A m \in Nat : m < k => m \in Good
        PROVE  k \in Good
    <3> SUFFICES ASSUME k \in 0 .. Depth PROVE up[k] \in V
      OBVIOUS
    <3>1. CASE k = 0
      <4>1. <<>> \in V
        OBVIOUS
      <4> HIDE DEF V
      <4> QED BY <1>3, <3>1, <4>1
    <3>2. CASE k # 0
      <4>1. k - 1 \in Nat /\ k - 1 < k /\ k - 1 \in 0 .. Depth - 1 /\ k - 1 \in 0 .. Depth /\ (k - 1) + 1 = k
        BY <3>2, SparseAssumption
      <4>2. up[k - 1] \in V
        BY <2>1, <4>1
      <4>3. k - 1 \in Levels(revoked, key) => Sibling(revoked, key, k - 1) \in SiblingWords(revoked, key)
        BY DEF SiblingWords
      <4>4. up[k] = IF k - 1 \in Levels(revoked, key)
                    THEN Append(up[k - 1], Sibling(revoked, key, k - 1)) ELSE up[k - 1]
        BY <1>4, <4>1
      <4> QED BY <4>2, <4>3, <4>4
    <3> QED BY <3>1, <3>2
  <2>2. Good \in SUBSET Nat
    OBVIOUS
  <2>3. (0 .. Depth) \subseteq Nat
    BY SparseAssumption
  <2> HIDE DEF Good
  <2>4. \A k \in Nat : k \in Good
    BY <2>1, <2>2, AllNumbers
  <2> QED BY <2>3, <2>4 DEF Good
<1> QED BY <1>3, <1>4, <1>5 DEF up

\* The words of all levels are not fewer than those below one.
LEMMA UpGrows ==
    ASSUME NEW revoked, NEW key, NEW level \in 0 .. Depth
    PROVE  Len(Up(revoked, key)[level]) \in 0 .. Len(Up(revoked, key)[Depth])
<1> DEFINE up == Up(revoked, key)
           Good == {k \in Nat : k <= Depth => Len(up[Depth - k]) <= Len(up[Depth])}
<1>1. Depth \in Nat
  BY SparseAssumption
<1>2. \A l \in 0 .. Depth : up[l] \in Seq(SiblingWords(revoked, key)) /\ Len(up[l]) \in Nat
  <2>1. \A l \in 0 .. Depth : up[l] \in Seq(SiblingWords(revoked, key))
    BY UpIs
  <2> HIDE DEF up
  <2> QED BY <2>1
<1>3. \A l \in 0 .. Depth - 1 : Len(up[l]) <= Len(up[l + 1])
  <2> SUFFICES ASSUME NEW l \in 0 .. Depth - 1 PROVE Len(up[l]) <= Len(up[l + 1])
    OBVIOUS
  <2>1. l \in 0 .. Depth /\ l + 1 \in 0 .. Depth
    BY <1>1
  <2>2. up[l + 1] = IF l \in Levels(revoked, key)
                    THEN Append(up[l], Sibling(revoked, key, l)) ELSE up[l]
    BY UpIs
  <2>3. l \in Levels(revoked, key) => Sibling(revoked, key, l) \in SiblingWords(revoked, key)
    BY DEF SiblingWords
  <2>4. up[l] \in Seq(SiblingWords(revoked, key)) /\ Len(up[l]) \in Nat
    BY <1>2, <2>1
  <2> HIDE DEF up
  <2>5. CASE l \in Levels(revoked, key)
    <3>1. Len(up[l + 1]) = Len(up[l]) + 1
      BY <2>2, <2>3, <2>4, <2>5, AppendProperties
    <3> QED BY <2>4, <3>1
  <2> QED BY <2>2, <2>4, <2>5
<1> HIDE DEF up
<1>4. ASSUME NEW k \in Nat, \A m \in Nat : m < k => m \in Good
      PROVE  k \in Good
  <2> SUFFICES ASSUME k <= Depth PROVE Len(up[Depth - k]) <= Len(up[Depth])
    OBVIOUS
  <2>1. CASE k = 0
    <3>1. Depth - k = Depth /\ Depth \in 0 .. Depth
      BY <1>1, <2>1
    <3> QED BY <1>2, <3>1
  <2>2. CASE k # 0
    <3>1. /\ k - 1 \in Nat /\ k - 1 < k /\ k - 1 <= Depth
          /\ Depth - k \in 0 .. Depth - 1 /\ (Depth - k) + 1 = Depth - (k - 1)
          /\ Depth - k \in 0 .. Depth /\ Depth - (k - 1) \in 0 .. Depth /\ Depth \in 0 .. Depth
      BY <1>1, <2>2
    <3>2. Len(up[Depth - (k - 1)]) <= Len(up[Depth])
      BY <1>4, <3>1
    <3>3. Len(up[Depth - k]) <= Len(up[Depth - (k - 1)])
      <4>1. Len(up[Depth - k]) <= Len(up[(Depth - k) + 1])
        BY <1>3, <3>1
      <4> QED BY <3>1, <4>1
    <3>4. Len(up[Depth - k]) \in Nat /\ Len(up[Depth - (k - 1)]) \in Nat /\ Len(up[Depth]) \in Nat
      BY <1>2, <3>1
    <3> QED BY <3>2, <3>3, <3>4
  <2> QED BY <2>1, <2>2
<1>5. Good \in SUBSET Nat
  OBVIOUS
<1> HIDE DEF Good
<1>6. Depth - level \in Nat /\ Depth - level <= Depth /\ Depth - (Depth - level) = level
  BY <1>1
<1>7. Depth - level \in Good
  BY <1>4, <1>5, <1>6, AllNumbers
<1>8. Len(up[level]) <= Len(up[Depth])
  BY <1>6, <1>7 DEF Good
<1>9. Len(up[level]) \in Nat /\ Len(up[Depth]) \in Nat
  <2>1. Depth \in 0 .. Depth
    BY <1>1
  <2> QED BY <1>2, <2>1
<1>10. Len(up[level]) \in 0 .. Len(up[Depth])
  BY <1>8, <1>9
<1> QED BY <1>10 DEF up

-----------------------------------------------------------------------------
\* The words that a proof about consent can have.
SparseWords == UNION {UNION {SiblingWords(revoked, key) : key \in Key} : revoked \in SUBSET Key}

\* A bitmap that is right about the levels below one.
BitsAgree(bitmap, revoked, key, level) ==
    \A l \in 0 .. level - 1 : l \in bitmap <=> l \in Levels(revoked, key)

\* What computeRoot is right about when it has the node of the key at a level.
RightSoFar(q, level, used) ==
    /\ (q.value # Zero) <=> (q.key \in q.anchored)
    /\ BitsAgree(q.bitmap, q.anchored, q.key, level)
    /\ Uses(q.proof, used, Up(q.anchored, q.key)[level])

IsConsent(q) ==
    /\ q.key \in Key /\ q.anchored \in SUBSET Key /\ q.value \in {Zero, Revocation[q.key]}
    /\ q.bitmap \in SUBSET (0 .. Depth - 1)
    /\ q.proof \in Seq(SparseWords)

\* Where computeRoot is after some turns of its loop.
ConsentAt(q, node, level, used) ==
    /\ level \in 0 .. Depth /\ used \in 0 .. Len(q.proof)
    /\ BitsAgree(q.bitmap, q.anchored, q.key, level) => used = Len(Up(q.anchored, q.key)[level])
    /\ node = NodeOf(q.anchored, q.key, level) <=> RightSoFar(q, level, used)

\* No word is zero.
LEMMA WordsAre == Zero \notin SparseWords
BY DEF SparseWords, SiblingWords, Levels

\* One turn of the loop.
LEMMA ConsentTurn ==
    ASSUME NEW q, IsConsent(q), NEW node, NEW level \in Nat, NEW used \in Nat, level < Depth,
           ConsentAt(q, node, level, used), level \in q.bitmap => used < Len(q.proof),
           NEW sibling, sibling = (IF level \in q.bitmap THEN q.proof[used + 1] ELSE Zero),
           NEW next, next = (IF Bit(q.key, level) = 1
                             THEN SparseHashNode(sibling, node) ELSE SparseHashNode(node, sibling)),
           NEW more, more = (IF level \in q.bitmap THEN used + 1 ELSE used)
    PROVE  ConsentAt(q, next, level + 1, more)
<1> DEFINE key   == q.key
           tree  == q.anchored
           real  == Sibling(tree, key, level)
           up    == Up(tree, key)
           Agree(l) == BitsAgree(q.bitmap, tree, key, l)
<1>1. /\ key \in Key /\ key \in Nat /\ tree \in SUBSET Key
      /\ level \in 0 .. Depth - 1 /\ level + 1 \in 0 .. Depth /\ level \in 0 .. Depth
  BY SparseAssumption DEF IsConsent
<1>2. q.proof \in Seq(SparseWords) /\ Len(q.proof) \in Nat /\ used \in 0 .. Len(q.proof)
  BY DEF IsConsent, ConsentAt
<1>3. level \in q.bitmap => sibling # Zero /\ sibling = q.proof[used + 1]
  <2>1. level \in q.bitmap => used + 1 \in 1 .. Len(q.proof)
    BY <1>2
  <2>2. level \in q.bitmap => q.proof[used + 1] \in SparseWords
    BY <1>2, <2>1
  <2> QED BY <2>2, WordsAre
<1>4. sibling = real <=> (level \in q.bitmap <=> level \in Levels(tree, key))
                         /\ (level \in q.bitmap => q.proof[used + 1] = real)
  BY <1>1, <1>3 DEF Levels
<1>5. next = NodeOf(tree, key, level + 1) <=> node = NodeOf(tree, key, level) /\ sibling = real
  BY <1>1, NodeOfIs, SparseHashes
<1>6. Agree(level + 1) <=> Agree(level) /\ (level \in q.bitmap <=> level \in Levels(tree, key))
  <2>1. \A l \in 0 .. level : l = level \/ l \in 0 .. level - 1
    OBVIOUS
  <2>2. level \in 0 .. level /\ (0 .. level - 1) \subseteq 0 .. level /\ (level + 1) - 1 = level
    OBVIOUS
  <2> QED BY <2>1, <2>2 DEF BitsAgree
<1>7. up[level] \in Seq(SiblingWords(tree, key)) /\ Len(up[level]) \in Nat
  <2>1. up[level] \in Seq(SiblingWords(tree, key))
    BY <1>1, UpIs
  <2> HIDE DEF up
  <2> QED BY <2>1
<1>8. up[level + 1] = IF level \in Levels(tree, key) THEN Append(up[level], real) ELSE up[level]
  BY <1>1, UpIs
<1>9. level \in Levels(tree, key) => real \in SiblingWords(tree, key)
  BY DEF SiblingWords
<1>10. more \in 0 .. Len(q.proof)
  BY <1>2
<1>11. Agree(level + 1) => more = Len(up[level + 1])
  <2> SUFFICES ASSUME Agree(level + 1) PROVE more = Len(up[level + 1])
    OBVIOUS
  <2>1. used = Len(up[level]) /\ (level \in q.bitmap <=> level \in Levels(tree, key))
    BY <1>6 DEF ConsentAt
  <2> HIDE DEF up, real
  <2>2. CASE level \in q.bitmap
    <3>1. Len(up[level + 1]) = Len(up[level]) + 1
      BY <1>7, <1>8, <1>9, <2>1, <2>2, AppendProperties
    <3> QED BY <2>1, <2>2, <3>1
  <2> QED BY <1>8, <2>1, <2>2
<1>12. ASSUME level \in q.bitmap <=> level \in Levels(tree, key)
       PROVE  Uses(q.proof, more, up[level + 1])
                <=> Uses(q.proof, used, up[level]) /\ (level \in q.bitmap => q.proof[used + 1] = real)
  <2> HIDE DEF up, real
  <2>1. CASE level \in q.bitmap
    BY <1>7, <1>8, <1>9, <1>12, <2>1, UsesMore
  <2>2. CASE level \notin q.bitmap
    BY <1>8, <1>12, <2>2
  <2> QED BY <2>1, <2>2
<1>13. RightSoFar(q, level + 1, more) <=> RightSoFar(q, level, used) /\ sibling = real
  BY <1>4, <1>6, <1>12 DEF RightSoFar
<1> QED BY <1>1, <1>5, <1>10, <1>11, <1>13 DEF ConsentAt

\* The first node is the value.
LEMMA ConsentBegins ==
    ASSUME NEW q, IsConsent(q)
    PROVE  ConsentAt(q, q.value, 0, 0)
<1>1. q.key \in Key /\ q.key \in Nat /\ q.anchored \in SUBSET Key /\ Len(q.proof) \in Nat
      /\ Revocation[q.key] # Zero /\ Depth \in Nat
  BY SparseAssumption DEF IsConsent
<1>2. NodeOf(q.anchored, q.key, 0) = IF q.key \in q.anchored THEN Revocation[q.key] ELSE Zero
  <2>1. 0 \in Nat /\ Shift(q.key, 0) = q.key
    BY <1>1, ShiftIs
  <2>2. SparseLayers(q.anchored)[0][q.key] = LayerTurn(SparseLayers(q.anchored), q.anchored, 0, q.key)
    BY <1>1, <2>1, LayersAre
  <2> QED BY <2>1, <2>2 DEF NodeOf, LayerTurn
<1>3. q.value = NodeOf(q.anchored, q.key, 0) <=> ((q.value # Zero) <=> (q.key \in q.anchored))
  BY <1>1, <1>2 DEF IsConsent
<1>4. BitsAgree(q.bitmap, q.anchored, q.key, 0)
  BY DEF BitsAgree
<1>5. Up(q.anchored, q.key)[0] = <<>> /\ Len(<<>>) = 0
  BY UpIs
<1>6. Uses(q.proof, 0, Up(q.anchored, q.key)[0])
  BY <1>5 DEF Uses
<1> QED BY <1>1, <1>3, <1>4, <1>5, <1>6 DEF ConsentAt, RightSoFar

\* What the proof that an anchor calls for is.
ExactConsent(q) ==
    /\ (q.value # Zero) <=> (q.key \in q.anchored)
    /\ [bitmap |-> q.bitmap, siblings |-> q.proof] = ConsentProof[q.anchored][q.key]

\* It is right about all levels and has no other word.
LEMMA ExactIs ==
    ASSUME NEW q, IsConsent(q)
    PROVE  /\ ExactConsent(q) <=> RightSoFar(q, Depth, Len(q.proof))
           /\ ExactConsent(q) => q.bitmap = Levels(q.anchored, q.key)
                                 /\ q.proof = Up(q.anchored, q.key)[Depth]
<1> DEFINE up == Up(q.anchored, q.key)
           real == Levels(q.anchored, q.key)
<1>1. ConsentProof[q.anchored][q.key] = [bitmap |-> real, siblings |-> up[Depth]]
  BY SparseProofIs DEF ConsentProof, IsConsent
<1>2. Depth \in 0 .. Depth
  BY SparseAssumption
<1>3. up[Depth] \in Seq(SiblingWords(q.anchored, q.key)) /\ q.proof \in Seq(SparseWords)
  BY <1>2, UpIs DEF IsConsent
<1>4. Uses(q.proof, Len(q.proof), up[Depth]) <=> q.proof = up[Depth]
  <2> HIDE DEF up
  <2> QED BY <1>3, UsesAll
<1>5. BitsAgree(q.bitmap, q.anchored, q.key, Depth) <=> q.bitmap = real
  <2>1. q.bitmap \subseteq 0 .. Depth - 1 /\ real \subseteq 0 .. Depth - 1
    BY DEF IsConsent, Levels
  <2> QED BY <2>1 DEF BitsAgree
<1> HIDE DEF up, real
<1>6. [bitmap |-> q.bitmap, siblings |-> q.proof] = [bitmap |-> real, siblings |-> up[Depth]]
        <=> q.bitmap = real /\ q.proof = up[Depth]
  OBVIOUS
<1> QED BY <1>1, <1>4, <1>5, <1>6 DEF ExactConsent, RightSoFar, up, real

\* The answer at the end of the loop.
LEMMA ConsentEnds ==
    ASSUME NEW q, IsConsent(q), NEW node, ConsentAt(q, node, Depth, Len(q.proof))
    PROVE  node = ConsentRoot[q.anchored] <=> ExactConsent(q)
<1>1. Shift(q.key, Depth) = 0 /\ q.anchored \in SUBSET Key
  BY SparseAssumption DEF IsConsent
<1>2. ConsentRoot[q.anchored] = NodeOf(q.anchored, q.key, Depth)
  BY <1>1 DEF ConsentRoot, SparseRoot, NodeOf
<1> QED BY <1>2, ExactIs DEF ConsentAt

\* Whoever runs out of words, or has words left, was not given that proof.
LEMMA ConsentRevertsOnly ==
    ASSUME NEW q, IsConsent(q), NEW node, NEW level \in Nat, NEW used, ConsentAt(q, node, level, used),
           \/ level < Depth /\ level \in q.bitmap /\ used >= Len(q.proof)
           \/ level = Depth /\ used # Len(q.proof)
    PROVE  ~ExactConsent(q)
<1> SUFFICES ASSUME ExactConsent(q) PROVE FALSE
  OBVIOUS
<1> DEFINE up == Up(q.anchored, q.key)
<1>1. q.bitmap = Levels(q.anchored, q.key) /\ q.proof = up[Depth]
  BY ExactIs
<1>2. BitsAgree(q.bitmap, q.anchored, q.key, level)
  BY <1>1 DEF BitsAgree
<1>3. used = Len(up[level]) /\ level \in 0 .. Depth
  BY <1>2 DEF ConsentAt
<1>4. CASE level = Depth
  BY <1>1, <1>3, <1>4
<1>5. CASE level < Depth
  <2>1. level \in 0 .. Depth - 1 /\ level + 1 \in 0 .. Depth
    BY <1>3, <1>5, SparseAssumption
  <2>2. /\ up[level] \in Seq(SiblingWords(q.anchored, q.key))
        /\ Sibling(q.anchored, q.key, level) \in SiblingWords(q.anchored, q.key)
        /\ up[level + 1] = Append(up[level], Sibling(q.anchored, q.key, level))
    <3>1. level \in Levels(q.anchored, q.key)
      BY <1>1, <1>5
    <3>2. Sibling(q.anchored, q.key, level) \in SiblingWords(q.anchored, q.key)
      BY <3>1 DEF SiblingWords
    <3>3. up[level] \in Seq(SiblingWords(q.anchored, q.key))
      BY <1>3, UpIs
    <3>4. up[level + 1] = Append(up[level], Sibling(q.anchored, q.key, level))
      BY <2>1, <3>1, UpIs
    <3> QED BY <3>2, <3>3, <3>4
  <2>3. Len(up[level + 1]) \in 0 .. Len(up[Depth])
    BY <2>1, UpGrows
  <2> HIDE DEF up
  <2>4. Len(up[level + 1]) = Len(up[level]) + 1 /\ Len(up[level]) \in Nat
    BY <2>2, AppendProperties
  <2>5. Len(up[level]) >= Len(up[Depth])
    BY <1>1, <1>3, <1>5
  <2>6. Len(up[Depth]) \in Nat
    BY <1>1 DEF IsConsent
  <2> QED BY <2>3, <2>4, <2>5, <2>6
<1> QED BY <1>4, <1>5

-----------------------------------------------------------------------------
(* What is known while a question is answered *)

\* Who carries a mark is asked with it, runs, is answered, or is over.
AtWork(mark, verifier) == mark \in DOMAIN asked => pc \in {verifier, "answered"}

\* Before a question nothing is folded.
IdleInv == pc = "idle" => i = 0 /\ n = 0 /\ p = 0

\* What is known of a question about consent, and of its answer.
ConsentInv ==
    /\ AtWork("key", "consent")
    /\ "key" \in DOMAIN asked =>
         /\ IsConsent(asked)
         /\ ConsentAt(asked, fr, i, p)
         /\ pc = "answered" => (verdict = "true" <=> ExactConsent(asked))

\* The question that is asked is one about consent.
LEMMA ConsentAsked ==
    ASSUME AskConsent
    PROVE  IsConsent(asked') /\ fr' = asked'.value /\ pc' = "consent"
<1>1. PICK key \in Key, anchored \in SUBSET Key, now_ \in SUBSET Key :
        \E value \in {Zero, Revocation[key]} :
            \E proof \in Deliveries(ConsentProof[now_][key].siblings) :
                /\ pc' = "consent"
                /\ asked' = [key |-> key, value |-> value, anchored |-> anchored,
                             bitmap |-> ConsentProof[now_][key].bitmap, proof |-> proof]
                /\ fr' = value
  BY DEF AskConsent, Call
<1>2. PICK value \in {Zero, Revocation[key]} :
            \E proof \in Deliveries(ConsentProof[now_][key].siblings) :
                /\ pc' = "consent"
                /\ asked' = [key |-> key, value |-> value, anchored |-> anchored,
                             bitmap |-> ConsentProof[now_][key].bitmap, proof |-> proof]
                /\ fr' = value
  BY <1>1
<1>3. PICK proof \in Deliveries(ConsentProof[now_][key].siblings) :
                /\ pc' = "consent"
                /\ asked' = [key |-> key, value |-> value, anchored |-> anchored,
                             bitmap |-> ConsentProof[now_][key].bitmap, proof |-> proof]
                /\ fr' = value
  BY <1>2
<1> DEFINE up == Up(now_, key)
<1>4. ConsentProof[now_][key] = [bitmap |-> Levels(now_, key), siblings |-> up[Depth]]
  BY SparseProofIs DEF ConsentProof
<1>5. up[Depth] \in Seq(SiblingWords(now_, key))
  <2>1. Depth \in 0 .. Depth
    BY SparseAssumption
  <2> QED BY <2>1, UpIs
<1> HIDE DEF up
<1>6. ConsentProof[now_][key].siblings = up[Depth] /\ ConsentProof[now_][key].bitmap = Levels(now_, key)
  BY <1>4
<1>7. proof \in Seq(SiblingWords(now_, key))
  BY <1>3, <1>5, <1>6, DeliveriesAre
<1>8. SiblingWords(now_, key) \subseteq SparseWords
  BY DEF SparseWords
<1>9. proof \in Seq(SparseWords)
  BY <1>7, <1>8
<1>10. Levels(now_, key) \in SUBSET (0 .. Depth - 1)
  BY DEF Levels
<1> QED BY <1>3, <1>6, <1>9, <1>10 DEF IsConsent

\* Every step of a question keeps it.
LEMMA ConsentInvKept ==
    ASSUME ConsentInv, IdleInv,
           \/ UNCHANGED vars \/ "key" \notin DOMAIN asked'
           \/ AskConsent
           \/ "key" \in DOMAIN asked /\ (FoldConsent \/ ConsentReverts \/ AnswerConsent)
    PROVE  ConsentInv'
<1>1. CASE UNCHANGED vars
  BY <1>1 DEF ConsentInv, AtWork, vars, loop
<1>2. CASE "key" \notin DOMAIN asked'
  BY <1>2 DEF ConsentInv, AtWork
<1>3. CASE AskConsent
  <2>1. IsConsent(asked') /\ fr' = asked'.value /\ pc' = "consent"
    BY <1>3, ConsentAsked
  <2>2. i' = 0 /\ p' = 0
    BY <1>3 DEF AskConsent, IdleInv
  <2>3. ConsentAt(asked', fr', i', p')
    BY <2>1, <2>2, ConsentBegins
  <2> QED BY <2>1, <2>3 DEF ConsentInv, AtWork
<1>4. CASE "key" \in DOMAIN asked /\ FoldConsent
  <2>1. /\ pc' = "consent" /\ asked' = asked
        /\ IsConsent(asked) /\ ConsentAt(asked, fr, i, p) /\ i \in Nat /\ p \in Nat /\ i < Depth
        /\ i \in asked.bitmap => p < Len(asked.proof)
    BY <1>4, SparseAssumption DEF FoldConsent, ConsentInv, ConsentAt, NoWord, IsConsent
  <2> DEFINE sibling == IF i \in asked.bitmap THEN asked.proof[p + 1] ELSE Zero
  <2>2. /\ fr' = (IF Bit(asked.key, i) = 1 THEN SparseHashNode(sibling, fr) ELSE SparseHashNode(fr, sibling))
        /\ p' = (IF i \in asked.bitmap THEN p + 1 ELSE p)
        /\ i' = i + 1
    BY <1>4 DEF FoldConsent, Word
  <2> HIDE DEF sibling
  <2>3. ConsentAt(asked, fr', i + 1, p')
    BY <2>1, <2>2, ConsentTurn DEF sibling
  <2> QED BY <2>1, <2>2, <2>3 DEF ConsentInv, AtWork
<1>5. CASE "key" \in DOMAIN asked /\ ConsentReverts
  <2>1. /\ pc' = "answered" /\ verdict' = "reverts"
        /\ asked' = asked /\ fr' = fr /\ i' = i /\ p' = p
        /\ \/ i < Depth /\ i \in asked.bitmap /\ p >= Len(asked.proof)
           \/ i = Depth /\ p # Len(asked.proof)
    BY <1>5 DEF ConsentReverts, Answer, loop, NoWord
  <2>2. IsConsent(asked) /\ ConsentAt(asked, fr, i, p) /\ i \in Nat
    BY <1>5, SparseAssumption DEF ConsentInv, ConsentAt
  <2>3. ~ExactConsent(asked)
    BY <2>1, <2>2, ConsentRevertsOnly
  <2> QED BY <2>1, <2>2, <2>3 DEF ConsentInv, AtWork
<1>6. CASE "key" \in DOMAIN asked /\ AnswerConsent
  <2>1. /\ pc' = "answered" /\ asked' = asked /\ fr' = fr /\ i' = i /\ p' = p
        /\ verdict' = (IF fr = ConsentRoot[asked.anchored] THEN "true" ELSE "false")
        /\ i = Depth /\ p = Len(asked.proof)
    BY <1>6 DEF AnswerConsent, Accept, Answer, loop
  <2>2. IsConsent(asked) /\ ConsentAt(asked, fr, Depth, Len(asked.proof))
    BY <1>6, <2>1 DEF ConsentInv
  <2>3. fr = ConsentRoot[asked.anchored] <=> ExactConsent(asked)
    BY <2>2, ConsentEnds
  <2> QED BY <2>1, <2>2, <2>3 DEF ConsentInv, AtWork
<1> QED BY <1>1, <1>2, <1>3, <1>4, <1>5, <1>6

-----------------------------------------------------------------------------
(* Proofs of inclusion, by recursion: report-verify.ts *)

\* What fold() comes to from the nodes below, on either side.
Lifted(below, proof, left) ==
    {[used |-> b.used + 1,
      node |-> IF left THEN HashNode(b.node, proof[b.used + 1])
               ELSE HashNode(proof[b.used + 1], b.node)] : b \in {b \in below : b.used < Len(proof)}}

\* What the recursion of Folded says of one range.
FoldTurn(fold, leaf, proof, len, at) ==
    IF len = 1 THEN {[node |-> leaf, used |-> 0]}
    ELSE Lifted(IF at < Split(len) THEN fold[Split(len)][at]
                ELSE fold[len - Split(len)][at - Split(len)], proof, at < Split(len))

FoldBy(fold, leaf, proof) ==
    fold = [len \in Nat \ {0} |-> [at \in Nat |-> FoldTurn(fold, leaf, proof, len, at)]]

\* The nodes that a fold can come to.
Folds(U) == [used: Nat, node: U]

\* One more word makes another of them.
LEMMA FoldsMore ==
    ASSUME NEW U, \A l, r \in U : HashNode(l, r) \in U,
           NEW proof, Len(proof) \in Nat, \A k \in 1 .. Len(proof) : proof[k] \in U,
           NEW b \in Folds(U), b.used < Len(proof), NEW left \in BOOLEAN
    PROVE  [used |-> b.used + 1,
            node |-> IF left THEN HashNode(b.node, proof[b.used + 1])
                     ELSE HashNode(proof[b.used + 1], b.node)] \in Folds(U)
<1>1. b.used \in Nat /\ b.node \in U /\ b.used + 1 \in 1 .. Len(proof)
  BY DEF Folds
<1>2. proof[b.used + 1] \in U
  BY <1>1
<1> DEFINE above == IF left THEN HashNode(b.node, proof[b.used + 1])
                    ELSE HashNode(proof[b.used + 1], b.node)
<1>3. above \in U
  BY <1>1, <1>2
<1> HIDE DEF above
<1>4. [used |-> b.used + 1, node |-> above] \in Folds(U)
  BY <1>1, <1>3 DEF Folds
<1> QED BY <1>4 DEF above

\* There is a function that satisfies the recursion of fold() (report-verify.ts:32-56).
LEMMA FoldExists ==
    ASSUME NEW leaf, NEW S, NEW proof \in Seq(S)
    PROVE  \E fold : FoldBy(fold, leaf, proof)
<1> DEFINE B == {leaf} \cup {proof[k] : k \in 1 .. Len(proof)}
<1>1. PICK U : B \subseteq U /\ \A l, r \in U : HashNode(l, r) \in U
  BY TreesExist
<1> DEFINE V == [Nat -> SUBSET Folds(U)]
           step == [len \in Nat \ {0} |-> [g \in [Nat \ {0} -> V] |->
                       [at \in Nat |-> FoldTurn(g, leaf, proof, len, at)]]]
<1>2. leaf \in U /\ Len(proof) \in Nat /\ \A k \in 1 .. Len(proof) : proof[k] \in U
  BY <1>1
<1>3. (Nat \ {0}) \in SUBSET Nat /\ V # {}
  <2>1. [at \in Nat |-> {}] \in V
    OBVIOUS
  <2> QED BY <2>1
<1> HIDE DEF B
<1>4. ASSUME NEW len \in Nat \ {0}, NEW g \in [Nat \ {0} -> V], NEW at \in Nat
      PROVE  FoldTurn(g, leaf, proof, len, at) \in SUBSET Folds(U)
  <2>1. CASE len = 1
    <3>1. [node |-> leaf, used |-> 0] \in Folds(U)
      BY <1>2 DEF Folds
    <3> QED BY <2>1, <3>1 DEF FoldTurn
  <2>2. CASE len # 1
    <3>1. Split(len) \in Nat \ {0} /\ len - Split(len) \in Nat \ {0}
      BY <2>2, SplitParts
    <3> DEFINE below == IF at < Split(len) THEN g[Split(len)][at] ELSE g[len - Split(len)][at - Split(len)]
    <3>2. below \in SUBSET Folds(U)
      <4>1. CASE at < Split(len)
        BY <3>1, <4>1
      <4>2. CASE ~ (at < Split(len))
        <5> HIDE DEF V
        <5>1. at - Split(len) \in Nat
          BY <3>1, <4>2
        <5> USE DEF V
        <5>2. g[len - Split(len)][at - Split(len)] \in SUBSET Folds(U)
          BY <3>1, <5>1
        <5> QED BY <4>2, <5>2
      <4> QED BY <4>1, <4>2
    <3> DEFINE left == at < Split(len)
    <3>3. left \in BOOLEAN
      OBVIOUS
    <3> HIDE DEF below
    <3>4. ASSUME NEW b \in {b \in below : b.used < Len(proof)}
          PROVE  [used |-> b.used + 1,
                  node |-> IF left THEN HashNode(b.node, proof[b.used + 1])
                           ELSE HashNode(proof[b.used + 1], b.node)] \in Folds(U)
      <4> HIDE DEF left, V
      <4> QED BY <1>1, <1>2, <3>2, <3>3, <3>4, FoldsMore
    <3> QED BY <2>2, <3>4 DEF FoldTurn, Lifted, below
  <2> QED BY <2>1, <2>2
<1>5. step \in [Nat \ {0} -> [[Nat \ {0} -> V] -> V]]
  BY <1>4
<1>6. LooksBack(step, Nat \ {0}, V)
  <2> SUFFICES ASSUME NEW len \in Nat \ {0}, NEW g \in [Nat \ {0} -> V], NEW h \in [Nat \ {0} -> V],
                      \A k \in Nat \ {0} : k < len => g[k] = h[k]
               PROVE  step[len][g] = step[len][h]
    BY DEF LooksBack
  <2>1. ASSUME NEW at \in Nat
        PROVE  FoldTurn(g, leaf, proof, len, at) = FoldTurn(h, leaf, proof, len, at)
    <3>1. CASE len = 1
      BY <3>1 DEF FoldTurn
    <3>2. CASE len # 1
      <4>1. Split(len) \in 1 .. len - 1 /\ len - Split(len) \in 1 .. len - 1
        BY <3>2, SplitParts
      <4>2. \A k \in 1 .. len - 1 : k \in Nat \ {0} /\ k < len
        OBVIOUS
      <4>3. g[Split(len)] = h[Split(len)] /\ g[len - Split(len)] = h[len - Split(len)]
        BY <4>1, <4>2
      <4> QED BY <4>3 DEF FoldTurn
    <3> QED BY <3>1, <3>2
  <2> QED BY <2>1
<1> HIDE DEF step, V
<1>7. PICK fold \in [Nat \ {0} -> V] : Solves(fold, step, Nat \ {0})
  BY <1>3, <1>5, <1>6, Recursion
<1>8. \A len \in Nat \ {0} : step[len][fold] = [at \in Nat |-> FoldTurn(fold, leaf, proof, len, at)]
  BY <1>7 DEF step
<1>9. FoldBy(fold, leaf, proof)
  BY <1>7, <1>8 DEF FoldBy, Solves
<1> QED BY <1>9

\* What fold() comes to in a range is what it came to below, with one word more.
LEMMA FoldedIs ==
    ASSUME NEW leaf, NEW S, NEW proof \in Seq(S), NEW len \in Nat \ {0}, NEW at \in Nat
    PROVE  Folded(leaf, proof)[len][at] = FoldTurn(Folded(leaf, proof), leaf, proof, len, at)
<1>1. Folded(leaf, proof) = CHOOSE fold : FoldBy(fold, leaf, proof)
  BY DEF Folded, FoldBy, FoldTurn, Lifted
<1>2. FoldBy(Folded(leaf, proof), leaf, proof)
  BY <1>1, FoldExists
<1> DEFINE fold == Folded(leaf, proof)
<1>3. FoldBy(fold, leaf, proof)
  BY <1>2
<1> HIDE DEF fold
<1>4. fold[len][at] = FoldTurn(fold, leaf, proof, len, at)
  BY <1>3 DEF FoldBy
<1> QED BY <1>4 DEF fold

-----------------------------------------------------------------------------
\* Folds that are right about a path: none when words are missing, and else the
\* hash for the right leaf and the right words only.
RightFolds(folds, leaf, proof, right, path, hash) ==
    IF Len(path) > Len(proof) THEN folds = {}
    ELSE \E node : /\ folds = {[used |-> Len(path), node |-> node]}
                   /\ node = hash <=> leaf = right /\ Uses(proof, Len(path), path)

\* What fold() should come to for a range that holds the leaf's place.
FoldsRight(folds, leaf, proof, leaves, index, len, start) ==
    RightFolds(folds, leaf, proof, leaves[index + 1], InclusionPath(leaves, index)[len][start],
               RangeHash(leaves)[len][start])

\* One level up, on either side.
LEMMA FoldedUp ==
    ASSUME NEW S, NEW path \in Seq(S), NEW word \in S, NEW T, NEW proof \in Seq(T),
           NEW leaf, NEW right, NEW left \in BOOLEAN, NEW below, NEW hash,
           RightFolds(below, leaf, proof, right, path, hash)
    PROVE  RightFolds(Lifted(below, proof, left), leaf, proof, right, Append(path, word),
                      IF left THEN HashNode(hash, word) ELSE HashNode(word, hash))
<1> DEFINE folds == Lifted(below, proof, left)
<1> DEFINE longer == Append(path, word)
           whole  == IF left THEN HashNode(hash, word) ELSE HashNode(word, hash)
<1>1. Len(path) \in Nat /\ Len(proof) \in Nat /\ Len(longer) = Len(path) + 1
  BY AppendProperties
<1>2. CASE Len(path) >= Len(proof)
  <2>1. Len(longer) > Len(proof)
    BY <1>1, <1>2
  <2>2. folds = {}
    <3>1. {b \in below : b.used < Len(proof)} = {}
      <4>1. CASE Len(path) > Len(proof)
        BY <4>1 DEF RightFolds
      <4>2. CASE ~ (Len(path) > Len(proof))
        <5>1. PICK node : below = {[used |-> Len(path), node |-> node]}
          BY <4>2 DEF RightFolds
        <5>2. [used |-> Len(path), node |-> node].used = Len(path)
          OBVIOUS
        <5> QED BY <1>1, <1>2, <5>1, <5>2
      <4> QED BY <4>1, <4>2
    <3> QED BY <3>1 DEF Lifted
  <2> HIDE DEF longer, folds
  <2> QED BY <2>1, <2>2 DEF RightFolds, folds, longer
<1>3. CASE Len(path) < Len(proof)
  <2>1. ~ (Len(path) > Len(proof)) /\ ~ (Len(longer) > Len(proof))
    BY <1>1, <1>3
  <2>2. PICK node : /\ below = {[used |-> Len(path), node |-> node]}
                    /\ node = hash <=> leaf = right /\ Uses(proof, Len(path), path)
    BY <2>1 DEF RightFolds
  <2> DEFINE b == [used |-> Len(path), node |-> node]
             above == IF left THEN HashNode(node, proof[Len(path) + 1])
                      ELSE HashNode(proof[Len(path) + 1], node)
  <2>3. b.used = Len(path) /\ b.node = node
    OBVIOUS
  <2>4. below = {b}
    BY <2>2
  <2> HIDE DEF b
  <2>5. {x \in below : x.used < Len(proof)} = {b}
    BY <1>3, <2>3, <2>4
  <2>6. folds = {[used |-> Len(longer), node |-> above]}
    <3>1. folds = {[used |-> b.used + 1,
                    node |-> IF left THEN HashNode(b.node, proof[b.used + 1])
                             ELSE HashNode(proof[b.used + 1], b.node)]}
      BY <2>5 DEF Lifted
    <3> HIDE DEF longer
    <3> QED BY <1>1, <2>3, <3>1
  <2>7. above = whole <=> node = hash /\ proof[Len(path) + 1] = word
    BY DEF HashNode
  <2>8. Uses(proof, Len(path) + 1, longer) <=> Uses(proof, Len(path), path) /\ proof[Len(path) + 1] = word
    BY <1>1, UsesMore
  <2> HIDE DEF above, whole, longer, folds
  <2>9. above = whole <=> leaf = right /\ Uses(proof, Len(longer), longer)
    BY <1>1, <2>2, <2>7, <2>8
  <2> QED BY <2>1, <2>6, <2>9 DEF RightFolds, longer, whole, folds
<1>4. Len(path) >= Len(proof) \/ Len(path) < Len(proof)
  BY <1>1
<1> QED BY <1>2, <1>3, <1>4

\* fold() comes to that in every range that holds the leaf's place.
LEMMA FoldedRight ==
    ASSUME NEW leaf, NEW S, NEW proof \in Seq(S), NEW leaves, NEW index \in Nat,
           NEW len \in Nat \ {0}, NEW start \in Nat, start <= index, index < start + len
    PROVE  FoldsRight(Folded(leaf, proof)[len][index - start], leaf, proof, leaves, index, len, start)
<1> DEFINE fold == Folded(leaf, proof)
           Good == {l \in Nat : l # 0 => \A s \in Nat : s <= index /\ index < s + l =>
                      FoldsRight(fold[l][index - s], leaf, proof, leaves, index, l, s)}
<1>1. ASSUME NEW l \in Nat, \A k \in Nat : k < l => k \in Good
      PROVE  l \in Good
  <2> SUFFICES ASSUME l # 0, NEW s \in Nat, s <= index, index < s + l
               PROVE  FoldsRight(fold[l][index - s], leaf, proof, leaves, index, l, s)
    OBVIOUS
  <2> DEFINE at == index - s
             T  == RangeHashes(leaves)
             path(m, t) == InclusionPath(leaves, index)[m][t]
             hash(m, t) == RangeHash(leaves)[m][t]
  <2>1. l \in Nat \ {0} /\ at \in Nat /\ at < l
    OBVIOUS
  <2>2. fold[l][at] = FoldTurn(fold, leaf, proof, l, at)
    BY <2>1, FoldedIs
  <2>3. path(l, s) = PathTurn(InclusionPath(leaves, index), leaves, index, l, s)
    BY <2>1, InclusionPathIs
  <2>4. hash(l, s) = Turn(RangeHash(leaves), leaves, l, s)
    BY <2>1, RangeHashIs
  <2> HIDE DEF fold
  <2>5. CASE l = 1
    <3>1. s = index
      BY <2>1, <2>5
    <3>2. path(l, s) = <<>> /\ hash(l, s) = leaves[index + 1]
      BY <2>3, <2>4, <2>5, <3>1 DEF PathTurn, Turn
    <3>3. fold[l][at] = {[used |-> 0, node |-> leaf]}
      BY <2>2, <2>5 DEF FoldTurn
    <3>4. Uses(proof, 0, <<>>) /\ Len(<<>>) = 0 /\ ~ (0 > Len(proof))
      BY DEF Uses
    <3> QED BY <3>2, <3>3, <3>4 DEF FoldsRight, RightFolds
  <2>6. CASE l # 1
    <3> DEFINE k == Split(l)
    <3>1. /\ k \in 1 .. l - 1 /\ l - k \in 1 .. l - 1 /\ k \in Nat \ {0} /\ l - k \in Nat \ {0}
      BY <2>1, <2>6, SplitParts
    <3> HIDE DEF k, Good
    <3>2. s + k \in Nat /\ k < l /\ l - k < l
      BY <2>1, <3>1
    <3>3. CASE at < k
      <4>1. FoldsRight(fold[k][at], leaf, proof, leaves, index, k, s)
        <5>1. k \in Good /\ s <= index /\ index < s + k /\ k # 0
          BY <1>1, <2>1, <3>1, <3>2, <3>3
        <5> QED BY <5>1 DEF Good
      <4>2. path(k, s) \in Seq(T) /\ hash(l - k, s + k) \in T
        BY <3>1, <3>2, InclusionPathType, RangeHashIn
      <4>3. /\ path(l, s) = Append(path(k, s), hash(l - k, s + k))
            /\ hash(l, s) = HashNode(hash(k, s), hash(l - k, s + k))
        BY <2>3, <2>4, <2>6, <3>3 DEF PathTurn, Turn, k
      <4>4. fold[l][at] = Lifted(fold[k][at], proof, TRUE)
        BY <2>2, <2>6, <3>3 DEF FoldTurn, k
      <4> HIDE DEF at, T, path, hash
      <4>5. RightFolds(fold[k][at], leaf, proof, leaves[index + 1], path(k, s), hash(k, s))
        BY <4>1 DEF FoldsRight, path, hash
      <4>6. RightFolds(Lifted(fold[k][at], proof, TRUE), leaf, proof, leaves[index + 1], Append(path(k, s), hash(l - k, s + k)),
                       IF TRUE THEN HashNode(hash(k, s), hash(l - k, s + k)) ELSE HashNode(hash(l - k, s + k), hash(k, s)))
        <5>1. TRUE \in BOOLEAN
          OBVIOUS
        <5> QED BY ONLY proof \in Seq(S), <4>2, <4>5, <5>1, FoldedUp
      <4> QED BY <4>3, <4>4, <4>6 DEF FoldsRight, path, hash, at
    <3>4. CASE ~ (at < k)
      <4>0. at - k \in Nat /\ at - k = index - (s + k)
        BY <2>1, <3>1, <3>4
      <4>1. FoldsRight(fold[l - k][at - k], leaf, proof, leaves, index, l - k, s + k)
        <5>1. l - k \in Good /\ s + k <= index /\ index < (s + k) + (l - k) /\ l - k # 0
          BY <1>1, <2>1, <3>1, <3>2, <3>4
        <5> QED BY <3>2, <4>0, <5>1 DEF Good
      <4>2. path(l - k, s + k) \in Seq(T) /\ hash(k, s) \in T
        BY <3>1, <3>2, InclusionPathType, RangeHashIn
      <4>3. /\ path(l, s) = Append(path(l - k, s + k), hash(k, s))
            /\ hash(l, s) = HashNode(hash(k, s), hash(l - k, s + k))
        BY <2>3, <2>4, <2>6, <3>4 DEF PathTurn, Turn, k
      <4>4. fold[l][at] = Lifted(fold[l - k][at - k], proof, FALSE)
        <5>1. (at < k) = FALSE
          BY <3>4
        <5> HIDE DEF at
        <5>2. fold[l][at] = Lifted(IF at < k THEN fold[k][at] ELSE fold[l - k][at - k], proof, at < k)
          BY <2>2, <2>6 DEF FoldTurn, k
        <5> QED BY ONLY <5>1, <5>2
      <4> HIDE DEF at, T, path, hash
      <4>5. RightFolds(fold[l - k][at - k], leaf, proof, leaves[index + 1], path(l - k, s + k), hash(l - k, s + k))
        BY <4>1 DEF FoldsRight, path, hash
      <4>6. RightFolds(Lifted(fold[l - k][at - k], proof, FALSE), leaf, proof, leaves[index + 1], Append(path(l - k, s + k), hash(k, s)),
                       IF FALSE THEN HashNode(hash(l - k, s + k), hash(k, s)) ELSE HashNode(hash(k, s), hash(l - k, s + k)))
        <5>1. FALSE \in BOOLEAN
          OBVIOUS
        <5> QED BY ONLY proof \in Seq(S), <4>2, <4>5, <5>1, FoldedUp
      <4> QED BY <4>3, <4>4, <4>6 DEF FoldsRight, path, hash, at
    <3> QED BY <3>3, <3>4
  <2> QED BY <2>5, <2>6
<1>2. Good \in SUBSET Nat
  OBVIOUS
<1> HIDE DEF Good
<1>3. len \in Good
  BY <1>1, <1>2, AllNumbers
<1> QED BY <1>3 DEF Good

\* Who accepts a leaf for its own place and with its own proof only.
AcceptedRightly(leaf, leaves, index, size, proof) ==
    IncludedIn(leaf, index, size, proof, RangeHash(leaves)[size][0])
      <=> leaf = leaves[index + 1] /\ proof = InclusionPath(leaves, index)[size][0]

\* The report's verifier accepts a leaf with the proof that the log makes for its
\* index and size, and with nothing else.
LEMMA IncludedIs ==
    ASSUME NEW leaf, NEW S, NEW proof \in Seq(S), NEW leaves, NEW index \in Nat, NEW size \in Nat \ {0},
           index < size
    PROVE  AcceptedRightly(leaf, leaves, index, size, proof)
<1> DEFINE path == InclusionPath(leaves, index)[size][0]
           folds == Folded(leaf, proof)[size][index]
           root == RangeHash(leaves)[size][0]
<1>1. FoldsRight(folds, leaf, proof, leaves, index, size, 0)
  <2>1. 0 \in Nat /\ 0 <= index /\ index < 0 + size /\ index - 0 = index
    OBVIOUS
  <2>2. FoldsRight(Folded(leaf, proof)[size][index - 0], leaf, proof, leaves, index, size, 0)
    BY <2>1, FoldedRight
  <2> QED BY <2>1, <2>2
<1>2. path \in Seq(RangeHashes(leaves)) /\ Len(path) \in Nat /\ Len(proof) \in Nat
  <2>1. path \in Seq(RangeHashes(leaves))
    BY InclusionPathType
  <2> HIDE DEF path
  <2> QED BY <2>1
<1> DEFINE accepted == IncludedIn(leaf, index, size, proof, root)
           exact    == leaf = leaves[index + 1] /\ proof = path
<1>3. accepted <=> folds = {[node |-> root, used |-> Len(proof)]}
  BY DEF IncludedIn
<1> HIDE DEF folds, root, accepted
<1>4. IF Len(path) > Len(proof) THEN folds = {}
      ELSE \E node : /\ folds = {[used |-> Len(path), node |-> node]}
                     /\ node = root <=> leaf = leaves[index + 1] /\ Uses(proof, Len(path), path)
  BY <1>1 DEF FoldsRight, RightFolds, root
<1> HIDE DEF path
<1>5. Uses(proof, Len(proof), path) <=> proof = path
  BY <1>2, UsesAll
<1>8. Len(path) # Len(proof) => proof # path
  OBVIOUS
<1>6. CASE Len(path) > Len(proof)
  <2>1. folds = {}
    BY <1>4, <1>6
  <2>2. ~accepted
    BY <1>3, <2>1
  <2>3. Len(path) # Len(proof)
    BY <1>2, <1>6
  <2> QED BY <1>8, <2>2, <2>3 DEF AcceptedRightly, accepted, path, root
<1>7. CASE ~ (Len(path) > Len(proof))
  <2>1. PICK node : /\ folds = {[used |-> Len(path), node |-> node]}
                    /\ node = root <=> leaf = leaves[index + 1] /\ Uses(proof, Len(path), path)
    BY <1>4, <1>7
  <2>2. folds = {[node |-> root, used |-> Len(proof)]} <=> Len(path) = Len(proof) /\ node = root
    <3>1. \A x, y : {x} = {y} <=> x = y
      OBVIOUS
    <3>2. [used |-> Len(path), node |-> node] = [node |-> root, used |-> Len(proof)]
             <=> Len(path) = Len(proof) /\ node = root
      OBVIOUS
    <3> QED BY ONLY <2>1, <3>1, <3>2
  <2>3. accepted <=> exact
    BY <1>3, <1>5, <1>8, <2>1, <2>2
  <2> QED BY <2>3 DEF AcceptedRightly, accepted, path, root
<1> QED BY <1>6, <1>7

-----------------------------------------------------------------------------
(* verifyInclusion, by a loop over the levels: MerkleLog.sol *)

\* The hashes that a proof about the log can have.
LogHashes == UNION {RangeHashes(First(Log, size)) : size \in Size}

\* The log has its first leaves, as many as are asked for.
LEMMA FirstIs ==
    ASSUME NEW size \in Size
    PROVE  /\ size \in Nat \ {0} /\ Len(First(Log, size)) = size /\ First(Log, size) # <<>>
           /\ \A k \in 1 .. size : First(Log, size)[k] = Log[k]
           /\ LogRoot[size] = RangeHash(First(Log, size))[size][0]
<1> DEFINE own == {Log[k] : k \in DOMAIN Log}
           leaves == First(Log, size)
<1>1. Log \in Seq(own) /\ Len(Log) \in Nat /\ size \in Nat \ {0} /\ size <= Len(Log)
  BY LogAssumption DEF Size
<1>2. \A k \in 1 .. size : Log[k] \in own
  BY <1>1
<1> HIDE DEF own
<1>3. Len(leaves) = size /\ \A k \in 1 .. size : leaves[k] = Log[k]
  <2>1. /\ Len(SubSeq(Log, 1, size)) = IF 1 <= size THEN size - 1 + 1 ELSE 0
        /\ \A k \in 1 .. size - 1 + 1 : SubSeq(Log, 1, size)[k] = Log[1 + k - 1]
    BY <1>1, <1>2, SubSeqProperties
  <2> QED BY <1>1, <2>1 DEF First
<1>4. leaves # <<>>
  BY <1>1, <1>3
<1>5. LogRoot[size] = RootOf(leaves)
  BY DEF LogRoot
<1> QED BY <1>1, <1>3, <1>4, <1>5 DEF RootOf

\* A question about inclusion, and what proves it.
IsInclusion(q) == q.size \in Size /\ q.index \in Nat /\ q.proof \in Seq(LogHashes)

ExactInclusion(q) ==
    /\ q.index < q.size
    /\ q.leaf = Log[q.index + 1]
    /\ q.proof = Inclusion[q.size][q.index]

\* A proof is the one the log serves exactly when it is the path of the range.
LEMMA ExactInclusionIs ==
    ASSUME NEW q, IsInclusion(q), q.index < q.size
    PROVE  ExactInclusion(q) <=> /\ q.leaf = First(Log, q.size)[q.index + 1]
                                 /\ q.proof = InclusionPath(First(Log, q.size), q.index)[q.size][0]
<1>1. q.size \in Size /\ q.size \in Nat \ {0} /\ q.index \in 0 .. q.size - 1 /\ q.index + 1 \in 1 .. q.size
  BY FirstIs DEF IsInclusion
<1>2. First(Log, q.size)[q.index + 1] = Log[q.index + 1] /\ Len(First(Log, q.size)) = q.size
  BY <1>1, FirstIs
<1>3. Inclusion[q.size][q.index] = InclusionPath(First(Log, q.size), q.index)[q.size][0]
  BY <1>1, <1>2 DEF Inclusion, InclusionProof
<1> QED BY <1>2, <1>3 DEF ExactInclusion

\* The verifier of a report accepts that and nothing else.
LEMMA ReportInclusionIs ==
    ASSUME NEW q, IsInclusion(q)
    PROVE  ReportInclusion(q) <=> ExactInclusion(q)
<1>1. q.size \in Nat \ {0} /\ q.index \in Nat /\ LogRoot[q.size] = RangeHash(First(Log, q.size))[q.size][0]
  BY FirstIs DEF IsInclusion
<1>2. CASE q.index < q.size
  <2>1. q.proof \in Seq(LogHashes)
    BY DEF IsInclusion
  <2> DEFINE leaves == First(Log, q.size)
             index  == q.index
             size   == q.size
             proof  == q.proof
             leaf   == q.leaf
  <2>2. proof \in Seq(LogHashes) /\ index \in Nat /\ size \in Nat \ {0} /\ index < size
    BY <1>1, <1>2, <2>1
  <2> HIDE DEF leaves, index, size, proof, leaf
  <2>6. AcceptedRightly(leaf, leaves, index, size, proof)
    BY ONLY <2>2, IncludedIs
  <2>3. IncludedIn(leaf, index, size, proof, RangeHash(leaves)[size][0])
           <=> leaf = leaves[index + 1] /\ proof = InclusionPath(leaves, index)[size][0]
    BY <2>6 DEF AcceptedRightly
  <2>4. ReportInclusion(q) <=> IncludedIn(leaf, index, size, proof, RangeHash(leaves)[size][0])
    BY <1>1 DEF ReportInclusion, leaves, index, size, proof, leaf
  <2>5. ExactInclusion(q) <=> leaf = leaves[index + 1] /\ proof = InclusionPath(leaves, index)[size][0]
    BY <1>2, ExactInclusionIs DEF leaves, index, size, proof, leaf
  <2> QED BY <2>3, <2>4, <2>5
<1>3. CASE ~ (q.index < q.size)
  BY <1>3 DEF ReportInclusion, IncludedIn, ExactInclusion
<1> QED BY <1>2, <1>3

\* Where the loop is, when its nodes stand for w leaves.
InclusionLevel(q, node, place, count, used, w) ==
    LET leaves == First(Log, q.size)
        path   == PathAt(leaves, q.index, q.size, w, place) IN
    /\ place * w <= q.index /\ q.index < place * w + w
    /\ (count - 1) * w < q.size /\ q.size <= count * w
    /\ used = Len(path) /\ used <= Len(q.proof)
    /\ node = NodeAt(leaves, q.size, w, place)
         <=> q.leaf = leaves[q.index + 1] /\ Uses(q.proof, used, path)

InclusionAt(q, node, place, count, used) ==
    /\ place \in Nat /\ count \in Nat \ {0} /\ used \in Nat
    /\ \E w \in Powers : InclusionLevel(q, node, place, count, used, w)

\* At first they are the leaves.
LEMMA InclusionBegins ==
    ASSUME NEW q, IsInclusion(q), q.index < q.size
    PROVE  InclusionAt(q, q.leaf, q.index, q.size, 0)
<1>1. q.index \in Nat /\ q.size \in Nat /\ q.size \in Nat \ {0} /\ 1 \in Powers /\ Len(q.proof) \in Nat
  BY FirstIs, PowersAre DEF IsInclusion
<1> DEFINE leaves == First(Log, q.size)
<1>2. /\ q.index * 1 <= q.index /\ q.index < q.index * 1 + 1
      /\ NodeAt(leaves, q.size, 1, q.index) = leaves[q.index + 1]
      /\ PathAt(leaves, q.index, q.size, 1, q.index) = <<>>
  BY <1>1, LowestLevel
<1>3. (q.size - 1) * 1 < q.size /\ q.size <= q.size * 1
  BY <1>1
<1>4. Uses(q.proof, 0, <<>>) /\ Len(<<>>) = 0 /\ 0 <= Len(q.proof)
  BY <1>1 DEF Uses
<1> HIDE DEF leaves
<1>5. InclusionLevel(q, q.leaf, q.index, q.size, 0, 1)
  BY <1>2, <1>3, <1>4 DEF InclusionLevel, leaves
<1> QED BY <1>1, <1>5 DEF InclusionAt

\* There is a next node exactly when the level goes on.
LEMMA CountHalves ==
    ASSUME NEW size \in Nat, NEW count \in Nat \ {0}, NEW w \in Nat, NEW place \in Nat,
           (count - 1) * w < size, size <= count * w
    PROVE  /\ place + 1 < count <=> (place + 1) * w < size
           /\ ((count + 1) \div 2 - 1) * (2 * w) < size /\ size <= ((count + 1) \div 2) * (2 * w)
           /\ (count + 1) \div 2 \in Nat \ {0}
<1>1. place + 1 < count => (place + 1) * w < size
  <2> SUFFICES ASSUME place + 1 < count PROVE (place + 1) * w < size
    OBVIOUS
  <2>1. place + 1 \in Nat /\ count - 1 \in Nat /\ place + 1 <= count - 1
    OBVIOUS
  <2>2. (place + 1) * w <= (count - 1) * w /\ (place + 1) * w \in Nat /\ (count - 1) * w \in Nat
    BY <2>1, TimesOrder
  <2> QED BY <2>2
<1>2. ~ (place + 1 < count) => ~ ((place + 1) * w < size)
  <2> SUFFICES ASSUME ~ (place + 1 < count) PROVE ~ ((place + 1) * w < size)
    OBVIOUS
  <2>1. place + 1 \in Nat /\ count <= place + 1
    OBVIOUS
  <2>2. count * w <= (place + 1) * w /\ (place + 1) * w \in Nat /\ count * w \in Nat
    BY <2>1, TimesOrder
  <2> QED BY <2>2
<1> DEFINE h == (count + 1) \div 2
<1>3. h \in Nat \ {0} /\ count <= 2 * h /\ 2 * h <= count + 1
  OBVIOUS
<1> HIDE DEF h
<1>4. size <= h * (2 * w)
  <2>1. count * w <= (2 * h) * w /\ count * w \in Nat /\ (2 * h) * w \in Nat
    BY <1>3, TimesOrder
  <2>2. (2 * h) * w = h * (2 * w)
    BY <1>3
  <2> QED BY <2>1, <2>2
<1>5. (h - 1) * (2 * w) < size
  <2>1. 2 * h - 2 \in Nat /\ count - 1 \in Nat /\ 2 * h - 2 <= count - 1
    BY <1>3
  <2>2. (2 * h - 2) * w <= (count - 1) * w /\ (count - 1) * w \in Nat /\ (2 * h - 2) * w \in Nat
    BY <2>1, TimesOrder
  <2>3. (2 * h - 2) * w = (h - 1) * (2 * w)
    BY <1>3
  <2> QED BY <2>2, <2>3
<1> QED BY <1>1, <1>2, <1>3, <1>4, <1>5 DEF h

\* One turn of the loop.
LEMMA InclusionTurn ==
    ASSUME NEW q, IsInclusion(q), q.index < q.size,
           NEW node, NEW place, NEW count, NEW used, InclusionAt(q, node, place, count, used),
           NEW takes, takes <=> place % 2 = 1 \/ place + 1 < count,
           takes => used < Len(q.proof),
           NEW next, next = (IF takes
                             THEN IF place % 2 = 1 THEN HashNode(q.proof[used + 1], node)
                                  ELSE HashNode(node, q.proof[used + 1])
                             ELSE node),
           NEW more, more = (IF takes THEN used + 1 ELSE used)
    PROVE  InclusionAt(q, next, place \div 2, (count + 1) \div 2, more)
<1> DEFINE leaves == First(Log, q.size)
           half   == place \div 2
           rest   == (count + 1) \div 2
<1>1. PICK w \in Powers : InclusionLevel(q, node, place, count, used, w)
  BY DEF InclusionAt
<1>2. /\ w \in Nat \ {0} /\ 2 * w \in Powers
      /\ place \in Nat /\ count \in Nat \ {0} /\ used \in Nat /\ half \in Nat
      /\ q.size \in Nat \ {0} /\ q.index \in Nat /\ Len(q.proof) \in Nat
  <2>1. w \in Nat \ {0} /\ 2 * w \in Powers
    BY PowersAre
  <2>2. q.size \in Nat \ {0} /\ q.index \in Nat /\ Len(q.proof) \in Nat
    BY FirstIs DEF IsInclusion
  <2>3. place \in Nat /\ count \in Nat \ {0} /\ used \in Nat
    BY DEF InclusionAt
  <2> QED BY <2>1, <2>2, <2>3
<1> DEFINE low  == PathAt(leaves, q.index, q.size, w, place)
           up   == PathAt(leaves, q.index, q.size, 2 * w, half)
           here == NodeAt(leaves, q.size, w, place)
           over == NodeAt(leaves, q.size, 2 * w, half)
           left == NodeAt(leaves, q.size, w, place - 1)
           right == NodeAt(leaves, q.size, w, place + 1)
           own   == q.leaf = leaves[q.index + 1]
<1>3. /\ place * w <= q.index /\ q.index < place * w + w
      /\ (count - 1) * w < q.size /\ q.size <= count * w
      /\ used = Len(low) /\ used <= Len(q.proof)
      /\ node = here <=> own /\ Uses(q.proof, used, low)
  BY <1>1 DEF InclusionLevel
<1>4. /\ place + 1 < count <=> (place + 1) * w < q.size
      /\ (rest - 1) * (2 * w) < q.size /\ q.size <= rest * (2 * w)
      /\ rest \in Nat \ {0}
  BY <1>2, <1>3, CountHalves
<1>5. /\ half * (2 * w) <= q.index /\ q.index < half * (2 * w) + 2 * w
      /\ place % 2 = 1 => over = HashNode(left, here) /\ up = Append(low, left)
      /\ place % 2 # 1 /\ (place + 1) * w < q.size => over = HashNode(here, right) /\ up = Append(low, right)
      /\ place % 2 # 1 /\ ~ ((place + 1) * w < q.size) => over = here /\ up = low
  <2>1. half = place \div 2
    OBVIOUS
  <2>2. q.index < q.size /\ q.size \in Nat
    BY <1>2
  <2> HIDE DEF leaves, half
  <2>3. OneLevelUp(leaves, q.index, q.size, w, place, half)
    BY ONLY w \in Powers, <1>2, <1>3, <2>1, <2>2, LevelUp
  <2> QED BY <2>3 DEF OneLevelUp
<1>6. low \in Seq(RangeHashes(leaves)) /\ Len(low) \in Nat
  <2>1. place * w < q.size
    BY <1>2, <1>3
  <2> QED BY <1>2, <2>1, PathAtType
<1>7. place % 2 = 1 => left \in RangeHashes(leaves)
  <2> SUFFICES ASSUME place % 2 = 1 PROVE left \in RangeHashes(leaves)
    OBVIOUS
  <2>1. (place - 1) * w < q.size /\ place - 1 \in Nat
    <3>1. /\ place * w = half * (2 * w) + w /\ (place - 1) * w = half * (2 * w) /\ place - 1 \in Nat
          /\ half * (2 * w) \in Nat
      BY <1>2, HalfPlace
    <3> QED BY <1>2, <1>3, <3>1
  <2> QED BY <1>2, <2>1, NodeAtType
<1>8. (place + 1) * w < q.size => right \in RangeHashes(leaves)
  <2>1. place + 1 \in Nat /\ q.size \in Nat
    BY <1>2
  <2> QED BY <1>2, <2>1, NodeAtType
<1> HIDE DEF leaves, half, rest, low, up, here, over, left, right, own
<1>9. /\ more = Len(up) /\ more <= Len(q.proof) /\ more \in Nat
      /\ next = over <=> own /\ Uses(q.proof, more, up)
  <2>1. CASE place % 2 = 1
    <3>1. next = over <=> q.proof[used + 1] = left /\ node = here
      BY <1>5, <2>1 DEF HashNode
    <3>2. Uses(q.proof, used + 1, up) <=> Uses(q.proof, used, low) /\ q.proof[used + 1] = left
      <4>1. low \in Seq(RangeHashes(leaves)) /\ left \in RangeHashes(leaves) /\ used \in Nat
        BY <1>2, <1>6, <1>7, <2>1
      <4>2. Uses(q.proof, used + 1, Append(low, left)) <=> Uses(q.proof, used, low) /\ q.proof[used + 1] = left
        <5> DEFINE S     == RangeHashes(leaves)
                   proof == q.proof
        <5>1. low \in Seq(S) /\ left \in S /\ used \in Nat
          BY <4>1
        <5> HIDE DEF S, proof
        <5>2. Uses(proof, used + 1, Append(low, left)) <=> Uses(proof, used, low) /\ proof[used + 1] = left
          BY <5>1, UsesMore
        <5> QED BY <5>2 DEF proof
      <4>3. up = Append(low, left)
        BY <1>5, <2>1
      <4> QED BY <4>2, <4>3
    <3>3. Len(up) = Len(low) + 1
      BY <1>5, <1>6, <1>7, <2>1, AppendProperties
    <3> QED BY <1>2, <1>3, <2>1, <3>1, <3>2, <3>3
  <2>2. CASE place % 2 # 1 /\ place + 1 < count
    <3>1. next = over <=> q.proof[used + 1] = right /\ node = here
      BY <1>4, <1>5, <2>2 DEF HashNode
    <3>2. Uses(q.proof, used + 1, up) <=> Uses(q.proof, used, low) /\ q.proof[used + 1] = right
      <4>1. low \in Seq(RangeHashes(leaves)) /\ right \in RangeHashes(leaves) /\ used \in Nat
        BY <1>2, <1>6, <1>4, <1>8, <2>2
      <4>2. Uses(q.proof, used + 1, Append(low, right)) <=> Uses(q.proof, used, low) /\ q.proof[used + 1] = right
        <5> DEFINE S     == RangeHashes(leaves)
                   proof == q.proof
        <5>1. low \in Seq(S) /\ right \in S /\ used \in Nat
          BY <4>1
        <5> HIDE DEF S, proof
        <5>2. Uses(proof, used + 1, Append(low, right)) <=> Uses(proof, used, low) /\ proof[used + 1] = right
          BY <5>1, UsesMore
        <5> QED BY <5>2 DEF proof
      <4>3. up = Append(low, right)
        BY <1>5, <1>4, <2>2
      <4> QED BY <4>2, <4>3
    <3>3. Len(up) = Len(low) + 1
      BY <1>4, <1>5, <1>6, <1>8, <2>2, AppendProperties
    <3> QED BY <1>2, <1>3, <2>2, <3>1, <3>2, <3>3
  <2>3. CASE place % 2 # 1 /\ ~ (place + 1 < count)
    BY <1>2, <1>3, <1>4, <1>5, <2>3
  <2> QED BY <2>1, <2>2, <2>3
<1>10. InclusionLevel(q, next, half, rest, more, 2 * w)
  BY <1>4, <1>5, <1>9 DEF InclusionLevel, leaves, up, over, own
<1>11. InclusionAt(q, next, half, rest, more)
  BY <1>2, <1>4, <1>9, <1>10 DEF InclusionAt
<1> QED BY <1>11 DEF half, rest

\* The answer at the end of the loop.
LEMMA InclusionEnds ==
    ASSUME NEW q, IsInclusion(q), q.index < q.size,
           NEW node, NEW place, NEW used, InclusionAt(q, node, place, 1, used)
    PROVE  IF used = Len(q.proof) THEN node = LogRoot[q.size] <=> ExactInclusion(q)
           ELSE ~ExactInclusion(q)
<1> DEFINE leaves == First(Log, q.size)
           path   == InclusionPath(leaves, q.index)[q.size][0]
<1>1. PICK w \in Powers : InclusionLevel(q, node, place, 1, used, w)
  BY DEF InclusionAt
<1>2. /\ w \in Nat \ {0} /\ place \in Nat /\ used \in Nat
      /\ q.size \in Nat /\ q.index \in Nat /\ LogRoot[q.size] = RangeHash(leaves)[q.size][0]
  <2>1. q.size \in Nat /\ q.index \in Nat /\ LogRoot[q.size] = RangeHash(leaves)[q.size][0]
    BY FirstIs DEF IsInclusion
  <2> QED BY <2>1, PowersAre DEF InclusionAt
<1>3. place * w <= q.index /\ q.size <= w
  BY <1>1, <1>2 DEF InclusionLevel
<1>4. /\ NodeAt(leaves, q.size, w, place) = RangeHash(leaves)[q.size][0]
      /\ PathAt(leaves, q.index, q.size, w, place) = path
  BY <1>2, <1>3, TopLevel
<1>5. /\ used = Len(path)
      /\ node = LogRoot[q.size] <=> q.leaf = leaves[q.index + 1] /\ Uses(q.proof, used, path)
  BY <1>1, <1>2, <1>4 DEF InclusionLevel
<1>6. ExactInclusion(q) <=> q.leaf = leaves[q.index + 1] /\ q.proof = path
  BY ExactInclusionIs
<1>7. path \in Seq(RangeHashes(leaves)) /\ q.proof \in Seq(LogHashes)
  <2>1. q.size \in Nat \ {0}
    BY FirstIs DEF IsInclusion
  <2> QED BY <2>1, InclusionPathType DEF IsInclusion
<1> HIDE DEF path, leaves
<1>8. Uses(q.proof, Len(q.proof), path) <=> q.proof = path
  BY <1>7, UsesAll
<1>9. CASE used = Len(q.proof)
  BY <1>5, <1>6, <1>8, <1>9
<1>10. CASE used # Len(q.proof)
  BY <1>5, <1>6, <1>10
<1> QED BY <1>9, <1>10

\* Whoever runs out of words was not given that proof.
LEMMA InclusionRunsOut ==
    ASSUME NEW q, IsInclusion(q), q.index < q.size,
           NEW node, NEW place, NEW count, NEW used, InclusionAt(q, node, place, count, used),
           place % 2 = 1 \/ place + 1 < count, used >= Len(q.proof)
    PROVE  ~ExactInclusion(q)
<1> SUFFICES ASSUME ExactInclusion(q) PROVE FALSE
  OBVIOUS
<1> DEFINE leaves == First(Log, q.size)
           half   == place \div 2
           path   == InclusionPath(leaves, q.index)[q.size][0]
<1>1. PICK w \in Powers : InclusionLevel(q, node, place, count, used, w)
  BY DEF InclusionAt
<1>2. /\ w \in Nat \ {0} /\ 2 * w \in Powers
      /\ place \in Nat /\ count \in Nat \ {0} /\ used \in Nat /\ half \in Nat
      /\ q.size \in Nat /\ q.index \in Nat
  <2>1. w \in Nat \ {0} /\ 2 * w \in Powers
    BY PowersAre
  <2>2. q.size \in Nat /\ q.index \in Nat
    BY FirstIs DEF IsInclusion
  <2>3. place \in Nat /\ count \in Nat \ {0} /\ used \in Nat
    BY DEF InclusionAt
  <2> QED BY <2>1, <2>2, <2>3
<1> DEFINE low  == PathAt(leaves, q.index, q.size, w, place)
           up   == PathAt(leaves, q.index, q.size, 2 * w, half)
           left == NodeAt(leaves, q.size, w, place - 1)
           right == NodeAt(leaves, q.size, w, place + 1)
<1>3. /\ place * w <= q.index /\ q.index < place * w + w
      /\ (count - 1) * w < q.size /\ q.size <= count * w
      /\ used = Len(low)
  BY <1>1 DEF InclusionLevel
<1>4. place + 1 < count <=> (place + 1) * w < q.size
  BY <1>2, <1>3, CountHalves
<1>5. /\ half * (2 * w) <= q.index /\ q.index < half * (2 * w) + 2 * w
      /\ up = Append(low, left) \/ up = Append(low, right)
  <2>1. half = place \div 2
    OBVIOUS
  <2>2. q.index < q.size /\ (place % 2 = 1 \/ (place + 1) * w < q.size)
    BY <1>4
  <2> HIDE DEF leaves, half
  <2>3. /\ half * (2 * w) <= q.index /\ q.index < half * (2 * w) + 2 * w
        /\ place % 2 = 1 => up = Append(low, left)
        /\ place % 2 # 1 /\ (place + 1) * w < q.size => up = Append(low, right)
    <3>1. OneLevelUp(leaves, q.index, q.size, w, place, half)
      BY ONLY w \in Powers, <1>2, <1>3, <2>1, <2>2, LevelUp
    <3> QED BY <3>1 DEF OneLevelUp
  <2> QED BY <2>2, <2>3
<1>6. low \in Seq(RangeHashes(leaves)) /\ Len(low) \in Nat
  <2>1. place * w < q.size
    BY <1>2, <1>3
  <2> QED BY <1>2, <2>1, PathAtType
<1>7. Len(up) <= Len(path)
  BY <1>2, <1>5, PathAtGrows
<1>8. Len(up) = Len(low) + 1
  <2>1. \A x : Len(Append(low, x)) = Len(low) + 1
    <3> HIDE DEF low
    <3> QED BY <1>6
  <2> HIDE DEF low, up, left, right
  <2> QED BY <1>5, <2>1
<1>9. q.proof = path
  BY ExactInclusionIs
<1>10. Len(q.proof) \in Nat
  BY DEF IsInclusion
<1> HIDE DEF path, low, up
<1> QED BY <1>2, <1>3, <1>6, <1>7, <1>8, <1>9, <1>10

\* What is known of a question about inclusion, and of its answer.
InclusionInv ==
    /\ AtWork("leaf", "inclusion")
    /\ "leaf" \in DOMAIN asked =>
         /\ IsInclusion(asked)
         /\ asked.index < asked.size => InclusionAt(asked, fr, i, n, p)
         /\ pc = "answered" => (verdict = "true" <=> ExactInclusion(asked))

\* The question that is asked is one about inclusion.
LEMMA InclusionAsked ==
    ASSUME AskInclusion
    PROVE  /\ IsInclusion(asked') /\ pc' = "inclusion"
           /\ fr' = asked'.leaf /\ i' = asked'.index /\ n' = asked'.size /\ p' = p
<1>1. PICK leaf \in 1 .. Len(Log), index \in 0 .. Len(Log), size \in Size, of \in Size :
        \E at \in 0 .. of - 1 :
            \E proof \in Deliveries(Inclusion[of][at]) :
                /\ pc' = "inclusion"
                /\ asked' = [leaf |-> Log[leaf], index |-> index, size |-> size, proof |-> proof]
                /\ fr' = Log[leaf] /\ i' = index /\ n' = size /\ p' = p
  BY DEF AskInclusion, Call
<1>2. PICK at \in 0 .. of - 1 :
            \E proof \in Deliveries(Inclusion[of][at]) :
                /\ pc' = "inclusion"
                /\ asked' = [leaf |-> Log[leaf], index |-> index, size |-> size, proof |-> proof]
                /\ fr' = Log[leaf] /\ i' = index /\ n' = size /\ p' = p
  BY <1>1
<1>3. PICK proof \in Deliveries(Inclusion[of][at]) :
                /\ pc' = "inclusion"
                /\ asked' = [leaf |-> Log[leaf], index |-> index, size |-> size, proof |-> proof]
                /\ fr' = Log[leaf] /\ i' = index /\ n' = size /\ p' = p
  BY <1>2
<1>4. Inclusion[of][at] = InclusionPath(First(Log, of), at)[of][0] /\ of \in Nat \ {0}
  BY FirstIs DEF Inclusion, InclusionProof
<1>5. Inclusion[of][at] \in Seq(RangeHashes(First(Log, of)))
  BY <1>4, InclusionPathType
<1>6. proof \in Seq(RangeHashes(First(Log, of)))
  BY <1>5, DeliveriesAre
<1>7. RangeHashes(First(Log, of)) \subseteq LogHashes
  BY DEF LogHashes
<1>8. proof \in Seq(LogHashes)
  BY <1>6, <1>7
<1>9. index \in Nat
  BY <1>1
<1> QED BY <1>3, <1>8, <1>9 DEF IsInclusion

\* Every step of a question keeps it.
LEMMA InclusionInvKept ==
    ASSUME InclusionInv, IdleInv,
           \/ UNCHANGED vars \/ "leaf" \notin DOMAIN asked'
           \/ AskInclusion
           \/ "leaf" \in DOMAIN asked /\ (FoldInclusion \/ InclusionReverts \/ AnswerInclusion)
    PROVE  InclusionInv'
<1>1. CASE UNCHANGED vars
  BY <1>1 DEF InclusionInv, AtWork, vars, loop
<1>2. CASE "leaf" \notin DOMAIN asked'
  BY <1>2 DEF InclusionInv, AtWork
<1>3. CASE AskInclusion
  <2>1. /\ IsInclusion(asked') /\ pc' = "inclusion"
        /\ fr' = asked'.leaf /\ i' = asked'.index /\ n' = asked'.size /\ p' = 0
    BY <1>3, InclusionAsked DEF AskInclusion, IdleInv
  <2>2. asked'.index < asked'.size => InclusionAt(asked', fr', i', n', p')
    BY <2>1, InclusionBegins
  <2> QED BY <2>1, <2>2 DEF InclusionInv, AtWork
<1>4. CASE "leaf" \in DOMAIN asked /\ FoldInclusion
  <2>1. /\ pc' = "inclusion" /\ asked' = asked
        /\ IsInclusion(asked) /\ asked.index < asked.size /\ InclusionAt(asked, fr, i, n, p)
    BY <1>4 DEF FoldInclusion, InclusionInv
  <2> DEFINE takes == i % 2 = 1 \/ i + 1 < n
  <2>2. /\ fr' = (IF takes
                  THEN IF i % 2 = 1 THEN HashNode(asked.proof[p + 1], fr) ELSE HashNode(fr, asked.proof[p + 1])
                  ELSE fr)
        /\ p' = (IF takes THEN p + 1 ELSE p)
        /\ i' = i \div 2 /\ n' = (n + 1) \div 2
        /\ takes => ~ (p >= Len(asked.proof))
    BY <1>4 DEF FoldInclusion, Word, NoWord
  <2>3. p \in Nat /\ Len(asked.proof) \in Nat
    BY <2>1 DEF InclusionAt, IsInclusion
  <2>4. takes => p < Len(asked.proof)
    BY <2>2, <2>3
  <2>5. takes <=> i % 2 = 1 \/ i + 1 < n
    OBVIOUS
  <2> HIDE DEF takes
  <2>6. InclusionAt(asked, fr', i \div 2, (n + 1) \div 2, p')
    BY ONLY <2>1, <2>2, <2>4, <2>5, InclusionTurn
  <2> QED BY <2>1, <2>2, <2>6 DEF InclusionInv, AtWork
<1>5. CASE "leaf" \in DOMAIN asked /\ InclusionReverts
  <2>1. /\ pc' = "answered" /\ verdict' = "reverts"
        /\ asked' = asked /\ fr' = fr /\ i' = i /\ n' = n /\ p' = p
        /\ \/ asked.index >= asked.size
           \/ n > 1 /\ (i % 2 = 1 \/ i + 1 < n) /\ p >= Len(asked.proof)
           \/ n = 1 /\ p # Len(asked.proof)
    BY <1>5 DEF InclusionReverts, Answer, loop, NoWord
  <2>2. IsInclusion(asked) /\ (asked.index < asked.size => InclusionAt(asked, fr, i, n, p))
    BY <1>5 DEF InclusionInv
  <2>3. ~ExactInclusion(asked)
    <3>1. CASE ~ (asked.index < asked.size)
      BY <3>1 DEF ExactInclusion
    <3>2. CASE asked.index < asked.size
      <4>1. asked.index \in Nat /\ asked.size \in Nat
        BY <2>2, FirstIs DEF IsInclusion
      <4>2. CASE (i % 2 = 1 \/ i + 1 < n) /\ p >= Len(asked.proof)
        BY <2>2, <3>2, <4>2, InclusionRunsOut
      <4>3. CASE n = 1 /\ p # Len(asked.proof)
        <5>1. InclusionAt(asked, fr, i, 1, p)
          BY <2>2, <3>2, <4>3
        <5> QED BY <2>2, <3>2, <4>3, <5>1, InclusionEnds
      <4> QED BY <2>1, <3>2, <4>1, <4>2, <4>3
    <3> QED BY <3>1, <3>2
  <2> QED BY <2>1, <2>2, <2>3 DEF InclusionInv, AtWork
<1>6. CASE "leaf" \in DOMAIN asked /\ AnswerInclusion
  <2>1. /\ pc' = "answered" /\ asked' = asked /\ fr' = fr /\ i' = i /\ n' = n /\ p' = p
        /\ verdict' = (IF fr = LogRoot[asked.size] THEN "true" ELSE "false")
        /\ asked.index < asked.size /\ n = 1 /\ p = Len(asked.proof)
    BY <1>6 DEF AnswerInclusion, Accept, Answer, loop
  <2>2. IsInclusion(asked) /\ InclusionAt(asked, fr, i, 1, p) /\ InclusionAt(asked, fr, i, n, p)
    BY <1>6, <2>1 DEF InclusionInv
  <2>3. fr = LogRoot[asked.size] <=> ExactInclusion(asked)
    BY <2>1, <2>2, InclusionEnds
  <2> QED BY <2>1, <2>2, <2>3 DEF InclusionInv, AtWork
<1> QED BY <1>1, <1>2, <1>3, <1>4, <1>5, <1>6

-----------------------------------------------------------------------------
(* Where the prefix ends: Rise *)

\* What the recursion of Rise says of one node.
RiseTurn(rise, a, b) == IF a % 2 = 1 THEN rise[a \div 2][b \div 2] ELSE <<a, b>>

RiseBy(rise) == rise = [a \in Nat |-> [b \in Nat |-> RiseTurn(rise, a, b)]]

\* The same for a walk that skips the levels without a word.
ShiftTurn(shift, a, b) == IF a % 2 = 0 /\ a # 0 THEN shift[a \div 2][b \div 2] ELSE <<a \div 2, b \div 2>>

ShiftedBy(shift) == shift = [a \in Nat |-> [b \in Nat |-> ShiftTurn(shift, a, b)]]

\* Either looks at half the number only, if at any.
LEMMA RiseExists == \E rise : RiseBy(rise)
<1> DEFINE V == [Nat -> Nat \X Nat]
           step == [a \in Nat |-> [g \in [Nat -> V] |-> [b \in Nat |-> RiseTurn(g, a, b)]]]
<1>1. Nat \in SUBSET Nat /\ V # {}
  <2>1. [b \in Nat |-> <<0, 0>>] \in V
    OBVIOUS
  <2> QED BY <2>1
<1>2. ASSUME NEW a \in Nat, NEW g \in [Nat -> V], NEW b \in Nat
      PROVE  RiseTurn(g, a, b) \in Nat \X Nat
  <2>1. a \div 2 \in Nat /\ b \div 2 \in Nat
    OBVIOUS
  <2>2. g[a \div 2][b \div 2] \in Nat \X Nat
    BY <2>1
  <2> QED BY <2>2 DEF RiseTurn
<1>8. ASSUME NEW a \in Nat, NEW g \in [Nat -> V]
      PROVE  [b \in Nat |-> RiseTurn(g, a, b)] \in V
  BY <1>2
<1> HIDE DEF V
<1>3. step \in [Nat -> [[Nat -> V] -> V]]
  BY <1>8
<1>4. LooksBack(step, Nat, V)
  <2> SUFFICES ASSUME NEW a \in Nat, NEW g \in [Nat -> V], NEW h \in [Nat -> V],
                      \A k \in Nat : k < a => g[k] = h[k]
               PROVE  step[a][g] = step[a][h]
    BY DEF LooksBack
  <2>1. ASSUME NEW b \in Nat PROVE RiseTurn(g, a, b) = RiseTurn(h, a, b)
    <3>1. CASE a % 2 = 1
      <4>1. a \div 2 \in Nat /\ a \div 2 < a
        BY <3>1
      <4>2. g[a \div 2] = h[a \div 2]
        BY <4>1
      <4> QED BY <4>2 DEF RiseTurn
    <3>2. CASE a % 2 # 1
      BY <3>2 DEF RiseTurn
    <3> QED BY <3>1, <3>2
  <2> QED BY <2>1
<1> HIDE DEF step, V
<1>5. PICK rise \in [Nat -> V] : Solves(rise, step, Nat)
  BY <1>1, <1>3, <1>4, Recursion
<1>6. \A a \in Nat : step[a][rise] = [b \in Nat |-> RiseTurn(rise, a, b)]
  BY <1>5 DEF step
<1>7. RiseBy(rise)
  BY <1>5, <1>6 DEF RiseBy, Solves
<1> QED BY <1>7

\* The same for the walk.
LEMMA ShiftedExists == \E shift : ShiftedBy(shift)
<1> DEFINE V == [Nat -> Nat \X Nat]
           step == [a \in Nat |-> [g \in [Nat -> V] |-> [b \in Nat |-> ShiftTurn(g, a, b)]]]
<1>1. Nat \in SUBSET Nat /\ V # {}
  <2>1. [b \in Nat |-> <<0, 0>>] \in V
    OBVIOUS
  <2> QED BY <2>1
<1>2. ASSUME NEW a \in Nat, NEW g \in [Nat -> V], NEW b \in Nat
      PROVE  ShiftTurn(g, a, b) \in Nat \X Nat
  <2>1. a \div 2 \in Nat /\ b \div 2 \in Nat
    OBVIOUS
  <2>2. g[a \div 2][b \div 2] \in Nat \X Nat
    BY <2>1
  <2> QED BY <2>1, <2>2 DEF ShiftTurn
<1>8. ASSUME NEW a \in Nat, NEW g \in [Nat -> V]
      PROVE  [b \in Nat |-> ShiftTurn(g, a, b)] \in V
  BY <1>2
<1> HIDE DEF V
<1>3. step \in [Nat -> [[Nat -> V] -> V]]
  BY <1>8
<1>4. LooksBack(step, Nat, V)
  <2> SUFFICES ASSUME NEW a \in Nat, NEW g \in [Nat -> V], NEW h \in [Nat -> V],
                      \A k \in Nat : k < a => g[k] = h[k]
               PROVE  step[a][g] = step[a][h]
    BY DEF LooksBack
  <2>1. ASSUME NEW b \in Nat PROVE ShiftTurn(g, a, b) = ShiftTurn(h, a, b)
    <3>1. CASE a # 0
      <4>1. a \div 2 \in Nat /\ a \div 2 < a
        BY <3>1
      <4>2. g[a \div 2] = h[a \div 2]
        BY <4>1
      <4> QED BY <4>2 DEF ShiftTurn
    <3>2. CASE a = 0
      BY <3>2 DEF ShiftTurn
    <3> QED BY <3>1, <3>2
  <2> QED BY <2>1
<1> HIDE DEF step, V
<1>5. PICK shift \in [Nat -> V] : Solves(shift, step, Nat)
  BY <1>1, <1>3, <1>4, Recursion
<1>6. \A a \in Nat : step[a][shift] = [b \in Nat |-> ShiftTurn(shift, a, b)]
  BY <1>5 DEF step
<1>7. ShiftedBy(shift)
  BY <1>5, <1>6 DEF ShiftedBy, Solves
<1> QED BY <1>7

\* Rise goes up while the node is odd.
LEMMA RiseIs ==
    ASSUME NEW a \in Nat, NEW b \in Nat
    PROVE  Rise(a, b) = IF a % 2 = 1 THEN Rise(a \div 2, b \div 2) ELSE <<a, b>>
<1> DEFINE rise == CHOOSE r : RiseBy(r)
<1>1. \A x, y : Rise(x, y) = rise[x][y]
  BY DEF Rise, RiseBy, RiseTurn
<1>2. RiseBy(rise)
  BY RiseExists
<1> HIDE DEF rise
<1>3. rise[a][b] = RiseTurn(rise, a, b)
  BY <1>2 DEF RiseBy
<1> QED BY <1>1, <1>3 DEF RiseTurn

\* The recursion of Shifted, one turn.
LEMMA ShiftedIs ==
    ASSUME NEW a \in Nat, NEW b \in Nat
    PROVE  Shifted(a, b) = IF a % 2 = 0 /\ a # 0 THEN Shifted(a \div 2, b \div 2)
                           ELSE <<a \div 2, b \div 2>>
<1> DEFINE shift == CHOOSE s : ShiftedBy(s)
<1>1. \A x, y : Shifted(x, y) = shift[x][y]
  BY DEF Shifted, ShiftedBy, ShiftTurn
<1>2. ShiftedBy(shift)
  BY ShiftedExists
<1> HIDE DEF shift
<1>3. shift[a][b] = ShiftTurn(shift, a, b)
  BY <1>2 DEF ShiftedBy
<1> QED BY <1>1, <1>3 DEF ShiftTurn

\* A walk's places stay numbers.
LEMMA ShiftedType ==
    ASSUME NEW a \in Nat, NEW b \in Nat
    PROVE  Shifted(a, b)[1] \in Nat /\ Shifted(a, b)[2] \in Nat
<1> DEFINE Good == {x \in Nat : \A y \in Nat : Shifted(x, y) \in Nat \X Nat}
<1>1. ASSUME NEW x \in Nat, \A k \in Nat : k < x => k \in Good
      PROVE  x \in Good
  <2> SUFFICES ASSUME NEW y \in Nat PROVE Shifted(x, y) \in Nat \X Nat
    OBVIOUS
  <2>1. x \div 2 \in Nat /\ y \div 2 \in Nat /\ (x # 0 => x \div 2 < x)
    OBVIOUS
  <2>2. x # 0 => Shifted(x \div 2, y \div 2) \in Nat \X Nat
    BY <1>1, <2>1
  <2>3. <<x \div 2, y \div 2>> \in Nat \X Nat
    BY <2>1
  <2> QED BY <2>2, <2>3, ShiftedIs
<1>2. Good \in SUBSET Nat
  OBVIOUS
<1> HIDE DEF Good
<1>3. a \in Good
  BY <1>1, <1>2, AllNumbers
<1>4. Shifted(a, b) \in Nat \X Nat
  BY <1>3 DEF Good
<1> QED BY <1>4

\* Rise comes to the widest node that ends where the prefix does, and to the place of
\* the last leaf on that level.
RisesTo(a, b, w, j, l) ==
    /\ Rise(a, b) = <<j, l>> /\ j % 2 # 1
    /\ a + 1 = (j + 1) * w /\ l * w <= b /\ b < l * w + w

\* Rise ends where the node has a left sibling or none (MerkleLog.sol:76-79).
LEMMA RiseEnds ==
    ASSUME NEW a \in Nat, NEW b \in Nat
    PROVE  \E w \in Powers : \E j \in Nat : \E l \in Nat : RisesTo(a, b, w, j, l)
<1> DEFINE Good == {x \in Nat : \A y \in Nat :
                      \E w \in Powers : \E j \in Nat : \E l \in Nat : RisesTo(x, y, w, j, l)}
<1>1. ASSUME NEW x \in Nat, \A k \in Nat : k < x => k \in Good
      PROVE  x \in Good
  <2> SUFFICES ASSUME NEW y \in Nat
               PROVE  \E w \in Powers : \E j \in Nat : \E l \in Nat : RisesTo(x, y, w, j, l)
    OBVIOUS
  <2>1. CASE x % 2 = 1
    <3> DEFINE u == x \div 2
               v == y \div 2
    <3>1. /\ u \in Nat /\ u < x /\ x + 1 = 2 * (u + 1)
          /\ v \in Nat /\ 2 * v <= y /\ y <= 2 * v + 1
      BY <2>1
    <3> HIDE DEF u, v
    <3>2. u \in Good
      BY <1>1, <3>1
    <3>3. PICK w \in Powers : \E j \in Nat : \E l \in Nat : RisesTo(u, v, w, j, l)
      BY <3>1, <3>2
    <3>4. PICK j \in Nat : \E l \in Nat : RisesTo(u, v, w, j, l)
      BY <3>3
    <3>5. PICK l \in Nat : RisesTo(u, v, w, j, l)
      BY <3>4
    <3>6. w \in Nat /\ 2 * w \in Powers
      BY PowersAre
    <3>7. Rise(x, y) = <<j, l>> /\ j % 2 # 1
      <4>1. Rise(x, y) = Rise(x \div 2, y \div 2)
        BY <2>1, RiseIs
      <4> QED BY <3>5, <4>1 DEF RisesTo, u, v
    <3>8. x + 1 = (j + 1) * (2 * w)
      <4>1. u + 1 = (j + 1) * w
        BY <3>5 DEF RisesTo
      <4>2. (j + 1) * (2 * w) = 2 * ((j + 1) * w)
        BY <3>6
      <4> QED BY <3>1, <4>1, <4>2
    <3>9. l * (2 * w) <= y /\ y < l * (2 * w) + 2 * w
      <4>1. l * w <= v /\ v < l * w + w
        BY <3>5 DEF RisesTo
      <4>2. l * (2 * w) = 2 * (l * w) /\ l * w \in Nat
        BY <3>6
      <4> QED BY <3>1, <3>6, <4>1, <4>2
    <3>10. RisesTo(x, y, 2 * w, j, l)
      BY <3>7, <3>8, <3>9 DEF RisesTo
    <3> QED BY <3>6, <3>10
  <2>2. CASE x % 2 # 1
    <3>1. 1 \in Powers
      BY PowersAre
    <3>2. Rise(x, y) = <<x, y>>
      BY <2>2, RiseIs
    <3>3. RisesTo(x, y, 1, x, y)
      BY <2>2, <3>2 DEF RisesTo
    <3> QED BY <3>1, <3>3
  <2> QED BY <2>1, <2>2
<1>2. Good \in SUBSET Nat
  OBVIOUS
<1> HIDE DEF Good
<1>3. a \in Good
  BY <1>1, <1>2, AllNumbers
<1> QED BY <1>3 DEF Good

-----------------------------------------------------------------------------
(* What a hash says of the leaves *)

\* Two ranges with the same hash have the same leaves.
LEMMA HashTellsTheLeaves ==
    ASSUME NEW a, NEW b, NEW len \in Nat \ {0}, NEW start \in Nat,
           RangeHash(a)[len][start] = RangeHash(b)[len][start],
           NEW at \in start + 1 .. start + len
    PROVE  a[at] = b[at]
<1> DEFINE f == RangeHash(a)
           g == RangeHash(b)
           Good == {l \in Nat : \A s \in Nat : l # 0 /\ f[l][s] = g[l][s]
                                  => \A k \in s + 1 .. s + l : a[k] = b[k]}
<1>1. \A l \in Nat \ {0}, s \in Nat : f[l][s] = Turn(f, a, l, s) /\ g[l][s] = Turn(g, b, l, s)
  BY RangeHashIs
<1> HIDE DEF f, g
<1>2. ASSUME NEW l \in Nat, \A k \in Nat : k < l => k \in Good
      PROVE  l \in Good
  <2> SUFFICES ASSUME NEW s \in Nat, l # 0, f[l][s] = g[l][s], NEW k \in s + 1 .. s + l
               PROVE  a[k] = b[k]
    OBVIOUS
  <2>1. Turn(f, a, l, s) = Turn(g, b, l, s)
    BY <1>1
  <2>2. CASE l = 1
    BY <2>1, <2>2 DEF Turn
  <2>3. CASE l # 1
    <3> DEFINE h == Split(l)
    <3>1. h \in 1 .. l - 1 /\ l - h \in 1 .. l - 1
      BY <2>3, SplitParts
    <3>2. HashNode(f[h][s], f[l - h][s + h]) = HashNode(g[h][s], g[l - h][s + h])
      BY <2>1, <2>3 DEF Turn
    <3> HIDE DEF h
    <3>3. f[h][s] = g[h][s] /\ f[l - h][s + h] = g[l - h][s + h]
      BY <3>2 DEF HashNode
    <3>4. h \in Good /\ l - h \in Good /\ s + h \in Nat /\ h # 0 /\ l - h # 0
      BY <1>2, <3>1
    <3>5. CASE k \in s + 1 .. s + h
      BY <3>3, <3>4, <3>5
    <3>6. CASE k \in (s + h) + 1 .. (s + h) + (l - h)
      BY <3>3, <3>4, <3>6
    <3>7. k \in s + 1 .. s + h \/ k \in (s + h) + 1 .. (s + h) + (l - h)
      BY <3>1
    <3> QED BY <3>5, <3>6, <3>7
  <2> QED BY <2>2, <2>3
<1>3. Good \in SUBSET Nat
  OBVIOUS
<1> HIDE DEF Good
<1>4. len \in Good
  BY <1>2, <1>3, AllNumbers
<1> QED BY <1>4 DEF Good, f, g

\* Lists whose first leaves hash to one head agree on them.
HeadsTell(a, b) ==
    \A l \in Nat \ {0} : RangeHash(a)[l][0] = RangeHash(b)[l][0] => \A k \in 1 .. l : a[k] = b[k]

\* Two symbolic heads are one exactly when their logs are.
LEMMA EqualHeads == ASSUME NEW a, NEW b PROVE HeadsTell(a, b)
<1> SUFFICES ASSUME NEW l \in Nat \ {0}, RangeHash(a)[l][0] = RangeHash(b)[l][0], NEW k \in 1 .. l
             PROVE  a[k] = b[k]
  BY DEF HeadsTell
<1>1. 0 \in Nat /\ k \in 0 + 1 .. 0 + l
  OBVIOUS
<1> QED BY <1>1, HashTellsTheLeaves

\* The earlier anchor is one of the log exactly when no leaf of its prefix was another.
LEMMA AnchorIs ==
    ASSUME NEW m \in Size, NEW size \in Size, m <= size, NEW f \in 0 .. Len(Log), f <= m
    PROVE  RootOf(First(Rewritten(f), m)) = RangeHash(First(Log, size))[m][0] <=> f = 0
<1> DEFINE own == {Log[k] : k \in DOMAIN Log} \cup {Other}
           other == Rewritten(f)
           given == First(other, m)
           leaves == First(Log, size)
<1>1. /\ Log \in Seq({Log[k] : k \in DOMAIN Log}) /\ Len(Log) \in Nat /\ DOMAIN Log = 1 .. Len(Log)
      /\ m \in Nat \ {0} /\ size \in Nat \ {0} /\ size <= Len(Log) /\ m <= Len(Log)
  BY LogAssumption DEF Size
<1>2. \A k \in 1 .. Len(Log) : other[k] = (IF k = f THEN Other ELSE Log[k]) /\ other[k] \in own
  BY <1>1 DEF Rewritten
<1>3. Len(leaves) = size /\ \A k \in 1 .. size : leaves[k] = Log[k]
  BY FirstIs
<1> HIDE DEF own, leaves
<1>4. other \in Seq(own) /\ Len(other) = Len(Log)
  <2>1. other \in [1 .. Len(Log) -> own]
    BY <1>2 DEF Rewritten
  <2> HIDE DEF other
  <2> QED BY <1>1, <2>1, SeqDef, LenProperties
<1> HIDE DEF other
<1>5. Len(given) = m /\ \A k \in 1 .. m : given[k] = other[k]
  <2>1. \A k \in 1 .. m : other[k] \in own
    BY <1>1, <1>2
  <2>2. /\ Len(SubSeq(other, 1, m)) = IF 1 <= m THEN m - 1 + 1 ELSE 0
        /\ \A k \in 1 .. m - 1 + 1 : SubSeq(other, 1, m)[k] = other[1 + k - 1]
    BY <1>1, <1>4, <2>1, SubSeqProperties
  <2> QED BY <1>1, <2>2 DEF First
<1>6. given # <<>>
  BY <1>1, <1>5
<1> HIDE DEF given
<1>7. RootOf(given) = RangeHash(given)[m][0]
  BY <1>5, <1>6 DEF RootOf
<1>8. CASE f = 0
  <2>1. \A k \in 1 .. m : given[k] = leaves[k]
    BY <1>1, <1>2, <1>3, <1>5, <1>8
  <2>2. SameLeaves(given, leaves, m)
    BY <2>1 DEF SameLeaves
  <2>3. RangeHash(given)[m][0] = RangeHash(leaves)[m][0]
    <3>1. m \in Nat /\ 0 \in Nat /\ 0 + m <= m
      BY <1>1
    <3> QED BY <1>1, <2>2, <3>1, HashIsOfTheRange
  <2> QED BY <1>7, <1>8, <2>3 DEF given, leaves, other
<1>9. CASE f # 0
  <2>1. f \in 1 .. m /\ f \in 1 .. Len(Log) /\ f \in 1 .. size /\ f \in 0 + 1 .. 0 + m
    BY <1>1, <1>9
  <2>2. given[f] = Other /\ leaves[f] = Log[f] /\ Log[f] # Other
    BY <1>1, <1>2, <1>3, <1>5, <2>1, LogAssumption
  <2>3. RangeHash(given)[m][0] # RangeHash(leaves)[m][0]
    <3> SUFFICES ASSUME RangeHash(given)[m][0] = RangeHash(leaves)[m][0] PROVE FALSE
      OBVIOUS
    <3>1. given[f] = leaves[f]
      <4>1. HeadsTell(given, leaves)
        BY EqualHeads
      <4>2. \A k \in 1 .. m : given[k] = leaves[k]
        BY <1>1, <4>1 DEF HeadsTell
      <4> QED BY <2>1, <4>2
    <3> QED BY <2>2, <3>1
  <2> QED BY <1>7, <1>9, <2>3 DEF given, leaves, other
<1> QED BY <1>8, <1>9

-----------------------------------------------------------------------------
(* verifyConsistency, by a loop over the levels: MerkleLog.sol *)

\* A question about an extension, and what proves it; f is 0 when the earlier anchor
\* is one of the log.
IsConsistency(q) ==
    /\ q.m \in Size /\ q.size \in Size
    /\ q.m <= q.size => (q.first = RangeHash(First(Log, q.size))[q.m][0] <=> q.f = 0)
    /\ q.proof \in Seq(LogHashes)

ExactConsistency(q) ==
    /\ q.m <= q.size
    /\ q.f = 0
    /\ q.proof = Consistency[q.size][q.m]

\* The proof that is called for.
WholeProof(q) == ConsistencyPath(First(Log, q.size))[q.size][0][q.m]

\* The prefix is a whole left subtree, whose hash the verifier has already.
OwnRoot(q) == Rise(q.m - 1, q.size - 1)[1] = 0

\* A question about consistency in terms of ranges: its proof, its two roots.
LEMMA ConsistencyAskedIs ==
    ASSUME NEW q, IsConsistency(q), q.m <= q.size
    PROVE  /\ q.m \in Nat \ {0} /\ q.size \in Nat \ {0} /\ Len(q.proof) \in Nat
           /\ ExactConsistency(q) <=> q.f = 0 /\ q.proof = WholeProof(q)
           /\ q.first = RangeHash(First(Log, q.size))[q.m][0] <=> q.f = 0
           /\ LogRoot[q.size] = RangeHash(First(Log, q.size))[q.size][0]
           /\ WholeProof(q) \in Seq(RangeHashes(First(Log, q.size)))
           /\ Len(WholeProof(q)) \in Nat
<1>1. /\ q.m \in Size /\ q.size \in Size /\ q.m \in Nat \ {0} /\ q.size \in Nat \ {0}
      /\ Len(First(Log, q.size)) = q.size
      /\ LogRoot[q.size] = RangeHash(First(Log, q.size))[q.size][0]
  BY FirstIs DEF IsConsistency
<1>2. q.first = RangeHash(First(Log, q.size))[q.m][0] <=> q.f = 0
  BY DEF IsConsistency
<1>3. q.m \in 1 .. q.size
  BY <1>1
<1>4. Consistency[q.size][q.m] = WholeProof(q)
  BY <1>1, <1>3 DEF Consistency, ConsistencyProof, WholeProof
<1>5. ConsistencyPath(First(Log, q.size))[q.size][0][q.m] \in Seq(RangeHashes(First(Log, q.size)))
  BY <1>1, <1>3, ConsistencyPathType
<1>6. ExactConsistency(q) <=> q.f = 0 /\ q.proof = WholeProof(q)
  BY <1>4 DEF ExactConsistency
<1>7. WholeProof(q) \in Seq(RangeHashes(First(Log, q.size)))
  BY <1>5 DEF WholeProof
<1>8. Len(q.proof) \in Nat /\ Len(WholeProof(q)) \in Nat
  <2> DEFINE whole == WholeProof(q)
  <2>1. whole \in Seq(RangeHashes(First(Log, q.size)))
    BY <1>7
  <2> HIDE DEF whole
  <2>2. Len(whole) \in Nat
    BY <2>1
  <2>3. Len(q.proof) \in Nat
    BY DEF IsConsistency
  <2> QED BY <2>2, <2>3 DEF whole
<1> QED BY <1>1, <1>2, <1>6, <1>7, <1>8

\* What the two hashes are when they are right so far.
RightUpTo(q, used, path) == (OwnRoot(q) => q.f = 0) /\ Uses(q.proof, used, path)

\* Where the loop is, when its nodes stand for w leaves.
ConsistencyLevel(q, early, late, place, last, used, w) ==
    LET leaves == First(Log, q.size)
        path   == PrefixAt(leaves, q.m, q.size, w, place) IN
    /\ EndsIn(q.m, q.size, w, place)
    /\ last * w < q.size /\ q.size <= (last + 1) * w
    /\ used = Len(path) /\ used <= Len(q.proof)
    /\ late = NodeAt(leaves, q.size, w, place) <=> RightUpTo(q, used, path)
    /\ RightUpTo(q, used, path) => early = NodeAt(leaves, q.m, w, place)

ConsistencyAt(q, early, late, place, last, used) ==
    /\ place \in Nat /\ last \in Nat /\ used \in Nat
    /\ \E w \in Powers : ConsistencyLevel(q, early, late, place, last, used, w)

\* At first they are the earlier anchor, or the first word.
LEMMA ConsistencyBegins ==
    ASSUME NEW q, IsConsistency(q), q.m < q.size,
           NEW begin, begin = Rise(q.m - 1, q.size - 1)
    PROVE  /\ begin[1] \in Nat /\ begin[2] \in Nat /\ (OwnRoot(q) <=> begin[1] = 0)
           /\ begin[1] = 0 => ConsistencyAt(q, q.first, q.first, begin[1], begin[2], 0)
           /\ begin[1] # 0 /\ q.proof # <<>> =>
                ConsistencyAt(q, q.proof[1], q.proof[1], begin[1], begin[2], 1)
           /\ q.proof = <<>> => ~ExactConsistency(q)
<1> DEFINE leaves == First(Log, q.size)
           m      == q.m
           size   == q.size
<1>1. /\ m \in Nat \ {0} /\ size \in Nat \ {0} /\ Len(q.proof) \in Nat /\ m < size
      /\ ExactConsistency(q) <=> q.f = 0 /\ q.proof = WholeProof(q)
      /\ q.first = RangeHash(leaves)[m][0] <=> q.f = 0
      /\ Len(WholeProof(q)) \in Nat
  <2>1. q.m <= q.size
    BY DEF IsConsistency, Size
  <2> QED BY <2>1, ConsistencyAskedIs
<1> HIDE DEF leaves, m, size
<1>2. m - 1 \in Nat /\ size - 1 \in Nat
  BY <1>1
<1>3. PICK w \in Powers : \E j \in Nat : \E l \in Nat : RisesTo(m - 1, size - 1, w, j, l)
  BY <1>2, RiseEnds
<1>4. PICK j \in Nat : \E l \in Nat : RisesTo(m - 1, size - 1, w, j, l)
  BY <1>3
<1>5. PICK l \in Nat : RisesTo(m - 1, size - 1, w, j, l)
  BY <1>4
<1>6. w \in Nat \ {0}
  BY PowersAre
<1>7. begin = <<j, l>> /\ j % 2 # 1 /\ m = (j + 1) * w /\ l * w <= size - 1 /\ size - 1 < l * w + w
  <2>1. Rise(m - 1, size - 1) = <<j, l>> /\ j % 2 # 1 /\ m - 1 + 1 = (j + 1) * w
        /\ l * w <= size - 1 /\ size - 1 < l * w + w
    BY <1>5 DEF RisesTo
  <2> QED BY <1>1, <2>1 DEF m, size
<1>8. l * w < size /\ size <= (l + 1) * w /\ l * w \in Nat /\ (l + 1) * w = l * w + w
  <2>1. l * w \in Nat /\ (l + 1) * w = l * w + w
    BY <1>6
  <2> QED BY <1>1, <1>6, <1>7, <2>1
<1>9. EndsIn(m, size, w, j)
  <2>1. j * w \in Nat /\ (j + 1) * w = j * w + w
    BY <1>6
  <2>2. j * w < m /\ m <= j * w + w
    BY <1>6, <1>7, <2>1
  <2>3. ASSUME NEW k \in Nat, m = k * (2 * w) PROVE FALSE
    <3>1. k * (2 * w) = (2 * k) * w /\ 2 * k \in Nat /\ j + 1 \in Nat
      BY <1>6
    <3>2. (j + 1) * w = (2 * k) * w
      BY <1>7, <2>3, <3>1
    <3>3. j + 1 = 2 * k
      <4>1. CASE j + 1 < 2 * k
        <5>1. (j + 2) * w <= (2 * k) * w /\ j + 2 \in Nat
          BY <1>6, <3>1, <4>1, TimesOrder
        <5>2. (j + 2) * w = (j + 1) * w + w /\ (j + 1) * w \in Nat
          BY <1>6
        <5> QED BY <1>6, <3>2, <5>1, <5>2
      <4>2. CASE 2 * k < j + 1
        <5>1. (2 * k + 1) * w <= (j + 1) * w /\ 2 * k + 1 \in Nat
          BY <1>6, <3>1, <4>2, TimesOrder
        <5>2. (2 * k + 1) * w = (2 * k) * w + w /\ (2 * k) * w \in Nat
          BY <1>6
        <5> QED BY <1>6, <3>2, <5>1, <5>2
      <4> QED BY <3>1, <4>1, <4>2
    <3> QED BY <1>7, <3>3
  <2> QED BY <1>1, <2>2, <2>3 DEF EndsIn, Uneven
<1> DEFINE path == PrefixAt(leaves, m, size, w, j)
           node == NodeAt(leaves, size, w, j)
<1>10. /\ NodeAt(leaves, m, w, j) = node
       /\ path = IF j = 0 THEN <<>> ELSE <<node>>
       /\ j = 0 => node = RangeHash(leaves)[m][0]
  BY <1>1, <1>7, PrefixBase
<1>11. OwnRoot(q) <=> j = 0
  BY <1>7 DEF OwnRoot, m, size
<1>12. IF size <= w THEN Len(path) = Len(ConsistencyPath(leaves)[size][0][m])
       ELSE Len(path) < Len(ConsistencyPath(leaves)[size][0][m])
  BY <1>1, <1>9, PrefixAtGrows
<1>13. ~ (size <= w)
  <2>1. 1 * w <= (j + 1) * w /\ (j + 1) * w \in Nat
    BY <1>6, TimesOrder
  <2> QED BY <1>1, <1>6, <1>7, <2>1
<1>14. Len(path) < Len(WholeProof(q))
  BY <1>12, <1>13 DEF WholeProof, leaves, m, size
<1> HIDE DEF path, node
<1>15. q.proof = <<>> => ~ExactConsistency(q)
  <2> SUFFICES ASSUME q.proof = <<>>, q.proof = WholeProof(q) PROVE FALSE
    BY <1>1
  <2>1. Len(WholeProof(q)) = 0
    OBVIOUS
  <2>2. Len(path) \in Nat
    BY <1>10
  <2> QED BY <1>14, <2>1, <2>2
<1>16. j = 0 => ConsistencyAt(q, q.first, q.first, j, l, 0)
  <2> SUFFICES ASSUME j = 0 PROVE ConsistencyAt(q, q.first, q.first, j, l, 0)
    OBVIOUS
  <2>1. path = <<>> /\ Len(path) = 0 /\ node = RangeHash(leaves)[m][0]
    BY <1>10
  <2>2. RightUpTo(q, 0, path) <=> q.f = 0
    BY <1>11, <2>1 DEF RightUpTo, Uses
  <2>3. q.first = node <=> RightUpTo(q, 0, path)
    BY <1>1, <2>1, <2>2
  <2>4. ConsistencyLevel(q, q.first, q.first, j, l, 0, w)
    BY <1>1, <1>8, <1>9, <1>10, <2>1, <2>3 DEF ConsistencyLevel, path, node, leaves, m, size
  <2> QED BY <2>4 DEF ConsistencyAt
<1>17. j # 0 /\ q.proof # <<>> => ConsistencyAt(q, q.proof[1], q.proof[1], j, l, 1)
  <2> SUFFICES ASSUME j # 0, q.proof # <<>> PROVE ConsistencyAt(q, q.proof[1], q.proof[1], j, l, 1)
    OBVIOUS
  <2>1. path = <<node>> /\ Len(path) = 1 /\ path[1] = node
    BY <1>10
  <2>2. 1 <= Len(q.proof)
    BY <1>1 DEF IsConsistency
  <2>3. q.proof[1] = node <=> RightUpTo(q, 1, path)
    BY <1>11, <2>1 DEF RightUpTo, Uses
  <2>4. ConsistencyLevel(q, q.proof[1], q.proof[1], j, l, 1, w)
    BY <1>1, <1>8, <1>9, <1>10, <2>1, <2>2, <2>3 DEF ConsistencyLevel, path, node, leaves, m, size
  <2> QED BY <2>4 DEF ConsistencyAt
<1> QED BY <1>7, <1>11, <1>15, <1>16, <1>17

\* What a level says in numbers.
LEMMA ConsistencyPlaces ==
    ASSUME NEW q, IsConsistency(q), NEW w \in Powers, NEW place \in Nat, NEW last \in Nat,
           EndsIn(q.m, q.size, w, place), last * w < q.size, q.size <= (last + 1) * w
    PROVE  /\ place < last <=> (place + 1) * w < q.size
           /\ (last \div 2) * (2 * w) < q.size /\ q.size <= (last \div 2 + 1) * (2 * w)
           /\ place % 2 = 1 \/ place < last => ~ (q.size <= w)
           /\ place % 2 = 1 => (place - 1) * w < q.size /\ place - 1 \in Nat
           /\ place <= last
<1>1. w \in Nat \ {0} /\ q.m \in Nat /\ q.size \in Nat
  <2>1. w \in Nat \ {0}
    BY PowersAre
  <2>2. q.m \in Nat /\ q.size \in Nat
    BY DEF IsConsistency, Size
  <2> QED BY <2>1, <2>2
<1> DEFINE count == last + 1
<1>2. count \in Nat \ {0} /\ count - 1 = last /\ (count + 1) \div 2 = last \div 2 + 1
  OBVIOUS
<1>3. (count - 1) * w < q.size /\ q.size <= count * w
  BY <1>2
<1> HIDE DEF count
<1>4. /\ place + 1 < count <=> (place + 1) * w < q.size
      /\ ((count + 1) \div 2 - 1) * (2 * w) < q.size /\ q.size <= ((count + 1) \div 2) * (2 * w)
  BY <1>1, <1>2, <1>3, CountHalves
<1>5. place < last <=> place + 1 < count
  BY <1>2
<1>6. last \div 2 \in Nat /\ (count + 1) \div 2 - 1 = last \div 2
  BY <1>2
<1>7. place * w < q.m /\ q.m < q.size /\ place * w \in Nat
  BY <1>1 DEF EndsIn
<1>8. place % 2 = 1 => ~ (q.size <= w) /\ (place - 1) * w < q.size /\ place - 1 \in Nat
  <2> SUFFICES ASSUME place % 2 = 1 PROVE ~ (q.size <= w) /\ (place - 1) * w < q.size /\ place - 1 \in Nat
    OBVIOUS
  <2>1. place - 1 \in Nat /\ 1 <= place /\ place - 1 <= place
    OBVIOUS
  <2>2. 1 * w <= place * w /\ (place - 1) * w <= place * w /\ (place - 1) * w \in Nat
    BY <1>1, <2>1, TimesOrder
  <2> QED BY <1>1, <1>7, <2>1, <2>2
<1>9. place < last => ~ (q.size <= w)
  <2> SUFFICES ASSUME place < last PROVE ~ (q.size <= w)
    OBVIOUS
  <2>1. 1 * w <= last * w /\ last * w \in Nat
    BY <1>1, TimesOrder
  <2> QED BY <1>1, <2>1
<1>10. place <= last
  <2> SUFFICES ASSUME ~ (place <= last) PROVE FALSE
    OBVIOUS
  <2>1. (last + 1) * w <= place * w /\ (last + 1) * w \in Nat
    BY <1>1, TimesOrder
  <2> QED BY <1>1, <1>7, <2>1
<1> QED BY <1>2, <1>4, <1>5, <1>6, <1>8, <1>9, <1>10

\* One turn of the loop: a word on the left, a word on the right, or none.
TurnsTo(q, early, late, place, last, used, at) ==
    /\ place % 2 = 1 /\ used < Len(q.proof) =>
         ConsistencyLevel(q, HashNode(q.proof[used + 1], early), HashNode(q.proof[used + 1], late),
                          place \div 2, last \div 2, used + 1, at)
    /\ place % 2 # 1 /\ place < last /\ used < Len(q.proof) =>
         ConsistencyLevel(q, early, HashNode(late, q.proof[used + 1]),
                          place \div 2, last \div 2, used + 1, at)
    /\ place % 2 # 1 /\ ~ (place < last) =>
         ConsistencyLevel(q, early, late, place \div 2, last \div 2, used, at)
    /\ (place % 2 = 1 \/ place < last) /\ used >= Len(q.proof) => ~ExactConsistency(q)

\* One turn of the loop over words keeps what is known of a level (MerkleLog.sol:76-120).
LEMMA ConsistencyTurn ==
    ASSUME NEW q, IsConsistency(q), q.m < q.size, NEW w \in Powers,
           NEW early, NEW late, NEW place \in Nat, NEW last \in Nat, NEW used \in Nat,
           ConsistencyLevel(q, early, late, place, last, used, w)
    PROVE  TurnsTo(q, early, late, place, last, used, 2 * w)
<1> DEFINE leaves == First(Log, q.size)
           m      == q.m
           size   == q.size
           half   == place \div 2
           word   == q.proof[used + 1]
           low    == PrefixAt(leaves, m, size, w, place)
           up     == PrefixAt(leaves, m, size, 2 * w, half)
           prev   == NodeAt(leaves, size, w, place - 1)
           next   == NodeAt(leaves, size, w, place + 1)
           here   == NodeAt(leaves, size, w, place)
           over   == NodeAt(leaves, size, 2 * w, half)
           ends   == NodeAt(leaves, m, w, place)
           ended  == NodeAt(leaves, m, 2 * w, half)
           Level(a, b, u) == ConsistencyLevel(q, a, b, half, last \div 2, u, 2 * w)
<1>1. /\ m \in Nat \ {0} /\ size \in Nat \ {0} /\ Len(q.proof) \in Nat /\ half \in Nat
      /\ ExactConsistency(q) <=> q.f = 0 /\ q.proof = WholeProof(q)
      /\ Len(WholeProof(q)) \in Nat
  <2>1. q.m <= q.size
    BY DEF IsConsistency, Size
  <2>2. half \in Nat
    OBVIOUS
  <2> QED BY <2>1, <2>2, ConsistencyAskedIs
<1>2. /\ EndsIn(m, size, w, place) /\ last * w < size /\ size <= (last + 1) * w
      /\ used = Len(low) /\ used <= Len(q.proof)
      /\ late = here <=> RightUpTo(q, used, low)
      /\ RightUpTo(q, used, low) => early = ends
  BY DEF ConsistencyLevel
<1>3. /\ place < last <=> (place + 1) * w < size
      /\ (last \div 2) * (2 * w) < size /\ size <= (last \div 2 + 1) * (2 * w)
      /\ place % 2 = 1 \/ place < last => ~ (size <= w)
      /\ place % 2 = 1 => (place - 1) * w < size /\ place - 1 \in Nat
  BY <1>2, ConsistencyPlaces
<1>4. half = place \div 2
  OBVIOUS
<1> HIDE DEF leaves, m, size, half
<1>5. OnePrefixUp(leaves, m, size, w, place, half)
  BY ONLY w \in Powers, place \in Nat, <1>1, <1>2, <1>4, PrefixUp
<1>6. /\ EndsIn(m, size, 2 * w, half)
      /\ place % 2 = 1 => over = HashNode(prev, here) /\ ended = HashNode(prev, ends) /\ up = Append(low, prev)
      /\ place % 2 # 1 /\ place < last => over = HashNode(here, next) /\ ended = ends /\ up = Append(low, next)
      /\ place % 2 # 1 /\ ~ (place < last) => over = here /\ ended = ends /\ up = low
  BY <1>3, <1>5 DEF OnePrefixUp
<1>7. low \in Seq(RangeHashes(leaves)) /\ Len(low) \in Nat
  BY <1>1, <1>2, PrefixAtType
<1>8. /\ place % 2 = 1 => prev \in RangeHashes(leaves)
      /\ place < last => next \in RangeHashes(leaves)
  <2>1. place % 2 = 1 => prev \in RangeHashes(leaves)
    BY <1>1, <1>3, NodeAtType
  <2>2. place + 1 \in Nat
    OBVIOUS
  <2>3. place < last => next \in RangeHashes(leaves)
    BY <1>1, <1>3, <2>2, NodeAtType
  <2> QED BY <2>1, <2>3
<1>9. IF size <= w THEN Len(low) = Len(ConsistencyPath(leaves)[size][0][m])
      ELSE Len(low) < Len(ConsistencyPath(leaves)[size][0][m])
  BY <1>1, <1>2, PrefixAtGrows
<1>10. place % 2 = 1 \/ place < last => used < Len(WholeProof(q))
  BY <1>2, <1>3, <1>9 DEF WholeProof, leaves, m, size
<1>11. (place % 2 = 1 \/ place < last) /\ used >= Len(q.proof) => ~ExactConsistency(q)
  <2> SUFFICES ASSUME place % 2 = 1 \/ place < last, used >= Len(q.proof), q.proof = WholeProof(q) PROVE FALSE
    BY <1>1
  <2>1. used < Len(q.proof)
    BY <1>10
  <2> QED BY <1>1, <2>1
<1>12. ASSUME NEW a, NEW b, NEW u, u = Len(up), u <= Len(q.proof),
              b = over <=> RightUpTo(q, u, up), RightUpTo(q, u, up) => a = ended
       PROVE  Level(a, b, u)
  BY <1>3, <1>6, <1>12 DEF ConsistencyLevel, up, over, ended, leaves, m, size
<1> HIDE DEF low, up, prev, next, here, over, ends, ended, word, Level
<1>13. ASSUME NEW x \in RangeHashes(leaves), up = Append(low, x)
       PROVE  /\ Len(up) = used + 1
              /\ RightUpTo(q, used + 1, up) <=> RightUpTo(q, used, low) /\ word = x
  <2>1. Len(Append(low, x)) = Len(low) + 1
    BY <1>7, <1>13, AppendProperties
  <2>2. Uses(q.proof, used + 1, Append(low, x)) <=> Uses(q.proof, used, low) /\ q.proof[used + 1] = x
    <3> DEFINE S == RangeHashes(leaves)
               proof == q.proof
    <3>1. low \in Seq(S) /\ x \in S /\ used \in Nat
      BY <1>7
    <3> HIDE DEF S, proof
    <3>2. Uses(proof, used + 1, Append(low, x)) <=> Uses(proof, used, low) /\ proof[used + 1] = x
      BY ONLY <3>1, UsesMore
    <3> QED BY <3>2 DEF proof
  <2> QED BY <1>2, <1>13, <2>1, <2>2 DEF RightUpTo, word
<1>14. place % 2 = 1 /\ used < Len(q.proof) => Level(HashNode(word, early), HashNode(word, late), used + 1)
  <2> SUFFICES ASSUME place % 2 = 1, used < Len(q.proof)
               PROVE  Level(HashNode(word, early), HashNode(word, late), used + 1)
    OBVIOUS
  <2>1. /\ over = HashNode(prev, here) /\ ended = HashNode(prev, ends)
        /\ Len(up) = used + 1
        /\ RightUpTo(q, used + 1, up) <=> RightUpTo(q, used, low) /\ word = prev
    BY <1>6, <1>8, <1>13
  <2>2. HashNode(word, late) = over <=> RightUpTo(q, used + 1, up)
    BY <1>2, <2>1 DEF HashNode
  <2>3. RightUpTo(q, used + 1, up) => HashNode(word, early) = ended
    BY <1>2, <2>1
  <2>4. used + 1 <= Len(q.proof)
    BY <1>1
  <2> QED BY <1>12, <2>1, <2>2, <2>3, <2>4
<1>15. place % 2 # 1 /\ place < last /\ used < Len(q.proof) => Level(early, HashNode(late, word), used + 1)
  <2> SUFFICES ASSUME place % 2 # 1, place < last, used < Len(q.proof)
               PROVE  Level(early, HashNode(late, word), used + 1)
    OBVIOUS
  <2>1. /\ over = HashNode(here, next) /\ ended = ends
        /\ Len(up) = used + 1
        /\ RightUpTo(q, used + 1, up) <=> RightUpTo(q, used, low) /\ word = next
    BY <1>6, <1>8, <1>13
  <2>2. HashNode(late, word) = over <=> RightUpTo(q, used + 1, up)
    BY <1>2, <2>1 DEF HashNode
  <2>3. RightUpTo(q, used + 1, up) => early = ended
    BY <1>2, <2>1
  <2>4. used + 1 <= Len(q.proof)
    BY <1>1
  <2> QED BY <1>12, <2>1, <2>2, <2>3, <2>4
<1>16. place % 2 # 1 /\ ~ (place < last) => Level(early, late, used)
  BY <1>2, <1>6, <1>12
<1> QED BY <1>11, <1>14, <1>15, <1>16 DEF TurnsTo, Level, word, half

\* The answer at the end of the loop.
LEMMA ConsistencyEnds ==
    ASSUME NEW q, IsConsistency(q), q.m < q.size,
           NEW early, NEW late, NEW place, NEW used, ConsistencyAt(q, early, late, place, 0, used)
    PROVE  /\ used = Len(q.proof) => (early = q.first /\ late = LogRoot[q.size] <=> ExactConsistency(q))
           /\ used # Len(q.proof) => ~ExactConsistency(q)
           /\ used = Len(WholeProof(q))
<1> DEFINE leaves == First(Log, q.size)
           m      == q.m
           size   == q.size
           whole  == WholeProof(q)
<1>1. /\ m \in Nat \ {0} /\ size \in Nat \ {0} /\ Len(q.proof) \in Nat
      /\ ExactConsistency(q) <=> q.f = 0 /\ q.proof = whole
      /\ q.first = RangeHash(leaves)[m][0] <=> q.f = 0
      /\ LogRoot[size] = RangeHash(leaves)[size][0]
      /\ whole \in Seq(RangeHashes(leaves)) /\ Len(whole) \in Nat
  <2>1. q.m <= q.size
    BY DEF IsConsistency, Size
  <2> QED BY <2>1, ConsistencyAskedIs
<1>2. PICK w \in Powers : ConsistencyLevel(q, early, late, place, 0, used, w)
  BY DEF ConsistencyAt
<1>3. place \in Nat /\ used \in Nat /\ w \in Nat \ {0}
  BY PowersAre DEF ConsistencyAt
<1> DEFINE path == PrefixAt(leaves, m, size, w, place)
<1>4. /\ EndsIn(m, size, w, place) /\ size <= w
      /\ used = Len(path)
      /\ late = NodeAt(leaves, size, w, place) <=> RightUpTo(q, used, path)
      /\ RightUpTo(q, used, path) => early = NodeAt(leaves, m, w, place)
  <2>1. (0 + 1) * w = w
    BY <1>3
  <2> QED BY <1>2, <2>1 DEF ConsistencyLevel
<1> HIDE DEF leaves, m, size, whole
<1>5. /\ NodeAt(leaves, size, w, place) = RangeHash(leaves)[size][0]
      /\ NodeAt(leaves, m, w, place) = RangeHash(leaves)[m][0]
      /\ path = ConsistencyPath(leaves)[size][0][m]
  BY <1>1, <1>3, <1>4, PrefixTop
<1>6. path = whole
  BY <1>5 DEF whole, WholeProof, leaves, m, size
<1> HIDE DEF path
<1>7. Uses(q.proof, Len(q.proof), whole) <=> q.proof = whole
  BY <1>1, UsesAll DEF IsConsistency
<1>8. used = Len(whole)
  BY <1>4, <1>6
<1>9. used = Len(q.proof) => (early = q.first /\ late = LogRoot[size] <=> ExactConsistency(q))
  <2> SUFFICES ASSUME used = Len(q.proof)
               PROVE  early = q.first /\ late = LogRoot[size] <=> ExactConsistency(q)
    OBVIOUS
  <2>1. RightUpTo(q, used, path) <=> (OwnRoot(q) => q.f = 0) /\ q.proof = whole
    BY <1>6, <1>7 DEF RightUpTo
  <2> QED BY <1>1, <1>4, <1>5, <2>1
<1>10. used # Len(q.proof) => ~ExactConsistency(q)
  BY <1>1, <1>8
<1> QED BY <1>8, <1>9, <1>10 DEF size, whole

\* Whoever is not at the end of the loop has not used the whole proof.
LEMMA ConsistencyGoesOn ==
    ASSUME NEW q, IsConsistency(q), q.m < q.size,
           NEW early, NEW late, NEW place, NEW last, last # 0, NEW used,
           ConsistencyAt(q, early, late, place, last, used)
    PROVE  used < Len(WholeProof(q))
<1>1. q.m \in Nat \ {0} /\ q.size \in Nat \ {0}
  <2>1. q.m <= q.size
    BY DEF IsConsistency, Size
  <2> QED BY <2>1, ConsistencyAskedIs
<1>2. PICK w \in Powers : ConsistencyLevel(q, early, late, place, last, used, w)
  BY DEF ConsistencyAt
<1>3. place \in Nat /\ last \in Nat /\ used \in Nat /\ w \in Nat \ {0}
  BY PowersAre DEF ConsistencyAt
<1> DEFINE leaves == First(Log, q.size)
           path == PrefixAt(leaves, q.m, q.size, w, place)
<1>4. EndsIn(q.m, q.size, w, place) /\ last * w < q.size /\ used = Len(path)
  BY <1>2 DEF ConsistencyLevel
<1>5. ~ (q.size <= w)
  <2>1. 1 * w <= last * w /\ last * w \in Nat
    BY <1>3, TimesOrder
  <2> QED BY <1>1, <1>3, <1>4, <2>1
<1>6. IF q.size <= w THEN Len(path) = Len(ConsistencyPath(leaves)[q.size][0][q.m])
      ELSE Len(path) < Len(ConsistencyPath(leaves)[q.size][0][q.m])
  <2> HIDE DEF leaves
  <2>1. q.size \in Nat
    BY <1>1
  <2> QED BY <1>1, <1>3, <1>4, <2>1, PrefixAtGrows
<1> QED BY <1>4, <1>5, <1>6 DEF WholeProof

\* What is known of such a question, and of its answer.
ConsistencyInv ==
    /\ AtWork("m", "consistency")
    /\ "m" \in DOMAIN asked =>
         /\ IsConsistency(asked)
         /\ pc = "consistency" /\ asked.m < asked.size =>
               /\ p \in Nat
               /\ p > Len(asked.proof) => ~ExactConsistency(asked)
               /\ ~ (p > Len(asked.proof)) => ConsistencyAt(asked, fr, sr, i, n, p)
         /\ pc = "answered" => (verdict = "true" <=> ExactConsistency(asked))

\* The question that is asked is one about an extension.
LEMMA ConsistencyAsked ==
    ASSUME AskConsistency
    PROVE  /\ IsConsistency(asked') /\ pc' = "consistency"
           /\ asked'.m < asked'.size =>
                LET begin == Rise(asked'.m - 1, asked'.size - 1)
                    given == IF begin[1] = 0 THEN asked'.first
                             ELSE IF asked'.proof = <<>> THEN Zero ELSE asked'.proof[1]
                IN  /\ fr' = given /\ sr' = given /\ i' = begin[1] /\ n' = begin[2]
                    /\ p' = IF begin[1] > 0 THEN 1 ELSE 0
<1>1. PICK m \in Size, size \in Size, of \in Size, f \in 0 .. Len(Log) :
        \E prefix \in 1 .. of :
            \E proof \in Deliveries(Consistency[of][prefix]) :
                LET first == RootOf(First(Rewritten(f), m))
                    start == Rise(m - 1, size - 1)
                    given == IF m >= size \/ start[1] = 0 THEN first
                             ELSE IF proof = <<>> THEN Zero ELSE proof[1]
                IN  /\ f <= m
                    /\ Call("consistency", [m |-> m, size |-> size, first |-> first, f |-> f,
                                            proof |-> proof])
                    /\ fr' = given /\ sr' = given
                    /\ i' = start[1] /\ n' = start[2]
                    /\ p' = IF m < size /\ start[1] > 0 THEN 1 ELSE 0
  BY DEF AskConsistency
<1>2. PICK prefix \in 1 .. of :
            \E proof \in Deliveries(Consistency[of][prefix]) :
                LET first == RootOf(First(Rewritten(f), m))
                    start == Rise(m - 1, size - 1)
                    given == IF m >= size \/ start[1] = 0 THEN first
                             ELSE IF proof = <<>> THEN Zero ELSE proof[1]
                IN  /\ f <= m
                    /\ Call("consistency", [m |-> m, size |-> size, first |-> first, f |-> f,
                                            proof |-> proof])
                    /\ fr' = given /\ sr' = given
                    /\ i' = start[1] /\ n' = start[2]
                    /\ p' = IF m < size /\ start[1] > 0 THEN 1 ELSE 0
  BY <1>1
<1>3. PICK proof \in Deliveries(Consistency[of][prefix]) :
                LET first == RootOf(First(Rewritten(f), m))
                    start == Rise(m - 1, size - 1)
                    given == IF m >= size \/ start[1] = 0 THEN first
                             ELSE IF proof = <<>> THEN Zero ELSE proof[1]
                IN  /\ f <= m
                    /\ Call("consistency", [m |-> m, size |-> size, first |-> first, f |-> f,
                                            proof |-> proof])
                    /\ fr' = given /\ sr' = given
                    /\ i' = start[1] /\ n' = start[2]
                    /\ p' = IF m < size /\ start[1] > 0 THEN 1 ELSE 0
  BY <1>2
<1> DEFINE first == RootOf(First(Rewritten(f), m))
           begin == Rise(m - 1, size - 1)
           given == IF m >= size \/ begin[1] = 0 THEN first
                    ELSE IF proof = <<>> THEN Zero ELSE proof[1]
<1>4. /\ f <= m /\ pc' = "consistency"
      /\ asked' = [m |-> m, size |-> size, first |-> first, f |-> f, proof |-> proof]
      /\ fr' = given /\ sr' = given /\ i' = begin[1] /\ n' = begin[2]
      /\ p' = IF m < size /\ begin[1] > 0 THEN 1 ELSE 0
  BY <1>3 DEF Call
<1> HIDE DEF first, begin
<1>5. /\ asked'.m = m /\ asked'.size = size /\ asked'.first = first /\ asked'.f = f
      /\ asked'.proof = proof
  BY <1>4
<1>6. of \in Nat \ {0} /\ prefix \in 1 .. of /\ Len(First(Log, of)) = of /\ m \in Nat /\ size \in Nat
  BY FirstIs
<1>7. Consistency[of][prefix] = ConsistencyPath(First(Log, of))[of][0][prefix]
  BY <1>6 DEF Consistency, ConsistencyProof
<1>8. Consistency[of][prefix] \in Seq(RangeHashes(First(Log, of)))
  BY <1>6, <1>7, ConsistencyPathType
<1>9. proof \in Seq(RangeHashes(First(Log, of)))
  BY <1>8, DeliveriesAre
<1>10. RangeHashes(First(Log, of)) \subseteq LogHashes
  BY DEF LogHashes
<1>11. proof \in Seq(LogHashes)
  BY <1>9, <1>10
<1>12. IsConsistency(asked')
  <2>1. m <= size => (first = RangeHash(First(Log, size))[m][0] <=> f = 0)
    BY <1>4, AnchorIs DEF first
  <2> QED BY <1>5, <1>11, <2>1 DEF IsConsistency
<1>13. begin = Rise(asked'.m - 1, asked'.size - 1)
  BY <1>5 DEF begin
<1>14. m < size => ~ (m >= size)
  BY <1>6
<1> QED BY <1>4, <1>5, <1>12, <1>13, <1>14

\* What is answered without a loop.
LEMMA AnsweredAtOnce ==
    ASSUME ConsistencyInv, "m" \in DOMAIN asked, AnswerAtOnce
    PROVE  pc' = "answered" /\ asked' = asked /\ (verdict' = "true" <=> ExactConsistency(asked))
<1>1. IsConsistency(asked) /\ pc = "consistency"
  BY DEF ConsistencyInv, AnswerAtOnce
<1>2. asked.m \in Nat \ {0} /\ asked.size \in Nat \ {0}
  BY <1>1 DEF IsConsistency, Size
<1>3. pc' = "answered" /\ asked' = asked
  BY DEF AnswerAtOnce, Accept, Answer
<1>4. CASE asked.m > asked.size /\ Answer("false")
  BY <1>2, <1>3, <1>4 DEF Answer, ExactConsistency
<1>5. CASE asked.m = asked.size /\ Accept(asked.proof = <<>> /\ asked.first = LogRoot[asked.size])
  <2>1. /\ ExactConsistency(asked) <=> asked.f = 0 /\ asked.proof = WholeProof(asked)
        /\ asked.first = RangeHash(First(Log, asked.size))[asked.m][0] <=> asked.f = 0
        /\ LogRoot[asked.size] = RangeHash(First(Log, asked.size))[asked.size][0]
    BY <1>1, <1>2, <1>5, ConsistencyAskedIs
  <2>2. asked.m \in 1 .. asked.size
    BY <1>2, <1>5
  <2>3. WholeProof(asked) = PrefixTurn(ConsistencyPath(First(Log, asked.size)), First(Log, asked.size), asked.size, 0, asked.m)
    BY <1>2, <2>2, ConsistencyPathIs DEF WholeProof
  <2>4. WholeProof(asked) = <<>>
    BY <1>5, <2>3 DEF PrefixTurn
  <2>5. verdict' = IF asked.proof = <<>> /\ asked.first = LogRoot[asked.size] THEN "true" ELSE "false"
    BY <1>5 DEF Accept, Answer
  <2> QED BY <1>3, <1>5, <2>1, <2>4, <2>5
<1>6. CASE asked.m < asked.size /\ p > Len(asked.proof) /\ Answer("false")
  BY <1>1, <1>3, <1>6 DEF ConsistencyInv, Answer
<1> QED BY <1>3, <1>4, <1>5, <1>6 DEF AnswerAtOnce

\* Every turn of the loop keeps the place.
LEMMA ConsistencyClimbs ==
    ASSUME ConsistencyInv, "m" \in DOMAIN asked, Climb \/ Extend
    PROVE  /\ pc' = "consistency" /\ asked' = asked
           /\ p' <= Len(asked.proof) /\ ConsistencyAt(asked, fr', sr', i', n', p')
<1>1. /\ pc = "consistency" /\ pc' = pc /\ asked' = asked /\ asked.m < asked.size
      /\ p <= Len(asked.proof) /\ IsConsistency(asked)
  BY DEF ConsistencyInv, Climb, Extend, Climbing
<1>2. i \in Nat /\ n \in Nat /\ p \in Nat /\ Len(asked.proof) \in Nat
  <2>1. Len(asked.proof) \in Nat /\ p \in Nat
    BY <1>1 DEF ConsistencyInv, IsConsistency
  <2>2. ~ (p > Len(asked.proof))
    BY <1>1, <2>1
  <2>3. ConsistencyAt(asked, fr, sr, i, n, p)
    BY <1>1, <2>2 DEF ConsistencyInv
  <2> QED BY <2>1, <2>3 DEF ConsistencyAt
<1>3. ConsistencyAt(asked, fr, sr, i, n, p)
  <2>1. ~ (p > Len(asked.proof))
    BY <1>1, <1>2
  <2> QED BY <1>1, <2>1 DEF ConsistencyInv
<1>4. PICK w \in Powers : ConsistencyLevel(asked, fr, sr, i, n, p, w)
  BY <1>3 DEF ConsistencyAt
<1>5. TurnsTo(asked, fr, sr, i, n, p, 2 * w)
  BY <1>1, <1>2, <1>4, ConsistencyTurn
<1>6. i \div 2 \in Nat /\ n \div 2 \in Nat /\ 2 * w \in Powers
  BY <1>2, PowersAre
<1>7. NoWord <=> ~ (p < Len(asked.proof))
  BY <1>2 DEF NoWord
<1>8. CASE Climb
  <2>1. CASE i % 2 = 1 /\ ~NoWord /\ fr' = HashNode(Word, fr) /\ sr' = HashNode(Word, sr) /\ p' = p + 1
    <3>1. i' = i \div 2 /\ n' = n \div 2
      BY <1>8 DEF Climb
    <3>2. ConsistencyLevel(asked, fr', sr', i', n', p', 2 * w)
      BY <1>5, <1>7, <2>1, <3>1 DEF TurnsTo, Word
    <3> QED BY <1>1, <1>2, <1>6, <1>7, <2>1, <3>1, <3>2 DEF ConsistencyAt
  <2>2. CASE i % 2 = 0 /\ i < n /\ ~NoWord /\ sr' = HashNode(sr, Word) /\ p' = p + 1 /\ UNCHANGED fr
    <3>1. i' = i \div 2 /\ n' = n \div 2
      BY <1>8 DEF Climb
    <3>2. ConsistencyLevel(asked, fr', sr', i', n', p', 2 * w)
      BY <1>5, <1>7, <2>2, <3>1 DEF TurnsTo, Word
    <3> QED BY <1>1, <1>2, <1>6, <1>7, <2>2, <3>1, <3>2 DEF ConsistencyAt
  <2>3. CASE i % 2 = 0 /\ i >= n /\ UNCHANGED <<fr, sr, p>>
    <3>1. i' = i \div 2 /\ n' = n \div 2
      BY <1>8 DEF Climb
    <3>2. ~ (i < n)
      BY <1>2, <2>3
    <3>3. ConsistencyLevel(asked, fr', sr', i', n', p', 2 * w)
      BY <1>5, <2>3, <3>1, <3>2 DEF TurnsTo
    <3> QED BY <1>1, <1>2, <1>6, <2>3, <3>1, <3>3 DEF ConsistencyAt
  <2> QED BY <1>8, <2>1, <2>2, <2>3 DEF Climb
<1>9. CASE Extend
  <2>1. i = 0 /\ n > 0 /\ ~NoWord /\ sr' = HashNode(sr, Word) /\ p' = p + 1 /\ n' = n \div 2 /\ fr' = fr /\ i' = i
    BY <1>9 DEF Extend
  <2>2. i % 2 # 1 /\ i < n /\ i' = i \div 2
    BY <1>2, <2>1
  <2>3. ConsistencyLevel(asked, fr', sr', i', n', p', 2 * w)
    BY <1>5, <1>7, <2>1, <2>2 DEF TurnsTo, Word
  <2> QED BY <1>1, <1>2, <1>6, <1>7, <2>1, <2>2, <2>3 DEF ConsistencyAt
<1> QED BY <1>8, <1>9

\* Every step of a question keeps it.
LEMMA ConsistencyInvKept ==
    ASSUME ConsistencyInv,
           \/ UNCHANGED vars \/ "m" \notin DOMAIN asked'
           \/ AskConsistency
           \/ "m" \in DOMAIN asked /\ (AnswerAtOnce \/ Climb \/ Extend \/ OutOfWords \/ AnswerConsistency)
    PROVE  ConsistencyInv'
<1>1. CASE UNCHANGED vars
  BY <1>1 DEF ConsistencyInv, AtWork, vars, loop
<1>2. CASE "m" \notin DOMAIN asked'
  BY <1>2 DEF ConsistencyInv, AtWork
<1>3. CASE AskConsistency
  <2> DEFINE q == asked'
             begin == Rise(q.m - 1, q.size - 1)
  <2>1. /\ IsConsistency(q) /\ pc' = "consistency"
        /\ q.m < q.size =>
             /\ begin[1] = 0 => fr' = q.first /\ sr' = q.first
             /\ begin[1] # 0 /\ q.proof # <<>> => fr' = q.proof[1] /\ sr' = q.proof[1]
             /\ i' = begin[1] /\ n' = begin[2]
             /\ p' = IF begin[1] > 0 THEN 1 ELSE 0
    BY <1>3, ConsistencyAsked
  <2> HIDE DEF q, begin
  <2>2. q.m < q.size => /\ p' \in Nat
                        /\ p' > Len(q.proof) => ~ExactConsistency(q)
                        /\ ~ (p' > Len(q.proof)) => ConsistencyAt(q, fr', sr', i', n', p')
    <3> SUFFICES ASSUME q.m < q.size
                 PROVE  /\ p' \in Nat
                        /\ p' > Len(q.proof) => ~ExactConsistency(q)
                        /\ ~ (p' > Len(q.proof)) => ConsistencyAt(q, fr', sr', i', n', p')
      OBVIOUS
    <3>1. begin = Rise(q.m - 1, q.size - 1)
      BY DEF begin
    <3>2. /\ begin[1] \in Nat /\ begin[2] \in Nat
          /\ begin[1] = 0 => ConsistencyAt(q, q.first, q.first, begin[1], begin[2], 0)
          /\ begin[1] # 0 /\ q.proof # <<>> =>
               ConsistencyAt(q, q.proof[1], q.proof[1], begin[1], begin[2], 1)
          /\ q.proof = <<>> => ~ExactConsistency(q)
      <4>1. OwnRoot(q) <=> begin[1] = 0
        BY <3>1 DEF OwnRoot
      <4> QED BY <2>1, <3>1, <4>1, ConsistencyBegins
    <3>3. q.proof \in Seq(LogHashes) /\ Len(q.proof) \in Nat
      BY <2>1 DEF IsConsistency
    <3>4. CASE begin[1] = 0
      <4>1. p' = 0 /\ ~ (0 > Len(q.proof))
        BY <2>1, <3>2, <3>3, <3>4
      <4> QED BY <2>1, <3>2, <3>4, <4>1
    <3>5. CASE begin[1] # 0 /\ q.proof = <<>>
      <4>1. p' = 1 /\ 1 > Len(q.proof)
        BY <2>1, <3>2, <3>5
      <4> QED BY <3>2, <3>5, <4>1
    <3>6. CASE begin[1] # 0 /\ q.proof # <<>>
      <4>1. p' = 1 /\ ~ (1 > Len(q.proof))
        BY <2>1, <3>2, <3>3, <3>6
      <4> QED BY <2>1, <3>2, <3>6, <4>1
    <3> QED BY <3>4, <3>5, <3>6
  <2> QED BY <2>1, <2>2 DEF ConsistencyInv, AtWork, q
<1>4. CASE "m" \in DOMAIN asked /\ AnswerAtOnce
  <2>1. IsConsistency(asked)
    BY <1>4 DEF ConsistencyInv
  <2> QED BY <1>4, <2>1, AnsweredAtOnce DEF ConsistencyInv, AtWork
<1>5. CASE "m" \in DOMAIN asked /\ (Climb \/ Extend)
  <2>1. /\ pc' = "consistency" /\ asked' = asked
        /\ p' <= Len(asked.proof) /\ ConsistencyAt(asked, fr', sr', i', n', p')
    BY <1>5, ConsistencyClimbs
  <2>2. IsConsistency(asked)
    BY <1>5 DEF ConsistencyInv
  <2>3. p' \in Nat /\ Len(asked.proof) \in Nat
    BY <2>1, <2>2 DEF ConsistencyAt, IsConsistency
  <2>4. ~ (p' > Len(asked.proof))
    BY <2>1, <2>3
  <2> QED BY <2>1, <2>2, <2>3, <2>4 DEF ConsistencyInv, AtWork
<1>6. CASE "m" \in DOMAIN asked /\ (OutOfWords \/ AnswerConsistency)
  <2>1. /\ pc' = "answered" /\ asked' = asked /\ pc = "consistency"
        /\ asked.m < asked.size /\ p <= Len(asked.proof) /\ IsConsistency(asked)
    BY <1>6 DEF ConsistencyInv, OutOfWords, AnswerConsistency, Climbing, Accept, Answer
  <2>2. Len(asked.proof) \in Nat
    BY <2>1 DEF IsConsistency
  <2>3. ConsistencyAt(asked, fr, sr, i, n, p)
    <3>1. p \in Nat
      BY <1>6, <2>1 DEF ConsistencyInv
    <3>2. ~ (p > Len(asked.proof))
      BY <2>1, <2>2, <3>1
    <3> QED BY <1>6, <2>1, <3>2 DEF ConsistencyInv
  <2>4. CASE OutOfWords
    <3>1. verdict' = "false" /\ NoWord /\ (i % 2 = 1 \/ i < n)
      BY <2>4 DEF OutOfWords, Answer
    <3>2. i \in Nat /\ n \in Nat /\ p \in Nat
      BY <2>3 DEF ConsistencyAt
    <3>3. PICK w \in Powers : ConsistencyLevel(asked, fr, sr, i, n, p, w)
      BY <2>3 DEF ConsistencyAt
    <3>4. TurnsTo(asked, fr, sr, i, n, p, 2 * w)
      BY <2>1, <3>2, <3>3, ConsistencyTurn
    <3>5. ~ExactConsistency(asked)
      BY <3>1, <3>4 DEF TurnsTo, NoWord
    <3> QED BY <2>1, <3>1, <3>5 DEF ConsistencyInv, AtWork
  <2>5. CASE AnswerConsistency
    <3>1. /\ i = 0 /\ n = 0
          /\ verdict' = IF p = Len(asked.proof) /\ fr = asked.first /\ sr = LogRoot[asked.size]
                        THEN "true" ELSE "false"
      BY <2>5 DEF AnswerConsistency, Accept, Answer
    <3>2. ConsistencyAt(asked, fr, sr, i, 0, p)
      BY <2>3, <3>1
    <3>3. /\ p = Len(asked.proof) =>
               (fr = asked.first /\ sr = LogRoot[asked.size] <=> ExactConsistency(asked))
          /\ p # Len(asked.proof) => ~ExactConsistency(asked)
          /\ p = Len(WholeProof(asked))
      BY <2>1, <3>2, ConsistencyEnds
    <3> QED BY <2>1, <3>1, <3>3 DEF ConsistencyInv, AtWork
  <2> QED BY <1>6, <2>4, <2>5
<1> QED BY <1>1, <1>2, <1>3, <1>4, <1>5, <1>6

-----------------------------------------------------------------------------
(* verifyConsistency, by a loop over the words: report-verify.ts *)

\* A walk, with its hashes in one set of trees.
Walks(U) == [fn: Nat, sn: Nat, node1: U, node2: U]

\* One word makes another of it.
LEMMA ReportTurnType ==
    ASSUME NEW U, \A l, r \in U : HashNode(l, r) \in U, NEW walk \in Walks(U), NEW word \in U
    PROVE  ReportTurn(walk, word) \in Walks(U)
<1>1. walk.fn \in Nat /\ walk.sn \in Nat /\ walk.node1 \in U /\ walk.node2 \in U
  BY DEF Walks
<1>2. Shifted(walk.fn, walk.sn)[1] \in Nat /\ Shifted(walk.fn, walk.sn)[2] \in Nat
  BY <1>1, ShiftedType
<1>3. walk.fn \div 2 \in Nat /\ walk.sn \div 2 \in Nat
  BY <1>1
<1>4. HashNode(word, walk.node1) \in U /\ HashNode(word, walk.node2) \in U /\ HashNode(walk.node2, word) \in U
  BY <1>1
<1>5. [fn |-> Shifted(walk.fn, walk.sn)[1], sn |-> Shifted(walk.fn, walk.sn)[2],
       node1 |-> HashNode(word, walk.node1), node2 |-> HashNode(word, walk.node2)] \in Walks(U)
  BY <1>2, <1>4 DEF Walks
<1>6. [fn |-> walk.fn \div 2, sn |-> walk.sn \div 2,
       node1 |-> walk.node1, node2 |-> HashNode(walk.node2, word)] \in Walks(U)
  BY <1>1, <1>3, <1>4 DEF Walks
<1> QED BY <1>5, <1>6 DEF ReportTurn

\* What one word makes of the walks so far.
WalkedOn(walks, word) == {ReportTurn(w, word) : w \in {w \in walks : w.sn # 0}}

\* What the recursion of Walked says after so many words.
WalkTurn(walk, begin, own, given, proof, used) ==
    IF used = own THEN {[fn |-> begin[1], sn |-> begin[2], node1 |-> given, node2 |-> given]}
    ELSE WalkedOn(walk[used - 1], proof[used])

WalkBy(walk, begin, own, given, proof) ==
    walk = [used \in own .. Len(proof) |-> WalkTurn(walk, begin, own, given, proof, used)]

\* There is such a walk.
LEMMA WalkExists ==
    ASSUME NEW begin, begin[1] \in Nat, begin[2] \in Nat, NEW own \in Nat, NEW given,
           NEW S, NEW proof \in Seq(S)
    PROVE  \E walk : WalkBy(walk, begin, own, given, proof)
<1> DEFINE B == {given} \cup {proof[k] : k \in 1 .. Len(proof)}
           D == own .. Len(proof)
<1>1. PICK U : B \subseteq U /\ \A l, r \in U : HashNode(l, r) \in U
  BY TreesExist
<1> DEFINE V == SUBSET Walks(U)
           step == [used \in D |-> [g \in [D -> V] |-> WalkTurn(g, begin, own, given, proof, used)]]
<1>2. given \in U /\ Len(proof) \in Nat /\ \A k \in 1 .. Len(proof) : proof[k] \in U
  BY <1>1
<1>3. D \in SUBSET Nat /\ V # {}
  BY <1>2
<1>4. \A used \in D : used \in Nat /\ own <= used /\ used <= Len(proof) /\ (used # own => used - 1 \in D)
  BY <1>2
<1> HIDE DEF B, D
<1>5. ASSUME NEW used \in D, NEW g \in [D -> V]
      PROVE  WalkTurn(g, begin, own, given, proof, used) \in V
  <2>1. CASE used = own
    <3>1. [fn |-> begin[1], sn |-> begin[2], node1 |-> given, node2 |-> given] \in Walks(U)
      BY <1>2 DEF Walks
    <3> QED BY <2>1, <3>1 DEF WalkTurn
  <2>2. CASE used # own
    <3>1. used - 1 \in D /\ used \in 1 .. Len(proof)
      BY <1>2, <1>4, <2>2
    <3>2. g[used - 1] \in SUBSET Walks(U) /\ proof[used] \in U
      BY <1>2, <3>1
    <3> DEFINE word == proof[used]
               walks == g[used - 1]
    <3> HIDE DEF word, walks
    <3>3. \A w \in walks : ReportTurn(w, word) \in Walks(U)
      BY <1>1, <3>2, ReportTurnType DEF word, walks
    <3>4. WalkedOn(walks, word) \in SUBSET Walks(U)
      BY <3>3 DEF WalkedOn
    <3> QED BY <2>2, <3>4 DEF WalkTurn, word, walks
  <2> QED BY <2>1, <2>2
<1> HIDE DEF V
<1>6. step \in [D -> [[D -> V] -> V]]
  BY <1>5
<1>7. LooksBack(step, D, V)
  <2> SUFFICES ASSUME NEW used \in D, NEW g \in [D -> V], NEW h \in [D -> V],
                      \A k \in D : k < used => g[k] = h[k]
               PROVE  step[used][g] = step[used][h]
    BY DEF LooksBack
  <2>1. used # own => g[used - 1] = h[used - 1]
    <3> SUFFICES ASSUME used # own PROVE g[used - 1] = h[used - 1]
      OBVIOUS
    <3>1. used - 1 \in D /\ used - 1 < used
      BY <1>4
    <3> QED BY <3>1
  <2>2. WalkTurn(g, begin, own, given, proof, used) = WalkTurn(h, begin, own, given, proof, used)
    BY <2>1 DEF WalkTurn
  <2> QED BY <2>2
<1> HIDE DEF step
<1>8. PICK walk \in [D -> V] : Solves(walk, step, D)
  BY <1>3, <1>6, <1>7, Recursion
<1>9. \A used \in D : step[used][walk] = WalkTurn(walk, begin, own, given, proof, used)
  BY <1>8 DEF step
<1>10. walk = [used \in D |-> WalkTurn(walk, begin, own, given, proof, used)]
  BY <1>8, <1>9 DEF Solves
<1> QED BY <1>10 DEF WalkBy, D

\* How a walk begins.
Beginning(q) == Rise(q.m - 1, q.size - 1)
Own(q)   == IF Beginning(q)[1] > 0 THEN 1 ELSE 0
Given(q) == IF Own(q) = 1 THEN q.proof[1] ELSE q.first
Walk(q)  == Walked(q.m, q.size, q.proof, q.first)

\* How it goes on.
LEMMA WalkIs ==
    ASSUME NEW q, IsConsistency(q), q.m < q.size, NEW used \in Own(q) .. Len(q.proof)
    PROVE  Walk(q)[used] = WalkTurn(Walk(q), Beginning(q), Own(q), Given(q), q.proof, used)
<1>1. Walk(q) = CHOOSE walk : WalkBy(walk, Beginning(q), Own(q), Given(q), q.proof)
  BY DEF Walk, Walked, WalkBy, WalkTurn, WalkedOn, Beginning, Own, Given
<1>2. Beginning(q)[1] \in Nat /\ Beginning(q)[2] \in Nat
  <2>1. Beginning(q) = Rise(q.m - 1, q.size - 1)
    BY DEF Beginning
  <2>2. /\ Beginning(q)[1] \in Nat /\ Beginning(q)[2] \in Nat /\ (OwnRoot(q) <=> Beginning(q)[1] = 0)
        /\ Beginning(q)[1] = 0 => ConsistencyAt(q, q.first, q.first, Beginning(q)[1], Beginning(q)[2], 0)
        /\ Beginning(q)[1] # 0 /\ q.proof # <<>> =>
             ConsistencyAt(q, q.proof[1], q.proof[1], Beginning(q)[1], Beginning(q)[2], 1)
        /\ q.proof = <<>> => ~ExactConsistency(q)
    BY <2>1, ConsistencyBegins
  <2> QED BY <2>2
<1>3. Own(q) \in Nat /\ q.proof \in Seq(LogHashes)
  BY DEF Own, IsConsistency
<1> DEFINE begin == Beginning(q)
           own   == Own(q)
           given == Given(q)
           proof == q.proof
           walk  == Walk(q)
<1>4. begin[1] \in Nat /\ begin[2] \in Nat /\ own \in Nat /\ proof \in Seq(LogHashes)
  BY <1>2, <1>3
<1>5. walk = CHOOSE w : WalkBy(w, begin, own, given, proof)
  BY <1>1
<1>6. used \in own .. Len(proof)
  OBVIOUS
<1> HIDE DEF begin, own, given, proof, walk
<1>7. \E w : WalkBy(w, begin, own, given, proof)
  BY <1>4, WalkExists
<1>8. WalkBy(walk, begin, own, given, proof)
  BY <1>5, <1>7
<1>9. walk[used] = WalkTurn(walk, begin, own, given, proof, used)
  BY <1>6, <1>8 DEF WalkBy
<1> QED BY <1>9 DEF begin, own, given, proof, walk

\* Levels that take no word are skipped with the one below them.
LEMMA WalkSkips ==
    ASSUME NEW q, IsConsistency(q), q.m < q.size, NEW early, NEW late, NEW used \in Nat, used < Len(q.proof),
           NEW place \in Nat \ {0}, NEW w \in Powers,
           ConsistencyLevel(q, early, late, place, place, used, w)
    PROVE  ConsistencyAt(q, HashNode(q.proof[used + 1], early), HashNode(q.proof[used + 1], late),
                         Shifted(place, place)[1], Shifted(place, place)[2], used + 1)
<1> DEFINE a == HashNode(q.proof[used + 1], early)
           b == HashNode(q.proof[used + 1], late)
           Done(j) == ConsistencyAt(q, a, b, Shifted(j, j)[1], Shifted(j, j)[2], used + 1)
           Good == {j \in Nat : j # 0 => \A v \in Powers :
                      ConsistencyLevel(q, early, late, j, j, used, v) => Done(j)}
<1>1. ASSUME NEW j \in Nat, \A k \in Nat : k < j => k \in Good
      PROVE  j \in Good
  <2> SUFFICES ASSUME j # 0, NEW v \in Powers, ConsistencyLevel(q, early, late, j, j, used, v)
               PROVE  Done(j)
    OBVIOUS
  <2>1. TurnsTo(q, early, late, j, j, used, 2 * v)
    BY ConsistencyTurn
  <2>2. 2 * v \in Powers /\ j \div 2 \in Nat /\ used + 1 \in Nat
    BY PowersAre
  <2>3. CASE j % 2 = 1
    <3>1. ConsistencyLevel(q, a, b, j \div 2, j \div 2, used + 1, 2 * v)
      BY <2>1, <2>3 DEF TurnsTo
    <3>2. Shifted(j, j) = <<j \div 2, j \div 2>>
      BY <2>3, ShiftedIs
    <3>3. Shifted(j, j)[1] = j \div 2 /\ Shifted(j, j)[2] = j \div 2
      BY <3>2
    <3> HIDE DEF a, b
    <3> QED BY <2>2, <3>1, <3>3 DEF ConsistencyAt
  <2>4. CASE j % 2 # 1
    <3>1. ConsistencyLevel(q, early, late, j \div 2, j \div 2, used, 2 * v)
      BY <2>1, <2>4 DEF TurnsTo
    <3>2. j % 2 = 0 /\ j \div 2 # 0 /\ j \div 2 < j
      BY <2>4
    <3>3. Shifted(j, j) = Shifted(j \div 2, j \div 2)
      BY <3>2, ShiftedIs
    <3>4. j \div 2 \in Good
      BY <1>1, <2>2, <3>2
    <3> HIDE DEF Done
    <3>5. Done(j \div 2)
      BY <2>2, <3>1, <3>2, <3>4
    <3> QED BY <3>3, <3>5 DEF Done
  <2> QED BY <2>3, <2>4
<1>2. Good \in SUBSET Nat
  OBVIOUS
<1> HIDE DEF Done
<1>3. place \in Good
  <2> HIDE DEF Good
  <2> QED BY <1>1, <1>2, AllNumbers
<1>4. Done(place)
  BY <1>3
<1> QED BY <1>4 DEF Done

\* One word more keeps the place.
WalkAt(q, walk, used) == ConsistencyAt(q, walk.node1, walk.node2, walk.fn, walk.sn, used)

\* One turn of the report's walk does what the turns of the contract's loop do.
LEMMA WalkGoesOn ==
    ASSUME NEW q, IsConsistency(q), q.m < q.size, NEW used \in Nat, used < Len(q.proof),
           NEW walk, WalkAt(q, walk, used), walk.sn # 0
    PROVE  WalkAt(q, ReportTurn(walk, q.proof[used + 1]), used + 1)
<1> DEFINE early == walk.node1
           late  == walk.node2
           place == walk.fn
           last  == walk.sn
           word  == q.proof[used + 1]
           next  == ReportTurn(walk, word)
<1>1. place \in Nat /\ last \in Nat
  BY DEF WalkAt, ConsistencyAt
<1>2. PICK w \in Powers : ConsistencyLevel(q, early, late, place, last, used, w)
  BY DEF WalkAt, ConsistencyAt
<1> HIDE DEF early, late, place, last
<1>3. TurnsTo(q, early, late, place, last, used, 2 * w)
  BY <1>1, <1>2, ConsistencyTurn
<1>4. 2 * w \in Powers /\ place \div 2 \in Nat /\ last \div 2 \in Nat /\ used + 1 \in Nat
  BY <1>1, PowersAre
<1>5. place <= last
  <2>1. EndsIn(q.m, q.size, w, place) /\ last * w < q.size /\ q.size <= (last + 1) * w
    BY <1>2 DEF ConsistencyLevel
  <2> QED BY <1>1, <2>1, ConsistencyPlaces
<1>6. CASE place % 2 = 1 \/ place = last
  <2>1. next = [fn |-> Shifted(place, last)[1], sn |-> Shifted(place, last)[2],
                node1 |-> HashNode(word, early), node2 |-> HashNode(word, late)]
    BY <1>6 DEF ReportTurn, early, late, place, last
  <2>2. ConsistencyAt(q, HashNode(word, early), HashNode(word, late),
                      Shifted(place, last)[1], Shifted(place, last)[2], used + 1)
    <3>1. CASE place % 2 = 1
      <4>1. Shifted(place, last) = <<place \div 2, last \div 2>>
        <5>1. ~ (place % 2 = 0 /\ place # 0)
          BY <3>1
        <5> QED BY <1>1, <5>1, ShiftedIs
      <4>2. Shifted(place, last)[1] = place \div 2 /\ Shifted(place, last)[2] = last \div 2
        BY <4>1
      <4>3. ConsistencyLevel(q, HashNode(word, early), HashNode(word, late), place \div 2, last \div 2, used + 1, 2 * w)
        BY <1>3, <3>1 DEF TurnsTo
      <4> QED BY <1>4, <4>2, <4>3 DEF ConsistencyAt
    <3>2. CASE place = last
      <4>1. place \in Nat \ {0} /\ last = place
        BY <1>1, <3>2 DEF last
      <4>2. ConsistencyLevel(q, early, late, place, place, used, w)
        BY <1>2, <4>1
      <4>3. ConsistencyAt(q, HashNode(word, early), HashNode(word, late),
                          Shifted(place, place)[1], Shifted(place, place)[2], used + 1)
        BY <4>1, <4>2, WalkSkips
      <4> QED BY <4>1, <4>3
    <3> QED BY <1>6, <3>1, <3>2
  <2> HIDE DEF word, next
  <2> QED BY <2>1, <2>2 DEF WalkAt, word, next
<1>7. CASE ~ (place % 2 = 1 \/ place = last)
  <2>1. next = [fn |-> place \div 2, sn |-> last \div 2, node1 |-> early, node2 |-> HashNode(late, word)]
    BY <1>7 DEF ReportTurn, early, late, place, last
  <2>2. place % 2 # 1 /\ place < last
    BY <1>1, <1>5, <1>7
  <2>3. ConsistencyLevel(q, early, HashNode(late, word), place \div 2, last \div 2, used + 1, 2 * w)
    BY <1>3, <2>2 DEF TurnsTo
  <2>4. ConsistencyAt(q, early, HashNode(late, word), place \div 2, last \div 2, used + 1)
    BY <1>4, <2>3 DEF ConsistencyAt
  <2> HIDE DEF word, next
  <2> QED BY <2>1, <2>4 DEF WalkAt, word, next
<1> QED BY <1>6, <1>7

\* Walks that are right so far: one, or none when there are words too many.
RightWalks(q, walks, used) ==
    \/ walks = {} /\ Len(WholeProof(q)) < used
    \/ \E walk : walks = {walk} /\ WalkAt(q, walk, used)

\* After any number of words the report's walk is where the contract's loop is.
LEMMA WalksAreRight ==
    ASSUME NEW q, IsConsistency(q), q.m < q.size, q.proof # <<>>
    PROVE  Own(q) <= Len(q.proof) /\ RightWalks(q, Walk(q)[Len(q.proof)], Len(q.proof))
<1> DEFINE len == Len(q.proof)
           Good == {u \in Nat : Own(q) <= u /\ u <= len => RightWalks(q, Walk(q)[u], u)}
<1>1. /\ len \in Nat /\ 1 <= len /\ Own(q) \in 0 .. 1 /\ Len(WholeProof(q)) \in Nat
  <2>1. q.m <= q.size
    BY DEF IsConsistency, Size
  <2>2. len \in Nat /\ Len(WholeProof(q)) \in Nat
    BY <2>1, ConsistencyAskedIs
  <2>3. q.proof \in Seq(LogHashes)
    BY DEF IsConsistency
  <2>4. len # 0
    BY <2>3
  <2> QED BY <2>2, <2>4 DEF Own
<1>2. Beginning(q) = Rise(q.m - 1, q.size - 1)
  BY DEF Beginning
<1>3. /\ Beginning(q)[1] \in Nat /\ Beginning(q)[2] \in Nat /\ (OwnRoot(q) <=> Beginning(q)[1] = 0)
      /\ Beginning(q)[1] = 0 => ConsistencyAt(q, q.first, q.first, Beginning(q)[1], Beginning(q)[2], 0)
      /\ Beginning(q)[1] # 0 /\ q.proof # <<>> =>
           ConsistencyAt(q, q.proof[1], q.proof[1], Beginning(q)[1], Beginning(q)[2], 1)
      /\ q.proof = <<>> => ~ExactConsistency(q)
  BY <1>2, ConsistencyBegins
<1>4. ConsistencyAt(q, Given(q), Given(q), Beginning(q)[1], Beginning(q)[2], Own(q))
  <2>1. CASE Beginning(q)[1] = 0
    <3>1. Own(q) = 0 /\ Given(q) = q.first
      BY <2>1 DEF Own, Given
    <3> QED BY <1>3, <2>1, <3>1
  <2>2. CASE Beginning(q)[1] # 0
    <3>1. Own(q) = 1
      BY <1>3, <2>2 DEF Own
    <3>2. Given(q) = q.proof[1]
      BY <3>1 DEF Given
    <3> QED BY <1>3, <2>2, <3>1, <3>2
  <2> QED BY <2>1, <2>2
<1> HIDE DEF len
<1>5. ASSUME NEW u \in Nat, \A k \in Nat : k < u => k \in Good
      PROVE  u \in Good
  <2> SUFFICES ASSUME Own(q) <= u, u <= len PROVE RightWalks(q, Walk(q)[u], u)
    OBVIOUS
  <2>1. u \in Own(q) .. Len(q.proof)
    BY <1>1 DEF len
  <2>2. Walk(q)[u] = WalkTurn(Walk(q), Beginning(q), Own(q), Given(q), q.proof, u)
    BY <2>1, WalkIs
  <2>3. CASE u = Own(q)
    <3> DEFINE walk == [fn |-> Beginning(q)[1], sn |-> Beginning(q)[2], node1 |-> Given(q), node2 |-> Given(q)]
    <3>1. Walk(q)[u] = {walk}
      BY <2>2, <2>3 DEF WalkTurn
    <3>2. walk.fn = Beginning(q)[1] /\ walk.sn = Beginning(q)[2] /\ walk.node1 = Given(q) /\ walk.node2 = Given(q)
      OBVIOUS
    <3> HIDE DEF walk
    <3>3. WalkAt(q, walk, u)
      BY <1>4, <2>3, <3>2 DEF WalkAt
    <3> QED BY <3>1, <3>3 DEF RightWalks
  <2>4. CASE u # Own(q)
    <3> DEFINE v == u - 1
    <3>1. v \in Nat /\ v < u /\ Own(q) <= v /\ v <= len /\ v < Len(q.proof) /\ v + 1 = u
      BY <1>1, <2>4 DEF len
    <3>2. Walk(q)[u] = WalkedOn(Walk(q)[v], q.proof[u])
      BY <2>2, <2>4 DEF WalkTurn
    <3> HIDE DEF v
    <3>3. RightWalks(q, Walk(q)[v], v)
      BY <1>5, <3>1
    <3>4. CASE Walk(q)[v] = {} /\ Len(WholeProof(q)) < v
      <4>1. Walk(q)[u] = {} /\ Len(WholeProof(q)) < u
        BY <1>1, <3>1, <3>2, <3>4 DEF WalkedOn
      <4> QED BY <4>1 DEF RightWalks
    <3>5. ASSUME NEW walk, Walk(q)[v] = {walk}, WalkAt(q, walk, v)
          PROVE  RightWalks(q, Walk(q)[u], u)
      <4>1. CASE walk.sn = 0
        <5>1. {w \in Walk(q)[v] : w.sn # 0} = {}
          BY <3>5, <4>1
        <5>2. Walk(q)[u] = {}
          BY <3>2, <5>1 DEF WalkedOn
        <5> DEFINE early == walk.node1
                   late  == walk.node2
                   place == walk.fn
        <5>3. ConsistencyAt(q, early, late, place, 0, v)
          BY <3>5, <4>1 DEF WalkAt
        <5> HIDE DEF early, late, place
        <5>4. /\ v = Len(q.proof) => (early = q.first /\ late = LogRoot[q.size] <=> ExactConsistency(q))
              /\ v # Len(q.proof) => ~ExactConsistency(q)
              /\ v = Len(WholeProof(q))
          BY <5>3, ConsistencyEnds
        <5>5. Len(WholeProof(q)) < u
          BY <3>1, <5>4
        <5> QED BY <5>2, <5>5 DEF RightWalks
      <4>2. CASE walk.sn # 0
        <5>1. WalkAt(q, ReportTurn(walk, q.proof[v + 1]), v + 1)
          BY <3>1, <3>5, <4>2, WalkGoesOn
        <5>2. {w \in Walk(q)[v] : w.sn # 0} = {walk}
          BY <3>5, <4>2
        <5>3. Walk(q)[u] = {ReportTurn(walk, q.proof[u])}
          BY <3>2, <5>2 DEF WalkedOn
        <5> QED BY <3>1, <5>1, <5>3 DEF RightWalks
      <4> QED BY <4>1, <4>2
    <3> QED BY <3>3, <3>4, <3>5 DEF RightWalks
  <2> QED BY <2>3, <2>4
<1>6. Good \in SUBSET Nat
  OBVIOUS
<1> HIDE DEF Good
<1>7. len \in Good
  BY <1>1, <1>5, <1>6, AllNumbers
<1>8. Own(q) <= len
  BY <1>1
<1> QED BY <1>1, <1>7, <1>8 DEF Good, len

\* The verifier of a report accepts an extension and nothing else.
LEMMA ReportConsistencyIs ==
    ASSUME NEW q, IsConsistency(q)
    PROVE  ReportConsistency(q) <=> ExactConsistency(q)
<1>1. q.m \in Nat \ {0} /\ q.size \in Nat \ {0}
  BY DEF IsConsistency, Size
<1>2. CASE q.m > q.size
  BY <1>1, <1>2 DEF ReportConsistency, ConsistentWith, ExactConsistency
<1>3. CASE q.m = q.size
  <2>1. /\ ExactConsistency(q) <=> q.f = 0 /\ q.proof = WholeProof(q)
        /\ q.first = RangeHash(First(Log, q.size))[q.m][0] <=> q.f = 0
        /\ LogRoot[q.size] = RangeHash(First(Log, q.size))[q.size][0]
    BY <1>1, <1>3, ConsistencyAskedIs
  <2>2. q.m \in 1 .. q.size
    BY <1>1, <1>3
  <2>3. WholeProof(q) = PrefixTurn(ConsistencyPath(First(Log, q.size)), First(Log, q.size), q.size, 0, q.m)
    BY <1>1, <2>2, ConsistencyPathIs DEF WholeProof
  <2>4. WholeProof(q) = <<>>
    BY <1>3, <2>3 DEF PrefixTurn
  <2>5. ReportConsistency(q) <=> q.proof = <<>> /\ q.first = LogRoot[q.size]
    BY <1>1, <1>3 DEF ReportConsistency, ConsistentWith
  <2> QED BY <1>3, <2>1, <2>4, <2>5
<1>4. CASE q.m < q.size
  <2> DEFINE Ending(walk) == walk.sn = 0 /\ walk.node1 = q.first /\ walk.node2 = LogRoot[q.size]
  <2>1. ReportConsistency(q) <=> q.proof # <<>> /\ \E walk \in Walk(q)[Len(q.proof)] : Ending(walk)
    <3>1. ~ (q.m >= q.size)
      BY <1>1, <1>4
    <3> QED BY <3>1 DEF ReportConsistency, ConsistentWith, Walk
  <2>2. CASE q.proof = <<>>
    <3>1. ~ExactConsistency(q)
      <4> DEFINE begin == Rise(q.m - 1, q.size - 1)
      <4>1. begin = Rise(q.m - 1, q.size - 1)
        OBVIOUS
      <4> HIDE DEF begin
      <4>2. /\ begin[1] \in Nat /\ begin[2] \in Nat /\ (OwnRoot(q) <=> begin[1] = 0)
            /\ begin[1] = 0 => ConsistencyAt(q, q.first, q.first, begin[1], begin[2], 0)
            /\ begin[1] # 0 /\ q.proof # <<>> =>
                 ConsistencyAt(q, q.proof[1], q.proof[1], begin[1], begin[2], 1)
            /\ q.proof = <<>> => ~ExactConsistency(q)
        BY <1>4, <4>1, ConsistencyBegins
      <4> QED BY <2>2, <4>2
    <3> QED BY <2>1, <2>2, <3>1
  <2>3. CASE q.proof # <<>>
    <3> DEFINE len == Len(q.proof)
    <3>1. RightWalks(q, Walk(q)[len], len)
      BY <1>4, <2>3, WalksAreRight
    <3>2. len \in Nat /\ Len(WholeProof(q)) \in Nat /\ (ExactConsistency(q) => q.proof = WholeProof(q))
      <4>1. q.m <= q.size
        BY <1>1, <1>4
      <4> QED BY <4>1, ConsistencyAskedIs
    <3>3. Len(WholeProof(q)) # len => ~ExactConsistency(q)
      BY <3>2
    <3>4. CASE Walk(q)[len] = {} /\ Len(WholeProof(q)) < len
      <4>1. ~ExactConsistency(q)
        <5> HIDE DEF len
        <5> QED BY <3>2, <3>3, <3>4
      <4> QED BY <2>1, <3>4, <4>1
    <3>5. ASSUME NEW walk, Walk(q)[len] = {walk}, WalkAt(q, walk, len)
          PROVE  ReportConsistency(q) <=> ExactConsistency(q)
      <4>1. ReportConsistency(q) <=> Ending(walk)
        BY <2>1, <2>3, <3>5
      <4> DEFINE early == walk.node1
                 late  == walk.node2
                 place == walk.fn
                 last  == walk.sn
      <4>2. ConsistencyAt(q, early, late, place, last, len)
        BY <3>5 DEF WalkAt
      <4>3. Ending(walk) <=> last = 0 /\ early = q.first /\ late = LogRoot[q.size]
        OBVIOUS
      <4> HIDE DEF early, late, place, last, Ending
      <4>4. CASE last = 0
        <5>1. ConsistencyAt(q, early, late, place, 0, len)
          BY <4>2, <4>4
        <5>2. /\ len = Len(q.proof) => (early = q.first /\ late = LogRoot[q.size] <=> ExactConsistency(q))
              /\ len # Len(q.proof) => ~ExactConsistency(q)
              /\ len = Len(WholeProof(q))
          <6> HIDE DEF len
          <6> QED BY <1>4, <5>1, ConsistencyEnds
        <5> QED BY <4>1, <4>3, <4>4, <5>2
      <4>5. CASE last # 0
        <5> DEFINE used == len
        <5>1. ConsistencyAt(q, early, late, place, last, used)
          BY <4>2
        <5> HIDE DEF used
        <5>2. used < Len(WholeProof(q))
          BY <1>4, <4>5, <5>1, ConsistencyGoesOn
        <5>3. ~ExactConsistency(q)
          <6>1. len < Len(WholeProof(q))
            BY <5>2 DEF used
          <6> HIDE DEF len
          <6> QED BY <3>2, <3>3, <6>1
        <5> QED BY <4>1, <4>3, <4>5, <5>3
      <4> QED BY <4>4, <4>5
    <3> QED BY <3>1, <3>4, <3>5 DEF RightWalks
  <2> QED BY <2>2, <2>3
<1> QED BY <1>1, <1>2, <1>3, <1>4

-----------------------------------------------------------------------------
(* What the API serves *)

\* A range of the log and its length.
Ranged(hash, len, start) ==
    start + len <= Len(Log) /\ hash = RangeHash(Log)[len][start]

\* No range of the log has the hash of one that is longer or shorter: the prefixes
\* keep a leaf and a node apart.
LEMMA RangesTell ==
    ASSUME NEW len \in Nat \ {0}, NEW start \in Nat, NEW other \in Nat \ {0}, NEW begin \in Nat,
           NEW hash, Ranged(hash, len, start), Ranged(hash, other, begin)
    PROVE  len = other
<1> DEFINE f == RangeHash(Log)
           size == Len(Log)
           Good == {l \in Nat : \A k \in Nat \ {0} : \A s, b \in Nat :
                      l # 0 /\ s + l <= size /\ b + k <= size /\ f[l][s] = f[k][b] => l = k}
<1>1. \A l \in Nat \ {0}, s \in Nat : f[l][s] = Turn(f, Log, l, s)
  BY RangeHashIs
<1>2. size \in Nat /\ DOMAIN Log = 1 .. size
  BY LogAssumption
<1>3. \A at \in 1 .. size, l \in 2 .. size, s \in 0 .. size - 1 : s + l <= size => Log[at] # f[l][s]
  BY <1>2, LogAssumption
<1> HIDE DEF f, size
<1>4. \A k \in Nat \ {0}, s, b \in Nat : s + 1 <= size /\ b + k <= size /\ f[1][s] = f[k][b] => k = 1
  <2> SUFFICES ASSUME NEW k \in Nat \ {0}, NEW s \in Nat, NEW b \in Nat,
                      s + 1 <= size, b + k <= size, f[1][s] = f[k][b], k # 1
               PROVE  FALSE
    OBVIOUS
  <2>1. f[1][s] = Log[s + 1]
    BY <1>1 DEF Turn
  <2>2. s + 1 \in 1 .. size /\ k \in 2 .. size /\ b \in 0 .. size - 1
    BY <1>2
  <2> QED BY <1>3, <2>1, <2>2
<1>5. ASSUME NEW l \in Nat, \A k \in Nat : k < l => k \in Good
      PROVE  l \in Good
  <2> SUFFICES ASSUME NEW k \in Nat \ {0}, NEW s \in Nat, NEW b \in Nat,
                      l # 0, s + l <= size, b + k <= size, f[l][s] = f[k][b]
               PROVE  l = k
    OBVIOUS
  <2>1. CASE l = 1
    BY <1>4, <2>1
  <2>2. CASE k = 1
    BY <1>4, <2>2
  <2>3. CASE l # 1 /\ k # 1
    <3> DEFINE h == Split(l)
               g == Split(k)
    <3>1. h \in 1 .. l - 1 /\ l - h \in 1 .. l - 1 /\ g \in 1 .. k - 1 /\ k - g \in 1 .. k - 1
      BY <2>3, SplitParts
    <3>2. HashNode(f[h][s], f[l - h][s + h]) = HashNode(f[g][b], f[k - g][b + g])
      BY <1>1, <2>3 DEF Turn
    <3> HIDE DEF h, g
    <3>3. f[h][s] = f[g][b] /\ f[l - h][s + h] = f[k - g][b + g]
      BY <3>2 DEF HashNode
    <3>4. h \in Good /\ l - h \in Good
      BY <1>5, <3>1
    <3>5. /\ g \in Nat \ {0} /\ k - g \in Nat \ {0} /\ h # 0 /\ l - h # 0 /\ s + h \in Nat /\ b + g \in Nat
          /\ s + h <= size /\ b + g <= size /\ (s + h) + (l - h) <= size /\ (b + g) + (k - g) <= size
      <4>1. h \in Nat /\ h # 0 /\ g \in Nat /\ g # 0 /\ l - h \in Nat /\ l - h # 0 /\ k - g \in Nat /\ k - g # 0
        BY <3>1
      <4>2. size \in Nat
        BY <1>2
      <4>3. s + h \in Nat /\ (s + h) + (l - h) = s + l /\ s + h <= s + l
        BY <4>1
      <4>4. b + g \in Nat /\ (b + g) + (k - g) = b + k /\ b + g <= b + k
        BY <4>1
      <4>5. s + h <= size /\ b + g <= size
        BY <4>1, <4>2, <4>3, <4>4
      <4> QED BY <4>1, <4>3, <4>4, <4>5
    <3>6. h = g
      BY <3>3, <3>4, <3>5
    <3>7. l - h = k - g
      BY <3>3, <3>4, <3>5
    <3> QED BY <3>1, <3>6, <3>7
  <2> QED BY <2>1, <2>2, <2>3
<1>6. Good \in SUBSET Nat
  OBVIOUS
<1> HIDE DEF Good
<1>7. len \in Good
  BY <1>5, <1>6, AllNumbers
<1>8. start + len <= size /\ begin + other <= size /\ f[len][start] = f[other][begin]
  BY DEF Ranged, f, size
<1> QED BY <1>7, <1>8 DEF Good

\* The roots of the log are those of the log as it is now, for its first leaves, and
\* no two sizes have one root.
LEMMA RootsTell ==
    /\ \A size \in Size : LogRoot[size] = RangeHash(Log)[size][0]
    /\ \A a, b \in Size : LogRoot[a] = LogRoot[b] => a = b
<1>1. ASSUME NEW size \in Size
      PROVE  LogRoot[size] = RangeHash(Log)[size][0] /\ size \in Nat \ {0} /\ 0 + size <= Len(Log)
  <2>1. /\ size \in Nat \ {0} /\ \A k \in 1 .. size : First(Log, size)[k] = Log[k]
        /\ LogRoot[size] = RangeHash(First(Log, size))[size][0]
    BY FirstIs
  <2> DEFINE leaves == First(Log, size)
  <2>2. SameLeaves(leaves, Log, size)
    BY <2>1 DEF SameLeaves
  <2> HIDE DEF leaves
  <2>3. size \in Nat /\ 0 \in Nat /\ 0 + size <= size
    BY <2>1
  <2>4. RangeHash(leaves)[size][0] = RangeHash(Log)[size][0]
    BY ONLY <2>1, <2>2, <2>3, HashIsOfTheRange
  <2>5. 0 + size <= Len(Log)
    BY LogAssumption DEF Size
  <2> QED BY <2>1, <2>4, <2>5 DEF leaves
<1>2. ASSUME NEW a \in Size, NEW b \in Size, LogRoot[a] = LogRoot[b] PROVE a = b
  <2>1. Ranged(LogRoot[a], a, 0) /\ Ranged(LogRoot[a], b, 0) /\ a \in Nat \ {0} /\ b \in Nat \ {0} /\ 0 \in Nat
    BY <1>1, <1>2 DEF Ranged
  <2> QED BY <2>1, RangesTell
<1> QED BY <1>1, <1>2

\* A proof of inclusion that the log serves is made of its hashes, and so is what
\* arrives of it.
LEMMA InclusionType ==
    ASSUME NEW of \in Size, NEW at \in 0 .. of - 1
    PROVE  /\ Inclusion[of][at] \in Seq(LogHashes)
           /\ Deliveries(Inclusion[of][at]) \subseteq Seq(LogHashes)
<1> DEFINE served == Inclusion[of][at]
<1>1. served = InclusionPath(First(Log, of), at)[of][0] /\ of \in Nat \ {0}
  BY FirstIs DEF Inclusion, InclusionProof
<1>2. served \in Seq(RangeHashes(First(Log, of)))
  BY <1>1, InclusionPathType
<1>3. RangeHashes(First(Log, of)) \subseteq LogHashes
  BY DEF LogHashes
<1>4. served \in Seq(LogHashes)
  BY <1>2, <1>3
<1> HIDE DEF served
<1>5. Deliveries(served) \subseteq Seq(LogHashes)
  BY <1>4, DeliveriesAre
<1> QED BY <1>4, <1>5 DEF served

\* Who checks a leaf against an anchored size and a root accepts what is true, when
\* the proof is the right one or the root is.
Accepts(leaf, at, size, proof, root) ==
    LET honest == at < size /\ leaf = Log[at + 1] /\ proof = Inclusion[size][at] IN
    honest \/ root = LogRoot[size] =>
        (IncludedIn(leaf, at, size, proof, root) <=> honest /\ root = LogRoot[size])

\* The verifier of the report accepts a proof exactly when it is that of the leaf at
\* this index, and for no root but that of its size.
LEMMA AcceptsWhatIs ==
    ASSUME NEW leaf, NEW at \in Nat, NEW size \in Size, NEW proof \in Seq(LogHashes), NEW root
    PROVE  Accepts(leaf, at, size, proof, root)
<1> DEFINE q == [leaf |-> leaf, index |-> at, size |-> size, proof |-> proof]
           honest == at < size /\ leaf = Log[at + 1] /\ proof = Inclusion[size][at]
<1>1. q.leaf = leaf /\ q.index = at /\ q.size = size /\ q.proof = proof
  OBVIOUS
<1> HIDE DEF q
<1>2. IsInclusion(q)
  BY <1>1 DEF IsInclusion
<1>3. ReportInclusion(q) <=> ExactInclusion(q)
  BY <1>2, ReportInclusionIs
<1>4. IncludedIn(leaf, at, size, proof, LogRoot[size]) <=> honest
  BY <1>1, <1>3 DEF ReportInclusion, ExactInclusion
<1>5. ASSUME root # LogRoot[size], honest PROVE ~IncludedIn(leaf, at, size, proof, root)
  <2>1. IncludedIn(leaf, at, size, proof, LogRoot[size])
    BY <1>4, <1>5
  <2> DEFINE folds == Folded(leaf, proof)[size][at]
             made(node) == [node |-> node, used |-> Len(proof)]
  <2>2. folds = {made(LogRoot[size])}
    BY <2>1 DEF IncludedIn
  <2>3. made(root).node = root /\ made(LogRoot[size]).node = LogRoot[size]
    OBVIOUS
  <2>4. IncludedIn(leaf, at, size, proof, root) => folds = {made(root)}
    BY DEF IncludedIn
  <2> HIDE DEF folds, made
  <2> QED BY <1>5, <2>2, <2>3, <2>4
<1> HIDE DEF honest
<1>6. honest \/ root = LogRoot[size] =>
         (IncludedIn(leaf, at, size, proof, root) <=> honest /\ root = LogRoot[size])
  <2>1. CASE root = LogRoot[size]
    BY <1>4, <2>1
  <2>2. CASE root # LogRoot[size]
    BY <1>5, <2>2
  <2> QED BY <2>1, <2>2
<1> QED BY <1>6 DEF Accepts, honest

\* The rows of the store's table, for the heads that were sent.
Table(sent) == [k \in DOMAIN sent |-> [idx |-> k - 1, size |-> sent[k].size, root |-> LogRoot[sent[k].of]]]

\* The table of anchors, row by row.
LEMMA TableIs ==
    ASSUME NEW sent \in Seq(SentHead)
    PROVE  /\ Len(sent) \in Nat /\ DOMAIN sent = 1 .. Len(sent)
           /\ DOMAIN Table(sent) = 1 .. Len(sent) /\ Len(Table(sent)) = Len(sent)
           /\ Table(sent) = <<>> <=> sent = <<>>
           /\ \A k \in 1 .. Len(sent) :
                /\ sent[k].size \in Size /\ sent[k].of \in Size
                /\ Table(sent)[k].idx = k - 1 /\ Table(sent)[k].size = sent[k].size
                /\ Table(sent)[k].root = LogRoot[sent[k].of]
                /\ Coherent(Table(sent)[k]) <=> sent[k].of = sent[k].size
<1> DEFINE table == Table(sent)
           row(k) == [idx |-> k - 1, size |-> sent[k].size, root |-> LogRoot[sent[k].of]]
<1>1. Len(sent) \in Nat /\ DOMAIN sent = 1 .. Len(sent)
      /\ \A k \in 1 .. Len(sent) : sent[k].size \in Size /\ sent[k].of \in Size
  <2>1. \A x \in SentHead : x.size \in Size /\ x.of \in Size
    BY DEF SentHead
  <2>2. \A k \in 1 .. Len(sent) : sent[k] \in SentHead
    OBVIOUS
  <2> QED BY <2>1, <2>2
<1>2. table = [k \in 1 .. Len(sent) |-> row(k)]
  BY <1>1 DEF Table
<1>3. \A k \in 1 .. Len(sent) :
         row(k).idx = k - 1 /\ row(k).size = sent[k].size /\ row(k).root = LogRoot[sent[k].of]
  OBVIOUS
<1> DEFINE rows == {row(k) : k \in 1 .. Len(sent)}
<1>4. table \in [1 .. Len(sent) -> rows]
  BY <1>2
<1> HIDE DEF table, row, rows
<1>5. table \in Seq(rows) /\ Len(table) = Len(sent) /\ DOMAIN table = 1 .. Len(sent)
  BY <1>1, <1>4, SeqDef, LenProperties
<1>6. table = <<>> <=> sent = <<>>
  BY <1>1, <1>5
<1>7. \A k \in 1 .. Len(sent) :
         table[k].idx = k - 1 /\ table[k].size = sent[k].size /\ table[k].root = LogRoot[sent[k].of]
  BY <1>2, <1>3
<1>8. \A k \in 1 .. Len(sent) : Coherent(table[k]) <=> sent[k].of = sent[k].size
  BY <1>1, <1>7, RootsTell DEF Coherent
<1> QED BY <1>1, <1>5, <1>6, <1>7, <1>8 DEF table

-----------------------------------------------------------------------------
(* verify.js, for one leaf *)

\* The page's two answers about the named anchor.
PageAnswers(sent, answers, named, leaf, at, given, result) ==
    LET row    == named + 1
        coherent == row \in DOMAIN sent /\ sent[row].of = sent[row].size
        honest == /\ row \in DOMAIN sent /\ at < sent[row].size
                  /\ leaf = Log[at + 1]
                  /\ given = Inclusion[sent[row].size][at] IN
    /\ result = {} <=> "head" \notin answers
    /\ \A shown \in result :
         /\ shown.onChain => "leaf" \in answers /\ row \in DOMAIN sent
         /\ "leaf" \in answers /\ (honest \/ coherent) => (shown.onChain <=> honest /\ coherent)
         /\ row = Len(sent) /\ (honest \/ coherent) => (shown.locally <=> honest /\ coherent)
         /\ row = Len(sent) /\ "leaf" \in answers => (shown.onChain <=> shown.locally)

\* The page's check of one leaf: the contract's half about the anchor that was named, the local half
\* about the newest.
LEMMA LeafChecked ==
    ASSUME NEW sent \in Seq(SentHead), sent # <<>>, NEW answers, NEW named \in Nat, NEW leaf, NEW at \in Nat,
           NEW given \in Seq(LogHashes)
    PROVE  PageAnswers(sent, answers, named, leaf, at, given,
                       RunLeafCheck({Table(sent)}, answers, named, leaf, at, given))
<1> DEFINE table == Table(sent)
           row   == named + 1
           coherent == row \in DOMAIN sent /\ sent[row].of = sent[row].size
           honest == /\ row \in DOMAIN sent /\ at < sent[row].size
                     /\ leaf = Log[at + 1]
                     /\ given = Inclusion[sent[row].size][at]
           fits(k) == IncludedIn(leaf, at, table[k].size, given, table[k].root)
           to(call) == IF call \in answers THEN {table} ELSE {}
           result == RunLeafCheck({table}, answers, named, leaf, at, given)
           onChain == VerifyLeafOnChain(to("leaf"), named, leaf, at, given)
           locally(heads) == \E head \in ReadChainHead({heads}) : VerifyLeafLocal(leaf, at, given, head)
<1>1. /\ Len(sent) \in Nat /\ DOMAIN sent = 1 .. Len(sent)
      /\ DOMAIN table = 1 .. Len(sent) /\ Len(table) = Len(sent) /\ table # <<>>
      /\ \A k \in 1 .. Len(sent) : /\ sent[k].size \in Size /\ sent[k].of \in Size
                                   /\ table[k].size = sent[k].size /\ table[k].root = LogRoot[sent[k].of]
                                   /\ Coherent(table[k]) <=> sent[k].of = sent[k].size
  BY TableIs
<1>2. result = {[onChain |-> onChain, locally |-> locally(heads)] : heads \in to("head")}
  BY DEF RunLeafCheck
<1> HIDE DEF table, result
<1>3. row \in DOMAIN sent /\ (honest \/ coherent) => (fits(row) <=> honest /\ coherent)
  <2> SUFFICES ASSUME row \in 1 .. Len(sent), honest \/ coherent PROVE fits(row) <=> honest /\ coherent
    BY <1>1
  <2> DEFINE size == sent[row].size
             root == LogRoot[sent[row].of]
             right == at < size /\ leaf = Log[at + 1] /\ given = Inclusion[size][at]
  <2>1. size \in Size /\ (coherent <=> root = LogRoot[size]) /\ (honest <=> right)
    <3>1. Coherent(table[row]) <=> root = LogRoot[size]
      BY <1>1 DEF Coherent
    <3> QED BY <1>1, <3>1
  <2>2. fits(row) <=> IncludedIn(leaf, at, size, given, root)
    BY <1>1
  <2> HIDE DEF size, root, coherent, honest
  <2>3. Accepts(leaf, at, size, given, root)
    BY <2>1, AcceptsWhatIs
  <2>4. right \/ root = LogRoot[size] =>
           (IncludedIn(leaf, at, size, given, root) <=> right /\ root = LogRoot[size])
    BY <2>3 DEF Accepts
  <2> HIDE DEF right
  <2> QED BY <2>1, <2>2, <2>4
<1>4. onChain <=> "leaf" \in answers /\ row \in DOMAIN sent /\ fits(row)
  <2>1. \A heads \in to("leaf") : heads = table
    OBVIOUS
  <2>2. onChain <=> \E heads \in to("leaf") : row \in DOMAIN heads
                       /\ IncludedIn(leaf, at, heads[row].size, given, heads[row].root)
    BY DEF VerifyLeafOnChain
  <2>3. onChain <=> "leaf" \in answers /\ row \in DOMAIN table
                       /\ IncludedIn(leaf, at, table[row].size, given, table[row].root)
    BY <2>1, <2>2
  <2> QED BY <1>1, <2>3
<1>5. row = Len(sent) => (locally(table) <=> fits(row)) /\ row \in DOMAIN sent
  <2>1. ReadChainHead({table}) = {table[Len(table)]}
    BY <1>1 DEF ReadChainHead
  <2>2. locally(table) <=> IncludedIn(leaf, at, table[Len(table)].size, given, table[Len(table)].root)
    BY <2>1 DEF VerifyLeafLocal
  <2>3. row \in Nat \ {0} /\ Len(table) = Len(sent)
    BY <1>1
  <2> HIDE DEF locally, row
  <2> QED BY <1>1, <2>2, <2>3
<1> HIDE DEF onChain, locally, honest, coherent, fits
<1>6. \A shown \in result : shown = [onChain |-> onChain, locally |-> locally(table)]
  BY <1>2
<1>7. \A shown \in result : shown.onChain = onChain /\ shown.locally = locally(table)
  BY <1>6
<1>8. result = {} <=> "head" \notin answers
  BY <1>2
<1>9. coherent => row \in DOMAIN sent
  BY DEF coherent
<1>10. honest => row \in DOMAIN sent
  BY DEF honest
<1>11. \A shown \in result :
         /\ shown.onChain => "leaf" \in answers /\ row \in DOMAIN sent
         /\ "leaf" \in answers /\ (honest \/ coherent) => (shown.onChain <=> honest /\ coherent)
         /\ row = Len(sent) /\ (honest \/ coherent) => (shown.locally <=> honest /\ coherent)
         /\ row = Len(sent) /\ "leaf" \in answers => (shown.onChain <=> shown.locally)
  BY <1>3, <1>4, <1>5, <1>7, <1>9, <1>10
<1> QED BY <1>8, <1>11 DEF PageAnswers, honest, coherent, result, table

-----------------------------------------------------------------------------
(* What is served about a leaf *)

\* The log has only grown, and each size was sent with one root and each root with
\* one size.
Grows(sent) ==
    /\ sent \in Seq(SentHead)
    /\ \A k, l \in DOMAIN sent :
          /\ k <= l => sent[k].size <= sent[l].size
          /\ sent[k].size = sent[l].size <=> sent[k].of = sent[l].of

\* A tree of that size holds the leaf.
Holds(size, wanted) == size > 0 /\ \E l \in 1 .. size : Log[l] = wanted

\* What is served is accepted for a root, looked up on a chain.
Accepted(anchors, wanted, root, served) ==
    \E index \in ReadIndexOfRoot({anchors}, root) :
        VerifyLeafOnChain({anchors}, index, wanted, served.index, served.proof)

\* The leaf has one place, or none.
LEMMA PlaceOf ==
    ASSUME NEW wanted, NEW size \in Size
    PROVE  /\ IndexOf(wanted) \subseteq 0 .. Len(Log) - 1
           /\ \A at \in IndexOf(wanted) : Log[at + 1] = wanted
           /\ Holds(size, wanted) <=> \E at \in IndexOf(wanted) : at < size
<1>1. Len(Log) \in Nat /\ DOMAIN Log = 1 .. Len(Log) /\ size \in 1 .. Len(Log)
  BY LogAssumption DEF Size
<1>2. \A at : at \in IndexOf(wanted) <=> at \in 0 .. Len(Log) - 1 /\ Log[at + 1] = wanted
  <2>1. ASSUME NEW at \in IndexOf(wanted) PROVE at \in 0 .. Len(Log) - 1 /\ Log[at + 1] = wanted
    <3>1. PICK l \in DOMAIN Log : at = l - 1 /\ Log[l] = wanted
      BY DEF IndexOf
    <3>2. l \in 1 .. Len(Log) /\ at + 1 = l
      BY <1>1, <3>1
    <3> QED BY <1>1, <3>1, <3>2
  <2>2. ASSUME NEW at \in 0 .. Len(Log) - 1, Log[at + 1] = wanted PROVE at \in IndexOf(wanted)
    <3>1. at + 1 \in DOMAIN Log /\ at = (at + 1) - 1
      BY <1>1
    <3> QED BY <2>2, <3>1 DEF IndexOf
  <2> QED BY <2>1, <2>2
<1>3. ASSUME Holds(size, wanted) PROVE \E at \in IndexOf(wanted) : at < size
  <2>1. PICK l \in 1 .. size : Log[l] = wanted
    BY <1>3 DEF Holds
  <2>2. l - 1 \in 0 .. Len(Log) - 1 /\ (l - 1) + 1 = l /\ l - 1 < size
    BY <1>1
  <2>3. l - 1 \in IndexOf(wanted)
    BY <1>2, <2>1, <2>2
  <2> QED BY <2>2, <2>3
<1>4. ASSUME NEW at \in IndexOf(wanted), at < size PROVE Holds(size, wanted)
  <2>1. at \in 0 .. Len(Log) - 1 /\ Log[at + 1] = wanted
    BY <1>2
  <2>2. at + 1 \in 1 .. size
    BY <1>1, <1>4, <2>1
  <2> QED BY <1>1, <2>1, <2>2 DEF Holds
<1> QED BY <1>2, <1>3, <1>4

\* For an anchored head that holds the leaf, a proof is served.
ServedFor(sent, wanted, k) ==
    LET row == Table(sent)[k]
        served == ServeInclusion(Table(sent), wanted, row.root, row.size) IN
    /\ served.status = 200
    /\ served.index \in Nat /\ served.index < row.size /\ Log[served.index + 1] = wanted
    /\ served.proof = Inclusion[row.size][served.index]

\* A leaf that an anchored log holds has one answer.
LEMMA ServesInclusion ==
    ASSUME NEW sent \in Seq(SentHead), NEW wanted, NEW k \in DOMAIN sent, Holds(sent[k].size, wanted)
    PROVE  ServedFor(sent, wanted, k)
<1> DEFINE table == Table(sent)
           size == sent[k].size
           root == LogRoot[sent[k].of]
           covered == {index \in IndexOf(wanted) : index < size}
           index == CHOOSE index \in covered : TRUE
           served == ServeInclusion(table, wanted, root, size)
<1>1. size \in Size /\ k \in DOMAIN table /\ table[k].size = size /\ table[k].root = root
  BY TableIs
<1>2. size \in Nat \ {0}
  BY <1>1, FirstIs
<1>3. table[k] \in AnchorBy(table, root, size)
  BY <1>1 DEF AnchorBy
<1>4. /\ IndexOf(wanted) \subseteq 0 .. Len(Log) - 1
      /\ \A at \in IndexOf(wanted) : Log[at + 1] = wanted
      /\ \E at \in IndexOf(wanted) : at < size
  BY <1>1, PlaceOf
<1>5. covered # {}
  BY <1>4
<1>6. index \in covered
  BY <1>5
<1>7. index \in Nat /\ index < size /\ Log[index + 1] = wanted
  BY <1>4, <1>6
<1>8. served = [status |-> 200, index |-> index, size |-> size, root |-> root, proof |-> Inclusion[size][index]]
  BY <1>2, <1>3, <1>5 DEF ServeInclusion
<1>9. served.status = 200 /\ served.index = index /\ served.proof = Inclusion[size][index]
  BY <1>8
<1> HIDE DEF index, served
<1> QED BY <1>1, <1>7, <1>9 DEF ServedFor, served, table

\* The contract, which finds an anchor by its root, accepts it exactly for a coherent
\* head: the first anchor with that root has that size.
ServedRightlyFor(sent, wanted, k) ==
    LET row == Table(sent)[k] IN
    Accepted(Table(sent), wanted, row.root, ServeInclusion(Table(sent), wanted, row.root, row.size))
      <=> Coherent(row)

\* So does the contract.
LEMMA ServedIsAccepted ==
    ASSUME NEW sent, Grows(sent), NEW wanted, NEW k \in DOMAIN sent, Holds(sent[k].size, wanted)
    PROVE  ServedRightlyFor(sent, wanted, k)
<1> DEFINE table == Table(sent)
           size == sent[k].size
           root == LogRoot[sent[k].of]
           served == ServeInclusion(table, wanted, root, size)
           at == served.index
           proof == served.proof
           accepted == Accepted(table, wanted, root, served)
           fits == IncludedIn(wanted, at, size, proof, root)
<1>1. /\ sent \in Seq(SentHead) /\ Len(sent) \in Nat /\ DOMAIN sent = 1 .. Len(sent) /\ DOMAIN table = 1 .. Len(sent)
      /\ \A a \in 1 .. Len(sent) : /\ sent[a].size \in Size /\ sent[a].of \in Size
                                   /\ table[a].size = sent[a].size /\ table[a].root = LogRoot[sent[a].of]
      /\ \A a, b \in 1 .. Len(sent) : sent[a].size = sent[b].size <=> sent[a].of = sent[b].of
  BY TableIs DEF Grows
<1>2. /\ at \in Nat /\ at < size /\ Log[at + 1] = wanted
      /\ proof = Inclusion[size][at]
  <2>1. ServedFor(sent, wanted, k)
    BY <1>1, ServesInclusion
  <2>2. table[k].size = size /\ table[k].root = root
    BY <1>1
  <2> QED BY <2>1, <2>2 DEF ServedFor
<1> HIDE DEF table, served
<1>3. \A a \in 1 .. Len(sent) : table[a].root = root <=> table[a].size = size
  BY <1>1, RootsTell
<1>4. accepted => fits
  <2> SUFFICES ASSUME accepted PROVE fits
    OBVIOUS
  <2>1. PICK found \in ReadIndexOfRoot({table}, root) :
           VerifyLeafOnChain({table}, found, wanted, at, proof)
    BY DEF Accepted
  <2>2. PICK a \in DOMAIN table : found = a - 1 /\ table[a].root = root
    BY <2>1 DEF ReadIndexOfRoot
  <2>3. a \in 1 .. Len(sent) /\ found + 1 = a
    BY <1>1, <2>2
  <2>4. IncludedIn(wanted, at, table[a].size, proof, table[a].root)
    BY <2>1, <2>3 DEF VerifyLeafOnChain
  <2> QED BY <1>3, <2>2, <2>3, <2>4
<1>5. fits => accepted
  <2> SUFFICES ASSUME fits PROVE accepted
    OBVIOUS
  <2> DEFINE Same == {a \in 1 .. Len(sent) : table[a].root = root}
  <2>1. k \in Same /\ Same \in SUBSET Nat
    BY <1>1
  <2>2. PICK a \in Same : \A b \in Same : a <= b
    BY <2>1, LeastNumber
  <2>3. \A b \in 1 .. a - 1 : table[b].root # root
    BY <1>1, <2>2
  <2>4. a \in DOMAIN table /\ table[a].root = root /\ table[a].size = size
    BY <1>1, <1>3, <2>2
  <2>5. a - 1 \in ReadIndexOfRoot({table}, root)
    BY <2>3, <2>4 DEF ReadIndexOfRoot
  <2>6. (a - 1) + 1 = a
    BY <2>1, <2>2
  <2>7. VerifyLeafOnChain({table}, a - 1, wanted, at, proof)
    BY <2>4, <2>6 DEF VerifyLeafOnChain
  <2> QED BY <2>5, <2>7 DEF Accepted
<1>6. fits <=> root = LogRoot[size]
  <2>1. size \in Size /\ size \in Nat \ {0}
    BY <1>1, FirstIs
  <2> HIDE DEF size, root, at, proof
  <2>2. at \in 0 .. size - 1
    BY <1>2, <2>1
  <2>3. proof \in Seq(LogHashes)
    BY <1>2, <2>1, <2>2, InclusionType
  <2>4. Accepts(wanted, at, size, proof, root)
    BY <1>2, <2>1, <2>3, AcceptsWhatIs
  <2> QED BY <1>2, <2>4 DEF Accepts
<1>7. table[k].size = size /\ table[k].root = root
  BY <1>1
<1> HIDE DEF accepted, fits, size, root
<1>8. accepted <=> Coherent(table[k])
  BY <1>4, <1>5, <1>6, <1>7 DEF Coherent
<1> QED BY <1>7, <1>8 DEF ServedRightlyFor, accepted, table, served

\* The episode names the earliest anchor that holds the leaf.
NamesAnchor(sent, wanted, anchor) ==
    LET anchors == Table(sent)
        held(a) == Holds(a.size, wanted) IN
    /\ anchor = {} <=> ~\E a \in Range(anchors) : held(a)
    /\ \A a \in anchor :
         /\ Accepted(anchors, wanted, a.root, ServeInclusion(anchors, wanted, a.root, a.size)) <=> Coherent(a)
         /\ \A b \in Range(anchors) : b.size < a.size => ~held(b)

\* Of an episode the API names the first anchor that holds its leaf.
LEMMA EpisodesNameTheFirst ==
    ASSUME NEW sent, Grows(sent), NEW wanted
    PROVE  NamesAnchor(sent, wanted, EpisodeAnchor(Table(sent), wanted))
<1> DEFINE table == Table(sent)
           covering == Covering(table, wanted)
           anchor == EpisodeAnchor(table, wanted)
<1>1. /\ sent \in Seq(SentHead)
      /\ Len(sent) \in Nat /\ DOMAIN sent = 1 .. Len(sent) /\ DOMAIN table = 1 .. Len(sent)
      /\ \A a \in 1 .. Len(sent) : sent[a].size \in Size /\ table[a].size = sent[a].size
      /\ \A a, b \in 1 .. Len(sent) : a <= b => sent[a].size <= sent[b].size
  BY TableIs DEF Grows
<1>2. \A a : a \in covering <=> a \in 1 .. Len(sent) /\ Holds(sent[a].size, wanted)
  <2>1. ASSUME NEW a \in 1 .. Len(sent)
        PROVE  Holds(sent[a].size, wanted) <=> \E at \in IndexOf(wanted) : at < table[a].size
    BY <1>1, PlaceOf
  <2> QED BY <1>1, <2>1 DEF Covering
<1>3. anchor = {table[a] : a \in {a \in covering : \A b \in covering : a <= b}}
  BY DEF EpisodeAnchor
<1> HIDE DEF covering, anchor, table
<1>4. ASSUME NEW a \in covering PROVE anchor # {}
  <2>1. covering \in SUBSET Nat /\ covering # {}
    BY <1>2, <1>4
  <2>2. PICK least \in covering : \A b \in covering : least <= b
    BY <2>1, LeastNumber
  <2> QED BY <1>3, <2>2
<1>5. \A a \in Range(table) : \E k \in 1 .. Len(sent) : a = table[k]
  BY <1>1 DEF Range
<1>6. \A k \in 1 .. Len(sent) : table[k] \in Range(table)
  BY <1>1 DEF Range
<1>7. anchor = {} <=> ~\E a \in Range(table) : Holds(a.size, wanted)
  <2>1. ASSUME NEW a \in Range(table), Holds(a.size, wanted) PROVE anchor # {}
    <3>1. PICK k \in 1 .. Len(sent) : a = table[k]
      BY <1>5
    <3>2. k \in covering
      BY <1>1, <1>2, <2>1, <3>1
    <3> QED BY <1>4, <3>2
  <2>2. ASSUME NEW x \in anchor PROVE \E a \in Range(table) : Holds(a.size, wanted)
    <3>1. PICK k \in covering : x = table[k]
      BY <1>3
    <3>2. k \in 1 .. Len(sent) /\ Holds(table[k].size, wanted)
      BY <1>1, <1>2
    <3> QED BY <1>6, <3>2
  <2> QED BY <2>1, <2>2
<1>8. ASSUME NEW a \in anchor
      PROVE  /\ Accepted(table, wanted, a.root, ServeInclusion(table, wanted, a.root, a.size)) <=> Coherent(a)
             /\ \A b \in Range(table) : b.size < a.size => ~Holds(b.size, wanted)
  <2>1. PICK k \in covering : a = table[k] /\ \A b \in covering : k <= b
    BY <1>3, <1>8
  <2>2. k \in 1 .. Len(sent) /\ Holds(sent[k].size, wanted)
    BY <1>2
  <2>3. ServedRightlyFor(sent, wanted, k)
    BY <1>1, <2>2, ServedIsAccepted
  <2>4. Accepted(table, wanted, a.root, ServeInclusion(table, wanted, a.root, a.size)) <=> Coherent(a)
    BY <2>1, <2>3 DEF ServedRightlyFor, table
  <2>5. ASSUME NEW b \in Range(table), b.size < a.size, Holds(b.size, wanted) PROVE FALSE
    <3>1. PICK l \in 1 .. Len(sent) : b = table[l]
      BY <1>5
    <3>2. l \in covering
      BY <1>1, <1>2, <2>5, <3>1
    <3>3. sent[k].size <= sent[l].size /\ sent[l].size < sent[k].size
      BY <1>1, <2>1, <2>2, <2>5, <3>1, <3>2
    <3>4. sent[k].size \in Nat /\ sent[l].size \in Nat
      BY <1>1, <2>2, FirstIs
    <3> QED BY <3>3, <3>4
  <2> QED BY <2>4, <2>5
<1> QED BY <1>7, <1>8 DEF NamesAnchor, table, anchor

\* Nothing is served for a root that was not anchored with that size, or for a leaf
\* past it.
ServesWhatIsHeld(sent, wanted, root, head, inclusion) ==
    LET anchors == Table(sent) IN
    /\ inclusion.status = 200 <=>
         \E a \in Range(anchors) : a.size = head /\ a.root = root /\ Holds(a.size, wanted)
    /\ inclusion.status = 200 =>
         (Accepted(anchors, wanted, root, inclusion) <=> root = LogRoot[head])

\* GET /proofs/inclusion answers of a head in the table that holds the leaf, with a proof the
\* contract accepts when the head is coherent, and of no other.
LEMMA InclusionIsServed ==
    ASSUME NEW sent, Grows(sent), NEW wanted, NEW root, NEW head \in Nat
    PROVE  ServesWhatIsHeld(sent, wanted, root, head, ServeInclusion(Table(sent), wanted, root, head))
<1> DEFINE table == Table(sent)
           inclusion == ServeInclusion(table, wanted, root, head)
           covered == {index \in IndexOf(wanted) : index < head}
           index == CHOOSE index \in covered : TRUE
<1>1. /\ sent \in Seq(SentHead) /\ Len(sent) \in Nat /\ DOMAIN sent = 1 .. Len(sent) /\ DOMAIN table = 1 .. Len(sent)
      /\ \A a \in 1 .. Len(sent) : sent[a].size \in Size /\ table[a].size = sent[a].size
  BY TableIs DEF Grows
<1>2. Range(table) = {table[a] : a \in 1 .. Len(sent)}
  BY <1>1 DEF Range
<1>3. AnchorBy(table, root, head) = {table[a] : a \in {a \in 1 .. Len(sent) : table[a].root = root /\ table[a].size = head}}
  BY <1>1 DEF AnchorBy
<1>4. inclusion = IF head < 1 THEN [status |-> 400]
                  ELSE IF AnchorBy(table, root, head) = {} \/ covered = {} THEN [status |-> 404]
                  ELSE [status |-> 200, index |-> index, size |-> head, root |-> root, proof |-> Inclusion[head][index]]
  BY DEF ServeInclusion, Invalid, NotFound
<1> DEFINE held == head >= 1 /\ AnchorBy(table, root, head) # {} /\ covered # {}
<1>5. inclusion.status = 200 <=> held
  <2>1. /\ [status |-> 400].status = 400 /\ [status |-> 404].status = 404
        /\ [status |-> 200, index |-> index, size |-> head, root |-> root, proof |-> Inclusion[head][index]].status = 200
    OBVIOUS
  <2>2. CASE head < 1
    BY <1>4, <2>1, <2>2
  <2>3. CASE head >= 1
    BY <1>4, <2>1, <2>3
  <2> QED BY <2>2, <2>3
<1>6. \A a \in 1 .. Len(sent) : table[a].size = head => head \in Size /\ head >= 1 /\ (Holds(head, wanted) <=> covered # {})
  <2> SUFFICES ASSUME NEW a \in 1 .. Len(sent), table[a].size = head
               PROVE  head \in Size /\ head >= 1 /\ (Holds(head, wanted) <=> covered # {})
    OBVIOUS
  <2>1. head \in Size
    BY <1>1
  <2>2. head >= 1
    BY <2>1 DEF Size
  <2>3. Holds(head, wanted) <=> covered # {}
    BY <2>1, PlaceOf
  <2> QED BY <2>1, <2>2, <2>3
<1> HIDE DEF inclusion, covered, table
<1>7. held <=> \E a \in Range(table) : a.size = head /\ a.root = root /\ Holds(a.size, wanted)
  BY <1>2, <1>3, <1>6
<1>8. held => (Accepted(table, wanted, root, inclusion) <=> root = LogRoot[head])
  <2> SUFFICES ASSUME held PROVE Accepted(table, wanted, root, inclusion) <=> root = LogRoot[head]
    OBVIOUS
  <2>1. PICK k \in 1 .. Len(sent) : table[k].size = head /\ table[k].root = root /\ Holds(table[k].size, wanted)
    BY <1>2, <1>7
  <2>2. k \in DOMAIN sent /\ Holds(sent[k].size, wanted)
    BY <1>1, <2>1
  <2>3. ServedRightlyFor(sent, wanted, k)
    BY <2>2, ServedIsAccepted
  <2>4. Accepted(table, wanted, root, inclusion) <=> Coherent(table[k])
    BY <2>1, <2>3 DEF ServedRightlyFor, table, inclusion
  <2> QED BY <2>1, <2>4 DEF Coherent
<1> HIDE DEF held
<1> QED BY <1>5, <1>7, <1>8 DEF ServesWhatIsHeld, table, inclusion

\* The sizes that were sent.
SentSizes(sent) == {sent[k].size : k \in DOMAIN sent}

\* The two heads of a served consistency proof are heads of one log exactly when both
\* are coherent, of which one is.
ServesOneLog(sent, from, head, consistency) ==
    LET anchors == Table(sent) IN
    /\ consistency.status = 200 <=> from <= head /\ {from, head} \subseteq SentSizes(sent)
    /\ consistency.status = 200 =>
         \A a, b \in Range(anchors) :
             a.size = from /\ b.size = head /\ (Coherent(a) \/ Coherent(b)) =>
                 (ConsistentWith(from, head, consistency.proof, a.root, b.root) <=> Coherent(a) /\ Coherent(b))

\* The root of a size is that of the first leaves of any later one.
LEMMA PrefixRoot ==
    ASSUME NEW from \in Size, NEW head \in Size, from <= head
    PROVE  LogRoot[from] = RangeHash(First(Log, head))[from][0]
<1>1. 0 \in 0 .. Len(Log) /\ 0 <= from /\ from <= from
  BY FirstIs, LogAssumption
<1>2. RootOf(First(Rewritten(0), from)) = RangeHash(First(Log, from))[from][0]
  BY <1>1, AnchorIs
<1>3. RootOf(First(Rewritten(0), from)) = RangeHash(First(Log, head))[from][0]
  BY <1>1, AnchorIs
<1> QED BY <1>2, <1>3, FirstIs

\* What the log has to show that one of its sizes extends another.
OwnProof(from, head) == IF from = head THEN <<>> ELSE Consistency[head][from]

\* It is made of the log's hashes.
LEMMA OwnProofIs ==
    ASSUME NEW from \in Size, NEW head \in Size, from <= head
    PROVE  OwnProof(from, head) \in Seq(LogHashes) /\ OwnProof(from, head) = Consistency[head][from]
<1>1. from \in Nat \ {0} /\ head \in Nat \ {0} /\ from \in 1 .. head
  BY FirstIs
<1>2. Consistency[head][from] = ConsistencyPath(First(Log, head))[head][0][from]
  BY <1>1, FirstIs DEF Consistency, ConsistencyProof
<1>3. Consistency[head][from] \in Seq(RangeHashes(First(Log, head)))
  BY <1>1, <1>2, ConsistencyPathType
<1>4. RangeHashes(First(Log, head)) \subseteq LogHashes
  BY DEF LogHashes
<1>5. from = head => Consistency[head][from] = <<>>
  <2>1. ConsistencyPath(First(Log, head))[head][0][from]
          = PrefixTurn(ConsistencyPath(First(Log, head)), First(Log, head), head, 0, from)
    BY <1>1, ConsistencyPathIs
  <2> QED BY <1>2, <2>1 DEF PrefixTurn
<1> QED BY <1>3, <1>4, <1>5 DEF OwnProof

\* Two walks that end do so with one root.
LEMMA OneEnd ==
    ASSUME NEW from \in Size, NEW head \in Size, from < head, NEW proof \in Seq(LogHashes), NEW other,
           ConsistentWith(from, head, proof, LogRoot[from], LogRoot[head]),
           ConsistentWith(from, head, proof, LogRoot[from], other)
    PROVE  other = LogRoot[head]
<1> DEFINE q == [m |-> from, size |-> head, f |-> 0, first |-> LogRoot[from], proof |-> proof]
<1>1. q.m = from /\ q.size = head /\ q.f = 0 /\ q.first = LogRoot[from] /\ q.proof = proof
  OBVIOUS
<1>2. LogRoot[from] = RangeHash(First(Log, head))[from][0] /\ from \in Nat /\ head \in Nat /\ ~ (from >= head)
  BY PrefixRoot, FirstIs
<1> HIDE DEF q
<1>3. IsConsistency(q)
  BY <1>1, <1>2 DEF IsConsistency
<1>4. proof # <<>>
  BY <1>2 DEF ConsistentWith
<1>5. RightWalks(q, Walk(q)[Len(proof)], Len(proof))
  BY <1>1, <1>3, <1>4, WalksAreRight
<1>6. Walk(q) = Walked(from, head, proof, LogRoot[from])
  BY <1>1 DEF Walk
<1> DEFINE walks == Walk(q)[Len(proof)]
<1>7. /\ \E end \in walks : end.node2 = LogRoot[head]
      /\ \E end \in walks : end.node2 = other
  BY <1>2, <1>6 DEF ConsistentWith
<1>8. walks = {} \/ \E walk : walks = {walk}
  BY <1>5 DEF RightWalks
<1> HIDE DEF walks
<1> QED BY <1>7, <1>8

\* The report's verifier accepts the proof that the log has for two of its sizes with
\* their roots, and with none that differ in one of them.
LEMMA ConsistencyAccepted ==
    ASSUME NEW from \in Size, NEW head \in Size, from <= head, NEW first, NEW second,
           first = LogRoot[from] \/ second = LogRoot[head]
    PROVE  ConsistentWith(from, head, OwnProof(from, head), first, second)
             <=> first = LogRoot[from] /\ second = LogRoot[head]
<1>1. from \in Nat \ {0} /\ head \in Nat \ {0} /\ from \in 1 .. head
  BY FirstIs
<1>2. CASE from = head
  BY <1>1, <1>2 DEF ConsistentWith, OwnProof
<1>3. CASE from # head
  <2> DEFINE proof == OwnProof(from, head)
  <2>1. proof \in Seq(LogHashes) /\ proof = Consistency[head][from]
    BY OwnProofIs
  <2> HIDE DEF proof
  <2>2. LogRoot[from] = RangeHash(First(Log, head))[from][0]
    BY PrefixRoot
  <2>3. ASSUME NEW x
        PROVE  ConsistentWith(from, head, proof, x, LogRoot[head]) <=> x = LogRoot[from]
    <3> DEFINE f == IF x = LogRoot[from] THEN 0 ELSE 1
               q == [m |-> from, size |-> head, f |-> f, first |-> x, proof |-> proof]
    <3>1. q.m = from /\ q.size = head /\ q.f = f /\ q.first = x /\ q.proof = proof
      OBVIOUS
    <3>2. f = 0 <=> x = LogRoot[from]
      OBVIOUS
    <3> HIDE DEF q, f
    <3>3. IsConsistency(q)
      BY <2>1, <2>2, <3>1, <3>2 DEF IsConsistency
    <3>4. ReportConsistency(q) <=> ExactConsistency(q)
      BY <3>3, ReportConsistencyIs
    <3> QED BY <1>1, <2>1, <3>1, <3>2, <3>4 DEF ReportConsistency, ExactConsistency
  <2>4. CASE second = LogRoot[head]
    BY <2>3, <2>4 DEF proof
  <2>5. CASE first = LogRoot[from] /\ second # LogRoot[head]
    <3>1. from < head
      BY <1>1, <1>3
    <3>2. ConsistentWith(from, head, proof, LogRoot[from], LogRoot[head])
      BY <2>3
    <3>3. ~ConsistentWith(from, head, proof, LogRoot[from], second)
      BY <2>1, <2>5, <3>1, <3>2, OneEnd
    <3> QED BY <2>5, <3>3 DEF proof
  <2> QED BY <2>4, <2>5
<1> QED BY <1>2, <1>3

\* GET /proofs/consistency answers of two heads in the table, the older first, with a proof that
\* verifies when both are coherent.
LEMMA ConsistencyIsServed ==
    ASSUME NEW sent \in Seq(SentHead), NEW from \in Nat, NEW head \in Nat
    PROVE  ServesOneLog(sent, from, head, ServeConsistency(Table(sent), from, head))
<1> DEFINE table == Table(sent)
           consistency == ServeConsistency(table, from, head)
           proof == OwnProof(from, head)
           known == {from, head} \subseteq SentSizes(sent)
           refused == from < 1 \/ head < 1 \/ from > head
<1>1. /\ Len(sent) \in Nat /\ DOMAIN sent = 1 .. Len(sent) /\ DOMAIN table = 1 .. Len(sent)
      /\ \A a \in 1 .. Len(sent) : sent[a].size \in Size /\ table[a].size = sent[a].size
  BY TableIs
<1>2. {table[a].size : a \in DOMAIN table} = SentSizes(sent)
  <2> HIDE DEF table
  <2> QED BY <1>1 DEF SentSizes
<1>3. consistency = IF refused THEN [status |-> 400]
                    ELSE IF ~known THEN [status |-> 404]
                    ELSE [status |-> 200, proof |-> proof]
  BY <1>2 DEF ServeConsistency, Invalid, NotFound, OwnProof
<1>4. SentSizes(sent) \subseteq Size
  BY <1>1 DEF SentSizes
<1>5. from \in Size /\ head \in Size => from >= 1 /\ head >= 1
  BY DEF Size
<1> HIDE DEF table, consistency, proof
<1>6. consistency.status = 200 <=> ~refused /\ known
  <2>1. /\ [status |-> 400].status = 400 /\ [status |-> 404].status = 404
        /\ [status |-> 200, proof |-> proof].status = 200
    OBVIOUS
  <2> HIDE DEF refused, known
  <2>2. CASE refused
    BY <1>3, <2>1, <2>2
  <2>3. CASE ~refused /\ ~known
    BY <1>3, <2>1, <2>3
  <2>4. CASE ~refused /\ known
    BY <1>3, <2>1, <2>4
  <2> QED BY <2>2, <2>3, <2>4
<1>7. ~refused /\ known <=> from <= head /\ known
  BY <1>4, <1>5
<1>8. ASSUME ~refused /\ known, NEW a, NEW b, a.size = from, b.size = head, Coherent(a) \/ Coherent(b)
      PROVE  ConsistentWith(from, head, consistency.proof, a.root, b.root) <=> Coherent(a) /\ Coherent(b)
  <2>1. from \in Size /\ head \in Size /\ from <= head
    BY <1>4, <1>8
  <2>2. consistency.proof = proof
    <3>1. consistency = [status |-> 200, proof |-> proof]
      BY <1>3, <1>8
    <3> QED BY <3>1
  <2> DEFINE first == a.root
             second == b.root
  <2>3. /\ Coherent(a) <=> first = LogRoot[from]
        /\ Coherent(b) <=> second = LogRoot[head]
    BY <1>8 DEF Coherent
  <2> HIDE DEF first, second
  <2>4. ConsistentWith(from, head, proof, first, second) <=> first = LogRoot[from] /\ second = LogRoot[head]
    BY <1>8, <2>1, <2>3, ConsistencyAccepted DEF proof
  <2>5. ConsistentWith(from, head, proof, first, second) <=> Coherent(a) /\ Coherent(b)
    BY <2>3, <2>4
  <2> QED BY <2>2, <2>5 DEF first, second
<1> HIDE DEF refused
<1>9. consistency.status = 200 =>
         \A a, b \in Range(table) :
             a.size = from /\ b.size = head /\ (Coherent(a) \/ Coherent(b)) =>
                 (ConsistentWith(from, head, consistency.proof, a.root, b.root) <=> Coherent(a) /\ Coherent(b))
  BY <1>6, <1>8
<1> QED BY <1>6, <1>7, <1>9 DEF ServesOneLog, consistency, table

-----------------------------------------------------------------------------
(* The pages of the table *)

\* A reader that has the first u rows, and knows whether there are more.
Reading(table, u, more) == [items |-> First(table, u), next |-> IF more THEN {u - 1} ELSE {}]

\* The rows that a page ends with, of c that there are.
PageEnd(u, c, limit) == IF u + limit < c THEN u + limit ELSE IF u < c THEN c ELSE u

\* The cursor stands behind the first u rows.
Behind(after, u) == \A a \in Nat \ {0} : a > u <=> \A idx \in after : a - 1 > idx

\* One page more is read on from there.
ReadsOn(table, u, c, after, limit) ==
    LET page == AnchorPage(First(table, c), after, limit) IN
    /\ page = [items |-> page.items, next |-> page.next]
    /\ First(table, u) \o page.items = First(table, PageEnd(u, c, limit))
    /\ u = 0 => page.items = First(table, PageEnd(u, c, limit))
    /\ page.next = IF u + limit < c THEN {PageEnd(u, c, limit) - 1} ELSE {}

\* A page after the first u rows holds the rows that follow, at most as many as its limit.
LEMMA PageReadsOn ==
    ASSUME NEW sent \in Seq(SentHead), NEW u \in 0 .. Len(sent), NEW c \in 0 .. Len(sent), NEW after,
           Behind(after, u), NEW limit \in Nat \ {0}
    PROVE  ReadsOn(Table(sent), u, c, after, limit)
<1> DEFINE table == Table(sent)
           rows == {table[k] : k \in 1 .. Len(sent)}
           known == First(table, c)
           q == IF u < c THEN u ELSE c
           all == SubSeq(known, q + 1, c)
           m == IF limit < Len(all) THEN limit ELSE Len(all)
           slice == First(all, m)
           v == PageEnd(u, c, limit)
<1>1. /\ Len(sent) \in Nat /\ DOMAIN table = 1 .. Len(sent) /\ Len(table) = Len(sent)
      /\ \A k \in 1 .. Len(sent) : table[k].idx = k - 1
  BY TableIs
<1>2. table \in Seq(rows)
  <2>1. table = [k \in 1 .. Len(sent) |-> table[k]]
    BY <1>1 DEF Table
  <2> DEFINE own == table
  <2>2. own \in [1 .. Len(sent) -> rows]
    BY <2>1
  <2> HIDE DEF own
  <2> HIDE DEF rows
  <2>4. Len(sent) \in Nat
    BY <1>1
  <2>3. own \in Seq(rows)
    BY ONLY <2>2, <2>4, SeqDef
  <2> QED BY <2>3 DEF own
<1> HIDE DEF table, rows
<1>3. \A k \in 1 .. Len(sent) : table[k] \in rows
  BY <1>1, <1>2
<1>4. known \in Seq(rows) /\ Len(known) = c /\ \A k \in 1 .. c : known[k] = table[k]
  <2>1. \A k \in 1 .. c : table[k] \in rows
    BY <1>1, <1>3
  <2>2. /\ SubSeq(table, 1, c) \in Seq(rows)
        /\ Len(SubSeq(table, 1, c)) = IF 1 <= c THEN c - 1 + 1 ELSE 0
        /\ \A k \in 1 .. c - 1 + 1 : SubSeq(table, 1, c)[k] = table[1 + k - 1]
    BY <1>1, <2>1, SubSeqProperties
  <2> QED BY <1>1, <2>2 DEF First
<1> HIDE DEF known
<1>5. DOMAIN known = 1 .. c
  BY <1>4
<1>6. q \in 0 .. c /\ q \in Nat /\ u \in Nat /\ c \in Nat /\ q <= u /\ q <= Len(sent) /\ c <= Len(sent)
  BY <1>1
<1>7. \A a \in 1 .. c : a > q <=> \A idx \in after : known[a].idx > idx
  <2> SUFFICES ASSUME NEW a \in 1 .. c
               PROVE  a > q <=> \A idx \in after : known[a].idx > idx
    OBVIOUS
  <2>1. known[a].idx = a - 1
    BY <1>1, <1>4
  <2>2. a > u <=> \A idx \in after : a - 1 > idx
    BY DEF Behind
  <2>3. a > q <=> a > u
    BY <1>6
  <2> QED BY <2>1, <2>2, <2>3
<1> HIDE DEF q
<1>8. Past(known, after) = q
  <2> DEFINE Passes(x) == \A a \in DOMAIN known : a > x <=> \A idx \in after : known[a].idx > idx
  <2>1. Past(known, after) = CHOOSE x \in 0 .. c : Passes(x)
    BY <1>4 DEF Past
  <2>2. q \in 0 .. c /\ Passes(q)
    BY <1>5, <1>6, <1>7
  <2>3. ASSUME NEW x \in 0 .. c, Passes(x) PROVE x = q
    <3>1. \A a \in 1 .. c : a > x <=> a > q
      BY <1>5, <1>7, <2>3
    <3> HIDE DEF Passes
    <3>2. CASE x < q
      <4>1. q \in 1 .. c /\ q > x /\ ~ (q > q)
        BY <1>6, <3>2
      <4> QED BY <3>1, <4>1
    <3>3. CASE q < x
      <4>1. x \in 1 .. c /\ x > q /\ ~ (x > x)
        BY <1>6, <3>3
      <4> QED BY <3>1, <4>1
    <3> QED BY <1>6, <3>2, <3>3
  <2> HIDE DEF Passes
  <2> QED BY <2>1, <2>2, <2>3
<1> DEFINE page == AnchorPage(known, after, limit)
<1>9. /\ page = [items |-> page.items, next |-> page.next]
      /\ AnchorPage(known, after, limit).items = slice
      /\ AnchorPage(known, after, limit).next = IF Len(all) > limit THEN {slice[Len(slice)].idx} ELSE {}
  <2>1. AnchorPage(known, after, limit)
          = [items |-> slice, next |-> IF Len(all) > limit THEN {slice[Len(slice)].idx} ELSE {}]
    BY <1>4, <1>8 DEF AnchorPage
  <2> HIDE DEF slice, all, page
  <2>2. page.items = slice /\ page.next = IF Len(all) > limit THEN {slice[Len(slice)].idx} ELSE {}
    BY <2>1 DEF page
  <2> QED BY <2>1, <2>2 DEF page
<1> HIDE DEF page
<1>10. all \in Seq(rows) /\ Len(all) = c - q /\ \A k \in 1 .. c - q : all[k] = table[q + k]
  <2>1. \A k \in q + 1 .. c : known[k] = table[k] /\ known[k] \in rows
    BY <1>3, <1>4, <1>6
  <2>2. /\ all \in Seq(rows)
        /\ Len(all) = IF q + 1 <= c THEN c - (q + 1) + 1 ELSE 0
        /\ \A k \in 1 .. c - (q + 1) + 1 : all[k] = known[(q + 1) + k - 1]
    BY <1>6, <2>1, SubSeqProperties
  <2> HIDE DEF all
  <2>3. Len(all) = c - q
    BY <1>6, <2>2
  <2>4. ASSUME NEW k \in 1 .. c - q PROVE all[k] = table[q + k]
    <3>1. k \in 1 .. c - (q + 1) + 1 /\ (q + 1) + k - 1 = q + k /\ q + k \in q + 1 .. c
      BY <1>6
    <3> QED BY <2>1, <2>2, <3>1
  <2> QED BY <2>2, <2>3, <2>4
<1> HIDE DEF all
<1>11. m \in Nat /\ m = (IF limit < c - q THEN limit ELSE c - q) /\ m <= c - q /\ q + m <= c
  BY <1>6, <1>10
<1>12. v = (IF u < c THEN q + m ELSE u) /\ (u < c => u = q) /\ (~ (u < c) => q = c)
  BY <1>6, <1>11 DEF PageEnd, q
<1> HIDE DEF m
<1>13. slice \in Seq(rows) /\ Len(slice) = m /\ \A k \in 1 .. m : slice[k] = table[q + k]
  <2>1. \A k \in 1 .. m : all[k] = table[q + k] /\ all[k] \in rows
    <3> SUFFICES ASSUME NEW k \in 1 .. m PROVE all[k] = table[q + k] /\ all[k] \in rows
      OBVIOUS
    <3>1. k \in 1 .. c - q /\ q + k \in 1 .. Len(sent)
      BY <1>6, <1>11
    <3> QED BY <1>3, <1>10, <3>1
  <2>2. /\ SubSeq(all, 1, m) \in Seq(rows)
        /\ Len(SubSeq(all, 1, m)) = IF 1 <= m THEN m - 1 + 1 ELSE 0
        /\ \A k \in 1 .. m - 1 + 1 : SubSeq(all, 1, m)[k] = all[1 + k - 1]
    BY <1>11, <2>1, SubSeqProperties
  <2> QED BY <1>11, <2>1, <2>2 DEF First
<1> HIDE DEF slice
<1>14. slice = SubSeq(table, q + 1, q + m)
  <2> DEFINE part == SubSeq(table, q + 1, q + m)
  <2>1. \A k \in q + 1 .. q + m : table[k] \in rows
    BY <1>3, <1>6, <1>11
  <2>2. /\ part \in Seq(rows)
        /\ Len(part) = IF q + 1 <= q + m THEN (q + m) - (q + 1) + 1 ELSE 0
        /\ \A k \in 1 .. (q + m) - (q + 1) + 1 : part[k] = table[(q + 1) + k - 1]
    BY <1>6, <1>11, <2>1, SubSeqProperties
  <2> HIDE DEF part
  <2>3. Len(part) = Len(slice) /\ \A k \in 1 .. Len(slice) : slice[k] = part[k]
    BY <1>6, <1>11, <1>13, <2>2
  <2>4. slice = part
    BY <1>13, <2>2, <2>3, SeqEqual
  <2> QED BY <2>4 DEF part
<1>15. First(table, u) \o slice = First(table, v)
  <2>1. CASE u < c
    <3>1. u = q /\ v = q + m /\ 1 \in 1 .. Len(table) + 1 /\ u \in 1 - 1 .. Len(table) /\ u + m \in u .. Len(table)
      BY <1>1, <1>6, <1>11, <1>12, <2>1
    <3>2. SubSeq(table, 1, u) \o SubSeq(table, u + 1, u + m) = SubSeq(table, 1, u + m)
      BY <1>2, <3>1, ConcatAdjacentSubSeq
    <3> QED BY <1>14, <3>1, <3>2 DEF First
  <2>2. CASE ~ (u < c)
    <3>1. m = 0 /\ v = u
      BY <1>6, <1>11, <1>12, <2>2
    <3>2. slice = <<>>
      BY <1>13, <3>1
    <3>3. First(table, u) \in Seq(rows)
      <4>1. \A k \in 1 .. u : table[k] \in rows
        BY <1>1, <1>3
      <4>2. SubSeq(table, 1, u) \in Seq(rows)
        BY <1>6, <4>1, SubSeqProperties
      <4> QED BY <4>2 DEF First
    <3> QED BY <3>1, <3>2, <3>3, ConcatEmptySeq
  <2> QED BY <2>1, <2>2
<1>16. Len(all) > limit <=> u + limit < c
  BY <1>6, <1>10, <1>12
<1>17. u + limit < c => slice[Len(slice)].idx = v - 1
  <2> SUFFICES ASSUME u + limit < c PROVE slice[Len(slice)].idx = v - 1
    OBVIOUS
  <2>1. m = limit /\ u = q /\ v = q + m /\ m \in 1 .. m /\ q + m \in 1 .. Len(sent)
    BY <1>6, <1>11, <1>12
  <2>2. slice[m] = table[q + m] /\ table[q + m].idx = (q + m) - 1
    BY <1>1, <1>13, <2>1
  <2> QED BY <1>13, <2>1, <2>2
<1>19. u = 0 => slice = First(table, v)
  <2> SUFFICES ASSUME u = 0 PROVE slice = First(table, v)
    OBVIOUS
  <2>1. q + 1 = 1 /\ q + m = v
    BY <1>6, <1>11, <1>12
  <2> QED BY <1>14, <2>1 DEF First
<1>18. /\ First(table, u) \o AnchorPage(known, after, limit).items = First(table, v)
       /\ AnchorPage(known, after, limit).next = IF u + limit < c THEN {v - 1} ELSE {}
  BY <1>9, <1>15, <1>16, <1>17
<1> QED BY <1>9, <1>18, <1>19 DEF ReadsOn, known, table, page

\* All the pages read a first part of the table, at least what was there when the
\* first one was asked for, and leave no cursor.
ReadsAll(sent, known, result) ==
    \E u \in known .. Len(sent) : result = Reading(Table(sent), u, FALSE)

\* One turn of the reader: the k-th page, after what was read before.
PageTurn(read, table, known, limit, k) ==
    LET rows == First(table, IF known + k < Len(table) THEN known + k ELSE Len(table)) IN
    IF k = 0 THEN AnchorPage(rows, {}, limit)
    ELSE IF read[k - 1].next = {} THEN read[k - 1]
    ELSE LET page == AnchorPage(rows, read[k - 1].next, limit)
         IN  [items |-> read[k - 1].items \o page.items, next |-> page.next]

\* The readings that there can be, and what the next page makes of one.
Readings(sent) == {Reading(Table(sent), at[1], at[2]) : at \in (0 .. Len(sent)) \X BOOLEAN}

NextReading(sent, known, limit, u, k) ==
    LET c == IF known + k < Len(sent) THEN known + k ELSE Len(sent)
    IN  Reading(Table(sent), PageEnd(u, c, limit), u + limit < c)

TurnReads(sent, known, limit, k, read) ==
    LET table == Table(sent)
        turn  == PageTurn(read, table, known, limit, k) IN
    /\ k = 0 => turn = NextReading(sent, known, limit, 0, k)
    /\ \A u \in 0 .. Len(sent) :
         /\ k # 0 /\ read[k - 1] = Reading(table, u, TRUE) => turn = NextReading(sent, known, limit, u, k)
         /\ k # 0 /\ read[k - 1] = Reading(table, u, FALSE) => turn = Reading(table, u, FALSE)

\* Each turn of the reader has read the rows up to its place, in order.
LEMMA TurnsRead ==
    ASSUME NEW sent \in Seq(SentHead), NEW known \in 0 .. Len(sent), NEW limit \in Nat \ {0},
           NEW k \in 0 .. Len(sent), NEW read
    PROVE  TurnReads(sent, known, limit, k, read)
<1> DEFINE table == Table(sent)
           c == IF known + k < Len(sent) THEN known + k ELSE Len(sent)
           rows == First(table, c)
           page(after) == AnchorPage(rows, after, limit)
<1>1. Len(sent) \in Nat /\ Len(table) = Len(sent) /\ c \in 0 .. Len(sent)
  BY TableIs
<1>2. PageTurn(read, table, known, limit, k)
        = IF k = 0 THEN page({})
          ELSE IF read[k - 1].next = {} THEN read[k - 1]
          ELSE [items |-> read[k - 1].items \o page(read[k - 1].next).items, next |-> page(read[k - 1].next).next]
  BY <1>1 DEF PageTurn
<1>3. \A u, more : /\ Reading(table, u, more).items = First(table, u)
                   /\ Reading(table, u, more).next = IF more THEN {u - 1} ELSE {}
  BY DEF Reading
<1> HIDE DEF table, rows
<1>4. ASSUME NEW u \in 0 .. Len(sent), NEW after, Behind(after, u)
      PROVE  /\ page(after) = [items |-> page(after).items, next |-> page(after).next]
             /\ First(table, u) \o page(after).items = First(table, PageEnd(u, c, limit))
             /\ u = 0 => page(after).items = First(table, PageEnd(u, c, limit))
             /\ page(after).next = IF u + limit < c THEN {PageEnd(u, c, limit) - 1} ELSE {}
  <2>1. ReadsOn(table, u, c, after, limit)
    BY <1>1, <1>4, PageReadsOn DEF table
  <2> QED BY <2>1 DEF ReadsOn, rows
<1>5. \A u \in 0 .. Len(sent) :
        NextReading(sent, known, limit, u, k)
          = [items |-> First(table, PageEnd(u, c, limit)),
             next |-> IF u + limit < c THEN {PageEnd(u, c, limit) - 1} ELSE {}]
  BY DEF NextReading, Reading, table
<1> HIDE DEF page, c
<1>6. ASSUME k = 0 PROVE PageTurn(read, table, known, limit, k) = NextReading(sent, known, limit, 0, k)
  <2>1. Behind({}, 0)
    BY DEF Behind
  <2>2. 0 \in 0 .. Len(sent)
    BY <1>1
  <2>3. page({}) = [items |-> page({}).items, next |-> page({}).next]
    BY <1>4, <2>1, <2>2
  <2>4. page({}).items = First(table, PageEnd(0, c, limit))
    BY <1>4, <2>1, <2>2
  <2>5. page({}).next = IF 0 + limit < c THEN {PageEnd(0, c, limit) - 1} ELSE {}
    BY <1>4, <2>1, <2>2
  <2> QED BY <1>2, <1>5, <1>6, <2>2, <2>3, <2>4, <2>5
<1>7. ASSUME NEW u \in 0 .. Len(sent), k # 0, read[k - 1] = Reading(table, u, TRUE)
      PROVE  PageTurn(read, table, known, limit, k) = NextReading(sent, known, limit, u, k)
  <2>1. read[k - 1].items = First(table, u) /\ read[k - 1].next = {u - 1}
    BY <1>3, <1>7
  <2>2. Behind({u - 1}, u)
    BY <1>1 DEF Behind
  <2>3. /\ First(table, u) \o page({u - 1}).items = First(table, PageEnd(u, c, limit))
        /\ page({u - 1}).next = IF u + limit < c THEN {PageEnd(u, c, limit) - 1} ELSE {}
    BY <1>4, <2>2
  <2>4. PageTurn(read, table, known, limit, k)
          = [items |-> First(table, u) \o page({u - 1}).items, next |-> page({u - 1}).next]
    BY <1>2, <1>7, <2>1
  <2> QED BY <1>5, <2>3, <2>4
<1>8. ASSUME NEW u \in 0 .. Len(sent), k # 0, read[k - 1] = Reading(table, u, FALSE)
      PROVE  PageTurn(read, table, known, limit, k) = Reading(table, u, FALSE)
  BY <1>2, <1>3, <1>8
<1> QED BY <1>6, <1>7, <1>8 DEF TurnReads, table

PagesBy(read, table, known, limit) ==
    read = [k \in 0 .. Len(table) |-> PageTurn(read, table, known, limit, k)]

\* The recursion over the pages has a solution, with readings only.
LEMMA PagesExist ==
    ASSUME NEW sent \in Seq(SentHead), NEW known \in 0 .. Len(sent), NEW limit \in Nat \ {0}
    PROVE  \E read : PagesBy(read, Table(sent), known, limit)
<1> DEFINE table == Table(sent)
           D == 0 .. Len(sent)
           V == Readings(sent)
           step == [k \in D |-> [g \in [D -> V] |-> PageTurn(g, table, known, limit, k)]]
<1>1. Len(sent) \in Nat /\ Len(table) = Len(sent) /\ D \in SUBSET Nat
  BY TableIs
<1>2. \A v \in V : \E u \in D : \E more \in BOOLEAN : v = Reading(table, u, more)
  BY DEF Readings
<1>3. ASSUME NEW u \in D, NEW more \in BOOLEAN PROVE Reading(table, u, more) \in V
  <2>1. <<u, more>> \in D \X BOOLEAN /\ Reading(table, u, more) = Reading(table, <<u, more>>[1], <<u, more>>[2])
    OBVIOUS
  <2> QED BY <2>1 DEF Readings
<1>4. V # {}
  <2>1. 0 \in D /\ TRUE \in BOOLEAN
    BY <1>1
  <2> QED BY <1>3, <2>1
<1>5. ASSUME NEW u \in D, NEW k \in D PROVE NextReading(sent, known, limit, u, k) \in V
  <2> DEFINE c == IF known + k < Len(sent) THEN known + k ELSE Len(sent)
  <2>1. c \in D /\ PageEnd(u, c, limit) \in D /\ (u + limit < c) \in BOOLEAN
    BY <1>1 DEF PageEnd
  <2>2. NextReading(sent, known, limit, u, k) = Reading(table, PageEnd(u, c, limit), u + limit < c)
    BY DEF NextReading
  <2> HIDE DEF c, table, V
  <2> QED BY <1>3, <2>1, <2>2
<1>6. ASSUME NEW k \in D, NEW g \in [D -> V] PROVE PageTurn(g, table, known, limit, k) \in V
  <2> HIDE DEF V
  <2>3. TurnReads(sent, known, limit, k, g)
    BY TurnsRead
  <2>1. CASE k = 0
    <3>1. 0 \in D
      BY <1>1
    <3>2. PageTurn(g, table, known, limit, k) = NextReading(sent, known, limit, 0, k)
      BY <2>1, <2>3 DEF TurnReads
    <3> QED BY <1>5, <3>1, <3>2
  <2>2. CASE k # 0
    <3>1. k - 1 \in D
      BY <1>1, <2>2
    <3>2. g[k - 1] \in V
      BY <3>1
    <3>3. PICK u \in D : \E more \in BOOLEAN : g[k - 1] = Reading(table, u, more)
      BY <1>2, <3>2
    <3>4. CASE g[k - 1] = Reading(table, u, TRUE)
      <4>1. PageTurn(g, table, known, limit, k) = NextReading(sent, known, limit, u, k)
        BY <2>2, <2>3, <3>4 DEF TurnReads
      <4> QED BY <1>5, <4>1
    <3>5. CASE g[k - 1] = Reading(table, u, FALSE)
      <4>1. PageTurn(g, table, known, limit, k) = Reading(table, u, FALSE)
        BY <2>2, <2>3, <3>5 DEF TurnReads
      <4> QED BY <1>3, <4>1
    <3> QED BY <3>3, <3>4, <3>5
  <2> QED BY <2>1, <2>2
<1> HIDE DEF V, table
<1>7. step \in [D -> [[D -> V] -> V]]
  BY <1>6
<1>8. LooksBack(step, D, V)
  <2> SUFFICES ASSUME NEW m \in D, NEW g \in [D -> V], NEW h \in [D -> V],
                      \A k \in D : k < m => g[k] = h[k]
               PROVE  step[m][g] = step[m][h]
    BY DEF LooksBack
  <2>1. step[m][g] = PageTurn(g, table, known, limit, m) /\ step[m][h] = PageTurn(h, table, known, limit, m)
    OBVIOUS
  <2> HIDE DEF step
  <2>2. m # 0 => g[m - 1] = h[m - 1]
    BY <1>1
  <2>3. PageTurn(g, table, known, limit, m) = PageTurn(h, table, known, limit, m)
    BY <2>2 DEF PageTurn
  <2> QED BY <2>1, <2>3
<1>9. PICK read \in [D -> V] : Solves(read, step, D)
  <2> HIDE DEF step, D
  <2> QED BY <1>1, <1>4, <1>7, <1>8, Recursion
<1>10. read = [k \in D |-> PageTurn(read, table, known, limit, k)]
  <2>1. read = [k \in D |-> step[k][read]]
    BY <1>9 DEF Solves
  <2>2. \A k \in D : step[k][read] = PageTurn(read, table, known, limit, k)
    BY <1>9
  <2> HIDE DEF step
  <2> QED BY <2>1, <2>2
<1> QED BY <1>1, <1>10 DEF PagesBy, table

\* Who follows the cursors sees every anchor once, in order.
LEMMA PagesReadAll ==
    ASSUME NEW sent \in Seq(SentHead), NEW known \in 0 .. Len(sent), NEW limit \in Nat \ {0}
    PROVE  ReadsAll(sent, known, AllPages(Table(sent), known, limit))
<1> DEFINE table == Table(sent)
           len == Len(sent)
           D == 0 .. len
           read == CHOOSE read : PagesBy(read, table, known, limit)
           c(k) == IF known + k < len THEN known + k ELSE len
           Read(k, u, more) == /\ read[k] = Reading(table, u, more)
                               /\ IF more THEN k < u /\ u < c(k) ELSE known <= u
           Good == {k \in Nat : k \in D => \E u \in 0 .. len : \E more \in BOOLEAN : Read(k, u, more)}
<1>1. len \in Nat /\ Len(table) = len
  BY TableIs
<1>2. AllPages(table, known, limit) = read[len]
  BY <1>1 DEF AllPages, PagesBy, PageTurn
<1>3. PagesBy(read, table, known, limit)
  BY PagesExist
<1> HIDE DEF table, read
<1>4. \A k \in D : read[k] = PageTurn(read, table, known, limit, k)
  BY <1>1, <1>3 DEF PagesBy
<1>5. ASSUME NEW k \in D, NEW u \in 0 .. len, k <= u, read[k] = NextReading(sent, known, limit, u, k)
      PROVE  k \in Good
  <2> DEFINE v == PageEnd(u, c(k), limit)
             more == u + limit < c(k)
  <2>1. read[k] = Reading(table, v, more)
    BY <1>5 DEF NextReading, table
  <2>2. v \in 0 .. len /\ more \in BOOLEAN
    BY <1>1, <1>5 DEF PageEnd
  <2>3. IF more THEN k < v /\ v < c(k) ELSE known <= v
    BY <1>1, <1>5 DEF PageEnd
  <2> HIDE DEF v, more, c
  <2> QED BY <2>1, <2>2, <2>3
<1>6. ASSUME NEW k \in Nat, \A l \in Nat : l < k => l \in Good
      PROVE  k \in Good
  <2>1. CASE k \notin D
    BY <2>1
  <2>4. k \in D => TurnReads(sent, known, limit, k, read)
    BY TurnsRead
  <2>2. CASE k \in D /\ k = 0
    <3>3. PageTurn(read, table, known, limit, k) = NextReading(sent, known, limit, 0, k)
      BY <2>2, <2>4 DEF TurnReads, table
    <3>1. read[k] = NextReading(sent, known, limit, 0, k)
      BY <1>4, <2>2, <3>3
    <3>2. 0 \in 0 .. len /\ k <= 0
      BY <1>1, <2>2
    <3> HIDE DEF Good
    <3> QED BY <1>5, <2>2, <3>1, <3>2
  <2>3. CASE k \in D /\ k # 0
    <3>1. k - 1 \in Good /\ k - 1 \in D
      BY <1>1, <1>6, <2>3
    <3>2. PICK u \in 0 .. len : \E more \in BOOLEAN : Read(k - 1, u, more)
      BY <3>1
    <3>3. PICK more \in BOOLEAN : Read(k - 1, u, more)
      BY <3>2
    <3>4. CASE more
      <4>1. read[k - 1] = Reading(table, u, TRUE) /\ k - 1 < u
        BY <3>3, <3>4
      <4>4. PageTurn(read, table, known, limit, k) = NextReading(sent, known, limit, u, k)
        BY <2>3, <2>4, <4>1 DEF TurnReads, table
      <4>2. read[k] = NextReading(sent, known, limit, u, k)
        BY <1>4, <2>3, <4>4
      <4>3. k <= u
        BY <1>1, <4>1
      <4> HIDE DEF Good
      <4> QED BY <1>5, <2>3, <4>2, <4>3
    <3>5. CASE ~more
      <4>1. read[k - 1] = Reading(table, u, FALSE) /\ known <= u
        BY <3>3, <3>5
      <4>4. PageTurn(read, table, known, limit, k) = Reading(table, u, FALSE)
        BY <2>3, <2>4, <4>1 DEF TurnReads, table
      <4>2. read[k] = Reading(table, u, FALSE)
        BY <1>4, <2>3, <4>4
      <4>3. Read(k, u, FALSE) /\ FALSE \in BOOLEAN
        BY <4>1, <4>2
      <4> HIDE DEF Read
      <4> QED BY <4>3
    <3> QED BY <3>4, <3>5
  <2> QED BY <2>1, <2>2, <2>3
<1>7. Good \in SUBSET Nat
  OBVIOUS
<1> HIDE DEF Good
<1>8. len \in Good
  BY <1>1, <1>6, <1>7, AllNumbers
<1>9. PICK u \in 0 .. len : \E more \in BOOLEAN : Read(len, u, more)
  BY <1>1, <1>8 DEF Good
<1>10. PICK more \in BOOLEAN : Read(len, u, more)
  BY <1>9
<1>11. ~more
  BY <1>1, <1>10
<1>12. u \in known .. len /\ read[len] = Reading(table, u, FALSE)
  <2>1. Read(len, u, FALSE)
    BY <1>10, <1>11
  <2> QED BY <1>1, <2>1
<1> QED BY <1>2, <1>12 DEF ReadsAll, table

\* What is shown of the pages, whatever limit was asked for.
PagesAre(sent, known, raw, result) ==
    /\ result = {} <=> raw = {0}
    /\ \A read \in result : ReadsAll(sent, known, read)

\* Pages read one after the other are the table, none twice and none missing.
LEMMA PagesAreRead ==
    ASSUME NEW sent \in Seq(SentHead), NEW known \in 0 .. Len(sent),
           NEW raw \in {{}} \cup {{l} : l \in 0 .. MaxLimit + 1}
    PROVE  PagesAre(sent, known, raw, {AllPages(Table(sent), known, limit) : limit \in ParseLimit(raw)})
<1>1. DefaultLimit \in Nat \ {0} /\ MaxLimit \in Nat \ {0}
  BY LimitAssumption
<1>2. ParseLimit(raw) \subseteq Nat \ {0} /\ (ParseLimit(raw) = {} <=> raw = {0})
  <2>1. CASE raw = {}
    BY <1>1, <2>1 DEF ParseLimit
  <2>2. ASSUME NEW l \in 0 .. MaxLimit + 1, raw = {l}
        PROVE  ParseLimit(raw) \subseteq Nat \ {0} /\ (ParseLimit(raw) = {} <=> raw = {0})
    <3>1. ParseLimit(raw) = {IF limit > MaxLimit THEN MaxLimit ELSE limit : limit \in {limit \in {l} : limit > 0}}
      BY <2>2 DEF ParseLimit
    <3>2. CASE l = 0
      <4>1. ParseLimit(raw) = {}
        BY <3>1, <3>2
      <4> QED BY <2>2, <3>2, <4>1
    <3>3. CASE l # 0
      <4>1. ParseLimit(raw) = {IF l > MaxLimit THEN MaxLimit ELSE l}
        BY <1>1, <3>1, <3>3
      <4>2. (IF l > MaxLimit THEN MaxLimit ELSE l) \in Nat \ {0}
        BY <1>1, <3>3
      <4>3. raw # {0}
        BY <2>2, <3>3
      <4> QED BY <4>1, <4>2, <4>3
    <3> QED BY <3>2, <3>3
  <2> QED BY <2>1, <2>2
<1>3. \A limit \in ParseLimit(raw) : ReadsAll(sent, known, AllPages(Table(sent), known, limit))
  BY <1>2, PagesReadAll
<1> QED BY <1>2, <1>3 DEF PagesAre

\* What the answer promises.
ServedRightly(q, answer) ==
    /\ ServesWhatIsHeld(q.anchored, q.wanted, q.root, q.head, answer.inclusion)
    /\ ServesOneLog(q.anchored, q.from, q.head, answer.consistency)
    /\ NamesAnchor(q.anchored, q.wanted, answer.anchor)

\* The same, in the words of Rules.
ServedFacts(anchors, q, answer) ==
    LET held(a) == a.size > 0 /\ \E l \in 1 .. a.size : Log[l] = q.wanted
        accepted(root, served) ==
            \E index \in ReadIndexOfRoot({anchors}, root) :
                VerifyLeafOnChain({anchors}, index, q.wanted, served.index, served.proof) IN
    /\ answer.anchor = {} <=> ~\E a \in Range(anchors) : held(a)
    /\ \A a \in answer.anchor :
         /\ accepted(a.root, ServeInclusion(anchors, q.wanted, a.root, a.size)) <=> Coherent(a)
         /\ \A b \in Range(anchors) : b.size < a.size => ~held(b)
    /\ answer.inclusion.status = 200 <=>
         \E a \in Range(anchors) : a.size = q.head /\ a.root = q.root /\ held(a)
    /\ answer.inclusion.status = 200 =>
         (accepted(q.root, answer.inclusion) <=> q.root = LogRoot[q.head])
    /\ answer.consistency.status = 200 <=>
         q.from <= q.head /\ {q.from, q.head} \subseteq SentSizes(q.anchored)
    /\ answer.consistency.status = 200 =>
         \A a, b \in Range(anchors) :
             a.size = q.from /\ b.size = q.head /\ (Coherent(a) \/ Coherent(b)) =>
                 (ConsistentWith(q.from, q.head, answer.consistency.proof, a.root, b.root)
                    <=> Coherent(a) /\ Coherent(b))

\* What was shown of an answer, in the words of the property.
LEMMA ServedMeans ==
    ASSUME NEW q, NEW answer, ServedRightly(q, answer)
    PROVE  ServedFacts(Table(q.anchored), q, answer)
<1> DEFINE anchors == Table(q.anchored)
<1>1. /\ ServesWhatIsHeld(q.anchored, q.wanted, q.root, q.head, answer.inclusion)
      /\ ServesOneLog(q.anchored, q.from, q.head, answer.consistency)
      /\ NamesAnchor(q.anchored, q.wanted, answer.anchor)
  BY DEF ServedRightly
<1>2. /\ answer.anchor = {} <=> ~\E a \in Range(anchors) : Holds(a.size, q.wanted)
      /\ \A a \in answer.anchor :
           /\ Accepted(anchors, q.wanted, a.root, ServeInclusion(anchors, q.wanted, a.root, a.size)) <=> Coherent(a)
           /\ \A b \in Range(anchors) : b.size < a.size => ~Holds(b.size, q.wanted)
  BY <1>1 DEF NamesAnchor
<1>3. /\ answer.inclusion.status = 200 <=>
           \E a \in Range(anchors) : a.size = q.head /\ a.root = q.root /\ Holds(a.size, q.wanted)
      /\ answer.inclusion.status = 200 =>
           (Accepted(anchors, q.wanted, q.root, answer.inclusion) <=> q.root = LogRoot[q.head])
  BY <1>1 DEF ServesWhatIsHeld
<1>4. /\ answer.consistency.status = 200 <=>
           q.from <= q.head /\ {q.from, q.head} \subseteq SentSizes(q.anchored)
      /\ answer.consistency.status = 200 =>
           \A a, b \in Range(anchors) :
               a.size = q.from /\ b.size = q.head /\ (Coherent(a) \/ Coherent(b)) =>
                   (ConsistentWith(q.from, q.head, answer.consistency.proof, a.root, b.root)
                      <=> Coherent(a) /\ Coherent(b))
  BY <1>1 DEF ServesOneLog
<1> HIDE DEF anchors
<1> QED BY <1>2, <1>3, <1>4 DEF ServedFacts, Holds, Accepted, anchors

-----------------------------------------------------------------------------
(* The claims about a check *)

\* Claims with a time; no check has two of the same time.
IsClaims(claims) ==
    /\ \E S : claims \in Seq(S)
    /\ \A k \in DOMAIN claims : claims[k].issuedAt \in Nat
Ordered(claims) ==
    \A k, l \in DOMAIN claims :
        k # l /\ claims[k].check = claims[l].check => claims[k].issuedAt # claims[l].issuedAt

\* The log's last word on a check.
SaidLast(claims, check, result) ==
    \E k \in DOMAIN claims :
        /\ claims[k].check = check /\ claims[k].result = result
        /\ \A l \in DOMAIN claims :
               l # k /\ claims[l].check = check => claims[l].issuedAt < claims[k].issuedAt

\* Badges and wording agree on it, whichever way they look for it.
LastDecides(claims, check) ==
    /\ Latest(claims, check) = LatestForSource(claims, check)
    /\ \A result : /\ result \in Latest(claims, check) <=> SaidLast(claims, check, result)
                   /\ Latest(claims, check) = {result} <=> SaidLast(claims, check, result)

\* badges.ts and wording.ts both find the log's last word on a check, or both find none.
LEMMA LatestIsLast ==
    ASSUME NEW claims, IsClaims(claims), Ordered(claims), NEW check
    PROVE  LastDecides(claims, check)
<1> DEFINE mine == Of(claims, check)
           time(k) == claims[k].issuedAt
           Newest(k) == \A l \in mine : l # k => time(l) < time(k)
           last == {k \in mine : Newest(k)}
<1>1. PICK S : claims \in Seq(S)
  BY DEF IsClaims
<1>2. mine \subseteq DOMAIN claims /\ mine \subseteq Nat
  BY <1>1 DEF Of
<1>3. \A k \in mine : time(k) \in Nat
  BY <1>2 DEF IsClaims
<1>4. \A k, l \in mine : k # l => time(k) # time(l)
  BY <1>2 DEF Ordered, Of
<1>5. \A k \in DOMAIN claims : k \in mine <=> claims[k].check = check
  BY DEF Of
<1>6. \A result : SaidLast(claims, check, result) <=> \E k \in last : claims[k].result = result
  BY <1>2, <1>5 DEF SaidLast
<1> HIDE DEF mine, time
<1>7. \A k, l \in last : k = l
  <2> SUFFICES ASSUME NEW k \in last, NEW l \in last, k # l PROVE FALSE
    OBVIOUS
  <2>1. time(k) < time(l) /\ time(l) < time(k) /\ time(k) \in Nat /\ time(l) \in Nat
    BY <1>3
  <2> QED BY <2>1
<1>8. {k \in mine : \A l \in mine : time(l) <= time(k) /\ (l < k => time(l) < time(k))} = last
  BY <1>2, <1>3, <1>4
<1>9. {k \in mine : \A l \in mine : time(l) <= time(k) /\ (l > k => time(l) < time(k))} = last
  BY <1>2, <1>3, <1>4
<1>10. Latest(claims, check) = {claims[k].result : k \in last}
  BY <1>8 DEF Latest, mine, time
<1>11. LatestForSource(claims, check) = {claims[k].result : k \in last}
  BY <1>9 DEF LatestForSource, mine, time
<1> HIDE DEF last
<1>13. ASSUME NEW result PROVE Latest(claims, check) = {result} <=> SaidLast(claims, check, result)
  <2>1. CASE \E k \in last : claims[k].result = result
    <3>1. {claims[l].result : l \in last} = {result}
      BY <1>7, <2>1
    <3> QED BY <1>6, <1>10, <2>1, <3>1
  <2>2. CASE ~ \E k \in last : claims[k].result = result
    <3>1. result \notin {claims[l].result : l \in last}
      BY <2>2
    <3>2. {claims[l].result : l \in last} # {result}
      BY <3>1
    <3> QED BY <1>6, <1>10, <2>2, <3>2
  <2> QED BY <2>1, <2>2
<1>14. ASSUME NEW result PROVE result \in Latest(claims, check) <=> SaidLast(claims, check, result)
  BY <1>6, <1>10
<1> QED BY <1>10, <1>11, <1>13, <1>14 DEF LastDecides

-----------------------------------------------------------------------------
\* One turn of AsNamed.
NameTurn(named, claims, checks, k) ==
    IF k = 0 THEN <<>>
    ELSE IF /\ claims[k].check \in checks
            /\ \A l \in 1 .. k - 1 : claims[l].check # claims[k].check
         THEN Append(named[k - 1], claims[k].check)
    ELSE named[k - 1]

NamesBy(named, claims, checks) ==
    named = [k \in 0 .. Len(claims) |-> NameTurn(named, claims, checks, k)]

CheckNames(claims) == {claims[k].check : k \in 1 .. Len(claims)}

\* The recursion of AsNamed has a solution (badges.ts:150-165).
LEMMA NamesExist ==
    ASSUME NEW S, NEW claims \in Seq(S), NEW checks
    PROVE  \E named \in [0 .. Len(claims) -> Seq(CheckNames(claims))] : NamesBy(named, claims, checks)
<1> DEFINE D == 0 .. Len(claims)
           names == CheckNames(claims)
           V == Seq(names)
           step == [k \in D |-> [g \in [D -> V] |-> NameTurn(g, claims, checks, k)]]
<1>1. Len(claims) \in Nat /\ D \in SUBSET Nat /\ V # {}
  <2>1. <<>> \in V
    OBVIOUS
  <2> HIDE DEF V
  <2> QED BY <2>1
<1>2. ASSUME NEW k \in D, NEW g \in [D -> V] PROVE NameTurn(g, claims, checks, k) \in V
  <2>1. CASE k = 0
    BY <2>1 DEF NameTurn
  <2>2. CASE k # 0
    <3>1. k - 1 \in D /\ k \in 1 .. Len(claims)
      BY <1>1, <2>2
    <3>2. g[k - 1] \in V /\ claims[k].check \in names
      BY <3>1 DEF CheckNames
    <3> HIDE DEF names
    <3>3. Append(g[k - 1], claims[k].check) \in V
      BY <3>2
    <3> HIDE DEF V
    <3> QED BY <2>2, <3>2, <3>3 DEF NameTurn
  <2> QED BY <2>1, <2>2
<1> HIDE DEF V
<1>3. step \in [D -> [[D -> V] -> V]]
  BY <1>2
<1>4. LooksBack(step, D, V)
  <2> SUFFICES ASSUME NEW m \in D, NEW g \in [D -> V], NEW h \in [D -> V],
                      \A k \in D : k < m => g[k] = h[k]
               PROVE  step[m][g] = step[m][h]
    BY DEF LooksBack
  <2>1. step[m][g] = NameTurn(g, claims, checks, m) /\ step[m][h] = NameTurn(h, claims, checks, m)
    OBVIOUS
  <2> HIDE DEF step
  <2>2. m # 0 => g[m - 1] = h[m - 1]
    BY <1>1
  <2> QED BY <2>1, <2>2 DEF NameTurn
<1>5. PICK named \in [D -> V] : Solves(named, step, D)
  <2> HIDE DEF step, D
  <2> QED BY <1>1, <1>3, <1>4, Recursion
<1>6. named = [k \in D |-> NameTurn(named, claims, checks, k)]
  <2>1. named = [k \in D |-> step[k][named]]
    BY <1>5 DEF Solves
  <2>2. \A k \in D : step[k][named] = NameTurn(named, claims, checks, k)
    BY <1>5
  <2> HIDE DEF step
  <2> QED BY <2>1, <2>2
<1> QED BY <1>5, <1>6 DEF NamesBy, V

\* It lists those of the checks that some claim names.
NamesAll(claims, checks) ==
    /\ AsNamed(claims, checks) \in Seq(CheckNames(claims))
    /\ Range(AsNamed(claims, checks)) = checks \cap CheckNames(claims)

\* The checks with a last word are listed once each, in the order of their names.
LEMMA AsNamedIs ==
    ASSUME NEW S, NEW claims \in Seq(S), NEW checks
    PROVE  NamesAll(claims, checks)
<1> DEFINE len == Len(claims)
           names == CheckNames(claims)
           named == CHOOSE named : NamesBy(named, claims, checks)
           Upto(k) == {c \in checks : \E l \in 1 .. k : claims[l].check = c}
           Good == {k \in Nat : k \in 0 .. len => named[k] \in Seq(names) /\ Range(named[k]) = Upto(k)}
<1>1. AsNamed(claims, checks) = named[len]
  BY DEF AsNamed, NamesBy, NameTurn
<1>2. NamesBy(named, claims, checks)
  BY NamesExist
<1>3. len \in Nat
  OBVIOUS
<1> HIDE DEF named
<1>4. \A k \in 0 .. len : named[k] = NameTurn(named, claims, checks, k)
  BY <1>2 DEF NamesBy
<1> HIDE DEF len
<1>5. ASSUME NEW k \in Nat, \A l \in Nat : l < k => l \in Good
      PROVE  k \in Good
  <2> SUFFICES ASSUME k \in 0 .. len PROVE named[k] \in Seq(names) /\ Range(named[k]) = Upto(k)
    OBVIOUS
  <2>1. CASE k = 0
    <3>1. named[k] = <<>>
      BY <1>4, <2>1 DEF NameTurn
    <3>2. Upto(k) = {}
      BY <2>1
    <3>3. DOMAIN <<>> = {}
      OBVIOUS
    <3> QED BY <3>1, <3>2, <3>3 DEF Range
  <2>2. CASE k # 0
    <3> DEFINE before == named[k - 1]
               c == claims[k].check
               new == c \in checks /\ \A l \in 1 .. k - 1 : claims[l].check # c
    <3>1. k - 1 \in Good /\ k - 1 \in 0 .. len /\ k \in 1 .. len
      BY <1>3, <1>5, <2>2
    <3>2. before \in Seq(names) /\ Range(before) = Upto(k - 1)
      BY <3>1
    <3>3. named[k] = IF new THEN Append(before, c) ELSE before
      BY <1>4, <2>2 DEF NameTurn
    <3>4. c \in names
      BY <3>1 DEF CheckNames, len
    <3>5. Upto(k) = IF c \in checks THEN Upto(k - 1) \cup {c} ELSE Upto(k - 1)
      <4>1. \A l : l \in 1 .. k <=> l \in 1 .. k - 1 \/ l = k
        BY <3>1
      <4> QED BY <4>1
    <3>6. c \in Upto(k - 1) <=> c \in checks /\ ~new
      OBVIOUS
    <3> HIDE DEF before, c, new, Upto, names
    <3>7. CASE new
      <4>1. Append(before, c) \in Seq(names) /\ Len(Append(before, c)) = Len(before) + 1
            /\ \A l \in 1 .. Len(before) : Append(before, c)[l] = before[l]
            /\ Append(before, c)[Len(before) + 1] = c
        BY <3>2, <3>4, AppendProperties
      <4>2. Range(Append(before, c)) = Range(before) \cup {c}
        <5> DEFINE longer == Append(before, c)
        <5>1. /\ Len(before) \in Nat /\ DOMAIN before = 1 .. Len(before) /\ DOMAIN longer = 1 .. Len(before) + 1
              /\ \A l \in 1 .. Len(before) : longer[l] = before[l]
              /\ longer[Len(before) + 1] = c
          BY <3>2, <4>1, LenProperties
        <5> HIDE DEF longer
        <5>2. \A l : l \in 1 .. Len(before) + 1 <=> l \in 1 .. Len(before) \/ l = Len(before) + 1
          BY <5>1
        <5>3. Range(longer) = Range(before) \cup {c}
          BY <5>1, <5>2 DEF Range
        <5> QED BY <5>3 DEF longer
      <4>3. c \in checks
        BY <3>7 DEF new
      <4> QED BY <3>2, <3>3, <3>5, <3>7, <4>1, <4>2, <4>3
    <3>8. CASE ~new
      BY <3>2, <3>3, <3>5, <3>6, <3>8
    <3> QED BY <3>7, <3>8
  <2> QED BY <2>1, <2>2
<1>6. Good \in SUBSET Nat
  OBVIOUS
<1> HIDE DEF Good
<1>7. len \in Good
  BY <1>3, <1>5, <1>6, AllNumbers
<1>8. named[len] \in Seq(names) /\ Range(named[len]) = Upto(len)
  BY <1>3, <1>7 DEF Good
<1>9. Upto(len) = checks \cap names
  BY DEF CheckNames, len
<1> QED BY <1>1, <1>8, <1>9 DEF NamesAll

-----------------------------------------------------------------------------
(* Lists of lines                                                          *)

\* A list is as long as its parts and holds what they hold.
Conjoined(whole, s, t) ==
    /\ Len(whole) = Len(s) + Len(t)
    /\ Range(whole) = Range(s) \cup Range(t)

\* Two lists, one after the other, hold what either holds.
LEMMA ConcatJoins ==
    ASSUME NEW S, NEW s \in Seq(S), NEW t \in Seq(S)
    PROVE  s \o t \in Seq(S) /\ Conjoined(s \o t, s, t)
<1> DEFINE whole == s \o t
<1>1. /\ whole \in Seq(S) /\ Len(whole) = Len(s) + Len(t)
      /\ \A k \in 1 .. Len(s) + Len(t) : whole[k] = IF k <= Len(s) THEN s[k] ELSE t[k - Len(s)]
  BY ConcatProperties
<1>2. /\ Len(s) \in Nat /\ Len(t) \in Nat /\ DOMAIN s = 1 .. Len(s) /\ DOMAIN t = 1 .. Len(t)
      /\ DOMAIN whole = 1 .. Len(s) + Len(t)
  BY <1>1, LenProperties
<1> HIDE DEF whole
<1>3. \A x \in Range(whole) : x \in Range(s) \/ x \in Range(t)
  <2> SUFFICES ASSUME NEW k \in 1 .. Len(s) + Len(t) PROVE whole[k] \in Range(s) \/ whole[k] \in Range(t)
    BY <1>2 DEF Range
  <2>1. CASE k <= Len(s)
    <3>1. k \in 1 .. Len(s) /\ whole[k] = s[k]
      BY <1>1, <1>2, <2>1
    <3> QED BY <1>2, <3>1 DEF Range
  <2>2. CASE ~(k <= Len(s))
    <3>1. k - Len(s) \in 1 .. Len(t) /\ whole[k] = t[k - Len(s)]
      BY <1>1, <1>2, <2>2
    <3> QED BY <1>2, <3>1 DEF Range
  <2> QED BY <2>1, <2>2
<1>4. \A k \in 1 .. Len(s) : s[k] \in Range(whole)
  <2> TAKE k \in 1 .. Len(s)
  <2>1. k \in 1 .. Len(s) + Len(t) /\ whole[k] = s[k]
    BY <1>1, <1>2
  <2> QED BY <1>2, <2>1 DEF Range
<1>5. \A k \in 1 .. Len(t) : t[k] \in Range(whole)
  <2> TAKE k \in 1 .. Len(t)
  <2>1. k + Len(s) \in 1 .. Len(s) + Len(t) /\ ~(k + Len(s) <= Len(s)) /\ k + Len(s) - Len(s) = k
    BY <1>2
  <2>2. whole[k + Len(s)] = t[k]
    BY <1>1, <2>1
  <2> QED BY <1>2, <2>1, <2>2 DEF Range
<1>6. Range(s) = {s[k] : k \in 1 .. Len(s)} /\ Range(t) = {t[k] : k \in 1 .. Len(t)}
  BY <1>2 DEF Range
<1>7. Range(whole) = Range(s) \cup Range(t)
  BY <1>3, <1>4, <1>5, <1>6
<1> QED BY <1>1, <1>7 DEF Conjoined, whole

\* The parts of every entry.
LEMMA BadgesTold ==
    ASSUME NEW S, NEW rungs \in Seq(S), NEW told, told = [k \in DOMAIN rungs |-> rungs[k].badge]
    PROVE  told \in Seq({r.badge : r \in S}) /\ Len(told) = Len(rungs) /\ Range(told) = {r.badge : r \in Range(rungs)}
<1>1. Len(rungs) \in Nat /\ DOMAIN rungs = 1 .. Len(rungs) /\ \A k \in 1 .. Len(rungs) : rungs[k] \in S
  BY LenProperties
<1>2. told \in [1 .. Len(rungs) -> {r.badge : r \in S}]
  BY <1>1
<1>3. told \in Seq({r.badge : r \in S}) /\ Len(told) = Len(rungs)
  BY <1>1, <1>2
<1> QED BY <1>1, <1>3 DEF Range

\* The lines of the badges that were given.
LEMMA LinesTold ==
    ASSUME NEW S, NEW rungs \in Seq(S), NEW told, told = [k \in DOMAIN rungs |-> rungs[k].line]
    PROVE  told \in Seq({r.line : r \in S}) /\ Len(told) = Len(rungs) /\ Range(told) = {r.line : r \in Range(rungs)}
<1>1. Len(rungs) \in Nat /\ DOMAIN rungs = 1 .. Len(rungs) /\ \A k \in 1 .. Len(rungs) : rungs[k] \in S
  BY LenProperties
<1>2. told \in [1 .. Len(rungs) -> {r.line : r \in S}]
  BY <1>1
<1>3. told \in Seq({r.line : r \in S}) /\ Len(told) = Len(rungs)
  BY <1>1, <1>2
<1> QED BY <1>1, <1>3 DEF Range

\* A line for every check that failed.
LEMMA FailuresTold ==
    ASSUME NEW S, NEW failed \in Seq(S), NEW told, told = [k \in DOMAIN failed |-> CheckFailedWording(failed[k])]
    PROVE  /\ told \in Seq({CheckFailedWording(check) : check \in S}) /\ Len(told) = Len(failed)
           /\ Range(told) = {CheckFailedWording(check) : check \in Range(failed)}
<1>1. Len(failed) \in Nat /\ DOMAIN failed = 1 .. Len(failed) /\ \A k \in 1 .. Len(failed) : failed[k] \in S
  BY LenProperties
<1>2. told \in [1 .. Len(failed) -> {CheckFailedWording(check) : check \in S}]
  BY <1>1
<1>3. told \in Seq({CheckFailedWording(check) : check \in S}) /\ Len(told) = Len(failed)
  BY <1>1, <1>2
<1> QED BY <1>1, <1>3 DEF Range

-----------------------------------------------------------------------------
(* What BadgesOf answers for an episode with an anchor                     *)

Signed(e)   == e.signature # "none" /\ e.signature = "valid"
Vouched(e)  == Signed(e) /\ e.attested
Rung(badge, line)             == [badge |-> badge, line |-> line]
Provided(condition, badge, line) == IF condition THEN <<Rung(badge, line)>> ELSE <<>>
Ladder(e) == <<Rung("L0", L0Wording(e.consent))>> \o Provided(Signed(e), "L1", L1Wording)
                 \o Provided(Vouched(e), "L2", L2Wording)
CheckedRung(e) == Provided(HasL3(e.claims), "L3", L3Wording(ChecksPassed(e.claims)))
FailedOf(e) == AsNamed(e.claims, Failed(e.claims))
BadgesIn(rungs) == [k \in DOMAIN rungs |-> rungs[k].badge]
LinesIn(rungs)  == [k \in DOMAIN rungs |-> rungs[k].line]
FailureLines(failed) == [k \in DOMAIN failed |-> CheckFailedWording(failed[k])]

\* The answer in these words (badges.ts:101-213).
LEMMA BadgesOfIs ==
    ASSUME NEW e
    PROVE  BadgesOf(e) =
             IF ~e.anchored
             THEN [badges |-> <<>>, pending |-> TRUE, failed |-> <<>>, source |-> SourceBlock(e),
                   wording |-> <<PendingWording, SourceBlock(e).wording>>]
             ELSE [badges |-> BadgesIn(Ladder(e) \o CheckedRung(e)), pending |-> FALSE, failed |-> FailedOf(e),
                   source |-> SourceBlock(e),
                   wording |-> LinesIn(Ladder(e)) \o FailureLines(FailedOf(e)) \o LinesIn(CheckedRung(e))
                               \o <<SourceBlock(e).wording>>]
BY DEF BadgesOf, BadgesIn, Ladder, CheckedRung, FailedOf, LinesIn, FailureLines, Provided, Rung, Signed, Vouched

\* A condition adds one rung or none.
GivenIs(given, condition, rung) ==
    Range(given) = {r \in {rung} : condition} /\ Len(given) = IF condition THEN 1 ELSE 0

\* A badge that depends on a condition is there exactly when the condition is.
LEMMA GivenTold ==
    ASSUME NEW condition, NEW badge, NEW line, NEW S, Rung(badge, line) \in S
    PROVE  Provided(condition, badge, line) \in Seq(S) /\ GivenIs(Provided(condition, badge, line), condition, Rung(badge, line))
<1> DEFINE rung == Rung(badge, line)
<1>1. rung \in S
  OBVIOUS
<1> HIDE DEF rung
<1>2. CASE condition
  <2>1. Provided(condition, badge, line) = <<rung>>
    BY <1>2 DEF Provided, rung
  <2>2. <<rung>> \in Seq(S) /\ Len(<<rung>>) = 1 /\ DOMAIN <<rung>> = {1} /\ <<rung>>[1] = rung
    BY <1>1
  <2>3. Range(<<rung>>) = {rung}
    BY <2>2 DEF Range
  <2> QED BY <1>2, <2>1, <2>2, <2>3 DEF GivenIs, rung
<1>3. CASE ~condition
  <2>1. Provided(condition, badge, line) = <<>>
    BY <1>3 DEF Provided
  <2>2. <<>> \in Seq(S) /\ Len(<<>>) = 0 /\ DOMAIN <<>> = {}
    OBVIOUS
  <2>3. Range(<<>>) = {}
    BY <2>2 DEF Range
  <2> QED BY <1>3, <2>1, <2>2, <2>3 DEF GivenIs, rung
<1> QED BY <1>2, <1>3

\* All the rungs there are.
Rungs(e) == {Rung("L0", L0Wording(e.consent)), Rung("L1", L1Wording), Rung("L2", L2Wording),
             Rung("L3", L3Wording(ChecksPassed(e.claims)))}

LadderTold(e) ==
    /\ Ladder(e) \in Seq(Rungs(e)) /\ CheckedRung(e) \in Seq(Rungs(e))
    /\ Range(Ladder(e)) \subseteq Rungs(e) \ {Rung("L3", L3Wording(ChecksPassed(e.claims)))}
    /\ Range(CheckedRung(e)) = {r \in {Rung("L3", L3Wording(ChecksPassed(e.claims)))} : HasL3(e.claims)}

\* The ladder of badges that do not depend on a claim.
LEMMA LadderIs == ASSUME NEW e PROVE LadderTold(e)
<1> DEFINE S == Rungs(e)
           zero == Rung("L0", L0Wording(e.consent))
           one  == Rung("L1", L1Wording)
           two  == Rung("L2", L2Wording)
           three == Rung("L3", L3Wording(ChecksPassed(e.claims)))
           first == <<zero>>
           second == Provided(Signed(e), "L1", L1Wording)
           third == Provided(Vouched(e), "L2", L2Wording)
<1>1. S = {zero, one, two, three}
  BY DEF Rungs
<1>2. three \notin {zero, one, two}
  <2>1. three.badge = "L3" /\ zero.badge = "L0" /\ one.badge = "L1" /\ two.badge = "L2"
    BY DEF Rung
  <2> QED BY <2>1
<1> HIDE DEF S
<1>3. second \in Seq(S) /\ GivenIs(second, Signed(e), one)
  BY <1>1, GivenTold
<1>4. third \in Seq(S) /\ GivenIs(third, Vouched(e), two)
  BY <1>1, GivenTold
<1>5. CheckedRung(e) \in Seq(S) /\ GivenIs(CheckedRung(e), HasL3(e.claims), three)
  BY <1>1, GivenTold DEF CheckedRung
<1>6. Ladder(e) = first \o second \o third
  BY DEF Ladder
<1> HIDE DEF zero, one, two, three, second, third
<1>7. first \in Seq(S) /\ Range(first) = {zero}
  <2>1. first \in Seq(S) /\ DOMAIN first = {1} /\ first[1] = zero
    BY <1>1
  <2> QED BY <2>1 DEF Range
<1> HIDE DEF first
<1>8. first \o second \in Seq(S) /\ Range(first \o second) = Range(first) \cup Range(second)
  BY <1>3, <1>7, ConcatJoins DEF Conjoined
<1>9. first \o second \o third \in Seq(S)
      /\ Range(first \o second \o third) = Range(first \o second) \cup Range(third)
  <2> DEFINE both == first \o second
  <2>1. both \in Seq(S)
    BY <1>8
  <2> HIDE DEF both
  <2>2. both \o third \in Seq(S) /\ Range(both \o third) = Range(both) \cup Range(third)
    BY <1>4, <2>1, ConcatJoins DEF Conjoined
  <2> QED BY <2>2 DEF both
<1>10. Range(Ladder(e)) \subseteq S \ {three}
  BY <1>1, <1>2, <1>3, <1>4, <1>6, <1>7, <1>8, <1>9 DEF GivenIs
<1>11. Range(CheckedRung(e)) = {r \in {three} : HasL3(e.claims)}
  BY <1>5 DEF GivenIs
<1> QED BY <1>5, <1>6, <1>9, <1>10, <1>11 DEF LadderTold, S, three

\* Lists of anything.
IsList(s) == \E S : s \in Seq(S)

\* A list beside a list is a list of both.
LEMMA ListsJoin ==
    ASSUME NEW s, IsList(s), NEW t, IsList(t)
    PROVE  IsList(s \o t) /\ Conjoined(s \o t, s, t)
<1>1. PICK S : s \in Seq(S)
  BY DEF IsList
<1>2. PICK T : t \in Seq(T)
  BY DEF IsList
<1>3. s \in [1 .. Len(s) -> S] /\ t \in [1 .. Len(t) -> T] /\ Len(s) \in Nat /\ Len(t) \in Nat
  BY <1>1, <1>2
<1>4. s \in [1 .. Len(s) -> S \cup T] /\ t \in [1 .. Len(t) -> S \cup T]
  BY <1>3
<1>5. s \in Seq(S \cup T) /\ t \in Seq(S \cup T)
  BY <1>3, <1>4, SeqDef
<1>6. s \o t \in Seq(S \cup T) /\ Conjoined(s \o t, s, t)
  BY <1>5, ConcatJoins
<1> QED BY <1>6 DEF IsList

\* What the answer for an episode with an anchor says.
BadgesSay(e, told) ==
    /\ "L3" \in Range(told.badges) <=> HasL3(e.claims)
    /\ told.failed = FailedOf(e)
    /\ Len(told.wording) = Len(told.badges) + Len(told.failed) + 1
    /\ \A line \in Range(told.wording) :
          /\ line.line = "Checked" => HasL3(e.claims) /\ line.list = ChecksPassed(e.claims)
          /\ line.line = "Source"  => line = SourceBlock(e).wording
    /\ HasL3(e.claims) => L3Wording(ChecksPassed(e.claims)) \in Range(told.wording)
    /\ SourceBlock(e).wording \in Range(told.wording)
    /\ \A check \in Range(told.failed) : CheckFailedWording(check) \in Range(told.wording)

\* What an anchored episode is said to be: the ladder, what passed, what failed.
LEMMA AnchoredTold ==
    ASSUME NEW e, e.anchored, IsList(e.claims), NEW told, told = BadgesOf(e)
    PROVE  BadgesSay(e, told)
<1> DEFINE failed == FailedOf(e)
           block == SourceBlock(e).wording
           three == Rung("L3", L3Wording(ChecksPassed(e.claims)))
           ladder == Ladder(e)
           checked == CheckedRung(e)
           one == LinesIn(ladder)
           two == FailureLines(failed)
           last == LinesIn(checked)
           has == HasL3(e.claims)
<1>1. /\ told.badges = BadgesIn(ladder \o checked) /\ told.failed = failed
      /\ told.wording = one \o two \o last \o <<block>>
  BY BadgesOfIs
<1>2. PICK F : failed \in Seq(F)
  <2>1. PICK S : e.claims \in Seq(S)
    BY DEF IsList
  <2> QED BY <2>1, AsNamedIs DEF NamesAll, FailedOf
<1>3. /\ ladder \in Seq(Rungs(e)) /\ checked \in Seq(Rungs(e))
      /\ Range(ladder) \subseteq Rungs(e) \ {three} /\ Range(checked) = {r \in {three} : has}
  BY LadderIs DEF LadderTold
<1>4. \A r \in Rungs(e) \ {three} : r.badge # "L3" /\ r.line.line \notin {"Checked", "Source"}
  BY DEF Rungs, Rung, L0Wording, L1Wording, L2Wording
<1>5. three.badge = "L3" /\ three.line = L3Wording(ChecksPassed(e.claims))
  BY DEF Rung
<1>6. block.line = "Source"
  BY DEF SourceBlock, AttestedPhysicalWording, SourceWording
<1>7. \A check : CheckFailedWording(check).line = "Check failed"
  BY DEF CheckFailedWording
<1> HIDE DEF failed, block, three, ladder, checked, has
<1>7a. one = [k \in DOMAIN ladder |-> ladder[k].line] /\ last = [k \in DOMAIN checked |-> checked[k].line]
      /\ two = [k \in DOMAIN failed |-> CheckFailedWording(failed[k])]
  BY DEF LinesIn, FailureLines
<1> HIDE DEF one, two, last
<1>8. /\ IsList(one) /\ Len(one) = Len(ladder) /\ Range(one) = {r.line : r \in Range(ladder)}
      /\ IsList(last) /\ Len(last) = Len(checked) /\ Range(last) = {r.line : r \in Range(checked)}
  <2>1. /\ one \in Seq({r.line : r \in Rungs(e)}) /\ Len(one) = Len(ladder)
        /\ Range(one) = {r.line : r \in Range(ladder)}
    BY <1>3, <1>7a, LinesTold
  <2>2. /\ last \in Seq({r.line : r \in Rungs(e)}) /\ Len(last) = Len(checked)
        /\ Range(last) = {r.line : r \in Range(checked)}
    BY <1>3, <1>7a, LinesTold
  <2>3. IsList(one) /\ IsList(last)
    BY <2>1, <2>2 DEF IsList
  <2> QED BY <2>1, <2>2, <2>3
<1>9. IsList(two) /\ Len(two) = Len(failed) /\ Range(two) = {CheckFailedWording(check) : check \in Range(failed)}
  <2>1. /\ two \in Seq({CheckFailedWording(check) : check \in F}) /\ Len(two) = Len(failed)
        /\ Range(two) = {CheckFailedWording(check) : check \in Range(failed)}
    BY <1>2, <1>7a, FailuresTold
  <2>2. IsList(two)
    BY <2>1 DEF IsList
  <2> QED BY <2>1, <2>2
<1>10. IsList(<<block>>) /\ Len(<<block>>) = 1 /\ Range(<<block>>) = {block}
  <2>1. <<block>> \in Seq({block}) /\ Len(<<block>>) = 1 /\ DOMAIN <<block>> = {1} /\ <<block>>[1] = block
    OBVIOUS
  <2> QED BY <2>1 DEF IsList, Range
<1>11. IsList(one \o two) /\ Conjoined(one \o two, one, two)
  BY <1>8, <1>9, ListsJoin
<1> DEFINE a == one \o two
<1> HIDE DEF a
<1>12. IsList(a \o last) /\ Conjoined(a \o last, a, last)
  BY <1>8, <1>11, ListsJoin DEF a
<1> DEFINE b == a \o last
           d == <<block>>
<1> HIDE DEF b, d
<1>13. Conjoined(b \o d, b, d)
  BY <1>10, <1>12, ListsJoin DEF b, d
<1>14. /\ told.wording = b \o d
       /\ Range(told.wording) = Range(one) \cup Range(two) \cup Range(last) \cup {block}
  BY <1>1, <1>10, <1>11, <1>12, <1>13 DEF Conjoined, a, b, d
<1>15. ladder \o checked \in Seq(Rungs(e)) /\ Conjoined(ladder \o checked, ladder, checked)
  BY <1>3, ConcatJoins
<1> DEFINE rungs == ladder \o checked
<1> HIDE DEF rungs
<1>16. Len(told.badges) = Len(rungs) /\ Range(told.badges) = {r.badge : r \in Range(rungs)}
  <2>1. told.badges = [k \in DOMAIN rungs |-> rungs[k].badge] /\ rungs \in Seq(Rungs(e))
    BY <1>1, <1>15 DEF BadgesIn, rungs
  <2> QED BY <2>1, BadgesTold
<1>17. "L3" \in Range(told.badges) <=> has
  BY <1>3, <1>4, <1>5, <1>15, <1>16 DEF Conjoined, rungs
<1>18. Len(told.wording) = Len(told.badges) + Len(told.failed) + 1
  <2>1. Len(ladder) \in Nat /\ Len(checked) \in Nat /\ Len(failed) \in Nat
    BY <1>2, <1>3
  <2>2. /\ Len(told.badges) = Len(ladder) + Len(checked)
        /\ Len(told.wording) = ((Len(ladder) + Len(failed)) + Len(checked)) + 1
    BY <1>8, <1>9, <1>10, <1>11, <1>12, <1>13, <1>14, <1>15, <1>16 DEF Conjoined, a, b, d, rungs
  <2> QED BY <1>1, <2>1, <2>2
<1>19. \A line \in Range(told.wording) :
          /\ line.line = "Checked" => has /\ line = three.line
          /\ line.line = "Source"  => line = block
  <2>1. \A line \in Range(one) : line.line \notin {"Checked", "Source"}
    BY <1>3, <1>4, <1>8
  <2>2. \A line \in Range(two) : line.line \notin {"Checked", "Source"}
    BY <1>7, <1>9
  <2>3. \A line \in Range(last) : has /\ line = three.line
    BY <1>3, <1>8
  <2>4. three.line.line = "Checked"
    BY <1>5 DEF L3Wording
  <2> QED BY <1>6, <1>14, <2>1, <2>2, <2>3, <2>4
<1>20. three.line.list = ChecksPassed(e.claims)
  BY <1>5 DEF L3Wording
<1>21. has => three.line \in Range(told.wording)
  BY <1>3, <1>8, <1>14
<1>22. block \in Range(told.wording)
  BY <1>14
<1>23. \A check \in Range(told.failed) : CheckFailedWording(check) \in Range(told.wording)
  BY <1>1, <1>9, <1>14
<1> QED BY <1>1, <1>5, <1>17, <1>18, <1>19, <1>20, <1>21, <1>22, <1>23 DEF BadgesSay, has, failed, block

-----------------------------------------------------------------------------
(* The last word decides                                                   *)

L3Said(claims) ==
    \A check \in DOMAIN Config : Config[check].enabled =>
        /\ Config[check].blocking => SaidLast(claims, check, "pass")
        /\ ~SaidLast(claims, check, "fail")

AttestedLast(e) ==
    /\ e.source \in Physical /\ e.controllerAttested
    /\ SaidLast(e.claims, "sim_signature.v1", "pass")
    /\ e.hasVideo => SaidLast(e.claims, "sensor_consistency.v1", "pass")

\* What badges and wording make of the claims (badges.ts:62-101,
\* wording.ts:124-147).
SaidOf(claims) ==
    /\ HasL3(claims) <=> L3Said(claims)
    /\ \A check : check \in ChecksPassed(claims) <=> check \in Enabled /\ SaidLast(claims, check, "pass")
    /\ \A check : check \in Failed(claims) <=>
          SaidLast(claims, check, "fail") /\ (check \in DOMAIN Config => Config[check].enabled)
    /\ Failed(claims) \subseteq CheckNames(claims)

\* Whatever their order, claims say of each check what was said last.
LEMMA ClaimsSay ==
    ASSUME NEW claims, IsClaims(claims), Ordered(claims)
    PROVE  SaidOf(claims)
<1>1. \A check : LastDecides(claims, check)
  BY LatestIsLast
<1>2. \A check : /\ Latest(claims, check) = {"pass"} <=> SaidLast(claims, check, "pass")
                 /\ "fail" \in Latest(claims, check) <=> SaidLast(claims, check, "fail")
  BY <1>1 DEF LastDecides
<1>3. DOMAIN claims = 1 .. Len(claims)
  BY DEF IsClaims
<1>4. CheckNames(claims) = {claims[k].check : k \in DOMAIN claims}
  BY <1>3 DEF CheckNames
<1>5. \A check : SaidLast(claims, check, "fail") => check \in CheckNames(claims)
  BY <1>4 DEF SaidLast
<1>6. HasL3(claims) <=> L3Said(claims)
  BY <1>2 DEF HasL3, L3Said, Enabled, Blocking
<1>7. \A check : check \in ChecksPassed(claims) <=> check \in Enabled /\ SaidLast(claims, check, "pass")
  BY <1>2 DEF ChecksPassed
<1>8. Failed(claims) = {check \in CheckNames(claims) :
          SaidLast(claims, check, "fail") /\ (check \in DOMAIN Config => Config[check].enabled)}
  BY <1>2, <1>4 DEF Failed
<1> QED BY <1>5, <1>6, <1>7, <1>8 DEF SaidOf

\* Physical origin is attested exactly by the last words on its checks.
LEMMA AttestedIs ==
    ASSUME NEW e, IsClaims(e.claims), Ordered(e.claims)
    PROVE  IsAttestedPhysical(e) <=> AttestedLast(e)
<1> DEFINE claims == e.claims
<1>1. \A check : LastDecides(claims, check)
  BY LatestIsLast
<1>2. \A check : LatestForSource(claims, check) = {"pass"} <=> SaidLast(claims, check, "pass")
  BY <1>1 DEF LastDecides
<1> QED BY <1>2 DEF IsAttestedPhysical, AttestedLast

\* A known source, and claims with times.
IsEpisode(e) ==
    /\ e.source \in DOMAIN SourceText
    /\ IsClaims(e.claims)

\* The line of the source shows whether it is attested.
TellsTheSource(e) ==
    LET line == SourceBlock(e).wording IN
    /\ "physical" \in Range(line.text) /\ "declared" \notin Range(line.text) <=> IsAttestedPhysical(e)
    /\ line = AttestedPhysicalWording <=> IsAttestedPhysical(e)

\* The line of the source follows the same last words.
LEMMA SourceTells ==
    ASSUME NEW e, IsEpisode(e)
    PROVE  TellsTheSource(e)
<1> DEFINE own == SourceText[e.source]
           line == SourceBlock(e).wording
<1> DEFINE words == {"declared", "simulation", "human-driven", "physical", "robot", "autonomous", "mixed"}
<1>1. own \in Seq(words)
  <2>1. e.source \in {"sim", "teleop_sim", "teleop_real", "autonomous_real", "mixed"}
    BY DEF IsEpisode, SourceText
  <2>2. /\ SourceText["sim"] = <<"simulation">> /\ SourceText["teleop_sim"] = <<"human-driven", "simulation">>
        /\ SourceText["teleop_real"] = <<"human-driven", "physical", "robot">>
        /\ SourceText["autonomous_real"] = <<"autonomous", "physical", "robot">>
        /\ SourceText["mixed"] = <<"mixed">>
    BY DEF SourceText
  <2>3. /\ <<"simulation">> \in Seq(words) /\ <<"human-driven", "simulation">> \in Seq(words)
        /\ <<"mixed">> \in Seq(words)
    OBVIOUS
  <2>4. <<"human-driven", "physical", "robot">> \in Seq(words)
    OBVIOUS
  <2>5. <<"autonomous", "physical", "robot">> \in Seq(words)
    OBVIOUS
  <2> HIDE DEF words
  <2> QED BY <2>1, <2>2, <2>3, <2>4, <2>5
<1>2. /\ <<"declared">> \in Seq(words) /\ DOMAIN <<"declared">> = {1} /\ <<"declared">>[1] = "declared"
  <2>1. <<"declared">> \in Seq(words)
    OBVIOUS
  <2>2. DOMAIN <<"declared">> = {1} /\ <<"declared">>[1] = "declared"
    OBVIOUS
  <2> QED BY <2>1, <2>2
<1>3. "declared" \in Range(<<"declared">>)
  BY <1>2 DEF Range
<1> HIDE DEF own, words
<1>4. "declared" \in Range(<<"declared">> \o own)
  <2> DEFINE lead == <<"declared">>
  <2> HIDE DEF lead
  <2>1. lead \in Seq(words) /\ "declared" \in Range(lead)
    BY <1>2, <1>3 DEF lead
  <2>2. Conjoined(lead \o own, lead, own)
    BY <1>1, <2>1, ConcatJoins
  <2>3. "declared" \in Range(lead \o own)
    BY <2>1, <2>2 DEF Conjoined
  <2> QED BY <2>3 DEF lead
<1> DEFINE attested == <<"attested", "physical", "capture">>
           declared == <<"declared">> \o own
<1>5. "physical" \in Range(attested) /\ "declared" \notin Range(attested)
  <2>1. DOMAIN attested = {1, 2, 3}
    OBVIOUS
  <2>2. attested[1] = "attested" /\ attested[2] = "physical" /\ attested[3] = "capture"
    OBVIOUS
  <2> HIDE DEF attested
  <2> QED BY <2>1, <2>2 DEF Range
<1>6. line = IF IsAttestedPhysical(e) THEN [line |-> "Source", text |-> attested]
             ELSE [line |-> "Source", text |-> declared]
  BY DEF SourceBlock, AttestedPhysicalWording, SourceWording, own
<1>7. AttestedPhysicalWording = [line |-> "Source", text |-> attested]
  BY DEF AttestedPhysicalWording
<1> HIDE DEF attested, declared, line
<1>8. declared # attested
  BY <1>4, <1>5 DEF declared
<1> DEFINE first == [line |-> "Source", text |-> attested]
           second == [line |-> "Source", text |-> declared]
<1>9. first.text = attested /\ second.text = declared
  OBVIOUS
<1> HIDE DEF first, second
<1>10. first # second
  BY <1>8, <1>9
<1>11. line = IF IsAttestedPhysical(e) THEN first ELSE second
  BY <1>6 DEF first, second
<1>12. AttestedPhysicalWording = first
  BY <1>7 DEF first
<1>13. "physical" \in Range(line.text) /\ "declared" \notin Range(line.text) <=> IsAttestedPhysical(e)
  BY <1>4, <1>5, <1>9, <1>11 DEF declared
<1>14. line = AttestedPhysicalWording <=> IsAttestedPhysical(e)
  BY <1>10, <1>11, <1>12
<1> QED BY <1>13, <1>14 DEF TellsTheSource, line

\* What is promised of the answer to claims.
Decided(claims, e, told) ==
    LET lines(kind) == {line \in Range(told.wording) : line.line = kind}
        checked == e.anchored /\ L3Said(claims)
        counts(check) == check \in DOMAIN Config => Config[check].enabled IN
    Ordered(claims) =>
        /\ "L3" \in Range(told.badges) <=> checked
        /\ lines("Checked") # {} <=> checked
        /\ \A line \in lines("Checked") : \A check \in DOMAIN Config :
             check \in line.list <=> check \in Enabled /\ SaidLast(claims, check, "pass")
        /\ \A check \in Range(told.failed) : SaidLast(claims, check, "fail") /\ counts(check)
        /\ \A check \in {claims[k].check : k \in DOMAIN claims} :
             e.anchored /\ counts(check) /\ SaidLast(claims, check, "fail") =>
                 /\ check \in Range(told.failed)
                 /\ \E line \in lines("Check failed") : line.check = check
        /\ "L3" \in Range(told.badges) => Range(told.failed) \cap DOMAIN Config = {}
        /\ Len(told.wording) =
             Len(told.badges) + Len(told.failed) + (IF e.anchored THEN 1 ELSE 2)
        /\ \A line \in lines("Source") :
             "physical" \in Range(line.text) /\ "declared" \notin Range(line.text) <=> AttestedLast(e)
        /\ told.source.attested <=> AttestedLast(e)

\* The last word on a check decides badges, lines and source (badges.ts:101-213,
\* wording.ts:124-186).
LEMMA LastWordDecides ==
    ASSUME NEW e, IsEpisode(e), NEW claims, claims = e.claims, NEW told, told = BadgesOf(e)
    PROVE  Decided(claims, e, told)
<1> SUFFICES ASSUME Ordered(claims) PROVE Decided(claims, e, told)
  BY DEF Decided
<1>1. IsClaims(claims) /\ IsList(claims)
  BY DEF IsEpisode, IsClaims, IsList
<1>2. SaidOf(claims)
  BY <1>1, ClaimsSay
<1>3. AttestedLast(e) <=> IsAttestedPhysical(e)
  BY <1>1, AttestedIs
<1>4. TellsTheSource(e)
  BY SourceTells
<1>5. told.source = SourceBlock(e)
  BY BadgesOfIs
<1>6. told.source.attested <=> AttestedLast(e)
  BY <1>3, <1>5 DEF SourceBlock
<1> DEFINE block == SourceBlock(e).wording
<1>7. "physical" \in Range(block.text) /\ "declared" \notin Range(block.text) <=> AttestedLast(e)
  BY <1>3, <1>4 DEF TellsTheSource
<1>8. CASE e.anchored
  <2>1. BadgesSay(e, told)
    BY <1>1, <1>8, AnchoredTold
  <2>2. Range(told.failed) = Failed(claims)
    <3>1. PICK S : claims \in Seq(S)
      BY <1>1 DEF IsList
    <3>2. Range(AsNamed(claims, Failed(claims))) = Failed(claims) \cap CheckNames(claims)
      BY <3>1, AsNamedIs DEF NamesAll
    <3>3. told.failed = AsNamed(claims, Failed(claims))
      BY <2>1 DEF BadgesSay, FailedOf
    <3> QED BY <1>2, <3>2, <3>3 DEF SaidOf
  <2>3. \A check \in Range(told.failed) :
           /\ CheckFailedWording(check) \in Range(told.wording)
           /\ CheckFailedWording(check).line = "Check failed" /\ CheckFailedWording(check).check = check
    BY <2>1 DEF BadgesSay, CheckFailedWording
  <2>4. L3Wording(ChecksPassed(claims)).line = "Checked"
    BY DEF L3Wording
  <2>5. \A check \in Range(told.failed) :
           SaidLast(claims, check, "fail") /\ (check \in DOMAIN Config => Config[check].enabled)
    BY <1>2, <2>2 DEF SaidOf
  <2>6. \A check : SaidLast(claims, check, "fail") /\ (check \in DOMAIN Config => Config[check].enabled)
                    => check \in Range(told.failed)
    BY <1>2, <2>2 DEF SaidOf
  <2>7. L3Said(claims) => Range(told.failed) \cap DOMAIN Config = {}
    BY <2>5 DEF L3Said
  <2> QED BY <1>2, <1>6, <1>7, <1>8, <2>1, <2>3, <2>4, <2>5, <2>6, <2>7 DEF Decided, BadgesSay, SaidOf
<1>9. CASE ~e.anchored
  <2>1. told.badges = <<>> /\ told.failed = <<>> /\ told.wording = <<PendingWording, block>>
    BY <1>9, BadgesOfIs
  <2>2. Range(told.badges) = {} /\ Range(told.failed) = {} /\ Len(told.badges) = 0 /\ Len(told.failed) = 0
    <3>1. DOMAIN <<>> = {} /\ Len(<<>>) = 0
      OBVIOUS
    <3>2. Range(<<>>) = {}
      BY <3>1 DEF Range
    <3> QED BY <2>1, <3>1, <3>2
  <2>3. PendingWording.line = "Pending" /\ block.line = "Source"
    BY DEF PendingWording, SourceBlock, AttestedPhysicalWording, SourceWording
  <2> HIDE DEF block
  <2>4. Len(told.wording) = 2 /\ Range(told.wording) = {PendingWording, block}
    <3> DEFINE first == PendingWording
    <3> HIDE DEF first
    <3>1. Len(<<first, block>>) = 2 /\ DOMAIN <<first, block>> = {1, 2}
          /\ <<first, block>>[1] = first /\ <<first, block>>[2] = block
      OBVIOUS
    <3>2. Range(<<first, block>>) = {first, block}
      BY <3>1 DEF Range
    <3> QED BY <2>1, <3>1, <3>2 DEF first
  <2>5. \A line \in Range(told.wording) : line.line \in {"Pending", "Source"} /\ (line.line = "Source" => line = block)
    BY <2>3, <2>4
  <2> QED BY <1>6, <1>7, <1>9, <2>2, <2>4, <2>5 DEF Decided
<1> QED BY <1>8, <1>9

-----------------------------------------------------------------------------
(* A report about several episodes                                         *)

\* One attested line more or less says whether the episode is attested.
LEMMA LinesTellAttested ==
    ASSUME NEW e, IsEpisode(e)
    PROVE  IsAttestedFromWording(BadgesOf(e).wording) <=> IsAttestedPhysical(e)
<1> DEFINE told == BadgesOf(e)
           block == SourceBlock(e).wording
<1>1. \A s : IsAttestedFromWording(s) <=> AttestedPhysicalWording \in Range(s)
  BY DEF IsAttestedFromWording, Range
<1>2. AttestedPhysicalWording.line = "Source"
  BY DEF AttestedPhysicalWording
<1>3. block = AttestedPhysicalWording <=> IsAttestedPhysical(e)
  BY SourceTells DEF TellsTheSource
<1> HIDE DEF told
<1>4. CASE e.anchored
  <2>1. BadgesSay(e, told)
    BY <1>4, AnchoredTold DEF IsEpisode, IsClaims, IsList, told
  <2>2. block \in Range(told.wording) /\ \A line \in Range(told.wording) : line.line = "Source" => line = block
    BY <2>1 DEF BadgesSay
  <2> HIDE DEF block
  <2> QED BY <1>1, <1>2, <1>3, <2>2 DEF told
<1>5. CASE ~e.anchored
  <2>1. told.wording = <<PendingWording, block>>
    BY <1>5, BadgesOfIs DEF told
  <2>2. PendingWording.line = "Pending"
    BY DEF PendingWording
  <2> DEFINE first == PendingWording
  <2> HIDE DEF first, block
  <2>3. DOMAIN <<first, block>> = {1, 2} /\ <<first, block>>[1] = first /\ <<first, block>>[2] = block
    OBVIOUS
  <2>4. Range(<<first, block>>) = {first, block}
    BY <2>3 DEF Range
  <2>5. AttestedPhysicalWording # first
    BY <1>2, <2>2 DEF first
  <2> QED BY <1>1, <1>3, <2>1, <2>4, <2>5 DEF told, first
<1> QED BY <1>4, <1>5

MembersOf(members) ==
    [k \in DOMAIN members |-> [source |-> members[k].source, wording |-> BadgesOf(members[k]).wording]]

\* What is promised of the line about the sources of a report.
Counted(members, told) ==
    /\ told.k = Cardinality({k \in DOMAIN members : AttestedLast(members[k])})
    /\ told.k <= told.n /\ told.n <= told.m

\* A report counts the attested episodes, and no more than are declared physical
\* (render.ts:80-82).
LEMMA SourcesCount ==
    ASSUME NEW members, IsList(members),
           \A k \in DOMAIN members : IsEpisode(members[k]) /\ Ordered(members[k].claims),
           NEW told, told = CorpusSourcesWording(MembersOf(members))
    PROVE  Counted(members, told)
<1> DEFINE rows == MembersOf(members)
           D == DOMAIN members
           physical == {k \in D : members[k].source \in Physical}
           attested == {k \in D : AttestedLast(members[k])}
<1>1. DOMAIN rows = D /\ \A k \in D : rows[k].source = members[k].source
                                     /\ rows[k].wording = BadgesOf(members[k]).wording
  BY DEF MembersOf
<1>2. Len(members) \in Nat /\ D = 1 .. Len(members)
  BY DEF IsList
<1>3. Len(rows) = Len(members)
  <2>1. rows \in [1 .. Len(members) -> {rows[k] : k \in D}]
    BY <1>2 DEF MembersOf
  <2> HIDE DEF rows
  <2> QED BY <1>1, <1>2, LenProperties
<1> HIDE DEF rows
<1>4. \A k \in D : IsAttestedFromWording(rows[k].wording) <=> AttestedLast(members[k])
  BY <1>1, LinesTellAttested, AttestedIs DEF IsEpisode
<1>5. {k \in DOMAIN rows : IsAttestedFromWording(rows[k].wording)} = attested
  BY <1>1, <1>4
<1>6. {k \in DOMAIN rows : rows[k].source \in Physical} = physical
  BY <1>1
<1> HIDE DEF D
<1>7. told.k = Cardinality(attested) /\ told.n = Cardinality(physical) /\ told.m = Len(members)
  BY <1>3, <1>5, <1>6 DEF CorpusSourcesWording, rows
<1>8. attested \subseteq physical /\ physical \subseteq D
  BY DEF AttestedLast
<1> HIDE DEF attested, physical
<1>9. IsFiniteSet(D) /\ Cardinality(D) = Len(members)
  <2>1. Len(members) \in Int /\ 1 \in Int
    BY <1>2
  <2>2. IsFiniteSet(1 .. Len(members))
        /\ Cardinality(1 .. Len(members)) = IF 1 > Len(members) THEN 0 ELSE Len(members) - 1 + 1
    BY <2>1, FS_Interval
  <2> QED BY <1>2, <2>2
<1>10. IsFiniteSet(physical) /\ Cardinality(physical) <= Len(members)
  BY <1>8, <1>9, FS_Subset
<1>11. Cardinality(attested) <= Cardinality(physical)
  BY <1>8, <1>10, FS_Subset
<1> QED BY <1>7, <1>10, <1>11 DEF Counted, attested, D

-----------------------------------------------------------------------------
(* computeRoot, by recursion: sparse.ts and merkle.js *)

\* What the recursion of SparseFold says of one level.
ClimbTurn(up, key, value, bitmap, siblings, level) ==
    IF level = 0 THEN [ok |-> TRUE, node |-> value, used |-> 0]
    ELSE LET below == up[level - 1]
             taken == level - 1 \in bitmap
             word  == IF taken THEN siblings[below.used + 1] ELSE Zero
         IN  IF ~below.ok \/ (taken /\ below.used >= Len(siblings))
             THEN [below EXCEPT !.ok = FALSE]
             ELSE [ok |-> TRUE, used |-> IF taken THEN below.used + 1 ELSE below.used,
                   node |-> IF Bit(key, level - 1) = 1 THEN SparseHashNode(word, below.node)
                            ELSE SparseHashNode(below.node, word)]
ClimbBy(up, key, value, bitmap, siblings) ==
    up = [level \in 0 .. Depth |-> ClimbTurn(up, key, value, bitmap, siblings, level)]

\* What it can come to.
Climbs(U) == [ok: BOOLEAN, node: U, used: Nat]

\* A climb that is stopped stays where it was.
LEMMA ClimbStops ==
    ASSUME NEW U, NEW below \in Climbs(U)
    PROVE  /\ [below EXCEPT !.ok = FALSE] \in Climbs(U)
           /\ [below EXCEPT !.ok = FALSE].ok = FALSE
BY DEF Climbs

\* There is a function that satisfies the recursion of SparseFold.
LEMMA ClimbExists ==
    ASSUME NEW key, NEW value, NEW bitmap, NEW S, NEW siblings \in Seq(S)
    PROVE  \E up : ClimbBy(up, key, value, bitmap, siblings)
<1> DEFINE B == {value, Zero} \cup {siblings[k] : k \in 1 .. Len(siblings)}
<1>1. PICK U : B \subseteq U /\ \A l, r \in U : HashNode(l, r) \in U
  BY TreesExist
<1>2. /\ value \in U /\ Zero \in U /\ Len(siblings) \in Nat
      /\ \A k \in 1 .. Len(siblings) : siblings[k] \in U
  BY <1>1
<1>3. \A l, r \in U : SparseHashNode(l, r) \in U
  BY <1>1, <1>2 DEF SparseHashNode
<1> HIDE DEF B
<1> DEFINE V == Climbs(U)
           step == [level \in 0 .. Depth |->
                      [g \in [0 .. Depth -> V] |-> ClimbTurn(g, key, value, bitmap, siblings, level)]]
<1>4. (0 .. Depth) \in SUBSET Nat /\ V # {}
  <2>1. [ok |-> TRUE, node |-> value, used |-> 0] \in V
    BY <1>2 DEF Climbs
  <2>2. (0 .. Depth) \in SUBSET Nat
    BY SparseAssumption
  <2> QED BY <2>1, <2>2
<1>5. ASSUME NEW level \in 0 .. Depth, NEW g \in [0 .. Depth -> V]
      PROVE  ClimbTurn(g, key, value, bitmap, siblings, level) \in V
  <2>1. CASE level = 0
    BY <1>2, <2>1 DEF ClimbTurn, Climbs
  <2>2. CASE level # 0
    <3> DEFINE below == g[level - 1]
               taken == level - 1 \in bitmap
               word  == IF taken THEN siblings[below.used + 1] ELSE Zero
               over  == [ok |-> TRUE, used |-> IF taken THEN below.used + 1 ELSE below.used,
                         node |-> IF Bit(key, level - 1) = 1 THEN SparseHashNode(word, below.node)
                                  ELSE SparseHashNode(below.node, word)]
    <3>1. level - 1 \in 0 .. Depth
      BY <2>2, SparseAssumption
    <3>2. below \in V
      BY <3>1
    <3>3. below.node \in U /\ below.used \in Nat
      BY <3>2 DEF Climbs
    <3> HIDE DEF below
    <3>4. ASSUME ~ (taken /\ below.used >= Len(siblings)) PROVE over \in V
      <4>1. word \in U
        <5>1. CASE taken
          <6>1. below.used + 1 \in 1 .. Len(siblings)
            BY <1>2, <3>3, <3>4, <5>1
          <6> QED BY <1>2, <5>1, <6>1
        <5>2. CASE ~taken
          BY <1>2, <5>2
        <5> QED BY <5>1, <5>2
      <4> HIDE DEF word, taken
      <4>2. SparseHashNode(word, below.node) \in U /\ SparseHashNode(below.node, word) \in U
        BY <1>3, <3>3, <4>1
      <4> QED BY <3>3, <4>2 DEF Climbs
    <3>5. [below EXCEPT !.ok = FALSE] \in V
      BY <3>2, ClimbStops
    <3> HIDE DEF V
    <3> QED BY <2>2, <3>4, <3>5 DEF ClimbTurn, below
  <2> QED BY <2>1, <2>2
<1>6. step \in [0 .. Depth -> [[0 .. Depth -> V] -> V]]
  BY <1>5
<1>7. LooksBack(step, 0 .. Depth, V)
  <2> SUFFICES ASSUME NEW level \in 0 .. Depth, NEW g \in [0 .. Depth -> V], NEW h \in [0 .. Depth -> V],
                      \A k \in 0 .. Depth : k < level => g[k] = h[k]
               PROVE  step[level][g] = step[level][h]
    BY DEF LooksBack
  <2>1. level # 0 => g[level - 1] = h[level - 1]
    <3>1. level # 0 => level - 1 \in 0 .. Depth /\ level - 1 < level
      BY SparseAssumption
    <3> QED BY <3>1
  <2> QED BY <2>1 DEF ClimbTurn
<1> HIDE DEF step, V
<1>8. PICK up \in [0 .. Depth -> V] : Solves(up, step, 0 .. Depth)
  BY <1>4, <1>6, <1>7, Recursion
<1>9. \A level \in 0 .. Depth : step[level][up] = ClimbTurn(up, key, value, bitmap, siblings, level)
  BY <1>8 DEF step
<1> QED BY <1>8, <1>9 DEF ClimbBy, Solves

\* Where computeRoot is at each level.
Climbed(q) == CHOOSE up : ClimbBy(up, q.key, q.value, q.bitmap, q.proof)
FoldOf(q)  == SparseFold(q.key, q.value, q.bitmap, q.proof)

\* It throws, or comes to one node.
LEMMA FoldOfIs ==
    ASSUME NEW q
    PROVE  FoldOf(q) = IF Climbed(q)[Depth].ok /\ Climbed(q)[Depth].used = Len(q.proof)
                       THEN {Climbed(q)[Depth].node} ELSE {}
BY DEF FoldOf, SparseFold, Climbed, ClimbBy, ClimbTurn

\* computeRoot comes to the root of the revocations exactly with the proof of these.
LEMMA FoldsToTheRoot ==
    ASSUME NEW q, IsConsent(q)
    PROVE  ConsentRoot[q.anchored] \in FoldOf(q) <=> ExactConsent(q)
<1> DEFINE up == Climbed(q)
           Right(level) ==
               /\ "ok" \in DOMAIN up[level]
               /\ IF up[level].ok THEN /\ up[level].used \in Nat
                                      /\ ConsentAt(q, up[level].node, level, up[level].used)
                  ELSE ~ExactConsent(q)
<1>1. q.proof \in Seq(SparseWords) /\ Len(q.proof) \in Nat /\ Depth \in Nat
  BY SparseAssumption DEF IsConsent
<1>2. ClimbBy(up, q.key, q.value, q.bitmap, q.proof)
  BY <1>1, ClimbExists DEF Climbed
<1> HIDE DEF up
<1>3. \A level \in 0 .. Depth : up[level] = ClimbTurn(up, q.key, q.value, q.bitmap, q.proof, level)
  BY <1>2 DEF ClimbBy
<1>4. Right(0)
  <2>1. up[0] = [ok |-> TRUE, node |-> q.value, used |-> 0]
    <3>1. 0 \in 0 .. Depth
      BY <1>1
    <3> QED BY <1>3, <3>1 DEF ClimbTurn
  <2> QED BY <2>1, ConsentBegins
<1>5. ASSUME NEW level \in Nat, level < Depth, Right(level) PROVE Right(level + 1)
  <2> DEFINE below == up[level]
             taken == level \in q.bitmap
             word  == IF taken THEN q.proof[below.used + 1] ELSE Zero
             more  == IF taken THEN below.used + 1 ELSE below.used
             next  == IF Bit(q.key, level) = 1 THEN SparseHashNode(word, below.node)
                      ELSE SparseHashNode(below.node, word)
  <2>1. level + 1 \in 0 .. Depth /\ level + 1 # 0 /\ (level + 1) - 1 = level
    BY <1>1, <1>5
  <2>2. up[level + 1] = IF ~below.ok \/ (taken /\ below.used >= Len(q.proof))
                        THEN [below EXCEPT !.ok = FALSE]
                        ELSE [ok |-> TRUE, used |-> more, node |-> next]
    BY <1>3, <2>1 DEF ClimbTurn
  <2>3. Right(level)
    BY <1>5
  <2> HIDE DEF taken, word, more, next
  <2>4. CASE ~below.ok \/ (taken /\ below.used >= Len(q.proof))
    <3>1. "ok" \in DOMAIN up[level + 1] /\ up[level + 1].ok = FALSE
      <4>1. up[level + 1] = [below EXCEPT !.ok = FALSE]
        BY <2>2, <2>4
      <4>2. "ok" \in DOMAIN below
        BY <2>3
      <4> HIDE DEF below
      <4> QED BY <4>1, <4>2
    <3>2. ~ExactConsent(q)
      <4>1. CASE ~below.ok
        BY <2>3, <4>1
      <4>2. CASE below.ok /\ taken /\ below.used >= Len(q.proof)
        BY <1>5, <2>3, <4>2, ConsentRevertsOnly DEF taken
      <4> QED BY <2>4, <4>1, <4>2
    <3> QED BY <3>1, <3>2
  <2>5. CASE below.ok /\ ~ (taken /\ below.used >= Len(q.proof))
    <3>1. /\ "ok" \in DOMAIN up[level + 1]
          /\ up[level + 1].ok /\ up[level + 1].used = more /\ up[level + 1].node = next
      BY <2>2, <2>5
    <3>2. below.used \in Nat /\ ConsentAt(q, below.node, level, below.used)
      BY <2>3, <2>5
    <3>3. taken => below.used < Len(q.proof)
      BY <1>1, <2>5, <3>2
    <3>4. ConsentAt(q, next, level + 1, more)
      <4> HIDE DEF below
      <4> QED BY <1>5, <3>2, <3>3, ConsentTurn DEF taken, word, more, next
    <3>5. more \in Nat
      BY <3>2 DEF more
    <3> QED BY <3>1, <3>4, <3>5
  <2> QED BY <2>4, <2>5
<1> DEFINE Good == {level \in Nat : level <= Depth => Right(level)}
<1>6. ASSUME NEW level \in Nat, \A k \in Nat : k < level => k \in Good PROVE level \in Good
  <2> SUFFICES ASSUME level <= Depth PROVE Right(level)
    OBVIOUS
  <2>1. CASE level = 0
    BY <1>4, <2>1
  <2>2. CASE level # 0
    <3>1. level - 1 \in Nat /\ level - 1 < level /\ level - 1 < Depth /\ (level - 1) + 1 = level
      BY <1>1, <2>2
    <3>2. Right(level - 1)
      BY <1>1, <1>6, <3>1
    <3> HIDE DEF Right
    <3>3. Right((level - 1) + 1)
      BY <1>5, <3>1, <3>2
    <3> QED BY <3>1, <3>3
  <2> QED BY <2>1, <2>2
<1>7. Good \in SUBSET Nat
  OBVIOUS
<1> HIDE DEF Good
<1>8. Depth \in Good
  BY <1>1, <1>6, <1>7, AllNumbers
<1>9. Right(Depth)
  BY <1>1, <1>8 DEF Good
<1>10. FoldOf(q) = IF up[Depth].ok /\ up[Depth].used = Len(q.proof) THEN {up[Depth].node} ELSE {}
  BY FoldOfIs DEF up
<1>11. CASE ~up[Depth].ok
  BY <1>9, <1>10, <1>11
<1>12. CASE up[Depth].ok /\ up[Depth].used = Len(q.proof)
  <2>1. ConsentAt(q, up[Depth].node, Depth, Len(q.proof))
    BY <1>9, <1>12
  <2>2. up[Depth].node = ConsentRoot[q.anchored] <=> ExactConsent(q)
    BY <2>1, ConsentEnds
  <2> QED BY <1>10, <1>12, <2>2
<1>13. CASE up[Depth].ok /\ up[Depth].used # Len(q.proof)
  <2>1. ~ExactConsent(q)
    BY <1>1, <1>9, <1>13, ConsentRevertsOnly
  <2> QED BY <1>10, <1>13, <2>1
<1> QED BY <1>11, <1>12, <1>13

-----------------------------------------------------------------------------
\* Two sets of revocations with one root are one.
LEMMA RevocationsTell ==
    ASSUME NEW a \in SUBSET Key, NEW b \in SUBSET Key, ConsentRoot[a] = ConsentRoot[b]
    PROVE  a = b
<1>1. ASSUME NEW key \in Key PROVE key \in a <=> key \in b
  <2> DEFINE Same(level) == NodeOf(a, key, level) = NodeOf(b, key, level)
             Good == {below \in Nat : below <= Depth => Same(Depth - below)}
  <2>1. key \in Nat /\ Shift(key, Depth) = 0 /\ Depth \in Nat /\ Revocation[key] # Zero
    BY SparseAssumption
  <2>2. Same(Depth)
    BY <2>1 DEF NodeOf, ConsentRoot, SparseRoot
  <2>3. ASSUME NEW level \in Nat, Same(level + 1) PROVE Same(level)
    <3>1. \A c \in {a, b} :
            NodeOf(c, key, level + 1)
              = IF Bit(key, level) = 1
                THEN SparseHashNode(Sibling(c, key, level), NodeOf(c, key, level))
                ELSE SparseHashNode(NodeOf(c, key, level), Sibling(c, key, level))
      BY <2>1, NodeOfIs
    <3> QED BY <2>3, <3>1, SparseHashes
  <2>4. ASSUME NEW below \in Nat, \A k \in Nat : k < below => k \in Good PROVE below \in Good
    <3> SUFFICES ASSUME below <= Depth PROVE Same(Depth - below)
      OBVIOUS
    <3>1. CASE below = 0
      BY <2>1, <2>2, <3>1
    <3>2. CASE below # 0
      <4>1. /\ below - 1 \in Nat /\ below - 1 < below /\ below - 1 <= Depth /\ Depth - below \in Nat
            /\ Depth - (below - 1) = (Depth - below) + 1
        BY <2>1, <3>2
      <4>2. Same(Depth - (below - 1))
        BY <2>4, <4>1
      <4> HIDE DEF Same
      <4>3. Same((Depth - below) + 1)
        BY <4>1, <4>2
      <4> QED BY <2>3, <4>1, <4>3
    <3> QED BY <3>1, <3>2
  <2>5. Good \in SUBSET Nat
    OBVIOUS
  <2> HIDE DEF Good
  <2>6. Depth \in Good
    BY <2>1, <2>4, <2>5, AllNumbers
  <2>7. Same(0)
    <3>1. Same(Depth - Depth)
      BY <2>1, <2>6 DEF Good
    <3> HIDE DEF Same
    <3>2. Depth - Depth = 0
      BY <2>1
    <3> QED BY <3>1, <3>2
  <2>8. \A c \in {a, b} : NodeOf(c, key, 0) = IF key \in c THEN Revocation[key] ELSE Zero
    <3>1. Shift(key, 0) = key
      BY <2>1, ShiftIs
    <3> QED BY <2>1, <3>1, LayersAre DEF NodeOf, LayerTurn
  <2> QED BY <2>1, <2>7, <2>8
<1> QED BY <1>1

\* What a proof about consent is made of.
LEMMA ConsentProofType ==
    ASSUME NEW revoked \in SUBSET Key, NEW key \in Key
    PROVE  /\ ConsentProof[revoked][key]
                = [bitmap |-> ConsentProof[revoked][key].bitmap, siblings |-> ConsentProof[revoked][key].siblings]
           /\ ConsentProof[revoked][key].bitmap \in SUBSET (0 .. Depth - 1)
           /\ ConsentProof[revoked][key].siblings \in Seq(SparseWords)
<1> DEFINE up == Up(revoked, key)
<1>1. ConsentProof[revoked][key] = [bitmap |-> Levels(revoked, key), siblings |-> up[Depth]]
  BY SparseProofIs DEF ConsentProof
<1>2. up[Depth] \in Seq(SiblingWords(revoked, key))
  <2>1. Depth \in 0 .. Depth
    BY SparseAssumption
  <2> QED BY <2>1, UpIs
<1>3. SiblingWords(revoked, key) \subseteq SparseWords
  BY DEF SparseWords
<1>4. up[Depth] \in Seq(SparseWords)
  BY <1>2, <1>3
<1>5. Levels(revoked, key) \in SUBSET (0 .. Depth - 1)
  BY DEF Levels
<1> HIDE DEF up
<1> QED BY <1>1, <1>4, <1>5

\* The proof that some revocations call for is that of others only when they are these.
LEMMA ProofsTellRevocations ==
    ASSUME NEW key \in Key, NEW a \in SUBSET Key, NEW b \in SUBSET Key, key \notin a, key \notin b,
           ConsentProof[a][key] = ConsentProof[b][key]
    PROVE  a = b
<1> DEFINE proof == ConsentProof[a][key]
           q(c) == [key |-> key, anchored |-> c, value |-> Zero, bitmap |-> proof.bitmap, proof |-> proof.siblings]
           folds == SparseFold(key, Zero, proof.bitmap, proof.siblings)
<1>1. ASSUME NEW c \in {a, b} PROVE ConsentRoot[c] \in FoldOf(q(c))
  <2>1. /\ q(c).key = key /\ q(c).anchored = c /\ q(c).value = Zero
        /\ q(c).bitmap = proof.bitmap /\ q(c).proof = proof.siblings
    OBVIOUS
  <2>2. /\ proof = [bitmap |-> proof.bitmap, siblings |-> proof.siblings]
        /\ proof.bitmap \in SUBSET (0 .. Depth - 1) /\ proof.siblings \in Seq(SparseWords)
    BY ConsentProofType
  <2>3. proof = ConsentProof[c][key] /\ c \in SUBSET Key /\ key \notin c
    OBVIOUS
  <2> HIDE DEF q, proof
  <2>4. IsConsent(q(c))
    BY <2>1, <2>2, <2>3 DEF IsConsent
  <2>5. ExactConsent(q(c))
    BY <2>1, <2>2, <2>3 DEF ExactConsent
  <2>6. ConsentRoot[q(c).anchored] \in FoldOf(q(c))
    BY <2>4, <2>5, FoldsToTheRoot
  <2> QED BY <2>1, <2>6
<1>2. FoldOf(q(a)) = folds /\ FoldOf(q(b)) = folds
  BY DEF FoldOf
<1>3. \E x : folds \subseteq {x}
  <2>1. \E x : FoldOf(q(a)) \subseteq {x}
    <3> HIDE DEF q
    <3> QED BY FoldOfIs
  <2> QED BY <1>2, <2>1
<1>4. ConsentRoot[a] \in folds /\ ConsentRoot[b] \in folds
  BY <1>1, <1>2
<1> HIDE DEF folds
<1>5. ConsentRoot[a] = ConsentRoot[b]
  BY <1>3, <1>4
<1> QED BY <1>5, RevocationsTell

-----------------------------------------------------------------------------
(* The files of a manifest: payload.ts *)

\* Hashes of files, whatever the files are.
AreFileLeaves(leaves, size) == \A k \in 1 .. size : \E a, b : leaves[k] = <<"file", a, b>>

\* No hash of a file is the hash of two nodes: the prefixes.
LEMMA FileIsNoNode == ASSUME NEW a, NEW b, NEW l, NEW r PROVE <<"file", a, b>> # HashNode(l, r)
<1>1. Len(<<"file", a, b>>) = 3 /\ Len(<<l, r>>) = 2
  OBVIOUS
<1> QED BY <1>1 DEF HashNode

\* Two ranges of file hashes with one hash have one length.
LEMMA FilesTell ==
    ASSUME NEW a, NEW b, NEW m \in Nat \ {0}, NEW size \in Nat \ {0},
           AreFileLeaves(a, m), AreFileLeaves(b, size), RangeHash(a)[m][0] = RangeHash(b)[size][0]
    PROVE  m = size
<1> DEFINE f == RangeHash(a)
           g == RangeHash(b)
           Good == {l \in Nat : \A k \in Nat \ {0} : \A s, t \in Nat :
                      l # 0 /\ s + l <= m /\ t + k <= size /\ f[l][s] = g[k][t] => l = k}
<1>1. /\ \A l \in Nat \ {0}, s \in Nat : f[l][s] = Turn(f, a, l, s)
      /\ \A l \in Nat \ {0}, s \in Nat : g[l][s] = Turn(g, b, l, s)
  BY RangeHashIs
<1> HIDE DEF f, g
<1>2. ASSUME NEW l \in Nat, \A k \in Nat : k < l => k \in Good
      PROVE  l \in Good
  <2> SUFFICES ASSUME NEW k \in Nat \ {0}, NEW s \in Nat, NEW t \in Nat,
                      l # 0, s + l <= m, t + k <= size, f[l][s] = g[k][t]
               PROVE  l = k
    OBVIOUS
  <2>1. l # 1 => f[l][s] = HashNode(f[Split(l)][s], f[l - Split(l)][s + Split(l)])
    BY <1>1 DEF Turn
  <2>2. k # 1 => g[k][t] = HashNode(g[Split(k)][t], g[k - Split(k)][t + Split(k)])
    BY <1>1 DEF Turn
  <2>3. CASE l = 1 /\ k # 1
    <3>1. f[l][s] = a[s + 1] /\ s + 1 \in 1 .. m
      BY <1>1, <2>3 DEF Turn
    <3>2. PICK x, y : a[s + 1] = <<"file", x, y>>
      BY <3>1 DEF AreFileLeaves
    <3> QED BY <2>2, <2>3, <3>1, <3>2, FileIsNoNode
  <2>4. CASE l # 1 /\ k = 1
    <3>1. g[k][t] = b[t + 1] /\ t + 1 \in 1 .. size
      BY <1>1, <2>4 DEF Turn
    <3>2. PICK x, y : b[t + 1] = <<"file", x, y>>
      BY <3>1 DEF AreFileLeaves
    <3> QED BY <2>1, <2>4, <3>1, <3>2, FileIsNoNode
  <2>5. CASE l # 1 /\ k # 1
    <3> DEFINE h == Split(l)
               v == Split(k)
    <3>1. h \in 1 .. l - 1 /\ l - h \in 1 .. l - 1 /\ v \in 1 .. k - 1 /\ k - v \in 1 .. k - 1
      BY <2>5, SplitParts
    <3>2. HashNode(f[h][s], f[l - h][s + h]) = HashNode(g[v][t], g[k - v][t + v])
      BY <2>1, <2>2, <2>5
    <3> HIDE DEF h, v
    <3>3. f[h][s] = g[v][t] /\ f[l - h][s + h] = g[k - v][t + v]
      BY <3>2 DEF HashNode
    <3>4. h \in Good /\ l - h \in Good
      BY <1>2, <3>1
    <3>5. /\ v \in Nat \ {0} /\ k - v \in Nat \ {0} /\ h # 0 /\ l - h # 0 /\ s + h \in Nat /\ t + v \in Nat
          /\ s + h <= m /\ t + v <= size /\ (s + h) + (l - h) <= m /\ (t + v) + (k - v) <= size
      BY <3>1
    <3>6. h = v
      BY <3>3, <3>4, <3>5
    <3>7. l - h = k - v
      BY <3>3, <3>4, <3>5
    <3> QED BY <3>1, <3>6, <3>7
  <2> QED BY <2>3, <2>4, <2>5
<1>3. Good \in SUBSET Nat
  OBVIOUS
<1> HIDE DEF Good
<1>4. m \in Good
  BY <1>2, <1>3, AllNumbers
<1>5. 0 + m <= m /\ 0 + size <= size /\ f[m][0] = g[size][0]
  BY DEF f, g
<1> QED BY <1>4, <1>5 DEF Good

\* What payloadHash() makes of files that it accepts.
LEMMA PayloadIs ==
    ASSUME NEW S, NEW files \in Seq(S), PayloadHash(files) # None
    PROVE  /\ Len(files) \in Nat \ {0}
           /\ ~ (Cardinality({files[k].path : k \in DOMAIN files}) < Len(files))
           /\ \E leaves : /\ AreFileLeaves(leaves, Len(files))
                          /\ PayloadHash(files) = RangeHash(leaves)[Len(files)][0]
<1>1. Len(files) \in Nat /\ DOMAIN files = 1 .. Len(files)
  OBVIOUS
<1> DEFINE size == Len(files)
           entries   == ToSet(files)
           before(f) == {g \in entries : Below(g.path, f.path)}
           sorted == [k \in DOMAIN files |-> CHOOSE f \in entries : Cardinality(before(f)) = k - 1]
           leaves == [k \in DOMAIN sorted |-> FileLeaf(sorted[k])]
<1>2. /\ files # <<>> /\ ~ (Cardinality({files[k].path : k \in DOMAIN files}) < Len(files))
      /\ PayloadHash(files) = RootOf(leaves)
  BY DEF PayloadHash
<1>3. size \in Nat \ {0}
  BY <1>1, <1>2
<1>4. ~ (Cardinality({files[k].path : k \in DOMAIN files}) < size)
  BY <1>2
<1>5. DOMAIN sorted = 1 .. size
  BY <1>1
<1> HIDE DEF sorted, size
<1>6. DOMAIN leaves = 1 .. size /\ \A k \in 1 .. size : leaves[k] = <<"file", sorted[k].path, sorted[k].hash>>
  BY <1>5 DEF FileLeaf
<1> HIDE DEF leaves
<1>7. Len(leaves) = size /\ leaves # <<>>
  BY <1>3, <1>6
<1>8. PayloadHash(files) = RangeHash(leaves)[size][0]
  BY <1>2, <1>7 DEF RootOf
<1>9. AreFileLeaves(leaves, size)
  BY <1>6 DEF AreFileLeaves
<1> QED BY <1>3, <1>4, <1>8, <1>9 DEF size

\* Two listings with one payload hash have one length.
LEMMA PayloadsTell ==
    ASSUME NEW S, NEW a \in Seq(S), NEW b \in Seq(S),
           PayloadHash(a) # None, PayloadHash(a) = PayloadHash(b)
    PROVE  Len(a) = Len(b)
<1>1. PICK one : AreFileLeaves(one, Len(a)) /\ PayloadHash(a) = RangeHash(one)[Len(a)][0]
  BY PayloadIs
<1>2. PICK two : AreFileLeaves(two, Len(b)) /\ PayloadHash(b) = RangeHash(two)[Len(b)][0]
  BY PayloadIs
<1>3. Len(a) \in Nat \ {0} /\ Len(b) \in Nat \ {0}
  BY PayloadIs
<1>4. RangeHash(one)[Len(a)][0] = RangeHash(two)[Len(b)][0]
  BY <1>1, <1>2
<1> QED BY <1>1, <1>2, <1>3, <1>4, FilesTell

\* The order of a listing does not matter.
LEMMA PayloadOfEntries ==
    ASSUME NEW S, NEW a \in Seq(S), NEW b \in Seq(S), Len(a) = Len(b), ToSet(a) = ToSet(b)
    PROVE  PayloadHash(a) = PayloadHash(b)
<1>1. DOMAIN a = DOMAIN b /\ (a = <<>> <=> b = <<>>) /\ DOMAIN a = 1 .. Len(a)
  OBVIOUS
<1>2. \A s \in {a, b} :
        /\ {s[k].path : k \in DOMAIN s} = {f.path : f \in ToSet(s)}
        /\ (\E k \in DOMAIN s : s[k].path \in BadPath) <=> (\E f \in ToSet(s) : f.path \in BadPath)
  BY DEF ToSet
<1>3. /\ {a[k].path : k \in DOMAIN a} = {b[k].path : k \in DOMAIN b}
      /\ (\E k \in DOMAIN a : a[k].path \in BadPath) <=> (\E k \in DOMAIN b : b[k].path \in BadPath)
  BY <1>2
<1> DEFINE entries(s)   == ToSet(s)
           sorted(s) == [k \in DOMAIN s |-> CHOOSE f \in ToSet(s) :
                            Cardinality({g \in ToSet(s) : Below(g.path, f.path)}) = k - 1]
           hash(s) == RootOf([k \in DOMAIN sorted(s) |-> FileLeaf(sorted(s)[k])])
           refused(s) == \/ s = <<>> \/ \E k \in DOMAIN s : s[k].path \in BadPath
                         \/ Cardinality({s[k].path : k \in DOMAIN s}) < Len(s)
<1>4. sorted(a) = sorted(b)
  BY <1>1
<1>5. \A s \in {a, b} : PayloadHash(s) = IF refused(s) THEN None ELSE hash(s)
  BY DEF PayloadHash
<1>6. refused(a) <=> refused(b)
  BY <1>1, <1>3
<1>7. hash(a) = hash(b)
  BY <1>4
<1> HIDE DEF hash, refused
<1> QED BY <1>5, <1>6, <1>7

\* Nothing lists the manifest's files but a listing of all of them.
FilesTold(files, payload) ==
    PayloadHash(files) = payload <=>
        \E listed \in {Files, Tail(Files)} : payload = PayloadHash(listed) /\ ToSet(files) = ToSet(listed)

\* The payload hash tells the files that were listed, not their order.
LEMMA FilesAreTold ==
    ASSUME NEW files \in {Files, Backwards(Files), Tail(Files)},
           NEW payload \in {PayloadHash(Files), PayloadHash(Tail(Files))}
    PROVE  FilesTold(files, payload)
<1> DEFINE S == {Files[k] : k \in DOMAIN Files}
           rest == Tail(Files)
           back == Backwards(Files)
           size == Len(Files)
<1>1. Files \in Seq(S) /\ PayloadHash(Files) # None
  BY CorpusAssumption
<1>2. size \in Nat \ {0} /\ DOMAIN Files = 1 .. size /\ Files # <<>>
      /\ ~ (Cardinality({Files[k].path : k \in DOMAIN Files}) < size)
  <2>1. Len(Files) \in Nat \ {0} /\ ~ (Cardinality({Files[k].path : k \in DOMAIN Files}) < Len(Files))
    BY <1>1, PayloadIs
  <2>2. DOMAIN Files = 1 .. Len(Files)
    BY <1>1
  <2>3. Files # <<>>
    BY <2>1
  <2> QED BY <2>1, <2>2, <2>3
<1>3. rest \in Seq(S) /\ Len(rest) = size - 1 /\ DOMAIN rest = 1 .. size - 1
      /\ \A k \in 1 .. size - 1 : rest[k] = Files[k + 1]
  BY <1>1, <1>2, HeadTailProperties
<1>4. DOMAIN back = 1 .. size /\ \A k \in 1 .. size : back[k] = Files[size - k + 1]
  BY DEF Backwards, Reverse
<1>5. back \in Seq(S) /\ Len(back) = size
  <2>1. \A k \in 1 .. size : Files[size - k + 1] \in S
    BY <1>2
  <2>2. back \in [1 .. size -> S]
    BY <1>4, <2>1 DEF Backwards, Reverse
  <2> HIDE DEF back, S
  <2> QED BY <1>2, <2>2, SeqDef, LenProperties
<1> HIDE DEF rest, back, S
<1>6. ToSet(back) = ToSet(Files)
  <2>1. \A k \in 1 .. size : size - k + 1 \in 1 .. size /\ size - (size - k + 1) + 1 = k
    BY <1>2
  <2>2. \A x \in ToSet(Files) : x \in ToSet(back)
    <3> SUFFICES ASSUME NEW k \in 1 .. size PROVE Files[k] \in ToSet(back)
      BY <1>2 DEF ToSet
    <3>1. back[size - k + 1] = Files[k] /\ size - k + 1 \in DOMAIN back
      BY <1>4, <2>1
    <3> QED BY <3>1 DEF ToSet
  <2>3. \A x \in ToSet(back) : x \in ToSet(Files)
    <3> SUFFICES ASSUME NEW k \in 1 .. size PROVE back[k] \in ToSet(Files)
      BY <1>4 DEF ToSet
    <3> QED BY <1>2, <1>4, <2>1 DEF ToSet
  <2> QED BY <2>2, <2>3
<1>7. PayloadHash(back) = PayloadHash(Files)
  BY <1>1, <1>5, <1>6, PayloadOfEntries
<1>8. PayloadHash(Files) # PayloadHash(rest)
  <2> SUFFICES ASSUME PayloadHash(Files) = PayloadHash(rest) PROVE FALSE
    OBVIOUS
  <2>1. size = Len(rest)
    BY <1>1, <1>3, PayloadsTell
  <2> QED BY <1>2, <1>3, <2>1
<1>9. ToSet(Files) # ToSet(rest)
  <2> SUFFICES ASSUME ToSet(Files) = ToSet(rest) PROVE FALSE
    OBVIOUS
  <2> DEFINE paths == {Files[k].path : k \in DOMAIN Files}
             path == [k \in 2 .. size |-> Files[k].path]
  <2>1. \A x \in paths : \E k \in 2 .. size : path[k] = x
    <3> SUFFICES ASSUME NEW l \in DOMAIN Files PROVE \E k \in 2 .. size : path[k] = Files[l].path
      OBVIOUS
    <3>1. Files[l] \in ToSet(rest)
      BY DEF ToSet
    <3>2. PICK k \in DOMAIN rest : rest[k] = Files[l]
      BY <3>1 DEF ToSet
    <3>3. k + 1 \in 2 .. size /\ Files[k + 1] = Files[l]
      BY <1>2, <1>3, <3>2
    <3> QED BY <3>3
  <2>2. path \in [2 .. size -> paths]
    BY <1>2
  <2>3. path \in Surjection(2 .. size, paths)
    BY <2>1, <2>2 DEF Surjection
  <2> HIDE DEF path
  <2>4. 2 \in Int /\ size \in Int
    BY <1>2
  <2>5. IsFiniteSet(2 .. size) /\ Cardinality(2 .. size) = IF 2 > size THEN 0 ELSE size - 2 + 1
    BY <2>4, FS_Interval
  <2>6. Cardinality(paths) <= Cardinality(2 .. size)
    BY <2>3, <2>5, FS_Surjection
  <2>7. IsFiniteSet(paths) /\ Cardinality(paths) \in Nat
    BY <2>3, <2>5, FS_Surjection, FS_CardinalityType
  <2> HIDE DEF paths
  <2>8. ~ (Cardinality(paths) < size)
    BY <1>2 DEF paths
  <2> QED BY <1>2, <2>5, <2>6, <2>7, <2>8
<1>10. /\ files \in {Files, back, rest} /\ payload \in {PayloadHash(Files), PayloadHash(rest)}
  BY DEF back, rest
<1>11. PayloadHash(files) = payload <=>
         \E listed \in {Files, rest} : payload = PayloadHash(listed) /\ ToSet(files) = ToSet(listed)
  <2> DEFINE A == PayloadHash(Files)
             B == PayloadHash(rest)
             X == ToSet(Files)
             Y == ToSet(rest)
  <2>1. A # B /\ X # Y /\ PayloadHash(back) = A /\ ToSet(back) = X
    BY <1>6, <1>7, <1>8, <1>9
  <2> QED BY <1>10, <2>1
<1> QED BY <1>11 DEF FilesTold, rest

-----------------------------------------------------------------------------
(* The steps of verifyReport, one by one: report-verify.ts, verify.js *)

\* A report about a leaf of the log, for an anchor of a size and of revocations: what
\* it carries as proofs need not be those that are called for.
ReportLeaf(r, size) ==
    /\ size \in Size /\ r.anchor.size = size /\ \E of \in Size : r.anchor.root = LogRoot[of]
    /\ r.index \in 0 .. size - 1 /\ r.leaf = Log[r.index + 1] /\ r.inLog \in Seq(LogHashes)
    /\ r.anchor.root = LogRoot[size] \/ r.inLog = Inclusion[size][r.index]
ReportCorpus(r) == r.corpusIndex \in 0 .. Len(Corpus) - 1 /\ r.inCorpus \in Seq(RangeHashes(CorpusLeaves))
ReportSeal(r)   == r.consistency \in Seq(LogHashes) /\ \A seal \in r.seal : seal.size \in Size
ReportConsent(r, revoked) ==
    LET c == r.consent IN
    /\ revoked \in SUBSET Key /\ r.anchor.revocations = ConsentRoot[revoked]
    /\ c.key \in Key /\ c.status \in {"live", "revoked"} /\ c.value \in {{}, {Revocation[c.key]}}
    /\ c.bitmap \in SUBSET (0 .. Depth - 1) /\ c.siblings \in Seq(SparseWords)
ReportClaim(c, size) ==
    /\ c = [leaf |-> c.leaf, thresholds |-> c.thresholds, detail |-> c.detail, proof |-> c.proof]
    /\ c.leaf \in BOOLEAN /\ c.thresholds \in BOOLEAN /\ c.detail \in BOOLEAN
    /\ \A w \in c.proof : /\ w.index \in 0 .. size - 1 /\ w.leaf = Log[w.index + 1]
                          /\ w.proof \in Seq(LogHashes)
ReportClaims(r, size) == \A c \in r.claims : ReportClaim(c, size)
ReportFiles(r) ==
    /\ r.files \in {<<>>, Files, Backwards(Files), Tail(Files)}
    /\ r.payload \in {PayloadHash(Files), PayloadHash(Tail(Files))}

IsReport(r, size, revoked) ==
    /\ ReportLeaf(r, size) /\ ReportCorpus(r) /\ ReportSeal(r) /\ ReportConsent(r, revoked)
    /\ ReportClaims(r, size) /\ ReportFiles(r)

\* What a report says when it is true, part by part.
InLogHolds(r, size) == r.anchor.root = LogRoot[size] /\ r.inLog = Inclusion[size][r.index]
InCorpusHolds(r)    == r.inCorpus = CorpusProof[r.corpusIndex] /\ r.leaf = CorpusLeaves[r.corpusIndex + 1]
SealHolds(r, size)  ==
    \E seal \in r.seal :
        /\ seal.size <= size /\ seal.root = LogRoot[seal.size]
        /\ r.consistency = Consistency[size][seal.size]
ConsentHolds(r, revoked) ==
    \/ r.consent.status = "revoked" /\ r.consent.value = {}
    \/ /\ (r.consent.status = "revoked") <=> r.consent.key \in revoked
       /\ [bitmap |-> r.consent.bitmap, siblings |-> r.consent.siblings] = ConsentProof[revoked][r.consent.key]
ClaimsHold(r)           == \A c \in r.claims : [c EXCEPT !.proof = {}] = Stated
ClaimsProven(r, size)   == \A c \in r.claims : \A w \in c.proof : w.proof = Inclusion[size][w.index]
DeliveredHolds(r) ==
    \A f \in ToSet(r.files) : LocalName[f.path] \in DOMAIN r.delivered
                              /\ r.delivered[LocalName[f.path]] = f.hash
PayloadHolds(r) ==
    \E listed \in {Files, Tail(Files)} :
        r.payload = PayloadHash(listed) /\ ToSet(r.files) = ToSet(listed)
ScriptHolds(r) == r.known # "unknown" /\ (r.files # <<>> => DeliveredHolds(r) /\ PayloadHolds(r))

ReportHolds(r, size, revoked, by) ==
    /\ InLogHolds(r, size) /\ InCorpusHolds(r) /\ SealHolds(r, size) /\ ConsentHolds(r, revoked)
    /\ ClaimsHold(r) /\ (by # "library" => ClaimsProven(r, size))
    /\ r.hash
    /\ by # "library" => r.preimage /\ r.manifest \notin {"differs", "badly signed"}
    /\ by = "script" => ScriptHolds(r)

\* A proof of inclusion is not one for the root of another size.
LEMMA InLogTold ==
    ASSUME NEW r, NEW size, ReportLeaf(r, size)
    PROVE  InLogStep(r) <=> InLogHolds(r, size)
<1> DEFINE root == r.anchor.root
           leaf == r.leaf
           at   == r.index
           proof == r.inLog
<1>1. /\ size \in Size /\ r.anchor.size = size /\ at \in Nat /\ at < size /\ leaf = Log[at + 1]
      /\ proof \in Seq(LogHashes) /\ (root = LogRoot[size] \/ proof = Inclusion[size][at])
  BY FirstIs DEF ReportLeaf
<1>2. InLogStep(r) <=> IncludedIn(leaf, at, size, proof, root)
  BY <1>1 DEF InLogStep
<1>3. InLogHolds(r, size) <=> root = LogRoot[size] /\ proof = Inclusion[size][at]
  BY DEF InLogHolds
<1> HIDE DEF root, leaf, at, proof
<1>4. Accepts(leaf, at, size, proof, root)
  BY <1>1, AcceptsWhatIs
<1> QED BY <1>1, <1>2, <1>3, <1>4 DEF Accepts

\* The same leaf is in the corpus.
LEMMA InCorpusTold ==
    ASSUME NEW r, ReportCorpus(r)
    PROVE  InCorpusStep(r) <=> InCorpusHolds(r)
<1> DEFINE size == Len(Corpus)
           leaf == r.leaf
           at   == r.corpusIndex
           proof == r.inCorpus
<1>1. size \in Nat
  BY CorpusAssumption
<1>2. at \in Nat /\ at < size /\ size \in Nat \ {0} /\ at \in 0 .. Len(Corpus) - 1
  BY <1>1 DEF ReportCorpus
<1>3. proof \in Seq(RangeHashes(CorpusLeaves))
  BY DEF ReportCorpus
<1>4. Len(CorpusLeaves) = size /\ CorpusLeaves # <<>>
  <2>1. DOMAIN CorpusLeaves = 1 .. size
    BY CorpusAssumption DEF CorpusLeaves
  <2>2. DOMAIN CorpusLeaves = 1 .. Len(CorpusLeaves) /\ Len(CorpusLeaves) \in Nat
    BY CorpusAssumption DEF CorpusLeaves
  <2> QED BY <1>1, <1>2, <2>1, <2>2
<1>5. CorpusRoot = RangeHash(CorpusLeaves)[size][0]
  BY <1>4 DEF CorpusRoot, RootOf
<1>6. CorpusProof[at] = InclusionPath(CorpusLeaves, at)[size][0]
  BY <1>2, <1>4 DEF CorpusProof, InclusionProof
<1>7. InCorpusStep(r) <=> IncludedIn(leaf, at, size, proof, CorpusRoot)
  BY DEF InCorpusStep
<1>8. InCorpusHolds(r) <=> proof = CorpusProof[at] /\ leaf = CorpusLeaves[at + 1]
  BY DEF InCorpusHolds
<1> HIDE DEF size, leaf, at, proof
<1>9. AcceptedRightly(leaf, CorpusLeaves, at, size, proof)
  BY <1>2, <1>3, IncludedIs
<1> QED BY <1>5, <1>6, <1>7, <1>8, <1>9 DEF AcceptedRightly

\* The anchor extends the one that was sealed.
LEMMA SealTold ==
    ASSUME NEW r, NEW size \in Size, r.anchor.size = size, r.anchor.root = LogRoot[size], ReportSeal(r)
    PROVE  ConsistencyStep(r) <=> SealHolds(r, size)
<1>1. SUFFICES ASSUME NEW seal \in r.seal
               PROVE  (IF seal.size = size THEN seal.root = LogRoot[size] /\ r.consistency = <<>>
                       ELSE seal.size >= 1
                            /\ ConsistentWith(seal.size, size, r.consistency, seal.root, LogRoot[size]))
                      <=> /\ seal.size <= size /\ seal.root = LogRoot[seal.size]
                          /\ r.consistency = Consistency[size][seal.size]
  BY DEF ConsistencyStep, SealHolds
<1> DEFINE f == IF seal.root = LogRoot[seal.size] THEN 0 ELSE 1
           q == [m |-> seal.size, size |-> size, first |-> seal.root, f |-> f, proof |-> r.consistency]
<1>2. q.m = seal.size /\ q.size = size /\ q.first = seal.root /\ q.f = f /\ q.proof = r.consistency
  OBVIOUS
<1>3. seal.size \in Size /\ seal.size \in Nat \ {0} /\ size \in Nat \ {0} /\ r.consistency \in Seq(LogHashes)
  BY FirstIs DEF ReportSeal
<1>4. f = 0 <=> seal.root = LogRoot[seal.size]
  OBVIOUS
<1> HIDE DEF q, f
<1>5. IsConsistency(q)
  <2>1. seal.size <= size => LogRoot[seal.size] = RangeHash(First(Log, size))[seal.size][0]
    BY <1>3, PrefixRoot
  <2> QED BY <1>2, <1>3, <1>4, <2>1 DEF IsConsistency
<1>6. ReportConsistency(q) <=> ExactConsistency(q)
  BY <1>5, ReportConsistencyIs
<1>7. ConsistentWith(seal.size, size, r.consistency, seal.root, LogRoot[size])
        <=> seal.size <= size /\ seal.root = LogRoot[seal.size] /\ r.consistency = Consistency[size][seal.size]
  BY <1>2, <1>4, <1>6 DEF ReportConsistency, ExactConsistency
<1>8. seal.size = size => (ConsistentWith(seal.size, size, r.consistency, seal.root, LogRoot[size])
                             <=> seal.root = LogRoot[size] /\ r.consistency = <<>>)
  BY <1>3 DEF ConsistentWith
<1> QED BY <1>3, <1>7, <1>8

\* Only a revocation that comes without its value is not folded.
LEMMA ConsentTold ==
    ASSUME NEW r, NEW revoked, ReportConsent(r, revoked)
    PROVE  ConsentStep(r) <=> ConsentHolds(r, revoked)
<1> DEFINE c == r.consent
           q(value) == [key |-> c.key, value |-> value, anchored |-> revoked, bitmap |-> c.bitmap, proof |-> c.siblings]
           folds(value) == r.anchor.revocations \in SparseFold(c.key, value, c.bitmap, c.siblings)
           proven == [bitmap |-> c.bitmap, siblings |-> c.siblings] = ConsentProof[revoked][c.key]
<1>1. /\ revoked \in SUBSET Key /\ r.anchor.revocations = ConsentRoot[revoked]
      /\ c.key \in Key /\ c.status \in {"live", "revoked"} /\ c.value \in {{}, {Revocation[c.key]}}
      /\ c.bitmap \in SUBSET (0 .. Depth - 1) /\ c.siblings \in Seq(SparseWords)
  BY DEF ReportConsent
<1>2. ConsentStep(r) <=> IF c.status = "live" THEN folds(Zero) ELSE \A value \in c.value : folds(value)
  BY DEF ConsentStep
<1>3. ConsentHolds(r, revoked) <=> \/ c.status = "revoked" /\ c.value = {}
                                   \/ ((c.status = "revoked") <=> c.key \in revoked) /\ proven
  BY DEF ConsentHolds
<1>4. ASSUME NEW value \in {Zero, Revocation[c.key]}
      PROVE  folds(value) <=> ((value # Zero) <=> (c.key \in revoked)) /\ proven
  <2>1. /\ q(value).key = c.key /\ q(value).value = value /\ q(value).anchored = revoked
        /\ q(value).bitmap = c.bitmap /\ q(value).proof = c.siblings
    OBVIOUS
  <2> HIDE DEF q, c
  <2>2. IsConsent(q(value))
    BY <1>1, <2>1 DEF IsConsent
  <2>3. ConsentRoot[q(value).anchored] \in FoldOf(q(value)) <=> ExactConsent(q(value))
    BY <2>2, FoldsToTheRoot
  <2>4. FoldOf(q(value)) = SparseFold(c.key, value, c.bitmap, c.siblings)
    BY <2>1 DEF FoldOf
  <2>5. ExactConsent(q(value)) <=> ((value # Zero) <=> (c.key \in revoked)) /\ proven
    BY <2>1 DEF ExactConsent
  <2> QED BY <1>1, <2>1, <2>3, <2>4, <2>5
<1>5. Revocation[c.key] # Zero
  BY <1>1, SparseAssumption
<1> HIDE DEF c, folds, proven
<1>6. CASE c.status = "live"
  BY <1>1, <1>2, <1>3, <1>4, <1>6
<1>7. CASE c.status = "revoked" /\ c.value = {}
  BY <1>2, <1>3, <1>7
<1>8. CASE c.status = "revoked" /\ c.value = {Revocation[c.key]}
  BY <1>2, <1>3, <1>4, <1>5, <1>8
<1> QED BY <1>1, <1>6, <1>7, <1>8

\* A claim carries what was hashed.
LEMMA ClaimsTold ==
    ASSUME NEW r, NEW size, ReportClaims(r, size)
    PROVE  ClaimsStep(r) <=> ClaimsHold(r)
<1>1. SUFFICES ASSUME NEW c \in r.claims
               PROVE  c.leaf /\ c.thresholds /\ c.detail <=> [c EXCEPT !.proof = {}] = Stated
  BY DEF ClaimsStep, ClaimsHold
<1>2. ReportClaim(c, size)
  BY DEF ReportClaims
<1>3. [c EXCEPT !.proof = {}] = [leaf |-> c.leaf, thresholds |-> c.thresholds, detail |-> c.detail, proof |-> {}]
  <2>1. PICK leaf, thresholds, detail, proof :
          c = [leaf |-> leaf, thresholds |-> thresholds, detail |-> detail, proof |-> proof]
    BY <1>2 DEF ReportClaim
  <2>2. c.leaf = leaf /\ c.thresholds = thresholds /\ c.detail = detail
    BY <2>1
  <2>3. [c EXCEPT !.proof = {}] = [leaf |-> leaf, thresholds |-> thresholds, detail |-> detail, proof |-> {}]
    BY <2>1
  <2> QED BY <2>2, <2>3
<1>4. c.leaf \in BOOLEAN /\ c.thresholds \in BOOLEAN /\ c.detail \in BOOLEAN
  BY <1>2 DEF ReportClaim
<1>5. [leaf |-> c.leaf, thresholds |-> c.thresholds, detail |-> c.detail, proof |-> {}]
         = [leaf |-> TRUE, thresholds |-> TRUE, detail |-> TRUE, proof |-> {}]
        <=> c.leaf = TRUE /\ c.thresholds = TRUE /\ c.detail = TRUE
  OBVIOUS
<1> QED BY <1>3, <1>4, <1>5 DEF Stated

\* A claim that comes with a proof is in the log.
LEMMA ClaimsProvenTold ==
    ASSUME NEW r, NEW size \in Size, r.anchor.size = size, r.anchor.root = LogRoot[size], ReportClaims(r, size)
    PROVE  PageClaimsStep(r) <=> ClaimsHold(r) /\ ClaimsProven(r, size)
<1>1. ASSUME NEW c \in r.claims, NEW w \in c.proof
      PROVE  IncludedIn(w.leaf, w.index, size, w.proof, LogRoot[size]) <=> w.proof = Inclusion[size][w.index]
  <2>1. ReportClaim(c, size)
    BY DEF ReportClaims
  <2>2. w.index \in 0 .. size - 1 /\ w.leaf = Log[w.index + 1] /\ w.proof \in Seq(LogHashes)
    BY <2>1 DEF ReportClaim
  <2>3. w.index \in Nat /\ w.index < size
    BY <2>2, FirstIs
  <2>4. Accepts(w.leaf, w.index, size, w.proof, LogRoot[size])
    BY <2>2, <2>3, AcceptsWhatIs
  <2> QED BY <2>2, <2>3, <2>4 DEF Accepts
<1> QED BY <1>1, ClaimsTold DEF PageClaimsStep, ClaimsProven

\* The script checks the files that are listed, and the listing.
LEMMA FilesChecked ==
    ASSUME NEW r, ReportFiles(r)
    PROVE  CheckFiles(r) <=> (r.files # <<>> => DeliveredHolds(r) /\ PayloadHolds(r))
<1>1. SUFFICES ASSUME r.files # <<>>
               PROVE  CheckFiles(r) <=> DeliveredHolds(r) /\ PayloadHolds(r)
  BY DEF CheckFiles
<1>2. r.files \in {Files, Backwards(Files), Tail(Files)}
      /\ r.payload \in {PayloadHash(Files), PayloadHash(Tail(Files))}
  BY <1>1 DEF ReportFiles
<1>3. FilesTold(r.files, r.payload)
  BY <1>2, FilesAreTold
<1>4. PayloadHash(r.files) = r.payload <=> PayloadHolds(r)
  BY <1>3 DEF FilesTold, PayloadHolds
<1>5. (\A k \in DOMAIN r.files :
         LET name == LocalName[r.files[k].path] IN
         name \in DOMAIN r.delivered /\ r.delivered[name] = r.files[k].hash)
        <=> DeliveredHolds(r)
  BY DEF DeliveredHolds, ToSet
<1> QED BY <1>1, <1>4, <1>5 DEF CheckFiles

\* Library, page and script pass a report exactly when it is true.
PassesRightly(r, size, revoked) ==
    /\ VerifyReport(r)         <=> ReportHolds(r, size, revoked, "library")
    /\ PageVerifiesReport(r)   <=> ReportHolds(r, size, revoked, "page")
    /\ ScriptVerifiesReport(r) <=> ReportHolds(r, size, revoked, "script")
\* The three conjunctions of the steps, part by part
\* (report-verify.ts:252-288, verify.js:304-317, verify-report.mjs:57-117).
LEMMA ReportTold ==
    ASSUME NEW r, NEW size, NEW revoked, IsReport(r, size, revoked)
    PROVE  PassesRightly(r, size, revoked)
<1>1. InLogStep(r) <=> InLogHolds(r, size)
  BY InLogTold DEF IsReport
<1>2. InCorpusStep(r) <=> InCorpusHolds(r)
  BY InCorpusTold DEF IsReport
<1>3. ConsentStep(r) <=> ConsentHolds(r, revoked)
  BY ConsentTold DEF IsReport
<1>4. ClaimsStep(r) <=> ClaimsHold(r)
  BY ClaimsTold DEF IsReport
<1>5. size \in Size /\ r.anchor.size = size
  BY DEF IsReport, ReportLeaf
<1>6. InLogHolds(r, size) => /\ ConsistencyStep(r) <=> SealHolds(r, size)
                             /\ PageClaimsStep(r) <=> ClaimsHold(r) /\ ClaimsProven(r, size)
  BY <1>5, SealTold, ClaimsProvenTold DEF IsReport, InLogHolds
<1>7. CheckFiles(r) <=> (r.files # <<>> => DeliveredHolds(r) /\ PayloadHolds(r))
  BY FilesChecked DEF IsReport
<1>8. VerifyReport(r) <=> ReportHolds(r, size, revoked, "library")
  BY <1>1, <1>2, <1>3, <1>4, <1>6 DEF VerifyReport, ReportHolds
<1>9. PageVerifiesReport(r) <=> ReportHolds(r, size, revoked, "page")
  BY <1>1, <1>2, <1>3, <1>4, <1>6 DEF PageVerifiesReport, PageManifestStep, PageInLogStep, ReportHolds
<1>10. ScriptVerifiesReport(r) <=> ReportHolds(r, size, revoked, "script")
  BY <1>7, <1>9 DEF ScriptVerifiesReport, CheckChain, ScriptHolds, ReportHolds
<1> QED BY <1>8, <1>9, <1>10 DEF PassesRightly

-----------------------------------------------------------------------------
(* The reports that are asked about *)

ReportFields == {"anchor", "seal", "consistency", "leaf", "index", "preimage", "manifest", "inLog",
                 "corpusIndex", "inCorpus", "consent", "claims", "hash", "files", "payload", "delivered", "known"}

\* A report that has all that another one has but for some of its fields.
Else(s, r, names) == \A name \in ReportFields \ names : s[name] = r[name]

\* A report as the builder makes it.
IsGenuine(r, size, key, revoked) ==
    /\ DOMAIN r = ReportFields /\ IsReport(r, size, revoked)
    /\ r.inLog = Inclusion[size][r.index]
    /\ r.anchor = [size |-> size, root |-> LogRoot[size], revocations |-> ConsentRoot[revoked]]
    /\ r.consent = [key |-> key, status |-> r.consent.status, value |-> r.consent.value,
                    bitmap |-> r.consent.bitmap, siblings |-> r.consent.siblings]

\* The proofs of one log have its hashes, and those of the corpus its own.
LEMMA ReportProofTypes ==
    /\ \A size \in Size : \A m \in 1 .. size : Consistency[size][m] \in Seq(LogHashes)
    /\ DOMAIN CorpusProof = 0 .. Len(Corpus) - 1
    /\ \A at \in DOMAIN CorpusProof : CorpusProof[at] \in Seq(RangeHashes(CorpusLeaves))
<1>1. ASSUME NEW size \in Size, NEW m \in 1 .. size PROVE Consistency[size][m] \in Seq(LogHashes)
  <2>1. Consistency[size][m] = ConsistencyPath(First(Log, size))[size][0][m] /\ m \in Nat \ {0} /\ size \in Nat \ {0}
    BY FirstIs DEF Consistency, ConsistencyProof
  <2>2. Consistency[size][m] \in Seq(RangeHashes(First(Log, size)))
    BY <2>1, ConsistencyPathType
  <2>3. RangeHashes(First(Log, size)) \subseteq LogHashes
    BY DEF LogHashes
  <2> QED BY <2>2, <2>3
<1>2. DOMAIN CorpusProof = 0 .. Len(Corpus) - 1
  BY DEF CorpusProof
<1>3. ASSUME NEW at \in 0 .. Len(Corpus) - 1 PROVE CorpusProof[at] \in Seq(RangeHashes(CorpusLeaves))
  <2>1. DOMAIN CorpusLeaves = 1 .. Len(Corpus) /\ Len(Corpus) \in Nat
    BY CorpusAssumption DEF CorpusLeaves
  <2>2. DOMAIN CorpusLeaves = 1 .. Len(CorpusLeaves) /\ Len(CorpusLeaves) \in Nat
    BY CorpusAssumption DEF CorpusLeaves
  <2>3. at \in Nat /\ Len(CorpusLeaves) \in Nat \ {0} /\ at < Len(CorpusLeaves)
    BY <2>1, <2>2
  <2>4. CorpusProof[at] = InclusionPath(CorpusLeaves, at)[Len(CorpusLeaves)][0]
    BY DEF CorpusProof, InclusionProof
  <2> QED BY <2>3, <2>4, InclusionPathType
<1> QED BY <1>1, <1>2, <1>3

\* What the builder makes is a report.
LEMMA GenuineIs ==
    ASSUME NEW size \in Size, NEW sealed \in Size, NEW at \in DOMAIN CorpusProof, NEW key \in Key,
           NEW revoked \in SUBSET Key, \A k \in DOMAIN Corpus : Corpus[k] < sealed, sealed <= size
    PROVE  IsGenuine(Genuine(size, sealed, at, key, revoked), size, key, revoked)
<1> DEFINE r == Genuine(size, sealed, at, key, revoked)
           index == Corpus[at + 1]
           proof == ConsentProof[revoked][key]
<1>1. /\ DOMAIN r = ReportFields
      /\ r.anchor = [size |-> size, root |-> LogRoot[size], revocations |-> ConsentRoot[revoked]]
      /\ r.seal = {[size |-> sealed, root |-> LogRoot[sealed]]}
      /\ r.consistency = Consistency[size][sealed]
      /\ r.leaf = CorpusLeaves[at + 1] /\ r.index = index /\ r.inLog = Inclusion[size][index]
      /\ r.corpusIndex = at /\ r.inCorpus = CorpusProof[at]
      /\ r.claims = {Stated} /\ r.files = Files /\ r.payload = PayloadHash(Files)
  BY DEF Genuine, ReportFields
<1>2. r.consent = [key |-> key, status |-> IF key \in revoked THEN "revoked" ELSE "live", value |-> {},
                   bitmap |-> proof.bitmap, siblings |-> proof.siblings]
  BY DEF Genuine
<1> HIDE DEF r
<1>3. size \in Nat \ {0} /\ sealed \in Nat \ {0} /\ sealed \in 1 .. size
  BY FirstIs
<1>4. at \in 0 .. Len(Corpus) - 1 /\ Len(Corpus) \in Nat /\ at + 1 \in DOMAIN Corpus
  BY ReportProofTypes, CorpusAssumption
<1>5. index \in Nat /\ index < sealed /\ index \in 0 .. size - 1
  <2>1. index \in 0 .. Len(Log) - 1
    BY <1>4, CorpusAssumption
  <2>2. index < sealed
    BY <1>4
  <2> HIDE DEF index
  <2> QED BY <1>3, <2>1, <2>2
<1>6. CorpusLeaves[at + 1] = Log[index + 1]
  BY <1>4 DEF CorpusLeaves
<1> HIDE DEF index
<1>7. ReportLeaf(r, size)
  <2>1. Inclusion[size][index] \in Seq(LogHashes)
    BY <1>5, InclusionType
  <2> QED BY <1>1, <1>5, <1>6, <2>1 DEF ReportLeaf
<1>8. ReportCorpus(r)
  BY <1>1, <1>4, ReportProofTypes DEF ReportCorpus
<1>9. ReportSeal(r)
  BY <1>1, <1>3, ReportProofTypes DEF ReportSeal
<1>10. ReportConsent(r, revoked)
  <2>1. proof.bitmap \in SUBSET (0 .. Depth - 1) /\ proof.siblings \in Seq(SparseWords)
    BY ConsentProofType
  <2> HIDE DEF proof
  <2> QED BY <1>1, <1>2, <2>1 DEF ReportConsent
<1>11. ReportClaims(r, size)
  <2>1. Stated = [leaf |-> TRUE, thresholds |-> TRUE, detail |-> TRUE, proof |-> {}]
    BY DEF Stated
  <2>2. Stated.leaf = TRUE /\ Stated.thresholds = TRUE /\ Stated.detail = TRUE /\ Stated.proof = {}
    BY <2>1
  <2>3. ReportClaim(Stated, size)
    BY <2>1, <2>2 DEF ReportClaim
  <2> QED BY <1>1, <2>3 DEF ReportClaims
<1>12. ReportFiles(r)
  BY <1>1 DEF ReportFiles
<1> QED BY <1>1, <1>2, <1>7, <1>8, <1>9, <1>10, <1>11, <1>12 DEF IsGenuine, IsReport, r

\* What a report is does not depend on the fields that no part is about.
LEMMA OtherFields ==
    ASSUME NEW s, NEW r, NEW size, NEW revoked, IsReport(r, size, revoked),
           Else(s, r, {"preimage", "manifest", "hash", "delivered", "known"})
    PROVE  IsReport(s, size, revoked)
BY DEF Else, ReportFields, IsReport, ReportLeaf, ReportCorpus, ReportSeal, ReportConsent, ReportClaims, ReportFiles

\* Each part is about its own fields.
LEMMA PartsOfReport ==
    ASSUME NEW s, NEW r, NEW size, NEW revoked, IsReport(r, size, revoked)
    PROVE  /\ (\A name \in {"anchor", "leaf", "index", "inLog"} : s[name] = r[name]) => ReportLeaf(s, size)
           /\ (\A name \in {"corpusIndex", "inCorpus"} : s[name] = r[name]) => ReportCorpus(s)
           /\ (\A name \in {"seal", "consistency"} : s[name] = r[name]) => ReportSeal(s)
           /\ (\A name \in {"anchor", "consent"} : s[name] = r[name]) => ReportConsent(s, revoked)
           /\ s.claims = r.claims => ReportClaims(s, size)
           /\ (\A name \in {"files", "payload"} : s[name] = r[name]) => ReportFiles(s)
BY DEF IsReport, ReportLeaf, ReportCorpus, ReportSeal, ReportConsent, ReportClaims, ReportFiles

\* A claim whose proof is left out.
LEMMA OtherProof ==
    ASSUME NEW claim, NEW l, NEW t, NEW d, NEW old,
           claim = [leaf |-> l, thresholds |-> t, detail |-> d, proof |-> old]
    PROVE  [claim EXCEPT !.proof = {}] = [leaf |-> l, thresholds |-> t, detail |-> d, proof |-> {}]
OBVIOUS

\* A claim with a proof that may be the one for its place.
LEMMA ProvedIs ==
    ASSUME NEW size \in Size, NEW at \in 0 .. size - 1, NEW w \in Seq(LogHashes)
    PROVE  /\ ReportClaim(Proved(at, w), size)
           /\ Proved(at, w).proof = {[leaf |-> Log[at + 1], index |-> at, proof |-> w]}
           /\ [Proved(at, w) EXCEPT !.proof = {}] = Stated
<1> DEFINE c == Proved(at, w)
           given == [leaf |-> Log[at + 1], index |-> at, proof |-> w]
           yes == TRUE
<1>0. Stated = [leaf |-> yes, thresholds |-> yes, detail |-> yes, proof |-> {}]
  BY DEF Stated
<1>1. c = [Stated EXCEPT !.proof = {given}]
  BY DEF Proved
<1>2. given.leaf = Log[at + 1] /\ given.index = at /\ given.proof = w
  OBVIOUS
<1>3. yes \in BOOLEAN
  OBVIOUS
<1> HIDE DEF c, given, yes
<1>4. c = [leaf |-> yes, thresholds |-> yes, detail |-> yes, proof |-> {given}]
  BY <1>0, <1>1
<1>5. c.leaf = yes /\ c.thresholds = yes /\ c.detail = yes /\ c.proof = {given}
  BY <1>4
<1>6. [c EXCEPT !.proof = {}] = Stated
  <2>1. [c EXCEPT !.proof = {}] = [leaf |-> yes, thresholds |-> yes, detail |-> yes, proof |-> {}]
    BY ONLY <1>4, OtherProof
  <2> QED BY <1>0, <2>1
<1>7. c = [leaf |-> c.leaf, thresholds |-> c.thresholds, detail |-> c.detail, proof |-> c.proof]
  BY <1>4, <1>5
<1>8. ReportClaim(c, size)
  BY <1>2, <1>3, <1>5, <1>7 DEF ReportClaim
<1> QED BY <1>5, <1>6, <1>8 DEF c, given

\* What the script may find besides leaves it a report.
LEMMA UndeliveredAre ==
    ASSUME NEW r, NEW size, NEW key, NEW revoked, IsGenuine(r, size, key, revoked), NEW s \in Undelivered(r)
    PROVE  IsReport(s, size, revoked)
<1>1. DOMAIN r = ReportFields /\ IsReport(r, size, revoked)
  BY DEF IsGenuine
<1>2. /\ ReportLeaf(r, size) /\ ReportCorpus(r) /\ ReportSeal(r) /\ ReportConsent(r, revoked)
      /\ ReportClaims(r, size) /\ ReportFiles(r)
  BY <1>1 DEF IsReport
<1>3. \/ s = r
      \/ \E list \in {<<>>, Backwards(Files), Tail(Files)} : s = [r EXCEPT !.files = list]
      \/ s = [r EXCEPT !.payload = PayloadHash(Tail(Files))]
      \/ \E saved : s = [r EXCEPT !.delivered = saved]
      \/ \E name \in DOMAIN r.delivered : s = [r EXCEPT !.delivered[name] = "altered"]
      \/ \E k : s = [r EXCEPT !.known = k]
  BY DEF Undelivered
<1>4. CASE s = r
  BY <1>1, <1>4
<1>5. CASE \E list \in {<<>>, Backwards(Files), Tail(Files)} : s = [r EXCEPT !.files = list]
  <2>1. PICK list \in {<<>>, Backwards(Files), Tail(Files)} : s = [r EXCEPT !.files = list]
    BY <1>5
  <2>2. s.files = list /\ Else(s, r, {"files"})
    BY <1>1, <2>1 DEF ReportFields, Else
  <2>3. ReportFiles(s)
    BY <1>2, <2>2 DEF ReportFiles, Else, ReportFields
  <2> QED BY <1>1, <2>2, <2>3, PartsOfReport DEF Else, ReportFields, IsReport
<1>6. CASE s = [r EXCEPT !.payload = PayloadHash(Tail(Files))]
  <2>1. s.payload = PayloadHash(Tail(Files)) /\ Else(s, r, {"payload"})
    BY <1>1, <1>6 DEF ReportFields, Else
  <2>2. ReportFiles(s)
    BY <1>2, <2>1 DEF ReportFiles, Else, ReportFields
  <2> QED BY <1>1, <2>1, <2>2, PartsOfReport DEF Else, ReportFields, IsReport
<1>7. CASE \E saved : s = [r EXCEPT !.delivered = saved]
  <2>1. Else(s, r, {"delivered"})
    BY <1>1, <1>7 DEF ReportFields, Else
  <2> QED BY <1>1, <2>1, OtherFields DEF Else
<1>8. CASE \E name \in DOMAIN r.delivered : s = [r EXCEPT !.delivered[name] = "altered"]
  <2>1. Else(s, r, {"delivered"})
    BY <1>1, <1>8 DEF ReportFields, Else
  <2> QED BY <1>1, <2>1, OtherFields DEF Else
<1>9. CASE \E k : s = [r EXCEPT !.known = k]
  <2>1. Else(s, r, {"known"})
    BY <1>1, <1>9 DEF ReportFields, Else
  <2> QED BY <1>1, <2>1, OtherFields DEF Else
<1> QED BY <1>3, <1>4, <1>5, <1>6, <1>7, <1>8, <1>9

\* What is not as the builder made it.
DamagedSomewhere(r, key, s) ==
    \/ s \in Undelivered(r)
    \/ \E w \in Deliveries(r.inLog) : s = [r EXCEPT !.inLog = w]
    \/ \E of \in {of \in Size : of > r.index} : s = [r EXCEPT !.inLog = Inclusion[of][r.index]]
    \/ \E of \in Size : s = [r EXCEPT !.anchor.root = LogRoot[of]]
    \/ \E at \in DOMAIN CorpusProof : s = [r EXCEPT !.inCorpus = CorpusProof[at]]
    \/ \E at \in DOMAIN CorpusProof : s = [r EXCEPT !.corpusIndex = at]
    \/ s = [r EXCEPT !.seal = {}]
    \/ \E m, of \in Size : s = [r EXCEPT !.seal = {[size |-> m, root |-> LogRoot[of]]}]
    \/ \E w \in Deliveries(r.consistency) \cup {r.inLog} : s = [r EXCEPT !.consistency = w]
    \/ \E st \in {"live", "revoked"}, v \in {{}, {Revocation[key]}} :
              s = [r EXCEPT !.consent.status = st, !.consent.value = v]
    \/ \E of \in SUBSET Key : s = [r EXCEPT !.consent.bitmap = ConsentProof[of][key].bitmap,
                                             !.consent.siblings = ConsentProof[of][key].siblings]
    \/ \E c \in {{}} \cup {{claim} : claim \in Claim} : s = [r EXCEPT !.claims = c]
    \/ \E w \in Deliveries(r.inLog) : s = [r EXCEPT !.claims = {Proved(r.index, w)}]
    \/ s = [r EXCEPT !.preimage = FALSE] \/ s = [r EXCEPT !.hash = FALSE]
    \/ \E m : s = [r EXCEPT !.manifest = m]

\* One part is another one, or nothing is.
LEMMA DamagedIs ==
    ASSUME NEW r, NEW key
    PROVE  \A new \in Damaged(r, key) : DamagedSomewhere(r, key, new)
<1> DEFINE inLogs  == {[r EXCEPT !.inLog = w] : w \in Deliveries(r.inLog)}
           others  == {[r EXCEPT !.inLog = Inclusion[size][r.index]] : size \in {s \in Size : s > r.index}}
           roots   == {[r EXCEPT !.anchor.root = LogRoot[size]] : size \in Size}
           corpora == {[r EXCEPT !.inCorpus = CorpusProof[at]] : at \in DOMAIN CorpusProof}
           places  == {[r EXCEPT !.corpusIndex = at] : at \in DOMAIN CorpusProof}
           none    == {[r EXCEPT !.seal = {}]}
           seals   == {[r EXCEPT !.seal = {[size |-> size, root |-> LogRoot[of]]}] : size, of \in Size}
           joins   == {[r EXCEPT !.consistency = w] : w \in Deliveries(r.consistency) \cup {r.inLog}}
           states  == {[r EXCEPT !.consent.status = st, !.consent.value = v] :
                         st \in {"live", "revoked"}, v \in {{}, {Revocation[key]}}}
           proofs  == {[r EXCEPT !.consent.bitmap = ConsentProof[now][key].bitmap,
                                 !.consent.siblings = ConsentProof[now][key].siblings] : now \in SUBSET Key}
           claims  == {[r EXCEPT !.claims = c] : c \in {{}} \cup {{claim} : claim \in Claim}}
           proven  == {[r EXCEPT !.claims = {Proved(r.index, w)}] : w \in Deliveries(r.inLog)}
           facts   == {[r EXCEPT !.preimage = FALSE], [r EXCEPT !.hash = FALSE]}
           signed  == {[r EXCEPT !.manifest = m] : m \in {"matches", "differs", "badly signed", "other alg"}}
<1>1. Damaged(r, key) = UNION {Undelivered(r), inLogs, others, roots, corpora, places, none, seals,
                               joins, states, proofs, claims, proven, facts, signed}
  BY DEF Damaged
<1> DEFINE whole == Undelivered(r)
<1> HIDE DEF whole, inLogs, others, roots, corpora, places, none, seals, joins, states, proofs, claims, proven, facts, signed
<1> SUFFICES ASSUME NEW new \in Damaged(r, key) PROVE DamagedSomewhere(r, key, new)
  OBVIOUS
<1>2. \/ new \in whole \/ new \in inLogs \/ new \in others \/ new \in roots \/ new \in corpora \/ new \in places
      \/ new \in none \/ new \in seals \/ new \in joins \/ new \in states \/ new \in proofs \/ new \in claims
      \/ new \in proven \/ new \in facts \/ new \in signed
  BY <1>1 DEF whole
<1>3. CASE new \in whole
  BY <1>3 DEF whole, DamagedSomewhere
<1>4. CASE new \in inLogs
  BY <1>4 DEF inLogs, DamagedSomewhere
<1>5. CASE new \in others
  BY <1>5 DEF others, DamagedSomewhere
<1>6. CASE new \in roots
  BY <1>6 DEF roots, DamagedSomewhere
<1>7. CASE new \in corpora
  BY <1>7 DEF corpora, DamagedSomewhere
<1>8. CASE new \in places
  BY <1>8 DEF places, DamagedSomewhere
<1>9. CASE new \in none
  BY <1>9 DEF none, DamagedSomewhere
<1>10. CASE new \in seals
  <2>1. PICK m \in Size, of \in Size : new = [r EXCEPT !.seal = {[size |-> m, root |-> LogRoot[of]]}]
    BY <1>10 DEF seals
  <2> QED BY <2>1 DEF DamagedSomewhere
<1>11. CASE new \in joins
  BY <1>11 DEF joins, DamagedSomewhere
<1>12. CASE new \in states
  <2>1. PICK st \in {"live", "revoked"}, v \in {{}, {Revocation[key]}} :
          new = [r EXCEPT !.consent.status = st, !.consent.value = v]
    BY <1>12 DEF states
  <2> QED BY <2>1 DEF DamagedSomewhere
<1>13. CASE new \in proofs
  BY <1>13 DEF proofs, DamagedSomewhere
<1>14. CASE new \in claims
  BY <1>14 DEF claims, DamagedSomewhere
<1>15. CASE new \in proven
  BY <1>15 DEF proven, DamagedSomewhere
<1>16. CASE new \in facts
  BY <1>16 DEF facts, DamagedSomewhere
<1>17. CASE new \in signed
  BY <1>17 DEF signed, DamagedSomewhere
<1> QED BY <1>2, <1>3, <1>4, <1>5, <1>6, <1>7, <1>8, <1>9, <1>10, <1>11, <1>12, <1>13, <1>14, <1>15, <1>16, <1>17

\* A part of a report that is another one, and the report is one still.
LEMMA DamagedAre ==
    ASSUME NEW r, NEW size, NEW key, NEW revoked, IsGenuine(r, size, key, revoked), NEW s \in Damaged(r, key)
    PROVE  IsReport(s, size, revoked)
<1>1. DOMAIN r = ReportFields /\ IsReport(r, size, revoked)
  BY DEF IsGenuine
<1>2. /\ ReportLeaf(r, size) /\ ReportCorpus(r) /\ ReportSeal(r) /\ ReportConsent(r, revoked)
      /\ ReportClaims(r, size) /\ ReportFiles(r)
  BY <1>1 DEF IsReport
<1>3. /\ size \in Size /\ r.index \in 0 .. size - 1 /\ r.index \in Nat /\ r.leaf = Log[r.index + 1]
      /\ revoked \in SUBSET Key /\ key \in Key /\ r.consent.key = key
      /\ r.inLog = Inclusion[size][r.index] /\ r.inLog \in Seq(LogHashes) /\ Deliveries(r.inLog) \subseteq Seq(LogHashes)
  <2>1. r.consent.key = key
    BY DEF IsGenuine
  <2>2. size \in Size /\ r.index \in 0 .. size - 1 /\ r.leaf = Log[r.index + 1] /\ r.inLog = Inclusion[size][r.index]
    BY <1>2 DEF ReportLeaf, IsGenuine
  <2>3. r.inLog \in Seq(LogHashes) /\ Deliveries(r.inLog) \subseteq Seq(LogHashes)
    BY <2>2, InclusionType
  <2> QED BY <1>2, <2>1, <2>2, <2>3 DEF ReportConsent
<1>4. DamagedSomewhere(r, key, s)
  BY DamagedIs
<1>5. CASE s \in Undelivered(r)
  BY <1>5, UndeliveredAre
<1>6. CASE \E w \in Deliveries(r.inLog) : s = [r EXCEPT !.inLog = w]
  <2>1. PICK w \in Deliveries(r.inLog) : s = [r EXCEPT !.inLog = w]
    BY <1>6
  <2>2. s.inLog = w /\ w \in Seq(LogHashes) /\ Else(s, r, {"inLog"})
    BY <1>1, <1>3, <2>1 DEF ReportFields, Else
  <2>3. ReportLeaf(s, size)
    <3>1. r.anchor.root = LogRoot[size]
      BY DEF IsGenuine
    <3> QED BY <1>2, <2>2, <3>1 DEF ReportLeaf, Else, ReportFields
  <2> QED BY <1>1, <2>2, <2>3, PartsOfReport DEF Else, ReportFields, IsReport
<1>7. CASE \E of \in {of \in Size : of > r.index} : s = [r EXCEPT !.inLog = Inclusion[of][r.index]]
  <2>1. PICK of \in {of \in Size : of > r.index} : s = [r EXCEPT !.inLog = Inclusion[of][r.index]]
    BY <1>7
  <2>2. Inclusion[of][r.index] \in Seq(LogHashes)
    <3>1. of \in Size /\ of \in Nat /\ r.index \in 0 .. of - 1
      BY <1>3, FirstIs
    <3> QED BY <3>1, InclusionType
  <2>3. s.inLog = Inclusion[of][r.index] /\ Else(s, r, {"inLog"})
    BY <1>1, <2>1 DEF ReportFields, Else
  <2>4. ReportLeaf(s, size)
    <3>1. r.anchor.root = LogRoot[size]
      BY DEF IsGenuine
    <3> QED BY <1>2, <2>2, <2>3, <3>1 DEF ReportLeaf, Else, ReportFields
  <2> QED BY <1>1, <2>3, <2>4, PartsOfReport DEF Else, ReportFields, IsReport
<1>8. CASE \E of \in Size : s = [r EXCEPT !.anchor.root = LogRoot[of]]
  <2>1. PICK of \in Size : s = [r EXCEPT !.anchor.root = LogRoot[of]]
    BY <1>8
  <2>2. s.anchor = [r.anchor EXCEPT !.root = LogRoot[of]] /\ Else(s, r, {"anchor"})
    BY <1>1, <2>1 DEF ReportFields, Else
  <2>3. s.anchor.size = size /\ s.anchor.revocations = ConsentRoot[revoked] /\ s.anchor.root = LogRoot[of]
    BY <2>2 DEF IsGenuine
  <2>4. ReportLeaf(s, size)
    BY <1>2, <1>3, <2>2, <2>3 DEF ReportLeaf, Else, ReportFields
  <2>5. ReportConsent(s, revoked)
    BY <1>2, <2>2, <2>3 DEF ReportConsent, Else, ReportFields
  <2> QED BY <1>1, <2>2, <2>4, <2>5, PartsOfReport DEF Else, ReportFields, IsReport
<1>9. CASE \E at \in DOMAIN CorpusProof : s = [r EXCEPT !.inCorpus = CorpusProof[at]]
  <2>1. PICK at \in DOMAIN CorpusProof : s = [r EXCEPT !.inCorpus = CorpusProof[at]]
    BY <1>9
  <2>2. s.inCorpus = CorpusProof[at] /\ Else(s, r, {"inCorpus"})
    BY <1>1, <2>1 DEF ReportFields, Else
  <2>3. ReportCorpus(s)
    BY <1>2, <2>2, ReportProofTypes DEF ReportCorpus, Else, ReportFields
  <2> QED BY <1>1, <2>2, <2>3, PartsOfReport DEF Else, ReportFields, IsReport
<1>10. CASE \E at \in DOMAIN CorpusProof : s = [r EXCEPT !.corpusIndex = at]
  <2>1. PICK at \in DOMAIN CorpusProof : s = [r EXCEPT !.corpusIndex = at]
    BY <1>10
  <2>2. s.corpusIndex = at /\ Else(s, r, {"corpusIndex"})
    BY <1>1, <2>1 DEF ReportFields, Else
  <2>3. ReportCorpus(s)
    BY <1>2, <2>2, ReportProofTypes DEF ReportCorpus, Else, ReportFields
  <2> QED BY <1>1, <2>2, <2>3, PartsOfReport DEF Else, ReportFields, IsReport
<1>11. CASE s = [r EXCEPT !.seal = {}]
  <2>1. s.seal = {} /\ Else(s, r, {"seal"})
    BY <1>1, <1>11 DEF ReportFields, Else
  <2>2. ReportSeal(s)
    BY <1>2, <2>1 DEF ReportSeal, Else, ReportFields
  <2> QED BY <1>1, <2>1, <2>2, PartsOfReport DEF Else, ReportFields, IsReport
<1>12. CASE \E m, of \in Size : s = [r EXCEPT !.seal = {[size |-> m, root |-> LogRoot[of]]}]
  <2>1. PICK m \in Size, of \in Size : s = [r EXCEPT !.seal = {[size |-> m, root |-> LogRoot[of]]}]
    BY <1>12
  <2>2. s.seal = {[size |-> m, root |-> LogRoot[of]]} /\ Else(s, r, {"seal"})
    BY <1>1, <2>1 DEF ReportFields, Else
  <2>3. ReportSeal(s)
    BY <1>2, <2>2 DEF ReportSeal, Else, ReportFields
  <2> QED BY <1>1, <2>2, <2>3, PartsOfReport DEF Else, ReportFields, IsReport
<1>13. CASE \E w \in Deliveries(r.consistency) \cup {r.inLog} : s = [r EXCEPT !.consistency = w]
  <2>1. PICK w \in Deliveries(r.consistency) \cup {r.inLog} : s = [r EXCEPT !.consistency = w]
    BY <1>13
  <2>2. w \in Seq(LogHashes)
    <3>1. r.consistency \in Seq(LogHashes)
      BY <1>2 DEF ReportSeal
    <3>2. \A d \in Deliveries(r.consistency) : d \in Seq(LogHashes)
      BY <3>1, DeliveriesAre
    <3> QED BY <1>3, <3>2
  <2>3. s.consistency = w /\ Else(s, r, {"consistency"})
    BY <1>1, <2>1 DEF ReportFields, Else
  <2>4. ReportSeal(s)
    BY <1>2, <2>2, <2>3 DEF ReportSeal, Else, ReportFields
  <2> QED BY <1>1, <2>3, <2>4, PartsOfReport DEF Else, ReportFields, IsReport
<1>14. CASE \E st \in {"live", "revoked"}, v \in {{}, {Revocation[key]}} :
              s = [r EXCEPT !.consent.status = st, !.consent.value = v]
  <2>1. PICK st \in {"live", "revoked"}, v \in {{}, {Revocation[key]}} :
              s = [r EXCEPT !.consent.status = st, !.consent.value = v]
    BY <1>14
  <2>2. s.consent = [r.consent EXCEPT !.status = st, !.value = v] /\ Else(s, r, {"consent"})
    BY <1>1, <2>1 DEF ReportFields, Else
  <2>3. /\ s.consent.key = key /\ s.consent.status = st /\ s.consent.value = v
        /\ s.consent.bitmap = r.consent.bitmap /\ s.consent.siblings = r.consent.siblings
    BY <2>2 DEF IsGenuine
  <2>4. ReportConsent(s, revoked)
    BY <1>2, <1>3, <2>1, <2>2, <2>3 DEF ReportConsent, Else, ReportFields
  <2> QED BY <1>1, <2>2, <2>4, PartsOfReport DEF Else, ReportFields, IsReport
<1>15. CASE \E of \in SUBSET Key : s = [r EXCEPT !.consent.bitmap = ConsentProof[of][key].bitmap,
                                           !.consent.siblings = ConsentProof[of][key].siblings]
  <2>1. PICK of \in SUBSET Key : s = [r EXCEPT !.consent.bitmap = ConsentProof[of][key].bitmap,
                                              !.consent.siblings = ConsentProof[of][key].siblings]
    BY <1>15
  <2> DEFINE proof == ConsentProof[of][key]
  <2>2. proof.bitmap \in SUBSET (0 .. Depth - 1) /\ proof.siblings \in Seq(SparseWords)
    BY <1>3, ConsentProofType
  <2>3. s.consent = [r.consent EXCEPT !.bitmap = proof.bitmap, !.siblings = proof.siblings] /\ Else(s, r, {"consent"})
    BY <1>1, <2>1 DEF ReportFields, Else
  <2> HIDE DEF proof
  <2>4. /\ s.consent.key = key /\ s.consent.status = r.consent.status /\ s.consent.value = r.consent.value
        /\ s.consent.bitmap = proof.bitmap /\ s.consent.siblings = proof.siblings
    BY <2>3 DEF IsGenuine
  <2>5. ReportConsent(s, revoked)
    BY <1>2, <1>3, <2>2, <2>3, <2>4 DEF ReportConsent, Else, ReportFields
  <2> QED BY <1>1, <2>3, <2>5, PartsOfReport DEF Else, ReportFields, IsReport
<1>16. CASE \E c \in {{}} \cup {{claim} : claim \in Claim} : s = [r EXCEPT !.claims = c]
  <2>1. PICK c \in {{}} \cup {{claim} : claim \in Claim} : s = [r EXCEPT !.claims = c]
    BY <1>16
  <2>2. s.claims = c /\ Else(s, r, {"claims"})
    BY <1>1, <2>1 DEF ReportFields, Else
  <2>3. \A claim \in Claim : ReportClaim(claim, size)
    BY DEF Claim, ReportClaim
  <2>4. ReportClaims(s, size)
    BY <2>2, <2>3 DEF ReportClaims
  <2> QED BY <1>1, <2>2, <2>4, PartsOfReport DEF Else, ReportFields, IsReport
<1>18. CASE \E w \in Deliveries(r.inLog) : s = [r EXCEPT !.claims = {Proved(r.index, w)}]
  <2>1. PICK w \in Deliveries(r.inLog) : s = [r EXCEPT !.claims = {Proved(r.index, w)}]
    BY <1>18
  <2>2. s.claims = {Proved(r.index, w)} /\ Else(s, r, {"claims"})
    BY <1>1, <2>1 DEF ReportFields, Else
  <2>3. ReportClaim(Proved(r.index, w), size)
    BY <1>3, ProvedIs
  <2>4. ReportClaims(s, size)
    BY <2>2, <2>3 DEF ReportClaims
  <2> QED BY <1>1, <2>2, <2>4, PartsOfReport DEF Else, ReportFields, IsReport
<1>19. CASE s = [r EXCEPT !.preimage = FALSE] \/ s = [r EXCEPT !.hash = FALSE]
  <2>1. Else(s, r, {"preimage", "hash"})
    BY <1>1, <1>19 DEF ReportFields, Else
  <2> QED BY <1>1, <2>1, OtherFields DEF Else
<1>21. CASE \E m : s = [r EXCEPT !.manifest = m]
  <2>1. Else(s, r, {"manifest"})
    BY <1>1, <1>21 DEF ReportFields, Else
  <2> QED BY <1>1, <2>1, OtherFields DEF Else
<1> QED BY <1>4, <1>5, <1>6, <1>7, <1>8, <1>9, <1>10, <1>11, <1>12, <1>13, <1>14, <1>15, <1>16, <1>18, <1>19, <1>21
       DEF DamagedSomewhere

-----------------------------------------------------------------------------
(* The report that is assembled: assemble-report.mjs *)

\* The rows of the table of anchors, with what had been revoked by then.
AnchoredRows(table) ==
    [k \in DOMAIN table |-> [idx |-> k - 1, size |-> table[k].size, root |-> LogRoot[table[k].of],
                             revoked |-> table[k].revoked]]
IsRow(row) ==
    row.size \in Size /\ (\E of \in Size : row.root = LogRoot[of]) /\ row.revoked \in SUBSET Key

\* A row for every row of the table, in its order.
LEMMA RowsAre ==
    ASSUME NEW table \in Seq([size: Size, of: Size, revoked: SUBSET Key])
    PROVE  /\ Len(table) \in Nat /\ DOMAIN AnchoredRows(table) = 1 .. Len(table)
           /\ Len(AnchoredRows(table)) = Len(table)
           /\ \A k \in 1 .. Len(table) :
                /\ IsRow(AnchoredRows(table)[k])
                /\ AnchoredRows(table)[k].idx = k - 1 /\ AnchoredRows(table)[k].size = table[k].size
                /\ AnchoredRows(table)[k].revoked = table[k].revoked
<1> DEFINE rows == AnchoredRows(table)
           row(k) == [idx |-> k - 1, size |-> table[k].size, root |-> LogRoot[table[k].of], revoked |-> table[k].revoked]
<1>1. Len(table) \in Nat /\ DOMAIN table = 1 .. Len(table)
      /\ \A k \in 1 .. Len(table) : table[k].size \in Size /\ table[k].of \in Size /\ table[k].revoked \in SUBSET Key
  <2> DEFINE Rows == [size: Size, of: Size, revoked: SUBSET Key]
  <2>1. \A x \in Rows : x.size \in Size /\ x.of \in Size /\ x.revoked \in SUBSET Key
    OBVIOUS
  <2>2. table \in Seq(Rows)
    OBVIOUS
  <2> HIDE DEF Rows
  <2> QED BY <2>1, <2>2
<1>2. DOMAIN rows = 1 .. Len(table) /\ \A k \in 1 .. Len(table) : rows[k] = row(k)
  BY <1>1 DEF AnchoredRows
<1>3. \A k : /\ row(k).idx = k - 1 /\ row(k).size = table[k].size /\ row(k).root = LogRoot[table[k].of]
             /\ row(k).revoked = table[k].revoked
  OBVIOUS
<1>4. Len(rows) = Len(table)
  <2>1. rows = [k \in 1 .. Len(table) |-> row(k)]
    BY <1>1 DEF AnchoredRows
  <2> QED BY <1>1, <2>1
<1> HIDE DEF rows, row
<1> QED BY <1>1, <1>2, <1>3, <1>4 DEF IsRow, rows

\* The page that the script reads.
Shown(rows) == First(rows, IF MaxLimit < Len(rows) THEN MaxLimit ELSE Len(rows))
ShowsFirst(rows) ==
    /\ AnchorPage(rows, {}, MaxLimit).items = Shown(rows)
    /\ \E m \in Nat : /\ m <= Len(rows) /\ DOMAIN Shown(rows) = 1 .. m
                      /\ \A a \in 1 .. m : Shown(rows)[a] = rows[a]

\* Without a cursor the page begins at the first row.
LEMMA FirstPage ==
    ASSUME NEW table \in Seq([size: Size, of: Size, revoked: SUBSET Key])
    PROVE  ShowsFirst(AnchoredRows(table))
<1> DEFINE rows == AnchoredRows(table)
           own  == {rows[k] : k \in 1 .. Len(table)}
           m    == IF MaxLimit < Len(rows) THEN MaxLimit ELSE Len(rows)
<1>1. /\ Len(table) \in Nat /\ DOMAIN rows = 1 .. Len(table) /\ Len(rows) = Len(table)
      /\ \A k \in 1 .. Len(table) : rows[k].idx = k - 1
  BY RowsAre
<1>2. rows \in Seq(own)
  <2>1. rows = [k \in 1 .. Len(table) |-> rows[k]]
    BY <1>1 DEF AnchoredRows
  <2> DEFINE all == rows
  <2>2. all \in [1 .. Len(table) -> own]
    BY <2>1
  <2> HIDE DEF all, own
  <2>3. Len(table) \in Nat
    BY <1>1
  <2>4. all \in Seq(own)
    BY ONLY <2>2, <2>3, SeqDef
  <2> QED BY <2>4 DEF all
<1>3. \A k \in 1 .. Len(table) : rows[k] \in own
  OBVIOUS
<1> HIDE DEF rows, own
<1>4. Past(rows, {}) = 0
  <2> DEFINE Passes(x) == \A a \in DOMAIN rows : a > x <=> \A idx \in {} : rows[a].idx > idx
  <2>1. Past(rows, {}) = CHOOSE x \in 0 .. Len(rows) : Passes(x)
    BY DEF Past
  <2>2. 0 \in 0 .. Len(rows) /\ Passes(0)
    BY <1>1
  <2>3. ASSUME NEW x \in 0 .. Len(rows), Passes(x) PROVE x = 0
    <3> SUFFICES ASSUME x # 0 PROVE FALSE
      OBVIOUS
    <3>1. x \in 1 .. Len(rows) /\ ~ (x > x)
      BY <1>1
    <3> QED BY <1>1, <2>3, <3>1
  <2> HIDE DEF Passes
  <2> QED BY <2>1, <2>2, <2>3
<1>5. m \in Nat /\ m <= Len(rows) /\ 0 + 1 = 1
  BY <1>1, LimitAssumption
<1>6. SubSeq(rows, 0 + 1, Len(rows)) = rows
  <2> DEFINE all == SubSeq(rows, 1, Len(rows))
  <2>1. /\ all \in Seq(own)
        /\ Len(all) = IF 1 <= Len(rows) THEN Len(rows) - 1 + 1 ELSE 0
        /\ \A k \in 1 .. Len(rows) - 1 + 1 : all[k] = rows[1 + k - 1]
    BY <1>1, <1>3, SubSeqProperties
  <2> HIDE DEF all
  <2>2. Len(all) = Len(rows) /\ \A k \in 1 .. Len(all) : all[k] = rows[k]
    BY <1>1, <2>1
  <2>3. all = rows
    BY <1>2, <2>1, <2>2, SeqEqual
  <2> QED BY <1>5, <2>3 DEF all
<1>7. AnchorPage(rows, {}, MaxLimit).items = First(rows, m)
  <2> DEFINE slice == First(rows, m)
             more == IF Len(rows) > MaxLimit THEN {slice[Len(slice)].idx} ELSE {}
  <2>1. AnchorPage(rows, {}, MaxLimit) = [items |-> slice, next |-> more]
    BY <1>4, <1>6 DEF AnchorPage
  <2> HIDE DEF slice, more
  <2>2. AnchorPage(rows, {}, MaxLimit).items = slice
    BY <2>1
  <2> QED BY <2>2 DEF slice
<1>8. DOMAIN First(rows, m) = 1 .. m /\ \A a \in 1 .. m : First(rows, m)[a] = rows[a]
  <2> HIDE DEF m
  <2>1. \A k \in 1 .. m : rows[k] \in own
    BY <1>1, <1>3, <1>5
  <2>2. /\ SubSeq(rows, 1, m) \in Seq(own)
        /\ Len(SubSeq(rows, 1, m)) = IF 1 <= m THEN m - 1 + 1 ELSE 0
        /\ \A k \in 1 .. m - 1 + 1 : SubSeq(rows, 1, m)[k] = rows[1 + k - 1]
    BY <1>5, <2>1, SubSeqProperties
  <2>3. Len(SubSeq(rows, 1, m)) = m
    BY <1>5, <2>2
  <2> QED BY <1>5, <2>2, <2>3 DEF First
<1> HIDE DEF m
<1>9. AnchorPage(rows, {}, MaxLimit).items = Shown(rows) /\ Shown(rows) = First(rows, m)
  BY <1>7 DEF Shown, m
<1> QED BY <1>5, <1>8, <1>9 DEF ShowsFirst, rows

\* The first row on that page with the head that is looked for.
Same(row, head) == row.size = head.size /\ row.root = head.root
FirstRow(rows, head) ==
    CHOOSE row \in Range(Shown(rows)) :
        /\ Same(row, head)
        /\ \A other \in Range(Shown(rows)) : Same(other, head) => row.idx <= other.idx
Finds(rows, head) ==
    /\ FindAnchor(rows, head) # {} <=> \E row \in Range(Shown(rows)) : Same(row, head)
    /\ \A row \in FindAnchor(rows, head) :
         IsRow(row) /\ row \in Range(rows) /\ Same(row, head) /\ row = FirstRow(rows, head)

\* The script finds the first row with that size and root.
LEMMA AnchorFound ==
    ASSUME NEW table \in Seq([size: Size, of: Size, revoked: SUBSET Key]), NEW head \in Range(AnchoredRows(table))
    PROVE  Finds(AnchoredRows(table), head)
<1> DEFINE rows == AnchoredRows(table)
           page == Shown(rows)
           found == {a \in DOMAIN page : page[a].root = head.root /\ page[a].size = head.size}
           least == {a \in found : \A b \in found : a <= b}
<1>1. /\ Len(table) \in Nat /\ DOMAIN rows = 1 .. Len(table) /\ Len(rows) = Len(table)
      /\ \A k \in 1 .. Len(table) : rows[k].idx = k - 1 /\ IsRow(rows[k])
  BY RowsAre
<1>2. PICK m \in Nat : /\ m <= Len(rows) /\ DOMAIN page = 1 .. m
                       /\ \A a \in 1 .. m : page[a] = rows[a]
  BY FirstPage DEF ShowsFirst
<1>3. AnchorPage(rows, {}, MaxLimit).items = page
  BY FirstPage DEF ShowsFirst
<1>4. FindAnchor(rows, head) = {page[a] : a \in least}
  BY <1>3 DEF FindAnchor
<1> HIDE DEF rows, page
<1>7. \A a \in 1 .. m : IsRow(page[a]) /\ page[a].idx = a - 1 /\ page[a] \in Range(rows)
  <2> SUFFICES ASSUME NEW a \in 1 .. m PROVE IsRow(page[a]) /\ page[a].idx = a - 1 /\ page[a] \in Range(rows)
    OBVIOUS
  <2>1. a \in 1 .. Len(table) /\ page[a] = rows[a]
    BY <1>1, <1>2
  <2> QED BY <1>1, <2>1 DEF Range
<1>8. found = {a \in 1 .. m : Same(page[a], head)}
  BY <1>2 DEF Same
<1> HIDE DEF found
<1>9. found # {} <=> \E row \in Range(page) : Same(row, head)
  BY <1>2, <1>8 DEF Range
<1>10. found # {} => least # {}
  <2> SUFFICES ASSUME found # {} PROVE \E a \in found : \A b \in found : a <= b
    OBVIOUS
  <2>1. found \in SUBSET Nat
    BY <1>8
  <2> QED BY <2>1, LeastNumber
<1>11. least \subseteq found
  OBVIOUS
<1>12. ASSUME NEW a \in least
       PROVE  IsRow(page[a]) /\ page[a] \in Range(rows) /\ Same(page[a], head) /\ page[a] = FirstRow(rows, head)
  <2>1. a \in 1 .. m /\ Same(page[a], head)
    BY <1>8
  <2> DEFINE IsFirst(row) == /\ Same(row, head)
                             /\ \A other \in Range(page) : Same(other, head) => row.idx <= other.idx
  <2>2. page[a] \in Range(page)
    BY <1>2, <2>1 DEF Range
  <2>3. IsFirst(page[a])
    <3> SUFFICES ASSUME NEW b \in 1 .. m, Same(page[b], head) PROVE page[a].idx <= page[b].idx
      BY <1>2, <2>1 DEF Range
    <3>1. b \in found
      BY <1>8
    <3>2. a <= b
      BY <3>1
    <3> QED BY <1>7, <2>1, <3>2
  <2>4. ASSUME NEW row \in Range(page), IsFirst(row) PROVE row = page[a]
    <3>1. PICK b \in 1 .. m : row = page[b]
      BY <1>2 DEF Range
    <3>2. row.idx <= page[a].idx /\ page[a].idx <= row.idx
      BY <2>1, <2>2, <2>3, <2>4
    <3>3. row.idx = b - 1 /\ page[a].idx = a - 1
      BY <1>7, <2>1, <3>1
    <3>4. a = b
      BY <2>1, <3>2, <3>3
    <3> QED BY <3>1, <3>4
  <2>5. FirstRow(rows, head) = CHOOSE row \in Range(page) : IsFirst(row)
    BY DEF FirstRow, page
  <2> HIDE DEF IsFirst
  <2>6. FirstRow(rows, head) = page[a]
    BY <2>2, <2>3, <2>4, <2>5
  <2> QED BY <1>7, <2>1, <2>6
<1> HIDE DEF least
<1>13. FindAnchor(rows, head) # {} <=> \E row \in Range(page) : Same(row, head)
  BY <1>4, <1>9, <1>10, <1>11
<1> QED BY <1>4, <1>12, <1>13 DEF Finds, page, rows

\* What is served of a leaf for a head of the table: its own proof, if the log held it by then.
ServedOf(rows, wanted, head) ==
    LET served == ServeInclusion(rows, wanted, head.root, head.size) IN
    /\ served.status = 200 <=> Holds(head.size, wanted)
    /\ served.status = 200 =>
         /\ served.index \in 0 .. head.size - 1 /\ Log[served.index + 1] = wanted
         /\ served.proof = Inclusion[head.size][served.index]

\* The head is known, so only the log decides (proofs.ts:11-57).
LEMMA InclusionOfRow ==
    ASSUME NEW table \in Seq([size: Size, of: Size, revoked: SUBSET Key]), NEW head \in Range(AnchoredRows(table)), NEW wanted
    PROVE  ServedOf(AnchoredRows(table), wanted, head)
<1> DEFINE rows == AnchoredRows(table)
           root == head.root
           size == head.size
           covered == {index \in IndexOf(wanted) : index < size}
           index == CHOOSE index \in covered : TRUE
           served == ServeInclusion(rows, wanted, root, size)
<1>1. DOMAIN rows = 1 .. Len(table) /\ \A k \in 1 .. Len(table) : IsRow(rows[k])
  BY RowsAre
<1>2. PICK k \in DOMAIN rows : head = rows[k]
  BY DEF Range
<1>3. size \in Size /\ size \in Nat \ {0} /\ AnchorBy(rows, root, size) # {}
  <2>1. rows[k] \in AnchorBy(rows, root, size)
    BY <1>2 DEF AnchorBy
  <2> QED BY <1>1, <1>2, <2>1, FirstIs DEF IsRow
<1>4. /\ IndexOf(wanted) \subseteq 0 .. Len(Log) - 1
      /\ \A at \in IndexOf(wanted) : Log[at + 1] = wanted
      /\ Holds(size, wanted) <=> \E at \in IndexOf(wanted) : at < size
  BY <1>3, PlaceOf
<1>5. Holds(size, wanted) <=> covered # {}
  BY <1>4
<1>6. served = IF covered = {} THEN [status |-> 404]
               ELSE [status |-> 200, index |-> index, size |-> size, root |-> root, proof |-> Inclusion[size][index]]
  BY <1>3 DEF ServeInclusion, NotFound
<1>7. CASE covered = {}
  <2>1. served.status = 404
    BY <1>6, <1>7
  <2> HIDE DEF served
  <2>2. ~ (served.status = 200) /\ ~Holds(size, wanted)
    BY <1>5, <1>7, <2>1
  <2> QED BY <2>2 DEF ServedOf, served, rows, root, size
<1>8. CASE covered # {}
  <2>1. index \in covered
    BY <1>8
  <2>2. \A a \in covered : a \in IndexOf(wanted) /\ a < size
    OBVIOUS
  <2>3. Len(Log) \in Nat
    BY LogAssumption
  <2> DEFINE a == index
  <2>4. a \in covered
    BY <2>1
  <2> HIDE DEF index, a, covered
  <2>5. a \in 0 .. size - 1 /\ Log[a + 1] = wanted
    BY <1>3, <1>4, <2>2, <2>3, <2>4
  <2> DEFINE answer == [status |-> 200, index |-> index, size |-> size, root |-> root, proof |-> Inclusion[size][index]]
  <2>6. answer.status = 200 /\ answer.index = index /\ answer.proof = Inclusion[size][index]
    OBVIOUS
  <2> HIDE DEF answer
  <2>7. served = answer
    <3>1. covered # {}
      BY <1>8
    <3> HIDE DEF served, covered, index
    <3> QED BY <1>6, <3>1 DEF answer
  <2> HIDE DEF served, index, covered
  <2>8. served.status = 200 /\ served.index \in 0 .. size - 1 /\ Log[served.index + 1] = wanted
        /\ served.proof = Inclusion[size][served.index]
    BY <2>5, <2>6, <2>7 DEF a
  <2> QED BY <1>5, <1>8, <2>8 DEF ServedOf, served, rows, root, size
<1> QED BY <1>7, <1>8

\* For two heads of the table the API has a proof when the sealing one is not the later one.
AskedOf(rows, head, seal) ==
    LET asked_ == AskedConsistency(rows, head, seal) IN
    /\ asked_.status = 200 <=> seal.size <= head.size
    /\ asked_.status = 200 =>
         asked_.proof = IF seal.size = head.size THEN <<>> ELSE Consistency[head.size][seal.size]

\* Both heads are known, so only their order decides (proofs.ts:59-102).
LEMMA ConsistencyOfRows ==
    ASSUME NEW table \in Seq([size: Size, of: Size, revoked: SUBSET Key]),
           NEW head \in Range(AnchoredRows(table)), NEW seal \in Range(AnchoredRows(table))
    PROVE  AskedOf(AnchoredRows(table), head, seal)
<1> DEFINE rows == AnchoredRows(table)
           to   == head.size
           from == seal.size
           known == {from, to} \subseteq {rows[a].size : a \in DOMAIN rows}
           proof == IF from = to THEN <<>> ELSE Consistency[to][from]
           result == AskedConsistency(rows, head, seal)
<1>1. DOMAIN rows = 1 .. Len(table) /\ \A k \in 1 .. Len(table) : IsRow(rows[k])
  BY RowsAre
<1>2. known /\ from \in Nat \ {0} /\ to \in Nat \ {0}
  <2>1. PICK k \in DOMAIN rows, l \in DOMAIN rows : head = rows[k] /\ seal = rows[l]
    BY DEF Range
  <2>2. from \in Size /\ to \in Size
    BY <1>1, <2>1 DEF IsRow
  <2> QED BY <2>1, <2>2, FirstIs
<1>3. result = IF from = to THEN [status |-> 200, proof |-> <<>>]
               ELSE IF from > to THEN [status |-> 400] ELSE [status |-> 200, proof |-> proof]
  <2>1. ServeConsistency(rows, from, to) = IF from > to THEN [status |-> 400] ELSE [status |-> 200, proof |-> proof]
    BY <1>2 DEF ServeConsistency, Invalid, NotFound
  <2> QED BY <2>1 DEF AskedConsistency
<1>4. [status |-> 200, proof |-> <<>>].status = 200 /\ [status |-> 200, proof |-> <<>>].proof = <<>>
      /\ [status |-> 400].status = 400
      /\ [status |-> 200, proof |-> proof].status = 200 /\ [status |-> 200, proof |-> proof].proof = proof
  OBVIOUS
<1>5. from = to => proof = <<>>
  OBVIOUS
<1> HIDE DEF result, proof
<1>6. CASE from = to
  <2>1. result.status = 200 /\ result.proof = proof /\ from <= to
    BY <1>2, <1>3, <1>4, <1>5, <1>6
  <2> QED BY <2>1 DEF AskedOf, result, proof, rows, to, from
<1>7. CASE from > to
  <2>1. result.status = 400
    BY <1>2, <1>3, <1>4, <1>7
  <2>2. ~ (result.status = 200) /\ ~ (from <= to)
    BY <1>2, <1>7, <2>1
  <2> QED BY <2>2 DEF AskedOf, result, proof, rows, to, from
<1>8. CASE from # to /\ ~ (from > to)
  <2>1. result.status = 200 /\ result.proof = proof /\ from <= to
    BY <1>2, <1>3, <1>4, <1>8
  <2> QED BY <2>1 DEF AskedOf, result, proof, rows, to, from
<1> QED BY <1>6, <1>7, <1>8

\* The script finds what it has saved.
LEMMA SavedAreFound ==
    \A f \in ToSet(Files) : LocalName[f.path] \in DOMAIN Saved(Files) /\ Saved(Files)[LocalName[f.path]] = f.hash
<1> SUFFICES ASSUME NEW k \in DOMAIN Files
             PROVE  LocalName[Files[k].path] \in DOMAIN Saved(Files)
                    /\ Saved(Files)[LocalName[Files[k].path]] = Files[k].hash
  BY DEF ToSet
<1> DEFINE name == LocalName[Files[k].path]
           named == {l \in DOMAIN Files : LocalName[Files[l].path] = name}
           Ends(l) == \A j \in DOMAIN Files : LocalName[Files[j].path] = name => j <= l
           last == CHOOSE l \in DOMAIN Files : LocalName[Files[l].path] = name /\ Ends(l)
<1>1. DOMAIN Saved(Files) = {LocalName[Files[l].path] : l \in DOMAIN Files}
  BY DEF Saved
<1>2. name \in {LocalName[Files[l].path] : l \in DOMAIN Files}
  OBVIOUS
<1>3. Saved(Files)[name] = Files[last].hash
  BY <1>2 DEF Saved
<1>4. \E l \in DOMAIN Files : LocalName[Files[l].path] = name /\ Ends(l)
  <2>1. Len(Files) \in Nat /\ DOMAIN Files = 1 .. Len(Files)
    BY CorpusAssumption
  <2> DEFINE After == {a \in Nat : a <= Len(Files) /\ Len(Files) - a \in named}
  <2>2. Len(Files) - k \in Nat /\ Len(Files) - k <= Len(Files) /\ Len(Files) - (Len(Files) - k) = k /\ k \in named
    BY <2>1
  <2>3. Len(Files) - k \in After
    BY <2>2
  <2>4. After \in SUBSET Nat /\ After # {}
    BY <2>3
  <2>5. PICK a \in After : \A b \in After : a <= b
    <3> HIDE DEF After
    <3> QED BY <2>4, LeastNumber
  <2>6. Len(Files) - a \in named /\ a \in Nat
    OBVIOUS
  <2>7. ASSUME NEW j \in named PROVE j <= Len(Files) - a
    <3>1. j \in 1 .. Len(Files)
      BY <2>1
    <3>2. Len(Files) - j \in Nat /\ Len(Files) - j <= Len(Files) /\ Len(Files) - (Len(Files) - j) = j
      BY <2>1, <3>1
    <3>3. Len(Files) - j \in After
      BY <3>2
    <3> QED BY <2>1, <2>5, <2>6, <3>1, <3>3
  <2> QED BY <2>6, <2>7
<1>5. last \in DOMAIN Files /\ LocalName[Files[last].path] = name
  <2> HIDE DEF Ends
  <2> QED BY <1>4
<1> HIDE DEF last
<1>6. Files[last].hash = Files[k].hash
  BY <1>5, NamesAssumption
<1> QED BY <1>1, <1>2, <1>3, <1>6

-----------------------------------------------------------------------------
(* What is put together from the answers *)

\* A report as the script puts it together: a leaf and a claim that are in the log,
\* a member of the corpus, two heads, and the consent of today.
IsAssembled(r, head, seal, revoked, index, at, claimed, key, withdrawn) ==
    LET size   == head.size
        sealed == seal.size IN
    /\ r.anchor = [size |-> size, root |-> head.root, revocations |-> ConsentRoot[revoked]]
    /\ r.seal = {[size |-> sealed, root |-> seal.root]}
    /\ r.consistency = IF sealed = size THEN <<>> ELSE Consistency[size][sealed]
    /\ r.leaf = CorpusLeaves[at + 1] /\ r.index = index /\ r.preimage /\ r.manifest = "matches"
    /\ r.inLog = Inclusion[size][index]
    /\ r.corpusIndex = at /\ r.inCorpus = CorpusProof[at]
    /\ r.consent = [key |-> key, status |-> IF key \in withdrawn THEN "revoked" ELSE "live", value |-> {},
                    bitmap |-> ConsentProof[withdrawn][key].bitmap,
                    siblings |-> ConsentProof[withdrawn][key].siblings]
    /\ r.claims = {Proved(claimed, Inclusion[size][claimed])}
    /\ r.hash /\ r.files = Files /\ r.payload = PayloadHash(Files)
    /\ r.delivered = Saved(Files) /\ r.known = "found"

\* It is a report, and true for every verifier when its two heads are coherent, unless
\* consent was given when it was anchored and others have withdrawn theirs since.
AssembledIs(r, head, seal, revoked, key, withdrawn) ==
    /\ IsReport(r, head.size, revoked)
    /\ \A by \in {"library", "page", "script"} :
          ReportHolds(r, head.size, revoked, by) <=> /\ Coherent(head) /\ Coherent(seal)
                                                     /\ key \in withdrawn \/ revoked = withdrawn

\* All but consent and the two roots is as it is called for.
LEMMA AssembledHolds ==
    ASSUME NEW r, NEW head, NEW seal, NEW size \in Size, NEW sealed \in Size, sealed <= size,
           head.size = size, seal.size = sealed, \E of \in Size : head.root = LogRoot[of],
           NEW withdrawn \in SUBSET Key, NEW revoked \in SUBSET withdrawn, NEW key \in Key,
           NEW at \in DOMAIN CorpusProof, NEW index \in 0 .. size - 1, NEW claimed \in 0 .. size - 1,
           CorpusLeaves[at + 1] = Log[index + 1],
           IsAssembled(r, head, seal, revoked, index, at, claimed, key, withdrawn)
    PROVE  AssembledIs(r, head, seal, revoked, key, withdrawn)
<1> DEFINE proof == ConsentProof[withdrawn][key]
           path  == IF sealed = size THEN <<>> ELSE Consistency[size][sealed]
           c     == r.consent
<1>0. revoked \in SUBSET Key
  OBVIOUS
<1>1. size \in Nat \ {0} /\ sealed \in Nat \ {0} /\ sealed \in 1 .. size /\ index \in Nat /\ claimed \in Nat
  BY FirstIs
<1>2. at \in 0 .. Len(Corpus) - 1
  BY ReportProofTypes
<1>3. Inclusion[size][index] \in Seq(LogHashes) /\ Inclusion[size][claimed] \in Seq(LogHashes)
  <2>1. index < size /\ claimed < size
    BY <1>1
  <2> QED BY <1>1, <2>1, InclusionType
<1>4. proof.bitmap \in SUBSET (0 .. Depth - 1) /\ proof.siblings \in Seq(SparseWords)
      /\ proof = [bitmap |-> proof.bitmap, siblings |-> proof.siblings]
  BY ConsentProofType
<1>5. r.anchor.size = size /\ r.anchor.root = head.root /\ r.anchor.revocations = ConsentRoot[revoked]
  BY DEF IsAssembled
<1>6. c.key = key /\ c.value = {} /\ c.bitmap = proof.bitmap /\ c.siblings = proof.siblings
      /\ c.status = IF key \in withdrawn THEN "revoked" ELSE "live"
  <2> HIDE DEF proof
  <2> QED BY DEF IsAssembled, proof
<1> HIDE DEF proof, c
<1>7. ReportLeaf(r, size)
  BY <1>3, <1>5 DEF IsAssembled, ReportLeaf
<1>8. ReportCorpus(r)
  BY <1>2, ReportProofTypes DEF IsAssembled, ReportCorpus
<1>9. ReportSeal(r)
  <2>1. <<>> \in Seq(LogHashes) /\ Consistency[size][sealed] \in Seq(LogHashes)
    BY <1>1, ReportProofTypes
  <2>2. [size |-> sealed, root |-> seal.root].size = sealed
    OBVIOUS
  <2> QED BY <2>1, <2>2 DEF IsAssembled, ReportSeal
<1>10. ReportConsent(r, revoked)
  BY <1>0, <1>4, <1>5, <1>6 DEF ReportConsent, c
<1>11. ReportClaim(Proved(claimed, Inclusion[size][claimed]), size)
       /\ [Proved(claimed, Inclusion[size][claimed]) EXCEPT !.proof = {}] = Stated
       /\ Proved(claimed, Inclusion[size][claimed]).proof
            = {[leaf |-> Log[claimed + 1], index |-> claimed, proof |-> Inclusion[size][claimed]]}
  BY <1>3, ProvedIs
<1>12. r.claims = {Proved(claimed, Inclusion[size][claimed])}
  BY DEF IsAssembled
<1>13. ReportClaims(r, size) /\ ClaimsHold(r) /\ ClaimsProven(r, size)
  <2> DEFINE one == Proved(claimed, Inclusion[size][claimed])
             given == [leaf |-> Log[claimed + 1], index |-> claimed, proof |-> Inclusion[size][claimed]]
  <2>1. given.index = claimed /\ given.proof = Inclusion[size][claimed]
    OBVIOUS
  <2>2. one.proof = {given} /\ ReportClaim(one, size) /\ [one EXCEPT !.proof = {}] = Stated /\ r.claims = {one}
    BY <1>11, <1>12
  <2> HIDE DEF one, given
  <2> QED BY <2>1, <2>2 DEF ReportClaims, ClaimsHold, ClaimsProven
<1>14. ReportFiles(r)
  BY DEF IsAssembled, ReportFiles
<1>15. IsReport(r, size, revoked)
  BY <1>7, <1>8, <1>9, <1>10, <1>13, <1>14 DEF IsReport
<1>16. (InLogHolds(r, size) <=> Coherent(head)) /\ InCorpusHolds(r)
  BY <1>5 DEF IsAssembled, InLogHolds, InCorpusHolds, Coherent
<1>17. ASSUME Coherent(head) PROVE SealHolds(r, size) <=> Coherent(seal)
  <2> DEFINE sealing == [size |-> sealed, root |-> seal.root]
  <2>1. sealing.size = sealed /\ sealing.root = seal.root
    OBVIOUS
  <2>2. r.seal = {sealing} /\ r.consistency = path /\ head.root = LogRoot[size]
    BY <1>17 DEF IsAssembled, Coherent
  <2>0. Coherent(seal) <=> seal.root = LogRoot[sealed]
    BY DEF Coherent
  <2> HIDE DEF sealing
  <2>3. CASE sealed = size
    <3>1. r.consistency = <<>>
      BY <2>2, <2>3
    <3>2. ConsistencyStep(r) <=> Coherent(seal)
      BY <1>5, <2>0, <2>1, <2>2, <2>3, <3>1 DEF ConsistencyStep
    <3> QED BY <1>5, <1>9, <2>2, <3>2, SealTold
  <2>4. CASE sealed # size
    <3>1. r.consistency = Consistency[size][sealed]
      BY <2>2, <2>4
    <3> QED BY <2>0, <2>1, <2>2, <3>1 DEF SealHolds
  <2> QED BY <2>3, <2>4
<1>18. ConsentHolds(r, revoked) <=> key \in withdrawn \/ revoked = withdrawn
  <2>1. [bitmap |-> c.bitmap, siblings |-> c.siblings] = proof
    BY <1>4, <1>6
  <2>2. ConsentHolds(r, revoked) <=> \/ c.status = "revoked" /\ c.value = {}
                                     \/ ((c.status = "revoked") <=> c.key \in revoked)
                                        /\ proof = ConsentProof[revoked][c.key]
    BY <2>1 DEF ConsentHolds, c
  <2>3. CASE key \in withdrawn
    BY <1>6, <2>2, <2>3
  <2>4. CASE key \notin withdrawn
    <3>1. key \notin revoked /\ c.status = "live" /\ c.key = key
      BY <1>6, <2>4
    <3>2. ConsentHolds(r, revoked) <=> proof = ConsentProof[revoked][key]
      BY <2>2, <3>1
    <3>3. proof = ConsentProof[revoked][key] => revoked = withdrawn
      BY <1>0, <2>4, <3>1, ProofsTellRevocations DEF proof
    <3>4. revoked = withdrawn => proof = ConsentProof[revoked][key]
      BY DEF proof
    <3> QED BY <2>4, <3>2, <3>3, <3>4
  <2> QED BY <2>3, <2>4
<1>19. ScriptHolds(r) /\ r.hash /\ r.preimage /\ r.manifest \notin {"differs", "badly signed"}
  <2>1. r.known = "found" /\ r.files = Files /\ r.payload = PayloadHash(Files) /\ r.delivered = Saved(Files)
        /\ r.hash /\ r.preimage /\ r.manifest = "matches"
    BY DEF IsAssembled
  <2>2. DeliveredHolds(r)
    BY <2>1, SavedAreFound DEF DeliveredHolds
  <2>3. PayloadHolds(r)
    BY <2>1 DEF PayloadHolds
  <2> QED BY <2>1, <2>2, <2>3 DEF ScriptHolds
<1> QED BY <1>13, <1>15, <1>16, <1>17, <1>18, <1>19 DEF AssembledIs, ReportHolds

\* A set of at most one report: there is one when both heads are on the page that the script
\* reads, the sealing one is not the later one, and leaf and claim were in the log.
Assembles(result, rows, about, sealing, at, claim, key, withdrawn) ==
    /\ result # {} <=>
         /\ \A head \in {about, sealing} : \E row \in Range(Shown(rows)) : Same(row, head)
         /\ sealing.size <= about.size
         /\ Holds(about.size, CorpusLeaves[at + 1]) /\ Holds(about.size, claim)
    /\ \A report \in result : AssembledIs(report, about, sealing, FirstRow(rows, about).revoked, key, withdrawn)

\* One answer after the other, and what the verifiers say of the report that is made
\* (assemble-report.mjs:60-107).
LEMMA AssembledRightly ==
    ASSUME NEW table \in Seq([size: Size, of: Size, revoked: SUBSET Key]),
           NEW about \in Range(AnchoredRows(table)), NEW sealing \in Range(AnchoredRows(table)),
           NEW at \in DOMAIN CorpusProof, NEW claim, NEW key \in Key, NEW withdrawn \in SUBSET Key,
           \A k \in DOMAIN table : table[k].revoked \subseteq withdrawn
    PROVE  Assembles(AssembleReport(AnchoredRows(table), about, sealing, at, claim, key, withdrawn),
                     AnchoredRows(table), about, sealing, at, claim, key, withdrawn)
<1> DEFINE rows        == AnchoredRows(table)
           leaf        == CorpusLeaves[at + 1]
           consistency == AskedConsistency(rows, about, sealing)
           inLog       == ServeInclusion(rows, leaf, about.root, about.size)
           consent     == ServeConsent(rows, about, key, withdrawn)
           claimed     == ServeInclusion(rows, claim, about.root, about.size)
           served      == {consistency, inLog, consent, claimed}
           heads       == FindAnchor(rows, about)
           seals       == FindAnchor(rows, sealing)
           kept        == {row \in heads : seals # {} /\ \A answer \in served : answer.status = 200}
           made(row) ==
             [anchor  |-> [size |-> row.size, root |-> row.root, revocations |-> ConsentRoot[row.revoked]],
              seal    |-> {[size |-> s.size, root |-> s.root] : s \in seals},
              consistency |-> consistency.proof,
              leaf    |-> leaf, index |-> inLog.index, preimage |-> TRUE, manifest |-> "matches",
              inLog   |-> inLog.proof,
              corpusIndex |-> at, inCorpus |-> CorpusProof[at],
              consent |-> [key |-> key, status |-> consent.consent, value |-> {},
                           bitmap |-> consent.bitmap, siblings |-> consent.siblings],
              claims  |-> {Proved(claimed.index, claimed.proof)},
              hash    |-> TRUE, files |-> Files, payload |-> PayloadHash(Files),
              delivered |-> Saved(Files), known |-> "found"]
           result == AssembleReport(rows, about, sealing, at, claim, key, withdrawn)
<1>1. result = {made(row) : row \in kept}
  BY DEF AssembleReport
<1>2. Finds(rows, about) /\ Finds(rows, sealing)
  BY AnchorFound
<1>3. ServedOf(rows, leaf, about) /\ ServedOf(rows, claim, about)
  BY InclusionOfRow
<1>4. AskedOf(rows, about, sealing)
  BY ConsistencyOfRows
<1>5. \A row \in Range(rows) : IsRow(row) /\ row.revoked \subseteq withdrawn
  <2>1. DOMAIN rows = 1 .. Len(table) /\ DOMAIN table = 1 .. Len(table)
        /\ \A k \in 1 .. Len(table) : IsRow(rows[k]) /\ rows[k].revoked = table[k].revoked
    <3>1. DOMAIN rows = DOMAIN table
      BY DEF AnchoredRows
    <3> HIDE DEF rows
    <3>2. DOMAIN rows = 1 .. Len(table)
          /\ \A k \in 1 .. Len(table) : IsRow(rows[k]) /\ rows[k].revoked = table[k].revoked
      BY RowsAre DEF rows
    <3> QED BY <3>1, <3>2
  <2> HIDE DEF rows
  <2>2. \A k \in DOMAIN rows : IsRow(rows[k]) /\ rows[k].revoked \subseteq withdrawn
    BY <2>1
  <2> QED BY <2>2 DEF Range
<1>6. about \in Range(rows) /\ sealing \in Range(rows)
  OBVIOUS
<1>7. /\ \A row : /\ made(row).anchor
                       = [size |-> row.size, root |-> row.root, revocations |-> ConsentRoot[row.revoked]]
                  /\ made(row).seal = {[size |-> s.size, root |-> s.root] : s \in seals}
                  /\ made(row).consistency = consistency.proof
                  /\ made(row).leaf = leaf /\ made(row).index = inLog.index
                  /\ made(row).preimage /\ made(row).manifest = "matches"
                  /\ made(row).inLog = inLog.proof
                  /\ made(row).corpusIndex = at /\ made(row).inCorpus = CorpusProof[at]
                  /\ made(row).consent = [key |-> key, status |-> consent.consent, value |-> {},
                                          bitmap |-> consent.bitmap, siblings |-> consent.siblings]
                  /\ made(row).claims = {Proved(claimed.index, claimed.proof)}
                  /\ made(row).hash /\ made(row).files = Files /\ made(row).payload = PayloadHash(Files)
                  /\ made(row).delivered = Saved(Files) /\ made(row).known = "found"
  OBVIOUS
<1> HIDE DEF made, result, consistency, inLog, claimed, heads, seals
<1>8. /\ consent.status = 200 /\ consent.consent = IF key \in withdrawn THEN "revoked" ELSE "live"
      /\ consent.bitmap = ConsentProof[withdrawn][key].bitmap
      /\ consent.siblings = ConsentProof[withdrawn][key].siblings
  <2>1. AnchorBy(rows, about.root, about.size) # {}
    <3>1. PICK k \in DOMAIN rows : about = rows[k]
      BY <1>6 DEF Range
    <3> HIDE DEF rows
    <3>2. rows[k] \in AnchorBy(rows, about.root, about.size)
      BY <3>1 DEF AnchorBy
    <3> QED BY <3>2
  <2> DEFINE status == IF key \in withdrawn THEN "revoked" ELSE "live"
             bitmap == ConsentProof[withdrawn][key].bitmap
             siblings == ConsentProof[withdrawn][key].siblings
  <2> HIDE DEF rows, status, bitmap, siblings
  <2>2. consent = [status |-> 200, consent |-> status, bitmap |-> bitmap, siblings |-> siblings]
    BY <2>1 DEF ServeConsent, status, bitmap, siblings
  <2>3. consent.status = 200 /\ consent.consent = status /\ consent.bitmap = bitmap /\ consent.siblings = siblings
    <3> HIDE DEF consent
    <3> QED BY <2>2
  <2> QED BY <2>3 DEF status, bitmap, siblings
<1> HIDE DEF consent, rows, leaf
<1>9. (\A answer \in served : answer.status = 200)
        <=> sealing.size <= about.size /\ Holds(about.size, leaf) /\ Holds(about.size, claim)
  BY <1>3, <1>4, <1>8 DEF ServedOf, AskedOf, consistency, inLog, claimed
<1> HIDE DEF served
<1>10. result # {} <=>
         /\ \A head \in {about, sealing} : \E row \in Range(Shown(rows)) : Same(row, head)
         /\ sealing.size <= about.size /\ Holds(about.size, leaf) /\ Holds(about.size, claim)
  <2>1. result # {} <=> heads # {} /\ seals # {} /\ \A answer \in served : answer.status = 200
    BY <1>1
  <2>2. /\ heads # {} <=> \E row \in Range(Shown(rows)) : Same(row, about)
        /\ seals # {} <=> \E row \in Range(Shown(rows)) : Same(row, sealing)
    BY <1>2 DEF Finds, heads, seals
  <2> QED BY <1>9, <2>1, <2>2
<1>11. ASSUME NEW row \in kept
       PROVE  AssembledIs(made(row), about, sealing, FirstRow(rows, about).revoked, key, withdrawn)
  <2>1. /\ row \in heads /\ seals # {} /\ sealing.size <= about.size
        /\ Holds(about.size, leaf) /\ Holds(about.size, claim)
    BY <1>9
  <2>2. IsRow(row) /\ row \in Range(rows) /\ row.size = about.size /\ row.root = about.root /\ row = FirstRow(rows, about)
    BY <1>2, <2>1 DEF Finds, Same, heads
  <2>3. PICK seal \in seals : seals = {seal} /\ seal.size = sealing.size /\ seal.root = sealing.root
    <3>1. \A s \in seals : s.size = sealing.size /\ s.root = sealing.root /\ s = FirstRow(rows, sealing)
      BY <1>2 DEF Finds, Same, seals
    <3> QED BY <2>1, <3>1
  <2>4. /\ inLog.index \in 0 .. about.size - 1 /\ Log[inLog.index + 1] = leaf
        /\ inLog.proof = Inclusion[about.size][inLog.index]
    BY <1>3, <2>1 DEF ServedOf, inLog
  <2>5. /\ claimed.index \in 0 .. about.size - 1
        /\ claimed.proof = Inclusion[about.size][claimed.index]
    BY <1>3, <2>1 DEF ServedOf, claimed
  <2>6. consistency.proof = IF sealing.size = about.size THEN <<>> ELSE Consistency[about.size][sealing.size]
    BY <1>4, <2>1 DEF AskedOf, consistency
  <2>7. /\ about.size \in Size /\ sealing.size \in Size /\ row.revoked \in SUBSET withdrawn
        /\ \E of \in Size : about.root = LogRoot[of]
    BY <1>5, <1>6, <2>2, <2>3 DEF IsRow
  <2>8. IsAssembled(made(row), about, sealing, row.revoked, inLog.index, at, claimed.index, key, withdrawn)
    <3>1. {[size |-> s.size, root |-> s.root] : s \in seals} = {[size |-> sealing.size, root |-> sealing.root]}
      BY <2>3
    <3>2. /\ made(row).anchor = [size |-> about.size, root |-> about.root,
                                 revocations |-> ConsentRoot[row.revoked]]
          /\ made(row).seal = {[size |-> sealing.size, root |-> sealing.root]}
      BY <1>7, <2>2, <3>1
    <3>3. made(row).consent = [key |-> key, status |-> IF key \in withdrawn THEN "revoked" ELSE "live", value |-> {},
                               bitmap |-> ConsentProof[withdrawn][key].bitmap,
                               siblings |-> ConsentProof[withdrawn][key].siblings]
      <4> DEFINE status == IF key \in withdrawn THEN "revoked" ELSE "live"
                 bitmap == ConsentProof[withdrawn][key].bitmap
                 siblings == ConsentProof[withdrawn][key].siblings
      <4>1. consent.consent = status /\ consent.bitmap = bitmap /\ consent.siblings = siblings
        BY <1>8
      <4>2. made(row).consent = [key |-> key, status |-> consent.consent, value |-> {},
                                 bitmap |-> consent.bitmap, siblings |-> consent.siblings]
        BY <1>7
      <4> HIDE DEF status, bitmap, siblings
      <4>3. made(row).consent = [key |-> key, status |-> status, value |-> {}, bitmap |-> bitmap, siblings |-> siblings]
        BY <4>1, <4>2
      <4> QED BY <4>3 DEF status, bitmap, siblings
    <3>4. /\ made(row).consistency = IF sealing.size = about.size THEN <<>> ELSE Consistency[about.size][sealing.size]
          /\ made(row).inLog = Inclusion[about.size][inLog.index]
          /\ made(row).claims = {Proved(claimed.index, Inclusion[about.size][claimed.index])}
      BY <1>7, <2>4, <2>5, <2>6
    <3>5. /\ made(row).leaf = CorpusLeaves[at + 1] /\ made(row).index = inLog.index
          /\ made(row).preimage /\ made(row).manifest = "matches"
          /\ made(row).corpusIndex = at /\ made(row).inCorpus = CorpusProof[at]
          /\ made(row).hash /\ made(row).files = Files /\ made(row).payload = PayloadHash(Files)
          /\ made(row).delivered = Saved(Files) /\ made(row).known = "found"
      BY <1>7 DEF leaf
    <3> QED BY <3>2, <3>3, <3>4, <3>5 DEF IsAssembled
  <2>9. CorpusLeaves[at + 1] = Log[inLog.index + 1]
    BY <2>4 DEF leaf
  <2>10. AssembledIs(made(row), about, sealing, row.revoked, key, withdrawn)
    BY <2>1, <2>4, <2>5, <2>7, <2>8, <2>9, AssembledHolds
  <2> QED BY <2>2, <2>10
<1>12. \A report \in result : AssembledIs(report, about, sealing, FirstRow(rows, about).revoked, key, withdrawn)
  <2> HIDE DEF kept
  <2> QED BY <1>1, <1>11
<1> QED BY <1>10, <1>12 DEF Assembles, result, rows, leaf
=============================================================================
