----------------------------- MODULE TreeProofs -----------------------------
(***************************************************************************)
(* Lemmas about MerkleTree, for any leaves: powers of two and Split, and   *)
(* the recursive hash of a range.                                          *)
(*                                                                         *)
(* A recursive definition says nothing until there is a function that      *)
(* satisfies it.  There is one where the recursion looks at smaller        *)
(* arguments only and its values are in one set (Recursion), and for       *)
(* hashes there is such a set (TreesExist).  The same serves the proofs:   *)
(* an inclusion path and a consistency path are, turn by turn, the words   *)
(* that the provers of log.ts collect.                                     *)
(***************************************************************************)
EXTENDS MerkleTree, FiniteSetTheorems, SequenceTheorems, WellFoundedInduction, TLAPS

-----------------------------------------------------------------------------
(* Recursive functions *)

\* A set of numbers that is not empty has a least.
LEMMA LeastNumber ==
    ASSUME NEW S \in SUBSET Nat, S # {}
    PROVE  \E m \in S : \A n \in S : m <= n
<1>1. PICK m \in S : \A n \in S : <<n, m>> \notin OpToRel(<, Nat)
  BY NatLessThanWellFounded, WFMin
<1>2. ASSUME NEW n \in S PROVE m <= n
  <2>1. ~ (n < m)
    BY <1>1 DEF OpToRel
  <2> QED BY <2>1
<1> QED BY <1>2

\* What holds of a number whenever it holds of all smaller ones holds of all.
LEMMA AllNumbers ==
    ASSUME NEW S \in SUBSET Nat, \A n \in Nat : (\A k \in Nat : k < n => k \in S) => n \in S
    PROVE  \A n \in Nat : n \in S
<1> DEFINE T == Nat \ S
<1>1. T = {}
  <2> SUFFICES ASSUME T # {} PROVE FALSE
    OBVIOUS
  <2>1. PICK m \in T : \A k \in T : m <= k
    <3>1. T \in SUBSET Nat
      OBVIOUS
    <3> HIDE DEF T
    <3> QED BY <3>1, LeastNumber
  <2>2. \A k \in Nat : k < m => k \in S
    BY <2>1
  <2> QED BY <2>1, <2>2
<1> QED BY <1>1

\* A step of a recursion that looks at smaller arguments only.
LooksBack(step, D, V) ==
    \A m \in D : \A g, h \in [D -> V] :
        (\A k \in D : k < m => g[k] = h[k]) => step[m][g] = step[m][h]

\* A function that follows the recursion below n.
Follows(f, step, D, n) == \A k \in D : k < n => f[k] = step[k][f]

\* There is one, for any n, or there would be a least n without one.
LEMMA FollowersBegin ==
    ASSUME NEW D \in SUBSET Nat, NEW V, V # {}, NEW step \in [D -> [[D -> V] -> V]],
           LooksBack(step, D, V), NEW n \in Nat
    PROVE  \E f \in [D -> V] : Follows(f, step, D, n)
<1> DEFINE Missing == {m \in Nat : ~ \E f \in [D -> V] : Follows(f, step, D, m)}
<1>1. Missing = {}
  <2> SUFFICES ASSUME Missing # {} PROVE FALSE
    OBVIOUS
  <2>1. PICK m \in Missing : \A k \in Missing : m <= k
    <3>1. Missing \in SUBSET Nat
      OBVIOUS
    <3> HIDE DEF Missing
    <3> QED BY <3>1, LeastNumber
  <2>2. m \in Nat /\ ~ \E f \in [D -> V] : Follows(f, step, D, m)
    BY <2>1
  <2>3. m # 0
    <3>1. PICK v \in V : TRUE
      OBVIOUS
    <3>2. [k \in D |-> v] \in [D -> V]
      BY <3>1
    <3>3. Follows([k \in D |-> v], step, D, 0)
      BY DEF Follows
    <3> QED BY <2>2, <3>2, <3>3
  <2>4. m - 1 \in Nat /\ m - 1 \notin Missing
    BY <2>1, <2>2, <2>3
  <2>5. PICK h \in [D -> V] : Follows(h, step, D, m - 1)
    BY <2>4
  <2> DEFINE g == [h EXCEPT ![m - 1] = step[m - 1][h]]
  <2>6. g \in [D -> V]
    BY <2>5
  <2>7. \A k \in D : k < m - 1 => g[k] = h[k]
    BY <2>4
  <2>8. m - 1 \in D => g[m - 1] = step[m - 1][h]
    BY <2>4
  <2> HIDE DEF g
  <2>9. ASSUME NEW k \in D, k < m
        PROVE  g[k] = step[k][g]
    <3>1. k \in Nat /\ k <= m - 1 /\ \A l \in D : l < k => l < m - 1
      BY <2>2, <2>9
    <3>2. \A l \in D : l < k => g[l] = h[l]
      BY <2>7, <3>1
    <3>3. step[k][g] = step[k][h]
      BY <2>6, <3>2 DEF LooksBack
    <3>4. CASE k = m - 1
      BY <2>8, <3>3, <3>4
    <3>5. CASE k # m - 1
      <4>1. k < m - 1
        BY <2>2, <3>1, <3>5
      <4> QED BY <2>5, <2>7, <3>3, <4>1 DEF Follows
    <3> QED BY <3>4, <3>5
  <2> QED BY <2>2, <2>6, <2>9 DEF Follows
<1> QED BY <1>1

\* Two that follow it below n are one below n.
LEMMA FollowersAgree ==
    ASSUME NEW D \in SUBSET Nat, NEW V, NEW step, LooksBack(step, D, V), NEW n \in Nat,
           NEW g \in [D -> V], NEW h \in [D -> V],
           Follows(g, step, D, n), Follows(h, step, D, n), NEW k \in D, k < n
    PROVE  g[k] = h[k]
<1> DEFINE Differ == {l \in D : l < n /\ g[l] # h[l]}
<1>1. Differ = {}
  <2> SUFFICES ASSUME Differ # {} PROVE FALSE
    OBVIOUS
  <2>1. PICK m \in Differ : \A l \in Differ : m <= l
    <3>1. Differ \in SUBSET Nat
      OBVIOUS
    <3> HIDE DEF Differ
    <3> QED BY <3>1, LeastNumber
  <2>2. m \in D /\ m \in Nat /\ m < n /\ g[m] # h[m]
    BY <2>1
  <2>3. \A l \in D : l < m => g[l] = h[l]
    <3> SUFFICES ASSUME NEW l \in D, l < m PROVE g[l] = h[l]
      OBVIOUS
    <3>1. l \in Nat /\ ~ (m <= l) /\ l < n
      BY <2>2
    <3>2. l \notin Differ
      BY <2>1, <3>1
    <3> QED BY <3>1, <3>2
  <2>4. step[m][g] = step[m][h]
    BY <2>2, <2>3 DEF LooksBack
  <2> QED BY <2>2, <2>4 DEF Follows
<1> QED BY <1>1

\* A function that the recursion defines.
Solves(f, step, D) == f = [m \in D |-> step[m][f]]

\* A recursion that looks at smaller arguments only, with values in one set, defines
\* a function: it takes its value at m from one that follows the recursion to there.
LEMMA Recursion ==
    ASSUME NEW D \in SUBSET Nat, NEW V, V # {}, NEW step \in [D -> [[D -> V] -> V]],
           LooksBack(step, D, V)
    PROVE  \E f \in [D -> V] : Solves(f, step, D)
<1> DEFINE F(n) == CHOOSE f \in [D -> V] : Follows(f, step, D, n)
           w == [m \in D |-> F(m + 1)[m]]
<1>1. \A n \in Nat : F(n) \in [D -> V] /\ Follows(F(n), step, D, n)
  BY FollowersBegin
<1> HIDE DEF F
<1>2. w \in [D -> V]
  <2>1. ASSUME NEW m \in D PROVE F(m + 1)[m] \in V
    <3>1. m + 1 \in Nat
      OBVIOUS
    <3> QED BY <1>1, <3>1
  <2> QED BY <2>1
<1>3. ASSUME NEW m \in D
      PROVE  w[m] = step[m][w]
  <2>1. m \in Nat /\ m + 1 \in Nat /\ m < m + 1
    OBVIOUS
  <2>2. ASSUME NEW k \in D, k < m
        PROVE  w[k] = F(m + 1)[k]
    <3>1. k \in Nat /\ k + 1 \in Nat /\ k < k + 1 /\ \A l \in D : l < k + 1 => l < m + 1
      BY <2>1, <2>2
    <3>2. Follows(F(m + 1), step, D, k + 1)
      BY <1>1, <2>1, <3>1 DEF Follows
    <3>3. F(k + 1)[k] = F(m + 1)[k]
      BY <1>1, <2>1, <3>1, <3>2, FollowersAgree
    <3> QED BY <3>3
  <2>3. step[m][w] = step[m][F(m + 1)]
    <3> HIDE DEF w
    <3> QED BY <1>1, <1>2, <2>1, <2>2 DEF LooksBack
  <2>4. F(m + 1)[m] = step[m][F(m + 1)]
    BY <1>1, <2>1 DEF Follows
  <2> QED BY <2>3, <2>4
<1>4. w = [m \in D |-> step[m][w]]
  <2>1. w = [m \in D |-> w[m]]
    OBVIOUS
  <2> HIDE DEF w
  <2> QED BY <1>3, <2>1
<1> QED BY <1>2, <1>4 DEF Solves

-----------------------------------------------------------------------------
(* Powers of two, as the smallest set with 1 and the double of each member. *)

Doubles(k) == {v \in Nat : \A S \in SUBSET Nat :
                  k \in S /\ (\A i \in S : 2 * i \in S) => v \in S}
Powers == Doubles(1)

\* k is among its doubles, and so is twice each of them.
LEMMA DoublesAre ==
    ASSUME NEW k \in Nat
    PROVE  /\ Doubles(k) \subseteq Nat
           /\ k \in Doubles(k)
           /\ \A v \in Doubles(k) : 2 * v \in Doubles(k)
BY DEF Doubles

\* They are the smallest such set: what holds of k and of twice everything it
\* holds of, holds of every double of k.
LEMMA DoublesOnly ==
    ASSUME NEW k \in Nat, NEW S \in SUBSET Nat, k \in S, \A i \in S : 2 * i \in S
    PROVE  Doubles(k) \subseteq S
BY DEF Doubles

\* Every double is a multiple.
LEMMA DoublesDivide ==
    ASSUME NEW k \in Nat \ {0}, NEW v \in Doubles(k)
    PROVE  v \in Nat /\ v >= k /\ \E m \in Nat \ {0} : v = m * k
<1> DEFINE S == {i \in Nat : \E m \in Nat \ {0} : i = m * k}
<1>1. k \in S
  BY k = 1 * k, 1 \in Nat \ {0}
<1>2. ASSUME NEW i \in S PROVE 2 * i \in S
  <2>1. PICK m \in Nat \ {0} : i = m * k
    OBVIOUS
  <2>2. 2 * i = (2 * m) * k /\ 2 * m \in Nat \ {0} /\ 2 * i \in Nat
    BY <2>1
  <2> QED BY <2>2
<1>3. v \in S
  BY <1>1, <1>2, DoublesOnly
<1>4. PICK m \in Nat \ {0} : v = m * k
  BY <1>3
<1>5. m * k >= k
  OBVIOUS
<1> QED BY <1>3, <1>4, <1>5

\* The doubles of k are k and the doubles of 2 * k.
LEMMA DoublesNext ==
    ASSUME NEW k \in Nat
    PROVE  /\ Doubles(2 * k) \subseteq Doubles(k)
           /\ \A v \in Doubles(k) : v = k \/ v \in Doubles(2 * k)
<1>1. Doubles(2 * k) \subseteq Doubles(k)
  BY DoublesAre, DoublesOnly
<1>2. Doubles(k) \subseteq {k} \cup Doubles(2 * k)
  <2> DEFINE S == {k} \cup Doubles(2 * k)
  <2>1. S \subseteq Nat /\ k \in S /\ \A i \in S : 2 * i \in S
    BY DoublesAre, 2 * k \in Nat
  <2> QED BY <2>1, DoublesOnly
<1> QED BY <1>1, <1>2

\* Powers of two are positive, and closed under doubling.
LEMMA PowersAre == Powers \subseteq Nat \ {0} /\ 1 \in Powers /\ \A v \in Powers : 2 * v \in Powers
BY DoublesAre, DoublesDivide DEF Powers

\* Of two powers of two, one is a double of the other.
LEMMA PowersOrder ==
    ASSUME NEW p \in Powers, NEW q \in Powers
    PROVE  q \in Doubles(p) \/ p \in Doubles(q)
<1> DEFINE S == {i \in Nat \ {0} : \A j \in Powers : j \in Doubles(i) \/ i \in Doubles(j)}
<1>1. 1 \in S
  BY DEF Powers
<1>2. ASSUME NEW i \in S PROVE 2 * i \in S
  <2>1. ASSUME NEW j \in Powers PROVE j \in Doubles(2 * i) \/ 2 * i \in Doubles(j)
    <3>1. j \in Nat
      BY PowersAre
    <3>2. CASE j \in Doubles(i)
      BY <3>1, <3>2, DoublesNext, DoublesAre
    <3>3. CASE i \in Doubles(j)
      BY <3>1, <3>3, DoublesAre
    <3> QED BY <3>2, <3>3
  <2> QED BY <2>1
<1>3. p \in S
  <2>1. S \in SUBSET Nat
    OBVIOUS
  <2> HIDE DEF S
  <2> QED BY <1>1, <1>2, <2>1, DoublesOnly DEF Powers
<1> QED BY <1>3

\* The smaller of two powers of two divides the larger.
LEMMA PowersDivide ==
    ASSUME NEW p \in Powers, NEW q \in Powers, p <= q
    PROVE  \E m \in Nat \ {0} : q = m * p
<1>1. p \in Nat \ {0} /\ q \in Nat \ {0}
  BY PowersAre
<1>2. CASE q \in Doubles(p)
  BY <1>1, <1>2, DoublesDivide
<1>3. CASE p \in Doubles(q)
  <2>1. p = q
    BY <1>1, <1>3, DoublesDivide
  <2> QED BY <2>1, <1>1, q = 1 * q
<1> QED BY <1>2, <1>3, PowersOrder

\* Of two powers of two that are not one, twice the smaller divides the larger.
LEMMA PowersApart ==
    ASSUME NEW p \in Powers, NEW q \in Powers, p < q
    PROVE  \E m \in Nat \ {0} : q = m * (2 * p)
<1>1. 2 * p \in Powers /\ p \in Nat \ {0} /\ q \in Nat \ {0}
  BY PowersAre
<1>2. q \in Doubles(p)
  BY <1>1, PowersOrder, DoublesDivide
<1>3. q \in Doubles(2 * p)
  BY <1>1, <1>2, DoublesNext
<1> QED BY <1>1, <1>3, DoublesDivide

-----------------------------------------------------------------------------
(* The largest power of two below n: Split. *)

\* The loop of split() from k on, for n.
Doubling(largest, n) ==
    largest = [k \in Nat \ {0} |-> IF 2 * k < n THEN largest[2 * k] ELSE k]

\* The function that the loop computes exists: the least double it may stop at.
LEMMA DoublingExists ==
    ASSUME NEW n \in Nat
    PROVE  \E largest : Doubling(largest, n)
<1> DEFINE Enough(k) == {v \in Doubles(k) : n <= 2 * v}
           Least(k) == CHOOSE m \in Enough(k) : \A v \in Enough(k) : m <= v
           largest == [k \in Nat \ {0} |-> Least(k)]
<1>1. ASSUME NEW k \in Nat \ {0}, 2 * k < n
      PROVE  Least(k) = Least(2 * k)
  <2>1. Enough(k) = Enough(2 * k)
    BY <1>1, DoublesNext
  <2> QED BY <2>1
<1>2. ASSUME NEW k \in Nat \ {0}, ~ (2 * k < n)
      PROVE  Least(k) = k
  <2>1. k \in Enough(k) /\ \A v \in Enough(k) : v \in Nat /\ k <= v
    BY <1>2, DoublesAre, DoublesDivide
  <2> HIDE DEF Enough
  <2>2. \E m \in Enough(k) : \A v \in Enough(k) : m <= v
    BY <2>1
  <2>3. Least(k) \in Enough(k) /\ \A v \in Enough(k) : Least(k) <= v
    BY <2>2
  <2> HIDE DEF Least
  <2> QED BY <2>1, <2>3
<1>3. ASSUME NEW k \in Nat \ {0}
      PROVE  largest[k] = IF 2 * k < n THEN largest[2 * k] ELSE k
  <2>1. 2 * k \in Nat \ {0}
    OBVIOUS
  <2> HIDE DEF Least
  <2> QED BY <2>1, <1>1, <1>2
<1> HIDE DEF largest
<1>4. largest = [k \in Nat \ {0} |-> largest[k]]
  BY DEF largest
<1>5. largest = [k \in Nat \ {0} |-> IF 2 * k < n THEN largest[2 * k] ELSE k]
  BY <1>3, <1>4
<1> QED BY <1>5 DEF Doubling

\* Split(n) is the largest power of two below n.
LEMMA SplitIs ==
    ASSUME NEW n \in Nat, n > 1
    PROVE  Split(n) \in Powers /\ Split(n) < n /\ n <= 2 * Split(n)
<1> DEFINE largest == CHOOSE f : f = [k \in Nat \ {0} |-> IF 2 * k < n THEN f[2 * k] ELSE k]
<1>1. Split(n) = largest[1]
  BY DEF Split
<1>2. Doubling(largest, n)
  BY DoublingExists DEF Doubling
<1> HIDE DEF largest
<1>3. \A k \in Nat \ {0} : largest[k] = IF 2 * k < n THEN largest[2 * k] ELSE k
  BY <1>2 DEF Doubling
<1> DEFINE Good(k) == largest[k] \in Powers /\ largest[k] < n /\ n <= 2 * largest[k]
           Left == {d \in Nat : \E k \in Powers : k < n /\ d = n - k /\ ~ Good(k)}
<1>4. Left = {}
  <2> SUFFICES ASSUME Left # {} PROVE FALSE
    OBVIOUS
  <2>1. PICK d \in Left : \A e \in Left : d <= e
    <3>1. Left \in SUBSET Nat
      OBVIOUS
    <3> HIDE DEF Left
    <3> QED BY <3>1, LeastNumber
  <2>2. PICK k \in Powers : k < n /\ d = n - k /\ ~ Good(k)
    BY <2>1
  <2>3. k \in Nat \ {0} /\ 2 * k \in Powers
    BY PowersAre
  <2>4. CASE 2 * k < n
    <3>1. largest[k] = largest[2 * k]
      BY <1>3, <2>3, <2>4
    <3>2. n - 2 * k \in Nat /\ n - 2 * k < d
      BY <2>2, <2>3, <2>4
    <3>3. n - 2 * k \in Left
      BY <2>2, <2>3, <2>4, <3>1, <3>2
    <3> QED BY <2>1, <3>2, <3>3
  <2>5. CASE ~ (2 * k < n)
    <3>1. largest[k] = k
      BY <1>3, <2>3, <2>5
    <3> QED BY <2>2, <2>3, <2>5, <3>1
  <2> QED BY <2>4, <2>5
<1>5. Good(1)
  <2>1. 1 \in Powers /\ n - 1 \in Nat
    BY PowersAre
  <2> QED BY <2>1, <1>4
<1> QED BY <1>1, <1>5

\* A power of two is split in the middle.
LEMMA SplitOfDouble ==
    ASSUME NEW p \in Powers
    PROVE  Split(2 * p) = p
<1>1. p \in Nat \ {0} /\ 2 * p \in Nat /\ 2 * p > 1
  BY PowersAre
<1>2. Split(2 * p) \in Powers /\ Split(2 * p) < 2 * p /\ 2 * p <= 2 * Split(2 * p)
  BY <1>1, SplitIs
<1>3. Split(2 * p) \in Nat /\ p <= Split(2 * p)
  <2>1. Split(2 * p) \in Nat
    BY <1>2, PowersAre
  <2> QED BY <1>1, <1>2, <2>1
<1>4. ASSUME p < Split(2 * p) PROVE FALSE
  <2>1. PICK m \in Nat \ {0} : Split(2 * p) = m * (2 * p)
    BY <1>2, <1>4, PowersApart
  <2>2. m * (2 * p) >= 2 * p
    BY <1>1
  <2> QED BY <1>1, <1>2, <1>3, <2>1, <2>2
<1> QED BY <1>1, <1>3, <1>4

-----------------------------------------------------------------------------
(* The hash of a range: RangeHash. *)

\* The two parts of a range are smaller.
LEMMA SplitParts ==
    ASSUME NEW n \in Nat \ {0}, n # 1
    PROVE  /\ Split(n) \in 1 .. n - 1
           /\ n - Split(n) \in 1 .. n - 1
           /\ n - Split(n) <= Split(n)
           /\ Split(n) \in Nat \ {0} /\ n - Split(n) \in Nat \ {0}
<1>1. Split(n) \in Powers /\ Split(n) < n /\ n <= 2 * Split(n)
  BY SplitIs
<1>2. Split(n) \in Nat \ {0}
  BY <1>1, PowersAre
<1> QED BY <1>1, <1>2

\* What the recursion of RangeHash says of one range.
Turn(hash, leaves, len, start) ==
    IF len = 1 THEN leaves[start + 1]
    ELSE HashNode(hash[Split(len)][start], hash[len - Split(len)][start + Split(len)])

HashesBy(hash, leaves) ==
    hash = [len \in Nat \ {0} |-> [start \in Nat |-> Turn(hash, leaves, len, start)]]

HashesUpTo(hash, leaves, m) ==
    \A len \in 1 .. m : \A start \in Nat : hash[len][start] = Turn(hash, leaves, len, start)

\* One turn asks for shorter ranges only.
LEMMA TurnAgrees ==
    ASSUME NEW g, NEW h, NEW leaves, NEW len \in Nat \ {0}, NEW start \in Nat,
           \A l \in 1 .. len - 1 : \A s \in Nat : g[l][s] = h[l][s]
    PROVE  Turn(g, leaves, len, start) = Turn(h, leaves, len, start)
<1>1. CASE len = 1
  BY <1>1 DEF Turn
<1>2. CASE len # 1
  <2>1. /\ Split(len) \in 1 .. len - 1
        /\ len - Split(len) \in 1 .. len - 1
    BY <1>2, SplitParts
  <2>2. start + Split(len) \in Nat
    BY <2>1
  <2>3. g[Split(len)][start] = h[Split(len)][start]
    BY <2>1
  <2>4. g[len - Split(len)][start + Split(len)] = h[len - Split(len)][start + Split(len)]
    BY <2>1, <2>2
  <2> QED BY <1>2, <2>3, <2>4 DEF Turn
<1> QED BY <1>1, <1>2

\* Two functions with the recursion's values up to m are one up to m.
LEMMA HashesAgree ==
    ASSUME NEW g, NEW h, NEW leaves, NEW m \in Nat,
           HashesUpTo(g, leaves, m), HashesUpTo(h, leaves, m),
           NEW len \in 1 .. m, NEW start \in Nat
    PROVE  g[len][start] = h[len][start]
<1> DEFINE Differ == {l \in 1 .. m : \E s \in Nat : g[l][s] # h[l][s]}
<1>1. Differ = {}
  <2> SUFFICES ASSUME Differ # {} PROVE FALSE
    OBVIOUS
  <2>1. PICK l \in Differ : \A k \in Differ : l <= k
    <3>1. Differ \in SUBSET Nat
      OBVIOUS
    <3> HIDE DEF Differ
    <3> QED BY <3>1, LeastNumber
  <2>2. PICK s \in Nat : g[l][s] # h[l][s]
    BY <2>1
  <2>3. l \in 1 .. m /\ \A k \in 1 .. l - 1 : k \in 1 .. m /\ k \notin Differ
    BY <2>1
  <2>4. \A k \in 1 .. l - 1 : \A t \in Nat : g[k][t] = h[k][t]
    BY <2>3
  <2>5. Turn(g, leaves, l, s) = Turn(h, leaves, l, s)
    <3>1. l \in Nat \ {0}
      BY <2>3
    <3> HIDE DEF Differ
    <3> QED BY <3>1, <2>4, TurnAgrees
  <2> QED BY <2>2, <2>3, <2>5 DEF HashesUpTo
<1> QED BY <1>1

\* Such a function exists for every m, or there would be a least m without one.
LEMMA HashesBegin ==
    ASSUME NEW leaves, NEW m \in Nat
    PROVE  \E hash : HashesUpTo(hash, leaves, m)
<1> DEFINE Missing == {n \in Nat : ~ \E hash : HashesUpTo(hash, leaves, n)}
<1>1. Missing = {}
  <2> SUFFICES ASSUME Missing # {} PROVE FALSE
    OBVIOUS
  <2>1. PICK n \in Missing : \A k \in Missing : n <= k
    <3>1. Missing \in SUBSET Nat
      OBVIOUS
    <3> HIDE DEF Missing
    <3> QED BY <3>1, LeastNumber
  <2>2. n \in Nat /\ ~ \E hash : HashesUpTo(hash, leaves, n)
    BY <2>1
  <2>3. n # 0
    <3>1. \A hash : HashesUpTo(hash, leaves, 0)
      BY DEF HashesUpTo
    <3> QED BY <2>2, <3>1
  <2>4. n - 1 \in Nat /\ n - 1 \notin Missing
    BY <2>1, <2>2, <2>3
  <2>5. PICK h : HashesUpTo(h, leaves, n - 1)
    BY <2>4
  <2> DEFINE g == [l \in 1 .. n |-> [s \in Nat |->
                     IF l = n THEN Turn(h, leaves, n, s) ELSE h[l][s]]]
  <2>6. \A l \in 1 .. n - 1 : \A s \in Nat : g[l][s] = h[l][s]
    BY <2>2
  <2>7. \A s \in Nat : g[n][s] = Turn(h, leaves, n, s)
    BY <2>2, <2>3
  <2> HIDE DEF g
  <2>8. ASSUME NEW l \in 1 .. n, NEW s \in Nat
        PROVE  g[l][s] = Turn(g, leaves, l, s)
    <3>1. l \in Nat \ {0} /\ \A k \in 1 .. l - 1 : k \in 1 .. n - 1
      BY <2>2
    <3>2. \A k \in 1 .. l - 1 : \A t \in Nat : g[k][t] = h[k][t]
      BY <2>6, <3>1
    <3>3. Turn(g, leaves, l, s) = Turn(h, leaves, l, s)
      BY <3>1, <3>2, TurnAgrees
    <3>4. CASE l = n
      BY <2>7, <3>3, <3>4
    <3>5. CASE l # n
      <4>1. l \in 1 .. n - 1
        BY <2>2, <3>5
      <4> QED BY <2>5, <2>6, <3>3, <4>1 DEF HashesUpTo
    <3> QED BY <3>4, <3>5
  <2> QED BY <2>2, <2>8 DEF HashesUpTo
<1> QED BY <1>1

\* The function that the recursion defines exists.
LEMMA HashesExist ==
    ASSUME NEW leaves
    PROVE  \E hash : HashesBy(hash, leaves)
<1> DEFINE h(len) == CHOOSE hash : HashesUpTo(hash, leaves, len)
           w == [len \in Nat \ {0} |-> [start \in Nat |-> h(len)[len][start]]]
<1>1. \A len \in Nat : HashesUpTo(h(len), leaves, len)
  BY HashesBegin
<1> HIDE DEF h
<1>2. ASSUME NEW len \in Nat \ {0}, NEW start \in Nat
      PROVE  w[len][start] = Turn(w, leaves, len, start)
  <2>1. ASSUME NEW l \in 1 .. len - 1, NEW s \in Nat
        PROVE  w[l][s] = h(len)[l][s]
    <3>1. l \in Nat \ {0} /\ l \in 1 .. l /\ \A k \in 1 .. l : k \in 1 .. len
      OBVIOUS
    <3>2. HashesUpTo(h(l), leaves, l) /\ HashesUpTo(h(len), leaves, l)
      BY <1>1, <3>1 DEF HashesUpTo
    <3>3. h(l)[l][s] = h(len)[l][s]
      BY <3>1, <3>2, HashesAgree
    <3> QED BY <3>1, <3>3
  <2>2. Turn(w, leaves, len, start) = Turn(h(len), leaves, len, start)
    <3> HIDE DEF w
    <3> QED BY <2>1, TurnAgrees
  <2>3. w[len][start] = h(len)[len][start] /\ len \in 1 .. len
    OBVIOUS
  <2> QED BY <1>1, <2>2, <2>3 DEF HashesUpTo
<1>3. w = [len \in Nat \ {0} |-> [start \in Nat |-> w[len][start]]]
  OBVIOUS
<1> HIDE DEF w
<1>4. w = [len \in Nat \ {0} |-> [start \in Nat |-> Turn(w, leaves, len, start)]]
  BY <1>2, <1>3
<1> QED BY <1>4 DEF HashesBy

\* The hash of a range is the hash of its two parts.
LEMMA RangeHashIs ==
    ASSUME NEW leaves, NEW len \in Nat \ {0}, NEW start \in Nat
    PROVE  RangeHash(leaves)[len][start] = Turn(RangeHash(leaves), leaves, len, start)
<1>1. RangeHash(leaves) = CHOOSE hash : HashesBy(hash, leaves)
  BY DEF RangeHash, HashesBy, Turn
<1>2. HashesBy(RangeHash(leaves), leaves)
  BY <1>1, HashesExist
<1> DEFINE r == RangeHash(leaves)
<1>3. HashesBy(r, leaves)
  BY <1>2
<1> HIDE DEF r
<1>4. r[len][start] = Turn(r, leaves, len, start)
  BY <1>3 DEF HashesBy
<1> QED BY <1>4 DEF r

\* Two sequences that begin with the same n leaves.
SameLeaves(a, b, n) == \A i \in 1 .. n : a[i] = b[i]

\* The hash of a range says nothing of the leaves outside it.
LEMMA HashIsOfTheRange ==
    ASSUME NEW a, NEW b, NEW n \in Nat, SameLeaves(a, b, n),
           NEW len \in Nat \ {0}, NEW start \in Nat, start + len <= n
    PROVE  RangeHash(a)[len][start] = RangeHash(b)[len][start]
<1> DEFINE f == RangeHash(a)
           g == RangeHash(b)
           Differ == {l \in Nat \ {0} : \E s \in Nat : s + l <= n /\ f[l][s] # g[l][s]}
<1>1. \A l \in Nat \ {0}, s \in Nat :
         /\ f[l][s] = Turn(f, a, l, s)
         /\ g[l][s] = Turn(g, b, l, s)
  BY RangeHashIs
<1> HIDE DEF f, g
<1>2. Differ = {}
  <2> SUFFICES ASSUME Differ # {} PROVE FALSE
    OBVIOUS
  <2>1. PICK l \in Differ : \A k \in Differ : l <= k
    <3>1. Differ \in SUBSET Nat
      OBVIOUS
    <3> HIDE DEF Differ
    <3> QED BY <3>1, LeastNumber
  <2>2. PICK s \in Nat : s + l <= n /\ f[l][s] # g[l][s]
    BY <2>1
  <2>3. l \in Nat \ {0} /\ \A k \in 1 .. l - 1 : k \in Nat \ {0} /\ k \notin Differ
    BY <2>1
  <2>4. \A k \in 1 .. l - 1 : \A t \in Nat : t + k <= n => f[k][t] = g[k][t]
    BY <2>3
  <2>5. CASE l = 1
    <3>1. s + 1 \in 1 .. n
      BY <2>2, <2>5
    <3>2. f[l][s] = Turn(f, a, l, s) /\ g[l][s] = Turn(g, b, l, s)
      BY <1>1, <2>3
    <3>3. Turn(f, a, l, s) = a[s + 1] /\ Turn(g, b, l, s) = b[s + 1]
      BY <2>5 DEF Turn
    <3>4. a[s + 1] = b[s + 1]
      BY <3>1 DEF SameLeaves
    <3> QED BY <2>2, <3>2, <3>3, <3>4
  <2>6. CASE l # 1
    <3>1. Split(l) \in 1 .. l - 1 /\ l - Split(l) \in 1 .. l - 1
      BY <2>3, <2>6, SplitParts
    <3>2. /\ s + Split(l) <= n
          /\ s + Split(l) \in Nat
          /\ (s + Split(l)) + (l - Split(l)) <= n
      BY <2>2, <2>3, <3>1
    <3>3. f[Split(l)][s] = g[Split(l)][s]
      BY <2>4, <3>1, <3>2
    <3>4. f[l - Split(l)][s + Split(l)] = g[l - Split(l)][s + Split(l)]
      BY <2>4, <3>1, <3>2
    <3>5. f[l][s] = Turn(f, a, l, s) /\ g[l][s] = Turn(g, b, l, s)
      BY <1>1, <2>3
    <3>6. Turn(f, a, l, s) = HashNode(f[Split(l)][s], f[l - Split(l)][s + Split(l)])
      BY <2>6 DEF Turn
    <3>7. Turn(g, b, l, s) = HashNode(g[Split(l)][s], g[l - Split(l)][s + Split(l)])
      BY <2>6 DEF Turn
    <3>8. f[l][s] = g[l][s]
      BY <3>3, <3>4, <3>5, <3>6, <3>7
    <3> QED BY <2>2, <3>8
  <2> QED BY <2>5, <2>6
<1>3. f[len][start] = g[len][start]
  BY <1>2
<1> QED BY <1>3 DEF f, g

-----------------------------------------------------------------------------
(* A set of trees *)

\* The sets of trees that are at most so high, over leaves of B.
Grown(g, B, n) == g[0] = B /\ \A k \in 1 .. n : g[k] = g[k - 1] \cup (g[k - 1] \X g[k - 1])

\* There is such a tower of sets, for any height.
LEMMA GrownBegin ==
    ASSUME NEW B, NEW n \in Nat
    PROVE  \E g : Grown(g, B, n)
<1> DEFINE Missing == {m \in Nat : ~ \E g : Grown(g, B, m)}
<1>1. Missing = {}
  <2> SUFFICES ASSUME Missing # {} PROVE FALSE
    OBVIOUS
  <2>1. PICK m \in Missing : \A k \in Missing : m <= k
    <3>1. Missing \in SUBSET Nat
      OBVIOUS
    <3> HIDE DEF Missing
    <3> QED BY <3>1, LeastNumber
  <2>2. m \in Nat /\ ~ \E g : Grown(g, B, m)
    BY <2>1
  <2>3. m # 0
    <3>1. Grown([k \in {0} |-> B], B, 0)
      BY DEF Grown
    <3> QED BY <2>2, <3>1
  <2>4. m - 1 \in Nat /\ m - 1 \notin Missing
    BY <2>1, <2>2, <2>3
  <2>5. PICK h : Grown(h, B, m - 1)
    BY <2>4
  <2> DEFINE top == h[m - 1] \cup (h[m - 1] \X h[m - 1])
             g == [k \in 0 .. m |-> IF k = m THEN top ELSE h[k]]
  <2>6. g[m] = top /\ \A k \in 0 .. m - 1 : g[k] = h[k]
    BY <2>2
  <2>7. g[m] = g[m - 1] \cup (g[m - 1] \X g[m - 1])
    <3>1. m - 1 \in 0 .. m - 1
      BY <2>4
    <3> HIDE DEF g
    <3>2. g[m - 1] = h[m - 1]
      BY <2>6, <3>1
    <3> QED BY <2>6, <3>2
  <2> HIDE DEF g, top
  <2>8. ASSUME NEW k \in 1 .. m PROVE g[k] = g[k - 1] \cup (g[k - 1] \X g[k - 1])
    <3>1. CASE k = m
      BY <2>7, <3>1
    <3>2. CASE k # m
      <4>1. k \in 1 .. m - 1 /\ k \in 0 .. m - 1 /\ k - 1 \in 0 .. m - 1
        BY <2>2, <3>2
      <4>2. g[k] = h[k] /\ g[k - 1] = h[k - 1]
        BY <2>6, <4>1
      <4> QED BY <2>5, <4>1, <4>2 DEF Grown
    <3> QED BY <3>1, <3>2
  <2>9. g[0] = B
    BY <2>4, <2>5, <2>6 DEF Grown
  <2> QED BY <2>2, <2>8, <2>9 DEF Grown
<1> QED BY <1>1

\* Two towers on the same leaves are one, as far as both reach.
LEMMA GrownAgree ==
    ASSUME NEW B, NEW m \in Nat, NEW n \in Nat, NEW g, NEW h, Grown(g, B, m), Grown(h, B, n),
           NEW k \in Nat, k <= m, k <= n
    PROVE  g[k] = h[k]
<1> DEFINE Differ == {l \in Nat : l <= m /\ l <= n /\ g[l] # h[l]}
<1>1. Differ = {}
  <2> SUFFICES ASSUME Differ # {} PROVE FALSE
    OBVIOUS
  <2>1. PICK l \in Differ : \A j \in Differ : l <= j
    <3>1. Differ \in SUBSET Nat
      OBVIOUS
    <3> HIDE DEF Differ
    <3> QED BY <3>1, LeastNumber
  <2>2. l \in Nat /\ l <= m /\ l <= n /\ g[l] # h[l]
    BY <2>1
  <2>3. l # 0
    BY <2>2 DEF Grown
  <2>4. l - 1 \in Nat /\ l - 1 \notin Differ /\ l \in 1 .. m /\ l \in 1 .. n
    BY <2>1, <2>2, <2>3
  <2>5. g[l - 1] = h[l - 1]
    BY <2>2, <2>4
  <2> HIDE DEF Differ
  <2>6. g[l] = g[l - 1] \cup (g[l - 1] \X g[l - 1])
    BY <2>4 DEF Grown
  <2>7. h[l] = h[l - 1] \cup (h[l - 1] \X h[l - 1])
    BY <2>4 DEF Grown
  <2> QED BY <2>2, <2>5, <2>6, <2>7
<1> QED BY <1>1

\* There is a set with these leaves in it and the hash of every two of its members.
LEMMA TreesExist ==
    ASSUME NEW B
    PROVE  \E U : B \subseteq U /\ \A l, r \in U : HashNode(l, r) \in U
<1> DEFINE g(n) == CHOOSE h : Grown(h, B, n)
           T(n) == g(n)[n]
           U == UNION {T(n) : n \in Nat}
<1>1. \A n \in Nat : Grown(g(n), B, n)
  BY GrownBegin
<1> HIDE DEF g
<1>2. T(0) = B
  BY <1>1 DEF Grown
<1>3. ASSUME NEW n \in Nat PROVE T(n + 1) = T(n) \cup (T(n) \X T(n))
  <2>1. n + 1 \in Nat /\ n + 1 \in 1 .. n + 1 /\ (n + 1) - 1 = n /\ n <= n + 1
    OBVIOUS
  <2>2. g(n + 1)[n + 1] = g(n + 1)[n] \cup (g(n + 1)[n] \X g(n + 1)[n])
    BY <1>1, <2>1 DEF Grown
  <2>3. g(n + 1)[n] = g(n)[n]
    BY <1>1, <2>1, GrownAgree
  <2> QED BY <2>2, <2>3
<1> HIDE DEF T
<1>4. ASSUME NEW m \in Nat, NEW n \in Nat, m <= n PROVE T(m) \subseteq T(n)
  <2> DEFINE Beyond == {k \in Nat : m <= k /\ ~ (T(m) \subseteq T(k))}
  <2>1. Beyond = {}
    <3> SUFFICES ASSUME Beyond # {} PROVE FALSE
      OBVIOUS
    <3>1. PICK k \in Beyond : \A j \in Beyond : k <= j
      <4>1. Beyond \in SUBSET Nat
        OBVIOUS
      <4> HIDE DEF Beyond
      <4> QED BY <4>1, LeastNumber
    <3>2. k \in Nat /\ m <= k /\ ~ (T(m) \subseteq T(k)) /\ k # m
      BY <3>1
    <3>3. k - 1 \in Nat /\ m <= k - 1 /\ k - 1 \notin Beyond
      BY <3>1, <3>2
    <3>4. T(m) \subseteq T(k - 1)
      BY <3>3
    <3>5. T(k) = T(k - 1) \cup (T(k - 1) \X T(k - 1))
      BY <1>3, <3>3, (k - 1) + 1 = k
    <3> QED BY <3>2, <3>4, <3>5
  <2> QED BY <2>1, <1>4
<1>5. B \subseteq U
  BY <1>2, 0 \in Nat
<1>6. ASSUME NEW l \in U, NEW r \in U PROVE HashNode(l, r) \in U
  <2>1. PICK m \in Nat : l \in T(m)
    OBVIOUS
  <2>2. PICK n \in Nat : r \in T(n)
    OBVIOUS
  <2>3. PICK k \in Nat : m <= k /\ n <= k
    <3>1. m <= n \/ n <= m
      OBVIOUS
    <3> QED BY <3>1
  <2>4. l \in T(k) /\ r \in T(k)
    BY <1>4, <2>1, <2>2, <2>3
  <2>5. <<l, r>> \in T(k + 1) /\ k + 1 \in Nat
    BY <1>3, <2>4
  <2> QED BY <2>5 DEF HashNode
<1> QED BY <1>5, <1>6

-----------------------------------------------------------------------------
(* Proofs of inclusion *)

\* The hashes of the ranges of a sequence of leaves.
RangeHashes(leaves) == {RangeHash(leaves)[at[1]][at[2]] : at \in (Nat \ {0}) \X Nat}

\* The hash of a range is one of them.
LEMMA RangeHashIn ==
    ASSUME NEW leaves, NEW len \in Nat \ {0}, NEW start \in Nat
    PROVE  RangeHash(leaves)[len][start] \in RangeHashes(leaves)
<1>1. <<len, start>> \in (Nat \ {0}) \X Nat /\ <<len, start>>[1] = len /\ <<len, start>>[2] = start
  OBVIOUS
<1> QED BY <1>1 DEF RangeHashes

\* What the recursion of InclusionPath says of one range.
PathTurn(path, leaves, index, len, start) ==
    IF len = 1 THEN <<>>
    ELSE IF index - start < Split(len)
         THEN Append(path[Split(len)][start], RangeHash(leaves)[len - Split(len)][start + Split(len)])
         ELSE Append(path[len - Split(len)][start + Split(len)], RangeHash(leaves)[Split(len)][start])

PathBy(path, leaves, index) ==
    path = [len \in Nat \ {0} |-> [start \in Nat |-> PathTurn(path, leaves, index, len, start)]]

\* There is a function that satisfies the recursion of InclusionPath (log.ts:25-33).
LEMMA PathExists ==
    ASSUME NEW leaves, NEW index
    PROVE  \E path : PathBy(path, leaves, index)
<1> DEFINE W == Seq(RangeHashes(leaves))
           V == [Nat -> W]
           step == [len \in Nat \ {0} |-> [g \in [Nat \ {0} -> V] |->
                       [start \in Nat |-> PathTurn(g, leaves, index, len, start)]]]
<1>1. (Nat \ {0}) \in SUBSET Nat /\ V # {}
  <2>1. [start \in Nat |-> <<>>] \in V
    OBVIOUS
  <2> QED BY <2>1
<1>2. ASSUME NEW len \in Nat \ {0}, NEW g \in [Nat \ {0} -> V], NEW start \in Nat
      PROVE  PathTurn(g, leaves, index, len, start) \in W
  <2>1. CASE len = 1
    BY <2>1 DEF PathTurn
  <2>2. CASE len # 1
    <3>1. Split(len) \in Nat \ {0} /\ len - Split(len) \in Nat \ {0}
      BY <2>2, SplitParts
    <3> HIDE DEF V, W
    <3>9. start + Split(len) \in Nat
      BY <3>1
    <3> USE DEF V, W
    <3>2. /\ g[Split(len)][start] \in W
          /\ g[len - Split(len)][start + Split(len)] \in W
          /\ RangeHash(leaves)[Split(len)][start] \in RangeHashes(leaves)
          /\ RangeHash(leaves)[len - Split(len)][start + Split(len)] \in RangeHashes(leaves)
      BY <3>1, <3>9, RangeHashIn
    <3> QED BY <2>2, <3>2 DEF PathTurn
  <2> QED BY <2>1, <2>2
<1>3. step \in [Nat \ {0} -> [[Nat \ {0} -> V] -> V]]
  BY <1>2
<1>4. LooksBack(step, Nat \ {0}, V)
  <2> SUFFICES ASSUME NEW len \in Nat \ {0}, NEW g \in [Nat \ {0} -> V], NEW h \in [Nat \ {0} -> V],
                      \A k \in Nat \ {0} : k < len => g[k] = h[k]
               PROVE  step[len][g] = step[len][h]
    BY DEF LooksBack
  <2>1. ASSUME NEW start \in Nat
        PROVE  PathTurn(g, leaves, index, len, start) = PathTurn(h, leaves, index, len, start)
    <3>1. CASE len = 1
      BY <3>1 DEF PathTurn
    <3>2. CASE len # 1
      <4>1. Split(len) \in 1 .. len - 1 /\ len - Split(len) \in 1 .. len - 1
        BY <3>2, SplitParts
      <4>2. \A k \in 1 .. len - 1 : k \in Nat \ {0} /\ k < len
        OBVIOUS
      <4>3. g[Split(len)] = h[Split(len)] /\ g[len - Split(len)] = h[len - Split(len)]
        BY <4>1, <4>2
      <4> QED BY <4>3 DEF PathTurn
    <3> QED BY <3>1, <3>2
  <2> QED BY <2>1
<1> HIDE DEF step, V
<1>5. PICK path \in [Nat \ {0} -> V] : Solves(path, step, Nat \ {0})
  BY <1>1, <1>3, <1>4, Recursion
<1>6. \A len \in Nat \ {0} : step[len][path] = [start \in Nat |-> PathTurn(path, leaves, index, len, start)]
  BY <1>5 DEF step
<1>7. PathBy(path, leaves, index)
  BY <1>5, <1>6 DEF PathBy, Solves
<1> QED BY <1>7

\* The proof in a range is the proof in the half with the leaf and the hash of the
\* other half.
LEMMA InclusionPathIs ==
    ASSUME NEW leaves, NEW index, NEW len \in Nat \ {0}, NEW start \in Nat
    PROVE  InclusionPath(leaves, index)[len][start]
             = PathTurn(InclusionPath(leaves, index), leaves, index, len, start)
<1>1. InclusionPath(leaves, index) = CHOOSE path : PathBy(path, leaves, index)
  BY DEF InclusionPath, PathBy, PathTurn
<1>2. PathBy(InclusionPath(leaves, index), leaves, index)
  BY <1>1, PathExists
<1> DEFINE path == InclusionPath(leaves, index)
<1>3. PathBy(path, leaves, index)
  BY <1>2
<1> HIDE DEF path
<1>4. path[len][start] = PathTurn(path, leaves, index, len, start)
  BY <1>3 DEF PathBy
<1> QED BY <1>4 DEF path

\* It is a sequence of hashes of ranges.
LEMMA InclusionPathType ==
    ASSUME NEW leaves, NEW index, NEW len \in Nat \ {0}, NEW start \in Nat
    PROVE  InclusionPath(leaves, index)[len][start] \in Seq(RangeHashes(leaves))
<1> DEFINE path == InclusionPath(leaves, index)
           Good == {l \in Nat : l # 0 => \A s \in Nat : path[l][s] \in Seq(RangeHashes(leaves))}
<1>1. ASSUME NEW l \in Nat, \A k \in Nat : k < l => k \in Good
      PROVE  l \in Good
  <2> SUFFICES ASSUME l # 0, NEW s \in Nat
               PROVE  path[l][s] \in Seq(RangeHashes(leaves))
    OBVIOUS
  <2>1. path[l][s] = PathTurn(path, leaves, index, l, s)
    BY InclusionPathIs
  <2>2. CASE l = 1
    BY <2>1, <2>2 DEF PathTurn
  <2>3. CASE l # 1
    <3>1. Split(l) \in 1 .. l - 1 /\ l - Split(l) \in 1 .. l - 1 /\ s + Split(l) \in Nat
      BY <2>3, SplitParts
    <3>2. /\ path[Split(l)][s] \in Seq(RangeHashes(leaves))
          /\ path[l - Split(l)][s + Split(l)] \in Seq(RangeHashes(leaves))
      BY <1>1, <3>1
    <3>3. /\ RangeHash(leaves)[Split(l)][s] \in RangeHashes(leaves)
          /\ RangeHash(leaves)[l - Split(l)][s + Split(l)] \in RangeHashes(leaves)
      BY <3>1, RangeHashIn
    <3> HIDE DEF path
    <3> QED BY <2>1, <2>3, <3>2, <3>3 DEF PathTurn
  <2> QED BY <2>2, <2>3
<1>2. Good \in SUBSET Nat
  OBVIOUS
<1> HIDE DEF Good
<1>3. len \in Good
  BY <1>1, <1>2, AllNumbers
<1> QED BY <1>3 DEF Good

-----------------------------------------------------------------------------

(* Levels of a tree *)

Smaller(a, b) == IF a <= b THEN a ELSE b

\* The node at place j of the level where nodes stand for w leaves, and the part of
\* a proof of inclusion that belongs below it.
NodeAt(leaves, size, w, j)         == RangeHash(leaves)[Smaller(w, size - j * w)][j * w]
PathAt(leaves, index, size, w, j)  == InclusionPath(leaves, index)[Smaller(w, size - j * w)][j * w]

\* Products keep the order of their factors.
LEMMA TimesOrder ==
    ASSUME NEW a \in Nat, NEW b \in Nat, a <= b, NEW w \in Nat
    PROVE  a * w \in Nat /\ b * w \in Nat /\ a * w <= b * w
<1>1. PICK d \in Nat : b = a + d
  <2>1. b - a \in Nat /\ b = a + (b - a)
    OBVIOUS
  <2> QED BY <2>1
<1>2. b * w = a * w + d * w /\ d * w \in Nat /\ a * w \in Nat
  BY <1>1
<1> QED BY <1>2

\* Half the place, at the double width.
LEMMA HalfPlace ==
    ASSUME NEW j \in Nat, NEW w \in Nat
    PROVE  /\ j \div 2 \in Nat /\ j * w \in Nat /\ (j \div 2) * (2 * w) \in Nat
           /\ j % 2 = 1 => j * w = (j \div 2) * (2 * w) + w /\ (j - 1) * w = (j \div 2) * (2 * w) /\ j - 1 \in Nat
           /\ j % 2 # 1 => j * w = (j \div 2) * (2 * w)
           /\ (j + 1) * w = j * w + w
<1>1. j \div 2 \in Nat /\ j % 2 \in {0, 1}
  OBVIOUS
<1> DEFINE h == j \div 2
<1>2. j = 2 * h + (j % 2)
  OBVIOUS
<1> HIDE DEF h
<1>3. h \in Nat /\ h * (2 * w) = (2 * h) * w /\ (2 * h) * w \in Nat
  BY <1>1 DEF h
<1>4. (2 * h + 1) * w = (2 * h) * w + w
  BY <1>3
<1>5. CASE j % 2 = 1
  <2>1. j = 2 * h + 1 /\ j - 1 = 2 * h
    BY <1>2, <1>3, <1>5
  <2>2. j * w = (2 * h) * w + w /\ (j - 1) * w = (2 * h) * w
    BY <1>4, <2>1
  <2>3. (j + 1) * w = j * w + w
    OBVIOUS
  <2> QED BY <1>3, <1>5, <2>1, <2>2, <2>3 DEF h
<1>6. CASE j % 2 # 1
  <2>1. j = 2 * h
    BY <1>1, <1>2, <1>3, <1>6
  <2>2. j * w = (2 * h) * w
    BY <2>1
  <2>3. (j + 1) * w = j * w + w
    OBVIOUS
  <2> QED BY <1>3, <1>6, <2>2, <2>3 DEF h
<1> QED BY <1>5, <1>6

\* A range of more than w and at most twice w leaves is split after w.
LEMMA SplitAt ==
    ASSUME NEW w \in Powers, NEW len \in Nat, w < len, len <= 2 * w
    PROVE  Split(len) = w /\ len # 1 /\ len \in Nat \ {0}
<1>1. w \in Nat \ {0} /\ len > 1
  BY PowersAre
<1>2. Split(len) \in Powers /\ Split(len) < len /\ len <= 2 * Split(len) /\ Split(len) \in Nat \ {0}
  <2>1. Split(len) \in Powers /\ Split(len) < len /\ len <= 2 * Split(len)
    BY <1>1, SplitIs
  <2> QED BY <2>1, PowersAre
<1>3. ~ (Split(len) < w)
  <2> SUFFICES ASSUME Split(len) < w PROVE FALSE
    OBVIOUS
  <2>1. PICK m \in Nat \ {0} : w = m * (2 * Split(len))
    BY <1>2, PowersApart
  <2>2. m * (2 * Split(len)) >= 2 * Split(len)
    BY <1>2
  <2> QED BY <1>1, <1>2, <2>1, <2>2
<1>4. ~ (w < Split(len))
  <2> SUFFICES ASSUME w < Split(len) PROVE FALSE
    OBVIOUS
  <2>1. PICK m \in Nat \ {0} : Split(len) = m * (2 * w)
    BY <1>2, PowersApart
  <2>2. m * (2 * w) >= 2 * w
    BY <1>1
  <2> QED BY <1>1, <1>2, <2>1, <2>2
<1> QED BY <1>1, <1>2, <1>3, <1>4

\* A node that is no last one on its own, at a start that is a multiple: it has two
\* parts.
LEMMA TwoParts ==
    ASSUME NEW leaves, NEW index, NEW size \in Nat, NEW w \in Powers, NEW s \in Nat, s + w < size,
           NEW len, len = Smaller(2 * w, size - s)
    PROVE  /\ RangeHash(leaves)[len][s]
                = HashNode(RangeHash(leaves)[w][s], RangeHash(leaves)[Smaller(w, size - (s + w))][s + w])
           /\ InclusionPath(leaves, index)[len][s]
                = IF index - s < w
                  THEN Append(InclusionPath(leaves, index)[w][s],
                              RangeHash(leaves)[Smaller(w, size - (s + w))][s + w])
                  ELSE Append(InclusionPath(leaves, index)[Smaller(w, size - (s + w))][s + w],
                              RangeHash(leaves)[w][s])
<1>1. w \in Nat \ {0} /\ 2 * w \in Nat
  BY PowersAre
<1>2. len \in Nat /\ w < len /\ len <= 2 * w /\ len - w = Smaller(w, size - (s + w))
  BY <1>1 DEF Smaller
<1>3. Split(len) = w /\ len # 1 /\ len \in Nat \ {0}
  BY <1>2, SplitAt
<1>4. RangeHash(leaves)[len][s] = Turn(RangeHash(leaves), leaves, len, s)
  BY <1>3, RangeHashIs
<1>5. InclusionPath(leaves, index)[len][s] = PathTurn(InclusionPath(leaves, index), leaves, index, len, s)
  BY <1>3, InclusionPathIs
<1> QED BY <1>2, <1>3, <1>4, <1>5 DEF Turn, PathTurn

\* One level up: an odd place has its neighbour on the left, an even one on the
\* right unless it is the last, which is the same node on the next level.
OneLevelUp(leaves, index, size, w, j, half) ==
    LET node == NodeAt(leaves, size, w, j)
        path == PathAt(leaves, index, size, w, j)
        up   == NodeAt(leaves, size, 2 * w, half)
        over == PathAt(leaves, index, size, 2 * w, half)
        prev == NodeAt(leaves, size, w, j - 1)
        next == NodeAt(leaves, size, w, j + 1) IN
    /\ half * (2 * w) <= index /\ index < half * (2 * w) + 2 * w
    /\ j % 2 = 1 => up = HashNode(prev, node) /\ over = Append(path, prev)
    /\ j % 2 # 1 /\ (j + 1) * w < size => up = HashNode(node, next) /\ over = Append(path, next)
    /\ j % 2 # 1 /\ ~ ((j + 1) * w < size) => up = node /\ over = path

\* That holds wherever the index is below the node.
LEMMA LevelUp ==
    ASSUME NEW leaves, NEW index \in Nat, NEW size \in Nat, NEW w \in Powers, NEW j \in Nat,
           index < size, j * w <= index, index < j * w + w,
           NEW half, half = j \div 2
    PROVE  OneLevelUp(leaves, index, size, w, j, half)
<1> DEFINE s == half * (2 * w)
           len == Smaller(2 * w, size - s)
           hash(l, t) == RangeHash(leaves)[l][t]
           path(l, t) == InclusionPath(leaves, index)[l][t]
<1>1. w \in Nat \ {0} /\ 2 * w \in Nat
  BY PowersAre
<1>2. /\ half \in Nat /\ j * w \in Nat /\ s \in Nat
      /\ j % 2 = 1 => j * w = s + w /\ (j - 1) * w = s /\ j - 1 \in Nat
      /\ j % 2 # 1 => j * w = s
      /\ (j + 1) * w = j * w + w
  BY <1>1, HalfPlace
<1>3. /\ NodeAt(leaves, size, 2 * w, half) = hash(len, s)
      /\ PathAt(leaves, index, size, 2 * w, half) = path(len, s)
  BY DEF NodeAt, PathAt
<1>4. /\ NodeAt(leaves, size, w, j) = hash(Smaller(w, size - j * w), j * w)
      /\ PathAt(leaves, index, size, w, j) = path(Smaller(w, size - j * w), j * w)
  BY DEF NodeAt, PathAt
<1>5. /\ NodeAt(leaves, size, w, j - 1) = hash(Smaller(w, size - (j - 1) * w), (j - 1) * w)
      /\ NodeAt(leaves, size, w, j + 1) = hash(Smaller(w, size - (j + 1) * w), (j + 1) * w)
  BY DEF NodeAt
<1> DEFINE next == NodeAt(leaves, size, w, j + 1)
           prev == NodeAt(leaves, size, w, j - 1)
           node == NodeAt(leaves, size, w, j)
           up   == NodeAt(leaves, size, 2 * w, half)
           part == PathAt(leaves, index, size, w, j)
           whole == PathAt(leaves, index, size, 2 * w, half)
<1> HIDE DEF next, prev, node, up, part, whole, s
<1>8. ASSUME s + w < size
      PROVE  /\ hash(len, s) = HashNode(hash(w, s), hash(Smaller(w, size - (s + w)), s + w))
             /\ path(len, s) = IF index - s < w
                               THEN Append(path(w, s), hash(Smaller(w, size - (s + w)), s + w))
                               ELSE Append(path(Smaller(w, size - (s + w)), s + w), hash(w, s))
  <2> DEFINE l == len
  <2>1. l = Smaller(2 * w, size - s)
    OBVIOUS
  <2> HIDE DEF l
  <2>2. s \in Nat
    BY <1>2
  <2>3. /\ RangeHash(leaves)[l][s]
             = HashNode(RangeHash(leaves)[w][s], RangeHash(leaves)[Smaller(w, size - (s + w))][s + w])
        /\ InclusionPath(leaves, index)[l][s]
             = IF index - s < w
               THEN Append(InclusionPath(leaves, index)[w][s],
                           RangeHash(leaves)[Smaller(w, size - (s + w))][s + w])
               ELSE Append(InclusionPath(leaves, index)[Smaller(w, size - (s + w))][s + w],
                           RangeHash(leaves)[w][s])
    BY ONLY size \in Nat, w \in Powers, <1>8, <2>1, <2>2, TwoParts
  <2> QED BY <2>3 DEF l
<1>6. CASE j % 2 = 1
  <2>1. s + w < size /\ ~ (index - s < w) /\ w <= size - s
    BY <1>1, <1>2, <1>6
  <2>2. /\ hash(len, s) = HashNode(hash(w, s), hash(Smaller(w, size - (s + w)), s + w))
        /\ path(len, s) = Append(path(Smaller(w, size - (s + w)), s + w), hash(w, s))
    BY <1>8, <2>1
  <2>3. Smaller(w, size - s) = w
    BY <2>1 DEF Smaller
  <2>4. up = HashNode(prev, node) /\ whole = Append(part, prev)
    BY <1>2, <1>3, <1>4, <1>5, <1>6, <2>2, <2>3 DEF up, whole, prev, node, part
  <2>5. s <= index /\ index < s + 2 * w
    BY <1>1, <1>2, <1>6
  <2> QED BY <1>6, <2>4, <2>5 DEF OneLevelUp, s, up, whole, prev, node, part
<1>7. CASE j % 2 # 1
  <2>1. s <= index /\ index < s + 2 * w /\ index - s < w
    BY <1>1, <1>2, <1>7
  <2>2. CASE (j + 1) * w < size
    <3>1. s + w < size /\ w <= size - s
      BY <1>1, <1>2, <1>7, <2>2
    <3>2. /\ hash(len, s) = HashNode(hash(w, s), hash(Smaller(w, size - (s + w)), s + w))
          /\ path(len, s) = Append(path(w, s), hash(Smaller(w, size - (s + w)), s + w))
      BY <1>8, <2>1, <3>1
    <3>3. Smaller(w, size - s) = w
      BY <3>1 DEF Smaller
    <3>4. up = HashNode(node, next) /\ whole = Append(part, next)
      BY <1>2, <1>3, <1>4, <1>5, <1>7, <3>2, <3>3 DEF up, whole, next, node, part
    <3> QED BY <1>7, <2>1, <2>2, <3>4 DEF OneLevelUp, s, up, whole, next, node, part
  <2>3. CASE ~ ((j + 1) * w < size)
    <3>1. Smaller(2 * w, size - s) = size - s /\ Smaller(w, size - s) = size - s
      BY <1>1, <1>2, <1>7, <2>3 DEF Smaller
    <3>2. up = node /\ whole = part
      BY <1>2, <1>3, <1>4, <1>7, <3>1 DEF up, whole, node, part
    <3> QED BY <1>7, <2>1, <2>3, <3>2 DEF OneLevelUp, s, up, whole, node, part
  <2> QED BY <2>2, <2>3
<1> QED BY <1>6, <1>7

\* A wide enough node is the whole tree.
LEMMA TopLevel ==
    ASSUME NEW leaves, NEW index \in Nat, NEW size \in Nat, NEW w \in Powers, NEW j \in Nat,
           index < size, j * w <= index, size <= w
    PROVE  /\ j = 0
           /\ NodeAt(leaves, size, w, j) = RangeHash(leaves)[size][0]
           /\ PathAt(leaves, index, size, w, j) = InclusionPath(leaves, index)[size][0]
<1>1. w \in Nat \ {0}
  BY PowersAre
<1>2. j = 0
  <2> SUFFICES ASSUME j # 0 PROVE FALSE
    OBVIOUS
  <2>1. 1 * w <= j * w /\ j * w \in Nat
    BY <1>1, TimesOrder
  <2> QED BY <1>1, <2>1
<1>3. j * w = 0 /\ Smaller(w, size - j * w) = size
  BY <1>1, <1>2 DEF Smaller
<1> QED BY <1>2, <1>3 DEF NodeAt, PathAt

\* The leaf itself, and no word.
LEMMA LowestLevel ==
    ASSUME NEW leaves, NEW index \in Nat, NEW size \in Nat, index < size
    PROVE  /\ index * 1 <= index /\ index < index * 1 + 1
           /\ NodeAt(leaves, size, 1, index) = leaves[index + 1]
           /\ PathAt(leaves, index, size, 1, index) = <<>>
<1>1. index * 1 = index /\ Smaller(1, size - index) = 1 /\ 1 \in Nat \ {0}
  BY DEF Smaller
<1>2. RangeHash(leaves)[1][index] = Turn(RangeHash(leaves), leaves, 1, index)
  BY <1>1, RangeHashIs
<1>3. InclusionPath(leaves, index)[1][index] = PathTurn(InclusionPath(leaves, index), leaves, index, 1, index)
  BY <1>1, InclusionPathIs
<1> QED BY <1>1, <1>2, <1>3 DEF NodeAt, PathAt, Turn, PathTurn

\* The place of a node is in the tree.
LEMMA PathAtType ==
    ASSUME NEW leaves, NEW index \in Nat, NEW size \in Nat, NEW w \in Powers, NEW j \in Nat,
           j * w < size
    PROVE  /\ PathAt(leaves, index, size, w, j) \in Seq(RangeHashes(leaves))
           /\ Len(PathAt(leaves, index, size, w, j)) \in Nat
           /\ NodeAt(leaves, size, w, j) \in RangeHashes(leaves)
<1> DEFINE s == j * w
           len == Smaller(w, size - s)
           path == PathAt(leaves, index, size, w, j)
<1>1. s \in Nat
  BY PowersAre
<1> HIDE DEF s
<1>2. len \in Nat \ {0}
  <2>1. s < size /\ w \in Nat \ {0}
    BY PowersAre DEF s
  <2> QED BY <1>1, <2>1 DEF Smaller
<1>3. path \in Seq(RangeHashes(leaves)) /\ NodeAt(leaves, size, w, j) \in RangeHashes(leaves)
  <2> HIDE DEF len
  <2>1. InclusionPath(leaves, index)[len][s] \in Seq(RangeHashes(leaves)) /\ RangeHash(leaves)[len][s] \in RangeHashes(leaves)
    BY <1>1, <1>2, InclusionPathType, RangeHashIn
  <2> QED BY <2>1 DEF PathAt, NodeAt, len, s
<1> HIDE DEF path
<1>4. Len(path) \in Nat
  BY <1>3
<1> QED BY <1>3, <1>4 DEF path

\* The hash of a node is one of a range.
LEMMA NodeAtType ==
    ASSUME NEW leaves, NEW size \in Nat, NEW w \in Powers, NEW j \in Nat, j * w < size
    PROVE  NodeAt(leaves, size, w, j) \in RangeHashes(leaves)
<1>1. /\ NodeAt(leaves, size, w, j) \in RangeHashes(leaves)
      /\ PathAt(leaves, 0, size, w, j) \in Seq(RangeHashes(leaves))
  BY PathAtType
<1> QED BY <1>1

\* A proof has no fewer words than any part of it.
LEMMA PathAtGrows ==
    ASSUME NEW leaves, NEW index \in Nat, NEW size \in Nat, NEW w \in Powers, NEW j \in Nat,
           index < size, j * w <= index, index < j * w + w
    PROVE  Len(PathAt(leaves, index, size, w, j)) <= Len(InclusionPath(leaves, index)[size][0])
<1> DEFINE all == Len(InclusionPath(leaves, index)[size][0])
           part(v, k) == Len(PathAt(leaves, index, size, v, k))
           Good == {d \in Nat : \A v \in Powers : \A k \in Nat :
                      size <= v + d /\ k * v <= index /\ index < k * v + v => part(v, k) <= all}
<1>0. all \in Nat
  <2>1. InclusionPath(leaves, index)[size][0] \in Seq(RangeHashes(leaves))
    BY InclusionPathType
  <2> HIDE DEF all
  <2>2. \A seq \in Seq(RangeHashes(leaves)) : Len(seq) \in Nat
    OBVIOUS
  <2> QED BY <2>1, <2>2 DEF all
<1>1. ASSUME NEW d \in Nat, \A e \in Nat : e < d => e \in Good
      PROVE  d \in Good
  <2> SUFFICES ASSUME NEW v \in Powers, NEW k \in Nat, size <= v + d, k * v <= index, index < k * v + v
               PROVE  part(v, k) <= all
    OBVIOUS
  <2>1. v \in Nat \ {0} /\ 2 * v \in Powers /\ k * v \in Nat /\ k * v < size
    <3>1. v \in Nat \ {0} /\ 2 * v \in Powers
      BY PowersAre
    <3>2. k * v \in Nat
      BY <3>1
    <3> QED BY <3>1, <3>2
  <2>2. CASE size <= v
    <3>1. PathAt(leaves, index, size, v, k) = InclusionPath(leaves, index)[size][0]
      BY <2>2, TopLevel
    <3> QED BY <1>0, <3>1
  <2>3. CASE ~ (size <= v)
    <3> DEFINE half == k \div 2
               low == PathAt(leaves, index, size, v, k)
               up  == PathAt(leaves, index, size, 2 * v, half)
               next == NodeAt(leaves, size, v, k + 1)
               prev == NodeAt(leaves, size, v, k - 1)
    <3>1. /\ half * (2 * v) <= index /\ index < half * (2 * v) + 2 * v
          /\ k % 2 = 1 => up = Append(low, prev)
          /\ k % 2 # 1 /\ (k + 1) * v < size => up = Append(low, next)
          /\ k % 2 # 1 /\ ~ ((k + 1) * v < size) => up = low
      BY LevelUp DEF OneLevelUp
    <3>2. half \in Nat
      OBVIOUS
    <3>3. part(2 * v, half) <= all
      <4>1. d - 1 \in Nat /\ d - 1 < d /\ size <= 2 * v + (d - 1)
        BY <2>1, <2>3
      <4>2. d - 1 \in Good
        BY <1>1, <4>1
      <4> HIDE DEF half, part, all
      <4>3. part(2 * v, half) <= all
        BY <2>1, <3>1, <3>2, <4>1, <4>2
      <4> QED BY <4>3
    <3>4. low \in Seq(RangeHashes(leaves)) /\ Len(low) \in Nat
      BY <2>1, PathAtType
    <3>5. \A x : Len(Append(low, x)) = Len(low) + 1
      <4> HIDE DEF low
      <4> QED BY <3>4
    <3>6. Len(low) <= Len(up) /\ Len(up) \in Nat
      <4> HIDE DEF low, up, next, prev
      <4>1. up = low \/ up = Append(low, next) \/ up = Append(low, prev)
        BY <3>1
      <4> QED BY <3>4, <3>5, <4>1
    <3> HIDE DEF low, up, all
    <3>7. Len(up) <= all
      BY <3>3 DEF up
    <3>8. Len(low) <= all
      BY <1>0, <3>4, <3>6, <3>7
    <3> QED BY <3>8 DEF low
  <2> QED BY <2>2, <2>3
<1>2. Good \in SUBSET Nat
  OBVIOUS
<1> HIDE DEF all, part
<1>3. size \in Good
  <2> HIDE DEF Good
  <2> QED BY <1>1, <1>2, AllNumbers
<1>4. size <= w + size
  BY PowersAre
<1>5. part(w, j) <= all
  BY <1>3, <1>4
<1> QED BY <1>5 DEF part, all

-----------------------------------------------------------------------------
(* Proofs of consistency, by recursion: log.ts *)

\* What the recursion of ConsistencyPath says of one range.
PrefixTurn(path, leaves, len, start, left) ==
    IF left = len THEN IF start = 0 THEN <<>> ELSE <<RangeHash(leaves)[len][start]>>
    ELSE IF left <= Split(len)
         THEN Append(path[Split(len)][start][left], RangeHash(leaves)[len - Split(len)][start + Split(len)])
         ELSE Append(path[len - Split(len)][start + Split(len)][left - Split(len)],
                     RangeHash(leaves)[Split(len)][start])

PrefixBy(path, leaves) ==
    path = [len \in Nat \ {0} |-> [start \in Nat |-> [left \in 1 .. len |->
              PrefixTurn(path, leaves, len, start, left)]]]

\* What the halves give is a sequence of hashes.
PrefixTyped(path, leaves, len) ==
    \A start \in Nat : \A left \in 1 .. len : path[len][start][left] \in Seq(RangeHashes(leaves))

\* If they do so for shorter ranges, they do so for this one.
LEMMA PrefixTurnType ==
    ASSUME NEW path, NEW leaves, NEW len \in Nat \ {0},
           \A l \in 1 .. len - 1 : PrefixTyped(path, leaves, l),
           NEW start \in Nat, NEW left \in 1 .. len
    PROVE  PrefixTurn(path, leaves, len, start, left) \in Seq(RangeHashes(leaves))
<1>1. CASE left = len
  <2>1. RangeHash(leaves)[len][start] \in RangeHashes(leaves)
    BY RangeHashIn
  <2>2. <<RangeHash(leaves)[len][start]>> \in Seq(RangeHashes(leaves)) /\ <<>> \in Seq(RangeHashes(leaves))
    BY <2>1
  <2> QED BY <1>1, <2>2 DEF PrefixTurn
<1>2. CASE left # len
  <2> DEFINE k == Split(len)
  <2>1. k \in 1 .. len - 1 /\ len - k \in 1 .. len - 1 /\ k \in Nat \ {0} /\ len - k \in Nat \ {0} /\ start + k \in Nat
    <3>1. len # 1
      BY <1>2
    <3> QED BY <3>1, SplitParts
  <2>2. /\ RangeHash(leaves)[k][start] \in RangeHashes(leaves)
        /\ RangeHash(leaves)[len - k][start + k] \in RangeHashes(leaves)
    BY <2>1, RangeHashIn
  <2>3. PrefixTyped(path, leaves, k) /\ PrefixTyped(path, leaves, len - k)
    BY <2>1
  <2> HIDE DEF k
  <2>4. CASE left <= k
    <3>1. left \in 1 .. k
      BY <2>1, <2>4
    <3>2. path[k][start][left] \in Seq(RangeHashes(leaves))
      BY <2>3, <3>1 DEF PrefixTyped
    <3>3. Append(path[k][start][left], RangeHash(leaves)[len - k][start + k]) \in Seq(RangeHashes(leaves))
      BY <2>2, <3>2, AppendProperties
    <3> QED BY <1>2, <2>4, <3>3 DEF PrefixTurn, k
  <2>5. CASE ~ (left <= k)
    <3>1. left - k \in 1 .. len - k
      BY <1>2, <2>1, <2>5
    <3>2. path[len - k][start + k][left - k] \in Seq(RangeHashes(leaves))
      BY <2>1, <2>3, <3>1 DEF PrefixTyped
    <3>3. Append(path[len - k][start + k][left - k], RangeHash(leaves)[k][start]) \in Seq(RangeHashes(leaves))
      BY <2>2, <3>2, AppendProperties
    <3> QED BY <1>2, <2>5, <3>3 DEF PrefixTurn, k
  <2> QED BY <2>4, <2>5
<1> QED BY <1>1, <1>2

\* One turn asks for shorter ranges only.
LEMMA PrefixTurnAgrees ==
    ASSUME NEW g, NEW h, NEW leaves, NEW len \in Nat \ {0}, NEW start, NEW left \in 1 .. len,
           \A l \in 1 .. len - 1 : g[l] = h[l]
    PROVE  PrefixTurn(g, leaves, len, start, left) = PrefixTurn(h, leaves, len, start, left)
<1>1. CASE left = len
  BY <1>1 DEF PrefixTurn
<1>2. CASE left # len
  <2>1. len # 1
    BY <1>2
  <2>2. Split(len) \in 1 .. len - 1 /\ len - Split(len) \in 1 .. len - 1
    BY <2>1, SplitParts
  <2>3. g[Split(len)] = h[Split(len)] /\ g[len - Split(len)] = h[len - Split(len)]
    BY <2>2
  <2> QED BY <1>2, <2>3 DEF PrefixTurn
<1> QED BY <1>1, <1>2

\* The function that the recursion defines exists: one whose turns are typed by force
\* exists, and its turns are typed anyway.
LEMMA PrefixExists ==
    ASSUME NEW leaves
    PROVE  \E path : PrefixBy(path, leaves)
<1> DEFINE W == Seq(RangeHashes(leaves))
           V == [Nat -> UNION {[1 .. l -> W] : l \in Nat}]
           typed(x) == IF x \in W THEN x ELSE <<>>
           row(g, len) == [start \in Nat |-> [left \in 1 .. len |-> typed(PrefixTurn(g, leaves, len, start, left))]]
           step == [len \in Nat \ {0} |-> [g \in [Nat \ {0} -> V] |-> row(g, len)]]
<1>1. (Nat \ {0}) \in SUBSET Nat
  OBVIOUS
<1>2. \A x : typed(x) \in W
  OBVIOUS
<1>3. ASSUME NEW g, NEW len \in Nat \ {0} PROVE row(g, len) \in V
  <2>1. ASSUME NEW start \in Nat
        PROVE  [left \in 1 .. len |-> typed(PrefixTurn(g, leaves, len, start, left))] \in UNION {[1 .. l -> W] : l \in Nat}
    <3>1. [left \in 1 .. len |-> typed(PrefixTurn(g, leaves, len, start, left))] \in [1 .. len -> W]
      <4> HIDE DEF typed, W
      <4> QED BY <1>2
    <3> QED BY <3>1
  <2> QED BY <2>1
<1> HIDE DEF V
<1>4. V # {}
  <2>1. 1 \in Nat \ {0}
    OBVIOUS
  <2> QED BY <1>3, <2>1
<1> HIDE DEF row
<1>5. step \in [Nat \ {0} -> [[Nat \ {0} -> V] -> V]]
  BY <1>3
<1>6. LooksBack(step, Nat \ {0}, V)
  <2> SUFFICES ASSUME NEW len \in Nat \ {0}, NEW g \in [Nat \ {0} -> V], NEW h \in [Nat \ {0} -> V],
                      \A k \in Nat \ {0} : k < len => g[k] = h[k]
               PROVE  step[len][g] = step[len][h]
    BY DEF LooksBack
  <2>1. \A k \in 1 .. len - 1 : g[k] = h[k]
    OBVIOUS
  <2>2. ASSUME NEW start \in Nat, NEW left \in 1 .. len
        PROVE  PrefixTurn(g, leaves, len, start, left) = PrefixTurn(h, leaves, len, start, left)
    BY <2>1, PrefixTurnAgrees
  <2> HIDE DEF typed
  <2>3. row(g, len) = row(h, len)
    BY <2>2 DEF row
  <2> QED BY <2>3
<1> HIDE DEF step
<1>7. PICK path \in [Nat \ {0} -> V] : Solves(path, step, Nat \ {0})
  BY <1>1, <1>4, <1>5, <1>6, Recursion
<1>8. \A len \in Nat \ {0} : path[len] = row(path, len)
  BY <1>7 DEF step, Solves
<1> DEFINE Typed == {l \in Nat : l # 0 => PrefixTyped(path, leaves, l)}
<1>9. \A l \in Nat : l \in Typed
  <2>1. ASSUME NEW l \in Nat PROVE l \in Typed
    <3> SUFFICES ASSUME l # 0 PROVE PrefixTyped(path, leaves, l)
      OBVIOUS
    <3>1. path[l] = row(path, l)
      BY <1>8
    <3>2. ASSUME NEW start \in Nat, NEW left \in 1 .. l
          PROVE  path[l][start][left] = typed(PrefixTurn(path, leaves, l, start, left))
      <4> HIDE DEF typed
      <4> QED BY <3>1 DEF row
    <3> HIDE DEF typed
    <3> QED BY <1>2, <3>2 DEF PrefixTyped
  <2> QED BY <2>1
<1>10. ASSUME NEW len \in Nat \ {0}, NEW start \in Nat, NEW left \in 1 .. len
       PROVE  typed(PrefixTurn(path, leaves, len, start, left)) = PrefixTurn(path, leaves, len, start, left)
  <2>1. \A l \in 1 .. len - 1 : PrefixTyped(path, leaves, l)
    BY <1>9
  <2>2. PrefixTurn(path, leaves, len, start, left) \in W
    BY <2>1, PrefixTurnType
  <2> QED BY <2>2
<1> HIDE DEF typed
<1>11. \A len \in Nat \ {0} :
          row(path, len) = [start \in Nat |-> [left \in 1 .. len |-> PrefixTurn(path, leaves, len, start, left)]]
  BY <1>10 DEF row
<1>12. path = [len \in Nat \ {0} |-> path[len]]
  OBVIOUS
<1>13. PrefixBy(path, leaves)
  BY <1>8, <1>11, <1>12 DEF PrefixBy
<1> QED BY <1>13

\* The proof in a range is the proof in the half where the prefix ends, and the
\* hash of the other half.
LEMMA ConsistencyPathIs ==
    ASSUME NEW leaves, NEW len \in Nat \ {0}, NEW start \in Nat, NEW left \in 1 .. len
    PROVE  ConsistencyPath(leaves)[len][start][left]
             = PrefixTurn(ConsistencyPath(leaves), leaves, len, start, left)
<1>1. ConsistencyPath(leaves) = CHOOSE path : PrefixBy(path, leaves)
  BY DEF ConsistencyPath, PrefixBy, PrefixTurn
<1>2. PrefixBy(ConsistencyPath(leaves), leaves)
  BY <1>1, PrefixExists
<1> DEFINE path == ConsistencyPath(leaves)
<1>3. PrefixBy(path, leaves)
  BY <1>2
<1> HIDE DEF path
<1> DEFINE turn(l, s, f) == PrefixTurn(path, leaves, l, s, f)
<1>5. path = [l \in Nat \ {0} |-> [s \in Nat |-> [f \in 1 .. l |-> turn(l, s, f)]]]
  BY <1>3 DEF PrefixBy
<1> HIDE DEF turn
<1>6. path[len] = [s \in Nat |-> [f \in 1 .. len |-> turn(len, s, f)]]
  BY <1>5
<1>7. path[len][start] = [f \in 1 .. len |-> turn(len, start, f)]
  BY <1>6
<1>4. path[len][start][left] = PrefixTurn(path, leaves, len, start, left)
  BY <1>7 DEF turn
<1> QED BY <1>4 DEF path

\* It is a sequence of hashes of ranges.
LEMMA ConsistencyPathType ==
    ASSUME NEW leaves, NEW len \in Nat \ {0}, NEW start \in Nat, NEW left \in 1 .. len
    PROVE  ConsistencyPath(leaves)[len][start][left] \in Seq(RangeHashes(leaves))
<1> DEFINE path == ConsistencyPath(leaves)
           Good == {l \in Nat : l # 0 => PrefixTyped(path, leaves, l)}
<1>1. ASSUME NEW l \in Nat, \A k \in Nat : k < l => k \in Good
      PROVE  l \in Good
  <2> SUFFICES ASSUME l # 0, NEW s \in Nat, NEW f \in 1 .. l
               PROVE  path[l][s][f] \in Seq(RangeHashes(leaves))
    BY DEF PrefixTyped
  <2>1. path[l][s][f] = PrefixTurn(path, leaves, l, s, f)
    BY ConsistencyPathIs
  <2>2. \A k \in 1 .. l - 1 : PrefixTyped(path, leaves, k)
    BY <1>1
  <2> HIDE DEF path
  <2> QED BY <2>1, <2>2, PrefixTurnType
<1>2. Good \in SUBSET Nat
  OBVIOUS
<1> HIDE DEF Good
<1>3. len \in Good
  BY <1>1, <1>2, AllNumbers
<1>4. PrefixTyped(path, leaves, len)
  BY <1>3 DEF Good
<1> QED BY <1>4 DEF PrefixTyped

-----------------------------------------------------------------------------
(* Levels of a tree, and the end of a prefix *)

\* The part of a proof of consistency that belongs below the node at place j of the
\* level where nodes stand for w leaves, when the first m leaves end in it.
PrefixAt(leaves, m, size, w, j) == ConsistencyPath(leaves)[Smaller(w, size - j * w)][j * w][m - j * w]

\* The prefix does not end where a node of the next level does.
Uneven(m, w) == \A k \in Nat : m # k * (2 * w)

\* A prefix ends in this node, and the whole reaches beyond it.
EndsIn(m, size, w, j) == j * w < m /\ m <= j * w + w /\ m < size /\ Uneven(m, w)

\* Nor does it, then, where a node of the one after ends.
LEMMA UnevenUp ==
    ASSUME NEW m, NEW w \in Nat, Uneven(m, w)
    PROVE  Uneven(m, 2 * w)
<1> SUFFICES ASSUME NEW k \in Nat, m = k * (2 * (2 * w)) PROVE FALSE
  BY DEF Uneven
<1>1. k * (2 * (2 * w)) = (2 * k) * (2 * w) /\ 2 * k \in Nat
  OBVIOUS
<1> QED BY <1>1 DEF Uneven

\* The proof in a node of two parts.
PrefixParts(path, leaves, size, w, s, left) ==
    LET rest == Smaller(w, size - (s + w))
        here == path[Smaller(2 * w, size - s)][s][left] IN
    /\ left <= w => here = Append(path[w][s][left], RangeHash(leaves)[rest][s + w])
    /\ ~ (left <= w) => here = Append(path[rest][s + w][left - w], RangeHash(leaves)[w][s])

\* ConsistencyPath takes a node apart where RangeHash does.
LEMMA TwoPrefixes ==
    ASSUME NEW leaves, NEW size \in Nat, NEW w \in Powers, NEW s \in Nat, s + w < size,
           NEW left \in Nat \ {0}, left < Smaller(2 * w, size - s)
    PROVE  PrefixParts(ConsistencyPath(leaves), leaves, size, w, s, left)
<1> DEFINE len == Smaller(2 * w, size - s)
<1>1. w \in Nat \ {0} /\ 2 * w \in Nat
  BY PowersAre
<1>2. len \in Nat /\ w < len /\ len <= 2 * w /\ len - w = Smaller(w, size - (s + w))
  BY <1>1 DEF Smaller
<1>3. Split(len) = w /\ len # 1 /\ len \in Nat \ {0}
  BY <1>2, SplitAt
<1>4. left \in 1 .. len /\ left # len
  BY <1>2
<1>5. ConsistencyPath(leaves)[len][s][left] = PrefixTurn(ConsistencyPath(leaves), leaves, len, s, left)
  BY <1>3, <1>4, ConsistencyPathIs
<1> QED BY <1>2, <1>3, <1>4, <1>5 DEF PrefixTurn, PrefixParts

\* One level up, for the whole, for the prefix and for the proof.
OnePrefixUp(leaves, m, size, w, j, half) ==
    LET path == PrefixAt(leaves, m, size, w, j)
        over == PrefixAt(leaves, m, size, 2 * w, half)
        prev == NodeAt(leaves, size, w, j - 1)
        next == NodeAt(leaves, size, w, j + 1)
        node(of) == NodeAt(leaves, of, w, j)
        up(of)   == NodeAt(leaves, of, 2 * w, half) IN
    /\ EndsIn(m, size, 2 * w, half)
    /\ j % 2 = 1 =>
         /\ up(size) = HashNode(prev, node(size)) /\ up(m) = HashNode(prev, node(m))
         /\ over = Append(path, prev)
    /\ j % 2 # 1 /\ (j + 1) * w < size =>
         /\ up(size) = HashNode(node(size), next) /\ up(m) = node(m)
         /\ over = Append(path, next)
    /\ j % 2 # 1 /\ ~ ((j + 1) * w < size) => up(size) = node(size) /\ up(m) = node(m) /\ over = path

\* One level further up, the node over the end of the prefix and its part of the proof
\* follow from those one level down (log.ts:35-50).
LEMMA PrefixUp ==
    ASSUME NEW leaves, NEW m \in Nat \ {0}, NEW size \in Nat, NEW w \in Powers, NEW j \in Nat,
           EndsIn(m, size, w, j), NEW half, half = j \div 2
    PROVE  OnePrefixUp(leaves, m, size, w, j, half)
<1> DEFINE s == half * (2 * w)
           len == Smaller(2 * w, size - s)
           index == m - 1
<1>1. w \in Nat \ {0} /\ 2 * w \in Nat
  BY PowersAre
<1>2. /\ half \in Nat /\ j * w \in Nat /\ s \in Nat
      /\ j % 2 = 1 => j * w = s + w /\ (j - 1) * w = s /\ j - 1 \in Nat
      /\ j % 2 # 1 => j * w = s
      /\ (j + 1) * w = j * w + w
  BY <1>1, HalfPlace
<1>3. /\ j * w < m /\ m <= j * w + w /\ m < size /\ Uneven(m, w)
      /\ index \in Nat /\ index < m /\ index < size /\ j * w <= index /\ index < j * w + w
  BY <1>1, <1>2 DEF EndsIn
<1>4. OneLevelUp(leaves, index, size, w, j, half) /\ OneLevelUp(leaves, index, m, w, j, half)
  <2> HIDE DEF index
  <2>1. m \in Nat
    OBVIOUS
  <2>2. OneLevelUp(leaves, index, size, w, j, half)
    BY <1>3, LevelUp
  <2>3. OneLevelUp(leaves, index, m, w, j, half)
    BY <1>3, <2>1, LevelUp
  <2> QED BY <2>2, <2>3
<1>5. s < m /\ m <= s + 2 * w /\ m # s + 2 * w
  <2>1. s < m /\ m <= s + 2 * w
    <3> HIDE DEF s
    <3>1. CASE j % 2 = 1
      BY <1>1, <1>2, <1>3, <3>1
    <3>2. CASE j % 2 # 1
      BY <1>1, <1>2, <1>3, <3>2
    <3> QED BY <3>1, <3>2
  <2>2. s + 2 * w = (half + 1) * (2 * w) /\ half + 1 \in Nat
    BY <1>1, <1>2
  <2>3. m # (half + 1) * (2 * w)
    BY <1>3, <2>2 DEF Uneven
  <2> QED BY <2>1, <2>2, <2>3
<1>6. EndsIn(m, size, 2 * w, half)
  BY <1>1, <1>3, <1>5, UnevenUp DEF EndsIn
<1> DEFINE path == PrefixAt(leaves, m, size, w, j)
           over == PrefixAt(leaves, m, size, 2 * w, half)
           prev == NodeAt(leaves, size, w, j - 1)
           next == NodeAt(leaves, size, w, j + 1)
           sub(l, t, f) == ConsistencyPath(leaves)[l][t][f]
           hash(l, t) == RangeHash(leaves)[l][t]
<1>7. path = sub(Smaller(w, size - j * w), j * w, m - j * w) /\ over = sub(len, s, m - s)
  BY DEF PrefixAt
<1>8. /\ prev = hash(Smaller(w, size - (j - 1) * w), (j - 1) * w)
      /\ next = hash(Smaller(w, size - (j + 1) * w), (j + 1) * w)
  BY DEF NodeAt
<1>9. ASSUME s + w < size
      PROVE  /\ m - s <= w => sub(len, s, m - s) = Append(sub(w, s, m - s), hash(Smaller(w, size - (s + w)), s + w))
             /\ ~ (m - s <= w) => sub(len, s, m - s)
                   = Append(sub(Smaller(w, size - (s + w)), s + w, m - s - w), hash(w, s))
  <2> DEFINE left == m - s
  <2>2. left \in Nat \ {0} /\ left < Smaller(2 * w, size - s)
    <3> HIDE DEF s
    <3> QED BY <1>1, <1>2, <1>3, <1>5, <1>9 DEF Smaller
  <2>3. s \in Nat
    BY <1>2
  <2> HIDE DEF s, left
  <2>4. PrefixParts(ConsistencyPath(leaves), leaves, size, w, s, left)
    BY ONLY size \in Nat, w \in Powers, <1>9, <2>2, <2>3, TwoPrefixes
  <2> QED BY <2>4 DEF PrefixParts, left
<1>10. j % 2 = 1 => over = Append(path, prev)
  <2> SUFFICES ASSUME j % 2 = 1 PROVE over = Append(path, prev)
    OBVIOUS
  <2> HIDE DEF s, path, over, prev, sub, hash
  <2>1. s + w < size /\ ~ (m - s <= w) /\ m - s - w = m - (s + w) /\ j * w = s + w /\ (j - 1) * w = s
    BY <1>1, <1>2, <1>3
  <2>2. Smaller(w, size - s) = w
    BY <1>1, <1>2, <2>1 DEF Smaller
  <2> HIDE DEF len
  <2> QED BY <1>7, <1>8, <1>9, <2>1, <2>2
<1>11. j % 2 # 1 /\ (j + 1) * w < size => over = Append(path, next)
  <2> SUFFICES ASSUME j % 2 # 1, (j + 1) * w < size PROVE over = Append(path, next)
    OBVIOUS
  <2> HIDE DEF s, path, over, next, sub, hash
  <2>1. s + w < size /\ m - s <= w /\ j * w = s /\ (j + 1) * w = s + w
    BY <1>1, <1>2, <1>3
  <2>2. Smaller(w, size - s) = w
    BY <1>1, <1>2, <2>1 DEF Smaller
  <2> HIDE DEF len
  <2> QED BY <1>7, <1>8, <1>9, <2>1, <2>2
<1>12. j % 2 # 1 /\ ~ ((j + 1) * w < size) => over = path
  <2> SUFFICES ASSUME j % 2 # 1, ~ ((j + 1) * w < size) PROVE over = path
    OBVIOUS
  <2> HIDE DEF s, path, over, sub
  <2>1. ~ (s + w < size) /\ j * w = s
    BY <1>1, <1>2, <1>3
  <2>2. Smaller(w, size - s) = size - s /\ len = size - s
    BY <1>1, <1>2, <1>3, <2>1 DEF Smaller
  <2> HIDE DEF len
  <2> QED BY <1>7, <2>1, <2>2
<1>13. /\ j % 2 = 1 => NodeAt(leaves, m, w, j - 1) = prev
       /\ j % 2 # 1 => ~ ((j + 1) * w < m)
  <2>1. j % 2 = 1 => Smaller(w, m - (j - 1) * w) = w /\ Smaller(w, size - (j - 1) * w) = w
    BY <1>1, <1>2, <1>3 DEF Smaller
  <2>2. j % 2 # 1 => ~ ((j + 1) * w < m)
    BY <1>1, <1>2, <1>3
  <2> QED BY <2>1, <2>2 DEF NodeAt
<1> HIDE DEF path, over, prev, next, s, index
<1> QED BY <1>4, <1>6, <1>10, <1>11, <1>12, <1>13 DEF OneLevelUp, OnePrefixUp, path, over, prev, next

\* A wide enough node is the whole tree.
LEMMA PrefixTop ==
    ASSUME NEW leaves, NEW m \in Nat \ {0}, NEW size \in Nat, NEW w \in Powers, NEW j \in Nat,
           EndsIn(m, size, w, j), size <= w
    PROVE  /\ j = 0
           /\ NodeAt(leaves, size, w, j) = RangeHash(leaves)[size][0]
           /\ NodeAt(leaves, m, w, j) = RangeHash(leaves)[m][0]
           /\ PrefixAt(leaves, m, size, w, j) = ConsistencyPath(leaves)[size][0][m]
<1>1. w \in Nat \ {0} /\ j * w \in Nat
  BY PowersAre
<1>2. j * w < m /\ m < size /\ m \in Nat
  BY DEF EndsIn
<1>3. m - 1 \in Nat /\ m - 1 < size /\ m - 1 < m /\ j * w <= m - 1 /\ m <= w
  BY <1>1, <1>2
<1> DEFINE index == m - 1
           goes(of) == PathAt(leaves, index, of, w, j) = InclusionPath(leaves, index)[of][0]
<1> HIDE DEF index
<1>8. index \in Nat /\ index < size /\ index < m /\ j * w <= index
  BY <1>3 DEF index
<1>4. j = 0 /\ NodeAt(leaves, size, w, j) = RangeHash(leaves)[size][0] /\ goes(size)
  BY <1>8, TopLevel
<1>5. NodeAt(leaves, m, w, j) = RangeHash(leaves)[m][0] /\ goes(m)
  BY <1>2, <1>3, <1>8, TopLevel
<1>6. j * w = 0 /\ Smaller(w, size - j * w) = size /\ m - j * w = m
  BY <1>1, <1>4 DEF Smaller
<1> QED BY <1>4, <1>5, <1>6 DEF PrefixAt

\* The widest node that ends where the prefix does has the same hash in both trees,
\* and is the first word unless it is the prefix itself.
LEMMA PrefixBase ==
    ASSUME NEW leaves, NEW m \in Nat \ {0}, NEW size \in Nat, m < size,
           NEW w \in Powers, NEW j \in Nat, m = (j + 1) * w
    PROVE  /\ NodeAt(leaves, m, w, j) = NodeAt(leaves, size, w, j)
           /\ PrefixAt(leaves, m, size, w, j) = IF j = 0 THEN <<>> ELSE <<NodeAt(leaves, size, w, j)>>
           /\ j = 0 => NodeAt(leaves, size, w, j) = RangeHash(leaves)[m][0]
<1>1. w \in Nat \ {0} /\ j * w \in Nat /\ m = j * w + w /\ (j = 0 <=> j * w = 0)
  <2>1. w \in Nat \ {0}
    BY PowersAre
  <2>2. j * w \in Nat /\ (j + 1) * w = j * w + w
    BY <2>1
  <2>3. j # 0 => 1 * w <= j * w
    BY <2>1, TimesOrder
  <2> QED BY <2>1, <2>2, <2>3
<1>2. Smaller(w, m - j * w) = w /\ Smaller(w, size - j * w) = w /\ m - j * w = w
  BY <1>1 DEF Smaller
<1>3. w \in 1 .. w /\ w \in Nat \ {0}
  BY <1>1
<1>4. ConsistencyPath(leaves)[w][j * w][w] = PrefixTurn(ConsistencyPath(leaves), leaves, w, j * w, w)
  BY <1>1, <1>3, ConsistencyPathIs
<1>5. NodeAt(leaves, m, w, j) = RangeHash(leaves)[w][j * w] /\ NodeAt(leaves, size, w, j) = RangeHash(leaves)[w][j * w]
  BY <1>2 DEF NodeAt
<1>6. PrefixAt(leaves, m, size, w, j) = IF j * w = 0 THEN <<>> ELSE <<RangeHash(leaves)[w][j * w]>>
  BY <1>2, <1>4 DEF PrefixAt, PrefixTurn
<1>7. j = 0 => m = w /\ j * w = 0
  BY <1>1
<1> QED BY <1>1, <1>5, <1>6, <1>7

\* The proof so far is a sequence of hashes.
LEMMA PrefixAtType ==
    ASSUME NEW leaves, NEW m \in Nat \ {0}, NEW size \in Nat, NEW w \in Powers, NEW j \in Nat,
           EndsIn(m, size, w, j)
    PROVE  /\ PrefixAt(leaves, m, size, w, j) \in Seq(RangeHashes(leaves))
           /\ Len(PrefixAt(leaves, m, size, w, j)) \in Nat
<1> DEFINE s == j * w
           len == Smaller(w, size - s)
           left == m - s
           path == PrefixAt(leaves, m, size, w, j)
<1>1. s \in Nat /\ w \in Nat \ {0}
  BY PowersAre
<1>2. s < m /\ m <= s + w /\ m < size
  BY DEF EndsIn
<1> HIDE DEF s
<1>3. len \in Nat \ {0} /\ left \in 1 .. len
  BY <1>1, <1>2 DEF Smaller
<1> HIDE DEF len, left
<1>4. ConsistencyPath(leaves)[len][s][left] \in Seq(RangeHashes(leaves))
  BY <1>1, <1>3, ConsistencyPathType
<1>5. path \in Seq(RangeHashes(leaves))
  BY <1>4 DEF PrefixAt, len, s, left
<1> HIDE DEF path
<1>6. Len(path) \in Nat
  BY <1>5
<1> QED BY <1>5, <1>6 DEF path

\* Below the top, words are still missing.
LEMMA PrefixAtGrows ==
    ASSUME NEW leaves, NEW m \in Nat \ {0}, NEW size \in Nat, NEW w \in Powers, NEW j \in Nat,
           EndsIn(m, size, w, j)
    PROVE  IF size <= w
           THEN Len(PrefixAt(leaves, m, size, w, j)) = Len(ConsistencyPath(leaves)[size][0][m])
           ELSE Len(PrefixAt(leaves, m, size, w, j)) < Len(ConsistencyPath(leaves)[size][0][m])
<1> DEFINE all == Len(ConsistencyPath(leaves)[size][0][m])
           part(v, k) == Len(PrefixAt(leaves, m, size, v, k))
           Good == {d \in Nat : \A v \in Powers : \A k \in Nat :
                      size <= v + d /\ EndsIn(m, size, v, k) =>
                         IF size <= v THEN part(v, k) = all ELSE part(v, k) < all}
<1>1. ASSUME NEW d \in Nat, \A e \in Nat : e < d => e \in Good
      PROVE  d \in Good
  <2> SUFFICES ASSUME NEW v \in Powers, NEW k \in Nat, size <= v + d, EndsIn(m, size, v, k)
               PROVE  IF size <= v THEN part(v, k) = all ELSE part(v, k) < all
    OBVIOUS
  <2>1. v \in Nat \ {0} /\ 2 * v \in Powers /\ 2 * v \in Nat
    BY PowersAre
  <2>2. CASE size <= v
    <3>1. /\ NodeAt(leaves, size, v, k) = RangeHash(leaves)[size][0]
          /\ NodeAt(leaves, m, v, k) = RangeHash(leaves)[m][0]
          /\ PrefixAt(leaves, m, size, v, k) = ConsistencyPath(leaves)[size][0][m]
      BY <2>2, PrefixTop
    <3> QED BY <2>2, <3>1
  <2>3. CASE ~ (size <= v)
    <3> DEFINE half == k \div 2
               low == PrefixAt(leaves, m, size, v, k)
               up  == PrefixAt(leaves, m, size, 2 * v, half)
               next == NodeAt(leaves, size, v, k + 1)
               prev == NodeAt(leaves, size, v, k - 1)
    <3>1. OnePrefixUp(leaves, m, size, v, k, half)
      BY PrefixUp
    <3>2. /\ EndsIn(m, size, 2 * v, half)
          /\ up = Append(low, prev) \/ up = Append(low, next)
             \/ (k % 2 # 1 /\ ~ ((k + 1) * v < size) /\ up = low)
      BY <3>1 DEF OnePrefixUp
    <3>3. half \in Nat
      OBVIOUS
    <3>4. IF size <= 2 * v THEN part(2 * v, half) = all ELSE part(2 * v, half) < all
      <4>1. d - 1 \in Nat /\ d - 1 < d /\ size <= 2 * v + (d - 1)
        BY <2>1, <2>3
      <4>2. d - 1 \in Good
        BY <1>1, <4>1
      <4> HIDE DEF half, part, all
      <4> QED BY <2>1, <3>2, <3>3, <4>1, <4>2
    <3>5. low \in Seq(RangeHashes(leaves)) /\ Len(low) \in Nat
      BY PrefixAtType
    <3>6. \A x : Len(Append(low, x)) = Len(low) + 1
      <4> HIDE DEF low
      <4> QED BY <3>5
    <3>7. all \in Nat
      <4>1. size \in Nat \ {0} /\ m \in 1 .. size /\ 0 \in Nat
        BY DEF EndsIn
      <4> DEFINE full == ConsistencyPath(leaves)[size][0][m]
      <4>2. full \in Seq(RangeHashes(leaves))
        BY <4>1, ConsistencyPathType
      <4> HIDE DEF full
      <4>3. Len(full) \in Nat
        BY <4>2
      <4> QED BY <4>3 DEF full
    <3> DEFINE upper == Len(up)
    <3>8. IF size <= 2 * v THEN upper = all ELSE upper < all
      BY <3>4
    <3> HIDE DEF low, up, all, next, prev
    <3>9. CASE up = Append(low, prev) \/ up = Append(low, next)
      <4>1. upper = Len(low) + 1
        BY <3>6, <3>9
      <4>2. Len(low) < all
        <5> HIDE DEF upper
        <5> QED BY <3>5, <3>7, <3>8, <4>1
      <4> QED BY <2>3, <4>2 DEF low
    <3>10. CASE k % 2 # 1 /\ ~ ((k + 1) * v < size) /\ up = low
      <4>1. ~ (size <= 2 * v)
        <5> SUFFICES ASSUME size <= 2 * v PROVE FALSE
          OBVIOUS
        <5>1. k * v < m /\ m < size /\ k * v \in Nat /\ (k + 1) * v = k * v + v
          BY <2>1 DEF EndsIn
        <5>2. k # 0
          BY <2>1, <2>3, <3>10, <5>1
        <5>3. k # 1
          BY <3>10
        <5>4. 2 * v <= k * v
          BY <2>1, <5>2, <5>3, TimesOrder
        <5> QED BY <2>1, <5>1, <5>4
      <4>2. Len(low) < all
        BY <3>8, <3>10, <4>1
      <4> QED BY <2>3, <4>2 DEF low
    <3> QED BY <3>2, <3>9, <3>10
  <2> QED BY <2>2, <2>3
<1>2. Good \in SUBSET Nat
  OBVIOUS
<1> HIDE DEF all, part
<1>3. size \in Good
  <2> HIDE DEF Good
  <2> QED BY <1>1, <1>2, AllNumbers
<1>4. size <= w + size
  BY PowersAre
<1>5. IF size <= w THEN part(w, j) = all ELSE part(w, j) < all
  BY <1>3, <1>4
<1> QED BY <1>5 DEF part, all
=============================================================================
