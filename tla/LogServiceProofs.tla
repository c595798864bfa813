-------------------------- MODULE LogServiceProofs --------------------------
(***************************************************************************)
(* Theorems about services/log: LogStore, for any number of processes and  *)
(* leaves, and AnchorDaemon, for any number of mirrors and consent keys,   *)
(* any intervals and delays, and any bound on the log and the failures.    *)
(*                                                                         *)
(* The index of an append is taken before the lock, so DenseAndDistinct    *)
(* does not follow from itself: the inductive invariant adds what every    *)
(* caller knows at its place in append().  The index it holds may be       *)
(* stale but never beyond the size, and once its INSERT has passed the     *)
(* two constraints of the table, under the lock, it is exactly the size.   *)
(*                                                                         *)
(* That the node table is the tree of the log needs more: what the rows of *)
(* an open transaction are, and what a reader has read (TreeInv), with the *)
(* facts about the tree that TreeProofs has.                               *)
(*                                                                         *)
(* The gate of a mirror looks at the newest row of the primary when a tick *)
(* starts; the mirror's transaction is executed after it, and a failed     *)
(* call or a crash leaves the primary's chain and its row apart.  The      *)
(* inductive invariant keeps what the gate has seen until the call is      *)
(* over, and says that a row is never ahead of its chain.                  *)
(***************************************************************************)
EXTENDS LogStore, AnchorDaemon, TreeProofs

\* What holds of process p at its place in append().
Caller(p) ==
    /\ pc[p] \in {"looked", "indexed", "begun", "inserted"} => arg[p] \in Leaf
    /\ pc[p] \in {"indexed", "begun", "inserted"} => idx[p] <= size
    /\ pc[p] \in {"begun", "inserted"} => lock = p
    /\ pc[p] = "inserted" => idx[p] \notin DOMAIN leaf /\ ~HasLeaf(arg[p])

LogInv ==
    /\ TypeOK
    /\ IsFiniteSet(DOMAIN leaf)
    /\ DenseAndDistinct
    /\ AnswersHold
    /\ \A p \in Process : Caller(p)

-----------------------------------------------------------------------------
(* One committed append. *)

\* COMMIT puts the leaf at the end: the stale index that passed the table's
\* constraints under the lock is the size.
LEMMA CommitShape ==
    ASSUME LogInv, NEW p \in Process, Commit(p)
    PROVE  /\ size \in Nat
           /\ arg[p] \in Leaf /\ ~HasLeaf(arg[p])
           /\ idx[p] = size
           /\ DOMAIN leaf' = 0 .. size
           /\ leaf' \in [0 .. size -> Leaf]
           /\ leaf'[size] = arg[p]
           /\ \A i \in DOMAIN leaf : leaf'[i] = leaf[i]
           /\ IsFiniteSet(DOMAIN leaf)'
           /\ size' = size + 1
<1>1. size \in Nat
  BY FS_CardinalityType DEF LogInv, size
<1>2. /\ arg[p] \in Leaf /\ ~HasLeaf(arg[p])
      /\ idx[p] <= size /\ idx[p] \notin DOMAIN leaf
  BY DEF LogInv, Caller, Commit
<1>3. DOMAIN leaf = 0 .. size - 1
  BY DEF LogInv, DenseAndDistinct
<1>4. idx[p] \in Nat
  BY DEF LogInv, TypeOK
<1>5. idx[p] = size
  BY <1>1, <1>2, <1>3, <1>4
<1>6. leaf' = [k \in DOMAIN leaf \cup {size} |-> IF k = size THEN arg[p] ELSE leaf[k]]
  BY <1>5 DEF Commit, With
<1>7. DOMAIN leaf \cup {size} = 0 .. size
  BY <1>1, <1>3
<1>8. DOMAIN leaf' = DOMAIN leaf \cup {size}
  BY <1>6
<1>9. leaf \in [DOMAIN leaf -> Leaf]
  BY DEF LogInv, TypeOK
<1>10. leaf' \in [0 .. size -> Leaf]
  BY <1>2, <1>6, <1>7, <1>9
<1>11. leaf'[size] = arg[p] /\ \A i \in DOMAIN leaf : leaf'[i] = leaf[i]
  BY <1>1, <1>3, <1>6
<1>12. IsFiniteSet(DOMAIN leaf') /\ Cardinality(DOMAIN leaf') = size + 1
  <2>1. IsFiniteSet(DOMAIN leaf) /\ size \notin DOMAIN leaf
    BY <1>1, <1>3 DEF LogInv
  <2> QED
    BY <2>1, <1>8, FS_AddElement DEF size
<1> QED
  BY <1>1, <1>2, <1>5, <1>7, <1>8, <1>10, <1>11, <1>12 DEF size

-----------------------------------------------------------------------------
(* The inductive invariant. *)

\* An empty log.
LEMMA InitHolds == Init => LogInv
<1> SUFFICES ASSUME Init
             PROVE  LogInv
  OBVIOUS
<1>1. DOMAIN leaf = {} /\ IsFiniteSet(DOMAIN leaf) /\ size = 0
  BY FS_EmptySet DEF Init, size
<1>2. TypeOK
  BY <1>1 DEF Init, TypeOK
<1>3. DenseAndDistinct
  BY <1>1 DEF DenseAndDistinct
<1>4. AnswersHold /\ \A p \in Process : Caller(p)
  BY DEF Init, AnswersHold, Caller
<1> QED
  BY <1>1, <1>2, <1>3, <1>4 DEF LogInv

\* A step that commits nothing leaves every fact about the tables as it was.
LEMMA TablesKept ==
    ASSUME LogInv, leaf' = leaf, answered' = answered
    PROVE  /\ IsFiniteSet(DOMAIN leaf)' /\ DenseAndDistinct' /\ AnswersHold'
           /\ size' = size
           /\ \A l : HasLeaf(l)' <=> HasLeaf(l)
BY DEF LogInv, DenseAndDistinct, AnswersHold, size, HasLeaf

\* A process that has ended its call is bound by nothing.
LEMMA DoneIsFree ==
    ASSUME LogInv, NEW p \in Process, Done(p), lock' = lock \/ lock = p, leaf' = leaf
    PROVE  \A q \in Process : Caller(q)'
<1> TAKE q \in Process
<1>1. CASE q = p
  BY <1>1 DEF Done, Caller, LogInv, TypeOK
<1>2. CASE q # p
  <2>1. Caller(q) /\ pc'[q] = pc[q] /\ arg'[q] = arg[q] /\ idx'[q] = idx[q]
    BY <1>2 DEF Done, LogInv, TypeOK
  <2>2. pc[q] \in {"begun", "inserted"} => lock' = q
    BY <2>1, <1>2 DEF Caller
  <2>3. size' = size /\ (HasLeaf(arg[q])' <=> HasLeaf(arg[q]))
    BY <2>1 DEF size, HasLeaf
  <2> QED
    BY <2>1, <2>2, <2>3 DEF Caller, HasLeaf
<1> QED
  BY <1>1, <1>2

\* A step inside append() or root() that neither commits nor gives up the lock
\* binds nobody but the process that takes it.
LEMMA OthersAreBound ==
    ASSUME LogInv, NEW p \in Process, leaf' = leaf, lock' = lock \/ lock = NoProcess,
           \A q \in Process \ {p} : pc'[q] = pc[q] /\ arg'[q] = arg[q] /\ idx'[q] = idx[q]
    PROVE  \A q \in Process \ {p} : Caller(q)'
<1> TAKE q \in Process \ {p}
<1>1. Caller(q) /\ pc'[q] = pc[q] /\ arg'[q] = arg[q] /\ idx'[q] = idx[q]
  BY DEF LogInv
<1>2. size' = size /\ (HasLeaf(arg[q])' <=> HasLeaf(arg[q]))
  BY <1>1 DEF size, HasLeaf
<1>3. pc[q] \in {"begun", "inserted"} => lock' = q
  BY <1>1, NobodyAssumption DEF Caller
<1> QED
  BY <1>1, <1>2, <1>3 DEF Caller, HasLeaf

\* One step per place in append() and root().
LEMMA InvStep == LogInv /\ [Next]_vars => LogInv'
<1> SUFFICES ASSUME LogInv, [Next]_vars
             PROVE  LogInv'
  OBVIOUS
<1>0. /\ size \in Nat
      /\ leaf \in [DOMAIN leaf -> Leaf] /\ DOMAIN leaf \subseteq Nat
      /\ pc \in [Process -> {"idle", "looked", "indexed", "begun", "inserted", "reading"}]
      /\ arg \in [Process -> Leaf \cup {NoLeaf}]
      /\ idx \in [Process -> Nat]
      /\ lock \in Process \cup {NoProcess}
      /\ answered \subseteq Leaf \X Nat
  BY FS_CardinalityType DEF LogInv, TypeOK, size
<1>1. ASSUME NEW p \in Process, NEW l \in Leaf, LookForDuplicate(p, l)
      PROVE  LogInv'
  <2>1. Caller(p)'
    BY <1>0, <1>1 DEF LookForDuplicate, Caller
  <2>2. \A q \in Process \ {p} : Caller(q)'
    BY <1>0, <1>1, OthersAreBound DEF LookForDuplicate, tables
  <2>3. TypeOK'
    BY <1>0, <1>1 DEF LookForDuplicate, TypeOK, tables
  <2> QED
    BY <1>1, <2>1, <2>2, <2>3, TablesKept DEF LogInv, LookForDuplicate, tables
<1>2. ASSUME NEW p \in Process, TakeIndex(p)
      PROVE  LogInv'
  <2>1. Caller(p)'
    <3>1. arg[p] \in Leaf
      BY <1>2 DEF TakeIndex, LogInv, Caller
    <3>2. size' = size
      BY <1>2 DEF TakeIndex, tables, size
    <3> QED
      BY <1>0, <1>2, <3>1, <3>2 DEF TakeIndex, Caller
  <2>2. \A q \in Process \ {p} : Caller(q)'
    BY <1>0, <1>2, OthersAreBound DEF TakeIndex, tables
  <2>3. TypeOK'
    BY <1>0, <1>2 DEF TakeIndex, TypeOK, tables
  <2> QED
    BY <1>2, <2>1, <2>2, <2>3, TablesKept DEF LogInv, TakeIndex, tables
<1>3. ASSUME NEW p \in Process, Begin(p)
      PROVE  LogInv'
  <2>1. Caller(p)'
    <3>1. arg[p] \in Leaf /\ idx[p] <= size
      BY <1>3 DEF Begin, LogInv, Caller
    <3>2. size' = size
      BY <1>3 DEF Begin, tables, size
    <3> QED
      BY <1>0, <1>3, <3>1, <3>2 DEF Begin, Caller
  <2>2. \A q \in Process \ {p} : Caller(q)'
    BY <1>0, <1>3, OthersAreBound DEF Begin, tables
  <2>3. TypeOK'
    BY <1>0, <1>3 DEF Begin, TypeOK, tables
  <2> QED
    BY <1>3, <2>1, <2>2, <2>3, TablesKept DEF LogInv, Begin, tables
<1>4. ASSUME NEW p \in Process, Insert(p)
      PROVE  LogInv'
  <2>1. Caller(p)'
    <3>1. arg[p] \in Leaf /\ idx[p] <= size /\ lock = p
      BY <1>4 DEF Insert, LogInv, Caller
    <3>2. size' = size /\ leaf' = leaf /\ arg' = arg /\ idx' = idx /\ lock' = lock
      BY <1>4 DEF Insert, tables, size
    <3>3. idx[p] \notin DOMAIN leaf /\ ~HasLeaf(arg[p])
      BY <1>4 DEF Insert
    <3>4. ~HasLeaf(arg[p])'
      BY <3>2, <3>3 DEF HasLeaf
    <3> QED
      BY <3>1, <3>2, <3>3, <3>4 DEF Caller
  <2>2. \A q \in Process \ {p} : Caller(q)'
    BY <1>0, <1>4, OthersAreBound DEF Insert, tables
  <2>3. TypeOK'
    BY <1>0, <1>4 DEF Insert, TypeOK, tables
  <2> QED
    BY <1>4, <2>1, <2>2, <2>3, TablesKept DEF LogInv, Insert, tables
<1>5. ASSUME NEW p \in Process, CompletePair(p)
      PROVE  LogInv'
  <2>1. /\ leaf' = leaf /\ lock' = lock /\ pc' = pc /\ arg' = arg /\ idx' = idx
        /\ answered' = answered
    BY <1>5 DEF CompletePair, tables
  <2>2. \A q \in Process : Caller(q)'
    BY <2>1 DEF LogInv, Caller, size, HasLeaf
  <2>3. TypeOK'
    BY <1>0, <2>1 DEF TypeOK
  <2> QED
    BY <2>1, <2>2, <2>3, TablesKept DEF LogInv
<1>6. ASSUME NEW p \in Process, Busy(p) \/ Rollback(p) \/ ReturnRoot(p) \/ Crash(p)
      PROVE  LogInv'
  <2>1. /\ Done(p) /\ leaf' = leaf /\ answered' = answered
        /\ lock' = lock \/ (lock = p /\ lock' = NoProcess)
    BY <1>6 DEF Busy, Rollback, ReturnRoot, Crash, tables
  <2>2. \A q \in Process : Caller(q)'
    BY <2>1, DoneIsFree
  <2>3. TypeOK'
    BY <1>0, <2>1 DEF TypeOK, Done
  <2> QED
    BY <2>1, <2>2, <2>3, TablesKept DEF LogInv
<1>7. ASSUME NEW p \in Process, Commit(p)
      PROVE  LogInv'
  <2>1. /\ arg[p] \in Leaf /\ ~HasLeaf(arg[p]) /\ idx[p] = size
        /\ DOMAIN leaf' = 0 .. size
        /\ leaf' \in [0 .. size -> Leaf]
        /\ leaf'[size] = arg[p]
        /\ \A i \in DOMAIN leaf : leaf'[i] = leaf[i]
        /\ IsFiniteSet(DOMAIN leaf)'
        /\ size' = size + 1
    BY <1>7, CommitShape
  <2>2. DOMAIN leaf = 0 .. size - 1
    BY DEF LogInv, DenseAndDistinct
  <2>3. Done(p) /\ lock = p /\ answered' = answered \cup {<<arg[p], size>>}
    BY <1>7, <2>1 DEF Commit, LogInv, Caller
  <2>4. DenseAndDistinct'
    <3>1. DOMAIN leaf' = 0 .. size' - 1
      BY <1>0, <2>1
    <3>2. ASSUME NEW i \in DOMAIN leaf', NEW j \in DOMAIN leaf', leaf'[i] = leaf'[j]
          PROVE  i = j
      <4>1. /\ i \in DOMAIN leaf \/ i = size
            /\ j \in DOMAIN leaf \/ j = size
        BY <1>0, <2>1, <2>2
      <4>2. \A k \in DOMAIN leaf : leaf[k] # arg[p]
        BY <2>1 DEF HasLeaf
      <4>3. \A k, m \in DOMAIN leaf : leaf[k] = leaf[m] => k = m
        BY DEF LogInv, DenseAndDistinct
      <4> QED
        BY <2>1, <3>2, <4>1, <4>2, <4>3
    <3> QED
      BY <3>1, <3>2 DEF DenseAndDistinct
  <2>5. AnswersHold'
    <3>1. \A a \in answered : a[2] \in DOMAIN leaf /\ leaf[a[2]] = a[1]
      BY DEF LogInv, AnswersHold
    <3>2. ASSUME NEW a \in answered'
          PROVE  a[2] \in DOMAIN leaf' /\ leaf'[a[2]] = a[1]
      <4>1. CASE a \in answered
        <5>1. a[2] \in DOMAIN leaf /\ leaf[a[2]] = a[1]
          BY <4>1, <3>1
        <5> QED
          BY <1>0, <5>1, <2>1, <2>2
      <4>2. CASE a = <<arg[p], size>>
        BY <1>0, <4>2, <2>1
      <4> QED
        BY <2>3, <4>1, <4>2
    <3> QED
      BY <3>2 DEF AnswersHold
  <2>6. ASSUME NEW q \in Process
        PROVE  Caller(q)'
    <3>1. CASE q = p
      BY <1>0, <2>3, <3>1 DEF Done, Caller
    <3>2. CASE q # p
      <4>1. Caller(q) /\ pc'[q] = pc[q] /\ arg'[q] = arg[q] /\ idx'[q] = idx[q]
        BY <1>0, <2>3, <3>2 DEF Done, LogInv
      <4>2. pc[q] \notin {"begun", "inserted"}
        BY <4>1, <2>3, <3>2 DEF Caller
      <4>3. idx[q] \in Nat /\ size' = size + 1
        BY <1>0, <2>1
      <4> QED
        BY <1>0, <4>1, <4>2, <4>3 DEF Caller
    <3> QED
      BY <3>1, <3>2
  <2>7. TypeOK'
    <3>1. DOMAIN leaf' \subseteq Nat /\ leaf' \in [DOMAIN leaf' -> Leaf]
      BY <1>0, <2>1
    <3>2. lock' \in Process \cup {NoProcess}
      BY <1>7 DEF Commit
    <3>3. answered' \subseteq Leaf \X Nat
      BY <1>0, <2>1, <2>3
    <3> QED
      BY <1>0, <2>3, <3>1, <3>2, <3>3 DEF TypeOK, Done
  <2> QED
    BY <2>1, <2>4, <2>5, <2>6, <2>7 DEF LogInv
<1>8. ASSUME NEW p \in Process, ReadSize(p)
      PROVE  LogInv'
  <2>1. Caller(p)'
    BY <1>0, <1>8 DEF ReadSize, Caller
  <2>2. \A q \in Process \ {p} : Caller(q)'
    BY <1>0, <1>8, OthersAreBound DEF ReadSize, tables
  <2>3. TypeOK'
    BY <1>0, <1>8 DEF ReadSize, TypeOK, tables
  <2> QED
    BY <1>8, <2>1, <2>2, <2>3, TablesKept DEF LogInv, ReadSize, tables
<1>9. ASSUME NEW p \in Process, ReadNode(p) \/ ReturnRange(p)
      PROVE  LogInv'
  <2>1. /\ leaf' = leaf /\ lock' = lock /\ pc' = pc /\ arg' = arg /\ idx' = idx
        /\ answered' = answered
    BY <1>9 DEF ReadNode, ReturnRange, tables
  <2>2. \A q \in Process : Caller(q)'
    BY <2>1 DEF LogInv, Caller, size, HasLeaf
  <2>3. TypeOK'
    BY <1>0, <2>1 DEF TypeOK
  <2> QED
    BY <2>1, <2>2, <2>3, TablesKept DEF LogInv
<1>10. CASE UNCHANGED vars
  <2>1. /\ leaf' = leaf /\ lock' = lock /\ pc' = pc /\ arg' = arg /\ idx' = idx
        /\ answered' = answered
    BY <1>10 DEF vars, tables, locals
  <2>2. \A q \in Process : Caller(q)'
    BY <2>1 DEF LogInv, Caller, size, HasLeaf
  <2>3. TypeOK'
    BY <1>0, <2>1 DEF TypeOK
  <2> QED
    BY <2>1, <2>2, <2>3, TablesKept DEF LogInv
<1> QED
  BY <1>1, <1>2, <1>3, <1>4, <1>5, <1>6, <1>7, <1>8, <1>9, <1>10 DEF Next

\* LogInv holds always.
LEMMA Invariant == Spec => []LogInv
  BY InitHolds, InvStep, PTL DEF Spec

\* The tables and every process's place in its call keep their shape.
THEOREM TypeCorrect == Spec => []TypeOK
<1>1. LogInv => TypeOK
  BY DEF LogInv
<1> QED
  BY <1>1, Invariant, PTL

\* However many processes append at once, with indexes taken before the lock,
\* and wherever they die, the log has no hole and no repeated leaf.
THEOREM DenseAndDistinctHolds == Spec => []DenseAndDistinct
<1>1. LogInv => DenseAndDistinct
  BY DEF LogInv
<1> QED
  BY <1>1, Invariant, PTL

\* The index an append has returned is that leaf's index for ever.
THEOREM AnswersAreKept == Spec => []AnswersHold
<1>1. LogInv => AnswersHold
  BY DEF LogInv
<1> QED
  BY <1>1, Invariant, PTL

-----------------------------------------------------------------------------
(* Refinement of LeafLog. *)

\* The committed rows, read as a sequence.
RowsInOrder ==
    /\ Leaves \in Seq(Leaf)
    /\ Len(Leaves) = size
    /\ \A i \in 1 .. size : Leaves[i] = leaf[i - 1]

\* The leaves are the rows, in order.
LEMMA LeavesShape == LogInv => RowsInOrder
<1> SUFFICES ASSUME LogInv
             PROVE  RowsInOrder
  OBVIOUS
<1>1. size \in Nat
  BY FS_CardinalityType DEF LogInv, size
<1>2. DOMAIN leaf = 0 .. size - 1 /\ leaf \in [DOMAIN leaf -> Leaf]
  BY DEF LogInv, TypeOK, DenseAndDistinct
<1>3. ASSUME NEW i \in 1 .. size
      PROVE  leaf[i - 1] \in Leaf
  BY <1>1, <1>2
<1>4. Leaves \in [1 .. size -> Leaf]
  BY <1>3 DEF Leaves
<1>5. Leaves \in Seq(Leaf)
  BY <1>1, <1>4, SeqDef
<1>6. DOMAIN Leaves = 1 .. size
  BY DEF Leaves
<1>7. Len(Leaves) = size
  <2>1. Len(Leaves) \in Nat /\ DOMAIN Leaves = 1 .. Len(Leaves)
    BY <1>5, LenProperties
  <2> QED
    BY <1>1, <1>6, <2>1
<1> QED
  BY <1>5, <1>7 DEF Leaves, RowsInOrder

\* One committed append is one step of LeafLog.
LEMMA CommitAppends ==
    ASSUME LogInv, LogInv', NEW p \in Process, Commit(p)
    PROVE  arg[p] \in Leaf /\ Log!AppendLeaf(arg[p])
<1>1. /\ size \in Nat /\ arg[p] \in Leaf /\ ~HasLeaf(arg[p])
      /\ leaf'[size] = arg[p]
      /\ \A i \in DOMAIN leaf : leaf'[i] = leaf[i]
      /\ size' = size + 1
  BY CommitShape
<1>2. DOMAIN leaf = 0 .. size - 1
  BY DEF LogInv, DenseAndDistinct
<1>3. /\ Leaves \in Seq(Leaf) /\ Len(Leaves) = size
      /\ \A i \in 1 .. size : Leaves[i] = leaf[i - 1]
  BY LeavesShape DEF RowsInOrder
<1>4. /\ Leaves' \in Seq(Leaf) /\ Len(Leaves') = size + 1
      /\ \A i \in 1 .. size + 1 : Leaves'[i] = leaf'[i - 1]
  <2>1. RowsInOrder'
    BY LeavesShape, PTL
  <2> QED
    BY <1>1, <2>1 DEF RowsInOrder
<1>5. \A i \in 1 .. Len(Leaves) : Leaves[i] # arg[p]
  <2> SUFFICES ASSUME NEW i \in 1 .. size
               PROVE  Leaves[i] # arg[p]
    BY <1>3
  <2>1. i - 1 \in DOMAIN leaf /\ Leaves[i] = leaf[i - 1]
    BY <1>1, <1>2, <1>3
  <2> QED
    BY <1>1, <2>1 DEF HasLeaf
<1>6. Leaves' = Append(Leaves, arg[p])
  <2>1. /\ Append(Leaves, arg[p]) \in Seq(Leaf)
        /\ Len(Append(Leaves, arg[p])) = size + 1
        /\ \A i \in 1 .. size : Append(Leaves, arg[p])[i] = Leaves[i]
        /\ Append(Leaves, arg[p])[size + 1] = arg[p]
    BY <1>1, <1>3, AppendProperties
  <2>2. ASSUME NEW i \in 1 .. size
        PROVE  Leaves'[i] = Append(Leaves, arg[p])[i]
    <3>1. i \in 1 .. size + 1 /\ i - 1 \in DOMAIN leaf
      BY <1>1, <1>2
    <3>2. Leaves'[i] = leaf'[i - 1]
      BY <1>4, <3>1
    <3>3. leaf'[i - 1] = leaf[i - 1]
      BY <1>1, <3>1
    <3>4. Append(Leaves, arg[p])[i] = leaf[i - 1]
      BY <1>3, <2>1
    <3> QED BY <3>2, <3>3, <3>4
  <2>3. Leaves'[size + 1] = Append(Leaves, arg[p])[size + 1]
    BY <1>1, <1>4, <2>1
  <2>4. \A i \in 1 .. Len(Leaves') : Leaves'[i] = Append(Leaves, arg[p])[i]
    <3>1. Len(Leaves') = size + 1 /\ \A i \in 1 .. size + 1 : i \in 1 .. size \/ i = size + 1
      BY <1>1, <1>4
    <3> QED
      BY <2>2, <2>3, <3>1
  <2> QED
    BY <1>4, <2>1, <2>4, SeqEqual
<1> QED
  BY <1>1, <1>5, <1>6 DEF Log!AppendLeaf

\* A COMMIT appends one new leaf to the abstract log, every other step leaves it alone.
LEMMA LogStep == LogInv /\ LogInv' /\ [Next]_vars => [Log!LogNext]_Leaves
<1> SUFFICES ASSUME LogInv, LogInv', [Next]_vars
             PROVE  [Log!LogNext]_Leaves
  OBVIOUS
<1>1. CASE \E p \in Process : Commit(p)
  BY <1>1, CommitAppends DEF Log!LogNext
<1>2. CASE leaf' = leaf
  BY <1>2 DEF Leaves, size
<1> QED
  BY <1>1, <1>2 DEF Next, vars, tables, LookForDuplicate, TakeIndex, Begin, Busy, Insert,
     Rollback, CompletePair, ReadSize, ReadNode, ReturnRange, ReturnRoot, Crash

\* Any number of processes appending, reading and dying together are one log:
\* every step appends one new leaf at the end of the sequence, or shows nothing.
THEOREM LogImplemented == Spec => ImplementsLeafLog
<1>1. Init => Log!LogInit
  <2> SUFFICES ASSUME Init
               PROVE  Leaves = <<>>
    BY DEF Log!LogInit
  <2>1. LogInv /\ DOMAIN leaf = {}
    BY InitHolds DEF Init
  <2>2. size = 0
    BY <2>1, FS_EmptySet DEF size
  <2>3. Leaves \in Seq(Leaf) /\ Len(Leaves) = 0
    BY <2>1, <2>2, LeavesShape DEF RowsInOrder
  <2> QED
    BY <2>3, EmptySeq
<1> QED
  BY <1>1, Invariant, LogStep, PTL DEF Spec, ImplementsLeafLog, Log!LogSpec

-----------------------------------------------------------------------------
(* The shape of the log: isPow2 *)

\* isPow2() answers true for the powers of two and for nothing else.
LEMMA IsPow2Is ==
    ASSUME NEW n \in Nat \ {0}
    PROVE  IsPow2(n) <=> n \in Powers
<1>1. CASE n = 1
  BY <1>1, PowersAre DEF IsPow2
<1>2. CASE n # 1 /\ IsPow2(n)
  <2>1. n > 1 /\ 2 * Split(n) = n
    BY <1>2 DEF IsPow2
  <2>2. Split(n) \in Powers
    BY <2>1, SplitIs
  <2>3. 2 * Split(n) \in Powers
    BY <2>2, PowersAre
  <2> QED BY <1>2, <2>1, <2>3
<1>3. CASE n # 1 /\ n \in Powers
  <2>1. Split(n) \in Powers /\ Split(n) < n /\ n <= 2 * Split(n)
    BY <1>3, SplitIs
  <2>2. Split(n) \in Nat \ {0}
    BY <2>1, PowersAre
  <2>3. PICK j \in Nat \ {0} : n = j * (2 * Split(n))
    BY <1>3, <2>1, PowersApart
  <2>4. j * (2 * Split(n)) >= 2 * Split(n)
    BY <2>2
  <2>5. 2 * Split(n) = n
    BY <2>1, <2>2, <2>3, <2>4
  <2> QED BY <1>3, <2>5 DEF IsPow2
<1> QED BY <1>1, <1>2, <1>3

-----------------------------------------------------------------------------
(* The node table is the tree: the inductive invariant.
   TreeInv: the cache is complete and right for the committed leaves; the rows of
   an open transaction are subtrees that end with its leaf, one of each span up to
   the last; a reader has the hashes of parts of the leaves it began with, side by
   side from the first on, and wants the rest. *)

\* The first n leaves, and the hashes of their ranges.
First(n) == [i \in 1 .. n |-> leaf[i - 1]]
HashesOf(leaves) == {RangeHash(leaves)[len][start] : len \in Nat \ {0}, start \in Nat}

\* The complete subtrees that end with the last leaf.
LastRows(leaves) ==
    {r \in {[span |-> s, at |-> a, hash |-> RangeHash(leaves)[s][a * s]] : s \in Powers, a \in Nat} :
        (r.at + 1) * r.span = Len(leaves)}

\* What the node table holds.
CacheInv ==
    /\ DOMAIN node = {k \in Powers \X Nat : (k[2] + 1) * k[1] <= size}
    /\ \A k \in DOMAIN node : node[k] = RangeHash(Leaves)[k[1]][k[2] * k[1]]

\* What an open transaction has written.
WrittenInv(p) ==
    pc[p] = "inserted" =>
        /\ written[p] \in Seq(LastRows(Append(Leaves, arg[p])))
        /\ Len(written[p]) > 0
        /\ written[p][1].span = 1
        /\ \A i \in 1 .. Len(written[p]) - 1 : written[p][i + 1].span = 2 * written[p][i].span

\* A range begins at a multiple of every power of two that is not longer.
Aligned(range) ==
    \A k \in Powers : k <= range.len => \E m \in Nat : range.start = m * k

\* A hash that was read: that of the left part of the leaves from at[i] on, or,
\* of the last one once nothing is left to read, that of all of them.
LeftHash(at, i, hash, n, leaves) ==
    /\ at[i] + 1 < n
    /\ at[i + 1] = at[i] + Split(n - at[i])
    /\ hash = RangeHash(leaves)[Split(n - at[i])][at[i]]

LastHash(at, i, hash, n, leaves) ==
    /\ at[i] < n
    /\ hash = RangeHash(leaves)[n - at[i]][at[i]]

LeftHashes(at, m, hashes, n, leaves) ==
    \A i \in 1 .. m : LeftHash(at, i, hashes[i], n, leaves)

\* The first m hashes that were read, the i-th from at[i] on.
ReadFrom(at, m, hashes, range, n, leaves) ==
    /\ at[1] = 0
    /\ range.len > 0 => at[m + 1] = range.start
    /\ \A i \in 1 .. m :
          IF i = m /\ range.len = 0
          THEN LastHash(at, i, hashes[i], n, leaves)
          ELSE LeftHash(at, i, hashes[i], n, leaves)

\* A reader of the first n leaves has read some hashes and wants a range.
Reading(hashes, range, n, leaves) ==
    /\ range \in [start: Nat, len: Nat] /\ range.start + range.len = n
    /\ Aligned(range)
    /\ hashes \in Seq(HashesOf(leaves))
    /\ range.len = 0 => Len(hashes) > 0
    /\ \E at \in [Nat -> Nat] : ReadFrom(at, Len(hashes), hashes, range, n, leaves)

ReadInv(p) ==
    IF pc[p] = "reading"
    THEN idx[p] \in 1 .. size /\ Reading(got[p], want[p], idx[p], First(idx[p]))
    ELSE got[p] = <<>>

TreeInv ==
    /\ DOMAIN written = Process /\ DOMAIN want = Process /\ DOMAIN got = Process
    /\ CacheInv
    /\ \A p \in Process : WrittenInv(p) /\ ReadInv(p)

\* An empty log has an empty cache.
LEMMA TreeInit == Init => TreeInv
<1> SUFFICES ASSUME Init PROVE TreeInv
  OBVIOUS
<1>1. size = 0
  BY FS_EmptySet DEF Init, size
<1>2. CacheInv
  <2>1. ASSUME NEW k \in Powers \X Nat PROVE ~ ((k[2] + 1) * k[1] <= 0)
    <3>1. k[1] \in Nat \ {0} /\ k[2] \in Nat
      BY PowersAre
    <3>2. \A a \in Nat, b \in Nat \ {0} : (a + 1) * b > 0
      OBVIOUS
    <3> QED BY <3>1, <3>2
  <2>2. DOMAIN node = {}
    BY DEF Init
  <2>3. {k \in Powers \X Nat : (k[2] + 1) * k[1] <= size} = {}
    BY <1>1, <2>1
  <2> QED BY <2>2, <2>3 DEF CacheInv
<1> QED BY <1>2 DEF Init, TreeInv, WrittenInv, ReadInv

\* What is known of a process stays while it does nothing and nobody commits.
LEMMA ProcessStays ==
    ASSUME NEW p \in Process, WrittenInv(p), ReadInv(p), leaf' = leaf,
           pc'[p] = pc[p], arg'[p] = arg[p], idx'[p] = idx[p],
           written'[p] = written[p], want'[p] = want[p], got'[p] = got[p]
    PROVE  WrittenInv(p)' /\ ReadInv(p)'
<1>1. Leaves' = Leaves /\ size' = size /\ First(idx[p])' = First(idx[p])
  BY DEF Leaves, size, First
<1>2. WrittenInv(p)'
  BY <1>1 DEF WrittenInv
<1>3. ReadInv(p)'
  BY <1>1 DEF ReadInv
<1> QED BY <1>2, <1>3

\* The cache is right for as long as nobody commits.
LEMMA CacheStays ==
    ASSUME CacheInv, leaf' = leaf, node' = node
    PROVE  CacheInv'
BY DEF CacheInv, Leaves, size

\* A call that is over leaves nothing to hold.
LEMMA DoneKeeps ==
    ASSUME TreeInv, LogInv, NEW p \in Process, Done(p), UNCHANGED tables
    PROVE  TreeInv'
<1>1. leaf' = leaf /\ node' = node
  BY DEF tables
<1>2. /\ DOMAIN pc = Process /\ DOMAIN arg = Process /\ DOMAIN idx = Process
      /\ DOMAIN written = Process /\ DOMAIN want = Process /\ DOMAIN got = Process
  BY DEF LogInv, TypeOK, TreeInv
<1>3. pc'[p] = "idle" /\ got'[p] = <<>>
  BY <1>2 DEF Done
<1>4. \A q \in Process \ {p} :
         /\ pc'[q] = pc[q] /\ arg'[q] = arg[q] /\ idx'[q] = idx[q]
         /\ written'[q] = written[q] /\ want'[q] = want[q] /\ got'[q] = got[q]
  BY <1>2 DEF Done
<1>5. \A q \in Process : WrittenInv(q)' /\ ReadInv(q)'
  <2>1. WrittenInv(p)' /\ ReadInv(p)'
    BY <1>3 DEF WrittenInv, ReadInv
  <2>2. \A q \in Process \ {p} : WrittenInv(q)' /\ ReadInv(q)'
    BY <1>1, <1>4, ProcessStays DEF TreeInv
  <2> QED BY <2>1, <2>2
<1>6. CacheInv'
  BY <1>1, CacheStays DEF TreeInv
<1>7. DOMAIN written' = Process /\ DOMAIN want' = Process /\ DOMAIN got' = Process
  BY <1>2 DEF Done
<1> QED BY <1>5, <1>6, <1>7 DEF TreeInv

\* A step of a process that commits nothing binds no other.
LEMMA OneProcessKeeps ==
    ASSUME TreeInv, NEW p \in Process, UNCHANGED tables, WrittenInv(p)', ReadInv(p)',
           DOMAIN written' = Process, DOMAIN want' = Process, DOMAIN got' = Process,
           \A q \in Process \ {p} :
               /\ pc'[q] = pc[q] /\ arg'[q] = arg[q] /\ idx'[q] = idx[q]
               /\ written'[q] = written[q] /\ want'[q] = want[q] /\ got'[q] = got[q]
    PROVE  TreeInv'
<1>1. leaf' = leaf /\ node' = node
  BY DEF tables
<1>2. \A q \in Process \ {p} : WrittenInv(q)' /\ ReadInv(q)'
  BY <1>1, ProcessStays DEF TreeInv
<1>3. CacheInv'
  BY <1>1, CacheStays DEF TreeInv
<1> QED BY <1>2, <1>3 DEF TreeInv

-----------------------------------------------------------------------------
(* append(): the rows a transaction writes. *)

\* What a row of LastRows is.
LEMMA LastRowIs ==
    ASSUME NEW leaves, NEW r \in LastRows(leaves)
    PROVE  /\ r.span \in Powers /\ r.at \in Nat
           /\ (r.at + 1) * r.span = Len(leaves)
           /\ r.hash = RangeHash(leaves)[r.span][r.at * r.span]
BY DEF LastRows

\* and how one is made.
LEMMA LastRowMade ==
    ASSUME NEW leaves, NEW s \in Powers, NEW a \in Nat, (a + 1) * s = Len(leaves)
    PROVE  [span |-> s, at |-> a, hash |-> RangeHash(leaves)[s][a * s]] \in LastRows(leaves)
BY DEF LastRows

\* The log with one more leaf.
LEMMA ExtendedIs ==
    ASSUME LogInv, NEW l \in Leaf
    PROVE  /\ size \in Nat /\ Len(Leaves) = size
           /\ Len(Append(Leaves, l)) = size + 1
           /\ Append(Leaves, l)[size + 1] = l
           /\ SameLeaves(Append(Leaves, l), Leaves, size)
<1>1. size \in Nat
  BY FS_CardinalityType DEF LogInv, size
<1>2. Leaves \in Seq(Leaf) /\ Len(Leaves) = size
  BY LeavesShape DEF RowsInOrder
<1> QED BY <1>1, <1>2, AppendProperties DEF SameLeaves

\* putNode(0, idx, leaf): the first row is that of the new leaf.
LEMMA InsertTree ==
    ASSUME TreeInv, LogInv, NEW p \in Process, Insert(p)
    PROVE  TreeInv'
<1> DEFINE row == [span |-> 1, at |-> idx[p], hash |-> arg[p]]
           extended == Append(Leaves, arg[p])
<1>1. /\ pc[p] = "begun" /\ idx[p] \notin DOMAIN leaf
      /\ written' = [written EXCEPT ![p] = <<row>>]
      /\ pc' = [pc EXCEPT ![p] = "inserted"]
      /\ UNCHANGED <<tables, arg, idx, want, got>>
  BY DEF Insert
<1>2. /\ DOMAIN pc = Process /\ idx[p] \in Nat
      /\ DOMAIN written = Process /\ DOMAIN want = Process /\ DOMAIN got = Process
  BY DEF LogInv, TypeOK, TreeInv
<1>3. arg[p] \in Leaf /\ idx[p] <= size
  BY <1>1 DEF LogInv, Caller
<1>4. /\ size \in Nat /\ Len(extended) = size + 1 /\ extended[size + 1] = arg[p]
  BY <1>3, ExtendedIs
<1>5. idx[p] = size
  BY <1>1, <1>2, <1>3, <1>4 DEF LogInv, DenseAndDistinct
<1> HIDE DEF extended
<1>6. RangeHash(extended)[1][size * 1] = arg[p]
  <2>1. size * 1 = size
    BY <1>4
  <2>2. RangeHash(extended)[1][size] = Turn(RangeHash(extended), extended, 1, size)
    BY <1>4, RangeHashIs
  <2>3. Turn(RangeHash(extended), extended, 1, size) = extended[size + 1]
    BY DEF Turn
  <2> QED BY <1>4, <2>1, <2>2, <2>3
<1>7. row \in LastRows(extended)
  <2>1. 1 \in Powers /\ (size + 1) * 1 = Len(extended)
    BY <1>4, PowersAre
  <2>2. [span |-> 1, at |-> size, hash |-> RangeHash(extended)[1][size * 1]] \in LastRows(extended)
    BY <1>4, <2>1, LastRowMade
  <2> QED BY <1>5, <1>6, <2>2
<1>8. /\ <<row>> \in Seq(LastRows(extended)) /\ Len(<<row>>) = 1 /\ <<row>>[1].span = 1
  BY <1>7
<1> HIDE DEF row
<1>9. WrittenInv(p)'
  <2>1. written'[p] = <<row>> /\ arg' = arg /\ Leaves' = Leaves
    BY <1>1, <1>2 DEF tables, Leaves, size
  <2> QED BY <2>1, <1>8 DEF WrittenInv, extended
<1>10. ReadInv(p)'
  <2>1. got[p] = <<>>
    BY <1>1 DEF TreeInv, ReadInv
  <2> QED BY <2>1, <1>1, <1>2 DEF ReadInv
<1> QED BY <1>1, <1>2, <1>9, <1>10, OneProcessKeeps

\* A right half and the node to its left end where their parent ends.
LEMMA RightHalf ==
    ASSUME NEW half \in Nat, NEW s \in Nat \ {0}, NEW n \in Nat,
           ((2 * half + 1) + 1) * s = n + 1
    PROVE  /\ half * (2 * s) \in Nat
           /\ ((2 * half + 1) - 1) * s = half * (2 * s)
           /\ (2 * half + 1) * s = half * (2 * s) + s
           /\ half * (2 * s) + s <= n
           /\ (half + 1) * (2 * s) = n + 1
           /\ (2 * half + 1) \div 2 = half
<1>1. half * (2 * s) \in Nat /\ ((2 * half + 1) - 1) * s = half * (2 * s)
  OBVIOUS
<1>2. (2 * half + 1) * s = half * (2 * s) + s
  OBVIOUS
<1>3. (half + 1) * (2 * s) = n + 1
  <2>1. (half + 1) * (2 * s) = ((2 * half + 1) + 1) * s
    OBVIOUS
  <2> QED BY <2>1
<1>4. ((2 * half + 1) + 1) * s = (2 * half + 1) * s + s
  OBVIOUS
<1>5. half * (2 * s) + s <= n
  BY <1>1, <1>2, <1>4
<1> QED BY <1>1, <1>2, <1>3, <1>5

\* The next row up is the parent of the last one and of a committed left half.
LEMMA CompletePairTree ==
    ASSUME TreeInv, LogInv, NEW p \in Process, CompletePair(p)
    PROVE  TreeInv'
<1> DEFINE leaves == Append(Leaves, arg[p])
           rows == written[p]
           n == Len(rows)
           top == rows[n]
           key == <<top.span, top.at - 1>>
           up == [span |-> 2 * top.span, at |-> top.at \div 2,
                  hash |-> HashNode(node[key], top.hash)]
<1>1. /\ pc[p] = "inserted" /\ top.at % 2 = 1
      /\ key \in DOMAIN node
      /\ written' = [written EXCEPT ![p] = Append(rows, up)]
      /\ UNCHANGED <<tables, pc, arg, idx, want, got>>
  BY DEF CompletePair, Top
<1>2. /\ DOMAIN written = Process /\ DOMAIN want = Process /\ DOMAIN got = Process
  BY DEF TreeInv
<1>3. /\ rows \in Seq(LastRows(leaves)) /\ n > 0
      /\ rows[1].span = 1
      /\ \A i \in 1 .. n - 1 : rows[i + 1].span = 2 * rows[i].span
  BY <1>1 DEF TreeInv, WrittenInv
<1>4. arg[p] \in Leaf
  BY <1>1 DEF LogInv, Caller
<1>5. /\ size \in Nat /\ Len(leaves) = size + 1
      /\ SameLeaves(leaves, Leaves, size)
  BY <1>4, ExtendedIs
<1> HIDE DEF leaves
<1>6. n \in Nat /\ n \in 1 .. n /\ top \in LastRows(leaves)
  BY <1>3
<1>7. /\ top.span \in Powers /\ top.at \in Nat /\ (top.at + 1) * top.span = size + 1
      /\ top.hash = RangeHash(leaves)[top.span][top.at * top.span]
  BY <1>5, <1>6, LastRowIs
<1>8. top.span \in Nat \ {0} /\ 2 * top.span \in Powers
  BY <1>7, PowersAre
<1> HIDE DEF top
<1>9. PICK half \in Nat : top.at = 2 * half + 1
  BY <1>1, <1>7
<1> DEFINE s == top.span
           start == half * (2 * s)
<1>10. /\ start \in Nat /\ (top.at - 1) * s = start /\ top.at * s = start + s
       /\ start + s <= size /\ (half + 1) * (2 * s) = size + 1
       /\ top.at \div 2 = half
  <2>1. s \in Nat \ {0} /\ ((2 * half + 1) + 1) * s = size + 1
    BY <1>7, <1>8, <1>9
  <2> HIDE DEF s
  <2>2. /\ half * (2 * s) \in Nat
        /\ ((2 * half + 1) - 1) * s = half * (2 * s)
        /\ (2 * half + 1) * s = half * (2 * s) + s
        /\ half * (2 * s) + s <= size
        /\ (half + 1) * (2 * s) = size + 1
        /\ (2 * half + 1) \div 2 = half
    BY <1>5, <1>9, <2>1, RightHalf
  <2> QED BY <1>9, <2>2
<1> HIDE DEF start
<1>11. node[key] = RangeHash(leaves)[s][start]
  <2>1. node[key] = RangeHash(Leaves)[s][(top.at - 1) * s]
    BY <1>1 DEF TreeInv, CacheInv
  <2>2. RangeHash(leaves)[s][start] = RangeHash(Leaves)[s][start]
    BY <1>5, <1>8, <1>10, HashIsOfTheRange
  <2> QED BY <2>1, <2>2, <1>10
<1>12. RangeHash(leaves)[2 * s][start] = HashNode(node[key], top.hash)
  <2>1. Split(2 * s) = s /\ 2 * s - s = s /\ 2 * s # 1 /\ 2 * s \in Nat \ {0}
    BY <1>7, <1>8, SplitOfDouble
  <2>2. RangeHash(leaves)[2 * s][start]
          = HashNode(RangeHash(leaves)[s][start], RangeHash(leaves)[s][start + s])
    BY <2>1, <1>10, RangeHashIs DEF Turn
  <2> QED BY <2>2, <1>7, <1>10, <1>11
<1>13. up \in LastRows(leaves)
  <2>1. (half + 1) * (2 * s) = Len(leaves) /\ half * (2 * s) = start
    BY <1>5, <1>10 DEF start
  <2>2. [span |-> 2 * s, at |-> half, hash |-> RangeHash(leaves)[2 * s][half * (2 * s)]]
           \in LastRows(leaves)
    BY <1>8, <1>9, <2>1, LastRowMade
  <2> QED BY <2>1, <2>2, <1>10, <1>12
<1>14. up.span = 2 * top.span
  OBVIOUS
<1> HIDE DEF up, key
<1>15. /\ Append(rows, up) \in Seq(LastRows(leaves))
       /\ Len(Append(rows, up)) = n + 1
       /\ Append(rows, up)[n + 1] = up
       /\ \A i \in 1 .. n : Append(rows, up)[i] = rows[i]
  BY <1>3, <1>13, AppendProperties
<1>16. \A i \in 1 .. n : Append(rows, up)[i + 1].span = 2 * Append(rows, up)[i].span
  <2> SUFFICES ASSUME NEW i \in 1 .. n
               PROVE  Append(rows, up)[i + 1].span = 2 * Append(rows, up)[i].span
    OBVIOUS
  <2>1. CASE i = n
    BY <1>6, <1>14, <1>15, <2>1 DEF top
  <2>2. CASE i # n
    <3>1. i \in 1 .. n - 1 /\ i + 1 \in 1 .. n
      BY <1>6, <2>2
    <3> QED BY <1>3, <1>15, <3>1
  <2> QED BY <2>1, <2>2
<1>17. WrittenInv(p)'
  <2>1. written'[p] = Append(rows, up) /\ arg' = arg /\ Leaves' = Leaves
    BY <1>1, <1>2 DEF tables, Leaves, size
  <2>2. Len(Append(rows, up)) > 0 /\ Append(rows, up)[1].span = 1
    BY <1>3, <1>6, <1>15
  <2>3. Len(Append(rows, up)) - 1 = n
    BY <1>6, <1>15
  <2> QED BY <2>1, <2>2, <2>3, <1>15, <1>16 DEF WrittenInv, leaves
<1>18. ReadInv(p)'
  BY <1>1 DEF TreeInv, ReadInv
<1> QED BY <1>1, <1>2, <1>17, <1>18, OneProcessKeeps

-----------------------------------------------------------------------------
(* append(): COMMIT. *)

\* The rows that a transaction has written have all spans up to the last one's.
LEMMA SpansAre ==
    ASSUME NEW rows, Len(rows) \in Nat \ {0}, rows[1].span = 1,
           \A i \in 1 .. Len(rows) : rows[i].span \in Nat,
           \A i \in 1 .. Len(rows) - 1 : rows[i + 1].span = 2 * rows[i].span,
           NEW s \in Powers, s <= rows[Len(rows)].span
    PROVE  \E i \in 1 .. Len(rows) : rows[i].span = s
<1> DEFINE n == Len(rows)
           S == {v \in Nat : (\E i \in 1 .. n : rows[i].span = v) \/ v > rows[n].span}
<1>1. 1 \in S
  OBVIOUS
<1>2. ASSUME NEW v \in S PROVE 2 * v \in S
  <2>1. CASE v > rows[n].span
    BY <2>1
  <2>2. CASE \E i \in 1 .. n : rows[i].span = v
    <3>1. PICK i \in 1 .. n : rows[i].span = v
      BY <2>2
    <3>2. CASE i = n
      <4>1. v > 0 => 2 * v > rows[n].span
        BY <3>1, <3>2
      <4>2. CASE v = 0
        BY <4>2, <3>1
      <4> QED BY <4>1, <4>2
    <3>3. CASE i # n
      <4>1. i \in 1 .. n - 1 /\ i + 1 \in 1 .. n
        BY <3>3
      <4>2. rows[i + 1].span = 2 * v
        BY <3>1, <4>1
      <4> QED BY <4>1, <4>2
    <3> QED BY <3>2, <3>3
  <2> QED BY <2>1, <2>2
<1>3. s \in S
  <2>1. S \in SUBSET Nat
    OBVIOUS
  <2> HIDE DEF S
  <2> QED BY <1>1, <1>2, <2>1, DoublesOnly DEF Powers
<1>4. s \in Nat /\ rows[n].span \in Nat
  BY PowersAre
<1> QED BY <1>3, <1>4

\* Two nodes of one level that end at the same leaf are one.
LEMMA SameEnd ==
    ASSUME NEW a \in Nat, NEW b \in Nat, NEW s \in Nat \ {0}, (a + 1) * s = (b + 1) * s
    PROVE  a = b
<1>1. CASE a < b
  <2>1. (a + 1) * s < (b + 1) * s
    BY <1>1
  <2> QED BY <2>1
<1>2. CASE b < a
  <2>1. (b + 1) * s < (a + 1) * s
    BY <1>2
  <2> QED BY <2>1
<1> QED BY <1>1, <1>2

\* A left half ends no larger subtree.
LEMMA LeftHalf ==
    ASSUME NEW s \in Nat \ {0}, NEW at \in Nat, at % 2 = 0, NEW m \in Nat \ {0}, NEW b \in Nat
    PROVE  (at + 1) * s # (b + 1) * (m * (2 * s))
<1>1. PICK half \in Nat : at = 2 * half
  OBVIOUS
<1> DEFINE c == (b + 1) * m
<1>2. c \in Nat /\ (b + 1) * (m * (2 * s)) = (2 * c) * s
  OBVIOUS
<1> HIDE DEF c
<1>3. at + 1 # 2 * c
  BY <1>1, <1>2
<1>4. CASE at + 1 < 2 * c
  <2>1. (at + 1) * s < (2 * c) * s
    BY <1>2, <1>4
  <2> QED BY <1>2, <2>1
<1>5. CASE at + 1 > 2 * c
  <2>1. (at + 1) * s > (2 * c) * s
    BY <1>2, <1>5
  <2> QED BY <1>2, <2>1
<1> QED BY <1>2, <1>3, <1>4, <1>5

\* COMMIT: the rows that were written are those of every complete subtree that
\* ends with the new leaf, because the last one is a left half.
LEMMA CommitCache ==
    ASSUME TreeInv, LogInv, LogInv', NEW p \in Process, Commit(p)
    PROVE  CacheInv'
<1> DEFINE leaves == Append(Leaves, arg[p])
           rows == written[p]
           n == Len(rows)
           top == rows[n]
           keys == {WrittenKey(rows[i]) : i \in 1 .. n}
<1>1. /\ pc[p] = "inserted" /\ top.at % 2 = 0
      /\ node' = [k \in DOMAIN node \cup keys |->
                    IF k \in DOMAIN node THEN node[k]
                    ELSE rows[CHOOSE i \in 1 .. n : WrittenKey(rows[i]) = k].hash]
  BY DEF Commit, Top
<1>2. /\ rows \in Seq(LastRows(leaves)) /\ n \in Nat \ {0}
      /\ rows[1].span = 1
      /\ \A i \in 1 .. n - 1 : rows[i + 1].span = 2 * rows[i].span
  BY <1>1 DEF TreeInv, WrittenInv
<1>3. arg[p] \in Leaf /\ size' = size + 1 /\ Leaves' = leaves
  BY CommitShape, CommitAppends DEF Log!AppendLeaf
<1>4. /\ size \in Nat /\ Len(leaves) = size + 1
      /\ SameLeaves(leaves, Leaves, size)
  BY <1>3, ExtendedIs
<1> HIDE DEF leaves
<1>12. ASSUME NEW len \in Nat \ {0}, NEW start \in Nat, start + len <= size
      PROVE  RangeHash(leaves)[len][start] = RangeHash(Leaves)[len][start]
  BY <1>4, <1>12, HashIsOfTheRange
<1>5. ASSUME NEW i \in 1 .. n
      PROVE  /\ rows[i].span \in Powers /\ rows[i].at \in Nat
             /\ (rows[i].at + 1) * rows[i].span = size + 1
             /\ rows[i].hash = RangeHash(leaves)[rows[i].span][rows[i].at * rows[i].span]
  <2>1. rows[i] \in LastRows(leaves)
    BY <1>2
  <2> QED BY <1>4, <2>1, LastRowIs
<1> HIDE DEF rows
<1> DEFINE full == {k \in Powers \X Nat : (k[2] + 1) * k[1] <= size + 1}
<1>6. DOMAIN node = {k \in Powers \X Nat : (k[2] + 1) * k[1] <= size}
  BY DEF TreeInv, CacheInv
<1>7. ASSUME NEW k \in Powers \X Nat
      PROVE  k[1] \in Nat \ {0} /\ k[2] \in Nat /\ (k[2] + 1) * k[1] \in Nat
  <2>1. k[1] \in Nat \ {0} /\ k[2] \in Nat
    BY PowersAre
  <2> QED BY <2>1
<1>8. DOMAIN node \cup keys \subseteq full
  <2>1. DOMAIN node \subseteq full
    BY <1>4, <1>6, <1>7
  <2>2. keys \subseteq full
    BY <1>4, <1>5 DEF WrittenKey
  <2> QED BY <2>1, <2>2
<1>9. full \subseteq DOMAIN node \cup keys
  <2> SUFFICES ASSUME NEW k \in full, k \notin DOMAIN node
               PROVE  k \in keys
    OBVIOUS
  <2>1. k[1] \in Powers /\ k[1] \in Nat \ {0} /\ k[2] \in Nat /\ k = <<k[1], k[2]>>
    BY <1>7
  <2>2. (k[2] + 1) * k[1] = size + 1
    BY <1>4, <1>6, <1>7
  <2>3. /\ top.span \in Powers /\ top.span \in Nat \ {0} /\ top.at \in Nat
        /\ (top.at + 1) * top.span = size + 1
    <3>1. n \in 1 .. n
      BY <1>2
    <3>2. top.span \in Powers /\ top.at \in Nat /\ (top.at + 1) * top.span = size + 1
      BY <1>5, <3>1
    <3> QED BY <3>2, PowersAre
  <2>4. k[1] <= top.span
    <3> SUFFICES ASSUME top.span < k[1] PROVE FALSE
      BY <2>1, <2>3
    <3>1. PICK m \in Nat \ {0} : k[1] = m * (2 * top.span)
      BY <2>1, <2>3, PowersApart
    <3>2. (top.at + 1) * top.span # (k[2] + 1) * (m * (2 * top.span))
      BY <1>1, <2>1, <2>3, LeftHalf
    <3> QED BY <2>2, <2>3, <3>1, <3>2
  <2>5. PICK i \in 1 .. n : rows[i].span = k[1]
    <3>1. \A i \in 1 .. n : rows[i].span \in Nat
      BY <1>5, PowersAre
    <3> QED BY <1>2, <2>1, <2>4, <3>1, SpansAre
  <2>6. rows[i].at = k[2]
    <3>1. rows[i].at \in Nat /\ (rows[i].at + 1) * k[1] = size + 1
      BY <1>5, <2>5
    <3> QED BY <2>1, <2>2, <3>1, SameEnd
  <2> QED BY <2>1, <2>5, <2>6 DEF WrittenKey
<1>10. DOMAIN node' = full
  BY <1>1, <1>8, <1>9
<1>11. ASSUME NEW k \in full
       PROVE  node'[k] = RangeHash(leaves)[k[1]][k[2] * k[1]]
  <2>1. CASE k \in DOMAIN node
    <3>1. node'[k] = node[k]
      BY <1>1, <2>1
    <3>2. node[k] = RangeHash(Leaves)[k[1]][k[2] * k[1]]
      BY <2>1 DEF TreeInv, CacheInv
    <3>3. k[1] \in Nat \ {0} /\ k[2] \in Nat /\ (k[2] + 1) * k[1] <= size
      BY <1>6, <1>7, <2>1
    <3>4. k[2] * k[1] \in Nat /\ k[2] * k[1] + k[1] <= size
      <4>1. (k[2] + 1) * k[1] = k[2] * k[1] + k[1] /\ k[2] * k[1] \in Nat
        BY <3>3
      <4> QED BY <3>3, <4>1
    <3>5. RangeHash(leaves)[k[1]][k[2] * k[1]] = RangeHash(Leaves)[k[1]][k[2] * k[1]]
      BY <1>12, <3>3, <3>4
    <3> QED BY <3>1, <3>2, <3>5
  <2>2. CASE k \notin DOMAIN node
    <3> DEFINE j == CHOOSE i \in 1 .. n : WrittenKey(rows[i]) = k
    <3>1. k \in keys /\ node'[k] = rows[j].hash
      BY <1>1, <1>9, <2>2
    <3>2. j \in 1 .. n /\ WrittenKey(rows[j]) = k
      BY <3>1
    <3> HIDE DEF j
    <3>3. k[1] = rows[j].span /\ k[2] = rows[j].at
      BY <3>2 DEF WrittenKey
    <3> QED BY <1>5, <3>1, <3>2, <3>3
  <2> QED BY <2>1, <2>2
<1> QED BY <1>3, <1>10, <1>11 DEF CacheInv

\* A commit adds rows that no reader asks for, and changes none that one does.
LEMMA CommitTree ==
    ASSUME TreeInv, LogInv, LogInv', NEW p \in Process, Commit(p)
    PROVE  TreeInv'
<1>1. /\ Done(p) /\ pc[p] = "inserted"
      /\ DOMAIN pc = Process /\ DOMAIN arg = Process /\ DOMAIN idx = Process
      /\ DOMAIN written = Process /\ DOMAIN want = Process /\ DOMAIN got = Process
  BY DEF Commit, LogInv, TypeOK, TreeInv
<1>2. DOMAIN written' = Process /\ DOMAIN want' = Process /\ DOMAIN got' = Process
  BY <1>1 DEF Done
<1>3. /\ size \in Nat /\ size' = size + 1
      /\ DOMAIN leaf = 0 .. size - 1
      /\ \A i \in DOMAIN leaf : leaf'[i] = leaf[i]
  BY CommitShape DEF LogInv, DenseAndDistinct
<1>4. ASSUME NEW q \in Process \ {p} PROVE WrittenInv(q)' /\ ReadInv(q)'
  <2>1. /\ pc'[q] = pc[q] /\ idx'[q] = idx[q] /\ want'[q] = want[q] /\ got'[q] = got[q]
    BY <1>1 DEF Done
  <2>2. pc[q] # "inserted"
    BY <1>1 DEF LogInv, Caller
  <2>3. CASE pc[q] = "reading"
    <3>1. idx[q] \in 1 .. size /\ Reading(got[q], want[q], idx[q], First(idx[q]))
      BY <2>3 DEF TreeInv, ReadInv
    <3>2. First(idx[q])' = First(idx[q])
      <4>1. \A i \in 1 .. idx[q] : i - 1 \in DOMAIN leaf
        BY <1>3, <3>1
      <4> QED BY <1>3, <2>1, <4>1 DEF First
    <3>3. idx[q] \in 1 .. size'
      BY <1>3, <3>1
    <3> QED BY <2>1, <2>2, <2>3, <3>1, <3>2, <3>3 DEF WrittenInv, ReadInv
  <2>4. CASE pc[q] # "reading"
    BY <2>1, <2>2, <2>4 DEF TreeInv, WrittenInv, ReadInv
  <2> QED BY <2>3, <2>4
<1>5. WrittenInv(p)' /\ ReadInv(p)'
  BY <1>1 DEF Done, WrittenInv, ReadInv
<1> QED BY <1>2, <1>4, <1>5, CommitCache DEF TreeInv

-----------------------------------------------------------------------------
(* root(): reading. *)

\* What rangeRoot reads of a range.
LEMMA BlockIs ==
    ASSUME NEW len \in Nat \ {0}
    PROVE  /\ Block(len) \in Powers /\ Block(len) \in 1 .. len
           /\ len - Block(len) <= Block(len)
           /\ Block(len) = len \/ (len > 1 /\ Block(len) = Split(len))
<1>1. CASE IsPow2(len)
  <2>1. Block(len) = len
    BY <1>1 DEF Block
  <2>2. len \in Powers
    BY <1>1, IsPow2Is
  <2> QED BY <2>1, <2>2
<1>2. CASE ~ IsPow2(len)
  <2>1. Block(len) = Split(len) /\ len # 1
    BY <1>2 DEF Block, IsPow2
  <2>2. Split(len) \in Powers /\ Split(len) \in 1 .. len - 1 /\ len - Split(len) <= Split(len)
    BY <2>1, SplitIs, SplitParts
  <2> QED BY <2>1, <2>2
<1> QED BY <1>1, <1>2

\* The index of the row that begins at a multiple of its span.
LEMMA Quotient ==
    ASSUME NEW m \in Nat, NEW k \in Nat \ {0}
    PROVE  (m * k) \div k = m
OBVIOUS

\* What a range is.
LEMMA RangeOf ==
    ASSUME NEW range \in [start: Nat, len: Nat]
    PROVE  range.start \in Nat /\ range.len \in Nat
OBVIOUS

\* The row that is read next is there and is the hash of its range.
LEMMA RowIsThere ==
    ASSUME CacheInv, size \in Nat, NEW range \in [start: Nat, len: Nat], range.len > 0,
           Aligned(range), range.start + range.len <= size
    PROVE  /\ WantedKey(range) \in DOMAIN node
           /\ node[WantedKey(range)] = RangeHash(Leaves)[Block(range.len)][range.start]
<1> DEFINE k == Block(range.len)
           start == range.start
           len == range.len
<1>1. len \in Nat \ {0} /\ start \in Nat /\ start + len <= size
  BY RangeOf
<1>2. k \in Powers /\ k \in 1 .. len
  BY <1>1, BlockIs
<1>3. WantedKey(range) = <<k, start \div k>>
  BY DEF WantedKey
<1>4. k \in Nat \ {0} /\ k <= len
  BY <1>1, <1>2
<1>5. \A j \in Powers : j <= len => \E m \in Nat : start = m * j
  BY DEF Aligned
<1>10. RangeHash(Leaves)[Block(range.len)][range.start] = RangeHash(Leaves)[k][start]
  OBVIOUS
<1> HIDE DEF k, start, len
<1>6. PICK m \in Nat : start = m * k
  BY <1>2, <1>4, <1>5
<1>7. start \div k = m
  BY <1>4, <1>6, Quotient
<1>8. <<k, m>> \in DOMAIN node
  <2>1. (m + 1) * k = m * k + k
    BY <1>4
  <2>2. (m + 1) * k <= size
    BY <1>1, <1>4, <1>6, <2>1
  <2>3. <<k, m>> \in Powers \X Nat
    BY <1>2
  <2> QED BY <2>2, <2>3 DEF CacheInv
<1>9. node[<<k, m>>] = RangeHash(Leaves)[k][m * k]
  BY <1>8 DEF CacheInv
<1> QED BY <1>3, <1>6, <1>7, <1>8, <1>9, <1>10

\* The first leaves are those of the whole log.
LEMMA FirstIs ==
    ASSUME size \in Nat, NEW n \in 1 .. size
    PROVE  SameLeaves(First(n), Leaves, n)
BY DEF SameLeaves, First, Leaves

\* root() begins with the whole log, and nothing read.
LEMMA ReadSizeTree ==
    ASSUME TreeInv, LogInv, NEW p \in Process, ReadSize(p)
    PROVE  TreeInv'
<1>1. /\ pc[p] = "idle" /\ size > 0
      /\ idx' = [idx EXCEPT ![p] = size]
      /\ want' = [want EXCEPT ![p] = [start |-> 0, len |-> size]]
      /\ pc' = [pc EXCEPT ![p] = "reading"]
      /\ UNCHANGED <<tables, lock, arg, written, got, answered>>
  BY DEF ReadSize
<1>2. /\ DOMAIN pc = Process /\ DOMAIN idx = Process
      /\ DOMAIN written = Process /\ DOMAIN want = Process /\ DOMAIN got = Process
  BY DEF LogInv, TypeOK, TreeInv
<1>3. size \in Nat
  BY FS_CardinalityType DEF LogInv, size
<1>4. got[p] = <<>>
  BY <1>1 DEF TreeInv, ReadInv
<1> DEFINE range == [start |-> 0, len |-> size]
<1>5. Aligned(range)
  <2>1. \A k \in Powers : 0 = 0 * k
    BY PowersAre
  <2> QED BY <2>1 DEF Aligned
<1>6. ReadFrom([i \in Nat |-> 0], 0, <<>>, range, size, First(size))
  BY <1>1, <1>3 DEF ReadFrom
<1>7. Reading(<<>>, range, size, First(size))
  <2>1. [i \in Nat |-> 0] \in [Nat -> Nat]
    OBVIOUS
  <2>2. <<>> \in Seq(HashesOf(First(size))) /\ Len(<<>>) = 0
    OBVIOUS
  <2>3. range \in [start: Nat, len: Nat] /\ range.start + range.len = size /\ range.len # 0
    BY <1>1, <1>3
  <2> HIDE DEF range
  <2> QED BY <1>5, <1>6, <2>1, <2>2, <2>3 DEF Reading
<1>8. /\ pc'[p] = "reading" /\ got'[p] = <<>> /\ want'[p] = range /\ idx'[p] = size
      /\ size' = size /\ First(size)' = First(size)
  BY <1>1, <1>2, <1>4 DEF tables, size, First
<1> HIDE DEF range
<1>9. ReadInv(p)'
  <2>1. idx'[p] \in 1 .. size'
    BY <1>1, <1>3, <1>8
  <2>2. First(idx[p])' = First(size)
    BY <1>8 DEF First
  <2> QED BY <1>7, <1>8, <2>1, <2>2 DEF ReadInv
<1>10. WrittenInv(p)'
  BY <1>8 DEF WrittenInv
<1> QED BY <1>1, <1>2, <1>9, <1>10, OneProcessKeeps DEF tables

\* What is wanted of a range that is aligned is aligned.
LEMMA RestIsAligned ==
    ASSUME NEW range \in [start: Nat, len: Nat], range.len > 0, Aligned(range),
           NEW next, next.start = range.start + Block(range.len),
           next.len = range.len - Block(range.len)
    PROVE  Aligned(next)
<1> DEFINE k == Block(range.len)
           start == range.start
           len == range.len
<1>1. len \in Nat \ {0} /\ start \in Nat
  BY RangeOf
<1>2. k \in Powers /\ k \in 1 .. len /\ len - k <= k
  BY <1>1, BlockIs
<1>3. \A j \in Powers : j <= len => \E m \in Nat : start = m * j
  BY DEF Aligned
<1>4. next.start = start + k /\ next.len = len - k
  OBVIOUS
<1> HIDE DEF k, start, len
<1> SUFFICES ASSUME NEW j \in Powers, j <= len - k
             PROVE  \E i \in Nat : start + k = i * j
  BY <1>4 DEF Aligned
<1>5. j \in Nat \ {0} /\ k \in Nat \ {0} /\ j <= k /\ k <= len
  BY <1>1, <1>2, PowersAre
<1>6. PICK c \in Nat \ {0} : k = c * j
  BY <1>2, <1>5, PowersDivide
<1>7. PICK m \in Nat : start = m * k
  BY <1>2, <1>3, <1>5
<1>8. start + k = (m * c + c) * j /\ m * c + c \in Nat
  BY <1>5, <1>6, <1>7
<1> QED BY <1>8

\* The hashes that were read of a range that is not yet read.
LEMMA ReadFromIs ==
    ASSUME NEW at, NEW m \in Nat, NEW hashes, NEW range, range.len \in Nat \ {0}, NEW n, NEW leaves
    PROVE  ReadFrom(at, m, hashes, range, n, leaves) <=>
             /\ at[1] = 0 /\ at[m + 1] = range.start
             /\ LeftHashes(at, m, hashes, n, leaves)
BY DEF ReadFrom, LeftHashes

\* One more hash: the last of a complete range, or its left part.
LEMMA ReadFromAll ==
    ASSUME NEW n \in Nat, NEW leaves, NEW hashes, NEW m \in Nat, NEW at \in [Nat -> Nat],
           NEW start \in Nat, NEW len \in Nat \ {0}, start + len = n,
           at[1] = 0, at[m + 1] = start,
           LeftHashes(at, m, hashes, n, leaves),
           NEW more, SameLeaves(more, hashes, m),
           more[m + 1] = RangeHash(leaves)[len][start],
           NEW next, next.len = 0
    PROVE  ReadFrom(at, m + 1, more, next, n, leaves)
<1>1. ASSUME NEW i \in 1 .. m PROVE LeftHash(at, i, more[i], n, leaves)
  <2>1. more[i] = hashes[i]
    BY DEF SameLeaves
  <2> QED BY <2>1 DEF LeftHashes
<1>2. LastHash(at, m + 1, more[m + 1], n, leaves)
  <2>1. n - start = len /\ start < n
    OBVIOUS
  <2> QED BY <2>1 DEF LastHash
<1>3. ~ (next.len > 0)
  OBVIOUS
<1>4. \A i \in 1 .. m + 1 : IF i = m + 1 /\ next.len = 0
                            THEN LastHash(at, i, more[i], n, leaves)
                            ELSE LeftHash(at, i, more[i], n, leaves)
  <2> SUFFICES ASSUME NEW i \in 1 .. m + 1
               PROVE  IF i = m + 1 THEN LastHash(at, i, more[i], n, leaves)
                                   ELSE LeftHash(at, i, more[i], n, leaves)
    OBVIOUS
  <2>1. CASE i = m + 1
    BY <1>2, <2>1
  <2>2. CASE i # m + 1
    <3>1. i \in 1 .. m
      BY <2>2
    <3> QED BY <1>1, <2>2, <3>1
  <2> QED BY <2>1, <2>2
<1> QED BY <1>3, <1>4 DEF ReadFrom

At(at, i, start) == [j \in Nat |-> IF j = i THEN start ELSE at[j]]

\* One hash more, of a left part: what is still wanted begins where that part ends.
LEMMA ReadFromLeft ==
    ASSUME NEW n \in Nat, NEW leaves, NEW hashes, NEW m \in Nat, NEW at \in [Nat -> Nat],
           at[1] = 0, at[m + 1] + 1 < n, LeftHashes(at, m, hashes, n, leaves),
           NEW more, SameLeaves(more, hashes, m),
           more[m + 1] = RangeHash(leaves)[Split(n - at[m + 1])][at[m + 1]],
           NEW next, next.start = at[m + 1] + Split(n - at[m + 1]),
           next.len \in Nat, next.len # 0
    PROVE  /\ At(at, m + 2, next.start) \in [Nat -> Nat]
           /\ ReadFrom(At(at, m + 2, next.start), m + 1, more, next, n, leaves)
<1> DEFINE stop == next.start
           start == at[m + 1]
           to == At(at, m + 2, stop)
<1>1. /\ start \in Nat /\ stop = start + Split(n - start) /\ stop \in Nat
      /\ start + 1 < n
      /\ more[m + 1] = RangeHash(leaves)[Split(n - start)][start]
  <2>1. start \in Nat /\ n - start \in Nat \ {0} /\ n - start # 1
    OBVIOUS
  <2> HIDE DEF start
  <2>2. Split(n - start) \in Nat
    BY <2>1, SplitParts
  <2> QED BY <2>1, <2>2 DEF start
<1>7. /\ to \in [Nat -> Nat] /\ to[m + 2] = stop
      /\ \A i \in 1 .. m + 1 : to[i] = at[i]
  <2> HIDE DEF stop
  <2> QED BY <1>1 DEF At
<1>2. /\ to \in [Nat -> Nat] /\ to[m + 2] = stop
      /\ \A i \in 1 .. m + 1 : to[i] = at[i]
      /\ at[m + 1] = start
  BY <1>7
<1> HIDE DEF stop, to, start
<1>3. /\ to[1] = 0 /\ to[(m + 1) + 1] = stop
      /\ to[m + 1] = start
  <2>1. 1 \in 1 .. m + 1 /\ m + 1 \in 1 .. m + 1 /\ (m + 1) + 1 = m + 2
    OBVIOUS
  <2> QED BY <1>2, <2>1
<1>4. ASSUME NEW i \in 1 .. m PROVE LeftHash(to, i, more[i], n, leaves)
  <2>1. more[i] = hashes[i]
    BY DEF SameLeaves
  <2>2. i \in 1 .. m + 1 /\ i + 1 \in 1 .. m + 1
    OBVIOUS
  <2>3. to[i] = at[i] /\ to[i + 1] = at[i + 1]
    BY <1>2, <2>2
  <2>4. LeftHash(at, i, hashes[i], n, leaves)
    BY DEF LeftHashes
  <2> QED BY <2>1, <2>3, <2>4 DEF LeftHash
<1>5. LeftHash(to, m + 1, more[m + 1], n, leaves)
  BY <1>1, <1>3 DEF LeftHash
<1>6. LeftHashes(to, m + 1, more, n, leaves)
  BY <1>4, <1>5 DEF LeftHashes
<1>8. ReadFrom(to, m + 1, more, next, n, leaves)
  <2>1. m + 1 \in Nat /\ next.len \in Nat \ {0}
    OBVIOUS
  <2>2. to[1] = 0 /\ to[(m + 1) + 1] = next.start
    BY <1>3 DEF stop
  <2> QED BY <1>6, <2>1, <2>2, ReadFromIs
<1> QED BY <1>2, <1>8 DEF to, stop

\* One SELECT more.
LEMMA ReadMore ==
    ASSUME NEW n \in Nat, NEW leaves, NEW hashes, NEW range,
           Reading(hashes, range, n, leaves), range.len > 0,
           NEW hash, hash = RangeHash(leaves)[Block(range.len)][range.start],
           NEW next, next \in [start: Nat, len: Nat],
           next.start = range.start + Block(range.len),
           next.len = range.len - Block(range.len)
    PROVE  Reading(Append(hashes, hash), next, n, leaves)
<1> DEFINE k == Block(range.len)
           start == range.start
           len == range.len
           more == Append(hashes, hash)
           m == Len(hashes)
<1>1. /\ range \in [start: Nat, len: Nat] /\ start + len = n
      /\ Aligned(range)
      /\ hashes \in Seq(HashesOf(leaves))
  BY DEF Reading
<1>2. start \in Nat /\ len \in Nat \ {0} /\ m \in Nat
  BY <1>1, RangeOf
<1>3. \E at \in [Nat -> Nat] : ReadFrom(at, m, hashes, range, n, leaves)
  BY DEF Reading
<1>15. PICK at \in [Nat -> Nat] : ReadFrom(at, m, hashes, range, n, leaves)
  BY <1>3
<1>4. /\ at[1] = 0 /\ at[m + 1] = start
      /\ LeftHashes(at, m, hashes, n, leaves)
  BY <1>2, <1>15, ReadFromIs
<1>5. /\ k \in 1 .. len
      /\ k = len \/ (len > 1 /\ k = Split(len))
  BY <1>2, BlockIs
<1>6. next.start = start + k /\ next.len = len - k
  OBVIOUS
<1>7. Aligned(next)
  BY <1>1, <1>2, <1>6, RestIsAligned
<1>8. hash = RangeHash(leaves)[k][start]
  OBVIOUS
<1> HIDE DEF k, start, len
<1>9. next.start + next.len = n
  <2>1. k \in Nat /\ (start + k) + (len - k) = start + len
    BY <1>2, <1>5
  <2> QED BY <1>1, <1>6, <2>1
<1>10. hash \in HashesOf(leaves)
  <2>1. k \in Nat \ {0} /\ start \in Nat
    BY <1>2, <1>5
  <2> QED BY <1>8, <2>1 DEF HashesOf
<1>11. /\ more \in Seq(HashesOf(leaves)) /\ Len(more) = m + 1
       /\ more[m + 1] = hash
       /\ SameLeaves(more, hashes, m)
  BY <1>1, <1>10, AppendProperties DEF SameLeaves
<1> HIDE DEF more, m
<1>12. \E to \in [Nat -> Nat] : ReadFrom(to, m + 1, more, next, n, leaves)
  <2>1. CASE k = len
    <3>1. next.len = 0
      BY <1>2, <1>6, <2>1
    <3>2. more[m + 1] = RangeHash(leaves)[len][start]
      BY <1>8, <1>11, <2>1
    <3>3. ReadFrom(at, m + 1, more, next, n, leaves)
      BY <1>1, <1>2, <1>4, <1>11, <3>1, <3>2, ReadFromAll
    <3> QED BY <3>3
  <2>2. CASE k # len
    <3>1. len > 1 /\ k = Split(len)
      BY <1>5, <2>2
    <3>2. n - at[m + 1] = len /\ at[m + 1] + 1 < n
      <4>1. n - start = len /\ start + 1 < n
        <5>1. start + len = n
          BY <1>1
        <5> QED BY <1>2, <3>1, <5>1
      <4>2. at[m + 1] = start
        BY <1>4
      <4> QED BY <4>1, <4>2
    <3>3. /\ more[m + 1] = RangeHash(leaves)[Split(n - at[m + 1])][at[m + 1]]
          /\ next.start = at[m + 1] + Split(n - at[m + 1])
      BY <1>4, <1>6, <1>8, <1>11, <3>1, <3>2
    <3>4. next.len \in Nat /\ next.len # 0
      BY <1>2, <1>5, <1>6, <2>2
    <3> DEFINE to == At(at, m + 2, next.start)
    <3>5. to \in [Nat -> Nat] /\ ReadFrom(to, m + 1, more, next, n, leaves)
      BY <1>2, <1>4, <1>11, <3>2, <3>3, <3>4, ReadFromLeft
    <3> QED BY <3>5
  <2> QED BY <2>1, <2>2
<1>13. Len(more) > 0
  BY <1>2, <1>11
<1>14. Reading(more, next, n, leaves)
  BY <1>7, <1>9, <1>11, <1>12, <1>13 DEF Reading
<1> QED BY <1>14 DEF more

\* The row is there, although the table may have grown since the size was read.
LEMMA ReadNodeTree ==
    ASSUME TreeInv, LogInv, NEW p \in Process, ReadNode(p)
    PROVE  TreeInv'
<1> DEFINE range == want[p]
           n == idx[p]
           leaves == First(n)
           k == Block(range.len)
           hash == node[WantedKey(range)]
           next == [start |-> range.start + k, len |-> range.len - k]
<1>1. /\ pc[p] = "reading" /\ range.len > 0
      /\ got' = [got EXCEPT ![p] = Append(got[p], hash)]
      /\ want' = [want EXCEPT ![p] = next]
      /\ UNCHANGED <<tables, pc, arg, idx, written>>
  BY DEF ReadNode
<1>2. DOMAIN written = Process /\ DOMAIN want = Process /\ DOMAIN got = Process
  BY DEF TreeInv
<1>3. size \in Nat /\ CacheInv
  BY FS_CardinalityType DEF LogInv, size, TreeInv
<1>4. n \in 1 .. size /\ Reading(got[p], range, n, leaves)
  BY <1>1 DEF TreeInv, ReadInv
<1>5. n \in Nat /\ n <= size
  BY <1>3, <1>4
<1>6. range \in [start: Nat, len: Nat] /\ range.start + range.len = n /\ Aligned(range)
  BY <1>4 DEF Reading
<1>7. hash = RangeHash(leaves)[k][range.start]
  <2>1. range.start + range.len <= size
    BY <1>5, <1>6
  <2>2. hash = RangeHash(Leaves)[k][range.start]
    BY <1>1, <1>3, <1>6, <2>1, RowIsThere
  <2>3. SameLeaves(leaves, Leaves, n)
    BY <1>3, <1>4, FirstIs
  <2>4. k \in Nat \ {0} /\ range.start \in Nat /\ range.start + k <= n
    <3>1. range.start \in Nat /\ range.len \in Nat \ {0}
      BY <1>1, <1>6, RangeOf
    <3>2. k \in 1 .. range.len
      BY <3>1, BlockIs
    <3> HIDE DEF k
    <3> QED BY <1>5, <1>6, <3>1, <3>2
  <2> HIDE DEF k, leaves, hash, n
  <2> QED BY <1>5, <2>2, <2>3, <2>4, HashIsOfTheRange
<1>8. Reading(Append(got[p], hash), next, n, leaves)
  <2>1. /\ next \in [start: Nat, len: Nat]
        /\ next.start = range.start + Block(range.len) /\ next.len = range.len - Block(range.len)
    <3>1. range.start \in Nat /\ range.len \in Nat \ {0}
      BY <1>1, <1>6, RangeOf
    <3>2. k \in 1 .. range.len
      BY <3>1, BlockIs
    <3> HIDE DEF k
    <3>3. range.start + k \in Nat /\ range.len - k \in Nat
      BY <3>1, <3>2
    <3>4. next \in [start: Nat, len: Nat] /\ next.start = range.start + k /\ next.len = range.len - k
      BY <3>3
    <3> QED BY <3>4 DEF k
  <2>2. hash = RangeHash(leaves)[Block(range.len)][range.start]
    BY <1>7
  <2> HIDE DEF n, leaves, hash, next, range
  <2> QED BY <1>1, <1>4, <1>5, <2>1, <2>2, ReadMore
<1> HIDE DEF hash, next
<1>9. /\ pc'[p] = "reading" /\ got'[p] = Append(got[p], hash) /\ want'[p] = next /\ idx' = idx
      /\ leaf' = leaf
  BY <1>1, <1>2 DEF tables
<1>10. ReadInv(p)'
  <2>1. First(idx[p])' = leaves /\ size' = size
    BY <1>9 DEF First, size
  <2> HIDE DEF leaves
  <2> QED BY <1>4, <1>8, <1>9, <2>1 DEF ReadInv
<1>11. WrittenInv(p)'
  BY <1>9 DEF WrittenInv
<1> QED BY <1>1, <1>2, <1>10, <1>11, OneProcessKeeps

-----------------------------------------------------------------------------
(* root(): returning. *)

\* The hashes that were read once nothing is left to read.
LEMMA ReadFromEnds ==
    ASSUME NEW at, NEW m \in Nat \ {0}, NEW hashes, NEW range, range.len = 0, NEW n, NEW leaves
    PROVE  ReadFrom(at, m, hashes, range, n, leaves) <=>
             /\ at[1] = 0
             /\ LeftHashes(at, m - 1, hashes, n, leaves)
             /\ LastHash(at, m, hashes[m], n, leaves)
<1>1. ~ (range.len > 0)
  OBVIOUS
<1>2. m \in 1 .. m /\ m - 1 \in Nat /\ \A i \in 1 .. m : i = m \/ (i # m /\ i \in 1 .. m - 1)
  OBVIOUS
<1>3. \A i \in 1 .. m - 1 : i \in 1 .. m /\ i # m
  OBVIOUS
<1>4. ASSUME ReadFrom(at, m, hashes, range, n, leaves)
      PROVE  /\ at[1] = 0 /\ LeftHashes(at, m - 1, hashes, n, leaves)
             /\ LastHash(at, m, hashes[m], n, leaves)
  BY <1>2, <1>3, <1>4 DEF ReadFrom, LeftHashes
<1>5. ASSUME at[1] = 0, LeftHashes(at, m - 1, hashes, n, leaves),
             LastHash(at, m, hashes[m], n, leaves)
      PROVE  ReadFrom(at, m, hashes, range, n, leaves)
  BY <1>1, <1>2, <1>5 DEF ReadFrom, LeftHashes
<1> QED BY <1>4, <1>5

\* What an inner call returns.
Returned(hashes) ==
    [i \in 1 .. Len(hashes) - 1 |->
        IF i = Len(hashes) - 1 THEN HashNode(hashes[i], hashes[i + 1]) ELSE hashes[i]]

\* The hash of the two last parts is that of the range they are parts of.
LEMMA LastOfTwo ==
    ASSUME NEW n \in Nat, NEW leaves, NEW at \in [Nat -> Nat], NEW i \in Nat, NEW left, NEW right,
           LeftHash(at, i, left, n, leaves), LastHash(at, i + 1, right, n, leaves)
    PROVE  /\ LastHash(at, i, HashNode(left, right), n, leaves)
           /\ HashNode(left, right) \in HashesOf(leaves)
<1> DEFINE start == at[i]
           len == n - start
<1>1. start \in Nat /\ start + 1 < n
  BY DEF LeftHash
<1>2. at[i + 1] = start + Split(len) /\ left = RangeHash(leaves)[Split(len)][start]
  BY DEF LeftHash
<1>3. right = RangeHash(leaves)[n - at[i + 1]][at[i + 1]]
  BY DEF LastHash
<1>4. len \in Nat \ {0} /\ len # 1
  BY <1>1
<1>5. LastHash(at, i, HashNode(left, right), n, leaves) <=>
        start < n /\ HashNode(left, right) = RangeHash(leaves)[len][start]
  BY DEF LastHash
<1>6. n = start + len
  BY <1>1
<1> HIDE DEF start, len
<1>7. Split(len) \in Nat
  BY <1>4, SplitParts
<1>8. n - at[i + 1] = len - Split(len)
  BY <1>1, <1>2, <1>4, <1>6, <1>7
<1>9. right = RangeHash(leaves)[len - Split(len)][start + Split(len)]
  BY <1>2, <1>3, <1>8
<1>10. RangeHash(leaves)[len][start] = Turn(RangeHash(leaves), leaves, len, start)
  BY <1>1, <1>4, RangeHashIs
<1>11. HashNode(left, right) = RangeHash(leaves)[len][start]
  BY <1>2, <1>4, <1>9, <1>10 DEF Turn
<1>12. start < n
  BY <1>1
<1>13. HashNode(left, right) \in HashesOf(leaves)
  BY <1>1, <1>4, <1>11 DEF HashesOf
<1> QED BY <1>5, <1>11, <1>12, <1>13

\* One call less: the two last hashes are one.
LEMMA ReturnMore ==
    ASSUME NEW n \in Nat, NEW leaves, NEW hashes, NEW range,
           Reading(hashes, range, n, leaves), range.len = 0, Len(hashes) > 1
    PROVE  Reading(Returned(hashes), range, n, leaves)
<1> DEFINE m == Len(hashes) - 1
           less == Returned(hashes)
           H == HashesOf(leaves)
<1>1. /\ range \in [start: Nat, len: Nat] /\ range.start + range.len = n
      /\ Aligned(range)
      /\ hashes \in Seq(H)
  BY DEF Reading
<1>2. PICK at \in [Nat -> Nat] : ReadFrom(at, Len(hashes), hashes, range, n, leaves)
  BY DEF Reading
<1>3. m \in Nat \ {0} /\ Len(hashes) = m + 1
  <2>1. Len(hashes) \in Nat
    BY <1>1
  <2>2. \A l \in Nat : l > 1 => l - 1 \in Nat \ {0} /\ l = (l - 1) + 1
    OBVIOUS
  <2>3. Len(hashes) > 1
    OBVIOUS
  <2> QED BY <2>1, <2>2, <2>3
<1>4. /\ at[1] = 0 /\ LeftHashes(at, m, hashes, n, leaves)
      /\ LastHash(at, m + 1, hashes[m + 1], n, leaves)
  <2>1. m + 1 \in Nat \ {0} /\ (m + 1) - 1 = m
    BY <1>3
  <2> HIDE DEF m
  <2> QED BY <1>2, <1>3, <2>1, ReadFromEnds
<1>5. \A i \in 1 .. m + 1 : hashes[i] \in H
  BY <1>1, <1>3
<1>6. less = [i \in 1 .. m |-> IF i = m THEN HashNode(hashes[i], hashes[i + 1]) ELSE hashes[i]]
  BY DEF Returned
<1> HIDE DEF m, less, H
<1>7. LeftHash(at, m, hashes[m], n, leaves)
  BY <1>3, <1>4 DEF LeftHashes
<1>8. /\ LastHash(at, m, HashNode(hashes[m], hashes[m + 1]), n, leaves)
      /\ HashNode(hashes[m], hashes[m + 1]) \in H
  BY <1>3, <1>4, <1>7, LastOfTwo DEF H
<1>9. /\ less \in Seq(H) /\ Len(less) = m
      /\ less[m] = HashNode(hashes[m], hashes[m + 1])
      /\ SameLeaves(less, hashes, m - 1)
  <2>1. less \in [1 .. m -> H]
    <3>1. ASSUME NEW i \in 1 .. m
          PROVE  (IF i = m THEN HashNode(hashes[i], hashes[i + 1]) ELSE hashes[i]) \in H
      <4>1. i \in 1 .. m + 1
        BY <1>3
      <4> QED BY <1>5, <1>8, <4>1
    <3> QED BY <1>6, <3>1
  <2>2. less \in Seq(H) /\ Len(less) = m
    BY <1>3, <2>1
  <2>3. less[m] = HashNode(hashes[m], hashes[m + 1])
    BY <1>3, <1>6
  <2>4. \A i \in 1 .. m - 1 : i \in 1 .. m /\ i # m
    BY <1>3
  <2>5. SameLeaves(less, hashes, m - 1)
    BY <1>6, <2>4 DEF SameLeaves
  <2> QED BY <2>2, <2>3, <2>5
<1>10. LeftHashes(at, m - 1, less, n, leaves)
  <2> SUFFICES ASSUME NEW i \in 1 .. m - 1 PROVE LeftHash(at, i, less[i], n, leaves)
    BY DEF LeftHashes
  <2>1. less[i] = hashes[i]
    BY <1>9 DEF SameLeaves
  <2>2. i \in 1 .. m
    BY <1>3
  <2> QED BY <1>4, <2>1, <2>2 DEF LeftHashes
<1>11. ReadFrom(at, m, less, range, n, leaves)
  BY <1>3, <1>4, <1>8, <1>9, <1>10, ReadFromEnds
<1>12. Reading(less, range, n, leaves)
  <2>1. Len(less) > 0
    BY <1>3, <1>9
  <2>2. \E to \in [Nat -> Nat] : ReadFrom(to, Len(less), less, range, n, leaves)
    BY <1>9, <1>11
  <2> QED BY <1>1, <1>9, <2>1, <2>2 DEF Reading, H
<1> QED BY <1>12 DEF less

\* A return keeps what the reader knows.
LEMMA ReturnRangeTree ==
    ASSUME TreeInv, LogInv, NEW p \in Process, ReturnRange(p)
    PROVE  TreeInv'
<1> DEFINE n == idx[p]
           leaves == First(n)
<1>1. /\ pc[p] = "reading" /\ want[p].len = 0 /\ Len(got[p]) > 1
      /\ got' = [got EXCEPT ![p] = Returned(got[p])]
      /\ UNCHANGED <<tables, pc, arg, idx, written, want>>
  BY DEF ReturnRange, Returned
<1>2. DOMAIN written = Process /\ DOMAIN want = Process /\ DOMAIN got = Process
  BY DEF TreeInv
<1>3. size \in Nat
  BY FS_CardinalityType DEF LogInv, size
<1>4. n \in 1 .. size /\ Reading(got[p], want[p], n, leaves)
  BY <1>1 DEF TreeInv, ReadInv
<1>5. n \in Nat
  BY <1>3, <1>4
<1>6. Reading(Returned(got[p]), want[p], n, leaves)
  <2> HIDE DEF n, leaves
  <2> QED BY <1>1, <1>4, <1>5, ReturnMore
<1>7. /\ pc'[p] = "reading" /\ got'[p] = Returned(got[p]) /\ want' = want /\ idx' = idx
      /\ leaf' = leaf
  BY <1>1, <1>2 DEF tables
<1>8. ReadInv(p)'
  <2>1. First(idx[p])' = leaves /\ size' = size
    BY <1>7 DEF First, size
  <2> HIDE DEF leaves
  <2> QED BY <1>4, <1>6, <1>7, <2>1 DEF ReadInv
<1>9. WrittenInv(p)'
  BY <1>7 DEF WrittenInv
<1> QED BY <1>1, <1>2, <1>8, <1>9, OneProcessKeeps

-----------------------------------------------------------------------------
(* The cache and its readers, always. *)

\* A step of append() before its transaction writes says nothing of the tree.
LEMMA OutsideTree ==
    ASSUME TreeInv, LogInv, NEW p \in Process,
           \/ \E l \in Leaf : LookForDuplicate(p, l)
           \/ TakeIndex(p)
           \/ Begin(p)
    PROVE  TreeInv'
<1>1. /\ DOMAIN pc = Process /\ DOMAIN arg = Process /\ DOMAIN idx = Process
      /\ DOMAIN written = Process /\ DOMAIN want = Process /\ DOMAIN got = Process
  BY DEF LogInv, TypeOK, TreeInv
<1>2. /\ pc[p] # "reading" /\ pc'[p] \in {"looked", "indexed", "begun"}
      /\ UNCHANGED <<tables, written, want, got>>
  BY <1>1 DEF LookForDuplicate, TakeIndex, Begin
<1>3. \A q \in Process \ {p} : pc'[q] = pc[q] /\ arg'[q] = arg[q] /\ idx'[q] = idx[q]
  BY <1>1 DEF LookForDuplicate, TakeIndex, Begin
<1>4. got'[p] = <<>>
  BY <1>2 DEF TreeInv, ReadInv
<1>5. WrittenInv(p)'
  BY <1>2 DEF WrittenInv
<1>6. ReadInv(p)'
  BY <1>2, <1>4 DEF ReadInv
<1> QED BY <1>1, <1>2, <1>3, <1>5, <1>6, OneProcessKeeps

\* Every step of every process keeps the cache the tree of the log.
LEMMA TreeStep == TreeInv /\ LogInv /\ LogInv' /\ [Next]_vars => TreeInv'
<1> SUFFICES ASSUME TreeInv, LogInv, LogInv', [Next]_vars PROVE TreeInv'
  OBVIOUS
<1>1. ASSUME NEW p \in Process, NEW l \in Leaf, LookForDuplicate(p, l) PROVE TreeInv'
  BY <1>1, OutsideTree
<1>2. ASSUME NEW p \in Process, TakeIndex(p) PROVE TreeInv'
  BY <1>2, OutsideTree
<1>3. ASSUME NEW p \in Process, Begin(p) PROVE TreeInv'
  BY <1>3, OutsideTree
<1>4. ASSUME NEW p \in Process, Busy(p) PROVE TreeInv'
  <2>1. Done(p) /\ UNCHANGED tables
    BY <1>4 DEF Busy
  <2> QED BY <2>1, DoneKeeps
<1>5. ASSUME NEW p \in Process, Insert(p) PROVE TreeInv'
  BY <1>5, InsertTree
<1>6. ASSUME NEW p \in Process, Rollback(p) PROVE TreeInv'
  <2>1. Done(p) /\ UNCHANGED tables
    BY <1>6 DEF Rollback
  <2> QED BY <2>1, DoneKeeps
<1>7. ASSUME NEW p \in Process, CompletePair(p) PROVE TreeInv'
  BY <1>7, CompletePairTree
<1>8. ASSUME NEW p \in Process, Commit(p) PROVE TreeInv'
  BY <1>8, CommitTree
<1>9. ASSUME NEW p \in Process, ReadSize(p) PROVE TreeInv'
  BY <1>9, ReadSizeTree
<1>10. ASSUME NEW p \in Process, ReadNode(p) PROVE TreeInv'
  BY <1>10, ReadNodeTree
<1>11. ASSUME NEW p \in Process, ReturnRange(p) PROVE TreeInv'
  BY <1>11, ReturnRangeTree
<1>12. ASSUME NEW p \in Process, ReturnRoot(p) PROVE TreeInv'
  <2>1. Done(p) /\ UNCHANGED tables
    BY <1>12 DEF ReturnRoot
  <2> QED BY <2>1, DoneKeeps
<1>13. ASSUME NEW p \in Process, Crash(p) PROVE TreeInv'
  <2>1. Done(p) /\ UNCHANGED tables
    BY <1>13 DEF Crash
  <2> QED BY <2>1, DoneKeeps
<1>14. CASE UNCHANGED vars
  <2>1. UNCHANGED tables /\ UNCHANGED locals
    BY <1>14 DEF vars
  <2>2. leaf' = leaf /\ node' = node
    BY <2>1 DEF tables
  <2>3. pc' = pc /\ arg' = arg /\ idx' = idx /\ written' = written /\ want' = want /\ got' = got
    BY <2>1 DEF locals
  <2>4. \A p \in Process : WrittenInv(p)' /\ ReadInv(p)'
    BY <2>2, <2>3, ProcessStays DEF TreeInv
  <2> QED BY <2>2, <2>3, <2>4, CacheStays DEF TreeInv
<1> QED BY <1>1, <1>2, <1>3, <1>4, <1>5, <1>6, <1>7, <1>8, <1>9, <1>10, <1>11, <1>12,
            <1>13, <1>14 DEF Next

\* Both invariants, together.
LEMMA TreeAlways == Spec => [](LogInv /\ TreeInv)
<1>1. Init => TreeInv
  BY TreeInit
<1>2. LogInv /\ LogInv' /\ TreeInv /\ [Next]_vars => TreeInv'
  BY TreeStep
<1> QED BY <1>1, <1>2, Invariant, PTL DEF Spec

\* The keys of CacheIsTheTree are those of the invariant.
LEMMA TreeKeys ==
    ASSUME LogInv, TreeInv
    PROVE  CacheIsTheTree
<1>1. size \in Nat
  BY FS_CardinalityType DEF LogInv, size
<1> DEFINE keys == {k \in Powers \X Nat : (k[2] + 1) * k[1] <= size}
           bounded == {k \in (1 .. size) \X (0 .. size) :
                          IsPow2(k[1]) /\ (k[2] + 1) * k[1] <= size}
<1>2. ASSUME NEW s \in Nat \ {0}, NEW a \in Nat, (a + 1) * s <= size
      PROVE  s \in 1 .. size /\ a \in 0 .. size
  <2>1. (a + 1) * s = a * s + s /\ a * s \in Nat /\ a * s >= a
    OBVIOUS
  <2> QED BY <1>1, <1>2, <2>1
<1>3. ASSUME NEW k \in keys PROVE k \in bounded
  <2>1. k[1] \in Powers /\ k[2] \in Nat /\ (k[2] + 1) * k[1] <= size /\ k = <<k[1], k[2]>>
    OBVIOUS
  <2>2. k[1] \in Nat \ {0}
    BY <2>1, PowersAre
  <2>3. k[1] \in 1 .. size /\ k[2] \in 0 .. size
    BY <1>2, <2>1, <2>2
  <2>4. IsPow2(k[1])
    BY <2>1, <2>2, IsPow2Is
  <2> QED BY <2>1, <2>3, <2>4
<1>4. ASSUME NEW k \in bounded PROVE k \in keys
  <2>1. k[1] \in 1 .. size /\ k[2] \in 0 .. size /\ IsPow2(k[1]) /\ (k[2] + 1) * k[1] <= size
        /\ k = <<k[1], k[2]>>
    OBVIOUS
  <2>2. k[1] \in Nat \ {0} /\ k[2] \in Nat
    BY <1>1, <2>1
  <2>3. k[1] \in Powers
    BY <2>1, <2>2, IsPow2Is
  <2> QED BY <2>1, <2>2, <2>3
<1>5. keys = bounded
  BY <1>3, <1>4
<1>6. /\ DOMAIN node = keys
      /\ \A k \in DOMAIN node : node[k] = RangeHash(Leaves)[k[1]][k[2] * k[1]]
  BY DEF TreeInv, CacheInv
<1>7. DOMAIN node = bounded
  BY <1>5, <1>6
<1> HIDE DEF keys
<1> QED BY <1>6, <1>7 DEF CacheIsTheTree

\* The log as it stood when it had n leaves.
LEMMA FirstIsSub ==
    ASSUME LogInv, NEW n \in 1 .. size
    PROVE  SubSeq(Leaves, 1, n) = First(n) /\ First(n) # <<>> /\ Len(First(n)) = n
<1>1. size \in Nat
  BY FS_CardinalityType DEF LogInv, size
<1>2. n \in Nat \ {0}
  BY <1>1
<1>3. Leaves = [i \in 1 .. size |-> leaf[i - 1]] /\ Leaves \in Seq(Leaf) /\ Len(Leaves) = size
  BY LeavesShape DEF Leaves, RowsInOrder
<1>4. SubSeq(Leaves, 1, n) = [i \in 1 .. n |-> Leaves[i]]
  BY <1>1, <1>2, <1>3, SubSeqProperties
<1>5. \A i \in 1 .. n : i \in 1 .. size /\ Leaves[i] = leaf[i - 1]
  BY <1>1, <1>2, <1>3
<1>6. SubSeq(Leaves, 1, n) = First(n)
  BY <1>4, <1>5 DEF First
<1>7. SubSeq(Leaves, 1, n) \in Seq(Leaf) /\ Len(SubSeq(Leaves, 1, n)) = n
  BY <1>1, <1>2, <1>3, SubSeqProperties
<1>8. SubSeq(Leaves, 1, n) # <<>>
  BY <1>2, <1>7
<1> QED BY <1>6, <1>7, <1>8

\* What the readers' invariant says of each reader.
LEMMA ReadersSee ==
    ASSUME LogInv, TreeInv
    PROVE  ReadersSeeOneLog
<1> SUFFICES ASSUME NEW p \in Process, pc[p] = "reading"
             PROVE  /\ idx[p] <= size
                    /\ want[p].len > 0 => WantedKey(want[p]) \in DOMAIN node
                    /\ HasRoot(p) => got[p][1] = RootOf(SubSeq(Leaves, 1, idx[p]))
  BY DEF ReadersSeeOneLog
<1>1. size \in Nat
  BY FS_CardinalityType DEF LogInv, size
<1>2. idx[p] \in 1 .. size /\ Reading(got[p], want[p], idx[p], First(idx[p]))
  BY DEF TreeInv, ReadInv
<1> DEFINE n == idx[p]
           leaves == First(n)
<1>3. n \in Nat \ {0} /\ n <= size
  BY <1>1, <1>2
<1>4. want[p] \in [start: Nat, len: Nat] /\ want[p].start + want[p].len = n /\ Aligned(want[p])
  BY <1>2 DEF Reading
<1>5. want[p].len > 0 => WantedKey(want[p]) \in DOMAIN node
  <2> SUFFICES ASSUME want[p].len > 0 PROVE WantedKey(want[p]) \in DOMAIN node
    OBVIOUS
  <2>1. want[p].start + want[p].len <= size
    BY <1>3, <1>4
  <2> QED BY <1>1, <1>4, <2>1, RowIsThere DEF TreeInv
<1>6. ASSUME HasRoot(p) PROVE got[p][1] = RootOf(SubSeq(Leaves, 1, n))
  <2>1. want[p].len = 0 /\ Len(got[p]) = 1
    BY <1>6 DEF HasRoot
  <2>2. PICK at \in [Nat -> Nat] : ReadFrom(at, Len(got[p]), got[p], want[p], n, leaves)
    BY <1>2 DEF Reading
  <2>3. at[1] = 0 /\ LastHash(at, 1, got[p][1], n, leaves)
    <3>1. ReadFrom(at, 1, got[p], want[p], n, leaves) /\ 1 \in Nat \ {0}
      BY <2>1, <2>2
    <3> HIDE DEF n, leaves
    <3> QED BY <2>1, <3>1, ReadFromEnds
  <2>4. got[p][1] = RangeHash(leaves)[n][0]
    BY <1>3, <2>3 DEF LastHash
  <2>5. SubSeq(Leaves, 1, n) = leaves /\ leaves # <<>> /\ Len(leaves) = n
    BY <1>2, FirstIsSub
  <2> HIDE DEF leaves
  <2> QED BY <2>4, <2>5 DEF RootOf
<1> QED BY <1>3, <1>5, <1>6

\* CacheIsTheTree (store.ts:58-89): whatever the processes are doing, every
\* complete subtree of the committed leaves is in the node table with its hash.
THEOREM CacheIsTheTreeHolds == Spec => []CacheIsTheTree
BY TreeAlways, TreeKeys, PTL

\* ReadersSeeOneLog (store.ts:125-127, tree.ts:84-105): a reader outside any
\* transaction, whatever is appended meanwhile, finds every row it wants and
\* returns the root of the log that it began with.
THEOREM ReadersSeeOneLogHolds == Spec => []ReadersSeeOneLog
BY TreeAlways, ReadersSee, PTL

-----------------------------------------------------------------------------
(* The daemon: what is recorded is reached, and the gate is passed. *)

Row    == [size: Nat, rev: SUBSET Key]
Anchor == [root: Nat, prevRoot: Nat, revocationRoot: SUBSET Key, size: Nat]

DaemonTypeOK ==
    /\ logSize \in Nat /\ revoked \subseteq Key
    /\ chain \in [Chain -> Seq(Anchor)]
    /\ last \in [Chain -> Row]
    /\ turn \in Nat \ {0} /\ sizeRead \in Nat

\* A recorded anchor is on its chain, or a larger one is.
RowsAreReached ==
    \A c \in Chain : last[c] # NoRow =>
        chain[c] # <<>> /\ last[c].size <= HeadOf(c).size

\* A mirror that is being anchored, and was before, has passed the gate.
GatePassed ==
    Calling =>
        /\ Ticking
        /\ (Current \in Mirror /\ last[Current] # NoRow) =>
              (last[Primary] # NoRow /\ sizeRead <= last[Primary].size)

DaemonInv == DaemonTypeOK /\ RowsAreReached /\ GatePassed

-----------------------------------------------------------------------------
\* The chains a tick is about are the configured ones.
LEMMA Turns ==
    /\ Primary \in Chain /\ Mirror \subseteq Chain
    /\ Len(Order) \in Nat
    /\ DaemonTypeOK /\ Ticking => Current \in Chain
<1>1. Order \in Seq(Chain)
  <2>1. Mirrors \in Seq(Chain)
    BY DaemonAssumption, SeqMonotonic DEF Chain, Mirror
  <2>2. <<Primary>> \in Seq(Chain)
    BY DEF Chain
  <2> QED BY <2>1, <2>2, ConcatProperties DEF Order
<1>2. Len(Order) \in Nat /\ \A i \in 1 .. Len(Order) : Order[i] \in Chain
  BY <1>1, ElementOfSeq, LenProperties
<1>3. DaemonTypeOK /\ Ticking => turn \in 1 .. Len(Order)
  BY <1>2 DEF DaemonTypeOK, Ticking
<1> QED BY <1>2, <1>3 DEF Chain, Current

\* A chain with an anchor has a last one.
LEMMA LastIs ==
    ASSUME DaemonTypeOK, NEW c \in Chain, chain[c] # <<>>
    PROVE  LastAnchor(chain[c]) \in Anchor
<1>1. chain[c] \in Seq(Anchor)
  BY DEF DaemonTypeOK
<1>2. Len(chain[c]) \in 1 .. Len(chain[c])
  BY <1>1, EmptySeq, LenProperties
<1> QED BY <1>1, <1>2, ElementOfSeq DEF LastAnchor

\* A mined anchor is the new head of its chain, of the size that was read, and
\* no smaller than the head before it; the other chains keep theirs.
LEMMA SendIs ==
    ASSUME DaemonTypeOK, NEW c \in Chain, Send(c)
    PROVE  /\ chain' \in [Chain -> Seq(Anchor)]
           /\ \A d \in Chain : d # c => chain'[d] = chain[d]
           /\ chain'[c] # <<>>
           /\ LastAnchor(chain'[c]).size = sizeRead
           /\ chain[c] # <<>> => HeadOf(c).size <= sizeRead
<1> DEFINE e == [root           |-> logSize,
                 prevRoot       |-> IF chain[c] = <<>> THEN 0 ELSE LastAnchor(chain[c]).root,
                 revocationRoot |-> revoked,
                 size           |-> sizeRead]
<1>1. chain[c] \in Seq(Anchor)
  BY DEF DaemonTypeOK
<1>2. chain[c] # <<>> => LastAnchor(chain[c]) \in Anchor
  BY LastIs
<1>3. e \in Anchor
  BY <1>2 DEF DaemonTypeOK, Anchor
<1>4. chain' = [chain EXCEPT ![c] = Append(chain[c], e)]
  BY DEF Send, Extend
<1> HIDE DEF e
<1>5. Append(chain[c], e) \in Seq(Anchor) /\ Append(chain[c], e) # <<>>
      /\ LastAnchor(Append(chain[c], e)) = e
  BY <1>1, <1>3, AppendProperties DEF LastAnchor
<1>6. chain' \in [Chain -> Seq(Anchor)] /\ chain'[c] = Append(chain[c], e)
      /\ \A d \in Chain : d # c => chain'[d] = chain[d]
  BY <1>4, <1>5 DEF DaemonTypeOK
<1>7. e.size = sizeRead
  BY DEF e
<1>8. chain[c] # <<>> => HeadOf(c).size <= sizeRead
  BY <1>2 DEF Send, Behind, HeadOf, DaemonTypeOK, Anchor
<1> QED BY <1>5, <1>6, <1>7, <1>8

\* Whatever happens to the calls, rows stay behind chains.
LEMMA RowsStayReached ==
    ASSUME DaemonInv, NEW c \in Chain, Send(c), UNCHANGED <<last, logSize, revoked>>
    PROVE  RowsAreReached' /\ chain' \in [Chain -> Seq(Anchor)]
<1>1. /\ chain' \in [Chain -> Seq(Anchor)]
      /\ \A d \in Chain : d # c => chain'[d] = chain[d]
      /\ chain'[c] # <<>>
      /\ LastAnchor(chain'[c]).size = sizeRead
      /\ chain[c] # <<>> => HeadOf(c).size <= sizeRead
  BY SendIs DEF DaemonInv
<1>2. ASSUME NEW d \in Chain, last[d] # NoRow
      PROVE  chain'[d] # <<>> /\ last[d].size <= LastAnchor(chain'[d]).size
  <2>1. chain[d] # <<>> /\ last[d].size <= HeadOf(d).size
    BY <1>2 DEF DaemonInv, RowsAreReached
  <2>2. CASE d # c
    BY <1>1, <2>1, <2>2 DEF HeadOf
  <2>3. CASE d = c
    <3>1. last[c].size \in Nat /\ HeadOf(c).size \in Nat /\ sizeRead \in Nat
      BY <2>1, <2>3, LastIs DEF DaemonInv, DaemonTypeOK, HeadOf, Anchor, Row
    <3> QED BY <1>1, <2>1, <2>3, <3>1
  <2> QED BY <2>2, <2>3
<1> QED BY <1>1, <1>2 DEF RowsAreReached, HeadOf

-----------------------------------------------------------------------------
\* Before the first tick there is no row and no call.
LEMMA DaemonInvInit == DaemonInit => DaemonInv
<1>1. DaemonInit => DaemonTypeOK
  BY DEF DaemonInit, DaemonTypeOK, Row, NoRow
<1>2. DaemonInit => RowsAreReached /\ GatePassed
  BY DEF DaemonInit, RowsAreReached, GatePassed, Calling
<1> QED BY <1>1, <1>2 DEF DaemonInv

\* A row is written after its anchor, and a call keeps what its gate has seen.
LEMMA DaemonInvNext == DaemonInv /\ [DaemonNext]_daemonVars => DaemonInv'
<1> SUFFICES ASSUME DaemonInv, [DaemonNext]_daemonVars PROVE DaemonInv'
  OBVIOUS
<1> USE DEF DaemonInv
<1>1. CASE AppendLeaf
  BY <1>1 DEF AppendLeaf, DaemonTypeOK, RowsAreReached, GatePassed, HeadOf, Calling, Ticking, Current, state
<1>2. CASE \E k \in Key : Revoke(k)
  BY <1>2 DEF Revoke, DaemonTypeOK, RowsAreReached, GatePassed, HeadOf, Calling, Ticking, Current, state
<1>3. CASE Skip
  BY <1>3 DEF Skip, DaemonTypeOK, RowsAreReached, GatePassed, HeadOf, Calling, data, state
<1>4. CASE Attempt
  <2>1. DaemonTypeOK' /\ RowsAreReached'
    BY <1>4 DEF Attempt, DaemonTypeOK, RowsAreReached, HeadOf, data
  <2>2. Current \in Mirror /\ last[Current] # NoRow =>
            last[Primary] # NoRow /\ logSize <= last[Primary].size
    BY <1>4, Turns DEF Attempt, ShouldAnchor, NeverAnchored, AheadOfPrimary, DaemonTypeOK, Row
  <2>3. GatePassed'
    BY <1>4, <2>2 DEF Attempt, GatePassed, Ticking, Current, data
  <2> QED BY <2>1, <2>3
<1>5. CASE Anchored
  <2>1. Current \in Chain /\ Send(Current) /\ sizeRead \in Nat /\ UNCHANGED data
    BY <1>5, Turns DEF Anchored, GatePassed, DaemonTypeOK
  <2>2. PICK c \in Chain : c = Current
    BY <2>1
  <2>3. /\ chain' \in [Chain -> Seq(Anchor)]
        /\ \A d \in Chain : d # c => chain'[d] = chain[d]
        /\ chain'[c] # <<>>
        /\ LastAnchor(chain'[c]).size = sizeRead
    BY <2>1, <2>2, SendIs
  <2>4. [size |-> sizeRead, rev |-> revoked] \in Row
    BY DEF DaemonTypeOK, Row
  <2>5. /\ last' \in [Chain -> Row]
        /\ last'[c].size = sizeRead
        /\ \A d \in Chain : d # c => last'[d] = last[d]
    BY <1>5, <2>2, <2>4 DEF Anchored, DaemonTypeOK
  <2>6. DaemonTypeOK'
    BY <1>5, <2>3, <2>5 DEF Anchored, EndTick, DaemonTypeOK, data
  <2>7. ASSUME NEW d \in Chain, last'[d] # NoRow
        PROVE  chain'[d] # <<>> /\ last'[d].size <= LastAnchor(chain'[d]).size
    <3>1. CASE d = c
      BY <2>1, <2>3, <2>5, <3>1
    <3>2. CASE d # c
      BY <2>3, <2>5, <2>7, <3>2 DEF RowsAreReached, HeadOf
    <3> QED BY <3>1, <3>2
  <2>8. RowsAreReached'
    BY <2>7 DEF RowsAreReached, HeadOf
  <2>9. GatePassed'
    BY <1>5 DEF Anchored, EndTick, GatePassed, Calling
  <2> QED BY <2>6, <2>8, <2>9
<1>6. CASE NothingNew
  BY <1>6 DEF NothingNew, EndTick, DaemonTypeOK, RowsAreReached, GatePassed, HeadOf, Calling, data
<1>7. CASE Refused
  BY <1>7 DEF Refused, EndTick, DaemonTypeOK, RowsAreReached, GatePassed, HeadOf, Calling, data
<1>8. CASE NextIteration
  <2>1. sizeRead = 0
    BY <1>8 DEF NextIteration, GatePassed, Calling, DaemonTypeOK
  <2> QED
    BY <1>8, <2>1 DEF NextIteration, DaemonTypeOK, RowsAreReached, GatePassed, HeadOf, Calling, data
<1>9. CASE RpcError
  <2>1. Current \in Chain
    BY <1>9, Turns DEF RpcError, GatePassed
  <2>2. RowsAreReached' /\ chain' \in [Chain -> Seq(Anchor)]
    <3>1. CASE UNCHANGED chain
      BY <1>9, <3>1 DEF RpcError, RowsAreReached, HeadOf, DaemonTypeOK, data
    <3>2. CASE Send(Current)
      <4>1. UNCHANGED <<last, logSize, revoked>>
        BY <1>9 DEF RpcError, data
      <4> QED BY <2>1, <3>2, <4>1, RowsStayReached
    <3> QED BY <1>9, <3>1, <3>2 DEF RpcError
  <2> QED
    BY <1>9, <2>2 DEF RpcError, EndTick, DaemonTypeOK, GatePassed, Calling, data
<1>10. CASE Restart
  <2>1. UNCHANGED <<last, logSize, revoked>> /\ turn' = 1 /\ sizeRead' = 0
    BY <1>10 DEF Restart, data
  <2>2. RowsAreReached' /\ chain' \in [Chain -> Seq(Anchor)]
    <3>1. CASE UNCHANGED chain
      BY <2>1, <3>1 DEF RowsAreReached, HeadOf, DaemonTypeOK
    <3>2. CASE Calling /\ Send(Current)
      <4>1. Current \in Chain
        BY <3>2, Turns DEF GatePassed
      <4> QED BY <2>1, <3>2, <4>1, RowsStayReached
    <3> QED BY <1>10, <3>1, <3>2 DEF Restart
  <2> QED
    BY <2>1, <2>2 DEF DaemonTypeOK, GatePassed, Calling
<1>11. CASE UNCHANGED daemonVars
  BY <1>11 DEF daemonVars, data, state, DaemonTypeOK, RowsAreReached, GatePassed, HeadOf, Calling, Ticking, Current
<1> QED
  BY <1>1, <1>2, <1>3, <1>4, <1>5, <1>6, <1>7, <1>8, <1>9, <1>10, <1>11 DEF DaemonNext, Loop

-----------------------------------------------------------------------------
\* What is mined is what has passed the gate, and the primary's contract is
\* not behind its row.
LEMMA SendsFollow ==
    ASSUME DaemonInv, Calling, Send(Current)
    PROVE  \A m \in Mirror :
              chain'[m] # chain[m] /\ last[m] # NoRow =>
                  /\ chain[Primary] # <<>>
                  /\ LastAnchor(chain'[m]).size <= HeadOf(Primary).size
<1>1. Current \in Chain
  BY Turns DEF DaemonInv, GatePassed
<1>2. PICK c \in Chain : c = Current
  BY <1>1
<1>3. /\ \A d \in Chain : d # c => chain'[d] = chain[d]
      /\ LastAnchor(chain'[c]).size = sizeRead
  BY <1>2, SendIs DEF DaemonInv
<1>4. c \in Mirror /\ last[c] # NoRow =>
          last[Primary] # NoRow /\ sizeRead <= last[Primary].size
  BY <1>2 DEF DaemonInv, GatePassed
<1>5. last[Primary] # NoRow =>
          /\ chain[Primary] # <<>> /\ last[Primary].size <= HeadOf(Primary).size
          /\ HeadOf(Primary).size \in Nat /\ last[Primary].size \in Nat /\ sizeRead \in Nat
  BY Turns, LastIs DEF DaemonInv, DaemonTypeOK, RowsAreReached, HeadOf, Anchor, Row
<1>6. Mirror \subseteq Chain
  BY Turns
<1>7. ASSUME NEW m \in Mirror, chain'[m] # chain[m], last[m] # NoRow
      PROVE  /\ chain[Primary] # <<>>
             /\ LastAnchor(chain'[m]).size <= HeadOf(Primary).size
  <2>1. m = c
    BY <1>3, <1>6, <1>7
  <2> QED BY <1>3, <1>4, <1>5, <1>7, <2>1
<1> QED BY <1>7

\* A mirror that has a row goes no further than the head of the primary.
LEMMA StepsFollow ==
    ASSUME DaemonInv, [DaemonNext]_daemonVars
    PROVE  [ \A m \in Mirror :
                chain'[m] # chain[m] /\ last[m] # NoRow =>
                    /\ chain[Primary] # <<>>
                    /\ LastAnchor(chain'[m]).size <= HeadOf(Primary).size ]_daemonVars
<1>1. UNCHANGED chain \/ (Calling /\ Send(Current))
  BY DEF DaemonNext, Loop, AppendLeaf, Revoke, Skip, Attempt, Anchored, NothingNew, Refused,
         NextIteration, RpcError, Restart, daemonVars
<1>2. CASE UNCHANGED chain
  BY <1>2
<1>3. CASE Calling /\ Send(Current)
  BY <1>3, SendsFollow
<1> QED BY <1>1, <1>2, <1>3

\* The store's table never says more of a chain than its contract has: rows
\* are written after their anchors are mined, whatever fails in between.
THEOREM DaemonInvHolds == DaemonSpec => []DaemonInv
<1> QED BY DaemonInvInit, DaemonInvNext, PTL DEF DaemonSpec

\* A mirror with a recorded anchor is never moved past the primary's contract.
THEOREM MirrorsFollowPrimaryHolds == DaemonSpec => MirrorsFollowPrimary
<1> QED BY DaemonInvHolds, StepsFollow, PTL DEF DaemonSpec, MirrorsFollowPrimary
=============================================================================
