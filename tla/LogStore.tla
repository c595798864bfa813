------------------------------ MODULE LogStore ------------------------------
(***************************************************************************)
(* services/log/src/store.ts and tree.ts: the leaf table and the cache of  *)
(* complete subtrees, in one SQLite file that the API, the anchor daemon   *)
(* and the command line open at the same time.                             *)
(*                                                                         *)
(* Each SELECT, BEGIN IMMEDIATE, INSERT and COMMIT is a step, because      *)
(* another process can commit between any two of them: append() looks for  *)
(* a duplicate and takes the index before it holds the write lock.  Rows a *)
(* transaction has written are its own until COMMIT publishes them all.    *)
(***************************************************************************)
EXTENDS MerkleTree, FiniteSets

CONSTANTS
    Process,    \* processes with a connection to the database
    NoProcess,  \* the lock is free
    Leaf,       \* leaf hashes
    NoLeaf      \* no leaf: a process that is not appending

ASSUME NobodyAssumption == NoProcess \notin Process /\ NoLeaf \notin Leaf

VARIABLES
    leaf,      \* table leaf, committed rows: idx -> leaf
    node,      \* table node, committed rows: <<span, idx>> -> hash, where span
               \* is 2^level, the number of leaves below a node of that level
    lock,      \* the connection inside BEGIN IMMEDIATE .. COMMIT
    pc,        \* where each process is in append() or root()
    arg,       \* the leaf being appended
    idx,       \* append(): the index read from size(); root(): the size
    written,   \* the open transaction's node rows, the last one on top
    want,      \* root(): the range of leaves whose subtrees are still to read
    got,       \* root(): the hashes to the left of it
    answered   \* <<leaf, index>> pairs append() has returned

tables == <<leaf, node>>
locals == <<pc, arg, idx, written, want, got>>
vars   == <<tables, lock, locals, answered>>

size == Cardinality(DOMAIN leaf)

\* A table with one more row.
With(table, key, value) ==
    [k \in DOMAIN table \cup {key} |-> IF k = key THEN value ELSE table[k]]

Nothing == [start |-> 0, len |-> 0]

HasLeaf(l) == \E i \in DOMAIN leaf : leaf[i] = l

Init ==
    /\ leaf = [i \in {} |-> NoLeaf]
    /\ node = [k \in {} |-> EmptyRoot]
    /\ lock = NoProcess
    /\ pc = [p \in Process |-> "idle"]
    /\ arg = [p \in Process |-> NoLeaf]
    /\ idx = [p \in Process |-> 0]
    /\ written = [p \in Process |-> <<>>]
    /\ want = [p \in Process |-> Nothing]
    /\ got = [p \in Process |-> <<>>]
    /\ answered = {}

\* p's call is over: it holds nothing and remembers nothing.
Done(p) ==
    /\ pc' = [pc EXCEPT ![p] = "idle"]
    /\ arg' = [arg EXCEPT ![p] = NoLeaf]
    /\ idx' = [idx EXCEPT ![p] = 0]
    /\ written' = [written EXCEPT ![p] = <<>>]
    /\ want' = [want EXCEPT ![p] = Nothing]
    /\ got' = [got EXCEPT ![p] = <<>>]

-----------------------------------------------------------------------------
(* append(leaf) *)

\* SELECT idx FROM leaf WHERE leaf = ?  -- a leaf already there is refused
LookForDuplicate(p, l) ==
    /\ pc[p] = "idle"
    /\ ~HasLeaf(l)
    /\ pc' = [pc EXCEPT ![p] = "looked"]
    /\ arg' = [arg EXCEPT ![p] = l]
    /\ UNCHANGED <<tables, lock, idx, written, want, got, answered>>

\* const idx = this.size()
TakeIndex(p) ==
    /\ pc[p] = "looked"
    /\ idx' = [idx EXCEPT ![p] = size]
    /\ pc' = [pc EXCEPT ![p] = "indexed"]
    /\ UNCHANGED <<tables, lock, arg, written, want, got, answered>>

\* BEGIN IMMEDIATE, when no other connection holds the write lock
Begin(p) ==
    /\ pc[p] = "indexed"
    /\ lock = NoProcess
    /\ lock' = p
    /\ pc' = [pc EXCEPT ![p] = "begun"]
    /\ UNCHANGED <<tables, arg, idx, written, want, got, answered>>

\* BEGIN IMMEDIATE throws SQLITE_BUSY at once: no busy_timeout is set
Busy(p) ==
    /\ pc[p] = "indexed"
    /\ lock # NoProcess
    /\ Done(p)
    /\ UNCHANGED <<tables, lock, answered>>

\* A slip used as a mutant: INSERT OR REPLACE, into a table without UNIQUE(leaf).
InsertOrReplace(p) ==
    /\ pc[p] = "begun"
    /\ written' = [written EXCEPT ![p] = <<[span |-> 1, at |-> idx[p], hash |-> arg[p]]>>]
    /\ pc' = [pc EXCEPT ![p] = "inserted"]
    /\ UNCHANGED <<tables, lock, arg, idx, want, got, answered>>

\* INSERT INTO leaf, then cacheAppend's first putNode(0, idx, leaf)
Insert(p) ==
    /\ pc[p] = "begun"
    /\ idx[p] \notin DOMAIN leaf
    /\ ~HasLeaf(arg[p])
    /\ written' = [written EXCEPT ![p] = <<[span |-> 1, at |-> idx[p], hash |-> arg[p]]>>]
    /\ pc' = [pc EXCEPT ![p] = "inserted"]
    /\ UNCHANGED <<tables, lock, arg, idx, want, got, answered>>

\* The transaction throws and rolls back: the row conflicts with one that was
\* committed after the index was taken, or the statement fails on its own.
Rollback(p) ==
    /\ lock = p
    /\ lock' = NoProcess
    /\ Done(p)
    /\ UNCHANGED <<tables, answered>>

Top(p) == written[p][Len(written[p])]

\* cacheAppend's loop: a right half completes its pair, one level up.  A left
\* half that is missing throws ("tree cache corrupt") and rolls back.
CompletePair(p) ==
    /\ pc[p] = "inserted"
    /\ Top(p).at % 2 = 1
    /\ <<Top(p).span, Top(p).at - 1>> \in DOMAIN node
    /\ LET left == node[<<Top(p).span, Top(p).at - 1>>]
           up   == [span |-> 2 * Top(p).span,
                    at   |-> Top(p).at \div 2,
                    hash |-> HashNode(left, Top(p).hash)]
       IN  written' = [written EXCEPT ![p] = Append(@, up)]
    /\ UNCHANGED <<tables, lock, pc, arg, idx, want, got, answered>>

WrittenKey(row) == <<row.span, row.at>>

\* A slip used as a mutant: COMMIT before the walk has reached a left half.
CommitEarly(p) ==
    LET rows == written[p] IN
    /\ pc[p] = "inserted"
    /\ leaf' = With(leaf, idx[p], arg[p])
    /\ node' = [k \in DOMAIN node \cup {WrittenKey(rows[i]) : i \in 1 .. Len(rows)} |->
                  IF k \in DOMAIN node THEN node[k]
                  ELSE rows[CHOOSE i \in 1 .. Len(rows) : WrittenKey(rows[i]) = k].hash]
    /\ lock' = NoProcess
    /\ answered' = answered \cup {<<arg[p], idx[p]>>}
    /\ Done(p)

\* COMMIT, and append() returns idx
Commit(p) ==
    LET rows == written[p] IN
    /\ pc[p] = "inserted"
    /\ Top(p).at % 2 = 0
    /\ leaf' = With(leaf, idx[p], arg[p])
    /\ node' = [k \in DOMAIN node \cup {WrittenKey(rows[i]) : i \in 1 .. Len(rows)} |->
                  IF k \in DOMAIN node THEN node[k]
                  ELSE rows[CHOOSE i \in 1 .. Len(rows) : WrittenKey(rows[i]) = k].hash]
    /\ lock' = NoProcess
    /\ answered' = answered \cup {<<arg[p], idx[p]>>}
    /\ Done(p)

-----------------------------------------------------------------------------
(* root(): size(), then one SELECT per complete subtree, no transaction *)

IsPow2(n) == n = 1 \/ 2 * Split(n) = n

\* The row rangeRoot(start, len) reads first: that of the whole range if it is
\* complete, else that of its left part.
Block(len)       == IF IsPow2(len) THEN len ELSE Split(len)
WantedKey(range) == <<Block(range.len), range.start \div Block(range.len)>>

ReadSize(p) ==
    /\ pc[p] = "idle"
    /\ size > 0
    /\ idx' = [idx EXCEPT ![p] = size]
    /\ want' = [want EXCEPT ![p] = [start |-> 0, len |-> size]]
    /\ pc' = [pc EXCEPT ![p] = "reading"]
    /\ UNCHANGED <<tables, lock, arg, written, got, answered>>

\* A missing row would make rangeRoot throw or fall back on smaller rows: no
\* step is taken here, and ReadersSeeOneLog says that it never comes to that.
ReadNode(p) ==
    LET k == Block(want[p].len) IN
    /\ pc[p] = "reading"
    /\ want[p].len > 0
    /\ WantedKey(want[p]) \in DOMAIN node
    /\ got' = [got EXCEPT ![p] = Append(@, node[WantedKey(want[p])])]
    /\ want' = [want EXCEPT ![p] = [start |-> @.start + k, len |-> @.len - k]]
    /\ UNCHANGED <<tables, lock, pc, arg, idx, written, answered>>

\* A slip used as a mutant: the hashes combined from the left.
ReturnLeft(p) ==
    /\ pc[p] = "reading"
    /\ want[p].len = 0 /\ Len(got[p]) > 1
    /\ got' = [got EXCEPT ![p] = <<HashNode(@[1], @[2])>> \o SubSeq(@, 3, Len(@))]
    /\ UNCHANGED <<tables, lock, pc, arg, idx, written, want, answered>>

\* An inner call of rangeRoot returns the hash of what its caller has read and of
\* what lies to the right of that.
ReturnRange(p) ==
    /\ pc[p] = "reading"
    /\ want[p].len = 0 /\ Len(got[p]) > 1
    /\ got' = [got EXCEPT ![p] = [i \in 1 .. Len(@) - 1 |->
                  IF i = Len(@) - 1 THEN HashNode(@[i], @[i + 1]) ELSE @[i]]]
    /\ UNCHANGED <<tables, lock, pc, arg, idx, written, want, answered>>

\* The outermost call of rangeRoot has its hash: that is the root.
HasRoot(p) == want[p].len = 0 /\ Len(got[p]) = 1

ReturnRoot(p) ==
    /\ pc[p] = "reading"
    /\ HasRoot(p)
    /\ Done(p)
    /\ UNCHANGED <<tables, lock, answered>>

\* The process dies; an open transaction is rolled back by the next opener.
Crash(p) ==
    /\ pc[p] # "idle"
    /\ lock' = IF lock = p THEN NoProcess ELSE lock
    /\ Done(p)
    /\ UNCHANGED <<tables, answered>>

Next ==
    \E p \in Process :
        \/ \E l \in Leaf : LookForDuplicate(p, l)
        \/ TakeIndex(p) \/ Begin(p) \/ Busy(p)
        \/ Insert(p) \/ Rollback(p) \/ CompletePair(p) \/ Commit(p)
        \/ ReadSize(p) \/ ReadNode(p) \/ ReturnRange(p) \/ ReturnRoot(p)
        \/ Crash(p)

Spec == Init /\ [][Next]_vars

-----------------------------------------------------------------------------
\* The shape of the tables and of each process's place in append() or root().
TypeOK ==
    /\ DOMAIN leaf \subseteq Nat /\ leaf \in [DOMAIN leaf -> Leaf]
    /\ lock \in Process \cup {NoProcess}
    /\ pc \in [Process -> {"idle", "looked", "indexed", "begun", "inserted", "reading"}]
    /\ arg \in [Process -> Leaf \cup {NoLeaf}]
    /\ idx \in [Process -> Nat]
    /\ answered \subseteq Leaf \X Nat

\* Although the index is taken before the lock, the committed leaves are the
\* indexes 0 .. n - 1 without a hole and without a repeated leaf
\* (store.ts:58-64, "a duplicate leaf is refused, not silently reindexed").
DenseAndDistinct ==
    /\ DOMAIN leaf = 0 .. size - 1
    /\ \A i, j \in DOMAIN leaf : leaf[i] = leaf[j] => i = j

\* The log as a sequence.
Leaves == [i \in 1 .. size |-> leaf[i - 1]]

\* At every moment another process can look, the cache holds exactly the
\* complete subtrees of the committed leaves, each with the hash the pure
\* reference computes (tree.ts:8-20): never a leaf without its subtrees, nor
\* subtrees of a leaf that was rolled back.
CacheIsTheTree ==
    /\ DOMAIN node = {k \in (1 .. size) \X (0 .. size) :
                          IsPow2(k[1]) /\ (k[2] + 1) * k[1] <= size}
    /\ \A k \in DOMAIN node : node[k] = RangeHash(Leaves)[k[1]][k[2] * k[1]]

\* append() gave each caller an index the log still has for that leaf.
AnswersHold == \A a \in answered : a[2] \in DOMAIN leaf /\ leaf[a[2]] = a[1]

\* A reader outside any transaction, overtaken by any number of appends, still
\* finds every row it wants and answers the root of the log as it stood when
\* it read the size (store.ts:125-127, tree.ts:101-105).
ReadersSeeOneLog ==
    \A p \in Process : pc[p] = "reading" =>
        /\ idx[p] <= size
        /\ want[p].len > 0 => WantedKey(want[p]) \in DOMAIN node
        /\ HasRoot(p) => got[p][1] = RootOf(SubSeq(Leaves, 1, idx[p]))

\* Every step of every process leaves the log alone or appends one new leaf.
Log == INSTANCE LeafLog WITH log <- Leaves
ImplementsLeafLog == Log!LogSpec
=============================================================================
