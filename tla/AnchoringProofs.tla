-------------------------- MODULE AnchoringProofs ---------------------------
(***************************************************************************)
(* Theorems about Anchoring, for any number of anchoring processes, chains *)
(* and consent keys, and any bound on the log and on the failures.         *)
(*                                                                         *)
(* An anchor is written by a chain long after its triple was composed, and *)
(* a row long after its anchor was mined, so neither property follows from *)
(* itself.  The inductive invariant follows the triple on its way: what a  *)
(* process is going to send is earned, what is queued is earned and is the *)
(* draft of the one process that waits for it, and a process that goes on  *)
(* to write a row has its draft on the chain it writes about.              *)
(***************************************************************************)
EXTENDS Anchoring, FiniteSetTheorems, SequenceTheorems, WellFoundedInduction, TLAPS

\* The store has, or had, what the triple says.
Earned(t) ==
    /\ 0 < t.size /\ t.size <= t.root /\ t.root <= logSize
    /\ t.rev \subseteq revoked

OnChain(c, t) == \E j \in 1 .. Len(chain[c]) : t = TripleAt(c, j)

\* Every queued transaction is earned, and whoever waits for it waits for this
\* one only.
QueueInv(c) ==
    /\ \A i \in 1 .. Len(mempool[c]) :
          /\ Earned(mempool[c][i].tx)
          /\ mempool[c][i].by # NoOne =>
                /\ pc[mempool[c][i].by] = "sent"
                /\ target[mempool[c][i].by] = c
                /\ draft[mempool[c][i].by] = mempool[c][i].tx
    /\ \A i, j \in 1 .. Len(mempool[c]) :
          mempool[c][i].by # NoOne /\ mempool[c][i].by = mempool[c][j].by => i = j

CallInv(p) ==
    /\ pc[p] # "idle" => 0 < draft[p].size /\ draft[p].size <= logSize
    /\ pc[p] = "rooted" => draft[p].size <= draft[p].root /\ draft[p].root <= logSize
    /\ pc[p] \in {"composed", "sent", "mined", "recorded"} => Earned(draft[p])
    /\ pc[p] = "mined" => OnChain(target[p], draft[p])
    /\ pc[p] = "recorded" => OnChain(Primary, draft[p])

AInv ==
    /\ TypeOK
    /\ AnchorsAreEarned
    /\ RowsAreAnchors
    /\ \A c \in Chain : QueueInv(c)
    /\ \A p \in Anchorer : CallInv(p)

-----------------------------------------------------------------------------
(* Facts that do not depend on the action. *)

\* The store only grows and the chains only get longer.
Grown ==
    /\ logSize <= logSize' /\ revoked \subseteq revoked'
    /\ \A c \in Chain :
          /\ Len(chain[c]) <= Len(chain'[c])
          /\ \A j \in 1 .. Len(chain[c]) : chain'[c][j] = chain[c][j]

\* The types that every step needs.
LEMMA Types ==
    ASSUME TypeOK
    PROVE  /\ MaxSize \in Nat /\ Primary \in Chain /\ NoOne \notin Anchorer
           /\ logSize \in 0 .. MaxSize /\ logSize \in Nat /\ revoked \subseteq Key
           /\ chain \in [Chain -> Seq(Anchor)]
           /\ mempool \in [Chain -> Seq(Transaction)]
           /\ pc \in [Anchorer -> {"idle", "sized", "counted", "rooted", "composed", "sent", "mined", "recorded"}]
           /\ target \in [Anchorer -> Chain]
           /\ draft \in [Anchorer -> Triple]
           /\ legacy \in Seq(Triple)
           /\ \A c \in Chain : Len(chain[c]) \in Nat /\ Len(mempool[c]) \in Nat
BY AnchoringAssumption, LenProperties DEF TypeOK

\* What the store has earned it keeps.
LEMMA EarnedStays ==
    ASSUME TypeOK, TypeOK', Grown, NEW t \in Triple, Earned(t)
    PROVE  Earned(t)'
<1>1. t.root \in Nat /\ logSize \in Nat /\ logSize' \in Nat
  BY AnchoringAssumption DEF TypeOK, Triple
<1> QED
  BY <1>1 DEF Grown, Earned

\* An anchor stays on its chain.
LEMMA OnChainStays ==
    ASSUME TypeOK, TypeOK', Grown, NEW c \in Chain, NEW t, OnChain(c, t)
    PROVE  OnChain(c, t)'
<1>1. PICK j \in 1 .. Len(chain[c]) : t = TripleAt(c, j)
  BY DEF OnChain
<1>2. Len(chain[c]) \in Nat /\ Len(chain'[c]) \in Nat /\ Len(chain[c]) <= Len(chain'[c])
  BY LenProperties DEF TypeOK, Grown
<1>3. j \in 1 .. Len(chain'[c]) /\ chain'[c][j] = chain[c][j]
  BY <1>2 DEF Grown
<1>4. t = [root |-> chain'[c][j].root, size |-> chain'[c][j].size,
           rev |-> chain'[c][j].revocationRoot]
  BY <1>1, <1>3 DEF TripleAt
<1> QED
  BY <1>3, <1>4 DEF OnChain, TripleAt

\* Chains that have not moved stay earned.
LEMMA AnchorsStay ==
    ASSUME AInv, TypeOK', Grown, chain' = chain
    PROVE  AnchorsAreEarned'
<1> SUFFICES ASSUME NEW c \in Chain, NEW i \in 1 .. Len(chain[c])
             PROVE  /\ 0 < chain[c][i].size
                    /\ chain[c][i].size <= chain[c][i].root
                    /\ chain[c][i].root <= logSize'
                    /\ chain[c][i].revocationRoot \subseteq revoked'
  BY DEF AnchorsAreEarned
<1>1. chain[c][i] \in Anchor
  BY ElementOfSeq DEF AInv, TypeOK
<1>2. chain[c][i].root \in Nat
  BY <1>1, AnchoringAssumption DEF Anchor
<1>3. logSize \in Nat /\ logSize' \in Nat
  BY AnchoringAssumption DEF AInv, TypeOK
<1> QED
  BY <1>2, <1>3 DEF AInv, AnchorsAreEarned, Grown

\* Rows that have not moved stay anchors.
LEMMA RowsStay ==
    ASSUME AInv, TypeOK', Grown, rows' = rows, legacy' = legacy
    PROVE  RowsAreAnchors'
<1>1. ASSUME NEW c \in Chain, NEW i \in DOMAIN rows[c]
      PROVE  \E j \in 1 .. Len(chain'[c]) : rows[c][i] = TripleAt(c, j)'
  <2>1. PICK t : t = rows[c][i]
    OBVIOUS
  <2>2. OnChain(c, t)
    BY <2>1 DEF AInv, RowsAreAnchors, OnChain
  <2>3. OnChain(c, t)'
    BY <2>2, OnChainStays DEF AInv
  <2> QED
    BY <2>1, <2>3 DEF OnChain
<1>2. ASSUME NEW m \in 1 .. Len(legacy)
      PROVE  \E j \in 1 .. Len(chain'[Primary]) : legacy[m] = TripleAt(Primary, j)'
  <2>1. PICK t : t = legacy[m]
    OBVIOUS
  <2>2. OnChain(Primary, t)
    BY <2>1 DEF AInv, RowsAreAnchors, OnChain
  <2>3. OnChain(Primary, t)'
    BY <2>2, OnChainStays, AnchoringAssumption DEF AInv
  <2> QED
    BY <2>1, <2>3 DEF OnChain
<1> QED
  BY <1>1, <1>2 DEF RowsAreAnchors

\* A process that does not move keeps what it knows.
LEMMA CallStays ==
    ASSUME AInv, TypeOK', Grown, NEW q \in Anchorer,
           pc'[q] = pc[q], target'[q] = target[q], draft'[q] = draft[q]
    PROVE  CallInv(q)'
<1>1. draft[q] \in Triple /\ target[q] \in Chain /\ Primary \in Chain
  BY AnchoringAssumption DEF AInv, TypeOK
<1>2. draft[q].size \in Nat /\ logSize \in Nat /\ logSize' \in Nat
  BY <1>1, AnchoringAssumption DEF AInv, TypeOK, Triple
<1>3. CallInv(q)
  BY DEF AInv
<1>4. pc[q] # "idle" => 0 < draft[q].size /\ draft[q].size <= logSize'
  BY <1>2, <1>3 DEF CallInv, Grown
<1>8. pc[q] = "rooted" => draft[q].size <= draft[q].root /\ draft[q].root <= logSize'
  <2>1. draft[q].root \in Nat
    BY <1>1, AnchoringAssumption DEF Triple
  <2> QED
    BY <1>2, <1>3, <2>1 DEF CallInv, Grown
<1>5. Earned(draft[q]) => Earned(draft[q])'
  <2> SUFFICES ASSUME Earned(draft[q])
               PROVE  Earned(draft[q])'
    OBVIOUS
  <2>1. draft[q].root \in Nat
    BY <1>1, AnchoringAssumption DEF Triple
  <2> QED
    BY <1>2, <2>1 DEF Earned, Grown
<1>6. pc[q] = "mined" => OnChain(target[q], draft[q])'
  <2> SUFFICES ASSUME pc[q] = "mined"
               PROVE  OnChain(target[q], draft[q])'
    OBVIOUS
  <2>1. PICK c \in Chain : c = target[q]
    BY <1>1
  <2>2. PICK t \in Triple : t = draft[q]
    BY <1>1
  <2>3. OnChain(c, t)
    BY <1>3, <2>1, <2>2 DEF CallInv
  <2>4. OnChain(c, t)'
    BY <2>3, OnChainStays DEF AInv
  <2>5. c = target'[q] /\ t = draft'[q]
    BY <2>1, <2>2
  <2> QED
    BY <2>4, <2>5 DEF OnChain, TripleAt
<1>7. pc[q] = "recorded" => OnChain(Primary, draft[q])'
  <2> SUFFICES ASSUME pc[q] = "recorded"
               PROVE  OnChain(Primary, draft[q])'
    OBVIOUS
  <2>2. PICK t \in Triple : t = draft[q]
    BY <1>1
  <2>3. OnChain(Primary, t)
    BY <1>3, <2>2 DEF CallInv
  <2>4. OnChain(Primary, t)'
    BY <1>1, <2>3, OnChainStays DEF AInv
  <2>5. t = draft'[q]
    BY <2>2
  <2> QED
    BY <2>4, <2>5 DEF OnChain, TripleAt
<1> QED
  BY <1>3, <1>4, <1>5, <1>6, <1>7, <1>8 DEF CallInv

\* A queue that does not move keeps its order as long as those who wait for it
\* do not move either.
LEMMA QueueStays ==
    ASSUME AInv, TypeOK', Grown, NEW c \in Chain, mempool'[c] = mempool[c],
           \A q \in Anchorer : pc[q] = "sent" /\ target[q] = c =>
               pc'[q] = "sent" /\ target'[q] = c /\ draft'[q] = draft[q]
    PROVE  QueueInv(c)'
<1>1. QueueInv(c)
  BY DEF AInv
<1>2. ASSUME NEW i \in 1 .. Len(mempool[c])
      PROVE  /\ Earned(mempool[c][i].tx)'
             /\ mempool[c][i].by # NoOne =>
                   /\ pc'[mempool[c][i].by] = "sent"
                   /\ target'[mempool[c][i].by] = c
                   /\ draft'[mempool[c][i].by] = mempool[c][i].tx
  <2>1. mempool[c][i] \in Transaction
    BY ElementOfSeq DEF AInv, TypeOK
  <2>2. mempool[c][i].tx \in Triple /\ mempool[c][i].by \in Anchorer \cup {NoOne}
    BY <2>1 DEF Transaction
  <2>3. PICK t \in Triple : t = mempool[c][i].tx
    BY <2>2
  <2>4. Earned(t)'
    <3>1. Earned(t)
      BY <1>1, <2>3 DEF QueueInv
    <3> QED
      BY <3>1, EarnedStays DEF AInv
  <2>5. Earned(mempool[c][i].tx)'
    BY <2>3, <2>4 DEF Earned
  <2> QED
    BY <1>1, <2>2, <2>5 DEF QueueInv
<1> QED
  BY <1>1, <1>2 DEF QueueInv

\* A queue whose head has been executed: only the process that waited for the
\* head may have moved.
LEMMA QueueAdvances ==
    ASSUME AInv, TypeOK', Grown, NEW c \in Chain,
           mempool[c] # <<>>, mempool'[c] = Tail(mempool[c]),
           \A q \in Anchorer : pc[q] = "sent" /\ target[q] = c /\ q # Waiting(c) =>
               pc'[q] = "sent" /\ target'[q] = c /\ draft'[q] = draft[q]
    PROVE  QueueInv(c)'
<1>1. QueueInv(c) /\ mempool[c] \in Seq(Transaction)
  BY DEF AInv, TypeOK
<1>2. /\ Len(mempool[c]) \in Nat /\ Len(mempool[c]) # 0
      /\ Len(Tail(mempool[c])) = Len(mempool[c]) - 1
      /\ \A i \in 1 .. Len(Tail(mempool[c])) : Tail(mempool[c])[i] = mempool[c][i + 1]
      /\ Head(mempool[c]) = mempool[c][1]
  BY <1>1, HeadTailProperties, EmptySeq, LenProperties
<1>3. ASSUME NEW i \in 1 .. Len(mempool'[c])
      PROVE  /\ i + 1 \in 1 .. Len(mempool[c]) /\ i + 1 # 1 /\ 1 \in 1 .. Len(mempool[c])
             /\ mempool'[c][i] = mempool[c][i + 1]
  BY <1>2
<1>4. ASSUME NEW i \in 1 .. Len(mempool'[c])
      PROVE  /\ Earned(mempool[c][i].tx)'
             /\ mempool'[c][i].by # NoOne =>
                   /\ pc'[mempool'[c][i].by] = "sent"
                   /\ target'[mempool'[c][i].by] = c
                   /\ draft'[mempool'[c][i].by] = mempool'[c][i].tx
  <2>1. PICK e \in Transaction : e = mempool[c][i + 1]
    BY <1>1, <1>3, ElementOfSeq
  <2>2. e = mempool'[c][i]
    BY <1>3, <2>1
  <2>3. e.tx \in Triple /\ e.by \in Anchorer \cup {NoOne}
    BY <2>1 DEF Transaction
  <2>4. PICK t \in Triple : t = e.tx
    BY <2>3
  <2>5. /\ Earned(t)
        /\ e.by # NoOne => pc[e.by] = "sent" /\ target[e.by] = c /\ draft[e.by] = t
    BY <1>1, <1>3, <2>1, <2>4 DEF QueueInv
  <2>6. Earned(t)'
    BY <2>5, EarnedStays DEF AInv
  <2>7. e.by # NoOne => e.by # Waiting(c)
    BY <1>1, <1>2, <1>3, <2>1 DEF QueueInv, Waiting
  <2>8. e.by # NoOne => pc'[e.by] = "sent" /\ target'[e.by] = c /\ draft'[e.by] = t
    BY <2>3, <2>5, <2>7
  <2> QED
    BY <2>2, <2>4, <2>6, <2>8 DEF Earned
<1>5. ASSUME NEW i \in 1 .. Len(mempool'[c]), NEW j \in 1 .. Len(mempool'[c]),
             mempool'[c][i].by # NoOne, mempool'[c][i].by = mempool'[c][j].by
      PROVE  i = j
  <2>1. /\ i + 1 \in 1 .. Len(mempool[c]) /\ j + 1 \in 1 .. Len(mempool[c])
        /\ mempool'[c][i] = mempool[c][i + 1] /\ mempool'[c][j] = mempool[c][j + 1]
    BY <1>3
  <2>2. i + 1 = j + 1
    BY <1>1, <1>5, <2>1 DEF QueueInv
  <2> QED
    BY <1>2, <2>2
<1> QED
  BY <1>4, <1>5 DEF QueueInv

-----------------------------------------------------------------------------
(* Steps by what they touch. *)

\* The API adds to the store and nothing else moves.
LEMMA StoreStep ==
    ASSUME AInv, TypeOK', Grown, UNCHANGED <<rows, legacy, chain, mempool, local>>
    PROVE  AInv'
<1>1. /\ rows' = rows /\ legacy' = legacy /\ chain' = chain /\ mempool' = mempool
      /\ pc' = pc /\ target' = target /\ draft' = draft
  BY DEF local
<1>2. AnchorsAreEarned' /\ RowsAreAnchors'
  BY <1>1, AnchorsStay, RowsStay
<1>3. \A c \in Chain : QueueInv(c)'
  BY <1>1, QueueStays
<1>4. \A q \in Anchorer : CallInv(q)'
  BY <1>1, CallStays
<1> QED
  BY <1>2, <1>3, <1>4 DEF AInv

\* A step of anchorHead that neither sends, is sent, nor writes a row.
LEMMA LocalStep ==
    ASSUME AInv, TypeOK', NEW p \in Anchorer, pc[p] # "sent",
           UNCHANGED <<store, chain, mempool>>,
           \A q \in Anchorer \ {p} :
               pc'[q] = pc[q] /\ target'[q] = target[q] /\ draft'[q] = draft[q],
           CallInv(p)'
    PROVE  AInv'
<1>1. /\ logSize' = logSize /\ revoked' = revoked /\ rows' = rows /\ legacy' = legacy
      /\ chain' = chain /\ mempool' = mempool
  BY DEF store
<1>2. Grown
  BY <1>1, Types DEF AInv, Grown
<1>3. AnchorsAreEarned' /\ RowsAreAnchors'
  BY <1>1, <1>2, AnchorsStay, RowsStay
<1>4. \A c \in Chain : QueueInv(c)'
  BY <1>1, <1>2, QueueStays
<1>5. \A q \in Anchorer : CallInv(q)'
  BY <1>2, CallStays
<1> QED
  BY <1>3, <1>4, <1>5 DEF AInv

\* A call that ends is bound by nothing.
LEMMA FinishShape ==
    ASSUME TypeOK, NEW p \in Anchorer, Finish(p)
    PROVE  /\ pc' \in [Anchorer -> {"idle", "sized", "counted", "rooted", "composed", "sent", "mined", "recorded"}]
           /\ target' \in [Anchorer -> Chain]
           /\ count' \in [Anchorer -> Nat]
           /\ draft' \in [Anchorer -> Triple]
           /\ CallInv(p)'
           /\ \A q \in Anchorer \ {p} :
                 pc'[q] = pc[q] /\ target'[q] = target[q] /\ draft'[q] = draft[q]
<1>1. NoDraft \in Triple /\ Primary \in Chain
  BY AnchoringAssumption DEF NoDraft, Triple
<1>2. pc'[p] = "idle"
  BY DEF Finish, TypeOK
<1>3. CallInv(p)'
  BY <1>2 DEF CallInv
<1> QED
  BY <1>1, <1>3 DEF Finish, TypeOK

\* The call ends.
LEMMA FinishStep ==
    ASSUME AInv, NEW p \in Anchorer, pc[p] # "sent", Finish(p),
           UNCHANGED <<store, chain, mempool, failures>>
    PROVE  AInv'
<1>1. TypeOK'
  BY FinishShape DEF AInv, TypeOK, store
<1> QED
  BY <1>1, FinishShape, LocalStep DEF AInv

\* The root covers the size that was read before it.
LEMMA RootShape ==
    ASSUME AInv, NEW p \in Anchorer, pc[p] # "idle", TakeRoot(p)
    PROVE  /\ draft' \in [Anchorer -> Triple]
           /\ draft'[p].size = draft[p].size /\ draft'[p].root = logSize
           /\ 0 < draft[p].size /\ draft[p].size <= logSize
           /\ \A q \in Anchorer \ {p} : draft'[q] = draft[q]
<1>1. draft \in [Anchorer -> Triple] /\ logSize \in 0 .. MaxSize
  BY DEF AInv, TypeOK
<1>2. 0 < draft[p].size /\ draft[p].size <= logSize
  BY DEF AInv, CallInv
<1>3. draft' = [draft EXCEPT ![p].root = logSize]
  BY DEF TakeRoot
<1>4. draft'[p] \in Triple /\ draft'[p].size = draft[p].size /\ draft'[p].root = logSize
  BY <1>1, <1>3 DEF Triple
<1>5. draft' \in [Anchorer -> Triple] /\ \A q \in Anchorer \ {p} : draft'[q] = draft[q]
  BY <1>1, <1>3, <1>4
<1> QED
  BY <1>2, <1>4, <1>5

\* With the revocations, the triple is one that the store has earned.
LEMMA RevocationsShape ==
    ASSUME AInv, NEW p \in Anchorer, pc[p] = "rooted", TakeRevocations(p),
           UNCHANGED <<logSize, revoked>>
    PROVE  /\ draft' \in [Anchorer -> Triple]
           /\ draft'[p].size = draft[p].size /\ draft'[p].rev = revoked
           /\ Earned(draft[p])'
           /\ \A q \in Anchorer \ {p} : draft'[q] = draft[q]
<1>1. draft \in [Anchorer -> Triple] /\ revoked \subseteq Key
  BY DEF AInv, TypeOK
<1>2. /\ 0 < draft[p].size /\ draft[p].size <= draft[p].root /\ draft[p].root <= logSize
  BY DEF AInv, CallInv
<1>3. draft' = [draft EXCEPT ![p].rev = revoked]
  BY DEF TakeRevocations
<1>4. /\ draft'[p] \in Triple /\ draft'[p].size = draft[p].size
      /\ draft'[p].root = draft[p].root /\ draft'[p].rev = revoked
  BY <1>1, <1>3 DEF Triple
<1>5. draft' \in [Anchorer -> Triple] /\ \A q \in Anchorer \ {p} : draft'[q] = draft[q]
  BY <1>1, <1>3, <1>4
<1>6. Earned(draft[p])'
  BY <1>2, <1>4 DEF Earned
<1> QED
  BY <1>4, <1>5, <1>6

-----------------------------------------------------------------------------
(* Steps that write a row. *)

\* Record: the draft of a process that has its receipt is on the chain.
LEMMA RecordStep ==
    ASSUME AInv, NEW p \in Anchorer, Record(p)
    PROVE  AInv'
<1>0. /\ logSize' = logSize /\ revoked' = revoked /\ legacy' = legacy
      /\ chain' = chain /\ mempool' = mempool /\ failures' = failures
      /\ pc[p] = "mined"
  BY DEF Record
<1>1. PICK c \in Chain : c = target[p]
  BY Types DEF AInv
<1>2. PICK t \in Triple : t = draft[p]
  BY Types DEF AInv
<1>3. OnChain(c, t) /\ Earned(t) /\ 0 < draft[p].size /\ draft[p].size <= logSize
  BY <1>0, <1>1, <1>2 DEF AInv, CallInv
<1>4. Len(chain[c]) \in Nat /\ Len(chain[c]) - 1 \in Nat
  <2>1. Len(chain[c]) \in Nat
    BY Types DEF AInv
  <2>2. 1 .. Len(chain[c]) # {}
    BY <1>3 DEF OnChain
  <2> QED
    BY <2>1, <2>2
<1>5. /\ DOMAIN rows = Chain
      /\ \A d \in Chain : DOMAIN rows[d] \subseteq Nat /\ rows[d] \in [DOMAIN rows[d] -> Triple]
      /\ rows' = [rows EXCEPT ![c] = PutRow(rows[c], Len(chain[c]) - 1, t)]
  BY <1>1, <1>2 DEF AInv, TypeOK, Record
<1>6. /\ DOMAIN rows' = Chain
      /\ rows'[c] = PutRow(rows[c], Len(chain[c]) - 1, t)
      /\ \A d \in Chain \ {c} : rows'[d] = rows[d]
  BY <1>5
<1>7. /\ DOMAIN rows'[c] \subseteq Nat /\ rows'[c] \in [DOMAIN rows'[c] -> Triple]
      /\ \A i \in DOMAIN rows'[c] : rows'[c][i] = t \/ (i \in DOMAIN rows[c] /\ rows'[c][i] = rows[c][i])
  BY <1>4, <1>5, <1>6 DEF PutRow
<1>8. /\ pc' \in [Anchorer -> {"idle", "sized", "counted", "rooted", "composed", "sent", "mined", "recorded"}]
      /\ target' \in [Anchorer -> Chain] /\ count' \in [Anchorer -> Nat]
      /\ draft' \in [Anchorer -> Triple]
      /\ \A q \in Anchorer \ {p} :
            pc'[q] = pc[q] /\ target'[q] = target[q] /\ draft'[q] = draft[q]
  <2>1. CASE c = Primary
    BY <1>1, <2>1 DEF Record, Step, AInv, TypeOK
  <2>2. CASE c # Primary
    BY <1>1, <2>2, FinishShape DEF Record, AInv
  <2> QED
    BY <2>1, <2>2
<1>9. TypeOK'
  <2>1. \A d \in Chain : DOMAIN rows'[d] \subseteq Nat /\ rows'[d] \in [DOMAIN rows'[d] -> Triple]
    BY <1>5, <1>6, <1>7
  <2> QED
    BY <1>0, <1>6, <1>8, <2>1 DEF AInv, TypeOK
<1>10. Grown
  BY <1>0, Types DEF AInv, Grown
<1>11. AnchorsAreEarned'
  BY <1>0, <1>9, <1>10, AnchorsStay
<1>12. RowsAreAnchors'
  <2>1. ASSUME NEW d \in Chain, NEW i \in DOMAIN rows'[d]
        PROVE  \E j \in 1 .. Len(chain[d]) : rows'[d][i] = TripleAt(d, j)
    <3>1. CASE i \in DOMAIN rows[d] /\ rows'[d][i] = rows[d][i]
      BY <3>1 DEF AInv, RowsAreAnchors
    <3>2. CASE d = c /\ rows'[d][i] = t
      BY <1>3, <3>2 DEF OnChain
    <3> QED
      BY <1>6, <1>7, <3>1, <3>2
  <2>2. \A m \in 1 .. Len(legacy) :
           \E j \in 1 .. Len(chain[Primary]) : legacy[m] = TripleAt(Primary, j)
    BY DEF AInv, RowsAreAnchors
  <2> QED
    BY <1>0, <2>1, <2>2 DEF RowsAreAnchors, TripleAt
<1>13. \A d \in Chain : QueueInv(d)'
  BY <1>0, <1>8, <1>9, <1>10, QueueStays
<1>14. CallInv(p)'
  <2>1. CASE c = Primary
    <3>1. pc'[p] = "recorded" /\ draft'[p] = t
      BY <1>0, <1>1, <1>2, <2>1 DEF Record, Step, AInv, TypeOK
    <3>2. Earned(draft[p])' /\ OnChain(Primary, draft[p])'
      BY <1>0, <1>3, <2>1, <3>1 DEF Earned, OnChain, TripleAt
    <3> QED
      BY <1>0, <1>2, <1>3, <3>1, <3>2 DEF CallInv
  <2>2. CASE c # Primary
    BY <1>1, <2>2, FinishShape DEF Record, AInv
  <2> QED
    BY <2>1, <2>2
<1>15. \A q \in Anchorer : CallInv(q)'
  BY <1>8, <1>9, <1>10, <1>14, CallStays
<1> QED
  BY <1>9, <1>11, <1>12, <1>13, <1>15 DEF AInv

\* The row of the primary in the older table.
LEMMA RecordLegacyStep ==
    ASSUME AInv, NEW p \in Anchorer, RecordLegacy(p)
    PROVE  AInv'
<1>0. /\ logSize' = logSize /\ revoked' = revoked /\ rows' = rows
      /\ chain' = chain /\ mempool' = mempool /\ failures' = failures
      /\ pc[p] = "recorded" /\ Finish(p)
  BY DEF RecordLegacy
<1>2. PICK t \in Triple : t = draft[p]
  BY Types DEF AInv
<1>3. OnChain(Primary, t)
  BY <1>0, <1>2 DEF AInv, CallInv
<1>4. legacy' = Append(legacy, t) /\ legacy \in Seq(Triple)
  BY <1>2 DEF RecordLegacy, AInv, TypeOK
<1>5. /\ legacy' \in Seq(Triple) /\ Len(legacy) \in Nat
      /\ Len(legacy') = Len(legacy) + 1
      /\ \A m \in 1 .. Len(legacy) : legacy'[m] = legacy[m]
      /\ legacy'[Len(legacy) + 1] = t
  BY <1>4, AppendProperties, LenProperties
<1>9. TypeOK'
  BY <1>0, <1>5, FinishShape DEF AInv, TypeOK
<1>10. Grown
  BY <1>0, Types DEF AInv, Grown
<1>11. AnchorsAreEarned'
  BY <1>0, <1>9, <1>10, AnchorsStay
<1>12. RowsAreAnchors'
  <2>1. ASSUME NEW m \in 1 .. Len(legacy')
        PROVE  \E j \in 1 .. Len(chain[Primary]) : legacy'[m] = TripleAt(Primary, j)
    <3>1. CASE m \in 1 .. Len(legacy)
      BY <1>5, <3>1 DEF AInv, RowsAreAnchors
    <3>2. CASE m = Len(legacy) + 1
      BY <1>3, <1>5, <3>2 DEF OnChain
    <3> QED
      BY <1>5, <3>1, <3>2
  <2>2. \A c \in Chain : \A i \in DOMAIN rows[c] :
           \E j \in 1 .. Len(chain[c]) : rows[c][i] = TripleAt(c, j)
    BY DEF AInv, RowsAreAnchors
  <2> QED
    BY <1>0, <2>1, <2>2 DEF RowsAreAnchors, TripleAt
<1>13. \A d \in Chain : QueueInv(d)'
  <2>1. \A q \in Anchorer \ {p} :
           pc'[q] = pc[q] /\ target'[q] = target[q] /\ draft'[q] = draft[q]
    BY <1>0, FinishShape DEF AInv
  <2> QED
    BY <1>0, <1>9, <1>10, <2>1, QueueStays
<1>15. \A q \in Anchorer : CallInv(q)'
  BY <1>0, <1>9, <1>10, FinishShape, CallStays DEF AInv
<1> QED
  BY <1>9, <1>11, <1>12, <1>13, <1>15 DEF AInv

-----------------------------------------------------------------------------
(* Steps that queue, orphan and execute transactions. *)

\* The transaction joins the queue of its chain.
LEMMA SubmitStep ==
    ASSUME AInv, NEW p \in Anchorer, Submit(p)
    PROVE  AInv'
<1>0. /\ logSize' = logSize /\ revoked' = revoked /\ rows' = rows /\ legacy' = legacy
      /\ chain' = chain /\ failures' = failures
      /\ target' = target /\ draft' = draft /\ count' = count
      /\ pc[p] = "composed" /\ pc' = [pc EXCEPT ![p] = "sent"]
  BY DEF Submit, store, Step
<1>1. PICK c \in Chain : c = target[p]
  BY Types DEF AInv
<1>2. PICK t \in Triple : t = draft[p]
  BY Types DEF AInv
<1>3. PICK e \in Transaction : e = [by |-> p, tx |-> t]
  BY DEF Transaction
<1>4. /\ mempool' = [mempool EXCEPT ![c] = Append(mempool[c], e)]
      /\ mempool \in [Chain -> Seq(Transaction)]
      /\ pc \in [Anchorer -> {"idle", "sized", "counted", "rooted", "composed", "sent", "mined", "recorded"}]
  BY <1>1, <1>2, <1>3 DEF Submit, AInv, TypeOK
<1>5. /\ mempool'[c] = Append(mempool[c], e)
      /\ mempool'[c] \in Seq(Transaction)
      /\ Len(mempool[c]) \in Nat
      /\ Len(mempool'[c]) = Len(mempool[c]) + 1
      /\ \A i \in 1 .. Len(mempool[c]) : mempool'[c][i] = mempool[c][i]
      /\ mempool'[c][Len(mempool[c]) + 1] = e
  BY <1>4, AppendProperties, LenProperties
<1>6. /\ pc'[p] = "sent" /\ \A q \in Anchorer \ {p} : pc'[q] = pc[q]
      /\ pc' \in [Anchorer -> {"idle", "sized", "counted", "rooted", "composed", "sent", "mined", "recorded"}]
  BY <1>0, <1>4
<1>9. TypeOK'
  BY <1>0, <1>4, <1>5, <1>6 DEF AInv, TypeOK
<1>10. Grown
  BY <1>0, Types DEF AInv, Grown
<1>11. AnchorsAreEarned' /\ RowsAreAnchors'
  BY <1>0, <1>9, <1>10, AnchorsStay, RowsStay
<1>12. Earned(t)
  BY <1>0, <1>2 DEF AInv, CallInv
<1>13. QueueInv(c)'
  <2>1. QueueInv(c)
    BY DEF AInv
  <2>2. ASSUME NEW i \in 1 .. Len(mempool[c])
        PROVE  mempool[c][i].by \in (Anchorer \ {p}) \cup {NoOne}
    <3>0. mempool[c][i] \in Transaction
      BY <1>4, ElementOfSeq
    <3>1. mempool[c][i].by \in Anchorer \cup {NoOne}
      BY <3>0 DEF Transaction
    <3>2. mempool[c][i].by # p
      BY <1>0, <2>1, AnchoringAssumption DEF QueueInv
    <3> QED
      BY <3>1, <3>2
  <2>3. e.by = p /\ e.tx = t
    BY <1>3
  <2>4. ASSUME NEW i \in 1 .. Len(mempool'[c])
        PROVE  /\ Earned(mempool[c][i].tx)'
               /\ mempool'[c][i].by # NoOne =>
                     /\ pc'[mempool'[c][i].by] = "sent"
                     /\ target'[mempool'[c][i].by] = c
                     /\ draft'[mempool'[c][i].by] = mempool'[c][i].tx
    <3>1. CASE i \in 1 .. Len(mempool[c])
      BY <1>0, <1>5, <1>6, <2>1, <2>2, <3>1 DEF QueueInv, Earned
    <3>2. CASE i = Len(mempool[c]) + 1
      BY <1>0, <1>1, <1>2, <1>5, <1>6, <1>12, <2>3, <3>2 DEF Earned
    <3> QED
      BY <1>5, <3>1, <3>2
  <2>5. ASSUME NEW i \in 1 .. Len(mempool'[c]), NEW j \in 1 .. Len(mempool'[c]),
               mempool'[c][i].by # NoOne, mempool'[c][i].by = mempool'[c][j].by
        PROVE  i = j
    <3>1. CASE i \in 1 .. Len(mempool[c]) /\ j \in 1 .. Len(mempool[c])
      BY <1>5, <2>1, <2>5, <3>1 DEF QueueInv
    <3>2. CASE i = Len(mempool[c]) + 1 /\ j \in 1 .. Len(mempool[c])
      BY <1>5, <2>2, <2>3, <2>5, <3>2, AnchoringAssumption
    <3>3. CASE i \in 1 .. Len(mempool[c]) /\ j = Len(mempool[c]) + 1
      BY <1>5, <2>2, <2>3, <2>5, <3>3, AnchoringAssumption
    <3> QED
      BY <1>5, <3>1, <3>2, <3>3
  <2> QED
    BY <2>4, <2>5 DEF QueueInv
<1>14. ASSUME NEW d \in Chain, d # c
       PROVE  QueueInv(d)'
  <2>1. mempool'[d] = mempool[d]
    BY <1>4, <1>14
  <2>2. \A q \in Anchorer : pc[q] = "sent" => pc'[q] = "sent"
    BY <1>6
  <2> QED
    BY <1>0, <1>9, <1>10, <2>1, <2>2, QueueStays
<1>15. CallInv(p)'
  BY <1>0, <1>2, <1>6, <1>12 DEF CallInv, Earned, AInv
<1>16. \A q \in Anchorer : CallInv(q)'
  BY <1>0, <1>6, <1>9, <1>10, <1>15, CallStays
<1> QED
  BY <1>9, <1>11, <1>13, <1>14, <1>16 DEF AInv

\* A call that fails orphans what it has sent.
LEMMA FailStep ==
    ASSUME AInv, NEW p \in Anchorer, Fail(p)
    PROVE  AInv'
<1>0. /\ logSize' = logSize /\ revoked' = revoked /\ rows' = rows /\ legacy' = legacy
      /\ chain' = chain /\ failures < MaxFailures /\ failures' = failures + 1
      /\ Finish(p)
  BY DEF Fail, store
<1>1. /\ mempool' = [c \in Chain |->
             [i \in 1 .. Len(mempool[c]) |->
                [mempool[c][i] EXCEPT !.by = IF @ = p THEN NoOne ELSE @]]]
  BY DEF Fail
<1>2. ASSUME NEW c \in Chain
      PROVE  /\ mempool'[c] \in Seq(Transaction)
             /\ Len(mempool'[c]) = Len(mempool[c])
             /\ \A i \in 1 .. Len(mempool[c]) :
                   /\ mempool[c][i] \in Transaction /\ mempool'[c][i] \in Transaction
                   /\ mempool'[c][i].tx = mempool[c][i].tx
                   /\ mempool'[c][i].by = IF mempool[c][i].by = p THEN NoOne
                                          ELSE mempool[c][i].by
  <2>1. mempool[c] \in Seq(Transaction) /\ Len(mempool[c]) \in Nat
    BY LenProperties DEF AInv, TypeOK
  <2>2. mempool'[c] = [i \in 1 .. Len(mempool[c]) |->
                         [mempool[c][i] EXCEPT !.by = IF @ = p THEN NoOne ELSE @]]
    BY <1>1
  <2>3. ASSUME NEW i \in 1 .. Len(mempool[c])
        PROVE  /\ mempool[c][i] \in Transaction /\ mempool'[c][i] \in Transaction
               /\ mempool'[c][i].tx = mempool[c][i].tx
               /\ mempool'[c][i].by = IF mempool[c][i].by = p THEN NoOne
                                      ELSE mempool[c][i].by
    <3>1. mempool[c][i] \in Transaction
      BY <2>1, ElementOfSeq
    <3>2. mempool'[c][i] = [mempool[c][i] EXCEPT !.by = IF @ = p THEN NoOne ELSE @]
      BY <2>2
    <3> QED
      BY <3>1, <3>2 DEF Transaction
  <2>4. mempool'[c] \in [1 .. Len(mempool[c]) -> Transaction]
    BY <2>2, <2>3
  <2>5. mempool'[c] \in Seq(Transaction)
    BY <2>1, <2>4, SeqDef
  <2>6. Len(mempool'[c]) = Len(mempool[c])
    <3>1. DOMAIN mempool'[c] = 1 .. Len(mempool[c])
      BY <2>2
    <3>2. Len(mempool'[c]) \in Nat /\ DOMAIN mempool'[c] = 1 .. Len(mempool'[c])
      BY <2>5, LenProperties
    <3> QED
      BY <2>1, <3>1, <3>2
  <2> QED
    BY <2>3, <2>5, <2>6
<1>3. mempool' \in [Chain -> Seq(Transaction)]
  BY <1>1, <1>2
<1>9. TypeOK'
  <2>1. failures' \in 0 .. MaxFailures
    BY <1>0, AnchoringAssumption DEF AInv, TypeOK
  <2> QED
    BY <1>0, <1>3, <2>1, FinishShape DEF AInv, TypeOK
<1>10. Grown
  BY <1>0, Types DEF AInv, Grown
<1>11. AnchorsAreEarned' /\ RowsAreAnchors'
  BY <1>0, <1>9, <1>10, AnchorsStay, RowsStay
<1>12. \A q \in Anchorer \ {p} :
          pc'[q] = pc[q] /\ target'[q] = target[q] /\ draft'[q] = draft[q]
  BY <1>0, FinishShape DEF AInv
<1>13. ASSUME NEW c \in Chain
       PROVE  QueueInv(c)'
  <2>1. QueueInv(c)
    BY DEF AInv
  <2>2. ASSUME NEW i \in 1 .. Len(mempool'[c])
        PROVE  /\ Earned(mempool[c][i].tx)'
               /\ mempool'[c][i].by # NoOne =>
                     /\ pc'[mempool'[c][i].by] = "sent"
                     /\ target'[mempool'[c][i].by] = c
                     /\ draft'[mempool'[c][i].by] = mempool'[c][i].tx
    <3>1. /\ i \in 1 .. Len(mempool[c])
          /\ mempool[c][i] \in Transaction
          /\ mempool'[c][i].tx = mempool[c][i].tx
          /\ mempool'[c][i].by = IF mempool[c][i].by = p THEN NoOne ELSE mempool[c][i].by
      BY <1>2
    <3>2. Earned(mempool[c][i].tx)'
      BY <1>0, <2>1, <3>1 DEF QueueInv, Earned
    <3>3. mempool[c][i].by \in Anchorer \cup {NoOne}
      BY <3>1 DEF Transaction
    <3>4. ASSUME mempool'[c][i].by # NoOne
          PROVE  /\ mempool'[c][i].by = mempool[c][i].by
                 /\ mempool[c][i].by \in Anchorer \ {p}
      BY <3>1, <3>3, <3>4
    <3> QED
      BY <1>12, <2>1, <3>1, <3>2, <3>4 DEF QueueInv
  <2>3. ASSUME NEW i \in 1 .. Len(mempool'[c]), NEW j \in 1 .. Len(mempool'[c]),
               mempool'[c][i].by # NoOne, mempool'[c][i].by = mempool'[c][j].by
        PROVE  i = j
    <3>1. /\ i \in 1 .. Len(mempool[c]) /\ j \in 1 .. Len(mempool[c])
          /\ mempool[c][i].by = mempool'[c][i].by /\ mempool[c][j].by = mempool'[c][j].by
      BY <1>2, <2>3
    <3> QED
      BY <2>1, <2>3, <3>1 DEF QueueInv
  <2> QED
    BY <2>2, <2>3 DEF QueueInv
<1>15. \A q \in Anchorer : CallInv(q)'
  BY <1>0, <1>9, <1>10, <1>12, FinishShape, CallStays DEF AInv
<1> QED
  BY <1>9, <1>11, <1>13, <1>15 DEF AInv

\* The transaction at the head of a queue.
LEMMA HeadShape ==
    ASSUME AInv, NEW c \in Chain, mempool[c] # <<>>
    PROVE  /\ NextTx(c) \in Triple /\ Earned(NextTx(c))
           /\ Waiting(c) \in Anchorer \cup {NoOne}
           /\ Waiting(c) # NoOne =>
                 pc[Waiting(c)] = "sent" /\ target[Waiting(c)] = c /\ draft[Waiting(c)] = NextTx(c)
           /\ Tail(mempool[c]) \in Seq(Transaction)
<1>1. mempool[c] \in Seq(Transaction)
  BY DEF AInv, TypeOK
<1>2. 1 \in 1 .. Len(mempool[c]) /\ Head(mempool[c]) = mempool[c][1]
  BY <1>1, EmptySeq, HeadTailProperties
<1>3. mempool[c][1] \in Transaction /\ Tail(mempool[c]) \in Seq(Transaction)
  BY <1>1, <1>2, ElementOfSeq, HeadTailProperties
<1>4. NextTx(c) = mempool[c][1].tx /\ Waiting(c) = mempool[c][1].by
  BY <1>2 DEF NextTx, Waiting
<1>5. NextTx(c) \in Triple /\ Waiting(c) \in Anchorer \cup {NoOne}
  BY <1>3, <1>4 DEF Transaction
<1>6. QueueInv(c)
  BY DEF AInv
<1> QED
  BY <1>2, <1>3, <1>4, <1>5, <1>6 DEF QueueInv, Earned

\* The chain refuses a transaction.
LEMMA MineRevertedStep ==
    ASSUME AInv, NEW c \in Chain, MineReverted(c)
    PROVE  AInv'
<1>0. /\ logSize' = logSize /\ revoked' = revoked /\ rows' = rows /\ legacy' = legacy
      /\ chain' = chain /\ failures' = failures
      /\ mempool[c] # <<>> /\ mempool' = [mempool EXCEPT ![c] = Tail(mempool[c])]
  BY DEF MineReverted, store
<1>1. /\ mempool \in [Chain -> Seq(Transaction)]
      /\ Tail(mempool[c]) \in Seq(Transaction)
      /\ Waiting(c) \in Anchorer \cup {NoOne}
      /\ Waiting(c) # NoOne => pc[Waiting(c)] = "sent" /\ target[Waiting(c)] = c
  BY <1>0, HeadShape DEF AInv, TypeOK
<1>2. /\ pc' \in [Anchorer -> {"idle", "sized", "counted", "rooted", "composed", "sent", "mined", "recorded"}]
      /\ target' \in [Anchorer -> Chain] /\ count' \in [Anchorer -> Nat]
      /\ draft' \in [Anchorer -> Triple]
      /\ \A q \in Anchorer \ {Waiting(c)} :
            pc'[q] = pc[q] /\ target'[q] = target[q] /\ draft'[q] = draft[q]
  <2>1. CASE Waiting(c) = NoOne
    BY <2>1 DEF MineReverted, local, AInv, TypeOK
  <2>2. CASE Waiting(c) # NoOne
    BY <1>1, <2>2, FinishShape DEF MineReverted, AInv
  <2> QED
    BY <2>1, <2>2
<1>9. TypeOK'
  BY <1>0, <1>1, <1>2 DEF AInv, TypeOK
<1>10. Grown
  BY <1>0, Types DEF AInv, Grown
<1>11. AnchorsAreEarned' /\ RowsAreAnchors'
  BY <1>0, <1>9, <1>10, AnchorsStay, RowsStay
<1>12. QueueInv(c)'
  BY <1>0, <1>1, <1>2, <1>9, <1>10, QueueAdvances
<1>13. ASSUME NEW d \in Chain, d # c
       PROVE  QueueInv(d)'
  <2>1. mempool'[d] = mempool[d]
    BY <1>0, <1>1, <1>13
  <2>2. \A q \in Anchorer : target[q] = d => q # Waiting(c)
    BY <1>1, <1>13, AnchoringAssumption
  <2> QED
    BY <1>2, <1>9, <1>10, <2>1, <2>2, QueueStays
<1>14. ASSUME NEW q \in Anchorer
       PROVE  CallInv(q)'
  <2>1. CASE q = Waiting(c)
    <3>1. Finish(q)
      BY <2>1, AnchoringAssumption DEF MineReverted
    <3> QED
      BY <3>1, FinishShape DEF AInv
  <2>2. CASE q # Waiting(c)
    BY <1>2, <1>9, <1>10, <2>2, CallStays
  <2> QED
    BY <2>1, <2>2
<1> QED
  BY <1>9, <1>11, <1>12, <1>13, <1>14 DEF AInv

\* GraspLog appends the record of an earned triple, and whoever waits for it
\* has its draft on the chain.
LEMMA MineAcceptedStep ==
    ASSUME AInv, NEW c \in Chain, MineAccepted(c)
    PROVE  AInv'
<1>0. /\ logSize' = logSize /\ revoked' = revoked /\ rows' = rows /\ legacy' = legacy
      /\ target' = target /\ draft' = draft /\ count' = count /\ failures' = failures
      /\ mempool[c] # <<>> /\ mempool' = [mempool EXCEPT ![c] = Tail(mempool[c])]
      /\ pc' = [q \in Anchorer |-> IF q = Waiting(c) THEN "mined" ELSE pc[q]]
  BY DEF MineAccepted, store
<1>1. /\ mempool \in [Chain -> Seq(Transaction)]
      /\ Tail(mempool[c]) \in Seq(Transaction)
      /\ Waiting(c) \in Anchorer \cup {NoOne}
      /\ Waiting(c) # NoOne => pc[Waiting(c)] = "sent" /\ target[Waiting(c)] = c
                              /\ draft[Waiting(c)] = NextTx(c)
  BY <1>0, HeadShape DEF AInv, TypeOK
<1>2. PICK t \in Triple : t = NextTx(c)
  BY <1>0, HeadShape
<1>3. Earned(t)
  BY <1>0, <1>2, HeadShape
<1>4. chain \in [Chain -> Seq(Anchor)] /\ chain[c] \in Seq(Anchor)
  BY DEF AInv, TypeOK
<1>5. PICK a \in Anchor : /\ chain'[c] = Append(chain[c], a)
                          /\ a.root = t.root /\ a.size = t.size /\ a.revocationRoot = t.rev
  <2>1. ASSUME NEW prev
        PROVE  /\ [root |-> t.root, prevRoot |-> prev, revocationRoot |-> t.rev, size |-> t.size].root = t.root
               /\ [root |-> t.root, prevRoot |-> prev, revocationRoot |-> t.rev, size |-> t.size].size = t.size
               /\ [root |-> t.root, prevRoot |-> prev, revocationRoot |-> t.rev, size |-> t.size].revocationRoot = t.rev
               /\ prev \in 0 .. MaxSize =>
                    [root |-> t.root, prevRoot |-> prev, revocationRoot |-> t.rev, size |-> t.size] \in Anchor
    BY <1>2 DEF Triple, Anchor
  <2>2. PICK prev : prev = IF chain[c] = <<>> THEN 0 ELSE LastAnchor(chain[c]).root
    OBVIOUS
  <2>3. prev \in 0 .. MaxSize
    <3>1. CASE chain[c] = <<>>
      BY <2>2, <3>1, AnchoringAssumption
    <3>2. CASE chain[c] # <<>>
      <4>1. Len(chain[c]) \in 1 .. Len(chain[c])
        BY <1>4, <3>2, EmptySeq
      <4>2. chain[c][Len(chain[c])] \in Anchor
        BY <1>4, <4>1, ElementOfSeq
      <4> QED
        BY <2>2, <3>2, <4>2 DEF LastAnchor, Anchor
    <3> QED
      BY <3>1, <3>2
  <2>4. chain'[c] = Append(chain[c], [root |-> t.root, prevRoot |-> prev,
                                      revocationRoot |-> t.rev, size |-> t.size])
    BY <1>2, <1>4, <2>2 DEF MineAccepted, Extend
  <2> QED
    BY <2>1, <2>3, <2>4
<1>6. /\ chain'[c] \in Seq(Anchor) /\ Len(chain[c]) \in Nat
      /\ Len(chain'[c]) = Len(chain[c]) + 1
      /\ \A j \in 1 .. Len(chain[c]) : chain'[c][j] = chain[c][j]
      /\ chain'[c][Len(chain[c]) + 1] = a
  BY <1>4, <1>5, AppendProperties, LenProperties
<1>7. chain' \in [Chain -> Seq(Anchor)] /\ \A d \in Chain \ {c} : chain'[d] = chain[d]
  BY <1>4, <1>6 DEF MineAccepted
<1>8. /\ pc' \in [Anchorer -> {"idle", "sized", "counted", "rooted", "composed", "sent", "mined", "recorded"}]
      /\ \A q \in Anchorer \ {Waiting(c)} : pc'[q] = pc[q]
  BY <1>0 DEF AInv, TypeOK
<1>9. TypeOK'
  BY <1>0, <1>1, <1>7, <1>8 DEF AInv, TypeOK
<1>10. Grown
  <2>1. \A d \in Chain : Len(chain[d]) \in Nat
    BY Types DEF AInv
  <2>2. logSize <= logSize' /\ revoked \subseteq revoked'
    BY <1>0, Types DEF AInv
  <2>3. ASSUME NEW d \in Chain
        PROVE  /\ Len(chain[d]) <= Len(chain'[d])
               /\ \A j \in 1 .. Len(chain[d]) : chain'[d][j] = chain[d][j]
    BY <1>6, <1>7, <2>1
  <2> QED
    BY <2>2, <2>3 DEF Grown
<1>11. AnchorsAreEarned'
  <2>1. ASSUME NEW d \in Chain, NEW j \in 1 .. Len(chain'[d])
        PROVE  /\ 0 < chain'[d][j].size
               /\ chain'[d][j].size <= chain'[d][j].root
               /\ chain'[d][j].root <= logSize
               /\ chain'[d][j].revocationRoot \subseteq revoked
    <3>1. CASE j \in 1 .. Len(chain[d])
      <4>1. chain'[d][j] = chain[d][j]
        BY <1>10, <3>1 DEF Grown
      <4> QED
        BY <3>1, <4>1 DEF AInv, AnchorsAreEarned
    <3>2. CASE d = c /\ j = Len(chain[c]) + 1
      BY <1>3, <1>5, <1>6, <3>2 DEF Earned
    <3> QED
      BY <1>6, <1>7, <3>1, <3>2
  <2> QED
    BY <1>0, <2>1 DEF AnchorsAreEarned
<1>12. RowsAreAnchors'
  BY <1>0, <1>9, <1>10, RowsStay
<1>13. QueueInv(c)'
  BY <1>0, <1>1, <1>8, <1>9, <1>10, QueueAdvances
<1>14. ASSUME NEW d \in Chain, d # c
       PROVE  QueueInv(d)'
  <2>1. mempool'[d] = mempool[d]
    BY <1>0, <1>1, <1>14
  <2>2. \A q \in Anchorer : target[q] = d => q # Waiting(c)
    BY <1>1, <1>14, AnchoringAssumption
  <2> QED
    BY <1>0, <1>8, <1>9, <1>10, <2>1, <2>2, QueueStays
<1>15. ASSUME NEW q \in Anchorer
       PROVE  CallInv(q)'
  <2>1. CASE q = Waiting(c)
    <3>1. pc'[q] = "mined" /\ pc[q] = "sent" /\ target'[q] = c /\ draft'[q] = t
      BY <1>0, <1>1, <1>2, <2>1, AnchoringAssumption
    <3>2. OnChain(c, t)'
      <4>1. Len(chain[c]) + 1 \in 1 .. Len(chain'[c])
        BY <1>6
      <4>2. t = [root |-> chain'[c][Len(chain[c]) + 1].root,
                 size |-> chain'[c][Len(chain[c]) + 1].size,
                 rev |-> chain'[c][Len(chain[c]) + 1].revocationRoot]
        BY <1>2, <1>5, <1>6 DEF Triple
      <4> QED
        BY <4>1, <4>2 DEF OnChain, TripleAt
    <3>3. Earned(t)'
      BY <1>0, <1>3 DEF Earned
    <3>4. 0 < t.size /\ t.size <= logSize'
      <4>1. t.size \in Nat /\ t.root \in Nat /\ logSize \in Nat
        BY <1>2, AnchoringAssumption, Types DEF Triple, AInv
      <4> QED
        BY <1>0, <1>3, <4>1 DEF Earned
    <3> QED
      BY <3>1, <3>2, <3>3, <3>4 DEF CallInv, Earned, OnChain, TripleAt
  <2>2. CASE q # Waiting(c)
    BY <1>0, <1>8, <1>9, <1>10, <2>2, CallStays
  <2> QED
    BY <2>1, <2>2
<1> QED
  BY <1>9, <1>11, <1>12, <1>13, <1>14, <1>15 DEF AInv

-----------------------------------------------------------------------------
(* Steps that read. *)

\* The API appends a leaf.
LEMMA AppendLeafStep ==
    ASSUME AInv, AppendLeaf
    PROVE  AInv'
<1>1. /\ logSize \in Nat /\ MaxSize \in Nat /\ logSize < MaxSize /\ logSize' = logSize + 1
      /\ UNCHANGED <<revoked, rows, legacy, chain, mempool, local, failures>>
  BY Types DEF AInv, AppendLeaf
<1>2. logSize' \in 0 .. MaxSize /\ logSize <= logSize'
  BY <1>1
<1>3. TypeOK'
  BY <1>1, <1>2 DEF AInv, TypeOK, local
<1>4. Grown
  BY <1>1, <1>2, Types DEF AInv, Grown
<1> QED
  BY <1>1, <1>3, <1>4, StoreStep

\* The API takes a consent back.
LEMMA RevokeStep ==
    ASSUME AInv, NEW k \in Key, Revoke(k)
    PROVE  AInv'
<1>1. /\ revoked' = revoked \cup {k} /\ revoked \subseteq Key /\ logSize \in Nat
      /\ UNCHANGED <<logSize, rows, legacy, chain, mempool, local, failures>>
  BY Types DEF AInv, Revoke
<1>2. TypeOK'
  BY <1>1 DEF AInv, TypeOK, local
<1>3. Grown
  BY <1>1, Types DEF AInv, Grown
<1> QED
  BY <1>1, <1>2, <1>3, StoreStep

\* A call begins with the size of the log.
LEMMA StartStep ==
    ASSUME AInv, NEW p \in Anchorer, NEW c \in Chain, Start(p, c)
    PROVE  AInv'
<1>1. /\ 0 < logSize /\ logSize \in 0 .. MaxSize /\ logSize \in Nat
      /\ draft \in [Anchorer -> Triple] /\ target \in [Anchorer -> Chain]
      /\ pc \in [Anchorer -> {"idle", "sized", "counted", "rooted", "composed", "sent", "mined", "recorded"}]
  BY Types DEF AInv, Start
<1>2. /\ pc[p] = "idle" /\ pc' = [pc EXCEPT ![p] = "sized"]
      /\ target' = [target EXCEPT ![p] = c]
      /\ draft' = [draft EXCEPT ![p].size = logSize]
      /\ UNCHANGED <<store, chain, mempool, count, failures>>
  BY DEF Start, Step
<1>3. draft'[p] \in Triple /\ draft'[p].size = logSize
  BY <1>1, <1>2 DEF Triple
<1>4. draft' \in [Anchorer -> Triple] /\ \A q \in Anchorer \ {p} : draft'[q] = draft[q]
  BY <1>1, <1>2, <1>3
<1>5. /\ pc' \in [Anchorer -> {"idle", "sized", "counted", "rooted", "composed", "sent", "mined", "recorded"}]
      /\ target' \in [Anchorer -> Chain] /\ pc'[p] = "sized"
      /\ \A q \in Anchorer \ {p} : pc'[q] = pc[q] /\ target'[q] = target[q]
  BY <1>1, <1>2
<1>6. TypeOK'
  BY <1>2, <1>4, <1>5 DEF AInv, TypeOK, store
<1>7. CallInv(p)'
  BY <1>1, <1>2, <1>3, <1>5 DEF CallInv, store
<1> QED
  BY <1>2, <1>4, <1>5, <1>6, <1>7, LocalStep

\* The call takes the root of the log as it is now.
LEMMA ReadRootStep ==
    ASSUME AInv, NEW p \in Anchorer, ReadRoot(p)
    PROVE  AInv'
<1>1. /\ pc[p] = "counted" /\ pc' = [pc EXCEPT ![p] = "rooted"]
      /\ TakeRoot(p)
      /\ UNCHANGED <<store, chain, mempool, target, count, failures>>
  BY DEF ReadRoot, Step
<1>2. /\ pc' \in [Anchorer -> {"idle", "sized", "counted", "rooted", "composed", "sent", "mined", "recorded"}]
      /\ pc'[p] = "rooted" /\ \A q \in Anchorer \ {p} : pc'[q] = pc[q]
  BY <1>1, Types DEF AInv
<1>3. /\ draft' \in [Anchorer -> Triple]
      /\ draft'[p].size = draft[p].size /\ draft'[p].root = logSize
      /\ 0 < draft[p].size /\ draft[p].size <= logSize
      /\ \A q \in Anchorer \ {p} : draft'[q] = draft[q]
  BY <1>1, RootShape
<1>4. TypeOK'
  BY <1>1, <1>2, <1>3 DEF AInv, TypeOK, store
<1>5. logSize' = logSize /\ logSize \in Nat
  BY <1>1, Types DEF AInv, store
<1>6. CallInv(p)'
  BY <1>2, <1>3, <1>5 DEF CallInv
<1> QED
  BY <1>1, <1>2, <1>3, <1>4, <1>6, LocalStep

\* The call takes the revocations of a later moment, and its triple is
\* complete.
LEMMA ReadRevocationsStep ==
    ASSUME AInv, NEW p \in Anchorer, ReadRevocations(p)
    PROVE  AInv'
<1>1. /\ pc[p] = "rooted" /\ pc' = [pc EXCEPT ![p] = "composed"]
      /\ TakeRevocations(p)
      /\ UNCHANGED <<store, chain, mempool, target, count, failures>>
  BY DEF ReadRevocations, Step
<1>2. /\ pc' \in [Anchorer -> {"idle", "sized", "counted", "rooted", "composed", "sent", "mined", "recorded"}]
      /\ pc'[p] = "composed" /\ \A q \in Anchorer \ {p} : pc'[q] = pc[q]
  BY <1>1, Types DEF AInv
<1>3. /\ draft' \in [Anchorer -> Triple] /\ Earned(draft[p])'
      /\ \A q \in Anchorer \ {p} : draft'[q] = draft[q]
  BY <1>1, RevocationsShape DEF store
<1>4. TypeOK'
  BY <1>1, <1>2, <1>3 DEF AInv, TypeOK, store
<1>5. 0 < draft'[p].size /\ draft'[p].size <= logSize'
  <2>1. draft'[p].size \in Nat /\ draft'[p].root \in Nat /\ logSize' \in Nat
    BY <1>3, <1>4, AnchoringAssumption DEF Triple, TypeOK
  <2> QED
    BY <1>3, <2>1 DEF Earned
<1>6. CallInv(p)'
  BY <1>2, <1>3, <1>5 DEF CallInv
<1> QED
  BY <1>1, <1>2, <1>3, <1>4, <1>6, LocalStep

\* The call has read how many anchors there are.
LEMMA ReadCountStep ==
    ASSUME AInv, NEW p \in Anchorer, ReadCount(p)
    PROVE  AInv'
<1>1. /\ pc[p] = "sized" /\ pc' = [pc EXCEPT ![p] = "counted"]
      /\ count' = [count EXCEPT ![p] = Len(chain[target[p]])]
      /\ UNCHANGED <<store, chain, mempool, target, draft, failures>>
  BY DEF ReadCount, Step
<1>2. /\ pc' \in [Anchorer -> {"idle", "sized", "counted", "rooted", "composed", "sent", "mined", "recorded"}]
      /\ pc'[p] = "counted" /\ \A q \in Anchorer \ {p} : pc'[q] = pc[q]
  BY <1>1, Types DEF AInv
<1>3. count' \in [Anchorer -> Nat]
  <2>1. Len(chain[target[p]]) \in Nat
    BY Types DEF AInv
  <2> QED
    BY <1>1, <2>1 DEF AInv, TypeOK
<1>4. TypeOK'
  BY <1>1, <1>2, <1>3 DEF AInv, TypeOK, store
<1>5. CallInv(p)'
  BY <1>1, <1>2 DEF AInv, CallInv, store
<1> QED
  BY <1>1, <1>2, <1>4, <1>5, LocalStep

-----------------------------------------------------------------------------
(* The invariant. *)

\* Nothing on a chain, nothing in a queue.
LEMMA InitHolds == Init => AInv
<1> SUFFICES ASSUME Init
             PROVE  AInv
  OBVIOUS
<1>1. /\ logSize = 0 /\ revoked = {} /\ failures = 0 /\ legacy = <<>>
      /\ chain = [c \in Chain |-> <<>>] /\ mempool = [c \in Chain |-> <<>>]
      /\ rows = [c \in Chain |-> [i \in {} |-> NoDraft]]
      /\ pc = [p \in Anchorer |-> "idle"] /\ target = [p \in Anchorer |-> Primary]
      /\ count = [p \in Anchorer |-> 0] /\ draft = [p \in Anchorer |-> NoDraft]
  BY DEF Init
<1>2. NoDraft \in Triple /\ Primary \in Chain /\ 0 \in 0 .. MaxSize /\ 0 \in 0 .. MaxFailures
  BY AnchoringAssumption DEF NoDraft, Triple
<1>3. /\ <<>> \in Seq(Triple) /\ Len(<<>>) = 0 /\ 1 .. 0 = {}
      /\ chain \in [Chain -> Seq(Anchor)] /\ mempool \in [Chain -> Seq(Transaction)]
  BY <1>1
<1>4. \A c \in Chain : /\ DOMAIN rows[c] = {} /\ rows[c] \in [DOMAIN rows[c] -> Triple]
                       /\ chain[c] = <<>> /\ mempool[c] = <<>>
  BY <1>1
<1>5. TypeOK
  BY <1>1, <1>2, <1>3, <1>4 DEF TypeOK
<1>6. AnchorsAreEarned /\ RowsAreAnchors
  BY <1>1, <1>3, <1>4 DEF AnchorsAreEarned, RowsAreAnchors
<1>7. \A c \in Chain : QueueInv(c)
  BY <1>3, <1>4 DEF QueueInv
<1>8. \A p \in Anchorer : CallInv(p)
  BY <1>1 DEF CallInv
<1> QED
  BY <1>5, <1>6, <1>7, <1>8 DEF AInv

\* The steps of a call.
LEMMA AnchorHeadStep ==
    ASSUME AInv, NEW p \in Anchorer, AnchorHead(p)
    PROVE  AInv'
<1>1. CASE ReadRoot(p)
  BY <1>1, ReadRootStep
<1>2. CASE ReadCount(p)
  BY <1>2, ReadCountStep
<1>3. CASE ReadRevocations(p)
  BY <1>3, ReadRevocationsStep
<1>4. CASE Stop(p)
  BY <1>4, FinishStep DEF Stop
<1>5. CASE Submit(p)
  BY <1>5, SubmitStep
<1>6. CASE SubmitRefused(p)
  BY <1>6, FinishStep DEF SubmitRefused
<1>7. CASE Record(p)
  BY <1>7, RecordStep
<1>8. CASE RecordLegacy(p)
  BY <1>8, RecordLegacyStep
<1> QED
  BY <1>1, <1>2, <1>3, <1>4, <1>5, <1>6, <1>7, <1>8 DEF AnchorHead

\* A step that changes nothing.
LEMMA StutterStep ==
    ASSUME AInv, UNCHANGED vars
    PROVE  AInv'
<1>1. UNCHANGED <<rows, legacy, chain, mempool, local>> /\ UNCHANGED <<logSize, revoked>>
  BY DEF vars, store
<1>2. TypeOK'
  BY DEF vars, store, local, AInv, TypeOK
<1>3. Grown
  BY <1>1, Types DEF AInv, Grown
<1> QED
  BY <1>1, <1>2, <1>3, StoreStep

\* All steps.
LEMMA InvStep == AInv /\ [Next]_vars => AInv'
<1> SUFFICES ASSUME AInv, [Next]_vars
             PROVE  AInv'
  OBVIOUS
<1>1. CASE AppendLeaf
  BY <1>1, AppendLeafStep
<1>2. ASSUME NEW k \in Key, Revoke(k)
      PROVE  AInv'
  BY <1>2, RevokeStep
<1>3. ASSUME NEW c \in Chain, Mine(c)
      PROVE  AInv'
  BY <1>3, MineAcceptedStep, MineRevertedStep DEF Mine
<1>4. ASSUME NEW p \in Anchorer, AnchorHead(p)
      PROVE  AInv'
  BY <1>4, AnchorHeadStep
<1>5. ASSUME NEW p \in Anchorer, Fail(p)
      PROVE  AInv'
  BY <1>5, FailStep
<1>6. ASSUME NEW p \in Anchorer, NEW c \in Chain, Start(p, c)
      PROVE  AInv'
  BY <1>6, StartStep
<1>7. CASE UNCHANGED vars
  BY <1>7, StutterStep
<1> QED
  BY <1>1, <1>2, <1>3, <1>4, <1>5, <1>6, <1>7 DEF Next

\* AInv holds always.
LEMMA Invariant == Spec => []AInv
BY InitHolds, InvStep, PTL DEF Spec

\* Whatever the number of processes, every table, chain, queue and call keeps
\* its shape: in particular recordAnchorChain never gets a negative index.
THEOREM TypeCorrect == Spec => []TypeOK
<1>1. AInv => TypeOK
  BY DEF AInv
<1> QED
  BY <1>1, Invariant, PTL

\* No interleaving of any number of anchorers, failures and stale transactions
\* puts on any chain a size, a root or a revocation the store did not have.
THEOREM AnchorsAreEarnedHolds == Spec => []AnchorsAreEarned
<1>1. AInv => AnchorsAreEarned
  BY DEF AInv
<1> QED
  BY <1>1, Invariant, PTL

\* Every row of anchor_chain and of anchor is a record of that chain
\* (invariant I-11), whoever overtakes whom between the receipt and the row.
THEOREM RowsAreAnchorsHolds == Spec => []RowsAreAnchors
<1>1. AInv => RowsAreAnchors
  BY DEF AInv
<1> QED
  BY <1>1, Invariant, PTL
-----------------------------------------------------------------------------
(* With one anchorer at a time, revocations are executed in order. *)

\* What is on the chain, then what is queued for it, then what is about to be
\* sent to it: each has the revocations of what comes before.
InOrder(c) ==
    /\ \A i, j \in 1 .. Len(chain[c]) :
          i <= j => chain[c][i].revocationRoot \subseteq chain[c][j].revocationRoot
    /\ \A i \in 1 .. Len(chain[c]), j \in 1 .. Len(mempool[c]) :
          chain[c][i].revocationRoot \subseteq mempool[c][j].tx.rev
    /\ \A i, j \in 1 .. Len(mempool[c]) :
          i <= j => mempool[c][i].tx.rev \subseteq mempool[c][j].tx.rev
    /\ \A p \in Anchorer : pc[p] = "composed" /\ target[p] = c =>
          /\ \A i \in 1 .. Len(chain[c]) : chain[c][i].revocationRoot \subseteq draft[p].rev
          /\ \A i \in 1 .. Len(mempool[c]) : mempool[c][i].tx.rev \subseteq draft[p].rev

\* The order stays when nothing is composed, queued or executed.
LEMMA OrderStays ==
    ASSUME NEW c \in Chain, InOrder(c), chain'[c] = chain[c],
           Len(mempool'[c]) = Len(mempool[c]),
           \A i \in 1 .. Len(mempool[c]) : mempool'[c][i].tx = mempool[c][i].tx,
           \A p \in Anchorer : pc'[p] = "composed" =>
               pc[p] = "composed" /\ target'[p] = target[p] /\ draft'[p] = draft[p]
    PROVE  InOrder(c)'
BY DEF InOrder

\* A triple that is composed has every revocation there is.
LEMMA OrderComposed ==
    ASSUME AInv, NEW c \in Chain, InOrder(c), NEW p \in Anchorer, TakeRevocations(p),
           UNCHANGED <<chain, mempool, target>>,
           \A q \in Anchorer \ {p} : pc'[q] = pc[q]
    PROVE  InOrder(c)'
<1>1. draft \in [Anchorer -> Triple]
  BY DEF AInv, TypeOK
<1>2. draft'[p].rev = revoked /\ \A q \in Anchorer \ {p} : draft'[q] = draft[q]
  BY <1>1 DEF TakeRevocations
<1>3. /\ \A i \in 1 .. Len(chain[c]) : chain[c][i].revocationRoot \subseteq revoked
      /\ \A i \in 1 .. Len(mempool[c]) : mempool[c][i].tx.rev \subseteq revoked
  BY DEF AInv, AnchorsAreEarned, QueueInv, Earned
<1> QED BY <1>2, <1>3 DEF InOrder

\* What the only anchorer sends is the last of all.
LEMMA OrderSubmitted ==
    ASSUME AInv, NEW d, Anchorer = {d}, NEW c \in Chain, InOrder(c), Submit(d)
    PROVE  InOrder(c)'
<1>1. /\ mempool \in [Chain -> Seq(Transaction)] /\ target[d] \in Chain
      /\ pc \in [Anchorer -> {"idle", "sized", "counted", "rooted", "composed", "sent", "mined", "recorded"}]
  BY DEF AInv, TypeOK
<1>2. /\ chain' = chain /\ target' = target /\ draft' = draft
      /\ pc[d] = "composed" /\ pc' = [pc EXCEPT ![d] = "sent"]
      /\ mempool' = [mempool EXCEPT ![target[d]] = Append(@, [by |-> d, tx |-> draft[d]])]
  BY DEF Submit, Step
<1>3. \A p \in Anchorer : pc'[p] = "sent"
  BY <1>1, <1>2
<1>4. CASE target[d] = c
  <2>1. mempool'[c] = Append(mempool[c], [by |-> d, tx |-> draft[d]]) /\ mempool[c] \in Seq(Transaction)
    BY <1>1, <1>2, <1>4
  <2>2. /\ Len(mempool[c]) \in Nat /\ Len(mempool'[c]) = Len(mempool[c]) + 1
        /\ \A i \in 1 .. Len(mempool[c]) : mempool'[c][i] = mempool[c][i]
        /\ mempool'[c][Len(mempool[c]) + 1].tx = draft[d]
    BY <2>1
  <2>3. /\ \A i \in 1 .. Len(chain[c]) : chain[c][i].revocationRoot \subseteq draft[d].rev
        /\ \A i \in 1 .. Len(mempool[c]) : mempool[c][i].tx.rev \subseteq draft[d].rev
    BY <1>2, <1>4 DEF InOrder
  <2>4. ASSUME NEW j \in 1 .. Len(mempool'[c])
        PROVE  j \in 1 .. Len(mempool[c]) \/ j = Len(mempool[c]) + 1
    BY <2>2
  <2>5. ASSUME NEW i \in 1 .. Len(chain[c]), NEW j \in 1 .. Len(mempool'[c])
        PROVE  chain[c][i].revocationRoot \subseteq mempool'[c][j].tx.rev
    BY <2>2, <2>3, <2>4 DEF InOrder
  <2>6. ASSUME NEW i \in 1 .. Len(mempool'[c]), NEW j \in 1 .. Len(mempool'[c]), i <= j
        PROVE  mempool'[c][i].tx.rev \subseteq mempool'[c][j].tx.rev
    <3>1. CASE j \in 1 .. Len(mempool[c])
      <4>1. i \in 1 .. Len(mempool[c])
        BY <2>2, <2>6, <3>1
      <4> QED BY <2>2, <2>6, <3>1, <4>1 DEF InOrder
    <3>2. CASE j = Len(mempool[c]) + 1
      BY <2>2, <2>3, <2>4, <3>2
    <3> QED BY <2>4, <3>1, <3>2
  <2> QED BY <1>2, <1>3, <2>5, <2>6 DEF InOrder
<1>5. CASE target[d] # c
  <2>1. mempool'[c] = mempool[c]
    BY <1>1, <1>2, <1>5
  <2> QED BY <1>2, <1>3, <2>1, OrderStays
<1> QED BY <1>4, <1>5

\* What is executed, or refused, is the first of those that are queued.
LEMMA OrderMined ==
    ASSUME AInv, NEW c \in Chain, InOrder(c), Mine(c)
    PROVE  InOrder(c)'
<1>1. mempool \in [Chain -> Seq(Transaction)] /\ chain \in [Chain -> Seq(Anchor)]
  BY DEF AInv, TypeOK
<1>2. mempool[c] # <<>> /\ mempool'[c] = Tail(mempool[c])
  BY <1>1 DEF Mine, MineAccepted, MineReverted
<1>3. PICK n \in Nat : Len(mempool[c]) = n + 1
  <2>1. Len(mempool[c]) \in Nat /\ Len(mempool[c]) # 0
    BY <1>1, <1>2, EmptySeq, LenProperties
  <2>2. Len(mempool[c]) - 1 \in Nat /\ Len(mempool[c]) = (Len(mempool[c]) - 1) + 1
    BY <2>1
  <2> QED BY <2>2
<1>4. /\ Len(mempool'[c]) = n /\ 1 \in 1 .. Len(mempool[c])
      /\ \A i \in 1 .. n : mempool'[c][i] = mempool[c][i + 1] /\ i + 1 \in 1 .. Len(mempool[c])
      /\ NextTx(c) = mempool[c][1].tx
  BY <1>1, <1>2, <1>3, HeadTailProperties DEF NextTx
<1>5. ASSUME NEW p \in Anchorer, pc'[p] = "composed"
      PROVE  pc[p] = "composed" /\ target'[p] = target[p] /\ draft'[p] = draft[p]
  <2>1. CASE MineAccepted(c)
    BY <1>5, <2>1 DEF MineAccepted
  <2>2. CASE MineReverted(c)
    <3>1. CASE Waiting(c) = NoOne
      BY <1>5, <2>2, <3>1 DEF MineReverted, local
    <3>2. CASE Waiting(c) # NoOne
      <4>1. Waiting(c) \in Anchorer /\ Finish(Waiting(c))
        BY <1>2, <2>2, <3>2, HeadShape DEF MineReverted
      <4>2. pc'[Waiting(c)] = "idle"
        BY <4>1 DEF Finish, AInv, TypeOK
      <4> QED BY <1>5, <4>1, <4>2, FinishShape DEF AInv
    <3> QED BY <3>1, <3>2
  <2> QED BY <2>1, <2>2 DEF Mine
<1>6. /\ \A i \in 1 .. Len(chain[c]), j \in 1 .. n :
             chain[c][i].revocationRoot \subseteq mempool'[c][j].tx.rev
      /\ \A i, j \in 1 .. n : i <= j => mempool'[c][i].tx.rev \subseteq mempool'[c][j].tx.rev
      /\ \A j \in 1 .. n : NextTx(c).rev \subseteq mempool'[c][j].tx.rev
  <2>1. ASSUME NEW j \in 1 .. n
        PROVE  /\ \A i \in 1 .. Len(chain[c]) : chain[c][i].revocationRoot \subseteq mempool'[c][j].tx.rev
               /\ NextTx(c).rev \subseteq mempool'[c][j].tx.rev
    <3>1. 1 <= j + 1 /\ mempool'[c][j] = mempool[c][j + 1] /\ j + 1 \in 1 .. Len(mempool[c])
      BY <1>4
    <3> QED BY <1>4, <3>1 DEF InOrder
  <2>2. ASSUME NEW i \in 1 .. n, NEW j \in 1 .. n, i <= j
        PROVE  mempool'[c][i].tx.rev \subseteq mempool'[c][j].tx.rev
    <3>1. /\ i + 1 <= j + 1 /\ i + 1 \in 1 .. Len(mempool[c]) /\ j + 1 \in 1 .. Len(mempool[c])
          /\ mempool'[c][i] = mempool[c][i + 1] /\ mempool'[c][j] = mempool[c][j + 1]
      BY <1>4, <2>2
    <3> QED BY <3>1 DEF InOrder
  <2> QED BY <2>1, <2>2
<1>7. CASE MineReverted(c)
  <2>1. chain' = chain
    BY <1>7 DEF MineReverted
  <2>2. ASSUME NEW p \in Anchorer, pc'[p] = "composed", target'[p] = c
        PROVE  /\ \A i \in 1 .. Len(chain[c]) : chain[c][i].revocationRoot \subseteq draft'[p].rev
               /\ \A i \in 1 .. n : mempool'[c][i].tx.rev \subseteq draft'[p].rev
    <3>1. pc[p] = "composed" /\ target[p] = c /\ draft'[p] = draft[p]
      BY <1>5, <2>2
    <3>2. \A i \in 1 .. Len(chain[c]) : chain[c][i].revocationRoot \subseteq draft[p].rev
      BY <3>1 DEF InOrder
    <3>3. \A i \in 1 .. n : mempool[c][i + 1].tx.rev \subseteq draft[p].rev
      BY <1>4, <3>1 DEF InOrder
    <3> QED BY <1>4, <3>1, <3>2, <3>3
  <2> QED BY <1>4, <1>6, <2>1, <2>2 DEF InOrder
<1>8. CASE MineAccepted(c)
  <2>1. PICK prev : chain'[c] = Append(chain[c], [root |-> NextTx(c).root, prevRoot |-> prev,
                                  revocationRoot |-> NextTx(c).rev, size |-> NextTx(c).size])
    BY <1>1, <1>8 DEF MineAccepted, Extend
  <2>2. /\ Len(chain[c]) \in Nat /\ Len(chain'[c]) = Len(chain[c]) + 1
        /\ \A i \in 1 .. Len(chain[c]) : chain'[c][i] = chain[c][i]
        /\ chain'[c][Len(chain[c]) + 1].revocationRoot = NextTx(c).rev
    BY <1>1, <2>1
  <2>3. ASSUME NEW i \in 1 .. Len(chain'[c])
        PROVE  /\ i \in 1 .. Len(chain[c]) \/ i = Len(chain[c]) + 1
               /\ \/ chain'[c][i].revocationRoot = NextTx(c).rev
                  \/ i \in 1 .. Len(chain[c]) /\ chain'[c][i] = chain[c][i]
    <3>1. i \in 1 .. Len(chain[c]) \/ i = Len(chain[c]) + 1
      BY <2>2
    <3> QED BY <2>2, <3>1
  <2>4. \A i \in 1 .. Len(chain[c]) : chain[c][i].revocationRoot \subseteq NextTx(c).rev
    BY <1>4 DEF InOrder
  <2>5. ASSUME NEW i \in 1 .. Len(chain'[c]), NEW j \in 1 .. Len(chain'[c]), i <= j
        PROVE  chain'[c][i].revocationRoot \subseteq chain'[c][j].revocationRoot
    <3>1. CASE j \in 1 .. Len(chain[c])
      <4>1. i \in 1 .. Len(chain[c])
        BY <2>2, <2>5, <3>1
      <4> QED BY <2>2, <2>5, <3>1, <4>1 DEF InOrder
    <3>2. CASE j = Len(chain[c]) + 1
      BY <2>2, <2>3, <2>4, <3>2
    <3> QED BY <2>3, <3>1, <3>2
  <2>6. \A i \in 1 .. Len(chain'[c]), j \in 1 .. n :
            chain'[c][i].revocationRoot \subseteq mempool'[c][j].tx.rev
    BY <1>6, <2>3
  <2>7. ASSUME NEW p \in Anchorer, pc'[p] = "composed", target'[p] = c
        PROVE  /\ \A i \in 1 .. Len(chain'[c]) : chain'[c][i].revocationRoot \subseteq draft'[p].rev
               /\ \A i \in 1 .. n : mempool'[c][i].tx.rev \subseteq draft'[p].rev
    <3>1. /\ \A i \in 1 .. Len(chain[c]) : chain[c][i].revocationRoot \subseteq draft'[p].rev
          /\ \A i \in 1 .. Len(mempool[c]) : mempool[c][i].tx.rev \subseteq draft'[p].rev
      BY <1>5, <2>7 DEF InOrder
    <3>2. NextTx(c).rev \subseteq draft'[p].rev
      BY <1>4, <3>1
    <3> QED BY <1>4, <2>3, <3>1, <3>2
  <2> QED BY <1>4, <1>6, <2>5, <2>6, <2>7 DEF InOrder
<1> QED BY <1>7, <1>8 DEF Mine

\* The other chains see nothing of it.
LEMMA OrderElsewhere ==
    ASSUME AInv, NEW c \in Chain, NEW d \in Chain, d # c, InOrder(d), Mine(c)
    PROVE  InOrder(d)'
<1>1. mempool'[d] = mempool[d] /\ chain'[d] = chain[d]
  BY DEF Mine, MineAccepted, MineReverted, AInv, TypeOK
<1>2. ASSUME NEW p \in Anchorer, pc'[p] = "composed"
      PROVE  pc[p] = "composed" /\ target'[p] = target[p] /\ draft'[p] = draft[p]
  <2>1. CASE MineAccepted(c)
    BY <1>2, <2>1 DEF MineAccepted
  <2>2. CASE MineReverted(c) /\ Waiting(c) = NoOne
    BY <1>2, <2>2 DEF MineReverted, local
  <2>3. CASE MineReverted(c) /\ Waiting(c) # NoOne
    <3>1. Waiting(c) \in Anchorer /\ Finish(Waiting(c))
      BY <2>3, HeadShape DEF MineReverted
    <3>2. pc'[Waiting(c)] = "idle"
      BY <3>1 DEF Finish, AInv, TypeOK
    <3> QED BY <1>2, <3>1, <3>2, FinishShape DEF AInv
  <2> QED BY <2>1, <2>2, <2>3 DEF Mine
<1> QED BY <1>1, <1>2, OrderStays

\* A step of the only anchorer.
LEMMA OrderOfCall ==
    ASSUME AInv, NEW d, Anchorer = {d}, NEW c \in Chain, InOrder(c), AnchorHead(d)
    PROVE  InOrder(c)'
<1> d \in Anchorer
  OBVIOUS
<1>1. CASE ReadRevocations(d)
  BY <1>1, OrderComposed DEF ReadRevocations
<1>2. CASE Submit(d)
  BY <1>2, OrderSubmitted
<1>3. CASE \/ ReadCount(d) \/ ReadRoot(d) \/ Stop(d)
           \/ SubmitRefused(d) \/ Record(d) \/ RecordLegacy(d)
  <2>1. UNCHANGED <<chain, mempool>>
    BY <1>3 DEF ReadCount, ReadRoot, Stop, SubmitRefused, Record, RecordLegacy
  <2>2. pc'[d] # "composed"
    <3>1. pc \in [Anchorer -> {"idle", "sized", "counted", "rooted", "composed", "sent", "mined", "recorded"}]
      BY DEF AInv, TypeOK
    <3> QED BY <1>3, <3>1
            DEF ReadCount, ReadRoot, Stop, SubmitRefused, Record,
                RecordLegacy, Finish, Step
  <2> QED BY <2>1, <2>2, OrderStays
<1> QED BY <1>1, <1>2, <1>3 DEF AnchorHead

\* Every step keeps the order.
LEMMA OrderStep ==
    ASSUME NEW d, Anchorer = {d}, AInv, \A c \in Chain : InOrder(c), [Next]_vars
    PROVE  \A c \in Chain : InOrder(c)'
<1> SUFFICES ASSUME NEW c \in Chain PROVE InOrder(c)'
  OBVIOUS
<1> d \in Anchorer
  OBVIOUS
<1>1. CASE UNCHANGED vars \/ AppendLeaf \/ \E k \in Key : Revoke(k)
  <2>1. UNCHANGED <<chain, mempool, local>>
    BY <1>1 DEF vars, AppendLeaf, Revoke
  <2> QED BY <2>1, OrderStays DEF local
<1>2. CASE \E b \in Chain : Mine(b)
  BY <1>2, OrderMined, OrderElsewhere
<1>3. CASE AnchorHead(d)
  BY <1>3, OrderOfCall
<1>4. CASE Fail(d)
  <2>1. ASSUME NEW i \in 1 .. Len(mempool[c])
        PROVE  mempool'[c][i].tx = mempool[c][i].tx
    <3>1. mempool[c][i] \in Transaction
      BY DEF AInv, TypeOK
    <3>2. mempool'[c][i] = [mempool[c][i] EXCEPT !.by = IF @ = d THEN NoOne ELSE @]
      BY <1>4 DEF Fail
    <3> QED BY <3>1, <3>2 DEF Transaction
  <2>2. Len(mempool'[c]) = Len(mempool[c])
    <3>1. mempool'[c] = [i \in 1 .. Len(mempool[c]) |->
                           [mempool[c][i] EXCEPT !.by = IF @ = d THEN NoOne ELSE @]]
      BY <1>4 DEF Fail
    <3>2. Len(mempool[c]) \in Nat
      BY LenProperties DEF AInv, TypeOK
    <3> QED BY <3>1, <3>2
  <2>3. chain' = chain /\ pc'[d] = "idle"
    BY <1>4 DEF Fail, Finish, AInv, TypeOK
  <2> QED BY <2>1, <2>2, <2>3, OrderStays
<1>5. CASE \E b \in Chain : Start(d, b)
  <2>1. UNCHANGED <<chain, mempool>> /\ pc'[d] = "sized"
    BY <1>5 DEF Start, Step, AInv, TypeOK
  <2> QED BY <2>1, OrderStays
<1> QED BY <1>1, <1>2, <1>3, <1>4, <1>5 DEF Next

\* Consent never comes back, for any chains, keys, leaves and failures, as long
\* as there is one anchorer at a time: a transaction that a failed call left
\* behind is executed before those that were composed after it.
THEOREM RevocationsAreFinalHolds ==
    ASSUME NEW d, Anchorer = {d}
    PROVE  Spec => []RevocationsAreFinal
<1>1. Init => \A c \in Chain : InOrder(c)
  BY DEF Init, InOrder
<1>2. AInv /\ (\A c \in Chain : InOrder(c)) /\ [Next]_vars => (\A c \in Chain : InOrder(c))'
  BY OrderStep
<1>3. (\A c \in Chain : InOrder(c)) => RevocationsAreFinal
  BY DEF InOrder, RevocationsAreFinal, Onset, ConsentLive
<1> QED BY <1>1, <1>2, <1>3, Invariant, PTL DEF Spec

-----------------------------------------------------------------------------
(* The divergence alarm. *)

\* The least of some numbers.
LEMMA LeastNumber ==
    ASSUME NEW S, S \subseteq Nat, S # {}
    PROVE  \E n \in S : \A m \in S : n <= m
<1>1. PICK n \in S : \A y \in S : ~(<<y, n>> \in OpToRel(<, Nat))
  BY NatLessThanWellFounded, WFMin
<1>2. \A y \in S : ~(y < n)
  BY <1>1 DEF OpToRel
<1> QED BY <1>2

\* Every anchor has one to be compared with, of the same size.
LEMMA ReferenceIs ==
    ASSUME AInv, NEW a \in AllAnchors
    PROVE  Reference(a) \in SameSize(a)
<1>1. a \in SameSize(a)
  BY DEF SameSize
<1>2. PICK rest : /\ rest = IF {b \in SameSize(a) : b[1] = Primary} = {} THEN SameSize(a)
                            ELSE {b \in SameSize(a) : b[1] = Primary}
                  /\ rest # {} /\ rest \subseteq SameSize(a)
  BY <1>1
<1>3. PICK e \in rest : TRUE
  BY <1>2
<1>4. \A b \in rest : \E c \in Chain, i \in Nat : b = <<c, i>>
  BY <1>2 DEF SameSize, AllAnchors
<1>5. PICK n \in Nat : /\ \E b \in rest : b[1] = e[1] /\ b[2] = n
                      /\ \A b \in rest : b[1] = e[1] => n <= b[2]
  <2>1. PICK indexes : indexes = {b[2] : b \in {x \in rest : x[1] = e[1]}}
    OBVIOUS
  <2>2. indexes \subseteq Nat /\ indexes # {}
    BY <1>3, <1>4, <2>1
  <2>3. PICK n \in indexes : \A m \in indexes : n <= m
    BY <2>2, LeastNumber
  <2> QED BY <2>1, <2>2, <2>3
<1>6. PICK b \in rest : b[1] = e[1] /\ b[2] = n
  BY <1>5
<1>7. \A d \in rest : b[1] = d[1] => b[2] <= d[2]
  BY <1>5, <1>6
<1>8. Reference(a) = CHOOSE x \in rest : \A d \in rest : x[1] = d[1] => x[2] <= d[2]
  BY <1>2 DEF Reference
<1>9. Reference(a) \in rest
  BY <1>6, <1>7, <1>8
<1> QED BY <1>2, <1>9

\* The divergence alarm has a cause that an audit of the two chains involved
\* shows, and no audit has to be left open, whoever overtakes whom and whatever
\* mirrors skip.
THEOREM DivergencesAreRealHolds == Spec => []DivergencesAreReal
<1>1. ASSUME AInv PROVE DivergencesAreReal
  <2>1. ASSUME NEW a \in AllAnchors
        PROVE  /\ Claimed(a) \in Anchor /\ Claimed(a).size <= Claimed(a).root /\ Claimed(a).root <= logSize
               /\ Audit(a[1], a[2]) = IF Claimed(a).root = Claimed(a).size THEN "coherent" ELSE "mismatch"
    <3>0. PICK c \in Chain : a \in {c} \X (1 .. Len(chain[c]))
      BY DEF AllAnchors
    <3>1. PICK i \in 1 .. Len(chain[c]) : a = <<c, i>>
      BY <3>0
    <3>2. chain[c][i] \in Anchor
      BY <1>1, ElementOfSeq DEF AInv, TypeOK
    <3>3. chain[c][i].size <= chain[c][i].root /\ chain[c][i].root <= logSize
      BY <1>1 DEF AInv, AnchorsAreEarned
    <3>4. chain[c][i].size \in Nat /\ chain[c][i].root \in Nat /\ logSize \in Nat
      BY <1>1, <3>2, AnchoringAssumption DEF Anchor, AInv, TypeOK
    <3>5. ~(chain[c][i].size > logSize)
      BY <3>3, <3>4
    <3>6. Claimed(a) = chain[c][i] /\ a[1] = c /\ a[2] = i
      BY <3>1 DEF Claimed
    <3> QED BY <3>2, <3>3, <3>5, <3>6 DEF Audit
  <2>2. ASSUME NEW a \in Divergences
        PROVE  "mismatch" \in {Audit(a[1], a[2]), Audit(Reference(a)[1], Reference(a)[2])}
    <3>1. a \in AllAnchors /\ Claimed(a).root # Claimed(Reference(a)).root
      BY DEF Divergences
    <3>2. Reference(a) \in AllAnchors /\ Claimed(Reference(a)).size = Claimed(a).size
      BY <1>1, <3>1, ReferenceIs DEF SameSize
    <3> QED BY <2>1, <3>1, <3>2
  <2> QED BY <2>1, <2>2 DEF DivergencesAreReal
<1> QED BY <1>1, Invariant, PTL
=============================================================================
