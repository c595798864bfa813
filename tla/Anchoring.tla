----------------------------- MODULE Anchoring ------------------------------
(***************************************************************************)
(* services/log/src/anchorer.ts: anchorHead(), which copies the head of    *)
(* the log onto one GraspLog contract per chain, run by any number of      *)
(* processes (the daemon, pnpm log anchor) that share the store and the    *)
(* relayer account, while the API keeps appending leaves and revocations.  *)
(*                                                                         *)
(* Every await of the code is a boundary between two steps, and so is      *)
(* every read of the SQLite file, which the API writes meanwhile from a    *)
(* process of its own: the size, the root and the revocations are three    *)
(* reads of three moments.  A process forgets everything when an RPC call  *)
(* fails, when it stops waiting for a receipt or when it is killed: in all *)
(* three cases only its transaction may live on.                           *)
(*                                                                         *)
(* The store only appends (LogStore) and a root fixes its leaves, so the   *)
(* root of the first n leaves is written n; bytes32(0) is 0.               *)
(***************************************************************************)
EXTENDS AnchorRule, FiniteSets

CONSTANTS
    Anchorer,     \* processes that run anchorHead
    NoOne,        \* no process waits for this transaction
    Chain, Primary,
    Key,          \* consent keys that may be revoked
    MaxSize,      \* bound on the leaves appended
    MaxFailures   \* bound on the RPC failures, timeouts and crashes

ASSUME AnchoringAssumption ==
    /\ NoOne \notin Anchorer
    /\ Primary \in Chain
    /\ MaxSize \in Nat
    /\ MaxFailures \in Nat

VARIABLES
    logSize,   \* rows of table leaf
    revoked,   \* keys of table revocation
    chain,     \* per chain, the anchors of its GraspLog
    mempool,   \* per chain, the relayer's transactions in nonce order
    rows,      \* table anchor_chain: per chain, contract index -> triple
    legacy,    \* table anchor (primary only), in insertion order
    pc,        \* where each process is in anchorHead
    target,    \* the chain it anchors to
    count,     \* anchorCount() as it read it
    draft,     \* the triple it is going to send
    failures

store == <<logSize, revoked, rows, legacy>>
local == <<pc, target, count, draft>>
vars  == <<store, chain, mempool, local, failures>>

NoDraft == [root |-> 0, size |-> 0, rev |-> {}]
Triple  == [root: 0 .. MaxSize, size: 0 .. MaxSize, rev: SUBSET Key]
Anchor  == [root: 0 .. MaxSize, prevRoot: 0 .. MaxSize,
            revocationRoot: SUBSET Key, size: 0 .. MaxSize]
Transaction == [by: Anchorer \cup {NoOne}, tx: Triple]

Init ==
    /\ logSize = 0
    /\ revoked = {}
    /\ chain = [c \in Chain |-> <<>>]
    /\ mempool = [c \in Chain |-> <<>>]
    /\ rows = [c \in Chain |-> [i \in {} |-> NoDraft]]
    /\ legacy = <<>>
    /\ pc = [p \in Anchorer |-> "idle"]
    /\ target = [p \in Anchorer |-> Primary]
    /\ count = [p \in Anchorer |-> 0]
    /\ draft = [p \in Anchorer |-> NoDraft]
    /\ failures = 0

\* p's call of anchorHead is over, by return or by throw.
Finish(p) ==
    /\ pc' = [pc EXCEPT ![p] = "idle"]
    /\ target' = [target EXCEPT ![p] = Primary]
    /\ count' = [count EXCEPT ![p] = 0]
    /\ draft' = [draft EXCEPT ![p] = NoDraft]

Step(p, from, to) == pc[p] = from /\ pc' = [pc EXCEPT ![p] = to]

-----------------------------------------------------------------------------
(* The API, in another process. *)

AppendLeaf ==
    /\ logSize < MaxSize
    /\ logSize' = logSize + 1
    /\ UNCHANGED <<revoked, rows, legacy, chain, mempool, local, failures>>

Revoke(k) ==
    /\ revoked' = revoked \cup {k}
    /\ UNCHANGED <<logSize, rows, legacy, chain, mempool, local, failures>>

-----------------------------------------------------------------------------
(* anchorHead(store, target) *)

\* const size = store.size(); an empty log returns null
Start(p, c) ==
    /\ logSize > 0
    /\ Step(p, "idle", "sized")
    /\ target' = [target EXCEPT ![p] = c]
    /\ draft' = [draft EXCEPT ![p].size = logSize]
    /\ UNCHANGED <<store, chain, mempool, count, failures>>

\* count = await anchorCount(): none, or as many as there are by now
ReadCount(p) ==
    /\ Step(p, "sized", "counted")
    /\ count' = [count EXCEPT ![p] = Len(chain[target[p]])]
    /\ UNCHANGED <<store, chain, mempool, target, draft, failures>>

\* await anchorAt(count - 1), asked when count > 0; anchors never change
HeadRead(p) == chain[target[p]][count[p]]

\* The store is behind the chain, which takes a second anchorer.
Behind(p) == count[p] > 0 /\ draft[p].size < HeadRead(p).size

\* A slip used as a mutant: the size is the one read last, under an older root.
TakeRootOfSize(p) ==
    draft' = [draft EXCEPT ![p].root = draft[p].size, ![p].size = logSize]

\* root = store.root(), under the size that was read when the call started
TakeRoot(p) == draft' = [draft EXCEPT ![p].root = logSize]

ReadRoot(p) ==
    /\ Step(p, "counted", "rooted")
    /\ ~Behind(p)
    /\ TakeRoot(p)
    /\ UNCHANGED <<store, chain, mempool, target, count, failures>>

\* A slip used as a mutant: only the revocations that the head does not carry.
TakeNewRevocations(p) ==
    LET known == IF count[p] = 0 THEN {} ELSE HeadRead(p).revocationRoot
    IN  draft' = [draft EXCEPT ![p].rev = revoked \ known]

\* revRoot = revocationRoot(store), which other revocations may precede than
\* those of the moment of the root
TakeRevocations(p) == draft' = [draft EXCEPT ![p].rev = revoked]

\* A slip used as a mutant: the revocations are not compared.
SameSizeAsHead(p) == count[p] > 0 /\ draft[p].size = HeadRead(p).size

\* The head that was read says all of it already.
NothingNew(p) ==
    /\ count[p] > 0
    /\ draft[p].size = HeadRead(p).size
    /\ revoked = HeadRead(p).revocationRoot

ReadRevocations(p) ==
    /\ ~NothingNew(p)
    /\ Step(p, "rooted", "composed")
    /\ TakeRevocations(p)
    /\ UNCHANGED <<store, chain, mempool, target, count, failures>>

\* anchorHead throws, or returns null
Stop(p) ==
    /\ \/ pc[p] = "counted" /\ Behind(p)
       \/ pc[p] = "rooted" /\ NothingNew(p)
    /\ Finish(p)
    /\ UNCHANGED <<store, chain, mempool, failures>>

\* await writeContract: the relayer's transaction is queued on the chain
Submit(p) ==
    /\ Step(p, "composed", "sent")
    /\ mempool' = [mempool EXCEPT ![target[p]] = Append(@, [by |-> p, tx |-> draft[p]])]
    /\ UNCHANGED <<store, chain, target, count, draft, failures>>

\* writeContract refused with NothingToAnchor: null
SubmitRefused(p) ==
    /\ pc[p] = "composed"
    /\ NothingToAnchor(chain[target[p]], draft[p].root, draft[p].size, draft[p].rev)
    /\ Finish(p)
    /\ UNCHANGED <<store, chain, mempool, failures>>

\* The row of table anchor_chain with primary key (c, i), INSERT OR REPLACE
PutRow(table, i, triple) ==
    [j \in DOMAIN table \cup {i} |-> IF j = i THEN triple ELSE table[j]]

\* A slip used as a mutant: a row written without waiting for the receipt.
RecordWithoutReceipt(p) ==
    /\ pc[p] = "sent"
    /\ rows' = [rows EXCEPT ![target[p]] = PutRow(@, Len(chain[target[p]]), draft[p])]
    /\ Finish(p)
    /\ UNCHANGED <<logSize, revoked, legacy, chain, mempool, failures>>

\* index = await anchorCount() - 1, then recordAnchorChain
Record(p) ==
    LET c == target[p] IN
    /\ pc[p] = "mined"
    /\ rows' = [rows EXCEPT ![c] = PutRow(@, Len(chain[c]) - 1, draft[p])]
    /\ IF c = Primary
       THEN Step(p, "mined", "recorded") /\ UNCHANGED <<target, count, draft>>
       ELSE Finish(p)
    /\ UNCHANGED <<logSize, revoked, legacy, chain, mempool, failures>>

\* recordAnchor(store.anchors().length, ...), for the primary chain
RecordLegacy(p) ==
    /\ pc[p] = "recorded"
    /\ legacy' = Append(legacy, draft[p])
    /\ Finish(p)
    /\ UNCHANGED <<logSize, revoked, rows, chain, mempool, failures>>

\* An await of p rejects or never answers, or p is killed.  What it has sent
\* stays queued, and nobody waits for it any more.
Fail(p) ==
    /\ pc[p] # "idle"
    /\ failures < MaxFailures
    /\ failures' = failures + 1
    /\ mempool' = [c \in Chain |->
                     [i \in 1 .. Len(mempool[c]) |->
                        [mempool[c][i] EXCEPT !.by = IF @ = p THEN NoOne ELSE @]]]
    /\ Finish(p)
    /\ UNCHANGED <<store, chain>>

-----------------------------------------------------------------------------
(* A chain executes the relayer's next transaction. *)

NextTx(c) == Head(mempool[c]).tx
Waiting(c) == Head(mempool[c]).by

AcceptedNext(c) == Accepts(chain[c], NextTx(c).root, NextTx(c).size, NextTx(c).rev)

\* GraspLog.anchor succeeds; the process that waits gets a success receipt
MineAccepted(c) ==
    /\ mempool[c] # <<>>
    /\ AcceptedNext(c)
    /\ chain' = [chain EXCEPT ![c] =
                   Extend(@, NextTx(c).root, NextTx(c).size, NextTx(c).rev, 0)]
    /\ mempool' = [mempool EXCEPT ![c] = Tail(@)]
    /\ pc' = [p \in Anchorer |-> IF p = Waiting(c) THEN "mined" ELSE pc[p]]
    /\ UNCHANGED <<store, target, count, draft, failures>>

\* GraspLog.anchor reverts; the process that waits throws
MineReverted(c) ==
    /\ mempool[c] # <<>>
    /\ ~AcceptedNext(c)
    /\ mempool' = [mempool EXCEPT ![c] = Tail(@)]
    /\ IF Waiting(c) = NoOne THEN UNCHANGED local ELSE Finish(Waiting(c))
    /\ UNCHANGED <<store, chain, failures>>

AnchorHead(p) ==
    \/ ReadCount(p) \/ ReadRoot(p) \/ ReadRevocations(p) \/ Stop(p)
    \/ Submit(p) \/ SubmitRefused(p) \/ Record(p) \/ RecordLegacy(p)

Mine(c) == MineAccepted(c) \/ MineReverted(c)

Next ==
    \/ AppendLeaf
    \/ \E k \in Key : Revoke(k)
    \/ \E c \in Chain : Mine(c)
    \/ \E p \in Anchorer : AnchorHead(p) \/ Fail(p) \/ \E c \in Chain : Start(p, c)

Spec == Init /\ [][Next]_vars

\* What shouldAnchor asks of the primary's newest row, if it has one, once
\* backoff and interval are over.  As only an anchorer's own row makes it
\* false, it stays true until a call is started.
SomethingNew ==
    \A i \in DOMAIN rows[Primary] :
        (\A j \in DOMAIN rows[Primary] : j <= i) =>
            logSize > rows[Primary][i].size \/ revoked # rows[Primary][i].rev

\* runDaemon and anchorAll (pnpm log anchor) come to the primary first, again
\* and again, and start a call whenever the log has something new for it; the
\* mirrors have no such promise, for both may refuse or skip them (AnchorDaemon
\* says when).  A started call is not abandoned for ever without a failure, and
\* a chain executes what is queued.  Nothing obliges the API to append or
\* revoke, or anything to fail.
Fairness ==
    /\ \A c \in Chain : WF_vars(Mine(c))
    /\ \A p \in Anchorer : WF_vars(AnchorHead(p))
    /\ \A p \in Anchorer : SF_vars(SomethingNew /\ Start(p, Primary))

FairSpec == Spec /\ Fairness

-----------------------------------------------------------------------------
(* The daemon's two looks at the chains: auditAnchors, checkDivergence *)

\* The anchor against the root of the leaves that the store holds now
Audit(c, i) ==
    LET anchor == chain[c][i]
    IN  IF anchor.size > logSize THEN "unverifiable"
        ELSE IF anchor.root = anchor.size THEN "coherent" ELSE "mismatch"

AllAnchors == UNION {{c} \X (1 .. Len(chain[c])) : c \in Chain}
Claimed(a) == chain[a[1]][a[2]]

\* A slip used as a mutant: rows grouped by their index
SameIndex(a) == {b \in AllAnchors : b[2] = a[2]}
\* The rows of all chains that claim as many leaves as a
SameSize(a) == {b \in AllAnchors : Claimed(b).size = Claimed(a).size}

\* What such rows are compared with: the primary's first, else any chain's
Reference(a) ==
    LET onPrimary == {b \in SameSize(a) : b[1] = Primary}
        rest == IF onPrimary = {} THEN SameSize(a) ELSE onPrimary
    IN  CHOOSE b \in rest : \A d \in rest : b[1] = d[1] => b[2] <= d[2]

Divergences == {a \in AllAnchors : Claimed(a).root # Claimed(Reference(a)).root}

-----------------------------------------------------------------------------
\* The shape of the store, the chains and each call of anchorHead; a recorded
\* index is never negative.
TypeOK ==
    /\ logSize \in 0 .. MaxSize
    /\ revoked \subseteq Key
    /\ chain \in [Chain -> Seq(Anchor)]
    /\ mempool \in [Chain -> Seq(Transaction)]
    /\ DOMAIN rows = Chain
    /\ \A c \in Chain :
          DOMAIN rows[c] \subseteq Nat /\ rows[c] \in [DOMAIN rows[c] -> Triple]
    /\ legacy \in Seq(Triple)
    /\ pc \in [Anchorer -> {"idle", "sized", "counted", "rooted", "composed", "sent",
                            "mined", "recorded"}]
    /\ target \in [Anchorer -> Chain]
    /\ count \in [Anchorer -> Nat]
    /\ draft \in [Anchorer -> Triple]
    /\ failures \in 0 .. MaxFailures

TripleAt(c, i) == [root |-> chain[c][i].root, size |-> chain[c][i].size,
                   rev |-> chain[c][i].revocationRoot]

\* Whatever is overtaken, retried or sent twice, no chain ever carries more
\* than the store had: an anchor never claims a leaf its root does not cover,
\* a root the log has not reached, or a revocation nobody made.
AnchorsAreEarned ==
    \A c \in Chain : \A i \in 1 .. Len(chain[c]) :
        /\ 0 < chain[c][i].size
        /\ chain[c][i].size <= chain[c][i].root
        /\ chain[c][i].root <= logSize
        /\ chain[c][i].revocationRoot \subseteq revoked

\* The store records no anchor the chain did not accept (invariant I-11), in
\* either table.
RowsAreAnchors ==
    /\ \A c \in Chain : \A i \in DOMAIN rows[c] :
          \E j \in 1 .. Len(chain[c]) : rows[c][i] = TripleAt(c, j)
    /\ \A n \in 1 .. Len(legacy) :
          \E j \in 1 .. Len(chain[Primary]) : legacy[n] = TripleAt(Primary, j)

\* Consent never comes back: with one anchorer at a time, from the anchor that
\* proves the onset of a revocation on, no anchor of that chain can prove the
\* consent live (PLAN.md section 6.1), although transactions of failed calls
\* may still be executed after newer ones were composed.
RevocationsAreFinal ==
    \A c \in Chain, k \in Key : \A i, j \in 1 .. Len(chain[c]) :
        Onset(chain[c], i, k) /\ i <= j => ~ConsentLive(chain[c], j, k)

Anchored(c) == chain[c] # <<>>

\* Every leaf and every revocation of a non-empty log is eventually under the
\* primary's anchored head, although calls fail, overtake each other, lose
\* their row or find nothing new.  On that chain the one thing that can hold a
\* revocation back for ever is a head whose size is behind its root, which
\* GraspLog refuses to correct (RootMustChange) until another leaf arrives.
HeadsCatchUp ==
    /\ \A n \in 1 .. MaxSize :
          logSize >= n ~> Anchored(Primary) /\ LastAnchor(chain[Primary]).root >= n
    /\ \A k \in Key :
          logSize > 0 /\ k \in revoked ~>
              /\ Anchored(Primary)
              /\ \/ k \in LastAnchor(chain[Primary]).revocationRoot
                 \/ LastAnchor(chain[Primary]).size < LastAnchor(chain[Primary]).root

\* The divergence alarm (anchorer.ts:244-287) has a cause that the audit of the
\* two chains involved shows: mirrors that skip heads, or that are behind, do
\* not raise it.  And no audit has to be left open, whatever was overtaken.
DivergencesAreReal ==
    /\ \A a \in Divergences :
          LET b == Reference(a)
          IN  "mismatch" \in {Audit(a[1], a[2]), Audit(b[1], b[2])}
    /\ \A a \in AllAnchors : Audit(a[1], a[2]) # "unverifiable"

\* What anchorer.ts:10-12 and store.ts:177-179 say: the size and the root of
\* an anchor describe the same log.  The code does not keep it.
AnchorsAreCoherent ==
    \A c \in Chain : \A i \in 1 .. Len(chain[c]) : chain[c][i].size = chain[c][i].root
=============================================================================
