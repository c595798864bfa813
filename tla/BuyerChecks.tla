---------------------------- MODULE BuyerChecks -----------------------------
(***************************************************************************)
(* What somebody who holds a proof checks it with: the loops of            *)
(* MerkleLog.sol and SparseMerkle.sol behind GraspLog.verifyLeafHash,      *)
(* verifyAppendOnly, verifyConsentLive and revocationOnset, one step per   *)
(* turn of a loop, and the recursive verifiers of                          *)
(* packages/protocol/src/report-verify.ts, which have to agree with them.  *)
(*                                                                         *)
(* A proof need not be the one the claim calls for: the log has grown, the *)
(* revocations have changed, or words were lost or repeated on the way.    *)
(***************************************************************************)
EXTENDS SparseTree

CONSTANTS
    Log,    \* the leaves of the log, all distinct
    Other   \* a leaf that is not in it

ASSUME LogAssumption ==
    /\ Log \in Seq({Log[i] : i \in DOMAIN Log})
    /\ \A i, j \in DOMAIN Log : Log[i] = Log[j] => i = j
    /\ \A i \in DOMAIN Log : Log[i] # Other
    \* the 0x00/0x01 prefixes
    /\ \A i \in DOMAIN Log, len \in 2 .. Len(Log), start \in 0 .. Len(Log) - 1 :
           start + len <= Len(Log) => Log[i] # RangeHash(Log)[len][start]

VARIABLES
    pc,      \* the verifier that runs
    asked,   \* its arguments
    fr, sr,  \* the hashes it folds (fr alone for one root)
    i, n,    \* its loop counters: index and size; node and last; level
    p,       \* words of the proof it has used
    verdict  \* its answer

loop == <<fr, sr, i, n, p>>
vars == <<pc, asked, loop, verdict>>

Size == 1 .. Len(Log)
First(leaves, m) == SubSeq(leaves, 1, m)

\* The log as it would be had leaf number f been another one; f = 0: as it is.
Rewritten(f) == [l \in 1 .. Len(Log) |-> IF l = f THEN Other ELSE Log[l]]

\* What the log serves and anchors for each of its sizes and for every set of
\* revocations.
LogRoot   == [size \in Size |-> RootOf(First(Log, size))]
Inclusion == [size \in Size |->
                [index \in 0 .. size - 1 |-> InclusionProof(First(Log, size), index)]]
Consistency == [size \in Size |->
                [m \in 1 .. size |-> ConsistencyProof(First(Log, size), m)]]
ConsentRoot  == [revoked \in SUBSET Key |-> SparseRoot(revoked)]
ConsentProof == [revoked \in SUBSET Key |-> [key \in Key |-> SparseProof(revoked, key)]]

\* What can become of a proof: it arrives whole, short of its last word, or
\* with its last word twice.
Deliveries(proof) ==
    {proof} \cup (IF proof = <<>> THEN {}
                  ELSE {First(proof, Len(proof) - 1), Append(proof, proof[Len(proof)])})

Init ==
    /\ pc = "idle" /\ asked = <<>> /\ verdict = "none"
    /\ fr = Zero /\ sr = Zero /\ i = 0 /\ n = 0 /\ p = 0

Call(verifier, question) == pc' = verifier /\ asked' = question /\ verdict' = "none"

Answer(v) ==
    /\ pc' = "answered" /\ verdict' = v
    /\ UNCHANGED <<asked, loop>>

Accept(condition) == Answer(IF condition THEN "true" ELSE "false")

\* The answer is read and the next question can be asked.
Return ==
    /\ pc = "answered"
    /\ pc' = "idle" /\ asked' = <<>> /\ verdict' = "none"
    /\ fr' = Zero /\ sr' = Zero /\ i' = 0 /\ n' = 0 /\ p' = 0

Word == asked.proof[p + 1]
NoWord == p >= Len(asked.proof)

-----------------------------------------------------------------------------
(* MerkleLog.verifyInclusion, for a leaf, an index and an anchored size    *)

AskInclusion ==
    /\ pc = "idle"
    /\ \E leaf \in 1 .. Len(Log), index \in 0 .. Len(Log), size, of \in Size :
           \E at \in 0 .. of - 1 :
               \E proof \in Deliveries(Inclusion[of][at]) :
                   /\ index <= size
                   /\ Call("inclusion", [leaf |-> Log[leaf], index |-> index, size |-> size,
                                         proof |-> proof])
                   /\ fr' = Log[leaf] /\ i' = index /\ n' = size
                   /\ UNCHANGED <<sr, p>>

\* while (n > 1): a right child takes a word, and so does a left child that
\* is not the last node of its level
FoldInclusion ==
    /\ pc = "inclusion" /\ asked.index < asked.size /\ n > 1
    /\ IF i % 2 = 1 \/ i + 1 < n
       THEN /\ ~NoWord
            /\ fr' = (IF i % 2 = 1 THEN HashNode(Word, fr) ELSE HashNode(fr, Word))
            /\ p' = p + 1
       ELSE UNCHANGED <<fr, p>>
    /\ i' = i \div 2 /\ n' = (n + 1) \div 2
    /\ UNCHANGED <<pc, asked, sr, verdict>>

\* IndexOutOfRange, or BadProofLength in the loop or after it
InclusionReverts ==
    /\ pc = "inclusion"
    /\ \/ asked.index >= asked.size
       \/ n > 1 /\ (i % 2 = 1 \/ i + 1 < n) /\ NoWord
       \/ n = 1 /\ p # Len(asked.proof)
    /\ Answer("reverts")

AnswerInclusion ==
    /\ pc = "inclusion" /\ asked.index < asked.size
    /\ n = 1 /\ p = Len(asked.proof)
    /\ Accept(fr = LogRoot[asked.size])

-----------------------------------------------------------------------------
(* MerkleLog.verifyConsistency, for two anchors                            *)

\* Rise to the level where the boundary of the prefix is.
Rise(node, last) ==
    LET rise[a \in Nat] == [b \in Nat |-> IF a % 2 = 1 THEN rise[a \div 2][b \div 2] ELSE <<a, b>>]
    IN  rise[node][last]

\* The earlier anchor may come from a log in which one leaf was another.
AskConsistency ==
    /\ pc = "idle"
    /\ \E m, size, of \in Size, f \in 0 .. Len(Log) :
           \E prefix \in 1 .. of :
               \E proof \in Deliveries(Consistency[of][prefix]) :
                   LET first == RootOf(First(Rewritten(f), m))
                       start == Rise(m - 1, size - 1)
                       given == IF m >= size \/ start[1] = 0 THEN first
                                ELSE IF proof = <<>> THEN Zero ELSE proof[1]
                   IN  /\ f <= m
                       /\ Call("consistency", [m |-> m, size |-> size, first |-> first, f |-> f,
                                               proof |-> proof])
                       /\ fr' = given /\ sr' = given
                       /\ i' = start[1] /\ n' = start[2]
                       /\ p' = IF m < size /\ start[1] > 0 THEN 1 ELSE 0

\* m > n, m = n, or no word for the boundary's own hash
AnswerAtOnce ==
    /\ pc = "consistency"
    /\ \/ asked.m > asked.size /\ Answer("false")
       \/ asked.m = asked.size
          /\ Accept(asked.proof = <<>> /\ asked.first = LogRoot[asked.size])
       \/ asked.m < asked.size /\ p > Len(asked.proof) /\ Answer("false")

Climbing == pc = "consistency" /\ asked.m < asked.size /\ p <= Len(asked.proof)

\* A slip used as a mutant: the last node of a level takes a word.
ClimbPastTheLast ==
    /\ Climbing /\ i > 0
    /\ i % 2 = 1 \/ i < n => ~NoWord
    /\ IF NoWord THEN UNCHANGED <<fr, sr, p>>
       ELSE /\ fr' = (IF i % 2 = 1 THEN HashNode(Word, fr) ELSE fr)
            /\ sr' = (IF i % 2 = 1 THEN HashNode(Word, sr) ELSE HashNode(sr, Word))
            /\ p' = p + 1
    /\ i' = i \div 2 /\ n' = n \div 2
    /\ UNCHANGED <<pc, asked, verdict>>

\* while (node > 0): a word on the left belongs to both trees, a word on the
\* right to the later one only
Climb ==
    /\ Climbing /\ i > 0
    /\ \/ i % 2 = 1 /\ ~NoWord
          /\ fr' = HashNode(Word, fr) /\ sr' = HashNode(Word, sr) /\ p' = p + 1
       \/ i % 2 = 0 /\ i < n /\ ~NoWord
          /\ sr' = HashNode(sr, Word) /\ p' = p + 1 /\ UNCHANGED fr
       \/ i % 2 = 0 /\ i >= n
          /\ UNCHANGED <<fr, sr, p>>
    /\ i' = i \div 2 /\ n' = n \div 2
    /\ UNCHANGED <<pc, asked, verdict>>

\* while (last > 0)
Extend ==
    /\ Climbing /\ i = 0 /\ n > 0 /\ ~NoWord
    /\ sr' = HashNode(sr, Word) /\ p' = p + 1
    /\ n' = n \div 2
    /\ UNCHANGED <<pc, asked, fr, i, verdict>>

OutOfWords ==
    /\ Climbing /\ NoWord
    /\ i % 2 = 1 \/ i < n
    /\ Answer("false")

AnswerConsistency ==
    /\ Climbing /\ i = 0 /\ n = 0
    /\ Accept(/\ p = Len(asked.proof)
              /\ fr = asked.first
              /\ sr = LogRoot[asked.size])

-----------------------------------------------------------------------------
(* SparseMerkle.computeRoot, for non-membership (value Zero) or membership *)

\* The proof is of the revocations as they are now; the anchor's may be older
\* or newer.
AskConsent ==
    /\ pc = "idle"
    /\ \E key \in Key, anchored, now \in SUBSET Key :
           \E value \in {Zero, Revocation[key]} :
               \E proof \in Deliveries(ConsentProof[now][key].siblings) :
                   /\ Call("consent", [key |-> key, value |-> value, anchored |-> anchored,
                                       bitmap |-> ConsentProof[now][key].bitmap, proof |-> proof])
                   /\ fr' = value
                   /\ UNCHANGED <<sr, i, n, p>>

\* One of the 256 turns: the sibling is a word or Zero, on the side the key's
\* bit says.
FoldConsent ==
    LET level == i
        sibling == IF level \in asked.bitmap THEN Word ELSE Zero IN
    /\ pc = "consent" /\ level < Depth
    /\ level \in asked.bitmap => ~NoWord
    /\ fr' = (IF Bit(asked.key, level) = 1
              THEN SparseHashNode(sibling, fr) ELSE SparseHashNode(fr, sibling))
    /\ p' = IF level \in asked.bitmap THEN p + 1 ELSE p
    /\ i' = level + 1
    /\ UNCHANGED <<pc, asked, sr, n, verdict>>

\* ProofLengthMismatch, in the loop or after it
ConsentReverts ==
    /\ pc = "consent"
    /\ \/ i < Depth /\ i \in asked.bitmap /\ NoWord
       \/ i = Depth /\ p # Len(asked.proof)
    /\ Answer("reverts")

AnswerConsent ==
    /\ pc = "consent" /\ i = Depth /\ p = Len(asked.proof)
    /\ Accept(fr = ConsentRoot[asked.anchored])

Next ==
    \/ AskInclusion \/ FoldInclusion \/ InclusionReverts \/ AnswerInclusion
    \/ AskConsistency \/ AnswerAtOnce \/ Climb \/ Extend \/ OutOfWords \/ AnswerConsistency
    \/ AskConsent \/ FoldConsent \/ ConsentReverts \/ AnswerConsent
    \/ Return

Spec == Init /\ [][Next]_vars

-----------------------------------------------------------------------------
(* report-verify.ts, and the page's merkle.js: the same questions, answered *)
(* by recursion                                                            *)

\* fold() climbs from the leaf the path that root() takes down: the node it comes
\* to and the words it has used, or nothing when a word is missing
Folded(leaf, proof) ==
    LET fold[len \in Nat \ {0}] ==
          [at \in Nat |->
             LET k     == Split(len)
                 below == IF at < k THEN fold[k][at] ELSE fold[len - k][at - k]
             IN  IF len = 1 THEN {[node |-> leaf, used |-> 0]}
                 ELSE {[used |-> b.used + 1,
                        node |-> IF at < k THEN HashNode(b.node, proof[b.used + 1])
                                 ELSE HashNode(proof[b.used + 1], b.node)] :
                           b \in {b \in below : b.used < Len(proof)}}]
    IN  fold

\* verifyInclusion()
IncludedIn(leaf, index, size, proof, root) ==
    /\ index < size
    /\ Folded(leaf, proof)[size][index] = {[node |-> root, used |-> Len(proof)]}

\* verifyConsistency()'s loop over the words, one turn
Shifted(fn, sn) ==
    LET shift[a \in Nat] ==
          [b \in Nat |-> IF a % 2 = 0 /\ a # 0 THEN shift[a \div 2][b \div 2]
                         ELSE <<a \div 2, b \div 2>>]
    IN  shift[fn][sn]
ReportTurn(walk, word) ==
    IF walk.fn % 2 = 1 \/ walk.fn = walk.sn
    THEN [fn |-> Shifted(walk.fn, walk.sn)[1], sn |-> Shifted(walk.fn, walk.sn)[2],
          node1 |-> HashNode(word, walk.node1), node2 |-> HashNode(word, walk.node2)]
    ELSE [fn |-> walk.fn \div 2, sn |-> walk.sn \div 2,
          node1 |-> walk.node1, node2 |-> HashNode(walk.node2, word)]

\* the walk itself: nothing is left of one that has more words than levels
Walked(m, size, proof, first) ==
    LET start == Rise(m - 1, size - 1)
        own   == IF start[1] > 0 THEN 1 ELSE 0
        given == IF own = 1 THEN proof[1] ELSE first
        walk[used \in own .. Len(proof)] ==
          IF used = own THEN {[fn |-> start[1], sn |-> start[2], node1 |-> given, node2 |-> given]}
          ELSE {ReportTurn(w, proof[used]) : w \in {w \in walk[used - 1] : w.sn # 0}}
    IN  walk

\* verifyConsistency()
ConsistentWith(m, size, proof, first, second) ==
    IF m >= size
    THEN m = size /\ proof = <<>> /\ first = second
    ELSE /\ proof # <<>>
         /\ \E end \in Walked(m, size, proof, first)[Len(proof)] :
                end.sn = 0 /\ end.node1 = first /\ end.node2 = second

ReportInclusion(q)   == IncludedIn(q.leaf, q.index, q.size, q.proof, LogRoot[q.size])
ReportConsistency(q) == ConsistentWith(q.m, q.size, q.proof, q.first, LogRoot[q.size])

-----------------------------------------------------------------------------
Answered(field) == pc = "answered" /\ field \in DOMAIN asked

\* For a tree of any shape the contract accepts a leaf exactly at its own
\* index, with exactly the proof the log makes for that index and size: the
\* loop over levels and the recursion over halves describe one tree
\* (MerkleLog.sol:35-38, log.ts:26).
InclusionIsExact ==
    Answered("leaf") =>
        (verdict = "true" <=>
            /\ asked.index < asked.size
            /\ asked.leaf = Log[asked.index + 1]
            /\ asked.proof = Inclusion[asked.size][asked.index])

\* The contract calls the later anchor an extension of the earlier one exactly
\* when no leaf of the prefix was another, and only with the proof made for
\* these two sizes (MerkleLog.sol:76-79, GraspLog.sol:187).
ConsistencyIsExact ==
    Answered("m") =>
        (verdict = "true" <=>
            /\ asked.m <= asked.size
            /\ asked.f = 0
            /\ asked.proof = Consistency[asked.size][asked.m])

\* Consent is provably live, or provably withdrawn, exactly when the key is
\* absent from or present in the revocations of that anchor; a proof made from
\* a later or earlier state of the revocations is accepted exactly when it is
\* still the proof that anchor calls for (SparseMerkle.sol:8-18).
ConsentIsExact ==
    Answered("key") =>
        (verdict = "true" <=>
            /\ (asked.value # Zero) <=> (asked.key \in asked.anchored)
            /\ [bitmap |-> asked.bitmap, siblings |-> asked.proof]
                 = ConsentProof[asked.anchored][asked.key])

\* A buyer who checks a report off chain and one who asks the contract get the
\* same answer to the same question, whatever proof they were given
\* (report-verify.ts:4-8).
VerifiersAgree ==
    /\ Answered("leaf") => (verdict = "true" <=> ReportInclusion(asked))
    /\ Answered("m") => (verdict = "true" <=> ReportConsistency(asked))

\* The four together: whatever the proof, contract and report verifier accept
\* what it proves and nothing else (GraspLog.sol:187, MerkleLog.sol:35-79,
\* SparseMerkle.sol:8-18, report-verify.ts:4-8).
ProofsAreExact == InclusionIsExact /\ ConsistencyIsExact /\ ConsentIsExact /\ VerifiersAgree
=============================================================================
