------------------------------ MODULE Corpora -------------------------------
(***************************************************************************)
(* The life of a corpus: services/api/src/routes/corpora.ts drafts it, logs*)
(* its manifest and serves seal parameters and reports (report/build.ts),  *)
(* scripts/seal-corpus.mjs seals it in the LicenceRegistry, and meanwhile  *)
(* episodes arrive, consents are revoked (routes/consent.ts) and an        *)
(* anchorer copies the head of the log to the primary chain.               *)
(*                                                                         *)
(* The API is one process and the handlers below have no await between     *)
(* their first read and their last write: each is one step, unless the     *)
(* process dies between two of its writes.  The supplier's script and the  *)
(* anchorer are processes of their own, and the anchorer reads the API's   *)
(* file statement by statement: the size, the root and the revocations of  *)
(* one call are of three moments, and its two rows are two writes.  One    *)
(* anchorer is modelled, which awaits every receipt, so that the chain does*)
(* not change between two steps of a call (several anchorers, failed calls *)
(* and receipts given up are in Anchoring).                                *)
(*                                                                         *)
(* An episode leaf and a manifest leaf are both [members, sealedAt]; only a*)
(* manifest has a time (the code separates them by a tag byte).  A manifest*)
(* hash and a leaf hash stand for what they hash.  The root of the first n *)
(* leaves is written n.  Each episode has a consent key of its own, written*)
(* as the episode.                                                         *)
(***************************************************************************)
EXTENDS AnchorRule, FiniteSets

CONSTANTS
    Corpus,      \* corpus ids (ULIDs) that may be drawn
    Episode,     \* episodes that may be logged
    Members,     \* sets of episodes a supplier may ask a corpus of
    Key,         \* the episodes whose consent may be revoked
    MaxClock,    \* bound on the seconds that pass
    MaxSeals,    \* bound on the times one manifest is sealed on chain
    MaxCrashes   \* bound on the deaths of the API or of the anchorer

ASSUME CorporaAssumption ==
    /\ Members \subseteq (SUBSET Episode) \ {{}}
    /\ Key \subseteq Episode
    /\ MaxClock \in Nat \ {0}
    /\ MaxSeals \in Nat
    /\ MaxCrashes \in Nat

VARIABLES
    log,        \* table leaf
    revoked,    \* table revocation
    row,        \* table corpus, with corpus_episode
    clock,      \* unix seconds
    chain,      \* the anchors of the primary GraspLog
    chainRows,  \* table anchor_chain: the chain indexes it has a row of
    recorded,   \* table anchor: chain indexes, in insertion order
    call,       \* the anchorer's call of anchorHead: where it is, what it has read
    params,     \* per corpus, the seal parameters its supplier has fetched
    onChain,    \* the corpora of the LicenceRegistry
    crashes

anchorer == <<chain, chainRows, recorded, call>>
supplier == <<params, onChain>>
vars == <<log, revoked, row, clock, anchorer, supplier, crashes>>

Leaf == [members: SUBSET Episode, sealedAt: 0 .. MaxClock]
EpisodeLeaf(e)   == [members |-> {e}, sealedAt |-> 0]
IsManifest(leaf) == leaf.sealedAt > 0

Logged  == {log[p] : p \in 1 .. Len(log)}
IndexOf(leaf) == (CHOOSE p \in 1 .. Len(log) : log[p] = leaf) - 1

NoRow  == [status |-> "none", manifest |-> [members |-> {}, sealedAt |-> 0], leafIdx |-> 0]
NoParams == [leaf |-> [members |-> {}, sealedAt |-> 0], leafIdx |-> 0, size |-> 0, anchor |-> 0]
NoCall   == [at |-> "idle", size |-> 0, root |-> 0, rev |-> {}]

Init ==
    /\ log = <<>> /\ revoked = {}
    /\ row = [c \in Corpus |-> NoRow]
    /\ clock = 1
    /\ chain = <<>> /\ chainRows = {} /\ recorded = <<>> /\ call = NoCall
    /\ params = [c \in Corpus |-> NoParams]
    /\ onChain = <<>>
    /\ crashes = 0

Crash == crashes < MaxCrashes /\ crashes' = crashes + 1

-----------------------------------------------------------------------------
(* Around the corpora: episodes, revocations, time. *)

AppendEpisode(e) ==
    /\ EpisodeLeaf(e) \notin Logged
    /\ log' = Append(log, EpisodeLeaf(e))
    /\ UNCHANGED <<revoked, row, clock, anchorer, supplier, crashes>>

\* store.revoke: the row is of the key of the signed record; a repetition
\* replaces it
StoreRevocation(k) == revoked' = revoked \cup {k}

\* POST /consent/:consentKey/revoke with the record of key k.  Nothing compares
\* k with the key in the path, which only the receipt names.
Revoke(k) ==
    /\ StoreRevocation(k)
    /\ UNCHANGED <<log, row, clock, anchorer, supplier, crashes>>

Tick ==
    /\ clock < MaxClock
    /\ clock' = clock + 1
    /\ UNCHANGED <<log, revoked, row, anchorer, supplier, crashes>>

-----------------------------------------------------------------------------
(* routes/corpora.ts: drafting and logging *)

\* newUlid: any id not in use; which one makes no difference
Unused == {c \in Corpus : row[c].status = "none"}
NewUlid == CHOOSE c \in Unused : TRUE

\* insertCorpus and setCorpusManifestLeaf, the two writes of a corpus' row
InsertCorpus(c, members) ==
    row' = [row EXCEPT ![c] = [status   |-> "draft",
                               manifest |-> [members |-> members, sealedAt |-> 0],
                               leafIdx  |-> 0]]
SetManifestLeaf(c, leaf, index) ==
    row' = [row EXCEPT ![c] = [status |-> "logged", manifest |-> leaf, leafIdx |-> index]]

\* POST /corpora: every member is logged and none is revoked
CreateDraft ==
    /\ Unused # {}
    /\ \E members \in Members :
          /\ \A e \in members : EpisodeLeaf(e) \in Logged
          /\ members \cap revoked = {}
          /\ InsertCorpus(NewUlid, members)
    /\ UNCHANGED <<log, revoked, clock, anchorer, supplier, crashes>>

Sealing(c) == [row[c].manifest EXCEPT !.sealedAt = clock]

\* What lets POST /corpora/:id/log append: the row is a draft, no member is
\* revoked by now, and no other draft made the same leaf in this second.
\* MayLogRevoked and MayLogAgain are slips used as mutants.
MayLogRevoked(c) == row[c].status = "draft" /\ Sealing(c) \notin Logged
MayLogAgain(c) ==
    /\ row[c].status # "none"
    /\ row[c].manifest.members \cap revoked = {}
    /\ Sealing(c) \notin Logged
MayLog(c) ==
    /\ row[c].status = "draft"
    /\ row[c].manifest.members \cap revoked = {}
    /\ Sealing(c) \notin Logged

\* append, then setCorpusManifestLeaf
LogCorpus(c) ==
    /\ MayLog(c)
    /\ log' = Append(log, Sealing(c))
    /\ SetManifestLeaf(c, Sealing(c), Len(log))
    /\ UNCHANGED <<revoked, clock, anchorer, supplier, crashes>>

\* The process dies after the append: the leaf is in the log, the row is
\* still a draft.
LogCorpusAndDie(c) ==
    /\ MayLog(c)
    /\ log' = Append(log, Sealing(c))
    /\ Crash
    /\ UNCHANGED <<revoked, row, clock, anchorer, supplier>>

-----------------------------------------------------------------------------
(* anchorer.ts: anchorHead on the primary chain *)

\* What every step of a call but its writes leaves alone
ReadOnly == UNCHANGED <<log, revoked, row, clock, chain, chainRows, recorded, supplier, crashes>>

ReadSize ==
    /\ call.at = "idle" /\ log # <<>>
    /\ call' = [call EXCEPT !.at = "sized", !.size = Len(log)]
    /\ ReadOnly

\* store.root(), after the chain's count and head were awaited
ReadRoot ==
    /\ call.at = "sized" /\ ~SizeMustNotShrink(chain, call.size)
    /\ call' = [call EXCEPT !.at = "rooted", !.root = Len(log)]
    /\ ReadOnly

NothingNew == chain # <<>> /\ call.size = LastAnchor(chain).size
                           /\ revoked = LastAnchor(chain).revocationRoot

\* revocationRoot(store), a read of its own: whatever the API has written
\* since the root was read is in it.  The transaction is sent.
ReadRevocations ==
    /\ call.at = "rooted" /\ ~NothingNew
    /\ call' = [call EXCEPT !.at = "composed", !.rev = revoked]
    /\ ReadOnly

\* The store is behind the chain, or the head already says it
Stop ==
    /\ \/ call.at = "sized" /\ SizeMustNotShrink(chain, call.size)
       \/ call.at = "rooted" /\ NothingNew
    /\ call' = NoCall
    /\ ReadOnly

\* The contract takes the triple
Mine ==
    /\ call.at = "composed" /\ Accepts(chain, call.root, call.size, call.rev)
    /\ chain' = Extend(chain, call.root, call.size, call.rev, 0)
    /\ call' = [call EXCEPT !.at = "mined"]
    /\ UNCHANGED <<log, revoked, row, clock, chainRows, recorded, supplier, crashes>>

\* ... or refuses it
Refused ==
    /\ call.at = "composed" /\ ~Accepts(chain, call.root, call.size, call.rev)
    /\ call' = NoCall
    /\ ReadOnly

\* recordAnchorChain, then recordAnchor: anchorCount is still the own anchor's
RecordChain ==
    /\ call.at = "mined"
    /\ chainRows' = chainRows \cup {Len(chain)}
    /\ call' = [call EXCEPT !.at = "rowed"]
    /\ UNCHANGED <<log, revoked, row, clock, chain, recorded, supplier, crashes>>

Record ==
    /\ call.at = "rowed"
    /\ recorded' = Append(recorded, Len(chain))
    /\ call' = NoCall
    /\ UNCHANGED <<log, revoked, row, clock, chain, chainRows, supplier, crashes>>

\* The anchorer dies, or its call fails, between two steps
Die ==
    /\ call.at # "idle"
    /\ call' = NoCall
    /\ Crash
    /\ UNCHANGED <<log, revoked, row, clock, chain, chainRows, recorded, supplier>>

AnchorHead ==
    \/ ReadSize \/ ReadRoot \/ ReadRevocations \/ Stop
    \/ Mine \/ Refused \/ RecordChain \/ Record

-----------------------------------------------------------------------------
(* What the API reads of the anchors *)

Recorded(r) == chain[recorded[r]]

\* anchors().filter(a => a.size > index)[0], 0 when there is none.
\* CoveringOrEqual is a slip used as a mutant.
CoveringOrEqual(index) ==
    LET covers == {r \in 1 .. Len(recorded) : Recorded(r).size >= index}
    IN  IF covers = {} THEN 0 ELSE CHOOSE r \in covers : \A s \in covers : r <= s
FirstCovering(index) ==
    LET covers == {r \in 1 .. Len(recorded) : Recorded(r).size > index}
    IN  IF covers = {} THEN 0 ELSE CHOOSE r \in covers : \A s \in covers : r <= s

\* anchorChains(root, size): the chain's rows with this row's head, which are
\* several when only the revocations changed in between
RowsWithHead(r) == {i \in chainRows : /\ chain[i].root = Recorded(r).root
                                      /\ chain[i].size = Recorded(r).size}
\* anchorChains(root, size)[0]: the chain index of the oldest of them
FirstWithHead(r) == CHOOSE i \in RowsWithHead(r) : \A j \in RowsWithHead(r) : i <= j

\* An inclusion proof made by the store for the first `size' leaves folds to
\* this anchor's root, and the anchor covers the index.
ProofFolds(anchor, size, index) == anchor.root = size /\ anchor.size = size /\ index < size

-----------------------------------------------------------------------------
(* The supplier's script and LicenceRegistry.sealCorpus *)

Seals(leaf) == Cardinality({i \in 1 .. Len(onChain) : onChain[i].leaf = leaf})

\* GET /corpora/:id/seal-params; a proof of an index that is not below the
\* size is an internal error
FetchParams(c) ==
    LET r == FirstCovering(row[c].leafIdx) IN
    /\ row[c].status = "logged"
    /\ r # 0 /\ row[c].leafIdx < Recorded(r).size
    /\ RowsWithHead(r) # {}
    /\ params[c] = NoParams
    /\ Seals(row[c].manifest) < MaxSeals
    /\ params' = [params EXCEPT ![c] = [leaf |-> row[c].manifest, leafIdx |-> row[c].leafIdx,
                                        size |-> Recorded(r).size, anchor |-> FirstWithHead(r)]]
    /\ UNCHANGED <<log, revoked, row, clock, anchorer, onChain, crashes>>

\* sealCorpus: the leaf must be in the log at that anchor.  The other tests
\* are LicenceRegistry's own.
SealAccepted(q) ==
    /\ ProofFolds(chain[q.anchor], q.size, q.leafIdx)
    /\ log[q.leafIdx + 1] = q.leaf

SendSeal(c) ==
    /\ params[c] # NoParams
    /\ params' = [params EXCEPT ![c] = NoParams]
    /\ onChain' = IF SealAccepted(params[c])
                  THEN Append(onChain, [leaf |-> params[c].leaf, anchor |-> params[c].anchor])
                  ELSE onChain
    /\ UNCHANGED <<log, revoked, row, clock, anchorer, crashes>>

-----------------------------------------------------------------------------
(* report/build.ts *)

\* firstRevocationChangeAnchor, starting from the empty tree; 0: none
FirstRevocationChange ==
    LET before(r) == IF r = 1 THEN {} ELSE Recorded(r - 1).revocationRoot
        changes == {r \in 1 .. Len(recorded) : Recorded(r).revocationRoot # before(r)}
    IN  IF changes = {} THEN 0 ELSE CHOOSE r \in changes : \A s \in changes : r <= s

\* A slip used as a mutant: the revocations of now for an anchor of before.
AnyRevocations(anchor) == TRUE
\* The tree of the revocations of now is the one the anchor carries
SameRevocations(anchor) == revoked # {} => revoked = anchor.revocationRoot

\* buildReport(c) throws nothing: there is an anchor, the manifest's leaf is
\* covered, the two anchors are consistent, the revocations are the report
\* anchor's, and the inclusion proof of every member folds.
ReportIsBuilt(c) ==
    LET last    == Recorded(Len(recorded))
        sealing == FirstCovering(row[c].leafIdx)
    IN  /\ row[c].status # "none"
        /\ recorded # <<>> /\ RowsWithHead(Len(recorded)) # {}
        /\ row[c].status = "logged" =>
              /\ sealing # 0 /\ RowsWithHead(sealing) # {}
              /\ IF Recorded(sealing).size = last.size
                 THEN Recorded(sealing).root = last.root
                 ELSE /\ Recorded(sealing).root = Recorded(sealing).size
                      /\ last.root = last.size
        /\ SameRevocations(last)
        /\ \A e \in row[c].manifest.members :
              ProofFolds(last, last.size, IndexOf(EpisodeLeaf(e)))

\* anchor and sealing are the triples it states, onset is the anchor whose
\* block it names, 0 when it names none
Report(c) ==
    [anchor   |-> recorded[Len(recorded)],
     sealing  |-> IF row[c].status = "logged" THEN recorded[FirstCovering(row[c].leafIdx)] ELSE 0,
     members  |-> row[c].manifest.members,
     revoked  |-> row[c].manifest.members \cap revoked,
     onset    |-> IF FirstRevocationChange = 0 THEN 0
                  ELSE FirstWithHead(FirstRevocationChange)]

-----------------------------------------------------------------------------
(* routes/consent.ts: GET /consent/:consentKey at a recorded anchor *)

\* The rows from the asked size on with other revocations than the row before
\* them.  The table's idx is its own count, not the chain's index: a row that
\* is missing leaves no gap in it.  ChangesAfter is a slip used as a mutant.
Changed(r) == r = 1 \/ Recorded(r - 1).revocationRoot # Recorded(r).revocationRoot
ChangesAfter(size) == {r \in 1 .. Len(recorded) : Recorded(r).size > size /\ Changed(r)}
ChangesFrom(size)  == {r \in 1 .. Len(recorded) : Recorded(r).size >= size /\ Changed(r)}

\* The tree whose (non-)membership proof is handed out is that of now,
\* whichever anchor was asked for; onset is every recorded anchor with the
\* head of the first change.
ConsentAnswer(k, r) ==
    LET changes == ChangesFrom(Recorded(r).size)
    IN  [status |-> IF k \in revoked THEN "revoked" ELSE "live",
         tree   |-> revoked,
         onset  |-> IF k \notin revoked \/ changes = {} THEN {}
                    ELSE LET a == CHOOSE s \in changes : \A t \in changes : s <= t
                         IN  RowsWithHead(a)]

\* computeContainsRevoked, read afresh by GET /corpora and GET /corpora/:id
ContainsRevoked(c) == row[c].manifest.members \cap revoked # {}

-----------------------------------------------------------------------------
Next ==
    \/ \E e \in Episode : AppendEpisode(e)
    \/ \E k \in Key : Revoke(k)
    \/ Tick \/ CreateDraft
    \/ \E c \in Corpus : \/ LogCorpus(c) \/ LogCorpusAndDie(c)
                         \/ FetchParams(c) \/ SendSeal(c)
    \/ AnchorHead \/ Die

Spec == Init /\ [][Next]_vars

\* The anchorer's loop keeps running, and a supplier runs the script until it
\* succeeds.  Nobody has to log, to revoke or to die.
Fairness ==
    /\ WF_vars(AnchorHead)
    /\ \A c \in Corpus : WF_vars(FetchParams(c)) /\ WF_vars(SendSeal(c))

FairSpec == Spec /\ Fairness

-----------------------------------------------------------------------------

\* A revocation closes the door to new corpora (PLAN.md section 6.1).  Once an
\* anchor on chain shows an episode revoked, no manifest with it is logged any
\* more, although a draft is checked long before it is logged
\* (corpora.ts:134-149); and the manifests with it, one of which may have come
\* between the root and the revocations of that anchor, are all under the root
\* of the next one.
ShownManifestsAreCovered ==
    \A j \in 1 .. Len(chain) : \A i \in 1 .. j - 1, p \in 1 .. Len(log) :
        IsManifest(log[p]) /\ log[p].members \cap chain[i].revocationRoot # {} =>
            p <= chain[j].root
NoShownManifestIsLogged ==
    \A p \in Len(log) + 1 .. Len(log') : IsManifest(log'[p]) =>
        \A i \in 1 .. Len(chain') : log'[p].members \cap chain'[i].revocationRoot = {}

NoManifestAfterOnset == []ShownManifestsAreCovered /\ [][NoShownManifestIsLogged]_vars

\* Every corpus sealed on chain is the corpus of exactly one row, for ever,
\* whatever was retried after a crash: the scan of GET /corpora/:id/onchain,
\* which compares manifest hashes, finds it, and finds no other's.
SealedStaysFound ==
    \A i \in 1 .. Len(onChain) :
        \E c \in Corpus :
            /\ row[c].status = "logged" /\ row[c].manifest = onChain[i].leaf
            /\ log[row[c].leafIdx + 1] = onChain[i].leaf
            /\ \A d \in Corpus : row[d].manifest = onChain[i].leaf => d = c

\* A report that is answered survives the buyer's own checks against the
\* chain (PLAN.md section 10.10): members and manifest are under its anchors,
\* the log was only extended between them, a member is called revoked exactly
\* when the report anchor says so, and no anchor that carries one of these
\* revocations is older than the anchor whose block the report names as onset.
ReportsHold ==
    \A c \in Corpus : ReportIsBuilt(c) =>
        LET report == Report(c)
            anchor == chain[report.anchor]
        IN  /\ \A e \in report.members :
                  \E p \in 1 .. anchor.root : log[p] = EpisodeLeaf(e)
            /\ row[c].status = "logged" =>
                  /\ row[c].leafIdx < chain[report.sealing].root
                  /\ chain[report.sealing].root <= anchor.root
            /\ report.revoked = report.members \cap anchor.revocationRoot
            /\ \A r \in 1 .. Len(recorded) :
                  report.members \cap Recorded(r).revocationRoot # {} =>
                      report.onset \in 1 .. recorded[r]

\* What the consent route answers of a key at a recorded anchor
\* (consent.ts:41-117) stands against the chain: a key it calls live is revoked
\* at no anchor, recorded or not; a proof that folds to the asked anchor's
\* revocation root says what that anchor says; and asked at the anchor where
\* the revocation set in, the onset it names includes that anchor, whichever
\* rows a crash lost.
ConsentAnswersHold ==
    \A k \in Key, r \in 1 .. Len(recorded) :
        LET answer == ConsentAnswer(k, r)
        IN  /\ answer.status = "live" => \A i \in 1 .. Len(chain) : ConsentLive(chain, i, k)
            /\ answer.tree = Recorded(r).revocationRoot =>
                  (answer.status = "live") = ConsentLive(chain, recorded[r], k)
            /\ Onset(chain, recorded[r], k) => recorded[r] \in answer.onset
            /\ \A c \in Corpus : ~ContainsRevoked(c) /\ k \in row[c].manifest.members =>
                  \A i \in 1 .. Len(chain) : ConsentLive(chain, i, k)

OnTheRegistry(c) == \E i \in 1 .. Len(onChain) : onChain[i].leaf = row[c].manifest

\* An anchor whose size is not its root's, or whose row is missing and is not
\* about to be written, over c's leaf
Spoiled(c) ==
    \E i \in 1 .. Len(chain) :
        /\ chain[i].root > row[c].leafIdx
        /\ \/ chain[i].size # chain[i].root
           \/ /\ \A r \in 1 .. Len(recorded) : recorded[r] # i
              /\ i = Len(chain) => call.at \notin {"mined", "rowed"}

\* A logged corpus can be sold in the end: its parameters are served and the
\* registry accepts them.  Only the anchorer's own defects can prevent it, an
\* anchor whose size and root are of different logs or whose row a crash lost.
LoggedCorporaAreSealed ==
    \A c \in Corpus : row[c].status = "logged" ~> OnTheRegistry(c) \/ Spoiled(c)

\* What PLAN.md:71 and :663 promise of a revoked member, and build.ts:84
\* defines: the block a report names as the onset is the block of an anchor
\* that shows a revocation.
OnsetsShowRevocations ==
    \A c \in Corpus :
        ReportIsBuilt(c) /\ Report(c).revoked # {} =>
            /\ Report(c).onset # 0
            /\ chain[Report(c).onset].revocationRoot # {}
=============================================================================
