--------------------------- MODULE CorporaProofs ----------------------------
(***************************************************************************)
(* Theorems about Corpora, for any corpora and episodes, however long the  *)
(* log and the chain grow and whenever the API or the anchorer dies.       *)
(*                                                                         *)
(* Four facts tie the tables to the chain, and the properties follow from  *)
(* their conjunction CorporaInv.  No leaf is logged twice and every logged *)
(* row names the position of its own manifest (LogHasNoDoubles,            *)
(* RowsFollowTheLog), so that a manifest belongs to one row                *)
(* (OneRowPerManifest) and what was sealed stays that row's                *)
(* (SealsAreOfRows).  An anchor is composed of a size, a root and          *)
(* revocations of three moments, but never of more than the store held     *)
(* then (AnchorsFollowTheLog, CallFollowsTheStore): its revocations are    *)
(* revoked now, so that a manifest with one of them can only have come     *)
(* before them, and the next call's root is read after it.  By the         *)
(* anchoring rule, and because one call ends before the next begins,       *)
(* anchors grow in size, root and revocations, with one root per size      *)
(* (AnchorsGrow).  And the recorded rows are some of the anchors, in the   *)
(* same order (RecordsRise), and inherit this: the first row with a        *)
(* property is not later than any other.                                   *)
(***************************************************************************)
EXTENDS Corpora, SequenceTheorems, WellFoundedInduction, TLAPS

-----------------------------------------------------------------------------
(* The inductive invariant *)

Anchors == [root: Nat, prevRoot: Nat, revocationRoot: SUBSET Key, size: Nat \ {0}]
Rows    == [status: {"none", "draft", "logged"}, manifest: Leaf, leafIdx: Nat]
Calls   == [at: {"idle", "sized", "rooted", "composed", "mined", "rowed"},
            size: Nat, root: Nat, rev: SUBSET Key]
Params  == [leaf: Leaf, leafIdx: Nat, size: Nat, anchor: Nat]

\* Every table, the chain and the processes hold what the code stores there.
CorporaTypeOK ==
    /\ log \in Seq(Leaf)
    /\ revoked \subseteq Key
    /\ row \in [Corpus -> Rows]
    /\ clock \in 1 .. MaxClock
    /\ chain \in Seq(Anchors)
    /\ chainRows \subseteq Nat \ {0}
    /\ recorded \in Seq(Nat \ {0})
    /\ call \in Calls
    /\ params \in [Corpus -> Params]
    /\ onChain \in Seq([leaf: Leaf, anchor: Nat])
    /\ crashes \in 0 .. MaxCrashes

\* table leaf: leaf_hash is unique.
LogHasNoDoubles == \A p, q \in 1 .. Len(log) : log[p] = log[q] => p = q

\* An anchor says no more than the store holds now.
AnchorsFollowTheLog ==
    \A i \in 1 .. Len(chain) :
        /\ chain[i].size <= chain[i].root
        /\ chain[i].root <= Len(log)
        /\ chain[i].revocationRoot \subseteq revoked

\* What a call has read the store held, and what it will anchor covers what is
\* on chain, with the manifests that were logged before their members were
\* shown to be revoked.
CallFollowsTheStore ==
    /\ call.at = "sized" => call.size > 0 /\ call.size <= Len(log)
    /\ call.at \in {"rooted", "composed"} =>
          /\ call.size > 0 /\ call.size <= call.root /\ call.root <= Len(log)
          /\ \A i \in 1 .. Len(chain) :
                /\ chain[i].root <= call.root
                /\ \A p \in 1 .. Len(log) :
                      IsManifest(log[p]) /\ log[p].members \cap chain[i].revocationRoot # {} =>
                          p <= call.root
    /\ call.at = "composed" =>
          /\ call.rev \subseteq revoked
          /\ \A i \in 1 .. Len(chain) : chain[i].revocationRoot \subseteq call.rev
    /\ call.at \in {"mined", "rowed"} =>
          /\ chain # <<>>
          /\ \A r \in 1 .. Len(recorded) : recorded[r] < Len(chain)
    /\ call.at = "rowed" => Len(chain) \in chainRows

\* What the anchoring rule leaves of earlier and later anchors.
AnchorsGrow ==
    \A i, j \in 1 .. Len(chain) : i <= j =>
        /\ chain[i].size <= chain[j].size
        /\ chain[i].root <= chain[j].root
        /\ chain[i].size = chain[j].size => chain[i].root = chain[j].root
        /\ chain[i].revocationRoot \subseteq chain[j].revocationRoot

\* The rows are of anchors of the chain, in the order of the chain, and a row
\* of anchor is also one of anchor_chain.
RecordsRise ==
    /\ \A i \in chainRows : i <= Len(chain)
    /\ \A r \in 1 .. Len(recorded) : recorded[r] \in 1 .. Len(chain) /\ recorded[r] \in chainRows
    /\ \A r, s \in 1 .. Len(recorded) : r < s => recorded[r] < recorded[s]

\* What a row says of the log is so.
RowsFollowTheLog ==
    \A c \in Corpus :
        /\ row[c].status = "none" => row[c] = NoRow
        /\ row[c].status = "draft" => row[c].manifest.sealedAt = 0
        /\ row[c].status = "logged" =>
              /\ row[c].manifest.sealedAt > 0
              /\ row[c].leafIdx < Len(log)
              /\ log[row[c].leafIdx + 1] = row[c].manifest
        /\ \A e \in row[c].manifest.members : EpisodeLeaf(e) \in Logged

\* No two rows are of one manifest.
OneRowPerManifest ==
    \A c, d \in Corpus : row[c].status = "logged" /\ row[c].manifest = row[d].manifest => c = d

\* What a supplier fetched, and what was sealed, is a logged row's manifest.
SealsAreOfRows ==
    /\ \A c \in Corpus : params[c] # NoParams =>
          row[c].status = "logged" /\ params[c].leaf = row[c].manifest
    /\ \A i \in 1 .. Len(onChain) : \E c \in Corpus :
          row[c].status = "logged" /\ row[c].manifest = onChain[i].leaf

CorporaInv ==
    /\ CorporaTypeOK /\ LogHasNoDoubles /\ AnchorsFollowTheLog /\ AnchorsGrow
    /\ CallFollowsTheStore /\ RecordsRise /\ RowsFollowTheLog /\ OneRowPerManifest
    /\ SealsAreOfRows /\ ShownManifestsAreCovered

-----------------------------------------------------------------------------
(* Choosing the least *)

\* A set of numbers that is not empty has a least.
LEMMA LeastNumber ==
    ASSUME NEW S \in SUBSET Nat, S # {}
    PROVE  \E m \in S : \A n \in S : m <= n
<1>1. PICK m \in S : \A n \in S : <<n, m>> \notin OpToRel(<, Nat)
  BY NatLessThanWellFounded, WFMin
<1>2. ASSUME NEW n \in S PROVE m <= n
  <2>1. ~ (n < m)
    BY <1>1 DEF OpToRel
  <2> QED BY <2>1
<1> QED BY <1>2

\* FirstCovering finds the first covering row when there is one.
LEMMA FirstCoveringIs ==
    ASSUME NEW index \in Nat
    PROVE  \/ FirstCovering(index) = 0
           \/ /\ FirstCovering(index) \in 1 .. Len(recorded)
              /\ Recorded(FirstCovering(index)).size > index
<1> DEFINE covers == {r \in 1 .. Len(recorded) : Recorded(r).size > index}
<1>1. CASE covers = {}
  BY <1>1 DEF FirstCovering
<1>2. CASE covers # {}
  <2>1. covers \in SUBSET Nat
    OBVIOUS
  <2>2. \E r \in covers : \A s \in covers : r <= s
    BY <1>2, <2>1, LeastNumber
  <2>3. FirstCovering(index) \in covers
    BY <1>2, <2>2 DEF FirstCovering
  <2> QED BY <2>3
<1> QED BY <1>1, <1>2

\* FirstWithHead names one of the recorded anchors with this head, and none
\* of them is older.
LEMMA FirstWithHeadIs ==
    ASSUME CorporaInv, NEW r \in 1 .. Len(recorded)
    PROVE  /\ FirstWithHead(r) \in 1 .. recorded[r]
           /\ recorded[r] \in RowsWithHead(r)
<1>1. recorded \in Seq(Nat \ {0}) /\ Len(recorded) \in Nat
  BY DEF CorporaInv, CorporaTypeOK
<1>2. RowsWithHead(r) \in SUBSET (Nat \ {0})
  BY DEF RowsWithHead, CorporaInv, CorporaTypeOK
<1>3. recorded[r] \in RowsWithHead(r)
  BY DEF RowsWithHead, Recorded, CorporaInv, RecordsRise
<1>4. \E i \in RowsWithHead(r) : \A j \in RowsWithHead(r) : i <= j
  BY <1>2, <1>3, LeastNumber
<1>5. /\ FirstWithHead(r) \in RowsWithHead(r)
      /\ \A j \in RowsWithHead(r) : FirstWithHead(r) <= j
  BY <1>4 DEF FirstWithHead
<1>6. FirstWithHead(r) \in Nat \ {0} /\ FirstWithHead(r) <= recorded[r]
  BY <1>2, <1>3, <1>5
<1>7. recorded[r] \in Nat
  BY <1>1
<1> QED BY <1>3, <1>6, <1>7

-----------------------------------------------------------------------------
(* What the steps do to the parts of the invariant *)

\* The log takes a leaf it does not have.
Appends(leaf) ==
    /\ leaf \in Leaf
    /\ leaf \notin Logged
    /\ log' = Append(log, leaf)

\* What was logged stays where it was.
LEMMA AppendedLog ==
    ASSUME CorporaInv, NEW leaf, Appends(leaf)
    PROVE  /\ log' \in Seq(Leaf)
           /\ Len(log) \in Nat
           /\ Len(log') = Len(log) + 1
           /\ \A p \in 1 .. Len(log) : log'[p] = log[p] /\ log[p] # leaf
           /\ log'[Len(log) + 1] = leaf
           /\ \A p \in 1 .. Len(log') : p = Len(log) + 1 \/ p \in 1 .. Len(log)
           /\ Logged \subseteq Logged'
<1>1. log \in Seq(Leaf) /\ Len(log) \in Nat
  BY DEF CorporaInv, CorporaTypeOK
<1>2. /\ log' \in Seq(Leaf)
      /\ Len(log') = Len(log) + 1
      /\ \A p \in 1 .. Len(log) : log'[p] = log[p]
      /\ log'[Len(log) + 1] = leaf
  BY <1>1 DEF Appends
<1>3. \A p \in 1 .. Len(log) : log[p] # leaf
  BY DEF Appends, Logged
<1>4. \A p \in 1 .. Len(log') : p = Len(log) + 1 \/ p \in 1 .. Len(log)
  BY <1>1, <1>2
<1>5. 1 .. Len(log) \subseteq 1 .. Len(log')
  BY <1>1, <1>2
<1>6. Logged \subseteq Logged'
  BY <1>2, <1>5 DEF Logged
<1> QED BY <1>1, <1>2, <1>3, <1>4, <1>6

\* An append keeps what does not depend on the new leaf.
LEMMA AppendKeepsLog ==
    ASSUME CorporaInv, NEW leaf, Appends(leaf)
    PROVE  LogHasNoDoubles'
<1>1. ASSUME NEW p \in 1 .. Len(log'), NEW q \in 1 .. Len(log'), log'[p] = log'[q]
      PROVE  p = q
  <2>1. CASE p \in 1 .. Len(log) /\ q \in 1 .. Len(log)
    BY <1>1, <2>1, AppendedLog DEF CorporaInv, LogHasNoDoubles
  <2>2. CASE p = Len(log) + 1 /\ q \in 1 .. Len(log)
    BY <1>1, <2>2, AppendedLog
  <2>3. CASE p \in 1 .. Len(log) /\ q = Len(log) + 1
    BY <1>1, <2>3, AppendedLog
  <2> QED BY <2>1, <2>2, <2>3, AppendedLog
<1> QED BY <1>1 DEF LogHasNoDoubles

\* A longer log covers what the anchors covered, and the new leaf may be
\* anything but a manifest with a revoked member.
LEMMA AppendKeepsAnchors ==
    ASSUME CorporaInv, NEW leaf, Appends(leaf), UNCHANGED <<revoked, anchorer>>,
           IsManifest(leaf) => leaf.members \cap revoked = {}
    PROVE  /\ AnchorsFollowTheLog' /\ AnchorsGrow' /\ RecordsRise'
           /\ CallFollowsTheStore' /\ ShownManifestsAreCovered'
<1>1. UNCHANGED <<chain, chainRows, recorded, call, revoked>>
  BY DEF anchorer
<1>2. AnchorsGrow' /\ RecordsRise'
  BY <1>1 DEF CorporaInv, AnchorsGrow, RecordsRise
<1>3. \A i \in 1 .. Len(chain) : chain[i].root \in Nat /\ chain[i].root <= Len(log')
  <2>1. ASSUME NEW i \in 1 .. Len(chain)
        PROVE  chain[i].root \in Nat /\ chain[i].root <= Len(log')
    <3>1. chain[i] \in Anchors
      BY DEF CorporaInv, CorporaTypeOK
    <3>2. chain[i].root \in Nat /\ chain[i].root <= Len(log)
      BY <3>1 DEF Anchors, CorporaInv, AnchorsFollowTheLog
    <3> QED BY <3>2, AppendedLog
  <2> QED BY <2>1
<1>4. AnchorsFollowTheLog'
  BY <1>1, <1>3 DEF CorporaInv, AnchorsFollowTheLog
<1>5. ASSUME NEW i \in 1 .. Len(chain), NEW p \in 1 .. Len(log'),
             IsManifest(log'[p]), log'[p].members \cap chain[i].revocationRoot # {}
      PROVE  p \in 1 .. Len(log) /\ log'[p] = log[p]
  <2>1. CASE p = Len(log) + 1
    <3>1. leaf.members \cap chain[i].revocationRoot = {}
      BY <1>5, <2>1, AppendedLog DEF CorporaInv, AnchorsFollowTheLog
    <3> QED BY <1>5, <2>1, <3>1, AppendedLog
  <2> QED BY <2>1, AppendedLog
<1>6. ShownManifestsAreCovered'
  BY <1>1, <1>5 DEF CorporaInv, ShownManifestsAreCovered, IsManifest
<1>7. call \in Calls
  BY DEF CorporaInv, CorporaTypeOK
<1>8. /\ call.at = "sized" => call.size > 0 /\ call.size <= Len(log')
      /\ call.at \in {"rooted", "composed"} =>
            /\ call.size > 0 /\ call.size <= call.root /\ call.root <= Len(log')
            /\ \A i \in 1 .. Len(chain) : chain[i].root <= call.root
  BY <1>7, AppendedLog DEF Calls, CorporaInv, CallFollowsTheStore
<1>9. ASSUME call.at \in {"rooted", "composed"},
             NEW i \in 1 .. Len(chain), NEW p \in 1 .. Len(log'),
             IsManifest(log'[p]), log'[p].members \cap chain[i].revocationRoot # {}
      PROVE  p <= call.root
  BY <1>5, <1>9 DEF CorporaInv, CallFollowsTheStore
<1>10. CallFollowsTheStore'
  BY <1>1, <1>8, <1>9 DEF CorporaInv, CallFollowsTheStore, IsManifest
<1> QED BY <1>2, <1>4, <1>6, <1>10

\* What a row says of the log stays true of a longer log.
LEMMA AppendKeepsRow ==
    ASSUME CorporaInv, NEW leaf, Appends(leaf), NEW c \in Corpus
    PROVE  /\ row[c].status = "logged" =>
                /\ row[c].leafIdx < Len(log')
                /\ log'[row[c].leafIdx + 1] = row[c].manifest
                /\ row[c].manifest # leaf
           /\ \A e \in row[c].manifest.members : EpisodeLeaf(e) \in Logged'
<1>1. row[c] \in Rows
  BY DEF CorporaInv, CorporaTypeOK
<1>2. row[c].leafIdx \in Nat
  BY <1>1 DEF Rows
<1>3. ASSUME row[c].status = "logged"
      PROVE  /\ row[c].leafIdx < Len(log')
             /\ log'[row[c].leafIdx + 1] = row[c].manifest
             /\ row[c].manifest # leaf
  <2>1. row[c].leafIdx < Len(log) /\ log[row[c].leafIdx + 1] = row[c].manifest
    BY <1>3 DEF CorporaInv, RowsFollowTheLog
  <2>2. row[c].leafIdx + 1 \in 1 .. Len(log)
    BY <1>2, <2>1, AppendedLog
  <2>3. row[c].leafIdx < Len(log')
    BY <1>2, <2>1, AppendedLog
  <2> QED BY <2>1, <2>2, <2>3, AppendedLog
<1>4. \A e \in row[c].manifest.members : EpisodeLeaf(e) \in Logged'
  BY AppendedLog DEF CorporaInv, RowsFollowTheLog
<1> QED BY <1>3, <1>4

-----------------------------------------------------------------------------
(* Every step keeps the invariant *)

\* The invariant holds of an empty store and an empty chain.
LEMMA InitInv == Init => CorporaInv
<1> SUFFICES ASSUME Init PROVE CorporaInv
  OBVIOUS
<1>1. NoRow \in Rows /\ NoParams \in Params /\ NoCall \in Calls
  BY CorporaAssumption DEF NoRow, NoParams, NoCall, Rows, Params, Calls, Leaf
<1>2. CorporaTypeOK
  BY <1>1, CorporaAssumption DEF Init, CorporaTypeOK
<1>3. RowsFollowTheLog /\ OneRowPerManifest /\ SealsAreOfRows
  BY DEF Init, RowsFollowTheLog, OneRowPerManifest, SealsAreOfRows, NoRow
<1> QED BY <1>2, <1>3 DEF Init, CorporaInv, LogHasNoDoubles, AnchorsFollowTheLog,
      AnchorsGrow, RecordsRise, CallFollowsTheStore, NoCall, ShownManifestsAreCovered

\* An episode is logged: its leaf is no manifest.
LEMMA AppendEpisodeKeeps ==
    ASSUME CorporaInv, NEW e \in Episode, AppendEpisode(e)
    PROVE  CorporaInv'
<1>1. EpisodeLeaf(e) \in Leaf
  BY CorporaAssumption DEF EpisodeLeaf, Leaf
<1>2. Appends(EpisodeLeaf(e))
  BY <1>1 DEF AppendEpisode, Appends
<1>3. UNCHANGED <<revoked, row, clock, anchorer, supplier, crashes>>
  BY DEF AppendEpisode
<1>4. CorporaTypeOK'
  BY <1>2, <1>3, AppendedLog DEF CorporaInv, CorporaTypeOK, anchorer, supplier
<1>5. ~IsManifest(EpisodeLeaf(e))
  BY DEF IsManifest, EpisodeLeaf
<1>6. RowsFollowTheLog'
  BY <1>2, <1>3, AppendKeepsRow DEF CorporaInv, RowsFollowTheLog, EpisodeLeaf
<1>7. OneRowPerManifest' /\ SealsAreOfRows'
  BY <1>3 DEF CorporaInv, OneRowPerManifest, SealsAreOfRows, supplier
<1> QED BY <1>2, <1>3, <1>4, <1>5, <1>6, <1>7, AppendKeepsLog, AppendKeepsAnchors
      DEF CorporaInv

\* What MayLog lets through is a new manifest without revoked members.
LEMMA SealingIsNew ==
    ASSUME CorporaInv, NEW c \in Corpus, MayLog(c), log' = Append(log, Sealing(c))
    PROVE  /\ Appends(Sealing(c))
           /\ Sealing(c).sealedAt > 0
           /\ Sealing(c).members = row[c].manifest.members
           /\ Sealing(c).members \cap revoked = {}
<1>1. row[c] \in Rows /\ clock \in 1 .. MaxClock
  BY DEF CorporaInv, CorporaTypeOK
<1>2. row[c].manifest \in Leaf
  BY <1>1 DEF Rows
<1>3. /\ Sealing(c).sealedAt = clock
      /\ Sealing(c).members = row[c].manifest.members
      /\ Sealing(c) \in Leaf
  BY <1>1, <1>2, CorporaAssumption DEF Sealing, Leaf
<1> QED BY <1>1, <1>3 DEF MayLog, Appends

\* The manifest is logged and no row says so.
LEMMA LogCorpusAndDieKeeps ==
    ASSUME CorporaInv, NEW c \in Corpus, LogCorpusAndDie(c)
    PROVE  CorporaInv'
<1>1. /\ MayLog(c) /\ log' = Append(log, Sealing(c))
      /\ crashes' \in 0 .. MaxCrashes
      /\ UNCHANGED <<revoked, row, clock, anchorer, supplier>>
  BY CorporaAssumption DEF LogCorpusAndDie, Crash, CorporaInv, CorporaTypeOK
<1>2. Appends(Sealing(c)) /\ Sealing(c).members \cap revoked = {}
  BY <1>1, SealingIsNew
<1>3. CorporaTypeOK'
  BY <1>1, <1>2, AppendedLog DEF CorporaInv, CorporaTypeOK, anchorer, supplier
<1>4. RowsFollowTheLog'
  BY <1>1, <1>2, AppendKeepsRow DEF CorporaInv, RowsFollowTheLog, EpisodeLeaf
<1>5. OneRowPerManifest' /\ SealsAreOfRows'
  BY <1>1 DEF CorporaInv, OneRowPerManifest, SealsAreOfRows, supplier
<1> QED BY <1>1, <1>2, <1>3, <1>4, <1>5, AppendKeepsLog, AppendKeepsAnchors
      DEF CorporaInv

\* The manifest is logged and its row written.
LEMMA LogCorpusKeeps ==
    ASSUME CorporaInv, NEW c \in Corpus, LogCorpus(c)
    PROVE  CorporaInv'
<1>1. /\ MayLog(c) /\ log' = Append(log, Sealing(c))
      /\ SetManifestLeaf(c, Sealing(c), Len(log))
      /\ UNCHANGED <<revoked, clock, anchorer, supplier, crashes>>
  BY DEF LogCorpus
<1>2. /\ Appends(Sealing(c))
      /\ Sealing(c).sealedAt > 0
      /\ Sealing(c).members = row[c].manifest.members
      /\ Sealing(c).members \cap revoked = {}
  BY <1>1, SealingIsNew
<1>3. row \in [Corpus -> Rows] /\ row[c].status = "draft"
  BY <1>1 DEF CorporaInv, CorporaTypeOK, MayLog
<1>4. /\ \A d \in Corpus : d # c => row'[d] = row[d]
      /\ row'[c] = [status |-> "logged", manifest |-> Sealing(c), leafIdx |-> Len(log)]
  BY <1>1, <1>3 DEF SetManifestLeaf
<1>5. row' \in [Corpus -> Rows]
  <2>1. row'[c] \in Rows
    BY <1>2, <1>4, AppendedLog DEF Rows, Appends
  <2> QED BY <1>1, <1>3, <1>4, <2>1 DEF SetManifestLeaf
<1>6. CorporaTypeOK'
  BY <1>1, <1>2, <1>5, AppendedLog DEF CorporaInv, CorporaTypeOK, anchorer, supplier
<1>7. RowsFollowTheLog'
  <2>1. ASSUME NEW d \in Corpus
        PROVE  /\ row'[d].status = "none" => row'[d] = NoRow
               /\ row'[d].status = "draft" => row'[d].manifest.sealedAt = 0
               /\ row'[d].status = "logged" =>
                     /\ row'[d].manifest.sealedAt > 0
                     /\ row'[d].leafIdx < Len(log')
                     /\ log'[row'[d].leafIdx + 1] = row'[d].manifest
               /\ \A e \in row'[d].manifest.members : EpisodeLeaf(e) \in Logged'
    <3>1. CASE d = c
      <4>1. \A e \in row'[d].manifest.members : EpisodeLeaf(e) \in Logged'
        BY <3>1, <1>2, <1>4, AppendKeepsRow
      <4>2. Len(log) < Len(log') /\ log'[Len(log) + 1] = Sealing(c)
        BY <1>2, AppendedLog
      <4> QED BY <3>1, <4>1, <4>2, <1>2, <1>4
    <3>2. CASE d # c
      <4>1. row'[d] = row[d]
        BY <3>2, <1>4
      <4> QED BY <4>1, <1>2, AppendKeepsRow DEF CorporaInv, RowsFollowTheLog
    <3> QED BY <3>1, <3>2
  <2> QED BY <2>1 DEF RowsFollowTheLog, EpisodeLeaf
<1>8. OneRowPerManifest'
  <2>1. ASSUME NEW d \in Corpus, d # c, row'[d].manifest = Sealing(c) PROVE FALSE
    <3>1. row'[d] = row[d]
      BY <2>1, <1>4
    <3>2. row[d] \in Rows /\ row[d].manifest.sealedAt # 0
      BY <2>1, <3>1, <1>2, <1>3
    <3>3. row[d].status = "logged"
      BY <3>2 DEF CorporaInv, RowsFollowTheLog, Rows, NoRow
    <3> QED BY <2>1, <3>1, <3>3, <1>2, AppendKeepsRow
  <2> QED BY <1>4, <2>1 DEF CorporaInv, OneRowPerManifest
<1>9. SealsAreOfRows'
  <2>1. \A d \in Corpus : row[d].status = "logged" => row'[d] = row[d]
    BY <1>3, <1>4
  <2>2. UNCHANGED <<params, onChain>>
    BY <1>1 DEF supplier
  <2> QED BY <2>1, <2>2 DEF CorporaInv, SealsAreOfRows
<1> QED BY <1>1, <1>2, <1>6, <1>7, <1>8, <1>9, AppendKeepsLog, AppendKeepsAnchors
      DEF CorporaInv

\* A draft takes an unused id and a manifest without a time.
LEMMA CreateDraftKeeps ==
    ASSUME CorporaInv, CreateDraft
    PROVE  CorporaInv'
<1> DEFINE c == NewUlid
<1>1. c \in Corpus /\ row[c].status = "none"
  BY DEF CreateDraft, NewUlid, Unused
<1>2. PICK members \in Members :
          /\ \A e \in members : EpisodeLeaf(e) \in Logged
          /\ InsertCorpus(c, members)
  BY DEF CreateDraft
<1>3. UNCHANGED <<log, revoked, clock, anchorer, supplier, crashes>>
  BY DEF CreateDraft
<1> HIDE DEF c
<1>4. row \in [Corpus -> Rows] /\ row[c] = NoRow
  BY <1>1 DEF CorporaInv, CorporaTypeOK, RowsFollowTheLog
<1>5. /\ \A d \in Corpus : d # c => row'[d] = row[d]
      /\ row'[c] = [status |-> "draft", manifest |-> [members |-> members, sealedAt |-> 0],
                    leafIdx |-> 0]
      /\ row' = [row EXCEPT ![c] = row'[c]]
  BY <1>1, <1>2, <1>4 DEF InsertCorpus
<1>6. row' \in [Corpus -> Rows]
  <2>1. members \subseteq Episode
    BY CorporaAssumption
  <2>2. row'[c] \in Rows
    BY <1>5, <2>1, CorporaAssumption DEF Rows, Leaf
  <2> QED BY <1>4, <1>5, <2>2
<1>7. CorporaTypeOK'
  BY <1>3, <1>6 DEF CorporaInv, CorporaTypeOK, anchorer, supplier
<1>8. RowsFollowTheLog'
  <2>1. log' = log
    BY <1>3
  <2>2. \A d \in Corpus : \/ d # c /\ row'[d] = row[d]
                          \/ row'[d] = row'[c] /\ d = c
    BY <1>5
  <2>3. \A e \in row'[c].manifest.members : EpisodeLeaf(e) \in Logged
    BY <1>2, <1>5
  <2>4. Logged' = Logged
    BY <2>1 DEF Logged
  <2> QED BY <2>1, <2>2, <2>3, <2>4, <1>5 DEF CorporaInv, RowsFollowTheLog, EpisodeLeaf
<1>9. OneRowPerManifest'
  <2>1. ASSUME NEW d \in Corpus, row'[d].status = "logged" 
        PROVE  d # c /\ row'[d] = row[d] /\ row'[d].manifest # row'[c].manifest
    <3>1. d # c /\ row'[d] = row[d]
      BY <2>1, <1>5
    <3>2. row[d].manifest.sealedAt > 0
      BY <2>1, <3>1 DEF CorporaInv, RowsFollowTheLog
    <3> QED BY <3>1, <3>2, <1>5
  <2> QED BY <1>5, <2>1 DEF CorporaInv, OneRowPerManifest
<1>10. SealsAreOfRows'
  <2>1. \A d \in Corpus : row[d].status = "logged" => row'[d] = row[d]
    BY <1>1, <1>5
  <2>2. UNCHANGED <<params, onChain>>
    BY <1>3 DEF supplier
  <2> QED BY <2>1, <2>2 DEF CorporaInv, SealsAreOfRows
<1> QED BY <1>3, <1>7, <1>8, <1>9, <1>10
      DEF CorporaInv, LogHasNoDoubles, AnchorsFollowTheLog, AnchorsGrow, RecordsRise,
          CallFollowsTheStore, ShownManifestsAreCovered, IsManifest, anchorer

\* The invariants of the log, the chain and the rows stand where those do and
\* nothing is taken out of the revocations.
LEMMA RowsStand ==
    ASSUME CorporaInv, revoked \subseteq revoked', UNCHANGED <<log, row, chain, chainRows, recorded>>
    PROVE  /\ LogHasNoDoubles' /\ AnchorsFollowTheLog' /\ AnchorsGrow' /\ RecordsRise'
           /\ RowsFollowTheLog' /\ OneRowPerManifest' /\ ShownManifestsAreCovered'
           /\ call' = call => CallFollowsTheStore'
<1>1. /\ log' = log /\ row' = row /\ chain' = chain /\ chainRows' = chainRows
      /\ recorded' = recorded
  OBVIOUS
<1>2. LogHasNoDoubles'
  BY <1>1 DEF CorporaInv, LogHasNoDoubles
<1>3. AnchorsFollowTheLog'
  BY <1>1 DEF CorporaInv, AnchorsFollowTheLog
<1>4. AnchorsGrow'
  BY <1>1 DEF CorporaInv, AnchorsGrow
<1>5. RecordsRise'
  BY <1>1 DEF CorporaInv, RecordsRise
<1>6. RowsFollowTheLog'
  BY <1>1 DEF CorporaInv, RowsFollowTheLog, Logged
<1>7. OneRowPerManifest'
  BY <1>1 DEF CorporaInv, OneRowPerManifest
<1>8. ShownManifestsAreCovered'
  BY <1>1 DEF CorporaInv, ShownManifestsAreCovered, IsManifest
<1>9. call' = call => CallFollowsTheStore'
  BY <1>1 DEF CorporaInv, CallFollowsTheStore, IsManifest
<1> QED BY <1>2, <1>3, <1>4, <1>5, <1>6, <1>7, <1>8, <1>9

\* The seals and the parameters stand where the rows do.
LEMMA SealsStand ==
    ASSUME CorporaInv, UNCHANGED <<row, params, onChain>>
    PROVE  SealsAreOfRows'
<1>1. row' = row /\ params' = params /\ onChain' = onChain
  OBVIOUS
<1> QED BY <1>1 DEF CorporaInv, SealsAreOfRows

\* More revocations than an anchor shows do not contradict it.
LEMMA RevokeKeeps ==
    ASSUME CorporaInv, NEW k \in Key, Revoke(k)
    PROVE  CorporaInv'
<1>1. /\ revoked' = revoked \cup {k}
      /\ UNCHANGED <<log, row, clock, chain, chainRows, recorded, call, params, onChain, crashes>>
  BY DEF Revoke, StoreRevocation, anchorer, supplier
<1>2. CorporaTypeOK'
  BY <1>1 DEF CorporaInv, CorporaTypeOK
<1> QED BY <1>1, <1>2, RowsStand, SealsStand DEF CorporaInv

\* Every part of the invariant but the types is about other variables.
LEMMA TickKeeps ==
    ASSUME CorporaInv, Tick
    PROVE  CorporaInv'
<1>1. UNCHANGED <<log, revoked, row, chain, chainRows, recorded, call, params, onChain, crashes>>
  BY DEF Tick, anchorer, supplier
<1>2. clock' \in 1 .. MaxClock
  BY CorporaAssumption DEF Tick, CorporaInv, CorporaTypeOK
<1>3. CorporaTypeOK'
  BY <1>1, <1>2 DEF CorporaInv, CorporaTypeOK
<1> QED BY <1>1, <1>3, RowsStand, SealsStand DEF CorporaInv

\* A step of the anchorer that writes nothing moves only its call.
LEMMA CallKeeps ==
    ASSUME CorporaInv, call' \in Calls, CallFollowsTheStore', crashes' \in 0 .. MaxCrashes,
           UNCHANGED <<log, revoked, row, clock, chain, chainRows, recorded, supplier>>
    PROVE  CorporaInv'
<1>1. UNCHANGED <<params, onChain>>
  BY DEF supplier
<1>2. CorporaTypeOK'
  BY <1>1 DEF CorporaInv, CorporaTypeOK
<1> QED BY <1>1, <1>2, RowsStand, SealsStand DEF CorporaInv

\* The call reads the size.
LEMMA ReadSizeKeeps ==
    ASSUME CorporaInv, ReadSize
    PROVE  CorporaInv'
<1>1. /\ call' = [call EXCEPT !.at = "sized", !.size = Len(log)]
      /\ log # <<>> /\ log \in Seq(Leaf) /\ call \in Calls /\ crashes \in 0 .. MaxCrashes
      /\ UNCHANGED <<log, revoked, row, clock, chain, chainRows, recorded, supplier, crashes>>
  BY DEF ReadSize, ReadOnly, CorporaInv, CorporaTypeOK
<1>2. Len(log) \in Nat \ {0}
  BY <1>1
<1>3. call' \in Calls /\ call'.at = "sized" /\ call'.size = Len(log)
  BY <1>1, <1>2 DEF Calls
<1>4. CallFollowsTheStore'
  BY <1>1, <1>2, <1>3 DEF CallFollowsTheStore
<1> QED BY <1>1, <1>3, <1>4, CallKeeps

\* The call reads the root: it covers every anchor and every manifest so far.
LEMMA ReadRootKeeps ==
    ASSUME CorporaInv, ReadRoot
    PROVE  CorporaInv'
<1>1. /\ call.at = "sized"
      /\ call' = [call EXCEPT !.at = "rooted", !.root = Len(log)]
      /\ log \in Seq(Leaf) /\ call \in Calls /\ crashes \in 0 .. MaxCrashes
      /\ UNCHANGED <<log, revoked, row, clock, chain, chainRows, recorded, supplier, crashes>>
  BY DEF ReadRoot, ReadOnly, CorporaInv, CorporaTypeOK
<1>2. /\ call' \in Calls /\ call'.at = "rooted" /\ call'.root = Len(log)
      /\ call'.size = call.size /\ Len(log) \in Nat
  <2>1. Len(log) \in Nat
    BY <1>1
  <2> QED BY <1>1, <2>1 DEF Calls
<1>3. call.size > 0 /\ call.size <= Len(log)
  BY <1>1 DEF CorporaInv, CallFollowsTheStore
<1>4. \A i \in 1 .. Len(chain) : chain[i].root <= Len(log)
  BY DEF CorporaInv, AnchorsFollowTheLog
<1>5. \A p \in 1 .. Len(log) : p <= Len(log)
  BY <1>2
<1>6. CallFollowsTheStore'
  BY <1>1, <1>2, <1>3, <1>4, <1>5 DEF CallFollowsTheStore
<1> QED BY <1>1, <1>2, <1>6, CallKeeps

\* The call reads the revocations, which no anchor exceeds.
LEMMA ReadRevocationsKeeps ==
    ASSUME CorporaInv, ReadRevocations
    PROVE  CorporaInv'
<1>1. /\ call.at = "rooted"
      /\ call' = [call EXCEPT !.at = "composed", !.rev = revoked]
      /\ revoked \subseteq Key /\ call \in Calls /\ crashes \in 0 .. MaxCrashes
      /\ UNCHANGED <<log, revoked, row, clock, chain, chainRows, recorded, supplier, crashes>>
  BY DEF ReadRevocations, ReadOnly, CorporaInv, CorporaTypeOK
<1>2. /\ call' \in Calls /\ call'.at = "composed" /\ call'.rev = revoked
      /\ call'.size = call.size /\ call'.root = call.root
  BY <1>1 DEF Calls
<1>3. \A i \in 1 .. Len(chain) : chain[i].revocationRoot \subseteq revoked
  BY DEF CorporaInv, AnchorsFollowTheLog
<1>4. CallFollowsTheStore'
  BY <1>1, <1>2, <1>3 DEF CorporaInv, CallFollowsTheStore, IsManifest
<1> QED BY <1>1, <1>2, <1>4, CallKeeps

\* The call ends without an anchor, or with the process.
LEMMA EndKeeps ==
    ASSUME CorporaInv, Stop \/ Refused \/ Die
    PROVE  CorporaInv'
<1>1. /\ call' = NoCall /\ crashes' \in 0 .. MaxCrashes
      /\ UNCHANGED <<log, revoked, row, clock, chain, chainRows, recorded, supplier>>
  BY CorporaAssumption DEF Stop, Refused, Die, Crash, ReadOnly, CorporaInv, CorporaTypeOK
<1>2. call' \in Calls /\ call'.at = "idle"
  BY <1>1 DEF NoCall, Calls
<1>3. CallFollowsTheStore'
  BY <1>2 DEF CallFollowsTheStore
<1> QED BY <1>1, <1>2, <1>3, CallKeeps

\* The contract takes a triple composed of what the store held at three
\* moments: the chain grows by an anchor that keeps the rule.
LEMMA MinedChain ==
    ASSUME CorporaInv, Mine
    PROVE  /\ chain' \in Seq(Anchors)
           /\ Len(chain) \in Nat /\ Len(chain') = Len(chain) + 1
           /\ \A i \in 1 .. Len(chain) : chain'[i] = chain[i]
           /\ AnchorsFollowTheLog' /\ AnchorsGrow' /\ ShownManifestsAreCovered'
<1> DEFINE new == chain'[Len(chain) + 1]
<1>1. /\ log' = log /\ revoked' = revoked
      /\ call.at = "composed" /\ Accepts(chain, call.root, call.size, call.rev)
      /\ chain' = Extend(chain, call.root, call.size, call.rev, 0)
  BY DEF Mine
<1>2. /\ log \in Seq(Leaf) /\ Len(log) \in Nat
      /\ chain \in Seq(Anchors) /\ Len(chain) \in Nat
      /\ call \in Calls
  BY DEF CorporaInv, CorporaTypeOK
<1>3. /\ call.size \in Nat \ {0} /\ call.root \in Nat /\ call.rev \in SUBSET Key
      /\ call.size <= call.root /\ call.root <= Len(log) /\ call.rev \subseteq revoked
  BY <1>1, <1>2 DEF Calls, CorporaInv, CallFollowsTheStore
<1>4. \A i \in 1 .. Len(chain) :
          chain[i].root \in Nat /\ chain[i].size \in Nat \ {0}
  <2>1. \A i \in 1 .. Len(chain) : chain[i] \in Anchors
    BY <1>2
  <2> QED BY <2>1 DEF Anchors
<1> DEFINE prev == IF chain = <<>> THEN 0 ELSE LastAnchor(chain).root
           r == [root |-> call.root, prevRoot |-> prev, revocationRoot |-> call.rev,
                 size |-> call.size]
<1>5. chain' = Append(chain, r)
  BY <1>1 DEF Extend
<1>6. r \in Anchors
  <2>1. prev \in Nat
    BY <1>2, <1>4 DEF LastAnchor
  <2> QED BY <1>3, <2>1 DEF Anchors
<1>7. /\ chain' \in Seq(Anchors)
      /\ Len(chain') = Len(chain) + 1
      /\ \A i \in 1 .. Len(chain) : chain'[i] = chain[i]
      /\ new = r
  <2> HIDE DEF r
  <2> QED BY <1>2, <1>5, <1>6
<1>8. new.root = call.root /\ new.revocationRoot = call.rev /\ new.size = call.size
  BY <1>7
<1> HIDE DEF r, new
<1>9. \A i \in 1 .. Len(chain') : i = Len(chain) + 1 \/ i \in 1 .. Len(chain)
  BY <1>2, <1>7
<1>10. AnchorsFollowTheLog'
  <2>1. ASSUME NEW i \in 1 .. Len(chain')
        PROVE  /\ chain'[i].size <= chain'[i].root
               /\ chain'[i].root <= Len(log)
               /\ chain'[i].revocationRoot \subseteq revoked
    <3>1. CASE i = Len(chain) + 1
      BY <3>1, <1>3, <1>8 DEF new
    <3>2. CASE i \in 1 .. Len(chain)
      BY <3>2, <1>7 DEF CorporaInv, AnchorsFollowTheLog
    <3> QED BY <3>1, <3>2, <1>9
  <2> QED BY <1>1, <2>1 DEF AnchorsFollowTheLog
<1>11. chain # <<>> => LET last == chain[Len(chain)]
                       IN  last.size <= call.size /\ (last.size = call.size => last.root = call.root)
  BY <1>1, <1>2, <1>3, <1>4 DEF Accepts, SizeMustNotShrink, RootMustMatchAtSameSize, LastAnchor
<1>12. ASSUME NEW i \in 1 .. Len(chain)
       PROVE  /\ chain[i].size <= new.size
              /\ chain[i].root <= new.root
              /\ chain[i].size = new.size => chain[i].root = new.root
              /\ chain[i].revocationRoot \subseteq new.revocationRoot
  <2>1. chain # <<>> /\ Len(chain) \in 1 .. Len(chain) /\ i <= Len(chain)
    BY <1>2
  <2> DEFINE last == chain[Len(chain)]
  <2>2. last.size <= call.size /\ (last.size = call.size => last.root = call.root)
    BY <1>11, <2>1
  <2>3. /\ chain[i].size <= last.size
        /\ chain[i].size = last.size => chain[i].root = last.root
    BY <2>1 DEF CorporaInv, AnchorsGrow
  <2>4. chain[i].root <= call.root /\ chain[i].revocationRoot \subseteq call.rev
    BY <1>1 DEF CorporaInv, CallFollowsTheStore
  <2>5. /\ chain[i].size \in Nat /\ chain[i].root \in Nat
        /\ last.size \in Nat /\ last.root \in Nat
    BY <1>4, <2>1
  <2> HIDE DEF last
  <2> QED BY <1>3, <1>8, <2>2, <2>3, <2>4, <2>5
<1>13. AnchorsGrow'
  <2>1. ASSUME NEW i \in 1 .. Len(chain'), NEW j \in 1 .. Len(chain'), i <= j
        PROVE  /\ chain'[i].size <= chain'[j].size
               /\ chain'[i].root <= chain'[j].root
               /\ chain'[i].size = chain'[j].size => chain'[i].root = chain'[j].root
               /\ chain'[i].revocationRoot \subseteq chain'[j].revocationRoot
    <3>1. CASE j = Len(chain) + 1 /\ i = Len(chain) + 1
      <4>1. new.size \in Nat /\ new.root \in Nat
        BY <1>3, <1>8
      <4> QED BY <3>1, <4>1 DEF new
    <3>2. CASE j = Len(chain) + 1 /\ i \in 1 .. Len(chain)
      BY <3>2, <1>7, <1>12 DEF new
    <3>3. CASE j \in 1 .. Len(chain)
      <4>1. i \in 1 .. Len(chain)
        BY <2>1, <3>3, <1>2, <1>7
      <4> QED BY <2>1, <3>3, <4>1, <1>7 DEF CorporaInv, AnchorsGrow
    <3> QED BY <3>1, <3>2, <3>3, <1>9
  <2> QED BY <2>1 DEF AnchorsGrow
<1>14. ShownManifestsAreCovered'
  <2>1. ASSUME NEW j \in 1 .. Len(chain'), NEW i \in 1 .. j - 1, NEW p \in 1 .. Len(log),
               IsManifest(log[p]), log[p].members \cap chain'[i].revocationRoot # {}
        PROVE  p <= chain'[j].root
    <3>1. i \in 1 .. Len(chain) /\ chain'[i] = chain[i]
      BY <1>2, <1>7
    <3>2. CASE j = Len(chain) + 1
      <4>1. p <= call.root
        BY <2>1, <3>1, <1>1 DEF CorporaInv, CallFollowsTheStore
      <4> QED BY <4>1, <3>2, <1>8 DEF new
    <3>3. CASE j \in 1 .. Len(chain)
      BY <2>1, <3>1, <3>3, <1>7 DEF CorporaInv, ShownManifestsAreCovered
    <3> QED BY <3>2, <3>3, <1>9
  <2> QED BY <1>1, <2>1 DEF ShownManifestsAreCovered, IsManifest
<1> QED BY <1>2, <1>7, <1>10, <1>13, <1>14

\* The anchor is mined; its rows are still to be written.
LEMMA MineKeeps ==
    ASSUME CorporaInv, Mine
    PROVE  CorporaInv'
<1>1. /\ call' = [call EXCEPT !.at = "mined"]
      /\ UNCHANGED <<log, revoked, row, clock, chainRows, recorded, params, onChain, crashes>>
  BY DEF Mine, supplier
<1>2. call' \in Calls /\ call'.at = "mined"
  BY <1>1 DEF Calls, CorporaInv, CorporaTypeOK
<1>3. CorporaTypeOK'
  BY <1>1, <1>2, MinedChain DEF CorporaInv, CorporaTypeOK
<1>4. LogHasNoDoubles' /\ RowsFollowTheLog' /\ OneRowPerManifest'
  <2>1. log' = log /\ row' = row
    BY <1>1
  <2> QED BY <2>1 DEF CorporaInv, LogHasNoDoubles, RowsFollowTheLog, Logged, OneRowPerManifest
<1>5. SealsAreOfRows'
  BY <1>1, SealsStand
<1>6. \A r \in 1 .. Len(recorded) : recorded[r] \in 1 .. Len(chain)
  BY DEF CorporaInv, RecordsRise
<1>7. RecordsRise'
  <2>1. \A i \in chainRows : i \in Nat /\ i <= Len(chain)
    BY DEF CorporaInv, CorporaTypeOK, RecordsRise
  <2>2. \A i \in chainRows : i <= Len(chain')
    BY <2>1, MinedChain
  <2>3. \A r \in 1 .. Len(recorded) : recorded[r] \in 1 .. Len(chain')
    BY <1>6, MinedChain
  <2> QED BY <1>1, <2>2, <2>3 DEF CorporaInv, RecordsRise
<1>8. CallFollowsTheStore'
  <2>1. chain' # <<>>
    BY MinedChain
  <2>2. \A r \in 1 .. Len(recorded) : recorded[r] < Len(chain')
    BY <1>6, MinedChain
  <2> QED BY <1>1, <1>2, <2>1, <2>2 DEF CallFollowsTheStore
<1> QED BY <1>3, <1>4, <1>5, <1>7, <1>8, MinedChain DEF CorporaInv

\* The rows do not change what was said of the log, the chain and the seals.
LEMMA TablesKeep ==
    ASSUME CorporaInv, CorporaTypeOK', RecordsRise', CallFollowsTheStore',
           UNCHANGED <<log, revoked, row, chain, params, onChain>>
    PROVE  CorporaInv'
<1>1. log' = log /\ row' = row /\ chain' = chain /\ revoked' = revoked
  OBVIOUS
<1>2. LogHasNoDoubles' /\ RowsFollowTheLog' /\ OneRowPerManifest'
  BY <1>1 DEF CorporaInv, LogHasNoDoubles, RowsFollowTheLog, Logged, OneRowPerManifest
<1>3. AnchorsFollowTheLog' /\ AnchorsGrow' /\ ShownManifestsAreCovered'
  BY <1>1 DEF CorporaInv, AnchorsFollowTheLog, AnchorsGrow, ShownManifestsAreCovered, IsManifest
<1> QED BY <1>2, <1>3, SealsStand DEF CorporaInv

\* The row of anchor_chain is that of the last anchor.
LEMMA RecordChainKeeps ==
    ASSUME CorporaInv, RecordChain
    PROVE  CorporaInv'
<1>1. /\ call.at = "mined" /\ call' = [call EXCEPT !.at = "rowed"]
      /\ chainRows' = chainRows \cup {Len(chain)}
      /\ UNCHANGED <<log, revoked, row, clock, chain, recorded, params, onChain, crashes>>
  BY DEF RecordChain, supplier
<1>2. chain # <<>> /\ chain \in Seq(Anchors) /\ call \in Calls /\ chainRows \subseteq Nat \ {0}
  BY <1>1 DEF CorporaInv, CorporaTypeOK, CallFollowsTheStore
<1>3. Len(chain) \in Nat \ {0}
  BY <1>2
<1>4. call' \in Calls /\ call'.at = "rowed"
  BY <1>1, <1>2 DEF Calls
<1>5. CorporaTypeOK'
  BY <1>1, <1>2, <1>3, <1>4 DEF CorporaInv, CorporaTypeOK
<1>6. RecordsRise'
  BY <1>1, <1>3 DEF CorporaInv, RecordsRise
<1>7. CallFollowsTheStore'
  BY <1>1, <1>2, <1>4 DEF CorporaInv, CallFollowsTheStore
<1> QED BY <1>1, <1>5, <1>6, <1>7, TablesKeep

\* The row of anchor comes after all others.
LEMMA RecordKeeps ==
    ASSUME CorporaInv, Record
    PROVE  CorporaInv'
<1>1. /\ call.at = "rowed" /\ call' = NoCall
      /\ recorded' = Append(recorded, Len(chain))
      /\ UNCHANGED <<log, revoked, row, clock, chain, chainRows, params, onChain, crashes>>
  BY DEF Record, supplier
<1>2. /\ chain # <<>> /\ chain \in Seq(Anchors) /\ Len(chain) \in chainRows
      /\ recorded \in Seq(Nat \ {0}) /\ Len(recorded) \in Nat
  BY <1>1 DEF CorporaInv, CorporaTypeOK, CallFollowsTheStore
<1>3. Len(chain) \in Nat \ {0}
  BY <1>2
<1>4. /\ recorded' \in Seq(Nat \ {0})
      /\ Len(recorded') = Len(recorded) + 1
      /\ \A r \in 1 .. Len(recorded) : recorded'[r] = recorded[r]
      /\ recorded'[Len(recorded) + 1] = Len(chain)
  BY <1>1, <1>2, <1>3
<1>5. \A r \in 1 .. Len(recorded') : r = Len(recorded) + 1 \/ r \in 1 .. Len(recorded)
  BY <1>2, <1>4
<1>6. \A r \in 1 .. Len(recorded) :
          /\ recorded[r] \in 1 .. Len(chain) /\ recorded[r] \in chainRows
          /\ recorded[r] < Len(chain)
  BY <1>1 DEF CorporaInv, RecordsRise, CallFollowsTheStore
<1>7. \A r \in 1 .. Len(recorded') : recorded'[r] \in 1 .. Len(chain) /\ recorded'[r] \in chainRows
  <2>1. Len(chain) \in 1 .. Len(chain)
    BY <1>3
  <2> QED BY <2>1, <1>2, <1>4, <1>5, <1>6
<1>8. ASSUME NEW r \in 1 .. Len(recorded'), NEW s \in 1 .. Len(recorded'), r < s
      PROVE  recorded'[r] < recorded'[s]
  <2>1. r \in 1 .. Len(recorded)
    BY <1>8, <1>2, <1>4
  <2>2. CASE s = Len(recorded) + 1
    BY <2>1, <2>2, <1>4, <1>6
  <2>3. CASE s \in 1 .. Len(recorded)
    BY <1>8, <2>1, <2>3, <1>4 DEF CorporaInv, RecordsRise
  <2> QED BY <2>2, <2>3, <1>5
<1>9. RecordsRise'
  BY <1>1, <1>7, <1>8 DEF CorporaInv, RecordsRise
<1>10. call' \in Calls /\ call'.at = "idle"
  BY <1>1 DEF NoCall, Calls
<1>11. CorporaTypeOK'
  BY <1>1, <1>4, <1>10 DEF CorporaInv, CorporaTypeOK
<1>12. CallFollowsTheStore'
  BY <1>10 DEF CallFollowsTheStore
<1> QED BY <1>1, <1>9, <1>11, <1>12, TablesKeep

\* Parameters are served of a logged row and a recorded anchor.
LEMMA FetchParamsKeeps ==
    ASSUME CorporaInv, NEW c \in Corpus, FetchParams(c)
    PROVE  CorporaInv'
<1> DEFINE r == FirstCovering(row[c].leafIdx)
           q == [leaf |-> row[c].manifest, leafIdx |-> row[c].leafIdx,
                 size |-> Recorded(r).size, anchor |-> FirstWithHead(r)]
<1>1. /\ row[c].status = "logged" /\ r # 0
      /\ params' = [params EXCEPT ![c] = q]
      /\ UNCHANGED <<log, revoked, row, clock, chain, chainRows, recorded, call, onChain, crashes>>
  BY DEF FetchParams, anchorer
<1>2. row[c] \in Rows /\ params \in [Corpus -> Params]
  BY DEF CorporaInv, CorporaTypeOK
<1>3. row[c].manifest \in Leaf /\ row[c].leafIdx \in Nat
  BY <1>2 DEF Rows
<1>4. r \in 1 .. Len(recorded)
  BY <1>1, <1>3, FirstCoveringIs
<1> HIDE DEF r
<1>5. recorded[r] \in 1 .. Len(chain)
  BY <1>4 DEF CorporaInv, RecordsRise
<1>6. chain[recorded[r]] \in Anchors
  BY <1>5 DEF CorporaInv, CorporaTypeOK
<1>7. Recorded(r).size \in Nat
  BY <1>6 DEF Anchors, Recorded
<1>8. FirstWithHead(r) \in Nat
  BY <1>4, FirstWithHeadIs
<1>9. q \in Params
  BY <1>3, <1>7, <1>8 DEF Params
<1>10. q.leaf = row[c].manifest
  OBVIOUS
<1> HIDE DEF q
<1>11. /\ params' \in [Corpus -> Params]
       /\ params'[c] = q
       /\ \A d \in Corpus : d # c => params'[d] = params[d]
  BY <1>1, <1>2, <1>9
<1>12. CorporaTypeOK'
  BY <1>1, <1>11 DEF CorporaInv, CorporaTypeOK
<1>13. SealsAreOfRows'
  BY <1>1, <1>10, <1>11 DEF CorporaInv, SealsAreOfRows
<1> QED BY <1>1, <1>12, <1>13, RowsStand DEF CorporaInv

\* The registry takes the manifest that was fetched, or nothing.
LEMMA SendSealKeeps ==
    ASSUME CorporaInv, NEW c \in Corpus, SendSeal(c)
    PROVE  CorporaInv'
<1> DEFINE q == params[c]
           seal == [leaf |-> q.leaf, anchor |-> q.anchor]
<1>1. /\ q # NoParams
      /\ params' = [params EXCEPT ![c] = NoParams]
      /\ onChain' \in {onChain, Append(onChain, seal)}
      /\ UNCHANGED <<log, revoked, row, clock, chain, chainRows, recorded, call, crashes>>
  BY DEF SendSeal, anchorer
<1>2. params \in [Corpus -> Params] /\ onChain \in Seq([leaf: Leaf, anchor: Nat])
  BY DEF CorporaInv, CorporaTypeOK
<1>3. q \in Params
  BY <1>2
<1>4. seal \in [leaf: Leaf, anchor: Nat]
  BY <1>3 DEF Params
<1>5. row[c].status = "logged" /\ q.leaf = row[c].manifest
  BY <1>1 DEF CorporaInv, SealsAreOfRows
<1>6. seal.leaf = row[c].manifest
  BY <1>5
<1> HIDE DEF q, seal
<1>7. NoParams \in Params
  BY CorporaAssumption DEF NoParams, Params, Leaf
<1>8. /\ params' \in [Corpus -> Params]
      /\ \A d \in Corpus : params'[d] # NoParams => params'[d] = params[d]
  BY <1>1, <1>2, <1>7
<1>9. /\ onChain' \in Seq([leaf: Leaf, anchor: Nat])
      /\ \A i \in 1 .. Len(onChain') : onChain'[i] = seal
                                       \/ (i \in 1 .. Len(onChain) /\ onChain'[i] = onChain[i])
  <2>1. CASE onChain' = onChain
    BY <2>1, <1>2
  <2>2. CASE onChain' = Append(onChain, seal)
    <3>1. \A i \in 1 .. Len(onChain') : i = Len(onChain) + 1 \/ i \in 1 .. Len(onChain)
      BY <2>2, <1>2, <1>4
    <3> QED BY <2>2, <3>1, <1>2, <1>4
  <2> QED BY <2>1, <2>2, <1>1
<1>10. CorporaTypeOK'
  BY <1>1, <1>8, <1>9 DEF CorporaInv, CorporaTypeOK
<1>11. SealsAreOfRows'
  <2>1. \A d \in Corpus : params'[d] # NoParams =>
            row[d].status = "logged" /\ params'[d].leaf = row[d].manifest
    BY <1>8 DEF CorporaInv, SealsAreOfRows
  <2>2. ASSUME NEW i \in 1 .. Len(onChain')
        PROVE  \E d \in Corpus : row[d].status = "logged" /\ row[d].manifest = onChain'[i].leaf
    <3>1. CASE onChain'[i] = seal
      BY <3>1, <1>5, <1>6
    <3>2. CASE i \in 1 .. Len(onChain) /\ onChain'[i] = onChain[i]
      BY <3>2 DEF CorporaInv, SealsAreOfRows
    <3> QED BY <3>1, <3>2, <1>9
  <2> QED BY <1>1, <2>1, <2>2 DEF SealsAreOfRows
<1> QED BY <1>1, <1>10, <1>11, RowsStand DEF CorporaInv

\* Every step keeps the invariant.
LEMMA StepKeepsInv == CorporaInv /\ [Next]_vars => CorporaInv'
<1> SUFFICES ASSUME CorporaInv, [Next]_vars PROVE CorporaInv'
  OBVIOUS
<1>1. ASSUME NEW e \in Episode, AppendEpisode(e) PROVE CorporaInv'
  BY <1>1, AppendEpisodeKeeps
<1>2. ASSUME NEW k \in Key, Revoke(k) PROVE CorporaInv'
  BY <1>2, RevokeKeeps
<1>3. CASE Tick
  BY <1>3, TickKeeps
<1>4. CASE CreateDraft
  BY <1>4, CreateDraftKeeps
<1>5. ASSUME NEW c \in Corpus, LogCorpus(c) PROVE CorporaInv'
  BY <1>5, LogCorpusKeeps
<1>6. ASSUME NEW c \in Corpus, LogCorpusAndDie(c) PROVE CorporaInv'
  BY <1>6, LogCorpusAndDieKeeps
<1>7. ASSUME NEW c \in Corpus, FetchParams(c) PROVE CorporaInv'
  BY <1>7, FetchParamsKeeps
<1>8. ASSUME NEW c \in Corpus, SendSeal(c) PROVE CorporaInv'
  BY <1>8, SendSealKeeps
<1>9. CASE ReadSize
  BY <1>9, ReadSizeKeeps
<1>10. CASE ReadRoot
  BY <1>10, ReadRootKeeps
<1>11. CASE ReadRevocations
  BY <1>11, ReadRevocationsKeeps
<1>12. CASE Stop \/ Refused \/ Die
  BY <1>12, EndKeeps
<1>13. CASE Mine
  BY <1>13, MineKeeps
<1>14. CASE RecordChain
  BY <1>14, RecordChainKeeps
<1>15. CASE Record
  BY <1>15, RecordKeeps
<1>16. CASE UNCHANGED vars
  <2>1. UNCHANGED <<log, revoked, row, clock, chain, chainRows, recorded, call, params, onChain, crashes>>
    BY <1>16 DEF vars, anchorer, supplier
  <2>2. CorporaTypeOK'
    BY <2>1 DEF CorporaInv, CorporaTypeOK
  <2> QED BY <2>1, <2>2, RowsStand, SealsStand DEF CorporaInv
<1> QED BY <1>1, <1>2, <1>3, <1>4, <1>5, <1>6, <1>7, <1>8, <1>9, <1>10, <1>11, <1>12,
      <1>13, <1>14, <1>15, <1>16 DEF Next, AnchorHead

\* The inductive invariant holds throughout.
LEMMA Invariant == Spec => []CorporaInv
BY InitInv, StepKeepsInv, PTL DEF Spec

-----------------------------------------------------------------------------
(* The theorems *)

\* The tables, the chain, the scripts and the anchorer hold values of their
\* types throughout.
THEOREM CorporaTypeCorrect == Spec => []CorporaTypeOK
<1>1. CorporaInv => CorporaTypeOK
  BY DEF CorporaInv
<1> QED BY <1>1, Invariant, PTL

\* A leaf the API appends has no member that an anchor shows to be revoked.
LEMMA AppendsNothingShown ==
    ASSUME CorporaInv, NEW leaf, Appends(leaf), UNCHANGED <<revoked, anchorer>>,
           IsManifest(leaf) => leaf.members \cap revoked = {}
    PROVE  NoShownManifestIsLogged
<1>1. chain' = chain
  BY DEF anchorer
<1>2. \A p \in Len(log) + 1 .. Len(log') : log'[p] = leaf
  BY AppendedLog
<1>3. \A i \in 1 .. Len(chain) : IsManifest(leaf) => leaf.members \cap chain[i].revocationRoot = {}
  BY DEF CorporaInv, AnchorsFollowTheLog
<1> QED BY <1>1, <1>2, <1>3 DEF NoShownManifestIsLogged, IsManifest

\* What an anchor on chain shows to be revoked is in no manifest that is logged
\* any more, although a draft is checked long before it is logged; and every
\* manifest with it is under the root of the next anchor, although the API may
\* log one between the two reads the anchorer makes.
THEOREM NoManifestAfterOnsetHolds == Spec => NoManifestAfterOnset
<1>1. CorporaInv => ShownManifestsAreCovered
  BY DEF CorporaInv
<1>2. CorporaInv /\ [Next]_vars => [NoShownManifestIsLogged]_vars
  <2> SUFFICES ASSUME CorporaInv, Next PROVE NoShownManifestIsLogged
    OBVIOUS
  <2>1. ASSUME NEW e \in Episode, AppendEpisode(e) PROVE NoShownManifestIsLogged
    <3>1. Appends(EpisodeLeaf(e)) /\ UNCHANGED <<revoked, anchorer>>
      BY <2>1, CorporaAssumption DEF AppendEpisode, Appends, EpisodeLeaf, Leaf
    <3>2. ~IsManifest(EpisodeLeaf(e))
      BY DEF IsManifest, EpisodeLeaf
    <3> QED BY <3>1, <3>2, AppendsNothingShown
  <2>2. ASSUME NEW c \in Corpus, LogCorpus(c) \/ LogCorpusAndDie(c)
        PROVE  NoShownManifestIsLogged
    <3>1. MayLog(c) /\ log' = Append(log, Sealing(c)) /\ UNCHANGED <<revoked, anchorer>>
      BY <2>2 DEF LogCorpus, LogCorpusAndDie
    <3>2. Appends(Sealing(c)) /\ Sealing(c).members \cap revoked = {}
      BY <3>1, SealingIsNew
    <3> QED BY <3>1, <3>2, AppendsNothingShown
  <2>3. ASSUME log' = log PROVE NoShownManifestIsLogged
    <3>1. Len(log) \in Nat
      BY DEF CorporaInv, CorporaTypeOK
    <3>2. Len(log) + 1 .. Len(log') = {}
      BY <2>3, <3>1
    <3> QED BY <3>2 DEF NoShownManifestIsLogged
  <2>4. \/ \E e \in Episode : AppendEpisode(e)
        \/ \E c \in Corpus : LogCorpus(c) \/ LogCorpusAndDie(c)
        \/ log' = log
    BY DEF Next, AnchorHead, Revoke, Tick, CreateDraft, FetchParams, SendSeal, ReadSize, ReadRoot,
           ReadRevocations, ReadOnly, Stop, Mine, Refused, RecordChain, Record, Die
  <2> QED BY <2>1, <2>2, <2>3, <2>4
<1> QED BY <1>1, <1>2, Invariant, PTL DEF Spec, NoManifestAfterOnset

\* A corpus sealed on chain is found again, and as one row's only, whatever a
\* crash between the append and the row's update left in the log.
THEOREM SealedStaysFoundHolds == Spec => []SealedStaysFound
<1>1. CorporaInv => SealedStaysFound
  <2> SUFFICES ASSUME CorporaInv, NEW i \in 1 .. Len(onChain)
               PROVE  \E c \in Corpus :
                        /\ row[c].status = "logged" /\ row[c].manifest = onChain[i].leaf
                        /\ log[row[c].leafIdx + 1] = onChain[i].leaf
                        /\ \A d \in Corpus : row[d].manifest = onChain[i].leaf => d = c
    BY DEF SealedStaysFound
  <2>1. PICK c \in Corpus : row[c].status = "logged" /\ row[c].manifest = onChain[i].leaf
    BY DEF CorporaInv, SealsAreOfRows
  <2>2. log[row[c].leafIdx + 1] = onChain[i].leaf
    BY <2>1 DEF CorporaInv, RowsFollowTheLog
  <2>3. \A d \in Corpus : row[d].manifest = onChain[i].leaf => d = c
    BY <2>1 DEF CorporaInv, OneRowPerManifest
  <2> QED BY <2>1, <2>2, <2>3
<1> QED BY <1>1, Invariant, PTL

\* A recorded anchor is an anchor of the chain.
LEMMA RecordedIs ==
    ASSUME CorporaInv, NEW r \in 1 .. Len(recorded)
    PROVE  /\ r \in Nat /\ recorded[r] \in 1 .. Len(chain) /\ recorded[r] \in Nat
           /\ Recorded(r) = chain[recorded[r]]
           /\ Recorded(r).root \in Nat /\ Recorded(r).size \in Nat \ {0}
           /\ Recorded(r).size <= Recorded(r).root
           /\ Recorded(r).root <= Len(log)
           /\ Recorded(r).revocationRoot \subseteq revoked
<1>1. recorded[r] \in 1 .. Len(chain)
  BY DEF CorporaInv, RecordsRise
<1>2. chain[recorded[r]] \in Anchors
  BY <1>1 DEF CorporaInv, CorporaTypeOK
<1>3. Recorded(r).root \in Nat /\ Recorded(r).size \in Nat \ {0}
  BY <1>2 DEF Recorded, Anchors
<1> QED BY <1>1, <1>3 DEF Recorded, CorporaInv, AnchorsFollowTheLog

\* Later rows are of later anchors, which cover more.
LEMMA RecordedRise ==
    ASSUME CorporaInv, NEW r \in 1 .. Len(recorded), NEW s \in 1 .. Len(recorded), r <= s
    PROVE  /\ recorded[r] <= recorded[s]
           /\ Recorded(r).size <= Recorded(s).size
           /\ Recorded(r).root <= Recorded(s).root
           /\ Recorded(r).size = Recorded(s).size => Recorded(r).root = Recorded(s).root
           /\ Recorded(r).revocationRoot \subseteq Recorded(s).revocationRoot
<1>1. recorded[r] <= recorded[s]
  <2>1. r = s \/ r < s
    OBVIOUS
  <2>2. r < s => recorded[r] < recorded[s]
    BY DEF CorporaInv, RecordsRise
  <2>3. recorded[r] \in Nat /\ recorded[s] \in Nat
    BY RecordedIs
  <2> QED BY <2>1, <2>2, <2>3
<1>2. recorded[r] \in 1 .. Len(chain) /\ recorded[s] \in 1 .. Len(chain)
  BY RecordedIs
<1> QED BY <1>1, <1>2 DEF CorporaInv, AnchorsGrow, Recorded

\* What the consent route answers stands against the chain, whichever anchors
\* have no row and of whatever moments their triples were composed.  The row of
\* the true onset differs from the row before it, which may be of a much older
\* anchor, because revocations only grow; and the named onset includes it
\* because the first row that covers as much is an earlier anchor of the same
\* size, and so of the same root.
THEOREM ConsentAnswersAlwaysHold == Spec => []ConsentAnswersHold
<1>1. CorporaInv => ConsentAnswersHold
  <2> SUFFICES ASSUME CorporaInv, NEW k \in Key, NEW r \in 1 .. Len(recorded)
               PROVE  LET answer == ConsentAnswer(k, r)
                      IN  /\ answer.status = "live" => \A i \in 1 .. Len(chain) : ConsentLive(chain, i, k)
                          /\ answer.tree = Recorded(r).revocationRoot =>
                                (answer.status = "live") = ConsentLive(chain, recorded[r], k)
                          /\ Onset(chain, recorded[r], k) => recorded[r] \in answer.onset
                          /\ \A c \in Corpus : ~ContainsRevoked(c) /\ k \in row[c].manifest.members =>
                                \A i \in 1 .. Len(chain) : ConsentLive(chain, i, k)
    BY Zenon DEF ConsentAnswersHold
  <2> DEFINE answer == ConsentAnswer(k, r)
             changes == ChangesFrom(Recorded(r).size)
  <2>1. /\ answer.status = "live" <=> k \notin revoked
        /\ answer.tree = revoked
    BY DEF ConsentAnswer
  <2>2. k \notin revoked => \A i \in 1 .. Len(chain) : ConsentLive(chain, i, k)
    BY DEF CorporaInv, AnchorsFollowTheLog, ConsentLive
  <2>3. revoked = Recorded(r).revocationRoot =>
            (k \notin revoked <=> ConsentLive(chain, recorded[r], k))
    BY DEF ConsentLive, Recorded
  <2>4. \A c \in Corpus : ~ContainsRevoked(c) /\ k \in row[c].manifest.members => k \notin revoked
    BY DEF ContainsRevoked
  <2>5. ASSUME Onset(chain, recorded[r], k) PROVE recorded[r] \in answer.onset
    <3>1. k \in Recorded(r).revocationRoot /\ k \in revoked
      BY <2>5, RecordedIs DEF Onset, Recorded
    <3>2. Changed(r)
      <4>1. ASSUME r # 1 PROVE k \notin Recorded(r - 1).revocationRoot
        <5>1. r - 1 \in 1 .. Len(recorded) /\ r - 1 < r
          BY <4>1, RecordedIs
        <5>2. recorded[r - 1] < recorded[r]
          BY <5>1 DEF CorporaInv, RecordsRise
        <5>3. /\ recorded[r - 1] \in 1 .. Len(chain) /\ recorded[r] \in 1 .. Len(chain)
              /\ recorded[r - 1] <= recorded[r] - 1
          BY <5>1, <5>2, RecordedIs
        <5>4. recorded[r] - 1 \in 1 .. Len(chain) /\ recorded[r] > 1
          BY <5>3
        <5>5. k \notin chain[recorded[r] - 1].revocationRoot
          BY <2>5, <5>4 DEF Onset
        <5>6. chain[recorded[r - 1]].revocationRoot \subseteq chain[recorded[r] - 1].revocationRoot
          BY <5>3, <5>4 DEF CorporaInv, AnchorsGrow
        <5> QED BY <5>5, <5>6 DEF Recorded
      <4> QED BY <3>1, <4>1 DEF Changed
    <3>3. r \in changes /\ changes \in SUBSET Nat
      BY <3>2, RecordedIs DEF ChangesFrom
    <3>4. \E s \in changes : \A t \in changes : s <= t
      BY <3>3, LeastNumber
    <3> DEFINE a == CHOOSE s \in changes : \A t \in changes : s <= t
    <3>5. a \in changes /\ a <= r
      BY <3>3, <3>4
    <3>6. answer.onset = RowsWithHead(a)
      BY <3>1, <3>3 DEF ConsentAnswer
    <3> HIDE DEF a
    <3>7. a \in 1 .. Len(recorded) /\ Recorded(a).size >= Recorded(r).size
      BY <3>5 DEF ChangesFrom
    <3>8. Recorded(a).size = Recorded(r).size /\ Recorded(a).root = Recorded(r).root
      BY <3>5, <3>7, RecordedIs, RecordedRise
    <3>9. recorded[r] \in RowsWithHead(a)
      BY <3>8 DEF RowsWithHead, Recorded, CorporaInv, RecordsRise
    <3> QED BY <3>6, <3>9
  <2>6. answer.status = "live" \/ answer.status = "revoked"
    BY DEF ConsentAnswer
  <2> HIDE DEF answer
  <2>7. answer.tree = Recorded(r).revocationRoot =>
            (answer.status = "live") = ConsentLive(chain, recorded[r], k)
    BY <2>1, <2>3 DEF ConsentLive
  <2> QED BY <2>1, <2>2, <2>4, <2>5, <2>7 DEF answer
<1> QED BY <1>1, Invariant, PTL

\* A report that is answered survives the buyer's checks against the chain.
\* The onset it names is no later than any recorded anchor that shows one of
\* its revocations: the first row that shows any revocation is a change.
THEOREM ReportsAlwaysHold == Spec => []ReportsHold
<1>1. CorporaInv => ReportsHold
  <2> SUFFICES ASSUME CorporaInv, NEW c \in Corpus, ReportIsBuilt(c)
               PROVE  LET report == Report(c)
                          anchor == chain[report.anchor]
                      IN  /\ \A e \in report.members :
                                \E p \in 1 .. anchor.root : log[p] = EpisodeLeaf(e)
                          /\ row[c].status = "logged" =>
                                /\ row[c].leafIdx < chain[report.sealing].root
                                /\ chain[report.sealing].root <= anchor.root
                          /\ report.revoked = report.members \cap anchor.revocationRoot
                          /\ \A r \in 1 .. Len(recorded) :
                                report.members \cap Recorded(r).revocationRoot # {} =>
                                    report.onset \in 1 .. recorded[r]
    BY Zenon DEF ReportsHold
  <2> DEFINE n == Len(recorded)
             last == Recorded(n)
             members == row[c].manifest.members
             sealing == FirstCovering(row[c].leafIdx)
             first == FirstRevocationChange
  <2>1. n \in 1 .. Len(recorded)
    BY DEF ReportIsBuilt, CorporaInv, CorporaTypeOK
  <2>2. last = chain[recorded[n]]
    BY DEF Recorded
  <2>3. ASSUME NEW e \in members PROVE \E p \in 1 .. last.root : log[p] = EpisodeLeaf(e)
    <3>1. EpisodeLeaf(e) \in Logged
      BY DEF CorporaInv, RowsFollowTheLog
    <3> DEFINE p == CHOOSE q \in 1 .. Len(log) : log[q] = EpisodeLeaf(e)
    <3>2. p \in 1 .. Len(log) /\ log[p] = EpisodeLeaf(e)
      BY <3>1 DEF Logged
    <3>3. last.root = last.size /\ p - 1 < last.size
      BY <2>3 DEF ReportIsBuilt, ProofFolds, IndexOf
    <3> HIDE DEF p
    <3>4. p \in 1 .. last.root
      BY <3>2, <3>3, <2>1, RecordedIs
    <3> QED BY <3>2, <3>4
  <2>4. ASSUME row[c].status = "logged"
        PROVE  /\ row[c].leafIdx < chain[recorded[sealing]].root
               /\ chain[recorded[sealing]].root <= last.root
    <3>1. row[c] \in Rows
      BY DEF CorporaInv, CorporaTypeOK
    <3>2. row[c].leafIdx \in Nat
      BY <3>1 DEF Rows
    <3>3. sealing \in 1 .. Len(recorded) /\ Recorded(sealing).size > row[c].leafIdx
      BY <2>4, <3>2, FirstCoveringIs DEF ReportIsBuilt
    <3> HIDE DEF sealing
    <3>4. Recorded(sealing).root > row[c].leafIdx
      BY <3>2, <3>3, RecordedIs
    <3>5. Recorded(sealing).root <= last.root
      BY <2>1, <3>3, RecordedRise
    <3> QED BY <3>4, <3>5 DEF Recorded
  <2>5. revoked = last.revocationRoot
    <3>1. last.revocationRoot \subseteq revoked
      BY <2>1, RecordedIs
    <3>2. revoked # {} => revoked = last.revocationRoot
      BY DEF ReportIsBuilt, SameRevocations
    <3> QED BY <3>1, <3>2
  <2>6. ASSUME NEW r \in 1 .. Len(recorded), members \cap Recorded(r).revocationRoot # {}
        PROVE  first # 0 /\ FirstWithHead(first) \in 1 .. recorded[r]
    <3> DEFINE shows == {s \in 1 .. Len(recorded) : Recorded(s).revocationRoot # {}}
               before(s) == IF s = 1 THEN {} ELSE Recorded(s - 1).revocationRoot
               changes == {s \in 1 .. Len(recorded) : Recorded(s).revocationRoot # before(s)}
    <3>1. r \in shows /\ shows \in SUBSET Nat /\ changes \in SUBSET Nat
      BY <2>6
    <3>2. PICK s \in shows : \A t \in shows : s <= t
      BY <3>1, LeastNumber
    <3>3. s \in changes /\ s <= r
      <4>1. s \in 1 .. Len(recorded) /\ Recorded(s).revocationRoot # {} /\ s <= r
        BY <3>1, <3>2
      <4>2. s # 1 => s - 1 \in 1 .. Len(recorded) /\ ~ (s <= s - 1)
        BY <4>1
      <4>3. s # 1 => s - 1 \notin shows
        BY <3>2, <4>2
      <4>4. before(s) = {}
        BY <4>2, <4>3
      <4> QED BY <4>1, <4>4
    <3>4. \E t \in changes : \A u \in changes : t <= u
      BY <3>1, <3>3, LeastNumber
    <3>5. first = IF changes = {} THEN 0 ELSE CHOOSE t \in changes : \A u \in changes : t <= u
      BY DEF FirstRevocationChange
    <3>6. first \in changes /\ first <= s
      BY <3>3, <3>4, <3>5
    <3>7. first \in 1 .. Len(recorded)
      BY <3>6
    <3> HIDE DEF first, changes, shows
    <3>8. first # 0 /\ first <= r
      BY <3>3, <3>6, <3>7, RecordedIs
    <3>9. FirstWithHead(first) \in 1 .. recorded[first]
      BY <3>7, FirstWithHeadIs
    <3>10. recorded[first] <= recorded[r]
      BY <3>7, <3>8, RecordedRise
    <3> QED BY <3>7, <3>8, <3>9, <3>10, RecordedIs
  <2>7. /\ Report(c).anchor = recorded[n]
        /\ Report(c).members = members
        /\ Report(c).revoked = members \cap revoked
        /\ row[c].status = "logged" => Report(c).sealing = recorded[sealing]
        /\ first # 0 => Report(c).onset = FirstWithHead(first)
    BY DEF Report
  <2> HIDE DEF n, last, members, sealing, first
  <2> QED BY <2>2, <2>3, <2>4, <2>5, <2>6, <2>7
<1> QED BY <1>1, Invariant, PTL
=============================================================================
