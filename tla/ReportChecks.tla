---------------------------- MODULE ReportChecks ----------------------------
(***************************************************************************)
(* The verifiers of a whole report: verifyReport of                        *)
(* packages/protocol/src/report-verify.ts and of apps/web/verify.js, and   *)
(* scripts/verify-report.mjs, which has the delivered files as well, for a *)
(* report about one episode (the code takes the conjunction over several). *)
(*                                                                         *)
(* A report's hashes of JSON values (its own hash, a claim's detail, the   *)
(* manifest) are facts of the report: they match or they do not.           *)
(***************************************************************************)
EXTENDS BuyerChecks, Manifests

CONSTANTS
    Corpus,     \* the log indexes of the corpus's members
    Files,      \* the file entries of its manifest, in their order
    LocalName   \* path -> the name its file is saved under, / replaced by _

\* A corpus is made of leaves of the log; payloadHash() accepts a manifest's files.
ASSUME CorpusAssumption ==
    /\ Corpus \in Seq(0 .. Len(Log) - 1)
    /\ Files \in Seq({Files[k] : k \in DOMAIN Files})
    /\ PayloadHash(Files) # None

CorpusLeaves == [k \in DOMAIN Corpus |-> Log[Corpus[k] + 1]]
CorpusRoot   == RootOf(CorpusLeaves)
CorpusProof  == [at \in 0 .. Len(Corpus) - 1 |-> InclusionProof(CorpusLeaves, at)]

\* computeRoot of sparse.ts and merkle.js; the empty set when it throws.
SparseFold(key, value, bitmap, siblings) ==
    LET up[level \in 0 .. Depth] ==
          IF level = 0 THEN [ok |-> TRUE, node |-> value, used |-> 0]
          ELSE LET below == up[level - 1]
                   taken == level - 1 \in bitmap
                   word  == IF taken THEN siblings[below.used + 1] ELSE Zero
               IN  IF ~below.ok \/ (taken /\ below.used >= Len(siblings))
                   THEN [below EXCEPT !.ok = FALSE]
                   ELSE [ok |-> TRUE, used |-> IF taken THEN below.used + 1 ELSE below.used,
                         node |-> IF Bit(key, level - 1) = 1 THEN SparseHashNode(word, below.node)
                                  ELSE SparseHashNode(below.node, word)]
        top == up[Depth]
    IN  IF top.ok /\ top.used = Len(siblings) THEN {top.node} ELSE {}

\* scripts/download.mjs saves one file after the other.
Saved(files) ==
    [name \in {LocalName[files[k].path] : k \in DOMAIN files} |->
        files[CHOOSE k \in DOMAIN files : LocalName[files[k].path] = name
                /\ \A l \in DOMAIN files : LocalName[files[l].path] = name => l <= k].hash]

-----------------------------------------------------------------------------
(* The report that the builder makes, and what may be wrong with one       *)

\* A claim that is as it was hashed; the builder adds no proof that it is in the
\* log. Proved says that of Log[at + 1].
Stated == [leaf |-> TRUE, thresholds |-> TRUE, detail |-> TRUE, proof |-> {}]
Proved(at, proof) == [Stated EXCEPT !.proof = {[leaf |-> Log[at + 1], index |-> at, proof |-> proof]}]

\* For an anchor of this size and these revocations, a seal of that size, the
\* member at this index of the corpus.
Genuine(size, sealed, at, key, revoked) ==
    [anchor  |-> [size |-> size, root |-> LogRoot[size], revocations |-> ConsentRoot[revoked]],
     seal    |-> {[size |-> sealed, root |-> LogRoot[sealed]]},
     consistency |-> Consistency[size][sealed],
     leaf    |-> CorpusLeaves[at + 1], index |-> Corpus[at + 1],
     preimage |-> TRUE, manifest |-> "none",
     inLog   |-> Inclusion[size][Corpus[at + 1]],
     corpusIndex |-> at, inCorpus |-> CorpusProof[at],
     consent |-> [key |-> key, status |-> IF key \in revoked THEN "revoked" ELSE "live",
                  value |-> {},
                  bitmap |-> ConsentProof[revoked][key].bitmap,
                  siblings |-> ConsentProof[revoked][key].siblings],
     claims |-> {Stated},
     hash |-> TRUE, files |-> Files, payload |-> PayloadHash(Files),
     delivered |-> Saved(Files), known |-> "found"]

Claim == [leaf : BOOLEAN, thresholds : BOOLEAN, detail : BOOLEAN, proof : {{}}]

\* What the script has besides the report: files that are missing or altered,
\* another listing, another chain.
Undelivered(report) ==
    UNION {{report},
           {[report EXCEPT !.files = list] : list \in {<<>>, Backwards(Files), Tail(Files)}},
           {[report EXCEPT !.payload = PayloadHash(Tail(Files))]},
           {[report EXCEPT !.delivered = Saved(list)] : list \in {<<>>, Tail(Files)}},
           {[report EXCEPT !.delivered[name] = "altered"] : name \in DOMAIN report.delivered},
           {[report EXCEPT !.known = k] : k \in {"unknown", "skipped"}}}

\* One part of the report is not what its anchor calls for.
Damaged(report, key) ==
    UNION {Undelivered(report),
           {[report EXCEPT !.inLog = w] : w \in Deliveries(report.inLog)},
           {[report EXCEPT !.inLog = Inclusion[size][report.index]] :
                size \in {s \in Size : s > report.index}},
           {[report EXCEPT !.anchor.root = LogRoot[size]] : size \in Size},
           {[report EXCEPT !.inCorpus = CorpusProof[at]] : at \in DOMAIN CorpusProof},
           {[report EXCEPT !.corpusIndex = at] : at \in DOMAIN CorpusProof},
           {[report EXCEPT !.seal = {}]},
           {[report EXCEPT !.seal = {[size |-> size, root |-> LogRoot[of]]}] : size, of \in Size},
           {[report EXCEPT !.consistency = w] : w \in Deliveries(report.consistency) \cup {report.inLog}},
           {[report EXCEPT !.consent.status = st, !.consent.value = v] :
                st \in {"live", "revoked"}, v \in {{}, {Revocation[key]}}},
           {[report EXCEPT !.consent.bitmap = ConsentProof[now][key].bitmap,
                           !.consent.siblings = ConsentProof[now][key].siblings] : now \in SUBSET Key},
           {[report EXCEPT !.claims = c] : c \in {{}} \cup {{claim} : claim \in Claim}},
           {[report EXCEPT !.claims = {Proved(report.index, w)}] : w \in Deliveries(report.inLog)},
           {[report EXCEPT !.preimage = FALSE], [report EXCEPT !.hash = FALSE]},
           {[report EXCEPT !.manifest = m] : m \in {"matches", "differs", "badly signed", "other alg"}}}

-----------------------------------------------------------------------------
(* verifyReport, its steps                                                 *)

InLogStep(r)    == IncludedIn(r.leaf, r.index, r.anchor.size, r.inLog, r.anchor.root)
InCorpusStep(r) == IncludedIn(r.leaf, r.corpusIndex, Len(Corpus), r.inCorpus, CorpusRoot)

\* A slip used as a mutant: for two anchors of one size the proof is not looked at.
ConsistencyStepUnlessSameSize(r) ==
    \E seal \in r.seal :
        IF seal.size = r.anchor.size THEN seal.root = r.anchor.root
        ELSE seal.size >= 1 /\ ConsistentWith(seal.size, r.anchor.size, r.consistency, seal.root, r.anchor.root)
ConsistencyStep(r) ==
    \E seal \in r.seal :
        IF seal.size = r.anchor.size THEN seal.root = r.anchor.root /\ r.consistency = <<>>
        ELSE seal.size >= 1 /\ ConsistentWith(seal.size, r.anchor.size, r.consistency, seal.root, r.anchor.root)

\* A revocation that comes without its value cannot be folded: it is shown as
\* claimed, and the report passes.
ConsentStep(r) ==
    LET c == r.consent
        folds(value) == r.anchor.revocations \in SparseFold(c.key, value, c.bitmap, c.siblings) IN
    IF c.status = "live" THEN folds(Zero) ELSE \A value \in c.value : folds(value)

ClaimsStep(r) == \A c \in r.claims : c.leaf /\ c.thresholds /\ c.detail

VerifyReport(r) ==
    InLogStep(r) /\ ConsentStep(r) /\ ClaimsStep(r) /\ InCorpusStep(r) /\ ConsistencyStep(r) /\ r.hash

\* The page's steps: it hashes the preimage, checks an embedded manifest and an
\* ed25519 signature over it, and folds the proof of a claim that has one.
PageManifestStep(r) == r.manifest \notin {"differs", "badly signed"}
PageInLogStep(r)    == r.preimage /\ InLogStep(r)
PageClaimsStep(r)   ==
    /\ ClaimsStep(r)
    /\ \A c \in r.claims : \A w \in c.proof :
           IncludedIn(w.leaf, w.index, r.anchor.size, w.proof, r.anchor.root)

PageVerifiesReport(r) ==
    /\ PageManifestStep(r) /\ PageInLogStep(r) /\ ConsentStep(r) /\ PageClaimsStep(r)
    /\ InCorpusStep(r) /\ ConsistencyStep(r) /\ r.hash

\* verify-report.mjs, checkFiles: a report that lists no files has none to check
CheckFiles(r) ==
    r.files # <<>> =>
        /\ \A k \in DOMAIN r.files :
              LET name == LocalName[r.files[k].path] IN
              name \in DOMAIN r.delivered /\ r.delivered[name] = r.files[k].hash
        /\ PayloadHash(r.files) = r.payload

\* checkChain: a chain that is not configured or does not answer is passed over
CheckChain(r) == r.known # "unknown"

ScriptVerifiesReport(r) == CheckFiles(r) /\ PageVerifiesReport(r) /\ CheckChain(r)

-----------------------------------------------------------------------------
AskReport ==
    /\ pc = "idle"
    /\ \E size, sealed \in Size, at \in DOMAIN CorpusProof, key \in Key, revoked \in SUBSET Key :
           /\ \A k \in DOMAIN Corpus : Corpus[k] < sealed
           /\ sealed <= size
           /\ \E report \in Damaged(Genuine(size, sealed, at, key, revoked), key) :
                  \E by \in {"library", "page", "script"} :
                      Call("report", [report |-> report, by |-> by,
                                      size |-> size, revoked |-> revoked])
    /\ UNCHANGED loop

AnswerReport ==
    /\ pc = "report"
    /\ Accept(CASE asked.by = "library" -> VerifyReport(asked.report)
                [] asked.by = "page" -> PageVerifiesReport(asked.report)
                [] asked.by = "script" -> ScriptVerifiesReport(asked.report))

\* A report passes exactly when every part is the one its anchor calls for:
\* the leaf under the anchor's root, the same leaf in the corpus, the anchor an
\* extension of the seal, consent withdrawn or not as the anchor's revocations
\* say, claims that carry what was hashed. Only a revocation without its value
\* is taken on trust; only page and script want the preimage of the leaf and a
\* manifest, where there is one, to match as well; the script also wants every
\* listed file as it was hashed and the listing, in any order, to be the payload's,
\* and a chain that answers to know the anchor. That the payload is the one in the
\* leaf nobody looks at (report-verify.ts:252-288, verify.js:304-317,
\* verify-report.mjs:57-117).
ReportsPassWhenTrue ==
    Answered("report") =>
        LET r == asked.report
            key == r.consent.key IN
        verdict = "true" <=>
            /\ r.anchor.root = LogRoot[asked.size]
            /\ r.inLog = Inclusion[asked.size][r.index]
            /\ r.inCorpus = CorpusProof[r.corpusIndex] /\ r.leaf = CorpusLeaves[r.corpusIndex + 1]
            /\ \E seal \in r.seal :
                /\ seal.size <= asked.size /\ seal.root = LogRoot[seal.size]
                /\ r.consistency = Consistency[asked.size][seal.size]
            /\ \/ r.consent.status = "revoked" /\ r.consent.value = {}
               \/ /\ (r.consent.status = "revoked") <=> key \in asked.revoked
                  /\ [bitmap |-> r.consent.bitmap, siblings |-> r.consent.siblings]
                       = ConsentProof[asked.revoked][key]
            /\ \A c \in r.claims :
                /\ [c EXCEPT !.proof = {}] = Stated
                /\ asked.by # "library" => \A w \in c.proof : w.proof = Inclusion[asked.size][w.index]
            /\ r.hash
            /\ asked.by # "library" => r.preimage /\ r.manifest \notin {"differs", "badly signed"}
            /\ asked.by = "script" =>
                 /\ r.known # "unknown"
                 /\ r.files # <<>> =>
                      /\ \A f \in ToSet(r.files) : LocalName[f.path] \in DOMAIN r.delivered
                                                  /\ r.delivered[LocalName[f.path]] = f.hash
                      /\ \E listed \in {Files, Tail(Files)} :
                            r.payload = PayloadHash(listed) /\ ToSet(r.files) = ToSet(listed)
=============================================================================
