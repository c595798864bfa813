-------------------------------- MODULE Rules --------------------------------
(***************************************************************************)
(* The rules that keep no state of their own, asked one question at a      *)
(* time: the verifiers of BuyerChecks step by step, and in one step each   *)
(* those of ReportChecks, what the API serves and a report made of it, the *)
(* checks of a recording, the readers of a leaf, the badges, downloads and *)
(* what Records asks; beside them the rows of KeyRegistry are administered.*)
(* The questions are enumerated from small sets; the answers are compared  *)
(* with what the rule promises, not with the rule.                         *)
(***************************************************************************)
EXTENDS Records, Assembly, Checks, Leaves, Badges, KeyRegistry, Downloads, SequencesExt, FiniteSetsExt

CONSTANTS
    Gaps, Frames,      \* ticks between frames; how many frames a recording may have
    Positions, Speeds, \* of one joint, in a recording and in one with video
    Motions,           \* samples of a video's motion
    Earlier,           \* sequences of recordings that dedup has seen
    Robots,            \* robot -> [limits, maxVel] or None
    Hashes, Numbers,   \* hashes of a leaf's fields; numbers for each version's others
    Claims, Episodes,  \* claims about an episode; what else is known of it
    Wallets, Minutes,  \* addresses; minutes that a header may name
    ThisMinute, ThisSecond, \* when a download is asked for
    Anchored,          \* sequences of heads that were anchored
    Tables             \* sequences of heads with what was revoked by then

\* The clock has left the first minutes of its epoch behind.
ASSUME ClockAssumption ==
    /\ Minutes \subseteq Int
    /\ ThisMinute \in Nat /\ ThisMinute >= WindowMinutes
    /\ ThisSecond \in Nat

\* What one anchorer sent and GraspLog accepted: sizes never shrank, and another
\* size had another root.
ASSUME AnchoredAssumption ==
    \A heads \in Anchored :
        /\ heads \in Seq(SentHead)
        /\ \A k, l \in DOMAIN heads :
               /\ k <= l => heads[k].size <= heads[l].size
               /\ heads[k].size = heads[l].size <=> heads[k].of = heads[l].of

\* The rows of a table of anchors name heads that were sent and sets of revocations.
ASSUME TablesAssumption ==
    \A table \in Tables : table \in Seq([size : Size, of : Size, revoked : SUBSET Key])

\* Claims have times; episodes a source that can be declared.
ASSUME ClaimsAssumption ==
    /\ \A claim \in Claims : claim.issuedAt \in Nat
    /\ \A e \in Episodes : {"source", "claims"} \subseteq DOMAIN e /\ e.source \in DOMAIN SourceText

Clocks(frames) ==
    {[k \in 1 .. frames |-> Total(SubSeq(gaps, 1, k - 1))] : gaps \in [1 .. frames - 1 -> Gaps]}
Rows(frames, positions) == [1 .. frames -> {<<x>> : x \in positions}]
Recordings(robots) ==
    UNION {[ts : Clocks(f), state : Rows(f, Positions), robot : robots] : f \in Frames}

-----------------------------------------------------------------------------
(* Recordings                                                              *)

AskTiming ==
    /\ pc = "idle"
    /\ \E frames \in 0 .. 5, period \in {0, 4}, duration \in {4, 16} :
           \E ts \in {[k \in 1 .. frames |-> Total(SubSeq(gaps, 1, k - 1))] :
                         gaps \in [1 .. frames - 1 -> {0, 3, 4, 6, 21}]} :
               Ask("timing", [clock |-> ts, period |-> period, duration |-> duration])

AnswerTiming ==
    /\ pc = "timing"
    /\ Answer(Timing(asked.clock, asked.period, asked.duration))

AskKinematics ==
    /\ pc = "idle"
    /\ \E robot \in DOMAIN Robots, rate \in 0 .. 2, frames \in Frames :
           \E state \in Rows(frames, Positions), action \in {<<>>} \cup Rows(3, Positions) :
               Ask("kinematics", [moved |-> state, action |-> action, robot |-> robot, rate |-> rate])

AnswerKinematics ==
    /\ pc = "kinematics"
    /\ Answer(Kinematics(asked.moved, asked.action, Robots[asked.robot], asked.rate))

\* The two checks that look at the video's motion.
AskMotion ==
    /\ pc = "idle"
    /\ \E state \in Rows(4, Speeds), gap \in {2, 4}, motion \in {None} \cup Motions,
          smooth \in BOOLEAN \cup {None}, source \in {"sim", "mixed"} :
           Ask("motion", [motion |-> motion, state |-> state, smooth |-> smooth, source |-> source,
                          ts |-> [k \in 1 .. 4 |-> IF k = 4 THEN 4 + gap ELSE 2 * (k - 1)]])

Judged(ts, state, motion, q) ==
    [sensor |-> Sensor(ts, state, motion, 1),
     sim    |-> SimSignature(ts, state, motion, q.smooth, q.source)]
AnswerMotion ==
    /\ pc = "motion"
    /\ Answer(Judged(asked.ts, asked.state, asked.motion, asked))

\* The recordings that were checked before, in their order, then this one.
LimitsOf(robot) == IF Robots[robot] = None THEN None ELSE Robots[robot].limits
DedupOf(r, leaf, index) == Dedup(r.state, r.ts, r.robot, LimitsOf(r.robot), leaf, index, FALSE)
IndexAfter(seen) ==
    LET after[k \in 0 .. Len(seen)] ==
          IF k = 0 THEN <<>> ELSE DedupOf(seen[k], k, after[k - 1]).index
    IN  after[Len(seen)]

AskDedup ==
    /\ pc = "idle"
    /\ \E r \in Recordings(DOMAIN Robots), seen \in Earlier :
           Ask("dedup", [seen |-> seen, recording |-> r])

AnswerDedup ==
    /\ pc = "dedup"
    /\ Answer(DedupOf(asked.recording, Len(asked.seen) + 1, IndexAfter(asked.seen)))

-----------------------------------------------------------------------------
(* Leaves and badges                                                       *)

Names(version, hashes) ==
    LET fields == TsFields[version] IN
    SelectSeq([k \in DOMAIN fields |-> fields[k].name],
              LAMBDA name : hashes <=> \E k \in DOMAIN fields : fields[k] = Field(name, Hash32))
LeafOf(version, numbers) ==
    [name \in {TsFields[version][k].name : k \in DOMAIN TsFields[version]} |->
        IF name \in DOMAIN numbers THEN numbers[name]
        ELSE LET k == CHOOSE k \in DOMAIN Names(version, TRUE) : Names(version, TRUE)[k] = name
             IN  Hashes[k]]

AskLeaf ==
    /\ pc = "idle"
    /\ \E version \in 1 .. 4, as \in {"whole", "cut", "extended", "misnamed"} :
           \E numbers \in [Range(Names(version, FALSE)) -> Numbers[version]] :
               LET leaf == LeafOf(version, numbers) IN
               /\ Encodes(TsFields[version], leaf)
               /\ Ask("leaf", [version |-> version, preimage |-> leaf, as |-> as])

\* The bytes that reach a reader.
Raw(q) ==
    LET raw == Packed(q.version, SolFields[q.version], q.preimage) IN
    CASE q.as = "whole" -> raw
      [] q.as = "cut" -> Front(raw)
      [] q.as = "extended" -> Append(raw, <<"int", 0>>)
      [] q.as = "misnamed" -> [raw EXCEPT ![1] = <<"int", (q.version % 4) + 1>>]

AnswerLeaf ==
    /\ pc = "leaf"
    /\ LET raw == Raw(asked)
           ours == asked.version >= 2 IN
       Answer([hashed |-> SolHashes(raw),
               ts     |-> IF ours THEN TsRead(asked.version, raw) ELSE {},
               sol    |-> IF ours THEN SolRead(asked.version, raw) ELSE {},
               web    |-> WebRead(raw)])

AskBadges ==
    /\ pc = "idle"
    /\ \E e \in Episodes, claims \in SeqOf(Claims, 3) :
           Ask("badges", [claimed |-> claims,
                          episode |-> [e EXCEPT !.claims = claims]])

AnswerBadges ==
    /\ pc = "badges"
    /\ Answer(BadgesOf(asked.episode))

\* The line of a report about its episodes' sources.
Reported == {[e EXCEPT !.claims = claims] : e \in Episodes, claims \in SeqOf(Claims, 1)}
AskSources ==
    /\ pc = "idle"
    /\ \E members \in SeqOf(Reported, 2) :
           Ask("sources", [members |-> members])

AnswerSources ==
    /\ pc = "sources"
    /\ Answer(CorpusSourcesWording(
           [k \in DOMAIN asked.members |-> [source  |-> asked.members[k].source,
                                            wording |-> BadgesOf(asked.members[k]).wording]]))

-----------------------------------------------------------------------------
(* Downloads                                                               *)

Hashed == UNION {Range(CorpusFiles[corpus]) : corpus \in DOMAIN CorpusFiles}
Asked  == DOMAIN Receipts \cup {None}

\* A buyer may sign for another receipt or minute than the header's, or hand in
\* what another has signed; files may be gone.
AskDownload ==
    /\ pc = "idle"
    /\ \E receipt \in Asked, held \in SUBSET Hashed, took \in {0, 1},
          address, by \in Wallets, minute \in Minutes, over \in Asked, at \in Minutes :
           \E header \in {{}, {[address |-> address, minute |-> minute,
                               signature |-> WalletSignature(by, DownloadMessage(over, at))]}} :
               Ask("download", [receiptId |-> receipt, held |-> held, took |-> took, header |-> header])

AnswerDownload ==
    /\ pc = "download"
    /\ Answer(Download(asked.header, asked.receiptId, asked.held, ThisMinute, ThisSecond, asked.took))

-----------------------------------------------------------------------------
(* What the API serves                                                     *)

Heads(sent) == [k \in DOMAIN sent |-> [idx |-> k - 1, size |-> sent[k].size, root |-> LogRoot[sent[k].of]]]
SizesOf(sent) == {head.size : head \in Range(sent)}

AskServed ==
    /\ pc = "idle"
    /\ \E sent \in Anchored, leaf \in Range(Log) \cup {Other}, of \in Size, size, from \in 0 .. Len(Log) :
           /\ size \in {0, of} \cup SizesOf(sent)
           /\ Ask("served", [anchored |-> sent, wanted |-> leaf, root |-> LogRoot[of],
                             head |-> size, from |-> from])

AnswerServed ==
    /\ pc = "served"
    /\ LET anchors == Heads(asked.anchored) IN
       Answer([inclusion   |-> ServeInclusion(anchors, asked.wanted, asked.root, asked.head),
               consistency |-> ServeConsistency(anchors, asked.from, asked.head),
               anchor      |-> EpisodeAnchor(anchors, asked.wanted)])

AskPages ==
    /\ pc = "idle"
    /\ \E sent \in Anchored, limit \in {{}} \cup {{l} : l \in 0 .. MaxLimit + 1} :
           \E known \in 0 .. Len(sent) : Ask("pages", [rows |-> sent, known |-> known, limit |-> limit])

AnswerPages ==
    /\ pc = "pages"
    /\ Answer({AllPages(Heads(asked.rows), asked.known, limit) : limit \in ParseLimit(asked.limit)})

\* A buyer of a leaf hands the page the proof of an anchored size.
AskLeafCheck ==
    /\ pc = "idle"
    /\ \E sent \in Anchored, leaf \in Range(Log) \cup {Other}, answers \in SUBSET {"leaf", "head"} :
           \E size \in SizesOf(sent), named \in 0 .. Len(sent) :
               \E at \in 0 .. size - 1 :
                   \E proof \in Deliveries(Inclusion[size][at]) :
                       Ask("leafcheck", [heads |-> sent, bought |-> leaf, named |-> named, at |-> at,
                                         given |-> proof, answers |-> answers])

AnswerLeafCheck ==
    /\ pc = "leafcheck"
    /\ Answer(RunLeafCheck({Heads(asked.heads)}, asked.answers, asked.named, asked.bought, asked.at, asked.given))

\* A report about one of the anchors, for a corpus sealed against another.
AnchorRows(table) == [k \in DOMAIN table |-> [idx |-> k - 1, size |-> table[k].size, root |-> LogRoot[table[k].of],
                                         revoked |-> table[k].revoked]]
AskAssembled ==
    /\ pc = "idle"
    /\ \E table \in Tables, at \in DOMAIN CorpusProof, claim \in Range(Log), key \in Key, later \in SUBSET Key :
           \E about, sealing \in Range(AnchorRows(table)) :
               /\ \A k \in DOMAIN table : table[k].revoked \subseteq later
               /\ Ask("assembled", [table |-> table, about |-> about, sealing |-> sealing, member |-> at,
                                   claim |-> claim, holder |-> key, withdrawn |-> later])

AnswerAssembled ==
    /\ pc = "assembled"
    /\ Answer(AssembleReport(AnchorRows(asked.table), asked.about, asked.sealing, asked.member, asked.claim,
                             asked.holder, asked.withdrawn))

Questions ==
    \/ Next \/ RecordsNext \/ AskReport \/ AnswerReport
    \/ AskTiming \/ AnswerTiming \/ AskKinematics \/ AnswerKinematics
    \/ AskMotion \/ AnswerMotion \/ AskDedup \/ AnswerDedup
    \/ AskLeaf \/ AnswerLeaf \/ AskBadges \/ AnswerBadges \/ AskSources \/ AnswerSources
    \/ AskDownload \/ AnswerDownload
    \/ AskAssembled \/ AnswerAssembled
    \/ AskServed \/ AnswerServed \/ AskPages \/ AnswerPages \/ AskLeafCheck \/ AnswerLeafCheck

\* The registry of keys shares nothing with the questions: a behaviour asks or
\* administers.
RulesNext ==
    \/ KeyInit /\ UNCHANGED keyVars /\ Questions
    \/ pc = "idle" /\ UNCHANGED vars /\ KeyNext

RulesInit == Init /\ KeyInit
RulesSpec == RulesInit /\ [][RulesNext]_<<vars, keyVars>>

\* One of the questions on its own.
DatasetsSpec ==
    RulesInit /\ [][(AskDataset \/ AnswerDataset \/ Return) /\ UNCHANGED keyVars]_<<vars, keyVars>>

-----------------------------------------------------------------------------
\* Every leaf that an anchor covers can be proved from what the API serves when
\* the anchor's root is that of its size, and never when it is a later one: the
\* episode names the earliest anchor that covers the leaf, and the contract, which
\* looks the anchor up by its root, accepts the proof that is served for it, and
\* that of any head asked for, exactly when the head is coherent. So for the two
\* heads of a served consistency proof, of which one at least is coherent. Nothing
\* is served for a root that was not anchored with that size, or for a leaf past
\* it. Who follows the cursors sees every anchor once, in order, while others
\* are recorded. The page finds an honest proof good for a coherent anchor only,
\* and its two answers agree when the anchor that is named is the head
\* (proofs.ts:11-102, episodes.ts:97-122, anchors.ts:20-26, verify.js:100-172,
\* verify.html:318-349).
ServedProofsHold ==
    /\ Answered("wanted") =>
        LET anchors == Heads(asked.anchored)
            held(a) == a.size > 0 /\ \E l \in 1 .. a.size : Log[l] = asked.wanted
            accepted(root, served) ==
                \E index \in ReadIndexOfRoot({anchors}, root) :
                    VerifyLeafOnChain({anchors}, index, asked.wanted, served.index, served.proof) IN
        /\ verdict.anchor = {} <=> ~\E a \in Range(anchors) : held(a)
        /\ \A a \in verdict.anchor :
             /\ accepted(a.root, ServeInclusion(anchors, asked.wanted, a.root, a.size)) <=> Coherent(a)
             /\ \A b \in Range(anchors) : b.size < a.size => ~held(b)
        /\ verdict.inclusion.status = 200 <=>
             \E a \in Range(anchors) : a.size = asked.head /\ a.root = asked.root /\ held(a)
        /\ verdict.inclusion.status = 200 =>
             (accepted(asked.root, verdict.inclusion) <=> asked.root = LogRoot[asked.head])
        /\ verdict.consistency.status = 200 <=>
             asked.from <= asked.head /\ {asked.from, asked.head} \subseteq SizesOf(asked.anchored)
        /\ verdict.consistency.status = 200 =>
             \A a, b \in Range(anchors) :
                 a.size = asked.from /\ b.size = asked.head /\ (Coherent(a) \/ Coherent(b)) =>
                     (ConsistentWith(asked.from, asked.head, verdict.consistency.proof, a.root, b.root)
                        <=> Coherent(a) /\ Coherent(b))
    /\ Answered("rows") =>
        LET anchors == Heads(asked.rows) IN
        /\ verdict = {} <=> asked.limit = {0}
        /\ \A read \in verdict :
             /\ read.next = {}
             /\ IsPrefix(read.items, anchors)
             /\ Len(read.items) >= asked.known
    /\ Answered("bought") =>
        LET sent  == asked.heads
            named == asked.named + 1
            coherent == named \in DOMAIN sent /\ sent[named].of = sent[named].size
            honest == /\ named \in DOMAIN sent /\ asked.at < sent[named].size
                      /\ asked.bought = Log[asked.at + 1]
                      /\ asked.given = Inclusion[sent[named].size][asked.at] IN
        /\ verdict = {} <=> "head" \notin asked.answers
        /\ \A shown \in verdict :
             /\ shown.onChain => "leaf" \in asked.answers /\ named \in DOMAIN sent
             /\ "leaf" \in asked.answers /\ (honest \/ coherent) =>
                    (shown.onChain <=> honest /\ coherent)
             /\ named = Len(sent) /\ (honest \/ coherent) => (shown.locally <=> honest /\ coherent)
             /\ named = Len(sent) /\ "leaf" \in asked.answers => (shown.onChain <=> shown.locally)

\* What is proved and what is served (GraspLog.sol:187, MerkleLog.sol:35-79,
\* SparseMerkle.sol:8-18, report-verify.ts:4-8, proofs.ts:11-102).
EveryProofIsExact == ProofsAreExact /\ ServedProofsHold

\* The script assembles a report exactly for an anchor and a seal that are on the
\* one page it reads, the seal not the later one, with the member and its claim
\* under the anchor; and the report passes, for all three verifiers, when the roots
\* of both are those of their sizes, unless it says that consent is live and the
\* first row with the anchor's head was anchored before a revocation that the API
\* knows by now. With an anchor or a seal whose root is a later one no verifier
\* passes it (assemble-report.mjs:60-107, consent.ts:64-80,
\* report-verify.ts:252-288, anchorer.ts:120-145).
AssembledReportsPass ==
    Answered("table") =>
        LET rows  == AnchorRows(asked.table)
            page  == First(rows, Least({MaxLimit, Len(rows)}))
            same(row, head) == row.size = head.size /\ row.root = head.root
            first(head) == CHOOSE row \in Range(page) :
                /\ same(row, head)
                /\ \A other \in Range(page) : same(other, head) => row.idx <= other.idx
            under(size) == {Log[l] : l \in 1 .. size} IN
        /\ verdict # {} <=>
             /\ \A head \in {asked.about, asked.sealing} : \E row \in Range(page) : same(row, head)
             /\ asked.sealing.size <= asked.about.size
             /\ {CorpusLeaves[asked.member + 1], asked.claim} \subseteq under(asked.about.size)
        /\ \A report \in verdict :
             \A passes \in {VerifyReport(report), PageVerifiesReport(report), ScriptVerifiesReport(report)} :
                 passes <=> /\ Coherent(asked.about) /\ Coherent(asked.sealing)
                            /\ \/ asked.holder \in asked.withdrawn
                               \/ first(asked.about).revoked = asked.withdrawn

\* Reports, whoever made them (report-verify.ts:252-288, assemble-report.mjs:60-107).
EveryReportIsExact == ReportsPassWhenTrue /\ AssembledReportsPass

\* A verdict about a recording's timing or motion is about the recording, not
\* about where the loops begin: played backwards it gets the same one, and the
\* frame that a failure names is the first that cannot be spared: cut before it,
\* the recording no longer fails that rule (timing.ts:61-123, kinematics.ts:47-108).
PlayedBack(ts) == [k \in DOMAIN ts |-> ts[1] + ts[Len(ts)] - ts[Len(ts) + 1 - k]]
BadFramesAreFound ==
    /\ Answered("clock") =>
        LET back == Timing(PlayedBack(asked.clock), asked.period, asked.duration) IN
        verdict.result = back.result /\ verdict.reason = back.reason
    /\ Answered("moved") =>
        LET of(state, action) == Kinematics(state, action, Robots[asked.robot], asked.rate)
            back   == of(Backwards(asked.moved), Backwards(asked.action))
            cut(k) == of(First(asked.moved, Least({k, Len(asked.moved)})),
                         First(asked.action, Least({k, Len(asked.action)}))) IN
        /\ verdict.result = back.result /\ verdict.reason = back.reason
        /\ verdict.frame > 0 /\ asked.moved # <<>> =>
               /\ cut(verdict.frame).reason = verdict.reason
               /\ verdict.frame > 1 => cut(verdict.frame - 1).reason # verdict.reason

\* The units of a recording do not matter: another start of the clock, a motion
\* of the video with more gain or another black level, positions on another
\* scale change no verdict, and a robot whose limits are not known is compared
\* on its own span (sensor_consistency.ts:45-60, sim_signature.ts:80-178,
\* dedup.ts:41-77).
Later7(ts)   == [k \in DOMAIN ts |-> ts[k] + 7]
Scaled(rows) == [k \in DOMAIN rows |-> <<3 * rows[k][1] + 4>>]
VerdictsIgnoreUnits ==
    /\ Answered("motion") =>
        LET brighter == IF asked.motion = None THEN None
                        ELSE [k \in DOMAIN asked.motion |-> 2 * asked.motion[k] + 5]
            louder   == IF asked.motion = None THEN None
                        ELSE [k \in DOMAIN asked.motion |-> 2 * asked.motion[k]] IN
        /\ verdict.sensor = Sensor(Later7(asked.ts), Scaled(asked.state), brighter, 1)
        /\ verdict.sim = Judged(Later7(asked.ts), Scaled(asked.state), louder, asked).sim
    /\ Answered("recording") =>
        LET r == asked.recording IN
        Robots[r.robot] = None =>
            verdict.verdict = DedupOf([r EXCEPT !.ts = Later7(@), !.state = Scaled(@)],
                                      Len(asked.seen) + 1, IndexAfter(asked.seen)).verdict

\* The two together: what is said of a recording does not depend on how it was
\* written down (timing.ts:61-123, kinematics.ts:47-108,
\* sensor_consistency.ts:45-60, sim_signature.ts:80-178).
VerdictsAreOfTheRecording == BadFramesAreFound /\ VerdictsIgnoreUnits

\* Files go to who bought them: to the receipt's buyer, who signed for this very
\* receipt within two minutes, all of them or none; and each URL opens its own
\* file at least as long as the answer says, and neither another file nor later
\* than it was signed for (walletSig.ts:35-57, licences.ts:10-37,
\* uploads.ts:114-136).
DownloadsAreTheBuyers ==
    Answered("receiptId") =>
        LET receipt == asked.receiptId
            entries == verdict.files
            latest == ThisSecond + Len(entries) + 2 * UrlSeconds
            opens(url) == {at \in ThisSecond .. latest : GetUpload(url, Hashed, at) # {}}
        IN
        /\ verdict.status = 200 <=>
             /\ receipt \in DOMAIN Receipts
             /\ \E minute \in Minutes \cap (ThisMinute - 2 .. ThisMinute + 2) :
                    LET buyer == Receipts[receipt].buyer IN
                    asked.header = {[address |-> buyer, minute |-> minute,
                        signature |-> WalletSignature(buyer, DownloadMessage(receipt, minute))]}
             /\ Range(CorpusFiles[Receipts[receipt].corpus]) \subseteq asked.held
        /\ verdict.status = 200 =>
             /\ [k \in DOMAIN entries |-> entries[k].hash] = CorpusFiles[Receipts[receipt].corpus]
             /\ \A entry \in Range(entries) :
                  /\ opens(entry.url) = ThisSecond .. entry.url.exp
                  /\ entry.expiresAt <= entry.url.exp
                  /\ GetUpload(entry.url, Hashed, ThisSecond) = {entry.hash}
                  /\ \A hash \in Hashed \ {entry.hash} : opens([entry.url EXCEPT !.hash = hash]) = {}
                  /\ opens([entry.url EXCEPT !.exp = @ + 1]) = {}
        /\ verdict.status # 200 => entries = <<>>

\* What a sample of the grid should be: the point between two frames around it.
Sampled(path, state, ts) ==
    \A s \in DOMAIN path :
        LET t == ts[1] + (s - 1) * SampleTicks IN
        \E k \in Later(ts) : ts[k - 1] <= t /\ t <= ts[k]
            /\ path[s] = <<Between(Point(ts[k - 1], state[k - 1][1]), Point(ts[k], state[k][1]), t)>>

\* The costs of all the ways to walk two trajectories side by side, both forwards.
WalkCosts(a, b) ==
    LET cost[k \in 1 .. Len(a), l \in 1 .. Len(b)] ==
          LET before == IF k = 1 /\ l = 1 THEN {0}
                        ELSE UNION {cost[at[1], at[2]] :
                               at \in {at \in {k - 1, k} \X {l - 1, l} :
                                           at[1] > 0 /\ at[2] > 0 /\ at[1] + at[2] < k + l}}
          IN  IF Dist(k, l) > Band(Len(a), Len(b)) THEN {} ELSE {Apart(a[k], b[l]) + c : c \in before}
    IN  cost[Len(a), Len(b)]

\* A recording passes exactly when no earlier one of the same robot is near it,
\* by the cheapest walk through both on a true resampling; only those that the
\* index lists in another bucket, or past its limit, can be missed, and one that
\* moves exactly alike is never in another bucket. A check that is run again
\* after it has stored the recording, because its claim was not, answers the
\* same (dedup.ts:82-147, 214-248, trajectory-index.ts:168-199).
DuplicatesAreFound ==
    Answered("recording") =>
        LET r      == asked.recording
            answer == verdict.verdict
            leaf   == Len(asked.seen) + 1
            rows   == Range(verdict.index)
            mine   == CHOOSE row \in rows : row.leaf = leaf
            shares(row) == \E t \in DOMAIN Planes : Buckets(row.path)[t] = Buckets(mine.path)[t]
            others == {row \in rows : row.leaf # leaf /\ shares(row)}
            near(row) == Under([cost |-> Min(WalkCosts(mine.path, row.path)),
                                of |-> Len(mine.path) + Len(row.path)], Near)
            found  == \E row \in others : row.robot = r.robot /\ near(row) IN
        /\ answer.reason \in {"", "downgraded", "near"} =>
            /\ Sampled(mine.path, Normalise(r.state, LimitsOf(r.robot)), r.ts)
            /\ answer # Pass => found
            /\ Cardinality(others) <= Limit /\ found => answer # Pass
            /\ \A row \in rows : row.path = mine.path => row = mine \/ row \in others
        /\ DedupOf(r, leaf, verdict.index) = verdict

\* The protocol package, the contracts and the page hold one layout of each leaf:
\* both writers make the same bytes, every reader returns exactly the fields that
\* were written, refuses a leaf that no writer would make, and refuses bytes that
\* were cut, extended or named as another kind. Only the page reads a claim
\* without a check or a time, and only the protocol's facts() of an episode does
\* not look at the version byte (leaf.ts, LeafVerifier.sol:31-143, leaves.js:34-125).
LeavesReadBack ==
    Answered("preimage") =>
        LET v     == asked.version
            leaf  == asked.preimage
            valid == TsEncodes(v, leaf)
            only(fields) == [name \in DOMAIN fields |-> leaf[name]]
            facts == CASE v = 1 -> {} [] v = 2 -> {only(TsFactsAt)} [] OTHER -> {leaf}
            zeroes == v = 4 /\ ClaimValid([leaf EXCEPT !.checkId = 1, !.issuedAt = 1]) IN
        /\ Packed(v, TsFields[v], leaf) = Packed(v, SolFields[v], leaf)
        /\ verdict.hashed <=> asked.as = "whole"
        /\ verdict.sol = IF asked.as = "whole" /\ valid THEN facts ELSE {}
        /\ verdict.ts = IF (asked.as = "whole" /\ valid) \/ (asked.as = "misnamed" /\ v = 2)
                        THEN facts ELSE {}
        /\ verdict.web = IF asked.as = "whole" /\ (valid \/ zeroes) THEN {leaf} ELSE {}

\* The two kinds of record: what was written is what is read
\* (lerobot.ts, leaf.ts, LeafVerifier.sol:31-143, leaves.js:34-125).
WrittenIsReadBack == EpisodesReadBack /\ LeavesReadBack

\* The badge "checked" is there exactly when the log's last word on every blocking
\* check is a pass and on no enabled one a failure, whatever was said before, and
\* its line names the checks that last passed. A failure is listed, with a line,
\* exactly while it is the last word on a check that is not disabled: so an episode
\* is "checked" beside a failure only when the configuration does not know the
\* check that failed, which badges.ts:7 and TASK-021.md:21 would not allow. A source
\* is called attested, or physical without "declared", only by a controller and
\* only while the checks that look for a simulation last passed; and a report
\* counts as attested the episodes that are, all of them declared physical. Claims
\* of one second are excepted: badges.ts takes the first of them, wording.ts the
\* last (badges.ts:101-213, wording.ts:124-186, render.ts:80-82).
LastWord(claims, check, result) ==
    \E k \in DOMAIN claims :
        /\ claims[k].check = check /\ claims[k].result = result
        /\ \A l \in DOMAIN claims :
               l # k /\ claims[l].check = check => claims[l].issuedAt < claims[k].issuedAt
AttestedByController(e) ==
    /\ e.source \in Physical /\ e.controllerAttested
    /\ LastWord(e.claims, "sim_signature.v1", "pass")
    /\ e.hasVideo => LastWord(e.claims, "sensor_consistency.v1", "pass")
LatestClaimDecides ==
    /\ Answered("claimed") =>
        LET claims == asked.claimed
            e == asked.episode
            lines(kind) == {line \in Range(verdict.wording) : line.line = kind}
            ordered == \A k, l \in DOMAIN claims :
                k # l /\ claims[k].check = claims[l].check => claims[k].issuedAt # claims[l].issuedAt
            checked == /\ e.anchored
                       /\ \A check \in DOMAIN Config : Config[check].enabled =>
                              /\ Config[check].blocking => LastWord(claims, check, "pass")
                              /\ ~LastWord(claims, check, "fail")
            counts(check) == check \in DOMAIN Config => Config[check].enabled IN
        ordered =>
            /\ "L3" \in Range(verdict.badges) <=> checked
            /\ lines("Checked") # {} <=> checked
            /\ \A line \in lines("Checked") : \A check \in DOMAIN Config :
                 check \in line.list <=> check \in Enabled /\ LastWord(claims, check, "pass")
            /\ \A check \in Range(verdict.failed) : LastWord(claims, check, "fail") /\ counts(check)
            /\ \A check \in {claims[k].check : k \in DOMAIN claims} :
                 e.anchored /\ counts(check) /\ LastWord(claims, check, "fail") =>
                     /\ check \in Range(verdict.failed)
                     /\ \E line \in lines("Check failed") : line.check = check
            /\ "L3" \in Range(verdict.badges) => Range(verdict.failed) \cap DOMAIN Config = {}
            /\ Len(verdict.wording) =
                 Len(verdict.badges) + Len(verdict.failed) + (IF e.anchored THEN 1 ELSE 2)
            /\ \A line \in lines("Source") :
                 "physical" \in Range(line.text) /\ "declared" \notin Range(line.text) <=>
                     AttestedByController(e)
            /\ verdict.source.attested <=> AttestedByController(e)
    /\ Answered("members") =>
        LET members == asked.members IN
        /\ verdict.k = Cardinality({k \in DOMAIN members : AttestedByController(members[k])})
        /\ verdict.k <= verdict.n /\ verdict.n <= verdict.m
=============================================================================
