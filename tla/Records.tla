------------------------------ MODULE Records ------------------------------
(***************************************************************************)
(* What is written down about an episode, asked one question at a time:    *)
(* a directory is written the way LeRobot writes one and read back         *)
(* (Lerobot), a client sends a manifest (Manifests), a task is published   *)
(* and its scenes are rebuilt (Tasks), a JSON value is hashed (Canonical). *)
(***************************************************************************)
EXTENDS BuyerChecks, Manifests, Tasks, Canonical
LOCAL INSTANCE SequencesExt

CONSTANTS
    Lengths,     \* frames a recording may have
    Rates,       \* fps of a dataset, None when its info.json has none
    Wide,        \* numbers that a manifest may carry
    FileSets,    \* sets of file entries that a payload hash may be of
    Entries,     \* file entries that a manifest may list
    Specs,       \* task specifications
    Seeds,       \* the draws of a seed; two of them differ in every draw
    Values       \* JSON values

Ask(rule, question) == Call(rule, question) /\ UNCHANGED loop

-----------------------------------------------------------------------------
(* A dataset, laid out as the reader takes LeRobot's format to be, and read back: a  *)
(* range from dataset_from_index counts the rows of the recording's own data file    *)
(* (lerobot.ts:253, 286, 379), as in the repository's fixtures.                      *)

\* Recordings are numbered from 0; frame k of recording e is <<e, k>>.  marks:
\* the column that says whether a frame is a success, and the recordings whose
\* last frame is one.
FrameRow(q, e, k) ==
    [x \in {"episode", "at"} \cup (IF q.marks = "none" THEN {} ELSE {q.marks}) |->
        CASE x = "episode" -> e [] x = "at" -> <<e, k>>
          [] OTHER -> e \in q.successes /\ k = q.lengths[e + 1]]
RowsOf(q, e) == [k \in 1 .. q.lengths[e + 1] |-> FrameRow(q, e, k)]
Pictures(q, e) == [k \in 1 .. q.lengths[e + 1] |-> <<"picture", e, k>>]

Recorded(q)    == 0 .. Len(q.lengths) - 1
Together(q, S, Part(_, _)) ==
    FlattenSeq([k \in DOMAIN q.lengths |-> IF k - 1 \in S THEN Part(q, k - 1) ELSE <<>>])

\* In the chunked layout the recordings below q.cut share the first data file,
\* the others the second; q.filmed share one video.
ChunkOf(q, e)   == {f \in Recorded(q) : f < q.cut <=> e < q.cut}
Offset(q, e, S) == Total([k \in DOMAIN q.lengths |-> IF k - 1 < e /\ k - 1 \in S THEN q.lengths[k] ELSE 0])
DataPath(q, e)  == IF q.layout = "chunked" THEN <<DataDir, 0, 0, IF e < q.cut THEN 0 ELSE 1>>
                   ELSE <<DataDir, 0, 0, e>>
VideoPath(q, e) == IF q.layout = "chunked" THEN <<VideoDir, 1, 0, 0>> ELSE <<VideoDir, 1, 0, e>>
Named(q, e)     == {DataPath(q, e)} \cup (IF e \in q.filmed \/ q.layout = "per_episode"
                                          THEN {VideoPath(q, e)} ELSE {})

Contents(q, path) ==
    LET data == {e \in Recorded(q) : DataPath(q, e) = path} IN
    IF path[1] = DataDir THEN Together(q, data, RowsOf)
    ELSE Together(q, {e \in q.filmed : VideoPath(q, e) = path}, Pictures)

Metadata(q, e) ==
    [episode |-> e, length |-> q.lengths[e + 1], tasks |-> <<"lift">>,
     from |-> Offset(q, e, ChunkOf(q, e)), to |-> Offset(q, e, ChunkOf(q, e)) + q.lengths[e + 1],
     data |-> <<DataPath(q, e)[3], DataPath(q, e)[4]>>,
     video |-> [c \in IF e \in q.filmed THEN {1} ELSE {} |->
                   [file |-> <<0, 0>>, from |-> Offset(q, e, q.filmed),
                    to |-> Offset(q, e, q.filmed) + q.lengths[e + 1]]]]

\* One file is gone afterwards, when q.lost says so.
Lost(q) == CASE q.lost = "data" -> {DataPath(q, 0)} [] q.lost = "video" -> {VideoPath(q, 1)}
             [] OTHER -> {}
Written(q) ==
    LET rows  == [k \in DOMAIN q.lengths |-> Metadata(q, k - 1)]
        paths == {DataPath(q, e) : e \in Recorded(q)} \cup {VideoPath(q, e) : e \in q.filmed}
    IN  [major |-> IF q.layout = "chunked" THEN 3 ELSE 2, fps |-> q.fps, robot |-> q.robot,
         features |-> {[name |-> 1, video |-> TRUE], [name |-> 0, video |-> FALSE]},
         meta  |-> IF q.mixed THEN <<Tail(rows), <<rows[1]>>>> ELSE <<rows>>,
         files |-> [path \in paths \ Lost(q) |-> Contents(q, path)]]

\* A dataset that no episode is logged of, for want of its fps or its robot, keeps
\* its files: a bound.
AskDataset ==
    /\ pc = "idle"
    /\ \E lengths \in UNION {[1 .. many -> Lengths] : many \in 2 .. 3}, layout \in {"chunked", "per_episode"},
          cut \in 0 .. 2, fps \in Rates, robot \in {"r1", None}, mixed \in BOOLEAN,
          marks \in {"none", "success", "next.success"}, lost \in {"nothing", "data", "video"} :
       \E filmed \in SUBSET (0 .. Len(lengths) - 1), successes \in {{}, {1}} :
           /\ layout = "per_episode" => cut = 0 /\ ~mixed
           /\ marks = "none" => successes = {}
           /\ None \in {fps, robot} => lost = "nothing"
           /\ Ask("dataset", [dataset |-> [lengths |-> lengths, layout |-> layout, cut |-> cut,
                   fps |-> fps, robot |-> robot, mixed |-> mixed, filmed |-> filmed,
                   successes |-> successes, marks |-> marks, lost |-> lost]])

\* The job, and then the worker, for every episode that is read; rows are those
\* that the reader's own reference to the episode gives
AnswerDataset ==
    /\ pc = "dataset"
    /\ LET ds   == Written(asked.dataset)
           refs == ReadDataset(ds)
           manifest(k) == ManifestOf(refs[k], 1, 1, ds.files)
           commit(k)   == CommitOf(manifest(k)) IN
       Answer([k \in DOMAIN refs |->
           [episode |-> refs[k].episode,
            rows    |-> ReadEpisodeFrames(refs[k], ds),
            commit  |-> commit(k),
            checked |-> IF commit(k).answer = "logged" THEN Checked(manifest(k)) ELSE None]])

-----------------------------------------------------------------------------
(* A manifest of a client                                                  *)

Listing(files) == SetToSortSeq(files, LAMBDA a, b : Below(a.path, b.path))

Sent(files) ==
    [layout |-> "per_episode", embodiment |-> "r1", rate |-> 30, duration |-> 1, capturedAt |-> 1,
     channels |-> <<[name |-> 0, hz |-> 30], [name |-> 1, hz |-> None]>>, files |-> Listing(files),
     range |-> None, payload |-> PayloadHash(Listing(files)), scopeBits |-> 1,
     task |-> [id |-> <<"T">>, instruction |-> <<"lift">>], outcome |-> TRUE, seed |-> None]

\* Another listing under the hash of these files, or one other field that is
\* not as the job would write it
Variants(m) ==
    UNION {{[m EXCEPT !.files = list] : list \in SeqOf(Entries, 3)},
           {[m EXCEPT !.duration = x] : x \in Wide}, {[m EXCEPT !.scopeBits = x] : x \in Wide},
           {[m EXCEPT !.capturedAt = x] : x \in Wide}, {[m EXCEPT !.seed = x] : x \in Wide},
           {[m EXCEPT !.rate = 0], [m EXCEPT !.embodiment = None], [m EXCEPT !.outcome = None]},
           {[m EXCEPT !.layout = "chunked", !.range = r] :
                r \in {None, [episode |-> 0, from |-> 0, to |-> 1, video |-> <<>>]}},
           {[m EXCEPT !.channels = Backwards(@)], [m EXCEPT !.channels[1].hz = 0],
            [m EXCEPT !.channels[2].name = 0]},
           {[m EXCEPT !.task = None], [m EXCEPT !.task.id = None]}}

AskManifest ==
    /\ pc = "idle"
    /\ \E files \in FileSets : \E m \in Variants(Sent(files)) :
           Ask("manifest", [manifest |-> m, of |-> files])

AnswerManifest == pc = "manifest" /\ Answer(CommitOf(asked.manifest))

-----------------------------------------------------------------------------
(* A task and its scenes; two JSON values                                  *)

AskTask == pc = "idle" /\ \E spec \in Specs : Ask("task", [spec |-> spec])

\* Nobody samples a specification with other faults than too little variation.
AnswerTask ==
    /\ pc = "task"
    /\ LET errors == TaskErrors(asked.spec) IN
       Answer([errors |-> errors,
               scenes |-> IF errors \subseteq {"variation"}
                          THEN [seed \in Seeds |-> SampleScene(asked.spec, seed)] ELSE <<>>])

AskValues ==
    /\ pc = "idle"
    /\ \E a, b \in Values : Ask("values", [json |-> a, other |-> b])

Signature == {<<"b">>}
AnswerValues ==
    /\ pc = "values"
    /\ LET signed(v) == IF v.type = "object" THEN HashedTextWithout(v, Signature) ELSE HashedText(v) IN
       Answer([text |-> HashedText(asked.json), other |-> HashedText(asked.other),
               page |-> NamedText(asked.json),
               signed |-> <<signed(asked.json), signed(asked.other)>>])

RecordsNext ==
    \/ AskDataset \/ AnswerDataset \/ AskManifest \/ AnswerManifest
    \/ AskTask \/ AnswerTask \/ AskValues \/ AnswerValues

-----------------------------------------------------------------------------
\* An episode is what was recorded: whatever the layout, however recordings
\* share files and metadata rows are ordered, exactly those come back whose named
\* files are all there, each with its own rows; the leaf has its length and its
\* success; and when it is logged the checks are run over its own rows, never over
\* another's, and in the chunked layout over its own pictures (ChecksSeeTheEpisode
\* is about those that are run over none). A manifest commits to one listing of one set of
\* files: under another listing, or out of order, it is refused; a number that is
\* too wide for the leaf fails the request before anything is logged
\* (lerobot.ts:180-407, job.ts:83-108, worker.ts:72-113, payload.ts:58-73,
\* schemas.ts:140-168, commit.ts:61-77).
EpisodesReadBack ==
    /\ Answered("dataset") =>
        LET q == asked.dataset
            files == DOMAIN Written(q).files
            kept  == SelectSeq([k \in DOMAIN q.lengths |-> k - 1], LAMBDA e : Named(q, e) \subseteq files)
        IN  /\ [k \in DOMAIN verdict |-> verdict[k].episode] = kept
            /\ \A k \in DOMAIN kept :
                  LET e == kept[k]  leaf == verdict[k].commit.leaf  checked == verdict[k].checked IN
                  /\ verdict[k].rows = RowsOf(q, e)
                  /\ verdict[k].commit.answer = "logged" <=> q.fps # None /\ q.robot # None
                  /\ leaf # None =>
                        /\ 2 * Dist(leaf.durationMs * q.fps, 1000 * q.lengths[e + 1]) <= q.fps
                        /\ leaf.successFlag = 1 <=> e \in q.successes
                        /\ \/ checked.rows = RowsOf(q, e)
                           \/ q.layout = "per_episode" /\ e > 0 /\ checked.rows = <<>>
                        /\ checked.pictures = IF q.layout = "chunked" /\ e \in q.filmed
                                              THEN Pictures(q, e) ELSE None
    /\ Answered("manifest") =>
        LET m == asked.manifest
            fits == m.duration < U32 /\ m.scopeBits < U32 /\ m.capturedAt < U64 IN
        /\ verdict.answer # "unprocessable" <=>
              /\ m.files = Listing(asked.of) /\ m.files # <<>>
              /\ \A file \in asked.of : file.path \notin BadPath
              /\ m.rate > 0 /\ m.embodiment # None
              /\ \A k \in DOMAIN m.channels : m.channels[k].hz # 0 /\ m.channels[k].name = k - 1
              /\ m.layout = "chunked" => m.range # None
              /\ m.seed # None => m.seed < U64
        /\ verdict.answer = "internal" => ~fits
        /\ verdict.answer = "logged" => fits

\* The checks of a logged episode are run over that episode: readEpisodeFrames
\* "Reads `columns` for one episode's frames" (lerobot.ts:358), and the worker
\* "Rebuilds the T-011 `EpisodeRef` shape" to read them with (worker.ts:71).
ChecksSeeTheEpisode ==
    Answered("dataset") =>
        \A k \in DOMAIN verdict :
            verdict[k].commit.answer = "logged" => verdict[k].checked.rows = verdict[k].rows

\* A scene that is rebuilt from a task and a seed shows the task: objects in the
\* order they were declared, as many as declared, each an instance of its own
\* within its ranges. And a task is refused for want of variation exactly when all
\* seeds would show one arrangement (another height does not count): a fixed
\* arrangement is a demo, not a dataset (sampler.ts:79-110, taskspec.ts:113-144).
\* Counts that are whole and let an object be placed.
Countable(spec) ==
    \A k \in DOMAIN spec.objects :
        LET c == spec.objects[k].count IN
        c # None => c[1] % 2 = 0 /\ c[2] % 2 = 0 /\ c[2] > 0
InOrder(r)    == IF r[1] <= r[2] THEN r[1] .. r[2] ELSE r[2] .. r[1]
Shows(placed, o) ==
    /\ \E k \in DOMAIN o.instances : o.instances[k] = placed.instance
    /\ placed.x \in InOrder(o.x) /\ placed.y \in InOrder(o.y)
    /\ o.z # None => placed.z \in InOrder(o.z)
    /\ o.yaw # None => placed.yaw \in InOrder(o.yaw)
Flat(scene) == SceneHash([scene EXCEPT !.objects = [k \in DOMAIN @ |-> [@[k] EXCEPT !.z = 0]]])
ScenesFollowTheTask ==
    Answered("spec") =>
        LET spec == asked.spec
            of(placed) == CHOOSE k \in DOMAIN spec.objects : spec.objects[k].category = placed.category
        IN  /\ \A seed \in DOMAIN verdict.scenes :
                  LET objects == verdict.scenes[seed].objects IN
                  /\ \A k \in DOMAIN objects : Shows(objects[k], spec.objects[of(objects[k])])
                  /\ \A k \in 2 .. Len(objects) : of(objects[k - 1]) <= of(objects[k])
                  /\ Countable(spec) => \A j \in DOMAIN spec.objects :
                        LET number == Cardinality({k \in DOMAIN objects : of(objects[k]) = j})
                            c == spec.objects[j].count
                        IN  IF c = None THEN number = 1 ELSE 2 * number \in c[1] .. c[2]
            /\ Countable(spec) /\ verdict.errors \subseteq {"variation"} =>
                  (verdict.errors = {} <=>
                      \E s, t \in Seeds : Flat(verdict.scenes[s]) # Flat(verdict.scenes[t]))

\* Two JSON values have one hash exactly when they say the same in UTF-8, where
\* every lone surrogate is U+FFFD: in whatever order keys were set, with undefined
\* members or not, but with arrays in their order, members at the places of their
\* keys and every other character kept apart. A hash that leaves the signature out is of
\* everything else, and the page names a task as the protocol does wherever the
\* protocol can name it, except for a task that holds a lone surrogate, which the
\* page escapes (canonical.ts:31-130, taskspec.js:107-120).
Present(v) == {k \in DOMAIN v.is : v.is[k].value # Undefined}
PlaceOfKey(v, k) == Cardinality({l \in Present(v) : KeyBefore(v.is[l].key, v.is[k].key)})
Meaning(json) ==
    LET said[v \in Within(json)] ==
          CASE v.type = "number" -> <<v.type, IF v.is = "-0" THEN "0" ELSE v.is>>
            [] v.type = "string" -> <<v.type, Utf8(v.is)>>
            [] v.type = "array" -> <<v.type, [k \in DOMAIN v.is |-> said[v.is[k]]]>>
            [] v.type = "object" ->
                  <<v.type, {<<PlaceOfKey(v, k), Utf8(v.is[k].key), said[v.is[k].value]>> : k \in Present(v)}>>
            [] OTHER -> <<v.type, v.is>>
    IN  said[json]
IsJson(json) ==
    LET writes[v \in Within(json)] ==
          CASE v.type = "number" -> v.is \notin {"NaN", "Infinity"}
            [] v.type = "array" -> \A k \in DOMAIN v.is : writes[v.is[k]]
            [] v.type = "object" -> \A k \in DOMAIN v.is : v.is[k].value = Undefined \/ writes[v.is[k].value]
            [] OTHER -> v.type \notin {"undefined", "bigint"}
    IN  writes[json]
\* Strings that are Unicode text, in all that is written of a value
WellFormed(json) ==
    LET whole(s) == \A k \in DOMAIN s : ~Lone(s, k)
        fine[v \in Within(json)] ==
          CASE v.type = "string" -> whole(v.is)
            [] v.type = "array" -> \A k \in DOMAIN v.is : fine[v.is[k]]
            [] v.type = "object" -> \A k \in Present(v) : whole(v.is[k].key) /\ fine[v.is[k].value]
            [] OTHER -> TRUE
    IN  fine[json]
Unsigned(v) == IF v.type = "object" THEN [v EXCEPT !.is = SelectSeq(@, LAMBDA m : m.key \notin Signature)]
               ELSE v
OneTextPerContent ==
    Answered("json") =>
        /\ verdict.text # Throws <=> IsJson(asked.json)
        /\ IsJson(asked.json) => (verdict.page = verdict.text <=> WellFormed(asked.json))
        /\ IsJson(asked.json) /\ IsJson(asked.other) =>
              /\ verdict.text = verdict.other <=> Meaning(asked.json) = Meaning(asked.other)
              /\ verdict.signed[1] = verdict.signed[2] <=>
                    Meaning(Unsigned(asked.json)) = Meaning(Unsigned(asked.other))
=============================================================================
