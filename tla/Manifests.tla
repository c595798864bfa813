----------------------------- MODULE Manifests -----------------------------
(***************************************************************************)
(* The capture manifest of one episode: how the ingest job writes it       *)
(* (services/api/src/ingest/job.ts), what validateManifest accepts         *)
(* (packages/protocol/src/schemas.ts), the payload hash over its files     *)
(* (payload.ts), the leaf it becomes (mapping.ts, episode.ts), and what    *)
(* the worker makes of it again (services/verify/src/worker.ts).           *)
(*                                                                         *)
(* A manifest of another shape (a key missing, unknown or of another type) *)
(* is never accepted and is left out; so are the fields that only have a   *)
(* shape.  A file entry is [path, hash]; its bytes are not looked at.      *)
(***************************************************************************)
EXTENDS Lerobot, MerkleTree

CONSTANTS
    U32, U64,     \* the first numbers that four and eight bytes cannot hold
    BadPath       \* paths that assertPath refuses

ASSUME WidthAssumption == U32 \in Nat \ {0} /\ U64 \in Nat /\ U64 >= U32

-----------------------------------------------------------------------------
(* payload.ts *)

FileLeaf(file) == <<"file", file.path, file.hash>>

\* payloadHash; None when it throws
PayloadHash(files) ==
    LET entries    == ToSet(files)
        before(f)  == {g \in entries : Below(g.path, f.path)}
        sorted     == [k \in DOMAIN files |-> CHOOSE f \in entries : Cardinality(before(f)) = k - 1] IN
    IF \/ files = <<>>
       \/ \E k \in DOMAIN files : files[k].path \in BadPath
       \/ Cardinality({files[k].path : k \in DOMAIN files}) < Len(files)
    THEN None
    ELSE RootOf([k \in DOMAIN sorted |-> FileLeaf(sorted[k])])

-----------------------------------------------------------------------------
(* schemas.ts *)

\* sortedUniqueBy
SortedUnique(keys) == \A k \in 2 .. Len(keys) : Below(keys[k - 1], keys[k])

CaptureManifest(m) ==
    /\ m.embodiment # None
    /\ m.rate > 0
    /\ \A k \in DOMAIN m.channels : m.channels[k].hz # None => m.channels[k].hz > 0
    /\ \A k \in DOMAIN m.files : m.files[k].path \notin BadPath
    /\ m.seed # None => m.seed < U64
    /\ SortedUnique([k \in DOMAIN m.channels |-> <<m.channels[k].name>>])
    /\ SortedUnique([k \in DOMAIN m.files |-> m.files[k].path])
    /\ m.layout = "chunked" => m.range # None

ValidateManifest(m) == CaptureManifest(m) /\ PayloadHash(m.files) # None /\ PayloadHash(m.files) = m.payload

-----------------------------------------------------------------------------
(* job.ts and mapping.ts *)

\* buildManifestFromEpisode; hash is what each file's bytes hash to
ManifestOf(ref, scopeBits, capturedAt, hash) ==
    LET files == [k \in DOMAIN ref.files |-> [path |-> ref.files[k], hash |-> hash[ref.files[k]]]]
    IN  [layout |-> ref.layout, embodiment |-> ref.embodiment, rate |-> ref.rate,
         duration |-> ref.duration, capturedAt |-> capturedAt, channels |-> ref.channels,
         files |-> files, payload |-> PayloadHash(files),
         range |-> IF ref.range = None THEN None
                   ELSE [episode |-> ref.episode, from |-> ref.range.from, to |-> ref.range.to,
                         video |-> ref.range.video],
         scopeBits |-> scopeBits, outcome |-> ref.success, seed |-> None,
         task |-> IF ref.instruction = None THEN None
                  ELSE [id |-> None, instruction |-> ref.instruction]]

\* manifestToEpisode, without the hashes it copies; an instruction stands for
\* its hash
EpisodeOf(m) ==
    [payloadHash |-> m.payload,
     taskId |-> IF m.task = None THEN None
                ELSE IF m.task.id # None THEN m.task.id ELSE m.task.instruction,
     capturedAt |-> m.capturedAt, durationMs |-> m.duration, scopeBits |-> m.scopeBits,
     channels |-> IF Len(m.channels) < 255 THEN Len(m.channels) ELSE 255,
     worldSeed |-> IF m.seed = None THEN 0 ELSE m.seed,
     successFlag |-> IF m.outcome = TRUE THEN 1 ELSE 0]

\* encodeEpisode: toHex throws when a number is too wide for its field
EncodesEpisode(e) ==
    e.capturedAt < U64 /\ e.durationMs < U32 /\ e.scopeBits < U32 /\ e.worldSeed < U64

\* commitEpisode up to the append: what it throws, or the leaf
CommitOf(m) ==
    IF ~ValidateManifest(m) THEN [answer |-> "unprocessable", leaf |-> None]
    ELSE IF ~EncodesEpisode(EpisodeOf(m)) THEN [answer |-> "internal", leaf |-> None]
    ELSE [answer |-> "logged", leaf |-> EpisodeOf(m)]

-----------------------------------------------------------------------------
(* What the worker gives the checks of a logged episode (worker.ts)        *)

\* buildEpisodeRef: what a manifest says of its episode.  The episode's number is
\* only in its range.
EpisodeRefOf(m) ==
    [episode |-> IF m.range = None THEN 0 ELSE m.range.episode, layout |-> m.layout,
     files |-> [k \in DOMAIN m.files |-> m.files[k].path], range |-> m.range, frames |-> 0,
     rate |-> m.rate, duration |-> m.duration,
     instruction |-> IF m.task = None THEN None ELSE m.task.instruction,
     channels |-> m.channels, embodiment |-> m.embodiment, success |-> m.outcome]

\* materializeDataset: the files of a manifest in a directory of their own, each
\* opened by its hash (here the contents are their own hash)
MaterializeDataset(files) ==
    [files |-> [path \in {files[k].path : k \in DOMAIN files} |->
                   files[CHOOSE k \in DOMAIN files : files[k].path = path].hash]]

\* runChecksForEpisode: the rows and the pictures that the checks are run over
Checked(m) ==
    LET ref == EpisodeRefOf(m)
        dir == MaterializeDataset(m.files)
    IN  [rows |-> ReadEpisodeFrames(ref, dir), pictures |-> MotionPictures(ref, dir)]
=============================================================================
