------------------------------ MODULE Lerobot ------------------------------
(***************************************************************************)
(* services/api/src/ingest/lerobot.ts: the episodes of a dataset directory *)
(* in either layout of LeRobot, and the rows that the checks are given for *)
(* one of them (services/verify/src/run.ts).                               *)
(*                                                                         *)
(* A directory is [major, fps, robot, features, meta, files].  meta holds  *)
(* the metadata rows, file by file in the order of their names; files maps *)
(* a path to the rows (or pictures) in it.  A path is                      *)
(* <<directory, camera, chunk, file>>: the templates pad numbers with      *)
(* zeroes, so paths are in the order of their bytes when the numbers are.  *)
(* Row numbers count from the start of the data file, as Range's comment   *)
(* says (lerobot.ts:46-49).                                                *)
(***************************************************************************)
EXTENDS Checks

DataDir   == 1
VideoDir  == 2

\* utf8Compare
Below(a, b) ==
    \E k \in DOMAIN a : /\ a[k] < b[k]
                        /\ \A l \in 1 .. k - 1 : a[l] = b[l]
Sorted(S) == SetToSortSeq(S, Below)

\* parquetReadObjects with rowStart and rowEnd
RowsBetween(rows, from, to) == SubSeq(rows, from + 1, Least({to, Len(rows)}))

-----------------------------------------------------------------------------
\* channelsFromFeatures; hz is left out when the dataset has no fps
ChannelsOf(ds) ==
    LET names == SetToSortSeq({f.name : f \in ds.features}, LAMBDA a, b : a < b)
    IN  [k \in DOMAIN names |-> [name |-> names[k], hz |-> ds.fps]]

\* videoCameras
Cameras(ds) == {f.name : f \in {g \in ds.features : g.video}}

\* deriveSuccess: of the first of the two columns that the first row has
Success(rows) ==
    LET columns == SelectSeq(<<"success", "next.success">>,
                             LAMBDA column : rows # <<>> /\ column \in DOMAIN rows[1])
    IN  IF columns = <<>> THEN None ELSE \E k \in DOMAIN rows : rows[k][columns[1]]

\* Math.round((frames / rate) * 1000)
Duration(frames, rate) == IF rate > 0 THEN (2000 * frames + rate) \div (2 * rate) ELSE 0

\* buildEpisode: a file that is not there costs this episode and no other
BuildEpisode(ds, layout, row, paths, range, rows) ==
    LET rate == IF ds.fps = None THEN 0 ELSE ds.fps IN
    IF ~(paths \subseteq DOMAIN ds.files) THEN <<>>
    ELSE << [episode |-> row.episode, layout |-> layout, files |-> Sorted(paths), range |-> range,
             frames |-> row.length, rate |-> rate, duration |-> Duration(row.length, rate),
             instruction |-> IF row.tasks = <<>> THEN None ELSE row.tasks,
             channels |-> ChannelsOf(ds), embodiment |-> ds.robot,
             success |-> Success(rows)] >>

-----------------------------------------------------------------------------
\* readChunkedEpisodes: a camera that the metadata row does not name is passed
\* over
ChunkedRange(ds, row) ==
    [from |-> row.from, to |-> row.to,
     video |-> [c \in Cameras(ds) \cap DOMAIN row.video |->
                    [from |-> row.video[c].from, to |-> row.video[c].to]]]
ChunkedEpisode(ds, row) ==
    LET data   == <<DataDir, 0>> \o row.data
        videos == {<<VideoDir, c>> \o row.video[c].file : c \in Cameras(ds) \cap DOMAIN row.video}
        rows   == IF data \in DOMAIN ds.files THEN RowsBetween(ds.files[data], row.from, row.to)
                  ELSE <<>>
    IN  BuildEpisode(ds, "chunked", row, {data} \cup videos, ChunkedRange(ds, row), rows)

\* readPerEpisodeEpisodes: every camera is expected to have a file
PerEpisode(ds, row) ==
    LET data   == <<DataDir, 0, 0, row.episode>>
        videos == {<<VideoDir, c, 0, row.episode>> : c \in Cameras(ds)}
        rows   == IF data \in DOMAIN ds.files THEN ds.files[data] ELSE <<>>
    IN  BuildEpisode(ds, "per_episode", row, {data} \cup videos, None, rows)

\* The rows of the chunked layout are put in order, those of episodes.jsonl are
\* taken as they come.
ReadChunkedEpisodes(ds) ==
    LET rows == SortSeq(FlattenSeq(ds.meta), LAMBDA a, b : a.episode < b.episode)
    IN  FlattenSeq([k \in DOMAIN rows |-> ChunkedEpisode(ds, rows[k])])
ReadPerEpisodeEpisodes(ds) ==
    LET rows == FlattenSeq(ds.meta)
    IN  FlattenSeq([k \in DOMAIN rows |-> PerEpisode(ds, rows[k])])

\* readDataset: codebase_version decides the layout
ReadDataset(ds) == IF ds.major >= 3 THEN ReadChunkedEpisodes(ds) ELSE ReadPerEpisodeEpisodes(ds)

-----------------------------------------------------------------------------
\* files.find: the first of the paths in this directory
FileIn(ref, dir, camera) ==
    LET at == {k \in DOMAIN ref.files : ref.files[k][1] = dir /\ ref.files[k][2] = camera}
    IN  IF at = {} THEN None ELSE ref.files[Least(at)]

\* readEpisodeFrames
ReadEpisodeFrames(ref, ds) ==
    LET rows == ds.files[FileIn(ref, DataDir, 0)] IN
    IF ref.range # None THEN RowsBetween(rows, ref.range.from, ref.range.to)
    ELSE SelectSeq(rows, LAMBDA row : row.episode = ref.episode)

\* computeMotion (run.ts): the pictures of the first camera's window; an
\* episode without a range is judged without its video.
MotionPictures(ref, ds) ==
    LET cameras == IF ref.range = None THEN {} ELSE DOMAIN ref.range.video
        camera  == Least(cameras)
    IN  IF cameras = {} THEN None
        ELSE IF FileIn(ref, VideoDir, camera) = None THEN None
        ELSE RowsBetween(ds.files[FileIn(ref, VideoDir, camera)],
                         ref.range.video[camera].from, ref.range.video[camera].to)
=============================================================================
