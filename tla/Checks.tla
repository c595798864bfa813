------------------------------- MODULE Checks -------------------------------
(***************************************************************************)
(* The checks of services/verify, as functions of one recording (of dedup, *)
(* of the trajectories seen before as well).                               *)
(* Numbers are integers in units fine enough that the divisions below are  *)
(* exact (a bound on the inputs); the rounding of floating point, the      *)
(* discrete cosine and Fourier transforms and the square root over several *)
(* joints are left out. A recording has one timestamp and one row of joint *)
(* positions for each frame; frames are numbered from 1.                   *)
(***************************************************************************)
EXTENDS Integers, Sequences, FiniteSets, SequencesExt

CONSTANTS
    WithinNum, WithinDen,  \* min_within_tolerance_fraction, 99/100 in the code
    Tolerance, MaxAccel,   \* of kinematics.v1
    None                   \* null and undefined

CONSTANTS  \* of dedup.v1
    Unit,         \* what 1 is after normalisation
    SampleTicks,  \* ticks between two samples of the grid (10 Hz)
    MinTicks,     \* MIN_DURATION_S
    BandDen,      \* 1 / DTW_BAND_FRACTION
    Exact, Near,  \* T_exact and T_near, in these units
    Bins, BinWidth,  \* the velocity histogram
    Planes,       \* hyperplanes of the LSH tables: Planes[table][plane][bin]
    Limit         \* candidates that query() looks at

Dist(a, b)   == IF a < b THEN b - a ELSE a - b
Least(S)     == CHOOSE x \in S : \A y \in S : x <= y
Clip(x, lo, hi) == IF x < lo THEN lo ELSE IF x > hi THEN hi ELSE x
Total(s)     == FoldLeft(LAMBDA sum, x : sum + x, 0, s)
Backwards(s) == Reverse(s)

Pass == [result |-> "pass", reason |-> "", frame |-> 0]
Inconclusive(why) == [result |-> "inconclusive", reason |-> why, frame |-> 0]

\* A check's rules in the order of its code; the first that is broken anywhere
\* is reported with the first frame that breaks it.
Rule(why, frames) == [reason |-> why, at |-> frames]
FirstBroken(rules) ==
    LET broken == {r \in DOMAIN rules : rules[r].at # {}} IN
    IF broken = {} THEN Pass
    ELSE LET rule == rules[Least(broken)] IN
         [result |-> "fail", reason |-> rule.reason, frame |-> Least(rule.at)]

-----------------------------------------------------------------------------
(* timing.v1                                                               *)

Gap(ts, k) == ts[k] - ts[k - 1]
Later(ts)  == 2 .. Len(ts)

TooLong(ts, period) == {k \in Later(ts) : Gap(ts, k) > 5 * period}
OffBeat(ts, period) == {k \in Later(ts) : 4 * Dist(Gap(ts, k), period) > period}

Timing(ts, period, duration) ==
    LET deltas == Len(ts) - 1
        within == deltas - Cardinality(OffBeat(ts, period)) IN
    IF period = 0 THEN Inconclusive("rate")
    ELSE FirstBroken(<<
        Rule("no frames", IF ts = <<>> THEN {1} ELSE {}),
        Rule("order", {k \in Later(ts) : Gap(ts, k) <= 0}),
        Rule("gap", TooLong(ts, period)),
        Rule("beat", IF deltas > 0 /\ within * WithinDen < WithinNum * deltas
                     THEN OffBeat(ts, period) ELSE {}),
        Rule("count", IF Dist(Len(ts) * period, duration) > 2 * period THEN {1} ELSE {}) >>)

-----------------------------------------------------------------------------
(* kinematics.v1                                                           *)

OutOfRange(series, limits) ==
    {k \in DOMAIN series : \E j \in DOMAIN limits :
        \/ series[k][j] < limits[j][1] - Tolerance
        \/ series[k][j] > limits[j][2] + Tolerance}
Step(series, j, k) == series[k][j] - series[k - 1][j]
TooFast(series, maxVel, rate) ==
    {k \in 2 .. Len(series) : \E j \in DOMAIN maxVel : Dist(Step(series, j, k), 0) * rate > maxVel[j]}

\* A slip used as a mutant: the first two velocities are not compared.
JerkySkippingFirst(series, maxVel, rate) ==
    {k \in 4 .. Len(series) : \E j \in DOMAIN maxVel :
        Dist(Step(series, j, k), Step(series, j, k - 1)) * rate * rate > MaxAccel}
Jerky(series, maxVel, rate) ==
    {k \in 3 .. Len(series) : \E j \in DOMAIN maxVel :
        Dist(Step(series, j, k), Step(series, j, k - 1)) * rate * rate > MaxAccel}

SeriesRules(why, series, robot, rate) ==
    << Rule(why[1], OutOfRange(series, robot.limits)),
       Rule(why[2], TooFast(series, robot.maxVel, rate)),
       Rule(why[3], Jerky(series, robot.maxVel, rate)) >>

Kinematics(state, action, robot, rate) ==
    IF robot = None THEN Inconclusive("no limits")
    ELSE IF rate <= 0 THEN Inconclusive("rate")
    ELSE IF state = <<>> THEN FirstBroken(<<Rule("no frames", {1})>>)
    ELSE IF Len(state[1]) # Len(robot.limits) THEN Inconclusive("joints")
    ELSE FirstBroken(
        SeriesRules(<<"state range", "state velocity", "state acceleration">>, state, robot, rate)
        \o SeriesRules(<<"action range", "action velocity", "action acceleration">>,
                       action, robot, rate))

-----------------------------------------------------------------------------
(* sensor_consistency.v1 and sim_signature.v1                              *)

Point(t, v) == [t |-> t, v |-> v]
Between(a, b, t) ==
    IF b.t > a.t THEN a.v + ((b.v - a.v) * (t - a.t)) \div (b.t - a.t) ELSE a.v

\* The binary search for the two points around t.
InterpAt(points, t) ==
    LET last == Len(points)
        search[lo \in Nat, hi \in Nat] ==
            IF hi - lo <= 1 THEN Between(points[lo], points[hi], t)
            ELSE LET mid == (lo + hi) \div 2 IN
                 IF points[mid].t <= t THEN search[mid, hi] ELSE search[lo, mid]
    IN  IF points = <<>> THEN 0
        ELSE IF t <= points[1].t THEN points[1].v
        ELSE IF t >= points[last].t THEN points[last].v
        ELSE search[1, last]

\* Speed between two frames (of one joint), at twice the time of their middle.
RawSpeed(state, ts) ==
    LET steps == SelectSeq([k \in 1 .. Len(ts) - 1 |-> k + 1], LAMBDA k : Gap(ts, k) > 0)
    IN  [s \in DOMAIN steps |->
            Point(ts[steps[s]] + ts[steps[s] - 1],
                  Dist(Step(state, 1, steps[s]), 0) \div Gap(ts, steps[s]))]

\* n times the covariance, and the two variances, each times n.
Moments(a, b) ==
    LET n == Len(a)
        m(x, y) == n * Total([k \in 1 .. n |-> x[k] * y[k]]) - Total(x) * Total(y)
    IN  [cov |-> m(a, b), varA |-> m(a, a), varB |-> m(b, b)]

\* rho against its thresholds 2/5 and 1/5.
Correlates(mo)   == mo.cov >= 0 /\ 25 * mo.cov * mo.cov >= 4 * mo.varA * mo.varB
Contradicts(mo)  == mo.cov < 0 \/ 25 * mo.cov * mo.cov < mo.varA * mo.varB

\* motionTicks: ticks between two samples of the video's motion.
Sensor(ts, state, motion, motionTicks) ==
    LET points == RawSpeed(state, ts)
        speeds == [k \in DOMAIN motion |-> InterpAt(points, 2 * (ts[1] + (k - 1) * motionTicks))]
        mo     == Moments(speeds, motion) IN
    IF motion = None THEN Inconclusive("no video")
    ELSE IF ts = <<>> \/ Len(ts) # Len(state) THEN Inconclusive("no frames")
    ELSE IF Len(motion) < 2 THEN Inconclusive("motion samples")
    ELSE IF points = <<>> THEN Inconclusive("speed samples")
    ELSE IF mo.varA <= 0 \/ mo.varB <= 0 THEN Inconclusive("degenerate")
    ELSE IF Correlates(mo) THEN Pass
    ELSE Inconclusive(IF Contradicts(mo) THEN "downgraded" ELSE "weak")

\* The features that make a recording look generated: joints that stand still
\* between frames, a clock without jitter, video frames without any change.
ExactRepeats(state) ==
    20 * Cardinality({k \in Later(state) : state[k] = state[k - 1]}) > Len(state) - 1
SteadyClock(ts) == Len(ts) >= 3 /\ \A k \in Later(ts) : Gap(ts, k) = Gap(ts, 2)
StillVideo(motion) ==
    motion # <<>> /\ 5 * Cardinality({k \in DOMAIN motion : motion[k] = 0}) >= Len(motion)

\* Whether the spectrum is empty above 5 Hz is an input (smooth), None when the
\* recording is too short to say.
SimSignature(ts, state, motion, smooth, source) ==
    LET tripped == (IF ExactRepeats(state) THEN 1 ELSE 0)
                   + (IF SteadyClock(ts) THEN 1 ELSE 0)
                   + (IF smooth # None /\ smooth THEN 1 ELSE 0)
                   + (IF motion # None /\ StillVideo(motion) THEN 1 ELSE 0)
    IN  IF source = "sim" THEN Pass
        ELSE IF ts = <<>> \/ Len(ts) # Len(state) THEN Inconclusive("no frames")
        ELSE IF tripped >= 3 THEN Inconclusive("downgraded")
        ELSE IF tripped = 2 THEN Inconclusive("score")
        ELSE Pass

-----------------------------------------------------------------------------
(* dedup.v1: the trajectory index, with normalisation, the grid of         *)
(* samples, locality-sensitive buckets and banded dynamic time warping.    *)
(* Normalised positions are integers 0 .. Unit; the distance of two rows   *)
(* is the sum over joints, Euclid's for one joint; of the descriptor the   *)
(* velocity histogram is kept and the cosine coefficients are left out.    *)

Infinity == 1000000

(* Normalisation and resampling                                            *)

Column(state, j) == {state[k][j] : k \in DOMAIN state}
Span(state, limits, j) ==
    IF limits # None THEN limits[j] ELSE <<Min(Column(state, j)), Max(Column(state, j))>>

\* A column that never moves lies in the middle of its span.
Normalise(state, limits) ==
    [k \in DOMAIN state |->
        [j \in DOMAIN state[k] |->
            LET span == Span(state, limits, j) IN
            IF span[1] = span[2] THEN Unit \div 2
            ELSE Clip(((state[k][j] - span[1]) * Unit) \div (span[2] - span[1]), 0, Unit)]]

\* The frame a sample is taken after: the search goes on where the last sample
\* left it, and never past the last frame but one.
Enclosing(ts, samples) ==
    LET advance[k \in Nat, t \in Nat] ==
            IF k < Len(ts) - 1 /\ ts[k + 1] < t THEN advance[k + 1, t] ELSE k
        at[s \in samples] ==
            advance[IF s = 0 THEN 1 ELSE at[s - 1], ts[1] + s * SampleTicks]
    IN  at

Resample(state, ts) ==
    LET samples == 0 .. (ts[Len(ts)] - ts[1]) \div SampleTicks
        after   == Enclosing(ts, samples) IN
    [k \in 1 .. Cardinality(samples) |->
        LET a == after[k - 1]
            b == IF a < Len(ts) THEN a + 1 ELSE a IN
        [j \in DOMAIN state[1] |->
            Between(Point(ts[a], state[a][j]), Point(ts[b], state[b][j]),
                    ts[1] + (k - 1) * SampleTicks)]]

-----------------------------------------------------------------------------
(* Dynamic time warping                                                    *)

Apart(u, v) == Total([j \in DOMAIN u |-> Dist(u[j], v[j])])
Band(n, m)  == Max({1, (Max({n, m}) + BandDen - 1) \div BandDen, Dist(n, m)})

\* A slip used as a mutant: a step to the side is forgotten.
BandedDtwWithoutLeft(a, b) ==
    LET cell[i \in 0 .. Len(a), j \in 0 .. Len(b)] ==
          IF i = 0 \/ j = 0 THEN (IF i = j THEN 0 ELSE Infinity)
          ELSE IF Dist(i, j) > Band(Len(a), Len(b)) THEN Infinity
          ELSE Apart(a[i], b[j]) + Min({cell[i - 1, j - 1], cell[i - 1, j]})
    IN  cell[Len(a), Len(b)]

BandedDtw(a, b) ==
    LET cell[i \in 0 .. Len(a), j \in 0 .. Len(b)] ==
          IF i = 0 \/ j = 0 THEN (IF i = j THEN 0 ELSE Infinity)
          ELSE IF Dist(i, j) > Band(Len(a), Len(b)) THEN Infinity
          ELSE Apart(a[i], b[j]) + Min({cell[i - 1, j - 1], cell[i - 1, j], cell[i, j - 1]})
    IN  cell[Len(a), Len(b)]

-----------------------------------------------------------------------------
(* The index: rows [leaf, robot, path] in the order its tables list them   *)

\* How many of a joint's steps fall into each bin; the outer bins are open.
Histogram(path, j) ==
    [bin \in 0 .. Bins - 1 |->
        Cardinality({k \in 2 .. Len(path) :
            bin = Clip((Step(path, j, k) + Unit) \div BinWidth, 0, Bins - 1)})]

\* The side of each plane on which a trajectory's descriptor lies.
Buckets(path) ==
    [table \in DOMAIN Planes |->
        {plane \in DOMAIN Planes[table] :
            Total([bin \in 1 .. Bins |->
                      Planes[table][plane][bin] * Histogram(path, 1)[bin - 1]]) >= 0}]

\* The first Limit leaves that share a bucket, table by table; those of another
\* robot are dropped afterwards.
Query(index, path, robot, leaf) ==
    LET mine == Buckets(path)
        gather(found, table) ==
            found \o SelectSeq(index, LAMBDA row :
                /\ row.leaf # leaf /\ ~\E k \in DOMAIN found : found[k] = row
                /\ Buckets(row.path)[table] = mine[table])
        found == FoldLeft(gather, <<>>, [t \in DOMAIN Planes |-> t])
    IN  SelectSeq(SubSeq(found, 1, Min({Limit, Len(found)})), LAMBDA row : row.robot = robot)

\* A row of the same leaf is replaced.
Insert(index, leaf, robot, path) ==
    Append(SelectSeq(index, LAMBDA row : row.leaf # leaf),
           [leaf |-> leaf, robot |-> robot, path |-> path])

-----------------------------------------------------------------------------
\* A candidate's distance: cost over the two lengths, kept as a fraction.
Distance(path, row) == [cost |-> BandedDtw(path, row.path), of |-> Len(path) + Len(row.path)]
Closer(d, e)  == d.cost * e.of < e.cost * d.of
Under(d, limit) == d.cost < limit * d.of

\* The verdict, and the index with this trajectory inserted after deciding.
Dedup(state, ts, robot, limits, leaf, index, emitFail) ==
    LET skip(why) == [verdict |-> Inconclusive(why), index |-> index]
        path  == Resample(Normalise(state, limits), ts)
        found == {Distance(path, row) : row \in Range(Query(index, path, robot, leaf))}
        near  == CHOOSE d \in found : \A e \in found : ~Closer(e, d)
    IN  IF state = <<>> \/ Len(state) # Len(ts) THEN skip("no frames")
        ELSE IF \E k \in Later(ts) : Gap(ts, k) <= 0 THEN skip("order")
        ELSE IF ts[Len(ts)] - ts[1] < MinTicks THEN skip("short")
        ELSE IF limits # None /\ Len(limits) # Len(state[1]) THEN skip("joints")
        ELSE IF Len(path) < 2 THEN skip("short")
        ELSE [index   |-> Insert(index, leaf, robot, path),
              verdict |->
                IF found = {} THEN Pass
                ELSE IF Under(near, Exact)
                     THEN IF emitFail THEN [Pass EXCEPT !.result = "fail"]
                          ELSE Inconclusive("downgraded")
                ELSE IF Under(near, Near) THEN Inconclusive("near")
                ELSE Pass]
=============================================================================
