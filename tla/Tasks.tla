------------------------------- MODULE Tasks -------------------------------
(***************************************************************************)
(* A task is a distribution over scenes: packages/protocol/src/taskspec.ts *)
(* says which specifications may be published, sampler.ts turns one and a  *)
(* seed into a scene.                                                      *)
(*                                                                         *)
(* Lengths, angles and light are integers; an object's count is given in   *)
(* halves, so that ranges without a whole number can be written.  A range  *)
(* that is left out is None.  Draw number i of a seed is the hash of task, *)
(* seed and i: any number.  A seed is therefore the sequence of its draws, *)
(* each of them one of the Grain numbers 0/Grain, 1/Grain, ...             *)
(***************************************************************************)
EXTENDS Lerobot
LOCAL INSTANCE SequencesExt

CONSTANTS
    Grain,        \* draws in [0, 1) are multiples of 1/Grain
    HighDof,      \* embodiments that no cursor can drive joint by joint
    Predicates    \* what a success predicate may call

ActionSpaces == {"ee_pose_gripper", "joint_position", "base_velocity", "whole_body_retarget"}

-----------------------------------------------------------------------------
(* validateTaskSpec *)

Spread(r) == IF r = None THEN 0 ELSE Dist(r[2], r[1])

\* The errors about one object; z and yaw may have their ends in any order
ObjectErrors(o) ==
    { why \in {"category", "instances", "x", "y", "count"} :
        \/ why = "category" /\ o.category = ""
        \/ why = "instances" /\ o.instances = <<>>
        \/ why = "x" /\ (o.x = None \/ o.x[1] > o.x[2])
        \/ why = "y" /\ (o.y = None \/ o.y[1] > o.y[2])
        \/ why = "count" /\ o.count # None /\ (o.count[1] < 0 \/ o.count[1] > o.count[2]) }

\* A slip used as a mutant: a range of heights counts as variation.
VariesInHeight(spec) ==
    \/ Spread(spec.intensity) > 0 \/ Spread(spec.temperature) > 0
    \/ \E k \in DOMAIN spec.objects :
          LET o == spec.objects[k] IN
          \/ Len(o.instances) > 1
          \/ \E r \in {o.x, o.y, o.z, o.yaw, o.count} : Spread(r) > 0
Varies(spec) ==
    \/ Spread(spec.intensity) > 0 \/ Spread(spec.temperature) > 0
    \/ \E k \in DOMAIN spec.objects :
          LET o == spec.objects[k] IN
          \/ Len(o.instances) > 1
          \/ \E r \in {o.x, o.y, o.yaw, o.count} : Spread(r) > 0

\* Every error the specification is refused for
TaskErrors(spec) ==
    UNION {ObjectErrors(spec.objects[k]) : k \in DOMAIN spec.objects} \cup
    { why \in {"version", "embodiment", "actionSpace", "instruction", "base", "objects", "variation",
               "predicate", "tolerance", "settle", "score", "duration", "target", "driving"} :
        \/ why = "version" /\ spec.version # 1
        \/ why = "embodiment" /\ spec.embodiment = ""
        \/ why = "actionSpace" /\ spec.actionSpace \notin ActionSpaces
        \/ why = "instruction" /\ spec.instruction < 8
        \/ why = "base" /\ spec.base = ""
        \/ why = "objects" /\ spec.objects = <<>>
        \/ why = "variation" /\ ~Varies(spec)
        \/ why = "predicate" /\ (spec.predicates = {} \/ ~(spec.predicates \subseteq Predicates))
        \/ why = "tolerance" /\ spec.tolerance <= 0
        \/ why = "settle" /\ spec.settle < 0
        \/ why = "score" /\ spec.score \notin 0 .. 10000
        \/ why = "duration" /\ spec.duration <= 0
        \/ why = "target" /\ spec.target <= 0
        \/ why = "driving" /\ spec.actionSpace = "joint_position" /\ spec.embodiment \in HighDof }

-----------------------------------------------------------------------------
(* sampler.ts: a walk through the draws, d = [seed, i] *)

\* unit
DrawOf(d) == d.seed[d.i + 1]
Drawn(d) == [d EXCEPT !.i = @ + 1]

\* range: the value, and the draws that are left
InRange(d, r, fallback) ==
    IF r = None THEN [v |-> fallback, d |-> d]
    ELSE [v |-> r[1] + (DrawOf(d) * (r[2] - r[1])) \div Grain, d |-> Drawn(d)]

\* int, of a range in halves: without a whole number in it, the one above,
\* and nothing is drawn
Whole(d, r, fallback) ==
    LET lo == (r[1] + 1) \div 2  hi == r[2] \div 2 IN
    IF r = None THEN [v |-> fallback, d |-> d]
    ELSE IF hi < lo THEN [v |-> lo, d |-> d]
    ELSE [v |-> lo + (DrawOf(d) * (hi - lo + 1)) \div Grain, d |-> Drawn(d)]

Pick(d, xs) == [v |-> xs[1 + (((DrawOf(d) * Len(xs)) \div Grain) % Len(xs))], d |-> Drawn(d)]

\* One object: instance, x, y, z, yaw
Place(o, d) ==
    LET instance == Pick(d, o.instances)
        x   == InRange(instance.d, o.x, 0)
        y   == InRange(x.d, o.y, 0)
        z   == InRange(y.d, o.z, 0)
        yaw == InRange(z.d, o.yaw, 0)
    IN  [placed |-> [category |-> o.category, instance |-> instance.v,
                     x |-> x.v, y |-> y.v, z |-> z.v, yaw |-> yaw.v], d |-> yaw.d]

\* Objects in declared order, each drawing its count and then its poses
PlaceAll(objects, start) ==
    FoldLeft(LAMBDA at, o :
        LET n == Whole(at.d, o.count, 1)
            each[k \in 0 .. n.v] ==
                IF k = 0 THEN [placed |-> at.placed, d |-> n.d]
                ELSE LET one == Place(o, each[k - 1].d)
                     IN  [placed |-> Append(each[k - 1].placed, one.placed), d |-> one.d]
        IN  each[n.v], [placed |-> <<>>, d |-> start], objects)

SampleScene(spec, seed) ==
    LET all   == PlaceAll(spec.objects, [seed |-> seed, i |-> 0])
        light == InRange(all.d, spec.intensity, 1)
    IN  [base |-> spec.base, embodiment |-> spec.embodiment, objects |-> all.placed,
         intensity |-> light.v, temperature |-> InRange(light.d, spec.temperature, 5000).v]

\* sceneHash, by what it is made of
SceneHash(scene) ==
    <<scene.base, scene.embodiment>> \o scene.objects \o <<scene.intensity, scene.temperature>>
=============================================================================
