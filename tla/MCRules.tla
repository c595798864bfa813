------------------------------- MODULE MCRules -------------------------------
(***************************************************************************)
(* Rules for TLC.                                                          *)
(*   Logs of one to nine leaves, so that the trees have every shape up to  *)
(* four levels; a corpus of three of them; three keys of a sparse tree of  *)
(* depth three, two of which are neighbours.                               *)
(*   Recordings of three and five frames of one joint, with gaps that need *)
(* interpolation and more than one step ahead; one robot has limits, the   *)
(* other has none.                                                         *)
(*   Datasets of two or three recordings of one or two frames, in one or   *)
(* two data files; manifests of up to three files, one with a path that is *)
(* refused; tasks of one or two objects with ranges that are empty, turned *)
(* round or without a whole number; JSON values two levels deep, with keys *)
(* and strings that hold whole or half pairs of surrogates.                *)
(*   Leaves with five different hashes and numbers of one and two bytes,   *)
(* those that no writer accepts among them; up to three claims of four     *)
(* checks, one of which blocks, one of which is not enabled and one of     *)
(* which the configuration does not know.                                  *)
(*   One organisation beside the operator's and the verifier's, one API    *)
(* key, two signing keys, two seconds; two receipts of two buyers, one for *)
(* two files and one for the second of them.                               *)
(*   Tables of two to five anchors, with one head twice, more revoked than *)
(* the first rows know, or a root of one leaf more than the size; pages of *)
(* at most three.                                                          *)
(***************************************************************************)
EXTENDS Rules

CONSTANTS l1, l2, l3, l4, l5, l6, l7, l8, l9, v0, v1, v6, h1, h2, h3, h4, h5

MCLog        == <<l1, l2, l3, l4, l5, l6, l7, l8, l9>>
MCRevocation == [k \in {0, 1, 6} |-> CASE k = 0 -> v0 [] k = 1 -> v1 [] k = 6 -> v6]
MCCorpus     == <<3, 4, 6>>

MCHash    == {h1, h2, h3, h4, h5}
MCHashes  == <<h1, h2, h3, h4, h5>>
MCNumbers == <<{1, 200}, {1, 200}, {0, 1, 258}, {0, 1, 3, 5}>>

MCPlanes  == << <<<<1, -1, 1, -1>>>>, <<<<-2, 1, 1, 1>>>> >>
MCMotions == [1 .. 3 -> {0, 1, 4}]
Moves(xs, gap, robot) ==
    [state |-> [k \in DOMAIN xs |-> <<xs[k]>>], robot |-> robot,
     ts |-> [k \in DOMAIN xs |-> IF k = Len(xs) THEN k - 2 + gap ELSE k - 1]]
MCEarlier == {<<>>, <<Moves(<<0, 1, 2>>, 2, "r1")>>, <<Moves(<<0, 0, 1, 2, 2>>, 4, "r2")>>,
    <<Moves(<<0, 2, 0, 1>>, 1, "r2"), Moves(<<2, 1, 0>>, 2, "r2")>>,
    <<Moves(<<1, 1, 2, 0>>, 2, "r1"), Moves(<<1, 1, 2, 0>>, 2, "r2")>>}
MCRobots  == [r1 |-> [limits |-> <<<<0, 2>>>>, maxVel |-> <<3>>], r2 |-> None]

MCConfig == [check \in {"timing.v1", "sim_signature.v1", "old.v1"} |->
    [enabled |-> check # "old.v1", blocking |-> check # "sim_signature.v1"]]
MCClaims == [check : {"timing.v1", "sim_signature.v1"}, result : {"pass", "fail", "inconclusive"}, issuedAt : {1, 2}]
            \cup [check : {"sensor_consistency.v1"}, result : {"pass", "fail"}, issuedAt : {1, 2}]
            \cup [check : {"old.v1"}, result : {"pass", "fail"}, issuedAt : {2}]
Known(anchored, source, signature, video) ==
    [anchored |-> anchored, signature |-> signature, consent |-> {}, attested |-> TRUE, source |-> source,
     controllerAttested |-> signature = "valid", hasVideo |-> video, claims |-> <<>>]
MCEpisodes == {Known(FALSE, "sim", "none", FALSE), Known(TRUE, "sim", "expired", FALSE),
               Known(TRUE, "teleop_real", "valid", FALSE), Known(TRUE, "autonomous_real", "valid", TRUE)}

MCPath(file) == <<DataDir, 0, 0, file>>
MCFiles     == <<[path |-> MCPath(0), hash |-> "a"], [path |-> MCPath(1), hash |-> "b"],
                 [path |-> <<VideoDir, 1, 0, 0>>, hash |-> "a"]>>
MCLocalName == [path \in {MCFiles[k].path : k \in DOMAIN MCFiles} |-> path]
MCBadPath  == {MCPath(9)}
MCEntries  == [path : {MCPath(0), MCPath(1), MCPath(9)}, hash : {"a", "b"}]
MCFileSets == {S \in SUBSET MCEntries : \A f, g \in S : f.path = g.path => f = g}

MCObjects == [category : {"cup"}, instances : {<<"c1">>, <<"c1", "c2">>},
              x : {<<0, 0>>, <<0, 4>>, <<4, 0>>}, y : {<<1, 1>>}, z : {None, <<0, 2>>},
              yaw : {None, <<2, 0>>}, count : {None, <<0, 0>>, <<1, 1>>, <<2, 2>>, <<2, 4>>, <<2, 3>>}]
Box(y, count) == [category |-> "box", instances |-> <<"b1">>, x |-> <<0, 0>>, y |-> y, z |-> None,
                  yaw |-> None, count |-> count]
Task(objects, intensity, temperature) ==
    [version |-> 1, embodiment |-> "arm", actionSpace |-> "joint_position", instruction |-> 9,
     base |-> "table", objects |-> objects, intensity |-> intensity, temperature |-> temperature,
     predicates |-> {"on"}, tolerance |-> 5, settle |-> 0, score |-> 8000, duration |-> 60, target |-> 50]
MCSpecs ==
    LET published == Task(<<Box(<<0, 2>>, None)>>, None, None) IN
    {Task(<<o>> \o rest, lights[1], lights[2]) : o \in MCObjects,
        rest \in {<<>>, <<Box(<<1, 1>>, None)>>, <<Box(<<0, 2>>, <<0, 2>>)>>},
        lights \in {<<None, None>>, <<<<1, 3>>, None>>, <<<<1, 1>>, <<4000, 6000>>>>}}
    \cup {[published EXCEPT !.version = 2], [published EXCEPT !.embodiment = ""],
          [published EXCEPT !.embodiment = "unitree_g1"], [published EXCEPT !.actionSpace = "mouse"],
          [published EXCEPT !.instruction = 3], [published EXCEPT !.base = ""],
          [published EXCEPT !.objects = <<>>], [published EXCEPT !.predicates = {"on", "pretty"}],
          [published EXCEPT !.tolerance = 0], [published EXCEPT !.score = 10001]}
MCSeeds == {[k \in 1 .. 26 |-> 0], [k \in 1 .. 26 |-> 1], [k \in 1 .. 26 |-> k % 2]}

MCOrder   == <<"a", "b", "hi", "lo", "fffd">>
MCControl == [lf |-> "n"]
MCHigh    == [hi |-> "d800"]
MCLow     == [lo |-> "dc00"]
MCAtoms   == {Json("null", "null"), Json("boolean", "true"), Json("string", <<"n">>), Json("string", <<"q">>),
              Json("string", <<"s", "n">>), Json("string", <<"lf">>), Json("string", <<"0">>),
              Json("string", <<"hi">>), Json("string", <<"lo", "hi", "lo">>), Json("string", <<"fffd", "hi", "lo">>),
              Json("string", <<"fffd">>),
              Json("number", "0"), Json("number", "-0"), Json("number", "NaN"), Json("bigint", "0"), Undefined}
Member(key, v) == [key |-> key, value |-> v]
MCFew == {Json("number", "0"), Json("string", <<"s", "n">>), Json("number", "NaN"), Undefined}
MCValues ==
    LET objects == {Json("object", <<Member(<<"b">>, v), Member(key, w)>>) :
                        key \in {<<"a">>, <<"a", "b">>}, v, w \in MCFew}
                   \cup {Json("object", <<Member(<<"a">>, w), Member(<<"b">>, v)>>) : v, w \in MCFew}
        arrays  == {Json("array", list) : list \in {<<>>} \cup {<<v>> : v \in MCAtoms} \cup {<<v, w>> : v, w \in MCFew}}
        halves  == {Json("object", <<Member(<<"lo">>, Json("number", x)), Member(<<key>>, Json("number", "0"))>>) :
                        key \in {"b", "hi", "fffd"}, x \in {"0", "1"}}
    IN  MCAtoms \cup objects \cup halves \cup arrays \cup
        {Json("object", <<Member(<<"a">>, v)>>) : v \in arrays \cup {Json("object", <<>>)}}

PubkeyOf(length, lead, curve) == [length |-> length, lead |-> lead, curve |-> curve]
MCOrgIds  == <<"o1">>
MCSecrets == <<"s1">>
MCPubkeys == [software |-> PubkeyOf(32, 1, "ed25519"), hardware |-> PubkeyOf(65, 4, "p256"),
              operator |-> PubkeyOf(32, 2, "ed25519"), verifier |-> PubkeyOf(32, 3, "ed25519")]

MCReceipts    == [r1 |-> [buyer |-> "alice", corpus |-> "c1"], r2 |-> [buyer |-> "bob", corpus |-> "c2"]]
MCCorpusFiles == [c1 |-> <<"f", "g">>, c2 |-> <<"g">>]
MCMinutes     == {-1, 0, 1, 5, 6}

AnchoredHead(size, of) == [size |-> size, of |-> of]
Row(size, of, revoked) == [size |-> size, of |-> of, revoked |-> revoked]
MCTables   == {<<Row(7, 7, {}), Row(9, 9, {})>>,
               <<Row(6, 6, {}), Row(7, 7, {}), Row(7, 7, {0}), Row(9, 9, {0})>>,
               <<Row(7, 7, {0}), Row(8, 8, {0, 1}), Row(8, 8, {0, 1, 6})>>,
               <<Row(7, 8, {}), Row(9, 9, {0})>>, <<Row(7, 7, {}), Row(8, 9, {0})>>}
MCAnchored == {<<>>, <<AnchoredHead(3, 3)>>, <<AnchoredHead(2, 2), AnchoredHead(2, 2), AnchoredHead(7, 7)>>,
               <<AnchoredHead(1, 1), AnchoredHead(4, 5), AnchoredHead(6, 6), AnchoredHead(6, 6), AnchoredHead(8, 9)>>}
=============================================================================
