------------------------------- MODULE Badges -------------------------------
(***************************************************************************)
(* What an episode is called: packages/protocol/src/badges.ts computes its *)
(* badges from its anchor, signature, attestation and claims, wording.ts   *)
(* whether its source may be called attested physical, and the lines that  *)
(* say so. Both take "the latest claim" of a check, each in its own way.   *)
(* The renderer of a report reads the lines again.                         *)
(***************************************************************************)
EXTENDS Integers, Sequences, FiniteSets

CONSTANT Config  \* config/checks.json: check -> [enabled, blocking]

\* The claims of a check, by their places
Of(claims, check) == {k \in DOMAIN claims : claims[k].check = check}

\* A slip used as a mutant: the claim that was listed first.
FirstListed(claims, check) ==
    LET mine == Of(claims, check) IN {claims[k].result : k \in {k \in mine : \A l \in mine : k <= l}}

\* The first of the claims with the highest issued_at (badges.ts), and the last
\* of them (wording.ts); a set with at most one result.
Latest(claims, check) ==
    LET mine == Of(claims, check) IN
    {claims[k].result : k \in {k \in mine :
        \A l \in mine : /\ claims[l].issuedAt <= claims[k].issuedAt
                        /\ l < k => claims[l].issuedAt < claims[k].issuedAt}}
LatestForSource(claims, check) ==
    LET mine == Of(claims, check) IN
    {claims[k].result : k \in {k \in mine :
        \A l \in mine : /\ claims[l].issuedAt <= claims[k].issuedAt
                        /\ l > k => claims[l].issuedAt < claims[k].issuedAt}}

Enabled  == {check \in DOMAIN Config : Config[check].enabled}
Blocking == {check \in Enabled : Config[check].blocking}

\* A check the configuration does not know still counts as failed.
Failed(claims) ==
    {check \in {claims[k].check : k \in DOMAIN claims} :
        /\ "fail" \in Latest(claims, check)
        /\ check \in DOMAIN Config => Config[check].enabled}

HasL3(claims) ==
    /\ \A check \in Blocking : Latest(claims, check) = {"pass"}
    /\ \A check \in Enabled : "fail" \notin Latest(claims, check)

-----------------------------------------------------------------------------
(* Lines of wording: their kind and what was put into them                 *)

L0Wording(consent) == [line |-> "Committed", consent |-> consent]
L1Wording          == [line |-> "Signed"]
L2Wording          == [line |-> "Attested"]
L3Wording(list)    == [line |-> "Checked", n |-> Cardinality(list), list |-> list]
PendingWording     == [line |-> "Pending"]
CheckFailedWording(check) == [line |-> "Check failed", check |-> check]

\* "physical" stands in the text of two sources
SourceText == [sim |-> <<"simulation">>, teleop_sim |-> <<"human-driven", "simulation">>,
               teleop_real |-> <<"human-driven", "physical", "robot">>,
               autonomous_real |-> <<"autonomous", "physical", "robot">>, mixed |-> <<"mixed">>]
SourceWording(source)   == [line |-> "Source", text |-> <<"declared">> \o SourceText[source]]
AttestedPhysicalWording == [line |-> "Source", text |-> <<"attested", "physical", "capture">>]

-----------------------------------------------------------------------------
Physical == {"teleop_real", "autonomous_real"}

\* isAttestedPhysical: source physical, the robot's controller attested at
\* level two, and the checks that look for a simulation passed.
IsAttestedPhysical(e) ==
    /\ e.source \in Physical
    /\ e.controllerAttested
    /\ LatestForSource(e.claims, "sim_signature.v1") = {"pass"}
    /\ e.hasVideo => LatestForSource(e.claims, "sensor_consistency.v1") = {"pass"}

\* computeSourceBlock and, for the page, episodeSourceWording
SourceBlock(e) ==
    [attested |-> IsAttestedPhysical(e),
     wording  |-> IF IsAttestedPhysical(e) THEN AttestedPhysicalWording ELSE SourceWording(e.source)]

\* Checks in the order in which the claims first name them, as a Map keeps them.
AsNamed(claims, checks) ==
    LET named[k \in 0 .. Len(claims)] ==
          IF k = 0 THEN <<>>
          ELSE IF /\ claims[k].check \in checks
                  /\ \A l \in 1 .. k - 1 : claims[l].check # claims[k].check
               THEN Append(named[k - 1], claims[k].check)
          ELSE named[k - 1]
    IN  named[Len(claims)]

ChecksPassed(claims) == {check \in Enabled : Latest(claims, check) = {"pass"}}

\* computeBadges; without an anchor there is no badge, and one line that says so.
BadgesOf(e) ==
    LET signed   == e.signature # "none" /\ e.signature = "valid"
        failed   == AsNamed(e.claims, Failed(e.claims))
        given(condition, badge, line) == IF condition THEN <<[badge |-> badge, line |-> line]>> ELSE <<>>
        ladder   == <<[badge |-> "L0", line |-> L0Wording(e.consent)]>>
                        \o given(signed, "L1", L1Wording)
                        \o given(signed /\ e.attested, "L2", L2Wording)
        checked  == given(HasL3(e.claims), "L3", L3Wording(ChecksPassed(e.claims)))
        badgesOf(rungs) == [k \in DOMAIN rungs |-> rungs[k].badge]
        linesOf(rungs)  == [k \in DOMAIN rungs |-> rungs[k].line]
        source   == SourceBlock(e)
    IN  IF ~e.anchored
        THEN [badges |-> <<>>, pending |-> TRUE, failed |-> <<>>, source |-> source,
              wording |-> <<PendingWording, source.wording>>]
        ELSE [badges |-> badgesOf(ladder \o checked), pending |-> FALSE, failed |-> failed, source |-> source,
              wording |-> linesOf(ladder) \o [k \in DOMAIN failed |-> CheckFailedWording(failed[k])]
                          \o linesOf(checked) \o <<source.wording>>]

\* The renderer of a report reads from the lines which episodes are attested.
IsAttestedFromWording(lines) == \E k \in DOMAIN lines : lines[k] = AttestedPhysicalWording

\* corpusSourcesWording over the episodes of a report
CorpusSourcesWording(episodes) ==
    [list |-> {episodes[k].source : k \in DOMAIN episodes},
     m |-> Len(episodes),
     n |-> Cardinality({k \in DOMAIN episodes : episodes[k].source \in Physical}),
     k |-> Cardinality({k \in DOMAIN episodes : IsAttestedFromWording(episodes[k].wording)})]

=============================================================================
