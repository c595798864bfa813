------------------------------ MODULE Assembly ------------------------------
(***************************************************************************)
(* The report that scripts/lib/assemble-report.mjs puts together from what *)
(* the API serves, one request after the other, for one member of the      *)
(* corpus and a claim about it. The script throws at the first answer that *)
(* is not a success: the result is then the empty set.                     *)
(*                                                                         *)
(* A row of the table of anchors is here a [idx, size, root, revoked]: one *)
(* head may be anchored again when more has been revoked.                  *)
(***************************************************************************)
EXTENDS ReportChecks, Serving

\* Files that are saved under one name have one content: the paths of LeRobot keep apart
\* when no feature's name has a slash. Of two others the script refuses the first one.
ASSUME NamesAssumption ==
    \A k, l \in DOMAIN Files :
        LocalName[Files[k].path] = LocalName[Files[l].path] => Files[k].hash = Files[l].hash

\* The script asks for one page of 500 and takes the first row with that head.
FindAnchor(anchors, head) ==
    LET rows  == AnchorPage(anchors, {}, MaxLimit).items
        found == {a \in DOMAIN rows : rows[a].root = head.root /\ rows[a].size = head.size}
    IN  {rows[a] : a \in {a \in found : \A b \in found : a <= b}}

\* GET /consent/{key}: the anchor must be known; the tree is that of now
ServeConsent(anchors, head, key, revoked) ==
    IF AnchorBy(anchors, head.root, head.size) = {} THEN NotFound
    ELSE [status |-> 200, consent |-> IF key \in revoked THEN "revoked" ELSE "live",
          bitmap |-> ConsentProof[revoked][key].bitmap,
          siblings |-> ConsentProof[revoked][key].siblings]

\* Nothing is asked for an anchor that is the sealing one.
AskedConsistency(anchors, head, seal) ==
    IF seal.size = head.size THEN [status |-> 200, proof |-> <<>>]
    ELSE ServeConsistency(anchors, seal.size, head.size)

\* leaf: the member with this index in the corpus; claim: a claim's leaf
AssembleReport(anchors, head, seal, at, claim, key, revoked) ==
    LET leaf        == CorpusLeaves[at + 1]
        consistency == AskedConsistency(anchors, head, seal)
        inLog       == ServeInclusion(anchors, leaf, head.root, head.size)
        consent     == ServeConsent(anchors, head, key, revoked)
        claimed     == ServeInclusion(anchors, claim, head.root, head.size)
        served      == {consistency, inLog, consent, claimed} IN
    {[anchor  |-> [size |-> row.size, root |-> row.root, revocations |-> ConsentRoot[row.revoked]],
      seal    |-> {[size |-> sealing.size, root |-> sealing.root] : sealing \in FindAnchor(anchors, seal)},
      consistency |-> consistency.proof,
      leaf    |-> leaf, index |-> inLog.index, preimage |-> TRUE, manifest |-> "matches",
      inLog   |-> inLog.proof,
      corpusIndex |-> at, inCorpus |-> CorpusProof[at],
      consent |-> [key |-> key, status |-> consent.consent, value |-> {},
                   bitmap |-> consent.bitmap, siblings |-> consent.siblings],
      claims  |-> {Proved(claimed.index, claimed.proof)},
      hash    |-> TRUE, files |-> Files, payload |-> PayloadHash(Files),
      delivered |-> Saved(Files), known |-> "found"] :
        row \in {row \in FindAnchor(anchors, head) :
                     FindAnchor(anchors, seal) # {} /\ \A answer \in served : answer.status = 200}}
=============================================================================
