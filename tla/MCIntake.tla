------------------------------ MODULE MCIntake ------------------------------
(***************************************************************************)
(* Intake for TLC: two requests at a time, one dataset of two episodes the *)
(* second of which has a bad manifest, one manifest for POST /episodes,    *)
(* two checks of which one may publish a failure, and one failed write or  *)
(* restart.                                                                *)
(***************************************************************************)
EXTENDS Intake, TLC

CONSTANTS c1, c2, o1, o2, s1, s2

MCChecks == <<[name |-> "timing", emitFail |-> TRUE], [name |-> "dedup", emitFail |-> FALSE]>>
MCSymmetry == {p @@ q @@ r : p \in Permutations({c1, c2}), q \in Permutations({o1, o2}),
                             r \in Permutations({s1, s2})}
=============================================================================
