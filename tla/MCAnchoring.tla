---------------------------- MODULE MCAnchoring -----------------------------
(***************************************************************************)
(* Anchoring for TLC.                                                      *)
(***************************************************************************)
EXTENDS Anchoring, TLC

CONSTANTS daemon, nobody, primary, mirror, k1

OneAnchorer == {daemon}
OneChain    == {primary}
TwoChains   == {primary, mirror}
OneKey      == {k1}
=============================================================================
