--------------------------- MODULE MCAnchorDaemon ---------------------------
(***************************************************************************)
(* AnchorDaemon for TLC: a primary and one mirror that anchors half as     *)
(* often, two steps of backoff, of which one is shorter than the primary's *)
(* interval and one is longer.                                             *)
(***************************************************************************)
EXTENDS AnchorDaemon

CONSTANTS primary, mirror, k1

MCMirrors == <<mirror>>
MCKey     == {k1}
MCDelays  == <<1, 3>>
MCPause   == {1, 2}
=============================================================================
