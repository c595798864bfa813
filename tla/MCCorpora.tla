----------------------------- MODULE MCCorpora ------------------------------
(***************************************************************************)
(* Corpora for TLC: two corpora of the first episode, whose consent may be *)
(* revoked; the second episode is logged before, between or after them.    *)
(***************************************************************************)
EXTENDS Corpora, TLC

CONSTANTS e1, e2, c1, c2

OneEpisode   == {e1}
TwoEpisodes  == {e1, e2}
TheFirst     == {{e1}}
TwoCorpora   == {c1, c2}
=============================================================================
