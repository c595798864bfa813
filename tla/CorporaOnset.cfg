SPECIFICATION Spec
CONSTANTS
    e1 = e1
    e2 = e2
    c1 = c1
    c2 = c2
    Corpus <- TwoCorpora
    Episode <- TwoEpisodes
    Key <- OneEpisode
    Members <- TheFirst
    MaxClock = 2
    MaxSeals = 1
    MaxCrashes = 1
INVARIANTS
    OnsetsShowRevocations
