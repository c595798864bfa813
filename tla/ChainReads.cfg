SPECIFICATION ReadsSpec
CONSTANTS
    p1 = p1
    p2 = p2
    m1 = m1
    m2 = m2
    Client = {p1, p2}
    GraspOrder <- MCOrder
    SoldManifest = {m1, m2}
    Nothing = nothing
    Ttl = 2
    Delay = 1
    MaxHeads = 2
    MaxSealed = 2
INVARIANTS
    ConfirmationsHold
    BuyersGetWhatTheyRead
PROPERTY
    AnswersAreRecent
SYMMETRY MCSymmetry
