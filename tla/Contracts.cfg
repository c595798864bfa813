SPECIFICATION ContractsSpec
CONSTANTS
    a1 = a1
    a2 = a2
    r1 = r1
    r2 = r2
    k1 = k1
    k2 = k2
    t1 = t1
    m1 = m1
    zero = zero
    none = none
    Address <- MCAddress
    ZeroAddress = zero
    Root <- MCRoot
    NoRoot = none
    Key <- MCKey
    MaxSize = 3
    MaxAnchors = 4
    TermsHash <- MCTerms
    Manifest <- MCManifest
    Price <- MCPrice
    Treasuries <- MCTreasuries
    Successors <- MCSuccessors
    MaxCorpora = 1
    MaxReceipts = 2
    MaxDepth = 2
INVARIANTS
    HeadsNeverFork
    FirstSighting
    MoneyIsAccountedFor
    SuppliersAreMadeWhole
    ReceiptsNameAnchoredCorpora
PROPERTIES
    ImplementsLedger
