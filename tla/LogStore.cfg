SPECIFICATION Spec
CONSTANTS
    api = api
    daemon = daemon
    nobody = nobody
    l1 = l1
    l2 = l2
    l3 = l3
    l4 = l4
    l5 = l5
    l6 = l6
    l7 = l7
    none = none
    Process <- MCProcess
    NoProcess = nobody
    Leaf <- MCLeaf
    NoLeaf = none
SYMMETRY Symmetry
INVARIANTS
    CacheIsTheTree
    AnswersHold
    ReadersSeeOneLog
PROPERTIES
    ImplementsLeafLog
