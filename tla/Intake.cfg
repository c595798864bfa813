SPECIFICATION Spec
CONSTANTS
    c1 = c1
    c2 = c2
    o1 = o1
    o2 = o2
    s1 = s1
    s2 = s2
    Client = {c1, c2}
    Org = {o1, o2}
    Content = {f}
    Nobody = nobody
    Refs = 2
    BadRefs = {2}
    Salt = {s1, s2}
    Manifest = {m}
    Checks <- MCChecks
    Outcome = {"fail"}
    Key = {k}
    NoKey = nokey
    MaxDatasets = 1
    MaxJobs = 1
    MaxLeaves = 5
    MaxFailures = 1
INVARIANTS
    OneLeafPerManifest
    JobResultsHold
    ChecksAreComplete
    OneRowPerOutcome
    RegisteredFilesAreHeld
SYMMETRY MCSymmetry
