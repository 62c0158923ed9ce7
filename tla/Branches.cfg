SPECIFICATION Spec
CONSTANTS
    c1 = c1
    c2 = c2
    main = main
    dev = dev
    hash = hash
    ep = ep
    px = px
    py = py
    v1 = v1
    Ops1 = {"branch", "merge_checked"}
    Ops2 = {"set", "delete"}
    Client = {c1, c2}
    Branch = {main, dev}
    Main = main
    HashSpec = {}
    SpecTarget <- MCSpecTarget
    Epoch = {}
    SealRef <- MCSealMain
    Ops <- MCOps
    MaxCommit = 4
    MaxAttempts = 2
    Strict = TRUE
    BranchRefsOnly = FALSE
    Initialised = TRUE
    Path = {px, py}
    Value = {v1}
    NoValue = NoValue
    NoCommit = NoCommit
    NoRef = NoRef
    NoPath = NoPath
    NoEpoch = NoEpoch
    NoState = NoState
INVARIANTS MergeKeepsWork
PROPERTIES AtomicUnlessLate
CHECK_DEADLOCK FALSE
