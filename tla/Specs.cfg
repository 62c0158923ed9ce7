SPECIFICATION Spec
CONSTANTS
    c1 = c1
    c2 = c2
    main = main
    dev = dev
    hash = hash
    ep = ep
    px = px
    py = py
    v1 = v1
    Ops1 = {"speculate", "spec", "spec_cas", "crash"}
    Ops2 = {"cas", "delete_branch_if", "delete_branch", "set_ref"}
    Client = {c1, c2}
    Branch = {main}
    Main = main
    HashSpec = {hash}
    SpecTarget <- MCSpecTarget
    Epoch = {}
    SealRef <- MCSealMain
    Ops <- MCOps
    MaxCommit = 4
    MaxAttempts = 2
    Strict = TRUE
    BranchRefsOnly = FALSE
    Initialised = TRUE
    Path = {px}
    Value = {v1}
    NoValue = NoValue
    NoCommit = NoCommit
    NoRef = NoRef
    NoPath = NoPath
    NoEpoch = NoEpoch
    NoState = NoState
INVARIANTS LandedReachable
PROPERTIES AtomicEffect
CHECK_DEADLOCK FALSE
