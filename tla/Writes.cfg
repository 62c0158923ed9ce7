SPECIFICATION Spec
CONSTANTS
    c1 = c1
    c2 = c2
    main = main
    dev = dev
    hash = hash
    ep = ep
    px = px
    py = py
    v1 = v1
    Ops1 = {"set", "create_epoch", "seal"}
    Ops2 = {"delete", "intent", "seal", "archive", "crash"}
    Client = {c1, c2}
    Branch = {main}
    Main = main
    HashSpec = {}
    SpecTarget <- MCSpecTarget
    Epoch = {ep}
    SealRef <- MCSealMain
    Ops <- MCOps
    MaxCommit = 5
    MaxAttempts = 2
    Strict = TRUE
    BranchRefsOnly = FALSE
    Initialised = TRUE
    Path = {px}
    Value = {v1}
    NoValue = NoValue
    NoCommit = NoCommit
    NoRef = NoRef
    NoPath = NoPath
    NoEpoch = NoEpoch
    NoState = NoState
INVARIANTS TypeOK MainKeepsLanded SealedReachable
PROPERTIES SealFinal AtomicEffect
CHECK_DEADLOCK FALSE
