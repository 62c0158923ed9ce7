SPECIFICATION Spec
CONSTANTS
    c1 = c1
    c2 = c2
    main = main
    dev = dev
    feat = feat
    px = px
    py = py
    v1 = v1
    Ops1 = {"branch"}
    Ops2 = {"set"}
    Client = {c1, c2}
    Branch = {main, dev}
    Main = main
    Ops <- MCOps
    Writes <- MCWritesMain
    Sources = {main}
    Targets = {main}
    Policy <- MCPolicy
    MaxCommit = 3
    Grace = 1
    FreshenAfter = 0
    WriteTime = 1
    PinAge = 1
    Path = {px}
    Value = {v1}
    NoValue = NoValue
    NoCommit = NoCommit
    NoRef = NoRef
    NoPath = NoPath
    NoState = NoState
    Absent = Absent
    NotHeld = NotHeld
INVARIANTS TipsReadable
CHECK_DEADLOCK FALSE
