SPECIFICATION Spec
CONSTANTS
    c1 = c1
    c2 = c2
    main = main
    dev = dev
    feat = feat
    px = px
    py = py
    v1 = v1
    Ops1 = {"set", "merge", "branch", "delete_branch"}
    Ops2 = {"set", "delete"}
    Client = {c1, c2}
    Branch = {main, dev, feat}
    Main = main
    Ops <- MCOps
    Writes <- MCWritesBoth
    Sources = {dev}
    Targets = {main}
    Policy <- MCPolicy
    MaxCommit = 4
    Grace = 1
    FreshenAfter = 0
    WriteTime = 1
    PinAge = 1
    Path = {px, py}
    Value = {v1}
    NoValue = NoValue
    NoCommit = NoCommit
    NoRef = NoRef
    NoPath = NoPath
    NoState = NoState
    Absent = Absent
    NotHeld = NotHeld
INVARIANTS TipsReadable ForkPointsReadable
CHECK_DEADLOCK FALSE
