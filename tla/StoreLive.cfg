SPECIFICATION FairSpec
CONSTANTS
    p1 = p1
    p2 = p2
    w1 = w1
    w2 = w2
    w3 = w3
    row = row
    other = other
    Proc = {p1, p2}
    Worker = {w1, w3}
    Host <- MCPair
    Writer = {p1, p2}
    NoProc = NoProc
    NoWorker = NoWorker
    Tables <- SignalTables
    Shapes <- SignalShapes
    Payload = {row}
    LockPolicy = "after"
    RollsBack = TRUE
    Attempts = 2
    Faults = {"write", "fsync"}
    MaxRows = 2
    MaxCrashes = 1
    MaxFaults = 1
PROPERTIES
    WriteLockIsReleased
    BootDecides
    VerdictIsTrue
INVARIANTS
    LostStaysVisible
