SPECIFICATION Spec
CONSTANTS
    p1 = p1
    p2 = p2
    w1 = w1
    w2 = w2
    w3 = w3
    row = row
    other = other
    Proc = {p1, p2}
    Worker = {w1, w3}
    Host <- MCPair
    Writer = {p1, p2}
    NoProc = NoProc
    NoWorker = NoWorker
    Tables <- SignalTables
    Shapes <- SignalShapes
    Payload = {row}
    LockPolicy = "after"
    RollsBack = TRUE
    Attempts = 2
    Faults = {}
    MaxRows = 2
    MaxCrashes = 0
    MaxFaults = 0
INVARIANTS
    ManifestChained
