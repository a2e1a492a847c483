SPECIFICATION Spec
CONSTANTS
    p1 = p1
    p2 = p2
    w1 = w1
    w2 = w2
    w3 = w3
    row = row
    other = other
    Proc = {p1, p2}
    Worker = {w1, w3}
    Host <- MCPair
    Writer = {p1}
    NoProc = NoProc
    NoWorker = NoWorker
    Tables <- MatrixTables
    Shapes <- MatrixShapes
    Payload = {row}
    LockPolicy = "never"
    RollsBack = TRUE
    Attempts = 2
    Faults = {}
    MaxRows = 3
    MaxCrashes = 1
    MaxFaults = 0
PROPERTIES
    ImplementsAttestedLog
