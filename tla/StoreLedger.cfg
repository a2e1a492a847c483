SPECIFICATION Spec
CONSTANTS
    p1 = p1
    p2 = p2
    w1 = w1
    w2 = w2
    w3 = w3
    row = row
    other = other
    Proc = {p1, p2}
    Worker = {w1, w2, w3}
    Host <- MCHost
    Writer = {p1, p2}
    NoProc = NoProc
    NoWorker = NoWorker
    Tables <- LedgerTables
    Shapes <- LedgerShapes
    Payload = {row, other}
    LockPolicy = "before"
    RollsBack = TRUE
    Attempts = 2
    Faults = {}
    MaxRows = 2
    MaxCrashes = 2
    MaxFaults = 0
INVARIANTS
    StoreInv
    WritesAreSerial
    RowsChained
    ManifestChained
    AttestsCommittedRows
    IntactBetweenWrites
PROPERTIES
    VerdictIsTrue
