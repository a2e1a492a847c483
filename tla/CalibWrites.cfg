SPECIFICATION Spec
CONSTANTS
    w1 = w1
    w2 = w2
    w3 = w3
    c1 = c1
    c2 = c2
    NoWorker = NoWorker
    Worker = {w1, w2}
    Content = {c1, c2}
    Window = 1
    Ops = {"log", "resolve", "void", "get", "report"}
    Faults = {"commit", "attest"}
    MaxForecasts = 2
    MaxResolutions = 2
    MaxTime = 0
    MaxCrashes = 1
    MaxSteps = 0
INVARIANTS
    LifeInv
    OneVerdict
    RowsAreCommitted
    ReportIsComplete
    TrackerInv
PROPERTIES
    ImplementsForecastLife
