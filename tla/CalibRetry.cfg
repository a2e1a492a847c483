SPECIFICATION Spec
CONSTANTS
    w1 = w1
    w2 = w2
    w3 = w3
    c1 = c1
    c2 = c2
    NoWorker = NoWorker
    Worker = {w1, w2}
    Content = {c1, c2}
    Window = 1
    Ops = {"log", "get"}
    Faults = {"commit", "attest"}
    MaxForecasts = 3
    MaxResolutions = 0
    MaxTime = 4
    MaxCrashes = 1
    MaxSteps = 1
INVARIANTS
    NoDuplicate
PROPERTIES
    AbsorbsInWindowOnly
