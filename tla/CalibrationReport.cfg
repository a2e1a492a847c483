SPECIFICATION Spec
CONSTANTS
    Latency = 3
    Certifying = 2
    Skew = 1
    Width = 2
    Probability = {0, 3, 4, 18, 19, 20}
    Unit = 12
    MaxPairs = 4
    MaxForecasts = 1
    MaxResolutions = 2
    MaxTime = 5
INVARIANTS
    ReportInv
    UnflaggedOnlyAfterWaiting
    EarlyGradeStaysVisible
    ReportAddsUp
