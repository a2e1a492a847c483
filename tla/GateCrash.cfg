SPECIFICATION Spec
CONSTANTS
    g1 = g1
    g2 = g2
    a1 = a1
    a2 = a2
    e1 = e1
    e2 = e2
    Nobody = Nobody
    Grader = {g1}
    Analyst = {a1}
    Evidence = {e1}
    Sources = {"model_draft", "analyst_confirmed"}
    Faults = {}
    Ticks = {1}
    MaxGrades = 2
    MaxCells = 2
    MaxHypotheses = 1
    MaxCrashes = 1
    MaxSteps = 0
INVARIANTS
    LatestGradeBinds
