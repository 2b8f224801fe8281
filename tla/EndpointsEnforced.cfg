SPECIFICATION MCSpec
CONSTANTS
    r1 = r1
    r2 = r2
    Setups <- CsrfEnforced
    Calls = {q1}
    MaxRuns = 2
    Window = 3
    MaxTime = 5
INVARIANTS
    AcceptedWithinTheCap
