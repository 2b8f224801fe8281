SPECIFICATION MCSpec
CONSTANTS
    r1 = r1
    r2 = r2
    Setups <- Served
    Calls = {q1, q2, q3, q4}
    MaxRuns = 2
    Window = 3
    MaxTime = 5
SYMMETRY CallSymmetry
INVARIANTS
    RefusedBeforeWork
    AcceptedWithinTheCap
    WorkIsPaidFor
    LimitHolds
    RefusalIsFair
