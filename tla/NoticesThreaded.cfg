SPECIFICATION MCSpec
CONSTANTS
    t1 = t1
    t2 = t2
    Tools = {t1, t2}
    Turns = 2
    Setups <- Plain
    Threaded = TRUE
    Parts = {"notices"}
INVARIANTS
    NoInvalidationLost
