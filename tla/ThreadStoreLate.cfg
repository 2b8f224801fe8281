SPECIFICATION MCSpec
CONSTANTS
    Threads = {t1, t2}
    Runs = {r1, r2, r3}
    NoRun = NoRun
    NoThread = NoThread
    Late = TRUE
    Overlap = FALSE
    m1 = m1
    m2 = m2
    m3 = m3
    Symbols = {"a", "b", ":"}
    Mounts = {m1, m2, m3}
    ScopeOf <- TwoScopes
    RunIds <- WireIds
    NoParent = NoParent
    MaxRows = 1
SYMMETRY ThreadStoreSymmetry
INVARIANTS
    ThreadMatchesClient
