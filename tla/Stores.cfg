SPECIFICATION MCSpec
CONSTANTS
    Threads = {t1, t2}
    Runs = {r1, r2, r3, r4}
    NoRun = NoRun
    NoThread = NoThread
    Late = FALSE
    Overlap = FALSE
    m1 = m1
    m2 = m2
    m3 = m3
    Symbols = {"a", "b", ":"}
    Mounts = {m1, m2, m3}
    ScopeOf <- TwoScopes
    RunIds <- WireIds
    NoParent = NoParent
    MaxRows = 6
SYMMETRY ThreadStoreSymmetry
INVARIANTS
    RowsAreKept
    ScopesAreApart
PROPERTIES
    TurnsAreKept
