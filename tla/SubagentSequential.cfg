SPECIFICATION FairSpec
CONSTANTS
    NItems = 2
    Delegations = {d1, d2}
    MaxSteps = 3
    Parallel = FALSE
    d1 = d1
    d2 = d2
INVARIANTS
    TypeOK
PROPERTIES
    ImplementsChannel
    AnnouncedIsShown
    DiscardSettles
