SPECIFICATION Spec
CONSTANTS
    NItems = 3
    Delegations = {d1, d2}
    MaxSteps = 3
    Parallel = TRUE
    d1 = d1
    d2 = d2
SYMMETRY DelegationSymmetry
INVARIANTS
    Lockstep
    ProgressInPlace
    NothingLeftRunning
PROPERTIES
    EventsInOrder
