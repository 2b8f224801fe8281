SPECIFICATION MCSpec
CONSTANTS
    MaxRuns = 3
    MaxLength = 5
    Limit = 2
    Messages = {m1, m2, m3}
    Activities = {a1, a2}
    Contents = {c1, c2}
    MaxPushes = 3
    NoMessage = NoMessage
    Names = {read, client, n1}
    ReadAttachment = read
    ClientContext = client
    MaxLate = 2
INVARIANTS
    RowsAreNamed
    ThreadIsRestored
    ToolsAreOwned
PROPERTIES
    NewestFirst
CHECK_DEADLOCK FALSE
