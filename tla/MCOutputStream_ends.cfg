\* A connected listener, small window.
SPECIFICATION FairStreamSpec
CONSTANTS
    Runs = {r1}
    Jobs = {j1, j2}
    Workers = {w1}
    Requests = {q1}
    Conversations = {c1}
    Clients = {u1}
    None = None
    LeaseTicks = 1
    MaxFrames = 1
    DefaultMaxFrames = 1
    MaxTurns = 1
    MaxCursor = 0
    PageSize = 2
PROPERTY ListenerEnds
CHECK_DEADLOCK FALSE
