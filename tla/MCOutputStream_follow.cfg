\* One client over two phases; a retention window that slides.
SPECIFICATION StreamSpec
CONSTANTS
    Runs = {r1}
    Jobs = {j1, j2}
    Workers = {w1}
    Requests = {q1}
    Conversations = {c1}
    Clients = {u1}
    None = None
    LeaseTicks = 1
    MaxFrames = 2
    DefaultMaxFrames = 2
    MaxTurns = 1
    MaxCursor = 2
    PageSize = 2
SYMMETRY Symmetry
INVARIANT FollowerSound
CHECK_DEADLOCK FALSE
