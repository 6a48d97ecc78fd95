\* Two resume requests around the interaction's deadline.
SPECIFICATION Spec
CONSTANTS
    Runs = {r1}
    Jobs = {j1, j2, j3}
    Workers = {w1}
    Requests = {q1, q2}
    Conversations = {c1}
    None = None
    LeaseTicks = 1
    MaxFrames = 2
    DefaultMaxFrames = 3
    MaxTurns = 1
    MaxCursor = 0
INVARIANT CancelledHasNoReply
CHECK_DEADLOCK FALSE
