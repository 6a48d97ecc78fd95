\* One run over three phases (admission and two resumes), two workers that may
\* both hold stale claims, two resume requests in flight.
SPECIFICATION Spec
CONSTANTS
    Runs = {r1}
    Jobs = {j1, j2, j3}
    Workers = {w1, w2}
    Requests = {q1, q2}
    Conversations = {c1}
    None = None
    LeaseTicks = 1
    MaxFrames = 2
    DefaultMaxFrames = 3
    MaxTurns = 2
    MaxCursor = 0
SYMMETRY Symmetry
INVARIANTS AnsweredOnce FencedPhase OneLiveJob NoStuckRun
PROPERTIES StopWins NoLeaseStolen
CHECK_DEADLOCK FALSE
