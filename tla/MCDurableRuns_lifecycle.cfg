\* Liveness, refinement and the ledger: one resume request at a time, two
\* workers, a second phase, and pruning by two window sizes.  No symmetry,
\* because the properties are temporal.
SPECIFICATION FairSpec
CONSTANTS
    Runs = {r1}
    Jobs = {j1, j2}
    Workers = {w1, w2}
    Requests = {q1}
    Conversations = {c1}
    None = None
    LeaseTicks = 1
    MaxFrames = 2
    DefaultMaxFrames = 3
    MaxTurns = 1
    MaxCursor = 1
INVARIANT OutcomesSound
PROPERTIES LifecycleSpec WaitEnds
CHECK_DEADLOCK FALSE
