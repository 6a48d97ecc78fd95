\* Three files: an original and two reservations for its copies; or the staging file and
\* the original of one session, with two requests that finalize it and two sweeps that
\* may hold stale claims; or one document, two requests and two workers that index it.
SPECIFICATION MCSpec
CONSTANTS
    Parts = {"copies", "uploads", "ingest"}
    Files = {f1, f2, f3}
    Uploads = {u1}
    Size <- UnitSize
    MaxBytes = 3
    Writers = {p1, p2}
    Revokers = {v1}
    Cleaners = {c1, c2}
    Solo = p1
    Sweep = c1
    None = None
    ReserveTicks = 1
    GraceTicks = 2
    FlightTicks = 1
    LeaseTicks = 1
    RetryTicks = 0
    MaxPlan = 2
    UrlTicks = 1
    StagingTicks = 2
    UploadTicks = 2
    Nil = Nil
    Documents = {d1}
    Texts = {t1, t2}
    Requests = {q1, q2}
    Workers = {w1, w2}
    MaxRuns = 2
SYMMETRY Interchange
INVARIANTS UploadsSound MCBytesCounted OneActiveRun OneIndexer
PROPERTY IndexSwap
CHECK_DEADLOCK FALSE
