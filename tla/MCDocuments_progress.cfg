\* One session of two files, one request that finalizes it, one revoker and one sweep;
\* one document, two requests and a worker that index it, twice.
SPECIFICATION MCFairSpec
CONSTANTS
    Files = {f1, f2}
    Uploads = {u1}
    Size <- UnitSize
    MaxBytes = 2
    Writers = {p1}
    Revokers = {v1}
    Cleaners = {c1}
    None = None
    ReserveTicks = 2
    GraceTicks = 2
    FlightTicks = 1
    LeaseTicks = 1
    RetryTicks = 0
    MaxPlan = 1
    UrlTicks = 1
    StagingTicks = 1
    UploadTicks = 1
    Nil = Nil
    Parts = {"uploads", "ingest"}
    Solo = p1
    Sweep = c1
    Documents = {d1}
    Texts = {t1, t2}
    Requests = {q1, q2}
    Workers = {w1}
    MaxRuns = 1
PROPERTIES CapacityReturns RunEnds
CHECK_DEADLOCK FALSE
