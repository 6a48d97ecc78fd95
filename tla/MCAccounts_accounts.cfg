SPECIFICATION MCSpec
CONSTANTS
    None = None
    Accounts = {e1, 1, 2}
    Senders = {p1, p2}
    MaxFaults = 3
    Emails = {e1}
    Requests = {q1, q2}
    Sessions = {s1, s2}
    Tokens = {t1}
    AutoApproval = {TRUE, FALSE}
    MaxPassword = 2
    Guests = {1, 2}
    Codes = {c1, c2}
    MaxGeneration = 1
    DailyLimit = 2
    PageSize = 1
    MaxContent = 1
    Solo = q1
    Callers = {q1, q2, q3}
    MaxAttempts = 2
    WindowLimit = 2
    RowLimit = 2
INVARIANTS OldPasswordSignedOut TrialsSound DeliverySound LimitsHold
PROPERTIES NoTrialBesideAccount SweepsFinish
CHECK_DEADLOCK FALSE
