SPECIFICATION MCSpec
CONSTANTS
    Files = {f1, f2}
    Sheets = {}
    Turns = {r1, r2}
    Sweepers = {s1, s2}
    MaxBoxes = 2
    Conv = thread
    Nil = nil
    Builds = {1, 2, 3}
    Sources = {doc, file}
    Linked = {file}
    NoSource = none
    Sizes = {1, 2}
    Ceiling = 3
    TailLimit = 4
    ScanLimit = 4
    SuffixCeiling = 1
    RecentBudget = 4
    SuffixBudget = 2
    PrefixBudget = 4
    Rounds = 2
    MaxMessages = 12
    Memos = {m1}
    Suggestions = {g1}
    Requests = {c1, c2}
    Texts = {taste, secret}
    Sensitive = {secret}
    Preferences = {taste}
    Blank = blank
CHECK_DEADLOCK FALSE
INVARIANTS ErasureSound ContextSound MemoriesSound
PROPERTIES RecallGoverned MCRevokedErased
