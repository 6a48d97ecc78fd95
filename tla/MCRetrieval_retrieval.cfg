SPECIFICATION MCSpec
CONSTANTS
    Corpus <- MCCorpus
    NoDocument = NoDocument
    AmbientDocs = {3}
    FactTypes = {"api_endpoint", "command"}
    SourceLimit = 3
    FactLimit = 2
    ProfileChunks = 1
    RerankLimit = 4
    InjectedLimit = 3
    CharBudget = 5
    OverviewBudget = 6
    BatchSize = 2
    MaxRevocations = 1
    Docs = {d1, d2, sys}
    SystemDocs = {sys}
    Scoped = {d1}
    Files = {f1, f2}
    NoDoc = NoDoc
    MaxRefinements = 2
    MaxChanges = 1
    Papers = {s1, s2, s0}
    Hidden = {s0}
    RecallLimit = 2
    LinkLimit = 1
    MaxAnswers = 3
    MaxLosses = 1
CHECK_DEADLOCK FALSE
INVARIANTS EvidenceSound TurnSound
PROPERTIES NothingForeign RecapFailsClosed MCTurnEnds
