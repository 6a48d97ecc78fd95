SPECIFICATION MCSpec
CONSTANTS
    Askers = {1, 2, 3, 4}
    Modes = {"sync", "stream", "syncreplay", "replay", "syncresume", "resume"}
    MaxDeltas = 1
    MaxPauses = 1
CHECK_DEADLOCK FALSE
INVARIANTS AnswersSound WireSound
PROPERTY MCConversationFreed
