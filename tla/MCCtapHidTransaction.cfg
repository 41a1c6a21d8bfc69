CONSTANTS
    InitDataSize = 1
    ContDataSize = 1
    LastSequence = 1
    DefaultMaxMessage = 2
    TimeoutMax = 1
    Zero <- ZeroUnit
    Requests = {"q1", "q2"}
    Nonces = {1, 2}
    Channels = {1, 2}
    InitFaults = {"NONE", "SHORT", "CHANNEL", "VERSION", "NO_CBOR"}
    AnswerSizes = {1, 2, 3}
    Limits = {0, 1, 3, 4}
    PathMax = 3
    Lossy = TRUE
SPECIFICATION FairSpec
INVARIANTS AnswersMatch IdleMeansQuiet
PROPERTIES ClientStateGraph TransactionEnds
