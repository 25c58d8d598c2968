SPECIFICATION Spec
CONSTANTS
    Base = 4
    LenBytes = 3
    None = None
    StateBits = 8
    SIZE_DISTRIBUTION <- MCSizes
    JITTER_PERCENT = 6
    MIN_SIZE = 4
    COMPRESSION_THRESHOLD = 11
    V4Octets = 2
    V6Octets = 4
    Packets <- MCPackets
    MaxPublished = 3
    MaxBackoff = 4
    Keys = {1, 2}
    Payloads <- MCPayloads
    Strategies <- MCStrategies
    Builds <- MCBuilds
    AddressLists <- MCAddressLists
    Rotation = 2
    MaxClock = 3
    Tasks = {t1, t2}
    Handlers = {1}
    Conns = {c1, c2}
    AddrSpace = 3
    MaxForwards = 4
    MaxStreams = 2
INVARIANTS
    FrameSurvives
    DohAnswerSurvives
    ReassembledInOrder
PROPERTIES
    RepliesRouted
CHECK_DEADLOCK FALSE
