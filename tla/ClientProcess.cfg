SPECIFICATION Spec
CONSTANTS
    Conns = {c1}
    MaxChunks = 3
    MaxReplies = 2
    MaxMinute = 2
    MaxSessions = 3
    MaxQueries = 4
INVARIANTS
    StreamsKeepOrder
    UnsentPerFailedSession
PROPERTIES
    RepliesReachApp
    ReturnsOnceBothEnded
    ExitEndsSessions
CHECK_DEADLOCK FALSE
