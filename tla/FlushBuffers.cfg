SPECIFICATION Spec
CONSTANTS
    Callers = {c1, c2}
    Ticker = ticker
    BatchSize = 2
    MaxRecords = 3
    MaxIndex = 3
    MaxRestarts = 2
INVARIANTS
    RecordedOnce
    BufferBounded
    LogArchived
PROPERTY
    RecordLeavesBuffer
