SPECIFICATION Spec
CONSTANTS
    Key = {a, b}
    small = small
    large = large
    Class = {small, large}
    Unknown = Unknown
    Worker = {w1, w2}
    NoRequest = NoRequest
    warmup_len = 1
    prof_len = 3
    QueueBound = 1
    SlabBytes = 4
    Word = 64
    FirstSize = 2
    chunk_size <- ItemBytes
    SlabCounts = {0, 2}
INVARIANTS
    ProfilerTypeOK
    WindowMeasured
    LateRequests
PROPERTIES
    CurveExact
    ConsumerEnds
CHECK_DEADLOCK FALSE
