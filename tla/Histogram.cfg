SPECIFICATION SpecLru
CONSTANTS
    Key = {a, b, d}
    Class = {small, large}
    Unknown = Unknown
    warmup_len = 1
    prof_len = 7
    Capacity = {1, 2}
SYMMETRY Symmetry
INVARIANTS
    HistogramIsLru
CHECK_DEADLOCK FALSE
