------------------------------- MODULE MCProfiler -------------------------------
EXTENDS Profiler, TLC

CONSTANTS small, large

\* A large item fills a slab, a small one half of it.
ItemBytes == [c \in {small, large} |-> IF c = large THEN SlabBytes ELSE SlabBytes \div 2]

================================================================================
