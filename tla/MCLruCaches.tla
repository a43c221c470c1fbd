------------------------------ MODULE MCLruCaches ------------------------------
EXTENDS LruCaches, TLC

\* Neither keys nor classes have names the specification tells apart.
Symmetry == Permutations(Key) \cup Permutations(Class)

================================================================================
