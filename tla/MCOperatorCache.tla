--------------------------- MODULE MCOperatorCache --------------------------
EXTENDS OperatorCache, TLC

CONSTANTS t1, s1, s2, a1, a2

MCStreams == {s1, s2}
MCTables == {a1, a2}
MCScalars == {1, 2, 3}
MCScalarHash == [x \in MCScalars |-> x \div 2]  \* 2 and 3 collide
Interchangeable == Permutations(MCTables) \cup Permutations(MCStreams)
=============================================================================
