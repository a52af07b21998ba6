--------------------------- MODULE MCWalkLookahead ---------------------------
\* Small instances of WalkLookahead for TLC: three parts admitted out of index
\* order, and one oracle for every way the walk may go, the one that accepts
\* the subsets of what the walk keeps. The cfg leaves Faults without "none": a
\* run that may throw also has every behaviour of one that does not. Three idle
\* workers are the fewest with which a step launches a set two steps ahead.
EXTENDS WalkLookahead

MCOrder == <<2, 1, 3>>
MCOracle == {[s \in (SUBSET {1, 2, 3}) \ {{}} |-> s \subseteq K] : K \in SUBSET {1, 2, 3}}
=============================================================================
