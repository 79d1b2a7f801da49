------------------------------ MODULE MCPromise ------------------------------
\* Promise for TLC: data and futures are interchangeable.
EXTENDS Promise

Symm == Permutations(Data) \cup Permutations(Futures)

=============================================================================
