------------------------------ MODULE MCWaiting ------------------------------
\* Waiting for TLC: coroutines and events are interchangeable.
EXTENDS Waiting, TLC

Symm == Permutations(Coros) \cup Permutations(Events)

=============================================================================
