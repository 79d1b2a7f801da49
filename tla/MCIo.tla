--------------------------------- MODULE MCIo ---------------------------------
\* Io for TLC: no property tells descriptors, coroutines or clients apart.
EXTENDS Io, TLC

Symm == Permutations(Fds) \cup Permutations(Coros) \cup Permutations(Users)
        \cup Permutations(Clients)

=============================================================================
