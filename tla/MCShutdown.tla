----------------------------- MODULE MCShutdown -----------------------------
(* Instance of Shutdown for TLC: names of work and threads of the same kind *)
(* are interchangeable.                                                     *)
EXTENDS Shutdown, TLC

Symm == Permutations(Work) \cup Permutations(CoroThreads) \cup Permutations(IoThreads)

=============================================================================
