------------------------------ MODULE Rendezvous ------------------------------
(***************************************************************************)
(* What thread_barrier_t promises: threads gather one by one, and when the *)
(* last one arrives all of them are let go at once.                        *)
(***************************************************************************)
EXTENDS Naturals

CONSTANT Threads      \* the threads that meet

VARIABLES gathered,   \* who has arrived and is held
          rounds      \* how many times all threads have met

rendezvousVars == <<gathered, rounds>>

RendezvousInit ==
  /\ gathered = {}
  /\ rounds = 0

Gather(t) ==
  /\ t \notin gathered
  /\ gathered \cup {t} # Threads
  /\ gathered' = gathered \cup {t}
  /\ UNCHANGED rounds

Release(t) ==
  /\ t \notin gathered
  /\ gathered \cup {t} = Threads
  /\ gathered' = {}
  /\ rounds' = rounds + 1

RendezvousNext == \E t \in Threads : Gather(t) \/ Release(t)

RendezvousSpec == RendezvousInit /\ [][RendezvousNext]_rendezvousVars

=============================================================================
