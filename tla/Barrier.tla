------------------------------- MODULE Barrier -------------------------------
(***************************************************************************)
(* thread_barrier_t of coro/barrier.cc: a reusable barrier with two sides, *)
(* a counter for each, a mutex and one condition variable.  Code under the *)
(* mutex up to the next cond wait or return is one action.                 *)
(*                                                                         *)
(* `rounds' and `passed' are history: the code does not keep them.         *)
(***************************************************************************)
EXTENDS Naturals, FiniteSets

CONSTANTS Threads,    \* the callers; m_total is their number
          MaxRounds   \* bound on the calls each of them makes

ASSUME BarrierAssumption ==
  /\ IsFiniteSet(Threads)
  /\ Threads # {}
  /\ MaxRounds \in Nat

VARIABLES side,       \* m_side
          countA,     \* m_count_a
          countB,     \* m_count_b
          at,         \* each thread: "out", or in cond.wait of side "A" or "B"
          asleep,     \* the threads in cond.wait that have not been woken
          rounds,     \* how many times the last thread has arrived
          passed      \* how many calls of wait() have returned to each thread

vars == <<side, countA, countB, at, asleep, rounds, passed>>

Total == Cardinality(Threads)

Init ==
  /\ side = "A"
  /\ countA = 0
  /\ countB = 0
  /\ at = [t \in Threads |-> "out"]
  /\ asleep = {}
  /\ rounds = 0
  /\ passed = [t \in Threads |-> 0]

Return(t) == passed' = [passed EXCEPT ![t] = @ + 1]

\* wait() of a thread that is not the last one.
ArriveA(t) ==
  /\ at[t] = "out"
  /\ passed[t] < MaxRounds
  /\ side = "A"
  /\ countA + 1 # Total
  /\ countA' = countA + 1
  /\ at' = [at EXCEPT ![t] = "A"]
  /\ asleep' = asleep \cup {t}
  /\ UNCHANGED <<side, countB, rounds, passed>>

ArriveB(t) ==
  /\ at[t] = "out"
  /\ passed[t] < MaxRounds
  /\ side = "B"
  /\ countB + 1 # Total
  /\ countB' = countB + 1
  /\ at' = [at EXCEPT ![t] = "B"]
  /\ asleep' = asleep \cup {t}
  /\ UNCHANGED <<side, countA, rounds, passed>>

\* Mutant: the last thread does not turn the barrier round.
CompleteA_NoTurn(t) ==
  /\ at[t] = "out"
  /\ passed[t] < MaxRounds
  /\ side = "A"
  /\ countA + 1 = Total
  /\ countA' = countA + 1
  /\ countB' = 0
  /\ asleep' = {}
  /\ rounds' = rounds + 1
  /\ Return(t)
  /\ UNCHANGED <<side, at>>

\* wait() of the last thread: it resets the other side, wakes everyone, turns
\* the barrier round and returns without releasing the mutex.
CompleteA(t) ==
  /\ at[t] = "out"
  /\ passed[t] < MaxRounds
  /\ side = "A"
  /\ countA + 1 = Total
  /\ countA' = countA + 1
  /\ countB' = 0
  /\ asleep' = {}
  /\ side' = "B"
  /\ rounds' = rounds + 1
  /\ Return(t)
  /\ UNCHANGED at
CompleteB(t) ==
  /\ at[t] = "out"
  /\ passed[t] < MaxRounds
  /\ side = "B"
  /\ countB + 1 = Total
  /\ countB' = countB + 1
  /\ countA' = 0
  /\ asleep' = {}
  /\ side' = "A"
  /\ rounds' = rounds + 1
  /\ Return(t)
  /\ UNCHANGED at

\* A condition variable may wake a thread for no reason.
SpuriousWakeup(t) ==
  /\ t \in asleep
  /\ asleep' = asleep \ {t}
  /\ UNCHANGED <<side, countA, countB, at, rounds, passed>>

\* Mutant: a wait on the condition variable without a predicate.
LeaveA_NoPredicate(t) ==
  /\ at[t] = "A"
  /\ t \notin asleep
  /\ side' = "B"
  /\ at' = [at EXCEPT ![t] = "out"]
  /\ Return(t)
  /\ UNCHANGED <<countA, countB, asleep, rounds>>

\* A woken thread has the mutex again and evaluates the predicate of the wait:
\* it leaves, turning the barrier round (again), or goes back to sleep.
LeaveA(t) ==
  /\ at[t] = "A"
  /\ t \notin asleep
  /\ countA = Total
  /\ side' = "B"
  /\ at' = [at EXCEPT ![t] = "out"]
  /\ Return(t)
  /\ UNCHANGED <<countA, countB, asleep, rounds>>

LeaveB(t) ==
  /\ at[t] = "B"
  /\ t \notin asleep
  /\ countB = Total
  /\ side' = "A"
  /\ at' = [at EXCEPT ![t] = "out"]
  /\ Return(t)
  /\ UNCHANGED <<countA, countB, asleep, rounds>>

SleepAgain(t) ==
  /\ t \notin asleep
  /\ \/ at[t] = "A" /\ countA # Total
     \/ at[t] = "B" /\ countB # Total
  /\ asleep' = asleep \cup {t}
  /\ UNCHANGED <<side, countA, countB, at, rounds, passed>>

Arrive(t) == ArriveA(t) \/ ArriveB(t) \/ CompleteA(t) \/ CompleteB(t)
Awake(t) == LeaveA(t) \/ LeaveB(t) \/ SleepAgain(t)

Next == \E t \in Threads : Arrive(t) \/ Awake(t) \/ SpuriousWakeup(t)

\* Every thread calls wait() MaxRounds times, and runs when it is woken.
Fairness == \A t \in Threads : WF_vars(Arrive(t)) /\ WF_vars(Awake(t))

Spec == Init /\ [][Next]_vars
FairSpec == Spec /\ Fairness

-----------------------------------------------------------------------------
\* Properties.

TypeOK ==
  /\ side \in {"A", "B"}
  /\ countA \in 0 .. Total
  /\ countB \in 0 .. Total
  /\ at \in [Threads -> {"out", "A", "B"}]
  /\ asleep \subseteq {t \in Threads : at[t] # "out"}
  /\ rounds \in Nat
  /\ passed \in [Threads -> Nat]

Calls(t) == IF at[t] = "out" THEN passed[t] ELSE passed[t] + 1

\* The k-th wait() returns to nobody before everybody has called its k-th
\* wait(), even when fast threads are back at the barrier before slow ones
\* have woken up from the round before.
NobodyAhead == \A t, u \in Threads : passed[t] <= Calls(u)

\* What makes the two sides safe to reuse.  On the current side s the counter
\* is the number of threads waiting there; whoever is still on the other side o
\* has been released and finds its own counter at the total.
Waiting(s) == {t \in Threads : at[t] = s}

OnSide(s, o, cs, co) ==
  /\ cs = Cardinality(Waiting(s))
  /\ cs < Total
  /\ Waiting(o) # {} => co = Total
  /\ Waiting(o) \cap asleep = {}
  /\ \A t \in Threads : IF at[t] = o THEN passed[t] + 1 = rounds
                                     ELSE passed[t] = rounds

SidesInv ==
  /\ side = "A" => OnSide("A", "B", countA, countB)
  /\ side = "B" => OnSide("B", "A", countB, countA)

\* The barrier lets everyone through at once, a round at a time.
Gathered == {t \in Threads : at[t] = side}

R == INSTANCE Rendezvous WITH gathered <- Gathered

IsRendezvous == R!RendezvousSpec

\* Every call of wait() returns: no notify_all is missed and no counter is
\* reset under a thread that has still to look at it.
EveryoneGetsThrough == \A t \in Threads : (at[t] # "out") ~> (at[t] = "out")

=============================================================================
