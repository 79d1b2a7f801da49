-------------------------------- MODULE Dispatcher --------------------------------
(***************************************************************************)
(* dispatcher_t and coro_t (coro/coro.hpp, coro/coro.cc): the coroutines   *)
(* of one thread, the queue of those that can run, how one of them gives   *)
(* way to the next, how they are spawned, and what becomes of their slots  *)
(* (the coro_t objects with their stacks), which are used again.           *)
(*                                                                         *)
(* An action is what a coroutine does from one call of the dispatcher to   *)
(* the next.  A slot that has finished is released as soon as the next     *)
(* coroutine, or the thread, runs, so that m_release is empty between two  *)
(* actions.                                                                *)
(***************************************************************************)
EXTENDS Naturals, Integers, Sequences, FiniteSets, SequencesExt

CONSTANTS Coros,      \* slots
          MaxSwaps,   \* s_max_swaps_per_loop
          MaxCache,   \* the slots that are kept for later, m_max_cache_size
          Null

ASSUME DispatcherAssumption ==
  /\ IsFiniteSet(Coros) /\ Null \notin Coros
  /\ MaxSwaps \in Nat \ {0} /\ MaxCache \in Nat

VARIABLES running,    \* m_running; Null while the thread is outside of run()
          queue,      \* m_run_queue
          cache,      \* m_coro_cache
          extant,     \* its count of slots in use
          swaps,      \* m_swap_count
          delta,      \* m_coro_delta
          started,    \* how many coroutines there were when the counting began
          total,      \* the sum of what has been told to shutdown_t::update
          state,      \* slot -> "none", "cached", "live" or "blocked"
          owner,      \* coroutine -> the one that holds its unfinished coro_result_t
          dropping    \* coroutine -> the one whose result it is destroying

dispatchVars == <<running, queue, cache, extant, swaps, delta, started, total, state, owner, dropping>>

\* The coroutines of `first' are queued when a behaviour begins.
DispatcherInit(first) ==
  /\ running = Null
  /\ queue \in SetToSeqs(first)
  /\ cache = <<>>
  /\ extant = Cardinality(first)
  /\ swaps = 0 /\ delta = 0 /\ total = 0
  /\ started = Cardinality(first)
  /\ state = [c \in Coros |-> IF c \in first THEN "live" ELSE "none"]
  /\ owner = [c \in Coros |-> Null]
  /\ dropping = [c \in Coros |-> Null]

Alive == {c \in Coros : state[c] \in {"live", "blocked"}}

\* The lock of a coroutine is being drained, and the interruptor that every
\* coroutine starts with watches that lock.
Interrupted(c) == \E p \in Coros : dropping[p] = c

\* Whoever was waiting goes to the end of the queue.
Notify(cs, st) == [c \in Coros |-> IF c \in ToSet(cs) THEN "live" ELSE st[c]]

-----------------------------------------------------------------------------
\* swap(nullptr): the first of the queue runs, or the thread goes on outside; it
\* releases the slot of the coroutine that has finished.  The thread reports how
\* the number of coroutines has changed.
Swap(q, st, finished) ==
  LET outside == q = <<>> \/ swaps + 1 >= MaxSwaps IN
  /\ swaps' = swaps + 1
  /\ running' = IF outside THEN Null ELSE Head(q)
  /\ queue' = IF outside THEN q ELSE Tail(q)
  /\ delta' = IF finished = Null THEN delta ELSE delta - 1
  /\ total' = IF outside THEN total + delta' ELSE total
  /\ IF finished = Null
     THEN state' = st /\ UNCHANGED <<cache, extant>>
     ELSE LET full == Len(cache) >= MaxCache IN
          /\ state' = [st EXCEPT ![finished] = IF full THEN "none" ELSE "cached"]
          /\ cache' = IF full THEN cache ELSE <<finished>> \o cache
          /\ extant' = extant - 1

\* Mutant: the count of the run before is reported again.
Run_KeepDelta ==
  /\ running = Null
  /\ queue # <<>>
  /\ running' = Head(queue) /\ queue' = Tail(queue)
  /\ swaps' = 0
  /\ UNCHANGED <<delta, started, cache, extant, total, state, owner, dropping>>

\* dispatcher_t::run is called again.
Run ==
  /\ running = Null
  /\ queue # <<>>
  /\ running' = Head(queue) /\ queue' = Tail(queue)
  /\ swaps' = 0 /\ delta' = 0
  /\ UNCHANGED <<started, cache, extant, total, state, owner, dropping>>

\* coro_cache_t::get takes a slot from the cache, or makes one.
FreeSlot(c) == IF cache = <<>> THEN state[c] = "none" ELSE c = Head(cache)

\* Mutant: the parent is not queued when its child runs at once.
Spawn_ForgetParent(p, c, type) ==
  /\ running = p /\ FreeSlot(c)
  /\ cache' = IF cache = <<>> THEN cache ELSE Tail(cache)
  /\ extant' = extant + 1
  /\ delta' = delta + 1
  /\ state' = [state EXCEPT ![c] = "live"]
  /\ owner' = [owner EXCEPT ![c] = IF type = "Detached" THEN Null ELSE p]
  /\ IF type = "Immediate"
     THEN swaps' = swaps + 1 /\ running' = c /\ UNCHANGED queue
     ELSE queue' = Append(queue, c) /\ UNCHANGED <<swaps, running>>
  /\ UNCHANGED <<started, total, dropping>>

\* spawn, spawn_detached, and spawn_now, which runs the child at once and puts its
\* parent into the queue.
Spawn(p, c, type) ==
  /\ running = p /\ FreeSlot(c)
  /\ cache' = IF cache = <<>> THEN cache ELSE Tail(cache)
  /\ extant' = extant + 1
  /\ delta' = delta + 1
  /\ state' = [state EXCEPT ![c] = "live"]
  /\ owner' = [owner EXCEPT ![c] = IF type = "Detached" THEN Null ELSE p]
  /\ IF type = "Immediate"
     THEN swaps' = swaps + 1 /\ running' = c /\ queue' = Append(queue, p)
     ELSE queue' = Append(queue, c) /\ UNCHANGED <<swaps, running>>
  /\ UNCHANGED <<started, total, dropping>>

\* Mutant: whoever yields is the next to run.
Yield_ToFront(c) ==
  /\ running = c
  /\ Swap(<<c>> \o queue, state, Null)
  /\ UNCHANGED <<started, owner, dropping>>

Yield(c) ==
  /\ running = c
  /\ Swap(Append(queue, c), state, Null)
  /\ UNCHANGED <<started, owner, dropping>>

\* A wait for an object that is not ready.  With an interruptor that was triggered
\* the wait throws at once instead, which changes nothing here.
Block(c) ==
  /\ running = c
  /\ ~Interrupted(c)
  /\ Swap(queue, [state EXCEPT ![c] = "blocked"], Null)
  /\ UNCHANGED <<started, owner, dropping>>

\* notify(): the object is ready; whoever makes it ready goes on.
Wake(c) ==
  /\ state[c] = "blocked" /\ dropping[c] = Null
  /\ queue' = Append(queue, c)
  /\ state' = Notify(<<c>>, state)
  /\ UNCHANGED <<running, cache, extant, swaps, delta, started, total, owner, dropping>>

\* Mutant: the drain of a result is interrupted like a wait.
Drop_Interrupts(p, c) ==
  /\ running = p
  /\ owner[c] = p
  /\ dropping' = [dropping EXCEPT ![p] = c]
  /\ LET st == [state EXCEPT ![p] = "blocked"] IN
     IF state[c] = "blocked" THEN Swap(Append(queue, c), Notify(<<c>>, st), Null)
                             ELSE Swap(queue, st, Null)
  /\ UNCHANGED <<started, owner>>

\* The result of a coroutine that has not finished is destroyed: its drainer tells
\* the child, whose waits fail from now on, and waits for it to finish.  The child
\* may be in such a wait, but not in the drain of another result: that one waits on.
Drop(p, c) ==
  LET inWait == state[c] = "blocked" /\ dropping[c] = Null IN
  /\ running = p
  /\ owner[c] = p
  /\ dropping' = [dropping EXCEPT ![p] = c]
  /\ LET st == [state EXCEPT ![p] = "blocked"] IN
     IF inWait THEN Swap(Append(queue, c), Notify(<<c>>, st), Null)
               ELSE Swap(queue, st, Null)
  /\ UNCHANGED <<started, owner>>

\* A coroutine returns: its lock is gone, and a parent that drains goes on.  The
\* coroutines `others' are notified by what the destructors of its arguments do.
End(c, others) ==
  LET waiting == IF Interrupted(c) THEN <<owner[c]>> ELSE <<>>
      woken == others \o waiting
  IN
  /\ running = c
  /\ \A k \in Coros : owner[k] # c          \* its own results have been destroyed
  /\ owner' = [owner EXCEPT ![c] = Null]
  /\ dropping' = [p \in Coros |-> IF dropping[p] = c THEN Null ELSE dropping[p]]
  /\ Swap(queue \o woken, Notify(woken, state), c)
  /\ UNCHANGED started

CoroStep(c) ==
  \/ \E k \in Coros, type \in {"Immediate", "Detached", "Delayed"} : Spawn(c, k, type)
  \/ Yield(c)
  \/ Block(c)
  \/ \E k \in Coros : running = c /\ Wake(k)
  \/ \E k \in Coros : Drop(c, k)
  \/ End(c, <<>>)

\* The event loop calls back between two runs.
EventStep == running = Null /\ \E c \in Coros : Wake(c)

DispatcherNext == (\E c \in Coros : CoroStep(c)) \/ Run \/ EventStep

DispatcherSpec ==
  (\E first \in SUBSET Coros : DispatcherInit(first)) /\ [][DispatcherNext]_dispatchVars

-----------------------------------------------------------------------------
\* Properties.

\* Every coroutine that can run is running or in the queue, in one place and once;
\* every free slot that is kept is in the cache once, no more than it may hold; and
\* the count of slots in use, which tells an io thread when it is done, is exact.
SlotsAgree ==
  /\ \A c \in Coros :
       /\ (state[c] = "live") = (running = c \/ c \in ToSet(queue))
       /\ (state[c] = "cached") = (c \in ToSet(cache))
  /\ running \notin ToSet(queue)
  /\ IsInjective(queue) /\ IsInjective(cache)
  /\ Len(cache) <= MaxCache
  /\ extant = Cardinality(Alive)

\* What shutdown_t has been told, with what this run is still to report, is how
\* the number of coroutines has changed: none is forgotten or counted twice.
DeltaIsExact ==
  total + (IF running = Null THEN 0 ELSE delta) = Cardinality(Alive) - started

\* A result is destroyed by the coroutine that holds it, which waits exactly as long
\* as the child lives, so a child never outlives the frame it may refer to.
ChildrenComeFirst ==
  \A p, c \in Coros :
    /\ dropping[p] = c => owner[c] = p /\ c \in Alive /\ state[p] = "blocked"
    /\ owner[c] = p => p \in Alive

\* The thread comes back to its event loop, however long coroutines go on yielding
\* and spawning; and whoever is queued runs.
LoopTurns == []<>(running = Null)
QueuedRuns == \A c \in Coros : c \in ToSet(queue) ~> running = c

=============================================================================
