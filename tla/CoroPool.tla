--------------------------------- MODULE CoroPool ---------------------------------
(***************************************************************************)
(* coro_pool_t::run (sync/coro_pool.hpp) and the loops of sync/coro_map.hpp *)
(* on top of the dispatcher.  Each loop spawns a coroutine per item, with  *)
(* a place of the semaphore in the bounded loops, and throws the           *)
(* coro_result_t away.  That destroys it at once, so the loop waits for    *)
(* the coroutine, whose own waits are interrupted from the beginning.      *)
(*                                                                         *)
(* A behaviour is either that of any program (DispatcherNext) or that of   *)
(* two loops on one pool and the coroutine that destroys the pool.  The    *)
(* drainer on the stack of a loop is not here: the loop has waited for     *)
(* every coroutine that has a lock of it before it gets to its destructor. *)
(***************************************************************************)
EXTENDS Dispatcher

CONSTANTS Runners,        \* the coroutines that run a loop
          Destroyer,      \* the one that destroys the pool
          Limit,          \* the places of m_semaphore; none: coro_map, no semaphore
          Items,          \* how many items a producer has
          AnySlots        \* bound on the slots of a program of any kind

ASSUME PoolAssumption ==
  /\ Runners \subseteq Coros /\ Destroyer \in Coros \ Runners
  /\ AnySlots \subseteq Coros
  /\ Limit \in Nat \ {0} /\ Items \in Nat

VARIABLES program,        \* "any", "pool" or "map"
          pc,             \* coroutine -> where it is in its loop
          left,           \* runner -> items left
          holders,        \* who has a place of the semaphore: a runner or its consumer
          line,           \* the runners that want one, m_pending
          keepalive,      \* the runners whose locks m_drainer of the pool has
          closing,        \* it is draining
          dead            \* an exception has left a coroutine: std::terminate

poolVars == <<program, pc, left, holders, line, keepalive, closing, dead>>
vars == <<dispatchVars, poolVars>>

Init ==
  /\ program \in {"any", "pool", "map"}
  /\ DispatcherInit(IF program = "any" THEN {Destroyer} ELSE Runners \cup {Destroyer})
  /\ pc = [c \in Coros |-> IF c \in Runners THEN "loop" ELSE "idle"]
  /\ left = [r \in Runners |-> Items]
  /\ holders = {} /\ line = <<>>
  /\ keepalive = Runners
  /\ closing = FALSE
  /\ dead = FALSE

Consumers == {c \in Coros : pc[c] = "consume"}
Full == Cardinality(holders) >= Limit

\* Mutant: start_acq does not look at what is available.
Acquire_Unchecked(r) ==
  /\ running = r /\ pc[r] = "loop" /\ left[r] > 0
  /\ left' = [left EXCEPT ![r] = @ - 1]
  /\ pc' = [pc EXCEPT ![r] = "spawn"]
  /\ holders' = IF program = "map" THEN holders ELSE holders \cup {r}
  /\ UNCHANGED <<dispatchVars, line, program, keepalive, closing, dead>>

\* The producer makes an item, and a place for its consumer is asked for.
Acquire(r) ==
  /\ running = r /\ pc[r] = "loop" /\ left[r] > 0
  /\ left' = [left EXCEPT ![r] = @ - 1]
  /\ IF program = "map" \/ ~Full
     THEN /\ pc' = [pc EXCEPT ![r] = "spawn"]
          /\ holders' = IF program = "map" THEN holders ELSE holders \cup {r}
          /\ UNCHANGED <<dispatchVars, line>>
     ELSE IF closing
          THEN pc' = [pc EXCEPT ![r] = "leave"] /\ UNCHANGED <<dispatchVars, holders, line>>
          ELSE /\ pc' = [pc EXCEPT ![r] = "acquire"]
               /\ line' = Append(line, r)
               /\ Block(r)
               /\ UNCHANGED holders
  /\ UNCHANGED <<program, keepalive, closing, dead>>

\* The wait is over: the place is there, or the pool's interruptor was triggered
\* first, and the acquisition is destroyed with what it may have got since.
Acquired(r) ==
  /\ running = r /\ pc[r] = "acquire"
  /\ pc' = [pc EXCEPT ![r] = "spawn"]
  /\ UNCHANGED <<dispatchVars, left, holders, line, program, keepalive, closing, dead>>

\* The line without x, who is in it once if at all.
Without(x) ==
  IF x \in ToSet(line)
  THEN LET at == CHOOSE k \in DOMAIN line : line[k] = x
       IN [k \in 1 .. Len(line) - 1 |-> line[IF k < at THEN k ELSE k + 1]]
  ELSE line

\* Who is served when the acquisition of x is destroyed, and who of them is told: a
\* wait that was interrupted is over already.
Served(x) == IF x \in holders /\ line # <<>> THEN <<Head(line)>> ELSE <<>>
Told(x) == IF \A y \in ToSet(Served(x)) : state[y] = "blocked" THEN Served(x) ELSE <<>>

Give(x) ==
  /\ holders' = (holders \ {x}) \cup ToSet(Served(x))
  /\ line' = IF Served(x) = <<>> THEN Without(x) ELSE Tail(line)

Thrown(r) ==
  /\ running = r /\ pc[r] = "thrown"
  /\ Give(r)
  /\ queue' = queue \o Told(r) /\ state' = Notify(Told(r), state)
  /\ pc' = [pc EXCEPT ![r] = "leave"]
  /\ UNCHANGED <<running, cache, extant, swaps, delta, started, total, owner, dropping,
                 left, program, keepalive, closing, dead>>

\* The coroutine is spawned with the place, and its result destroyed.
SpawnConsumer(r, c) ==
  /\ pc[r] = "spawn"
  /\ Spawn(r, c, "Delayed")
  /\ pc' = [pc EXCEPT ![r] = "drop", ![c] = "consume"]
  /\ holders' = IF r \in holders THEN (holders \ {r}) \cup {c} ELSE holders
  /\ UNCHANGED <<left, line, program, keepalive, closing, dead>>

DropResult(r) ==
  /\ pc[r] = "drop"
  /\ \E c \in Consumers : Drop(r, c)
  /\ pc' = [pc EXCEPT ![r] = "loop"]
  /\ UNCHANGED <<left, holders, line, program, keepalive, closing, dead>>

\* The consumer gives way, or waits for something: that throws at once, and nobody
\* catches it (WaitingSpec).
ConsumerYields(c) == c \in Consumers /\ Yield(c) /\ UNCHANGED poolVars
ConsumerThrows(c) ==
  /\ ~dead
  /\ running = c /\ c \in Consumers /\ Interrupted(c)
  /\ dead' = TRUE
  /\ UNCHANGED <<dispatchVars, program, pc, left, holders, line, keepalive, closing>>

\* Mutant: the place is given back, but nobody who waits for one is told.
EndConsumer_TellNobody(c) ==
  /\ c \in Consumers
  /\ holders' = holders \ {c}
  /\ UNCHANGED line
  /\ End(c, <<>>)
  /\ pc' = [pc EXCEPT ![c] = "gone"]
  /\ UNCHANGED <<left, program, keepalive, closing, dead>>

\* It returns: the place is given back, then its lock.
EndConsumer(c) ==
  /\ c \in Consumers
  /\ Give(c)
  /\ End(c, Told(c))
  /\ pc' = [pc EXCEPT ![c] = "gone"]
  /\ UNCHANGED <<left, program, keepalive, closing, dead>>

\* The loop is over: the producer has nothing left, or a wait was interrupted.  The
\* lock that kept the pool alive goes.
Leave(r) ==
  /\ running = r
  /\ pc[r] = "leave" \/ (pc[r] = "loop" /\ left[r] = 0)
  /\ pc' = [pc EXCEPT ![r] = "gone"]
  /\ keepalive' = keepalive \ {r}
  /\ End(r, IF closing /\ keepalive = {r} THEN <<Destroyer>> ELSE <<>>)
  /\ UNCHANGED <<left, holders, line, program, closing, dead>>

\* The destructor of the pool: m_drainer is drained, which triggers the interruptor
\* of every loop.  Whoever is in the line then has not been woken before.
DestroyPool ==
  /\ program = "pool"
  /\ running = Destroyer /\ pc[Destroyer] = "idle"
  /\ closing' = TRUE
  /\ pc' = [c \in Coros |-> IF c = Destroyer THEN "destroy"
                            ELSE IF c \in ToSet(line) THEN "thrown" ELSE pc[c]]
  /\ IF keepalive # {}
     THEN Swap(queue \o line, [Notify(line, state) EXCEPT ![Destroyer] = "blocked"], Null)
     ELSE UNCHANGED <<running, queue, cache, extant, swaps, delta, total, state>>
  /\ UNCHANGED <<started, owner, dropping, left, holders, line, program, keepalive, dead>>

\* Its coroutine returns; that of the loops of coro_map.hpp has nothing to destroy.
Destroyed ==
  /\ pc[Destroyer] = "destroy" \/ (program = "map" /\ pc[Destroyer] = "idle")
  /\ End(Destroyer, <<>>)
  /\ pc' = [pc EXCEPT ![Destroyer] = "gone"]
  /\ UNCHANGED <<left, holders, line, program, keepalive, closing, dead>>

DestroyerYields ==
  program = "pool" /\ pc[Destroyer] = "idle" /\ Yield(Destroyer) /\ UNCHANGED poolVars

LoopNext ==
  \/ \E r \in Runners : \/ Acquire(r) \/ Acquired(r) \/ Thrown(r)
                        \/ DropResult(r) \/ Leave(r)
                        \/ \E c \in Coros : SpawnConsumer(r, c)
  \/ \E c \in Coros : ConsumerYields(c) \/ EndConsumer(c)
  \/ DestroyPool \/ Destroyed \/ DestroyerYields
  \/ Run /\ UNCHANGED poolVars

Next == /\ ~dead
        /\ \/ program = "any" /\ DispatcherNext /\ Alive' \subseteq AnySlots /\ UNCHANGED poolVars
           \/ program # "any" /\ LoopNext

\* The thread keeps running, and so does the coroutine that has it: none computes
\* for ever without calling the dispatcher, and a consumer does not yield for ever.
Fairness ==
  /\ WF_vars(Next)
  /\ \A c \in Coros : SF_vars(EndConsumer(c))

Spec == Init /\ [][Next]_vars
FairSpec == Spec /\ Fairness

\* The same with consumers that wait.
WaitingSpec == Init /\ [][Next \/ \E c \in Coros : ConsumerThrows(c)]_vars

-----------------------------------------------------------------------------
\* Properties.

\* No more consumers than places, one at a time for each loop; a loop that has
\* returned, and a pool that was destroyed, leave nobody and nothing behind.
PoolIsBounded ==
  /\ program = "pool" => Cardinality(Consumers) <= Limit
  /\ \A r \in Runners : Cardinality({c \in Consumers : owner[c] = r}) <= 1
  /\ \A r \in Runners : pc[r] = "gone" => \A c \in Consumers : owner[c] # r
  /\ program = "pool" /\ pc[Destroyer] = "gone" => holders = {} /\ line = <<>> /\ Consumers = {}

\* Coroutines have their turn: the loop of the thread, and whoever is queued.
TurnsCome == LoopTurns /\ QueuedRuns

\* Every loop returns, and so does the destructor of the pool.
LoopsReturn ==
  /\ \A r \in Runners : program # "any" ~> pc[r] = "gone"
  /\ pc[Destroyer] = "destroy" ~> pc[Destroyer] = "gone"

\* test/coro_pool.cc:18-22: the consumer waits for a timer, and all of them finish.
ConsumersSurvive == ~dead

=============================================================================
