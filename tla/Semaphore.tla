------------------------------ MODULE Semaphore ------------------------------
(***************************************************************************)
(* semaphore_t and semaphore_acq_t of sync/semaphore.cc: a counting        *)
(* semaphore whose capacity changes at run time, used by the coroutines of *)
(* one thread.  Coroutines are switched only where they wait, so a call    *)
(* that does not wait is one action.  As in the release build, an assert   *)
(* is not evaluated; memory of an acquisition that is destroyed while a    *)
(* list still links to it ("dead") is not reused.                          *)
(***************************************************************************)
EXTENDS Naturals, Sequences, FiniteSets, FiniteSetsExt

CONSTANTS Acqs,         \* the semaphore_acq_t objects
          Counts,       \* the counts coroutines ask for
          MaxCapacity,  \* bound on extend()
          Ops,          \* which of the rarer calls the coroutines make
          Null          \* nullptr

AllOps == {"combine", "combinePending", "move", "moveCombined", "shrink"}

Homes == {"here", "there"}

SemaphoreAssumption ==
  /\ IsFiniteSet(Acqs)
  /\ Counts \subseteq Nat \ {0}
  /\ MaxCapacity \in Nat
  /\ Ops \subseteq AllOps
  /\ Null \notin Homes

VARIABLES home,       \* the address of the semaphore: it changes when it is moved
          capacity,   \* m_capacity
          available,  \* m_available
          listed,     \* m_acqs: only ever traversed to set m_parent
          queue,      \* m_pending, a list of acquisitions
          st,         \* each acquisition: "free" (not constructed), "live", "dead"
          parent,     \* m_parent
          owned,      \* m_owned
          pending,    \* m_pending of the acquisition
          waiting,    \* the acquisitions a coroutine waits on (m_waiters)
          removing    \* those whose coroutine is inside remove()

acqVars == <<st, parent, owned, pending>>
vars == <<home, capacity, available, listed, queue, acqVars, waiting, removing>>

Init ==
  /\ home = "here"
  /\ capacity \in 0 .. MaxCapacity
  /\ available = capacity
  /\ listed = {}
  /\ queue = <<>>
  /\ st = [a \in Acqs |-> "free"]
  /\ parent = [a \in Acqs |-> Null]
  /\ owned = [a \in Acqs |-> 0]
  /\ pending = [a \in Acqs |-> 0]
  /\ waiting = {}
  /\ removing = {}

Queued == {queue[k] : k \in DOMAIN queue}
Attached(a) == st[a] = "live" /\ parent[a] # Null
Unused(a) == st[a] = "free"

\* The queue without a, which is linked once if at all.
Without(q, a) ==
  IF a \in {q[k] : k \in DOMAIN q}
  THEN LET at == CHOOSE k \in DOMAIN q : q[k] = a
       IN [k \in 1 .. Len(q) - 1 |-> q[IF k < at THEN k ELSE k + 1]]
  ELSE q

-----------------------------------------------------------------------------
\* pump_waiters(): grant from the front while what is available covers it.

\* What the first n acquisitions of q ask for together.
Need(q, want, n) == MapThenSumSet(LAMBDA k : want[q[k]], 1 .. n)
\* Mutant: < for <= in pump_waiters().
Grants_Strict(av, q, want) ==
  Max({n \in 0 .. Len(q) : n = 0 \/ Need(q, want, n) < av})

Grants(av, q, want) ==
  Max({n \in 0 .. Len(q) : Need(q, want, n) <= av})

\* Mutant: the first acquisition that fits is granted, wherever it stands.
Pump_SkipAhead(av, q, l, own, want, w) ==
  LET fits == {k \in DOMAIN q : want[q[k]] <= av}
      first == IF fits = {} THEN {} ELSE {Min(fits)}
      granted == {q[k] : k \in first}
  IN /\ available' = av - MapThenSumSet(LAMBDA a : want[a], granted)
     /\ queue' = SelectSeq(q, LAMBDA a : a \notin granted)
     /\ listed' = l \cup granted
     /\ owned' = [a \in Acqs |-> IF a \in granted THEN own[a] + want[a] ELSE own[a]]
     /\ pending' = [a \in Acqs |-> IF a \in granted THEN 0 ELSE want[a]]
     /\ waiting' = w \ granted

\* The state after pump_waiters() is called with these values of m_available,
\* m_pending and m_acqs, and of the acquisitions' counts.  ready() completes
\* every wait on a granted acquisition.
Pump(av, q, l, own, want, w) ==
  LET n == Grants(av, q, want)
      granted == {q[k] : k \in 1 .. n}
  IN /\ available' = av - Need(q, want, n)
     /\ queue' = SubSeq(q, n + 1, Len(q))
     /\ listed' = l \cup granted
     /\ owned' = [a \in Acqs |-> IF a \in granted THEN own[a] + want[a] ELSE own[a]]
     /\ pending' = [a \in Acqs |-> IF a \in granted THEN 0 ELSE want[a]]
     /\ waiting' = w \ granted

-----------------------------------------------------------------------------
\* Acquisitions.

\* start_acq(): the constructor takes what is available at once, or queues up.
Construct(a, n) ==
  /\ st' = [st EXCEPT ![a] = "live"]
  /\ parent' = [parent EXCEPT ![a] = home]
  /\ IF available >= n
     THEN /\ available' = available - n
          /\ owned' = [owned EXCEPT ![a] = n]
          /\ pending' = [pending EXCEPT ![a] = 0]
          /\ listed' = listed \cup {a}
          /\ UNCHANGED queue
     ELSE /\ owned' = [owned EXCEPT ![a] = 0]
          /\ pending' = [pending EXCEPT ![a] = n]
          /\ queue' = Append(queue, a)
          /\ UNCHANGED <<available, listed>>

StartAcq(a, n) ==
  /\ Unused(a)
  /\ n <= capacity
  /\ Construct(a, n)
  /\ UNCHANGED <<home, capacity, waiting, removing>>

\* wait() on an acquisition that is pending, and its interruption.
Wait(a) ==
  /\ Attached(a)
  /\ pending[a] > 0
  /\ a \notin waiting
  /\ waiting' = waiting \cup {a}
  /\ UNCHANGED <<home, capacity, available, listed, queue, acqVars, removing>>

Interrupt(a) ==
  /\ a \in waiting \ removing
  /\ waiting' = waiting \ {a}
  /\ UNCHANGED <<home, capacity, available, listed, queue, acqVars, removing>>

\* release(): give some of it back.
Release(a, n) ==
  /\ Attached(a)
  /\ a \notin removing
  /\ n <= owned[a]
  /\ Pump(available + n, queue, listed, [owned EXCEPT ![a] = @ - n], pending, waiting)
  /\ UNCHANGED <<home, capacity, st, parent, removing>>

\* The destructor.  An acquisition that lost its parent does not leave m_acqs.
Destroy(a) ==
  /\ st[a] = "live"
  /\ a \notin waiting \cup removing
  /\ IF parent[a] # Null
     THEN /\ Pump(available + owned[a], Without(queue, a), listed \ {a},
                  [owned EXCEPT ![a] = 0], [pending EXCEPT ![a] = 0], waiting)
          /\ st' = [st EXCEPT ![a] = "free"]
     ELSE /\ st' = [st EXCEPT ![a] = IF a \in listed \cup Queued THEN "dead" ELSE "free"]
          /\ UNCHANGED <<available, listed, queue, owned, pending, waiting>>
  /\ parent' = [parent EXCEPT ![a] = Null]
  /\ UNCHANGED <<home, capacity, removing>>

\* The move constructor: the new object takes the place of the old one in the
\* lists and for the coroutines that wait.
MoveAcq(a, b) ==
  LET moved(x) == IF x = a THEN b ELSE x IN
  /\ "move" \in Ops
  /\ Attached(a)
  /\ a \notin removing
  /\ Unused(b)
  /\ st' = [st EXCEPT ![a] = "free", ![b] = "live"]
  /\ parent' = [parent EXCEPT ![a] = Null, ![b] = parent[a]]
  /\ owned' = [owned EXCEPT ![a] = 0, ![b] = owned[a]]
  /\ pending' = [pending EXCEPT ![a] = 0, ![b] = pending[a]]
  /\ listed' = {moved(x) : x \in listed}
  /\ queue' = [k \in DOMAIN queue |-> moved(queue[k])]
  /\ waiting' = {moved(x) : x \in waiting}
  /\ UNCHANGED <<home, capacity, available, removing>>

\* Mutant: combine() leaves the other acquisition its parent.
Combine_KeepParent(a, b) ==
  /\ a # b
  /\ Attached(a) /\ Attached(b)
  /\ {a, b} \cap removing = {}
  /\ "combine" \in Ops
  /\ pending[a] = 0 /\ pending[b] = 0
  /\ owned' = [owned EXCEPT ![a] = @ + owned[b]]
  /\ UNCHANGED <<home, capacity, available, listed, queue, st, parent, pending,
                 waiting, removing>>

\* combine(): a takes over what b owns.  b keeps its counts and its place in a
\* list, and has no parent any more.  The asserts want both granted; the usage
\* comment of the header also combines with one that is pending.
Combine(a, b) ==
  /\ a # b
  /\ Attached(a) /\ Attached(b)
  /\ {a, b} \cap removing = {}
  /\ pending[a] = 0
  /\ \/ "combine" \in Ops /\ pending[b] = 0
     \/ "combinePending" \in Ops /\ pending[b] > 0 /\ b \notin waiting
  /\ owned' = [owned EXCEPT ![a] = @ + owned[b]]
  /\ parent' = [parent EXCEPT ![b] = Null]
  /\ UNCHANGED <<home, capacity, available, listed, queue, st, pending, waiting,
                 removing>>

-----------------------------------------------------------------------------
\* The semaphore.
Extend(n) ==
  /\ capacity + n <= MaxCapacity
  /\ capacity' = capacity + n
  /\ Pump(available + n, queue, listed, owned, pending, waiting)
  /\ UNCHANGED <<home, st, parent, removing>>

\* remove() of a granted acquisition: what it owns leaves the semaphore, and
\* invalidate() cuts it off.
Cut(a) ==
  /\ capacity' = capacity - owned[a]
  /\ owned' = [owned EXCEPT ![a] = 0]
  /\ parent' = [parent EXCEPT ![a] = Null]

Remove(a) ==
  /\ "shrink" \in Ops
  /\ Attached(a)
  /\ a \notin removing \cup waiting
  /\ IF pending[a] = 0
     THEN Cut(a) /\ UNCHANGED <<waiting, removing>>
     ELSE /\ waiting' = waiting \cup {a}
          /\ removing' = removing \cup {a}
          /\ UNCHANGED <<capacity, owned, parent>>
  /\ UNCHANGED <<home, available, listed, queue, st, pending>>

\* resize() to less: acquire the difference, wait for it, remove it.  When it
\* is available nothing waits, and the local acquisition dies at once.
Shrink(a, n) ==
  /\ "shrink" \in Ops
  /\ Unused(a)
  /\ n \in 1 .. capacity
  /\ IF available >= n
     THEN /\ available' = available - n
          /\ capacity' = capacity - n
          /\ listed' = listed \cup {a}
          /\ st' = [st EXCEPT ![a] = "dead"]
          /\ UNCHANGED <<queue, parent, owned, pending, waiting, removing>>
     ELSE /\ Construct(a, n)
          /\ waiting' = waiting \cup {a}
          /\ removing' = removing \cup {a}
          /\ UNCHANGED capacity
  /\ UNCHANGED home

\* The coroutine inside remove() runs again.
Removed(a) ==
  /\ a \in removing \ waiting
  /\ Cut(a)
  /\ removing' = removing \ {a}
  /\ UNCHANGED <<home, available, listed, queue, st, pending, waiting>>

\* The move constructor of the semaphore gives every acquisition it can find
\* in its lists its new address.  That includes one that was combined into
\* another, which must not be there for the counts to stay right.
MoveSemaphore ==
  /\ "move" \in Ops
  /\ "moveCombined" \in Ops \/ \A a \in listed : st[a] = "live" => parent[a] # Null
  /\ removing = {}
  /\ home' = CHOOSE h \in Homes : h # home
  /\ parent' = [a \in Acqs |-> IF a \in listed \cup Queued /\ st[a] = "live"
                               THEN home' ELSE parent[a]]
  /\ UNCHANGED <<capacity, available, listed, queue, st, owned, pending, waiting,
                 removing>>

Next ==
  \/ \E a \in Acqs, n \in Counts : StartAcq(a, n)
  \/ \E a \in Acqs : Wait(a) \/ Interrupt(a) \/ Destroy(a)
  \/ \E a \in Acqs, n \in Counts : Release(a, n)
  \/ \E a, b \in Acqs : MoveAcq(a, b)
  \/ \E a, b \in Acqs : Combine(a, b)
  \/ \E n \in Counts : Extend(n)
  \/ \E a \in Acqs : Remove(a)
  \/ \E a \in Acqs, n \in Counts : Shrink(a, n)
  \/ \E a \in Acqs : Removed(a)
  \/ MoveSemaphore

Spec == Init /\ [][Next]_vars

\* Whoever has been granted something lets it go in the end, however often the
\* object that stands for it is moved; and a resize that can go on does.
Finish(a) == pending[a] = 0 /\ Destroy(a)

FairSpec == Spec /\ \A a \in Acqs : SF_vars(Finish(a)) /\ WF_vars(Removed(a))

-----------------------------------------------------------------------------
\* Properties.

TypeOK ==
  /\ home \in Homes
  /\ capacity \in 0 .. MaxCapacity
  /\ available \in 0 .. MaxCapacity
  /\ listed \subseteq Acqs
  /\ Queued \subseteq Acqs
  /\ st \in [Acqs -> {"free", "live", "dead"}]
  /\ parent \in [Acqs -> Homes \cup {Null}]
  /\ owned \in [Acqs -> Nat]
  /\ pending \in [Acqs -> Nat]
  /\ removing \subseteq Acqs
  /\ waiting \subseteq Acqs

\* Nothing leaks and nothing is handed out twice, whatever is released,
\* combined, abandoned while pending, moved or removed.
Conservation ==
  capacity = available
             + MapThenSumSet(LAMBDA a : owned[a], {a \in Acqs : Attached(a)})

\* No coroutine waits for what is there: the front of the queue never fits.
PumpedDry == queue # <<>> => pending[Head(queue)] > available

\* Each acquisition is where its state says: a pending one is in the queue
\* exactly once, no wait is left on one that was granted, and its parent is
\* the semaphore at its present address (the lists are how a move finds it).
AcqsConsistent ==
  /\ TypeOK
  /\ \A a \in Acqs : Attached(a) => parent[a] = home
  /\ \A a \in Acqs : Attached(a) => ((pending[a] > 0) <=> (a \in Queued))
  /\ \A a \in Acqs : Attached(a) => ((pending[a] = 0) <=> (a \in listed))
  /\ waiting \subseteq Queued
  /\ \A j, k \in DOMAIN queue : queue[j] = queue[k] => j = k

\* Pending acquisitions are granted in order; and whoever starts without
\* queueing behind them asks for less than the first of them.
ServedInOrder ==
  [][/\ \A i, j \in DOMAIN queue :
          (i < j /\ pending'[queue[j]] = 0 /\ owned'[queue[j]] > 0)
             => queue[i] \notin {queue'[k] : k \in DOMAIN queue'}
     /\ \A a \in Acqs :
          (Unused(a) /\ owned'[a] > 0 /\ queue # <<>> /\ available' # available)
             => owned'[a] < pending[Head(queue)]]_vars

\* The acquisition at the front of the queue does not starve if it asks for the
\* least (nothing smaller can be taken past it) and resize() leaves enough for
\* it: then it is granted, given up or moved.
NobodyStarves ==
  [](capacity >= Min(Counts)) =>
    \A a \in Acqs :
      (queue # <<>> /\ Head(queue) = a /\ pending[a] = Min(Counts)) ~> (a \notin Queued)

\* "Waiting on a semaphore is FIFO to avoid starvation." (semaphore.hpp:17)
WaitIsFifo ==
  [][\A a \in Acqs : (Unused(a) /\ owned'[a] > 0 /\ available' < available)
                        => queue = <<>>]_vars

\* "assert(!in_a_list())" in ~intrusive_node_t (intrusive.hpp:31): no list
\* holds an acquisition that has been destroyed.
ListedAcqsLive == \A a \in listed : st[a] = "live"

\* The same for the queue when combine() is used as in semaphore.hpp:31.
QueuedAcqsLive == \A a \in Queued : st[a] = "live"

\* "all acqs should be destroyed first" and "assert(m_capacity == m_available)"
\* in ~semaphore_t (semaphore.cc:117-119): with no acquisition left everything
\* has come back, and came back once.
AllReturned == (\A a \in Acqs : st[a] # "live") => capacity = available

\* "make sure none of them want more than we now have" (semaphore.cc:145)
PendingFitsCapacity == \A a \in Queued : owned[a] + pending[a] <= capacity

=============================================================================
