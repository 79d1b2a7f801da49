------------------------------- MODULE Drainer -------------------------------
(***************************************************************************)
(* drainer_t and drainer_lock_t of sync/drainer.cc, used by the coroutines *)
(* of one thread: drain() tells everyone who watches a lock that it should *)
(* stop, and returns when the last lock is gone.                           *)
(***************************************************************************)
EXTENDS Naturals, FiniteSets

CONSTANTS Locks,      \* the drainer_lock_t objects
          Callers,    \* the coroutines that call drain() or the destructor
          CopyLate,   \* is a lock copied while the drainer drains?
          NoDrainer   \* nullptr

Addresses == {"here", "there"}

ASSUME DrainerAssumption ==
  /\ IsFiniteSet(Locks)
  /\ CopyLate \in BOOLEAN
  /\ NoDrainer \notin Addresses

VARIABLES address,    \* the address of the drainer
          draining,   \* m_draining
          held,       \* m_locks
          starting,   \* m_start_drain_waiters: the locks in it
          finishing,  \* m_finish_drain_waiters: the callers in it
          existing,   \* the locks that exist
          owner,      \* m_parent of a lock; NoDrainer when detached
          watch,      \* what watches a lock (an interruptor): "none", "waiting"
                      \* in its m_waiters, or "told"
          drain       \* each caller: "out", "blocked" in drain(), "runnable",
                      \* "returned"

lockVars == <<existing, owner, watch>>
drainerVars == <<address, draining, held, starting, finishing, lockVars, drain>>

DrainerInit ==
  /\ address = "here"
  /\ draining = FALSE
  /\ held = {}
  /\ starting = {}
  /\ finishing = {}
  /\ existing = {}
  /\ owner = [l \in Locks |-> NoDrainer]
  /\ watch = [l \in Locks |-> "none"]
  /\ drain = [c \in Callers |-> "out"]

Returned == \E c \in Callers : drain[c] = "returned"

-----------------------------------------------------------------------------
\* A lock registers with the drainer twice: add_lock() and add_wait().  When
\* the drainer is already draining add_wait() calls back at once, and nobody
\* watches the new lock yet.
Register(l) ==
  /\ existing' = existing \cup {l}
  /\ owner' = [owner EXCEPT ![l] = address]
  /\ watch' = [watch EXCEPT ![l] = "none"]
  /\ held' = held \cup {l}
  /\ starting' = IF draining THEN starting ELSE starting \cup {l}

\* drainer_t::lock(); add_lock() asserts that it is not draining.
Lock(l) ==
  /\ l \notin existing
  /\ ~ draining
  /\ Register(l)
  /\ UNCHANGED <<address, draining, finishing, drain>>

\* The copy constructor, called by whoever has a lock.
Copy(m, l) ==
  /\ m \in existing
  /\ l \notin existing
  /\ owner[m] # NoDrainer
  /\ draining => CopyLate
  /\ Register(l)
  /\ UNCHANGED <<address, draining, finishing, drain>>

\* detached(), and copies of it.
Detached(l) ==
  /\ l \notin existing
  /\ existing' = existing \cup {l}
  /\ owner' = [owner EXCEPT ![l] = NoDrainer]
  /\ watch' = [watch EXCEPT ![l] = "none"]
  /\ UNCHANGED <<address, draining, held, starting, finishing, drain>>

\* The move constructor: l takes m's place everywhere.
Move(m, l) ==
  LET moved(S) == IF m \in S THEN (S \ {m}) \cup {l} ELSE S IN
  /\ m \in existing
  /\ l \notin existing
  /\ existing' = moved(existing)
  /\ held' = moved(held)
  /\ starting' = moved(starting)
  /\ owner' = [owner EXCEPT ![m] = NoDrainer, ![l] = owner[m]]
  /\ watch' = [watch EXCEPT ![m] = "none", ![l] = watch[m]]
  /\ UNCHANGED <<address, draining, finishing, drain>>

\* Mutant: a drain that has begun is not noticed.
AddWait_Late(l) ==
  /\ l \in existing
  /\ watch[l] = "none"
  /\ watch' = [watch EXCEPT ![l] = "waiting"]
  /\ UNCHANGED <<address, draining, held, starting, finishing, existing, owner, drain>>

\* An interruptor or a wait on the lock: told at once when it is draining.
AddWait(l) ==
  /\ l \in existing
  /\ watch[l] = "none"
  /\ watch' = [watch EXCEPT ![l] = IF owner[l] # NoDrainer /\ draining
                                   THEN "told" ELSE "waiting"]
  /\ UNCHANGED <<address, draining, held, starting, finishing, existing, owner, drain>>

RemoveWait(l) ==
  /\ l \in existing
  /\ watch[l] \in {"waiting", "told"}
  /\ watch' = [watch EXCEPT ![l] = "none"]
  /\ UNCHANGED <<address, draining, held, starting, finishing, existing, owner, drain>>

\* The callers in m_finish_drain_waiters are made runnable.
WakeFinishers ==
  /\ drain' = [c \in Callers |-> IF c \in finishing THEN "runnable" ELSE drain[c]]
  /\ finishing' = {}

\* Mutant: every lock that goes ends the drain.
Destroy_WakeEarly(l) ==
  /\ l \in existing
  /\ existing' = existing \ {l}
  /\ owner' = [owner EXCEPT ![l] = NoDrainer]
  /\ watch' = [watch EXCEPT ![l] = IF @ = "waiting" THEN "told" ELSE @]
  /\ held' = held \ {l}
  /\ starting' = starting \ {l}
  /\ IF l \in held /\ draining THEN WakeFinishers ELSE UNCHANGED <<drain, finishing>>
  /\ UNCHANGED <<address, draining>>

\* The destructor of a lock tells whoever still watches it, and the last one
\* ends the drain.
Destroy(l) ==
  /\ l \in existing
  /\ existing' = existing \ {l}
  /\ owner' = [owner EXCEPT ![l] = NoDrainer]
  /\ watch' = [watch EXCEPT ![l] = IF @ = "waiting" THEN "told" ELSE @]
  /\ held' = held \ {l}
  /\ starting' = starting \ {l}
  /\ IF l \in held /\ draining /\ held' = {}
     THEN WakeFinishers
     ELSE UNCHANGED <<drain, finishing>>
  /\ UNCHANGED <<address, draining>>

\* drain(): m_start_drain_waiters is told, which each lock passes on to its
\* own waiters; then the coroutine waits itself, out of reach of interruptors.
Drain(c) ==
  /\ drain[c] = "out"
  /\ draining' = TRUE
  /\ watch' = [l \in Locks |-> IF l \in starting /\ watch[l] = "waiting"
                               THEN "told" ELSE watch[l]]
  /\ starting' = {}
  /\ IF held = {}
     THEN /\ drain' = [drain EXCEPT ![c] = "returned"]
          /\ UNCHANGED finishing
     ELSE /\ drain' = [drain EXCEPT ![c] = "blocked"]
          /\ finishing' = finishing \cup {c}
  /\ UNCHANGED <<address, held, existing, owner>>

DrainResumes(c) ==
  /\ drain[c] = "runnable"
  /\ drain' = [drain EXCEPT ![c] = "returned"]
  /\ UNCHANGED <<address, draining, held, starting, finishing, lockVars>>

\* The move constructor of the drainer takes its locks along.  (The old object
\* is left draining and empty.)
MoveDrainer ==
  /\ ~ Returned
  /\ address' \in Addresses \ {address}
  /\ owner' = [l \in Locks |-> IF l \in held THEN address' ELSE owner[l]]
  /\ UNCHANGED <<draining, held, starting, finishing, existing, watch, drain>>

DrainerNext ==
  \/ \E l \in Locks : Lock(l) \/ Detached(l) \/ AddWait(l) \/ RemoveWait(l) \/ Destroy(l)
  \/ \E l, m \in Locks : Copy(m, l) \/ Move(m, l)
  \/ \E c \in Callers : Drain(c) \/ DrainResumes(c)
  \/ MoveDrainer

DrainerSpec == DrainerInit /\ [][DrainerNext]_drainerVars

\* Coroutines that can run do, and whoever holds a lock of a drainer that is
\* draining lets it go.
LetGo == \E l \in held : draining /\ Destroy(l)

DrainerFairSpec ==
  /\ DrainerSpec
  /\ \A c \in Callers : WF_drainerVars(DrainResumes(c))
  /\ WF_drainerVars(LetGo)

-----------------------------------------------------------------------------
\* Properties.

DrainerTypeOK ==
  /\ address \in Addresses
  /\ draining \in BOOLEAN
  /\ held \subseteq Locks
  /\ starting \subseteq existing
  /\ finishing \subseteq Callers
  /\ existing \subseteq Locks
  /\ owner \in [Locks -> Addresses \cup {NoDrainer}]
  /\ watch \in [Locks -> {"none", "waiting", "told"}]
  /\ drain \in [Callers -> {"out", "blocked", "runnable", "returned"}]

\* The two lists a lock is in agree with what it knows: it is in m_locks while
\* it exists, in m_start_drain_waiters until the drain starts, and finds its
\* drainer wherever that was moved.
LocksConsistent ==
  /\ DrainerTypeOK
  /\ held = {l \in existing : owner[l] # NoDrainer}
  /\ starting = IF draining THEN {} ELSE held
  /\ \A l \in held : owner[l] = address

\* drain() never returns before the last lock is gone, and nothing keeps the
\* drainer alive after that: its memory may be freed.
DrainedWhenReturned ==
  \A c \in Callers :
    drain[c] \in {"runnable", "returned"} => draining /\ held = {}

\* While a drain goes on there is no watcher left untold, and a blocked caller
\* is one that the last lock will wake.
EveryoneTold ==
  /\ draining => \A l \in held : watch[l] # "waiting"
  /\ \A c \in Callers : drain[c] = "blocked" <=> c \in finishing
  /\ finishing # {} => draining /\ held # {}

\* Every list of the drainer agrees with the locks and the callers in it.
ListsAgree == LocksConsistent /\ EveryoneTold

\* A drain ends once the holders of the locks have let go.
DrainReturns == \A c \in Callers : (drain[c] = "blocked") ~> (drain[c] = "returned")

\* "assert(!m_draining)" (drainer.cc:134): no lock is added while draining.
NoLockWhileDraining ==
  [][draining => Cardinality(held') <= Cardinality(held)]_drainerVars

=============================================================================
