-------------------------------- MODULE Mutex --------------------------------
(***************************************************************************)
(* mutex_t and mutex_acq_t of sync/mutex.cc, used by the coroutines of one *)
(* thread.  The list of locks is the queue: its front has the mutex.  The  *)
(* coroutine that waits on an acquisition is not the same thing as the     *)
(* callback it left in m_waiters: both are kept, and should agree.         *)
(***************************************************************************)
EXTENDS Naturals, Sequences, FiniteSets

CONSTANTS Acqs,        \* the mutex_acq_t objects
          MoveWaited,  \* are acquisitions moved while a coroutine waits on them?
          Null         \* nullptr

Homes == {"here", "there"}

ASSUME MutexAssumption == MoveWaited \in BOOLEAN /\ Null \notin Homes

VARIABLES home,        \* the address of the mutex; Null once it is destroyed
          locks,       \* m_locks
          live,        \* the acquisitions that have been constructed
          parent,      \* m_parent of each
          registered,  \* those with a callback in m_waiters
          wait         \* what the coroutine waiting on each is doing: "none",
                       \* "blocked", or made runnable with "success" or "lost"

vars == <<home, locks, live, parent, registered, wait>>

Init ==
  /\ home = "here"
  /\ locks = <<>>
  /\ live = {}
  /\ parent = [a \in Acqs |-> Null]
  /\ registered = {}
  /\ wait = [a \in Acqs |-> "none"]

\* The list without its i-th node.
RemoveNode(q, i) ==
  [k \in 1 .. Len(q) - 1 |-> IF k < i THEN q[k] ELSE q[k + 1]]

\* m_waiters.clear() with a call of wait_done(result) on the acquisitions in S.
Complete(S, result) ==
  wait' = [a \in Acqs |-> IF a \in S \cap registered THEN result ELSE wait[a]]

-----------------------------------------------------------------------------
\* Mutant: a new acquisition goes to the front.
StartAcq_AtFront(a) ==
  /\ home # Null
  /\ a \notin live
  /\ live' = live \cup {a}
  /\ parent' = [parent EXCEPT ![a] = home]
  /\ locks' = <<a>> \o locks
  /\ UNCHANGED <<home, registered, wait>>

\* start_acq()
StartAcq(a) ==
  /\ home # Null
  /\ a \notin live
  /\ live' = live \cup {a}
  /\ parent' = [parent EXCEPT ![a] = home]
  /\ locks' = Append(locks, a)
  /\ UNCHANGED <<home, registered, wait>>

Has(a) == locks # <<>> /\ Head(locks) = a

\* wait(): it returns at once on the front acquisition.
Wait(a) ==
  /\ a \in live
  /\ parent[a] # Null
  /\ wait[a] = "none"
  /\ ~ Has(a)
  /\ registered' = registered \cup {a}
  /\ wait' = [wait EXCEPT ![a] = "blocked"]
  /\ UNCHANGED <<home, locks, live, parent>>

\* The interruptor of the waiting coroutine: remove_wait() and an exception.
Interrupt(a) ==
  /\ wait[a] = "blocked"
  /\ parent[a] # Null
  /\ registered' = registered \ {a}
  /\ wait' = [wait EXCEPT ![a] = "none"]
  /\ UNCHANGED <<home, locks, live, parent>>

\* The coroutine is scheduled.
Resume(a) ==
  /\ wait[a] \in {"success", "lost"}
  /\ wait' = [wait EXCEPT ![a] = "none"]
  /\ UNCHANGED <<home, locks, live, parent, registered>>

\* Mutant: release_lock() does not call ready().
Release_NotReady(a, i) ==
  /\ a \in live
  /\ parent[a] # Null
  /\ wait[a] \in {"none", "blocked"}
  /\ i \in DOMAIN locks
  /\ locks[i] = a
  /\ locks' = RemoveNode(locks, i)
  /\ Complete({a}, "lost")
  /\ registered' = registered \ {a}
  /\ live' = live \ {a}
  /\ parent' = [parent EXCEPT ![a] = Null]
  /\ UNCHANGED home

\* The destructor of an acquisition whose mutex is alive: release_lock() makes
\* the next one ready when this was the front; other waits are told it is lost.
Release(a, i) ==
  /\ a \in live
  /\ parent[a] # Null
  /\ wait[a] \in {"none", "blocked"}
  /\ i \in DOMAIN locks
  /\ locks[i] = a
  /\ locks' = RemoveNode(locks, i)
  /\ LET woken == IF i = 1 /\ Len(locks) > 1 THEN {locks[2]} ELSE {} IN
       /\ wait' = [b \in Acqs |-> IF b \notin registered THEN wait[b]
                                  ELSE IF b \in woken THEN "success"
                                  ELSE IF b = a THEN "lost"
                                  ELSE wait[b]]
       /\ registered' = registered \ (woken \cup {a})
  /\ live' = live \ {a}
  /\ parent' = [parent EXCEPT ![a] = Null]
  /\ UNCHANGED home

\* The destructor of an acquisition that has lost its mutex.
Discard(a) ==
  /\ a \in live
  /\ parent[a] = Null
  /\ wait[a] = "none"
  /\ live' = live \ {a}
  /\ UNCHANGED <<home, locks, parent, registered, wait>>

\* The move constructor: b takes a's place in the list, and the coroutine now
\* waits on b.  The callbacks are taken out of m_waiters as they are told.
MoveAcq(a, b, i) ==
  /\ a \in live
  /\ b \notin live
  /\ parent[a] # Null
  /\ i \in DOMAIN locks
  /\ locks[i] = a
  /\ IF MoveWaited THEN wait[a] \in {"none", "blocked"} ELSE wait[a] = "none"
  /\ wait[b] = "none"
  /\ locks' = [locks EXCEPT ![i] = b]
  /\ live' = (live \ {a}) \cup {b}
  /\ parent' = [parent EXCEPT ![a] = Null, ![b] = parent[a]]
  /\ registered' = registered \ {a}
  /\ wait' = [wait EXCEPT ![a] = "none", ![b] = wait[a]]
  /\ UNCHANGED home

\* The mutex's own move constructor and destructor.
MoveMutex ==
  /\ home # Null
  /\ home' \in Homes \ {home}
  /\ parent' = [a \in Acqs |-> IF \E i \in DOMAIN locks : locks[i] = a
                               THEN home' ELSE parent[a]]
  /\ UNCHANGED <<locks, live, registered, wait>>

DestroyMutex ==
  LET all == {locks[i] : i \in DOMAIN locks} IN
  /\ home # Null
  /\ home' = Null
  /\ locks' = <<>>
  /\ parent' = [a \in Acqs |-> IF a \in all THEN Null ELSE parent[a]]
  /\ Complete(all, "lost")
  /\ registered' = registered \ all
  /\ UNCHANGED live

CoroutineNext(a) ==
  \/ StartAcq(a)
  \/ Wait(a)
  \/ Interrupt(a)
  \/ Resume(a)
  \/ \E i \in DOMAIN locks : Release(a, i)
  \/ Discard(a)
  \/ \E b \in Acqs, i \in DOMAIN locks : MoveAcq(a, b, i)

Next ==
  \/ \E a \in Acqs : CoroutineNext(a)
  \/ MoveMutex
  \/ DestroyMutex

Spec == Init /\ [][Next]_vars

\* A coroutine that can run does, and whoever has the mutex gives it up.
FairSpec ==
  /\ Spec
  /\ \A a \in Acqs : WF_vars(Resume(a))
  /\ WF_vars(\E a \in Acqs : Has(a) /\ wait[a] = "none" /\ Release(a, 1))

-----------------------------------------------------------------------------
\* Properties.

TypeOK ==
  /\ home \in Homes \cup {Null}
  /\ locks \in Seq(Acqs)
  /\ live \subseteq Acqs
  /\ parent \in [Acqs -> Homes \cup {Null}]
  /\ registered \subseteq live
  /\ wait \in [Acqs -> {"none", "blocked", "success", "lost"}]

\* The list holds each attached acquisition once, and they all point back to
\* the mutex where it is now.
LocksAreAttached ==
  /\ \A i, j \in DOMAIN locks : locks[i] = locks[j] => i = j
  /\ \A i \in DOMAIN locks : locks[i] \in live /\ parent[locks[i]] = home
  /\ \A a \in Acqs : parent[a] # Null => \E i \in DOMAIN locks : locks[i] = a
  /\ home = Null => locks = <<>>

\* A coroutine whose wait() succeeded has the mutex, even if many things
\* happened between its wakeup and its turn to run, unless the mutex itself
\* was destroyed meanwhile; so at most one has it.
WokenHasMutex ==
  \A a \in Acqs : wait[a] = "success" /\ parent[a] # Null => Has(a)

\* A coroutine that has been blocked or given the mutex waits on an acquisition
\* that exists, so that what it goes on to use is not another one.
WaitedIsLive == \A a \in Acqs : wait[a] \in {"blocked", "success"} => a \in live

\* A coroutine is blocked exactly while its callback is registered, and only
\* behind another acquisition: nobody is left blocked on a free mutex.
BlockedIsRegistered ==
  \A a \in Acqs :
    /\ wait[a] = "blocked" <=> a \in registered
    /\ wait[a] = "blocked" => parent[a] # Null /\ ~ Has(a)

\* Whoever waits gets an answer: the mutex, an exception, or it is lost.
EveryWaitReturns == \A a \in Acqs : (wait[a] = "blocked") ~> (wait[a] # "blocked")

\* "object_moved" (wait_object.hpp:22) promises that a wait goes on at the new
\* address: the callback of a blocked coroutine stays registered.
WaitSurvivesMove == \A a \in Acqs : wait[a] = "blocked" => a \in registered

=============================================================================
