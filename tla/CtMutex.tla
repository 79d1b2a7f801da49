---------------------------------- MODULE CtMutex ----------------------------------
(***************************************************************************)
(* cross_thread_mutex_t and its acquisitions (cross_thread/ct_mutex.cc).   *)
(* The list of acquisitions is kept under a spinlock, and a section under  *)
(* that lock is one operator.  What comes after it is not: whoever releases *)
(* the mutex tells the next acquisition by a message to its home thread,   *)
(* whose id it reads from the acquisition after it gave the spinlock up.   *)
(*                                                                         *)
(* An acquisition exists exactly while it is in the list: it is constructed *)
(* in its place, and its destructor releases it.  The acquisitions of a    *)
(* writer are at the same address, so a message to one may reach the next. *)
(***************************************************************************)
EXTENDS Naturals, Sequences, FiniteSets, SequencesExt

CONSTANTS Writers,      \* coroutines that acquire the mutex
          CtThreads,    \* coroutine threads
          Nobody

ASSUME CtMutexAssumption == Nobody \notin Writers \cup CtThreads

VARIABLES home,         \* writer -> the thread it runs on
          locks,        \* m_locks
          has,          \* m_has of the acquisition of each writer
          notices       \* writer -> messages under way to its acquisition

lockVars == <<home, locks, has, notices>>

LocksInit ==
  /\ home \in [Writers -> CtThreads]
  /\ locks = <<>>
  /\ has = [w \in Writers |-> FALSE]
  /\ notices = [w \in Writers |-> 0]

IsFront(w) == locks # <<>> /\ Head(locks) = w
Exists(w) == w \in ToSet(locks)

\* add_lock(): the first in the list is ready at once.
AddLock(w) ==
  /\ locks' = Append(locks, w)
  /\ has' = [has EXCEPT ![w] = locks = <<>>]
  /\ UNCHANGED <<home, notices>>

\* release_lock(), the section under the spinlock, and whom it will tell.
RemoveLock(w) ==
  /\ IF IsFront(w) THEN locks' = Tail(locks)
     ELSE \E i \in DOMAIN locks : locks[i] = w /\ locks' = RemoveAt(locks, i)
  /\ has' = [has EXCEPT ![w] = FALSE]
  /\ UNCHANGED <<home, notices>>
Successor(w) == IF IsFront(w) /\ Len(locks) > 1 THEN locks[2] ELSE Nobody

SendNotice(w) ==
  /\ notices' = [notices EXCEPT ![w] = @ + 1]
  /\ UNCHANGED <<home, locks, has>>

\* Mutant: whoever is told has the mutex.
Notified_Unchecked(w) ==
  /\ notices[w] > 0
  /\ notices' = [notices EXCEPT ![w] = @ - 1]
  /\ has' = [has EXCEPT ![w] = Exists(w)]
  /\ UNCHANGED <<home, locks>>

\* cross_thread_notification(): it may be too late, or for another acquisition.
Notified(w) ==
  /\ notices[w] > 0
  /\ notices' = [notices EXCEPT ![w] = @ - 1]
  /\ has' = [has EXCEPT ![w] = @ \/ IsFront(w)]
  /\ UNCHANGED <<home, locks>>

-----------------------------------------------------------------------------
\* Properties.

\* Only the first in the list has the mutex, and somebody is on the way to telling
\* it as long as it does not.  `telling' are those whom a coroutine is about to tell.
FrontIsServed(telling) ==
  /\ \A w \in Writers : has[w] => IsFront(w)
  /\ locks # <<>> =>
       has[Head(locks)] \/ notices[Head(locks)] > 0 \/ Head(locks) \in telling

=============================================================================
