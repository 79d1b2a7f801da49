------------------------------ MODULE LockObjects ------------------------------
(***************************************************************************)
(* What the coroutines of a thread take and give back, behind one          *)
(* specification: a mutex, a semaphore, a drainer.  They share no state in *)
(* the code, so a behaviour uses one of them, `object', and the others     *)
(* stay as they were constructed.                                          *)
(***************************************************************************)
EXTENDS Mutex, Drainer

CONSTANTS SemAcqs, Counts, MaxCapacity, Ops        \* Semaphore

VARIABLES object,
          semHome, capacity, available, listed, queue, st, semParent, owned, pending,
          waiting, removing                        \* Semaphore

Sem == INSTANCE Semaphore WITH Acqs <- SemAcqs, home <- semHome, parent <- semParent

ASSUME SemaphoreParameters == Sem!SemaphoreAssumption

semVars == <<semHome, capacity, available, listed, queue, st, semParent, owned,
             pending, waiting, removing>>
objectVars == <<object, vars, drainerVars, semVars>>

ObjectsInit ==
  /\ object \in {"mutex", "semaphore", "drainer"}
  /\ Init
  /\ DrainerInit
  /\ Sem!Init
  /\ object # "semaphore" => capacity = 0

OfMutex(A) == object = "mutex" /\ A /\ UNCHANGED <<object, drainerVars, semVars>>
OfDrainer(A) == object = "drainer" /\ A /\ UNCHANGED <<object, vars, semVars>>
OfSemaphore(A) == object = "semaphore" /\ A /\ UNCHANGED <<object, vars, drainerVars>>

ObjectsNext == OfMutex(Next) \/ OfDrainer(DrainerNext) \/ OfSemaphore(Sem!Next)

\* What FairSpec of each module says: whoever can run does, and whoever has got
\* something gives it back.
ObjectsFairness ==
  /\ \A a \in Acqs : WF_objectVars(OfMutex(Resume(a)))
  /\ WF_objectVars(OfMutex(\E a \in Acqs : Has(a) /\ wait[a] = "none" /\ Release(a, 1)))
  /\ \A c \in Callers : WF_objectVars(OfDrainer(DrainResumes(c)))
  /\ WF_objectVars(OfDrainer(LetGo))
  /\ \A a \in SemAcqs : /\ SF_objectVars(OfSemaphore(Sem!Finish(a)))
                        /\ WF_objectVars(OfSemaphore(Sem!Removed(a)))

ObjectsSpec == ObjectsInit /\ [][ObjectsNext]_objectVars /\ ObjectsFairness

-----------------------------------------------------------------------------
\* Properties.

\* What a semaphore has and what is owned of it make up its capacity, every
\* acquisition is where its state says, and nobody waits for what is there
\* (semaphore.cc:163).
NothingIsLost == Sem!AcqsConsistent /\ Sem!Conservation /\ Sem!PumpedDry

\* A semaphore grants in the order of the queue (semaphore.cc:24).
ServedInOrder == Sem!ServedInOrder

\* Every wait ends: for a mutex, for a drain, and for a semaphore at the front of
\* its queue (mutex.cc:50, drainer.cc:46).
WaitsEnd == EveryWaitReturns /\ DrainReturns /\ Sem!NobodyStarves

\* What comments and asserts say of semaphores, and is not so (see Semaphore).

\* No list holds an acquisition that is gone (intrusive.hpp:31), after remove().
ListedAcqsLive == Sem!ListedAcqsLive

\* The same after combine() (semaphore.hpp:31).
QueuedAcqsLive == Sem!QueuedAcqsLive

\* All that acquisitions had comes back, once (semaphore.cc:117).
AllReturned == Sem!AllReturned

\* None asks for more than there is (semaphore.cc:145).
PendingFitsCapacity == Sem!PendingFitsCapacity

\* Waiting is FIFO (semaphore.hpp:17).
WaitIsFifo == Sem!WaitIsFifo

=============================================================================
