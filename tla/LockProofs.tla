------------------------------ MODULE LockProofs ------------------------------
(***************************************************************************)
(* The safety of mutex_t, drainer_t and semaphore_t for any acquisitions,  *)
(* locks, callers, counts and capacities.                                  *)
(***************************************************************************)
EXTENDS LockObjects, FiniteSums, SequenceTheorems, TLAPS

-----------------------------------------------------------------------------
\* The mutex, provided that no acquisition is moved while a coroutine waits on it
\* (lock_claims shows what happens then).  The invariant ties three things together
\* that the code keeps apart: the list of locks, the callbacks in m_waiters and the
\* state of the waiting coroutines.
MutexInv ==
  /\ TypeOK
  /\ LocksAreAttached
  /\ WokenHasMutex
  /\ BlockedIsRegistered
  /\ WaitedIsLive

\* RemoveNode() of mutex_t::release_lock() keeps the order of the other nodes:
\* what is left is what was there, but for the i-th.
LEMMA RemoveNodeProps ==
  ASSUME NEW S, NEW q \in Seq(S), NEW i \in DOMAIN q
  PROVE  /\ RemoveNode(q, i) \in Seq(S)
         /\ Len(RemoveNode(q, i)) = Len(q) - 1
         /\ \A k \in 1 .. Len(q) - 1 :
              RemoveNode(q, i)[k] = IF k < i THEN q[k] ELSE q[k + 1]
<1>1. Len(q) \in Nat /\ Len(q) >= 1 /\ DOMAIN q = 1 .. Len(q)
  OBVIOUS
<1>2. \A k \in 1 .. Len(q) - 1 : (IF k < i THEN q[k] ELSE q[k + 1]) \in S
  BY <1>1
<1>3. RemoveNode(q, i) \in [1 .. Len(q) - 1 -> S]
  BY <1>2 DEF RemoveNode
<1>4. Len(q) - 1 \in Nat
  BY <1>1
<1> QED
  BY <1>3, <1>4 DEF RemoveNode

\* The front of a list that is not empty.
LEMMA HasIsFirst ==
  ASSUME NEW a \in Acqs, locks \in Seq(Acqs)
  PROVE  Has(a) <=> (1 \in DOMAIN locks /\ locks[1] = a)
BY DEF Has

\* What the initial state establishes.
LEMMA MutexInitInv == Init => MutexInv
BY MutexAssumption
DEF Init, MutexInv, TypeOK, LocksAreAttached, WokenHasMutex, BlockedIsRegistered,
    WaitedIsLive,
    Homes

-----------------------------------------------------------------------------
\* start_acq() puts the new acquisition behind all others.
LEMMA StartAcqStep ==
  ASSUME MutexInv, NEW a \in Acqs, StartAcq(a)
  PROVE  MutexInv'
<1> USE MutexAssumption
<1>1. /\ locks \in Seq(Acqs)
      /\ locks' = Append(locks, a)
      /\ locks' \in Seq(Acqs)
      /\ Len(locks') = Len(locks) + 1
      /\ \A k \in 1 .. Len(locks) : locks'[k] = locks[k]
      /\ locks'[Len(locks) + 1] = a
      /\ Len(locks) \in Nat
  BY DEF MutexInv, TypeOK, StartAcq
<1>2. a \notin live /\ parent[a] = Null /\ \A k \in DOMAIN locks : locks[k] # a
  BY <1>1 DEF MutexInv, TypeOK, LocksAreAttached, StartAcq
<1>3. TypeOK'
  BY <1>1 DEF MutexInv, TypeOK, StartAcq
<1>4. LocksAreAttached'
  <2>1. \A i, j \in DOMAIN locks' : locks'[i] = locks'[j] => i = j
    BY <1>1, <1>2 DEF MutexInv, LocksAreAttached
  <2>2. \A i \in DOMAIN locks' : locks'[i] \in live' /\ parent'[locks'[i]] = home'
    BY <1>1, <1>2 DEF MutexInv, TypeOK, LocksAreAttached, StartAcq
  <2>3. \A b \in Acqs : parent'[b] # Null => \E i \in DOMAIN locks' : locks'[i] = b
    <3> SUFFICES ASSUME NEW b \in Acqs, parent'[b] # Null
                 PROVE  \E i \in DOMAIN locks' : locks'[i] = b
      OBVIOUS
    <3>1. CASE b = a
      BY <1>1, <3>1
    <3>2. CASE b # a
      <4>1. PICK i \in DOMAIN locks : locks[i] = b
        BY <3>2 DEF MutexInv, TypeOK, LocksAreAttached, StartAcq
      <4> QED
        BY <1>1, <4>1
    <3> QED
      BY <3>1, <3>2
  <2> QED
    BY <2>1, <2>2, <2>3 DEF LocksAreAttached, StartAcq
<1>5. \A b \in Acqs : Has(b) => Has(b)'
  BY <1>1 DEF Has
<1>6. \A b \in Acqs : b # a => (Has(b)' => Has(b) \/ locks = <<>>)
  BY <1>1 DEF Has
<1>7. \A b \in Acqs : b # a => parent'[b] = parent[b]
  BY DEF StartAcq, MutexInv, TypeOK
<1>8. a \notin registered
  BY DEF StartAcq, MutexInv, TypeOK
<1>9. wait[a] \notin {"blocked", "success"}
  BY <1>2 DEF MutexInv, WaitedIsLive
<1>10. WokenHasMutex'
  <2> SUFFICES ASSUME NEW b \in Acqs, wait'[b] = "success", parent'[b] # Null
               PROVE  Has(b)'
    BY DEF WokenHasMutex
  <2>1. CASE b = a
    BY <2>1, <1>9 DEF StartAcq
  <2>2. CASE b # a
    BY <2>2, <1>5, <1>7 DEF MutexInv, WokenHasMutex, StartAcq
  <2> QED
    BY <2>1, <2>2
<1>11. BlockedIsRegistered'
  BY <1>6, <1>7, <1>9 DEF MutexInv, BlockedIsRegistered, LocksAreAttached, StartAcq, Has
<1>12. WaitedIsLive'
  BY <1>9 DEF MutexInv, WaitedIsLive, StartAcq
<1> QED
  BY <1>3, <1>4, <1>10, <1>11, <1>12 DEF MutexInv

\* wait() and its interruption change neither the list nor who has the mutex.
LEMMA WaitStep ==
  ASSUME MutexInv, NEW a \in Acqs, Wait(a)
  PROVE  MutexInv'
<1>1. /\ \A b \in Acqs : Has(b)' <=> Has(b)
      /\ wait' = [wait EXCEPT ![a] = "blocked"]
      /\ registered' = registered \cup {a}
      /\ a \in live /\ parent[a] # Null /\ ~ Has(a)
      /\ UNCHANGED <<home, locks, live, parent>>
  BY DEF Wait, Has
<1>2. TypeOK' /\ LocksAreAttached'
  BY <1>1 DEF MutexInv, TypeOK, LocksAreAttached
<1>3. WokenHasMutex' /\ BlockedIsRegistered' /\ WaitedIsLive'
  BY <1>1 DEF MutexInv, TypeOK, WokenHasMutex, BlockedIsRegistered, WaitedIsLive
<1> QED
  BY <1>2, <1>3 DEF MutexInv

LEMMA InterruptStep ==
  ASSUME MutexInv, NEW a \in Acqs, Interrupt(a)
  PROVE  MutexInv'
<1>1. /\ \A b \in Acqs : Has(b)' <=> Has(b)
      /\ wait' = [wait EXCEPT ![a] = "none"]
      /\ registered' = registered \ {a}
      /\ UNCHANGED <<home, locks, live, parent>>
  BY DEF Interrupt, Has
<1>2. TypeOK' /\ LocksAreAttached'
  BY <1>1 DEF MutexInv, TypeOK, LocksAreAttached
<1>3. WokenHasMutex' /\ BlockedIsRegistered' /\ WaitedIsLive'
  BY <1>1 DEF MutexInv, TypeOK, WokenHasMutex, BlockedIsRegistered, WaitedIsLive
<1> QED
  BY <1>2, <1>3 DEF MutexInv

LEMMA ResumeStep ==
  ASSUME MutexInv, NEW a \in Acqs, Resume(a)
  PROVE  MutexInv'
<1>1. /\ \A b \in Acqs : Has(b)' <=> Has(b)
      /\ wait[a] # "blocked"
      /\ wait' = [wait EXCEPT ![a] = "none"]
      /\ UNCHANGED <<home, locks, live, parent, registered>>
  BY DEF Resume, Has
<1>2. TypeOK' /\ LocksAreAttached'
  BY <1>1 DEF MutexInv, TypeOK, LocksAreAttached
<1>3. WokenHasMutex' /\ BlockedIsRegistered' /\ WaitedIsLive'
  BY <1>1 DEF MutexInv, TypeOK, WokenHasMutex, BlockedIsRegistered, WaitedIsLive
<1> QED
  BY <1>2, <1>3 DEF MutexInv

\* An acquisition without its mutex leaves nothing behind.
LEMMA DiscardStep ==
  ASSUME MutexInv, NEW a \in Acqs, Discard(a)
  PROVE  MutexInv'
<1>1. /\ \A b \in Acqs : Has(b)' <=> Has(b)
      /\ live' = live \ {a}
      /\ parent[a] = Null /\ wait[a] = "none"
      /\ UNCHANGED <<home, locks, parent, registered, wait>>
  BY DEF Discard, Has
<1>2. a \notin registered
  BY <1>1 DEF MutexInv, BlockedIsRegistered
<1>3. \A i \in DOMAIN locks : locks[i] \in Acqs
  BY DEF MutexInv, TypeOK
<1>4. \A i \in DOMAIN locks : locks[i] # a
  <2> SUFFICES ASSUME NEW i \in DOMAIN locks, locks[i] = a
               PROVE  FALSE
    OBVIOUS
  <2>1. home = Null
    BY <1>1 DEF MutexInv, LocksAreAttached
  <2>2. locks = <<>>
    BY <2>1 DEF MutexInv, LocksAreAttached
  <2> QED
    BY <2>2
<1>5. TypeOK' /\ LocksAreAttached'
  BY <1>1, <1>2, <1>4 DEF MutexInv, TypeOK, LocksAreAttached
<1>6. WokenHasMutex' /\ BlockedIsRegistered' /\ WaitedIsLive'
  BY <1>1 DEF MutexInv, TypeOK, WokenHasMutex, BlockedIsRegistered, WaitedIsLive
<1> QED
  BY <1>5, <1>6 DEF MutexInv

\* release_lock(): the next acquisition is made ready if this one was the front.
LEMMA ReleaseStep ==
  ASSUME MutexInv, NEW a \in Acqs, NEW i \in DOMAIN locks, Release(a, i)
  PROVE  MutexInv'
<1> USE MutexAssumption
<1> DEFINE n == Len(locks)
           woken == IF i = 1 /\ n > 1 THEN {locks[2]} ELSE {}
<1>1. /\ locks \in Seq(Acqs) /\ n \in Nat /\ n >= 1
      /\ DOMAIN locks = 1 .. n
      /\ i \in 1 .. n
      /\ locks[i] = a
      /\ a \in live /\ parent[a] # Null /\ wait[a] \in {"none", "blocked"}
      /\ locks' = RemoveNode(locks, i)
      /\ wait' = [b \in Acqs |-> IF b \notin registered THEN wait[b]
                                 ELSE IF b \in woken THEN "success"
                                 ELSE IF b = a THEN "lost"
                                 ELSE wait[b]]
      /\ registered' = registered \ (woken \cup {a})
      /\ live' = live \ {a}
      /\ parent' = [parent EXCEPT ![a] = Null]
      /\ home' = home
  BY DEF MutexInv, TypeOK, Release
<1> HIDE DEF woken
<1>2. /\ locks' \in Seq(Acqs)
      /\ DOMAIN locks' = 1 .. n - 1
      /\ \A k \in 1 .. n - 1 : locks'[k] = IF k < i THEN locks[k] ELSE locks[k + 1]
  <2>1. /\ RemoveNode(locks, i) \in Seq(Acqs)
        /\ DOMAIN RemoveNode(locks, i) = 1 .. n - 1
    BY <1>1, RemoveNodeProps
  <2>2. \A k \in 1 .. n - 1 :
          RemoveNode(locks, i)[k] = IF k < i THEN locks[k] ELSE locks[k + 1]
    BY DEF RemoveNode
  <2> QED
    BY <1>1, <2>1, <2>2
<1>3. \A j, k \in 1 .. n : locks[j] = locks[k] => j = k
  BY <1>1 DEF MutexInv, LocksAreAttached
<1>4. woken \subseteq Acqs /\ a \notin woken /\ woken \subseteq live
  BY <1>1, <1>3 DEF woken, MutexInv, LocksAreAttached
<1>5. TypeOK'
  BY <1>1, <1>2 DEF MutexInv, TypeOK
<1>6. \A k \in 1 .. n - 1 : locks'[k] # a
  BY <1>1, <1>2, <1>3
<1>7. LocksAreAttached'
  <2>1. \A j, k \in 1 .. n - 1 : locks'[j] = locks'[k] => j = k
    BY <1>1, <1>2, <1>3, SMTT(40)
  <2>2. ASSUME NEW k \in 1 .. n - 1
        PROVE  locks'[k] \in live' /\ parent'[locks'[k]] = home'
    <3>1. PICK j \in 1 .. n : locks'[k] = locks[j]
      BY <1>1, <1>2
    <3>2. locks[j] \in Acqs /\ locks[j] \in live /\ parent[locks[j]] = home
      BY <1>1, <3>1 DEF MutexInv, TypeOK, LocksAreAttached
    <3>3. locks[j] # a
      BY <1>6, <3>1
    <3> QED
      BY <1>1, <3>1, <3>2, <3>3 DEF MutexInv, TypeOK
  <2>3. ASSUME NEW b \in Acqs, parent'[b] # Null
        PROVE  \E k \in 1 .. n - 1 : locks'[k] = b
    <3>1. b # a /\ parent[b] # Null
      BY <1>1, <2>3 DEF MutexInv, TypeOK
    <3>2. PICK j \in 1 .. n : locks[j] = b
      BY <1>1, <3>1 DEF MutexInv, LocksAreAttached
    <3>3. CASE j < i
      BY <1>1, <1>2, <3>2, <3>3
    <3>4. CASE j > i
      <4>1. j - 1 \in 1 .. n - 1 /\ ~ (j - 1 < i) /\ (j - 1) + 1 = j
        BY <1>1, <3>4
      <4> QED
        BY <1>2, <3>2, <4>1
    <3> QED
      BY <1>1, <3>1, <3>2, <3>3, <3>4
  <2>4. home' = Null => locks' = <<>>
    <3>1. home # Null
      BY <1>1 DEF MutexInv, LocksAreAttached
    <3> QED
      BY <1>1, <3>1
  <2> QED
    BY <1>2, <2>1, <2>2, <2>3, <2>4 DEF LocksAreAttached
<1>8. ASSUME NEW b \in Acqs
      PROVE  Has(b)' <=> (n > 1 /\ locks'[1] = b)
  BY <1>1, <1>2 DEF Has
<1>9. ASSUME NEW b \in Acqs
      PROVE  Has(b) <=> locks[1] = b
  BY <1>1, HasIsFirst
<1>10. WokenHasMutex'
  <2> SUFFICES ASSUME NEW b \in Acqs, wait'[b] = "success", parent'[b] # Null
               PROVE  Has(b)'
    BY DEF WokenHasMutex
  <2>1. b # a /\ parent[b] # Null
    BY <1>1 DEF MutexInv, TypeOK
  <2>2. CASE b \in woken
    BY <1>1, <1>2, <1>8, <2>2 DEF woken
  <2>3. CASE b \notin woken
    <3>1. wait[b] = "success"
      BY <1>1, <2>3, <2>1
    <3>2. locks[1] = b
      BY <3>1, <2>1, <1>9 DEF MutexInv, WokenHasMutex
    <3>3. 1 < i
      BY <1>1, <2>1, <3>2
    <3> QED
      BY <1>1, <1>2, <1>8, <3>2, <3>3
  <2> QED
    BY <2>2, <2>3
<1>11. BlockedIsRegistered'
  <2> SUFFICES ASSUME NEW b \in Acqs
               PROVE  /\ wait'[b] = "blocked" <=> b \in registered'
                      /\ wait'[b] = "blocked" => parent'[b] # Null /\ ~ Has(b)'
    BY DEF BlockedIsRegistered
  <2>1. wait[b] = "blocked" <=> b \in registered
    BY DEF MutexInv, BlockedIsRegistered
  <2>2. wait'[b] = "blocked" <=> b \in registered'
    BY <1>1, <2>1
  <2>3. ASSUME wait'[b] = "blocked"
        PROVE  parent'[b] # Null /\ ~ Has(b)'
    <3>1. b # a /\ b \notin woken /\ b \in registered
      BY <1>1, <2>2, <2>3
    <3>2. parent[b] # Null /\ locks[1] # b
      BY <2>1, <3>1, <1>9 DEF MutexInv, BlockedIsRegistered
    <3>3. CASE i = 1
      BY <1>1, <1>2, <1>8, <3>1, <3>2, <3>3 DEF MutexInv, TypeOK, woken
    <3>4. CASE i > 1
      BY <1>1, <1>2, <1>8, <3>1, <3>2, <3>4 DEF MutexInv, TypeOK
    <3> QED
      BY <1>1, <3>3, <3>4
  <2> QED
    BY <2>2, <2>3
<1>12. WaitedIsLive'
  <2> SUFFICES ASSUME NEW b \in Acqs, wait'[b] \in {"blocked", "success"}
               PROVE  b \in live'
    BY DEF WaitedIsLive
  <2>1. CASE b \in woken
    BY <1>1, <1>4, <2>1
  <2>2. CASE b \notin woken
    <3>1. wait'[b] = IF b \notin registered THEN wait[b]
                     ELSE IF b = a THEN "lost" ELSE wait[b]
      BY <1>1, <2>2
    <3>2. wait[b] = "blocked" <=> b \in registered
      BY DEF MutexInv, BlockedIsRegistered
    <3>3. b # a /\ wait[b] \in {"blocked", "success"}
      BY <1>1, <3>1, <3>2
    <3>4. b \in live
      BY <3>3 DEF MutexInv, WaitedIsLive
    <3> QED
      BY <1>1, <3>3, <3>4
  <2> QED
    BY <2>1, <2>2
<1> QED
  BY <1>5, <1>7, <1>10, <1>11, <1>12 DEF MutexInv

\* The move constructor of an acquisition nobody waits on.
LEMMA MoveAcqStep ==
  ASSUME MutexInv, ~ MoveWaited, NEW a \in Acqs, NEW b \in Acqs, NEW i \in DOMAIN locks,
         MoveAcq(a, b, i)
  PROVE  MutexInv'
<1> USE MutexAssumption
<1>1. /\ locks \in Seq(Acqs)
      /\ locks' = [locks EXCEPT ![i] = b]
      /\ locks' \in Seq(Acqs)
      /\ DOMAIN locks' = DOMAIN locks
      /\ locks[i] = a
      /\ a \in live /\ b \notin live /\ a # b /\ parent[a] # Null
      /\ wait[a] = "none" /\ wait[b] = "none"
      /\ live' = (live \ {a}) \cup {b}
      /\ parent' = [parent EXCEPT ![a] = Null, ![b] = parent[a]]
      /\ registered' = registered \ {a}
      /\ wait' = wait
      /\ home' = home
  BY DEF MutexInv, TypeOK, MoveAcq
<1>2. \A k \in DOMAIN locks : locks[k] # b /\ (locks[k] = a => k = i)
  BY <1>1 DEF MutexInv, LocksAreAttached
<1>3. a \notin registered /\ b \notin registered
  BY <1>1 DEF MutexInv, BlockedIsRegistered
<1>4. TypeOK'
  BY <1>1, <1>3 DEF MutexInv, TypeOK
<1>5. LocksAreAttached'
  <2>1. \A j, k \in DOMAIN locks' : locks'[j] = locks'[k] => j = k
    BY <1>1, <1>2 DEF MutexInv, LocksAreAttached
  <2>2. \A k \in DOMAIN locks' : locks'[k] \in live' /\ parent'[locks'[k]] = home'
    BY <1>1, <1>2 DEF MutexInv, TypeOK, LocksAreAttached
  <2>3. \A c \in Acqs : parent'[c] # Null => \E k \in DOMAIN locks' : locks'[k] = c
    <3> SUFFICES ASSUME NEW c \in Acqs, parent'[c] # Null
                 PROVE  \E k \in DOMAIN locks' : locks'[k] = c
      OBVIOUS
    <3>1. CASE c = b
      BY <1>1, <3>1
    <3>2. CASE c # b
      <4>1. c # a /\ parent[c] # Null
        BY <1>1, <3>2 DEF MutexInv, TypeOK
      <4>2. PICK k \in DOMAIN locks : locks[k] = c
        BY <4>1 DEF MutexInv, LocksAreAttached
      <4> QED
        BY <1>1, <4>1, <4>2
    <3> QED
      BY <3>1, <3>2
  <2>4. home' # Null
    BY <1>1 DEF MutexInv, LocksAreAttached
  <2> QED
    BY <2>1, <2>2, <2>3, <2>4 DEF LocksAreAttached
<1>6. \A c \in Acqs : c \notin {a, b} => (Has(c)' <=> Has(c))
  BY <1>1, <1>2 DEF Has
<1>7. \A c \in Acqs : wait'[c] \in {"blocked", "success"} =>
                        c \notin {a, b} /\ parent'[c] = parent[c]
  BY <1>1 DEF MutexInv, TypeOK
<1>8. WokenHasMutex'
  BY <1>1, <1>6, <1>7 DEF MutexInv, WokenHasMutex
<1>9. BlockedIsRegistered'
  BY <1>1, <1>3, <1>6, <1>7 DEF MutexInv, BlockedIsRegistered
<1>10. WaitedIsLive'
  BY <1>1, <1>7 DEF MutexInv, WaitedIsLive
<1> QED
  BY <1>4, <1>5, <1>8, <1>9, <1>10 DEF MutexInv

\* The mutex takes its acquisitions along ...
LEMMA MoveMutexStep ==
  ASSUME MutexInv, MoveMutex
  PROVE  MutexInv'
<1> USE MutexAssumption
<1>1. \A a \in Acqs : (\E i \in DOMAIN locks : locks[i] = a) <=> parent[a] # Null
  BY DEF MutexInv, TypeOK, LocksAreAttached, MoveMutex
<1>2. /\ \A a \in Acqs : Has(a)' <=> Has(a)
      /\ home' \in Homes
      /\ parent' = [a \in Acqs |-> IF parent[a] # Null THEN home' ELSE parent[a]]
      /\ UNCHANGED <<locks, live, registered, wait>>
  BY <1>1 DEF MoveMutex, Has
<1>3. \A a \in Acqs : parent'[a] # Null <=> parent[a] # Null
  BY <1>2
<1>4. TypeOK'
  BY <1>2 DEF MutexInv, TypeOK
<1>5. LocksAreAttached'
  BY <1>1, <1>2, <1>3 DEF MutexInv, TypeOK, LocksAreAttached
<1>6. WokenHasMutex' /\ BlockedIsRegistered' /\ WaitedIsLive'
  BY <1>2, <1>3 DEF MutexInv, WokenHasMutex, BlockedIsRegistered, WaitedIsLive
<1> QED
  BY <1>4, <1>5, <1>6 DEF MutexInv

\* ... and lets all of them go when it is destroyed.
LEMMA DestroyMutexStep ==
  ASSUME MutexInv, DestroyMutex
  PROVE  MutexInv'
<1> USE MutexAssumption
<1> DEFINE all == {locks[i] : i \in DOMAIN locks}
<1>1. /\ home' = Null /\ locks' = <<>> /\ live' = live
      /\ parent' = [a \in Acqs |-> IF a \in all THEN Null ELSE parent[a]]
      /\ wait' = [a \in Acqs |-> IF a \in all \cap registered THEN "lost" ELSE wait[a]]
      /\ registered' = registered \ all
  BY DEF DestroyMutex, Complete
<1>2. \A a \in Acqs : parent[a] # Null => a \in all
  BY DEF MutexInv, LocksAreAttached
<1>3. \A a \in Acqs : parent'[a] = Null
  BY <1>1, <1>2
<1>4. \A a \in Acqs : a \in registered => a \in all
  BY <1>2 DEF MutexInv, BlockedIsRegistered
<1>5. registered' = {}
  BY <1>1, <1>4 DEF MutexInv, TypeOK
<1>6. TypeOK'
  BY <1>1, <1>5 DEF MutexInv, TypeOK
<1>7. LocksAreAttached'
  BY <1>1, <1>3 DEF LocksAreAttached
<1>8. WokenHasMutex'
  BY <1>3 DEF WokenHasMutex
<1>9. BlockedIsRegistered'
  BY <1>1, <1>4, <1>5 DEF MutexInv, BlockedIsRegistered
<1>10. WaitedIsLive'
  BY <1>1 DEF MutexInv, WaitedIsLive
<1> QED
  BY <1>6, <1>7, <1>8, <1>9, <1>10 DEF MutexInv

-----------------------------------------------------------------------------
LEMMA MutexStepInv ==
  ASSUME MutexInv, ~ MoveWaited, [Next]_vars
  PROVE  MutexInv'
<1>1. CASE UNCHANGED vars
  BY <1>1 DEF vars, MutexInv, TypeOK, LocksAreAttached, WokenHasMutex,
              BlockedIsRegistered, WaitedIsLive, Has
<1>2. ASSUME NEW a \in Acqs, CoroutineNext(a)
      PROVE  MutexInv'
  <2>1. CASE StartAcq(a)
    BY <2>1, StartAcqStep
  <2>2. CASE Wait(a)
    BY <2>2, WaitStep
  <2>3. CASE Interrupt(a)
    BY <2>3, InterruptStep
  <2>4. CASE Resume(a)
    BY <2>4, ResumeStep
  <2>5. CASE \E i \in DOMAIN locks : Release(a, i)
    BY <2>5, ReleaseStep
  <2>6. CASE Discard(a)
    BY <2>6, DiscardStep
  <2>7. CASE \E b \in Acqs, i \in DOMAIN locks : MoveAcq(a, b, i)
    BY <2>7, MoveAcqStep
  <2> QED
    BY <1>2, <2>1, <2>2, <2>3, <2>4, <2>5, <2>6, <2>7 DEF CoroutineNext
<1>3. CASE MoveMutex
  BY <1>3, MoveMutexStep
<1>4. CASE DestroyMutex
  BY <1>4, DestroyMutexStep
<1> QED
  BY <1>1, <1>2, <1>3, <1>4 DEF Next

\* Whatever coroutines acquire, wait, are interrupted, move and destroy in
\* whatever order: the list of locks, the callbacks and the waiting coroutines
\* of a mutex agree.
THEOREM MutexInvariant ==
  ASSUME ~ MoveWaited
  PROVE  Spec => []MutexInv
<1>1. MutexInv /\ [Next]_vars => MutexInv'
  BY MutexStepInv
<1> QED
  BY <1>1, MutexInitInv, PTL DEF Spec

\* The list of locks holds exactly the acquisitions that are attached, each once,
\* and they know where the mutex is, through every move of either (the move
\* constructors, release_lock() and ~mutex_t()).
THEOREM MutexListExact ==
  ASSUME ~ MoveWaited
  PROVE  Spec => [](TypeOK /\ LocksAreAttached)
<1>1. MutexInv => TypeOK /\ LocksAreAttached
  BY DEF MutexInv
<1> QED
  BY <1>1, MutexInvariant, PTL

\* Mutual exclusion: a coroutine whose wait() on an acquisition succeeded finds
\* that acquisition at the front of the mutex when it runs, though other
\* coroutines have run in between (mutex_acq_t::ready() against release_lock()).
THEOREM MutexExclusion ==
  ASSUME ~ MoveWaited
  PROVE  Spec => []WokenHasMutex
<1>1. MutexInv => WokenHasMutex
  BY DEF MutexInv
<1> QED
  BY <1>1, MutexInvariant, PTL

\* No coroutine is left blocked on a mutex that is free, or destroyed, and none
\* has lost its callback (release_lock(), ~mutex_t()).
THEOREM MutexNobodyForgotten ==
  ASSUME ~ MoveWaited
  PROVE  Spec => []BlockedIsRegistered
<1>1. MutexInv => BlockedIsRegistered
  BY DEF MutexInv
<1> QED
  BY <1>1, MutexInvariant, PTL

-----------------------------------------------------------------------------
\* The drainer, whether locks are copied while it drains or not.
\* DrainedWhenReturned alone says nothing of a caller that is still blocked: that the
\* last lock ends the drain follows from the lists (ListsAgree), and the two are
\* inductive together.
DrainerInv == ListsAgree /\ DrainedWhenReturned

\* A new lock, of the drainer or copied from one that is held.
LEMMA RegisterKeeps ==
  ASSUME DrainerInv, NEW l \in Locks, l \notin existing, draining => held # {},
         Register(l), UNCHANGED <<address, draining, finishing, drain>>
  PROVE  DrainerInv'
<1> USE DEF DrainerInv, ListsAgree, LocksConsistent, EveryoneTold, DrainerTypeOK, Register
<1>1. DrainerTypeOK'
  OBVIOUS
<1>2. LocksConsistent'
  BY <1>1, DrainerAssumption DEF DrainerAssumption
<1>3. EveryoneTold'
  OBVIOUS
<1>4. DrainedWhenReturned'
  BY DEF DrainedWhenReturned
<1> QED
  BY <1>2, <1>3, <1>4

LEMMA MoveKeeps ==
  ASSUME DrainerInv, NEW l \in Locks, NEW m \in Locks, Move(m, l)
  PROVE  DrainerInv'
<1> USE DEF DrainerInv, ListsAgree, LocksConsistent, EveryoneTold, DrainerTypeOK
<1>1. DrainerTypeOK'
  BY DEF Move
<1>2. /\ m \in existing /\ l \notin existing /\ m # l
      /\ existing' = (existing \ {m}) \cup {l}
      /\ owner'[m] = NoDrainer /\ owner'[l] = owner[m]
      /\ \A k \in Locks : k # m /\ k # l => owner'[k] = owner[k]
      /\ UNCHANGED <<address, draining>>
  BY DEF Move
<1>3. held' = IF m \in held THEN (held \ {m}) \cup {l} ELSE held
  BY DEF Move
<1>4. starting' = IF m \in starting THEN (starting \ {m}) \cup {l} ELSE starting
  BY DEF Move
<1>5. held' = {k \in existing' : owner'[k] # NoDrainer}
  BY <1>2, <1>3
<1>6. (starting' = IF draining' THEN {} ELSE held') /\ \A k \in held' : owner'[k] = address'
  BY <1>2, <1>3, <1>4
<1>7. EveryoneTold' /\ DrainedWhenReturned'
  BY DEF Move, DrainedWhenReturned
<1> QED
  BY <1>1, <1>5, <1>6, <1>7

\* A lock goes; the last one ends the drain.
LEMMA DestroyKeeps ==
  ASSUME DrainerInv, NEW l \in Locks, Destroy(l)
  PROVE  DrainerInv'
<1> USE DEF DrainerInv, ListsAgree, LocksConsistent, EveryoneTold, DrainerTypeOK, Destroy,
            WakeFinishers
<1>1. DrainerTypeOK'
  OBVIOUS
<1>2. LocksConsistent'
  BY <1>1, DrainerAssumption DEF DrainerAssumption
<1>3. EveryoneTold'
  OBVIOUS
<1>4. DrainedWhenReturned'
  BY DEF DrainedWhenReturned
<1> QED
  BY <1>2, <1>3, <1>4

LEMMA DrainKeeps ==
  ASSUME DrainerInv, NEW c \in Callers, Drain(c)
  PROVE  DrainerInv'
<1> USE DEF DrainerInv, ListsAgree, LocksConsistent, EveryoneTold, DrainerTypeOK, Drain
<1>1. DrainerTypeOK'
  OBVIOUS
<1>2. LocksConsistent'
  BY <1>1
<1>3. EveryoneTold'
  OBVIOUS
<1>4. DrainedWhenReturned'
  BY DEF DrainedWhenReturned
<1> QED
  BY <1>2, <1>3, <1>4

\* The drainer itself is moved, which only those who have not returned may see.
LEMMA MoveDrainerKeeps ==
  ASSUME DrainerInv, MoveDrainer
  PROVE  DrainerInv'
<1> USE DEF DrainerInv, ListsAgree, LocksConsistent, EveryoneTold, DrainerTypeOK, MoveDrainer
<1>1. DrainerTypeOK'
  OBVIOUS
<1>2. LocksConsistent'
  BY <1>1, DrainerAssumption DEF DrainerAssumption
<1>3. EveryoneTold' /\ DrainedWhenReturned'
  BY DEF DrainedWhenReturned
<1> QED
  BY <1>2, <1>3

\* What changes one watcher, a lock without a drainer or a caller that resumes.
LEMMA SmallStepsKeep ==
  ASSUME DrainerInv,
         \/ \E l \in Locks : Detached(l) \/ AddWait(l) \/ RemoveWait(l)
         \/ \E c \in Callers : DrainResumes(c)
  PROVE  DrainerInv'
<1> USE DEF DrainerInv, ListsAgree, LocksConsistent, EveryoneTold, DrainerTypeOK,
            DrainedWhenReturned
<1>1. ASSUME NEW l \in Locks, Detached(l) PROVE DrainerInv'
  BY <1>1 DEF Detached
<1>2. ASSUME NEW l \in Locks, AddWait(l) PROVE DrainerInv'
  BY <1>2 DEF AddWait
<1>3. ASSUME NEW l \in Locks, RemoveWait(l) PROVE DrainerInv'
  BY <1>3 DEF RemoveWait
<1>4. ASSUME NEW c \in Callers, DrainResumes(c) PROVE DrainerInv'
  BY <1>4 DEF DrainResumes, lockVars
<1> QED
  BY <1>1, <1>2, <1>3, <1>4

-----------------------------------------------------------------------------
\* The lists and the callers agree in every reachable state.
THEOREM DrainerInvariant == DrainerSpec => []DrainerInv
<1>1. DrainerInit => DrainerInv
  BY DEF DrainerInit, DrainerInv, ListsAgree, LocksConsistent, EveryoneTold, DrainerTypeOK,
         DrainedWhenReturned, Addresses
<1>2. DrainerInv /\ [DrainerNext]_drainerVars => DrainerInv'
  <2> SUFFICES ASSUME DrainerInv, [DrainerNext]_drainerVars PROVE DrainerInv'
    OBVIOUS
  <2>1. ASSUME NEW l \in Locks, Lock(l) PROVE DrainerInv'
    BY <2>1, RegisterKeeps DEF Lock
  <2>2. ASSUME NEW l \in Locks, NEW m \in Locks, Copy(m, l) PROVE DrainerInv'
    <3>1. m \in held
      BY <2>2 DEF Copy, DrainerInv, ListsAgree, LocksConsistent
    <3> QED
      BY <2>2, <3>1, RegisterKeeps DEF Copy
  <2>3. CASE UNCHANGED drainerVars
    BY <2>3 DEF drainerVars, lockVars, DrainerInv, ListsAgree, LocksConsistent, EveryoneTold,
                DrainerTypeOK, DrainedWhenReturned
  <2> QED
    BY <2>1, <2>2, <2>3, MoveKeeps, DestroyKeeps, DrainKeeps, MoveDrainerKeeps, SmallStepsKeep
       DEF DrainerNext
<1> QED
  BY <1>1, <1>2, PTL DEF DrainerSpec

\* The lists of the drainer agree with the locks and the callers in them, wherever the
\* locks and the drainer have been moved.
THEOREM DrainerListsAgree == DrainerSpec => []ListsAgree
<1>1. DrainerInv => ListsAgree
  BY DEF DrainerInv
<1> QED
  BY <1>1, DrainerInvariant, PTL

\* drain() returns when no lock is left, and none comes into being after that.
THEOREM DrainerIsDrained == DrainerSpec => []DrainedWhenReturned
<1>1. DrainerInv => DrainedWhenReturned
  BY DEF DrainerInv
<1> QED
  BY <1>1, DrainerInvariant, PTL

-----------------------------------------------------------------------------
\* The semaphore.  What its operators compute is stated first, then what a step does.

\* What the module assumes of the constants.
SemAssumption ==
  /\ IsFiniteSet(SemAcqs)
  /\ Counts \subseteq Nat \ {0}
  /\ MaxCapacity \in Nat
  /\ Null \notin Sem!Homes

LEMMA SemAssumed == SemAssumption
<1>1. IsFiniteSet(SemAcqs)
  BY SemaphoreParameters DEF Sem!SemaphoreAssumption, Sem!IsFiniteSet, IsFiniteSet
<1> QED BY <1>1, SemaphoreParameters DEF Sem!SemaphoreAssumption, SemAssumption

Elements(q) == {q[k] : k \in DOMAIN q}
Distinct(q) == \A j, k \in DOMAIN q : q[j] = q[k] => j = k

-----------------------------------------------------------------------------
\* The queue.

\* Without takes one acquisition out.
LEMMA WithoutProps ==
  ASSUME NEW q \in Seq(SemAcqs), Distinct(q), NEW a
  PROVE  /\ Sem!Without(q, a) \in Seq(SemAcqs)
         /\ Distinct(Sem!Without(q, a))
         /\ Elements(Sem!Without(q, a)) = Elements(q) \ {a}
<1>1. CASE a \notin Elements(q)
  BY <1>1 DEF Sem!Without, Elements
<1>2. CASE a \in Elements(q)
  <2> DEFINE n == Len(q)
             at == CHOOSE k \in DOMAIN q : q[k] = a
             s == [k \in 1 .. n - 1 |-> q[IF k < at THEN k ELSE k + 1]]
  <2>1. Sem!Without(q, a) = s
    BY <1>2 DEF Sem!Without, Elements
  <2>2. n \in Nat /\ DOMAIN q = 1 .. n /\ q \in [1 .. n -> SemAcqs]
    BY LenProperties
  <2>3. at \in 1 .. n /\ q[at] = a
    BY <1>2, <2>2 DEF Elements
  <2> HIDE DEF n, at
  <2>4. \A k \in 1 .. n - 1 : /\ (IF k < at THEN k ELSE k + 1) \in 1 .. n
                              /\ (IF k < at THEN k ELSE k + 1) # at
    BY <2>2, <2>3
  <2>5. DOMAIN s = 1 .. n - 1 /\ s \in [1 .. n - 1 -> SemAcqs] /\ n - 1 \in Nat
    BY <2>2, <2>3, <2>4
  <2>6. s \in Seq(SemAcqs) /\ DOMAIN s = 1 .. n - 1
    BY <2>5
  <2>7. \A k \in 1 .. n - 1 : s[k] = q[IF k < at THEN k ELSE k + 1]
    OBVIOUS
  <2> HIDE DEF s
  <2>8. Distinct(s)
    <3> SUFFICES ASSUME NEW j \in 1 .. n - 1, NEW k \in 1 .. n - 1, s[j] = s[k] PROVE j = k
      BY <2>6 DEF Distinct
    <3>1. (IF j < at THEN j ELSE j + 1) = (IF k < at THEN k ELSE k + 1)
      BY <2>2, <2>4, <2>7 DEF Distinct
    <3> QED BY <2>2, <2>3, <3>1
  <2>9. ASSUME NEW k \in 1 .. n - 1 PROVE s[k] \in Elements(q) \ {a}
    <3>1. PICK j \in 1 .. n : j = IF k < at THEN k ELSE k + 1
      BY <2>4
    <3>2. s[k] = q[j] /\ j # at
      BY <2>4, <2>7, <3>1
    <3> QED BY <2>2, <2>3, <3>1, <3>2 DEF Distinct, Elements
  <2>10. ASSUME NEW k \in 1 .. n, q[k] # a PROVE q[k] \in Elements(s)
    <3>1. k # at
      BY <2>3, <2>10
    <3>2. CASE k < at
      <4>1. k \in 1 .. n - 1
        BY <2>2, <2>3, <3>2
      <4> QED BY <2>6, <2>7, <3>2, <4>1 DEF Elements
    <3>3. CASE ~ (k < at)
      <4>1. k - 1 \in 1 .. n - 1 /\ (k - 1) + 1 = k /\ ~ (k - 1 < at)
        BY <2>2, <2>3, <3>1, <3>3
      <4> QED BY <2>6, <2>7, <4>1 DEF Elements
    <3> QED BY <3>2, <3>3
  <2>11. Elements(s) = Elements(q) \ {a}
    <3>1. \A x \in Elements(s) : x \in Elements(q) \ {a}
      BY <2>6, <2>9 DEF Elements
    <3>2. \A x \in Elements(q) \ {a} : x \in Elements(s)
      BY <2>2, <2>10 DEF Elements
    <3> QED BY <3>1, <3>2
  <2> QED BY <2>1, <2>6, <2>8, <2>11
<1> QED BY <1>1, <1>2

\* What is left behind the first n.
LEMMA RestProps ==
  ASSUME NEW q \in Seq(SemAcqs), Distinct(q), NEW n \in 0 .. Len(q)
  PROVE  LET r == SubSeq(q, n + 1, Len(q)) IN
         /\ r \in Seq(SemAcqs) /\ Distinct(r)
         /\ Elements(r) = Elements(q) \ {q[k] : k \in 1 .. n}
         /\ r # <<>> => n + 1 \in DOMAIN q /\ Head(r) = q[n + 1]
<1> DEFINE r == SubSeq(q, n + 1, Len(q))
           N == Len(q)
<1>1. N \in Nat /\ DOMAIN q = 1 .. N /\ n \in Nat /\ n <= N
  BY LenProperties
<1>2. PICK m \in Nat : m = N - n
  <2>1. N - n \in Nat
    BY <1>1
  <2> QED BY <2>1
<1>3. /\ r \in Seq(SemAcqs) /\ Len(r) = m /\ DOMAIN r = 1 .. m
      /\ \A k \in 1 .. m : r[k] = q[n + k] /\ n + k \in 1 .. N
  <2>1. r = [k \in 1 .. m |-> q[n + k]]
    BY <1>1, <1>2
  <2>2. \A k \in 1 .. m : n + k \in 1 .. N
    BY <1>1, <1>2
  <2>3. \A k \in 1 .. m : q[n + k] \in SemAcqs
    <3> HIDE DEF N
    <3>1. \A i \in 1 .. N : q[i] \in SemAcqs
      BY <1>1
    <3> QED BY <2>2, <3>1
  <2> HIDE DEF r, N
  <2>4. r \in [1 .. m -> SemAcqs]
    BY <2>1, <2>3
  <2> QED BY <2>1, <2>2, <2>4
<1> HIDE DEF r, N
<1>4. Distinct(r)
  <2> SUFFICES ASSUME NEW j \in 1 .. m, NEW k \in 1 .. m, r[j] = r[k] PROVE j = k
    BY <1>3 DEF Distinct
  <2>1. n + j = n + k
    BY <1>1, <1>3 DEF Distinct
  <2> QED BY <1>1, <2>1
<1>5. Elements(r) = Elements(q) \ {q[k] : k \in 1 .. n}
  <2>1. ASSUME NEW j \in 1 .. m, NEW k \in 1 .. n PROVE r[j] # q[k]
    <3>1. n + j # k /\ k \in 1 .. N
      BY <1>1
    <3> QED BY <1>1, <1>3, <3>1 DEF Distinct
  <2>2. \A x \in Elements(r) : x \in Elements(q) \ {q[k] : k \in 1 .. n}
    BY <1>1, <1>3, <2>1 DEF Elements
  <2>3. ASSUME NEW j \in 1 .. N, q[j] \notin {q[k] : k \in 1 .. n} PROVE q[j] \in Elements(r)
    <3>1. j - n \in 1 .. m /\ n + (j - n) = j
      BY <1>1, <1>2, <2>3
    <3> QED BY <1>3, <3>1 DEF Elements
  <2>4. \A x \in Elements(q) \ {q[k] : k \in 1 .. n} : x \in Elements(r)
    BY <1>1, <2>3 DEF Elements
  <2> QED BY <2>2, <2>4
<1>6. ASSUME r # <<>> PROVE n + 1 \in DOMAIN q /\ Head(r) = q[n + 1]
  <2>1. 1 \in 1 .. m /\ Head(r) = r[1]
    BY <1>1, <1>3, <1>6
  <2> QED BY <1>1, <1>3, <2>1
<1> QED BY <1>3, <1>4, <1>5, <1>6 DEF r, N

-----------------------------------------------------------------------------
\* Sums.

\* What the first n of a queue ask for.
Wants(q, want, n) == [k \in 1 .. n |-> want[q[k]]]

\* What they ask for is a sum over the positions of the queue.
LEMMA NeedIsSum ==
  ASSUME NEW q, NEW want, NEW n \in Nat, \A k \in 1 .. n : want[q[k]] \in Int
  PROVE  Sem!Need(q, want, n) = SumOf(Wants(q, want, n))
<1> DEFINE S == 1 .. n
           F == Wants(q, want, n)
           P(g) == g = [T \in SUBSET S |->
                        IF T = {} THEN 0 ELSE LET x == Pick(T) IN want[q[x]] + g[T \ {x}]]
<1>1. F \in [S -> Int] /\ DOMAIN F = S /\ IsFiniteSet(S)
  BY FS_Interval DEF Wants
<1>2. ASSUME NEW g PROVE P(g) <=> Sums(g, F, SUBSET S)
  <2>1. \A T \in SUBSET S : T # {} => F[Pick(T)] = want[q[Pick(T)]]
    BY DEF Pick, Wants
  <2> HIDE DEF F
  <2> QED BY <2>1 DEF Sums
<1>4. Sem!Need(q, want, n) = (CHOOSE g : P(g))[S]
  BY DEF Sem!Need, Sem!MapThenSumSet, Sem!MapThenFoldSet, Pick
<1> HIDE DEF P, F, S
<1>3. \E g : P(g)
  BY <1>1, <1>2, SumsExist
<1>5. PICK g : P(g) /\ g = CHOOSE k : P(k)
  BY <1>3
<1>6. Sums(g, F, SUBSET S)
  BY <1>2, <1>5
<1>7. PICK k : Sums(k, F, SUBSET S) /\ SumOf(F) = k[S]
  BY <1>1, SumIs
<1>8. g[S] = k[S]
  BY <1>1, <1>6, <1>7, SumsAgree
<1> QED BY <1>4, <1>5, <1>7, <1>8 DEF F

\* It grows by what the next one asks for.
LEMMA NeedProps ==
  ASSUME NEW q \in Seq(SemAcqs), NEW want \in [SemAcqs -> Nat], NEW n \in 0 .. Len(q)
  PROVE  /\ Sem!Need(q, want, n) \in Nat
         /\ n = 0 => Sem!Need(q, want, n) = 0
         /\ n < Len(q) => Sem!Need(q, want, n + 1) = Sem!Need(q, want, n) + want[q[n + 1]]
<1> DEFINE F(m) == Wants(q, want, m)
<1>1. Len(q) \in Nat /\ DOMAIN q = 1 .. Len(q) /\ n \in Nat
  BY LenProperties
<1>2. ASSUME NEW m \in 0 .. Len(q)
      PROVE  /\ F(m) \in [1 .. m -> Nat] /\ F(m) \in [1 .. m -> Int] /\ IsFiniteSet(1 .. m)
             /\ Sem!Need(q, want, m) = SumOf(F(m))
  <2>1. \A k \in 1 .. m : want[q[k]] \in Nat /\ want[q[k]] \in Int
    BY <1>1
  <2>2. Sem!Need(q, want, m) = SumOf(F(m))
    BY <1>1, <2>1, NeedIsSum, SMTT(40)
  <2>3. IsFiniteSet(1 .. m)
    BY FS_Interval
  <2>4. F(m) \in [1 .. m -> Nat] /\ F(m) \in [1 .. m -> Int]
    BY <2>1 DEF Wants
  <2> QED BY <2>2, <2>3, <2>4
<1>3. Sem!Need(q, want, n) \in Nat
  <2>1. SumOf(F(n)) \in Nat
    <3> HIDE DEF F
    <3> QED BY <1>2, SumOfNats
  <2> QED BY <1>2, <2>1
<1>4. ASSUME n = 0 PROVE Sem!Need(q, want, n) = 0
  <2>1. F(n) = [x \in 1 .. n |-> 0]
    BY <1>4 DEF Wants
  <2> HIDE DEF F
  <2>2. SumOf(F(n)) = 0
    BY <1>2, <2>1, SumOfZeros
  <2> QED BY <1>2, <2>2
<1>5. ASSUME n < Len(q)
      PROVE  Sem!Need(q, want, n + 1) = Sem!Need(q, want, n) + want[q[n + 1]]
  <2>1. n + 1 \in 0 .. Len(q) /\ n + 1 \in 1 .. n + 1
    BY <1>1, <1>5
  <2>2. F(n + 1)[n + 1] = want[q[n + 1]] /\ want[q[n + 1]] \in Nat
    BY <1>1, <1>5, <2>1 DEF Wants
  <2>3. \A x \in 1 .. n : F(n)[x] = F(n + 1)[x]
    BY <1>1 DEF Wants
  <2> HIDE DEF F
  <2>4. (1 .. n + 1) \ {n + 1} = 1 .. n
    BY <1>1
  <2>5. RaisedAt(1 .. n + 1, F(n + 1), n + 1, F(n))
    BY <1>2, <2>1, <2>3, <2>4 DEF RaisedAt
  <2>6. SumOf(F(n + 1)) = SumOf(F(n)) + F(n + 1)[n + 1]
    BY <2>5, SumMore
  <2>7. Sem!Need(q, want, n) = SumOf(F(n)) /\ Sem!Need(q, want, n + 1) = SumOf(F(n + 1))
    BY <1>2, <2>1
  <2> QED BY <2>2, <2>6, <2>7
<1> QED BY <1>3, <1>4, <1>5

\* What each acquisition adds to the total of A: own is what each one owns.
Share(A, own) == [a \in SemAcqs |-> IF a \in A THEN own[a] ELSE 0]

\* A share is part of the total.
LEMMA ShareType ==
  ASSUME IsFiniteSet(SemAcqs), NEW A, NEW own \in [SemAcqs -> Nat]
  PROVE  /\ Share(A, own) \in [SemAcqs -> Nat] /\ Share(A, own) \in [SemAcqs -> Int]
         /\ SumOf(Share(A, own)) \in Nat
         /\ \A a \in SemAcqs : Share(A, own)[a] = (IF a \in A THEN own[a] ELSE 0)
         /\ \A a \in A \cap SemAcqs : own[a] <= SumOf(Share(A, own))
<1>1. Share(A, own) \in [SemAcqs -> Nat] /\ Share(A, own) \in [SemAcqs -> Int]
      /\ \A a \in SemAcqs : Share(A, own)[a] = (IF a \in A THEN own[a] ELSE 0)
  BY DEF Share
<1> DEFINE f == Share(A, own)
<1> HIDE DEF f
<1>2. f \in [SemAcqs -> Nat]
  BY <1>1 DEF f
<1>3. SumOf(f) \in Nat /\ \A a \in SemAcqs : f[a] <= SumOf(f)
  BY <1>2, SumOfNats
<1>4. \A a \in A \cap SemAcqs : own[a] = f[a]
  BY <1>1 DEF f
<1> QED BY <1>1, <1>3, <1>4 DEF f

\* f and h agree but for X.
Agree(f, h, X) == \A y \in SemAcqs \ X : h[y] = f[y]

\* Only the share of x is another.
OneShare(A, own, B, new, x) ==
  /\ own \in [SemAcqs -> Nat] /\ new \in [SemAcqs -> Nat] /\ x \in SemAcqs
  /\ Agree(Share(A, own), Share(B, new), {x})

\* Then the total changes by as much.
LEMMA ShareChange ==
  ASSUME IsFiniteSet(SemAcqs), NEW A, NEW B, NEW own, NEW new, NEW x, OneShare(A, own, B, new, x)
  PROVE  SumOf(Share(B, new)) = (SumOf(Share(A, own)) + Share(B, new)[x]) - Share(A, own)[x]
<1> USE DEF OneShare
<1> DEFINE f == Share(A, own)
           h == Share(B, new)
<1>1. f \in [SemAcqs -> Int] /\ h \in [SemAcqs -> Int]
  BY ShareType
<1> HIDE DEF f, h
<1>2. \A y \in SemAcqs \ {x} : f[y] = h[y]
  BY DEF f, h, Agree
<1>3. SumOf(h) = (SumOf(f) + h[x]) - f[x]
  BY <1>1, <1>2, SumChange
<1> QED BY <1>3 DEF f, h

\* Only the shares of x and y are others, and together they have what they had.
TwoShares(A, own, B, new, x, y) ==
  /\ own \in [SemAcqs -> Nat] /\ new \in [SemAcqs -> Nat] /\ x \in SemAcqs /\ y \in SemAcqs
     /\ x # y
  /\ Agree(Share(A, own), Share(B, new), {x, y})
  /\ Share(B, new)[x] + Share(B, new)[y] = Share(A, own)[x] + Share(A, own)[y]

\* Then the total stays.
LEMMA ShareMoves ==
  ASSUME IsFiniteSet(SemAcqs), NEW A, NEW B, NEW own, NEW new, NEW x, NEW y,
         TwoShares(A, own, B, new, x, y)
  PROVE  SumOf(Share(B, new)) = SumOf(Share(A, own))
<1> USE DEF TwoShares
<1> DEFINE f == Share(A, own)
           h == Share(B, new)
<1>1. f \in [SemAcqs -> Nat] /\ h \in [SemAcqs -> Nat] /\ f \in [SemAcqs -> Int]
      /\ h \in [SemAcqs -> Int]
  BY ShareType
<1>2. (\A z \in SemAcqs \ {x, y} : h[z] = f[z]) /\ h[x] + h[y] = f[x] + f[y]
  BY DEF Agree
<1> HIDE DEF f, h
<1> DEFINE g == [f EXCEPT ![x] = h[x]]
<1>3. g \in [SemAcqs -> Int] /\ g[x] = h[x] /\ \A z \in SemAcqs \ {x} : g[z] = f[z]
  BY <1>1
<1> HIDE DEF g
<1>4. SumOf(f) \in Int /\ SumOf(g) = (SumOf(f) + g[x]) - f[x]
  <2>1. \A z \in SemAcqs \ {x} : f[z] = g[z]
    BY <1>3
  <2> QED BY <1>1, <1>3, <2>1, SumChange
<1>5. SumOf(h) = (SumOf(g) + h[y]) - g[y]
  <2>1. \A z \in SemAcqs \ {y} : g[z] = h[z]
    BY <1>2, <1>3
  <2> QED BY <1>1, <1>3, <2>1, SumChange, ZenonT(60)
<1>6. PICK a \in Nat, b \in Nat, c \in Nat, d \in Nat :
        a = f[x] /\ b = f[y] /\ c = h[x] /\ d = h[y]
  BY <1>1
<1>7. SumOf(g) = (SumOf(f) + c) - a /\ SumOf(h) = (SumOf(g) + d) - b /\ c + d = a + b
  BY <1>2, <1>3, <1>4, <1>5, <1>6
<1>8. SumOf(h) = SumOf(f)
  BY <1>4, <1>6, <1>7
<1> QED BY <1>8 DEF f, h

\* A sum of what is owned is a sum of shares.
LEMMA OwnedIsShares ==
  ASSUME IsFiniteSet(SemAcqs), NEW own \in [SemAcqs -> Nat], NEW A \in SUBSET SemAcqs
  PROVE  Sem!MapThenSumSet(LAMBDA a : own[a], A) = SumOf(Share(A, own))
<1> DEFINE F == [a \in A |-> own[a]]
           P(g) == g = [T \in SUBSET A |->
                        IF T = {} THEN 0 ELSE LET x == Pick(T) IN own[x] + g[T \ {x}]]
<1>1. F \in [A -> Int] /\ DOMAIN F = A /\ IsFiniteSet(A)
  BY FS_Subset
<1>2. ASSUME NEW g PROVE P(g) <=> Sums(g, F, SUBSET A)
  <2>1. \A T \in SUBSET A : T # {} => F[Pick(T)] = own[Pick(T)]
    BY DEF Pick
  <2> HIDE DEF F
  <2> QED BY <2>1 DEF Sums
<1>9. \A x \in A : F[x] = own[x]
  OBVIOUS
<1>4. Sem!MapThenSumSet(LAMBDA a : own[a], A) = (CHOOSE g : P(g))[A]
  BY DEF Sem!MapThenSumSet, Sem!MapThenFoldSet, Pick
<1> HIDE DEF P, F
<1>3. \E g : P(g)
  BY <1>1, <1>2, SumsExist
<1>5. PICK g : P(g) /\ g = CHOOSE k : P(k)
  BY <1>3
<1>6. Sums(g, F, SUBSET A)
  BY <1>2, <1>5
<1>7. PICK k : Sums(k, F, SUBSET A) /\ SumOf(F) = k[A]
  BY <1>1, SumIs
<1>8. g[A] = k[A]
  BY <1>1, <1>6, <1>7, SumsAgree
<1>10. SumOf(Share(A, own)) = SumOf(F)
  <2> DEFINE h == Share(A, own)
  <2>1. h \in [SemAcqs -> Int]
    BY ShareType
  <2>2. \A x \in A : F[x] = h[x]
    BY <1>9 DEF Share
  <2>3. \A x \in SemAcqs \ A : h[x] = 0
    BY DEF Share
  <2> HIDE DEF h
  <2>4. SumOf(h) = SumOf(F)
    BY <1>1, <2>1, <2>2, <2>3, SumWithin
  <2> QED BY <2>4 DEF h
<1> QED BY <1>4, <1>5, <1>7, <1>8, <1>10

-----------------------------------------------------------------------------
\* pump_waiters().

\* As many as possible are granted.
LEMMA GrantsProps ==
  ASSUME NEW av \in Nat, NEW q \in Seq(SemAcqs), NEW want \in [SemAcqs -> Nat]
  PROVE  LET n == Sem!Grants(av, q, want) IN
         /\ n \in 0 .. Len(q) /\ Sem!Need(q, want, n) <= av
         /\ n < Len(q) => Sem!Need(q, want, n + 1) > av
<1> DEFINE N == Len(q)
           M == {n \in 0 .. N : Sem!Need(q, want, n) <= av}
           T == {k \in 0 .. N : N - k \in M}
<1>1. N \in Nat
  BY LenProperties
<1>2. 0 \in M
  BY <1>1, NeedProps
<1>3. N \in T
  <2>1. N - N = 0 /\ N \in 0 .. N
    BY <1>1
  <2> QED BY <1>2, <2>1
<1>4. PICK x \in T : \A y \in T : x <= y
  <2>1. T \in SUBSET Nat /\ T # {}
    <3>1. 0 .. N \subseteq Nat /\ T \subseteq 0 .. N
      BY <1>1
    <3> QED BY <1>3, <3>1
  <2> HIDE DEF T
  <2>2. \E x \in T : \A y \in T : x <= y
    BY <2>1, Least
  <2> QED BY <2>2
<1>5. N - x \in M
  OBVIOUS
<1>6. ASSUME NEW m \in M PROVE N - x >= m
  <2>1. N - m \in 0 .. N /\ N - (N - m) = m
    BY <1>1
  <2>2. N - m \in T
    BY <2>1
  <2>3. x <= N - m
    <3> HIDE DEF T
    <3> QED BY <1>4, <2>2
  <2>4. x \in Nat /\ m \in Nat
    BY <1>1
  <2> HIDE DEF N, M, T
  <2> QED BY <1>1, <2>3, <2>4
<1>7. Sem!Grants(av, q, want) \in M /\ \A y \in M : Sem!Grants(av, q, want) >= y
  <2>1. Sem!Grants(av, q, want) = CHOOSE m \in M : \A y \in M : m >= y
    BY DEF Sem!Grants, Sem!Max
  <2> HIDE DEF M
  <2> QED BY <1>5, <1>6, <2>1
<1> DEFINE n == Sem!Grants(av, q, want)
<1>8. n \in 0 .. N /\ Sem!Need(q, want, n) <= av
  BY <1>7
<1> HIDE DEF n
<1>9. ASSUME n < N PROVE Sem!Need(q, want, n + 1) > av
  <2>1. n + 1 \in 0 .. N /\ ~ (n >= n + 1)
    BY <1>1, <1>8, <1>9
  <2>2. ~ (Sem!Need(q, want, n + 1) <= av)
    BY <1>7, <2>1 DEF n
  <2>3. Sem!Need(q, want, n + 1) \in Nat
    BY <2>1, NeedProps
  <2> QED BY <2>2, <2>3
<1> QED BY <1>8, <1>9 DEF n

\* The counts after the first n of the queue were granted.
Grown(q, own, want, n) ==
  [a \in SemAcqs |-> IF a \in {q[k] : k \in 1 .. n} THEN own[a] + want[a] ELSE own[a]]

GrownArgs(q, own, want, A, n) ==
  /\ q \in Seq(SemAcqs) /\ Distinct(q)
  /\ own \in [SemAcqs -> Nat] /\ want \in [SemAcqs -> Nat]
  /\ Elements(q) \subseteq A
  /\ n \in 0 .. Len(q)

\* What is granted to the first n is what they ask for.
LEMMA GrownSum ==
  ASSUME IsFiniteSet(SemAcqs), NEW q, NEW own, NEW want, NEW A, NEW n,
         GrownArgs(q, own, want, A, n)
  PROVE  /\ Grown(q, own, want, n) \in [SemAcqs -> Nat]
         /\ SumOf(Share(A, Grown(q, own, want,
                                 n))) = SumOf(Share(A, own)) + Sem!Need(q, want, n)
<1> USE DEF GrownArgs
<1> DEFINE N == Len(q)
           G(m) == Grown(q, own, want, m)
           M == {m \in Nat :
                   m > N \/ SumOf(Share(A, G(m))) = SumOf(Share(A, own)) + Sem!Need(q, want, m)}
<1>1. N \in Nat /\ DOMAIN q = 1 .. N
  BY LenProperties
<1>2. \A m \in Nat : G(m) \in [SemAcqs -> Nat]
  BY DEF Grown
<1>3. 0 \in M
  <2>1. G(0) = own
    BY DEF Grown
  <2>2. Sem!Need(q, want, 0) = 0 /\ SumOf(Share(A, own)) \in Nat
    BY <1>1, NeedProps, ShareType, SMTT(40)
  <2> QED BY <2>1, <2>2
<1>4. ASSUME NEW m \in Nat, m \in M PROVE m + 1 \in M
  <2> SUFFICES ASSUME m + 1 <= N
               PROVE  SumOf(Share(A,
                                  G(m + 1))) = SumOf(Share(A, own)) + Sem!Need(q, want, m + 1)
    BY <1>1
  <2>1. m \in 0 .. N /\ m < N /\ m + 1 \in 1 .. N /\ ~ (m > N) /\ m + 1 \in Nat
    BY <1>1
  <2>2. SumOf(Share(A, G(m))) = SumOf(Share(A, own)) + Sem!Need(q, want, m)
    BY <1>4, <2>1
  <2> DEFINE x == q[m + 1]
  <2>3. x \in SemAcqs /\ x \in A
    BY <1>1, <2>1 DEF Elements
  <2>4. \A k \in 1 .. m : q[k] # x
    <3>1. \A k \in 1 .. m : k \in DOMAIN q /\ m + 1 \in DOMAIN q /\ k # m + 1
      BY <1>1, <2>1
    <3> QED BY <3>1 DEF Distinct
  <2>5. \A y \in SemAcqs \ {x} : y \in {q[k] : k \in 1 .. m + 1} <=> y \in {q[k] : k \in 1 .. m}
    <3>1. \A k \in 1 .. m + 1 : k \in 1 .. m \/ k = m + 1
      BY <2>1
    <3>2. \A k \in 1 .. m : k \in 1 .. m + 1
      BY <2>1
    <3> QED BY <3>1, <3>2
  <2>6. x \in {q[k] : k \in 1 .. m + 1} /\ x \notin {q[k] : k \in 1 .. m}
    BY <2>1, <2>4, SMTT(40)
  <2> HIDE DEF x
  <2>7. /\ \A y \in SemAcqs \ {x} : G(m + 1)[y] = G(m)[y]
        /\ G(m + 1)[x] = own[x] + want[x] /\ G(m)[x] = own[x]
    BY <2>3, <2>5, <2>6 DEF Grown
  <2>8. G(m) \in [SemAcqs -> Nat] /\ G(m + 1) \in [SemAcqs -> Nat]
    BY <1>2, <2>1
  <2> HIDE DEF G
  <2>9. \A y \in SemAcqs \ {x} : Share(A, G(m + 1))[y] = Share(A, G(m))[y]
    BY <2>7 DEF Share
  <2>10. SumOf(Share(A, G(m + 1)))
           = (SumOf(Share(A, G(m))) + Share(A, G(m + 1))[x]) - Share(A, G(m))[x]
    <3>1. PICK f \in [SemAcqs -> Nat], h \in [SemAcqs -> Nat] : f = G(m) /\ h = G(m + 1)
      BY <2>8
    <3>2. OneShare(A, f, A, h, x)
      BY <2>3, <2>9, <3>1 DEF Agree, OneShare
    <3>3. SumOf(Share(A, h)) = (SumOf(Share(A, f)) + Share(A, h)[x]) - Share(A, f)[x]
      BY <3>2, ShareChange
    <3> QED BY <3>1, <3>3
  <2>11. Share(A, G(m + 1))[x] = own[x] + want[x] /\ Share(A, G(m))[x] = own[x]
    BY <2>3, <2>7 DEF Share
  <2>12. Sem!Need(q, want, m + 1) = Sem!Need(q, want, m) + want[x]
         /\ Sem!Need(q, want, m) \in Nat
    BY <2>1, NeedProps DEF x
  <2>13. PICK a \in Nat, b \in Nat, c \in Nat, d \in Nat :
           a = own[x] /\ b = want[x] /\ c = SumOf(Share(A, own)) /\ d = Sem!Need(q, want, m)
    BY <2>3, <2>12, ShareType
  <2>14. SumOf(Share(A, G(m + 1))) = ((c + d) + (a + b)) - a
    BY <2>2, <2>10, <2>11, <2>13
  <2>15. SumOf(Share(A, own)) + Sem!Need(q, want, m + 1) = c + (d + b)
    BY <2>12, <2>13
  <2> QED BY <2>14, <2>15
<1>5. Nat \subseteq M
  <2> HIDE DEF M
  <2> QED BY <1>3, <1>4, AllNumbers
<1>6. n \in Nat /\ ~ (n > N)
  BY <1>1
<1> QED BY <1>2, <1>5, <1>6

\* What they own and ask for after those in G were granted what they want.
Given(own, want, G) == [a \in SemAcqs |-> IF a \in G THEN own[a] + want[a] ELSE own[a]]
Asked(want, G) == [a \in SemAcqs |-> IF a \in G THEN 0 ELSE want[a]]

\* The arguments of Pump() are of their types.
PumpArgs(av, q, l, own, want, w) ==
  /\ av \in Nat
  /\ q \in Seq(SemAcqs)
  /\ Distinct(q)
  /\ own \in [SemAcqs -> Nat]
  /\ want \in [SemAcqs -> Nat]

\* Pump() grants the first n of the queue.
Pumped(av, q, l, own, want, w, n, G) ==
  /\ n \in 0 .. Len(q)
  /\ G = {q[k] : k \in 1 .. n}
  /\ G \subseteq Elements(q)
  /\ available' \in Nat
  /\ queue' \in Seq(SemAcqs) /\ Distinct(queue')
  /\ Elements(queue') = Elements(q) \ G
  /\ queue' # <<>> => pending'[Head(queue')] > available'
  /\ listed' = l \cup G
  /\ owned' = Given(own, want, G) /\ owned' \in [SemAcqs -> Nat]
  /\ pending' = Asked(want, G) /\ pending' \in [SemAcqs -> Nat]
  /\ waiting' = w \ G

\* pump_waiters() grants the first n for some n, and the total of what is available and
\* what is owned stays.
LEMMA PumpGrants ==
  ASSUME IsFiniteSet(SemAcqs),
         NEW av, NEW q, NEW l, NEW own, NEW want, NEW w, PumpArgs(av, q, l, own, want, w),
         Sem!Pump(av, q, l, own, want, w),
         NEW A, Elements(q) \subseteq A
  PROVE  /\ \E n, G : Pumped(av, q, l, own, want, w, n, G)
         /\ available' + SumOf(Share(A, owned')) = av + SumOf(Share(A, own))
<1>1. av \in Nat /\ q \in Seq(SemAcqs) /\ own \in [SemAcqs -> Nat] /\ want \in [SemAcqs -> Nat]
      /\ Distinct(q)
  BY DEF PumpArgs
<1> DEFINE n == Sem!Grants(av, q, want)
           G == {q[k] : k \in 1 .. n}
           c == Sem!Need(q, want, n)
           N == Len(q)
<1>2. n \in 0 .. N /\ c <= av /\ (n < N => Sem!Need(q, want, n + 1) > av)
  BY <1>1, GrantsProps
<1>3. N \in Nat /\ DOMAIN q = 1 .. N /\ n \in Nat
  BY <1>1, <1>2, LenProperties
<1>4. c \in Nat /\ (n < N => Sem!Need(q, want, n + 1) = c + want[q[n + 1]])
  BY <1>1, <1>2, NeedProps
<1>5. /\ available' = av - c /\ queue' = SubSeq(q, n + 1, N) /\ listed' = l \cup G
      /\ owned' = [a \in SemAcqs |-> IF a \in G THEN own[a] + want[a] ELSE own[a]]
      /\ pending' = [a \in SemAcqs |-> IF a \in G THEN 0 ELSE want[a]]
      /\ waiting' = w \ G
  BY DEF Sem!Pump
<1>6. /\ queue' \in Seq(SemAcqs) /\ Distinct(queue')
      /\ Elements(queue') = Elements(q) \ G
      /\ queue' # <<>> => n + 1 \in 1 .. N /\ Head(queue') = q[n + 1]
  BY <1>1, <1>2, <1>3, <1>5, RestProps
<1>7. G \subseteq Elements(q)
  BY <1>2, <1>3 DEF Elements
<1> HIDE DEF n, c, G, N
<1>8. available' \in Nat
  BY <1>1, <1>2, <1>4, <1>5
<1>9. owned' = Given(own, want, G) /\ pending' = Asked(want, G)
  BY <1>5 DEF Given, Asked
<1>10. owned' \in [SemAcqs -> Nat] /\ pending' \in [SemAcqs -> Nat]
  BY <1>1, <1>5
<1>11. ASSUME queue' # <<>> PROVE pending'[Head(queue')] > available'
  <2>1. n + 1 \in 1 .. N /\ Head(queue') = q[n + 1] /\ n < N
    BY <1>3, <1>6, <1>11
  <2>2. q[n + 1] \in SemAcqs /\ q[n + 1] \notin G
    <3>1. q[n + 1] \in SemAcqs
      BY <1>1, <1>3, <2>1
    <3>2. \A k \in 1 .. n : k \in DOMAIN q /\ n + 1 \in DOMAIN q /\ k # n + 1
      BY <1>3, <2>1
    <3>3. \A k \in 1 .. n : q[k] # q[n + 1]
      BY <1>1, <3>2 DEF Distinct
    <3> QED BY <3>1, <3>3 DEF G
  <2>3. pending'[q[n + 1]] = want[q[n + 1]]
    BY <1>5, <2>2
  <2>4. PICK v \in Nat : v = want[q[n + 1]]
    BY <1>1, <2>2
  <2>5. c + v > av
    BY <1>2, <1>4, <2>1, <2>4
  <2>6. v > av - c
    BY <1>1, <1>4, <2>5
  <2> QED BY <1>5, <2>1, <2>3, <2>4, <2>6
<1>12. Pumped(av, q, l, own, want, w, n, G)
  BY <1>2, <1>5, <1>6, <1>7, <1>8, <1>9, <1>10, <1>11 DEF G, N, Pumped
<1>13. available' + SumOf(Share(A, owned')) = av + SumOf(Share(A, own))
  <2>1. SumOf(Share(A, owned')) = SumOf(Share(A, own)) + c
    <3>1. owned' = Grown(q, own, want, n)
      BY <1>5 DEF Grown, G
    <3>2. SumOf(Share(A, Grown(q, own, want, n))) = SumOf(Share(A, own)) + Sem!Need(q, want, n)
      <4>1. GrownArgs(q, own, want, A, n)
        BY <1>1, <1>2 DEF N, GrownArgs
      <4> QED BY <4>1, GrownSum
    <3> QED BY <3>1, <3>2 DEF c
  <2>2. PICK s \in Nat : s = SumOf(Share(A, own))
    BY <1>1, ShareType
  <2> QED BY <1>1, <1>4, <1>5, <2>1, <2>2
<1> QED BY <1>12, <1>13

\* The acquisitions that belong to the semaphore.
AttachedIn(s, p) == {a \in SemAcqs : s[a] = "live" /\ p[a] # Null}

\* Where a is, by its state, for these values of the variables: attached and granted in
\* the list l, attached and pending in the queue Q, waited for only in the queue; one
\* without a semParent still linked in l, one that is not constructed in no list.
PlaceOf(a, hm, l, Q, s, p, own, want, w, r) ==
  /\ (s[a] = "live" /\ p[a] # Null) => /\ p[a] = hm
                                       /\ (want[a] > 0) <=> (a \in Q)
                                       /\ (want[a] = 0) <=> (a \in l)
  /\ a \in Q => s[a] = "live" /\ p[a] # Null
  /\ a \in w => a \in Q
  /\ a \in r => s[a] = "live" /\ p[a] # Null /\ (a \in Q => a \in w)
  /\ s[a] = "free" => a \notin l \cup r /\ p[a] = Null /\ own[a] = 0 /\ want[a] = 0
  /\ (s[a] = "live" /\ p[a] = Null) => a \in l

Places(hm, l, Q, s, p, own, want, w, r) ==
  \A a \in SemAcqs : PlaceOf(a, hm, l, Q, s, p, own, want, w, r)

\* What the variables hold.
SemTypes ==
  /\ semHome \in Sem!Homes
  /\ capacity \in 0 .. MaxCapacity
  /\ available \in Nat
  /\ listed \subseteq SemAcqs
  /\ queue \in Seq(SemAcqs)
  /\ st \in [SemAcqs -> {"free", "live", "dead"}]
  /\ semParent \in [SemAcqs -> Sem!Homes \cup {Null}]
  /\ owned \in [SemAcqs -> Nat]
  /\ pending \in [SemAcqs -> Nat]
  /\ waiting \subseteq SemAcqs
  /\ removing \subseteq SemAcqs

\* What is available and what is owned make up the capacity.
Conserved == capacity = available + SumOf(Share(AttachedIn(st, semParent), owned))

InPlace == Places(semHome, listed, Elements(queue), st, semParent, owned, pending, waiting,
                  removing)

\* The inductive invariant.
SemInv ==
  /\ SemTypes
  /\ Distinct(queue)
  /\ InPlace
  /\ Conserved
  /\ Sem!PumpedDry

\* What pump_waiters() finds: like the invariant, but the front may fit.
BeforePump(av, q, l, own, want, w) ==
  /\ semHome' \in Sem!Homes
  /\ capacity' \in 0 .. MaxCapacity
  /\ l \subseteq SemAcqs
  /\ st' \in [SemAcqs -> {"free", "live", "dead"}]
  /\ semParent' \in [SemAcqs -> Sem!Homes \cup {Null}]
  /\ w \subseteq SemAcqs
  /\ removing' \subseteq SemAcqs
  /\ Places(semHome', l, Elements(q), st', semParent', own, want, w, removing')
  /\ capacity' = av + SumOf(Share(AttachedIn(st', semParent'), own))

\* It leaves the invariant behind.
LEMMA PumpKeeps ==
  ASSUME SemAssumption,
         NEW av, NEW q, NEW l, NEW own, NEW want, NEW w, PumpArgs(av, q, l, own, want, w),
         BeforePump(av, q, l, own, want, w),
         Sem!Pump(av, q, l, own, want, w)
  PROVE  SemInv'
<1> DEFINE A == AttachedIn(st', semParent')
<1>1. Elements(q) \subseteq A
  <2>1. \A a \in SemAcqs : a \in Elements(q) => st'[a] = "live" /\ semParent'[a] # Null
    BY DEF BeforePump, Places, PlaceOf
  <2>2. Elements(q) \subseteq SemAcqs
    BY ElementOfSeq, LenProperties DEF PumpArgs, Elements
  <2> QED BY <2>1, <2>2 DEF AttachedIn
<1>2. IsFiniteSet(SemAcqs)
  BY DEF SemAssumption
<1>3. (\E n, G : Pumped(av, q, l, own, want, w, n, G))
      /\ available' + SumOf(Share(A, owned')) = av + SumOf(Share(A, own))
  <2> HIDE DEF A
  <2> QED BY <1>1, <1>2, PumpGrants
<1>4. PICK n, G : Pumped(av, q, l, own, want, w, n, G)
  BY <1>3
<1>5. own \in [SemAcqs -> Nat] /\ want \in [SemAcqs -> Nat] /\ Elements(q) \subseteq SemAcqs
      /\ G \subseteq SemAcqs
  BY <1>1, <1>4 DEF PumpArgs, AttachedIn, Pumped
<1>6. SemTypes'
  BY <1>4, <1>5 DEF SemTypes, Pumped, BeforePump
<1>7. Distinct(queue)' /\ Sem!PumpedDry'
  BY <1>4 DEF Pumped, Sem!PumpedDry, Distinct
<1>8. Conserved'
  BY <1>3 DEF BeforePump, Conserved, AttachedIn, Share
<1>9. InPlace'
  <2> SUFFICES ASSUME NEW a \in SemAcqs
               PROVE  PlaceOf(a, semHome', listed', Elements(queue'), st', semParent', owned',
                              pending',
                              waiting', removing')
    BY DEF InPlace, Places, Elements
  <2>1. PlaceOf(a, semHome', l, Elements(q), st', semParent', own, want, w, removing')
    BY DEF BeforePump, Places
  <2>2. /\ Elements(queue') = Elements(q) \ G /\ G \subseteq Elements(q)
        /\ listed' = l \cup G /\ waiting' = w \ G
        /\ owned'[a] = (IF a \in G THEN own[a] + want[a] ELSE own[a])
        /\ pending'[a] = (IF a \in G THEN 0 ELSE want[a])
    BY <1>4 DEF Pumped, Given, Asked
  <2>3. own[a] \in Nat /\ want[a] \in Nat
    BY <1>5
  <2>4. CASE a \in G
    BY <2>1, <2>2, <2>3, <2>4 DEF PlaceOf
  <2>5. CASE a \notin G
    BY <2>1, <2>2, <2>3, <2>5 DEF PlaceOf
  <2> QED BY <2>4, <2>5
<1> QED BY <1>6, <1>7, <1>8, <1>9 DEF SemInv

\* Only the count or the membership of x is another.
OneDiffers(A, own, B, new, x) ==
  /\ own \in [SemAcqs -> Nat] /\ new \in [SemAcqs -> Nat] /\ x \in SemAcqs
  /\ \A y \in SemAcqs \ {x} : (y \in A <=> y \in B) /\ new[y] = own[y]

\* The total then changes by the difference.
LEMMA OneDiffersSum ==
  ASSUME IsFiniteSet(SemAcqs), NEW A, NEW B, NEW own, NEW new, NEW x, OneDiffers(A, own, B, new, x)
  PROVE  SumOf(Share(B, new)) = (SumOf(Share(A, own)) + (IF x \in B THEN new[x] ELSE 0))
                                - (IF x \in A THEN own[x] ELSE 0)
<1>1. /\ OneShare(A, own, B, new, x)
      /\ Share(A, own)[x] = (IF x \in A THEN own[x] ELSE 0)
      /\ Share(B, new)[x] = (IF x \in B THEN new[x] ELSE 0)
  BY DEF OneDiffers, OneShare, Agree, Share
<1> QED BY <1>1, ShareChange

\* extend() adds to the capacity and to what is available.
LEMMA ExtendKeeps ==
  ASSUME SemAssumption, SemInv, NEW n \in Counts, Sem!Extend(n)
  PROVE  SemInv'
<1> USE DEF SemInv, SemTypes
<1>1. n \in Nat /\ capacity \in Nat /\ available \in Nat /\ MaxCapacity \in Nat
      /\ capacity' = capacity + n /\ capacity' \in 0 .. MaxCapacity
  BY DEF Sem!Extend, SemAssumption
<1>2. PumpArgs(available + n, queue, listed, owned, pending, waiting)
  BY <1>1 DEF PumpArgs
<1>3. semHome' = semHome /\ st' = st /\ semParent' = semParent /\ removing' = removing
      /\ Sem!Pump(available + n, queue, listed, owned, pending, waiting)
  BY DEF Sem!Extend
<1>4. capacity' = (available + n) + SumOf(Share(AttachedIn(st', semParent'), owned))
  <2>1. PICK s \in Nat : s = SumOf(Share(AttachedIn(st, semParent), owned))
    BY ShareType DEF SemAssumption
  <2>2. capacity = available + s
    BY <2>1 DEF Conserved
  <2>3. capacity + n = (available + n) + s
    BY <1>1, <2>1, <2>2
  <2> QED BY <1>1, <1>3, <2>1, <2>3
<1>5. BeforePump(available + n, queue, listed, owned, pending, waiting)
  BY <1>1, <1>3, <1>4 DEF BeforePump, InPlace
<1> QED BY <1>2, <1>3, <1>5, PumpKeeps

\* release() gives back part of what one acquisition owns.
LEMMA SemReleaseKeeps ==
  ASSUME SemAssumption, SemInv, NEW a \in SemAcqs, NEW n \in Counts, Sem!Release(a, n)
  PROVE  SemInv'
<1> USE DEF SemInv, SemTypes
<1> DEFINE own == [owned EXCEPT ![a] = @ - n]
           A == AttachedIn(st, semParent)
<1>1. n \in Nat /\ n > 0 /\ available \in Nat /\ owned[a] \in Nat /\ n <= owned[a] /\ a \in A
      /\ IsFiniteSet(SemAcqs)
  BY DEF Sem!Release, SemAssumption, Sem!Attached, AttachedIn
<1>2. own \in [SemAcqs -> Nat] /\ own[a] = owned[a] - n
      /\ \A x \in SemAcqs \ {a} : own[x] = owned[x]
  <2>1. owned[a] - n \in Nat
    BY <1>1
  <2> QED BY <2>1
<1>3. semHome' = semHome /\ st' = st /\ semParent' = semParent /\ removing' = removing
      /\ capacity' = capacity
      /\ Sem!Pump(available + n, queue, listed, own, pending, waiting)
  BY DEF Sem!Release
<1> HIDE DEF own
<1>4. PumpArgs(available + n, queue, listed, own, pending, waiting)
  BY <1>1, <1>2 DEF PumpArgs
<1>5. capacity = (available + n) + SumOf(Share(A, own))
  <2>1. SumOf(Share(A, own)) = (SumOf(Share(A, owned)) + own[a]) - owned[a]
    <3>1. OneDiffers(A, owned, A, own, a)
      BY <1>1, <1>2 DEF OneDiffers
    <3> HIDE DEF A
    <3> QED BY <1>1, <3>1, OneDiffersSum
  <2>2. PICK s \in Nat, o \in Nat : s = SumOf(Share(A, owned)) /\ o = owned[a]
    BY <1>1, ShareType
  <2>3. capacity = available + s
    BY <2>2 DEF Conserved
  <2>4. SumOf(Share(A, own)) = (s + (o - n)) - o
    BY <1>2, <2>1, <2>2
  <2> HIDE DEF A
  <2>5. SumOf(Share(A, own)) = s - n
    BY <1>1, <2>2, <2>4
  <2> QED BY <1>1, <2>2, <2>3, <2>5
<1>6. Places(semHome, listed, Elements(queue), st, semParent, own, pending, waiting, removing)
  BY <1>1, <1>2 DEF InPlace, Places, PlaceOf, AttachedIn
<1>7. BeforePump(available + n, queue, listed, own, pending, waiting)
  BY <1>3, <1>5, <1>6 DEF BeforePump
<1> QED BY <1>3, <1>4, <1>7, PumpKeeps

\* The destructor gives back all of it, or gives up the place in the queue.
LEMMA SemDestroyKeeps ==
  ASSUME SemAssumption, SemInv, NEW a \in SemAcqs, Sem!Destroy(a)
  PROVE  SemInv'
<1> USE DEF SemInv, SemTypes
<1> DEFINE A == AttachedIn(st, semParent)
           B == AttachedIn(st', semParent')
<1>1. /\ st[a] = "live" /\ a \notin waiting \cup removing
      /\ semHome' = semHome /\ capacity' = capacity /\ removing' = removing
      /\ semParent' = [semParent EXCEPT ![a] = Null]
  BY DEF Sem!Destroy
<1>2. CASE semParent[a] # Null
  <2> DEFINE own == [owned EXCEPT ![a] = 0]
             want == [pending EXCEPT ![a] = 0]
             q == Sem!Without(queue, a)
             l == listed \ {a}
             av == available + owned[a]
  <2>1. st' = [st EXCEPT ![a] = "free"] /\ Sem!Pump(av, q, l, own, want, waiting)
    BY <1>2 DEF Sem!Destroy
  <2>2. q \in Seq(SemAcqs) /\ Distinct(q) /\ Elements(q) = Elements(queue) \ {a}
    BY WithoutProps
  <2>3. own \in [SemAcqs -> Nat] /\ want \in [SemAcqs -> Nat] /\ av \in Nat
        /\ l \subseteq SemAcqs
        /\ own[a] = 0 /\ want[a] = 0
        /\ \A x \in SemAcqs \ {a} : own[x] = owned[x] /\ want[x] = pending[x]
    OBVIOUS
  <2> HIDE DEF q
  <2>4. PumpArgs(av, q, l, own, want, waiting)
    BY <2>2, <2>3 DEF PumpArgs
  <2>5. a \in A /\ a \notin B /\ \A x \in SemAcqs \ {a} : x \in A <=> x \in B
    BY <1>1, <1>2, <2>1 DEF AttachedIn
  <2>6. capacity = av + SumOf(Share(B, own))
    <3> HIDE DEF A, B, own
    <3>1. IsFiniteSet(SemAcqs)
      BY DEF SemAssumption
    <3>2. SumOf(Share(B, own)) = (SumOf(Share(A, owned)) + 0) - owned[a]
      <4>1. OneDiffers(A, owned, B, own, a)
        BY <2>3, <2>5 DEF OneDiffers
      <4> QED BY <2>5, <3>1, <4>1, OneDiffersSum
    <3>3. PICK s \in Nat, o \in Nat : s = SumOf(Share(A, owned)) /\ o = owned[a]
      BY <3>1, ShareType
    <3>4. capacity = available + s
      BY <3>3 DEF Conserved, A
    <3>5. SumOf(Share(B, own)) = s - o
      BY <3>2, <3>3
    <3> QED BY <3>3, <3>4, <3>5
  <2>7. Places(semHome, l, Elements(q), st', semParent', own, want, waiting, removing)
    <3> SUFFICES ASSUME NEW x \in SemAcqs
                 PROVE  PlaceOf(x, semHome, l, Elements(q), st', semParent', own, want,
                                waiting, removing)
      BY DEF Places
    <3>1. PlaceOf(x, semHome, listed, Elements(queue), st, semParent, owned, pending, waiting,
                  removing)
      BY DEF InPlace, Places
    <3>2. CASE x = a
      BY <1>1, <2>1, <2>2, <2>3, <3>2 DEF PlaceOf
    <3>3. CASE x # a
      <4>1. /\ st'[x] = st[x] /\ semParent'[x] = semParent[x] /\ own[x] = owned[x]
               /\ want[x] = pending[x]
            /\ x \in l <=> x \in listed
            /\ x \in Elements(q) <=> x \in Elements(queue)
        BY <1>1, <2>1, <2>2, <2>3, <3>3
      <4> QED BY <3>1, <4>1 DEF PlaceOf
    <3> QED BY <3>2, <3>3
  <2>8. /\ st' \in [SemAcqs -> {"free", "live", "dead"}]
        /\ semParent' \in [SemAcqs -> Sem!Homes \cup {Null}]
    BY <1>1, <2>1
  <2>9. BeforePump(av, q, l, own, want, waiting)
    BY <1>1, <2>3, <2>6, <2>7, <2>8 DEF BeforePump
  <2> HIDE DEF own, want, l, av
  <2> QED BY <2>1, <2>4, <2>9, PumpKeeps
<1>3. CASE semParent[a] = Null
  <2>1. a \in listed
    BY <1>1, <1>3 DEF InPlace, Places, PlaceOf
  <2>2. /\ st' = [st EXCEPT ![a] = "dead"] /\ semParent' = semParent
        /\ available' = available /\ listed' = listed /\ queue' = queue /\ owned' = owned
        /\ pending' = pending /\ waiting' = waiting
    BY <1>1, <1>3, <2>1 DEF Sem!Destroy
  <2>3. A = B
    BY <1>1, <1>3, <2>2 DEF AttachedIn
  <2>4. SemTypes'
    BY <1>1, <2>2
  <2>5. Distinct(queue)' /\ Sem!PumpedDry'
    BY <2>2 DEF Distinct, Sem!PumpedDry
  <2>6. Conserved'
    BY <1>1, <2>2, <2>3 DEF Conserved, Share
  <2>7. InPlace'
    <3> SUFFICES ASSUME NEW x \in SemAcqs
                 PROVE  PlaceOf(x, semHome, listed, Elements(queue), st', semParent, owned,
                                pending, waiting,
                                removing)
      <4>1. Places(semHome, listed, Elements(queue), st', semParent, owned, pending, waiting,
                   removing)
        BY DEF Places
      <4>2. Elements(queue)' = Elements(queue)
        BY <2>2 DEF Elements
      <4> QED BY <1>1, <2>2, <4>1, <4>2 DEF InPlace
    <3>1. PlaceOf(x, semHome, listed, Elements(queue), st, semParent, owned, pending, waiting,
                  removing)
      BY DEF InPlace, Places
    <3> QED BY <1>1, <1>3, <2>1, <2>2, <3>1 DEF PlaceOf
  <2> QED BY <2>4, <2>5, <2>6, <2>7
<1> QED BY <1>2, <1>3

\* One more at the end of the queue.
LEMMA AppendProps ==
  ASSUME NEW q \in Seq(SemAcqs), Distinct(q), NEW a \in SemAcqs, a \notin Elements(q)
  PROVE  LET r == Append(q, a) IN
         /\ r \in Seq(SemAcqs) /\ Distinct(r) /\ Elements(r) = Elements(q) \cup {a}
         /\ Head(r) = (IF q = <<>> THEN a ELSE Head(q))
<1> DEFINE r == Append(q, a)
           N == Len(q)
<1>1. N \in Nat /\ DOMAIN q = 1 .. N
  BY LenProperties
<1>2. /\ r \in Seq(SemAcqs) /\ DOMAIN r = 1 .. N + 1 /\ Len(r) = N + 1
      /\ \A k \in 1 .. N : r[k] = q[k]
      /\ r[N + 1] = a
  BY AppendProperties, <1>1
<1> HIDE DEF r, N
<1>3. \A k \in 1 .. N + 1 : k \in 1 .. N \/ k = N + 1
  BY <1>1
<1>4. \A k \in 1 .. N : k \in 1 .. N + 1
  BY <1>1
<1>5. N + 1 \in 1 .. N + 1
  BY <1>1
<1>6. \A k \in 1 .. N : q[k] # a
  BY <1>1 DEF Elements
<1>7. Distinct(r)
  BY <1>1, <1>2, <1>3, <1>6 DEF Distinct
<1>8. Elements(r) = Elements(q) \cup {a}
  BY <1>1, <1>2, <1>3, <1>4, <1>5 DEF Elements
<1>9. Head(r) = (IF q = <<>> THEN a ELSE Head(q))
  <2>1. r # <<>> /\ Head(r) = r[1]
    BY <1>1, <1>2
  <2>2. CASE q = <<>>
    BY <1>2, <2>1, <2>2 DEF N
  <2>3. CASE q # <<>>
    <3>1. 1 \in 1 .. N /\ Head(q) = q[1]
      BY <1>1, <2>3 DEF N
    <3> QED BY <1>2, <2>1, <2>3, <3>1
  <2> QED BY <2>2, <2>3
<1> QED BY <1>2, <1>7, <1>8, <1>9 DEF r

\* What InPlace says of the next state.
LEMMA PrimedPlaces ==
  ASSUME Places(semHome', listed', Elements(queue'), st', semParent', owned', pending',
                waiting', removing')
  PROVE  InPlace'
BY DEF InPlace, Elements

\* start_acq(), and the wait that resize() begins with it.
LEMMA ConstructKeeps ==
  ASSUME SemAssumption, SemInv, NEW a \in SemAcqs, NEW n \in Nat \ {0},
         Sem!Unused(a), Sem!Construct(a, n), UNCHANGED <<semHome, capacity>>,
         \/ UNCHANGED <<waiting, removing>>
         \/ available < n /\ waiting' = waiting \cup {a} /\ removing' = removing \cup {a}
  PROVE  SemInv'
<1> USE DEF SemInv, SemTypes
<1> DEFINE A == AttachedIn(st, semParent)
           B == AttachedIn(st', semParent')
<1>1. semHome' = semHome /\ capacity' = capacity /\ waiting' \subseteq SemAcqs
      /\ removing' \subseteq SemAcqs
      /\ IsFiniteSet(SemAcqs) /\ semHome # Null
  BY DEF SemAssumption
<1>2. /\ st' = [st EXCEPT ![a] = "live"] /\ semParent' = [semParent EXCEPT ![a] = semHome]
      /\ st[a] = "free"
  BY DEF Sem!Construct, Sem!Unused
<1>3. /\ a \notin listed \cup removing /\ semParent[a] = Null /\ owned[a] = 0 /\ pending[a] = 0
      /\ a \notin Elements(queue) /\ a \notin waiting
  BY <1>2 DEF InPlace, Places, PlaceOf
<1>4. a \notin A /\ a \in B /\ \A x \in SemAcqs \ {a} : x \in A <=> x \in B
  BY <1>1, <1>2, <1>3 DEF AttachedIn
<1>5. /\ st' \in [SemAcqs -> {"free", "live", "dead"}]
         /\ semParent' \in [SemAcqs -> Sem!Homes \cup {Null}]
      /\ \A x \in SemAcqs \ {a} : st'[x] = st[x] /\ semParent'[x] = semParent[x]
      /\ st'[a] = "live" /\ semParent'[a] = semHome
  BY <1>2
<1>6. \A x \in SemAcqs : PlaceOf(x, semHome, listed, Elements(queue), st, semParent, owned,
                                 pending, waiting, removing)
  BY DEF InPlace, Places
<1> HIDE DEF A, B
<1>7. CASE available >= n
  <2>1. /\ available' = available - n /\ owned' = [owned EXCEPT ![a] = n]
        /\ pending' = [pending EXCEPT ![a] = 0] /\ listed' = listed \cup {a} /\ queue' = queue
        /\ waiting' = waiting /\ removing' = removing
    <3>1. ~ (available < n)
      BY <1>7
    <3> QED BY <1>7, <3>1 DEF Sem!Construct
  <2>2. /\ owned' \in [SemAcqs -> Nat] /\ pending' \in [SemAcqs -> Nat] /\ available' \in Nat
        /\ owned'[a] = n /\ pending'[a] = 0
        /\ \A x \in SemAcqs \ {a} : owned'[x] = owned[x] /\ pending'[x] = pending[x]
    BY <1>7, <2>1
  <2>3. SemTypes'
    BY <1>1, <1>5, <2>1, <2>2
  <2>4. Conserved'
    <3>1. OneDiffers(A, owned, B, owned', a)
      BY <1>4, <2>2 DEF OneDiffers
    <3>2. SumOf(Share(B, owned')) = (SumOf(Share(A, owned)) + n) - 0
      BY <1>1, <1>4, <2>2, <3>1, OneDiffersSum
    <3>3. PICK s \in Nat : s = SumOf(Share(A, owned))
      BY <1>1, ShareType
    <3>4. capacity = available + s
      BY <3>3 DEF Conserved, A
    <3>5. capacity = (available - n) + ((s + n) - 0)
      BY <3>4
    <3>6. capacity' = available' + SumOf(Share(B, owned'))
      BY <1>1, <2>1, <3>2, <3>3, <3>5
    <3> QED BY <3>6 DEF Conserved, B, AttachedIn, Share
  <2>5. Sem!PumpedDry'
    <3> SUFFICES ASSUME queue # <<>> PROVE pending'[Head(queue)] > available'
      BY <2>1 DEF Sem!PumpedDry
    <3>1. Head(queue) \in Elements(queue) /\ Head(queue) \in SemAcqs /\ Head(queue) # a
      <4>1. 1 \in DOMAIN queue /\ Head(queue) = queue[1]
        OBVIOUS
      <4>2. Head(queue) \in Elements(queue) /\ Head(queue) \in SemAcqs
        BY <4>1 DEF Elements
      <4> QED BY <1>3, <4>2
    <3>2. PICK v \in Nat : v = pending[Head(queue)] /\ v > available
      BY <3>1 DEF Sem!PumpedDry
    <3>3. v > available - n
      BY <3>2
    <3> QED BY <2>1, <2>2, <3>1, <3>2, <3>3
  <2>6. Distinct(queue)'
    BY <2>1 DEF Distinct
  <2>7. ASSUME NEW x \in SemAcqs
        PROVE  PlaceOf(x, semHome', listed', Elements(queue'), st', semParent', owned',
                       pending', waiting', removing')
    <3>1. Elements(queue') = Elements(queue) /\ semHome' = semHome
      BY <1>1, <2>1
    <3>2. CASE x = a
      BY <1>1, <1>3, <1>5, <2>1, <2>2, <3>1, <3>2 DEF PlaceOf
    <3>3. CASE x # a
      <4>1. /\ st'[x] = st[x] /\ semParent'[x] = semParent[x] /\ owned'[x] = owned[x]
            /\ pending'[x] = pending[x] /\ (x \in listed' <=> x \in listed)
        BY <1>5, <2>1, <2>2, <3>3
      <4> QED BY <1>6, <2>1, <3>1, <4>1 DEF PlaceOf
    <3> QED BY <3>2, <3>3
  <2>8. InPlace'
    BY <2>7, PrimedPlaces DEF Places
  <2> QED BY <2>3, <2>4, <2>5, <2>6, <2>8
<1>8. CASE ~ (available >= n)
  <2>1. /\ available' = available /\ owned' = [owned EXCEPT ![a] = 0]
        /\ pending' = [pending EXCEPT ![a] = n] /\ listed' = listed /\ queue' = Append(queue, a)
    BY <1>8 DEF Sem!Construct
  <2>2. /\ owned' = owned /\ pending' \in [SemAcqs -> Nat]
        /\ pending'[a] = n
        /\ \A x \in SemAcqs \ {a} : pending'[x] = pending[x]
    BY <1>3, <2>1
  <2>3. /\ queue' \in Seq(SemAcqs) /\ Distinct(queue')
           /\ Elements(queue') = Elements(queue) \cup {a}
        /\ Head(queue') = (IF queue = <<>> THEN a ELSE Head(queue))
    BY <1>3, <2>1, AppendProps
  <2>4. SemTypes'
    BY <1>1, <1>5, <2>1, <2>2, <2>3
  <2>5. Conserved'
    <3>1. OneDiffers(A, owned, B, owned, a)
      BY <1>4 DEF OneDiffers
    <3>2. SumOf(Share(B, owned)) = (SumOf(Share(A, owned)) + 0) - 0
      BY <1>1, <1>3, <1>4, <3>1, OneDiffersSum
    <3>3. PICK s \in Nat : s = SumOf(Share(A, owned))
      BY <1>1, ShareType
    <3>4. capacity = available + s
      BY <3>3 DEF Conserved, A
    <3>5. SumOf(Share(B, owned)) = s
      BY <3>2, <3>3
    <3>6. capacity' = available' + SumOf(Share(B, owned'))
      BY <1>1, <2>1, <2>2, <3>3, <3>4, <3>5
    <3> QED BY <3>6 DEF Conserved, B, AttachedIn, Share
  <2>6. Sem!PumpedDry'
    <3>1. CASE queue = <<>>
      <4>1. Head(queue') = a /\ n > available
        BY <1>8, <2>3, <3>1
      <4> QED BY <2>1, <2>2, <4>1 DEF Sem!PumpedDry
    <3>2. CASE queue # <<>>
      <4>1. 1 \in DOMAIN queue /\ Head(queue) = queue[1]
        BY <3>2
      <4>2. Head(queue) \in Elements(queue) /\ Head(queue) \in SemAcqs
        BY <4>1 DEF Elements
      <4>3. Head(queue) # a /\ pending[Head(queue)] > available
        BY <1>3, <3>2, <4>2 DEF Sem!PumpedDry
      <4> QED BY <2>1, <2>2, <2>3, <3>2, <4>2, <4>3 DEF Sem!PumpedDry
    <3> QED BY <3>1, <3>2
  <2>7. Distinct(queue)'
    BY <2>3 DEF Distinct
  <2>8. ASSUME NEW x \in SemAcqs
        PROVE  PlaceOf(x, semHome', listed', Elements(queue'), st', semParent', owned',
                       pending', waiting', removing')
    <3>2. CASE x = a
      <4>1. semHome' = semHome /\ x \in Elements(queue') /\ x \notin listed'
            /\ pending'[x] = n /\ n > 0
            /\ st'[x] = "live" /\ semParent'[x] = semHome /\ semHome # Null
            /\ (x \in removing' => x \in waiting')
        BY <1>1, <1>3, <1>5, <2>1, <2>2, <2>3, <3>2
      <4> QED BY <4>1 DEF PlaceOf
    <3>3. CASE x # a
      <4>1. /\ st'[x] = st[x] /\ semParent'[x] = semParent[x] /\ owned'[x] = owned[x]
            /\ pending'[x] = pending[x] /\ (x \in Elements(queue') <=> x \in Elements(queue))
            /\ (x \in waiting' <=> x \in waiting) /\ (x \in removing' <=> x \in removing)
        BY <1>5, <2>2, <2>3, <3>3
      <4> QED BY <1>1, <1>6, <2>1, <4>1 DEF PlaceOf
    <3> QED BY <3>2, <3>3
  <2>9. InPlace'
    BY <2>8, PrimedPlaces DEF Places
  <2> QED BY <2>4, <2>5, <2>6, <2>7, <2>9
<1> QED BY <1>7, <1>8

\* start_acq() by itself.
LEMMA StartAcqKeeps ==
  ASSUME SemAssumption, SemInv, NEW a \in SemAcqs, NEW n \in Counts, Sem!StartAcq(a, n)
  PROVE  SemInv'
<1>1. n \in Nat \ {0} /\ Sem!Unused(a) /\ Sem!Construct(a, n) /\ UNCHANGED <<semHome, capacity>>
      /\ UNCHANGED <<waiting, removing>>
  BY DEF Sem!StartAcq, SemAssumption
<1> QED BY <1>1, ConstructKeeps

\* A wait begins or is interrupted.
LEMMA SemWaitKeeps ==
  ASSUME SemAssumption, SemInv, NEW a \in SemAcqs, Sem!Wait(a) \/ Sem!Interrupt(a)
  PROVE  SemInv'
<1> USE DEF SemInv, SemTypes
<1>1. /\ semHome' = semHome /\ capacity' = capacity /\ available' = available
         /\ listed' = listed
      /\ queue' = queue /\ st' = st /\ semParent' = semParent /\ owned' = owned
         /\ pending' = pending
      /\ removing' = removing
  BY DEF Sem!Wait, Sem!Interrupt, Sem!acqVars
<1>2. \/ /\ waiting' = waiting \cup {a} /\ a \in Elements(queue)
      \/ waiting' = waiting \ {a} /\ a \notin removing
  <2>1. CASE Sem!Wait(a)
    BY <2>1 DEF Sem!Wait, Sem!Attached, InPlace, Places, PlaceOf
  <2>2. CASE Sem!Interrupt(a)
    BY <2>2 DEF Sem!Interrupt
  <2> QED BY <2>1, <2>2
<1>3. SemTypes'
  BY <1>1, <1>2
<1>4. Distinct(queue)' /\ Sem!PumpedDry' /\ Conserved'
  BY <1>1 DEF Distinct, Sem!PumpedDry, Conserved, AttachedIn, Share
<1>5. InPlace'
  <2> SUFFICES ASSUME NEW x \in SemAcqs
               PROVE  PlaceOf(x, semHome, listed, Elements(queue), st, semParent, owned,
                              pending, waiting', removing)
    BY <1>1, PrimedPlaces DEF Places
  <2>1. PlaceOf(x, semHome, listed, Elements(queue), st, semParent, owned, pending, waiting,
                removing)
    BY DEF InPlace, Places
  <2> QED BY <1>2, <2>1 DEF PlaceOf
<1> QED BY <1>3, <1>4, <1>5

\* What is granted can be cut off.
LEMMA CutKeeps ==
  ASSUME SemAssumption, SemInv, NEW a \in SemAcqs, Sem!Attached(a), pending[a] = 0, Sem!Cut(a),
         UNCHANGED <<semHome, available, listed, queue, st, pending, waiting>>,
         removing' = removing \ {a}
  PROVE  SemInv'
<1> USE DEF SemInv, SemTypes
<1> DEFINE A == AttachedIn(st, semParent)
           B == AttachedIn(st', semParent')
<1>1. IsFiniteSet(SemAcqs)
  BY DEF SemAssumption
<1>2. /\ capacity' = capacity - owned[a] /\ owned' = [owned EXCEPT ![a] = 0]
      /\ semParent' = [semParent EXCEPT ![a] = Null]
      /\ st[a] = "live" /\ semParent[a] # Null
  BY DEF Sem!Cut, Sem!Attached
<1>3. owned' \in [SemAcqs -> Nat] /\ owned'[a] = 0
      /\ \A x \in SemAcqs \ {a} : owned'[x] = owned[x]
  BY <1>2
<1>4. semParent' \in [SemAcqs -> Sem!Homes \cup {Null}] /\ semParent'[a] = Null
      /\ \A x \in SemAcqs \ {a} : semParent'[x] = semParent[x]
  BY <1>2
<1>5. a \in A /\ a \notin B /\ \A x \in SemAcqs \ {a} : x \in A <=> x \in B
  BY <1>2, <1>4 DEF AttachedIn
<1> HIDE DEF A, B
<1>6. PICK s \in Nat, o \in Nat :
        s = SumOf(Share(A, owned)) /\ o = owned[a] /\ o <= s /\ capacity = available + s
  <2>1. SumOf(Share(A, owned)) \in Nat /\ owned[a] <= SumOf(Share(A, owned))
    BY <1>1, <1>5, ShareType
  <2> QED BY <2>1 DEF Conserved, A
<1>7. SumOf(Share(B, owned')) = s - o
  <2>1. OneDiffers(A, owned, B, owned', a)
    BY <1>3, <1>5 DEF OneDiffers
  <2>2. SumOf(Share(B, owned')) = (SumOf(Share(A, owned)) + 0) - owned[a]
    BY <1>1, <1>5, <2>1, OneDiffersSum
  <2> QED BY <1>6, <2>2
<1>8. capacity' = available' + SumOf(Share(B, owned')) /\ capacity' \in 0 .. MaxCapacity
  <2>1. capacity' = (available + s) - o
    BY <1>2, <1>6
  <2>2. MaxCapacity \in Nat /\ capacity \in 0 .. MaxCapacity
    BY DEF SemAssumption
  <2>3. (available + s) - o \in 0 .. MaxCapacity
    BY <1>6, <2>2, SMTT(40)
  <2> QED BY <1>6, <1>7, <2>1, <2>3
<1>9. SemTypes'
  BY <1>3, <1>4, <1>8
<1>10. Distinct(queue)' /\ Sem!PumpedDry'
  BY DEF Distinct, Sem!PumpedDry
<1>11. Conserved'
  BY <1>8 DEF Conserved, B, AttachedIn, Share
<1>12. InPlace'
  <2> SUFFICES ASSUME NEW x \in SemAcqs
               PROVE  PlaceOf(x, semHome, listed, Elements(queue), st, semParent', owned',
                              pending, waiting, removing \ {a})
    BY PrimedPlaces DEF Places
  <2>1. PlaceOf(x, semHome, listed, Elements(queue), st, semParent, owned, pending, waiting,
                removing)
    BY DEF InPlace, Places
  <2>2. CASE x = a
    BY <1>2, <1>3, <1>4, <2>1, <2>2 DEF PlaceOf
  <2>3. CASE x # a
    BY <1>3, <1>4, <2>1, <2>3 DEF PlaceOf
  <2> QED BY <2>2, <2>3
<1> QED BY <1>9, <1>10, <1>11, <1>12

\* remove() begins: at once, or with a wait.
LEMMA RemoveKeeps ==
  ASSUME SemAssumption, SemInv, NEW a \in SemAcqs, Sem!Remove(a)
  PROVE  SemInv'
<1>1. /\ Sem!Attached(a) /\ a \notin removing \cup waiting
      /\ semHome' = semHome /\ available' = available /\ listed' = listed
      /\ queue' = queue /\ st' = st /\ pending' = pending
  BY DEF Sem!Remove
<1>2. CASE pending[a] = 0
  <2>1. Sem!Cut(a) /\ waiting' = waiting /\ removing' = removing \ {a}
    BY <1>1, <1>2 DEF Sem!Remove
  <2> QED BY <1>1, <1>2, <2>1, CutKeeps
<1>3. CASE pending[a] # 0
  <2> USE DEF SemInv, SemTypes
  <2>1. /\ waiting' = waiting \cup {a} /\ removing' = removing \cup {a}
        /\ capacity' = capacity /\ owned' = owned /\ semParent' = semParent
    BY <1>3 DEF Sem!Remove
  <2>2. SemTypes'
    BY <1>1, <2>1
  <2>3. Distinct(queue)' /\ Sem!PumpedDry' /\ Conserved'
    BY <1>1, <2>1 DEF Distinct, Sem!PumpedDry, Conserved, AttachedIn, Share
  <2>4. InPlace'
    <3> SUFFICES ASSUME NEW x \in SemAcqs
                 PROVE  PlaceOf(x, semHome, listed, Elements(queue), st, semParent, owned,
                                pending, waiting', removing')
      BY <1>1, <2>1, PrimedPlaces DEF Places
    <3>1. PlaceOf(x, semHome, listed, Elements(queue), st, semParent, owned, pending, waiting,
                  removing)
      BY DEF InPlace, Places
    <3>2. pending[a] > 0
      BY <1>3
    <3> QED BY <1>1, <2>1, <3>1, <3>2 DEF PlaceOf, Sem!Attached
  <2> QED BY <2>2, <2>3, <2>4
<1> QED BY <1>2, <1>3

\* remove() ends when its acquisition has been granted.
LEMMA RemovedKeeps ==
  ASSUME SemAssumption, SemInv, NEW a \in SemAcqs, Sem!Removed(a)
  PROVE  SemInv'
<1>1. Sem!Attached(a) /\ pending[a] = 0
  <2>1. a \in removing \ waiting /\ pending[a] \in Nat
    BY DEF Sem!Removed, SemInv, SemTypes
  <2> QED BY <2>1 DEF SemInv, InPlace, Places, PlaceOf, Sem!Attached
<1> QED BY <1>1, CutKeeps DEF Sem!Removed

\* The semaphore goes to another address, and its lists reach all that are attached.
LEMMA MoveSemaphoreKeeps ==
  ASSUME SemAssumption, SemInv, "moveCombined" \notin Ops, Sem!MoveSemaphore
  PROVE  SemInv'
<1> USE DEF SemInv, SemTypes
<1>1. /\ \A a \in listed : st[a] = "live" => semParent[a] # Null
      /\ removing = {} /\ semHome' \in Sem!Homes
      /\ semParent' = [a \in SemAcqs |-> IF a \in listed \cup Sem!Queued /\ st[a] = "live"
                                    THEN semHome' ELSE semParent[a]]
      /\ capacity' = capacity /\ available' = available /\ listed' = listed /\ queue' = queue
      /\ st' = st /\ owned' = owned /\ pending' = pending /\ waiting' = waiting
         /\ removing' = removing
  <2>1. (CHOOSE h \in Sem!Homes : h # semHome) \in Sem!Homes
    BY DEF Sem!Homes
  <2> QED BY <2>1 DEF Sem!MoveSemaphore
<1>2. semHome' # Null
  BY <1>1 DEF SemAssumption
<1>3. ASSUME NEW a \in SemAcqs
      PROVE  /\ PlaceOf(a, semHome', listed, Elements(queue), st, semParent', owned, pending,
                        waiting, removing)
             /\ (st[a] = "live" /\ semParent[a] # Null) <=> (st[a] = "live" /\ semParent'[a] # Null)
  <2>1. PlaceOf(a, semHome, listed, Elements(queue), st, semParent, owned, pending, waiting,
                removing)
    BY DEF InPlace, Places
  <2>2. semParent'[a] = IF a \in listed \cup Elements(queue) /\ st[a] = "live"
                     THEN semHome' ELSE semParent[a]
    BY <1>1 DEF Sem!Queued, Elements
  <2>3. a \in listed /\ st[a] = "live" => semParent[a] # Null
    BY <1>1
  <2>4. pending[a] \in Nat
    OBVIOUS
  <2> QED BY <1>1, <1>2, <2>1, <2>2, <2>3, <2>4 DEF PlaceOf
<1>4. semParent' \in [SemAcqs -> Sem!Homes \cup {Null}]
  BY <1>1
<1>5. SemTypes'
  BY <1>1, <1>4
<1>6. AttachedIn(st', semParent') = AttachedIn(st, semParent)
  BY <1>1, <1>3 DEF AttachedIn
<1>7. Conserved'
  BY <1>1, <1>6 DEF Conserved, AttachedIn, Share
<1>8. Distinct(queue)' /\ Sem!PumpedDry'
  BY <1>1 DEF Distinct, Sem!PumpedDry
<1>9. InPlace'
  <2>1. Places(semHome', listed, Elements(queue), st, semParent', owned, pending, waiting,
               removing)
    BY <1>3 DEF Places
  <2> QED BY <1>1, <2>1, PrimedPlaces
<1> QED BY <1>5, <1>7, <1>8, <1>9

\* combine() moves what b owns to a.
LEMMA CombineKeeps ==
  ASSUME SemAssumption, SemInv, "combinePending" \notin Ops,
         NEW a \in SemAcqs, NEW b \in SemAcqs, Sem!Combine(a, b)
  PROVE  SemInv'
<1> USE DEF SemInv, SemTypes
<1> DEFINE A == AttachedIn(st, semParent)
           B == AttachedIn(st', semParent')
<1>1. /\ a # b /\ st[a] = "live" /\ semParent[a] # Null /\ st[b] = "live" /\ semParent[b] # Null
      /\ pending[a] = 0 /\ pending[b] = 0 /\ a \notin removing /\ b \notin removing
      /\ owned' = [owned EXCEPT ![a] = @ + owned[b]]
      /\ semParent' = [semParent EXCEPT ![b] = Null]
      /\ semHome' = semHome /\ capacity' = capacity /\ available' = available
         /\ listed' = listed
      /\ queue' = queue /\ st' = st /\ pending' = pending /\ waiting' = waiting
      /\ removing' = removing
  BY DEF Sem!Combine, Sem!Attached
<1>2. IsFiniteSet(SemAcqs) /\ owned[a] \in Nat /\ owned[b] \in Nat
  BY DEF SemAssumption
<1>3. /\ owned' \in [SemAcqs -> Nat] /\ owned'[a] = owned[a] + owned[b]
      /\ \A x \in SemAcqs \ {a} : owned'[x] = owned[x]
  BY <1>1, <1>2
<1>4. semParent' \in [SemAcqs -> Sem!Homes \cup {Null}] /\ semParent'[b] = Null
      /\ \A x \in SemAcqs \ {b} : semParent'[x] = semParent[x]
  BY <1>1
<1>5. a \in A /\ b \in A /\ a \in B /\ b \notin B
      /\ \A x \in SemAcqs \ {a, b} : x \in A <=> x \in B
  BY <1>1, <1>4 DEF AttachedIn
<1> HIDE DEF A, B
<1>6. SumOf(Share(B, owned')) = SumOf(Share(A, owned))
  <2>1. Agree(Share(A, owned), Share(B, owned'), {a, b})
    BY <1>3, <1>5 DEF Agree, Share
  <2>2. /\ Share(B, owned')[a] = owned[a] + owned[b] /\ Share(B, owned')[b] = 0
        /\ Share(A, owned)[a] = owned[a] /\ Share(A, owned)[b] = owned[b]
    BY <1>3, <1>5 DEF Share
  <2>3. (owned[a] + owned[b]) + 0 = owned[a] + owned[b]
    BY <1>2
  <2>4. Share(B, owned')[a] + Share(B, owned')[b] = Share(A, owned)[a] + Share(A, owned)[b]
    BY <2>2, <2>3
  <2>5. TwoShares(A, owned, B, owned', a, b)
    BY <1>1, <1>3, <2>1, <2>4 DEF TwoShares
  <2> QED BY <1>2, <2>5, ShareMoves
<1>7. SemTypes'
  BY <1>1, <1>3, <1>4
<1>8. Conserved'
  BY <1>1, <1>6 DEF Conserved, A, B, AttachedIn, Share
<1>9. Distinct(queue)' /\ Sem!PumpedDry'
  BY <1>1 DEF Distinct, Sem!PumpedDry
<1>10. InPlace'
  <2> SUFFICES ASSUME NEW x \in SemAcqs
               PROVE  PlaceOf(x, semHome, listed, Elements(queue), st, semParent', owned',
                              pending, waiting, removing)
    BY <1>1, PrimedPlaces DEF Places
  <2>1. PlaceOf(x, semHome, listed, Elements(queue), st, semParent, owned, pending, waiting,
                removing)
    BY DEF InPlace, Places
  <2>2. CASE x = b
    BY <1>1, <1>4, <2>1, <2>2 DEF PlaceOf
  <2>3. CASE x = a
    BY <1>1, <1>4, <2>1, <2>3 DEF PlaceOf
  <2>4. CASE x # a /\ x # b
    BY <1>3, <1>4, <2>1, <2>4 DEF PlaceOf
  <2> QED BY <2>2, <2>3, <2>4
<1> QED BY <1>7, <1>8, <1>9, <1>10

\* resize() to less.
LEMMA ShrinkKeeps ==
  ASSUME SemAssumption, SemInv, NEW a \in SemAcqs, NEW n \in Counts, Sem!Shrink(a, n)
  PROVE  SemInv'
<1>1. n \in Nat \ {0} /\ Sem!Unused(a) /\ n \in 1 .. capacity /\ semHome' = semHome
  BY DEF Sem!Shrink, SemAssumption
<1>2. CASE available >= n
  <2> USE DEF SemInv, SemTypes
  <2>1. /\ available' = available - n /\ capacity' = capacity - n /\ listed' = listed \cup {a}
        /\ st' = [st EXCEPT ![a] = "dead"]
        /\ queue' = queue /\ semParent' = semParent /\ owned' = owned /\ pending' = pending
        /\ waiting' = waiting /\ removing' = removing
    BY <1>2 DEF Sem!Shrink
  <2>2. st' \in [SemAcqs -> {"free", "live", "dead"}] /\ st'[a] = "dead" /\ st[a] = "free"
        /\ \A x \in SemAcqs \ {a} : st'[x] = st[x]
    BY <1>1, <2>1 DEF Sem!Unused
  <2>3. capacity' \in 0 .. MaxCapacity /\ available' \in Nat
    BY <1>1, <1>2, <2>1 DEF SemAssumption
  <2>4. SemTypes'
    BY <1>1, <2>1, <2>2, <2>3
  <2>5. AttachedIn(st', semParent') = AttachedIn(st, semParent)
    BY <2>1, <2>2 DEF AttachedIn
  <2>6. Conserved'
    <3> DEFINE A == AttachedIn(st, semParent)
    <3>1. PICK s \in Nat : s = SumOf(Share(A, owned)) /\ capacity = available + s
      <4>1. SumOf(Share(A, owned)) \in Nat
        BY ShareType DEF SemAssumption
      <4> QED BY <4>1 DEF Conserved
    <3>2. capacity - n = (available - n) + s
      BY <1>1, <3>1
    <3>3. capacity' = available' + SumOf(Share(AttachedIn(st', semParent'), owned'))
      BY <2>1, <2>5, <3>1, <3>2
    <3> QED BY <3>3 DEF Conserved, AttachedIn, Share
  <2>7. Sem!PumpedDry'
    <3> SUFFICES ASSUME queue # <<>> PROVE pending[Head(queue)] > available - n
      BY <2>1 DEF Sem!PumpedDry
    <3>1. Head(queue) \in SemAcqs
      OBVIOUS
    <3>2. PICK v \in Nat : v = pending[Head(queue)] /\ v > available
      BY <3>1 DEF Sem!PumpedDry
    <3>3. v > available - n
      BY <1>1, <3>2, SMTT(40)
    <3> QED BY <3>2, <3>3
  <2>8. Distinct(queue)'
    BY <2>1 DEF Distinct
  <2>9. InPlace'
    <3> SUFFICES ASSUME NEW x \in SemAcqs
                 PROVE  PlaceOf(x, semHome, listed', Elements(queue), st', semParent, owned,
                                pending, waiting, removing)
      BY <1>1, <2>1, PrimedPlaces DEF Places
    <3>1. PlaceOf(x, semHome, listed, Elements(queue), st, semParent, owned, pending, waiting,
                  removing)
      BY DEF InPlace, Places
    <3>2. CASE x = a
      BY <2>1, <2>2, <3>1, <3>2 DEF PlaceOf
    <3>3. CASE x # a
      BY <2>1, <2>2, <3>1, <3>3 DEF PlaceOf
    <3> QED BY <3>2, <3>3
  <2> QED BY <2>4, <2>6, <2>7, <2>8, <2>9
<1>3. CASE ~ (available >= n)
  <2>1. Sem!Construct(a, n) /\ waiting' = waiting \cup {a} /\ removing' = removing \cup {a}
        /\ capacity' = capacity
    BY <1>3 DEF Sem!Shrink
  <2>2. available < n
    BY <1>1, <1>3 DEF SemInv, SemTypes
  <2> QED BY <1>1, <2>1, <2>2, ConstructKeeps
<1> QED BY <1>2, <1>3

\* The object that is moved from leaves its place in the lists to the new one.
LEMMA SemMoveAcqKeeps ==
  ASSUME SemAssumption, SemInv, NEW a \in SemAcqs, NEW b \in SemAcqs, Sem!MoveAcq(a, b)
  PROVE  SemInv'
<1> USE DEF SemInv, SemTypes
<1> DEFINE A == AttachedIn(st, semParent)
           B == AttachedIn(st', semParent')
           moved(x) == IF x = a THEN b ELSE x
<1>1. /\ st[a] = "live" /\ semParent[a] # Null /\ a \notin removing /\ st[b] = "free"
      /\ st' = [st EXCEPT ![a] = "free", ![b] = "live"]
      /\ semParent' = [semParent EXCEPT ![a] = Null, ![b] = semParent[a]]
      /\ owned' = [owned EXCEPT ![a] = 0, ![b] = owned[a]]
      /\ pending' = [pending EXCEPT ![a] = 0, ![b] = pending[a]]
      /\ listed' = {moved(x) : x \in listed}
      /\ queue' = [k \in DOMAIN queue |-> moved(queue[k])]
      /\ waiting' = {moved(x) : x \in waiting}
      /\ semHome' = semHome /\ capacity' = capacity /\ available' = available
         /\ removing' = removing
  BY DEF Sem!MoveAcq, Sem!Attached, Sem!Unused
<1>2. a # b
  BY <1>1
<1>3. \A x \in SemAcqs : PlaceOf(x, semHome, listed, Elements(queue), st, semParent, owned,
                                 pending, waiting, removing)
  BY DEF InPlace, Places
<1>4. b \notin listed /\ b \notin removing /\ owned[b] = 0 /\ pending[b] = 0 /\ b \notin waiting
      /\ b \notin Elements(queue) /\ semParent[b] = Null
  BY <1>1, <1>3 DEF PlaceOf
<1>5. /\ st' \in [SemAcqs -> {"free", "live", "dead"}]
         /\ semParent' \in [SemAcqs -> Sem!Homes \cup {Null}]
      /\ owned' \in [SemAcqs -> Nat] /\ pending' \in [SemAcqs -> Nat]
      /\ st'[a] = "free" /\ semParent'[a] = Null /\ owned'[a] = 0 /\ pending'[a] = 0
      /\ st'[b] = "live" /\ semParent'[b] = semParent[a] /\ owned'[b] = owned[a]
         /\ pending'[b] = pending[a]
      /\ \A x \in SemAcqs \ {a, b} : st'[x] = st[x] /\ semParent'[x] = semParent[x]
                                  /\ owned'[x] = owned[x] /\ pending'[x] = pending[x]
  BY <1>1, <1>2
<1>6. /\ listed' \subseteq SemAcqs /\ waiting' \subseteq SemAcqs
      /\ a \notin listed' /\ a \notin waiting'
      /\ b \in listed' <=> a \in listed
      /\ b \in waiting' <=> a \in waiting
      /\ \A x \in SemAcqs \ {a, b} :
           (x \in listed' <=> x \in listed) /\ (x \in waiting' <=> x \in waiting)
  BY <1>1, <1>2, <1>4
<1>7. /\ queue' \in Seq(SemAcqs) /\ Distinct(queue')
      /\ a \notin Elements(queue')
      /\ b \in Elements(queue') <=> a \in Elements(queue)
      /\ \A x \in SemAcqs \ {a, b} : x \in Elements(queue') <=> x \in Elements(queue)
      /\ queue' # <<>> => queue # <<>> /\ Head(queue) \in SemAcqs
         /\ Head(queue) \in Elements(queue)
                          /\ Head(queue') = moved(Head(queue))
  <2> DEFINE N == Len(queue)
  <2>1. N \in Nat /\ DOMAIN queue = 1 .. N /\ queue \in [1 .. N -> SemAcqs]
    BY LenProperties
  <2> HIDE DEF N
  <2>2. queue' \in [1 .. N -> SemAcqs] /\ queue' \in Seq(SemAcqs) /\ Len(queue') = N
        /\ DOMAIN queue' = 1 .. N
        /\ \A k \in 1 .. N : queue'[k] = moved(queue[k])
    BY <1>1, <2>1
  <2>3. Distinct(queue')
    <3> SUFFICES ASSUME NEW j \in 1 .. N, NEW k \in 1 .. N, queue'[j] = queue'[k] PROVE j = k
      BY <2>2 DEF Distinct
    <3>1. queue[j] # b /\ queue[k] # b
      BY <1>4, <2>1 DEF Elements
    <3>2. queue[j] = queue[k]
      BY <2>2, <3>1
    <3> QED BY <2>1, <3>2 DEF Distinct
  <2>4. a \notin Elements(queue') /\ (b \in Elements(queue') <=> a \in Elements(queue))
    BY <1>2, <1>4, <2>1, <2>2, ZenonT(60) DEF Elements
  <2>5. \A x \in SemAcqs \ {a, b} : x \in Elements(queue') <=> x \in Elements(queue)
    BY <1>2, <1>4, <2>1, <2>2, ZenonT(60) DEF Elements
  <2>6. ASSUME queue' # <<>>
        PROVE  queue # <<>> /\ Head(queue) \in SemAcqs /\ Head(queue) \in Elements(queue)
               /\ Head(queue') = moved(Head(queue))
    <3>1. 1 \in 1 .. N /\ Head(queue') = queue'[1]
      BY <2>1, <2>2, <2>6
    <3>2. queue # <<>> /\ Head(queue) = queue[1]
      BY <2>1, <3>1
    <3> QED BY <2>1, <2>2, <3>1, <3>2 DEF Elements
  <2> QED BY <2>2, <2>3, <2>4, <2>5, <2>6
<1> HIDE DEF moved
<1>8. SemTypes'
  BY <1>1, <1>5, <1>6, <1>7
<1>9. Distinct(queue)'
  BY <1>7 DEF Distinct
<1>10. Sem!PumpedDry'
  <2> SUFFICES ASSUME queue' # <<>> PROVE pending'[Head(queue')] > available
    BY <1>1 DEF Sem!PumpedDry
  <2>1. Head(queue') = moved(Head(queue)) /\ Head(queue) # b /\ Head(queue) \in SemAcqs
        /\ pending[Head(queue)] > available
    BY <1>4, <1>7 DEF Sem!PumpedDry
  <2>2. pending'[Head(queue')] = pending[Head(queue)]
    BY <1>5, <2>1 DEF moved
  <2> QED BY <2>1, <2>2
<1>11. a \in A /\ b \notin A /\ a \notin B /\ b \in B
       /\ \A x \in SemAcqs \ {a, b} : x \in A <=> x \in B
  BY <1>1, <1>4, <1>5 DEF AttachedIn
<1> HIDE DEF A, B
<1>12. Conserved'
  <2>1. Agree(Share(A, owned), Share(B, owned'), {a, b})
    BY <1>5, <1>11 DEF Agree, Share
  <2>2. /\ Share(B, owned')[a] = 0 /\ Share(B, owned')[b] = owned[a]
        /\ Share(A, owned)[a] = owned[a] /\ Share(A, owned)[b] = 0
    BY <1>5, <1>11 DEF Share
  <2>3. 0 + owned[a] = owned[a] + 0
    OBVIOUS
  <2>4. Share(B, owned')[a] + Share(B, owned')[b] = Share(A, owned)[a] + Share(A, owned)[b]
    BY <2>2, <2>3
  <2>5. TwoShares(A, owned, B, owned', a, b)
    BY <1>2, <1>5, <2>1, <2>4 DEF TwoShares
  <2>6. SumOf(Share(B, owned')) = SumOf(Share(A, owned))
    BY <2>5, ShareMoves DEF SemAssumption
  <2> QED BY <1>1, <2>6 DEF Conserved, A, B, AttachedIn, Share
<1>13. InPlace'
  <2> SUFFICES ASSUME NEW x \in SemAcqs
               PROVE  PlaceOf(x, semHome, listed', Elements(queue'), st', semParent', owned',
                              pending', waiting', removing)
    BY <1>1, PrimedPlaces DEF Places
  <2>1. CASE x = a
    BY <1>1, <1>5, <1>6, <1>7, <2>1 DEF PlaceOf
  <2>2. CASE x = b
    <3>1. PlaceOf(a, semHome, listed, Elements(queue), st, semParent, owned, pending, waiting,
                  removing)
      BY <1>3
    <3> QED BY <1>1, <1>4, <1>5, <1>6, <1>7, <2>2, <3>1 DEF PlaceOf
  <2>3. CASE x # a /\ x # b
    <3>1. PlaceOf(x, semHome, listed, Elements(queue), st, semParent, owned, pending, waiting,
                  removing)
      BY <1>3
    <3>2. /\ st'[x] = st[x] /\ semParent'[x] = semParent[x] /\ owned'[x] = owned[x]
          /\ pending'[x] = pending[x] /\ (x \in Elements(queue') <=> x \in Elements(queue))
          /\ (x \in waiting' <=> x \in waiting) /\ (x \in listed' <=> x \in listed)
      BY <1>5, <1>6, <1>7, <2>3
    <3> QED BY <3>1, <3>2 DEF PlaceOf
  <2> QED BY <2>1, <2>2, <2>3
<1> QED BY <1>8, <1>9, <1>10, <1>12, <1>13

\* The semaphore as it is constructed.
LEMMA SemInitInv ==
  ASSUME SemAssumption, Sem!Init
  PROVE  SemInv
<1> USE DEF Sem!Init
<1>1. /\ queue \in Seq(SemAcqs) /\ Elements(queue) = {} /\ Distinct(queue)
  BY DEF Elements, Distinct
<1>2. capacity \in Nat /\ MaxCapacity \in Nat
  BY DEF SemAssumption
<1>3. SemTypes
  BY <1>1, <1>2 DEF SemTypes, Sem!Homes
<1>4. InPlace
  BY <1>1 DEF InPlace, Places, PlaceOf
<1>5. Conserved
  <2>1. Share(AttachedIn(st, semParent), owned) = [a \in SemAcqs |-> 0]
    BY DEF Share
  <2>2. SumOf(Share(AttachedIn(st, semParent), owned)) = 0
    BY <2>1, SumOfZeros DEF SemAssumption
  <2>3. capacity = available /\ available \in Nat
    BY <1>2
  <2>4. available = available + 0
    BY <2>3
  <2> QED BY <2>2, <2>3, <2>4 DEF Conserved
<1> QED BY <1>1, <1>3, <1>4, <1>5 DEF SemInv, Sem!PumpedDry

\* combine() is called as its asserts want, and the semaphore is not moved while an
\* acquisition that was combined into another is still in its list.
AsAsserted == Ops \cap {"combinePending", "moveCombined"} = {}

\* Every step keeps the invariant.
LEMMA SemStepKeeps ==
  ASSUME SemAssumption, AsAsserted, SemInv, Sem!Next \/ UNCHANGED Sem!vars
  PROVE  SemInv'
<1>1. "combinePending" \notin Ops /\ "moveCombined" \notin Ops
  BY DEF AsAsserted
<1>2. CASE UNCHANGED Sem!vars
  BY <1>2
  DEF Sem!vars, Sem!acqVars, SemInv, SemTypes, Distinct, InPlace, Places, PlaceOf, Elements,
              Conserved, AttachedIn, Share, Sem!PumpedDry
<1>3. CASE Sem!Next
  BY <1>1, <1>3, StartAcqKeeps, SemWaitKeeps, SemDestroyKeeps, SemReleaseKeeps,
     SemMoveAcqKeeps, CombineKeeps,
     ExtendKeeps, RemoveKeeps, ShrinkKeeps, RemovedKeeps, MoveSemaphoreKeeps DEF Sem!Next
<1> QED BY <1>2, <1>3

\* The invariant is what NothingIsLost says, and more.
LEMMA SemInvImplies ==
  ASSUME SemAssumption, SemInv
  PROVE  Sem!AcqsConsistent /\ Sem!Conservation /\ Sem!PumpedDry
<1> USE DEF SemInv, SemTypes
<1> DEFINE A == AttachedIn(st, semParent)
<1>1. {a \in SemAcqs : Sem!Attached(a)} = A /\ A \in SUBSET SemAcqs /\ IsFiniteSet(SemAcqs)
  BY DEF AttachedIn, Sem!Attached, SemAssumption
<1> HIDE DEF A
<1>2. Sem!MapThenSumSet(LAMBDA a : owned[a], A) = SumOf(Share(A, owned))
  BY <1>1, OwnedIsShares
<1>3. Sem!Conservation
  BY <1>1, <1>2 DEF Sem!Conservation, Conserved, A
<1>4. available \in 0 .. MaxCapacity
  <2>1. PICK s \in Nat : s = SumOf(Share(A, owned))
    BY <1>1, ShareType
  <2>2. capacity = available + s
    BY <2>1 DEF Conserved, A
  <2>3. MaxCapacity \in Nat
    BY DEF SemAssumption
  <2> QED BY <2>2, <2>3
<1>5. Sem!Queued = Elements(queue) /\ Sem!Queued \subseteq SemAcqs
  BY LenProperties DEF Sem!Queued, Elements
<1>6. Sem!TypeOK
  BY <1>4, <1>5 DEF Sem!TypeOK
<1>7. /\ \A a \in SemAcqs : Sem!Attached(a) => semParent[a] = semHome
      /\ \A a \in SemAcqs : Sem!Attached(a) => ((pending[a] > 0) <=> (a \in Sem!Queued))
      /\ \A a \in SemAcqs : Sem!Attached(a) => ((pending[a] = 0) <=> (a \in listed))
      /\ waiting \subseteq Sem!Queued
  BY <1>5 DEF InPlace, Places, PlaceOf, Sem!Attached
<1>8. \A j, k \in DOMAIN queue : queue[j] = queue[k] => j = k
  BY DEF Distinct
<1> HIDE DEF SemInv, SemTypes
<1>9. Sem!AcqsConsistent
  BY <1>6, <1>7, <1>8 DEF Sem!AcqsConsistent
<1> QED BY <1>3, <1>9 DEF SemInv

\* The two halves of ServedInOrder.
InOrder ==
  \A i, j \in DOMAIN queue :
    (i < j /\ pending'[queue[j]] = 0 /\ owned'[queue[j]] > 0)
       => queue[i] \notin {queue'[k] : k \in DOMAIN queue'}

NotPast ==
  \A a \in SemAcqs :
    (Sem!Unused(a) /\ owned'[a] > 0 /\ queue # <<>> /\ available' # available)
       => owned'[a] < pending[Head(queue)]

\* The i-th of q stands before the j-th, and neither is a.
StandsBefore(q, i, j, a) ==
  /\ q \in Seq(SemAcqs) /\ Distinct(q)
  /\ i \in DOMAIN q /\ j \in DOMAIN q
  /\ i < j
  /\ q[i] # a /\ q[j] # a

\* What Without() leaves is in the same order.
LEMMA WithoutOrder ==
  ASSUME NEW q, NEW a, NEW i, NEW j, StandsBefore(q, i, j, a)
  PROVE  \E x, y \in DOMAIN Sem!Without(q, a) :
           x < y /\ Sem!Without(q, a)[x] = q[i] /\ Sem!Without(q, a)[y] = q[j]
<1> USE DEF StandsBefore
<1>1. CASE a \notin Elements(q)
  BY <1>1 DEF Sem!Without, Elements
<1>2. CASE a \in Elements(q)
  <2> DEFINE n == Len(q)
             at == CHOOSE k \in DOMAIN q : q[k] = a
             s == [k \in 1 .. n - 1 |-> q[IF k < at THEN k ELSE k + 1]]
             to(k) == IF k < at THEN k ELSE k - 1
  <2>1. Sem!Without(q, a) = s
    BY <1>2 DEF Sem!Without, Elements
  <2>2. n \in Nat /\ DOMAIN q = 1 .. n
    BY LenProperties
  <2>3. at \in 1 .. n /\ q[at] = a
    BY <1>2, <2>2 DEF Elements
  <2>4. i \in 1 .. n /\ j \in 1 .. n /\ i # at /\ j # at
    BY <2>2, <2>3
  <2> HIDE DEF n, at
  <2>5. ASSUME NEW k \in 1 .. n, k # at
        PROVE  to(k) \in 1 .. n - 1 /\ (IF to(k) < at THEN to(k) ELSE to(k) + 1) = k
    <3>1. CASE k < at
      BY <2>2, <2>3, <3>1
    <3>2. CASE ~ (k < at)
      BY <2>2, <2>3, <2>5, <3>2
    <3> QED BY <3>1, <3>2
  <2>6. to(i) < to(j)
    BY <2>2, <2>3, <2>4
  <2>7. DOMAIN s = 1 .. n - 1 /\ \A k \in 1 .. n - 1 : s[k] = q[IF k < at THEN k ELSE k + 1]
    OBVIOUS
  <2>8. PICK x \in 1 .. n - 1, y \in 1 .. n - 1 : x = to(i) /\ y = to(j)
    BY <2>4, <2>5
  <2>9. s[x] = q[i] /\ s[y] = q[j] /\ x < y
    BY <2>4, <2>5, <2>6, <2>7, <2>8
  <2> HIDE DEF s
  <2> QED BY <2>1, <2>7, <2>9
<1> QED BY <1>1, <1>2

\* What is granted by Pump() was in front of what stays.
LEMMA PumpInOrder ==
  ASSUME SemAssumption,
         NEW av, NEW q, NEW l, NEW own, NEW want, NEW w, PumpArgs(av, q, l, own, want, w),
         Sem!Pump(av, q, l, own, want, w),
         NEW i \in DOMAIN q, NEW j \in DOMAIN q, i < j,
         pending'[q[j]] = 0, want[q[j]] > 0
  PROVE  q[i] \notin Elements(queue')
<1>1. PICK n, G : Pumped(av, q, l, own, want, w, n, G)
  <2>1. IsFiniteSet(SemAcqs) /\ Elements(q) \subseteq Elements(q)
    BY DEF SemAssumption
  <2> QED BY <2>1, PumpGrants
<1>2. DOMAIN q = 1 .. Len(q) /\ Len(q) \in Nat /\ q[j] \in SemAcqs
      /\ want \in [SemAcqs -> Nat] /\ Distinct(q)
  BY LenProperties DEF PumpArgs
<1>3. n \in 0 .. Len(q) /\ G = {q[k] : k \in 1 .. n} /\ Elements(queue') = Elements(q) \ G
      /\ pending'[q[j]] = (IF q[j] \in G THEN 0 ELSE want[q[j]])
  BY <1>1, <1>2 DEF Pumped, Asked
<1>4. q[j] \in G
  BY <1>2, <1>3
<1>5. j \in 1 .. n
  <2>1. PICK k \in 1 .. n : q[k] = q[j]
    BY <1>3, <1>4
  <2>2. k \in DOMAIN q
    BY <1>2, <1>3
  <2> QED BY <1>2, <2>1, <2>2 DEF Distinct
<1>6. i \in 1 .. n
  BY <1>2, <1>3, <1>5
<1> QED BY <1>3, <1>6

\* An acquisition that is not constructed gets nothing.
LEMMA PumpUnused ==
  ASSUME SemAssumption,
         NEW av, NEW q, NEW l, NEW own, NEW want, NEW w, PumpArgs(av, q, l, own, want, w),
         Sem!Pump(av, q, l, own, want, w),
         NEW a \in SemAcqs, a \notin Elements(q), own[a] = 0
  PROVE  owned'[a] = 0
<1>1. PICK n, G : Pumped(av, q, l, own, want, w, n, G)
  <2>1. IsFiniteSet(SemAcqs) /\ Elements(q) \subseteq Elements(q)
    BY DEF SemAssumption
  <2> QED BY <2>1, PumpGrants
<1> QED BY <1>1 DEF Pumped, Given

\* Who is in the queue asks for something; who is not constructed has nothing.
LEMMA QueuedAndUnused ==
  ASSUME SemInv
  PROVE  /\ \A k \in DOMAIN queue : queue[k] \in SemAcqs /\ pending[queue[k]] > 0
            /\ ~ Sem!Unused(queue[k])
         /\ \A a \in SemAcqs : Sem!Unused(a) => owned[a] = 0 /\ a \notin Elements(queue)
         /\ queue # <<>> => Head(queue) \in SemAcqs /\ pending[Head(queue)] > available
<1>1. \A k \in DOMAIN queue : queue[k] \in SemAcqs /\ queue[k] \in Elements(queue)
  BY LenProperties DEF SemInv, SemTypes, Elements
<1>2. \A a \in SemAcqs : PlaceOf(a, semHome, listed, Elements(queue), st, semParent, owned,
                                 pending, waiting, removing)
  BY DEF SemInv, InPlace, Places
<1>3. \A k \in DOMAIN queue : pending[queue[k]] > 0 /\ ~ Sem!Unused(queue[k])
  BY <1>1, <1>2 DEF PlaceOf, Sem!Unused
<1>4. \A a \in SemAcqs : Sem!Unused(a) => owned[a] = 0 /\ a \notin Elements(queue)
  BY <1>2 DEF PlaceOf, Sem!Unused
<1>5. queue # <<>> => Head(queue) \in SemAcqs /\ pending[Head(queue)] > available
  BY DEF SemInv, SemTypes, Sem!PumpedDry
<1> QED BY <1>1, <1>3, <1>4, <1>5

\* A step in which nobody in the queue is granted anything.
LEMMA NobodyGranted ==
  ASSUME SemInv, \A x \in Elements(queue) : pending'[x] = pending[x] \/ owned'[x] = 0
  PROVE  InOrder
<1> SUFFICES ASSUME NEW j \in DOMAIN queue, pending'[queue[j]] = 0, owned'[queue[j]] > 0
             PROVE FALSE
  BY DEF InOrder
<1>1. queue[j] \in Elements(queue)
  BY DEF Elements
<1>2. queue[j] \in SemAcqs /\ pending[queue[j]] > 0
  BY QueuedAndUnused
<1>3. pending[queue[j]] \in Nat
  BY <1>2 DEF SemInv, SemTypes
<1> QED BY <1>1, <1>2, <1>3

\* release() grants in order.
LEMMA ReleaseInOrder ==
  ASSUME SemAssumption, SemInv, NEW a \in SemAcqs, NEW n \in Counts, Sem!Release(a, n)
  PROVE  InOrder /\ NotPast
<1> DEFINE own == [owned EXCEPT ![a] = @ - n]
<1>1. /\ n \in Nat /\ n > 0 /\ n <= owned[a] /\ Sem!Attached(a) /\ owned \in [SemAcqs -> Nat]
      /\ available + n \in Nat
  BY DEF Sem!Release, SemAssumption, SemInv, SemTypes
<1>2. own \in [SemAcqs -> Nat] /\ \A x \in SemAcqs \ {a} : own[x] = owned[x]
  <2>1. owned[a] - n \in Nat
    BY <1>1
  <2> QED BY <1>1, <2>1
<1>3. Sem!Pump(available + n, queue, listed, own, pending, waiting)
  BY DEF Sem!Release
<1> HIDE DEF own
<1>4. PumpArgs(available + n, queue, listed, own, pending, waiting)
  BY <1>1, <1>2 DEF PumpArgs, SemInv, SemTypes
<1>5. ASSUME NEW i \in DOMAIN queue, NEW j \in DOMAIN queue, i < j, pending'[queue[j]] = 0
      PROVE  queue[i] \notin Elements(queue')
  <2>1. pending[queue[j]] > 0
    BY QueuedAndUnused
  <2> QED BY <1>3, <1>4, <1>5, <2>1, PumpInOrder
<1>6. ASSUME NEW x \in SemAcqs, Sem!Unused(x) PROVE owned'[x] = 0
  <2>1. x # a /\ x \notin Elements(queue) /\ own[x] = 0
    BY <1>1, <1>2, <1>6, QueuedAndUnused DEF Sem!Attached, Sem!Unused
  <2> QED BY <1>3, <1>4, <2>1, PumpUnused
<1> QED BY <1>5, <1>6 DEF InOrder, NotPast, Elements

\* extend() does.
LEMMA ExtendInOrder ==
  ASSUME SemAssumption, SemInv, NEW n \in Counts, Sem!Extend(n)
  PROVE  InOrder /\ NotPast
<1>1. available + n \in Nat
  BY DEF SemAssumption, SemInv, SemTypes
<1>2. Sem!Pump(available + n, queue, listed, owned, pending, waiting)
  BY DEF Sem!Extend
<1>3. PumpArgs(available + n, queue, listed, owned, pending, waiting)
  BY <1>1 DEF PumpArgs, SemInv, SemTypes
<1>4. ASSUME NEW i \in DOMAIN queue, NEW j \in DOMAIN queue, i < j, pending'[queue[j]] = 0
      PROVE  queue[i] \notin Elements(queue')
  <2>1. pending[queue[j]] > 0
    BY QueuedAndUnused
  <2> QED BY <1>2, <1>3, <1>4, <2>1, PumpInOrder
<1>5. ASSUME NEW x \in SemAcqs, Sem!Unused(x) PROVE owned'[x] = 0
  <2>1. x \notin Elements(queue) /\ owned[x] = 0
    BY <1>5, QueuedAndUnused
  <2> QED BY <1>2, <1>3, <2>1, PumpUnused
<1> QED BY <1>4, <1>5 DEF InOrder, NotPast, Elements

\* The destructor does, with one less in the queue.
LEMMA DestroyInOrder ==
  ASSUME SemAssumption, SemInv, NEW a \in SemAcqs, Sem!Destroy(a)
  PROVE  InOrder /\ NotPast
<1>1. CASE semParent[a] # Null
  <2> DEFINE own == [owned EXCEPT ![a] = 0]
             want == [pending EXCEPT ![a] = 0]
             q == Sem!Without(queue, a)
             av == available + owned[a]
  <2>1. Sem!Pump(av, q, listed \ {a}, own, want, waiting)
    BY <1>1 DEF Sem!Destroy
  <2>2. q \in Seq(SemAcqs) /\ Distinct(q) /\ Elements(q) = Elements(queue) \ {a}
    BY WithoutProps DEF SemInv, SemTypes
  <2>3. own \in [SemAcqs -> Nat] /\ want \in [SemAcqs -> Nat] /\ av \in Nat
        /\ own[a] = 0 /\ want[a] = 0
        /\ \A x \in SemAcqs \ {a} : own[x] = owned[x] /\ want[x] = pending[x]
    BY DEF SemInv, SemTypes
  <2> HIDE DEF q, own, want, av
  <2>4. PumpArgs(av, q, listed \ {a}, own, want, waiting)
    BY <2>2, <2>3 DEF PumpArgs
  <2>5. ASSUME NEW x \in SemAcqs, Sem!Unused(x) \/ x = a PROVE owned'[x] = 0
    <3>1. x \notin Elements(q) /\ own[x] = 0
      BY <2>2, <2>3, <2>5, QueuedAndUnused
    <3> QED BY <2>1, <2>4, <3>1, PumpUnused
  <2>6. ASSUME NEW i \in DOMAIN queue, NEW j \in DOMAIN queue, i < j, pending'[queue[j]] = 0,
               owned'[queue[j]] > 0
        PROVE  queue[i] \notin Elements(queue')
    <3>1. queue[j] \in SemAcqs /\ pending[queue[j]] > 0
      BY QueuedAndUnused
    <3>2. queue[j] # a
      BY <2>5, <2>6
    <3>3. CASE queue[i] = a
      <4>1. PICK n, G : Pumped(av, q, listed \ {a}, own, want, waiting, n, G)
        <5>1. IsFiniteSet(SemAcqs) /\ Elements(q) \subseteq Elements(q)
          BY DEF SemAssumption
        <5> QED BY <2>1, <2>4, <5>1, PumpGrants
      <4> QED BY <2>2, <3>3, <4>1 DEF Pumped
    <3>4. CASE queue[i] # a
      <4>1. PICK x \in DOMAIN q, y \in DOMAIN q : x < y /\ q[x] = queue[i] /\ q[y] = queue[j]
        <5>1. queue \in Seq(SemAcqs) /\ Distinct(queue)
          BY DEF SemInv, SemTypes
        <5>2. \E x, y \in DOMAIN Sem!Without(queue, a) :
                x < y /\ Sem!Without(queue, a)[x] = queue[i]
                /\ Sem!Without(queue, a)[y] = queue[j]
          <6>1. StandsBefore(queue, i, j, a)
            BY <2>6, <3>2, <3>4, <5>1 DEF StandsBefore
          <6> QED BY <6>1, WithoutOrder
        <5> QED BY <5>2 DEF q
      <4>2. want[q[y]] > 0 /\ pending'[q[y]] = 0
        BY <2>3, <2>6, <3>1, <3>2, <4>1
      <4> QED BY <2>1, <2>4, <4>1, <4>2, PumpInOrder
    <3> QED BY <3>3, <3>4
  <2> QED BY <2>5, <2>6 DEF InOrder, NotPast, Elements
<1>2. CASE semParent[a] = Null
  <2>1. pending' = pending /\ owned' = owned
    BY <1>2 DEF Sem!Destroy
  <2> QED BY <2>1, NobodyGranted, QueuedAndUnused DEF NotPast
<1> QED BY <1>1, <1>2

\* start_acq() takes only what those in the queue could not use.
LEMMA ConstructInOrder ==
  ASSUME SemInv, NEW a \in SemAcqs, NEW n \in Nat \ {0}, Sem!Unused(a), Sem!Construct(a, n)
  PROVE  InOrder /\ NotPast
<1>1. a \notin Elements(queue) /\ \A x \in Elements(queue) : x \in SemAcqs
  BY QueuedAndUnused DEF Elements
<1>2. \A x \in SemAcqs \ {a} : pending'[x] = pending[x] /\ owned'[x] = owned[x]
  BY DEF Sem!Construct, SemInv, SemTypes
<1>3. owned'[a] = (IF available >= n THEN n ELSE 0)
  BY DEF Sem!Construct, SemInv, SemTypes
<1>4. InOrder
  BY <1>1, <1>2, NobodyGranted
<1>5. NotPast
  <2> SUFFICES ASSUME NEW x \in SemAcqs, Sem!Unused(x), owned'[x] > 0, queue # <<>>
               PROVE  owned'[x] < pending[Head(queue)]
    BY DEF NotPast
  <2>1. x = a
    BY <1>2, QueuedAndUnused
  <2>2. available >= n /\ owned'[x] = n
    BY <1>3, <2>1
  <2>3. PICK v \in Nat : v = pending[Head(queue)] /\ v > available /\ available \in Nat
    BY QueuedAndUnused DEF SemInv, SemTypes
  <2>4. n < v
    BY <2>2, <2>3
  <2> QED BY <2>2, <2>3, <2>4
<1> QED BY <1>4, <1>5

\* Every step does.
LEMMA SemStepInOrder ==
  ASSUME SemAssumption, SemInv, Sem!Next
  PROVE  InOrder /\ NotPast
<1>1. ASSUME NEW a \in SemAcqs, NEW n \in Counts, Sem!StartAcq(a, n) \/ Sem!Shrink(a, n)
      PROVE  InOrder /\ NotPast
  <2>1. n \in Nat \ {0} /\ Sem!Unused(a)
    BY <1>1 DEF Sem!StartAcq, Sem!Shrink, SemAssumption
  <2>2. CASE Sem!Construct(a, n)
    BY <2>1, <2>2, ConstructInOrder
  <2>3. CASE pending' = pending /\ owned' = owned
    BY <2>3, NobodyGranted, QueuedAndUnused DEF NotPast
  <2> QED BY <1>1, <2>2, <2>3 DEF Sem!StartAcq, Sem!Shrink
<1>2. ASSUME NEW a \in SemAcqs, Sem!Wait(a) \/ Sem!Interrupt(a) \/ Sem!Remove(a) \/ Sem!Removed(a) \/ Sem!MoveSemaphore
      PROVE  InOrder /\ NotPast
  <2>1. pending' = pending /\ (owned' = owned \/ owned' = [owned EXCEPT ![a] = 0])
    BY <1>2
    DEF Sem!Wait, Sem!Interrupt, Sem!Remove, Sem!Removed, Sem!Cut, Sem!MoveSemaphore,
        Sem!acqVars
  <2>2. InOrder
    BY <2>1, NobodyGranted
  <2>3. \A x \in SemAcqs : Sem!Unused(x) => owned'[x] = 0
    BY <2>1, QueuedAndUnused DEF SemInv, SemTypes
  <2> QED BY <2>2, <2>3 DEF NotPast
<1>3. ASSUME Sem!MoveSemaphore PROVE InOrder /\ NotPast
  <2>1. pending' = pending /\ owned' = owned
    BY <1>3 DEF Sem!MoveSemaphore
  <2> QED BY <2>1, NobodyGranted, QueuedAndUnused DEF NotPast
<1>4. ASSUME NEW a \in SemAcqs, NEW b \in SemAcqs, Sem!MoveAcq(a, b) PROVE InOrder /\ NotPast
  <2>1. /\ Sem!Unused(b) /\ available' = available
        /\ owned' = [owned EXCEPT ![a] = 0, ![b] = owned[a]]
        /\ pending' = [pending EXCEPT ![a] = 0, ![b] = pending[a]]
        /\ a # b
    BY <1>4 DEF Sem!MoveAcq, Sem!Attached, Sem!Unused
  <2>2. owned'[a] = 0 /\ \A x \in SemAcqs \ {a, b} : pending'[x] = pending[x]
    BY <2>1 DEF SemInv, SemTypes
  <2>3. \A x \in Elements(queue) : x \in SemAcqs /\ x # b
    BY <2>1, QueuedAndUnused DEF Elements
  <2>4. InOrder
    BY <2>2, <2>3, NobodyGranted
  <2> QED BY <2>1, <2>4 DEF NotPast
<1>5. ASSUME NEW a \in SemAcqs, NEW b \in SemAcqs, Sem!Combine(a, b) PROVE InOrder /\ NotPast
  <2>1. pending' = pending /\ available' = available
    BY <1>5 DEF Sem!Combine
  <2> QED BY <2>1, NobodyGranted DEF NotPast
<1> QED BY <1>1, <1>2, <1>3, <1>4, <1>5, ReleaseInOrder, ExtendInOrder, DestroyInOrder DEF Sem!Next

-----------------------------------------------------------------------------
\* The theorems about the semaphore.

\* The invariant in every behaviour of the lock objects: the mutex and the drainer
\* leave the semaphore alone.
THEOREM SemaphoreInvariant == ASSUME AsAsserted PROVE ObjectsSpec => []SemInv
<1>1. ObjectsInit => SemInv
  BY SemAssumed, SemInitInv DEF ObjectsInit
<1>2. SemInv /\ [ObjectsNext]_objectVars => SemInv'
  <2> SUFFICES ASSUME SemInv, [ObjectsNext]_objectVars PROVE SemInv'
    OBVIOUS
  <2>1. Sem!Next \/ UNCHANGED Sem!vars
    BY DEF ObjectsNext, OfMutex, OfDrainer, OfSemaphore, objectVars, semVars, Sem!vars,
           Sem!acqVars
  <2> QED BY <2>1, SemAssumed, SemStepKeeps
<1> QED BY <1>1, <1>2, PTL DEF ObjectsSpec

\* Whatever is released, combined, moved, given up while pending or resized, what is
\* available and what is owned make up the capacity, every acquisition is in the list
\* its state says, and pump_waiters() has left nobody waiting for what is there.
THEOREM SemaphoreLosesNothing == ASSUME AsAsserted PROVE ObjectsSpec => []NothingIsLost
<1>1. SemInv => NothingIsLost
  BY SemAssumed, SemInvImplies DEF NothingIsLost
<1> QED BY <1>1, SemaphoreInvariant, PTL

\* Pending acquisitions are granted in the order of the queue, and whoever gets past
\* them asked for less than the first of them.
THEOREM SemaphoreServesInOrder == ASSUME AsAsserted PROVE ObjectsSpec => ServedInOrder
<1>1. SemInv /\ [ObjectsNext]_objectVars => [InOrder /\ NotPast]_Sem!vars
  <2> SUFFICES ASSUME SemInv, [ObjectsNext]_objectVars PROVE [InOrder /\ NotPast]_Sem!vars
    OBVIOUS
  <2>1. Sem!Next \/ UNCHANGED Sem!vars
    BY DEF ObjectsNext, OfMutex, OfDrainer, OfSemaphore, objectVars, semVars, Sem!vars,
           Sem!acqVars
  <2> QED BY <2>1, SemAssumed, SemStepInOrder
<1> QED
  BY <1>1, SemaphoreInvariant, PTL
     DEF ObjectsSpec, ServedInOrder, Sem!ServedInOrder, InOrder, NotPast

=============================================================================
