---------------------------- MODULE MessagesProofs ----------------------------
(***************************************************************************)
(* What threads tell each other, for any threads, callers, writers and     *)
(* number of calls and writes.                                             *)
(*                                                                         *)
(* flip_buffer_t and the cross-thread mutex under it, provided that no     *)
(* writer is interrupted while the threads flip for it.  The invariant     *)
(* ties the list of acquisitions to where the writers are, and the buffer  *)
(* of each thread to the writer that is inside.                            *)
(*                                                                         *)
(* message_hub_t.  A request with a reply is on its way, as a message, a   *)
(* task or the message of the reply, in exactly one place while its        *)
(* promise is open, and nowhere after it: that is why a promise is         *)
(* fulfilled once and with the answer to its own request, though requests  *)
(* and replies of all callers overtake each other and no entry of          *)
(* m_replies is ever erased.                                               *)
(*                                                                         *)
(* The serializer of integers, for every width and either sign: its        *)
(* recursive functions exist, what is left of the number after k bytes     *)
(* fits into those before them, and the first bytes stand for it.          *)
(***************************************************************************)
EXTENDS FlipBuffer, Hub, IntegerCodec, FiniteSums, SequenceTheorems, TLAPS

Buffers == {"A", "B"}
Inside == {"write", "flip", "copy"}
Listed == Inside \cup {"wait", "release"}
Places == Listed \cup {"idle", "enter", "notify", "exit"}

Shapes ==
  /\ home \in [Writers -> CtThreads]
  /\ locks \in Seq(Writers)
  /\ has \in [Writers -> BOOLEAN]
  /\ notices \in [Writers -> Nat]
  /\ current \in [CtThreads -> Buffers]
  /\ contents \in [Buffers -> Nat]
  /\ pc \in [Writers -> Places]
  /\ new \in [Writers -> Buffers]
  /\ flips \in [Writers -> SUBSET CtThreads]
  /\ next \in [Writers -> Writers \cup {Nobody}]

Distinct(q) == \A i, j \in DOMAIN q : q[i] = q[j] => i = j

\* An acquisition is in the list while its writer is between its constructor and
\* its destructor, and whoever is inside has the mutex.
LocksInv ==
  /\ Distinct(locks)
  /\ \A w \in Writers : Exists(w) <=> pc[w] \in Listed
  /\ \A w \in Writers : pc[w] \in Inside => has[w]
  /\ \A w \in Writers : next[w] # Nobody => pc[w] = "notify"
  /\ MutexIsHandedOn

\* The threads read the old buffer of the writer that is inside, until they have
\* flipped for it.
CurrentInv(w) ==
  /\ flips[w] # {} => pc[w] = "flip"
  /\ pc[w] = "write" => \A t \in CtThreads : current[t] = Other(new[w])
  /\ pc[w] = "flip" => \A t \in CtThreads :
                         current[t] = IF t \in flips[w] THEN Other(new[w]) ELSE new[w]
  /\ pc[w] = "copy" => \A t \in CtThreads : current[t] = new[w]

BuffersInv ==
  /\ \A w \in Writers : CurrentInv(w)
  /\ BuffersAgree

Inv == Shapes /\ LocksInv /\ BuffersInv

-----------------------------------------------------------------------------
\* Sequences.

\* Removing the i-th of a sequence keeps the order of the others.
LEMMA RemoveAtProps ==
  ASSUME NEW S, NEW q \in Seq(S), NEW i \in DOMAIN q
  PROVE  /\ RemoveAt(q, i) \in Seq(S)
         /\ Len(RemoveAt(q, i)) = Len(q) - 1
         /\ \A k \in 1 .. Len(q) - 1 :
              RemoveAt(q, i)[k] = IF k < i THEN q[k] ELSE q[k + 1]
<1> DEFINE front == SubSeq(q, 1, i - 1)
           back == SubSeq(q, i + 1, Len(q))
<1>1. Len(q) \in Nat /\ i \in 1 .. Len(q) /\ \A k \in 1 .. Len(q) : q[k] \in S
  OBVIOUS
<1>2. /\ front \in Seq(S) /\ Len(front) = i - 1
      /\ \A k \in 1 .. i - 1 : front[k] = q[k]
  BY <1>1, SubSeqProperties
<1>3. /\ back \in Seq(S) /\ Len(back) = Len(q) - i
      /\ \A k \in 1 .. Len(q) - i : back[k] = q[i + k]
  BY <1>1, SubSeqProperties
<1> HIDE DEF front, back
<1>4. /\ front \o back \in Seq(S)
      /\ Len(front \o back) = Len(front) + Len(back)
      /\ \A k \in 1 .. Len(front) + Len(back) :
           (front \o back)[k] = IF k <= Len(front) THEN front[k] ELSE back[k - Len(front)]
  BY <1>2, <1>3, ConcatProperties, Zenon
<1>5. ASSUME NEW k \in 1 .. Len(q) - 1
      PROVE  (front \o back)[k] = IF k < i THEN q[k] ELSE q[k + 1]
  <2>1. k \in 1 .. Len(front) + Len(back)
    BY <1>1, <1>2, <1>3, SMTT(40)
  <2>2. (front \o back)[k] = IF k <= Len(front) THEN front[k] ELSE back[k - Len(front)]
    BY <1>4, <2>1
  <2>3. CASE k < i
    BY <1>1, <1>2, <2>2, <2>3
  <2>4. CASE ~ (k < i)
    <3>1. k - (i - 1) \in 1 .. Len(q) - i /\ ~ (k <= Len(front)) /\ i + (k - (i - 1)) = k + 1
      BY <1>1, <1>2, <2>4
    <3> QED
      BY <1>2, <1>3, <2>2, <2>4, <3>1
  <2> QED
    BY <2>3, <2>4
<1>6. RemoveAt(q, i) = front \o back
  BY DEF RemoveAt, front, back
<1>7. Len(front \o back) = Len(q) - 1
  BY <1>1, <1>2, <1>3, <1>4
<1> QED
  BY <1>4, <1>5, <1>6, <1>7

\* What release_lock() leaves of the list: the i-th is gone, for one i.
LEMMA RemoveLockProps ==
  ASSUME locks \in Seq(Writers), NEW w \in Writers, Exists(w), RemoveLock(w)
  PROVE  \E i \in DOMAIN locks :
           /\ locks[i] = w
           /\ IsFront(w) => i = 1
           /\ locks' \in Seq(Writers)
           /\ Len(locks') = Len(locks) - 1
           /\ \A k \in 1 .. Len(locks) - 1 :
                locks'[k] = IF k < i THEN locks[k] ELSE locks[k + 1]
<1>1. CASE IsFront(w)
  <2>1. locks # <<>> /\ locks[1] = w /\ locks' = Tail(locks)
    BY <1>1 DEF RemoveLock, IsFront
  <2> QED
    BY <2>1
<1>2. CASE ~ IsFront(w)
  <2>1. PICK i \in DOMAIN locks : locks[i] = w /\ locks' = RemoveAt(locks, i)
    BY <1>2 DEF RemoveLock
  <2> QED
    BY <1>2, <2>1, RemoveAtProps
<1> QED
  BY <1>1, <1>2

\* The list after add_lock() and after release_lock().
LEMMA AddLockProps ==
  ASSUME locks \in Seq(Writers), Distinct(locks), NEW w \in Writers, ~ Exists(w), AddLock(w)
  PROVE  /\ locks' \in Seq(Writers) /\ Distinct(locks)' /\ locks' # <<>>
         /\ \A v \in Writers : Exists(v)' <=> Exists(v) \/ v = w
         /\ locks = <<>> => Head(locks') = w
         /\ locks # <<>> => Head(locks') = Head(locks)
<1>1. /\ locks' = Append(locks, w) /\ locks' \in Seq(Writers)
      /\ Len(locks) \in Nat /\ Len(locks') = Len(locks) + 1
      /\ \A k \in 1 .. Len(locks) : locks'[k] = locks[k]
      /\ locks'[Len(locks) + 1] = w
  BY DEF AddLock
<1>2. \A k \in 1 .. Len(locks) : locks[k] # w
  BY DEF Exists, ToSet
<1>3. Distinct(locks)'
  BY <1>1, <1>2 DEF Distinct
<1>4. \A v \in Writers : Exists(v)' <=> Exists(v) \/ v = w
  BY <1>1 DEF Exists, ToSet
<1> QED
  BY <1>1, <1>3, <1>4

LEMMA ReleasedProps ==
  ASSUME locks \in Seq(Writers), Distinct(locks), NEW w \in Writers, Exists(w), RemoveLock(w)
  PROVE  /\ locks' \in Seq(Writers) /\ Distinct(locks)'
         /\ \A v \in Writers : Exists(v)' <=> Exists(v) /\ v # w
         /\ ~ IsFront(w) => locks' # <<>> /\ Head(locks') = Head(locks)
         /\ IsFront(w) /\ locks' # <<>> => Successor(w) = Head(locks')
         /\ Successor(w) \in Writers \cup {Nobody}
<1>1. PICK i \in DOMAIN locks :
           /\ locks[i] = w
           /\ IsFront(w) => i = 1
           /\ locks' \in Seq(Writers)
           /\ Len(locks') = Len(locks) - 1
           /\ \A k \in 1 .. Len(locks) - 1 :
                locks'[k] = IF k < i THEN locks[k] ELSE locks[k + 1]
  BY RemoveLockProps
<1>2. Len(locks) \in Nat /\ DOMAIN locks = 1 .. Len(locks) /\ DOMAIN locks' = 1 .. Len(locks) - 1
  BY <1>1
<1>3. Distinct(locks)'
  <2> DEFINE was(k) == IF k < i THEN k ELSE k + 1
  <2>1. \A k \in 1 .. Len(locks) - 1 : was(k) \in DOMAIN locks /\ locks'[k] = locks[was(k)]
    BY <1>1, <1>2
  <2>2. \A j, k \in 1 .. Len(locks) - 1 : was(j) = was(k) => j = k
    BY <1>2
  <2> HIDE DEF was
  <2> QED
    BY <1>2, <2>1, <2>2 DEF Distinct
<1>4. ASSUME NEW v \in Writers PROVE Exists(v)' <=> Exists(v) /\ v # w
  <2>1. ASSUME Exists(v)' PROVE Exists(v) /\ v # w
    <3>1. PICK k \in 1 .. Len(locks) - 1 : locks'[k] = v
      BY <1>2, <2>1 DEF Exists, ToSet
    <3> QED
      BY <1>1, <1>2, <3>1 DEF Exists, ToSet, Distinct
  <2>2. ASSUME Exists(v), v # w PROVE Exists(v)'
    <3>1. PICK k \in 1 .. Len(locks) : locks[k] = v
      BY <1>2, <2>2 DEF Exists, ToSet
    <3>2. CASE k < i
      BY <1>1, <1>2, <3>1, <3>2 DEF Exists, ToSet
    <3>3. CASE k > i
      <4>1. k - 1 \in 1 .. Len(locks) - 1 /\ locks'[k - 1] = v
        BY <1>1, <1>2, <3>1, <3>3
      <4> QED
        BY <1>2, <4>1 DEF Exists, ToSet
    <3> QED
      BY <1>1, <1>2, <2>2, <3>1, <3>2, <3>3
  <2> QED
    BY <2>1, <2>2
<1>5. ~ IsFront(w) => locks' # <<>> /\ Head(locks') = Head(locks)
  BY <1>1, <1>2 DEF IsFront
<1>6. IsFront(w) /\ locks' # <<>> => Successor(w) = Head(locks')
  BY <1>1, <1>2 DEF Successor
<1>7. Successor(w) \in Writers \cup {Nobody}
  BY <1>2 DEF Successor
<1> QED
  BY <1>1, <1>3, <1>4, <1>5, <1>6, <1>7

-----------------------------------------------------------------------------
\* The mutex excludes: two writers are not inside at once.
LEMMA OneInside ==
  ASSUME Inv, NEW v \in Writers, NEW w \in Writers,
         pc[v] \in Inside, pc[w] \in Inside
  PROVE  v = w
BY DEF Inv, LocksInv, MutexIsHandedOn, FrontIsServed, IsFront

\* While a writer has the mutex and is not inside yet, nobody is.
LEMMA NobodyInside ==
  ASSUME Inv, NEW w \in Writers, pc[w] \notin Inside,
         locks = <<>> \/ has[w],
         NEW v \in Writers
  PROVE  pc[v] \notin Inside /\ flips[v] = {}
<1>1. pc[v] \notin Inside
  BY DEF Inv, LocksInv, MutexIsHandedOn, FrontIsServed, IsFront
<1> QED
  BY <1>1 DEF Inv, BuffersInv, CurrentInv, Inside

\* Then the threads agree on their buffer, and both buffers have every write.
LEMMA AgreeWhenNobodyInside ==
  ASSUME Inv, \A v \in Writers : pc[v] \notin Inside /\ flips[v] = {}
  PROVE  /\ \A t, u \in CtThreads : current[t] = current[u]
         /\ contents["A"] = contents["B"]
BY DEF Inv, BuffersInv, BuffersAgree, Inside

\* A step that leaves the buffers alone, and moves one writer between places that
\* are not inside, keeps the part of the invariant that is about them.
LEMMA OutsideStep ==
  ASSUME Inv, NEW w \in Writers, pc[w] \notin Inside,
         NEW p \in Places \ Inside, pc' = [pc EXCEPT ![w] = p],
         \A v \in Writers : v # w => new'[v] = new[v],
         UNCHANGED <<current, contents, flips>>
  PROVE  BuffersInv'
<1>1. \A v \in Writers : pc'[v] \in Inside => pc[v] \in Inside /\ v # w
  BY DEF Inv, Shapes
<1>2. \A v \in Writers : v # w => pc'[v] = pc[v]
  BY DEF Inv, Shapes
<1>3. ASSUME NEW v \in Writers PROVE CurrentInv(v)'
  <2>1. CASE v = w
    <3>1. flips[w] = {} /\ pc'[w] = p
      BY DEF Inv, Shapes, BuffersInv, CurrentInv, Inside
    <3> QED
      BY <2>1, <3>1 DEF CurrentInv, Inside
  <2>2. CASE v # w
    BY <2>2, <1>2 DEF Inv, BuffersInv, CurrentInv
  <2> QED
    BY <2>1, <2>2
<1>4. BuffersAgree'
  <2> SUFFICES ASSUME \A v \in Writers : pc'[v] \notin Inside /\ flips'[v] = {}
               PROVE  /\ \A t, u \in CtThreads : current[t] = current[u]
                      /\ contents["A"] = contents["B"]
    BY DEF BuffersAgree, Inside
  <2>1. \A v \in Writers : pc[v] \notin Inside
    BY <1>2
  <2> QED
    BY <2>1, AgreeWhenNobodyInside
<1> QED
  BY <1>3, <1>4 DEF BuffersInv

\* So does a step in which a writer that has the mutex picks its buffer.
LEMMA EnterStep ==
  ASSUME Inv, NEW w \in Writers, pc[w] \notin Inside, locks = <<>> \/ has[w],
         pc' = [pc EXCEPT ![w] = "write"],
         new' = [new EXCEPT ![w] = Other(current[home[w]])],
         UNCHANGED <<current, contents, flips>>
  PROVE  BuffersInv'
<1>1. \A v \in Writers : pc[v] \notin Inside /\ flips[v] = {}
  BY NobodyInside
<1>2. \A v \in Writers : pc'[v] = IF v = w THEN "write" ELSE pc[v]
  BY DEF Inv, Shapes
<1>3. \A t \in CtThreads : current[t] = Other(new'[w])
  <2>1. new'[w] = Other(current[home[w]]) /\ home[w] \in CtThreads
    BY DEF Inv, Shapes
  <2>2. \A t \in CtThreads : current[t] = current[home[w]] /\ current[t] \in Buffers
    BY <1>1, <2>1, AgreeWhenNobodyInside DEF Inv, Shapes
  <2> QED
    BY <2>1, <2>2 DEF Other, Buffers
<1>4. \A v \in Writers : CurrentInv(v)'
  BY <1>1, <1>2, <1>3 DEF CurrentInv, Inside
<1>5. BuffersAgree'
  BY <1>2 DEF BuffersAgree
<1> QED
  BY <1>4, <1>5 DEF BuffersInv

-----------------------------------------------------------------------------
LEMMA InvInit == FlipInit => Inv
<1> SUFFICES ASSUME FlipInit PROVE Inv
  OBVIOUS
<1>1. Shapes
  BY DEF FlipInit, LocksInit, Shapes, Buffers, Places
<1>2. LocksInv
  BY DEF FlipInit, LocksInit, LocksInv, Distinct, Exists, ToSet, Listed, Inside,
     MutexIsHandedOn,
         FrontIsServed, IsFront
<1>3. BuffersInv
  BY DEF FlipInit, BuffersInv, CurrentInv, BuffersAgree
<1> QED
  BY <1>1, <1>2, <1>3 DEF Inv

\* Entering apply_write(), leaving it, and reading, touch neither list nor buffers.
LEMMA BeginStep ==
  ASSUME Inv, NEW w \in Writers, Begin(w)
  PROVE  Inv'
<1>1. pc[w] = "idle" /\ pc' = [pc EXCEPT ![w] = "enter"]
  BY DEF Begin, Goes
<1>2. UNCHANGED <<home, locks, has, notices, current, contents, new, flips, next>>
  BY DEF Begin, lockVars
<1>3. Shapes'
  BY <1>1, <1>2 DEF Inv, Shapes, Places
<1>4. LocksInv'
  BY <1>1, <1>2 DEF Inv, Shapes, LocksInv, Exists, MutexIsHandedOn, FrontIsServed, IsFront,
                    Listed, Inside
<1>5. BuffersInv'
  BY <1>1, <1>2, OutsideStep DEF Places, Listed, Inside
<1> QED
  BY <1>3, <1>4, <1>5 DEF Inv

LEMMA AcquireStep ==
  ASSUME Inv, NEW w \in Writers, Acquire(w)
  PROVE  Inv'
<1>1. /\ pc[w] = "enter" /\ AddLock(w) /\ ~ Exists(w)
      /\ new' = [new EXCEPT ![w] = Other(current[home[w]])]
      /\ UNCHANGED <<home, notices, current, contents, flips, next>>
  BY DEF Acquire, AddLock, Inv, Shapes, LocksInv, Listed, Inside
<1>2. has' = [has EXCEPT ![w] = locks = <<>>]
  BY <1>1 DEF AddLock
<1>3. pc' = [pc EXCEPT ![w] = IF locks = <<>> THEN "write" ELSE "wait"]
  BY <1>2 DEF Acquire, Goes, Inv, Shapes
<1>4. /\ locks' \in Seq(Writers) /\ Distinct(locks)' /\ locks' # <<>>
      /\ \A v \in Writers : Exists(v)' <=> Exists(v) \/ v = w
      /\ locks = <<>> => Head(locks') = w
      /\ locks # <<>> => Head(locks') = Head(locks)
  BY <1>1, AddLockProps DEF Inv, Shapes, LocksInv
<1>5. ~ has[w]
  BY <1>1 DEF Inv, Shapes, LocksInv, MutexIsHandedOn, FrontIsServed, IsFront, Exists, ToSet
<1>6. Shapes'
  BY <1>1, <1>2, <1>3, <1>4 DEF Inv, Shapes, Places, Listed, Inside, Buffers, Other
<1>7. LocksInv'
  <2>1. \A v \in Writers : Exists(v)' <=> pc'[v] \in Listed
    BY <1>1, <1>3, <1>4 DEF Inv, Shapes, LocksInv, Listed, Inside
  <2>2. \A v \in Writers : pc'[v] \in Inside => has'[v]
    BY <1>2, <1>3 DEF Inv, Shapes, LocksInv, Inside
  <2>3. \A v \in Writers : next'[v] # Nobody => pc'[v] = "notify"
    BY <1>1, <1>3 DEF Inv, Shapes, LocksInv
  <2>4. \A v \in Writers : has'[v] => IsFront(v)'
    BY <1>2, <1>4 DEF Inv, Shapes, LocksInv, MutexIsHandedOn, FrontIsServed, IsFront
  <2>5. has'[Head(locks')] \/ notices'[Head(locks')] > 0
        \/ Head(locks') \in {next'[v] : v \in Writers}
    <3>1. CASE locks = <<>>
      BY <1>2, <1>4, <3>1 DEF Inv, Shapes
    <3>2. CASE locks # <<>>
      <4>1. Head(locks) # w
        BY <1>1, <3>2 DEF Inv, Shapes, Exists, ToSet
      <4>2. Head(locks) \in Writers
        BY <3>2 DEF Inv, Shapes
      <4>3. has'[Head(locks)] = has[Head(locks)]
        BY <1>2, <4>1, <4>2 DEF Inv, Shapes
      <4>4. \/ has[Head(locks)] \/ notices[Head(locks)] > 0
            \/ Head(locks) \in {next[v] : v \in Writers}
        BY <3>2 DEF Inv, LocksInv, MutexIsHandedOn, FrontIsServed
      <4>5. Head(locks') = Head(locks) /\ notices' = notices /\ next' = next
        BY <1>1, <1>4, <3>2
      <4> QED
        BY <4>3, <4>4, <4>5
    <3> QED
      BY <3>1, <3>2
  <2> QED
    BY <1>4, <2>1, <2>2, <2>3, <2>4, <2>5 DEF LocksInv, MutexIsHandedOn, FrontIsServed
<1>8. BuffersInv'
  <2>1. CASE locks # <<>>
    BY <1>1, <1>3, <2>1, OutsideStep DEF Places, Listed, Inside, Inv, Shapes
  <2>2. CASE locks = <<>>
    BY <1>1, <1>3, <2>2, EnterStep DEF Inside
  <2> QED
    BY <2>1, <2>2
<1> QED
  BY <1>6, <1>7, <1>8 DEF Inv

\* A message for the front makes it the owner; any other changes nothing.
LEMMA DeliverStep ==
  ASSUME Inv, NEW w \in Writers, Deliver(w)
  PROVE  Inv'
<1>1. /\ notices[w] > 0
      /\ notices' = [notices EXCEPT ![w] = @ - 1]
      /\ has' = [has EXCEPT ![w] = @ \/ IsFront(w)]
      /\ UNCHANGED <<home, locks, current, contents, pc, new, flips, next>>
  BY DEF Deliver, Notified, flipVars
<1>2. Shapes'
  BY <1>1 DEF Inv, Shapes
<1>3. LocksInv'
  <2>1. \A v \in Writers : has'[v] <=> has[v] \/ (v = w /\ IsFront(w))
    BY <1>1 DEF Inv, Shapes
  <2>2. \A v \in Writers : v # w => notices'[v] = notices[v]
    BY <1>1 DEF Inv, Shapes
  <2>3. Distinct(locks)' /\ (\A v \in Writers : Exists(v)' <=> pc'[v] \in Listed)
    BY <1>1 DEF Inv, LocksInv, Distinct, Exists
  <2>4. \A v \in Writers : pc'[v] \in Inside => has'[v]
    BY <1>1, <2>1 DEF Inv, LocksInv
  <2>5. \A v \in Writers : next'[v] # Nobody => pc'[v] = "notify"
    BY <1>1 DEF Inv, LocksInv
  <2>6. \A v \in Writers : has'[v] => IsFront(v)'
    BY <1>1, <2>1 DEF Inv, LocksInv, MutexIsHandedOn, FrontIsServed, IsFront
  <2>7. locks' # <<>> => has'[Head(locks')] \/ notices'[Head(locks')] > 0
                         \/ Head(locks') \in {next'[v] : v \in Writers}
    <3> SUFFICES ASSUME locks # <<>>
                 PROVE  has'[Head(locks)] \/ notices'[Head(locks)] > 0
                        \/ Head(locks) \in {next[v] : v \in Writers}
      BY <1>1
    <3>1. Head(locks) \in Writers
      BY DEF Inv, Shapes
    <3>2. CASE Head(locks) = w
      BY <2>1, <3>1, <3>2 DEF IsFront
    <3>3. CASE Head(locks) # w
      BY <2>1, <2>2, <3>1, <3>3 DEF Inv, LocksInv, MutexIsHandedOn, FrontIsServed
    <3> QED
      BY <3>2, <3>3
  <2> QED
    BY <2>3, <2>4, <2>5, <2>6, <2>7 DEF LocksInv, MutexIsHandedOn, FrontIsServed
<1>4. BuffersInv'
  BY <1>1 DEF Inv, BuffersInv, CurrentInv, BuffersAgree
<1> QED
  BY <1>2, <1>3, <1>4 DEF Inv

LEMMA ResumeStep ==
  ASSUME Inv, NEW w \in Writers, Resume(w)
  PROVE  Inv'
<1>1. /\ pc[w] = "wait" /\ has[w]
      /\ pc' = [pc EXCEPT ![w] = "write"]
      /\ new' = [new EXCEPT ![w] = Other(current[home[w]])]
      /\ UNCHANGED <<home, locks, has, notices, current, contents, flips, next>>
  BY DEF Resume, Goes, lockVars
<1>2. Shapes'
  BY <1>1 DEF Inv, Shapes, Places, Listed, Inside, Buffers, Other
<1>3. LocksInv'
  BY <1>1 DEF Inv, Shapes, LocksInv, Exists, MutexIsHandedOn, FrontIsServed, IsFront,
              Listed, Inside
<1>4. BuffersInv'
  BY <1>1, EnterStep DEF Inside
<1> QED
  BY <1>2, <1>3, <1>4 DEF Inv

\* Only the wait for the mutex is interrupted, and only before it was granted.
LEMMA InterruptStep ==
  ASSUME Inv, "flip" \notin Interruptible, NEW w \in Writers, Interrupt(w)
  PROVE  Inv'
<1>1. /\ pc[w] = "wait"
      /\ pc' = [pc EXCEPT ![w] = "release"]
      /\ UNCHANGED <<home, locks, has, notices, current, contents, new, flips, next>>
  BY DEF Interrupt, Goes, lockVars
<1>2. Shapes'
  BY <1>1 DEF Inv, Shapes, Places, Listed
<1>3. LocksInv'
  BY <1>1 DEF Inv, Shapes, LocksInv, Exists, MutexIsHandedOn, FrontIsServed, IsFront,
              Listed, Inside
<1>4. BuffersInv'
  BY <1>1, OutsideStep DEF Places, Listed, Inside
<1> QED
  BY <1>2, <1>3, <1>4 DEF Inv

\* While a writer is inside, nobody else is, and the others are bound to nothing.
LEMMA InsideStep ==
  ASSUME Inv, NEW w \in Writers, pc[w] \in Inside, NEW p \in Places,
         pc' = [pc EXCEPT ![w] = p],
         UNCHANGED new,
         \A v \in Writers : v # w => flips'[v] = flips[v],
         CurrentInv(w)', p \in Inside \/ BuffersAgree'
  PROVE  BuffersInv'
<1>1. \A v \in Writers : v # w => pc[v] \notin Inside /\ pc'[v] = pc[v]
  BY OneInside DEF Inv, Shapes
<1>2. \A v \in Writers : v # w => CurrentInv(v)'
  BY <1>1 DEF Inv, BuffersInv, CurrentInv, Inside
<1>3. pc'[w] = p
  BY DEF Inv, Shapes
<1>4. BuffersAgree'
  BY <1>3 DEF BuffersAgree, Inside
<1> QED
  BY <1>2, <1>4 DEF BuffersInv

\* A writer goes on inside, and the list stays as it is.
LEMMA StaysInside ==
  ASSUME Inv, NEW w \in Writers, pc[w] \in Inside, NEW p \in Listed,
         pc' = [pc EXCEPT ![w] = p],
         UNCHANGED <<locks, has, notices, next>>
  PROVE  LocksInv'
BY DEF Inv, Shapes, LocksInv, Exists, MutexIsHandedOn, FrontIsServed, IsFront, Listed, Inside

LEMMA WrittenStep ==
  ASSUME Inv, NEW w \in Writers, Written(w)
  PROVE  Inv'
<1>1. /\ pc[w] = "write"
      /\ contents' = [contents EXCEPT ![new[w]] = @ + 1]
      /\ flips' = [flips EXCEPT ![w] = CtThreads]
      /\ pc' = [pc EXCEPT ![w] = "flip"]
      /\ UNCHANGED <<home, locks, has, notices, current, new, next>>
  BY DEF Written, Goes, lockVars
<1>2. Shapes'
  BY <1>1 DEF Inv, Shapes, Places, Listed, Inside
<1>3. LocksInv'
  BY <1>1, StaysInside DEF Listed, Inside
<1>4. CurrentInv(w)'
  BY <1>1 DEF Inv, Shapes, BuffersInv, CurrentInv
<1>5. BuffersInv'
  <2>1. \A v \in Writers : v # w => flips'[v] = flips[v]
    BY <1>1 DEF Inv, Shapes
  <2> QED
    BY <1>1, <1>4, <2>1, InsideStep DEF Places, Listed, Inside
<1> QED
  BY <1>2, <1>3, <1>5 DEF Inv

LEMMA FlipStep ==
  ASSUME Inv, NEW w \in Writers, NEW t \in CtThreads, Flip(w, t)
  PROVE  Inv'
<1>1. /\ t \in flips[w]
      /\ current' = [current EXCEPT ![t] = Other(@)]
      /\ flips' = [flips EXCEPT ![w] = @ \ {t}]
      /\ UNCHANGED <<home, locks, has, notices, contents, pc, new, next>>
  BY DEF Flip, lockVars
<1>2. pc[w] = "flip"
  BY <1>1 DEF Inv, BuffersInv, CurrentInv
<1>3. pc' = [pc EXCEPT ![w] = "flip"]
  BY <1>1, <1>2 DEF Inv, Shapes
<1>4. Shapes'
  BY <1>1 DEF Inv, Shapes, Buffers, Other
<1>5. LocksInv'
  BY <1>1, <1>2, <1>3, StaysInside DEF Listed, Inside
<1>6. CurrentInv(w)'
  <2>1. \A u \in CtThreads : current[u] = IF u \in flips[w] THEN Other(new[w]) ELSE new[w]
    BY <1>2 DEF Inv, BuffersInv, CurrentInv
  <2>2. Other(Other(new[w])) = new[w]
    BY DEF Inv, Shapes, Other, Buffers
  <2>3. \A u \in CtThreads : current'[u] = IF u \in flips'[w] THEN Other(new[w]) ELSE new[w]
    BY <1>1, <2>1, <2>2 DEF Inv, Shapes
  <2> QED
    BY <1>1, <1>2, <2>3 DEF CurrentInv
<1>7. BuffersInv'
  <2>1. \A v \in Writers : v # w => flips'[v] = flips[v]
    BY <1>1 DEF Inv, Shapes
  <2> QED
    BY <1>1, <1>2, <1>3, <1>6, <2>1, InsideStep DEF Places, Listed, Inside
<1> QED
  BY <1>4, <1>5, <1>7 DEF Inv

LEMMA FlippedStep ==
  ASSUME Inv, NEW w \in Writers, Flipped(w)
  PROVE  Inv'
<1>1. /\ pc[w] = "flip" /\ flips[w] = {}
      /\ pc' = [pc EXCEPT ![w] = "copy"]
      /\ UNCHANGED <<home, locks, has, notices, current, contents, new, flips, next>>
  BY DEF Flipped, Goes, lockVars
<1>2. Shapes'
  BY <1>1 DEF Inv, Shapes, Places, Listed, Inside
<1>3. LocksInv'
  BY <1>1, StaysInside DEF Listed, Inside
<1>4. CurrentInv(w)'
  BY <1>1 DEF Inv, Shapes, BuffersInv, CurrentInv
<1>5. BuffersInv'
  BY <1>1, <1>4, InsideStep DEF Places, Listed, Inside
<1> QED
  BY <1>2, <1>3, <1>5 DEF Inv

LEMMA CopiedStep ==
  ASSUME Inv, NEW w \in Writers, Copied(w)
  PROVE  Inv'
<1>1. /\ pc[w] = "copy"
      /\ contents' = [contents EXCEPT ![Other(new[w])] = contents[new[w]]]
      /\ pc' = [pc EXCEPT ![w] = "release"]
      /\ UNCHANGED <<home, locks, has, notices, current, new, flips, next>>
  BY DEF Copied, Goes, lockVars
<1>2. Shapes'
  BY <1>1 DEF Inv, Shapes, Places, Listed
<1>3. LocksInv'
  BY <1>1, StaysInside DEF Listed, Inside
<1>4. CurrentInv(w)'
  BY <1>1 DEF Inv, Shapes, BuffersInv, CurrentInv
<1>5. BuffersAgree'
  <2>1. contents'["A"] = contents'["B"]
    BY <1>1 DEF Inv, Shapes, Buffers, Other
  <2>2. \A t \in CtThreads : current'[t] = new[w]
    BY <1>1 DEF Inv, BuffersInv, CurrentInv
  <2> QED
    BY <2>1, <2>2 DEF BuffersAgree
<1>6. BuffersInv'
  BY <1>1, <1>4, <1>5, InsideStep DEF Places, Listed, Inside
<1> QED
  BY <1>2, <1>3, <1>6 DEF Inv

\* Whoever leaves the list as its front is about to tell the next one.
LEMMA ReleaseStep ==
  ASSUME Inv, NEW w \in Writers, Release(w)
  PROVE  Inv'
<1>1. /\ pc[w] = "release" /\ RemoveLock(w) /\ Exists(w)
      /\ next' = [next EXCEPT ![w] = Successor(w)]
      /\ UNCHANGED <<home, notices, current, contents, new, flips>>
  BY DEF Release, RemoveLock, Inv, LocksInv, Listed
<1>2. has' = [has EXCEPT ![w] = FALSE]
  BY <1>1 DEF RemoveLock
<1>3. PICK p \in {"exit", "notify"} :
        pc' = [pc EXCEPT ![w] = p] /\ (next'[w] # Nobody => p = "notify")
  BY DEF Release, Goes
<1>4. /\ locks' \in Seq(Writers) /\ Distinct(locks)'
      /\ \A v \in Writers : Exists(v)' <=> Exists(v) /\ v # w
      /\ ~ IsFront(w) => locks' # <<>> /\ Head(locks') = Head(locks)
      /\ IsFront(w) /\ locks' # <<>> => Successor(w) = Head(locks')
      /\ Successor(w) \in Writers \cup {Nobody}
  BY <1>1, ReleasedProps DEF Inv, Shapes, LocksInv
<1>5. Shapes'
  BY <1>1, <1>2, <1>3, <1>4 DEF Inv, Shapes, Places
<1>6. LocksInv'
  <2>1. \A v \in Writers : Exists(v)' <=> pc'[v] \in Listed
    BY <1>3, <1>4 DEF Inv, Shapes, LocksInv, Listed, Inside
  <2>2. \A v \in Writers : pc'[v] \in Inside => has'[v]
    BY <1>2, <1>3 DEF Inv, Shapes, LocksInv, Inside
  <2>3. \A v \in Writers : next'[v] # Nobody => pc'[v] = "notify"
    BY <1>1, <1>3 DEF Inv, Shapes, LocksInv
  <2>4. \A v \in Writers : has'[v] => IsFront(v)'
    BY <1>2, <1>4 DEF Inv, Shapes, LocksInv, MutexIsHandedOn, FrontIsServed, IsFront
  <2>5. locks' # <<>> => has'[Head(locks')] \/ notices'[Head(locks')] > 0
                         \/ Head(locks') \in {next'[v] : v \in Writers}
    <3> SUFFICES ASSUME locks' # <<>>
                 PROVE  has'[Head(locks')] \/ notices'[Head(locks')] > 0
                        \/ Head(locks') \in {next'[v] : v \in Writers}
      OBVIOUS
    <3>1. CASE IsFront(w)
      <4>1. next'[w] = Head(locks')
        BY <1>1, <1>4, <3>1 DEF Inv, Shapes
      <4> QED
        BY <4>1
    <3>2. CASE ~ IsFront(w)
      <4>1. locks # <<>> /\ Head(locks') = Head(locks) /\ Head(locks) # w /\ Head(locks) \in Writers
        <5>1. locks # <<>> /\ Head(locks') = Head(locks)
          <6>1. Head(locks') = Head(locks)
            BY <1>4, <3>2
          <6>2. locks # <<>>
            BY <1>1 DEF Exists, ToSet, Inv, Shapes
          <6> QED
            BY <6>1, <6>2
        <5>2. Head(locks) # w
          BY <5>1, <3>2 DEF IsFront
        <5>3. Head(locks) \in Writers
          BY <5>1 DEF Inv, Shapes
        <5> QED
          BY <5>1, <5>2, <5>3
      <4>2. has'[Head(locks)] = has[Head(locks)]
        BY <1>2, <4>1 DEF Inv, Shapes
      <4>3. next[w] = Nobody /\ Head(locks) # Nobody
        BY <1>1, <4>1, CtMutexAssumption DEF Inv, LocksInv
      <4>4. \A v \in Writers : v # w => next'[v] = next[v]
        BY <1>1 DEF Inv, Shapes
      <4>5. CASE Head(locks) \in {next[v] : v \in Writers}
        <5>1. PICK v \in Writers : Head(locks) = next[v]
          BY <4>5
        <5>2. v # w /\ next'[v] = Head(locks')
          BY <4>1, <4>3, <4>4, <5>1
        <5> QED
          BY <5>2
      <4>6. CASE has[Head(locks)] \/ notices[Head(locks)] > 0
        BY <1>1, <4>1, <4>2, <4>6
      <4> QED
        BY <4>1, <4>5, <4>6 DEF Inv, LocksInv, MutexIsHandedOn, FrontIsServed
    <3> QED
      BY <3>1, <3>2
  <2> QED
    BY <1>4, <2>1, <2>2, <2>3, <2>4, <2>5 DEF LocksInv, MutexIsHandedOn, FrontIsServed
<1>7. BuffersInv'
  BY <1>1, <1>3, OutsideStep DEF Places, Listed, Inside
<1> QED
  BY <1>5, <1>6, <1>7 DEF Inv

\* The message takes over from the writer that was about to send it.
LEMMA TellNextStep ==
  ASSUME Inv, NEW w \in Writers, TellNext(w)
  PROVE  Inv'
<1>1. /\ pc[w] = "notify"
      /\ next' = [next EXCEPT ![w] = Nobody]
      /\ pc' = [pc EXCEPT ![w] = "exit"]
      /\ UNCHANGED <<home, locks, has, current, contents, new, flips>>
  BY DEF TellNext, Goes, SendNotice, lockVars
<1>2. /\ Exists(next[w]) => notices' = [notices EXCEPT ![next[w]] = @ + 1]
      /\ ~ Exists(next[w]) => notices' = notices
  BY DEF TellNext, SendNotice, lockVars
<1>3. Exists(next[w]) => next[w] \in Writers
  BY CtMutexAssumption DEF Inv, Shapes, Exists, ToSet
<1>4. Shapes'
  BY <1>1, <1>2, <1>3, SMTT(40) DEF Inv, Shapes, Places
<1>5. LocksInv'
  <2>1. Distinct(locks)' /\ (\A v \in Writers : Exists(v)' <=> pc'[v] \in Listed)
    BY <1>1 DEF Inv, Shapes, LocksInv, Distinct, Exists, Listed, Inside
  <2>2. \A v \in Writers : pc'[v] \in Inside => has'[v]
    BY <1>1 DEF Inv, Shapes, LocksInv, Inside
  <2>3. \A v \in Writers : next'[v] # Nobody => pc'[v] = "notify"
    BY <1>1 DEF Inv, Shapes, LocksInv
  <2>4. \A v \in Writers : has'[v] => IsFront(v)'
    BY <1>1 DEF Inv, LocksInv, MutexIsHandedOn, FrontIsServed, IsFront
  <2>5. locks' # <<>> => has'[Head(locks')] \/ notices'[Head(locks')] > 0
                         \/ Head(locks') \in {next'[v] : v \in Writers}
    <3> SUFFICES ASSUME locks # <<>>
                 PROVE  has[Head(locks)] \/ notices'[Head(locks)] > 0
                        \/ Head(locks) \in {next'[v] : v \in Writers}
      BY <1>1
    <3>1. Head(locks) \in Writers /\ Exists(Head(locks))
      BY DEF Inv, Shapes, Exists, ToSet
    <3>2. notices[Head(locks)] > 0 => notices'[Head(locks)] > 0
      <4>1. notices \in [Writers -> Nat]
        BY DEF Inv, Shapes
      <4>2. CASE Exists(next[w])
        <5>1. notices'[Head(locks)] = IF next[w] = Head(locks) THEN notices[Head(locks)] + 1
                                                               ELSE notices[Head(locks)]
          BY <1>2, <1>3, <3>1, <4>1, <4>2
        <5>2. notices[Head(locks)] \in Nat
          BY <3>1, <4>1
        <5> QED
          BY <5>1, <5>2
      <4>3. CASE ~ Exists(next[w])
        BY <1>2, <4>3
      <4> QED
        BY <4>2, <4>3
    <3>3. CASE Head(locks) = next[w]
      BY <1>2, <3>1, <3>3 DEF Inv, Shapes
    <3>4. CASE Head(locks) # next[w] /\ Head(locks) \in {next[v] : v \in Writers}
      <4>1. PICK v \in Writers : Head(locks) = next[v]
        BY <3>4
      <4>2. next'[v] = Head(locks)
        BY <1>1, <3>4, <4>1 DEF Inv, Shapes
      <4> QED
        BY <4>2
    <3> QED
      BY <3>2, <3>3, <3>4 DEF Inv, LocksInv, MutexIsHandedOn, FrontIsServed
  <2> QED
    BY <2>1, <2>2, <2>3, <2>4, <2>5 DEF LocksInv, MutexIsHandedOn, FrontIsServed
<1>6. BuffersInv'
  BY <1>1, OutsideStep DEF Places, Listed, Inside
<1> QED
  BY <1>4, <1>5, <1>6 DEF Inv

LEMMA ReturnStep ==
  ASSUME Inv, NEW w \in Writers, Return(w)
  PROVE  Inv'
<1>1. /\ pc[w] = "exit"
      /\ pc' = [pc EXCEPT ![w] = "idle"]
      /\ UNCHANGED <<home, locks, has, notices, current, contents, new, flips, next>>
  BY DEF Return, Goes, lockVars
<1>2. Shapes'
  BY <1>1 DEF Inv, Shapes, Places
<1>3. LocksInv'
  BY <1>1 DEF Inv, Shapes, LocksInv, Exists, MutexIsHandedOn, FrontIsServed, IsFront,
              Listed, Inside
<1>4. BuffersInv'
  BY <1>1, OutsideStep DEF Places, Listed, Inside
<1> QED
  BY <1>2, <1>3, <1>4 DEF Inv

\* Readers, and steps of others, change nothing the invariant is about.
LEMMA QuietStep ==
  ASSUME Inv,
         UNCHANGED <<home, locks, has, notices, current, contents, pc, new, flips, next>>
  PROVE  Inv'
BY SMTT(40) DEF Inv, Shapes, LocksInv, Distinct, Exists, MutexIsHandedOn, FrontIsServed, IsFront,
   BuffersInv,
       CurrentInv, BuffersAgree

-----------------------------------------------------------------------------
LEMMA InvNext ==
  ASSUME "flip" \notin Interruptible, Inv, [FlipNext]_<<lockVars, flipVars>>
  PROVE  Inv'
<1>1. ASSUME NEW w \in Writers, Begin(w) PROVE Inv'
  BY <1>1, BeginStep
<1>2. ASSUME NEW w \in Writers, WriterStep(w) PROVE Inv'
  BY <1>2, AcquireStep, ResumeStep, WrittenStep, FlippedStep, CopiedStep, ReleaseStep,
     TellNextStep, ReturnStep DEF WriterStep
<1>3. ASSUME NEW w \in Writers, Interrupt(w) PROVE Inv'
  BY <1>3, InterruptStep
<1>4. ASSUME NEW w \in Writers, Deliver(w) PROVE Inv'
  BY <1>4, DeliverStep
<1>5. ASSUME NEW w \in Writers, NEW t \in CtThreads, Flip(w, t) PROVE Inv'
  BY <1>5, FlipStep
<1>6. ASSUME NEW t \in CtThreads, ApplyRead(t) \/ ReadDone(t) PROVE Inv'
  BY <1>6, QuietStep DEF ApplyRead, ReadDone, lockVars
<1>7. CASE UNCHANGED <<lockVars, flipVars>>
  BY <1>7, QuietStep DEF lockVars, flipVars
<1> QED
  BY <1>1, <1>2, <1>3, <1>4, <1>5, <1>6, <1>7 DEF FlipNext

\* The invariant says that no reader is in the buffer of the writer, whoever it is.
LEMMA InvIsAtomic == Inv => FlipIsAtomic
<1> SUFFICES ASSUME Inv PROVE FlipIsAtomic
  OBVIOUS
<1>1. ASSUME NEW w \in Writers, NEW t \in CtThreads PROVE current[t] \notin Changing(w)
  <2>1. new[w] \in Buffers /\ Other(new[w]) # new[w]
    BY DEF Inv, Shapes, Buffers, Other
  <2> QED
    BY <2>1 DEF Inv, BuffersInv, CurrentInv, Changing
<1>2. ASSUME NEW v \in Writers, NEW w \in Writers, v # w
      PROVE  Changing(v) \cap Changing(w) = {}
  <2>1. pc[v] \notin Inside \/ pc[w] \notin Inside
    BY <1>2, OneInside
  <2> QED
    BY <2>1 DEF Changing, Inside
<1> QED
  BY <1>1, <1>2 DEF FlipIsAtomic, NoTornRead, Inv, BuffersInv

\* For any writers, threads and number of writes the list of acquisitions, the places
\* of the writers and the buffers of the threads fit together (apply_write).
THEOREM FlipInvariant == "flip" \notin Interruptible => (FlipSpec => []Inv)
<1> SUFFICES ASSUME "flip" \notin Interruptible PROVE FlipSpec => []Inv
  OBVIOUS
<1>1. Inv /\ [FlipNext]_<<lockVars, flipVars>> => Inv'
  BY InvNext
<1>2. FlipInit => Inv
  BY InvInit
<1> QED
  BY <1>1, <1>2, PTL DEF FlipSpec

\* The cross-thread mutex has one owner, the front of its list, and whenever it has
\* none the message that makes the front its owner is sent or about to be sent.
THEOREM FlipMutexIsHandedOn == "flip" \notin Interruptible => (FlipSpec => []MutexIsHandedOn)
<1>1. Inv => MutexIsHandedOn
  BY DEF Inv, LocksInv
<1> QED
  BY <1>1, FlipInvariant, PTL

\* A write is one step to the readers of all threads: no reader is in a buffer that
\* is being changed, and between two writes all threads see the same value.
THEOREM FlipIsOneStep == "flip" \notin Interruptible => (FlipSpec => []FlipIsAtomic)
BY FlipInvariant, InvIsAtomic, PTL

-----------------------------------------------------------------------------
\* The message hub.

RequestMsg == [rpc : Rpcs, source : Everyone \cup Targets, request : Nat]
ReplyMsg == [rpc : {"reply"}, source : HubThreads, request : Nat \ {NoReply}, answer : Targets \X Rpcs]
Task == [on : Everyone, msg : RequestMsg, at : {"start", "wait"}, sub : Nat]

HubShapes ==
  /\ inbox \in [Targets -> Seq(RequestMsg \cup ReplyMsg)]
  /\ asked \in [Everyone -> Seq(Targets \X Rpcs)]
  /\ replies \in [Everyone -> Seq({Pending} \cup (Targets \X Rpcs))]
  /\ \A t \in Everyone : Len(replies[t]) = Len(asked[t])
  /\ tasks \subseteq Task

\* The promise of the i-th request of t is open, when threads have asked a and hold
\* the replies r.
Open(a, r, t, i) == t \in Everyone /\ i \in DOMAIN a[t] /\ r[t][i] = Pending

\* A message at target d, or a task for one, is about a promise that is open, and
\* agrees with what was asked.
Sound(a, r, m, d) ==
  m.request # NoReply =>
    /\ Open(a, r, m.source, m.request)
    /\ m.rpc # "reply" => a[m.source][m.request] = <<d, m.rpc>>
    /\ m.rpc = "reply" => m.source = d /\ m.answer = a[d][m.request]

AllSound ==
  /\ \A d \in Targets : \A k \in DOMAIN inbox[d] : Sound(asked, replies, inbox[d][k], d)
  /\ \A k \in tasks : Sound(asked, replies, k.msg, Stream(k.on))

\* Two messages are about the same request.
SameCall(m, n) == m.request # NoReply /\ m.source = n.source /\ m.request = n.request

OneEach ==
  /\ \A d, e \in Targets : \A i \in DOMAIN inbox[d], j \in DOMAIN inbox[e] :
       SameCall(inbox[d][i], inbox[e][j]) => d = e /\ i = j
  /\ \A d \in Targets : \A i \in DOMAIN inbox[d] : \A k \in tasks : ~ SameCall(inbox[d][i], k.msg)
  /\ \A j, k \in tasks : SameCall(j.msg, k.msg) => j = k

HubInv == HubShapes /\ AllSound /\ OneEach /\ RepliesMatch

-----------------------------------------------------------------------------
\* SetToSeq() lists a finite set without repetition.
LEMMA SetToSeqProps ==
  ASSUME NEW D, IsFiniteSet(D)
  PROVE  /\ Cardinality(D) \in Nat
         /\ SetToSeq(D) \in [1 .. Cardinality(D) -> D]
         /\ \A i, j \in 1 .. Cardinality(D) : SetToSeq(D)[i] = SetToSeq(D)[j] => i = j
         /\ \A d \in D : \E i \in 1 .. Cardinality(D) : SetToSeq(D)[i] = d
<1> DEFINE n == Cardinality(D)
           order == SetToSeq(D)
<1>1. n \in Nat /\ ExistsBijection(1 .. n, D)
  BY FS_CardinalityType
<1>2. \E f \in [1 .. n -> D] : IsInjective(f)
  BY <1>1 DEF ExistsBijection, Bijection, Injection
<1>3. order \in [1 .. n -> D] /\ IsInjective(order)
  BY <1>2 DEF SetToSeq
<1>4. order \in Injection(1 .. n, D)
  BY <1>3 DEF Injection
<1>5. Cardinality(1 .. n) = n /\ IsFiniteSet(1 .. n)
  BY <1>1, FS_Interval
<1>6. order \in Surjection(1 .. n, D)
  BY <1>4, <1>5, FS_Injection
<1> QED
  BY <1>1, <1>3, <1>6 DEF IsInjective, Surjection

-----------------------------------------------------------------------------
\* What a concatenation holds.
LEMMA ConcatFacts ==
  ASSUME NEW S, NEW q \in Seq(S), NEW r \in Seq(S), NEW m, NEW n, Len(q) = m, Len(r) = n
  PROVE  /\ q \o r \in Seq(S)
         /\ Len(q \o r) = m + n
         /\ \A i \in 1 .. m + n : (q \o r)[i] = IF i <= m THEN q[i] ELSE r[i - m]
BY ConcatProperties

\* id gives each request of t to one of D a number of its own that t has not
\* used before, and the inboxes have the requests under these numbers.
Numbered(t, D, rpc, id) ==
  /\ \A d, e \in D : id[d] = id[e] => d = e
  /\ \A d \in D :
       /\ id[d] > Len(asked[t]) /\ id[d] <= Len(asked'[t])
       /\ asked'[t][id[d]] = <<d, rpc>>
  /\ inbox' = [d \in Targets |->
                 IF d \in D
                 THEN Append(inbox[d], [rpc |-> rpc, source |-> t, request |-> id[d]])
                 ELSE inbox[d]]

\* What the requests of thread t to the targets D change: each gets an id of its own,
\* past all that t has used, and a promise that is open.
LEMMA RequestFacts ==
  ASSUME HubAssumption, HubShapes,
         NEW t \in Everyone, NEW D \in SUBSET Targets, IsFiniteSet(D),
         NEW rpc \in Rpcs, Request(t, D, rpc)
  PROVE  /\ asked' \in [Everyone -> Seq(Targets \X Rpcs)]
         /\ replies' \in [Everyone -> Seq({Pending} \cup (Targets \X Rpcs))]
         /\ \A s \in Everyone :
              /\ Len(replies'[s]) = Len(asked'[s])
              /\ Len(asked'[s]) >= Len(asked[s])
              /\ \A i \in 1 .. Len(asked[s]) :
                   asked'[s][i] = asked[s][i] /\ replies'[s][i] = replies[s][i]
              /\ \A i \in 1 .. Len(asked'[s]) : i > Len(asked[s]) => replies'[s][i] = Pending
         /\ \E id \in [D -> Nat] : Numbered(t, D, rpc, id)
<1> DEFINE n == Cardinality(D)
           order == SetToSeq(D)
           at(d) == CHOOSE i \in DOMAIN order : order[i] = d
           more == [i \in DOMAIN order |-> <<order[i], rpc>>]
           open == [i \in DOMAIN order |-> Pending]
           id == [d \in D |-> Len(asked[t]) + at(d)]
<1>1. /\ n \in Nat
      /\ order \in [1 .. n -> D] /\ DOMAIN order = 1 .. n
      /\ \A d \in D : \E i \in 1 .. n : order[i] = d
  BY SetToSeqProps
<1>2. \A d \in D : at(d) \in 1 .. n /\ order[at(d)] = d
  BY <1>1
<1> HIDE DEF order, at, n
<1>3. more \in Seq(Targets \X Rpcs) /\ Len(more) = n /\ \A i \in 1 .. n : more[i] = <<order[i], rpc>>
  BY <1>1
<1>4. open \in Seq({Pending} \cup (Targets \X Rpcs)) /\ Len(open) = n /\ \A i \in 1 .. n : open[i] = Pending
  BY <1>1
<1> HIDE DEF more, open
<1>5. /\ asked' = [asked EXCEPT ![t] = @ \o more]
      /\ replies' = [replies EXCEPT ![t] = @ \o open]
  BY DEF Request, more, open, order
<1>6. /\ asked[t] \in Seq(Targets \X Rpcs)
      /\ replies[t] \in Seq({Pending} \cup (Targets \X Rpcs))
      /\ Len(replies[t]) = Len(asked[t]) /\ Len(asked[t]) \in Nat
  BY DEF HubShapes
<1>7. /\ asked[t] \o more \in Seq(Targets \X Rpcs)
      /\ Len(asked[t] \o more) = Len(asked[t]) + n
      /\ \A i \in 1 .. Len(asked[t]) + n :
           (asked[t] \o more)[i] = IF i <= Len(asked[t]) THEN asked[t][i] ELSE more[i - Len(asked[t])]
  BY <1>3, <1>6, ConcatFacts
<1>8. /\ replies[t] \o open \in Seq({Pending} \cup (Targets \X Rpcs))
      /\ Len(replies[t] \o open) = Len(asked[t]) + n
      /\ \A i \in 1 .. Len(asked[t]) + n :
           (replies[t] \o open)[i] = IF i <= Len(asked[t]) THEN replies[t][i] ELSE open[i - Len(asked[t])]
  BY <1>4, <1>6, ConcatFacts, SMTT(40)
<1>9. /\ asked' \in [Everyone -> Seq(Targets \X Rpcs)]
      /\ replies' \in [Everyone -> Seq({Pending} \cup (Targets \X Rpcs))]
  BY <1>5, <1>7, <1>8 DEF HubShapes
<1>10. ASSUME NEW s \in Everyone
       PROVE  /\ Len(replies'[s]) = Len(asked'[s])
              /\ Len(asked'[s]) >= Len(asked[s])
              /\ \A i \in 1 .. Len(asked[s]) :
                   asked'[s][i] = asked[s][i] /\ replies'[s][i] = replies[s][i]
              /\ \A i \in 1 .. Len(asked'[s]) : i > Len(asked[s]) => replies'[s][i] = Pending
  <2>1. CASE s # t
    <3>1. asked'[s] = asked[s] /\ replies'[s] = replies[s]
      BY <1>5, <2>1 DEF HubShapes
    <3> QED
      BY <3>1 DEF HubShapes
  <2>2. CASE s = t
    <3>1. asked'[t] = asked[t] \o more /\ replies'[t] = replies[t] \o open
      BY <1>5 DEF HubShapes
    <3>2. \A i \in 1 .. Len(asked[t]) + n : i > Len(asked[t]) => i - Len(asked[t]) \in 1 .. n
      BY <1>1, <1>6
    <3> QED
      BY <1>1, <1>4, <1>6, <1>7, <1>8, <2>2, <3>1, <3>2, SMTT(40)
  <2> QED
    BY <2>1, <2>2
<1>11. id \in [D -> Nat] /\ \A d, e \in D : id[d] = id[e] => d = e
  <2>1. \A d \in D : id[d] = Len(asked[t]) + at(d) /\ at(d) \in Nat
    BY <1>1, <1>2
  <2> QED
    BY <1>2, <1>6, <2>1
<1>12. ASSUME NEW d \in D
       PROVE  /\ id[d] > Len(asked[t]) /\ id[d] <= Len(asked'[t])
              /\ asked'[t][id[d]] = <<d, rpc>>
  <2>1. at(d) \in 1 .. n /\ order[at(d)] = d /\ id[d] = Len(asked[t]) + at(d)
    BY <1>2
  <2>2. asked'[t] = asked[t] \o more
    BY <1>5 DEF HubShapes
  <2> HIDE DEF id
  <2>3. PICK i \in 1 .. n : i = at(d)
    BY <2>1
  <2>4. PICK l \in Nat : l = Len(asked[t])
    BY <1>6
  <2>5. id[d] = l + i /\ l + i \in 1 .. l + n /\ l + i > l /\ (l + i) - l = i /\ ~ (l + i <= l)
    <3>1. l + i \in 1 .. l + n /\ l + i > l /\ (l + i) - l = i /\ ~ (l + i <= l)
      BY <1>1
    <3> QED
      BY <2>1, <2>3, <2>4, <3>1
  <2>6. (asked[t] \o more)[l + i] = more[i] /\ Len(asked[t] \o more) = l + n
    BY <1>7, <2>4, <2>5
  <2>7. more[i] = <<d, rpc>>
    BY <1>3, <2>1, <2>3
  <2>8. l + i <= l + n
    BY <1>1
  <2> QED
    BY <2>2, <2>4, <2>5, <2>6, <2>7, <2>8
<1>13. inbox' = [d \in Targets |->
                   IF d \in D
                   THEN Append(inbox[d], [rpc |-> rpc, source |-> t, request |-> id[d]])
                   ELSE inbox[d]]
  BY DEF Request, at, order
<1> QED
  <2>1. Numbered(t, D, rpc, id)
    BY <1>11, <1>12, <1>13 DEF Numbered
  <2> QED
    BY <1>9, <1>10, <1>11, <2>1

\* Requests keep the invariant, whatever else happens to the tasks as long as each
\* stands for a message that one stood for.
LEMMA RequestKeeps ==
  ASSUME HubAssumption, HubInv,
         NEW t \in Everyone, NEW D \in SUBSET Targets, IsFiniteSet(D),
         NEW rpc \in Rpcs, Request(t, D, rpc),
         twice' = twice, tasks' \subseteq Task,
         \A k \in tasks' : \E j \in tasks : j.msg = k.msg /\ j.on = k.on,
         \A j, k \in tasks' : SameCall(j.msg, k.msg) => j = k
  PROVE  HubInv'
<1>1. HubShapes /\ AllSound /\ OneEach /\ RepliesMatch
  BY DEF HubInv
<1>2. /\ asked' \in [Everyone -> Seq(Targets \X Rpcs)]
      /\ replies' \in [Everyone -> Seq({Pending} \cup (Targets \X Rpcs))]
      /\ \A s \in Everyone :
           /\ Len(replies'[s]) = Len(asked'[s])
           /\ Len(asked'[s]) >= Len(asked[s])
           /\ \A i \in 1 .. Len(asked[s]) :
                asked'[s][i] = asked[s][i] /\ replies'[s][i] = replies[s][i]
           /\ \A i \in 1 .. Len(asked'[s]) : i > Len(asked[s]) => replies'[s][i] = Pending
  BY <1>1, RequestFacts
<1>a. PICK id \in [D -> Nat] : Numbered(t, D, rpc, id)
  BY <1>1, RequestFacts
<1>3. /\ id \in [D -> Nat]
      /\ \A d, e \in D : id[d] = id[e] => d = e
      /\ \A d \in D :
           /\ id[d] > Len(asked[t]) /\ id[d] <= Len(asked'[t])
           /\ asked'[t][id[d]] = <<d, rpc>>
      /\ inbox' = [d \in Targets |->
                     IF d \in D
                     THEN Append(inbox[d], [rpc |-> rpc, source |-> t, request |-> id[d]])
                     ELSE inbox[d]]
  BY <1>a DEF Numbered
<1> DEFINE Msg == RequestMsg \cup ReplyMsg
           fresh(d) == [rpc |-> rpc, source |-> t, request |-> id[d]]
<1>4. /\ \A s \in Everyone : /\ Len(asked[s]) \in Nat /\ Len(asked'[s]) \in Nat
                             /\ DOMAIN asked[s] = 1 .. Len(asked[s])
                             /\ DOMAIN asked'[s] = 1 .. Len(asked'[s])
                             /\ DOMAIN replies[s] = 1 .. Len(asked[s])
                             /\ DOMAIN replies'[s] = 1 .. Len(asked'[s])
  BY <1>1, <1>2 DEF HubShapes
<1>5. ASSUME NEW d \in D
      PROVE  /\ fresh(d) \in RequestMsg /\ fresh(d).request = id[d] /\ id[d] # NoReply
             /\ fresh(d).source = t /\ fresh(d).rpc = rpc /\ rpc # "reply"
             /\ id[d] \in DOMAIN asked'[t] /\ id[d] \notin DOMAIN asked[t]
  <2>1. id[d] \in Nat /\ id[d] > Len(asked[t]) /\ id[d] <= Len(asked'[t])
    BY <1>3
  <2>2. id[d] # 0 /\ id[d] \in 1 .. Len(asked'[t]) /\ id[d] \notin 1 .. Len(asked[t])
    BY <1>4, <2>1
  <2> QED
    BY <1>4, <2>1, <2>2 DEF RequestMsg, Rpcs, NoReply
<1>6. inbox' \in [Targets -> Seq(Msg)]
  <2>1. ASSUME NEW d \in Targets PROVE inbox'[d] \in Seq(Msg)
    BY <1>1, <1>3, <1>5 DEF HubShapes
  <2> QED
    BY <1>3, <2>1
<1>7. HubShapes'
  BY <1>2, <1>6 DEF HubShapes
<1>8. ASSUME NEW s, NEW i, Open(asked, replies, s, i)
      PROVE  Open(asked', replies', s, i) /\ asked'[s][i] = asked[s][i]
  <2>1. s \in Everyone /\ i \in DOMAIN asked[s] /\ replies[s][i] = Pending
    BY <1>8 DEF Open
  <2>2. i \in 1 .. Len(asked[s])
    BY <1>4, <2>1
  <2>3. Len(asked[s]) \in Nat /\ Len(asked'[s]) \in Nat /\ Len(asked'[s]) >= Len(asked[s])
    BY <1>2, <1>4, <2>1
  <2>4. i \in 1 .. Len(asked'[s])
    BY <2>2, <2>3
  <2>5. asked'[s][i] = asked[s][i] /\ replies'[s][i] = replies[s][i]
    BY <1>2, <2>1, <2>2
  <2>6. i \in DOMAIN asked'[s]
    BY <1>4, <2>1, <2>4
  <2> QED
    BY <2>1, <2>5, <2>6 DEF Open
<1>9. ASSUME NEW m \in Msg, NEW d \in Targets, Sound(asked, replies, m, d)
      PROVE  Sound(asked', replies', m, d)
  <2>1. CASE m.request = NoReply
    BY <2>1 DEF Sound
  <2>2. CASE m.request # NoReply
    <3>1. Open(asked, replies, m.source, m.request)
      BY <1>9, <2>2 DEF Sound
    <3>2. /\ Open(asked', replies', m.source, m.request)
          /\ asked'[m.source][m.request] = asked[m.source][m.request]
      BY <1>8, <3>1
    <3> QED
      BY <1>9, <2>2, <3>2 DEF Sound
  <2> QED
    BY <2>1, <2>2
<1>10. ASSUME NEW d \in D PROVE Sound(asked', replies', fresh(d), d)
  <2>1. replies'[t][id[d]] = Pending
    BY <1>2, <1>3, <1>4, <1>5
  <2>2. Open(asked', replies', t, id[d])
    BY <1>5, <2>1 DEF Open
  <2> HIDE DEF fresh
  <2> QED
    BY <1>3, <1>5, <2>2 DEF Sound
<1>11. ASSUME NEW m \in Msg, NEW d \in Targets, Sound(asked, replies, m, d), NEW e \in D
       PROVE  ~ SameCall(m, fresh(e)) /\ ~ SameCall(fresh(e), m)
  <2> SUFFICES ASSUME m.request # NoReply, m.source = t, m.request = id[e] PROVE FALSE
    BY <1>5 DEF SameCall
  <2>1. m.request \in DOMAIN asked[t]
    BY <1>11 DEF Sound, Open
  <2> QED
    BY <1>5, <2>1
<1>12. ASSUME NEW d \in Targets, NEW i \in DOMAIN inbox'[d]
       PROVE  \/ i \in DOMAIN inbox[d] /\ inbox'[d][i] = inbox[d][i]
              \/ d \in D /\ i = Len(inbox[d]) + 1 /\ inbox'[d][i] = fresh(d)
  <2>1. inbox[d] \in Seq(Msg)
    BY <1>1 DEF HubShapes
  <2>2. CASE d \notin D
    BY <1>3, <2>2
  <2>3. CASE d \in D
    <3>1. inbox'[d] = Append(inbox[d], fresh(d)) /\ fresh(d) \in Msg
      BY <1>3, <1>5, <2>3
    <3> HIDE DEF fresh
    <3> QED
      BY <2>1, <2>3, <3>1
  <2> QED
    BY <2>2, <2>3
<1>13. ASSUME NEW d \in Targets, NEW i \in DOMAIN inbox[d]
       PROVE  inbox[d][i] \in Msg /\ Sound(asked, replies, inbox[d][i], d)
  BY <1>1 DEF HubShapes, AllSound
<1>14. ASSUME NEW k \in tasks
       PROVE  k.msg \in Msg /\ Stream(k.on) \in Targets /\ Sound(asked, replies, k.msg, Stream(k.on))
  BY <1>1 DEF HubShapes, AllSound, Task, Stream, Everyone, Targets
<1> HIDE DEF fresh, Msg
<1>15. AllSound'
  <2>1. ASSUME NEW d \in Targets, NEW i \in DOMAIN inbox'[d]
        PROVE Sound(asked', replies', inbox'[d][i], d)
    BY <1>9, <1>10, <1>12, <1>13
  <2>2. ASSUME NEW k \in tasks' PROVE Sound(asked', replies', k.msg, Stream(k.on))
    <3>1. PICK j \in tasks : j.msg = k.msg /\ j.on = k.on
      OBVIOUS
    <3>2. k.msg \in Msg /\ Stream(k.on) \in Targets /\ Sound(asked, replies, k.msg, Stream(k.on))
      BY <1>14, <3>1
    <3> QED
      BY <1>9, <3>2
  <2> QED
    BY <2>1, <2>2 DEF AllSound
<1>16. OneEach'
  <2>1. ASSUME NEW d \in Targets, NEW e \in Targets, NEW i \in DOMAIN inbox'[d],
               NEW j \in DOMAIN inbox'[e], SameCall(inbox'[d][i], inbox'[e][j])
        PROVE  d = e /\ i = j
    <3>1. CASE i \in DOMAIN inbox[d] /\ inbox'[d][i] = inbox[d][i]
      <4>1. CASE j \in DOMAIN inbox[e] /\ inbox'[e][j] = inbox[e][j]
        BY <1>1, <2>1, <3>1, <4>1 DEF OneEach
      <4> QED
        BY <1>11, <1>12, <1>13, <2>1, <3>1, <4>1
    <3>2. CASE d \in D /\ i = Len(inbox[d]) + 1 /\ inbox'[d][i] = fresh(d)
      <4>1. CASE j \in DOMAIN inbox[e] /\ inbox'[e][j] = inbox[e][j]
        BY <1>11, <1>13, <2>1, <3>2, <4>1
      <4>2. CASE e \in D /\ j = Len(inbox[e]) + 1 /\ inbox'[e][j] = fresh(e)
        <5>1. id[d] = id[e]
          BY <1>5, <2>1, <3>2, <4>2 DEF SameCall
        <5> QED
          BY <1>3, <3>2, <4>2, <5>1
      <4> QED
        BY <1>12, <4>1, <4>2
    <3> QED
      BY <1>12, <3>1, <3>2
  <2>2. ASSUME NEW d \in Targets, NEW i \in DOMAIN inbox'[d], NEW k \in tasks'
        PROVE  ~ SameCall(inbox'[d][i], k.msg)
    <3>1. PICK j \in tasks : j.msg = k.msg /\ j.on = k.on
      OBVIOUS
    <3>2. CASE i \in DOMAIN inbox[d] /\ inbox'[d][i] = inbox[d][i]
      BY <1>1, <3>1, <3>2 DEF OneEach
    <3>3. CASE d \in D /\ inbox'[d][i] = fresh(d)
      BY <1>11, <1>14, <3>1, <3>3
    <3> QED
      BY <1>12, <3>2, <3>3
  <2> QED
    BY <2>1, <2>2 DEF OneEach, SameCall
<1>17. RepliesMatch'
  <2>1. ASSUME NEW s \in Everyone, NEW i \in DOMAIN replies'[s]
        PROVE  replies'[s][i] \in {Pending, asked'[s][i]}
    <3>1. i \in 1 .. Len(asked'[s])
      BY <1>4
    <3>2. CASE i \in 1 .. Len(asked[s])
      BY <1>1, <1>2, <1>4, <3>2, ZenonT(60) DEF RepliesMatch
    <3>3. CASE i > Len(asked[s])
      BY <1>2, <3>1, <3>3
    <3> QED
      BY <1>4, <3>1, <3>2, <3>3
  <2> QED
    BY <1>1, <2>1 DEF RepliesMatch
<1> QED
  BY <1>7, <1>15, <1>16, <1>17 DEF HubInv

-----------------------------------------------------------------------------
\* Every step keeps the invariant.

\* One message is taken off a stream.
LEMMA AcceptKeeps ==
  ASSUME HubAssumption, HubInv, NEW t \in Everyone, Accept(t)
  PROVE  HubInv'
<1> DEFINE s == Stream(t)
           m == Head(inbox[s])
           Msg == RequestMsg \cup ReplyMsg
           task == [on |-> t, msg |-> m, at |-> "start", sub |-> NoReply]
<1>1. HubShapes /\ AllSound /\ OneEach /\ RepliesMatch
  BY DEF HubInv
<1>2. s \in Targets /\ inbox[s] \in Seq(Msg) /\ inbox[s] # <<>>
  BY <1>1 DEF HubShapes, Accept, Stream, Everyone, Targets
<1>3. m \in Msg /\ m = inbox[s][1] /\ 1 \in DOMAIN inbox[s]
  BY <1>2
<1>4. inbox' = [inbox EXCEPT ![s] = Tail(@)] /\ asked' = asked
  BY DEF Accept
<1> HIDE DEF m, s
<1>5. inbox' \in [Targets -> Seq(Msg)]
  BY <1>1, <1>2, <1>4 DEF HubShapes
<1>6. ASSUME NEW d \in Targets, NEW i \in DOMAIN inbox'[d]
      PROVE  LET j == IF d = s THEN i + 1 ELSE i
             IN  j \in DOMAIN inbox[d] /\ inbox'[d][i] = inbox[d][j] /\ (d = s => j # 1) /\ i \in Nat
  <2>1. inbox[d] \in Seq(Msg)
    BY <1>1 DEF HubShapes
  <2>2. CASE d # s
    <3>1. inbox'[d] = inbox[d]
      BY <1>4, <2>2, <1>1 DEF HubShapes
    <3> QED
      BY <2>1, <2>2, <3>1
  <2>3. CASE d = s
    <3>1. inbox'[d] = Tail(inbox[d]) /\ inbox[d] # <<>>
      BY <1>1, <1>2, <1>4, <2>3 DEF HubShapes
    <3> QED
      BY <2>1, <2>3, <3>1
  <2> QED
    BY <2>2, <2>3
<1> DEFINE old(d, i) == IF d = s THEN i + 1 ELSE i
<1>7. ASSUME NEW d \in Targets, NEW i \in DOMAIN inbox'[d]
      PROVE  /\ old(d, i) \in DOMAIN inbox[d]
             /\ inbox'[d][i] = inbox[d][old(d, i)]
             /\ ~ (d = s /\ old(d, i) = 1)
  BY <1>6
<1>8. \A d \in Targets : \A i, j \in DOMAIN inbox'[d] : old(d, i) = old(d, j) => i = j
  BY <1>6
<1> HIDE DEF old
<1>9. Sound(asked, replies, m, s)
  BY <1>1, <1>2, <1>3 DEF AllSound
<1>10. ASSUME NEW d \in Targets, NEW i \in DOMAIN inbox'[d]
       PROVE  /\ Sound(asked, replies, inbox'[d][i], d)
              /\ ~ SameCall(m, inbox'[d][i])
  BY <1>1, <1>2, <1>3, <1>7 DEF AllSound, OneEach
<1>11. \A d, e \in Targets : \A i \in DOMAIN inbox'[d], j \in DOMAIN inbox'[e] :
         SameCall(inbox'[d][i], inbox'[e][j]) => d = e /\ i = j
  <2> SUFFICES ASSUME NEW d \in Targets, NEW e \in Targets,
                      NEW i \in DOMAIN inbox'[d], NEW j \in DOMAIN inbox'[e],
                      SameCall(inbox'[d][i], inbox'[e][j])
               PROVE  d = e /\ i = j
    OBVIOUS
  <2>1. d = e /\ old(d, i) = old(e, j)
    BY <1>1, <1>7 DEF OneEach
  <2> QED
    BY <1>8, <2>1
<1>12. \A d \in Targets : \A i \in DOMAIN inbox'[d] : \A k \in tasks : ~ SameCall(inbox'[d][i], k.msg)
  BY <1>1, <1>7 DEF OneEach
<1>13. \A k \in tasks : ~ SameCall(m, k.msg) /\ ~ SameCall(k.msg, m)
  BY <1>1, <1>2, <1>3 DEF OneEach, SameCall
<1>14. CASE m.rpc = "reply"
  <2>1. /\ replies' = [replies EXCEPT ![t][m.request] = m.answer]
        /\ twice' = (twice \/ replies[t][m.request] # Pending)
        /\ tasks' = tasks
    BY <1>14 DEF Accept, m, s
  <2>2. m \in ReplyMsg
    BY <1>3, <1>14 DEF RequestMsg, Rpcs
  <2>3. m.source = s /\ s \in HubThreads /\ m.request # NoReply /\ m.answer \in Targets \X Rpcs
    BY <1>9, <1>14, <2>2 DEF ReplyMsg, Sound
  <2>4. s = t
    BY <2>3 DEF HubAssumption, Stream, s
  <2>5. m.source = t /\ Open(asked, replies, t, m.request) /\ m.answer = asked[t][m.request]
    BY <1>9, <1>14, <2>3, <2>4 DEF Sound
  <2>6. /\ replies[t] \in Seq({Pending} \cup (Targets \X Rpcs))
        /\ m.request \in DOMAIN replies[t] /\ replies[t][m.request] = Pending
    BY <1>1, <2>5 DEF HubShapes, Open
  <2>7. replies'[t] = [replies[t] EXCEPT ![m.request] = m.answer]
    BY <1>1, <2>1 DEF HubShapes
  <2>8. /\ replies'[t] \in Seq({Pending} \cup (Targets \X Rpcs))
        /\ Len(replies'[t]) = Len(replies[t])
        /\ DOMAIN replies'[t] = DOMAIN replies[t]
        /\ replies'[t][m.request] = m.answer
        /\ \A i \in DOMAIN replies[t] : i # m.request => replies'[t][i] = replies[t][i]
    BY <2>3, <2>6, <2>7
  <2>9. \A u \in Everyone : u # t => replies'[u] = replies[u]
    BY <1>1, <2>1 DEF HubShapes
  <2>10. replies' \in [Everyone -> Seq({Pending} \cup (Targets \X Rpcs))]
    <3>1. \A u \in Everyone : replies'[u] \in Seq({Pending} \cup (Targets \X Rpcs))
      BY <1>1, <2>8, <2>9 DEF HubShapes
    <3> QED
      BY <1>1, <2>1, <3>1 DEF HubShapes
  <2>11. HubShapes'
    <3>1. \A u \in Everyone : Len(replies'[u]) = Len(asked'[u])
      BY <1>1, <1>4, <2>8, <2>9 DEF HubShapes
    <3> QED
      BY <1>1, <1>4, <1>5, <2>1, <2>10, <3>1 DEF HubShapes, Msg
  <2>12. ASSUME NEW n, NEW d, Sound(asked, replies, n, d), ~ SameCall(m, n)
         PROVE  Sound(asked, replies', n, d)
    <3>1. CASE n.request = NoReply
      BY <3>1 DEF Sound
    <3>2. CASE n.request # NoReply
      <4>1. Open(asked, replies, n.source, n.request)
        BY <2>12, <3>2 DEF Sound
      <4>2. n.source # t \/ n.request # m.request
        BY <2>3, <2>5, <2>12 DEF SameCall
      <4>3. replies'[n.source][n.request] = Pending
        <5>1. n.source \in Everyone /\ replies[n.source][n.request] = Pending
          BY <4>1 DEF Open
        <5>2. CASE n.source # t
          BY <2>9, <5>1, <5>2
        <5>3. CASE n.source = t /\ n.request # m.request
          <6>1. n.request \in DOMAIN replies[t]
            BY <1>1, <4>1, <5>3 DEF Open, HubShapes
          <6> QED
            BY <2>8, <5>1, <5>3, <6>1
        <5> QED
          BY <4>2, <5>2, <5>3
      <4>4. Open(asked, replies', n.source, n.request)
        BY <4>1, <4>3 DEF Open
      <4> QED
        BY <2>12, <3>2, <4>4 DEF Sound
    <3> QED
      BY <3>1, <3>2
  <2>13. AllSound'
    <3>1. \A d \in Targets : \A i \in DOMAIN inbox'[d] : Sound(asked, replies', inbox'[d][i], d)
      BY <1>10, <2>12
    <3>2. \A k \in tasks : Sound(asked, replies', k.msg, Stream(k.on))
      BY <1>1, <1>13, <2>12 DEF AllSound
    <3> QED
      BY <1>4, <2>1, <3>1, <3>2 DEF AllSound
  <2>14. OneEach'
    BY <1>1, <1>11, <1>12, <2>1 DEF OneEach
  <2>15. RepliesMatch'
    <3>1. ~ twice'
      BY <1>1, <2>1, <2>6 DEF RepliesMatch
    <3>2. ASSUME NEW u \in Everyone, NEW i \in DOMAIN replies'[u]
          PROVE  replies'[u][i] \in {Pending, asked'[u][i]}
      <4>1. CASE u # t
        BY <1>1, <1>4, <2>9, <4>1 DEF RepliesMatch
      <4>2. CASE u = t
        BY <1>1, <1>4, <2>5, <2>8, <4>2 DEF RepliesMatch
      <4> QED
        BY <4>1, <4>2
    <3> QED
      BY <3>1, <3>2 DEF RepliesMatch
  <2> QED
    BY <2>11, <2>13, <2>14, <2>15 DEF HubInv
<1>15. CASE m.rpc # "reply"
  <2>1. tasks' = tasks \cup {task} /\ replies' = replies /\ twice' = twice
    BY <1>15 DEF Accept, m, s
  <2>2. task \in Task /\ task.msg = m /\ task.on = t
    BY <1>3, <1>15 DEF Task, ReplyMsg, NoReply
  <2> HIDE DEF task
  <2>3. HubShapes'
    BY <1>1, <1>4, <1>5, <2>1, <2>2 DEF HubShapes, Msg
  <2>4. AllSound'
    <3>1. \A k \in tasks' : Sound(asked, replies, k.msg, Stream(k.on))
      BY <1>1, <1>9, <2>1, <2>2 DEF AllSound, s
    <3> QED
      BY <1>4, <1>10, <2>1, <3>1 DEF AllSound
  <2>5. OneEach'
    <3>1. \A d \in Targets : \A i \in DOMAIN inbox'[d] : \A k \in tasks' : ~ SameCall(inbox'[d][i], k.msg)
      BY <1>10, <1>12, <2>1, <2>2 DEF SameCall
    <3>2. \A j, k \in tasks' : SameCall(j.msg, k.msg) => j = k
      BY <1>1, <1>13, <2>1, <2>2 DEF OneEach
    <3> QED
      BY <1>11, <3>1, <3>2 DEF OneEach
  <2> QED
    BY <1>1, <1>4, <2>1, <2>3, <2>4, <2>5 DEF HubInv, RepliesMatch
<1> QED
  BY <1>14, <1>15

\* A message is sent that is about no request another one is about.
LEMMA SendKeeps ==
  ASSUME HubInv, asked' = asked, replies' = replies, twice' = twice, tasks' \subseteq tasks,
         NEW d \in Targets, NEW n \in RequestMsg \cup ReplyMsg,
         inbox' = [inbox EXCEPT ![d] = Append(@, n)],
         Sound(asked, replies, n, d),
         \A e \in Targets : \A i \in DOMAIN inbox[e] : ~ SameCall(inbox[e][i], n),
         \A k \in tasks' : ~ SameCall(n, k.msg)
  PROVE  HubInv'
<1> DEFINE Msg == RequestMsg \cup ReplyMsg
<1>1. HubShapes /\ AllSound /\ OneEach /\ RepliesMatch
  BY DEF HubInv
<1>2. inbox' \in [Targets -> Seq(Msg)]
  BY <1>1 DEF HubShapes
<1>3. ASSUME NEW e \in Targets, NEW i \in DOMAIN inbox'[e]
      PROVE  \/ i \in DOMAIN inbox[e] /\ inbox'[e][i] = inbox[e][i]
             \/ e = d /\ i = Len(inbox[d]) + 1 /\ inbox'[e][i] = n
  <2>1. inbox[e] \in Seq(Msg)
    BY <1>1 DEF HubShapes
  <2>2. CASE e # d
    BY <1>1, <2>2 DEF HubShapes
  <2>3. CASE e = d
    <3>1. inbox'[e] = Append(inbox[e], n)
      BY <1>1, <2>3 DEF HubShapes
    <3> QED
      BY <2>1, <2>3, <3>1
  <2> QED
    BY <2>2, <2>3
<1>4. HubShapes'
  BY <1>1, <1>2 DEF HubShapes
<1>5. AllSound'
  <2>1. \A e \in Targets : \A i \in DOMAIN inbox'[e] : Sound(asked, replies, inbox'[e][i], e)
    BY <1>1, <1>3 DEF AllSound
  <2> QED
    BY <1>1, <2>1 DEF AllSound
<1>6. OneEach'
  <2>1. \A e, f \in Targets : \A i \in DOMAIN inbox'[e], j \in DOMAIN inbox'[f] :
          SameCall(inbox'[e][i], inbox'[f][j]) => e = f /\ i = j
    <3> SUFFICES ASSUME NEW e \in Targets, NEW f \in Targets,
                        NEW i \in DOMAIN inbox'[e], NEW j \in DOMAIN inbox'[f],
                        SameCall(inbox'[e][i], inbox'[f][j])
                 PROVE  e = f /\ i = j
      OBVIOUS
    <3>1. CASE i \in DOMAIN inbox[e] /\ inbox'[e][i] = inbox[e][i]
      <4>1. CASE j \in DOMAIN inbox[f] /\ inbox'[f][j] = inbox[f][j]
        BY <1>1, <3>1, <4>1 DEF OneEach
      <4> QED
        BY <1>3, <3>1, <4>1
    <3>2. CASE e = d /\ i = Len(inbox[d]) + 1 /\ inbox'[e][i] = n
      <4>1. CASE j \in DOMAIN inbox[f] /\ inbox'[f][j] = inbox[f][j]
        BY <3>2, <4>1 DEF SameCall
      <4> QED
        BY <1>3, <3>2, <4>1
    <3> QED
      BY <1>3, <3>1, <3>2
  <2>2. \A e \in Targets : \A i \in DOMAIN inbox'[e] : \A k \in tasks' : ~ SameCall(inbox'[e][i], k.msg)
    BY <1>1, <1>3 DEF OneEach
  <2> QED
    BY <1>1, <2>1, <2>2 DEF OneEach
<1> QED
  BY <1>1, <1>4, <1>5, <1>6 DEF HubInv, RepliesMatch

\* A handler returns: its task gives way to the reply, which is about the same request.
LEMMA FinishKeeps ==
  ASSUME HubAssumption, HubInv, NEW k, Finish(k)
  PROVE  HubInv'
<1> DEFINE source == k.msg.source
           reply == [rpc |-> "reply", source |-> source, request |-> k.msg.request,
                     answer |-> <<Stream(k.on), k.msg.rpc>>]
<1>1. HubShapes /\ AllSound /\ OneEach /\ RepliesMatch
  BY DEF HubInv
<1>2. /\ k \in tasks /\ tasks' = tasks \ {k}
      /\ asked' = asked /\ replies' = replies /\ twice' = twice
  BY DEF Finish
<1>3. CASE k.msg.request # NoReply /\ source \in HubThreads
  <2>1. inbox' = [inbox EXCEPT ![source] = Append(@, reply)]
    BY <1>3 DEF Finish
  <2>2. k \in Task /\ Stream(k.on) \in Targets /\ source \in Targets
    BY <1>1, <1>2, <1>3 DEF HubShapes, Task, Stream, Everyone, Targets
  <2>3. reply \in ReplyMsg
    BY <1>3, <2>2 DEF Task, RequestMsg, ReplyMsg
  <2>4. k.msg.rpc \in Rpcs /\ k.msg.rpc # "reply"
    BY <2>2 DEF Task, RequestMsg, Rpcs
  <2>5. Sound(asked, replies, k.msg, Stream(k.on))
    BY <1>1, <1>2 DEF AllSound
  <2>6. Sound(asked, replies, reply, source)
    BY <1>3, <2>4, <2>5 DEF Sound
  <2>7. \A n : SameCall(n, reply) => SameCall(n, k.msg)
    BY DEF SameCall
  <2>8. \A n : SameCall(reply, n) => SameCall(k.msg, n)
    BY DEF SameCall
  <2> HIDE DEF reply, source
  <2>9. \A e \in Targets : \A i \in DOMAIN inbox[e] : ~ SameCall(inbox[e][i], reply)
    BY <1>1, <1>2, <2>7 DEF OneEach
  <2>10. \A j \in tasks' : ~ SameCall(reply, j.msg)
    BY <1>1, <1>2, <2>8 DEF OneEach
  <2> QED
    BY <1>2, <2>1, <2>2, <2>3, <2>6, <2>9, <2>10, SendKeeps
<1>4. CASE ~ (k.msg.request # NoReply /\ source \in HubThreads)
  <2>1. inbox' = inbox
    BY <1>4 DEF Finish
  <2> QED
    BY <1>1, <1>2, <2>1 DEF HubInv, HubShapes, AllSound, OneEach, RepliesMatch
<1> QED
  BY <1>3, <1>4

\* A call without a reply is about no request.
LEMMA CallNoReplyKeeps ==
  ASSUME HubInv, NEW c \in Callers, NEW d \in Targets, CallNoReply(c, d)
  PROVE  HubInv'
<1> DEFINE n == [rpc |-> "leaf", source |-> d, request |-> NoReply]
<1>1. n \in RequestMsg /\ n.request = NoReply
  BY DEF RequestMsg, Rpcs, NoReply
<1>2. /\ inbox' = [inbox EXCEPT ![d] = Append(@, n)]
      /\ asked' = asked /\ replies' = replies /\ twice' = twice /\ tasks' \subseteq tasks
  BY DEF CallNoReply
<1> HIDE DEF n
<1>3. Sound(asked, replies, n, d) /\ \A m : ~ SameCall(m, n) /\ ~ SameCall(n, m)
  BY <1>1 DEF Sound, SameCall
<1> QED
  BY <1>1, <1>2, <1>3, SendKeeps

LEMMA RelayKeeps ==
  ASSUME HubAssumption, HubInv, NEW k, NEW d \in Targets, Relay(k, d)
  PROVE  HubInv'
<1> DEFINE waiting == [k EXCEPT !.at = "wait", !.sub = Len(asked[k.on]) + 1]
<1>1. HubShapes /\ OneEach
  BY DEF HubInv
<1>2. /\ k \in tasks /\ tasks' = (tasks \ {k}) \cup {waiting}
      /\ Request(k.on, {d}, "leaf") /\ twice' = twice
  BY DEF Relay
<1>3. k \in Task /\ tasks \subseteq Task
  BY <1>1, <1>2 DEF HubShapes
<1>4. Len(asked[k.on]) + 1 \in Nat
  BY <1>1, <1>3 DEF HubShapes, Task
<1>5. waiting \in Task /\ waiting.msg = k.msg /\ waiting.on = k.on
  BY <1>3, <1>4 DEF Task
<1> HIDE DEF waiting
<1>6. /\ tasks' \subseteq Task
      /\ \A u \in tasks' : \E j \in tasks : j.msg = u.msg /\ j.on = u.on
  BY <1>2, <1>3, <1>5
<1>7. \A i, j \in tasks' : SameCall(i.msg, j.msg) => i = j
  BY <1>1, <1>2, <1>5 DEF OneEach
<1>8. {d} \in SUBSET Targets /\ IsFiniteSet({d}) /\ "leaf" \in Rpcs /\ k.on \in Everyone
  BY <1>3, FS_Singleton DEF Task, Rpcs
<1> QED
  BY <1>2, <1>6, <1>7, <1>8, RequestKeeps

LEMMA CallSyncKeeps ==
  ASSUME HubAssumption, HubInv, NEW c \in Callers, NEW D \in SUBSET Targets, IsFiniteSet(D),
         NEW rpc \in Rpcs, CallSync(c, D, rpc)
  PROVE  HubInv'
<1>1. place[c] \in Everyone
  BY DEF HubAssumption, Everyone
<1>2. Request(place[c], D, rpc) /\ twice' = twice /\ tasks' = tasks
  BY DEF CallSync
<1>3. tasks' \subseteq Task /\ \A j, k \in tasks' : SameCall(j.msg, k.msg) => j = k
  BY <1>2 DEF HubInv, HubShapes, OneEach
<1> QED
  BY <1>1, <1>2, <1>3, RequestKeeps

-----------------------------------------------------------------------------
\* In every reachable state a promise that is open has at most one message about it
\* under way, and every message about a request agrees with what was asked.
THEOREM HubInvariant == HubSpec => []HubInv
<1>1. HubInit => HubInv
  <2> SUFFICES ASSUME HubInit PROVE HubInv
    OBVIOUS
  <2>1. HubShapes
    BY DEF HubInit, HubShapes
  <2>2. \A d \in Targets : DOMAIN inbox[d] = {}
    BY DEF HubInit
  <2>3. tasks = {} /\ ~ twice /\ \A t \in Everyone : DOMAIN replies[t] = {}
    BY DEF HubInit
  <2> QED
    BY <2>1, <2>2, <2>3 DEF HubInv, AllSound, OneEach, RepliesMatch
<1>2. HubInv /\ [HubNext]_hubVars => HubInv'
  <2> SUFFICES ASSUME HubInv, [HubNext]_hubVars PROVE HubInv'
    OBVIOUS
  <2>1. ASSUME NEW c \in Callers, NEW rpc \in Rpcs, NEW d \in Targets, CallSync(c, {d}, rpc)
        PROVE  HubInv'
    <3>1. {d} \in SUBSET Targets /\ IsFiniteSet({d})
      BY FS_Singleton
    <3> QED
      BY <2>1, <3>1, HubAssumption, CallSyncKeeps
  <2>2. ASSUME NEW c \in Callers, NEW rpc \in Rpcs, CallSync(c, HubThreads, rpc)
        PROVE  HubInv'
    <3>1. HubThreads \in SUBSET Targets /\ IsFiniteSet(HubThreads)
      BY HubAssumption DEF HubAssumption, Targets
    <3> QED
      BY <2>2, <3>1, HubAssumption, CallSyncKeeps
  <2>3. ASSUME NEW c \in Callers, NEW d \in Targets, CallNoReply(c, d)
        PROVE  HubInv'
    BY <2>3, CallNoReplyKeeps
  <2>4. ASSUME NEW t \in Everyone, AtThread(t)
        PROVE  HubInv'
    BY <2>4, HubAssumption, AcceptKeeps, FinishKeeps, RelayKeeps DEF AtThread
  <2>5. CASE \E c \in Callers : Collect(c) \/ GiveUp(c)
    <3>1. UNCHANGED <<inbox, asked, replies, tasks, twice>>
      BY <2>5 DEF Collect, GiveUp
    <3> QED
      BY <3>1 DEF HubInv, HubShapes, AllSound, OneEach, RepliesMatch
  <2>6. CASE UNCHANGED hubVars
    BY <2>6 DEF hubVars, HubInv, HubShapes, AllSound, OneEach, RepliesMatch
  <2> QED
    BY <2>1, <2>2, <2>3, <2>4, <2>5, <2>6 DEF HubNext
<1> QED
  BY <1>1, <1>2, PTL DEF HubSpec

\* Every promise is fulfilled at most once, and with the answer to its own request.
THEOREM HubRepliesMatch == HubSpec => []RepliesMatch
<1>1. HubInv => RepliesMatch
  BY DEF HubInv
<1> QED
  BY <1>1, HubInvariant, PTL

-----------------------------------------------------------------------------
\* Integers in a message.

\* The three recursive functions of the serializer: powers, the number that bytes
\* stand for, and what is left of a number.
LEMMA PowerIs ==
  ASSUME NEW n \in Nat
  PROVE  \E p \in [0 .. n -> Nat \ {0}] :
           /\ p[0] = 1 /\ Power(n) = p[n]
           /\ \A k \in 1 .. n : p[k] = Base * p[k - 1]
<1> DEFINE V == Nat \ {0}
           G == [s \in (1 .. n) \X V |-> Base * s[2]]
           p == CHOOSE g : g = [k \in 0 .. n |-> IF k = 0 THEN 1 ELSE Base * g[k - 1]]
<1>1. \A v \in V : Base * v \in V
  BY BaseAssumption
<1>2. G \in [(1 .. n) \X V -> V] /\ 1 \in V
  BY <1>1
<1>3. \A k \in 1 .. n, v \in V : G[<<k, v>>] = Base * v
  OBVIOUS
<1> HIDE DEF V, G
<1>4. PICK g \in [0 .. n -> V] : Iterated(g, G, 1, n)
  BY <1>2, IteratedExists
<1>5. ASSUME NEW k \in 0 .. n, k # 0 PROVE G[<<k, g[k - 1]>>] = Base * g[k - 1]
  <2>1. k \in 1 .. n /\ g[k - 1] \in V
    BY <1>5
  <2> QED BY <1>3, <2>1
<1>6. g = [k \in 0 .. n |-> IF k = 0 THEN 1 ELSE Base * g[k - 1]]
  BY <1>4, <1>5, Zenon DEF Iterated
<1>7. p = [k \in 0 .. n |-> IF k = 0 THEN 1 ELSE Base * p[k - 1]]
  BY <1>6, Zenon
<1>8. Power(n) = p[n]
  BY Zenon DEF Power
<1> HIDE DEF p
<1>9. p[0] = 1 /\ \A k \in 1 .. n : p[k] = Base * p[k - 1]
  <2>1. 0 \in 0 .. n /\ \A k \in 1 .. n : k \in 0 .. n /\ k # 0
    OBVIOUS
  <2> QED BY <1>7, <2>1, Zenon
<1>10. \A k \in 0 .. n : p[k] \in V
  BY <1>1, <1>2, <1>9, StaysIn
<1>11. p \in [0 .. n -> V]
  BY <1>7, <1>10
<1> QED BY <1>8, <1>9, <1>11 DEF V

LEMMA ValueIs ==
  ASSUME NEW q \in Seq(Bytes)
  PROVE  \E v \in [0 .. Len(q) -> Nat] :
           /\ v[0] = 0 /\ IntegerValue(q) = v[Len(q)]
           /\ \A k \in 1 .. Len(q) : v[k] = Base * v[k - 1] + q[k]
<1> DEFINE n == Len(q)
           G == [s \in (1 .. n) \X Nat |-> Base * s[2] + q[s[1]]]
           p == CHOOSE g : g = [k \in 0 .. n |-> IF k = 0 THEN 0 ELSE Base * g[k - 1] + q[k]]
<1>0. n \in Nat /\ \A k \in 1 .. n : q[k] \in Nat
  BY BaseAssumption DEF Bytes
<1>1. IntegerValue(q) = p[n]
  BY Zenon DEF IntegerValue
<1> HIDE DEF n
<1>2. \A k \in 1 .. n, v \in Nat : Base * v + q[k] \in Nat
  BY <1>0, BaseAssumption
<1>3. \A k \in 1 .. n, v \in Nat : G[<<k, v>>] = Base * v + q[k]
  OBVIOUS
<1>4. G \in [(1 .. n) \X Nat -> Nat]
  BY <1>2
<1> HIDE DEF G
<1>5. PICK g \in [0 .. n -> Nat] : Iterated(g, G, 0, n)
  BY <1>0, <1>4, IteratedExists
<1>6. ASSUME NEW k \in 0 .. n, k # 0 PROVE G[<<k, g[k - 1]>>] = Base * g[k - 1] + q[k]
  <2>1. k \in 1 .. n /\ g[k - 1] \in Nat
    BY <1>0, <1>6
  <2> QED BY <1>3, <2>1
<1>7. g = [k \in 0 .. n |-> IF k = 0 THEN 0 ELSE Base * g[k - 1] + q[k]]
  BY <1>5, <1>6, Zenon DEF Iterated
<1>8. p = [k \in 0 .. n |-> IF k = 0 THEN 0 ELSE Base * p[k - 1] + q[k]]
  BY <1>7, Zenon
<1> HIDE DEF p
<1>9. p[0] = 0 /\ \A k \in 1 .. n : p[k] = Base * p[k - 1] + q[k]
  <2>1. 0 \in 0 .. n /\ \A k \in 1 .. n : k \in 0 .. n /\ k # 0
    BY <1>0
  <2> QED BY <1>8, <2>1, Zenon
<1>10. \A k \in 0 .. n : p[k] \in Nat
  <2>1. \A k \in 1 .. n : p[k - 1] \in Nat => p[k] \in Nat
    BY <1>2, <1>9, Zenon
  <2>2. n \in Nat /\ p[0] \in Nat
    BY <1>0, <1>9
  <2> QED BY <2>1, <2>2, StaysIn
<1>11. p \in [0 .. n -> Nat]
  BY <1>8, <1>10
<1> QED BY <1>1, <1>9, <1>11 DEF n

\* The bytes of a number that is not negative.
Digits(w, u) ==
  LET left[k \in 0 .. w] == IF k = 0 THEN u ELSE left[k - 1] \div Base
  IN [i \in 1 .. w |-> left[w - i] % Base]

LEMMA Divides ==
  ASSUME NEW n \in Nat
  PROVE  /\ n \div Base \in Nat /\ n % Base \in Bytes
         /\ n = Base * (n \div Base) + (n % Base)
  BY BaseAssumption DEF Bytes

LEMMA DigitsAre ==
  ASSUME NEW w \in Nat, NEW u \in Nat
  PROVE  \E l \in [0 .. w -> Nat] :
           /\ l[0] = u /\ Digits(w, u) = [i \in 1 .. w |-> l[w - i] % Base]
           /\ \A k \in 1 .. w : l[k] = l[k - 1] \div Base
<1> DEFINE G == [s \in (1 .. w) \X Nat |-> s[2] \div Base]
           p == CHOOSE g : g = [k \in 0 .. w |-> IF k = 0 THEN u ELSE g[k - 1] \div Base]
<1>1. \A v \in Nat : v \div Base \in Nat
  BY Divides
<1>2. G \in [(1 .. w) \X Nat -> Nat]
  BY <1>1
<1>3. \A k \in 1 .. w, v \in Nat : G[<<k, v>>] = v \div Base
  OBVIOUS
<1> HIDE DEF G
<1>4. PICK g \in [0 .. w -> Nat] : Iterated(g, G, u, w)
  BY <1>2, IteratedExists
<1>5. ASSUME NEW k \in 0 .. w, k # 0 PROVE G[<<k, g[k - 1]>>] = g[k - 1] \div Base
  <2>1. k \in 1 .. w /\ g[k - 1] \in Nat
    BY <1>5
  <2> QED BY <1>3, <2>1
<1>6. g = [k \in 0 .. w |-> IF k = 0 THEN u ELSE g[k - 1] \div Base]
  BY <1>4, <1>5, Zenon DEF Iterated
<1>7. p = [k \in 0 .. w |-> IF k = 0 THEN u ELSE p[k - 1] \div Base]
  BY <1>6, Zenon
<1>8. Digits(w, u) = [i \in 1 .. w |-> p[w - i] % Base]
  BY Zenon DEF Digits
<1> HIDE DEF p
<1>9. p[0] = u /\ \A k \in 1 .. w : p[k] = p[k - 1] \div Base
  <2>1. 0 \in 0 .. w /\ \A k \in 1 .. w : k \in 0 .. w /\ k # 0
    OBVIOUS
  <2> QED BY <1>7, <2>1, Zenon
<1>10. \A k \in 0 .. w : p[k] \in Nat
  BY <1>1, <1>9, StaysIn
<1>11. p \in [0 .. w -> Nat]
  BY <1>7, <1>10
<1> QED BY <1>8, <1>9, <1>11

LEMMA Below ==
  ASSUME NEW n \in Nat, NEW p \in Nat, n < Base * p
  PROVE  n \div Base < p
<1>1. PICK q \in Nat, r \in Nat : q = n \div Base /\ r = n % Base /\ n = Base * q + r
  BY Divides, BaseAssumption DEF Bytes
<1>2. Base \in Nat /\ Base >= 2
  BY BaseAssumption
<1> SUFFICES ASSUME p <= q PROVE FALSE
  BY <1>1
<1>3. Base * p <= Base * q
  BY <1>2
<1> QED BY <1>1, <1>2, <1>3

\* As many digits as there are bytes, and they stand for the number.
LEMMA DigitsValue ==
  ASSUME NEW w \in Nat, NEW u \in 0 .. Power(w) - 1
  PROVE  /\ Digits(w, u) \in Seq(Bytes) /\ Len(Digits(w, u)) = w
         /\ IntegerValue(Digits(w, u)) = u
<1> DEFINE q == Digits(w, u)
<1>1. PICK p \in [0 .. w -> Nat \ {0}] :
        /\ p[0] = 1 /\ Power(w) = p[w]
        /\ \A k \in 1 .. w : p[k] = Base * p[k - 1]
  BY PowerIs
<1>2. u \in Nat /\ u < p[w]
  BY <1>1
<1>3. PICK l \in [0 .. w -> Nat] :
        /\ l[0] = u /\ q = [i \in 1 .. w |-> l[w - i] % Base]
        /\ \A k \in 1 .. w : l[k] = l[k - 1] \div Base
  BY <1>2, DigitsAre
<1> HIDE DEF q
<1>4. q \in Seq(Bytes) /\ Len(q) = w /\ \A k \in 1 .. w : q[k] = l[w - k] % Base
  <2>1. ASSUME NEW k \in 1 .. w PROVE l[w - k] % Base \in Bytes
    <3>1. l[w - k] \in Nat
      BY <1>3
    <3> QED BY <3>1, Divides
  <2>2. q \in [1 .. w -> Bytes]
    BY <1>3, <2>1
  <2> QED BY <1>3, <2>2
<1>5. PICK v \in [0 .. w -> Nat] :
        /\ v[0] = 0 /\ IntegerValue(q) = v[w]
        /\ \A k \in 1 .. w : v[k] = Base * v[k - 1] + q[k]
  BY <1>4, ValueIs
\* What is left after k bytes fits into the others.
<1>6. \A k \in 0 .. w : l[k] < p[w - k]
  <2> DEFINE F == {m \in Nat : m <= w => l[m] < p[w - m]}
  <2>1. 0 \in F
    BY <1>2, <1>3
  <2>2. ASSUME NEW m \in Nat, m \in F PROVE m + 1 \in F
    <3> SUFFICES ASSUME m + 1 <= w PROVE l[m + 1] < p[w - (m + 1)]
      OBVIOUS
    <3>1. /\ m \in 0 .. w /\ m + 1 \in 1 .. w /\ (m + 1) - 1 = m
          /\ w - m \in 1 .. w /\ (w - m) - 1 = w - (m + 1) /\ w - (m + 1) \in 0 .. w
      OBVIOUS
    <3>2. l[m] \in Nat /\ p[w - (m + 1)] \in Nat /\ l[m] < p[w - m]
      BY <2>2, <3>1
    <3>3. l[m + 1] = l[m] \div Base /\ p[w - m] = Base * p[w - (m + 1)]
      BY <1>1, <1>3, <3>1, Zenon
    <3>4. l[m] < Base * p[w - (m + 1)]
      BY <3>2, <3>3
    <3>5. l[m] \div Base < p[w - (m + 1)]
      BY <3>2, <3>4, Below
    <3> QED BY <3>3, <3>5
  <2> HIDE DEF F
  <2>3. Nat \subseteq F
    BY <2>1, <2>2, AllNumbers
  <2> QED BY <2>3 DEF F
<1>7. l[w] = 0
  <2>1. w \in 0 .. w /\ w - w = 0 /\ l[w] \in Nat
    OBVIOUS
  <2>2. l[w] < p[w - w]
    BY <1>6, <2>1
  <2> QED BY <1>1, <2>1, <2>2
\* The first k bytes stand for what was left before them.
<1>8. \A k \in 0 .. w : v[k] \in {l[w - k]}
  <2> DEFINE F == {m \in Nat : m <= w => v[m] = l[w - m]}
  <2>1. 0 \in F
    BY <1>5, <1>7
  <2>2. ASSUME NEW m \in Nat, m \in F PROVE m + 1 \in F
    <3> SUFFICES ASSUME m + 1 <= w PROVE v[m + 1] = l[w - (m + 1)]
      OBVIOUS
    <3>1. /\ m + 1 \in 1 .. w /\ (m + 1) - 1 = m
          /\ w - m \in 1 .. w /\ (w - m) - 1 = w - (m + 1) /\ w - (m + 1) \in 0 .. w
      OBVIOUS
    <3>2. v[m] = l[w - m] /\ l[w - (m + 1)] \in Nat
      BY <2>2, <3>1
    <3>3. /\ v[m + 1] = Base * v[m] + q[m + 1]
          /\ l[w - m] = l[w - (m + 1)] \div Base
          /\ q[m + 1] = l[w - (m + 1)] % Base
      BY <1>3, <1>4, <1>5, <3>1, Zenon
    <3>4. PICK n \in Nat : n = l[w - (m + 1)]
      BY <3>2
    <3>5. v[m + 1] = Base * (n \div Base) + (n % Base)
      BY <3>2, <3>3, <3>4, Zenon
    <3> QED BY <3>4, <3>5, Divides
  <2> HIDE DEF F
  <2>3. Nat \subseteq F
    BY <2>1, <2>2, AllNumbers
  <2> QED BY <2>3 DEF F
<1>9. v[w] = u
  <2>1. w \in 0 .. w /\ w - w = 0
    OBVIOUS
  <2> QED BY <1>3, <1>8, <2>1
<1> QED BY <1>4, <1>5, <1>9 DEF q

\* Two's complement.
IntegerTypes == {Integral(width, signed) : width \in Nat, signed \in BOOLEAN}
Unsigned(T, x) == IF x < 0 THEN x + Power(T.width) ELSE x

LEMMA TwosComplement ==
  ASSUME NEW T \in IntegerTypes, NEW x \in ValuesOf(T)
  PROVE  /\ T.width \in Nat /\ Unsigned(T, x) \in 0 .. Power(T.width) - 1
         /\ Signed(T, Unsigned(T, x)) = x
         /\ IntegerBytes(T, x) = Digits(T.width, Unsigned(T, x))
<1>1. T.width \in Nat /\ T.signed \in BOOLEAN
  BY DEF IntegerTypes, Integral
<1>2. PICK P \in Nat \ {0} : P = Power(T.width)
  <2>1. PICK p \in [0 .. T.width -> Nat \ {0}] : Power(T.width) = p[T.width]
    BY <1>1, PowerIs
  <2> QED BY <1>1, <2>1
<1>3. PICK h \in Nat : h = P \div 2 /\ h < P
  OBVIOUS
<1>4. IntegerBytes(T, x) = Digits(T.width, Unsigned(T, x))
  BY DEF IntegerBytes, Digits, Unsigned
<1>5. CASE T.signed
  <2>1. x \in h - P .. h - 1
    BY <1>2, <1>3, <1>5 DEF ValuesOf
  <2>2. Unsigned(T, x) = IF x < 0 THEN x + P ELSE x
    BY <1>2 DEF Unsigned
  <2>3. \A n \in Int : Signed(T, n) = IF n >= h THEN n - P ELSE n
    BY <1>2, <1>3, <1>5 DEF Signed
  <2> QED BY <1>1, <1>2, <1>3, <1>4, <2>1, <2>2, <2>3
<1>6. CASE ~ T.signed
  <2>1. x \in 0 .. P - 1
    BY <1>2, <1>6 DEF ValuesOf
  <2>2. Unsigned(T, x) = x
    BY <2>1 DEF Unsigned
  <2>3. \A n : Signed(T, n) = n
    BY <1>6 DEF Signed
  <2> QED BY <1>1, <1>2, <1>4, <2>1, <2>2, <2>3
<1> QED BY <1>1, <1>5, <1>6

\* What is between two parts of a buffer is read at its place.
LEMMA Between ==
  ASSUME NEW S, NEW before \in Seq(S), NEW q \in Seq(S), NEW after \in Seq(S)
  PROVE  SubSeq(before \o q \o after, Len(before) + 1, Len(before) + 1 + Len(q) - 1) = q
<1> DEFINE r == before \o q
           s == r \o after
<1>1. PICK b \in Nat, n \in Nat, c \in Nat : b = Len(before) /\ n = Len(q) /\ c = Len(after)
  OBVIOUS
<1>2. /\ r \in Seq(S) /\ Len(r) = b + n
      /\ \A i \in 1 .. b + n : r[i] = IF i <= b THEN before[i] ELSE q[i - b]
  BY <1>1, ConcatProperties
<1> HIDE DEF r
<1>3. /\ s \in Seq(S) /\ Len(s) = (b + n) + c
      /\ \A i \in 1 .. (b + n) + c : s[i] = IF i <= b + n THEN r[i] ELSE after[i - (b + n)]
  <2>1. /\ s \in Seq(S) /\ Len(s) = Len(r) + Len(after)
        /\ \A i \in 1 .. Len(r) + Len(after) :
             s[i] = IF i <= Len(r) THEN r[i] ELSE after[i - Len(r)]
    BY <1>2, ConcatProperties, Zenon
  <2> HIDE DEF s
  <2> QED BY <1>1, <1>2, <2>1
<1> HIDE DEF s
<1>4. ASSUME NEW i \in 1 .. n PROVE s[b + i] = q[i]
  <2>1. b + i \in 1 .. (b + n) + c /\ b + i \in 1 .. b + n /\ ~ (b + i <= b) /\ (b + i) - b = i
        /\ b + i <= b + n
    OBVIOUS
  <2> QED BY <1>2, <1>3, <2>1
<1> DEFINE z == SubSeq(s, b + 1, b + n)
<1>5. z \in Seq(S) /\ Len(z) = n /\ \A i \in 1 .. n : z[i] = s[b + i]
  <2>1. \A i \in b + 1 .. b + n : s[i] \in S
    <3>1. \A i \in b + 1 .. b + n : i \in 1 .. Len(s)
      BY <1>3
    <3> QED BY <1>3, <3>1, ElementOfSeq
  <2>2. /\ z \in Seq(S) /\ Len(z) = IF b + 1 <= b + n THEN (b + n) - (b + 1) + 1 ELSE 0
        /\ \A i \in 1 .. (b + n) - (b + 1) + 1 : z[i] = s[(b + 1) + i - 1]
    BY <2>1, SubSeqProperties
  <2> HIDE DEF z
  <2>3. (b + n) - (b + 1) + 1 = n /\ (~ (b + 1 <= b + n) => n = 0)
    OBVIOUS
  <2>4. \A i \in 1 .. n : (b + 1) + i - 1 = b + i
    OBVIOUS
  <2> QED BY <2>2, <2>3, <2>4
<1> HIDE DEF z
<1>6. z = q
  BY <1>1, <1>4, <1>5, SeqEqual
<1>7. Len(before) + 1 = b + 1 /\ Len(before) + 1 + Len(q) - 1 = b + n
  BY <1>1
<1> QED BY <1>6, <1>7, Zenon DEF z, s, r

\* An integer of any width is written in as many bytes as size() says, whatever is
\* in the message before and after it, and read from its place as it was: write
\* and read of the integral types in rpc/serialize.cc, with push_back and pop.
THEOREM IntegersAreWhole ==
  ASSUME NEW T \in IntegerTypes, NEW x \in ValuesOf(T),
         NEW before \in Seq(Bytes), NEW after \in Seq(Bytes)
  PROVE  /\ IntegerBytes(T, x) \in Seq(Bytes) /\ Len(IntegerBytes(T, x)) = T.width
         /\ ReadInteger(T, before \o IntegerBytes(T, x) \o after, Len(before) + 1) = x
<1> DEFINE q == IntegerBytes(T, x)
<1>1. /\ q \in Seq(Bytes) /\ Len(q) = T.width
      /\ Signed(T, IntegerValue(q)) = x
  BY TwosComplement, DigitsValue
<1> HIDE DEF q
<1>2. SubSeq(before \o q \o after, Len(before) + 1, Len(before) + 1 + T.width - 1) = q
  BY <1>1, Between
<1>3. ReadInteger(T, before \o q \o after, Len(before) + 1) = x
  BY <1>1, <1>2, Zenon DEF ReadInteger
<1> QED BY <1>1, <1>3 DEF q

==============================================================================
