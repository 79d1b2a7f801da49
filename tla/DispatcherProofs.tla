--------------------------- MODULE DispatcherProofs ---------------------------
(***************************************************************************)
(* The safety of dispatcher_t and coro_t for any number of slots, swaps of *)
(* a run and size of the cache: where a coroutine is (SlotsAgree), what    *)
(* the thread has reported (DeltaIsExact) and who waits for whom           *)
(* (ChildrenComeFirst) are inductive together, with the fact that only a   *)
(* coroutine that exists is held.  A coroutine that drains a child must    *)
(* not be in the queue, or the end of the child would queue it twice: that *)
(* is why the first of the three needs the last.                           *)
(*                                                                         *)
(* On top of it, the loops of coro_pool_t and coro_map for any number of   *)
(* runners, places and items (PoolIsBounded).  Each step of a loop is a    *)
(* step of the dispatcher and one of the semaphore; what has to be shown   *)
(* of the first is that it wakes nobody who should sleep.                  *)
(***************************************************************************)
EXTENDS CoroPool, FiniteSetTheorems, SequenceTheorems, TLAPS

States == {"none", "cached", "live", "blocked"}

Shapes ==
  /\ running \in Coros \cup {Null}
  /\ queue \in Seq(Coros)
  /\ cache \in Seq(Coros)
  /\ extant \in Nat /\ swaps \in Nat
  /\ delta \in Int /\ total \in Int /\ started \in Nat
  /\ state \in [Coros -> States]
  /\ owner \in [Coros -> Coros \cup {Null}]
  /\ dropping \in [Coros -> Coros \cup {Null}]

HeldExists == \A c \in Coros : owner[c] # Null => c \in Alive

Inv == Shapes /\ SlotsAgree /\ DeltaIsExact /\ ChildrenComeFirst /\ HeldExists

-----------------------------------------------------------------------------
\* Queues.

LEMMA HeadTail ==
  ASSUME NEW S, NEW q \in Seq(S), q # <<>>, IsInjective(q)
  PROVE  /\ Head(q) \in S /\ Tail(q) \in Seq(S)
         /\ IsInjective(Tail(q))
         /\ Head(q) \notin ToSet(Tail(q))
         /\ ToSet(q) = {Head(q)} \cup ToSet(Tail(q))
<1>1. /\ Head(q) = q[1] /\ 1 \in DOMAIN q
      /\ Tail(q) \in Seq(S) /\ DOMAIN Tail(q) = 1 .. Len(q) - 1
      /\ Len(q) \in Nat /\ DOMAIN q = 1 .. Len(q)
      /\ \A i \in DOMAIN Tail(q) :
           i + 1 \in DOMAIN q /\ Tail(q)[i] = q[i + 1] /\ i + 1 # 1 /\ i \in Nat
      /\ \A j \in DOMAIN q : j # 1 => j - 1 \in DOMAIN Tail(q) /\ (j - 1) + 1 = j
  OBVIOUS
<1>2. IsInjective(Tail(q))
  <2> SUFFICES ASSUME NEW i \in DOMAIN Tail(q), NEW j \in DOMAIN Tail(q), Tail(q)[i] = Tail(q)[j]
               PROVE  i = j
    BY DEF IsInjective
  <2>1. i + 1 = j + 1
    BY <1>1 DEF IsInjective
  <2> QED
    BY <1>1, <2>1
<1>3. Head(q) \notin ToSet(Tail(q))
  <2> SUFFICES ASSUME NEW i \in DOMAIN Tail(q), Tail(q)[i] = Head(q) PROVE FALSE
    BY DEF ToSet
  <2> QED
    BY <1>1 DEF IsInjective
<1>4. ASSUME NEW x PROVE x \in ToSet(q) <=> x = Head(q) \/ x \in ToSet(Tail(q))
  <2>1. ASSUME NEW j \in DOMAIN q PROVE q[j] = Head(q) \/ q[j] \in ToSet(Tail(q))
    <3>1. CASE j = 1
      BY <1>1, <3>1
    <3>2. CASE j # 1
      <4>1. PICK i \in DOMAIN Tail(q) : i + 1 = j
        BY <1>1, <3>2
      <4> QED
        BY <1>1, <4>1 DEF ToSet
    <3> QED
      BY <3>1, <3>2
  <2>2. ASSUME NEW i \in DOMAIN Tail(q) PROVE Tail(q)[i] \in ToSet(q)
    BY <1>1 DEF ToSet
  <2>3. Head(q) \in ToSet(q)
    BY <1>1 DEF ToSet
  <2> QED
    BY <2>1, <2>2, <2>3 DEF ToSet
<1> QED
  BY <1>1, <1>2, <1>3, <1>4

LEMMA AppendFacts ==
  ASSUME NEW S, NEW q \in Seq(S), IsInjective(q), NEW x \in S, x \notin ToSet(q)
  PROVE  /\ Append(q, x) \in Seq(S)
         /\ IsInjective(Append(q, x))
         /\ ToSet(Append(q, x)) = ToSet(q) \cup {x}
<1> DEFINE a == Append(q, x)
           n == Len(q)
<1>1. /\ a \in Seq(S) /\ n \in Nat /\ DOMAIN q = 1 .. n /\ DOMAIN a = 1 .. n + 1
      /\ \A i \in 1 .. n : a[i] = q[i]
      /\ a[n + 1] = x
  OBVIOUS
<1>2. \A i \in 1 .. n + 1 : i \in 1 .. n \/ i = n + 1
  BY <1>1
<1>3. \A i \in 1 .. n : q[i] # x /\ i \in 1 .. n + 1
  BY <1>1 DEF ToSet
<1> HIDE DEF a, n
<1>4. IsInjective(a)
  <2> SUFFICES ASSUME NEW i \in DOMAIN a, NEW j \in DOMAIN a, a[i] = a[j] PROVE i = j
    BY DEF IsInjective
  <2> QED
    BY <1>1, <1>2, <1>3 DEF IsInjective
<1>5. ToSet(a) = ToSet(q) \cup {x}
  <2>1. ASSUME NEW i \in DOMAIN a PROVE a[i] \in ToSet(q) \cup {x}
    BY <1>1, <1>2 DEF ToSet
  <2>2. ASSUME NEW i \in DOMAIN q PROVE q[i] \in ToSet(a)
    BY <1>1, <1>3 DEF ToSet
  <2>3. x \in ToSet(a)
    <3>1. n + 1 \in DOMAIN a
      BY <1>1
    <3> QED
      BY <1>1, <3>1 DEF ToSet
  <2> QED
    BY <2>1, <2>2, <2>3 DEF ToSet
<1> QED
  BY <1>1, <1>4, <1>5 DEF a

\* A queue that others are put behind.
LEMMA ConcatFacts ==
  ASSUME NEW S, NEW q \in Seq(S), NEW w \in Seq(S), IsInjective(q), IsInjective(w),
         \A x \in ToSet(w) : x \notin ToSet(q)
  PROVE  /\ q \o w \in Seq(S)
         /\ IsInjective(q \o w)
         /\ ToSet(q \o w) = ToSet(q) \cup ToSet(w)
<1> DEFINE a == q \o w
           n == Len(q)
           m == Len(w)
<1>1. /\ a \in Seq(S) /\ Len(a) = n + m
      /\ \A i \in 1 .. n + m : a[i] = IF i <= n THEN q[i] ELSE w[i - n]
  BY ConcatProperties
<1>2. /\ n \in Nat /\ m \in Nat /\ DOMAIN q = 1 .. n /\ DOMAIN w = 1 .. m /\ DOMAIN a = 1 .. n + m
  BY <1>1
<1> HIDE DEF a, n, m
<1>3. \A i \in DOMAIN a :
        \/ i \in DOMAIN q /\ a[i] = q[i] /\ a[i] \in ToSet(q)
        \/ /\ i - n \in DOMAIN w /\ a[i] = w[i - n] /\ a[i] \in ToSet(w)
           /\ i \in Nat
  <2> SUFFICES ASSUME NEW i \in DOMAIN a
               PROVE  \/ i \in DOMAIN q /\ a[i] = q[i] /\ a[i] \in ToSet(q)
                      \/ /\ i - n \in DOMAIN w /\ a[i] = w[i - n] /\ a[i] \in ToSet(w)
                         /\ i \in Nat
    OBVIOUS
  <2>1. CASE i <= n
    <3>1. i \in DOMAIN q /\ a[i] = q[i]
      BY <1>1, <1>2, <2>1
    <3> QED
      BY <3>1 DEF ToSet
  <2>2. CASE ~ (i <= n)
    <3>1. i - n \in DOMAIN w /\ a[i] = w[i - n] /\ i \in Nat
      BY <1>1, <1>2, <2>2
    <3> QED
      BY <3>1 DEF ToSet
  <2> QED
    BY <2>1, <2>2
<1>4. IsInjective(a)
  <2> SUFFICES ASSUME NEW i \in DOMAIN a, NEW j \in DOMAIN a, a[i] = a[j] PROVE i = j
    BY DEF IsInjective
  <2>1. CASE a[i] \in ToSet(q)
    <3>1. i \in DOMAIN q /\ j \in DOMAIN q /\ q[i] = q[j]
      BY <1>3, <2>1
    <3> QED
      BY <3>1 DEF IsInjective
  <2>2. CASE a[i] \notin ToSet(q)
    <3>1. /\ i - n \in DOMAIN w /\ j - n \in DOMAIN w /\ w[i - n] = w[j - n]
          /\ i \in Nat /\ j \in Nat
      BY <1>3, <2>2
    <3>2. i - n = j - n
      BY <3>1 DEF IsInjective
    <3> QED
      BY <1>2, <3>1, <3>2
  <2> QED
    BY <2>1, <2>2
<1>5. ToSet(a) = ToSet(q) \cup ToSet(w)
  <2>1. ASSUME NEW i \in DOMAIN a PROVE a[i] \in ToSet(q) \cup ToSet(w)
    BY <1>3
  <2>2. ASSUME NEW i \in DOMAIN q PROVE q[i] \in ToSet(a)
    <3>1. i \in DOMAIN a /\ a[i] = q[i]
      BY <1>1, <1>2
    <3> QED
      BY <3>1 DEF ToSet
  <2>3. ASSUME NEW i \in DOMAIN w PROVE w[i] \in ToSet(a)
    <3>1. i + n \in DOMAIN a /\ a[i + n] = w[i]
      <4>1. i + n \in 1 .. n + m /\ ~ (i + n <= n) /\ (i + n) - n = i
        BY <1>2
      <4> QED
        BY <1>1, <1>2, <4>1
    <3> QED
      BY <3>1 DEF ToSet
  <2> QED
    BY <2>1, <2>2, <2>3 DEF ToSet
<1> QED
  BY <1>1, <1>4, <1>5 DEF a

\* A slot is put at the front of the cache.
LEMMA FrontFacts ==
  ASSUME NEW S, NEW q \in Seq(S), IsInjective(q), NEW x \in S, x \notin ToSet(q)
  PROVE  /\ <<x>> \o q \in Seq(S)
         /\ IsInjective(<<x>> \o q)
         /\ ToSet(<<x>> \o q) = ToSet(q) \cup {x}
         /\ Len(<<x>> \o q) = Len(q) + 1
<1> DEFINE a == <<x>> \o q
           n == Len(q)
<1>1. <<x>> \in Seq(S) /\ Len(<<x>>) = 1 /\ <<x>>[1] = x
  OBVIOUS
<1>2. /\ a \in Seq(S) /\ Len(a) = 1 + n
      /\ \A i \in 1 .. 1 + n : a[i] = IF i <= 1 THEN <<x>>[i] ELSE q[i - 1]
  BY <1>1, ConcatProperties
<1> HIDE DEF a
<1>3. /\ n \in Nat /\ DOMAIN q = 1 .. n /\ DOMAIN a = 1 .. n + 1 /\ 1 \in DOMAIN a
      /\ Len(a) = n + 1
  BY <1>2
<1>4. /\ a[1] = x
      /\ \A i \in DOMAIN a : i # 1 => i - 1 \in DOMAIN q /\ a[i] = q[i - 1] /\ i \in Nat
      /\ \A i \in DOMAIN q : i + 1 \in DOMAIN a /\ i + 1 # 1 /\ (i + 1) - 1 = i
  BY <1>1, <1>2, <1>3
<1>5. IsInjective(a)
  <2> SUFFICES ASSUME NEW i \in DOMAIN a, NEW j \in DOMAIN a, a[i] = a[j] PROVE i = j
    BY DEF IsInjective
  <2>1. CASE i # 1 /\ j # 1
    <3>1. i - 1 = j - 1 /\ i \in Nat /\ j \in Nat
      BY <1>4, <2>1 DEF IsInjective
    <3> QED
      BY <3>1
  <2>2. CASE i = 1 /\ j # 1
    BY <1>4, <2>2 DEF ToSet
  <2>3. CASE i # 1 /\ j = 1
    BY <1>4, <2>3 DEF ToSet
  <2> QED
    BY <2>1, <2>2, <2>3
<1>6. ToSet(a) = ToSet(q) \cup {x}
  <2>1. ASSUME NEW i \in DOMAIN a PROVE a[i] \in ToSet(q) \cup {x}
    BY <1>4 DEF ToSet
  <2>2. ASSUME NEW i \in DOMAIN q PROVE q[i] \in ToSet(a)
    <3>1. i + 1 \in DOMAIN a /\ a[i + 1] = q[i]
      BY <1>4
    <3> QED
      BY <3>1 DEF ToSet
  <2>3. x \in ToSet(a)
    BY <1>3, <1>4 DEF ToSet
  <2> QED
    BY <2>1, <2>2, <2>3 DEF ToSet
<1> QED
  BY <1>2, <1>3, <1>5, <1>6 DEF a

-----------------------------------------------------------------------------
\* swap() takes whoever runs next from the queue, unless the run is over.
LEMMA SwapQueue ==
  ASSUME DispatcherAssumption, NEW q \in Seq(Coros), IsInjective(q), NEW st, NEW f, Swap(q, st, f)
  PROVE  /\ running' \in Coros \cup {Null} /\ queue' \in Seq(Coros)
         /\ IsInjective(queue') /\ running' \notin ToSet(queue')
         /\ \A x \in Coros : x \in ToSet(q) <=> running' = x \/ x \in ToSet(queue')
<1>1. Null \notin Coros
  BY DEF DispatcherAssumption
<1>2. \A s \in Seq(Coros) : ToSet(s) \subseteq Coros
  BY DEF ToSet
<1>3. CASE running' = Null /\ queue' = q
  BY <1>1, <1>2, <1>3
<1>4. CASE q # <<>> /\ running' = Head(q) /\ queue' = Tail(q)
  BY <1>4, HeadTail
<1> QED
  BY <1>3, <1>4 DEF Swap

\* A coroutine gives way: it has been put into the queue, or waits.
LEMMA GiveWay ==
  ASSUME DispatcherAssumption, Inv, running \in Coros,
         NEW q \in Seq(Coros), IsInjective(q), NEW st \in [Coros -> States],
         \A x \in Coros : st[x] = "live" <=> x \in ToSet(q),
         \A x \in Coros : st[x] = "cached" <=> state[x] = "cached",
         \A x \in Coros : st[x] = "none" <=> state[x] = "none",
         Swap(q, st, Null), started' = started,
         owner' = owner, dropping' \in [Coros -> Coros \cup {Null}]
  PROVE  /\ state' = st /\ Alive' = Alive
         /\ Shapes' /\ SlotsAgree' /\ DeltaIsExact' /\ HeldExists'
<1>1. Shapes /\ SlotsAgree /\ DeltaIsExact /\ HeldExists
  BY DEF Inv
<1>2. /\ state' = st /\ cache' = cache /\ extant' = extant /\ delta' = delta
      /\ swaps' = swaps + 1
      /\ total' = IF running' = Null THEN total + delta ELSE total
  <2>1. Null \notin Coros /\ (q # <<>> => Head(q) \in Coros)
    BY HeadTail DEF DispatcherAssumption
  <2> QED
    BY <2>1 DEF Swap
<1>3. Alive' = Alive
  BY <1>1, <1>2 DEF Alive, Shapes, States
<1>4. /\ running' \in Coros \cup {Null} /\ queue' \in Seq(Coros)
      /\ IsInjective(queue') /\ running' \notin ToSet(queue')
      /\ \A x \in Coros : x \in ToSet(q) <=> running' = x \/ x \in ToSet(queue')
  BY SwapQueue
<1>5. Shapes'
  <2>1. swaps' \in Nat /\ total' \in Int /\ delta' \in Int /\ extant' \in Nat /\ started' \in Nat
    BY <1>1, <1>2 DEF Shapes
  <2> QED
    BY <1>1, <1>2, <1>4, <2>1 DEF Shapes
<1>6. SlotsAgree'
  BY <1>1, <1>2, <1>3, <1>4 DEF SlotsAgree
<1>7. DeltaIsExact'
  <2>1. running # Null
    BY DEF DispatcherAssumption
  <2>2. total + delta = Cardinality(Alive) - started
    BY <1>1, <2>1 DEF DeltaIsExact
  <2>3. total' + (IF running' = Null THEN 0 ELSE delta') = total + delta
    BY <1>1, <1>2 DEF Shapes
  <2> QED
    BY <1>3, <2>2, <2>3 DEF DeltaIsExact
<1>8. HeldExists'
  BY <1>1, <1>3 DEF HeldExists
<1> QED
  BY <1>2, <1>3, <1>5, <1>6, <1>7, <1>8

LEMMA AliveIsFinite ==
  ASSUME DispatcherAssumption
  PROVE  IsFiniteSet(Alive) /\ Cardinality(Alive) \in Nat
<1>1. Alive \subseteq Coros
  BY DEF Alive
<1> QED
  BY <1>1, FS_Subset, FS_CardinalityType DEF DispatcherAssumption

LEMMA YieldKeeps ==
  ASSUME DispatcherAssumption, Inv, NEW c \in Coros, Yield(c)
  PROVE  Inv' /\ state' = state /\ Alive' = Alive
<1>1. Shapes /\ SlotsAgree /\ ChildrenComeFirst
  BY DEF Inv
<1>2. running = c /\ c \notin ToSet(queue) /\ state[c] = "live"
  BY <1>1 DEF Yield, SlotsAgree
<1> DEFINE q == Append(queue, c)
<1>3. q \in Seq(Coros) /\ IsInjective(q) /\ ToSet(q) = ToSet(queue) \cup {c}
  BY <1>1, <1>2, AppendFacts DEF Shapes, SlotsAgree
<1>4. \A x \in Coros : state[x] = "live" <=> x \in ToSet(q)
  BY <1>1, <1>2, <1>3 DEF SlotsAgree
<1>5. Swap(q, state, Null) /\ UNCHANGED <<started, owner, dropping>>
  BY DEF Yield
<1> HIDE DEF q
<1>6. state' = state /\ Alive' = Alive /\ Shapes' /\ SlotsAgree' /\ DeltaIsExact' /\ HeldExists'
  BY <1>1, <1>2, <1>3, <1>4, <1>5, GiveWay DEF Shapes
<1>7. ChildrenComeFirst'
  BY <1>1, <1>5, <1>6 DEF ChildrenComeFirst
<1> QED
  BY <1>6, <1>7 DEF Inv

LEMMA BlockKeeps ==
  ASSUME DispatcherAssumption, Inv, NEW c \in Coros, Block(c)
  PROVE  /\ Inv' /\ Alive' = Alive /\ state'[c] = "blocked"
         /\ \A x \in Coros : x # c => state'[x] = state[x]
<1> DEFINE st == [state EXCEPT ![c] = "blocked"]
<1>1. Shapes /\ SlotsAgree /\ ChildrenComeFirst
  BY DEF Inv
<1>2. running = c /\ c \notin ToSet(queue) /\ state[c] = "live"
  BY <1>1 DEF Block, SlotsAgree
<1>3. /\ st \in [Coros -> States] /\ st[c] = "blocked"
      /\ \A x \in Coros : x # c => st[x] = state[x]
  BY <1>1 DEF Shapes, States
<1>4. Swap(queue, st, Null) /\ UNCHANGED <<started, owner, dropping>>
  BY DEF Block
<1> HIDE DEF st
<1>5. \A x \in Coros : /\ st[x] = "live" <=> x \in ToSet(queue)
                       /\ st[x] = "cached" <=> state[x] = "cached"
                       /\ st[x] = "none" <=> state[x] = "none"
  BY <1>1, <1>2, <1>3 DEF SlotsAgree
<1>6. state' = st /\ Alive' = Alive /\ Shapes' /\ SlotsAgree' /\ DeltaIsExact' /\ HeldExists'
  BY <1>1, <1>2, <1>3, <1>4, <1>5, GiveWay, ZenonT(60) DEF Shapes, SlotsAgree
<1>7. ChildrenComeFirst'
  BY <1>1, <1>3, <1>4, <1>6 DEF ChildrenComeFirst
<1> QED
  BY <1>3, <1>6, <1>7 DEF Inv

\* The holder of a result waits for a child, which it may have to wake.
LEMMA DropKeeps ==
  ASSUME DispatcherAssumption, Inv, NEW p \in Coros, NEW c \in Coros, Drop(p, c)
  PROVE  /\ Inv' /\ Alive' = Alive
         /\ \A x \in Coros : x # p /\ x # c => state'[x] = state[x]
<1> DEFINE st == [state EXCEPT ![p] = "blocked"]
           inWait == state[c] = "blocked" /\ dropping[c] = Null
<1>1. Shapes /\ SlotsAgree /\ ChildrenComeFirst /\ HeldExists
  BY DEF Inv
<1>2. running = p /\ p \notin ToSet(queue) /\ state[p] = "live" /\ owner[c] = p
  BY <1>1 DEF Drop, SlotsAgree
<1>3. /\ st \in [Coros -> States] /\ st[p] = "blocked"
      /\ \A x \in Coros : x # p => st[x] = state[x]
  BY <1>1 DEF Shapes, States
<1>4. /\ UNCHANGED <<started, owner>>
      /\ dropping' = [dropping EXCEPT ![p] = c]
      /\ IF inWait THEN Swap(Append(queue, c), Notify(<<c>>, st), Null)
                   ELSE Swap(queue, st, Null)
  BY DEF Drop
<1> HIDE DEF st
<1>5. /\ dropping' \in [Coros -> Coros \cup {Null}]
      /\ dropping'[p] = c /\ \A x \in Coros : x # p => dropping'[x] = dropping[x]
  BY <1>1, <1>4 DEF Shapes
<1>6. c \in Alive /\ Null \notin Coros
  BY <1>1, <1>2 DEF HeldExists, DispatcherAssumption
<1>7. dropping[p] \notin Coros
  BY <1>1, <1>2 DEF ChildrenComeFirst
<1>8. CASE ~ inWait
  <2>1. \A x \in Coros : /\ st[x] = "live" <=> x \in ToSet(queue)
                         /\ st[x] = "cached" <=> state[x] = "cached"
                         /\ st[x] = "none" <=> state[x] = "none"
    BY <1>1, <1>2, <1>3 DEF SlotsAgree
  <2>2. state' = st /\ Alive' = Alive /\ Shapes' /\ SlotsAgree' /\ DeltaIsExact' /\ HeldExists'
    BY <1>1, <1>2, <1>3, <1>4, <1>5, <1>8, <2>1, GiveWay DEF Shapes, SlotsAgree
  <2>3. ChildrenComeFirst'
    BY <1>1, <1>2, <1>3, <1>4, <1>5, <1>6, <2>2 DEF ChildrenComeFirst
  <2> QED
    BY <1>3, <2>2, <2>3 DEF Inv
<1>9. CASE inWait
  <2> DEFINE q == Append(queue, c)
             nt == Notify(<<c>>, st)
  <2>1. c # p /\ c \notin ToSet(queue)
    BY <1>1, <1>2, <1>9 DEF SlotsAgree
  <2>2. q \in Seq(Coros) /\ IsInjective(q) /\ ToSet(q) = ToSet(queue) \cup {c}
    BY <1>1, <2>1, AppendFacts DEF Shapes, SlotsAgree
  <2>3. ToSet(<<c>>) = {c}
    BY DEF ToSet
  <2>4. /\ nt \in [Coros -> States] /\ nt[c] = "live" /\ nt[p] = "blocked"
        /\ \A x \in Coros : x # p /\ x # c => nt[x] = state[x]
    BY <1>3, <2>1, <2>3 DEF Notify, States
  <2>5. Swap(q, nt, Null)
    BY <1>4, <1>9
  <2> HIDE DEF q, nt
  <2>6. \A x \in Coros : /\ nt[x] = "live" <=> x \in ToSet(q)
                         /\ nt[x] = "cached" <=> state[x] = "cached"
                         /\ nt[x] = "none" <=> state[x] = "none"
    BY <1>1, <1>2, <1>9, <2>1, <2>2, <2>4 DEF SlotsAgree
  <2>7. state' = nt /\ Alive' = Alive /\ Shapes' /\ SlotsAgree' /\ DeltaIsExact' /\ HeldExists'
    BY <1>2, <1>4, <1>5, <2>2, <2>4, <2>5, <2>6, GiveWay
  <2>8. ChildrenComeFirst'
    BY <1>1, <1>2, <1>4, <1>5, <1>6, <1>9, <2>4, <2>7 DEF ChildrenComeFirst
  <2> QED
    BY <2>4, <2>7, <2>8 DEF Inv
<1> QED
  BY <1>8, <1>9

LEMMA WakeKeeps ==
  ASSUME DispatcherAssumption, Inv, NEW c \in Coros, Wake(c)
  PROVE  Inv'
<1>1. Shapes /\ SlotsAgree /\ DeltaIsExact /\ ChildrenComeFirst /\ HeldExists
  BY DEF Inv
<1>2. /\ state[c] = "blocked" /\ dropping[c] = Null
      /\ queue' = Append(queue, c) /\ state' = Notify(<<c>>, state)
      /\ UNCHANGED <<running, cache, extant, swaps, delta, started, total, owner, dropping>>
  BY DEF Wake
<1>3. c # running /\ c \notin ToSet(queue)
  BY <1>1, <1>2 DEF SlotsAgree
<1>4. queue' \in Seq(Coros) /\ IsInjective(queue') /\ ToSet(queue') = ToSet(queue) \cup {c}
  BY <1>1, <1>2, <1>3, AppendFacts DEF Shapes, SlotsAgree
<1>5. ToSet(<<c>>) = {c}
  BY DEF ToSet
<1>6. /\ state' \in [Coros -> States] /\ state'[c] = "live"
      /\ \A x \in Coros : x # c => state'[x] = state[x]
  BY <1>1, <1>2, <1>5 DEF Notify, Shapes, States
<1>7. Alive' = Alive
  BY <1>2, <1>6 DEF Alive
<1>8. Shapes'
  BY <1>1, <1>2, <1>4, <1>6 DEF Shapes
<1>9. SlotsAgree'
  BY <1>1, <1>2, <1>3, <1>4, <1>6, <1>7 DEF SlotsAgree
<1>10. DeltaIsExact' /\ HeldExists'
  BY <1>1, <1>2, <1>7 DEF DeltaIsExact, HeldExists
<1>11. ChildrenComeFirst'
  <2>1. Null \notin Coros
    BY DEF DispatcherAssumption
  <2> QED
    BY <1>1, <1>2, <1>6, <1>7, <2>1 DEF ChildrenComeFirst
<1> QED
  BY <1>8, <1>9, <1>10, <1>11 DEF Inv

\* A coroutine gets a slot that nobody has, from the cache if there is one.
LEMMA SpawnKeeps ==
  ASSUME DispatcherAssumption, Inv, NEW p \in Coros, NEW c \in Coros, NEW type, Spawn(p, c, type)
  PROVE  /\ Inv' /\ c \notin Alive /\ Alive' = Alive \cup {c}
         /\ \A x \in Coros : x # c => state'[x] = state[x]
<1>1. Shapes /\ SlotsAgree /\ DeltaIsExact /\ ChildrenComeFirst /\ HeldExists
  BY DEF Inv
<1>2. /\ running = p /\ FreeSlot(c)
      /\ cache' = IF cache = <<>> THEN cache ELSE Tail(cache)
      /\ extant' = extant + 1 /\ delta' = delta + 1
      /\ state' = [state EXCEPT ![c] = "live"]
      /\ owner' = [owner EXCEPT ![c] = IF type = "Detached" THEN Null ELSE p]
      /\ UNCHANGED <<started, total, dropping>>
  BY DEF Spawn
<1>3. /\ cache' \in Seq(Coros) /\ IsInjective(cache') /\ Len(cache') <= MaxCache
      /\ state[c] \in {"none", "cached"}
      /\ \A x \in Coros : x \in ToSet(cache') <=> x \in ToSet(cache) /\ x # c
  <2>1. CASE cache = <<>>
    BY <1>1, <1>2, <2>1 DEF Shapes, SlotsAgree, FreeSlot, ToSet
  <2>2. CASE cache # <<>>
    <3>1. cache \in Seq(Coros) /\ IsInjective(cache) /\ c = Head(cache) /\ cache' = Tail(cache)
      BY <1>1, <1>2, <2>2 DEF Shapes, SlotsAgree, FreeSlot
    <3>2. /\ Tail(cache) \in Seq(Coros) /\ IsInjective(Tail(cache))
          /\ c \notin ToSet(Tail(cache)) /\ ToSet(cache) = {c} \cup ToSet(Tail(cache))
      BY <2>2, <3>1, HeadTail
    <3>3. Len(Tail(cache)) <= MaxCache
      <4>1. Len(cache) <= MaxCache
        BY <1>1 DEF SlotsAgree
      <4>2. Len(Tail(cache)) = Len(cache) - 1 /\ Len(cache) \in Nat
        BY <2>2, <3>1
      <4> QED
        BY <4>1, <4>2 DEF DispatcherAssumption
    <3>4. state[c] = "cached"
      BY <1>1, <3>2 DEF SlotsAgree
    <3> QED
      BY <3>1, <3>2, <3>3, <3>4
  <2> QED
    BY <2>1, <2>2
<1>4. /\ state' \in [Coros -> States] /\ state'[c] = "live"
      /\ \A x \in Coros : x # c => state'[x] = state[x]
  BY <1>1, <1>2 DEF Shapes, States
<1>5. c \notin Alive /\ Alive' = Alive \cup {c}
  BY <1>3, <1>4 DEF Alive
<1>6. Cardinality(Alive') = Cardinality(Alive) + 1 /\ Cardinality(Alive) \in Nat
  BY <1>5, AliveIsFinite, FS_AddElement
<1>7. /\ state[p] = "live" /\ p \notin ToSet(queue) /\ c # p /\ c \notin ToSet(queue)
      /\ Null \notin Coros
  BY <1>1, <1>2, <1>3 DEF SlotsAgree, DispatcherAssumption
<1>8. PICK x \in {c, p} :
        /\ queue' = Append(queue, x)
        /\ running' \in {c, p} \ {x}
        /\ swaps' \in {swaps, swaps + 1}
  <2>1. CASE type = "Immediate"
    BY <1>2, <1>7, <2>1 DEF Spawn
  <2>2. CASE type # "Immediate"
    BY <1>2, <1>7, <2>2 DEF Spawn
  <2> QED
    BY <2>1, <2>2
<1>9. queue' \in Seq(Coros) /\ IsInjective(queue') /\ ToSet(queue') = ToSet(queue) \cup {x}
  BY <1>1, <1>7, <1>8, AppendFacts DEF Shapes, SlotsAgree
<1>10. Shapes'
  <2>1. swaps' \in Nat /\ extant' \in Nat /\ delta' \in Int
    BY <1>1, <1>2, <1>8 DEF Shapes
  <2> QED
    BY <1>1, <1>2, <1>3, <1>4, <1>8, <1>9, <2>1 DEF Shapes
<1>11. SlotsAgree'
  <2>1. \A y \in Coros : (state'[y] = "live") = (running' = y \/ y \in ToSet(queue'))
    BY <1>1, <1>2, <1>4, <1>7, <1>8, <1>9 DEF SlotsAgree
  <2>2. \A y \in Coros : (state'[y] = "cached") = (y \in ToSet(cache'))
    <3> SUFFICES ASSUME NEW y \in Coros PROVE state'[y] = "cached" <=> y \in ToSet(cache')
      OBVIOUS
    <3>1. state[y] = "cached" <=> y \in ToSet(cache)
      BY <1>1 DEF SlotsAgree
    <3>2. CASE y = c
      BY <1>3, <1>4, <3>2
    <3>3. CASE y # c
      BY <1>3, <1>4, <3>1, <3>3
    <3> QED
      BY <3>2, <3>3
  <2>3. running' \notin ToSet(queue')
    BY <1>7, <1>8, <1>9
  <2>4. extant' = Cardinality(Alive')
    BY <1>1, <1>2, <1>6 DEF SlotsAgree
  <2> QED
    BY <1>3, <1>9, <2>1, <2>2, <2>3, <2>4 DEF SlotsAgree
<1>12. DeltaIsExact'
  <2>1. running # Null /\ running' # Null
    BY <1>2, <1>7, <1>8
  <2>2. total + delta = Cardinality(Alive) - started
    BY <1>1, <2>1 DEF DeltaIsExact
  <2>3. total' + delta' = Cardinality(Alive') - started'
    <3>1. PICK n \in Nat : n = Cardinality(Alive) /\ n + 1 = Cardinality(Alive')
      BY <1>6
    <3>2. total + delta = n - started /\ total \in Int /\ delta \in Int /\ started \in Nat
      BY <1>1, <2>2, <3>1 DEF Shapes
    <3>3. total + (delta + 1) = (n + 1) - started
      BY <3>2
    <3> QED
      BY <1>2, <3>1, <3>3
  <2> QED
    BY <2>1, <2>3 DEF DeltaIsExact
<1>13. HeldExists'
  <2>1. \A y \in Coros : y # c => owner'[y] = owner[y]
    BY <1>1, <1>2 DEF Shapes
  <2> QED
    BY <1>1, <1>5, <2>1 DEF HeldExists
<1>14. ChildrenComeFirst'
  <2>1. \A y \in Coros : y # c => owner'[y] = owner[y]
    BY <1>1, <1>2 DEF Shapes
  <2>2. owner'[c] \in {p, Null}
    BY <1>1, <1>2 DEF Shapes
  <2>3. p \in Alive /\ \A y \in Coros : dropping[y] # c
    BY <1>1, <1>5, <1>7 DEF ChildrenComeFirst, Alive
  <2>4. \A y \in Coros : state[y] = "blocked" => state'[y] = "blocked"
    BY <1>3, <1>4
  <2> QED
    BY <1>1, <1>2, <1>5, <1>7, <2>1, <2>2, <2>3, <2>4 DEF ChildrenComeFirst
<1> QED
  BY <1>4, <1>5, <1>10, <1>11, <1>12, <1>13, <1>14 DEF Inv

\* Coroutines that are in a wait.
Waits(cs) ==
  /\ cs \in Seq(Coros) /\ IsInjective(cs)
  /\ \A x \in ToSet(cs) : state[x] = "blocked" /\ dropping[x] = Null

\* Those who are in a wait go to the end of the queue.
LEMMA NotifyFacts ==
  ASSUME DispatcherAssumption, Inv, NEW cs \in Seq(Coros), IsInjective(cs),
         \A x \in ToSet(cs) : state[x] = "blocked"
  PROVE  /\ queue \o cs \in Seq(Coros) /\ IsInjective(queue \o cs)
         /\ ToSet(queue \o cs) = ToSet(queue) \cup ToSet(cs)
         /\ Notify(cs, state) \in [Coros -> States]
         /\ \A x \in Coros :
              /\ Notify(cs, state)[x] = IF x \in ToSet(cs) THEN "live" ELSE state[x]
              /\ x # running => (Notify(cs, state)[x] = "live" <=> x \in ToSet(queue \o cs))
              /\ Notify(cs, state)[x] = "cached" <=> state[x] = "cached"
              /\ Notify(cs, state)[x] = "none" <=> state[x] = "none"
<1> DEFINE st == Notify(cs, state)
<1>1. Shapes /\ SlotsAgree
  BY DEF Inv
<1>2. ToSet(cs) \subseteq Coros
  BY DEF ToSet
<1>3. \A x \in ToSet(cs) : x \notin ToSet(queue)
  BY <1>1, <1>2 DEF SlotsAgree
<1>4. /\ queue \o cs \in Seq(Coros) /\ IsInjective(queue \o cs)
      /\ ToSet(queue \o cs) = ToSet(queue) \cup ToSet(cs)
  BY <1>1, <1>3, ConcatFacts DEF Shapes, SlotsAgree
<1>5. /\ st \in [Coros -> States]
      /\ \A x \in Coros : st[x] = IF x \in ToSet(cs) THEN "live" ELSE state[x]
  BY <1>1 DEF Notify, Shapes, States
<1> HIDE DEF st
<1>6. ASSUME NEW x \in Coros
      PROVE  /\ x # running => (st[x] = "live" <=> x \in ToSet(queue) \cup ToSet(cs))
             /\ st[x] = "cached" <=> state[x] = "cached"
             /\ st[x] = "none" <=> state[x] = "none"
  BY <1>1, <1>5 DEF SlotsAgree
<1> QED
  BY <1>4, <1>5, <1>6 DEF st

\* A coroutine returns: its slot is kept or freed, and its parent goes on if it drains,
\* after the `others' that its destructors have woken.
LEMMA EndKeeps ==
  ASSUME DispatcherAssumption, Inv, NEW c \in Coros, NEW others, Waits(others), End(c, others)
  PROVE  /\ Inv' /\ Alive' = Alive \ {c}
         /\ \A x \in Coros : state[x] = "blocked" /\ x \notin ToSet(others) /\ dropping[x] # c
                            => state'[x] = "blocked"
<1> DEFINE waiting == IF Interrupted(c) THEN <<owner[c]>> ELSE <<>>
           woken == others \o waiting
           q == queue \o woken
           st == Notify(woken, state)
           gone == [st EXCEPT ![c] = IF Len(cache) >= MaxCache THEN "none" ELSE "cached"]
<1>1. Shapes /\ SlotsAgree /\ DeltaIsExact /\ ChildrenComeFirst /\ HeldExists
  BY DEF Inv
<1>2. /\ running = c
      /\ \A k \in Coros : owner[k] # c
      /\ owner' = [owner EXCEPT ![c] = Null]
      /\ dropping' = [p \in Coros |-> IF dropping[p] = c THEN Null ELSE dropping[p]]
      /\ Swap(q, st, c)
      /\ started' = started
  BY DEF End
<1>3. c \notin ToSet(queue) /\ state[c] = "live" /\ c \in Alive /\ Null \notin Coros
  BY <1>1, <1>2 DEF SlotsAgree, Alive, DispatcherAssumption
\* Whoever waits for c is its owner, which is blocked.
<1>4. /\ waiting \in Seq(Coros) /\ IsInjective(waiting)
      /\ ToSet(waiting) = {x \in Coros : dropping[x] = c}
  <2>1. \A p \in Coros : dropping[p] = c => p = owner[c]
    BY <1>1 DEF ChildrenComeFirst
  <2>2. CASE ~ Interrupted(c)
    <3>1. waiting = <<>> /\ ToSet(<<>>) = {} /\ IsInjective(<<>>)
      BY <2>2 DEF ToSet, IsInjective
    <3> QED
      BY <2>2, <3>1 DEF Interrupted
  <2>3. CASE Interrupted(c)
    <3>1. waiting = <<owner[c]>> /\ owner[c] \in Coros /\ dropping[owner[c]] = c
      BY <2>1, <2>3 DEF Interrupted
    <3>2. ToSet(<<owner[c]>>) = {owner[c]} /\ IsInjective(<<owner[c]>>)
      BY DEF ToSet, IsInjective
    <3> QED
      BY <2>1, <3>1, <3>2
  <2> QED
    BY <2>2, <2>3
<1>5. /\ woken \in Seq(Coros) /\ IsInjective(woken)
      /\ ToSet(woken) = ToSet(others) \cup {x \in Coros : dropping[x] = c}
  <2>1. \A x \in ToSet(waiting) : x \notin ToSet(others)
    BY <1>3, <1>4 DEF Waits
  <2>2. others \in Seq(Coros) /\ IsInjective(others)
    BY DEF Waits
  <2> HIDE DEF waiting
  <2> QED
    BY <1>4, <2>1, <2>2, ConcatFacts
<1> HIDE DEF woken, waiting
<1>5a. \A x \in ToSet(woken) : state[x] = "blocked" /\ (dropping[x] = Null \/ dropping[x] = c)
  BY <1>1, <1>5 DEF Waits, ChildrenComeFirst
<1>5b. /\ q \in Seq(Coros) /\ IsInjective(q) /\ c \notin ToSet(q)
       /\ st \in [Coros -> States]
       /\ \A x \in Coros : x # c => (st[x] = "live" <=> x \in ToSet(q))
       /\ \A x \in Coros : st[x] = "cached" <=> state[x] = "cached"
       /\ \A x \in Coros : st[x] = "none" <=> state[x] = "none"
       /\ \A x \in Coros : x \notin ToSet(woken) => st[x] = state[x]
  <2>1. c \notin ToSet(woken)
    BY <1>3, <1>5a
  <2> QED
    BY <1>2, <1>3, <1>5, <1>5a, <2>1, NotifyFacts
<1> HIDE DEF q, st
<1>6. /\ swaps' = swaps + 1 /\ delta' = delta - 1 /\ extant' = extant - 1
      /\ total' = IF running' = Null THEN total + delta' ELSE total
      /\ state' = gone
      /\ cache' = IF Len(cache) >= MaxCache THEN cache ELSE <<c>> \o cache
  <2>1. q # <<>> => Head(q) \in Coros
    BY <1>5b, HeadTail
  <2> QED
    BY <1>2, <1>3, <2>1 DEF Swap
<1>7. /\ state' \in [Coros -> States]
      /\ state'[c] = IF Len(cache) >= MaxCache THEN "none" ELSE "cached"
      /\ \A x \in Coros : x # c => state'[x] = st[x]
  BY <1>5b, <1>6 DEF States
<1> HIDE DEF gone
\* The other slots are as they were, but for the one that goes on.
<1>7a. ASSUME NEW x \in Coros \ {c}
       PROVE  /\ state'[x] = "live" <=> x \in ToSet(q)
              /\ state'[x] = "cached" <=> x \in ToSet(cache)
              /\ state'[x] \in {"live", "blocked"} <=> x \in Alive
              /\ x \notin ToSet(woken) => state'[x] = state[x]
  <2>1. state'[x] = st[x] /\ st[x] \in States /\ state[x] \in States
    BY <1>1, <1>5b, <1>7, <1>7a DEF Shapes
  <2>2. /\ st[x] = "live" <=> x \in ToSet(q)
        /\ st[x] = "cached" <=> state[x] = "cached"
        /\ st[x] = "none" <=> state[x] = "none"
        /\ x \notin ToSet(woken) => st[x] = state[x]
    <3>1. /\ st[x] = "live" <=> x \in ToSet(q)
          /\ st[x] = "cached" <=> state[x] = "cached"
          /\ st[x] = "none" <=> state[x] = "none"
      BY <1>5b, <1>7a
    <3>2. x \notin ToSet(woken) => st[x] = state[x]
      BY <1>5b
    <3> QED
      BY <3>1, <3>2
  <2>3. state[x] = "cached" <=> x \in ToSet(cache)
    BY <1>1 DEF SlotsAgree
  <2>4. st[x] \in {"live", "blocked"} <=> x \in Alive
    BY <2>1, <2>2 DEF Alive, States
  <2> QED
    BY <2>1, <2>2, <2>3, <2>4
<1>7b. state'[c] \in {"none", "cached"}
  BY <1>7
<1>8. Alive' = Alive \ {c}
  <2>1. ASSUME NEW x \in Coros PROVE x \in Alive' <=> x \in Alive /\ x # c
    <3>1. x \in Alive' <=> state'[x] \in {"live", "blocked"}
      BY DEF Alive
    <3>2. CASE x = c
      BY <1>7b, <3>1, <3>2
    <3>3. CASE x # c
      BY <1>7a, <3>1, <3>3
    <3> QED
      BY <3>2, <3>3
  <2> QED
    BY <2>1 DEF Alive
<1>9. /\ Cardinality(Alive') = Cardinality(Alive) - 1
      /\ Cardinality(Alive) \in Nat /\ Cardinality(Alive') \in Nat
  BY <1>3, <1>8, AliveIsFinite, FS_RemoveElement, FS_CardinalityType
<1>10. /\ running' \in Coros \cup {Null} /\ queue' \in Seq(Coros)
       /\ IsInjective(queue') /\ running' \notin ToSet(queue')
       /\ \A x \in Coros : x \in ToSet(q) <=> running' = x \/ x \in ToSet(queue')
  BY <1>2, <1>5b, SwapQueue
<1>11. /\ cache' \in Seq(Coros) /\ IsInjective(cache') /\ Len(cache') <= MaxCache
       /\ \A x \in Coros : state'[x] = "cached" <=> x \in ToSet(cache')
  <2>1. /\ cache \in Seq(Coros) /\ IsInjective(cache) /\ c \notin ToSet(cache)
        /\ Len(cache) \in Nat /\ Len(cache) <= MaxCache /\ MaxCache \in Nat
    BY <1>1, <1>3 DEF Shapes, SlotsAgree, DispatcherAssumption
  <2>2. CASE Len(cache) >= MaxCache
    <3>1. cache' = cache /\ state'[c] = "none"
      BY <1>6, <1>7, <2>2
    <3>2. ASSUME NEW x \in Coros PROVE state'[x] = "cached" <=> x \in ToSet(cache)
      BY <1>7a, <2>1, <3>1
    <3> QED
      BY <2>1, <3>1, <3>2
  <2>3. CASE ~ (Len(cache) >= MaxCache)
    <3>1. /\ <<c>> \o cache \in Seq(Coros) /\ IsInjective(<<c>> \o cache)
          /\ ToSet(<<c>> \o cache) = ToSet(cache) \cup {c}
          /\ Len(<<c>> \o cache) = Len(cache) + 1
      BY <2>1, FrontFacts
    <3>2. Len(cache) + 1 <= MaxCache
      BY <2>1, <2>3
    <3>3. cache' = <<c>> \o cache /\ state'[c] = "cached"
      BY <1>6, <1>7, <2>3
    <3>4. ASSUME NEW x \in Coros PROVE state'[x] = "cached" <=> x \in ToSet(cache) \cup {c}
      BY <1>7a, <3>3
    <3> QED
      BY <3>1, <3>2, <3>3, <3>4
  <2> QED
    BY <2>2, <2>3
<1>12. /\ owner' \in [Coros -> Coros \cup {Null}] /\ owner'[c] = Null
       /\ \A x \in Coros : x # c => owner'[x] = owner[x]
       /\ dropping' \in [Coros -> Coros \cup {Null}]
       /\ \A x \in Coros : dropping'[x] = IF dropping[x] = c THEN Null ELSE dropping[x]
  BY <1>1, <1>2 DEF Shapes
<1>13. Shapes'
  <2>1. swaps' \in Nat /\ delta' \in Int /\ total' \in Int /\ started' \in Nat
    BY <1>1, <1>2, <1>6 DEF Shapes
  <2>2. extant' \in Nat
    <3>1. extant = Cardinality(Alive)
      BY <1>1 DEF SlotsAgree
    <3> QED
      BY <1>6, <1>9, <3>1
  <2> QED
    BY <1>7, <1>10, <1>11, <1>12, <2>1, <2>2 DEF Shapes
<1>14. SlotsAgree'
  <2>1. \A x \in Coros : (state'[x] = "live") = (running' = x \/ x \in ToSet(queue'))
    <3> SUFFICES ASSUME NEW x \in Coros
                 PROVE  state'[x] = "live" <=> running' = x \/ x \in ToSet(queue')
      OBVIOUS
    <3>1. x \in ToSet(q) <=> running' = x \/ x \in ToSet(queue')
      BY <1>10
    <3>2. CASE x = c
      BY <1>5b, <1>7b, <3>1, <3>2
    <3>3. CASE x # c
      BY <1>7a, <3>1, <3>3
    <3> QED
      BY <3>2, <3>3
  <2>2. extant' = Cardinality(Alive')
    BY <1>1, <1>6, <1>9 DEF SlotsAgree
  <2> QED
    BY <1>10, <1>11, <2>1, <2>2 DEF SlotsAgree
<1>15. DeltaIsExact'
  <2>1. total + delta = Cardinality(Alive) - started
    BY <1>1, <1>2, <1>3 DEF DeltaIsExact
  <2>2. total' + (IF running' = Null THEN 0 ELSE delta') = total + (delta - 1)
    BY <1>1, <1>6 DEF Shapes
  <2>3. total + (delta - 1) = (Cardinality(Alive) - 1) - started
    BY <1>1, <1>9, <2>1 DEF Shapes
  <2> QED
    BY <1>2, <1>9, <2>2, <2>3 DEF DeltaIsExact
<1>16. HeldExists'
  BY <1>1, <1>3, <1>8, <1>12 DEF HeldExists
<1>17. ChildrenComeFirst'
  <2> SUFFICES ASSUME NEW p \in Coros, NEW x \in Coros
               PROVE  /\ dropping'[p] = x => owner'[x] = p /\ x \in Alive' /\ state'[p] = "blocked"
                      /\ owner'[x] = p => p \in Alive'
    BY DEF ChildrenComeFirst
  <2>1. ASSUME dropping'[p] = x
        PROVE  owner'[x] = p /\ x \in Alive' /\ state'[p] = "blocked"
    <3>1. dropping[p] = x /\ x # c
      BY <1>3, <1>12, <2>1
    <3>2. owner[x] = p /\ x \in Alive /\ state[p] = "blocked" /\ p # c
      BY <1>1, <1>3, <3>1 DEF ChildrenComeFirst
    <3>3. p \notin ToSet(woken)
      BY <1>3, <1>5a, <3>1
    <3> QED
      BY <1>8, <1>12, <1>7a, <3>1, <3>2, <3>3
  <2>2. ASSUME owner'[x] = p PROVE p \in Alive'
    <3>1. owner[x] = p /\ p # c
      BY <1>2, <1>3, <1>12, <2>2
    <3> QED
      BY <1>1, <1>8, <3>1 DEF ChildrenComeFirst
  <2> QED
    BY <2>1, <2>2
<1>18. ASSUME NEW x \in Coros, state[x] = "blocked", x \notin ToSet(others), dropping[x] # c
       PROVE  state'[x] = "blocked"
  BY <1>3, <1>5, <1>7a, <1>18
<1> QED
  BY <1>8, <1>13, <1>14, <1>15, <1>16, <1>17, <1>18 DEF Inv

LEMMA WaitsNobody == Waits(<<>>)
  BY DEF Waits, ToSet, IsInjective

LEMMA RunKeeps ==
  ASSUME DispatcherAssumption, Inv, Run
  PROVE  Inv'
<1>1. Shapes /\ SlotsAgree /\ DeltaIsExact /\ ChildrenComeFirst /\ HeldExists
  BY DEF Inv
<1>2. /\ running = Null /\ queue # <<>>
      /\ running' = Head(queue) /\ queue' = Tail(queue)
      /\ swaps' = 0 /\ delta' = 0
      /\ UNCHANGED <<started, cache, extant, total, state, owner, dropping>>
  BY DEF Run
<1>3. /\ Head(queue) \in Coros /\ Tail(queue) \in Seq(Coros) /\ IsInjective(Tail(queue))
      /\ Head(queue) \notin ToSet(Tail(queue))
      /\ ToSet(queue) = {Head(queue)} \cup ToSet(Tail(queue))
  BY <1>1, <1>2, HeadTail DEF Shapes, SlotsAgree
<1>4. Alive' = Alive /\ Null \notin Coros
  BY <1>2 DEF Alive, DispatcherAssumption
<1>5. Shapes'
  BY <1>1, <1>2, <1>3 DEF Shapes
<1>6. SlotsAgree'
  BY <1>1, <1>2, <1>3, <1>4 DEF SlotsAgree
<1>7. DeltaIsExact'
  <2>1. total = Cardinality(Alive) - started
    BY <1>1, <1>2 DEF DeltaIsExact, Shapes
  <2> QED
    BY <1>1, <1>2, <1>4, <2>1 DEF DeltaIsExact, Shapes
<1>8. ChildrenComeFirst' /\ HeldExists'
  BY <1>1, <1>2, <1>4 DEF ChildrenComeFirst, HeldExists
<1> QED
  BY <1>5, <1>6, <1>7, <1>8 DEF Inv

LEMMA InitHolds ==
  ASSUME DispatcherAssumption, NEW first \in SUBSET Coros, DispatcherInit(first)
  PROVE  Inv
<1> DEFINE n == Cardinality(first)
<1>1. IsFiniteSet(first) /\ n \in Nat
  BY FS_Subset, FS_CardinalityType DEF DispatcherAssumption
<1>2. queue \in [1 .. n -> first] /\ \A i, j \in 1 .. n : i # j => queue[i] # queue[j]
  BY DEF DispatcherInit, SetToSeqs
<1> HIDE DEF n
<1>3. queue \in Seq(Coros) /\ DOMAIN queue = 1 .. n
  BY <1>1, <1>2
<1>4. IsInjective(queue)
  BY <1>2, <1>3 DEF IsInjective
<1>5. ToSet(queue) = first
  <2>1. Cardinality(1 .. n) = n /\ IsFiniteSet(1 .. n)
    BY <1>1, FS_Interval
  <2>2. queue \in Injection(1 .. n, first)
    BY <1>2, <1>4 DEF Injection
  <2>3. queue \in Surjection(1 .. n, first)
    BY <1>1, <2>1, <2>2, FS_Injection DEF n
  <2> QED
    BY <1>2, <1>3, <2>3 DEF Surjection, ToSet
<1>6. /\ state = [c \in Coros |-> IF c \in first THEN "live" ELSE "none"]
      /\ running = Null /\ cache = <<>> /\ extant = n /\ started = n
      /\ swaps = 0 /\ delta = 0 /\ total = 0
      /\ owner = [c \in Coros |-> Null] /\ dropping = [c \in Coros |-> Null]
  BY DEF DispatcherInit, n
<1>7. Alive = first
  BY <1>6 DEF Alive
<1>8. Shapes
  BY <1>1, <1>3, <1>6 DEF Shapes, States
<1>9. SlotsAgree
  <2>1. ToSet(<<>>) = {} /\ IsInjective(<<>>) /\ Len(<<>>) = 0 /\ 0 <= MaxCache
    BY DEF ToSet, IsInjective, DispatcherAssumption
  <2>2. Null \notin Coros
    BY DEF DispatcherAssumption
  <2> QED
    BY <1>4, <1>5, <1>6, <1>7, <2>1, <2>2 DEF SlotsAgree, n
<1>10. DeltaIsExact
  BY <1>1, <1>6, <1>7 DEF DeltaIsExact, n
<1>11. ChildrenComeFirst /\ HeldExists
  BY <1>6 DEF ChildrenComeFirst, HeldExists, DispatcherAssumption
<1> QED
  BY <1>8, <1>9, <1>10, <1>11 DEF Inv

LEMMA DispatcherKeeps ==
  ASSUME DispatcherAssumption, Inv, DispatcherNext
  PROVE  Inv'
<1>1. ASSUME NEW c \in Coros, CoroStep(c) PROVE Inv'
  BY <1>1, SpawnKeeps, YieldKeeps, BlockKeeps, WakeKeeps, DropKeeps, EndKeeps, WaitsNobody
     DEF CoroStep
<1>2. CASE Run
  BY <1>2, RunKeeps
<1>3. CASE EventStep
  BY <1>3, WakeKeeps DEF EventStep
<1> QED
  BY <1>1, <1>2, <1>3 DEF DispatcherNext

-----------------------------------------------------------------------------
\* The loops of coro_pool_t and coro_map.  Where a coroutine can be:
InLoop == {"loop", "spawn", "acquire", "thrown", "drop", "leave"}
Stations == InLoop \cup {"consume", "destroy", "idle", "gone"}
Loopers == {c \in Coros : pc[c] \in InLoop}
InUse(c) == pc[c] \in InLoop \cup {"consume", "destroy"} \/ (c = Destroyer /\ pc[c] = "idle")

PoolTypes ==
  /\ program \in {"any", "pool", "map"}
  /\ pc \in [Coros -> Stations] /\ left \in [Runners -> Nat]
  /\ holders \subseteq Coros
  /\ line \in Seq(Runners) /\ IsInjective(line)
  /\ keepalive \subseteq Runners /\ closing \in BOOLEAN

\* A slot is in use as long as its coroutine has not returned; the runners that have
\* not are those that keep the pool alive.
SlotsInUse ==
  /\ \A c \in Coros : c \in Alive <=> InUse(c)
  /\ Loopers = keepalive
  /\ \A c \in Coros : pc[c] = "destroy" => c = Destroyer

\* Only consumers are held, each by a runner that has just spawned it or drains it.
OneConsumer ==
  /\ \A c \in Coros : pc[c] # "consume" => owner[c] = Null
  /\ \A c \in Consumers : /\ owner[c] \in Loopers
                          /\ pc[owner[c]] \in {"drop", "loop"}
                          /\ pc[owner[c]] = "loop" => dropping[owner[c]] = c
  /\ \A c, e \in Consumers : owner[c] = owner[e] => c = e

\* Whoever has asked for a place has it or is in the line, and there sleeps unless the
\* pool is being destroyed; it keeps the place until it has passed it on.
PlacesAgree ==
  /\ \A c \in Coros : c \in ToSet(line) => c \notin holders /\ pc[c] \in {"acquire", "thrown"}
  /\ \A c \in ToSet(line) : pc[c] = "acquire" => state[c] = "blocked"
  /\ \A c \in Coros : pc[c] \in {"acquire", "thrown"} => c \in ToSet(line) \cup holders
  /\ \A c \in holders : pc[c] \in {"acquire", "thrown", "spawn", "consume"}
  /\ program = "pool" => \A c \in Coros : pc[c] \in {"spawn", "consume"} => c \in holders
  /\ program = "map" => holders = {} /\ line = <<>>
  /\ Cardinality(holders) <= Limit

\* The destructor of the pool sleeps while a runner keeps the pool alive.
Closed ==
  /\ closing => program = "pool" /\ pc[Destroyer] \in {"destroy", "gone"}
  /\ program = "pool" => pc[Destroyer] \in {"idle", "destroy", "gone"}
  /\ pc[Destroyer] = "idle" => \A c \in Coros : pc[c] # "thrown"
  /\ pc[Destroyer] = "destroy" /\ state[Destroyer] # "blocked" => keepalive = {}
  /\ program = "pool" /\ pc[Destroyer] = "gone" => keepalive = {}

LoopsInv == program # "any" /\ SlotsInUse /\ OneConsumer /\ PlacesAgree /\ Closed
PoolInv == PoolTypes /\ (IF program = "any" THEN Consumers = {} ELSE LoopsInv)

-----------------------------------------------------------------------------
LEMMA WithoutFacts ==
  ASSUME line \in Seq(Runners), IsInjective(line), NEW x
  PROVE  /\ Without(x) \in Seq(Runners) /\ IsInjective(Without(x))
         /\ ToSet(Without(x)) = ToSet(line) \ {x}
<1>1. CASE x \notin ToSet(line)
  BY <1>1 DEF Without
<1>2. CASE x \in ToSet(line)
  <2> DEFINE n == Len(line)
             at == CHOOSE k \in DOMAIN line : line[k] = x
             s == [k \in 1 .. n - 1 |-> line[IF k < at THEN k ELSE k + 1]]
  <2>1. Without(x) = s
    BY <1>2 DEF Without
  <2>2. n \in Nat /\ DOMAIN line = 1 .. n /\ line \in [1 .. n -> Runners]
    BY LenProperties
  <2>3. at \in 1 .. n /\ line[at] = x
    BY <1>2, <2>2 DEF ToSet
  <2> HIDE DEF n, at
  <2>4. \A k \in 1 .. n - 1 : /\ (IF k < at THEN k ELSE k + 1) \in 1 .. n
                              /\ (IF k < at THEN k ELSE k + 1) # at
    BY <2>2, <2>3
  <2>5. s \in [1 .. n - 1 -> Runners] /\ n - 1 \in Nat
    BY <2>2, <2>3, <2>4
  <2>6. s \in Seq(Runners) /\ DOMAIN s = 1 .. n - 1
    BY <2>5
  <2>7. \A k \in 1 .. n - 1 : s[k] = line[IF k < at THEN k ELSE k + 1]
    OBVIOUS
  <2> HIDE DEF s
  <2>8. IsInjective(s)
    <3> SUFFICES ASSUME NEW j \in 1 .. n - 1, NEW k \in 1 .. n - 1, s[j] = s[k] PROVE j = k
      BY <2>6 DEF IsInjective
    <3>1. (IF j < at THEN j ELSE j + 1) = (IF k < at THEN k ELSE k + 1)
      BY <2>2, <2>4, <2>7 DEF IsInjective
    <3> QED
      BY <2>2, <2>3, <3>1
  <2>9. ASSUME NEW k \in 1 .. n - 1 PROVE s[k] \in ToSet(line) \ {x}
    <3>1. PICK j \in 1 .. n : j = IF k < at THEN k ELSE k + 1
      BY <2>4
    <3>2. s[k] = line[j] /\ j # at
      BY <2>4, <2>7, <3>1
    <3> QED
      BY <2>2, <2>3, <3>1, <3>2 DEF IsInjective, ToSet
  <2>10. ASSUME NEW k \in 1 .. n, line[k] # x PROVE line[k] \in ToSet(s)
    <3>1. k # at
      BY <2>3, <2>10
    <3>2. PICK j \in 1 .. n - 1 : (IF j < at THEN j ELSE j + 1) = k
      <4>1. CASE k < at
        BY <2>2, <2>3, <4>1
      <4>2. CASE ~ (k < at)
        <5>1. k - 1 \in 1 .. n - 1 /\ ~ (k - 1 < at) /\ (k - 1) + 1 = k
          BY <2>2, <2>3, <3>1, <4>2
        <5> QED
          BY <5>1
      <4> QED
        BY <4>1, <4>2
    <3>3. s[j] = line[k]
      BY <2>7, <3>2
    <3> QED
      BY <2>6, <3>3 DEF ToSet
  <2>11. ToSet(s) = ToSet(line) \ {x}
    <3>1. ASSUME NEW y \in ToSet(s) PROVE y \in ToSet(line) \ {x}
      BY <2>6, <2>9, <3>1 DEF ToSet
    <3>2. ASSUME NEW y \in ToSet(line), y # x PROVE y \in ToSet(s)
      <4>1. PICK k \in 1 .. n : line[k] = y
        BY <2>2 DEF ToSet
      <4> QED
        BY <2>10, <3>2, <4>1
    <3> QED
      BY <3>1, <3>2
  <2> QED
    BY <2>1, <2>6, <2>8, <2>11
<1> QED
  BY <1>1, <1>2

\* Who gets the place of x, if anyone.
Winners(x) == ToSet(Served(x))

\* An acquisition is destroyed: the place goes to the first of the line, who is told if
\* it still waits.
LEMMA GiveFacts ==
  ASSUME DispatcherAssumption, PoolAssumption, PoolTypes, NEW x, Give(x),
         \A y \in ToSet(line) : y \notin holders
  PROVE  /\ line' \in Seq(Runners) /\ IsInjective(line') /\ holders' \subseteq Coros
         /\ Winners(x) \subseteq ToSet(line) /\ x \notin Winners(x)
         /\ holders' = (holders \ {x}) \cup Winners(x)
         /\ ToSet(line') = ToSet(line) \ ({x} \cup Winners(x))
         /\ Cardinality(holders) <= Limit => Cardinality(holders') <= Limit
         /\ Told(x) \in Seq(Coros) /\ IsInjective(Told(x))
         /\ \A y \in ToSet(Told(x)) : y \in Winners(x) /\ state[y] = "blocked"
<1>1. /\ line \in Seq(Runners) /\ IsInjective(line) /\ holders \subseteq Coros
      /\ Runners \subseteq Coros /\ IsFiniteSet(Coros) /\ Limit \in Nat
  BY DEF PoolTypes, PoolAssumption, DispatcherAssumption
<1>2. IsFiniteSet(holders) /\ Cardinality(holders) \in Nat
  BY <1>1, FS_Subset, FS_CardinalityType
<1>3. /\ holders' = (holders \ {x}) \cup Winners(x)
      /\ line' = IF Served(x) = <<>> THEN Without(x) ELSE Tail(line)
  BY DEF Give, Winners
<1>4. ToSet(line) \subseteq Runners
  BY <1>1 DEF ToSet
<1>5. CASE Served(x) = <<>>
  <2>1. Winners(x) = {} /\ IsInjective(<<>>) /\ ToSet(<<>>) = {}
    BY <1>5 DEF Winners, ToSet, IsInjective
  <2>2. Told(x) = <<>>
    BY <1>5, <2>1 DEF Told
  <2>3. /\ line' \in Seq(Runners) /\ IsInjective(line') /\ ToSet(line') = ToSet(line) \ {x}
    BY <1>1, <1>3, <1>5, WithoutFacts
  <2>4. /\ holders' = holders \ {x} /\ IsFiniteSet(holders')
        /\ Cardinality(holders') <= Cardinality(holders)
    BY <1>2, <1>3, <2>1, FS_Subset
  <2>5. Cardinality(holders) <= Limit => Cardinality(holders') <= Limit
    BY <1>1, <1>2, <2>4, FS_CardinalityType
  <2> QED
    BY <1>1, <1>3, <2>1, <2>2, <2>3, <2>4, <2>5
<1>6. CASE Served(x) # <<>>
  <2> DEFINE h == Head(line)
  <2>1. x \in holders /\ line # <<>> /\ Served(x) = <<h>> /\ line' = Tail(line)
    BY <1>3, <1>6 DEF Served
  <2>2. /\ h \in Runners /\ Tail(line) \in Seq(Runners) /\ IsInjective(Tail(line))
        /\ h \notin ToSet(Tail(line)) /\ ToSet(line) = {h} \cup ToSet(Tail(line))
    BY <1>1, <2>1, HeadTail
  <2>3. ToSet(<<h>>) = {h} /\ IsInjective(<<h>>)
    BY DEF ToSet, IsInjective
  <2> HIDE DEF h
  <2>4. Winners(x) = {h} /\ <<h>> \in Seq(Coros)
    BY <1>1, <2>1, <2>2, <2>3 DEF Winners
  <2>5. h \notin holders /\ x \notin ToSet(line)
    BY <2>1, <2>2
  <2>6. ToSet(line') = ToSet(line) \ ({x} \cup Winners(x))
    BY <2>1, <2>2, <2>4, <2>5
  <2>7. Cardinality(holders') = Cardinality(holders)
    <3>1. IsFiniteSet(holders \ {x}) /\ Cardinality(holders \ {x}) = Cardinality(holders) - 1
      BY <1>2, <2>1, FS_RemoveElement
    <3>2. Cardinality((holders \ {x}) \cup {h}) = Cardinality(holders \ {x}) + 1
      BY <2>5, <3>1, FS_AddElement
    <3> QED
      BY <1>2, <1>3, <2>4, <3>1, <3>2
  <2>8. IF state[h] = "blocked" THEN Told(x) = <<h>> ELSE Told(x) = <<>>
    BY <2>1, <2>3 DEF Told
  <2>9. ToSet(<<>>) = {} /\ IsInjective(<<>>) /\ <<>> \in Seq(Coros)
    BY DEF ToSet, IsInjective
  <2>10. /\ Told(x) \in Seq(Coros) /\ IsInjective(Told(x))
         /\ \A y \in ToSet(Told(x)) : y \in Winners(x) /\ state[y] = "blocked"
    BY <2>3, <2>4, <2>8, <2>9
  <2>11. holders' \subseteq Coros
    BY <1>1, <1>3, <2>2, <2>4
  <2> QED
    BY <1>3, <2>1, <2>2, <2>4, <2>5, <2>6, <2>7, <2>10, <2>11
<1> QED
  BY <1>5, <1>6

LEMMA HoldersAreFinite ==
  ASSUME DispatcherAssumption, PoolTypes
  PROVE  IsFiniteSet(holders) /\ Cardinality(holders) \in Nat
BY FS_Subset, FS_CardinalityType DEF DispatcherAssumption, PoolTypes

\* A runner that runs, and does not hold a result, has no consumer.
LEMMA NoConsumer ==
  ASSUME Inv, OneConsumer, NEW r \in Coros, running = r, pc[r] # "drop"
  PROVE  \A c \in Consumers : owner[c] # r
<1> SUFFICES ASSUME NEW c \in Consumers, owner[c] = r PROVE FALSE
  OBVIOUS
<1>1. dropping[r] = c /\ c \in Coros
  BY DEF OneConsumer, Consumers
<1>2. state[r] = "blocked" /\ state[r] = "live"
  BY <1>1 DEF Inv, ChildrenComeFirst, SlotsAgree
<1> QED
  BY <1>2

\* A runner goes on in its loop.
LEMMA LoopMove ==
  ASSUME PoolAssumption, PoolTypes, SlotsInUse, OneConsumer,
         NEW r \in Coros, pc[r] \in InLoop, NEW v \in InLoop, pc' = [pc EXCEPT ![r] = v],
         Alive' = Alive, UNCHANGED <<owner, dropping, keepalive>>,
         \A c \in Consumers : owner[c] # r
  PROVE  /\ SlotsInUse' /\ OneConsumer'
         /\ r \in Runners /\ r # Destroyer /\ pc' \in [Coros -> Stations]
         /\ pc'[r] = v /\ \A c \in Coros : c # r => pc'[c] = pc[c]
<1>1. /\ pc' \in [Coros -> Stations] /\ pc'[r] = v
      /\ \A c \in Coros : c # r => pc'[c] = pc[c]
  BY DEF PoolTypes, Stations
<1>2. r \in Runners /\ r # Destroyer
  BY DEF SlotsInUse, Loopers, PoolTypes, PoolAssumption
<1>3. Loopers' = Loopers /\ Consumers' = Consumers
  BY <1>1 DEF Loopers, Consumers, InLoop
<1>4. \A c \in Coros : InUse(c)' <=> InUse(c)
  BY <1>1, <1>2 DEF InUse
<1>5. SlotsInUse'
  BY <1>1, <1>3, <1>4 DEF SlotsInUse, InLoop
<1>6. \A c \in Coros : pc'[c] # "consume" => pc[c] # "consume"
  BY <1>1 DEF InLoop
<1>7. \A c \in Consumers : owner[c] # r /\ owner[c] \in Coros /\ c \in Coros
  BY DEF OneConsumer, Loopers, Consumers
<1>8. OneConsumer'
  BY <1>1, <1>3, <1>6, <1>7 DEF OneConsumer
<1> QED
  BY <1>1, <1>2, <1>5, <1>8

LEMMA AcquireKeeps ==
  ASSUME DispatcherAssumption, PoolAssumption, Inv, PoolTypes, LoopsInv,
         NEW r \in Runners, Acquire(r)
  PROVE  Inv' /\ PoolTypes' /\ LoopsInv'
<1>1. /\ running = r /\ pc[r] = "loop" /\ left[r] > 0
      /\ left' = [left EXCEPT ![r] = @ - 1]
      /\ UNCHANGED <<program, keepalive, closing, dead>>
      /\ r \in Coros /\ program \in {"pool", "map"} /\ program # "any"
  BY DEF Acquire, PoolAssumption, PoolTypes, LoopsInv
<1>2. SlotsInUse /\ OneConsumer /\ PlacesAgree /\ Closed
  BY DEF LoopsInv
<1>3. left' \in [Runners -> Nat]
  BY <1>1 DEF PoolTypes
<1>4. \A c \in Consumers : owner[c] # r
  BY <1>1, <1>2, NoConsumer
<1>5. r \notin ToSet(line) /\ r \notin holders
  BY <1>1, <1>2 DEF PlacesAgree
<1>6. CASE program = "map" \/ ~Full
  <2>1. /\ pc' = [pc EXCEPT ![r] = "spawn"]
        /\ holders' = IF program = "map" THEN holders ELSE holders \cup {r}
        /\ UNCHANGED <<dispatchVars, line>>
    BY <1>6 DEF Acquire
  <2>2. Inv' /\ Alive' = Alive
    BY <2>1 DEF dispatchVars, Inv, Shapes, SlotsAgree, DeltaIsExact, ChildrenComeFirst,
                HeldExists, Alive
  <2>3. UNCHANGED <<owner, dropping, state>>
    BY <2>1 DEF dispatchVars
  <2>4. /\ SlotsInUse' /\ OneConsumer' /\ r # Destroyer /\ pc' \in [Coros -> Stations]
        /\ pc'[r] = "spawn" /\ \A c \in Coros : c # r => pc'[c] = pc[c]
    BY <1>1, <1>2, <1>4, <2>1, <2>2, <2>3, LoopMove DEF InLoop
  <2>5. PoolTypes'
    BY <1>1, <1>3, <2>1, <2>4 DEF PoolTypes
  <2>6. Cardinality(holders') <= Limit
    <3>1. CASE program = "map"
      BY <1>2, <2>1, <3>1 DEF PlacesAgree
    <3>2. CASE program = "pool"
      <4>1. PICK n \in Nat : n = Cardinality(holders)
        BY HoldersAreFinite
      <4>2. n < Limit
        BY <1>1, <1>6, <3>2, <4>1 DEF Full, PoolAssumption
      <4>3. Cardinality(holders') = n + 1
        BY <1>1, <1>5, <2>1, <3>2, <4>1, HoldersAreFinite, FS_AddElement
      <4> QED
        BY <4>2, <4>3 DEF PoolAssumption
    <3> QED
      BY <1>1, <3>1, <3>2
  <2>7. PlacesAgree'
    <3>1. /\ \A c \in Coros :
               c \in ToSet(line') => c \notin holders' /\ pc'[c] \in {"acquire", "thrown"}
          /\ \A c \in ToSet(line') : pc'[c] = "acquire" => state'[c] = "blocked"
          /\ \A c \in Coros : pc'[c] \in {"acquire", "thrown"} => c \in ToSet(line') \cup holders'
      BY <1>2, <1>5, <2>1, <2>3, <2>4 DEF PlacesAgree, ToSet
    <3>2. /\ \A c \in holders' : pc'[c] \in {"acquire", "thrown", "spawn", "consume"}
          /\ program' = "pool" => \A c \in Coros : pc'[c] \in {"spawn", "consume"} => c \in holders'
          /\ program' = "map" => holders' = {} /\ line' = <<>>
      BY <1>1, <1>2, <1>5, <2>1, <2>3, <2>4 DEF PlacesAgree, PoolTypes
    <3> QED
      BY <2>6, <3>1, <3>2 DEF PlacesAgree
  <2>8. Closed'
    BY <1>1, <1>2, <2>1, <2>3, <2>4 DEF Closed, PoolAssumption
  <2> QED
    BY <1>1, <2>2, <2>4, <2>5, <2>7, <2>8 DEF LoopsInv
<1>7. CASE ~ (program = "map" \/ ~Full) /\ closing
  <2>1. pc' = [pc EXCEPT ![r] = "leave"] /\ UNCHANGED <<dispatchVars, holders, line>>
    BY <1>7 DEF Acquire
  <2>2. Inv' /\ Alive' = Alive
    BY <2>1 DEF dispatchVars, Inv, Shapes, SlotsAgree, DeltaIsExact, ChildrenComeFirst,
                HeldExists, Alive
  <2>3. UNCHANGED <<owner, dropping, state>>
    BY <2>1 DEF dispatchVars
  <2>4. /\ SlotsInUse' /\ OneConsumer' /\ r # Destroyer /\ pc' \in [Coros -> Stations]
        /\ pc'[r] = "leave" /\ \A c \in Coros : c # r => pc'[c] = pc[c]
    BY <1>1, <1>2, <1>4, <2>1, <2>2, <2>3, LoopMove DEF InLoop
  <2>5. PoolTypes'
    BY <1>1, <1>3, <2>1, <2>4 DEF PoolTypes
  <2>6. PlacesAgree'
    BY <1>1, <1>2, <1>5, <2>1, <2>3, <2>4 DEF PlacesAgree, PoolTypes, ToSet
  <2>7. Closed'
    BY <1>1, <1>2, <2>1, <2>3, <2>4 DEF Closed, PoolAssumption
  <2> QED
    BY <1>1, <2>2, <2>4, <2>5, <2>6, <2>7 DEF LoopsInv
<1>8. CASE ~ (program = "map" \/ ~Full) /\ ~ closing
  <2>1. /\ pc' = [pc EXCEPT ![r] = "acquire"] /\ line' = Append(line, r)
        /\ Block(r) /\ UNCHANGED holders
    BY <1>8 DEF Acquire
  <2>2. /\ Inv' /\ Alive' = Alive /\ state'[r] = "blocked"
        /\ \A x \in Coros : x # r => state'[x] = state[x]
    BY <1>1, <2>1, BlockKeeps
  <2>3. UNCHANGED <<owner, dropping>>
    BY <2>1 DEF Block
  <2>4. /\ SlotsInUse' /\ OneConsumer' /\ r # Destroyer /\ pc' \in [Coros -> Stations]
        /\ pc'[r] = "acquire" /\ \A c \in Coros : c # r => pc'[c] = pc[c]
    BY <1>1, <1>2, <1>4, <2>1, <2>2, <2>3, LoopMove DEF InLoop
  <2>5. line' \in Seq(Runners) /\ IsInjective(line') /\ ToSet(line') = ToSet(line) \cup {r}
    BY <1>5, <2>1, AppendFacts DEF PoolTypes
  <2>6. PoolTypes'
    BY <1>1, <1>3, <2>1, <2>4, <2>5 DEF PoolTypes
  <2>7. ToSet(line) \subseteq Coros
    BY DEF PoolTypes, PoolAssumption, ToSet
  <2>8. PlacesAgree'
    <3>1. program = "pool" /\ program' = "pool"
      BY <1>1, <1>8
    <3>2. /\ \A c \in Coros :
               c \in ToSet(line') => c \notin holders' /\ pc'[c] \in {"acquire", "thrown"}
          /\ \A c \in Coros : pc'[c] \in {"acquire", "thrown"} => c \in ToSet(line') \cup holders'
      BY <1>1, <1>2, <1>5, <2>1, <2>4, <2>5 DEF PlacesAgree
    <3>3. \A c \in ToSet(line') : pc'[c] = "acquire" => state'[c] = "blocked"
      BY <1>1, <1>2, <2>2, <2>4, <2>5, <2>7 DEF PlacesAgree
    <3>4. /\ \A c \in holders' : pc'[c] \in {"acquire", "thrown", "spawn", "consume"}
          /\ \A c \in Coros : pc'[c] \in {"spawn", "consume"} => c \in holders'
      BY <1>1, <1>2, <1>5, <2>1, <2>4, <3>1 DEF PlacesAgree, PoolTypes
    <3>5. Cardinality(holders') <= Limit
      BY <1>2, <2>1 DEF PlacesAgree
    <3> QED
      BY <3>1, <3>2, <3>3, <3>4, <3>5 DEF PlacesAgree
  <2>9. Closed'
    <3>1. pc'[Destroyer] = pc[Destroyer] /\ state'[Destroyer] = state[Destroyer]
      BY <2>2, <2>4 DEF PoolAssumption
    <3>2. \A c \in Coros : pc'[c] = "thrown" => pc[c] = "thrown"
      BY <2>4
    <3> QED
      BY <1>1, <1>2, <3>1, <3>2 DEF Closed
  <2> QED
    BY <1>1, <2>2, <2>4, <2>6, <2>8, <2>9 DEF LoopsInv
<1> QED
  BY <1>6, <1>7, <1>8

LEMMA AcquiredKeeps ==
  ASSUME DispatcherAssumption, PoolAssumption, Inv, PoolTypes, LoopsInv,
         NEW r \in Runners, Acquired(r)
  PROVE  Inv' /\ PoolTypes' /\ LoopsInv'
<1>1. /\ running = r /\ pc[r] = "acquire" /\ pc' = [pc EXCEPT ![r] = "spawn"]
      /\ UNCHANGED <<dispatchVars, left, holders, line, program, keepalive, closing, dead>>
      /\ r \in Coros /\ program # "any"
  BY DEF Acquired, PoolAssumption, LoopsInv
<1>2. SlotsInUse /\ OneConsumer /\ PlacesAgree /\ Closed
  BY DEF LoopsInv
<1>3. Inv' /\ Alive' = Alive
  BY <1>1 DEF dispatchVars, Inv, Shapes, SlotsAgree, DeltaIsExact, ChildrenComeFirst,
              HeldExists, Alive
<1>4. UNCHANGED <<owner, dropping, state>>
  BY <1>1 DEF dispatchVars
<1>5. \A c \in Consumers : owner[c] # r
  BY <1>1, <1>2, NoConsumer
<1>6. /\ SlotsInUse' /\ OneConsumer' /\ r # Destroyer /\ pc' \in [Coros -> Stations]
      /\ pc'[r] = "spawn" /\ \A c \in Coros : c # r => pc'[c] = pc[c]
  BY <1>1, <1>2, <1>3, <1>4, <1>5, LoopMove DEF InLoop
\* Whoever runs does not sleep in the line.
<1>7. r \in holders /\ r \notin ToSet(line)
  <2>1. state[r] # "blocked"
    BY <1>1 DEF Inv, SlotsAgree
  <2> QED
    BY <1>1, <1>2, <2>1 DEF PlacesAgree
<1>8. PoolTypes'
  BY <1>1, <1>6 DEF PoolTypes
<1>9. PlacesAgree'
  BY <1>1, <1>2, <1>4, <1>6, <1>7 DEF PlacesAgree, PoolTypes, ToSet
<1>10. Closed'
  BY <1>1, <1>2, <1>4, <1>6 DEF Closed, PoolAssumption
<1> QED
  BY <1>1, <1>3, <1>6, <1>8, <1>9, <1>10 DEF LoopsInv

\* Whoever is in the line drains nobody.
LEMMA LineDrainsNobody ==
  ASSUME DispatcherAssumption, PoolAssumption, Inv, PoolTypes, OneConsumer, PlacesAgree,
         NEW y \in ToSet(line)
  PROVE  y \in Coros /\ dropping[y] = Null
<1>1. y \in Coros /\ pc[y] \in {"acquire", "thrown"} /\ Null \notin Coros
  BY DEF PoolTypes, PoolAssumption, DispatcherAssumption, PlacesAgree, ToSet
<1>2. dropping[y] \in Coros \cup {Null}
  BY <1>1 DEF Inv, Shapes
<1>3. CASE dropping[y] \in Coros
  <2> DEFINE d == dropping[y]
  <2>1. d \in Coros /\ owner[d] = y
    BY <1>1, <1>3 DEF Inv, ChildrenComeFirst
  <2>2. d \in Consumers
    BY <1>1, <2>1 DEF OneConsumer, Consumers
  <2> HIDE DEF d
  <2>3. pc[y] \in {"drop", "loop"}
    BY <2>1, <2>2 DEF OneConsumer
  <2> QED
    BY <1>1, <2>3
<1> QED
  BY <1>1, <1>2, <1>3

LEMMA ToldWait ==
  ASSUME DispatcherAssumption, PoolAssumption, Inv, PoolTypes, OneConsumer, PlacesAgree,
         NEW x, Give(x)
  PROVE  Waits(Told(x))
<1>1. \A y \in ToSet(line) : y \notin holders
  BY DEF PlacesAgree, PoolTypes, PoolAssumption, ToSet
<1>2. /\ Told(x) \in Seq(Coros) /\ IsInjective(Told(x))
      /\ \A y \in ToSet(Told(x)) : y \in ToSet(line) /\ state[y] = "blocked"
  BY <1>1, GiveFacts
<1> QED
  BY <1>2, LineDrainsNobody DEF Waits

\* The places when x destroys its acquisition and goes on without.
LEMMA GivePlaces ==
  ASSUME DispatcherAssumption, PoolAssumption, PoolTypes, PlacesAgree, NEW x \in Coros,
         Give(x), NEW v \in {"leave", "gone"}, pc' = [pc EXCEPT ![x] = v],
         program' = program, \A y \in ToSet(line) : y \notin ToSet(Told(x)) /\ y # x
                                 => (state[y] = "blocked" => state'[y] = "blocked")
  PROVE  PlacesAgree'
<1>1. \A y \in ToSet(line) : y \notin holders /\ y \in Coros
  BY DEF PlacesAgree, PoolTypes, PoolAssumption, ToSet
<1>2. /\ line' \in Seq(Runners) /\ holders' \subseteq Coros
      /\ Winners(x) \subseteq ToSet(line) /\ x \notin Winners(x)
      /\ holders' = (holders \ {x}) \cup Winners(x)
      /\ ToSet(line') = ToSet(line) \ ({x} \cup Winners(x))
      /\ \A y \in ToSet(Told(x)) : y \in Winners(x)
  BY <1>1, GiveFacts
<1>3. Cardinality(holders') <= Limit
  BY <1>1, GiveFacts DEF PlacesAgree
<1>4. pc'[x] = v /\ \A c \in Coros : c # x => pc'[c] = pc[c]
  BY DEF PoolTypes
<1>5. \A c \in Coros : c \in ToSet(line') => c \notin holders' /\ pc'[c] \in {"acquire", "thrown"}
  BY <1>1, <1>2, <1>4 DEF PlacesAgree
<1>6. \A c \in ToSet(line') : pc'[c] = "acquire" => state'[c] = "blocked"
  <2> SUFFICES ASSUME NEW c \in ToSet(line'), pc'[c] = "acquire" PROVE state'[c] = "blocked"
    OBVIOUS
  <2>1. c \in ToSet(line) /\ c # x /\ c \notin ToSet(Told(x)) /\ pc[c] = "acquire"
    BY <1>1, <1>2, <1>4
  <2> QED
    BY <2>1 DEF PlacesAgree
<1>7. \A c \in Coros : pc'[c] \in {"acquire", "thrown"} => c \in ToSet(line') \cup holders'
  <2> SUFFICES ASSUME NEW c \in Coros, pc'[c] \in {"acquire", "thrown"}
               PROVE  c \in ToSet(line') \cup holders'
    OBVIOUS
  <2>1. c # x /\ c \in ToSet(line) \cup holders
    BY <1>4 DEF PlacesAgree
  <2> QED
    BY <1>2, <2>1
<1>8. \A c \in holders' : pc'[c] \in {"acquire", "thrown", "spawn", "consume"}
  <2> SUFFICES ASSUME NEW c \in holders'
               PROVE  pc'[c] \in {"acquire", "thrown", "spawn", "consume"}
    OBVIOUS
  <2>1. c \in Coros /\ c # x /\ (c \in holders \/ c \in ToSet(line))
    BY <1>2
  <2>2. pc[c] \in {"acquire", "thrown", "spawn", "consume"}
    BY <2>1 DEF PlacesAgree
  <2> QED
    BY <1>4, <2>1, <2>2
<1>9. program' = "pool" => \A c \in Coros : pc'[c] \in {"spawn", "consume"} => c \in holders'
  BY <1>2, <1>4 DEF PlacesAgree
<1>10. ASSUME program' = "map" PROVE holders' = {} /\ line' = <<>>
  <2>1. holders = {} /\ line = <<>> /\ ToSet(<<>>) = {}
    BY <1>10 DEF PlacesAgree, ToSet
  <2>2. holders' = {} /\ ToSet(line') = {}
    BY <1>2, <2>1
  <2> QED
    BY <1>2, <2>2 DEF ToSet
<1> QED
  BY <1>3, <1>5, <1>6, <1>7, <1>8, <1>9, <1>10 DEF PlacesAgree

\* Those in a wait are put into the queue while a coroutine runs on.
LEMMA NotifyKeeps ==
  ASSUME DispatcherAssumption, Inv, running \in Coros, NEW cs, Waits(cs),
         queue' = queue \o cs, state' = Notify(cs, state),
         UNCHANGED <<running, cache, extant, swaps, delta, started, total, owner, dropping>>
  PROVE  /\ Inv' /\ Alive' = Alive
         /\ \A x \in Coros : x \notin ToSet(cs) => state'[x] = state[x]
<1>1. Shapes /\ SlotsAgree /\ DeltaIsExact /\ ChildrenComeFirst /\ HeldExists
  BY DEF Inv
<1>2. /\ cs \in Seq(Coros) /\ IsInjective(cs)
      /\ \A x \in ToSet(cs) : state[x] = "blocked" /\ dropping[x] = Null
  BY DEF Waits
<1>3. /\ queue' \in Seq(Coros) /\ IsInjective(queue') /\ ToSet(queue') = ToSet(queue) \cup ToSet(cs)
      /\ state' \in [Coros -> States]
  BY <1>2, NotifyFacts
<1>4. \A x \in Coros : /\ state'[x] = IF x \in ToSet(cs) THEN "live" ELSE state[x]
                       /\ x # running => (state'[x] = "live" <=> x \in ToSet(queue'))
                       /\ state'[x] = "cached" <=> state[x] = "cached"
                       /\ state'[x] = "none" <=> state[x] = "none"
  BY <1>2, NotifyFacts
<1>5. Alive' = Alive
  BY <1>1, <1>3, <1>4 DEF Alive, Shapes, States
<1>6. state[running] = "live" /\ running \notin ToSet(cs) /\ running \notin ToSet(queue')
  BY <1>1, <1>2, <1>3 DEF SlotsAgree
<1>7. Shapes'
  BY <1>1, <1>3 DEF Shapes
<1>8. SlotsAgree'
  <2>1. \A x \in Coros : state'[x] = "live" <=> running = x \/ x \in ToSet(queue')
    BY <1>4, <1>6
  <2>2. \A x \in Coros : state'[x] = "cached" <=> x \in ToSet(cache)
    BY <1>1, <1>4 DEF SlotsAgree
  <2>3. extant' = Cardinality(Alive')
    BY <1>1, <1>5 DEF SlotsAgree
  <2> QED
    BY <1>1, <1>3, <1>6, <2>1, <2>2, <2>3 DEF SlotsAgree
<1>9. DeltaIsExact' /\ HeldExists'
  BY <1>1, <1>5 DEF DeltaIsExact, HeldExists
<1>10. ChildrenComeFirst'
  <2>1. Null \notin Coros
    BY DEF DispatcherAssumption
  <2>2. \A x \in Coros : dropping[x] \in Coros => state'[x] = state[x]
    BY <1>2, <1>4, <2>1
  <2> QED
    BY <1>1, <1>5, <2>2 DEF ChildrenComeFirst
<1> QED
  BY <1>4, <1>5, <1>7, <1>8, <1>9, <1>10 DEF Inv

LEMMA ThrownKeeps ==
  ASSUME DispatcherAssumption, PoolAssumption, Inv, PoolTypes, LoopsInv,
         NEW r \in Runners, Thrown(r)
  PROVE  Inv' /\ PoolTypes' /\ LoopsInv'
<1>1. /\ running = r /\ pc[r] = "thrown" /\ pc' = [pc EXCEPT ![r] = "leave"]
      /\ Give(r)
      /\ queue' = queue \o Told(r) /\ state' = Notify(Told(r), state)
      /\ UNCHANGED <<running, cache, extant, swaps, delta, started, total, owner, dropping,
                     left, program, keepalive, closing, dead>>
      /\ r \in Coros /\ program # "any"
  BY DEF Thrown, PoolAssumption, LoopsInv
<1>2. SlotsInUse /\ OneConsumer /\ PlacesAgree /\ Closed
  BY DEF LoopsInv
<1>3. Waits(Told(r))
  BY <1>1, <1>2, ToldWait
<1>4. Inv' /\ Alive' = Alive /\ \A x \in Coros : x \notin ToSet(Told(r)) => state'[x] = state[x]
  BY <1>1, <1>3, NotifyKeeps
<1>5. \A c \in Consumers : owner[c] # r
  BY <1>1, <1>2, NoConsumer
<1>6. /\ SlotsInUse' /\ OneConsumer' /\ r # Destroyer /\ pc' \in [Coros -> Stations]
      /\ pc'[r] = "leave" /\ \A c \in Coros : c # r => pc'[c] = pc[c]
  BY <1>1, <1>2, <1>4, <1>5, LoopMove DEF InLoop
<1>7. \A y \in ToSet(line) : y \notin holders /\ y \in Runners /\ y \in Coros
  BY <1>2 DEF PlacesAgree, PoolTypes, PoolAssumption, ToSet
<1>8. /\ line' \in Seq(Runners) /\ IsInjective(line') /\ holders' \subseteq Coros
      /\ \A y \in ToSet(Told(r)) : y \in ToSet(line)
  BY <1>1, <1>7, GiveFacts
<1>9. PoolTypes'
  BY <1>1, <1>6, <1>8 DEF PoolTypes
<1>10. PlacesAgree'
  BY <1>1, <1>2, <1>4, <1>7, GivePlaces
<1>11. Closed'
  <2>1. state'[Destroyer] = state[Destroyer] /\ Destroyer \in Coros
    BY <1>4, <1>7, <1>8 DEF PoolAssumption
  <2>2. pc'[Destroyer] = pc[Destroyer] /\ \A c \in Coros : pc'[c] = "thrown" => pc[c] = "thrown"
    BY <1>6, <2>1
  <2> QED
    BY <1>1, <1>2, <2>1, <2>2 DEF Closed
<1> QED
  BY <1>1, <1>4, <1>6, <1>9, <1>10, <1>11 DEF LoopsInv

LEMMA SpawnConsumerKeeps ==
  ASSUME DispatcherAssumption, PoolAssumption, Inv, PoolTypes, LoopsInv,
         NEW r \in Runners, NEW c \in Coros, SpawnConsumer(r, c)
  PROVE  Inv' /\ PoolTypes' /\ LoopsInv'
<1>1. /\ pc[r] = "spawn" /\ Spawn(r, c, "Delayed") /\ running = r
      /\ pc' = [pc EXCEPT ![r] = "drop", ![c] = "consume"]
      /\ holders' = IF r \in holders THEN (holders \ {r}) \cup {c} ELSE holders
      /\ UNCHANGED <<left, line, program, keepalive, closing, dead>>
      /\ owner' = [owner EXCEPT ![c] = r] /\ UNCHANGED dropping
      /\ r \in Coros /\ program # "any"
  BY DEF SpawnConsumer, Spawn, PoolAssumption, LoopsInv
<1>2. SlotsInUse /\ OneConsumer /\ PlacesAgree /\ Closed
  BY DEF LoopsInv
<1>3. /\ Inv' /\ c \notin Alive /\ Alive' = Alive \cup {c}
      /\ \A x \in Coros : x # c => state'[x] = state[x]
  BY <1>1, SpawnKeeps
<1>4. pc[c] \in {"gone", "idle"} /\ c # r /\ (c = Destroyer => pc[c] = "gone")
  <2>1. ~ InUse(c) /\ pc[c] \in Stations
    BY <1>2, <1>3 DEF SlotsInUse, PoolTypes
  <2> QED
    BY <1>1, <2>1 DEF InUse, Stations
<1>5. /\ pc' \in [Coros -> Stations] /\ pc'[r] = "drop" /\ pc'[c] = "consume"
      /\ \A x \in Coros : x # r /\ x # c => pc'[x] = pc[x]
  BY <1>1, <1>4 DEF PoolTypes, Stations, InLoop
<1>6. r \in Loopers /\ r \in keepalive /\ r # Destroyer /\ c \notin Loopers
  BY <1>1, <1>2, <1>4 DEF SlotsInUse, Loopers, InLoop, PoolAssumption
\* The slot of the pool's destructor is not used again while there are loops.
<1>7. program = "pool" => c # Destroyer
  BY <1>2, <1>4, <1>6 DEF Closed
<1>8. \A e \in Consumers : owner[e] # r /\ owner[e] # c /\ e # c /\ e # r
  <2>1. \A e \in Consumers : owner[e] # r
    BY <1>1, <1>2, NoConsumer
  <2> QED
    BY <1>1, <1>2, <1>4, <1>6, <2>1 DEF OneConsumer, Consumers
<1>9. Loopers' = Loopers /\ Consumers' = Consumers \cup {c}
  <2>1. \A x \in Coros : pc'[x] \in InLoop <=> pc[x] \in InLoop
    <3> SUFFICES ASSUME NEW x \in Coros PROVE pc'[x] \in InLoop <=> pc[x] \in InLoop
      OBVIOUS
    <3> QED
      BY <1>1, <1>4, <1>5 DEF InLoop
  <2>2. \A x \in Coros : pc'[x] = "consume" <=> pc[x] = "consume" \/ x = c
    BY <1>1, <1>4, <1>5
  <2> QED
    BY <2>1, <2>2 DEF Loopers, Consumers
<1>10. SlotsInUse'
  <2>1. ASSUME NEW x \in Coros PROVE x \in Alive' <=> InUse(x)'
    <3>1. x \in Alive <=> InUse(x)
      BY <1>2 DEF SlotsInUse
    <3>2. CASE x = c
      BY <1>3, <1>5, <3>2 DEF InUse
    <3>3. CASE x = r
      BY <1>1, <1>3, <1>4, <1>5, <3>1, <3>3 DEF InUse, InLoop
    <3>4. CASE x # c /\ x # r
      BY <1>3, <1>5, <3>1, <3>4 DEF InUse
    <3> QED
      BY <3>2, <3>3, <3>4
  <2>2. \A x \in Coros : pc'[x] = "destroy" => x = Destroyer
    BY <1>2, <1>5 DEF SlotsInUse
  <2>3. Loopers' = keepalive'
    BY <1>1, <1>2, <1>9 DEF SlotsInUse
  <2> QED
    BY <2>1, <2>2, <2>3 DEF SlotsInUse
<1>11. owner'[c] = r /\ \A x \in Coros : x # c => owner'[x] = owner[x]
  BY <1>1 DEF Inv, Shapes
<1>12. OneConsumer'
  <2>1. ASSUME NEW x \in Coros, pc'[x] # "consume" PROVE owner'[x] = Null
    BY <1>1, <1>2, <1>4, <1>5, <1>11, <2>1 DEF OneConsumer
  <2>2. ASSUME NEW x \in Consumers'
        PROVE  /\ owner'[x] \in Loopers' /\ pc'[owner'[x]] \in {"drop", "loop"}
               /\ pc'[owner'[x]] = "loop" => dropping'[owner'[x]] = x
    <3>1. CASE x = c
      BY <1>5, <1>6, <1>9, <1>11, <3>1
    <3>2. CASE x # c
      <4>1. x \in Consumers /\ x \in Coros
        BY <1>9, <2>2, <3>2 DEF Consumers
      <4>2. owner'[x] = owner[x] /\ owner[x] \in Loopers /\ owner[x] \in Coros
        BY <1>2, <1>11, <3>2, <4>1 DEF OneConsumer, Loopers
      <4>3. pc'[owner[x]] = pc[owner[x]] /\ dropping' = dropping
        BY <1>1, <1>5, <1>8, <4>1, <4>2
      <4> QED
        BY <1>2, <1>9, <4>1, <4>2, <4>3 DEF OneConsumer
    <3> QED
      BY <3>1, <3>2
  <2>3. ASSUME NEW x \in Consumers', NEW y \in Consumers', owner'[x] = owner'[y] PROVE x = y
    <3>1. \A e \in Consumers : owner'[e] = owner[e] /\ owner'[e] # r
      BY <1>8, <1>11 DEF Consumers
    <3> QED
      BY <1>2, <1>9, <1>11, <2>3, <3>1 DEF OneConsumer
  <2> QED
    BY <2>1, <2>2, <2>3 DEF OneConsumer
<1>13. c \notin holders /\ c \notin ToSet(line) /\ r \notin ToSet(line)
  BY <1>1, <1>2, <1>4 DEF PlacesAgree
<1>14. PlacesAgree'
  <2>1. Cardinality(holders') <= Limit
    <3>1. CASE r \in holders
      <4>1. /\ IsFiniteSet(holders \ {r})
            /\ Cardinality(holders \ {r}) = Cardinality(holders) - 1
        BY <3>1, HoldersAreFinite, FS_RemoveElement
      <4>2. Cardinality((holders \ {r}) \cup {c}) = Cardinality(holders \ {r}) + 1
        BY <1>13, <4>1, FS_AddElement
      <4>3. Cardinality(holders') = Cardinality(holders)
        BY <1>1, <3>1, <4>1, <4>2, HoldersAreFinite
      <4> QED
        BY <1>2, <4>3 DEF PlacesAgree
    <3>2. CASE r \notin holders
      BY <1>1, <1>2, <3>2 DEF PlacesAgree
    <3> QED
      BY <3>1, <3>2
  <2>2. \A x \in Coros : x \in ToSet(line') => x \notin holders' /\ pc'[x] \in {"acquire", "thrown"}
    BY <1>1, <1>2, <1>5, <1>13 DEF PlacesAgree
  <2>3. \A x \in ToSet(line') : pc'[x] = "acquire" => state'[x] = "blocked"
    <3>1. ToSet(line) \subseteq Coros
      BY DEF PoolTypes, PoolAssumption, ToSet
    <3> QED
      BY <1>1, <1>2, <1>3, <1>5, <1>13, <3>1 DEF PlacesAgree
  <2>4. \A x \in Coros : pc'[x] \in {"acquire", "thrown"} => x \in ToSet(line') \cup holders'
    BY <1>1, <1>2, <1>5 DEF PlacesAgree
  <2>5. \A x \in holders' : pc'[x] \in {"acquire", "thrown", "spawn", "consume"}
    <3> SUFFICES ASSUME NEW x \in holders', x # c
                 PROVE  pc'[x] \in {"acquire", "thrown", "spawn", "consume"}
      BY <1>5
    <3>1. x \in holders /\ x # r /\ x \in Coros
      BY <1>1 DEF PoolTypes
    <3> QED
      BY <1>2, <1>5, <3>1 DEF PlacesAgree
  <2>6. program' = "pool" => \A x \in Coros : pc'[x] \in {"spawn", "consume"} => x \in holders'
    BY <1>1, <1>2, <1>5 DEF PlacesAgree
  <2>7. program' = "map" => holders' = {} /\ line' = <<>>
    BY <1>1, <1>2 DEF PlacesAgree
  <2> QED
    BY <2>1, <2>2, <2>3, <2>4, <2>5, <2>6, <2>7 DEF PlacesAgree
<1>15. Closed'
  <2>1. program = "map" \/ (c # Destroyer /\ state'[Destroyer] = state[Destroyer]
                             /\ pc'[Destroyer] = pc[Destroyer])
    BY <1>1, <1>3, <1>5, <1>6, <1>7 DEF PoolTypes, PoolAssumption
  <2>2. \A x \in Coros : pc'[x] = "thrown" => pc[x] = "thrown"
    BY <1>5
  <2>3. CASE c # Destroyer
    <3>1. state'[Destroyer] = state[Destroyer] /\ pc'[Destroyer] = pc[Destroyer]
      BY <1>3, <1>5, <1>6, <2>3 DEF PoolAssumption
    <3> QED
      BY <1>1, <1>2, <2>2, <3>1 DEF Closed
  <2>4. CASE c = Destroyer
    <3>1. program # "pool" /\ pc'[Destroyer] = "consume"
      BY <1>5, <1>7, <2>4
    <3> QED
      BY <1>1, <1>2, <3>1 DEF Closed
  <2> QED
    BY <2>3, <2>4
<1>16. PoolTypes'
  <2>1. holders' \subseteq Coros
    BY <1>1 DEF PoolTypes
  <2> QED
    BY <1>1, <1>5, <2>1 DEF PoolTypes
<1> QED
  BY <1>1, <1>3, <1>10, <1>12, <1>14, <1>15, <1>16 DEF LoopsInv

LEMMA DropResultKeeps ==
  ASSUME DispatcherAssumption, PoolAssumption, Inv, PoolTypes, LoopsInv,
         NEW r \in Runners, DropResult(r)
  PROVE  Inv' /\ PoolTypes' /\ LoopsInv'
<1>1. /\ pc[r] = "drop" /\ pc' = [pc EXCEPT ![r] = "loop"]
      /\ UNCHANGED <<left, holders, line, program, keepalive, closing, dead>>
      /\ r \in Coros /\ program # "any"
  BY DEF DropResult, PoolAssumption, LoopsInv
<1>2. PICK c \in Consumers : Drop(r, c)
  BY DEF DropResult
<1>3. SlotsInUse /\ OneConsumer /\ PlacesAgree /\ Closed
  BY DEF LoopsInv
<1>4. /\ c \in Coros /\ pc[c] = "consume" /\ owner[c] = r
      /\ dropping' = [dropping EXCEPT ![r] = c] /\ UNCHANGED owner
  BY <1>2 DEF Consumers, Drop
<1>5. /\ Inv' /\ Alive' = Alive
      /\ \A x \in Coros : x # r /\ x # c => state'[x] = state[x]
  BY <1>1, <1>2, <1>4, DropKeeps
<1>6. /\ pc' \in [Coros -> Stations] /\ pc'[r] = "loop"
      /\ \A x \in Coros : x # r => pc'[x] = pc[x]
  BY <1>1 DEF PoolTypes, Stations, InLoop
<1>7. /\ dropping'[r] = c /\ \A x \in Coros : x # r => dropping'[x] = dropping[x]
  BY <1>1, <1>4 DEF Inv, Shapes
<1>8. r # Destroyer /\ Loopers' = Loopers /\ Consumers' = Consumers
  BY <1>1, <1>6 DEF Loopers, Consumers, InLoop, PoolAssumption
<1>9. SlotsInUse'
  <2>1. \A x \in Coros : InUse(x)' <=> InUse(x)
    BY <1>1, <1>6, <1>8 DEF InUse, InLoop
  <2> QED
    BY <1>1, <1>3, <1>5, <1>6, <1>8, <2>1 DEF SlotsInUse
<1>10. OneConsumer'
  <2>1. ASSUME NEW x \in Coros, pc'[x] # "consume" PROVE owner'[x] = Null
    BY <1>1, <1>3, <1>4, <1>6, <2>1 DEF OneConsumer
  <2>2. ASSUME NEW x \in Consumers
        PROVE  /\ owner[x] \in Loopers' /\ pc'[owner[x]] \in {"drop", "loop"}
               /\ pc'[owner[x]] = "loop" => dropping'[owner[x]] = x
    <3>1. owner[x] \in Loopers /\ owner[x] \in Coros
      BY <1>3 DEF OneConsumer, Loopers
    <3>2. CASE owner[x] = r
      <4>1. x = c
        BY <1>2, <1>3, <1>4, <3>2 DEF OneConsumer
      <4> QED
        BY <1>6, <1>7, <1>8, <3>1, <3>2, <4>1
    <3>3. CASE owner[x] # r
      <4>1. pc'[owner[x]] = pc[owner[x]] /\ dropping'[owner[x]] = dropping[owner[x]]
        BY <1>6, <1>7, <3>1, <3>3
      <4> QED
        BY <1>3, <1>8, <3>1, <4>1 DEF OneConsumer
    <3> QED
      BY <3>2, <3>3
  <2>3. \A x, y \in Consumers : owner[x] = owner[y] => x = y
    BY <1>3 DEF OneConsumer
  <2> QED
    BY <1>4, <1>8, <2>1, <2>2, <2>3 DEF OneConsumer
<1>11. /\ ToSet(line) \subseteq Coros
       /\ r \notin ToSet(line) /\ c \notin ToSet(line) /\ r \notin holders
  <2>1. ToSet(line) \subseteq Coros
    BY DEF PoolTypes, PoolAssumption, ToSet
  <2>2. /\ \A x \in Coros : x \in ToSet(line) => pc[x] \in {"acquire", "thrown"}
        /\ \A x \in holders : pc[x] \in {"acquire", "thrown", "spawn", "consume"}
    BY <1>3 DEF PlacesAgree
  <2> QED
    BY <1>1, <1>4, <2>1, <2>2
<1>12. PlacesAgree'
  <2>1. \A x \in ToSet(line) : pc'[x] = "acquire" => state'[x] = "blocked"
    BY <1>3, <1>5, <1>6, <1>11 DEF PlacesAgree
  <2> QED
    BY <1>1, <1>3, <1>6, <1>11, <2>1 DEF PlacesAgree, PoolTypes
<1>13. Closed'
  <2>1. pc'[Destroyer] = pc[Destroyer] /\ \A x \in Coros : pc'[x] = "thrown" => pc[x] = "thrown"
    BY <1>6, <1>8 DEF PoolAssumption
  <2>2. c = Destroyer \/ state'[Destroyer] = state[Destroyer]
    BY <1>5, <1>8 DEF PoolAssumption
  <2>3. c = Destroyer => pc[Destroyer] = "consume"
    BY <1>4
  <2> QED
    BY <1>1, <1>3, <2>1, <2>2, <2>3 DEF Closed
<1>14. PoolTypes'
  BY <1>1, <1>6 DEF PoolTypes
<1> QED
  BY <1>1, <1>5, <1>9, <1>10, <1>12, <1>13, <1>14 DEF LoopsInv

\* A coroutine of the loops returns.
LEMMA ReturnKeeps ==
  ASSUME DispatcherAssumption, PoolAssumption, Inv, PoolTypes, SlotsInUse, OneConsumer,
         NEW x \in Coros, NEW others, Waits(others), End(x, others),
         pc' = [pc EXCEPT ![x] = "gone"], keepalive' = keepalive \ {x}
  PROVE  /\ Inv' /\ SlotsInUse' /\ OneConsumer' /\ pc' \in [Coros -> Stations]
         /\ pc'[x] = "gone" /\ \A y \in Coros : y # x => pc'[y] = pc[y]
         /\ \A y \in Coros : state[y] = "blocked" /\ y \notin ToSet(others) /\ dropping[y] # x
                             => state'[y] = "blocked"
<1>1. /\ Inv' /\ Alive' = Alive \ {x}
      /\ \A y \in Coros : state[y] = "blocked" /\ y \notin ToSet(others) /\ dropping[y] # x
                          => state'[y] = "blocked"
  BY EndKeeps
<1>2. /\ \A k \in Coros : owner[k] # x
      /\ owner' = [owner EXCEPT ![x] = Null]
      /\ dropping' = [p \in Coros |-> IF dropping[p] = x THEN Null ELSE dropping[p]]
  BY DEF End
<1>3. /\ pc' \in [Coros -> Stations] /\ pc'[x] = "gone" /\ \A y \in Coros : y # x => pc'[y] = pc[y]
  BY DEF PoolTypes, Stations
<1>4. owner'[x] = Null /\ \A y \in Coros : y # x => owner'[y] = owner[y]
  BY <1>2 DEF Inv, Shapes
<1>5. Loopers' = Loopers \ {x} /\ Consumers' = Consumers \ {x}
  BY <1>3 DEF Loopers, Consumers, InLoop
<1>6. SlotsInUse'
  <2>1. ASSUME NEW y \in Coros PROVE y \in Alive' <=> InUse(y)'
    <3>1. y \in Alive <=> InUse(y)
      BY DEF SlotsInUse
    <3>2. CASE y = x
      BY <1>1, <1>3, <3>2 DEF InUse, InLoop
    <3>3. CASE y # x
      BY <1>1, <1>3, <3>1, <3>3 DEF InUse
    <3> QED
      BY <3>2, <3>3
  <2>2. \A y \in Coros : pc'[y] = "destroy" => y = Destroyer
    BY <1>3 DEF SlotsInUse
  <2> QED
    BY <1>5, <2>1, <2>2 DEF SlotsInUse
<1>7. OneConsumer'
  <2>1. ASSUME NEW y \in Coros, pc'[y] # "consume" PROVE owner'[y] = Null
    BY <1>3, <1>4, <2>1 DEF OneConsumer
  <2>2. ASSUME NEW y \in Consumers'
        PROVE  /\ owner'[y] \in Loopers' /\ pc'[owner'[y]] \in {"drop", "loop"}
               /\ pc'[owner'[y]] = "loop" => dropping'[owner'[y]] = y
    <3>1. y \in Consumers /\ y # x /\ y \in Coros /\ owner'[y] = owner[y] /\ owner[y] # x
      BY <1>2, <1>4, <1>5, <2>2 DEF Consumers
    <3>2. owner[y] \in Loopers /\ owner[y] \in Coros /\ pc'[owner[y]] = pc[owner[y]]
      BY <1>3, <3>1 DEF OneConsumer, Loopers
    <3>3. dropping[owner[y]] = y => dropping'[owner[y]] = y
      BY <1>2, <3>1, <3>2
    <3> QED
      BY <1>5, <3>1, <3>2, <3>3 DEF OneConsumer
  <2>3. ASSUME NEW y \in Consumers', NEW z \in Consumers', owner'[y] = owner'[z] PROVE y = z
    BY <1>4, <1>5, <2>3 DEF OneConsumer, Consumers
  <2> QED
    BY <2>1, <2>2, <2>3 DEF OneConsumer
<1> QED
  BY <1>1, <1>3, <1>6, <1>7

\* The places, and the line, are as before when somebody returns who has none.
LEMMA ReturnPlaces ==
  ASSUME DispatcherAssumption, PoolAssumption, Inv, PoolTypes, OneConsumer, PlacesAgree,
         NEW x \in Coros, pc[x] \notin {"acquire", "thrown", "spawn", "consume"},
         pc' = [pc EXCEPT ![x] = "gone"], UNCHANGED <<program, holders, line>>,
         NEW others, \A y \in ToSet(others) : y \notin Runners,
         \A y \in Coros : state[y] = "blocked" /\ y \notin ToSet(others) /\ dropping[y] # x
                          => state'[y] = "blocked"
  PROVE  PlacesAgree'
<1>1. pc'[x] = "gone" /\ \A y \in Coros : y # x => pc'[y] = pc[y]
  BY DEF PoolTypes
<1>2. x \notin holders /\ x \notin ToSet(line)
  BY DEF PlacesAgree
<1>3. \A y \in ToSet(line) : y \in Coros /\ y \in Runners /\ dropping[y] # x
  <2>1. \A y \in ToSet(line) : y \in Runners
    BY DEF PoolTypes, ToSet
  <2> QED
    BY <2>1, LineDrainsNobody DEF DispatcherAssumption
<1>4. \A y \in ToSet(line') : pc'[y] = "acquire" => state'[y] = "blocked"
  BY <1>1, <1>2, <1>3 DEF PlacesAgree
<1>5. \A y \in Coros : y \in ToSet(line') => y \notin holders' /\ pc'[y] \in {"acquire", "thrown"}
  BY <1>1, <1>2 DEF PlacesAgree
<1>6. \A y \in holders' : pc'[y] \in {"acquire", "thrown", "spawn", "consume"}
  BY <1>1, <1>2 DEF PlacesAgree, PoolTypes
<1>7. /\ \A y \in Coros : pc'[y] \in {"acquire", "thrown"} => y \in ToSet(line') \cup holders'
      /\ program' = "pool" => \A y \in Coros : pc'[y] \in {"spawn", "consume"} => y \in holders'
  BY <1>1 DEF PlacesAgree
<1> QED
  BY <1>4, <1>5, <1>6, <1>7 DEF PlacesAgree

\* The destructor of the pool drains nobody.
LEMMA DestroyerDrainsNobody ==
  ASSUME DispatcherAssumption, PoolAssumption, Inv, PoolTypes, SlotsInUse, OneConsumer
  PROVE  dropping[Destroyer] = Null
<1>1. Destroyer \in Coros /\ Destroyer \notin Runners /\ Null \notin Coros
  BY DEF PoolAssumption, DispatcherAssumption
<1>2. dropping[Destroyer] \in Coros \cup {Null}
  BY <1>1 DEF Inv, Shapes
<1>3. CASE dropping[Destroyer] \in Coros
  <2> DEFINE d == dropping[Destroyer]
  <2>1. d \in Coros /\ owner[d] = Destroyer
    BY <1>1, <1>3 DEF Inv, ChildrenComeFirst
  <2>2. d \in Consumers
    BY <1>1, <2>1 DEF OneConsumer, Consumers
  <2> HIDE DEF d
  <2>3. Destroyer \in keepalive
    BY <2>1, <2>2 DEF OneConsumer, SlotsInUse
  <2> QED
    BY <1>1, <2>3 DEF PoolTypes
<1> QED
  BY <1>2, <1>3

LEMMA EndConsumerKeeps ==
  ASSUME DispatcherAssumption, PoolAssumption, Inv, PoolTypes, LoopsInv,
         NEW c \in Coros, EndConsumer(c)
  PROVE  Inv' /\ PoolTypes' /\ LoopsInv'
<1>1. /\ pc[c] = "consume" /\ c \in Consumers /\ Give(c) /\ End(c, Told(c))
      /\ pc' = [pc EXCEPT ![c] = "gone"]
      /\ UNCHANGED <<left, program, keepalive, closing, dead>>
      /\ program # "any"
  BY DEF EndConsumer, Consumers, LoopsInv
<1>2. SlotsInUse /\ OneConsumer /\ PlacesAgree /\ Closed
  BY DEF LoopsInv
<1>3. c \notin keepalive
  BY <1>1, <1>2 DEF SlotsInUse, Loopers, InLoop
<1>4. Waits(Told(c))
  BY <1>1, <1>2, ToldWait
<1>5. /\ Inv' /\ SlotsInUse' /\ OneConsumer' /\ pc' \in [Coros -> Stations]
      /\ pc'[c] = "gone" /\ \A y \in Coros : y # c => pc'[y] = pc[y]
      /\ \A y \in Coros : state[y] = "blocked" /\ y \notin ToSet(Told(c)) /\ dropping[y] # c
                          => state'[y] = "blocked"
  <2>1. keepalive' = keepalive \ {c}
    BY <1>1, <1>3
  <2> QED
    BY <1>1, <1>2, <1>4, <2>1, ReturnKeeps
<1>6. \A y \in ToSet(line) : y \notin holders /\ y \in Runners /\ y \in Coros
  BY <1>2 DEF PlacesAgree, PoolTypes, PoolAssumption, ToSet
<1>7. /\ line' \in Seq(Runners) /\ IsInjective(line') /\ holders' \subseteq Coros
      /\ \A y \in ToSet(Told(c)) : y \in ToSet(line)
  BY <1>1, <1>6, GiveFacts
<1>8. PoolTypes'
  BY <1>1, <1>5, <1>7 DEF PoolTypes
<1>9. PlacesAgree'
  <2>1. \A y \in ToSet(line) : dropping[y] # c
    BY <1>2, LineDrainsNobody DEF DispatcherAssumption
  <2>2. \A y \in ToSet(line) : y \notin ToSet(Told(c)) /\ y # c
                               => (state[y] = "blocked" => state'[y] = "blocked")
    BY <1>5, <1>6, <2>1
  <2> QED
    BY <1>1, <1>2, <2>2, GivePlaces
<1>10. Closed'
  <2>1. CASE c = Destroyer
    <3>1. program # "pool" /\ pc'[Destroyer] = "gone"
      BY <1>1, <1>2, <1>5, <2>1 DEF Closed
    <3> QED
      BY <1>1, <1>2, <3>1 DEF Closed
  <2>2. CASE c # Destroyer
    <3>1. Destroyer \in Coros /\ pc'[Destroyer] = pc[Destroyer]
      BY <1>5, <2>2 DEF PoolAssumption
    <3>2. state[Destroyer] = "blocked" => state'[Destroyer] = "blocked"
      <4>1. dropping[Destroyer] # c
        BY <1>2, DestroyerDrainsNobody DEF DispatcherAssumption
      <4>2. Destroyer \notin ToSet(Told(c))
        BY <1>6, <1>7 DEF PoolAssumption
      <4> QED
        BY <1>5, <3>1, <4>1, <4>2
    <3>3. \A y \in Coros : pc'[y] = "thrown" => pc[y] = "thrown"
      BY <1>5
    <3> QED
      BY <1>1, <1>2, <3>1, <3>2, <3>3 DEF Closed
  <2> QED
    BY <2>1, <2>2
<1> QED
  BY <1>1, <1>5, <1>8, <1>9, <1>10 DEF LoopsInv

LEMMA LeaveKeeps ==
  ASSUME DispatcherAssumption, PoolAssumption, Inv, PoolTypes, LoopsInv,
         NEW r \in Runners, Leave(r)
  PROVE  Inv' /\ PoolTypes' /\ LoopsInv'
<1> DEFINE others == IF closing /\ keepalive = {r} THEN <<Destroyer>> ELSE <<>>
<1>1. /\ running = r /\ pc[r] \in {"leave", "loop"}
      /\ pc' = [pc EXCEPT ![r] = "gone"] /\ keepalive' = keepalive \ {r}
      /\ End(r, others)
      /\ UNCHANGED <<left, holders, line, program, closing, dead>>
      /\ r \in Coros /\ program # "any"
  BY DEF Leave, PoolAssumption, LoopsInv
<1>2. SlotsInUse /\ OneConsumer /\ PlacesAgree /\ Closed
  BY DEF LoopsInv
<1>3. r \in keepalive /\ r # Destroyer /\ Destroyer \in Coros /\ Destroyer \notin Runners
  BY <1>1, <1>2 DEF SlotsInUse, Loopers, InLoop, PoolAssumption
<1>4. dropping[Destroyer] = Null
  BY <1>2, DestroyerDrainsNobody
\* The destructor sleeps until the last runner leaves.
<1>5. closing => pc[Destroyer] = "destroy" /\ state[Destroyer] = "blocked"
  BY <1>2, <1>3 DEF Closed
<1>6. Waits(others) /\ \A y \in ToSet(others) : y \notin Runners
  <2>1. CASE closing /\ keepalive = {r}
    <3>1. others = <<Destroyer>> /\ ToSet(<<Destroyer>>) = {Destroyer} /\ IsInjective(<<Destroyer>>)
      BY <2>1 DEF ToSet, IsInjective
    <3>2. <<Destroyer>> \in Seq(Coros)
      BY <1>3
    <3> HIDE DEF others
    <3> QED
      BY <1>3, <1>4, <1>5, <2>1, <3>1, <3>2 DEF Waits
  <2>2. CASE ~ (closing /\ keepalive = {r})
    <3>1. others = <<>> /\ ToSet(<<>>) = {}
      BY <2>2 DEF ToSet
    <3> QED
      BY <3>1, WaitsNobody
  <2> QED
    BY <2>1, <2>2
<1>7. Destroyer \in ToSet(others) => keepalive = {r}
  <2>1. CASE ~ (closing /\ keepalive = {r})
    <3>1. others = <<>> /\ ToSet(<<>>) = {}
      BY <2>1 DEF ToSet
    <3> QED
      BY <3>1
  <2> QED
    BY <2>1
<1> HIDE DEF others
<1>8. /\ Inv' /\ SlotsInUse' /\ OneConsumer' /\ pc' \in [Coros -> Stations]
      /\ pc'[r] = "gone" /\ \A y \in Coros : y # r => pc'[y] = pc[y]
      /\ \A y \in Coros : state[y] = "blocked" /\ y \notin ToSet(others) /\ dropping[y] # r
                          => state'[y] = "blocked"
  BY <1>1, <1>2, <1>6, ReturnKeeps
<1>9. PlacesAgree'
  <2>1. pc[r] \notin {"acquire", "thrown", "spawn", "consume"}
    BY <1>1
  <2>2. UNCHANGED <<program, holders, line>> /\ pc' = [pc EXCEPT ![r] = "gone"] /\ r \in Coros
    BY <1>1
  <2>3. \A y \in Coros : state[y] = "blocked" /\ y \notin ToSet(others) /\ dropping[y] # r
                          => state'[y] = "blocked"
    BY <1>8
  <2> QED
    BY <1>2, <1>6, <2>1, <2>2, <2>3, ReturnPlaces
<1>10. PoolTypes'
  BY <1>1, <1>8 DEF PoolTypes
<1>11. Closed'
  <2>1. pc'[Destroyer] = pc[Destroyer] /\ \A y \in Coros : pc'[y] = "thrown" => pc[y] = "thrown"
    BY <1>3, <1>8
  <2>2. pc[Destroyer] = "destroy" => state[Destroyer] = "blocked"
    BY <1>2, <1>3 DEF Closed
  <2>3. dropping[Destroyer] # r
    BY <1>1, <1>4 DEF DispatcherAssumption
  <2>4. pc[Destroyer] = "destroy" => state'[Destroyer] = "blocked" \/ keepalive' = {}
    BY <1>1, <1>3, <1>7, <1>8, <2>2, <2>3
  <2>5. ~ (program = "pool" /\ pc[Destroyer] = "gone")
    BY <1>2, <1>3 DEF Closed
  <2> QED
    BY <1>1, <1>2, <2>1, <2>4, <2>5 DEF Closed
<1> QED
  BY <1>1, <1>8, <1>9, <1>10, <1>11 DEF LoopsInv

LEMMA DestroyedKeeps ==
  ASSUME DispatcherAssumption, PoolAssumption, Inv, PoolTypes, LoopsInv, Destroyed
  PROVE  Inv' /\ PoolTypes' /\ LoopsInv'
<1>1. /\ pc[Destroyer] = "destroy" \/ (program = "map" /\ pc[Destroyer] = "idle")
      /\ End(Destroyer, <<>>) /\ running = Destroyer
      /\ pc' = [pc EXCEPT ![Destroyer] = "gone"]
      /\ UNCHANGED <<left, holders, line, program, keepalive, closing, dead>>
      /\ Destroyer \in Coros /\ Destroyer \notin Runners /\ program # "any"
  BY DEF Destroyed, End, PoolAssumption, LoopsInv
<1>2. SlotsInUse /\ OneConsumer /\ PlacesAgree /\ Closed
  BY DEF LoopsInv
<1>3. ToSet(<<>>) = {} /\ keepalive' = keepalive \ {Destroyer}
  BY <1>1 DEF ToSet, PoolTypes
<1>4. /\ Inv' /\ SlotsInUse' /\ OneConsumer' /\ pc' \in [Coros -> Stations]
      /\ pc'[Destroyer] = "gone" /\ \A y \in Coros : y # Destroyer => pc'[y] = pc[y]
      /\ \A y \in Coros : state[y] = "blocked" /\ y \notin ToSet(<<>>) /\ dropping[y] # Destroyer
                          => state'[y] = "blocked"
  BY <1>1, <1>2, <1>3, WaitsNobody, ReturnKeeps
<1>5. PlacesAgree'
  <2>1. /\ pc[Destroyer] \notin {"acquire", "thrown", "spawn", "consume"}
        /\ \A y \in ToSet(<<>>) : y \notin Runners
    BY <1>1, <1>3
  <2> QED
    BY <1>1, <1>2, <1>4, <2>1, ReturnPlaces, ZenonT(60)
<1>6. PoolTypes'
  BY <1>1, <1>4 DEF PoolTypes
\* Whoever runs does not sleep, so that nobody keeps the pool alive any more.
<1>7. Closed'
  <2>1. state[Destroyer] # "blocked"
    BY <1>1 DEF Inv, SlotsAgree
  <2>2. program = "pool" => keepalive = {}
    BY <1>1, <1>2, <2>1 DEF Closed
  <2> QED
    BY <1>1, <1>2, <1>4, <2>2 DEF Closed
<1> QED
  BY <1>1, <1>4, <1>5, <1>6, <1>7 DEF LoopsInv

LEMMA DestroyPoolKeeps ==
  ASSUME DispatcherAssumption, PoolAssumption, Inv, PoolTypes, LoopsInv, DestroyPool
  PROVE  Inv' /\ PoolTypes' /\ LoopsInv'
<1> DEFINE q == queue \o line
           st == [Notify(line, state) EXCEPT ![Destroyer] = "blocked"]
<1>1. /\ program = "pool" /\ running = Destroyer /\ pc[Destroyer] = "idle"
      /\ closing' = TRUE
      /\ pc' = [c \in Coros |-> IF c = Destroyer THEN "destroy"
                                ELSE IF c \in ToSet(line) THEN "thrown" ELSE pc[c]]
      /\ UNCHANGED <<started, owner, dropping, left, holders, line, program, keepalive, dead>>
      /\ Destroyer \in Coros /\ Destroyer \notin Runners
  BY DEF DestroyPool, PoolAssumption
<1>2. SlotsInUse /\ OneConsumer /\ PlacesAgree /\ Closed
  BY DEF LoopsInv
<1>3. \A y \in ToSet(line) : /\ y \in Runners /\ y \in Coros /\ y # Destroyer
                             /\ pc[y] = "acquire" /\ state[y] = "blocked" /\ dropping[y] = Null
  <2>1. \A y \in ToSet(line) : y \in Runners /\ y \in Coros /\ y # Destroyer
    BY <1>1 DEF PoolTypes, PoolAssumption, ToSet
  <2>2. \A y \in ToSet(line) : pc[y] = "acquire" /\ state[y] = "blocked"
    BY <1>1, <1>2, <2>1 DEF PlacesAgree, Closed
  <2> QED
    BY <1>2, <2>1, <2>2, LineDrainsNobody
<1>4. line \in Seq(Coros) /\ IsInjective(line)
  BY DEF PoolTypes, PoolAssumption
<1>5. /\ Inv' /\ Alive' = Alive
      /\ state'[Destroyer] = "blocked" \/ keepalive = {}
  <2>1. CASE keepalive # {}
    <3>1. Swap(q, st, Null)
      BY <2>1 DEF DestroyPool
    <3>2. /\ q \in Seq(Coros) /\ IsInjective(q) /\ ToSet(q) = ToSet(queue) \cup ToSet(line)
          /\ Notify(line, state) \in [Coros -> States]
          /\ \A x \in Coros :
               /\ Notify(line, state)[x] = IF x \in ToSet(line) THEN "live" ELSE state[x]
               /\ x # running => (Notify(line, state)[x] = "live" <=> x \in ToSet(q))
               /\ Notify(line, state)[x] = "cached" <=> state[x] = "cached"
               /\ Notify(line, state)[x] = "none" <=> state[x] = "none"
      BY <1>3, <1>4, NotifyFacts
    <3>3. /\ st \in [Coros -> States] /\ st[Destroyer] = "blocked"
          /\ \A x \in Coros : x # Destroyer => st[x] = Notify(line, state)[x]
      BY <1>1, <3>2 DEF States
    <3>4. state[Destroyer] = "live" /\ Destroyer \notin ToSet(q)
      BY <1>1, <1>3, <3>2 DEF Inv, SlotsAgree
    <3> HIDE DEF q, st
    <3>5. \A x \in Coros : /\ st[x] = "live" <=> x \in ToSet(q)
                           /\ st[x] = "cached" <=> state[x] = "cached"
                           /\ st[x] = "none" <=> state[x] = "none"
      BY <1>1, <3>2, <3>3, <3>4
    <3>6. running \in Coros /\ started' = started /\ owner' = owner
          /\ dropping' = dropping /\ dropping' \in [Coros -> Coros \cup {Null}]
      BY <1>1 DEF Inv, Shapes
    <3>7. state' = st /\ Alive' = Alive /\ Shapes' /\ SlotsAgree' /\ DeltaIsExact' /\ HeldExists'
      BY <3>1, <3>2, <3>3, <3>5, <3>6, GiveWay
    <3>8. ChildrenComeFirst'
      <4>1. \A x \in Coros : dropping[x] \in Coros => x \notin ToSet(line) /\ x # Destroyer
        BY <1>1, <1>2, <1>3, DestroyerDrainsNobody DEF DispatcherAssumption
      <4>2. \A x \in Coros : dropping[x] \in Coros => state'[x] = state[x]
        BY <3>2, <3>3, <3>7, <4>1
      <4> QED
        BY <3>6, <3>7, <4>2 DEF Inv, ChildrenComeFirst
    <3> QED
      BY <3>3, <3>7, <3>8 DEF Inv
  <2>2. CASE keepalive = {}
    <3>1. UNCHANGED dispatchVars
      BY <1>1, <2>2 DEF DestroyPool, dispatchVars
    <3> QED
      BY <2>2, <3>1 DEF dispatchVars, Inv, Shapes, SlotsAgree, DeltaIsExact, ChildrenComeFirst,
                        HeldExists, Alive
  <2> QED
    BY <2>1, <2>2
<1> HIDE DEF q, st
<1>6. /\ pc' \in [Coros -> Stations] /\ pc'[Destroyer] = "destroy"
      /\ \A c \in ToSet(line) : pc'[c] = "thrown"
      /\ \A c \in Coros : c # Destroyer /\ c \notin ToSet(line) => pc'[c] = pc[c]
  BY <1>1, <1>3 DEF PoolTypes, Stations, InLoop
<1>7. /\ Consumers' = Consumers /\ Loopers' = Loopers
      /\ \A c \in Coros : InUse(c)' <=> InUse(c)
  <2>1. ASSUME NEW c \in Coros
        PROVE  /\ pc'[c] = "consume" <=> pc[c] = "consume"
               /\ pc'[c] \in InLoop <=> pc[c] \in InLoop
               /\ InUse(c)' <=> InUse(c)
    <3>1. CASE c = Destroyer
      BY <1>1, <1>6, <3>1 DEF InLoop, InUse
    <3>2. CASE c \in ToSet(line)
      BY <1>3, <1>6, <3>2 DEF InLoop, InUse
    <3>3. CASE c # Destroyer /\ c \notin ToSet(line)
      BY <1>6, <3>3 DEF InUse
    <3> QED
      BY <3>1, <3>2, <3>3
  <2> QED
    BY <2>1 DEF Consumers, Loopers
<1>8. SlotsInUse'
  <2>1. \A c \in Coros : pc'[c] = "destroy" => c = Destroyer
    BY <1>2, <1>6 DEF SlotsInUse
  <2> QED
    BY <1>1, <1>2, <1>5, <1>7, <2>1 DEF SlotsInUse
<1>9. OneConsumer'
  <2>1. ASSUME NEW c \in Coros, pc'[c] # "consume" PROVE owner'[c] = Null
    <3>1. pc[c] # "consume"
      BY <1>7, <2>1 DEF Consumers
    <3> QED
      BY <1>1, <1>2, <3>1 DEF OneConsumer
  <2>2. ASSUME NEW c \in Consumers
        PROVE  pc'[owner[c]] = pc[owner[c]]
    <3>1. owner[c] \in Coros /\ pc[owner[c]] \in {"drop", "loop"}
      BY <1>2 DEF OneConsumer, Loopers
    <3> QED
      BY <1>1, <1>3, <1>6, <3>1
  <2> QED
    BY <1>1, <1>2, <1>7, <2>1, <2>2 DEF OneConsumer
<1>10. PlacesAgree'
  <2>1. Destroyer \notin holders
    BY <1>1, <1>2 DEF PlacesAgree
  <2>2. /\ \A c \in Coros :
             c \in ToSet(line) => c \notin holders /\ pc'[c] \in {"acquire", "thrown"}
        /\ \A c \in ToSet(line) : pc'[c] = "acquire" => state'[c] = "blocked"
        /\ \A c \in Coros : pc'[c] \in {"acquire", "thrown"} => c \in ToSet(line) \cup holders
    BY <1>2, <1>6 DEF PlacesAgree
  <2>3. \A c \in holders : pc'[c] \in {"acquire", "thrown", "spawn", "consume"}
    BY <1>2, <1>6, <2>1 DEF PlacesAgree, PoolTypes
  <2>4. \A c \in Coros : pc'[c] \in {"spawn", "consume"} => c \in holders
    BY <1>1, <1>2, <1>6 DEF PlacesAgree
  <2> QED
    BY <1>1, <1>2, <2>2, <2>3, <2>4 DEF PlacesAgree
<1>11. Closed'
  BY <1>1, <1>5, <1>6 DEF Closed
<1>12. PoolTypes'
  BY <1>1, <1>6 DEF PoolTypes
<1> QED
  BY <1>1, <1>5, <1>8, <1>9, <1>10, <1>11, <1>12 DEF LoopsInv

\* The dispatcher takes a step that the loops do not see.
LEMMA Unseen ==
  ASSUME PoolTypes, LoopsInv, UNCHANGED poolVars, UNCHANGED <<owner, dropping, state>>
  PROVE  PoolTypes' /\ LoopsInv'
BY DEF PoolTypes, LoopsInv, poolVars, SlotsInUse, OneConsumer, PlacesAgree, Closed, Loopers,
       Consumers, InUse, Alive

LEMMA LoopsKeep ==
  ASSUME DispatcherAssumption, PoolAssumption, Inv, PoolTypes, LoopsInv, LoopNext
  PROVE  Inv' /\ PoolTypes' /\ LoopsInv'
<1>1. ASSUME NEW r \in Runners, Acquire(r) \/ Acquired(r) \/ Thrown(r) \/ DropResult(r) \/ Leave(r)
      PROVE  Inv' /\ PoolTypes' /\ LoopsInv'
  BY <1>1, AcquireKeeps, AcquiredKeeps, ThrownKeeps, DropResultKeeps, LeaveKeeps
<1>2. ASSUME NEW r \in Runners, NEW c \in Coros, SpawnConsumer(r, c)
      PROVE  Inv' /\ PoolTypes' /\ LoopsInv'
  BY <1>2, SpawnConsumerKeeps
<1>3. ASSUME NEW c \in Coros, Yield(c), UNCHANGED poolVars
      PROVE  Inv' /\ PoolTypes' /\ LoopsInv'
  <2>1. Inv' /\ state' = state
    BY <1>3, YieldKeeps
  <2>2. UNCHANGED <<owner, dropping>>
    BY <1>3 DEF Yield
  <2> QED
    BY <1>3, <2>1, <2>2, Unseen
<1>4. ASSUME NEW c \in Coros, ConsumerYields(c) \/ EndConsumer(c)
      PROVE  Inv' /\ PoolTypes' /\ LoopsInv'
  BY <1>3, <1>4, EndConsumerKeeps DEF ConsumerYields
<1>5. CASE DestroyPool \/ Destroyed \/ DestroyerYields
  <2>1. Destroyer \in Coros
    BY DEF PoolAssumption
  <2> QED
    BY <1>3, <1>5, <2>1, DestroyPoolKeeps, DestroyedKeeps DEF DestroyerYields
<1>6. CASE Run /\ UNCHANGED poolVars
  <2>1. UNCHANGED <<owner, dropping, state>>
    BY <1>6 DEF Run
  <2> QED
    BY <1>6, <2>1, RunKeeps, Unseen
<1> QED
  BY <1>1, <1>2, <1>4, <1>5, <1>6 DEF LoopNext

LEMMA PoolInit ==
  ASSUME DispatcherAssumption, PoolAssumption, Init
  PROVE  Inv /\ PoolInv
<1> DEFINE first == IF program = "any" THEN {Destroyer} ELSE Runners \cup {Destroyer}
<1>1. /\ program \in {"any", "pool", "map"} /\ DispatcherInit(first)
      /\ pc = [c \in Coros |-> IF c \in Runners THEN "loop" ELSE "idle"]
      /\ left = [r \in Runners |-> Items]
      /\ holders = {} /\ line = <<>> /\ keepalive = Runners /\ closing = FALSE
  BY DEF Init
<1>2. first \in SUBSET Coros /\ Runners \subseteq Coros /\ Destroyer \in Coros \ Runners
  BY DEF PoolAssumption
<1> HIDE DEF first
<1>3. Inv
  BY <1>1, <1>2, InitHolds
<1>4. \A c \in Coros : pc[c] = IF c \in Runners THEN "loop" ELSE "idle"
  BY <1>1
<1>5. ToSet(<<>>) = {} /\ IsInjective(<<>>) /\ Consumers = {} /\ Loopers = Runners
  BY <1>2, <1>4 DEF ToSet, IsInjective, Consumers, Loopers, InLoop
<1>6. PoolTypes
  <2>1. left \in [Runners -> Nat] /\ line \in Seq(Runners)
    BY <1>1 DEF PoolAssumption
  <2>2. pc \in [Coros -> Stations]
    BY <1>1 DEF Stations, InLoop
  <2> QED
    BY <1>1, <1>5, <2>1, <2>2 DEF PoolTypes
<1>7. ASSUME program # "any" PROVE LoopsInv
  <2>1. Alive = Runners \cup {Destroyer}
    BY <1>1, <1>2, <1>7 DEF DispatcherInit, Alive, first
  <2>2. \A c \in Coros : c \in Alive <=> InUse(c)
    BY <1>2, <1>4, <2>1 DEF InUse, InLoop
  <2>3. SlotsInUse
    BY <1>1, <1>4, <1>5, <2>2 DEF SlotsInUse
  <2>4. OneConsumer
    BY <1>1, <1>5 DEF OneConsumer, DispatcherInit
  <2>5. PlacesAgree
    <3>1. Cardinality({}) = 0 /\ 0 <= Limit
      BY FS_EmptySet DEF PoolAssumption
    <3> QED
      BY <1>1, <1>4, <1>5, <3>1 DEF PlacesAgree
  <2>6. Closed
    BY <1>1, <1>2, <1>4 DEF Closed
  <2> QED
    BY <1>7, <2>3, <2>4, <2>5, <2>6 DEF LoopsInv
<1> QED
  BY <1>3, <1>5, <1>6, <1>7 DEF PoolInv

LEMMA PoolKeeps ==
  ASSUME DispatcherAssumption, PoolAssumption, Inv, PoolInv, [Next]_vars
  PROVE  Inv' /\ PoolInv'
<1>1. PoolTypes /\ (program = "any" => Consumers = {}) /\ (program # "any" => LoopsInv)
  BY DEF PoolInv
<1>2. ASSUME UNCHANGED poolVars, program = "any" PROVE PoolInv'
  BY <1>1, <1>2 DEF poolVars, PoolInv, PoolTypes, Consumers
<1>3. CASE program = "any" /\ DispatcherNext /\ UNCHANGED poolVars
  BY <1>2, <1>3, DispatcherKeeps
<1>4. CASE program # "any" /\ LoopNext
  <2>1. Inv' /\ PoolTypes' /\ LoopsInv'
    BY <1>1, <1>4, LoopsKeep
  <2>2. program' # "any"
    BY <2>1 DEF LoopsInv
  <2> QED
    BY <2>1, <2>2 DEF PoolInv
<1>5. CASE UNCHANGED vars
  <2>1. UNCHANGED poolVars /\ UNCHANGED dispatchVars
    BY <1>5 DEF vars
  <2>2. Inv'
    BY <2>1 DEF dispatchVars, Inv, Shapes, SlotsAgree, DeltaIsExact, ChildrenComeFirst,
                HeldExists, Alive
  <2>3. CASE program = "any"
    BY <1>2, <2>1, <2>2, <2>3
  <2>4. CASE program # "any"
    <3>1. PoolTypes' /\ LoopsInv' /\ program' = program
      BY <1>1, <2>1, <2>4, Unseen DEF dispatchVars, poolVars
    <3> QED
      BY <2>2, <2>4, <3>1 DEF PoolInv
  <2> QED
    BY <2>3, <2>4
<1> QED
  BY <1>3, <1>4, <1>5 DEF Next

LEMMA PoolBound ==
  ASSUME DispatcherAssumption, PoolAssumption, PoolInv
  PROVE  PoolIsBounded
<1>1. PoolTypes /\ (program = "any" => Consumers = {}) /\ (program # "any" => LoopsInv)
  BY DEF PoolInv
<1>2. CASE program = "any"
  <2>1. \A r \in Runners : {c \in Consumers : owner[c] = r} = {}
    BY <1>1, <1>2
  <2>2. Cardinality({}) = 0
    BY FS_EmptySet
  <2> QED
    BY <1>1, <1>2, <2>1, <2>2 DEF PoolIsBounded
<1>3. CASE program # "any"
  <2>1. SlotsInUse /\ OneConsumer /\ PlacesAgree /\ Closed
    BY <1>1, <1>3 DEF LoopsInv
  <2>2. ASSUME program = "pool" PROVE Cardinality(Consumers) <= Limit
    <3>1. Consumers \subseteq holders
      BY <2>1, <2>2 DEF PlacesAgree, Consumers
    <3>2. /\ Cardinality(Consumers) <= Cardinality(holders)
          /\ Cardinality(Consumers) \in Nat /\ Cardinality(holders) \in Nat
      BY <1>1, <3>1, HoldersAreFinite, FS_Subset, FS_CardinalityType
    <3>3. Cardinality(holders) <= Limit
      BY <2>1 DEF PlacesAgree
    <3> QED
      BY <3>2, <3>3 DEF PoolAssumption
  <2>3. ASSUME NEW r \in Runners PROVE Cardinality({c \in Consumers : owner[c] = r}) <= 1
    <3> DEFINE own == {c \in Consumers : owner[c] = r}
    <3>1. \A c, e \in own : c = e
      BY <2>1 DEF OneConsumer
    <3> HIDE DEF own
    <3>2. Cardinality(own) <= 1
      <4>1. CASE own = {}
        BY <4>1, FS_EmptySet
      <4>2. CASE own # {}
        <5>1. PICK c : c \in own
          BY <4>2
        <5>2. own = {c} /\ Cardinality({c}) = 1
          BY <3>1, <5>1, FS_Singleton, SMTT(40)
        <5> QED
          BY <5>2
      <4> QED
        BY <4>1, <4>2
    <3> QED
      BY <3>2 DEF own
  <2>4. ASSUME NEW r \in Runners, pc[r] = "gone", NEW c \in Consumers PROVE owner[c] # r
    BY <2>1, <2>4 DEF OneConsumer
  <2>5. ASSUME program = "pool", pc[Destroyer] = "gone"
        PROVE  holders = {} /\ line = <<>> /\ Consumers = {}
    <3>1. Loopers = {}
      BY <2>1, <2>5 DEF Closed, SlotsInUse
    <3>2. Consumers = {}
      BY <2>1, <3>1 DEF OneConsumer
    <3>3. \A c \in Coros : pc[c] \notin {"acquire", "thrown", "spawn", "consume"}
      BY <3>1, <3>2 DEF Loopers, InLoop, Consumers
    <3>4. holders = {}
      BY <1>1, <2>1, <3>3 DEF PlacesAgree, PoolTypes
    <3>5. ToSet(line) = {}
      BY <1>1, <2>1, <3>3 DEF PlacesAgree, PoolTypes, PoolAssumption, ToSet
    <3>6. line = <<>>
      <4>1. line \in Seq(Runners)
        BY <1>1 DEF PoolTypes
      <4>2. CASE line # <<>>
        <5>1. 1 \in DOMAIN line
          BY <4>1, <4>2
        <5> QED
          BY <3>5, <5>1 DEF ToSet
      <4> QED
        BY <4>2
    <3> QED
      BY <3>2, <3>4, <3>6
  <2> QED
    BY <2>2, <2>3, <2>4, <2>5 DEF PoolIsBounded
<1> QED
  BY <1>2, <1>3

-----------------------------------------------------------------------------
\* The inductive invariant of the dispatcher under any program: the three properties,
\* the types, and that only coroutines that exist are held.
THEOREM DispatcherInvariant == DispatcherSpec => []Inv
<1>1. (\E first \in SUBSET Coros : DispatcherInit(first)) => Inv
  BY InitHolds, DispatcherAssumption
<1>2. Inv /\ [DispatcherNext]_dispatchVars => Inv'
  <2> SUFFICES ASSUME Inv, [DispatcherNext]_dispatchVars PROVE Inv'
    OBVIOUS
  <2>1. CASE UNCHANGED dispatchVars
    BY <2>1 DEF dispatchVars, Inv, Shapes, SlotsAgree, DeltaIsExact, ChildrenComeFirst,
                HeldExists, Alive
  <2> QED
    BY <2>1, DispatcherAssumption, DispatcherKeeps
<1> QED
  BY <1>1, <1>2, PTL DEF DispatcherSpec

\* The inductive invariant under the loops of a pool and of coro_map as well: a slot is
\* in use exactly as long as its coroutine has not returned, only consumers are held,
\* whoever asks for a place has it or is in the line, and the destructor of the pool
\* sleeps while a runner keeps the pool alive.
THEOREM PoolInvariant == Spec => [](Inv /\ PoolInv)
<1>1. Init => Inv /\ PoolInv
  BY PoolInit, DispatcherAssumption, PoolAssumption
<1>2. (Inv /\ PoolInv) /\ [Next]_vars => (Inv /\ PoolInv)'
  BY PoolKeeps, DispatcherAssumption, PoolAssumption
<1> QED
  BY <1>1, <1>2, PTL DEF Spec

\* A coroutine that can run is running or queued, once; a free slot is kept once, and
\* the count of slots in use is exact.
THEOREM DispatcherSlots == (DispatcherSpec => []SlotsAgree) /\ (Spec => []SlotsAgree)
<1>1. Inv => SlotsAgree
  BY DEF Inv
<1> QED
  BY <1>1, DispatcherInvariant, PoolInvariant, PTL

\* What has been reported to shutdown_t is how the number of coroutines has changed.
THEOREM DispatcherDelta == (DispatcherSpec => []DeltaIsExact) /\ (Spec => []DeltaIsExact)
<1>1. Inv => DeltaIsExact
  BY DEF Inv
<1> QED
  BY <1>1, DispatcherInvariant, PoolInvariant, PTL

\* A child whose result is being destroyed lives as long as its holder waits.
THEOREM DispatcherChildren ==
  (DispatcherSpec => []ChildrenComeFirst) /\ (Spec => []ChildrenComeFirst)
<1>1. Inv => ChildrenComeFirst
  BY DEF Inv
<1> QED
  BY <1>1, DispatcherInvariant, PoolInvariant, PTL

\* A coro_pool_t never runs more consumers than it has places, a loop has one at a time
\* and none once it has returned, and a pool that was destroyed leaves nobody behind.
THEOREM PoolStaysBounded == Spec => []PoolIsBounded
<1>1. PoolInv => PoolIsBounded
  BY PoolBound, DispatcherAssumption, PoolAssumption
<1> QED
  BY <1>1, PoolInvariant, PTL

=============================================================================
