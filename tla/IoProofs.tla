------------------------------- MODULE IoProofs -------------------------------
(***************************************************************************)
(* What a thread does with the kernel, for any number of descriptors,      *)
(* timers, coroutines and bytes.                                           *)
(*                                                                         *)
(* The event loop: what the epoll set lacks is in m_epoll_changes, and the *)
(* objects that are waited for know exactly the coroutines that wait.  The *)
(* order of the timers and the length of a sleep rest on the arithmetic of *)
(* absolute_time_t, and on what the lists are after a removal, which       *)
(* induction on their length shows.                                        *)
(*                                                                         *)
(* The connection: the invariant says what Held hides: which bytes of the  *)
(* buffer are good while the kernel is asked for more, and that only the   *)
(* reader at the front of m_read_mutex can be asking.  That there is one   *)
(* is the reason why the bytes stay in order.                              *)
(***************************************************************************)
EXTENDS Io, FiniteSums, SequenceTheorems

-----------------------------------------------------------------------------
\* Lists.

\* What is kept of a list that has one more member.
More(q, e, S) == IF e \in S THEN Append(q, e) ELSE q

\* f is what is kept of the first k members, for each k.
KeptUpTo(f, list, S, n) ==
  f = [k \in 0 .. n |-> IF k = 0 THEN <<>> ELSE More(f[k - 1], list[k], S)]

\* The function that Kept defines by recursion exists.
LEMMA KeptExists ==
  ASSUME NEW list, NEW S, NEW N \in Nat
  PROVE  \E f : KeptUpTo(f, list, S, N)
<1> DEFINE D == {n \in 0 .. N : ~ \E f : KeptUpTo(f, list, S, n)}
<1>1. ASSUME D # {} PROVE FALSE
  <2>1. D \in SUBSET Nat
    OBVIOUS
  <2> HIDE DEF D
  <2>2. PICK n \in D : \A j \in D : n <= j
    BY <1>1, <2>1, Least
  <2>3. n \in 0 .. N /\ ~ \E f : KeptUpTo(f, list, S, n)
    BY <2>2 DEF D
  <2>4. n # 0
    <3> DEFINE g == [k \in 0 .. 0 |-> <<>>]
    <3>1. g = [k \in 0 .. 0 |-> IF k = 0 THEN <<>> ELSE More(g[k - 1], list[k], S)]
      <4>1. \A k \in 0 .. 0 : k = 0
        OBVIOUS
      <4> QED BY <4>1
    <3> HIDE DEF g
    <3>2. KeptUpTo(g, list, S, 0)
      BY <3>1 DEF KeptUpTo
    <3> QED BY <2>3, <3>2
  <2>5. n - 1 \in 0 .. N /\ ~ (n <= n - 1) /\ n \in Nat
    BY <2>3, <2>4
  <2>6. n - 1 \notin D
    BY <2>2, <2>5
  <2>7. PICK f : KeptUpTo(f, list, S, n - 1)
    BY <2>5, <2>6 DEF D
  <2> DEFINE g == [k \in 0 .. n |-> IF k = n THEN More(f[n - 1], list[n], S) ELSE f[k]]
  <2>8. \A k \in 0 .. n : g[k] = IF k = n THEN More(f[n - 1], list[n], S) ELSE f[k]
    OBVIOUS
  <2>9. \A k \in 0 .. n - 1 : g[k] = f[k]
    <3>1. \A k \in 0 .. n - 1 : k \in 0 .. n /\ k # n
      BY <2>5
    <3> QED BY <2>8, <3>1
  <2>10. \A k \in 0 .. n - 1 : f[k] = IF k = 0 THEN <<>> ELSE More(f[k - 1], list[k], S)
    BY <2>7, Zenon DEF KeptUpTo
  <2>11. g = [k \in 0 .. n |-> g[k]]
    OBVIOUS
  <2> HIDE DEF g
  <2>12. ASSUME NEW k \in 0 .. n PROVE g[k] = IF k = 0 THEN <<>> ELSE More(g[k - 1], list[k], S)
    <3>1. CASE k = n
      <4>1. k - 1 \in 0 .. n - 1 /\ k # 0
        BY <2>4, <2>5, <3>1
      <4> QED BY <2>8, <2>9, <3>1, <4>1
    <3>2. CASE k # n /\ k = 0
      <4>1. k \in 0 .. n - 1
        BY <2>5, <3>2
      <4> QED BY <2>9, <2>10, <3>2, <4>1
    <3>3. CASE k # n /\ k # 0
      <4>1. k \in 0 .. n - 1 /\ k - 1 \in 0 .. n - 1
        BY <2>5, <3>3
      <4> QED BY <2>9, <2>10, <3>3, <4>1
    <3> QED BY <3>1, <3>2, <3>3
  <2>13. KeptUpTo(g, list, S, n)
    <3>1. g = [k \in 0 .. n |-> IF k = 0 THEN <<>> ELSE More(g[k - 1], list[k], S)]
      BY <2>11, <2>12, Zenon
    <3> QED BY <3>1 DEF KeptUpTo
  <2> QED BY <2>3, <2>13
<1>2. N \in 0 .. N
  OBVIOUS
<1> QED BY <1>1, <1>2

\* What is kept of a list: the members in S and no others, in their order.
LEMMA KeptProps ==
  ASSUME NEW E, NEW list \in Seq(E), NEW S,
         NEW R, \A i, j \in DOMAIN list : i < j => <<list[i], list[j]>> \in R
  PROVE  /\ Kept(list, S) \in Seq(E)
         /\ ToSet(Kept(list, S)) = ToSet(list) \cap S
         /\ \A i, j \in DOMAIN Kept(list, S) : i < j => <<Kept(list, S)[i], Kept(list, S)[j]>> \in R
<1> DEFINE N == Len(list)
           Good(q, n) == /\ q \in Seq(E)
                         /\ ToSet(q) = {list[i] : i \in 1 .. n} \cap S
                         /\ \A i, j \in DOMAIN q : i < j => <<q[i], q[j]>> \in R
           f == CHOOSE g : g = [k \in 0 .. N |-> IF k = 0 THEN <<>>
                                                 ELSE IF list[k] \in S THEN Append(g[k - 1], list[k]) ELSE g[k - 1]]
           D == {n \in 0 .. N : ~ Good(f[n], n)}
<1>1. N \in Nat /\ DOMAIN list = 1 .. N /\ \A i \in 1 .. N : list[i] \in E
  OBVIOUS
<1>2. f = [k \in 0 .. N |-> IF k = 0 THEN <<>> ELSE IF list[k] \in S THEN Append(f[k - 1], list[k]) ELSE f[k - 1]]
  <2>1. PICK g : KeptUpTo(g, list, S, N)
    BY <1>1, KeptExists
  <2> HIDE DEF N
  <2> QED BY <2>1, Zenon DEF KeptUpTo, More
<1>3. Kept(list, S) = f[N]
  BY Zenon DEF Kept
<1> HIDE DEF f, N, Good
<1>4. Good(f[0], 0)
  <2>1. f[0] = <<>>
    BY <1>1, <1>2
  <2> QED BY <2>1 DEF Good, ToSet
<1>5. ASSUME NEW n \in 1 .. N, Good(f[n - 1], n - 1) PROVE Good(f[n], n)
  <2> DEFINE q == f[n - 1]
             e == list[n]
  <2>1. f[n] = IF e \in S THEN Append(q, e) ELSE q
    <3>1. n \in 0 .. N /\ n # 0
      BY <1>1
    <3> QED BY <1>2, <3>1, Zenon
  <2>2. e \in E /\ n \in Nat
    BY <1>1
  <2>3. {list[i] : i \in 1 .. n} = {list[i] : i \in 1 .. n - 1} \cup {e}
    <3>1. 1 .. n = 1 .. n - 1 \cup {n}
      BY <1>1
    <3> HIDE DEF e
    <3> QED BY <3>1 DEF e
  <2>4. /\ q \in Seq(E) /\ Len(q) \in Nat /\ DOMAIN q = 1 .. Len(q)
        /\ ToSet(q) = {list[i] : i \in 1 .. n - 1} \cap S
        /\ \A i, j \in DOMAIN q : i < j => <<q[i], q[j]>> \in R
    BY <1>5 DEF Good
  <2> HIDE DEF q, e
  <2>5. CASE e \notin S
    BY <2>1, <2>3, <2>4, <2>5 DEF Good
  <2>6. CASE e \in S
    <3> DEFINE w == Append(q, e)
    <3>1. /\ w \in Seq(E) /\ DOMAIN w = 1 .. Len(q) + 1
          /\ \A i \in 1 .. Len(q) : w[i] = q[i]
          /\ w[Len(q) + 1] = e
      BY <2>2, <2>4
    <3> HIDE DEF w
    <3>2. ToSet(w) = ToSet(q) \cup {e}
      <4>1. DOMAIN w = DOMAIN q \cup {Len(q) + 1}
        BY <2>4, <3>1
      <4> QED BY <2>4, <3>1, <4>1 DEF ToSet
    <3>3. ASSUME NEW i \in DOMAIN w, NEW j \in DOMAIN w, i < j PROVE <<w[i], w[j]>> \in R
      <4>1. i \in 1 .. Len(q)
        BY <2>4, <3>1, <3>3
      <4>2. CASE j \in 1 .. Len(q)
        BY <2>4, <3>1, <3>3, <4>1, <4>2
      <4>3. CASE j = Len(q) + 1
        <5>1. q[i] \in ToSet(q)
          BY <2>4, <4>1 DEF ToSet
        <5>2. PICK k \in 1 .. n - 1 : q[i] = list[k]
          BY <2>4, <5>1
        <5>3. k \in DOMAIN list /\ n \in DOMAIN list /\ k < n
          BY <1>1
        <5> QED BY <3>1, <4>1, <4>3, <5>2, <5>3 DEF e
      <4> QED BY <2>4, <3>1, <4>2, <4>3
    <3>4. ToSet(w) = {list[i] : i \in 1 .. n} \cap S
      BY <2>3, <2>4, <2>6, <3>2
    <3>5. f[n] = w
      BY <2>1, <2>6 DEF w
    <3> QED BY <3>1, <3>3, <3>4, <3>5 DEF Good
  <2> QED BY <2>5, <2>6
<1>6. ASSUME D # {} PROVE FALSE
  <2>1. D \in SUBSET Nat
    BY <1>1
  <2> HIDE DEF D
  <2>2. PICK n \in D : \A j \in D : n <= j
    BY <1>6, <2>1, Least
  <2>3. n \in 0 .. N /\ ~ Good(f[n], n)
    BY <2>2 DEF D
  <2>4. n # 0
    BY <1>4, <2>3
  <2>5. n \in 1 .. N /\ n - 1 \in 0 .. N /\ ~ (n <= n - 1)
    BY <1>1, <2>3, <2>4
  <2>6. Good(f[n - 1], n - 1)
    BY <2>2, <2>5 DEF D
  <2> QED BY <1>5, <2>3, <2>5, <2>6
<1>7. Good(f[N], N)
  BY <1>1, <1>6
<1> QED BY <1>1, <1>3, <1>7 DEF Good, N, ToSet

-----------------------------------------------------------------------------
\* Times.

Instant == [sec : Nat, nsec : 0 .. NsPerSec]

\* Products with a natural number keep the order.
LEMMA TimesProps ==
  ASSUME NEW a \in Int, NEW b \in Int, NEW n \in Nat, a <= b
  PROVE  a * n \in Int /\ b * n \in Int /\ a * n <= b * n
<1>1. PICK d \in Nat : b = a + d
  <2>1. b - a \in Nat /\ b = a + (b - a)
    OBVIOUS
  <2> QED BY <2>1
<1>2. d * n \in Nat
  OBVIOUS
<1>3. (a + d) * n = a * n + d * n
  OBVIOUS
<1> QED BY <1>1, <1>2, <1>3

\* A second in ticks is a positive number of milliseconds.
LEMMA Units ==
  /\ MsPerSec \in Nat /\ MsPerSec > 0 /\ NsPerMs \in Nat /\ NsPerMs > 0
  /\ NsPerSec \in Nat /\ NsPerSec > 0 /\ NsPerSec = MsPerSec * NsPerMs
<1>1. MsPerSec \in Nat /\ MsPerSec > 0 /\ NsPerMs \in Nat /\ NsPerMs > 0
  BY TimeUnits
<1>2. NsPerSec = MsPerSec * NsPerMs
  BY DEF NsPerSec
<1>3. 1 * NsPerMs <= MsPerSec * NsPerMs /\ MsPerSec * NsPerMs \in Int
  BY <1>1, TimesProps
<1>4. 1 * NsPerMs = NsPerMs
  BY <1>1
<1> QED BY <1>1, <1>2, <1>3, <1>4

\* The clock read as an absolute_time_t is an instant, of the same value.
LEMMA ClockReads ==
  ASSUME NEW ns \in Nat
  PROVE  /\ ReadClock(ns).sec \in Nat /\ ReadClock(ns).nsec \in 0 .. NsPerSec - 1
         /\ ReadClock(ns) \in Instant
         /\ Value(ReadClock(ns)) = ns
<1>1. PICK n \in Nat : n = NsPerSec /\ n > 0
  BY Units
<1>2. ns \div n \in Nat /\ ns % n \in 0 .. n - 1 /\ ns = (ns \div n) * n + (ns % n)
  BY <1>1
<1> QED BY <1>1, <1>2 DEF ReadClock, Instant, Value

\* absolute_time_t::add gives an instant, of the value one expects (timer.cc).
LEMMA AddIsInstant ==
  ASSUME NEW t, t.sec \in Nat, t.nsec \in 0 .. NsPerSec - 1, NEW ms \in Nat
  PROVE  Add(t, ms) \in Instant
<1> DEFINE x == (ms % MsPerSec) * NsPerMs
           y == t.sec + ms \div MsPerSec
<1>10. Add(t, ms) = IF t.nsec + x > NsPerSec THEN [sec |-> y + 1, nsec |-> (t.nsec + x) - NsPerSec]
                                            ELSE [sec |-> y, nsec |-> t.nsec + x]
  BY DEF Add
<1>1. ms \div MsPerSec \in Nat /\ ms % MsPerSec \in 0 .. MsPerSec - 1
  BY Units
<1>2. PICK r \in Nat : r = ms % MsPerSec /\ r <= MsPerSec - 1
  BY <1>1, Units
<1>3. r * NsPerMs \in Int /\ r * NsPerMs <= (MsPerSec - 1) * NsPerMs
  BY <1>2, Units, TimesProps
<1>4. (MsPerSec - 1) * NsPerMs = NsPerSec - NsPerMs
  BY Units
<1>5. 0 * NsPerMs <= r * NsPerMs /\ 0 * NsPerMs = 0
  BY <1>2, Units, TimesProps
<1>6. x \in Nat /\ x < NsPerSec
  BY <1>2, <1>3, <1>4, <1>5, Units
<1>9. y \in Nat
  BY <1>1
<1> HIDE DEF x, y
<1>7. t.nsec + x > NsPerSec => (t.nsec + x) - NsPerSec \in 0 .. NsPerSec
  BY <1>6, Units
<1>8. ~ (t.nsec + x > NsPerSec) => t.nsec + x \in 0 .. NsPerSec
  BY <1>6, Units
<1> QED BY <1>7, <1>8, <1>9, <1>10 DEF Instant

\* The value of an instant is a natural number of ticks.
LEMMA ValueIsNat == ASSUME NEW a \in Instant PROVE Value(a) \in Nat
<1>1. a.sec \in Nat /\ a.nsec \in Nat /\ NsPerSec \in Nat
  BY Units DEF Instant
<1>2. a.sec * NsPerSec \in Nat
  BY <1>1
<1> QED BY <1>1, <1>2 DEF Value

\* Times compare as the instants they stand for, though a time of a whole second of
\* nanoseconds is not normalised.
LEMMA LessIsEarlier ==
  ASSUME NEW a \in Instant, NEW b \in Instant
  PROVE  /\ Less(a, b) => Value(a) <= Value(b)
         /\ ~ Less(a, b) => Value(b) <= Value(a)
<1>1. ASSUME NEW x \in Instant, NEW y \in Instant, x.sec < y.sec PROVE Value(x) <= Value(y)
  <2>1. /\ x.sec \in Nat /\ y.sec \in Nat /\ NsPerSec \in Nat
        /\ x.nsec \in Nat /\ y.nsec \in Nat /\ x.nsec <= NsPerSec
    BY Units DEF Instant
  <2>2. (x.sec + 1) * NsPerSec <= y.sec * NsPerSec /\ y.sec * NsPerSec \in Int
    BY <1>1, <2>1, TimesProps
  <2>3. (x.sec + 1) * NsPerSec = x.sec * NsPerSec + NsPerSec /\ x.sec * NsPerSec \in Int
    BY <2>1
  <2> QED BY <2>1, <2>2, <2>3 DEF Value
<1>2. ASSUME NEW x \in Instant, NEW y \in Instant, x.sec = y.sec, x.nsec <= y.nsec
      PROVE Value(x) <= Value(y)
  <2>1. x.nsec \in Nat /\ y.nsec \in Nat /\ x.sec * NsPerSec \in Int
    BY Units DEF Instant
  <2> QED BY <1>2, <2>1 DEF Value
<1>3. a.sec \in Nat /\ b.sec \in Nat /\ a.nsec \in Nat /\ b.nsec \in Nat
  BY Units DEF Instant
<1>4. ASSUME Less(a, b) PROVE Value(a) <= Value(b)
  BY <1>1, <1>2, <1>3, <1>4 DEF Less
<1>5. ASSUME ~ Less(a, b) PROVE Value(b) <= Value(a)
  BY <1>1, <1>2, <1>3, <1>5 DEF Less
<1> QED BY <1>4, <1>5

\* The sleep is rounded up to a whole millisecond.
LEMMA MsDiffRoundsUp ==
  ASSUME NEW a \in Instant, NEW b \in Instant
  PROVE  /\ MsDiff(a, b) \in Int
         /\ MsDiff(a, b) * NsPerMs \in Int
         /\ Value(a) - Value(b) <= MsDiff(a, b) * NsPerMs
         /\ MsDiff(a, b) * NsPerMs < Value(a) - Value(b) + NsPerMs
<1> DEFINE ns == a.nsec - b.nsec
           s == a.sec - b.sec
           q == IF ns >= 0 THEN ns \div NsPerMs ELSE - ((- ns) \div NsPerMs)
           up == IF ns - q * NsPerMs > 0 THEN 1 ELSE 0
<1>1. /\ a.sec \in Int /\ b.sec \in Int /\ s \in Int
      /\ a.nsec \in Int /\ b.nsec \in Int /\ ns \in Int
      /\ MsPerSec \in Int /\ NsPerMs \in Nat /\ NsPerMs > 0 /\ NsPerSec \in Int
  BY Units DEF Instant
<1>2. MsDiff(a, b) = s * MsPerSec + q + up
  BY DEF MsDiff
<1> HIDE DEF s, ns
<1>3. q \in Int /\ q * NsPerMs \in Int /\ ns - q * NsPerMs < NsPerMs /\ ns - q * NsPerMs > - NsPerMs
  <2>1. CASE ns >= 0
    <3>1. ns \div NsPerMs \in Int /\ ns % NsPerMs \in 0 .. NsPerMs - 1
          /\ ns = (ns \div NsPerMs) * NsPerMs + (ns % NsPerMs)
      BY <1>1
    <3>2. (ns \div NsPerMs) * NsPerMs \in Int
      BY <1>1, <3>1
    <3> QED BY <1>1, <2>1, <3>1, <3>2
  <2>2. CASE ~ (ns >= 0)
    <3>1. PICK m \in Nat : m = - ns
      BY <1>1, <2>2
    <3>2. m \div NsPerMs \in Int /\ m % NsPerMs \in 0 .. NsPerMs - 1
          /\ m = (m \div NsPerMs) * NsPerMs + (m % NsPerMs)
      BY <1>1, <3>1
    <3>3. PICK p \in Int : p = m \div NsPerMs
      BY <3>2
    <3>4. p * NsPerMs \in Int /\ (- p) * NsPerMs = - (p * NsPerMs)
      BY <1>1, <3>3
    <3>5. q = - p
      BY <2>2, <3>1, <3>3
    <3> QED BY <1>1, <3>1, <3>2, <3>3, <3>4, <3>5
  <2> QED BY <2>1, <2>2
<1>4. up \in Int /\ ns <= q * NsPerMs + up * NsPerMs /\ q * NsPerMs + up * NsPerMs < ns + NsPerMs
      /\ up * NsPerMs \in Int
  BY <1>1, <1>3
<1> HIDE DEF q, up
<1>5. /\ s * MsPerSec \in Int
      /\ (s * MsPerSec + q + up) * NsPerMs = (s * MsPerSec) * NsPerMs + q * NsPerMs + up * NsPerMs
  <2>1. PICK x \in Int : x = s * MsPerSec
    BY <1>1
  <2>2. (x + q + up) * NsPerMs = x * NsPerMs + q * NsPerMs + up * NsPerMs
    BY <1>1, <1>3, <1>4, <2>1
  <2> QED BY <2>1, <2>2
<1>6. (s * MsPerSec) * NsPerMs = s * NsPerSec
  BY <1>1 DEF NsPerSec
<1>7. /\ Value(a) - Value(b) = s * NsPerSec + ns /\ s * NsPerSec \in Int
      /\ Value(a) \in Int /\ Value(b) \in Int
  BY <1>1 DEF Value, s, ns
<1>8. MsDiff(a, b) \in Int /\ MsDiff(a, b) * NsPerMs = s * NsPerSec + q * NsPerMs + up * NsPerMs
  BY <1>1, <1>2, <1>3, <1>4, <1>5, <1>6
<1> QED BY <1>1, <1>3, <1>4, <1>7, <1>8

Alarm == [timer : Timer, at : Instant]
Sorted(list) == \A i, j \in DOMAIN list : i < j => Value(list[i].at) <= Value(list[j].at)

\* What is left when timers are taken out of the list.
LEMMA DisarmProps ==
  ASSUME NEW list \in Seq(Alarm), Sorted(list), NEW T
  PROVE  /\ Disarm(list, T) \in Seq(Alarm)
         /\ Sorted(Disarm(list, T))
         /\ ToSet(Disarm(list, T)) = {e \in ToSet(list) : e.timer \notin T}
         /\ Armed(Disarm(list, T)) = Armed(list) \ T
<1> DEFINE S == {e \in ToSet(list) : e.timer \notin T}
           R == {p \in Alarm \X Alarm : Value(p[1].at) <= Value(p[2].at)}
           w == Kept(list, S)
<1>1. \A i, j \in DOMAIN list : i < j => <<list[i], list[j]>> \in R
  <2>1. \A i \in DOMAIN list : list[i] \in Alarm
    OBVIOUS
  <2> QED BY <2>1 DEF Sorted
<1>2. \A a, b : <<a, b>> \in R => Value(a.at) <= Value(b.at)
  OBVIOUS
<1> HIDE DEF R
<1>3. Disarm(list, T) = w
  BY DEF Disarm
<1>4. ToSet(list) \cap S = S
  OBVIOUS
<1> HIDE DEF S
<1>5. /\ w \in Seq(Alarm)
      /\ ToSet(w) = ToSet(list) \cap S
      /\ \A i, j \in DOMAIN w : i < j => <<w[i], w[j]>> \in R
  BY <1>1, KeptProps
<1> HIDE DEF w
<1>6. Sorted(w)
  BY <1>2, <1>5 DEF Sorted
<1>7. Armed(w) = {e.timer : e \in ToSet(w)} /\ Armed(list) = {e.timer : e \in ToSet(list)}
  BY DEF Armed, ToSet
<1>8. {e.timer : e \in S} = {e.timer : e \in ToSet(list)} \ T
  BY DEF S
<1> QED BY <1>3, <1>4, <1>5, <1>6, <1>7, <1>8 DEF S

\* A new member of a list, at its place.
LEMMA InsertAtProps ==
  ASSUME NEW E, NEW s \in Seq(E), NEW pos \in 1 .. Len(s) + 1, NEW e \in E
  PROVE  /\ InsertAt(s, pos, e) \in Seq(E)
         /\ Len(InsertAt(s, pos, e)) = Len(s) + 1
         /\ \A k \in 1 .. Len(s) + 1 :
              InsertAt(s, pos, e)[k] = IF k < pos THEN s[k] ELSE IF k = pos THEN e ELSE s[k - 1]
<1> DEFINE front == SubSeq(s, 1, pos - 1)
           back == SubSeq(s, pos, Len(s))
           fe == front \o <<e>>
           w == fe \o back
<1>1. Len(s) \in Nat /\ pos \in Nat /\ 1 <= pos /\ pos <= Len(s) + 1 /\ \A k \in 1 .. Len(s) : s[k] \in E
  OBVIOUS
<1>2. front \in Seq(E) /\ Len(front) = pos - 1 /\ \A k \in 1 .. pos - 1 : front[k] = s[k]
  BY <1>1, SubSeqProperties
<1>3. back \in Seq(E) /\ Len(back) = Len(s) - pos + 1 /\ \A k \in 1 .. Len(s) - pos + 1 : back[k] = s[pos + k - 1]
  <2>1. \A k \in pos .. Len(s) : s[k] \in E
    BY <1>1
  <2> QED BY <1>1, <2>1, SubSeqProperties
<1> HIDE DEF front, back
<1>4. fe \in Seq(E) /\ Len(fe) = pos /\ (\A k \in 1 .. pos - 1 : fe[k] = s[k]) /\ fe[pos] = e
  BY <1>1, <1>2, SMTT(40)
<1> HIDE DEF fe
<1>5. /\ w \in Seq(E)
      /\ Len(w) = Len(fe) + Len(back)
      /\ \A k \in 1 .. Len(fe) + Len(back) : w[k] = IF k <= Len(fe) THEN fe[k] ELSE back[k - Len(fe)]
  BY <1>3, <1>4, ConcatProperties, ZenonT(60)
<1>6. InsertAt(s, pos, e) = w
  BY DEF InsertAt, w, fe, front, back
<1> HIDE DEF w
<1>7. Len(w) = Len(s) + 1
  BY <1>1, <1>3, <1>4, <1>5
<1>8. ASSUME NEW k \in 1 .. Len(s) + 1
      PROVE  w[k] = IF k < pos THEN s[k] ELSE IF k = pos THEN e ELSE s[k - 1]
  <2>1. w[k] = IF k <= pos THEN fe[k] ELSE back[k - pos]
    BY <1>1, <1>3, <1>4, <1>5
  <2>2. CASE k < pos
    BY <1>1, <1>4, <2>1, <2>2
  <2>3. CASE k = pos
    BY <1>1, <1>4, <2>1, <2>3
  <2>4. CASE k > pos
    <3>1. k - pos \in 1 .. Len(s) - pos + 1 /\ pos + (k - pos) - 1 = k - 1
      BY <1>1, <2>4
    <3>2. back[k - pos] = s[pos + (k - pos) - 1]
      BY <1>3, <3>1
    <3> QED BY <1>1, <2>1, <2>4, <3>1, <3>2
  <2> QED BY <1>1, <2>2, <2>3, <2>4
<1> QED BY <1>5, <1>6, <1>7, <1>8

\* A timer that is armed is in the list, behind those that are earlier.
LEMMA ArmProps ==
  ASSUME armed \in Seq(Alarm), Sorted(armed), NEW t \in Timer, NEW at \in Instant
  PROVE  /\ Arm(t, at) \in Seq(Alarm)
         /\ Sorted(Arm(t, at))
         /\ Armed(Arm(t, at)) = Armed(armed) \cup {t}
<1> DEFINE list == Disarm(armed, {t})
           later == {i \in DOMAIN list : ~ Less(list[i].at, at)}
           pos == IF later = {} THEN Len(list) + 1 ELSE CHOOSE i \in later : \A j \in later : i <= j
           e == [timer |-> t, at |-> at]
           w == InsertAt(list, pos, e)
<1>1. Arm(t, at) = w
  BY DEF Arm
<1>2. /\ list \in Seq(Alarm) /\ Sorted(list) /\ Armed(list) = Armed(armed) \ {t}
      /\ Len(list) \in Nat /\ DOMAIN list = 1 .. Len(list)
      /\ \A i \in DOMAIN list : list[i].at \in Instant /\ Value(list[i].at) \in Nat
  <2> HIDE DEF list
  <2>1. /\ list \in Seq(Alarm) /\ Sorted(list) /\ Armed(list) = Armed(armed) \ {t}
    BY DisarmProps DEF list
  <2>2. \A i \in DOMAIN list : list[i].at \in Instant
    <3>1. \A i \in DOMAIN list : list[i] \in Alarm
      BY <2>1
    <3>2. \A x \in Alarm : x.at \in Instant
      BY DEF Alarm
    <3> QED BY <3>1, <3>2
  <2> QED BY <2>1, <2>2, ValueIsNat
<1>3. e \in Alarm /\ e.timer = t /\ e.at = at
  BY DEF Alarm
<1> HIDE DEF list, e
<1>4. /\ pos \in 1 .. Len(list) + 1
      /\ \A i \in DOMAIN list : i < pos => Less(list[i].at, at)
      /\ pos \in DOMAIN list => ~ Less(list[pos].at, at)
  <2>1. CASE later = {}
    BY <1>2, <2>1
  <2>2. CASE later # {}
    <3>1. later \in SUBSET Nat
      BY <1>2
    <3>2. later \subseteq DOMAIN list /\ \A i \in DOMAIN list : i \in later <=> ~ Less(list[i].at, at)
      OBVIOUS
    <3> HIDE DEF later
    <3>3. pos \in later /\ \A j \in later : pos <= j
      BY <2>2, <3>1, Least
    <3> HIDE DEF pos
    <3>4. \A i \in DOMAIN list : i < pos => i \notin later
      BY <1>2, <3>2, <3>3
    <3> QED BY <1>2, <3>2, <3>3, <3>4
  <2> QED BY <2>1, <2>2
<1> HIDE DEF pos, later
<1>5. \A i \in DOMAIN list : i < pos => Value(list[i].at) <= Value(at)
  BY <1>2, <1>4, LessIsEarlier
<1>6. ASSUME NEW i \in DOMAIN list, ~ (i < pos) PROVE Value(at) <= Value(list[i].at)
  <2>1. pos \in DOMAIN list /\ Value(at) <= Value(list[pos].at)
    BY <1>2, <1>4, <1>6, LessIsEarlier, SMTT(40)
  <2>2. CASE i = pos
    BY <2>1, <2>2
  <2>3. CASE pos < i
    <3>1. Value(list[pos].at) <= Value(list[i].at)
      BY <1>2, <2>1, <2>3 DEF Sorted
    <3> QED BY <1>2, <2>1, <3>1, ValueIsNat
  <2> QED BY <1>2, <1>4, <1>6, <2>2, <2>3
<1>7. /\ w \in Seq(Alarm) /\ Len(w) = Len(list) + 1 /\ DOMAIN w = 1 .. Len(list) + 1
      /\ \A k \in 1 .. Len(list) + 1 : w[k] = IF k < pos THEN list[k] ELSE IF k = pos THEN e ELSE list[k - 1]
  <2>1. /\ w \in Seq(Alarm) /\ Len(w) = Len(list) + 1
        /\ \A k \in 1 .. Len(list) + 1 : w[k] = IF k < pos THEN list[k] ELSE IF k = pos THEN e ELSE list[k - 1]
    BY <1>2, <1>3, <1>4, InsertAtProps, SMTT(40)
  <2> HIDE DEF w
  <2> QED BY <1>2, <2>1
<1> HIDE DEF w
<1>8. ASSUME NEW i \in DOMAIN w, NEW j \in DOMAIN w, i < j PROVE Value(w[i].at) <= Value(w[j].at)
  <2>1. i \in 1 .. Len(list) + 1 /\ j \in 1 .. Len(list) + 1 /\ pos \in 1 .. Len(list) + 1
    BY <1>4, <1>7
  <2>2. CASE j < pos
    <3>1. i \in DOMAIN list /\ j \in DOMAIN list /\ i < pos
      BY <1>2, <1>8, <2>1, <2>2
    <3> QED BY <1>2, <1>7, <1>8, <2>1, <2>2, <3>1 DEF Sorted
  <2>3. CASE j = pos
    <3>1. i \in DOMAIN list /\ i < pos
      BY <1>2, <1>8, <2>1, <2>3
    <3> QED BY <1>3, <1>5, <1>7, <2>1, <2>3, <3>1
  <2>4. CASE j > pos /\ i = pos
    <3>1. j - 1 \in DOMAIN list /\ ~ (j - 1 < pos) /\ ~ (j < pos)
      BY <1>2, <2>1, <2>4
    <3> QED BY <1>3, <1>6, <1>7, <2>1, <2>4, <3>1
  <2>5. CASE j > pos /\ i < pos
    <3>1. i \in DOMAIN list /\ j - 1 \in DOMAIN list /\ i < j - 1 /\ ~ (j < pos) /\ j # pos
      BY <1>2, <2>1, <2>5
    <3> QED BY <1>2, <1>7, <2>1, <2>5, <3>1 DEF Sorted
  <2>6. CASE j > pos /\ i > pos
    <3>1. i - 1 \in DOMAIN list /\ j - 1 \in DOMAIN list /\ i - 1 < j - 1 /\ ~ (j < pos) /\ j # pos /\ ~ (i < pos) /\ i # pos
      BY <1>2, <1>8, <2>1, <2>6
    <3> QED BY <1>2, <1>7, <2>1, <3>1 DEF Sorted
  <2> QED BY <2>1, <2>2, <2>3, <2>4, <2>5, <2>6
<1>9. Armed(w) = Armed(list) \cup {t}
  <2>1. ASSUME NEW x \in Armed(w) PROVE x \in Armed(list) \cup {t}
    <3>1. PICK k \in 1 .. Len(list) + 1 : w[k].timer = x
      BY <1>7, <2>1 DEF Armed
    <3>2. CASE k < pos
      <4>1. k \in DOMAIN list /\ w[k] = list[k]
        BY <1>2, <1>4, <1>7, <3>2
      <4> QED BY <3>1, <4>1 DEF Armed
    <3>3. CASE k = pos
      BY <1>3, <1>7, <3>1, <3>3
    <3>4. CASE ~ (k < pos) /\ k # pos
      <4>1. k - 1 \in DOMAIN list /\ w[k] = list[k - 1]
        BY <1>2, <1>4, <1>7, <3>4
      <4> QED BY <3>1, <4>1 DEF Armed
    <3> QED BY <3>2, <3>3, <3>4
  <2>2. t \in Armed(w)
    BY <1>3, <1>4, <1>7 DEF Armed
  <2>3. ASSUME NEW x \in Armed(list) PROVE x \in Armed(w)
    <3>1. PICK i \in DOMAIN list : list[i].timer = x
      BY <2>3 DEF Armed
    <3>2. CASE i < pos
      <4>1. i \in DOMAIN w /\ w[i] = list[i]
        BY <1>2, <1>7, <3>2
      <4> QED BY <3>1, <4>1 DEF Armed
    <3>3. CASE ~ (i < pos)
      <4>1. i + 1 \in 1 .. Len(list) + 1 /\ ~ (i + 1 < pos) /\ i + 1 # pos /\ (i + 1) - 1 = i
        BY <1>2, <1>4, <3>3
      <4>2. i + 1 \in DOMAIN w /\ w[i + 1] = list[i]
        BY <1>7, <4>1
      <4> QED BY <3>1, <4>2 DEF Armed
    <3> QED BY <3>2, <3>3
  <2> QED BY <2>1, <2>2, <2>3
<1> QED BY <1>1, <1>2, <1>7, <1>8, <1>9 DEF Sorted

-----------------------------------------------------------------------------
\* The event loop.

WaitType == [coro : Coros, fd : Fds, op : Ops]

EventTypes ==
  /\ open \subseteq Fds
  /\ kernel \in [Fds -> SUBSET Ops]
  /\ cbs \in [Fds -> Seq(WaitType)]
  /\ status \in [Coros -> {"running", "waiting", "notified"}]
  /\ sleepers \in [Timer -> SUBSET Coros]
  /\ armed \in Seq(Alarm)
  /\ period \in [Periodics -> Nat]
  /\ clock \in Nat

\* What the epoll set lacks is in m_epoll_changes, and that is empty while the thread
\* sleeps.
EpollInv ==
  /\ phase = "poll" => changes = {}
  /\ \A fd \in open \ changes : Mask(fd) \subseteq kernel[fd]
  /\ \A fd \in Fds \ open : cbs[fd] = <<>>
  /\ \A fd \in Fds : cbs[fd] # <<>> \/ kernel[fd] # {} => fd \in known
  /\ changes \subseteq known

Registered(c) ==
  \/ \E t \in Timer : c \in sleepers[t]
  \/ \E fd \in Fds : \E w \in ToSet(cbs[fd]) : w.coro = c

Asleep == \A t \in Timer : sleepers[t] # {} /\ (t \in Periodics => period[t] # 0) => t \in Armed(armed)

RegisteredInv ==
  /\ \A c \in Coros : status[c] = "waiting" <=> Registered(c)
  /\ Asleep
  /\ Sorted(armed)

EventInv == EventTypes /\ EpollInv /\ RegisteredInv

\* A sequence without members is empty.
LEMMA NoMembers == ASSUME NEW E, NEW q \in Seq(E), ToSet(q) = {} PROVE q = <<>>
<1>1. Len(q) \in Nat /\ DOMAIN q = 1 .. Len(q)
  OBVIOUS
<1>2. Len(q) # 0 => 1 \in DOMAIN q
  BY <1>1
<1>3. Len(q) = 0
  BY <1>1, <1>2 DEF ToSet
<1> QED BY <1>3, EmptySeq

\* The members of two sequences put together.
LEMMA ToSetOfConcat ==
  ASSUME NEW E, NEW q \in Seq(E), NEW k \in Seq(E)
  PROVE  q \o k \in Seq(E) /\ ToSet(q \o k) = ToSet(q) \cup ToSet(k)
<1> DEFINE w == q \o k
<1>1. Len(q) \in Nat /\ Len(k) \in Nat
  OBVIOUS
<1>2. /\ w \in Seq(E) /\ Len(w) = Len(q) + Len(k)
      /\ \A i \in 1 .. Len(q) + Len(k) : w[i] = IF i <= Len(q) THEN q[i] ELSE k[i - Len(q)]
  BY ConcatProperties, Zenon
<1> HIDE DEF w
<1>3. DOMAIN w = 1 .. Len(q) + Len(k) /\ DOMAIN q = 1 .. Len(q) /\ DOMAIN k = 1 .. Len(k)
  BY <1>2
<1>4. ASSUME NEW x \in ToSet(w) PROVE x \in ToSet(q) \cup ToSet(k)
  <2>1. PICK i \in 1 .. Len(q) + Len(k) : w[i] = x
    BY <1>3 DEF ToSet
  <2>2. CASE i <= Len(q)
    <3>1. i \in DOMAIN q /\ q[i] = x
      BY <1>1, <1>2, <1>3, <2>1, <2>2
    <3> QED BY <3>1 DEF ToSet
  <2>3. CASE ~ (i <= Len(q))
    <3>1. i - Len(q) \in DOMAIN k /\ k[i - Len(q)] = x
      BY <1>1, <1>2, <1>3, <2>1, <2>3
    <3> QED BY <3>1 DEF ToSet
  <2> QED BY <2>2, <2>3
<1>5. ASSUME NEW x \in ToSet(q) PROVE x \in ToSet(w)
  <2>1. PICK i \in 1 .. Len(q) : q[i] = x
    BY <1>3 DEF ToSet
  <2>2. i \in DOMAIN w /\ i \in 1 .. Len(q) + Len(k) /\ i <= Len(q)
    BY <1>1, <1>3
  <2> QED BY <1>2, <2>1, <2>2 DEF ToSet
<1>6. ASSUME NEW x \in ToSet(k) PROVE x \in ToSet(w)
  <2>1. PICK i \in 1 .. Len(k) : k[i] = x
    BY <1>3 DEF ToSet
  <2>2. Len(q) + i \in 1 .. Len(q) + Len(k) /\ ~ (Len(q) + i <= Len(q)) /\ (Len(q) + i) - Len(q) = i
    BY <1>1
  <2>3. w[Len(q) + i] = x /\ Len(q) + i \in DOMAIN w
    BY <1>2, <1>3, <2>1, <2>2
  <2> QED BY <2>3 DEF ToSet
<1> QED BY <1>2, <1>4, <1>5, <1>6 DEF w

\* A list of file waits, when some are taken out.
LEMMA KeptWaits ==
  ASSUME NEW list \in Seq(WaitType), NEW S
  PROVE  /\ Kept(list, S) \in Seq(WaitType)
         /\ ToSet(Kept(list, S)) = ToSet(list) \cap S
         /\ list = <<>> => Kept(list, S) = <<>>
<1>1. \A i, j \in DOMAIN list : i < j => <<list[i], list[j]>> \in WaitType \X WaitType
  <2>1. \A i \in DOMAIN list : list[i] \in WaitType
    OBVIOUS
  <2> QED BY <2>1
<1>2. Kept(list, S) \in Seq(WaitType) /\ ToSet(Kept(list, S)) = ToSet(list) \cap S
  BY <1>1, KeptProps
<1>3. ASSUME list = <<>> PROVE Kept(list, S) = <<>>
  <2>1. ToSet(Kept(list, S)) = {}
    BY <1>2, <1>3 DEF ToSet
  <2> QED BY <1>2, <2>1, NoMembers
<1> QED BY <1>2, <1>3

\* The end of some waits, with what is done to the timers at the same time.
LEMMA DecideKeeps ==
  ASSUME EventInv, NEW C, NEW list \in Seq(Alarm), Sorted(list), NEW done, Decide(C, list, done),
         \A t \in Timer : t \in Armed(armed) /\ ~ (sleepers[t] \subseteq C) => t \in Armed(list),
         UNCHANGED <<open, kernel, known, clock>>, phase' # "poll",
         period' \in [Periodics -> Nat], \A t \in Periodics : period'[t] # 0 => period[t] # 0
  PROVE  EventInv'
<1> DEFINE S(fd) == {w \in ToSet(cbs[fd]) : w.coro \notin C}
           gone == {t \in Periodics : sleepers[t] # {} /\ sleepers[t] \subseteq C}
<1>1. /\ EventTypes /\ EpollInv /\ RegisteredInv
      /\ status' = [c \in Coros |-> IF c \in C THEN "notified" ELSE status[c]]
      /\ cbs' = [fd \in Fds |-> Kept(cbs[fd], S(fd))]
      /\ sleepers' = [t \in Timer |-> sleepers[t] \ C]
      /\ armed' = Disarm(list, gone)
      /\ changes \subseteq changes'
      /\ \A fd \in changes' \ changes : fd \in Fds /\ ToSet(cbs[fd]) # {}
  BY DEF EventInv, Decide, SleepersWithout, ArmedWithout
<1>2. \A fd \in Fds : /\ cbs'[fd] \in Seq(WaitType)
                      /\ ToSet(cbs'[fd]) = {w \in ToSet(cbs[fd]) : w.coro \notin C}
                      /\ cbs[fd] = <<>> => cbs'[fd] = <<>>
  <2> SUFFICES ASSUME NEW fd \in Fds
               PROVE  /\ cbs'[fd] \in Seq(WaitType)
                      /\ ToSet(cbs'[fd]) = {w \in ToSet(cbs[fd]) : w.coro \notin C}
                      /\ cbs[fd] = <<>> => cbs'[fd] = <<>>
    OBVIOUS
  <2>1. cbs'[fd] = Kept(cbs[fd], S(fd)) /\ cbs[fd] \in Seq(WaitType)
    BY <1>1 DEF EventTypes
  <2>2. ToSet(cbs[fd]) \cap S(fd) = S(fd)
    OBVIOUS
  <2> QED BY <2>1, <2>2, KeptWaits
<1>3. /\ armed' \in Seq(Alarm) /\ Sorted(armed') /\ Armed(armed') = Armed(list) \ gone
  BY <1>1, DisarmProps
<1>4. cbs' \in [Fds -> Seq(WaitType)]
  BY <1>1, <1>2
<1>5. /\ status' \in [Coros -> {"running", "waiting", "notified"}]
      /\ sleepers' \in [Timer -> SUBSET Coros]
  BY <1>1 DEF EventTypes
<1>6. EventTypes'
  BY <1>1, <1>3, <1>4, <1>5 DEF EventTypes
<1>7. EpollInv'
  <2>1. \A fd \in Fds : Mask(fd)' \subseteq Mask(fd)
    BY <1>2 DEF Mask
  <2>2. \A fd \in open \ changes' : Mask(fd)' \subseteq kernel[fd]
    BY <1>1, <2>1 DEF EpollInv, EventTypes
  <2>3. \A fd \in Fds : cbs'[fd] # <<>> => cbs[fd] # <<>>
    BY <1>2
  <2>4. \A fd \in changes' \ changes : cbs[fd] # <<>>
    BY <1>1 DEF ToSet
  <2> QED BY <1>1, <2>2, <2>3, <2>4 DEF EpollInv
<1>8. \A c \in Coros : Registered(c)' <=> Registered(c) /\ c \notin C
  BY <1>1, <1>2 DEF Registered
<1>9. Asleep'
  <2> SUFFICES ASSUME NEW t \in Timer, sleepers'[t] # {}, t \in Periodics => period'[t] # 0
               PROVE  t \in Armed(armed')
    BY DEF Asleep
  <2>1. sleepers'[t] = sleepers[t] \ C
    BY <1>1
  <2>2. sleepers[t] # {} /\ ~ (sleepers[t] \subseteq C) /\ (t \in Periodics => period[t] # 0)
    BY <2>1
  <2>3. t \in Armed(armed)
    BY <1>1, <2>2 DEF RegisteredInv, Asleep
  <2>4. t \in Armed(list) /\ t \notin gone
    BY <2>2, <2>3
  <2> QED BY <1>3, <2>4
<1>10. \A c \in Coros : status'[c] = "waiting" <=> status[c] = "waiting" /\ c \notin C
  BY <1>1
<1>11. RegisteredInv'
  BY <1>1, <1>3, <1>8, <1>9, <1>10 DEF RegisteredInv
<1> QED BY <1>6, <1>7, <1>11 DEF EventInv

\* The end of waits in an action that does nothing else to the timers.
LEMMA EndsWaits ==
  ASSUME EventInv, NEW C, NEW done, Decide(C, armed, done),
         UNCHANGED <<open, kernel, known, clock, period>>, phase' # "poll"
  PROVE  EventInv'
<1>1. armed \in Seq(Alarm) /\ Sorted(armed) /\ period' \in [Periodics -> Nat]
  BY DEF EventInv, EventTypes, RegisteredInv
<1> QED BY <1>1, DecideKeeps

\* An interruption decides the wait of a coroutine that sleeps.
LEMMA InterruptKeeps == ASSUME EventInv, NEW c \in Coros, Interrupt(c) PROVE EventInv'
BY EndsWaits DEF Interrupt, Running, loopVars

\* One round of the walk over the callbacks of a descriptor (events.cc:146).
LEMMA CallbackKeeps == ASSUME EventInv, Callback PROVE EventInv'
<1> DEFINE w == walk.at
<1>1. /\ UNCHANGED <<clock, triggered, period, open, kernel, phase>> /\ phase = "events"
  BY DEF Callback
<1>2. CASE UNCHANGED <<fileVars, armed, sleepers, status>>
  BY <1>1, <1>2
  DEF EventInv, EventTypes, EpollInv, RegisteredInv, Registered, Asleep, Mask, fileVars
<1>3. CASE UNCHANGED <<known, used, cbs, changes, armed, sleepers, status>>
  BY <1>1, <1>3 DEF EventInv, EventTypes, EpollInv, RegisteredInv, Registered, Asleep, Mask
<1>4. CASE UNCHANGED <<known, used, died>> /\ Decide({w.coro}, armed, {w})
  <2> HIDE DEF w
  <2> QED BY <1>1, <1>4, EndsWaits
<1> QED BY <1>2, <1>3, <1>4 DEF Callback

\* The timers that have expired ring, and leave the list.
LEMMA RingKeeps == ASSUME EventInv, RingTimers PROVE EventInv'
<1> DEFINE rung == {e.timer : e \in Expired}
           heard == UNION {sleepers[t] : t \in rung}
           list == Disarm(armed, rung)
<1>1. /\ Decide(heard, list, {})
      /\ phase' = "run" /\ UNCHANGED <<clock, period, open, kernel, known>>
  BY DEF RingTimers
<1>2. \A t \in rung : sleepers[t] \subseteq heard
  OBVIOUS
<1> HIDE DEF rung, heard
<1>3. list \in Seq(Alarm) /\ Sorted(list) /\ Armed(list) = Armed(armed) \ rung
  BY DisarmProps DEF EventInv, EventTypes, RegisteredInv
<1> HIDE DEF list
<1>4. \A t \in Timer : t \in Armed(armed) /\ ~ (sleepers[t] \subseteq heard) => t \in Armed(list)
  BY <1>2, <1>3
<1>5. period' \in [Periodics -> Nat]
  BY <1>1 DEF EventInv, EventTypes
<1> QED BY <1>1, <1>3, <1>4, <1>5, DecideKeeps

\* A timer that is destroyed leaves the list.
LEMMA EndTimerKeeps == ASSUME EventInv, NEW t \in Timer, EndTimer(t) PROVE EventInv'
<1> DEFINE list == Disarm(armed, {t})
<1>1. /\ Decide(sleepers[t], list, {})
      /\ period' = [u \in Periodics |-> IF u = t THEN 0 ELSE period[u]]
      /\ phase = "run" /\ UNCHANGED <<clock, open, kernel, known, phase>>
  BY DEF EndTimer, Running, loopVars
<1>2. list \in Seq(Alarm) /\ Sorted(list) /\ Armed(list) = Armed(armed) \ {t}
  BY DisarmProps DEF EventInv, EventTypes, RegisteredInv
<1> HIDE DEF list
<1>3. \A u \in Timer : u \in Armed(armed) /\ ~ (sleepers[u] \subseteq sleepers[t]) => u \in Armed(list)
  BY <1>2
<1>4. period' \in [Periodics -> Nat] /\ \A u \in Periodics : period'[u] # 0 => period[u] # 0
  BY <1>1 DEF EventInv, EventTypes
<1> QED BY <1>1, <1>2, <1>3, <1>4, DecideKeeps

\* A coroutine that was notified runs again.
LEMMA ResumeKeeps == ASSUME EventInv, NEW c \in Coros, Resume(c) PROVE EventInv'
<1>1. /\ status[c] = "notified" /\ status' = [status EXCEPT ![c] = "running"]
      /\ UNCHANGED <<clock, armed, triggered, period, sleepers, open, kernel, known, cbs, used, changes, phase>>
  BY DEF Resume, timerVars, fileVars, loopVars
<1>2. /\ status' \in [Coros -> {"running", "waiting", "notified"}]
      /\ \A d \in Coros : status'[d] = "waiting" <=> status[d] = "waiting"
  BY <1>1 DEF EventInv, EventTypes
<1> QED
  BY <1>1, <1>2 DEF EventInv, EventTypes, EpollInv, RegisteredInv, Registered, Asleep, Mask

\* A descriptor that is closed or opened: nobody waits on it.
LEMMA DescriptorKeeps == ASSUME EventInv, NEW fd \in Fds, Close(fd) \/ Open(fd) PROVE EventInv'
<1>1. /\ UNCHANGED <<clock, armed, triggered, period, sleepers, known, cbs, used, changes, phase, status>>
      /\ cbs[fd] = <<>>
      /\ open' \subseteq Fds /\ open \ {fd} \subseteq open' /\ open' \subseteq open \cup {fd}
      /\ kernel' = [kernel EXCEPT ![fd] = {}] \/ kernel' = kernel
  BY DEF Close, Open, EventInv, EventTypes, EpollInv, timerVars, fileVars, loopVars
<1>2. Mask(fd) = {}
  BY <1>1 DEF Mask, ToSet
<1>3. /\ kernel' \in [Fds -> SUBSET Ops]
      /\ \A g \in Fds : g # fd => kernel'[g] = kernel[g]
      /\ kernel'[fd] # {} => kernel[fd] # {}
  BY <1>1 DEF EventInv, EventTypes
<1>4. EpollInv'
  <2>1. \A g \in open' \ changes : Mask(g) \subseteq kernel'[g]
    BY <1>1, <1>2, <1>3 DEF EventInv, EventTypes, EpollInv
  <2>2. \A g \in Fds : Mask(g)' = Mask(g)
    BY <1>1 DEF Mask
  <2>3. \A g \in Fds \ open' : cbs[g] = <<>>
    BY <1>1 DEF EventInv, EpollInv
  <2> QED BY <1>1, <1>3, <2>1, <2>2, <2>3 DEF EventInv, EpollInv
<1> QED BY <1>1, <1>3, <1>4 DEF EventInv, EventTypes, RegisteredInv, Registered, Asleep

\* The other steps of the loop touch no wait.
LEMMA LoopKeeps ==
  ASSUME EventInv, Poll \/ (\E e \in events : HandleFd(e)) \/ TimePasses
  PROVE  EventInv'
<1>1. /\ UNCHANGED <<armed, triggered, period, sleepers, known, cbs, used, changes, status, open, kernel>>
      /\ clock' = clock \/ clock' = clock + 1
      /\ phase' = phase \/ phase' = "events"
  BY DEF Poll, HandleFd, TimePasses, Tick, timerVars, fileVars, loopVars
<1>2. clock' \in Nat
  BY <1>1 DEF EventInv, EventTypes
<1> QED
  BY <1>1, <1>2 DEF EventInv, EventTypes, EpollInv, RegisteredInv, Registered, Asleep, Mask

\* update_epoll() empties m_epoll_changes, the kernel knows what it held.
LEMMA UpdateEpollKeeps == ASSUME EventInv, UpdateEpoll PROVE EventInv'
<1> DEFINE gone == {fd \in changes : cbs[fd] = <<>>}
<1>1. UNCHANGED <<clock, armed, triggered, period, sleepers, open, cbs, status>>
  BY DEF UpdateEpoll, timerVars, fileVars
<1>2. CASE UNCHANGED <<fileVars, kernel, phase>>
  BY <1>1, <1>2
  DEF EventInv, EventTypes, EpollInv, RegisteredInv, Registered, Asleep, Mask, fileVars
<1>3. CASE /\ kernel' = [fd \in Fds |-> IF fd \in changes THEN Mask(fd) ELSE kernel[fd]]
           /\ known' = known \ gone
           /\ changes' = {}
  <2>1. \A fd \in Fds : Mask(fd) \in SUBSET Ops /\ (cbs[fd] = <<>> => Mask(fd) = {})
    <3> SUFFICES ASSUME NEW fd \in Fds
    PROVE Mask(fd) \in SUBSET Ops /\ (cbs[fd] = <<>> => Mask(fd) = {})
      OBVIOUS
    <3>1. \A i \in DOMAIN cbs[fd] : cbs[fd][i] \in WaitType
      BY DEF EventInv, EventTypes
    <3>2. \A w \in WaitType : w.op \in Ops
      BY DEF WaitType
    <3> QED BY <3>1, <3>2 DEF Mask, ToSet
  <2>2. kernel' \in [Fds -> SUBSET Ops]
    BY <1>3, <2>1 DEF EventInv, EventTypes
  <2>3. \A fd \in Fds : Mask(fd)' = Mask(fd)
    BY <1>1 DEF Mask
  <2>4. EpollInv'
    <3>1. \A fd \in open : Mask(fd) \subseteq kernel'[fd]
      BY <1>3 DEF EventInv, EventTypes, EpollInv
    <3>2. \A fd \in Fds : cbs[fd] # <<>> \/ kernel'[fd] # {} => fd \in known \ gone
      BY <1>3, <2>1 DEF EventInv, EpollInv
    <3> QED BY <1>1, <1>3, <2>3, <3>1, <3>2 DEF EventInv, EventTypes, EpollInv
  <2> QED BY <1>1, <2>2, <2>4 DEF EventInv, EventTypes, RegisteredInv, Registered, Asleep
<1> QED BY <1>2, <1>3 DEF UpdateEpoll

\* The time at which a timer that is started now rings is an instant.
LEMMA AfterIsInstant == ASSUME EventInv, NEW ms \in Nat PROVE After(ms) \in Instant
BY ClockReads, AddIsInstant DEF EventInv, EventTypes, After

\* The list of timers changes, but not who waits for what.
LEMMA TimersChange ==
  ASSUME EventInv, Sorted(armed'), armed' \in Seq(Alarm), period' \in [Periodics -> Nat],
         \A t \in Timer : sleepers[t] # {} /\ (t \in Periodics => period'[t] # 0) => t \in Armed(armed'),
         UNCHANGED <<clock, sleepers, open, kernel, fileVars, phase, status>>
  PROVE  EventInv'
BY DEF EventInv, EventTypes, EpollInv, RegisteredInv, Registered, Asleep, Mask, fileVars

\* A timer is started, or started again: it is armed once, in order.
LEMMA StartKeeps == ASSUME EventInv, NEW t \in Timer, NEW ms \in Delays, Start(t, ms)
PROVE EventInv'
<1>1. /\ armed \in Seq(Alarm) /\ Sorted(armed) /\ period \in [Periodics -> Nat]
      /\ UNCHANGED <<clock, sleepers, open, kernel, fileVars, phase, status>>
      /\ ms \in Nat /\ ms # 0
  BY TimersAssumption
  DEF EventInv, EventTypes, RegisteredInv, Start, StartSingle, StartPeriodic, loopVars
<1>2. /\ Arm(t, After(ms)) \in Seq(Alarm) /\ Sorted(Arm(t, After(ms)))
      /\ Armed(Arm(t, After(ms))) = Armed(armed) \cup {t}
  BY <1>1, AfterIsInstant, ArmProps
<1>3. CASE StartSingle(t, ms)
  <2>1. armed' = Arm(t, After(ms)) /\ period' = period
    BY <1>3 DEF StartSingle
  <2>2. \A u \in Timer : sleepers[u] # {} /\ (u \in Periodics => period'[u] # 0) => u \in Armed(armed')
    BY <1>2, <2>1 DEF EventInv, RegisteredInv, Asleep
  <2> QED BY <1>1, <1>2, <2>1, <2>2, TimersChange
<1>4. CASE StartPeriodic(t, ms)
  <2>1. /\ t \in Periodics /\ period' = [period EXCEPT ![t] = ms]
        /\ armed' = IF sleepers[t] # {} THEN Arm(t, After(ms)) ELSE Disarm(armed, {t})
    BY <1>4 DEF StartPeriodic
  <2>2. period' \in [Periodics -> Nat] /\ \A u \in Periodics \ {t} : period'[u] = period[u]
    BY <1>1, <2>1
  <2>3. /\ armed' \in Seq(Alarm) /\ Sorted(armed')
        /\ Armed(armed') = IF sleepers[t] # {} THEN Armed(armed) \cup {t} ELSE Armed(armed) \ {t}
    BY <1>1, <1>2, <2>1, DisarmProps
  <2>4. \A u \in Timer : sleepers[u] # {} /\ (u \in Periodics => period'[u] # 0) => u \in Armed(armed')
    BY <2>2, <2>3 DEF EventInv, RegisteredInv, Asleep
  <2> QED BY <1>1, <2>2, <2>3, <2>4, TimersChange
<1> QED BY <1>3, <1>4 DEF Start

\* A wait begins: for the descriptors of `files', and for the timer t if T has one.
LEMMA WaitKeeps ==
  ASSUME EventInv, NEW c \in Coros, NEW files \in FileWaits(c), NEW T \in TimerSets,
         Len(files) + Cardinality(T) \in 1 .. 2, Wait(c, files, T)
  PROVE  EventInv'
<1> DEFINE fds == {files[i].fd : i \in DOMAIN files}
           S(fd) == {w \in ToSet(files) : w.fd = fd}
<1>1. /\ EventTypes /\ EpollInv /\ RegisteredInv
      /\ phase = "run" /\ status[c] = "running" /\ fds \subseteq open
      /\ \A t \in T \cap Singles : t \in triggered \/ t \in Armed(armed)
      /\ known' = known \cup fds /\ changes' = changes \cup fds
      /\ UNCHANGED <<clock, period, open, kernel, phase>>
  BY DEF Wait, Running, EventInv, loopVars
<1>2. /\ files \in Seq(WaitType)
      /\ \A w \in ToSet(files) : w.coro = c /\ w.fd \in fds
  <2>1. \A w \in FileWait(c) : w \in WaitType /\ w.coro = c
    BY DEF FileWait, WaitType
  <2>2. files \in Seq(FileWait(c))
    <3>1. CASE files = <<>>
      BY <3>1
    <3>2. ASSUME NEW w \in FileWait(c), files = <<w>> PROVE files \in Seq(FileWait(c))
      BY <3>2
    <3>3. ASSUME NEW w \in FileWait(c), NEW v \in FileWait(c), files = <<w, v>>
          PROVE  files \in Seq(FileWait(c))
      BY <3>3
    <3>4. CASE files \in FileWait(c) \X FileWait(c)
      <4>1. PICK w \in FileWait(c), v \in FileWait(c) : files = <<w, v>>
        BY <3>4
      <4> QED BY <3>3, <4>1
    <3> QED BY <3>1, <3>2, <3>4 DEF FileWaits
  <2>3. \A i \in DOMAIN files : files[i] \in FileWait(c)
    BY <2>2
  <2>4. files \in Seq(WaitType)
    BY <2>1, <2>2, <2>3
  <2> QED BY <2>1, <2>3, <2>4 DEF ToSet
<1>3. CASE UNCHANGED <<cbs, status, sleepers, armed>>
  <2>1. EpollInv'
    <3>1. \A fd \in Fds : Mask(fd)' = Mask(fd)
      BY <1>3 DEF Mask
    <3> QED BY <1>1, <1>3, <3>1 DEF EpollInv, EventTypes
  <2> QED BY <1>1, <1>3, <2>1 DEF EventInv, EventTypes, RegisteredInv, Registered, Asleep
<1>4. CASE /\ T \cap triggered = {}
           /\ cbs' = [fd \in Fds |-> cbs[fd] \o Kept(files, S(fd))]
           /\ status' = [status EXCEPT ![c] = "waiting"]
           /\ IF T = {} THEN UNCHANGED <<sleepers, armed>> ELSE \E t \in T : Sleep(c, t)
  <2>1. \A fd \in Fds : /\ cbs'[fd] \in Seq(WaitType)
                        /\ ToSet(cbs'[fd]) = ToSet(cbs[fd]) \cup {w \in ToSet(files) : w.fd = fd}
                        /\ fd \notin fds => cbs'[fd] = cbs[fd]
    <3> SUFFICES ASSUME NEW fd \in Fds
                 PROVE  /\ cbs'[fd] \in Seq(WaitType)
                        /\ ToSet(cbs'[fd]) = ToSet(cbs[fd]) \cup {w \in ToSet(files) : w.fd = fd}
                        /\ fd \notin fds => cbs'[fd] = cbs[fd]
      OBVIOUS
    <3> DEFINE q == cbs[fd]
               k == Kept(files, S(fd))
    <3>1. cbs'[fd] = q \o k
      BY <1>4
    <3>2. k \in Seq(WaitType) /\ ToSet(k) = ToSet(files) \cap S(fd)
      BY <1>2, KeptWaits
    <3>3. q \in Seq(WaitType)
      BY <1>1 DEF EventTypes
    <3>4. ToSet(files) \cap S(fd) = {w \in ToSet(files) : w.fd = fd}
      OBVIOUS
    <3>5. fd \notin fds => {w \in ToSet(files) : w.fd = fd} = {}
      BY <1>2
    <3> HIDE DEF q, k
    <3>6. q \o k \in Seq(WaitType) /\ ToSet(q \o k) = ToSet(q) \cup ToSet(k)
      BY <3>2, <3>3, ToSetOfConcat
    <3>7. ToSet(k) = {} => q \o k = q
      BY <3>2, <3>3, NoMembers, ConcatEmptySeq
    <3> QED BY <3>1, <3>2, <3>4, <3>5, <3>6, <3>7 DEF q
  <2>2. cbs' \in [Fds -> Seq(WaitType)] /\ status' \in [Coros -> {"running", "waiting", "notified"}]
    BY <1>1, <1>4, <2>1 DEF EventTypes
  <2>3. EpollInv'
    <3>1. \A fd \in Fds \ fds : Mask(fd)' = Mask(fd)
      BY <2>1 DEF Mask
    <3>2. \A fd \in Fds \ open : cbs'[fd] = <<>>
      BY <1>1, <2>1 DEF EpollInv
    <3>3. \A fd \in open \ changes' : Mask(fd)' \subseteq kernel[fd]
      BY <1>1, <3>1 DEF EpollInv, EventTypes
    <3>4. \A fd \in Fds : cbs'[fd] # <<>> \/ kernel[fd] # {} => fd \in known'
      BY <1>1, <2>1 DEF EpollInv
    <3> QED BY <1>1, <3>2, <3>3, <3>4 DEF EpollInv
  <2>4. /\ sleepers' \in [Timer -> SUBSET Coros] /\ armed' \in Seq(Alarm) /\ Sorted(armed')
        /\ Asleep'
        /\ \A d \in Coros \ {c} : \A t \in Timer : d \in sleepers'[t] <=> d \in sleepers[t]
        /\ T # {} => \E t \in Timer : c \in sleepers'[t]
    <3>1. CASE T = {}
      BY <1>1, <1>4, <3>1 DEF EventTypes, RegisteredInv, Asleep
    <3>2. CASE T # {}
      <4>1. PICK t \in T : Sleep(c, t)
        BY <1>4, <3>2
      <4>2. t \in Timer
        BY DEF TimerSets
      <4>3. sleepers' = [sleepers EXCEPT ![t] = @ \cup {c}]
        BY <4>1 DEF Sleep
      <4>4. /\ armed' \in Seq(Alarm) /\ Sorted(armed')
            /\ Armed(armed) \subseteq Armed(armed')
            /\ t \in Periodics /\ period[t] # 0 => t \in Armed(armed')
        <5>1. CASE t \in Periodics /\ period[t] # 0 /\ t \notin Armed(armed)
          <6>1. armed' = Arm(t, After(period[t]))
            BY <4>1, <5>1 DEF Sleep
          <6>2. period[t] \in Nat
            BY <1>1, <5>1 DEF EventTypes
          <6>3. After(period[t]) \in Instant
            BY <6>2, AfterIsInstant
          <6>4. /\ Arm(t, After(period[t])) \in Seq(Alarm) /\ Sorted(Arm(t, After(period[t])))
                /\ Armed(Arm(t, After(period[t]))) = Armed(armed) \cup {t}
            BY <1>1, <4>2, <6>3, ArmProps DEF EventTypes, RegisteredInv
          <6> QED BY <6>1, <6>4
        <5>2. CASE ~ (t \in Periodics /\ period[t] # 0 /\ t \notin Armed(armed))
          <6>1. armed' = armed
            BY <4>1, <5>2 DEF Sleep
          <6> QED BY <1>1, <5>2, <6>1 DEF EventTypes, RegisteredInv
        <5> QED BY <5>1, <5>2
      <4>5. t \in Singles => t \in Armed(armed)
        BY <1>1, <1>4
      <4>6. /\ sleepers' \in [Timer -> SUBSET Coros]
            /\ \A u \in Timer \ {t} : sleepers'[u] = sleepers[u]
            /\ sleepers'[t] = sleepers[t] \cup {c}
        BY <1>1, <4>2, <4>3 DEF EventTypes
      <4>7. Asleep'
        <5> SUFFICES ASSUME NEW u \in Timer, sleepers'[u] # {}, u \in Periodics => period[u] # 0
                     PROVE  u \in Armed(armed')
          BY <1>1 DEF Asleep
        <5>1. CASE u = t
          BY <4>2, <4>4, <4>5, <5>1 DEF Timer
        <5>2. CASE u # t
          BY <1>1, <4>4, <4>6, <5>2 DEF RegisteredInv, Asleep
        <5> QED BY <5>1, <5>2
      <4> QED BY <4>2, <4>4, <4>6, <4>7
    <3> QED BY <3>1, <3>2
  <2>5. \A d \in Coros \ {c} : Registered(d)' <=> Registered(d)
    <3>1. \A d \in Coros \ {c} : (\E fd \in Fds : \E w \in ToSet(cbs'[fd]) : w.coro = d)
                                 <=> (\E fd \in Fds : \E w \in ToSet(cbs[fd]) : w.coro = d)
      BY <1>2, <2>1
    <3> QED BY <2>4, <3>1 DEF Registered
  <2>6. Registered(c)'
    <3>1. CASE T # {}
      BY <2>4, <3>1 DEF Registered
    <3>2. CASE T = {}
      <4>1. Cardinality(T) = 0
        BY <3>2, FS_EmptySet
      <4>2. Len(files) \in Nat /\ Len(files) # 0
        <5>1. Len(files) + 0 \in 1 .. 2
          BY <4>1
        <5>2. Len(files) \in Nat
          BY <1>2
        <5> QED BY <5>1, <5>2
      <4>3. files[1] \in ToSet(files) /\ files[1].coro = c /\ files[1].fd \in fds
        BY <1>2, <4>2 DEF ToSet
      <4>4. files[1].fd \in Fds
        BY <1>1, <4>3 DEF EventTypes
      <4>5. files[1] \in ToSet(cbs'[files[1].fd])
        BY <2>1, <4>3, <4>4
      <4> QED BY <4>3, <4>4, <4>5 DEF Registered
    <3> QED BY <3>1, <3>2
  <2>7. \A d \in Coros : status'[d] = "waiting" <=> (d = c \/ status[d] = "waiting")
    BY <1>1, <1>4 DEF EventTypes
  <2>8. RegisteredInv'
    BY <1>1, <2>4, <2>5, <2>6, <2>7 DEF RegisteredInv
  <2>9. EventTypes'
    BY <1>1, <2>2, <2>4 DEF EventTypes
  <2> QED BY <2>3, <2>8, <2>9 DEF EventInv
<1> QED BY <1>3, <1>4 DEF Wait

\* Every step of the loop, the timers and the coroutines keeps the invariant.
LEMMA EventStep == ASSUME EventInv, [EventsNext]_eventVars PROVE EventInv'
<1>1. CASE UNCHANGED eventVars
  BY <1>1
  DEF eventVars, timerVars, fileVars, loopVars, EventInv, EventTypes, EpollInv, RegisteredInv,
     Registered, Asleep, Mask
<1>2. CASE CoroNext
  BY <1>2, WaitKeeps, InterruptKeeps, ResumeKeeps, StartKeeps, EndTimerKeeps,
     DescriptorKeeps DEF CoroNext
<1>3. CASE CheckNext
  BY <1>3, UpdateEpollKeeps, LoopKeeps, CallbackKeeps, RingKeeps DEF CheckNext
<1>4. CASE TimePasses
  BY <1>4, LoopKeeps
<1> QED BY <1>1, <1>2, <1>3, <1>4 DEF EventsNext

\* The invariant holds at first.
LEMMA EventInitially == EventsInit => EventInv
<1> SUFFICES ASSUME EventsInit PROVE EventInv
  OBVIOUS
<1>1. EventTypes
  BY DEF EventsInit, TimersInit, EventTypes
<1>2. EpollInv
  BY DEF EventsInit, EpollInv, Mask, ToSet
<1>3. RegisteredInv
  BY DEF EventsInit, TimersInit, RegisteredInv, Registered, Asleep, Sorted, ToSet
<1> QED BY <1>1, <1>2, <1>3 DEF EventInv

\* The invariant implies the two properties that the runs check.
LEMMA PropertiesOfEvents == EventInv => KernelKnowsEveryWait /\ WaitsAreRegistered
<1> SUFFICES ASSUME EventInv PROVE KernelKnowsEveryWait /\ WaitsAreRegistered
  OBVIOUS
<1>1. KernelKnowsEveryWait
  BY DEF EventInv, EpollInv, KernelKnowsEveryWait
<1>2. Waiting = UNION ({sleepers[t] : t \in Timer} \cup {{w.coro : w \in ToSet(cbs[fd])} : fd \in Fds})
  <2>1. \A c \in Coros : c \in Waiting <=> Registered(c)
    BY DEF EventInv, RegisteredInv, Waiting
  <2>2. \A t \in Timer : sleepers[t] \subseteq Coros
    BY DEF EventInv, EventTypes
  <2>3. \A fd \in Fds : \A w \in ToSet(cbs[fd]) : w.coro \in Coros
    <3> SUFFICES ASSUME NEW fd \in Fds, NEW i \in DOMAIN cbs[fd] PROVE cbs[fd][i].coro \in Coros
      BY DEF ToSet
    <3>1. cbs[fd][i] \in WaitType
      BY DEF EventInv, EventTypes
    <3> QED BY <3>1 DEF WaitType
  <2>4. Waiting \subseteq Coros
    BY DEF Waiting
  <2> DEFINE U == UNION ({sleepers[t] : t \in Timer} \cup {{w.coro : w \in ToSet(cbs[fd])} : fd \in Fds})
  <2>5. U \subseteq Coros
    BY <2>2, <2>3
  <2>6. \A c \in Coros : c \in U <=> Registered(c)
    <3> SUFFICES ASSUME NEW c \in Coros PROVE c \in U <=> Registered(c)
      OBVIOUS
    <3> DEFINE X == {sleepers[t] : t \in Timer}
               Y == {{w.coro : w \in ToSet(cbs[fd])} : fd \in Fds}
    <3>1. (\E s \in X : c \in s) <=> \E t \in Timer : c \in sleepers[t]
      OBVIOUS
    <3>2. (\E s \in Y : c \in s) <=> \E fd \in Fds : c \in {w.coro : w \in ToSet(cbs[fd])}
      BY Zenon
    <3>3. \A fd \in Fds : c \in {w.coro : w \in ToSet(cbs[fd])} <=> \E w \in ToSet(cbs[fd]) : w.coro = c
      OBVIOUS
    <3>4. U = UNION (X \cup Y)
      OBVIOUS
    <3> HIDE DEF U, X, Y
    <3>5. c \in U <=> (\E s \in X : c \in s) \/ (\E s \in Y : c \in s)
      BY <3>4
    <3> QED BY <3>1, <3>2, <3>3, <3>5 DEF Registered
  <2> HIDE DEF U
  <2>7. Waiting = U
    BY <2>1, <2>4, <2>5, <2>6
  <2> QED BY <2>7 DEF U
<1>3. WaitsAreRegistered
  BY <1>2 DEF EventInv, RegisteredInv, Asleep, Sorted, WaitsAreRegistered
<1> QED BY <1>1, <1>3

\* A step of the composed system is a step of the loop, or leaves it alone.
LEMMA EventsOfIo == [IoNext]_ioVars => [EventsNext]_eventVars
BY DEF IoNext, ioVars, OfEvents, OfTcp, OfFiles

\* The invariant always holds.
LEMMA EventInvariant == IoSpec => []EventInv
<1>1. IoInit => EventInv
  BY EventInitially DEF IoInit
<1>2. EventInv /\ [IoNext]_ioVars => EventInv'
  BY EventStep, EventsOfIo
<1> QED BY <1>1, <1>2, PTL DEF IoSpec

\* Whatever a coroutine waits for, the kernel is asked to watch, or will be before the
\* next epoll_wait: the change is in m_epoll_changes (events.cc:95-146), for any
\* number of descriptors, coroutines and waits on one descriptor: KernelKnowsEveryWait.
THEOREM EpollKnowsEveryWait == IoSpec => []KernelKnowsEveryWait
BY EventInvariant, PropertiesOfEvents, PTL

\* A coroutine waits if and only if a timer or a descriptor knows of it, whatever was
\* cancelled, closed or destroyed meanwhile (events.cc:52, file_wait.cc:65-81); a timer
\* that is waited for is armed; the list is in the order of the times: WaitsAreRegistered.
THEOREM EveryWaitIsRegistered == IoSpec => []WaitsAreRegistered
BY EventInvariant, PropertiesOfEvents, PTL

-----------------------------------------------------------------------------
\* The sleep, and the timers that ring.

\* What an int keeps of a number of milliseconds differs from it by a multiple of 2^32.
LEMMA NarrowProps ==
  ASSUME NEW ms \in Int
  PROVE  /\ IntBound \in Nat /\ IntBound > 0
         /\ Narrow(ms) \in Int /\ Narrow(ms) >= - IntBound /\ Narrow(ms) < IntBound
         /\ \/ Narrow(ms) = ms
            \/ Narrow(ms) + 2 * IntBound <= ms
            \/ Narrow(ms) >= ms + 2 * IntBound
<1>1. PICK m \in Nat : m = 2 * IntBound /\ m > 0
  BY IntAssumption
<1>2. PICK x \in Int : x = ms + IntBound
  BY IntAssumption
<1>3. x \div m \in Int /\ x % m \in 0 .. m - 1 /\ x = (x \div m) * m + (x % m)
  BY <1>1, <1>2
<1>4. PICK q \in Int, r \in 0 .. m - 1 : r = x % m /\ x = q * m + r
  BY <1>3
<1>5. Narrow(ms) = r - IntBound
  BY <1>1, <1>2, <1>4 DEF Narrow
<1>6. q * m \in Int /\ (q = 0 => q * m = 0) /\ (q >= 1 => m <= q * m) /\ (q <= - 1 => q * m <= - m)
  <2>1. q * m \in Int /\ 1 * m = m /\ (- 1) * m = - m /\ 0 * m = 0
    BY <1>1, <1>4
  <2>2. ASSUME q >= 1 PROVE m <= q * m
    <3>1. 1 \in Int /\ q \in Int /\ 1 <= q /\ m \in Nat
      BY <1>1, <1>4, <2>2
    <3>2. 1 * m <= q * m
      BY <3>1, TimesProps
    <3> QED BY <2>1, <3>2
  <2>3. ASSUME q <= - 1 PROVE q * m <= - m
    <3>1. - 1 \in Int /\ q \in Int /\ q <= - 1 /\ m \in Nat
      BY <1>1, <1>4, <2>3
    <3>2. q * m <= (- 1) * m
      BY <3>1, TimesProps
    <3> QED BY <2>1, <3>2
  <2> QED BY <2>1, <2>2, <2>3
<1>7. PICK y \in Int : y = q * m
  BY <1>6
<1>8. /\ ms + IntBound = y + r /\ Narrow(ms) = r - IntBound /\ r >= 0 /\ r < m /\ m = 2 * IntBound
      /\ r \in Int /\ IntBound \in Nat /\ IntBound > 0
      /\ y = 0 \/ y >= m \/ y <= - m
  BY <1>1, <1>2, <1>4, <1>5, <1>6, <1>7, IntAssumption
<1> HIDE DEF Narrow
<1> QED BY <1>8

SleepInv == wake \in Int /\ SleepsUntilTheTimer

\* The timeout that check() passes to epoll_wait ends when the first timer rings.
LEMMA DeadlineProps ==
  ASSUME EventInv, UpdateEpoll, wake' = Deadline, phase' = "poll"
  PROVE  SleepInv'
<1>1. /\ UNCHANGED <<clock, armed, status>> /\ clock \in Nat
      /\ (\E c \in Coros : status'[c] = "notified") <=> (\E c \in Coros : status[c] = "notified")
  BY DEF UpdateEpoll, timerVars, EventInv, EventTypes
<1>2. CASE \E c \in Coros : status[c] = "notified"
  <2>1. wake' = clock
    BY <1>2 DEF Deadline
  <2> QED BY <1>1, <1>2, <2>1 DEF SleepInv, SleepsUntilTheTimer
<1>3. CASE ~ (\E c \in Coros : status[c] = "notified") /\ armed = <<>>
  <2>1. wake' = -1
    BY <1>3 DEF Deadline
  <2> QED BY <1>1, <1>3, <2>1 DEF SleepInv, SleepsUntilTheTimer
<1>4. CASE ~ (\E c \in Coros : status[c] = "notified") /\ armed # <<>>
  <2> DEFINE at == armed[1].at
             ms == MsDiff(at, ReadClock(clock))
             int == Narrow(ms)
  <2>1. wake' = clock + NsPerMs * (IF int > 0 THEN int ELSE 0)
    BY <1>4 DEF Deadline
  <2>2. at \in Instant
    <3>1. armed \in Seq(Alarm) /\ armed # <<>>
      BY <1>4 DEF EventInv, EventTypes
    <3>2. armed[1] \in Alarm
      BY <3>1
    <3> QED BY <3>2 DEF Alarm
  <2> HIDE DEF at
  <2>3. /\ ms \in Int /\ ms * NsPerMs \in Int
        /\ Value(at) - clock <= ms * NsPerMs
        /\ ms * NsPerMs < Value(at) - clock + NsPerMs
    BY <1>1, <2>2, ClockReads, MsDiffRoundsUp
  <2> HIDE DEF ms
  <2>4. /\ int \in Int /\ int >= - IntBound /\ int < IntBound /\ IntBound \in Nat /\ IntBound > 0
        /\ int = ms \/ int + 2 * IntBound <= ms \/ int >= ms + 2 * IntBound
    BY <2>3, NarrowProps
  <2> HIDE DEF int
  <2>5. NsPerMs \in Nat /\ NsPerMs > 0 /\ Value(at) \in Nat /\ clock \in Nat
    BY <1>1, <2>2, Units, ValueIsNat
  <2> DEFINE late == wake' - Value(at)
             span == IntBound * NsPerMs
  <2>6. span \in Nat /\ 2 * IntBound * NsPerMs = 2 * span /\ (IntBound - 1) * NsPerMs = span - NsPerMs
    BY <2>4, <2>5
  <2>7. /\ int * NsPerMs \in Int
        /\ int = ms => int * NsPerMs = ms * NsPerMs
        /\ int + 2 * IntBound <= ms => int * NsPerMs + 2 * span <= ms * NsPerMs
        /\ int >= ms + 2 * IntBound => int * NsPerMs >= ms * NsPerMs + 2 * span
    <3>1. int * NsPerMs \in Int /\ (int + 2 * IntBound) * NsPerMs = int * NsPerMs + 2 * span
      BY <2>4, <2>5
    <3>2. (ms + 2 * IntBound) * NsPerMs = ms * NsPerMs + 2 * span
      BY <2>3, <2>4, <2>5
    <3>3. ASSUME int + 2 * IntBound <= ms PROVE int * NsPerMs + 2 * span <= ms * NsPerMs
      <4>1. (int + 2 * IntBound) * NsPerMs <= ms * NsPerMs
        BY <2>3, <2>4, <2>5, <3>3, TimesProps
      <4> QED BY <3>1, <4>1
    <3>4. ASSUME int >= ms + 2 * IntBound PROVE int * NsPerMs >= ms * NsPerMs + 2 * span
      <4>1. (ms + 2 * IntBound) * NsPerMs <= int * NsPerMs
        BY <2>3, <2>4, <2>5, <3>4, TimesProps
      <4> QED BY <3>1, <3>2, <4>1
    <3> QED BY <3>1, <3>3, <3>4
  <2>8. /\ int > 0 => int * NsPerMs >= 0
        /\ ~ (int > 0) => int * NsPerMs <= 0
        /\ - span <= int * NsPerMs
    <3>1. 0 * NsPerMs = 0 /\ (- IntBound) * NsPerMs = - span
      BY <2>4, <2>5
    <3>2. ASSUME int > 0 PROVE 0 * NsPerMs <= int * NsPerMs
      BY <2>4, <2>5, <3>2, TimesProps
    <3>3. ASSUME ~ (int > 0) PROVE int * NsPerMs <= 0 * NsPerMs
      BY <2>4, <2>5, <3>3, TimesProps
    <3>4. (- IntBound) * NsPerMs <= int * NsPerMs
      BY <2>4, <2>5, TimesProps
    <3> QED BY <3>1, <3>2, <3>3, <3>4
  <2>9. wake' = IF int > 0 THEN clock + int * NsPerMs ELSE clock
    BY <2>1, <2>4, <2>5, <2>7
  <2> HIDE DEF span
  <2>10. /\ wake' \in Int /\ wake' >= 0
         /\ late < NsPerMs \/ wake' <= clock \/ late >= 2 * span
         /\ late >= 0 \/ - late > span - NsPerMs
    <3>1. PICK x \in Int, y \in Int : x = int * NsPerMs /\ y = ms * NsPerMs
      BY <2>3, <2>7
    <3>2. CASE int > 0
      <4>1. wake' = clock + x /\ x >= 0
        BY <2>8, <2>9, <3>1, <3>2
      <4>2. x = y \/ x + 2 * span <= y \/ x >= y + 2 * span
        BY <2>4, <2>7, <3>1
      <4>3. Value(at) - clock <= y /\ y < Value(at) - clock + NsPerMs
        BY <2>3, <3>1
      <4> QED BY <2>5, <2>6, <3>1, <4>1, <4>2, <4>3
    <3>3. CASE ~ (int > 0)
      <4>1. wake' = clock /\ x <= 0 /\ x >= - span
        BY <2>8, <2>9, <3>1, <3>3
      <4>2. x = y \/ x + 2 * span <= y \/ x >= y + 2 * span
        BY <2>4, <2>7, <3>1
      <4>3. Value(at) - clock <= y /\ y < Value(at) - clock + NsPerMs
        BY <2>3, <3>1
      <4> QED BY <2>5, <2>6, <3>1, <4>1, <4>2, <4>3
    <3> QED BY <3>2, <3>3
  <2> QED BY <1>1, <2>6, <2>10 DEF SleepInv, SleepsUntilTheTimer, at
<1> QED BY <1>2, <1>3, <1>4

\* While the thread sleeps nothing may arm a timer, so the timeout stays right.
LEMMA SleepStep == ASSUME EventInv, SleepInv, [EventsNext]_eventVars PROVE SleepInv'
<1>1. ASSUME phase' # "poll", wake' \in Int PROVE SleepInv'
  BY <1>1 DEF SleepInv, SleepsUntilTheTimer
<1>2. CASE UNCHANGED eventVars
  BY <1>2 DEF eventVars, timerVars, loopVars, SleepInv, SleepsUntilTheTimer
<1>3. CASE CoroNext
  <2>1. phase = "run" /\ UNCHANGED <<phase, wake>>
    BY <1>3, ZenonT(60)
    DEF CoroNext, Wait, Interrupt, Resume, Start, EndTimer, Close, Open, Running, loopVars
  <2> QED BY <1>1, <2>1 DEF SleepInv
<1>4. CASE UpdateEpoll
  <2>1. CASE UNCHANGED <<phase, wake>>
    <3>1. phase = "run"
      BY <1>4 DEF UpdateEpoll, Running
    <3> QED BY <1>1, <2>1, <3>1 DEF SleepInv
  <2>2. CASE wake' = Deadline /\ phase' = "poll"
    BY <1>4, <2>2, DeadlineProps
  <2> QED BY <1>4, <2>1, <2>2 DEF UpdateEpoll
<1>5. CASE Poll \/ (\E e \in events : HandleFd(e)) \/ Callback \/ RingTimers
  <2>1. phase' # "poll" /\ (wake' = wake \/ wake' = 0)
    BY <1>5 DEF Poll, HandleFd, Callback, RingTimers
  <2> QED BY <1>1, <2>1 DEF SleepInv
<1>6. CASE TimePasses
  <2>1. UNCHANGED <<armed, status, wake, phase>> /\ clock' = clock + 1 /\ clock \in Nat
    BY <1>6 DEF TimePasses, Tick, loopVars, EventInv, EventTypes
  <2>2. wake \in Int /\ (wake <= clock => wake <= clock + 1)
    BY <2>1 DEF SleepInv
  <2> QED BY <2>1, <2>2 DEF SleepInv, SleepsUntilTheTimer
<1> QED BY <1>2, <1>3, <1>4, <1>5, <1>6 DEF EventsNext, CheckNext

\* What rings has expired, and what has expired rings, in order.
LEMMA RingStep == ASSUME EventInv, [EventsNext]_eventVars PROVE RingsInTime
<1> SUFFICES ASSUME phase = "events", phase' = "run", NEW e \in Expired
             PROVE  /\ Value(e.at) <= clock
                    /\ \A later \in ToSet(armed') : Value(e.at) <= Value(later.at)
  BY DEF RingsInTime
<1>1. RingTimers
  BY DEF EventsNext, CoroNext, CheckNext, Wait, Interrupt, Resume, Start, EndTimer, Close,
     Open, Running,
     UpdateEpoll, Poll, HandleFd, Callback, TimePasses, loopVars, eventVars
<1> DEFINE rung == {x.timer : x \in Expired}
           heard == UNION {sleepers[t] : t \in rung}
           list == Disarm(armed, rung)
           idle == {t \in Periodics : sleepers[t] # {} /\ sleepers[t] \subseteq heard}
<1>2. armed \in Seq(Alarm) /\ Sorted(armed) /\ clock \in Nat /\ DOMAIN armed = 1 .. Len(armed)
  BY DEF EventInv, EventTypes, RegisteredInv
<1>3. armed' = Disarm(list, idle)
  BY <1>1 DEF RingTimers, Decide, ArmedWithout
<1>4. ToSet(armed') \subseteq {x \in ToSet(armed) : x.timer \notin rung}
  <2> HIDE DEF rung, idle, list
  <2>1. list \in Seq(Alarm) /\ Sorted(list) /\ ToSet(list) = {x \in ToSet(armed) : x.timer \notin rung}
    BY <1>2, DisarmProps DEF list
  <2>2. ToSet(armed') \subseteq ToSet(list)
    BY <1>3, <2>1, DisarmProps
  <2> QED BY <2>1, <2>2
<1>5. PICK i \in DOMAIN armed : e = armed[i] /\ \A k \in 1 .. i : Less(armed[k].at, ReadClock(clock))
  BY DEF Expired
<1>6. \A k \in DOMAIN armed : armed[k].at \in Instant
  <2>1. \A k \in DOMAIN armed : armed[k] \in Alarm
    BY <1>2
  <2> QED BY <2>1 DEF Alarm
<1>7. Value(e.at) <= clock
  <2>1. i \in 1 .. i
    BY <1>2
  <2>2. Less(e.at, ReadClock(clock)) /\ e.at \in Instant
    BY <1>5, <1>6, <2>1
  <2> QED BY <1>2, <2>2, ClockReads, LessIsEarlier
<1>8. ASSUME NEW later \in ToSet(armed') PROVE Value(e.at) <= Value(later.at)
  <2>1. later \in ToSet(armed) /\ later.timer \notin rung
    BY <1>4
  <2>2. PICK j \in DOMAIN armed : later = armed[j]
    BY <2>1 DEF ToSet
  <2>3. ~ (j <= i)
    <3> SUFFICES ASSUME j <= i PROVE FALSE
      OBVIOUS
    <3>1. \A k \in 1 .. j : k \in 1 .. i
      BY <1>2
    <3>2. armed[j] \in Expired
      BY <1>5, <3>1 DEF Expired
    <3> QED BY <2>1, <2>2, <3>2
  <2> QED BY <1>2, <1>5, <2>2, <2>3 DEF Sorted
<1> QED BY <1>7, <1>8

\* The thread sleeps until the millisecond in which its first timer is due, unless that
\* is at least 2^31 - 1 ms away and the int of the timeout (events.cc:72) may be too small
\* for it; no timer rings before its time, and none that is earlier stays behind when one
\* rings: for any clock, delays, units of time and width of an int (timer.cc:43): TimersAreOnTime.
THEOREM TimersRingOnTime == IoSpec => TimersAreOnTime
<1>1. IoInit => SleepInv
  BY DEF IoInit, EventsInit, SleepInv, SleepsUntilTheTimer
<1>2. EventInv /\ SleepInv /\ [IoNext]_ioVars => SleepInv'
  BY SleepStep, EventsOfIo
<1>3. EventInv /\ [IoNext]_ioVars => RingsInTime
  BY RingStep, EventsOfIo
<1>4. SleepInv => SleepsUntilTheTimer
  BY DEF SleepInv
<1>5. SleepInv' => SleepsUntilTheTimer'
  BY <1>4, PTL
<1>6. EventInv /\ SleepInv /\ [IoNext]_ioVars => [SleepsUntilTheTimer' /\ RingsInTime]_ioVars
  BY <1>2, <1>3, <1>5
<1> QED BY <1>1, <1>2, <1>6, EventInvariant, PTL DEF IoSpec, TimersAreOnTime

-----------------------------------------------------------------------------
\* Files.

FileRequest == [op : {"none", "open", "read", "write", "truncate"}, size : Nat, left : Nat,
                res : {"none", "pending", "ok", "error", "invalid"}]

\* A request says what is left of it: all of a part that was transferred is gone, and
\* nothing of a success is left.
FileInv ==
  /\ request \in [Clients -> FileRequest]
  /\ \A c \in Clients : request[c].left <= request[c].size
  /\ SuccessIsWhole

\* Every step of a request keeps it.
LEMMA FileStep == FileInv /\ [FileNext]_fileIoVars => FileInv'
<1> SUFFICES ASSUME FileInv, [FileNext]_fileIoVars PROVE FileInv'
  OBVIOUS
<1> USE DEF FileInv, SuccessIsWhole, FileRequest
<1>1. CASE UNCHANGED fileIoVars
  BY <1>1 DEF fileIoVars
<1>2. ASSUME NEW c \in Clients, NEW r, request' = [request EXCEPT ![c] = r],
             r \in FileRequest,
             r.left <= r.size, r.res = "ok" => r.left = 0
      PROVE  FileInv'
  BY <1>2
<1>3. ASSUME NEW c \in Clients, NEW op \in {"open", "read", "write", "truncate"},
             NEW n \in 1 .. MaxSize, Ask(c, op, n)
      PROVE  FileInv'
  BY <1>2, <1>3, FileAssumption DEF Ask
<1>8. ASSUME NEW c \in Clients, NEW l \in 0 .. request[c].left,
             NEW res \in {"pending", "ok", "error", "invalid"}, res = "ok" => l = 0,
             request' = [request EXCEPT ![c] = [@ EXCEPT !.left = l, !.res = res]]
      PROVE  FileInv'
  <2> DEFINE r == [request[c] EXCEPT !.left = l, !.res = res]
  <2>1. /\ request[c].left \in Nat /\ request[c].size \in Nat
        /\ request[c].left <= request[c].size
        /\ request[c] \in FileRequest
    OBVIOUS
  <2>2. l \in Nat /\ l <= request[c].size
    BY <2>1
  <2>3. /\ r \in FileRequest
        /\ r.left = l /\ r.res = res /\ r.size = request[c].size
    BY <2>1, <2>2
  <2>4. request' = [request EXCEPT ![c] = r]
    BY <1>8
  <2> HIDE DEF FileInv, FileRequest, r
  <2> QED BY <1>2, <1>8, <2>2, <2>3, <2>4
<1>9. ASSUME NEW c \in Clients, Answer(c, "error") PROVE FileInv'
  BY <1>9 DEF Answer
<1>4. ASSUME NEW c \in Clients, Transfer(c) PROVE FileInv'
  <2> DEFINE r == request[c]
  <2>1. r.left \in Nat /\ r.size \in Nat /\ r.left <= r.size
    OBVIOUS
  <2>2. ASSUME NEW n \in 0 .. r.left, n = r.size \/ (n = 0 /\ r.op = "read"),
               request' = [request EXCEPT ![c] = [@ EXCEPT !.left = r.left - n,
                                                           !.res = IF n = r.size THEN "ok" ELSE "invalid"]]
        PROVE  FileInv'
    <3>1. r.left - n \in 0 .. r.left /\ (n = r.size => r.left - n = 0)
      BY <2>1
    <3> HIDE DEF FileInv, FileRequest, r
    <3> QED BY <2>2, <3>1, <1>8 DEF r
  <2>3. ASSUME NEW n \in 0 .. r.left, r.res = "pending", request' = [request EXCEPT ![c].left = r.left - n]
        PROVE  FileInv'
    BY <2>1, <2>3, SMTT(40)
  <2> QED BY <1>4, <1>9, <2>2, <2>3 DEF Transfer
<1>5. ASSUME NEW c \in Clients, Truncate(c) \/ OpenFile(c) PROVE FileInv'
  <2>1. request[c].left \in Nat
    OBVIOUS
  <2>2. Answer(c, "error") \/ request' = [request EXCEPT ![c] = [@ EXCEPT !.left = 0, !.res = "ok"]]
    BY <1>5 DEF Truncate, OpenFile
  <2>3. 0 \in 0 .. request[c].left
    BY <2>1
  <2> HIDE DEF FileInv, FileRequest
  <2> QED BY <1>8, <1>9, <2>2, <2>3
<1>6. ASSUME NEW c \in Clients, Receive(c) PROVE FileInv'
  BY <1>2, <1>6 DEF Receive, NoRequest
<1>7. ASSUME NEW c \in Clients, GiveUp(c) \/ CloseFile(c) PROVE FileInv'
  BY <1>7 DEF GiveUp, CloseFile
<1> QED BY <1>1, <1>3, <1>4, <1>5, <1>6, <1>7 DEF FileNext

\* A handler that answers with success has transferred everything (file.cc:34-72),
\* for any number of clients and any size: SuccessIsWhole.
THEOREM FilesSuccessIsWhole == IoSpec => []SuccessIsWhole
<1>1. IoInit => FileInv
  BY DEF IoInit, FileInit, FileInv, FileRequest, NoRequest, SuccessIsWhole
<1>2. FileInv /\ [IoNext]_ioVars => FileInv'
  <2>1. [IoNext]_ioVars => [FileNext]_fileIoVars
    BY DEF IoNext, ioVars, OfEvents, OfTcp, OfFiles
  <2> QED BY <2>1, FileStep
<1>3. FileInv => SuccessIsWhole
  BY DEF FileInv
<1> QED BY <1>1, <1>2, <1>3, PTL DEF IoSpec

-----------------------------------------------------------------------------
\* The connection: the list of m_read_mutex.

\* Removing the i-th of a sequence keeps the order of the others.
LEMMA RemoveAtProps ==
  ASSUME NEW S, NEW q \in Seq(S), NEW i \in DOMAIN q
  PROVE  /\ RemoveAt(q, i) \in Seq(S)
         /\ Len(RemoveAt(q, i)) = Len(q) - 1
         /\ \A k \in 1 .. Len(q) - 1 :
              RemoveAt(q, i)[k] = IF k < i THEN q[k] ELSE q[k + 1]
<1> DEFINE front == SubSeq(q, 1, i - 1)
           back == SubSeq(q, i + 1, Len(q))
<1>1. Len(q) \in Nat /\ i \in 1 .. Len(q) /\ \A k \in 1 .. Len(q) : q[k] \in S
  OBVIOUS
<1>2. /\ front \in Seq(S) /\ Len(front) = i - 1
      /\ \A k \in 1 .. i - 1 : front[k] = q[k]
  BY <1>1, SubSeqProperties
<1>3. /\ back \in Seq(S) /\ Len(back) = Len(q) - i
      /\ \A k \in 1 .. Len(q) - i : back[k] = q[i + k]
  BY <1>1, SubSeqProperties
<1> HIDE DEF front, back
<1>4. /\ front \o back \in Seq(S)
      /\ Len(front \o back) = Len(front) + Len(back)
      /\ \A k \in 1 .. Len(front) + Len(back) :
           (front \o back)[k] = IF k <= Len(front) THEN front[k] ELSE back[k - Len(front)]
  BY <1>2, <1>3, ConcatProperties, Zenon
<1>5. ASSUME NEW k \in 1 .. Len(q) - 1
      PROVE  (front \o back)[k] = IF k < i THEN q[k] ELSE q[k + 1]
  <2>1. k \in 1 .. Len(front) + Len(back)
    BY <1>1, <1>2, <1>3, SMTT(40)
  <2>2. (front \o back)[k] = IF k <= Len(front) THEN front[k] ELSE back[k - Len(front)]
    BY <1>4, <2>1
  <2>3. CASE k < i
    BY <1>1, <1>2, <2>2, <2>3
  <2>4. CASE ~ (k < i)
    <3>1. k - (i - 1) \in 1 .. Len(q) - i /\ ~ (k <= Len(front)) /\ i + (k - (i - 1)) = k + 1
      BY <1>1, <1>2, <2>4
    <3> QED
      BY <1>2, <1>3, <2>2, <2>4, <3>1
  <2> QED
    BY <2>3, <2>4
<1>6. RemoveAt(q, i) = front \o back
  BY DEF RemoveAt, front, back
<1>7. Len(front \o back) = Len(q) - 1
  BY <1>1, <1>2, <1>3, <1>4
<1> QED
  BY <1>4, <1>5, <1>6, <1>7


Distinct(q) == \A i, j \in DOMAIN q : q[i] = q[j] => i = j
Has(q, u) == \E i \in DOMAIN q : q[i] = u

\* Whoever leaves a list leaves the others in their order.
LEMMA WithoutProps ==
  ASSUME NEW S, NEW q \in Seq(S), Distinct(q), NEW u
  PROVE  /\ Without(q, u) \in Seq(S)
         /\ Distinct(Without(q, u))
         /\ \A v : Has(Without(q, u), v) <=> Has(q, v) /\ v # u
         /\ \A v : Has(q, v) /\ v # u /\ q[1] = v => Without(q, u)[1] = v
<1>1. CASE ~ Has(q, u)
  <2>1. Without(q, u) = q
    BY <1>1 DEF Without, Has, ToSet
  <2> QED BY <1>1, <2>1 DEF Has
<1>2. CASE Has(q, u)
  <2> DEFINE i == CHOOSE k \in DOMAIN q : q[k] = u
             w == RemoveAt(q, i)
  <2>1. i \in DOMAIN q /\ q[i] = u
    BY <1>2 DEF Has
  <2> HIDE DEF i
  <2>2. Without(q, u) = w
    BY <1>2 DEF Without, Has, ToSet, i
  <2>3. /\ w \in Seq(S)
        /\ Len(w) = Len(q) - 1
        /\ \A k \in 1 .. Len(q) - 1 : w[k] = IF k < i THEN q[k] ELSE q[k + 1]
    BY <2>1, RemoveAtProps
  <2> HIDE DEF w
  <2>4. /\ Len(q) \in Nat /\ DOMAIN q = 1 .. Len(q) /\ i \in 1 .. Len(q)
        /\ DOMAIN w = 1 .. Len(q) - 1
    BY <2>1, <2>3
  <2>5. Distinct(w)
    <3> DEFINE m(k) == IF k < i THEN k ELSE k + 1
    <3>1. ASSUME NEW j \in 1 .. Len(q) - 1, NEW k \in 1 .. Len(q) - 1, w[j] = w[k] PROVE j = k
      <4>1. /\ m(j) \in 1 .. Len(q) /\ m(k) \in 1 .. Len(q)
            /\ q[m(j)] = w[j] /\ q[m(k)] = w[k]
        BY <2>3, <2>4
      <4>2. m(j) = m(k)
        BY <2>4, <3>1, <4>1 DEF Distinct
      <4> QED BY <2>4, <4>2
    <3> QED BY <2>4, <3>1 DEF Distinct
  <2>6. ASSUME NEW v, Has(q, v), v # u PROVE Has(w, v)
    <3>1. PICK k \in 1 .. Len(q) : q[k] = v
      BY <2>4, <2>6 DEF Has
    <3>2. CASE k < i
      <4>1. k \in 1 .. Len(q) - 1 /\ w[k] = v
        BY <2>3, <2>4, <3>1, <3>2
      <4> QED BY <2>4, <4>1 DEF Has
    <3>3. CASE ~ (k < i)
      <4>1. k # i
        BY <2>1, <2>6, <3>1
      <4>2. k - 1 \in 1 .. Len(q) - 1 /\ w[k - 1] = v
        BY <2>3, <2>4, <3>1, <3>3, <4>1
      <4> QED BY <2>4, <4>2 DEF Has
    <3> QED BY <3>2, <3>3
  <2>7. ASSUME NEW v, Has(w, v) PROVE Has(q, v) /\ v # u
    <3>1. PICK k \in 1 .. Len(q) - 1 : w[k] = v
      BY <2>4, <2>7 DEF Has
    <3>2. CASE k < i
      BY <2>1, <2>3, <2>4, <3>1, <3>2 DEF Has, Distinct
    <3>3. CASE ~ (k < i)
      <4>1. k + 1 \in 1 .. Len(q) /\ q[k + 1] = v /\ k + 1 # i
        BY <2>3, <2>4, <3>1, <3>3
      <4> QED BY <2>1, <2>4, <4>1 DEF Has, Distinct
    <3> QED BY <3>2, <3>3
  <2>8. ASSUME NEW v, Has(q, v), v # u, q[1] = v PROVE w[1] = v
    <3>1. i # 1
      BY <2>1, <2>8
    <3>2. 1 < i /\ 1 \in 1 .. Len(q) - 1
      BY <2>4, <3>1
    <3> QED BY <2>3, <2>8, <3>2
  <2> QED BY <2>2, <2>3, <2>5, <2>6, <2>7, <2>8
<1> QED BY <1>1, <1>2
-----------------------------------------------------------------------------
CallType ==
  [op : {"none", "read", "until", "peek", "write"}, left : Nat,
   pc : {"idle", "lock", "copy", "fill", "direct", "out"}]
  \cup [op : {"peek"}, left : Nat, pc : {"peek"}, old : Nat]

\* A call that reads is in m_read_mutex, and is the first of it once it has locked it.
Reads(r) == r.pc # "idle" /\ r.op # "write"
Inside(r) == r.pc \in {"copy", "fill", "direct", "peek"} /\ r.op # "write"

TcpTypes ==
  /\ sent \in Nat /\ got \in Nat /\ out \in Nat /\ got <= sent
  /\ eof \in BOOLEAN
  /\ buffer \in Seq(Nat) /\ Len(buffer) <= BufferSize
  /\ offset \in 0 .. Len(buffer)
  /\ call \in [Users -> CallType]
  /\ peeked \in [at : Nat, bytes : Seq(Nat)]

LockInv ==
  /\ readers \in Seq(Users) /\ Distinct(readers)
  /\ \A u \in Users : Has(readers, u) <=> Reads(call[u])
  /\ \A u \in Users : Inside(call[u]) => readers[1] = u
  /\ \A u \in Users : call[u].pc \in {"fill", "direct"} => call[u].op # "write"

\* The bytes from the offset to e are the next ones, and the kernel has those behind.
Intact(e) ==
  /\ e \in offset .. Len(buffer)
  /\ \A i \in offset + 1 .. e : buffer[i] = out + (i - offset)
  /\ got = out + (e - offset)

BytesInv ==
  /\ \A u \in Users :
       /\ call[u].pc = "fill" => offset = 0 /\ Intact(0)
       /\ call[u].pc = "peek" => Len(buffer) = BufferSize /\ Intact(call[u].old)
       /\ call[u].pc = "direct" => offset = Len(buffer)
  /\ (\A u \in Users : call[u].pc \notin {"fill", "peek"}) => Intact(Len(buffer))
  /\ \A i \in 1 .. Len(peeked.bytes) : peeked.bytes[i] = peeked.at + i

TcpInv == TcpTypes /\ LockInv /\ (fate = "ok" => BytesInv)

\* Only the reader that has locked the mutex can be in the middle of its call.
LEMMA OneReader ==
  ASSUME TcpTypes, LockInv, NEW u \in Users, Inside(call[u])
  PROVE  \A v \in Users \ {u} : ~ Inside(call[v]) /\ call[v].pc \notin {"fill", "direct", "peek"}
<1> SUFFICES ASSUME NEW v \in Users, v # u
             PROVE  ~ Inside(call[v]) /\ call[v].pc \notin {"fill", "direct", "peek"}
  OBVIOUS
<1>1. ~ Inside(call[v])
  BY DEF LockInv
<1>2. call[v] \in CallType /\ (call[v].pc \in {"fill", "direct"} => call[v].op # "write")
  BY DEF LockInv, TcpTypes
<1> QED BY <1>1, <1>2 DEF Inside, CallType

\* What a call does to the list of the mutex: nothing, it enters, or it leaves.
LEMMA LockStays ==
  ASSUME TcpTypes, LockInv, NEW u \in Users, NEW r \in CallType,
         call' = [call EXCEPT ![u] = r], readers' = readers,
         Reads(r) <=> Reads(call[u]),
         Inside(r) => readers[1] = u,
         r.pc \in {"fill", "direct"} => r.op # "write"
  PROVE  LockInv' /\ call' \in [Users -> CallType]
BY DEF LockInv, TcpTypes

\* A reader that asks for m_read_mutex becomes the last of its list.
LEMMA LockEnters ==
  ASSUME TcpTypes, LockInv, NEW u \in Users, NEW r \in CallType,
         call' = [call EXCEPT ![u] = r], readers' = Append(readers, u),
         ~ Reads(call[u]), r.pc = "lock", r.op # "write"
  PROVE  LockInv' /\ call' \in [Users -> CallType]
<1> DEFINE q == Append(readers, u)
<1>1. /\ readers \in Seq(Users) /\ Distinct(readers) /\ ~ Has(readers, u)
      /\ Len(readers) \in Nat /\ DOMAIN readers = 1 .. Len(readers)
  BY DEF LockInv
<1>2. /\ q \in Seq(Users) /\ DOMAIN q = 1 .. Len(readers) + 1
      /\ \A i \in 1 .. Len(readers) : q[i] = readers[i]
      /\ q[Len(readers) + 1] = u
  BY <1>1
<1> HIDE DEF q
<1>3. Distinct(q)
  BY <1>1, <1>2 DEF Distinct, Has
<1>4. \A v \in Users : Has(q, v) <=> Has(readers, v) \/ v = u
  BY <1>1, <1>2 DEF Has
<1>5. \A v \in Users : Has(readers, v) /\ readers[1] = v => q[1] = v
  BY <1>1, <1>2 DEF Has
<1>6. \A v \in Users : Inside(call[v]) => Reads(call[v])
  BY DEF Inside, Reads
<1>7. Reads(r) /\ ~ Inside(r)
  BY DEF Inside, Reads
<1>8. call' \in [Users -> CallType]
  BY DEF TcpTypes
<1>9. readers' = q
  BY DEF q
<1> QED BY <1>2, <1>3, <1>4, <1>5, <1>6, <1>7, <1>8, <1>9 DEF LockInv, TcpTypes

\* A reader that gives m_read_mutex up leaves its list, the next one holds it.
LEMMA LockLeaves ==
  ASSUME TcpTypes, LockInv, NEW u \in Users,
         call' = [call EXCEPT ![u] = Idle], readers' = Without(readers, u)
  PROVE  LockInv' /\ call' \in [Users -> CallType]
<1> DEFINE q == Without(readers, u)
<1>1. readers \in Seq(Users) /\ Distinct(readers)
  BY DEF LockInv
<1>2. /\ q \in Seq(Users)
      /\ Distinct(q)
      /\ \A v : Has(q, v) <=> Has(readers, v) /\ v # u
      /\ \A v : Has(readers, v) /\ v # u /\ readers[1] = v => q[1] = v
  BY <1>1, WithoutProps
<1> HIDE DEF q
<1>3. \A v \in Users : Inside(call[v]) => Reads(call[v])
  BY DEF Inside, Reads
<1>4. Idle \in CallType /\ ~ Reads(Idle) /\ ~ Inside(Idle) /\ Idle.pc = "idle"
  BY DEF Idle, CallType, Reads, Inside
<1>5. readers' = q
  BY DEF q
<1> QED BY <1>2, <1>3, <1>4, <1>5 DEF LockInv, TcpTypes

-----------------------------------------------------------------------------
PeekedWell == \A i \in 1 .. Len(peeked.bytes) : peeked.bytes[i] = peeked.at + i

\* Nothing is under way in the buffer when its last change ends so.
LEMMA Settled ==
  ASSUME TcpTypes, NEW u \in Users, NEW r \in CallType,
         call' = [call EXCEPT ![u] = r], r.pc \notin {"fill", "direct", "peek"},
         \A v \in Users \ {u} : call[v].pc \notin {"fill", "direct", "peek"},
         Intact(Len(buffer))', PeekedWell'
  PROVE  BytesInv'
<1>1. \A v \in Users : call'[v].pc \notin {"fill", "direct", "peek"}
  BY DEF TcpTypes
<1> QED BY <1>1 DEF BytesInv, PeekedWell

\* A step that leaves the buffer alone, of a call that has nothing pending in it.
LEMMA BytesStay ==
  ASSUME TcpTypes, BytesInv, NEW u \in Users, NEW r \in CallType,
         call' = [call EXCEPT ![u] = r],
         r.pc \notin {"fill", "direct", "peek"}, call[u].pc \notin {"fill", "peek"},
         UNCHANGED <<buffer, offset, got, out>>, PeekedWell'
  PROVE  BytesInv'
<1>1. call'[u].pc = r.pc /\ \A v \in Users \ {u} : call'[v] = call[v]
  BY DEF TcpTypes
<1>2. \A e : Intact(e) => Intact(e)'
  BY DEF Intact
<1>3. \A v \in Users : call'[v].pc \in {"fill", "direct", "peek"} => v # u
  BY <1>1
<1> QED BY <1>1, <1>2, <1>3 DEF BytesInv, PeekedWell, Intact

\* A reader in "copy" has the whole buffer.
LEMMA Copies ==
  ASSUME TcpInv, fate = "ok", NEW u \in Users, call[u].pc = "copy", call[u].op # "write"
  PROVE  /\ \A v \in Users \ {u} : call[v].pc \notin {"fill", "direct", "peek"}
         /\ Intact(Len(buffer))
         /\ PeekedWell
<1>1. Inside(call[u])
  BY DEF Inside
<1>2. \A v \in Users \ {u} : call[v].pc \notin {"fill", "direct", "peek"}
  BY <1>1, OneReader DEF TcpInv
<1>3. \A v \in Users : call[v].pc \notin {"fill", "peek"}
  BY <1>2
<1> QED BY <1>2, <1>3 DEF TcpInv, BytesInv, PeekedWell

\* A call begins.
LEMMA CallStep ==
  ASSUME TcpInv, NEW u \in Users, NEW op \in {"read", "until", "write"}, NEW n \in 1 .. BufferSize,
         Call(u, op, n)
  PROVE  TcpInv'
<1> DEFINE r == [op |-> op, left |-> n, pc |-> "lock"]
<1>1. /\ TcpTypes /\ LockInv /\ BytesInv /\ fate = "ok" /\ call[u].pc = "idle"
      /\ call' = [call EXCEPT ![u] = r]
      /\ peeked' = Unseen
      /\ UNCHANGED <<sent, got, eof, buffer, offset, out, fate>>
  BY DEF Call, Free, TcpInv, peerVars
<1>2. r \in CallType /\ r.pc = "lock" /\ r.op = op
  BY TcpAssumption DEF CallType
<1> HIDE DEF r
<1>3. PeekedWell' /\ peeked' \in [at : Nat, bytes : Seq(Nat)]
  BY <1>1 DEF PeekedWell, Unseen
<1>4. BytesInv'
  BY <1>1, <1>2, <1>3, BytesStay
<1>5. LockInv' /\ call' \in [Users -> CallType]
  <2>1. CASE op = "write"
    <3>1. readers' = readers /\ ~ Reads(r) /\ ~ Reads(call[u]) /\ ~ Inside(r)
      BY <1>1, <1>2, <2>1 DEF Call, Reads, Inside
    <3> QED BY <1>1, <1>2, <3>1, LockStays
  <2>2. CASE op # "write"
    <3>1. readers' = Append(readers, u) /\ ~ Reads(call[u])
      BY <1>1, <2>2 DEF Call, Reads
    <3> QED BY <1>1, <1>2, <2>2, <3>1, LockEnters
  <2> QED BY <2>1, <2>2
<1>6. TcpTypes'
  BY <1>1, <1>3, <1>5 DEF TcpTypes
<1> QED BY <1>4, <1>5, <1>6 DEF TcpInv

\* What the buffer holds, and the buffer shifted to its start.
LEMMA BufferedProps ==
  ASSUME TcpTypes
  PROVE  /\ Buffered \in Seq(Nat) /\ Len(Buffered) = Available /\ Available \in Nat
         /\ Available = Len(buffer) - offset
         /\ \A i \in 1 .. Available : Buffered[i] = buffer[offset + i]
         /\ Len(buffer) \in Nat /\ offset \in Nat
<1>1. buffer \in Seq(Nat) /\ Len(buffer) \in Nat /\ offset \in 0 .. Len(buffer)
  BY DEF TcpTypes
<1>2. \A k \in offset + 1 .. Len(buffer) : buffer[k] \in Nat
  BY <1>1
<1> QED BY <1>1, <1>2, SubSeqProperties DEF Buffered, Available

\* The buffer holds the next bytes.
LEMMA BufferedNext ==
  ASSUME TcpTypes, Intact(Len(buffer))
  PROVE  \A i \in 1 .. Available : Buffered[i] = out + i
<1>1. ASSUME NEW i \in 1 .. Available PROVE Buffered[i] = out + i
  <2> DEFINE k == offset + i
  <2>2. /\ Buffered[i] = buffer[k] /\ k \in offset + 1 .. Len(buffer) /\ k - offset = i
    BY BufferedProps
  <2> HIDE DEF k
  <2>3. buffer[k] = out + (k - offset)
    BY <2>2 DEF Intact
  <2> QED BY <2>2, <2>3
<1> QED BY <1>1

\* A peek shows the first bytes of the buffer.
LEMMA Shows ==
  ASSUME TcpTypes, Intact(Len(buffer)), NEW n \in Nat, n <= Available,
         peeked' = [at |-> out, bytes |-> SubSeq(Buffered, 1, n)]
  PROVE  PeekedWell' /\ peeked' \in [at : Nat, bytes : Seq(Nat)]
<1> DEFINE b == SubSeq(Buffered, 1, n)
<1>1. /\ Buffered \in Seq(Nat) /\ Len(Buffered) = Available /\ Available \in Nat
  BY BufferedProps
<1>2. \A i \in 1 .. Available : Buffered[i] = out + i /\ Buffered[i] \in Nat
  BY <1>1, BufferedNext
<1>3. /\ b \in Seq(Nat) /\ Len(b) = n
      /\ \A i \in 1 .. n : b[i] = Buffered[i]
  BY <1>1, <1>2, SubSeqProperties
<1> HIDE DEF b
<1>4. out \in Nat /\ peeked' = [at |-> out, bytes |-> b]
  BY DEF TcpTypes, b
<1>5. peeked'.at = out /\ peeked'.bytes = b /\ peeked' \in [at : Nat, bytes : Seq(Nat)]
  BY <1>3, <1>4
<1>6. \A i \in 1 .. Len(b) : b[i] = out + i
  BY <1>1, <1>2, <1>3
<1> QED BY <1>5, <1>6 DEF PeekedWell

\* A peek begins, when no other coroutine reads.
LEMMA PeekStep ==
  ASSUME TcpInv, ~ SharedPeek, NEW u \in Users, NEW n \in 1 .. BufferSize, Peek(u, n)
  PROVE  TcpInv'
<1> DEFINE r == [op |-> "peek", left |-> n, pc |-> "lock"]
<1>1. /\ TcpTypes /\ LockInv /\ BytesInv /\ fate = "ok" /\ call[u].pc = "idle"
      /\ \A v \in Users : call[v].pc = "idle" \/ call[v].op = "write"
      /\ UNCHANGED <<sent, got, eof, out, fate>>
      /\ (buffer' = Buffered /\ offset' = 0) \/ UNCHANGED <<buffer, offset>>
  BY DEF Peek, Free, TcpInv, peerVars
<1>2. \A v \in Users : call[v].pc \notin {"fill", "direct", "peek"}
  <2> SUFFICES ASSUME NEW v \in Users PROVE call[v].pc \notin {"fill", "direct", "peek"}
    OBVIOUS
  <2>1. call[v] \in CallType /\ (call[v].pc \in {"fill", "direct"} => call[v].op # "write")
    BY <1>1 DEF TcpTypes, LockInv
  <2> QED BY <1>1, <2>1 DEF CallType
<1>3. Intact(Len(buffer)) /\ PeekedWell
  BY <1>1, <1>2 DEF BytesInv, PeekedWell
<1>4. /\ Intact(Len(buffer))'
      /\ buffer' \in Seq(Nat) /\ Len(buffer') <= BufferSize /\ offset' \in 0 .. Len(buffer')
  <2>1. CASE UNCHANGED <<buffer, offset>>
    BY <1>1, <1>3, <2>1 DEF Intact, TcpTypes
  <2>2. CASE buffer' = Buffered /\ offset' = 0
    <3>1. /\ Len(buffer') = Available /\ Available \in Nat /\ Available = Len(buffer) - offset
          /\ buffer' \in Seq(Nat) /\ Len(buffer) \in Nat /\ offset \in Nat
          /\ \A i \in 1 .. Available : buffer'[i] = out + i
      BY <1>1, <1>3, <2>2, BufferedProps, BufferedNext
    <3>2. out \in Nat /\ got = out + Available /\ got' = got /\ out' = out
      BY <1>1, <1>3, <3>1 DEF Intact, TcpTypes
    <3>3. Len(buffer) <= BufferSize /\ BufferSize \in Nat
      BY <1>1, TcpAssumption DEF TcpTypes
    <3> QED BY <2>2, <3>1, <3>2, <3>3 DEF Intact
  <2> QED BY <1>1, <2>1, <2>2
<1>5. CASE Available < n
  <2>1. call' = [call EXCEPT ![u] = r] /\ readers' = Append(readers, u) /\ peeked' = peeked
    BY <1>5 DEF Peek
  <2>2. r \in CallType /\ r.pc = "lock" /\ r.op = "peek"
    BY TcpAssumption DEF CallType
  <2>3. ~ Reads(call[u])
    BY <1>1 DEF Reads
  <2> HIDE DEF r
  <2>4. LockInv' /\ call' \in [Users -> CallType]
    BY <1>1, <2>1, <2>2, <2>3, LockEnters
  <2>5. PeekedWell'
    BY <1>3, <2>1 DEF PeekedWell
  <2>6. BytesInv'
    BY <1>1, <1>2, <1>4, <2>1, <2>2, <2>5, Settled
  <2>7. TcpTypes'
    BY <1>1, <1>4, <2>1, <2>4 DEF TcpTypes
  <2> QED BY <2>4, <2>6, <2>7 DEF TcpInv
<1>6. CASE ~ (Available < n)
  <2>1. /\ UNCHANGED <<call, readers>>
        /\ peeked' = [at |-> out, bytes |-> SubSeq(Buffered, 1, n)]
    BY <1>6 DEF Peek
  <2>2. n \in Nat /\ n <= Available
    BY <1>1, <1>6, TcpAssumption, BufferedProps
  <2>3. PeekedWell' /\ peeked' \in [at : Nat, bytes : Seq(Nat)]
    BY <1>1, <1>3, <2>1, <2>2, Shows
  <2>4. BytesInv'
    BY <1>2, <1>4, <2>1, <2>3 DEF BytesInv, PeekedWell
  <2>5. TcpTypes' /\ LockInv'
    BY <1>1, <1>4, <2>1, <2>3 DEF TcpTypes, LockInv
  <2> QED BY <2>4, <2>5 DEF TcpInv
<1> QED BY <1>5, <1>6

\* The call of a coroutine that is not in one.
LEMMA IdleCall == Idle \in CallType /\ Idle.pc = "idle"
BY DEF Idle, CallType

\* What a call has.
LEMMA CallHas ==
  ASSUME TcpTypes, NEW u \in Users
  PROVE  call[u] \in CallType /\ call[u].left \in Nat
<1>1. call[u] \in CallType
  BY DEF TcpTypes
<1> QED BY <1>1 DEF CallType

\* The step of one action each: the mutex is got.
LEMMA LockedStep == ASSUME TcpInv, NEW u \in Users, Locked(u) PROVE TcpInv'
<1> DEFINE r == [call[u] EXCEPT !.pc = "copy"]
<1>1. /\ TcpTypes /\ LockInv /\ BytesInv /\ fate = "ok" /\ call[u].pc = "lock"
      /\ call' = [call EXCEPT ![u] = r]
      /\ UNCHANGED <<sent, got, eof, buffer, offset, readers, out, peeked, fate>>
  BY DEF Locked, TcpInv, peerVars
<1>2. call[u] \in CallType /\ call[u].left \in Nat
  BY <1>1, CallHas
<1>5. r \in CallType /\ r.pc = "copy" /\ r.op = call[u].op
  BY <1>1, <1>2 DEF CallType
<1> HIDE DEF r
<1>6. Reads(r) <=> Reads(call[u])
  BY <1>1, <1>5 DEF Reads
<1>7. ASSUME Inside(r) PROVE readers[1] = u
  <2>1. call[u].op # "write"
    BY <1>5, <1>7 DEF Inside
  <2>2. Has(readers, u) /\ readers \in Seq(Users)
    BY <1>1, <2>1 DEF LockInv, Reads
  <2>3. readers # <<>>
    BY <2>2 DEF Has
  <2>4. u = Head(readers)
    BY <2>1 DEF Locked
  <2> QED BY <2>2, <2>3, <2>4
<1>8. LockInv' /\ call' \in [Users -> CallType]
  BY <1>1, <1>5, <1>6, <1>7, LockStays
<1>9. PeekedWell'
  BY <1>1 DEF BytesInv, PeekedWell
<1>10. BytesInv'
  BY <1>1, <1>5, <1>9, BytesStay
<1>11. TcpTypes'
  BY <1>1, <1>8 DEF TcpTypes
<1> QED BY <1>8, <1>10, <1>11 DEF TcpInv

\* The first n bytes of the buffer are given out.
LEMMA GivesOut ==
  ASSUME TcpTypes, Intact(Len(buffer)), NEW n \in Nat, n <= Available,
         offset' = offset + n, out' = out + n, UNCHANGED <<buffer, got>>
  PROVE  Intact(Len(buffer))' /\ offset' \in 0 .. Len(buffer) /\ out' \in Nat
<1>1. /\ Len(buffer) \in Nat /\ offset \in Nat /\ Available = Len(buffer) - offset
      /\ out \in Nat /\ got \in Nat
  BY BufferedProps DEF TcpTypes
<1>2. \A i \in offset + 1 .. Len(buffer) : buffer[i] = out + (i - offset)
  BY DEF Intact
<1>3. got = out + (Len(buffer) - offset)
  BY DEF Intact
<1>4. \A i \in offset' + 1 .. Len(buffer) : buffer[i] = out' + (i - offset')
  BY <1>1, <1>2
<1> QED BY <1>1, <1>3, <1>4 DEF Intact

\* A reader that has been given bytes of the buffer returns.
LEMMA Returns ==
  ASSUME TcpInv, fate = "ok", NEW u \in Users, call[u].pc = "copy", call[u].op # "write",
         NEW n \in Nat, n <= Available, Done(u),
         offset' = offset + n, out' = out + n, UNCHANGED <<peerVars, buffer, peeked>>
  PROVE  TcpInv'
<1>1. /\ \A v \in Users \ {u} : call[v].pc \notin {"fill", "direct", "peek"}
      /\ Intact(Len(buffer)) /\ PeekedWell
      /\ TcpTypes /\ LockInv
      /\ UNCHANGED <<sent, got, eof>>
      /\ call' = [call EXCEPT ![u] = Idle] /\ readers' = Without(readers, u)
  BY Copies DEF TcpInv, Done, peerVars
<1>2. Intact(Len(buffer))' /\ offset' \in 0 .. Len(buffer) /\ out' \in Nat
  BY <1>1, GivesOut
<1>3. LockInv' /\ call' \in [Users -> CallType]
  BY <1>1, LockLeaves
<1>4. PeekedWell'
  BY <1>1 DEF PeekedWell
<1>5. BytesInv'
  BY <1>1, <1>2, <1>4, IdleCall, Settled
<1>6. TcpTypes'
  BY <1>1, <1>2, <1>3 DEF TcpTypes
<1> QED BY <1>3, <1>5, <1>6 DEF TcpInv

\* A reader has been given all of the buffer, and asks the kernel for more, past it
\* or into the buffer.
LEMMA Fills ==
  ASSUME TcpInv, fate = "ok", NEW u \in Users, call[u].pc = "copy", call[u].op # "write",
         NEW left \in Nat, NEW pc \in {"fill", "direct"}, Fill(u, left, pc),
         out' = out + Available, UNCHANGED <<peerVars, peeked, fate>>
  PROVE  TcpInv'
<1> DEFINE r == [call[u] EXCEPT !.left = left, !.pc = pc]
<1>1. /\ \A v \in Users \ {u} : call[v].pc \notin {"fill", "direct", "peek"}
      /\ Intact(Len(buffer)) /\ PeekedWell
      /\ TcpTypes /\ LockInv
      /\ UNCHANGED <<sent, got, eof, readers>>
      /\ call' = [call EXCEPT ![u] = r]
  BY Copies DEF TcpInv, Fill, peerVars
<1>2. r \in CallType /\ r.pc = pc /\ r.op = call[u].op
  <2>1. call[u] \in CallType
    BY <1>1, CallHas
  <2> QED BY <2>1 DEF CallType
<1> HIDE DEF r
<1>3. Reads(r) /\ Reads(call[u]) /\ Inside(r) /\ Inside(call[u]) /\ r.op # "write"
  BY <1>2 DEF Reads, Inside
<1>4. LockInv' /\ call' \in [Users -> CallType]
  <2>1. readers[1] = u
    BY <1>1, <1>3 DEF LockInv
  <2> QED BY <1>1, <1>2, <1>3, <2>1, LockStays
<1>5. /\ Available \in Nat /\ Len(buffer) \in Nat /\ Available = Len(buffer) - offset
      /\ out \in Nat /\ BufferSize \in Nat
  BY <1>1, BufferedProps, TcpAssumption DEF TcpTypes
<1>6. got' = out' /\ out' \in Nat
  BY <1>1, <1>5 DEF Intact
<1>7. call'[u] = r /\ \A v \in Users \ {u} : call'[v].pc \notin {"fill", "direct", "peek"}
  BY <1>1 DEF TcpTypes
<1>8. PeekedWell'
  BY <1>1 DEF PeekedWell
<1>9. CASE pc = "fill"
  <2>1. buffer' = [i \in 1 .. BufferSize |-> 0] /\ offset' = 0
    BY <1>9 DEF Fill
  <2>2. buffer' \in Seq(Nat) /\ Len(buffer') = BufferSize
    BY <1>5, <2>1
  <2>3. Intact(0)'
    BY <1>5, <1>6, <2>1, <2>2 DEF Intact
  <2>4. BytesInv'
    BY <1>2, <1>7, <1>8, <1>9, <2>1, <2>3 DEF BytesInv, PeekedWell
  <2>5. TcpTypes'
    BY <1>1, <1>4, <1>5, <1>6, <2>1, <2>2 DEF TcpTypes
  <2> QED BY <1>4, <2>4, <2>5 DEF TcpInv
<1>10. CASE pc = "direct"
  <2>1. offset' = Len(buffer) /\ buffer' = buffer
    BY <1>10 DEF Fill
  <2>2. Intact(Len(buffer))'
    BY <1>5, <1>6, <2>1 DEF Intact
  <2>4. BytesInv'
    BY <1>2, <1>7, <1>8, <1>10, <2>1, <2>2 DEF BytesInv, PeekedWell
  <2>5. TcpTypes'
    BY <1>1, <1>4, <1>5, <1>6, <2>1 DEF TcpTypes
  <2> QED BY <1>4, <2>4, <2>5 DEF TcpInv
<1> QED BY <1>9, <1>10

\* read() copies what is there.
LEMMA ReadCopyStep == ASSUME TcpInv, NEW u \in Users, ReadCopy(u) PROVE TcpInv'
<1> DEFINE n == Smaller(call[u].left, Available)
           left == call[u].left - n
<1>1. /\ TcpTypes /\ fate = "ok" /\ call[u].pc = "copy" /\ call[u].op # "write"
      /\ out' = out + n /\ UNCHANGED <<peerVars, peeked, fate>>
  BY DEF TcpInv, ReadCopy
<1>2. call[u].left \in Nat /\ Available \in Nat
  BY <1>1, CallHas, BufferedProps
<1>3. n \in Nat /\ n <= Available /\ left \in Nat /\ (left # 0 => n = Available)
  BY <1>2 DEF Smaller
<1>4. CASE left = 0
  <2>1. Done(u) /\ offset' = offset + n /\ UNCHANGED buffer
    BY <1>4 DEF ReadCopy
  <2> HIDE DEF n, left
  <2> QED BY <1>1, <1>3, <2>1, Returns DEF TcpInv
<1>5. CASE left # 0
  <2>1. PICK pc \in {"fill", "direct"} : Fill(u, left, pc)
    BY <1>5 DEF ReadCopy
  <2> HIDE DEF n, left
  <2> QED BY <1>1, <1>3, <1>5, <2>1, Fills DEF TcpInv
<1> QED BY <1>4, <1>5

\* read_until() copies up to the delimiter.
LEMMA UntilCopyStep == ASSUME TcpInv, NEW u \in Users, UntilCopy(u) PROVE TcpInv'
<1> DEFINE hits == {i \in 1 .. Available : Buffered[i] \in Delims}
           n == CHOOSE i \in hits : \A j \in hits : i <= j
<1>1. /\ TcpTypes /\ LockInv /\ fate = "ok" /\ call[u].pc = "copy" /\ call[u].op # "write"
      /\ UNCHANGED <<peerVars, peeked>>
  BY DEF TcpInv, UntilCopy
<1>2. Available \in Nat /\ call[u].left \in Nat
  BY <1>1, BufferedProps, CallHas
<1>3. CASE Available = 0
  <2>1. Fill(u, call[u].left, "fill") /\ UNCHANGED <<out, fate>>
    BY <1>3 DEF UntilCopy
  <2>2. out' = out + Available
    BY <1>1, <1>3, <2>1 DEF TcpTypes
  <2> QED BY <1>1, <1>2, <2>1, <2>2, Fills
<1>4. CASE Available # 0 /\ hits = {}
  <2>1. fate' = "overrun" /\ UNCHANGED <<buffer, offset, readers, writers, cpu, call, out>>
    BY <1>4 DEF UntilCopy
  <2> QED BY <1>1, <2>1 DEF TcpInv, TcpTypes, LockInv, peerVars
<1>5. CASE Available # 0 /\ hits # {}
  <2>1. out' = out + n /\ offset' = offset + n /\ Done(u) /\ UNCHANGED <<buffer, fate>>
    BY <1>5 DEF UntilCopy
  <2>2. hits \subseteq Nat
    BY <1>2
  <2> HIDE DEF hits
  <2>3. n \in hits
    BY <1>5, <2>2, Least
  <2>4. n \in Nat /\ n <= Available
    BY <1>2, <2>3 DEF hits
  <2> HIDE DEF n
  <2> QED BY <1>1, <2>1, <2>4, Returns DEF TcpInv
<1> QED BY <1>3, <1>4, <1>5

\* peek() shows the bytes, or makes room for more.
LEMMA PeekCopyStep == ASSUME TcpInv, NEW u \in Users, PeekCopy(u) PROVE TcpInv'
<1>1. /\ TcpTypes /\ LockInv /\ fate = "ok" /\ call[u].pc = "copy" /\ call[u].op = "peek"
      /\ UNCHANGED <<sent, got, eof, offset, out, fate>>
      /\ Inside(call[u]) /\ Reads(call[u])
  BY DEF TcpInv, PeekCopy, peerVars, Inside, Reads
<1>2. /\ \A v \in Users \ {u} : call[v].pc \notin {"fill", "direct", "peek"}
      /\ Intact(Len(buffer)) /\ PeekedWell
  BY <1>1, Copies
<1>3. /\ call[u].left \in Nat /\ Available \in Nat /\ Available = Len(buffer) - offset
      /\ Len(buffer) \in Nat /\ buffer \in Seq(Nat)
      /\ BufferSize \in Nat /\ Len(buffer) <= BufferSize
  BY <1>1, CallHas, BufferedProps, TcpAssumption DEF TcpTypes
<1>4. CASE Available < call[u].left
  <2>a. PICK r : r = [op |-> "peek", left |-> call[u].left, pc |-> "peek", old |-> Len(buffer)]
    OBVIOUS
  <2> DEFINE more == [i \in 1 .. BufferSize - Len(buffer) |-> 0]
  <2>1. /\ call' = [call EXCEPT ![u] = r]
        /\ buffer' = buffer \o more
        /\ UNCHANGED <<readers, peeked>>
    BY <1>4, <2>a DEF PeekCopy, Stretched
  <2>2. r \in CallType /\ r.pc = "peek" /\ r.op = "peek" /\ r.old = Len(buffer)
    BY <1>3, <2>a DEF CallType
  <2>3. more \in Seq(Nat) /\ Len(more) = BufferSize - Len(buffer)
    BY <1>3
  <2> HIDE DEF more
  <2>4. /\ buffer' \in Seq(Nat) /\ Len(buffer') = BufferSize
        /\ \A i \in 1 .. Len(buffer) : buffer'[i] = buffer[i]
    <3>1. /\ buffer \o more \in Seq(Nat)
          /\ Len(buffer \o more) = Len(buffer) + Len(more)
          /\ \A i \in 1 .. Len(buffer) + Len(more) :
               (buffer \o more)[i] = IF i <= Len(buffer) THEN buffer[i] ELSE more[i - Len(buffer)]
      BY <1>3, <2>3, ConcatProperties, Zenon
    <3>2. 1 .. Len(buffer) \subseteq 1 .. Len(buffer) + Len(more)
      BY <1>3, <2>3
    <3>3. \A i \in 1 .. Len(buffer) : i <= Len(buffer)
      OBVIOUS
    <3> QED BY <1>3, <2>1, <2>3, <3>1, <3>2, <3>3
  <2>5. LockInv' /\ call' \in [Users -> CallType]
    <3>1. Reads(r) /\ readers[1] = u
      BY <1>1, <2>2 DEF Reads, LockInv
    <3> QED BY <1>1, <2>1, <2>2, <3>1, LockStays
  <2>6. Intact(r.old)'
    <3>1. r.old \in offset .. Len(buffer) /\ offset \in Nat
      BY <1>1, <1>3, <2>2 DEF TcpTypes
    <3>2. \A i \in offset + 1 .. Len(buffer) : buffer'[i] = out + (i - offset)
      <4>1. \A i \in offset + 1 .. Len(buffer) : buffer[i] = out + (i - offset)
        BY <1>2 DEF Intact
      <4>2. offset + 1 .. Len(buffer) \subseteq 1 .. Len(buffer)
        BY <1>3, <3>1
      <4> QED BY <2>4, <4>1, <4>2
    <3>3. got = out + (Len(buffer) - offset)
      BY <1>2 DEF Intact
    <3>4. r.old \in offset .. Len(buffer')
      BY <1>3, <2>4, <3>1
    <3> QED BY <1>1, <2>2, <2>1, <3>2, <3>3, <3>4 DEF Intact
  <2>7. call'[u] = r /\ \A v \in Users \ {u} : call'[v].pc \notin {"fill", "direct", "peek"}
    BY <1>1, <1>2, <2>1 DEF TcpTypes
  <2>8. PeekedWell'
    BY <1>2, <2>1 DEF PeekedWell
  <2>9. BytesInv'
    BY <2>2, <2>4, <2>6, <2>7, <2>8 DEF BytesInv, PeekedWell
  <2>10. TcpTypes'
    BY <1>1, <1>3, <2>1, <2>4, <2>5 DEF TcpTypes
  <2> QED BY <2>5, <2>9, <2>10 DEF TcpInv
<1>5. CASE ~ (Available < call[u].left)
  <2>1. /\ call' = [call EXCEPT ![u] = Idle] /\ readers' = Without(readers, u)
        /\ peeked' = [at |-> out, bytes |-> SubSeq(Buffered, 1, call[u].left)]
        /\ buffer' = buffer
    BY <1>5 DEF PeekCopy, Done
  <2>a. PICK n \in Nat : n = call[u].left
    BY <1>3
  <2>b. n <= Available /\ peeked' = [at |-> out, bytes |-> SubSeq(Buffered, 1, n)]
    BY <1>3, <1>5, <2>1, <2>a
  <2>2. PeekedWell' /\ peeked' \in [at : Nat, bytes : Seq(Nat)]
    BY <1>1, <1>2, <2>b, Shows
  <2>3. LockInv' /\ call' \in [Users -> CallType]
    BY <1>1, <2>1, LockLeaves
  <2>4. Intact(Len(buffer))'
    BY <1>1, <1>2, <2>1 DEF Intact
  <2>5. BytesInv'
    BY <1>1, <1>2, <2>1, <2>2, <2>4, IdleCall, Settled
  <2>6. TcpTypes'
    BY <1>1, <2>1, <2>2, <2>3 DEF TcpTypes
  <2> QED BY <2>3, <2>5, <2>6 DEF TcpInv
<1> QED BY <1>4, <1>5

\* A read() that finds no bytes waits for the socket, and changes nothing.
LEMMA ReadBlocksStep == ASSUME TcpInv, NEW u \in Users, ReadBlocks(u) PROVE TcpInv'
BY DEF ReadBlocks, TcpInv, TcpTypes, LockInv, BytesInv, Intact, peerVars

\* The bytes the kernel gives.
LEMMA FromKernelProps ==
  ASSUME TcpTypes, NEW n \in Nat
  PROVE  /\ FromKernel(n) \in Seq(Nat) /\ Len(FromKernel(n)) = n
         /\ \A i \in 1 .. n : FromKernel(n)[i] = got + i
BY DEF FromKernel, TcpTypes

\* The kernel gives bytes: into the buffer, behind what is there, or to the caller.
LEMMA ReadReturnsStep == ASSUME TcpInv, NEW u \in Users, ReadReturns(u) PROVE TcpInv'
<1> DEFINE n == Smaller(sent - got, Room(u))
<1>1. /\ TcpTypes /\ LockInv /\ BytesInv /\ fate = "ok" /\ call[u].pc \in {"fill", "direct", "peek"}
      /\ got' = got + n
      /\ UNCHANGED <<sent, eof, offset, readers, writers, peeked>>
      /\ call[u] \in CallType /\ call[u].op # "write"
  <2>1. call[u] \in CallType /\ (call[u].pc \in {"fill", "direct"} => call[u].op # "write")
    BY DEF TcpInv, TcpTypes, LockInv
  <2> QED BY <2>1 DEF TcpInv, ReadReturns, CallType
<1>2. Reads(call[u]) /\ Inside(call[u]) /\ readers[1] = u
  BY <1>1 DEF Reads, Inside, LockInv
<1>3. \A v \in Users \ {u} : call[v].pc \notin {"fill", "direct", "peek"}
  BY <1>1, <1>2, OneReader
<1>4. PeekedWell /\ PeekedWell'
  BY <1>1 DEF BytesInv, PeekedWell
<1>5. /\ sent \in Nat /\ got \in Nat /\ out \in Nat /\ got <= sent
      /\ buffer \in Seq(Nat) /\ Len(buffer) \in Nat /\ Len(buffer) <= BufferSize
      /\ offset \in Nat /\ offset <= Len(buffer) /\ BufferSize \in Nat
      /\ call[u].left \in Nat
  BY <1>1, CallHas, TcpAssumption DEF TcpTypes
<1>6. call[u].pc = "peek" => Len(buffer) = BufferSize /\ Intact(call[u].old) /\ call[u].old \in Nat
  BY <1>1 DEF BytesInv, CallType
<1>7. Room(u) \in Nat
  BY <1>1, <1>5, <1>6, SMTT(40) DEF Room, Intact
<1>8. n \in Nat /\ got' \in Nat /\ got' <= sent' /\ n <= Room(u)
  BY <1>1, <1>5, <1>7 DEF Smaller
<1>9. CASE n = 0
  <2>1. fate' = "hung" /\ UNCHANGED <<buffer, call, out>>
    BY <1>9 DEF ReadReturns
  <2>2. TcpTypes' /\ LockInv'
    BY <1>1, <1>8, <2>1 DEF TcpTypes, LockInv
  <2> QED BY <2>1, <2>2 DEF TcpInv
<1>10. ASSUME NEW r \in CallType, call' = [call EXCEPT ![u] = r], r.pc = "copy", r.op = call[u].op,
              buffer' \in Seq(Nat), Len(buffer') <= BufferSize, offset \in 0 .. Len(buffer'), out' \in Nat,
              Intact(Len(buffer))'
       PROVE  TcpInv'
  <2>1. Reads(r) /\ (Inside(r) => readers[1] = u) /\ r.pc \notin {"fill", "direct", "peek"}
    BY <1>1, <1>2, <1>10 DEF Reads
  <2>2. LockInv' /\ call' \in [Users -> CallType]
    BY <1>1, <1>2, <1>10, <2>1, LockStays
  <2>3. BytesInv'
    BY <1>1, <1>3, <1>4, <1>10, <2>1, Settled
  <2>4. TcpTypes'
    BY <1>1, <1>8, <1>10, <2>2 DEF TcpTypes
  <2> QED BY <2>2, <2>3, <2>4 DEF TcpInv
<1>11. CASE n # 0 /\ call[u].pc = "fill"
  <2>1. PICK r : r = [call[u] EXCEPT !.pc = "copy"]
    OBVIOUS
  <2>2. r \in CallType /\ r.pc = "copy" /\ r.op = call[u].op
    BY <1>1, <1>11, <2>1 DEF CallType
  <2>3. call' = [call EXCEPT ![u] = r] /\ buffer' = FromKernel(n) /\ out' = out
    BY <1>11, <2>1 DEF ReadReturns
  <2>4. offset = 0 /\ got = out /\ n <= BufferSize
    BY <1>1, <1>5, <1>8, <1>11 DEF BytesInv, Intact, Room
  <2> HIDE DEF n
  <2>5. buffer' \in Seq(Nat) /\ Len(buffer') = n /\ \A i \in 1 .. n : buffer'[i] = got + i
    BY <1>1, <1>8, <2>3, FromKernelProps
  <2>6. Intact(Len(buffer))'
    BY <1>1, <1>5, <1>8, <2>3, <2>4, <2>5 DEF Intact
  <2>7. Len(buffer') <= BufferSize /\ out' \in Nat /\ offset \in 0 .. Len(buffer')
    BY <1>5, <1>8, <2>3, <2>4, <2>5
  <2> QED BY <1>10, <2>2, <2>3, <2>5, <2>6, <2>7
<1>12. CASE n # 0 /\ call[u].pc = "peek"
  <2>1. PICK r : r = [op |-> "peek", left |-> call[u].left, pc |-> "copy"]
    OBVIOUS
  <2>2. r \in CallType /\ r.pc = "copy" /\ r.op = call[u].op
    BY <1>1, <1>5, <1>12, <2>1 DEF CallType
  <2> DEFINE e == call[u].old
             front == SubSeq(buffer, 1, e)
  <2>3. call' = [call EXCEPT ![u] = r] /\ buffer' = front \o FromKernel(n) /\ out' = out
    BY <1>12, <2>1 DEF ReadReturns
  <2>4. /\ e \in Nat /\ offset <= e /\ e <= Len(buffer) /\ got = out + (e - offset)
        /\ n <= BufferSize - e
        /\ \A i \in offset + 1 .. e : buffer[i] = out + (i - offset)
    BY <1>5, <1>6, <1>8, <1>12 DEF Intact, Room
  <2> HIDE DEF n, e
  <2>5. front \in Seq(Nat) /\ Len(front) = e /\ \A i \in 1 .. e : front[i] = buffer[i]
    BY <1>5, <2>4, SubSeqProperties, SMTT(40)
  <2>6. FromKernel(n) \in Seq(Nat) /\ Len(FromKernel(n)) = n /\ \A i \in 1 .. n : FromKernel(n)[i] = got + i
    BY <1>1, <1>8, FromKernelProps
  <2> HIDE DEF front
  <2>7. /\ buffer' \in Seq(Nat) /\ Len(buffer') = Len(front) + Len(FromKernel(n))
        /\ \A i \in 1 .. Len(front) + Len(FromKernel(n)) :
             buffer'[i] = IF i <= Len(front) THEN front[i] ELSE FromKernel(n)[i - Len(front)]
    BY <2>3, <2>5, <2>6, ConcatProperties, ZenonT(60)
  <2>8. ASSUME NEW i \in offset + 1 .. e + n PROVE buffer'[i] = out + (i - offset)
    <3>1. i \in 1 .. e + n
      BY <1>5, <1>8, <2>4
    <3>2. CASE i <= e
      <4>1. i \in 1 .. e /\ i \in offset + 1 .. e
        BY <1>5, <2>4, <3>1, <3>2
      <4> QED BY <2>4, <2>5, <2>6, <2>7, <3>1, <3>2, <4>1
    <3>3. CASE ~ (i <= e)
      <4>a. got = out + (e - offset) /\ out \in Nat /\ offset \in Nat /\ e \in Nat
        BY <1>5, <2>4
      <4>1. i - e \in 1 .. n /\ got + (i - e) = out + (i - offset)
        BY <4>a, <1>8, <3>1, <3>3
      <4>2. buffer'[i] = FromKernel(n)[i - e]
        BY <2>5, <2>6, <2>7, <3>1, <3>3
      <4> QED BY <2>6, <4>1, <4>2
    <3> QED BY <3>2, <3>3
  <2>9. Len(buffer') = e + n /\ got' = got + n
    BY <1>1, <2>5, <2>6, <2>7 DEF n
  <2>10. Intact(Len(buffer))'
    BY <1>1, <1>5, <1>8, <2>3, <2>4, <2>8, <2>9 DEF Intact
  <2>11. Len(buffer') <= BufferSize /\ out' \in Nat /\ offset \in 0 .. Len(buffer')
    BY <1>5, <1>8, <2>3, <2>4, <2>9
  <2> QED BY <1>10, <2>2, <2>3, <2>7, <2>10, <2>11
<1>13. CASE n # 0 /\ call[u].pc = "direct"
  <2> DEFINE r == [call[u] EXCEPT !.left = call[u].left - n, !.pc = "copy"]
  <2>2. n <= call[u].left
    BY <1>8, <1>13 DEF Room
  <2>3. call' = [call EXCEPT ![u] = r] /\ buffer' = buffer /\ out' = out + n
    <3>1. call[u].pc # "fill" /\ call[u].pc # "peek"
      BY <1>13
    <3>2. buffer' = buffer /\ out' = out + n
      BY <1>13 DEF ReadReturns
    <3>3. call' = [call EXCEPT ![u] = r]
      <4>1. call' = [call EXCEPT ![u].left = @ - n, ![u].pc = "copy"]
        BY <1>13, <3>1 DEF ReadReturns
      <4> HIDE DEF n
      <4> QED BY <1>1, <4>1 DEF TcpTypes
    <3> QED BY <3>2, <3>3
  <2> HIDE DEF n
  <2>4. call[u].left - n \in Nat
    BY <1>5, <1>8, <2>2
  <2>5. r \in CallType /\ r.pc = "copy" /\ r.op = call[u].op
    BY <1>1, <1>13, <2>4 DEF CallType
  <2> HIDE DEF r
  <2>6. /\ Intact(Len(buffer)) /\ offset = Len(buffer)
    <3>1. \A v \in Users : call[v].pc \notin {"fill", "peek"}
      BY <1>3, <1>13
    <3> QED BY <1>1, <1>13, <3>1 DEF BytesInv
  <2>7. got' = got + n
    BY <1>1 DEF n
  <2>8. Intact(Len(buffer))'
    BY <1>1, <1>5, <1>8, <2>3, <2>6, <2>7 DEF Intact
  <2>9. out' \in Nat /\ offset \in 0 .. Len(buffer')
    BY <1>5, <1>8, <2>3
  <2> QED BY <1>5, <1>10, <2>3, <2>5, <2>8, <2>9
<1> QED BY <1>1, <1>9, <1>11, <1>12, <1>13

\* A call that has nothing pending in the buffer returns, or is interrupted.
LEMMA LeavesAlone ==
  ASSUME TcpInv, fate = "ok", NEW u \in Users, call[u].pc \notin {"fill", "peek"}, Done(u),
         UNCHANGED <<peerVars, buffer, offset, out, peeked>>
  PROVE  TcpInv'
<1>1. /\ TcpTypes /\ LockInv /\ BytesInv
      /\ call' = [call EXCEPT ![u] = Idle] /\ readers' = Without(readers, u)
      /\ UNCHANGED <<sent, got, eof>>
  BY DEF TcpInv, Done, peerVars
<1>2. LockInv' /\ call' \in [Users -> CallType]
  BY <1>1, LockLeaves
<1>3. PeekedWell'
  BY <1>1 DEF BytesInv, PeekedWell
<1>4. BytesInv'
  BY <1>1, <1>3, IdleCall, BytesStay
<1>5. TcpTypes'
  BY <1>1, <1>2 DEF TcpTypes
<1> QED BY <1>2, <1>4, <1>5 DEF TcpInv

\* write() and the buffer have nothing in common.
LEMMA WriteStepKeeps == ASSUME TcpInv, NEW u \in Users, WriteStep(u) PROVE TcpInv'
<1>1. /\ TcpTypes /\ LockInv /\ BytesInv /\ fate = "ok"
      /\ call[u].op = "write" /\ call[u].pc \in {"copy", "out"}
      /\ UNCHANGED <<peerVars, buffer, offset, out, peeked, fate>>
  BY DEF TcpInv, WriteStep
<1>2. call[u] \in CallType /\ call[u].left \in Nat
  BY <1>1, CallHas
<1>3. PICK n \in 0 .. call[u].left :
        \/ Done(u)
        \/ /\ call' = [call EXCEPT ![u].left = @ - n, ![u].pc = "out"]
           /\ readers' = readers
  BY DEF WriteStep
<1>4. CASE Done(u)
  BY <1>1, <1>4, LeavesAlone
<1>5. CASE call' = [call EXCEPT ![u].left = @ - n, ![u].pc = "out"] /\ readers' = readers
  <2> DEFINE r == [call[u] EXCEPT !.left = call[u].left - n, !.pc = "out"]
  <2>0. call[u].left - n \in Nat
    BY <1>2
  <2>1. r \in CallType /\ r.pc = "out" /\ r.op = "write"
    BY <1>1, <1>2, <2>0 DEF CallType
  <2>2. call' = [call EXCEPT ![u] = r]
    BY <1>1, <1>5 DEF TcpTypes
  <2> HIDE DEF r
  <2>3. ~ Reads(r) /\ ~ Reads(call[u]) /\ ~ Inside(r)
    BY <1>1, <2>1 DEF Reads, Inside
  <2>4. LockInv' /\ call' \in [Users -> CallType]
    BY <1>1, <1>5, <2>1, <2>2, <2>3, LockStays
  <2>5. PeekedWell' /\ UNCHANGED <<sent, got, eof>>
    BY <1>1 DEF BytesInv, PeekedWell, peerVars
  <2>6. BytesInv'
    BY <1>1, <2>1, <2>2, <2>5, BytesStay
  <2>7. TcpTypes'
    BY <1>1, <2>4, <2>5 DEF TcpTypes
  <2> QED BY <2>4, <2>6, <2>7 DEF TcpInv
<1> QED BY <1>3, <1>4, <1>5

\* A call that is interrupted has nothing pending in the buffer.
LEMMA InterruptStep == ASSUME TcpInv, ~ Interrupts, NEW u \in Users, InterruptCall(u) PROVE TcpInv'
BY LeavesAlone DEF InterruptCall

\* The peer sends, or closes.
LEMMA PeerStep == ASSUME TcpInv, Arrive \/ CloseByPeer PROVE TcpInv'
<1>1. /\ TcpTypes /\ LockInv
      /\ UNCHANGED <<got, buffer, offset, readers, call, out, peeked, fate>>
  BY DEF TcpInv, Arrive, CloseByPeer
<1>2. (sent' = sent + 1 \/ sent' = sent) /\ (eof' = eof \/ eof' = TRUE)
  BY DEF Arrive, CloseByPeer
<1>3. TcpTypes' /\ LockInv'
  <2>1. sent \in Nat /\ got \in Nat /\ got <= sent /\ eof \in BOOLEAN
    BY <1>1 DEF TcpTypes
  <2>2. sent' \in Nat /\ got <= sent'
    BY <1>2, <2>1
  <2>3. eof' \in BOOLEAN
    BY <1>2, <2>1
  <2> QED BY <1>1, <2>2, <2>3 DEF TcpTypes, LockInv
<1>4. fate = "ok" /\ BytesInv => BytesInv'
  BY <1>1 DEF BytesInv, Intact
<1> QED BY <1>1, <1>3, <1>4 DEF TcpInv

\* Every step keeps the invariant.
LEMMA TcpStep ==
  ASSUME ~ SharedPeek, ~ Interrupts, TcpInv, [TcpNext]_tcpVars
  PROVE  TcpInv'
<1>1. CASE UNCHANGED tcpVars
  BY <1>1 DEF tcpVars, TcpInv, TcpTypes, LockInv, BytesInv, Intact
<1>2. CASE TcpNext
  BY <1>2, CallStep, PeekStep, LockedStep, ReadCopyStep, UntilCopyStep, PeekCopyStep,
     ReadBlocksStep,
     ReadReturnsStep, WriteStepKeeps, InterruptStep, PeerStep DEF TcpNext
<1> QED BY <1>1, <1>2

\* Initially.
LEMMA TcpInvHolds == TcpInit => TcpInv
<1> SUFFICES ASSUME TcpInit PROVE TcpInv
  OBVIOUS
<1>1. TcpTypes
  <2>1. call \in [Users -> CallType]
    BY IdleCall DEF TcpInit
  <2>2. buffer \in Seq(Nat) /\ Len(buffer) = 0 /\ offset = 0 /\ peeked \in [at : Nat, bytes : Seq(Nat)]
    BY DEF TcpInit, Unseen
  <2>3. sent = 0 /\ got = 0 /\ out = 0 /\ eof = FALSE
    BY DEF TcpInit
  <2>4. BufferSize \in Nat
    BY TcpAssumption
  <2>5. Len(buffer) <= BufferSize /\ offset \in 0 .. Len(buffer)
    BY <2>2, <2>4
  <2>6. sent \in Nat /\ got \in Nat /\ out \in Nat /\ got <= sent
    BY <2>3
  <2>7. eof \in BOOLEAN
    BY <2>3
  <2> QED BY <2>1, <2>2, <2>5, <2>6, <2>7 DEF TcpTypes
<1>2. LockInv
  BY DEF TcpInit, LockInv, Distinct, Has, Reads, Inside, Idle
<1>3. BytesInv
  BY DEF TcpInit, BytesInv, Intact, Idle, Unseen
<1> QED BY <1>1, <1>2, <1>3 DEF TcpInv

\* The invariant gives the property, by what Held is.
LEMMA IntactFromTcpInv == TcpInv => StreamIntact
<1> SUFFICES ASSUME TcpInv, fate = "ok"
             PROVE  /\ Held = [i \in 1 .. Len(Held) |-> out + i]
                    /\ got = out + Len(Held)
                    /\ peeked.bytes = [i \in 1 .. Len(peeked.bytes) |-> peeked.at + i]
  BY DEF StreamIntact
<1>1. TcpTypes /\ LockInv /\ BytesInv
  BY DEF TcpInv
<1>2. peeked.bytes = [i \in 1 .. Len(peeked.bytes) |-> peeked.at + i]
  BY <1>1 DEF TcpTypes, BytesInv
<1>3. /\ Len(buffer) \in Nat /\ offset \in Nat /\ out \in Nat /\ got \in Nat /\ buffer \in Seq(Nat)
      /\ Available \in Nat /\ Available = Len(buffer) - offset
  BY <1>1, BufferedProps DEF TcpTypes
<1>4. CASE Pending("fill") # {}
  <2>1. PICK u \in Users : call[u].pc = "fill"
    BY <1>4 DEF Pending
  <2>2. got = out
    BY <1>1, <1>3, <2>1 DEF BytesInv, Intact
  <2>3. Held = <<>>
    BY <1>4 DEF Held
  <2> QED BY <1>2, <1>3, <2>2, <2>3
<1>5. CASE Pending("fill") = {} /\ Pending("peek") # {}
  <2> DEFINE u == CHOOSE v \in Pending("peek") : TRUE
             e == call[u].old
  <2>1. u \in Users /\ call[u].pc = "peek"
    BY <1>5 DEF Pending
  <2>2. Held = SubSeq(buffer, offset + 1, e)
    BY <1>5 DEF Held
  <2> HIDE DEF u
  <2>3. Intact(e) /\ e \in Nat
    BY <1>1, <2>1 DEF BytesInv, TcpTypes, CallType
  <2> HIDE DEF e
  <2>4. /\ offset <= e /\ e <= Len(buffer) /\ got = out + (e - offset)
        /\ \A i \in offset + 1 .. e : buffer[i] = out + (i - offset)
    BY <1>3, <2>3 DEF Intact
  <2>5. /\ Held \in Seq(Nat) /\ Len(Held) = e - offset
        /\ \A i \in 1 .. e - offset : Held[i] = buffer[offset + i]
    <3>1. \A k \in offset + 1 .. e : buffer[k] \in Nat
      BY <1>3, <2>3, <2>4
    <3>2. e \in Int /\ e - (offset + 1) + 1 = e - offset /\ e - offset \in Nat
      BY <1>3, <2>3, <2>4
    <3> QED BY <1>3, <2>2, <2>3, <2>4, <3>1, <3>2, SubSeqProperties
  <2>6. ASSUME NEW i \in 1 .. Len(Held) PROVE Held[i] = out + i
    <3>1. offset + i \in offset + 1 .. e /\ (offset + i) - offset = i /\ i \in 1 .. e - offset
      BY <1>3, <2>3, <2>4, <2>5
    <3>2. buffer[offset + i] = out + ((offset + i) - offset)
      BY <2>4, <3>1
    <3> QED BY <2>5, <3>1, <3>2
  <2> QED BY <1>2, <2>4, <2>5, <2>6
<1>6. CASE Pending("fill") = {} /\ Pending("peek") = {}
  <2>1. Held = Buffered
    BY <1>6 DEF Held
  <2>2. Intact(Len(buffer))
    BY <1>1, <1>6 DEF BytesInv, Pending
  <2>3. Buffered \in Seq(Nat) /\ Len(Buffered) = Available /\ \A i \in 1 .. Available : Buffered[i] = out + i
    BY <1>1, <2>2, BufferedProps, BufferedNext
  <2>4. got = out + (Len(buffer) - offset)
    BY <2>2 DEF Intact
  <2> QED BY <1>2, <1>3, <2>1, <2>3, <2>4
<1> QED BY <1>4, <1>5, <1>6

\* The bytes that read(), read_until() and peek() give out are those the peer sent,
\* in order, each once: StreamIntact, if peek() is not called while others read and
\* reads into the buffer are not interrupted (tcp.cc:78, 178).
THEOREM StreamIsIntact ==
  ASSUME ~ SharedPeek, ~ Interrupts
  PROVE  IoSpec => []StreamIntact
<1>1. IoInit => TcpInv
  BY TcpInvHolds DEF IoInit
<1>2. TcpInv /\ [IoNext]_ioVars => TcpInv'
  <2>1. [IoNext]_ioVars => [TcpNext]_tcpVars
    BY DEF IoNext, ioVars, OfEvents, OfTcp, OfFiles
  <2> QED BY <2>1, TcpStep
<1> QED BY <1>1, <1>2, IntactFromTcpInv, PTL DEF IoSpec

=============================================================================
