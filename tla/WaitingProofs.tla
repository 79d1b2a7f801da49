----------------------------- MODULE WaitingProofs -----------------------------
(***************************************************************************)
(* The safety of waits for any coroutines, events and depth of nested      *)
(* interruptors.  What the run checks is inductive as a whole, and no part *)
(* of it is: that a wait is decided once needs that only blocked           *)
(* coroutines have items in a list; that the last item decides it needs    *)
(* the count; and that an interruption reaches the wait needs that it went *)
(* through the whole chain.                                                *)
(*                                                                         *)
(* And what coroutines wait for in futures: the safety of promises, for    *)
(* any data, futures and chains of callbacks, and however deep the calls   *)
(* nest.                                                                   *)
(***************************************************************************)
EXTENDS Waiting, Promise, FiniteSums, SequenceTheorems, TLAPS

\* The items of a wait that have not called back.
Pending(c) == {e \in items[c] : c \in waiters[e]}

\* ready() has emptied m_items by the time the coroutine is in the run queue.
DecidedIsEmpty == \A c \in Coros : status[c] = "notified" => items[c] = {}

Inv == WaitsAreOver /\ BlockedCanWake /\ InterruptionSpreads /\ DecidedIsEmpty

-----------------------------------------------------------------------------
\* What the definitions say, in the form the steps use.

LEMMA InvParts ==
  ASSUME Inv, NEW c \in Coros
  PROVE  /\ TypeOK
         /\ notices[c] = IF status[c] = "notified" THEN 1 ELSE 0
         /\ \A e \in Events : c \in waiters[e] => status[c] = "blocked"
         /\ status[c] = "running" => c \notin hooked
         /\ status[c] # "blocked" => items[c] = {}
         /\ status[c] = "blocked" =>
              /\ needed[c] \in 1 .. Cardinality(Pending(c))
              /\ ~ Interrupted(c)
              /\ chain[c] # <<>> => c \in hooked
  BY DEF Inv, WaitsAreOver, NotifiedOnce, NothingLeftBehind, BlockedCanWake, DecidedIsEmpty,
         Pending, TypeOK

LEMMA EventCounts ==
  ASSUME NEW S \in SUBSET Events
  PROVE  IsFiniteSet(S) /\ Cardinality(S) \in Nat /\ Cardinality(S) <= Cardinality(Events)
         /\ Cardinality(Events) \in Nat
  BY FS_Subset, FS_CardinalityType, WaitingAssumption

\* The chain after an event called back keeps its length; every interruptor
\* nested in a triggered one is triggered if that was so before.
LEMMA FiredProps ==
  ASSUME NEW c \in Coros, NEW e \in Events, chain[c] \in Seq(Interruptor)
  PROVE  /\ Fired(c, e) \in Seq(Interruptor)
         /\ Len(Fired(c, e)) = Len(chain[c])
         /\ \A i \in 1 .. Len(chain[c]) :
              Fired(c, e)[i].triggered <=>
                \/ chain[c][i].triggered
                \/ \E j \in 1 .. i : chain[c][j].source = e /\ chain[c][j].registered
<1> DEFINE n == Len(chain[c])
<1>1. n \in Nat /\ DOMAIN chain[c] = 1 .. n /\ \A i \in 1 .. n : chain[c][i] \in Interruptor
  OBVIOUS
<1>2. ASSUME NEW i \in 1 .. n
      PROVE  /\ Fired(c, e)[i] \in Interruptor
             /\ Fired(c, e)[i].triggered <=>
                \/ chain[c][i].triggered
                \/ \E j \in 1 .. i : chain[c][j].source = e /\ chain[c][j].registered
  <2>1. chain[c][i] \in Interruptor
    BY <1>1
  <2> DEFINE r == chain[c][i].registered /\ chain[c][i].source # e
             t == chain[c][i].triggered
                  \/ \E j \in 1 .. i : chain[c][j].source = e /\ chain[c][j].registered
  <2>2. Fired(c, e)[i] = [[chain[c][i] EXCEPT !.registered = r] EXCEPT !.triggered = t]
    BY <1>1, <2>1 DEF Fired, Interruptor
  <2>3. r \in BOOLEAN /\ t \in BOOLEAN
    BY <1>1, <2>1 DEF Interruptor
  <2> HIDE DEF r, t
  <2>4. /\ Fired(c, e)[i] \in Interruptor
        /\ Fired(c, e)[i].triggered = t
    BY <2>1, <2>2, <2>3 DEF Interruptor
  <2> QED
    BY <2>4 DEF t
<1>3. Fired(c, e) = [i \in 1 .. n |-> Fired(c, e)[i]]
  BY <1>1 DEF Fired
<1>4. Fired(c, e) \in [1 .. n -> Interruptor]
  BY <1>2, <1>3
<1>5. Fired(c, e) \in Seq(Interruptor) /\ Len(Fired(c, e)) = n
  BY <1>1, <1>4
<1> QED
  BY <1>2, <1>5

-----------------------------------------------------------------------------
LEMMA InvInit == Init => Inv
<1> SUFFICES ASSUME Init PROVE Inv
  OBVIOUS
<1>1. TypeOK
  <2>1. 0 \in 0 .. Cardinality(Events)
    BY EventCounts
  <2>2. chain \in [Coros -> Seq(Interruptor)]
    BY DEF Init
  <2>3. needed \in [Coros -> 0 .. Cardinality(Events)]
    BY <2>1 DEF Init
  <2> QED
    BY <2>2, <2>3 DEF Init, TypeOK
<1>2. InterruptionSpreads
  BY DEF Init, InterruptionSpreads
<1> QED
  BY <1>1, <1>2 DEF Init, Inv, WaitsAreOver, NotifiedOnce, NothingLeftBehind, BlockedCanWake,
                    DecidedIsEmpty

\* What wait_any and wait_all have in common: total is positive and no more than
\* the items there are.
LEMMA BeginWaitStep ==
  ASSUME Inv, NEW c \in Coros, NEW S \in SUBSET Events,
         NEW total \in 1 .. Cardinality(S), BeginWait(c, total, S),
         total = 1 \/ total = Cardinality(S)
  PROVE  Inv'
<1> DEFINE done == S \cap set
<1>1. /\ TypeOK /\ status[c] = "running"
      /\ c \notin hooked /\ notices[c] = 0 /\ \A e \in Events : c \notin waiters[e]
  BY InvParts DEF BeginWait
<1>2. /\ Cardinality(S) \in Nat /\ Cardinality(done) \in Nat
      /\ Cardinality(S \ done) = Cardinality(S) - Cardinality(done)
      /\ Cardinality(S) <= Cardinality(Events) /\ Cardinality(Events) \in Nat
  <2>1. S \cap done = done
    OBVIOUS
  <2> QED
    BY <2>1, EventCounts, FS_Difference, ZenonT(60)
<1>3. InterruptionSpreads'
  BY DEF Inv, InterruptionSpreads, BeginWait
<1>4. CASE Cardinality(done) >= total \/ Interrupted(c)
  <2>1. /\ UNCHANGED <<alive, set, waiters, chain, status, needed, items, hooked, notices>>
        /\ outcome' \in [Coros -> {"success", "interrupted", "lost"}]
        /\ overrun' \in BOOLEAN
    BY <1>1, <1>4 DEF BeginWait, TypeOK
  <2>2. TypeOK'
    BY <1>1, <2>1 DEF TypeOK
  <2> QED
    BY <1>3, <2>1, <2>2
    DEF Inv, WaitsAreOver, NotifiedOnce, NothingLeftBehind, BlockedCanWake, DecidedIsEmpty,
        Interrupted, Innermost
<1>5. CASE ~ (Cardinality(done) >= total \/ Interrupted(c))
  <2>1. /\ waiters' = [e \in Events |-> IF e \in S \ done THEN waiters[e] \cup {c} ELSE waiters[e]]
        /\ items' = [items EXCEPT ![c] = S]
        /\ needed' = [needed EXCEPT ![c] = total - Cardinality(done)]
        /\ hooked' = IF chain[c] # <<>> THEN hooked \cup {c} ELSE hooked
        /\ status' = [status EXCEPT ![c] = "blocked"]
        /\ notices' = [notices EXCEPT ![c] = 0]
        /\ overrun' \in BOOLEAN
        /\ UNCHANGED <<alive, set, chain, outcome>>
    BY <1>5 DEF BeginWait
  <2>2. total - Cardinality(done) \in 1 .. Cardinality(S \ done)
    BY <1>2, <1>5
  <2>3. TypeOK'
    BY <1>1, <1>2, <2>1, <2>2, SMTT(40) DEF TypeOK
  <2>4. ASSUME NEW d \in Coros
        PROVE  /\ notices'[d] = IF status'[d] = "notified" THEN 1 ELSE 0
               /\ \A e \in Events : d \in waiters'[e] => status'[d] = "blocked"
               /\ status'[d] = "running" => d \notin hooked'
               /\ status'[d] # "blocked" => items'[d] = {}
               /\ status'[d] = "blocked" =>
                    /\ needed'[d] \in 1 .. Cardinality({e \in items'[d] : d \in waiters'[e]})
                    /\ ~ Interrupted(d)'
                    /\ chain'[d] # <<>> => d \in hooked'
    <3>1. CASE d = c
      <4>1. {e \in items'[c] : c \in waiters'[e]} = S \ done
        BY <1>1, <2>1 DEF TypeOK
      <4> QED
        BY <1>1, <1>5, <2>1, <2>2, <3>1, <4>1 DEF TypeOK, Interrupted, Innermost
    <3>2. CASE d # c
      <4>1. {e \in items'[d] : d \in waiters'[e]} = Pending(d)
        BY <1>1, <2>1, <3>2 DEF TypeOK, Pending
      <4> QED
        BY <1>1, <2>1, <3>2, <4>1, InvParts, ZenonT(60) DEF TypeOK, Interrupted, Innermost
    <3> QED
      BY <3>1, <3>2
  <2> QED
    BY <1>3, <2>3, <2>4
    DEF Inv, WaitsAreOver, NotifiedOnce, NothingLeftBehind, BlockedCanWake,
                        DecidedIsEmpty, TypeOK
<1> QED
  BY <1>4, <1>5

LEMMA WaitStep ==
  ASSUME Inv, NEW c \in Coros, NEW S \in SUBSET Events, WaitAny(c, S) \/ WaitAll(c, S)
  PROVE  Inv'
<1>1. Cardinality(S) \in Nat /\ Cardinality(S) # 0
  BY EventCounts, FS_EmptySet DEF WaitAny, WaitAll, BeginWait
<1>2. CASE WaitAny(c, S)
  BY <1>1, <1>2, BeginWaitStep DEF WaitAny
<1>3. CASE WaitAll(c, S)
  BY <1>1, <1>3, BeginWaitStep DEF WaitAll
<1> QED
  BY <1>2, <1>3

LEMMA ResumeStep ==
  ASSUME Inv, NEW c \in Coros, Resume(c)
  PROVE  Inv'
<1>1. TypeOK'
  <2>1. 0 \in 0 .. Cardinality(Events)
    BY EventCounts
  <2> QED
    BY <2>1 DEF Inv, WaitsAreOver, NothingLeftBehind, TypeOK, Resume, eventVars
<1>2. InterruptionSpreads'
  BY DEF Inv, InterruptionSpreads, Resume, eventVars
<1>3. ASSUME NEW d \in Coros
      PROVE  /\ notices'[d] = IF status'[d] = "notified" THEN 1 ELSE 0
             /\ \A e \in Events : d \in waiters'[e] => status'[d] = "blocked"
             /\ status'[d] = "running" => d \notin hooked'
             /\ status'[d] # "blocked" => items'[d] = {}
  BY InvParts DEF Resume, eventVars, TypeOK
<1>4. ASSUME NEW d \in Coros, status'[d] = "blocked"
      PROVE  /\ needed'[d] \in 1 .. Cardinality({e \in items'[d] : d \in waiters'[e]})
             /\ ~ Interrupted(d)'
             /\ chain'[d] # <<>> => d \in hooked'
  <2>1. d # c /\ status[d] = "blocked" /\ needed'[d] = needed[d] /\ hooked' = hooked \ {c}
        /\ UNCHANGED <<waiters, items, chain>>
    BY <1>4, InvParts DEF Resume, eventVars, TypeOK
  <2> QED
    BY <2>1, InvParts DEF Pending, Interrupted, Innermost
<1> QED
  BY <1>1, <1>2, <1>3, <1>4 DEF Inv, WaitsAreOver, NotifiedOnce, NothingLeftBehind,
                                BlockedCanWake, DecidedIsEmpty

\* Nothing happens to a wait when no list of waiters and no chain changes.
LEMMA WaitsUntouched ==
  ASSUME Inv, set' \subseteq set,
         UNCHANGED <<alive, waiters, chain, status, needed, items, hooked, outcome,
                     notices, overrun>>
  PROVE  Inv'
<1>1. WaitsAreOver'
  BY DEF Inv, WaitsAreOver, NotifiedOnce, NothingLeftBehind, TypeOK
<1>2. BlockedCanWake'
  BY DEF Inv, BlockedCanWake, Interrupted, Innermost
<1>3. InterruptionSpreads' /\ DecidedIsEmpty'
  BY DEF Inv, InterruptionSpreads, DecidedIsEmpty
<1> QED
  BY <1>1, <1>2, <1>3 DEF Inv

LEMMA ResetStep ==
  ASSUME Inv, NEW e \in Events, ResetEvent(e)
  PROVE  Inv'
  BY WaitsUntouched DEF ResetEvent, waitVars

\* Decide() on blocked coroutines, with all their items gone from the lists.
LEMMA DecideStep ==
  ASSUME Inv, NEW D \in SUBSET Coros, NEW res, Decide(D, res),
         \A c \in D : status[c] = "blocked",
         \A e \in Events : waiters'[e] \subseteq waiters[e] \ D,
         hooked' \subseteq hooked
  PROVE  \A c \in Coros :
           /\ notices'[c] = IF status'[c] = "notified" THEN 1 ELSE 0
           /\ \A e \in Events : c \in waiters'[e] => status'[c] = "blocked"
           /\ status'[c] = "running" => c \notin hooked'
           /\ status'[c] # "blocked" => items'[c] = {}
  BY InvParts DEF Decide

LEMMA SetStep ==
  ASSUME Inv, NEW e \in Events, SetEvent(e)
  PROVE  Inv'
<1> DEFINE interrupted == {c \in Coros : NowInterrupted(c, e)}
           stopped == {c \in interrupted : status[c] = "blocked"}
           finished == waiters[e] \ stopped
           last == {c \in finished : needed[c] = 1}
           decided == stopped \cup last
           res == [c \in decided |-> IF c \in stopped THEN "interrupted" ELSE "success"]
<1>1. /\ e \in alive /\ set' = set \cup {e} /\ UNCHANGED <<alive, overrun>>
      /\ chain' = [c \in Coros |-> Fired(c, e)]
      /\ hooked' = hooked \ interrupted
      /\ Decide(decided, res)
      /\ needed' = [c \in Coros |-> IF c \in finished THEN needed[c] - 1 ELSE needed[c]]
      /\ waiters' = [f \in Events |-> IF f = e THEN {} ELSE waiters[f] \ decided]
  BY DEF SetEvent
<1>2. TypeOK /\ \A c \in Coros : chain[c] \in Seq(Interruptor)
  BY DEF Inv, WaitsAreOver, NothingLeftBehind, TypeOK
<1>3. /\ finished \in SUBSET Coros
      /\ \A c \in finished : status[c] = "blocked" /\ needed[c] \in Nat \ {0}
  BY <1>2, InvParts, EventCounts DEF TypeOK
<1>4. decided \in SUBSET Coros /\ \A c \in decided : status[c] = "blocked"
  BY <1>3
<1>5. \A c \in Coros : Fired(c, e) \in Seq(Interruptor) /\ Len(Fired(c, e)) = Len(chain[c])
  BY <1>2, FiredProps
<1> HIDE DEF interrupted, res
<1>6. TypeOK'
  <2>1. needed' \in [Coros -> 0 .. Cardinality(Events)]
    BY <1>1, <1>2, <1>3, EventCounts DEF TypeOK
  <2>2. outcome' \in [Coros -> {"success", "interrupted", "lost"}]
    BY <1>1, <1>2 DEF TypeOK, Decide, res
  <2>3. /\ status' \in [Coros -> {"running", "blocked", "notified"}]
        /\ items' \in [Coros -> SUBSET Events] /\ notices' \in [Coros -> Nat]
    BY <1>1, <1>2 DEF TypeOK, Decide
  <2>4. waiters' \in [Events -> SUBSET Coros] /\ hooked' \subseteq Coros
    BY <1>1, <1>2 DEF TypeOK
  <2>5. chain' \in [Coros -> Seq(Interruptor)]
    BY <1>1, <1>5
  <2> QED
    BY <1>1, <1>2, <2>1, <2>2, <2>3, <2>4, <2>5 DEF TypeOK
<1>7. InterruptionSpreads'
  <2> SUFFICES ASSUME NEW c \in Coros, NEW i \in DOMAIN Fired(c, e), NEW j \in DOMAIN Fired(c, e),
                      Fired(c, e)[i].triggered, j >= i
               PROVE  Fired(c, e)[j].triggered
    BY <1>1 DEF InterruptionSpreads
  <2>1. Len(chain[c]) \in Nat /\ i \in 1 .. Len(chain[c]) /\ j \in 1 .. Len(chain[c])
        /\ DOMAIN chain[c] = 1 .. Len(chain[c])
    BY <1>2, <1>5
  <2>2. CASE chain[c][i].triggered
    BY <1>2, <2>1, <2>2, FiredProps DEF Inv, InterruptionSpreads
  <2>3. CASE \E k \in 1 .. i : chain[c][k].source = e /\ chain[c][k].registered
    <3>1. \E k \in 1 .. j : chain[c][k].source = e /\ chain[c][k].registered
      BY <2>1, <2>3
    <3> QED
      BY <1>2, <2>1, <3>1, FiredProps
  <2> QED
    BY <1>2, <2>1, <2>2, <2>3, FiredProps
<1>8. ASSUME NEW c \in Coros, status'[c] = "blocked"
      PROVE  /\ needed'[c] \in 1 .. Cardinality({f \in items'[c] : c \in waiters'[f]})
             /\ ~ Interrupted(c)'
             /\ chain'[c] # <<>> => c \in hooked'
  <2>1. c \notin decided /\ status[c] = "blocked" /\ items'[c] = items[c]
    BY <1>1, <1>2, <1>8 DEF Decide, TypeOK
  <2>2. /\ needed[c] \in 1 .. Cardinality(Pending(c))
        /\ ~ Interrupted(c)
        /\ chain[c] # <<>> => c \in hooked
    BY <2>1, InvParts
  <2>3. c \notin interrupted
    BY <2>1
  <2>4. IsFiniteSet(Pending(c)) /\ Cardinality(Pending(c)) \in Nat
    BY <1>2, EventCounts DEF Pending, TypeOK
  <2>5. {f \in items'[c] : c \in waiters'[f]} = Pending(c) \ {e}
    BY <1>1, <1>2, <2>1 DEF Pending, TypeOK
  <2>6. needed'[c] \in 1 .. Cardinality(Pending(c) \ {e})
    <3>1. Cardinality(Pending(c) \ {e}) = IF e \in Pending(c) THEN Cardinality(Pending(c)) - 1
                                                             ELSE Cardinality(Pending(c))
      BY <2>4, FS_RemoveElement
    <3>2. CASE c \in finished
      <4>1. needed[c] # 1 /\ needed'[c] = needed[c] - 1
        BY <1>1, <2>1, <3>2
      <4> QED
        BY <2>2, <2>4, <3>1, <4>1
    <3>3. CASE c \notin finished
      <4>1. c \notin waiters[e] /\ needed'[c] = needed[c]
        BY <1>1, <2>1, <2>3, <3>3
      <4> QED
        BY <2>2, <2>4, <3>1, <4>1 DEF Pending
    <3> QED
      BY <3>2, <3>3
  <2>7. chain'[c] # <<>> => c \in hooked' /\ ~ Interrupted(c)'
    <3> SUFFICES ASSUME chain'[c] # <<>> PROVE c \in hooked' /\ ~ Interrupted(c)'
      OBVIOUS
    <3>1. chain'[c] = Fired(c, e) /\ Len(Fired(c, e)) = Len(chain[c])
          /\ Fired(c, e) \in Seq(Interruptor)
      BY <1>1, <1>5
    <3>2. chain[c] # <<>>
      BY <1>2, <3>1
    <3>3. c \in hooked /\ c \in hooked' /\ ~ Innermost(c).triggered
      BY <1>1, <2>2, <2>3, <3>2 DEF Interrupted
    <3>4. ~ Fired(c, e)[Len(chain[c])].triggered
      BY <2>3, <3>3 DEF interrupted, NowInterrupted
    <3> QED
      BY <3>1, <3>3, <3>4 DEF Interrupted, Innermost
  <2> QED
    BY <2>5, <2>6, <2>7 DEF Interrupted
<1>9. /\ \A f \in Events : waiters'[f] \subseteq waiters[f] \ decided
      /\ hooked' \subseteq hooked /\ Decide(decided, res)
  BY <1>1
<1> HIDE DEF decided
<1>10. \A c \in Coros :
        /\ notices'[c] = IF status'[c] = "notified" THEN 1 ELSE 0
        /\ \A f \in Events : c \in waiters'[f] => status'[c] = "blocked"
        /\ status'[c] = "running" => c \notin hooked'
        /\ status'[c] # "blocked" => items'[c] = {}
  BY <1>4, <1>9, DecideStep
<1> QED
  BY <1>6, <1>7, <1>8, <1>10
  DEF Inv, WaitsAreOver, NotifiedOnce, NothingLeftBehind, BlockedCanWake, DecidedIsEmpty

LEMMA DestroyStep ==
  ASSUME Inv, NEW e \in Events, DestroyEvent(e)
  PROVE  Inv'
<1> DEFINE decided == waiters[e]
           res == [c \in decided |-> "lost"]
<1>1. /\ alive' = alive \ {e} /\ set' = set \ {e} /\ UNCHANGED <<chain, needed, hooked, overrun>>
      /\ Decide(decided, res)
      /\ waiters' = [f \in Events |-> waiters[f] \ decided]
  BY DEF DestroyEvent
<1>2. TypeOK
  BY DEF Inv, WaitsAreOver, NothingLeftBehind
<1>8. decided \in SUBSET Coros /\ \A c \in decided : status[c] = "blocked"
  BY <1>2, InvParts DEF TypeOK
<1>3. TypeOK'
  <2>1. outcome' \in [Coros -> {"success", "interrupted", "lost"}]
    BY <1>1, <1>2 DEF TypeOK, Decide
  <2> QED
    BY <1>1, <1>2, <2>1 DEF TypeOK, Decide
<1>4. InterruptionSpreads'
  BY <1>1 DEF Inv, InterruptionSpreads
<1>5. ASSUME NEW c \in Coros, status'[c] = "blocked"
      PROVE  /\ needed'[c] \in 1 .. Cardinality({f \in items'[c] : c \in waiters'[f]})
             /\ ~ Interrupted(c)'
             /\ chain'[c] # <<>> => c \in hooked'
  <2>1. c \notin decided /\ status[c] = "blocked" /\ items'[c] = items[c]
    BY <1>1, <1>2, <1>5, <1>8 DEF Decide, TypeOK
  <2>2. {f \in items'[c] : c \in waiters'[f]} = Pending(c)
    BY <1>1, <1>2, <2>1 DEF Pending, TypeOK
  <2> QED
    BY <1>1, <2>1, <2>2, InvParts DEF Interrupted, Innermost
<1>6. /\ \A f \in Events : waiters'[f] \subseteq waiters[f] \ decided
      /\ hooked' \subseteq hooked /\ Decide(decided, res)
  BY <1>1
<1> HIDE DEF decided, res
<1>7. \A c \in Coros :
        /\ notices'[c] = IF status'[c] = "notified" THEN 1 ELSE 0
        /\ \A f \in Events : c \in waiters'[f] => status'[c] = "blocked"
        /\ status'[c] = "running" => c \notin hooked'
        /\ status'[c] # "blocked" => items'[c] = {}
  BY <1>6, <1>8, DecideStep
<1> QED
  BY <1>3, <1>4, <1>5, <1>7
  DEF Inv, WaitsAreOver, NotifiedOnce, NothingLeftBehind, BlockedCanWake, DecidedIsEmpty

\* Interruptors are added and removed by a coroutine that runs, and only at the
\* inner end of its chain.
LEMMA ChainStep ==
  ASSUME Inv, NEW c \in Coros, status[c] = "running", NEW q \in Seq(Interruptor),
         chain' = [chain EXCEPT ![c] = q],
         UNCHANGED <<eventVars, waitVars>>,
         \A i, j \in DOMAIN q : q[i].triggered /\ j >= i => q[j].triggered
  PROVE  Inv'
<1>1. /\ TypeOK
      /\ UNCHANGED <<alive, set, waiters, status, needed, items, hooked, outcome, notices,
                     overrun>>
  BY DEF Inv, WaitsAreOver, NothingLeftBehind, eventVars, waitVars
<1>2. \A d \in Coros : chain'[d] = IF d = c THEN q ELSE chain[d]
  BY <1>1 DEF TypeOK
<1>3. TypeOK'
  BY <1>1, <1>2 DEF TypeOK
<1>4. InterruptionSpreads'
  BY <1>2 DEF Inv, InterruptionSpreads
<1>5. ASSUME NEW d \in Coros, status[d] = "blocked"
      PROVE  (~ Interrupted(d) <=> ~ Interrupted(d)') /\ chain'[d] = chain[d]
  <2>1. d # c
    BY <1>5
  <2> QED
    BY <1>2, <2>1 DEF Interrupted, Innermost
<1> QED
  BY <1>1, <1>3, <1>4, <1>5, ZenonT(60) DEF Inv, WaitsAreOver, NotifiedOnce, NothingLeftBehind,
                                BlockedCanWake, DecidedIsEmpty

LEMMA PushStep ==
  ASSUME Inv, NEW c \in Coros, NEW e \in Events, PushInterruptor(c, e)
  PROVE  Inv'
<1> DEFINE r == [source |-> e, registered |-> e \notin set,
                 triggered |-> e \in set \/ Interrupted(c)]
           q == Append(chain[c], r)
           n == Len(chain[c])
<1>1. /\ status[c] = "running" /\ UNCHANGED <<eventVars, waitVars>>
      /\ chain' = [chain EXCEPT ![c] = q]
  BY DEF PushInterruptor
<1>2. /\ chain[c] \in Seq(Interruptor) /\ n \in Nat /\ DOMAIN chain[c] = 1 .. n
      /\ chain[c] # <<>> => n \in 1 .. n
  BY DEF Inv, WaitsAreOver, NothingLeftBehind, TypeOK
<1>3. r \in Interruptor
  BY DEF Interruptor
<1>4. r.triggered <=> e \in set \/ Interrupted(c)
  OBVIOUS
<1>5. q \in Seq(Interruptor) /\ DOMAIN q = 1 .. n + 1
      /\ q[n + 1] = r /\ \A i \in 1 .. n : q[i] = chain[c][i]
  BY <1>2, <1>3
<1>6. ASSUME NEW i \in DOMAIN q, NEW j \in DOMAIN q, q[i].triggered, j >= i
      PROVE  q[j].triggered
  <2>1. CASE j = n + 1
    <3>1. CASE i = n + 1
      BY <1>6, <2>1, <3>1
    <3>2. CASE i \in 1 .. n
      <4>1. chain[c] # <<>> /\ chain[c][n].triggered
        BY <1>2, <1>5, <1>6, <3>2 DEF Inv, InterruptionSpreads
      <4> QED
        BY <1>4, <1>5, <2>1, <4>1 DEF Interrupted, Innermost
    <3> QED
      BY <1>2, <1>5, <3>1, <3>2
  <2>2. CASE j \in 1 .. n
    <3>1. i \in 1 .. n
      BY <1>2, <1>5, <1>6, <2>2
    <3> QED
      BY <1>2, <1>5, <1>6, <2>2, <3>1 DEF Inv, InterruptionSpreads
  <2> QED
    BY <1>2, <1>5, <2>1, <2>2
<1> HIDE DEF q
<1> QED
  BY <1>1, <1>5, <1>6, ChainStep

LEMMA PopStep ==
  ASSUME Inv, NEW c \in Coros, PopInterruptor(c)
  PROVE  Inv'
<1> DEFINE n == Len(chain[c])
           q == SubSeq(chain[c], 1, n - 1)
<1>1. /\ status[c] = "running" /\ UNCHANGED <<eventVars, waitVars>> /\ chain[c] # <<>>
      /\ chain' = [chain EXCEPT ![c] = q]
  BY DEF PopInterruptor
<1>2. chain[c] \in Seq(Interruptor) /\ n \in Nat /\ DOMAIN chain[c] = 1 .. n /\ n # 0
  BY <1>1 DEF Inv, WaitsAreOver, NothingLeftBehind, TypeOK
<1>3. q \in Seq(Interruptor) /\ DOMAIN q = 1 .. n - 1 /\ \A i \in 1 .. n - 1 : q[i] = chain[c][i]
  BY <1>2, SubSeqProperties
<1> HIDE DEF q
<1>4. \A i, j \in DOMAIN q : q[i].triggered /\ j >= i => q[j].triggered
  BY <1>2, <1>3, SMTT(40) DEF Inv, InterruptionSpreads
<1> QED
  BY <1>1, <1>3, <1>4, ChainStep

-----------------------------------------------------------------------------
LEMMA InvNext == Inv /\ [Next]_vars => Inv'
<1> SUFFICES ASSUME Inv, [Next]_vars PROVE Inv'
  OBVIOUS
<1>1. CASE \E c \in Coros, S \in SUBSET Events : WaitAny(c, S) \/ WaitAll(c, S)
  BY <1>1, WaitStep
<1>2. CASE \E c \in Coros : Resume(c) \/ PopInterruptor(c)
  BY <1>2, ResumeStep, PopStep
<1>3. CASE \E e \in Events : SetEvent(e) \/ ResetEvent(e) \/ DestroyEvent(e)
  BY <1>3, SetStep, ResetStep, DestroyStep
<1>4. CASE \E c \in Coros, e \in Events : PushInterruptor(c, e)
  BY <1>4, PushStep
<1>5. CASE UNCHANGED vars
  <2>1. UNCHANGED <<alive, set, waiters, chain, status, needed, items, hooked, outcome,
                  notices, overrun>>
    BY <1>5 DEF vars, eventVars, waitVars
  <2> QED
    BY <2>1, WaitsUntouched
<1> QED
  BY <1>1, <1>2, <1>3, <1>4, <1>5 DEF Next

\* The inductive invariant holds for any coroutines, events and depth of
\* interruptors (multiple_wait.cc, event.cc, interruptor.cc).
THEOREM WaitingInvariant == Spec => []Inv
<1>1. Init => Inv
  BY InvInit
<1>2. Inv /\ [Next]_vars => Inv'
  BY InvNext
<1> QED
  BY <1>1, <1>2, PTL DEF Spec

\* However many events and interruptors call back, a wait is decided once, and
\* nothing points into the frame of a wait that is over (coro.cc:271,
\* multiple_wait.cc:56-70).
THEOREM WaitingIsOver == Spec => []WaitsAreOver
<1>1. Inv => WaitsAreOver
  BY DEF Inv
<1> QED
  BY <1>1, WaitingInvariant, PTL

\* A blocked coroutine has enough items registered to be woken, and will be told
\* of an interruption (multiple_wait.cc:40-54).
THEOREM WaitingCanWake == Spec => []BlockedCanWake
<1>1. Inv => BlockedCanWake
  BY DEF Inv
<1> QED
  BY <1>1, WaitingInvariant, PTL

\* Whoever is nested in an interrupted interruptor is interrupted
\* (interruptor.cc:61-72, 98-100).
THEOREM WaitingSpreads == Spec => []InterruptionSpreads
<1>1. Inv => InterruptionSpreads
  BY DEF Inv
<1> QED
  BY <1>1, WaitingInvariant, PTL

-----------------------------------------------------------------------------
\* Sequences of calls and of links: what is in them, and how often.

\* Nothing is twice in q.
Once(q, c) == \A i, j \in DOMAIN q : q[i] = c /\ q[j] = c => i = j

\* A link of q leads to the datum e; and no two of them to the same.
Leads(q, e) == \E i \in DOMAIN q : q[i].to = e
Straight(q) == \A i, j \in DOMAIN q : q[i].to = q[j].to => i = j

LEMMA ConcatIndices ==
  ASSUME NEW S, NEW p \in Seq(S), NEW q \in Seq(S)
  PROVE  /\ p \o q \in Seq(S)
         /\ \A i \in DOMAIN p : i \in DOMAIN (p \o q) /\ (p \o q)[i] = p[i]
         /\ \A i \in DOMAIN q :
              i + Len(p) \in DOMAIN (p \o q) /\ (p \o q)[i + Len(p)] = q[i]
         /\ \A i \in DOMAIN (p \o q) :
              \/ i \in DOMAIN p /\ (p \o q)[i] = p[i]
              \/ i - Len(p) \in DOMAIN q /\ (p \o q)[i] = q[i - Len(p)]
         /\ DOMAIN p \subseteq Nat /\ DOMAIN q \subseteq Nat /\ Len(p) \in Nat
         /\ DOMAIN (p \o q) \subseteq Nat
<1>1. /\ p \o q \in Seq(S)
      /\ Len(p \o q) = Len(p) + Len(q)
      /\ \A i \in 1 .. Len(p) + Len(q) :
           (p \o q)[i] = IF i <= Len(p) THEN p[i] ELSE q[i - Len(p)]
  BY ConcatProperties
<1>2. /\ Len(p) \in Nat /\ Len(q) \in Nat
      /\ DOMAIN p = 1 .. Len(p) /\ DOMAIN q = 1 .. Len(q)
      /\ DOMAIN (p \o q) = 1 .. Len(p) + Len(q)
  BY <1>1
<1> DEFINE a == p \o q
           n == Len(p)
           m == Len(q)
<1> HIDE DEF a, n, m
<1>3. /\ \A i \in 1 .. n + m : a[i] = IF i <= n THEN p[i] ELSE q[i - n]
      /\ n \in Nat /\ m \in Nat /\ DOMAIN p = 1 .. n /\ DOMAIN q = 1 .. m
      /\ DOMAIN a = 1 .. n + m
  BY <1>1, <1>2 DEF a, n, m
<1>4. /\ \A i \in DOMAIN p : i \in DOMAIN a /\ a[i] = p[i]
      /\ \A i \in DOMAIN q : i + n \in DOMAIN a /\ a[i + n] = q[i]
  BY <1>3
<1>5. \A i \in DOMAIN a : \/ i \in DOMAIN p /\ a[i] = p[i]
                          \/ i - n \in DOMAIN q /\ a[i] = q[i - n]
  BY <1>3
<1>6. DOMAIN p \subseteq Nat /\ DOMAIN q \subseteq Nat /\ DOMAIN a \subseteq Nat
  BY <1>3
<1> QED
  BY <1>1, <1>2, <1>4, <1>5, <1>6 DEF a, n

LEMMA TailIndices ==
  ASSUME NEW S, NEW q \in Seq(S), q # <<>>
  PROVE  /\ Tail(q) \in Seq(S) /\ Head(q) = q[1] /\ 1 \in DOMAIN q /\ q[1] \in S
         /\ \A i \in DOMAIN Tail(q) : i + 1 \in DOMAIN q /\ i + 1 # 1 /\ Tail(q)[i] = q[i + 1]
         /\ \A i \in DOMAIN q : i = 1 \/ (i - 1 \in DOMAIN Tail(q) /\ q[i] = Tail(q)[i - 1])
         /\ DOMAIN q \subseteq Nat /\ DOMAIN Tail(q) \subseteq Nat
<1>1. /\ Tail(q) \in Seq(S) /\ Len(Tail(q)) = Len(q) - 1
      /\ \A i \in 1 .. Len(Tail(q)) : Tail(q)[i] = q[i + 1]
  BY HeadTailProperties
<1>2. Len(q) \in Nat \ {0} /\ DOMAIN q = 1 .. Len(q) /\ DOMAIN Tail(q) = 1 .. Len(q) - 1
  BY <1>1, EmptySeq
<1>3. Head(q) = q[1] /\ q[1] \in S
  BY <1>2
<1> DEFINE t == Tail(q)
           n == Len(q)
<1> HIDE DEF t, n
<1>4. /\ \A i \in 1 .. n - 1 : t[i] = q[i + 1]
      /\ n \in Nat \ {0} /\ DOMAIN q = 1 .. n /\ DOMAIN t = 1 .. n - 1
  BY <1>1, <1>2 DEF t, n
<1>5. /\ \A i \in DOMAIN t : i + 1 \in DOMAIN q /\ i + 1 # 1 /\ t[i] = q[i + 1]
      /\ \A i \in DOMAIN q : i = 1 \/ (i - 1 \in DOMAIN t /\ q[i] = t[i - 1])
      /\ DOMAIN q \subseteq Nat /\ DOMAIN t \subseteq Nat /\ 1 \in DOMAIN q
  BY <1>4
<1> QED
  BY <1>1, <1>3, <1>5, Zenon DEF t

LEMMA ContainsDomain ==
  ASSUME NEW S, NEW q \in Seq(S), NEW c
  PROVE  Contains(q, c) <=> \E i \in DOMAIN q : q[i] = c
BY LenProperties DEF Contains

LEMMA ConcatContains ==
  ASSUME NEW S, NEW p \in Seq(S), NEW q \in Seq(S), NEW c
  PROVE  /\ Contains(p \o q, c) <=> Contains(p, c) \/ Contains(q, c)
         /\ Once(p, c) /\ Once(q, c) /\ ~ (Contains(p, c) /\ Contains(q, c)) => Once(p \o q, c)
<1>1. p \o q \in Seq(S)
  BY ConcatIndices
<1>2. /\ Contains(p, c) <=> \E i \in DOMAIN p : p[i] = c
      /\ Contains(q, c) <=> \E i \in DOMAIN q : q[i] = c
      /\ Contains(p \o q, c) <=> \E i \in DOMAIN (p \o q) : (p \o q)[i] = c
  BY <1>1, ContainsDomain
<1> DEFINE a == p \o q
           n == Len(p)
<1>3. /\ \A i \in DOMAIN p : i \in DOMAIN a /\ a[i] = p[i]
      /\ \A i \in DOMAIN q : i + n \in DOMAIN a /\ a[i + n] = q[i]
      /\ \A i \in DOMAIN a : \/ i \in DOMAIN p /\ a[i] = p[i]
                             \/ i - n \in DOMAIN q /\ a[i] = q[i - n]
      /\ DOMAIN p \subseteq Nat /\ DOMAIN q \subseteq Nat /\ n \in Nat /\ DOMAIN a \subseteq Nat
  BY ConcatIndices
<1> HIDE DEF a, n
<1>4. (\E i \in DOMAIN a : a[i] = c) <=>
        (\E i \in DOMAIN p : p[i] = c) \/ \E i \in DOMAIN q : q[i] = c
  BY <1>3
<1>5. ASSUME Once(p, c), Once(q, c),
             ~ ((\E i \in DOMAIN p : p[i] = c) /\ \E i \in DOMAIN q : q[i] = c)
      PROVE  Once(a, c)
  BY <1>3, <1>5, SMTT(40) DEF Once
<1>6. Contains(a, c) <=> Contains(p, c) \/ Contains(q, c)
  BY <1>2, <1>4 DEF a
<1>7. Once(p, c) /\ Once(q, c) /\ ~ (Contains(p, c) /\ Contains(q, c)) => Once(a, c)
  BY <1>2, <1>5
<1> QED
  BY <1>6, <1>7 DEF a

LEMMA TailContains ==
  ASSUME NEW S, NEW q \in Seq(S), q # <<>>, NEW c
  PROVE  /\ Contains(q, c) <=> Head(q) = c \/ Contains(Tail(q), c)
         /\ Once(q, c) => Once(Tail(q), c) /\ (Head(q) = c => ~ Contains(Tail(q), c))
<1>1. /\ Contains(q, c) <=> \E i \in DOMAIN q : q[i] = c
      /\ Contains(Tail(q), c) <=> \E i \in DOMAIN Tail(q) : Tail(q)[i] = c
  <2>1. Tail(q) \in Seq(S)
    BY TailIndices
  <2> QED
    BY <2>1, ContainsDomain
<1> DEFINE t == Tail(q)
<1>2. /\ Head(q) = q[1] /\ 1 \in DOMAIN q
      /\ \A i \in DOMAIN t : i + 1 \in DOMAIN q /\ i + 1 # 1 /\ t[i] = q[i + 1]
      /\ \A i \in DOMAIN q : i = 1 \/ (i - 1 \in DOMAIN t /\ q[i] = t[i - 1])
      /\ DOMAIN q \subseteq Nat /\ DOMAIN t \subseteq Nat
  BY TailIndices
<1> HIDE DEF t
<1>3. (\E i \in DOMAIN q : q[i] = c) <=> Head(q) = c \/ \E i \in DOMAIN t : t[i] = c
  BY <1>2
<1>4. ASSUME Once(q, c) PROVE Once(t, c) /\ (Head(q) = c => ~ \E i \in DOMAIN t : t[i] = c)
  BY <1>2, <1>4 DEF Once
<1> QED
  BY <1>1, <1>3, <1>4 DEF t

LEMMA NoneContained ==
  ASSUME NEW T
  PROVE  /\ <<>> \in Seq(T)
         /\ \A c : ~ Contains(<<>>, c) /\ Once(<<>>, c)
BY DEF Contains, Once

LEMMA OneContained ==
  ASSUME NEW T, NEW a \in T
  PROVE  /\ <<a>> \in Seq(T)
         /\ \A c : (Contains(<<a>>, c) <=> c = a) /\ Once(<<a>>, c)
BY DEF Contains, Once

LEMMA TwoContained ==
  ASSUME NEW T, NEW a \in T, NEW b \in T, a # b
  PROVE  /\ <<a, b>> \in Seq(T)
         /\ \A c : (Contains(<<a, b>>, c) <=> c \in {a, b}) /\ Once(<<a, b>>, c)
BY DEF Contains, Once

LEMMA ThreeContained ==
  ASSUME NEW T, NEW a \in T, NEW b \in T, NEW d \in T, a # b, a # d, b # d
  PROVE  /\ <<a, b, d>> \in Seq(T)
         /\ \A c : (Contains(<<a, b, d>>, c) <=> c \in {a, b, d}) /\ Once(<<a, b, d>>, c)
BY DEF Contains, Once

LEMMA ConcatLeads ==
  ASSUME NEW p \in Seq(Link), NEW q \in Seq(Link)
  PROVE  /\ \A e \in Data : Leads(p \o q, e) <=> Leads(p, e) \/ Leads(q, e)
         /\ /\ Straight(p) /\ Straight(q)
            /\ \A e \in Data : ~ (Leads(p, e) /\ Leads(q, e))
            => Straight(p \o q)
<1> DEFINE a == p \o q
           n == Len(p)
<1>1. /\ \A i \in DOMAIN p : i \in DOMAIN a /\ a[i] = p[i]
      /\ \A i \in DOMAIN q : i + n \in DOMAIN a /\ a[i + n] = q[i]
      /\ \A i \in DOMAIN a : \/ i \in DOMAIN p /\ a[i] = p[i]
                             \/ i - n \in DOMAIN q /\ a[i] = q[i - n]
      /\ DOMAIN p \subseteq Nat /\ DOMAIN q \subseteq Nat /\ n \in Nat /\ DOMAIN a \subseteq Nat
  BY ConcatIndices, SMTT(40)
<1>2. (\A i \in DOMAIN p : p[i].to \in Data) /\ \A i \in DOMAIN q : q[i].to \in Data
  <2>1. (\A i \in DOMAIN p : p[i] \in Link) /\ \A i \in DOMAIN q : q[i] \in Link
    OBVIOUS
  <2> QED
    BY <2>1 DEF Link
<1> HIDE DEF a, n
<1>3. \A e : Leads(a, e) <=> Leads(p, e) \/ Leads(q, e)
  BY <1>1 DEF Leads
<1>4. ASSUME Straight(p), Straight(q), \A e \in Data : ~ (Leads(p, e) /\ Leads(q, e))
      PROVE  Straight(a)
  <2> SUFFICES ASSUME NEW i \in DOMAIN a, NEW j \in DOMAIN a, a[i].to = a[j].to
               PROVE  i = j
    BY DEF Straight
  <2>1. CASE i \in DOMAIN p /\ a[i] = p[i] /\ j \in DOMAIN p /\ a[j] = p[j]
    BY <1>4, <2>1 DEF Straight
  <2>2. CASE i - n \in DOMAIN q /\ a[i] = q[i - n] /\ j - n \in DOMAIN q /\ a[j] = q[j - n]
    <3>1. i - n = j - n
      BY <1>4, <2>2 DEF Straight
    <3> QED
      BY <1>1, <3>1
  <2>3. ASSUME NEW k \in DOMAIN p, NEW l \in DOMAIN q PROVE p[k].to # q[l].to
    BY <1>2, <1>4 DEF Leads
  <2> QED
    BY <1>1, <2>1, <2>2, <2>3, SMTT(40)
<1> QED
  BY <1>3, <1>4 DEF a

LEMMA TailLeads ==
  ASSUME NEW q \in Seq(Link), q # <<>>
  PROVE  /\ \A e : Leads(q, e) <=> Head(q).to = e \/ Leads(Tail(q), e)
         /\ Straight(q) => Straight(Tail(q)) /\ ~ Leads(Tail(q), Head(q).to)
<1> DEFINE t == Tail(q)
<1>1. /\ Head(q) = q[1] /\ 1 \in DOMAIN q
      /\ \A i \in DOMAIN t : i + 1 \in DOMAIN q /\ i + 1 # 1 /\ t[i] = q[i + 1]
      /\ \A i \in DOMAIN q : i = 1 \/ (i - 1 \in DOMAIN t /\ q[i] = t[i - 1])
      /\ DOMAIN q \subseteq Nat /\ DOMAIN t \subseteq Nat
  BY TailIndices
<1> HIDE DEF t
<1>2. \A e : Leads(q, e) <=> Head(q).to = e \/ Leads(t, e)
  BY <1>1 DEF Leads
<1>3. ASSUME Straight(q) PROVE Straight(t) /\ ~ Leads(t, Head(q).to)
  <2>1. ~ Leads(t, Head(q).to)
    BY <1>1, <1>3 DEF Leads, Straight
  <2>2. ASSUME NEW i \in DOMAIN t, NEW j \in DOMAIN t, t[i].to = t[j].to PROVE i = j
    <3>1. /\ i + 1 \in DOMAIN q /\ j + 1 \in DOMAIN q
          /\ q[i + 1].to = q[j + 1].to
      BY <1>1, <2>2
    <3>2. i + 1 = j + 1
      BY <1>3, <3>1 DEF Straight
    <3> QED
      BY <1>1, <3>2
  <2> QED
    BY <2>1, <2>2 DEF Straight
<1> QED
  BY <1>2, <1>3 DEF t

LEMMA LeadsContains ==
  ASSUME NEW q \in Seq(Link)
  PROVE  /\ \A e : Leads(q, e) <=> \E k \in Link : Contains(q, k) /\ k.to = e
         /\ q # <<>> <=> \E k \in Link : Contains(q, k)
<1>1. \A k : Contains(q, k) <=> \E i \in DOMAIN q : q[i] = k
  BY ContainsDomain
<1>2. \A i \in DOMAIN q : q[i] \in Link
  OBVIOUS
<1>3. q # <<>> => 1 \in DOMAIN q
  BY EmptySeq
<1>4. q = <<>> => DOMAIN q = {}
  OBVIOUS
<1> QED
  BY <1>1, <1>2, <1>3, <1>4 DEF Leads
-----------------------------------------------------------------------------
\* The inductive invariant: what DataIsOwned, EveryoneAnswered and TakenOnce say holds
\* in the middle of the calls, but for what a call that is due will do.

Due(call, d) == Contains(calls, <<call, d>>)
Below(call, d) == Contains(Tail(calls), <<call, d>>)

\* The promise of a link is one of the chain's datum and nobody is to abandon it, nor the
\* promise whose future the callback of the link returns.
LinksOwned ==
  \A d \in Data, kind \in Kinds, k \in Link : Contains(links[d][kind], k) =>
    /\ d \in Allocated /\ owner[k.to] = d /\ state[k.to] = "unfulfilled"
    /\ ~ Due("abandon", k.to)
    /\ k.gives # Null => owner[k.gives] = "user" /\ ~ Due("abandon", k.gives)

LinksOnce ==
  \A d \in Data :
    /\ \A kind \in Kinds : Straight(links[d][kind])
    /\ \A e \in Data : ~ (Leads(links[d]["ref"], e) /\ Leads(links[d]["move"], e))

\* A promise in a chain is that of a link, until the link is taken off.
Owners ==
  \A e \in Data : owner[e] \in Data =>
    /\ owner[e] # e
    /\ Due("abandon", e) \/ \E kind \in Kinds : Leads(links[owner[e]][kind], e)

Lives ==
  \A d \in Data :
    /\ d \in abandoned <=> owner[d] = "none" /\ state[d] # "unused"
    /\ d \in Allocated <=> owner[d] # "none" \/ Due("free", d) \/ \E f \in Futures : data[f] = d

CallsOnce ==
  \A d \in Data :
    /\ Once(calls, <<"abandon", d>>) /\ Once(calls, <<"free", d>>)
    /\ Due("abandon", d) => owner[d] # "none"
    /\ Due("free", d) => d \in abandoned

\* A coroutine that waits for nothing will be told.
Answers ==
  \A f \in Futures : wait[f] = "blocked" =>
    \/ state[data[f]] = "unfulfilled" /\ data[f] \notin abandoned
    \/ \E call \in {"notify", "success", "lost"} : Due(call, data[f])

ChainsRun ==
  \A d \in Data, kind \in Kinds : state[d] = "fulfilled" /\ links[d][kind] # <<>> =>
    Due("notify", d) \/ Due(kind, d)

Takes ==
  \A d \in Data : taken[d] <= 1 /\ (taken[d] # 0 => state[d] \in {"released", "deleted"})

Owned == LinksOwned /\ LinksOnce /\ Owners /\ Lives /\ CallsOnce
PromiseInv == PromiseTypes /\ Owned /\ Answers /\ ChainsRun /\ Takes

-----------------------------------------------------------------------------
\* What a step does to the calls.

LEMMA CallMade ==
  ASSUME PromiseTypes, NEW call, NEW x, Called(call, x),
         NEW made \in Seq(Functions \X Data), Becomes(made)
  PROVE  /\ calls' \in Seq(Functions \X Data) /\ call \in Functions /\ x \in Data
         /\ \A c, d : Due(c, d) <=> (c = call /\ d = x) \/ Below(c, d)
         /\ \A c, d : Due(c, d)' <=> Contains(made, <<c, d>>) \/ Below(c, d)
         /\ \A c, d : Once(calls, <<c, d>>) =>
              /\ c = call /\ d = x => ~ Below(c, d)
              /\ Once(made, <<c, d>>) /\ ~ (Contains(made, <<c, d>>) /\ Below(c, d))
                   => Once(calls, <<c, d>>)'
<1>1. calls \in Seq(Functions \X Data) /\ calls # <<>> /\ Head(calls) = <<call, x>>
  BY DEF PromiseTypes, Called
<1>2. Tail(calls) \in Seq(Functions \X Data) /\ Head(calls) \in Functions \X Data
  BY <1>1, TailIndices
<1>3. \A c, d : /\ Contains(calls, <<c, d>>) <=>
                     Head(calls) = <<c, d>> \/ Contains(Tail(calls), <<c, d>>)
                /\ Once(calls, <<c, d>>) =>
                     /\ Once(Tail(calls), <<c, d>>)
                     /\ Head(calls) = <<c, d>> => ~ Contains(Tail(calls), <<c, d>>)
  BY <1>1, TailContains
<1>4. \A c, d : /\ Contains(calls', <<c, d>>) <=>
                     Contains(made, <<c, d>>) \/ Contains(Tail(calls), <<c, d>>)
                /\ /\ Once(made, <<c, d>>) /\ Once(Tail(calls), <<c, d>>)
                   /\ ~ (Contains(made, <<c, d>>) /\ Contains(Tail(calls), <<c, d>>))
                   => Once(calls', <<c, d>>)
  BY <1>2, ConcatContains DEF Becomes
<1>5. calls' \in Seq(Functions \X Data)
  BY <1>2, ConcatIndices DEF Becomes
<1>6. \A c, d : Head(calls) = <<c, d>> <=> c = call /\ d = x
  BY <1>1
<1>7. call \in Functions /\ x \in Data
  BY <1>1, <1>2
<1>8. \A c, d : Once(calls', <<c, d>>) <=> Once(calls, <<c, d>>)'
  BY DEF Once
<1> QED
  BY <1>3, <1>4, <1>5, <1>6, <1>7, <1>8, Zenon DEF Due, Below

LEMMA CallAdded ==
  ASSUME PromiseTypes, NEW made \in Seq(Functions \X Data), calls' = made \o calls
  PROVE  /\ calls' \in Seq(Functions \X Data)
         /\ \A c, d : Due(c, d)' <=> Contains(made, <<c, d>>) \/ Due(c, d)
         /\ \A c, d : /\ Once(made, <<c, d>>) /\ Once(calls, <<c, d>>)
                      /\ ~ (Contains(made, <<c, d>>) /\ Due(c, d))
                      => Once(calls, <<c, d>>)'
<1>1. calls \in Seq(Functions \X Data)
  BY DEF PromiseTypes
<1>2. \A c, d : /\ Contains(calls', <<c, d>>) <=>
                     Contains(made, <<c, d>>) \/ Contains(calls, <<c, d>>)
                /\ /\ Once(made, <<c, d>>) /\ Once(calls, <<c, d>>)
                   /\ ~ (Contains(made, <<c, d>>) /\ Contains(calls, <<c, d>>))
                   => Once(calls', <<c, d>>)
  BY <1>1, ConcatContains
<1>3. calls' \in Seq(Functions \X Data)
  BY <1>1, ConcatIndices
<1>4. \A c, d : Once(calls', <<c, d>>) <=> Once(calls, <<c, d>>)'
  BY DEF Once
<1> QED
  BY <1>2, <1>3, <1>4, Zenon DEF Due

LEMMA OneCall ==
  ASSUME NEW call \in Functions, NEW x \in Data
  PROVE  /\ << <<call, x>> >> \in Seq(Functions \X Data)
         /\ \A c, d : /\ Contains(<< <<call, x>> >>, <<c, d>>) <=> c = call /\ d = x
                      /\ Once(<< <<call, x>> >>, <<c, d>>)
<1> DEFINE a == <<call, x>>
           T == Functions \X Data
<1>1. a \in T /\ \A c, d : <<c, d>> = a <=> c = call /\ d = x
  OBVIOUS
<1> HIDE DEF a, T
<1>2. <<a>> \in Seq(T) /\ \A e : (Contains(<<a>>, e) <=> e = a) /\ Once(<<a>>, e)
  BY <1>1, OneContained
<1>3. \A c, d : (Contains(<<a>>, <<c, d>>) <=> c = call /\ d = x) /\ Once(<<a>>, <<c, d>>)
  BY <1>1, <1>2
<1> QED
  BY <1>2, <1>3 DEF a, T

LEMMA TwoCalls ==
  ASSUME NEW call \in Functions, NEW x \in Data, NEW then \in Functions, NEW y \in Data,
         call # then
  PROVE  /\ << <<call, x>>, <<then, y>> >> \in Seq(Functions \X Data)
         /\ \A c, d : /\ Contains(<< <<call, x>>, <<then, y>> >>, <<c, d>>)
                          <=> (c = call /\ d = x) \/ (c = then /\ d = y)
                     /\ Once(<< <<call, x>>, <<then, y>> >>, <<c, d>>)
<1> DEFINE a == <<call, x>>
           b == <<then, y>>
           T == Functions \X Data
<1>1. /\ a \in T /\ b \in T /\ a # b
      /\ \A c, d : /\ <<c, d>> = a <=> c = call /\ d = x
                   /\ <<c, d>> = b <=> c = then /\ d = y
  OBVIOUS
<1>2. a \in T /\ b \in T /\ a # b
  BY <1>1
<1> HIDE DEF a, b, T
<1>3. <<a, b>> \in Seq(T) /\ \A e : (Contains(<<a, b>>, e) <=> e \in {a, b}) /\ Once(<<a, b>>, e)
  BY <1>2, TwoContained
<1>4. \A c, d : /\ Contains(<<a, b>>, <<c, d>>)
                   <=> (c = call /\ d = x) \/ (c = then /\ d = y)
              /\ Once(<<a, b>>, <<c, d>>)
  <2> SUFFICES ASSUME NEW c, NEW d
               PROVE  /\ Contains(<<a, b>>, <<c, d>>)
                           <=> (c = call /\ d = x) \/ (c = then /\ d = y)
                      /\ Once(<<a, b>>, <<c, d>>)
    OBVIOUS
  <2> DEFINE e == <<c, d>>
  <2>1. (e = a <=> c = call /\ d = x) /\ (e = b <=> c = then /\ d = y)
    BY DEF a, b
  <2> HIDE DEF e
  <2>2. (Contains(<<a, b>>, e) <=> e = a \/ e = b) /\ Once(<<a, b>>, e)
    BY <1>3
  <2>3. Contains(<<a, b>>, e) <=> (c = call /\ d = x) \/ (c = then /\ d = y)
    BY <2>1, <2>2
  <2> QED
    BY <2>2, <2>3 DEF e
<1> QED
  BY <1>3, <1>4 DEF a, b, T

\* When no call is under way, what an operation of the program calls is all there is.
LEMMA CallBegun ==
  ASSUME NEW made \in Seq(Functions \X Data), calls = <<>>, calls' = made
  PROVE  /\ calls' \in Seq(Functions \X Data)
         /\ \A c, d : ~ Due(c, d)
         /\ \A c, d : Due(c, d)' <=> Contains(made, <<c, d>>)
         /\ \A c, d : Once(made, <<c, d>>) => Once(calls, <<c, d>>)'
BY NoneContained DEF Due, Once

\* Steps that change neither promises nor chains nor futures keep what is said of them,
\* as long as the same destructors are due.
LEMMA OwnedKept ==
  ASSUME Owned, UNCHANGED <<state, abandoned, owner, links, data>>,
         \A d \in Data : \A call \in {"abandon", "free"} :
           /\ Due(call, d)' <=> Due(call, d)
           /\ Once(calls, <<call, d>>)'
  PROVE  Owned'
<1>1. \A d \in Data : /\ Due("abandon", d)' <=> Due("abandon", d)
                      /\ Due("free", d)' <=> Due("free", d)
                      /\ Once(calls, <<"abandon", d>>)' /\ Once(calls, <<"free", d>>)'
  OBVIOUS
<1>2. LinksOwned'
  <2> SUFFICES ASSUME NEW d \in Data, NEW kind \in Kinds, NEW k \in Link,
                      Contains(links[d][kind], k)
               PROVE  /\ d \in Allocated' /\ owner'[k.to] = d /\ state'[k.to] = "unfulfilled"
                      /\ ~ Due("abandon", k.to)'
                      /\ k.gives # Null => owner'[k.gives] = "user" /\ ~ Due("abandon", k.gives)'
    BY DEF LinksOwned
  <2>1. k.to \in Data /\ (k.gives # Null => k.gives \in Data)
    BY DEF Link
  <2>2. /\ d \in Allocated /\ owner[k.to] = d /\ state[k.to] = "unfulfilled"
        /\ ~ Due("abandon", k.to)
        /\ k.gives # Null => owner[k.gives] = "user" /\ ~ Due("abandon", k.gives)
    BY DEF Owned, LinksOwned
  <2>3. d \in Allocated' /\ owner'[k.to] = d /\ state'[k.to] = "unfulfilled"
    BY <2>2 DEF Allocated
  <2>4. ~ Due("abandon", k.to)'
    BY <1>1, <2>1, <2>2
  <2>5. k.gives # Null => owner'[k.gives] = "user" /\ ~ Due("abandon", k.gives)'
    BY <1>1, <2>1, <2>2
  <2> QED
    BY <2>3, <2>4, <2>5
<1>3. LinksOnce'
  BY DEF Owned, LinksOnce
<1>4. Owners'
  BY <1>1 DEF Owned, Owners
<1>5. Lives'
  BY <1>1 DEF Owned, Lives, Allocated
<1>6. CallsOnce'
  BY <1>1 DEF Owned, CallsOnce
<1> QED
  BY <1>2, <1>3, <1>4, <1>5, <1>6 DEF Owned
-----------------------------------------------------------------------------
\* The calls.

LEMMA NotifyAllKeeps ==
  ASSUME PromiseInv, NEW d \in Data, NotifyAll(d)
  PROVE  PromiseInv'
<1> DEFINE made == IF state[d] = "fulfilled"
                   THEN << <<"ref", d>>, <<"move", d>>, <<"success", d>> >>
                   ELSE IF d \in abandoned /\ Void THEN << <<"ref", d>>, <<"lost", d>> >>
                   ELSE IF d \in abandoned \/ state[d] = "released" THEN << <<"lost", d>> >>
                   ELSE <<>>
<1>1. /\ Called("notify", d) /\ Becomes(made)
      /\ UNCHANGED <<state, abandoned, owner, links, data, wait, taken, aborted>>
  BY DEF NotifyAll
<1>2. /\ PromiseTypes /\ Owned /\ Answers /\ ChainsRun /\ Takes
  BY DEF PromiseInv
<1>3. /\ \A c, x : Contains(made, <<c, x>>) => x = d /\ c \in {"ref", "move", "success", "lost"}
      /\ state[d] = "fulfilled" =>
           /\ Contains(made, <<"ref", d>>) /\ Contains(made, <<"move", d>>)
           /\ Contains(made, <<"success", d>>)
      /\ state[d] # "fulfilled" /\ (d \in abandoned \/ state[d] = "released")
           => Contains(made, <<"lost", d>>)
      /\ \A c, x : Once(made, <<c, x>>)
      /\ made \in Seq(Functions \X Data)
  <2> DEFINE R == <<"ref", d>>
             M == <<"move", d>>
             S == <<"success", d>>
             L == <<"lost", d>>
  <2> DEFINE T == Functions \X Data
  <2>1. /\ R # M /\ R # S /\ M # S /\ R # L
        /\ R \in Functions \X Data /\ M \in Functions \X Data
        /\ S \in Functions \X Data /\ L \in Functions \X Data
        /\ \A c, x : <<c, x>> \in {R, M, S, L} => x = d /\ c \in {"ref", "move", "success", "lost"}
    BY DEF Functions
  <2>2. \/ state[d] = "fulfilled" /\ made = <<R, M, S>>
        \/ state[d] # "fulfilled" /\ d \in abandoned /\ Void /\ made = <<R, L>>
        \/ state[d] # "fulfilled" /\ ~ Void /\ d \in abandoned /\ made = <<L>>
        \/ state[d] # "fulfilled" /\ d \notin abandoned /\ state[d] = "released" /\ made = <<L>>
        \/ state[d] # "fulfilled" /\ d \notin abandoned /\ state[d] # "released" /\ made = <<>>
    OBVIOUS
  <2>5. R \in T /\ M \in T /\ S \in T /\ L \in T /\ R # M /\ R # S /\ M # S /\ R # L
    BY <2>1
  <2> HIDE DEF made, R, M, S, L, T
  <2>3. /\ made \in Seq(Functions \X Data)
        /\ \A e : Once(made, e)
        /\ \A e : Contains(made, e) => e \in {R, M, S, L}
        /\ state[d] = "fulfilled" => Contains(made, R) /\ Contains(made, M) /\ Contains(made, S)
        /\ state[d] # "fulfilled" /\ (d \in abandoned \/ state[d] = "released") => Contains(made, L)
    <3>1. CASE state[d] = "fulfilled" /\ made = <<R, M, S>>
      <4>1. /\ <<R, M, S>> \in Seq(T)
            /\ \A e : (Contains(<<R, M, S>>, e) <=> e \in {R, M, S}) /\ Once(<<R, M, S>>, e)
        BY <2>5, ThreeContained
      <4> QED
        BY <3>1, <4>1 DEF T
    <3>2. CASE state[d] # "fulfilled" /\ made = <<R, L>>
      <4>1. /\ <<R, L>> \in Seq(T)
            /\ \A e : (Contains(<<R, L>>, e) <=> e \in {R, L}) /\ Once(<<R, L>>, e)
        BY <2>5, TwoContained
      <4> QED
        BY <3>2, <4>1 DEF T
    <3>3. CASE state[d] # "fulfilled" /\ made = <<L>>
      <4>1. /\ made \in Seq(Functions \X Data)
            /\ \A e : (Contains(made, e) <=> e = L) /\ Once(made, e)
        BY <2>1, <3>3, OneContained
      <4> QED
        BY <3>3, <4>1
    <3>4. CASE /\ state[d] # "fulfilled" /\ d \notin abandoned /\ state[d] # "released"
               /\ made = <<>>
      BY <3>4, NoneContained
    <3> QED
      BY <2>2, <3>1, <3>2, <3>3, <3>4
  <2> QED
    <3>1. ASSUME NEW c, NEW x, Contains(made, <<c, x>>)
          PROVE  x = d /\ c \in {"ref", "move", "success", "lost"}
      <4>1. <<c, x>> \in {R, M, S, L}
        BY <2>3, <3>1
      <4> QED
        BY <2>1, <4>1
    <3>2. \A c, x : Once(made, <<c, x>>)
      BY <2>3
    <3> QED
      BY <2>3, <3>1, <3>2 DEF R, M, S, L
<1> HIDE DEF made
<1>4. /\ calls' \in Seq(Functions \X Data)
      /\ \A c, x : Due(c, x) <=> (c = "notify" /\ x = d) \/ Below(c, x)
      /\ \A c, x : Due(c, x)' <=> Contains(made, <<c, x>>) \/ Below(c, x)
      /\ \A c, x : Once(calls, <<c, x>>) /\ ~ (Contains(made, <<c, x>>) /\ Below(c, x))
                     => Once(calls, <<c, x>>)'
  BY <1>1, <1>2, <1>3, CallMade
<1>5. Owned'
  <2>1. ASSUME NEW x \in Data, NEW call \in {"abandon", "free"}
        PROVE  (Due(call, x)' <=> Due(call, x)) /\ Once(calls, <<call, x>>)'
    <3>1. Once(calls, <<call, x>>)
      BY <1>2 DEF Owned, CallsOnce
    <3> QED
      BY <1>3, <1>4, <3>1
  <2> QED
    BY <1>1, <1>2, <2>1, OwnedKept
<1>6. Answers'
  <2> SUFFICES ASSUME NEW f \in Futures, wait[f] = "blocked"
               PROVE  \/ state[data[f]] = "unfulfilled" /\ data[f] \notin abandoned
                      \/ \E call \in {"notify", "success", "lost"} : Due(call, data[f])'
    BY <1>1 DEF Answers
  <2>1. CASE data[f] = d
    <3>1. d \in Allocated
      BY <1>2, <2>1 DEF Owned, Lives
    <3>2. state[d] \in {"unfulfilled", "fulfilled", "released"}
      BY <1>2, <3>1 DEF Allocated, PromiseTypes, States
    <3>3. CASE state[d] = "fulfilled"
      BY <1>1, <1>3, <1>4, <2>1, <3>3
    <3>4. CASE state[d] # "fulfilled" /\ (d \in abandoned \/ state[d] = "released")
      BY <1>1, <1>3, <1>4, <2>1, <3>4
    <3> QED
      BY <1>1, <2>1, <3>2, <3>3, <3>4
  <2>2. CASE data[f] # d
    <3>1. \A c : Due(c, data[f]) => Due(c, data[f])'
      BY <1>1, <1>4, <2>2
    <3>2. \/ state[data[f]] = "unfulfilled" /\ data[f] \notin abandoned
          \/ \E call \in {"notify", "success", "lost"} : Due(call, data[f])
      BY <1>2 DEF Answers
    <3> QED
      BY <1>1, <3>1, <3>2
  <2> QED
    BY <2>1, <2>2
<1>7. ChainsRun'
  BY <1>1, <1>2, <1>3, <1>4 DEF ChainsRun, Kinds
<1>8. Takes'
  BY <1>1, <1>2 DEF Takes
<1>9. PromiseTypes'
  BY <1>1, <1>2, <1>4 DEF PromiseTypes, IsFuture
<1> QED
  BY <1>5, <1>6, <1>7, <1>8, <1>9 DEF PromiseInv

LEMMA TellKeeps ==
  ASSUME PromiseInv, NEW d \in Data, NEW result \in {"success", "lost"}, Tell(d, result)
  PROVE  PromiseInv'
<1>1. /\ Called(result, d) /\ Becomes(<<>>) /\ <<>> \in Seq(Functions \X Data)
      /\ wait' = [f \in Futures |-> IF data[f] = d /\ wait[f] = "blocked" THEN result ELSE wait[f]]
      /\ UNCHANGED <<state, abandoned, owner, links, data, taken, aborted>>
  BY DEF Tell
<1>2. /\ PromiseTypes /\ Owned /\ Answers /\ ChainsRun /\ Takes
  BY DEF PromiseInv
<1>3. \A c, x : ~ Contains(<<>>, <<c, x>>) /\ Once(<<>>, <<c, x>>)
  BY NoneContained
<1>4. /\ calls' \in Seq(Functions \X Data)
      /\ \A c, x : Due(c, x) <=> (c = result /\ x = d) \/ Below(c, x)
      /\ \A c, x : Due(c, x)' <=> Below(c, x)
      /\ \A c, x : Once(calls, <<c, x>>) => Once(calls, <<c, x>>)'
  BY <1>1, <1>2, <1>3, CallMade
<1>5. Owned'
  <2>1. ASSUME NEW x \in Data, NEW call \in {"abandon", "free"}
        PROVE  (Due(call, x)' <=> Due(call, x)) /\ Once(calls, <<call, x>>)'
    <3>1. Once(calls, <<call, x>>)
      BY <1>2 DEF Owned, CallsOnce
    <3> QED
      BY <1>4, <3>1
  <2> QED
    BY <1>1, <1>2, <2>1, OwnedKept
<1>6. Answers'
  BY <1>1, <1>2, <1>4 DEF Answers, PromiseTypes
<1>7. ChainsRun'
  BY <1>1, <1>2, <1>4 DEF ChainsRun, Kinds
<1>8. Takes'
  BY <1>1, <1>2 DEF Takes
<1>9. PromiseTypes'
  BY <1>1, <1>2, <1>4 DEF PromiseTypes, IsFuture
<1> QED
  BY <1>5, <1>6, <1>7, <1>8, <1>9 DEF PromiseInv

LEMMA ChainEmptyKeeps ==
  ASSUME PromiseInv, NEW d \in Data, NEW kind \in Kinds, Called(kind, d), ChainEmpty(d, kind)
  PROVE  PromiseInv'
<1>1. /\ Becomes(<<>>) /\ <<>> \in Seq(Functions \X Data) /\ links[d][kind] = <<>>
      /\ UNCHANGED <<state, abandoned, owner, links, data, wait, taken, aborted>>
  BY DEF ChainEmpty
<1>2. /\ PromiseTypes /\ Owned /\ Answers /\ ChainsRun /\ Takes /\ kind \in {"ref", "move"}
  BY DEF PromiseInv, Kinds
<1>3. \A c, x : ~ Contains(<<>>, <<c, x>>) /\ Once(<<>>, <<c, x>>)
  BY NoneContained
<1>4. /\ calls' \in Seq(Functions \X Data)
      /\ \A c, x : Due(c, x) <=> (c = kind /\ x = d) \/ Below(c, x)
      /\ \A c, x : Due(c, x)' <=> Below(c, x)
      /\ \A c, x : Once(calls, <<c, x>>) => Once(calls, <<c, x>>)'
  BY <1>1, <1>2, <1>3, CallMade
<1>5. Owned'
  <2>1. ASSUME NEW x \in Data, NEW call \in {"abandon", "free"}
        PROVE  (Due(call, x)' <=> Due(call, x)) /\ Once(calls, <<call, x>>)'
    <3>1. Once(calls, <<call, x>>)
      BY <1>2 DEF Owned, CallsOnce
    <3> QED
      BY <1>2, <1>4, <3>1
  <2> QED
    BY <1>1, <1>2, <2>1, OwnedKept
<1>6. Answers'
  BY <1>1, <1>2, <1>4 DEF Answers
<1>7. ChainsRun'
  BY <1>1, <1>2, <1>4 DEF ChainsRun, Kinds
<1>8. Takes'
  BY <1>1, <1>2 DEF Takes
<1>9. PromiseTypes'
  BY <1>1, <1>2, <1>4 DEF PromiseTypes, IsFuture
<1> QED
  BY <1>5, <1>6, <1>7, <1>8, <1>9 DEF PromiseInv

\* A link that is taken off leads nowhere any more, and the others are where they were.
LinkOff(d, kind, k, L) ==
  /\ k = Head(links[d][kind]) /\ L = TakeOff(d, kind) /\ links[d][kind] # <<>>
  /\ k \in Link /\ k.to \in Data /\ k.to # d /\ k.gives \in Data \cup {Null}
  /\ L \in [Data -> [Kinds -> Seq(Link)]]
  /\ \A c \in Data, m \in Kinds :
       /\ L[c][m] # <<>> => links[c][m] # <<>>
       /\ \A j \in Link : Contains(L[c][m], j) => Contains(links[c][m], j) /\ j.to # k.to
       /\ \A e \in Data : Leads(L[c][m], e) <=> e # k.to /\ Leads(links[c][m], e)
       /\ Straight(L[c][m])
  /\ \A c, e \in Data : ~ (Leads(L[c]["ref"], e) /\ Leads(L[c]["move"], e))
  /\ d \in Allocated /\ owner[k.to] = d /\ state[k.to] = "unfulfilled"
  /\ k.to \notin abandoned /\ taken[k.to] = 0 /\ ~ Due("abandon", k.to) /\ ~ Due("free", k.to)
  /\ k.gives # Null => /\ owner[k.gives] = "user" /\ ~ Due("abandon", k.gives)
                       /\ k.gives # k.to

\* Two promises are never owned through the same link, nor in two chains.
LEMMA LeadsOwned ==
  ASSUME PromiseInv, NEW d \in Data, NEW kind \in Kinds, NEW e \in Data, Leads(links[d][kind], e)
  PROVE  owner[e] = d /\ state[e] = "unfulfilled" /\ ~ Due("abandon", e)
<1>1. links[d][kind] \in Seq(Link)
  BY DEF PromiseInv, PromiseTypes
<1>2. PICK k \in Link : Contains(links[d][kind], k) /\ k.to = e
  BY <1>1, LeadsContains
<1> QED
  BY <1>2 DEF PromiseInv, Owned, LinksOwned

LEMMA LinkTakenOff ==
  ASSUME PromiseInv, NEW d \in Data, NEW kind \in Kinds, links[d][kind] # <<>>
  PROVE  LinkOff(d, kind, Head(links[d][kind]), TakeOff(d, kind))
<1> DEFINE q == links[d][kind]
           k == Head(q)
           L == TakeOff(d, kind)
<1>1. PromiseTypes /\ Owned /\ Takes /\ q \in Seq(Link) /\ q # <<>>
  BY DEF PromiseInv, PromiseTypes
<1>2. /\ k \in Link /\ Tail(q) \in Seq(Link) /\ Contains(q, k)
      /\ \A j : Contains(Tail(q), j) => Contains(q, j)
      /\ \A e : Leads(q, e) <=> k.to = e \/ Leads(Tail(q), e)
      /\ Straight(q) => Straight(Tail(q)) /\ ~ Leads(Tail(q), k.to)
  BY <1>1, TailIndices, TailContains, TailLeads
<1>3. /\ k.to \in Data /\ k.gives \in Data \cup {Null}
  BY <1>2 DEF Link
<1>4. /\ L \in [Data -> [Kinds -> Seq(Link)]]
      /\ L[d][kind] = Tail(q)
      /\ \A c \in Data, m \in Kinds : c # d \/ m # kind => L[c][m] = links[c][m]
  BY <1>1, <1>2 DEF TakeOff, PromiseTypes
<1> HIDE DEF L, k, q
<1>5. /\ d \in Allocated /\ owner[k.to] = d /\ state[k.to] = "unfulfilled"
      /\ ~ Due("abandon", k.to)
      /\ k.gives # Null => owner[k.gives] = "user" /\ ~ Due("abandon", k.gives)
  BY <1>1, <1>2 DEF Owned, LinksOwned, q
<1>6. k.to # d /\ k.to \notin abandoned /\ ~ Due("free", k.to) /\ (k.gives # Null => k.gives # k.to)
      /\ taken[k.to] = 0
  BY <1>1, <1>3, <1>5, PromiseAssumption, ZenonT(60) DEF Owned, Owners, Lives, CallsOnce, Takes, PromiseTypes
<1>7. /\ \A c \in Data, m \in Kinds, e \in Data : Leads(links[c][m], e) => owner[e] = c
      /\ \A c \in Data, m \in Kinds : Straight(links[c][m])
      /\ \A c, e \in Data : ~ (Leads(links[c]["ref"], e) /\ Leads(links[c]["move"], e))
  BY <1>1, LeadsOwned DEF Owned, LinksOnce
<1>8. ASSUME NEW c \in Data, NEW m \in Kinds
      PROVE  /\ L[c][m] # <<>> => links[c][m] # <<>>
             /\ \A j \in Link : Contains(L[c][m], j) => Contains(links[c][m], j)
             /\ \A e \in Data : Leads(L[c][m], e) <=> e # k.to /\ Leads(links[c][m], e)
             /\ Straight(L[c][m])
  <2>1. CASE c = d /\ m = kind
    <3>1. L[c][m] = Tail(q) /\ links[c][m] = q
      BY <1>4, <2>1 DEF q
    <3>2. Straight(q)
      BY <1>7, <2>1 DEF q
    <3> QED
      BY <1>1, <1>2, <3>1, <3>2
  <2>2. CASE ~ (c = d /\ m = kind)
    <3>1. L[c][m] = links[c][m]
      BY <1>4, <2>2
    <3>2. Leads(q, k.to)
      BY <1>2
    <3>3. ~ Leads(links[c][m], k.to)
      BY <1>3, <1>5, <1>7, <2>2, <3>2 DEF q, Kinds
    <3> QED
      BY <1>7, <3>1, <3>3
  <2> QED
    BY <2>1, <2>2
<1>9. ASSUME NEW c \in Data, NEW m \in Kinds, NEW j \in Link, Contains(L[c][m], j)
      PROVE  j.to # k.to
  <2>1. L[c][m] \in Seq(Link)
    BY <1>4
  <2>2. Leads(L[c][m], j.to)
    BY <1>9, <2>1, LeadsContains
  <2> QED
    BY <1>3, <1>8, <2>2
<1>10. \A c, e \in Data : ~ (Leads(L[c]["ref"], e) /\ Leads(L[c]["move"], e))
  BY <1>7, <1>8 DEF Kinds
<1>11. k = Head(links[d][kind]) /\ L = TakeOff(d, kind) /\ links[d][kind] # <<>>
  BY <1>1, SMTT(40) DEF k, q, L
<1>12. LinkOff(d, kind, k, L)
  BY <1>2, <1>3, <1>4, <1>5, <1>6, <1>8, <1>9, <1>10, <1>11 DEF LinkOff
<1> QED
  BY <1>11, <1>12

LEMMA DeleteLinkKeeps ==
  ASSUME PromiseInv, NEW d \in Data, NEW kind \in Kinds, Called(kind, d), DeleteLink(d, kind)
  PROVE  PromiseInv'
<1>0. PICK k : k = Head(links[d][kind])
  OBVIOUS
<1> DEFINE made == << <<"abandon", k.to>> >>
<1>1. /\ LinkOff(d, kind, k, links') /\ calls' = made \o calls
      /\ UNCHANGED <<state, abandoned, owner, data, wait, taken, aborted>>
  BY <1>0, LinkTakenOff DEF DeleteLink
<1>2. /\ PromiseTypes /\ Owned /\ Answers /\ ChainsRun /\ Takes
  BY SMTT(40) DEF PromiseInv
<1>3. /\ k \in Link /\ k.to \in Data /\ k.to # d /\ links' \in [Data -> [Kinds -> Seq(Link)]]
      /\ \A c \in Data, m \in Kinds :
           /\ links'[c][m] # <<>> => links[c][m] # <<>>
           /\ \A j \in Link : Contains(links'[c][m], j) => Contains(links[c][m], j) /\ j.to # k.to
           /\ \A e \in Data : Leads(links'[c][m], e) <=> e # k.to /\ Leads(links[c][m], e)
           /\ Straight(links'[c][m])
      /\ \A c, e \in Data : ~ (Leads(links'[c]["ref"], e) /\ Leads(links'[c]["move"], e))
      /\ owner[k.to] = d /\ ~ Due("abandon", k.to)
  BY <1>1 DEF LinkOff
<1>4. /\ made \in Seq(Functions \X Data)
      /\ \A c, x : (Contains(made, <<c, x>>) <=> c = "abandon" /\ x = k.to) /\ Once(made, <<c, x>>)
  <2>1. "abandon" \in Functions /\ k.to \in Data
    BY <1>3 DEF Functions
  <2> QED
    BY <2>1, OneCall
<1> HIDE DEF made
<1>5. /\ calls' \in Seq(Functions \X Data)
      /\ \A c, x : Due(c, x)' <=> (c = "abandon" /\ x = k.to) \/ Due(c, x)
      /\ \A c, x : Once(calls, <<c, x>>) /\ ~ ((c = "abandon" /\ x = k.to) /\ Due(c, x))
                     => Once(calls, <<c, x>>)'
  BY <1>1, <1>2, <1>4, CallAdded
<1>6. LinksOwned'
  <2> SUFFICES ASSUME NEW c \in Data, NEW m \in Kinds, NEW j \in Link, Contains(links'[c][m], j)
               PROVE  /\ c \in Allocated' /\ owner'[j.to] = c /\ state'[j.to] = "unfulfilled"
                      /\ ~ Due("abandon", j.to)'
                      /\ j.gives # Null => owner'[j.gives] = "user" /\ ~ Due("abandon", j.gives)'
    BY DEF LinksOwned
  <2>1. /\ c \in Allocated /\ owner[j.to] = c /\ state[j.to] = "unfulfilled"
        /\ ~ Due("abandon", j.to) /\ j.to # k.to
        /\ j.gives # Null => owner[j.gives] = "user" /\ ~ Due("abandon", j.gives)
    BY <1>2, <1>3 DEF Owned, LinksOwned
  <2>2. j.gives # Null => j.gives # k.to
    BY <1>3, <2>1, PromiseAssumption
  <2> QED
    BY <1>1, <1>5, <2>1, <2>2 DEF Allocated
<1>7. LinksOnce'
  BY <1>3 DEF LinksOnce
<1>8. Owners'
  BY <1>1, <1>2, <1>3, <1>5 DEF Owned, Owners
<1>9. Lives'
  BY <1>1, <1>2, <1>5 DEF Owned, Lives, Allocated
<1>10. CallsOnce'
  <2>1. owner[k.to] # "none"
    BY <1>3, PromiseAssumption
  <2> QED
    BY <1>1, <1>2, <1>3, <1>5, <2>1 DEF Owned, CallsOnce
<1>11. Answers'
  BY <1>1, <1>2, <1>5 DEF Answers
<1>12. ChainsRun'
  BY <1>1, <1>2, <1>3, <1>5 DEF ChainsRun
<1>13. Takes'
  BY <1>1, <1>2 DEF Takes
<1>14. PromiseTypes'
  BY <1>1, <1>2, <1>3, <1>5 DEF PromiseTypes, IsFuture
<1> QED
  BY <1>6, <1>7, <1>8, <1>9, <1>10, <1>11, <1>12, <1>13, <1>14 DEF PromiseInv, Owned

\* What running a link makes of the datum that has the chain.
LEMMA ValueTaken ==
  ASSUME PromiseInv, NEW d \in Data, NEW kind \in Kinds, RunLink(d, kind)
  PROVE  \A c \in Data :
           /\ taken'[c] \in Nat /\ taken'[c] <= 1
           /\ c # d => taken'[c] = taken[c]
           /\ kind = "ref" => taken'[c] = taken[c]
           /\ kind = "move" => state[d] = "fulfilled"
<1>1. /\ taken' = [taken EXCEPT ![d] = IF kind = "move" THEN @ + 1 ELSE @]
      /\ kind = "move" => state[d] = "fulfilled"
  BY DEF RunLink
<1>2. /\ taken \in [Data -> Nat] /\ \A c \in Data : taken[c] <= 1
      /\ state[d] = "fulfilled" => taken[d] = 0
  BY DEF PromiseInv, PromiseTypes, Takes
<1> QED
  BY <1>1, <1>2 DEF Kinds

LEMMA LinkGivesValueKeeps ==
  ASSUME PromiseInv, NEW d \in Data, NEW kind \in Kinds, Called(kind, d), RunLink(d, kind),
         LinkGivesValue(d, kind, Head(links[d][kind]))
  PROVE  PromiseInv'
<1>0. PICK k : k = Head(links[d][kind])
  OBVIOUS
<1> DEFINE made == << <<"notify", k.to>>, <<"abandon", k.to>> >>
<1>1. /\ LinkOff(d, kind, k, links') /\ calls' = made \o calls
      /\ state' = [state EXCEPT ![d] = IF kind = "move" THEN "released" ELSE @,
                               ![k.to] = "fulfilled"]
      /\ UNCHANGED <<abandoned, owner, data, wait, aborted>>
  BY <1>0, LinkTakenOff DEF RunLink, LinkGivesValue
<1>2. /\ PromiseTypes /\ Owned /\ Answers /\ ChainsRun /\ Takes
  BY SMTT(40) DEF PromiseInv
<1>3. /\ k \in Link /\ k.to \in Data /\ k.to # d /\ links' \in [Data -> [Kinds -> Seq(Link)]]
      /\ \A c \in Data, m \in Kinds :
           /\ links'[c][m] # <<>> => links[c][m] # <<>>
           /\ \A j \in Link : Contains(links'[c][m], j) => Contains(links[c][m], j) /\ j.to # k.to
           /\ \A e \in Data : Leads(links'[c][m], e) <=> e # k.to /\ Leads(links[c][m], e)
           /\ Straight(links'[c][m])
      /\ \A c, e \in Data : ~ (Leads(links'[c]["ref"], e) /\ Leads(links'[c]["move"], e))
      /\ owner[k.to] = d /\ ~ Due("abandon", k.to) /\ d \in Allocated
      /\ state[k.to] = "unfulfilled" /\ taken[k.to] = 0
  BY <1>1 DEF LinkOff
<1>4. /\ made \in Seq(Functions \X Data)
      /\ \A c, x : /\ Contains(made, <<c, x>>)
                       <=> (c = "notify" /\ x = k.to) \/ (c = "abandon" /\ x = k.to)
                   /\ Once(made, <<c, x>>)
  <2> DEFINE e == k.to
  <2>1. "notify" \in Functions /\ "abandon" \in Functions /\ e \in Data /\ "notify" # "abandon"
    BY <1>3 DEF Functions
  <2> HIDE DEF e
  <2> QED
    BY <2>1, TwoCalls, SMTT(40) DEF e
<1> HIDE DEF made
<1>5. /\ calls' \in Seq(Functions \X Data)
      /\ \A c, x : Due(c, x) => Due(c, x)'
      /\ Due("notify", k.to)' /\ Due("abandon", k.to)'
      /\ \A x : /\ Due("abandon", x)' <=> x = k.to \/ Due("abandon", x)
                /\ Due("free", x)' <=> Due("free", x)
                /\ Once(calls, <<"abandon", x>>) /\ (x = k.to => ~ Due("abandon", x))
                     => Once(calls, <<"abandon", x>>)'
                /\ Once(calls, <<"free", x>>) => Once(calls, <<"free", x>>)'
  <2>1. /\ calls' \in Seq(Functions \X Data)
        /\ \A c, x : Due(c, x)' <=> Contains(made, <<c, x>>) \/ Due(c, x)
        /\ \A c, x : Once(calls, <<c, x>>) /\ ~ (Contains(made, <<c, x>>) /\ Due(c, x))
                       => Once(calls, <<c, x>>)'
    BY <1>1, <1>2, <1>4, CallAdded
  <2>2. /\ Contains(made, <<"notify", k.to>>) /\ Contains(made, <<"abandon", k.to>>)
        /\ \A x : /\ Contains(made, <<"abandon", x>>) <=> x = k.to
                  /\ ~ Contains(made, <<"free", x>>)
    BY <1>4
  <2> QED
    BY <2>1, <2>2
<1>6. /\ state'[k.to] = "fulfilled" /\ state' \in [Data -> States]
      /\ state'[d] = IF kind = "move" THEN "released" ELSE state[d]
      /\ \A c \in Data : c # d /\ c # k.to => state'[c] = state[c]
      /\ Allocated' = Allocated
  <2>1. state \in [Data -> States] /\ "released" \in States /\ "fulfilled" \in States
    BY <1>2 DEF PromiseTypes, States
  <2>2. /\ state'[k.to] = "fulfilled" /\ state' \in [Data -> States]
        /\ state'[d] = IF kind = "move" THEN "released" ELSE state[d]
        /\ \A c \in Data : c # d /\ c # k.to => state'[c] = state[c]
    BY <1>1, <1>3, <2>1
  <2>3. \A c \in Data : state'[c] \in {"unused", "deleted"} <=> state[c] \in {"unused", "deleted"}
    BY <1>3, <2>2 DEF Allocated
  <2> QED
    BY <2>2, <2>3 DEF Allocated
<1>7. LinksOwned'
  <2> SUFFICES ASSUME NEW c \in Data, NEW m \in Kinds, NEW j \in Link, Contains(links'[c][m], j)
               PROVE  /\ c \in Allocated' /\ owner'[j.to] = c /\ state'[j.to] = "unfulfilled"
                      /\ ~ Due("abandon", j.to)'
                      /\ j.gives # Null => owner'[j.gives] = "user" /\ ~ Due("abandon", j.gives)'
    BY DEF LinksOwned
  <2>1. /\ c \in Allocated /\ owner[j.to] = c /\ state[j.to] = "unfulfilled"
        /\ ~ Due("abandon", j.to) /\ j.to # k.to
        /\ j.gives # Null => owner[j.gives] = "user" /\ ~ Due("abandon", j.gives)
    BY <1>2, <1>3 DEF Owned, LinksOwned
  <2>4. j.to \in Data
    BY DEF Link
  <2>2. j.gives # Null => j.gives # k.to
    BY <1>3, <2>1, PromiseAssumption
  <2>3. j.to = d => kind = "ref"
    BY <2>1, ValueTaken DEF Kinds
  <2> QED
    BY <1>1, <1>5, <1>6, <2>1, <2>2, <2>3, <2>4
<1>8. LinksOnce'
  BY <1>3 DEF LinksOnce
<1>9. Owners'
  BY <1>1, <1>2, <1>3, <1>5 DEF Owned, Owners
<1>10. Lives'
  <2>1. \A c \in Data : state'[c] = "unused" <=> state[c] = "unused"
    BY <1>3, <1>6 DEF Allocated
  <2> QED
    <3> SUFFICES ASSUME NEW c \in Data
                 PROVE  /\ c \in abandoned' <=> owner'[c] = "none" /\ state'[c] # "unused"
                        /\ c \in Allocated' <=> \/ owner'[c] # "none" \/ Due("free", c)'
                                              \/ \E f \in Futures : data'[f] = c
      BY DEF Lives
    <3>1. /\ c \in abandoned <=> owner[c] = "none" /\ state[c] # "unused"
          /\ c \in Allocated <=> \/ owner[c] # "none" \/ Due("free", c)
                               \/ \E f \in Futures : data[f] = c
      BY <1>2 DEF Owned, Lives
    <3> QED
      BY <1>1, <1>5, <1>6, <2>1, <3>1
<1>11. CallsOnce'
  <2>1. owner[k.to] # "none"
    BY <1>3, PromiseAssumption
  <2> QED
    BY <1>1, <1>2, <1>3, <1>5, <2>1 DEF Owned, CallsOnce
<1>12. Answers'
  <2> SUFFICES ASSUME NEW f \in Futures, wait[f] = "blocked"
               PROVE  \/ state'[data[f]] = "unfulfilled" /\ data[f] \notin abandoned
                      \/ \E call \in {"notify", "success", "lost"} : Due(call, data[f])'
    BY <1>1 DEF Answers
  <2>1. \/ state[data[f]] = "unfulfilled" /\ data[f] \notin abandoned
        \/ \E call \in {"notify", "success", "lost"} : Due(call, data[f])
    BY <1>2 DEF Answers
  <2>2. data[f] \in Data
    BY <1>2 DEF PromiseTypes, IsFuture
  <2>3. data[f] = d /\ kind = "move" => state[data[f]] # "unfulfilled"
    BY ValueTaken
  <2>4. CASE data[f] = k.to
    BY <1>1, <1>5, <2>4
  <2>5. CASE data[f] # k.to /\ state[data[f]] = "unfulfilled" /\ data[f] \notin abandoned
    <3>1. state'[data[f]] = state[data[f]]
      BY <1>6, <2>2, <2>3, <2>5 DEF Kinds
    <3> QED
      BY <1>1, <2>5, <3>1
  <2>6. ASSUME NEW call, Due(call, data[f]) PROVE Due(call, data[f])'
    BY <1>1, <1>5, <2>6
  <2> QED
    BY <2>1, <2>4, <2>5, <2>6
<1>13. ChainsRun'
  <2> SUFFICES ASSUME NEW c \in Data, NEW m \in Kinds, state'[c] = "fulfilled", links'[c][m] # <<>>
               PROVE  Due("notify", c)' \/ Due(m, c)'
    BY DEF ChainsRun
  <2>1. CASE c = k.to
    BY <1>5, <2>1
  <2>2. CASE c # k.to
    <3>1. state[c] = "fulfilled" /\ links[c][m] # <<>>
      BY <1>3, <1>6, <2>2
    <3>2. Due("notify", c) \/ Due(m, c)
      BY <1>2, <3>1 DEF ChainsRun
    <3> QED
      BY <1>5, <3>2
  <2> QED
    BY <2>1, <2>2
<1>14. Takes'
  <2> SUFFICES ASSUME NEW c \in Data
               PROVE  taken'[c] <= 1 /\ (taken'[c] # 0 => state'[c] \in {"released", "deleted"})
    BY DEF Takes
  <2>1. CASE c = d
    BY <1>2, <1>3, <1>6, <2>1, ValueTaken DEF Takes, Kinds
  <2>2. CASE c # d
    <3>1. taken'[c] = taken[c] /\ taken[c] <= 1
      BY <1>2, <2>2, ValueTaken DEF Takes
    <3>2. taken[c] # 0 => state[c] \in {"released", "deleted"}
      BY <1>2 DEF Takes
    <3> QED
      BY <1>3, <1>6, <2>2, <3>1, <3>2
  <2> QED
    BY <2>1, <2>2
<1>15. PromiseTypes'
  <2>1. taken' \in [Data -> Nat]
    BY <1>2 DEF RunLink, PromiseTypes
  <2> QED
    BY <1>1, <1>2, <1>3, <1>5, <1>6, <2>1 DEF PromiseTypes, IsFuture
<1> QED
  BY <1>7, <1>8, <1>9, <1>10, <1>11, <1>12, <1>13, <1>14, <1>15 DEF PromiseInv, Owned

LEMMA LinkGivesFutureKeeps ==
  ASSUME PromiseInv, NEW d \in Data, NEW kind \in Kinds, Called(kind, d), RunLink(d, kind),
         LinkGivesFuture(d, kind, Head(links[d][kind]))
  PROVE  PromiseInv'
<1>0. PICK k, L, x, e0 : /\ k = Head(links[d][kind]) /\ L = TakeOff(d, kind)
                         /\ x = k.gives /\ e0 = k.to
  BY ZenonT(60)
<1> DEFINE made == << <<"notify", x>>, <<"abandon", e0>> >>
<1>1. /\ LinkOff(d, kind, k, L) /\ calls' = made \o calls /\ x # Null
      /\ state' = [state EXCEPT ![d] = IF kind = "move" THEN "released" ELSE @]
      /\ links' = [c \in Data |-> [m \in Kinds |->
                     IF c = x THEN L[c][m] \o L[e0][m] ELSE IF c = e0 THEN <<>> ELSE L[c][m]]]
      /\ owner' = [e \in Data |-> IF owner[e] = e0 THEN x ELSE owner[e]]
      /\ data' = [f \in Futures |-> IF data[f] = e0 THEN x ELSE data[f]]
      /\ UNCHANGED <<abandoned, wait, aborted>>
  BY <1>0, LinkTakenOff, ZenonT(60) DEF RunLink, LinkGivesFuture
<1>2. /\ PromiseTypes /\ Owned /\ Answers /\ ChainsRun /\ Takes
  BY DEF PromiseInv
<1>3. /\ k \in Link /\ e0 \in Data /\ x \in Data /\ e0 # d /\ x # e0
      /\ L \in [Data -> [Kinds -> Seq(Link)]]
      /\ \A c \in Data, m \in Kinds :
           /\ L[c][m] # <<>> => links[c][m] # <<>>
           /\ \A j \in Link : Contains(L[c][m], j) => Contains(links[c][m], j) /\ j.to # e0
           /\ \A e \in Data : Leads(L[c][m], e) <=> e # e0 /\ Leads(links[c][m], e)
           /\ Straight(L[c][m])
      /\ \A c, e \in Data : ~ (Leads(L[c]["ref"], e) /\ Leads(L[c]["move"], e))
      /\ owner[e0] = d /\ ~ Due("abandon", e0) /\ d \in Allocated
      /\ state[e0] = "unfulfilled" /\ taken[e0] = 0
      /\ owner[x] = "user" /\ x \in Allocated
  <2>1. x \in Data /\ owner[x] = "user" /\ x # e0
    BY <1>0, <1>1 DEF LinkOff
  <2>2. x \in Allocated
    BY <1>2, <2>1 DEF Owned, Lives
  <2> QED
    BY <1>0, <1>1, <2>1, <2>2, ZenonT(60) DEF LinkOff
<1>4. /\ made \in Seq(Functions \X Data)
      /\ \A c, y : /\ Contains(made, <<c, y>>)
                       <=> (c = "notify" /\ y = x) \/ (c = "abandon" /\ y = e0)
                   /\ Once(made, <<c, y>>)
  <2>1. /\ "notify" \in Functions /\ "abandon" \in Functions /\ "notify" # "abandon"
        /\ x \in Data /\ e0 \in Data
    BY <1>3 DEF Functions
  <2> QED
    BY <2>1, TwoCalls, SMTT(40)
<1> HIDE DEF made
<1>5. /\ calls' \in Seq(Functions \X Data)
      /\ \A c, y : Due(c, y) => Due(c, y)'
      /\ Due("notify", x)' /\ Due("abandon", e0)'
      /\ \A y : /\ Due("abandon", y)' <=> y = e0 \/ Due("abandon", y)
                /\ Due("free", y)' <=> Due("free", y)
                /\ Once(calls, <<"abandon", y>>) /\ (y = e0 => ~ Due("abandon", y))
                     => Once(calls, <<"abandon", y>>)'
                /\ Once(calls, <<"free", y>>) => Once(calls, <<"free", y>>)'
  <2>1. /\ calls' \in Seq(Functions \X Data)
        /\ \A c, y : Due(c, y)' <=> Contains(made, <<c, y>>) \/ Due(c, y)
        /\ \A c, y : Once(calls, <<c, y>>) /\ ~ (Contains(made, <<c, y>>) /\ Due(c, y))
                       => Once(calls, <<c, y>>)'
    BY <1>1, <1>2, <1>4, CallAdded
  <2>2. /\ Contains(made, <<"notify", x>>) /\ Contains(made, <<"abandon", e0>>)
        /\ \A y : /\ Contains(made, <<"abandon", y>>) <=> y = e0
                  /\ ~ Contains(made, <<"free", y>>)
    BY <1>4
  <2> QED
    BY <2>1, <2>2
<1>6. /\ state' \in [Data -> States]
      /\ state'[d] = IF kind = "move" THEN "released" ELSE state[d]
      /\ \A c \in Data : c # d => state'[c] = state[c]
      /\ Allocated' = Allocated
  <2>1. state \in [Data -> States] /\ "released" \in States
    BY <1>2 DEF PromiseTypes, States
  <2>2. /\ state' \in [Data -> States]
        /\ state'[d] = IF kind = "move" THEN "released" ELSE state[d]
        /\ \A c \in Data : c # d => state'[c] = state[c]
    BY <1>1, <2>1
  <2>3. \A c \in Data : state'[c] \in {"unused", "deleted"} <=> state[c] \in {"unused", "deleted"}
    BY <1>3, <2>2 DEF Allocated
  <2> QED
    BY <2>2, <2>3 DEF Allocated
<1>7. /\ \A e \in Data : owner'[e] = IF owner[e] = e0 THEN x ELSE owner[e]
      /\ \A f \in Futures : data'[f] = IF data[f] = e0 THEN x ELSE data[f]
      /\ owner' \in [Data -> Data \cup {"user", "none"}]
      /\ data' \in [Futures -> Data \cup {Null}]
  BY <1>1, <1>2, <1>3 DEF PromiseTypes
<1>8. /\ links' \in [Data -> [Kinds -> Seq(Link)]]
      /\ \A c \in Data, m \in Kinds :
           /\ c = x => links'[c][m] = L[x][m] \o L[e0][m]
           /\ c = e0 => links'[c][m] = <<>>
           /\ c # x /\ c # e0 => links'[c][m] = L[c][m]
  <2>1. \A c \in Data, m \in Kinds : L[c][m] \in Seq(Link)
    BY <1>3
  <2>2. \A m \in Kinds : L[x][m] \o L[e0][m] \in Seq(Link)
    BY <1>3, <2>1, ConcatIndices
  <2>3. \A c \in Data, m \in Kinds :
          links'[c][m] = IF c = x THEN L[x][m] \o L[e0][m] ELSE IF c = e0 THEN <<>> ELSE L[c][m]
    BY <1>1
  <2>4. \A c \in Data, m \in Kinds :
          (IF c = x THEN L[c][m] \o L[e0][m] ELSE IF c = e0 THEN <<>> ELSE L[c][m]) \in Seq(Link)
    BY <2>1, <2>2
  <2>5. links' \in [Data -> [Kinds -> Seq(Link)]]
    BY <1>1, <2>4
  <2> QED
    BY <1>3, <2>3, <2>5
<1>9. \A c \in Data, m \in Kinds, e \in Data : Leads(links[c][m], e) => owner[e] = c
  BY LeadsOwned
<1>10. ASSUME NEW c \in Data, NEW m \in Kinds
       PROVE  /\ \A j \in Link : Contains(links'[c][m], j) =>
                   /\ c # e0 /\ j.to # e0
                   /\ Contains(links[c][m], j) \/ (c = x /\ Contains(links[e0][m], j))
              /\ \A e \in Data : Leads(links'[c][m], e) <=>
                   /\ e # e0 /\ c # e0
                   /\ Leads(links[c][m], e) \/ (c = x /\ Leads(links[e0][m], e))
              /\ Straight(links'[c][m])
  <2>1. CASE c = x
    <3>1. links'[c][m] = L[x][m] \o L[e0][m]
      BY <1>8, <2>1
    <3>2. L[x][m] \in Seq(Link) /\ L[e0][m] \in Seq(Link)
      BY <1>3
    <3>3. \A j \in Link : Contains(links'[c][m], j) => Contains(L[x][m], j) \/ Contains(L[e0][m], j)
      BY <3>1, <3>2, ConcatContains
    <3>4. /\ \A j \in Link : /\ Contains(L[x][m], j) => Contains(links[x][m], j) /\ j.to # e0
                             /\ Contains(L[e0][m], j) => Contains(links[e0][m], j) /\ j.to # e0
          /\ \A e \in Data : /\ Leads(L[x][m], e) <=> e # e0 /\ Leads(links[x][m], e)
                             /\ Leads(L[e0][m], e) <=> e # e0 /\ Leads(links[e0][m], e)
          /\ Straight(L[x][m]) /\ Straight(L[e0][m])
      BY <1>3
    <3>5. \A e \in Data : /\ Leads(links[x][m], e) => owner[e] = x
                          /\ Leads(links[e0][m], e) => owner[e] = e0
      BY <1>3, <1>9
    <3>6. \A e \in Data : ~ (Leads(L[x][m], e) /\ Leads(L[e0][m], e))
      <4> SUFFICES ASSUME NEW e \in Data, Leads(L[x][m], e), Leads(L[e0][m], e) PROVE FALSE
        OBVIOUS
      <4>1. x # e0
        BY <1>3
      <4>2. Leads(links[x][m], e) /\ Leads(links[e0][m], e)
        BY <3>4
      <4>3. owner[e] = x /\ owner[e] = e0
        BY <3>5, <4>2
      <4> QED
        BY <4>1, <4>3
    <3>7. /\ \A e \in Data : Leads(links'[c][m], e) <=> Leads(L[x][m], e) \/ Leads(L[e0][m], e)
          /\ Straight(links'[c][m])
      BY <3>1, <3>2, <3>4, <3>6, ConcatLeads
    <3> QED
      BY <1>3, <2>1, <3>3, <3>4, <3>7
  <2>2. CASE c = e0
    <3>1. links'[c][m] = <<>>
      BY <1>8, <2>2
    <3>2. /\ \A j : ~ Contains(<<>>, j)
          /\ \A e : ~ Leads(<<>>, e)
          /\ Straight(<<>>)
      BY NoneContained DEF Leads, Straight
    <3> QED
      BY <2>2, <3>1, <3>2
  <2>3. CASE c # x /\ c # e0
    <3>1. links'[c][m] = L[c][m]
      BY <1>8, <2>3
    <3>2. /\ \A j \in Link : Contains(L[c][m], j) => Contains(links[c][m], j) /\ j.to # e0
          /\ \A e \in Data : Leads(L[c][m], e) <=> e # e0 /\ Leads(links[c][m], e)
          /\ Straight(L[c][m])
      BY <1>3
    <3> QED
      BY <2>3, <3>1, <3>2
  <2> QED
    BY <2>1, <2>2, <2>3
<1>11. LinksOwned'
  <2> SUFFICES ASSUME NEW c \in Data, NEW m \in Kinds, NEW j \in Link, Contains(links'[c][m], j)
               PROVE  /\ c \in Allocated' /\ owner'[j.to] = c /\ state'[j.to] = "unfulfilled"
                      /\ ~ Due("abandon", j.to)'
                      /\ j.gives # Null => owner'[j.gives] = "user" /\ ~ Due("abandon", j.gives)'
    BY DEF LinksOwned
  <2>1. j.to \in Data /\ (j.gives # Null => j.gives \in Data)
    BY DEF Link
  <2>2. PICK b \in {c, e0} : /\ Contains(links[b][m], j) /\ (b = e0 => c = x) /\ c # e0 /\ j.to # e0
    BY <1>10
  <2>3. /\ b \in Allocated /\ owner[j.to] = b /\ state[j.to] = "unfulfilled"
        /\ ~ Due("abandon", j.to)
        /\ j.gives # Null => owner[j.gives] = "user" /\ ~ Due("abandon", j.gives)
    BY <1>2, <1>3, <2>2 DEF Owned, LinksOwned
  <2>4. owner'[j.to] = c /\ c \in Allocated
    BY <1>3, <1>7, <2>1, <2>2, <2>3
  <2>5. state'[j.to] = "unfulfilled"
    BY <1>6, <2>1, <2>3, ValueTaken DEF Kinds
  <2>6. ASSUME j.gives # Null PROVE owner'[j.gives] = "user" /\ ~ Due("abandon", j.gives)'
    <3>1. owner[j.gives] = "user" /\ ~ Due("abandon", j.gives) /\ j.gives \in Data
      BY <2>1, <2>3, <2>6
    <3>2. j.gives # e0 /\ owner[j.gives] # e0
      BY <1>3, <3>1, PromiseAssumption
    <3> QED
      BY <1>5, <1>7, <3>1, <3>2
  <2> QED
    BY <1>5, <1>6, <2>2, <2>3, <2>4, <2>5, <2>6
<1>12. LinksOnce'
  <2> SUFFICES ASSUME NEW c \in Data, NEW e \in Data
               PROVE  ~ (Leads(links'[c]["ref"], e) /\ Leads(links'[c]["move"], e))
    BY <1>10 DEF LinksOnce
  <2>1. SUFFICES ASSUME Leads(links'[c]["ref"], e), Leads(links'[c]["move"], e) PROVE FALSE
    OBVIOUS
  <2>2. "ref" \in Kinds /\ "move" \in Kinds
    BY DEF Kinds
  <2>3. /\ e # e0 /\ c # e0
        /\ Leads(links[c]["ref"], e) \/ (c = x /\ Leads(links[e0]["ref"], e))
        /\ Leads(links[c]["move"], e) \/ (c = x /\ Leads(links[e0]["move"], e))
    BY <1>10, <2>1, <2>2
  <2>4. \A b \in Data : ~ (Leads(links[b]["ref"], e) /\ Leads(links[b]["move"], e))
    BY <1>2 DEF Owned, LinksOnce
  <2>5. /\ Leads(links[c]["ref"], e) \/ Leads(links[c]["move"], e) => owner[e] = c
        /\ Leads(links[e0]["ref"], e) \/ Leads(links[e0]["move"], e) => owner[e] = e0
    BY <1>3, <1>9, <2>2, SMTT(40)
  <2> QED
    BY <1>3, <2>3, <2>4, <2>5
<1>13. Owners'
  <2> SUFFICES ASSUME NEW e \in Data, owner'[e] \in Data
               PROVE  /\ owner'[e] # e
                      /\ Due("abandon", e)' \/ \E m \in Kinds : Leads(links'[owner'[e]][m], e)
    BY DEF Owners
  <2>1. CASE e = e0
    BY <1>3, <1>5, <1>7, <2>1
  <2>2. CASE e # e0
    <3>1. owner[e] \in Data
      BY <1>3, <1>7
    <3>2. /\ owner[e] # e
          /\ Due("abandon", e) \/ \E m \in Kinds : Leads(links[owner[e]][m], e)
      BY <1>2, <3>1 DEF Owned, Owners
    <3>3. owner'[e] # e
      BY <1>3, <1>7, <3>2, PromiseAssumption
    <3>4. ASSUME NEW m \in Kinds, Leads(links[owner[e]][m], e) PROVE Leads(links'[owner'[e]][m], e)
      BY <1>3, <1>7, <1>10, <2>2, <3>1, <3>4, SMTT(40)
    <3> QED
      BY <1>5, <3>2, <3>3, <3>4
  <2> QED
    BY <2>1, <2>2
<1>14. Lives'
  <2> SUFFICES ASSUME NEW c \in Data
               PROVE  /\ c \in abandoned' <=> owner'[c] = "none" /\ state'[c] # "unused"
                      /\ c \in Allocated' <=> \/ owner'[c] # "none" \/ Due("free", c)'
                                              \/ \E f \in Futures : data'[f] = c
    BY DEF Lives
  <2>1. /\ c \in abandoned <=> owner[c] = "none" /\ state[c] # "unused"
        /\ c \in Allocated <=> \/ owner[c] # "none" \/ Due("free", c)
                               \/ \E f \in Futures : data[f] = c
    BY <1>2 DEF Owned, Lives
  <2>2. owner'[c] = "none" <=> owner[c] = "none"
    BY <1>3, <1>7, PromiseAssumption
  <2>3. state'[c] = "unused" <=> state[c] = "unused"
    BY <1>3, <1>6 DEF Allocated
  <2>4. owner[x] # "none" /\ owner[e0] # "none"
    BY <1>3, PromiseAssumption
  <2>5. c # x /\ c # e0 => \A f \in Futures : data'[f] = c <=> data[f] = c
    BY <1>7
  <2> QED
    BY <1>1, <1>5, <1>6, <2>1, <2>2, <2>3, <2>4, <2>5
<1>15. CallsOnce'
  <2>1. \A c \in Data : owner'[c] = "none" <=> owner[c] = "none"
    BY <1>3, <1>7, PromiseAssumption
  <2>2. owner[e0] # "none"
    BY <1>3, PromiseAssumption
  <2> QED
    BY <1>1, <1>2, <1>3, <1>5, <2>1, <2>2 DEF Owned, CallsOnce
<1>16. Answers'
  <2> SUFFICES ASSUME NEW f \in Futures, wait[f] = "blocked"
               PROVE  \/ state'[data'[f]] = "unfulfilled" /\ data'[f] \notin abandoned
                      \/ \E call \in {"notify", "success", "lost"} : Due(call, data[f])'
    BY <1>1 DEF Answers
  <2>1. \/ state[data[f]] = "unfulfilled" /\ data[f] \notin abandoned
        \/ \E call \in {"notify", "success", "lost"} : Due(call, data[f])
    BY <1>2 DEF Answers
  <2>2. data[f] \in Data
    BY <1>2 DEF PromiseTypes, IsFuture
  <2>3. data[f] = d /\ kind = "move" => state[data[f]] # "unfulfilled"
    BY ValueTaken
  <2>4. CASE data[f] = e0
    <3>1. data'[f] = x
      BY <1>7, <2>4
    <3>2. Due("notify", data[f])'
      BY <1>5, <3>1 DEF Due
    <3> QED
      BY <3>2
  <2>5. CASE data[f] # e0
    <3>1. data'[f] = data[f]
      BY <1>7, <2>5
    <3>2. ASSUME state[data[f]] = "unfulfilled", data[f] \notin abandoned
          PROVE  state'[data'[f]] = "unfulfilled" /\ data'[f] \notin abandoned
      BY <1>6, <2>2, <2>3, <3>1, <3>2 DEF Kinds
    <3>3. ASSUME NEW call, Due(call, data[f]) PROVE Due(call, data[f])'
      BY <1>5, <3>1, <3>3 DEF Due
    <3> QED
      BY <2>1, <3>2, <3>3
  <2> QED
    BY <2>4, <2>5
<1>17. ChainsRun'
  <2> SUFFICES ASSUME NEW c \in Data, NEW m \in Kinds, state'[c] = "fulfilled", links'[c][m] # <<>>
               PROVE  Due("notify", c)' \/ Due(m, c)'
    BY DEF ChainsRun
  <2>1. CASE c = x
    BY <1>5, <2>1
  <2>2. CASE c # x
    <3>1. c # e0 /\ links'[c][m] = L[c][m]
      BY <1>8, <2>2
    <3>2. links[c][m] # <<>>
      BY <1>3, <3>1
    <3>3. state[c] = "fulfilled"
      BY <1>6
    <3>4. Due("notify", c) \/ Due(m, c)
      BY <1>2, <3>2, <3>3 DEF ChainsRun
    <3> QED
      BY <1>5, <3>4
  <2> QED
    BY <2>1, <2>2
<1>18. Takes'
  <2> SUFFICES ASSUME NEW c \in Data
               PROVE  taken'[c] <= 1 /\ (taken'[c] # 0 => state'[c] \in {"released", "deleted"})
    BY DEF Takes
  <2>1. CASE c = d
    BY <1>2, <1>6, <2>1, ValueTaken DEF Takes, Kinds
  <2>2. CASE c # d
    <3>1. taken'[c] = taken[c] /\ taken[c] <= 1
      BY <1>2, <2>2, ValueTaken DEF Takes
    <3>2. taken[c] # 0 => state[c] \in {"released", "deleted"}
      BY <1>2 DEF Takes
    <3> QED
      BY <1>6, <2>2, <3>1, <3>2, SMTT(40)
  <2> QED
    BY <2>1, <2>2
<1>19. PromiseTypes'
  <2>1. taken' \in [Data -> Nat]
    BY <1>2 DEF RunLink, PromiseTypes
  <2>2. \A f \in Futures : wait'[f] # "none" => data'[f] # Null
    BY <1>1, <1>2, <1>3, <1>7, PromiseAssumption DEF PromiseTypes, IsFuture
  <2> QED
    BY <1>1, <1>2, <1>5, <1>6, <1>7, <1>8, <2>1, <2>2 DEF PromiseTypes, IsFuture
<1> QED
  BY <1>11, <1>12, <1>13, <1>14, <1>15, <1>16, <1>17, <1>18, <1>19 DEF PromiseInv, Owned

LEMMA AbandonKeeps ==
  ASSUME PromiseInv, NEW d \in Data, Abandon(d)
  PROVE  PromiseInv'
<1> DEFINE made == << <<"notify", d>>, <<"free", d>> >>
<1>1. /\ Called("abandon", d) /\ Becomes(made)
      /\ abandoned' = abandoned \cup {d} /\ owner' = [owner EXCEPT ![d] = "none"]
      /\ UNCHANGED <<state, links, data, wait, taken, aborted>>
  BY DEF Abandon
<1>2. /\ PromiseTypes /\ Owned /\ Answers /\ ChainsRun /\ Takes
  BY DEF PromiseInv
<1>3. /\ made \in Seq(Functions \X Data)
      /\ \A c, y : /\ Contains(made, <<c, y>>) <=> (c = "notify" /\ y = d) \/ (c = "free" /\ y = d)
                   /\ Once(made, <<c, y>>)
  <2>1. "notify" \in Functions /\ "free" \in Functions /\ "notify" # "free"
    BY DEF Functions
  <2> QED
    BY <2>1, TwoCalls
<1> HIDE DEF made
<1>4. /\ calls' \in Seq(Functions \X Data)
      /\ \A c, y : Due(c, y) <=> (c = "abandon" /\ y = d) \/ Below(c, y)
      /\ \A c, y : Due(c, y)' <=> Contains(made, <<c, y>>) \/ Below(c, y)
      /\ \A c, y : Once(calls, <<c, y>>) =>
           /\ c = "abandon" /\ y = d => ~ Below(c, y)
           /\ ~ (Contains(made, <<c, y>>) /\ Below(c, y)) => Once(calls, <<c, y>>)'
  BY <1>1, <1>2, <1>3, CallMade
<1>5. /\ Due("abandon", d) /\ owner[d] # "none" /\ ~ Due("free", d) /\ d \in Allocated
      /\ d \notin abandoned
  <2>1. Due("abandon", d)
    BY <1>4
  <2> QED
    BY <1>2, <2>1 DEF Owned, CallsOnce, Lives
<1>6. /\ \A c, y : c # "abandon" /\ Due(c, y) => Due(c, y)'
      /\ Due("notify", d)'
      /\ \A y \in Data : /\ Due("abandon", y)' <=> y # d /\ Due("abandon", y)
                         /\ Due("free", y)' <=> y = d \/ Due("free", y)
                         /\ Once(calls, <<"abandon", y>>)' /\ Once(calls, <<"free", y>>)'
  <2>1. \A c, y : c # "abandon" /\ Due(c, y) => Due(c, y)'
    BY <1>4
  <2>2. /\ \A y : ~ Contains(made, <<"abandon", y>>)
        /\ \A y : Contains(made, <<"free", y>>) <=> y = d
        /\ Contains(made, <<"notify", d>>)
    BY <1>3
  <2>3. \A y \in Data : Once(calls, <<"abandon", y>>) /\ Once(calls, <<"free", y>>)
    BY <1>2 DEF Owned, CallsOnce
  <2>4. \A y \in Data : Due("abandon", y)' <=> y # d /\ Due("abandon", y)
    BY <1>4, <2>2, <2>3
  <2>5. \A y \in Data : Due("free", y)' <=> y = d \/ Due("free", y)
    BY <1>4, <2>2
  <2>6. ~ Below("free", d)
    BY <1>4, <1>5
  <2>7. \A y \in Data : Once(calls, <<"abandon", y>>)' /\ Once(calls, <<"free", y>>)'
    BY <1>4, <2>2, <2>3, <2>6
  <2> QED
    BY <1>4, <2>1, <2>2, <2>4, <2>5, <2>7
<1>7. /\ owner'[d] = "none" /\ \A e \in Data : e # d => owner'[e] = owner[e]
      /\ owner' \in [Data -> Data \cup {"user", "none"}]
  BY <1>1, <1>2 DEF PromiseTypes
<1>8. LinksOwned'
  <2> SUFFICES ASSUME NEW c \in Data, NEW m \in Kinds, NEW j \in Link, Contains(links[c][m], j)
               PROVE  /\ c \in Allocated' /\ owner'[j.to] = c /\ state'[j.to] = "unfulfilled"
                      /\ ~ Due("abandon", j.to)'
                      /\ j.gives # Null => owner'[j.gives] = "user" /\ ~ Due("abandon", j.gives)'
    BY <1>1 DEF LinksOwned
  <2>1. j.to \in Data /\ (j.gives # Null => j.gives \in Data)
    BY DEF Link
  <2>2. /\ c \in Allocated /\ owner[j.to] = c /\ state[j.to] = "unfulfilled"
        /\ ~ Due("abandon", j.to)
        /\ j.gives # Null => owner[j.gives] = "user" /\ ~ Due("abandon", j.gives)
    BY <1>2 DEF Owned, LinksOwned
  <2> QED
    BY <1>1, <1>5, <1>6, <1>7, <2>1, <2>2 DEF Allocated
<1>9. LinksOnce'
  BY <1>1, <1>2 DEF Owned, LinksOnce
<1>10. Owners'
  <2> SUFFICES ASSUME NEW e \in Data, owner'[e] \in Data
               PROVE  /\ owner'[e] # e
                      /\ Due("abandon", e)' \/ \E m \in Kinds : Leads(links[owner'[e]][m], e)
    BY <1>1 DEF Owners
  <2>1. e # d /\ owner'[e] = owner[e]
    BY <1>7, PromiseAssumption
  <2> QED
    BY <1>2, <1>6, <2>1 DEF Owned, Owners
<1>11. Lives'
  BY <1>1, <1>2, <1>5, <1>6, <1>7, ZenonT(60) DEF Owned, Lives, Allocated
<1>12. CallsOnce'
  BY <1>1, <1>2, <1>6, <1>7 DEF Owned, CallsOnce
<1>13. Answers'
  <2> SUFFICES ASSUME NEW f \in Futures, wait[f] = "blocked"
               PROVE  \/ state[data[f]] = "unfulfilled" /\ data[f] \notin abandoned'
                      \/ \E call \in {"notify", "success", "lost"} : Due(call, data[f])'
    BY <1>1 DEF Answers
  <2>1. CASE data[f] = d
    BY <1>1, <1>6, <2>1
  <2>2. CASE data[f] # d
    <3>1. \/ state[data[f]] = "unfulfilled" /\ data[f] \notin abandoned
          \/ \E call \in {"notify", "success", "lost"} : Due(call, data[f])
      BY <1>2 DEF Answers
    <3>2. ASSUME NEW call, call # "abandon", Due(call, data[f]) PROVE Due(call, data[f])'
      BY <1>1, <1>6, <3>2
    <3> QED
      BY <1>1, <2>2, <3>1, <3>2
  <2> QED
    BY <2>1, <2>2
<1>14. ChainsRun'
  BY <1>1, <1>2, <1>6 DEF ChainsRun, Kinds
<1>15. Takes'
  BY <1>1, <1>2 DEF Takes
<1>16. PromiseTypes'
  BY <1>1, <1>2, <1>4, <1>7 DEF PromiseTypes, IsFuture
<1> QED
  BY <1>8, <1>9, <1>10, <1>11, <1>12, <1>13, <1>14, <1>15, <1>16 DEF PromiseInv, Owned

\* What the destructor of a datum destroys.
LEMMA LinksDropped ==
  ASSUME PromiseInv, NEW d \in Data
  PROVE  LET made == DropLinks(d, "ref") \o DropLinks(d, "move") IN
         /\ made \in Seq(Functions \X Data)
         /\ \A c, y : Contains(made, <<c, y>>) <=>
              c = "abandon" /\ \E kind \in Kinds : Leads(links[d][kind], y)
         /\ \A c, y : Once(made, <<c, y>>)
<1>1. ASSUME NEW kind \in Kinds
      PROVE  /\ DropLinks(d, kind) \in Seq(Functions \X Data)
             /\ \A c, y : Contains(DropLinks(d, kind), <<c, y>>) <=>
                  c = "abandon" /\ Leads(links[d][kind], y)
             /\ \A c, y : Once(DropLinks(d, kind), <<c, y>>)
             /\ \A y : Leads(links[d][kind], y) => y \in Data
  <2> DEFINE q == links[d][kind]
             p == DropLinks(d, kind)
  <2>1. q \in Seq(Link) /\ Straight(q)
    BY DEF PromiseInv, PromiseTypes, Owned, LinksOnce
  <2>2. DOMAIN q = 1 .. Len(q) /\ Len(q) \in Nat /\ \A i \in DOMAIN q : q[i] \in Link
    BY <2>1
  <2>3. \A i \in DOMAIN q : q[i].to \in Data
    BY <2>2 DEF Link
  <2>4. DOMAIN p = DOMAIN q /\ \A i \in DOMAIN q : p[i] = <<"abandon", q[i].to>>
    BY DEF DropLinks
  <2>5. p \in Seq(Functions \X Data)
    <3>1. \A i \in DOMAIN q : <<"abandon", q[i].to>> \in Functions \X Data
      BY <2>3 DEF Functions
    <3>2. p = [i \in 1 .. Len(q) |-> <<"abandon", q[i].to>>]
      BY <2>2 DEF DropLinks
    <3>3. p \in [1 .. Len(q) -> Functions \X Data]
      BY <2>2, <3>1, <3>2
    <3> HIDE DEF p, q
    <3> DEFINE T == Functions \X Data
               n == Len(q)
    <3>4. n \in Nat /\ p \in [1 .. n -> T]
      BY <2>2, <3>3
    <3> HIDE DEF T, n
    <3>5. p \in Seq(T)
      BY <3>4, SeqDef
    <3> QED
      BY <3>5 DEF T
  <2> HIDE DEF p, q
  <2>6. \A c, y : Contains(p, <<c, y>>) <=> \E i \in DOMAIN p : p[i] = <<c, y>>
    BY <2>5, ContainsDomain
  <2>7. \A i \in DOMAIN q : \A c, y : p[i] = <<c, y>> <=> c = "abandon" /\ y = q[i].to
    BY <2>4
  <2>8. \A c, y : Contains(p, <<c, y>>) <=> c = "abandon" /\ Leads(q, y)
    <3> SUFFICES ASSUME NEW c, NEW y
                 PROVE  Contains(p, <<c, y>>) <=> c = "abandon" /\ Leads(q, y)
      OBVIOUS
    <3>1. Contains(p, <<c, y>>) <=> \E i \in DOMAIN q : c = "abandon" /\ y = q[i].to
      BY <2>4, <2>6, <2>7
    <3>2. Leads(q, y) <=> \E i \in DOMAIN q : y = q[i].to
      BY DEF Leads
    <3> QED
      BY <3>1, <3>2
  <2>9. \A c, y : Once(p, <<c, y>>)
    BY <2>1, <2>4, <2>7 DEF Once, Straight
  <2>10. \A y : Leads(q, y) => y \in Data
    BY <2>3 DEF Leads
  <2> QED
    BY <2>5, <2>8, <2>9, <2>10 DEF p, q
<1>2. "ref" \in Kinds /\ "move" \in Kinds /\ Kinds = {"ref", "move"}
  BY DEF Kinds
<1>3. \A y \in Data : ~ (Leads(links[d]["ref"], y) /\ Leads(links[d]["move"], y))
  BY DEF PromiseInv, Owned, LinksOnce
<1> DEFINE a == DropLinks(d, "ref")
           b == DropLinks(d, "move")
<1>4. /\ a \in Seq(Functions \X Data) /\ b \in Seq(Functions \X Data)
      /\ \A c, y : /\ Contains(a, <<c, y>>) <=> c = "abandon" /\ Leads(links[d]["ref"], y)
                   /\ Contains(b, <<c, y>>) <=> c = "abandon" /\ Leads(links[d]["move"], y)
                   /\ Once(a, <<c, y>>) /\ Once(b, <<c, y>>)
                   /\ ~ (Contains(a, <<c, y>>) /\ Contains(b, <<c, y>>))
  BY <1>1, <1>2, <1>3
<1> HIDE DEF a, b
<1>5. /\ a \o b \in Seq(Functions \X Data)
      /\ \A c, y : /\ Contains(a \o b, <<c, y>>) <=> Contains(a, <<c, y>>) \/ Contains(b, <<c, y>>)
                   /\ Once(a \o b, <<c, y>>)
  BY <1>4, ConcatContains, ConcatIndices
<1>6. \A c, y : Contains(a \o b, <<c, y>>) <=>
        c = "abandon" /\ \E kind \in Kinds : Leads(links[d][kind], y)
  BY <1>2, <1>4, <1>5
<1> QED
  BY <1>5, <1>6 DEF a, b

\* The datum has a future that deletes it later.
LEMMA FreeLaterKeeps ==
  ASSUME PromiseInv, NEW d \in Data, Free(d), FuturesOf(d) # {}
  PROVE  PromiseInv'
<1>1. /\ Called("free", d) /\ Becomes(<<>>) /\ <<>> \in Seq(Functions \X Data)
      /\ UNCHANGED <<state, abandoned, owner, links, data, wait, taken, aborted>>
  BY DEF Free
<1>2. /\ PromiseTypes /\ Owned /\ Answers /\ ChainsRun /\ Takes
  BY DEF PromiseInv
<1>3. \A c, y : ~ Contains(<<>>, <<c, y>>) /\ Once(<<>>, <<c, y>>)
  BY NoneContained
<1>4. /\ calls' \in Seq(Functions \X Data)
      /\ \A c, y : Due(c, y) <=> (c = "free" /\ y = d) \/ Below(c, y)
      /\ \A c, y : Due(c, y)' <=> Below(c, y)
      /\ \A c, y : Once(calls, <<c, y>>) => Once(calls, <<c, y>>)'
  BY <1>1, <1>2, <1>3, CallMade
<1>5. /\ \A c, y : c # "free" => (Due(c, y)' <=> Due(c, y))
      /\ \A y : y # d => (Due("free", y)' <=> Due("free", y))
      /\ \A c, y : Due(c, y)' => Due(c, y)
  BY <1>4
<1>6. \E f \in Futures : data[f] = d
  BY DEF FuturesOf
<1>7. LinksOwned'
  <2> SUFFICES ASSUME NEW c \in Data, NEW m \in Kinds, NEW j \in Link, Contains(links[c][m], j)
               PROVE  /\ c \in Allocated' /\ owner'[j.to] = c /\ state'[j.to] = "unfulfilled"
                      /\ ~ Due("abandon", j.to)'
                      /\ j.gives # Null => owner'[j.gives] = "user" /\ ~ Due("abandon", j.gives)'
    BY <1>1 DEF LinksOwned
  <2> QED
    BY <1>1, <1>2, <1>5 DEF Owned, LinksOwned, Allocated
<1>8. LinksOnce'
  BY <1>1, <1>2 DEF Owned, LinksOnce
<1>9. Owners'
  BY <1>1, <1>2, <1>5 DEF Owned, Owners
<1>10. Lives'
  BY <1>1, <1>2, <1>5, <1>6 DEF Owned, Lives, Allocated
<1>11. CallsOnce'
  BY <1>1, <1>2, <1>4, <1>5 DEF Owned, CallsOnce
<1>12. Answers'
  BY <1>1, <1>2, <1>5 DEF Answers
<1>13. ChainsRun'
  BY <1>1, <1>2, <1>5 DEF ChainsRun, Kinds
<1>14. Takes'
  BY <1>1, <1>2 DEF Takes
<1>15. PromiseTypes'
  BY <1>1, <1>2, <1>4 DEF PromiseTypes, IsFuture
<1> QED
  BY <1>7, <1>8, <1>9, <1>10, <1>11, <1>12, <1>13, <1>14, <1>15 DEF PromiseInv, Owned

\* The datum is deleted, and the promises of the links in its chains are next.
LEMMA FreeNowKeeps ==
  ASSUME PromiseInv, NEW d \in Data, Free(d), FuturesOf(d) = {}
  PROVE  PromiseInv'
<1> DEFINE made == DropLinks(d, "ref") \o DropLinks(d, "move")
<1>1. /\ Called("free", d) /\ Becomes(made)
      /\ state' = [state EXCEPT ![d] = "deleted"]
      /\ links' = [links EXCEPT ![d] = [kind \in Kinds |-> <<>>]]
      /\ UNCHANGED <<abandoned, owner, data, wait, taken, aborted>>
  BY DEF Free
<1>2. /\ PromiseTypes /\ Owned /\ Answers /\ ChainsRun /\ Takes
  BY DEF PromiseInv
<1>3. /\ made \in Seq(Functions \X Data)
      /\ \A c, y : Contains(made, <<c, y>>) <=>
           c = "abandon" /\ \E kind \in Kinds : Leads(links[d][kind], y)
      /\ \A c, y : Once(made, <<c, y>>)
  BY LinksDropped
<1> HIDE DEF made
<1>4. /\ calls' \in Seq(Functions \X Data)
      /\ \A c, y : Due(c, y) <=> (c = "free" /\ y = d) \/ Below(c, y)
      /\ \A c, y : Due(c, y)' <=> Contains(made, <<c, y>>) \/ Below(c, y)
      /\ \A c, y : Once(calls, <<c, y>>) =>
           /\ c = "free" /\ y = d => ~ Below(c, y)
           /\ ~ (Contains(made, <<c, y>>) /\ Below(c, y)) => Once(calls, <<c, y>>)'
  BY <1>1, <1>2, <1>3, CallMade
<1>5. \A y \in Data, kind \in Kinds : Leads(links[d][kind], y) =>
        owner[y] = d /\ ~ Due("abandon", y)
  BY LeadsOwned
<1>6. /\ d \in abandoned /\ owner[d] = "none" /\ d \in Allocated
      /\ \A f \in Futures : data[f] # d
  <2>1. Due("free", d)
    BY <1>4
  <2> QED
    BY <1>2, <2>1 DEF Owned, CallsOnce, Lives, FuturesOf
<1>7. /\ \A c, y : c # "free" /\ Due(c, y) => Due(c, y)'
      /\ \A y \in Data :
           /\ Due("abandon", y)' <=>
                Due("abandon", y) \/ \E kind \in Kinds : Leads(links[d][kind], y)
           /\ Due("free", y)' <=> y # d /\ Due("free", y)
           /\ Once(calls, <<"abandon", y>>)' /\ Once(calls, <<"free", y>>)'
  <2>1. \A c, y : c # "free" /\ Due(c, y) => Due(c, y)'
    BY <1>4
  <2>2. \A y \in Data : Once(calls, <<"abandon", y>>) /\ Once(calls, <<"free", y>>)
    BY <1>2 DEF Owned, CallsOnce
  <2>3. \A y \in Data :
          Due("abandon", y)' <=> Due("abandon", y) \/ \E kind \in Kinds : Leads(links[d][kind], y)
    BY <1>3, <1>4
  <2>4. \A y \in Data : ~ Contains(made, <<"free", y>>)
    BY <1>3
  <2>5. \A y \in Data : Due("free", y)' <=> y # d /\ Due("free", y)
    BY <1>4, <2>2, <2>4
  <2>6. \A y \in Data : Once(calls, <<"free", y>>)'
    BY <1>4, <2>2, <2>4
  <2>7. \A y \in Data : ~ (Contains(made, <<"abandon", y>>) /\ Below("abandon", y))
    BY <1>3, <1>4, <1>5
  <2>8. \A y \in Data : Once(calls, <<"abandon", y>>)'
    BY <1>4, <2>2, <2>7
  <2> QED
    BY <2>1, <2>3, <2>5, <2>6, <2>8
<1>8. /\ state' \in [Data -> States]
      /\ state'[d] = "deleted" /\ \A c \in Data : c # d => state'[c] = state[c]
      /\ \A c \in Data : c \in Allocated' <=> c # d /\ c \in Allocated
  <2>1. state \in [Data -> States] /\ "deleted" \in States
    BY <1>2 DEF PromiseTypes, States
  <2>2. /\ state' \in [Data -> States]
        /\ state'[d] = "deleted" /\ \A c \in Data : c # d => state'[c] = state[c]
    BY <1>1, <2>1
  <2> QED
    BY <2>2 DEF Allocated
<1>9. /\ links' \in [Data -> [Kinds -> Seq(Link)]]
      /\ \A m \in Kinds : links'[d][m] = <<>>
      /\ \A c \in Data : c # d => links'[c] = links[c]
  <2>1. <<>> \in Seq(Link)
    BY NoneContained
  <2> QED
    BY <1>1, <1>2, <2>1 DEF PromiseTypes
<1>10. LinksOwned'
  <2> SUFFICES ASSUME NEW c \in Data, NEW m \in Kinds, NEW j \in Link, Contains(links'[c][m], j)
               PROVE  /\ c \in Allocated' /\ owner'[j.to] = c /\ state'[j.to] = "unfulfilled"
                      /\ ~ Due("abandon", j.to)'
                      /\ j.gives # Null => owner'[j.gives] = "user" /\ ~ Due("abandon", j.gives)'
    BY DEF LinksOwned
  <2>1. j.to \in Data /\ (j.gives # Null => j.gives \in Data)
    BY DEF Link
  <2>2. c # d
    <3>1. ~ Contains(<<>>, j)
      BY NoneContained
    <3> QED
      BY <1>9, <3>1
  <2>3. Contains(links[c][m], j)
    BY <1>9, <2>2
  <2>4. /\ c \in Allocated /\ owner[j.to] = c /\ state[j.to] = "unfulfilled"
        /\ ~ Due("abandon", j.to)
        /\ j.gives # Null => owner[j.gives] = "user" /\ ~ Due("abandon", j.gives)
    BY <1>2, <2>3 DEF Owned, LinksOwned
  <2>5. j.to # d
    BY <1>6, <2>4, PromiseAssumption
  <2>6. ~ Due("abandon", j.to)'
    BY <1>5, <1>7, <2>1, <2>2, <2>4
  <2>7. j.gives # Null => ~ Due("abandon", j.gives)'
    BY <1>5, <1>7, <2>1, <2>4, PromiseAssumption
  <2> QED
    BY <1>1, <1>8, <2>1, <2>2, <2>4, <2>5, <2>6, <2>7
<1>11. LinksOnce'
  <2>1. Straight(<<>>) /\ \A e : ~ Leads(<<>>, e)
    BY DEF Straight, Leads
  <2>2. \A c \in Data, m \in Kinds :
          Straight(links'[c][m]) /\ \A e \in Data : Leads(links'[c][m], e) => Leads(links[c][m], e)
    BY <1>2, <1>9, <2>1 DEF Owned, LinksOnce
  <2> QED
    BY <1>2, <2>2 DEF Owned, LinksOnce, Kinds
<1>12. Owners'
  <2> SUFFICES ASSUME NEW e \in Data, owner[e] \in Data
               PROVE  /\ owner[e] # e
                      /\ Due("abandon", e)' \/ \E m \in Kinds : Leads(links'[owner[e]][m], e)
    BY <1>1 DEF Owners
  <2>1. /\ owner[e] # e
        /\ Due("abandon", e) \/ \E m \in Kinds : Leads(links[owner[e]][m], e)
    BY <1>2 DEF Owned, Owners
  <2>2. owner[e] # d => links'[owner[e]] = links[owner[e]]
    BY <1>9
  <2> QED
    BY <1>7, <2>1, <2>2
<1>13. Lives'
  <2> SUFFICES ASSUME NEW c \in Data
               PROVE  /\ c \in abandoned' <=> owner'[c] = "none" /\ state'[c] # "unused"
                      /\ c \in Allocated' <=> \/ owner'[c] # "none" \/ Due("free", c)'
                                              \/ \E f \in Futures : data'[f] = c
    BY DEF Lives
  <2>1. /\ c \in abandoned <=> owner[c] = "none" /\ state[c] # "unused"
        /\ c \in Allocated <=> \/ owner[c] # "none" \/ Due("free", c)
                               \/ \E f \in Futures : data[f] = c
    BY <1>2 DEF Owned, Lives
  <2> QED
    BY <1>1, <1>6, <1>7, <1>8, <2>1
<1>14. CallsOnce'
  <2>1. \A y \in Data, kind \in Kinds : Leads(links[d][kind], y) => owner[y] # "none"
    BY <1>5, PromiseAssumption
  <2>2. \A y \in Data : /\ Due("abandon", y) => owner[y] # "none"
                        /\ Due("free", y) => y \in abandoned
    BY <1>2 DEF Owned, CallsOnce
  <2> QED
    BY <1>1, <1>7, <2>1, <2>2 DEF CallsOnce
<1>15. Answers'
  <2> SUFFICES ASSUME NEW f \in Futures, wait[f] = "blocked"
               PROVE  \/ state'[data[f]] = "unfulfilled" /\ data[f] \notin abandoned
                      \/ \E call \in {"notify", "success", "lost"} : Due(call, data[f])'
    BY <1>1 DEF Answers
  <2>1. \/ state[data[f]] = "unfulfilled" /\ data[f] \notin abandoned
        \/ \E call \in {"notify", "success", "lost"} : Due(call, data[f])
    BY <1>2 DEF Answers
  <2>2. data[f] \in Data /\ data[f] # d
    BY <1>2, <1>6 DEF PromiseTypes, IsFuture
  <2>3. ASSUME NEW call \in {"notify", "success", "lost"}, Due(call, data[f])
        PROVE  Due(call, data[f])'
    BY <1>1, <1>7, <2>3
  <2>4. state[data[f]] = "unfulfilled" => state'[data[f]] = "unfulfilled"
    BY <1>8, <2>2
  <2> QED
    BY <1>1, <2>1, <2>3, <2>4
<1>16. ChainsRun'
  <2> SUFFICES ASSUME NEW c \in Data, NEW m \in Kinds, state'[c] = "fulfilled", links'[c][m] # <<>>
               PROVE  Due("notify", c)' \/ Due(m, c)'
    BY DEF ChainsRun
  <2>1. c # d /\ state[c] = "fulfilled" /\ links[c][m] # <<>>
    BY <1>8, <1>9
  <2>2. Due("notify", c) \/ Due(m, c)
    BY <1>2, <2>1 DEF ChainsRun
  <2>3. m # "free"
    BY DEF Kinds
  <2> QED
    BY <1>7, <2>2, <2>3
<1>17. Takes'
  BY <1>1, <1>2, <1>8 DEF Takes
<1>18. PromiseTypes'
  BY <1>1, <1>2, <1>4, <1>8, <1>9 DEF PromiseTypes, IsFuture
<1> QED
  BY <1>10, <1>11, <1>12, <1>13, <1>14, <1>15, <1>16, <1>17, <1>18 DEF PromiseInv, Owned

LEMMA MakeCallKeeps ==
  ASSUME PromiseInv, NEW d \in Data, MakeCall(d)
  PROVE  PromiseInv'
<1>1. ASSUME NEW kind \in Kinds, ClearChain(d, kind) PROVE PromiseInv'
  BY <1>1, ChainEmptyKeeps, DeleteLinkKeeps, LinkGivesValueKeeps, LinkGivesFutureKeeps
  DEF ClearChain, RunLink
<1> QED
  BY <1>1, NotifyAllKeeps, TellKeeps, AbandonKeeps, FreeLaterKeeps, FreeNowKeeps DEF MakeCall
-----------------------------------------------------------------------------
\* What the program does.

\* Between two calls the invariant says this.
Quiet ==
  /\ PromiseTypes
  /\ \A c, d : ~ Due(c, d)
  /\ \A d \in Data, kind \in Kinds, k \in Link : Contains(links[d][kind], k) =>
       /\ d \in Allocated /\ owner[k.to] = d /\ state[k.to] = "unfulfilled"
       /\ k.gives # Null => owner[k.gives] = "user"
  /\ LinksOnce
  /\ \A e \in Data : owner[e] \in Data =>
       owner[e] # e /\ \E kind \in Kinds : Leads(links[owner[e]][kind], e)
  /\ \A d \in Data :
       /\ d \in abandoned <=> owner[d] = "none" /\ state[d] # "unused"
       /\ d \in Allocated <=> owner[d] # "none" \/ \E f \in Futures : data[f] = d
       /\ state[d] = "unused" => /\ owner[d] = "none" /\ d \notin abandoned /\ taken[d] = 0
                                 /\ \A f \in Futures : data[f] # d
                                 /\ \A kind \in Kinds : links[d][kind] = <<>>
  /\ \A f \in Futures : wait[f] = "blocked" =>
       data[f] \in Data /\ state[data[f]] = "unfulfilled" /\ data[f] \notin abandoned
  /\ \A d \in Data, kind \in Kinds : state[d] = "fulfilled" => links[d][kind] = <<>>
  /\ Takes

LEMMA NothingDue ==
  ASSUME PromiseInv, calls = <<>>
  PROVE  Quiet
<1>1. /\ PromiseTypes /\ Owned /\ Answers /\ ChainsRun /\ Takes
  BY DEF PromiseInv
<1>2. \A c, d : ~ Due(c, d)
  BY NoneContained DEF Due
<1>3. \A d \in Data, kind \in Kinds, k \in Link : Contains(links[d][kind], k) =>
        /\ d \in Allocated /\ owner[k.to] = d /\ state[k.to] = "unfulfilled"
        /\ k.gives # Null => owner[k.gives] = "user"
  BY <1>1 DEF Owned, LinksOwned
<1>4. LinksOnce
  BY <1>1 DEF Owned
<1>5. \A e \in Data : owner[e] \in Data =>
        owner[e] # e /\ \E kind \in Kinds : Leads(links[owner[e]][kind], e)
  BY <1>1, <1>2 DEF Owned, Owners
<1>6. \A d \in Data :
        /\ d \in abandoned <=> owner[d] = "none" /\ state[d] # "unused"
        /\ d \in Allocated <=> owner[d] # "none" \/ \E f \in Futures : data[f] = d
  BY <1>1, <1>2 DEF Owned, Lives
<1>7. ASSUME NEW d \in Data, state[d] = "unused"
      PROVE  /\ owner[d] = "none" /\ d \notin abandoned /\ taken[d] = 0
             /\ \A f \in Futures : data[f] # d
             /\ \A kind \in Kinds : links[d][kind] = <<>>
  <2>1. d \notin Allocated
    BY <1>7 DEF Allocated
  <2>2. ASSUME NEW kind \in Kinds, links[d][kind] # <<>> PROVE FALSE
    <3>1. links[d][kind] \in Seq(Link)
      BY <1>1 DEF PromiseTypes
    <3>2. PICK k \in Link : Contains(links[d][kind], k)
      BY <2>2, <3>1, LeadsContains
    <3> QED
      BY <1>3, <2>1, <3>2
  <2>3. taken[d] = 0
    BY <1>1, <1>7 DEF Takes
  <2> QED
    BY <1>6, <1>7, <2>1, <2>2, <2>3
<1>8. \A f \in Futures : wait[f] = "blocked" =>
        data[f] \in Data /\ state[data[f]] = "unfulfilled" /\ data[f] \notin abandoned
  BY <1>1, <1>2 DEF Answers, PromiseTypes, IsFuture
<1>9. \A d \in Data, kind \in Kinds : state[d] = "fulfilled" => links[d][kind] = <<>>
  BY <1>1, <1>2 DEF ChainsRun
<1> QED
  BY <1>1, <1>2, <1>3, <1>4, <1>5, <1>6, <1>7, <1>8, <1>9 DEF Quiet

LEMMA NoneBegun ==
  ASSUME calls = <<>>, calls' = <<>>
  PROVE  /\ calls' \in Seq(Functions \X Data)
         /\ \A c, d : ~ Due(c, d)'
         /\ \A c, d : Once(calls, <<c, d>>)'
<1>1. /\ <<>> \in Seq(Functions \X Data)
      /\ \A c, d : ~ Contains(<<>>, <<c, d>>) /\ Once(<<>>, <<c, d>>)
  BY NoneContained
<1> QED
  BY <1>1, CallBegun

LEMMA OneBegun ==
  ASSUME calls = <<>>, NEW call \in Functions, NEW x \in Data, calls' = << <<call, x>> >>
  PROVE  /\ calls' \in Seq(Functions \X Data)
         /\ \A c, d : Due(c, d)' <=> c = call /\ d = x
         /\ \A c, d : Once(calls, <<c, d>>)'
<1> DEFINE made == << <<call, x>> >>
<1>1. /\ made \in Seq(Functions \X Data)
      /\ \A c, d : /\ Contains(made, <<c, d>>) <=> c = call /\ d = x
                   /\ Once(made, <<c, d>>)
  BY OneCall
<1>2. calls' = made
  OBVIOUS
<1> HIDE DEF made
<1> QED
  BY <1>1, <1>2, CallBegun

\* A step that leaves the chains alone, and the promises and data in them.
LEMMA ChainsKept ==
  ASSUME Quiet, UNCHANGED links,
         \A c \in Data : c \in Allocated => c \in Allocated',
         \A e \in Data : owner[e] \in Data =>
           /\ owner'[e] = owner[e] /\ ~ Due("abandon", e)'
           /\ state[e] = "unfulfilled" => state'[e] = "unfulfilled",
         \A e \in Data : owner'[e] \in Data => owner[e] \in Data,
         \A x \in Data : owner[x] = "user" =>
           /\ owner'[x] = "user"
           /\ Due("abandon", x)' => ~ Captured(x)
  PROVE  LinksOwned' /\ LinksOnce' /\ Owners'
<1>1. LinksOwned'
  <2> SUFFICES ASSUME NEW c \in Data, NEW m \in Kinds, NEW j \in Link, Contains(links[c][m], j)
               PROVE  /\ c \in Allocated' /\ owner'[j.to] = c /\ state'[j.to] = "unfulfilled"
                      /\ ~ Due("abandon", j.to)'
                      /\ j.gives # Null => owner'[j.gives] = "user" /\ ~ Due("abandon", j.gives)'
    BY DEF LinksOwned
  <2>1. j.to \in Data /\ (j.gives # Null => j.gives \in Data)
    BY DEF Link
  <2>2. /\ c \in Allocated /\ owner[j.to] = c /\ state[j.to] = "unfulfilled"
        /\ j.gives # Null => owner[j.gives] = "user"
    BY DEF Quiet
  <2>3. Captured(j.gives)
    <3>1. links[c][m] \in Seq(Link)
      BY DEF Quiet, PromiseTypes
    <3>2. PICK i \in DOMAIN links[c][m] : links[c][m][i] = j
      BY <3>1, ContainsDomain
    <3> QED
      BY <3>2 DEF Captured
  <2>4. owner'[j.to] = owner[j.to] /\ state'[j.to] = "unfulfilled" /\ ~ Due("abandon", j.to)'
    BY <2>1, <2>2
  <2>5. j.gives # Null => owner'[j.gives] = "user" /\ ~ Due("abandon", j.gives)'
    BY <2>1, <2>2, <2>3
  <2> QED
    BY <2>2, <2>4, <2>5
<1>2. LinksOnce'
  BY DEF Quiet, LinksOnce
<1>3. Owners'
  BY DEF Quiet, Owners
<1> QED
  BY <1>1, <1>2, <1>3

\* wait(), and get() and copy() when it is over.
LEMMA WaitKeeps ==
  ASSUME PromiseInv, calls = <<>>, NEW f \in Futures, Block(f) \/ GiveUp(f) \/ Get(f)
  PROVE  PromiseInv'
<1>1. /\ Quiet /\ PromiseTypes
      /\ UNCHANGED <<state, abandoned, owner, links, data, taken, calls>>
      /\ wait' \in [Futures -> {"none", "blocked", "success", "lost"}]
      /\ aborted' \in BOOLEAN
      /\ \A g \in Futures : /\ wait'[g] = "blocked" =>
                                 \/ wait[g] = "blocked"
                                 \/ state[data[g]] = "unfulfilled" /\ data[g] \notin abandoned
                            /\ wait'[g] # "none" => data[g] # Null
  <2>1. Quiet /\ PromiseTypes
    BY NothingDue DEF Quiet
  <2>2. CASE Block(f)
    BY <2>1, <2>2 DEF Block, PromiseTypes, IsFuture
  <2>3. CASE GiveUp(f)
    BY <2>1, <2>3 DEF GiveUp, PromiseTypes, IsFuture
  <2>4. CASE Get(f)
    BY <2>1, <2>4 DEF Get, PromiseTypes, IsFuture
  <2> QED
    BY <2>1, <2>2, <2>3, <2>4
<1>2. /\ calls' \in Seq(Functions \X Data)
      /\ \A c, d : ~ Due(c, d)'
      /\ \A c, d : Once(calls, <<c, d>>)'
  BY <1>1, NoneBegun
<1>3. Owned'
  <2>1. \A d \in Data : \A call \in {"abandon", "free"} :
          (Due(call, d)' <=> Due(call, d)) /\ Once(calls, <<call, d>>)'
    BY <1>1, <1>2 DEF Quiet
  <2>2. Owned /\ UNCHANGED <<state, abandoned, owner, links, data>>
    BY <1>1 DEF PromiseInv
  <2> QED
    BY <2>1, <2>2, OwnedKept
<1>4. Answers'
  BY <1>1 DEF Quiet, Answers
<1>5. ChainsRun'
  BY <1>1 DEF Quiet, ChainsRun
<1>6. Takes'
  BY <1>1 DEF Quiet, Takes
<1>7. PromiseTypes'
  BY <1>1, <1>2 DEF PromiseTypes, IsFuture
<1> QED
  BY <1>3, <1>4, <1>5, <1>6, <1>7 DEF PromiseInv

LEMMA ReleaseKeeps ==
  ASSUME PromiseInv, calls = <<>>, NEW f \in Futures, Release(f)
  PROVE  PromiseInv'
<1>0. PICK d : d = data[f]
  OBVIOUS
<1>1. /\ Quiet /\ PromiseTypes /\ d \in Data
      /\ IF state[d] = "fulfilled" THEN MoveOut(d) ELSE UNCHANGED <<state, taken>>
      /\ wait' = [wait EXCEPT ![f] = "none"]
      /\ UNCHANGED <<abandoned, owner, links, data, aborted, calls>>
  BY <1>0, NothingDue DEF Quiet, PromiseTypes, Release, CanUse, IsFuture
<1>2. /\ state' \in [Data -> States] /\ taken' \in [Data -> Nat]
      /\ \A c \in Data : state'[c] = state[c] \/ (state[c] = "fulfilled" /\ state'[c] = "released")
      /\ \A c \in Data : /\ taken'[c] <= 1
                         /\ taken'[c] # 0 => state'[c] \in {"released", "deleted"}
  <2>1. state \in [Data -> States] /\ taken \in [Data -> Nat] /\ "released" \in States
    BY <1>1 DEF PromiseTypes, States
  <2>2. \A c \in Data : taken[c] <= 1 /\ (taken[c] # 0 => state[c] \in {"released", "deleted"})
    BY <1>1 DEF Quiet, Takes
  <2>3. CASE state[d] = "fulfilled"
    <3>1. /\ state' = [state EXCEPT ![d] = "released"]
          /\ taken' = [taken EXCEPT ![d] = @ + 1]
      BY <1>1, <2>3 DEF MoveOut
    <3>2. taken[d] = 0
      BY <1>1, <2>2, <2>3
    <3> QED
      BY <1>1, <2>1, <2>2, <2>3, <3>1, <3>2
  <2>4. CASE state[d] # "fulfilled"
    <3>1. state' = state /\ taken' = taken
      BY <1>1, <2>4
    <3> QED
      BY <2>1, <2>2, <3>1
  <2> QED
    BY <2>3, <2>4
<1>3. /\ calls' \in Seq(Functions \X Data)
      /\ \A c, y : ~ Due(c, y)'
      /\ \A c, y : Once(calls, <<c, y>>)'
  BY <1>1, NoneBegun
<1>4. Allocated' = Allocated /\ \A c \in Data : state'[c] = "unused" <=> state[c] = "unused"
  BY <1>2 DEF Allocated
<1>5. LinksOwned' /\ LinksOnce' /\ Owners'
  BY <1>1, <1>2, <1>3, <1>4, ChainsKept
<1>6. Lives'
  BY <1>1, <1>3, <1>4 DEF Quiet, Lives
<1>7. CallsOnce'
  BY <1>3 DEF CallsOnce
<1>8. \A g \in Futures : wait'[g] = wait[g] \/ wait'[g] = "none"
  BY <1>1 DEF PromiseTypes
<1>9. Answers'
  BY <1>1, <1>2, <1>8 DEF Quiet, Answers
<1>10. ChainsRun'
  BY <1>1, <1>2 DEF Quiet, ChainsRun
<1>11. Takes'
  BY <1>2 DEF Takes
<1>12. PromiseTypes'
  BY <1>1, <1>2, <1>3, <1>8 DEF PromiseTypes, IsFuture
<1> QED
  BY <1>5, <1>6, <1>7, <1>9, <1>10, <1>11, <1>12 DEF PromiseInv, Owned

LEMMA FulfillKeeps ==
  ASSUME PromiseInv, calls = <<>>, NEW d \in Data, Fulfill(d)
  PROVE  PromiseInv'
<1>1. /\ Quiet /\ PromiseTypes /\ owner[d] = "user" /\ state[d] = "unfulfilled"
      /\ state' = [state EXCEPT ![d] = "fulfilled"]
      /\ calls' = << <<"notify", d>> >> /\ "notify" \in Functions
      /\ UNCHANGED <<abandoned, owner, links, data, wait, taken, aborted>>
  BY NothingDue DEF Quiet, Fulfill, HasPromise, Functions
<1>2. /\ state' \in [Data -> States]
      /\ state'[d] = "fulfilled" /\ \A c \in Data : c # d => state'[c] = state[c]
  <2>1. state \in [Data -> States] /\ "fulfilled" \in States
    BY <1>1 DEF PromiseTypes, States
  <2> QED
    BY <1>1, <2>1
<1>3. /\ calls' \in Seq(Functions \X Data)
      /\ \A c, y : Due(c, y)' <=> c = "notify" /\ y = d
      /\ \A c, y : Once(calls, <<c, y>>)'
  BY <1>1, OneBegun
<1>4. Allocated' = Allocated /\ \A c \in Data : state'[c] = "unused" <=> state[c] = "unused"
  BY <1>1, <1>2 DEF Allocated
<1>5. LinksOwned' /\ LinksOnce' /\ Owners'
  <2>1. \A e \in Data : owner[e] \in Data => e # d
    BY <1>1, PromiseAssumption
  <2>2. \A e : ~ Due("abandon", e)'
    BY <1>3
  <2> QED
    BY <1>1, <1>2, <1>4, <2>1, <2>2, ChainsKept
<1>6. Lives'
  BY <1>1, <1>3, <1>4 DEF Quiet, Lives
<1>7. CallsOnce'
  BY <1>3 DEF CallsOnce
<1>8. Answers'
  <2> SUFFICES ASSUME NEW f \in Futures, wait[f] = "blocked"
               PROVE  \/ state'[data[f]] = "unfulfilled" /\ data[f] \notin abandoned
                      \/ \E call \in {"notify", "success", "lost"} : Due(call, data[f])'
    BY <1>1 DEF Answers
  <2>1. data[f] \in Data /\ state[data[f]] = "unfulfilled" /\ data[f] \notin abandoned
    BY <1>1 DEF Quiet
  <2>2. data[f] = d => Due("notify", data[f])'
    BY <1>1, <1>3
  <2> QED
    BY <1>2, <2>1, <2>2
<1>9. ChainsRun'
  <2>1. Due("notify", d)'
    BY <1>3
  <2> QED
    BY <1>1, <1>2, <2>1 DEF Quiet, ChainsRun
<1>10. Takes'
  <2>1. \A c \in Data : taken[c] <= 1 /\ (taken[c] # 0 => state[c] \in {"released", "deleted"})
    BY <1>1 DEF Quiet, Takes
  <2> QED
    BY <1>1, <1>2, <2>1 DEF Takes
<1>11. PromiseTypes'
  BY <1>1, <1>2, <1>3 DEF PromiseTypes, IsFuture
<1> QED
  BY <1>5, <1>6, <1>7, <1>8, <1>9, <1>10, <1>11 DEF PromiseInv, Owned

LEMMA MakePromiseKeeps ==
  ASSUME PromiseInv, calls = <<>>, NEW d \in Data, MakePromise(d)
  PROVE  PromiseInv'
<1>1. /\ Quiet /\ PromiseTypes /\ state[d] = "unused"
      /\ state' = [state EXCEPT ![d] = "unfulfilled"]
      /\ owner' = [owner EXCEPT ![d] = "user"]
      /\ UNCHANGED <<abandoned, links, data, wait, taken, aborted, calls>>
  BY NothingDue DEF Quiet, MakePromise, Unused
<1>2. /\ state' \in [Data -> States] /\ owner' \in [Data -> Data \cup {"user", "none"}]
      /\ state'[d] = "unfulfilled" /\ \A c \in Data : c # d => state'[c] = state[c]
      /\ owner'[d] = "user" /\ \A c \in Data : c # d => owner'[c] = owner[c]
  <2>1. state \in [Data -> States] /\ "unfulfilled" \in States
    BY <1>1 DEF PromiseTypes, States
  <2>2. owner \in [Data -> Data \cup {"user", "none"}]
    BY <1>1 DEF PromiseTypes
  <2>3. /\ state' \in [Data -> States]
        /\ state'[d] = "unfulfilled" /\ \A c \in Data : c # d => state'[c] = state[c]
    BY <1>1, <2>1
  <2>4. /\ owner' \in [Data -> Data \cup {"user", "none"}]
        /\ owner'[d] = "user" /\ \A c \in Data : c # d => owner'[c] = owner[c]
    BY <1>1, <2>2
  <2> QED
    BY <2>3, <2>4
<1>3. /\ calls' \in Seq(Functions \X Data)
      /\ \A c, y : ~ Due(c, y)'
      /\ \A c, y : Once(calls, <<c, y>>)'
  BY <1>1, NoneBegun
<1>4. /\ owner[d] = "none" /\ d \notin abandoned /\ taken[d] = 0
      /\ \A f \in Futures : data[f] # d
      /\ \A kind \in Kinds : links[d][kind] = <<>>
  BY <1>1 DEF Quiet
<1>5. \A c \in Data : c \in Allocated' <=> c = d \/ c \in Allocated
  BY <1>2 DEF Allocated
<1>6. LinksOwned' /\ LinksOnce' /\ Owners'
  BY <1>1, <1>2, <1>3, <1>4, <1>5, PromiseAssumption, ChainsKept
<1>7. Lives'
  BY <1>1, <1>2, <1>3, <1>4, <1>5 DEF Quiet, Lives
<1>8. CallsOnce'
  BY <1>3 DEF CallsOnce
<1>9. Answers'
  BY <1>1, <1>2 DEF Quiet, Answers
<1>10. ChainsRun'
  BY <1>1, <1>2 DEF Quiet, ChainsRun
<1>11. Takes'
  <2>1. \A c \in Data : taken[c] <= 1 /\ (taken[c] # 0 => state[c] \in {"released", "deleted"})
    BY <1>1 DEF Quiet, Takes
  <2> QED
    BY <1>1, <1>2, <1>4, <2>1 DEF Takes
<1>12. PromiseTypes'
  BY <1>1, <1>2, <1>3 DEF PromiseTypes, IsFuture
<1> QED
  BY <1>6, <1>7, <1>8, <1>9, <1>10, <1>11, <1>12 DEF PromiseInv, Owned

LEMMA GetFutureKeeps ==
  ASSUME PromiseInv, calls = <<>>, NEW d \in Data, NEW f \in Futures, GetFuture(d, f)
  PROVE  PromiseInv'
<1>1. /\ Quiet /\ PromiseTypes /\ owner[d] = "user" /\ data[f] = Null /\ wait[f] = "none"
      /\ data' = [data EXCEPT ![f] = d]
      /\ UNCHANGED <<state, abandoned, owner, links, wait, taken, aborted, calls>>
  BY NothingDue DEF Quiet, GetFuture, HasPromise, IsFuture, PromiseTypes
<1>2. /\ data' \in [Futures -> Data \cup {Null}]
      /\ data'[f] = d /\ \A g \in Futures : g # f => data'[g] = data[g]
  BY <1>1 DEF PromiseTypes
<1>3. /\ calls' \in Seq(Functions \X Data)
      /\ \A c, y : ~ Due(c, y)'
      /\ \A c, y : Once(calls, <<c, y>>)'
  BY <1>1, NoneBegun
<1>4. LinksOwned' /\ LinksOnce' /\ Owners'
  <2>1. Allocated' = Allocated
    BY <1>1 DEF Allocated
  <2> QED
    BY <1>1, <1>3, <2>1, ChainsKept
<1>5. Lives'
  BY <1>1, <1>2, <1>3, PromiseAssumption DEF Quiet, Lives, Allocated
<1>6. CallsOnce'
  BY <1>3 DEF CallsOnce
<1>7. Answers'
  BY <1>1, <1>2 DEF Quiet, Answers
<1>8. ChainsRun'
  BY <1>1 DEF Quiet, ChainsRun
<1>9. Takes'
  BY <1>1 DEF Quiet, Takes
<1>10. PromiseTypes'
  BY <1>1, <1>2, <1>3, PromiseAssumption DEF PromiseTypes, IsFuture
<1> QED
  BY <1>4, <1>5, <1>6, <1>7, <1>8, <1>9, <1>10 DEF PromiseInv, Owned

LEMMA DropPromiseKeeps ==
  ASSUME PromiseInv, calls = <<>>, NEW d \in Data, DropPromise(d)
  PROVE  PromiseInv'
<1>1. /\ Quiet /\ PromiseTypes /\ owner[d] = "user" /\ ~ Captured(d)
      /\ calls' = << <<"abandon", d>> >> /\ "abandon" \in Functions
      /\ UNCHANGED <<state, abandoned, owner, links, data, wait, taken, aborted>>
  BY NothingDue DEF Quiet, DropPromise, HasPromise, Functions
<1>2. /\ calls' \in Seq(Functions \X Data)
      /\ \A c, y : Due(c, y)' <=> c = "abandon" /\ y = d
      /\ \A c, y : Once(calls, <<c, y>>)'
  BY <1>1, OneBegun
<1>3. LinksOwned' /\ LinksOnce' /\ Owners'
  <2>1. Allocated' = Allocated
    BY <1>1 DEF Allocated
  <2>2. \A e \in Data : owner[e] \in Data => ~ Due("abandon", e)'
    BY <1>1, <1>2, PromiseAssumption
  <2>3. \A x \in Data : Due("abandon", x)' => ~ Captured(x)
    BY <1>1, <1>2
  <2> QED
    BY <1>1, <2>1, <2>2, <2>3, ChainsKept
<1>4. Lives'
  <2>1. \A y : ~ Due("free", y)'
    BY <1>2
  <2> QED
    BY <1>1, <2>1 DEF Quiet, Lives, Allocated
<1>5. CallsOnce'
  <2>1. \A y : ~ Due("free", y)' /\ (Due("abandon", y)' => y = d)
    BY <1>2
  <2> QED
    BY <1>1, <1>2, <2>1 DEF CallsOnce
<1>6. Answers'
  BY <1>1 DEF Quiet, Answers
<1>7. ChainsRun'
  BY <1>1 DEF Quiet, ChainsRun
<1>8. Takes'
  BY <1>1 DEF Quiet, Takes
<1>9. PromiseTypes'
  BY <1>1, <1>2 DEF PromiseTypes, IsFuture
<1> QED
  BY <1>3, <1>4, <1>5, <1>6, <1>7, <1>8, <1>9 DEF PromiseInv, Owned

LEMMA DropFutureKeeps ==
  ASSUME PromiseInv, calls = <<>>, NEW f \in Futures, DropFuture(f)
  PROVE  PromiseInv'
<1>0. PICK d : d = data[f]
  OBVIOUS
<1>1. /\ Quiet /\ PromiseTypes /\ d \in Data /\ wait[f] = "none"
      /\ data' = [data EXCEPT ![f] = Null]
      /\ calls' = IF d \in abandoned THEN << <<"free", d>> >> ELSE <<>>
      /\ UNCHANGED <<state, abandoned, owner, links, wait, taken, aborted>>
      /\ "free" \in Functions
  BY <1>0, NothingDue DEF Quiet, DropFuture, IsFuture, PromiseTypes, Functions
<1>2. /\ data' \in [Futures -> Data \cup {Null}]
      /\ data'[f] = Null /\ \A g \in Futures : g # f => data'[g] = data[g]
  BY <1>1 DEF PromiseTypes
<1>3. /\ calls' \in Seq(Functions \X Data)
      /\ \A c, y : Due(c, y)' <=> c = "free" /\ y = d /\ d \in abandoned
      /\ \A c, y : Once(calls, <<c, y>>)'
  <2>1. CASE d \in abandoned
    <3>1. calls' = << <<"free", d>> >>
      BY <1>1, <2>1
    <3>2. /\ calls' \in Seq(Functions \X Data)
          /\ \A c, y : Due(c, y)' <=> c = "free" /\ y = d
          /\ \A c, y : Once(calls, <<c, y>>)'
      BY <1>1, <3>1, OneBegun
    <3> QED
      BY <2>1, <3>2
  <2>2. CASE d \notin abandoned
    <3>1. calls' = <<>>
      BY <1>1, <2>2
    <3>2. /\ calls' \in Seq(Functions \X Data)
          /\ \A c, y : ~ Due(c, y)'
          /\ \A c, y : Once(calls, <<c, y>>)'
      BY <3>1, NoneBegun
    <3> QED
      BY <2>2, <3>2
  <2> QED
    BY <2>1, <2>2
<1>4. LinksOwned' /\ LinksOnce' /\ Owners'
  <2>1. Allocated' = Allocated
    BY <1>1 DEF Allocated
  <2>2. \A e : ~ Due("abandon", e)'
    BY <1>3
  <2> QED
    BY <1>1, <2>1, <2>2, ChainsKept
<1>5. Lives'
  <2> SUFFICES ASSUME NEW c \in Data
               PROVE  /\ c \in abandoned <=> owner[c] = "none" /\ state[c] # "unused"
                      /\ c \in Allocated <=> \/ owner[c] # "none" \/ Due("free", c)'
                                             \/ \E g \in Futures : data'[g] = c
    BY <1>1 DEF Lives, Allocated
  <2>1. /\ c \in abandoned <=> owner[c] = "none" /\ state[c] # "unused"
        /\ c \in Allocated <=> owner[c] # "none" \/ \E g \in Futures : data[g] = c
    BY <1>1 DEF Quiet
  <2>2. Due("free", c)' <=> c = d /\ d \in abandoned
    BY <1>3
  <2>3. CASE c = d
    <3>1. d \in Allocated /\ state[d] # "unused"
      BY <1>0, <1>1, <2>1, <2>3 DEF Allocated
    <3> QED
      BY <2>1, <2>2, <2>3, <3>1
  <2>4. CASE c # d
    <3>1. \A g \in Futures : data'[g] = c <=> data[g] = c
      BY <1>0, <1>2, <2>4, PromiseAssumption
    <3> QED
      BY <2>1, <2>2, <2>4, <3>1
  <2> QED
    BY <2>3, <2>4
<1>6. CallsOnce'
  <2>1. \A y : ~ Due("abandon", y)' /\ (Due("free", y)' => y \in abandoned)
    BY <1>3
  <2> QED
    BY <1>1, <1>3, <2>1 DEF CallsOnce
<1>7. Answers'
  BY <1>1, <1>2 DEF Quiet, Answers
<1>8. ChainsRun'
  BY <1>1 DEF Quiet, ChainsRun
<1>9. Takes'
  BY <1>1 DEF Quiet, Takes
<1>10. PromiseTypes'
  BY <1>1, <1>2, <1>3 DEF PromiseTypes, IsFuture
<1> QED
  BY <1>4, <1>5, <1>6, <1>7, <1>8, <1>9, <1>10 DEF PromiseInv, Owned

\* then() on a future whose promise is fulfilled, with a callback that returns a value,
\* or whose promise is gone: a promise is made, used and dropped at once.
LEMMA ThenNewKeeps ==
  ASSUME PromiseInv, calls = <<>>, NEW f \in Futures, NEW g \in Futures, NEW e \in Data,
         NEW x, NEW move \in BOOLEAN, ~ IsFuture(g), Unused(e),
         ThenLost(f, g, e) \/ (ThenAtOnce(f, g, e, x, move) /\ x = Null),
         IsFuture(f)
  PROVE  PromiseInv'
<1>0. PICK d : d = data[f]
  OBVIOUS
<1>1. /\ Quiet /\ PromiseTypes /\ d \in Data /\ data[g] = Null /\ wait[g] = "none"
      /\ state[e] = "unused" /\ d # e
  BY <1>0, NothingDue DEF Quiet, IsFuture, Unused, PromiseTypes
<1>2. /\ owner' = [owner EXCEPT ![e] = "user"]
      /\ data' = [data EXCEPT ![g] = e]
      /\ calls' = << <<"abandon", e>> >> /\ "abandon" \in Functions
      /\ UNCHANGED <<abandoned, links, wait, aborted>>
  BY DEF ThenLost, ThenAtOnce, Functions
<1>3. /\ state' \in [Data -> States] /\ taken' \in [Data -> Nat]
      /\ state'[e] \in {"unfulfilled", "fulfilled"}
      /\ \A c \in Data : c # e =>
           \/ state'[c] = state[c]
           \/ state[c] = "fulfilled" /\ state'[c] = "released"
      /\ \A c \in Data : /\ taken'[c] <= 1
                         /\ taken'[c] # 0 => state'[c] \in {"released", "deleted"}
  <2>1. /\ state \in [Data -> States] /\ taken \in [Data -> Nat]
        /\ {"unfulfilled", "fulfilled", "released"} \subseteq States
    BY <1>1 DEF PromiseTypes, States
  <2>2. \A c \in Data : taken[c] <= 1 /\ (taken[c] # 0 => state[c] \in {"released", "deleted"})
    BY <1>1 DEF Quiet, Takes
  <2>3. taken[e] = 0
    BY <1>1, <2>2
  <2>4. CASE \E s \in {"unfulfilled", "fulfilled"} :
               state' = [state EXCEPT ![e] = s] /\ taken' = taken
    BY <2>1, <2>2, <2>3, <2>4
  <2>5. CASE /\ state[d] = "fulfilled"
             /\ state' = [state EXCEPT ![d] = "released", ![e] = "fulfilled"]
             /\ taken' = [taken EXCEPT ![d] = @ + 1]
    <3>1. taken[d] = 0
      BY <1>1, <2>2, <2>5
    <3> QED
      BY <1>1, <2>1, <2>2, <2>3, <2>5, <3>1
  <2>6. CASE ThenLost(f, g, e)
    BY <2>4, <2>6 DEF ThenLost
  <2>7. CASE ThenAtOnce(f, g, e, x, move) /\ x = Null /\ move
    <3>1. /\ state[d] = "fulfilled"
          /\ state' = [[state EXCEPT ![d] = "released"] EXCEPT ![e] = "fulfilled"]
          /\ taken' = [taken EXCEPT ![d] = @ + 1]
      BY <1>0, <2>7 DEF ThenAtOnce
    <3> QED
      BY <2>1, <2>5, <3>1
  <2>8. CASE ThenAtOnce(f, g, e, x, move) /\ x = Null /\ ~ move
    <3>1. /\ state' = [state EXCEPT ![e] = "fulfilled"]
          /\ taken' = [taken EXCEPT ![d] = @]
      BY <1>0, <2>8 DEF ThenAtOnce
    <3>2. taken' = taken
      BY <1>1, <2>1, <3>1
    <3> QED
      BY <2>4, <3>1, <3>2
  <2> QED
    BY <2>6, <2>7, <2>8
<1>4. /\ owner' \in [Data -> Data \cup {"user", "none"}]
      /\ owner'[e] = "user" /\ \A c \in Data : c # e => owner'[c] = owner[c]
      /\ data' \in [Futures -> Data \cup {Null}]
      /\ data'[g] = e /\ \A h \in Futures : h # g => data'[h] = data[h]
  BY <1>1, <1>2 DEF PromiseTypes
<1>5. /\ calls' \in Seq(Functions \X Data)
      /\ \A c, y : Due(c, y)' <=> c = "abandon" /\ y = e
      /\ \A c, y : Once(calls, <<c, y>>)'
  BY <1>2, OneBegun
<1>6. /\ owner[e] = "none" /\ e \notin abandoned
      /\ \A h \in Futures : data[h] # e
      /\ \A kind \in Kinds : links[e][kind] = <<>>
  BY <1>1 DEF Quiet
<1>7. /\ \A c \in Data : c \in Allocated' <=> c = e \/ c \in Allocated
      /\ \A c \in Data : c # e => (state'[c] = "unused" <=> state[c] = "unused")
  BY <1>3 DEF Allocated
<1>8. LinksOwned' /\ LinksOnce' /\ Owners'
  <2>1. \A c \in Data : c \in Allocated => c \in Allocated'
    BY <1>7
  <2>2. \A y : Due("abandon", y)' => y = e
    BY <1>5
  <2>3. \A y \in Data : owner[y] \in Data =>
          /\ owner'[y] = owner[y] /\ ~ Due("abandon", y)'
          /\ state[y] = "unfulfilled" => state'[y] = "unfulfilled"
    BY <1>3, <1>4, <1>6, <2>2, PromiseAssumption
  <2>4. \A y \in Data : owner'[y] \in Data => owner[y] \in Data
    BY <1>4, PromiseAssumption
  <2>5. \A y \in Data : owner[y] = "user" => owner'[y] = "user" /\ ~ Due("abandon", y)'
    BY <1>4, <1>6, <2>2
  <2> QED
    BY <1>1, <1>2, <2>1, <2>3, <2>4, <2>5, ChainsKept
<1>9. Lives'
  <2> SUFFICES ASSUME NEW c \in Data
               PROVE  /\ c \in abandoned <=> owner'[c] = "none" /\ state'[c] # "unused"
                      /\ c \in Allocated' <=> \/ owner'[c] # "none" \/ Due("free", c)'
                                              \/ \E h \in Futures : data'[h] = c
    BY <1>2 DEF Lives
  <2>1. /\ c \in abandoned <=> owner[c] = "none" /\ state[c] # "unused"
        /\ c \in Allocated <=> owner[c] # "none" \/ \E h \in Futures : data[h] = c
    BY <1>1 DEF Quiet
  <2>2. ~ Due("free", c)'
    BY <1>5
  <2>3. c # e => ((\E h \in Futures : data'[h] = c) <=> (\E h \in Futures : data[h] = c))
    BY <1>1, <1>4, PromiseAssumption
  <2> QED
    BY <1>4, <1>6, <1>7, <2>1, <2>2, <2>3
<1>10. CallsOnce'
  <2>1. \A y : ~ Due("free", y)' /\ (Due("abandon", y)' => y = e)
    BY <1>5
  <2> QED
    BY <1>2, <1>4, <1>5, <2>1 DEF CallsOnce
<1>11. Answers'
  <2> SUFFICES ASSUME NEW h \in Futures, wait[h] = "blocked"
               PROVE  state'[data'[h]] = "unfulfilled" /\ data'[h] \notin abandoned
    BY <1>2 DEF Answers
  <2>1. data[h] \in Data /\ state[data[h]] = "unfulfilled" /\ data[h] \notin abandoned
    BY <1>1 DEF Quiet
  <2>2. h # g
    BY <1>1
  <2> QED
    BY <1>3, <1>4, <1>6, <2>1, <2>2
<1>12. ChainsRun'
  <2>1. \A c \in Data, kind \in Kinds : state'[c] = "fulfilled" => links[c][kind] = <<>>
    BY <1>1, <1>3, <1>6 DEF Quiet
  <2> QED
    BY <1>2, <2>1 DEF ChainsRun
<1>13. Takes'
  BY <1>3 DEF Takes
<1>14. PromiseTypes'
  <2>1. \A h \in Futures : wait'[h] # "none" => data'[h] # Null
    BY <1>1, <1>2, <1>4 DEF PromiseTypes, IsFuture
  <2> QED
    BY <1>1, <1>2, <1>3, <1>4, <1>5, <2>1 DEF PromiseTypes, IsFuture
<1> QED
  BY <1>8, <1>9, <1>10, <1>11, <1>12, <1>13, <1>14 DEF PromiseInv, Owned

\* then() on a future whose promise is fulfilled, with a callback that returns a future:
\* what it makes is one more future of that promise.
LEMMA ThenFutureKeeps ==
  ASSUME PromiseInv, calls = <<>>, NEW f \in Futures, NEW g \in Futures, NEW e \in Data,
         NEW x \in Data, NEW move \in BOOLEAN, IsFuture(f), ~ IsFuture(g), HasPromise(x),
         ThenAtOnce(f, g, e, x, move)
  PROVE  PromiseInv'
<1>0. PICK d : d = data[f]
  OBVIOUS
<1>1. /\ Quiet /\ PromiseTypes /\ d \in Data /\ data[g] = Null /\ wait[g] = "none"
      /\ owner[x] = "user" /\ x # Null
  BY <1>0, NothingDue, PromiseAssumption DEF Quiet, IsFuture, HasPromise, PromiseTypes
<1>2. /\ state[d] = "fulfilled"
      /\ state' = IF move THEN [state EXCEPT ![d] = "released"] ELSE state
      /\ taken' = [taken EXCEPT ![d] = IF move THEN @ + 1 ELSE @]
      /\ data' = [data EXCEPT ![g] = x]
      /\ UNCHANGED <<abandoned, owner, links, wait, aborted, calls>>
  BY <1>0, <1>1 DEF ThenAtOnce
<1>3. /\ state' \in [Data -> States] /\ taken' \in [Data -> Nat]
      /\ \A c \in Data : state'[c] = state[c] \/ (state[c] = "fulfilled" /\ state'[c] = "released")
      /\ \A c \in Data : /\ taken'[c] <= 1
                         /\ taken'[c] # 0 => state'[c] \in {"released", "deleted"}
  <2>1. state \in [Data -> States] /\ taken \in [Data -> Nat] /\ "released" \in States
    BY <1>1 DEF PromiseTypes, States
  <2>2. \A c \in Data : taken[c] <= 1 /\ (taken[c] # 0 => state[c] \in {"released", "deleted"})
    BY <1>1 DEF Quiet, Takes
  <2>3. taken[d] = 0
    BY <1>1, <1>2, <2>2
  <2>4. CASE move
    BY <1>1, <1>2, <2>1, <2>2, <2>3, <2>4
  <2>5. CASE ~ move
    BY <1>1, <1>2, <2>1, <2>2, <2>3, <2>5
  <2> QED
    BY <2>4, <2>5
<1>4. /\ data' \in [Futures -> Data \cup {Null}]
      /\ data'[g] = x /\ \A h \in Futures : h # g => data'[h] = data[h]
  BY <1>1, <1>2 DEF PromiseTypes
<1>5. /\ calls' \in Seq(Functions \X Data)
      /\ \A c, y : ~ Due(c, y)'
      /\ \A c, y : Once(calls, <<c, y>>)'
  BY <1>2, NoneBegun
<1>6. Allocated' = Allocated /\ \A c \in Data : state'[c] = "unused" <=> state[c] = "unused"
  BY <1>3 DEF Allocated
<1>7. LinksOwned' /\ LinksOnce' /\ Owners'
  BY <1>1, <1>2, <1>3, <1>5, <1>6, ChainsKept
<1>8. Lives'
  <2> SUFFICES ASSUME NEW c \in Data
               PROVE  /\ c \in abandoned <=> owner[c] = "none" /\ state'[c] # "unused"
                      /\ c \in Allocated <=> \/ owner[c] # "none" \/ Due("free", c)'
                                             \/ \E h \in Futures : data'[h] = c
    BY <1>2, <1>6 DEF Lives
  <2>1. /\ c \in abandoned <=> owner[c] = "none" /\ state[c] # "unused"
        /\ c \in Allocated <=> owner[c] # "none" \/ \E h \in Futures : data[h] = c
    BY <1>1 DEF Quiet
  <2>2. c # x => ((\E h \in Futures : data'[h] = c) <=> (\E h \in Futures : data[h] = c))
    BY <1>1, <1>4, PromiseAssumption
  <2> QED
    BY <1>1, <1>5, <1>6, <2>1, <2>2
<1>9. CallsOnce'
  BY <1>5 DEF CallsOnce
<1>10. Answers'
  <2> SUFFICES ASSUME NEW h \in Futures, wait[h] = "blocked"
               PROVE  state'[data'[h]] = "unfulfilled" /\ data'[h] \notin abandoned
    BY <1>2 DEF Answers
  <2>1. data[h] \in Data /\ state[data[h]] = "unfulfilled" /\ data[h] \notin abandoned
    BY <1>1 DEF Quiet
  <2>2. h # g
    BY <1>1
  <2> QED
    BY <1>3, <1>4, <2>1, <2>2
<1>11. ChainsRun'
  <2>1. \A c \in Data, kind \in Kinds : state'[c] = "fulfilled" => links[c][kind] = <<>>
    BY <1>1, <1>3 DEF Quiet
  <2> QED
    BY <1>2, <2>1 DEF ChainsRun
<1>12. Takes'
  BY <1>3 DEF Takes
<1>13. PromiseTypes'
  <2>1. \A h \in Futures : wait'[h] # "none" => data'[h] # Null
    BY <1>1, <1>2, <1>4, PromiseAssumption DEF PromiseTypes, IsFuture
  <2> QED
    BY <1>1, <1>2, <1>3, <1>4, <1>5, <2>1 DEF PromiseTypes, IsFuture
<1> QED
  BY <1>7, <1>8, <1>9, <1>10, <1>11, <1>12, <1>13 DEF PromiseInv, Owned

\* A link is added to a chain.
LEMMA LinkAdded ==
  ASSUME NEW q \in Seq(Link), NEW k \in Link
  PROVE  /\ Append(q, k) \in Seq(Link)
         /\ \A j : Contains(Append(q, k), j) <=> Contains(q, j) \/ j = k
         /\ \A y \in Data : Leads(Append(q, k), y) <=> Leads(q, y) \/ y = k.to
         /\ Straight(q) /\ ~ Leads(q, k.to) => Straight(Append(q, k))
<1>1. <<k>> \in Seq(Link) /\ \A c : (Contains(<<k>>, c) <=> c = k)
  BY OneContained
<1>2. (\A y : Leads(<<k>>, y) <=> y = k.to) /\ Straight(<<k>>) /\ k.to \in Data
  BY DEF Leads, Straight, Link
<1>3. Append(q, k) = q \o <<k>>
  BY AppendIsConcat
<1>4. q \o <<k>> \in Seq(Link)
  BY <1>1, ConcatIndices
<1>5. \A c : Contains(q \o <<k>>, c) <=> Contains(q, c) \/ Contains(<<k>>, c)
  BY <1>1, ConcatContains
<1>6. /\ \A y \in Data : Leads(q \o <<k>>, y) <=> Leads(q, y) \/ Leads(<<k>>, y)
      /\ /\ Straight(q) /\ Straight(<<k>>)
         /\ \A y \in Data : ~ (Leads(q, y) /\ Leads(<<k>>, y))
         => Straight(q \o <<k>>)
  BY <1>1, ConcatLeads
<1> QED
  BY <1>1, <1>2, <1>3, <1>4, <1>5, <1>6

\* then() on a future that may still be fulfilled chains the callback.
LEMMA ThenLaterKeeps ==
  ASSUME PromiseInv, calls = <<>>, NEW f \in Futures, NEW g \in Futures, NEW e \in Data,
         NEW x \in Data \cup {Null}, NEW move \in BOOLEAN, IsFuture(f), ~ IsFuture(g), Unused(e),
         x # Null => HasPromise(x) /\ x # data[f],
         ThenLater(f, g, e, x, move)
  PROVE  PromiseInv'
<1>0. PICK d, kind, k : /\ d = data[f] /\ kind = IF move THEN "move" ELSE "ref"
                        /\ k = [to |-> e, gives |-> x]
  OBVIOUS
<1>1. /\ Quiet /\ PromiseTypes /\ d \in Data /\ data[g] = Null /\ wait[g] = "none"
      /\ state[e] = "unused" /\ d # e /\ kind \in Kinds
      /\ k \in Link /\ k.to = e /\ k.gives = x
      /\ state[d] = "unfulfilled" /\ d \notin abandoned
      /\ x # Null => owner[x] = "user" /\ x \in Data
  <2>1. Quiet /\ PromiseTypes /\ d \in Data
    BY <1>0, NothingDue DEF Quiet, IsFuture, PromiseTypes
  <2>2. k \in Link /\ k.to = e /\ k.gives = x /\ kind \in Kinds
    BY <1>0 DEF Link, Kinds
  <2>3. data[g] = Null /\ wait[g] = "none"
    BY <2>1 DEF IsFuture, PromiseTypes
  <2>4. state[d] = "unfulfilled" /\ d \notin abandoned /\ state[e] = "unused"
    BY <1>0 DEF ThenLater, Unused
  <2>5. x # Null => owner[x] = "user" /\ x \in Data
    BY DEF HasPromise
  <2> QED
    BY <2>1, <2>2, <2>3, <2>4, <2>5
<1>2. /\ state' = [state EXCEPT ![e] = "unfulfilled"]
      /\ owner' = [owner EXCEPT ![e] = d]
      /\ links' = [links EXCEPT ![d][kind] = Append(@, k)]
      /\ data' = [data EXCEPT ![g] = e]
      /\ UNCHANGED <<abandoned, wait, taken, aborted, calls>>
  BY <1>0 DEF ThenLater
<1>3. /\ state' \in [Data -> States]
      /\ state'[e] = "unfulfilled" /\ \A c \in Data : c # e => state'[c] = state[c]
  <2>1. state \in [Data -> States] /\ "unfulfilled" \in States
    BY <1>1 DEF PromiseTypes, States
  <2> QED
    BY <1>2, <2>1
<1>4. /\ owner' \in [Data -> Data \cup {"user", "none"}]
      /\ owner'[e] = d /\ \A c \in Data : c # e => owner'[c] = owner[c]
      /\ data' \in [Futures -> Data \cup {Null}]
      /\ data'[g] = e /\ \A h \in Futures : h # g => data'[h] = data[h]
  BY <1>1, <1>2 DEF PromiseTypes
<1>5. /\ calls' \in Seq(Functions \X Data)
      /\ \A c, y : ~ Due(c, y)'
      /\ \A c, y : Once(calls, <<c, y>>)'
  BY <1>2, NoneBegun
<1>6. /\ owner[e] = "none" /\ e \notin abandoned /\ taken[e] = 0
      /\ \A h \in Futures : data[h] # e
      /\ \A m \in Kinds : links[e][m] = <<>>
  BY <1>1 DEF Quiet
<1>7. \A c \in Data : c \in Allocated' <=> c = e \/ c \in Allocated
  BY <1>3 DEF Allocated
<1>8. /\ links' \in [Data -> [Kinds -> Seq(Link)]]
      /\ links'[d][kind] = Append(links[d][kind], k)
      /\ \A c \in Data, m \in Kinds : c # d \/ m # kind => links'[c][m] = links[c][m]
  <2>1. links \in [Data -> [Kinds -> Seq(Link)]]
    BY <1>1 DEF PromiseTypes
  <2>2. Append(links[d][kind], k) \in Seq(Link)
    BY <1>1, <2>1
  <2> QED
    BY <1>1, <1>2, <2>1, <2>2
<1>9. \A c \in Data, m \in Kinds : ~ Leads(links[c][m], e)
  BY <1>6, LeadsOwned, PromiseAssumption
<1>10. ASSUME NEW c \in Data, NEW m \in Kinds
       PROVE  /\ \A j : Contains(links'[c][m], j) <=>
                   Contains(links[c][m], j) \/ (c = d /\ m = kind /\ j = k)
              /\ \A y \in Data : Leads(links'[c][m], y) <=>
                   Leads(links[c][m], y) \/ (c = d /\ m = kind /\ y = e)
              /\ Straight(links'[c][m])
  <2>1. links[c][m] \in Seq(Link) /\ Straight(links[c][m]) /\ ~ Leads(links[c][m], k.to)
    BY <1>1, <1>9 DEF PromiseTypes, Quiet, LinksOnce
  <2>2. CASE c = d /\ m = kind
    <3>1. /\ \A j : Contains(Append(links[c][m], k), j) <=> Contains(links[c][m], j) \/ j = k
          /\ \A y \in Data : Leads(Append(links[c][m], k), y) <=> Leads(links[c][m], y) \/ y = k.to
          /\ Straight(Append(links[c][m], k))
      BY <1>1, <2>1, LinkAdded
    <3>2. links'[c][m] = Append(links[c][m], k)
      BY <1>8, <2>2
    <3> QED
      BY <1>1, <2>2, <3>1, <3>2
  <2>3. CASE c # d \/ m # kind
    <3>1. links'[c][m] = links[c][m]
      BY <1>8, <2>3
    <3> QED
      BY <2>1, <2>3, <3>1
  <2> QED
    BY <2>2, <2>3
<1>11. LinksOwned'
  <2> SUFFICES ASSUME NEW c \in Data, NEW m \in Kinds, NEW j \in Link, Contains(links'[c][m], j)
               PROVE  /\ c \in Allocated' /\ owner'[j.to] = c /\ state'[j.to] = "unfulfilled"
                      /\ ~ Due("abandon", j.to)'
                      /\ j.gives # Null => owner'[j.gives] = "user" /\ ~ Due("abandon", j.gives)'
    BY DEF LinksOwned
  <2>1. j.to \in Data /\ (j.gives # Null => j.gives \in Data)
    BY DEF Link
  <2>2. CASE Contains(links[c][m], j)
    <3>1. /\ c \in Allocated /\ owner[j.to] = c /\ state[j.to] = "unfulfilled"
          /\ j.gives # Null => owner[j.gives] = "user"
      BY <1>1, <2>2 DEF Quiet
    <3>2. j.to # e /\ (j.gives # Null => j.gives # e)
      BY <1>1, <1>6, <3>1
    <3> QED
      BY <1>3, <1>4, <1>5, <1>7, <2>1, <3>1, <3>2
  <2>3. CASE c = d /\ m = kind /\ j = k
    <3>1. d \in Allocated
      BY <1>1 DEF Allocated
    <3>2. x # Null => x # e /\ owner'[x] = "user"
      BY <1>1, <1>4, <1>6
    <3> QED
      BY <1>1, <1>3, <1>4, <1>5, <1>7, <2>3, <3>1, <3>2
  <2> QED
    BY <1>10, <2>2, <2>3
<1>12. LinksOnce'
  <2>1. \A c, y \in Data : ~ (Leads(links[c]["ref"], y) /\ Leads(links[c]["move"], y))
    BY <1>1 DEF Quiet, LinksOnce
  <2>2. ASSUME NEW c \in Data, NEW y \in Data,
               Leads(links'[c]["ref"], y), Leads(links'[c]["move"], y)
        PROVE  FALSE
    <3>1. /\ Leads(links[c]["ref"], y) \/ (kind = "ref" /\ y = e)
          /\ Leads(links[c]["move"], y) \/ (kind = "move" /\ y = e)
          /\ ~ Leads(links[c]["ref"], e) /\ ~ Leads(links[c]["move"], e)
      BY <1>9, <1>10, <2>2 DEF Kinds
    <3> QED
      BY <2>1, <3>1
  <2> QED
    BY <1>10, <2>2 DEF LinksOnce
<1>13. Owners'
  <2> SUFFICES ASSUME NEW y \in Data, owner'[y] \in Data
               PROVE  owner'[y] # y /\ \E m \in Kinds : Leads(links'[owner'[y]][m], y)
    BY DEF Owners
  <2>1. CASE y = e
    BY <1>1, <1>4, <1>10, <2>1
  <2>2. CASE y # e
    <3>1. owner'[y] = owner[y] /\ owner[y] \in Data
      BY <1>4, <2>2
    <3>2. owner[y] # y /\ \E m \in Kinds : Leads(links[owner[y]][m], y)
      BY <1>1, <3>1 DEF Quiet
    <3> QED
      BY <1>10, <3>1, <3>2
  <2> QED
    BY <2>1, <2>2
<1>14. Lives'
  <2> SUFFICES ASSUME NEW c \in Data
               PROVE  /\ c \in abandoned <=> owner'[c] = "none" /\ state'[c] # "unused"
                      /\ c \in Allocated' <=> \/ owner'[c] # "none" \/ Due("free", c)'
                                              \/ \E h \in Futures : data'[h] = c
    BY <1>2 DEF Lives
  <2>1. /\ c \in abandoned <=> owner[c] = "none" /\ state[c] # "unused"
        /\ c \in Allocated <=> owner[c] # "none" \/ \E h \in Futures : data[h] = c
    BY <1>1 DEF Quiet
  <2>2. c # e => ((\E h \in Futures : data'[h] = c) <=> (\E h \in Futures : data[h] = c))
    BY <1>1, <1>4, PromiseAssumption
  <2>3. owner'[e] # "none"
    BY <1>1, <1>4, PromiseAssumption
  <2> QED
    BY <1>3, <1>4, <1>5, <1>6, <1>7, <2>1, <2>2, <2>3
<1>15. CallsOnce'
  BY <1>5 DEF CallsOnce
<1>16. Answers'
  <2> SUFFICES ASSUME NEW h \in Futures, wait[h] = "blocked"
               PROVE  state'[data'[h]] = "unfulfilled" /\ data'[h] \notin abandoned
    BY <1>2 DEF Answers
  <2>1. data[h] \in Data /\ state[data[h]] = "unfulfilled" /\ data[h] \notin abandoned
    BY <1>1 DEF Quiet
  <2>2. h # g
    BY <1>1
  <2> QED
    BY <1>3, <1>4, <2>1, <2>2
<1>17. ChainsRun'
  <2> SUFFICES ASSUME NEW c \in Data, NEW m \in Kinds, state'[c] = "fulfilled"
               PROVE  links'[c][m] = <<>>
    BY DEF ChainsRun
  <2>1. c # e /\ state[c] = "fulfilled" /\ c # d
    BY <1>1, <1>3
  <2>2. links[c][m] = <<>>
    BY <1>1, <2>1 DEF Quiet
  <2>3. links'[c][m] = links[c][m]
    BY <1>8, <2>1
  <2> QED
    BY <2>2, <2>3
<1>18. Takes'
  <2>1. \A c \in Data : taken[c] <= 1 /\ (taken[c] # 0 => state[c] \in {"released", "deleted"})
    BY <1>1 DEF Quiet, Takes
  <2> QED
    BY <1>2, <1>3, <1>6, <2>1 DEF Takes
<1>19. PromiseTypes'
  <2>1. \A h \in Futures : wait'[h] # "none" => data'[h] # Null
    BY <1>1, <1>2, <1>4 DEF PromiseTypes, IsFuture
  <2> QED
    BY <1>1, <1>2, <1>3, <1>4, <1>5, <1>8, <2>1 DEF PromiseTypes, IsFuture
<1> QED
  BY <1>11, <1>12, <1>13, <1>14, <1>15, <1>16, <1>17, <1>18, <1>19 DEF PromiseInv, Owned

LEMMA UserStepKeeps ==
  ASSUME PromiseInv, calls = <<>>, UserStep
  PROVE  PromiseInv'
<1>1. ASSUME NEW f \in Futures, NEW g \in Futures, NEW e \in Data, NEW x \in Data \cup {Null},
             NEW move \in BOOLEAN, Then(f, g, e, x, move)
      PROVE  PromiseInv'
  <2>1. /\ IsFuture(f) /\ ~ IsFuture(g) /\ Unused(e)
        /\ x # Null => HasPromise(x) /\ x # data[f]
        /\ ThenAtOnce(f, g, e, x, move) \/ ThenLost(f, g, e) \/ ThenLater(f, g, e, x, move)
    BY <1>1 DEF Then
  <2>2. CASE ThenLost(f, g, e) \/ (ThenAtOnce(f, g, e, x, move) /\ x = Null)
    BY <2>1, <2>2, ThenNewKeeps
  <2>3. CASE ThenAtOnce(f, g, e, x, move) /\ x # Null
    BY <2>1, <2>3, ThenFutureKeeps
  <2>4. CASE ThenLater(f, g, e, x, move)
    BY <2>1, <2>4, ThenLaterKeeps
  <2> QED
    BY <2>1, <2>2, <2>3, <2>4
<1> QED
  BY <1>1, MakePromiseKeeps, FulfillKeeps, DropPromiseKeeps, GetFutureKeeps, DropFutureKeeps,
     WaitKeeps, ReleaseKeeps DEF UserStep

LEMMA PromiseInitInv == PromiseInit => PromiseInv
<1> SUFFICES ASSUME PromiseInit PROVE PromiseInv
  OBVIOUS
<1>1. <<>> \in Seq(Link) /\ <<>> \in Seq(Functions \X Data)
  BY NoneContained
<1>2. (\A e : ~ Leads(<<>>, e)) /\ Straight(<<>>)
  BY DEF Leads, Straight
<1>3. /\ \A c, d : ~ Due(c, d)
      /\ \A c, d : Once(calls, <<c, d>>)
      /\ \A d \in Data, kind \in Kinds : links[d][kind] = <<>>
      /\ \A j : ~ Contains(<<>>, j)
  BY NoneContained DEF PromiseInit, Due
<1>4. PromiseTypes
  BY <1>1 DEF PromiseInit, PromiseTypes, States, IsFuture
<1>5. LinksOwned /\ ChainsRun
  BY <1>3 DEF LinksOwned, ChainsRun
<1>6. LinksOnce
  BY <1>2, <1>3 DEF LinksOnce, Kinds
<1>7. Owners /\ Lives /\ CallsOnce
  BY <1>3, PromiseAssumption DEF PromiseInit, Owners, Lives, CallsOnce, Allocated
<1>8. Answers /\ Takes
  BY DEF PromiseInit, Answers, Takes
<1> QED
  BY <1>4, <1>5, <1>6, <1>7, <1>8 DEF PromiseInv, Owned

\* In the middle of the calls too every datum, promise and link is owned once, but for
\* what a call that is due will do (promise.tcc:331).
THEOREM PromiseInvariant == PromiseSpec => []PromiseInv
<1>1. PromiseInit => PromiseInv
  BY PromiseInitInv
<1>2. PromiseInv /\ [PromiseNext]_promiseVars => PromiseInv'
  <2> SUFFICES ASSUME PromiseInv, [PromiseNext]_promiseVars PROVE PromiseInv'
    OBVIOUS
  <2>1. CASE calls = <<>> /\ UserStep
    BY <2>1, UserStepKeeps
  <2>2. CASE \E d \in Data : MakeCall(d)
    BY <2>2, MakeCallKeeps
  <2>3. CASE UNCHANGED promiseVars
    <3>1. UNCHANGED <<state, abandoned, owner, links, data, wait, taken, aborted, calls>>
      BY <2>3 DEF promiseVars
    <3>2. /\ PromiseTypes' /\ Owned' /\ Answers' /\ ChainsRun' /\ Takes'
      BY <3>1 DEF PromiseInv, PromiseTypes, IsFuture, Owned, LinksOwned, LinksOnce, Owners, Lives,
         CallsOnce, Answers, ChainsRun, Takes, Allocated, Due, Once
    <3> QED
      BY <3>2 DEF PromiseInv
  <2> QED
    BY <2>1, <2>2, <2>3 DEF PromiseNext
<1> QED
  BY <1>1, <1>2, PTL DEF PromiseSpec

\* A datum is there exactly as long as a promise or a future refers to it, and a promise
\* in a chain is that of one link, whatever is fulfilled, chained, reassigned and destroyed
\* in between (promise.tcc:331).
THEOREM DataIsOwnedAlways == PromiseSpec => []DataIsOwned
<1>1. PromiseInv => DataIsOwned
  <2> SUFFICES ASSUME PromiseInv PROVE DataIsOwned
    OBVIOUS
  <2>1. PromiseTypes
    BY DEF PromiseInv
  <2>10. TakenOnce
    BY DEF PromiseInv, Takes, TakenOnce
  <2> SUFFICES ASSUME calls = <<>> PROVE NoDanglingNoLeak /\ ChainsConsistent
    BY <2>1, <2>10 DEF DataIsOwned
  <2>2. Quiet
    BY NothingDue
  <2>3. NoDanglingNoLeak
    BY <2>2 DEF Quiet, NoDanglingNoLeak, FuturesOf
  <2>4. ASSUME NEW d \in Data, NEW kind \in Kinds, NEW i \in DOMAIN links[d][kind]
        PROVE  /\ links[d][kind][i].to \in Data /\ d \in Allocated
               /\ owner[links[d][kind][i].to] = d
               /\ state[links[d][kind][i].to] = "unfulfilled"
               /\ Leads(links[d][kind], links[d][kind][i].to)
    <3>1. links[d][kind] \in Seq(Link)
      BY <2>1 DEF PromiseTypes
    <3>2. PICK k \in Link : k = links[d][kind][i]
      BY <3>1
    <3>3. Contains(links[d][kind], k)
      BY <3>1, <3>2, ContainsDomain
    <3>4. k.to \in Data
      BY DEF Link
    <3>5. d \in Allocated /\ owner[k.to] = d /\ state[k.to] = "unfulfilled"
      BY <2>2, <3>3 DEF Quiet
    <3>6. Leads(links[d][kind], k.to)
      BY <3>2 DEF Leads
    <3> QED
      BY <3>2, <3>4, <3>5, <3>6
  <2>5. \A c, d \in Data, k, m \in Kinds :
          \A i \in DOMAIN links[c][k], j \in DOMAIN links[d][m] :
            links[c][k][i].to = links[d][m][j].to => c = d /\ k = m /\ i = j
    <3> SUFFICES ASSUME NEW c \in Data, NEW d \in Data, NEW k \in Kinds, NEW m \in Kinds,
                        NEW i \in DOMAIN links[c][k], NEW j \in DOMAIN links[d][m],
                        links[c][k][i].to = links[d][m][j].to
                 PROVE  c = d /\ k = m /\ i = j
      OBVIOUS
    <3>1. c = d
      BY <2>4
    <3>2. k = m
      <4>1. PICK e \in Data : e = links[c][k][i].to
        BY <2>4
      <4>2. Leads(links[c][k], e) /\ Leads(links[c][m], e)
        BY <2>4, <3>1, <4>1
      <4>3. ~ (Leads(links[c]["ref"], e) /\ Leads(links[c]["move"], e))
        BY <2>2 DEF Quiet, LinksOnce
      <4> QED
        BY <4>2, <4>3 DEF Kinds
    <3>3. Straight(links[c][k])
      BY <2>2 DEF Quiet, LinksOnce
    <3> QED
      BY <3>1, <3>2, <3>3 DEF Straight
  <2>6. \A e \in Data : owner[e] \in Data =>
          \E kind \in Kinds : \E i \in DOMAIN links[owner[e]][kind] :
            links[owner[e]][kind][i].to = e
    BY <2>2 DEF Quiet, Leads
  <2>7. \A d \in Allocated : (owner[d] = "none") <=> (d \in abandoned)
    BY <2>2 DEF Quiet, Allocated
  <2>8. \A d \in Data, kind \in Kinds : \A i \in DOMAIN links[d][kind] :
          /\ d \in Allocated
          /\ owner[links[d][kind][i].to] = d
          /\ state[links[d][kind][i].to] = "unfulfilled"
    BY <2>4
  <2>9. ChainsConsistent
    BY <2>5, <2>6, <2>7, <2>8, Zenon DEF ChainsConsistent
  <2> QED
    BY <2>3, <2>9
<1> QED
  BY <1>1, PromiseInvariant, PTL

\* When the calls are over, no callback is left on the chain of a datum that has its value,
\* and a coroutine is blocked only on a future whose promise is there and not fulfilled yet
\* (promise.tcc:355).
THEOREM EveryoneAnsweredAlways == PromiseSpec => []EveryoneAnswered
<1>1. PromiseInv => EveryoneAnswered
  <2> SUFFICES ASSUME PromiseInv, calls = <<>> PROVE BlockedIsPending /\ NothingLeftChained
    BY DEF EveryoneAnswered
  <2>1. Quiet
    BY NothingDue
  <2>2. BlockedIsPending
    BY <2>1 DEF Quiet, BlockedIsPending
  <2>3. NothingLeftChained
    BY <2>1 DEF Quiet, NothingLeftChained
  <2> QED
    BY <2>2, <2>3
<1> QED
  BY <1>1, PromiseInvariant, PTL

\* However many futures and callbacks ask for the value, it is moved out once at the most
\* (promise.tcc:375).
THEOREM TakenOnceAlways == PromiseSpec => []TakenOnce
<1>1. PromiseInv => TakenOnce
  BY DEF PromiseInv, Takes, TakenOnce
<1> QED
  BY <1>1, PromiseInvariant, PTL

-----------------------------------------------------------------------------
\* That calls end: what is left to do is a total of weights.

Terms(called) == [i \in DOMAIN called |-> Weight(called[i][1])]
Lengths(chains) == [d \in Data |-> Len(chains[d]["ref"]) + Len(chains[d]["move"])]

\* The sums of the community modules are totals.
LEMMA CallSumIs ==
  ASSUME NEW q \in Seq(Functions \X Data)
  PROVE  CallSum(q) = SumOf(Terms(q)) /\ Terms(q) \in [1 .. Len(q) -> Int]
<1> DEFINE D == DOMAIN q
           F == Terms(q)
           P(g) == g = [T \in SUBSET D |->
                        IF T = {} THEN 0 ELSE LET i == Pick(T) IN Weight(q[i][1]) + g[T \ {i}]]
<1>1. D = 1 .. Len(q) /\ Len(q) \in Nat
  OBVIOUS
<1>2. \A i \in D : F[i] = Weight(q[i][1]) /\ F[i] \in Int
  BY DEF Terms, Weight
<1>3. F \in [D -> Int] /\ DOMAIN F = D /\ IsFiniteSet(D)
  <2>1. IsFiniteSet(D)
    BY <1>1, FS_Interval
  <2>2. F = [i \in D |-> F[i]]
    BY DEF Terms
  <2> HIDE DEF F, D
  <2> QED BY <1>2, <2>1, <2>2
<1>4. ASSUME NEW g PROVE P(g) <=> Sums(g, F, SUBSET D)
  <2>1. \A T \in SUBSET D : T # {} => F[Pick(T)] = Weight(q[Pick(T)][1])
    BY <1>2 DEF Pick
  <2>2. DOMAIN F = D
    BY <1>3
  <2> HIDE DEF F, D
  <2> QED BY <2>1, <2>2 DEF Sums
<1>5. CallSum(q) = (CHOOSE g : P(g))[D]
  BY DEF CallSum, MapThenSumSet, MapThenFoldSet, Pick
<1> HIDE DEF P, F, D
<1>6. \E g : P(g)
  BY <1>3, <1>4, SumsExist
<1>7. PICK g : P(g) /\ g = CHOOSE k : P(k)
  BY <1>6
<1>8. Sums(g, F, SUBSET D)
  BY <1>4, <1>7
<1>9. PICK k : Sums(k, F, SUBSET D) /\ SumOf(F) = k[D]
  BY <1>3, SumIs
<1>10. g[D] = k[D]
  BY <1>3, <1>8, <1>9, SumsAgree
<1> QED BY <1>1, <1>3, <1>5, <1>7, <1>9, <1>10 DEF F

LEMMA ChainSumIs ==
  ASSUME IsFiniteSet(Data), NEW l \in [Data -> [Kinds -> Seq(Link)]]
  PROVE  /\ ChainSum(l) = SumOf(Lengths(l)) /\ Lengths(l) \in [Data -> Int]
         /\ \A d \in Data : Len(l[d]["ref"]) \in Nat /\ Len(l[d]["move"]) \in Nat
<1> DEFINE F == Lengths(l)
           term(d) == Len(l[d]["ref"]) + Len(l[d]["move"])
           P(g) == g = [T \in SUBSET Data |->
                        IF T = {} THEN 0 ELSE LET d == Pick(T) IN term(d) + g[T \ {d}]]
<1>1. \A d \in Data : Len(l[d]["ref"]) \in Nat /\ Len(l[d]["move"]) \in Nat
  <2> SUFFICES ASSUME NEW d \in Data PROVE Len(l[d]["ref"]) \in Nat /\ Len(l[d]["move"]) \in Nat
    OBVIOUS
  <2>1. l[d]["ref"] \in Seq(Link) /\ l[d]["move"] \in Seq(Link)
    BY DEF Kinds
  <2> QED BY <2>1
<1>2. \A d \in Data : F[d] = term(d) /\ F[d] \in Int
  BY <1>1 DEF Lengths
<1>3. F \in [Data -> Int] /\ DOMAIN F = Data
  <2>1. F = [d \in Data |-> F[d]]
    BY DEF Lengths
  <2> HIDE DEF F, term
  <2> QED BY <1>2, <2>1
<1>4. ASSUME NEW g PROVE P(g) <=> Sums(g, F, SUBSET Data)
  <2>1. \A T \in SUBSET Data : T # {} => F[Pick(T)] = term(Pick(T))
    BY <1>2 DEF Pick
  <2>2. DOMAIN F = Data
    BY <1>3
  <2> HIDE DEF F, term
  <2> QED BY <2>1, <2>2 DEF Sums
<1>5. ChainSum(l) = (CHOOSE g : P(g))[Data]
  BY DEF ChainSum, MapThenSumSet, MapThenFoldSet, Pick
<1> HIDE DEF P, F, term
<1>6. \E g : P(g)
  BY <1>3, <1>4, SumsExist
<1>7. PICK g : P(g) /\ g = CHOOSE k : P(k)
  BY <1>6
<1>8. Sums(g, F, SUBSET Data)
  BY <1>4, <1>7
<1>9. PICK k : Sums(k, F, SUBSET Data) /\ SumOf(F) = k[Data]
  BY <1>3, SumIs
<1>10. g[Data] = k[Data]
  <2>1. PICK D : D = Data
    OBVIOUS
  <2>2. IsFiniteSet(D) /\ F \in [D -> Int] /\ Sums(g, F, SUBSET D) /\ Sums(k, F, SUBSET D)
    BY <1>3, <1>8, <1>9, <2>1
  <2>3. D \in SUBSET (D \cap D) /\ \A d \in D : F[d] = F[d]
    OBVIOUS
  <2>4. g[D] = k[D]
    BY <2>2, <2>3, SumsAgree, SMTT(40)
  <2> QED BY <2>1, <2>4
<1>11. ChainSum(l) = SumOf(F)
  BY <1>5, <1>7, <1>9, <1>10
<1>12. F = Lengths(l)
  BY DEF F
<1>13. ChainSum(l) = SumOf(Lengths(l)) /\ Lengths(l) \in [Data -> Int]
  BY <1>3, <1>11, <1>12
<1> QED BY <1>1, <1>13

LEMMA EffortIsNat ==
  ASSUME IsFiniteSet(Data), NEW q \in Seq(Functions \X Data),
         NEW l \in [Data -> [Kinds -> Seq(Link)]]
  PROVE  CallSum(q) \in Nat /\ ChainSum(l) \in Nat
<1>1. CallSum(q) \in Nat
  <2>1. CallSum(q) = SumOf(Terms(q)) /\ Terms(q) \in [1 .. Len(q) -> Int]
    BY CallSumIs
  <2>2. \A i \in 1 .. Len(q) : Terms(q)[i] \in Nat
    <3>1. DOMAIN q = 1 .. Len(q)
      OBVIOUS
    <3>2. \A call : Weight(call) \in Nat
      BY DEF Weight
    <3> QED BY <3>1, <3>2 DEF Terms
  <2>3. Terms(q) \in [1 .. Len(q) -> Nat] /\ IsFiniteSet(1 .. Len(q))
    BY <2>1, <2>2, FS_Interval
  <2> QED BY <2>1, <2>3, SumOfNats
<1>2. ChainSum(l) \in Nat
  <2>1. ChainSum(l) = SumOf(Lengths(l)) /\ Lengths(l) \in [Data -> Int]
        /\ \A d \in Data : Len(l[d]["ref"]) \in Nat /\ Len(l[d]["move"]) \in Nat
    BY ChainSumIs
  <2>2. \A d \in Data : Lengths(l)[d] \in Nat
    <3> SUFFICES ASSUME NEW d \in Data PROVE Lengths(l)[d] \in Nat
      OBVIOUS
    <3>1. PICK a \in Nat, b \in Nat : a = Len(l[d]["ref"]) /\ b = Len(l[d]["move"])
      BY <2>1
    <3>2. Lengths(l)[d] = a + b
      BY <3>1 DEF Lengths
    <3> QED BY <3>2
  <2>3. Lengths(l) \in [Data -> Nat]
    BY <2>1, <2>2
  <2> QED BY <2>1, <2>3, SumOfNats
<1> QED BY <1>1, <1>2

\* The weight of calls, one after the other.
LEMMA CallSumJoined ==
  ASSUME NEW p \in Seq(Functions \X Data), NEW q \in Seq(Functions \X Data)
  PROVE  /\ p \o q \in Seq(Functions \X Data)
         /\ CallSum(p) \in Int /\ CallSum(q) \in Int /\ CallSum(p \o q) = CallSum(p) + CallSum(q)
<1> DEFINE T == Functions \X Data
           r == p \o q
           n == Len(p)
           m == Len(q)
<1>1. /\ r \in Seq(T) /\ Len(r) = n + m /\ n \in Nat /\ m \in Nat
      /\ \A i \in 1 .. n + m : r[i] = IF i <= n THEN p[i] ELSE q[i - n]
  BY ConcatProperties
<1>2. CallSum(p) = SumOf(Terms(p)) /\ Terms(p) \in [1 .. n -> Int]
  BY CallSumIs
<1>3. CallSum(q) = SumOf(Terms(q)) /\ Terms(q) \in [1 .. m -> Int]
  BY CallSumIs
<1>4. CallSum(r) = SumOf(Terms(r)) /\ Terms(r) \in [1 .. n + m -> Int]
  BY <1>1, CallSumIs
<1>5. DOMAIN p = 1 .. n /\ DOMAIN q = 1 .. m /\ DOMAIN r = 1 .. n + m
  BY <1>1
<1> HIDE DEF T, r, n, m
<1>6. \A i \in 1 .. n : Terms(r)[i] = Terms(p)[i]
  <2> SUFFICES ASSUME NEW i \in 1 .. n PROVE Terms(r)[i] = Terms(p)[i]
    OBVIOUS
  <2>1. i \in 1 .. n + m /\ i <= n
    BY <1>1
  <2>2. r[i] = p[i]
    BY <1>1, <2>1
  <2> QED BY <1>5, <2>1, <2>2 DEF Terms
<1>7. \A i \in 1 .. m : Terms(r)[n + i] = Terms(q)[i]
  <2> SUFFICES ASSUME NEW i \in 1 .. m PROVE Terms(r)[n + i] = Terms(q)[i]
    OBVIOUS
  <2>1. n + i \in 1 .. n + m /\ ~ (n + i <= n) /\ (n + i) - n = i
    BY <1>1
  <2>2. r[n + i] = q[i]
    BY <1>1, <2>1
  <2> QED BY <1>5, <2>1, <2>2 DEF Terms
<1>8. Joined(n, Terms(p), m, Terms(q), Terms(r))
  BY <1>2, <1>3, <1>4, <1>6, <1>7 DEF Joined
<1>9. SumOf(Terms(p)) \in Int /\ SumOf(Terms(q)) \in Int
      /\ SumOf(Terms(r)) = SumOf(Terms(p)) + SumOf(Terms(q))
  BY <1>1, <1>8, SumOfJoined
<1> QED BY <1>1, <1>2, <1>3, <1>4, <1>9 DEF T, r

LEMMA CallSumSame ==
  ASSUME NEW q \in Seq(Functions \X Data), NEW w \in Int, \A i \in DOMAIN q : Weight(q[i][1]) = w
  PROVE  CallSum(q) = w * Len(q)
<1> DEFINE n == Len(q)
<1>1. n \in Nat /\ DOMAIN q = 1 .. n
  OBVIOUS
<1>2. Terms(q) = [i \in 1 .. n |-> w]
  BY <1>1 DEF Terms
<1>3. CallSum(q) = SumOf(Terms(q))
  BY CallSumIs
<1> HIDE DEF n
<1>4. SumOf([i \in 1 .. n |-> w]) = w * n
  BY <1>1, SumOfSame
<1> QED BY <1>2, <1>3, <1>4 DEF n

LEMMA NoCallsWeigh == <<>> \in Seq(Functions \X Data) /\ CallSum(<<>>) = 0
<1>1. <<>> \in Seq(Functions \X Data) /\ Len(<<>>) = 0 /\ \A i \in DOMAIN <<>> : FALSE
  BY EmptySeq
<1>2. PICK q \in Seq(Functions \X Data) : q = <<>>
  BY <1>1
<1>3. \A i \in DOMAIN q : Weight(q[i][1]) = 0
  BY <1>1, <1>2
<1>4. CallSum(q) = 0 * Len(q)
  BY <1>3, CallSumSame
<1> QED BY <1>1, <1>2, <1>4

LEMMA OneWeighs ==
  ASSUME NEW call \in Functions, NEW x \in Data
  PROVE  /\ << <<call, x>> >> \in Seq(Functions \X Data)
         /\ CallSum(<< <<call, x>> >>) = Weight(call) /\ Weight(call) \in Int
<1> DEFINE q == << <<call, x>> >>
<1>1. q \in Seq(Functions \X Data) /\ Len(q) = 1 /\ DOMAIN q = {1} /\ q[1][1] = call
  BY OneCall
<1>2. Weight(call) \in Int
  BY DEF Weight
<1> HIDE DEF q
<1>3. \A i \in DOMAIN q : Weight(q[i][1]) = Weight(call)
  BY <1>1
<1>4. CallSum(q) = Weight(call) * 1
  BY <1>1, <1>2, <1>3, CallSumSame
<1>5. Weight(call) * 1 = Weight(call)
  BY <1>2
<1> QED BY <1>1, <1>2, <1>4, <1>5 DEF q

\* A sequence written out is its elements joined one by one.
LEMMA PairIsJoined ==
  ASSUME NEW a, NEW b
  PROVE  <<a>> \o <<b>> = <<a, b>>
<1> DEFINE S == {a, b}
           p == <<a>>
           q == <<b>>
           r == <<a, b>>
<1>1. /\ p \in Seq(S) /\ Len(p) = 1 /\ p[1] = a
      /\ q \in Seq(S) /\ Len(q) = 1 /\ q[1] = b
      /\ r \in Seq(S) /\ Len(r) = 2 /\ r[1] = a /\ r[2] = b
  OBVIOUS
<1> HIDE DEF S, p, q, r
<1>2. /\ p \o q \in Seq(S) /\ Len(p \o q) = Len(p) + Len(q)
      /\ \A i \in 1 .. Len(p) + Len(q) :
           (p \o q)[i] = IF i <= Len(p) THEN p[i] ELSE q[i - Len(p)]
  BY <1>1, ConcatProperties
<1>3. Len(p \o q) = 2 /\ (p \o q)[1] = a /\ (p \o q)[2] = b
  BY <1>1, <1>2
<1>4. \A i \in 1 .. Len(p \o q) : (p \o q)[i] = r[i]
  BY <1>1, <1>3
<1>5. p \o q = r
  BY <1>1, <1>2, <1>3, <1>4, SeqEqual
<1> QED BY <1>5 DEF p, q, r

LEMMA TripleIsJoined ==
  ASSUME NEW a, NEW b, NEW c
  PROVE  <<a>> \o <<b>> \o <<c>> = <<a, b, c>>
<1> DEFINE S == {a, b, c}
           p == <<a, b>>
           q == <<c>>
           r == <<a, b, c>>
<1>1. /\ p \in Seq(S) /\ Len(p) = 2 /\ p[1] = a /\ p[2] = b
      /\ q \in Seq(S) /\ Len(q) = 1 /\ q[1] = c
      /\ r \in Seq(S) /\ Len(r) = 3 /\ r[1] = a /\ r[2] = b /\ r[3] = c
  OBVIOUS
<1> HIDE DEF S, p, q, r
<1>2. /\ p \o q \in Seq(S) /\ Len(p \o q) = Len(p) + Len(q)
      /\ \A i \in 1 .. Len(p) + Len(q) :
           (p \o q)[i] = IF i <= Len(p) THEN p[i] ELSE q[i - Len(p)]
  BY <1>1, ConcatProperties
<1>3. Len(p \o q) = 3 /\ (p \o q)[1] = a /\ (p \o q)[2] = b /\ (p \o q)[3] = c
  BY <1>1, <1>2
<1>4. \A i \in 1 .. Len(p \o q) : (p \o q)[i] = r[i]
  BY <1>1, <1>3
<1>5. p \o q = r
  BY <1>1, <1>2, <1>3, <1>4, SeqEqual
<1>6. <<a>> \o <<b>> = p
  BY PairIsJoined DEF p
<1> QED BY <1>5, <1>6 DEF q, r

LEMMA TwoWeigh ==
  ASSUME NEW call \in Functions, NEW x \in Data, NEW then \in Functions, NEW y \in Data
  PROVE  /\ << <<call, x>>, <<then, y>> >> \in Seq(Functions \X Data)
         /\ CallSum(<< <<call, x>>, <<then, y>> >>) = Weight(call) + Weight(then)
<1> DEFINE p == << <<call, x>> >>
           q == << <<then, y>> >>
<1>1. << <<call, x>>, <<then, y>> >> = p \o q
  BY PairIsJoined
<1>2. /\ p \in Seq(Functions \X Data) /\ CallSum(p) = Weight(call)
      /\ q \in Seq(Functions \X Data) /\ CallSum(q) = Weight(then)
  BY OneWeighs
<1> HIDE DEF p, q
<1>3. p \o q \in Seq(Functions \X Data) /\ CallSum(p \o q) = CallSum(p) + CallSum(q)
  BY <1>2, CallSumJoined
<1> QED BY <1>1, <1>2, <1>3

\* What a call leaves to do, when it is replaced by those it makes.
LEMMA CallWeighs ==
  ASSUME PromiseTypes, NEW call, NEW x, Called(call, x),
         NEW made \in Seq(Functions \X Data), Becomes(made)
  PROVE  /\ CallSum(calls) \in Int /\ CallSum(made) \in Int /\ Weight(call) \in Int
         /\ CallSum(calls') = (CallSum(calls) - Weight(call)) + CallSum(made)
<1> DEFINE T == Functions \X Data
           rest == Tail(calls)
           first == << <<call, x>> >>
<1>1. calls \in Seq(T) /\ calls # <<>> /\ Head(calls) = <<call, x>>
  BY DEF PromiseTypes, Called
<1>2. rest \in Seq(T) /\ <<call, x>> \in T /\ calls = first \o rest
  <2>1. rest \in Seq(T) /\ Head(calls) \in T /\ calls = << Head(calls) >> \o rest
    BY <1>1, HeadTailProperties
  <2> QED BY <1>1, <2>1
<1>3. calls' = made \o rest
  BY DEF Becomes
<1>4. call \in Functions /\ x \in Data
  BY <1>2
<1>5. first \in Seq(T) /\ CallSum(first) = Weight(call) /\ Weight(call) \in Int
  BY <1>4, OneWeighs
<1> HIDE DEF first, rest
<1>6. CallSum(calls) = Weight(call) + CallSum(rest) /\ CallSum(rest) \in Int
  <2>1. CallSum(first \o rest) = CallSum(first) + CallSum(rest) /\ CallSum(rest) \in Int
    BY <1>2, <1>5, CallSumJoined
  <2>2. CallSum(calls) = CallSum(first \o rest)
    BY <1>2
  <2> QED BY <1>5, <2>1, <2>2
<1>7. CallSum(calls') = CallSum(made) + CallSum(rest) /\ CallSum(made) \in Int
  BY <1>2, <1>3, CallSumJoined
<1>8. PICK a \in Int, b \in Int, c \in Int :
        a = CallSum(rest) /\ b = CallSum(made) /\ c = Weight(call)
  BY <1>5, <1>6, <1>7
<1> QED BY <1>6, <1>7, <1>8, SMTT(40)

\* A link less, links that move to another chain, and links that are dropped.
LEMMA LinkLess ==
  ASSUME PromiseTypes, IsFiniteSet(Data), NEW d \in Data, NEW kind \in Kinds,
         links[d][kind] # <<>>
  PROVE  /\ TakeOff(d, kind) \in [Data -> [Kinds -> Seq(Link)]]
         /\ ChainSum(links) \in Int /\ ChainSum(TakeOff(d, kind)) = ChainSum(links) - 1
<1> DEFINE L == TakeOff(d, kind)
           f == Lengths(links)
           h == Lengths(L)
<1>1. links \in [Data -> [Kinds -> Seq(Link)]]
  BY DEF PromiseTypes
<1>2. links[d][kind] \in Seq(Link) /\ Tail(links[d][kind]) \in Seq(Link)
      /\ Len(Tail(links[d][kind])) = Len(links[d][kind]) - 1
  <2>1. PICK q : q = links[d][kind]
    OBVIOUS
  <2>2. q \in Seq(Link) /\ q # <<>>
    BY <1>1, <2>1
  <2>3. Tail(q) \in Seq(Link) /\ Len(Tail(q)) = Len(q) - 1
    BY <2>2, HeadTailProperties
  <2> QED BY <2>1, <2>2, <2>3
<1>3. /\ L \in [Data -> [Kinds -> Seq(Link)]]
      /\ L[d][kind] = Tail(links[d][kind])
      /\ \A m \in Kinds : m # kind => L[d][m] = links[d][m]
      /\ \A c \in Data : c # d => L[c] = links[c]
  BY <1>1, <1>2 DEF TakeOff
<1>4. ChainSum(links) = SumOf(f) /\ f \in [Data -> Int]
      /\ Len(links[d]["ref"]) \in Nat /\ Len(links[d]["move"]) \in Nat
  BY <1>1, ChainSumIs
<1> HIDE DEF L
<1>5. ChainSum(L) = SumOf(h) /\ h \in [Data -> Int]
  BY <1>3, ChainSumIs
<1>6. \A c \in Data \ {d} : f[c] = h[c]
  BY <1>3 DEF Lengths
<1>7. h[d] = f[d] - 1 /\ f[d] \in Int
  <2>1. f[d] = Len(links[d]["ref"]) + Len(links[d]["move"])
        /\ h[d] = Len(L[d]["ref"]) + Len(L[d]["move"])
    BY DEF Lengths
  <2>2. CASE kind = "ref"
    <3>1. Len(L[d]["ref"]) = Len(links[d]["ref"]) - 1 /\ L[d]["move"] = links[d]["move"]
      BY <1>2, <1>3, <2>2 DEF Kinds
    <3> QED BY <1>4, <2>1, <3>1
  <2>3. CASE kind = "move"
    <3>1. Len(L[d]["move"]) = Len(links[d]["move"]) - 1 /\ L[d]["ref"] = links[d]["ref"]
      BY <1>2, <1>3, <2>3 DEF Kinds
    <3> QED BY <1>4, <2>1, <3>1
  <2> QED BY <2>2, <2>3 DEF Kinds
<1> HIDE DEF f, h
<1>8. SumOf(f) \in Int /\ SumOf(h) = (SumOf(f) + h[d]) - f[d]
  BY <1>4, <1>5, <1>6, SumChange
<1>9. SumOf(h) = SumOf(f) - 1
  BY <1>7, <1>8
<1> QED BY <1>3, <1>4, <1>5, <1>8, <1>9 DEF L

Moved(l, x, y) ==
  [c \in Data |-> [m \in Kinds |->
    IF c = x THEN l[c][m] \o l[y][m] ELSE IF c = y THEN <<>> ELSE l[c][m]]]

LEMMA LinksMoved ==
  ASSUME IsFiniteSet(Data), NEW l \in [Data -> [Kinds -> Seq(Link)]],
         NEW x \in Data, NEW y \in Data, x # y
  PROVE  ChainSum(Moved(l, x, y)) = ChainSum(l) /\ ChainSum(l) \in Int
<1> SUFFICES ASSUME NEW r,
                    r = [c \in Data |-> [m \in Kinds |->
                          IF c = x THEN l[c][m] \o l[y][m]
                          ELSE IF c = y THEN <<>> ELSE l[c][m]]]
             PROVE  ChainSum(r) = ChainSum(l) /\ ChainSum(l) \in Int
  BY DEF Moved
<1> DEFINE f == Lengths(l)
           g == [f EXCEPT ![y] = 0]
           h == Lengths(r)
<1>1. ASSUME NEW c \in Data, NEW m \in Kinds
      PROVE  /\ l[c][m] \in Seq(Link) /\ Len(l[c][m]) \in Nat
             /\ l[c][m] \o l[y][m] \in Seq(Link)
             /\ Len(l[c][m] \o l[y][m]) = Len(l[c][m]) + Len(l[y][m])
  <2>1. l[c][m] \in Seq(Link) /\ l[y][m] \in Seq(Link)
    OBVIOUS
  <2>2. PICK p \in Seq(Link), q \in Seq(Link) : p = l[c][m] /\ q = l[y][m]
    BY <2>1
  <2>3. p \o q \in Seq(Link) /\ Len(p \o q) = Len(p) + Len(q) /\ Len(p) \in Nat
    BY ConcatProperties
  <2> QED BY <2>2, <2>3
<1>2. \A c \in Data, m \in Kinds :
        r[c][m] = IF c = x THEN l[c][m] \o l[y][m] ELSE IF c = y THEN <<>> ELSE l[c][m]
  OBVIOUS
<1>3. r \in [Data -> [Kinds -> Seq(Link)]]
  <2>1. <<>> \in Seq(Link)
    BY EmptySeq
  <2>2. \A c \in Data, m \in Kinds : r[c][m] \in Seq(Link)
    BY <1>1, <1>2, <2>1
  <2>3. r = [c \in Data |-> [m \in Kinds |-> r[c][m]]]
    BY <1>2
  <2> QED BY <2>2, <2>3
<1>4. ChainSum(l) = SumOf(f) /\ f \in [Data -> Int]
  BY ChainSumIs
<1>5. ChainSum(r) = SumOf(h) /\ h \in [Data -> Int]
  BY <1>3, ChainSumIs
<1>6. \A m \in Kinds : Len(r[x][m]) = Len(l[x][m]) + Len(l[y][m]) /\ r[y][m] = <<>>
  BY <1>1, <1>2
<1>7. \A c \in Data, m \in Kinds : c \notin {x, y} => r[c][m] = l[c][m]
  BY <1>2
<1>8. \A c \in Data : /\ f[c] = Len(l[c]["ref"]) + Len(l[c]["move"])
                      /\ h[c] = Len(r[c]["ref"]) + Len(r[c]["move"])
  BY DEF Lengths
<1>9. "ref" \in Kinds /\ "move" \in Kinds
  BY DEF Kinds
<1>10. h[x] = f[x] + f[y]
  <2>1. PICK a \in Nat, b \in Nat, c \in Nat, d \in Nat :
          a = Len(l[x]["ref"]) /\ b = Len(l[x]["move"]) /\ c = Len(l[y]["ref"]) /\ d = Len(l[y]["move"])
    BY <1>1, <1>9
  <2>2. f[x] = a + b /\ f[y] = c + d /\ h[x] = (a + c) + (b + d)
    BY <1>6, <1>8, <1>9, <2>1
  <2> QED BY <2>2
<1>11. h[y] = 0
  <2>1. Len(r[y]["ref"]) = 0 /\ Len(r[y]["move"]) = 0
    BY <1>6, <1>9
  <2>2. h[y] = Len(r[y]["ref"]) + Len(r[y]["move"])
    BY <1>8
  <2>3. PICK a \in Nat, b \in Nat : a = Len(r[y]["ref"]) /\ b = Len(r[y]["move"])
    BY <2>1
  <2>4. a + b = 0
    BY <2>1, <2>3
  <2>5. h[y] = a + b
    BY <2>2, <2>3
  <2> QED BY <2>4, <2>5
<1>12. \A c \in Data \ {x, y} : h[c] = f[c]
  BY <1>7, <1>8, <1>9, ZenonT(60)
<1>13. g \in [Data -> Int] /\ g[y] = 0 /\ \A c \in Data \ {y} : g[c] = f[c]
  BY <1>4
<1> HIDE DEF f, g, h
<1>14. SumOf(f) \in Int /\ SumOf(g) = (SumOf(f) + g[y]) - f[y] /\ f[y] \in Int
  <2>1. \A c \in Data \ {y} : f[c] = g[c]
    BY <1>13
  <2>2. f \in [Data -> Int] /\ g \in [Data -> Int] /\ f[y] \in Int
    BY <1>4, <1>13
  <2>3. SumOf(f) \in Int /\ SumOf(g) = (SumOf(f) + g[y]) - f[y]
    BY <2>1, <2>2, SumChange, ZenonT(60)
  <2> QED BY <2>2, <2>3
<1>15. SumOf(h) = (SumOf(g) + h[x]) - g[x] /\ SumOf(g) \in Int
  <2>1. \A c \in Data \ {x} : g[c] = h[c]
    BY <1>11, <1>12, <1>13
  <2> QED BY <1>5, <1>13, <2>1, SumChange, ZenonT(60)
<1>16. g[x] = f[x] /\ f[x] \in Int
  BY <1>4, <1>13
<1>17. SumOf(h) = SumOf(f)
  BY <1>10, <1>13, <1>14, <1>15, <1>16
<1> QED BY <1>4, <1>5, <1>14, <1>17

LEMMA LinksGone ==
  ASSUME PromiseTypes, IsFiniteSet(Data), NEW d \in Data,
         links' = [links EXCEPT ![d] = [kind \in Kinds |-> <<>>]]
  PROVE  /\ Len(links[d]["ref"]) \in Nat /\ Len(links[d]["move"]) \in Nat
         /\ ChainSum(links) \in Int
         /\ ChainSum(links') =
              ChainSum(links) - (Len(links[d]["ref"]) + Len(links[d]["move"]))
<1> DEFINE f == Lengths(links)
           h == Lengths(links')
<1>1. links \in [Data -> [Kinds -> Seq(Link)]]
  BY DEF PromiseTypes
<1>2. links' \in [Data -> [Kinds -> Seq(Link)]]
  <2>1. [kind \in Kinds |-> <<>>] \in [Kinds -> Seq(Link)]
    BY EmptySeq
  <2> QED BY <1>1, <2>1
<1>3. ChainSum(links) = SumOf(f) /\ f \in [Data -> Int]
      /\ Len(links[d]["ref"]) \in Nat /\ Len(links[d]["move"]) \in Nat
  BY <1>1, ChainSumIs
<1>4. ChainSum(links') = SumOf(h) /\ h \in [Data -> Int]
  BY <1>2, ChainSumIs
<1>5. \A c \in Data \ {d} : f[c] = h[c]
  BY <1>1 DEF Lengths
<1>6. f[d] = Len(links[d]["ref"]) + Len(links[d]["move"])
  BY DEF Lengths
<1>7. h[d] = 0
  <2>1. links'[d]["ref"] = <<>> /\ links'[d]["move"] = <<>>
    BY <1>1 DEF Kinds
  <2>2. h[d] = Len(links'[d]["ref"]) + Len(links'[d]["move"])
    BY DEF Lengths
  <2>3. PICK a \in Nat, b \in Nat : a = Len(links'[d]["ref"]) /\ b = Len(links'[d]["move"])
    BY <2>1
  <2>4. a + b = 0
    BY <2>1, <2>3
  <2>5. h[d] = a + b
    BY <2>2, <2>3
  <2> QED BY <2>4, <2>5
<1> HIDE DEF f, h
<1>8. SumOf(f) \in Int /\ SumOf(h) = (SumOf(f) + h[d]) - f[d]
  <2>1. f \in [Data -> Int] /\ h \in [Data -> Int]
    BY <1>3, <1>4
  <2> QED BY <1>5, <2>1, SumChange, ZenonT(60)
<1>9. PICK a \in Nat, b \in Nat, c \in Int :
        a = Len(links[d]["ref"]) /\ b = Len(links[d]["move"]) /\ c = SumOf(f)
  BY <1>3, <1>8
<1>10. f[d] = a + b
  BY <1>6, <1>9
<1>11. SumOf(h) = (c + 0) - (a + b)
  BY <1>7, <1>8, <1>9, <1>10
<1>12. (c + 0) - (a + b) = c - (a + b)
  OBVIOUS
<1> QED BY <1>3, <1>4, <1>9, <1>11, <1>12

\* A destructor is called for each link that is dropped.
LEMMA DropsWeigh ==
  ASSUME PromiseTypes, NEW d \in Data, NEW kind \in Kinds
  PROVE  /\ DropLinks(d, kind) \in Seq(Functions \X Data)
         /\ CallSum(DropLinks(d, kind)) = 6 * Len(links[d][kind])
<1> DEFINE q == links[d][kind]
           p == DropLinks(d, kind)
           T == Functions \X Data
           n == Len(q)
<1>1. q \in Seq(Link)
  BY DEF PromiseTypes
<1>2. n \in Nat /\ DOMAIN q = 1 .. n /\ \A i \in DOMAIN q : q[i].to \in Data
  <2>1. PICK r \in Seq(Link) : r = q
    BY <1>1
  <2>2. Len(r) \in Nat /\ DOMAIN r = 1 .. Len(r) /\ \A i \in DOMAIN r : r[i] \in Link
    OBVIOUS
  <2>3. \A k \in Link : k.to \in Data
    BY DEF Link
  <2> QED BY <2>1, <2>2, <2>3
<1>3. p = [i \in 1 .. n |-> <<"abandon", q[i].to>>]
  BY <1>2 DEF DropLinks
<1>4. \A i \in 1 .. n : <<"abandon", q[i].to>> \in T
  BY <1>2 DEF Functions
<1> HIDE DEF p, q, T, n
<1>5. p \in [1 .. n -> T] /\ \A i \in 1 .. n : p[i] = <<"abandon", q[i].to>>
  BY <1>3, <1>4
<1>6. p \in Seq(T) /\ Len(p) = n /\ DOMAIN p = 1 .. n
  <2>1. p \in Seq(T)
    BY <1>2, <1>5, SeqDef
  <2>2. DOMAIN p = 1 .. n
    BY <1>5
  <2> QED BY <1>2, <2>1, <2>2
<1>7. \A i \in DOMAIN p : Weight(p[i][1]) = 6
  <2>1. \A i \in DOMAIN p : p[i][1] = "abandon"
    BY <1>5, <1>6
  <2> QED BY <2>1 DEF Weight
<1>8. CallSum(p) = 6 * n
  <2>1. p \in Seq(Functions \X Data)
    BY <1>6 DEF T
  <2>2. CallSum(p) = 6 * Len(p)
    BY <1>7, <2>1, CallSumSame
  <2> QED BY <1>6, <2>2
<1> QED BY <1>6, <1>8 DEF p, q, T, n

\* Calls that weigh less than the one that makes them, or than the link that is taken off.
LEMMA CallEnds ==
  ASSUME PromiseTypes, IsFiniteSet(Data), NEW call, NEW x, Called(call, x),
         NEW made \in Seq(Functions \X Data), Becomes(made), UNCHANGED links,
         CallSum(made) < Weight(call)
  PROVE  Effort' < Effort
<1>1. /\ CallSum(calls) \in Int /\ CallSum(made) \in Int /\ Weight(call) \in Int
      /\ CallSum(calls') = (CallSum(calls) - Weight(call)) + CallSum(made)
  BY CallWeighs
<1>2. ChainSum(links') = ChainSum(links) /\ ChainSum(links) \in Int
  <2>1. links \in [Data -> [Kinds -> Seq(Link)]]
    BY DEF PromiseTypes
  <2>2. ChainSum(links) = SumOf(Lengths(links)) /\ Lengths(links) \in [Data -> Int]
    BY <2>1, ChainSumIs
  <2>3. PICK g : Sums(g, Lengths(links), SUBSET Data) /\ SumOf(Lengths(links)) = g[Data]
    BY <2>2, SumIs
  <2>4. g[Data] \in Int
    BY <2>2, <2>3, SumType
  <2> QED BY <2>2, <2>3, <2>4
<1>3. PICK a \in Int, b \in Int, w \in Int, c \in Int :
        a = CallSum(calls) /\ b = CallSum(made) /\ w = Weight(call) /\ c = ChainSum(links)
  BY <1>1, <1>2
<1>4. CallSum(calls') = (a - w) + b /\ ChainSum(links') = c /\ b < w
  BY <1>1, <1>2, <1>3
<1>5. Effort = a + 11 * c /\ Effort' = ((a - w) + b) + 11 * c
  BY <1>3, <1>4 DEF Effort
<1>6. ((a - w) + b) + 11 * c < a + 11 * c
  BY <1>4
<1> QED BY <1>5, <1>6

LEMMA LinkEnds ==
  ASSUME PromiseTypes, IsFiniteSet(Data), NEW d \in Data, NEW kind \in Kinds,
         links[d][kind] # <<>>, ChainSum(links') = ChainSum(TakeOff(d, kind)),
         NEW made \in Seq(Functions \X Data), calls' = made \o calls, CallSum(made) <= 10
  PROVE  Effort' < Effort
<1>1. ChainSum(links) \in Int /\ ChainSum(links') = ChainSum(links) - 1
  BY LinkLess
<1>2. CallSum(calls) \in Int /\ CallSum(made) \in Int
      /\ CallSum(calls') = CallSum(made) + CallSum(calls)
  BY CallSumJoined DEF PromiseTypes
<1>3. PICK a \in Int, b \in Int, c \in Int :
        a = CallSum(calls) /\ b = CallSum(made) /\ c = ChainSum(links)
  BY <1>1, <1>2
<1>4. CallSum(calls') = b + a /\ ChainSum(links') = c - 1 /\ b <= 10
  BY <1>1, <1>2, <1>3
<1>5. Effort = a + 11 * c /\ Effort' = (b + a) + 11 * (c - 1)
  BY <1>3, <1>4 DEF Effort
<1>6. (b + a) + 11 * (c - 1) < a + 11 * c
  BY <1>4
<1> QED BY <1>5, <1>6

LEMMA NotifyAllEnds ==
  ASSUME PromiseTypes, IsFiniteSet(Data), NEW d \in Data, NotifyAll(d)
  PROVE  Effort' < Effort
<1> DEFINE R == << <<"ref", d>> >>
           M == << <<"move", d>> >>
           S == << <<"success", d>> >>
           L == << <<"lost", d>> >>
           T == Functions \X Data
<1>1. /\ R \in Seq(T) /\ CallSum(R) = 1 /\ M \in Seq(T) /\ CallSum(M) = 1
      /\ S \in Seq(T) /\ CallSum(S) = 1 /\ L \in Seq(T) /\ CallSum(L) = 1
  <2>1. {"ref", "move", "success", "lost"} \subseteq Functions
    BY DEF Functions
  <2>2. \A call \in {"ref", "move", "success", "lost"} : Weight(call) = 1
    BY DEF Weight
  <2> QED BY <2>1, <2>2, OneWeighs
<1>2. PICK made : /\ Called("notify", d) /\ Becomes(made) /\ UNCHANGED links
                  /\ \/ made = <<>> \/ made = L \/ made = R \o L \/ made = R \o M \o S
  <2>1. << <<"ref", d>>, <<"lost", d>> >> = R \o L
        /\ << <<"ref", d>>, <<"move", d>>, <<"success", d>> >> = R \o M \o S
    <3>1. R \o L = << <<"ref", d>>, <<"lost", d>> >>
      BY PairIsJoined
    <3>2. R \o M \o S = << <<"ref", d>>, <<"move", d>>, <<"success", d>> >>
      BY TripleIsJoined
    <3> QED BY <3>1, <3>2
  <2> HIDE DEF R, M, S
  <2> QED BY <2>1 DEF NotifyAll
<1> HIDE DEF R, M, S, L, T
<1>3. /\ R \o L \in Seq(T) /\ CallSum(R \o L) = 2
      /\ R \o M \in Seq(T) /\ CallSum(R \o M) = 2
  <2>1. R \o L \in Seq(T) /\ CallSum(R \o L) = CallSum(R) + CallSum(L)
    BY <1>1, CallSumJoined DEF T
  <2>2. R \o M \in Seq(T) /\ CallSum(R \o M) = CallSum(R) + CallSum(M)
    BY <1>1, CallSumJoined DEF T
  <2> QED BY <1>1, <2>1, <2>2
<1>4. R \o M \o S \in Seq(T) /\ CallSum(R \o M \o S) = 3
  <2>1. /\ (R \o M) \o S \in Seq(T)
        /\ CallSum((R \o M) \o S) = CallSum(R \o M) + CallSum(S)
    BY <1>1, <1>3, CallSumJoined DEF T
  <2> QED BY <1>1, <1>3, <2>1
<1>5. <<>> \in Seq(T) /\ CallSum(<<>>) = 0
  BY NoCallsWeigh DEF T
<1>6. made \in Seq(T) /\ CallSum(made) < 4
  <2>1. CASE made = <<>>
    BY <1>5, <2>1
  <2>2. CASE made = L
    BY <1>1, <2>2
  <2>3. CASE made = R \o L
    BY <1>3, <2>3
  <2>4. CASE made = R \o M \o S
    BY <1>4, <2>4
  <2> QED BY <1>2, <2>1, <2>2, <2>3, <2>4
<1>7. Weight("notify") = 4
  BY DEF Weight
<1> QED BY <1>2, <1>6, <1>7, CallEnds DEF T

LEMMA TellEnds ==
  ASSUME PromiseTypes, IsFiniteSet(Data), NEW d \in Data, NEW result \in {"success", "lost"},
         Tell(d, result)
  PROVE  Effort' < Effort
<1>1. Called(result, d) /\ Becomes(<<>>) /\ UNCHANGED links
  BY DEF Tell
<1>2. CallSum(<<>>) < Weight(result) /\ <<>> \in Seq(Functions \X Data)
  <2>1. Weight(result) = 1
    BY DEF Weight
  <2> QED BY <2>1, NoCallsWeigh
<1> QED BY <1>1, <1>2, CallEnds

LEMMA ChainEmptyEnds ==
  ASSUME PromiseTypes, IsFiniteSet(Data), NEW d \in Data, NEW kind \in Kinds,
         Called(kind, d), ChainEmpty(d, kind)
  PROVE  Effort' < Effort
<1>1. Becomes(<<>>) /\ UNCHANGED links
  BY DEF ChainEmpty
<1>2. CallSum(<<>>) < Weight(kind) /\ <<>> \in Seq(Functions \X Data)
  <2>1. Weight(kind) = 1
    BY DEF Weight, Kinds
  <2> QED BY <2>1, NoCallsWeigh
<1> QED BY <1>1, <1>2, CallEnds

LEMMA AbandonEnds ==
  ASSUME PromiseTypes, IsFiniteSet(Data), NEW d \in Data, Abandon(d)
  PROVE  Effort' < Effort
<1> DEFINE made == << <<"notify", d>>, <<"free", d>> >>
<1>1. Called("abandon", d) /\ Becomes(made) /\ UNCHANGED links
  BY DEF Abandon
<1>2. Weight("abandon") = 6 /\ Weight("notify") = 4 /\ Weight("free") = 1
  BY DEF Weight
<1>3. made \in Seq(Functions \X Data) /\ CallSum(made) = Weight("notify") + Weight("free")
  BY TwoWeigh, ZenonT(60) DEF Functions
<1> HIDE DEF made
<1>4. CallSum(made) < Weight("abandon")
  BY <1>2, <1>3
<1> QED BY <1>1, <1>3, <1>4, CallEnds

LEMMA LinkRunEnds ==
  ASSUME PromiseInv, IsFiniteSet(Data), NEW d \in Data, NEW kind \in Kinds, RunLink(d, kind)
  PROVE  Effort' < Effort
<1>1. PICK k : k = Head(links[d][kind])
  OBVIOUS
<1>2. /\ LinkOff(d, kind, k, TakeOff(d, kind)) /\ PromiseTypes
      /\ links[d][kind] # <<>>
  BY <1>1, LinkTakenOff DEF RunLink, PromiseInv
<1>3. k.to \in Data /\ k.gives \in Data \cup {Null} /\ (k.gives # Null => k.gives # k.to)
      /\ TakeOff(d, kind) \in [Data -> [Kinds -> Seq(Link)]]
  BY <1>2 DEF LinkOff
<1>4. ASSUME NEW x \in Data
      PROVE  LET made == << <<"notify", x>>, <<"abandon", k.to>> >> IN
             made \in Seq(Functions \X Data) /\ CallSum(made) <= 10
  <2>1. Weight("abandon") = 6 /\ Weight("notify") = 4
    BY DEF Weight
  <2>2. "abandon" \in Functions /\ "notify" \in Functions
    BY DEF Functions
  <2> DEFINE made == << <<"notify", x>>, <<"abandon", k.to>> >>
  <2>3. made \in Seq(Functions \X Data) /\ CallSum(made) = Weight("notify") + Weight("abandon")
    BY <1>3, <2>2, TwoWeigh
  <2> HIDE DEF made
  <2>4. CallSum(made) <= 10
    BY <2>1, <2>3
  <2> QED BY <2>3, <2>4 DEF made
<1>5. CASE LinkGivesValue(d, kind, k)
  <2>1. /\ ChainSum(links') = ChainSum(TakeOff(d, kind))
        /\ calls' = << <<"notify", k.to>>, <<"abandon", k.to>> >> \o calls
    BY <1>5 DEF LinkGivesValue
  <2>2. PICK made : made = << <<"notify", k.to>>, <<"abandon", k.to>> >>
    OBVIOUS
  <2>3. made \in Seq(Functions \X Data) /\ CallSum(made) <= 10
    BY <1>3, <1>4, <2>2
  <2> QED BY <1>2, <2>1, <2>2, <2>3, LinkEnds
<1>6. CASE LinkGivesFuture(d, kind, k)
  <2>0. PICK L : L = TakeOff(d, kind)
    OBVIOUS
  <2>1. PICK x \in Data : x = k.gives /\ L = TakeOff(d, kind) /\ x # k.to
    BY <1>3, <1>6, <2>0 DEF LinkGivesFuture
  <2>2. PICK made : made = << <<"notify", x>>, <<"abandon", k.to>> >>
    OBVIOUS
  <2>3. made \in Seq(Functions \X Data) /\ CallSum(made) <= 10
    BY <1>4, <2>2
  <2>4. /\ links' = [c \in Data |-> [m \in Kinds |->
              IF c = x THEN L[c][m] \o L[k.to][m] ELSE IF c = k.to THEN <<>> ELSE L[c][m]]]
        /\ calls' = made \o calls
    BY <1>6, <2>1, <2>2 DEF LinkGivesFuture
  <2>5. PICK y \in Data : y = k.to
    BY <1>3
  <2>6. ChainSum(links') = ChainSum(L)
    <3>1. L \in [Data -> [Kinds -> Seq(Link)]] /\ x # y
      BY <1>3, <2>1, <2>5
    <3>2. ChainSum(Moved(L, x, y)) = ChainSum(L)
      BY <3>1, LinksMoved
    <3>3. links' = Moved(L, x, y)
      BY <2>4, <2>5 DEF Moved
    <3> QED BY <3>2, <3>3
  <2> QED BY <1>2, <2>1, <2>3, <2>4, <2>6, LinkEnds
<1> QED BY <1>1, <1>5, <1>6 DEF RunLink

LEMMA DeleteLinkEnds ==
  ASSUME PromiseInv, IsFiniteSet(Data), NEW d \in Data, NEW kind \in Kinds, DeleteLink(d, kind)
  PROVE  Effort' < Effort
<1>1. PICK k : k = Head(links[d][kind])
  OBVIOUS
<1>2. /\ LinkOff(d, kind, k, TakeOff(d, kind)) /\ PromiseTypes /\ links[d][kind] # <<>>
  BY <1>1, LinkTakenOff DEF DeleteLink, PromiseInv
<1>3. k.to \in Data
  BY <1>2 DEF LinkOff
<1>4. PICK made : made = << <<"abandon", k.to>> >>
  OBVIOUS
<1>5. ChainSum(links') = ChainSum(TakeOff(d, kind)) /\ calls' = made \o calls
  BY <1>1, <1>4 DEF DeleteLink
<1>6. made \in Seq(Functions \X Data) /\ CallSum(made) <= 10
  <2>1. "abandon" \in Functions /\ Weight("abandon") = 6
    BY DEF Functions, Weight
  <2>2. made \in Seq(Functions \X Data) /\ CallSum(made) = 6
    BY <1>3, <1>4, <2>1, OneWeighs
  <2> QED BY <2>2
<1> QED BY <1>2, <1>5, <1>6, LinkEnds

LEMMA FreeEnds ==
  ASSUME PromiseTypes, IsFiniteSet(Data), NEW d \in Data, Free(d)
  PROVE  Effort' < Effort
<1>1. Called("free", d) /\ Weight("free") = 1
  BY DEF Free, Weight
<1>2. CASE FuturesOf(d) # {}
  <2>1. Becomes(<<>>) /\ UNCHANGED links
    BY <1>2 DEF Free
  <2>2. CallSum(<<>>) < Weight("free") /\ <<>> \in Seq(Functions \X Data)
    BY <1>1, NoCallsWeigh
  <2> QED BY <1>1, <2>1, <2>2, CallEnds
<1>3. CASE FuturesOf(d) = {}
  <2> DEFINE p == DropLinks(d, "ref")
             q == DropLinks(d, "move")
  <2>1. /\ links' = [links EXCEPT ![d] = [kind \in Kinds |-> <<>>]]
        /\ Becomes(p \o q)
    BY <1>3 DEF Free
  <2>2. /\ p \in Seq(Functions \X Data) /\ CallSum(p) = 6 * Len(links[d]["ref"])
        /\ q \in Seq(Functions \X Data) /\ CallSum(q) = 6 * Len(links[d]["move"])
    BY DropsWeigh DEF Kinds
  <2>3. /\ Len(links[d]["ref"]) \in Nat /\ Len(links[d]["move"]) \in Nat
        /\ ChainSum(links) \in Int
        /\ ChainSum(links') =
             ChainSum(links) - (Len(links[d]["ref"]) + Len(links[d]["move"]))
    BY <2>1, LinksGone
  <2> HIDE DEF p, q
  <2>4. p \o q \in Seq(Functions \X Data) /\ CallSum(p \o q) = CallSum(p) + CallSum(q)
    BY <2>2, CallSumJoined
  <2>5. /\ CallSum(calls) \in Int
        /\ CallSum(calls') = (CallSum(calls) - Weight("free")) + CallSum(p \o q)
    BY <1>1, <2>1, <2>4, CallWeighs
  <2>6. PICK a \in Int, c \in Int, n \in Nat, m \in Nat :
          /\ a = CallSum(calls) /\ c = ChainSum(links)
          /\ n = Len(links[d]["ref"]) /\ m = Len(links[d]["move"])
    BY <2>3, <2>5
  <2>7. ChainSum(links') = c - (n + m) /\ CallSum(p \o q) = 6 * n + 6 * m
    BY <2>2, <2>3, <2>4, <2>6
  <2>8. CallSum(calls') = (a - 1) + (6 * n + 6 * m)
    BY <1>1, <2>5, <2>6, <2>7
  <2>9. Effort = a + 11 * c /\ Effort' = ((a - 1) + (6 * n + 6 * m)) + 11 * (c - (n + m))
    BY <2>6, <2>7, <2>8 DEF Effort
  <2>10. ((a - 1) + (6 * n + 6 * m)) + 11 * (c - (n + m)) < a + 11 * c
    OBVIOUS
  <2> QED BY <2>9, <2>10
<1> QED BY <1>2, <1>3

\* The call of the program returns, however deep callbacks, destructors and notifications
\* call each other (promise.tcc:344): each step of the calls leaves less to do.
THEOREM CallsEndAlways ==
  ASSUME IsFiniteSet(Data)
  PROVE  PromiseSpec => CallsEnd
<1>1. PromiseInv /\ PromiseInv' /\ [PromiseNext]_promiseVars
        => [calls # <<>> => Effort' \in 0 .. Effort - 1]_promiseVars
  <2> SUFFICES ASSUME PromiseInv, PromiseInv', PromiseNext, calls # <<>>
               PROVE  Effort' \in 0 .. Effort - 1
    OBVIOUS
  <2>1. PICK d \in Data : MakeCall(d)
    BY DEF PromiseNext
  <2>2. PromiseTypes
    BY DEF PromiseInv
  <2>3. Effort' < Effort
    <3>1. CASE NotifyAll(d) \/ Abandon(d) \/ Free(d)
      BY <2>2, <3>1, NotifyAllEnds, AbandonEnds, FreeEnds
    <3>2. CASE \E result \in {"success", "lost"} : Tell(d, result)
      BY <2>2, <3>2, TellEnds
    <3>3. CASE \E kind \in Kinds : ClearChain(d, kind)
      BY <2>2, <3>3, ChainEmptyEnds, LinkRunEnds, DeleteLinkEnds DEF ClearChain
    <3> QED BY <2>1, <3>1, <3>2, <3>3 DEF MakeCall
  <2>4. Effort \in Nat
    <3>1. CallSum(calls) \in Nat /\ ChainSum(links) \in Nat
      BY EffortIsNat DEF PromiseInv, PromiseTypes
    <3> QED BY <3>1 DEF Effort
  <2>5. Effort' \in Nat
    <3>1. CallSum(calls') \in Nat /\ ChainSum(links') \in Nat
      BY EffortIsNat DEF PromiseInv, PromiseTypes
    <3> QED BY <3>1 DEF Effort
  <2> QED BY <2>3, <2>4, <2>5
<1> QED BY <1>1, PromiseInvariant, PTL DEF PromiseSpec, CallsEnd

=============================================================================
