------------------------------- MODULE Waiting -------------------------------
(***************************************************************************)
(* How the coroutines of a thread wait: wait_any and wait_all              *)
(* (sync/multiple_wait.cc) on event_t objects (sync/event.cc), with the    *)
(* chain of interruptors of the waiting coroutine (sync/interruptor.cc)    *)
(* mixed in.  The callbacks live on the stack of the waiting coroutine, so *)
(* none may stay in a list once the wait is over.                          *)
(*                                                                         *)
(* A coroutine is switched only where it blocks, so a call of set() and    *)
(* everything it calls back is one action.  Addresses are not modelled.    *)
(***************************************************************************)
EXTENDS Naturals, Sequences, FiniteSets

CONSTANTS Coros,      \* the coroutines
          Events,     \* the event_t objects
          MaxDepth    \* bound on the interruptors a coroutine nests

ASSUME WaitingAssumption ==
  /\ IsFiniteSet(Events)
  /\ MaxDepth \in Nat

VARIABLES alive,      \* the events that have not been destroyed
          set,        \* the triggered ones
          waiters,    \* m_waiters of an event: the coroutines with an item there
          chain,      \* m_interruptors of a coroutine, with what each one
                      \* watches, whether its callback is still registered
                      \* there, and m_triggered
          status,     \* each coroutine: "running" (or able to), "blocked" in a
                      \* wait, or "notified" (in the run queue)
          needed,     \* m_needed of its multiple_waiter_t
          items,      \* m_items of it: the events it waits for
          hooked,     \* those whose multiple_waiter_t is in the list of the
                      \* innermost interruptor
          outcome,    \* m_wait_result, as the last wait returned it
          notices,    \* how often each was put in the run queue for this wait
          overrun     \* has item_finished been called with m_needed = 0?

eventVars == <<alive, set, waiters>>
waitVars == <<status, needed, items, hooked, outcome, notices, overrun>>
vars == <<eventVars, chain, waitVars>>

Init ==
  /\ alive = Events
  /\ set = {}
  /\ waiters = [e \in Events |-> {}]
  /\ chain = [c \in Coros |-> <<>>]
  /\ status = [c \in Coros |-> "running"]
  /\ needed = [c \in Coros |-> 0]
  /\ items = [c \in Coros |-> {}]
  /\ hooked = {}
  /\ outcome = [c \in Coros |-> "success"]
  /\ notices = [c \in Coros |-> 0]
  /\ overrun = FALSE

Innermost(c) == chain[c][Len(chain[c])]
Interrupted(c) == chain[c] # <<>> /\ Innermost(c).triggered

-----------------------------------------------------------------------------
\* wait_any and wait_all.
\* Mutant: the interruptor is not asked to call back.
BeginWait_NotHooked(c, total, S) ==
  LET done == S \cap set
      ready == Cardinality(done) >= total
  IN
  /\ status[c] = "running"
  /\ S # {}
  /\ S \subseteq alive
  /\ overrun' = (overrun \/ Cardinality(done) > total)
  /\ IF ready
     THEN /\ outcome' = [outcome EXCEPT ![c] = "success"]
          /\ UNCHANGED <<waiters, status, needed, items, notices>>
     ELSE /\ waiters' = [e \in Events |-> IF e \in S \ done THEN waiters[e] \cup {c}
                                                            ELSE waiters[e]]
          /\ items' = [items EXCEPT ![c] = S]
          /\ needed' = [needed EXCEPT ![c] = total - Cardinality(done)]
          /\ status' = [status EXCEPT ![c] = "blocked"]
          /\ notices' = [notices EXCEPT ![c] = 0]
          /\ UNCHANGED outcome
  /\ UNCHANGED <<alive, set, chain, hooked>>

\* The items begin their waits in turn: those on triggered events finish at
\* once.  Then the interruptor is asked.  If either made the wait ready it
\* returns, or throws, without blocking; else the coroutine blocks.
BeginWait(c, total, S) ==
  LET done == S \cap set
      ready == Cardinality(done) >= total
  IN
  /\ status[c] = "running"
  /\ S # {}
  /\ S \subseteq alive
  /\ overrun' = (overrun \/ Cardinality(done) > total)
  /\ IF ready \/ Interrupted(c)
     THEN /\ outcome' = [outcome EXCEPT ![c] = IF ready THEN "success" ELSE "interrupted"]
          /\ UNCHANGED <<waiters, status, needed, items, hooked, notices>>
     ELSE /\ waiters' = [e \in Events |-> IF e \in S \ done THEN waiters[e] \cup {c}
                                                            ELSE waiters[e]]
          /\ items' = [items EXCEPT ![c] = S]
          /\ needed' = [needed EXCEPT ![c] = total - Cardinality(done)]
          /\ hooked' = IF chain[c] # <<>> THEN hooked \cup {c} ELSE hooked
          /\ status' = [status EXCEPT ![c] = "blocked"]
          /\ notices' = [notices EXCEPT ![c] = 0]
          /\ UNCHANGED outcome
  /\ UNCHANGED <<alive, set, chain>>

WaitAny(c, S) == BeginWait(c, 1, S)
WaitAll(c, S) == BeginWait(c, Cardinality(S), S)

\* The coroutine runs again: the wait returns or throws, and the destructor of
\* its multiple_waiter_t leaves the interruptor.
Resume(c) ==
  /\ status[c] = "notified"
  /\ status' = [status EXCEPT ![c] = "running"]
  /\ hooked' = hooked \ {c}
  /\ needed' = [needed EXCEPT ![c] = 0]
  /\ notices' = [notices EXCEPT ![c] = 0]
  /\ UNCHANGED <<eventVars, chain, items, outcome, overrun>>

-----------------------------------------------------------------------------
\* What a list of waiters being cleared does to the coroutines.

\* ready(): cancel the items that are left, put the coroutine in the run queue.
\* D are the coroutines whose wait is decided, res what it is for each.
Decide(D, res) ==
  /\ status' = [c \in Coros |-> IF c \in D THEN "notified" ELSE status[c]]
  /\ outcome' = [c \in Coros |-> IF c \in D THEN res[c] ELSE outcome[c]]
  /\ items' = [c \in Coros |-> IF c \in D THEN {} ELSE items[c]]
  /\ notices' = [c \in Coros |-> IF c \in D THEN notices[c] + 1 ELSE notices[c]]

\* The chain of c after the event e called back: the interruptors that watch it
\* are triggered, and with each of them all that were nested in it.
Fired(c, e) ==
  [i \in DOMAIN chain[c] |->
     [chain[c][i] EXCEPT
        !.registered = @ /\ chain[c][i].source # e,
        !.triggered = @ \/ \E j \in 1 .. i : /\ chain[c][j].source = e
                                             /\ chain[c][j].registered]]

NowInterrupted(c, e) ==
  /\ c \in hooked
  /\ ~ Innermost(c).triggered
  /\ Fired(c, e)[Len(chain[c])].triggered

\* Mutant: the other items of a decided wait are not cancelled.
SetEvent_NoCancel(e) ==
  LET interrupted == {c \in Coros : NowInterrupted(c, e)}
      stopped == {c \in interrupted : status[c] = "blocked"}
      finished == waiters[e] \ stopped
      decided == stopped \cup {c \in finished : needed[c] = 1}
  IN
  /\ e \in alive
  /\ set' = set \cup {e}
  /\ chain' = [c \in Coros |-> Fired(c, e)]
  /\ hooked' = hooked \ interrupted
  /\ Decide(decided, [c \in decided |-> IF c \in stopped THEN "interrupted" ELSE "success"])
  /\ needed' = [c \in Coros |-> IF c \in finished THEN needed[c] - 1 ELSE needed[c]]
  /\ waiters' = [waiters EXCEPT ![e] = {}]
  /\ UNCHANGED <<alive, overrun>>

\* event_t::set().  An interruptor of a coroutine registered with the event
\* before the coroutine's wait did, so it is called first.
SetEvent(e) ==
  LET interrupted == {c \in Coros : NowInterrupted(c, e)}
      stopped == {c \in interrupted : status[c] = "blocked"}
      finished == waiters[e] \ stopped
      last == {c \in finished : needed[c] = 1}
      decided == stopped \cup last
  IN
  /\ e \in alive
  /\ set' = set \cup {e}
  /\ chain' = [c \in Coros |-> Fired(c, e)]
  /\ hooked' = hooked \ interrupted
  /\ Decide(decided, [c \in decided |-> IF c \in stopped THEN "interrupted" ELSE "success"])
  /\ needed' = [c \in Coros |-> IF c \in finished THEN needed[c] - 1 ELSE needed[c]]
  /\ waiters' = [f \in Events |-> IF f = e THEN {} ELSE waiters[f] \ decided]
  /\ UNCHANGED <<alive, overrun>>

ResetEvent(e) ==
  /\ e \in alive
  /\ set' = set \ {e}
  /\ UNCHANGED <<alive, waiters, chain, waitVars>>

\* The destructor.  An interruptor must not outlive what it watches: its
\* wait_done() asserts that it is told of a success.
DestroyEvent(e) ==
  LET decided == waiters[e] IN
  /\ e \in alive
  /\ \A c \in Coros, i \in 1 .. MaxDepth :
       i \in DOMAIN chain[c] => ~ (chain[c][i].registered /\ chain[c][i].source = e)
  /\ alive' = alive \ {e}
  /\ set' = set \ {e}
  /\ Decide(decided, [c \in decided |-> "lost"])
  /\ waiters' = [f \in Events |-> waiters[f] \ decided]
  /\ UNCHANGED <<chain, needed, hooked, overrun>>

-----------------------------------------------------------------------------
\* Interruptors are objects on the stack of the coroutine.
\* Mutant: a new interruptor does not ask the one around it.
PushInterruptor_Fresh(c, e) ==
  /\ status[c] = "running"
  /\ e \in alive
  /\ Len(chain[c]) < MaxDepth
  /\ chain' = [chain EXCEPT ![c] =
       Append(@, [source |-> e, registered |-> e \notin set, triggered |-> e \in set])]
  /\ UNCHANGED <<eventVars, waitVars>>

\* The new one is triggered already if its event is, or the one around it.
PushInterruptor(c, e) ==
  /\ status[c] = "running"
  /\ e \in alive
  /\ Len(chain[c]) < MaxDepth
  /\ chain' = [chain EXCEPT ![c] =
       Append(@, [source |-> e, registered |-> e \notin set,
                  triggered |-> e \in set \/ Interrupted(c)])]
  /\ UNCHANGED <<eventVars, waitVars>>

PopInterruptor(c) ==
  /\ status[c] = "running"
  /\ chain[c] # <<>>
  /\ chain' = [chain EXCEPT ![c] = SubSeq(@, 1, Len(@) - 1)]
  /\ UNCHANGED <<eventVars, waitVars>>

Next ==
  \/ \E c \in Coros, S \in SUBSET Events : WaitAny(c, S) \/ WaitAll(c, S)
  \/ \E c \in Coros : Resume(c) \/ PopInterruptor(c)
  \/ \E e \in Events : SetEvent(e) \/ ResetEvent(e) \/ DestroyEvent(e)
  \/ \E c \in Coros, e \in Events : PushInterruptor(c, e)

Spec == Init /\ [][Next]_vars

-----------------------------------------------------------------------------
\* Properties.

Interruptor == [source : Events, registered : BOOLEAN, triggered : BOOLEAN]

TypeOK ==
  /\ set \subseteq alive /\ alive \subseteq Events
  /\ waiters \in [Events -> SUBSET Coros]
  /\ chain \in [Coros -> Seq(Interruptor)]
  /\ status \in [Coros -> {"running", "blocked", "notified"}]
  /\ needed \in [Coros -> 0 .. Cardinality(Events)]
  /\ items \in [Coros -> SUBSET Events]
  /\ hooked \subseteq Coros
  /\ outcome \in [Coros -> {"success", "interrupted", "lost"}]
  /\ notices \in [Coros -> Nat]
  /\ overrun \in BOOLEAN

\* "assert(!in_a_list())" in coro_t::notify (coro.cc:271): however many events
\* and interruptors come in before it runs, a wait is decided once.
NotifiedOnce ==
  \A c \in Coros : notices[c] = (IF status[c] = "notified" THEN 1 ELSE 0)

\* Nothing points into the frame of a wait that is over: a decided wait has no
\* item in any event's list, and a coroutine that runs has no callback at all.
NothingLeftBehind ==
  /\ TypeOK
  /\ \A c \in Coros :
       /\ status[c] # "blocked" => \A e \in Events : c \notin waiters[e]
       /\ status[c] = "running" => c \notin hooked /\ items[c] = {}

\* A wait is decided once, and nothing is left in its frame.
WaitsAreOver == NotifiedOnce /\ NothingLeftBehind

\* Nobody is blocked for nothing: enough of its events are still to call back,
\* and its interruptor, which has not been triggered, will call it too.
BlockedCanWake ==
  \A c \in Coros : status[c] = "blocked" =>
    /\ needed[c] \in 1 .. Cardinality({e \in items[c] : c \in waiters[e]})
    /\ ~ Interrupted(c)
    /\ chain[c] # <<>> => c \in hooked

\* An interruption reaches every interruptor nested in the one it came to.
InterruptionSpreads ==
  \A c \in Coros : \A i \in DOMAIN chain[c] :
    chain[c][i].triggered => \A j \in DOMAIN chain[c] : j >= i => chain[c][j].triggered

\* "assert(m_needed > 0)" (multiple_wait.cc:49)
NeededPositive == ~ overrun

=============================================================================
