-------------------------------- MODULE Timers --------------------------------
(***************************************************************************)
(* absolute_time_t, single_timer_t and periodic_timer_t (sync/timer.cc)    *)
(* and the list of timers of a thread (events_t in coro/events.cc).        *)
(*                                                                         *)
(* A time is seconds and nanoseconds kept apart, with a carry that leaves  *)
(* exactly one second of nanoseconds as it is.  The units are parameters,  *)
(* so that TLC can take small ones; in the code they are 1000 and 1000000. *)
(* A timer is armed when it is in that list.  What the coroutines do with  *)
(* it is in EventLoop.                                                     *)
(***************************************************************************)
EXTENDS Integers, Sequences, SequencesExt

CONSTANTS MsPerSec, NsPerMs

ASSUME TimeUnits == MsPerSec \in Nat \ {0} /\ NsPerMs \in Nat \ {0}

NsPerSec == MsPerSec * NsPerMs

\* Reading CLOCK_MONOTONIC when it shows ns nanoseconds.
ReadClock(ns) == [sec |-> ns \div NsPerSec, nsec |-> ns % NsPerSec]

\* add(), for a delta that is not negative.
Add(t, ms) ==
  LET sec == t.sec + ms \div MsPerSec
      nsec == t.nsec + (ms % MsPerSec) * NsPerMs
  IN IF nsec > NsPerSec THEN [sec |-> sec + 1, nsec |-> nsec - NsPerSec]
                        ELSE [sec |-> sec, nsec |-> nsec]

Less(a, b) == a.sec < b.sec \/ (a.sec = b.sec /\ a.nsec < b.nsec)

\* The instant a time stands for.
Value(t) == t.sec * NsPerSec + t.nsec

\* Mutant: rounded down.
MsDiff_Down(a, b) == (Value(a) - Value(b)) \div NsPerMs

\* ms_diff(): the quotient of C rounds towards zero, and the remainder has the
\* sign of the dividend, which makes the whole a division rounded up.
MsDiff(a, b) ==
  LET ns == a.nsec - b.nsec
      quotient == IF ns >= 0 THEN ns \div NsPerMs ELSE - ((- ns) \div NsPerMs)
  IN (a.sec - b.sec) * MsPerSec + quotient + (IF ns - quotient * NsPerMs > 0 THEN 1 ELSE 0)

-----------------------------------------------------------------------------
CONSTANTS Singles,     \* the single_timer_t objects
          Periodics,   \* the periodic_timer_t objects
          Delays,      \* the timeouts and periods they are started with, in ms
          MaxClock     \* bound on the clock, in ns

ASSUME TimersAssumption == Delays \subseteq Nat \ {0} /\ MaxClock \in Nat

VARIABLES clock,       \* the monotonic clock
          armed,       \* m_timer_list, each timer with its m_timeout
          triggered,   \* the single timers whose m_triggered is set
          period,      \* m_period_ms of the periodic ones, 0 where it is -1
          sleepers     \* m_waiters of each timer

timerVars == <<clock, armed, triggered, period, sleepers>>
Timer == Singles \cup Periodics

TimersInit ==
  /\ clock = 0
  /\ armed = <<>>
  /\ triggered = {}
  /\ period = [t \in Periodics |-> 0]
  /\ sleepers = [t \in Timer |-> {}]

Armed(list) == {list[i].timer : i \in DOMAIN list}
After(ms) == Add(ReadClock(clock), ms)

\* A bound on the clock: only timers whose wait ends before it are started.
InTime(ms) == Value(After(ms)) + NsPerMs <= MaxClock

\* The members of a list that are in S, in their order: the others are taken out.
Kept(list, S) ==
  LET kept[n \in 0 .. Len(list)] ==
        IF n = 0 THEN <<>>
        ELSE IF list[n] \in S THEN Append(kept[n - 1], list[n]) ELSE kept[n - 1]
  IN kept[Len(list)]

Disarm(list, T) == Kept(list, {e \in ToSet(list) : e.timer \notin T})

\* add_timer(), with the timer taken out first if it was in: before the first
\* timer that is not earlier.
Arm(t, at) ==
  LET list == Disarm(armed, {t})
      later == {i \in DOMAIN list : ~ Less(list[i].at, at)}
      pos == IF later = {} THEN Len(list) + 1
                           ELSE CHOOSE i \in later : \A j \in later : i <= j
  IN InsertAt(list, pos, [timer |-> t, at |-> at])

\* single_timer_t::start().
StartSingle(t, ms) ==
  /\ t \in Singles
  /\ InTime(ms)
  /\ triggered' = triggered \ {t}
  /\ armed' = Arm(t, After(ms))
  /\ UNCHANGED <<clock, period, sleepers>>

\* periodic_timer_t::start(): the list gets the timer only when somebody waits.
StartPeriodic(t, ms) ==
  /\ t \in Periodics
  /\ InTime(ms)
  /\ period' = [period EXCEPT ![t] = ms]
  /\ armed' = IF sleepers[t] # {} THEN Arm(t, After(ms)) ELSE Disarm(armed, {t})
  /\ UNCHANGED <<clock, triggered, sleepers>>

\* The waiters C leave every timer: remove_wait().  A periodic timer nobody
\* waits for any more leaves the list.
SleepersWithout(C) == [t \in Timer |-> sleepers[t] \ C]
ArmedWithout(list, C) ==
  Disarm(list, {t \in Periodics : sleepers[t] # {} /\ sleepers[t] \subseteq C})

\* Mutant: a periodic timer is not armed again after it rang.
Sleep_NotArmed(c, t) ==
  /\ sleepers' = [sleepers EXCEPT ![t] = @ \cup {c}]
  /\ UNCHANGED armed

\* add_wait() of c to the timer t that has not triggered.  A periodic timer that
\* was started and is not armed begins a new period now.
Sleep(c, t) ==
  /\ sleepers' = [sleepers EXCEPT ![t] = @ \cup {c}]
  /\ IF t \in Periodics /\ period[t] # 0 /\ t \notin Armed(armed)
     THEN InTime(period[t]) /\ armed' = Arm(t, After(period[t]))
     ELSE UNCHANGED armed

\* The timers check() pops: from the front, while they are due.
Expired ==
  {armed[i] : i \in {j \in DOMAIN armed :
                       \A k \in 1 .. j : Less(armed[k].at, ReadClock(clock))}}

Tick ==
  /\ clock < MaxClock
  /\ clock' = clock + 1
  /\ UNCHANGED <<armed, triggered, period, sleepers>>

===============================================================================
