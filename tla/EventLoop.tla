------------------------------- MODULE EventLoop -------------------------------
(***************************************************************************)
(* The event loop of a thread (coro/events.cc): file_wait_t objects        *)
(* (sync/file_wait.cc) and timers the coroutines wait for, the changes of  *)
(* the epoll set that are applied before the next sleep, and the walk over *)
(* the callbacks of a descriptor while they take themselves out.           *)
(*                                                                         *)
(* The kernel is modelled by what epoll_ctl and epoll_wait say of it: a    *)
(* descriptor leaves the epoll set when it is closed, its number is used   *)
(* again, and registrations are level-triggered.                           *)
(***************************************************************************)
EXTENDS Timers, FiniteSets

CONSTANTS Fds, Coros,
          IntBound     \* one more than the greatest int: 2^31 in the build

ASSUME IntAssumption == IntBound \in Nat \ {0}

Ops == {"in", "out"}
Null == [fd |-> 0]

VARIABLES open,         \* the descriptors that are open
          kernel,       \* the epoll set: the mask of each descriptor, {} if absent
          known,        \* the keys of m_file_map
          cbs,          \* m_callbacks of each: a file_wait_t is [coro, fd, op]
          used,         \* m_last_used_events of each
          changes,      \* m_epoll_changes
          phase,        \* where check() is, "run" while the coroutines run
          wake,         \* when epoll_wait() times out, or -1
          events,       \* what it returned and is not handled yet
          walk,         \* the descriptor being handled, its events, and cursor
          status,       \* a coroutine: "running", "waiting", or "notified", in the
                        \* run queue; what its wait returns is not modelled
          died          \* "abort" by a GUARANTEE, "crash" on a null pointer

fileVars == <<known, cbs, used, changes>>
loopVars == <<phase, wake, events, walk>>
eventVars == <<timerVars, open, kernel, fileVars, loopVars, status, died>>

EventsInit ==
  /\ TimersInit
  /\ open = Fds
  /\ kernel = [fd \in Fds |-> {}]
  /\ known = {}
  /\ cbs = [fd \in Fds |-> <<>>]
  /\ used = [fd \in Fds |-> {}]
  /\ changes = {}
  /\ phase = "run"
  /\ wake = 0
  /\ events = {}
  /\ walk = Null
  /\ status = [c \in Coros |-> "running"]
  /\ died = "no"

Waiting == {c \in Coros : status[c] = "waiting"}
Mask(fd) == {w.op : w \in ToSet(cbs[fd])}
Running == phase = "run" /\ died = "no"

-----------------------------------------------------------------------------
\* The coroutines.

\* wait_any of c on the file waits `files', a sequence, and the timers T.  The
\* items begin their waits in turn; if a timer has triggered the wait is over,
\* and the others are cancelled at once.
Wait(c, files, T) ==
  LET fds == {files[i].fd : i \in DOMAIN files} IN
  /\ Running
  /\ status[c] = "running"
  /\ fds \subseteq open
  /\ \A t \in T \cap Singles : t \in triggered \/ t \in Armed(armed)
  /\ known' = known \cup fds
  /\ changes' = changes \cup fds
  /\ IF T \cap triggered # {}
     THEN UNCHANGED <<cbs, status, sleepers, armed>>
     ELSE /\ cbs' = [fd \in Fds |-> cbs[fd] \o Kept(files, {w \in ToSet(files) : w.fd = fd})]
          /\ status' = [status EXCEPT ![c] = "waiting"]
          /\ IF T = {} THEN UNCHANGED <<sleepers, armed>>
                       ELSE \E t \in T : Sleep(c, t)
  /\ UNCHANGED <<clock, triggered, period, open, kernel, used, loopVars, died>>

\* The waits of C end: they are put in the run queue, and the items that did
\* not call back are cancelled, on timers and on descriptors.  `list' is the
\* timers left in the list and `done' the file wait that called back: that one
\* is taken out without a change being recorded.
Decide(C, list, done) ==
  LET cancelled(fd) == {w \in ToSet(cbs[fd]) \ done : w.coro \in C} IN
  /\ status' = [c \in Coros |-> IF c \in C THEN "notified" ELSE status[c]]
  /\ cbs' = [fd \in Fds |-> Kept(cbs[fd], {w \in ToSet(cbs[fd]) : w.coro \notin C})]
  /\ changes' = changes \cup {fd \in Fds : cancelled(fd) # {}}
  /\ sleepers' = SleepersWithout(C)
  /\ armed' = ArmedWithout(list, C)

\* An interruptor of c triggers.
Interrupt(c) ==
  /\ Running
  /\ status[c] = "waiting"
  /\ Decide({c}, armed, {})
  /\ UNCHANGED <<clock, triggered, period, open, kernel, known, used,
                 loopVars, died>>

Resume(c) ==
  /\ Running
  /\ status[c] = "notified"
  /\ status' = [status EXCEPT ![c] = "running"]
  /\ UNCHANGED <<timerVars, open, kernel, fileVars, loopVars, died>>

Start(t, ms) ==
  /\ Running
  /\ StartSingle(t, ms) \/ StartPeriodic(t, ms)
  /\ UNCHANGED <<open, kernel, fileVars, loopVars, status, died>>

\* stop(), and the destructor: both end the waits of the timer.
EndTimer(t) ==
  /\ Running
  /\ triggered' = triggered \ {t}
  /\ period' = [u \in Periodics |-> IF u = t THEN 0 ELSE period[u]]
  /\ Decide(sleepers[t], Disarm(armed, {t}), {})
  /\ UNCHANGED <<clock, open, kernel, known, used, loopVars, died>>

\* A descriptor is closed by its owner, when nobody waits for it any more.
Close(fd) ==
  /\ Running
  /\ fd \in open
  /\ cbs[fd] = <<>>
  /\ open' = open \ {fd}
  /\ kernel' = [kernel EXCEPT ![fd] = {}]
  /\ UNCHANGED <<timerVars, fileVars, loopVars, status, died>>

Open(fd) ==
  /\ Running
  /\ fd \notin open
  /\ open' = open \cup {fd}
  /\ UNCHANGED <<timerVars, kernel, fileVars, loopVars, status, died>>

-----------------------------------------------------------------------------
\* check(): the changes, epoll_wait(), the callbacks, the timers.

\* The int64_t of ms_diff() becomes an int: modulo 2^32, into its range.
Narrow(ms) == ((ms + IntBound) % (2 * IntBound)) - IntBound

\* The time epoll_wait() may sleep: not at all if a coroutine can run, until the
\* first timer, or for ever.
Deadline ==
  IF \E c \in Coros : status[c] = "notified" THEN clock
  ELSE IF armed = <<>> THEN -1
  ELSE LET ms == Narrow(MsDiff(armed[1].at, ReadClock(clock)))
       IN clock + NsPerMs * (IF ms > 0 THEN ms ELSE 0)

\* ADD fails for what is in the epoll set already, MOD for what is not.
Refused(fd) == cbs[fd] # <<>> /\ (used[fd] = {}) = (kernel[fd] # {})

\* Mutant: a descriptor that is in the epoll set already is left as it is.
UpdateEpoll_AddOnly ==
  LET gone == {fd \in changes : cbs[fd] = <<>>} IN
  /\ Running
  /\ IF \E fd \in changes : Refused(fd)
     THEN died' = "abort" /\ UNCHANGED <<fileVars, kernel, phase, wake>>
     ELSE /\ kernel' = [fd \in Fds |-> IF fd \in changes /\ (used[fd] = {} \/ fd \in gone)
                                      THEN Mask(fd) ELSE kernel[fd]]
          /\ used' = [fd \in Fds |-> IF fd \in changes THEN Mask(fd) ELSE used[fd]]
          /\ known' = known \ gone
          /\ changes' = {}
          /\ wake' = Deadline
          /\ phase' = "poll"
          /\ UNCHANGED <<cbs, died>>
  /\ UNCHANGED <<timerVars, open, events, walk, status>>

\* update_epoll(): a descriptor without callbacks leaves the map and the set.
UpdateEpoll ==
  LET gone == {fd \in changes : cbs[fd] = <<>>} IN
  /\ Running
  /\ IF \E fd \in changes : Refused(fd)
     THEN died' = "abort" /\ UNCHANGED <<fileVars, kernel, phase, wake>>
     ELSE /\ kernel' = [fd \in Fds |-> IF fd \in changes THEN Mask(fd) ELSE kernel[fd]]
          /\ used' = [fd \in Fds |-> IF fd \in changes THEN Mask(fd) ELSE used[fd]]
          /\ known' = known \ gone
          /\ changes' = {}
          /\ wake' = Deadline
          /\ phase' = "poll"
          /\ UNCHANGED <<cbs, died>>
  /\ UNCHANGED <<timerVars, open, events, walk, status>>

\* epoll_wait() reports some of what it was asked for, or errors, or nothing:
\* by its timeout, or early because of EINTR.
Poll ==
  /\ phase = "poll"
  /\ \E mask \in [Fds -> SUBSET Ops \cup {{"err"}}] :
       /\ \A fd \in Fds : mask[fd] \subseteq kernel[fd] \/ (kernel[fd] # {} /\ mask[fd] = {"err"})
       /\ events' = {[fd |-> fd, mask |-> mask[fd]] : fd \in {g \in Fds : mask[g] # {}}}
  /\ phase' = "events"
  /\ wake' = 0
  /\ UNCHANGED <<timerVars, open, kernel, fileVars, walk, status, died>>

HandleFd(e) ==
  /\ phase = "events" /\ walk = Null
  /\ e \in events
  /\ events' = events \ {e}
  /\ walk' = IF cbs[e.fd] = <<>> THEN Null
             ELSE [fd |-> e.fd, mask |-> e.mask, at |-> cbs[e.fd][1]]
  /\ UNCHANGED <<timerVars, open, kernel, fileVars, phase, wake, status, died>>

\* The callback behind w in its list, Null at the end of it and for a callback
\* that is in no list any more.
NextOf(w) ==
  LET list == cbs[w.fd]
      later == {i \in DOMAIN list \ {1} : list[i - 1] = w}
  IN IF later = {} THEN Null ELSE list[CHOOSE i \in later : TRUE]

\* One round of the loop over the callbacks of a descriptor.  `next' was read
\* before the callback ran, which may have taken it out of the list: what is
\* called then has no waiter any more, and removing it follows a null pointer.
Callback ==
  LET w == walk.at
      hit == "err" \in walk.mask \/ w.op \in walk.mask
      listed == w \in ToSet(cbs[w.fd])
  IN
  /\ phase = "events" /\ walk # Null /\ died = "no"
  /\ IF hit /\ ~ listed
     THEN died' = "crash" /\ UNCHANGED <<fileVars, armed, sleepers, status, walk>>
     ELSE /\ walk' = IF NextOf(w) = Null THEN Null ELSE [walk EXCEPT !.at = NextOf(w)]
          /\ UNCHANGED <<known, used, died>>
          /\ IF hit
             THEN Decide({w.coro}, armed, {w})
             ELSE UNCHANGED <<cbs, changes, armed, sleepers, status>>
  /\ UNCHANGED <<clock, triggered, period, open, kernel, phase, wake, events>>

\* The timers that are due ring, and the dispatcher runs.
RingTimers ==
  LET rung == {e.timer : e \in Expired}
      heard == UNION {sleepers[t] : t \in rung}
  IN
  /\ phase = "events" /\ walk = Null /\ events = {} /\ died = "no"
  /\ triggered' = triggered \cup (rung \cap Singles)
  /\ Decide(heard, Disarm(armed, rung), {})
  /\ phase' = "run"
  /\ UNCHANGED <<clock, period, open, kernel, known, used, wake, events, walk, died>>

\* Time passes while the thread sleeps; what passes while coroutines run is
\* added to the next sleep.
TimePasses ==
  /\ phase = "poll"
  /\ Tick
  /\ UNCHANGED <<open, kernel, fileVars, loopVars, status, died>>

FileWait(c) == [coro : {c}, fd : Fds, op : Ops]
FileWaits(c) == {<<>>} \cup {<<w>> : w \in FileWait(c)}
                \cup {s \in FileWait(c) \X FileWait(c) : s[1] # s[2]}
TimerSets == {{}} \cup {{t} : t \in Timer}

CoroNext ==
  \/ \E c \in Coros :
       \/ \E files \in FileWaits(c), T \in TimerSets :
            Len(files) + Cardinality(T) \in 1 .. 2 /\ Wait(c, files, T)
       \/ Interrupt(c)
       \/ Resume(c)
  \/ \E t \in Timer :
       \/ \E ms \in Delays : Start(t, ms)
       \/ EndTimer(t)
  \/ \E fd \in Fds : Close(fd) \/ Open(fd)

CheckNext ==
  UpdateEpoll \/ Poll \/ (\E e \in events : HandleFd(e)) \/ Callback \/ RingTimers

EventsNext == CoroNext \/ CheckNext \/ TimePasses

EventsSpec == EventsInit /\ [][EventsNext]_eventVars

-----------------------------------------------------------------------------
\* Properties.

\* When the thread goes to sleep the epoll set has all that its coroutines wait
\* for, though the changes were recorded one by one and applied late
\* (events.cc:95), and nothing it reports is unknown to the loop (events.cc:146).
KernelKnowsEveryWait ==
  /\ phase = "poll" => \A fd \in open : Mask(fd) \subseteq kernel[fd]
  /\ \A fd \in Fds : kernel[fd] # {} => fd \in known
  /\ changes \subseteq known

\* A coroutine waits if and only if an object knows of it, so no callback is
\* left in a stack frame that is gone; a timer somebody waits for is armed, if
\* it was started; and the list of timers is in the order of their times.
WaitsAreRegistered ==
  /\ Waiting = UNION ({sleepers[t] : t \in Timer}
                      \cup {{w.coro : w \in ToSet(cbs[fd])} : fd \in Fds})
  /\ \A t \in Timer : sleepers[t] # {} /\ (t \in Periodics => period[t] # 0) => t \in Armed(armed)
  /\ \A i, j \in DOMAIN armed : i < j => Value(armed[i].at) <= Value(armed[j].at)

\* No timer rings before its time, nor while an earlier one does not, although
\* times compare by seconds and nanoseconds that are not normalised (timer.cc:43).
RingsInTime ==
  phase = "events" /\ phase' = "run" =>
    \A e \in Expired : /\ Value(e.at) <= clock
                       /\ \A later \in ToSet(armed') : Value(e.at) <= Value(later.at)

\* The sleep of the thread ends with the millisecond in which the first timer is
\* due: not after it, and not before, which would make the loop spin.  A timer is
\* out of reach of an int when it is due in 2^31 ms or more: only for one that is at
\* least 2^31 - 1 ms away the sleep may end early (at once, or where the int wraps to),
\* and if it ends late, then by 2^32 ms, for a timer that was long overdue.
SleepsUntilTheTimer ==
  phase = "poll" /\ armed # <<>> =>
    LET late == wake - Value(armed[1].at) IN
      /\ wake >= 0
      /\ late < NsPerMs \/ wake <= clock \/ late >= 2 * IntBound * NsPerMs
      /\ \/ late >= 0
         \/ - late > (IntBound - 1) * NsPerMs
         \/ \E c \in Coros : status[c] = "notified"

\* The thread sleeps until its first timer is due, however far that is (events.cc:72).
\* False: the difference of 64 bits is assigned to an int.
FarTimersSleep ==
  phase = "poll" /\ armed # <<>> =>
    wake >= Value(armed[1].at) \/ \E c \in Coros : status[c] = "notified"

\* The change of a registration is accepted by the kernel: GUARANTEE_ERR in
\* events.cc:122.  False: a descriptor whose wait succeeded is closed, and its
\* number comes back while m_file_map still has the old registration.
ChangesAreAccepted == died # "abort"

\* The walk over the callbacks survives what they do (events.cc:148).  False: a
\* coroutine waits for both directions of a descriptor, and both are ready.
WalkSurvives == died # "crash"

=============================================================================
