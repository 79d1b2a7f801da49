------------------------------ MODULE Shutdown ------------------------------
(***************************************************************************)
(* How scheduler_t::run decides that everything is finished: shutdown_t    *)
(* (coro/shutdown.cc) counts the tasks of all threads in one atomic        *)
(* counter, dispatcher_t (coro/coro.cc) reports the changes of its thread  *)
(* in one batch when its run() returns, target_t::note_send counts a       *)
(* request before it is written, message_hub_t::spawn_task takes requests  *)
(* and replies from the inboxes, and thread_t (coro/thread.cc) runs the    *)
(* loop.  The streams are FIFO queues here (see MpscQueue, LocalStream,    *)
(* and IoStream for the pop that finds nothing and aborts), and the        *)
(* barrier lets all threads through together (see Barrier).                *)
(***************************************************************************)
EXTENDS Integers, Sequences, FiniteSets, FiniteSetsExt

CONSTANTS CoroThreads, \* the coroutine threads
          IoThreads,   \* the io threads, which share one more inbox
          Io,          \* that inbox (m_io_stream)
          Work,        \* names for pieces of work: bounds how much is done
          MaxRuns,     \* bound on the calls of scheduler_t::run
          Chaining,    \* may a coroutine leave a then() on a reply behind?
          None

Threads == CoroThreads \cup IoThreads
Targets == CoroThreads \cup {Io}      \* where a coroutine can send to
NumTargets == Cardinality(Threads)    \* m_targets.size()

ASSUME ShutdownAssumption ==
  /\ IsFiniteSet(Threads)
  /\ CoroThreads # {}
  /\ CoroThreads \cap IoThreads = {}
  /\ Io \notin Threads
  /\ None \notin Threads \cup Work
  /\ MaxRuns \in Nat
  /\ Chaining \in BOOLEAN

\* A message, and the coroutine that handles it.  `from' is the thread that
\* wants the reply to a call.
Job == [kind : {"task", "call", "coro", "begin", "finish", "reply"},
        id : Work \cup Threads, from : Threads \cup {None}]

MkJob(k, i, f) == [kind |-> k, id |-> i, from |-> f]

VARIABLES main,        \* scheduler_t::run
          runs,        \* how often it has been called
          toTell,      \* the targets begin_shutdown has still to write to
          count,       \* m_active_count
          finishSent,  \* m_finish_sent
          inbox,       \* the messages queued for each thread, and for Io
          used,        \* the names of work already taken
          tpc,         \* where each thread is
          delta,       \* m_coro_delta of each dispatcher
          live,        \* the coroutines of each thread that are counted
          sending,     \* a message between note_send and the write
          finishing,   \* the targets update() has still to send finish to
          awaiting,    \* <<w, c>>: coroutine w waits for the reply to call c
          chained,     \* the calls whose reply runs a then() callback
          stop,        \* m_stop_immediately
          event,       \* m_shutdown_event
          ready,       \* the io threads whose m_ready_for_next is set
          pulling,     \* the io threads in io_stream_t::read
          woken        \* those of them whose in.wait() is over

counterVars == <<count, finishSent>>
mainVars == <<main, runs, toTell>>
ioVars == <<ready, pulling, woken>>
replyVars == <<awaiting, chained>>
threadVars == <<tpc, delta, live, sending, finishing, stop, event>>
vars == <<mainVars, counterVars, inbox, used, threadVars, replyVars, ioVars>>

Init ==
  /\ main = "idle"
  /\ runs = 0
  /\ toTell = {}
  /\ count = 0
  /\ finishSent = TRUE
  /\ inbox = [q \in Threads \cup {Io} |-> <<>>]
  /\ used = {}
  /\ tpc = [t \in Threads |-> "paused"]
  /\ delta = [t \in Threads |-> 0]
  /\ live = [t \in Threads |-> {}]
  /\ sending = [t \in Threads |-> None]
  /\ finishing = [t \in Threads |-> {}]
  /\ awaiting = {}
  /\ chained = {}
  /\ stop = [t \in Threads |-> FALSE]
  /\ event = [t \in Threads |-> FALSE]
  /\ ready = {}
  /\ pulling = {}
  /\ woken = {}

Push(q, j) == inbox' = [inbox EXCEPT ![q] = Append(@, j)]

-----------------------------------------------------------------------------
\* The thread that owns the scheduler.

\* A request sent while the scheduler is not running: there is no thread_t,
\* so note_send does not count it.
Enqueue(q, w) ==
  /\ main = "idle"
  /\ runs < MaxRuns
  /\ w \notin used
  /\ used' = used \cup {w}
  /\ Push(q, MkJob("task", w, None))
  /\ UNCHANGED <<mainVars, counterVars, threadVars, replyVars, ioVars>>

\* run(): what is queued at the coroutine threads and for io is counted, with
\* one dummy task; then the barrier starts the threads.
QueuedAtStart == MapThenSumSet(LAMBDA q : Len(inbox[q]), Targets)

Run ==
  /\ main = "idle"
  /\ runs < MaxRuns
  /\ main' = "running"
  /\ runs' = runs + 1
  /\ count' = QueuedAtStart + 1
  /\ finishSent' = FALSE
  /\ tpc' = [t \in Threads |-> "poll"]
  /\ stop' = [t \in Threads |-> FALSE]
  /\ UNCHANGED <<toTell, inbox, used, delta, live, sending, finishing, event,
                 replyVars, ioVars>>

\* begin_shutdown(), at once (Eager) or after a signal (Kill): the dummy task
\* is traded for one begin request per thread.
BeginShutdown ==
  /\ main = "running"
  /\ main' = "telling"
  /\ toTell' = Threads
  /\ count' = count + (NumTargets - 1)
  /\ UNCHANGED <<runs, finishSent, inbox, used, threadVars, replyVars, ioVars>>

TellBegin(t) ==
  /\ main = "telling"
  /\ t \in toTell
  /\ Push(t, MkJob("begin", t, None))
  /\ toTell' = toTell \ {t}
  /\ main' = IF toTell' = {} THEN "waiting" ELSE "telling"
  /\ UNCHANGED <<runs, counterVars, used, threadVars, replyVars, ioVars>>

\* The barrier at the end of run(): all threads have paused.
RunReturns ==
  /\ main = "waiting"
  /\ \A t \in Threads : tpc[t] = "paused"
  /\ main' = "idle"
  /\ UNCHANGED <<runs, toTell, counterVars, inbox, used, threadVars, replyVars,
                 ioVars>>

-----------------------------------------------------------------------------
\* thread_t::main and the inner loops.

\* inner_main: tell the io coroutine to pull, check for events, enter run().
\* The io threads share an eventfd: epoll tells each of them that there is a
\* message, until one has taken it.
Enter(t) ==
  /\ tpc[t] \in {"poll", "repoll"}
  /\ tpc' = [tpc EXCEPT ![t] = "run"]
  /\ delta' = [delta EXCEPT ![t] = 0]
  /\ ready' = IF t \in IoThreads /\ tpc[t] = "poll" THEN ready \cup {t} ELSE ready
  /\ woken' = IF t \in pulling /\ inbox[Io] # <<>> THEN woken \cup {t} ELSE woken
  /\ UNCHANGED <<mainVars, counterVars, inbox, used, live, sending, finishing,
                 stop, event, replyVars, pulling>>

\* After dispatcher_t::run: an io thread goes round again while it has tasks,
\* and the outer loop ends once m_stop_immediately is set.
AfterRun(t) ==
  IF t \in IoThreads /\ live[t] # {} THEN "repoll"
  ELSE IF stop[t] THEN "paused" ELSE "poll"

\* Mutant: any update that sees zero ends the run.
RunEnd_AnyZero(t) ==
  /\ tpc[t] = "run"
  /\ count' = count + delta[t]
  /\ tpc' = [tpc EXCEPT ![t] = IF count' = 0 /\ ~ finishSent THEN "add" ELSE AfterRun(t)]
  /\ UNCHANGED <<mainVars, finishSent, inbox, used, delta, live, sending,
                 finishing, stop, event, replyVars, ioVars>>

\* run() returns and reports m_coro_delta; the update that finds the counter
\* back at zero goes on to end the run.
RunEnd(t) ==
  /\ tpc[t] = "run"
  /\ count' = count + delta[t]
  /\ tpc' = [tpc EXCEPT ![t] = IF /\ delta[t] # 0
                                  /\ count' = 0
                                  /\ count # 0
                                  /\ ~ finishSent
                               THEN "add" ELSE AfterRun(t)]
  /\ UNCHANGED <<mainVars, finishSent, inbox, used, delta, live, sending,
                 finishing, stop, event, replyVars, ioVars>>

AddTargets(t) ==
  /\ tpc[t] = "add"
  /\ count' = count + NumTargets
  /\ tpc' = [tpc EXCEPT ![t] = "store"]
  /\ UNCHANGED <<mainVars, finishSent, inbox, used, delta, live, sending,
                 finishing, stop, event, replyVars, ioVars>>

StoreFinish(t) ==
  /\ tpc[t] = "store"
  /\ finishSent' = TRUE
  /\ finishing' = [finishing EXCEPT ![t] = Threads]
  /\ tpc' = [tpc EXCEPT ![t] = "tell"]
  /\ UNCHANGED <<mainVars, count, inbox, used, delta, live, sending, stop,
                 event, replyVars, ioVars>>

\* call_noreply<finish_shutdown>: it runs on a thread, so note_send counts the
\* request a second time.
TellFinish(t, u) ==
  /\ tpc[t] = "tell"
  /\ u \in finishing[t]
  /\ count' = count + 1
  /\ Push(u, MkJob("finish", u, None))
  /\ finishing' = [finishing EXCEPT ![t] = @ \ {u}]
  /\ tpc' = [tpc EXCEPT ![t] = IF finishing'[t] = {} THEN AfterRun(t) ELSE "tell"]
  /\ UNCHANGED <<mainVars, finishSent, used, delta, live, sending, stop, event,
                 replyVars, ioVars>>

-----------------------------------------------------------------------------
\* message_hub_t::spawn_task, called by the main and the io coroutine.
\* Mutant: note_accepted_task is not called.
AcceptTask_NotNoted(t) ==
  /\ tpc[t] = "run"
  /\ inbox[t] # <<>>
  /\ Head(inbox[t]).kind # "reply"
  /\ delta' = [delta EXCEPT ![t] = @ + 1]
  /\ live' = [live EXCEPT ![t] = @ \cup {Head(inbox[t])}]
  /\ inbox' = [inbox EXCEPT ![t] = Tail(@)]
  /\ UNCHANGED <<mainVars, counterVars, used, tpc, sending, finishing, stop,
                 event, replyVars, ioVars>>

\* A request: one task accepted, one coroutine begun.
AcceptTask(t) ==
  /\ tpc[t] = "run"
  /\ inbox[t] # <<>>
  /\ Head(inbox[t]).kind # "reply"
  /\ delta' = [delta EXCEPT ![t] = (@ - 1) + 1]
  /\ live' = [live EXCEPT ![t] = @ \cup {Head(inbox[t])}]
  /\ inbox' = [inbox EXCEPT ![t] = Tail(@)]
  /\ UNCHANGED <<mainVars, counterVars, used, tpc, sending, finishing, stop,
                 event, replyVars, ioVars>>

\* A reply fulfills its promise: a waiting coroutine goes on, a chained
\* callback runs (and here spawns a coroutine).
AcceptReply(t) ==
  /\ tpc[t] = "run"
  /\ inbox[t] # <<>>
  /\ LET c == Head(inbox[t]).id IN
       /\ Head(inbox[t]).kind = "reply"
       /\ awaiting' = {p \in awaiting : p[2] # c}
       /\ IF c \in chained
          THEN /\ live' = [live EXCEPT ![t] = @ \cup {MkJob("coro", c, None)}]
               /\ delta' = [delta EXCEPT ![t] = @ + 1]
          ELSE UNCHANGED <<live, delta>>
       /\ chained' = chained \ {c}
  /\ inbox' = [inbox EXCEPT ![t] = Tail(@)]
  /\ UNCHANGED <<mainVars, counterVars, used, tpc, sending, finishing, stop,
                 event, ioVars>>

\* io_thread_t::coro_pull: one message each time m_ready_for_next was set.
\* io_stream_t::read begins to wait for the eventfd.
PullStart(t) ==
  /\ tpc[t] = "run"
  /\ t \in ready \ pulling
  /\ ready' = ready \ {t}
  /\ pulling' = pulling \cup {t}
  /\ UNCHANGED <<mainVars, counterVars, inbox, used, threadVars, replyVars, woken>>

\* Another io thread has taken the message: ::read fails with EAGAIN, and
\* eintr_wrap calls it again and again.  This thread runs nothing else.
LoseMessage(t) ==
  /\ tpc[t] = "run"
  /\ t \in woken
  /\ inbox[Io] = <<>>
  /\ tpc' = [tpc EXCEPT ![t] = "spin"]
  /\ UNCHANGED <<mainVars, counterVars, inbox, used, delta, live, sending,
                 finishing, stop, event, replyVars, ioVars>>

\* The message is there, at once or for a thread that spins.
AcceptIo(t) ==
  /\ tpc[t] \in {"run", "spin"}
  /\ t \in woken
  /\ inbox[Io] # <<>>
  /\ tpc' = [tpc EXCEPT ![t] = "run"]
  /\ pulling' = pulling \ {t}
  /\ woken' = woken \ {t}
  /\ delta' = [delta EXCEPT ![t] = (@ - 1) + 1]
  /\ live' = [live EXCEPT ![t] = @ \cup {Head(inbox[Io])}]
  /\ inbox' = [inbox EXCEPT ![Io] = Tail(@)]
  /\ UNCHANGED <<mainVars, counterVars, used, sending, finishing, stop, event,
                 replyVars, ready>>

-----------------------------------------------------------------------------
\* What the coroutines do.

UserJob(j) == j.kind \in {"task", "call", "coro"}

Runnable(t, j) ==
  /\ tpc[t] = "run"
  /\ j \in live[t]
  /\ UserJob(j)
  /\ \A p \in awaiting : p[1] # j.id

\* Mutant: note_new_task is not called.
Spawn_NotNoted(t, j, w) ==
  /\ Runnable(t, j)
  /\ w \notin used
  /\ used' = used \cup {w}
  /\ live' = [live EXCEPT ![t] = @ \cup {MkJob("coro", w, None)}]
  /\ UNCHANGED <<mainVars, counterVars, inbox, tpc, delta, sending, finishing,
                 stop, event, replyVars, ioVars>>

\* coro_t::spawn
Spawn(t, j, w) ==
  /\ Runnable(t, j)
  /\ w \notin used
  /\ used' = used \cup {w}
  /\ live' = [live EXCEPT ![t] = @ \cup {MkJob("coro", w, None)}]
  /\ delta' = [delta EXCEPT ![t] = @ + 1]
  /\ UNCHANGED <<mainVars, counterVars, inbox, tpc, sending, finishing, stop,
                 event, replyVars, ioVars>>

\* call_noreply, call_sync (`mode' "sync": the coroutine waits for the reply)
\* and call_async (the future is dropped, or carries a then()): the request is
\* counted before it is written.  Replies reach only coroutine threads.
NoteSend(t, j, q, w, mode) ==
  /\ Runnable(t, j)
  /\ w \notin used
  /\ mode # "noreply" => t \in CoroThreads
  /\ mode = "then" => Chaining
  /\ used' = used \cup {w}
  /\ count' = count + 1
  /\ sending' = [sending EXCEPT ![t] =
       [job |-> IF mode = "noreply" THEN MkJob("task", w, None) ELSE MkJob("call", w, t),
        to |-> q, by |-> j.id, mode |-> mode]]
  /\ tpc' = [tpc EXCEPT ![t] = "sending"]
  /\ UNCHANGED <<mainVars, finishSent, inbox, delta, live, finishing, stop,
                 event, replyVars, ioVars>>

WriteRequest(t) ==
  /\ tpc[t] = "sending"
  /\ Push(sending[t].to, sending[t].job)
  /\ awaiting' = IF sending[t].mode = "sync"
                 THEN awaiting \cup {<<sending[t].by, sending[t].job.id>>}
                 ELSE awaiting
  /\ chained' = IF sending[t].mode = "then"
                THEN chained \cup {sending[t].job.id} ELSE chained
  /\ sending' = [sending EXCEPT ![t] = None]
  /\ tpc' = [tpc EXCEPT ![t] = "run"]
  /\ UNCHANGED <<mainVars, counterVars, used, delta, live, finishing, stop,
                 event, ioVars>>

\* Mutant: enqueue_release does not lower the delta.
Release_NotNoted(t, j) ==
  /\ live' = [live EXCEPT ![t] = @ \ {j}]
  /\ UNCHANGED delta

\* The coroutine is released.
Release(t, j) ==
  /\ live' = [live EXCEPT ![t] = @ \ {j}]
  /\ delta' = [delta EXCEPT ![t] = @ - 1]

\* The end of a coroutine; the handler of a call sends the (uncounted) reply
\* first.
EndJob(t, j) ==
  /\ Runnable(t, j)
  /\ IF j.kind = "call" THEN Push(j.from, MkJob("reply", j.id, None))
                        ELSE UNCHANGED inbox
  /\ Release(t, j)
  /\ UNCHANGED <<mainVars, counterVars, used, tpc, sending, finishing, stop,
                 event, replyVars, ioVars>>

\* shutdown_rpc_t::begin_shutdown and finish_shutdown
HandleBegin(t) ==
  /\ tpc[t] = "run"
  /\ MkJob("begin", t, None) \in live[t]
  /\ event' = [event EXCEPT ![t] = TRUE]
  /\ Release(t, MkJob("begin", t, None))
  /\ UNCHANGED <<mainVars, counterVars, inbox, used, tpc, sending, finishing,
                 stop, replyVars, ioVars>>

HandleFinish(t) ==
  /\ tpc[t] = "run"
  /\ MkJob("finish", t, None) \in live[t]
  /\ stop' = [stop EXCEPT ![t] = TRUE]
  /\ Release(t, MkJob("finish", t, None))
  /\ UNCHANGED <<mainVars, counterVars, inbox, used, tpc, sending, finishing,
                 event, replyVars, ioVars>>

-----------------------------------------------------------------------------
MainNext ==
  \/ Run
  \/ BeginShutdown
  \/ \E t \in Threads : TellBegin(t)
  \/ RunReturns

SomeJobEnds(t) == \E j \in live[t] : EndJob(t, j)
Send(t) == \E j \in live[t], q \in Targets, w \in Work,
              mode \in {"noreply", "sync", "async", "then"} : NoteSend(t, j, q, w, mode)

ThreadNext(t) ==
  \/ Enter(t)
  \/ RunEnd(t)
  \/ AddTargets(t)
  \/ StoreFinish(t)
  \/ \E u \in Threads : TellFinish(t, u)
  \/ AcceptTask(t)
  \/ AcceptReply(t)
  \/ PullStart(t)
  \/ LoseMessage(t)
  \/ AcceptIo(t)
  \/ \E j \in live[t], w \in Work : Spawn(t, j, w)
  \/ Send(t)
  \/ WriteRequest(t)
  \/ SomeJobEnds(t)
  \/ HandleBegin(t)
  \/ HandleFinish(t)

Next ==
  \/ \E q \in Targets, w \in Work : Enqueue(q, w)
  \/ MainNext
  \/ \E t \in Threads : ThreadNext(t)

\* What makes a run of the dispatcher get somewhere.
Progress(t) ==
  \/ AcceptTask(t)
  \/ AcceptReply(t)
  \/ PullStart(t)
  \/ LoseMessage(t)
  \/ AcceptIo(t)
  \/ SomeJobEnds(t)
  \/ HandleBegin(t)
  \/ HandleFinish(t)

\* Every thread keeps running.  A dispatcher run may end early (after 100
\* swaps), but it always executes something if anything is runnable: hence
\* strong fairness for what happens inside a run.  Coroutines end.
Fairness ==
  /\ WF_vars(MainNext)
  /\ \A t \in Threads : WF_vars(ThreadNext(t)) /\ SF_vars(Progress(t))

Spec == Init /\ [][Next]_vars
FairSpec == Spec /\ Fairness

-----------------------------------------------------------------------------
\* Properties.

InInbox(q) == {inbox[q][k] : k \in DOMAIN inbox[q]}

TypeOK ==
  /\ main \in {"idle", "running", "telling", "waiting"}
  /\ runs \in 0 .. MaxRuns
  /\ toTell \subseteq Threads
  /\ count \in Nat
  /\ finishSent \in BOOLEAN
  /\ \A q \in Threads \cup {Io} : InInbox(q) \subseteq Job
  /\ tpc \in [Threads -> {"paused", "poll", "repoll", "run", "spin", "sending",
                          "add", "store", "tell"}]
  /\ delta \in [Threads -> Int]
  /\ \A t \in Threads : live[t] \subseteq Job /\ finishing[t] \subseteq Threads
  /\ event \in [Threads -> BOOLEAN] /\ stop \in [Threads -> BOOLEAN]
  /\ ready \subseteq IoThreads /\ woken \subseteq pulling /\ pulling \subseteq IoThreads

\* The part of a thread's work that m_active_count stands for: the rest of it
\* is still in the dispatcher's delta, which is stale outside run().
Reported(t) ==
  Cardinality(live[t]) - (IF tpc[t] \in {"run", "spin", "sending"} THEN delta[t] ELSE 0)

Requests(q) == Cardinality({k \in DOMAIN inbox[q] : inbox[q][k].kind # "reply"})

\* Until finish is sent the counter is exactly the requests queued or about to
\* be queued, the work the threads have reported, and what begin_shutdown
\* still owes; and what a thread has reported is never negative.
CountIsExact ==
  (main # "idle" /\ ~ finishSent /\ \A t \in Threads : tpc[t] # "store") =>
    /\ count = MapThenSumSet(Requests, Threads \cup {Io})
               + MapThenSumSet(Reported, Threads)
               + Cardinality({t \in Threads : tpc[t] = "sending"})
               + Cardinality(toTell)
               + (IF main = "running" THEN 1 ELSE 0)
    /\ \A t \in Threads : Reported(t) >= 0

\* Is there any work of the user's left, or on its way?
WorkLeft ==
  \/ \E t \in Threads : tpc[t] = "sending" \/ \E j \in live[t] : UserJob(j)
  \/ \E q \in Threads \cup {Io} : \E j \in InInbox(q) : UserJob(j)

Ending == main # "idle" /\
          (finishSent \/ \E t \in Threads : tpc[t] \in {"add", "store"})

\* run() does not end early: once some thread has seen the counter at zero
\* there is no task, no coroutine and no request on its way anywhere, and
\* there never will be in this run.
NoWorkLeftWhenEnding == Ending => ~ WorkLeft

\* The counter reaches zero once per run, so only one thread sends finish and
\* every thread gets it once.
FinishJobs(u) ==
  {q \in Threads : MkJob("finish", u, None) \in InInbox(q)}
    \cup {t \in Threads : MkJob("finish", u, None) \in live[t]}

FinishOnce ==
  /\ Cardinality({t \in Threads : tpc[t] \in {"add", "store", "tell"}}) <= 1
  /\ \A u \in Threads :
       /\ Requests(u) <= 1 \/ ~ Ending
       /\ FinishJobs(u) # {} => ~ stop[u]

\* "assert(m_shutdown_event.triggered())" (thread.cc:48): a thread is told to
\* finish only after it was told to begin.
FinishAfterBegin ==
  \A u \in Threads : FinishJobs(u) # {} \/ stop[u] => event[u]

\* Nothing is left in a queue when run() returns, replies included: the next
\* run() would count them as tasks that nobody ever finishes.
CleanWhenPaused ==
  (main = "waiting" /\ \A t \in Threads : tpc[t] = "paused") =>
    /\ \A q \in Threads \cup {Io} : inbox[q] = <<>>
    /\ \A t \in Threads : live[t] = {}
    /\ awaiting = {}

\* A run finishes once and leaves nothing to the next one (shutdown.cc:43, sched.cc:167).
EndsCleanly == TypeOK /\ FinishOnce /\ CleanWhenPaused

\* Every run() returns: "return as soon as all coroutines complete"
\* (sched.hpp:19).  True with the one io thread of the first constructor
\* (sched.cc:26), false with two of the second (sched.cc:29): one that was woken
\* for a message another one took never hears of the end.
RunTerminates == (main # "idle") ~> (main = "idle")

\* With several io threads every run() returns, or one of them spins for ever on
\* the empty eventfd (stream.cc:87, utils.hpp:17): nothing else can hang.
RunReturnsOrSpins ==
  (main # "idle") ~> (main = "idle" \/ \E t \in IoThreads : [](tpc[t] = "spin"))

\* A lone io thread never loses a message, so it never spins.
LoneReaderNeverSpins ==
  Cardinality(IoThreads) = 1 => \A t \in Threads : tpc[t] # "spin"

\* "there should already be a coroutine waiting to receive the reply - if not
\* it gets discarded" (target.cc:32): no run ends with work behind a reply.
RepliesNeedNoCount == NoWorkLeftWhenEnding

\* "begin eager shutdown after a SIGINT is received" (sched.hpp:20): a thread's
\* shutdown event is not set before shutdown begins.
EventMeansShutdown ==
  \A t \in Threads : event[t] /\ tpc[t] = "run" => main # "running"

=============================================================================
