-------------------------------- MODULE FlipBuffer --------------------------------
(***************************************************************************)
(* flip_buffer_t (cross_thread/flip_buffer.hpp): two copies of a value, of *)
(* which every thread reads one (one_per_thread_t m_current_buffer).  A    *)
(* writer changes the other one under the cross-thread mutex, makes every  *)
(* thread flip by a broadcast it waits for, and then brings the first copy *)
(* up to date.                                                             *)
(*                                                                         *)
(* A thread runs one coroutine at a time: `busy' is the one that has it    *)
(* between two waits.  The threads run in parallel, so that a use of a     *)
(* buffer, and of the drainer of the flip buffer, which no lock protects,  *)
(* has a beginning and an end.                                             *)
(***************************************************************************)
EXTENDS CtMutex

CONSTANTS MaxWrites,       \* bound on the writes of each writer
          Interruptible    \* the waits that may be interrupted: "lock", "flip"

ASSUME FlipAssumption == MaxWrites \in Nat /\ Interruptible \subseteq {"lock", "flip"}

VARIABLES current,     \* thread -> the buffer its readers use, "A" or "B"
          contents,    \* buffer -> how many writes it has
          busy,        \* thread -> the writer that has it, "reader", or Nobody
          pc,          \* writer -> where it is in apply_write
          new,         \* writer -> new_buffer
          flips,       \* writer -> threads that are still to flip for it
          next,        \* writer -> the acquisition it is about to tell
          writes,      \* writer -> writes it has begun
          fate         \* "ok"; "raced": m_drainer was changed by two threads at
                       \* once; "wild": a dead acquisition was read.  Anything
                       \* can follow either.

flipVars == <<current, contents, busy, pc, new, flips, next, writes, fate>>

Other(b) == IF b = "A" THEN "B" ELSE "A"
Free(t) == fate = "ok" /\ busy[t] = Nobody
Goes(w, at) == pc' = [pc EXCEPT ![w] = at]
Takes(w) == busy' = [busy EXCEPT ![home[w]] = w]
Leaves(w) == busy' = [busy EXCEPT ![home[w]] = Nobody]
InDrainer(w) == pc[w] \in {"enter", "exit"}
\* Entering the list of locks of m_drainer, or leaving it.
UsesDrainer(w) == fate' = IF \E v \in Writers \ {w} : InDrainer(v) THEN "raced" ELSE fate

FlipInit ==
  /\ LocksInit
  /\ current = [t \in CtThreads |-> "A"]
  /\ contents = [b \in {"A", "B"} |-> 0]
  /\ busy = [t \in CtThreads |-> Nobody]
  /\ pc = [w \in Writers |-> "idle"]
  /\ new = [w \in Writers |-> "B"]
  /\ flips = [w \in Writers |-> {}]
  /\ next = [w \in Writers |-> Nobody]
  /\ writes = [w \in Writers |-> 0]
  /\ fate = "ok"

-----------------------------------------------------------------------------
\* apply_write()

\* m_drainer.lock()
Begin(w) ==
  /\ pc[w] = "idle" /\ Free(home[w])
  /\ writes[w] < MaxWrites
  /\ writes' = [writes EXCEPT ![w] = @ + 1]
  /\ Goes(w, "enter") /\ Takes(w) /\ UsesDrainer(w)
  /\ UNCHANGED <<lockVars, current, contents, new, flips, next>>

\* The acquisition is constructed and waited for.
Acquire(w) ==
  /\ fate = "ok" /\ pc[w] = "enter"
  /\ AddLock(w)
  /\ IF has'[w] THEN Goes(w, "write") /\ UNCHANGED busy ELSE Goes(w, "wait") /\ Leaves(w)
  /\ new' = [new EXCEPT ![w] = Other(current[home[w]])]
  /\ UNCHANGED <<current, contents, flips, next, writes, fate>>

\* The message to the acquisition is handled.
Deliver(w) == Free(home[w]) /\ Notified(w) /\ UNCHANGED flipVars

\* The coroutine runs again: it has the mutex and picks the buffer, or the wait was
\* interrupted and the acquisition is destroyed.
Resume(w) ==
  /\ pc[w] = "wait" /\ has[w] /\ Free(home[w])
  /\ Goes(w, "write") /\ Takes(w)
  /\ new' = [new EXCEPT ![w] = Other(current[home[w]])]
  /\ UNCHANGED <<lockVars, current, contents, flips, next, writes, fate>>

Interrupt(w) ==
  /\ \/ pc[w] = "wait" /\ ~has[w] /\ "lock" \in Interruptible
     \/ pc[w] = "flip" /\ flips[w] # {} /\ "flip" \in Interruptible
  /\ Free(home[w])
  /\ Goes(w, "release") /\ Takes(w)
  /\ UNCHANGED <<lockVars, current, contents, new, flips, next, writes, fate>>

\* The callback has changed the new buffer, and every thread is told to flip.
Written(w) ==
  /\ fate = "ok" /\ pc[w] = "write"
  /\ contents' = [contents EXCEPT ![new[w]] = @ + 1]
  /\ flips' = [flips EXCEPT ![w] = CtThreads]
  /\ Goes(w, "flip") /\ Leaves(w)
  /\ UNCHANGED <<lockVars, current, new, next, writes, fate>>

\* flip_internal() on one thread, and its reply.
Flip(w, t) ==
  /\ t \in flips[w] /\ Free(t)
  /\ current' = [current EXCEPT ![t] = Other(@)]
  /\ flips' = [flips EXCEPT ![w] = @ \ {t}]
  /\ UNCHANGED <<lockVars, contents, busy, pc, new, next, writes, fate>>

\* Mutant: the writer does not wait for the others to flip.
Flipped_NoWait(w) ==
  /\ pc[w] = "flip" /\ Free(home[w])
  /\ Goes(w, "copy") /\ Takes(w)
  /\ UNCHANGED <<lockVars, current, contents, new, flips, next, writes, fate>>

\* All have replied: the old buffer is overwritten with the new one.
Flipped(w) ==
  /\ pc[w] = "flip" /\ flips[w] = {} /\ Free(home[w])
  /\ Goes(w, "copy") /\ Takes(w)
  /\ UNCHANGED <<lockVars, current, contents, new, flips, next, writes, fate>>

Copied(w) ==
  /\ fate = "ok" /\ pc[w] = "copy"
  /\ contents' = [contents EXCEPT ![Other(new[w])] = contents[new[w]]]
  /\ Goes(w, "release")
  /\ UNCHANGED <<lockVars, current, busy, new, flips, next, writes, fate>>

\* release_lock(), first under the spinlock, then without it.
Release(w) ==
  /\ fate = "ok" /\ pc[w] = "release"
  /\ RemoveLock(w)
  /\ next' = [next EXCEPT ![w] = Successor(w)]
  /\ IF next'[w] = Nobody THEN Goes(w, "exit") /\ UsesDrainer(w)
                          ELSE Goes(w, "notify") /\ UNCHANGED fate
  /\ UNCHANGED <<current, contents, busy, new, flips, writes>>

TellNext(w) ==
  /\ fate = "ok" /\ pc[w] = "notify"
  /\ next' = [next EXCEPT ![w] = Nobody]
  /\ Goes(w, "exit")
  /\ IF Exists(next[w])
     THEN SendNotice(next[w]) /\ UsesDrainer(w)
     ELSE fate' = "wild" /\ UNCHANGED lockVars
  /\ UNCHANGED <<current, contents, busy, new, flips, writes>>

\* The lock of m_drainer is gone, and the call returns.
Return(w) ==
  /\ fate = "ok" /\ pc[w] = "exit"
  /\ Goes(w, "idle") /\ Leaves(w)
  /\ UNCHANGED <<lockVars, current, contents, new, flips, next, writes, fate>>

-----------------------------------------------------------------------------
\* apply_read() on a thread: the callback must not give way.
ApplyRead(t) ==
  /\ Free(t)
  /\ busy' = [busy EXCEPT ![t] = "reader"]
  /\ UNCHANGED <<lockVars, current, contents, pc, new, flips, next, writes, fate>>

ReadDone(t) ==
  /\ fate = "ok" /\ busy[t] = "reader"
  /\ busy' = [busy EXCEPT ![t] = Nobody]
  /\ UNCHANGED <<lockVars, current, contents, pc, new, flips, next, writes, fate>>

WriterStep(w) ==
  \/ Acquire(w) \/ Resume(w) \/ Written(w) \/ Flipped(w) \/ Copied(w)
  \/ Release(w) \/ TellNext(w) \/ Return(w)

FlipNext ==
  \/ \E w \in Writers : \/ Begin(w) \/ WriterStep(w) \/ Interrupt(w) \/ Deliver(w)
                        \/ \E t \in CtThreads : Flip(w, t)
  \/ \E t \in CtThreads : ApplyRead(t) \/ ReadDone(t)

FlipSpec == FlipInit /\ [][FlipNext]_<<lockVars, flipVars>>

-----------------------------------------------------------------------------
\* Properties.

\* The buffer that a writer changes, or overwrites.
Changing(w) == IF pc[w] = "write" THEN {new[w]}
               ELSE IF pc[w] = "copy" THEN {Other(new[w])} ELSE {}

\* Nobody reads a buffer while a writer is inside it, nor are two writers in one.
NoTornRead ==
  /\ \A w \in Writers, t \in CtThreads : busy[t] = "reader" => current[t] \notin Changing(w)
  /\ \A v, w \in Writers : v # w => Changing(v) \cap Changing(w) = {}

\* The mutex is exclusive and is handed on.  While no writer is inside the threads
\* agree on the buffer, and both copies have every write.
MutexIsHandedOn == FrontIsServed({next[w] : w \in Writers})
BuffersAgree ==
  (\A w \in Writers : pc[w] \notin {"write", "flip", "copy"} /\ flips[w] = {}) =>
    /\ \A t, u \in CtThreads : current[t] = current[u]
    /\ contents["A"] = contents["B"]

\* A flip is one step to readers and writers (flip_buffer.hpp:60).
FlipIsAtomic == NoTornRead /\ BuffersAgree

\* Every write returns.
WritesReturn ==
  \A w \in Writers : pc[w] # "idle" ~> (pc[w] = "idle" \/ fate # "ok")

\* flip_buffer.hpp:39: "The flip_buffer_t can be safely written or read from any
\* thread".
WritersDoNotRace == fate # "raced"

\* ct_mutex.cc:87 reads the home thread of the next acquisition after the
\* spinlock was given up: that acquisition still exists.
NextStillThere == fate # "wild"

=============================================================================
