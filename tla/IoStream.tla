------------------------------ MODULE IoStream ------------------------------
(***************************************************************************)
(* io_stream_t of rpc/stream.cc: one queue read by all io threads.  The    *)
(* eventfd is a semaphore: write() adds a token after the push, a reader   *)
(* takes a token and then pops under a spinlock.  Reading the eventfd goes *)
(* through eintr_wrap (utils.hpp), which repeats the call on EAGAIN.       *)
(***************************************************************************)
EXTENDS MpscQueue

CONSTANT Readers       \* the io threads; Null is none of them

VARIABLES unsignalled, \* the writers that have pushed and not yet added a token
          tokens,      \* the value of the semaphore eventfd
          rpc,         \* where each reader is
          lock,        \* who holds m_read_lock
          aborted      \* has a GUARANTEE failed?

ioVars == <<queueVars, unsignalled, tokens, rpc, lock, aborted>>

Init ==
  /\ QueueInit
  /\ unsignalled = {}
  /\ tokens = 0
  /\ rpc = [r \in Readers |-> "busy"]
  /\ lock = Null
  /\ aborted = FALSE

Goto(r, from, to) ==
  /\ ~ aborted
  /\ rpc[r] = from
  /\ rpc' = [rpc EXCEPT ![r] = to]

-----------------------------------------------------------------------------
\* write(): push, then add a token.

WriteExchange(p, i) ==
  /\ ~ aborted
  /\ p \notin unsignalled
  /\ Exchange(p, i)
  /\ UNCHANGED <<unsignalled, tokens, rpc, lock, aborted>>

WriteLink(p) ==
  /\ ~ aborted
  /\ Link(p)
  /\ unsignalled' = unsignalled \cup {p}
  /\ UNCHANGED <<tokens, rpc, lock, aborted>>
Signal(p) ==
  /\ ~ aborted
  /\ p \in unsignalled
  /\ tokens' = tokens + 1
  /\ unsignalled' = unsignalled \ {p}
  /\ UNCHANGED <<queueVars, rpc, lock, aborted>>

-----------------------------------------------------------------------------
\* read().

\* io_thread_t::coro_pull asks for the next message.
ReadCall(r) ==
  /\ Goto(r, "busy", "wait")
  /\ UNCHANGED <<queueVars, unsignalled, tokens, lock, aborted>>

\* in.wait(): the event loop reports the eventfd readable; other readers
\* may have been told the same.
Wake(r) ==
  /\ tokens > 0
  /\ Goto(r, "wait", "take")
  /\ UNCHANGED <<queueVars, unsignalled, tokens, lock, aborted>>
TakeToken(r) ==
  /\ tokens > 0
  /\ tokens' = tokens - 1
  /\ Goto(r, "take", "lock") \/ Goto(r, "again", "lock")
  /\ UNCHANGED <<queueVars, unsignalled, lock, aborted>>

\* The token is gone: ::read fails with EAGAIN, and eintr_wrap calls it again
\* (and again: a repetition changes nothing).
Eagain(r) ==
  /\ tokens = 0
  /\ Goto(r, "take", "again")
  /\ UNCHANGED <<queueVars, unsignalled, tokens, lock, aborted>>

\* Mutant: pop() is called without the spinlock.
Lock_None(r) ==
  /\ lock' = r
  /\ Goto(r, "lock", "pop")
  /\ UNCHANGED <<queueVars, unsignalled, tokens, aborted>>

\* spinlock_acq_t
Lock(r) ==
  /\ lock = Null
  /\ lock' = r
  /\ Goto(r, "lock", "pop")
  /\ UNCHANGED <<queueVars, unsignalled, tokens, aborted>>

CallPop(r) ==
  /\ ~ aborted
  /\ rpc[r] = "pop"
  /\ PopCall
  /\ UNCHANGED <<unsignalled, tokens, rpc, lock, aborted>>

\* pop() goes on; when it returns the lock is released and the GUARANTEE
\* that there was a message is evaluated.
StepPop(r) ==
  /\ ~ aborted
  /\ rpc[r] = "pop"
  /\ PopStep
  /\ \/ /\ cpc' # "idle"
        /\ UNCHANGED <<rpc, lock, aborted>>
     \/ /\ cpc' = "idle"
        /\ lock' = Null
        /\ rpc' = [rpc EXCEPT ![r] = "busy"]
        /\ aborted' = (result' = Null)
  /\ UNCHANGED <<unsignalled, tokens>>

-----------------------------------------------------------------------------
ReaderStep(r) ==
  \/ ReadCall(r)
  \/ Wake(r)
  \/ TakeToken(r)
  \/ Eagain(r)
  \/ Lock(r)
  \/ CallPop(r)
  \/ StepPop(r)

Next ==
  \/ \E p \in Producers, i \in Items : WriteExchange(p, i)
  \/ \E p \in Producers : WriteLink(p) \/ Signal(p)
  \/ \E r \in Readers : ReaderStep(r)

\* Every thread keeps running; nobody has to start a write.
Fairness ==
  /\ \A p \in Producers : WF_ioVars(WriteLink(p)) /\ WF_ioVars(Signal(p))
  /\ \A r \in Readers : WF_ioVars(ReaderStep(r))

Spec == Init /\ [][Next]_ioVars /\ Fairness

-----------------------------------------------------------------------------
\* Properties.

IoTypeOK ==
  /\ QueueTypeOK
  /\ unsignalled \subseteq Producers
  /\ tokens \in 0 .. Cardinality(Items)
  /\ rpc \in [Readers -> {"busy", "wait", "take", "again", "lock", "pop"}]
  /\ lock \in Readers \cup {Null}
  /\ aborted \in BOOLEAN

\* Only one reader is ever inside pop(), which tolerates a single consumer.
SingleConsumer ==
  /\ \A r \in Readers : rpc[r] = "pop" <=> lock = r
  /\ cpc # "idle" => lock # Null

HoldingToken == {r \in Readers : rpc[r] \in {"lock", "pop"}}

\* Every token, in the eventfd or in the hands of a reader, stands for a
\* message of its own that is completely linked: a reader that takes one is
\* entitled to a message.
TokensAreBacked ==
  ~ aborted =>
    tokens + Cardinality(HoldingToken) + Cardinality(unsignalled)
      + Cardinality(Linking) = Cardinality(Items \ free)

\* Every message is read by some io thread, unless the process aborts.
EveryMessageRead ==
  \A i \in Items : (i \notin free) ~> (i \in free \/ aborted)

\* "GUARANTEE(raw_buffer != nullptr)" (stream.cc:101).  False: behind the message
\* whose token was taken its producer, or another one, has exchanged m_back for the
\* next message and not linked it, and pop() does not give out the last linked node.
TokenFindsMessage == ~ aborted

\* "GUARANTEE_ERR(errno == EAGAIN || errno == EWOULDBLOCK)" at the end of the
\* loop body (stream.cc:92): a reader that lost the race for a token goes
\* back to waiting, where its thread can do other work.  False for two readers.
LoserWaitsAgain ==
  \A r \in Readers : (rpc[r] = "again") ~> (rpc[r] = "wait" \/ aborted)

=============================================================================
