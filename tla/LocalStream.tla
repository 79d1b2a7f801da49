----------------------------- MODULE LocalStream -----------------------------
(***************************************************************************)
(* local_stream_t of rpc/stream.cc, the inbox of one thread: any thread    *)
(* writes, the owner's main coroutine (coro/thread.cc) reads until the     *)
(* queue seems empty and then waits on the eventfd.                        *)
(*                                                                         *)
(* The eventfd is a plain counter that a read resets, so only whether it   *)
(* is above zero matters: `readable'.                                      *)
(***************************************************************************)
EXTENDS MpscQueue

VARIABLES unsignalled, \* the writers that have pushed and not yet written to m_fd
          readable,    \* is the counter of m_fd above zero?
          reader       \* the main coroutine: "read", "wait" or "clear"

streamVars == <<queueVars, unsignalled, readable, reader>>

Init ==
  /\ QueueInit
  /\ unsignalled = {}
  /\ readable = FALSE
  /\ reader = "read"

-----------------------------------------------------------------------------
\* write(): push, then write to the eventfd.

WriteExchange(p, i) ==
  /\ p \notin unsignalled
  /\ Exchange(p, i)
  /\ UNCHANGED <<unsignalled, readable, reader>>

\* Mutant: write() does not write to the eventfd.
WriteLink_NoSignal(p) ==
  /\ Link(p)
  /\ UNCHANGED <<unsignalled, readable, reader>>

WriteLink(p) ==
  /\ Link(p)
  /\ unsignalled' = unsignalled \cup {p}
  /\ UNCHANGED <<readable, reader>>

Signal(p) ==
  /\ p \in unsignalled
  /\ readable' = TRUE
  /\ unsignalled' = unsignalled \ {p}
  /\ UNCHANGED <<queueVars, reader>>

-----------------------------------------------------------------------------
\* read() and the loop around it: a message is spawned and the next one read,
\* an empty result sends the coroutine to wait().

ReadCall ==
  /\ reader = "read"
  /\ PopCall
  /\ UNCHANGED <<unsignalled, readable, reader>>

\* Mutant: the eventfd is cleared after the queue was found empty.
ReadStep_ClearAfter ==
  /\ PopStep
  /\ IF cpc' = "idle" /\ result' = Null
     THEN reader' = "wait" /\ readable' = FALSE
     ELSE UNCHANGED <<reader, readable>>
  /\ UNCHANGED unsignalled

ReadStep ==
  /\ PopStep
  /\ reader' = IF cpc' = "idle" /\ result' = Null THEN "wait" ELSE "read"
  /\ UNCHANGED <<unsignalled, readable>>

\* wait(): the event loop has seen the eventfd readable ...
Wake ==
  /\ reader = "wait"
  /\ readable
  /\ reader' = "clear"
  /\ UNCHANGED <<queueVars, unsignalled, readable>>

\* ... and the counter is read back to zero before the queue is looked at.
Clear ==
  /\ reader = "clear"
  /\ readable' = FALSE
  /\ reader' = "read"
  /\ UNCHANGED <<queueVars, unsignalled>>

-----------------------------------------------------------------------------
ReaderNext == ReadCall \/ ReadStep \/ Wake \/ Clear

Next ==
  \/ \E p \in Producers, i \in Items : WriteExchange(p, i)
  \/ \E p \in Producers : WriteLink(p) \/ Signal(p)
  \/ ReaderNext

\* A writer never blocks inside write() and the owner thread keeps running
\* its loop; nobody has to start a write.
Fairness ==
  /\ \A p \in Producers : WF_streamVars(WriteLink(p)) /\ WF_streamVars(Signal(p))
  /\ WF_streamVars(ReaderNext)

Spec == Init /\ [][Next]_streamVars /\ Fairness

-----------------------------------------------------------------------------
\* Properties.

StreamTypeOK ==
  /\ QueueTypeOK
  /\ unsignalled \subseteq Producers
  /\ readable \in BOOLEAN
  /\ reader \in {"read", "wait", "clear"}
  /\ cpc # "idle" => reader = "read"

\* No lost wakeup: if the owner sleeps, its eventfd is not readable and no
\* writer is inside write(), then there is no message.  "This may result in a
\* spurious wakeup later, but better than missing a message" (stream.cc:47).
NoLostWakeup ==
  (reader = "wait" /\ ~ readable /\ Linking = {} /\ unsignalled = {})
     => free = Items

\* Every message written is read in the end, however the writers overtake
\* each other and however often pop() comes back empty-handed meanwhile.
EveryMessageRead == \A i \in Items : (i \notin free) ~> (i \in free)

=============================================================================
