-------------------------------- MODULE Messages --------------------------------
(***************************************************************************)
(* What threads tell each other by messages: a flip buffer under the       *)
(* cross-thread mutex (FlipBuffer, CtMutex), the calls and replies of the  *)
(* hub (Hub), and the bytes of one message (Wire).  Each is a user of the  *)
(* next one but takes no more of it than that a message arrives, in order, *)
(* as it was sent: a behaviour is about one of them, `part'.               *)
(***************************************************************************)
EXTENDS FlipBuffer, Hub, Wire

VARIABLE part

flipPart == <<lockVars, flipVars>>
messagesVars == <<part, flipPart, hubVars, case>>

MessagesInit ==
  /\ part \in {"flip", "hub", "wire"}
  /\ FlipInit
  /\ part # "flip" => home = CHOOSE h \in [Writers -> CtThreads] : TRUE
  /\ HubInit
  /\ WireInit

OfFlip(A) == part = "flip" /\ A /\ UNCHANGED <<part, hubVars, case>>
OfHub(A) == part = "hub" /\ A /\ UNCHANGED <<part, flipPart, case>>
OfWire(A) == part = "wire" /\ A /\ UNCHANGED <<part, flipPart, hubVars>>

MessagesNext == OfFlip(FlipNext) \/ OfHub(HubNext) \/ OfWire(SendMessage)

\* A thread goes on with the writer that has it, handles its messages, and gives
\* every coroutine that is ready its turn, though a reader may be there each time a
\* writer looks.  A hub handles the messages of its stream, its tasks and its
\* callers get their turn.
MessagesFairness ==
  /\ \A w \in Writers :
       /\ SF_messagesVars(OfFlip(WriterStep(w)))
       /\ SF_messagesVars(OfFlip(Deliver(w)))
       /\ \A t \in CtThreads : SF_messagesVars(OfFlip(Flip(w, t)))
  /\ \A t \in CtThreads : WF_messagesVars(OfFlip(ReadDone(t)))
  /\ \A t \in Everyone : WF_messagesVars(OfHub(AtThread(t)))
  /\ \A c \in Callers : WF_messagesVars(OfHub(Collect(c)))

MessagesSpec == MessagesInit /\ [][MessagesNext]_messagesVars /\ MessagesFairness

-----------------------------------------------------------------------------
\* Properties.

\* Every write of a flip buffer and every call returns (ct_mutex.cc:92, hub.cc:36).
CallsAndWritesReturn == WritesReturn /\ CallsReturn

\* What is pushed into a message is what its buffer was made for, and what its
\* receiver reads.
MessagesAreWhole == SizeIsExact /\ RoundTrip

=============================================================================
