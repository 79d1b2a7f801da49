----------------------------- MODULE CrossThread -----------------------------
(***************************************************************************)
(* The objects that the threads of a process share, behind one             *)
(* specification: the inbox of a thread (LocalStream), the inbox of the io *)
(* threads (IoStream), both over the same queue (MpscQueue), and the       *)
(* thread barrier (Barrier).  They share no state in the code and none of  *)
(* their properties relates two of them, so a behaviour uses one of them,  *)
(* `object', and the others stay as they were constructed.                 *)
(***************************************************************************)
EXTENDS MpscQueue, Barrier

CONSTANT Readers       \* the io threads

ASSUME ReadersAssumption == Null \notin Readers

VARIABLES object,      \* the object this behaviour is about
          unsignalled, readable, reader,  \* LocalStream
          tokens, rpc, lock, aborted      \* IoStream, with unsignalled

localVars == <<readable, reader>>
ioOnlyVars == <<tokens, rpc, lock, aborted>>
crossVars == <<object, queueVars, unsignalled, localVars, ioOnlyVars, vars>>

Local == INSTANCE LocalStream
Io == INSTANCE IoStream

CrossInit ==
  /\ object \in {"local stream", "io stream", "barrier"}
  /\ Local!Init
  /\ Io!Init
  /\ Init

OfLocal(A) ==
  /\ object = "local stream"
  /\ A
  /\ UNCHANGED <<object, ioOnlyVars, vars>>

OfIo(A) ==
  /\ object = "io stream"
  /\ A
  /\ UNCHANGED <<object, localVars, vars>>

OfBarrier(A) ==
  /\ object = "barrier"
  /\ A
  /\ UNCHANGED <<object, queueVars, unsignalled, localVars, ioOnlyVars>>

CrossNext == OfLocal(Local!Next) \/ OfIo(Io!Next) \/ OfBarrier(Next)

\* A call that has begun goes on, a thread that is woken runs, a reader keeps
\* reading, and the threads that use a barrier all come to it.
CrossFairness ==
  /\ \A p \in Producers :
       /\ WF_crossVars(OfLocal(Local!WriteLink(p)))
       /\ WF_crossVars(OfLocal(Local!Signal(p)))
       /\ WF_crossVars(OfIo(Io!WriteLink(p)))
       /\ WF_crossVars(OfIo(Io!Signal(p)))
  /\ WF_crossVars(OfLocal(Local!ReaderNext))
  /\ \A r \in Readers : WF_crossVars(OfIo(Io!ReaderStep(r)))
  /\ \A t \in Threads :
       /\ WF_crossVars(OfBarrier(Arrive(t)))
       /\ WF_crossVars(OfBarrier(Awake(t)))

CrossSpec == CrossInit /\ [][CrossNext]_crossVars /\ CrossFairness

-----------------------------------------------------------------------------
\* Properties.

\* Every variable has its type, and the memory of the queue its shape.
StateShape ==
  /\ QueueShape
  /\ Local!StreamTypeOK
  /\ Io!IoTypeOK
  /\ TypeOK

\* The list of the queue is a chain from front to back, stub or not, that holds what
\* was pushed, and every variable has its type (intrusive.hpp:243-283).
MemoryIsSound == StateShape /\ ChainIsContents

\* The owner of a local stream does not sleep over a message (stream.cc:47).
NoLostWakeup == object = "local stream" => Local!NoLostWakeup

\* m_read_lock keeps the pop of an io stream to one reader at a time.
SingleConsumer == object = "io stream" => Io!SingleConsumer

\* A reader of an io stream that takes a token is entitled to a message.
TokensAreBacked == object = "io stream" => Io!TokensAreBacked

\* A token stands for a message, and one reader at a time goes for it (stream.cc:97).
OneReaderPerToken == SingleConsumer /\ TokensAreBacked

\* Every message written to either kind of stream is read, unless the process
\* aborts (it may only in io_stream_t::read()).
EveryMessageRead == Io!EveryMessageRead

\* Nobody is left behind: no message in a stream, no thread at the barrier.
EveryoneArrives == EveryMessageRead /\ EveryoneGetsThrough

=============================================================================
