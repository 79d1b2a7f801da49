---------------------------------- MODULE Tcp ----------------------------------
(***************************************************************************)
(* tcp_conn_t (io/tcp.cc): the read buffer that read(), read_until() and   *)
(* peek() of several coroutines share under m_read_mutex, which peek()     *)
(* takes only when it needs more bytes; and write() under m_write_mutex.   *)
(*                                                                         *)
(* The bytes the peer sends are 1, 2, 3, ...; 0 is what resize() puts into *)
(* the buffer before the kernel has filled it.  A coroutine keeps the      *)
(* thread until it blocks: on a mutex, or in eintr_wrap (utils.hpp).       *)
(***************************************************************************)
EXTENDS Naturals, Sequences, SequencesExt

CONSTANTS Users,          \* the coroutines that use the connection
          BufferSize,     \* s_read_buffer_size
          MaxBytes,       \* bound on the bytes that are sent, and written
          Delims,         \* those of them that are the delimiter
          SharedPeek,     \* is peek() called while others use the connection?
          Interrupts      \* are reads into the buffer interrupted?

ASSUME TcpAssumption == BufferSize \in Nat \ {0} /\ MaxBytes \in Nat /\ Delims \subseteq Nat

VARIABLES sent, got,      \* the kernel: bytes that came in, and those read from it
          eof,            \* the peer has closed
          buffer, offset, \* m_read_buffer, m_read_buffer_offset
          readers,        \* m_read_mutex: its acquisitions in order
          writers,        \* m_write_mutex
          cpu,            \* the coroutine that is running, or none
          call,           \* what each is doing: [op, left, pc]
          out,            \* how many bytes read() and read_until() have given out
          peeked,         \* what peek() has shown last, and where the stream was
          fate            \* "ok"; "hung" in a loop that cannot end; "overrun" past
                          \* the end of the buffer, where anything can follow

tcpVars == <<sent, got, eof, buffer, offset, readers, writers, cpu, call, out, peeked, fate>>
peerVars == <<sent, got, eof>>

Nobody == "nobody"
Unseen == [at |-> 0, bytes |-> <<>>]
Idle == [op |-> "none", left |-> 0, pc |-> "idle"]

TcpInit ==
  /\ sent = 0 /\ got = 0 /\ eof = FALSE
  /\ buffer = <<>> /\ offset = 0
  /\ readers = <<>> /\ writers = <<>>
  /\ cpu = Nobody
  /\ call = [u \in Users |-> Idle]
  /\ out = 0
  /\ peeked = Unseen
  /\ fate = "ok"

Buffered == SubSeq(buffer, offset + 1, Len(buffer))
Available == Len(buffer) - offset
Smaller(a, b) == IF a < b THEN a ELSE b
Stretched == buffer \o [i \in 1 .. BufferSize - Len(buffer) |-> 0]
FromKernel(n) == [i \in 1 .. n |-> got + i]
Free(u) == fate = "ok" /\ cpu = Nobody /\ call[u].pc = "idle"

-----------------------------------------------------------------------------
\* The calls begin, and wait for the mutex.
Call(u, op, n) ==
  /\ Free(u)
  /\ call' = [call EXCEPT ![u] = [op |-> op, left |-> n, pc |-> "lock"]]
  /\ IF op = "write" THEN writers' = Append(writers, u) /\ UNCHANGED readers
                     ELSE readers' = Append(readers, u) /\ UNCHANGED writers
  /\ peeked' = Unseen
  /\ UNCHANGED <<peerVars, buffer, offset, cpu, out, fate>>

\* peek(): the buffer is shifted to its start if the bytes cannot fit behind the
\* offset, and if they are there they are copied, all of it without the mutex.
Peek(u, n) ==
  LET shift == BufferSize - offset < n IN
  /\ Free(u)
  /\ SharedPeek \/ \A v \in Users : call[v].pc = "idle" \/ call[v].op = "write"
  /\ buffer' = IF shift THEN Buffered ELSE buffer
  /\ offset' = IF shift THEN 0 ELSE offset
  /\ IF Available < n
     THEN /\ call' = [call EXCEPT ![u] = [op |-> "peek", left |-> n, pc |-> "lock"]]
          /\ readers' = Append(readers, u)
          /\ UNCHANGED peeked
     ELSE peeked' = [at |-> out, bytes |-> SubSeq(Buffered, 1, n)] /\ UNCHANGED <<call, readers>>
  /\ UNCHANGED <<peerVars, writers, cpu, out, fate>>

\* The acquisition at the front of its mutex is ready, and its owner runs.
Locked(u) ==
  /\ fate = "ok" /\ cpu = Nobody
  /\ call[u].pc = "lock"
  /\ u = Head(IF call[u].op = "write" THEN writers ELSE readers)
  /\ cpu' = u
  /\ call' = [call EXCEPT ![u].pc = "copy"]
  /\ UNCHANGED <<peerVars, buffer, offset, readers, writers, out, peeked, fate>>

\* The list of a mutex when u has left it.
Without(list, u) ==
  IF u \in ToSet(list) THEN RemoveAt(list, CHOOSE i \in DOMAIN list : list[i] = u) ELSE list

\* The call returns and its acquisition is released.
Done(u) ==
  /\ call' = [call EXCEPT ![u] = Idle]
  /\ cpu' = Nobody
  /\ readers' = Without(readers, u)
  /\ writers' = Without(writers, u)

\* More bytes are needed.  Their place in the buffer is made before the kernel
\* is asked for them: behind what is there (peek), or instead of it.
Fill(u, left, pc) ==
  /\ call' = [call EXCEPT ![u] = [@ EXCEPT !.left = left, !.pc = pc]]
  /\ CASE pc = "peek" -> buffer' = Stretched /\ UNCHANGED offset
       [] pc = "fill" -> buffer' = [i \in 1 .. BufferSize |-> 0] /\ offset' = 0
       [] OTHER -> offset' = Len(buffer) /\ UNCHANGED buffer
  /\ UNCHANGED <<readers, writers, cpu>>

\* Mutant: a large read goes to the kernel first.
ReadCopy_Direct(u) ==
  LET left == call[u].left
      n == IF left > BufferSize \div 2 THEN 0 ELSE Smaller(left, Available)
  IN
  /\ cpu = u /\ call[u].pc = "copy" /\ call[u].op = "read" /\ fate = "ok"
  /\ out' = out + n
  /\ IF n = left
     THEN Done(u) /\ offset' = offset + n /\ UNCHANGED buffer
     ELSE Fill(u, left - n, IF left - n > BufferSize \div 2 THEN "direct" ELSE "fill")
  /\ UNCHANGED <<peerVars, peeked, fate>>

\* read(): what is in the buffer is copied; then more is read, straight to the
\* caller if it is much.
ReadCopy(u) ==
  LET n == Smaller(call[u].left, Available)
      left == call[u].left - n
  IN
  /\ cpu = u /\ call[u].pc = "copy" /\ call[u].op = "read" /\ fate = "ok"
  /\ out' = out + n
  /\ IF left = 0
     THEN Done(u) /\ offset' = offset + n /\ UNCHANGED buffer
     ELSE Fill(u, left, IF left > BufferSize \div 2 THEN "direct" ELSE "fill")
  /\ UNCHANGED <<peerVars, peeked, fate>>

\* read_until(): the count of what may be copied is never lowered, so only a
\* delimiter ends the loop, and without one it runs past the end.
UntilCopy(u) ==
  LET hits == {i \in 1 .. Available : Buffered[i] \in Delims}
      n == CHOOSE i \in hits : \A j \in hits : i <= j
  IN
  /\ cpu = u /\ call[u].pc = "copy" /\ call[u].op = "until" /\ fate = "ok"
  /\ CASE Available = 0 -> Fill(u, call[u].left, "fill") /\ UNCHANGED <<out, fate>>
       [] Available # 0 /\ hits = {} ->
            fate' = "overrun" /\ UNCHANGED <<buffer, offset, readers, writers, cpu, call, out>>
       [] OTHER -> /\ out' = out + n
                   /\ offset' = offset + n
                   /\ Done(u)
                   /\ UNCHANGED <<buffer, fate>>
  /\ UNCHANGED <<peerVars, peeked>>

\* peek() with the mutex: the bytes are copied once they are all there.
PeekCopy(u) ==
  /\ cpu = u /\ call[u].pc = "copy" /\ call[u].op = "peek" /\ fate = "ok"
  /\ IF Available < call[u].left
     THEN /\ call' = [call EXCEPT ![u] = [op |-> "peek", left |-> @.left, pc |-> "peek",
                                          old |-> Len(buffer)]]
          /\ buffer' = Stretched
          /\ UNCHANGED <<readers, writers, cpu, peeked>>
     ELSE Done(u) /\ peeked' = [at |-> out, bytes |-> SubSeq(Buffered, 1, call[u].left)] /\ UNCHANGED buffer
  /\ UNCHANGED <<peerVars, offset, out, fate>>

\* How many bytes the kernel is asked for.
Room(u) == CASE call[u].pc = "fill" -> BufferSize
             [] call[u].pc = "direct" -> call[u].left
             [] call[u].pc = "peek" -> Len(buffer) - call[u].old

\* ::read() fails with EAGAIN, and the coroutine waits for the descriptor.
ReadBlocks(u) ==
  /\ cpu = u /\ call[u].pc \in {"fill", "direct", "peek"} /\ fate = "ok"
  /\ sent = got /\ ~ eof /\ Room(u) > 0
  /\ cpu' = Nobody
  /\ UNCHANGED <<peerVars, buffer, offset, readers, writers, call, out, peeked, fate>>

\* ::read() returns bytes.  At the end of the stream, and when there is no room
\* for a byte, it returns zero, and all the loops try again at once, for ever.
ReadReturns(u) ==
  LET n == Smaller(sent - got, Room(u)) IN
  /\ cpu \in {u, Nobody} /\ call[u].pc \in {"fill", "direct", "peek"} /\ fate = "ok"
  /\ cpu = u \/ sent > got \/ eof
  /\ n > 0 \/ eof \/ Room(u) = 0
  /\ got' = got + n
  /\ cpu' = u
  /\ IF n = 0
     THEN fate' = "hung" /\ UNCHANGED <<buffer, call, out>>
     ELSE CASE call[u].pc = "fill" ->
                 /\ buffer' = FromKernel(n)
                 /\ call' = [call EXCEPT ![u].pc = "copy"]
                 /\ UNCHANGED <<out, fate>>
            [] call[u].pc = "peek" ->
                 /\ buffer' = SubSeq(buffer, 1, call[u].old) \o FromKernel(n)
                 /\ call' = [call EXCEPT ![u] = [op |-> "peek", left |-> @.left, pc |-> "copy"]]
                 /\ UNCHANGED <<out, fate>>
            [] call[u].pc = "direct" ->
                 /\ out' = out + n
                 /\ call' = [call EXCEPT ![u].left = @ - n, ![u].pc = "copy"]
                 /\ UNCHANGED <<buffer, fate>>
  /\ UNCHANGED <<sent, eof, offset, readers, writers, peeked>>

\* write(): the kernel takes some of the bytes; when it takes none, the coroutine
\* waits for the descriptor.
WriteStep(u) ==
  /\ cpu \in {u, Nobody} /\ call[u].op = "write" /\ call[u].pc \in {"copy", "out"}
  /\ fate = "ok"
  /\ \E n \in 0 .. call[u].left :
       IF n = call[u].left
       THEN Done(u)
       ELSE /\ call' = [call EXCEPT ![u].left = @ - n, ![u].pc = "out"]
            /\ cpu' = IF n = 0 THEN Nobody ELSE u
            /\ UNCHANGED <<readers, writers>>
  /\ UNCHANGED <<peerVars, buffer, offset, out, peeked, fate>>

\* The wait of u for a mutex or for the descriptor throws: the acquisition is
\* released, and the buffer stays as it is.
InterruptCall(u) ==
  /\ fate = "ok" /\ cpu = Nobody
  /\ call[u].pc \in {"fill", "peek"} => Interrupts
  /\ call[u].pc \in {"lock", "fill", "direct", "peek", "out"}
  /\ Done(u)
  /\ UNCHANGED <<peerVars, buffer, offset, out, peeked, fate>>

\* The peer.
Arrive ==
  /\ ~ eof /\ sent < MaxBytes
  /\ sent' = sent + 1
  /\ UNCHANGED <<got, eof, buffer, offset, readers, writers, cpu, call, out, peeked, fate>>

CloseByPeer ==
  /\ ~ eof
  /\ eof' = TRUE
  /\ UNCHANGED <<sent, got, buffer, offset, readers, writers, cpu, call, out, peeked, fate>>

TcpNext ==
  \/ \E u \in Users :
       \/ \E op \in {"read", "until", "write"}, n \in 1 .. BufferSize : Call(u, op, n)
       \/ \E n \in 1 .. BufferSize : Peek(u, n)
       \/ Locked(u) \/ ReadCopy(u) \/ UntilCopy(u) \/ PeekCopy(u)
       \/ ReadBlocks(u) \/ ReadReturns(u) \/ WriteStep(u) \/ InterruptCall(u)
  \/ Arrive
  \/ CloseByPeer

TcpSpec == TcpInit /\ [][TcpNext]_tcpVars

-----------------------------------------------------------------------------
\* Properties.

\* What is in the buffer and not yet given out, when a read is pending into it.
Pending(pc) == {u \in Users : call[u].pc = pc}
Held == IF Pending("fill") # {} THEN <<>>
        ELSE IF Pending("peek") # {}
             THEN SubSeq(buffer, offset + 1, call[CHOOSE u \in Pending("peek") : TRUE].old)
             ELSE Buffered

\* The buffer and the kernel hold exactly the bytes that come next, in order,
\* whatever mix of calls has moved them, and a peek shows those bytes.  With
\* SharedPeek or Interrupts it is false: the zeros of a read that is pending, or
\* was given up, pass for data (tcp.cc:78, 178).
StreamIntact ==
  fate = "ok" =>
    /\ Held = [i \in 1 .. Len(Held) |-> out + i]
    /\ got = out + Len(Held)
    /\ peeked.bytes = [i \in 1 .. Len(peeked.bytes) |-> peeked.at + i]

\* read_until() stays inside the buffer.  False: it needs a delimiter there
\* (tcp.cc:138).
UntilStaysInside == fate # "overrun"

=============================================================================
