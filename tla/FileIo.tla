-------------------------------- MODULE FileIo --------------------------------
(***************************************************************************)
(* file_t (io/file.cc): open, read, write and truncate run on an io        *)
(* thread, by the requests that the hub carries, while the coroutine that  *)
(* asked waits for the reply.  The system calls transfer as much as the    *)
(* kernel likes, and the handlers loop until all is done.                  *)
(***************************************************************************)
EXTENDS Naturals, FiniteSets

CONSTANTS Clients,        \* coroutines, each with one request at a time
          MaxSize         \* bound on the size of a transfer

ASSUME FileAssumption == MaxSize \in Nat

VARIABLES request,        \* the request of each client: [op, size, left, res]
          asking,         \* the clients that wait for the reply
          opened, owned   \* clients whose file is open, and in a scoped_fd_t

fileIoVars == <<request, asking, opened, owned>>
NoRequest == [op |-> "none", size |-> 0, left |-> 0, res |-> "none"]

FileInit ==
  /\ request = [c \in Clients |-> NoRequest]
  /\ asking = {}
  /\ opened = {}
  /\ owned = {}

\* call_async and call_sync of a handler of file_callbacks_t.
Ask(c, op, n) ==
  /\ request[c] = NoRequest
  /\ IF op = "open" THEN c \notin opened ELSE c \in owned
  /\ request' = [request EXCEPT ![c] = [op |-> op, size |-> n, left |-> n, res |-> "pending"]]
  /\ asking' = asking \cup {c}
  /\ UNCHANGED <<opened, owned>>

Answer(c, res) == request' = [request EXCEPT ![c].res = res]

\* Mutant: a short transfer counts as the whole.
Transfer_Short(c) ==
  LET r == request[c] IN
  /\ r.op \in {"read", "write"} /\ r.res = "pending"
  /\ \/ Answer(c, "error")
     \/ \E n \in 0 .. r.left :
          request' = [request EXCEPT ![c] = [@ EXCEPT !.left = r.left - n, !.res = "ok"]]
  /\ UNCHANGED <<asking, opened, owned>>

\* One system call of a read or a write and the test of its result, which is
\* compared with the size of the whole request: only a single transfer of
\* everything is a success.  A read ends with EINVAL when nothing is left, be it
\* of the file or of the request; a write goes on for ever.
Transfer(c) ==
  LET r == request[c] IN
  /\ r.op \in {"read", "write"} /\ r.res = "pending"
  /\ \/ Answer(c, "error")
     \/ \E n \in 0 .. r.left :
          /\ n = 0 => (r.op = "read" \/ r.left = 0)
          /\ IF n = r.size \/ (n = 0 /\ r.op = "read")
             THEN request' = [request EXCEPT ![c] =
                    [@ EXCEPT !.left = r.left - n, !.res = IF n = r.size THEN "ok" ELSE "invalid"]]
             ELSE request' = [request EXCEPT ![c].left = r.left - n]
  /\ UNCHANGED <<asking, opened, owned>>

Truncate(c) ==
  /\ request[c].op = "truncate" /\ request[c].res = "pending"
  /\ \/ Answer(c, "error")
     \/ request' = [request EXCEPT ![c] = [@ EXCEPT !.left = 0, !.res = "ok"]]
  /\ UNCHANGED <<asking, opened, owned>>

OpenFile(c) ==
  /\ request[c].op = "open" /\ request[c].res = "pending"
  /\ \/ Answer(c, "error") /\ UNCHANGED opened
     \/ request' = [request EXCEPT ![c] = [@ EXCEPT !.left = 0, !.res = "ok"]]
        /\ opened' = opened \cup {c}
  /\ UNCHANGED <<asking, owned>>

\* The reply arrives: the result of an open goes into a scoped_fd_t, if anybody
\* still waits for it.
Receive(c) ==
  /\ request[c].res \notin {"none", "pending"}
  /\ request' = [request EXCEPT ![c] = NoRequest]
  /\ asking' = asking \ {c}
  /\ owned' = IF request[c].op = "open" /\ request[c].res = "ok" /\ c \in asking
              THEN owned \cup {c} ELSE owned
  /\ UNCHANGED opened

\* The wait for a reply throws: interruptor_clear_t does nothing
\* (interruptor.cc:104), so the constructor can be interrupted as well.
GiveUp(c) ==
  /\ c \in asking
  /\ asking' = asking \ {c}
  /\ UNCHANGED <<request, opened, owned>>

\* The destructor of file_t closes the descriptor, requests or not.
CloseFile(c) ==
  /\ c \in owned
  /\ c \notin asking
  /\ opened' = opened \ {c}
  /\ owned' = owned \ {c}
  /\ UNCHANGED <<request, asking>>

FileNext ==
  \E c \in Clients :
    \/ \E op \in {"open", "read", "write", "truncate"}, n \in 1 .. MaxSize : Ask(c, op, n)
    \/ Transfer(c) \/ Truncate(c) \/ OpenFile(c)
    \/ Receive(c) \/ GiveUp(c) \/ CloseFile(c)

FileSpec == FileInit /\ [][FileNext]_fileIoVars

-----------------------------------------------------------------------------
\* Properties.

\* A handler answers that it was successful only when all was transferred.
SuccessIsWhole == \A c \in Clients : request[c].res = "ok" => request[c].left = 0

\* A transfer that is complete is not an error.  False after a short transfer.
WholeIsSuccess == \A c \in Clients : request[c].res = "invalid" => request[c].left > 0

\* An open file is owned, or on its way to the coroutine that waits for it:
\* "We would leak the file descriptor if interrupted here" (file.cc:80), which
\* interruptor_clear_t is there to prevent.  False.
NoFileLeaks == \A c \in opened \ owned : c \in asking

\* A handler reads into memory and from a descriptor that are still there.
\* False: it goes on when the coroutine that asked has given up.
HandlerIsWaitedFor ==
  \A c \in Clients : request[c].op \in {"read", "write"} /\ request[c].res = "pending" =>
                       c \in asking /\ c \in owned

=============================================================================
