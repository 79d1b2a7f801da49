------------------------------ MODULE FifoQueue ------------------------------
(***************************************************************************)
(* What a user of mpsc_queue_t (containers/intrusive.hpp) may rely on: the *)
(* items come out in the order in which the pushes took effect, each once, *)
(* and a pop comes back empty-handed only if the queue was empty or a push *)
(* was under way at some moment of that pop.                               *)
(***************************************************************************)
EXTENDS Sequences

CONSTANTS Producers,  \* the threads that push
          Items,      \* the nodes that can be in the queue
          Null        \* the result of a pop that finds nothing

VARIABLES queue,      \* the items pushed and not yet popped, oldest first
          pushing,    \* the producers between the two halves of a push
          popping,    \* is the consumer inside pop()?
          raced,      \* has a push been under way since this pop began?
          result      \* what the last pop returned

fifoVars == <<queue, pushing, popping, raced, result>>

FifoInit ==
  /\ queue = <<>>
  /\ pushing = {}
  /\ popping = FALSE
  /\ raced = FALSE
  /\ result = Null

InQueue(i) == \E k \in DOMAIN queue : queue[k] = i

BeginPush(p, i) ==
  /\ p \notin pushing
  /\ ~ InQueue(i)
  /\ queue' = Append(queue, i)
  /\ pushing' = pushing \cup {p}
  /\ raced' = TRUE
  /\ UNCHANGED <<popping, result>>

EndPush(p) ==
  /\ p \in pushing
  /\ pushing' = pushing \ {p}
  /\ UNCHANGED <<queue, popping, raced, result>>

BeginPop ==
  /\ ~ popping
  /\ popping' = TRUE
  /\ raced' = (pushing # {})
  /\ UNCHANGED <<queue, pushing, result>>

PopItem ==
  /\ popping
  /\ queue # <<>>
  /\ result' = Head(queue)
  /\ queue' = Tail(queue)
  /\ popping' = FALSE
  /\ UNCHANGED <<pushing, raced>>

PopNothing ==
  /\ popping
  /\ queue = <<>> \/ raced
  /\ result' = Null
  /\ popping' = FALSE
  /\ UNCHANGED <<queue, pushing, raced>>

FifoNext ==
  \/ \E p \in Producers, i \in Items : BeginPush(p, i)
  \/ \E p \in Producers : EndPush(p)
  \/ BeginPop
  \/ PopItem
  \/ PopNothing

FifoSpec == FifoInit /\ [][FifoNext]_fifoVars

=============================================================================
