------------------------------ MODULE MpscQueue ------------------------------
(***************************************************************************)
(* mpsc_queue_t of containers/intrusive.hpp: the intrusive multi-producer  *)
(* single-consumer queue under every stream of the library.  The queue     *)
(* object is itself a node (Stub).  One action is one access to memory     *)
(* that another thread may touch; accesses to a node that only its owner   *)
(* can reach are folded into the neighbouring action.  A popped node goes  *)
(* back to `free' at once and may be pushed again: its memory is reused as *)
(* early as the code allows.                                               *)
(***************************************************************************)
EXTENDS Naturals, Sequences, FiniteSets

CONSTANTS Producers,  \* the threads that push
          Items,      \* the nodes
          Stub,       \* the queue object in its role as a node
          Null        \* nullptr

ASSUME QueueAssumption ==
  /\ IsFiniteSet(Items)
  /\ Stub \notin Items
  /\ Null \notin Items \cup {Stub}

VARIABLES next,       \* the next pointer of every node
          front,      \* m_front, the consumer's own
          back,       \* m_back, the atomic
          free,       \* the items outside the queue
          ppc,        \* where each producer is: "idle" or "link"
          item,       \* the producer's argument
          prev,       \* what its exchange of m_back returned
          cpc,        \* where the consumer is inside pop()
          cprev,      \* what the consumer's own exchange returned
          raced,      \* history: was a push under way during this pop?
          result      \* what the last pop returned

Nodes == Items \cup {Stub}

producerVars == <<ppc, item, prev>>
consumerVars == <<front, cpc, cprev, result>>
queueVars == <<next, back, free, raced, producerVars, consumerVars>>

QueueInit ==
  /\ next = [n \in Nodes |-> Null]
  /\ front = Stub
  /\ back = Stub
  /\ free = Items
  /\ ppc = [p \in Producers |-> "idle"]
  /\ item = [p \in Producers |-> Null]
  /\ prev = [p \in Producers |-> Null]
  /\ cpc = "idle"
  /\ cprev = Null
  /\ raced = FALSE
  /\ result = Null

Linking == {p \in Producers : ppc[p] = "link"}

-----------------------------------------------------------------------------
\* Producers.

\* push(): clear the item's next pointer, then make it the back of the queue.
\* Until the old back is linked to it the item cannot be reached.
Exchange(p, i) ==
  /\ ppc[p] = "idle"
  /\ i \in free
  /\ free' = free \ {i}
  /\ next' = [next EXCEPT ![i] = Null]
  /\ prev' = [prev EXCEPT ![p] = back]
  /\ back' = i
  /\ item' = [item EXCEPT ![p] = i]
  /\ ppc' = [ppc EXCEPT ![p] = "link"]
  /\ raced' = TRUE
  /\ UNCHANGED consumerVars

\* push(): the store that publishes the item.
Link(p) ==
  /\ ppc[p] = "link"
  /\ next' = [next EXCEPT ![prev[p]] = item[p]]
  /\ ppc' = [ppc EXCEPT ![p] = "idle"]
  /\ item' = [item EXCEPT ![p] = Null]
  /\ prev' = [prev EXCEPT ![p] = Null]
  /\ UNCHANGED <<back, free, raced, consumerVars>>

-----------------------------------------------------------------------------
\* The consumer.

PopCall ==
  /\ cpc = "idle"
  /\ cpc' = "check"
  /\ raced' = (Linking # {})
  /\ UNCHANGED <<next, back, free, front, cprev, result, producerVars>>

ReturnNothing ==
  /\ cpc' = "idle"
  /\ result' = Null

\* Hand out the front node once a successor is known.
TakeFront ==
  /\ front' = next[front]
  /\ next' = [next EXCEPT ![front] = Null]
  /\ free' = free \cup {front}
  /\ result' = front
  /\ cpc' = "idle"
  /\ UNCHANGED cprev

\* Mutant: the stub keeps its next pointer when it is skipped.
CheckStub_KeepNext ==
  /\ cpc = "check"
  /\ IF front = Stub /\ next[Stub] = Null
     THEN ReturnNothing /\ UNCHANGED front
     ELSE /\ front' = IF front = Stub THEN next[Stub] ELSE front
          /\ cpc' = "next"
          /\ UNCHANGED result
  /\ UNCHANGED <<next, back, free, raced, cprev, producerVars>>

\* Skip the stub when it is at the front.
CheckStub ==
  /\ cpc = "check"
  /\ \/ /\ front = Stub
        /\ next[Stub] = Null
        /\ ReturnNothing
        /\ UNCHANGED <<next, front>>
     \/ /\ front = Stub
        /\ next[Stub] # Null
        /\ front' = next[Stub]
        /\ next' = [next EXCEPT ![Stub] = Null]
        /\ cpc' = "next"
        /\ UNCHANGED result
     \/ /\ front # Stub
        /\ cpc' = "next"
        /\ UNCHANGED <<next, front, result>>
  /\ UNCHANGED <<back, free, raced, cprev, producerVars>>

ReadNext ==
  /\ cpc = "next"
  /\ \/ /\ next[front] # Null
        /\ TakeFront
     \/ /\ next[front] = Null
        /\ cpc' = "back"
        /\ UNCHANGED <<next, free, front, cprev, result>>
  /\ UNCHANGED <<back, raced, producerVars>>

\* Mutant: pop() gives up on the last item.
LoadBack_GiveUp ==
  /\ cpc = "back"
  /\ ReturnNothing
  /\ UNCHANGED <<next, back, free, front, cprev, raced, producerVars>>

\* No successor: either the front is the last node, or a push is half done.
LoadBack ==
  /\ cpc = "back"
  /\ \/ /\ front # back
        /\ ReturnNothing
     \/ /\ front = back
        /\ cpc' = "self"
        /\ UNCHANGED result
  /\ UNCHANGED <<next, back, free, front, cprev, raced, producerVars>>

\* push_self(): put the stub behind the last node, in the same two halves.
SelfExchange ==
  /\ cpc = "self"
  /\ cprev' = back
  /\ back' = Stub
  /\ cpc' = "selflink"
  /\ UNCHANGED <<next, free, front, raced, result, producerVars>>

SelfLink ==
  /\ cpc = "selflink"
  /\ next' = [next EXCEPT ![cprev] = Stub]
  /\ cprev' = Null
  /\ cpc' = "reread"
  /\ UNCHANGED <<back, free, front, raced, result, producerVars>>
Reread ==
  /\ cpc = "reread"
  /\ \/ /\ next[front] # Null
        /\ TakeFront
     \/ /\ next[front] = Null
        /\ ReturnNothing
        /\ UNCHANGED <<next, free, front, cprev>>
  /\ UNCHANGED <<back, raced, producerVars>>

PopStep ==
  \/ CheckStub
  \/ ReadNext
  \/ LoadBack
  \/ SelfExchange
  \/ SelfLink
  \/ Reread

-----------------------------------------------------------------------------
\* size(): the items that can be reached from m_front.

\* The node reached from n after k steps along succ, Null past the end.
Walk(succ, n) ==
  LET w[k \in 0 .. Cardinality(Nodes)] ==
        IF k = 0 THEN n
        ELSE IF w[k - 1] = Null THEN Null ELSE succ[w[k - 1]]
  IN w

\* The items on the way, in this order: behind the stub each is a step further.
ItemsOnWalk(succ, n) ==
  LET w == Walk(succ, n)
  IN [k \in 1 .. Cardinality({j \in DOMAIN w : w[j] \in Items}) |->
        IF \E j \in 0 .. k - 1 : w[j] = Stub THEN w[k] ELSE w[k - 1]]

Size == Len(ItemsOnWalk(next, front))

-----------------------------------------------------------------------------
QueueNext ==
  \/ \E p \in Producers, i \in Items : Exchange(p, i)
  \/ \E p \in Producers : Link(p)
  \/ PopCall
  \/ PopStep

QueueSpec == QueueInit /\ [][QueueNext]_queueVars

-----------------------------------------------------------------------------
\* Properties.

QueueTypeOK ==
  /\ next \in [Nodes -> Nodes \cup {Null}]
  /\ front \in Nodes
  /\ back \in Nodes
  /\ free \subseteq Items
  /\ ppc \in [Producers -> {"idle", "link"}]
  /\ item \in [Producers -> Items \cup {Null}]
  /\ prev \in [Producers -> Nodes \cup {Null}]
  /\ cpc \in {"idle", "check", "next", "back", "self", "selflink", "reread"}
  /\ cprev \in Items \cup {Null}
  /\ raced \in BOOLEAN
  /\ result \in Items \cup {Null}

\* A producer that stalls between its exchange and its store still points at
\* two nodes that belong to the queue: the consumer has not handed either of
\* them out (push() would otherwise write into freed memory).
LinkTargetsLive ==
  \A p \in Linking :
    /\ item[p] \notin free
    /\ prev[p] \notin free
    /\ next[prev[p]] = Null

\* The asserts in pop() and push_self(): past the stub check the front is an
\* item, and the stub is pushed only while it is not in the queue.
StubAsserts ==
  /\ cpc \in {"next", "back", "self", "selflink", "reread"} => front # Stub
  /\ cpc = "self" => /\ next[Stub] = Null
                     /\ back # Stub
                     /\ \A p \in Linking : prev[p] # Stub

\* The node that follows n once the pushes under way have completed.
Successor ==
  [n \in Nodes |->
     IF next[n] # Null THEN next[n]
     ELSE IF \E p \in Linking : prev[p] = n
          THEN item[CHOOSE p \in Linking : prev[p] = n]
     ELSE IF cpc = "selflink" /\ cprev = n THEN Stub
     ELSE Null]

Contents == ItemsOnWalk(Successor, front)

\* The chain from m_front, with the half-done pushes completed, holds exactly
\* the items that were pushed and not popped: none is lost behind a stub that
\* was relinked, none is still reachable after it was handed out.
ChainIsContents ==
  /\ {Contents[k] : k \in DOMAIN Contents} = Items \ free
  /\ Len(Contents) = Cardinality(Items \ free)

\* With no thread in the queue size() counts its items, and an empty queue is
\* in the state the destructor asserts.
QuiescentShape ==
  (Linking = {} /\ cpc = "idle") =>
    /\ Size = Cardinality(Items \ free)
    /\ free = Items => front = Stub /\ back = Stub /\ next[Stub] = Null

\* The shape of the queue's memory between any two accesses to it.
QueueShape ==
  /\ QueueTypeOK
  /\ LinkTargetsLive
  /\ StubAsserts
  /\ QuiescentShape

\* The queue is a FIFO queue: items come out in exchange order, and a pop
\* that no push overlaps never misses an item.
Fifo == INSTANCE FifoQueue WITH
          queue <- Contents, pushing <- Linking, popping <- (cpc # "idle")

IsFifo == Fifo!FifoSpec

=============================================================================
