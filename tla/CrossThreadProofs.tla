-------------------------- MODULE CrossThreadProofs --------------------------
(***************************************************************************)
(* What threads share, for any number of threads, readers and nodes.       *)
(*                                                                         *)
(* The queue.  The invariant gives the order that the next pointers do not *)
(* show while a push is half done: there is a sequence of distinct nodes   *)
(* from m_front to m_back, in which each node either points to the one     *)
(* behind it or will, once the push (or push_self()) that put the next one *)
(* behind it goes on.  Each action extends that sequence, shortens it at   *)
(* the front, or leaves it.  That the items of the sequence are the        *)
(* contents of the refinement is shown about the walk the model defines    *)
(* them with.                                                              *)
(*                                                                         *)
(* The barrier stands alone.  Of the streams, every step is one of the     *)
(* queue, or leaves the queue alone, so that what is shown of the queue    *)
(* holds under both.  What each stream adds is that nothing is lost        *)
(* between the queue and its eventfd: an item in the inbox of a thread     *)
(* that sleeps is announced or will be; and the messages of the io stream  *)
(* are as many as the tokens, the readers that took one, and the writers   *)
(* that have one to give.                                                  *)
(***************************************************************************)
EXTENDS CrossThread, FiniteSums, SequenceTheorems

\* n is one of the nodes of q.
Within(q, n) == \E k \in 1 .. Len(q) : q[k] = n

\* q is a sequence of distinct nodes from m_front to m_back, with every item that is
\* in the queue.
ChainNodes(q) ==
  /\ q \in Seq(Nodes)
  /\ q # <<>>
  /\ q[1] = front
  /\ q[Len(q)] = back
  /\ \A i, j \in 1 .. Len(q) : q[i] = q[j] => i = j
  /\ \A i \in Items : i \notin free <=> Within(q, i)
  /\ ~ Within(q, Stub) => next[Stub] = Null

\* n is to be stored in m's next pointer.
Pending(m, n) ==
  \/ \E p \in Linking : prev[p] = m /\ item[p] = n
  \/ cpc = "selflink" /\ cprev = m /\ n = Stub

\* Each node of q points to the next one, or is about to.
ChainLinks(q) ==
  /\ next[back] = Null
  /\ \A k \in 1 .. Len(q) - 1 :
       \/ next[q[k]] = q[k + 1]
       \/ next[q[k]] = Null /\ Pending(q[k], q[k + 1])

\* Each half of a push that is still to come has its place in q, and its own node to
\* write to.
ChainPushes(q) ==
  /\ \A p \in Linking : \E k \in 1 .. Len(q) - 1 :
       prev[p] = q[k] /\ item[p] = q[k + 1] /\ next[q[k]] = Null
  /\ cpc = "selflink" => \E k \in 1 .. Len(q) - 1 :
       cprev = q[k] /\ Stub = q[k + 1] /\ next[q[k]] = Null
  /\ \A p, r \in Linking : prev[p] = prev[r] => p = r
  /\ cpc = "selflink" => \A p \in Linking : prev[p] # cprev

\* What pop() has found out so far still holds.
ChainPop(q) ==
  /\ cpc \in {"next", "back", "self", "selflink", "reread"} => front # Stub
  /\ cpc = "self" => ~ Within(q, Stub)
  /\ cpc \in {"selflink", "reread"} => Within(q, Stub)
  /\ cpc # "idle" /\ Linking # {} => raced
  /\ cpc = "back" => next[front] = Null \/ raced

Chain(q) ==
  /\ ChainNodes(q)
  /\ ChainLinks(q)
  /\ ChainPushes(q)
  /\ ChainPop(q)

\* The inductive invariant.
QueueInv == QueueTypeOK /\ \E q \in Seq(Nodes) : Chain(q)

\* An empty queue is a chain of the stub.
LEMMA QueueInitChain ==
  ASSUME QueueInit
  PROVE  Chain(<<Stub>>) /\ <<Stub>> \in Seq(Nodes)
<1>1. Chain(<<Stub>>)
  BY QueueAssumption DEF QueueInit, Chain, ChainNodes, ChainLinks, ChainPushes,
     ChainPop, Within, Linking, Nodes
<1>2. <<Stub>> \in Seq(Nodes)
  BY DEF Nodes
<1> QED BY <1>1, <1>2

LEMMA QueueInitInv == QueueInit => QueueInv
<1> SUFFICES ASSUME QueueInit PROVE QueueInv
  OBVIOUS
<1>1. QueueTypeOK
  BY QueueAssumption DEF QueueInit, QueueTypeOK, Nodes
<1> QED BY <1>1, QueueInitChain DEF QueueInv

\* The types do not stand alone: what is popped is an item because the front is not
\* the stub any more.
LEMMA QueueTypeStep ==
  ASSUME QueueInv, QueueNext
  PROVE  QueueTypeOK'
<1> USE QueueAssumption DEF QueueInv, QueueTypeOK, Nodes
<1>0. PICK q \in Seq(Nodes) : Chain(q)
  OBVIOUS
<1>1. /\ cpc \in {"next", "back", "self", "selflink", "reread"} => front # Stub
      /\ cpc = "self" => back # Stub
  <2>1. Len(q) \in 1 .. Len(q)
    BY <1>0, EmptySeq DEF Chain, ChainNodes
  <2> QED BY <1>0, <2>1 DEF Chain, ChainPop, ChainNodes, Within
<1>2. ASSUME NEW p \in Producers, NEW i \in Items, Exchange(p, i) PROVE QueueTypeOK'
  BY <1>2 DEF Exchange, consumerVars
<1>3. ASSUME NEW p \in Producers, Link(p) PROVE QueueTypeOK'
  BY <1>3 DEF Link, consumerVars
<1>4. CASE PopCall
  BY <1>4 DEF PopCall, producerVars
<1>5. ASSUME TakeFront, next[front] # Null, front # Stub,
             UNCHANGED <<back, raced, producerVars>>
      PROVE  QueueTypeOK'
  BY <1>5 DEF TakeFront, producerVars
<1>6. CASE CheckStub
  BY <1>6 DEF CheckStub, ReturnNothing, producerVars
<1>7. CASE ReadNext
  BY <1>7, <1>5, <1>1 DEF ReadNext, producerVars
<1>8. CASE LoadBack
  BY <1>8 DEF LoadBack, ReturnNothing, producerVars
<1>9. CASE SelfExchange
  BY <1>9, <1>1 DEF SelfExchange, producerVars
<1>10. CASE SelfLink
  BY <1>10 DEF SelfLink, producerVars
<1>11. CASE Reread
  BY <1>11, <1>5, <1>1 DEF Reread, ReturnNothing, producerVars
<1> QED BY <1>2, <1>3, <1>4, <1>6, <1>7, <1>8, <1>9, <1>10, <1>11 DEF QueueNext, PopStep

-----------------------------------------------------------------------------
\* What the steps do to the chain.

\* push() puts its node behind the last one, and owes it the pointer.
LEMMA ExchangeChain ==
  ASSUME QueueTypeOK, NEW q \in Seq(Nodes), Chain(q),
         NEW p \in Producers, NEW i \in Items, Exchange(p, i)
  PROVE  Append(q, i) \in Seq(Nodes) /\ Chain(Append(q, i))'
<1> DEFINE s == Append(q, i)
           n == Len(q)
<1>1. /\ n \in Nat \ {0}
      /\ q \in [1 .. n -> Nodes]
      /\ s \in Seq(Nodes)
      /\ s # <<>>
      /\ Len(s) = n + 1
      /\ \A k \in 1 .. n : s[k] = q[k]
      /\ s[n + 1] = i
  BY EmptySeq, LenProperties, AppendProperties DEF Chain, ChainNodes, Nodes
<1>2. \A k \in 1 .. n : q[k] # i
  BY DEF Chain, ChainNodes, Exchange, Within
<1> HIDE DEF s, n
<1>3. ASSUME NEW x PROVE Within(s, x) <=> Within(q, x) \/ x = i
  BY <1>1 DEF Within, n
<1>4. ChainNodes(s)'
  BY <1>1, <1>2, <1>3, QueueAssumption, SMTT(40)
  DEF Chain, ChainNodes, Exchange, consumerVars, n, QueueTypeOK, Nodes
<1>5. /\ Linking' = Linking \cup {p} /\ p \notin Linking
      /\ prev'[p] = q[n] /\ item'[p] = i
      /\ \A r \in Linking : prev'[r] = prev[r] /\ item'[r] = item[r]
      /\ next'[i] = Null
      /\ \A k \in 1 .. n : next'[q[k]] = next[q[k]]
      /\ next[q[n]] = Null
      /\ back' = i
      /\ UNCHANGED <<cpc, cprev>>
  BY <1>1, <1>2
  DEF Chain, ChainNodes, ChainLinks, Linking, Exchange, consumerVars, n, QueueTypeOK, Nodes
<1>6. ChainLinks(s)'
  <2>1. ASSUME NEW k \in 1 .. n - 1
        PROVE  \/ next'[s[k]] = s[k + 1]
               \/ next'[s[k]] = Null /\ Pending(s[k], s[k + 1])'
    <3>1. s[k] = q[k] /\ s[k + 1] = q[k + 1] /\ next'[s[k]] = next[q[k]]
      BY <1>1, <1>5
    <3>2. Pending(q[k], q[k + 1]) => Pending(q[k], q[k + 1])'
      BY <1>5 DEF Pending
    <3> QED BY <3>1, <3>2 DEF Chain, ChainLinks, n
  <2>2. next'[s[n]] = Null /\ Pending(s[n], s[n + 1])'
    BY <1>1, <1>5 DEF Pending
  <2> QED BY <2>1, <2>2, <1>1, <1>5 DEF ChainLinks
<1>7. ChainPushes(s)'
  <2>1. ASSUME NEW r \in Linking
        PROVE  \E k \in 1 .. n - 1 : prev'[r] = s[k] /\ item'[r] = s[k + 1] /\ next'[s[k]] = Null
    <3>1. PICK k \in 1 .. n - 1 : prev[r] = q[k] /\ item[r] = q[k + 1] /\ next[q[k]] = Null
      BY DEF Chain, ChainPushes, n
    <3> QED BY <3>1, <1>1, <1>5
  <2>2. \A r \in Linking : prev[r] # q[n]
    BY <1>1 DEF Chain, ChainNodes, ChainPushes, n
  <2>3. prev'[p] = s[n] /\ item'[p] = s[n + 1] /\ next'[s[n]] = Null
    BY <1>1, <1>5
  <2>4. cpc = "selflink" => cprev # q[n]
    BY <1>1 DEF Chain, ChainNodes, ChainPushes, n
  <2>5. \A r \in Linking' : \E k \in 1 .. n :
          prev'[r] = s[k] /\ item'[r] = s[k + 1] /\ next'[s[k]] = Null
    BY <2>1, <2>3, <1>1, <1>5
  <2>6. cpc = "selflink" => \E k \in 1 .. n : cprev = s[k] /\ Stub = s[k + 1] /\ next'[s[k]] = Null
    BY <1>1, <1>5 DEF Chain, ChainPushes, n
  <2>7. \A r, t \in Linking' : prev'[r] = prev'[t] => r = t
    BY <2>2, <1>5 DEF Chain, ChainPushes
  <2>8. cpc = "selflink" => \A r \in Linking' : prev'[r] # cprev
    BY <2>4, <1>5 DEF Chain, ChainPushes
  <2> QED BY <2>5, <2>6, <2>7, <2>8, <1>1, <1>5 DEF ChainPushes
<1>8. ChainPop(s)'
  BY <1>1, <1>3, QueueAssumption, ZenonT(60)
  DEF Chain, ChainNodes, ChainPop, Within, Exchange, consumerVars, n, QueueTypeOK, Nodes
<1> QED BY <1>1, <1>4, <1>6, <1>7, <1>8 DEF Chain, s

\* The second half of push() pays for the first.
LEMMA LinkChain ==
  ASSUME QueueTypeOK, NEW q \in Seq(Nodes), Chain(q),
         NEW p \in Producers, Link(p)
  PROVE  Chain(q)'
<1>1. /\ Len(q) \in Nat \ {0}
      /\ q \in [1 .. Len(q) -> Nodes]
  BY EmptySeq, LenProperties DEF Chain, ChainNodes, Nodes
<1>2. PICK k \in 1 .. Len(q) - 1 : prev[p] = q[k] /\ item[p] = q[k + 1] /\ next[q[k]] = Null
  BY DEF Chain, ChainPushes, Linking, Link
<1>3. next' = [next EXCEPT ![q[k]] = q[k + 1]]
  BY <1>2 DEF Link
<1>4. ChainNodes(q)'
  BY <1>1, <1>3 DEF Chain, ChainNodes, Within, Link, consumerVars, QueueTypeOK, Nodes
<1>5. /\ Linking' = Linking \ {p} /\ p \in Linking
      /\ \A r \in Linking \ {p} : prev'[r] = prev[r] /\ item'[r] = item[r]
      /\ next'[q[k]] = q[k + 1]
      /\ \A j \in 1 .. Len(q) : j # k => next'[q[j]] = next[q[j]]
      /\ prev[p] = q[k]
      /\ q[Len(q)] = back
      /\ UNCHANGED <<back, cpc, cprev>>
  BY <1>1, <1>2, <1>3
  DEF Chain, ChainNodes, Linking, Link, consumerVars, QueueTypeOK, Nodes
<1>6. ChainLinks(q)'
  <2>1. next'[back] = Null
    BY <1>1, <1>5 DEF Chain, ChainLinks
  <2>2. ASSUME NEW j \in 1 .. Len(q) - 1
        PROVE  \/ next'[q[j]] = q[j + 1]
               \/ next'[q[j]] = Null /\ Pending(q[j], q[j + 1])'
    <3>1. CASE j = k
      BY <3>1, <1>5
    <3>2. CASE j # k
      <4>1. q[j] # q[k] /\ next'[q[j]] = next[q[j]]
        BY <3>2, <1>1, <1>5 DEF Chain, ChainNodes
      <4>2. Pending(q[j], q[j + 1]) => Pending(q[j], q[j + 1])'
        BY <4>1, <1>5 DEF Pending
      <4> QED BY <4>1, <4>2 DEF Chain, ChainLinks
    <3> QED BY <3>1, <3>2
  <2> QED BY <2>1, <2>2, <1>5 DEF ChainLinks
<1>7. ChainPushes(q)'
  <2>1. ASSUME NEW r \in Linking'
        PROVE  \E j \in 1 .. Len(q) - 1 :
                 prev'[r] = q[j] /\ item'[r] = q[j + 1] /\ next'[q[j]] = Null
    <3>1. prev[r] # prev[p] /\ r \in Linking \ {p}
      BY <1>5 DEF Chain, ChainPushes
    <3>2. PICK j \in 1 .. Len(q) - 1 : prev[r] = q[j] /\ item[r] = q[j + 1] /\ next[q[j]] = Null
      BY <1>5 DEF Chain, ChainPushes
    <3> QED BY <3>1, <3>2, <1>1, <1>5
  <2>2. cpc = "selflink" => \E j \in 1 .. Len(q) - 1 :
          cprev = q[j] /\ Stub = q[j + 1] /\ next'[q[j]] = Null
    <3> SUFFICES ASSUME cpc = "selflink"
                 PROVE  \E j \in 1 .. Len(q) - 1 :
                          cprev = q[j] /\ Stub = q[j + 1] /\ next'[q[j]] = Null
      OBVIOUS
    <3>1. PICK j \in 1 .. Len(q) - 1 : cprev = q[j] /\ Stub = q[j + 1] /\ next[q[j]] = Null
      BY DEF Chain, ChainPushes
    <3>2. j # k
      BY <3>1, <1>5 DEF Chain, ChainPushes
    <3> QED BY <3>1, <3>2, <1>1, <1>5
  <2>3. \A r, t \in Linking' : prev'[r] = prev'[t] => r = t
    BY <1>5 DEF Chain, ChainPushes
  <2>4. cpc = "selflink" => \A r \in Linking' : prev'[r] # cprev
    BY <1>5 DEF Chain, ChainPushes
  <2> QED BY <2>1, <2>2, <2>3, <2>4, <1>5 DEF ChainPushes
<1>8. ChainPop(q)'
  BY <1>1, <1>2, <1>3 DEF Chain, ChainNodes, ChainPop, Within, Linking, Link, consumerVars,
       QueueTypeOK, Nodes
<1> QED BY <1>4, <1>6, <1>7, <1>8 DEF Chain

\* The front node leaves the queue once its successor is known.
LEMMA AdvanceChain ==
  ASSUME QueueTypeOK, NEW q \in Seq(Nodes), Chain(q),
         next[front] # Null,
         front' = next[front],
         next' = [next EXCEPT ![front] = Null],
         free' = free \cup ({front} \cap Items),
         UNCHANGED <<back, raced, producerVars>>,
         cpc # "selflink", cpc' \in {"idle", "next"},
         cpc = "idle" => cpc' = "idle",
         cpc' = "next" => front = Stub
  PROVE  Tail(q) \in Seq(Nodes) /\ Chain(Tail(q))' /\ Head(q) = front /\ Tail(q) # <<>>
<1> DEFINE s == Tail(q)
           n == Len(q)
<1>1. /\ n \in Nat \ {0}
      /\ q \in [1 .. n -> Nodes]
      /\ s \in Seq(Nodes)
      /\ Len(s) = n - 1
      /\ \A k \in 1 .. n - 1 : s[k] = q[k + 1]
      /\ Head(q) = q[1]
  BY EmptySeq, LenProperties, HeadTailProperties DEF Chain, ChainNodes, Nodes
<1> HIDE DEF s, n
<1>2. /\ n # 1
      /\ q[1] = front
      /\ next[front] = q[2]
      /\ \A k \in 2 .. n : q[k] # front
  BY <1>1 DEF Chain, ChainNodes, ChainLinks, n
<1>3. s # <<>>
  BY <1>1, <1>2
<1>4. ASSUME NEW x PROVE Within(q, x) <=> Within(s, x) \/ x = front
  <2>1. ASSUME NEW k \in 1 .. n, q[k] = x PROVE Within(s, x) \/ x = front
    <3>1. CASE k = 1
      BY <2>1, <3>1, <1>2
    <3>2. CASE k # 1
      <4>1. k - 1 \in 1 .. Len(s) /\ s[k - 1] = x
        BY <2>1, <3>2, <1>1
      <4> QED BY <4>1 DEF Within
    <3> QED BY <3>1, <3>2
  <2>2. Within(q, x) => Within(s, x) \/ x = front
    BY <2>1 DEF Within, n
  <2>3. ASSUME NEW k \in 1 .. n - 1, s[k] = x PROVE Within(q, x)
    BY <2>3, <1>1, k + 1 \in 1 .. n DEF Within, n
  <2>4. Within(s, x) => Within(q, x)
    BY <2>3, <1>1 DEF Within
  <2>5. Within(q, front)
    BY <1>1, <1>2 DEF Within, n
  <2> QED BY <2>2, <2>4, <2>5
<1>5. ~ Within(s, front)
  BY <1>1, <1>2 DEF Within
<1>6. ChainNodes(s)'
  BY <1>1, <1>2, <1>3, <1>4, <1>5, QueueAssumption
  DEF Chain, ChainNodes, n, QueueTypeOK, Nodes
<1>7. /\ Linking' = Linking
      /\ UNCHANGED <<prev, item>>
      /\ \A k \in 1 .. n - 1 : next'[s[k]] = next[s[k]]
      /\ \A r \in Linking : prev[r] # front
      /\ s[n - 1] = back
      /\ UNCHANGED back
  <2>1. \A r \in Linking : prev[r] # front
    BY DEF Chain, ChainPushes
  <2> QED BY <1>1, <1>2, <2>1 DEF Chain, ChainNodes, Linking, producerVars, n, QueueTypeOK, Nodes
<1>8. ChainLinks(s)' /\ ChainPushes(s)'
  <2>1. next'[back] = Null
    BY <1>1, <1>2, <1>7 DEF Chain, ChainLinks
  <2>2. ASSUME NEW k \in 1 .. n - 2
        PROVE  \/ next'[s[k]] = s[k + 1]
               \/ next'[s[k]] = Null /\ Pending(s[k], s[k + 1])'
    <3>1. /\ k + 1 \in 1 .. n - 1
          /\ s[k] = q[k + 1]
          /\ s[k + 1] = q[(k + 1) + 1]
          /\ next'[s[k]] = next[s[k]]
      BY <1>1, <1>7
    <3>2. \/ next[q[k + 1]] = q[(k + 1) + 1]
          \/ next[q[k + 1]] = Null /\ Pending(q[k + 1], q[(k + 1) + 1])
      BY <3>1 DEF Chain, ChainLinks, n
    <3> QED BY <3>1, <3>2, <1>7 DEF Pending
  <2>3. ASSUME NEW r \in Linking
        PROVE  \E k \in 1 .. n - 2 : prev[r] = s[k] /\ item[r] = s[k + 1] /\ next'[s[k]] = Null
    <3>1. PICK k \in 1 .. n - 1 : prev[r] = q[k] /\ item[r] = q[k + 1] /\ next[q[k]] = Null
      BY DEF Chain, ChainPushes, n
    <3>2. k # 1
      BY <3>1, <1>2, <1>7
    <3>3. k - 1 \in 1 .. n - 2 /\ q[k] = s[k - 1] /\ q[k + 1] = s[(k - 1) + 1]
      BY <3>2, <1>1
    <3>4. next'[s[k - 1]] = Null
      BY <3>1, <3>3, <1>1, <1>7
    <3> QED BY <3>1, <3>3, <3>4
  <2>4. ChainLinks(s)'
    BY <2>1, <2>2, <1>1, <1>7 DEF ChainLinks
  <2>5. ChainPushes(s)'
    BY <2>3, <1>1, <1>7 DEF Chain, ChainPushes
  <2> QED BY <2>4, <2>5
<1>9. ChainPop(s)'
  BY <1>1, <1>2, QueueAssumption
  DEF Chain, ChainNodes, ChainPop, Linking, producerVars, n, QueueTypeOK, Nodes
<1> QED BY <1>1, <1>2, <1>3, <1>6, <1>8, <1>9 DEF Chain, s

\* push_self() puts the stub behind the last node ...
LEMMA SelfExchangeChain ==
  ASSUME QueueTypeOK, NEW q \in Seq(Nodes), Chain(q), SelfExchange
  PROVE  Append(q, Stub) \in Seq(Nodes) /\ Chain(Append(q, Stub))'
<1> DEFINE s == Append(q, Stub)
           n == Len(q)
<1>1. /\ n \in Nat \ {0}
      /\ q \in [1 .. n -> Nodes]
      /\ s \in Seq(Nodes)
      /\ s # <<>>
      /\ Len(s) = n + 1
      /\ \A k \in 1 .. n : s[k] = q[k]
      /\ s[n + 1] = Stub
  BY EmptySeq, LenProperties, AppendProperties DEF Chain, ChainNodes, Nodes
<1>2. ~ Within(q, Stub) /\ \A k \in 1 .. n : q[k] # Stub
  BY DEF Chain, ChainPop, SelfExchange, Within
<1> HIDE DEF s, n
<1>3. ASSUME NEW x PROVE Within(s, x) <=> Within(q, x) \/ x = Stub
  BY <1>1 DEF Within, n
<1>4. ChainNodes(s)'
  <2>1. \A j, k \in 1 .. n + 1 : s[j] = s[k] => j = k
    BY <1>1, <1>2 DEF Chain, ChainNodes, n
  <2>2. \A i \in Items : i \notin free <=> Within(s, i)
    BY <1>3, QueueAssumption DEF Chain, ChainNodes
  <2>3. Within(s, Stub)
    BY <1>3
  <2> QED BY <2>1, <2>2, <2>3, <1>1 DEF Chain, ChainNodes, SelfExchange, Within, n
<1>5. /\ Linking' = Linking
      /\ UNCHANGED <<prev, item, next>>
      /\ cprev' = q[n]
      /\ cpc' = "selflink"
      /\ cpc # "selflink"
      /\ next[q[n]] = Null
      /\ next[Stub] = Null
      /\ back' = Stub
  BY <1>1, <1>2
  DEF Chain, ChainNodes, ChainLinks, Linking, SelfExchange, producerVars, n
<1>6. ChainLinks(s)'
  <2>1. ASSUME NEW k \in 1 .. n - 1
        PROVE  \/ next'[s[k]] = s[k + 1]
               \/ next'[s[k]] = Null /\ Pending(s[k], s[k + 1])'
    <3>1. s[k] = q[k] /\ s[k + 1] = q[k + 1]
      BY <1>1
    <3>2. Pending(q[k], q[k + 1]) => Pending(q[k], q[k + 1])'
      BY <1>5 DEF Pending
    <3> QED BY <3>1, <3>2, <1>5 DEF Chain, ChainLinks, n
  <2>2. next'[s[n]] = Null /\ Pending(s[n], s[n + 1])'
    BY <1>1, <1>5 DEF Pending
  <2> QED BY <2>1, <2>2, <1>1, <1>5 DEF ChainLinks
<1>7. ChainPushes(s)'
  <2>1. ASSUME NEW r \in Linking
        PROVE  \E k \in 1 .. n : prev[r] = s[k] /\ item[r] = s[k + 1] /\ next[s[k]] = Null
    <3>1. PICK k \in 1 .. n - 1 : prev[r] = q[k] /\ item[r] = q[k + 1] /\ next[q[k]] = Null
      BY DEF Chain, ChainPushes, n
    <3>2. k \in 1 .. n /\ k + 1 \in 1 .. n
      BY <1>1
    <3>3. s[k] = q[k] /\ s[k + 1] = q[k + 1]
      BY <1>1, <3>2
    <3> QED BY <3>1, <3>2, <3>3
  <2>2. \A r \in Linking : prev[r] # q[n]
    BY <1>1 DEF Chain, ChainNodes, ChainPushes, n
  <2>3. \E k \in 1 .. n : q[n] = s[k] /\ Stub = s[k + 1] /\ next[s[k]] = Null
    BY <1>1, <1>5
  <2> QED BY <2>1, <2>2, <2>3, <1>1, <1>5 DEF Chain, ChainPushes
<1>8. ChainPop(s)'
  BY <1>1, <1>3, <1>5, QueueAssumption
  DEF Chain, ChainNodes, ChainPop, SelfExchange, producerVars
<1> QED BY <1>1, <1>4, <1>6, <1>7, <1>8 DEF Chain, s

\* ... and links it.
LEMMA SelfLinkChain ==
  ASSUME QueueTypeOK, NEW q \in Seq(Nodes), Chain(q), SelfLink
  PROVE  Chain(q)'
<1>1. /\ Len(q) \in Nat \ {0}
      /\ q \in [1 .. Len(q) -> Nodes]
  BY EmptySeq, LenProperties DEF Chain, ChainNodes, Nodes
<1>2. PICK k \in 1 .. Len(q) - 1 : cprev = q[k] /\ Stub = q[k + 1] /\ next[q[k]] = Null
  BY DEF Chain, ChainPushes, SelfLink
<1>3. next' = [next EXCEPT ![q[k]] = q[k + 1]]
  BY <1>2 DEF SelfLink
<1>4. Within(q, Stub)
  BY <1>1, <1>2, k + 1 \in 1 .. Len(q) DEF Within
<1>5. ChainNodes(q)'
  BY <1>1, <1>3, <1>4
  DEF Chain, ChainNodes, Within, SelfLink, producerVars, QueueTypeOK, Nodes
<1>6. /\ Linking' = Linking
      /\ UNCHANGED <<prev, item, back>>
      /\ next'[q[k]] = q[k + 1]
      /\ \A j \in 1 .. Len(q) : j # k => next'[q[j]] = next[q[j]]
      /\ cpc = "selflink"
      /\ cpc' = "reread"
      /\ q[Len(q)] = back
  BY <1>1, <1>2, <1>3
  DEF Chain, ChainNodes, Linking, SelfLink, producerVars, QueueTypeOK, Nodes
<1>7. ChainLinks(q)'
  <2>1. next'[back] = Null
    BY <1>1, <1>6 DEF Chain, ChainLinks
  <2>2. ASSUME NEW j \in 1 .. Len(q) - 1
        PROVE  \/ next'[q[j]] = q[j + 1]
               \/ next'[q[j]] = Null /\ Pending(q[j], q[j + 1])'
    <3>1. CASE j = k
      BY <3>1, <1>6
    <3>2. CASE j # k
      <4>1. q[j] # q[k] /\ next'[q[j]] = next[q[j]]
        BY <3>2, <1>1, <1>6 DEF Chain, ChainNodes
      <4>2. Pending(q[j], q[j + 1]) => Pending(q[j], q[j + 1])'
        BY <4>1, <1>2, <1>6 DEF Pending
      <4> QED BY <4>1, <4>2 DEF Chain, ChainLinks
    <3> QED BY <3>1, <3>2
  <2> QED BY <2>1, <2>2, <1>6 DEF ChainLinks
<1>8. ChainPushes(q)'
  <2>1. ASSUME NEW r \in Linking
        PROVE  \E j \in 1 .. Len(q) - 1 : prev[r] = q[j] /\ item[r] = q[j + 1] /\ next'[q[j]] = Null
    <3>1. prev[r] # q[k]
      BY <1>2, <1>6 DEF Chain, ChainPushes
    <3>2. PICK j \in 1 .. Len(q) - 1 : prev[r] = q[j] /\ item[r] = q[j + 1] /\ next[q[j]] = Null
      BY DEF Chain, ChainPushes
    <3> QED BY <3>1, <3>2, <1>1, <1>6, SMTT(40)
  <2> QED BY <2>1, <1>6 DEF Chain, ChainPushes
<1>9. ChainPop(q)'
  BY <1>1, <1>4, <1>6 DEF Chain, ChainNodes, ChainPop, Within, SelfLink, producerVars
<1> QED BY <1>5, <1>7, <1>8, <1>9 DEF Chain

\* A step that leaves the memory of the queue alone.
LEMMA StillChain ==
  ASSUME NEW q \in Seq(Nodes), Chain(q),
         UNCHANGED <<next, back, free, front, producerVars>>,
         cpc # "selflink", cpc' # "selflink", ChainPop(q)'
  PROVE  Chain(q)'
<1>1. Linking' = Linking
  BY DEF Linking, producerVars
<1> QED BY <1>1 DEF Chain, ChainNodes, ChainLinks, ChainPushes, Within, Pending, producerVars

\* What the consumer does to the chain.
LEMMA PopStepChain ==
  ASSUME QueueTypeOK, NEW q \in Seq(Nodes), Chain(q), PopStep
  PROVE  \/ /\ Chain(q)'
            /\ UNCHANGED raced
            /\ \/ cpc' # "idle" /\ UNCHANGED <<free, result>>
               \/ cpc' = "idle" /\ result' = Null /\ UNCHANGED free /\ (raced \/ q = <<Stub>>)
         \/ /\ Tail(q) \in Seq(Nodes) /\ Chain(Tail(q))'
            /\ Head(q) = Stub
            /\ cpc' = "next"
            /\ UNCHANGED <<free, raced, result>>
         \/ /\ Tail(q) \in Seq(Nodes) /\ Chain(Tail(q))'
            /\ Head(q) = front /\ front \in Items
            /\ result' = front /\ free' = free \cup {front}
            /\ cpc' = "idle"
            /\ UNCHANGED raced
         \/ /\ Append(q, Stub) \in Seq(Nodes) /\ Chain(Append(q, Stub))'
            /\ ~ Within(q, Stub)
            /\ cpc' = "selflink"
            /\ UNCHANGED <<free, raced, result>>
<1>1. /\ Len(q) \in Nat \ {0}
      /\ q \in [1 .. Len(q) -> Nodes]
      /\ q[1] = front
      /\ q[Len(q)] = back
  BY EmptySeq, LenProperties DEF Chain, ChainNodes, Nodes
<1>2. ASSUME front = Stub, next[Stub] = Null PROVE q = <<Stub>> \/ raced \/ cpc = "idle"
  <2>1. CASE Len(q) = 1
    BY <2>1, <1>1, <1>2
  <2>2. CASE Len(q) # 1
    <3>1. 1 \in 1 .. Len(q) - 1 /\ next[q[1]] = Null /\ q[1 + 1] \in Nodes
      BY <2>2, <1>1, <1>2
    <3>2. Pending(q[1], q[1 + 1])
      BY <3>1, QueueAssumption DEF Chain, ChainLinks, Nodes
    <3>3. cpc # "selflink"
      BY <1>2 DEF Chain, ChainPop
    <3> QED BY <3>2, <3>3 DEF Pending, Chain, ChainPop
  <2> QED BY <2>1, <2>2
<1>3. ASSUME TakeFront, next[front] # Null, front # Stub, cpc \notin {"idle", "selflink"},
             UNCHANGED <<back, raced, producerVars>>
      PROVE  /\ Tail(q) \in Seq(Nodes) /\ Chain(Tail(q))'
             /\ Head(q) = front /\ front \in Items
             /\ result' = front /\ free' = free \cup {front}
             /\ cpc' = "idle"
             /\ UNCHANGED raced
  <2>1. front \in Items
    BY <1>3 DEF QueueTypeOK, Nodes
  <2>2. free' = free \cup ({front} \cap Items)
    BY <1>3, <2>1 DEF TakeFront
  <2> QED BY <1>3, <2>1, <2>2, AdvanceChain DEF TakeFront
<1>4. CASE CheckStub
  <2>1. CASE front = Stub /\ next[Stub] = Null
    <3>1. Chain(q)'
      BY <1>4, <2>1, StillChain DEF CheckStub, ReturnNothing, ChainPop
    <3> QED BY <1>4, <2>1, <1>2, <3>1 DEF CheckStub, ReturnNothing
  <2>2. CASE front = Stub /\ next[Stub] # Null
    <3>1. free' = free \cup ({front} \cap Items)
      BY <1>4, <2>2, QueueAssumption DEF CheckStub
    <3> QED BY <1>4, <2>2, <3>1, AdvanceChain DEF CheckStub
  <2>3. CASE front # Stub
    <3>1. ChainPop(q)'
      BY <1>4, <2>3 DEF CheckStub, Chain, ChainPop, Linking, producerVars
    <3>2. Chain(q)'
      BY <1>4, <2>3, <3>1, StillChain DEF CheckStub
    <3> QED BY <1>4, <2>3, <3>2 DEF CheckStub
  <2> QED BY <2>1, <2>2, <2>3
<1>5. CASE ReadNext
  <2>1. CASE next[front] # Null
    BY <1>5, <2>1, <1>3 DEF ReadNext, Chain, ChainPop
  <2>2. CASE next[front] = Null
    <3>1. ChainPop(q)'
      BY <1>5, <2>2 DEF ReadNext, Chain, ChainPop, Linking, producerVars
    <3>2. Chain(q)'
      BY <1>5, <2>2, <3>1, StillChain DEF ReadNext
    <3> QED BY <1>5, <2>2, <3>2 DEF ReadNext
  <2> QED BY <2>1, <2>2
<1>6. CASE LoadBack
  <2>1. CASE front # back
    <3>1. raced
      <4>1. CASE next[front] = Null
        <5>1. 1 \in 1 .. Len(q) - 1 /\ q[1 + 1] \in Nodes
          BY <2>1, <1>1
        <5>2. Pending(q[1], q[1 + 1])
          BY <4>1, <5>1, <1>1, QueueAssumption DEF Chain, ChainLinks, Nodes
        <5> QED BY <5>2, <1>6 DEF Pending, LoadBack, Chain, ChainPop
      <4> QED BY <4>1, <1>6 DEF LoadBack, Chain, ChainPop
    <3>2. Chain(q)'
      BY <1>6, <2>1, StillChain DEF LoadBack, ReturnNothing, ChainPop
    <3> QED BY <1>6, <2>1, <3>1, <3>2 DEF LoadBack, ReturnNothing
  <2>2. CASE front = back
    <3>1. ~ Within(q, Stub)
      <4>1. Len(q) = 1
        BY <2>2, <1>1 DEF Chain, ChainNodes
      <4> QED BY <4>1, <1>1, <1>6 DEF Within, Chain, ChainPop, LoadBack
    <3>2. ChainPop(q)'
      BY <1>6, <2>2, <3>1 DEF LoadBack, Chain, ChainPop, Linking, producerVars, Within
    <3>3. Chain(q)'
      BY <1>6, <2>2, <3>2, StillChain DEF LoadBack
    <3> QED BY <1>6, <2>2, <3>3 DEF LoadBack
  <2> QED BY <2>1, <2>2
<1>7. CASE SelfExchange
  BY <1>7, SelfExchangeChain DEF SelfExchange, Chain, ChainPop
<1>8. CASE SelfLink
  BY <1>8, SelfLinkChain DEF SelfLink
<1>9. CASE Reread
  <2>1. CASE next[front] # Null
    BY <1>9, <2>1, <1>3 DEF Reread, Chain, ChainPop
  <2>2. CASE next[front] = Null
    <3>1. raced
      <4>1. /\ Within(q, Stub)
            /\ front # Stub
        BY <1>9 DEF Reread, Chain, ChainPop
      <4>2. 1 \in 1 .. Len(q) - 1 /\ q[1 + 1] \in Nodes
        BY <4>1, <1>1 DEF Within
      <4>3. Pending(q[1], q[1 + 1])
        BY <2>2, <4>2, <1>1, QueueAssumption DEF Chain, ChainLinks, Nodes
      <4> QED BY <4>3, <1>9 DEF Pending, Reread, Chain, ChainPop
    <3>2. Chain(q)'
      BY <1>9, <2>2, StillChain DEF Reread, ReturnNothing, ChainPop
    <3> QED BY <1>9, <2>2, <3>1, <3>2 DEF Reread, ReturnNothing
  <2> QED BY <2>1, <2>2
<1> QED BY <1>4, <1>5, <1>6, <1>7, <1>8, <1>9 DEF PopStep

\* A pop() that begins notes whether a push is half done.
LEMMA PopCallChain ==
  ASSUME NEW q \in Seq(Nodes), Chain(q), PopCall
  PROVE  Chain(q)'
<1>1. ChainPop(q)'
  BY DEF PopCall, ChainPop, Linking, producerVars
<1> QED BY <1>1, StillChain DEF PopCall

LEMMA QueueUnchanged ==
  ASSUME UNCHANGED queueVars
  PROVE  /\ QueueTypeOK => QueueTypeOK'
         /\ \A q \in Seq(Nodes) : Chain(q) => Chain(q)'
<1> USE DEF queueVars, producerVars, consumerVars
<1>1. QueueTypeOK => QueueTypeOK'
  BY DEF QueueTypeOK
<1>2. ASSUME NEW q \in Seq(Nodes), Chain(q) PROVE Chain(q)'
  BY <1>2 DEF Chain, ChainNodes, ChainLinks, ChainPushes, ChainPop, Pending, Linking, Within
<1> QED BY <1>1, <1>2

LEMMA QueueStepInv ==
  ASSUME QueueInv, [QueueNext]_queueVars
  PROVE  QueueInv'
<1> USE DEF QueueInv
<1>0. PICK q \in Seq(Nodes) : Chain(q)
  OBVIOUS
<1>1. ASSUME NEW p \in Producers, NEW i \in Items, Exchange(p, i) PROVE QueueInv'
  BY <1>1, <1>0, ExchangeChain, QueueTypeStep DEF QueueNext, Nodes
<1>2. ASSUME NEW p \in Producers, Link(p) PROVE QueueInv'
  BY <1>2, <1>0, LinkChain, QueueTypeStep DEF QueueNext, Nodes
<1>3. CASE PopCall
  BY <1>3, <1>0, PopCallChain, QueueTypeStep DEF QueueNext, Nodes
<1>4. CASE PopStep
  BY <1>4, <1>0, PopStepChain, QueueTypeStep DEF QueueNext, Nodes
<1>5. CASE UNCHANGED queueVars
  BY <1>5, <1>0, QueueUnchanged
<1> QED BY <1>1, <1>2, <1>3, <1>4, <1>5 DEF QueueNext

-----------------------------------------------------------------------------
\* The contents of a chain.

LEMMA NodesFinite == IsFiniteSet(Nodes) /\ Cardinality(Nodes) \in Nat
<1>1. IsFiniteSet(Nodes)
  BY QueueAssumption, FS_AddElement DEF Nodes
<1> QED BY <1>1, FS_CardinalityType

\* One step of a walk.
Onward(succ, x) == IF x = Null THEN Null ELSE succ[x]

\* The function that Walk defines by recursion is the only one of its kind.
LEMMA WalkIs ==
  ASSUME NEW succ, NEW n, NEW f \in [0 .. Cardinality(Nodes) -> Nodes \cup {Null}],
         f[0] = n,
         \A k \in 1 .. Cardinality(Nodes) : f[k] = Onward(succ, f[k - 1])
  PROVE  Walk(succ, n) = f
<1> DEFINE N == Cardinality(Nodes)
           w == Walk(succ, n)
           E(g, k) == IF k = 0 THEN n ELSE Onward(succ, g[k - 1])
           D == {k \in 0 .. N : w[k] # f[k]}
<1>1. N \in Nat
  BY NodesFinite
<1>2. w = [k \in 0 .. N |-> E(w, k)]
  <2>1. ASSUME NEW k \in 0 .. N PROVE f[k] = E(f, k)
    <3>1. k = 0 \/ k \in 1 .. N
      BY <1>1
    <3>2. \A j \in 1 .. N : j # 0
      OBVIOUS
    <3> QED BY <3>1, <3>2
  <2> HIDE DEF E
  <2>2. f = [k \in 0 .. N |-> E(f, k)]
    BY <2>1, Zenon
  <2> QED BY <2>2, Zenon DEF E, Walk, Onward
<1> HIDE DEF w, N, D
<1>3. w[0] = n
  BY <1>1, <1>2
<1>4. \A k \in 1 .. N : w[k] = Onward(succ, w[k - 1])
  <2>1. \A k \in 1 .. N : k \in 0 .. N /\ k # 0
    BY <1>1
  <2> QED BY <1>2, <2>1, Zenon
<1>5. ASSUME D # {} PROVE FALSE
  <2>1. D \in SUBSET Nat
    BY <1>1 DEF D
  <2>2. PICK k \in D : \A j \in D : k <= j
    BY <1>5, <2>1, Least
  <2>3. k \in 1 .. N /\ w[k] # f[k]
    BY <1>1, <1>3 DEF D
  <2>4. w[k - 1] = f[k - 1]
    BY <1>1, <2>2, <2>3 DEF D
  <2>5. w[k] = Onward(succ, w[k - 1]) /\ f[k] = Onward(succ, f[k - 1])
    BY <1>4, <2>3, Zenon DEF N
  <2> QED BY <2>3, <2>4, <2>5
<1>6. \A k \in 0 .. N : w[k] = f[k]
  BY <1>5 DEF D
<1>7. w = [k \in 0 .. N |-> w[k]] /\ f = [k \in 0 .. N |-> f[k]]
  BY <1>2, Zenon DEF N
<1>8. w = f
  BY <1>6, <1>7, Zenon
<1> QED BY <1>8 DEF w

\* The items of a sequence of nodes: the stub is left out.
Unstubbed(q) ==
  [k \in 1 .. (IF Within(q, Stub) THEN Len(q) - 1 ELSE Len(q)) |->
     IF \E j \in 1 .. k : q[j] = Stub THEN q[k + 1] ELSE q[k]]

\* A walk of as many steps as there are nodes meets all of a chain.
LEMMA LenOfChain ==
  ASSUME NEW q \in Seq(Nodes), \A i, j \in 1 .. Len(q) : q[i] = q[j] => i = j
  PROVE  Len(q) \in 0 .. Cardinality(Nodes)
<1>1. Len(q) \in Nat /\ q \in [1 .. Len(q) -> Nodes]
  BY LenProperties
<1>2. q \in Injection(1 .. Len(q), Nodes)
  BY <1>1 DEF Injection, IsInjective
<1>3. Cardinality(1 .. Len(q)) <= Cardinality(Nodes)
  BY <1>2, NodesFinite, FS_Injection
<1>4. Cardinality(1 .. Len(q)) = Len(q)
  BY <1>1, FS_Interval, SMTT(40)
<1> QED BY <1>1, <1>3, <1>4, NodesFinite

\* succ leads from each node of q to the next one, and from the last one to Null.
Leads(succ, q) ==
  /\ q # <<>>
  /\ \A i, j \in 1 .. Len(q) : q[i] = q[j] => i = j
  /\ \A k \in 1 .. Len(q) - 1 : succ[q[k]] = q[k + 1]
  /\ succ[q[Len(q)]] = Null

\* A walk along a chain meets the items of the chain in their order.
LEMMA ItemsOfChain ==
  ASSUME NEW succ, NEW q \in Seq(Nodes), Leads(succ, q)
  PROVE  ItemsOnWalk(succ, q[1]) = Unstubbed(q)
<1> DEFINE N == Cardinality(Nodes)
           f == [k \in 0 .. N |-> IF k < Len(q) THEN q[k + 1] ELSE Null]
           w == Walk(succ, q[1])
           I == {j \in 0 .. N : w[j] \in Items}
           m == IF Within(q, Stub) THEN Len(q) - 1 ELSE Len(q)
<1>1. /\ Len(q) \in 1 .. N
      /\ N \in Nat
      /\ q \in [1 .. Len(q) -> Nodes]
  BY EmptySeq, LenProperties, LenOfChain, NodesFinite DEF Leads
<1>2. w = f
  <2>1. f[0] = q[1]
    BY <1>1
  <2>2. ASSUME NEW k \in 1 .. N PROVE f[k] = Onward(succ, f[k - 1])
    <3>1. CASE k \in 1 .. Len(q) - 1
      BY <1>1, <3>1, QueueAssumption DEF Leads, Nodes, Onward
    <3>2. CASE k = Len(q)
      BY <1>1, <3>2, QueueAssumption DEF Leads, Nodes, Onward
    <3>3. CASE k > Len(q)
      BY <1>1, <3>3 DEF Onward
    <3> HIDE DEF f, w, I, m, N
    <3>4. k \in 1 .. Len(q) - 1 \/ k = Len(q) \/ k > Len(q)
      <4>1. k \in Nat \ {0} /\ Len(q) \in Nat
        BY <1>1
      <4> QED BY <4>1
    <3> QED BY <3>1, <3>2, <3>3, <3>4
  <2>3. f \in [0 .. N -> Nodes \cup {Null}]
    BY <1>1
  <2> HIDE DEF f
  <2>5. Walk(succ, q[1]) = f
    BY <2>1, <2>2, <2>3, WalkIs, ZenonT(60)
  <2> QED BY <2>5
<1> HIDE DEF w
<1>3. I = {j \in 0 .. Len(q) - 1 : q[j + 1] # Stub}
  BY <1>1, <1>2, QueueAssumption DEF Nodes
<1>4. Cardinality(I) = m
  <2>1. Cardinality(0 .. Len(q) - 1) = Len(q) /\ IsFiniteSet(0 .. Len(q) - 1)
    <3> DEFINE l == Len(q) - 1
    <3>1. 0 \in Int /\ l \in Int /\ 0 <= l /\ l - 0 + 1 = Len(q)
      BY <1>1
    <3> HIDE DEF l
    <3>2. IsFiniteSet(0 .. l) /\ Cardinality(0 .. l) = IF 0 > l THEN 0 ELSE l - 0 + 1
      BY <3>1, FS_Interval
    <3> QED BY <3>1, <3>2 DEF l
  <2>2. CASE ~ Within(q, Stub)
    <3>1. I = 0 .. Len(q) - 1
      BY <1>1, <1>3, <2>2 DEF Within
    <3> QED BY <3>1, <2>1, <2>2
  <2>3. CASE Within(q, Stub)
    <3>1. PICK k \in 1 .. Len(q) : q[k] = Stub
      BY <2>3 DEF Within
    <3>2. \A j \in 0 .. Len(q) - 1 : q[j + 1] = Stub <=> j = k - 1
      BY <3>1, <1>1 DEF Leads
    <3>3. I = (0 .. Len(q) - 1) \ {k - 1} /\ k - 1 \in 0 .. Len(q) - 1
      BY <3>1, <3>2, <1>1, <1>3
    <3> HIDE DEF I
    <3>4. Cardinality((0 .. Len(q) - 1) \ {k - 1}) = Len(q) - 1
      BY <3>3, <2>1, FS_RemoveElement, ZenonT(60)
    <3> QED BY <3>3, <3>4, <2>3
  <2> QED BY <2>2, <2>3
<1>5. DOMAIN w = 0 .. N
  BY <1>2
<1> DEFINE A(k) == IF \E j \in 0 .. k - 1 : w[j] = Stub THEN w[k] ELSE w[k - 1]
           B(k) == IF \E j \in 1 .. k : q[j] = Stub THEN q[k + 1] ELSE q[k]
<1>6. ItemsOnWalk(succ, q[1]) = [k \in 1 .. m |-> A(k)]
  <2> HIDE DEF I, m, f, N
  <2>1. {j \in DOMAIN w : w[j] \in Items} = I
    BY <1>5 DEF I
  <2>2. Cardinality({j \in DOMAIN w : w[j] \in Items}) = m
    BY <2>1, <1>4
  <2> QED BY <2>2, Zenon DEF ItemsOnWalk, w
<1>7. ASSUME NEW k \in 1 .. m PROVE A(k) = B(k)
  <2>1. k \in 1 .. Len(q) /\ w[k - 1] = q[k]
    BY <1>1, <1>2
  <2>2. (\E j \in 0 .. k - 1 : w[j] = Stub) <=> (\E j \in 1 .. k : q[j] = Stub)
    <3>1. \A j \in 0 .. k - 1 : j + 1 \in 1 .. k /\ w[j] = q[j + 1]
      BY <1>1, <1>2, <2>1
    <3>2. \A j \in 1 .. k : j - 1 \in 0 .. k - 1 /\ w[j - 1] = q[j]
      BY <1>1, <1>2, <2>1
    <3> QED BY <3>1, <3>2
  <2>3. ASSUME \E j \in 1 .. k : q[j] = Stub PROVE w[k] = q[k + 1]
    <3>1. k < Len(q)
      BY <2>1, <2>3, <1>1 DEF Within
    <3> QED BY <3>1, <1>1, <1>2
  <2> QED BY <2>1, <2>2, <2>3
<1>8. Unstubbed(q) = [k \in 1 .. m |-> B(k)]
  BY DEF Unstubbed
<1> HIDE DEF m, A, B
<1> QED BY <1>6, <1>7, <1>8, Zenon

\* The contents of the refinement are the items of any chain there is.
ContentsKnown == \A q \in Seq(Nodes) : Chain(q) => Contents = Unstubbed(q)

LEMMA ContentsOfChain == ContentsKnown
<1> SUFFICES ASSUME NEW q \in Seq(Nodes), Chain(q) PROVE Contents = Unstubbed(q)
  BY DEF ContentsKnown
<1>1. /\ Len(q) \in Nat \ {0}
      /\ q \in [1 .. Len(q) -> Nodes]
      /\ q[1] = front
      /\ q[Len(q)] = back
      /\ q # <<>>
      /\ \A i, j \in 1 .. Len(q) : q[i] = q[j] => i = j
  BY EmptySeq, LenProperties DEF Chain, ChainNodes
<1>2. ASSUME NEW k \in 1 .. Len(q) - 1 PROVE Successor[q[k]] = q[k + 1]
  <2>1. q[k] \in Nodes /\ q[k + 1] \in Nodes /\ q[k + 1] # Null
    BY <1>1, QueueAssumption DEF Nodes
  <2>2. CASE next[q[k]] = q[k + 1]
    BY <2>1, <2>2 DEF Successor
  <2>3. ASSUME next[q[k]] = Null, NEW p \in Linking, prev[p] = q[k], item[p] = q[k + 1]
        PROVE  Successor[q[k]] = q[k + 1]
    <3>1. (CHOOSE r \in Linking : prev[r] = q[k]) = p
      BY <2>3 DEF Chain, ChainPushes
    <3> QED BY <2>1, <2>3, <3>1 DEF Successor
  <2>4. ASSUME next[q[k]] = Null, cpc = "selflink", cprev = q[k], q[k + 1] = Stub
        PROVE  Successor[q[k]] = q[k + 1]
    <3>1. \A p \in Linking : prev[p] # q[k]
      BY <2>4 DEF Chain, ChainPushes
    <3> QED BY <2>1, <2>4, <3>1 DEF Successor
  <2> QED BY <2>2, <2>3, <2>4 DEF Chain, ChainLinks, Pending
<1>3. Successor[q[Len(q)]] = Null
  <2>1. \A k \in 1 .. Len(q) - 1 : q[k] # q[Len(q)]
    BY <1>1
  <2>2. \A p \in Linking : prev[p] # q[Len(q)]
    BY <2>1 DEF Chain, ChainPushes
  <2>3. cpc = "selflink" => cprev # q[Len(q)]
    BY <2>1 DEF Chain, ChainPushes
  <2>4. q[Len(q)] \in Nodes /\ next[q[Len(q)]] = Null
    BY <1>1 DEF Chain, ChainLinks
  <2> QED BY <2>2, <2>3, <2>4 DEF Successor
<1>4. Leads(Successor, q)
  BY <1>1, <1>2, <1>3 DEF Leads
<1> QED BY <1>1, <1>4, ItemsOfChain DEF Contents

\* The stub is at place a of q, or at none if a is beyond its end.
StubAt(q, a) ==
  /\ a \in 1 .. Len(q) + 1
  /\ \A k \in 1 .. Len(q) : q[k] = Stub <=> k = a

\* Without the stub, what is behind it moves up by one.
LEMMA UnstubbedLeavesOut ==
  ASSUME NEW q \in Seq(Nodes), NEW a, StubAt(q, a)
  PROVE  /\ Unstubbed(q) \in Seq(Items)
         /\ Len(Unstubbed(q)) = IF a = Len(q) + 1 THEN Len(q) ELSE Len(q) - 1
         /\ \A k \in 1 .. Len(Unstubbed(q)) : Unstubbed(q)[k] = IF k < a THEN q[k] ELSE q[k + 1]
<1> DEFINE n == Len(q)
           m == IF Within(q, Stub) THEN n - 1 ELSE n
           u == Unstubbed(q)
<1>1. n \in Nat /\ q \in [1 .. n -> Nodes] /\ a \in 1 .. n + 1
  BY LenProperties DEF StubAt
<1>2. m = IF a = n + 1 THEN n ELSE n - 1
  BY <1>1 DEF Within, StubAt
<1> HIDE DEF m
<1>3. ASSUME NEW k \in 1 .. m
      PROVE  (IF \E j \in 1 .. k : q[j] = Stub THEN q[k + 1] ELSE q[k])
             = (IF k < a THEN q[k] ELSE q[k + 1])
  BY <1>1, <1>2 DEF StubAt
<1>4. u = [k \in 1 .. m |-> IF k < a THEN q[k] ELSE q[k + 1]]
  BY <1>3 DEF Unstubbed, m
<1>5. \A k \in 1 .. m : IF k < a THEN q[k] \in Items ELSE q[k + 1] \in Items
  BY <1>1, <1>2 DEF Nodes, StubAt
<1> HIDE DEF u
<1>6. m \in Nat
  BY <1>1, <1>2
<1>7. u \in Seq(Items) /\ Len(u) = m
  BY <1>4, <1>5, <1>6
<1> QED BY <1>2, <1>4, <1>7 DEF u

LEMMA StubSomewhere ==
  ASSUME NEW q \in Seq(Nodes), \A i, j \in 1 .. Len(q) : q[i] = q[j] => i = j
  PROVE  /\ \E a \in 1 .. Len(q) + 1 : StubAt(q, a)
         /\ ~ Within(q, Stub) => StubAt(q, Len(q) + 1)
<1>1. Len(q) \in Nat
  BY LenProperties
<1>2. CASE ~ Within(q, Stub)
  <2>1. StubAt(q, Len(q) + 1)
    BY <1>1, <1>2 DEF StubAt, Within
  <2> QED BY <2>1, <1>1
<1>3. ASSUME NEW a \in 1 .. Len(q), q[a] = Stub PROVE StubAt(q, a) /\ a \in 1 .. Len(q) + 1
  BY <1>1, <1>3 DEF StubAt
<1> QED BY <1>2, <1>3 DEF Within

\* Nothing else is left out, and nothing is there twice.
LEMMA UnstubbedItems ==
  ASSUME NEW q \in Seq(Nodes), \A i, j \in 1 .. Len(q) : q[i] = q[j] => i = j
  PROVE  /\ Unstubbed(q) \in Seq(Items)
         /\ \A j, k \in 1 .. Len(Unstubbed(q)) : Unstubbed(q)[j] = Unstubbed(q)[k] => j = k
         /\ \A i \in Items : Within(q, i) <=> Within(Unstubbed(q), i)
<1> DEFINE n == Len(q)
           u == Unstubbed(q)
           m == Len(u)
<1>1. PICK a \in 1 .. n + 1 : StubAt(q, a)
  BY StubSomewhere
<1>2. /\ u \in Seq(Items)
      /\ m = IF a = n + 1 THEN n ELSE n - 1
      /\ \A k \in 1 .. m : u[k] = IF k < a THEN q[k] ELSE q[k + 1]
  BY <1>1, UnstubbedLeavesOut
<1>3. n \in Nat /\ m \in Nat
  BY <1>2, LenProperties
<1> HIDE DEF u, m
<1>4. \A j, k \in 1 .. m : u[j] = u[k] => j = k
  BY <1>1, <1>2, <1>3
<1>5. ASSUME NEW i \in Items PROVE Within(q, i) <=> \E k \in 1 .. m : u[k] = i
  <2>1. ASSUME NEW k \in 1 .. n, q[k] = i PROVE \E j \in 1 .. m : u[j] = i
    <3>1. CASE k < a
      <4>1. k \in 1 .. m /\ u[k] = i
        BY <2>1, <3>1, <1>1, <1>2, <1>3
      <4> QED BY <4>1
    <3>2. CASE k > a
      <4>1. k - 1 \in 1 .. m /\ u[k - 1] = i
        BY <2>1, <3>2, <1>1, <1>2, <1>3
      <4> QED BY <4>1
    <3>3. k # a
      BY <2>1, <1>1, QueueAssumption DEF StubAt
    <3> QED BY <3>1, <3>2, <3>3, <1>1
  <2>2. ASSUME NEW j \in 1 .. m, u[j] = i PROVE Within(q, i)
    <3>1. CASE j < a
      BY <2>2, <3>1, <1>1, <1>2, <1>3 DEF Within
    <3>2. CASE j >= a
      <4>1. j + 1 \in 1 .. n /\ q[j + 1] = i
        BY <2>2, <3>2, <1>1, <1>2, <1>3
      <4> QED BY <4>1 DEF Within
    <3> QED BY <3>1, <3>2, <1>1, <1>3
  <2> QED BY <2>1, <2>2 DEF Within
<1> QED BY <1>2, <1>4, <1>5 DEF u, m, Within

LEMMA UnstubbedNothing == Unstubbed(<<Stub>>) = <<>>
<1>1. PICK q : q = <<Stub>>
  OBVIOUS
<1>2. q \in Seq(Nodes) /\ Len(q) = 1 /\ q[1] = Stub
  BY <1>1 DEF Nodes
<1>3. StubAt(q, 1)
  BY <1>2 DEF StubAt
<1>4. /\ Unstubbed(q) \in Seq(Items)
      /\ Len(Unstubbed(q)) = IF 1 = Len(q) + 1 THEN Len(q) ELSE Len(q) - 1
  BY <1>2, <1>3, UnstubbedLeavesOut
<1>5. Len(Unstubbed(q)) = 0
  BY <1>2, <1>4
<1> QED BY <1>1, <1>4, <1>5, EmptySeq

\* The items of a chain follow the changes of the chain.
LEMMA UnstubbedAppend ==
  ASSUME NEW q \in Seq(Nodes), \A i, j \in 1 .. Len(q) : q[i] = q[j] => i = j
  PROVE  /\ \A i \in Items : Unstubbed(Append(q, i)) = Append(Unstubbed(q), i)
         /\ ~ Within(q, Stub) => Unstubbed(Append(q, Stub)) = Unstubbed(q)
<1> DEFINE n == Len(q)
           u == Unstubbed(q)
<1>1. PICK a \in 1 .. n + 1 : StubAt(q, a)
  BY StubSomewhere
<1>2. /\ u \in Seq(Items)
      /\ Len(u) = IF a = n + 1 THEN n ELSE n - 1
      /\ \A k \in 1 .. Len(u) : u[k] = IF k < a THEN q[k] ELSE q[k + 1]
  BY <1>1, UnstubbedLeavesOut
<1>3. n \in Nat /\ Len(u) \in Nat
  BY <1>2, LenProperties
<1> HIDE DEF u
<1>4. ASSUME NEW i \in Items PROVE Unstubbed(Append(q, i)) = Append(u, i)
  <2> DEFINE s == Append(q, i)
             b == IF a = n + 1 THEN n + 2 ELSE a
             v == Unstubbed(s)
             t == Append(u, i)
  <2>1. /\ s \in Seq(Nodes)
        /\ Len(s) = n + 1
        /\ \A k \in 1 .. n : s[k] = q[k]
        /\ s[n + 1] = i
    BY AppendProperties DEF Nodes
  <2>2. /\ t \in Seq(Items)
        /\ Len(t) = Len(u) + 1
        /\ \A k \in 1 .. Len(u) : t[k] = u[k]
        /\ t[Len(u) + 1] = i
    BY <1>2, AppendProperties
  <2> HIDE DEF s, t
  <2>3. StubAt(s, b)
    BY <2>1, <1>1, <1>3, QueueAssumption DEF StubAt
  <2>4. /\ v \in Seq(Items)
        /\ Len(v) = IF b = Len(s) + 1 THEN Len(s) ELSE Len(s) - 1
        /\ \A k \in 1 .. Len(v) : v[k] = IF k < b THEN s[k] ELSE s[k + 1]
    BY <2>1, <2>3, UnstubbedLeavesOut
  <2> HIDE DEF v
  <2>5. Len(v) = Len(t)
    BY <2>1, <2>2, <2>4, <1>1, <1>2, <1>3
  <2>6. ASSUME NEW k \in 1 .. Len(v) PROVE v[k] = t[k]
    <3>1. CASE k = Len(u) + 1
      BY <3>1, <2>1, <2>2, <2>4, <1>1, <1>2, <1>3
    <3>2. CASE k \in 1 .. Len(u)
      BY <3>2, <2>1, <2>2, <2>4, <1>1, <1>2, <1>3
    <3> QED BY <3>1, <3>2, <2>2, <2>5, <1>3
  <2> QED BY <2>2, <2>4, <2>5, <2>6, SeqEqual DEF v, s, t
<1>5. ASSUME ~ Within(q, Stub) PROVE Unstubbed(Append(q, Stub)) = u
  <2> DEFINE s == Append(q, Stub)
             v == Unstubbed(s)
  <2>1. /\ s \in Seq(Nodes)
        /\ Len(s) = n + 1
        /\ \A k \in 1 .. n : s[k] = q[k]
        /\ s[n + 1] = Stub
    BY AppendProperties DEF Nodes
  <2>2. a = n + 1
    BY <1>1, <1>3, <1>5 DEF StubAt, Within
  <2> HIDE DEF s
  <2>3. StubAt(s, n + 1)
    BY <2>1, <2>2, <1>1, <1>3 DEF StubAt
  <2>4. /\ v \in Seq(Items)
        /\ Len(v) = IF n + 1 = Len(s) + 1 THEN Len(s) ELSE Len(s) - 1
        /\ \A k \in 1 .. Len(v) : v[k] = IF k < n + 1 THEN s[k] ELSE s[k + 1]
    BY <2>1, <2>3, UnstubbedLeavesOut
  <2> HIDE DEF v
  <2>5. Len(v) = Len(u) /\ \A k \in 1 .. Len(v) : v[k] = u[k]
    BY <2>1, <2>2, <2>4, <1>2, <1>3
  <2> QED BY <2>4, <2>5, <1>2, SeqEqual DEF v, s
<1> QED BY <1>4, <1>5 DEF u

LEMMA UnstubbedTail ==
  ASSUME NEW q \in Seq(Nodes), q # <<>>, \A i, j \in 1 .. Len(q) : q[i] = q[j] => i = j
  PROVE  /\ Head(q) = Stub => Unstubbed(Tail(q)) = Unstubbed(q)
         /\ Head(q) # Stub => /\ Unstubbed(q) # <<>>
                              /\ Unstubbed(Tail(q)) = Tail(Unstubbed(q))
                              /\ Head(Unstubbed(q)) = Head(q)
<1> DEFINE n == Len(q)
           u == Unstubbed(q)
           s == Tail(q)
           v == Unstubbed(s)
<1>1. PICK a \in 1 .. n + 1 : StubAt(q, a)
  BY StubSomewhere
<1>2. /\ u \in Seq(Items)
      /\ Len(u) = IF a = n + 1 THEN n ELSE n - 1
      /\ \A k \in 1 .. Len(u) : u[k] = IF k < a THEN q[k] ELSE q[k + 1]
  BY <1>1, UnstubbedLeavesOut
<1>3. n \in Nat \ {0} /\ Len(u) \in Nat
  BY <1>2, LenProperties, EmptySeq
<1>4. /\ s \in Seq(Nodes)
      /\ Len(s) = n - 1
      /\ \A k \in 1 .. n - 1 : s[k] = q[k + 1]
      /\ Head(q) = q[1]
  BY HeadTailProperties
<1> DEFINE b == IF a = 1 THEN n ELSE a - 1
<1> HIDE DEF u, s
<1>5. StubAt(s, b)
  BY <1>1, <1>3, <1>4 DEF StubAt
<1>6. /\ v \in Seq(Items)
      /\ Len(v) = IF b = Len(s) + 1 THEN Len(s) ELSE Len(s) - 1
      /\ \A k \in 1 .. Len(v) : v[k] = IF k < b THEN s[k] ELSE s[k + 1]
  BY <1>4, <1>5, UnstubbedLeavesOut
<1> HIDE DEF v
<1>7. Head(q) = Stub <=> a = 1
  BY <1>1, <1>3, <1>4 DEF StubAt
<1>8. ASSUME a = 1 PROVE v = u
  <2>1. Len(v) = Len(u) /\ \A k \in 1 .. Len(v) : v[k] = u[k]
    BY <1>1, <1>2, <1>3, <1>4, <1>6, <1>8
  <2> QED BY <2>1, <1>2, <1>6, SeqEqual
<1>9. ASSUME a # 1 PROVE u # <<>> /\ v = Tail(u) /\ Head(u) = Head(q)
  <2>1. Len(u) # 0
    BY <1>1, <1>2, <1>3, <1>9
  <2>2. u # <<>>
    BY <2>1
  <2>3. /\ Tail(u) \in Seq(Items)
        /\ Len(Tail(u)) = Len(u) - 1
        /\ \A k \in 1 .. Len(Tail(u)) : Tail(u)[k] = u[k + 1]
        /\ Head(u) = u[1]
    BY <2>2, <1>2, HeadTailProperties
  <2>4. Len(v) = Len(Tail(u)) /\ \A k \in 1 .. Len(v) : v[k] = u[k + 1]
    BY <2>1, <2>3, <1>1, <1>2, <1>3, <1>4, <1>6, <1>9, SMTT(40)
  <2>5. v = Tail(u)
    BY <2>3, <2>4, <1>6, SeqEqual
  <2>6. Head(u) = Head(q)
    BY <2>1, <2>3, <1>1, <1>2, <1>3, <1>4, <1>9
  <2> QED BY <2>2, <2>5, <2>6
<1> QED BY <1>7, <1>8, <1>9 DEF u, v, s

-----------------------------------------------------------------------------
\* What the invariant says of the memory.

LEMMA InvChainIsContents == QueueInv /\ ContentsKnown => ChainIsContents
<1> SUFFICES ASSUME QueueInv, ContentsKnown PROVE ChainIsContents
  OBVIOUS
<1>1. PICK q \in Seq(Nodes) : Chain(q)
  BY DEF QueueInv
<1>2. Contents = Unstubbed(q)
  BY <1>1 DEF ContentsKnown
<1>3. /\ Contents \in Seq(Items)
      /\ \A j, k \in 1 .. Len(Contents) : Contents[j] = Contents[k] => j = k
      /\ \A i \in Items : i \notin free <=> Within(Contents, i)
  BY <1>1, <1>2, UnstubbedItems DEF Chain, ChainNodes
<1> HIDE DEF Contents
<1>4. /\ Len(Contents) \in Nat
      /\ Contents \in [1 .. Len(Contents) -> Items]
      /\ DOMAIN Contents = 1 .. Len(Contents)
  BY <1>3, LenProperties
<1>5. {Contents[k] : k \in DOMAIN Contents} = Items \ free
  BY <1>3, <1>4 DEF Within
<1>6. Contents \in Bijection(1 .. Len(Contents), Items \ free)
  BY <1>3, <1>4 DEF Within, Bijection, Injection, Surjection, IsInjective
<1>7. Cardinality(Items \ free) = Len(Contents)
  BY <1>4, <1>6, FS_CountingElements DEF ExistsBijection
<1> QED BY <1>5, <1>7 DEF ChainIsContents

LEMMA InvQueueShape == QueueInv /\ ContentsKnown => QueueShape
<1> SUFFICES ASSUME QueueInv, ContentsKnown PROVE QueueShape
  OBVIOUS
<1> USE DEF QueueInv
<1>1. PICK q \in Seq(Nodes) : Chain(q)
  OBVIOUS
<1>2. /\ Len(q) \in Nat \ {0}
      /\ q \in [1 .. Len(q) -> Nodes]
      /\ q[1] = front
      /\ q[Len(q)] = back
      /\ q # <<>>
      /\ \A i, j \in 1 .. Len(q) : q[i] = q[j] => i = j
  BY <1>1, EmptySeq, LenProperties DEF Chain, ChainNodes
<1>3. LinkTargetsLive
  <2> SUFFICES ASSUME NEW p \in Linking
               PROVE  item[p] \notin free /\ prev[p] \notin free /\ next[prev[p]] = Null
    BY DEF LinkTargetsLive
  <2>1. PICK k \in 1 .. Len(q) - 1 : prev[p] = q[k] /\ item[p] = q[k + 1] /\ next[q[k]] = Null
    BY <1>1 DEF Chain, ChainPushes
  <2>2. Within(q, item[p]) /\ Within(q, prev[p])
    BY <2>1, <1>2, k \in 1 .. Len(q), k + 1 \in 1 .. Len(q) DEF Within
  <2> QED BY <2>1, <2>2, <1>1 DEF Chain, ChainNodes, QueueTypeOK
<1>4. StubAsserts
  <2>1. cpc = "self" => /\ ~ Within(q, Stub)
                        /\ next[Stub] = Null
    BY <1>1 DEF Chain, ChainNodes, ChainPop
  <2>2. cpc = "self" => back # Stub
    BY <2>1, <1>2 DEF Within
  <2>3. cpc = "self" => \A p \in Linking : prev[p] # Stub
    <3> SUFFICES ASSUME cpc = "self", NEW p \in Linking, prev[p] = Stub PROVE FALSE
      OBVIOUS
    <3>1. PICK k \in 1 .. Len(q) - 1 : prev[p] = q[k]
      BY <1>1 DEF Chain, ChainPushes
    <3> QED BY <3>1, <2>1, <1>2, k \in 1 .. Len(q) DEF Within
  <2> QED BY <2>1, <2>2, <2>3, <1>1 DEF StubAsserts, Chain, ChainPop
<1>5. QuiescentShape
  <2> SUFFICES ASSUME Linking = {}, cpc = "idle"
               PROVE  /\ Size = Cardinality(Items \ free)
                      /\ free = Items => front = Stub /\ back = Stub /\ next[Stub] = Null
    BY DEF QuiescentShape
  <2>1. \A k \in 1 .. Len(q) - 1 : next[q[k]] = q[k + 1]
    BY <1>1 DEF Chain, ChainLinks, Pending
  <2>2. next[q[Len(q)]] = Null
    BY <1>1, <1>2 DEF Chain, ChainLinks
  <2>3. Leads(next, q)
    BY <2>1, <2>2, <1>2 DEF Leads
  <2>4. Size = Len(Contents)
    BY <2>3, <1>1, <1>2, ItemsOfChain DEF ContentsKnown, Size
  <2>5. Len(Contents) = Cardinality(Items \ free)
    BY InvChainIsContents DEF ChainIsContents
  <2>6. ASSUME free = Items PROVE front = Stub /\ back = Stub /\ next[Stub] = Null
    <3>1. \A i \in Items : ~ Within(q, i)
      BY <2>6, <1>1 DEF Chain, ChainNodes
    <3>2. \A k \in 1 .. Len(q) : q[k] = Stub
      BY <3>1, <1>2 DEF Within, Nodes
    <3> QED BY <3>2, <1>2, <2>2
  <2> QED BY <2>4, <2>5, <2>6
<1> QED BY <1>3, <1>4, <1>5 DEF QueueShape

-----------------------------------------------------------------------------
\* The refinement, and what else the streams need to know.

\* A pop() returns nothing only if the queue is empty or it ran into a push that was
\* half done, and otherwise an item that is given back.
LEMMA PopStepEffect ==
  ASSUME QueueInv, PopStep
  PROVE  /\ UNCHANGED <<raced, ppc>>
         /\ cpc # "idle"
         /\ \/ cpc' # "idle" /\ UNCHANGED <<free, result>>
            \/ /\ cpc' = "idle"
               /\ result' = Null
               /\ UNCHANGED free
               /\ raced \/ free = Items
            \/ /\ cpc' = "idle"
               /\ \E i \in Items \ free : result' = i /\ free' = free \cup {i}
<1>1. PICK q \in Seq(Nodes) : Chain(q)
  BY DEF QueueInv
<1>2. QueueTypeOK /\ q # <<>>
  BY <1>1 DEF QueueInv, Chain, ChainNodes
<1>3. UNCHANGED ppc /\ cpc # "idle"
  BY DEF PopStep, CheckStub, ReadNext, LoadBack, SelfExchange, SelfLink, Reread, producerVars
<1>4. q = <<Stub>> => free = Items
  <2>1. q = <<Stub>> => \A i \in Items : ~ Within(q, i)
    BY QueueAssumption DEF Within
  <2> QED BY <2>1, <1>1, <1>2 DEF Chain, ChainNodes, QueueTypeOK
<1>5. front \in Items => front \in Items \ free
  <2>1. Within(q, front)
    BY <1>1, EmptySeq DEF Within, Chain, ChainNodes
  <2> QED BY <2>1, <1>1 DEF Chain, ChainNodes
<1> QED BY <1>1, <1>2, <1>3, <1>4, <1>5, PopStepChain

\* Every step is one of the abstract queue: an exchange puts the item in, the step that
\* takes the front out returns it.
LEMMA FifoInitOK == QueueInit /\ ContentsKnown => Fifo!FifoInit
<1> SUFFICES ASSUME QueueInit, ContentsKnown PROVE Fifo!FifoInit
  OBVIOUS
<1>1. Chain(<<Stub>>) /\ <<Stub>> \in Seq(Nodes)
  BY QueueInitChain
<1>2. Contents = Unstubbed(<<Stub>>)
  BY <1>1 DEF ContentsKnown
<1>3. Contents = <<>>
  BY <1>2, UnstubbedNothing
<1> HIDE DEF Contents
<1> QED BY <1>3 DEF Fifo!FifoInit, QueueInit, Linking

LEMMA FifoStepOK ==
  ASSUME QueueInv, ContentsKnown, ContentsKnown', [QueueNext]_queueVars
  PROVE  [Fifo!FifoNext]_(Fifo!fifoVars)
<1>0. PICK q \in Seq(Nodes) : Chain(q)
  BY DEF QueueInv
<1>1. /\ Contents = Unstubbed(q)
      /\ \A s \in Seq(Nodes) : Chain(s)' => Contents' = Unstubbed(s)
  BY <1>0 DEF ContentsKnown
<1>2. /\ q # <<>>
      /\ \A i, j \in 1 .. Len(q) : q[i] = q[j] => i = j
      /\ \A i \in Items : i \notin free <=> \E k \in DOMAIN Contents : Contents[k] = i
  <2>1. /\ q # <<>>
        /\ \A i, j \in 1 .. Len(q) : q[i] = q[j] => i = j
        /\ \A i \in Items : i \notin free <=> Within(q, i)
    BY <1>0 DEF Chain, ChainNodes
  <2>2. Contents \in Seq(Items) /\ \A i \in Items : Within(q, i) <=> Within(Contents, i)
    BY <2>1, <1>1, UnstubbedItems
  <2> QED BY <2>1, <2>2 DEF Within
<1> HIDE DEF Contents
<1>3. ASSUME NEW p \in Producers, NEW i \in Items, Exchange(p, i)
      PROVE  Fifo!BeginPush(p, i)
  <2>1. Contents' = Append(Contents, i)
    BY <1>0, <1>1, <1>2, <1>3, ExchangeChain, UnstubbedAppend DEF QueueInv
  <2>2. ~ Fifo!InQueue(i)
    BY <1>2, <1>3 DEF Exchange, Fifo!InQueue
  <2>3. p \notin Linking /\ Linking' = Linking \cup {p}
    BY <1>3 DEF Exchange, Linking, QueueInv, QueueTypeOK
  <2> QED BY <2>1, <2>2, <2>3, <1>3 DEF Fifo!BeginPush, Exchange, consumerVars
<1>4. ASSUME NEW p \in Producers, Link(p) PROVE Fifo!EndPush(p)
  <2>1. Contents' = Contents
    BY <1>0, <1>1, <1>4, LinkChain DEF QueueInv
  <2>2. p \in Linking /\ Linking' = Linking \ {p}
    BY <1>4 DEF Link, Linking, QueueInv, QueueTypeOK
  <2> QED BY <2>1, <2>2, <1>4 DEF Fifo!EndPush, Link, consumerVars
<1>5. ASSUME PopCall PROVE Fifo!BeginPop
  <2>1. Contents' = Contents
    BY <1>0, <1>1, <1>5, PopCallChain
  <2> QED BY <2>1, <1>5 DEF Fifo!BeginPop, PopCall, Linking, producerVars
<1>6. ASSUME PopStep PROVE Fifo!PopItem \/ Fifo!PopNothing \/ UNCHANGED Fifo!fifoVars
  <2>1. Linking' = Linking /\ cpc # "idle"
    BY <1>6, PopStepEffect DEF Linking
  <2>2. CASE /\ Chain(q)'
             /\ UNCHANGED raced
             /\ cpc' # "idle" /\ UNCHANGED <<free, result>>
    <3>1. Contents' = Contents
      BY <1>1, <2>2
    <3> QED BY <3>1, <2>1, <2>2 DEF Fifo!fifoVars
  <2>3. CASE /\ Chain(q)'
             /\ UNCHANGED raced
             /\ cpc' = "idle" /\ result' = Null /\ UNCHANGED free
             /\ raced \/ q = <<Stub>>
    <3>1. Contents' = Contents
      BY <1>1, <2>3
    <3>2. q = <<Stub>> => Contents = <<>>
      BY <1>1, UnstubbedNothing
    <3> QED BY <3>1, <3>2, <2>1, <2>3 DEF Fifo!PopNothing
  <2>4. CASE /\ Tail(q) \in Seq(Nodes) /\ Chain(Tail(q))'
             /\ Head(q) = Stub
             /\ cpc' = "next"
             /\ UNCHANGED <<free, raced, result>>
    <3>1. Contents' = Contents
      BY <1>1, <1>2, <2>4, UnstubbedTail
    <3> QED BY <3>1, <2>1, <2>4 DEF Fifo!fifoVars
  <2>5. CASE /\ Tail(q) \in Seq(Nodes) /\ Chain(Tail(q))'
             /\ Head(q) = front /\ front \in Items
             /\ result' = front /\ free' = free \cup {front}
             /\ cpc' = "idle"
             /\ UNCHANGED raced
    <3>1. Contents # <<>> /\ Contents' = Tail(Contents) /\ Head(Contents) = front
      BY <1>1, <1>2, <2>5, UnstubbedTail, QueueAssumption
    <3> QED BY <3>1, <2>1, <2>5 DEF Fifo!PopItem
  <2>6. CASE /\ Append(q, Stub) \in Seq(Nodes) /\ Chain(Append(q, Stub))'
             /\ ~ Within(q, Stub)
             /\ cpc' = "selflink"
             /\ UNCHANGED <<free, raced, result>>
    <3>1. Contents' = Contents
      BY <1>1, <1>2, <2>6, UnstubbedAppend
    <3> QED BY <3>1, <2>1, <2>6 DEF Fifo!fifoVars
  <2>7. QueueTypeOK
    BY DEF QueueInv
  <2> HIDE DEF Chain
  <2> QED BY <1>0, <1>6, <2>2, <2>3, <2>4, <2>5, <2>6, <2>7, PopStepChain
<1>7. ASSUME UNCHANGED queueVars PROVE UNCHANGED Fifo!fifoVars
  <2>1. Contents' = Contents
    BY <1>0, <1>1, <1>7, QueueUnchanged
  <2> QED BY <2>1, <1>7 DEF Fifo!fifoVars, queueVars, producerVars, consumerVars, Linking
<1> QED BY <1>3, <1>4, <1>5, <1>6, <1>7 DEF QueueNext, Fifo!FifoNext

\* For any producers and any items: no node is lost, reached twice, or reached after it
\* was popped, and the queue is a FIFO queue to those who use it (intrusive.hpp:222-283).
THEOREM QueueTheorem == QueueSpec => [](QueueShape /\ ChainIsContents) /\ IsFifo
<1>1. QueueSpec => []QueueInv
  <2>1. QueueInv /\ [QueueNext]_queueVars => QueueInv'
    BY QueueStepInv
  <2> QED BY <2>1, QueueInitInv, PTL DEF QueueSpec
<1>2. QueueInv => QueueShape /\ ChainIsContents
  BY ContentsOfChain, InvQueueShape, InvChainIsContents
<1>3. QueueInit => Fifo!FifoInit
  BY ContentsOfChain, FifoInitOK
<1>4. ContentsKnown
  BY ContentsOfChain
<1>5. QueueInv /\ ContentsKnown /\ ContentsKnown' /\ [QueueNext]_queueVars
        => [Fifo!FifoNext]_(Fifo!fifoVars)
  BY FifoStepOK
<1> QED BY <1>1, <1>2, <1>3, <1>4, <1>5, PTL DEF QueueSpec, IsFifo, Fifo!FifoSpec

-----------------------------------------------------------------------------
\* The barrier.

\* The inductive invariant.
BarrierInv == TypeOK /\ SidesInv

\* Adding a thread to a set of waiting threads adds one to its size.
LEMMA OneMore ==
  ASSUME NEW S \in SUBSET Threads, NEW t \in Threads, t \notin S
  PROVE  /\ Cardinality(S) \in Nat
         /\ Cardinality(S \cup {t}) = Cardinality(S) + 1
<1>1. IsFiniteSet(S)
  BY BarrierAssumption, FS_Subset
<1>2. QED
  BY <1>1, FS_CardinalityType, FS_AddElement

\* If the counter is one short of the total, everybody else is waiting: the
\* comparison `++*count == m_total' really recognises the last thread.
LEMMA LastOne ==
  ASSUME NEW S \in SUBSET Threads, NEW t \in Threads, t \notin S,
         Cardinality(S) + 1 = Total
  PROVE  S \cup {t} = Threads
<1>1. Cardinality(S \cup {t}) = Cardinality(Threads)
  BY OneMore DEF Total
<1>2. S \cup {t} \in SUBSET Threads
  OBVIOUS
<1>3. QED
  BY <1>1, <1>2, BarrierAssumption, FS_Subset

LEMMA TotalType == Total \in Nat /\ Total > 0
<1>1. Total \in Nat
  BY BarrierAssumption, FS_CardinalityType DEF Total
<1>2. Total # 0
  BY BarrierAssumption, FS_EmptySet DEF Total
<1>3. QED
  BY <1>1, <1>2

LEMMA InitInv == Init => BarrierInv
<1>1. SUFFICES ASSUME Init PROVE BarrierInv
  OBVIOUS
<1>2. TypeOK
  BY <1>1, TotalType DEF Init, TypeOK
<1>3. Waiting("A") = {} /\ Waiting("B") = {}
  BY <1>1 DEF Init, Waiting
<1>4. SidesInv
  BY <1>1, <1>3, TotalType, FS_EmptySet DEF Init, SidesInv, OnSide
<1>5. QED
  BY <1>2, <1>4 DEF BarrierInv

-----------------------------------------------------------------------------
\* Each action preserves the invariant.

LEMMA ArriveAInv ==
  ASSUME BarrierInv, NEW t \in Threads, ArriveA(t)
  PROVE  BarrierInv'
<1> USE TotalType DEF BarrierInv
<1>1. OnSide("A", "B", countA, countB)
  BY DEF ArriveA, SidesInv
<1>2. /\ Waiting("A")' = Waiting("A") \cup {t}
      /\ Waiting("B")' = Waiting("B")
      /\ t \notin Waiting("A")
  BY DEF ArriveA, Waiting, TypeOK
<1>3. Cardinality(Waiting("A")') = Cardinality(Waiting("A")) + 1
  BY <1>2, OneMore DEF Waiting
<1>4. countA' \in 0 .. Total /\ countA' < Total
  BY <1>1 DEF ArriveA, TypeOK, OnSide
<1>5. TypeOK'
  BY <1>4 DEF ArriveA, TypeOK
<1>6. OnSide("A", "B", countA, countB)'
  <2>1. countA' = Cardinality(Waiting("A")')
    BY <1>1, <1>3 DEF ArriveA, OnSide
  <2>2. Waiting("B")' # {} => countB' = Total
    BY <1>1, <1>2 DEF ArriveA, OnSide
  <2>3. Waiting("B")' \cap asleep' = {}
    BY <1>1, <1>2 DEF ArriveA, OnSide, Waiting, TypeOK
  <2>4. \A u \in Threads : IF at'[u] = "B" THEN passed'[u] + 1 = rounds'
                                           ELSE passed'[u] = rounds'
    BY <1>1 DEF ArriveA, OnSide, TypeOK
  <2>5. QED
    BY <1>4, <2>1, <2>2, <2>3, <2>4 DEF OnSide
<1>7. QED
  BY <1>5, <1>6 DEF ArriveA, SidesInv

LEMMA ArriveBInv ==
  ASSUME BarrierInv, NEW t \in Threads, ArriveB(t)
  PROVE  BarrierInv'
<1> USE TotalType DEF BarrierInv
<1>1. OnSide("B", "A", countB, countA)
  BY DEF ArriveB, SidesInv
<1>2. /\ Waiting("B")' = Waiting("B") \cup {t}
      /\ Waiting("A")' = Waiting("A")
      /\ t \notin Waiting("B")
  BY DEF ArriveB, Waiting, TypeOK
<1>3. Cardinality(Waiting("B")') = Cardinality(Waiting("B")) + 1
  BY <1>2, OneMore DEF Waiting
<1>4. countB' \in 0 .. Total /\ countB' < Total
  BY <1>1 DEF ArriveB, TypeOK, OnSide
<1>5. TypeOK'
  BY <1>4 DEF ArriveB, TypeOK
<1>6. OnSide("B", "A", countB, countA)'
  <2>1. countB' = Cardinality(Waiting("B")')
    BY <1>1, <1>3 DEF ArriveB, OnSide
  <2>2. Waiting("A")' # {} => countA' = Total
    BY <1>1, <1>2 DEF ArriveB, OnSide
  <2>3. Waiting("A")' \cap asleep' = {}
    BY <1>1, <1>2 DEF ArriveB, OnSide, Waiting, TypeOK
  <2>4. \A u \in Threads : IF at'[u] = "A" THEN passed'[u] + 1 = rounds'
                                           ELSE passed'[u] = rounds'
    BY <1>1 DEF ArriveB, OnSide, TypeOK
  <2>5. QED
    BY <1>4, <2>1, <2>2, <2>3, <2>4 DEF OnSide
<1>7. QED
  BY <1>5, <1>6 DEF ArriveB, SidesInv

\* The last thread resets the counter of the other side: by LastOne nobody is
\* left there to look at it.
LEMMA CompleteAInv ==
  ASSUME BarrierInv, NEW t \in Threads, CompleteA(t)
  PROVE  BarrierInv'
<1> USE TotalType DEF BarrierInv
<1>1. OnSide("A", "B", countA, countB)
  BY DEF CompleteA, SidesInv
<1>2. Waiting("A") \cup {t} = Threads /\ t \notin Waiting("A")
  <2>1. t \notin Waiting("A") /\ Waiting("A") \in SUBSET Threads
    BY DEF CompleteA, Waiting
  <2>2. Cardinality(Waiting("A")) + 1 = Total
    BY <1>1 DEF CompleteA, OnSide
  <2>3. QED
    BY <2>1, <2>2, LastOne
<1>3. Waiting("B") = {} /\ Waiting("A")' = Waiting("A") /\ Waiting("B")' = Waiting("B")
  BY <1>2 DEF Waiting, CompleteA
<1>4. TypeOK'
  BY DEF CompleteA, Return, TypeOK
<1>5. OnSide("B", "A", countB, countA)'
  <2>1. countB' = Cardinality(Waiting("B")') /\ countB' < Total'
    BY <1>3, FS_EmptySet DEF CompleteA, Total
  <2>2. countA' = Total
    BY DEF CompleteA
  <2>3. Waiting("A")' \cap asleep' = {}
    BY DEF CompleteA
  <2>4. ASSUME NEW u \in Threads
        PROVE  IF at'[u] = "A" THEN passed'[u] + 1 = rounds'
                               ELSE passed'[u] = rounds'
    BY <1>1, <1>2 DEF CompleteA, Return, OnSide, Waiting, TypeOK
  <2>5. QED
    BY <2>1, <2>2, <2>3, <2>4 DEF OnSide
<1>6. QED
  BY <1>4, <1>5 DEF CompleteA, SidesInv

LEMMA CompleteBInv ==
  ASSUME BarrierInv, NEW t \in Threads, CompleteB(t)
  PROVE  BarrierInv'
<1> USE TotalType DEF BarrierInv
<1>1. OnSide("B", "A", countB, countA)
  BY DEF CompleteB, SidesInv
<1>2. Waiting("B") \cup {t} = Threads /\ t \notin Waiting("B")
  <2>1. t \notin Waiting("B") /\ Waiting("B") \in SUBSET Threads
    BY DEF CompleteB, Waiting
  <2>2. Cardinality(Waiting("B")) + 1 = Total
    BY <1>1 DEF CompleteB, OnSide
  <2>3. QED
    BY <2>1, <2>2, LastOne
<1>3. Waiting("A") = {} /\ Waiting("A")' = Waiting("A") /\ Waiting("B")' = Waiting("B")
  BY <1>2 DEF Waiting, CompleteB
<1>4. TypeOK'
  BY DEF CompleteB, Return, TypeOK
<1>5. OnSide("A", "B", countA, countB)'
  <2>1. countA' = Cardinality(Waiting("A")') /\ countA' < Total'
    BY <1>3, FS_EmptySet DEF CompleteB, Total
  <2>2. countB' = Total
    BY DEF CompleteB
  <2>3. Waiting("B")' \cap asleep' = {}
    BY DEF CompleteB
  <2>4. ASSUME NEW u \in Threads
        PROVE  IF at'[u] = "B" THEN passed'[u] + 1 = rounds'
                               ELSE passed'[u] = rounds'
    BY <1>1, <1>2 DEF CompleteB, Return, OnSide, Waiting, TypeOK
  <2>5. QED
    BY <2>1, <2>2, <2>3, <2>4 DEF OnSide
<1>6. QED
  BY <1>4, <1>5 DEF CompleteB, SidesInv

\* A thread that leaves side A finds the barrier already on side B: on its own
\* side the counter would still be short of the total.
LEMMA LeaveAInv ==
  ASSUME BarrierInv, NEW t \in Threads, LeaveA(t)
  PROVE  BarrierInv' /\ side = "B"
<1> USE TotalType DEF BarrierInv
<1>1. side = "B"
  BY DEF LeaveA, SidesInv, OnSide, TypeOK
<1>2. OnSide("B", "A", countB, countA)
  BY <1>1 DEF SidesInv
<1>3. Waiting("A")' = Waiting("A") \ {t} /\ Waiting("B")' = Waiting("B")
  BY DEF LeaveA, Waiting, TypeOK
<1>4. TypeOK'
  BY DEF LeaveA, Return, TypeOK
<1>5. OnSide("B", "A", countB, countA)'
  <2>1. ASSUME NEW u \in Threads
        PROVE  IF at'[u] = "A" THEN passed'[u] + 1 = rounds'
                               ELSE passed'[u] = rounds'
    BY <1>2 DEF LeaveA, Return, OnSide, TypeOK
  <2>2. Waiting("A")' \cap asleep' = {} /\ (Waiting("A")' # {} => countA' = Total)
    BY <1>2, <1>3 DEF LeaveA, OnSide
  <2>3. countB' = Cardinality(Waiting("B")') /\ countB' < Total
    BY <1>2, <1>3 DEF LeaveA, OnSide
  <2>4. QED
    BY <2>1, <2>2, <2>3 DEF OnSide
<1>6. QED
  BY <1>1, <1>4, <1>5 DEF LeaveA, SidesInv

LEMMA LeaveBInv ==
  ASSUME BarrierInv, NEW t \in Threads, LeaveB(t)
  PROVE  BarrierInv' /\ side = "A"
<1> USE TotalType DEF BarrierInv
<1>1. side = "A"
  BY DEF LeaveB, SidesInv, OnSide, TypeOK
<1>2. OnSide("A", "B", countA, countB)
  BY <1>1 DEF SidesInv
<1>3. Waiting("B")' = Waiting("B") \ {t} /\ Waiting("A")' = Waiting("A")
  BY DEF LeaveB, Waiting, TypeOK
<1>4. TypeOK'
  BY DEF LeaveB, Return, TypeOK
<1>5. OnSide("A", "B", countA, countB)'
  <2>1. ASSUME NEW u \in Threads
        PROVE  IF at'[u] = "B" THEN passed'[u] + 1 = rounds'
                               ELSE passed'[u] = rounds'
    BY <1>2 DEF LeaveB, Return, OnSide, TypeOK
  <2>2. Waiting("B")' \cap asleep' = {} /\ (Waiting("B")' # {} => countB' = Total)
    BY <1>2, <1>3 DEF LeaveB, OnSide
  <2>3. countA' = Cardinality(Waiting("A")') /\ countA' < Total
    BY <1>2, <1>3 DEF LeaveB, OnSide
  <2>4. QED
    BY <2>1, <2>2, <2>3 DEF OnSide
<1>6. QED
  BY <1>1, <1>4, <1>5 DEF LeaveB, SidesInv

\* Waking and going back to sleep touch only `asleep', and a released thread
\* never goes back to sleep.
LEMMA SleepInv ==
  ASSUME BarrierInv, NEW t \in Threads, SleepAgain(t) \/ SpuriousWakeup(t)
  PROVE  BarrierInv' /\ UNCHANGED <<at, side, rounds, passed>>
<1> USE TotalType DEF BarrierInv
<1>1. UNCHANGED <<side, countA, countB, at, rounds, passed>>
  BY DEF SleepAgain, SpuriousWakeup
<1>2. Waiting("A")' = Waiting("A") /\ Waiting("B")' = Waiting("B")
  BY <1>1 DEF Waiting
<1>3. TypeOK'
  BY <1>1 DEF TypeOK, SleepAgain, SpuriousWakeup
<1>4. /\ side = "A" => Waiting("B")' \cap asleep' = {}
      /\ side = "B" => Waiting("A")' \cap asleep' = {}
  BY DEF SleepAgain, SpuriousWakeup, SidesInv, OnSide, Waiting
<1>5. SidesInv'
  BY <1>1, <1>2, <1>4 DEF SidesInv, OnSide
<1>6. QED
  BY <1>1, <1>3, <1>5

LEMMA NextInv == BarrierInv /\ [Next]_vars => BarrierInv'
<1> SUFFICES ASSUME BarrierInv, [Next]_vars PROVE BarrierInv'
  OBVIOUS
<1>1. CASE UNCHANGED vars
  BY <1>1 DEF BarrierInv, TypeOK, SidesInv, OnSide, Waiting, vars
<1>2. ASSUME NEW t \in Threads, Arrive(t) \/ Awake(t) \/ SpuriousWakeup(t)
      PROVE  BarrierInv'
  BY <1>2, ArriveAInv, ArriveBInv, CompleteAInv, CompleteBInv, LeaveAInv,
     LeaveBInv, SleepInv DEF Arrive, Awake
<1>3. QED
  BY <1>1, <1>2 DEF Next

\* The two sides of the barrier are never mixed up, whatever the number of
\* threads.
THEOREM BarrierInvariant == Spec => [](TypeOK /\ SidesInv)
<1>1. QED
  BY InitInv, NextInv, PTL DEF Spec, BarrierInv

\* A wait() never returns before every thread has made the matching call.
THEOREM BarrierSafety == Spec => []NobodyAhead
<1>1. BarrierInv => NobodyAhead
  <2> SUFFICES ASSUME BarrierInv, NEW t \in Threads, NEW u \in Threads
               PROVE  passed[t] <= Calls(u)
    BY DEF NobodyAhead
  <2>1. passed[t] <= rounds
    BY DEF BarrierInv, TypeOK, SidesInv, OnSide
  <2>2. rounds <= Calls(u)
    BY DEF BarrierInv, TypeOK, SidesInv, OnSide, Calls
  <2>3. QED
    BY <2>1, <2>2 DEF BarrierInv, TypeOK, Calls
<1>2. QED
  BY <1>1, BarrierInvariant, PTL DEF BarrierInv

-----------------------------------------------------------------------------
\* Refinement: every step of the barrier is a step of Rendezvous or a stutter.

LEMMA RendezvousStep == BarrierInv /\ [Next]_vars => [R!RendezvousNext]_(R!rendezvousVars)
<1> SUFFICES ASSUME BarrierInv, [Next]_vars
             PROVE  [R!RendezvousNext]_(R!rendezvousVars)
  OBVIOUS
<1> USE TotalType DEF BarrierInv
<1>1. ASSUME UNCHANGED <<at, side, rounds>>
      PROVE  [R!RendezvousNext]_(R!rendezvousVars)
  BY <1>1 DEF R!rendezvousVars, Gathered
<1>2. ASSUME NEW t \in Threads, ArriveA(t) \/ ArriveB(t)
      PROVE  R!Gather(t)
  <2>1. t \notin Gathered /\ Gathered' = Gathered \cup {t}
    BY <1>2 DEF ArriveA, ArriveB, Gathered, TypeOK
  <2>2. Gathered \cup {t} # Threads
    <3>1. Gathered = Waiting(side) /\ Gathered \in SUBSET Threads
      BY DEF Gathered, Waiting
    <3>2. Cardinality(Gathered) + 1 # Total
      BY <1>2, <3>1 DEF ArriveA, ArriveB, SidesInv, OnSide
    <3>3. Cardinality(Gathered \cup {t}) # Total
      BY <2>1, <3>1, <3>2, OneMore
    <3>4. QED
      BY <3>3 DEF Total
  <2>3. QED
    BY <1>2, <2>1, <2>2 DEF R!Gather, ArriveA, ArriveB
<1>3. ASSUME NEW t \in Threads, CompleteA(t) \/ CompleteB(t)
      PROVE  R!Release(t)
  <2>1. /\ Gathered = Waiting(side)
        /\ Gathered \in SUBSET Threads
        /\ t \notin Gathered
    BY <1>3 DEF CompleteA, CompleteB, Gathered, Waiting, TypeOK
  <2>2. Cardinality(Gathered) + 1 = Total
    BY <1>3, <2>1 DEF CompleteA, CompleteB, SidesInv, OnSide
  <2>3. Gathered \cup {t} = Threads
    BY <2>1, <2>2, LastOne
  <2>4. Gathered' = {}
    BY <1>3, <2>3 DEF CompleteA, CompleteB, Gathered, TypeOK
  <2>5. QED
    BY <1>3, <2>1, <2>3, <2>4 DEF R!Release, CompleteA, CompleteB
<1>4. ASSUME NEW t \in Threads, LeaveA(t) \/ LeaveB(t)
      PROVE  UNCHANGED R!rendezvousVars
  <2>1. UNCHANGED <<side, rounds>> /\ at[t] # side /\ at'[t] # side
    BY <1>4, LeaveAInv, LeaveBInv DEF LeaveA, LeaveB, TypeOK
  <2>2. Gathered' = Gathered
    BY <1>4, <2>1 DEF LeaveA, LeaveB, Gathered, TypeOK
  <2>3. QED
    BY <2>1, <2>2 DEF R!rendezvousVars
<1>5. ASSUME NEW t \in Threads, SleepAgain(t) \/ SpuriousWakeup(t)
      PROVE  UNCHANGED <<at, side, rounds>>
  BY <1>5, SleepInv
<1>6. CASE UNCHANGED vars
  BY <1>1, <1>6 DEF vars
<1>7. QED
  BY <1>1, <1>2, <1>3, <1>4, <1>5, <1>6
     DEF Next, Arrive, Awake, R!RendezvousNext

\* The barrier implements the rendezvous: threads gather one by one and are
\* released together.
THEOREM BarrierIsRendezvous == Spec => IsRendezvous
<1>1. Init => R!RendezvousInit
  BY DEF Init, R!RendezvousInit, Gathered
<1>2. QED
  BY <1>1, BarrierInvariant, RendezvousStep, PTL
     DEF Spec, IsRendezvous, R!RendezvousSpec, BarrierInv


-----------------------------------------------------------------------------
\* The queue is the same under both streams.

LEMMA LocalPopStep == Local!PopStep <=> PopStep
BY DEF Local!PopStep, PopStep, Local!CheckStub, CheckStub, Local!ReadNext, ReadNext,
       Local!LoadBack, LoadBack, Local!SelfExchange, SelfExchange, Local!SelfLink, SelfLink,
       Local!Reread, Reread, Local!TakeFront, TakeFront, Local!ReturnNothing, ReturnNothing,
       Local!producerVars, producerVars

LEMMA IoPopStep == Io!PopStep <=> PopStep
BY DEF Io!PopStep, PopStep, Io!CheckStub, CheckStub, Io!ReadNext, ReadNext,
       Io!LoadBack, LoadBack, Io!SelfExchange, SelfExchange, Io!SelfLink, SelfLink,
       Io!Reread, Reread, Io!TakeFront, TakeFront, Io!ReturnNothing, ReturnNothing,
       Io!producerVars, producerVars

LEMMA IoCardinality == \A S : Io!Cardinality(S) = Cardinality(S)
BY DEF Io!Cardinality, Cardinality

\* A step of either stream is a step of its queue or leaves it alone.
LEMMA LocalStepsQueue == Local!Next => [QueueNext]_queueVars
<1> USE DEF Local!queueVars, queueVars, Local!consumerVars, consumerVars,
            Local!producerVars, producerVars
<1>1. ASSUME NEW p \in Producers, NEW i \in Items, Local!WriteExchange(p, i) PROVE QueueNext
  BY <1>1 DEF Local!WriteExchange, Local!Exchange, Exchange, QueueNext
<1>2. ASSUME NEW p \in Producers, Local!WriteLink(p) PROVE QueueNext
  BY <1>2 DEF Local!WriteLink, Local!Link, Link, QueueNext
<1>3. ASSUME Local!ReadCall PROVE QueueNext
  BY <1>3 DEF Local!ReadCall, Local!PopCall, PopCall, QueueNext, Local!Linking, Linking
<1>4. ASSUME Local!ReadStep PROVE QueueNext
  BY <1>4, LocalPopStep DEF Local!ReadStep, QueueNext
<1>5. ASSUME (\E p \in Producers : Local!Signal(p)) \/ Local!Wake \/ Local!Clear
      PROVE  UNCHANGED queueVars
  BY <1>5 DEF Local!Signal, Local!Wake, Local!Clear
<1> QED BY <1>1, <1>2, <1>3, <1>4, <1>5 DEF Local!Next, Local!ReaderNext

LEMMA IoStepsQueue == Io!Next => [QueueNext]_queueVars
<1> USE DEF Io!queueVars, queueVars, Io!consumerVars, consumerVars,
            Io!producerVars, producerVars
<1>1. ASSUME NEW p \in Producers, NEW i \in Items, Io!WriteExchange(p, i) PROVE QueueNext
  BY <1>1 DEF Io!WriteExchange, Io!Exchange, Exchange, QueueNext
<1>2. ASSUME NEW p \in Producers, Io!WriteLink(p) PROVE QueueNext
  BY <1>2 DEF Io!WriteLink, Io!Link, Link, QueueNext
<1>3. ASSUME NEW r \in Readers, Io!CallPop(r) PROVE QueueNext
  BY <1>3 DEF Io!CallPop, Io!PopCall, PopCall, QueueNext, Io!Linking, Linking
<1>4. ASSUME NEW r \in Readers, Io!StepPop(r) PROVE QueueNext
  BY <1>4, IoPopStep DEF Io!StepPop, QueueNext
<1>5. ASSUME NEW p \in Producers, Io!Signal(p) PROVE UNCHANGED queueVars
  BY <1>5 DEF Io!Signal
<1>6. ASSUME NEW r \in Readers,
             Io!ReadCall(r) \/ Io!Wake(r) \/ Io!TakeToken(r) \/ Io!Eagain(r) \/ Io!Lock(r)
      PROVE  UNCHANGED queueVars
  BY <1>6 DEF Io!ReadCall, Io!Wake, Io!TakeToken, Io!Eagain, Io!Lock
<1> QED BY <1>1, <1>2, <1>3, <1>4, <1>5, <1>6 DEF Io!Next, Io!ReaderStep

\* Whatever the object, the queue and the barrier take steps of their own or none.
LEMMA CrossStepsQueue == [CrossNext]_crossVars => [QueueNext]_queueVars
BY LocalStepsQueue, IoStepsQueue DEF CrossNext, crossVars, OfLocal, OfIo, OfBarrier

LEMMA CrossStepsBarrier == [CrossNext]_crossVars => [Next]_vars
BY DEF CrossNext, crossVars, OfLocal, OfIo, OfBarrier

-----------------------------------------------------------------------------
\* The inbox of a thread.

\* Something will still make the eventfd of the owner readable.
Coming == readable \/ Linking # {} \/ unsignalled # {}

\* Who sleeps over a message has something coming, and who has just found the queue
\* empty has too, unless it was.
LocalInv ==
  /\ unsignalled \subseteq Producers
  /\ readable \in BOOLEAN
  /\ reader \in {"read", "wait", "clear"}
  /\ object # "local stream" => reader = "read"
  /\ cpc # "idle" => reader = "read"
  /\ object = "local stream" =>
       /\ reader = "wait" /\ free # Items => Coming
       /\ cpc # "idle" /\ raced => Coming

\* Every step of a local stream keeps that.
LEMMA LocalStep ==
  ASSUME QueueInv, LocalInv, OfLocal(Local!Next)
  PROVE  LocalInv'
<1> USE DEF LocalInv, OfLocal, Local!queueVars, Local!consumerVars, Local!producerVars
<1>0. QueueTypeOK
  BY DEF QueueInv
<1>1. ASSUME NEW p \in Producers, NEW i \in Items, Local!WriteExchange(p, i) PROVE LocalInv'
  <2>1. p \in Linking'
    BY <1>0, <1>1 DEF Local!WriteExchange, Local!Exchange, Linking, QueueTypeOK
  <2> QED BY <1>1, <2>1 DEF Local!WriteExchange, Local!Exchange, Coming
<1>2. ASSUME NEW p \in Producers, Local!WriteLink(p) PROVE LocalInv'
  BY <1>2 DEF Local!WriteLink, Local!Link, Coming
<1>3. ASSUME NEW p \in Producers, Local!Signal(p) PROVE LocalInv'
  BY <1>3 DEF Local!Signal, Coming
<1>4. ASSUME Local!ReadCall PROVE LocalInv'
  BY <1>4 DEF Local!ReadCall, Local!PopCall, Local!Linking, Linking, Coming
<1>5. ASSUME Local!ReadStep PROVE LocalInv'
  <2>1. PopStep
    BY <1>5, LocalPopStep DEF Local!ReadStep
  <2>2. /\ UNCHANGED <<raced, ppc>>
        /\ cpc # "idle"
        /\ \/ cpc' # "idle" /\ UNCHANGED <<free, result>>
           \/ /\ cpc' = "idle"
              /\ result' = Null
              /\ UNCHANGED free
              /\ raced \/ free = Items
           \/ /\ cpc' = "idle"
              /\ \E i \in Items \ free : result' = i /\ free' = free \cup {i}
    BY <2>1, PopStepEffect
  <2>3. reader = "read" /\ Coming' = Coming
    BY <1>5, <2>2 DEF Local!ReadStep, Coming, Linking
  <2>4. /\ reader' = IF cpc' = "idle" /\ result' = Null THEN "wait" ELSE "read"
        /\ UNCHANGED <<unsignalled, readable, object>>
    BY <1>5 DEF Local!ReadStep
  <2> QED BY <2>2, <2>3, <2>4, QueueAssumption
<1>6. ASSUME Local!Wake PROVE LocalInv'
  BY <1>6 DEF Local!Wake, Coming, Linking
<1>7. ASSUME Local!Clear PROVE LocalInv'
  BY <1>7 DEF Local!Clear, Coming, Linking
<1> QED BY <1>1, <1>2, <1>3, <1>4, <1>5, <1>6, <1>7 DEF Local!Next, Local!ReaderNext

-----------------------------------------------------------------------------
\* The inbox of the io threads.

\* TokensAreBacked is a sum of sizes: for a step to change it by one, the sets must be
\* finite, and a writer must not be in two of them.
IoInv ==
  /\ unsignalled \subseteq Producers
  /\ tokens \in 0 .. Cardinality(Items)
  /\ rpc \in [Readers -> {"busy", "wait", "take", "again", "lock", "pop"}]
  /\ lock \in Readers \cup {Null}
  /\ aborted \in BOOLEAN
  /\ object = "io stream" =>
       /\ Io!SingleConsumer
       /\ Linking \cap unsignalled = {}
       /\ IsFiniteSet(Linking) /\ IsFiniteSet(unsignalled) /\ IsFiniteSet(Io!HoldingToken)
       /\ Io!TokensAreBacked

LEMMA FreeFinite ==
  ASSUME NEW F
  PROVE  /\ IsFiniteSet(Items \ F)
         /\ Cardinality(Items \ F) \in Nat
         /\ Cardinality(Items \ F) <= Cardinality(Items)
         /\ Cardinality(Items) \in Nat
<1>1. Items \ F \in SUBSET Items
  OBVIOUS
<1>2. IsFiniteSet(Items \ F) /\ Cardinality(Items \ F) <= Cardinality(Items)
  BY <1>1, QueueAssumption, FS_Subset
<1> QED BY <1>2, QueueAssumption, FS_CardinalityType

LEMMA InRange ==
  ASSUME NEW t, NEW n \in Nat
  PROVE  t \in 0 .. n <=> t \in Nat /\ t <= n
OBVIOUS

\* Every step of an io stream moves one item: from the free ones to a writer that links
\* it, to one that announces it, to a token, to a reader, and back.
LEMMA IoStep ==
  ASSUME QueueInv, IoInv, OfIo(Io!Next)
  PROVE  IoInv'
<1> USE DEF IoInv, OfIo, Io!queueVars, Io!consumerVars, Io!producerVars
<1> DEFINE H == Io!HoldingToken
           U == unsignalled
           L == Linking
           h == Cardinality(H)
           u == Cardinality(U)
           l == Cardinality(L)
           m == Cardinality(Items \ free)
           K == Cardinality(Items)
<1>0. /\ QueueTypeOK
      /\ object = "io stream" /\ UNCHANGED object
      /\ ~ aborted
      /\ Io!Linking = Linking
      /\ Io!Linking' = Linking'
  BY DEF QueueInv, Io!Next, Io!WriteExchange, Io!WriteLink, Io!Signal, Io!ReaderStep,
     Io!ReadCall, Io!Wake, Io!TakeToken, Io!Eagain, Io!Lock, Io!CallPop, Io!StepPop,
     Io!Goto, Io!Linking, Linking
<1>1. /\ h \in Nat /\ IsFiniteSet(H)
      /\ u \in Nat /\ IsFiniteSet(U)
      /\ l \in Nat /\ IsFiniteSet(L)
      /\ m \in Nat /\ m <= K
      /\ K \in Nat
      /\ tokens \in Nat /\ tokens <= K
  <2>1. K \in Nat /\ m \in Nat /\ m <= K
    BY FreeFinite
  <2>2. tokens \in 0 .. K
    OBVIOUS
  <2>3. IsFiniteSet(H) /\ IsFiniteSet(U) /\ IsFiniteSet(L)
    BY <1>0
  <2>4. h \in Nat /\ u \in Nat /\ l \in Nat
    BY <2>3, FS_CardinalityType
  <2>5. tokens \in Nat /\ tokens <= K
    BY <2>1, <2>2, InRange
  <2> HIDE DEF h, u, l, m, K, IoInv
  <2> QED BY <2>1, <2>3, <2>4, <2>5
<1>a. tokens + h + u + l = m
  BY <1>0, IoCardinality DEF Io!TokensAreBacked
<1>b. Io!TokensAreBacked' <=> (~ aborted' => tokens' + h' + u' + l' = m')
  BY <1>0, IoCardinality DEF Io!TokensAreBacked
<1>c. /\ Io!SingleConsumer
      /\ Linking \cap unsignalled = {}
      /\ unsignalled \subseteq Producers
      /\ rpc \in [Readers -> {"busy", "wait", "take", "again", "lock", "pop"}]
      /\ lock \in Readers \cup {Null}
      /\ aborted \in BOOLEAN
  BY <1>0
<1>d. ASSUME unsignalled' \subseteq Producers,
             tokens' \in Nat, tokens' <= K,
             rpc' \in [Readers -> {"busy", "wait", "take", "again", "lock", "pop"}],
             lock' \in Readers \cup {Null},
             aborted' \in BOOLEAN,
             Io!SingleConsumer',
             (Linking \cap unsignalled)' = {},
             IsFiniteSet(Linking'), IsFiniteSet(unsignalled'), IsFiniteSet(Io!HoldingToken'),
             Io!TokensAreBacked'
      PROVE  IoInv'
  <2>1. tokens' \in 0 .. Cardinality(Items)
    <3>1. tokens' \in 0 .. K
      BY <1>1, <1>d, InRange
    <3> QED BY <3>1
  <2> QED BY <2>1, <1>d
<1> HIDE DEF h, u, l, m, K, IoInv, OfIo
<1>2. ASSUME NEW p \in Producers, NEW i \in Items, Io!WriteExchange(p, i) PROVE IoInv'
  <2>1. /\ L' = L \cup {p} /\ p \notin L /\ p \notin U
        /\ Items \ free' = (Items \ free) \cup {i} /\ i \notin Items \ free
        /\ UNCHANGED <<unsignalled, tokens, rpc, lock, aborted, object, cpc>>
    BY <1>0, <1>c, <1>2 DEF Io!WriteExchange, Io!Exchange, Linking, QueueTypeOK
  <2>2. H' = H
    BY <2>1 DEF Io!HoldingToken
  <2>3. IsFiniteSet(L') /\ l' = l + 1
    BY <2>1, <1>1, FS_AddElement DEF l
  <2>4. m' = m + 1
    BY <2>1, FreeFinite, FS_AddElement DEF m
  <2>5. h' = h /\ u' = u
    BY <2>1, <2>2 DEF h, u
  <2>6. Io!SingleConsumer'
    BY <2>1, <1>0, <1>c DEF Io!SingleConsumer
  <2>7. Io!TokensAreBacked'
    BY <2>1, <2>3, <2>4, <2>5, <1>1, <1>a, <1>b
  <2> QED BY <2>1, <2>2, <2>3, <2>6, <2>7, <1>0, <1>1, <1>c, <1>d

<1>3. ASSUME NEW p \in Producers, Io!WriteLink(p) PROVE IoInv'
  <2>1. /\ L' = L \ {p} /\ p \in L
        /\ U' = U \cup {p} /\ p \notin U
        /\ UNCHANGED <<free, tokens, rpc, lock, aborted, object, cpc>>
    BY <1>0, <1>c, <1>3 DEF Io!WriteLink, Io!Link, Linking, QueueTypeOK
  <2>2. H' = H
    BY <2>1 DEF Io!HoldingToken
  <2>3. IsFiniteSet(L') /\ l' = l - 1
    BY <2>1, <1>1, FS_RemoveElement DEF l
  <2>4. IsFiniteSet(U') /\ u' = u + 1
    BY <2>1, <1>1, FS_AddElement DEF u
  <2>5. h' = h /\ m' = m
    BY <2>1, <2>2 DEF h, m
  <2>6. Io!SingleConsumer'
    BY <2>1, <1>0, <1>c DEF Io!SingleConsumer
  <2>7. Io!TokensAreBacked'
    BY <2>1, <2>3, <2>4, <2>5, <1>1, <1>a, <1>b
  <2> QED BY <2>1, <2>2, <2>3, <2>4, <2>6, <2>7, <1>0, <1>1, <1>c, <1>d
<1>4. ASSUME NEW p \in Producers, Io!Signal(p) PROVE IoInv'
  <2>1. /\ U' = U \ {p} /\ p \in U
        /\ tokens' = tokens + 1
        /\ L' = L
        /\ UNCHANGED <<free, rpc, lock, aborted, object, cpc>>
    BY <1>0, <1>c, <1>4 DEF Io!Signal, Linking
  <2>2. H' = H
    BY <2>1 DEF Io!HoldingToken
  <2>3. IsFiniteSet(U') /\ u' = u - 1 /\ u' \in Nat
    BY <2>1, <1>1, FS_RemoveElement, FS_CardinalityType DEF u
  <2>4. h' = h /\ l' = l /\ m' = m
    BY <2>1, <2>2 DEF h, l, m
  <2>5. tokens' \in Nat /\ tokens' <= K
    BY <2>1, <2>3, <1>1, <1>a
  <2>6. Io!SingleConsumer'
    BY <2>1, <1>0, <1>c DEF Io!SingleConsumer
  <2>7. Io!TokensAreBacked'
    BY <2>1, <2>3, <2>4, <1>1, <1>a, <1>b
  <2> QED BY <2>1, <2>2, <2>3, <2>5, <2>6, <2>7, <1>0, <1>1, <1>c, <1>d
<1>5. ASSUME NEW r \in Readers,
             Io!ReadCall(r) \/ Io!Wake(r) \/ Io!Eagain(r) \/ Io!Lock(r) \/ Io!CallPop(r)
      PROVE  IoInv'
  <2>1. /\ L' = L
        /\ UNCHANGED <<free, unsignalled, tokens, aborted, object>>
        /\ rpc' \in [Readers -> {"busy", "wait", "take", "again", "lock", "pop"}]
        /\ lock' \in Readers \cup {Null}
    BY <1>0, <1>c, <1>5
    DEF Io!ReadCall, Io!Wake, Io!Eagain, Io!Lock, Io!CallPop, Io!Goto, Io!PopCall, Linking
  <2>2. H' = H
    BY <1>0, <1>c, <1>5
    DEF Io!ReadCall, Io!Wake, Io!Eagain, Io!Lock, Io!CallPop, Io!Goto, Io!HoldingToken
  <2>3. Io!SingleConsumer'
    BY <1>0, <1>c, <1>5, ReadersAssumption
    DEF Io!ReadCall, Io!Wake, Io!Eagain, Io!Lock, Io!CallPop, Io!PopCall, Io!Goto,
        Io!SingleConsumer
  <2>4. Io!TokensAreBacked'
    BY <2>1, <2>2, <1>a, <1>b DEF h, u, l, m
  <2> QED BY <2>1, <2>2, <2>3, <2>4, <1>0, <1>1, <1>c, <1>d
<1>6. ASSUME NEW r \in Readers, Io!TakeToken(r) PROVE IoInv'
  <2>1. /\ L' = L
        /\ tokens > 0 /\ tokens' = tokens - 1
        /\ UNCHANGED <<free, unsignalled, lock, aborted, object, cpc>>
        /\ rpc[r] \in {"take", "again"}
        /\ rpc' = [rpc EXCEPT ![r] = "lock"]
    BY <1>0, <1>c, <1>6 DEF Io!TakeToken, Io!Goto, Linking
  <2>2. H' = H \cup {r} /\ r \notin H
    BY <2>1, <1>c DEF Io!HoldingToken
  <2>3. IsFiniteSet(H') /\ h' = h + 1
    BY <2>2, <1>1, FS_AddElement DEF h
  <2>4. u' = u /\ l' = l /\ m' = m /\ tokens' \in Nat /\ tokens' <= K
    BY <2>1, <1>1 DEF u, l, m
  <2>5. Io!SingleConsumer'
    BY <2>1, <1>0, <1>c DEF Io!SingleConsumer
  <2>6. Io!TokensAreBacked'
    BY <2>1, <2>3, <2>4, <1>1, <1>a, <1>b
  <2> QED BY <2>1, <2>3, <2>4, <2>5, <2>6, <1>0, <1>1, <1>c, <1>d
<1>7. ASSUME NEW r \in Readers, Io!StepPop(r) PROVE IoInv'
  <2>1. PopStep
    BY <1>7, IoPopStep DEF Io!StepPop
  <2>2. /\ UNCHANGED <<raced, ppc>>
        /\ cpc # "idle"
        /\ \/ cpc' # "idle" /\ UNCHANGED <<free, result>>
           \/ /\ cpc' = "idle"
              /\ result' = Null
              /\ UNCHANGED free
              /\ raced \/ free = Items
           \/ /\ cpc' = "idle"
              /\ \E i \in Items \ free : result' = i /\ free' = free \cup {i}
    BY <2>1, PopStepEffect
  <2>3. L' = L /\ UNCHANGED <<unsignalled, tokens, object>> /\ rpc[r] = "pop"
    BY <1>0, <1>7, <2>2 DEF Io!StepPop, Linking
  <2>4. CASE cpc' # "idle"
    <3>1. UNCHANGED <<rpc, lock, aborted, free>>
      BY <1>7, <2>2, <2>4 DEF Io!StepPop
    <3>2. H' = H
      BY <3>1 DEF Io!HoldingToken
    <3>3. Io!SingleConsumer'
      BY <3>1, <2>2, <2>3, <1>0, <1>c DEF Io!SingleConsumer
    <3>4. Io!TokensAreBacked'
      BY <3>1, <3>2, <2>3, <1>a, <1>b DEF h, u, l, m
    <3> QED BY <3>1, <3>2, <3>3, <3>4, <2>3, <1>0, <1>1, <1>c, <1>d
  <2>5. CASE cpc' = "idle"
    <3>1. /\ lock' = Null
          /\ rpc' = [rpc EXCEPT ![r] = "busy"]
          /\ aborted' = (result' = Null)
      BY <1>7, <2>5 DEF Io!StepPop
    <3>2. H' = H \ {r} /\ r \in H
      BY <3>1, <2>3, <1>c DEF Io!HoldingToken
    <3>3. IsFiniteSet(H') /\ h' = h - 1
      BY <3>2, <1>1, FS_RemoveElement DEF h
    <3>4. Io!SingleConsumer'
      BY <3>1, <2>3, <2>5, <1>0, <1>c, ReadersAssumption DEF Io!SingleConsumer
    <3>5. Io!TokensAreBacked'
      <4>1. CASE result' = Null
        BY <4>1, <3>1, <1>b
      <4>2. CASE result' # Null
        <5>1. PICK i \in Items \ free : free' = free \cup {i}
          BY <2>2, <2>5, <4>2
        <5>2. Items \ free' = (Items \ free) \ {i}
          BY <5>1
        <5>3. m' = m - 1
          BY <5>1, <5>2, FreeFinite, FS_RemoveElement, ZenonT(60) DEF m
        <5>4. u' = u /\ l' = l
          BY <2>3 DEF u, l
        <5> QED BY <5>3, <5>4, <3>3, <2>3, <1>1, <1>a, <1>b
      <4> QED BY <4>1, <4>2
    <3> QED BY <3>1, <3>3, <3>4, <3>5, <2>3, <1>0, <1>1, <1>c, <1>d
  <2> QED BY <2>4, <2>5
<1> QED BY <1>2, <1>3, <1>4, <1>5, <1>6, <1>7 DEF OfIo, Io!Next, Io!ReaderStep

-----------------------------------------------------------------------------
\* Together.

\* The inductive invariant of all.
CrossInv == QueueInv /\ LocalInv /\ IoInv /\ BarrierInv

LEMMA CrossInitInv == CrossInit => CrossInv
<1> SUFFICES ASSUME CrossInit PROVE CrossInv
  OBVIOUS
<1>1. QueueInit /\ Init
  BY DEF CrossInit, Local!Init, Local!QueueInit, Local!Nodes, QueueInit, Nodes
<1>2. QueueInv /\ BarrierInv
  BY <1>1, QueueInitInv, InitInv
<1>3. LocalInv
  BY DEF CrossInit, Local!Init, Io!Init, LocalInv, Local!QueueInit
<1>4. IoInv
  <2>1. Linking = {} /\ Io!Linking = {} /\ unsignalled = {} /\ free = Items
    BY <1>1 DEF CrossInit, Io!Init, QueueInit, Linking, Io!Linking
  <2>2. Io!HoldingToken = {}
    BY DEF CrossInit, Io!Init, Io!HoldingToken
  <2>3. Cardinality({}) = 0 /\ IsFiniteSet({}) /\ Items \ free = {}
    BY <2>1, FS_EmptySet
  <2>4. Cardinality(Items) \in Nat
    BY FreeFinite
  <2>5. Io!TokensAreBacked
    <3>1. tokens = 0
      BY DEF CrossInit, Io!Init
    <3> QED BY <3>1, <2>1, <2>2, <2>3, IoCardinality DEF Io!TokensAreBacked
  <2>6. Io!SingleConsumer
    BY <1>1, ReadersAssumption DEF CrossInit, Io!Init, Io!SingleConsumer, QueueInit
  <2>7. /\ tokens = 0
        /\ rpc \in [Readers -> {"busy", "wait", "take", "again", "lock", "pop"}]
        /\ lock = Null /\ aborted = FALSE
    BY DEF CrossInit, Io!Init
  <2>8. tokens \in 0 .. Cardinality(Items)
    BY <2>4, <2>7
  <2> QED BY <2>1, <2>2, <2>3, <2>5, <2>6, <2>7, <2>8 DEF IoInv
<1> QED BY <1>2, <1>3, <1>4 DEF CrossInv

LEMMA CrossStepInv == CrossInv /\ [CrossNext]_crossVars => CrossInv'
<1> SUFFICES ASSUME CrossInv, [CrossNext]_crossVars PROVE CrossInv'
  OBVIOUS
<1> USE DEF CrossInv
<1>1. QueueInv' /\ BarrierInv'
  BY CrossStepsQueue, CrossStepsBarrier, QueueStepInv, NextInv
<1>2. QueueTypeOK
  BY DEF QueueInv
<1>3. CASE OfLocal(Local!Next)
  <2>1. object = "local stream" /\ UNCHANGED <<object, tokens, rpc, lock, aborted>>
    BY <1>3 DEF OfLocal, ioOnlyVars
  <2>2. unsignalled' \subseteq Producers
    BY <1>3, LocalStep DEF LocalInv
  <2>3. IoInv'
    BY <2>1, <2>2 DEF IoInv
  <2> QED BY <1>1, <1>3, <2>3, LocalStep
<1>4. CASE OfIo(Io!Next)
  <2>1. object = "io stream" /\ UNCHANGED <<object, readable, reader>>
    BY <1>4 DEF OfIo, localVars
  <2>2. unsignalled' \subseteq Producers
    BY <1>4, IoStep DEF IoInv
  <2>3. LocalInv'
    BY <2>1, <2>2 DEF LocalInv
  <2> QED BY <1>1, <1>4, <2>3, IoStep
<1>5. CASE OfBarrier(Next) \/ UNCHANGED crossVars
  <2>1. UNCHANGED <<object, queueVars, unsignalled, localVars, ioOnlyVars>>
    BY <1>5 DEF OfBarrier, crossVars
  <2>2. LocalInv'
    BY <2>1 DEF LocalInv, Coming, Linking, localVars, queueVars, producerVars, consumerVars
  <2>3. IoInv'
    BY <2>1 DEF IoInv, Linking, ioOnlyVars, queueVars, producerVars, consumerVars,
       Io!SingleConsumer, Io!TokensAreBacked, Io!HoldingToken, Io!Linking
  <2> QED BY <1>1, <2>2, <2>3
<1> QED BY <1>3, <1>4, <1>5 DEF CrossNext

LEMMA CrossIsBarrier == CrossSpec => Spec
<1>1. CrossInit => Init
  BY DEF CrossInit
<1> QED BY <1>1, CrossStepsBarrier, PTL DEF CrossSpec, Spec

\* The queue, the eventfds and the barrier agree in every reachable state, for any
\* number of threads, readers and nodes.
THEOREM CrossInvariant == CrossSpec => []CrossInv
BY CrossInitInv, CrossStepInv, PTL DEF CrossSpec

\* The memory of the queue is the chain of what was pushed and not popped, under either
\* stream (intrusive.hpp:222-283).
THEOREM QueueMemoryIsSound == CrossSpec => []MemoryIsSound
<1>1. CrossInv => MemoryIsSound
  <2> SUFFICES ASSUME CrossInv PROVE MemoryIsSound
    OBVIOUS
  <2>1. QueueShape /\ ChainIsContents
    BY ContentsOfChain, InvQueueShape, InvChainIsContents DEF CrossInv
  <2>2. Local!QueueTypeOK /\ Io!QueueTypeOK
    BY <2>1
    DEF QueueShape, QueueTypeOK, Local!QueueTypeOK, Io!QueueTypeOK, Nodes, Local!Nodes,
        Io!Nodes
  <2>3. Local!StreamTypeOK
    BY <2>2 DEF CrossInv, LocalInv, Local!StreamTypeOK
  <2>4. Io!IoTypeOK
    BY <2>2, IoCardinality DEF CrossInv, IoInv, Io!IoTypeOK
  <2> QED BY <2>1, <2>3, <2>4 DEF MemoryIsSound, StateShape, CrossInv, BarrierInv
<1> QED BY <1>1, CrossInvariant, PTL

\* No thread sleeps over a message, though it clears the eventfd and reads the queue in
\* two steps and write() pushes and signals in two (stream.cc:22-56).
THEOREM StreamNoLostWakeup == CrossSpec => []NoLostWakeup
<1>1. CrossInv => NoLostWakeup
  BY DEF CrossInv, LocalInv, NoLostWakeup, Local!NoLostWakeup, Local!Linking, Linking, Coming
<1> QED BY <1>1, CrossInvariant, PTL

\* The semaphore eventfd never promises more messages than there are, and the spinlock
\* keeps the pop to one reader (stream.cc:68-102).
THEOREM StreamOneReaderPerToken == CrossSpec => []OneReaderPerToken
<1>1. CrossInv => OneReaderPerToken
  BY DEF CrossInv, IoInv, OneReaderPerToken, SingleConsumer, TokensAreBacked
<1> QED BY <1>1, CrossInvariant, PTL

\* Under either stream the queue is a FIFO queue (intrusive.hpp:222-283).
THEOREM QueueIsFifo == CrossSpec => IsFifo
<1>1. CrossInit => Fifo!FifoInit
  <2>1. CrossInit => QueueInit
    BY DEF CrossInit, Local!Init, Local!QueueInit, Local!Nodes, QueueInit, Nodes
  <2> QED BY <2>1, ContentsOfChain, FifoInitOK
<1>2. ContentsKnown
  BY ContentsOfChain
<1>3. CrossInv /\ ContentsKnown /\ ContentsKnown' /\ [CrossNext]_crossVars
        => [Fifo!FifoNext]_(Fifo!fifoVars)
  BY FifoStepOK, CrossStepsQueue DEF CrossInv
<1> QED BY <1>1, <1>2, <1>3, CrossInvariant, PTL DEF CrossSpec, IsFifo, Fifo!FifoSpec

\* The barrier lets nobody through ahead of the others, and all through at once
\* (barrier.cc:10-31).
THEOREM BarrierKeepsEveryoneTogether == CrossSpec => []NobodyAhead /\ IsRendezvous
BY CrossIsBarrier, BarrierSafety, BarrierIsRendezvous

=============================================================================
