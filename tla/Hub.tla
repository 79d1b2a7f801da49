------------------------------------ MODULE Hub ------------------------------------
(***************************************************************************)
(* message_hub_t (rpc/hub.cc) and the calls of target_t (rpc/target.hpp):  *)
(* a thread numbers its requests, keeps a promise for each, and spawns a   *)
(* coroutine for every request it receives, which answers to the thread    *)
(* that sent it.  The stream of a target delivers in order (FifoQueue);    *)
(* the io threads share one.                                               *)
(*                                                                         *)
(* A handler either answers ("leaf") or calls a leaf on another target     *)
(* first ("relay").  Every handler is registered before main().            *)
(***************************************************************************)
EXTENDS Naturals, Sequences, FiniteSets, SequencesExt

CONSTANTS HubThreads,   \* coroutine threads, which the hub of everyone knows
          HubIos,       \* io threads, which no hub knows
          IoTarget,     \* the target that stands for all of them
          Callers,      \* coroutines that call
          place,        \* caller -> the thread it is on
          MaxCalls      \* bound on the calls of a thread

ASSUME HubAssumption ==
  MaxCalls \in Nat /\ IsFiniteSet(HubThreads) /\ IoTarget \notin HubThreads
  /\ place \in [Callers -> HubThreads]

VARIABLES inbox,        \* target -> its stream
          asked,        \* thread -> its requests so far: of whom, and what
          replies,      \* thread -> m_replies: what each promise holds, if anything
          waits,        \* caller -> the requests it waits for
          tasks,        \* the coroutines of handlers
          twice,        \* a promise has been fulfilled a second time
          oneWay        \* the one call without a reply has been made: a second
                        \* one could not be told from it

hubVars == <<inbox, asked, replies, waits, tasks, twice, oneWay>>

Pending == <<>>
NoReply == 0                      \* request_id_t::noreply()
Everyone == HubThreads \cup HubIos
Targets == HubThreads \cup {IoTarget}
Stream(t) == IF t \in HubIos THEN IoTarget ELSE t

HubInit ==
  /\ inbox = [t \in Targets |-> <<>>]
  /\ asked = [t \in Everyone |-> <<>>]
  /\ replies = [t \in Everyone |-> <<>>]
  /\ waits = [c \in Callers |-> {}]
  /\ tasks = {}
  /\ twice = FALSE
  /\ oneWay = FALSE

-----------------------------------------------------------------------------
\* new_request() for each of the targets D, and the messages.  The requests of a
\* broadcast are sent one after the other, by a coroutine that does not give way.
Request(t, D, rpc) ==
  LET order == SetToSeq(D)
      id(d) == Len(asked[t]) + CHOOSE i \in DOMAIN order : order[i] = d
      msg(d) == [rpc |-> rpc, source |-> t, request |-> id(d)]
  IN
  /\ asked' = [asked EXCEPT ![t] = @ \o [i \in DOMAIN order |-> <<order[i], rpc>>]]
  /\ replies' = [replies EXCEPT ![t] = @ \o [i \in DOMAIN order |-> Pending]]
  /\ inbox' = [d \in Targets |-> IF d \in D THEN Append(inbox[d], msg(d)) ELSE inbox[d]]

\* How many calls the thread may still make.
Left(t) == MaxCalls - Len(asked[t]) - (IF oneWay THEN 1 ELSE 0)
Rpcs == {"leaf", "relay"}

\* call_sync to one target, or broadcast_local_sync to all of them.
CallSync(c, D, rpc) ==
  LET t == place[c] IN
  /\ waits[c] = {} /\ Cardinality(D) <= Left(t)
  /\ Request(t, D, rpc)
  /\ waits' = [waits EXCEPT ![c] = {Len(asked[t]) + i : i \in 1 .. Cardinality(D)}]
  /\ UNCHANGED <<tasks, twice, oneWay>>

\* call_noreply, here of a leaf: the source is the receiver's own id.
CallNoReply(c, d) ==
  /\ waits[c] = {}
  /\ ~oneWay /\ Left(place[c]) > 0
  /\ inbox' = [inbox EXCEPT ![d] = Append(@, [rpc |-> "leaf", source |-> d, request |-> NoReply])]
  /\ oneWay' = TRUE
  /\ UNCHANGED <<asked, replies, waits, tasks, twice>>

\* Mutant: a reply goes to the oldest promise that is still open.
Accept_Oldest(t) ==
  LET msg == Head(inbox[Stream(t)])
      open == {i \in DOMAIN replies[t] : replies[t][i] = Pending}
      i == IF open = {} THEN msg.request ELSE CHOOSE x \in open : \A y \in open : x <= y
  IN
  /\ inbox[Stream(t)] # <<>>
  /\ inbox' = [inbox EXCEPT ![Stream(t)] = Tail(@)]
  /\ IF msg.rpc = "reply"
     THEN /\ replies' = [replies EXCEPT ![t][i] = msg.answer]
          /\ twice' = (twice \/ replies[t][i] # Pending)
          /\ UNCHANGED tasks
     ELSE /\ tasks' = tasks \cup {[on |-> t, msg |-> msg, at |-> "start", sub |-> NoReply]}
          /\ UNCHANGED <<replies, twice>>
  /\ UNCHANGED <<asked, waits, oneWay>>

\* Mutant: a request is handled in the loop that reads the stream.
Accept_InLoop(t) ==
  LET msg == Head(inbox[Stream(t)]) IN
  /\ inbox[Stream(t)] # <<>>
  /\ \A k \in tasks : k.on # t
  /\ inbox' = [inbox EXCEPT ![Stream(t)] = Tail(@)]
  /\ IF msg.rpc = "reply"
     THEN /\ replies' = [replies EXCEPT ![t][msg.request] = msg.answer]
          /\ twice' = (twice \/ replies[t][msg.request] # Pending)
          /\ UNCHANGED tasks
     ELSE /\ tasks' = tasks \cup {[on |-> t, msg |-> msg, at |-> "start", sub |-> NoReply]}
          /\ UNCHANGED <<replies, twice>>
  /\ UNCHANGED <<asked, waits, oneWay>>

\* spawn_task(): a reply fulfils its promise, which is never erased; a request gets a
\* coroutine.
Accept(t) ==
  LET msg == Head(inbox[Stream(t)]) IN
  /\ inbox[Stream(t)] # <<>>
  /\ inbox' = [inbox EXCEPT ![Stream(t)] = Tail(@)]
  /\ IF msg.rpc = "reply"
     THEN /\ replies' = [replies EXCEPT ![t][msg.request] = msg.answer]
          /\ twice' = (twice \/ replies[t][msg.request] # Pending)
          /\ UNCHANGED tasks
     ELSE /\ tasks' = tasks \cup {[on |-> t, msg |-> msg, at |-> "start", sub |-> NoReply]}
          /\ UNCHANGED <<replies, twice>>
  /\ UNCHANGED <<asked, waits, oneWay>>

\* A relay calls another target.
Relay(k, d) ==
  LET t == k.on IN
  /\ k \in tasks /\ k.at = "start" /\ k.msg.rpc = "relay"
  /\ Request(t, {d}, "leaf")
  /\ tasks' = (tasks \ {k}) \cup {[k EXCEPT !.at = "wait", !.sub = Len(asked[t]) + 1]}
  /\ UNCHANGED <<waits, twice, oneWay>>

\* handle(): the handler returns.  Its reply goes to the source of the request, if
\* the hub knows that target; an io thread is not among them.
Finish(k) ==
  LET source == k.msg.source
      reply == [rpc |-> "reply", source |-> source, request |-> k.msg.request,
                answer |-> <<Stream(k.on), k.msg.rpc>>]
  IN
  /\ k \in tasks
  /\ IF k.at = "start" THEN k.msg.rpc = "leaf" ELSE replies[k.on][k.sub] # Pending
  /\ tasks' = tasks \ {k}
  /\ IF k.msg.request # NoReply /\ source \in HubThreads
     THEN inbox' = [inbox EXCEPT ![source] = Append(@, reply)]
     ELSE UNCHANGED inbox
  /\ UNCHANGED <<asked, replies, waits, twice, oneWay>>

\* The caller has all its results, or is interrupted and forgets the futures.
Collect(c) ==
  /\ waits[c] # {}
  /\ \A i \in waits[c] : replies[place[c]][i] # Pending
  /\ waits' = [waits EXCEPT ![c] = {}]
  /\ UNCHANGED <<inbox, asked, replies, tasks, twice, oneWay>>

GiveUp(c) ==
  /\ waits[c] # {}
  /\ \E i \in waits[c] : replies[place[c]][i] = Pending
  /\ waits' = [waits EXCEPT ![c] = {}]
  /\ UNCHANGED <<inbox, asked, replies, tasks, twice, oneWay>>

\* The handlers of a thread, and the loop that reads its stream.
AtThread(t) ==
  \/ Accept(t)
  \/ \E k \in tasks : k.on = t /\ (Finish(k) \/ \E d \in Targets : Relay(k, d))

HubNext ==
  \/ \E c \in Callers, rpc \in Rpcs :
       \/ \E d \in Targets : CallSync(c, {d}, rpc)
       \/ CallSync(c, HubThreads, rpc)
  \/ \E c \in Callers, d \in Targets : CallNoReply(c, d)
  \/ \E t \in Everyone : AtThread(t)
  \/ \E c \in Callers : Collect(c) \/ GiveUp(c)

HubSpec == HubInit /\ [][HubNext]_hubVars

-----------------------------------------------------------------------------
\* Properties.

\* Every promise holds the answer to its own request, whatever the order of the
\* answers and whoever has stopped waiting, and is fulfilled once (hub.cc:56).
RepliesMatch ==
  /\ ~twice
  /\ \A t \in Everyone : \A i \in DOMAIN replies[t] :
       replies[t][i] \in {Pending, asked[t][i]}

\* A call returns, even to a target that calls back.  It waits in vain only for a
\* handler on an io thread that makes a call itself: no reply finds an io thread
\* (hub.cc:36, sched.cc:79).
Stranded == \E k \in tasks : k.on \in HubIos /\ k.at = "wait"
CallsReturn == \A c \in Callers : waits[c] # {} ~> (waits[c] = {} \/ Stranded)

=============================================================================
