---------------------------- MODULE ShutdownProofs ----------------------------
(***************************************************************************)
(* The end of a run, for any number of threads and pieces of work,         *)
(* provided that no coroutine leaves a then() on a reply behind            *)
(* (Chaining).                                                             *)
(*                                                                         *)
(* The counter is the sum of what is queued, what the threads have         *)
(* reported and what the shutdown itself owes, and no part of the sum is   *)
(* ever negative: a thread that has a coroutine has reported at least one. *)
(* So when a thread sees zero every part is zero, and nothing is left      *)
(* that could make another one: the run ends with a request to finish as   *)
(* the last message of every inbox, which is a queue.                      *)
(***************************************************************************)
EXTENDS Shutdown, FiniteSums, SequenceTheorems

\* What the inductive invariant is made of: first what is at which place.
Inboxes == Threads \cup {Io}
Sending == [job : Job, to : Targets, by : Work \cup Threads, mode : {"noreply", "sync", "async"}]
Sends(t) == tpc[t] = "sending"

\* The types; and, without chained callbacks, none of them.
Types ==
  /\ main \in {"idle", "running", "telling", "waiting"}
  /\ runs \in 0 .. MaxRuns
  /\ toTell \in SUBSET Threads
  /\ count \in Int
  /\ finishSent \in BOOLEAN
  /\ inbox \in [Inboxes -> Seq(Job)]
  /\ tpc \in [Threads -> {"paused", "poll", "repoll", "run", "spin", "sending", "add", "store", "tell"}]
  /\ delta \in [Threads -> Int]
  /\ live \in [Threads -> SUBSET Job]
  /\ \A t \in Threads : IsFiniteSet(live[t])
  /\ sending \in [Threads -> Sending \cup {None}]
  /\ \A t \in Threads : Sends(t) => sending[t] \in Sending
  /\ finishing \in [Threads -> SUBSET Threads]
  /\ event \in [Threads -> BOOLEAN] /\ stop \in [Threads -> BOOLEAN]
  /\ ready \subseteq IoThreads /\ woken \subseteq pulling /\ pulling \subseteq IoThreads
  /\ chained = {}

\* What may be at q.
Proper(j, q) ==
  /\ UserJob(j) => j.id \in used
  /\ j.kind \in {"begin", "finish"} => j = MkJob(j.kind, q, None)
  /\ j.kind = "call" => j.from \in CoroThreads

JobsProper ==
  /\ \A q \in Inboxes : \A j \in InInbox(q) :
        /\ Proper(j, q)
        /\ j.kind = "reply" => q \in CoroThreads
        /\ UserJob(j) => q \in Targets
        /\ j.kind \in {"begin", "finish"} => q \in Threads
  /\ \A t \in Threads : \A j \in live[t] : Proper(j, t) /\ j.kind # "reply"
  /\ \A t \in Threads : Sends(t) => sending[t].job.kind \in {"task", "call"} /\ Proper(sending[t].job, t)

\* Each request is at one place of one inbox, or handled, or about to be written.
Once ==
  \A q, r \in Inboxes : \A k \in DOMAIN inbox[q], l \in DOMAIN inbox[r] :
    inbox[q][k] = inbox[r][l] /\ inbox[q][k].kind # "reply" => q = r /\ k = l

\* What is handled, or about to be written, is in no inbox, and in one place.
Apart ==
  /\ \A q \in Inboxes, t \in Threads : InInbox(q) \cap live[t] = {}
  /\ \A t \in Threads : Sends(t) =>
       /\ \A q \in Inboxes : sending[t].job \notin InInbox(q)
       /\ \A u \in Threads : sending[t].job \notin live[u]
       /\ \A u \in Threads \ {t} : Sends(u) => sending[u].job # sending[t].job

\* An inbox holds nothing but these kinds of messages.
Kinds(S, q) == \A j \in InInbox(q) : j.kind \in S

\* The requests to begin and to finish, at the thread they are for.
BeginAt(t) == MkJob("begin", t, None) \in InInbox(t) \cup live[t]
FinishIn(t) == MkJob("finish", t, None) \in InInbox(t)
FinishLive(t) == MkJob("finish", t, None) \in live[t]
FinishAt(t) == FinishIn(t) \/ FinishLive(t)

\* t has brought the counter to zero and is about to tell everybody.
SawZero(t) == tpc[t] \in {"add", "store"}

\* The phases of a run: before any thread has seen the counter at zero ...
Before ==
  /\ main = "idle" =>
       /\ finishSent /\ count >= 0
       /\ \A t \in Threads : tpc[t] = "paused" /\ live[t] = {} /\ finishing[t] = {}
       /\ \A q \in Inboxes : Kinds({"task"}, q)
  /\ main = "telling" <=> toTell # {}
  /\ \A t \in Threads : BeginAt(t) => main \in {"telling", "waiting"} /\ t \notin toTell
  /\ main # "idle" /\ ~ finishSent =>
       \A t \in Threads : ~ FinishAt(t) /\ finishing[t] = {} /\ ~ stop[t] /\ tpc[t] \notin {"paused", "tell"}

\* ... from then on, when one thread tells all to finish ...
Ends ==
  /\ Ending => /\ main = "waiting"
               /\ \A t \in Threads : ~ Sends(t) /\ \A j \in live[t] : j.kind = "finish"
               /\ \A q \in Inboxes : Kinds({"reply", "finish"}, q)
  /\ main # "idle" /\ ~ finishSent /\ (\E t \in Threads : SawZero(t)) =>
       \A t \in Threads : live[t] = {} /\ (tpc[t] = "run" => delta[t] = 0)
  /\ \A t \in Threads : SawZero(t) => ~ finishSent
  /\ \A t, u \in Threads : (SawZero(t) \/ tpc[t] = "tell") /\ (SawZero(u) \/ tpc[u] = "tell") => t = u
  /\ \A t \in Threads : tpc[t] = "tell" <=> finishing[t] # {}

\* ... and after a thread has been told.  Its inbox is a queue, so finish is the last it sees.
After ==
  /\ \A t, u \in Threads : u \in finishing[t] => ~ FinishAt(u) /\ ~ stop[u]
  /\ main # "idle" => \A u \in Threads :
       /\ FinishIn(u) => ~ stop[u] /\ inbox[u][Len(inbox[u])] = MkJob("finish", u, None)
       /\ FinishLive(u) => ~ stop[u] /\ inbox[u] = <<>>
       /\ stop[u] => inbox[u] = <<>> /\ live[u] = {}
       /\ tpc[u] = "paused" => stop[u]

\* A coroutine that waits for a reply, or sends, is alive.
WaitersLive ==
  /\ \A p \in awaiting : \E t \in Threads : \E j \in live[t] : UserJob(j) /\ j.id = p[1]
  /\ \A t \in Threads : Sends(t) => \E j \in live[t] : UserJob(j) /\ j.id = sending[t].by

\* No thread has reported more ends than beginnings; one with a coroutine has
\* reported one beginning more: the coroutine, or the message that began it.
ReportedInv == \A t \in Threads : Reported(t) >= 0 /\ (live[t] # {} => Reported(t) >= 1)

-----------------------------------------------------------------------------
\* The inboxes.

\* What an inbox holds.
LEMMA InboxProps ==
  ASSUME Types, NEW q \in Inboxes
  PROVE  /\ InInbox(q) \subseteq Job
         /\ inbox[q] = <<>> <=> InInbox(q) = {}
         /\ inbox[q] # <<>> => Head(inbox[q]) \in InInbox(q) /\ Head(inbox[q]) = inbox[q][1]
<1>1. inbox[q] \in Seq(Job)
  BY DEF Types
<1>2. Len(inbox[q]) \in Nat /\ DOMAIN inbox[q] = 1 .. Len(inbox[q])
  BY <1>1
<1>3. InInbox(q) \subseteq Job
  BY <1>1 DEF InInbox
<1>4. ASSUME inbox[q] # <<>> PROVE 1 \in DOMAIN inbox[q] /\ Head(inbox[q]) = inbox[q][1]
  BY <1>1, <1>2, <1>4
<1>5. inbox[q] = <<>> => InInbox(q) = {}
  BY DEF InInbox
<1> QED BY <1>3, <1>4, <1>5 DEF InInbox

\* A message is put into an inbox.
LEMMA PushProps ==
  ASSUME Types, NEW q \in Inboxes, NEW j \in Job, Push(q, j)
  PROVE  /\ inbox' \in [Inboxes -> Seq(Job)]
         /\ \A r \in Inboxes : InInbox(r)' = IF r = q THEN InInbox(q) \cup {j} ELSE InInbox(r)
         /\ \A r \in Inboxes \ {q} : inbox'[r] = inbox[r]
         /\ inbox'[q] # <<>> /\ inbox'[q][Len(inbox'[q])] = j
         /\ \A r \in Inboxes : Requests(r)' = IF r = q /\ j.kind # "reply" THEN Requests(q) + 1 ELSE Requests(r)
         /\ Once /\ (j.kind # "reply" => \A r \in Inboxes : j \notin InInbox(r)) => Once'
<1>1. PICK s \in Seq(Job) : s = inbox[q]
  BY DEF Types
<1>2. PICK w \in Seq(Job) : w = Append(s, j)
  <2>1. Append(s, j) \in Seq(Job)
    OBVIOUS
  <2> QED BY <2>1
<1>3. /\ Len(s) \in Nat /\ DOMAIN s = 1 .. Len(s)
      /\ Len(w) = Len(s) + 1 /\ DOMAIN w = 1 .. Len(s) + 1
      /\ w[Len(s) + 1] = j /\ \A k \in 1 .. Len(s) : w[k] = s[k]
  BY <1>2
<1>4. inbox' = [inbox EXCEPT ![q] = w] /\ inbox'[q] = w
  BY <1>1, <1>2 DEF Push, Types
<1>5. \A r \in Inboxes \ {q} : inbox'[r] = inbox[r]
  BY <1>4 DEF Types
<1>6. inbox' \in [Inboxes -> Seq(Job)]
  BY <1>4 DEF Types
<1>7. {w[k] : k \in DOMAIN w} = {s[k] : k \in DOMAIN s} \cup {j}
  <2>1. DOMAIN w = DOMAIN s \cup {Len(s) + 1}
    BY <1>3
  <2>2. \A k \in DOMAIN s : w[k] = s[k]
    BY <1>3
  <2> QED BY <1>3, <2>1, <2>2
<1>8. \A r \in Inboxes : InInbox(r)' = IF r = q THEN InInbox(q) \cup {j} ELSE InInbox(r)
  <2>1. InInbox(q)' = {w[k] : k \in DOMAIN w} /\ InInbox(q) = {s[k] : k \in DOMAIN s}
    BY <1>1, <1>4 DEF InInbox
  <2>2. \A r \in Inboxes \ {q} : InInbox(r)' = InInbox(r)
    BY <1>5 DEF InInbox
  <2> QED BY <1>7, <2>1, <2>2
<1>9. Requests(q)' = IF j.kind # "reply" THEN Requests(q) + 1 ELSE Requests(q)
  <2> DEFINE S == {k \in DOMAIN s : s[k].kind # "reply"}
             W == {k \in DOMAIN w : w[k].kind # "reply"}
  <2>1. W = IF j.kind # "reply" THEN S \cup {Len(s) + 1} ELSE S
    BY <1>3
  <2>2. Len(s) + 1 \notin S
    BY <1>3
  <2>3. IsFiniteSet(S)
    <3>1. IsFiniteSet(1 .. Len(s)) /\ S \subseteq 1 .. Len(s)
      BY <1>3, FS_Interval
    <3> QED BY <3>1, FS_Subset
  <2>4. Requests(q) = Cardinality(S) /\ Requests(q)' = Cardinality(W)
    BY <1>1, <1>4 DEF Requests
  <2> HIDE DEF S, W
  <2>5. Cardinality(S \cup {Len(s) + 1}) = Cardinality(S) + 1
    BY <2>2, <2>3, FS_AddElement
  <2> QED BY <2>1, <2>4, <2>5
<1>10. \A r \in Inboxes \ {q} : Requests(r)' = Requests(r)
  BY <1>5 DEF Requests
<1>11. ASSUME Once, j.kind # "reply" => \A r \in Inboxes : j \notin InInbox(r) PROVE Once'
  <2> SUFFICES ASSUME NEW p \in Inboxes, NEW r \in Inboxes,
                      NEW k \in DOMAIN inbox'[p], NEW l \in DOMAIN inbox'[r],
                      inbox'[p][k] = inbox'[r][l], inbox'[p][k].kind # "reply"
               PROVE  p = r /\ k = l
    BY DEF Once
  <2>1. ASSUME NEW x \in Inboxes, NEW n \in DOMAIN inbox'[x]
        PROVE  (n \in DOMAIN inbox[x] /\ inbox'[x][n] = inbox[x][n])
               \/ (x = q /\ n = Len(s) + 1 /\ inbox'[x][n] = j)
    <3>1. CASE x = q
      BY <1>1, <1>3, <1>4, <3>1
    <3>2. CASE x # q
      BY <1>5, <3>2
    <3> QED BY <3>1, <3>2
  <2>2. CASE k \in DOMAIN inbox[p] /\ inbox'[p][k] = inbox[p][k] /\ l \in DOMAIN inbox[r] /\ inbox'[r][l] = inbox[r][l]
    <3>1. inbox[p][k] = inbox[r][l] /\ inbox[p][k].kind # "reply"
      BY <2>2
    <3> QED BY <1>11, <2>2, <3>1 DEF Once
  <2>3. ASSUME NEW x \in Inboxes, NEW n \in DOMAIN inbox[x], inbox[x][n] = j, j.kind # "reply"
        PROVE FALSE
    BY <1>11, <2>3 DEF InInbox
  <2> QED BY <2>1, <2>2, <2>3
<1> QED BY <1>3, <1>4, <1>5, <1>6, <1>8, <1>9, <1>10, <1>11

\* The first message is taken out of an inbox.
LEMMA PopProps ==
  ASSUME Types, NEW q \in Inboxes, inbox[q] # <<>>, inbox' = [inbox EXCEPT ![q] = Tail(@)]
  PROVE  /\ inbox' \in [Inboxes -> Seq(Job)]
         /\ \A r \in Inboxes \ {q} : InInbox(r)' = InInbox(r) /\ inbox'[r] = inbox[r]
         /\ InInbox(q) = InInbox(q)' \cup {Head(inbox[q])}
         /\ inbox'[q] # <<>> => inbox'[q][Len(inbox'[q])] = inbox[q][Len(inbox[q])]
         /\ inbox'[q] = <<>> => inbox[q][Len(inbox[q])] = Head(inbox[q])
         /\ \A r \in Inboxes : Requests(r) = IF r = q /\ Head(inbox[q]).kind # "reply" THEN Requests(q)' + 1 ELSE Requests(r)'
         /\ Once => /\ Once'
                    /\ Head(inbox[q]).kind # "reply" => \A r \in Inboxes : Head(inbox[q]) \notin InInbox(r)'
<1>1. PICK s \in Seq(Job) : s = inbox[q]
  BY DEF Types
<1>2. PICK w \in Seq(Job) : w = Tail(s)
  <2>1. Tail(s) \in Seq(Job)
    BY <1>1
  <2> QED BY <2>1
<1>3. /\ Len(s) \in Nat /\ DOMAIN s = 1 .. Len(s) /\ Len(s) >= 1 /\ Head(s) = s[1]
      /\ Len(w) = Len(s) - 1 /\ DOMAIN w = 1 .. Len(s) - 1
      /\ \A k \in 1 .. Len(s) - 1 : w[k] = s[k + 1]
  BY <1>1, <1>2
<1>4. inbox' = [inbox EXCEPT ![q] = w] /\ inbox'[q] = w
  BY <1>1, <1>2 DEF Types
<1>5. \A r \in Inboxes \ {q} : inbox'[r] = inbox[r]
  BY <1>4 DEF Types
<1>6. inbox' \in [Inboxes -> Seq(Job)]
  BY <1>4 DEF Types
<1>7. {s[k] : k \in DOMAIN s} = {w[k] : k \in DOMAIN w} \cup {s[1]}
  <2>1. ASSUME NEW k \in DOMAIN s, k # 1 PROVE \E i \in DOMAIN w : w[i] = s[k]
    <3>1. k - 1 \in DOMAIN w /\ (k - 1) + 1 = k
      BY <1>3, <2>1
    <3> QED BY <1>3, <3>1
  <2>2. \A k \in DOMAIN w : k + 1 \in DOMAIN s /\ w[k] = s[k + 1]
    BY <1>3
  <2>3. 1 \in DOMAIN s
    BY <1>3
  <2> QED BY <2>1, <2>2, <2>3
<1>8. InInbox(q) = InInbox(q)' \cup {Head(inbox[q])}
  <2>1. InInbox(q)' = {w[k] : k \in DOMAIN w} /\ InInbox(q) = {s[k] : k \in DOMAIN s}
    BY <1>1, <1>4 DEF InInbox
  <2> QED BY <1>1, <1>3, <1>7, <2>1
<1>9. \A r \in Inboxes \ {q} : InInbox(r)' = InInbox(r) /\ Requests(r)' = Requests(r)
  BY <1>5 DEF InInbox, Requests
<1>10. Requests(q) = IF s[1].kind # "reply" THEN Requests(q)' + 1 ELSE Requests(q)'
  <2> DEFINE S == {k \in DOMAIN s : s[k].kind # "reply"}
             W == {k \in DOMAIN w : w[k].kind # "reply"}
             f == [k \in W |-> k + 1]
  <2>1. Requests(q) = Cardinality(S) /\ Requests(q)' = Cardinality(W)
    BY <1>1, <1>4 DEF Requests
  <2>2. IsFiniteSet(S) /\ IsFiniteSet(W) /\ Cardinality(W) \in Nat
    <3>1. IsFiniteSet(1 .. Len(s)) /\ S \subseteq 1 .. Len(s)
      <4>1. S \subseteq 1 .. Len(s)
        BY <1>3
      <4> QED BY <1>3, <4>1, FS_Interval
    <3>2. IsFiniteSet(1 .. Len(s) - 1) /\ W \subseteq 1 .. Len(s) - 1
      BY <1>3, FS_Interval
    <3> HIDE DEF S, W
    <3> QED BY <3>1, <3>2, FS_Subset, FS_CardinalityType
  <2>3. f \in Bijection(W, S \ {1})
    <3>1. \A k \in W : k + 1 \in S \ {1}
      BY <1>3
    <3>2. \A k \in S \ {1} : k - 1 \in W /\ (k - 1) + 1 = k
      BY <1>3
    <3>3. \A a, b \in W : a + 1 = b + 1 => a = b
      BY <1>3
    <3>4. f \in [W -> S \ {1}]
      BY <3>1
    <3>5. \A t \in S \ {1} : \E k \in W : f[k] = t
      BY <3>2
    <3>6. \A a, b \in W : f[a] = f[b] => a = b
      BY <3>3
    <3> HIDE DEF f, W, S
    <3>7. f \in Injection(W, S \ {1}) /\ f \in Surjection(W, S \ {1})
      BY <3>4, <3>5, <3>6 DEF Injection, Surjection, IsInjective
    <3> QED BY <3>7 DEF Bijection
  <2>4. Cardinality(W) = Cardinality(S \ {1})
    <3>1. ExistsBijection(W, S \ {1})
      BY <2>3 DEF ExistsBijection
    <3> HIDE DEF f, W, S
    <3> QED BY <2>2, <3>1, FS_Bijection
  <2>5. 1 \in S <=> s[1].kind # "reply"
    BY <1>3
  <2> HIDE DEF f, W, S
  <2>6. Cardinality(S \ {1}) = IF 1 \in S THEN Cardinality(S) - 1 ELSE Cardinality(S)
    BY <2>2, FS_RemoveElement
  <2>7. Cardinality(S) \in Nat
    BY <2>2, FS_CardinalityType
  <2> QED BY <2>1, <2>2, <2>4, <2>5, <2>6, <2>7
<1>11. ASSUME Once
       PROVE  Once' /\ (s[1].kind # "reply" => \A r \in Inboxes : s[1] \notin InInbox(r)')
  <2>1. ASSUME NEW x \in Inboxes, NEW n \in DOMAIN inbox'[x]
        PROVE  /\ n \in Nat
               /\ \/ x = q /\ n + 1 \in DOMAIN inbox[x] /\ inbox'[x][n] = inbox[x][n + 1]
                  \/ x # q /\ n \in DOMAIN inbox[x] /\ inbox'[x][n] = inbox[x][n]
    <3>1. CASE x = q
      BY <1>1, <1>3, <1>4, <3>1
    <3>2. CASE x # q
      <4>1. inbox[x] \in Seq(Job)
        BY DEF Types
      <4>2. n \in DOMAIN inbox[x]
        BY <1>5, <3>2
      <4> QED BY <1>5, <3>2, <4>1, <4>2
    <3> QED BY <3>1, <3>2
  <2>2. Once'
    <3> SUFFICES ASSUME NEW p \in Inboxes, NEW r \in Inboxes,
                        NEW k \in DOMAIN inbox'[p], NEW l \in DOMAIN inbox'[r],
                        inbox'[p][k] = inbox'[r][l], inbox'[p][k].kind # "reply"
                 PROVE  p = r /\ k = l
      BY DEF Once
    <3>1. PICK a \in DOMAIN inbox[p] : inbox'[p][k] = inbox[p][a] /\ (a = IF p = q THEN k + 1 ELSE k) /\ k \in Nat
      BY <2>1
    <3>2. PICK b \in DOMAIN inbox[r] : inbox'[r][l] = inbox[r][b] /\ (b = IF r = q THEN l + 1 ELSE l) /\ l \in Nat
      BY <2>1
    <3>3. inbox[p][a] = inbox[r][b] /\ inbox[p][a].kind # "reply"
      BY <3>1, <3>2
    <3>4. p = r /\ a = b
      BY <1>11, <3>3 DEF Once
    <3> QED BY <3>1, <3>2, <3>4
  <2>3. ASSUME s[1].kind # "reply", NEW r \in Inboxes, s[1] \in InInbox(r)' PROVE FALSE
    <3>1. PICK n \in DOMAIN inbox'[r] : inbox'[r][n] = s[1]
      BY <2>3 DEF InInbox
    <3>2. 1 \in DOMAIN inbox[q] /\ inbox[q][1] = s[1]
      BY <1>1, <1>3
    <3>3. PICK b \in DOMAIN inbox[r] : inbox'[r][n] = inbox[r][b] /\ (b = IF r = q THEN n + 1 ELSE n) /\ n \in Nat
                                      /\ (r = q => n # 0)
      <4>1. r = q => n # 0
        BY <1>3, <1>4
      <4> QED BY <2>1, <4>1
    <3>4. inbox[q][1] = inbox[r][b] /\ inbox[q][1].kind # "reply"
      BY <2>3, <3>1, <3>2, <3>3
    <3>5. q = r /\ 1 = b
      BY <1>11, <3>2, <3>4 DEF Once
    <3> QED BY <3>3, <3>5
  <2> QED BY <2>2, <2>3
<1>12. /\ w # <<>> => w[Len(w)] = s[Len(s)]
       /\ w = <<>> => s[Len(s)] = s[1]
  <2>1. w # <<>> => Len(w) # 0
    BY EmptySeq
  <2>2. CASE Len(w) = 0
    <3>3. Len(s) = 1
      <4>1. Len(w) = Len(s) - 1 /\ Len(s) \in Nat
        BY <1>3
      <4> QED BY <2>2, <4>1
    <3>1. s[Len(s)] = s[1]
      BY <3>3
    <3>2. w = <<>>
      BY <1>2, <2>2
    <3> QED BY <3>1, <3>2
  <2>3. CASE Len(w) # 0
    <3>1. Len(w) \in 1 .. Len(s) - 1 /\ Len(w) + 1 = Len(s)
      BY <1>3, <2>3
    <3>2. w # <<>>
      BY <2>3
    <3> QED BY <1>3, <3>1, <3>2
  <2> QED BY <2>2, <2>3
<1>13. Head(inbox[q]) = s[1]
  BY <1>1, <1>3
<1> HIDE DEF Once, Requests, InInbox
<1> QED BY <1>1, <1>4, <1>5, <1>6, <1>8, <1>9, <1>10, <1>11, <1>12, <1>13

-----------------------------------------------------------------------------
\* What the actions do to the jobs.

\* All of them; and that a job is at no place.
Jobs == JobsProper /\ Once /\ Apart
Nowhere(j) ==
  /\ \A r \in Inboxes : j \notin InInbox(r)
  /\ \A t \in Threads : j \notin live[t]
  /\ \A t \in Threads : Sends(t) => sending[t].job # j

\* No job moves; some may end.
LEMMA JobsStay ==
  ASSUME Jobs, UNCHANGED <<inbox, sending>>, used \subseteq used',
         \A t \in Threads : live'[t] \subseteq live[t] /\ (Sends(t)' => Sends(t))
  PROVE  Jobs'
<1>1. \A q \in Inboxes : InInbox(q)' = InInbox(q)
  BY DEF InInbox
<1>2. Once'
  BY DEF Jobs, Once
<1>3. \A j, q : Proper(j, q) => Proper(j, q)'
  BY DEF Proper, UserJob
<1>4. JobsProper'
  BY <1>1, <1>3 DEF Jobs, JobsProper
<1>5. Apart'
  BY <1>1 DEF Jobs, Apart
<1> QED BY <1>2, <1>4, <1>5 DEF Jobs

\* A job is put into an inbox.
LEMMA JobsPush ==
  ASSUME Types, Jobs, NEW q \in Inboxes, NEW j \in Job, Push(q, j), sending' = sending, used \subseteq used',
         \A t \in Threads : live'[t] \subseteq live[t] /\ (Sends(t)' => Sends(t) /\ sending[t].job # j),
         Proper(j, q)', j.kind = "reply" => q \in CoroThreads, UserJob(j) => q \in Targets,
         j.kind \in {"begin", "finish"} => q \in Threads, j.kind # "reply" => \A r \in Inboxes : j \notin InInbox(r),
         j.kind # "reply" => \A t \in Threads : j \notin live'[t]
  PROVE  Jobs'
<1>1. \A r \in Inboxes : InInbox(r)' = IF r = q THEN InInbox(q) \cup {j} ELSE InInbox(r)
  BY PushProps
<1>2. Once'
  BY PushProps DEF Jobs
<1>3. \A k, r : Proper(k, r) => Proper(k, r)'
  BY DEF Proper, UserJob
<1>4. JobsProper'
  BY <1>1, <1>3 DEF Jobs, JobsProper, UserJob
<1>5. j.kind = "reply" => \A t \in Threads : j \notin live'[t]
  BY DEF Jobs, JobsProper
<1>6. Apart'
  <2>1. \A r \in Inboxes, t \in Threads : InInbox(r)' \cap live'[t] = {}
    BY <1>1, <1>5 DEF Jobs, Apart
  <2>2. ASSUME NEW t \in Threads, Sends(t)'
        PROVE  /\ \A r \in Inboxes : sending'[t].job \notin InInbox(r)'
               /\ \A u \in Threads : sending'[t].job \notin live'[u]
               /\ \A u \in Threads \ {t} : Sends(u)' => sending'[u].job # sending'[t].job
    BY <1>1, <2>2 DEF Jobs, Apart
  <2> QED BY <2>1, <2>2 DEF Apart
<1> QED BY <1>2, <1>4, <1>6 DEF Jobs

\* The first job of an inbox is taken, and handled unless it is a reply.
LEMMA JobsPop ==
  ASSUME Types, Jobs, NEW q \in Inboxes, inbox[q] # <<>>, inbox' = [inbox EXCEPT ![q] = Tail(@)],
         UNCHANGED <<sending, used>>, NEW t \in Threads, q \in {t, Io},
         \A u \in Threads : Sends(u)' => Sends(u),
         \A u \in Threads \ {t} : live'[u] = live[u],
         live'[t] = IF Head(inbox[q]).kind = "reply" THEN live[t] ELSE live[t] \cup {Head(inbox[q])}
  PROVE  Jobs' /\ (Head(inbox[q]).kind # "reply" => Head(inbox[q]) \notin live[t])
<1> DEFINE h == Head(inbox[q])
<1>1. /\ \A r \in Inboxes : InInbox(r)' \subseteq InInbox(r)
      /\ h \in InInbox(q)
      /\ Once'
      /\ h.kind # "reply" => \A r \in Inboxes : h \notin InInbox(r)'
  BY PopProps, InboxProps, ZenonT(60) DEF Jobs
<1> HIDE DEF h
<1>2. \A k, r : Proper(k, r) => Proper(k, r)'
  BY DEF Proper, UserJob
<1>3. Proper(h, q) /\ (h.kind # "reply" => Proper(h, t))
  <2>1. Proper(h, q)
    BY <1>1 DEF Jobs, JobsProper
  <2>2. q = Io => h.kind \notin {"begin", "finish"}
    BY <1>1, ShutdownAssumption DEF Jobs, JobsProper
  <2> QED BY <2>1, <2>2 DEF Proper
<1>4. JobsProper'
  BY <1>1, <1>2, <1>3 DEF Jobs, JobsProper, h
<1>5. \A u \in Threads : h \notin live[u]
  BY <1>1 DEF Jobs, Apart
<1>6. Apart'
  <2>1. ASSUME NEW r \in Inboxes, NEW u \in Threads PROVE InInbox(r)' \cap live'[u] = {}
    BY <1>1 DEF Jobs, Apart, h
  <2>2. ASSUME NEW v \in Threads, Sends(v)'
        PROVE  /\ \A r \in Inboxes : sending'[v].job \notin InInbox(r)'
               /\ \A u \in Threads : sending'[v].job \notin live'[u]
               /\ \A u \in Threads \ {v} : Sends(u)' => sending'[u].job # sending'[v].job
    <3>1. sending[v].job # h
      BY <1>1, <2>2 DEF Jobs, Apart
    <3> QED BY <1>1, <2>2, <3>1 DEF Jobs, Apart, h
  <2> QED BY <2>1, <2>2 DEF Apart
<1> QED BY <1>1, <1>4, <1>5, <1>6 DEF Jobs, h

\* A coroutine is begun.
LEMMA JobsSpawn ==
  ASSUME Jobs, UNCHANGED <<inbox, sending>>, NEW t \in Threads, NEW w \in Work, w \notin used,
         used' = used \cup {w}, \A u \in Threads : Sends(u)' => Sends(u),
         \A u \in Threads : live'[u] = IF u = t THEN live[t] \cup {MkJob("coro", w, None)} ELSE live[u]
  PROVE  Jobs' /\ MkJob("coro", w, None) \notin live[t]
<1>1. PICK j : j = MkJob("coro", w, None)
  OBVIOUS
<1>2. j.kind = "coro" /\ j.id = w /\ UserJob(j)
  BY <1>1 DEF MkJob, UserJob
<1>3. \A q \in Inboxes : InInbox(q)' = InInbox(q)
  BY DEF InInbox
<1>4. Nowhere(j)
  BY <1>2 DEF Nowhere, Jobs, JobsProper, Proper
<1>5. \A k, r : Proper(k, r) => Proper(k, r)'
  BY DEF Proper, UserJob
<1>6. Proper(j, t)'
  BY <1>2 DEF Proper
<1>7. JobsProper'
  BY <1>1, <1>2, <1>3, <1>5, <1>6 DEF Jobs, JobsProper
<1>8. Apart'
  BY <1>1, <1>3, <1>4 DEF Jobs, Apart, Nowhere
<1>9. Once'
  BY DEF Jobs, Once
<1> QED BY <1>1, <1>4, <1>7, <1>8, <1>9 DEF Jobs, Nowhere

\* A request is about to be written.
LEMMA JobsSend ==
  ASSUME Jobs, UNCHANGED <<inbox, live>>, NEW t \in Threads, NEW j, UserJob(j), j.kind \in {"task", "call"},
         j.id \notin used, used' = used \cup {j.id}, j.kind = "call" => j.from \in CoroThreads,
         ~ Sends(t), sending'[t].job = j, \A u \in Threads \ {t} : sending'[u] = sending[u] /\ (Sends(u)' => Sends(u))
  PROVE  Jobs'
<1>1. \A q \in Inboxes : InInbox(q)' = InInbox(q)
  BY DEF InInbox
<1>2. Nowhere(j)
  BY DEF Nowhere, Jobs, JobsProper, Proper
<1>3. \A k, r : Proper(k, r) => Proper(k, r)'
  BY DEF Proper, UserJob
<1>4. Proper(j, t)'
  BY DEF Proper
<1>5. JobsProper'
  BY <1>1, <1>3, <1>4 DEF Jobs, JobsProper
<1>6. Apart'
  BY <1>1, <1>2 DEF Jobs, Apart, Nowhere
<1>7. Once'
  BY DEF Jobs, Once
<1> QED BY <1>5, <1>6, <1>7 DEF Jobs

\* It is written.
LEMMA JobsWrite ==
  ASSUME Types, Jobs, NEW t \in Threads, Sends(t), ~ Sends(t)', Push(sending[t].to, sending[t].job),
         UNCHANGED <<live, used>>,
         \A u \in Threads \ {t} : sending'[u] = sending[u] /\ (Sends(u)' => Sends(u))
  PROVE  Jobs'
<1>1. PICK j \in Job, q \in Targets : j = sending[t].job /\ q = sending[t].to
  BY DEF Types, Sending
<1>2. q \in Inboxes
  BY <1>1 DEF Targets, Inboxes, Threads
<1>3. \A r \in Inboxes : InInbox(r)' = IF r = q THEN InInbox(q) \cup {j} ELSE InInbox(r)
  BY <1>1, <1>2, PushProps
<1>4. /\ \A r \in Inboxes : j \notin InInbox(r)
      /\ \A u \in Threads : j \notin live[u]
      /\ \A u \in Threads \ {t} : Sends(u) => sending[u].job # j
  BY <1>1 DEF Jobs, Apart
<1>5. Once'
  BY <1>1, <1>2, <1>4, PushProps DEF Jobs
<1>6. j.kind \in {"task", "call"} /\ Proper(j, t) /\ Proper(j, q)
  BY <1>1 DEF Jobs, JobsProper, Proper
<1>7. \A k, r : Proper(k, r) => Proper(k, r)'
  BY DEF Proper, UserJob
<1>8. JobsProper'
  BY <1>1, <1>3, <1>6, <1>7 DEF Jobs, JobsProper
<1>9. Apart'
  <2>1. \A r \in Inboxes, u \in Threads : InInbox(r)' \cap live'[u] = {}
    BY <1>3, <1>4 DEF Jobs, Apart
  <2>2. ASSUME NEW v \in Threads, Sends(v)'
        PROVE  /\ \A r \in Inboxes : sending'[v].job \notin InInbox(r)'
               /\ \A u \in Threads : sending'[v].job \notin live'[u]
               /\ \A u \in Threads \ {v} : Sends(u)' => sending'[u].job # sending'[v].job
    <3>1. v # t /\ sending'[v] = sending[v] /\ Sends(v)
      BY <2>2
    <3> QED BY <1>3, <1>4, <3>1 DEF Jobs, Apart
  <2> QED BY <2>1, <2>2 DEF Apart
<1> QED BY <1>5, <1>8, <1>9 DEF Jobs

-----------------------------------------------------------------------------
\* The sums the counter is made of.
RequestSum == SumOf([q \in Inboxes |-> Requests(q)])
ReportedSum == SumOf([t \in Threads |-> Reported(t)])

\* The threads that have counted a request they have not yet written.
Threading == {t \in Threads : Sends(t)}

LEMMA Finite == IsFiniteSet(Threads) /\ IsFiniteSet(Inboxes) /\ NumTargets \in Nat /\ NumTargets > 0 /\ IsFiniteSet(Targets)
<1>1. IsFiniteSet(Threads)
  BY ShutdownAssumption
<1>2. IsFiniteSet(Inboxes)
  BY <1>1, FS_AddElement DEF Inboxes
<1>3. NumTargets \in Nat
  BY <1>1, FS_CardinalityType DEF NumTargets
<1>4. Threads # {}
  BY ShutdownAssumption DEF Threads
<1>5. NumTargets # 0
  BY <1>1, <1>4, FS_EmptySet DEF NumTargets
<1>6. IsFiniteSet(Targets)
  BY <1>2, FS_Subset DEF Targets, Inboxes, Threads
<1> QED BY <1>1, <1>2, <1>3, <1>5, <1>6

\* The sums of the community modules are totals.
LEMMA SumOfRequests ==
  ASSUME \A q \in Inboxes : Requests(q) \in Int
  PROVE  MapThenSumSet(Requests, Threads \cup {Io}) = RequestSum
<1> DEFINE F == [q \in Inboxes |-> Requests(q)]
           P(g) == g = [T \in SUBSET Inboxes |-> IF T = {} THEN 0 ELSE LET x == Pick(T) IN Requests(x) + g[T \ {x}]]
<1>1. F \in [Inboxes -> Int] /\ DOMAIN F = Inboxes
  OBVIOUS
<1>2. ASSUME NEW g PROVE P(g) <=> Sums(g, F, SUBSET Inboxes)
  <2>1. \A T \in SUBSET Inboxes : T # {} => F[Pick(T)] = Requests(Pick(T))
    BY DEF Pick
  <2> HIDE DEF F
  <2> QED BY <2>1 DEF Sums
<1>3. \E g : P(g)
  <2> HIDE DEF P, F
  <2> QED BY <1>1, <1>2, Finite, SumsExist
<1>4. MapThenSumSet(Requests, Inboxes) = (CHOOSE g : P(g))[Inboxes]
  BY DEF MapThenSumSet, MapThenFoldSet, Pick
<1> HIDE DEF P, F
<1>5. PICK g : P(g) /\ g = CHOOSE k : P(k)
  BY <1>3
<1>6. Sums(g, F, SUBSET Inboxes)
  BY <1>2, <1>5
<1>7. PICK k : Sums(k, F, SUBSET Inboxes) /\ SumOf(F) = k[Inboxes]
  BY <1>1, Finite, SumIs
<1>8. g[Inboxes] = k[Inboxes]
  BY <1>1, <1>6, <1>7, Finite, SumsAgree
<1> QED BY <1>4, <1>5, <1>7, <1>8 DEF RequestSum, Inboxes, F

LEMMA SumOfReported ==
  ASSUME \A q \in Threads : Reported(q) \in Int
  PROVE  MapThenSumSet(Reported, Threads) = ReportedSum
<1> DEFINE F == [q \in Threads |-> Reported(q)]
           P(g) == g = [T \in SUBSET Threads |-> IF T = {} THEN 0 ELSE LET x == Pick(T) IN Reported(x) + g[T \ {x}]]
<1>1. F \in [Threads -> Int] /\ DOMAIN F = Threads
  OBVIOUS
<1>2. ASSUME NEW g PROVE P(g) <=> Sums(g, F, SUBSET Threads)
  <2>1. \A T \in SUBSET Threads : T # {} => F[Pick(T)] = Reported(Pick(T))
    BY DEF Pick
  <2> HIDE DEF F
  <2> QED BY <2>1 DEF Sums
<1>3. \E g : P(g)
  <2> HIDE DEF P, F
  <2> QED BY <1>1, <1>2, Finite, SumsExist
<1>4. MapThenSumSet(Reported, Threads) = (CHOOSE g : P(g))[Threads]
  BY DEF MapThenSumSet, MapThenFoldSet, Pick
<1> HIDE DEF P, F
<1>5. PICK g : P(g) /\ g = CHOOSE k : P(k)
  BY <1>3
<1>6. Sums(g, F, SUBSET Threads)
  BY <1>2, <1>5
<1>7. PICK k : Sums(k, F, SUBSET Threads) /\ SumOf(F) = k[Threads]
  BY <1>1, Finite, SumIs
<1>8. g[Threads] = k[Threads]
  BY <1>1, <1>6, <1>7, Finite, SumsAgree
<1> QED BY <1>4, <1>5, <1>7, <1>8 DEF ReportedSum, F

Queued == [q \in Targets |-> Len(inbox[q])]

LEMMA SumOfQueued ==
  ASSUME \A q \in Targets : Len(inbox[q]) \in Int
  PROVE  QueuedAtStart = SumOf(Queued)
<1> DEFINE F == [q \in Targets |-> Len(inbox[q])]
           P(g) == g = [T \in SUBSET Targets |-> IF T = {} THEN 0 ELSE LET x == Pick(T) IN Len(inbox[x]) + g[T \ {x}]]
<1>1. F \in [Targets -> Int] /\ DOMAIN F = Targets
  OBVIOUS
<1>2. ASSUME NEW g PROVE P(g) <=> Sums(g, F, SUBSET Targets)
  <2>1. \A T \in SUBSET Targets : T # {} => F[Pick(T)] = Len(inbox[Pick(T)])
    BY DEF Pick
  <2> HIDE DEF F
  <2> QED BY <2>1 DEF Sums
<1>3. \E g : P(g)
  <2> HIDE DEF P, F
  <2> QED BY <1>1, <1>2, Finite, SumsExist
<1>4. QueuedAtStart = (CHOOSE g : P(g))[Targets]
  BY DEF QueuedAtStart, MapThenSumSet, MapThenFoldSet, Pick
<1> HIDE DEF P, F
<1>5. PICK g : P(g) /\ g = CHOOSE k : P(k)
  BY <1>3
<1>6. Sums(g, F, SUBSET Targets)
  BY <1>2, <1>5
<1>7. PICK k : Sums(k, F, SUBSET Targets) /\ SumOf(F) = k[Targets]
  BY <1>1, Finite, SumIs
<1>8. g[Targets] = k[Targets]
  BY <1>1, <1>6, <1>7, Finite, SumsAgree
<1> QED BY <1>4, <1>5, <1>7, <1>8 DEF Queued, F

\* The parts of the counter.
LEMMA SumTypes ==
  ASSUME Types
  PROVE  /\ \A q \in Inboxes : Requests(q) \in Nat /\ (Requests(q) = 0 => Kinds({"reply"}, q))
         /\ \A t \in Threads : Reported(t) \in Int
         /\ RequestSum \in Nat /\ \A q \in Inboxes : Requests(q) <= RequestSum
         /\ ReportedSum \in Int
         /\ ReportedInv => ReportedSum \in Nat /\ \A t \in Threads : Reported(t) <= ReportedSum
         /\ IsFiniteSet(Threading) /\ Cardinality(Threading) \in Nat
         /\ Cardinality(Threading) = 0 => \A t \in Threads : ~ Sends(t)
         /\ IsFiniteSet(toTell) /\ Cardinality(toTell) \in Nat
         /\ Cardinality(toTell) = 0 => toTell = {}
<1>1. ASSUME NEW q \in Inboxes PROVE Requests(q) \in Nat /\ (Requests(q) = 0 => Kinds({"reply"}, q))
  <2> DEFINE K == {k \in DOMAIN inbox[q] : inbox[q][k].kind # "reply"}
  <2>1. inbox[q] \in Seq(Job)
    BY DEF Types
  <2>2. Len(inbox[q]) \in Nat /\ DOMAIN inbox[q] = 1 .. Len(inbox[q])
    BY <2>1
  <2>3. IsFiniteSet(K)
    <3>1. IsFiniteSet(1 .. Len(inbox[q])) /\ K \subseteq 1 .. Len(inbox[q])
      BY <2>2, FS_Interval
    <3> QED BY <3>1, FS_Subset
  <2>4. K = {} => Kinds({"reply"}, q)
    BY DEF Kinds, InInbox
  <2>5. Requests(q) = Cardinality(K)
    BY DEF Requests
  <2> HIDE DEF K
  <2> QED BY <2>3, <2>4, <2>5, FS_CardinalityType, FS_EmptySet
<1>2. ASSUME NEW t \in Threads PROVE Reported(t) \in Int
  <2>1. Cardinality(live[t]) \in Nat /\ delta[t] \in Int
    BY FS_CardinalityType DEF Types
  <2> QED BY <2>1 DEF Reported
<1>3. PICK f \in [Inboxes -> Nat] : f = [q \in Inboxes |-> Requests(q)]
  <2>1. [q \in Inboxes |-> Requests(q)] \in [Inboxes -> Nat]
    BY <1>1
  <2> QED BY <2>1
<1>4. RequestSum \in Nat /\ \A q \in Inboxes : Requests(q) <= RequestSum
  <2>1. SumOf(f) \in Nat /\ \A q \in Inboxes : f[q] <= SumOf(f)
    BY Finite, SumOfNats
  <2> QED BY <1>3, <2>1 DEF RequestSum
<1>5. ReportedSum \in Int
  <2>1. PICK g \in [Threads -> Int] : g = [t \in Threads |-> Reported(t)]
    <3>1. [t \in Threads |-> Reported(t)] \in [Threads -> Int]
      BY <1>2
    <3> QED BY <3>1
  <2>2. \E t \in Threads : TRUE
    BY ShutdownAssumption DEF Threads
  <2>3. SumOf(g) \in Int
    BY <2>2, Finite, SumChange
  <2> QED BY <2>1, <2>3 DEF ReportedSum
<1>6. ASSUME ReportedInv PROVE ReportedSum \in Nat /\ \A t \in Threads : Reported(t) <= ReportedSum
  <2>1. PICK g \in [Threads -> Nat] : g = [t \in Threads |-> Reported(t)]
    <3>1. [t \in Threads |-> Reported(t)] \in [Threads -> Nat]
      BY <1>2, <1>6 DEF ReportedInv
    <3> QED BY <3>1
  <2>2. SumOf(g) \in Nat /\ \A t \in Threads : g[t] <= SumOf(g)
    BY Finite, SumOfNats
  <2> QED BY <2>1, <2>2 DEF ReportedSum
<1>7. IsFiniteSet(Threading) /\ IsFiniteSet(toTell)
  <2>1. Threading \in SUBSET Threads /\ toTell \in SUBSET Threads
    BY DEF Threading, Types
  <2> QED BY <2>1, Finite, FS_Subset
<1>8. Cardinality(Threading) \in Nat /\ Cardinality(toTell) \in Nat
  BY <1>7, FS_CardinalityType
<1>9. Cardinality(Threading) = 0 => \A t \in Threads : ~ Sends(t)
  <2>1. Cardinality(Threading) = 0 => Threading = {}
    BY <1>7, FS_EmptySet
  <2> QED BY <2>1 DEF Threading
<1>10. Cardinality(toTell) = 0 => toTell = {}
  BY <1>7, FS_EmptySet
<1> QED BY <1>1, <1>2, <1>4, <1>5, <1>6, <1>7, <1>8, <1>9, <1>10

\* That what is added up are numbers, also of the next state.
SumsTyped ==
  /\ \A q \in Inboxes : Requests(q) \in Int
  /\ \A t \in Threads : Reported(t) \in Int

LEMMA SumsStayTyped == Types => SumsTyped
  BY SumTypes DEF SumsTyped

LEMMA SumsTypedNext ==
  ASSUME Types'
  PROVE  /\ \A q \in Inboxes : Requests(q)' \in Int
         /\ \A t \in Threads : Reported(t)' \in Int
<1>1. SumsTyped'
  BY SumsStayTyped, PTL
<1> QED BY <1>1 DEF SumsTyped

\* How they change.
LEMMA RequestsChange ==
  ASSUME Types, Types', NEW q \in Inboxes, \A r \in Inboxes \ {q} : Requests(r)' = Requests(r)
  PROVE  RequestSum' = (RequestSum + Requests(q)') - Requests(q)
<1>1. PICK f \in [Inboxes -> Int] : f = [r \in Inboxes |-> Requests(r)]
  <2>1. [r \in Inboxes |-> Requests(r)] \in [Inboxes -> Int]
    BY SumTypes
  <2> QED BY <2>1
<1>2. PICK h \in [Inboxes -> Int] : h = [r \in Inboxes |-> Requests(r)']
  <2>1. \A r \in Inboxes : Requests(r)' \in Int
    BY SumsTypedNext
  <2>2. [r \in Inboxes |-> Requests(r)'] \in [Inboxes -> Int]
    BY <2>1
  <2> QED BY <2>2
<1>3. \A r \in Inboxes \ {q} : f[r] = h[r]
  BY <1>1, <1>2
<1>4. SumOf(h) = (SumOf(f) + h[q]) - f[q]
  BY <1>3, Finite, SumChange
<1>5. RequestSum = SumOf(f) /\ RequestSum' = SumOf(h)
  BY <1>1, <1>2 DEF RequestSum
<1> QED BY <1>1, <1>2, <1>4, <1>5

LEMMA ReportedChange ==
  ASSUME Types, Types', NEW t \in Threads, \A u \in Threads \ {t} : Reported(u)' = Reported(u)
  PROVE  ReportedSum' = (ReportedSum + Reported(t)') - Reported(t)
<1>1. PICK f \in [Threads -> Int] : f = [r \in Threads |-> Reported(r)]
  <2>1. [r \in Threads |-> Reported(r)] \in [Threads -> Int]
    BY SumTypes
  <2> QED BY <2>1
<1>2. PICK h \in [Threads -> Int] : h = [r \in Threads |-> Reported(r)']
  <2>1. \A r \in Threads : Reported(r)' \in Int
    BY SumsTypedNext
  <2>2. [r \in Threads |-> Reported(r)'] \in [Threads -> Int]
    BY <2>1
  <2> QED BY <2>2
<1>3. \A r \in Threads \ {t} : f[r] = h[r]
  BY <1>1, <1>2
<1>4. SumOf(h) = (SumOf(f) + h[t]) - f[t]
  BY <1>3, Finite, SumChange
<1>5. ReportedSum = SumOf(f) /\ ReportedSum' = SumOf(h)
  BY <1>1, <1>2 DEF ReportedSum
<1> QED BY <1>1, <1>2, <1>4, <1>5

\* They do not change, or one inbox has one request more or less.
LEMMA RequestsStay ==
  ASSUME inbox' = inbox
  PROVE  RequestSum' = RequestSum
  BY DEF RequestSum, Requests

LEMMA ReportedStay ==
  ASSUME \A t \in Threads : Reported(t)' = Reported(t)
  PROVE  ReportedSum' = ReportedSum
  BY DEF ReportedSum

LEMMA RequestsPush ==
  ASSUME Types, Types', NEW q \in Inboxes, NEW j \in Job, Push(q, j)
  PROVE  RequestSum' = IF j.kind # "reply" THEN RequestSum + 1 ELSE RequestSum
<1>1. \A r \in Inboxes : Requests(r)' = IF r = q /\ j.kind # "reply" THEN Requests(q) + 1 ELSE Requests(r)
  BY PushProps
<1>2. RequestSum' = (RequestSum + Requests(q)') - Requests(q)
  BY <1>1, RequestsChange
<1>3. RequestSum \in Int /\ Requests(q) \in Int
  BY SumTypes
<1> QED BY <1>1, <1>2, <1>3

LEMMA RequestsPop ==
  ASSUME Types, Types', NEW q \in Inboxes, inbox[q] # <<>>, inbox' = [inbox EXCEPT ![q] = Tail(@)]
  PROVE  RequestSum' = IF Head(inbox[q]).kind # "reply" THEN RequestSum - 1 ELSE RequestSum
<1>1. \A r \in Inboxes : Requests(r) = IF r = q /\ Head(inbox[q]).kind # "reply" THEN Requests(q)' + 1 ELSE Requests(r)'
  BY PopProps
<1>2. RequestSum' = (RequestSum + Requests(q)') - Requests(q)
  BY <1>1, RequestsChange
<1>3. RequestSum \in Int /\ Requests(q)' \in Int
  BY SumTypes, SumsTypedNext
<1> QED BY <1>1, <1>2, <1>3

\* A coroutine begins or ends.
LEMMA LiveAdd ==
  ASSUME Types, NEW t \in Threads, NEW j, j \notin live[t], live'[t] = live[t] \cup {j}
  PROVE  IsFiniteSet(live'[t]) /\ Cardinality(live[t]) \in Nat /\ Cardinality(live'[t]) = Cardinality(live[t]) + 1
  BY FS_AddElement, FS_CardinalityType DEF Types

LEMMA LiveRemove ==
  ASSUME Types, NEW t \in Threads, NEW j \in live[t], live'[t] = live[t] \ {j}
  PROVE  /\ IsFiniteSet(live'[t]) /\ Cardinality(live'[t]) \in Nat
         /\ Cardinality(live[t]) \in Nat /\ Cardinality(live'[t]) = Cardinality(live[t]) - 1
<1>1. IsFiniteSet(live[t])
  BY DEF Types
<1>2. IsFiniteSet(live[t] \ {j}) /\ Cardinality(live[t] \ {j}) = Cardinality(live[t]) - 1
  BY <1>1, FS_RemoveElement
<1> QED BY <1>1, <1>2, FS_CardinalityType

-----------------------------------------------------------------------------
\* The count: requests queued or about to be, what the threads have reported, what
\* begin_shutdown still owes, and what the end of the run has added for finish.
Dummy == IF main = "running" THEN 1 ELSE 0
Owed == IF finishSent \/ \E t \in Threads : tpc[t] = "store" THEN NumTargets ELSE 0

CountInv ==
  main # "idle" =>
    count = (((RequestSum + ReportedSum) + Cardinality(Threading)) + Cardinality(toTell)) + (Dummy + Owed)

\* The inductive invariant.
Phases == Before /\ Ends /\ After
Inv == Types /\ Jobs /\ Phases /\ WaitersLive /\ ReportedInv /\ CountInv

-----------------------------------------------------------------------------
\* Every step keeps the types.
LEMMA TypesStep ==
  ASSUME Types, Jobs, ~ Chaining, [Next]_vars
  PROVE  Types'
<1>1. ASSUME NEW q \in Targets, NEW w \in Work, Enqueue(q, w) PROVE Types'
  <2>1. MkJob("task", w, None) \in Job /\ q \in Inboxes
    BY DEF Job, MkJob, Inboxes, Targets, Threads
  <2>2. inbox' \in [Inboxes -> Seq(Job)]
    BY <1>1, <2>1, PushProps DEF Enqueue
  <2> QED
    BY <1>1, <2>2
    DEF Enqueue, Types, Sends, vars, mainVars, counterVars, ioVars, replyVars, threadVars
<1>2. ASSUME Run PROVE Types'
  <2>1. \A q \in Targets : Len(inbox[q]) \in Int
    BY DEF Types, Targets, Inboxes, Threads
  <2>2. Queued \in [Targets -> Int] /\ \E q \in Targets : TRUE
    BY <2>1 DEF Queued, Targets
  <2>3. QueuedAtStart \in Int
    <3>1. SumOf(Queued) \in Int
      BY <2>2, Finite, SumChange
    <3> QED BY <2>1, <3>1, SumOfQueued
  <2>4. runs' \in 0 .. MaxRuns
    BY <1>2, ShutdownAssumption DEF Run, Types
  <2>5. /\ tpc' = [t \in Threads |-> "poll"] /\ stop' = [t \in Threads |-> FALSE]
        /\ count' \in Int /\ main' = "running" /\ finishSent' = FALSE
        /\ UNCHANGED <<toTell, inbox, used, delta, live, sending, finishing, event, replyVars, ioVars>>
    BY <1>2, <2>3 DEF Run
  <2>6. \A t \in Threads : ~ Sends(t)'
    BY <2>5 DEF Sends
  <2>7. tpc' \in [Threads -> {"paused", "poll", "repoll", "run", "spin", "sending", "add", "store", "tell"}]
        /\ stop' \in [Threads -> BOOLEAN]
    BY <2>5
  <2> QED BY <2>4, <2>5, <2>6, <2>7 DEF Types, ioVars, replyVars
<1>3. ASSUME BeginShutdown PROVE Types'
  BY <1>3, Finite
  DEF BeginShutdown, Types, Sends, vars, mainVars, counterVars, ioVars, replyVars, threadVars
<1>4. ASSUME NEW t \in Threads, TellBegin(t) PROVE Types'
  <2>1. MkJob("begin", t, None) \in Job /\ t \in Inboxes
    BY DEF Job, MkJob, Inboxes, Targets, Threads
  <2>2. inbox' \in [Inboxes -> Seq(Job)]
    BY <1>4, <2>1, PushProps DEF TellBegin
  <2> QED
    BY <1>4, <2>2
    DEF TellBegin, Types, Sends, vars, mainVars, counterVars, ioVars, replyVars, threadVars
<1>5. ASSUME RunReturns PROVE Types'
  BY <1>5
  DEF RunReturns, Types, Sends, vars, mainVars, counterVars, ioVars, replyVars, threadVars
<1>6. ASSUME NEW t \in Threads, Enter(t) PROVE Types'
  BY <1>6 DEF Enter, Types, Sends, vars, mainVars, counterVars, ioVars, replyVars, threadVars
<1>7. ASSUME NEW t \in Threads, RunEnd(t) PROVE Types'
  BY <1>7
  DEF RunEnd, AfterRun, Types, Sends, vars, mainVars, counterVars, ioVars, replyVars,
      threadVars
<1>8. ASSUME NEW t \in Threads, AddTargets(t) PROVE Types'
  BY <1>8, Finite
  DEF AddTargets, Types, Sends, vars, mainVars, counterVars, ioVars, replyVars, threadVars
<1>9. ASSUME NEW t \in Threads, StoreFinish(t) PROVE Types'
  BY <1>9
  DEF StoreFinish, Types, Sends, vars, mainVars, counterVars, ioVars, replyVars, threadVars
<1>10. ASSUME NEW t \in Threads, NEW u \in Threads, TellFinish(t, u) PROVE Types'
  <2>1. MkJob("finish", u, None) \in Job /\ u \in Inboxes
    BY DEF Job, MkJob, Inboxes, Targets, Threads
  <2>2. inbox' \in [Inboxes -> Seq(Job)]
    BY <1>10, <2>1, PushProps DEF TellFinish
  <2> QED
    BY <1>10, <2>2
    DEF TellFinish, Types, Sends, AfterRun, vars, mainVars, counterVars, ioVars, replyVars,
        threadVars
<1>11. ASSUME NEW t \in Threads, AcceptTask(t) PROVE Types'
  <2>1. t \in Inboxes /\ inbox[t] # <<>> /\ inbox' = [inbox EXCEPT ![t] = Tail(@)]
    BY <1>11 DEF AcceptTask, Inboxes
  <2>2. inbox' \in [Inboxes -> Seq(Job)] /\ Head(inbox[t]) \in Job
    BY <2>1, PopProps, InboxProps
  <2>3. live' = [live EXCEPT ![t] = @ \cup {Head(inbox[t])}]
    BY <1>11 DEF AcceptTask
  <2>4. \A u \in Threads : IsFiniteSet(live'[u])
    BY <2>3, FS_AddElement, ZenonT(60) DEF Types
  <2>5. live' \in [Threads -> SUBSET Job]
    BY <2>2, <2>3 DEF Types
  <2>6. delta' \in [Threads -> Int]
    BY <1>11 DEF AcceptTask, Types
  <2> QED
    BY <1>11, <2>2, <2>4, <2>5, <2>6
    DEF AcceptTask, Types, Sends, vars, mainVars, counterVars, ioVars, replyVars, threadVars
<1>12. ASSUME NEW t \in Threads, AcceptReply(t) PROVE Types'
  <2>1. t \in Inboxes /\ inbox[t] # <<>> /\ inbox' = [inbox EXCEPT ![t] = Tail(@)]
    BY <1>12 DEF AcceptReply, Inboxes
  <2>2. inbox' \in [Inboxes -> Seq(Job)]
    BY <2>1, PopProps
  <2>3. UNCHANGED <<live, delta, chained>>
    BY <1>12 DEF AcceptReply, Types
  <2> QED
    BY <1>12, <2>2, <2>3
    DEF AcceptReply, Types, Sends, vars, mainVars, counterVars, ioVars, replyVars, threadVars
<1>13. ASSUME NEW t \in Threads, PullStart(t) PROVE Types'
  BY <1>13
  DEF PullStart, Types, Sends, vars, mainVars, counterVars, ioVars, replyVars, threadVars
<1>14. ASSUME NEW t \in Threads, AcceptIo(t) PROVE Types'
  <2>1. Io \in Inboxes /\ inbox[Io] # <<>> /\ inbox' = [inbox EXCEPT ![Io] = Tail(@)]
    BY <1>14 DEF AcceptIo, Inboxes
  <2>2. inbox' \in [Inboxes -> Seq(Job)] /\ Head(inbox[Io]) \in Job
    BY <2>1, PopProps, InboxProps
  <2>3. live' = [live EXCEPT ![t] = @ \cup {Head(inbox[Io])}]
    BY <1>14 DEF AcceptIo
  <2>4. \A u \in Threads : IsFiniteSet(live'[u])
    BY <2>3, FS_AddElement, ZenonT(60) DEF Types
  <2>5. live' \in [Threads -> SUBSET Job]
    BY <2>2, <2>3 DEF Types
  <2>6. delta' \in [Threads -> Int]
    BY <1>14 DEF AcceptIo, Types
  <2> QED
    BY <1>14, <2>2, <2>4, <2>5, <2>6
    DEF AcceptIo, Types, Sends, vars, mainVars, counterVars, ioVars, replyVars, threadVars
<1>15. ASSUME NEW t \in Threads, NEW j \in live[t], NEW w \in Work, Spawn(t, j, w) PROVE Types'
  <2>1. MkJob("coro", w, None) \in Job
    BY DEF Job, MkJob
  <2>2. live' = [live EXCEPT ![t] = @ \cup {MkJob("coro", w, None)}]
    BY <1>15 DEF Spawn
  <2>3. \A u \in Threads : IsFiniteSet(live'[u])
    BY <2>2, FS_AddElement, ZenonT(60) DEF Types
  <2>4. live' \in [Threads -> SUBSET Job] /\ delta' \in [Threads -> Int]
    BY <1>15, <2>1, <2>2 DEF Spawn, Types
  <2> QED
    BY <1>15, <2>3, <2>4
    DEF Spawn, Types, Sends, vars, mainVars, counterVars, ioVars, replyVars, threadVars
<1>16. ASSUME NEW t \in Threads, NEW j \in live[t], NEW q \in Targets, NEW w \in Work,
             NEW mode \in {"noreply", "sync", "async", "then"}, NoteSend(t, j, q, w, mode)
             PROVE Types'
  <2>1. mode # "then"
    BY <1>16 DEF NoteSend
  <2>2. MkJob("task", w, None) \in Job /\ MkJob("call", w, t) \in Job
    BY DEF Job, MkJob
  <2>3. j.id \in Work \cup Threads
    BY DEF Types, Job
  <2>4. sending'[t] \in Sending /\ sending' \in [Threads -> Sending \cup {None}]
    BY <1>16, <2>1, <2>2, <2>3 DEF NoteSend, Types, Sending
  <2>5. \A u \in Threads \ {t} : sending'[u] = sending[u] /\ tpc'[u] = tpc[u]
    BY <1>16 DEF NoteSend, Types
  <2>6. \A u \in Threads : Sends(u)' => sending'[u] \in Sending
    BY <2>4, <2>5 DEF Types, Sends
  <2> QED
    BY <1>16, <2>4, <2>6
    DEF NoteSend, Types, vars, mainVars, counterVars, ioVars, replyVars, threadVars
<1>17. ASSUME NEW t \in Threads, WriteRequest(t) PROVE Types'
  <2>1. sending[t].job \in Job /\ sending[t].to \in Inboxes /\ sending[t].mode # "then"
    BY <1>17 DEF WriteRequest, Types, Sends, Sending, Targets, Inboxes, Threads
  <2>2. inbox' \in [Inboxes -> Seq(Job)]
    BY <1>17, <2>1, PushProps DEF WriteRequest
  <2>3. chained' = {}
    BY <1>17, <2>1 DEF WriteRequest, Types
  <2> QED
    BY <1>17, <2>2, <2>3
    DEF WriteRequest, Types, Sends, vars, mainVars, counterVars, ioVars, replyVars, threadVars
<1>18. ASSUME NEW t \in Threads, NEW j \in live[t], EndJob(t, j) PROVE Types'
  <2>1. inbox' \in [Inboxes -> Seq(Job)]
    <3>1. CASE j.kind = "call"
      <4>1. j.from \in Inboxes /\ MkJob("reply", j.id, None) \in Job
        BY <3>1 DEF Jobs, JobsProper, Proper, Inboxes, Threads, Types, Job, MkJob
      <4> QED BY <1>18, <3>1, <4>1, PushProps DEF EndJob
    <3> QED BY <1>18, <3>1 DEF EndJob, Types
  <2>2. live' = [live EXCEPT ![t] = @ \ {j}]
    BY <1>18 DEF EndJob, Release
  <2>3. \A u \in Threads : IsFiniteSet(live'[u])
    BY <2>2, FS_Subset DEF Types
  <2>4. live' \in [Threads -> SUBSET Job] /\ delta' \in [Threads -> Int]
    BY <1>18, <2>2 DEF EndJob, Release, Types
  <2> QED
    BY <1>18, <2>1, <2>3, <2>4
    DEF EndJob, Types, Sends, vars, mainVars, counterVars, ioVars, replyVars, threadVars
<1>19. ASSUME NEW t \in Threads, HandleBegin(t) PROVE Types'
  <2>1. inbox' \in [Inboxes -> Seq(Job)]
    BY <1>19 DEF HandleBegin, Types
  <2>2. live' = [live EXCEPT ![t] = @ \ {MkJob("begin", t, None)}]
    BY <1>19 DEF HandleBegin, Release
  <2>3. \A u \in Threads : IsFiniteSet(live'[u])
    BY <2>2, FS_Subset DEF Types
  <2>4. live' \in [Threads -> SUBSET Job] /\ delta' \in [Threads -> Int]
    BY <1>19, <2>2 DEF HandleBegin, Release, Types
  <2> QED
    BY <1>19, <2>1, <2>3, <2>4
    DEF HandleBegin, Types, Sends, vars, mainVars, counterVars, ioVars, replyVars, threadVars
<1>20. ASSUME NEW t \in Threads, HandleFinish(t) PROVE Types'
  <2>1. inbox' \in [Inboxes -> Seq(Job)]
    BY <1>20 DEF HandleFinish, Types
  <2>2. live' = [live EXCEPT ![t] = @ \ {MkJob("finish", t, None)}]
    BY <1>20 DEF HandleFinish, Release
  <2>3. \A u \in Threads : IsFiniteSet(live'[u])
    BY <2>2, FS_Subset DEF Types
  <2>4. live' \in [Threads -> SUBSET Job] /\ delta' \in [Threads -> Int]
    BY <1>20, <2>2 DEF HandleFinish, Release, Types
  <2> QED
    BY <1>20, <2>1, <2>3, <2>4
    DEF HandleFinish, Types, Sends, vars, mainVars, counterVars, ioVars, replyVars, threadVars
<1>21. ASSUME UNCHANGED vars PROVE Types'
  BY <1>21 DEF Types, Sends, vars, mainVars, counterVars, ioVars, replyVars, threadVars
<1>22. ASSUME NEW t \in Threads, LoseMessage(t) PROVE Types'
  BY <1>22
  DEF LoseMessage, Types, Sends, vars, mainVars, counterVars, ioVars, replyVars, threadVars
<1> QED
  BY <1>1, <1>2, <1>3, <1>4, <1>5, <1>6, <1>7, <1>8, <1>9, <1>10, <1>11, <1>12, <1>13,
     <1>14, <1>15, <1>16, <1>17, <1>18, <1>19, <1>20, <1>21, <1>22
  DEF Next, MainNext, ThreadNext, SomeJobEnds, Send

-----------------------------------------------------------------------------
\* MkJob makes jobs.
LEMMA MadeJobs ==
  \A i \in Work \cup Threads, k \in {"task", "call", "coro", "begin", "finish", "reply"} :
    MkJob(k, i, None) \in Job /\ MkJob(k, i, None).kind = k /\ MkJob(k, i, None).id = i
  BY DEF Job, MkJob

\* Every step keeps the jobs apart.
LEMMA JobsStep ==
  ASSUME Types, Jobs, Phases, ~ Chaining, [Next]_vars
  PROVE  Jobs'
<1>1. ASSUME NEW q \in Targets, NEW w \in Work, Enqueue(q, w) PROVE Jobs'
  <2>1. PICK x \in Job : x = MkJob("task", w, None) /\ x.kind = "task" /\ x.id = w
    BY MadeJobs
  <2>2. Nowhere(x)
    BY <1>1, <2>1 DEF Enqueue, Nowhere, Jobs, JobsProper, Proper, UserJob
  <2>3. UNCHANGED <<sending, live>> /\ used \subseteq used' /\ Push(q, x) /\ \A t \in Threads : Sends(t)' => Sends(t)
    BY <1>1, <2>1 DEF Enqueue, Types, Sends, vars, mainVars, threadVars
  <2>4. Proper(x, q)' /\ q \in Inboxes
    BY <1>1, <2>1 DEF Enqueue, Proper, UserJob, Inboxes, Targets, Threads
  <2> QED BY <2>1, <2>2, <2>3, <2>4, JobsPush DEF Nowhere, UserJob, Inboxes
<1>2. ASSUME Run PROVE Jobs'
  BY <1>2, JobsStay DEF Run, Types, Sends, vars, mainVars, threadVars
<1>3. ASSUME BeginShutdown PROVE Jobs'
  BY <1>3, JobsStay DEF BeginShutdown, Types, Sends, vars, mainVars, threadVars
<1>4. ASSUME NEW t \in Threads, TellBegin(t) PROVE Jobs'
  <2>1. PICK x \in Job : x = MkJob("begin", t, None) /\ x.kind = "begin" /\ x.id = t
    BY MadeJobs
  <2>2. Nowhere(x)
    <3>1. MkJob("begin", t, None) \notin InInbox(t) \cup live[t]
      BY <1>4 DEF TellBegin, Phases, Before, BeginAt
    <3>2. \A r \in Inboxes : t # r => x \notin InInbox(r)
      BY <2>1 DEF Jobs, JobsProper, Proper, MkJob
    <3>3. \A u \in Threads : t # u => x \notin live[u]
      BY <2>1 DEF Jobs, JobsProper, Proper, MkJob
    <3> QED BY <2>1, <3>1, <3>2, <3>3 DEF Nowhere, Jobs, JobsProper, UserJob, Inboxes
  <2>3. UNCHANGED <<sending, live>> /\ used \subseteq used' /\ Push(t, x) /\ \A u \in Threads : Sends(u)' => Sends(u)
    BY <1>4, <2>1 DEF TellBegin, Types, Sends, vars, mainVars, threadVars
  <2>4. Proper(x, t)' /\ t \in Inboxes
    BY <1>4, <2>1 DEF TellBegin, Proper, UserJob, Inboxes, Targets, Threads
  <2> QED BY <2>1, <2>2, <2>3, <2>4, JobsPush DEF Nowhere, UserJob, Inboxes
<1>5. ASSUME RunReturns PROVE Jobs'
  BY <1>5, JobsStay DEF RunReturns, Types, Sends, vars, mainVars, threadVars
<1>6. ASSUME NEW t \in Threads, Enter(t) PROVE Jobs'
  BY <1>6, JobsStay DEF Enter, Types, Sends, vars, mainVars, threadVars
<1>7. ASSUME NEW t \in Threads, RunEnd(t) PROVE Jobs'
  BY <1>7, JobsStay DEF RunEnd, Types, AfterRun, Sends, vars, mainVars, threadVars
<1>8. ASSUME NEW t \in Threads, AddTargets(t) PROVE Jobs'
  BY <1>8, JobsStay DEF AddTargets, Types, Sends, vars, mainVars, threadVars
<1>9. ASSUME NEW t \in Threads, StoreFinish(t) PROVE Jobs'
  BY <1>9, JobsStay DEF StoreFinish, Types, Sends, vars, mainVars, threadVars
<1>10. ASSUME NEW t \in Threads, NEW u \in Threads, TellFinish(t, u) PROVE Jobs'
  <2>1. PICK x \in Job : x = MkJob("finish", u, None) /\ x.kind = "finish" /\ x.id = u
    BY MadeJobs
  <2>2. Nowhere(x)
    <3>1. MkJob("finish", u, None) \notin InInbox(u) \cup live[u]
      BY <1>10 DEF TellFinish, Phases, After, FinishAt, FinishIn, FinishLive
    <3>2. \A r \in Inboxes : u # r => x \notin InInbox(r)
      BY <2>1 DEF Jobs, JobsProper, Proper, MkJob
    <3>3. \A v \in Threads : u # v => x \notin live[v]
      BY <2>1 DEF Jobs, JobsProper, Proper, MkJob
    <3> QED BY <2>1, <3>1, <3>2, <3>3 DEF Nowhere, Jobs, JobsProper, UserJob, Inboxes
  <2>3. UNCHANGED <<sending, live>> /\ used \subseteq used' /\ Push(u, x) /\ \A v \in Threads : Sends(v)' => Sends(v)
    BY <1>10, <2>1 DEF TellFinish, Types, AfterRun, Sends, vars, mainVars, threadVars
  <2>4. Proper(x, u)' /\ u \in Inboxes
    BY <1>10, <2>1 DEF TellFinish, Proper, UserJob, Inboxes, Targets, Threads
  <2> QED BY <2>1, <2>2, <2>3, <2>4, JobsPush DEF Nowhere, UserJob, Inboxes
<1>11. ASSUME NEW t \in Threads, AcceptTask(t) PROVE Jobs'
  <2>1. t \in Inboxes /\ inbox[t] # <<>> /\ inbox' = [inbox EXCEPT ![t] = Tail(@)]
    BY <1>11 DEF AcceptTask, Inboxes
  <2>2. UNCHANGED <<sending, used>> /\ \A u \in Threads : Sends(u)' => Sends(u)
    BY <1>11 DEF AcceptTask, Sends, vars, mainVars, threadVars
  <2>3. /\ \A u \in Threads \ {t} : live'[u] = live[u]
        /\ live'[t] = IF Head(inbox[t]).kind = "reply" THEN live[t] ELSE live[t] \cup {Head(inbox[t])}
    BY <1>11 DEF AcceptTask, Types
  <2> QED BY <2>1, <2>2, <2>3, JobsPop
<1>12. ASSUME NEW t \in Threads, AcceptReply(t) PROVE Jobs'
  <2>1. t \in Inboxes /\ inbox[t] # <<>> /\ inbox' = [inbox EXCEPT ![t] = Tail(@)]
    BY <1>12 DEF AcceptReply, Inboxes
  <2>2. UNCHANGED <<sending, used>> /\ \A u \in Threads : Sends(u)' => Sends(u)
    BY <1>12 DEF AcceptReply, Sends, vars, mainVars, threadVars
  <2>3. /\ \A u \in Threads \ {t} : live'[u] = live[u]
        /\ live'[t] = IF Head(inbox[t]).kind = "reply" THEN live[t] ELSE live[t] \cup {Head(inbox[t])}
    BY <1>12 DEF AcceptReply, Types
  <2> QED BY <2>1, <2>2, <2>3, JobsPop
<1>13. ASSUME NEW t \in Threads, PullStart(t) PROVE Jobs'
  BY <1>13, JobsStay DEF PullStart, Types, Sends, vars, mainVars, threadVars
<1>14. ASSUME NEW t \in Threads, AcceptIo(t) PROVE Jobs'
  <2>0. Head(inbox[Io]).kind # "reply"
    BY <1>14, InboxProps, ShutdownAssumption DEF AcceptIo, Inboxes, Jobs, JobsProper, Threads
  <2>1. Io \in Inboxes /\ inbox[Io] # <<>> /\ inbox' = [inbox EXCEPT ![Io] = Tail(@)]
    BY <1>14 DEF AcceptIo, Inboxes
  <2>2. UNCHANGED <<sending, used>> /\ \A u \in Threads : Sends(u)' => Sends(u)
    BY <1>14 DEF AcceptIo, Sends, vars, mainVars, threadVars
  <2>3. /\ \A u \in Threads \ {t} : live'[u] = live[u]
        /\ live'[t] = IF Head(inbox[Io]).kind = "reply" THEN live[t] ELSE live[t] \cup {Head(inbox[Io])}
    BY <1>14, <2>0 DEF AcceptIo, Types
  <2> QED BY <2>1, <2>2, <2>3, JobsPop
<1>15. ASSUME NEW t \in Threads, NEW j \in live[t], NEW w \in Work, Spawn(t, j, w) PROVE Jobs'
  BY <1>15, JobsSpawn DEF Spawn, Types, Sends, vars, mainVars, threadVars
<1>16. ASSUME NEW t \in Threads, NEW j \in live[t], NEW q \in Targets, NEW w \in Work,
             NEW mode \in {"noreply", "sync", "async", "then"}, NoteSend(t, j, q, w, mode)
             PROVE Jobs'
  <2>1. PICK x : x = IF mode = "noreply" THEN MkJob("task", w, None) ELSE MkJob("call", w, t)
    OBVIOUS
  <2>2. UserJob(x) /\ x.kind \in {"task", "call"} /\ x.id = w /\ (x.kind = "call" => x.from \in CoroThreads)
    BY <1>16, <2>1 DEF NoteSend, UserJob, MkJob
  <2>3. /\ UNCHANGED <<inbox, live>> /\ used' = used \cup {x.id} /\ x.id \notin used
        /\ ~ Sends(t) /\ sending'[t].job = x
        /\ \A u \in Threads \ {t} : sending'[u] = sending[u] /\ (Sends(u)' => Sends(u))
    BY <1>16, <2>1, <2>2 DEF NoteSend, Runnable, Types, Sends
  <2> QED BY <2>2, <2>3, JobsSend
<1>17. ASSUME NEW t \in Threads, WriteRequest(t) PROVE Jobs'
  <2>1. /\ Sends(t) /\ ~ Sends(t)' /\ Push(sending[t].to, sending[t].job) /\ UNCHANGED <<live, used>>
        /\ \A u \in Threads \ {t} : sending'[u] = sending[u] /\ (Sends(u)' => Sends(u))
    BY <1>17 DEF WriteRequest, Types, Sends
  <2> QED BY <2>1, JobsWrite
<1>18. ASSUME NEW t \in Threads, NEW j \in live[t], EndJob(t, j) PROVE Jobs'
  <2>1. /\ UNCHANGED <<sending, used>>
        /\ \A u \in Threads : live'[u] \subseteq live[u] /\ (Sends(u)' => Sends(u))
    BY <1>18 DEF EndJob, Release, Types, Sends, vars, mainVars, threadVars
  <2>2. CASE j.kind = "call"
    <3>1. PICK x \in Job : x = MkJob("reply", j.id, None) /\ x.kind = "reply"
      <4>1. j \in Job
        BY DEF Types
      <4>2. j.id \in Work \cup Threads
        BY <4>1 DEF Job
      <4> QED BY <4>2, MadeJobs
    <3>2. j.from \in Inboxes /\ j.from \in CoroThreads /\ Push(j.from, x)
      BY <1>18, <2>2, <3>1 DEF EndJob, Jobs, JobsProper, Proper, Inboxes, Threads
    <3>3. Proper(x, j.from)' /\ \A u \in Threads : Sends(u) => sending[u].job # x
      BY <3>1 DEF Proper, UserJob, Jobs, JobsProper
    <3> QED BY <2>1, <3>1, <3>2, <3>3, JobsPush DEF UserJob
  <2>3. CASE j.kind # "call"
    BY <1>18, <2>1, <2>3, JobsStay DEF EndJob
  <2> QED BY <2>2, <2>3
<1>19. ASSUME NEW t \in Threads, HandleBegin(t) PROVE Jobs'
  BY <1>19, JobsStay DEF HandleBegin, Release, Types, Sends, vars, mainVars, threadVars
<1>20. ASSUME NEW t \in Threads, HandleFinish(t) PROVE Jobs'
  BY <1>20, JobsStay DEF HandleFinish, Release, Types, Sends, vars, mainVars, threadVars
<1>21. ASSUME UNCHANGED vars PROVE Jobs'
  BY <1>21, JobsStay DEF Sends, vars, mainVars, threadVars
<1>22. ASSUME NEW t \in Threads, LoseMessage(t) PROVE Jobs'
  BY <1>22, JobsStay DEF LoseMessage, Types, Sends, vars, mainVars, threadVars
<1> QED
  BY <1>1, <1>2, <1>3, <1>4, <1>5, <1>6, <1>7, <1>8, <1>9, <1>10, <1>11, <1>12, <1>13,
     <1>14, <1>15, <1>16, <1>17, <1>18, <1>19, <1>20, <1>21, <1>22
  DEF Next, MainNext, ThreadNext, SomeJobEnds, Send

-----------------------------------------------------------------------------
\* Every step keeps the count.  The sums change by what the step adds to or
\* takes from the parts, and the counter by the sum of that.
LEMMA OwedType == Dummy \in Nat /\ Owed \in Nat
  BY Finite DEF Dummy, Owed

\* Nothing that is counted changes.
LEMMA SumsStay ==
  ASSUME ReportedInv, CountInv, UNCHANGED <<live, delta, tpc, toTell, main, finishSent, count>>,
         inbox' = inbox \/ RequestSum' = RequestSum
  PROVE  ReportedInv' /\ CountInv'
<1>1. \A t \in Threads : Reported(t)' = Reported(t)
  BY DEF Reported
<1>2. ReportedSum' = ReportedSum /\ RequestSum' = RequestSum
  BY <1>1, ReportedStay, RequestsStay
<1>3. Threading' = Threading /\ Dummy' = Dummy /\ Owed' = Owed
  BY DEF Threading, Sends, Dummy, Owed
<1>4. CountInv'
  BY <1>2, <1>3 DEF CountInv
<1>5. ReportedInv'
  BY <1>1 DEF ReportedInv
<1> QED BY <1>4, <1>5

\* What one thread has reported changes.
LEMMA OneReported ==
  ASSUME Types, Types', ReportedInv, NEW t \in Threads, NEW b \in Int,
         \A u \in Threads \ {t} : live'[u] = live[u] /\ delta'[u] = delta[u] /\ tpc'[u] = tpc[u],
         Reported(t)' = Reported(t) + b, Reported(t)' >= 0, live'[t] # {} => Reported(t)' >= 1
  PROVE  ReportedSum' = ReportedSum + b /\ ReportedInv'
<1>1. \A u \in Threads \ {t} : Reported(u)' = Reported(u)
  BY DEF Reported
<1>2. ReportedSum' = (ReportedSum + Reported(t)') - Reported(t)
  BY <1>1, ReportedChange
<1>3. ReportedSum \in Int /\ Reported(t) \in Int
  BY SumTypes
<1>4. ReportedSum' = ReportedSum + b
  BY <1>2, <1>3
<1>5. ReportedInv'
  BY <1>1 DEF ReportedInv
<1> QED BY <1>4, <1>5

\* The counter moves with its parts.
LEMMA CountMoves ==
  ASSUME Types, CountInv, main # "idle",
         NEW a \in Int, NEW b \in Int, NEW c \in Int, NEW d \in Int, NEW e \in Int,
         RequestSum' = RequestSum + a, ReportedSum' = ReportedSum + b,
         Cardinality(Threading)' = Cardinality(Threading) + c,
         Cardinality(toTell)' = Cardinality(toTell) + d,
         Dummy' + Owed' = (Dummy + Owed) + e,
         count' = count + ((((a + b) + c) + d) + e)
  PROVE  CountInv'
<1>1. /\ RequestSum \in Int /\ ReportedSum \in Int
      /\ Cardinality(Threading) \in Int /\ Cardinality(toTell) \in Int
      /\ Dummy + Owed \in Int
  BY SumTypes, OwedType
<1>2. count = (((RequestSum + ReportedSum) + Cardinality(Threading)) + Cardinality(toTell)) + (Dummy + Owed)
  BY DEF CountInv
<1>3. count' = (((RequestSum' + ReportedSum') + Cardinality(Threading)') + Cardinality(toTell)') + (Dummy' + Owed')
  BY <1>1, <1>2
<1> QED BY <1>3 DEF CountInv

\* Every step keeps the count.
LEMMA CountStep ==
  ASSUME Types, Types', Jobs, Phases, ReportedInv, CountInv, ~ Chaining, [Next]_vars
  PROVE  ReportedInv' /\ CountInv'
<1>1. ASSUME NEW q \in Targets, NEW w \in Work, Enqueue(q, w) PROVE ReportedInv' /\ CountInv'
  <2>1. \A t \in Threads : Reported(t)' = Reported(t)
    BY <1>1 DEF Enqueue, Reported, vars, mainVars, counterVars, ioVars, replyVars, threadVars
  <2> QED
    BY <1>1, <2>1
    DEF Enqueue, CountInv, ReportedInv, vars, mainVars, counterVars, ioVars, replyVars,
        threadVars
<1>2. ASSUME Run PROVE ReportedInv' /\ CountInv'
  <2>1. /\ \A t \in Threads : Reported(t) = 0 /\ Reported(t)' = 0 /\ live'[t] = {} /\ ~ Sends(t)'
        /\ \A t \in Threads : tpc'[t] # "store"
    <3>1. \A t \in Threads : live[t] = {} /\ live'[t] = {} /\ tpc[t] = "paused" /\ tpc'[t] = "poll"
      BY <1>2 DEF Run, Phases, Before
    <3>2. Cardinality({}) = 0
      BY FS_EmptySet
    <3>3. \A t \in Threads : Cardinality(live[t]) = 0 /\ Cardinality(live'[t]) = 0
      BY <3>1, <3>2
    <3>4. \A t \in Threads : Reported(t) = 0 /\ Reported(t)' = 0
      BY <3>1, <3>3 DEF Reported
    <3> QED BY <3>1, <3>4 DEF Sends
  <2>2. ReportedInv'
    BY <2>1 DEF ReportedInv
  <2>3. ReportedSum' = 0
    <3>1. ReportedSum' = SumOf([t \in Threads |-> 0])
      BY <2>1 DEF ReportedSum
    <3> QED BY <3>1, Finite, SumOfZeros
  <2>4. Cardinality(Threading)' = 0 /\ Cardinality(toTell)' = 0
    <3>1. Threading' = {} /\ toTell' = {}
      BY <1>2, <2>1 DEF Threading, Run, Phases, Before
    <3> QED BY <3>1, FS_EmptySet
  <2>5. RequestSum' = QueuedAtStart
    <3>1. ASSUME NEW q \in Inboxes
          PROVE  Requests(q) = Len(inbox[q]) /\ Len(inbox[q]) \in Nat /\ (q \notin Targets => Len(inbox[q]) = 0)
      <4>1. inbox[q] \in Seq(Job) /\ Kinds({"task"}, q)
        BY <1>2 DEF Run, Types, Phases, Before
      <4>2. Len(inbox[q]) \in Nat /\ DOMAIN inbox[q] = 1 .. Len(inbox[q])
        BY <4>1
      <4>3. {k \in DOMAIN inbox[q] : inbox[q][k].kind # "reply"} = 1 .. Len(inbox[q])
        BY <4>1, <4>2 DEF Kinds, InInbox
      <4>4. Cardinality(1 .. Len(inbox[q])) = Len(inbox[q])
        BY <4>2, FS_Interval
      <4>5. q \notin Targets => InInbox(q) = {}
        BY <4>1 DEF Kinds, Jobs, JobsProper, UserJob
      <4>6. q \notin Targets => inbox[q] = <<>>
        BY <4>5, InboxProps
      <4> QED BY <4>2, <4>3, <4>4, <4>6 DEF Requests
    <3>2. PICK f : f = [q \in Inboxes |-> Requests(q)]
      OBVIOUS
    <3>3. f \in [Inboxes -> Int] /\ Queued \in [Targets -> Int] /\ Targets \in SUBSET Inboxes
      BY <3>1, <3>2 DEF Queued, Targets, Inboxes, Threads
    <3>4. (\A q \in Targets : Queued[q] = f[q]) /\ \A q \in Inboxes \ Targets : f[q] = 0
      BY <3>1, <3>2, <3>3 DEF Queued
    <3>5. SumOf(f) = SumOf(Queued)
      BY <3>3, <3>4, Finite, SumWithin
    <3>6. QueuedAtStart = SumOf(Queued)
      BY <3>1, <3>3, SumOfQueued
    <3>7. RequestSum' = RequestSum
      BY <1>2, RequestsStay DEF Run
    <3> QED BY <3>2, <3>5, <3>6, <3>7 DEF RequestSum
  <2>6. RequestSum' \in Int
    <3>1. RequestSum' = RequestSum
      BY <1>2, RequestsStay DEF Run
    <3> QED BY <3>1, SumTypes
  <2>7. Dummy' = 1 /\ Owed' = 0
    BY <1>2, <2>1 DEF Run, Dummy, Owed
  <2>8. count' = QueuedAtStart + 1
    BY <1>2 DEF Run
  <2>9. CountInv'
    BY <2>3, <2>4, <2>5, <2>6, <2>7, <2>8 DEF CountInv
  <2> QED BY <2>2, <2>9
<1>3. ASSUME BeginShutdown PROVE ReportedInv' /\ CountInv'
  <2>1. ReportedSum' = ReportedSum + 0 /\ ReportedInv'
    <3>1. \A u \in Threads : Reported(u)' = Reported(u) /\ live'[u] = live[u]
      BY <1>3
      DEF BeginShutdown, Reported, vars, mainVars, counterVars, ioVars, replyVars, threadVars
    <3>2. ReportedSum' = ReportedSum
      BY <3>1, ReportedStay
    <3>3. ReportedInv'
      BY <3>1 DEF ReportedInv
    <3> QED BY <3>2, <3>3, SumTypes
  <2>2. RequestSum' = RequestSum + 0
    <3>1. RequestSum' = RequestSum
      BY <1>3, RequestsStay
      DEF BeginShutdown, vars, mainVars, counterVars, ioVars, replyVars, threadVars
    <3> QED BY <3>1, SumTypes
  <2>3. Cardinality(Threading)' = Cardinality(Threading) + 0
    <3>1. Threading' = Threading
      BY <1>3
      DEF BeginShutdown, Threading, Sends, Types, vars, mainVars, counterVars, ioVars,
          replyVars, threadVars
    <3> QED BY <3>1, SumTypes
  <2>4. Cardinality(toTell)' = Cardinality(toTell) + NumTargets
    <3>1. toTell = {} /\ toTell' = Threads
      BY <1>3 DEF BeginShutdown, Phases, Before
    <3> QED BY <3>1, Finite, FS_EmptySet DEF NumTargets
  <2>5. Dummy' + Owed' = (Dummy + Owed) + (-1)
    <3>1. Dummy = 1 /\ Dummy' = 0 /\ Owed' = Owed
      BY <1>3
      DEF BeginShutdown, Dummy, Owed, vars, mainVars, counterVars, ioVars, replyVars,
          threadVars
    <3> QED BY <3>1, OwedType
  <2>6. count' = count + ((((0 + 0) + 0) + NumTargets) + (-1)) /\ count \in Int
    <3>1. count' = count + (NumTargets - 1) /\ count \in Int /\ NumTargets \in Int
      BY <1>3, Finite
      DEF BeginShutdown, Types, vars, mainVars, counterVars, ioVars, replyVars, threadVars
    <3> QED BY <3>1
  <2>7. main # "idle"
    BY <1>3 DEF BeginShutdown
  <2>9. CountInv'
    BY <2>1, <2>2, <2>3, <2>4, <2>5, <2>6, <2>7, Finite, CountMoves
  <2> QED BY <2>1, <2>9
<1>4. ASSUME NEW t \in Threads, TellBegin(t) PROVE ReportedInv' /\ CountInv'
  <2>1. ReportedSum' = ReportedSum + 0 /\ ReportedInv'
    <3>1. \A u \in Threads : Reported(u)' = Reported(u) /\ live'[u] = live[u]
      BY <1>4
      DEF TellBegin, Reported, vars, mainVars, counterVars, ioVars, replyVars, threadVars
    <3>2. ReportedSum' = ReportedSum
      BY <3>1, ReportedStay
    <3>3. ReportedInv'
      BY <3>1 DEF ReportedInv
    <3> QED BY <3>2, <3>3, SumTypes
  <2>2. RequestSum' = RequestSum + 1
    <3>1. MkJob("begin", t, None) \in Job /\ MkJob("begin", t, None).kind # "reply"
      BY MadeJobs
    <3>2. Push(t, MkJob("begin", t, None)) /\ t \in Inboxes
      BY <1>4 DEF TellBegin, Inboxes
    <3> QED BY <3>1, <3>2, RequestsPush
  <2>3. Cardinality(Threading)' = Cardinality(Threading) + 0
    <3>1. Threading' = Threading
      BY <1>4
      DEF TellBegin, Threading, Sends, Types, vars, mainVars, counterVars, ioVars,
          replyVars, threadVars
    <3> QED BY <3>1, SumTypes
  <2>4. Cardinality(toTell)' = Cardinality(toTell) + (-1)
    <3>1. t \in toTell /\ toTell' = toTell \ {t}
      BY <1>4 DEF TellBegin
    <3>2. Cardinality(toTell)' = Cardinality(toTell) - 1
      BY <3>1, SumTypes, FS_RemoveElement
    <3> QED BY <3>2, SumTypes
  <2>5. Dummy' + Owed' = (Dummy + Owed) + 0
    <3>1. Dummy' = Dummy /\ Owed' = Owed
      BY <1>4
      DEF TellBegin, Dummy, Owed, vars, mainVars, counterVars, ioVars, replyVars, threadVars
    <3> QED BY <3>1, OwedType
  <2>6. count' = count + ((((1 + 0) + 0) + (-1)) + 0) /\ count \in Int
    <3>1. count' = count /\ count \in Int /\ NumTargets \in Int
      BY <1>4, Finite
      DEF TellBegin, Types, vars, mainVars, counterVars, ioVars, replyVars, threadVars
    <3> QED BY <3>1
  <2>7. main # "idle"
    BY <1>4 DEF TellBegin
  <2>9. CountInv'
    BY <2>1, <2>2, <2>3, <2>4, <2>5, <2>6, <2>7, Finite, CountMoves
  <2> QED BY <2>1, <2>9
<1>5. ASSUME RunReturns PROVE ReportedInv' /\ CountInv'
  <2>1. \A t \in Threads : Reported(t)' = Reported(t)
    BY <1>5
    DEF RunReturns, Reported, vars, mainVars, counterVars, ioVars, replyVars, threadVars
  <2> QED
    BY <1>5, <2>1
    DEF RunReturns, CountInv, ReportedInv, vars, mainVars, counterVars, ioVars, replyVars,
        threadVars
<1>6. ASSUME NEW t \in Threads, Enter(t) PROVE ReportedInv' /\ CountInv'
  <2>1. ReportedSum' = ReportedSum + 0 /\ ReportedInv'
    <3>1. \A u \in Threads \ {t} : live'[u] = live[u] /\ delta'[u] = delta[u] /\ tpc'[u] = tpc[u]
      BY <1>6 DEF Enter, Types, vars, mainVars, counterVars, ioVars, replyVars, threadVars
    <3>2. Cardinality(live[t]) \in Nat /\ delta[t] \in Int /\ (live[t] # {} => Cardinality(live[t]) # 0)
      BY FS_CardinalityType, FS_EmptySet DEF Types
    <3>3. Reported(t) >= 0 /\ (live[t] # {} => Reported(t) >= 1)
      BY DEF ReportedInv
    <3>5. live'[t] = live[t] /\ tpc[t] \notin {"run", "spin", "sending"} /\ delta'[t] = 0 /\ tpc'[t] = "run"
      BY <1>6 DEF Enter, Types
    <3>8. Reported(t)' = Reported(t) + 0 /\ Reported(t)' >= 0 /\ (live'[t] # {} => Reported(t)' >= 1)
      BY <3>2, <3>3, <3>5 DEF Reported
    <3> QED BY <3>1, <3>8, OneReported
  <2>2. RequestSum' = RequestSum + 0
    <3>1. RequestSum' = RequestSum
      BY <1>6, RequestsStay
      DEF Enter, vars, mainVars, counterVars, ioVars, replyVars, threadVars
    <3> QED BY <3>1, SumTypes
  <2>3. Cardinality(Threading)' = Cardinality(Threading) + 0
    <3>1. Threading' = Threading
      BY <1>6
      DEF Enter, Threading, Sends, Types, vars, mainVars, counterVars, ioVars, replyVars,
          threadVars
    <3> QED BY <3>1, SumTypes
  <2>4. Cardinality(toTell)' = Cardinality(toTell) + 0
    <3>1. toTell' = toTell
      BY <1>6 DEF Enter, vars, mainVars, counterVars, ioVars, replyVars, threadVars
    <3> QED BY <3>1, SumTypes
  <2>5. Dummy' + Owed' = (Dummy + Owed) + 0
    <3>1. Dummy' = Dummy /\ Owed' = Owed
      <4>1. main' = main /\ finishSent' = finishSent
        BY <1>6 DEF Enter, vars, mainVars, counterVars, ioVars, replyVars, threadVars
      <4>2. \A u \in Threads : tpc'[u] = "store" <=> tpc[u] = "store"
        BY <1>6
        DEF Enter, Runnable, Types, vars, mainVars, counterVars, ioVars, replyVars, threadVars
      <4> QED BY <4>1, <4>2 DEF Dummy, Owed
    <3> QED BY <3>1, OwedType
  <2>6. count' = count + ((((0 + 0) + 0) + 0) + 0) /\ count \in Int
    <3>1. count' = count /\ count \in Int /\ NumTargets \in Int
      BY <1>6, Finite
      DEF Enter, Types, vars, mainVars, counterVars, ioVars, replyVars, threadVars
    <3> QED BY <3>1
  <2>7. main # "idle"
    BY <1>6 DEF Enter, Runnable, Phases, Before
  <2>9. CountInv'
    BY <2>1, <2>2, <2>3, <2>4, <2>5, <2>6, <2>7, Finite, CountMoves
  <2> QED BY <2>1, <2>9
<1>7. ASSUME NEW t \in Threads, RunEnd(t) PROVE ReportedInv' /\ CountInv'
  <2>1. ReportedSum' = ReportedSum + delta[t] /\ ReportedInv'
    <3>1. \A u \in Threads \ {t} : live'[u] = live[u] /\ delta'[u] = delta[u] /\ tpc'[u] = tpc[u]
      BY <1>7
      DEF RunEnd, AfterRun, Types, vars, mainVars, counterVars, ioVars, replyVars, threadVars
    <3>2. Cardinality(live[t]) \in Nat /\ delta[t] \in Int /\ (live[t] # {} => Cardinality(live[t]) # 0)
      BY FS_CardinalityType, FS_EmptySet DEF Types
    <3>3. Reported(t) >= 0 /\ (live[t] # {} => Reported(t) >= 1)
      BY DEF ReportedInv
    <3>5. live'[t] = live[t] /\ tpc[t] = "run" /\ tpc'[t] \notin {"run", "spin", "sending"}
      BY <1>7 DEF RunEnd, AfterRun, Types
    <3>8. Reported(t)' = Reported(t) + delta[t] /\ Reported(t)' >= 0 /\ (live'[t] # {} => Reported(t)' >= 1)
      BY <3>2, <3>3, <3>5 DEF Reported
    <3> QED BY <3>1, <3>2, <3>8, OneReported
  <2>2. RequestSum' = RequestSum + 0
    <3>1. RequestSum' = RequestSum
      BY <1>7, RequestsStay
      DEF RunEnd, vars, mainVars, counterVars, ioVars, replyVars, threadVars
    <3> QED BY <3>1, SumTypes
  <2>3. Cardinality(Threading)' = Cardinality(Threading) + 0
    <3>1. Threading' = Threading
      BY <1>7
      DEF RunEnd, AfterRun, Threading, Sends, Types, vars, mainVars, counterVars, ioVars,
          replyVars, threadVars
    <3> QED BY <3>1, SumTypes
  <2>4. Cardinality(toTell)' = Cardinality(toTell) + 0
    <3>1. toTell' = toTell
      BY <1>7 DEF RunEnd, vars, mainVars, counterVars, ioVars, replyVars, threadVars
    <3> QED BY <3>1, SumTypes
  <2>5. Dummy' + Owed' = (Dummy + Owed) + 0
    <3>1. Dummy' = Dummy /\ Owed' = Owed
      <4>1. main' = main /\ finishSent' = finishSent
        BY <1>7 DEF RunEnd, vars, mainVars, counterVars, ioVars, replyVars, threadVars
      <4>2. \A u \in Threads : tpc'[u] = "store" <=> tpc[u] = "store"
        BY <1>7
        DEF RunEnd, AfterRun, Runnable, Types, vars, mainVars, counterVars, ioVars,
            replyVars, threadVars
      <4> QED BY <4>1, <4>2 DEF Dummy, Owed
    <3> QED BY <3>1, OwedType
  <2>6. count' = count + ((((0 + delta[t]) + 0) + 0) + 0) /\ count \in Int
    <3>1. count' = count + delta[t] /\ count \in Int /\ NumTargets \in Int /\ delta[t] \in Int
      BY <1>7, Finite
      DEF RunEnd, Types, vars, mainVars, counterVars, ioVars, replyVars, threadVars
    <3> QED BY <3>1
  <2>7. main # "idle"
    BY <1>7 DEF RunEnd, Runnable, Phases, Before
  <2>8. delta[t] \in Int
    BY DEF Types
  <2>9. CountInv'
    BY <2>1, <2>2, <2>3, <2>4, <2>5, <2>6, <2>7, <2>8, Finite, CountMoves
  <2> QED BY <2>1, <2>9
<1>8. ASSUME NEW t \in Threads, AddTargets(t) PROVE ReportedInv' /\ CountInv'
  <2>1. ReportedSum' = ReportedSum + 0 /\ ReportedInv'
    <3>1. \A u \in Threads \ {t} : live'[u] = live[u] /\ delta'[u] = delta[u] /\ tpc'[u] = tpc[u]
      BY <1>8
      DEF AddTargets, Types, vars, mainVars, counterVars, ioVars, replyVars, threadVars
    <3>2. Cardinality(live[t]) \in Nat /\ delta[t] \in Int /\ (live[t] # {} => Cardinality(live[t]) # 0)
      BY FS_CardinalityType, FS_EmptySet DEF Types
    <3>3. Reported(t) >= 0 /\ (live[t] # {} => Reported(t) >= 1)
      BY DEF ReportedInv
    <3>5. live'[t] = live[t] /\ tpc[t] \notin {"run", "spin", "sending"} /\ tpc'[t] \notin {"run", "spin", "sending"}
      BY <1>8 DEF AddTargets, Types
    <3>8. Reported(t)' = Reported(t) + 0 /\ Reported(t)' >= 0 /\ (live'[t] # {} => Reported(t)' >= 1)
      BY <3>2, <3>3, <3>5 DEF Reported
    <3> QED BY <3>1, <3>8, OneReported
  <2>2. RequestSum' = RequestSum + 0
    <3>1. RequestSum' = RequestSum
      BY <1>8, RequestsStay
      DEF AddTargets, vars, mainVars, counterVars, ioVars, replyVars, threadVars
    <3> QED BY <3>1, SumTypes
  <2>3. Cardinality(Threading)' = Cardinality(Threading) + 0
    <3>1. Threading' = Threading
      BY <1>8
      DEF AddTargets, Threading, Sends, Types, vars, mainVars, counterVars, ioVars,
          replyVars, threadVars
    <3> QED BY <3>1, SumTypes
  <2>4. Cardinality(toTell)' = Cardinality(toTell) + 0
    <3>1. toTell' = toTell
      BY <1>8 DEF AddTargets, vars, mainVars, counterVars, ioVars, replyVars, threadVars
    <3> QED BY <3>1, SumTypes
  <2>5. Dummy' + Owed' = (Dummy + Owed) + NumTargets
    <3>1. ~ finishSent /\ \A u \in Threads : tpc[u] # "store"
      BY <1>8 DEF AddTargets, Phases, Ends, SawZero
    <3>2. tpc'[t] = "store"
      BY <1>8 DEF AddTargets, Types
    <3>3. Dummy' = Dummy /\ Owed = 0 /\ Owed' = NumTargets
      BY <1>8, <3>1, <3>2
      DEF AddTargets, Dummy, Owed, vars, mainVars, counterVars, ioVars, replyVars, threadVars
    <3> QED BY <3>3, OwedType, Finite
  <2>6. count' = count + ((((0 + 0) + 0) + 0) + NumTargets) /\ count \in Int
    <3>1. count' = count + NumTargets /\ count \in Int /\ NumTargets \in Int
      BY <1>8, Finite
      DEF AddTargets, Types, vars, mainVars, counterVars, ioVars, replyVars, threadVars
    <3> QED BY <3>1
  <2>7. main # "idle"
    BY <1>8 DEF AddTargets, Runnable, Phases, Before
  <2>9. CountInv'
    BY <2>1, <2>2, <2>3, <2>4, <2>5, <2>6, <2>7, Finite, CountMoves
  <2> QED BY <2>1, <2>9
<1>9. ASSUME NEW t \in Threads, StoreFinish(t) PROVE ReportedInv' /\ CountInv'
  <2>1. ReportedSum' = ReportedSum + 0 /\ ReportedInv'
    <3>1. \A u \in Threads \ {t} : live'[u] = live[u] /\ delta'[u] = delta[u] /\ tpc'[u] = tpc[u]
      BY <1>9
      DEF StoreFinish, Types, vars, mainVars, counterVars, ioVars, replyVars, threadVars
    <3>2. Cardinality(live[t]) \in Nat /\ delta[t] \in Int /\ (live[t] # {} => Cardinality(live[t]) # 0)
      BY FS_CardinalityType, FS_EmptySet DEF Types
    <3>3. Reported(t) >= 0 /\ (live[t] # {} => Reported(t) >= 1)
      BY DEF ReportedInv
    <3>5. live'[t] = live[t] /\ tpc[t] \notin {"run", "spin", "sending"} /\ tpc'[t] \notin {"run", "spin", "sending"}
      BY <1>9 DEF StoreFinish, Types
    <3>8. Reported(t)' = Reported(t) + 0 /\ Reported(t)' >= 0 /\ (live'[t] # {} => Reported(t)' >= 1)
      BY <3>2, <3>3, <3>5 DEF Reported
    <3> QED BY <3>1, <3>8, OneReported
  <2>2. RequestSum' = RequestSum + 0
    <3>1. RequestSum' = RequestSum
      BY <1>9, RequestsStay
      DEF StoreFinish, vars, mainVars, counterVars, ioVars, replyVars, threadVars
    <3> QED BY <3>1, SumTypes
  <2>3. Cardinality(Threading)' = Cardinality(Threading) + 0
    <3>1. Threading' = Threading
      BY <1>9
      DEF StoreFinish, Threading, Sends, Types, vars, mainVars, counterVars, ioVars,
          replyVars, threadVars
    <3> QED BY <3>1, SumTypes
  <2>4. Cardinality(toTell)' = Cardinality(toTell) + 0
    <3>1. toTell' = toTell
      BY <1>9 DEF StoreFinish, vars, mainVars, counterVars, ioVars, replyVars, threadVars
    <3> QED BY <3>1, SumTypes
  <2>5. Dummy' + Owed' = (Dummy + Owed) + 0
    <3>1. Dummy' = Dummy /\ Owed = NumTargets /\ Owed' = NumTargets
      BY <1>9
      DEF StoreFinish, Dummy, Owed, vars, mainVars, counterVars, ioVars, replyVars, threadVars
    <3> QED BY <3>1, OwedType, Finite
  <2>6. count' = count + ((((0 + 0) + 0) + 0) + 0) /\ count \in Int
    <3>1. count' = count /\ count \in Int /\ NumTargets \in Int
      BY <1>9, Finite
      DEF StoreFinish, Types, vars, mainVars, counterVars, ioVars, replyVars, threadVars
    <3> QED BY <3>1
  <2>7. main # "idle"
    BY <1>9 DEF StoreFinish, Runnable, Phases, Before
  <2>9. CountInv'
    BY <2>1, <2>2, <2>3, <2>4, <2>5, <2>6, <2>7, Finite, CountMoves
  <2> QED BY <2>1, <2>9
<1>10. ASSUME NEW t \in Threads, NEW u \in Threads, TellFinish(t, u) PROVE ReportedInv' /\ CountInv'
  <2>1. ReportedSum' = ReportedSum + 0 /\ ReportedInv'
    <3>1. \A v \in Threads \ {t} : live'[v] = live[v] /\ delta'[v] = delta[v] /\ tpc'[v] = tpc[v]
      BY <1>10
      DEF TellFinish, AfterRun, Types, vars, mainVars, counterVars, ioVars, replyVars,
          threadVars
    <3>2. Cardinality(live[t]) \in Nat /\ delta[t] \in Int /\ (live[t] # {} => Cardinality(live[t]) # 0)
      BY FS_CardinalityType, FS_EmptySet DEF Types
    <3>3. Reported(t) >= 0 /\ (live[t] # {} => Reported(t) >= 1)
      BY DEF ReportedInv
    <3>5. live'[t] = live[t] /\ tpc[t] \notin {"run", "spin", "sending"} /\ tpc'[t] \notin {"run", "spin", "sending"}
      BY <1>10 DEF TellFinish, AfterRun, Types
    <3>8. Reported(t)' = Reported(t) + 0 /\ Reported(t)' >= 0 /\ (live'[t] # {} => Reported(t)' >= 1)
      BY <3>2, <3>3, <3>5 DEF Reported
    <3> QED BY <3>1, <3>8, OneReported
  <2>2. RequestSum' = RequestSum + 1
    <3>1. MkJob("finish", u, None) \in Job /\ MkJob("finish", u, None).kind # "reply"
      BY MadeJobs
    <3>2. Push(u, MkJob("finish", u, None)) /\ u \in Inboxes
      BY <1>10 DEF TellFinish, Inboxes
    <3> QED BY <3>1, <3>2, RequestsPush
  <2>3. Cardinality(Threading)' = Cardinality(Threading) + 0
    <3>1. Threading' = Threading
      BY <1>10
      DEF TellFinish, AfterRun, Threading, Sends, Types, vars, mainVars, counterVars,
          ioVars, replyVars, threadVars
    <3> QED BY <3>1, SumTypes
  <2>4. Cardinality(toTell)' = Cardinality(toTell) + 0
    <3>1. toTell' = toTell
      BY <1>10 DEF TellFinish, vars, mainVars, counterVars, ioVars, replyVars, threadVars
    <3> QED BY <3>1, SumTypes
  <2>5. Dummy' + Owed' = (Dummy + Owed) + 0
    <3>1. Dummy' = Dummy /\ Owed' = Owed
      <4>1. main' = main /\ finishSent' = finishSent
        BY <1>10 DEF TellFinish, vars, mainVars, counterVars, ioVars, replyVars, threadVars
      <4>2. \A v \in Threads : tpc'[v] = "store" <=> tpc[v] = "store"
        BY <1>10
        DEF TellFinish, AfterRun, Runnable, Types, vars, mainVars, counterVars, ioVars,
            replyVars, threadVars
      <4> QED BY <4>1, <4>2 DEF Dummy, Owed
    <3> QED BY <3>1, OwedType
  <2>6. count' = count + ((((1 + 0) + 0) + 0) + 0) /\ count \in Int
    <3>1. count' = count + 1 /\ count \in Int /\ NumTargets \in Int
      BY <1>10, Finite
      DEF TellFinish, Types, vars, mainVars, counterVars, ioVars, replyVars, threadVars
    <3> QED BY <3>1
  <2>7. main # "idle"
    BY <1>10 DEF TellFinish, Runnable, Phases, Before
  <2>9. CountInv'
    BY <2>1, <2>2, <2>3, <2>4, <2>5, <2>6, <2>7, Finite, CountMoves
  <2> QED BY <2>1, <2>9
<1>11. ASSUME NEW t \in Threads, AcceptTask(t) PROVE ReportedInv' /\ CountInv'
  <2>1. ReportedSum' = ReportedSum + 1 /\ ReportedInv'
    <3>1. \A u \in Threads \ {t} : live'[u] = live[u] /\ delta'[u] = delta[u] /\ tpc'[u] = tpc[u]
      BY <1>11
      DEF AcceptTask, Types, vars, mainVars, counterVars, ioVars, replyVars, threadVars
    <3>2. Cardinality(live[t]) \in Nat /\ delta[t] \in Int /\ (live[t] # {} => Cardinality(live[t]) # 0)
      BY FS_CardinalityType, FS_EmptySet DEF Types
    <3>3. Reported(t) >= 0 /\ (live[t] # {} => Reported(t) >= 1)
      BY DEF ReportedInv
    <3>4. Head(inbox[t]) \notin live[t]
      BY <1>11, InboxProps DEF AcceptTask, Inboxes, Jobs, Apart
    <3>5. live'[t] = live[t] \cup {Head(inbox[t])} /\ delta'[t] = delta[t] /\ tpc[t] = "run" /\ tpc'[t] = "run"
      BY <1>11, <3>2 DEF AcceptTask, Runnable, Types
    <3>6. Cardinality(live'[t]) = Cardinality(live[t]) + 1
      BY <3>4, <3>5, LiveAdd
    <3>8. Reported(t)' = Reported(t) + 1 /\ Reported(t)' >= 0 /\ (live'[t] # {} => Reported(t)' >= 1)
      BY <3>2, <3>3, <3>5, <3>6 DEF Reported
    <3> QED BY <3>1, <3>8, OneReported
  <2>2. RequestSum' = RequestSum + (-1)
    <3>1. t \in Inboxes /\ inbox[t] # <<>> /\ inbox' = [inbox EXCEPT ![t] = Tail(@)]
      BY <1>11 DEF AcceptTask, Inboxes
    <3>2. Head(inbox[t]).kind # "reply"
      BY <1>11, InboxProps, ShutdownAssumption
      DEF AcceptTask, Inboxes, Jobs, JobsProper, Threads
    <3>3. RequestSum' = RequestSum - 1
      BY <3>1, <3>2, RequestsPop
    <3> QED BY <3>3, SumTypes
  <2>3. Cardinality(Threading)' = Cardinality(Threading) + 0
    <3>1. Threading' = Threading
      BY <1>11
      DEF AcceptTask, Threading, Sends, Types, vars, mainVars, counterVars, ioVars,
          replyVars, threadVars
    <3> QED BY <3>1, SumTypes
  <2>4. Cardinality(toTell)' = Cardinality(toTell) + 0
    <3>1. toTell' = toTell
      BY <1>11 DEF AcceptTask, vars, mainVars, counterVars, ioVars, replyVars, threadVars
    <3> QED BY <3>1, SumTypes
  <2>5. Dummy' + Owed' = (Dummy + Owed) + 0
    <3>1. Dummy' = Dummy /\ Owed' = Owed
      <4>1. main' = main /\ finishSent' = finishSent
        BY <1>11 DEF AcceptTask, vars, mainVars, counterVars, ioVars, replyVars, threadVars
      <4>2. \A u \in Threads : tpc'[u] = "store" <=> tpc[u] = "store"
        BY <1>11
        DEF AcceptTask, Runnable, Types, vars, mainVars, counterVars, ioVars, replyVars,
            threadVars
      <4> QED BY <4>1, <4>2 DEF Dummy, Owed
    <3> QED BY <3>1, OwedType
  <2>6. count' = count + (((((-1) + 1) + 0) + 0) + 0) /\ count \in Int
    <3>1. count' = count /\ count \in Int /\ NumTargets \in Int
      BY <1>11, Finite
      DEF AcceptTask, Types, vars, mainVars, counterVars, ioVars, replyVars, threadVars
    <3> QED BY <3>1
  <2>7. main # "idle"
    BY <1>11 DEF AcceptTask, Runnable, Phases, Before
  <2>9. CountInv'
    BY <2>1, <2>2, <2>3, <2>4, <2>5, <2>6, <2>7, Finite, CountMoves
  <2> QED BY <2>1, <2>9
<1>12. ASSUME NEW t \in Threads, AcceptReply(t) PROVE ReportedInv' /\ CountInv'
  <2>1. UNCHANGED <<live, delta, tpc, toTell, main, finishSent, count>>
    BY <1>12
    DEF AcceptReply, Types, vars, mainVars, counterVars, ioVars, replyVars, threadVars
  <2>2. RequestSum' = RequestSum
    BY <1>12, RequestsPop DEF AcceptReply, Inboxes
  <2> QED BY <2>1, <2>2, SumsStay
<1>13. ASSUME NEW t \in Threads, PullStart(t) PROVE ReportedInv' /\ CountInv'
  <2>1. UNCHANGED <<live, delta, tpc, toTell, main, finishSent, count>>
    BY <1>13 DEF PullStart, Types, vars, mainVars, counterVars, ioVars, replyVars, threadVars
  <2>2. inbox' = inbox
    BY <1>13 DEF PullStart
  <2> QED BY <2>1, <2>2, SumsStay
<1>14. ASSUME NEW t \in Threads, AcceptIo(t) PROVE ReportedInv' /\ CountInv'
  <2>1. ReportedSum' = ReportedSum + 1 /\ ReportedInv'
    <3>1. \A u \in Threads \ {t} : live'[u] = live[u] /\ delta'[u] = delta[u] /\ tpc'[u] = tpc[u]
      BY <1>14 DEF AcceptIo, Types, vars, mainVars, counterVars, ioVars, replyVars, threadVars
    <3>2. Cardinality(live[t]) \in Nat /\ delta[t] \in Int /\ (live[t] # {} => Cardinality(live[t]) # 0)
      BY FS_CardinalityType, FS_EmptySet DEF Types
    <3>3. Reported(t) >= 0 /\ (live[t] # {} => Reported(t) >= 1)
      BY DEF ReportedInv
    <3>4. Head(inbox[Io]) \notin live[t]
      BY <1>14, InboxProps DEF AcceptIo, Inboxes, Jobs, Apart
    <3>5. /\ live'[t] = live[t] \cup {Head(inbox[Io])} /\ delta'[t] = delta[t]
          /\ tpc[t] \in {"run", "spin"} /\ tpc'[t] = "run"
      BY <1>14, <3>2 DEF AcceptIo, Runnable, Types
    <3>6. Cardinality(live'[t]) = Cardinality(live[t]) + 1
      BY <3>4, <3>5, LiveAdd
    <3>8. Reported(t)' = Reported(t) + 1 /\ Reported(t)' >= 0 /\ (live'[t] # {} => Reported(t)' >= 1)
      BY <3>2, <3>3, <3>5, <3>6 DEF Reported
    <3> QED BY <3>1, <3>8, OneReported
  <2>2. RequestSum' = RequestSum + (-1)
    <3>1. Io \in Inboxes /\ inbox[Io] # <<>> /\ inbox' = [inbox EXCEPT ![Io] = Tail(@)]
      BY <1>14 DEF AcceptIo, Inboxes
    <3>2. Head(inbox[Io]).kind # "reply"
      BY <1>14, InboxProps, ShutdownAssumption
      DEF AcceptIo, Inboxes, Jobs, JobsProper, Threads
    <3>3. RequestSum' = RequestSum - 1
      BY <3>1, <3>2, RequestsPop
    <3> QED BY <3>3, SumTypes
  <2>3. Cardinality(Threading)' = Cardinality(Threading) + 0
    <3>1. Threading' = Threading
      BY <1>14
      DEF AcceptIo, Threading, Sends, Types, vars, mainVars, counterVars, ioVars,
          replyVars, threadVars
    <3> QED BY <3>1, SumTypes
  <2>4. Cardinality(toTell)' = Cardinality(toTell) + 0
    <3>1. toTell' = toTell
      BY <1>14 DEF AcceptIo, vars, mainVars, counterVars, ioVars, replyVars, threadVars
    <3> QED BY <3>1, SumTypes
  <2>5. Dummy' + Owed' = (Dummy + Owed) + 0
    <3>1. Dummy' = Dummy /\ Owed' = Owed
      <4>1. main' = main /\ finishSent' = finishSent
        BY <1>14 DEF AcceptIo, vars, mainVars, counterVars, ioVars, replyVars, threadVars
      <4>2. \A u \in Threads : tpc'[u] = "store" <=> tpc[u] = "store"
        BY <1>14
        DEF AcceptIo, Runnable, Types, vars, mainVars, counterVars, ioVars, replyVars,
            threadVars
      <4> QED BY <4>1, <4>2 DEF Dummy, Owed
    <3> QED BY <3>1, OwedType
  <2>6. count' = count + (((((-1) + 1) + 0) + 0) + 0) /\ count \in Int
    <3>1. count' = count /\ count \in Int /\ NumTargets \in Int
      BY <1>14, Finite
      DEF AcceptIo, Types, vars, mainVars, counterVars, ioVars, replyVars, threadVars
    <3> QED BY <3>1
  <2>7. main # "idle"
    BY <1>14 DEF AcceptIo, Runnable, Phases, Before
  <2>9. CountInv'
    BY <2>1, <2>2, <2>3, <2>4, <2>5, <2>6, <2>7, Finite, CountMoves
  <2> QED BY <2>1, <2>9
<1>15. ASSUME NEW t \in Threads, NEW j \in live[t], NEW w \in Work, Spawn(t, j, w)
       PROVE ReportedInv' /\ CountInv'
  <2>1. ReportedSum' = ReportedSum + 0 /\ ReportedInv'
    <3>1. \A u \in Threads \ {t} : live'[u] = live[u] /\ delta'[u] = delta[u] /\ tpc'[u] = tpc[u]
      BY <1>15 DEF Spawn, Types, vars, mainVars, counterVars, ioVars, replyVars, threadVars
    <3>2. Cardinality(live[t]) \in Nat /\ delta[t] \in Int /\ (live[t] # {} => Cardinality(live[t]) # 0)
      BY FS_CardinalityType, FS_EmptySet DEF Types
    <3>3. Reported(t) >= 0 /\ (live[t] # {} => Reported(t) >= 1)
      BY DEF ReportedInv
    <3>4. MkJob("coro", w, None) \notin live[t]
      BY <1>15, JobsSpawn
      DEF Spawn, Types, Sends, vars, mainVars, counterVars, ioVars, replyVars, threadVars
    <3>5. live'[t] = live[t] \cup {MkJob("coro", w, None)} /\ delta'[t] = delta[t] + 1 /\ tpc[t] = "run" /\ tpc'[t] = "run"
      BY <1>15, <3>2 DEF Spawn, Runnable, Types
    <3>6. Cardinality(live'[t]) = Cardinality(live[t]) + 1
      BY <3>4, <3>5, LiveAdd
    <3>7. live[t] # {}
      OBVIOUS
    <3>8. Reported(t)' = Reported(t) + 0 /\ Reported(t)' >= 0 /\ (live'[t] # {} => Reported(t)' >= 1)
      BY <3>2, <3>3, <3>5, <3>6, <3>7 DEF Reported
    <3> QED BY <3>1, <3>8, OneReported
  <2>2. RequestSum' = RequestSum + 0
    <3>1. RequestSum' = RequestSum
      BY <1>15, RequestsStay
      DEF Spawn, vars, mainVars, counterVars, ioVars, replyVars, threadVars
    <3> QED BY <3>1, SumTypes
  <2>3. Cardinality(Threading)' = Cardinality(Threading) + 0
    <3>1. Threading' = Threading
      BY <1>15
      DEF Spawn, Threading, Sends, Types, vars, mainVars, counterVars, ioVars, replyVars,
          threadVars
    <3> QED BY <3>1, SumTypes
  <2>4. Cardinality(toTell)' = Cardinality(toTell) + 0
    <3>1. toTell' = toTell
      BY <1>15 DEF Spawn, vars, mainVars, counterVars, ioVars, replyVars, threadVars
    <3> QED BY <3>1, SumTypes
  <2>5. Dummy' + Owed' = (Dummy + Owed) + 0
    <3>1. Dummy' = Dummy /\ Owed' = Owed
      <4>1. main' = main /\ finishSent' = finishSent
        BY <1>15 DEF Spawn, vars, mainVars, counterVars, ioVars, replyVars, threadVars
      <4>2. \A u \in Threads : tpc'[u] = "store" <=> tpc[u] = "store"
        BY <1>15
        DEF Spawn, Runnable, Types, vars, mainVars, counterVars, ioVars, replyVars, threadVars
      <4> QED BY <4>1, <4>2 DEF Dummy, Owed
    <3> QED BY <3>1, OwedType
  <2>6. count' = count + ((((0 + 0) + 0) + 0) + 0) /\ count \in Int
    <3>1. count' = count /\ count \in Int /\ NumTargets \in Int
      BY <1>15, Finite
      DEF Spawn, Types, vars, mainVars, counterVars, ioVars, replyVars, threadVars
    <3> QED BY <3>1
  <2>7. main # "idle"
    BY <1>15 DEF Spawn, Runnable, Phases, Before
  <2>9. CountInv'
    BY <2>1, <2>2, <2>3, <2>4, <2>5, <2>6, <2>7, Finite, CountMoves, SMTT(40)
  <2> QED BY <2>1, <2>9
<1>16. ASSUME NEW t \in Threads, NEW j \in live[t], NEW q \in Targets, NEW w \in Work,
             NEW mode \in {"noreply", "sync", "async", "then"}, NoteSend(t, j, q, w, mode)
             PROVE ReportedInv' /\ CountInv'
  <2>1. ReportedSum' = ReportedSum + 0 /\ ReportedInv'
    <3>1. \A u \in Threads \ {t} : live'[u] = live[u] /\ delta'[u] = delta[u] /\ tpc'[u] = tpc[u]
      BY <1>16 DEF NoteSend, Types, vars, mainVars, counterVars, ioVars, replyVars, threadVars
    <3>2. Cardinality(live[t]) \in Nat /\ delta[t] \in Int /\ (live[t] # {} => Cardinality(live[t]) # 0)
      BY FS_CardinalityType, FS_EmptySet DEF Types
    <3>3. Reported(t) >= 0 /\ (live[t] # {} => Reported(t) >= 1)
      BY DEF ReportedInv
    <3>5. live'[t] = live[t] /\ delta'[t] = delta[t] /\ tpc[t] \in {"run", "sending"} /\ tpc'[t] \in {"run", "sending"}
      BY <1>16 DEF NoteSend, Runnable, Types
    <3>8. Reported(t)' = Reported(t) + 0 /\ Reported(t)' >= 0 /\ (live'[t] # {} => Reported(t)' >= 1)
      BY <3>2, <3>3, <3>5 DEF Reported
    <3> QED BY <3>1, <3>8, OneReported
  <2>2. RequestSum' = RequestSum + 0
    <3>1. RequestSum' = RequestSum
      BY <1>16, RequestsStay
      DEF NoteSend, vars, mainVars, counterVars, ioVars, replyVars, threadVars
    <3> QED BY <3>1, SumTypes
  <2>3. Cardinality(Threading)' = Cardinality(Threading) + 1
    <3>1. t \notin Threading /\ Threading' = Threading \cup {t}
      BY <1>16 DEF NoteSend, Runnable, Threading, Sends, Types
    <3> QED BY <3>1, SumTypes, FS_AddElement
  <2>4. Cardinality(toTell)' = Cardinality(toTell) + 0
    <3>1. toTell' = toTell
      BY <1>16 DEF NoteSend, vars, mainVars, counterVars, ioVars, replyVars, threadVars
    <3> QED BY <3>1, SumTypes
  <2>5. Dummy' + Owed' = (Dummy + Owed) + 0
    <3>1. Dummy' = Dummy /\ Owed' = Owed
      <4>1. main' = main /\ finishSent' = finishSent
        BY <1>16 DEF NoteSend, vars, mainVars, counterVars, ioVars, replyVars, threadVars
      <4>2. \A u \in Threads : tpc'[u] = "store" <=> tpc[u] = "store"
        BY <1>16
        DEF NoteSend, Runnable, Types, vars, mainVars, counterVars, ioVars, replyVars,
            threadVars
      <4> QED BY <4>1, <4>2 DEF Dummy, Owed
    <3> QED BY <3>1, OwedType
  <2>6. count' = count + ((((0 + 0) + 1) + 0) + 0) /\ count \in Int
    <3>1. count' = count + 1 /\ count \in Int /\ NumTargets \in Int
      BY <1>16, Finite
      DEF NoteSend, Types, vars, mainVars, counterVars, ioVars, replyVars, threadVars
    <3> QED BY <3>1
  <2>7. main # "idle"
    BY <1>16 DEF NoteSend, Runnable, Phases, Before
  <2>8. 0 \in Int /\ 1 \in Int
    OBVIOUS
  <2>9. CountInv'
    BY <2>1, <2>2, <2>3, <2>4, <2>5, <2>6, <2>7, Finite, CountMoves, <2>8, ZenonT(30)
  <2> QED BY <2>1, <2>9
<1>17. ASSUME NEW t \in Threads, WriteRequest(t) PROVE ReportedInv' /\ CountInv'
  <2>1. ReportedSum' = ReportedSum + 0 /\ ReportedInv'
    <3>1. \A u \in Threads \ {t} : live'[u] = live[u] /\ delta'[u] = delta[u] /\ tpc'[u] = tpc[u]
      BY <1>17
      DEF WriteRequest, Types, vars, mainVars, counterVars, ioVars, replyVars, threadVars
    <3>2. Cardinality(live[t]) \in Nat /\ delta[t] \in Int /\ (live[t] # {} => Cardinality(live[t]) # 0)
      BY FS_CardinalityType, FS_EmptySet DEF Types
    <3>3. Reported(t) >= 0 /\ (live[t] # {} => Reported(t) >= 1)
      BY DEF ReportedInv
    <3>5. live'[t] = live[t] /\ delta'[t] = delta[t] /\ tpc[t] \in {"run", "sending"} /\ tpc'[t] \in {"run", "sending"}
      BY <1>17 DEF WriteRequest, Runnable, Types
    <3>8. Reported(t)' = Reported(t) + 0 /\ Reported(t)' >= 0 /\ (live'[t] # {} => Reported(t)' >= 1)
      BY <3>2, <3>3, <3>5 DEF Reported
    <3> QED BY <3>1, <3>8, OneReported
  <2>2. RequestSum' = RequestSum + 1
    <3>1. sending[t].job \in Job /\ sending[t].job.kind # "reply" /\ sending[t].to \in Inboxes
      BY <1>17
      DEF WriteRequest, Types, Sends, Sending, Targets, Inboxes, Threads, Jobs, JobsProper
    <3>2. Push(sending[t].to, sending[t].job)
      BY <1>17 DEF WriteRequest
    <3> QED BY <3>1, <3>2, RequestsPush
  <2>3. Cardinality(Threading)' = Cardinality(Threading) + (-1)
    <3>1. t \in Threading /\ Threading' = Threading \ {t}
      BY <1>17 DEF WriteRequest, Threading, Sends, Types
    <3>2. Cardinality(Threading)' = Cardinality(Threading) - 1
      BY <3>1, SumTypes, FS_RemoveElement
    <3> QED BY <3>2, SumTypes
  <2>4. Cardinality(toTell)' = Cardinality(toTell) + 0
    <3>1. toTell' = toTell
      BY <1>17 DEF WriteRequest, vars, mainVars, counterVars, ioVars, replyVars, threadVars
    <3> QED BY <3>1, SumTypes
  <2>5. Dummy' + Owed' = (Dummy + Owed) + 0
    <3>1. Dummy' = Dummy /\ Owed' = Owed
      <4>1. main' = main /\ finishSent' = finishSent
        BY <1>17 DEF WriteRequest, vars, mainVars, counterVars, ioVars, replyVars, threadVars
      <4>2. \A u \in Threads : tpc'[u] = "store" <=> tpc[u] = "store"
        BY <1>17
        DEF WriteRequest, Runnable, Types, vars, mainVars, counterVars, ioVars, replyVars,
            threadVars
      <4> QED BY <4>1, <4>2 DEF Dummy, Owed
    <3> QED BY <3>1, OwedType
  <2>6. count' = count + ((((1 + 0) + (-1)) + 0) + 0) /\ count \in Int
    <3>1. count' = count /\ count \in Int /\ NumTargets \in Int
      BY <1>17, Finite
      DEF WriteRequest, Types, vars, mainVars, counterVars, ioVars, replyVars, threadVars
    <3> QED BY <3>1
  <2>7. main # "idle"
    BY <1>17 DEF WriteRequest, Runnable, Phases, Before
  <2>9. CountInv'
    BY <2>1, <2>2, <2>3, <2>4, <2>5, <2>6, <2>7, Finite, CountMoves
  <2> QED BY <2>1, <2>9
<1>18. ASSUME NEW t \in Threads, NEW j \in live[t], EndJob(t, j) PROVE ReportedInv' /\ CountInv'
  <2>1. ReportedSum' = ReportedSum + 0 /\ ReportedInv'
    <3>1. \A u \in Threads \ {t} : live'[u] = live[u] /\ delta'[u] = delta[u] /\ tpc'[u] = tpc[u]
      BY <1>18
      DEF EndJob, Release, Types, vars, mainVars, counterVars, ioVars, replyVars, threadVars
    <3>2. Cardinality(live[t]) \in Nat /\ delta[t] \in Int /\ (live[t] # {} => Cardinality(live[t]) # 0)
      BY FS_CardinalityType, FS_EmptySet DEF Types
    <3>3. Reported(t) >= 0 /\ (live[t] # {} => Reported(t) >= 1)
      BY DEF ReportedInv
    <3>5. /\ live'[t] = live[t] \ {j} /\ j \in live[t] /\ delta'[t] = delta[t] - 1
          /\ tpc[t] = "run" /\ tpc'[t] = "run"
      BY <1>18 DEF EndJob, Runnable, Release, Types
    <3>6. Cardinality(live'[t]) = Cardinality(live[t]) - 1
      BY <3>5, LiveRemove
    <3>8. Reported(t)' = Reported(t) + 0 /\ Reported(t)' >= 0 /\ (live'[t] # {} => Reported(t)' >= 1)
      BY <3>2, <3>3, <3>5, <3>6 DEF Reported
    <3> QED BY <3>1, <3>8, OneReported
  <2>2. RequestSum' = RequestSum + 0
    <3>1. CASE j.kind = "call"
      <4>1. j \in Job
        BY DEF Types
      <4>2. j.id \in Work \cup Threads
        BY <4>1 DEF Job
      <4>3. MkJob("reply", j.id, None) \in Job /\ MkJob("reply", j.id, None).kind = "reply"
        BY <4>2, MadeJobs
      <4>4. Push(j.from, MkJob("reply", j.id, None)) /\ j.from \in Inboxes
        BY <1>18, <3>1 DEF EndJob, Jobs, JobsProper, Proper, Inboxes, Threads
      <4>5. RequestSum' = RequestSum
        BY <4>3, <4>4, RequestsPush
      <4> QED BY <4>5, SumTypes
    <3>2. CASE j.kind # "call"
      <4>1. RequestSum' = RequestSum
        BY <1>18, <3>2, RequestsStay DEF EndJob
      <4> QED BY <4>1, SumTypes
    <3> QED BY <3>1, <3>2
  <2>3. Cardinality(Threading)' = Cardinality(Threading) + 0
    <3>1. Threading' = Threading
      BY <1>18
      DEF EndJob, Threading, Sends, Types, vars, mainVars, counterVars, ioVars, replyVars,
          threadVars
    <3> QED BY <3>1, SumTypes
  <2>4. Cardinality(toTell)' = Cardinality(toTell) + 0
    <3>1. toTell' = toTell
      BY <1>18 DEF EndJob, vars, mainVars, counterVars, ioVars, replyVars, threadVars
    <3> QED BY <3>1, SumTypes
  <2>5. Dummy' + Owed' = (Dummy + Owed) + 0
    <3>1. Dummy' = Dummy /\ Owed' = Owed
      <4>1. main' = main /\ finishSent' = finishSent
        BY <1>18 DEF EndJob, vars, mainVars, counterVars, ioVars, replyVars, threadVars
      <4>2. \A u \in Threads : tpc'[u] = "store" <=> tpc[u] = "store"
        BY <1>18
        DEF EndJob, Runnable, Types, vars, mainVars, counterVars, ioVars, replyVars,
            threadVars
      <4> QED BY <4>1, <4>2 DEF Dummy, Owed
    <3> QED BY <3>1, OwedType
  <2>6. count' = count + ((((0 + 0) + 0) + 0) + 0) /\ count \in Int
    <3>1. count' = count /\ count \in Int /\ NumTargets \in Int
      BY <1>18, Finite
      DEF EndJob, Types, vars, mainVars, counterVars, ioVars, replyVars, threadVars
    <3> QED BY <3>1
  <2>7. main # "idle"
    BY <1>18 DEF EndJob, Runnable, Phases, Before
  <2>8. 0 \in Int /\ 1 \in Int
    OBVIOUS
  <2>9. CountInv'
    BY <2>1, <2>2, <2>3, <2>4, <2>5, <2>6, <2>7, Finite, CountMoves, <2>8, ZenonT(30)
  <2> QED BY <2>1, <2>9
<1>19. ASSUME NEW t \in Threads, HandleBegin(t) PROVE ReportedInv' /\ CountInv'
  <2>1. ReportedSum' = ReportedSum + 0 /\ ReportedInv'
    <3>1. \A u \in Threads \ {t} : live'[u] = live[u] /\ delta'[u] = delta[u] /\ tpc'[u] = tpc[u]
      BY <1>19
      DEF HandleBegin, Release, Types, vars, mainVars, counterVars, ioVars, replyVars,
          threadVars
    <3>2. Cardinality(live[t]) \in Nat /\ delta[t] \in Int /\ (live[t] # {} => Cardinality(live[t]) # 0)
      BY FS_CardinalityType, FS_EmptySet DEF Types
    <3>3. Reported(t) >= 0 /\ (live[t] # {} => Reported(t) >= 1)
      BY DEF ReportedInv
    <3>5. /\ live'[t] = live[t] \ {MkJob("begin", t, None)} /\ MkJob("begin", t, None) \in live[t] /\ delta'[t] = delta[t] - 1
          /\ tpc[t] = "run" /\ tpc'[t] = "run"
      BY <1>19 DEF HandleBegin, Runnable, Release, Types
    <3>6. Cardinality(live'[t]) = Cardinality(live[t]) - 1
      BY <3>5, LiveRemove
    <3>8. Reported(t)' = Reported(t) + 0 /\ Reported(t)' >= 0 /\ (live'[t] # {} => Reported(t)' >= 1)
      BY <3>2, <3>3, <3>5, <3>6 DEF Reported
    <3> QED BY <3>1, <3>8, OneReported
  <2>2. RequestSum' = RequestSum + 0
    <3>1. RequestSum' = RequestSum
      BY <1>19, RequestsStay
      DEF HandleBegin, vars, mainVars, counterVars, ioVars, replyVars, threadVars
    <3> QED BY <3>1, SumTypes
  <2>3. Cardinality(Threading)' = Cardinality(Threading) + 0
    <3>1. Threading' = Threading
      BY <1>19
      DEF HandleBegin, Threading, Sends, Types, vars, mainVars, counterVars, ioVars,
          replyVars, threadVars
    <3> QED BY <3>1, SumTypes
  <2>4. Cardinality(toTell)' = Cardinality(toTell) + 0
    <3>1. toTell' = toTell
      BY <1>19 DEF HandleBegin, vars, mainVars, counterVars, ioVars, replyVars, threadVars
    <3> QED BY <3>1, SumTypes
  <2>5. Dummy' + Owed' = (Dummy + Owed) + 0
    <3>1. Dummy' = Dummy /\ Owed' = Owed
      <4>1. main' = main /\ finishSent' = finishSent
        BY <1>19 DEF HandleBegin, vars, mainVars, counterVars, ioVars, replyVars, threadVars
      <4>2. \A u \in Threads : tpc'[u] = "store" <=> tpc[u] = "store"
        BY <1>19
        DEF HandleBegin, Runnable, Types, vars, mainVars, counterVars, ioVars, replyVars,
            threadVars
      <4> QED BY <4>1, <4>2 DEF Dummy, Owed
    <3> QED BY <3>1, OwedType
  <2>6. count' = count + ((((0 + 0) + 0) + 0) + 0) /\ count \in Int
    <3>1. count' = count /\ count \in Int /\ NumTargets \in Int
      BY <1>19, Finite
      DEF HandleBegin, Types, vars, mainVars, counterVars, ioVars, replyVars, threadVars
    <3> QED BY <3>1
  <2>7. main # "idle"
    BY <1>19 DEF HandleBegin, Runnable, Phases, Before
  <2>9. CountInv'
    BY <2>1, <2>2, <2>3, <2>4, <2>5, <2>6, <2>7, Finite, CountMoves
  <2> QED BY <2>1, <2>9
<1>20. ASSUME NEW t \in Threads, HandleFinish(t) PROVE ReportedInv' /\ CountInv'
  <2>1. ReportedSum' = ReportedSum + 0 /\ ReportedInv'
    <3>1. \A u \in Threads \ {t} : live'[u] = live[u] /\ delta'[u] = delta[u] /\ tpc'[u] = tpc[u]
      BY <1>20
      DEF HandleFinish, Release, Types, vars, mainVars, counterVars, ioVars, replyVars,
          threadVars
    <3>2. Cardinality(live[t]) \in Nat /\ delta[t] \in Int /\ (live[t] # {} => Cardinality(live[t]) # 0)
      BY FS_CardinalityType, FS_EmptySet DEF Types
    <3>3. Reported(t) >= 0 /\ (live[t] # {} => Reported(t) >= 1)
      BY DEF ReportedInv
    <3>5. /\ live'[t] = live[t] \ {MkJob("finish", t, None)} /\ MkJob("finish", t, None) \in live[t] /\ delta'[t] = delta[t] - 1
          /\ tpc[t] = "run" /\ tpc'[t] = "run"
      BY <1>20 DEF HandleFinish, Runnable, Release, Types
    <3>6. Cardinality(live'[t]) = Cardinality(live[t]) - 1
      BY <3>5, LiveRemove
    <3>8. Reported(t)' = Reported(t) + 0 /\ Reported(t)' >= 0 /\ (live'[t] # {} => Reported(t)' >= 1)
      BY <3>2, <3>3, <3>5, <3>6 DEF Reported
    <3> QED BY <3>1, <3>8, OneReported
  <2>2. RequestSum' = RequestSum + 0
    <3>1. RequestSum' = RequestSum
      BY <1>20, RequestsStay
      DEF HandleFinish, vars, mainVars, counterVars, ioVars, replyVars, threadVars
    <3> QED BY <3>1, SumTypes
  <2>3. Cardinality(Threading)' = Cardinality(Threading) + 0
    <3>1. Threading' = Threading
      BY <1>20
      DEF HandleFinish, Threading, Sends, Types, vars, mainVars, counterVars, ioVars,
          replyVars, threadVars
    <3> QED BY <3>1, SumTypes
  <2>4. Cardinality(toTell)' = Cardinality(toTell) + 0
    <3>1. toTell' = toTell
      BY <1>20 DEF HandleFinish, vars, mainVars, counterVars, ioVars, replyVars, threadVars
    <3> QED BY <3>1, SumTypes
  <2>5. Dummy' + Owed' = (Dummy + Owed) + 0
    <3>1. Dummy' = Dummy /\ Owed' = Owed
      <4>1. main' = main /\ finishSent' = finishSent
        BY <1>20 DEF HandleFinish, vars, mainVars, counterVars, ioVars, replyVars, threadVars
      <4>2. \A u \in Threads : tpc'[u] = "store" <=> tpc[u] = "store"
        BY <1>20
        DEF HandleFinish, Runnable, Types, vars, mainVars, counterVars, ioVars, replyVars,
            threadVars
      <4> QED BY <4>1, <4>2 DEF Dummy, Owed
    <3> QED BY <3>1, OwedType
  <2>6. count' = count + ((((0 + 0) + 0) + 0) + 0) /\ count \in Int
    <3>1. count' = count /\ count \in Int /\ NumTargets \in Int
      BY <1>20, Finite
      DEF HandleFinish, Types, vars, mainVars, counterVars, ioVars, replyVars, threadVars
    <3> QED BY <3>1
  <2>7. main # "idle"
    BY <1>20 DEF HandleFinish, Runnable, Phases, Before
  <2>9. CountInv'
    BY <2>1, <2>2, <2>3, <2>4, <2>5, <2>6, <2>7, Finite, CountMoves
  <2> QED BY <2>1, <2>9
<1>21. ASSUME UNCHANGED vars PROVE ReportedInv' /\ CountInv'
  <2>1. UNCHANGED <<inbox, live, delta, tpc, toTell, main, finishSent, count>>
    BY <1>21 DEF vars, mainVars, counterVars, ioVars, replyVars, threadVars
  <2> QED BY <2>1, SumsStay
<1>22. ASSUME NEW t \in Threads, LoseMessage(t) PROVE ReportedInv' /\ CountInv'
  <2>1. /\ UNCHANGED <<inbox, live, delta, toTell, main, finishSent, count>>
        /\ tpc[t] = "run" /\ tpc'[t] = "spin" /\ \A u \in Threads \ {t} : tpc'[u] = tpc[u]
    BY <1>22
    DEF LoseMessage, Types, vars, mainVars, counterVars, ioVars, replyVars, threadVars
  <2>2. \A u \in Threads : Reported(u)' = Reported(u)
    BY <2>1 DEF Reported
  <2>3. ReportedSum' = ReportedSum /\ RequestSum' = RequestSum
    BY <2>1, <2>2, ReportedStay, RequestsStay
  <2>4. Threading' = Threading /\ Dummy' = Dummy /\ Owed' = Owed
    BY <2>1 DEF Threading, Sends, Dummy, Owed
  <2>5. CountInv'
    BY <2>1, <2>3, <2>4 DEF CountInv
  <2>6. ReportedInv'
    BY <2>1, <2>2 DEF ReportedInv
  <2> QED BY <2>5, <2>6
<1> QED
  BY <1>1, <1>2, <1>3, <1>4, <1>5, <1>6, <1>7, <1>8, <1>9, <1>10, <1>11, <1>12, <1>13,
     <1>14, <1>15, <1>16, <1>17, <1>18, <1>19, <1>20, <1>21, <1>22
  DEF Next, MainNext, ThreadNext, SomeJobEnds, Send

-----------------------------------------------------------------------------
\* The parts of Phases that quiet steps can disturb.
Ended == /\ \A t \in Threads : ~ Sends(t) /\ \A j \in live[t] : j.kind = "finish"
         /\ \A q \in Inboxes : Kinds({"reply", "finish"}, q)
Idles == \A t \in Threads : live[t] = {} /\ (tpc[t] = "run" => delta[t] = 0)
Lasts == \A u \in Threads :
  /\ FinishIn(u) => inbox[u][Len(inbox[u])] = MkJob("finish", u, None)
  /\ FinishLive(u) => inbox[u] = <<>>
  /\ stop[u] => inbox[u] = <<>> /\ live[u] = {}

\* What a request to begin or to finish is like.
LEMMA KindsOf == \A k, i, f : MkJob(k, i, f).kind = k /\ MkJob(k, i, f).id = i
  BY DEF MkJob

\* A step that does not take a thread into another phase.
LEMMA PhasesQuiet ==
  ASSUME Phases, main # "idle", UNCHANGED <<main, toTell, finishSent, finishing, stop>>,
         \A u \in Threads : tpc'[u] = tpc[u] \/ {tpc[u], tpc'[u]} \subseteq {"poll", "repoll", "run", "spin", "sending"},
         \A u \in Threads : (BeginAt(u)' => BeginAt(u)) /\ (FinishAt(u)' => FinishAt(u)),
         Ending => Ended',
         ~ finishSent /\ (\E u \in Threads : SawZero(u)) => Idles',
         Ending => Lasts'
  PROVE  Phases'
<1>1. \A u \in Threads : (SawZero(u)' <=> SawZero(u)) /\ (tpc'[u] = "tell" <=> tpc[u] = "tell")
                        /\ (tpc'[u] = "paused" <=> tpc[u] = "paused")
  BY DEF SawZero
<1>2. Ending' <=> Ending
  BY <1>1 DEF Ending, SawZero
<1>3. Before'
  BY <1>1 DEF Phases, Before
<1>4. Ends'
  <2>1. Ending' => main' = "waiting" /\ Ended'
    BY <1>2 DEF Phases, Ends
  <2>2. main' # "idle" /\ ~ finishSent' /\ (\E t \in Threads : SawZero(t)') => Idles'
    BY <1>1
  <2>3. \A t \in Threads : SawZero(t)' => ~ finishSent'
    BY <1>1 DEF Phases, Ends
  <2>4. \A t, u \in Threads : (SawZero(t)' \/ tpc'[t] = "tell") /\ (SawZero(u)' \/ tpc'[u] = "tell") => t = u
    BY <1>1 DEF Phases, Ends
  <2>5. \A t \in Threads : tpc'[t] = "tell" <=> finishing'[t] # {}
    BY <1>1 DEF Phases, Ends
  <2> QED BY <2>1, <2>2, <2>3, <2>4, <2>5 DEF Ends, Ended, Idles
<1>5. After'
  <2>1. \A t, u \in Threads : u \in finishing'[t] => ~ FinishAt(u)' /\ ~ stop'[u]
    BY DEF Phases, After
  <2>2. \A u \in Threads : FinishAt(u)' => ~ stop'[u]
    BY DEF Phases, After, FinishAt
  <2>3. \A u \in Threads : FinishAt(u)' \/ stop'[u] => Ending
    BY DEF Phases, Before, Ending
  <2>4. \A u \in Threads : tpc'[u] = "paused" => stop'[u]
    BY <1>1 DEF Phases, After
  <2>5. \A u \in Threads : (FinishIn(u)' => FinishAt(u)') /\ (FinishLive(u)' => FinishAt(u)')
    BY DEF FinishAt
  <2> QED BY <2>1, <2>2, <2>3, <2>4, <2>5 DEF After, Lasts
<1> QED BY <1>3, <1>4, <1>5 DEF Phases

\* One before the end.
LEMMA PhasesBusy ==
  ASSUME Phases, ~ Ending, main # "idle", UNCHANGED <<main, toTell, finishSent, finishing, stop>>,
         \A u \in Threads : tpc'[u] = tpc[u] \/ {tpc[u], tpc'[u]} \subseteq {"poll", "repoll", "run", "spin", "sending"},
         \A u \in Threads : (BeginAt(u)' => BeginAt(u)) /\ (FinishAt(u)' => FinishAt(u))
  PROVE  Phases'
<1>1. ~ \E u \in Threads : SawZero(u)
  BY DEF Ending, SawZero
<1> QED BY <1>1, PhasesQuiet

\* Nothing the phases depend on changes.
LEMMA PhasesSame ==
  ASSUME Phases, UNCHANGED <<main, toTell, finishSent, count, finishing, stop, tpc, live, delta, inbox>>
  PROVE  Phases'
  BY DEF Phases, Before, Ends, After, BeginAt, FinishAt, FinishIn, FinishLive, SawZero, Sends,
         Ending, Kinds, InInbox

\* The counter is at zero only when there is nothing left.
NothingLeft ==
  /\ main # "running" /\ toTell = {}
  /\ \A t \in Threads : ~ Sends(t) /\ live[t] = {} /\ (tpc[t] = "run" => delta[t] = 0)
  /\ \A q \in Inboxes : Kinds({"reply"}, q)

\* A thread that sees the counter at zero tells the others to finish.
Zero == main # "idle" /\ ~ finishSent /\ (\A t \in Threads : tpc[t] # "store") /\ count = 0

LEMMA ZeroMeans == Types /\ ReportedInv /\ CountInv /\ Zero => NothingLeft
<1> SUFFICES ASSUME Types, ReportedInv, CountInv, Zero PROVE NothingLeft
  OBVIOUS
<1>1. /\ RequestSum \in Nat /\ \A q \in Inboxes : Requests(q) <= RequestSum
      /\ ReportedSum \in Nat /\ \A t \in Threads : Reported(t) <= ReportedSum
      /\ Cardinality(Threading) \in Nat /\ Cardinality(toTell) \in Nat
  BY SumTypes
<1>2. 0 = (((RequestSum + ReportedSum) + Cardinality(Threading)) + Cardinality(toTell)) + (Dummy + Owed)
  BY DEF CountInv, Zero
<1>3. RequestSum = 0 /\ ReportedSum = 0 /\ Cardinality(Threading) = 0 /\ Cardinality(toTell) = 0 /\ Dummy = 0
  <2>1. PICK a \in Nat, b \in Nat : a = RequestSum /\ b = ReportedSum
    BY <1>1
  <2>2. PICK c \in Nat, d \in Nat : c = Cardinality(Threading) /\ d = Cardinality(toTell)
    BY <1>1
  <2>3. PICK e \in Nat, f \in Nat : e = Dummy /\ f = Owed
    BY OwedType
  <2>4. 0 = (((a + b) + c) + d) + (e + f)
    BY <1>2, <2>1, <2>2, <2>3
  <2>5. a = 0 /\ b = 0 /\ c = 0 /\ d = 0 /\ e = 0
    BY <2>4
  <2> QED BY <2>1, <2>2, <2>3, <2>5
<1>4. main # "running" /\ toTell = {} /\ \A t \in Threads : ~ Sends(t)
  BY <1>3, SumTypes DEF Dummy
<1>5. ASSUME NEW q \in Inboxes PROVE Kinds({"reply"}, q)
  <2>1. Requests(q) \in Nat /\ Requests(q) <= 0
    BY <1>1, <1>3, SumTypes
  <2> QED BY <2>1, SumTypes
<1>6. ASSUME NEW t \in Threads PROVE live[t] = {} /\ (tpc[t] = "run" => delta[t] = 0)
  <2>1. Reported(t) = 0
    <3>1. Reported(t) \in Int /\ Reported(t) <= 0 /\ Reported(t) >= 0
      BY <1>1, <1>3, SumTypes DEF ReportedInv
    <3> QED BY <3>1
  <2>2. live[t] = {}
    BY <2>1 DEF ReportedInv
  <2>3. tpc[t] = "run" => 0 - delta[t] = 0
    BY <2>1, <2>2, FS_EmptySet DEF Reported
  <2>4. delta[t] \in Int
    BY DEF Types
  <2> QED BY <2>2, <2>3, <2>4
<1> QED BY <1>4, <1>5, <1>6 DEF NothingLeft

\* The same of the next state.
LEMMA ZeroNext ==
  ASSUME Types', ReportedInv', CountInv', main' # "idle", ~ finishSent',
         \A t \in Threads : tpc'[t] # "store", count' = 0
  PROVE  NothingLeft'
<1>1. Zero'
  BY DEF Zero
<1> QED BY <1>1, ZeroMeans, PTL

\* Every step keeps the phases.
LEMMA PhasesStep ==
  ASSUME Types, Types', Jobs, Jobs', Phases, ReportedInv, ReportedInv', CountInv, CountInv', ~ Chaining, [Next]_vars
  PROVE  Phases'
<1>1. ASSUME NEW q \in Targets, NEW w \in Work, Enqueue(q, w) PROVE Phases'
  <2>1. UNCHANGED <<main, toTell, finishSent, count, finishing, stop, tpc, live, delta>> /\ main = "idle"
    BY <1>1 DEF Enqueue, vars, mainVars, counterVars, ioVars, replyVars, threadVars
  <2>2. PICK x \in Job : x = MkJob("task", w, None) /\ x.kind = "task"
    BY MadeJobs
  <2>3. \A r \in Inboxes : InInbox(r)' = IF r = q THEN InInbox(q) \cup {x} ELSE InInbox(r)
    <3>1. Push(q, x) /\ q \in Inboxes
      BY <1>1, <2>2 DEF Enqueue, Inboxes, Targets, Threads
    <3> QED BY <3>1, PushProps
  <2>4. \A u \in Threads : (BeginAt(u)' => BeginAt(u)) /\ (FinishAt(u)' => FinishAt(u))
    BY <2>1, <2>2, <2>3, KindsOf DEF BeginAt, FinishAt, FinishIn, FinishLive, Inboxes
  <2>5. \A u \in Threads : SawZero(u)' <=> SawZero(u)
    BY <2>1 DEF SawZero
  <2>6. Before'
    BY <2>1, <2>2, <2>3, <2>4 DEF Phases, Before, Kinds
  <2>7. Ends'
    BY <2>1, <2>5 DEF Phases, Ends, Ending
  <2>8. After'
    BY <2>1, <2>4 DEF Phases, After
  <2> QED BY <2>6, <2>7, <2>8 DEF Phases
<1>2. ASSUME Run PROVE Phases'
  <2>1. /\ UNCHANGED <<toTell, inbox, live, finishing>> /\ main' = "running" /\ ~ finishSent'
        /\ \A t \in Threads : tpc'[t] = "poll" /\ ~ stop'[t]
    BY <1>2 DEF Run
  <2>2. /\ main = "idle" /\ \A t \in Threads : live[t] = {} /\ finishing[t] = {}
        /\ \A q \in Inboxes : Kinds({"task"}, q)
        /\ toTell = {}
    BY <1>2 DEF Run, Phases, Before
  <2>3. \A t \in Threads : ~ BeginAt(t)' /\ ~ FinishAt(t)'
    <3>1. \A t \in Threads : InInbox(t)' = InInbox(t)
      BY <2>1 DEF InInbox
    <3> QED
      BY <2>1, <2>2, <3>1, KindsOf DEF BeginAt, FinishAt, FinishIn, FinishLive, Kinds, Inboxes
  <2>4. \A t \in Threads : ~ SawZero(t)' /\ ~ FinishIn(t)' /\ ~ FinishLive(t)'
    BY <2>1, <2>3 DEF SawZero, FinishAt
  <2>5. Before'
    BY <2>1, <2>2, <2>3 DEF Before
  <2>6. Ends'
    <3>1. ~ Ending'
      BY <2>1 DEF Ending
    <3> QED BY <2>1, <2>2, <2>4, <3>1 DEF Ends
  <2>7. After'
    BY <2>1, <2>2, <2>4 DEF After
  <2> QED BY <2>5, <2>6, <2>7 DEF Phases
<1>3. ASSUME BeginShutdown PROVE Phases'
  <2>1. /\ main = "running" /\ main' = "telling" /\ toTell' = Threads
        /\ UNCHANGED <<inbox, live, tpc, finishing, stop, finishSent>>
    BY <1>3 DEF BeginShutdown, vars, mainVars, counterVars, ioVars, replyVars, threadVars
  <2>2. ~ Ending /\ ~ finishSent /\ \A u \in Threads : ~ SawZero(u)
    <3>1. ~ Ending
      BY <2>1 DEF Phases, Ends
    <3> QED BY <2>1, <3>1 DEF Ending, SawZero
  <2>3. \A u \in Threads : ~ FinishAt(u) /\ finishing[u] = {} /\ ~ stop[u] /\ tpc[u] \notin {"paused", "tell"}
    BY <2>1, <2>2 DEF Phases, Before
  <2>4. toTell' # {} /\ \A u \in Threads : ~ BeginAt(u)'
    <3>1. \A u \in Threads : InInbox(u)' = InInbox(u)
      BY <2>1 DEF InInbox
    <3> QED BY <2>1, <3>1, ShutdownAssumption DEF Phases, Before, BeginAt, Threads
  <2>5. \A u \in Threads : ~ FinishAt(u)'
    <3>1. \A u \in Threads : InInbox(u)' = InInbox(u)
      BY <2>1 DEF InInbox
    <3> QED BY <2>1, <2>3, <3>1 DEF FinishAt, FinishIn, FinishLive
  <2>6. \A u \in Threads : ~ SawZero(u)' /\ ~ FinishIn(u)' /\ ~ FinishLive(u)'
    BY <2>1, <2>2, <2>3, <2>5 DEF SawZero, FinishAt
  <2>7. Before'
    BY <2>1, <2>3, <2>4, <2>5 DEF Phases, Before
  <2>8. Ends'
    <3>1. ~ Ending'
      BY <2>1, <2>2, <2>6 DEF Ending, SawZero
    <3> QED BY <2>1, <2>3, <2>6, <3>1 DEF Ends
  <2>9. After'
    BY <2>1, <2>3, <2>5, <2>6 DEF After
  <2> QED BY <2>7, <2>8, <2>9 DEF Phases
<1>4. ASSUME NEW t \in Threads, TellBegin(t) PROVE Phases'
  <2>1. /\ main = "telling" /\ t \in toTell /\ toTell' = toTell \ {t}
        /\ main' = IF toTell' = {} THEN "waiting" ELSE "telling"
        /\ UNCHANGED <<live, tpc, finishing, stop, finishSent>>
    BY <1>4 DEF TellBegin, vars, mainVars, counterVars, ioVars, replyVars, threadVars
  <2>2. ~ Ending /\ ~ finishSent /\ \A u \in Threads : ~ SawZero(u)
    <3>1. ~ Ending
      BY <2>1 DEF Phases, Ends
    <3> QED BY <2>1, <3>1 DEF Ending, SawZero
  <2>3. \A u \in Threads : ~ FinishAt(u) /\ finishing[u] = {} /\ ~ stop[u] /\ tpc[u] \notin {"paused", "tell"}
    BY <2>1, <2>2 DEF Phases, Before
  <2>10. \A r \in Inboxes : InInbox(r)' = IF r = t THEN InInbox(t) \cup {MkJob("begin", t, None)} ELSE InInbox(r)
    <3>1. MkJob("begin", t, None) \in Job /\ Push(t, MkJob("begin", t, None)) /\ t \in Inboxes
      BY <1>4, MadeJobs DEF TellBegin, Inboxes
    <3> QED BY <3>1, PushProps
  <2>4. /\ main' = "telling" <=> toTell' # {}
        /\ \A u \in Threads : BeginAt(u)' => main' \in {"telling", "waiting"} /\ u \notin toTell'
    <3>1. \A u \in Threads : BeginAt(u)' => u = t \/ BeginAt(u)
      BY <2>1, <2>10, KindsOf DEF BeginAt, Inboxes
    <3> QED BY <2>1, <3>1 DEF Phases, Before
  <2>5. \A u \in Threads : ~ FinishAt(u)'
    <3>1. MkJob("begin", t, None).kind = "begin" /\ \A u : MkJob("finish", u, None).kind = "finish"
      BY KindsOf
    <3> QED BY <2>1, <2>3, <2>10, <3>1 DEF FinishAt, FinishIn, FinishLive, Inboxes
  <2>6. \A u \in Threads : ~ SawZero(u)' /\ ~ FinishIn(u)' /\ ~ FinishLive(u)'
    BY <2>1, <2>2, <2>3, <2>5 DEF SawZero, FinishAt
  <2>7. Before'
    BY <2>1, <2>3, <2>4, <2>5 DEF Phases, Before
  <2>8. Ends'
    <3>1. ~ Ending'
      BY <2>1, <2>2, <2>6 DEF Ending, SawZero
    <3> QED BY <2>1, <2>3, <2>6, <3>1 DEF Ends
  <2>9. After'
    BY <2>1, <2>3, <2>5, <2>6 DEF After
  <2> QED BY <2>7, <2>8, <2>9 DEF Phases
<1>5. ASSUME RunReturns PROVE Phases'
  <2>1. /\ main = "waiting" /\ main' = "idle" /\ \A t \in Threads : tpc[t] = "paused"
        /\ UNCHANGED <<toTell, count, finishSent, inbox, tpc, live, delta, finishing, stop>>
    BY <1>5 DEF RunReturns, vars, mainVars, counterVars, ioVars, replyVars, threadVars
  <2>2. /\ finishSent /\ toTell = {}
        /\ \A t \in Threads : stop[t] /\ inbox[t] = <<>> /\ live[t] = {} /\ finishing[t] = {}
    <3>1. \E t \in Threads : TRUE
      BY ShutdownAssumption DEF Threads
    <3>2. finishSent /\ toTell = {}
      BY <2>1, <3>1 DEF Phases, Before
    <3>3. \A t \in Threads : stop[t] /\ finishing[t] = {}
      BY <2>1 DEF Phases, Ends, After
    <3>4. \A t \in Threads : inbox[t] = <<>> /\ live[t] = {}
      BY <2>1, <3>3 DEF Phases, After
    <3> QED BY <3>2, <3>3, <3>4
  <2>3. \A q \in Inboxes : InInbox(q)' = {}
    <3>1. \A q \in Threads : InInbox(q) = {}
      BY <2>2 DEF InInbox
    <3>2. InInbox(Io) = {}
      <4>1. Kinds({"reply", "finish"}, Io)
        BY <2>1, <2>2 DEF Phases, Ends, Ending, Inboxes
      <4> QED BY <4>1, ShutdownAssumption DEF Kinds, Jobs, JobsProper, Inboxes, Threads
    <3>3. \A q \in Inboxes : InInbox(q)' = InInbox(q)
      BY <2>1 DEF InInbox
    <3> QED BY <3>1, <3>2, <3>3 DEF Inboxes
  <2>4. \A u \in Threads : /\ ~ BeginAt(u)' /\ ~ FinishAt(u)' /\ (SawZero(u)' <=> SawZero(u))
    BY <2>1, <2>2, <2>3 DEF BeginAt, FinishAt, FinishIn, FinishLive, SawZero, Inboxes
  <2>5. count >= 0
    <3>1. RequestSum \in Nat /\ ReportedSum \in Nat /\ Cardinality(Threading) \in Nat /\ Cardinality(toTell) \in Nat
      BY SumTypes
    <3>2. count = (((RequestSum + ReportedSum) + Cardinality(Threading)) + Cardinality(toTell)) + (Dummy + Owed)
      BY <2>1 DEF CountInv
    <3> QED BY <3>1, <3>2, OwedType
  <2>6. Before'
    BY <2>1, <2>2, <2>3, <2>4, <2>5 DEF Before, Kinds
  <2>7. Ends'
    BY <2>1, <2>4 DEF Phases, Ends, Ending
  <2>8. After'
    BY <2>1, <2>2 DEF After
  <2> QED BY <2>6, <2>7, <2>8 DEF Phases
<1>6. ASSUME NEW t \in Threads, Enter(t) PROVE Phases'
  <2>1. /\ main # "idle" /\ UNCHANGED <<main, toTell, finishSent, finishing, stop>>
        /\ \A u \in Threads : tpc'[u] = tpc[u] \/ {tpc[u], tpc'[u]} \subseteq {"poll", "repoll", "run", "spin", "sending"}
    BY <1>6
    DEF Enter, Phases, Before, Types, vars, mainVars, counterVars, ioVars, replyVars,
        threadVars
  <2>2. UNCHANGED <<inbox, live>> /\ \A u \in Threads : Sends(u)' => Sends(u)
    BY <1>6
    DEF Enter, Types, Sends, vars, mainVars, counterVars, ioVars, replyVars, threadVars
  <2>3. \A u \in Inboxes : InInbox(u)' = InInbox(u)
    BY <2>2 DEF InInbox
  <2>4. \A u \in Threads : tpc'[u] = "run" => delta'[u] = 0 \/ (tpc[u] = "run" /\ delta'[u] = delta[u])
    BY <1>6 DEF Enter, Types, vars, mainVars, counterVars, ioVars, replyVars, threadVars
  <2>5. \A u \in Threads : (BeginAt(u)' => BeginAt(u)) /\ (FinishAt(u)' => FinishAt(u))
    BY <2>2, <2>3 DEF BeginAt, FinishAt, FinishIn, FinishLive, Inboxes
  <2>6. Ending => Ended'
    BY <2>2, <2>3 DEF Phases, Ends, Ended, Kinds
  <2>7. ~ finishSent /\ (\E u \in Threads : SawZero(u)) => Idles'
    BY <2>1, <2>2, <2>4 DEF Phases, Ends, Idles
  <2>8. Ending => Lasts'
    BY <2>1, <2>2, <2>3 DEF Phases, After, Lasts, FinishIn, FinishLive, Inboxes
  <2> QED BY <2>1, <2>5, <2>6, <2>7, <2>8, PhasesQuiet
<1>7. ASSUME NEW t \in Threads, RunEnd(t) PROVE Phases'
  <2>1. /\ UNCHANGED <<main, toTell, finishSent, inbox, live, delta, finishing, stop>>
        /\ tpc[t] = "run" /\ main # "idle"
        /\ \A u \in Threads \ {t} : tpc'[u] = tpc[u]
    BY <1>7
    DEF RunEnd, Phases, Before, Types, vars, mainVars, counterVars, ioVars, replyVars,
        threadVars
  <2>2. \A q : InInbox(q)' = InInbox(q)
    BY <2>1 DEF InInbox
  <2>3. \A u \in Threads : /\ (BeginAt(u)' <=> BeginAt(u)) /\ (FinishAt(u)' <=> FinishAt(u))
                           /\ (FinishIn(u)' <=> FinishIn(u)) /\ (FinishLive(u)' <=> FinishLive(u))
    BY <2>1, <2>2 DEF BeginAt, FinishAt, FinishIn, FinishLive
  <2>4. CASE tpc'[t] = "add"
    <3>1. delta[t] # 0 /\ count' = 0 /\ ~ finishSent
      BY <1>7, <2>4 DEF RunEnd, AfterRun, Types
    <3>2. \A u \in Threads : ~ SawZero(u)
      BY <2>1, <3>1 DEF Phases, Ends
    <3>3. \A u \in Threads : tpc'[u] # "store"
      BY <2>1, <2>4, <3>2 DEF SawZero
    <3>4. NothingLeft'
      BY <2>1, <3>1, <3>3, ZeroNext
    <3>5. main' = "waiting"
      BY <2>1, <3>4 DEF NothingLeft, Phases, Before, Types
    <3>6. Before'
      BY <2>1, <2>3, <2>4 DEF Phases, Before
    <3>7. Ends'
      <4>1. Ended' /\ Idles'
        BY <3>4 DEF NothingLeft, Ended, Idles, Kinds
      <4>2. \A u \in Threads : (SawZero(u)' => u = t) /\ (tpc'[u] # "tell")
        BY <2>1, <2>4, <3>1, <3>2 DEF SawZero, Phases, Before
      <4>3. \A u \in Threads : finishing[u] = {}
        BY <2>1, <3>1 DEF Phases, Before
      <4> QED BY <2>1, <3>1, <3>5, <4>1, <4>2, <4>3 DEF Ends, Ended, Idles
    <3>8. After'
      BY <2>1, <2>3, <2>4 DEF Phases, After
    <3> QED BY <3>6, <3>7, <3>8 DEF Phases
  <2>5. CASE tpc'[t] # "add"
    <3>1. tpc'[t] \in {"repoll", "poll", "paused"} /\ (tpc'[t] = "paused" => stop[t])
      BY <1>7, <2>5 DEF RunEnd, AfterRun, Types
    <3>2. \A u \in Threads : (SawZero(u)' <=> SawZero(u)) /\ (Sends(u)' => Sends(u)) /\ (tpc'[u] = "tell" <=> tpc[u] = "tell")
      BY <2>1, <3>1 DEF SawZero, Sends
    <3>3. Ending' <=> Ending
      BY <2>1, <3>2 DEF Ending, SawZero
    <3>4. Before'
      BY <2>1, <2>3, <3>1 DEF Phases, Before
    <3>5. Ends'
      BY <2>1, <2>2, <3>1, <3>2, <3>3 DEF Phases, Ends, Kinds
    <3>6. After'
      BY <2>1, <2>3, <3>1 DEF Phases, After
    <3> QED BY <3>4, <3>5, <3>6 DEF Phases
  <2> QED BY <2>4, <2>5
<1>8. ASSUME NEW t \in Threads, AddTargets(t) PROVE Phases'
  <2>1. /\ UNCHANGED <<main, toTell, finishSent, inbox, live, delta, finishing, stop>>
        /\ tpc[t] = "add" /\ tpc'[t] = "store" /\ main # "idle"
        /\ \A u \in Threads \ {t} : tpc'[u] = tpc[u]
    BY <1>8
    DEF AddTargets, Phases, Before, Types, vars, mainVars, counterVars, ioVars, replyVars,
        threadVars
  <2>2. \A q : InInbox(q)' = InInbox(q)
    BY <2>1 DEF InInbox
  <2>3. \A u \in Threads : /\ (BeginAt(u)' <=> BeginAt(u)) /\ (FinishAt(u)' <=> FinishAt(u))
                           /\ (FinishIn(u)' <=> FinishIn(u)) /\ (FinishLive(u)' <=> FinishLive(u))
    BY <2>1, <2>2 DEF BeginAt, FinishAt, FinishIn, FinishLive
  <2>4. \A u \in Threads : (SawZero(u)' <=> SawZero(u)) /\ (Sends(u)' => Sends(u)) /\ (tpc'[u] = "tell" <=> tpc[u] = "tell")
    BY <2>1 DEF SawZero, Sends
  <2>5. Ending' <=> Ending
    BY <2>1, <2>4 DEF Ending, SawZero
  <2>6. Before'
    BY <2>1, <2>3 DEF Phases, Before
  <2>7. Ends'
    BY <2>1, <2>2, <2>4, <2>5 DEF Phases, Ends, Kinds
  <2>8. After'
    BY <2>1, <2>3 DEF Phases, After
  <2> QED BY <2>6, <2>7, <2>8 DEF Phases
<1>9. ASSUME NEW t \in Threads, StoreFinish(t) PROVE Phases'
  <2>1. /\ UNCHANGED <<main, toTell, inbox, live, delta, stop>> /\ finishSent'
        /\ tpc[t] = "store" /\ tpc'[t] = "tell" /\ main # "idle" /\ finishing'[t] = Threads
        /\ \A u \in Threads \ {t} : tpc'[u] = tpc[u] /\ finishing'[u] = finishing[u]
    BY <1>9
    DEF StoreFinish, Phases, Before, Types, vars, mainVars, counterVars, ioVars, replyVars,
        threadVars
  <2>2. \A q : InInbox(q)' = InInbox(q)
    BY <2>1 DEF InInbox
  <2>3. \A u \in Threads : /\ (BeginAt(u)' <=> BeginAt(u)) /\ (FinishAt(u)' <=> FinishAt(u))
                           /\ (FinishIn(u)' <=> FinishIn(u)) /\ (FinishLive(u)' <=> FinishLive(u))
    BY <2>1, <2>2 DEF BeginAt, FinishAt, FinishIn, FinishLive
  <2>4. Ending /\ SawZero(t) /\ ~ finishSent
    BY <2>1 DEF Ending, SawZero, Phases, Ends
  <2>5. \A u \in Threads : ~ FinishAt(u) /\ ~ stop[u] /\ tpc[u] \notin {"paused", "tell"}
    BY <2>1, <2>4 DEF Phases, Before
  <2>6. \A u \in Threads : ~ SawZero(u)' /\ (tpc'[u] = "tell" <=> u = t)
    <3>1. \A u \in Threads : SawZero(u) => u = t
      BY <2>4 DEF Phases, Ends
    <3> QED BY <2>1, <2>5, <3>1 DEF SawZero
  <2>7. Before'
    BY <2>1, <2>3 DEF Phases, Before
  <2>8. Ends'
    <3>1. Ended'
      <4>1. \A u \in Threads : Sends(u)' => Sends(u)
        BY <2>1 DEF Sends
      <4> QED BY <2>1, <2>2, <2>4, <4>1 DEF Phases, Ends, Ended, Kinds
    <3>2. main = "waiting" /\ \A u \in Threads \ {t} : finishing[u] = {}
      BY <2>4, <2>5 DEF Phases, Ends
    <3> QED BY <2>1, <2>6, <3>1, <3>2 DEF Ends, Ended
  <2>9. After'
    <3>1. \A u \in Threads : ~ FinishIn(u)' /\ ~ FinishLive(u)' /\ ~ FinishAt(u)' /\ ~ stop'[u] /\ tpc'[u] # "paused"
      BY <2>1, <2>3, <2>5 DEF FinishAt
    <3> QED BY <3>1 DEF After
  <2> QED BY <2>7, <2>8, <2>9 DEF Phases
<1>10. ASSUME NEW t \in Threads, NEW u \in Threads, TellFinish(t, u) PROVE Phases'
  <2>1. /\ UNCHANGED <<main, toTell, finishSent, live, delta, stop>>
        /\ tpc[t] = "tell" /\ main # "idle" /\ u \in finishing[t] /\ finishing'[t] = finishing[t] \ {u}
        /\ \A v \in Threads \ {t} : tpc'[v] = tpc[v] /\ finishing'[v] = finishing[v]
    BY <1>10
    DEF TellFinish, Phases, Before, Types, vars, mainVars, counterVars, ioVars, replyVars,
        threadVars
  <2>2. /\ tpc'[t] = "tell" <=> finishing'[t] # {}
        /\ tpc'[t] \in {"tell", "repoll", "poll", "paused"} /\ (tpc'[t] = "paused" => stop[t])
    BY <1>10 DEF TellFinish, AfterRun, Types
  <2>3. PICK x \in Job : x = MkJob("finish", u, None) /\ x.kind = "finish" /\ x.id = u
    BY MadeJobs
  <2>4. /\ \A r \in Inboxes : InInbox(r)' = IF r = u THEN InInbox(u) \cup {x} ELSE InInbox(r)
        /\ \A r \in Inboxes \ {u} : inbox'[r] = inbox[r]
        /\ inbox'[u] # <<>> /\ inbox'[u][Len(inbox'[u])] = x
    <3>1. Push(u, x) /\ u \in Inboxes
      BY <1>10, <2>3 DEF TellFinish, Inboxes
    <3> QED BY <3>1, PushProps
  <2>5. finishSent /\ Ending /\ ~ FinishAt(u) /\ ~ stop[u]
    BY <2>1 DEF Phases, Before, After, Ending
  <2>6. /\ \A v \in Threads : (BeginAt(v)' => BeginAt(v)) /\ (FinishLive(v)' <=> FinishLive(v))
        /\ \A v \in Threads \ {u} : (FinishIn(v)' <=> FinishIn(v)) /\ (FinishAt(v)' <=> FinishAt(v))
    BY <2>1, <2>3, <2>4, KindsOf DEF BeginAt, FinishAt, FinishIn, FinishLive, Inboxes
  <2>7. \A v \in Threads : ~ SawZero(v)' /\ (Sends(v)' => Sends(v)) /\ (tpc'[v] = "tell" => v = t) /\ (v # t => finishing[v] = {})
    BY <2>1, <2>2, <2>5 DEF SawZero, Sends, Phases, Ends
  <2>8. Before'
    BY <2>1, <2>5, <2>6 DEF Phases, Before
  <2>9. Ends'
    <3>1. main = "waiting" /\ Ended
      BY <2>5 DEF Phases, Ends, Ended
    <3>2. Ended'
      BY <2>1, <2>3, <2>4, <2>7, <3>1 DEF Ended, Kinds
    <3>3. \A v \in Threads : tpc'[v] = "tell" <=> finishing'[v] # {}
      BY <2>1, <2>2 DEF Phases, Ends
    <3> QED BY <2>1, <2>5, <2>7, <3>1, <3>2, <3>3 DEF Ends, Ended
  <2>10. After'
    <3>1. \A v, w \in Threads : w \in finishing'[v] => ~ FinishAt(w)' /\ ~ stop'[w]
      BY <2>1, <2>6, <2>7 DEF Phases, After
    <3>2. \A v \in Threads : tpc'[v] = "paused" => stop'[v]
      BY <2>1, <2>2 DEF Phases, After
    <3>3. ASSUME NEW v \in Threads, v # u
          PROVE  /\ FinishIn(v)' => ~ stop'[v] /\ inbox'[v][Len(inbox'[v])] = MkJob("finish", v, None)
                 /\ FinishLive(v)' => ~ stop'[v] /\ inbox'[v] = <<>>
                 /\ stop'[v] => inbox'[v] = <<>> /\ live'[v] = {}
      <4>1. inbox'[v] = inbox[v]
        BY <2>4, <3>3 DEF Inboxes
      <4> QED BY <2>1, <2>6, <3>3, <4>1 DEF Phases, After
    <3>4. ~ stop'[u] /\ ~ FinishLive(u)'
      BY <2>1, <2>5, <2>6 DEF FinishAt
    <3> QED BY <2>3, <2>4, <3>1, <3>2, <3>3, <3>4 DEF After
  <2> QED BY <2>8, <2>9, <2>10 DEF Phases
<1>11. ASSUME NEW t \in Threads, AcceptTask(t) PROVE Phases'
  <2>1. /\ main # "idle" /\ UNCHANGED <<main, toTell, finishSent, finishing, stop>>
        /\ \A u \in Threads : tpc'[u] = tpc[u] \/ {tpc[u], tpc'[u]} \subseteq {"poll", "repoll", "run", "spin", "sending"}
    BY <1>11
    DEF AcceptTask, Phases, Before, Types, vars, mainVars, counterVars, ioVars, replyVars,
        threadVars
  <2>2. t \in Inboxes /\ inbox[t] # <<>> /\ inbox' = [inbox EXCEPT ![t] = Tail(@)]
    BY <1>11 DEF AcceptTask, Inboxes
  <2>3. \A u \in Threads : Sends(u)' => Sends(u)
    BY <1>11
    DEF AcceptTask, Types, Sends, vars, mainVars, counterVars, ioVars, replyVars, threadVars
  <2>4. PICK h : h = Head(inbox[t]) /\ h \in InInbox(t)
    BY <2>2, InboxProps
  <2>5. h.kind # "reply" /\ live' = [live EXCEPT ![t] = @ \cup {h}]
    BY <1>11, <2>4 DEF AcceptTask
  <2>6. /\ \A r \in Inboxes : InInbox(r)' \subseteq InInbox(r)
        /\ \A r \in Inboxes \ {t} : inbox'[r] = inbox[r]
        /\ inbox'[t] # <<>> => inbox'[t][Len(inbox'[t])] = inbox[t][Len(inbox[t])]
        /\ inbox'[t] = <<>> => inbox[t][Len(inbox[t])] = h
        /\ h.kind # "reply" => \A r \in Inboxes : h \notin InInbox(r)'
    BY <2>2, <2>4, PopProps DEF Jobs
  <2>7. (\A u \in Threads \ {t} : live'[u] = live[u]) /\ live'[t] = live[t] \cup {h}
    BY <2>5 DEF Types
  <2>8. h.kind \in {"begin", "finish"} => h = MkJob(h.kind, t, None)
    BY <2>2, <2>4 DEF Jobs, JobsProper, Proper
  <2>9. \A u \in Threads : (BeginAt(u)' => BeginAt(u)) /\ (FinishAt(u)' => FinishAt(u))
    BY <2>4, <2>5, <2>6, <2>7, <2>8, KindsOf
    DEF BeginAt, FinishAt, FinishIn, FinishLive, Inboxes
  <2>10. Ending => h.kind = "finish" /\ finishSent
    <3>1. Ending => h.kind = "finish"
      BY <2>2, <2>4, <2>5 DEF Phases, Ends, Kinds
    <3>2. h.kind = "finish" => FinishIn(t)
      BY <2>4, <2>8 DEF FinishIn
    <3> QED BY <2>1, <3>1, <3>2 DEF Phases, Before, FinishAt, Ending
  <2>11. Ending => Ended'
    BY <2>3, <2>6, <2>7, <2>10 DEF Phases, Ends, Ended, Kinds
  <2>12. ~ finishSent => ~ \E u \in Threads : SawZero(u)
    BY <2>1, <2>10 DEF Ending, SawZero
  <2>13. ASSUME Ending PROVE Lasts'
    <3>1. h = MkJob("finish", t, None) /\ FinishIn(t)
      BY <2>4, <2>8, <2>10, <2>13 DEF FinishIn
    <3>2. inbox[t][Len(inbox[t])] = h /\ ~ stop[t]
      BY <2>1, <3>1 DEF Phases, After
    <3>3. inbox'[t] = <<>>
      <4>1. inbox'[t] # <<>> => inbox'[t][Len(inbox'[t])] \in InInbox(t)'
        <5>1. inbox'[t] \in Seq(Job)
          BY <2>2 DEF Types
        <5>2. inbox'[t] # <<>> => Len(inbox'[t]) \in DOMAIN inbox'[t]
          BY <5>1
        <5> QED BY <5>2 DEF InInbox
      <4> QED BY <2>2, <2>5, <2>6, <3>2, <4>1
    <3>4. \A u \in Threads \ {t} : inbox'[u] = inbox[u] /\ InInbox(u)' = InInbox(u) /\ live'[u] = live[u]
      BY <2>6, <2>7 DEF Inboxes, InInbox
    <3>5. InInbox(t)' = {}
      BY <3>3 DEF InInbox
    <3> QED BY <2>1, <3>2, <3>3, <3>4, <3>5 DEF Phases, After, Lasts, FinishIn, FinishLive
  <2> QED BY <2>1, <2>9, <2>11, <2>12, <2>13, PhasesQuiet
<1>12. ASSUME NEW t \in Threads, AcceptReply(t) PROVE Phases'
  <2>1. /\ main # "idle" /\ UNCHANGED <<main, toTell, finishSent, finishing, stop>>
        /\ \A u \in Threads : tpc'[u] = tpc[u] \/ {tpc[u], tpc'[u]} \subseteq {"poll", "repoll", "run", "spin", "sending"}
    BY <1>12
    DEF AcceptReply, Phases, Before, Types, vars, mainVars, counterVars, ioVars, replyVars,
        threadVars
  <2>2. t \in Inboxes /\ inbox[t] # <<>> /\ inbox' = [inbox EXCEPT ![t] = Tail(@)]
    BY <1>12 DEF AcceptReply, Inboxes
  <2>3. \A u \in Threads : Sends(u)' => Sends(u)
    BY <1>12
    DEF AcceptReply, Types, Sends, vars, mainVars, counterVars, ioVars, replyVars, threadVars
  <2>4. PICK h : h = Head(inbox[t]) /\ h \in InInbox(t)
    BY <2>2, InboxProps
  <2>5. h.kind = "reply" /\ live' = live /\ delta' = delta
    BY <1>12, <2>4 DEF AcceptReply, Types
  <2>6. /\ \A r \in Inboxes : InInbox(r)' \subseteq InInbox(r)
        /\ \A r \in Inboxes \ {t} : inbox'[r] = inbox[r]
        /\ inbox'[t] # <<>> => inbox'[t][Len(inbox'[t])] = inbox[t][Len(inbox[t])]
        /\ inbox'[t] = <<>> => inbox[t][Len(inbox[t])] = h
        /\ h.kind # "reply" => \A r \in Inboxes : h \notin InInbox(r)'
    BY <2>2, <2>4, PopProps DEF Jobs
  <2>7. \A u \in Threads : live'[u] = live[u]
    BY <2>5
  <2>9. \A u \in Threads : (BeginAt(u)' => BeginAt(u)) /\ (FinishAt(u)' => FinishAt(u))
    BY <2>4, <2>5, <2>6, <2>7, KindsOf DEF BeginAt, FinishAt, FinishIn, FinishLive, Inboxes
  <2>11. Ending => Ended'
    BY <2>3, <2>6, <2>7 DEF Phases, Ends, Ended, Kinds
  <2>12. ~ finishSent /\ (\E u \in Threads : SawZero(u)) => Idles'
    BY <1>12, <2>1, <2>5, <2>7 DEF AcceptReply, Phases, Ends, Idles
  <2>13. Ending => Lasts'
    <3>1. inbox[t] # <<>>
      BY <2>2
    <3>2. ~ FinishLive(t) /\ ~ stop[t]
      BY <2>1, <3>1 DEF Phases, After
    <3>3. FinishIn(t) => inbox[t][Len(inbox[t])] = MkJob("finish", t, None) /\ inbox'[t] # <<>>
      <4>1. FinishIn(t) => inbox[t][Len(inbox[t])] = MkJob("finish", t, None)
        BY <2>1 DEF Phases, After
      <4> QED BY <2>5, <2>6, <4>1, KindsOf
    <3>4. FinishIn(t)' => FinishIn(t)
      BY <2>6 DEF FinishIn, Inboxes
    <3>5. \A u \in Threads \ {t} : inbox'[u] = inbox[u] /\ InInbox(u)' = InInbox(u) /\ live'[u] = live[u]
      BY <2>6, <2>7 DEF Inboxes, InInbox
    <3>6. \A u \in Threads : FinishLive(u)' => FinishLive(u)
      BY <2>7 DEF FinishLive
    <3>7. \A u \in Threads \ {t} : FinishIn(u)' => FinishIn(u)
      BY <3>5 DEF FinishIn
    <3> QED BY <2>1, <2>6, <3>2, <3>3, <3>4, <3>5, <3>6, <3>7 DEF Phases, After, Lasts
  <2> QED BY <2>1, <2>9, <2>11, <2>12, <2>13, PhasesQuiet
<1>13. ASSUME NEW t \in Threads, PullStart(t) PROVE Phases'
  <2>1. /\ main # "idle" /\ UNCHANGED <<main, toTell, finishSent, finishing, stop>>
        /\ \A u \in Threads : tpc'[u] = tpc[u] \/ {tpc[u], tpc'[u]} \subseteq {"poll", "repoll", "run", "spin", "sending"}
    BY <1>13
    DEF PullStart, Phases, Before, Types, vars, mainVars, counterVars, ioVars, replyVars,
        threadVars
  <2>2. UNCHANGED <<inbox, live>> /\ \A u \in Threads : Sends(u)' => Sends(u)
    BY <1>13
    DEF PullStart, Types, Sends, vars, mainVars, counterVars, ioVars, replyVars, threadVars
  <2>3. \A u \in Inboxes : InInbox(u)' = InInbox(u)
    BY <2>2 DEF InInbox
  <2>4. \A u \in Threads : tpc'[u] = "run" => delta'[u] = 0 \/ (tpc[u] = "run" /\ delta'[u] = delta[u])
    BY <1>13 DEF PullStart, Types, vars, mainVars, counterVars, ioVars, replyVars, threadVars
  <2>5. \A u \in Threads : (BeginAt(u)' => BeginAt(u)) /\ (FinishAt(u)' => FinishAt(u))
    BY <2>2, <2>3 DEF BeginAt, FinishAt, FinishIn, FinishLive, Inboxes
  <2>6. Ending => Ended'
    BY <2>2, <2>3 DEF Phases, Ends, Ended, Kinds
  <2>7. ~ finishSent /\ (\E u \in Threads : SawZero(u)) => Idles'
    BY <2>1, <2>2, <2>4 DEF Phases, Ends, Idles
  <2>8. Ending => Lasts'
    BY <2>1, <2>2, <2>3 DEF Phases, After, Lasts, FinishIn, FinishLive, Inboxes
  <2> QED BY <2>1, <2>5, <2>6, <2>7, <2>8, PhasesQuiet
<1>14. ASSUME NEW t \in Threads, AcceptIo(t) PROVE Phases'
  <2>1. /\ main # "idle" /\ UNCHANGED <<main, toTell, finishSent, finishing, stop>>
        /\ \A u \in Threads : tpc'[u] = tpc[u] \/ {tpc[u], tpc'[u]} \subseteq {"poll", "repoll", "run", "spin", "sending"}
    BY <1>14
    DEF AcceptIo, Phases, Before, Types, vars, mainVars, counterVars, ioVars, replyVars,
        threadVars
  <2>2. Io \in Inboxes /\ inbox[Io] # <<>> /\ inbox' = [inbox EXCEPT ![Io] = Tail(@)]
    BY <1>14 DEF AcceptIo, Inboxes
  <2>3. \A u \in Threads : Sends(u)' => Sends(u)
    BY <1>14
    DEF AcceptIo, Types, Sends, vars, mainVars, counterVars, ioVars, replyVars, threadVars
  <2>4. PICK h : h = Head(inbox[Io]) /\ h \in InInbox(Io)
    BY <2>2, InboxProps
  <2>5. h.kind \notin {"reply", "finish", "begin"} /\ live' = [live EXCEPT ![t] = @ \cup {h}]
    BY <1>14, <2>4, ShutdownAssumption DEF AcceptIo, Jobs, JobsProper, Inboxes, Threads
  <2>6. /\ \A r \in Inboxes : InInbox(r)' \subseteq InInbox(r)
        /\ \A r \in Inboxes \ {Io} : inbox'[r] = inbox[r]
        /\ inbox'[Io] # <<>> => inbox'[Io][Len(inbox'[Io])] = inbox[Io][Len(inbox[Io])]
        /\ inbox'[Io] = <<>> => inbox[Io][Len(inbox[Io])] = h
        /\ h.kind # "reply" => \A r \in Inboxes : h \notin InInbox(r)'
    BY <2>2, <2>4, PopProps DEF Jobs
  <2>7. (\A u \in Threads \ {t} : live'[u] = live[u]) /\ live'[t] = live[t] \cup {h}
    BY <2>5 DEF Types
  <2>9. \A u \in Threads : (BeginAt(u)' => BeginAt(u)) /\ (FinishAt(u)' => FinishAt(u))
    BY <2>4, <2>5, <2>6, <2>7, KindsOf DEF BeginAt, FinishAt, FinishIn, FinishLive, Inboxes
  <2>10. ~ Ending
    BY <2>4, <2>5 DEF Phases, Ends, Kinds, Inboxes
  <2> QED BY <2>1, <2>9, <2>10, PhasesBusy
<1>15. ASSUME NEW t \in Threads, NEW j \in live[t], NEW w \in Work, Spawn(t, j, w) PROVE Phases'
  <2>1. ~ Ending
    <3>1. j.kind # "finish"
      BY <1>15 DEF Spawn, Runnable, UserJob
    <3> QED BY <3>1 DEF Phases, Ends
  <2>2. /\ main # "idle" /\ UNCHANGED <<main, toTell, finishSent, finishing, stop>>
        /\ \A u \in Threads : tpc'[u] = tpc[u] \/ {tpc[u], tpc'[u]} \subseteq {"poll", "repoll", "run", "spin", "sending"}
    BY <1>15
    DEF Spawn, Runnable, Phases, Before, Types, vars, mainVars, counterVars, ioVars,
        replyVars, threadVars
  <2>3. \A u \in Threads : \A x \in live'[u] : x \in live[u] \/ x.kind = "coro"
    BY <1>15 DEF Spawn, Types, MkJob
  <2>4. \A u \in Threads : \A x \in InInbox(u)' : x \in InInbox(u) \/ x.kind \notin {"begin", "finish"}
    BY <1>15 DEF Spawn, InInbox
  <2>5. \A u \in Threads : (BeginAt(u)' => BeginAt(u)) /\ (FinishAt(u)' => FinishAt(u))
    BY <2>3, <2>4, KindsOf DEF BeginAt, FinishAt, FinishIn, FinishLive
  <2> QED BY <2>1, <2>2, <2>5, PhasesBusy
<1>16. ASSUME NEW t \in Threads, NEW j \in live[t], NEW q \in Targets, NEW w \in Work,
             NEW mode \in {"noreply", "sync", "async", "then"}, NoteSend(t, j, q, w, mode)
             PROVE Phases'
  <2>1. ~ Ending
    <3>1. j.kind # "finish"
      BY <1>16 DEF NoteSend, Runnable, UserJob
    <3> QED BY <3>1 DEF Phases, Ends
  <2>2. /\ main # "idle" /\ UNCHANGED <<main, toTell, finishSent, finishing, stop>>
        /\ \A u \in Threads : tpc'[u] = tpc[u] \/ {tpc[u], tpc'[u]} \subseteq {"poll", "repoll", "run", "spin", "sending"}
    BY <1>16
    DEF NoteSend, Runnable, Phases, Before, Types, vars, mainVars, counterVars, ioVars,
        replyVars, threadVars
  <2>3. live' = live
    BY <1>16 DEF NoteSend, vars, mainVars, counterVars, ioVars, replyVars, threadVars
  <2>4. \A u \in Threads : \A x \in InInbox(u)' : x \in InInbox(u) \/ x.kind \notin {"begin", "finish"}
    BY <1>16 DEF NoteSend, InInbox
  <2>5. \A u \in Threads : (BeginAt(u)' => BeginAt(u)) /\ (FinishAt(u)' => FinishAt(u))
    BY <2>3, <2>4, KindsOf DEF BeginAt, FinishAt, FinishIn, FinishLive
  <2> QED BY <2>1, <2>2, <2>5, PhasesBusy
<1>17. ASSUME NEW t \in Threads, WriteRequest(t) PROVE Phases'
  <2>1. ~ Ending
    <3>1. Sends(t)
      BY <1>17 DEF WriteRequest, Sends
    <3> QED BY <3>1 DEF Phases, Ends
  <2>2. /\ main # "idle" /\ UNCHANGED <<main, toTell, finishSent, finishing, stop>>
        /\ \A u \in Threads : tpc'[u] = tpc[u] \/ {tpc[u], tpc'[u]} \subseteq {"poll", "repoll", "run", "spin", "sending"}
    BY <1>17
    DEF WriteRequest, Runnable, Phases, Before, Types, vars, mainVars, counterVars, ioVars,
        replyVars, threadVars
  <2>3. live' = live
    BY <1>17 DEF WriteRequest, vars, mainVars, counterVars, ioVars, replyVars, threadVars
  <2>4. \A u \in Threads : \A x \in InInbox(u)' : x \in InInbox(u) \/ x.kind \notin {"begin", "finish"}
    <3>1. sending[t].job \in Job /\ sending[t].to \in Inboxes /\ sending[t].job.kind \in {"task", "call"}
      BY <1>17
      DEF WriteRequest, Types, Sends, Sending, Targets, Inboxes, Threads, Jobs, JobsProper
    <3>2. Push(sending[t].to, sending[t].job)
      BY <1>17 DEF WriteRequest
    <3>3. \A r \in Inboxes : InInbox(r)' = IF r = sending[t].to THEN InInbox(sending[t].to) \cup {sending[t].job}
                                              ELSE InInbox(r)
      BY <3>1, <3>2, PushProps
    <3> QED BY <3>1, <3>3 DEF Inboxes
  <2>5. \A u \in Threads : (BeginAt(u)' => BeginAt(u)) /\ (FinishAt(u)' => FinishAt(u))
    BY <2>3, <2>4, KindsOf DEF BeginAt, FinishAt, FinishIn, FinishLive
  <2> QED BY <2>1, <2>2, <2>5, PhasesBusy
<1>18. ASSUME NEW t \in Threads, NEW j \in live[t], EndJob(t, j) PROVE Phases'
  <2>1. ~ Ending
    <3>1. j.kind # "finish"
      BY <1>18 DEF EndJob, Runnable, UserJob
    <3> QED BY <3>1 DEF Phases, Ends
  <2>2. /\ main # "idle" /\ UNCHANGED <<main, toTell, finishSent, finishing, stop>>
        /\ \A u \in Threads : tpc'[u] = tpc[u] \/ {tpc[u], tpc'[u]} \subseteq {"poll", "repoll", "run", "spin", "sending"}
    BY <1>18
    DEF EndJob, Runnable, Phases, Before, Types, vars, mainVars, counterVars, ioVars,
        replyVars, threadVars
  <2>3. \A u \in Threads : live'[u] \subseteq live[u]
    BY <1>18 DEF EndJob, Release, Types
  <2>4. \A u \in Threads : \A x \in InInbox(u)' : x \in InInbox(u) \/ x.kind \notin {"begin", "finish"}
    <3>1. CASE j.kind = "call"
      <4>1. j \in Job
        BY DEF Types
      <4>2. j.id \in Work \cup Threads
        BY <4>1 DEF Job
      <4>3. PICK x \in Job : x = MkJob("reply", j.id, None) /\ x.kind = "reply"
        BY <4>2, MadeJobs
      <4>4. Push(j.from, x) /\ j.from \in Inboxes
        BY <1>18, <3>1, <4>3 DEF EndJob, Jobs, JobsProper, Proper, Inboxes, Threads
      <4>5. \A r \in Inboxes : InInbox(r)' = IF r = j.from THEN InInbox(j.from) \cup {x} ELSE InInbox(r)
        BY <4>4, PushProps
      <4> QED BY <4>3, <4>5 DEF Inboxes
    <3>2. CASE j.kind # "call"
      BY <1>18, <3>2 DEF EndJob, InInbox
    <3> QED BY <3>1, <3>2
  <2>5. \A u \in Threads : (BeginAt(u)' => BeginAt(u)) /\ (FinishAt(u)' => FinishAt(u))
    BY <2>3, <2>4, KindsOf DEF BeginAt, FinishAt, FinishIn, FinishLive
  <2> QED BY <2>1, <2>2, <2>5, PhasesBusy
<1>19. ASSUME NEW t \in Threads, HandleBegin(t) PROVE Phases'
  <2>1. ~ Ending
    <3>1. MkJob("begin", t, None) \in live[t] /\ MkJob("begin", t, None).kind = "begin"
      BY <1>19 DEF HandleBegin, MkJob
    <3> QED BY <3>1 DEF Phases, Ends
  <2>2. /\ main # "idle" /\ UNCHANGED <<main, toTell, finishSent, finishing, stop>>
        /\ \A u \in Threads : tpc'[u] = tpc[u] \/ {tpc[u], tpc'[u]} \subseteq {"poll", "repoll", "run", "spin", "sending"}
    BY <1>19
    DEF HandleBegin, Runnable, Phases, Before, Types, vars, mainVars, counterVars, ioVars,
        replyVars, threadVars
  <2>3. \A u \in Threads : live'[u] \subseteq live[u]
    BY <1>19 DEF HandleBegin, Release, Types
  <2>4. \A u \in Threads : \A x \in InInbox(u)' : x \in InInbox(u) \/ x.kind \notin {"begin", "finish"}
    BY <1>19 DEF HandleBegin, InInbox
  <2>5. \A u \in Threads : (BeginAt(u)' => BeginAt(u)) /\ (FinishAt(u)' => FinishAt(u))
    BY <2>3, <2>4, KindsOf DEF BeginAt, FinishAt, FinishIn, FinishLive
  <2> QED BY <2>1, <2>2, <2>5, PhasesBusy
<1>20. ASSUME NEW t \in Threads, HandleFinish(t) PROVE Phases'
  <2>1. /\ UNCHANGED <<main, toTell, finishSent, inbox, finishing, tpc>> /\ main # "idle"
        /\ FinishLive(t) /\ live'[t] = live[t] \ {MkJob("finish", t, None)} /\ stop'[t]
        /\ \A u \in Threads \ {t} : live'[u] = live[u] /\ stop'[u] = stop[u]
    BY <1>20
    DEF HandleFinish, Release, FinishLive, Phases, Before, Types, vars, mainVars,
        counterVars, ioVars, replyVars, threadVars
  <2>2. \A q : InInbox(q)' = InInbox(q)
    BY <2>1 DEF InInbox
  <2>3. FinishAt(t) /\ finishSent /\ Ending
    BY <2>1 DEF FinishAt, Phases, Before, Ending
  <2>4. inbox[t] = <<>> /\ live'[t] = {}
    <3>1. \A j \in live[t] : j.kind = "finish" /\ Proper(j, t)
      BY <2>3 DEF Phases, Ends, Jobs, JobsProper
    <3>2. \A j \in live[t] : j = MkJob("finish", t, None)
      BY <3>1 DEF Proper
    <3> QED BY <2>1, <3>2 DEF Phases, After
  <2>5. InInbox(t) = {}
    BY <2>4 DEF InInbox
  <2>6. \A u \in Threads : /\ BeginAt(u)' => BeginAt(u)
                           /\ FinishAt(u)' => FinishAt(u) /\ u # t
                           /\ FinishIn(u)' => FinishIn(u) /\ u # t
                           /\ FinishLive(u)' => FinishLive(u) /\ u # t
    BY <2>1, <2>2, <2>4, <2>5 DEF BeginAt, FinishAt, FinishIn, FinishLive
  <2>7. \A u \in Threads : (SawZero(u)' <=> SawZero(u)) /\ (Sends(u)' <=> Sends(u)) /\ live'[u] \subseteq live[u]
    BY <2>1 DEF SawZero, Sends
  <2>8. Before'
    BY <2>1, <2>3, <2>6 DEF Phases, Before
  <2>9. Ends'
    BY <2>1, <2>2, <2>3, <2>7 DEF Phases, Ends, Kinds
  <2>10. After'
    <3>1. \A v, u \in Threads : u \in finishing'[v] => ~ FinishAt(u)' /\ ~ stop'[u]
      BY <2>1, <2>3, <2>6 DEF Phases, After
    <3>2. \A u \in Threads \ {t} :
            /\ FinishIn(u)' => ~ stop'[u] /\ inbox'[u][Len(inbox'[u])] = MkJob("finish", u, None)
            /\ FinishLive(u)' => ~ stop'[u] /\ inbox'[u] = <<>>
            /\ stop'[u] => inbox'[u] = <<>> /\ live'[u] = {}
            /\ tpc'[u] = "paused" => stop'[u]
      BY <2>1, <2>6 DEF Phases, After
    <3>3. ~ FinishIn(t)' /\ ~ FinishLive(t)' /\ inbox'[t] = <<>>
      BY <2>1, <2>4, <2>6
    <3> QED BY <2>1, <2>4, <3>1, <3>2, <3>3 DEF After
  <2> QED BY <2>8, <2>9, <2>10 DEF Phases
<1>21. ASSUME UNCHANGED vars PROVE Phases'
  <2>1. UNCHANGED <<main, toTell, finishSent, count, finishing, stop, tpc, live, delta, inbox>>
    BY <1>21 DEF vars, mainVars, counterVars, ioVars, replyVars, threadVars
  <2> QED BY <2>1, PhasesSame
<1>22. ASSUME NEW t \in Threads, LoseMessage(t) PROVE Phases'
  <2>1. /\ main # "idle" /\ UNCHANGED <<main, toTell, finishSent, finishing, stop>>
        /\ \A u \in Threads : tpc'[u] = tpc[u] \/ {tpc[u], tpc'[u]} \subseteq {"poll", "repoll", "run", "spin", "sending"}
    BY <1>22
    DEF LoseMessage, Phases, Before, Types, vars, mainVars, counterVars, ioVars, replyVars,
        threadVars
  <2>2. UNCHANGED <<inbox, live>> /\ \A u \in Threads : Sends(u)' => Sends(u)
    BY <1>22
    DEF LoseMessage, Types, Sends, vars, mainVars, counterVars, ioVars, replyVars, threadVars
  <2>3. \A u \in Inboxes : InInbox(u)' = InInbox(u)
    BY <2>2 DEF InInbox
  <2>4. \A u \in Threads : tpc'[u] = "run" => delta'[u] = 0 \/ (tpc[u] = "run" /\ delta'[u] = delta[u])
    BY <1>22 DEF LoseMessage, Types, vars, mainVars, counterVars, ioVars, replyVars, threadVars
  <2>5. \A u \in Threads : (BeginAt(u)' => BeginAt(u)) /\ (FinishAt(u)' => FinishAt(u))
    BY <2>2, <2>3 DEF BeginAt, FinishAt, FinishIn, FinishLive, Inboxes
  <2>6. Ending => Ended'
    BY <2>2, <2>3 DEF Phases, Ends, Ended, Kinds
  <2>7. ~ finishSent /\ (\E u \in Threads : SawZero(u)) => Idles'
    BY <2>1, <2>2, <2>4 DEF Phases, Ends, Idles
  <2>8. Ending => Lasts'
    BY <2>1, <2>2, <2>3 DEF Phases, After, Lasts, FinishIn, FinishLive, Inboxes
  <2> QED BY <2>1, <2>5, <2>6, <2>7, <2>8, PhasesQuiet
<1> QED
  BY <1>1, <1>2, <1>3, <1>4, <1>5, <1>6, <1>7, <1>8, <1>9, <1>10, <1>11, <1>12, <1>13,
     <1>14, <1>15, <1>16, <1>17, <1>18, <1>19, <1>20, <1>21, <1>22
  DEF Next, MainNext, ThreadNext, SomeJobEnds, Send

-----------------------------------------------------------------------------
\* A step that ends only coroutines nobody waits in.
LEMMA WaitersKept ==
  ASSUME WaitersLive, awaiting' \subseteq awaiting,
         \A u \in Threads : Sends(u)' => Sends(u) /\ sending'[u] = sending[u],
         \A u \in Threads : \A j \in live[u] :
            UserJob(j) => \/ j \in live'[u]
                          \/ ~ Sends(u) /\ \A p \in awaiting : p[1] # j.id
  PROVE  WaitersLive'
<1>1. \A p \in awaiting' : \E t \in Threads : \E j \in live'[t] : UserJob(j) /\ j.id = p[1]
  BY DEF WaitersLive
<1>2. \A t \in Threads : Sends(t)' => \E j \in live'[t] : UserJob(j) /\ j.id = sending'[t].by
  BY DEF WaitersLive
<1> QED BY <1>1, <1>2 DEF WaitersLive, UserJob

\* Every step leaves alive whoever waits.
LEMMA WaitersStep ==
  ASSUME Types, WaitersLive, ~ Chaining, [Next]_vars
  PROVE  WaitersLive'
<1>1. ASSUME NEW q \in Targets, NEW w \in Work, Enqueue(q, w) PROVE WaitersLive'
  <2>1. /\ awaiting' \subseteq awaiting /\ \A u \in Threads : Sends(u)' => Sends(u) /\ sending'[u] = sending[u]
        /\ \A u \in Threads : live[u] \subseteq live'[u]
    BY <1>1
    DEF Enqueue, Types, Sends, vars, mainVars, counterVars, ioVars, replyVars, threadVars
  <2> QED BY <2>1, WaitersKept
<1>2. ASSUME Run PROVE WaitersLive'
  <2>1. /\ awaiting' \subseteq awaiting /\ \A u \in Threads : Sends(u)' => Sends(u) /\ sending'[u] = sending[u]
        /\ \A u \in Threads : live[u] \subseteq live'[u]
    BY <1>2 DEF Run, Types, Sends, vars, mainVars, counterVars, ioVars, replyVars, threadVars
  <2> QED BY <2>1, WaitersKept
<1>3. ASSUME BeginShutdown PROVE WaitersLive'
  <2>1. /\ awaiting' \subseteq awaiting /\ \A u \in Threads : Sends(u)' => Sends(u) /\ sending'[u] = sending[u]
        /\ \A u \in Threads : live[u] \subseteq live'[u]
    BY <1>3
    DEF BeginShutdown, Types, Sends, vars, mainVars, counterVars, ioVars, replyVars,
        threadVars
  <2> QED BY <2>1, WaitersKept
<1>4. ASSUME NEW t \in Threads, TellBegin(t) PROVE WaitersLive'
  <2>1. /\ awaiting' \subseteq awaiting /\ \A u \in Threads : Sends(u)' => Sends(u) /\ sending'[u] = sending[u]
        /\ \A u \in Threads : live[u] \subseteq live'[u]
    BY <1>4
    DEF TellBegin, Types, Sends, vars, mainVars, counterVars, ioVars, replyVars, threadVars
  <2> QED BY <2>1, WaitersKept
<1>5. ASSUME RunReturns PROVE WaitersLive'
  <2>1. /\ awaiting' \subseteq awaiting /\ \A u \in Threads : Sends(u)' => Sends(u) /\ sending'[u] = sending[u]
        /\ \A u \in Threads : live[u] \subseteq live'[u]
    BY <1>5
    DEF RunReturns, Types, Sends, vars, mainVars, counterVars, ioVars, replyVars, threadVars
  <2> QED BY <2>1, WaitersKept
<1>6. ASSUME NEW t \in Threads, Enter(t) PROVE WaitersLive'
  <2>1. /\ awaiting' \subseteq awaiting /\ \A u \in Threads : Sends(u)' => Sends(u) /\ sending'[u] = sending[u]
        /\ \A u \in Threads : live[u] \subseteq live'[u]
    BY <1>6
    DEF Enter, Types, Sends, vars, mainVars, counterVars, ioVars, replyVars, threadVars
  <2> QED BY <2>1, WaitersKept
<1>7. ASSUME NEW t \in Threads, RunEnd(t) PROVE WaitersLive'
  <2>1. /\ awaiting' \subseteq awaiting /\ \A u \in Threads : Sends(u)' => Sends(u) /\ sending'[u] = sending[u]
        /\ \A u \in Threads : live[u] \subseteq live'[u]
    BY <1>7
    DEF RunEnd, AfterRun, Types, Sends, vars, mainVars, counterVars, ioVars, replyVars,
        threadVars
  <2> QED BY <2>1, WaitersKept
<1>8. ASSUME NEW t \in Threads, AddTargets(t) PROVE WaitersLive'
  <2>1. /\ awaiting' \subseteq awaiting /\ \A u \in Threads : Sends(u)' => Sends(u) /\ sending'[u] = sending[u]
        /\ \A u \in Threads : live[u] \subseteq live'[u]
    BY <1>8
    DEF AddTargets, Types, Sends, vars, mainVars, counterVars, ioVars, replyVars, threadVars
  <2> QED BY <2>1, WaitersKept
<1>9. ASSUME NEW t \in Threads, StoreFinish(t) PROVE WaitersLive'
  <2>1. /\ awaiting' \subseteq awaiting /\ \A u \in Threads : Sends(u)' => Sends(u) /\ sending'[u] = sending[u]
        /\ \A u \in Threads : live[u] \subseteq live'[u]
    BY <1>9
    DEF StoreFinish, Types, Sends, vars, mainVars, counterVars, ioVars, replyVars, threadVars
  <2> QED BY <2>1, WaitersKept
<1>10. ASSUME NEW t \in Threads, NEW u \in Threads, TellFinish(t, u) PROVE WaitersLive'
  <2>1. /\ awaiting' \subseteq awaiting /\ \A v \in Threads : Sends(v)' => Sends(v) /\ sending'[v] = sending[v]
        /\ \A v \in Threads : live[v] \subseteq live'[v]
    BY <1>10
    DEF TellFinish, AfterRun, Types, Sends, vars, mainVars, counterVars, ioVars, replyVars,
        threadVars
  <2> QED BY <2>1, WaitersKept
<1>11. ASSUME NEW t \in Threads, AcceptTask(t) PROVE WaitersLive'
  <2>1. /\ awaiting' \subseteq awaiting /\ \A u \in Threads : Sends(u)' => Sends(u) /\ sending'[u] = sending[u]
        /\ \A u \in Threads : live[u] \subseteq live'[u]
    BY <1>11
    DEF AcceptTask, Types, Sends, vars, mainVars, counterVars, ioVars, replyVars, threadVars
  <2> QED BY <2>1, WaitersKept
<1>12. ASSUME NEW t \in Threads, AcceptReply(t) PROVE WaitersLive'
  <2>1. /\ awaiting' \subseteq awaiting /\ \A u \in Threads : Sends(u)' => Sends(u) /\ sending'[u] = sending[u]
        /\ \A u \in Threads : live[u] \subseteq live'[u]
    BY <1>12
    DEF AcceptReply, Types, Sends, vars, mainVars, counterVars, ioVars, replyVars, threadVars
  <2> QED BY <2>1, WaitersKept
<1>13. ASSUME NEW t \in Threads, PullStart(t) PROVE WaitersLive'
  <2>1. /\ awaiting' \subseteq awaiting /\ \A u \in Threads : Sends(u)' => Sends(u) /\ sending'[u] = sending[u]
        /\ \A u \in Threads : live[u] \subseteq live'[u]
    BY <1>13
    DEF PullStart, Types, Sends, vars, mainVars, counterVars, ioVars, replyVars, threadVars
  <2> QED BY <2>1, WaitersKept
<1>14. ASSUME NEW t \in Threads, AcceptIo(t) PROVE WaitersLive'
  <2>1. /\ awaiting' \subseteq awaiting /\ \A u \in Threads : Sends(u)' => Sends(u) /\ sending'[u] = sending[u]
        /\ \A u \in Threads : live[u] \subseteq live'[u]
    BY <1>14
    DEF AcceptIo, Types, Sends, vars, mainVars, counterVars, ioVars, replyVars, threadVars
  <2> QED BY <2>1, WaitersKept
<1>15. ASSUME NEW t \in Threads, NEW j \in live[t], NEW w \in Work, Spawn(t, j, w)
       PROVE WaitersLive'
  <2>1. /\ awaiting' \subseteq awaiting /\ \A u \in Threads : Sends(u)' => Sends(u) /\ sending'[u] = sending[u]
        /\ \A u \in Threads : live[u] \subseteq live'[u]
    BY <1>15
    DEF Spawn, Types, Sends, vars, mainVars, counterVars, ioVars, replyVars, threadVars
  <2> QED BY <2>1, WaitersKept
<1>16. ASSUME NEW t \in Threads, NEW j \in live[t], NEW q \in Targets, NEW w \in Work,
             NEW mode \in {"noreply", "sync", "async", "then"}, NoteSend(t, j, q, w, mode)
             PROVE WaitersLive'
  <2>1. /\ UNCHANGED <<awaiting, live>> /\ UserJob(j) /\ sending'[t].by = j.id
        /\ \A u \in Threads \ {t} : Sends(u)' => Sends(u) /\ sending'[u] = sending[u]
    BY <1>16
    DEF NoteSend, Runnable, Types, Sends, vars, mainVars, counterVars, ioVars, replyVars,
        threadVars
  <2> QED BY <2>1 DEF WaitersLive
<1>17. ASSUME NEW t \in Threads, WriteRequest(t) PROVE WaitersLive'
  <2>1. /\ awaiting' \subseteq awaiting \cup {<<sending[t].by, sending[t].job.id>>} /\ live' = live
        /\ \A u \in Threads : Sends(u)' => Sends(u) /\ sending'[u] = sending[u]
        /\ Sends(t)
    BY <1>17
    DEF WriteRequest, Types, Sends, vars, mainVars, counterVars, ioVars, replyVars, threadVars
  <2>2. \A p \in awaiting' : \E u \in Threads : \E j \in live[u] : UserJob(j) /\ j.id = p[1]
    <3>1. \E j \in live[t] : UserJob(j) /\ j.id = sending[t].by
      BY <2>1 DEF WaitersLive
    <3> QED BY <2>1, <3>1 DEF WaitersLive
  <2>3. \A u \in Threads : Sends(u)' => \E j \in live'[u] : UserJob(j) /\ j.id = sending'[u].by
    BY <2>1 DEF WaitersLive
  <2> QED BY <2>1, <2>2, <2>3 DEF WaitersLive
<1>18. ASSUME NEW t \in Threads, NEW j \in live[t], EndJob(t, j) PROVE WaitersLive'
  <2>1. /\ awaiting' = awaiting /\ (\A p \in awaiting : p[1] # j.id) /\ ~ Sends(t)
        /\ \A u \in Threads : Sends(u)' => Sends(u) /\ sending'[u] = sending[u]
        /\ (\A u \in Threads \ {t} : live'[u] = live[u]) /\ live'[t] = live[t] \ {j}
    BY <1>18
    DEF EndJob, Runnable, Release, Types, Sends, vars, mainVars, counterVars, ioVars,
        replyVars, threadVars
  <2> QED BY <2>1, WaitersKept
<1>19. ASSUME NEW t \in Threads, HandleBegin(t) PROVE WaitersLive'
  <2>1. /\ awaiting' = awaiting /\ \A u \in Threads : Sends(u)' => Sends(u) /\ sending'[u] = sending[u]
        /\ (\A u \in Threads \ {t} : live'[u] = live[u]) /\ live'[t] = live[t] \ {MkJob("begin", t, None)}
    BY <1>19
    DEF HandleBegin, Release, Types, Sends, vars, mainVars, counterVars, ioVars, replyVars,
        threadVars
  <2>2. ~ UserJob(MkJob("begin", t, None))
    BY DEF UserJob, MkJob
  <2> QED BY <2>1, <2>2, WaitersKept
<1>20. ASSUME NEW t \in Threads, HandleFinish(t) PROVE WaitersLive'
  <2>1. /\ awaiting' = awaiting /\ \A u \in Threads : Sends(u)' => Sends(u) /\ sending'[u] = sending[u]
        /\ (\A u \in Threads \ {t} : live'[u] = live[u]) /\ live'[t] = live[t] \ {MkJob("finish", t, None)}
    BY <1>20
    DEF HandleFinish, Release, Types, Sends, vars, mainVars, counterVars, ioVars,
        replyVars, threadVars
  <2>2. ~ UserJob(MkJob("finish", t, None))
    BY DEF UserJob, MkJob
  <2> QED BY <2>1, <2>2, WaitersKept
<1>21. ASSUME UNCHANGED vars PROVE WaitersLive'
  <2>1. /\ awaiting' \subseteq awaiting /\ \A u \in Threads : Sends(u)' => Sends(u) /\ sending'[u] = sending[u]
        /\ \A u \in Threads : live[u] \subseteq live'[u]
    BY <1>21 DEF Types, Sends, vars, mainVars, counterVars, ioVars, replyVars, threadVars
  <2> QED BY <2>1, WaitersKept
<1>22. ASSUME NEW t \in Threads, LoseMessage(t) PROVE WaitersLive'
  <2>1. /\ awaiting' \subseteq awaiting /\ \A u \in Threads : Sends(u)' => Sends(u) /\ sending'[u] = sending[u]
        /\ \A u \in Threads : live[u] \subseteq live'[u]
    BY <1>22
    DEF LoseMessage, Types, Sends, vars, mainVars, counterVars, ioVars, replyVars, threadVars
  <2> QED BY <2>1, WaitersKept
<1> QED
  BY <1>1, <1>2, <1>3, <1>4, <1>5, <1>6, <1>7, <1>8, <1>9, <1>10, <1>11, <1>12, <1>13,
     <1>14, <1>15, <1>16, <1>17, <1>18, <1>19, <1>20, <1>21, <1>22
  DEF Next, MainNext, ThreadNext, SomeJobEnds, Send

\* The invariant holds at first ...
LEMMA InvInit ==
  ASSUME Init
  PROVE  Inv
<1>1. /\ \A q \in Inboxes : inbox[q] = <<>> /\ InInbox(q) = {}
      /\ \A t \in Threads : live[t] = {} /\ tpc[t] = "paused" /\ ~ Sends(t) /\ finishing[t] = {} /\ ~ stop[t]
      /\ main = "idle" /\ finishSent /\ count = 0 /\ toTell = {} /\ awaiting = {}
  BY DEF Init, Inboxes, InInbox, Sends
<1>2. Types
  <2>1. <<>> \in Seq(Job) /\ 0 \in 0 .. MaxRuns
    BY ShutdownAssumption
  <2>2. /\ inbox \in [Inboxes -> Seq(Job)] /\ delta \in [Threads -> Int] /\ live \in [Threads -> SUBSET Job]
        /\ runs \in 0 .. MaxRuns
    BY <2>1 DEF Init, Inboxes
  <2>3. \A t \in Threads : IsFiniteSet(live[t])
    BY <1>1, FS_EmptySet
  <2> QED BY <1>1, <2>2, <2>3 DEF Init, Types
<1>3. Jobs
  <2>1. Once
    BY <1>1 DEF Once
  <2> QED BY <1>1, <2>1 DEF Jobs, JobsProper, Apart
<1>4. Phases
  <2>1. \A t \in Threads : ~ BeginAt(t) /\ ~ FinishAt(t) /\ ~ SawZero(t)
    BY <1>1 DEF BeginAt, FinishAt, FinishIn, FinishLive, SawZero, Inboxes
  <2>2. Before
    BY <1>1, <2>1 DEF Before, Kinds
  <2>3. Ends
    BY <1>1, <2>1 DEF Ends, Ending
  <2>4. After
    BY <1>1, <2>1 DEF After
  <2> QED BY <2>2, <2>3, <2>4 DEF Phases
<1>5. WaitersLive /\ CountInv
  BY <1>1 DEF WaitersLive, CountInv
<1>6. ReportedInv
  <2>1. \A t \in Threads : Cardinality(live[t]) = 0
    BY <1>1, FS_EmptySet
  <2>2. \A t \in Threads : Reported(t) = 0
    BY <1>1, <2>1 DEF Reported
  <2> QED BY <1>1, <2>2 DEF ReportedInv
<1> QED BY <1>2, <1>3, <1>4, <1>5, <1>6 DEF Inv

\* ... and each step keeps it: every part has its lemma above.
LEMMA InvStep ==
  ASSUME Inv, ~ Chaining, [Next]_vars
  PROVE  Inv'
<1>1. Types'
  BY TypesStep DEF Inv
<1>2. Jobs'
  BY JobsStep DEF Inv
<1>3. ReportedInv' /\ CountInv'
  BY <1>1, CountStep DEF Inv
<1>4. Phases'
  BY <1>1, <1>2, <1>3, PhasesStep DEF Inv
<1>5. WaitersLive'
  BY WaitersStep DEF Inv
<1> QED BY <1>1, <1>2, <1>3, <1>4, <1>5 DEF Inv

\* The invariant of the run and its end (sched.cc:117, shutdown.cc:22), if no
\* callback is chained to a reply.
THEOREM ShutdownInvariant ==
  ASSUME ~ Chaining
  PROVE  Spec => []Inv
<1>1. Init => Inv
  BY InvInit
<1>2. Inv /\ [Next]_vars => Inv'
  BY InvStep
<1> QED BY <1>1, <1>2, PTL DEF Spec

-----------------------------------------------------------------------------
\* The counter of shutdown_t is the sum of all work that is queued, running or
\* reported (shutdown.cc:41, coro.cc:118).
THEOREM CountStaysExact ==
  ASSUME ~ Chaining
  PROVE  Spec => []CountIsExact
<1>1. Inv => CountIsExact
  <2> SUFFICES ASSUME Inv, main # "idle", ~ finishSent, \A t \in Threads : tpc[t] # "store"
               PROVE  /\ count = MapThenSumSet(Requests, Threads \cup {Io})
                               + MapThenSumSet(Reported, Threads)
                               + Cardinality({t \in Threads : tpc[t] = "sending"})
                               + Cardinality(toTell)
                               + (IF main = "running" THEN 1 ELSE 0)
                      /\ \A t \in Threads : Reported(t) >= 0
    BY DEF CountIsExact
  <2>1. count = (((RequestSum + ReportedSum) + Cardinality(Threading)) + Cardinality(toTell)) + (Dummy + Owed)
    BY DEF Inv, CountInv
  <2>2. /\ \A q \in Inboxes : Requests(q) \in Int
        /\ \A t \in Threads : Reported(t) \in Int
    BY SumTypes DEF Inv
  <2>3. RequestSum = MapThenSumSet(Requests, Threads \cup {Io}) /\ ReportedSum = MapThenSumSet(Reported, Threads)
    BY <2>2, SumOfRequests, SumOfReported
  <2>4. Threading = {t \in Threads : tpc[t] = "sending"} /\ Owed = 0
    BY DEF Threading, Sends, Owed
  <2>5. Dummy + Owed = IF main = "running" THEN 1 ELSE 0
    BY <2>4 DEF Dummy
  <2>6. \A t \in Threads : Reported(t) >= 0
    BY DEF Inv, ReportedInv
  <2> QED BY <2>1, <2>3, <2>4, <2>5, <2>6
<1> QED BY <1>1, ShutdownInvariant, PTL

\* When the threads are told to finish, no coroutine of the program and no
\* request is left anywhere (shutdown.cc:60).
THEOREM NoWorkLeftAtTheEnd ==
  ASSUME ~ Chaining
  PROVE  Spec => []NoWorkLeftWhenEnding
<1>1. Inv => NoWorkLeftWhenEnding
  <2> SUFFICES ASSUME Inv, Ending PROVE ~ WorkLeft
    BY DEF NoWorkLeftWhenEnding
  <2>1. /\ \A t \in Threads : ~ Sends(t) /\ \A j \in live[t] : j.kind = "finish"
        /\ \A q \in Inboxes : Kinds({"reply", "finish"}, q)
    BY DEF Inv, Phases, Ends
  <2>2. \A q \in Threads \cup {Io} : \A j \in InInbox(q) : ~ UserJob(j)
    BY <2>1 DEF Kinds, UserJob, Inboxes
  <2> QED BY <2>1, <2>2 DEF WorkLeft, Sends, UserJob
<1> QED BY <1>1, ShutdownInvariant, PTL

\* A set whose elements are all the same has at most one.
LEMMA AtMostOne ==
  ASSUME NEW S, \A a, b \in S : a = b
  PROVE  Cardinality(S) <= 1
<1>1. CASE S = {}
  BY <1>1, FS_EmptySet
<1>2. CASE S # {}
  <2>1. PICK a : S = {a}
    BY <1>2
  <2> QED BY <2>1, FS_Singleton
<1> QED BY <1>1, <1>2

\* The parts of EndsCleanly: one thread ends the run, nothing is left of it
\* when main returns, and the types.
LEMMA InvFinishOnce ==
  ASSUME Inv
  PROVE  FinishOnce
<1>1. Cardinality({t \in Threads : tpc[t] \in {"add", "store", "tell"}}) <= 1
  <2> DEFINE S == {t \in Threads : tpc[t] \in {"add", "store", "tell"}}
  <2>1. \A t, u \in S : t = u
    BY DEF Inv, Phases, Ends, SawZero
  <2> HIDE DEF S
  <2> QED BY <2>1, AtMostOne DEF S
<1>2. ASSUME NEW u \in Threads, Ending PROVE Requests(u) <= 1
  <2> DEFINE S == {k \in DOMAIN inbox[u] : inbox[u][k].kind # "reply"}
  <2>1. \A k \in S : inbox[u][k] = MkJob("finish", u, None)
    <3>1. \A k \in DOMAIN inbox[u] : inbox[u][k] \in InInbox(u)
      BY DEF InInbox
    <3>2. \A j \in InInbox(u) : j.kind \in {"reply", "finish"} /\ Proper(j, u)
      BY <1>2 DEF Inv, Phases, Ends, Kinds, Jobs, JobsProper, Inboxes
    <3> QED BY <3>1, <3>2 DEF Proper
  <2>2. \A k, l \in S : k = l
    BY <2>1 DEF Inv, Jobs, Once, Inboxes
  <2> HIDE DEF S
  <2> QED BY <2>2, AtMostOne DEF S, Requests
<1>3. ASSUME NEW u \in Threads, FinishJobs(u) # {} PROVE ~ stop[u]
  <2>1. FinishAt(u)
    <3>1. PICK q \in Threads : MkJob("finish", u, None) \in InInbox(q) \cup live[q]
      BY <1>3 DEF FinishJobs
    <3>2. Proper(MkJob("finish", u, None), q)
      BY <3>1 DEF Inv, Jobs, JobsProper, Inboxes
    <3>3. q = u
      BY <3>2, KindsOf DEF Proper
    <3> QED BY <3>1, <3>3 DEF FinishAt, FinishIn, FinishLive
  <2>2. main # "idle"
    BY <2>1, KindsOf DEF Inv, Phases, Before, FinishAt, FinishIn, FinishLive, Kinds, Inboxes
  <2> QED BY <2>1, <2>2 DEF Inv, Phases, After, FinishAt
<1> QED BY <1>1, <1>2, <1>3 DEF FinishOnce

LEMMA InvClean ==
  ASSUME Inv
  PROVE  CleanWhenPaused
<1> SUFFICES ASSUME main = "waiting", \A t \in Threads : tpc[t] = "paused"
             PROVE  /\ \A q \in Threads \cup {Io} : inbox[q] = <<>>
                    /\ \A t \in Threads : live[t] = {}
                    /\ awaiting = {}
  BY DEF CleanWhenPaused
<1>1. \A t \in Threads : stop[t] /\ inbox[t] = <<>> /\ live[t] = {}
  BY DEF Inv, Phases, After
<1>2. finishSent
  <2>1. \E t \in Threads : TRUE
    BY ShutdownAssumption DEF Threads
  <2> QED BY <1>1, <2>1 DEF Inv, Phases, Before
<1>3. inbox[Io] = <<>>
  <2>1. Kinds({"reply", "finish"}, Io)
    BY <1>2 DEF Inv, Phases, Ends, Ending, Inboxes
  <2>2. InInbox(Io) = {}
    BY <2>1, ShutdownAssumption DEF Kinds, Inv, Jobs, JobsProper, Inboxes, Threads
  <2> QED BY <2>2, InboxProps DEF Inv, Inboxes
<1>4. awaiting = {}
  BY <1>1 DEF Inv, WaitersLive
<1> QED BY <1>1, <1>3, <1>4

LEMMA InvTypeOK ==
  ASSUME Inv
  PROVE  TypeOK
<1>1. count \in Nat
  <2>1. RequestSum \in Nat /\ ReportedSum \in Nat /\ Cardinality(Threading) \in Nat /\ Cardinality(toTell) \in Nat
    BY SumTypes DEF Inv
  <2>2. PICK a \in Nat : a = (((RequestSum + ReportedSum) + Cardinality(Threading)) + Cardinality(toTell)) + (Dummy + Owed)
    BY <2>1, OwedType
  <2>3. main # "idle" => count = a
    BY <2>2 DEF Inv, CountInv
  <2>4. main = "idle" => count >= 0
    BY DEF Inv, Phases, Before
  <2> QED BY <2>3, <2>4 DEF Inv, Types
<1>2. \A q \in Threads \cup {Io} : InInbox(q) \subseteq Job
  BY InboxProps DEF Inv, Inboxes
<1> QED BY <1>1, <1>2 DEF Inv, Types, TypeOK

\* One thread ends a run, tells every thread once, and leaves no message and no
\* coroutine of it to the next one (shutdown.cc:43, sched.cc:167).
THEOREM EndsCleanlyAlways ==
  ASSUME ~ Chaining
  PROVE  Spec => []EndsCleanly
<1>1. Inv => EndsCleanly
  BY InvFinishOnce, InvClean, InvTypeOK DEF EndsCleanly
<1> QED BY <1>1, ShutdownInvariant, PTL

-----------------------------------------------------------------------------
\* Who reads the inbox of the io threads alone finds what it was woken for.
MessageWaits ==
  /\ woken # {} => inbox[Io] # <<>>
  /\ \A t \in Threads : tpc[t] # "spin"

LEMMA PushKeepsIo ==
  ASSUME Types, NEW q \in Inboxes, NEW j \in Job, Push(q, j)
  PROVE  inbox'[Io] # <<>> \/ inbox'[Io] = inbox[Io]
<1>1. Io \in Inboxes
  BY DEF Inboxes
<1>2. (\A r \in Inboxes \ {q} : inbox'[r] = inbox[r]) /\ inbox'[q] # <<>>
  BY PushProps
<1> QED BY <1>1, <1>2

LEMMA MessageWaitsStep ==
  ASSUME Types, Jobs, Cardinality(IoThreads) = 1, MessageWaits, ~ Chaining, [Next]_vars
  PROVE  MessageWaits'
<1>1. ASSUME NEW q \in Targets, NEW w \in Work, Enqueue(q, w) PROVE MessageWaits'
  <2>1. inbox'[Io] # <<>> \/ inbox'[Io] = inbox[Io]
    <3>1. MkJob("task", w, None) \in Job /\ q \in Inboxes
      BY DEF Job, MkJob, Inboxes, Targets, Threads
    <3> QED BY <1>1, <3>1, PushKeepsIo DEF Enqueue
  <2>2. woken' = woken /\ \A u \in Threads : tpc'[u] # "spin"
    BY <1>1
    DEF Enqueue, MessageWaits, Types, vars, mainVars, counterVars, ioVars, replyVars,
        threadVars
  <2> QED BY <2>1, <2>2 DEF MessageWaits
<1>2. ASSUME Run PROVE MessageWaits'
  <2>1. woken' = woken /\ inbox' = inbox /\ tpc' = [t \in Threads |-> "poll"]
    BY <1>2 DEF Run, ioVars
  <2> QED BY <2>1 DEF MessageWaits
<1>3. ASSUME BeginShutdown PROVE MessageWaits'
  <2>1. woken' = woken /\ inbox' = inbox /\ \A u \in Threads : tpc'[u] # "spin"
    BY <1>3
    DEF BeginShutdown, MessageWaits, Types, vars, mainVars, counterVars, ioVars,
        replyVars, threadVars
  <2> QED BY <2>1 DEF MessageWaits
<1>4. ASSUME NEW t \in Threads, TellBegin(t) PROVE MessageWaits'
  <2>1. inbox'[Io] # <<>> \/ inbox'[Io] = inbox[Io]
    <3>1. MkJob("begin", t, None) \in Job /\ t \in Inboxes
      BY DEF Job, MkJob, Inboxes, Targets, Threads
    <3> QED BY <1>4, <3>1, PushKeepsIo DEF TellBegin
  <2>2. woken' = woken /\ \A u \in Threads : tpc'[u] # "spin"
    BY <1>4
    DEF TellBegin, MessageWaits, Types, vars, mainVars, counterVars, ioVars, replyVars,
        threadVars
  <2> QED BY <2>1, <2>2 DEF MessageWaits
<1>5. ASSUME RunReturns PROVE MessageWaits'
  <2>1. woken' = woken /\ inbox' = inbox /\ \A u \in Threads : tpc'[u] # "spin"
    BY <1>5
    DEF RunReturns, MessageWaits, Types, vars, mainVars, counterVars, ioVars, replyVars,
        threadVars
  <2> QED BY <2>1 DEF MessageWaits
<1>6. ASSUME NEW t \in Threads, Enter(t) PROVE MessageWaits'
  <2>1. inbox' = inbox /\ \A u \in Threads : tpc'[u] # "spin"
    BY <1>6
    DEF Enter, MessageWaits, Types, vars, mainVars, counterVars, replyVars, threadVars
  <2>2. woken' # {} => woken # {} \/ inbox[Io] # <<>>
    BY <1>6 DEF Enter
  <2> QED BY <2>1, <2>2 DEF MessageWaits
<1>7. ASSUME NEW t \in Threads, RunEnd(t) PROVE MessageWaits'
  <2>1. woken' = woken /\ inbox' = inbox /\ \A u \in Threads : tpc'[u] # "spin"
    BY <1>7
    DEF RunEnd, AfterRun, MessageWaits, Types, vars, mainVars, counterVars, ioVars,
        replyVars, threadVars
  <2> QED BY <2>1 DEF MessageWaits
<1>8. ASSUME NEW t \in Threads, AddTargets(t) PROVE MessageWaits'
  <2>1. woken' = woken /\ inbox' = inbox /\ \A u \in Threads : tpc'[u] # "spin"
    BY <1>8
    DEF AddTargets, MessageWaits, Types, vars, mainVars, counterVars, ioVars, replyVars,
        threadVars
  <2> QED BY <2>1 DEF MessageWaits
<1>9. ASSUME NEW t \in Threads, StoreFinish(t) PROVE MessageWaits'
  <2>1. woken' = woken /\ inbox' = inbox /\ \A u \in Threads : tpc'[u] # "spin"
    BY <1>9
    DEF StoreFinish, MessageWaits, Types, vars, mainVars, counterVars, ioVars, replyVars,
        threadVars
  <2> QED BY <2>1 DEF MessageWaits
<1>10. ASSUME NEW t \in Threads, NEW u \in Threads, TellFinish(t, u) PROVE MessageWaits'
  <2>1. inbox'[Io] # <<>> \/ inbox'[Io] = inbox[Io]
    <3>1. MkJob("finish", u, None) \in Job /\ u \in Inboxes
      BY DEF Job, MkJob, Inboxes, Targets, Threads
    <3> QED BY <1>10, <3>1, PushKeepsIo DEF TellFinish
  <2>2. woken' = woken /\ \A v \in Threads : tpc'[v] # "spin"
    BY <1>10
    DEF TellFinish, AfterRun, MessageWaits, Types, vars, mainVars, counterVars, ioVars,
        replyVars, threadVars
  <2> QED BY <2>1, <2>2 DEF MessageWaits
<1>11. ASSUME NEW t \in Threads, AcceptTask(t) PROVE MessageWaits'
  <2>1. inbox'[Io] = inbox[Io]
    BY <1>11, ShutdownAssumption DEF AcceptTask, Types, Inboxes, Threads
  <2>2. woken' = woken /\ \A u \in Threads : tpc'[u] # "spin"
    BY <1>11
    DEF AcceptTask, MessageWaits, Types, vars, mainVars, counterVars, ioVars, replyVars,
        threadVars
  <2> QED BY <2>1, <2>2 DEF MessageWaits
<1>12. ASSUME NEW t \in Threads, AcceptReply(t) PROVE MessageWaits'
  <2>1. inbox'[Io] = inbox[Io]
    BY <1>12, ShutdownAssumption DEF AcceptReply, Types, Inboxes, Threads
  <2>2. woken' = woken /\ \A u \in Threads : tpc'[u] # "spin"
    BY <1>12
    DEF AcceptReply, MessageWaits, Types, vars, mainVars, counterVars, ioVars, replyVars,
        threadVars
  <2> QED BY <2>1, <2>2 DEF MessageWaits
<1>13. ASSUME NEW t \in Threads, PullStart(t) PROVE MessageWaits'
  <2>1. woken' = woken /\ inbox' = inbox /\ \A u \in Threads : tpc'[u] # "spin"
    BY <1>13
    DEF PullStart, MessageWaits, Types, vars, mainVars, counterVars, ioVars, replyVars,
        threadVars
  <2> QED BY <2>1 DEF MessageWaits
<1>14. ASSUME NEW t \in Threads, AcceptIo(t) PROVE MessageWaits'
  <2>1. \A o \in IoThreads : o = t
    <3>1. IsFiniteSet(IoThreads)
      BY ShutdownAssumption, FS_Subset DEF Threads
    <3>2. PICK o : IoThreads = {o}
      BY <3>1, FS_Singleton
    <3> QED BY <1>14, <3>2 DEF AcceptIo, Types
  <2>2. woken' = {}
    BY <1>14, <2>1 DEF AcceptIo, Types
  <2>3. \A u \in Threads : tpc'[u] # "spin"
    BY <1>14 DEF AcceptIo, MessageWaits, Types
  <2> QED BY <2>2, <2>3 DEF MessageWaits
<1>15. ASSUME NEW t \in Threads, NEW j \in live[t], NEW w \in Work, Spawn(t, j, w)
       PROVE  MessageWaits'
  <2>1. woken' = woken /\ inbox' = inbox /\ \A u \in Threads : tpc'[u] # "spin"
    BY <1>15
    DEF Spawn, MessageWaits, Types, vars, mainVars, counterVars, ioVars, replyVars, threadVars
  <2> QED BY <2>1 DEF MessageWaits
<1>16. ASSUME NEW t \in Threads, NEW j \in live[t], NEW q \in Targets, NEW w \in Work,
             NEW mode \in {"noreply", "sync", "async", "then"}, NoteSend(t, j, q, w, mode)
       PROVE  MessageWaits'
  <2>1. woken' = woken /\ inbox' = inbox /\ \A u \in Threads : tpc'[u] # "spin"
    BY <1>16
    DEF NoteSend, MessageWaits, Types, vars, mainVars, counterVars, ioVars, replyVars,
        threadVars
  <2> QED BY <2>1 DEF MessageWaits
<1>17. ASSUME NEW t \in Threads, WriteRequest(t) PROVE MessageWaits'
  <2>1. inbox'[Io] # <<>> \/ inbox'[Io] = inbox[Io]
    <3>1. sending[t].job \in Job /\ sending[t].to \in Inboxes
      BY <1>17 DEF WriteRequest, Types, Sends, Sending, Targets, Inboxes, Threads
    <3> QED BY <1>17, <3>1, PushKeepsIo DEF WriteRequest
  <2>2. woken' = woken /\ \A u \in Threads : tpc'[u] # "spin"
    BY <1>17
    DEF WriteRequest, MessageWaits, Types, vars, mainVars, counterVars, ioVars, replyVars,
        threadVars
  <2> QED BY <2>1, <2>2 DEF MessageWaits
<1>18. ASSUME NEW t \in Threads, NEW j \in live[t], EndJob(t, j) PROVE MessageWaits'
  <2>1. inbox'[Io] # <<>> \/ inbox'[Io] = inbox[Io]
    <3>1. CASE j.kind = "call"
      <4>1. j.from \in Inboxes /\ MkJob("reply", j.id, None) \in Job
        BY <3>1 DEF Jobs, JobsProper, Proper, Inboxes, Threads, Types, Job, MkJob
      <4> QED BY <1>18, <3>1, <4>1, PushKeepsIo DEF EndJob
    <3> QED BY <1>18, <3>1 DEF EndJob
  <2>2. woken' = woken /\ \A u \in Threads : tpc'[u] # "spin"
    BY <1>18
    DEF EndJob, MessageWaits, Types, vars, mainVars, counterVars, ioVars, replyVars,
        threadVars
  <2> QED BY <2>1, <2>2 DEF MessageWaits
<1>19. ASSUME NEW t \in Threads, HandleBegin(t) PROVE MessageWaits'
  <2>1. woken' = woken /\ inbox' = inbox /\ \A u \in Threads : tpc'[u] # "spin"
    BY <1>19
    DEF HandleBegin, MessageWaits, Types, vars, mainVars, counterVars, ioVars, replyVars,
        threadVars
  <2> QED BY <2>1 DEF MessageWaits
<1>20. ASSUME NEW t \in Threads, HandleFinish(t) PROVE MessageWaits'
  <2>1. woken' = woken /\ inbox' = inbox /\ \A u \in Threads : tpc'[u] # "spin"
    BY <1>20
    DEF HandleFinish, MessageWaits, Types, vars, mainVars, counterVars, ioVars, replyVars,
        threadVars
  <2> QED BY <2>1 DEF MessageWaits
<1>21. ASSUME UNCHANGED vars PROVE MessageWaits'
  BY <1>21 DEF MessageWaits, vars, mainVars, counterVars, ioVars, replyVars, threadVars
<1>22. ASSUME NEW t \in Threads, LoseMessage(t) PROVE MessageWaits'
  BY <1>22 DEF LoseMessage, MessageWaits
<1> QED
  BY <1>1, <1>2, <1>3, <1>4, <1>5, <1>6, <1>7, <1>8, <1>9, <1>10, <1>11, <1>12, <1>13,
     <1>14, <1>15, <1>16, <1>17, <1>18, <1>19, <1>20, <1>21, <1>22
  DEF Next, MainNext, ThreadNext, SomeJobEnds, Send

\* With one io thread, as the first constructor of scheduler_t makes, no thread
\* ever spins on the eventfd of the io stream (sched.cc:26, stream.cc:87).
THEOREM LoneIoThreadNeverSpins ==
  ASSUME ~ Chaining
  PROVE  Spec => []LoneReaderNeverSpins
<1>1. CASE Cardinality(IoThreads) = 1
  <2>1. Init => MessageWaits
    BY DEF Init, MessageWaits
  <2>2. Inv /\ MessageWaits /\ [Next]_vars => MessageWaits'
    BY <1>1, MessageWaitsStep DEF Inv
  <2>3. MessageWaits => LoneReaderNeverSpins
    BY DEF MessageWaits, LoneReaderNeverSpins
  <2> QED BY <2>1, <2>2, <2>3, ShutdownInvariant, PTL DEF Spec
<1>2. CASE Cardinality(IoThreads) # 1
  <2>1. LoneReaderNeverSpins
    BY <1>2 DEF LoneReaderNeverSpins
  <2> QED BY <2>1, PTL
<1> QED BY <1>1, <1>2

=============================================================================
