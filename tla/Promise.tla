------------------------------- MODULE Promise -------------------------------
(***************************************************************************)
(* promise_t, future_t and the promise_data_t they share (sync/promise.tcc *)
(* and sync/promise.cc), with the callbacks chained by then() and          *)
(* then_release().                                                         *)
(*                                                                         *)
(* notify_all(), the loops over a chain and the destructors call each      *)
(* other to any depth, without a switch of coroutines.  `calls' is what is *)
(* left of them, the innermost first: a step makes the first call and puts *)
(* those that it makes in its place, and the program goes on when none is  *)
(* left.                                                                   *)
(***************************************************************************)
EXTENDS Naturals, Sequences, FiniteSets, SequencesExt

CONSTANTS Data,     \* the promise_data_t objects; an address is not reused
          Futures,  \* the future_t objects
          Void,     \* promise_t<void>, or promise_t<T> of a movable T?
          Null

ASSUME PromiseAssumption ==
  /\ Void \in BOOLEAN
  /\ {Null, "user", "none"} \cap Data = {}

VARIABLES state,      \* "unused", "unfulfilled", "fulfilled", "released", "deleted"
          abandoned,  \* m_abandoned
          owner,      \* who has the promise_t: "user", "none", or the datum in
                      \* whose chain it is
          links,      \* m_ref_chain and m_move_chain of each datum: `to' is the
                      \* datum of the promise a link owns, `gives' that of the
                      \* future its callback returns, Null if it returns a value
          data,       \* m_data of a future, Null if there is none
          wait,       \* the coroutine waiting on a future: "none", "blocked", or
                      \* made runnable with "success" or "lost"
          taken,      \* history: how often the value was moved out
          aborted,    \* has a GUARANTEE failed?
          calls       \* the calls under way, each <<function, datum>>

promiseVars == <<state, abandoned, owner, links, data, wait, taken, aborted, calls>>

Kinds == {"ref", "move"}

PromiseInit ==
  /\ state = [d \in Data |-> "unused"]
  /\ abandoned = {}
  /\ owner = [d \in Data |-> "none"]
  /\ links = [d \in Data |-> [kind \in Kinds |-> <<>>]]
  /\ data = [f \in Futures |-> Null]
  /\ wait = [f \in Futures |-> "none"]
  /\ taken = [d \in Data |-> 0]
  /\ aborted = FALSE
  /\ calls = <<>>

FuturesOf(d) == {f \in Futures : data[f] = d}

\* m_value is moved out.
MoveOut(d) ==
  /\ state' = [state EXCEPT ![d] = "released"]
  /\ taken' = [taken EXCEPT ![d] = @ + 1]

-----------------------------------------------------------------------------
\* The calls.

Called(call, d) == calls # <<>> /\ Head(calls) = <<call, d>>
Becomes(made) == calls' = made \o Tail(calls)

\* Mutant: the chain is not run.
NotifyAll_NoChain(d) ==
  /\ Called("notify", d)
  /\ Becomes(IF state[d] = "fulfilled" THEN << <<"success", d>> >>
             ELSE IF d \in abandoned \/ state[d] = "released" THEN << <<"lost", d>> >>
             ELSE <<>>)
  /\ UNCHANGED <<state, abandoned, owner, links, data, wait, taken, aborted>>

\* notify_all().  An abandoned promise_t<void> runs its chain as well.
NotifyAll(d) ==
  /\ Called("notify", d)
  /\ Becomes(IF state[d] = "fulfilled"
             THEN << <<"ref", d>>, <<"move", d>>, <<"success", d>> >>
             ELSE IF d \in abandoned /\ Void THEN << <<"ref", d>>, <<"lost", d>> >>
             ELSE IF d \in abandoned \/ state[d] = "released" THEN << <<"lost", d>> >>
             ELSE <<>>)
  /\ UNCHANGED <<state, abandoned, owner, links, data, wait, taken, aborted>>

\* notify() of each future: its waiters become runnable.
Tell(d, result) ==
  /\ Called(result, d)
  /\ wait' = [f \in Futures |-> IF data[f] = d /\ wait[f] = "blocked" THEN result
                                                                    ELSE wait[f]]
  /\ Becomes(<<>>)
  /\ UNCHANGED <<state, abandoned, owner, links, data, taken, aborted>>

\* clear() of a chain takes the links off one by one, runs each and deletes it, and
\* with it the promise it owns.
ChainEmpty(d, kind) ==
  /\ links[d][kind] = <<>>
  /\ Becomes(<<>>)
  /\ UNCHANGED <<state, abandoned, owner, links, data, wait, taken, aborted>>

\* Mutant: the link stays in the chain.
TakeOff_Keep(d, kind) == links

TakeOff(d, kind) == [links EXCEPT ![d][kind] = Tail(@)]

\* The promise is fulfilled with the value that the callback returned.
LinkGivesValue(d, kind, k) ==
  /\ k.gives = Null
  /\ state' = [state EXCEPT ![d] = IF kind = "move" THEN "released" ELSE @,
                            ![k.to] = "fulfilled"]
  /\ links' = TakeOff(d, kind)
  /\ calls' = << <<"notify", k.to>>, <<"abandon", k.to>> >> \o calls
  /\ UNCHANGED <<owner, data>>

\* reassign_futures(): the callback returned a future, and what waited for the promise
\* waits for that future now.
LinkGivesFuture(d, kind, k) ==
  LET rest == TakeOff(d, kind) IN
  /\ k.gives # Null
  /\ state' = [state EXCEPT ![d] = IF kind = "move" THEN "released" ELSE @]
  /\ links' = [c \in Data |-> [m \in Kinds |->
       IF c = k.gives THEN rest[c][m] \o rest[k.to][m]
       ELSE IF c = k.to THEN <<>>
       ELSE rest[c][m]]]
  /\ owner' = [e \in Data |-> IF owner[e] = k.to THEN k.gives ELSE owner[e]]
  /\ data' = [f \in Futures |-> IF data[f] = k.to THEN k.gives ELSE data[f]]
  /\ calls' = << <<"notify", k.gives>>, <<"abandon", k.to>> >> \o calls

RunLink(d, kind) ==
  LET k == Head(links[d][kind]) IN
  /\ links[d][kind] # <<>>
  /\ kind = "move" => state[d] = "fulfilled"
  /\ LinkGivesValue(d, kind, k) \/ LinkGivesFuture(d, kind, k)
  /\ taken' = [taken EXCEPT ![d] = IF kind = "move" THEN @ + 1 ELSE @]
  /\ UNCHANGED <<abandoned, wait, aborted>>

\* Of the links that move the value out only the first is run.
DeleteLink(d, kind) ==
  /\ links[d][kind] # <<>>
  /\ kind = "move" /\ state[d] # "fulfilled"
  /\ links' = TakeOff(d, kind)
  /\ calls' = << <<"abandon", Head(links[d][kind]).to>> >> \o calls
  /\ UNCHANGED <<state, abandoned, owner, data, wait, taken, aborted>>

ClearChain(d, kind) ==
  /\ Called(kind, d)
  /\ ChainEmpty(d, kind) \/ RunLink(d, kind) \/ DeleteLink(d, kind)

\* ~promise_t: abandon(), and delete the datum if it has no futures then.
Abandon(d) ==
  /\ Called("abandon", d)
  /\ abandoned' = abandoned \cup {d}
  /\ owner' = [owner EXCEPT ![d] = "none"]
  /\ Becomes(<< <<"notify", d>>, <<"free", d>> >>)
  /\ UNCHANGED <<state, links, data, wait, taken, aborted>>

\* ~promise_data_t: the links that were never run go with it, and with each of
\* them the promise it owns.
DropLinks(d, kind) == [i \in DOMAIN links[d][kind] |-> <<"abandon", links[d][kind][i].to>>]

Free(d) ==
  /\ Called("free", d)
  /\ IF FuturesOf(d) = {}
     THEN /\ state' = [state EXCEPT ![d] = "deleted"]
          /\ links' = [links EXCEPT ![d] = [kind \in Kinds |-> <<>>]]
          /\ Becomes(DropLinks(d, "ref") \o DropLinks(d, "move"))
     ELSE Becomes(<<>>) /\ UNCHANGED <<state, links>>
  /\ UNCHANGED <<abandoned, owner, data, wait, taken, aborted>>

MakeCall(d) ==
  \/ NotifyAll(d) \/ Abandon(d) \/ Free(d)
  \/ \E result \in {"success", "lost"} : Tell(d, result)
  \/ \E kind \in Kinds : ClearChain(d, kind)

-----------------------------------------------------------------------------
\* What the program does with promises, when no call is under way.

HasPromise(d) == owner[d] = "user"
IsFuture(f) == data[f] # Null
Unused(d) == state[d] = "unused"

\* Does a chained callback still have to call get_future() of this promise?
Captured(x) ==
  \E d \in Data, kind \in Kinds : \E i \in DOMAIN links[d][kind] : links[d][kind][i].gives = x

MakePromise(d) ==
  /\ Unused(d)
  /\ state' = [state EXCEPT ![d] = "unfulfilled"]
  /\ owner' = [owner EXCEPT ![d] = "user"]
  /\ UNCHANGED <<abandoned, links, data, wait, taken, aborted, calls>>

GetFuture(d, f) ==
  /\ HasPromise(d)
  /\ ~ IsFuture(f)
  /\ data' = [data EXCEPT ![f] = d]
  /\ UNCHANGED <<state, abandoned, owner, links, wait, taken, aborted, calls>>

Fulfill(d) ==
  /\ HasPromise(d)
  /\ state[d] = "unfulfilled"
  /\ state' = [state EXCEPT ![d] = "fulfilled"]
  /\ calls' = << <<"notify", d>> >>
  /\ UNCHANGED <<abandoned, owner, links, data, wait, taken, aborted>>

DropPromise(d) ==
  /\ HasPromise(d)
  /\ ~ Captured(d)
  /\ calls' = << <<"abandon", d>> >>
  /\ UNCHANGED <<state, abandoned, owner, links, data, wait, taken, aborted>>

\* Mutant: the last future does not delete the datum.
DropFuture_NoDelete(f) ==
  /\ IsFuture(f)
  /\ wait[f] = "none"
  /\ data' = [data EXCEPT ![f] = Null]
  /\ UNCHANGED <<state, abandoned, owner, links, wait, taken, aborted, calls>>

\* ~future_t, of a future nobody waits on.
DropFuture(f) ==
  /\ IsFuture(f)
  /\ wait[f] = "none"
  /\ data' = [data EXCEPT ![f] = Null]
  /\ calls' = IF data[f] \in abandoned THEN << <<"free", data[f]>> >> ELSE <<>>
  /\ UNCHANGED <<state, abandoned, owner, links, wait, taken, aborted>>

\* then() and then_release() of f make the future g, on a new datum e or on the
\* datum x of the future that the callback returns.  The promise that is fulfilled
\* at once has no future yet.
ThenAtOnce(f, g, e, x, move) ==
  LET d == data[f]
      left == IF move THEN [state EXCEPT ![d] = "released"] ELSE state
  IN
  /\ state[d] = "fulfilled"
  /\ taken' = [taken EXCEPT ![d] = IF move THEN @ + 1 ELSE @]
  /\ IF x = Null
     THEN /\ state' = [left EXCEPT ![e] = "fulfilled"]
          /\ owner' = [owner EXCEPT ![e] = "user"]
          /\ data' = [data EXCEPT ![g] = e]
          /\ calls' = << <<"abandon", e>> >>
     ELSE /\ state' = left
          /\ data' = [data EXCEPT ![g] = x]
          /\ UNCHANGED <<owner, calls>>
  /\ UNCHANGED <<abandoned, links, wait, aborted>>

ThenLost(f, g, e) ==
  /\ state[data[f]] # "fulfilled"
  /\ data[f] \in abandoned \/ state[data[f]] = "released"
  /\ state' = [state EXCEPT ![e] = "unfulfilled"]
  /\ owner' = [owner EXCEPT ![e] = "user"]
  /\ data' = [data EXCEPT ![g] = e]
  /\ calls' = << <<"abandon", e>> >>
  /\ UNCHANGED <<abandoned, links, wait, taken, aborted>>

ThenLater(f, g, e, x, move) ==
  LET d == data[f]
      kind == IF move THEN "move" ELSE "ref"
  IN
  /\ state[d] = "unfulfilled"
  /\ d \notin abandoned
  /\ state' = [state EXCEPT ![e] = "unfulfilled"]
  /\ owner' = [owner EXCEPT ![e] = d]
  /\ links' = [links EXCEPT ![d][kind] = Append(@, [to |-> e, gives |-> x])]
  /\ data' = [data EXCEPT ![g] = e]
  /\ UNCHANGED <<abandoned, wait, taken, aborted, calls>>

Then(f, g, e, x, move) ==
  /\ IsFuture(f)
  /\ ~ IsFuture(g)
  /\ Unused(e)
  /\ x # Null => HasPromise(x) /\ x # data[f]
  /\ move => ~ Void
  /\ \/ ThenAtOnce(f, g, e, x, move)
     \/ ThenLost(f, g, e)
     \/ ThenLater(f, g, e, x, move)

\* wait() of get(), copy() and release(): it blocks only on a future that may
\* still be fulfilled.
Block(f) ==
  /\ IsFuture(f)
  /\ wait[f] = "none"
  /\ state[data[f]] = "unfulfilled"
  /\ data[f] \notin abandoned
  /\ wait' = [wait EXCEPT ![f] = "blocked"]
  /\ UNCHANGED <<state, abandoned, owner, links, data, taken, aborted, calls>>

\* The wait was interrupted, or failed.
GiveUp(f) ==
  /\ wait[f] \in {"blocked", "lost"}
  /\ wait' = [wait EXCEPT ![f] = "none"]
  /\ UNCHANGED <<state, abandoned, owner, links, data, taken, aborted, calls>>

\* After a wait that succeeded, at once or when the coroutine runs again,
\* get() and copy() read the value and release() moves it out.
CanUse(f) ==
  /\ IsFuture(f)
  /\ \/ wait[f] = "success"
     \/ wait[f] = "none" /\ state[data[f]] = "fulfilled"

Get(f) ==
  /\ CanUse(f)
  /\ aborted' = (~ Void /\ state[data[f]] # "fulfilled")
  /\ wait' = [wait EXCEPT ![f] = "none"]
  /\ UNCHANGED <<state, abandoned, owner, links, data, taken, calls>>

Release(f) ==
  /\ CanUse(f)
  /\ ~ Void
  /\ IF state[data[f]] = "fulfilled" THEN MoveOut(data[f]) ELSE UNCHANGED <<state, taken>>
  /\ wait' = [wait EXCEPT ![f] = "none"]
  /\ UNCHANGED <<abandoned, owner, links, data, aborted, calls>>

UserStep ==
  \/ \E d \in Data : MakePromise(d) \/ Fulfill(d) \/ DropPromise(d)
  \/ \E d \in Data, f \in Futures : GetFuture(d, f)
  \/ \E f \in Futures : DropFuture(f) \/ Block(f) \/ GiveUp(f) \/ Get(f) \/ Release(f)
  \/ \E f, g \in Futures, e \in Data, x \in Data \cup {Null}, move \in BOOLEAN :
       Then(f, g, e, x, move)

PromiseNext ==
  /\ ~ aborted
  /\ \/ calls = <<>> /\ UserStep
     \/ \E d \in Data : MakeCall(d)

PromiseSpec == PromiseInit /\ [][PromiseNext]_promiseVars

-----------------------------------------------------------------------------
\* Properties.  All but the type invariant are about the states in which the program
\* runs, and no call is under way.

States == {"unused", "unfulfilled", "fulfilled", "released", "deleted"}
Link == [to : Data, gives : Data \cup {Null}]
Functions == {"notify", "ref", "move", "success", "lost", "abandon", "free"}

PromiseTypes ==
  /\ state \in [Data -> States]
  /\ abandoned \subseteq Data
  /\ owner \in [Data -> Data \cup {"user", "none"}]
  /\ links \in [Data -> [Kinds -> Seq(Link)]]
  /\ data \in [Futures -> Data \cup {Null}]
  /\ wait \in [Futures -> {"none", "blocked", "success", "lost"}]
  /\ \A f \in Futures : wait[f] # "none" => IsFuture(f)
  /\ taken \in [Data -> Nat]
  /\ aborted \in BOOLEAN
  /\ calls \in Seq(Functions \X Data)

Allocated == {d \in Data : state[d] \notin {"unused", "deleted"}}

\* A datum lives exactly as long as a promise or a future refers to it: it is
\* not deleted under one of them, and not leaked, through any order of
\* fulfilling, chaining, reassigning and destroying.
NoDanglingNoLeak ==
  \A d \in Data : d \in Allocated <=> (owner[d] # "none" \/ FuturesOf(d) # {})

\* A promise owned by a chained callback is owned by exactly one link, in the
\* chain of a datum that is still there; and a datum without promise is one
\* that was abandoned.
ChainsConsistent ==
  /\ \A d \in Data, kind \in Kinds : \A i \in DOMAIN links[d][kind] :
       LET e == links[d][kind][i].to IN
         /\ d \in Allocated
         /\ owner[e] = d
         /\ state[e] = "unfulfilled"
  /\ \A c, d \in Data, k, m \in Kinds :
       \A i \in DOMAIN links[c][k], j \in DOMAIN links[d][m] :
         links[c][k][i].to = links[d][m][j].to => c = d /\ k = m /\ i = j
  /\ \A e \in Data : owner[e] \in Data =>
       \E kind \in Kinds : \E i \in DOMAIN links[owner[e]][kind] :
         links[owner[e]][kind][i].to = e
  /\ \A d \in Allocated : (owner[d] = "none") <=> (d \in abandoned)

\* The value is moved to one place only, whoever asks for it (promise.tcc:375).
TakenOnce == \A d \in Data : taken[d] <= 1

\* Data and chains have an owner and values one at the most, whatever is fulfilled,
\* chained, reassigned or dropped in between (promise.tcc:331).
DataIsOwned ==
  /\ PromiseTypes
  /\ TakenOnce
  /\ calls = <<>> => NoDanglingNoLeak /\ ChainsConsistent

\* A coroutine is blocked only on a future whose promise is still there.
BlockedIsPending ==
  \A f \in Futures : wait[f] = "blocked" =>
    state[data[f]] = "unfulfilled" /\ owner[data[f]] # "none"

\* Fulfilling runs the whole chain, whatever is chained or reassigned while it
\* runs: nothing stays chained to a datum that has its value.
NothingLeftChained ==
  \A d \in Data, kind \in Kinds : state[d] = "fulfilled" => links[d][kind] = <<>>

\* Fulfilling leaves no callback behind, and nobody waits for a promise that is gone
\* (promise.tcc:355).
EveryoneAnswered == calls = <<>> => BlockedIsPending /\ NothingLeftChained

\* What is left to do: the weight of a call exceeds that of the calls it makes, and the
\* weight of a link that of the calls that handling and deleting it make.
Weight(call) == CASE call = "abandon" -> 6 [] call = "notify" -> 4 [] OTHER -> 1
CallSum(called) == MapThenSumSet(LAMBDA i : Weight(called[i][1]), DOMAIN called)
ChainSum(chains) ==
  MapThenSumSet(LAMBDA d : Len(chains[d]["ref"]) + Len(chains[d]["move"]), Data)
Effort == CallSum(calls) + 11 * ChainSum(links)

\* However deep the callbacks, destructors and notifications call each other, the call
\* of the program returns (promise.tcc:344): every step leaves less to do.
CallsEnd == [][calls # <<>> => Effort' \in 0 .. Effort - 1]_promiseVars

\* "REQUIRE_THROWS_AS(future_a.get(), wait_object_lost_exc_t)" (test/promise.cc:69)
\* after the value was released; no GUARANTEE fails.
ReleasedIsLost == ~ aborted

\* "Return an abandoned future - can never be fulfilled" (promise.tcc:249): a
\* callback chained to a promise<void> runs only if that was fulfilled.
AbandonedRunsNothing ==
  \A d \in Data : Called("ref", d) /\ links[d]["ref"] # <<>> => state[d] # "unfulfilled"

\* "Return an abandoned future - can never be fulfilled" (promise.tcc:225): what
\* is chained to a promise<T> that was abandoned is abandoned too, so a
\* coroutine that waits for it is told.
BlockedCanBeFulfilled ==
  calls = <<>> => \A f \in Futures : wait[f] = "blocked" =>
    LET d == data[f] IN owner[d] \in Data => owner[d] \notin abandoned

=============================================================================
