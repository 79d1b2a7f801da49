------------------------------- MODULE MCMessages -------------------------------
(***************************************************************************)
(* Messages for TLC.  A byte has two values, so that a number of eight     *)
(* bytes stays within the integers of TLC.  The values of each type are    *)
(* the smallest and the largest ones, empty, single and repeated items.    *)
(***************************************************************************)
EXTENDS Messages

Small == Integral(2, TRUE)               \* -2 .. 1
Flag == Integral(1, FALSE)               \* 0 .. 1
Of(type, values) == {<<type, x>> : x \in values}

\* The sequences of at most three items, those with the order of a set, and those
\* of pairs with the order of a map.
Items == UNION {[1 .. n -> {-2, 0, 1}] : n \in 0 .. 3}
Ascending(strict) ==
  {s \in Items : \A i \in 1 .. Len(s) - 1 : s[i] < s[i + 1] \/ (~strict /\ s[i] = s[i + 1])}
Pairs(keys) == UNION {{[i \in DOMAIN s |-> <<s[i], f[i]>>] : f \in [DOMAIN s -> {0, 1}]} : s \in keys}

Numbers ==
  Of(Integral(1, TRUE), {-1, 0}) \cup Of(Flag, {0, 1}) \cup Of(Small, -2 .. 1)
  \cup Of(Integral(4, TRUE), {-8, -1, 0, 7}) \cup Of(Integral(4, FALSE), {0, 1, 15})
  \cup Of(Integral(8, TRUE), {-128, -1, 0, 127}) \cup Of(Pointer, {0, 255})
  \cup Of(Enum(Small), {0, 1}) \cup Of(Byte, BOOLEAN)

Containers ==
  UNION {Of(T, Items) : T \in {Vector(Small), List(Small), Deque(Small), ForwardList(Small),
                               Stack(Small), Queue(Small), UnorderedMultiset(Small)}}
  \cup Of(PriorityQueue(Small), {s \in Items : \A i \in 2 .. Len(s) : s[i] <= s[i \div 2]})
  \cup Of(String, UNION {[1 .. n -> {-1, 0}] : n \in 0 .. 3})
  \cup Of(Set(Small), Ascending(TRUE)) \cup Of(Multiset(Small), Ascending(FALSE))
  \cup Of(UnorderedSet(Small), {s \in Items : IsInjective(s)})
  \cup Of(Map(Small, Flag), Pairs(Ascending(TRUE)))
  \cup Of(Multimap(Small, Flag), Pairs(Ascending(FALSE)))
  \cup Of(UnorderedMap(Small, Flag), Pairs({s \in Items : IsInjective(s)}))
  \cup Of(UnorderedMultimap(Small, Flag), Pairs(Items))

Nested ==
  Of(Pair(Small, Vector(Flag)), {<<-2, <<0, 1>>>>, <<1, <<>>>>})
  \cup Of(Array(Small, 3), [1 .. 3 -> {-2, 1}])
  \cup Of(Struct(<<>>), {<<>>})
  \cup Of(Struct(<<Flag, String, Vector(Vector(Small))>>),
          {<<1, <<>>, <<>>>>, <<0, <<-1, 0>>, <<<<>>, <<-2, 1>>>>>>})
  \cup Of(IpAndPort, {<<<<[i \in 1 .. 16 |-> i % 2], 15>>, 3>>})

\* The callers are on one thread: the others differ from it by name only.
OnOneThread == [c \in Callers |-> CHOOSE t \in HubThreads : TRUE]

AllCases == Numbers \cup Containers \cup Nested

=============================================================================
