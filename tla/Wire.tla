----------------------------------- MODULE Wire -----------------------------------
(***************************************************************************)
(* What a message is made of (rpc/serialize*.hpp, rpc/message.cc): how many *)
(* bytes a value takes, which ones, and what is read from them.            *)
(*                                                                         *)
(* A type is a record that says which of the serializers is meant; a value *)
(* of a container is the sequence its iteration gives.  float and double   *)
(* are not here: their serializer converts them to integers first.         *)
(***************************************************************************)
EXTENDS IntegerCodec, SequencesExt, Bags

CONSTANT Cases            \* pairs of a type and a value of it

Byte == [kind |-> "byte"]                              \* bool: not zero is true
UInt64 == Integral(8, FALSE)
Pointer == UInt64                                      \* SERIALIZABLE_POINTER
Enum(underlying) == underlying                         \* SERIALIZABLE_ENUM

\* A fixed number of members in order; many items behind their number, which are
\* put back at the end, into their order, or anywhere; once each if unique.
Fixed(types) == [kind |-> "fixed", of |-> types]
Many(type, put, unique) == [kind |-> "many", of |-> type, put |-> put, unique |-> unique]

Struct(types) == Fixed(types)                          \* MAKE_SERIALIZABLE
Pair(a, b) == Fixed(<<a, b>>)
Array(type, n) == Fixed([i \in 1 .. n |-> type])
In6Addr == Array(Integral(1, FALSE), 16)
IpAddress == Struct(<<In6Addr, Integral(4, FALSE)>>)
IpAndPort == Struct(<<IpAddress, Integral(2, FALSE)>>)

String == Many(Integral(1, TRUE), "back", FALSE)
Vector(type) == Many(type, "back", FALSE)
List(type) == Many(type, "back", FALSE)
Deque(type) == Many(type, "back", FALSE)
ForwardList(type) == Many(type, "back", FALSE)         \* emplace_after the last one
Stack(type) == Deque(type)                             \* the container inside
Queue(type) == Deque(type)
PriorityQueue(type) == Vector(type)                    \* is a heap already
Set(type) == Many(type, "order", TRUE)
Multiset(type) == Many(type, "order", FALSE)
Map(k, v) == Many(Pair(k, v), "key", TRUE)
Multimap(k, v) == Many(Pair(k, v), "key", FALSE)
UnorderedSet(type) == Many(type, "any", TRUE)
UnorderedMultiset(type) == Many(type, "any", FALSE)
UnorderedMap(k, v) == Many(Pair(k, v), "any", TRUE)
UnorderedMultimap(k, v) == Many(Pair(k, v), "any", FALSE)

-----------------------------------------------------------------------------
\* Size, bytes, and value.

Total(lengths) == FoldSeq(+, 0, lengths)

RECURSIVE Size(_, _)
Size(T, x) ==
  CASE T.kind = "integral" -> T.width
    [] T.kind = "byte" -> 1
    [] T.kind = "fixed" -> Total([i \in DOMAIN T.of |-> Size(T.of[i], x[i])])
    [] T.kind = "many" -> UInt64.width + Total([i \in DOMAIN x |-> Size(T.of, x[i])])

RECURSIVE Write(_, _)

Write(T, x) ==
  CASE T.kind = "integral" -> IntegerBytes(T, x)
    [] T.kind = "byte" -> <<IF x THEN 1 ELSE 0>>
    [] T.kind = "fixed" -> FlattenSeq([i \in DOMAIN T.of |-> Write(T.of[i], x[i])])
    [] T.kind = "many" -> IntegerBytes(UInt64, Len(x))
                          \o FlattenSeq([i \in DOMAIN x |-> Write(T.of, x[i])])

\* Mutant: an item goes before those that are equal to it.
Put_Before(T, items, x) ==
  LET key(y) == IF T.put = "key" THEN y[1] ELSE y
      below == Cardinality({i \in DOMAIN items : key(items[i]) < key(x)})
  IN CASE T.unique /\ \E i \in DOMAIN items : key(items[i]) = key(x) -> items
       [] T.put \in {"order", "key"} -> InsertAt(items, below + 1, x)
       [] OTHER -> Append(items, x)

\* Putting an item back: a container of unique items keeps the one it has; an
\* ordered one puts it behind those that are not greater.
Put(T, items, x) ==
  LET key(y) == IF T.put = "key" THEN y[1] ELSE y
      below == Cardinality({i \in DOMAIN items : key(items[i]) <= key(x)})
  IN CASE T.unique /\ \E i \in DOMAIN items : key(items[i]) = key(x) -> items
       [] T.put \in {"order", "key"} -> InsertAt(items, below + 1, x)
       [] OTHER -> Append(items, x)

\* Reading gives a value, and where in the buffer the next one begins.
RECURSIVE Read(_, _, _), ReadFixed(_, _, _, _), ReadMany(_, _, _, _, _)
Read(T, bytes, at) ==
  CASE T.kind = "integral" ->
         [value |-> ReadInteger(T, bytes, at), at |-> at + T.width]
    [] T.kind = "byte" -> [value |-> bytes[at] # 0, at |-> at + 1]
    [] T.kind = "fixed" -> ReadFixed(T.of, bytes, at, <<>>)
    [] T.kind = "many" -> LET n == Read(UInt64, bytes, at)
                          IN ReadMany(T, n.value, bytes, n.at, <<>>)

ReadFixed(types, bytes, at, members) ==
  IF types = <<>> THEN [value |-> members, at |-> at]
  ELSE LET r == Read(Head(types), bytes, at)
       IN ReadFixed(Tail(types), bytes, r.at, Append(members, r.value))

ReadMany(T, n, bytes, at, items) ==
  IF n = 0 THEN [value |-> items, at |-> at]
  ELSE LET r == Read(T.of, bytes, at)
       IN ReadMany(T, n - 1, bytes, r.at, Put(T, items, r.value))

\* Two values a program cannot tell apart.
Same(T, x, y) ==
  IF T.kind = "many" /\ T.put = "any"
  THEN \A v \in ToSet(x) \cup ToSet(y) :
         Cardinality({i \in DOMAIN x : x[i] = v}) = Cardinality({i \in DOMAIN y : y[i] = v})
  ELSE x = y

-----------------------------------------------------------------------------
\* Messages: a header of five numbers, and the arguments.
Magic == Power(8) - 2
Header == Struct(<<UInt64, UInt64, UInt64, UInt64, UInt64>>)
HeaderSize == 5 * UInt64.width

\* create(): the capacity of the buffer, and what is pushed into it.
Capacity(T, x) == HeaderSize + Size(T, x)
Message(T, x, source, rpc, request) ==
  Write(Header, <<Magic, source, rpc, request, Size(T, x)>>) \o Write(T, x)

\* parse(), and the arguments read from what is left of the buffer.
Parse(T, bytes) ==
  LET header == Read(Header, bytes, 1)
  IN [header |-> header.value, args |-> Read(T, bytes, header.at)]

VARIABLE case              \* what is in the message that was sent, if any

NoMessage == <<>>

WireInit == case = NoMessage
SendMessage == case = NoMessage /\ case' \in Cases

-----------------------------------------------------------------------------
\* Properties.

\* What write_message_t::create is told the size of is what is pushed: push_back
\* never passes the end of the buffer and release() finds it full.
SizeIsExact ==
  case # NoMessage =>
  LET T == case[1]
      x == case[2]
  IN Len(Message(T, x, 3, 1, 2)) = Capacity(T, x)

\* The receiver reads the values that were sent and nothing behind them.
RoundTrip ==
  case # NoMessage =>
  LET T == case[1]
      x == case[2]
      parsed == Parse(T, Message(T, x, 3, 1, 2))
  IN /\ parsed.header = <<Magic, 3, 1, 2, Size(T, x)>>
     /\ Same(T, x, parsed.args.value)
     /\ parsed.args.at = Capacity(T, x) + 1

=============================================================================
