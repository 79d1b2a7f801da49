------------------------------ MODULE IntegerCodec ------------------------------
(***************************************************************************)
(* The serializer of the integral types (rpc/serialize.cc): sizeof(T)      *)
(* bytes, the most significant first, in two's complement.  A byte has     *)
(* Base values, so that TLC can take small ones; in the code it has 256.   *)
(***************************************************************************)
EXTENDS Integers, Sequences

CONSTANT Base

ASSUME BaseAssumption == Base \in Nat /\ Base >= 2

Bytes == 0 .. Base - 1
Integral(width, signed) == [kind |-> "integral", width |-> width, signed |-> signed]

Power(n) ==
  LET power[k \in 0 .. n] == IF k = 0 THEN 1 ELSE Base * power[k - 1]
  IN power[n]

\* The numbers of the type.
ValuesOf(T) ==
  LET half == Power(T.width) \div 2
  IN IF T.signed THEN half - Power(T.width) .. half - 1 ELSE 0 .. Power(T.width) - 1

\* htobe(): from the last byte on, each is what the division by Base leaves.
IntegerBytes(T, x) ==
  LET left[k \in 0 .. T.width] ==
        IF k = 0 THEN IF x < 0 THEN x + Power(T.width) ELSE x
                 ELSE left[k - 1] \div Base
  IN [i \in 1 .. T.width |-> left[T.width - i] % Base]

\* betoh(), of bytes popped from the first one on.
IntegerValue(bytes) ==
  LET value[k \in 0 .. Len(bytes)] == IF k = 0 THEN 0 ELSE Base * value[k - 1] + bytes[k]
  IN value[Len(bytes)]

Signed(T, n) == IF T.signed /\ n >= Power(T.width) \div 2 THEN n - Power(T.width) ELSE n

\* The integer that begins at a byte of the buffer.
ReadInteger(T, bytes, at) == Signed(T, IntegerValue(SubSeq(bytes, at, at + T.width - 1)))

=================================================================================
