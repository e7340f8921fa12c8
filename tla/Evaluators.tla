----------------------------- MODULE Evaluators -----------------------------
(***************************************************************************)
(* How a search compares two values: the search types, the bytes a typed    *)
(* number stands for, and the evaluators that read those bytes back.        *)
(*                                                                         *)
(* A byte has Bits bits (8 in the program), an integer is one or two bytes: *)
(* the 32 and 64 bit types differ from the 16 bit ones in their width only. *)
(* A floating-point number is two bytes: a sign and a magnitude, the        *)
(* largest of which is no number.  What stands between two magnitudes       *)
(* (exponent and mantissa) does not count, for they are only compared.      *)
(***************************************************************************)
EXTENDS Integers, Sequences, FiniteSets, SequencesExt

CONSTANT Bits

ASSUME BitsAssumption == Bits \in Nat \ {0}

\* 2^n, defined so that it can be reasoned about
Power[n \in Nat] == IF n = 0 THEN 1 ELSE 2 * Power[n - 1]

Byte == 0 .. (Power[Bits] - 1)

(***************************************************************************)
(* search_type_configs: the size of a field and how an evaluator reads it.  *)
(***************************************************************************)
Config ==
  [u8   |-> [size |-> 1, kind |-> "unsigned", reversed |-> FALSE],
   u16  |-> [size |-> 2, kind |-> "unsigned", reversed |-> FALSE],
   ru16 |-> [size |-> 2, kind |-> "unsigned", reversed |-> TRUE],
   s8   |-> [size |-> 1, kind |-> "signed",   reversed |-> FALSE],
   s16  |-> [size |-> 2, kind |-> "signed",   reversed |-> FALSE],
   rs16 |-> [size |-> 2, kind |-> "signed",   reversed |-> TRUE],
   flt  |-> [size |-> 2, kind |-> "float",    reversed |-> FALSE],
   rflt |-> [size |-> 2, kind |-> "float",    reversed |-> TRUE],
   data |-> [size |-> 1, kind |-> "bytes",    reversed |-> FALSE]]

AllTypes == DOMAIN Config
FieldSize(type) == Config[type].size

Predicates == {"<", ">", "<=", ">=", "=", "!=", "$", "ALL"}

\* a flag search on a float is not possible
HasEvaluator(type, op) == Config[type].kind = "float" => op # "$"

----------------------------------------------------------------------------
(* Bytes and numbers.  The machine is little-endian. *)

Unsigned(bytes) ==
  LET upTo[i \in 0..Len(bytes)] ==
        IF i = 0 THEN 0 ELSE upTo[i - 1] + bytes[i] * Power[Bits * (i - 1)]
  IN upTo[Len(bytes)]

\* mutant: the bytes of a reversed type are not swapped
InOrderUnswapped(type, bytes) == bytes

InOrder(type, bytes) == IF Config[type].reversed THEN Reverse(bytes) ELSE bytes

SignBit(type) == Power[Bits * FieldSize(type) - 1]

\* what *(type*)bytes, byte-swapped if need be, is
Number(type, bytes) ==
  LET u == Unsigned(InOrder(type, bytes))
      negative == u >= SignBit(type)
  IN CASE Config[type].kind = "signed" /\ negative -> u - 2 * SignBit(type)
       [] Config[type].kind = "float" /\ negative -> SignBit(type) - u
       [] OTHER -> u

\* a NaN: it compares with nothing, and differs from everything
NoNumber(type, bytes) ==
  /\ Config[type].kind = "float"
  /\ Unsigned(InOrder(type, bytes)) % SignBit(type) = SignBit(type) - 1

\* the lowest bytes of a number of 64 bits, swapped
Stored(type, n) ==
  LET little == [i \in 1..FieldSize(type) |-> (n \div Power[Bits * (i - 1)]) % Power[Bits]]
  IN IF Config[type].reversed THEN Reverse(little) ELSE little

\* read_typed_value: an integer is parsed as 64 bits and cut to its size, a float as what
\* it is
TypedValue(type, n) ==
  Stored(type, IF Config[type].kind = "float" /\ n < 0 THEN SignBit(type) - n ELSE n)

----------------------------------------------------------------------------
(* The evaluators. *)

Compare(op, a, b) ==
  \/ op = "ALL"
  \/ op \in {"<", "<=", "!="} /\ a < b
  \/ op \in {">", ">=", "!="} /\ a > b
  \/ op \in {"<=", ">=", "="} /\ a = b

BitsOf(n, width) == {i \in 0..(width - 1) : (n \div Power[i]) % 2 = 1}

DifferingBits(a, b) ==
  LET w == Bits * Len(a) IN SymDiff(BitsOf(Unsigned(a), w), BitsOf(Unsigned(b), w))

TopBit(bytes) == Bits * Len(bytes) - 1

\* mutant: at most one bit, so equal values pass
FlagOrEqual(type, a, b) == Cardinality(DifferingBits(a, b)) <= 1

(***************************************************************************)
(* *a ^ *b is an int: when a signed operand is narrower, its top bit is     *)
(* extended over the int, and a difference there is never one bit.  The     *)
(* bytes of reversed types are not swapped, and the bytes of data are       *)
(* signed too.  data_flag never advances past the first byte, so it counts  *)
(* that byte again for each of the others.                                  *)
(***************************************************************************)
Flag(type, a, b) ==
  LET differ == DifferingBits(a, b) IN
  /\ Cardinality(differ) = 1
  /\ Config[type].kind \in {"signed", "bytes"} => TopBit(a) \notin differ
  /\ type = "data" => Len(a) = 1

\* memcmp: the first byte that differs decides; no bytes are equal
BytesAsNumber(bytes) == Unsigned(Reverse(bytes))

Evaluate(type, op, a, b) ==
  IF op = "$" THEN Flag(type, a, b)
  ELSE IF type = "data" THEN Compare(op, BytesAsNumber(a), BytesAsNumber(b))
  ELSE IF NoNumber(type, a) \/ NoNumber(type, b) THEN op \in {"!=", "ALL"}
  ELSE Compare(op, Number(type, a), Number(type, b))
=============================================================================
