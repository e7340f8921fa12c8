-------------------------- MODULE EvaluatorProofs --------------------------
(***************************************************************************)
(* What the operators of Evaluators make of bytes, for bytes of any number  *)
(* of bits: powers of two, the numbers that bytes stand for, and the bits   *)
(* in which two numbers differ.                                            *)
(***************************************************************************)
EXTENDS Evaluators, Lemmas

(***************************************************************************)
(* Powers of two.                                                          *)
(***************************************************************************)
Doubles(s, n) == s \in [0..n -> Nat] /\ s[0] = 1 /\ \A k \in 1..n : s[k] = 2 * s[k - 1]

LEMMA DoublesExist ==
  ASSUME NEW n \in Nat
  PROVE  \E s : Doubles(s, n)
<1> DEFINE step == [k \in 1..n |-> [v \in Nat |-> 2 * v]]
<1>1. step \in Steps(n, Nat)
  BY DEF Steps
<1>2. PICK s : Computes(s, n, Nat, 1, step)
  <2> HIDE DEF step
  <2> QED BY <1>1, Recursion
<1>3. \A k \in 1..n : s[k] = 2 * s[k - 1]
  <2> TAKE k \in 1..n
  <2>1. s[k - 1] \in Nat
    BY <1>2 DEF Computes
  <2>2. step[k][s[k - 1]] = 2 * s[k - 1]
    BY <2>1
  <2> QED BY <1>2, <2>2 DEF Computes
<1> QED BY <1>2, <1>3 DEF Computes, Doubles

LEMMA DoublesAgree ==
  ASSUME NEW n \in Nat, NEW m \in Nat, n <= m, NEW s, Doubles(s, n), NEW t, Doubles(t, m)
  PROVE  \A k \in 0..n : s[k] = t[k]
<1> DEFINE S == {k \in 0..n : s[k] = t[k]}
<1>1. 0 \in S
  BY DEF Doubles
<1>2. ASSUME NEW k \in 0..(n - 1), k \in S PROVE k + 1 \in S
  <2>1. k + 1 \in 1..n /\ k + 1 \in 1..m /\ (k + 1) - 1 = k /\ k + 1 \in 0..n
    OBVIOUS
  <2>2. s[k + 1] = 2 * s[k] /\ t[k + 1] = 2 * t[k]
    BY <2>1 DEF Doubles
  <2> QED BY <1>2, <2>1, <2>2
<1> HIDE DEF S
<1>3. 0..n \subseteq S
  BY <1>1, <1>2, UpTo
<1> QED BY <1>3 DEF S

\* Power is what its definition says.
LEMMA PowerIs ==
  /\ Power[0] = 1
  /\ \A n \in Nat : Power[n + 1] = 2 * Power[n] /\ Power[n] \in Nat \ {0}
<1> DEFINE Upto(n) == CHOOSE s : Doubles(s, n)
           g == [n \in Nat |-> Upto(n)[n]]
           Is(p) == p = [n \in Nat |-> IF n = 0 THEN 1 ELSE 2 * p[n - 1]]
<1>1. \A n \in Nat : Doubles(Upto(n), n)
  BY DoublesExist
<1> HIDE DEF Upto
<1>2. g[0] = 1
  BY <1>1 DEF Doubles
<1>3. ASSUME NEW n \in Nat, n # 0 PROVE g[n] = 2 * g[n - 1]
  <2>1. n - 1 \in Nat /\ n - 1 <= n /\ n \in 1..n /\ n - 1 \in 0..(n - 1)
    BY <1>3
  <2>2. Upto(n)[n] = 2 * Upto(n)[n - 1]
    BY <1>1, <2>1 DEF Doubles
  <2>3. Upto(n - 1)[n - 1] = Upto(n)[n - 1]
    <3> DEFINE m == n - 1
    <3>1. m \in Nat /\ m <= n /\ m \in 0..m
      BY <2>1
    <3> HIDE DEF m
    <3>2. Doubles(Upto(m), m) /\ Doubles(Upto(n), n)
      BY <1>1, <3>1
    <3>3. Upto(m)[m] = Upto(n)[m]
      BY <3>1, <3>2, DoublesAgree
    <3> QED BY <3>3 DEF m
  <2> QED BY <2>1, <2>2, <2>3
<1>4. Is(g)
  BY <1>2, <1>3
<1> HIDE DEF g
<1>5. Is(Power)
  BY <1>4 DEF Power
<1>6. Power[0] = 1 /\ \A n \in Nat : n # 0 => Power[n] = 2 * Power[n - 1]
  BY <1>5
<1>7. \A n \in Nat : Power[n + 1] = 2 * Power[n]
  <2> TAKE n \in Nat
  <2>1. n + 1 \in Nat /\ n + 1 # 0 /\ (n + 1) - 1 = n
    OBVIOUS
  <2> QED BY <1>6, <2>1
<1>8. ASSUME NEW n \in Nat PROVE Power[n] \in Nat \ {0}
  <2> DEFINE S == {k \in 0..n : Power[k] \in Nat \ {0}}
  <2>1. 0 \in S
    BY <1>6
  <2>2. ASSUME NEW k \in 0..(n - 1), k \in S PROVE k + 1 \in S
    <3>1. k \in Nat /\ k + 1 \in 0..n /\ Power[k] \in Nat \ {0}
      BY <2>2
    <3> QED BY <1>7, <3>1
  <2> HIDE DEF S
  <2>3. 0..n \subseteq S
    BY <2>1, <2>2, UpTo
  <2>4. n \in 0..n
    OBVIOUS
  <2> QED BY <2>3, <2>4 DEF S
<1> QED BY <1>6, <1>7, <1>8

LEMMA PowerSum ==
  ASSUME NEW m \in Nat, NEW n \in Nat
  PROVE  Power[m + n] = Power[m] * Power[n]
<1> DEFINE S == {k \in 0..n : Power[m + k] = Power[m] * Power[k]}
<1>1. 0 \in S
  <2>1. m + 0 = m /\ Power[m] \in Nat
    BY PowerIs
  <2> QED BY <2>1, PowerIs
<1>2. ASSUME NEW k \in 0..(n - 1), k \in S PROVE k + 1 \in S
  <2>1. k \in Nat /\ k + 1 \in 0..n /\ m + k \in Nat /\ m + (k + 1) = (m + k) + 1
        /\ Power[m + k] = Power[m] * Power[k]
    BY <1>2
  <2>2. Power[(m + k) + 1] = 2 * Power[m + k] /\ Power[k + 1] = 2 * Power[k]
    BY <2>1, PowerIs
  <2>3. PICK p \in Nat : p = Power[m]
    BY PowerIs
  <2>4. PICK q \in Nat : q = Power[k]
    BY <2>1, PowerIs
  <2>5. 2 * (p * q) = p * (2 * q)
    OBVIOUS
  <2> QED BY <2>1, <2>2, <2>3, <2>4, <2>5
<1> HIDE DEF S
<1>3. 0..n \subseteq S
  BY <1>1, <1>2, UpTo
<1>4. n \in 0..n
  OBVIOUS
<1> QED BY <1>3, <1>4 DEF S

(***************************************************************************)
(* Bits.                                                                   *)
(***************************************************************************)
Bit(n, i) == (n \div Power[i]) % 2

Half(n) == n \div 2

\* The bits of half a number are its own but for the lowest.
LEMMA HalfBits ==
  ASSUME NEW n \in Nat, NEW i \in Nat
  PROVE  /\ Bit(Half(n), i) = Bit(n, i + 1) /\ Half(n) \in Nat
         /\ n = 2 * Half(n) + Bit(n, 0) /\ Bit(n, 0) \in {0, 1}
<1>1. PICK p \in Nat \ {0} : p = Power[i] /\ 2 * p = Power[i + 1]
  BY PowerIs
<1>2. (n \div 2) \div p = n \div (2 * p)
  OBVIOUS
<1>3. Bit(Half(n), i) = Bit(n, i + 1)
  BY <1>1, <1>2 DEF Bit, Half
<1>4. n \div 1 = n /\ n = 2 * (n \div 2) + (n % 2) /\ n % 2 \in {0, 1}
  OBVIOUS
<1>5. Bit(n, 0) = n % 2
  BY <1>4, PowerIs DEF Bit
<1>6. Half(n) \in Nat
  BY DEF Half
<1> QED BY <1>3, <1>4, <1>5, <1>6 DEF Half

\* Numbers below 2^w that differ in the bits at of the w lowest only
Alike(a, b, w, at) == \A i \in 0..(w - 1) : i \in at \/ Bit(a, i) = Bit(b, i)

LEMMA SameBits ==
  ASSUME NEW n \in Nat
  PROVE  \A a, b \in 0..(Power[n] - 1) : Alike(a, b, n, {}) => a = b
<1> DEFINE Decided(w) == \A a, b \in 0..(Power[w] - 1) : Alike(a, b, w, {}) => a = b
           S == {w \in 0..n : Decided(w)}
<1>1. 0 \in S
  BY PowerIs
<1>2. ASSUME NEW w \in 0..(n - 1), w \in S PROVE w + 1 \in S
  <2>1. w \in Nat /\ w + 1 \in 0..n /\ Decided(w)
    BY <1>2
  <2>2. ASSUME NEW a \in 0..(Power[w + 1] - 1), NEW b \in 0..(Power[w + 1] - 1),
               Alike(a, b, w + 1, {})
        PROVE  a = b
    <3>1. Power[w + 1] = 2 * Power[w] /\ Power[w] \in Nat \ {0}
      BY <2>1, PowerIs
    <3>2. a \in Nat /\ b \in Nat
      BY <3>1
    <3>3. /\ a = 2 * Half(a) + Bit(a, 0) /\ b = 2 * Half(b) + Bit(b, 0)
          /\ Half(a) \in Nat /\ Half(b) \in Nat
          /\ Bit(a, 0) \in {0, 1} /\ Bit(b, 0) \in {0, 1}
      BY <3>2, HalfBits
    <3>4. Half(a) \in 0..(Power[w] - 1) /\ Half(b) \in 0..(Power[w] - 1)
      BY <3>1, <3>3
    <3>5. Bit(a, 0) = Bit(b, 0)
      BY <2>1, <2>2 DEF Alike
    <3>6. Alike(Half(a), Half(b), w, {})
      <4> SUFFICES ASSUME NEW i \in 0..(w - 1) PROVE Bit(Half(a), i) = Bit(Half(b), i)
        BY DEF Alike
      <4>1. i \in Nat /\ i + 1 \in 0..((w + 1) - 1)
        BY <2>1
      <4>2. Bit(Half(a), i) = Bit(a, i + 1) /\ Bit(Half(b), i) = Bit(b, i + 1)
        BY <3>2, <4>1, HalfBits
      <4> QED BY <2>2, <4>1, <4>2 DEF Alike
    <3>7. Half(a) = Half(b)
      BY <2>1, <3>4, <3>6
    <3> QED BY <3>3, <3>5, <3>7
  <2> QED BY <2>1, <2>2
<1> HIDE DEF S
<1>3. 0..n \subseteq S
  BY <1>1, <1>2, UpTo
<1>4. n \in 0..n
  OBVIOUS
<1> QED BY <1>3, <1>4 DEF S

\* Of two numbers that differ in one bit, the one that has it is greater by its power.
LEMMA OneBitMore ==
  ASSUME NEW n \in Nat
  PROVE  \A a, b \in 0..(Power[n] - 1) : \A i \in 0..(n - 1) :
           Alike(a, b, n, {i}) /\ Bit(a, i) = 1 /\ Bit(b, i) = 0 => a = b + Power[i]
<1> DEFINE Decided(w) ==
             \A a, b \in 0..(Power[w] - 1) : \A i \in 0..(w - 1) :
               Alike(a, b, w, {i}) /\ Bit(a, i) = 1 /\ Bit(b, i) = 0 => a = b + Power[i]
           S == {w \in 0..n : Decided(w)}
<1>1. 0 \in S
  OBVIOUS
<1>2. ASSUME NEW w \in 0..(n - 1), w \in S PROVE w + 1 \in S
  <2>1. w \in Nat /\ w + 1 \in 0..n /\ Decided(w)
    BY <1>2
  <2>2. ASSUME NEW a \in 0..(Power[w + 1] - 1), NEW b \in 0..(Power[w + 1] - 1),
               NEW i \in 0..((w + 1) - 1),
               Alike(a, b, w + 1, {i}), Bit(a, i) = 1, Bit(b, i) = 0
        PROVE  a = b + Power[i]
    <3>1. Power[w + 1] = 2 * Power[w] /\ Power[w] \in Nat \ {0}
      BY <2>1, PowerIs
    <3>2. a \in Nat /\ b \in Nat
      BY <3>1
    <3>3. /\ a = 2 * Half(a) + Bit(a, 0) /\ b = 2 * Half(b) + Bit(b, 0)
          /\ Half(a) \in Nat /\ Half(b) \in Nat
          /\ Bit(a, 0) \in {0, 1} /\ Bit(b, 0) \in {0, 1}
      BY <3>2, HalfBits
    <3>4. Half(a) \in 0..(Power[w] - 1) /\ Half(b) \in 0..(Power[w] - 1)
      BY <3>1, <3>3
    <3>5. \A j \in 0..(w - 1) :
            j \in Nat /\ j + 1 \in 0..((w + 1) - 1)
            /\ Bit(Half(a), j) = Bit(a, j + 1) /\ Bit(Half(b), j) = Bit(b, j + 1)
      <4> TAKE j \in 0..(w - 1)
      <4>1. j \in Nat /\ j + 1 \in 0..((w + 1) - 1)
        BY <2>1
      <4> QED BY <3>2, <4>1, HalfBits
    <3>6. CASE i = 0
      <4>1. Alike(Half(a), Half(b), w, {})
        <5> SUFFICES ASSUME NEW j \in 0..(w - 1) PROVE Bit(Half(a), j) = Bit(Half(b), j)
          BY DEF Alike
        <5>1. j + 1 \in 0..((w + 1) - 1) /\ j + 1 # i
          BY <3>5, <3>6
        <5> QED BY <2>2, <3>5, <5>1 DEF Alike
      <4>2. Half(a) = Half(b)
        BY <2>1, <3>4, <4>1, SameBits
      <4> QED BY <2>2, <3>3, <3>6, <4>2, PowerIs
    <3>7. CASE i # 0
      <4>1. i - 1 \in 0..(w - 1) /\ i - 1 \in Nat /\ (i - 1) + 1 = i
        BY <2>1, <2>2, <3>7
      <4>2. PICK h : h = i - 1
        OBVIOUS
      <4>3. h \in 0..(w - 1) /\ h \in Nat /\ h + 1 = i
        BY <4>1, <4>2
      <4>4. Alike(Half(a), Half(b), w, {h})
        <5> SUFFICES ASSUME NEW j \in 0..(w - 1), j # h PROVE Bit(Half(a), j) = Bit(Half(b), j)
          BY DEF Alike
        <5>1. j + 1 \in 0..((w + 1) - 1) /\ j + 1 # i
          BY <3>5, <4>3
        <5> QED BY <2>2, <3>5, <5>1 DEF Alike
      <4>5. Bit(Half(a), h) = 1 /\ Bit(Half(b), h) = 0
        BY <2>2, <3>5, <4>3
      <4>6. Half(a) = Half(b) + Power[h]
        BY <2>1, <3>4, <4>3, <4>4, <4>5
      <4>7. Power[i] = 2 * Power[h] /\ Power[h] \in Nat
        BY <4>3, PowerIs
      <4>8. Bit(a, 0) = Bit(b, 0)
        <5>1. 0 \in 0..((w + 1) - 1) /\ 0 # i
          BY <2>1, <3>7
        <5> QED BY <2>2, <5>1 DEF Alike
      <4> QED BY <3>3, <4>6, <4>7, <4>8
    <3> QED BY <3>6, <3>7
  <2> QED BY <2>1, <2>2
<1> HIDE DEF S
<1>3. 0..n \subseteq S
  BY <1>1, <1>2, UpTo
<1>4. n \in 0..n
  OBVIOUS
<1> QED BY <1>3, <1>4 DEF S

(***************************************************************************)
(* The numbers of bytes.                                                   *)
(***************************************************************************)
Base == Power[Bits]

LEMMA BaseFacts ==
  Base \in Nat \ {0, 1} /\ Byte = 0..(Base - 1) /\ Power[0] = 1 /\ Power[Bits * 1] = Base
<1>1. Bits - 1 \in Nat /\ (Bits - 1) + 1 = Bits /\ Bits * 1 = Bits
  BY BitsAssumption
<1>2. Power[(Bits - 1) + 1] = 2 * Power[Bits - 1] /\ Power[Bits - 1] \in Nat \ {0}
  BY <1>1, PowerIs
<1>3. Power[Bits] = 2 * Power[Bits - 1]
  BY <1>1, <1>2
<1>4. Base \in Nat \ {0, 1}
  BY <1>2, <1>3 DEF Base
<1> QED BY <1>1, <1>4, PowerIs DEF Base, Byte

Sums(s, bytes) ==
  /\ s \in [0..Len(bytes) -> Nat] /\ s[0] = 0 /\ s[Len(bytes)] = Unsigned(bytes)
  /\ \A i \in 1..Len(bytes) : s[i] = s[i - 1] + bytes[i] * Power[Bits * (i - 1)]

LEMMA UnsignedSums ==
  ASSUME NEW bytes \in Seq(Byte)
  PROVE  \E s : Sums(s, bytes)
<1> DEFINE n == Len(bytes)
           f == [i \in 1..n |-> bytes[i] * Power[Bits * (i - 1)]]
           step == [i \in 1..n |-> [v \in Nat |-> v + f[i]]]
           Is(s) == s = [i \in 0..n |-> IF i = 0 THEN 0
                                        ELSE s[i - 1] + bytes[i] * Power[Bits * (i - 1)]]
<1>1. f \in [1..n -> Nat]
  <2> SUFFICES ASSUME NEW i \in 1..n PROVE bytes[i] * Power[Bits * (i - 1)] \in Nat
    OBVIOUS
  <2>1. bytes[i] \in Nat
    BY BaseFacts
  <2>2. i - 1 \in Nat /\ Bits \in Nat
    BY BitsAssumption
  <2>3. PICK e \in Nat : e = Bits * (i - 1)
    BY <2>2
  <2>4. PICK p \in Nat : p = Power[e]
    BY PowerIs
  <2>5. bytes[i] * p \in Nat
    BY <2>1
  <2> QED BY <2>3, <2>4, <2>5
<1>2. \A i \in 1..n : f[i] = bytes[i] * Power[Bits * (i - 1)]
  OBVIOUS
<1>3. n \in Nat
  OBVIOUS
<1>4. Unsigned(bytes) = (CHOOSE s : Is(s))[n]
  BY DEF Unsigned
<1> HIDE DEF f, n
<1>5. step \in Steps(n, Nat)
  BY <1>1 DEF Steps
<1>6. PICK s : Computes(s, n, Nat, 0, step)
  <2> HIDE DEF step
  <2> QED BY <1>3, <1>5, Recursion
<1>7. \A i \in 1..n : s[i] = s[i - 1] + f[i]
  <2> TAKE i \in 1..n
  <2>1. s[i - 1] \in Nat
    BY <1>3, <1>6 DEF Computes
  <2>2. step[i][s[i - 1]] = s[i - 1] + f[i]
    BY <2>1
  <2> QED BY <1>6, <2>2 DEF Computes
<1>8. Is(s)
  BY <1>2, <1>6, <1>7 DEF Computes
<1>9. PICK t : Is(t) /\ Unsigned(bytes) = t[n]
  <2> HIDE DEF Is
  <2> QED BY <1>4, <1>8
<1>10. t[0] = 0 /\ \A i \in 1..n : t[i] = t[i - 1] + f[i]
  BY <1>2, <1>3, <1>9
<1> DEFINE S == {i \in 0..n : t[i] \in Nat}
<1>11. 0 \in S
  BY <1>3, <1>10
<1>12. ASSUME NEW i \in 0..(n - 1), i \in S PROVE i + 1 \in S
  <2>1. i + 1 \in 1..n /\ i + 1 \in 0..n /\ (i + 1) - 1 = i /\ t[i] \in Nat
    BY <1>3, <1>12
  <2> QED BY <1>1, <1>10, <2>1
<1> HIDE DEF S
<1>13. 0..n \subseteq S
  BY <1>3, <1>11, <1>12, UpTo
<1>14. t \in [0..n -> Nat]
  BY <1>9, <1>13 DEF S
<1> QED BY <1>2, <1>9, <1>10, <1>14 DEF Sums, n

\* What one or two bytes are, the lowest first.
LEMMA UnsignedIs ==
  ASSUME NEW bytes \in Seq(Byte)
  PROVE  /\ Len(bytes) = 1 => Unsigned(bytes) = bytes[1]
         /\ Len(bytes) = 2 => Unsigned(bytes) = bytes[1] + bytes[2] * Base
<1>1. PICK s : Sums(s, bytes)
  BY UnsignedSums
<1>2. Power[Bits * (1 - 1)] = 1
  BY BitsAssumption, PowerIs
<1>3. Power[Bits * (2 - 1)] = Base
  BY BitsAssumption DEF Base
<1>4. ASSUME Len(bytes) \in {1, 2} PROVE s[1] = bytes[1]
  <2>1. 1 \in 1..Len(bytes) /\ bytes[1] \in Nat
    BY <1>4, BaseFacts
  <2>2. s[1] = s[1 - 1] + bytes[1] * Power[Bits * (1 - 1)]
    BY <1>1, <2>1 DEF Sums
  <2>3. s[1 - 1] = 0
    BY <1>1 DEF Sums
  <2>4. bytes[1] * 1 = bytes[1]
    BY <2>1
  <2> QED BY <1>2, <2>1, <2>2, <2>3, <2>4
<1>5. ASSUME Len(bytes) = 2 PROVE s[2] = bytes[1] + bytes[2] * Base
  <2>1. 2 \in 1..Len(bytes)
    BY <1>5
  <2>2. s[2] = s[2 - 1] + bytes[2] * Power[Bits * (2 - 1)]
    BY <1>1, <2>1 DEF Sums
  <2>3. s[2 - 1] = bytes[1]
    BY <1>4, <1>5
  <2> QED BY <1>3, <2>2, <2>3
<1> QED BY <1>1, <1>4, <1>5 DEF Sums

LEMMA TypeFacts ==
  ASSUME NEW type \in AllTypes
  PROVE  /\ FieldSize(type) \in {1, 2}
         /\ Config[type].kind \in {"unsigned", "signed", "float", "bytes"}
         /\ Config[type].kind = "bytes" <=> type = "data"
<1>1. type \in {"u8", "u16", "ru16", "s8", "s16", "rs16", "flt", "rflt", "data"}
  BY DEF AllTypes, Config
<1>2. Config[type].size \in {1, 2}
  BY <1>1 DEF Config
<1>3. Config[type].kind \in {"unsigned", "signed", "float", "bytes"}
  BY <1>1 DEF Config
<1>4. Config[type].kind = "bytes" <=> type = "data"
  BY <1>1 DEF Config
<1> QED BY <1>2, <1>3, <1>4 DEF FieldSize

FieldBytes(type) == {b \in Seq(Byte) : Len(b) = FieldSize(type)}

\* Twice the sign bit is the number of values of a field.
LEMMA SignBits ==
  ASSUME NEW type \in AllTypes
  PROVE  /\ SignBit(type) \in Nat \ {0}
         /\ 2 * SignBit(type) = Power[Bits * FieldSize(type)]
         /\ FieldSize(type) = 1 => 2 * SignBit(type) = Base
         /\ FieldSize(type) = 2 => 2 * SignBit(type) = Base * Base
<1>1. FieldSize(type) \in {1, 2} /\ Bits \in Nat \ {0}
  BY TypeFacts, BitsAssumption
<1>2. PICK e \in Nat \ {0} : e = Bits * FieldSize(type)
  BY <1>1
<1>3. e - 1 \in Nat /\ (e - 1) + 1 = e
  OBVIOUS
<1>4. Power[(e - 1) + 1] = 2 * Power[e - 1] /\ Power[e - 1] \in Nat \ {0}
  BY <1>3, PowerIs
<1>5. SignBit(type) = Power[e - 1]
  BY <1>2 DEF SignBit
<1>6. FieldSize(type) = 1 => Power[e] = Base
  BY <1>2, BaseFacts
<1>7. ASSUME FieldSize(type) = 2 PROVE Power[e] = Base * Base
  <2>1. e = Bits + Bits /\ Bits \in Nat
    BY <1>1, <1>2, <1>7
  <2> QED BY <2>1, PowerSum DEF Base
<1> QED BY <1>2, <1>3, <1>4, <1>5, <1>6, <1>7

\* Swapping bytes twice gives them back.
LEMMA Swapped ==
  ASSUME NEW type \in AllTypes, NEW b \in FieldBytes(type)
  PROVE  /\ InOrder(type, b) \in FieldBytes(type)
         /\ Config[type].reversed => InOrder(type, b) = Reverse(b) /\ Reverse(Reverse(b)) = b
         /\ ~Config[type].reversed => InOrder(type, b) = b
<1>1. b \in Seq(Byte) /\ Len(b) = FieldSize(type) /\ Len(b) \in Nat
  BY DEF FieldBytes
<1>2. Reverse(b) \in Seq(Byte) /\ Len(Reverse(b)) = Len(b)
  BY <1>1 DEF Reverse
<1>3. Reverse(Reverse(b)) = b
  <2>1. \A i \in 1..Len(b) : Reverse(b)[i] = b[(Len(b) - i) + 1]
    BY <1>1 DEF Reverse
  <2>2. \A i \in 1..Len(b) : Reverse(Reverse(b))[i] = Reverse(b)[(Len(b) - i) + 1]
    BY <1>1, <1>2 DEF Reverse
  <2>3. \A i \in 1..Len(b) : /\ (Len(b) - i) + 1 \in 1..Len(b)
                            /\ (Len(b) - ((Len(b) - i) + 1)) + 1 = i
    BY <1>1
  <2>4. \A i \in 1..Len(b) : Reverse(Reverse(b))[i] = b[i]
    BY <2>1, <2>2, <2>3
  <2>5. Reverse(Reverse(b)) \in Seq(Byte) /\ Len(Reverse(Reverse(b))) = Len(b)
    <3>1. PICK c \in Seq(Byte) : c = Reverse(b) /\ Len(c) = Len(b)
      BY <1>2
    <3>2. Reverse(c) \in Seq(Byte) /\ Len(Reverse(c)) = Len(c)
      BY DEF Reverse
    <3> QED BY <3>1, <3>2
  <2> QED BY <1>1, <2>4, <2>5
<1> QED BY <1>1, <1>2, <1>3 DEF InOrder, FieldBytes

\* The bytes of a field are a number below 2 * SignBit.
LEMMA UnsignedField ==
  ASSUME NEW type \in AllTypes, NEW b \in FieldBytes(type)
  PROVE  /\ Unsigned(b) \in 0..(2 * SignBit(type) - 1)
         /\ Unsigned(InOrder(type, b)) \in 0..(2 * SignBit(type) - 1)
<1>1. ASSUME NEW c \in FieldBytes(type) PROVE Unsigned(c) \in 0..(2 * SignBit(type) - 1)
  <2>1. c \in Seq(Byte) /\ Len(c) = FieldSize(type) /\ FieldSize(type) \in {1, 2}
    BY TypeFacts DEF FieldBytes
  <2>2. \A i \in 1..FieldSize(type) : c[i] \in 0..(Base - 1)
    BY <2>1, BaseFacts
  <2>3. CASE FieldSize(type) = 1
    <3>1. 1 \in 1..FieldSize(type)
      BY <2>3
    <3>2. c[1] \in 0..(Base - 1)
      BY <2>2, <3>1
    <3>3. Unsigned(c) = c[1] /\ 2 * SignBit(type) = Base
      BY <2>1, <2>3, SignBits, UnsignedIs
    <3> QED BY <3>2, <3>3
  <2>4. CASE FieldSize(type) = 2
    <3>1. PICK x \in 0..(Base - 1), y \in 0..(Base - 1) : x = c[1] /\ y = c[2]
      BY <2>2, <2>4
    <3>2. Base \in Nat
      BY BaseFacts
    <3>3. x + y * Base \in Nat /\ x + y * Base < Base * Base
      <4>1. PICK v \in Nat : v = Base
        BY <3>2
      <4>2. y + 1 <= v /\ x < v /\ y \in Nat /\ x \in Nat
        BY <4>1
      <4>3. (y + 1) * v <= v * v /\ (y + 1) * v = y * v + v /\ y * v \in Nat
        BY <4>2
      <4> QED BY <4>1, <4>2, <4>3
    <3>4. Unsigned(c) = x + y * Base /\ 2 * SignBit(type) = Base * Base
      BY <2>1, <2>4, <3>1, SignBits, UnsignedIs
    <3>5. PICK w \in Nat, u \in Nat : w = Base * Base /\ u = x + y * Base
      BY <3>2, <3>3
    <3>6. u \in 0..(w - 1)
      BY <3>3, <3>5
    <3>7. Unsigned(c) = u /\ 2 * SignBit(type) = w
      BY <3>4, <3>5
    <3> QED BY <3>6, <3>7
  <2> QED BY <2>1, <2>3, <2>4
<1> QED BY <1>1, Swapped

\* The two lowest digits of a number, negative ones included.
Digits(n, v, x, y) == n % (v * v) = x + y * v <=> n % v = x /\ (n \div v) % v = y

LEMMA TwoDigits ==
  ASSUME NEW v \in Nat \ {0}, NEW n \in Int, NEW x \in 0..(v - 1), NEW y \in 0..(v - 1)
  PROVE  Digits(n, v, x, y)
<1>1. PICK q \in Int, r \in 0..(v - 1) : q = n \div v /\ r = n % v /\ n = v * q + r
  OBVIOUS
<1>2. PICK h \in Int, m \in 0..(v - 1) : h = q \div v /\ m = q % v /\ q = v * h + m
  OBVIOUS
<1>3. n = (v * v) * h + (r + m * v)
  <2>1. v * (v * h + m) = (v * v) * h + m * v
    OBVIOUS
  <2>2. v * q = (v * v) * h + m * v
    BY <1>2, <2>1
  <2>3. PICK a \in Int, b \in Int : a = (v * v) * h /\ b = m * v
    OBVIOUS
  <2>4. PICK c \in Int : c = v * q
    OBVIOUS
  <2>5. n = c + r /\ c = a + b
    BY <1>1, <2>2, <2>3, <2>4
  <2>6. n = a + (r + b)
    BY <2>5
  <2> QED BY <2>3, <2>6
<1>4. r + m * v \in 0..(v * v - 1) /\ v * v \in Nat \ {0}
  <2>1. (m + 1) * v <= v * v /\ (m + 1) * v = m * v + v /\ m * v \in Nat
    OBVIOUS
  <2> QED BY <2>1
<1>5. n % (v * v) = r + m * v
  <2>1. PICK w \in Nat \ {0} : w = v * v
    BY <1>4
  <2>2. PICK z \in 0..(w - 1) : z = r + m * v
    BY <1>4, <2>1
  <2>3. (w * h + z) % w = z
    OBVIOUS
  <2> QED BY <1>3, <2>1, <2>2, <2>3
<1>6. r + m * v = x + y * v <=> r = x /\ m = y
  <2>1. CASE m = y
    BY <2>1
  <2>2. CASE m < y
    <3>1. (m + 1) * v <= y * v /\ (m + 1) * v = m * v + v
      BY <2>2
    <3> QED BY <2>2, <3>1
  <2>3. CASE y < m
    <3>1. (y + 1) * v <= m * v /\ (y + 1) * v = y * v + v
      BY <2>3
    <3> QED BY <2>3, <3>1
  <2> QED BY <2>1, <2>2, <2>3
<1> QED BY <1>1, <1>2, <1>5, <1>6 DEF Digits

\* The bytes stored for a number are those that mean it, up to its size (read_typed_value).
LEMMA StoredIs ==
  ASSUME NEW type \in AllTypes, NEW n \in Int, NEW b \in FieldBytes(type)
  PROVE  Stored(type, n) = b <=> n % (2 * SignBit(type)) = Unsigned(InOrder(type, b))
<1> DEFINE F == FieldSize(type)
           little == [i \in 1..F |-> (n \div Power[Bits * (i - 1)]) % Power[Bits]]
<1>1. F \in {1, 2} /\ b \in Seq(Byte) /\ Len(b) = F
  BY TypeFacts DEF FieldBytes
<1>2. Base \in Nat \ {0, 1} /\ Byte = 0..(Base - 1)
  BY BaseFacts
<1>3. Power[Bits * (1 - 1)] = 1 /\ Power[Bits * (2 - 1)] = Base
  BY BitsAssumption, PowerIs DEF Base
<1>4. \A i \in 1..F : little[i] = (n \div Power[Bits * (i - 1)]) % Base
  BY DEF Base
<1>5. n \div 1 = n
  OBVIOUS
<1>6. little[1] = n % Base /\ (F = 2 => little[2] = (n \div Base) % Base)
  BY <1>1, <1>3, <1>4, <1>5
<1>7. n % Base \in Byte /\ (n \div Base) % Base \in Byte
  BY <1>2
<1>8. little \in FieldBytes(type)
  <2>1. \A i \in 1..F : little[i] \in Byte
    BY <1>1, <1>6, <1>7
  <2>2. DOMAIN little = 1..F /\ little = [i \in 1..F |-> little[i]]
    OBVIOUS
  <2> HIDE DEF little
  <2>3. little \in [1..F -> Byte]
    BY <2>1, <2>2
  <2> QED BY <1>1, <2>3 DEF FieldBytes
<1>9. Stored(type, n) = IF Config[type].reversed THEN Reverse(little) ELSE little
  BY DEF Stored
<1> HIDE DEF little
<1>10. Stored(type, n) = b <=> little = InOrder(type, b)
  BY <1>8, <1>9, Swapped, TypeFacts
<1>11. PICK c \in FieldBytes(type) : c = InOrder(type, b)
  BY Swapped
<1>12. c \in Seq(Byte) /\ Len(c) = F
  BY <1>11 DEF FieldBytes
<1>13. \A i \in 1..F : c[i] \in 0..(Base - 1)
  BY <1>2, <1>12
<1>14. little = c <=> \A i \in 1..F : little[i] = c[i]
  BY <1>8, <1>12 DEF FieldBytes
<1>15. CASE F = 1
  <2>1. Unsigned(c) = c[1] /\ 2 * SignBit(type) = Base
    BY <1>12, <1>15, SignBits, UnsignedIs
  <2> QED BY <1>6, <1>10, <1>11, <1>14, <1>15, <2>1
<1>16. CASE F = 2
  <2>1. Unsigned(c) = c[1] + c[2] * Base /\ 2 * SignBit(type) = Base * Base
    BY <1>12, <1>16, SignBits, UnsignedIs
  <2>2. PICK x \in 0..(Base - 1), y \in 0..(Base - 1) : x = c[1] /\ y = c[2]
    BY <1>13, <1>16
  <2>3. n % (Base * Base) = x + y * Base
        <=> n % Base = x /\ (n \div Base) % Base = y
    <3>1. PICK v \in Nat \ {0} : v = Base /\ x \in 0..(v - 1) /\ y \in 0..(v - 1)
      BY <1>2
    <3>2. Digits(n, v, x, y)
      BY <3>1, TwoDigits
    <3> QED BY <3>1, <3>2 DEF Digits
  <2>4. little = c <=> little[1] = x /\ little[2] = y
    BY <1>14, <1>16, <2>2
  <2> QED BY <1>6, <1>10, <1>11, <1>16, <2>1, <2>2, <2>3, <2>4
<1> QED BY <1>1, <1>15, <1>16
=============================================================================
