------------------------------- MODULE Lemmas -------------------------------
(***************************************************************************)
(* Facts about data that several components need: induction over the        *)
(* natural numbers and definition by recursion, stated of sets and          *)
(* functions where the library's theorems take an operator, and the         *)
(* operators of Sorting.                                                    *)
(***************************************************************************)
EXTENDS Sorting, WellFoundedInduction, FiniteSetTheorems, TLAPS

LEMMA LeastNat ==
  ASSUME NEW S \in SUBSET Nat, S # {}
  PROVE  \E m \in S : \A n \in S : m <= n
<1> DEFINE R == {ss \in Nat \X Nat : ss[1] < ss[2]}
<1>1. IsWellFoundedOn(R, Nat)
  BY NatLessThanWellFounded DEF OpToRel
<1>2. \A m, n \in Nat : m < n => <<m, n>> \in R
  OBVIOUS
<1> HIDE DEF R
<1>3. PICK m \in S : \A n \in S : ~ (<<n, m>> \in R)
  BY <1>1, WFMin
<1>4. \A n \in S : ~ (n < m)
  BY <1>2, <1>3
<1> QED BY <1>4

\* what holds of 0 and passes from each number to the next holds of all up to a bound
LEMMA UpTo ==
  ASSUME NEW n \in Nat, NEW S, 0 \in S, \A i \in 0..(n - 1) : i \in S => i + 1 \in S
  PROVE  0..n \subseteq S
<1> DEFINE Bad == {i \in 0..n : i \notin S}
<1> SUFFICES ASSUME Bad # {} PROVE FALSE
  OBVIOUS
<1>1. Bad \in SUBSET Nat
  OBVIOUS
<1>2. PICK m \in Bad : \A i \in Bad : m <= i
  BY <1>1, LeastNat
<1>3. m \in 0..n /\ m # 0
  OBVIOUS
<1>4. m - 1 \in 0..(n - 1)
  BY <1>3
<1>5. m - 1 \in S
  <2> SUFFICES ASSUME m - 1 \notin S PROVE FALSE
    OBVIOUS
  <2>1. m - 1 \in Bad
    BY <1>3, <1>4
  <2> QED BY <1>2, <1>3, <2>1
<1>6. (m - 1) + 1 \in S
  BY <1>4, <1>5
<1> QED BY <1>3, <1>6

(***************************************************************************)
(* What a loop computes: from a first value, by one step for each number.   *)
(***************************************************************************)
Steps(n, V) == [1..n -> [V -> V]]

Computes(s, n, V, base, step) ==
  s \in [0..n -> V] /\ s[0] = base /\ \A k \in 1..n : s[k] = step[k][s[k - 1]]

LEMMA Recursion ==
  ASSUME NEW n \in Nat, NEW V, NEW base, base \in V, NEW step, step \in Steps(n, V)
  PROVE  \E s : Computes(s, n, V, base, step)
<1> USE DEF Steps
<1> DEFINE S == {m \in 0..n : \E s : Computes(s, m, V, base, step)}
<1>1. 0 \in S
  <2> DEFINE s == [k \in 0..0 |-> base]
  <2>1. s \in [0..0 -> V] /\ s[0] = base /\ 1..0 = {}
    OBVIOUS
  <2> HIDE DEF s
  <2>2. Computes(s, 0, V, base, step)
    BY <2>1 DEF Computes
  <2> QED BY <2>2
<1>2. ASSUME NEW m \in 0..(n - 1), m \in S PROVE m + 1 \in S
  <2>1. PICK s : Computes(s, m, V, base, step)
    BY <1>2
  <2> DEFINE t == [k \in 0..(m + 1) |-> IF k = m + 1 THEN step[m + 1][s[m]] ELSE s[k]]
  <2>2. m + 1 \in 1..n /\ m + 1 \in 0..n /\ m \in 0..m /\ (m + 1) - 1 = m
    OBVIOUS
  <2>3. step[m + 1][s[m]] \in V
    BY <2>1, <2>2 DEF Computes
  <2>4. t \in [0..(m + 1) -> V]
    BY <2>1, <2>3 DEF Computes
  <2>5. \A k \in 0..m : t[k] = s[k]
    OBVIOUS
  <2>6. t[m + 1] = step[m + 1][s[m]]
    BY <2>2
  <2> HIDE DEF t
  <2>7. t[0] = base
    BY <2>1, <2>5 DEF Computes
  <2>8. ASSUME NEW k \in 1..(m + 1) PROVE t[k] = step[k][t[k - 1]]
    <3>1. k - 1 \in 0..m /\ t[k - 1] = s[k - 1]
      BY <2>5
    <3>2. CASE k = m + 1
      BY <2>2, <2>6, <3>1, <3>2
    <3>3. CASE k # m + 1
      <4>1. k \in 0..m /\ k \in 1..m
        BY <3>3
      <4> QED BY <2>1, <2>5, <3>1, <4>1 DEF Computes
    <3> QED BY <3>2, <3>3
  <2>9. Computes(t, m + 1, V, base, step)
    BY <2>4, <2>7, <2>8 DEF Computes
  <2> QED BY <2>2, <2>9
<1> HIDE DEF S
<1>3. 0..n \subseteq S
  BY <1>1, <1>2, UpTo
<1> QED BY <1>3 DEF S

(***************************************************************************)
(* Lists in ascending order.                                               *)
(***************************************************************************)
LEMMA RankBounds ==
  ASSUME NEW S \in SUBSET Nat, IsFiniteSet(S), NEW a \in S
  PROVE  /\ Cardinality(S) \in Nat /\ Rank(S, a) \in 1..Cardinality(S)
         /\ \A b \in S : a < b => Rank(S, a) < Rank(S, b)
<1> DEFINE Upto(b) == {c \in S : c <= b}
<1>1. Cardinality(S) \in Nat
  BY FS_CardinalityType
<1>2. \A b \in S : /\ Upto(b) \in SUBSET S /\ IsFiniteSet(Upto(b)) /\ Upto(b) # {}
                  /\ Cardinality(Upto(b)) \in Nat /\ Cardinality(Upto(b)) <= Cardinality(S)
                  /\ Cardinality(Upto(b)) # 0
  <2> SUFFICES ASSUME NEW b \in S
               PROVE  /\ Upto(b) \in SUBSET S /\ IsFiniteSet(Upto(b)) /\ Upto(b) # {}
                      /\ Cardinality(Upto(b)) \in Nat /\ Cardinality(Upto(b)) <= Cardinality(S)
                      /\ Cardinality(Upto(b)) # 0
    OBVIOUS
  <2>1. Upto(b) \in SUBSET S /\ b \in Upto(b)
    OBVIOUS
  <2> HIDE DEF Upto
  <2>2. IsFiniteSet(Upto(b)) /\ Cardinality(Upto(b)) <= Cardinality(S)
    BY <2>1, FS_Subset
  <2> QED BY <2>1, <2>2, FS_CardinalityType, FS_EmptySet
<1>3. ASSUME NEW b \in S, a < b PROVE Cardinality(Upto(a)) < Cardinality(Upto(b))
  <2>a. a \in Nat /\ b \in Nat /\ \A c \in S : c <= a => c <= b
    BY <1>3
  <2>b. b <= b /\ ~ (b <= a)
    BY <1>3, <2>a
  <2>1. Upto(a) \in SUBSET Upto(b) /\ b \in Upto(b) /\ b \notin Upto(a)
    BY <2>a, <2>b
  <2> HIDE DEF Upto
  <2>2. /\ Cardinality(Upto(a)) <= Cardinality(Upto(b))
        /\ Cardinality(Upto(b)) # Cardinality(Upto(a))
    BY <1>2, <2>1, FS_Subset
  <2> QED BY <1>2, <2>2
<1>4. Cardinality(Upto(a)) \in 1..Cardinality(S)
  BY <1>1, <1>2
<1> QED BY <1>1, <1>3, <1>4 DEF Rank

LEMMA AscendingMembers ==
  ASSUME NEW S \in SUBSET Nat, IsFiniteSet(S)
  PROVE  /\ Cardinality(S) \in Nat
         /\ Ascending(S) \in [1..Cardinality(S) -> S]
         /\ Ascending(S) \in Seq(S) /\ Len(Ascending(S)) = Cardinality(S)
         /\ \A a \in S : Rank(S, a) \in 1..Cardinality(S) /\ Ascending(S)[Rank(S, a)] = a
         /\ \A i \in 1..Cardinality(S) : Rank(S, Ascending(S)[i]) = i
<1> DEFINE n == Cardinality(S)
           rank == [a \in S |-> Rank(S, a)]
<1>1. n \in Nat
  BY FS_CardinalityType
<1>2. rank \in Injection(S, 1..n)
  <2>1. rank \in [S -> 1..n]
    BY RankBounds
  <2>2. \A a, b \in S : rank[a] = rank[b] => a = b
    <3> SUFFICES ASSUME NEW a \in S, NEW b \in S, rank[a] = rank[b], a # b PROVE FALSE
      OBVIOUS
    <3>1. a < b \/ b < a
      OBVIOUS
    <3>2. Rank(S, a) \in Nat /\ Rank(S, b) \in Nat
      BY RankBounds
    <3> QED BY <3>1, <3>2, RankBounds
  <2> HIDE DEF rank
  <2> QED BY <2>1, <2>2 DEF Injection, IsInjective
<1>3. rank \in Surjection(S, 1..n)
  <2>1. IsFiniteSet(1..n) /\ Cardinality(1..n) = n
    BY <1>1, FS_Interval
  <2> HIDE DEF rank
  <2> QED BY <1>2, <2>1, FS_Injection
<1>4. \A i \in 1..n : \E a \in S : Rank(S, a) = i
  <2>1. \A i \in 1..n : \E a \in S : rank[a] = i
    <3> HIDE DEF rank
    <3> QED BY <1>3 DEF Surjection
  <2> QED BY <2>1
<1>5. \A a, b \in S : Rank(S, a) = Rank(S, b) => a = b
  <2>1. \A a, b \in S : rank[a] = rank[b] => a = b
    <3> HIDE DEF rank
    <3> QED BY <1>2 DEF Injection, IsInjective
  <2> QED BY <2>1
<1>6. \A i \in 1..n : Ascending(S)[i] \in S /\ Rank(S, Ascending(S)[i]) = i
  BY <1>4 DEF Ascending
<1>7. Ascending(S) \in [1..n -> S]
  BY <1>6 DEF Ascending
<1>8. Ascending(S) \in Seq(S) /\ Len(Ascending(S)) = n
  <2> HIDE DEF n
  <2> QED BY <1>1, <1>7
<1>9. \A a \in S : Rank(S, a) \in 1..n
  BY RankBounds
<1> QED BY <1>1, <1>5, <1>6, <1>7, <1>8, <1>9

\* Ascending lists a set in order.
LEMMA AscendingOrdered ==
  ASSUME NEW S \in SUBSET Nat, IsFiniteSet(S)
  PROVE  Ordered(Ascending(S))
<1> DEFINE n == Cardinality(S)
<1> SUFFICES ASSUME NEW i \in 1..n, NEW j \in 1..n, i < j
             PROVE  Ascending(S)[i] < Ascending(S)[j]
  BY AscendingMembers DEF Ordered
<1> DEFINE a == Ascending(S)[i]
           b == Ascending(S)[j]
<1>1. n \in Nat /\ a \in S /\ b \in S /\ Rank(S, a) = i /\ Rank(S, b) = j
  BY AscendingMembers
<1> HIDE DEF a, b, n
<1>2. ~ (b < a) /\ a # b
  BY <1>1, RankBounds
<1>3. a < b
  BY <1>1, <1>2
<1> QED BY <1>3 DEF a, b

\* whatever is in S and less than an element of seq is an element as well
ClosedBelow(seq, S) ==
  \A i \in DOMAIN seq, a \in S : a < seq[i] => \E j \in DOMAIN seq : seq[j] = a

LEMMA RankInPrefix ==
  ASSUME NEW S \in SUBSET Nat, IsFiniteSet(S), NEW seq \in Seq(S), Ordered(seq),
         ClosedBelow(seq, S), NEW i \in 1..Len(seq)
  PROVE  seq[i] \in S /\ Rank(S, seq[i]) = i
<1> DEFINE U == {b \in S : b <= seq[i]}
           f == [j \in 1..i |-> seq[j]]
<1>1. /\ Len(seq) \in Nat /\ DOMAIN seq = 1..Len(seq)
      /\ \A j \in 1..Len(seq) : seq[j] \in S /\ seq[j] \in Nat
  <2>1. /\ Len(seq) \in Nat /\ DOMAIN seq = 1..Len(seq)
        /\ \A j \in 1..Len(seq) : seq[j] \in S
    OBVIOUS
  <2>2. \A a \in S : a \in Nat
    OBVIOUS
  <2> QED BY <2>1, <2>2
<1>2. \A j \in 1..i : j \in 1..Len(seq) /\ j \in Nat
  BY <1>1
<1>3. \A j, m \in 1..Len(seq) : j < m => seq[j] < seq[m]
  BY <1>1 DEF Ordered
<1>4. f \in [1..i -> U]
  BY <1>1, <1>2, <1>3
<1>5. \A j, m \in 1..i : f[j] = f[m] => j = m
  <2> SUFFICES ASSUME NEW j \in 1..i, NEW m \in 1..i, j < m PROVE f[j] # f[m]
    BY <1>2
  <2> QED BY <1>1, <1>2, <1>3
<1>6. \A b \in U : \E j \in 1..i : f[j] = b
  <2> SUFFICES ASSUME NEW b \in U PROVE \E j \in 1..i : seq[j] = b
    OBVIOUS
  <2>1. b \in S /\ b \in Nat /\ b <= seq[i]
    OBVIOUS
  <2>2. CASE b = seq[i]
    BY <1>1, <2>2
  <2>3. CASE b < seq[i]
    <3>1. PICK j \in 1..Len(seq) : seq[j] = b
      BY <1>1, <2>1, <2>3 DEF ClosedBelow
    <3>2. ~(i < j) /\ j # i
      BY <1>1, <1>3, <2>1, <2>3, <3>1
    <3> QED BY <3>1, <3>2
  <2> QED BY <1>1, <2>1, <2>2, <2>3
<1>7. Cardinality(U) = i
  <2>1. IsFiniteSet(1..i) /\ Cardinality(1..i) = i
    BY FS_Interval
  <2>2. ExistsBijection(1..i, U)
    <3> HIDE DEF f, U
    <3>1. f \in Bijection(1..i, U)
      BY <1>4, <1>5, <1>6 DEF Bijection, Injection, IsInjective, Surjection
    <3> QED BY <3>1 DEF ExistsBijection
  <2> HIDE DEF U
  <2> QED BY <2>1, <2>2, FS_Bijection
<1> QED BY <1>1, <1>7 DEF Rank

\* An ascending list that leaves nothing out before its last element begins Ascending.
LEMMA AscendingPrefix ==
  ASSUME NEW S \in SUBSET Nat, IsFiniteSet(S), NEW seq \in Seq(S), Ordered(seq),
         ClosedBelow(seq, S)
  PROVE  /\ Cardinality(S) \in Nat /\ Len(seq) <= Cardinality(S)
         /\ Ascending(S) \in Seq(S) /\ Len(Ascending(S)) = Cardinality(S)
         /\ seq = SubSeq(Ascending(S), 1, Len(seq))
         /\ Len(seq) = Cardinality(S) => seq = Ascending(S)
<1> DEFINE n == Cardinality(S)
           A == Ascending(S)
<1>1. Len(seq) \in Nat /\ DOMAIN seq = 1..Len(seq)
  OBVIOUS
<1>2. /\ n \in Nat /\ A \in Seq(S) /\ Len(A) = n /\ DOMAIN A = 1..n
      /\ \A a \in S : Rank(S, a) \in 1..n /\ A[Rank(S, a)] = a
  BY AscendingMembers
<1>3. \A i \in 1..Len(seq) : i \in 1..n /\ A[i] = seq[i]
  <2> SUFFICES ASSUME NEW i \in 1..Len(seq) PROVE i \in 1..n /\ A[i] = seq[i]
    OBVIOUS
  <2>1. seq[i] \in S /\ Rank(S, seq[i]) = i
    BY RankInPrefix
  <2> HIDE DEF A, n
  <2> QED BY <1>2, <2>1
<1> HIDE DEF A, n
<1>4. Len(seq) <= n
  BY <1>1, <1>2, <1>3
<1>5. seq = SubSeq(A, 1, Len(seq))
  <2>1. SubSeq(A, 1, Len(seq)) = [i \in 1..Len(seq) |-> A[i]]
    BY <1>1, <1>2, <1>4
  <2>2. seq = [i \in 1..Len(seq) |-> seq[i]]
    BY <1>1
  <2> QED BY <1>1, <1>3, <2>1, <2>2
<1>6. Len(seq) = n => seq = A
  BY <1>1, <1>2, <1>3
<1> QED BY <1>2, <1>4, <1>5, <1>6 DEF A, n

\* An ascending list of all of S is Ascending.
LEMMA AscendingAll ==
  ASSUME NEW S \in SUBSET Nat, IsFiniteSet(S), NEW seq \in Seq(S), Ordered(seq),
         \A a \in S : \E j \in DOMAIN seq : seq[j] = a
  PROVE  ClosedBelow(seq, S) /\ seq = Ascending(S)
<1>1. ClosedBelow(seq, S)
  BY DEF ClosedBelow
<1>2. Len(seq) \in Nat /\ DOMAIN seq = 1..Len(seq)
  OBVIOUS
<1> DEFINE n == Cardinality(S)
           A == Ascending(S)
<1>3. /\ n \in Nat /\ Len(seq) <= n /\ A \in Seq(S) /\ Len(A) = n
      /\ Len(seq) = n => seq = A
  BY <1>1, AscendingPrefix
<1>4. \A i \in 1..n : A[i] \in S /\ Rank(S, A[i]) = i
  BY AscendingMembers
<1> HIDE DEF A, n
<1>5. ASSUME Len(seq) < n PROVE FALSE
  <2> DEFINE l == Len(seq)
  <2>a. n \in Nat /\ l \in Nat /\ l < n
    BY <1>2, <1>3, <1>5
  <2> HIDE DEF l
  <2>0. n \in 1..n
    BY <2>a
  <2>1. A[n] \in S /\ Rank(S, A[n]) = n
    BY <1>4, <2>0
  <2>2. PICK j \in 1..Len(seq) : seq[j] = A[n]
    BY <1>2, <2>1
  <2>3. Rank(S, seq[j]) = j
    BY <1>1, RankInPrefix
  <2>4. j = n
    BY <2>1, <2>2, <2>3
  <2>5. n \in 1..l
    BY <2>2, <2>4 DEF l
  <2> QED BY <2>a, <2>5
<1> QED BY <1>1, <1>2, <1>3, <1>5 DEF A, n

\* Kept removes elements and changes nothing else.
LEMMA KeptMembers ==
  ASSUME NEW T, NEW seq \in Seq(T), NEW S
  PROVE  /\ Kept(seq, S) \in Seq(T)
         /\ \A j \in DOMAIN Kept(seq, S) :
              Kept(seq, S)[j] \in S /\ \E i \in DOMAIN seq : Kept(seq, S)[j] = seq[i]
         /\ \A i \in DOMAIN seq : seq[i] \in S =>
              \E j \in DOMAIN Kept(seq, S) : Kept(seq, S)[j] = seq[i]
         /\ Ordered(seq) => Ordered(Kept(seq, S))
<1> DEFINE D == {i \in DOMAIN seq : seq[i] \in S}
           n == Cardinality(D)
           at == Ascending(D)
<1>1. D \in SUBSET Nat /\ IsFiniteSet(D) /\ D \subseteq DOMAIN seq /\ DOMAIN seq = 1..Len(seq)
  <2>1. Len(seq) \in Nat /\ DOMAIN seq = 1..Len(seq)
    OBVIOUS
  <2>2. IsFiniteSet(1..Len(seq))
    BY <2>1, FS_Interval
  <2> QED BY <2>1, <2>2, FS_Subset
<1>2. Kept(seq, S) = [j \in DOMAIN at |-> seq[at[j]]]
  BY DEF Kept
<1>3. \A i \in D : i \in DOMAIN seq /\ seq[i] \in S
  OBVIOUS
<1>4. \A i \in DOMAIN seq : seq[i] \in S => i \in D
  OBVIOUS
<1> HIDE DEF D
<1>5. n \in Nat /\ at \in [1..n -> D]
  BY <1>1, AscendingMembers
<1>6. \A i \in D : \E j \in 1..n : at[j] = i
  BY <1>1, AscendingMembers
<1>7. Ordered(at)
  BY <1>1, AscendingOrdered
<1> HIDE DEF at, n
<1>8. Kept(seq, S) = [j \in 1..n |-> seq[at[j]]]
  BY <1>2, <1>5
<1>9. Kept(seq, S) \in Seq(T)
  <2>1. \A i \in DOMAIN seq : seq[i] \in T
    OBVIOUS
  <2>2. Kept(seq, S) \in [1..n -> T]
    BY <1>3, <1>5, <1>8, <2>1
  <2> QED BY <1>5, <2>2
<1>10. \A j \in 1..n : Kept(seq, S)[j] = seq[at[j]] /\ at[j] \in D
  BY <1>5, <1>8
<1>11. DOMAIN Kept(seq, S) = 1..n
  BY <1>8
<1>12. Ordered(seq) => Ordered(Kept(seq, S))
  BY <1>1, <1>5, <1>7, <1>10, <1>11 DEF Ordered
<1>13. \A i \in DOMAIN seq : seq[i] \in S =>
         \E j \in DOMAIN Kept(seq, S) : Kept(seq, S)[j] = seq[i]
  BY <1>4, <1>6, <1>10, <1>11
<1> QED BY <1>3, <1>9, <1>10, <1>11, <1>12, <1>13
=============================================================================
