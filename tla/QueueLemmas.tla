----------------------------- MODULE QueueLemmas -----------------------------
(***************************************************************************)
(* Facts about sequences used as queues: what they hold after a put and a  *)
(* take, and the order of their elements; and about counting who is in a   *)
(* state when one moves.                                                   *)
(***************************************************************************)
EXTENDS Queues, Functions, FiniteSetTheorems, FunctionTheorems, TLAPS

\* How a set's size changes if at most one element enters or leaves it.
LEMMA OneMoves ==
  ASSUME NEW S, NEW T, IsFiniteSet(S), NEW x,
         \A y : y # x => (y \in S <=> y \in T)
  PROVE  /\ IsFiniteSet(T) /\ Cardinality(S) \in Nat /\ Cardinality(T) \in Nat
         /\ Cardinality(T) = Cardinality(S) + (IF x \in T \ S THEN 1 ELSE 0)
                                           - (IF x \in S \ T THEN 1 ELSE 0)
<1>1. CASE x \in T \ S
  <2>1. T = S \cup {x}
    BY <1>1
  <2> QED BY <1>1, <2>1, FS_AddElement, FS_CardinalityType
<1>2. CASE x \in S \ T
  <2>1. T = S \ {x}
    BY <1>2
  <2>2. IsFiniteSet(T) /\ Cardinality(T) = Cardinality(S) - 1
    BY <1>2, <2>1, FS_RemoveElement
  <2>3. Cardinality(S) \in Nat /\ Cardinality(T) \in Nat
    BY <2>2, FS_CardinalityType
  <2>4. x \in S \ T /\ x \notin T \ S
    BY <1>2
  <2> QED BY <2>2, <2>3, <2>4
<1>3. CASE x \in S <=> x \in T
  <2>1. T = S
    BY <1>3
  <2> QED BY <1>3, <2>1, FS_CardinalityType
<1> QED BY <1>1, <1>2, <1>3

\* A function has no more values than arguments, a queue no more elements than
\* its length, and a union no more members than its parts.
LEMMA ImageSize ==
  ASSUME NEW S, IsFiniteSet(S), NEW T, NEW f \in [S -> T]
  PROVE  /\ IsFiniteSet(Range(f)) /\ Cardinality(Range(f)) \in Nat
         /\ Cardinality(Range(f)) <= Cardinality(S)
<1>1. f \in Surjection(S, Range(f))
  BY Fun_RangeProperties
<1> QED BY <1>1, FS_Surjection, FS_CardinalityType

LEMMA RangeSize ==
  ASSUME NEW S, NEW s \in Seq(S)
  PROVE  /\ IsFiniteSet(Range(s)) /\ Cardinality(Range(s)) \in Nat
         /\ Cardinality(Range(s)) <= Len(s)
<1>1. s \in [1 .. Len(s) -> S] /\ Len(s) \in Nat
  OBVIOUS
<1>2. /\ IsFiniteSet(1 .. Len(s))
      /\ Cardinality(1 .. Len(s)) = IF 1 > Len(s) THEN 0 ELSE Len(s) - 1 + 1
  <2>1. 1 \in Int /\ Len(s) \in Int
    BY <1>1
  <2> QED BY <2>1, FS_Interval, Zenon
<1>3. Cardinality(1 .. Len(s)) = Len(s)
  BY <1>1, <1>2
<1> QED BY <1>1, <1>2, <1>3, ImageSize

LEMMA PartsSize ==
  ASSUME NEW S, NEW T, IsFiniteSet(S), IsFiniteSet(T), NEW R \in SUBSET (S \cup T)
  PROVE  /\ IsFiniteSet(R) /\ Cardinality(R) \in Nat
         /\ Cardinality(R) <= Cardinality(S) + Cardinality(T)
<1>1. /\ IsFiniteSet(S \cup T) /\ IsFiniteSet(S \cap T)
      /\ Cardinality(S \cup T) = Cardinality(S) + Cardinality(T) - Cardinality(S \cap T)
  BY FS_Union, FS_Subset
<1>2. /\ Cardinality(S) \in Nat /\ Cardinality(T) \in Nat
      /\ Cardinality(S \cap T) \in Nat /\ Cardinality(S \cup T) \in Nat
  BY <1>1, FS_CardinalityType
<1>3. /\ IsFiniteSet(R) /\ Cardinality(R) \in Nat
      /\ Cardinality(R) <= Cardinality(S \cup T)
  BY <1>1, FS_Subset, FS_CardinalityType
<1> QED BY <1>1, <1>2, <1>3

\* What a queue holds after a put and after a take.
LEMMA RangeAppend ==
  ASSUME NEW S, NEW s \in Seq(S), NEW x \in S
  PROVE  Range(Append(s, x)) = Range(s) \cup {x}
<1>1. DOMAIN s = 1 .. Len(s) /\ DOMAIN Append(s, x) = 1 .. Len(s) + 1
    OBVIOUS
<1>2. Append(s, x)[Len(s) + 1] = x
    OBVIOUS
<1>3. \A n \in DOMAIN s : Append(s, x)[n] = s[n]
    OBVIOUS
<1>4. DOMAIN Append(s, x) = DOMAIN s \cup {Len(s) + 1}
    BY <1>1
<1> QED
    BY <1>2, <1>3, <1>4, Zenon DEF Range

LEMMA RangeTail ==
  ASSUME NEW S, NEW s \in Seq(S), s # << >>
  PROVE  /\ Head(s) \in S /\ Tail(s) \in Seq(S)
         /\ Range(s) = Range(Tail(s)) \cup {Head(s)}
<1>1. /\ Len(s) \in Nat \ {0} /\ DOMAIN s = 1 .. Len(s)
      /\ Head(s) = s[1] /\ Head(s) \in S
      /\ Tail(s) \in Seq(S)
    OBVIOUS
<1>2. DOMAIN Tail(s) = 1 .. Len(s) - 1
    BY <1>1
<1>3. \A i \in 1 .. Len(s) - 1 : Tail(s)[i] = s[i + 1]
    BY <1>1
<1>4. ASSUME NEW x \in Range(s) PROVE x \in Range(Tail(s)) \cup {Head(s)}
  <2>1. PICK i \in 1 .. Len(s) : s[i] = x
    BY <1>1, <1>4 DEF Range
  <2>2. CASE i = 1
    BY <1>1, <2>1, <2>2
  <2>3. CASE i # 1
    <3>1. i - 1 \in DOMAIN Tail(s) /\ Tail(s)[i - 1] = x
      BY <1>1, <1>2, <1>3, <2>1, <2>3
    <3> QED
      BY <3>1 DEF Range
  <2> QED
    BY <2>2, <2>3
<1>5. ASSUME NEW x \in Range(Tail(s)) PROVE x \in Range(s)
  <2>1. PICK i \in 1 .. Len(s) - 1 : Tail(s)[i] = x
    BY <1>2, <1>5 DEF Range
  <2>2. i + 1 \in DOMAIN s /\ s[i + 1] = x
    BY <1>1, <1>3, <2>1
  <2> QED
    BY <2>2 DEF Range
<1>6. Head(s) \in Range(s)
    BY <1>1 DEF Range
<1> QED
    BY <1>1, <1>4, <1>5, <1>6

\* Two queues in a row, when the second is put to, or moves its head over.
LEMMA ConcatAppend ==
  ASSUME NEW S, NEW d \in Seq(S), NEW s \in Seq(S), NEW x \in S
  PROVE  d \o Append(s, x) = Append(d \o s, x)
OBVIOUS

LEMMA ConcatMove ==
  ASSUME NEW S, NEW d \in Seq(S), NEW s \in Seq(S), s # << >>
  PROVE  Append(d, Head(s)) \o Tail(s) = d \o s
OBVIOUS

LEMMA RangeConcat ==
  ASSUME NEW S, NEW d \in Seq(S), NEW s \in Seq(S)
  PROVE  Range(d \o s) = Range(d) \cup Range(s)
<1>1. /\ DOMAIN d = 1 .. Len(d) /\ DOMAIN s = 1 .. Len(s)
      /\ DOMAIN (d \o s) = 1 .. Len(d) + Len(s)
      /\ Len(d) \in Nat /\ Len(s) \in Nat
      /\ \A i \in 1 .. Len(d) : (d \o s)[i] = d[i]
    OBVIOUS
<1>2. \A i \in 1 .. Len(s) : (d \o s)[Len(d) + i] = s[i]
    OBVIOUS
<1>3. ASSUME NEW x \in Range(d \o s) PROVE x \in Range(d) \cup Range(s)
  <2>1. PICK i \in 1 .. Len(d) + Len(s) : (d \o s)[i] = x
    BY <1>1, <1>3 DEF Range
  <2>2. CASE i \in 1 .. Len(d)
    BY <1>1, <2>1, <2>2 DEF Range
  <2>3. CASE i \notin 1 .. Len(d)
    <3>1. i - Len(d) \in DOMAIN s /\ s[i - Len(d)] = x
      BY <1>1, <1>2, <2>1, <2>3
    <3> QED
      BY <3>1 DEF Range
  <2> QED
    BY <2>2, <2>3
<1>4. ASSUME NEW x \in Range(d) PROVE x \in Range(d \o s)
  <2>1. PICK i \in 1 .. Len(d) : d[i] = x
    BY <1>1, <1>4 DEF Range
  <2>2. i \in DOMAIN (d \o s) /\ (d \o s)[i] = x
    BY <1>1, <2>1
  <2> QED
    BY <2>2 DEF Range
<1>5. ASSUME NEW x \in Range(s) PROVE x \in Range(d \o s)
  <2>1. PICK i \in 1 .. Len(s) : s[i] = x
    BY <1>1, <1>5 DEF Range
  <2>2. Len(d) + i \in DOMAIN (d \o s) /\ (d \o s)[Len(d) + i] = x
    BY <1>1, <1>2, <2>1
  <2> QED
    BY <2>2 DEF Range
<1> QED
    BY <1>3, <1>4, <1>5

LEMMA IncreasingAppend ==
  ASSUME NEW s \in Seq(Nat), NEW x \in Nat, Increasing(s),
         \A y \in Range(s) : y < x
  PROVE  Increasing(Append(s, x))
<1>1. /\ DOMAIN s = 1 .. Len(s) /\ DOMAIN Append(s, x) = 1 .. Len(s) + 1
      /\ Append(s, x)[Len(s) + 1] = x /\ Len(s) \in Nat
      /\ \A n \in 1 .. Len(s) : Append(s, x)[n] = s[n]
    OBVIOUS
<1>2. \A n \in 1 .. Len(s) : s[n] < x
    BY <1>1 DEF Range
<1>3. SUFFICES ASSUME NEW i \in 1 .. Len(s) + 1, NEW j \in 1 .. Len(s) + 1, i < j
               PROVE  Append(s, x)[i] < Append(s, x)[j]
    BY <1>1 DEF Increasing
<1>4. i \in 1 .. Len(s)
    BY <1>1, <1>3
<1>5. CASE j = Len(s) + 1
    BY <1>1, <1>2, <1>4, <1>5
<1>6. CASE j # Len(s) + 1
  <2>1. j \in 1 .. Len(s)
    BY <1>1, <1>6
  <2> QED
    BY <1>1, <1>3, <1>4, <2>1 DEF Increasing
<1> QED
    BY <1>5, <1>6

\* What comes first in an increasing queue is smaller, and the other way round.
LEMMA IncreasingConcat ==
  ASSUME NEW d \in Seq(Nat), NEW s \in Seq(Nat), Increasing(d \o s)
  PROVE  /\ Increasing(d)
         /\ \A x \in Range(d) : \A y \in Range(s) : x < y
<1>1. /\ DOMAIN d = 1 .. Len(d) /\ DOMAIN s = 1 .. Len(s)
      /\ DOMAIN (d \o s) = 1 .. Len(d) + Len(s)
      /\ Len(d) \in Nat /\ Len(s) \in Nat
      /\ \A i \in 1 .. Len(d) : (d \o s)[i] = d[i]
    OBVIOUS
<1>2. \A i \in 1 .. Len(s) : (d \o s)[Len(d) + i] = s[i]
    OBVIOUS
<1>3. Increasing(d)
  <2>1. SUFFICES ASSUME NEW i \in 1 .. Len(d), NEW j \in 1 .. Len(d), i < j
                 PROVE  d[i] < d[j]
    BY <1>1 DEF Increasing
  <2>2. i \in DOMAIN (d \o s) /\ j \in DOMAIN (d \o s)
    BY <1>1
  <2>3. (d \o s)[i] < (d \o s)[j]
    BY <2>1, <2>2 DEF Increasing
  <2> QED
    BY <1>1, <2>3
<1>4. ASSUME NEW x \in Range(d), NEW y \in Range(s) PROVE x < y
  <2>1. PICK i \in 1 .. Len(d) : d[i] = x
    BY <1>1, <1>4 DEF Range
  <2>2. PICK j \in 1 .. Len(s) : s[j] = y
    BY <1>1, <1>4 DEF Range
  <2>3. i \in DOMAIN (d \o s) /\ Len(d) + j \in DOMAIN (d \o s) /\ i < Len(d) + j
    BY <1>1
  <2>4. (d \o s)[i] < (d \o s)[Len(d) + j]
    BY <2>3 DEF Increasing
  <2> QED
    BY <1>1, <1>2, <2>1, <2>2, <2>4
<1> QED
    BY <1>3, <1>4

\* A prefix stays one when a number greater than all comes in, whether the
\* queue is complete and gets it or has ended before it.
LEMMA PrefixKept ==
  ASSUME NEW s, NEW D \in SUBSET Nat, NEW n \in Nat, PrefixOf(s, D),
         \A i \in D : i < n
  PROVE  PrefixOf(s, D \cup {n})
<1>1. Range(s) \subseteq D
    BY DEF PrefixOf
<1>2. ASSUME NEW i \in Range(s), NEW j \in D \cup {n}, j < i PROVE j \in D
  <2>1. i \in Nat /\ i < n
    BY <1>1
  <2>2. j # n
    BY <1>2, <2>1
  <2> QED
    BY <2>2
<1> QED
    BY <1>1, <1>2 DEF PrefixOf

LEMMA PrefixGrows ==
  ASSUME NEW s \in Seq(Nat), NEW D \in SUBSET Nat, NEW n \in Nat,
         Increasing(s), Range(s) = D, \A i \in D : i < n
  PROVE  /\ PrefixOf(Append(s, n), D \cup {n})
         /\ Range(Append(s, n)) = D \cup {n}
<1>1. Range(Append(s, n)) = D \cup {n}
    BY RangeAppend
<1>2. Increasing(Append(s, n))
    BY IncreasingAppend
<1> QED
    BY <1>1, <1>2 DEF PrefixOf

\* What comes first in a prefix is one too.
LEMMA PrefixCut ==
  ASSUME NEW d \in Seq(Nat), NEW s \in Seq(Nat), NEW D \in SUBSET Nat,
         PrefixOf(d \o s, D)
  PROVE  PrefixOf(d, D)
<1>1. /\ Increasing(d)
      /\ \A x \in Range(d) : \A y \in Range(s) : x < y
    BY IncreasingConcat DEF PrefixOf
<1>2. Range(d \o s) = Range(d) \cup Range(s)
    BY RangeConcat
<1>3. ASSUME NEW i \in Range(d), NEW j \in D, j < i PROVE j \in Range(d)
  <2>1. j \in Range(d) \cup Range(s) /\ i \in D
    BY <1>2, <1>3 DEF PrefixOf
  <2>2. j \in Range(s) => i < j
    BY <1>1
  <2>3. i \in Nat /\ j \in Nat
    BY <2>1
  <2> QED
    BY <1>3, <2>1, <2>2, <2>3
<1> QED
    BY <1>1, <1>2, <1>3 DEF PrefixOf

\* How often an element is in a queue, after a put and after a take.
LEMMA OccurrencesType ==
  ASSUME NEW S, NEW s \in Seq(S), NEW m
  PROVE  IsFiniteSet({i \in DOMAIN s : s[i] = m}) /\ Occurrences(m, s) \in Nat
<1>1. IsFiniteSet(1 .. Len(s))
    BY FS_Interval
<1>2. IsFiniteSet({i \in DOMAIN s : s[i] = m})
    BY <1>1, FS_Subset
<1> QED
    BY <1>2, FS_CardinalityType DEF Occurrences

LEMMA OccurrencesEmpty == \A m : Occurrences(m, << >>) = 0
<1>1. \A m : {i \in DOMAIN << >> : << >>[i] = m} = {}
    OBVIOUS
<1> QED
    BY <1>1, FS_EmptySet DEF Occurrences

LEMMA OccurrencesAppend ==
  ASSUME NEW S, NEW s \in Seq(S), NEW x \in S, NEW m
  PROVE  Occurrences(m, Append(s, x)) =
           Occurrences(m, s) + (IF x = m THEN 1 ELSE 0)
<1> DEFINE I == {i \in DOMAIN s : s[i] = m}
           J == {i \in DOMAIN Append(s, x) : Append(s, x)[i] = m}
           n == Len(s) + 1
<1>1. /\ DOMAIN s = 1 .. Len(s) /\ DOMAIN Append(s, x) = 1 .. n
      /\ Len(s) \in Nat /\ Append(s, x)[n] = x
      /\ \A i \in 1 .. Len(s) : Append(s, x)[i] = s[i]
    OBVIOUS
<1>2. n \notin I
    BY <1>1
<1>3. /\ Occurrences(m, s) = Cardinality(I)
      /\ Occurrences(m, Append(s, x)) = Cardinality(J)
    BY DEF Occurrences
<1>4. IsFiniteSet(I) /\ Occurrences(m, s) \in Nat
    BY OccurrencesType
<1>5. CASE x = m
  <2>1. J = I \cup {n}
    BY <1>1, <1>5
  <2>2. Cardinality(I \cup {n}) = Cardinality(I) + 1
    BY <1>2, <1>4, FS_AddElement
  <2> HIDE DEF I, J
  <2> QED
    BY <1>3, <1>5, <2>1, <2>2
<1>6. CASE x # m
  <2>1. J = I
    BY <1>1, <1>6
  <2> HIDE DEF I, J
  <2> QED
    BY <1>3, <1>4, <1>6, <2>1
<1> QED
    BY <1>5, <1>6

LEMMA OccurrencesTail ==
  ASSUME NEW S, NEW s \in Seq(S), s # << >>, NEW m
  PROVE  Occurrences(m, s) =
           Occurrences(m, Tail(s)) + (IF Head(s) = m THEN 1 ELSE 0)
<1> DEFINE I == {i \in DOMAIN s : s[i] = m}
           J == {i \in DOMAIN Tail(s) : Tail(s)[i] = m}
           K == I \ {1}
           f == [i \in J |-> i + 1]
<1>1. /\ Len(s) \in Nat \ {0} /\ DOMAIN s = 1 .. Len(s)
      /\ DOMAIN Tail(s) = 1 .. Len(s) - 1
      /\ \A i \in 1 .. Len(s) - 1 : Tail(s)[i] = s[i + 1]
      /\ Head(s) = s[1] /\ Tail(s) \in Seq(S)
    OBVIOUS
<1>2. f \in Bijection(J, K)
  <2>1. f \in [J -> K]
    BY <1>1
  <2>2. \A a, b \in J : f[a] = f[b] => a = b
    BY <1>1
  <2>3. \A t \in K : \E j \in J : f[j] = t
    <3> TAKE t \in K
    <3>1. t - 1 \in J /\ f[t - 1] = t
      BY <1>1
    <3> QED
      BY <3>1
  <2> QED
    BY <2>1, <2>2, <2>3, Fun_IsBij
<1>3. IsFiniteSet(J) /\ IsFiniteSet(I)
    BY <1>1, OccurrencesType
<1>4. Cardinality(K) = Cardinality(J)
    BY <1>2, <1>3, FS_Bijection DEF ExistsBijection
<1>5. 1 \in I <=> Head(s) = m
    BY <1>1
<1>6. Cardinality(K) = IF 1 \in I THEN Cardinality(I) - 1 ELSE Cardinality(I)
    BY <1>3, FS_RemoveElement
<1>7. Cardinality(I) \in Nat
    BY <1>3, FS_CardinalityType
<1>8. /\ Occurrences(m, s) = Cardinality(I)
      /\ Occurrences(m, Tail(s)) = Cardinality(J)
    BY DEF Occurrences
<1>9. Cardinality(J) \in Nat
    BY <1>3, FS_CardinalityType
<1> HIDE DEF I, J, K, f
<1> QED
    BY <1>4, <1>5, <1>6, <1>7, <1>8, <1>9
=============================================================================
