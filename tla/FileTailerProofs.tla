-------------------------- MODULE FileTailerProofs --------------------------
(***************************************************************************)
(* Theorems about FileTailer, for any number of files, any lengths of      *)
(* lines and any chunk limit.                                              *)
(***************************************************************************)
EXTENDS FileTailer, FiniteSetTheorems, FunctionTheorems, SequenceTheorems, NaturalsInduction,
        WellFoundedInduction, TLAPS

-----------------------------------------------------------------------------
(* The inductive invariant *)

\* The path, as long as no poll was torn: a file that is not followed yet will
\* be told from the one that is.
PathInv ==
  /\ follows <= file
  /\ known = None => offset = 0
  /\ known # None => (known = 0 <=> inode = 0)
  /\ known # None /\ follows = file => inode = known /\ offset <= size
  /\ stage = "read" => known # None /\ follows = file
  /\ follows = file \/ inode # known \/ offset = 0 \/ size < offset

\* The offset stands behind q lines and r more bytes of the file followed; the
\* buffer holds these bytes and the last line delivered is the q-th, or one of
\* an earlier file.
Behind(q, r) ==
  LET start == q * LineLen[follows]
  IN  /\ r < LineLen[follows] /\ offset = start + r
      /\ buffer = [i \in 1..r |-> <<follows, start + i>>]
      /\ q > 0 => delivered # <<>> /\ delivered[Len(delivered)] = Line(follows, q)
      /\ q = 0 /\ delivered # <<>> =>
           \E f \in 1..(follows - 1), n \in 1..MaxSize :
             <<f, n>> \in LineIds /\ delivered[Len(delivered)] = Line(f, n)

BufferInv == \E q, r \in 0..MaxSize : Behind(q, r)

RightInv == ~torn => PathInv /\ BufferInv /\ WholeLines /\ InTurn

-----------------------------------------------------------------------------
(* Division *)

LEMMA LeastNumber ==
  ASSUME NEW T, T \subseteq Nat, T # {}
  PROVE  \E x \in T : \A y \in T : x <= y
<1>1. PICK x \in T : \A y \in T : ~ (<<y, x>> \in OpToRel(<, Nat))
  BY NatLessThanWellFounded, WFMin
<1>2. \A y \in T : ~(y < x)
  BY <1>1 DEF OpToRel
<1>3. QED
  BY <1>2

LEMMA Times ==
  ASSUME NEW a \in Int, NEW b \in Int, NEW L \in Nat \ {0}
  PROVE  /\ a * L \in Int
         /\ (a + b) * L = a * L + b * L
         /\ a < b <=> a * L < b * L
         /\ a * L = b * L => a = b
         /\ a \in Nat => a * L \in Nat /\ a <= a * L
OBVIOUS

LEMMA Division ==
  ASSUME NEW m \in Nat, NEW L \in Nat \ {0}
  PROVE  \E t \in 0..m : t * L <= m /\ m < (t + 1) * L
<1> DEFINE T == {x \in Nat : m < x * L}
<1>1. m + 1 \in T
  <2>1. m + 1 <= (m + 1) * L
    BY Times
  <2>2. QED
    BY <2>1
<1>2. PICK x \in T : \A y \in T : x <= y
  BY <1>1, LeastNumber
<1>3. x # 0
  BY <1>2
<1>4. x - 1 \in 0..m /\ (x - 1) + 1 = x
  BY <1>1, <1>2, <1>3
<1>5. (x - 1) \notin T /\ (x - 1) * L \in Int
  BY <1>2, <1>4, Times
<1>6. (x - 1) * L <= m
  BY <1>4, <1>5
<1>7. QED
  BY <1>2, <1>4, <1>6

LEMMA Remainder ==
  ASSUME NEW n \in Int, NEW L \in Nat \ {0}
  PROVE  n % L = 0 <=> \E j \in Int : n = j * L
<1>1. ASSUME n % L = 0 PROVE \E t \in Int : n = t * L
  BY <1>1
<1>2. ASSUME NEW j \in Int, n = j * L PROVE n % L = 0
  <2>1. 0 \in 0..(L - 1) /\ n = (j * L) + 0
    BY <1>2
  <2>2. QED
    BY <2>1
<1>3. QED
  BY <1>1, <1>2

-----------------------------------------------------------------------------
(* The k-th element of a set of places *)

UpTo(N, i) == {m \in N : m <= i}
Count(N, i) == Cardinality(UpTo(N, i))

LEMMA Counting ==
  ASSUME NEW top \in Nat, NEW N, \A m \in N : m \in Nat /\ 1 <= m /\ m <= top
  PROVE  /\ IsFiniteSet(N) /\ Cardinality(N) \in Nat
         /\ Count(N, 0) = 0 /\ Count(N, top) = Cardinality(N)
         /\ \A i \in Nat : Count(N, i) \in Nat
         /\ \A i \in Nat : i + 1 \in N => Count(N, i + 1) = Count(N, i) + 1
         /\ \A i \in Nat : i + 1 \notin N => Count(N, i + 1) = Count(N, i)
         /\ \A i, j \in Nat : i <= j => Count(N, i) <= Count(N, j)
         /\ \A i \in Nat, j \in N : i < j => Count(N, i) < Count(N, j)
<1>1. IsFiniteSet(N) /\ Cardinality(N) \in Nat
  <2>1. IsFiniteSet(1..top)
    BY FS_Interval
  <2>2. N \in SUBSET (1..top)
    OBVIOUS
  <2>3. IsFiniteSet(N)
    BY <2>1, <2>2, FS_Subset
  <2>4. QED
    BY <2>3, FS_CardinalityType
<1>2. \A i : IsFiniteSet(UpTo(N, i)) /\ Cardinality(UpTo(N, i)) \in Nat
  <2> SUFFICES ASSUME NEW i PROVE IsFiniteSet(UpTo(N, i)) /\ Cardinality(UpTo(N, i)) \in Nat
    OBVIOUS
  <2>1. UpTo(N, i) \in SUBSET N
    BY DEF UpTo
  <2>2. IsFiniteSet(UpTo(N, i))
    BY <1>1, <2>1, FS_Subset
  <2>3. QED
    BY <2>2, FS_CardinalityType
<1>3. UpTo(N, 0) = {} /\ UpTo(N, top) = N
  BY DEF UpTo
<1>4. Count(N, 0) = 0 /\ Count(N, top) = Cardinality(N)
  BY <1>3, FS_EmptySet DEF Count
<1>5. ASSUME NEW i \in Nat
      PROVE  /\ i + 1 \in N => Count(N, i + 1) = Count(N, i) + 1
             /\ i + 1 \notin N => Count(N, i + 1) = Count(N, i)
  <2>1. CASE i + 1 \in N
    <3>1. UpTo(N, i + 1) = UpTo(N, i) \cup {i + 1} /\ i + 1 \notin UpTo(N, i)
      BY <2>1 DEF UpTo
    <3>2. Cardinality(UpTo(N, i + 1)) = Cardinality(UpTo(N, i)) + 1
      BY <1>2, <3>1, FS_AddElement
    <3>3. QED
      BY <2>1, <3>2 DEF Count
  <2>2. CASE i + 1 \notin N
    <3>1. UpTo(N, i + 1) = UpTo(N, i)
      BY <2>2 DEF UpTo
    <3>2. QED
      BY <2>2, <3>1 DEF Count
  <2>3. QED
    BY <2>1, <2>2
<1>6. ASSUME NEW i \in Nat, NEW j \in Nat, i <= j
      PROVE  Count(N, i) <= Count(N, j)
  <2>1. UpTo(N, i) \in SUBSET UpTo(N, j)
    BY <1>6 DEF UpTo
  <2>2. Cardinality(UpTo(N, i)) <= Cardinality(UpTo(N, j))
    BY <1>2, <2>1, FS_Subset
  <2>3. QED
    BY <2>2 DEF Count
<1>7. ASSUME NEW i \in Nat, NEW j \in N, i < j
      PROVE  Count(N, i) < Count(N, j)
  <2>1. j \in Nat /\ j - 1 \in Nat /\ i <= j - 1 /\ (j - 1) + 1 = j
    BY <1>7
  <2>2. Count(N, i) <= Count(N, j - 1)
    BY <1>6, <2>1
  <2>3. Count(N, j) = Count(N, j - 1) + 1
    BY <1>5, <2>1
  <2>4. Count(N, i) \in Nat /\ Count(N, j - 1) \in Nat
    BY <1>2 DEF Count
  <2>5. QED
    BY <2>2, <2>3, <2>4
<1>8. \A i \in Nat : Count(N, i) \in Nat
  BY <1>2 DEF Count
<1>9. QED
  BY <1>1, <1>4, <1>5, <1>6, <1>7, <1>8

\* Every number up to the size of the set is reached.
LEMMA KthExists ==
  ASSUME NEW top \in Nat, NEW N, \A m \in N : m \in Nat /\ 1 <= m /\ m <= top,
         NEW k \in 1..Cardinality(N)
  PROVE  \E i \in N : Count(N, i) = k
<1> DEFINE T == {i \in Nat : k <= Count(N, i)}
<1>1. /\ Count(N, 0) = 0 /\ Count(N, top) = Cardinality(N) /\ Cardinality(N) \in Nat
      /\ \A i \in Nat : Count(N, i) \in Nat
      /\ \A i \in Nat : i + 1 \in N => Count(N, i + 1) = Count(N, i) + 1
      /\ \A i \in Nat : i + 1 \notin N => Count(N, i + 1) = Count(N, i)
  BY Counting
<1>2. k \in Nat /\ k >= 1 /\ k <= Cardinality(N)
  BY <1>1
<1>3. top \in T
  BY <1>1, <1>2
<1>4. PICK i \in T : \A j \in T : i <= j
  <2>1. T \subseteq Nat /\ T # {}
    BY <1>3
  <2>2. QED
    BY <2>1, LeastNumber
<1>5. i # 0
  BY <1>1, <1>2, <1>4
<1>6. i - 1 \in Nat /\ (i - 1) + 1 = i
  BY <1>4, <1>5
<1>7. ~(k <= Count(N, i - 1))
  BY <1>4, <1>6
<1>8. /\ i \in N => Count(N, i) = Count(N, i - 1) + 1
      /\ i \notin N => Count(N, i) = Count(N, i - 1)
  BY <1>1, <1>6
<1>9. Count(N, i - 1) \in Nat /\ k <= Count(N, i)
  BY <1>1, <1>4, <1>6
<1>10. i \in N /\ Count(N, i) = k
  BY <1>2, <1>7, <1>8, <1>9
<1>11. QED
  BY <1>10

-----------------------------------------------------------------------------
(* Splitting at the newlines *)

LEMMA LineEnds ==
  ASSUME NEW data, Len(data) \in Nat
  PROVE  LET N == Newlines(data)
             C == Cardinality(N)
         IN  /\ C \in Nat /\ LineEnd(data, 0) = 0
             /\ \A k \in 1..C : LineEnd(data, k) \in N
             /\ \A k \in 0..C : LineEnd(data, k) \in 0..Len(data)
             /\ \A k \in 1..C : LineEnd(data, k - 1) < LineEnd(data, k)
             /\ \A j \in N : j <= LineEnd(data, C)
             /\ \A k \in 1..C, i \in N : Count(N, i) = k => i = LineEnd(data, k)
<1> DEFINE N == Newlines(data)
           C == Cardinality(N)
           L(k) == LineEnd(data, k)
<1>1. \A m \in N : m \in Nat /\ 1 <= m /\ m <= Len(data)
  BY DEF Newlines
<1> HIDE DEF N, L
<1>2. /\ C \in Nat /\ Count(N, 0) = 0 /\ Count(N, Len(data)) = C
      /\ \A i, j \in Nat : i <= j => Count(N, i) <= Count(N, j)
      /\ \A i \in Nat, j \in N : i < j => Count(N, i) < Count(N, j)
      /\ \A i \in Nat : Count(N, i) \in Nat
  BY <1>1, Counting
<1>3. \A k \in 1..C : L(k) \in N /\ Count(N, L(k)) = k
  <2> SUFFICES ASSUME NEW k \in 1..C PROVE L(k) \in N /\ Count(N, L(k)) = k
    OBVIOUS
  <2>1. \E i \in N : Count(N, i) = k
    BY <1>1, KthExists
  <2>2. L(k) = CHOOSE i \in N : Count(N, i) = k
    BY DEF LineEnd, N, Count, UpTo, L
  <2>3. QED
    BY <2>1, <2>2
<1>4. L(0) = 0
  BY DEF LineEnd, L
<1>5. \A k \in 0..C : L(k) \in 0..Len(data) /\ Count(N, L(k)) = k
  <2> SUFFICES ASSUME NEW k \in 0..C PROVE L(k) \in 0..Len(data) /\ Count(N, L(k)) = k
    OBVIOUS
  <2>1. CASE k = 0
    BY <1>2, <1>4, <2>1
  <2>2. CASE k \in 1..C
    <3>1. L(k) \in N /\ Count(N, L(k)) = k
      BY <1>3, <2>2
    <3>2. QED
      BY <1>1, <3>1
  <2>3. QED
    BY <1>2, <2>1, <2>2
<1>6. \A k \in 1..C : L(k - 1) < L(k)
  <2> SUFFICES ASSUME NEW k \in 1..C, ~(L(k - 1) < L(k)) PROVE FALSE
    OBVIOUS
  <2>1. k \in 0..C /\ k - 1 \in 0..C /\ k \in Int
    BY <1>2
  <2>2. L(k) \in Nat /\ L(k - 1) \in Nat /\ Count(N, L(k)) = k /\ Count(N, L(k - 1)) = k - 1
    BY <1>5, <2>1
  <2>3. Count(N, L(k)) <= Count(N, L(k - 1))
    BY <1>2, <2>2
  <2>4. QED
    BY <2>1, <2>2, <2>3
<1>7. \A j \in N : j <= L(C)
  <2> SUFFICES ASSUME NEW j \in N, ~(j <= L(C)) PROVE FALSE
    OBVIOUS
  <2>1. C \in 0..C
    BY <1>2
  <2>2. L(C) \in Nat /\ Count(N, L(C)) = C /\ j \in Nat /\ j <= Len(data)
    BY <1>1, <1>5, <2>1
  <2>3. Count(N, L(C)) < Count(N, j) /\ Count(N, j) <= C
    BY <1>2, <2>2
  <2>4. Count(N, j) \in Nat
    BY <1>2, <2>2
  <2>5. QED
    BY <1>2, <2>2, <2>3, <2>4
<1>8. \A k \in 1..C, i \in N : Count(N, i) = k => i = L(k)
  <2> SUFFICES ASSUME NEW k \in 1..C, NEW i \in N, Count(N, i) = k PROVE i = L(k)
    OBVIOUS
  <2>1. L(k) \in N /\ Count(N, L(k)) = k /\ L(k) \in Nat /\ i \in Nat /\ k \in Nat
    <3>1. L(k) \in N /\ Count(N, L(k)) = k
      BY <1>3
    <3>2. k \in Nat
      BY <1>2
    <3>3. L(k) \in 1..Len(data) /\ i \in 1..Len(data)
      BY <1>1, <3>1
    <3>4. QED
      BY <3>1, <3>2, <3>3
  <2>2. ~(i < L(k)) /\ ~(L(k) < i)
    BY <1>2, <2>1
  <2>3. QED
    BY <2>1, <2>2
<1>9. QED
  BY <1>2, <1>3, <1>4, <1>5, <1>6, <1>7, <1>8 DEF N, L

LEMMA Splits ==
  ASSUME NEW data \in Seq(Byte)
  PROVE  /\ Lines(data) \in Seq(Seq(Byte))
         /\ Len(Lines(data)) = Cardinality(Newlines(data))
         /\ Partial(data) \in Seq(Byte)
         /\ \A i \in 1..Len(Partial(data)) : ~Newline(Partial(data)[i])
<1> DEFINE C == Cardinality(Newlines(data))
           L(k) == LineEnd(data, k)
<1>1. Len(data) \in Nat /\ \A i \in 1..Len(data) : data[i] \in Byte
  OBVIOUS
<1>2. /\ C \in Nat
      /\ \A k \in 0..C : L(k) \in 0..Len(data)
      /\ \A j \in Newlines(data) : j <= L(C)
  BY <1>1, LineEnds
<1>3. \A k \in 1..C : SubSeq(data, L(k - 1) + 1, L(k) - 1) \in Seq(Byte)
  <2> SUFFICES ASSUME NEW k \in 1..C
               PROVE  SubSeq(data, L(k - 1) + 1, L(k) - 1) \in Seq(Byte)
    OBVIOUS
  <2>1. L(k - 1) \in 0..Len(data) /\ L(k) \in 0..Len(data)
    BY <1>2
  <2>2. L(k - 1) + 1 \in Int /\ L(k) - 1 \in Int
        /\ \A i \in (L(k - 1) + 1)..(L(k) - 1) : data[i] \in Byte
    BY <1>1, <2>1
  <2>3. QED
    BY <2>2, SubSeqProperties
<1>4. Lines(data) \in Seq(Seq(Byte)) /\ Len(Lines(data)) = C
  <2> DEFINE e(k) == SubSeq(data, L(k - 1) + 1, L(k) - 1)
             S == Seq(Byte)
  <2>1. \A k \in 1..C : e(k) \in S
    BY <1>3
  <2>2. Lines(data) = [k \in 1..C |-> e(k)]
    BY DEF Lines
  <2> HIDE DEF e, S, C
  <2>3. [k \in 1..C |-> e(k)] \in Seq(S) /\ Len([k \in 1..C |-> e(k)]) = C
    BY <1>2, <2>1
  <2>4. QED
    BY <2>2, <2>3 DEF S
<1>5. L(C) \in 0..Len(data)
  BY <1>2
<1>6. L(C) + 1 \in Int /\ \A i \in (L(C) + 1)..Len(data) : data[i] \in Byte
  BY <1>1, <1>5
<1>7. /\ Partial(data) \in Seq(Byte)
      /\ Len(Partial(data)) = IF L(C) + 1 <= Len(data) THEN Len(data) - (L(C) + 1) + 1 ELSE 0
      /\ \A i \in 1..(Len(data) - (L(C) + 1) + 1) : Partial(data)[i] = data[L(C) + 1 + i - 1]
  BY <1>1, <1>6, SubSeqProperties DEF Partial
<1>8. ASSUME NEW i \in 1..Len(Partial(data)) PROVE ~Newline(Partial(data)[i])
  <2>1. i \in Nat /\ L(C) + i \in 1..Len(data) /\ L(C) + i > L(C)
        /\ i \in 1..(Len(data) - (L(C) + 1) + 1) /\ L(C) + 1 + i - 1 = L(C) + i
    BY <1>1, <1>5, <1>7
  <2>2. L(C) + i \notin Newlines(data)
    BY <1>2, <1>5, <2>1
  <2>3. ~Newline(data[L(C) + i])
    BY <2>1, <2>2 DEF Newlines
  <2>4. QED
    BY <1>7, <2>1, <2>3
<1>9. QED
  BY <1>4, <1>7, <1>8
-----------------------------------------------------------------------------
(* The bytes of one file, from the start of a line on *)

Firsts(k, L) == {j * L : j \in 1..k}

\* Bytes 1 to m of file f behind its first q lines.
Run(f, q, m) == [i \in 1..m |-> <<f, q * LineLen[f] + i>>]

LEMMA FirstsCounted ==
  ASSUME NEW k \in Nat, NEW L \in Nat \ {0}
  PROVE  Cardinality(Firsts(k, L)) = k
<1> DEFINE g == [j \in 1..k |-> j * L]
<1>1. g \in [1..k -> Firsts(k, L)]
  BY DEF Firsts
<1>2. \A x \in Firsts(k, L) : \E j \in 1..k : g[j] = x
  BY DEF Firsts
<1>3. ASSUME NEW i \in 1..k, NEW j \in 1..k, g[i] = g[j] PROVE i = j
  <2>1. i \in Int /\ j \in Int /\ i * L = j * L
    BY <1>3
  <2>2. QED
    BY <2>1, Times
<1> HIDE DEF g
<1>4. g \in Bijection(1..k, Firsts(k, L))
  BY <1>1, <1>2, <1>3, Fun_IsBij
<1>5. ExistsBijection(1..k, Firsts(k, L))
  BY <1>4 DEF ExistsBijection
<1>6. QED
  BY <1>5, FS_CountingElements

LEMMA RunNewlines ==
  ASSUME NEW f \in Files, NEW q \in Nat, NEW m \in Nat, NEW t \in Nat,
         t * LineLen[f] <= m, m < (t + 1) * LineLen[f]
  PROVE  LET data == Run(f, q, m)
             L == LineLen[f]
         IN  /\ Newlines(data) = Firsts(t, L)
             /\ Cardinality(Newlines(data)) = t
             /\ \A k \in 0..t : LineEnd(data, k) = k * L
<1> DEFINE data == Run(f, q, m)
           L == LineLen[f]
<1>1. L \in Nat \ {0}
  BY LineAssumption
<1>2. /\ Len(data) = m /\ \A i \in 1..m : data[i] = <<f, q * L + i>>
  BY DEF Run
<1> HIDE DEF data
<1>3. ASSUME NEW i \in 1..m
      PROVE  Newline(data[i]) <=> \E j \in Int : i = j * L
  <2>1. q * L \in Int /\ q * L + i \in Int /\ i \in Int
    BY <1>1, Times
  <2>2. Newline(data[i]) <=> (q * L + i) % L = 0
    BY <1>2 DEF Newline
  <2>3. (q * L + i) % L = 0 <=> \E j \in Int : q * L + i = j * L
    BY <1>1, <2>1, Remainder
  <2>4. ASSUME NEW j \in Int, q * L + i = j * L PROVE \E h \in Int : i = h * L
    <3>1. j - q \in Int /\ ((j - q) + q) * L = (j - q) * L + q * L
      BY <1>1, Times
    <3>2. (j - q) + q = j /\ (j - q) * L \in Int
      BY <1>1, Times
    <3>3. i = (j - q) * L
      BY <2>1, <2>4, <3>1, <3>2
    <3>4. QED
      BY <3>1, <3>3
  <2>5. ASSUME NEW j \in Int, i = j * L PROVE \E h \in Int : q * L + i = h * L
    <3>1. q + j \in Int /\ (q + j) * L = q * L + j * L
      BY <1>1, Times
    <3>2. QED
      BY <2>5, <3>1
  <2>6. QED
    BY <2>2, <2>3, <2>4, <2>5
<1>4. ASSUME NEW j \in Int PROVE j * L \in 1..m <=> j \in 1..t
  <2>1. 0 < j <=> 0 < j * L
    <3>1. 0 < j <=> 0 * L < j * L
      BY <1>1, Times
    <3>2. QED
      BY <1>1, <3>1
  <2>2. j < t + 1 => j * L <= t * L
    <3>1. j < t => j * L < t * L
      BY <1>1, Times
    <3>2. j * L \in Int /\ t * L \in Int
      BY <1>1, Times
    <3>3. QED
      BY <3>1, <3>2
  <2>3. j < t + 1 <=> j * L < (t + 1) * L
    BY <1>1, Times
  <2>4. j * L \in Int /\ t * L \in Int /\ (t + 1) * L \in Int
    BY <1>1, Times
  <2>5. j * L <= m <=> j <= t
    BY <2>2, <2>3, <2>4
  <2>6. QED
    BY <2>1, <2>4, <2>5
<1>5. Newlines(data) = Firsts(t, L)
  <2>1. Newlines(data) = {i \in 1..m : \E j \in Int : i = j * L}
    BY <1>2, <1>3 DEF Newlines
  <2>2. {i \in 1..m : \E j \in Int : i = j * L} = Firsts(t, L)
    BY <1>4 DEF Firsts
  <2>3. QED
    BY <2>1, <2>2
<1>6. Cardinality(Newlines(data)) = t
  BY <1>1, <1>5, FirstsCounted
<1>7. ASSUME NEW k \in 1..t PROVE LineEnd(data, k) = k * L
  <2>1. k \in Nat /\ \A j \in 1..t : j * L <= k * L <=> j <= k
    <3>1. k \in Nat
      OBVIOUS
    <3>2. ASSUME NEW j \in 1..t PROVE j * L <= k * L <=> j <= k
      <4>1. (k < j <=> k * L < j * L) /\ j * L \in Int /\ k * L \in Int
        BY <1>1, <3>1, Times
      <4>2. QED
        BY <3>1, <4>1
    <3>3. QED
      BY <3>1, <3>2
  <2>2. UpTo(Firsts(t, L), k * L) = Firsts(k, L)
    BY <2>1 DEF UpTo, Firsts
  <2>3. Count(Newlines(data), k * L) = k
    BY <1>1, <1>5, <2>1, <2>2, FirstsCounted DEF Count
  <2>4. k * L \in Newlines(data)
    BY <1>5 DEF Firsts
  <2>5. QED
    BY <1>2, <1>6, <2>3, <2>4, LineEnds
<1>8. LineEnd(data, 0) = 0 * L
  BY <1>1 DEF LineEnd
<1>9. QED
  BY <1>5, <1>6, <1>7, <1>8 DEF data

LEMMA RunSplits ==
  ASSUME NEW f \in Files, NEW q \in Nat, NEW m \in Nat, NEW t \in Nat,
         t * LineLen[f] <= m, m < (t + 1) * LineLen[f]
  PROVE  /\ Len(Lines(Run(f, q, m))) = t
         /\ \A k \in 1..t : Lines(Run(f, q, m))[k] = Line(f, q + k)
         /\ Partial(Run(f, q, m)) = Run(f, q + t, m - t * LineLen[f])
<1> DEFINE L == LineLen[f]
           S == Files \X Int
<1>1. L \in Nat \ {0}
  BY LineAssumption
<1>2. PICK data : data = Run(f, q, m)
  OBVIOUS
<1>3. Len(data) = m /\ \A i \in 1..m : data[i] = <<f, q * L + i>> /\ data[i] \in S
  <2>1. Len(data) = m /\ \A i \in 1..m : data[i] = <<f, q * L + i>>
    BY <1>2 DEF Run
  <2>2. ASSUME NEW i \in 1..m PROVE data[i] \in S
    <3>1. q * L \in Int /\ i \in Int
      BY <1>1, Times
    <3>2. data[i] = <<f, q * L + i>> /\ q * L + i \in Int
      BY <2>1, <3>1
    <3>3. QED
      BY <3>2
  <2>3. QED
    BY <2>1, <2>2
<1>4. Cardinality(Newlines(data)) = t /\ \A k \in 0..t : LineEnd(data, k) = k * L
  BY <1>2, RunNewlines
<1>5. Lines(data) = [k \in 1..t |-> SubSeq(data, LineEnd(data, k - 1) + 1, LineEnd(data, k) - 1)]
  BY <1>4 DEF Lines
<1>6. Len(Lines(data)) = t
  BY <1>5
<1>7. ASSUME NEW k \in 1..t PROVE Lines(data)[k] = Line(f, q + k)
  <2> DEFINE a == (k - 1) * L
             part == SubSeq(data, a + 1, k * L - 1)
  <2>1. k \in Int /\ k - 1 \in 0..t /\ k \in 0..t
    OBVIOUS
  <2>2. Lines(data)[k] = part
    BY <1>4, <1>5, <2>1
  <2>3. /\ a \in Nat /\ k * L = a + L /\ k * L <= t * L /\ k * L \in Int /\ t * L \in Int
        /\ (q + k - 1) * L = q * L + a /\ q * L \in Int
    <3>1. k * L = a + 1 * L
      <4>1. ((k - 1) + 1) * L = (k - 1) * L + 1 * L
        BY <1>1, <2>1, Times
      <4>2. (k - 1) + 1 = k
        BY <2>1
      <4>3. QED
        BY <4>1, <4>2
    <3>2. a \in Nat /\ k * L \in Int /\ t * L \in Int /\ q * L \in Int
      BY <1>1, <2>1, Times
    <3>3. k * L <= t * L
      <4>1. k = t \/ k < t
        OBVIOUS
      <4>2. k < t => k * L < t * L
        BY <1>1, <2>1, Times
      <4>3. QED
        BY <3>2, <4>1, <4>2
    <3>4. (q + (k - 1)) * L = q * L + a
      BY <1>1, <2>1, Times
    <3>5. q + (k - 1) = q + k - 1
      BY <2>1
    <3>6. 1 * L = L
      BY <1>1
    <3>7. QED
      BY <3>1, <3>2, <3>3, <3>4, <3>5, <3>6
  <2> HIDE DEF a
  <2>4. \A i \in (a + 1)..(k * L - 1) : data[i] \in S
    <3>1. \A i \in (a + 1)..(k * L - 1) : i \in 1..m
      BY <2>3
    <3>2. QED
      BY <1>3, <3>1
  <2>5. a + 1 \in Int /\ k * L - 1 \in Int
    BY <2>3
  <2>6. /\ part \in Seq(S)
        /\ Len(part) = IF a + 1 <= k * L - 1 THEN (k * L - 1) - (a + 1) + 1 ELSE 0
        /\ \A i \in 1..((k * L - 1) - (a + 1) + 1) : part[i] = data[a + 1 + i - 1]
    <3> HIDE DEF S
    <3>1. QED
      BY <2>4, <2>5, SubSeqProperties
  <2>7. Len(part) = L - 1
    BY <1>1, <2>3, <2>6
  <2>8. ASSUME NEW i \in 1..(L - 1) PROVE part[i] = <<f, (q + k - 1) * L + i>>
    <3>1. i \in 1..((k * L - 1) - (a + 1) + 1) /\ a + 1 + i - 1 = a + i /\ a + i \in 1..m
      BY <1>1, <2>3
    <3>2. part[i] = <<f, q * L + (a + i)>>
      BY <1>3, <2>6, <3>1
    <3>3. q * L + (a + i) = (q + k - 1) * L + i
      BY <1>1, <2>3
    <3>4. QED
      BY <3>2, <3>3
  <2>9. part = [i \in 1..(L - 1) |-> part[i]]
    <3> HIDE DEF part, S
    <3>1. DOMAIN part = 1..(L - 1) /\ part \in [1..(L - 1) -> S]
      BY <2>6, <2>7, LenProperties
    <3>2. QED
      BY <3>1
  <2> HIDE DEF part
  <2>10. part = [i \in 1..(L - 1) |-> <<f, (q + k - 1) * L + i>>]
    BY <2>8, <2>9
  <2>11. QED
    BY <2>2, <2>10 DEF Line
<1>8. Partial(data) = Run(f, q + t, m - t * L)
  <2> DEFINE a == t * L
             part == SubSeq(data, a + 1, m)
  <2>1. Partial(data) = part
    <3>1. LineEnd(data, t) = t * L
      BY <1>4
    <3>2. QED
      BY <1>3, <1>4, <3>1 DEF Partial
  <2>2. a \in Nat /\ a <= m /\ (q + t) * L = q * L + a /\ q * L \in Int
    BY <1>1, Times
  <2> HIDE DEF a
  <2>3. a + 1 \in Int /\ m \in Int /\ \A i \in (a + 1)..m : data[i] \in S
    BY <1>3, <2>2
  <2>4. /\ part \in Seq(S)
        /\ Len(part) = IF a + 1 <= m THEN m - (a + 1) + 1 ELSE 0
        /\ \A i \in 1..(m - (a + 1) + 1) : part[i] = data[a + 1 + i - 1]
    <3> HIDE DEF S
    <3>1. QED
      BY <2>3, SubSeqProperties
  <2>5. Len(part) = m - a
    BY <2>2, <2>4
  <2>6. ASSUME NEW i \in 1..(m - a) PROVE part[i] = <<f, (q + t) * L + i>>
    <3>1. i \in 1..(m - (a + 1) + 1) /\ a + 1 + i - 1 = a + i /\ a + i \in 1..m
      BY <2>2
    <3>2. part[i] = <<f, q * L + (a + i)>>
      BY <1>3, <2>4, <3>1
    <3>3. q * L + (a + i) = (q + t) * L + i
      BY <2>2
    <3>4. QED
      BY <3>2, <3>3
  <2>7. part = [i \in 1..(m - a) |-> part[i]]
    <3> HIDE DEF part, S
    <3>1. DOMAIN part = 1..(m - a) /\ part \in [1..(m - a) -> S]
      BY <2>4, <2>5, LenProperties
    <3>2. QED
      BY <3>1
  <2>8. QED
    BY <2>1, <2>6, <2>7 DEF Run, a
<1>9. QED
  BY <1>2, <1>6, <1>7, <1>8
-----------------------------------------------------------------------------
(* Types *)

LEMMA Chunked ==
  ASSUME TypeOK
  PROVE  \E n \in Nat :
           /\ Chunk = [i \in 1..n |-> <<file, offset + i>>] /\ Len(Chunk) = n
           /\ n = 0 \/ offset + n <= size
           /\ Chunk \in Seq(Byte) /\ offset + n \in 0..MaxSize
<1>1. size \in Nat /\ offset \in Nat /\ size <= MaxSize /\ offset <= MaxSize /\ file \in Files
      /\ MaxSize \in Nat /\ ChunkLimit \in Nat
  BY BoundAssumption, ChunkAssumption DEF TypeOK
<1>2. PICK n \in Nat : /\ Chunk = [i \in 1..n |-> <<file, offset + i>>]
                       /\ n = 0 \/ offset + n <= size
  <2>1. CASE size <= offset
    BY <1>1, <2>1 DEF Chunk
  <2>2. CASE size > offset /\ size - offset < ChunkLimit
    <3>1. size - offset \in Nat /\ offset + (size - offset) <= size /\ ~(size <= offset)
      BY <1>1, <2>2
    <3>2. QED
      BY <2>2, <3>1 DEF Chunk
  <2>3. CASE size > offset /\ ~(size - offset < ChunkLimit)
    <3>1. offset + ChunkLimit <= size /\ ~(size <= offset)
      BY <1>1, <2>3
    <3>2. QED
      BY <1>1, <2>3, <3>1 DEF Chunk
  <2>4. QED
    BY <1>1, <2>1, <2>2, <2>3
<1>3. Len(Chunk) = n
  BY <1>2
<1>4. \A i \in 1..n : <<file, offset + i>> \in Byte
  BY <1>1, <1>2 DEF Byte
<1>5. Chunk \in Seq(Byte)
  <2> HIDE DEF Byte
  <2>1. QED
    BY <1>2, <1>4
<1>6. offset + n \in 0..MaxSize
  BY <1>1, <1>2
<1>7. QED
  BY <1>2, <1>3, <1>5, <1>6

LEMMA ReadTypeOK ==
  ASSUME TypeOK, Read
  PROVE  TypeOK'
<1> DEFINE S == Seq(Byte)
<1>1. PICK n \in Nat : Len(Chunk) = n /\ Chunk \in Seq(Byte) /\ offset + n \in 0..MaxSize
  BY Chunked
<1>2. PICK data : data = buffer \o Chunk
  OBVIOUS
<1>3. data \in Seq(Byte)
  <2>1. buffer \in Seq(Byte)
    BY DEF TypeOK
  <2>2. QED
    BY <1>1, <1>2, <2>1, ConcatProperties
<1>4. /\ Lines(data) \in Seq(S) /\ Partial(data) \in Seq(Byte)
      /\ \A i \in 1..Len(Partial(data)) : ~Newline(Partial(data)[i])
  BY <1>3, Splits
<1>5. delivered \in Seq(S)
  BY DEF TypeOK
<1>6. delivered' = delivered \o Lines(data) /\ buffer' = Partial(data) /\ offset' = offset + n
      /\ stage' = "stat" /\ UNCHANGED <<present, file, size, inode, known, follows, torn>>
  BY <1>1, <1>2 DEF Read, path
<1>7. delivered' \in Seq(S)
  <2> HIDE DEF S
  <2>1. QED
    BY <1>4, <1>5, <1>6, ConcatProperties
<1>8. QED
  BY <1>1, <1>4, <1>6, <1>7 DEF TypeOK

LEMMA InitTypeOK == Init => TypeOK
<1> SUFFICES ASSUME Init PROVE TypeOK
  OBVIOUS
<1>1. 1 \in Files /\ 0 \in 0..MaxSize
  BY FilesAssumption, BoundAssumption DEF Files
<1>2. buffer \in Seq(Byte) /\ Len(buffer) = 0
  BY DEF Init
<1>3. delivered \in Seq(Seq(Byte))
  BY DEF Init
<1>4. \A i \in 1..Len(buffer) : ~Newline(buffer[i])
  BY <1>2
<1>5. /\ present \in BOOLEAN /\ file \in Files /\ size \in 0..MaxSize
      /\ inode \in Files \cup {0} /\ offset \in 0..MaxSize /\ known \in Files \cup {None, 0}
      /\ stage \in {"stat", "read"} /\ follows \in Files /\ torn \in BOOLEAN
  BY <1>1 DEF Init
<1>6. QED
  BY <1>2, <1>3, <1>4, <1>5 DEF TypeOK

\* Every variable keeps to its values: what waits in the buffer never holds a
\* newline, even when two files were mixed up.
THEOREM TypeCorrect == Spec => []TypeOK
<1>1. TypeOK /\ [Next]_vars => TypeOK'
  <2> SUFFICES ASSUME TypeOK, [Next]_vars PROVE TypeOK'
    OBVIOUS
  <2> USE BoundAssumption
  <2>1. CASE UNCHANGED vars
    BY <2>1 DEF vars, path, tailer, TypeOK
  <2>2. CASE Append1
    BY <2>2 DEF Append1, tailer, TypeOK
  <2>3. CASE Renamed
    BY <2>3 DEF Renamed, tailer, TypeOK
  <2>4. CASE Created
    BY <2>4 DEF Created, tailer, TypeOK
  <2>5. CASE Truncated
    BY <2>5 DEF Truncated, tailer, TypeOK
  <2>6. CASE Stat
    BY <2>6 DEF Stat, HandleRotation, path, TypeOK
  <2>7. CASE OpenFails
    BY <2>7 DEF OpenFails, path, TypeOK
  <2>8. QED
    BY <2>1, <2>2, <2>3, <2>4, <2>5, <2>6, <2>7, ReadTypeOK DEF Next, Poll, StatFails
<1>2. QED
  BY <1>1, InitTypeOK, PTL DEF Spec

-----------------------------------------------------------------------------
(* Lines come whole and in turn *)

\* A line tells which one it is.
LEMMA LineIsOne ==
  ASSUME NEW f \in Files, NEW g \in Files, NEW n \in Int, NEW k \in Int, Line(f, n) = Line(g, k)
  PROVE  f = g /\ n = k
<1>1. LineLen[f] \in Nat \ {0, 1} /\ LineLen[g] \in Nat \ {0, 1}
  BY LineAssumption
<1>2. Line(f, n)[1] = <<f, (n - 1) * LineLen[f] + 1>> /\ Line(g, k)[1] = <<g, (k - 1) * LineLen[g] + 1>>
  <2>1. 1 \in 1..(LineLen[f] - 1) /\ 1 \in 1..(LineLen[g] - 1)
    BY <1>1
  <2>2. QED
    BY <2>1 DEF Line
<1>3. f = g /\ (n - 1) * LineLen[f] + 1 = (k - 1) * LineLen[f] + 1
  BY <1>2
<1>4. (n - 1) * LineLen[f] \in Int /\ (k - 1) * LineLen[f] \in Int
  BY <1>1, Times
<1>5. (n - 1) * LineLen[f] = (k - 1) * LineLen[f]
  BY <1>3, <1>4
<1>6. n - 1 = k - 1
  BY <1>1, <1>5, Times
<1>7. QED
  BY <1>3, <1>6

\* Steps of the path and the failing open leave lines and offset alone.
LEMMA Kept ==
  ASSUME UNCHANGED <<offset, buffer, delivered, follows>>, BufferInv, WholeLines, InTurn
  PROVE  BufferInv' /\ WholeLines' /\ InTurn'
<1>1. BufferInv'
  BY DEF BufferInv, Behind, Line
<1>2. WholeLines'
  BY DEF WholeLines
<1>3. InTurn'
  BY DEF InTurn
<1>4. QED
  BY <1>1, <1>2, <1>3

LEMMA Ranges ==
  ASSUME TypeOK
  PROVE  /\ file \in Nat /\ file >= 1 /\ follows \in Nat /\ follows >= 1
         /\ inode \in Nat /\ (known = None \/ known \in Nat)
         /\ offset \in Nat /\ size \in Nat
BY FilesAssumption DEF TypeOK, Files, None

LEMMA PathRight ==
  ASSUME OutpacesRefill, TypeOK, RightInv,
         Append1 \/ Renamed \/ Created \/ Truncated \/ OpenFails
  PROVE  RightInv'
<1>1. UNCHANGED <<offset, buffer, delivered, follows, known>> /\ (~torn' => ~torn)
  <2>1. CASE Append1 \/ Renamed
    BY <2>1 DEF Append1, Renamed, tailer
  <2>2. CASE Created \/ Truncated
    BY <2>2 DEF Created, Truncated, tailer
  <2>3. CASE OpenFails
    BY <2>3 DEF OpenFails
  <2>4. QED
    BY <2>1, <2>2, <2>3
<1>2. ~torn' => BufferInv' /\ WholeLines' /\ InTurn'
  BY <1>1, Kept DEF RightInv
<1>3. ASSUME ~torn' PROVE PathInv'
  <2>1. PathInv
    BY <1>1, <1>3 DEF RightInv
  <2>2. CASE Append1
    BY <2>1, <2>2, Ranges DEF Append1, tailer, PathInv
  <2>3. CASE Renamed
    BY <2>1, <2>3 DEF Renamed, tailer, PathInv
  <2>4. CASE Created
    <3>1. /\ stage = "stat" /\ stage' = stage /\ known' = known /\ offset' = offset
          /\ follows' = follows /\ file' = file + 1 /\ size' = 0
          /\ (inode = 0 <=> inode' = 0)
      <4>1. stage = "stat"
        BY <1>3, <2>4 DEF Created, TypeOK
      <4>2. inode' \in {inode} \cup (IF inode = 0 THEN {} ELSE {file + 1}) /\ file + 1 # 0
        BY <2>4, Ranges DEF Created
      <4>3. QED
        BY <2>4, <4>1, <4>2 DEF Created, tailer
    <3>2. QED
      BY <2>1, <3>1, Ranges DEF PathInv
  <2>5. CASE Truncated
    <3>1. /\ stage = "stat" /\ stage' = stage /\ known' = known /\ offset' = offset
          /\ follows' = follows /\ file' = file + 1 /\ size' = 0 /\ inode' = inode
      BY <1>3, <2>5, Ranges DEF Truncated, tailer, TypeOK
    <3>2. QED
      BY <2>1, <3>1, Ranges DEF PathInv
  <2>6. CASE OpenFails
    BY <2>1, <2>6 DEF OpenFails, path, PathInv
  <2>7. QED
    BY <2>2, <2>3, <2>4, <2>5, <2>6
<1>4. QED
  BY <1>2, <1>3 DEF RightInv

\* A stat goes to the top of a new file and leaves the offset in the old one.
LEMMA StatOffset ==
  ASSUME TypeOK, RightInv, Stat, ~torn
  PROVE  \/ follows' = follows /\ offset' = offset /\ buffer' = buffer /\ offset <= size
         \/ follows' = follows /\ offset' = 0 /\ offset = 0 /\ buffer' = buffer
         \/ follows < file /\ offset' = 0 /\ (buffer' = <<>> \/ (offset = 0 /\ buffer' = buffer))
<1>1. PathInv /\ follows' = file
  BY DEF RightInv, Stat
<1> DEFINE rotated == (known # None /\ inode # 0 /\ inode # known) \/ size < offset
<1>2. /\ offset' = IF rotated THEN 0 ELSE offset
      /\ buffer' = IF rotated THEN <<>> ELSE buffer
  BY DEF Stat, HandleRotation
<1>3. CASE follows = file
  <2>1. known # None => ~rotated /\ offset <= size
    BY <1>1, <1>3, Ranges DEF PathInv
  <2>2. known = None => offset = 0 /\ ~rotated
    BY <1>1, Ranges DEF PathInv
  <2>3. QED
    BY <1>1, <1>2, <1>3, <2>1, <2>2
<1>4. CASE follows # file
  <2>1. follows < file
    BY <1>1, <1>4, Ranges DEF PathInv
  <2>2. rotated \/ offset = 0
    BY <1>1, <1>4, Ranges DEF PathInv
  <2>3. QED
    BY <1>2, <2>1, <2>2
<1>5. QED
  BY <1>3, <1>4

LEMMA StatRight ==
  ASSUME TypeOK, RightInv, Stat
  PROVE  RightInv'
<1> SUFFICES ASSUME ~torn' PROVE PathInv' /\ BufferInv' /\ WholeLines' /\ InTurn'
  BY DEF RightInv
<1>1. /\ PathInv /\ BufferInv /\ WholeLines /\ InTurn
      /\ stage' = "read" /\ follows' = file /\ known' = inode
      /\ UNCHANGED <<file, size, inode, delivered>>
  BY DEF RightInv, Stat, HandleRotation, path
<1>2. WholeLines' /\ InTurn'
  <2>1. WholeLines'
    BY <1>1 DEF WholeLines
  <2>2. InTurn'
    BY <1>1 DEF InTurn
  <2>3. QED
    BY <2>1, <2>2
<1>3. \/ follows' = follows /\ offset' = offset /\ buffer' = buffer /\ offset <= size
      \/ follows' = follows /\ offset' = 0 /\ offset = 0 /\ buffer' = buffer
      \/ follows < file /\ offset' = 0 /\ (buffer' = <<>> \/ (offset = 0 /\ buffer' = buffer))
  BY StatOffset DEF Stat
<1>4. PathInv'
  <2>1. inode # None
    BY Ranges DEF None
  <2>2. QED
    BY <1>1, <1>3, <2>1, Ranges DEF PathInv
<1>5. BufferInv'
  <2>1. PICK q \in 0..MaxSize, r \in 0..MaxSize : Behind(q, r)
    BY <1>1 DEF BufferInv
  <2>2. CASE follows' = follows /\ offset' = offset /\ buffer' = buffer
    <3>1. Behind(q, r)'
      BY <1>1, <2>1, <2>2 DEF Behind, Line
    <3>2. QED
      BY <3>1 DEF BufferInv
  <2>3. CASE follows < file /\ offset' = 0 /\ (buffer' = <<>> \/ (offset = 0 /\ buffer' = buffer))
    <3>1. LineLen[follows] \in Nat \ {0} /\ LineLen[file] \in Nat \ {0}
          /\ follows \in Files /\ file \in Files /\ MaxSize \in Nat
      BY LineAssumption, BoundAssumption DEF TypeOK
    <3>2. q * LineLen[follows] \in Nat /\ q <= q * LineLen[follows]
      BY <3>1, Times
    <3>3. offset = q * LineLen[follows] + r /\ offset <= MaxSize /\ q \in Nat /\ r \in Nat
      BY <2>1, <3>1 DEF Behind, TypeOK
    <3>4. buffer' = <<>>
      <4>1. offset = 0 => r = 0
        BY <3>2, <3>3
      <4>2. r = 0 => buffer = <<>>
        BY <2>1 DEF Behind
      <4>3. QED
        BY <2>3, <4>1, <4>2
    <3>5. ASSUME delivered # <<>>
          PROVE  \E f \in 1..(file - 1), n \in 1..MaxSize :
                   <<f, n>> \in LineIds /\ delivered[Len(delivered)] = Line(f, n)
      <4>1. CASE q = 0
        <5>1. PICK f \in 1..(follows - 1), n \in 1..MaxSize :
                <<f, n>> \in LineIds /\ delivered[Len(delivered)] = Line(f, n)
          BY <2>1, <3>5, <4>1 DEF Behind
        <5>2. f \in 1..(file - 1)
          BY <2>3, Ranges
        <5>3. QED
          BY <5>1, <5>2
      <4>2. CASE q > 0
        <5>1. delivered[Len(delivered)] = Line(follows, q)
          BY <2>1, <4>2 DEF Behind
        <5>2. follows \in 1..(file - 1) /\ q \in 1..MaxSize
          BY <2>3, <4>2, Ranges
        <5>3. <<follows, q>> \in LineIds
          BY <3>1, <3>2, <3>3, <5>2 DEF LineIds
        <5>4. QED
          BY <5>1, <5>2, <5>3
      <4>3. QED
        BY <3>3, <4>1, <4>2
    <3>6. /\ 0 < LineLen[file] /\ 0 * LineLen[file] = 0
          /\ [i \in 1..0 |-> <<file, 0 * LineLen[file] + i>>] = <<>>
      BY <3>1
    <3>7. Behind(0, 0)'
      BY <1>1, <2>3, <3>4, <3>5, <3>6 DEF Behind, Line
    <3>8. 0 \in 0..MaxSize
      BY <3>1
    <3>9. QED
      BY <3>7, <3>8 DEF BufferInv
  <2>4. QED
    BY <1>3, <2>2, <2>3
<1>6. QED
  BY <1>2, <1>4, <1>5
\* c holds bytes of file f from behind its first q lines and r bytes on.
Continues(c, f, q, r) ==
  /\ c \in Seq(Files \X Int)
  /\ \A i \in 1..Len(c) : c[i] = <<f, q * LineLen[f] + r + i>>

\* A run of bytes and those read behind it are one run.
LEMMA RunGrows ==
  ASSUME NEW f \in Files, NEW q \in Nat, NEW r \in Nat, NEW c, Continues(c, f, q, r)
  PROVE  Run(f, q, r) \o c = Run(f, q, r + Len(c))
<1> DEFINE S == Files \X Int
           s == Run(f, q, r)
<1>1. PICK a \in Int : a = q * LineLen[f]
  <2>1. LineLen[f] \in Nat \ {0}
    BY LineAssumption
  <2>2. QED
    BY <2>1, Times
<1>2. s \in Seq(S) /\ Len(s) = r /\ \A i \in 1..r : s[i] = <<f, a + i>>
  BY <1>1 DEF Run
<1>3. PICK n \in Nat : n = Len(c)
  BY DEF Continues
<1>4. c \in Seq(S) /\ Len(c) = n /\ \A i \in 1..n : c[i] = <<f, a + r + i>>
  BY <1>1, <1>3 DEF Continues
<1> HIDE DEF s, S
<1>5. /\ s \o c \in Seq(S) /\ Len(s \o c) = r + n
      /\ \A i \in 1..(r + n) : (s \o c)[i] = IF i <= r THEN s[i] ELSE c[i - r]
  BY ONLY <1>2, <1>4, ConcatProperties
<1>6. ASSUME NEW i \in 1..(r + n) PROVE (s \o c)[i] = <<f, a + i>>
  <2>1. CASE i <= r
    BY <1>2, <1>5, <2>1
  <2>2. CASE i > r
    <3>1. PICK j \in 1..n : j = i - r /\ ~(i <= r)
      <4>1. i - r \in 1..n /\ ~(i <= r)
        BY <1>3, <2>2
      <4>2. QED
        BY <4>1
    <3>2. (s \o c)[i] = c[j]
      BY <1>5, <3>1
    <3>3. a + r + j = a + i
      BY <1>1, <1>3, <3>1
    <3>4. QED
      BY <1>4, <3>2, <3>3
  <2>3. i <= r \/ i > r
    BY <1>3
  <2>4. QED
    BY <2>1, <2>2, <2>3
<1>7. s \o c = [i \in 1..(r + n) |-> (s \o c)[i]]
  <2>1. DOMAIN (s \o c) = 1..(r + n) /\ s \o c \in [1..(r + n) -> S]
    BY <1>5, LenProperties
  <2>2. QED
    BY <2>1
<1>8. s \o c = [i \in 1..(r + n) |-> <<f, a + i>>]
  BY <1>6, <1>7
<1>9. QED
  BY <1>1, <1>3, <1>8 DEF Run, s

\* What reading n bytes makes, behind q lines and r bytes of the file followed:
\* t lines, those that follow, and the rest.
Reads(q, r, n, t) ==
  LET L == LineLen[follows]
      lines == Lines(buffer \o Chunk)
  IN  /\ Chunk \in Seq(Byte) /\ Len(Chunk) = n
      /\ n = 0 \/ offset + n <= size
      /\ offset + n \in 0..MaxSize
      /\ t * L <= r + n /\ r + n < (t + 1) * L
      /\ Len(lines) = t /\ \A k \in 1..t : lines[k] = Line(follows, q + k)
      /\ Partial(buffer \o Chunk) = Run(follows, q + t, (r + n) - t * L)

LEMMA ChunkLines ==
  ASSUME TypeOK, follows = file, NEW q \in 0..MaxSize, NEW r \in 0..MaxSize, Behind(q, r)
  PROVE  \E n, t \in Nat : Reads(q, r, n, t)
<1>1. PICK n \in Nat : /\ Chunk = [i \in 1..n |-> <<file, offset + i>>] /\ Len(Chunk) = n
                       /\ n = 0 \/ offset + n <= size
                       /\ Chunk \in Seq(Byte) /\ offset + n \in 0..MaxSize
  BY Chunked
<1>2. PICK f \in Files, L \in Nat \ {0} : f = follows /\ L = LineLen[f]
  BY LineAssumption DEF TypeOK
<1>3. MaxSize \in Nat /\ q \in Nat /\ r \in Nat /\ offset \in Nat /\ size \in Nat
      /\ offset = q * L + r /\ q * L \in Nat
  <2>1. MaxSize \in Nat
    BY BoundAssumption
  <2>2. q \in Nat /\ r \in Nat
    BY <2>1
  <2>3. offset = q * L + r
    BY <1>2 DEF Behind
  <2>4. QED
    BY <2>1, <2>2, <2>3, Ranges, Times
<1>4. buffer = Run(f, q, r)
  BY <1>2 DEF Behind, Run
<1>5. PICK m \in Nat : m = r + n
  BY <1>3
<1>6. buffer \o Chunk = Run(f, q, m)
  <2>1. offset = q * LineLen[f] + r
    BY <1>2, <1>3
  <2>2. Chunk = [i \in 1..n |-> <<f, offset + i>>]
    BY <1>1, <1>2
  <2>3. Run(f, q, r) \o Chunk = Run(f, q, r + n)
    <3>1. f \in Files /\ q \in Nat /\ r \in Nat /\ n \in Nat /\ offset \in Nat
      BY <1>1, <1>2, <1>3
    <3>2. Chunk \in Seq(Files \X Int) /\ Len(Chunk) = n
      BY <2>2, <3>1
    <3>3. Continues(Chunk, f, q, r)
      BY <2>1, <2>2, <3>1, <3>2 DEF Continues
    <3>4. Run(f, q, r) \o Chunk = Run(f, q, r + Len(Chunk))
      BY <3>1, <3>3, RunGrows
    <3>5. QED
      BY <3>2, <3>4
  <2>4. QED
    BY <1>4, <1>5, <2>2, <2>3
<1>7. PICK t \in 0..m : t * L <= m /\ m < (t + 1) * L
  BY <1>5, Division
<1>8. PICK lines : lines = Lines(buffer \o Chunk)
  OBVIOUS
<1>9. /\ Len(lines) = t /\ \A k \in 1..t : lines[k] = Line(f, q + k)
      /\ Partial(buffer \o Chunk) = Run(f, q + t, m - t * L)
  <2>1. t \in Nat /\ t * LineLen[f] <= m /\ m < (t + 1) * LineLen[f]
    BY <1>2, <1>7
  <2>2. /\ Len(Lines(Run(f, q, m))) = t
        /\ \A k \in 1..t : Lines(Run(f, q, m))[k] = Line(f, q + k)
        /\ Partial(Run(f, q, m)) = Run(f, q + t, m - t * LineLen[f])
    <3>1. f \in Files /\ q \in Nat /\ m \in Nat /\ t \in Nat
      BY <1>2, <1>3, <1>5, <2>1
    <3>2. QED
      BY ONLY <2>1, <3>1, RunSplits
  <2>3. QED
    BY <1>2, <1>6, <1>8, <2>2
<1>10. Reads(q, r, n, t)
  <2>1. /\ t * LineLen[follows] <= r + n /\ r + n < (t + 1) * LineLen[follows]
        /\ Len(Lines(buffer \o Chunk)) = t
        /\ \A k \in 1..t : Lines(buffer \o Chunk)[k] = Line(follows, q + k)
        /\ Partial(buffer \o Chunk) = Run(follows, q + t, (r + n) - t * LineLen[follows])
    BY ONLY <1>2, <1>5, <1>7, <1>8, <1>9
  <2>2. /\ Chunk \in Seq(Byte) /\ Len(Chunk) = n
        /\ n = 0 \/ offset + n <= size
        /\ offset + n \in 0..MaxSize
    BY ONLY <1>1
  <2>3. QED
    BY ONLY <2>1, <2>2 DEF Reads
<1>11. t \in Nat
  BY ONLY <1>5, <1>7
<1>12. QED
  BY <1>10, <1>11

LEMMA ReadRight ==
  ASSUME TypeOK, RightInv, Read
  PROVE  RightInv'
<1> SUFFICES ASSUME ~torn' PROVE PathInv' /\ BufferInv' /\ WholeLines' /\ InTurn'
  BY DEF RightInv
<1> DEFINE S == Seq(Byte)
<1>1. /\ PathInv /\ BufferInv /\ WholeLines /\ InTurn /\ stage = "read" /\ stage' = "stat"
      /\ UNCHANGED <<file, size, inode, known, follows>>
  BY DEF RightInv, Read, path
<1>2. follows = file /\ known # None /\ inode = known /\ offset <= size
  BY <1>1 DEF PathInv
<1>3. PICK f \in Files, L \in Nat \ {0} : f = follows /\ L = LineLen[f]
  BY LineAssumption DEF TypeOK
<1>4. PICK q \in 0..MaxSize, r \in 0..MaxSize : Behind(q, r)
  BY <1>1 DEF BufferInv
<1>5. MaxSize \in Nat /\ q \in Nat /\ r \in Nat /\ offset \in Nat /\ size \in Nat
      /\ offset = q * L + r /\ q * L \in Nat
  <2>1. MaxSize \in Nat
    BY BoundAssumption
  <2>2. q \in Nat /\ r \in Nat
    BY <2>1
  <2>3. offset = q * L + r
    BY <1>3, <1>4 DEF Behind
  <2>4. QED
    BY <2>1, <2>2, <2>3, Ranges, Times
<1>6. PICK n, t \in Nat : Reads(q, r, n, t)
  BY <1>2, <1>4, ChunkLines
<1>7. /\ Len(Chunk) = n
      /\ n = 0 \/ offset + n <= size
      /\ Chunk \in Seq(Byte) /\ offset + n \in 0..MaxSize
  BY <1>6 DEF Reads
<1>8. PICK m \in Nat : m = r + n
  BY <1>5
<1>9. t * L <= m /\ m < (t + 1) * L
  BY <1>3, <1>6, <1>8 DEF Reads
<1>10. PICK lines : lines = Lines(buffer \o Chunk)
  OBVIOUS
<1>11. /\ Len(lines) = t /\ \A k \in 1..t : lines[k] = Line(f, q + k)
       /\ Partial(buffer \o Chunk) = Run(f, q + t, m - t * L)
  BY <1>3, <1>6, <1>8, <1>10 DEF Reads
<1>12. delivered' = delivered \o lines /\ buffer' = Partial(buffer \o Chunk) /\ offset' = offset + n
  <2>1. /\ delivered' = delivered \o Lines(buffer \o Chunk) /\ buffer' = Partial(buffer \o Chunk)
        /\ offset' = offset + Len(Chunk)
    BY DEF Read
  <2>2. QED
    BY ONLY <2>1, <1>7, <1>10
<1>13. lines \in Seq(S) /\ delivered \in Seq(S)
  <2>1. buffer \in Seq(Byte) /\ delivered \in Seq(S)
    BY DEF TypeOK
  <2>2. buffer \o Chunk \in Seq(Byte)
    BY <1>7, <2>1, ConcatProperties
  <2>3. QED
    BY <1>10, <2>1, <2>2, Splits
<1> HIDE DEF S
<1>14. PICK d \in Nat : d = Len(delivered)
  BY <1>13, LenProperties
<1>15. /\ Len(delivered') = d + t
       /\ \A k \in 1..d : delivered'[k] = delivered[k]
       /\ \A k \in 1..t : delivered'[d + k] = Line(f, q + k)
  <2>1. /\ Len(delivered \o lines) = d + t
        /\ \A k \in 1..(d + t) :
             (delivered \o lines)[k] = IF k <= d THEN delivered[k] ELSE lines[k - d]
    <3>1. Len(lines) = t /\ Len(delivered) = d
      BY <1>11, <1>14
    <3>2. /\ Len(delivered \o lines) = Len(delivered) + Len(lines)
          /\ \A k \in 1..(Len(delivered) + Len(lines)) :
               (delivered \o lines)[k]
                 = IF k <= Len(delivered) THEN delivered[k] ELSE lines[k - Len(delivered)]
      BY ONLY <1>13, ConcatProperties
    <3>3. QED
      BY ONLY <3>1, <3>2
  <2>2. ASSUME NEW k \in 1..d PROVE delivered'[k] = delivered[k]
    <3>1. k \in 1..(d + t) /\ k <= d
      OBVIOUS
    <3>2. QED
      BY <1>12, <2>1, <3>1
  <2>3. ASSUME NEW k \in 1..t PROVE delivered'[d + k] = Line(f, q + k)
    <3>1. d + k \in 1..(d + t) /\ ~(d + k <= d) /\ (d + k) - d = k
      OBVIOUS
    <3>2. QED
      BY <1>11, <1>12, <2>1, <3>1
  <2>4. QED
    BY <1>12, <2>1, <2>2, <2>3
<1>16. PathInv'
  <2>1. offset' <= size
    BY <1>2, <1>7, <1>5, <1>12
  <2>2. QED
    BY <1>1, <1>2, <2>1 DEF PathInv
<1>17. /\ (q + t) * L = q * L + t * L /\ t * L \in Nat /\ (t + 1) * L = t * L + L
       /\ offset' = (q + t) * L + (m - t * L)
       /\ q + t <= (q + t) * L /\ (q + t) * L \in Nat
       /\ m - t * L \in Nat /\ m - t * L < L
  <2>1. t \in Nat /\ q + t \in Nat
    BY <1>5
  <2>2. /\ (q + t) * L = q * L + t * L /\ t * L \in Nat /\ (t + 1) * L = t * L + 1 * L
        /\ q + t <= (q + t) * L /\ (q + t) * L \in Nat
    BY <1>5, <2>1, Times
  <2>3. 1 * L = L
    OBVIOUS
  <2>4. m - t * L \in Nat
    BY <1>9, <2>2
  <2>5. m - t * L < L
    BY <1>9, <2>2, <2>3
  <2>6. offset' = (q + t) * L + (m - t * L)
    BY <1>5, <1>8, <1>12, <2>2
  <2>7. QED
    BY <2>2, <2>3, <2>4, <2>5, <2>6
<1>18. offset' <= MaxSize /\ (q + t) * L <= MaxSize /\ q + t <= MaxSize
  BY <1>7, <1>5, <1>12, <1>17
<1>19. ASSUME NEW k \in 1..t
       PROVE  <<f, q + k>> \in LineIds /\ q + k \in 1..MaxSize
  <2>1. q + k \in Nat /\ q + k >= 1 /\ q + k <= q + t
    BY <1>5
  <2>2. (q + k) * L <= (q + t) * L /\ (q + k) * L \in Nat
    <3>1. q + k < q + t => (q + k) * L < (q + t) * L
      BY <1>5, <2>1, Times
    <3>2. (q + k) * L \in Nat
      BY <2>1, Times
    <3>3. QED
      BY <1>17, <2>1, <3>1, <3>2
  <2>3. q + k \in 1..MaxSize
    BY <1>5, <1>18, <2>1
  <2>4. (q + k) * L <= MaxSize
    BY <1>5, <1>17, <1>18, <2>2
  <2>5. QED
    BY <1>3, <2>3, <2>4 DEF LineIds
<1>20. /\ q > 0 => d > 0 /\ delivered[d] = Line(f, q)
       /\ q = 0 /\ d > 0 => \E g \in 1..(f - 1), l \in 1..MaxSize :
                              <<g, l>> \in LineIds /\ delivered[d] = Line(g, l)
  <2>1. delivered # <<>> <=> d > 0
    BY <1>13, <1>14, EmptySeq
  <2>2. QED
    BY <1>3, <1>4, <1>14, <2>1 DEF Behind
<1>21. delivered' # <<>> <=> d + t > 0
  <2>1. delivered' \in Seq(S)
    BY <1>12, <1>13, ConcatProperties
  <2>2. QED
    BY <1>15, <2>1, EmptySeq
<1>22. BufferInv'
  <2>1. q + t > 0 => delivered' # <<>> /\ delivered'[Len(delivered')] = Line(f, q + t)
    <3>1. CASE t = 0
      BY <1>5, <1>15, <1>20, <1>21, <3>1
    <3>2. CASE t > 0
      BY <1>15, <1>21, <3>2
    <3>3. QED
      BY <3>1, <3>2
  <2>2. q + t = 0 /\ delivered' # <<>> =>
          \E g \in 1..(f - 1), l \in 1..MaxSize :
            <<g, l>> \in LineIds /\ delivered'[Len(delivered')] = Line(g, l)
    <3>1. q + t = 0 /\ d + t > 0 => q = 0 /\ t = 0 /\ d > 0 /\ d \in 1..d /\ Len(delivered') = d
      BY <1>5, <1>15
    <3>2. QED
      BY <1>15, <1>20, <1>21, <3>1
  <2>3. Behind(q + t, m - t * L)'
    BY <1>1, <1>3, <1>11, <1>12, <1>17, <2>1, <2>2 DEF Behind, Run, Line
  <2>4. q + t \in 0..MaxSize /\ m - t * L \in 0..MaxSize
    BY <1>5, <1>17, <1>18
  <2>5. QED
    BY <2>3, <2>4 DEF BufferInv
<1>23. \A k \in 1..(d + t) : k \in 1..d \/ \E j \in 1..t : k = d + j
  <2> SUFFICES ASSUME NEW k \in 1..(d + t), k \notin 1..d PROVE \E j \in 1..t : k = d + j
    OBVIOUS
  <2>1. k - d \in 1..t /\ k = d + (k - d)
    OBVIOUS
  <2>2. QED
    BY <2>1
<1>24. WholeLines'
  <2> SUFFICES ASSUME NEW k \in 1..(d + t)
               PROVE  \E id \in LineIds : delivered'[k] = Line(id[1], id[2])
    BY <1>15 DEF WholeLines, IsLine
  <2>1. CASE k \in 1..d
    <3>1. \E id \in LineIds : delivered[k] = Line(id[1], id[2])
      BY <1>1, <1>14, <2>1 DEF WholeLines, IsLine
    <3>2. QED
      BY <1>15, <2>1, <3>1
  <2>2. CASE \E j \in 1..t : k = d + j
    <3>1. PICK j \in 1..t : k = d + j
      BY <2>2
    <3>2. delivered'[k] = Line(<<f, q + j>>[1], <<f, q + j>>[2])
      BY <1>15, <3>1
    <3>3. QED
      BY <1>19, <3>2
  <2>3. QED
    BY <1>23, <2>1, <2>2
<1>25. InTurn'
  <2> SUFFICES ASSUME NEW k \in 1..(d + t), NEW id \in LineIds,
                      delivered'[k] = Line(id[1], id[2])
               PROVE  \/ k = 1 /\ id[2] = 1
                      \/ k > 1 /\ id[2] = 1 /\ \E g \in 1..(id[1] - 1), l \in 1..MaxSize :
                           <<g, l>> \in LineIds /\ delivered'[k - 1] = Line(g, l)
                      \/ k > 1 /\ id[2] > 1 /\ delivered'[k - 1] = Line(id[1], id[2] - 1)
    BY <1>15 DEF InTurn, IsLine
  <2>1. CASE k \in 1..d
    <3>1. delivered[k] = Line(id[1], id[2])
      BY <1>15, <2>1
    <3>2. \/ k = 1 /\ id[2] = 1
          \/ k > 1 /\ id[2] = 1 /\ \E g \in 1..(id[1] - 1), l \in 1..MaxSize :
               <<g, l>> \in LineIds /\ delivered[k - 1] = Line(g, l)
          \/ k > 1 /\ id[2] > 1 /\ delivered[k - 1] = Line(id[1], id[2] - 1)
      BY <1>1, <1>14, <2>1, <3>1 DEF InTurn, IsLine
    <3>3. k > 1 => delivered'[k - 1] = delivered[k - 1]
      BY <1>15, <2>1
    <3>4. QED
      BY <3>2, <3>3
  <2>2. CASE \E j \in 1..t : k = d + j
    <3>1. PICK j \in 1..t : k = d + j
      BY <2>2
    <3>2. delivered'[k] = Line(f, q + j)
      BY <1>15, <3>1
    <3>3. id[1] \in Files /\ id[2] \in Int
      BY DEF LineIds
    <3>4. id[1] = f /\ id[2] = q + j
      <4>1. q + j \in Int /\ Line(id[1], id[2]) = Line(f, q + j)
        BY <1>5, <3>2
      <4>2. QED
        BY <3>3, <4>1, LineIsOne
    <3>5. CASE j > 1
      <4>1. j - 1 \in 1..t /\ k - 1 = d + (j - 1) /\ k > 1 /\ q + j > 1 /\ q + (j - 1) = (q + j) - 1
        BY <1>5, <3>1, <3>5
      <4>2. delivered'[k - 1] = Line(f, (q + j) - 1)
        BY <1>15, <4>1
      <4>3. QED
        BY <3>4, <4>1, <4>2
    <3>6. CASE j = 1 /\ q > 0
      <4>1. d \in 1..d /\ k - 1 = d /\ k > 1 /\ q + j > 1 /\ (q + j) - 1 = q
        BY <1>5, <1>20, <3>1, <3>6
      <4>2. delivered'[k - 1] = Line(f, (q + j) - 1)
        BY <1>15, <1>20, <3>6, <4>1
      <4>3. QED
        BY <3>4, <4>1, <4>2
    <3>7. CASE j = 1 /\ q = 0 /\ d > 0
      <4>1. d \in 1..d /\ k - 1 = d /\ k > 1 /\ q + j = 1
        BY <3>1, <3>7
      <4>2. \E g \in 1..(f - 1), l \in 1..MaxSize :
              <<g, l>> \in LineIds /\ delivered'[k - 1] = Line(g, l)
        BY <1>15, <1>20, <3>7, <4>1
      <4>3. QED
        BY <3>4, <4>1, <4>2
    <3>8. CASE j = 1 /\ q = 0 /\ d = 0
      BY <3>1, <3>4, <3>8
    <3>9. QED
      BY <1>5, <3>5, <3>6, <3>7, <3>8
  <2>3. QED
    BY <1>23, <2>1, <2>2
<1>26. QED
  BY <1>16, <1>22, <1>24, <1>25

\* Whatever is rotated, renamed or truncated: as long as no new file came
\* between the stat and the open of a poll, and none that took the inode number
\* of the old one grew past the old offset unseen, the tailer stands where the
\* lines delivered end.
THEOREM Inductive ==
  ASSUME OutpacesRefill PROVE Spec => [](TypeOK /\ RightInv)
<1>1. Init => TypeOK /\ RightInv
  <2> SUFFICES ASSUME Init, TypeOK PROVE RightInv
    BY InitTypeOK
  <2>1. PathInv
    BY DEF Init, PathInv
  <2>2. BufferInv
    <3>1. LineLen[1] \in Nat \ {0} /\ 0 \in 0..MaxSize
      BY FilesAssumption, LineAssumption, BoundAssumption DEF Files
    <3>2. /\ 0 < LineLen[1] /\ 0 * LineLen[1] = 0
          /\ [i \in 1..0 |-> <<1, 0 * LineLen[1] + i>>] = <<>>
      BY <3>1
    <3>3. Behind(0, 0)
      BY <3>2 DEF Init, Behind
    <3>4. QED
      BY <3>1, <3>3 DEF BufferInv
  <2>3. Len(delivered) = 0
    BY DEF Init
  <2>4. WholeLines /\ InTurn
    BY <2>3 DEF WholeLines, InTurn
  <2>5. QED
    BY <2>1, <2>2, <2>4 DEF RightInv
<1>2. TypeOK /\ RightInv /\ [Next]_vars => RightInv'
  <2> SUFFICES ASSUME TypeOK, RightInv, [Next]_vars PROVE RightInv'
    OBVIOUS
  <2>1. CASE UNCHANGED vars
    <3>1. UNCHANGED <<present, file, size, inode, offset, buffer, known, stage, delivered, follows, torn>>
      BY <2>1 DEF vars, path, tailer
    <3>2. torn \/ (PathInv' /\ BufferInv' /\ WholeLines' /\ InTurn')
      BY <3>1, Kept DEF RightInv, PathInv
    <3>3. QED
      BY <3>1, <3>2 DEF RightInv
  <2>2. CASE StatFails
    <3>1. UNCHANGED <<present, file, size, inode, offset, buffer, known, stage, delivered, follows, torn>>
      BY <2>2 DEF StatFails, vars, path, tailer
    <3>2. torn \/ (PathInv' /\ BufferInv' /\ WholeLines' /\ InTurn')
      BY <3>1, Kept DEF RightInv, PathInv
    <3>3. QED
      BY <3>1, <3>2 DEF RightInv
  <2>3. QED
    BY <2>1, <2>2, PathRight, StatRight, ReadRight DEF Next, Poll
<1>3. QED
  BY <1>1, <1>2, TypeCorrect, PTL DEF Spec

\* Then lines come whole and in turn.
THEOREM LinesAreRight ==
  ASSUME OutpacesRefill PROVE Spec => []RightUnlessTorn
<1>1. RightInv => RightUnlessTorn
  BY DEF RightInv, RightUnlessTorn
<1>2. QED
  BY <1>1, Inductive, PTL

-----------------------------------------------------------------------------
(* The refinement of LineReader *)

Complete == size \div LineLen[file]
Taken == offset \div LineLen[follows]

LEMMA Quotient ==
  ASSUME NEW L \in Nat \ {0}, NEW q \in Nat, NEW n \in Nat, q * L <= n, n < (q + 1) * L
  PROVE  n \div L = q
OBVIOUS

LEMMA QuotientThere ==
  ASSUME NEW L \in Nat \ {0}, NEW n \in Nat
  PROVE  \E q \in 0..n : n \div L = q /\ q * L <= n /\ n < (q + 1) * L
<1>1. PICK q \in 0..n : q * L <= n /\ n < (q + 1) * L
  BY Division
<1>2. n \div L = q
  BY <1>1, Quotient
<1>3. QED
  BY <1>1, <1>2

\* One more byte ends at most one more line.
LEMMA QuotientGrows ==
  ASSUME NEW L \in Nat \ {0}, NEW n \in Nat
  PROVE  (n + 1) \div L = n \div L \/ (n + 1) \div L = (n \div L) + 1
<1>1. PICK q \in 0..n : n \div L = q /\ q * L <= n /\ n < (q + 1) * L
  BY QuotientThere
<1>2. /\ q \in Nat /\ q + 1 \in Nat /\ n + 1 \in Nat /\ q * L \in Int /\ (q + 1) * L \in Int
      /\ ((q + 1) + 1) * L = (q + 1) * L + L
  <2>1. q \in Nat /\ q + 1 \in Nat /\ n + 1 \in Nat /\ 1 * L = L
    OBVIOUS
  <2>2. q * L \in Int /\ (q + 1) * L \in Int /\ ((q + 1) + 1) * L = (q + 1) * L + 1 * L
    BY <2>1, Times
  <2>3. QED
    BY <2>1, <2>2
<1>3. CASE n + 1 < (q + 1) * L
  <2>1. q * L <= n + 1
    BY <1>1, <1>2
  <2>2. (n + 1) \div L = q
    BY <1>2, <1>3, <2>1, Quotient
  <2>3. QED
    BY <1>1, <2>2
<1>4. CASE ~(n + 1 < (q + 1) * L)
  <2>1. (q + 1) * L <= n + 1 /\ n + 1 < ((q + 1) + 1) * L
    BY <1>1, <1>2, <1>4
  <2>2. (n + 1) \div L = q + 1
    BY <1>2, <2>1, Quotient
  <2>3. QED
    BY <1>1, <2>2
<1>5. QED
  BY <1>3, <1>4

\* Where the offset stands tells how many lines were taken.
LEMMA TakenIs ==
  ASSUME TypeOK, NEW q \in Nat, NEW r \in Nat, Behind(q, r)
  PROVE  Taken = q
<1>1. PICK L \in Nat \ {0} : L = LineLen[follows]
  BY LineAssumption DEF TypeOK
<1>2. offset = q * L + r /\ r < L
  BY <1>1 DEF Behind
<1>3. (q + 1) * L = q * L + 1 * L /\ q * L \in Nat
  BY Times
<1>4. q * L <= offset /\ offset < (q + 1) * L /\ offset \in Nat
  BY <1>2, <1>3
<1>5. offset \div L = q
  BY <1>4, Quotient
<1>6. QED
  BY <1>1, <1>5 DEF Taken

\* A read takes the next lines, all of them complete.
LEMMA ReadTakes ==
  ASSUME TypeOK, RightInv, Read, ~torn'
  PROVE  \E q, t \in Nat :
           /\ Taken = q /\ Taken' = q + t
           /\ q + t <= Complete /\ q + t <= MaxSize
           /\ delivered' = delivered \o [k \in 1..t |-> Line(follows, q + k)]
<1>1. PathInv /\ BufferInv /\ follows = file /\ UNCHANGED <<file, size, follows>>
  BY DEF RightInv, Read, path, PathInv
<1>2. PICK f \in Files, L \in Nat \ {0} : f = follows /\ L = LineLen[f]
  BY LineAssumption DEF TypeOK
<1>3. PICK q \in 0..MaxSize, r \in 0..MaxSize : Behind(q, r)
  BY <1>1 DEF BufferInv
<1>4. PICK n, t \in Nat : Reads(q, r, n, t)
  BY <1>1, <1>3, ChunkLines
<1>5. /\ q \in Nat /\ r \in Nat /\ q + t \in Nat
      /\ offset \in Nat /\ size \in Nat /\ size <= MaxSize /\ MaxSize \in Nat
  BY BoundAssumption, Ranges DEF TypeOK
<1>6. offset' = offset + n /\ delivered' = delivered \o Lines(buffer \o Chunk)
  BY <1>4 DEF Read, Reads
<1>7. /\ offset' = q * L + (r + n)
      /\ t * L <= r + n /\ r + n < (t + 1) * L
      /\ offset' <= size /\ offset' \in Nat
  <2>1. offset = q * L + r
    BY <1>2, <1>3 DEF Behind
  <2>2. t * L <= r + n /\ r + n < (t + 1) * L
    BY <1>2, <1>4 DEF Reads
  <2>3. n = 0 \/ offset + n <= size
    BY <1>4 DEF Reads
  <2>4. offset <= size
    BY <1>1 DEF PathInv, Read
  <2>5. q * L \in Nat
    BY <1>5, Times
  <2>6. QED
    BY <1>5, <1>6, <2>1, <2>2, <2>3, <2>4, <2>5
<1>8. (q + t) * L <= offset' /\ offset' < ((q + t) + 1) * L
  <2>1. (q + t) * L = q * L + t * L /\ q * L \in Nat /\ t * L \in Nat
    BY <1>5, Times
  <2>2. ((q + t) + 1) * L = (q + t) * L + 1 * L /\ (t + 1) * L = t * L + 1 * L
    BY <1>5, Times
  <2>3. QED
    BY <1>5, <1>7, <2>1, <2>2
<1>9. Taken = q
  BY <1>3, <1>5, TakenIs
<1>10. Taken' = q + t
  <2>1. offset' \div L = q + t
    BY <1>5, <1>7, <1>8, Quotient
  <2>2. QED
    BY <1>1, <1>2, <2>1 DEF Taken
<1>11. q + t <= Complete /\ q + t <= MaxSize
  <2>1. PICK c \in 0..size : size \div L = c /\ size < (c + 1) * L
    BY <1>5, QuotientThere
  <2>2. (q + t) * L < (c + 1) * L
    <3>1. (q + t) * L \in Nat /\ (c + 1) * L \in Nat
      BY <1>5, <2>1, Times
    <3>2. QED
      BY <1>5, <1>7, <1>8, <2>1, <3>1
  <2>3. q + t < c + 1
    BY <1>5, <2>2, Times
  <2>4. Complete = c
    BY <1>1, <1>2, <2>1 DEF Complete
  <2>5. QED
    BY <1>5, <2>3, <2>4
<1>12. Lines(buffer \o Chunk) = [k \in 1..t |-> Line(follows, q + k)]
  <2>1. PICK lines : lines = Lines(buffer \o Chunk)
    OBVIOUS
  <2>2. Len(lines) = t /\ \A k \in 1..t : lines[k] = Line(follows, q + k)
    BY <1>4, <2>1 DEF Reads
  <2>3. lines \in Seq(Seq(Byte))
    <3>1. buffer \in Seq(Byte) /\ Chunk \in Seq(Byte)
      BY <1>4 DEF TypeOK, Reads
    <3>2. buffer \o Chunk \in Seq(Byte)
      BY ONLY <3>1, ConcatProperties
    <3>3. QED
      BY <2>1, <3>2, Splits
  <2>4. lines = [k \in 1..t |-> lines[k]]
    BY ONLY <2>2, <2>3, LenProperties
  <2>5. QED
    BY ONLY <2>1, <2>2, <2>4
<1>13. QED
  BY ONLY <1>5, <1>6, <1>9, <1>10, <1>11, <1>12, <1>4

\* A byte more may complete a line; a new file has none.
LEMMA PathSteps ==
  ASSUME TypeOK, Append1 \/ Created \/ Truncated
  PROVE  /\ follows' = follows /\ Taken' = Taken /\ delivered' = delivered
         /\ \/ file' = file /\ (Complete' = Complete \/ Complete' = Complete + 1)
            \/ file' \in Files /\ file' > file /\ Complete' = 0
<1>1. follows' = follows /\ offset' = offset /\ delivered' = delivered
  BY DEF Append1, Created, Truncated, tailer
<1>2. Taken' = Taken
  BY <1>1 DEF Taken
<1>3. CASE Append1
  <2>1. file' = file /\ size' = size + 1
    BY <1>3 DEF Append1
  <2>2. LineLen[file] \in Nat \ {0} /\ size \in Nat
    BY LineAssumption, Ranges DEF TypeOK
  <2>3. \/ (size + 1) \div LineLen[file] = size \div LineLen[file]
        \/ (size + 1) \div LineLen[file] = (size \div LineLen[file]) + 1
    BY <2>2, QuotientGrows
  <2>4. QED
    BY <1>1, <1>2, <2>1, <2>3 DEF Complete
<1>4. CASE Created \/ Truncated
  <2>1. file + 1 \in Files /\ file' = file + 1 /\ size' = 0
    BY <1>4 DEF Created, Truncated
  <2>2. PICK L \in Nat \ {0} : L = LineLen[file + 1]
    BY <2>1, LineAssumption
  <2>3. 0 \div L = 0
    BY <2>2, Quotient
  <2>4. Complete' = 0
    BY <2>1, <2>2, <2>3 DEF Complete
  <2>5. QED
    BY <1>1, <1>2, <2>1, <2>4, Ranges
<1>5. QED
  BY <1>3, <1>4

\* A stat changes over to the file at the path, from its first line on, or
\* leaves everything as it was.
LEMMA StatSwitches ==
  ASSUME TypeOK, RightInv, Stat, ~torn'
  PROVE  /\ file' = file /\ Complete' = Complete /\ delivered' = delivered
         /\ \/ follows' = follows /\ Taken' = Taken
            \/ follows < file /\ follows' = file /\ Taken' = 0
<1>1. /\ PathInv /\ follows' = file /\ UNCHANGED <<file, size, delivered>>
  BY DEF RightInv, Stat, path
<1>2. Complete' = Complete
  BY <1>1 DEF Complete
<1>3. \/ follows' = follows /\ offset' = offset
      \/ follows < file /\ offset' = 0
  BY StatOffset DEF Stat
<1>4. CASE follows' = follows /\ offset' = offset
  <2>1. Taken' = Taken
    BY <1>4 DEF Taken
  <2>2. QED
    BY <1>1, <1>2, <1>4, <2>1
<1>5. CASE follows < file /\ offset' = 0
  <2>1. PICK L \in Nat \ {0} : L = LineLen[file]
    BY LineAssumption DEF TypeOK
  <2>2. 0 \div L = 0
    BY <2>1, Quotient
  <2>3. Taken' = 0
    BY <1>1, <1>5, <2>1, <2>2 DEF Taken
  <2>4. QED
    BY <1>1, <1>2, <1>5, <2>3
<1>6. QED
  BY <1>3, <1>4, <1>5

LEMMA OthersStutter ==
  ASSUME Renamed \/ OpenFails \/ UNCHANGED vars
  PROVE  UNCHANGED <<file, Complete, follows, Taken, delivered>>
<1>1. UNCHANGED <<file, size, follows, offset, delivered>>
  BY DEF Renamed, OpenFails, vars, path, tailer
<1>2. QED
  BY <1>1 DEF Complete, Taken

\* The session that polls a tailer may take it for a LineReader: however the
\* file is written, replaced and truncated, and in whatever pieces its bytes
\* are read, each step of the tailer is one of following the path line by line
\* or does not show, as long as no new file came in the middle of a poll.
THEOREM ReaderRefinement ==
  ASSUME OutpacesRefill PROVE Spec => ImplementsReader
<1>1. Init => Reader!Init
  <2> SUFFICES ASSUME Init PROVE Reader!Init
    OBVIOUS
  <2>1. file = 1 /\ size = 0 /\ follows = 1 /\ offset = 0 /\ delivered = <<>>
    BY DEF Init
  <2>2. PICK L \in Nat \ {0} : L = LineLen[1]
    BY FilesAssumption, LineAssumption DEF Files
  <2>3. 0 \div L = 0
    BY <2>2, Quotient
  <2>4. QED
    BY <2>1, <2>2, <2>3 DEF Reader!Init
<1>2. TypeOK /\ RightInv /\ [Next]_vars => [~torn' => [Reader!Next]_(Reader!reader)]_vars
  <2> SUFFICES ASSUME TypeOK, RightInv, [Next]_vars, ~torn'
               PROVE  Reader!Next \/ UNCHANGED Reader!reader
    OBVIOUS
  <2>1. CASE Append1 \/ Created \/ Truncated
    BY <2>1, PathSteps
       DEF Complete, Taken, Reader!Next, Reader!Write, Reader!Replace, Reader!reader
  <2>2. CASE Stat
    BY <2>2, StatSwitches DEF Complete, Taken, Reader!Next, Reader!Switch, Reader!reader
  <2>3. CASE Read
    <3>1. PICK q, t \in Nat :
            /\ Taken = q /\ Taken' = q + t
            /\ q + t <= Complete /\ q + t <= MaxSize
            /\ delivered' = delivered \o [k \in 1..t |-> Line(follows, q + k)]
      BY <2>3, ReadTakes
    <3>2. follows = file /\ follows \in Files /\ UNCHANGED <<file, size, follows>>
      BY <2>3 DEF Read, path, RightInv, PathInv, TypeOK
    <3>3. Complete' = Complete
      BY <3>2 DEF Complete
    <3>4. CASE t = 0
      <4>1. delivered' = delivered
        <5>1. [k \in 1..t |-> Line(follows, q + k)] = <<>>
          BY <3>4
        <5>2. delivered \in Seq(Seq(Byte))
          BY DEF TypeOK
        <5>3. QED
          BY <3>1, <5>1, <5>2, ConcatEmptySeq
      <4>2. Taken' = Taken
        BY <3>1, <3>4
      <4>3. QED
        BY <3>2, <3>3, <4>1, <4>2 DEF Complete, Taken, Reader!reader
    <3>5. CASE t # 0
      <4> DEFINE LineAt == [id \in Files \X (1..MaxSize) |-> Line(id[1], id[2])]
      <4>1. ASSUME NEW k \in 1..t PROVE LineAt[<<follows, q + k>>] = Line(follows, q + k)
        <5>1. <<follows, q + k>> \in Files \X (1..MaxSize)
          BY <3>1, <3>2, BoundAssumption
        <5>2. QED
          BY <5>1
      <4> HIDE DEF LineAt
      <4>2. [k \in 1..t |-> Line(follows, q + k)] = [k \in 1..t |-> LineAt[<<follows, q + k>>]]
        BY <4>1
      <4>3. Complete \in Int
        BY LineAssumption, Ranges DEF Complete, TypeOK
      <4>4. t \in 1..Complete
        BY <3>1, <3>5, <4>3
      <4>5. delivered' = delivered \o [k \in 1..t |-> LineAt[<<follows, Taken + k>>]]
        BY <3>1, <4>2
      <4>6. Taken + t <= Complete /\ Taken' = Taken + t
        BY <3>1
      <4>7. Reader!Return(t)
        BY <3>2, <3>3, <4>5, <4>6 DEF Reader!Return, Complete, Taken, LineAt
      <4>8. QED
        BY <4>4, <4>7 DEF Reader!Next, Complete
    <3>6. QED
      BY <3>4, <3>5
  <2>4. QED
    BY <2>1, <2>2, <2>3, OthersStutter
       DEF Next, Poll, StatFails, Complete, Taken, Reader!reader
<1>3. QED
  BY <1>1, <1>2, Inductive, PTL DEF Spec, ImplementsReader
=============================================================================
