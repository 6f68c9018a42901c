------------------------- MODULE WatchSessionProofs -------------------------
(***************************************************************************)
(* The watch session and its correlation, for any number of files, lines,  *)
(* rotations and rules, and any size of the sniff buffer.                  *)
(***************************************************************************)
EXTENDS WatchSession, FiniteSetTheorems, SequenceTheorems, NaturalsInduction,
        WellFoundedInduction, TLAPS

-----------------------------------------------------------------------------
(* Numbers and finite sets of them *)

LEMMA LeastNumber ==
  ASSUME NEW T, T \subseteq Nat, T # {}
  PROVE  \E x \in T : \A y \in T : x <= y
<1>1. PICK x \in T : \A y \in T : ~ (<<y, x>> \in OpToRel(<, Nat))
  BY NatLessThanWellFounded, WFMin
<1>2. \A y \in T : ~(y < x)
  BY <1>1 DEF OpToRel
<1>3. QED
  BY <1>2

LEMMA SetInduction ==
  ASSUME NEW S, 0 \in S, \A n \in Nat : n \in S => n + 1 \in S
  PROVE  Nat \subseteq S
<1> SUFFICES ASSUME Nat \ S # {} PROVE FALSE
  OBVIOUS
<1>1. PICK x \in Nat \ S : \A y \in Nat \ S : x <= y
  BY LeastNumber
<1>2. x - 1 \in Nat /\ x - 1 \in S
  BY <1>1
<1>3. QED
  BY <1>1, <1>2

\* A row of numbers has a bound.
LEMMA BoundOfRow ==
  ASSUME NEW n \in Nat, NEW d \in [1..n -> Nat]
  PROVE  \E b \in Nat : \A i \in 1..n : d[i] <= b
<1> DEFINE S == {k \in Nat : k <= n => \E b \in Nat : \A i \in 1..k : d[i] <= b}
<1>1. 0 \in S
  OBVIOUS
<1>2. ASSUME NEW k \in Nat, k \in S PROVE k + 1 \in S
  <2> SUFFICES ASSUME k + 1 <= n PROVE \E b \in Nat : \A i \in 1..(k + 1) : d[i] <= b
    OBVIOUS
  <2>1. PICK b \in Nat : \A i \in 1..k : d[i] <= b
    BY <1>2
  <2>2. d[k + 1] \in Nat
    OBVIOUS
  <2>3. \A i \in 1..(k + 1) : d[i] \in Nat /\ (i \in 1..k \/ i = k + 1)
    OBVIOUS
  <2>4. ASSUME NEW i \in 1..(k + 1) PROVE d[i] <= b + d[k + 1]
    <3>1. d[i] \in Nat /\ (d[i] <= b \/ d[i] = d[k + 1])
      BY <2>1, <2>3
    <3>2. QED
      BY ONLY b \in Nat, <2>2, <3>1
  <2>5. QED
    BY <2>2, <2>4
<1> HIDE DEF S
<1>3. n \in S
  BY <1>1, <1>2, SetInduction
<1>4. QED
  BY <1>3 DEF S

LEMMA LargestOfFinite ==
  ASSUME NEW T, T \subseteq Nat, T # {}, IsFiniteSet(T)
  PROVE  Largest(T) \in T /\ \A y \in T : y <= Largest(T)
<1>1. PICK n \in Nat : ExistsSurjection(1..n, T)
  BY FS_NatSurjection
<1>2. PICK d \in [1..n -> T] : \A y \in T : \E i \in 1..n : d[i] = y
  BY <1>1 DEF ExistsSurjection, Surjection
<1>3. PICK b \in Nat : \A i \in 1..n : d[i] <= b
  BY <1>2, BoundOfRow
<1> DEFINE B == {c \in Nat : \A y \in T : y <= c}
<1>4. b \in B
  BY <1>2, <1>3
<1>5. PICK c \in B : \A e \in B : c <= e
  BY <1>4, LeastNumber
<1>6. c \in T
  <2> SUFFICES ASSUME c \notin T PROVE FALSE
    OBVIOUS
  <2>1. PICK y \in T : TRUE
    OBVIOUS
  <2>2. \A x \in T : x \in Nat /\ x <= c /\ x # c
    OBVIOUS
  <2>3. c - 1 \in B
    BY <2>1, <2>2
  <2>4. QED
    BY <1>5, <2>3
<1>7. \E x \in T : \A y \in T : y <= x
  BY <1>6
<1>8. QED
  BY <1>7 DEF Largest

-----------------------------------------------------------------------------
(* Entries in order *)

\* Entries that point to lines up to a line of the file, in order, after those
\* that were dropped.
Orderly(w, dropped, unrotated, upto) ==
  /\ w \in Seq(Entry) /\ \A k \in DOMAIN w : w[k].at \in 1..upto
  /\ \A j, k \in DOMAIN w : j < k => w[j].at < w[k].at
  /\ \A i \in dropped, k \in DOMAIN w : i < w[k].at
  /\ dropped # {} => Len(w) >= MaxSniff
  /\ unrotated => \A k \in DOMAIN w : w[k].no = w[k].at

LEMMA JoinedEntries ==
  ASSUME NEW s \in Seq(Entry), NEW t \in Seq(Entry)
  PROVE  /\ s \o t \in Seq(Entry) /\ Len(s \o t) = Len(s) + Len(t)
         /\ Len(s) \in Nat /\ Len(t) \in Nat
         /\ DOMAIN s = 1..Len(s) /\ DOMAIN t = 1..Len(t)
         /\ DOMAIN (s \o t) = 1..(Len(s) + Len(t))
         /\ \A k \in 1..(Len(s) + Len(t)) :
              (s \o t)[k] = IF k <= Len(s) THEN s[k] ELSE t[k - Len(s)]
         /\ At(s \o t) = At(s) \cup At(t)
<1>1. /\ s \o t \in Seq(Entry) /\ Len(s \o t) = Len(s) + Len(t)
      /\ \A k \in 1..(Len(s) + Len(t)) :
           (s \o t)[k] = IF k <= Len(s) THEN s[k] ELSE t[k - Len(s)]
  BY ConcatProperties
<1>2. /\ Len(s) \in Nat /\ Len(t) \in Nat
      /\ DOMAIN s = 1..Len(s) /\ DOMAIN t = 1..Len(t)
  BY LenProperties
<1>3. DOMAIN (s \o t) = 1..(Len(s) + Len(t))
  BY <1>1, LenProperties
<1>4. ASSUME NEW k \in DOMAIN (s \o t) PROVE (s \o t)[k].at \in At(s) \cup At(t)
  <2>1. CASE k <= Len(s)
    BY <1>1, <1>2, <1>3, <2>1 DEF At
  <2>2. CASE ~(k <= Len(s))
    <3>1. k - Len(s) \in 1..Len(t) /\ (s \o t)[k] = t[k - Len(s)]
      BY <1>1, <1>2, <1>3, <2>2
    <3>2. QED
      BY <1>2, <3>1 DEF At
  <2>3. QED
    BY <2>1, <2>2
<1>5. ASSUME NEW k \in DOMAIN s PROVE s[k].at \in At(s \o t)
  <2>1. k \in 1..(Len(s) + Len(t)) /\ k <= Len(s)
    BY <1>2
  <2>2. (s \o t)[k] = s[k]
    BY <1>1, <2>1
  <2>3. QED
    BY <1>3, <2>1, <2>2 DEF At
<1>6. ASSUME NEW k \in DOMAIN t PROVE t[k].at \in At(s \o t)
  <2>1. k + Len(s) \in 1..(Len(s) + Len(t)) /\ ~(k + Len(s) <= Len(s))
    BY <1>2
  <2>2. (s \o t)[k + Len(s)] = t[(k + Len(s)) - Len(s)] /\ (k + Len(s)) - Len(s) = k
    BY <1>1, <1>2, <2>1
  <2>3. QED
    BY <1>3, <2>1, <2>2 DEF At
<1>7. At(s \o t) = At(s) \cup At(t)
  BY <1>4, <1>5, <1>6 DEF At
<1>8. QED
  BY <1>1, <1>2, <1>3, <1>7

\* Lines that were just read come after all others.
LEMMA Lengthened ==
  ASSUME NEW w, NEW D, NEW u \in BOOLEAN, NEW r \in Nat, Orderly(w, D, u, r), D \subseteq 1..r,
         NEW t \in Seq(Entry), \A k \in DOMAIN t : t[k].at = r + k,
         u => \A k \in DOMAIN t : t[k].no = t[k].at
  PROVE  Orderly(w \o t, D, u, r + Len(t))
<1>1. w \in Seq(Entry)
  BY DEF Orderly
<1>2. /\ w \o t \in Seq(Entry) /\ Len(w \o t) = Len(w) + Len(t)
      /\ Len(w) \in Nat /\ Len(t) \in Nat
      /\ DOMAIN w = 1..Len(w) /\ DOMAIN t = 1..Len(t)
      /\ DOMAIN (w \o t) = 1..(Len(w) + Len(t))
      /\ \A k \in 1..(Len(w) + Len(t)) :
           (w \o t)[k] = IF k <= Len(w) THEN w[k] ELSE t[k - Len(w)]
  BY <1>1, JoinedEntries
<1> DEFINE v == w \o t
<1>3. \A k \in DOMAIN w : w[k].at \in 1..r
  BY DEF Orderly
<1>4. ASSUME NEW k \in DOMAIN v
      PROVE  \/ k \in DOMAIN w /\ v[k] = w[k]
             \/ /\ k > Len(w) /\ k - Len(w) \in DOMAIN t
                /\ v[k] = t[k - Len(w)] /\ v[k].at = r + (k - Len(w))
  <2>1. CASE k <= Len(w)
    BY <1>2, <2>1
  <2>2. CASE ~(k <= Len(w))
    <3>1. k - Len(w) \in DOMAIN t /\ v[k] = t[k - Len(w)]
      BY <1>2, <2>2
    <3>2. t[k - Len(w)].at = r + (k - Len(w))
      BY <3>1
    <3>3. QED
      BY <1>2, <2>2, <3>1, <3>2
  <2>3. QED
    BY <2>1, <2>2
<1> HIDE DEF v
<1>5. \A k \in DOMAIN v : k \in Nat
  BY <1>2 DEF v
<1>6. \A k \in DOMAIN v : v[k].at \in 1..(r + Len(t))
  BY <1>2, <1>3, <1>4
<1>7. ASSUME NEW j \in DOMAIN v, NEW k \in DOMAIN v, j < k PROVE v[j].at < v[k].at
  <2>1. CASE k \in DOMAIN w /\ v[k] = w[k]
    <3>1. j \in DOMAIN w /\ v[j] = w[j]
      BY <1>2, <1>4, <1>5, <1>7, <2>1
    <3>2. QED
      BY <1>7, <2>1, <3>1 DEF Orderly
  <2>2. CASE k > Len(w) /\ v[k].at = r + (k - Len(w))
    <3>1. CASE j \in DOMAIN w /\ v[j] = w[j]
      BY <1>2, <1>3, <1>5, <2>2, <3>1
    <3>2. CASE j > Len(w) /\ v[j].at = r + (j - Len(w))
      BY <1>2, <1>5, <1>7, <2>2, <3>2
    <3>3. QED
      BY <1>4, <3>1, <3>2
  <2>3. QED
    BY <1>4, <2>1, <2>2
<1>8. ASSUME NEW i \in D, NEW k \in DOMAIN v PROVE i < v[k].at
  <2>1. i \in 1..r
    OBVIOUS
  <2>2. CASE k \in DOMAIN w /\ v[k] = w[k]
    BY <2>2 DEF Orderly
  <2>3. CASE k > Len(w) /\ v[k].at = r + (k - Len(w))
    BY <1>2, <1>5, <2>1, <2>3
  <2>4. QED
    BY <1>4, <2>2, <2>3
<1>9. D # {} => Len(v) >= MaxSniff
  <2>1. D # {} => Len(w) >= MaxSniff
    BY DEF Orderly
  <2>2. QED
    BY <1>2, <2>1, SniffAssumption DEF v
<1>10. u => \A k \in DOMAIN v : v[k].no = v[k].at
  BY <1>4 DEF Orderly
<1>11. v \in Seq(Entry)
  BY <1>2 DEF v
<1>12. Orderly(v, D, u, r + Len(t))
  BY <1>6, <1>7, <1>8, <1>9, <1>10, <1>11 DEF Orderly
<1>13. QED
  BY <1>12 DEF v

\* The oldest are dropped of more entries than fit the sniff buffer.
LEMMA Shortened ==
  ASSUME NEW w, NEW D, NEW u \in BOOLEAN, NEW r \in Nat, Orderly(w, D, u, r)
  PROVE  /\ Orderly(Capped(w), D \cup (At(w) \ At(Capped(w))), u, r)
         /\ Capped(w) \in Seq(Entry) /\ Len(Capped(w)) <= MaxSniff
<1>1. w \in Seq(Entry) /\ Len(w) \in Nat /\ DOMAIN w = 1..Len(w) /\ MaxSniff \in Nat \ {0}
  BY LenProperties, SniffAssumption DEF Orderly
<1>2. CASE ~(Len(w) > MaxSniff)
  <2>1. Capped(w) = w
    BY <1>2 DEF Capped
  <2>2. D \cup (At(w) \ At(Capped(w))) = D
    BY <2>1
  <2>3. Orderly(Capped(w), D \cup (At(w) \ At(Capped(w))), u, r)
    BY <2>1, <2>2
  <2>4. QED
    BY <1>1, <1>2, <2>1, <2>3
<1>3. CASE Len(w) > MaxSniff
  <2> DEFINE d == Len(w) - MaxSniff
             c == SubSeq(w, d + 1, Len(w))
  <2>1. d \in Nat /\ d + 1 \in Int /\ d >= 1 /\ Len(w) - (d + 1) + 1 = MaxSniff /\ d + 1 <= Len(w)
    BY <1>1, <1>3
  <2>2. \A i \in (d + 1)..Len(w) : w[i] \in Entry
    BY <1>1, <2>1, ElementOfSeq
  <2>3. /\ c \in Seq(Entry) /\ Len(c) = MaxSniff
        /\ \A i \in 1..MaxSniff : c[i] = w[(d + 1) + i - 1]
    <3> DEFINE m == d + 1
    <3>1. m \in Int /\ Len(w) \in Int /\ m <= Len(w) /\ Len(w) - m + 1 = MaxSniff
          /\ \A i \in m..Len(w) : w[i] \in Entry
      BY <1>1, <2>1, <2>2
    <3> HIDE DEF m
    <3>2. /\ SubSeq(w, m, Len(w)) \in Seq(Entry) /\ Len(SubSeq(w, m, Len(w))) = MaxSniff
          /\ \A i \in 1..MaxSniff : SubSeq(w, m, Len(w))[i] = w[m + i - 1]
      BY ONLY <3>1, SubSeqProperties
    <3>3. QED
      BY <3>2 DEF m
  <2>4. DOMAIN c = 1..MaxSniff /\ \A i \in 1..MaxSniff : c[i] = w[d + i] /\ d + i \in DOMAIN w
    <3>1. \A i \in 1..MaxSniff : (d + 1) + i - 1 = d + i /\ d + i \in 1..Len(w)
      BY <1>1, <2>1
    <3>2. QED
      BY <1>1, <2>3, <3>1, LenProperties
  <2>5. Capped(w) = c
    BY <1>3 DEF Capped
  <2> DEFINE E == D \cup (At(w) \ At(c))
  <2> HIDE DEF d, c
  <2>6. ASSUME NEW i \in At(w) \ At(c), NEW k \in DOMAIN c PROVE i < c[k].at
    <3>1. PICK j \in DOMAIN w : i = w[j].at
      BY DEF At
    <3>2. ~(j > d)
      <4> SUFFICES ASSUME j > d PROVE FALSE
        OBVIOUS
      <4>1. j - d \in 1..MaxSniff /\ d + (j - d) = j
        BY <1>1, <2>1
      <4>2. c[j - d] = w[j]
        BY <2>4, <4>1
      <4>3. QED
        BY <2>4, <3>1, <4>1, <4>2 DEF At
    <3>3. d + k \in DOMAIN w /\ j < d + k /\ c[k] = w[d + k]
      BY <1>1, <2>1, <2>4, <3>2
    <3>4. QED
      BY <3>1, <3>3 DEF Orderly
  <2>7. ASSUME NEW j \in DOMAIN c, NEW k \in DOMAIN c, j < k PROVE c[j].at < c[k].at
    <3>1. d + j < d + k /\ d + j \in DOMAIN w /\ d + k \in DOMAIN w
      BY <1>1, <2>1, <2>4, <2>7
    <3>2. QED
      BY <2>4, <3>1 DEF Orderly
  <2>8. \A i \in D, k \in DOMAIN c : i < c[k].at
    BY <2>4 DEF Orderly
  <2>9. \A k \in DOMAIN c : c[k].at \in 1..r
    BY <2>4 DEF Orderly
  <2>10. u => \A k \in DOMAIN c : c[k].no = c[k].at
    BY <2>4 DEF Orderly
  <2>11. Orderly(c, E, u, r)
    BY <1>1, <2>3, <2>6, <2>7, <2>8, <2>9, <2>10 DEF Orderly
  <2>12. QED
    BY <1>1, <2>3, <2>5, <2>11
<1>4. QED
  BY <1>2, <1>3

-----------------------------------------------------------------------------
(* The lines that have been handed over, and those that wait *)

Findings == {x.finding : x \in Content} \ {NoFinding}

\* What every variable is, TypeOK included.
Kinds ==
  /\ written \in [Names -> Seq(Content)] /\ top \in [Names -> Nat]
  /\ lost \in [Names -> SUBSET Nat]
  /\ read \in [Names -> Nat] /\ lineNo \in [Names -> Nat]
  /\ pending \in [Names -> Seq(Entry)] /\ handed \in [Names -> Seq(Entry)]
  /\ batch \in Seq(Content) /\ found \in Nat /\ cut \in BOOLEAN
  /\ TypeOK

\* Once a parser is found nothing waits, and nothing is parsed before.
KnownOrWaiting ==
  \A f \in Names : IF parser[f] = NoParser THEN handed[f] = <<>> ELSE pending[f] = <<>>

\* Before the first rotation the session has counted every line it read.
AllCounted == \A f \in Names : top[f] = 0 => lineNo[f] = read[f]

\* No entry points past what was read.
Behind ==
  \A f \in Names : LET all == handed[f] \o pending[f]
                   IN  \A k \in DOMAIN all : all[k].at \in 1..read[f]

\* The counters are those of the entries handed over, less the events of the
\* poll under way.
Counted ==
  /\ IsFiniteSet(Members(handed))
  /\ eventCount + failureCount + Len(batch) = Total(handed)
  /\ pc = "wait" \/ (pc = "stopped" /\ ~cut) => batch = <<>>

-----------------------------------------------------------------------------
(* The correlations *)

CorrelationKinds ==
  /\ fed \subseteq Findings /\ IsFiniteSet(fed)
  /\ \E X : correlated \in Seq(X)
  /\ \A i \in DOMAIN correlated : \A c \in correlated[i] : Key(c) \in reported
  /\ \A k \in reported : \E i \in DOMAIN correlated : \E c \in correlated[i] : Key(c) = k

\* The buffer holds what ended within one window before the newest finding.
BufferIsRecent == CorrelationRules # <<>> => recent = Recently

\* Whatever the buffer correlates to has been reported.
AllReported == \A c \in Correlations(recent) : Key(c) \in reported

EntriesInv == Kinds /\ KnownOrWaiting /\ AllCounted /\ Behind /\ HandedInTurn
CorrelationInv ==
  CorrelationKinds /\ BufferIsRecent /\ AllReported /\ CorrelatedOnce

IInv == EntriesInv /\ Counted /\ CorrelationInv

-----------------------------------------------------------------------------
(* What a turn does to the entries of a file *)

LEMMA FileKinds ==
  ASSUME Kinds, NEW f \in Names
  PROVE  /\ written[f] \in Seq(Content) /\ Len(written[f]) \in Nat
         /\ DOMAIN written[f] = 1..Len(written[f])
         /\ read[f] \in 0..Len(written[f]) /\ lineNo[f] \in 0..read[f]
         /\ top[f] \in 0..Len(written[f])
         /\ pending[f] \in Seq(Entry) /\ handed[f] \in Seq(Entry)
<1>1. written[f] \in Seq(Content) /\ pending[f] \in Seq(Entry) /\ handed[f] \in Seq(Entry)
  BY DEF Kinds
<1>2. read[f] \in 0..Len(written[f]) /\ lineNo[f] \in 0..read[f] /\ top[f] \in 0..Len(written[f])
  BY DEF Kinds, TypeOK
<1>3. QED
  BY <1>1, <1>2, LenProperties

LEMMA NewLinesAre ==
  ASSUME Kinds, AllCounted, NEW f \in Names
  PROVE  /\ NewLines(f) \in Seq(Entry) /\ Len(NewLines(f)) = Len(written[f]) - read[f]
         /\ \A k \in DOMAIN NewLines(f) :
              /\ NewLines(f)[k].at = read[f] + k
              /\ top[f] = 0 => NewLines(f)[k].no = NewLines(f)[k].at
<1> DEFINE n == Len(written[f]) - read[f]
           t == [k \in 1..n |-> [no |-> lineNo[f] + k, at |-> read[f] + k]]
<1>1. n \in Nat /\ read[f] \in Nat /\ lineNo[f] \in Nat
  BY FileKinds
<1>2. NewLines(f) = t
  BY DEF NewLines
<1>3. \A k \in 1..n : [no |-> lineNo[f] + k, at |-> read[f] + k] \in Entry
  BY <1>1 DEF Entry
<1>4. t \in [1..n -> Entry]
  BY <1>3
<1>5. DOMAIN t = 1..n /\ \A k \in 1..n : t[k].no = lineNo[f] + k /\ t[k].at = read[f] + k
  OBVIOUS
<1>6. top[f] = 0 => lineNo[f] = read[f]
  BY DEF AllCounted
<1> HIDE DEF n, t
<1>7. t \in Seq(Entry)
  BY <1>1, <1>4, SeqDef
<1>8. Len(t) = n
  BY <1>1, <1>5, <1>7, LenProperties
<1>9. QED
  BY <1>2, <1>5, <1>6, <1>7, <1>8 DEF n

LEMMA JoinedTwice ==
  ASSUME NEW x \in Seq(Entry), NEW y \in Seq(Entry), NEW z \in Seq(Entry)
  PROVE  (x \o y) \o z = x \o (y \o z)
BY ConcatAssociative

LEMMA OrderlyFiles ==
  ASSUME Kinds, Behind, HandedInTurn, NEW f \in Names
  PROVE  Orderly(handed[f] \o pending[f], Dropped(f), top[f] = 0, read[f])
<1>1. handed[f] \o pending[f] \in Seq(Entry)
  BY FileKinds, JoinedEntries
<1>2. QED
  BY <1>1 DEF Behind, HandedInTurn, Orderly

\* All entries, with those that a turn adds.
LEMMA AllEntries ==
  ASSUME Kinds, AllCounted, Behind, HandedInTurn, NEW f \in Names
  PROVE  LET w == handed[f] \o Waiting(f)
         IN  /\ Orderly(w, Dropped(f), top[f] = 0, Len(written[f]))
             /\ Waiting(f) \in Seq(Entry)
             /\ Len(Waiting(f)) = Len(pending[f]) + Len(NewLines(f))
             /\ ((1..Len(written[f])) \ lost[f]) \ At(w) \subseteq Dropped(f)
<1> DEFINE all == handed[f] \o pending[f]
           w == all \o NewLines(f)
           r == read[f]
           n == Len(written[f])
<1>1. /\ handed[f] \in Seq(Entry) /\ pending[f] \in Seq(Entry) /\ NewLines(f) \in Seq(Entry)
      /\ all \in Seq(Entry)
  BY FileKinds, NewLinesAre, JoinedEntries
<1>2. w = handed[f] \o Waiting(f)
  <2>1. handed[f] \in Seq(Entry) /\ pending[f] \in Seq(Entry) /\ NewLines(f) \in Seq(Entry)
    BY <1>1
  <2>2. (handed[f] \o pending[f]) \o NewLines(f) = handed[f] \o (pending[f] \o NewLines(f))
    BY <2>1, JoinedTwice
  <2>3. w = handed[f] \o (pending[f] \o NewLines(f))
    BY <2>2
  <2>4. QED
    BY <2>3 DEF Waiting
<1>3. Waiting(f) \in Seq(Entry) /\ Len(Waiting(f)) = Len(pending[f]) + Len(NewLines(f))
  BY <1>1, JoinedEntries DEF Waiting
<1>4. Orderly(all, Dropped(f), top[f] = 0, r)
  BY OrderlyFiles
<1>5. Dropped(f) \subseteq 1..r
  BY DEF Dropped
<1>6. r \in Nat /\ n \in Nat /\ r <= n /\ (top[f] = 0) \in BOOLEAN /\ r + Len(NewLines(f)) = n
  BY FileKinds, NewLinesAre
<1>7. /\ \A k \in DOMAIN NewLines(f) : NewLines(f)[k].at = r + k
      /\ top[f] = 0 => \A k \in DOMAIN NewLines(f) : NewLines(f)[k].no = NewLines(f)[k].at
  BY NewLinesAre
<1>8. At(w) = (At(handed[f]) \cup At(pending[f])) \cup At(NewLines(f))
  BY <1>1, JoinedEntries
<1>9. \A i \in (r + 1)..n : i \in At(NewLines(f))
  <2> SUFFICES ASSUME NEW i \in (r + 1)..n PROVE i \in At(NewLines(f))
    OBVIOUS
  <2>1. DOMAIN NewLines(f) = 1..(n - r)
    BY <1>1, <1>6, LenProperties, NewLinesAre
  <2>2. i - r \in 1..(n - r) /\ r + (i - r) = i
    BY <1>6
  <2>3. NewLines(f)[i - r].at = i
    BY <1>7, <2>1, <2>2
  <2>4. QED
    BY <2>1, <2>2, <2>3 DEF At
<1>10. ((1..n) \ lost[f]) \ At(w) \subseteq Dropped(f)
  <2> SUFFICES ASSUME NEW i \in 1..n, i \notin lost[f], i \notin At(w) PROVE i \in Dropped(f)
    OBVIOUS
  <2>1. i \in 1..r
    BY <1>6, <1>8, <1>9
  <2>2. QED
    BY <1>8, <2>1 DEF Dropped
<1> HIDE DEF all, r, n
<1>11. Orderly(w, Dropped(f), top[f] = 0, r + Len(NewLines(f)))
  BY <1>1, <1>4, <1>5, <1>6, <1>7, Lengthened
<1>12. Orderly(w, Dropped(f), top[f] = 0, n)
  BY <1>6, <1>11
<1>13. QED
  BY <1>2, <1>3, <1>10, <1>12 DEF n

LEMMA FewerDropped ==
  ASSUME NEW w, NEW D, NEW u, NEW r, Orderly(w, D, u, r), NEW E \in SUBSET D
  PROVE  Orderly(w, E, u, r)
BY DEF Orderly

\* What one file's turn leaves, its parser known or not.
LEMMA TurnKeepsOrder ==
  ASSUME Kinds, KnownOrWaiting, AllCounted, Behind, HandedInTurn, NEW f \in Names,
         NEW h, NEW p, NEW D,
         \/ /\ Waiting(f) = <<>> \/ parser[f] = NoParser
            /\ h = handed[f] /\ p = Capped(Waiting(f))
         \/ h = handed[f] \o Waiting(f) /\ p = <<>>,
         D = ((1..Len(written[f])) \ lost[f]) \ (At(h) \cup At(p))
  PROVE  /\ Orderly(h \o p, D, top[f] = 0, Len(written[f]))
         /\ h \in Seq(Entry) /\ p \in Seq(Entry) /\ Len(p) <= MaxSniff
<1> DEFINE w == handed[f] \o Waiting(f)
           u == top[f] = 0
           n == Len(written[f])
<1>1. /\ Orderly(w, Dropped(f), u, n) /\ Waiting(f) \in Seq(Entry) /\ w \in Seq(Entry)
      /\ ((1..n) \ lost[f]) \ At(w) \subseteq Dropped(f)
  BY AllEntries DEF Orderly
<1>2. handed[f] \in Seq(Entry) /\ <<>> \in Seq(Entry) /\ Len(<<>>) = 0 /\ MaxSniff \in Nat \ {0}
  BY FileKinds, EmptySeq, SniffAssumption
<1>3. u \in BOOLEAN /\ n \in Nat
  BY FileKinds
<1>4. CASE h = w /\ p = <<>>
  <2>1. h \o p = w /\ At(w) = At(h) \cup At(p)
    <3>1. \A s \in Seq(Entry) : s \o <<>> = s
      BY ConcatEmptySeq
    <3>2. At(<<>>) = {}
      BY DEF At
    <3>3. QED
      BY <1>1, <1>4, <3>1, <3>2
  <2>2. D \in SUBSET Dropped(f)
    BY <1>1, <2>1
  <2>3. Orderly(w, D, u, n)
    BY <1>1, <2>2, FewerDropped
  <2>4. QED
    BY <1>1, <1>2, <1>4, <2>1, <2>3
<1>5. CASE Waiting(f) = <<>> /\ h = handed[f] /\ p = Capped(<<>>)
  <2>1. p = <<>>
    BY <1>2, <1>5 DEF Capped
  <2>2. h = w
    BY <1>2, <1>5, ConcatEmptySeq
  <2>3. QED
    BY <1>4, <2>1, <2>2
<1>6. CASE parser[f] = NoParser /\ h = handed[f] /\ p = Capped(Waiting(f))
  <2>1. h = <<>>
    BY <1>6 DEF KnownOrWaiting
  <2>2. w = Waiting(f)
    BY <1>1, <1>6, <2>1, ConcatEmptySeq
  <2>3. /\ Orderly(p, Dropped(f) \cup (At(w) \ At(p)), u, n)
        /\ p \in Seq(Entry) /\ Len(p) <= MaxSniff
    BY <1>1, <1>3, <1>6, <2>2, Shortened
  <2>4. At(h) = {}
    BY <2>1 DEF At
  <2>5. h \o p = p
    BY <2>1, <2>3, ConcatEmptySeq
  <2>6. D \in SUBSET (Dropped(f) \cup (At(w) \ At(p)))
    BY <1>1, <2>4
  <2> HIDE DEF w, u, n
  <2>7. Orderly(p, D, u, n)
    BY <2>3, <2>6, FewerDropped
  <2>8. QED
    BY <1>2, <2>1, <2>3, <2>5, <2>7 DEF u, n
<1>7. QED
  BY <1>4, <1>5, <1>6

-----------------------------------------------------------------------------
(* What a parser makes of the entries *)

\* g[k] is made of those of the first k that are selected.
Selects(k, C, x, p, g) ==
  /\ g \in [0..k -> Seq(C)]
  /\ \A i \in 0..k : g[i] = IF i = 0 THEN <<>>
                            ELSE IF p[i] THEN Append(g[i - 1], x[i]) ELSE g[i - 1]

\* The recursion over the entries has a solution.
LEMMA SelectionExists ==
  ASSUME NEW C, NEW n \in Nat, NEW x \in [1..n -> C], NEW p \in [1..n -> BOOLEAN]
  PROVE  \E g : Selects(n, C, x, p, g)
<1> DEFINE Has(k) == \E g : Selects(k, C, x, p, g)
           S == {k \in Nat : k <= n => Has(k)}
<1>1. Has(0)
  <2> DEFINE g == [i \in 0..0 |-> <<>>]
  <2>1. g \in [0..0 -> Seq(C)] /\ \A i \in 0..0 : g[i] = <<>> /\ i = 0
    BY EmptySeq
  <2> HIDE DEF g
  <2>2. Selects(0, C, x, p, g)
    BY <2>1 DEF Selects
  <2>3. QED
    BY <2>2
<1>2. ASSUME NEW k \in Nat, k + 1 <= n, Has(k) PROVE Has(k + 1)
  <2>1. PICK g : Selects(k, C, x, p, g)
    BY <1>2
  <2> DEFINE next == IF p[k + 1] THEN Append(g[k], x[k + 1]) ELSE g[k]
             h == [i \in 0..(k + 1) |-> IF i = k + 1 THEN next ELSE g[i]]
  <2>2. g[k] \in Seq(C) /\ k + 1 \in 1..n /\ x[k + 1] \in C /\ g \in [0..k -> Seq(C)]
    <3>1. g \in [0..k -> Seq(C)] /\ k \in 0..k
      BY <2>1 DEF Selects
    <3>2. k + 1 \in 1..n
      BY <1>2
    <3>3. QED
      BY <3>1, <3>2
  <2>3. next \in Seq(C)
    BY <2>2, AppendProperties
  <2>4. \A i \in 0..(k + 1) : i \in 0..k \/ i = k + 1
    OBVIOUS
  <2> HIDE DEF next
  <2>5. h \in [0..(k + 1) -> Seq(C)]
    BY <2>2, <2>3, <2>4
  <2>6. h[k + 1] = next /\ \A i \in 0..k : h[i] = g[i]
    OBVIOUS
  <2> HIDE DEF h
  <2>7. ASSUME NEW i \in 0..k
        PROVE  h[i] = IF i = 0 THEN <<>>
                      ELSE IF p[i] THEN Append(h[i - 1], x[i]) ELSE h[i - 1]
    <3>1. CASE i = 0
      BY <2>1, <2>6, <3>1 DEF Selects
    <3>2. CASE i # 0
      <4>1. i - 1 \in 0..k /\ h[i - 1] = g[i - 1] /\ h[i] = g[i]
        BY <2>6, <3>2
      <4>2. QED
        BY <2>1, <3>2, <4>1 DEF Selects
    <3>3. QED
      BY <3>1, <3>2
  <2>8. /\ h[k + 1] = IF p[k + 1] THEN Append(h[k], x[k + 1]) ELSE h[k]
        /\ (k + 1) - 1 = k /\ k + 1 # 0
    BY <2>6 DEF next
  <2>9. Selects(k + 1, C, x, p, h)
    <3>1. ASSUME NEW i \in 0..(k + 1)
          PROVE  h[i] = IF i = 0 THEN <<>>
                        ELSE IF p[i] THEN Append(h[i - 1], x[i]) ELSE h[i - 1]
      <4>1. CASE i \in 0..k
        BY <2>7, <4>1
      <4>2. CASE i = k + 1
        BY <2>8, <4>2
      <4>3. QED
        BY <2>4, <4>1, <4>2
    <3>2. QED
      BY <2>5, <3>1 DEF Selects
  <2>10. QED
    BY <2>9
<1> HIDE DEF Has
<1>3. 0 \in S /\ \A k \in Nat : k \in S => k + 1 \in S
  BY <1>1, <1>2
<1> HIDE DEF S
<1>4. n \in S
  BY <1>3, SetInduction
<1>5. Has(n)
  BY <1>4 DEF S
<1>6. QED
  BY <1>5 DEF Has

LEMMA ParsedAre ==
  ASSUME Kinds, AllCounted, Behind, HandedInTurn, NEW f \in Names
  PROVE  Parsed(f) \in Seq(Content) /\ Len(Parsed(f)) <= Len(Waiting(f))
<1> DEFINE n == Len(Waiting(f))
           x == [k \in 1..n |-> written[f][Waiting(f)[k].at]]
           p == [k \in 1..n |-> Parses(ParserOf(f), x[k], x[k].dated)]
           Step(g, k) == IF k = 0 THEN <<>>
                         ELSE IF Parses(ParserOf(f), written[f][Waiting(f)[k].at],
                                        written[f][Waiting(f)[k].at].dated)
                           THEN Append(g[k - 1], written[f][Waiting(f)[k].at])
                           ELSE g[k - 1]
           Among == CHOOSE g : g = [k \in 0..n |-> Step(g, k)]
<1>1. n \in Nat
  BY AllEntries, LenProperties
<1>2. \A k \in 1..n : Waiting(f)[k].at \in 1..Len(written[f])
  <2>1. /\ Waiting(f) \in Seq(Entry)
        /\ \A k \in DOMAIN (handed[f] \o Waiting(f)) :
             (handed[f] \o Waiting(f))[k].at \in 1..Len(written[f])
    BY AllEntries DEF Orderly
  <2>2. At(handed[f] \o Waiting(f)) = At(handed[f]) \cup At(Waiting(f))
    BY <2>1, FileKinds, JoinedEntries
  <2>3. At(handed[f] \o Waiting(f)) \subseteq 1..Len(written[f])
    BY <2>1 DEF At
  <2>4. DOMAIN Waiting(f) = 1..n
    BY <2>1, LenProperties
  <2>5. \A k \in 1..n : Waiting(f)[k].at \in At(Waiting(f))
    BY <2>4 DEF At
  <2>6. QED
    BY <2>2, <2>3, <2>5
<1>3. x \in [1..n -> Content]
  BY <1>2, FileKinds, ElementOfSeq
<1>4. p \in [1..n -> BOOLEAN]
  BY DEF Parses
<1>5. \E g : Selects(n, Content, x, p, g)
  <2> HIDE DEF n, x, p
  <2>1. QED
    BY <1>1, <1>3, <1>4, SelectionExists
<1>6. PICK g : Selects(n, Content, x, p, g)
  BY <1>5
<1>7. ASSUME NEW i \in 0..n PROVE g[i] = Step(g, i)
  <2>1. i = 0 \/ (i \in 1..n /\ p[i] = Parses(ParserOf(f), x[i], x[i].dated)
                             /\ x[i] = written[f][Waiting(f)[i].at])
    <3>1. i = 0 \/ i \in 1..n
      <4> HIDE DEF n
      <4>1. QED
        BY <1>1
    <3>2. QED
      BY <3>1
  <2>2. g[i] = IF i = 0 THEN <<>> ELSE IF p[i] THEN Append(g[i - 1], x[i]) ELSE g[i - 1]
    BY <1>6 DEF Selects
  <2> HIDE DEF n, x, p
  <2>3. QED
    BY <2>1, <2>2
<1>8. g \in [0..n -> Seq(Content)]
  BY <1>6 DEF Selects
<1>9. g = [k \in 0..n |-> Step(g, k)]
  <2> HIDE DEF Step
  <2>1. QED
    BY <1>7, <1>8
<1>10. Among = [k \in 0..n |-> Step(Among, k)]
  BY <1>9
<1>11. Parsed(f) = Among[n]
  BY DEF Parsed
<1> DEFINE Good(k) == Among[k] \in Seq(Content) /\ Len(Among[k]) <= k
           S == {k \in Nat : k <= n => Good(k)}
<1>12. Good(0)
  <2>1. 0 \in 0..n /\ Step(Among, 0) = <<>>
    BY <1>1
  <2> HIDE DEF n, x, p, Among, Step
  <2>2. Among[0] = <<>>
    BY <1>10, <2>1
  <2>3. QED
    BY <2>2, EmptySeq
<1>13. ASSUME NEW k \in Nat, k + 1 <= n, Good(k) PROVE Good(k + 1)
  <2>1. k + 1 \in 0..n /\ k + 1 \in 1..n /\ (k + 1) - 1 = k /\ k + 1 # 0
    <3> HIDE DEF n, Good
    <3>1. QED
      BY <1>1, <1>13
  <2>2. Among[k + 1] = Step(Among, k + 1)
    BY <1>10, <2>1
  <2>3. x[k + 1] = written[f][Waiting(f)[k + 1].at] /\ x[k + 1] \in Content
    BY <1>3, <2>1
  <2>4. Among[k + 1] = Append(Among[k], x[k + 1]) \/ Among[k + 1] = Among[k]
    <3> HIDE DEF n, x, p, Among
    <3>1. QED
      BY <2>1, <2>2, <2>3
  <2> HIDE DEF n, x, p, Among, Step
  <2>5. Len(Among[k]) \in Nat
    BY <1>13, LenProperties
  <2>6. Append(Among[k], x[k + 1]) \in Seq(Content) /\ Len(Append(Among[k], x[k + 1])) = Len(Among[k]) + 1
    BY <1>13, <2>3, AppendProperties
  <2>7. Among[k] \in Seq(Content) /\ Len(Among[k]) <= k
    BY <1>13
  <2>8. CASE Among[k + 1] = Append(Among[k], x[k + 1])
    BY <2>5, <2>6, <2>7, <2>8
  <2>9. CASE Among[k + 1] = Among[k]
    BY <2>5, <2>7, <2>9
  <2>10. QED
    BY <2>4, <2>8, <2>9
<1> HIDE DEF n, x, p, Among, Good, Step
<1>14. 0 \in S /\ \A k \in Nat : k \in S => k + 1 \in S
  BY <1>1, <1>12, <1>13
<1> HIDE DEF S
<1>15. n \in S
  BY <1>1, <1>14, SetInduction
<1>16. Good(n)
  BY <1>1, <1>15 DEF S
<1>17. QED
  BY <1>11, <1>16 DEF Good, n

LEMMA MembersGrow ==
  ASSUME NEW s \in [Names -> Seq(Entry)], IsFiniteSet(Members(s)), NEW f \in Names,
         NEW t \in Seq(Entry)
  PROVE  LET u == [s EXCEPT ![f] = s[f] \o t]
         IN  IsFiniteSet(Members(u)) /\ Total(u) = Total(s) + Len(t)
<1> DEFINE u == [s EXCEPT ![f] = s[f] \o t]
           l == Len(s[f])
           n == Len(t)
           added == {<<f, k>> : k \in (l + 1)..(l + n)}
           d == [k \in 1..n |-> <<f, l + k>>]
<1>1. l \in Nat /\ n \in Nat /\ Len(u[f]) = l + n
  BY JoinedEntries
<1>2. \A g \in Names : g # f => u[g] = s[g]
  OBVIOUS
<1>3. Members(u) = Members(s) \cup added
  <2> HIDE DEF u
  <2>1. \A k : k \in 1..(l + n) <=> k \in 1..l \/ k \in (l + 1)..(l + n)
    BY <1>1
  <2>2. \A x, v : x \in Members(v) <=> \E g \in Names : \E k \in 1..Len(v[g]) : x = <<g, k>>
    BY DEF Members
  <2>3. ASSUME NEW x \in Members(u) PROVE x \in Members(s) \cup added
    <3>1. PICK g \in Names : \E k \in 1..Len(u[g]) : x = <<g, k>>
      BY <2>2
    <3>2. PICK k \in 1..Len(u[g]) : x = <<g, k>>
      BY <3>1
    <3>3. CASE g = f /\ k \in (l + 1)..(l + n)
      BY <3>2, <3>3
    <3>4. CASE k \in 1..Len(s[g])
      BY <2>2, <3>2, <3>4
    <3>5. QED
      BY <1>1, <1>2, <2>1, <3>3, <3>4
  <2>4. ASSUME NEW x \in Members(s) PROVE x \in Members(u)
    <3>1. PICK g \in Names : \E k \in 1..Len(s[g]) : x = <<g, k>>
      BY <2>2
    <3>2. PICK k \in 1..Len(s[g]) : x = <<g, k>>
      BY <3>1
    <3>3. k \in 1..Len(u[g])
      BY <1>1, <1>2, <2>1
    <3>4. QED
      BY <2>2, <3>2, <3>3
  <2>5. ASSUME NEW x \in added PROVE x \in Members(u)
    <3>1. PICK k \in (l + 1)..(l + n) : x = <<f, k>>
      OBVIOUS
    <3>2. k \in 1..Len(u[f])
      BY <1>1
    <3>3. QED
      BY <2>2, <3>1, <3>2
  <2> HIDE DEF added
  <2>6. QED
    BY <2>3, <2>4, <2>5
<1>4. Members(s) \cap added = {}
  <2> SUFFICES ASSUME NEW x \in Members(s), x \in added PROVE FALSE
    OBVIOUS
  <2>1. PICK k \in (l + 1)..(l + n) : x = <<f, k>>
    OBVIOUS
  <2>2. PICK g \in Names : x \in {<<g, j>> : j \in 1..Len(s[g])}
    BY DEF Members
  <2>3. PICK j \in 1..Len(s[g]) : x = <<g, j>>
    BY <2>2
  <2>4. g = f /\ j = k
    BY <2>1, <2>3
  <2>5. QED
    BY <1>1, <2>4
<1>5. IsFiniteSet(added) /\ Cardinality(added) = n
  <2>1. d \in Bijection(1..n, added)
    <3>1. ASSUME NEW k \in 1..n PROVE d[k] \in added
      <4>1. l + k \in (l + 1)..(l + n)
        BY <1>1
      <4>2. QED
        BY <4>1
    <3>2. \A j, k \in 1..n : d[j] = d[k] => j = k
      BY <1>1
    <3>3. ASSUME NEW y \in added PROVE \E k \in 1..n : d[k] = y
      <4>1. PICK j \in (l + 1)..(l + n) : y = <<f, j>>
        OBVIOUS
      <4>2. j - l \in 1..n /\ l + (j - l) = j
        BY <1>1
      <4>3. d[j - l] = y
        BY <4>1, <4>2
      <4>4. QED
        BY <4>2, <4>3
    <3>4. d \in [1..n -> added]
      BY <3>1
    <3> HIDE DEF d, added, n, l
    <3>5. d \in Injection(1..n, added)
      BY <3>2, <3>4 DEF Injection, IsInjective
    <3>6. d \in Surjection(1..n, added)
      BY <3>3, <3>4 DEF Surjection
    <3>7. QED
      BY <3>5, <3>6 DEF Bijection
  <2> HIDE DEF d, added, n, l
  <2>2. ExistsBijection(1..n, added)
    BY <2>1 DEF ExistsBijection
  <2>3. IsFiniteSet(added)
    BY <1>1, <2>2, FS_NatBijection
  <2>4. QED
    BY <1>1, <2>2, <2>3, FS_CountingElements
<1> HIDE DEF u, added, n
<1>6. Cardinality(Members(s) \cap added) = 0
  BY <1>4, FS_EmptySet
<1>7. /\ IsFiniteSet(Members(s) \cup added)
      /\ Cardinality(Members(s) \cup added)
           = Cardinality(Members(s)) + Cardinality(added) - Cardinality(Members(s) \cap added)
  BY <1>5, FS_Union
<1>8. Cardinality(Members(s)) \in Nat
  BY FS_CardinalityType
<1>9. IsFiniteSet(Members(u)) /\ Total(u) = Total(s) + n
  BY <1>1, <1>3, <1>5, <1>6, <1>7, <1>8 DEF Total
<1>10. QED
  BY <1>9 DEF u, n

-----------------------------------------------------------------------------
(* What correlating a buffer finds *)

LEMMA FindingKinds ==
  \A f \in Findings : f.first \in Nat /\ f.last \in Nat
BY ContentAssumption DEF Findings

LEMMA RulesAre ==
  /\ Len(CorrelationRules) \in Nat /\ DOMAIN CorrelationRules = 1..Len(CorrelationRules)
  /\ \A i \in DOMAIN CorrelationRules : CorrelationRules[i] \in Parameters
  /\ CorrelationRules # <<>> => Len(CorrelationRules) # 0
<1>1. /\ Len(CorrelationRules) \in Nat /\ DOMAIN CorrelationRules = 1..Len(CorrelationRules)
  BY CorrelationAssumption, LenProperties
<1>2. \A i \in DOMAIN CorrelationRules : CorrelationRules[i] \in Parameters
  BY CorrelationAssumption, <1>1, ElementOfSeq
<1>3. CorrelationRules # <<>> => Len(CorrelationRules) # 0
  BY CorrelationAssumption, EmptySeq
<1>4. QED
  BY <1>1, <1>2, <1>3

LEMMA WindowIsNat ==
  ASSUME CorrelationRules # <<>>
  PROVE  CorrelationWindow \in Nat
<1> DEFINE I == DOMAIN CorrelationRules
           W == {CorrelationRules[i].window : i \in I}
           d == [i \in I |-> CorrelationRules[i].window]
<1>1. W \subseteq Nat /\ W # {}
  <2>1. 1 \in I
    BY RulesAre
  <2>2. \A i \in I : CorrelationRules[i].window \in Nat
    BY RulesAre DEF Parameters
  <2>3. QED
    BY <2>1, <2>2
<1>2. d \in Surjection(I, W)
  BY DEF Surjection
<1>3. IsFiniteSet(I)
  BY RulesAre, FS_Interval
<1> HIDE DEF W, d
<1>4. IsFiniteSet(W)
  BY <1>2, <1>3, FS_Surjection
<1>5. Largest(W) \in Nat
  BY <1>1, <1>4, LargestOfFinite
<1>6. QED
  BY <1>5 DEF CorrelationWindow, W

\* Of findings that some rule correlates there is a first anchor.
LEMMA CorrelationSound ==
  ASSUME NEW fs \in SUBSET Findings, NEW r \in Parameters, NEW c \in Correlate(fs, r)
  PROVE  \E S \in SUBSET {f \in fs : f.ip = c[1]} :
           /\ RulesOf(S) = c[2] /\ Satisfies(S, r)
           /\ \A f, g \in S : g.first - f.first <= r.window
<1>1. PICK ip \in {f.ip : f \in fs} \ {NoAddress} :
        /\ Anchors(fs, ip, r) # {}
        /\ LET first == CHOOSE f \in Anchors(fs, ip, r) :
                          \A g \in Anchors(fs, ip, r) : f.first <= g.first
           IN  c = <<ip, RulesOf(GroupAt(fs, first, r))>>
  BY DEF Correlate
<1> DEFINE A == Anchors(fs, ip, r)
           T == {f.first : f \in A}
           first == CHOOSE f \in A : \A g \in A : f.first <= g.first
           S == GroupAt(fs, first, r)
<1>2. A \subseteq fs /\ A # {}
  BY <1>1 DEF Anchors
<1>3. T \subseteq Nat /\ T # {}
  BY <1>2, FindingKinds
<1>4. \E f \in A : \A g \in A : f.first <= g.first
  <2>1. PICK t \in T : \A y \in T : t <= y
    BY <1>3, LeastNumber
  <2>2. QED
    BY <2>1
<1>5. first \in A
  BY <1>4
<1>6. c = <<ip, RulesOf(S)>>
  BY <1>1
<1> HIDE DEF first
<1>7. first.ip = ip /\ Satisfies(S, r) /\ first.first \in Nat
  BY <1>2, <1>5, FindingKinds DEF Anchors
<1>8. r.window \in Nat
  BY DEF Parameters
<1>9. S \in SUBSET {f \in fs : f.ip = ip}
  BY <1>7 DEF GroupAt
<1>10. ASSUME NEW f \in S, NEW g \in S PROVE g.first - f.first <= r.window
  <2>1. f.first \in Nat /\ g.first \in Nat
    BY <1>9, FindingKinds
  <2>2. first.first <= f.first /\ g.first <= first.first + r.window
    BY DEF GroupAt
  <2>3. QED
    BY <1>7, <1>8, <2>1, <2>2
<1>11. c[1] = ip /\ c[2] = RulesOf(S)
  BY <1>6
<1> HIDE DEF S
<1>12. QED
  BY <1>7, <1>9, <1>10, <1>11

\* It speaks of every address that has an anchor.
LEMMA CorrelationComplete ==
  ASSUME NEW fs, NEW r, NEW ip \in {f.ip : f \in fs} \ {NoAddress},
         Anchors(fs, ip, r) # {}
  PROVE  \E c \in Correlate(fs, r) : c[1] = ip
<1> DEFINE Told(a) ==
             LET first == CHOOSE f \in Anchors(fs, a, r) :
                            \A g \in Anchors(fs, a, r) : f.first <= g.first
             IN  <<a, RulesOf(GroupAt(fs, first, r))>>
<1>1. Told(ip) \in Correlate(fs, r)
  BY DEF Correlate
<1>2. Told(ip)[1] = ip
  OBVIOUS
<1>3. QED
  BY <1>1, <1>2

\* More findings of an address have no fewer rules and sources.
LEMMA MoreSatisfy ==
  ASSUME NEW G, IsFiniteSet(G), NEW S \in SUBSET G, NEW r \in Parameters, Satisfies(S, r)
  PROVE  Satisfies(G, r)
<1> DEFINE Rules(X) == {f.rule : f \in X}
           rule == [f \in G |-> f.rule]
           source == [x \in Rules(G) |-> RuleSource[x]]
           Sources(X) == {RuleSource[x] : x \in Rules(X)}
<1>1. rule \in Surjection(G, Rules(G))
  BY DEF Surjection
<1>2. source \in Surjection(Rules(G), Sources(G))
  BY DEF Surjection
<1>3. /\ RulesOf(G) = Rules(G) /\ RulesOf(S) = Rules(S)
      /\ SourcesOf(G) = Sources(G) \ {AnySource} /\ SourcesOf(S) = Sources(S) \ {AnySource}
  BY DEF RulesOf, SourcesOf
<1>4. Rules(S) \in SUBSET Rules(G)
  OBVIOUS
<1>5. Sources(S) \subseteq Sources(G)
  BY <1>4
<1> HIDE DEF Rules, Sources, rule, source
<1>6. IsFiniteSet(Rules(G))
  BY <1>1, FS_Surjection
<1>7. IsFiniteSet(Sources(G))
  BY <1>2, <1>6, FS_Surjection
<1>8. Cardinality(Rules(S)) <= Cardinality(Rules(G)) /\ IsFiniteSet(Rules(S))
  BY <1>4, <1>6, FS_Subset
<1>9. IsFiniteSet(SourcesOf(G))
  <2>1. SourcesOf(G) \in SUBSET Sources(G)
    BY <1>3
  <2>2. QED
    BY <1>7, <2>1, FS_Subset
<1>10. SourcesOf(S) \in SUBSET SourcesOf(G)
  BY <1>3, <1>5
<1>11. Cardinality(SourcesOf(S)) <= Cardinality(SourcesOf(G)) /\ IsFiniteSet(SourcesOf(S))
  BY <1>9, <1>10, FS_Subset
<1>12. /\ Cardinality(RulesOf(S)) \in Nat /\ Cardinality(RulesOf(G)) \in Nat
       /\ Cardinality(SourcesOf(S)) \in Nat /\ Cardinality(SourcesOf(G)) \in Nat
  BY <1>3, <1>6, <1>8, <1>9, <1>11, FS_CardinalityType
<1>13. /\ Cardinality(RulesOf(S)) <= Cardinality(RulesOf(G)) /\ r.minRules \in Nat
       /\ Cardinality(SourcesOf(S)) <= Cardinality(SourcesOf(G))
  BY <1>3, <1>8, <1>11 DEF Parameters
<1>14. QED
  BY <1>12, <1>13 DEF Satisfies

\* If any findings of an address meet a rule within its window, then those from
\* some anchor on do: the search misses none.
LEMMA AnchorThere ==
  ASSUME NEW fs \in SUBSET Findings, IsFiniteSet(fs), NEW r \in Parameters,
         NEW ip \in {f.ip : f \in fs}, NEW S \in SUBSET {f \in fs : f.ip = ip},
         Satisfies(S, r), \A f, g \in S : g.first - f.first <= r.window
  PROVE  Anchors(fs, ip, r) # {}
<1>1. r.window \in Nat
  BY DEF Parameters
<1>2. PICK a \in fs : a.ip = ip /\ S \subseteq GroupAt(fs, a, r)
  <2>1. CASE S = {}
    BY <2>1
  <2>2. CASE S # {}
    <3> DEFINE T == {f.first : f \in S}
    <3>1. T \subseteq Nat /\ T # {}
      BY <2>2, FindingKinds
    <3>2. PICK t \in T : \A y \in T : t <= y
      BY <3>1, LeastNumber
    <3>3. PICK a \in S : a.first = t
      OBVIOUS
    <3>4. ASSUME NEW f \in S
          PROVE  f \in fs /\ f.ip = a.ip /\ a.first <= f.first /\ f.first <= a.first + r.window
      <4>1. f.first \in Nat /\ a.first \in Nat /\ a.first <= f.first
        BY <3>2, <3>3, FindingKinds
      <4>2. f.first - a.first <= r.window
        OBVIOUS
      <4>3. QED
        BY <1>1, <4>1, <4>2
    <3>5. S \subseteq GroupAt(fs, a, r)
      BY <3>4 DEF GroupAt
    <3>6. QED
      BY <3>5
  <2>3. QED
    BY <2>1, <2>2
<1>3. GroupAt(fs, a, r) \in SUBSET fs
  BY DEF GroupAt
<1>4. IsFiniteSet(GroupAt(fs, a, r))
  BY <1>3, FS_Subset
<1>5. Satisfies(GroupAt(fs, a, r), r)
  BY <1>2, <1>4, MoreSatisfy
<1>6. QED
  BY <1>2, <1>5 DEF Anchors

\* correlate() is exact: of any findings it reports the addresses some of
\* whose findings, all beginning within one window, are of as many rules and
\* sources as the rule asks for, and no others; it need only look from each
\* finding on (_find_correlated_group).
THEOREM CorrelationExact ==
  ASSUME NEW fs \in SUBSET Findings, IsFiniteSet(fs), NEW r \in Parameters,
         NEW ip \in {f.ip : f \in fs} \ {NoAddress}
  PROVE  (\E c \in Correlate(fs, r) : c[1] = ip)
           <=> \E S \in SUBSET {f \in fs : f.ip = ip} :
                 Satisfies(S, r) /\ \A f, g \in S : g.first - f.first <= r.window
<1>1. ASSUME NEW c \in Correlate(fs, r), c[1] = ip
      PROVE  \E S \in SUBSET {f \in fs : f.ip = ip} :
               Satisfies(S, r) /\ \A f, g \in S : g.first - f.first <= r.window
  <2>1. PICK S \in SUBSET {f \in fs : f.ip = c[1]} :
          /\ RulesOf(S) = c[2] /\ Satisfies(S, r)
          /\ \A f, g \in S : g.first - f.first <= r.window
    BY CorrelationSound
  <2>2. S \in SUBSET {f \in fs : f.ip = ip}
    BY <1>1
  <2>3. QED
    BY <2>1, <2>2
<1>2. ASSUME NEW S \in SUBSET {f \in fs : f.ip = ip},
             Satisfies(S, r), \A f, g \in S : g.first - f.first <= r.window
      PROVE  \E c \in Correlate(fs, r) : c[1] = ip
  <2>1. Anchors(fs, ip, r) # {}
    BY <1>2, AnchorThere
  <2>2. QED
    BY <2>1, CorrelationComplete
<1>3. QED
  BY <1>1, <1>2

LEMMA CorrelationFinite ==
  ASSUME NEW fs, IsFiniteSet(fs)
  PROVE  IsFiniteSet(Correlations(fs))
<1>1. ASSUME NEW r PROVE IsFiniteSet(Correlate(fs, r))
  <2> DEFINE Told(ip) ==
               LET first == CHOOSE f \in Anchors(fs, ip, r) :
                              \A g \in Anchors(fs, ip, r) : f.first <= g.first
               IN  <<ip, RulesOf(GroupAt(fs, first, r))>>
             I == {f.ip : f \in fs}
             A == {a \in I \ {NoAddress} : Anchors(fs, a, r) # {}}
             addr == [f \in fs |-> f.ip]
             told == [ip \in A |-> Told(ip)]
  <2>1. Correlate(fs, r) = {Told(ip) : ip \in A}
    BY DEF Correlate
  <2> HIDE DEF Told
  <2>2. addr \in Surjection(fs, I)
    BY DEF Surjection
  <2>3. IsFiniteSet(I)
    <3> HIDE DEF addr, I
    <3>1. QED
      BY <2>2, FS_Surjection
  <2>4. IsFiniteSet(A)
    <3>1. A \in SUBSET I
      OBVIOUS
    <3> HIDE DEF A, I
    <3>2. QED
      BY <2>3, <3>1, FS_Subset
  <2> HIDE DEF A
  <2>5. told \in Surjection(A, {Told(ip) : ip \in A})
    BY DEF Surjection
  <2> DEFINE B == {Told(ip) : ip \in A}
  <2> HIDE DEF told, B
  <2>6. told \in Surjection(A, B)
    BY <2>5 DEF B
  <2>7. IsFiniteSet(B)
    BY <2>4, <2>6, FS_Surjection
  <2>8. QED
    BY <2>1, <2>7 DEF B
<1> DEFINE I == DOMAIN CorrelationRules
           Of(i) == {[rule |-> i, ip |-> c[1], rules |-> c[2]] : c \in Correlate(fs, CorrelationRules[i])}
           C == {Of(i) : i \in I}
           of == [i \in I |-> Of(i)]
<1>2. ASSUME NEW i \in I PROVE IsFiniteSet(Of(i))
  <2> DEFINE P == Correlate(fs, CorrelationRules[i])
             Named(c) == [rule |-> i, ip |-> c[1], rules |-> c[2]]
             named == [c \in P |-> Named(c)]
             Q == {Named(c) : c \in P}
  <2>1. named \in Surjection(P, Q)
    <3> HIDE DEF P, Named
    <3>1. QED
      BY DEF Surjection
  <2>2. IsFiniteSet(P)
    BY <1>1
  <2>3. Of(i) = Q
    OBVIOUS
  <2> HIDE DEF P, Q, named
  <2>4. IsFiniteSet(Q)
    BY <2>1, <2>2, FS_Surjection
  <2>5. QED
    BY <2>3, <2>4
<1> HIDE DEF Of
<1>3. of \in Surjection(I, C)
  BY DEF Surjection
<1>4. \A T \in C : IsFiniteSet(T)
  BY <1>2
<1>5. IsFiniteSet(I)
  BY RulesAre, FS_Interval
<1>6. Correlations(fs) = UNION C
  BY DEF Correlations, Of
<1> HIDE DEF of, C, I
<1>7. IsFiniteSet(C)
  BY <1>3, <1>5, FS_Surjection
<1>8. IsFiniteSet(UNION C)
  BY <1>4, <1>7, FS_UNION
<1>9. QED
  BY <1>6, <1>8

\* What is reported anew: of every key that was not known one correlation.
LEMMA FreshAre ==
  ASSUME NEW fs
  PROVE  /\ Fresh(fs) \subseteq Correlations(fs)
         /\ \A c \in Fresh(fs) : Key(c) \notin reported
         /\ \A c, d \in Fresh(fs) : SameGroup(c, d) => c = d
         /\ \A c \in Correlations(fs) : Key(c) \in reported \cup Keys(Fresh(fs))
<1> DEFINE C == Correlations(fs)
<1>1. \A c \in C : /\ c.rule \in Nat
                  /\ c = [rule |-> c.rule, ip |-> c.ip, rules |-> c.rules]
  BY RulesAre DEF Correlations
<1>2. Fresh(fs) = {c \in C : /\ Key(c) \notin reported
                             /\ \A d \in C : Key(d) = Key(c) => c.rule <= d.rule}
  BY DEF Fresh
<1> HIDE DEF C
<1>3. ASSUME NEW c \in Fresh(fs), NEW d \in Fresh(fs), SameGroup(c, d) PROVE c = d
  <2>1. c.ip = d.ip /\ c.rules = d.rules /\ Key(c) = Key(d)
    BY <1>3 DEF SameGroup, Key
  <2>2. c.rule <= d.rule /\ d.rule <= c.rule
    BY <1>2, <2>1
  <2>3. c.rule = d.rule
    BY <1>1, <1>2, <2>2
  <2>4. QED
    BY <1>1, <1>2, <2>1, <2>3
<1>4. ASSUME NEW c \in C, Key(c) \notin reported PROVE Key(c) \in Keys(Fresh(fs))
  <2> DEFINE T == {d.rule : d \in {e \in C : Key(e) = Key(c)}}
  <2>1. T \subseteq Nat /\ T # {}
    BY <1>1
  <2>2. PICK t \in T : \A y \in T : t <= y
    BY <2>1, LeastNumber
  <2>3. PICK d \in C : Key(d) = Key(c) /\ d.rule = t
    OBVIOUS
  <2>4. \A e \in C : Key(e) = Key(d) => d.rule <= e.rule
    BY <2>2, <2>3
  <2>5. d \in Fresh(fs)
    BY <1>2, <1>4, <2>3, <2>4
  <2>6. QED
    BY <2>3, <2>5 DEF Keys
<1>5. QED
  BY <1>2, <1>3, <1>4 DEF C

-----------------------------------------------------------------------------
(* A feed *)

LEMMA LastsOf ==
  ASSUME NEW S \in SUBSET Findings, S # {}, IsFiniteSet(S)
  PROVE  LET L == {f.last : f \in S} IN Largest(L) \in L /\ \A y \in L : y <= Largest(L)
<1> DEFINE L == {f.last : f \in S}
           last == [f \in S |-> f.last]
<1>1. L \subseteq Nat /\ L # {}
  BY FindingKinds
<1>2. last \in Surjection(S, L)
  BY DEF Surjection
<1> HIDE DEF L, last
<1>3. IsFiniteSet(L)
  BY <1>2, FS_Surjection
<1>4. Largest(L) \in L /\ \A y \in L : y <= Largest(L)
  BY <1>1, <1>3, LargestOfFinite
<1>5. QED
  BY <1>4 DEF L

RecentOf(fs) == {f \in fs : \A g \in fs : f.last >= g.last - CorrelationWindow}

\* Pruning what was recent and the new leaves what is recent of them all.
LEMMA PrunedIsRecent ==
  ASSUME CorrelationKinds, BufferIsRecent, CorrelationRules # <<>>,
         NEW new \in SUBSET Findings, new # {}, IsFiniteSet(new),
         NEW all, all = fed \cup new
  PROVE  /\ Pruned(recent \cup new) = RecentOf(all)
         /\ IsFiniteSet(Pruned(recent \cup new)) /\ Pruned(recent \cup new) \subseteq all
<1> DEFINE N == recent \cup new
           L == {f.last : f \in N}
           top_ == Largest(L)
           W == CorrelationWindow
<1>1. recent = Recently /\ recent \subseteq fed /\ all \subseteq Findings
  BY DEF BufferIsRecent, Recently, CorrelationKinds
<1>2. N \subseteq all /\ N # {} /\ IsFiniteSet(N)
  <2>1. IsFiniteSet(recent)
    BY <1>1, FS_Subset DEF CorrelationKinds
  <2>2. IsFiniteSet(N)
    BY <2>1, FS_Union
  <2>3. QED
    BY <1>1, <2>2
<1>3. W \in Nat
  BY WindowIsNat
<1>4. top_ \in L /\ \A y \in L : y <= top_
  <2>1. N \in SUBSET Findings
    BY <1>1, <1>2
  <2> HIDE DEF N
  <2>2. QED
    BY <1>2, <2>1, LastsOf
<1>5. PICK t \in N : t.last = top_
  BY <1>4
<1>6. \A f \in N : f.last <= top_
  BY <1>4
<1>7. \A f \in all : f.last \in Nat
  BY <1>1, FindingKinds
<1> HIDE DEF L, top_, W
<1>8. ASSUME NEW g \in fed PROVE g.last <= top_
  <2> DEFINE M == {f.last : f \in fed}
  <2>1. Largest(M) \in M /\ \A y \in M : y <= Largest(M)
    BY <1>8, LastsOf DEF CorrelationKinds
  <2>2. PICK m \in fed : m.last = Largest(M)
    BY <2>1
  <2>3. \A f \in fed : f.last <= m.last
    BY <2>1, <2>2
  <2> HIDE DEF M
  <2>4. \A f \in fed : m.last >= f.last - W
    BY <1>3, <1>7, <2>2, <2>3
  <2>5. m \in recent
    BY <1>1, <2>2, <2>4 DEF Recently, W
  <2>6. m.last <= top_ /\ g.last <= m.last
    BY <1>6, <2>3, <2>5
  <2>7. QED
    BY <1>5, <1>2, <1>7, <2>2, <2>6
<1>9. \A f \in all : f.last <= top_
  BY <1>6, <1>8
<1>10. top_ \in Nat /\ t \in all
  BY <1>2, <1>5, <1>7
<1>11. ASSUME NEW f \in all, f.last >= top_ - W PROVE f \in N
  <2> SUFFICES ASSUME f \in fed PROVE f \in recent
    OBVIOUS
  <2>1. \A g \in fed : f.last >= g.last - W
    BY <1>3, <1>7, <1>9, <1>10, <1>11
  <2>2. QED
    BY <1>1, <2>1 DEF Recently, W
<1>12. Pruned(N) = {f \in N : f.last >= top_ - W}
  BY DEF Pruned, W, top_, L
<1> HIDE DEF N
<1>13. Pruned(N) = {f \in all : f.last >= top_ - W}
  BY <1>2, <1>11, <1>12
<1>14. ASSUME NEW f \in all
       PROVE  f.last >= top_ - W <=> \A g \in all : f.last >= g.last - W
  BY <1>2, <1>3, <1>5, <1>7, <1>9, <1>10
<1>15. Pruned(N) = {f \in all : \A g \in all : f.last >= g.last - W}
  BY <1>13, <1>14
<1>16. IsFiniteSet(Pruned(N))
  BY <1>2, <1>12, FS_Subset
<1>17. QED
  BY <1>15, <1>16 DEF N, W, RecentOf

LEMMA FeedKeepsCorrelations ==
  ASSUME CorrelationInv, NEW new \in SUBSET Findings, IsFiniteSet(new),
         CorrelateNew(new), fed' = fed \cup new
  PROVE  /\ CorrelationInv' /\ ReportedNow
         /\ correlated' # correlated =>
              Len(correlated') \in DOMAIN correlated' /\ IsFiniteSet(correlated'[Len(correlated')])
<1> USE DEF CorrelationInv
<1>1. fed \subseteq fed' /\ fed' \subseteq Findings /\ IsFiniteSet(fed')
  <2>1. IsFiniteSet(fed) /\ fed \subseteq Findings
    BY DEF CorrelationKinds
  <2>2. QED
    BY <2>1, FS_Union
<1>2. CASE new = {} \/ CorrelationRules = <<>>
  <2>1. UNCHANGED correlationVars
    BY <1>2 DEF CorrelateNew
  <2>2. recent' = recent /\ reported' = reported /\ correlated' = correlated
    BY <2>1 DEF correlationVars
  <2>3. CorrelationKinds'
    BY <1>1, <2>2 DEF CorrelationKinds
  <2>4. BufferIsRecent'
    BY <1>2, <2>2 DEF BufferIsRecent, Recently
  <2>5. AllReported'
    BY <2>2 DEF AllReported
  <2>6. CorrelatedOnce'
    BY <2>2 DEF CorrelatedOnce
  <2>7. ReportedNow
    BY <2>2 DEF ReportedNow
  <2>8. QED
    BY <2>2, <2>3, <2>4, <2>5, <2>6, <2>7
<1>3. CASE new # {} /\ CorrelationRules # <<>>
  <2>0. PICK buf : buf = recent'
    OBVIOUS
  <2> DEFINE F == Fresh(buf)
             n == Len(correlated)
  <2>1. /\ buf = Pruned(recent \cup new)
        /\ reported' = reported \cup Keys(F) /\ correlated' = Append(correlated, F)
    BY <1>3, <2>0 DEF CorrelateNew
  <2>2. /\ buf = {f \in fed' : \A g \in fed' : f.last >= g.last - CorrelationWindow}
        /\ IsFiniteSet(buf) /\ buf \subseteq fed'
    <3>1. PICK all : all = fed'
      OBVIOUS
    <3>2. /\ Pruned(recent \cup new) = RecentOf(all)
          /\ IsFiniteSet(Pruned(recent \cup new)) /\ Pruned(recent \cup new) \subseteq all
      <4>1. all = fed \cup new /\ CorrelationKinds /\ BufferIsRecent
        BY <3>1
      <4>2. new # {} /\ CorrelationRules # <<>>
        BY <1>3
      <4>3. QED
        BY <4>1, <4>2, PrunedIsRecent
    <3>3. QED
      BY <2>1, <3>1, <3>2 DEF RecentOf
  <2> DEFINE U == Correlations(buf)
  <2>3. /\ F \in SUBSET U /\ \A c \in F : Key(c) \notin reported
        /\ \A c, d \in F : SameGroup(c, d) => c = d
        /\ \A c \in U : Key(c) \in reported \cup Keys(F)
    BY FreshAre
  <2>4. IsFiniteSet(U)
    BY <2>2, CorrelationFinite
  <2>5. \A k : k \in Keys(F) <=> \E c \in F : Key(c) = k
    BY DEF Keys
  <2> HIDE DEF F, U
  <2>6. PICK X : correlated \in Seq(X)
    BY DEF CorrelationKinds
  <2>7. correlated \in Seq(X \cup {F}) /\ F \in X \cup {F}
    BY <2>6, SeqMonotonic
  <2>8. /\ correlated' \in Seq(X \cup {F}) /\ n \in Nat /\ Len(correlated') = n + 1
        /\ DOMAIN correlated = 1..n /\ DOMAIN correlated' = 1..(n + 1)
        /\ \A i \in 1..n : correlated'[i] = correlated[i]
        /\ correlated'[n + 1] = F
    BY <2>1, <2>7, AppendProperties, LenProperties
  <2>9. \A i \in DOMAIN correlated' : i \in DOMAIN correlated \/ i = n + 1
    BY <2>8
  <2>10. IsFiniteSet(F)
    BY <2>3, <2>4, FS_Subset
  <2>11. CorrelationKinds'
    <3>1. ASSUME NEW i \in DOMAIN correlated', NEW c \in correlated'[i] PROVE Key(c) \in reported'
      <4>1. CASE i \in DOMAIN correlated
        BY <2>1, <2>8, <4>1 DEF CorrelationKinds
      <4>2. CASE i = n + 1
        BY <2>1, <2>5, <2>8, <4>2
      <4>3. QED
        BY <2>9, <4>1, <4>2
    <3>2. ASSUME NEW k \in reported'
          PROVE  \E i \in DOMAIN correlated' : \E c \in correlated'[i] : Key(c) = k
      <4>1. CASE k \in reported
        <5>1. PICK i \in DOMAIN correlated : \E c \in correlated[i] : Key(c) = k
          BY <4>1 DEF CorrelationKinds
        <5>2. i \in DOMAIN correlated' /\ correlated'[i] = correlated[i]
          BY <2>8
        <5>3. QED
          BY <5>1, <5>2
      <4>2. CASE k \in Keys(F)
        <5>1. n + 1 \in DOMAIN correlated'
          BY <2>8
        <5>2. QED
          BY <2>5, <2>8, <4>2, <5>1
      <4>3. QED
        BY <2>1, <4>1, <4>2
    <3>3. QED
      BY <1>1, <2>8, <3>1, <3>2 DEF CorrelationKinds
  <2>12. BufferIsRecent'
    BY <2>0, <2>2 DEF BufferIsRecent, Recently
  <2>13. AllReported'
    <3>1. \A c \in U : Key(c) \in reported'
      BY <2>1, <2>3
    <3>2. Correlations(recent') = U
      BY <2>0 DEF U
    <3>3. QED
      BY <3>1, <3>2 DEF AllReported
  <2>14. CorrelatedOnce'
    <3>1. \A i \in DOMAIN correlated : \A c \in correlated[i], d \in F : ~SameGroup(c, d)
      <4>1. ASSUME NEW i \in DOMAIN correlated, NEW c \in correlated[i], NEW d \in F,
                   SameGroup(c, d)
            PROVE  FALSE
        <5>1. Key(c) = Key(d)
          BY <4>1 DEF SameGroup, Key
        <5>2. Key(c) \in reported /\ Key(d) \notin reported
          BY <2>3 DEF CorrelationKinds
        <5>3. QED
          BY <5>1, <5>2
      <4>2. QED
        BY <4>1
    <3>2. \A c, d : SameGroup(c, d) <=> SameGroup(d, c)
      BY DEF SameGroup
    <3>3. ASSUME NEW i \in DOMAIN correlated', NEW j \in DOMAIN correlated',
                 NEW c \in correlated'[i], NEW d \in correlated'[j], SameGroup(c, d)
          PROVE  i = j /\ c = d
      <4>1. CASE i \in DOMAIN correlated /\ j \in DOMAIN correlated
        <5>1. c \in correlated[i] /\ d \in correlated[j]
          BY <2>8, <4>1
        <5>2. QED
          BY <3>3, <4>1, <5>1 DEF CorrelatedOnce
      <4>2. CASE i = n + 1 /\ j \in DOMAIN correlated
        <5>1. c \in F /\ d \in correlated[j]
          BY <2>8, <4>2
        <5>2. QED
          BY <3>1, <3>2, <3>3, <4>2, <5>1
      <4>3. CASE i \in DOMAIN correlated /\ j = n + 1
        <5>1. d \in F /\ c \in correlated[i]
          BY <2>8, <4>3
        <5>2. QED
          BY <3>1, <3>3, <4>3, <5>1
      <4>4. CASE i = n + 1 /\ j = n + 1
        <5>1. c \in F /\ d \in F
          BY <2>8, <4>4
        <5>2. QED
          BY <2>3, <3>3, <4>4, <5>1
      <4>5. QED
        BY <2>9, <4>1, <4>2, <4>3, <4>4
    <3>4. QED
      BY <3>3 DEF CorrelatedOnce
  <2>15. ReportedNow
    <3>1. Recently' = buf
      BY <2>2 DEF Recently
    <3>2. F \subseteq Correlations(Recently')
      BY <2>3, <3>1 DEF U
    <3>3. ASSUME NEW i \in DOMAIN correlated' \ DOMAIN correlated
          PROVE  correlated'[i] \subseteq Correlations(Recently')
      BY <2>8, <2>9, <3>2
    <3>4. QED
      BY <3>3 DEF ReportedNow
  <2>16. Len(correlated') \in DOMAIN correlated' /\ correlated'[Len(correlated')] = F
    BY <2>8
  <2>17. QED
    BY <2>10, <2>11, <2>12, <2>13, <2>14, <2>15, <2>16
<1>4. QED
  BY <1>2, <1>3

\* What the batch would report has been reported.
LEMMA InTime ==
  ASSUME CorrelationInv
  PROVE  CorrelatedInTime
<1> SUFFICES ASSUME NEW c \in Correlations(Recently)
             PROVE  \E i \in DOMAIN correlated : \E d \in correlated[i] : SameGroup(c, d)
  BY DEF CorrelatedInTime
<1>1. DOMAIN CorrelationRules # {}
  BY DEF Correlations
<1>2. CorrelationRules # <<>>
  BY <1>1
<1>3. recent = Recently
  BY <1>2 DEF CorrelationInv, BufferIsRecent
<1>4. Key(c) \in reported
  BY <1>3 DEF CorrelationInv, AllReported
<1>5. PICK i \in DOMAIN correlated : \E d \in correlated[i] : Key(d) = Key(c)
  BY <1>4 DEF CorrelationInv, CorrelationKinds
<1>6. PICK d \in correlated[i] : Key(d) = Key(c)
  BY <1>5
<1>7. SameGroup(c, d)
  BY <1>6 DEF Key, SameGroup
<1>8. QED
  BY <1>7

-----------------------------------------------------------------------------
(* The steps: entries and counters *)

LEMMA EntriesKept ==
  ASSUME Behind, HandedInTurn, NEW f \in Names, UNCHANGED <<top, lost>>,
         \A g \in Names : g # f =>
           read'[g] = read[g] /\ handed'[g] = handed[g] /\ pending'[g] = pending[g],
         Orderly(handed'[f] \o pending'[f],
                 ((1..read'[f]) \ lost[f]) \ (At(handed'[f]) \cup At(pending'[f])),
                 top[f] = 0, read'[f])
  PROVE  Behind' /\ HandedInTurn'
<1> DEFINE All(g) == handed'[g] \o pending'[g]
           Gone(g) == ((1..read'[g]) \ lost'[g]) \ (At(handed'[g]) \cup At(pending'[g]))
           Fine(g) == /\ \A k \in DOMAIN All(g) : All(g)[k].at \in 1..read'[g]
                      /\ \A j, k \in DOMAIN All(g) : j < k => All(g)[j].at < All(g)[k].at
                      /\ \A i \in Gone(g), k \in DOMAIN All(g) : i < All(g)[k].at
                      /\ Gone(g) # {} => Len(All(g)) >= MaxSniff
                      /\ top'[g] = 0 => \A k \in DOMAIN All(g) : All(g)[k].no = All(g)[k].at
<1>1. top' = top /\ lost' = lost
  OBVIOUS
<1>2. Fine(f)
  BY <1>1 DEF Orderly
<1>3. ASSUME NEW g \in Names, g # f PROVE Fine(g)
  <2>1. All(g) = handed[g] \o pending[g] /\ read'[g] = read[g]
    BY <1>3
  <2>2. Gone(g) = Dropped(g)
    BY <1>1, <1>3 DEF Dropped
  <2> HIDE DEF All, Gone
  <2>3. QED
    BY <1>1, <2>1, <2>2 DEF Behind, HandedInTurn
<1> HIDE DEF Fine
<1>4. \A g \in Names : Fine(g)
  BY <1>2, <1>3
<1>5. Behind'
  BY <1>4 DEF Behind, Fine
<1>6. HandedInTurn'
  BY <1>4 DEF HandedInTurn, Dropped, Fine
<1>7. QED
  BY <1>5, <1>6

LEMMA EntriesUnchanged ==
  ASSUME EntriesInv, UNCHANGED <<top, lost, read, lineNo, pending, parser, handed>>
  PROVE  KnownOrWaiting' /\ AllCounted' /\ Behind' /\ HandedInTurn'
<1> USE DEF EntriesInv
<1> DEFINE All(g) == handed[g] \o pending[g]
           Gone(g) == ((1..read'[g]) \ lost'[g]) \ (At(handed'[g]) \cup At(pending'[g]))
           Fine(g, D) == /\ \A j, k \in DOMAIN All(g) : j < k => All(g)[j].at < All(g)[k].at
                         /\ \A i \in D, k \in DOMAIN All(g) : i < All(g)[k].at
                         /\ D # {} => Len(All(g)) >= MaxSniff
                         /\ top[g] = 0 => \A k \in DOMAIN All(g) : All(g)[k].no = All(g)[k].at
<1>1. /\ top' = top /\ lost' = lost /\ read' = read /\ lineNo' = lineNo
      /\ pending' = pending /\ parser' = parser /\ handed' = handed
  OBVIOUS
<1>2. KnownOrWaiting' /\ AllCounted'
  BY <1>1 DEF KnownOrWaiting, AllCounted
<1>3. Behind'
  BY <1>1 DEF Behind
<1>4. ASSUME NEW g \in Names PROVE Fine(g, Gone(g))
  <2>1. Gone(g) = Dropped(g)
    BY <1>1 DEF Dropped
  <2>2. Fine(g, Dropped(g))
    BY DEF HandedInTurn
  <2> HIDE DEF Gone, Fine
  <2>3. QED
    BY <2>1, <2>2
<1> HIDE DEF Fine
<1>5. \A g \in Names : Fine(g, Gone(g))
  BY <1>4
<1>6. HandedInTurn'
  BY <1>1, <1>5 DEF HandedInTurn, Dropped, Fine
<1>7. QED
  BY <1>2, <1>3, <1>6

LEMMA WriteKeeps ==
  ASSUME IInv, NEW f \in Names, NEW x \in Content, Write(f, x)
  PROVE  EntriesInv' /\ Counted'
<1> USE DEF IInv, EntriesInv
<1>1. /\ written' = [written EXCEPT ![f] = Append(@, x)]
      /\ UNCHANGED <<top, lost, read, lineNo, pending, parser, batch, pc, turn, found,
                     eventCount, failureCount, findingCount, handed, cut>>
  BY DEF Write, session, counts
<1>2. written[f] \in Seq(Content) /\ written \in [Names -> Seq(Content)]
  BY DEF Kinds
<1>3. Append(written[f], x) \in Seq(Content) /\ Len(Append(written[f], x)) = Len(written[f]) + 1
  BY <1>2, AppendProperties
<1>4. /\ written' \in [Names -> Seq(Content)]
      /\ written'[f] = Append(written[f], x) /\ \A g \in Names : g # f => written'[g] = written[g]
  BY <1>1, <1>2, <1>3
<1>5. \A g \in Names : read[g] \in 0..Len(written'[g]) /\ top[g] \in 0..Len(written'[g])
  <2> TAKE g \in Names
  <2>1. read[g] \in 0..Len(written[g]) /\ top[g] \in 0..Len(written[g]) /\ Len(written[g]) \in Nat
    BY FileKinds
  <2>2. CASE g = f
    BY <1>3, <1>4, <2>1, <2>2
  <2>3. CASE g # f
    BY <1>4, <2>1, <2>3
  <2>4. QED
    BY <2>2, <2>3
<1>6. Kinds'
  <2>1. TypeOK'
    BY <1>1, <1>5 DEF Kinds, TypeOK
  <2>2. QED
    BY <1>1, <1>4, <2>1 DEF Kinds
<1>7. KnownOrWaiting' /\ AllCounted' /\ Behind' /\ HandedInTurn'
  BY <1>1, EntriesUnchanged
<1>8. Counted'
  BY <1>1 DEF Counted, Members, Total
<1>9. QED
  BY <1>6, <1>7, <1>8

LEMMA RotateKeeps ==
  ASSUME IInv, NEW f \in Names, Rotate(f)
  PROVE  EntriesInv' /\ Counted'
<1> USE DEF IInv, EntriesInv
<1>1. /\ Len(written[f]) > top[f]
      /\ top' = [top EXCEPT ![f] = Len(written[f])]
      /\ lost' = [lost EXCEPT ![f] = @ \cup ((read[f] + 1)..Len(written[f]))]
      /\ read' = [read EXCEPT ![f] = Len(written[f])]
      /\ UNCHANGED <<written, lineNo, pending, parser, batch, pc, turn, found,
                     eventCount, failureCount, findingCount, handed, cut>>
  BY DEF Rotate, counts
<1>2. /\ Len(written[f]) \in Nat /\ read[f] \in 0..Len(written[f]) /\ lineNo[f] \in 0..read[f]
      /\ top[f] \in 0..Len(written[f])
  BY FileKinds
<1>3. /\ top \in [Names -> Nat] /\ read \in [Names -> Nat] /\ lost \in [Names -> SUBSET Nat]
  BY DEF Kinds
<1>4. /\ top'[f] = Len(written[f]) /\ read'[f] = Len(written[f])
      /\ lost'[f] = lost[f] \cup ((read[f] + 1)..Len(written[f]))
      /\ \A g \in Names : g # f => top'[g] = top[g] /\ read'[g] = read[g] /\ lost'[g] = lost[g]
  BY <1>1, <1>3
<1>5. Kinds'
  <2>1. top' \in [Names -> Nat] /\ read' \in [Names -> Nat] /\ lost' \in [Names -> SUBSET Nat]
    BY <1>1, <1>2, <1>3
  <2>2. ASSUME NEW g \in Names
        PROVE  /\ read'[g] \in 0..Len(written'[g]) /\ top'[g] \in 0..Len(written'[g])
               /\ lineNo'[g] \in 0..read'[g]
    <3>1. CASE g = f
      BY <1>1, <1>2, <1>4, <3>1
    <3>2. CASE g # f
      BY <1>1, <1>4, <3>2, FileKinds
    <3>3. QED
      BY <3>1, <3>2
  <2>3. TypeOK'
    BY <1>1, <2>2 DEF Kinds, TypeOK
  <2>4. QED
    BY <1>1, <2>1, <2>3 DEF Kinds
<1>6. KnownOrWaiting'
  BY <1>1 DEF KnownOrWaiting
<1>7. top'[f] # 0
  BY <1>1, <1>2, <1>4
<1>8. AllCounted'
  BY <1>1, <1>4, <1>7 DEF AllCounted
<1>9. Behind'
  <2>1. \A g \in Names : read[g] <= read'[g] /\ read[g] \in Nat /\ read'[g] \in Nat
    BY <1>2, <1>3, <1>4
  <2>2. \A g \in Names : 1..read[g] \subseteq 1..read'[g]
    BY <2>1
  <2>3. QED
    BY <1>1, <2>2 DEF Behind
<1> DEFINE Gone(g) == ((1..read'[g]) \ lost'[g]) \ (At(handed'[g]) \cup At(pending'[g]))
           All(g) == handed[g] \o pending[g]
           Fine(g, D, t) == /\ \A j, k \in DOMAIN All(g) : j < k => All(g)[j].at < All(g)[k].at
                            /\ \A i \in D, k \in DOMAIN All(g) : i < All(g)[k].at
                            /\ D # {} => Len(All(g)) >= MaxSniff
                            /\ t = 0 => \A k \in DOMAIN All(g) : All(g)[k].no = All(g)[k].at
<1>10. ASSUME NEW g \in Names PROVE Gone(g) = Dropped(g)
  <2>1. CASE g # f
    BY <1>1, <1>4, <2>1 DEF Dropped
  <2>2. CASE g = f
    <3>1. (1..Len(written[f])) \ (lost[f] \cup ((read[f] + 1)..Len(written[f]))) = (1..read[f]) \ lost[f]
      BY <1>2
    <3>2. QED
      BY <1>1, <1>4, <2>2, <3>1 DEF Dropped
  <2>3. QED
    BY <2>1, <2>2
<1>11. \A g \in Names : top'[g] = 0 => top[g] = 0
  BY <1>4, <1>7
<1>12. HandedInTurn'
  <2>1. ASSUME NEW g \in Names PROVE Fine(g, Gone(g), top'[g])
    <3>1. Fine(g, Dropped(g), top[g])
      BY DEF HandedInTurn
    <3> HIDE DEF Gone, All
    <3>2. QED
      BY <1>10, <1>11, <3>1
  <2> HIDE DEF Fine
  <2>2. \A g \in Names : Fine(g, Gone(g), top'[g])
    BY <2>1
  <2>3. \A g \in Names : Dropped(g)' = Gone(g)
    BY <1>1 DEF Dropped
  <2> HIDE DEF Gone
  <2>4. \A g \in Names : Fine(g, Dropped(g)', top'[g])
    BY <2>2, <2>3
  <2>5. handed' = handed /\ pending' = pending
    BY <1>1
  <2>6. \A g \in Names : Fine(g, Dropped(g), top[g])'
    BY <2>4, <2>5 DEF Fine
  <2>7. QED
    BY ONLY <2>6 DEF HandedInTurn, Fine
<1>13. Counted'
  BY <1>1 DEF Counted, Members, Total
<1>14. QED
  BY <1>5, <1>6, <1>8, <1>9, <1>12, <1>13

LEMMA ParserKinds ==
  ASSUME Kinds, NEW f \in Names
  PROVE  ParserOf(f) \in {NoParser, "apache", "syslog"}
<1>1. \A sample : SniffParser(sample) \in {NoParser, "apache", "syslog"}
  BY DEF SniffParser
<1>2. \A sample : ParserFor(Fmt, sample) \in {NoParser, "apache", "syslog"}
  BY <1>1, FmtAssumption DEF ParserFor
<1>3. parser[f] \in {NoParser, "apache", "syslog"}
  BY DEF Kinds, TypeOK
<1>4. QED
  BY <1>2, <1>3 DEF ParserOf

\* What is common to both kinds of turn.
LEMMA TurnKinds ==
  ASSUME IInv, NEW f \in Names, Turn(f), Took(f)
  PROVE  /\ read' \in [Names -> Nat] /\ lineNo' \in [Names -> Nat]
         /\ read'[f] = Len(written[f])
         /\ \A g \in Names : g # f => read'[g] = read[g] /\ lineNo'[g] = lineNo[g]
         /\ \A g \in Names : read'[g] \in 0..Len(written[g]) /\ lineNo'[g] \in 0..read'[g]
         /\ \A g \in Names : top[g] = 0 => lineNo'[g] = read'[g]
         /\ turn' \in 1..(Len(Files) + 1)
<1> USE DEF IInv, EntriesInv
<1>1. /\ read' = [read EXCEPT ![f] = Len(written[f])]
      /\ lineNo' = [lineNo EXCEPT ![f] = @ + Len(NewLines(f))]
      /\ turn' = turn + 1 /\ turn <= Len(Files)
  BY DEF Took, Turn
<1>2. /\ read \in [Names -> Nat] /\ lineNo \in [Names -> Nat] /\ turn \in 1..(Len(Files) + 1)
  BY DEF Kinds, TypeOK
<1>3. Len(Files) \in Nat
  BY FilesAssumption, LenProperties
<1>4. Len(NewLines(f)) = Len(written[f]) - read[f]
  BY NewLinesAre
<1>5. Len(written[f]) \in Nat /\ read[f] \in 0..Len(written[f]) /\ lineNo[f] \in 0..read[f]
  BY FileKinds
<1>6. /\ read'[f] = Len(written[f]) /\ lineNo'[f] = lineNo[f] + (Len(written[f]) - read[f])
      /\ \A g \in Names : g # f => read'[g] = read[g] /\ lineNo'[g] = lineNo[g]
  BY <1>1, <1>2, <1>4
<1>7. read' \in [Names -> Nat] /\ lineNo' \in [Names -> Nat]
  <2>1. lineNo[f] + Len(NewLines(f)) \in Nat
    BY <1>4, <1>5
  <2>2. QED
    BY <1>1, <1>2, <1>5, <2>1
<1>8. ASSUME NEW g \in Names
      PROVE  /\ read'[g] \in 0..Len(written[g]) /\ lineNo'[g] \in 0..read'[g]
             /\ top[g] = 0 => lineNo'[g] = read'[g]
  <2>1. top[g] = 0 => lineNo[g] = read[g]
    BY DEF AllCounted
  <2>2. CASE g = f
    BY <1>5, <1>6, <2>1, <2>2
  <2>3. CASE g # f
    BY <1>6, <2>1, <2>3, FileKinds
  <2>4. QED
    BY <2>2, <2>3
<1>9. QED
  BY <1>1, <1>2, <1>3, <1>6, <1>7, <1>8

LEMMA KeepKeeps ==
  ASSUME IInv, NEW f \in Names, Keep(f)
  PROVE  EntriesInv' /\ Counted'
<1> USE DEF IInv, EntriesInv
<1>1. /\ Turn(f) /\ Took(f) /\ (Waiting(f) = <<>> \/ ParserOf(f) = NoParser)
      /\ pending' = [pending EXCEPT ![f] = Capped(Waiting(f))]
      /\ UNCHANGED <<written, top, lost, parser, batch, pc, found,
                     eventCount, failureCount, findingCount, handed, cut>>
  BY DEF Keep, files, counts
<1>2. Waiting(f) = <<>> \/ parser[f] = NoParser
  BY <1>1 DEF ParserOf
<1>3. pending \in [Names -> Seq(Entry)]
  BY DEF Kinds
<1> DEFINE h == handed[f]
           p == Capped(Waiting(f))
           D == ((1..Len(written[f])) \ lost[f]) \ (At(h) \cup At(p))
<1>4. /\ Orderly(h \o p, D, top[f] = 0, Len(written[f]))
      /\ p \in Seq(Entry) /\ Len(p) <= MaxSniff
  <2>1. \/ /\ Waiting(f) = <<>> \/ parser[f] = NoParser
           /\ h = handed[f] /\ p = Capped(Waiting(f))
        \/ h = handed[f] \o Waiting(f) /\ p = <<>>
    BY <1>2
  <2>2. D = ((1..Len(written[f])) \ lost[f]) \ (At(h) \cup At(p))
    OBVIOUS
  <2> HIDE DEF h, p, D
  <2>3. QED
    BY <2>1, <2>2, TurnKeepsOrder
<1>5. /\ pending'[f] = p /\ \A g \in Names : g # f => pending'[g] = pending[g]
      /\ pending' \in [Names -> Seq(Entry)]
  BY <1>1, <1>3, <1>4
<1>6. Waiting(f) = <<>> => p = <<>>
  BY SniffAssumption, EmptySeq DEF Capped
<1> HIDE DEF p
<1>7. Kinds'
  <2>1. \A g \in Names : pending'[g] \in Seq(Entry) /\ Len(pending'[g]) <= MaxSniff
    BY <1>4, <1>5 DEF Kinds, TypeOK
  <2>2. TypeOK'
    BY <1>1, <2>1, TurnKinds DEF Kinds, TypeOK
  <2>3. QED
    BY <1>1, <1>5, <2>2, TurnKinds DEF Kinds
<1>8. KnownOrWaiting'
  BY <1>1, <1>2, <1>5, <1>6 DEF KnownOrWaiting
<1>9. AllCounted'
  BY <1>1, TurnKinds DEF AllCounted
<1>10. Behind' /\ HandedInTurn'
  <2>1. read'[f] = Len(written[f]) /\ \A g \in Names : g # f => read'[g] = read[g]
    BY <1>1, TurnKinds
  <2>2. handed' = handed /\ UNCHANGED <<top, lost>>
    BY <1>1
  <2>3. Orderly(handed'[f] \o pending'[f],
                ((1..read'[f]) \ lost[f]) \ (At(handed'[f]) \cup At(pending'[f])),
                top[f] = 0, read'[f])
    BY <1>4, <1>5, <2>1, <2>2
  <2>4. QED
    BY <1>5, <2>1, <2>2, <2>3, EntriesKept
<1>11. Counted'
  BY <1>1 DEF Counted, Members, Total
<1>12. QED
  BY <1>7, <1>8, <1>9, <1>10, <1>11

LEMMA ParseKeeps ==
  ASSUME IInv, NEW f \in Names, Parse(f)
  PROVE  EntriesInv' /\ Counted'
<1> USE DEF IInv, EntriesInv
<1>1. /\ Turn(f) /\ Took(f) /\ ParserOf(f) # NoParser /\ pc = "read"
      /\ parser' = [parser EXCEPT ![f] = ParserOf(f)]
      /\ pending' = [pending EXCEPT ![f] = <<>>]
      /\ batch' = batch \o Parsed(f)
      /\ failureCount' = failureCount + Len(Waiting(f)) - Len(Parsed(f))
      /\ handed' = [handed EXCEPT ![f] = @ \o Waiting(f)]
      /\ UNCHANGED <<written, top, lost, pc, found, eventCount, findingCount, cut>>
  BY DEF Parse, files, Turn
<1>2. /\ pending \in [Names -> Seq(Entry)] /\ handed \in [Names -> Seq(Entry)]
      /\ parser \in [Names -> {NoParser, "apache", "syslog"}]
      /\ batch \in Seq(Content) /\ failureCount \in Nat /\ eventCount \in Nat
  BY DEF Kinds, TypeOK
<1>3. /\ Parsed(f) \in Seq(Content) /\ Len(Parsed(f)) <= Len(Waiting(f))
      /\ Waiting(f) \in Seq(Entry)
  BY ParsedAre, AllEntries
<1>4. Len(Parsed(f)) \in Nat /\ Len(Waiting(f)) \in Nat /\ Len(batch) \in Nat
  BY <1>2, <1>3, LenProperties
<1>5. batch' \in Seq(Content) /\ Len(batch') = Len(batch) + Len(Parsed(f))
  BY <1>1, <1>2, <1>3, ConcatProperties
<1>6. failureCount' \in Nat
  BY <1>1, <1>2, <1>3, <1>4
<1> DEFINE h == handed[f] \o Waiting(f)
           p == <<>>
           D == ((1..Len(written[f])) \ lost[f]) \ (At(h) \cup At(p))
<1>7. /\ Orderly(h \o p, D, top[f] = 0, Len(written[f]))
      /\ h \in Seq(Entry) /\ p \in Seq(Entry) /\ Len(p) <= MaxSniff
  <2>1. \/ /\ Waiting(f) = <<>> \/ parser[f] = NoParser
           /\ h = handed[f] /\ p = Capped(Waiting(f))
        \/ h = handed[f] \o Waiting(f) /\ p = <<>>
    OBVIOUS
  <2>2. D = ((1..Len(written[f])) \ lost[f]) \ (At(h) \cup At(p))
    OBVIOUS
  <2> HIDE DEF h, p, D
  <2>3. QED
    BY <2>1, <2>2, TurnKeepsOrder
<1>8. /\ pending'[f] = p /\ \A g \in Names : g # f => pending'[g] = pending[g]
      /\ pending' \in [Names -> Seq(Entry)]
  BY <1>1, <1>2, <1>7
<1>9. /\ handed'[f] = h /\ \A g \in Names : g # f => handed'[g] = handed[g]
      /\ handed' \in [Names -> Seq(Entry)]
  BY <1>1, <1>2, <1>7
<1>10. /\ parser' \in [Names -> {NoParser, "apache", "syslog"}] /\ parser'[f] # NoParser
       /\ \A g \in Names : g # f => parser'[g] = parser[g]
  BY <1>1, <1>2, ParserKinds
<1>11. Kinds'
  <2>1. \A g \in Names : pending'[g] \in Seq(Entry) /\ Len(pending'[g]) <= MaxSniff
    BY <1>7, <1>8 DEF Kinds, TypeOK
  <2>2. \A g \in Names : handed'[g] \in Seq(Entry)
    BY <1>9
  <2> HIDE DEF p, h, D
  <2>3. TypeOK'
    BY <1>1, <1>6, <1>10, <2>1, <2>2, TurnKinds DEF Kinds, TypeOK
  <2>4. QED
    BY <1>1, <1>5, <1>8, <1>9, <2>3, TurnKinds DEF Kinds
<1>12. KnownOrWaiting'
  BY <1>8, <1>9, <1>10 DEF KnownOrWaiting
<1>13. AllCounted'
  BY <1>1, TurnKinds DEF AllCounted
<1>14. Behind' /\ HandedInTurn'
  <2> HIDE DEF p, h
  <2>1. read'[f] = Len(written[f]) /\ \A g \in Names : g # f => read'[g] = read[g]
    BY <1>1, TurnKinds
  <2>2. UNCHANGED <<top, lost>>
    BY <1>1
  <2>3. Orderly(handed'[f] \o pending'[f],
                ((1..read'[f]) \ lost[f]) \ (At(handed'[f]) \cup At(pending'[f])),
                top[f] = 0, read'[f])
    BY <1>7, <1>8, <1>9, <2>1
  <2>4. QED
    BY <1>8, <1>9, <2>1, <2>2, <2>3, EntriesKept
<1>15. Counted'
  <2> DEFINE w == Waiting(f)
             u == [handed EXCEPT ![f] = handed[f] \o w]
  <2>1. handed' = u
    BY <1>1
  <2>2. IsFiniteSet(Members(handed)) /\ eventCount + failureCount + Len(batch) = Total(handed)
    BY DEF Counted
  <2> HIDE DEF w
  <2>3. IsFiniteSet(Members(u)) /\ Total(u) = Total(handed) + Len(w)
    BY <1>2, <1>3, <2>2, MembersGrow DEF w
  <2> HIDE DEF u
  <2>4. IsFiniteSet(Members(handed')) /\ Total(handed') = Total(handed) + Len(Waiting(f))
    BY <2>1, <2>3 DEF w
  <2>5. eventCount' + failureCount' + Len(batch') = Total(handed')
    BY <1>1, <1>2, <1>4, <1>5, <2>2, <2>4
  <2>6. pc' # "wait" /\ pc' # "stopped"
    BY <1>1
  <2>7. Total(handed') = Total(handed)' /\ Members(handed') = Members(handed)'
    BY DEF Total, Members
  <2>8. QED
    BY <2>4, <2>5, <2>6, <2>7 DEF Counted
<1>16. QED
  BY <1>11, <1>12, <1>13, <1>14, <1>15

-----------------------------------------------------------------------------
(* The steps: correlations *)

LEMMA FeedKeeps ==
  ASSUME IInv, Feed
  PROVE  IInv' /\ ReportedNow
<1> USE DEF IInv, EntriesInv
<1>1. /\ pc = "read" /\ pc' = "count"
      /\ CorrelateNew(NewFindings) /\ fed' = fed \cup NewFindings
      /\ found' = Cardinality(Alarms)
                    + (IF correlated' = correlated THEN 0
                       ELSE Cardinality(correlated'[Len(correlated')]))
      /\ UNCHANGED <<written, top, lost, read, lineNo, pending, parser, batch, turn,
                     eventCount, failureCount, findingCount, handed, cut>>
  BY DEF Feed, files, counts
<1>2. batch \in Seq(Content) /\ Len(batch) \in Nat /\ DOMAIN batch = 1..Len(batch)
  BY LenProperties DEF Kinds
<1>3. IsFiniteSet(Alarms) /\ Alarms \subseteq 1..Len(batch)
  <2>1. IsFiniteSet(1..Len(batch))
    BY <1>2, FS_Interval
  <2>2. Alarms \in SUBSET (1..Len(batch))
    BY <1>2 DEF Alarms
  <2>3. QED
    BY <2>1, <2>2, FS_Subset
<1>4. NewFindings \in SUBSET Findings /\ IsFiniteSet(NewFindings)
  <2> DEFINE of == [i \in Alarms |-> batch[i].finding]
  <2>1. of \in Surjection(Alarms, NewFindings)
    BY DEF Surjection, NewFindings
  <2> HIDE DEF of
  <2>2. IsFiniteSet(NewFindings)
    BY <1>3, <2>1, FS_Surjection
  <2>3. \A i \in Alarms : batch[i] \in Content /\ batch[i].finding # NoFinding
    BY <1>2, ElementOfSeq DEF Alarms
  <2>4. NewFindings \subseteq Findings
    BY <2>3 DEF NewFindings, Findings
  <2>5. QED
    BY <2>2, <2>4
<1>5. /\ CorrelationInv' /\ ReportedNow
      /\ correlated' # correlated => IsFiniteSet(correlated'[Len(correlated')])
  <2>1. PICK new : new = NewFindings
    OBVIOUS
  <2>2. /\ new \in SUBSET Findings /\ IsFiniteSet(new) /\ CorrelateNew(new)
        /\ fed' = fed \cup new
    BY <1>1, <1>4, <2>1
  <2>3. QED
    BY <2>2, FeedKeepsCorrelations
<1>6. found' \in Nat
  <2>1. Cardinality(Alarms) \in Nat
    BY <1>3, FS_CardinalityType
  <2>2. correlated' # correlated => Cardinality(correlated'[Len(correlated')]) \in Nat
    BY <1>5, FS_CardinalityType
  <2>3. QED
    BY <1>1, <2>1, <2>2
<1>7. TypeOK'
  BY <1>1 DEF Kinds, TypeOK
<1>8. Kinds'
  BY <1>1, <1>6, <1>7 DEF Kinds
<1>9. KnownOrWaiting' /\ AllCounted' /\ Behind' /\ HandedInTurn'
  BY <1>1, EntriesUnchanged
<1>10. Counted'
  BY <1>1 DEF Counted, Members, Total
<1>11. QED
  BY <1>5, <1>8, <1>9, <1>10

LEMMA CorrelationsUnchanged ==
  ASSUME CorrelationInv, UNCHANGED <<fed, correlationVars>>
  PROVE  CorrelationInv'
<1>1. fed' = fed /\ recent' = recent /\ reported' = reported /\ correlated' = correlated
  BY DEF correlationVars
<1>2. CorrelationKinds' /\ AllReported' /\ CorrelatedOnce'
  BY <1>1 DEF CorrelationInv, CorrelationKinds, AllReported, CorrelatedOnce
<1>3. BufferIsRecent'
  BY <1>1 DEF CorrelationInv, BufferIsRecent, Recently
<1>4. QED
  BY <1>2, <1>3 DEF CorrelationInv

LEMMA CountKeeps ==
  ASSUME IInv, Count
  PROVE  EntriesInv' /\ Counted'
<1> USE DEF IInv, EntriesInv
<1>1. /\ eventCount' = eventCount + Len(batch) /\ findingCount' = findingCount + found
      /\ batch' = <<>> /\ found' = 0 /\ pc' = "wait"
      /\ UNCHANGED <<written, top, lost, read, lineNo, pending, parser, turn, failureCount,
                     handed, cut>>
  BY DEF Count, files
<1>2. /\ Len(batch) \in Nat /\ found \in Nat /\ eventCount \in Nat /\ findingCount \in Nat
      /\ failureCount \in Nat
  BY LenProperties DEF Kinds, TypeOK
<1>3. batch' \in Seq(Content) /\ Len(batch') = 0
  BY <1>1, EmptySeq
<1>4. eventCount' \in Nat /\ findingCount' \in Nat
  BY <1>1, <1>2
<1>5. TypeOK'
  BY <1>1, <1>4 DEF Kinds, TypeOK
<1>6. Kinds'
  BY <1>1, <1>3, <1>5 DEF Kinds
<1>7. KnownOrWaiting' /\ AllCounted' /\ Behind' /\ HandedInTurn'
  BY <1>1, EntriesUnchanged
<1>8. eventCount' + failureCount' + Len(batch') = Total(handed)
  BY <1>1, <1>2, <1>3 DEF Counted
<1>9. Counted'
  BY <1>1, <1>8 DEF Counted, Members, Total
<1>10. QED
  BY <1>6, <1>7, <1>9

\* The steps that change no more than where the session is.
LEMMA PlaceKeeps ==
  ASSUME IInv, StartPoll \/ Stop \/ UNCHANGED vars
  PROVE  IInv'
<1> USE DEF IInv, EntriesInv
<1>1. /\ UNCHANGED <<written, top, lost, read, lineNo, pending, parser, batch, found,
                     eventCount, failureCount, findingCount, handed, fed, correlationVars>>
      /\ turn' \in {1, turn}
      /\ pc' \in {"wait", "read", "count", "stopped"} /\ cut' \in BOOLEAN
      /\ pc' = "wait" \/ (pc' = "stopped" /\ ~cut') => pc = "wait" \/ (pc = "stopped" /\ ~cut)
  <2>1. CASE StartPoll
    BY <2>1 DEF StartPoll, files, counts, Kinds, TypeOK
  <2>2. CASE Stop
    BY <2>2 DEF Stop, files, counts, Kinds, TypeOK
  <2>3. CASE UNCHANGED vars
    BY <2>3 DEF vars, session, files, counts, Kinds, TypeOK
  <2>4. QED
    BY <2>1, <2>2, <2>3
<1>2. Len(Files) \in Nat
  BY FilesAssumption, LenProperties
<1>3. TypeOK'
  BY <1>1, <1>2 DEF Kinds, TypeOK
<1>4. Kinds'
  BY <1>1, <1>3 DEF Kinds
<1>5. KnownOrWaiting' /\ AllCounted' /\ Behind' /\ HandedInTurn'
  BY <1>1, EntriesUnchanged
<1>6. Counted'
  BY <1>1 DEF Counted, Members, Total
<1>7. CorrelationInv'
  BY <1>1, CorrelationsUnchanged
<1>8. QED
  BY <1>4, <1>5, <1>6, <1>7

-----------------------------------------------------------------------------
(* The theorems *)

LEMMA Initially == Init => IInv
<1> SUFFICES ASSUME Init PROVE IInv
  OBVIOUS
<1>1. /\ written = [f \in Names |-> <<>>] /\ top = [f \in Names |-> 0] /\ lost = [f \in Names |-> {}]
      /\ read = [f \in Names |-> 0] /\ lineNo = [f \in Names |-> 0]
      /\ pending = [f \in Names |-> <<>>] /\ parser = [f \in Names |-> NoParser]
      /\ batch = <<>> /\ pc = "wait" /\ turn = 1 /\ found = 0
      /\ eventCount = 0 /\ failureCount = 0 /\ findingCount = 0
      /\ handed = [f \in Names |-> <<>>] /\ fed = {} /\ cut = FALSE
      /\ recent = {} /\ reported = {} /\ correlated = <<>>
  BY DEF Init, InitCorrelation
<1>2. \A S : <<>> \in Seq(S) /\ Len(<<>>) = 0
  BY EmptySeq
<1>3. Len(Files) \in Nat /\ MaxSniff \in Nat
  BY FilesAssumption, SniffAssumption, LenProperties
<1>4. \A f \in Names : handed[f] \o pending[f] = <<>> /\ DOMAIN (handed[f] \o pending[f]) = {}
  <2>1. <<>> \o <<>> = <<>>
    BY ConcatEmptySeq, <1>2
  <2>2. QED
    BY <1>1, <2>1
<1>5. TypeOK
  BY <1>1, <1>2, <1>3 DEF TypeOK
<1>6. Kinds
  BY <1>1, <1>2, <1>5 DEF Kinds
<1>7. KnownOrWaiting /\ AllCounted
  BY <1>1 DEF KnownOrWaiting, AllCounted
<1>8. Behind
  BY <1>4 DEF Behind
<1>9. \A f \in Names : Dropped(f) = {}
  BY <1>1 DEF Dropped
<1>10. HandedInTurn
  BY <1>4, <1>9 DEF HandedInTurn
<1>11. Counted
  <2>1. Members(handed) = {}
    BY <1>1, <1>2 DEF Members
  <2>2. IsFiniteSet(Members(handed)) /\ Total(handed) = 0
    BY <2>1, FS_EmptySet DEF Total
  <2>3. eventCount + failureCount + Len(batch) = 0 /\ batch = <<>>
    BY <1>1, <1>2
  <2>4. QED
    BY <2>2, <2>3 DEF Counted
<1>12. CorrelationInv
  <2>1. DOMAIN correlated = {}
    BY <1>1
  <2>2. CorrelationKinds
    BY <1>1, <1>2, <2>1, FS_EmptySet DEF CorrelationKinds
  <2>3. BufferIsRecent /\ CorrelatedOnce
    BY <1>1, <2>1 DEF BufferIsRecent, Recently, CorrelatedOnce
  <2>4. AllReported
    BY <1>1 DEF AllReported, Correlations, Correlate
  <2>5. QED
    BY <2>2, <2>3, <2>4 DEF CorrelationInv
<1>13. QED
  BY <1>6, <1>7, <1>8, <1>10, <1>11, <1>12 DEF IInv, EntriesInv

\* Every step keeps the invariant.
LEMMA StepKeeps == IInv /\ [Next]_vars => IInv'
<1> SUFFICES ASSUME IInv, [Next]_vars PROVE IInv'
  OBVIOUS
<1>1. ASSUME NEW f \in Names, NEW x \in Content, Write(f, x) PROVE IInv'
  <2>1. UNCHANGED <<fed, correlationVars>>
    BY <1>1 DEF Write
  <2>2. QED
    BY <1>1, <2>1, WriteKeeps, CorrelationsUnchanged DEF IInv
<1>2. ASSUME NEW f \in Names, Rotate(f) PROVE IInv'
  <2>1. UNCHANGED <<fed, correlationVars>>
    BY <1>2 DEF Rotate
  <2>2. QED
    BY <1>2, <2>1, RotateKeeps, CorrelationsUnchanged DEF IInv
<1>3. ASSUME NEW f \in Names, Keep(f) PROVE IInv'
  <2>1. UNCHANGED <<fed, correlationVars>>
    BY <1>3 DEF Keep
  <2>2. QED
    BY <1>3, <2>1, KeepKeeps, CorrelationsUnchanged DEF IInv
<1>4. ASSUME NEW f \in Names, Parse(f) PROVE IInv'
  <2>1. UNCHANGED <<fed, correlationVars>>
    BY <1>4 DEF Parse
  <2>2. QED
    BY <1>4, <2>1, ParseKeeps, CorrelationsUnchanged DEF IInv
<1>5. CASE Feed
  BY <1>5, FeedKeeps
<1>6. CASE Count
  <2>1. UNCHANGED <<fed, correlationVars>>
    BY <1>6 DEF Count
  <2>2. QED
    BY <1>6, <2>1, CountKeeps, CorrelationsUnchanged DEF IInv
<1>7. CASE StartPoll \/ Stop \/ UNCHANGED vars
  BY <1>7, PlaceKeeps
<1>8. QED
  BY <1>1, <1>2, <1>3, <1>4, <1>5, <1>6, <1>7 DEF Next, Poll

\* The inductive invariant, on which the theorems below rest.
THEOREM Inductive == Spec => []IInv
<1>1. QED
  BY Initially, StepKeeps, PTL DEF Spec

\* The session never loses count of a file nor keeps more lines than fit the
\* sniff buffer (_MAX_SNIFF_BUFFER, watch.py:57).
THEOREM TypeCorrect == Spec => []TypeOK
<1>1. IInv => TypeOK
  BY DEF IInv, EntriesInv, Kinds
<1>2. QED
  BY Inductive, <1>1, PTL

\* _read_file_events() hands every line over once, in its order and under its
\* own number, whenever the format of its file came to be known and however
\* often the file was rotated.
THEOREM LinesInTurn == Spec => []HandedInTurn
<1>1. IInv => HandedInTurn
  BY DEF IInv, EntriesInv
<1>2. QED
  BY Inductive, <1>1, PTL

\* The counters that the summary of commands/watch.py prints are those of the
\* lines parsed.
THEOREM SummaryIsRight == Spec => []SummaryAdds
<1>1. IInv => SummaryAdds
  <2> SUFFICES ASSUME IInv, pc = "wait" \/ pc = "stopped"
               PROVE  eventCount + failureCount + (IF cut THEN Len(batch) ELSE 0) = Total(handed)
    BY DEF SummaryAdds
  <2>1. eventCount + failureCount + Len(batch) = Total(handed)
    BY DEF IInv, Counted
  <2>2. CASE cut
    BY <2>1, <2>2
  <2>3. CASE ~cut
    <3>1. batch = <<>> /\ Len(<<>>) = 0
      BY <2>3, EmptySeq DEF IInv, Counted
    <3>2. eventCount \in Nat /\ failureCount \in Nat
      BY DEF IInv, EntriesInv, Kinds, TypeOK
    <3>3. QED
      BY <2>1, <2>3, <3>1, <3>2
  <2>4. QED
    BY <2>2, <2>3
<1>2. QED
  BY Inductive, <1>1, PTL

\* IncrementalAnalyzer._correlate(): whatever a feed reports is, by rule, address
\* and group, what analyze would make of the findings recent at that moment, every
\* group it would make of them has been reported then, and none twice; in however
\* many polls the findings came, with whatever rules.
THEOREM WatchCorrelatesAsAnalyze == Spec => CorrelatedAsInBatch
<1>1. IInv => CorrelatedInTime
  BY InTime DEF IInv
<1>2. IInv /\ IInv' /\ CorrelatedInTime' /\ [Next]_vars =>
        [ReportedNow /\ CorrelatedOnce' /\ CorrelatedInTime']_<<fed, correlationVars>>
  <2> SUFFICES ASSUME IInv, IInv', Next, ~UNCHANGED <<fed, correlationVars>>
               PROVE  ReportedNow /\ CorrelatedOnce'
    BY DEF vars
  <2>1. ASSUME Feed PROVE ReportedNow
    BY <2>1, FeedKeeps
  <2>2. ASSUME ~Feed PROVE ReportedNow
    BY <2>2 DEF Next, Poll, Write, Rotate, StartPoll, Keep, Parse, Count, Stop
  <2>3. CorrelatedOnce'
    BY DEF IInv, CorrelationInv
  <2>4. QED
    BY <2>1, <2>2, <2>3
<1>3. QED
  BY Inductive, <1>1, <1>2, PTL DEF Spec, CorrelatedAsInBatch
-----------------------------------------------------------------------------
(* The parser of a file *)

\* The lines in which both parsers find a match.
Ambiguous(sample) == Hits("apache", sample) \cap Hits("syslog", sample)

\* Twice 0.6 is more than one: two parsers recognise the same sample only if one
\* line in five matches both.
LEMMA OneRecognises ==
  ASSUME NEW sample, IsFiniteSet(DOMAIN sample),
         Recognises("apache", sample), Recognises("syslog", sample)
  PROVE  5 * Cardinality(Ambiguous(sample)) >= Cardinality(Considered(sample))
<1> DEFINE A == Hits("apache", sample)
           S == Hits("syslog", sample)
           C == Considered(sample)
           B == Ambiguous(sample)
<1>1. A \subseteq C /\ S \subseteq C /\ A \cap S = B /\ C \subseteq DOMAIN sample
  BY DEF Hits, Considered, Matches, Ambiguous
<1>2. IsFiniteSet(C) /\ IsFiniteSet(A) /\ IsFiniteSet(S) /\ IsFiniteSet(B)
  <2>1. IsFiniteSet(C)
    BY <1>1, FS_Subset
  <2>2. IsFiniteSet(A) /\ IsFiniteSet(S)
    BY <1>1, <2>1, FS_Subset
  <2>3. B \in SUBSET A
    BY <1>1
  <2> HIDE DEF A, B
  <2>4. QED
    BY <2>1, <2>2, <2>3, FS_Subset
<1> DEFINE a == Cardinality(A)
           s == Cardinality(S)
           c == Cardinality(C)
           b == Cardinality(B)
<1>3. Cardinality(A \cup S) = a + s - b
  BY <1>1, <1>2, FS_Union
<1>4. Cardinality(A \cup S) <= c
  <2>1. A \cup S \subseteq C
    BY <1>1
  <2>2. QED
    BY <1>2, <2>1, FS_Subset
<1>5. a \in Nat /\ s \in Nat /\ c \in Nat /\ b \in Nat
  BY <1>2, FS_CardinalityType
<1>6. 10 * a >= 6 * c /\ 10 * s >= 6 * c
  BY DEF Recognises
<1> HIDE DEF a, s, c, b
<1>7. a + s - b <= c
  BY <1>3, <1>4
<1>8. 5 * b >= c
  BY ONLY <1>5, <1>6, <1>7
<1>9. QED
  BY <1>8 DEF b, c

\* A parser that recognises a sample has hits in it.
LEMMA RecognisedHits ==
  ASSUME NEW sample, IsFiniteSet(DOMAIN sample), NEW p, Recognises(p, sample)
  PROVE  Cardinality(Hits(p, sample)) \in Nat \ {0}
<1>1. IsFiniteSet(Hits(p, sample)) /\ IsFiniteSet(Considered(sample))
  <2>1. Hits(p, sample) \subseteq DOMAIN sample /\ Considered(sample) \subseteq DOMAIN sample
    BY DEF Hits, Considered, Matches
  <2>2. QED
    BY <2>1, FS_Subset
<1>2. Cardinality(Hits(p, sample)) \in Nat /\ Cardinality(Considered(sample)) \in Nat
  BY <1>1, FS_CardinalityType
<1>3. Cardinality(Considered(sample)) # 0
  BY <1>1, FS_EmptySet DEF Recognises
<1>4. 10 * Cardinality(Hits(p, sample)) >= 6 * Cardinality(Considered(sample))
  BY DEF Recognises
<1> DEFINE h == Cardinality(Hits(p, sample))
           c == Cardinality(Considered(sample))
<1>5. h \in Nat /\ c \in Nat /\ c # 0 /\ 10 * h >= 6 * c
  BY <1>2, <1>3, <1>4
<1> HIDE DEF h, c
<1>6. h \in Nat \ {0}
  BY <1>5
<1>7. QED
  BY <1>6 DEF h

\* sniff_parser() takes a parser that recognises the sample and has at least as
\* many hits as any other that does, the first in _SNIFF_ORDER if they are as
\* many, and none only if none recognises it.  A line may match both regular
\* expressions, so two may; but if fewer than one line in five does, no two can,
\* and the order of the parsers does not matter, for any sample.
THEOREM SnifferTakesBest ==
  ASSUME NEW sample, IsFiniteSet(DOMAIN sample)
  PROVE  LET best == SniffParser(sample)
             a == Cardinality(Hits("apache", sample))
             s == Cardinality(Hits("syslog", sample))
             ra == Recognises("apache", sample)
             rs == Recognises("syslog", sample)
         IN  /\ (best = "apache") <=> (ra /\ (rs => s <= a))
             /\ (best = "syslog") <=> (rs /\ (ra => s > a))
             /\ (best = NoParser) <=> (~ra /\ ~rs)
             /\ 5 * Cardinality(Ambiguous(sample)) < Cardinality(Considered(sample)) =>
                  (best = "apache" <=> ra) /\ (best = "syslog" <=> rs)
<1> DEFINE Score(p) == IF Recognises(p, sample) THEN Cardinality(Hits(p, sample)) ELSE 0
           best == SniffParser(sample)
           a == Cardinality(Hits("apache", sample))
           s == Cardinality(Hits("syslog", sample))
           few == 5 * Cardinality(Ambiguous(sample)) < Cardinality(Considered(sample))
           ra == Recognises("apache", sample)
           rs == Recognises("syslog", sample)
<1> SUFFICES /\ (best = "apache") <=> (ra /\ (rs => s <= a))
             /\ (best = "syslog") <=> (rs /\ (ra => s > a))
             /\ (best = NoParser) <=> (~ra /\ ~rs)
             /\ few => (best = "apache" <=> ra) /\ (best = "syslog" <=> rs)
  OBVIOUS
<1>1. best = IF Score("syslog") > Score("apache") THEN "syslog"
             ELSE IF Score("apache") > 0 THEN "apache" ELSE NoParser
  BY DEF SniffParser
<1>2. (ra => a \in Nat \ {0}) /\ (rs => s \in Nat \ {0})
  BY RecognisedHits
<1>3. Score("apache") = (IF ra THEN a ELSE 0) /\ Score("syslog") = (IF rs THEN s ELSE 0)
  OBVIOUS
<1>4. few => ~(ra /\ rs)
  <2> SUFFICES ASSUME few, ra, rs PROVE FALSE
    OBVIOUS
  <2>1. 5 * Cardinality(Ambiguous(sample)) >= Cardinality(Considered(sample))
    BY OneRecognises
  <2>2. IsFiniteSet(Ambiguous(sample)) /\ IsFiniteSet(Considered(sample))
    <3>1. Ambiguous(sample) \subseteq DOMAIN sample /\ Considered(sample) \subseteq DOMAIN sample
      BY DEF Ambiguous, Hits, Considered
    <3>2. QED
      BY <3>1, FS_Subset
  <2>3. Cardinality(Ambiguous(sample)) \in Nat /\ Cardinality(Considered(sample)) \in Nat
    BY <2>2, FS_CardinalityType
  <2>4. QED
    BY <2>1, <2>3
<1> HIDE DEF Score, best, a, s, few, ra, rs
<1>5. CASE ra /\ rs
  <2>0. Score("apache") = a /\ Score("syslog") = s /\ a \in Nat /\ s \in Nat /\ a > 0
    BY <1>2, <1>3, <1>5
  <2>1. best = IF s > a THEN "syslog" ELSE "apache"
    BY <1>1, <2>0
  <2>2. ~few
    BY <1>4, <1>5
  <2>3. a \in Nat /\ s \in Nat /\ (s > a <=> ~(s <= a))
    BY <1>2, <1>5
  <2>4. QED
    BY <1>5, <2>1, <2>2, <2>3 DEF NoParser
<1>6. CASE ra /\ ~rs
  <2>1. best = "apache"
    BY <1>1, <1>2, <1>3, <1>6
  <2>2. QED
    BY <1>6, <2>1 DEF NoParser
<1>7. CASE ~ra /\ rs
  <2>1. best = "syslog"
    BY <1>1, <1>2, <1>3, <1>7
  <2>2. QED
    BY <1>7, <2>1 DEF NoParser
<1>8. CASE ~ra /\ ~rs
  <2>1. best = NoParser
    BY <1>1, <1>3, <1>8
  <2>2. QED
    BY <1>8, <2>1 DEF NoParser
<1>9. QED
  BY <1>5, <1>6, <1>7, <1>8
=============================================================================
