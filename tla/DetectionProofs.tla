--------------------------- MODULE DetectionProofs ---------------------------
(***************************************************************************)
(* Theorems about Detection, for all keys, times, windows, thresholds and  *)
(* lengths of the stream: if no event is older than one of its key before  *)
(* it, what is reported depends on the stream alone, not on the feeds.     *)
(* What is said of hits and of streaks needs no such order.                *)
(***************************************************************************)
EXTENDS Detection, FiniteSetTheorems, NaturalsInduction, WellFoundedInduction, TLAPS

-----------------------------------------------------------------------------
(* Steps that leave the log alone, and the one that extends it *)

LEMMA FeedExtends ==
  ASSUME TypeOK, NEW b \in Batches, Feed(b)
  PROVE  /\ b \in Seq(Event) /\ Len(b) \in Nat \ {0} /\ SortedByTime(b)
         /\ log' \in Seq(Event)
         /\ Len(log') = Len(log) + Len(b) /\ Len(log') <= MaxEvents
         /\ \A i \in 1..Len(log) : log'[i] = log[i]
         /\ \A j \in 1..Len(b) : log'[Len(log) + j] = b[j]
<1>1. PICK n \in 1..(MaxEvents - Len(log)) : b \in [1..n -> Event]
  BY DEF Batches
<1>2. log \in Seq(Event) /\ Len(log) \in Nat /\ n \in Nat \ {0} /\ MaxEvents \in Nat
  BY <1>1, BoundsAssumption DEF TypeOK
<1>3. b \in Seq(Event) /\ Len(b) = n
  BY <1>1, <1>2
<1>4. log' = log \o b
  BY DEF Feed
<1>5. SortedByTime(b)
  BY DEF Batches
<1>6. log' \in Seq(Event)
  BY <1>2, <1>3, <1>4
<1>7. Len(log') = Len(log) + n /\ Len(log') <= MaxEvents
  <2>1. Len(log') = Len(log) + n
    <3>1. Len(log \o b) = Len(log) + Len(b)
      BY ONLY <1>2, <1>3
    <3>2. QED
      BY <1>3, <1>4, <3>1
  <2>2. Len(log) + n <= MaxEvents
    BY <1>1, <1>2
  <2>3. QED
    BY <2>1, <2>2
<1>8. \A i \in 1..Len(log) : log'[i] = log[i]
  BY <1>2, <1>3, <1>4
<1>9. \A j \in 1..Len(b) : log'[Len(log) + j] = b[j]
  BY <1>2, <1>3, <1>4
<1>10. QED
  BY <1>2, <1>3, <1>5, <1>6, <1>7, <1>8, <1>9

LEMMA Typed ==
  ASSUME TypeOK
  PROVE  /\ log \in Seq(Event) /\ Len(log) \in Nat /\ MaxEvents \in Nat
         /\ seen \in Nat /\ seen <= Len(log) /\ Len(log) <= MaxEvents
         /\ \A i \in 1..Len(log) :
              /\ log[i] \in Event /\ log[i].key \in Keys /\ log[i].time \in Int
         /\ Window \in Nat
<1>1. log \in Seq(Event) /\ MaxEvents \in Nat /\ Window \in Nat
      /\ seen \in 0..Len(log) /\ Len(log) <= MaxEvents
  BY BoundsAssumption, WindowAssumption DEF TypeOK
<1>2. \A e \in Event : e.key \in Keys /\ e.time \in Int
  BY TimesAssumption DEF Event
<1>3. Len(log) \in Nat /\ \A i \in 1..Len(log) : log[i] \in Event
  BY <1>1
<1>4. QED
  BY <1>1, <1>2, <1>3

LEMMA FeedTypeOK ==
  ASSUME TypeOK, NEW b \in Batches, Feed(b)
  PROVE  TypeOK'
<1>1. log' \in Seq(Event) /\ Len(log') <= MaxEvents /\ Len(log') \in Nat
  BY FeedExtends
<1>2. seen' \in 0..Len(log')
  BY FeedExtends, Typed DEF Feed
<1>3. feeds' \in 0..MaxFeeds
  BY BoundsAssumption DEF Feed, TypeOK
<1>4. PatternFindings(b) \subseteq Finding
  <2> SUFFICES ASSUME NEW k \in Keys
               PROVE  [rule |-> "pattern", key |-> k, at |-> Len(log) + Len(b),
                       evidence |-> Hits(b, k)] \in Finding
    BY DEF PatternFindings
  <2>1. Len(log) + Len(b) \in Position
    BY FeedExtends, Typed DEF Position
  <2>2. Hits(b, k) \subseteq Position
    BY FeedExtends, Typed DEF Hits, Position
  <2>3. QED
    BY <2>1, <2>2 DEF Finding
<1>5. /\ entries' \in [Keys -> SUBSET (1..seen')]
      /\ streaks' \in [Keys -> SUBSET (1..seen')]
      /\ flagged' \subseteq Keys /\ escalated' \subseteq Keys
  BY DEF Feed, TypeOK
<1>6. findings' \subseteq Finding
  BY <1>4 DEF Feed, TypeOK
<1>7. QED
  BY <1>1, <1>2, <1>3, <1>5, <1>6 DEF TypeOK

LEMMA NextEvent ==
  ASSUME TypeOK, NEW kind, At(seen + 1, kind)
  PROVE  /\ seen + 1 \in 1..Len(log) /\ seen + 1 \in Position
         /\ log[seen + 1].key \in Keys /\ log[seen + 1].kind = kind
         /\ log[seen + 1].time \in Int
BY Typed DEF At, Position

LEMMA FailureTypeOK ==
  ASSUME TypeOK, Failure
  PROVE  TypeOK'
<1> DEFINE n == seen + 1
           k == log[n].key
<1>1. n \in 1..Len(log) /\ n \in Position /\ k \in Keys /\ seen \in Nat /\ Len(log) \in Nat
      /\ Len(log) <= MaxEvents /\ MaxEvents \in Nat
  BY NextEvent, Typed DEF Failure
<1>2. Add(k, n) \subseteq 1..n
  BY <1>1 DEF Add, TypeOK
<1>3. UNCHANGED <<log, feeds, escalated>> /\ seen' = n
  BY DEF Failure
<1>4. 1..seen \subseteq 1..n /\ n \in 0..Len(log)
  BY <1>1
<1>5. entries' \in [Keys -> SUBSET (1..n)]
  BY <1>1, <1>2, <1>4 DEF Failure, TypeOK
<1>6. streaks' \in [Keys -> SUBSET (1..n)]
  BY <1>1, <1>4 DEF Failure, TypeOK
<1>7. Report("threshold", k, n, Add(k, n)) \in Finding
  BY <1>1, <1>2 DEF Report, Finding, Position
<1>8. flagged' \subseteq Keys /\ findings' \subseteq Finding
  BY <1>1, <1>7 DEF Failure, TypeOK
<1>9. QED
  BY <1>3, <1>4, <1>5, <1>6, <1>8 DEF TypeOK

LEMMA SuccessTypeOK ==
  ASSUME TypeOK, Success
  PROVE  TypeOK'
<1> DEFINE n == seen + 1
           k == log[n].key
<1>1. n \in 1..Len(log) /\ n \in Position /\ k \in Keys /\ seen \in Nat /\ Len(log) \in Nat
      /\ Len(log) <= MaxEvents /\ MaxEvents \in Nat
  BY NextEvent, Typed DEF Success
<1>2. WindowAsOf(k, n) \cup {n} \subseteq 1..n /\ streaks[k] \cup {n} \subseteq 1..n
  BY <1>1 DEF WindowAsOf, TypeOK
<1>3. UNCHANGED <<log, feeds, entries, flagged>> /\ seen' = n
  BY DEF Success
<1>4. 1..seen \subseteq 1..n /\ n \in 0..Len(log)
  BY <1>1
<1>5. entries' \in [Keys -> SUBSET (1..n)]
  BY <1>3, <1>4 DEF TypeOK
<1>6. streaks' \in [Keys -> SUBSET (1..n)]
  BY <1>1, <1>4 DEF Success, TypeOK
<1>7. \A r \in {"escalation", "rapid"}, w \in SUBSET (1..n) : Report(r, k, n, w) \in Finding
  BY <1>1 DEF Report, Finding, Position
<1>8. escalated' \subseteq Keys /\ findings' \subseteq Finding
  BY <1>1, <1>2, <1>7 DEF Success, TypeOK
<1>9. QED
  BY <1>3, <1>4, <1>5, <1>6, <1>8 DEF TypeOK

LEMMA SkipTypeOK ==
  ASSUME TypeOK, Skip
  PROVE  TypeOK'
<1>1. seen + 1 \in 1..Len(log)
  BY NextEvent DEF Skip
<1>2. seen' = seen + 1
      /\ UNCHANGED <<log, feeds, entries, flagged, escalated, streaks, findings>>
  BY DEF Skip
<1>3. 1..seen \subseteq 1..(seen + 1)
  BY Typed
<1>4. QED
  BY <1>1, <1>2, <1>3 DEF TypeOK

\* Every variable keeps to its values: positions never run past the stream.
THEOREM TypeCorrect == Spec => []TypeOK
<1>1. Init => TypeOK
  BY BoundsAssumption DEF Init, TypeOK
<1>2. TypeOK /\ [Next]_vars => TypeOK'
  <2> SUFFICES ASSUME TypeOK, [Next]_vars PROVE TypeOK'
    OBVIOUS
  <2>1. CASE UNCHANGED vars
    BY <2>1 DEF vars, TypeOK
  <2>2. QED
    BY <2>1, FeedTypeOK, FailureTypeOK, SuccessTypeOK, SkipTypeOK DEF Next, FeedNothing
<1>3. QED
  BY <1>1, <1>2, PTL DEF Spec

-----------------------------------------------------------------------------
(* The inductive invariant *)

\* Two events of one key are as old as their places say.
OrderInv ==
  \A i, j \in 1..Len(log) :
    i <= j /\ log[i].key = log[j].key => log[i].time <= log[j].time

\* A failure that is no longer kept is too old for some failure after it, and
\* so for every later event of its key.
EntriesInv ==
  \A k \in Keys :
    /\ entries[k] \subseteq Of("failure", k, seen)
    /\ \A i \in Of("failure", k, seen) \ entries[k] :
         \E m \in Of("failure", k, seen) : log[i].time < log[m].time - Window

\* What has been flagged had a reason.
FlagInv ==
  \A k \in Keys :
    /\ k \in flagged <=> Exceeds(k) # {}
    /\ k \in escalated <=> Breaches(k) # {}

\* Nothing is reported by a window before its time has come.
ReportInv == \A f \in findings : f.rule # "pattern" => f.at <= seen

\* Nor does it rest on events that have not been looked at.
EvidenceBound ==
  \A f \in findings : f.rule # "pattern" => f.evidence \subseteq 1..seen

IInv ==
  /\ TypeOK /\ OrderInv /\ EntriesInv /\ FlagInv /\ ReportInv /\ EvidenceBound
  /\ ThresholdFiresOnce /\ EscalationFiresOnce /\ EvidenceInWindow

-----------------------------------------------------------------------------
(* The window *)

\* What add() has evicted lies outside every window still to come, and what
\* it has kept is cut to the window again: no failure is missing.
LEMMA WindowExact ==
  ASSUME TypeOK, OrderInv, EntriesInv, seen + 1 \in 1..Len(log)
  PROVE  LET n == seen + 1
             k == log[n].key
         IN  WindowAsOf(k, n) = Within(Of("failure", k, seen), n)
<1> DEFINE n == seen + 1
           k == log[n].key
<1>1. k \in Keys /\ n \in 1..Len(log) /\ seen \in Nat /\ Len(log) \in Nat /\ Window \in Int
      /\ \A i \in 1..Len(log) : log[i].time \in Int
  BY Typed
<1>2. entries[k] \subseteq Of("failure", k, seen)
  BY <1>1 DEF EntriesInv
<1>3. ASSUME NEW i \in Of("failure", k, seen), log[i].time >= log[n].time - Window
      PROVE  i \in entries[k]
  <2> SUFFICES ASSUME i \notin entries[k] PROVE FALSE
    OBVIOUS
  <2>1. PICK m \in Of("failure", k, seen) : log[i].time < log[m].time - Window
    BY <1>1 DEF EntriesInv
  <2>2. m \in 1..Len(log) /\ i \in 1..Len(log) /\ m <= n /\ log[m].key = log[n].key
    BY <1>1 DEF Of
  <2>3. log[m].time <= log[n].time
    BY <1>1, <2>2 DEF OrderInv
  <2>4. log[i].time \in Int /\ log[m].time \in Int /\ log[n].time \in Int /\ Window \in Int
    BY <1>1, <2>2
  <2>5. log[i].time >= log[n].time - Window
    BY <1>3
  <2>6. QED
    BY ONLY <2>1, <2>3, <2>4, <2>5
<1>4. QED
  BY <1>2, <1>3 DEF WindowAsOf, Within

LEMMA OfGrows ==
  ASSUME TypeOK, seen + 1 \in 1..Len(log), NEW kind, NEW k \in Keys
  PROVE  /\ log[seen + 1].kind = kind /\ log[seen + 1].key = k
              => Of(kind, k, seen + 1) = Of(kind, k, seen) \cup {seen + 1}
         /\ ~(log[seen + 1].kind = kind /\ log[seen + 1].key = k)
              => Of(kind, k, seen + 1) = Of(kind, k, seen)
<1>1. seen \in Nat /\ 1..(seen + 1) = (1..seen) \cup {seen + 1}
  BY Typed
<1>2. QED
  BY <1>1 DEF Of

\* The window after add(): every failure of the key that lies in it.
LEMMA AddExact ==
  ASSUME TypeOK, OrderInv, EntriesInv, At(seen + 1, "failure")
  PROVE  LET n == seen + 1
             k == log[n].key
         IN  Add(k, n) = Within(Of("failure", k, n), n)
<1> DEFINE n == seen + 1
           k == log[n].key
<1>1. n \in 1..Len(log) /\ k \in Keys /\ log[n].kind = "failure" /\ log[n].time \in Int
  BY NextEvent
<1>2. WindowAsOf(k, n) = Within(Of("failure", k, seen), n)
  BY <1>1, WindowExact
<1>3. Of("failure", k, n) = Of("failure", k, seen) \cup {n}
  BY <1>1, OfGrows
<1>4. Within(Of("failure", k, n), n)
        = Within(Of("failure", k, seen), n) \cup {i \in {n} : log[i].time >= log[n].time - Window}
  BY <1>3 DEF Within
<1>5. Add(k, n)
        = WindowAsOf(k, n) \cup {i \in {n} : log[i].time >= log[n].time - Window}
  BY DEF Add, WindowAsOf
<1>6. QED
  BY <1>2, <1>4, <1>5

-----------------------------------------------------------------------------
(* Feeding *)

LEMMA FeedStable ==
  ASSUME TypeOK, NEW b \in Batches, Feed(b)
  PROVE  /\ seen' = seen /\ UNCHANGED <<entries, flagged, escalated>>
         /\ \A i \in 1..seen : i \in 1..Len(log) /\ log'[i] = log[i]
         /\ \A kind, k : \A n \in 0..seen : Of(kind, k, n)' = Of(kind, k, n)
         /\ \A k : Exceeds(k)' = Exceeds(k) /\ Breaches(k)' = Breaches(k)
<1>1. seen' = seen /\ UNCHANGED <<entries, flagged, escalated>>
  BY DEF Feed
<1>2. \A i \in 1..seen : i \in 1..Len(log) /\ log'[i] = log[i]
  BY FeedExtends, Typed
<1>3. ASSUME NEW kind, NEW k, NEW n \in 0..seen
      PROVE  Of(kind, k, n)' = Of(kind, k, n)
  BY <1>2, Typed DEF Of
<1>4. ASSUME NEW k PROVE Exceeds(k)' = Exceeds(k)
  <2>1. Of("failure", k, seen)' = Of("failure", k, seen)
    BY <1>1, <1>2 DEF Of
  <2>2. ASSUME NEW n \in Of("failure", k, seen)
        PROVE  Within(Of("failure", k, n), n)' = Within(Of("failure", k, n), n)
    <3>1. n \in 0..seen /\ n \in 1..seen
      BY Typed DEF Of
    <3>2. \A i \in Of("failure", k, n) : i \in 1..seen
      BY <3>1, Typed DEF Of
    <3>3. QED
      BY <1>2, <1>3, <3>1, <3>2 DEF Within
  <2>3. ASSUME NEW n \in Of("failure", k, seen)
        PROVE  Measure(Within(Of("failure", k, n), n))' = Measure(Within(Of("failure", k, n), n))
    <3>1. \A i \in Within(Of("failure", k, n), n) : log'[i] = log[i]
      BY <1>2, Typed DEF Within, Of
    <3>2. QED
      BY <2>2, <3>1 DEF Measure
  <2>4. QED
    BY <2>1, <2>3 DEF Exceeds
<1>5. ASSUME NEW k PROVE Breaches(k)' = Breaches(k)
  <2>1. Of("success", k, seen)' = Of("success", k, seen)
    BY <1>1, <1>2 DEF Of
  <2>2. ASSUME NEW n \in Of("success", k, seen)
        PROVE  Within(Of("failure", k, n), n)' = Within(Of("failure", k, n), n)
    <3>1. n \in 0..seen /\ n \in 1..seen
      BY Typed DEF Of
    <3>2. \A i \in Of("failure", k, n) : i \in 1..seen
      BY <3>1, Typed DEF Of
    <3>3. QED
      BY <1>2, <1>3, <3>1, <3>2 DEF Within
  <2>3. QED
    BY <2>1, <2>2 DEF Breaches
<1>6. QED
  BY <1>1, <1>2, <1>3, <1>4, <1>5

LEMMA FeedInv ==
  ASSUME InOrder, IInv, NEW b \in Batches, Feed(b)
  PROVE  IInv'
<1>1. TypeOK /\ TypeOK'
  BY FeedTypeOK DEF IInv
<1>2. OrderInv'
  <2> SUFFICES ASSUME NEW i \in 1..Len(log'), NEW j \in 1..Len(log'), i <= j,
                      log'[i].key = log'[j].key
               PROVE  log'[i].time <= log'[j].time
    BY DEF OrderInv
  <2>1. /\ SortedByTime(b) /\ Len(b) \in Nat /\ Len(log) \in Nat
        /\ Len(log') = Len(log) + Len(b)
        /\ \A m \in 1..Len(log) : log'[m] = log[m]
        /\ \A m \in 1..Len(b) : log'[Len(log) + m] = b[m]
    BY <1>1, FeedExtends, Typed
  <2>2. NoneOlder(b) /\ OrderInv
    BY DEF Feed, IInv
  <2>3. CASE j <= Len(log)
    <3>1. i \in 1..Len(log) /\ j \in 1..Len(log)
      BY <2>1, <2>3
    <3>2. QED
      BY <2>1, <2>2, <3>1 DEF OrderInv
  <2>4. CASE i <= Len(log) /\ j > Len(log)
    <3>1. PICK m \in 1..Len(b) : j = Len(log) + m
      <4>1. j - Len(log) \in 1..Len(b) /\ j = Len(log) + (j - Len(log))
        BY <2>1, <2>4
      <4>2. QED
        BY <4>1
    <3>2. i \in 1..Len(log) /\ log'[i] = log[i] /\ log'[j] = b[m]
      BY <2>1, <2>4, <3>1
    <3>3. QED
      BY <2>2, <3>1, <3>2 DEF NoneOlder
  <2>5. CASE i > Len(log)
    <3>1. PICK m \in 1..Len(b) : i = Len(log) + m
      <4>1. i - Len(log) \in 1..Len(b) /\ i = Len(log) + (i - Len(log))
        BY <2>1, <2>5
      <4>2. QED
        BY <4>1
    <3>2. PICK l \in 1..Len(b) : j = Len(log) + l
      <4>1. j - Len(log) \in 1..Len(b) /\ j = Len(log) + (j - Len(log))
        BY <2>1, <2>5
      <4>2. QED
        BY <4>1
    <3>3. m <= l /\ log'[i] = b[m] /\ log'[j] = b[l]
      BY <2>1, <3>1, <3>2
    <3>4. QED
      BY <2>1, <3>3 DEF SortedByTime
  <2>6. QED
    BY <2>1, <2>3, <2>4, <2>5
<1>3. /\ seen' = seen /\ seen \in Nat /\ UNCHANGED <<entries, flagged, escalated>>
      /\ \A i \in 1..seen : i \in 1..Len(log) /\ log'[i] = log[i]
      /\ \A k : Of("failure", k, seen)' = Of("failure", k, seen)
      /\ \A k : Exceeds(k)' = Exceeds(k) /\ Breaches(k)' = Breaches(k)
  <2>1. /\ seen' = seen /\ seen \in Nat /\ UNCHANGED <<entries, flagged, escalated>>
        /\ \A i \in 1..seen : i \in 1..Len(log) /\ log'[i] = log[i]
        /\ \A k : Exceeds(k)' = Exceeds(k) /\ Breaches(k)' = Breaches(k)
    BY <1>1, FeedStable, Typed
  <2>2. \A k : Of("failure", k, seen)' = Of("failure", k, seen)
    BY <2>1 DEF Of
  <2>3. QED
    BY <2>1, <2>2
<1>4. \A f \in findings' : f.rule # "pattern" => f \in findings
  BY DEF Feed, PatternFindings
<1>5. findings \subseteq findings'
  BY DEF Feed
<1>6. EntriesInv'
  BY <1>3 DEF IInv, EntriesInv, Of
<1>7. FlagInv'
  BY <1>3 DEF IInv, FlagInv
<1>8. ReportInv'
  BY <1>3, <1>4 DEF IInv, ReportInv
<1>9. \A r \in {"threshold", "escalation"} : \A k, n :
        Reported(r, k, n)' <=> Reported(r, k, n)
  BY <1>4, <1>5 DEF Reported
<1>10. ThresholdFiresOnce' /\ EscalationFiresOnce'
  BY <1>3, <1>9 DEF IInv, ThresholdFiresOnce, EscalationFiresOnce, First
<1>11. EvidenceInWindow'
  <2>1. ASSUME NEW f \in findings, f.rule \in {"threshold", "escalation"}
        PROVE  /\ \A i \in f.evidence : i \in 1..seen
               /\ f.at \in 1..seen
    BY <2>1, <1>1, <1>3 DEF IInv, EvidenceBound, ReportInv, TypeOK, Finding, Position
  <2>2. QED
    BY <1>3, <1>4, <2>1 DEF IInv, EvidenceInWindow
<1>12. EvidenceBound'
  BY <1>3, <1>4 DEF IInv, EvidenceBound
<1>13. QED
  BY <1>1, <1>2, <1>6, <1>7, <1>8, <1>10, <1>11, <1>12 DEF IInv

-----------------------------------------------------------------------------
(* Looking at one event *)

\* The first of a set of places and of one with a later place added.
LEMMA FirstGrows ==
  ASSUME NEW s \in Nat, NEW S \in SUBSET (1..s)
  PROVE  /\ \A m \in 1..s : First(S \cup {s + 1}, m) <=> First(S, m)
         /\ First(S \cup {s + 1}, s + 1) <=> S = {}
         /\ ~First(S, s + 1)
<1>1. \A m \in S : m \in Nat /\ m <= s /\ m >= 1
  OBVIOUS
<1>2. \A m \in 1..s : First(S \cup {s + 1}, m) <=> First(S, m)
  BY <1>1 DEF First
<1>3. First(S \cup {s + 1}, s + 1) <=> S = {}
  BY <1>1 DEF First
<1>4. ~First(S, s + 1)
  BY <1>1 DEF First
<1>5. QED
  BY <1>2, <1>3, <1>4

LEMMA EvaluateGrows ==
  ASSUME TypeOK, seen + 1 \in 1..Len(log), seen' = seen + 1, log' = log, NEW k \in Keys
  PROVE  LET n == seen + 1
             far == Within(Of("failure", k, n), n)
         IN  /\ Exceeds(k) \subseteq 1..seen /\ Breaches(k) \subseteq 1..seen
             /\ Exceeds(k)' = Exceeds(k) \cup
                  (IF n \in Of("failure", k, n) /\ Measure(far) >= Threshold THEN {n} ELSE {})
             /\ Breaches(k)' = Breaches(k) \cup
                  (IF n \in Of("success", k, n) /\ Cardinality(far) >= Threshold THEN {n} ELSE {})
<1> DEFINE n == seen + 1
           far(m) == Within(Of("failure", k, m), m)
<1>1. seen \in Nat /\ n \in 1..n /\ 1..n = (1..seen) \cup {n}
  BY Typed
<1>2. \A kind : Of(kind, k, seen)' = {m \in Of(kind, k, n) : TRUE}
  BY DEF Of
<1>3. \A kind : Of(kind, k, n) = Of(kind, k, seen) \cup (Of(kind, k, n) \cap {n})
  BY <1>1 DEF Of
<1>4. \A m : Of("failure", k, m)' = Of("failure", k, m)
  BY DEF Of
<1>5. \A m : far(m)' = far(m)
  BY <1>4 DEF Within
<1>6. ASSUME NEW m PROVE Measure(far(m))' = Measure(far(m))
  <2>1. far(m)' = far(m)
    BY <1>5
  <2>2. {log'[i].detail : i \in far(m)'} = {log[i].detail : i \in far(m)}
    BY <2>1
  <2>3. QED
    BY <2>1, <2>2 DEF Measure
<1>7. Exceeds(k)' = {m \in Of("failure", k, n) : Measure(far(m)) >= Threshold}
  BY <1>2, <1>6 DEF Exceeds
<1>8. Breaches(k)' = {m \in Of("success", k, n) : Cardinality(far(m)) >= Threshold}
  BY <1>2, <1>5 DEF Breaches
<1>9. Exceeds(k) = {m \in Of("failure", k, seen) : Measure(far(m)) >= Threshold}
      /\ Breaches(k) = {m \in Of("success", k, seen) : Cardinality(far(m)) >= Threshold}
  BY DEF Exceeds, Breaches
<1>10. Exceeds(k) \subseteq 1..seen /\ Breaches(k) \subseteq 1..seen
  BY <1>9 DEF Of
<1>11. Exceeds(k)' = Exceeds(k) \cup
         (IF n \in Of("failure", k, n) /\ Measure(far(n)) >= Threshold THEN {n} ELSE {})
  BY <1>3, <1>7, <1>9
<1>12. Breaches(k)' = Breaches(k) \cup
         (IF n \in Of("success", k, n) /\ Cardinality(far(n)) >= Threshold THEN {n} ELSE {})
  BY <1>3, <1>8, <1>9
<1>13. QED
  BY <1>10, <1>11, <1>12

LEMMA FailureFires ==
  ASSUME IInv, Failure
  PROVE  ThresholdFiresOnce' /\ EscalationFiresOnce' /\ FlagInv'
<1>0. PICK n \in Nat, k \in Keys : n = seen + 1 /\ k = log[n].key
  <2>1. At(seen + 1, "failure") /\ TypeOK
    BY DEF Failure, IInv
  <2>2. QED
    BY <2>1, NextEvent, Typed
<1> DEFINE w == Add(k, n)
           fires == Measure(w) >= Threshold /\ k \notin flagged
<1>1. /\ TypeOK /\ At(n, "failure") /\ seen' = n /\ UNCHANGED <<log, escalated>>
      /\ flagged' = IF fires THEN flagged \cup {k} ELSE flagged
      /\ findings' = IF fires THEN findings \cup {Report("threshold", k, n, w)} ELSE findings
  BY <1>0 DEF Failure, Exceeded, IInv
<1>2. /\ n \in 1..Len(log) /\ k \in Keys /\ log[n].kind = "failure" /\ seen \in Nat
      /\ 1..n = (1..seen) \cup {n} /\ n \notin 1..seen
  BY <1>0, <1>1, NextEvent, Typed
<1>3. w = Within(Of("failure", k, n), n) /\ n \in Of("failure", k, n)
  <2>1. n \in Of("failure", k, n)
    BY <1>0, <1>2 DEF Of
  <2>2. QED
    BY <1>0, <1>1, <2>1, AddExact DEF IInv
<1>4. Exceeds(k)' = Exceeds(k) \cup (IF Measure(w) >= Threshold THEN {n} ELSE {})
  <2>1. Exceeds(k)' = Exceeds(k) \cup
          (IF n \in Of("failure", k, n) /\ Measure(Within(Of("failure", k, n), n)) >= Threshold
             THEN {n} ELSE {})
    BY <1>0, <1>1, <1>2, EvaluateGrows
  <2>2. QED
    BY ONLY <1>3, <2>1
<1>5. ASSUME NEW j \in Keys, j # k PROVE Exceeds(j)' = Exceeds(j)
  <2>1. n \notin Of("failure", j, n)
    BY <1>0, <1>2, <1>5 DEF Of
  <2>2. Exceeds(j)' = Exceeds(j) \cup
          (IF n \in Of("failure", j, n) /\ Measure(Within(Of("failure", j, n), n)) >= Threshold
             THEN {n} ELSE {})
    BY <1>0, <1>1, <1>2, EvaluateGrows
  <2>3. QED
    BY ONLY <2>1, <2>2
<1>6. ASSUME NEW j \in Keys PROVE Breaches(j)' = Breaches(j)
  <2>1. n \notin Of("success", j, n)
    BY <1>0, <1>2 DEF Of
  <2>2. Breaches(j)' = Breaches(j) \cup
          (IF n \in Of("success", j, n) /\ Cardinality(Within(Of("failure", j, n), n)) >= Threshold
             THEN {n} ELSE {})
    BY <1>0, <1>1, <1>2, EvaluateGrows
  <2>3. QED
    BY ONLY <2>1, <2>2
<1>7. \A j \in Keys : Exceeds(j) \subseteq 1..seen /\ Breaches(j) \subseteq 1..seen
  BY <1>0, <1>1, <1>2, EvaluateGrows
<1>8. \A r \in {"threshold", "escalation"}, j \in Keys : ~Reported(r, j, n)
  BY <1>2 DEF IInv, ReportInv, Reported
<1>9. /\ \A f : f \in findings' <=> f \in findings \/ (fires /\ f = Report("threshold", k, n, w))
      /\ \A j : j \in flagged' <=> j \in flagged \/ (Measure(w) >= Threshold /\ j = k)
  BY <1>1
<1> HIDE DEF w, fires
<1>a. \A j \in Keys, m \in 1..n :
        Reported("threshold", j, m)' <=> Reported("threshold", j, m) \/ (fires /\ j = k /\ m = n)
  <2>1. LET f == Report("threshold", k, n, w)
        IN  f.rule = "threshold" /\ f.key = k /\ f.at = n
    BY DEF Report
  <2>2. QED
    BY <1>9, <2>1 DEF Reported
<1>10. \A j \in Keys, m \in 1..n : Reported("escalation", j, m)' <=> Reported("escalation", j, m)
  <2>1. Report("threshold", k, n, w).rule = "threshold"
    BY DEF Report
  <2>2. QED
    BY <1>9, <2>1 DEF Reported
<1>11. FlagInv'
  <2> SUFFICES ASSUME NEW j \in Keys
               PROVE  /\ j \in flagged' <=> Exceeds(j)' # {}
                      /\ j \in escalated <=> Breaches(j)' # {}
    BY <1>1 DEF FlagInv
  <2>1. (j \in flagged <=> Exceeds(j) # {}) /\ (j \in escalated <=> Breaches(j) # {})
    BY DEF IInv, FlagInv
  <2>2. j = k => (Exceeds(j)' # {} <=> Exceeds(j) # {} \/ Measure(w) >= Threshold)
    BY <1>4
  <2>3. QED
    BY <1>5, <1>6, <1>9, <2>1, <2>2
<1>12. ThresholdFiresOnce'
  <2> SUFFICES ASSUME NEW j \in Keys, NEW m \in 1..n
               PROVE  Reported("threshold", j, m)' <=> First(Exceeds(j)', m)
    BY <1>1 DEF ThresholdFiresOnce, First
  <2>1. /\ \A i \in 1..seen : First(Exceeds(j) \cup {n}, i) <=> First(Exceeds(j), i)
        /\ First(Exceeds(j) \cup {n}, n) <=> Exceeds(j) = {}
        /\ ~First(Exceeds(j), n)
    BY <1>0, <1>2, <1>7, FirstGrows
  <2>2. \A i \in 1..seen : Reported("threshold", j, i) <=> First(Exceeds(j), i)
    BY DEF IInv, ThresholdFiresOnce
  <2>3. k \in flagged <=> Exceeds(k) # {}
    BY <1>2 DEF IInv, FlagInv
  <2>a. Exceeds(j)' = Exceeds(j) \cup {n} \/ Exceeds(j)' = Exceeds(j)
    BY <1>4, <1>5
  <2>b. j = k =>
          (Exceeds(j)' = IF Measure(w) >= Threshold THEN Exceeds(j) \cup {n} ELSE Exceeds(j))
    BY <1>4
  <2>c. fires <=> Measure(w) >= Threshold /\ k \notin flagged
    BY DEF fires
  <2>4. CASE m \in 1..seen
    BY <1>2, <1>a, <2>1, <2>2, <2>4, <2>a
  <2>5. CASE m = n
    <3>1. ~Reported("threshold", j, m) /\ m \in 1..n
      BY <1>8, <2>5
    <3>2. CASE j = k
      BY <1>a, <2>1, <2>3, <2>5, <2>b, <2>c, <3>1, <3>2
    <3>3. CASE j # k
      BY <1>5, <1>a, <2>1, <2>5, <3>1, <3>3
    <3>4. QED
      BY <3>2, <3>3
  <2>6. QED
    BY <1>2, <2>4, <2>5
<1>13. EscalationFiresOnce'
  <2> SUFFICES ASSUME NEW j \in Keys, NEW m \in 1..n
               PROVE  Reported("escalation", j, m)' <=> First(Breaches(j)', m)
    BY <1>1 DEF EscalationFiresOnce, First
  <2>1. ~First(Breaches(j), n)
    BY <1>0, <1>2, <1>7, FirstGrows
  <2>2. \A i \in 1..seen : Reported("escalation", j, i) <=> First(Breaches(j), i)
    BY DEF IInv, EscalationFiresOnce
  <2>3. QED
    BY <1>2, <1>6, <1>8, <1>10, <2>1, <2>2
<1>14. QED
  BY <1>11, <1>12, <1>13

LEMMA FailureInv ==
  ASSUME IInv, Failure
  PROVE  IInv'
<1>0. PICK n \in Nat, k \in Keys : n = seen + 1 /\ k = log[n].key
  <2>1. At(seen + 1, "failure") /\ TypeOK
    BY DEF Failure, IInv
  <2>2. QED
    BY <2>1, NextEvent, Typed
<1> DEFINE w == Add(k, n)
<1>1. /\ TypeOK /\ At(n, "failure") /\ seen' = n /\ log' = log
      /\ entries' = [entries EXCEPT ![k] = w]
      /\ \A f \in findings' : f \in findings \/ f = Report("threshold", k, n, w)
  BY <1>0 DEF Failure, IInv
<1>2. /\ n \in 1..Len(log) /\ k \in Keys /\ log[n].kind = "failure" /\ seen \in Nat
      /\ 1..n = (1..seen) \cup {n} /\ Window \in Int
      /\ \A i \in 1..Len(log) : log[i].time \in Int
  BY <1>0, <1>1, NextEvent, Typed
<1>3. w = Within(Of("failure", k, n), n)
  BY <1>0, <1>1, AddExact DEF IInv
<1>4. TypeOK' /\ OrderInv'
  BY <1>1, FailureTypeOK DEF IInv, OrderInv
<1>5. \A j \in Keys :
        Of("failure", j, seen)' = Of("failure", j, seen) \cup (IF j = k THEN {n} ELSE {})
  BY <1>0, <1>1, <1>2 DEF Of
<1>6. EntriesInv'
  <2> SUFFICES ASSUME NEW j \in Keys
               PROVE  /\ entries'[j] \subseteq Of("failure", j, seen)'
                      /\ \A i \in Of("failure", j, seen)' \ entries'[j] :
                           \E m \in Of("failure", j, seen)' : log[i].time < log[m].time - Window
    BY <1>1 DEF EntriesInv
  <2>1. CASE j # k
    <3>1. entries'[j] = entries[j] /\ Of("failure", j, seen)' = Of("failure", j, seen)
      BY <1>1, <1>5, <2>1 DEF TypeOK
    <3>2. QED
      BY <3>1 DEF IInv, EntriesInv
  <2>2. CASE j = k
    <3>1. entries'[j] = w /\ Of("failure", j, seen)' = Of("failure", k, n)
      BY <1>0, <1>1, <1>2, <2>2 DEF TypeOK, Of
    <3>2. n \in Of("failure", k, n)
      BY <1>0, <1>2 DEF Of
    <3>3. \A i \in Of("failure", k, n) \ w : log[i].time < log[n].time - Window
      BY <1>2, <1>3 DEF Within, Of
    <3>4. QED
      BY <1>3, <3>1, <3>2, <3>3 DEF Within
  <2>3. QED
    BY <2>1, <2>2
<1>7. w \subseteq 1..n
  BY <1>3 DEF Within, Of
<1>8. ReportInv' /\ EvidenceBound'
  BY <1>1, <1>2, <1>7 DEF IInv, ReportInv, EvidenceBound, Report, TypeOK, Finding, Position
<1>9. EvidenceInWindow'
  <2>1. ASSUME NEW i \in w, NEW j \in w
        PROVE  /\ log[i].key = k /\ log[i].time <= log[n].time
               /\ log[j].time - log[i].time <= Window
    <3>1. /\ i \in 1..Len(log) /\ j \in 1..Len(log) /\ i <= n /\ j <= n
          /\ log[i].key = k /\ log[j].key = k /\ log[i].time >= log[n].time - Window
      BY <1>2, <1>3 DEF Within, Of
    <3>2. log[i].time <= log[n].time /\ log[j].time <= log[n].time
      <4>1. OrderInv /\ log[n].key = k /\ n \in 1..Len(log)
        BY <1>0, <1>2 DEF IInv
      <4>2. QED
        BY <3>1, <4>1 DEF OrderInv
    <3>3. log[i].time \in Int /\ log[j].time \in Int /\ log[n].time \in Int
      BY <1>2, <3>1
    <3>4. log[j].time - log[i].time <= Window
      BY ONLY <1>2, <3>1, <3>2, <3>3
    <3>5. QED
      BY <3>1, <3>2, <3>4
  <2>2. QED
    BY <1>1, <2>1 DEF IInv, EvidenceInWindow, Report
<1>10. QED
  BY <1>4, <1>6, <1>8, <1>9, FailureFires DEF IInv

LEMMA SuccessFires ==
  ASSUME IInv, Success
  PROVE  ThresholdFiresOnce' /\ EscalationFiresOnce' /\ FlagInv'
<1>0. PICK n \in Nat, k \in Keys : n = seen + 1 /\ k = log[n].key
  <2>1. At(seen + 1, "success") /\ TypeOK
    BY DEF Success, IInv
  <2>2. QED
    BY <2>1, NextEvent, Typed
<1> DEFINE w == WindowAsOf(k, n)
           escalates == Cardinality(w) >= Threshold /\ k \notin escalated
           rapid == Report("rapid", k, n, streaks[k] \cup {n})
           report == Report("escalation", k, n, w \cup {n})
<1>1. /\ TypeOK /\ At(n, "success") /\ seen' = n /\ UNCHANGED <<log, flagged>>
      /\ escalated' = IF escalates THEN escalated \cup {k} ELSE escalated
      /\ \A f : f.rule # "rapid" =>
           (f \in findings' <=> f \in findings \/ (escalates /\ f = report))
  <2>1. rapid.rule = "rapid"
    BY DEF Report
  <2>2. QED
    BY <1>0, <2>1 DEF Success, IInv
<1>2. /\ n \in 1..Len(log) /\ log[n].kind = "success" /\ seen \in Nat
      /\ 1..n = (1..seen) \cup {n} /\ n \notin 1..seen
  BY <1>0, <1>1, NextEvent, Typed
<1>3. w = Within(Of("failure", k, n), n) /\ n \in Of("success", k, n)
  <2>1. n \in Of("success", k, n)
    BY <1>0, <1>2 DEF Of
  <2>2. Of("failure", k, n) = Of("failure", k, seen)
    BY <1>0, <1>1, <1>2, OfGrows
  <2>3. w = Within(Of("failure", k, seen), n)
    BY <1>0, <1>1, <1>2, WindowExact DEF IInv
  <2>4. QED
    BY <2>1, <2>2, <2>3
<1>4. Breaches(k)' = Breaches(k) \cup (IF Cardinality(w) >= Threshold THEN {n} ELSE {})
  <2>1. Breaches(k)' = Breaches(k) \cup
          (IF n \in Of("success", k, n) /\ Cardinality(Within(Of("failure", k, n), n)) >= Threshold
             THEN {n} ELSE {})
    BY <1>0, <1>1, <1>2, EvaluateGrows
  <2>2. QED
    BY ONLY <1>3, <2>1
<1>5. ASSUME NEW j \in Keys, j # k PROVE Breaches(j)' = Breaches(j)
  <2>1. n \notin Of("success", j, n)
    BY <1>0, <1>2, <1>5 DEF Of
  <2>2. Breaches(j)' = Breaches(j) \cup
          (IF n \in Of("success", j, n) /\ Cardinality(Within(Of("failure", j, n), n)) >= Threshold
             THEN {n} ELSE {})
    BY <1>0, <1>1, <1>2, EvaluateGrows
  <2>3. QED
    BY ONLY <2>1, <2>2
<1>6. ASSUME NEW j \in Keys PROVE Exceeds(j)' = Exceeds(j)
  <2>1. n \notin Of("failure", j, n)
    BY <1>0, <1>2 DEF Of
  <2>2. Exceeds(j)' = Exceeds(j) \cup
          (IF n \in Of("failure", j, n) /\ Measure(Within(Of("failure", j, n), n)) >= Threshold
             THEN {n} ELSE {})
    BY <1>0, <1>1, <1>2, EvaluateGrows
  <2>3. QED
    BY ONLY <2>1, <2>2
<1>7. \A j \in Keys : Exceeds(j) \subseteq 1..seen /\ Breaches(j) \subseteq 1..seen
  BY <1>0, <1>1, <1>2, EvaluateGrows
<1>8. \A r \in {"threshold", "escalation"}, j \in Keys : ~Reported(r, j, n)
  BY <1>0, <1>2 DEF IInv, ReportInv, Reported
<1>9. report.rule = "escalation" /\ report.key = k /\ report.at = n
  BY DEF Report
<1>10. \A j : j \in escalated' <=> j \in escalated \/ (Cardinality(w) >= Threshold /\ j = k)
  BY <1>1
<1>11. escalates <=> Cardinality(w) >= Threshold /\ k \notin escalated
  OBVIOUS
<1> HIDE DEF w, escalates, report
<1>12. \A j \in Keys, m \in 1..n :
         Reported("escalation", j, m)' <=> Reported("escalation", j, m) \/ (escalates /\ j = k /\ m = n)
  BY <1>1, <1>9 DEF Reported
<1>13. \A j \in Keys, m \in 1..n : Reported("threshold", j, m)' <=> Reported("threshold", j, m)
  BY <1>1, <1>9 DEF Reported
<1>14. FlagInv'
  <2> SUFFICES ASSUME NEW j \in Keys
               PROVE  /\ j \in flagged <=> Exceeds(j)' # {}
                      /\ j \in escalated' <=> Breaches(j)' # {}
    BY <1>1 DEF FlagInv
  <2>1. (j \in flagged <=> Exceeds(j) # {}) /\ (j \in escalated <=> Breaches(j) # {})
    BY DEF IInv, FlagInv
  <2>2. j = k => (Breaches(j)' # {} <=> Breaches(j) # {} \/ Cardinality(w) >= Threshold)
    BY <1>4
  <2>3. QED
    BY <1>5, <1>6, <1>10, <2>1, <2>2
<1>15. EscalationFiresOnce'
  <2> SUFFICES ASSUME NEW j \in Keys, NEW m \in 1..n
               PROVE  Reported("escalation", j, m)' <=> First(Breaches(j)', m)
    BY <1>1 DEF EscalationFiresOnce, First
  <2>1. /\ \A i \in 1..seen : First(Breaches(j) \cup {n}, i) <=> First(Breaches(j), i)
        /\ First(Breaches(j) \cup {n}, n) <=> Breaches(j) = {}
        /\ ~First(Breaches(j), n)
    BY <1>0, <1>2, <1>7, FirstGrows
  <2>2. \A i \in 1..seen : Reported("escalation", j, i) <=> First(Breaches(j), i)
    BY DEF IInv, EscalationFiresOnce
  <2>3. k \in escalated <=> Breaches(k) # {}
    BY <1>2 DEF IInv, FlagInv
  <2>4. Breaches(j)' = Breaches(j) \cup {n} \/ Breaches(j)' = Breaches(j)
    BY <1>4, <1>5
  <2>5. j = k =>
          (Breaches(j)' = IF Cardinality(w) >= Threshold THEN Breaches(j) \cup {n} ELSE Breaches(j))
    BY <1>4
  <2>6. CASE m \in 1..seen
    BY <1>2, <1>12, <2>1, <2>2, <2>4, <2>6
  <2>7. CASE m = n
    <3>1. ~Reported("escalation", j, m) /\ m \in 1..n
      BY <1>8, <2>7
    <3>2. CASE j = k
      BY <1>11, <1>12, <2>1, <2>3, <2>5, <2>7, <3>1, <3>2
    <3>3. CASE j # k
      BY <1>5, <1>12, <2>1, <2>7, <3>1, <3>3
    <3>4. QED
      BY <3>2, <3>3
  <2>8. QED
    BY <1>2, <2>6, <2>7
<1>16. ThresholdFiresOnce'
  <2> SUFFICES ASSUME NEW j \in Keys, NEW m \in 1..n
               PROVE  Reported("threshold", j, m)' <=> First(Exceeds(j)', m)
    BY <1>1 DEF ThresholdFiresOnce, First
  <2>1. ~First(Exceeds(j), n)
    BY <1>0, <1>2, <1>7, FirstGrows
  <2>2. \A i \in 1..seen : Reported("threshold", j, i) <=> First(Exceeds(j), i)
    BY DEF IInv, ThresholdFiresOnce
  <2>3. QED
    BY <1>2, <1>6, <1>8, <1>13, <2>1, <2>2
<1>17. QED
  BY <1>14, <1>15, <1>16

LEMMA SuccessInv ==
  ASSUME IInv, Success
  PROVE  IInv'
<1>0. PICK n \in Nat, k \in Keys : n = seen + 1 /\ k = log[n].key
  <2>1. At(seen + 1, "success") /\ TypeOK
    BY DEF Success, IInv
  <2>2. QED
    BY <2>1, NextEvent, Typed
<1> DEFINE w == WindowAsOf(k, n)
           s == streaks[k]
<1>1. /\ TypeOK /\ At(n, "success") /\ seen' = n /\ UNCHANGED <<log, entries>>
      /\ \A f \in findings' : \/ f \in findings
                              \/ f = Report("escalation", k, n, w \cup {n})
                              \/ f = Report("rapid", k, n, s \cup {n})
  BY <1>0 DEF Success, IInv
<1>2. /\ n \in 1..Len(log) /\ log[n].kind = "success" /\ seen \in Nat
      /\ 1..n = (1..seen) \cup {n} /\ n \notin 1..seen /\ Window \in Int /\ Window >= 0
      /\ \A i \in 1..Len(log) : log[i].time \in Int
  BY <1>0, <1>1, NextEvent, Typed
<1>3. w = Within(Of("failure", k, seen), n)
  BY <1>0, <1>1, <1>2, WindowExact DEF IInv
<1>4. TypeOK' /\ OrderInv'
  BY <1>1, SuccessTypeOK DEF IInv, OrderInv
<1>5. \A j \in Keys : Of("failure", j, seen)' = Of("failure", j, seen)
  BY <1>0, <1>1, <1>2 DEF Of
<1>6. EntriesInv'
  BY <1>1, <1>5 DEF IInv, EntriesInv
<1>7. w \cup {n} \subseteq 1..n /\ s \cup {n} \subseteq 1..n
  BY <1>1, <1>2, <1>3 DEF Within, Of, TypeOK
<1>8. ReportInv' /\ EvidenceBound'
  <2>1. /\ Report("escalation", k, n, w \cup {n}).at = n
        /\ Report("escalation", k, n, w \cup {n}).evidence \subseteq 1..n
        /\ Report("rapid", k, n, s \cup {n}).at = n
        /\ Report("rapid", k, n, s \cup {n}).evidence \subseteq 1..n
    BY <1>7 DEF Report
  <2>2. \A f \in findings : f.rule # "pattern" => f.at <= seen /\ f.evidence \subseteq 1..seen
    BY DEF IInv, ReportInv, EvidenceBound
  <2>3. \A f \in findings : f.at \in Int
    BY <1>1 DEF TypeOK, Finding, Position
  <2>4. n \in Nat /\ seen <= n
    BY <1>0, <1>2
  <2>5. ASSUME NEW f \in findings', f.rule # "pattern"
        PROVE  f.at <= n /\ f.evidence \subseteq 1..n
    <3>1. CASE f \in findings
      <4>1. f.at <= seen /\ f.evidence \subseteq 1..seen /\ f.at \in Int
        BY <2>2, <2>3, <2>5, <3>1
      <4>2. QED
        BY <1>2, <2>4, <4>1
    <3>2. CASE f \notin findings
      BY <1>1, <2>1, <2>4, <3>2
    <3>3. QED
      BY <3>1, <3>2
  <2>6. QED
    BY <1>1, <2>5 DEF ReportInv, EvidenceBound
<1>9. EvidenceInWindow'
  <2>1. ASSUME NEW i \in w \cup {n}, NEW j \in w \cup {n}
        PROVE  /\ log[i].key = k /\ log[i].time <= log[n].time
               /\ log[j].time - log[i].time <= Window
    <3>1. /\ i \in 1..Len(log) /\ j \in 1..Len(log) /\ i <= n /\ j <= n
          /\ log[i].key = k /\ log[j].key = k
      BY <1>0, <1>2, <1>3 DEF Within, Of
    <3>2. log[i].time <= log[n].time /\ log[j].time <= log[n].time
      <4>1. OrderInv /\ log[n].key = k /\ n \in 1..Len(log)
        BY <1>0, <1>2 DEF IInv
      <4>2. QED
        BY <3>1, <4>1 DEF OrderInv
    <3>3. log[i].time \in Int /\ log[j].time \in Int /\ log[n].time \in Int
      BY <1>2, <3>1
    <3>4. log[i].time >= log[n].time - Window
      BY <1>2, <1>3, <3>3 DEF Within
    <3>5. log[j].time - log[i].time <= Window
      BY ONLY <1>2, <3>2, <3>3, <3>4
    <3>6. QED
      BY <3>1, <3>2, <3>5
  <2>2. QED
    BY <1>1, <2>1 DEF IInv, EvidenceInWindow, Report
<1>10. QED
  BY <1>4, <1>6, <1>8, <1>9, SuccessFires DEF IInv

LEMMA SkipInv ==
  ASSUME IInv, Skip
  PROVE  IInv'
<1>0. PICK n \in Nat : n = seen + 1 /\ n \in 1..Len(log) /\ log[n].kind \notin {"failure", "success"}
  <2>1. (At(seen + 1, "hit") \/ At(seen + 1, "other")) /\ TypeOK
    BY DEF Skip, IInv
  <2>2. QED
    BY <2>1, NextEvent, Typed
<1>1. /\ TypeOK /\ seen' = n
      /\ UNCHANGED <<log, entries, flagged, escalated, findings>>
  BY <1>0 DEF Skip, IInv
<1>2. seen \in Nat /\ 1..n = (1..seen) \cup {n} /\ n \notin 1..seen
  BY <1>0, <1>1, Typed
<1>3. TypeOK' /\ OrderInv'
  BY <1>1, SkipTypeOK DEF IInv, OrderInv
<1>4. \A j \in Keys : Of("failure", j, seen)' = Of("failure", j, seen)
  BY <1>0, <1>1, <1>2 DEF Of
<1>5. EntriesInv'
  BY <1>1, <1>4 DEF IInv, EntriesInv
<1>6. ReportInv' /\ EvidenceBound'
  BY <1>1, <1>2 DEF IInv, ReportInv, EvidenceBound, TypeOK, Finding, Position
<1>7. EvidenceInWindow'
  BY <1>1 DEF IInv, EvidenceInWindow
<1>8. ASSUME NEW j \in Keys
      PROVE  /\ Exceeds(j)' = Exceeds(j) /\ Breaches(j)' = Breaches(j)
             /\ Exceeds(j) \subseteq 1..seen /\ Breaches(j) \subseteq 1..seen
  <2>1. n \notin Of("failure", j, n) /\ n \notin Of("success", j, n)
    BY <1>0 DEF Of
  <2>2. /\ Exceeds(j)' = Exceeds(j) \cup
             (IF n \in Of("failure", j, n) /\ Measure(Within(Of("failure", j, n), n)) >= Threshold
                THEN {n} ELSE {})
        /\ Breaches(j)' = Breaches(j) \cup
             (IF n \in Of("success", j, n) /\ Cardinality(Within(Of("failure", j, n), n)) >= Threshold
                THEN {n} ELSE {})
        /\ Exceeds(j) \subseteq 1..seen /\ Breaches(j) \subseteq 1..seen
    BY <1>0, <1>1, EvaluateGrows
  <2>3. QED
    BY ONLY <2>1, <2>2
<1>9. FlagInv'
  BY <1>1, <1>8 DEF IInv, FlagInv
<1>10. \A r \in {"threshold", "escalation"}, j \in Keys : ~Reported(r, j, n)
  BY <1>0, <1>2 DEF IInv, ReportInv, Reported
<1>11. \A r, j, m : Reported(r, j, m)' <=> Reported(r, j, m)
  BY <1>1 DEF Reported
<1>12. \A j \in Keys : ~First(Exceeds(j), n) /\ ~First(Breaches(j), n)
  BY <1>0, <1>2, <1>8, FirstGrows
<1>13. ThresholdFiresOnce' /\ EscalationFiresOnce'
  <2>1. \A j \in Keys, m \in 1..n : Reported("threshold", j, m)' <=> First(Exceeds(j)', m)
    BY <1>2, <1>8, <1>10, <1>11, <1>12 DEF IInv, ThresholdFiresOnce
  <2>2. \A j \in Keys, m \in 1..n : Reported("escalation", j, m)' <=> First(Breaches(j)', m)
    BY <1>2, <1>8, <1>10, <1>11, <1>12 DEF IInv, EscalationFiresOnce
  <2>3. QED
    BY <1>1, <2>1, <2>2 DEF ThresholdFiresOnce, EscalationFiresOnce, First
<1>14. QED
  BY <1>3, <1>5, <1>6, <1>7, <1>9, <1>13 DEF IInv

LEMMA StutterInv ==
  ASSUME IInv, UNCHANGED vars
  PROVE  IInv'
<1>1. UNCHANGED <<log, seen, feeds, entries, flagged, escalated, streaks, findings>>
  BY DEF vars
<1>2. TypeOK' /\ OrderInv'
  BY <1>1 DEF IInv, TypeOK, OrderInv
<1>3. EntriesInv' /\ ReportInv' /\ EvidenceBound' /\ EvidenceInWindow'
  BY <1>1 DEF IInv, EntriesInv, Of, ReportInv, EvidenceBound, EvidenceInWindow
<1>4. \A k \in Keys : Exceeds(k)' = Exceeds(k) /\ Breaches(k)' = Breaches(k)
  BY <1>1 DEF Exceeds, Breaches, Of, Within, Measure
<1>5. \A r, k, n : Reported(r, k, n)' <=> Reported(r, k, n)
  BY <1>1 DEF Reported
<1>6. FlagInv'
  BY <1>1, <1>4 DEF IInv, FlagInv
<1>7. ThresholdFiresOnce' /\ EscalationFiresOnce'
  BY <1>1, <1>4, <1>5 DEF IInv, ThresholdFiresOnce, EscalationFiresOnce, First
<1>8. QED
  BY <1>2, <1>3, <1>6, <1>7 DEF IInv

-----------------------------------------------------------------------------
(* The theorems *)

LEMMA InitIInv == Init => IInv
<1> SUFFICES ASSUME Init PROVE IInv
  OBVIOUS
<1>1. TypeOK
  BY BoundsAssumption DEF Init, TypeOK
<1>2. OrderInv /\ EntriesInv /\ ReportInv /\ EvidenceBound /\ EvidenceInWindow
  BY DEF Init, OrderInv, EntriesInv, Of, ReportInv, EvidenceBound, EvidenceInWindow
<1>3. FlagInv
  BY DEF Init, FlagInv, Exceeds, Breaches, Of
<1>4. ThresholdFiresOnce /\ EscalationFiresOnce
  BY DEF Init, ThresholdFiresOnce, EscalationFiresOnce
<1>5. QED
  BY <1>1, <1>2, <1>3, <1>4 DEF IInv

\* The inductive invariant holds as long as no event is older than one of its
\* key fed before.
THEOREM Inductive ==
  ASSUME InOrder PROVE Spec => []IInv
<1>1. IInv /\ [Next]_vars => IInv'
  <2> SUFFICES ASSUME IInv, [Next]_vars PROVE IInv'
    OBVIOUS
  <2>1. CASE UNCHANGED vars
    BY <2>1, StutterInv
  <2>2. QED
    BY <2>1, FeedInv, FailureInv, SuccessInv, SkipInv DEF Next, FeedNothing
<1>2. QED
  BY <1>1, InitIInv, PTL DEF Spec

\* A threshold rule reports a key at the event that completes its first full
\* window, and never again, however the stream is cut into feeds.
THEOREM ThresholdOnce ==
  ASSUME InOrder PROVE Spec => []ThresholdFiresOnce
<1>1. IInv => ThresholdFiresOnce
  BY DEF IInv
<1>2. QED
  BY <1>1, Inductive, PTL

\* So does the escalation, at the first success after a full window.
THEOREM EscalationOnce ==
  ASSUME InOrder PROVE Spec => []EscalationFiresOnce
<1>1. IInv => EscalationFiresOnce
  BY DEF IInv
<1>2. QED
  BY <1>1, Inductive, PTL

\* What a finding says of its window is true.
THEOREM EvidenceSound ==
  ASSUME InOrder PROVE Spec => []EvidenceInWindow
<1>1. IInv => EvidenceInWindow
  BY DEF IInv
<1>2. QED
  BY <1>1, Inductive, PTL
-----------------------------------------------------------------------------
(* Hits: patterns are counted once, whatever the order of the events *)

\* What the rules on patterns have reported covers the hits of the stream, and
\* no two of their findings share one.
HitsInv ==
  /\ \A f \in findings : f.rule = "pattern" => f.evidence \subseteq 1..Len(log)
  /\ \A i \in 1..Len(log) : log[i].kind = "hit" =>
       \E f \in findings : f.rule = "pattern" /\ i \in f.evidence
  /\ \A f, g \in findings :
       f.rule = "pattern" /\ g.rule = "pattern" /\ f.evidence \cap g.evidence # {} => f = g

\* The other rules say nothing of patterns.
LEMMA PatternsKept ==
  ASSUME TypeOK, Failure \/ Success \/ Skip
  PROVE  /\ log' = log
         /\ \A f : f.rule = "pattern" => (f \in findings' <=> f \in findings)
<1>1. CASE Failure
  BY <1>1 DEF Failure, Report
<1>2. CASE Success
  BY <1>2 DEF Success, Report
<1>3. CASE Skip
  BY <1>3 DEF Skip
<1>4. QED
  BY <1>1, <1>2, <1>3

LEMMA FeedHits ==
  ASSUME TypeOK, HitsInv, NEW b \in Batches, Feed(b)
  PROVE  HitsInv'
<1> DEFINE found(k) == [rule |-> "pattern", key |-> k, at |-> Len(log) + Len(b),
                        evidence |-> Hits(b, k)]
<1>1. /\ Len(b) \in Nat /\ Len(log) \in Nat /\ Len(log') = Len(log) + Len(b)
      /\ \A i \in 1..Len(log) : log'[i] = log[i]
      /\ \A j \in 1..Len(b) : log'[Len(log) + j] = b[j]
      /\ b \in Seq(Event)
  BY FeedExtends, Typed
<1>2. ASSUME NEW k, NEW i \in Hits(b, k)
      PROVE  i \in 1..Len(log') /\ i \notin 1..Len(log) /\ log'[i].key = k
  BY <1>1 DEF Hits
<1>3. ASSUME NEW f \in findings'
      PROVE  f \in findings \/ \E k \in Keys : f = found(k)
  BY DEF Feed, PatternFindings
<1>4. \A f \in findings : f \in findings'
  BY DEF Feed
<1>5. ASSUME NEW f \in findings', f.rule = "pattern"
      PROVE  f.evidence \subseteq 1..Len(log')
  <2>1. CASE f \in findings
    <3>1. f.evidence \subseteq 1..Len(log)
      BY <1>5, <2>1 DEF HitsInv
    <3>2. QED
      BY <1>1, <3>1
  <2>2. CASE \E k \in Keys : f = found(k)
    BY <1>2, <2>2
  <2>3. QED
    BY <1>3, <2>1, <2>2
<1>6. ASSUME NEW i \in 1..Len(log'), log'[i].kind = "hit"
      PROVE  \E f \in findings' : f.rule = "pattern" /\ i \in f.evidence
  <2>1. CASE i \in 1..Len(log)
    BY <1>1, <1>4, <1>6, <2>1 DEF HitsInv
  <2>2. CASE i \notin 1..Len(log)
    <3>1. i - Len(log) \in 1..Len(b) /\ i = Len(log) + (i - Len(log))
      BY <1>1, <2>2
    <3>2. PICK j \in 1..Len(b) : i = Len(log) + j
      BY <3>1
    <3>3. b[j] \in Event /\ b[j].kind = "hit"
      BY <1>1, <1>6, <3>2
    <3>4. b[j].key \in Keys
      BY <3>3 DEF Event
    <3>5. i \in Hits(b, b[j].key)
      BY <3>2, <3>3 DEF Hits
    <3>6. found(b[j].key) \in findings'
      BY <3>4, <3>5 DEF Feed, PatternFindings
    <3>7. QED
      BY <3>5, <3>6
  <2>3. QED
    BY <2>1, <2>2
<1>7. ASSUME NEW f \in findings', NEW g \in findings', f.rule = "pattern", g.rule = "pattern",
             f.evidence \cap g.evidence # {}
      PROVE  f = g
  <2>1. PICK i : i \in f.evidence /\ i \in g.evidence
    BY <1>7
  <2>2. \A h \in findings : h.rule = "pattern" /\ i \in h.evidence => i \in 1..Len(log)
    BY DEF HitsInv
  <2>3. \A k : i \in found(k).evidence => i \notin 1..Len(log) /\ log'[i].key = k
    BY <1>2
  <2>4. CASE f \in findings /\ g \in findings
    BY <1>7, <2>4 DEF HitsInv
  <2>5. CASE f \notin findings /\ g \notin findings
    <3>1. PICK k \in Keys : f = found(k)
      BY <1>3, <2>5
    <3>2. PICK l \in Keys : g = found(l)
      BY <1>3, <2>5
    <3>3. k = l
      BY <2>1, <2>3, <3>1, <3>2
    <3>4. QED
      BY <3>1, <3>2, <3>3
  <2>6. CASE f \in findings /\ g \notin findings
    BY <1>3, <1>7, <2>1, <2>2, <2>3, <2>6
  <2>7. CASE f \notin findings /\ g \in findings
    BY <1>3, <1>7, <2>1, <2>2, <2>3, <2>7
  <2>8. QED
    BY <2>4, <2>5, <2>6, <2>7
<1>8. QED
  BY <1>5, <1>6, <1>7 DEF HitsInv

\* Each hit of the stream is evidence of exactly one finding: none is dropped
\* at the end of a feed, and none is reported again by the next.
THEOREM HitsOnce == Spec => []EachHitReportedOnce
<1>1. Init => HitsInv
  BY DEF Init, HitsInv
<1>2. TypeOK /\ HitsInv /\ [Next]_vars => HitsInv'
  <2> SUFFICES ASSUME TypeOK, HitsInv, [Next]_vars PROVE HitsInv'
    OBVIOUS
  <2>1. CASE UNCHANGED vars
    BY <2>1 DEF vars, HitsInv
  <2>2. CASE Failure \/ Success \/ Skip
    <3>1. log' = log /\ \A f : f.rule = "pattern" => (f \in findings' <=> f \in findings)
      BY <2>2, PatternsKept
    <3>2. QED
      BY <3>1 DEF HitsInv
  <2>3. QED
    BY <2>1, <2>2, FeedHits DEF Next, FeedNothing
<1>3. HitsInv => EachHitReportedOnce
  <2> SUFFICES ASSUME HitsInv, NEW i \in 1..Len(log), log[i].kind = "hit"
               PROVE  Cardinality({f \in findings : f.rule = "pattern" /\ i \in f.evidence}) = 1
    BY DEF EachHitReportedOnce
  <2>1. PICK f \in findings : f.rule = "pattern" /\ i \in f.evidence
    BY DEF HitsInv
  <2>2. {g \in findings : g.rule = "pattern" /\ i \in g.evidence} = {f}
    BY <2>1 DEF HitsInv
  <2>3. QED
    BY <2>2, FS_Singleton
<1>4. QED
  BY <1>1, <1>2, <1>3, TypeCorrect, PTL DEF Spec
-----------------------------------------------------------------------------
(* Streaks: only the feeds cut them, never the order of the events *)

\* The failures of k since its last success, in the whole stream.
Open(k) ==
  {i \in Of("failure", k, seen) : \A j \in Of("success", k, seen) : j < i}

\* S holds the last elements of T.
Ending(S, T) == S \subseteq T /\ \A i \in S, j \in T : i <= j => j \in S

\* What a call of evaluate knows of a streak is its end, and all of it as long
\* as there was no feed before.
StreakInv ==
  /\ feeds = 0 => log = <<>>
  /\ \A k \in Keys : Ending(streaks[k], Open(k)) /\ (feeds <= 1 => streaks[k] = Open(k))

RapidBound == \A f \in findings : f.rule = "rapid" => f.at <= seen

RapidInv == StreakInv /\ RapidBound /\ RapidSuccessSound

LEMMA LeastNumber ==
  ASSUME NEW T, T \subseteq Nat, T # {}
  PROVE  \E x \in T : \A y \in T : x <= y
<1>1. PICK x \in T : \A y \in T : ~ (<<y, x>> \in OpToRel(<, Nat))
  BY NatLessThanWellFounded, WFMin
<1>2. \A y \in T : ~(y < x)
  BY <1>1 DEF OpToRel
<1>3. QED
  BY <1>2

\* A set of places has a last one.
LEMMA LatestIs ==
  ASSUME NEW m \in Nat, NEW S, S \subseteq 1..m, S # {}
  PROVE  Latest(S) \in S /\ \A j \in S : j <= Latest(S)
<1> DEFINE T == {m - i : i \in S}
<1>1. T \subseteq Nat /\ T # {}
  OBVIOUS
<1>2. PICK x \in T : \A y \in T : x <= y
  BY <1>1, LeastNumber
<1>3. PICK i \in S : x = m - i
  BY <1>2
<1>4. ASSUME NEW j \in S PROVE j <= i
  <2>1. m - i <= m - j
    BY <1>2, <1>3
  <2>2. i \in Nat /\ j \in Nat
    BY <1>3, <1>4
  <2>3. QED
    BY <2>1, <2>2
<1>5. \E l \in S : \A j \in S : j <= l
  BY <1>4
<1>6. QED
  BY <1>5 DEF Latest

\* The end of a streak says how long ago it ended.
LEMMA TailLatest ==
  ASSUME NEW m \in Nat, NEW S, NEW T, T \subseteq 1..m, S # {}, Ending(S, T)
  PROVE  Latest(S) = Latest(T)
<1>1. S \subseteq 1..m /\ T # {}
  BY DEF Ending
<1>2. Latest(S) \in S /\ (\A j \in S : j <= Latest(S)) /\ Latest(S) \in 1..m
  BY <1>1, LatestIs
<1>3. Latest(T) \in T /\ (\A j \in T : j <= Latest(T)) /\ Latest(T) \in 1..m
  BY <1>1, LatestIs
<1>4. Latest(S) <= Latest(T)
  BY <1>2, <1>3 DEF Ending
<1>5. Latest(T) \in S
  BY <1>2, <1>3, <1>4 DEF Ending
<1>6. Latest(T) <= Latest(S)
  BY <1>2, <1>5
<1>7. QED
  BY <1>2, <1>3, <1>4, <1>6

\* What a success is judged by depends on the events up to it.
LEMMA SuspicionStable ==
  ASSUME TypeOK, log' \in Seq(Event), \A i \in 1..seen : log'[i] = log[i]
  PROVE  \A k : \A n \in 1..seen :
           /\ Streak(k, n)' = Streak(k, n) /\ Streak(k, n) \subseteq 1..seen
           /\ GapFits(Streak(k, n), n)' <=> GapFits(Streak(k, n), n)
           /\ n \in Of("success", k, n)' <=> n \in Of("success", k, n)
<1> SUFFICES ASSUME NEW k, NEW n \in 1..seen
             PROVE  /\ Streak(k, n)' = Streak(k, n) /\ Streak(k, n) \subseteq 1..seen
                    /\ GapFits(Streak(k, n), n)' <=> GapFits(Streak(k, n), n)
                    /\ n \in Of("success", k, n)' <=> n \in Of("success", k, n)
  OBVIOUS
<1>1. seen \in Nat
  BY Typed
<1>2. \A kind : \A m \in 0..seen : Of(kind, k, m)' = Of(kind, k, m) /\ Of(kind, k, m) \subseteq 1..seen
  BY <1>1 DEF Of
<1>3. Streak(k, n)' = Streak(k, n) /\ Streak(k, n) \subseteq 1..seen
  <2>1. n \in 0..seen /\ n - 1 \in 0..seen
    BY <1>1
  <2>2. Of("failure", k, n)' = Of("failure", k, n) /\ Of("failure", k, n) \subseteq 1..seen
        /\ Of("success", k, n - 1)' = Of("success", k, n - 1)
    BY <1>2, <2>1
  <2>3. QED
    BY <2>2 DEF Streak
<1>4. GapFits(Streak(k, n), n)' <=> GapFits(Streak(k, n), n)
  <2>1. PICK s : s = Streak(k, n)
    OBVIOUS
  <2>2. s = Streak(k, n)' /\ s \subseteq 1..seen
    BY <1>3, <2>1
  <2>3. s # {} => log'[Latest(s)] = log[Latest(s)] /\ log'[n] = log[n]
    BY <1>1, <2>2, LatestIs
  <2>4. GapFits(s, n)' <=> GapFits(s, n)
    BY <2>3 DEF GapFits
  <2>5. QED
    BY <2>1, <2>2, <2>4
<1>5. n \in Of("success", k, n)' <=> n \in Of("success", k, n)
  <2>1. n \in 0..seen
    BY <1>1
  <2>2. QED
    BY <1>2, <2>1
<1>6. QED
  BY <1>3, <1>4, <1>5

\* The events looked at stay suspicious or not when another one comes.
LEMMA SuspiciousKept ==
  ASSUME TypeOK, log' \in Seq(Event), \A i \in 1..seen : log'[i] = log[i],
         seen' \in Nat, seen <= seen'
  PROVE  \A k : \A n \in 1..seen : n \in Suspicious(k)' <=> n \in Suspicious(k)
<1> SUFFICES ASSUME NEW k, NEW n \in 1..seen
             PROVE  n \in Suspicious(k)' <=> n \in Suspicious(k)
  OBVIOUS
<1>1. /\ Streak(k, n)' = Streak(k, n)
      /\ GapFits(Streak(k, n), n)' <=> GapFits(Streak(k, n), n)
      /\ n \in Of("success", k, n)' <=> n \in Of("success", k, n)
  BY SuspicionStable
<1>2. /\ n \in Of("success", k, seen)' <=> n \in Of("success", k, n)'
      /\ n \in Of("success", k, seen) <=> n \in Of("success", k, n)
  BY Typed DEF Of
<1>3. QED
  BY <1>1, <1>2 DEF Suspicious
LEMMA FeedRapid ==
  ASSUME TypeOK, RapidInv, NEW b \in Batches, Feed(b)
  PROVE  RapidInv'
<1>1. /\ seen' = seen /\ seen \in Nat /\ seen <= Len(log) /\ feeds \in Nat
      /\ log' \in Seq(Event) /\ (\A i \in 1..seen : log'[i] = log[i])
      /\ feeds' = feeds + 1
  <2>1. feeds \in Nat /\ feeds' = feeds + 1 /\ seen' = seen
    BY BoundsAssumption DEF Feed, TypeOK
  <2>2. seen \in Nat /\ seen <= Len(log) /\ Len(log) \in Nat
    BY Typed
  <2>3. log' \in Seq(Event) /\ (\A i \in 1..Len(log) : log'[i] = log[i])
    BY FeedExtends
  <2>4. QED
    BY <2>1, <2>2, <2>3
<1>2. StreakInv'
  <2>1. \A k \in Keys : streaks'[k] = {}
    BY DEF Feed
  <2>2. feeds' <= 1 => seen' = 0
    <3>1. feeds' <= 1 => log = <<>>
      BY <1>1 DEF RapidInv, StreakInv
    <3>2. QED
      BY <1>1, <3>1
  <2>3. feeds' <= 1 => \A k \in Keys : Open(k)' = {}
    BY <2>2 DEF Open, Of
  <2>4. feeds' # 0
    BY <1>1
  <2>5. QED
    BY <2>1, <2>3, <2>4 DEF StreakInv, Ending
<1>3. \A f : f.rule = "rapid" => (f \in findings' <=> f \in findings)
  <2>1. \A f \in PatternFindings(b) : f.rule = "pattern"
    BY DEF PatternFindings
  <2>2. findings' = findings \cup PatternFindings(b)
    BY DEF Feed
  <2>3. QED
    BY <2>1, <2>2
<1>4. RapidBound'
  BY <1>1, <1>3 DEF RapidInv, RapidBound
<1>5. RapidSuccessSound'
  <2>1. \A k : \A n \in 1..seen : n \in Suspicious(k)' <=> n \in Suspicious(k)
    BY <1>1, SuspiciousKept
  <2>2. \A k, n : Reported("rapid", k, n)' <=> Reported("rapid", k, n)
    BY <1>3 DEF Reported
  <2>3. feeds' <= 1 => feeds <= 1
    BY <1>1
  <2>4. QED
    BY <1>1, <2>1, <2>2, <2>3 DEF RapidInv, RapidSuccessSound
<1>6. QED
  BY <1>2, <1>4, <1>5 DEF RapidInv

\* One more event: the streaks of its key grow by a failure and end with a
\* success, as the failures since the last success do.
LEMMA OpenGrows ==
  ASSUME TypeOK, seen + 1 \in 1..Len(log), seen' = seen + 1, log' = log, NEW k \in Keys
  PROVE  /\ Open(k) \subseteq 1..seen /\ seen + 1 \notin Open(k)
         /\ At(seen + 1, "failure") /\ log[seen + 1].key = k
              => Open(k)' = Open(k) \cup {seen + 1}
         /\ At(seen + 1, "success") /\ log[seen + 1].key = k => Open(k)' = {}
         /\ ~(log[seen + 1].kind \in {"failure", "success"} /\ log[seen + 1].key = k)
              => Open(k)' = Open(k)
<1> DEFINE n == seen + 1
<1>1. /\ seen \in Nat /\ n \notin 1..seen
      /\ \A kind : Of(kind, k, seen) \subseteq 1..seen
      /\ \A kind : Of(kind, k, seen)' = Of(kind, k, n)
  BY Typed DEF Of
<1>2. Open(k) \subseteq 1..seen /\ n \notin Open(k)
  BY <1>1 DEF Open
<1>3. CASE log[n].kind = "failure" /\ log[n].key = k
  <2>1. Of("failure", k, n) = Of("failure", k, seen) \cup {n}
        /\ Of("success", k, n) = Of("success", k, seen)
    BY <1>3, OfGrows
  <2>2. \A j \in Of("success", k, seen) : j < n
    BY <1>1
  <2>3. Open(k)' = Open(k) \cup {n}
    BY <1>1, <2>1, <2>2 DEF Open
  <2>4. QED
    BY <1>2, <1>3, <2>3 DEF At
<1>4. CASE log[n].kind = "success" /\ log[n].key = k
  <2>1. Of("failure", k, n) = Of("failure", k, seen)
        /\ n \in Of("success", k, n)
    <3>1. n \in Of("success", k, n)
      BY <1>1, <1>4 DEF Of
    <3>2. QED
      BY <1>4, <3>1, OfGrows
  <2>2. \A i \in Of("failure", k, seen) : ~(n < i)
    BY <1>1
  <2>3. Open(k)' = {}
    BY <1>1, <2>1, <2>2 DEF Open
  <2>4. QED
    BY <1>2, <1>4, <2>3 DEF At
<1>5. CASE ~(log[n].kind \in {"failure", "success"} /\ log[n].key = k)
  <2>1. Of("failure", k, n) = Of("failure", k, seen)
        /\ Of("success", k, n) = Of("success", k, seen)
    BY <1>5, OfGrows
  <2>2. Open(k)' = Open(k)
    BY <1>1, <2>1 DEF Open
  <2>3. QED
    BY <1>2, <1>5, <2>2 DEF At
<1>6. QED
  BY <1>3, <1>4, <1>5

LEMMA FailureRapid ==
  ASSUME TypeOK, RapidInv, Failure
  PROVE  RapidInv'
<1>0. PICK n \in Nat, k \in Keys : n = seen + 1 /\ k = log[n].key
  <2>1. At(seen + 1, "failure")
    BY DEF Failure
  <2>2. QED
    BY <2>1, NextEvent, Typed
<1>1. /\ At(n, "failure") /\ seen' = n /\ log' = log /\ feeds' = feeds
      /\ streaks' = [streaks EXCEPT ![k] = @ \cup {n}]
      /\ \A f : f.rule = "rapid" => (f \in findings' <=> f \in findings)
  BY <1>0 DEF Failure, Report
<1>2. /\ n \in 1..Len(log) /\ seen \in Nat /\ log \in Seq(Event) /\ n \notin 1..seen
      /\ log[n].kind = "failure" /\ 1..n = (1..seen) \cup {n}
  BY <1>0, <1>1, NextEvent, Typed
<1>3. StreakInv'
  <2>1. feeds' = 0 => log' = <<>>
    BY <1>1 DEF RapidInv, StreakInv
  <2>2. ASSUME NEW j \in Keys
        PROVE  Ending(streaks[j], Open(j))' /\ (feeds <= 1 => streaks'[j] = Open(j)')
    <3>1. Ending(streaks[j], Open(j)) /\ (feeds <= 1 => streaks[j] = Open(j))
      BY DEF RapidInv, StreakInv
    <3>2. CASE j = k
      <4>1. Open(j)' = Open(j) \cup {n} /\ Open(j) \subseteq 1..seen /\ n \notin Open(j)
        BY <1>0, <1>1, <1>2, <3>2, OpenGrows
      <4>2. streaks'[j] = streaks[j] \cup {n}
        BY <1>1, <3>2 DEF TypeOK
      <4>3. \A i \in Open(j) : ~(n <= i)
        BY <1>0, <1>2, <4>1
      <4>4. QED
        BY <3>1, <4>1, <4>2, <4>3 DEF Ending
    <3>3. CASE j # k
      <4>1. Open(j)' = Open(j)
        BY <1>0, <1>1, <1>2, <3>3, OpenGrows
      <4>2. streaks'[j] = streaks[j]
        BY <1>1, <3>3 DEF TypeOK
      <4>3. QED
        BY <3>1, <4>1, <4>2 DEF Ending
    <3>4. QED
      BY <3>2, <3>3
  <2>3. QED
    BY <1>1, <2>1, <2>2 DEF StreakInv
<1>4. RapidBound'
  BY <1>0, <1>1, <1>2 DEF RapidInv, RapidBound, TypeOK, Finding, Position
<1>5. RapidSuccessSound'
  <2> SUFFICES ASSUME NEW j \in Keys, NEW m \in 1..n
               PROVE  /\ Reported("rapid", j, m)' => m \in Suspicious(j)'
                      /\ feeds' <= 1 /\ m \in Suspicious(j)' => Reported("rapid", j, m)'
    BY <1>1 DEF RapidSuccessSound
  <2>1. Reported("rapid", j, m)' <=> Reported("rapid", j, m)
    BY <1>1 DEF Reported
  <2>2. CASE m \in 1..seen
    <3>1. m \in Suspicious(j)' <=> m \in Suspicious(j)
      BY <1>0, <1>1, <1>2, <2>2, SuspiciousKept
    <3>2. QED
      BY <1>1, <2>1, <2>2, <3>1 DEF RapidInv, RapidSuccessSound
  <2>3. CASE m = n
    <3>1. m \notin Suspicious(j)'
      BY <1>1, <1>2, <2>3 DEF Suspicious, Of
    <3>2. ~Reported("rapid", j, m)
      BY <1>0, <1>2, <2>3 DEF RapidInv, RapidBound, Reported
    <3>3. QED
      BY <2>1, <3>1, <3>2
  <2>4. QED
    BY <1>2, <2>2, <2>3
<1>6. QED
  BY <1>3, <1>4, <1>5 DEF RapidInv

\* The streak of a success is what has been open until then.
LEMMA StreakIsOpen ==
  ASSUME TypeOK, At(seen + 1, "success"), NEW k \in Keys
  PROVE  Streak(k, seen + 1) = Open(k)
<1>1. seen + 1 \in 1..Len(log) /\ log[seen + 1].kind = "success" /\ seen \in Nat
  BY NextEvent, Typed
<1>2. Of("failure", k, seen + 1) = Of("failure", k, seen)
  BY <1>1, OfGrows
<1>3. (seen + 1) - 1 = seen
  BY <1>1
<1>4. QED
  BY <1>2, <1>3 DEF Streak, Open

LEMMA SuccessRapid ==
  ASSUME TypeOK, RapidInv, Success
  PROVE  RapidInv'
<1>0. PICK n \in Nat, k \in Keys : n = seen + 1 /\ k = log[n].key
  <2>1. At(seen + 1, "success")
    BY DEF Success
  <2>2. QED
    BY <2>1, NextEvent, Typed
<1> DEFINE report == Report("rapid", k, n, streaks[k] \cup {n})
<1>1. /\ At(n, "success") /\ seen' = n /\ log' = log /\ feeds' = feeds
      /\ streaks' = [streaks EXCEPT ![k] = {}]
  BY <1>0 DEF Success
<1>2. \A f : f.rule = "rapid" => (f \in findings' <=> f \in findings \/ (Rapid(k, n) /\ f = report))
  BY <1>0 DEF Success, Report
<1>3. report.rule = "rapid" /\ report.key = k /\ report.at = n
  BY DEF Report
<1> HIDE DEF report
<1>4. /\ n \in 1..Len(log) /\ seen \in Nat /\ log \in Seq(Event) /\ n \notin 1..seen
      /\ log[n].kind = "success" /\ 1..n = (1..seen) \cup {n}
  BY <1>0, <1>1, NextEvent, Typed
<1>5. /\ feeds = 0 => log = <<>>
      /\ \A j \in Keys : Ending(streaks[j], Open(j)) /\ (feeds <= 1 => streaks[j] = Open(j))
  BY DEF RapidInv, StreakInv
<1>6. \A j \in Keys : Open(j) \subseteq 1..seen
  BY <1>0, <1>1, <1>4, OpenGrows
<1>7. StreakInv'
  <2>1. ASSUME NEW j \in Keys
        PROVE  Ending(streaks[j], Open(j))' /\ (feeds <= 1 => streaks'[j] = Open(j)')
    <3>1. CASE j = k
      <4>1. Open(j)' = {}
        BY <1>0, <1>1, <1>4, <3>1, OpenGrows
      <4>2. streaks'[j] = {}
        BY <1>1, <3>1 DEF TypeOK
      <4>3. QED
        BY <4>1, <4>2 DEF Ending
    <3>2. CASE j # k
      <4>1. Open(j)' = Open(j)
        BY <1>0, <1>1, <1>4, <3>2, OpenGrows
      <4>2. streaks'[j] = streaks[j]
        BY <1>1, <3>2 DEF TypeOK
      <4>3. QED
        BY <1>5, <4>1, <4>2 DEF Ending
    <3>3. QED
      BY <3>1, <3>2
  <2>2. QED
    BY <1>1, <1>5, <2>1 DEF StreakInv
<1>8. RapidBound'
  BY <1>0, <1>1, <1>2, <1>3, <1>4 DEF RapidInv, RapidBound, TypeOK, Finding, Position
<1>9. n \in Suspicious(k)' <=> Cardinality(Open(k)) >= MinFailures /\ GapFits(Open(k), n)
  <2>1. PICK s : s = Open(k)
    OBVIOUS
  <2>2. Streak(k, n)' = s
    <3>1. Streak(k, n)' = Streak(k, n)
      BY <1>1 DEF Streak, Of
    <3>2. QED
      BY <1>0, <1>1, <2>1, <3>1, StreakIsOpen
  <2>3. GapFits(s, n)' <=> GapFits(s, n)
    BY <1>1 DEF GapFits
  <2>4. n \in Of("success", k, seen)'
    BY <1>0, <1>1, <1>4 DEF Of
  <2>5. n \in Suspicious(k)' <=> Cardinality(s) >= MinFailures /\ GapFits(s, n)'
    BY <2>2, <2>4 DEF Suspicious
  <2>6. QED
    BY <2>1, <2>3, <2>5
<1>10. Rapid(k, n) => n \in Suspicious(k)'
  <2> SUFFICES ASSUME Rapid(k, n)
               PROVE  Cardinality(Open(k)) >= MinFailures /\ GapFits(Open(k), n)
    BY <1>9
  <2>1. streaks[k] # {} /\ streaks[k] \subseteq Open(k) /\ Ending(streaks[k], Open(k))
    BY <1>5 DEF Rapid, GapFits, Ending
  <2>2. Latest(streaks[k]) = Latest(Open(k))
    BY <1>4, <1>6, <2>1, TailLatest
  <2>3. GapFits(Open(k), n)
    BY <2>1, <2>2 DEF Rapid, GapFits
  <2>4. IsFiniteSet(Open(k))
    <3>1. IsFiniteSet(1..seen)
      BY <1>4, FS_Interval
    <3>2. QED
      BY <1>6, <3>1, FS_Subset
  <2>5. Cardinality(streaks[k]) <= Cardinality(Open(k)) /\ IsFiniteSet(streaks[k])
    BY <2>1, <2>4, FS_Subset
  <2>6. Cardinality(streaks[k]) \in Nat /\ Cardinality(Open(k)) \in Nat /\ MinFailures \in Nat
    BY <2>4, <2>5, FS_CardinalityType, RapidAssumption
  <2>7. Cardinality(streaks[k]) >= MinFailures
    BY DEF Rapid
  <2>8. QED
    BY <2>3, <2>5, <2>6, <2>7
<1>11. feeds <= 1 /\ n \in Suspicious(k)' => Rapid(k, n)
  BY <1>5, <1>9 DEF Rapid
<1>12. RapidSuccessSound'
  <2> SUFFICES ASSUME NEW j \in Keys, NEW m \in 1..n
               PROVE  /\ Reported("rapid", j, m)' => m \in Suspicious(j)'
                      /\ feeds' <= 1 /\ m \in Suspicious(j)' => Reported("rapid", j, m)'
    BY <1>1 DEF RapidSuccessSound
  <2>1. Reported("rapid", j, m)' <=>
          Reported("rapid", j, m) \/ (Rapid(k, n) /\ j = k /\ m = n)
    BY <1>2, <1>3 DEF Reported
  <2>2. CASE m \in 1..seen
    <3>1. m \in Suspicious(j)' <=> m \in Suspicious(j)
      BY <1>0, <1>1, <1>4, <2>2, SuspiciousKept
    <3>2. QED
      BY <1>1, <1>4, <2>1, <2>2, <3>1 DEF RapidInv, RapidSuccessSound
  <2>3. CASE m = n
    <3>1. ~Reported("rapid", j, m)
      BY <1>0, <1>4, <2>3 DEF RapidInv, RapidBound, Reported
    <3>2. j # k => m \notin Suspicious(j)'
      BY <1>0, <1>1, <2>3 DEF Suspicious, Of
    <3>3. QED
      BY <1>1, <1>10, <1>11, <2>1, <2>3, <3>1, <3>2
  <2>4. QED
    BY <1>4, <2>2, <2>3
<1>13. QED
  BY <1>7, <1>8, <1>12 DEF RapidInv

LEMMA SkipRapid ==
  ASSUME TypeOK, RapidInv, Skip
  PROVE  RapidInv'
<1>0. PICK n \in Nat : n = seen + 1 /\ n \in 1..Len(log) /\ log[n].kind \notin {"failure", "success"}
  <2>1. At(seen + 1, "hit") \/ At(seen + 1, "other")
    BY DEF Skip
  <2>2. QED
    BY <2>1, NextEvent, Typed
<1>1. seen' = n /\ UNCHANGED <<log, feeds, streaks, findings>> /\ seen \in Nat
      /\ 1..n = (1..seen) \cup {n} /\ n \notin 1..seen /\ log \in Seq(Event)
  BY <1>0, Typed DEF Skip
<1>2. StreakInv'
  <2>1. \A k \in Keys : Open(k)' = Open(k)
    BY <1>0, <1>1, OpenGrows
  <2>2. QED
    BY <1>1, <2>1 DEF RapidInv, StreakInv, Ending
<1>3. RapidBound'
  BY <1>0, <1>1 DEF RapidInv, RapidBound, TypeOK, Finding, Position
<1>4. RapidSuccessSound'
  <2> SUFFICES ASSUME NEW j \in Keys, NEW m \in 1..n
               PROVE  /\ Reported("rapid", j, m)' => m \in Suspicious(j)'
                      /\ feeds' <= 1 /\ m \in Suspicious(j)' => Reported("rapid", j, m)'
    BY <1>1 DEF RapidSuccessSound
  <2>1. Reported("rapid", j, m)' <=> Reported("rapid", j, m)
    BY <1>1 DEF Reported
  <2>2. CASE m \in 1..seen
    <3>1. m \in Suspicious(j)' <=> m \in Suspicious(j)
      BY <1>0, <1>1, <2>2, SuspiciousKept
    <3>2. QED
      BY <1>1, <2>1, <2>2, <3>1 DEF RapidInv, RapidSuccessSound
  <2>3. CASE m = n
    <3>1. ~Reported("rapid", j, m)
      BY <1>0, <1>1, <2>3 DEF RapidInv, RapidBound, Reported
    <3>2. m \notin Suspicious(j)'
      BY <1>0, <1>1, <2>3 DEF Suspicious, Of
    <3>3. QED
      BY <2>1, <3>1, <3>2
  <2>4. QED
    BY <1>1, <2>2, <2>3
<1>5. QED
  BY <1>2, <1>3, <1>4 DEF RapidInv

\* rapid-success reports no success but one shortly after a streak of
\* failures, however the stream is cut into feeds and in whatever order its
\* events come, and misses none as long as there was one feed.
THEOREM RapidSound == Spec => []RapidSuccessSound
<1>1. Init => RapidInv
  <2> SUFFICES ASSUME Init PROVE RapidInv
    OBVIOUS
  <2>1. \A k \in Keys : Open(k) = {} /\ streaks[k] = {}
    BY DEF Init, Open, Of
  <2>2. StreakInv
    BY <2>1 DEF Init, StreakInv, Ending
  <2>3. RapidBound /\ RapidSuccessSound
    BY DEF Init, RapidBound, RapidSuccessSound
  <2>4. QED
    BY <2>2, <2>3 DEF RapidInv
<1>2. TypeOK /\ RapidInv /\ [Next]_vars => RapidInv'
  <2> SUFFICES ASSUME TypeOK, RapidInv, [Next]_vars PROVE RapidInv'
    OBVIOUS
  <2>1. CASE UNCHANGED vars
    <3>1. UNCHANGED <<log, seen, feeds, streaks, findings>>
      BY <2>1 DEF vars
    <3>2. StreakInv' /\ RapidBound'
      BY <3>1 DEF RapidInv, StreakInv, RapidBound, Ending, Open, Of
    <3>3. \A k : \A n \in 1..seen : n \in Suspicious(k)' <=> n \in Suspicious(k)
      BY <3>1, Typed, SuspiciousKept
    <3>4. RapidSuccessSound'
      BY <3>1, <3>3 DEF RapidInv, RapidSuccessSound, Reported
    <3>5. QED
      BY <3>2, <3>4 DEF RapidInv
  <2>2. QED
    BY <2>1, FeedRapid, FailureRapid, SuccessRapid, SkipRapid DEF Next, FeedNothing
<1>3. RapidInv => RapidSuccessSound
  BY DEF RapidInv
<1>4. QED
  BY <1>1, <1>2, <1>3, TypeCorrect, PTL DEF Spec
=============================================================================
