-------------------------- MODULE SyslogYearProofs --------------------------
(***************************************************************************)
(* What _infer_timestamp() gives for every line and every reference.       *)
(***************************************************************************)
EXTENDS SyslogYear, TLAPS

\* The date of a reference instant.
IsReference(ref) ==
  /\ ref \in [year : Nat, month : 1..12, day : 1..31]
  /\ ref.year > YearSearchDepth

\* There is a leap year among any eight years in a row.
LEMMA LeapYearNear ==
  ASSUME NEW y \in Nat, y > YearSearchDepth
  PROVE  \E k \in 0..(YearSearchDepth - 1) : Leap(y - k)
<1>1. \E k \in 0..7 : (y - k) % 4 = 0 /\ (y - k) % 100 # 0
  BY SMTT(60) DEF YearSearchDepth
<1> QED BY <1>1 DEF Leap, YearSearchDepth

\* A set of positive numbers has a least one.
LEMMA LeastOf ==
  ASSUME NEW S, S # {}, S \subseteq 1..(YearSearchDepth - 1)
  PROVE  \E k \in S : \A l \in S : k <= l
<1>1. PICK x \in S : TRUE
  OBVIOUS
<1>2. \A k \in S : k \in 1..7
  BY DEF YearSearchDepth
<1> QED BY <1>1, <1>2, SMTT(60)

\* Only 29 February depends on the year.
LEMMA AnyYearButLeapDay ==
  ASSUME NEW m, NEW d, IsDay(m, d), NEW y \in Nat, y > 0,
         m # 2 \/ d # 29 \/ Leap(y)
  PROVE  IsDate(m, d, y)
<1>1. CASE m = 2
  BY <1>1 DEF IsDay, IsDate, MonthDays, NoYear
<1>2. CASE m # 2
  <2>1. MonthDays(m, y) = MonthDays(m, 1)
    BY <1>2 DEF MonthDays
  <2> QED BY <1>2, <2>1 DEF IsDay, IsDate, NoYear
<1> QED BY <1>1, <1>2

\* "Never lose a legitimate security event to a calendar quirk"
\* (syslog_auth.py:70): a day that some year has is given a year that has it.
THEOREM NoDayLost ==
  ASSUME NEW m, NEW d, IsDay(m, d), NEW ref, IsReference(ref)
  PROVE  IsDate(m, d, InferYear(m, d, ref))
<1> DEFINE y == ref.year
           E == Earlier(m, d, y)
           least == CHOOSE k \in E : \A l \in E : k <= l
<1>1. y \in Nat /\ y > YearSearchDepth
  BY DEF IsReference
<1>2. CASE IsDate(m, d, y)
  BY <1>2 DEF InferYear
<1>3. CASE ~IsDate(m, d, y)
  <2>1. m = 2 /\ d = 29 /\ ~Leap(y)
    BY <1>1, <1>3, AnyYearButLeapDay DEF YearSearchDepth
  <2>2. PICK k \in 0..(YearSearchDepth - 1) : Leap(y - k)
    BY <1>1, LeapYearNear
  <2>3. k \in 1..(YearSearchDepth - 1)
    <3>1. k # 0
      BY <1>1, <2>1, <2>2
    <3> QED BY <3>1 DEF YearSearchDepth
  <2>4. y - k \in Nat /\ y - k > 0
    BY <1>1, <2>3 DEF YearSearchDepth
  <2>5. IsDate(m, d, y - k)
    BY <2>2, <2>4, AnyYearButLeapDay
  <2>6. k \in E
    BY <2>3, <2>5 DEF Earlier
  <2>7. E # {} /\ E \subseteq 1..(YearSearchDepth - 1)
    BY <2>6 DEF Earlier
  <2>8. least \in E
    BY <2>7, LeastOf
  <2>9. IsDate(m, d, y - least)
    BY <2>8 DEF Earlier
  <2>10. InferYear(m, d, ref) = y - least
    BY <1>3, <2>7 DEF InferYear
  <2> QED BY <2>9, <2>10
<1> QED BY <1>2, <1>3

\* A line no more than ten months older than the reference, or at most one
\* month ahead of it in the same year, is given the year it was written in.
THEOREM CertainIsRight ==
  ASSUME NEW ref, IsReference(ref), NEW t, IsReference(t),
         IsDate(t.month, t.day, t.year), Certain(t, ref)
  PROVE  InferYear(t.month, t.day, ref) = t.year
<1>1. /\ ref.year \in Nat /\ ref.month \in 1..12 /\ ref.day \in 1..31
      /\ t.year \in Nat /\ t.month \in 1..12 /\ t.day \in 1..31
  BY DEF IsReference
<1>2. CASE t.year = ref.year
  <2>1. t.month <= ref.month + 1
    BY <1>1, <1>2 DEF Certain, Before
  <2>2. ~WellAhead(t.month, ref)
    BY <1>1, <2>1 DEF WellAhead
  <2> QED BY <1>2, <2>2 DEF InferYear
<1>3. CASE t.year # ref.year
  <2>1. t.year = ref.year - 1 /\ t.month > ref.month + 1
    BY <1>1, <1>3 DEF Certain, Before, MonthsBefore
  <2>2. WellAhead(t.month, ref) /\ t.month # 2
    BY <1>1, <2>1 DEF WellAhead
  <2>3. MonthDays(t.month, ref.year) = MonthDays(t.month, t.year)
    BY <2>2 DEF MonthDays
  <2>4. IsDate(t.month, t.day, ref.year)
    BY <1>1, <2>1, <2>3 DEF IsDate, NoYear
  <2> QED BY <2>1, <2>2, <2>4 DEF InferYear
<1> QED BY <1>2, <1>3
=============================================================================
