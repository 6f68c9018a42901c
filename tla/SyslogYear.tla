----------------------------- MODULE SyslogYear -----------------------------
(***************************************************************************)
(* parsers/syslog_auth.py: the year of a time stamp that has none.  The    *)
(* time of day is left out: one that there is decides nothing, and with    *)
(* one that there is not (25:61:61) _build_dt() returns None for every     *)
(* year, as it does for 30 February, which stands for both.                *)
(***************************************************************************)
EXTENDS Integers

\* _YEAR_SEARCH_DEPTH
YearSearchDepth == 8

NoYear == 0

-----------------------------------------------------------------------------
(* The calendar *)

Leap(y) == y % 4 = 0 /\ (y % 100 # 0 \/ y % 400 = 0)

MonthDays(m, y) ==
  CASE m = 2 -> (IF Leap(y) THEN 29 ELSE 28)
    [] m \in {4, 6, 9, 11} -> 30
    [] OTHER -> 31

\* _build_dt() returns a date, not None.
IsDate(m, d, y) == y > NoYear /\ m \in 1..12 /\ d \in 1..MonthDays(m, y)

\* The days that some year has.
IsDay(m, d) == m \in 1..12 /\ d \in 1..(IF m = 2 THEN 29 ELSE MonthDays(m, 1))

Before(s, t) ==
  \/ s.year < t.year
  \/ s.year = t.year /\ s.month < t.month
  \/ s.year = t.year /\ s.month = t.month /\ s.day < t.day

-----------------------------------------------------------------------------
(* _infer_timestamp() *)

\* Mutant: any month ahead is rolled back.
WellAheadAny(m, ref) == m > ref.month

WellAhead(m, ref) == m > ref.month + 1

\* The years before y that have the day, as distances.
Earlier(m, d, y) == {k \in 1..(YearSearchDepth - 1) : IsDate(m, d, y - k)}

\* A month well ahead of the reference's is last year's; a day that the year
\* of the reference does not have is of the nearest year before that has it.
InferYear(m, d, ref) ==
  IF IsDate(m, d, ref.year)
    THEN IF WellAhead(m, ref) /\ IsDate(m, d, ref.year - 1)
           THEN ref.year - 1 ELSE ref.year
    ELSE IF Earlier(m, d, ref.year) = {} THEN NoYear
         ELSE ref.year - (CHOOSE k \in Earlier(m, d, ref.year) :
                            \A l \in Earlier(m, d, ref.year) : k <= l)

\* How many months t lies before the reference.
MonthsBefore(t, ref) == 12 * (ref.year - t.year) + (ref.month - t.month)

\* The dates whose year is never mistaken.
Certain(t, ref) ==
  \/ ~Before(ref, t) /\ MonthsBefore(t, ref) <= 10
  \/ t.year = ref.year /\ t.month <= ref.month + 1
=============================================================================
