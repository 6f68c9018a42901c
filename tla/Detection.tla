------------------------------ MODULE Detection ------------------------------
(***************************************************************************)
(* detection/*.py and the part of IncrementalAnalyzer.feed and             *)
(* AnalysisEngine.analyze that drives it: detectors that outlive a feed    *)
(* report on a stream of events that reaches them in batches, each sorted  *)
(* by time.  The batch engine is the same with a single feed.              *)
(*                                                                         *)
(* An event is known by its position in the stream, and the contents of a  *)
(* sliding window are a set of positions.  No rule reads what another one  *)
(* keeps, so they look at each event together instead of one rule after    *)
(* the other.                                                              *)
(***************************************************************************)
EXTENDS Integers, Sequences, FiniteSets

CONSTANTS
  Keys,         \* IP addresses (users for sudo-sensitive-command)
  Details,      \* the paths or user names that some rules count
  NoDetail,     \* of an event that has none
  Times,        \* the time stamps of events, in seconds
  Kinds,        \* the kinds of events that occur, see below
  Window,       \* window_seconds
  Threshold,    \* threshold
  Distinct,     \* does the threshold count different details, or events?
  MinFailures,  \* min_failures
  MaxGap,       \* max_gap_seconds
  InOrder,      \* assumption: no event is older than one of its key fed before
  MaxFeeds,     \* bound: feeds of at least one event; 1 is the batch engine
  MaxEvents     \* bound: the length of the stream

\* A kind is the rules that match an event: "failure" those that put it in
\* their window (brute-force, rate-limit-abuse, scanner-burst,
\* ssh-invalid-user-enum) and in the streak of rapid-success, "success" those
\* that look for the failures before it, "hit" the rules on patterns
\* (path-traversal, sqli-probe, sudo-sensitive-command), "other" none.
ASSUME KindsAssumption == Kinds \subseteq {"failure", "success", "hit", "other"}
ASSUME TimesAssumption == Times \subseteq Int
ASSUME WindowAssumption == Window \in Nat
ASSUME ThresholdAssumption == Threshold \in Nat \ {0}
ASSUME RapidAssumption == MinFailures \in Nat \ {0} /\ MaxGap \in Nat
ASSUME SwitchAssumption == Distinct \in BOOLEAN /\ InOrder \in BOOLEAN
ASSUME BoundsAssumption == MaxFeeds \in Nat \ {0} /\ MaxEvents \in Nat

\* Only the rules that count failures ask for details.
Event ==
  {e \in [key : Keys, time : Times, kind : Kinds, detail : Details \cup {NoDetail}] :
     e.kind # "failure" => e.detail = NoDetail}

VARIABLES
  log,       \* every event fed so far, in the order of evaluation
  seen,      \* how many of them the rules have looked at
  feeds,     \* how many feeds there were
  entries,   \* SlidingWindowCounter._entries: positions per key
  flagged,   \* BruteForceRule._flagged and the like
  escalated, \* BruteForceSuccessRule._flagged
  streaks,   \* RapidSuccessAfterFailuresRule: streaks of this call of evaluate
  findings   \* what has been reported

vars == <<log, seen, feeds, entries, flagged, escalated, streaks, findings>>

Position == 1..MaxEvents
Finding == [rule : {"threshold", "escalation", "rapid", "pattern"}, key : Keys,
            at : Position, evidence : SUBSET Position]

TypeOK ==
  /\ log \in Seq(Event) /\ Len(log) <= MaxEvents
  /\ seen \in 0..Len(log)
  /\ feeds \in 0..MaxFeeds
  /\ entries \in [Keys -> SUBSET (1..seen)]
  /\ flagged \subseteq Keys /\ escalated \subseteq Keys
  /\ streaks \in [Keys -> SUBSET (1..seen)]
  /\ findings \subseteq Finding

Init ==
  /\ log = <<>> /\ seen = 0 /\ feeds = 0
  /\ entries = [k \in Keys |-> {}]
  /\ flagged = {} /\ escalated = {}
  /\ streaks = [k \in Keys |-> {}]
  /\ findings = {}

-----------------------------------------------------------------------------
(* Feeding a batch *)

SortedByTime(s) == \A i, j \in 1..Len(s) : i <= j => s[i].time <= s[j].time

\* A batch as sorted() leaves it: lines of one time keep the order in which
\* they were read, which may be any.
Batches ==
  {b \in UNION {[1..n -> Event] : n \in 1..(MaxEvents - Len(log))} : SortedByTime(b)}

NoneOlder(b) ==
  \A i \in 1..Len(log), j \in 1..Len(b) :
    log[i].key = b[j].key => log[i].time <= b[j].time

\* Mutant: the hits are taken to be one place earlier.
HitsOneEarly(b, k) ==
  {Len(log) + j - 1 : j \in {i \in 1..Len(b) : b[i].key = k /\ b[i].kind = "hit"}}

\* _PatternMatchRule and SudoSensitiveCommandRule keep nothing: one finding
\* per key and call of evaluate, over all its hits.
Hits(b, k) == {Len(log) + j : j \in {i \in 1..Len(b) : b[i].key = k /\ b[i].kind = "hit"}}

\* Mutant: one finding per key, over its first hit alone.
PatternFirstHit(b) ==
  {[rule |-> "pattern", key |-> k, at |-> Len(log) + Len(b),
    evidence |-> {CHOOSE i \in Hits(b, k) : \A j \in Hits(b, k) : i <= j}] :
     k \in {l \in Keys : Hits(b, l) # {}}}

PatternFindings(b) ==
  {[rule |-> "pattern", key |-> k, at |-> Len(log) + Len(b), evidence |-> Hits(b, k)] :
     k \in {l \in Keys : Hits(b, l) # {}}}

Feed(b) ==
  /\ seen = Len(log) /\ feeds < MaxFeeds
  /\ InOrder => NoneOlder(b)
  /\ log' = log \o b
  /\ feeds' = feeds + 1
  /\ streaks' = [k \in Keys |-> {}]
  /\ findings' = findings \cup PatternFindings(b)
  /\ UNCHANGED <<seen, entries, flagged, escalated>>

\* feed([]) returns at once.
FeedNothing ==
  /\ seen = Len(log)
  /\ UNCHANGED vars

-----------------------------------------------------------------------------
(* The rules, one event at a time *)

\* Mutants: nothing is evicted; a success is judged by all the failures kept.
AddOnly(k, n) == entries[k] \cup {n}
WindowAnyTime(k, n) == entries[k]

\* SlidingWindowCounter.add()
Add(k, n) == {i \in entries[k] \cup {n} : log[i].time >= log[n].time - Window}

\* SlidingWindowCounter.window_as_of()
WindowAsOf(k, n) == {i \in entries[k] : log[i].time >= log[n].time - Window}

\* What is compared to the threshold; an event without a detail adds none.
Measure(w) ==
  IF Distinct THEN Cardinality({log[i].detail : i \in w} \ {NoDetail}) ELSE Cardinality(w)

\* A rule that flags a key does so once.
Exceeded(k, w) == Measure(w) >= Threshold /\ k \notin flagged

Report(r, k, n, w) == [rule |-> r, key |-> k, at |-> n, evidence |-> w]

At(n, kind) == n <= Len(log) /\ log[n].kind = kind

\* Mutant: what was flagged is forgotten.
FailureUnflagged ==
  LET n == seen + 1
      k == log[n].key
      w == Add(k, n)
  IN  /\ At(n, "failure")
      /\ seen' = n
      /\ entries' = [entries EXCEPT ![k] = w]
      /\ streaks' = [streaks EXCEPT ![k] = @ \cup {n}]
      /\ findings' = IF Exceeded(k, w)
                       THEN findings \cup {Report("threshold", k, n, w)} ELSE findings
      /\ UNCHANGED <<log, feeds, flagged, escalated>>

Failure ==
  LET n == seen + 1
      k == log[n].key
      w == Add(k, n)
      fires == Exceeded(k, w)
  IN  /\ At(n, "failure")
      /\ seen' = n
      /\ entries' = [entries EXCEPT ![k] = w]
      /\ streaks' = [streaks EXCEPT ![k] = @ \cup {n}]
      /\ flagged' = IF fires THEN flagged \cup {k} ELSE flagged
      /\ findings' = IF fires THEN findings \cup {Report("threshold", k, n, w)} ELSE findings
      /\ UNCHANGED <<log, feeds, escalated>>

\* RapidSuccessAfterFailuresRule._gap_seconds(): from the last failure.
Latest(s) == CHOOSE i \in s : \A j \in s : j <= i
GapFits(s, n) ==
  s # {} /\ LET gap == log[n].time - log[Latest(s)].time IN 0 <= gap /\ gap <= MaxGap

Rapid(k, n) == Cardinality(streaks[k]) >= MinFailures /\ GapFits(streaks[k], n)

\* Mutant: a success does not end the streak.
SuccessKeepsStreak ==
  LET n == seen + 1
      k == log[n].key
      w == WindowAsOf(k, n)
      escalates == Cardinality(w) >= Threshold /\ k \notin escalated
  IN  /\ At(n, "success")
      /\ seen' = n
      /\ escalated' = IF escalates THEN escalated \cup {k} ELSE escalated
      /\ findings' = findings
           \cup (IF escalates THEN {Report("escalation", k, n, w \cup {n})} ELSE {})
           \cup (IF Rapid(k, n) THEN {Report("rapid", k, n, streaks[k] \cup {n})} ELSE {})
      /\ UNCHANGED <<log, feeds, entries, flagged, streaks>>

Success ==
  LET n == seen + 1
      k == log[n].key
      w == WindowAsOf(k, n)
      escalates == Cardinality(w) >= Threshold /\ k \notin escalated
  IN  /\ At(n, "success")
      /\ seen' = n
      /\ escalated' = IF escalates THEN escalated \cup {k} ELSE escalated
      /\ streaks' = [streaks EXCEPT ![k] = {}]
      /\ findings' = findings
           \cup (IF escalates THEN {Report("escalation", k, n, w \cup {n})} ELSE {})
           \cup (IF Rapid(k, n) THEN {Report("rapid", k, n, streaks[k] \cup {n})} ELSE {})
      /\ UNCHANGED <<log, feeds, entries, flagged>>

Skip ==
  /\ At(seen + 1, "hit") \/ At(seen + 1, "other")
  /\ seen' = seen + 1
  /\ UNCHANGED <<log, feeds, entries, flagged, escalated, streaks, findings>>

Next ==
  \/ \E b \in Batches : Feed(b)
  \/ FeedNothing \/ Failure \/ Success \/ Skip

Spec == Init /\ [][Next]_vars

-----------------------------------------------------------------------------
(* What the rules promise, said of the whole stream *)

Of(kind, k, n) == {i \in 1..n : log[i].kind = kind /\ log[i].key = k}
Within(s, n) == {i \in s : log[i].time >= log[n].time - Window}
Reported(r, k, n) == \E f \in findings : f.rule = r /\ f.key = k /\ f.at = n

\* The positions at which enough failures of k lie in the window, and the
\* successes of k that come so late after them.
Exceeds(k) ==
  {n \in Of("failure", k, seen) : Measure(Within(Of("failure", k, n), n)) >= Threshold}
Breaches(k) ==
  {n \in Of("success", k, seen) : Cardinality(Within(Of("failure", k, n), n)) >= Threshold}

First(s, n) == n \in s /\ \A m \in s : n <= m

\* However the stream is cut into feeds, a key is reported when the first
\* window that reaches the threshold is complete, and never again: "a finding
\* fires exactly once as its triggering line arrives" (watch.py:112).
ThresholdFiresOnce ==
  \A k \in Keys, n \in 1..seen : Reported("threshold", k, n) <=> First(Exceeds(k), n)

\* And escalated at the first success with so many failures within the window
\* before it, although failures are evicted only when others come.
EscalationFiresOnce ==
  \A k \in Keys, n \in 1..seen : Reported("escalation", k, n) <=> First(Breaches(k), n)

\* "N authentication failures from ip within Ws" (brute_force.py:80): the
\* evidence of a finding is of the key reported, lies within one window and
\* is no younger than the line that triggered it.
EvidenceInWindow ==
  \A f \in findings : f.rule \in {"threshold", "escalation"} =>
    \A i, j \in f.evidence :
      /\ log[i].key = f.key /\ log[i].time <= log[f.at].time
      /\ log[j].time - log[i].time <= Window

\* Rules without memory: each hit is evidence of exactly one finding.
EachHitReportedOnce ==
  \A i \in 1..Len(log) : log[i].kind = "hit" =>
    Cardinality({f \in findings : f.rule = "pattern" /\ i \in f.evidence}) = 1

\* The failures of k before n since its last success.
Streak(k, n) ==
  {i \in Of("failure", k, n) : \A j \in Of("success", k, n - 1) : j < i}

\* The successes of k that follow a streak of failures shortly.
Suspicious(k) ==
  {n \in Of("success", k, seen) :
     Cardinality(Streak(k, n)) >= MinFailures /\ GapFits(Streak(k, n), n)}

\* login_anomaly.py: only a success shortly after a streak of failures is
\* reported, and the batch engine, which sees the whole stream in one feed,
\* reports every one.
RapidSuccessSound ==
  \A k \in Keys, n \in 1..seen :
    /\ Reported("rapid", k, n) => n \in Suspicious(k)
    /\ feeds <= 1 /\ n \in Suspicious(k) => Reported("rapid", k, n)

\* "Detectors are stateful across feed calls by design [...] so a finding fires
\* exactly once as its triggering line arrives" (watch.py:110), wherever the
\* feeds begin and end.  It does not when a streak spans two.
RapidSuccessSeen ==
  \A k \in Keys : \A n \in Suspicious(k) : Reported("rapid", k, n)
=============================================================================
