--------------------------- MODULE MCWatchSession ---------------------------
(* Instances of WatchSession for TLC. *)
EXTENDS WatchSession, TLC

CONSTANTS f1, f2, ip1, ip2

MCFiles == <<f1, f2>>
MCRuleSource == [web |-> "web", scan |-> "web", ssh |-> "auth"]
MCCorrelationRules ==
  <<[window |-> 2, minRules |-> 2, distinctSources |-> TRUE],
    [window |-> 1, minRules |-> 2, distinctSources |-> FALSE]>>

Line(form, dated, finding) == [form |-> form, dated |-> dated, finding |-> finding]
By(ip, rule, first, last) == [ip |-> ip, rule |-> rule, first |-> first, last |-> last]

\* Three findings of one address, of which the first two meet one of the rules,
\* all three the other, with another group; one of another address, by which the
\* first of them is no longer recent; and lines of both forms, without a date, of none.
MCContent ==
  {Line("apache", TRUE, By(ip1, "web", 0, 0)), Line("apache", TRUE, By(ip1, "scan", 1, 2)),
   Line("syslog", TRUE, By(ip1, "ssh", 2, 2)), Line("syslog", TRUE, By(ip2, "ssh", 1, 3)),
   Line("both", TRUE, NoFinding), Line("syslog", FALSE, NoFinding), Line("junk", FALSE, NoFinding)}
=============================================================================
