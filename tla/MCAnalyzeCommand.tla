-------------------------- MODULE MCAnalyzeCommand --------------------------
(* Instances of AnalyzeCommand for TLC. *)
EXTENDS AnalyzeCommand

On(y, m, d) == [year |-> y, month |-> m, day |-> d]
MCToday == On(2025, 1, 1)

\* The eves and morrows of a year, leap days (2100 has none: for the reference
\* of 2103 the last one is seven years back), and days that no year has.
Written(form, dates) == {[form |-> form, date |-> t] : t \in dates}
MCLines ==
  Written("apache", {On(2025, 1, 1), On(2103, 2, 1), On(2025, 2, 29)})
    \cup Written("syslog", {On(2024, 2, 29), On(2024, 3, 1), On(2024, 12, 31),
                            On(2025, 2, 28), On(2025, 2, 30)})
    \cup Written("both", {On(2024, 12, 31)}) \cup Written("junk", {On(2025, 1, 1)})
MCSeconds ==
  Written("apache", {On(2024, 12, 31), On(2025, 2, 29)})
    \cup Written("syslog", {On(2023, 12, 31), On(2102, 4, 30)})

MCContents ==
  {Unreadable} \cup {<<>>} \cup {<<a>> : a \in MCLines}
    \cup {<<a, b>> : a \in {x \in MCLines : x.date.day \in {1, 31}}, b \in MCSeconds}

Rule == [id |-> "a", type |-> "brute-force", severity |-> "high", source |-> "auth",
         window |-> Absent, enabled |-> Absent, patterns |-> Absent, limit |-> "60"]
Low == [Rule EXCEPT !.id = "b", !.severity = "low", !.window = "true"]
File == [file |-> "mapping", version |-> Absent, defaults |-> "{}", window |-> Absent,
         alerts |-> "mapping", threshold |-> Absent, sinks |-> <<"email", "toast">>,
         rules |-> <<Rule, Low>>]
Accepted ==
  {File,
   [File EXCEPT !.defaults = "mapping", !.window = "true", !.threshold = "low",
                !.sinks = <<"pager", "toast", "email">>,
                !.rules = <<[Rule EXCEPT !.enabled = "false", !.limit = "word"], Low>>],
   [File EXCEPT !.rules = <<[Rule EXCEPT !.limit = "word"]>>]}
MCDocs ==
  Accepted \cup
  {[File EXCEPT !.file = k] : k \in {"missing", "no yaml", "no utf-8"}} \cup
  {[File EXCEPT !.rules = <<Low, [Rule EXCEPT ![k] = "[]"]>>] : k \in {"type", "window", "enabled"}} \cup
  {[File EXCEPT !.rules = rules] : rules \in {<<>>, <<Rule, Rule>>}} \cup
  {[File EXCEPT !.defaults = "mapping", !.window = "0"], [File EXCEPT !.alerts = "word"],
   [File EXCEPT !.threshold = "word"], [File EXCEPT !.sinks = <<"60">>]}

Settings(host, port) == [host |-> host, to |-> "word", port |-> port]
Unset == [host |-> Absent, to |-> Absent, port |-> Absent]
MCEnvFiles == {Unset, Settings("word", "60"), Settings("word", "word")}
MCEnvirons == {Unset, [Unset EXCEPT !.host = ""]}
=============================================================================
