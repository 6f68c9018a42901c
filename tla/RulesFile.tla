----------------------------- MODULE RulesFile -----------------------------
(***************************************************************************)
(* config.py and alerts/__init__.py: what load_rules() makes of a rules    *)
(* file, and build_dispatcher() of its alerts section.                     *)
(*                                                                         *)
(* A YAML scalar is known by its spelling: "60", "true", "null", "word".   *)
(***************************************************************************)
EXTENDS Integers, Sequences, FiniteSets

Absent == "absent"

\* isinstance(True, int): a Boolean passes for a number, of value 0 or 1.
Ints == {"60", "0", "true", "false"}
Positive == {"60", "true"}
Seconds(v) == IF v = "true" THEN 1 ELSE 60

\* raw.get(...) or {}
Falsy == {Absent, "null", "0", "false", "[]", "{}"}

Severities == {"low", "medium", "high", "critical"}
Rank == [low |-> 10, medium |-> 20, high |-> 30, critical |-> 40]
Or(v, default) == IF v = Absent THEN default ELSE v

\* The rule types tell apart here, and the spellings of one that is no scalar.
CorrelationType == "multi-vector-correlation"
VALID_RULE_TYPES == {"brute-force", "rate-limit-abuse", CorrelationType}
Unhashable == {"[]", "{}"}

\* An attempt ends well, in a ConfigError, or in any other exception.
Fine == "fine"
Refused == "ConfigError"
Traceback == "traceback"
Unless(ok, problem) == IF ok THEN Fine ELSE problem
FirstProblem(s) ==
  LET bad == {i \in DOMAIN s : s[i] # Fine}
  IN  IF bad = {} THEN Fine ELSE s[CHOOSE i \in bad : \A j \in bad : i <= j]

-----------------------------------------------------------------------------
(* _build_rule() and _build_alerts() *)

\* Looking a list up in a frozenset raises TypeError, which nobody catches.
RuleProblem(r) ==
  FirstProblem(<<
    Unless(r.id \notin {Absent, "60", ""}, Refused),
    Unless(r.type \notin Unhashable, Traceback),
    Unless(/\ r.type \in VALID_RULE_TYPES
           /\ Or(r.severity, "medium") \in Severities
           /\ r.source \in {Absent, "null", "web", "auth"}
           /\ r.window \in Positive \cup {Absent}
           /\ r.enabled \in {Absent, "true", "false"}
           /\ r.patterns \in {Absent, "regexes"}, Refused)>>)

SectionProblem(doc) ==
  Unless(/\ Or(doc.version, "60") \in Ints
         /\ doc.defaults \in Falsy \cup {"mapping"}
         /\ doc.defaults = "mapping" => doc.window \in Positive \cup {Absent}
         /\ doc.alerts \in Falsy \cup {"mapping"}
         /\ doc.alerts = "mapping" => /\ Or(doc.threshold, "high") \in Severities
                                      /\ \A i \in DOMAIN doc.sinks : doc.sinks[i] # "60"
         /\ doc.rules # <<>>, Refused)

\* read_text() raises UnicodeDecodeError, no OSError, if it is not UTF-8.
FileProblem(doc) ==
  CASE doc.file \in {"missing", "unreadable", "no yaml", "no mapping"} -> Refused
    [] doc.file = "no utf-8" -> Traceback
    [] OTHER -> Fine

Twice(rules, i) == \E j \in 1..(i - 1) : rules[j].id = rules[i].id
RulesProblems(rules) ==
  [i \in DOMAIN rules |->
     FirstProblem(<<RuleProblem(rules[i]), Unless(~Twice(rules, i), Refused)>>)]

LoadProblem(doc) ==
  FirstProblem(<<FileProblem(doc), SectionProblem(doc)>> \o RulesProblems(doc.rules))

-----------------------------------------------------------------------------
(* The AppConfig *)

DefaultWindow(doc) ==
  IF doc.defaults = "mapping" /\ doc.window # Absent THEN Seconds(doc.window) ELSE 60

\* Mutant: the window of a rule is looked up, and not the default one.
RuleConfigBare(r, window) ==
  [id |-> r.id, type |-> r.type, severity |-> Rank[Or(r.severity, "medium")],
   window |-> IF r.window = Absent THEN 0 ELSE Seconds(r.window),
   enabled |-> r.enabled # "false", limit |-> r.limit]

\* limit stands for the parameters, which the loader hands on as they are.
RuleConfig(r, window) ==
  [id |-> r.id, type |-> r.type, severity |-> Rank[Or(r.severity, "medium")],
   window |-> IF r.window = Absent THEN window ELSE Seconds(r.window),
   enabled |-> r.enabled # "false", limit |-> r.limit]

AppConfig(doc) ==
  [min_severity |-> Rank[IF doc.alerts = "mapping" THEN Or(doc.threshold, "high") ELSE "high"],
   sinks |-> IF doc.alerts = "mapping" THEN doc.sinks ELSE <<>>,
   rules |-> [i \in DOMAIN doc.rules |-> RuleConfig(doc.rules[i], DefaultWindow(doc))]]

EnabledRules(config) ==
  {config.rules[i] : i \in {j \in DOMAIN config.rules : config.rules[j].enabled}}

\* int(params[...]) in a constructor that build_rule() calls, or correlate()
Buildable(config) == \A r \in EnabledRules(config) : r.limit # "word"

-----------------------------------------------------------------------------
(* build_dispatcher() *)

\* load_env_file() overlaid by the real environment; a setting is "", a
\* "word" or a number.
Environment(file, real) == [k \in DOMAIN file |-> IF real[k] = Absent THEN file[k] ELSE real[k]]

\* build_email_sink_from_env(): None, or int(port) raises ValueError; skipped
\* in either case.
EmailBuilt(env) ==
  /\ env.host \notin {Absent, ""} /\ env.to \notin {Absent, ""}
  /\ env.port \in {Absent, "60"}

\* The sinks that are built, by their places in the list.
BuildDispatcher(sinks, env) ==
  {i \in DOMAIN sinks : sinks[i] = "toast" \/ (sinks[i] = "email" /\ EmailBuilt(env))}

\* dispatch(): what a sink is given of the findings, known by their severity.
Eligible(findings, min_severity) == {s \in findings : s >= min_severity}
=============================================================================
