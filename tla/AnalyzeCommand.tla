--------------------------- MODULE AnalyzeCommand ---------------------------
(***************************************************************************)
(* commands/analyze.py and cli.py: the analyze command from the rules file *)
(* to the exit code, with the engine of Analysis in the middle, the        *)
(* exporters and the alert sinks behind it.                                *)
(*                                                                         *)
(* A finding is known by its severity, which is that of its rule.  An      *)
(* argument or a setting is chosen where the program looks at it.          *)
(***************************************************************************)
EXTENDS Analysis, RulesFile

CONSTANTS
  Docs,        \* the rules files
  EnvFiles,    \* what .env may set: a function of settings, or Unreadable
  Environs     \* what the environment may set

\* What YAML lists are: the rules and the names of the sinks.
ASSUME DocsAssumption ==
  \A doc \in Docs : /\ doc.rules \in Seq(ToSet(doc.rules))
                    /\ doc.sinks \in Seq(ToSet(doc.sinks))

VARIABLES
  phase,       \* where run() is, or "exited"
  config,      \* the AppConfig, or NoConfig
  findings,    \* result.findings
  shown,       \* visible, that is what the report shows
  exported,    \* what the file given by --output holds, or NotExported
  sinks,       \* the sinks that dispatch() has still to call, by their places
  built,       \* history: the sinks that build_dispatcher() made, by their places
  sent,        \* history: for each sink called, what it was given and the outcome
  muted,       \* --no-alerts
  code,        \* the exit code
  crashed      \* was it left by an exception that main() does not catch?

command == <<phase, config, findings, shown, exported, sinks, built, sent, muted, code, crashed>>
commandVars == <<vars, command>>

NoConfig == [min_severity |-> 0, sinks |-> <<>>, rules |-> <<>>]
NotExported == {0}
HIGH == Rank["high"]
AnySeverity == {Rank[s] : s \in Severities}

\* RuleConfig and AlertConfig: every window that the detectors are given is
\* positive, wherever it comes from, and every rule has a name of its own.
CommandTypeOK ==
  /\ TypeOK
  /\ phase \in {"load", "analyze", "view", "export", "build", "send", "exited"}
  /\ \A r \in EnabledRules(config) : r.window > 0 /\ r.type \in VALID_RULE_TYPES
  /\ \A i, j \in DOMAIN config.rules : config.rules[i].id = config.rules[j].id => i = j
  /\ findings \subseteq AnySeverity /\ shown \subseteq findings
  /\ exported \in {NotExported} \cup SUBSET AnySeverity
  /\ code \in 0..2 /\ muted \in BOOLEAN /\ crashed \in BOOLEAN

CommandInit ==
  /\ Init /\ phase = "load" /\ config = NoConfig
  /\ findings = {} /\ shown = {} /\ exported = NotExported
  /\ sinks = {} /\ built = {} /\ sent = <<>> /\ muted = FALSE
  /\ code = 0 /\ crashed = FALSE

\* Python leaves with 1 after a traceback; main() turns a ConfigError into 2.
Leave(problem) ==
  /\ phase' = "exited"
  /\ code' = IF problem = Refused THEN 2 ELSE 1
  /\ crashed' = (problem = Traceback)

-----------------------------------------------------------------------------
(* load_rules() and analyze() *)

Load(doc) ==
  /\ phase = "load"
  /\ IF LoadProblem(doc) = Fine
     THEN phase' = "analyze" /\ config' = AppConfig(doc) /\ UNCHANGED <<code, crashed>>
     ELSE Leave(LoadProblem(doc)) /\ UNCHANGED config
  /\ UNCHANGED <<vars, findings, shown, exported, sinks, built, sent, muted>>

Analyze == phase = "analyze" /\ Next /\ UNCHANGED command

AnalyzeFails ==
  /\ phase = "analyze" /\ stage = "error"
  /\ Leave(Refused)
  /\ UNCHANGED <<vars, config, findings, shown, exported, sinks, built, sent, muted>>

\* build_rule(), evaluate() and correlate() of every enabled rule
Detect(found) ==
  /\ phase = "analyze" /\ stage = "done"
  /\ IF Buildable(config)
     THEN /\ found \subseteq {r.severity : r \in EnabledRules(config)}
          /\ events = <<>> => found = {}
          /\ findings' = found /\ phase' = "view" /\ UNCHANGED <<code, crashed>>
     ELSE Leave(Traceback) /\ UNCHANGED findings
  /\ UNCHANGED <<vars, config, shown, exported, sinks, built, sent, muted>>

-----------------------------------------------------------------------------
(* The report and the export *)

\* --min-severity is read only when the analysis is over.
View(min) ==
  /\ phase = "view"
  /\ IF min \in Severities
     THEN shown' = Eligible(findings, Rank[min]) /\ phase' = "export" /\ UNCHANGED <<code, crashed>>
     ELSE Leave(Refused) /\ UNCHANGED shown
  /\ UNCHANGED <<vars, config, findings, exported, sinks, built, sent, muted>>

NoExport ==
  /\ phase = "export" /\ phase' = "build"
  /\ UNCHANGED <<vars, config, findings, shown, exported, sinks, built, sent, muted, code, crashed>>

\* --export without --output
ExportNowhere ==
  /\ phase = "export" /\ Leave(Refused)
  /\ UNCHANGED <<vars, config, findings, shown, exported, sinks, built, sent, muted>>

Export ==
  /\ phase = "export" /\ phase' = "build" /\ exported' = shown
  /\ UNCHANGED <<vars, config, findings, shown, sinks, built, sent, muted, code, crashed>>

\* open() or write() raises OSError; what the file holds then is left open.
ExportFails(left) ==
  /\ phase = "export" /\ Leave(Traceback) /\ exported' = left
  /\ left \in {NotExported, {}}
  /\ UNCHANGED <<vars, config, findings, shown, sinks, built, sent, muted>>

-----------------------------------------------------------------------------
(* The alerts *)

\* Mutant: the code tells of all findings, shown or not.
ExitOnAll ==
  /\ phase' = "exited" /\ code' = IF \E s \in findings : s >= HIGH THEN 1 ELSE 0
  /\ UNCHANGED crashed

Exit ==
  /\ phase' = "exited" /\ code' = IF \E s \in shown : s >= HIGH THEN 1 ELSE 0
  /\ UNCHANGED crashed

Mute ==
  /\ phase = "build" /\ Exit
  /\ muted' = TRUE
  /\ UNCHANGED <<vars, config, findings, shown, exported, sinks, built, sent>>

\* A .env that cannot be read raises out of build_dispatcher().
EnvFails ==
  /\ phase = "build" /\ findings # {}
  /\ Leave(Traceback)
  /\ UNCHANGED <<vars, config, findings, shown, exported, sinks, built, sent, muted>>

Build(file, real) ==
  /\ phase = "build"
  /\ IF Eligible(findings, config.min_severity) = {}
     THEN Exit /\ UNCHANGED <<sinks, built>>
     ELSE /\ sinks' = BuildDispatcher(config.sinks, Environment(file, real)) /\ built' = sinks'
          /\ phase' = "send" /\ UNCHANGED <<code, crashed>>
  /\ UNCHANGED <<vars, config, findings, shown, exported, sent, muted>>

\* Mutant: the first sink that fails is the last one called.
SendUntilFailure(i, ok) ==
  /\ phase = "send" /\ \A j \in sinks : i <= j
  /\ sent' = Append(sent, [at |-> i, ok |-> ok,
                           got |-> Eligible(findings, config.min_severity)])
  /\ sinks' = IF ok THEN sinks \ {i} ELSE {}
  /\ UNCHANGED <<vars, phase, config, findings, shown, exported, built, muted, code, crashed>>

\* In their order; a sink may raise what it likes.
Send(i, ok) ==
  /\ phase = "send" /\ \A j \in sinks : i <= j
  /\ sent' = Append(sent, [at |-> i, ok |-> ok,
                           got |-> Eligible(findings, config.min_severity)])
  /\ sinks' = sinks \ {i}
  /\ UNCHANGED <<vars, phase, config, findings, shown, exported, built, muted, code, crashed>>

AllSent ==
  /\ phase = "send" /\ sinks = {} /\ Exit
  /\ UNCHANGED <<vars, config, findings, shown, exported, sinks, built, sent, muted>>

CommandNext ==
  \/ \E doc \in Docs : Load(doc)
  \/ Analyze \/ AnalyzeFails
  \/ \E found \in SUBSET AnySeverity : Detect(found)
  \/ \E min \in Severities \cup {"word"} : View(min)
  \/ NoExport \/ ExportNowhere \/ Export
  \/ \E left \in {NotExported, {}} : ExportFails(left)
  \/ Mute \/ EnvFails \/ \E file \in EnvFiles, real \in Environs : Build(file, real)
  \/ \E i \in sinks, ok \in BOOLEAN : Send(i, ok)
  \/ AllSent

CommandSpec == CommandInit /\ [][CommandNext]_commandVars

-----------------------------------------------------------------------------
(* Properties *)

Ended == phase = "exited" /\ ~crashed /\ code # 2

\* "Base the exit code on the same filtered set the report/export show"
\* (analyze.py:95), so that a build fails over a finding that can be looked at;
\* and 2 is "configuration/usage error" (analyze.py:7): nobody has been alerted
\* and no file is written then, however late the error is found.
CodeTellsOutcome ==
  /\ Ended => /\ code = 1 <=> \E s \in shown : s >= HIGH
              /\ exported \in {NotExported, shown}
  /\ code = 2 => sent = <<>> /\ exported = NotExported

\* The display filter "must never suppress a security notification the config's
\* alert threshold asks for" (analyze.py:82), nor must another sink that fails
\* (alerts/__init__.py:4): every sink that was built, and every toast that is
\* configured is, is called once, with all the findings above the threshold,
\* whichever of the sinks before it failed and whatever the report showed.
NoneSuppressed ==
  Ended /\ ~muted /\ Eligible(findings, config.min_severity) # {} =>
    /\ {sent[k].at : k \in DOMAIN sent} = built /\ Len(sent) = Cardinality(built)
    /\ \A i \in DOMAIN config.sinks : config.sinks[i] = "toast" => i \in built
    /\ \A k \in DOMAIN sent : sent[k].got = Eligible(findings, config.min_severity)
=============================================================================
