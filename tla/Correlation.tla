---------------------------- MODULE Correlation ----------------------------
(***************************************************************************)
(* correlation/engine.py, and IncrementalAnalyzer._correlate(), which runs *)
(* it over a buffer of recent findings.  A finding is told apart by its    *)
(* address, its rule and the time it spans; how often it counted, its      *)
(* evidence and its users are left out.                                    *)
(***************************************************************************)
EXTENDS Integers, Sequences, FiniteSets

CONSTANTS
  RuleSource,       \* rule_sources: the source of each rule, or AnySource
  AnySource,        \* a rule that reads all sources
  NoAddress,        \* ip of a finding that has none
  CorrelationRules  \* the configured rules in their order: their parameters

Parameters == [window : Nat \ {0}, minRules : Nat, distinctSources : BOOLEAN]
ASSUME CorrelationAssumption == CorrelationRules \in Seq(Parameters)

VARIABLES
  recent,     \* _recent_findings, as a set
  reported,   \* _seen_correlations: keys, of address and rules
  correlated  \* the correlations that each call returned

correlationVars == <<recent, reported, correlated>>

Largest(S) == CHOOSE x \in S : \A y \in S : y <= x

\* _DEFAULT_CORRELATION_WINDOW matters only where there is no rule to use it.
CorrelationWindow == Largest({CorrelationRules[i].window : i \in DOMAIN CorrelationRules})

-----------------------------------------------------------------------------
(* _find_correlated_group() and _correlate_one() *)

RulesOf(group) == {f.rule : f \in group}
SourcesOf(group) == {RuleSource[r] : r \in RulesOf(group)} \ {AnySource}

Satisfies(group, r) ==
  /\ Cardinality(RulesOf(group)) >= r.minRules
  /\ r.distinctSources => Cardinality(SourcesOf(group)) >= 2

\* The findings of one address that begin within a window after the anchor.
\* Of anchors of the same time the first has them all.
GroupAt(found, anchor, r) ==
  {f \in found : f.ip = anchor.ip /\ anchor.first <= f.first /\ f.first <= anchor.first + r.window}

Anchors(found, ip, r) ==
  {f \in found : f.ip = ip /\ Satisfies(GroupAt(found, f, r), r)}

\* The first anchor that satisfies the rule, for each address that has one.
Correlate(found, r) ==
  {LET first == CHOOSE f \in Anchors(found, ip, r) :
                  \A g \in Anchors(found, ip, r) : f.first <= g.first
   IN  <<ip, RulesOf(GroupAt(found, first, r))>> :
     ip \in {a \in {f.ip : f \in found} \ {NoAddress} : Anchors(found, a, r) # {}}}

\* correlate(): what every rule, told by its place, comes to.
Correlations(found) ==
  UNION {{[rule |-> i, ip |-> c[1], rules |-> c[2]] : c \in Correlate(found, CorrelationRules[i])} :
           i \in DOMAIN CorrelationRules}

-----------------------------------------------------------------------------
(* IncrementalAnalyzer._correlate() *)

Pruned(found) ==
  LET newest == Largest({f.last : f \in found})
  IN  {f \in found : f.last >= newest - CorrelationWindow}

\* Mutant: an address is reported once, whatever else it triggers.
KeyOfAddress(c) == <<c.ip>>

\* By what one correlation is told from another; the rule is not part of it.
Key(c) == <<c.ip, c.rules>>
Keys(correlations) == {Key(c) : c \in correlations}

\* What correlate() returns and was not reported before; of rules that come to
\* one key in the same call, the first reports it.
Fresh(found) ==
  {c \in Correlations(found) :
     /\ Key(c) \notin reported
     /\ \A d \in Correlations(found) : Key(d) = Key(c) => c.rule <= d.rule}

CorrelateNew(new) ==
  IF new = {} \/ CorrelationRules = <<>>
    THEN UNCHANGED correlationVars
    ELSE /\ recent' = Pruned(recent \cup new)
         /\ reported' = reported \cup Keys(Fresh(recent'))
         /\ correlated' = Append(correlated, Fresh(recent'))

InitCorrelation == recent = {} /\ reported = {} /\ correlated = <<>>
=============================================================================
