----------------------------- MODULE LogFormats -----------------------------
(***************************************************************************)
(* parsers/__init__.py and parsers/base.py: which parser reads a file.     *)
(*                                                                         *)
(* A line is a record whose field form says what it looks like: "apache"   *)
(* and "syslog" lines are as the regular expression of that parser asks,   *)
(* "both" as both do, for instance                                         *)
(*   Jul 3 10:15:32 [03/Jul/2025:10:15:32 +00:00] "GET / HTTP/1.1" 200 5   *)
(* "junk" lines as neither does, and "blank" ones are empty.               *)
(***************************************************************************)
EXTENDS Integers, Sequences, FiniteSets

NoParser == "none"

Matches(parser, line) == line.form \in {parser, "both"}

\* fraction_matching(): blank lines do not count.
Considered(sample) == {i \in DOMAIN sample : sample[i].form # "blank"}
Hits(parser, sample) == {i \in DOMAIN sample : Matches(parser, sample[i])}

\* match_fraction() >= SNIFF_THRESHOLD, that is 0.6
Recognises(parser, sample) ==
  /\ Considered(sample) # {}
  /\ 10 * Cardinality(Hits(parser, sample)) >= 6 * Cardinality(Considered(sample))

\* sniff_parser(): the best score wins, the first in _SNIFF_ORDER a tie.
SniffParser(sample) ==
  LET Score(p) == IF Recognises(p, sample) THEN Cardinality(Hits(p, sample)) ELSE 0
  IN  IF Score("syslog") > Score("apache") THEN "syslog"
      ELSE IF Score("apache") > 0 THEN "apache" ELSE NoParser

\* parser_for(), and WatchSession._resolve_parser()
ParserFor(fmt, sample) == IF fmt = "auto" THEN SniffParser(sample) ELSE fmt

\* parse_line() of either parser: "exactly one of LogEvent or ParseFailure".
\* Whether the time stamp of the line can be read is for the caller to say.
Parses(parser, line, dated) == Matches(parser, line) /\ dated
=============================================================================
