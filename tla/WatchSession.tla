---------------------------- MODULE WatchSession ----------------------------
(***************************************************************************)
(* pipeline/watch.py: WatchSession, which hands what the tailers return to *)
(* the parsers and the events to the analyzer, and commands/watch.py.      *)
(*                                                                         *)
(* The tailers are LineReaders, which FileTailer implements; here a poll   *)
(* returns all lines that are not read yet.  The detectors are Detection;  *)
(* here a line says what finding it leads to, if any.  The correlation is  *)
(* that of Correlation.                                                    *)
(***************************************************************************)
EXTENDS LogFormats, Correlation

CONSTANTS
  Files,       \* the followed files, a sequence
  Content,     \* the lines that may be written: [form, dated, finding]
  NoFinding,   \* of a line that leads to none
  Fmt,         \* --format
  MaxSniff,    \* _MAX_SNIFF_BUFFER
  MaxLines,    \* bound: lines written to all files together
  MaxRotations \* bound: rotations of all files together

ASSUME SniffAssumption == MaxSniff \in Nat \ {0}
ASSUME FmtAssumption == Fmt \in {"auto", "apache", "syslog"}

Names == {Files[i] : i \in DOMAIN Files}

\* Files may name a path twice; its second turn finds nothing new.
ASSUME FilesAssumption == Files \in Seq(Names)

\* What a finding tells: its rule, its address and the seconds it spans.
ASSUME ContentAssumption ==
  \A x \in Content :
    x.finding # NoFinding => x.finding.first \in Nat /\ x.finding.last \in Nat

VARIABLES
  \* The files
  written,      \* the lines written to each path, over all its files
  top,          \* how many of them stood there before the present file
  lost,         \* those that no poll returned before a rotation
  \* The session
  read,         \* how many of the lines the tailer has behind it
  lineNo,       \* _line_no
  pending,      \* _pending: number and line
  parser,       \* _parsers
  batch,        \* events read by this poll
  pc, turn,     \* "wait", "read" (and whose turn it is), "count" or "stopped"
  found,        \* what feed() returned, until it is counted and printed
  eventCount, failureCount, findingCount,
  \* History
  handed,       \* the lines given to parse_line(), with their numbers
  fed,          \* the findings the analyzer has come to
  cut           \* was the session interrupted in the middle of a poll?

files == <<written, top, lost>>
counts == <<eventCount, failureCount, findingCount>>
session == <<read, lineNo, pending, parser, batch, pc, turn, found, counts>>
vars == <<files, session, handed, fed, cut, correlationVars>>

\* How many members the sequences of all the paths have together.
Members(s) == UNION {{<<f, k>> : k \in 1..Len(s[f])} : f \in Names}
Total(s) == Cardinality(Members(s))

Entry == [no : Nat, at : Nat]
TypeOK ==
  /\ \A f \in Names :
       /\ read[f] \in 0..Len(written[f]) /\ top[f] \in 0..Len(written[f])
       /\ lineNo[f] \in 0..read[f]
       /\ pending[f] \in Seq(Entry) /\ Len(pending[f]) <= MaxSniff
       /\ handed[f] \in Seq(Entry)
  /\ parser \in [Names -> {NoParser, "apache", "syslog"}]
  /\ pc \in {"wait", "read", "count", "stopped"} /\ turn \in 1..(Len(Files) + 1)
  /\ eventCount \in Nat /\ failureCount \in Nat /\ findingCount \in Nat

Init ==
  /\ written = [f \in Names |-> <<>>] /\ top = [f \in Names |-> 0] /\ lost = [f \in Names |-> {}]
  /\ read = [f \in Names |-> 0] /\ lineNo = [f \in Names |-> 0]
  /\ pending = [f \in Names |-> <<>>] /\ parser = [f \in Names |-> NoParser]
  /\ batch = <<>> /\ pc = "wait" /\ turn = 1 /\ found = 0
  /\ eventCount = 0 /\ failureCount = 0 /\ findingCount = 0
  /\ handed = [f \in Names |-> <<>>] /\ fed = {} /\ cut = FALSE
  /\ InitCorrelation

-----------------------------------------------------------------------------
(* The logger and the rotation; what they do after the watch is left out *)

Write(f, x) ==
  /\ pc # "stopped" /\ Total(written) < MaxLines
  /\ written' = [written EXCEPT ![f] = Append(@, x)]
  /\ UNCHANGED <<top, lost, session, handed, fed, cut, correlationVars>>

\* A new file; what was not read of the old one is never read.
Rotate(f) ==
  /\ pc # "stopped" /\ Len(written[f]) > top[f]
  /\ Cardinality({g \in Names : top[g] > 0}) < MaxRotations
  /\ top' = [top EXCEPT ![f] = Len(written[f])]
  /\ lost' = [lost EXCEPT ![f] = @ \cup ((read[f] + 1)..Len(written[f]))]
  /\ read' = [read EXCEPT ![f] = Len(written[f])]
  /\ UNCHANGED <<written, lineNo, pending, parser, batch, pc, turn, found, counts,
                 handed, fed, cut, correlationVars>>

-----------------------------------------------------------------------------
(* run() and poll_once() *)

StartPoll ==
  /\ pc = "wait"
  /\ pc' = "read" /\ turn' = 1
  /\ UNCHANGED <<files, read, lineNo, pending, parser, batch, found, counts,
                 handed, fed, cut, correlationVars>>

\* The lines returned by the tailer, numbered on from those before.
NewLines(f) ==
  [k \in 1..(Len(written[f]) - read[f]) |-> [no |-> lineNo[f] + k, at |-> read[f] + k]]
Waiting(f) == pending[f] \o NewLines(f)

Text(f, entries) == [k \in DOMAIN entries |-> written[f][entries[k].at]]

\* _resolve_parser(): once found, the parser of a path stays.
ParserOf(f) ==
  IF parser[f] # NoParser THEN parser[f] ELSE ParserFor(Fmt, Text(f, Waiting(f)))

\* Mutant: nothing is dropped.
CappedNever(entries) == entries

Capped(entries) ==
  IF Len(entries) > MaxSniff
    THEN SubSeq(entries, Len(entries) - MaxSniff + 1, Len(entries)) ELSE entries

\* The lines of which parse_line() makes an event.
Parsed(f) ==
  LET Among[k \in 0..Len(Waiting(f))] ==
        IF k = 0 THEN <<>>
        ELSE LET x == written[f][Waiting(f)[k].at]
             IN  IF Parses(ParserOf(f), x, x.dated) THEN Append(Among[k - 1], x)
                 ELSE Among[k - 1]
  IN  Among[Len(Waiting(f))]

Turn(f) == pc = "read" /\ turn <= Len(Files) /\ f = Files[turn]

\* Mutant: the numbers of lines that are dropped are given again.
TookRecounting(f) ==
  /\ read' = [read EXCEPT ![f] = Len(written[f])]
  /\ lineNo' = [lineNo EXCEPT ![f] = Len(Waiting(f))]
  /\ turn' = turn + 1

Took(f) ==
  /\ read' = [read EXCEPT ![f] = Len(written[f])]
  /\ lineNo' = [lineNo EXCEPT ![f] = @ + Len(NewLines(f))]
  /\ turn' = turn + 1

\* Mutant: the session waits for the format of one file before the next.
KeepUntilKnown(f) ==
  /\ Turn(f) /\ (Waiting(f) = <<>> \/ ParserOf(f) = NoParser)
  /\ read' = [read EXCEPT ![f] = Len(written[f])]
  /\ lineNo' = [lineNo EXCEPT ![f] = @ + Len(NewLines(f))]
  /\ turn' = IF Waiting(f) = <<>> THEN turn + 1 ELSE turn
  /\ pending' = [pending EXCEPT ![f] = Capped(Waiting(f))]
  /\ UNCHANGED <<files, parser, batch, pc, found, counts, handed, fed, cut, correlationVars>>

\* _read_file_events() of a file whose format is not known yet.
Keep(f) ==
  /\ Turn(f) /\ (Waiting(f) = <<>> \/ ParserOf(f) = NoParser)
  /\ Took(f)
  /\ pending' = [pending EXCEPT ![f] = Capped(Waiting(f))]
  /\ UNCHANGED <<files, parser, batch, pc, found, counts, handed, fed, cut, correlationVars>>

Parse(f) ==
  /\ Turn(f) /\ Waiting(f) # <<>> /\ ParserOf(f) # NoParser
  /\ Took(f)
  /\ parser' = [parser EXCEPT ![f] = ParserOf(f)]
  /\ pending' = [pending EXCEPT ![f] = <<>>]
  /\ batch' = batch \o Parsed(f)
  /\ failureCount' = failureCount + Len(Waiting(f)) - Len(Parsed(f))
  /\ handed' = [handed EXCEPT ![f] = @ \o Waiting(f)]
  /\ UNCHANGED <<files, pc, found, eventCount, findingCount, fed, cut, correlationVars>>

Alarms == {i \in DOMAIN batch : batch[i].finding # NoFinding}
NewFindings == {batch[i].finding : i \in Alarms}

\* IncrementalAnalyzer.feed()
Feed ==
  /\ pc = "read" /\ turn = Len(Files) + 1
  /\ CorrelateNew(NewFindings)
  /\ fed' = fed \cup NewFindings
  /\ found' = Cardinality(Alarms)
                + (IF correlated' = correlated THEN 0 ELSE Cardinality(correlated'[Len(correlated')]))
  /\ pc' = "count"
  /\ UNCHANGED <<files, read, lineNo, pending, parser, batch, turn, counts, handed, cut>>

\* Mutant: the events of a poll without findings are not counted.
CountFindings ==
  /\ pc = "count"
  /\ eventCount' = IF found = 0 THEN eventCount ELSE eventCount + Len(batch)
  /\ findingCount' = findingCount + found
  /\ batch' = <<>> /\ found' = 0 /\ pc' = "wait"
  /\ UNCHANGED <<files, read, lineNo, pending, parser, turn, failureCount,
                 handed, fed, cut, correlationVars>>

\* The counters, and _print_findings().
Count ==
  /\ pc = "count"
  /\ eventCount' = eventCount + Len(batch)
  /\ findingCount' = findingCount + found
  /\ batch' = <<>> /\ found' = 0 /\ pc' = "wait"
  /\ UNCHANGED <<files, read, lineNo, pending, parser, turn, failureCount,
                 handed, fed, cut, correlationVars>>

\* The stop event or the last poll between two polls, or Ctrl+C at any time.
Stop ==
  /\ pc # "stopped"
  /\ pc' = "stopped" /\ cut' = (pc # "wait")
  /\ UNCHANGED <<files, read, lineNo, pending, parser, batch, turn, found, counts,
                 handed, fed, correlationVars>>

Poll == StartPoll \/ (\E f \in Names : Keep(f) \/ Parse(f)) \/ Feed \/ Count

Next ==
  \/ \E f \in Names : Rotate(f) \/ \E x \in Content : Write(f, x)
  \/ Poll \/ Stop

Spec == Init /\ [][Next]_vars

\* The session polls until it is stopped; nobody has to write.
FairSpec == Spec /\ WF_vars(Poll)

-----------------------------------------------------------------------------
(* Properties *)

At(entries) == {entries[k].at : k \in DOMAIN entries}
Dropped(f) == ((1..read[f]) \ lost[f]) \ (At(handed[f]) \cup At(pending[f]))

\* Every line that a tailer returned is given to the parser once and in its
\* order, or still waits for a format to be known, or was the oldest of more
\* than _MAX_SNIFF_BUFFER that waited; and its number, by which evidence will
\* point to it, is that of the line in the file, however many were dropped.
\* (After a rotation it is not: the numbers run on.)
HandedInTurn ==
  \A f \in Names :
    LET all == handed[f] \o pending[f]
    IN  /\ \A j, k \in DOMAIN all : j < k => all[j].at < all[k].at
        /\ \A i \in Dropped(f), k \in DOMAIN all : i < all[k].at
        /\ Dropped(f) # {} => Len(all) >= MaxSniff
        /\ top[f] = 0 => \A k \in DOMAIN all : all[k].no = all[k].at

\* The summary that watch prints accounts for every line parsed, except that of
\* a watch interrupted in the middle of a poll it leaves out the events of that
\* poll, no more: those lines failed to parse are in it already.
SummaryAdds ==
  pc = "wait" \/ pc = "stopped" =>
    eventCount + failureCount + (IF cut THEN Len(batch) ELSE 0) = Total(handed)

\* The findings that ended within the longest window of the newest.
Recently == {f \in fed : \A g \in fed : f.last >= g.last - CorrelationWindow}

SameGroup(c, d) == c.ip = d.ip /\ c.rules = d.rules

\* One report for each address and set of rules, although their findings stay in
\* the buffer for many feeds and several rules may come to them.
CorrelatedOnce ==
  \A i, j \in DOMAIN correlated : \A c \in correlated[i], d \in correlated[j] :
    SameGroup(c, d) => i = j /\ c = d

\* Whatever analyze, given the recent findings, would report under any of its
\* rules has been reported, this group of rules of this address; perhaps under
\* the name of another rule, for the key leaves the name out.
CorrelatedInTime ==
  \A c \in Correlations(Recently) :
    \E i \in DOMAIN correlated : \E d \in correlated[i] : SameGroup(c, d)

\* And what a step reports is, by rule, address and group, what analyze would
\* report if it were given the findings that are recent at that moment.
ReportedNow ==
  \A i \in DOMAIN correlated' \ DOMAIN correlated : correlated'[i] \subseteq Correlations(Recently')

\* Correlating the buffer after every poll tells the user at once what the batch
\* engine makes of the recent findings, all of that and no more, each group once.
CorrelatedAsInBatch ==
  [][ReportedNow /\ CorrelatedOnce' /\ CorrelatedInTime']_<<fed, correlationVars>>

\* Lines written are read at last, or their file is replaced or the watch over.
LinesReached ==
  \A f \in Names :
    (read[f] < Len(written[f])) ~> (read[f] = Len(written[f]) \/ pc = "stopped")
=============================================================================
