------------------------------ MODULE Analysis ------------------------------
(***************************************************************************)
(* pipeline/engine.py: AnalysisEngine.analyze() from the names of the      *)
(* files to the events that the rules look at.  What the rules make of     *)
(* them is Detection with a single feed, and then Correlation.             *)
(*                                                                         *)
(* A line is known by its form and by the date it was written, of which a  *)
(* syslog line tells month and day alone.  One that reads as either form   *)
(* bears that date in both places.                                         *)
(***************************************************************************)
EXTENDS LogFormats, SyslogYear

CONSTANTS
  Files,       \* the names of the log files
  Contents,    \* what a file may hold: a sequence of lines, or Unreadable
  Unreadable,  \* there is no such file, or it cannot be read
  Formats,     \* the values of --format that are tried
  SampleSize,  \* _SNIFF_SAMPLE_LINES
  Today        \* the date of the analysis

ASSUME SampleAssumption == SampleSize \in Nat \ {0}
ASSUME FormatsAssumption == Formats \subseteq {"auto", "apache", "syslog"}
ASSUME FilesAssumption == IsFiniteSet(Files)

\* The dates that a line may bear: a log may say 30 February, but none is from
\* the first years of the calendar, where YearSearchDepth would lead before it.
Calendar == [year : Nat, month : Nat, day : Nat]
Dates == {t \in Calendar : t.year > YearSearchDepth}
Line == [form : {"apache", "syslog", "both", "junk", "blank"}, date : Dates]
ASSUME ContentsAssumption == \A c \in Contents : c = Unreadable \/ c \in Seq(Line)
ASSUME TodayAssumption == Today \in Dates /\ IsDate(Today.month, Today.day, Today.year)

NoDate == [year |-> NoYear, month |-> 0, day |-> 0]

VARIABLES
  fmt, content,  \* the arguments, and what is on the disk
  files,         \* the files still to be read, in the order given
  at,            \* the line to be parsed next, of the file that is under way
  pending,       \* pending_auth
  events,        \* what was parsed: file, number and date of each line
  failures,      \* file and number of each line that was not
  reference,     \* the instant that syslog lines are resolved by
  stage          \* "read", "auth", "done" or "error", a ConfigError

vars == <<fmt, content, files, at, pending, events, failures, reference, stage>>

ToSet(s) == {s[i] : i \in DOMAIN s}
Orders == {s \in [1..Cardinality(Files) -> Files] : ToSet(s) = Files}

Numbered == Files \X (Nat \ {0})

TypeOK ==
  /\ fmt \in Formats /\ content \in [Files -> Contents]
  /\ files \in Seq(Files) /\ pending \in Seq(Files) /\ at \in Nat \ {0}
  /\ events \in Seq([file : Files, no : Nat \ {0}, date : Calendar])
  /\ failures \in Seq(Numbered)
  /\ \A e \in ToSet(events) : IsDate(e.date.month, e.date.day, e.date.year)
  /\ \/ reference = NoDate
     \/ reference \in Dates /\ IsDate(reference.month, reference.day, reference.year)
  /\ stage \in {"read", "auth", "done", "error"}

Init ==
  /\ fmt \in Formats /\ content \in [Files -> Contents] /\ files \in Orders /\ at = 1
  /\ pending = <<>> /\ events = <<>> /\ failures = <<>>
  /\ reference = NoDate /\ stage = "read"

-----------------------------------------------------------------------------
(* One file *)

\* The date that a parser reads off a line, or NoDate.
DateOf(parser, line, ref) ==
  LET t == line.date
      y == IF parser = "syslog" THEN InferYear(t.month, t.day, ref) ELSE t.year
  IN  IF Parses(parser, line, IsDate(t.month, t.day, y)) THEN [t EXCEPT !.year = y] ELSE NoDate

Readable(f) == content[f] # Unreadable

\* _resolve_parser(), after _read_lines()
Sample(lines) == SubSeq(lines, 1, IF Len(lines) < SampleSize THEN Len(lines) ELSE SampleSize)
Resolve(f) == IF Readable(f) THEN ParserFor(fmt, Sample(content[f])) ELSE NoParser
Next1(f) == stage = "read" /\ files # <<>> /\ f = Head(files)

\* _read_lines() or _resolve_parser() raises ConfigError: no result at all.
Fail(f) ==
  /\ Next1(f) /\ Resolve(f) = NoParser
  /\ stage' = "error"
  /\ UNCHANGED <<fmt, content, files, at, pending, events, failures, reference>>

\* The loop of _parse_lines(): lines are numbered from one, each is an event
\* or a failure.
ParseLine(parser, f, ref) ==
  LET date == DateOf(parser, content[f][at], ref)
  IN  /\ at <= Len(content[f]) /\ at' = at + 1
      /\ IF date # NoDate
           THEN /\ events' = Append(events, [file |-> f, no |-> at, date |-> date])
                /\ UNCHANGED failures
           ELSE failures' = Append(failures, <<f, at>>) /\ UNCHANGED events

ParsedAll(f) == at > Len(content[f]) /\ at' = 1 /\ UNCHANGED <<events, failures>>

\* _infer_reference(): the latest event so far, or now.
Latest(dates) == CHOOSE t \in dates : \A u \in dates : ~Before(t, u)
InferReference == IF events = <<>> THEN Today ELSE Latest({e.date : e \in ToSet(events)})

\* Mutant: a syslog file is parsed at once, by the events so far.
DeferNot(f) ==
  /\ Next1(f) /\ Resolve(f) = "syslog"
  /\ \/ ParseLine("syslog", f, InferReference) /\ UNCHANGED files
     \/ ParsedAll(f) /\ files' = Tail(files)
  /\ UNCHANGED <<fmt, content, pending, reference, stage>>

\* Mutant: a syslog file is parsed at once, and deferred all the same.
DeferToo(f) ==
  /\ Next1(f) /\ Resolve(f) = "syslog"
  /\ \/ ParseLine("syslog", f, Today) /\ UNCHANGED <<files, pending>>
     \/ ParsedAll(f) /\ files' = Tail(files) /\ pending' = Append(pending, f)
  /\ UNCHANGED <<fmt, content, reference, stage>>

Defer(f) ==
  /\ Next1(f) /\ Resolve(f) = "syslog"
  /\ pending' = Append(pending, f)
  /\ files' = Tail(files)
  /\ UNCHANGED <<fmt, content, at, events, failures, reference, stage>>

ParseWeb(f) ==
  /\ Next1(f) /\ Resolve(f) = "apache"
  /\ \/ ParseLine("apache", f, NoDate) /\ UNCHANGED files
     \/ ParsedAll(f) /\ files' = Tail(files)
  /\ UNCHANGED <<fmt, content, pending, reference, stage>>

-----------------------------------------------------------------------------
(* The files deferred, and the end *)

StartAuth ==
  /\ stage = "read" /\ files = <<>>
  /\ reference' = IF pending = <<>> THEN reference ELSE InferReference
  /\ stage' = "auth"
  /\ UNCHANGED <<fmt, content, files, at, pending, events, failures>>

ParseAuth ==
  /\ stage = "auth" /\ pending # <<>>
  /\ \/ ParseLine("syslog", Head(pending), reference) /\ UNCHANGED pending
     \/ ParsedAll(Head(pending)) /\ pending' = Tail(pending)
  /\ UNCHANGED <<fmt, content, files, reference, stage>>

\* events.sort(), which is stable
Reorderings(n) ==
  {p \in [1..n -> 1..n] : /\ \A i, j \in 1..n : p[i] = p[j] => i = j
                          /\ \A k \in 1..n : \E i \in 1..n : p[i] = k}
Finish ==
  /\ stage = "auth" /\ pending = <<>>
  /\ \E p \in Reorderings(Len(events)) :
       /\ \A i, j \in DOMAIN events : i < j =>
            \/ Before(events[p[i]].date, events[p[j]].date)
            \/ ~Before(events[p[j]].date, events[p[i]].date) /\ p[i] < p[j]
       /\ events' = [i \in DOMAIN events |-> events[p[i]]]
  /\ stage' = "done"
  /\ UNCHANGED <<fmt, content, files, at, pending, failures, reference>>

Next ==
  \/ \E f \in Files : Fail(f) \/ Defer(f) \/ ParseWeb(f)
  \/ StartAuth \/ ParseAuth \/ Finish

Spec == Init /\ [][Next]_vars

-----------------------------------------------------------------------------
(* Properties *)

Lines == UNION {{f} \X (1..Len(content[f])) : f \in {g \in Files : Readable(g)}}

\* "A bad line becomes a counted [...] ParseFailure rather than aborting the
\* run" (engine.py:3): every line of every file, deferred or not, is one event
\* or one failure; and there is a result only if every file could be read.
EachLineOnce ==
  stage = "done" =>
    /\ \A f \in Files : Readable(f)
    /\ Len(events) + Len(failures) = Cardinality(Lines)
    /\ Lines = {<<e.file, e.no>> : e \in ToSet(events)} \cup ToSet(failures)

\* The web events of all files, and what syslog lines are resolved by: said
\* without the order of the files.
Web(f) == Resolve(f) = "apache"
WebDates ==
  {content[id[1]][id[2]].date : id \in {l \in Lines : Web(l[1]) /\
     LET x == content[l[1]][l[2]]
     IN  Matches("apache", x) /\ IsDate(x.date.month, x.date.day, x.date.year)}}
Basis == IF WebDates = {} THEN Today ELSE Latest(WebDates)

\* engine.py:51: "every absolute-year (web) file has been read" before the
\* first syslog line is dated, so the order of the files does not matter.
SameInAnyOrder ==
  stage = "done" =>
    \A e \in ToSet(events) :
      LET x == content[e.file][e.no]
      IN  e.date = DateOf(IF Web(e.file) THEN "apache" ELSE "syslog", x, Basis)

\* "Never lose a legitimate security event to a calendar quirk"
\* (syslog_auth.py:70): a day that some year has is always placed; and a line
\* no more than ten months older than the reference, or of the same year and
\* at most one month ahead, is given the date it was written, over the turn of
\* the year and leap days as well.
DatedRight ==
  stage = "done" =>
    /\ \A id \in Lines :
         LET x == content[id[1]][id[2]]
         IN  ~Web(id[1]) /\ Matches("syslog", x) /\ IsDay(x.date.month, x.date.day)
               => id \notin ToSet(failures)
    /\ \A e \in ToSet(events) :
         LET t == content[e.file][e.no].date
         IN  IsDate(t.month, t.day, t.year) /\ Certain(t, Basis) => e.date = t
=============================================================================
