------------------------ MODULE AnalyzeCommandProofs ------------------------
(***************************************************************************)
(* The engine of Analysis and the command of AnalyzeCommand, for any       *)
(* number of files, lines, rules and sinks, and whatever fails.            *)
(***************************************************************************)
EXTENDS AnalyzeCommand, SyslogYearProofs, FiniteSetTheorems, FunctionTheorems, SequenceTheorems,
        NaturalsInduction, WellFoundedInduction

-----------------------------------------------------------------------------
(* The least number, and induction over sets of numbers *)

LEMMA LeastNumber ==
  ASSUME NEW T, T \subseteq Nat, T # {}
  PROVE  \E x \in T : \A y \in T : x <= y
<1>1. PICK x \in T : \A y \in T : ~ (<<y, x>> \in OpToRel(<, Nat))
  BY NatLessThanWellFounded, WFMin
<1>2. \A y \in T : ~(y < x)
  BY <1>1 DEF OpToRel
<1>3. QED
  BY <1>2

LEMMA SetInduction ==
  ASSUME NEW S, 0 \in S, \A n \in Nat : n \in S => n + 1 \in S
  PROVE  Nat \subseteq S
<1> SUFFICES ASSUME Nat \ S # {} PROVE FALSE
  OBVIOUS
<1>1. PICK x \in Nat \ S : \A y \in Nat \ S : x <= y
  BY LeastNumber
<1>2. x - 1 \in Nat /\ x - 1 \in S
  BY <1>1
<1>3. QED
  BY <1>1, <1>2

-----------------------------------------------------------------------------
(* Dates *)

LEMMA BeforeIsStrictOrder ==
  /\ \A t \in Calendar : ~Before(t, t)
  /\ \A s, t, u \in Calendar : Before(s, t) /\ ~Before(u, t) => Before(s, u)
  /\ \A s, t \in Calendar : Before(s, t) => ~Before(t, s)
BY DEF Before, Calendar

LEMMA DateHasYear == \A m, d, y : IsDate(m, d, y) => y # NoYear
BY DEF IsDate, NoYear

\* Among dates in a row there is a latest.
LEMMA LatestOfRow ==
  \A n \in Nat : \A d \in [1..(n + 1) -> Calendar] :
    \E i \in 1..(n + 1) : \A j \in 1..(n + 1) : ~Before(d[i], d[j])
<1> DEFINE HasLatest(n, d) == \E i \in 1..(n + 1) : \A j \in 1..(n + 1) : ~Before(d[i], d[j])
           Row(n) == \A d \in [1..(n + 1) -> Calendar] : HasLatest(n, d)
           S == {n \in Nat : Row(n)}
<1>1. Row(0)
  <2> SUFFICES ASSUME NEW d \in [1..(0 + 1) -> Calendar] PROVE HasLatest(0, d)
    OBVIOUS
  <2>1. 1 \in 1..(0 + 1) /\ \A j \in 1..(0 + 1) : j = 1
    OBVIOUS
  <2>2. ~Before(d[1], d[1])
    BY BeforeIsStrictOrder
  <2>3. QED
    BY <2>1, <2>2
<1>2. ASSUME NEW n \in Nat, Row(n) PROVE Row(n + 1)
  <2> SUFFICES ASSUME NEW d \in [1..((n + 1) + 1) -> Calendar] PROVE HasLatest(n + 1, d)
    OBVIOUS
  <2> DEFINE e == [i \in 1..(n + 1) |-> d[i]]
  <2>1. e \in [1..(n + 1) -> Calendar]
    OBVIOUS
  <2>2. PICK i \in 1..(n + 1) : \A j \in 1..(n + 1) : ~Before(e[i], e[j])
    BY <1>2, <2>1
  <2>3. \A j \in 1..(n + 1) : ~Before(d[i], d[j])
    BY <2>2
  <2>4. CASE Before(d[i], d[n + 2])
    <3>1. \A j \in 1..(n + 2) : ~Before(d[n + 2], d[j])
      BY <2>3, <2>4, BeforeIsStrictOrder
    <3>2. QED
      BY <3>1
  <2>5. CASE ~Before(d[i], d[n + 2])
    <3>1. \A j \in 1..(n + 2) : j \in 1..(n + 1) \/ j = n + 2
      OBVIOUS
    <3>2. \A j \in 1..(n + 2) : ~Before(d[i], d[j])
      BY <2>3, <2>5, <3>1
    <3>3. i \in 1..(n + 2) /\ n + 1 + 1 = n + 2
      OBVIOUS
    <3>4. QED
      BY <3>2, <3>3
  <2>6. QED
    BY <2>4, <2>5
<1> HIDE DEF Row
<1>3. 0 \in S /\ \A n \in Nat : n \in S => n + 1 \in S
  BY <1>1, <1>2
<1> HIDE DEF S
<1>4. Nat \subseteq S
  BY <1>3, SetInduction
<1>5. \A n \in Nat : Row(n)
  BY <1>4 DEF S
<1>6. QED
  BY <1>5 DEF Row

LEMMA LatestOfSeq ==
  ASSUME NEW s \in Seq(Calendar), s # <<>>
  PROVE  Latest({s[i] : i \in DOMAIN s}) \in {s[i] : i \in DOMAIN s}
<1>1. Len(s) - 1 \in Nat /\ s \in [1..((Len(s) - 1) + 1) -> Calendar] /\ DOMAIN s = 1..Len(s)
  BY LenProperties, EmptySeq
<1>2. PICK i \in DOMAIN s : \A j \in DOMAIN s : ~Before(s[i], s[j])
  BY <1>1, LatestOfRow
<1>3. QED
  BY <1>2 DEF Latest

\* What a parser reads off a line is a day of the calendar.
LEMMA InferYearType ==
  ASSUME NEW m, NEW d, NEW ref \in Calendar
  PROVE  InferYear(m, d, ref) \in Int
<1> DEFINE E == Earlier(m, d, ref.year)
<1>1. ref.year \in Nat
  BY DEF Calendar
<1>2. CASE IsDate(m, d, ref.year)
  BY <1>1, <1>2 DEF InferYear
<1>3. CASE ~IsDate(m, d, ref.year) /\ E = {}
  BY <1>3 DEF InferYear, NoYear
<1>4. CASE ~IsDate(m, d, ref.year) /\ E # {}
  <2>1. E \subseteq 1..(YearSearchDepth - 1)
    BY DEF Earlier
  <2>2. (CHOOSE k \in E : \A l \in E : k <= l) \in E
    BY <1>4, <2>1, LeastOf
  <2>3. \A k \in E : ref.year - k \in Int
    BY <1>1, <2>1 DEF YearSearchDepth
  <2>4. QED
    BY <1>4, <2>2, <2>3 DEF InferYear
<1>5. QED
  BY <1>2, <1>3, <1>4

LEMMA DateOfType ==
  ASSUME NEW parser, NEW line \in Line, NEW ref \in Calendar,
         DateOf(parser, line, ref) # NoDate
  PROVE  /\ DateOf(parser, line, ref) \in Calendar
         /\ LET t == DateOf(parser, line, ref) IN IsDate(t.month, t.day, t.year)
<1> DEFINE t == line.date
           y == IF parser = "syslog" THEN InferYear(t.month, t.day, ref) ELSE t.year
<1>1. t \in Calendar
  BY DEF Line, Dates
<1>2. y \in Int
  BY <1>1, InferYearType DEF Calendar
<1>3. IsDate(t.month, t.day, y) /\ DateOf(parser, line, ref) = [t EXCEPT !.year = y]
  BY DEF DateOf, Parses
<1>4. y \in Nat
  BY <1>2, <1>3 DEF IsDate, NoYear
<1> HIDE DEF y
<1>5. [t EXCEPT !.year = y] = [year |-> y, month |-> t.month, day |-> t.day]
  BY <1>1 DEF Calendar
<1>6. QED
  BY <1>1, <1>3, <1>4, <1>5 DEF Calendar

LEMMA WebDateIsItsOwn ==
  ASSUME NEW line \in Line, NEW ref, NEW other
  PROVE  /\ DateOf("apache", line, ref) = DateOf("apache", line, other)
         /\ DateOf("apache", line, ref) # NoDate <=>
              /\ Matches("apache", line)
              /\ IsDate(line.date.month, line.date.day, line.date.year)
         /\ DateOf("apache", line, ref) # NoDate => DateOf("apache", line, ref) = line.date
<1>1. line.date \in Calendar /\ line.date.year > YearSearchDepth
  BY DEF Line, Dates
<1>2. [line.date EXCEPT !.year = line.date.year] = line.date
  BY <1>1 DEF Calendar
<1>3. line.date # NoDate
  BY <1>1 DEF NoDate, NoYear, YearSearchDepth, Calendar
<1>4. QED
  BY <1>2, <1>3 DEF DateOf, Parses

-----------------------------------------------------------------------------
(* The engine: the inductive invariant *)

Waiting == ToSet(files) \cup ToSet(pending)

\* The file whose lines are being parsed, and how many of a file's have been.
Current(f) ==
  \/ stage = "read" /\ files # <<>> /\ f = Head(files)
  \/ stage = "auth" /\ pending # <<>> /\ f = Head(pending)
Through(f) ==
  IF f \notin Waiting THEN Len(content[f]) ELSE IF Current(f) THEN at - 1 ELSE 0

Once(s) == \A i, j \in DOMAIN s : s[i] = s[j] => i = j
EventLines == [i \in DOMAIN events |-> <<events[i].file, events[i].no>>]
DoneLines == ToSet(EventLines) \cup ToSet(failures)

\* A file waits in one place only; the ones deferred are those in syslog form,
\* the ones parsed before them are web logs.
FilesInv ==
  /\ Once(files) /\ Once(pending) /\ ToSet(files) \cap ToSet(pending) = {}
  /\ \A f \in Files : f \notin ToSet(files) => Resolve(f) \in {"apache", "syslog"}
  /\ \A f \in ToSet(pending) : Resolve(f) = "syslog"
  /\ stage = "read" => \A f \in Files : f \notin Waiting => Web(f)
  /\ stage \in {"auth", "done"} => files = <<>>
  /\ stage = "done" => pending = <<>>

\* The next line is one of a file that is under way, or the one past its end.
AtInv ==
  at > 1 => \E f \in Files : /\ Current(f) /\ at <= Len(content[f]) + 1
                             /\ stage = "read" => Web(f)

LineInv ==
  \A f \in Files, i \in Nat \ {0} : <<f, i>> \in DoneLines <=> i <= Through(f)

OnceInv ==
  Once(EventLines) /\ Once(failures) /\ ToSet(EventLines) \cap ToSet(failures) = {}

\* Whatever has been read so far was read as the reference says.
DateInv ==
  /\ stage = "read" => \A id \in DoneLines : Web(id[1])
  /\ \A i \in DOMAIN events :
       LET e == events[i]
       IN  e.date = DateOf(Resolve(e.file), content[e.file][e.no], reference)
  /\ \A i \in DOMAIN failures :
       LET id == failures[i]
       IN  DateOf(Resolve(id[1]), content[id[1]][id[2]], reference) = NoDate

RefInv ==
  stage \in {"auth", "done"} =>
    (reference = Basis /\ reference # NoDate) \/ \A f \in Files : Web(f)

EngineInv ==
  /\ TypeOK
  /\ stage # "error" => FilesInv /\ AtInv /\ LineInv /\ OnceInv /\ DateInv /\ RefInv

\* What reads no line reads none twice.
LEMMA OnceKept ==
  ASSUME OnceInv, EventLines' = EventLines, failures' = failures
  PROVE  OnceInv'
BY DEF OnceInv, Once, ToSet

-----------------------------------------------------------------------------
(* Sequences without repetition *)

LEMMA TailOfOnce ==
  ASSUME NEW S, NEW s \in Seq(S), s # <<>>, Once(s)
  PROVE  /\ Head(s) \in S /\ Head(s) \in ToSet(s)
         /\ Tail(s) \in Seq(S) /\ Once(Tail(s))
         /\ ToSet(s) = {Head(s)} \cup ToSet(Tail(s))
         /\ Head(s) \notin ToSet(Tail(s))
<1>1. /\ Head(s) = s[1] /\ Head(s) \in S /\ Len(s) \in Nat /\ Len(s) >= 1
      /\ DOMAIN s = 1..Len(s) /\ 1 \in DOMAIN s
  BY HeadTailProperties, LenProperties, EmptySeq
<1>2. /\ Tail(s) \in Seq(S) /\ DOMAIN Tail(s) = 1..(Len(s) - 1)
      /\ \A i \in 1..(Len(s) - 1) : Tail(s)[i] = s[i + 1]
  <2>1. Tail(s) \in Seq(S) /\ Len(Tail(s)) = Len(s) - 1
    BY HeadTailProperties
  <2>2. DOMAIN Tail(s) = 1..Len(Tail(s))
    BY <2>1, LenProperties
  <2>3. \A i \in 1..Len(Tail(s)) : Tail(s)[i] = s[i + 1]
    BY HeadTailProperties
  <2>4. QED
    BY <2>1, <2>2, <2>3
<1>3. Once(Tail(s))
  <2> SUFFICES ASSUME NEW i \in 1..(Len(s) - 1), NEW j \in 1..(Len(s) - 1),
                      s[i + 1] = s[j + 1]
               PROVE  i = j
    BY <1>2 DEF Once
  <2>1. i + 1 \in DOMAIN s /\ j + 1 \in DOMAIN s
    BY <1>1
  <2>2. i + 1 = j + 1
    BY <2>1 DEF Once
  <2>3. QED
    BY <2>2
<1>4. ToSet(s) = {Head(s)} \cup ToSet(Tail(s))
  <2>1. ASSUME NEW i \in DOMAIN s PROVE s[i] = Head(s) \/ s[i] \in ToSet(Tail(s))
    <3>1. CASE i = 1
      BY <1>1, <3>1
    <3>2. CASE i # 1
      <4>1. i - 1 \in 1..(Len(s) - 1) /\ Tail(s)[i - 1] = s[(i - 1) + 1]
        BY <1>1, <1>2, <3>2
      <4>2. (i - 1) + 1 = i
        BY <1>1
      <4>3. QED
        BY <1>2, <4>1, <4>2 DEF ToSet
    <3>3. QED
      BY <3>1, <3>2
  <2>2. ASSUME NEW i \in DOMAIN Tail(s) PROVE Tail(s)[i] \in ToSet(s)
    <3>1. i + 1 \in DOMAIN s /\ Tail(s)[i] = s[i + 1]
      BY <1>1, <1>2
    <3>2. QED
      BY <3>1 DEF ToSet
  <2>3. QED
    BY <1>1, <2>1, <2>2 DEF ToSet
<1>5. Head(s) \notin ToSet(Tail(s))
  <2>1. SUFFICES ASSUME NEW i \in 1..(Len(s) - 1), s[i + 1] = s[1] PROVE FALSE
    BY <1>1, <1>2 DEF ToSet
  <2>2. i + 1 \in DOMAIN s /\ i + 1 # 1
    BY <1>1
  <2>3. QED
    BY <1>1, <2>1, <2>2 DEF Once
<1>6. QED
  BY <1>1, <1>2, <1>3, <1>4, <1>5 DEF ToSet

LEMMA AppendOnce ==
  ASSUME NEW S, NEW s \in Seq(S), NEW x \in S
  PROVE  /\ Append(s, x) \in Seq(S)
         /\ ToSet(Append(s, x)) = ToSet(s) \cup {x}
         /\ Once(s) /\ x \notin ToSet(s) => Once(Append(s, x))
         /\ DOMAIN Append(s, x) = DOMAIN s \cup {Len(s) + 1}
         /\ \A i \in DOMAIN s : Append(s, x)[i] = s[i]
         /\ Append(s, x)[Len(s) + 1] = x
<1>1. /\ Append(s, x) \in Seq(S) /\ Len(s) \in Nat
      /\ DOMAIN s = 1..Len(s) /\ DOMAIN Append(s, x) = 1..(Len(s) + 1)
      /\ \A i \in 1..Len(s) : Append(s, x)[i] = s[i]
      /\ Append(s, x)[Len(s) + 1] = x
  BY AppendProperties, LenProperties
<1>2. DOMAIN Append(s, x) = DOMAIN s \cup {Len(s) + 1}
  BY <1>1
<1>3. ToSet(Append(s, x)) = ToSet(s) \cup {x}
  BY <1>1, <1>2 DEF ToSet
<1>4. ASSUME Once(s), x \notin ToSet(s) PROVE Once(Append(s, x))
  BY <1>1, <1>2, <1>4 DEF Once, ToSet
<1>5. QED
  BY <1>1, <1>2, <1>3, <1>4

-----------------------------------------------------------------------------
(* The engine: what its steps keep *)

\* A file that some parser takes could be read.
LEMMA ReadableContent ==
  ASSUME TypeOK, NEW f \in Files, Resolve(f) \in {"apache", "syslog"}
  PROVE  /\ Readable(f) /\ content[f] \in Seq(Line) /\ Len(content[f]) \in Nat
         /\ DOMAIN content[f] = 1..Len(content[f])
         /\ \A i \in 1..Len(content[f]) : content[f][i] \in Line
<1>1. Readable(f)
  BY DEF Resolve, NoParser
<1>2. content[f] \in Contents
  BY DEF TypeOK
<1>3. content[f] \in Seq(Line)
  BY <1>1, <1>2, ContentsAssumption DEF Readable
<1>4. QED
  BY <1>1, <1>3, LenProperties, ElementOfSeq

LEMMA EventTypes ==
  ASSUME TypeOK
  PROVE  /\ DOMAIN events = 1..Len(events) /\ Len(events) \in Nat
         /\ \A i \in DOMAIN events : /\ events[i].file \in Files
                                    /\ events[i].no \in Nat \ {0}
                                    /\ events[i].date \in Calendar
<1> DEFINE Event == [file : Files, no : Nat \ {0}, date : Calendar]
<1>1. \A x \in Event : x.file \in Files /\ x.no \in Nat \ {0} /\ x.date \in Calendar
  OBVIOUS
<1>2. events \in Seq(Event)
  BY DEF TypeOK
<1> HIDE DEF Event
<1>3. QED
  BY <1>1, <1>2, LenProperties, ElementOfSeq

LEMMA NoDateType == NoDate \in Calendar
BY DEF NoDate, Calendar, NoYear

\* A line of the file that is under way becomes one event or one failure.
LEMMA ParseLineKeeps ==
  ASSUME TypeOK, FilesInv, AtInv, LineInv, OnceInv, DateInv,
         NEW f \in Files, Current(f), Resolve(f) \in {"apache", "syslog"},
         NEW ref \in Calendar,
         \A line \in Line :
           DateOf(Resolve(f), line, ref) = DateOf(Resolve(f), line, reference),
         stage = "read" => Web(f),
         ParseLine(Resolve(f), f, ref),
         UNCHANGED <<fmt, content, files, pending, reference, stage>>
  PROVE  TypeOK' /\ AtInv' /\ LineInv' /\ OnceInv' /\ DateInv'
<1> DEFINE n == Len(content[f])
           date == DateOf(Resolve(f), content[f][at], ref)
           e == [file |-> f, no |-> at, date |-> date]
           Event == [file : Files, no : Nat \ {0}, date : Calendar]
<1>1. /\ at \in Nat \ {0} /\ n \in Nat /\ at <= n /\ at' = at + 1
      /\ content[f][at] \in Line
  BY ReadableContent DEF ParseLine, TypeOK
<1>2. \/ date # NoDate /\ events' = Append(events, e) /\ failures' = failures
      \/ date = NoDate /\ failures' = Append(failures, <<f, at>>) /\ events' = events
  BY DEF ParseLine
<1>3. date # NoDate => date \in Calendar /\ IsDate(date.month, date.day, date.year)
  BY <1>1, DateOfType
<1>4. events \in Seq(Event) /\ failures \in Seq(Numbered)
  BY DEF TypeOK
<1>5. <<f, at>> \in Numbered /\ (date # NoDate => e \in Event)
  BY <1>1, <1>3 DEF Numbered
<1> HIDE DEF date, Event
<1>6. /\ DOMAIN events = 1..Len(events) /\ Len(events) \in Nat
      /\ \A i \in DOMAIN events : events[i] \in Event
      /\ DOMAIN failures = 1..Len(failures) /\ Len(failures) \in Nat
      /\ \A i \in DOMAIN failures : failures[i] \in Numbered
  BY <1>4, LenProperties, ElementOfSeq
<1>7. EventLines \in Seq(Numbered) /\ Len(EventLines) = Len(events)
  <2>1. \A i \in 1..Len(events) : <<events[i].file, events[i].no>> \in Numbered
    BY <1>6 DEF Event, Numbered
  <2>2. QED
    BY <1>6, <2>1, LenProperties DEF EventLines
<1>8. \/ /\ date # NoDate /\ EventLines' = Append(EventLines, <<f, at>>)
         /\ failures' = failures
      \/ /\ date = NoDate /\ EventLines' = EventLines
         /\ failures' = Append(failures, <<f, at>>)
  <2>1. CASE date # NoDate
    <3>1. events' = Append(events, e)
      BY <1>2, <2>1
    <3>2. /\ DOMAIN events' = DOMAIN events \cup {Len(events) + 1}
          /\ \A i \in DOMAIN events : events'[i] = events[i]
          /\ events'[Len(events) + 1] = e
      BY <1>4, <1>5, <2>1, <3>1, AppendOnce
    <3>3. /\ DOMAIN Append(EventLines, <<f, at>>) = DOMAIN events \cup {Len(events) + 1}
          /\ \A i \in DOMAIN events :
               Append(EventLines, <<f, at>>)[i] = <<events[i].file, events[i].no>>
          /\ Append(EventLines, <<f, at>>)[Len(events) + 1] = <<f, at>>
      <4>1. DOMAIN EventLines = DOMAIN events
        BY DEF EventLines
      <4>2. \A i \in DOMAIN events : EventLines[i] = <<events[i].file, events[i].no>>
        BY DEF EventLines
      <4>3. QED
        BY <1>5, <1>7, <4>1, <4>2, AppendOnce
    <3>4. /\ DOMAIN EventLines' = DOMAIN events \cup {Len(events) + 1}
          /\ \A i \in DOMAIN events : EventLines'[i] = <<events[i].file, events[i].no>>
          /\ EventLines'[Len(events) + 1] = <<f, at>>
      BY <3>2 DEF EventLines
    <3>5. EventLines' = Append(EventLines, <<f, at>>)
      <4>1. Append(EventLines, <<f, at>>) \in Seq(Numbered)
        BY <1>5, <1>7, AppendOnce
      <4>2. Append(EventLines, <<f, at>>) =
              [i \in DOMAIN events \cup {Len(events) + 1} |->
                 Append(EventLines, <<f, at>>)[i]]
        BY <3>3, <4>1, SeqDef
      <4>3. EventLines' = [i \in DOMAIN events \cup {Len(events) + 1} |-> EventLines'[i]]
        BY <3>4 DEF EventLines
      <4>4. \A i \in DOMAIN events \cup {Len(events) + 1} :
              EventLines'[i] = Append(EventLines, <<f, at>>)[i]
        BY <3>3, <3>4
      <4>5. QED
        BY <4>2, <4>3, <4>4, Zenon
    <3>6. QED
      BY <1>2, <2>1, <3>5
  <2>2. CASE date = NoDate
    BY <1>2, <2>2 DEF EventLines
  <2>3. QED
    BY <2>1, <2>2
<1>9. f \in Waiting /\ Through(f) = at - 1 /\ \A g \in Files : Current(g) => g = f
  <2>1. files \in Seq(Files) /\ pending \in Seq(Files)
    BY DEF TypeOK
  <2>2. f \in Waiting
    BY <2>1, TailOfOnce DEF Current, Waiting, FilesInv
  <2>3. QED
    BY <2>2 DEF Through, Current
<1>10. <<f, at>> \notin DoneLines
  BY <1>1, <1>9 DEF LineInv
<1>11. DoneLines' = DoneLines \cup {<<f, at>>}
  <2>1. ToSet(Append(EventLines, <<f, at>>)) = ToSet(EventLines) \cup {<<f, at>>}
    BY <1>5, <1>7, AppendOnce
  <2>2. ToSet(Append(failures, <<f, at>>)) = ToSet(failures) \cup {<<f, at>>}
    BY <1>4, <1>5, AppendOnce
  <2>3. QED
    BY <1>8, <2>1, <2>2 DEF DoneLines
<1>12. TypeOK'
  <2>1. events' \in Seq(Event) /\ failures' \in Seq(Numbered)
    <3>1. date # NoDate => Append(events, e) \in Seq(Event)
      BY <1>4, <1>5, AppendOnce
    <3>2. Append(failures, <<f, at>>) \in Seq(Numbered)
      BY <1>4, <1>5, AppendOnce
    <3>3. QED
      BY <1>2, <1>4, <3>1, <3>2
  <2>2. \A x \in ToSet(events)' : IsDate(x.date.month, x.date.day, x.date.year)
    <3>1. \A x \in ToSet(events) : IsDate(x.date.month, x.date.day, x.date.year)
      BY DEF TypeOK
    <3>2. date # NoDate => ToSet(Append(events, e)) = ToSet(events) \cup {e}
      BY <1>4, <1>5, AppendOnce
    <3>3. QED
      BY <1>2, <1>3, <3>1, <3>2 DEF ToSet
  <2>3. at' \in Nat \ {0}
    BY <1>1
  <2>4. /\ fmt' \in Formats /\ content' \in [Files -> Contents]
        /\ files' \in Seq(Files) /\ pending' \in Seq(Files)
        /\ stage' \in {"read", "auth", "done", "error"}
    BY DEF TypeOK
  <2>5. \/ reference' = NoDate
        \/ /\ reference' \in Dates
           /\ IsDate(reference'.month, reference'.day, reference'.year)
    BY Zenon DEF TypeOK
  <2>6. QED
    BY <2>1, <2>2, <2>3, <2>4, <2>5 DEF TypeOK, Event
<1>13. AtInv'
  <2>1. Current(f)' /\ at' <= Len(content'[f]) + 1 /\ (stage' = "read" => Web(f)')
    BY <1>1 DEF Current, Web, Resolve, Readable
  <2>2. QED
    BY <2>1 DEF AtInv
<1>14. LineInv'
  <2>1. Through(f)' = at /\ \A g \in Files : g # f => Through(g)' = Through(g)
    BY <1>1, <1>9 DEF Through, Current, Waiting
  <2>2. ASSUME NEW g \in Files, NEW i \in Nat \ {0}
        PROVE  <<g, i>> \in DoneLines' <=> i <= Through(g)'
    <3>1. CASE g # f
      BY <1>11, <2>1, <3>1 DEF LineInv
    <3>2. CASE g = f
      <4>1. i <= at <=> i <= at - 1 \/ i = at
        BY <1>1
      <4>2. <<g, i>> \in DoneLines <=> i <= at - 1
        BY <1>9, <3>2 DEF LineInv
      <4>3. QED
        BY <1>11, <2>1, <3>2, <4>1, <4>2
    <3>3. QED
      BY <3>1, <3>2
  <2>3. QED
    BY <2>2 DEF LineInv
<1>15. OnceInv'
  <2>1. <<f, at>> \notin ToSet(EventLines) /\ <<f, at>> \notin ToSet(failures)
    BY <1>10 DEF DoneLines
  <2>2. CASE date # NoDate
    <3>1. Once(EventLines)' /\ ToSet(EventLines)' = ToSet(EventLines) \cup {<<f, at>>}
      <4>1. Once(Append(EventLines, <<f, at>>))
        BY <1>5, <1>7, <2>1, AppendOnce DEF OnceInv
      <4>2. ToSet(Append(EventLines, <<f, at>>)) = ToSet(EventLines) \cup {<<f, at>>}
        BY <1>5, <1>7, AppendOnce
      <4>3. EventLines' = Append(EventLines, <<f, at>>)
        BY <1>8, <2>2
      <4>4. QED
        BY <4>1, <4>2, <4>3 DEF Once, ToSet
    <3>2. failures' = failures /\ Once(failures)
          /\ ToSet(EventLines) \cap ToSet(failures) = {}
      BY <1>8, <2>2 DEF OnceInv
    <3>3. Once(failures)' /\ ToSet(failures)' = ToSet(failures)
      BY <3>2 DEF Once, ToSet
    <3>4. QED
      BY <2>1, <3>1, <3>2, <3>3 DEF OnceInv
  <2>3. CASE date = NoDate
    <3>1. Once(failures)' /\ ToSet(failures)' = ToSet(failures) \cup {<<f, at>>}
      <4>1. Once(Append(failures, <<f, at>>))
        BY <1>4, <1>5, <2>1, AppendOnce DEF OnceInv
      <4>2. ToSet(Append(failures, <<f, at>>)) = ToSet(failures) \cup {<<f, at>>}
        BY <1>4, <1>5, AppendOnce
      <4>3. failures' = Append(failures, <<f, at>>)
        BY <1>8, <2>3
      <4>4. QED
        BY <4>1, <4>2, <4>3 DEF Once, ToSet
    <3>2. EventLines' = EventLines
      BY <1>8, <2>3
    <3>3. Once(EventLines)' /\ ToSet(EventLines)' = ToSet(EventLines)
      BY <3>2 DEF OnceInv, Once, ToSet
    <3>4. QED
      BY <2>1, <3>1, <3>3 DEF OnceInv
  <2>4. QED
    BY <2>2, <2>3
<1>16. DateInv'
  <2>1. date = DateOf(Resolve(f), content[f][at], reference)
    BY <1>1 DEF date
  <2>2. (stage = "read" => \A id \in DoneLines : Web(id[1]))'
    BY <1>11 DEF DateInv, Web, Resolve, Readable
  <2>3. ASSUME NEW i \in DOMAIN events'
        PROVE  events'[i].date
                 = DateOf(Resolve(events'[i].file), content[events'[i].file][events'[i].no], reference)
    <3>1. CASE date # NoDate /\ i = Len(events) + 1
      <4>1. events'[i] = e
        BY <1>2, <1>4, <1>5, <3>1, AppendOnce
      <4>2. QED
        BY <2>1, <4>1
    <3>2. CASE date = NoDate \/ i # Len(events) + 1
      <4>1. i \in DOMAIN events /\ events'[i] = events[i]
        BY <1>2, <1>4, <1>5, <3>2, AppendOnce
      <4>2. QED
        BY <4>1 DEF DateInv
    <3>3. QED
      BY <3>1, <3>2
  <2>4. ASSUME NEW i \in DOMAIN failures'
        PROVE  DateOf(Resolve(failures'[i][1]), content[failures'[i][1]][failures'[i][2]], reference)
                 = NoDate
    <3> DEFINE more == Append(failures, <<f, at>>)
    <3>0. /\ DOMAIN more = DOMAIN failures \cup {Len(failures) + 1}
          /\ \A j \in DOMAIN failures : more[j] = failures[j]
          /\ more[Len(failures) + 1] = <<f, at>>
      BY <1>4, <1>5, AppendOnce
    <3> HIDE DEF more
    <3>1. CASE date = NoDate /\ i = Len(failures) + 1
      <4>1. failures'[i] = <<f, at>>
        BY <1>2, <3>0, <3>1 DEF more
      <4>2. failures'[i][1] = f /\ failures'[i][2] = at
        BY <4>1
      <4>3. QED
        BY <2>1, <3>1, <4>2
    <3>2. CASE date # NoDate \/ i # Len(failures) + 1
      <4>1. i \in DOMAIN failures /\ failures'[i] = failures[i]
        BY <1>2, <3>0, <3>2 DEF more
      <4>2. QED
        BY <4>1 DEF DateInv
    <3>3. QED
      BY <3>1, <3>2
  <2>5. \A g : Resolve(g)' = Resolve(g)
    BY DEF Resolve, Readable
  <2>6. QED
    BY <2>2, <2>3, <2>4, <2>5 DEF DateInv
<1>17. QED
  BY <1>12, <1>13, <1>14, <1>15, <1>16

\* At the end of a file that is under way all of its lines have been parsed,
\* and none of the file whose turn it is now.
LEMMA ParsedAllKeeps ==
  ASSUME TypeOK, FilesInv, AtInv, LineInv, OnceInv, DateInv,
         NEW f \in Files, Current(f), Resolve(f) \in {"apache", "syslog"},
         ParsedAll(f), stage # "error",
         UNCHANGED <<fmt, content, reference, stage>>,
         f \notin ToSet(files)', f \notin ToSet(pending)',
         \A g \in Files : g # f => g \in Waiting' <=> g \in Waiting
  PROVE  AtInv' /\ LineInv' /\ OnceInv' /\ DateInv'
<1>1. /\ at \in Nat \ {0} /\ Len(content[f]) \in Nat
      /\ at > Len(content[f]) /\ at' = 1 /\ events' = events /\ failures' = failures
  BY ReadableContent DEF ParsedAll, TypeOK
<1>2. f \in Waiting /\ \A g \in Files : Current(g) => g = f
  <2>1. files \in Seq(Files) /\ pending \in Seq(Files)
    BY DEF TypeOK
  <2>2. f \in Waiting
    BY <2>1, TailOfOnce DEF Current, Waiting, FilesInv
  <2>3. QED
    BY <2>2 DEF Current
<1>3. at - 1 = Len(content[f])
  BY <1>1, <1>2 DEF AtInv
<1>4. ASSUME NEW g \in Files PROVE Through(g)' = Through(g)
  <2>1. CASE g = f
    <3>1. f \notin Waiting'
      BY DEF Waiting
    <3>2. Through(f)' = Len(content[f])
      BY <3>1 DEF Through
    <3>3. Through(f) = at - 1
      BY <1>2 DEF Through
    <3>4. QED
      BY <1>3, <2>1, <3>2, <3>3
  <2>2. CASE g # f /\ g \notin Waiting
    BY <2>2 DEF Through
  <2>3. CASE g # f /\ g \in Waiting
    <3>1. Through(g) = 0
      BY <1>2, <2>3 DEF Through
    <3>2. Through(g)' = 0
      BY <1>1, <2>3 DEF Through
    <3>3. QED
      BY <3>1, <3>2
  <2>4. QED
    BY <2>1, <2>2, <2>3
<1>5. EventLines' = EventLines /\ DoneLines' = DoneLines
  BY <1>1 DEF EventLines, DoneLines, ToSet
<1>6. AtInv'
  BY <1>1 DEF AtInv
<1>7. LineInv'
  BY <1>4, <1>5 DEF LineInv
<1>8. OnceInv'
  BY <1>1, <1>5, OnceKept
<1>9. DateInv'
  BY <1>1, <1>5 DEF DateInv, Web, Resolve, Readable
<1>10. QED
  BY <1>6, <1>7, <1>8, <1>9

LEMMA InitKeeps ==
  ASSUME Init
  PROVE  EngineInv
<1> DEFINE n == Cardinality(Files)
<1>1. /\ n \in Nat /\ files \in [1..n -> Files] /\ ToSet(files) = Files
      /\ pending = <<>> /\ events = <<>> /\ failures = <<>> /\ at = 1 /\ stage = "read"
  BY FilesAssumption, FS_CardinalityType DEF Init, Orders
<1>2. files \in Seq(Files) /\ DOMAIN files = 1..n
  BY <1>1, SeqDef
<1>3. Once(files)
  <2>1. IsFiniteSet(1..n) /\ Cardinality(1..n) = n
    <3>1. 1..n = 1..n /\ 0 \in Int /\ 1 \in Int /\ n \in Int
      BY <1>1
    <3>2. QED
      BY <1>1, <3>1, FS_Interval
  <2>2. files \in Surjection(1..n, Files)
    BY <1>1 DEF Surjection, ToSet
  <2>3. files \in Injection(1..n, Files)
    BY <2>1, <2>2, FilesAssumption, FS_SurjSameCardinalityImpliesInj
  <2>4. QED
    BY <1>2, <2>3 DEF Injection, IsInjective, Once
<1>4. TypeOK
  <2>1. events \in Seq([file : Files, no : Nat \ {0}, date : Calendar])
    BY <1>1
  <2>2. failures \in Seq(Numbered) /\ pending \in Seq(Files) /\ ToSet(events) = {}
    BY <1>1 DEF ToSet
  <2>3. QED
    BY <1>1, <1>2, <2>1, <2>2 DEF TypeOK, Init
<1>5. ToSet(pending) = {} /\ EventLines = <<>> /\ DoneLines = {}
  BY <1>1 DEF ToSet, EventLines, DoneLines
<1>6. \A f \in Files : Through(f) = 0
  BY <1>1 DEF Through, Waiting
<1>7. FilesInv /\ AtInv
  BY <1>1, <1>3, <1>5 DEF FilesInv, AtInv, Once, ToSet, Waiting
<1>8. LineInv
  BY <1>5, <1>6 DEF LineInv
<1>9. OnceInv /\ DateInv /\ RefInv
  BY <1>1, <1>5 DEF OnceInv, DateInv, RefInv, Once, ToSet
<1>10. QED
  BY <1>4, <1>7, <1>8, <1>9 DEF EngineInv

LEMMA FailKeeps ==
  ASSUME EngineInv, NEW f \in Files, Fail(f)
  PROVE  EngineInv'
<1>1. TypeOK'
  BY DEF EngineInv, TypeOK, Fail, ToSet
<1>2. QED
  BY <1>1 DEF EngineInv, Fail

LEMMA DeferKeeps ==
  ASSUME EngineInv, NEW f \in Files, Defer(f)
  PROVE  EngineInv'
<1>1. /\ TypeOK /\ FilesInv /\ AtInv /\ LineInv /\ OnceInv /\ DateInv /\ RefInv
      /\ stage = "read" /\ files # <<>> /\ f = Head(files) /\ Resolve(f) = "syslog"
      /\ pending' = Append(pending, f) /\ files' = Tail(files)
      /\ UNCHANGED <<fmt, content, at, events, failures, reference, stage>>
  BY DEF EngineInv, Defer, Next1
<1>2. /\ files \in Seq(Files) /\ pending \in Seq(Files)
      /\ Once(files) /\ Once(pending) /\ ToSet(files) \cap ToSet(pending) = {}
  BY <1>1 DEF TypeOK, FilesInv
<1>3. /\ files' \in Seq(Files) /\ Once(files)' /\ f \in ToSet(files)
      /\ ToSet(files) = {f} \cup ToSet(files)' /\ f \notin ToSet(files)'
  <2>1. /\ Tail(files) \in Seq(Files) /\ Once(Tail(files)) /\ f \in ToSet(files)
        /\ ToSet(files) = {f} \cup ToSet(Tail(files)) /\ f \notin ToSet(Tail(files))
    BY <1>1, <1>2, TailOfOnce
  <2>2. QED
    BY <1>1, <2>1 DEF Once, ToSet
<1>4. /\ pending' \in Seq(Files) /\ ToSet(pending)' = ToSet(pending) \cup {f}
      /\ Once(pending)'
  <2>1. f \notin ToSet(pending)
    BY <1>2, <1>3
  <2>2. QED
    BY <1>1, <1>2, <2>1, AppendOnce DEF Once, ToSet
<1>5. Waiting' = Waiting
  BY <1>3, <1>4 DEF Waiting
<1>6. \A g : Resolve(g)' = Resolve(g) /\ Web(g)' = Web(g)
  BY <1>1 DEF Resolve, Readable, Web
<1>7. at = 1
  <2>1. ~Web(f)
    BY <1>1 DEF Web
  <2>2. QED
    BY <1>1, <2>1 DEF AtInv, Current, TypeOK
<1>8. \A g \in Files : Through(g)' = Through(g)
  BY <1>1, <1>5, <1>7 DEF Through
<1>9. DoneLines' = DoneLines /\ EventLines' = EventLines
  BY <1>1 DEF DoneLines, EventLines, ToSet
<1>10. TypeOK'
  BY <1>1, <1>3, <1>4 DEF TypeOK, ToSet
<1>11. FilesInv'
  <2>1. (Once(files) /\ Once(pending) /\ ToSet(files) \cap ToSet(pending) = {})'
    BY <1>2, <1>3, <1>4
  <2>2. (\A g \in Files : g \notin ToSet(files) => Resolve(g) \in {"apache", "syslog"})'
    BY <1>1, <1>3, <1>6 DEF FilesInv
  <2>3. (\A g \in ToSet(pending) : Resolve(g) = "syslog")'
    BY <1>1, <1>4, <1>6 DEF FilesInv
  <2>4. (stage = "read" => \A g \in Files : g \notin Waiting => Web(g))'
    BY <1>1, <1>5, <1>6 DEF FilesInv
  <2>5. QED
    BY <1>1, <2>1, <2>2, <2>3, <2>4 DEF FilesInv
<1>12. AtInv' /\ RefInv'
  BY <1>1, <1>7 DEF AtInv, RefInv
<1>13. LineInv'
  BY <1>1, <1>8, <1>9 DEF LineInv
<1>14. OnceInv'
  BY <1>1, <1>9, OnceKept
<1>15. DateInv'
  BY <1>1, <1>6, <1>9 DEF DateInv
<1>16. QED
  BY <1>10, <1>11, <1>12, <1>13, <1>14, <1>15 DEF EngineInv

LEMMA ParseWebKeeps ==
  ASSUME EngineInv, NEW f \in Files, ParseWeb(f)
  PROVE  EngineInv'
<1>1. /\ TypeOK /\ FilesInv /\ AtInv /\ LineInv /\ OnceInv /\ DateInv /\ RefInv
      /\ stage = "read" /\ files # <<>> /\ f = Head(files) /\ Resolve(f) = "apache"
      /\ UNCHANGED <<fmt, content, pending, reference, stage>>
  BY DEF EngineInv, ParseWeb, Next1
<1>2. Current(f) /\ Web(f)
  BY <1>1 DEF Current, Web
<1>3. \A g : Resolve(g)' = Resolve(g) /\ Web(g)' = Web(g)
  BY <1>1 DEF Resolve, Readable, Web
<1>4. RefInv'
  BY <1>1 DEF RefInv
<1>5. CASE ParseLine("apache", f, NoDate) /\ UNCHANGED files
  <2>1. \A line \in Line : DateOf("apache", line, NoDate) = DateOf("apache", line, reference)
    BY WebDateIsItsOwn
  <2>2. TypeOK' /\ AtInv' /\ LineInv' /\ OnceInv' /\ DateInv'
    BY <1>1, <1>2, <1>5, <2>1, ParseLineKeeps, NoDateType
  <2>3. FilesInv'
    BY <1>1, <1>3, <1>5 DEF FilesInv, Once, ToSet, Waiting
  <2>4. QED
    BY <1>1, <1>4, <2>2, <2>3 DEF EngineInv
<1>6. CASE ParsedAll(f) /\ files' = Tail(files)
  <2>1. /\ files \in Seq(Files) /\ pending \in Seq(Files)
        /\ Once(files) /\ Once(pending) /\ ToSet(files) \cap ToSet(pending) = {}
    BY <1>1 DEF TypeOK, FilesInv
  <2>2. /\ files' \in Seq(Files) /\ Once(files)' /\ f \in ToSet(files)
        /\ ToSet(files) = {f} \cup ToSet(files)' /\ f \notin ToSet(files)'
    <3>1. /\ Tail(files) \in Seq(Files) /\ Once(Tail(files)) /\ f \in ToSet(files)
          /\ ToSet(files) = {f} \cup ToSet(Tail(files)) /\ f \notin ToSet(Tail(files))
      BY <1>1, <2>1, TailOfOnce
    <3>2. QED
      BY <1>6, <3>1 DEF Once, ToSet
  <2>3. /\ ToSet(pending)' = ToSet(pending) /\ f \notin ToSet(pending)'
        /\ \A g \in Files : g # f => g \in Waiting' <=> g \in Waiting
    BY <1>1, <2>1, <2>2 DEF Waiting, ToSet
  <2>4. AtInv' /\ LineInv' /\ OnceInv' /\ DateInv'
    BY <1>1, <1>2, <1>6, <2>2, <2>3, ParsedAllKeeps
  <2>5. at' = 1 /\ UNCHANGED <<events, failures>>
    BY <1>6 DEF ParsedAll
  <2>6. TypeOK'
    BY <1>1, <2>2, <2>5 DEF TypeOK, ToSet
  <2>7. FilesInv'
    <3>1. (Once(files) /\ Once(pending) /\ ToSet(files) \cap ToSet(pending) = {})'
      BY <1>1, <2>1, <2>2, <2>3 DEF Once
    <3>2. (\A g \in Files : g \notin ToSet(files) => Resolve(g) \in {"apache", "syslog"})'
      BY <1>1, <1>3, <2>2 DEF FilesInv
    <3>3. (\A g \in ToSet(pending) : Resolve(g) = "syslog")'
      BY <1>1, <1>3, <2>3 DEF FilesInv
    <3>4. (stage = "read" => \A g \in Files : g \notin Waiting => Web(g))'
      BY <1>1, <1>2, <1>3, <2>3 DEF FilesInv
    <3>5. QED
      BY <1>1, <3>1, <3>2, <3>3, <3>4 DEF FilesInv
  <2>8. QED
    BY <1>4, <2>4, <2>6, <2>7 DEF EngineInv
<1>7. QED
  BY <1>1, <1>5, <1>6 DEF ParseWeb

\* What the syslog lines are resolved by is a day of the calendar.
LEMMA BasisIsReference ==
  ASSUME TypeOK, FilesInv, RefInv, stage \in {"auth", "done"},
         NEW f \in Files, ~Web(f)
  PROVE  /\ reference = Basis /\ reference \in Dates
         /\ IsReference(reference) /\ reference \in Calendar
<1>1. reference = Basis /\ reference # NoDate
  BY DEF RefInv
<1>2. /\ reference \in Dates
      /\ IsDate(reference.month, reference.day, reference.year)
  BY <1>1 DEF TypeOK
<1>3. reference \in Calendar /\ reference.year > YearSearchDepth
  BY <1>2 DEF Dates
<1>4. reference.month \in 1..12 /\ reference.day \in 1..31
  BY <1>2, <1>3 DEF IsDate, MonthDays, Calendar
<1>5. reference \in [year : Nat, month : 1..12, day : 1..31]
  BY <1>3, <1>4 DEF Calendar
<1>6. QED
  BY <1>1, <1>2, <1>3, <1>5 DEF IsReference

LEMMA ParseAuthKeeps ==
  ASSUME EngineInv, ParseAuth
  PROVE  EngineInv'
<1> DEFINE f == Head(pending)
<1>1. /\ TypeOK /\ FilesInv /\ AtInv /\ LineInv /\ OnceInv /\ DateInv /\ RefInv
      /\ stage = "auth" /\ pending # <<>>
      /\ UNCHANGED <<fmt, content, files, reference, stage>>
  BY DEF EngineInv, ParseAuth
<1>2. /\ files = <<>> /\ ToSet(files) = {}
      /\ pending \in Seq(Files) /\ Once(pending)
      /\ f \in Files /\ f \in ToSet(pending) /\ Resolve(f) = "syslog"
  <2>1. pending \in Seq(Files) /\ Once(pending) /\ files = <<>>
    BY <1>1 DEF TypeOK, FilesInv
  <2>2. f \in Files /\ f \in ToSet(pending)
    BY <1>1, <2>1, TailOfOnce
  <2>3. QED
    BY <1>1, <2>1, <2>2 DEF FilesInv, ToSet
<1> HIDE DEF f
<1>3. Current(f)
  BY <1>1 DEF Current, f
<1>4. \A g : Resolve(g)' = Resolve(g) /\ Web(g)' = Web(g)
  BY <1>1 DEF Resolve, Readable, Web
<1>5. reference \in Calendar
  <2>1. ~Web(f)
    BY <1>2 DEF Web
  <2>2. QED
    BY <1>1, <1>2, <2>1, BasisIsReference
<1>6. RefInv'
  <2>1. Lines' = Lines
    BY <1>1 DEF Lines, Readable
  <2>2. WebDates' = WebDates
    BY <1>1, <1>4, <2>1 DEF WebDates
  <2>3. Basis' = Basis
    BY <2>2 DEF Basis
  <2>4. QED
    BY <1>1, <1>4, <2>3 DEF RefInv
<1>7. CASE ParseLine("syslog", f, reference) /\ UNCHANGED pending
  <2>1. TypeOK' /\ AtInv' /\ LineInv' /\ OnceInv' /\ DateInv'
    BY <1>1, <1>2, <1>3, <1>5, <1>7, ParseLineKeeps
  <2>2. FilesInv'
    BY <1>1, <1>4, <1>7 DEF FilesInv, Once, ToSet, Waiting
  <2>3. QED
    BY <1>6, <2>1, <2>2 DEF EngineInv
<1>8. CASE ParsedAll(f) /\ pending' = Tail(pending)
  <2>1. /\ pending' \in Seq(Files) /\ Once(pending)'
        /\ ToSet(pending) = {f} \cup ToSet(pending)' /\ f \notin ToSet(pending)'
    <3>1. /\ Tail(pending) \in Seq(Files) /\ Once(Tail(pending))
          /\ ToSet(pending) = {f} \cup ToSet(Tail(pending)) /\ f \notin ToSet(Tail(pending))
      BY <1>1, <1>2, TailOfOnce DEF f
    <3>2. QED
      BY <1>8, <3>1 DEF Once, ToSet
  <2>2. /\ ToSet(files)' = {} /\ f \notin ToSet(files)'
        /\ \A g \in Files : g # f => g \in Waiting' <=> g \in Waiting
    <3>1. ToSet(files)' = ToSet(files)
      BY <1>1 DEF ToSet
    <3>2. QED
      BY <1>2, <2>1, <3>1 DEF Waiting
  <2>3. AtInv' /\ LineInv' /\ OnceInv' /\ DateInv'
    BY <1>1, <1>2, <1>3, <1>8, <2>1, <2>2, ParsedAllKeeps
  <2>4. at' = 1 /\ UNCHANGED <<events, failures>>
    BY <1>8 DEF ParsedAll
  <2>5. TypeOK'
    BY <1>1, <2>1, <2>4 DEF TypeOK, ToSet
  <2>6. FilesInv'
    <3>1. (Once(files) /\ Once(pending) /\ ToSet(files) \cap ToSet(pending) = {})'
      BY <1>1, <1>2, <2>1, <2>2 DEF Once
    <3>2. (\A g \in Files : g \notin ToSet(files) => Resolve(g) \in {"apache", "syslog"})'
      BY <1>1, <1>2, <1>4 DEF FilesInv
    <3>3. (\A g \in ToSet(pending) : Resolve(g) = "syslog")'
      BY <1>1, <1>4, <2>1 DEF FilesInv
    <3>4. QED
      BY <1>1, <1>2, <3>1, <3>2, <3>3 DEF FilesInv
  <2>7. QED
    BY <1>6, <2>3, <2>5, <2>6 DEF EngineInv
<1>9. QED
  BY <1>1, <1>7, <1>8 DEF ParseAuth, f

\* Once every file has been looked at, the dates of the web events are those
\* of all web lines that there are, in whatever order they were read.
LEMMA WebEventsAreAll ==
  ASSUME TypeOK, FilesInv, LineInv, DateInv, stage = "read", files = <<>>
  PROVE  WebDates = {x.date : x \in ToSet(events)}
<1> DEFINE Own(l) == content[l[1]][l[2]]
           Good(l) == /\ Matches("apache", Own(l))
                      /\ IsDate(Own(l).date.month, Own(l).date.day, Own(l).date.year)
<1>1. events \in Seq([file : Files, no : Nat \ {0}, date : Calendar])
  BY DEF TypeOK
<1>2. \A g \in Files : Web(g) => /\ Through(g) = Len(content[g])
                                 /\ Readable(g) /\ Len(content[g]) \in Nat
                                 /\ \A i \in 1..Len(content[g]) : content[g][i] \in Line
  <2> SUFFICES ASSUME NEW g \in Files, Web(g)
               PROVE  /\ Through(g) = Len(content[g])
                      /\ Readable(g) /\ Len(content[g]) \in Nat
                      /\ \A i \in 1..Len(content[g]) : content[g][i] \in Line
    OBVIOUS
  <2>1. g \notin Waiting
    BY DEF FilesInv, Web, Waiting, ToSet
  <2>2. QED
    BY <2>1, ReadableContent DEF Through, Web
<1>3. ASSUME NEW l \in Lines, Web(l[1]), Good(l)
      PROVE  \E x \in ToSet(events) : x.date = Own(l).date
  <2>1. PICK g \in Files : Readable(g) /\ l \in {g} \X (1..Len(content[g]))
    BY DEF Lines
  <2>2. PICK i \in 1..Len(content[g]) : l = <<g, i>>
    BY <2>1
  <2>3. Web(g) /\ content[g][i] \in Line /\ i \in Nat \ {0} /\ i <= Through(g)
    BY <1>2, <1>3, <2>2
  <2>4. <<g, i>> \in DoneLines
    BY <2>3 DEF LineInv
  <2>5. DateOf(Resolve(g), content[g][i], reference) = Own(l).date
        /\ DateOf(Resolve(g), content[g][i], reference) # NoDate
    BY <1>3, <2>2, <2>3, WebDateIsItsOwn DEF Web
  <2>6. <<g, i>> \notin ToSet(failures)
    <3>1. SUFFICES ASSUME NEW k \in DOMAIN failures, failures[k] = <<g, i>> PROVE FALSE
      BY DEF ToSet
    <3>2. failures[k][1] = g /\ failures[k][2] = i
      BY <3>1
    <3>3. QED
      BY <2>5, <3>2 DEF DateInv
  <2>7. PICK k \in DOMAIN events : <<events[k].file, events[k].no>> = <<g, i>>
    BY <2>4, <2>6 DEF DoneLines, ToSet, EventLines
  <2>8. events[k].file = g /\ events[k].no = i
    BY <2>7
  <2>9. events[k].date = Own(l).date
    BY <2>5, <2>8 DEF DateInv
  <2>10. QED
    BY <2>9 DEF ToSet
<1>4. ASSUME NEW x \in ToSet(events)
      PROVE  \E l \in Lines : Web(l[1]) /\ Good(l) /\ x.date = Own(l).date
  <2>1. PICK k \in DOMAIN events : x = events[k]
    BY DEF ToSet
  <2>2. x.file \in Files /\ x.no \in Nat \ {0}
    BY <2>1, EventTypes
  <2>3. <<x.file, x.no>> \in DoneLines
    BY <2>1 DEF DoneLines, ToSet, EventLines
  <2>4. Web(x.file)
    BY <2>3 DEF DateInv
  <2>5. x.no \in 1..Len(content[x.file]) /\ content[x.file][x.no] \in Line
    <3>1. x.no <= Through(x.file)
      BY <2>2, <2>3 DEF LineInv
    <3>2. Through(x.file) = Len(content[x.file]) /\ Len(content[x.file]) \in Nat
      BY <1>2, <2>2, <2>4
    <3>3. x.no \in 1..Len(content[x.file])
      BY <2>2, <3>1, <3>2
    <3>4. QED
      BY <1>2, <2>2, <2>4, <3>3
  <2>6. x.date = DateOf(Resolve(x.file), content[x.file][x.no], reference)
    BY <2>1 DEF DateInv
  <2>7. x.date # NoDate
    <3>1. IsDate(x.date.month, x.date.day, x.date.year)
      BY DEF TypeOK
    <3>2. QED
      BY <3>1 DEF IsDate, NoDate, NoYear
  <2>8. /\ Matches("apache", content[x.file][x.no]) /\ x.date = content[x.file][x.no].date
        /\ LET d == content[x.file][x.no].date IN IsDate(d.month, d.day, d.year)
    BY <2>4, <2>5, <2>6, <2>7, WebDateIsItsOwn DEF Web
  <2>9. <<x.file, x.no>> \in Lines
    BY <1>2, <2>2, <2>4, <2>5 DEF Lines
  <2>10. Web(<<x.file, x.no>>[1]) /\ Good(<<x.file, x.no>>)
         /\ x.date = Own(<<x.file, x.no>>).date
    BY <2>4, <2>8
  <2>11. QED
    BY <2>9, <2>10
<1>5. WebDates = {Own(l).date : l \in {m \in Lines : Web(m[1]) /\ Good(m)}}
  BY DEF WebDates
<1> HIDE DEF Own, Good
<1>6. \A d : d \in WebDates <=> \E l \in Lines : Web(l[1]) /\ Good(l) /\ d = Own(l).date
  BY <1>5
<1>7. \A d \in WebDates : d \in {e.date : e \in ToSet(events)}
  BY <1>3, <1>6
<1>8. \A x \in ToSet(events) : x.date \in WebDates
  BY <1>4, <1>6
<1>9. QED
  BY <1>7, <1>8

\* What _infer_reference() gives is one of the dates of the web events, or now.
LEMMA InferReferenceIsDate ==
  ASSUME TypeOK, FilesInv, LineInv, DateInv, stage = "read", files = <<>>
  PROVE  /\ InferReference = Basis /\ InferReference \in Dates
         /\ LET t == InferReference IN IsDate(t.month, t.day, t.year)
<1> DEFINE s == [i \in DOMAIN events |-> events[i].date]
<1>1. events \in Seq([file : Files, no : Nat \ {0}, date : Calendar])
  BY DEF TypeOK
<1>2. WebDates = {x.date : x \in ToSet(events)}
  BY WebEventsAreAll
<1>3. {x.date : x \in ToSet(events)} = {s[i] : i \in DOMAIN s}
  BY DEF ToSet
<1>4. CASE events = <<>>
  <2>1. WebDates = {}
    BY <1>2, <1>4 DEF ToSet
  <2>2. QED
    BY <1>4, <2>1, TodayAssumption DEF InferReference, Basis
<1>5. CASE events # <<>>
  <2>1. /\ Len(events) \in Nat /\ Len(events) # 0 /\ DOMAIN events = 1..Len(events)
        /\ \A i \in 1..Len(events) : events[i].date \in Calendar
    BY <1>1, <1>5, EventTypes, EmptySeq
  <2>2. s \in Seq(Calendar) /\ DOMAIN s = 1..Len(events) /\ s # <<>>
    <3>1. s \in Seq(Calendar) /\ DOMAIN s = 1..Len(events)
      BY <2>1, LenProperties
    <3>2. 1 \in DOMAIN s
      BY <2>1, <3>1
    <3>3. QED
      BY <3>1, <3>2
  <2>3. Latest({s[i] : i \in DOMAIN s}) \in {s[i] : i \in DOMAIN s}
    BY <2>2, LatestOfSeq
  <2>4. InferReference = Latest(WebDates) /\ InferReference \in WebDates
    BY <1>2, <1>3, <1>5, <2>3 DEF InferReference
  <2>5. InferReference = Basis
    BY <2>4 DEF Basis
  <2>6. ASSUME NEW t \in WebDates PROVE t \in Dates /\ IsDate(t.month, t.day, t.year)
    <3>1. PICK l \in Lines : Web(l[1]) /\ t = content[l[1]][l[2]].date
                             /\ IsDate(t.month, t.day, t.year)
      BY DEF WebDates
    <3>2. PICK g \in Files : l \in {g} \X (1..Len(content[g]))
      BY DEF Lines
    <3>3. l[1] = g /\ l[2] \in 1..Len(content[g])
      BY <3>2
    <3>4. content[l[1]][l[2]] \in Line
      BY <3>1, <3>3, ReadableContent DEF Web
    <3>5. QED
      BY <3>1, <3>4 DEF Line
  <2>7. QED
    BY <2>4, <2>5, <2>6
<1>6. QED
  BY <1>4, <1>5

LEMMA StartAuthKeeps ==
  ASSUME EngineInv, StartAuth
  PROVE  EngineInv'
<1>1. /\ TypeOK /\ FilesInv /\ AtInv /\ LineInv /\ OnceInv /\ DateInv
      /\ stage = "read" /\ files = <<>> /\ stage' = "auth"
      /\ reference' = IF pending = <<>> THEN reference ELSE InferReference
      /\ UNCHANGED <<fmt, content, files, at, pending, events, failures>>
  BY DEF EngineInv, StartAuth
<1>2. /\ InferReference = Basis /\ InferReference \in Dates
      /\ IsDate(InferReference.month, InferReference.day, InferReference.year)
  BY <1>1, InferReferenceIsDate
<1>3. \A g : Resolve(g)' = Resolve(g) /\ Web(g)' = Web(g)
  BY <1>1 DEF Resolve, Readable, Web
<1>4. Basis' = Basis
  <2>1. Lines' = Lines
    BY <1>1 DEF Lines, Readable
  <2>2. WebDates' = WebDates
    BY <1>1, <1>3, <2>1 DEF WebDates
  <2>3. QED
    BY <2>2 DEF Basis
<1>5. at = 1 /\ at' = 1
  BY <1>1 DEF AtInv, Current, TypeOK
<1>6. Waiting' = Waiting
  BY <1>1 DEF Waiting, ToSet
<1>7. \A g \in Files : Through(g)' = Through(g)
  BY <1>1, <1>5, <1>6 DEF Through
<1>8. DoneLines' = DoneLines /\ EventLines' = EventLines
  BY <1>1 DEF DoneLines, EventLines, ToSet
<1>9. TypeOK'
  <2>1. \/ reference' = NoDate
        \/ /\ reference' \in Dates
           /\ IsDate(reference'.month, reference'.day, reference'.year)
    BY <1>1, <1>2 DEF TypeOK
  <2>2. QED
    BY <1>1, <2>1 DEF TypeOK, ToSet
<1>10. FilesInv'
  BY <1>1, <1>3 DEF FilesInv, Once, ToSet
<1>11. AtInv'
  BY <1>5 DEF AtInv
<1>12. LineInv'
  BY <1>1, <1>7, <1>8 DEF LineInv
<1>13. OnceInv'
  BY <1>1, <1>8, OnceKept
<1>14. DateInv'
  <2>1. ASSUME NEW l \in DoneLines
        PROVE  DateOf(Resolve(l[1]), content[l[1]][l[2]], reference')
                 = DateOf(Resolve(l[1]), content[l[1]][l[2]], reference)
    <3>1. Web(l[1])
      BY <1>1 DEF DateInv
    <3>2. l[1] \in Files /\ l[2] \in Nat \ {0} /\ l = <<l[1], l[2]>>
      <4>1. \A i \in DOMAIN failures : failures[i] \in Numbered
        BY <1>1, ElementOfSeq, LenProperties DEF TypeOK
      <4>2. \A i \in DOMAIN EventLines : EventLines[i] \in Numbered
        BY <1>1, EventTypes DEF EventLines, Numbered
      <4>3. QED
        BY <4>1, <4>2 DEF DoneLines, ToSet, Numbered
    <3>3. l[2] <= Through(l[1])
      BY <1>1, <3>2 DEF LineInv
    <3>4. l[1] \notin Waiting
      BY <1>1, <3>1 DEF FilesInv, Web, Waiting, ToSet
    <3>5. content[l[1]][l[2]] \in Line
      BY <1>1, <3>1, <3>2, <3>3, <3>4, ReadableContent DEF Through, Web
    <3>6. QED
      BY <3>1, <3>5, WebDateIsItsOwn DEF Web
  <2>2. ASSUME NEW i \in DOMAIN events
        PROVE  events[i].date
                 = DateOf(Resolve(events[i].file), content[events[i].file][events[i].no], reference')
    <3>1. <<events[i].file, events[i].no>> \in DoneLines
      BY DEF DoneLines, EventLines, ToSet
    <3>2. QED
      BY <1>1, <2>1, <3>1 DEF DateInv
  <2>3. ASSUME NEW i \in DOMAIN failures
        PROVE  DateOf(Resolve(failures[i][1]), content[failures[i][1]][failures[i][2]], reference')
                 = NoDate
    <3>1. failures[i] \in DoneLines
      BY DEF DoneLines, ToSet
    <3>2. QED
      BY <1>1, <2>1, <3>1 DEF DateInv
  <2>4. QED
    BY <1>1, <1>3, <2>2, <2>3 DEF DateInv
<1>15. RefInv'
  <2>1. CASE pending = <<>>
    <3>1. \A g \in Files : g \notin Waiting
      BY <1>1, <2>1 DEF Waiting, ToSet
    <3>2. QED
      BY <1>1, <1>3, <3>1 DEF FilesInv, RefInv
  <2>2. CASE pending # <<>>
    <3>1. InferReference # NoDate
      BY <1>2 DEF IsDate, NoDate, NoYear
    <3>2. QED
      BY <1>1, <1>2, <1>4, <2>2, <3>1 DEF RefInv
  <2>3. QED
    BY <2>1, <2>2
<1>16. QED
  BY <1>9, <1>10, <1>11, <1>12, <1>13, <1>14, <1>15 DEF EngineInv

Reorders(p, s, t) ==
  /\ DOMAIN t = DOMAIN s
  /\ \A i \in DOMAIN s : p[i] \in DOMAIN s /\ t[i] = s[p[i]]
  /\ \A i, j \in DOMAIN s : p[i] = p[j] => i = j
  /\ \A k \in DOMAIN s : \E i \in DOMAIN s : p[i] = k

LEMMA Reordered ==
  ASSUME NEW s, NEW t, NEW p, Reorders(p, s, t)
  PROVE  ToSet(t) = ToSet(s) /\ (Once(s) => Once(t))
<1>1. ASSUME NEW i \in DOMAIN s PROVE s[i] \in ToSet(t)
  <2>1. PICK j \in DOMAIN s : p[j] = i
    BY DEF Reorders
  <2>2. j \in DOMAIN t /\ t[j] = s[i]
    BY <2>1 DEF Reorders
  <2>3. QED
    BY <2>2 DEF ToSet
<1>2. ASSUME NEW i \in DOMAIN t PROVE t[i] \in ToSet(s)
  <2>1. p[i] \in DOMAIN s /\ t[i] = s[p[i]]
    BY DEF Reorders
  <2>2. QED
    BY <2>1 DEF ToSet
<1>3. ASSUME Once(s) PROVE Once(t)
  <2> SUFFICES ASSUME NEW i \in DOMAIN t, NEW j \in DOMAIN t, t[i] = t[j] PROVE i = j
    BY DEF Once
  <2>1. /\ i \in DOMAIN s /\ j \in DOMAIN s /\ p[i] \in DOMAIN s /\ p[j] \in DOMAIN s
        /\ s[p[i]] = s[p[j]]
    BY DEF Reorders
  <2>2. p[i] = p[j]
    BY <1>3, <2>1 DEF Once
  <2>3. QED
    BY <2>1, <2>2 DEF Reorders
<1>4. ASSUME NEW x \in ToSet(s) PROVE x \in ToSet(t)
  <2>1. PICK i \in DOMAIN s : x = s[i]
    BY DEF ToSet
  <2>2. QED
    BY <1>1, <2>1
<1>5. ASSUME NEW x \in ToSet(t) PROVE x \in ToSet(s)
  <2>1. PICK i \in DOMAIN t : x = t[i]
    BY DEF ToSet
  <2>2. QED
    BY <1>2, <2>1
<1>6. QED
  BY <1>3, <1>4, <1>5

\* Sorting the events loses none and makes none.
LEMMA FinishKeeps ==
  ASSUME EngineInv, Finish
  PROVE  EngineInv'
<1>1. /\ TypeOK /\ FilesInv /\ AtInv /\ LineInv /\ OnceInv /\ DateInv /\ RefInv
      /\ stage = "auth" /\ pending = <<>> /\ stage' = "done"
      /\ UNCHANGED <<fmt, content, files, at, pending, failures, reference>>
  BY DEF EngineInv, Finish
<1>2. PICK p \in Reorderings(Len(events)) :
        events' = [i \in DOMAIN events |-> events[p[i]]]
  BY DEF Finish
<1>3. DOMAIN events = 1..Len(events) /\ Len(events) \in Nat
  BY <1>1, EventTypes
<1>4. /\ \A i \in DOMAIN events : p[i] \in DOMAIN events
      /\ \A i, j \in DOMAIN events : p[i] = p[j] => i = j
      /\ \A k \in DOMAIN events : \E i \in DOMAIN events : p[i] = k
  BY <1>2, <1>3 DEF Reorderings
<1>5. DOMAIN events' = DOMAIN events /\ \A i \in DOMAIN events : events'[i] = events[p[i]]
  BY <1>2
<1>6. ToSet(events)' = ToSet(events)
  <2>1. Reorders(p, events, events')
    BY <1>4, <1>5 DEF Reorders
  <2>2. ToSet(events') = ToSet(events)
    BY <2>1, Reordered
  <2>3. QED
    BY <2>2 DEF ToSet
<1>7. /\ DOMAIN EventLines = DOMAIN events /\ DOMAIN EventLines' = DOMAIN events
      /\ \A i \in DOMAIN events : EventLines'[i] = EventLines[p[i]]
  BY <1>4, <1>5 DEF EventLines
<1>8. /\ ToSet(EventLines)' = ToSet(EventLines) /\ DoneLines' = DoneLines
      /\ Once(EventLines)'
  <2>1. Reorders(p, EventLines, EventLines')
    BY <1>4, <1>7 DEF Reorders
  <2>2. ToSet(EventLines') = ToSet(EventLines) /\ Once(EventLines')
    BY <1>1, <2>1, Reordered DEF OnceInv
  <2>3. ToSet(EventLines)' = ToSet(EventLines) /\ Once(EventLines)'
    BY <2>2 DEF ToSet, Once
  <2>4. ToSet(failures)' = ToSet(failures)
    BY <1>1 DEF ToSet
  <2>5. QED
    BY <2>3, <2>4 DEF DoneLines
<1>9. \A g : Resolve(g)' = Resolve(g) /\ Web(g)' = Web(g)
  BY <1>1 DEF Resolve, Readable, Web
<1>10. files = <<>> /\ Waiting = {} /\ Waiting' = {}
  BY <1>1 DEF FilesInv, Waiting, ToSet
<1>11. at = 1
  BY <1>1 DEF AtInv, Current, TypeOK
<1>12. TypeOK'
  <2> DEFINE Event == [file : Files, no : Nat \ {0}, date : Calendar]
  <2>1. events \in Seq(Event)
    BY <1>1 DEF TypeOK
  <2> HIDE DEF Event
  <2>2. \A i \in 1..Len(events) : events[i] \in Event
    BY <1>3, <2>1, ElementOfSeq
  <2>3. events' \in Seq(Event)
    BY <1>2, <1>3, <1>4, <2>2, LenProperties
  <2>4. QED
    BY <1>1, <1>6, <2>3 DEF TypeOK, Event
<1>13. FilesInv'
  BY <1>1, <1>9, <1>10 DEF FilesInv, Once, ToSet
<1>14. AtInv'
  BY <1>1, <1>11 DEF AtInv
<1>15. LineInv'
  <2>1. \A g \in Files : Through(g)' = Through(g)
    BY <1>1, <1>10 DEF Through
  <2>2. QED
    BY <1>1, <1>8, <2>1 DEF LineInv
<1>16. OnceInv'
  <2>1. Once(EventLines)'
    BY <1>8
  <2>2. Once(failures)' /\ ToSet(failures)' = ToSet(failures)
    BY <1>1 DEF OnceInv, Once, ToSet
  <2>3. QED
    BY <1>1, <1>8, <2>1, <2>2 DEF OnceInv
<1>17. DateInv'
  <2>1. ASSUME NEW i \in DOMAIN events
        PROVE  events'[i].date = DateOf(Resolve(events'[i].file),
                                        content[events'[i].file][events'[i].no], reference)
    <3>1. p[i] \in DOMAIN events /\ events'[i] = events[p[i]]
      BY <1>4, <1>5
    <3>2. QED
      BY <1>1, <3>1 DEF DateInv
  <2>2. (\A i \in DOMAIN failures :
           DateOf(Resolve(failures[i][1]), content[failures[i][1]][failures[i][2]], reference)
             = NoDate)'
    BY <1>1, <1>9 DEF DateInv
  <2>3. QED
    BY <1>1, <1>5, <1>9, <2>1, <2>2 DEF DateInv
<1>18. RefInv'
  <2>1. Lines' = Lines
    BY <1>1 DEF Lines, Readable
  <2>2. WebDates' = WebDates
    BY <1>1, <1>9, <2>1 DEF WebDates
  <2>3. Basis' = Basis
    BY <2>2 DEF Basis
  <2>4. QED
    BY <1>1, <1>9, <2>3 DEF RefInv
<1>19. QED
  BY <1>12, <1>13, <1>14, <1>15, <1>16, <1>17, <1>18 DEF EngineInv

LEMMA EngineStep ==
  ASSUME EngineInv, [Next]_vars
  PROVE  EngineInv'
<1>1. CASE UNCHANGED vars
  <2>1. \A g : Resolve(g)' = Resolve(g) /\ Web(g)' = Web(g)
    BY <1>1 DEF Resolve, Readable, Web, vars
  <2>2. Basis' = Basis
    <3>1. Lines' = Lines
      BY <1>1 DEF Lines, Readable, vars
    <3>2. WebDates' = WebDates
      BY <1>1, <2>1, <3>1 DEF WebDates, vars
    <3>3. QED
      BY <3>2 DEF Basis
  <2>3. TypeOK'
    BY <1>1 DEF EngineInv, TypeOK, vars, ToSet
  <2>4. Waiting' = Waiting /\ EventLines' = EventLines /\ DoneLines' = DoneLines
    BY <1>1 DEF vars, Waiting, EventLines, DoneLines, ToSet
  <2>5. CASE stage # "error"
    <3>1. FilesInv /\ AtInv /\ LineInv /\ OnceInv /\ DateInv /\ RefInv
      BY <2>5 DEF EngineInv
    <3>2. FilesInv'
      BY <1>1, <2>1, <3>1 DEF FilesInv, vars, Once, ToSet, Waiting
    <3>3. AtInv'
      BY <1>1, <2>1, <3>1 DEF AtInv, Current, vars
    <3>4. LineInv'
      BY <1>1, <2>4, <3>1 DEF LineInv, Through, Current, vars
    <3>5. OnceInv'
      BY <1>1, <2>4, <3>1 DEF OnceInv, Once, ToSet, vars
    <3>6. DateInv'
      BY <1>1, <2>1, <2>4, <3>1 DEF DateInv, vars
    <3>7. RefInv'
      BY <1>1, <2>1, <2>2, <3>1 DEF RefInv, vars
    <3>8. QED
      BY <2>3, <3>2, <3>3, <3>4, <3>5, <3>6, <3>7 DEF EngineInv
  <2>6. CASE stage = "error"
    BY <1>1, <2>3, <2>6 DEF EngineInv, vars
  <2>7. QED
    BY <2>5, <2>6
<1>2. QED
  BY <1>1, FailKeeps, DeferKeeps, ParseWebKeeps, StartAuthKeeps, ParseAuthKeeps, FinishKeeps
     DEF Next

-----------------------------------------------------------------------------
(* The engine: its properties *)

\* At the end no line is left, and each was read once.
LEMMA AllLinesDone ==
  ASSUME EngineInv, stage = "done"
  PROVE  /\ TypeOK /\ FilesInv /\ OnceInv /\ DateInv /\ RefInv
         /\ \A f \in Files : Resolve(f) \in {"apache", "syslog"} /\ Readable(f)
         /\ Lines = DoneLines /\ DoneLines \subseteq Numbered
<1>1. TypeOK /\ FilesInv /\ LineInv /\ OnceInv /\ DateInv /\ RefInv
  BY DEF EngineInv
<1>2. Waiting = {}
  BY <1>1 DEF FilesInv, Waiting, ToSet
<1>3. \A f \in Files : Resolve(f) \in {"apache", "syslog"}
  BY <1>1, <1>2 DEF FilesInv, Waiting
<1>4. \A f \in Files : /\ Readable(f) /\ Len(content[f]) \in Nat
                       /\ Through(f) = Len(content[f])
  BY <1>1, <1>2, <1>3, ReadableContent DEF Through
<1>5. DoneLines \subseteq Numbered
  <2>1. \A i \in DOMAIN failures : failures[i] \in Numbered
    BY <1>1, ElementOfSeq, LenProperties DEF TypeOK
  <2>2. \A i \in DOMAIN EventLines : EventLines[i] \in Numbered
    BY <1>1, EventTypes DEF EventLines, Numbered
  <2>3. QED
    BY <2>1, <2>2 DEF DoneLines, ToSet
<1>6. ASSUME NEW l \in DoneLines PROVE l \in Lines
  <2>1. PICK f \in Files, i \in Nat \ {0} : l = <<f, i>>
    BY <1>5 DEF Numbered
  <2>2. i <= Len(content[f])
    BY <1>1, <1>4, <2>1 DEF LineInv
  <2>3. Readable(f) /\ i \in 1..Len(content[f])
    BY <1>4, <2>1, <2>2
  <2>4. QED
    BY <2>1, <2>3 DEF Lines
<1>7. ASSUME NEW l \in Lines PROVE l \in DoneLines
  <2>1. PICK f \in Files : l \in {f} \X (1..Len(content[f]))
    BY DEF Lines
  <2>2. PICK i \in 1..Len(content[f]) : l = <<f, i>>
    BY <2>1
  <2>3. i \in Nat \ {0} /\ i <= Through(f)
    BY <1>4, <2>2
  <2>4. QED
    BY <1>1, <2>2, <2>3 DEF LineInv
<1>8. QED
  BY <1>1, <1>3, <1>4, <1>5, <1>6, <1>7

\* A set that two sequences without repetition list between them has as many
\* members as they have places.
LEMMA CountOnce ==
  ASSUME NEW S, NEW s \in Seq(S), NEW t \in Seq(S),
         Once(s), Once(t), ToSet(s) \cap ToSet(t) = {}
  PROVE  Cardinality(ToSet(s) \cup ToSet(t)) = Len(s) + Len(t)
<1> DEFINE m == Len(s)
           n == Len(t)
           g == [i \in 1..(m + n) |-> IF i <= m THEN s[i] ELSE t[i - m]]
           U == ToSet(s) \cup ToSet(t)
<1>1. /\ m \in Nat /\ n \in Nat /\ DOMAIN s = 1..m /\ DOMAIN t = 1..n
  BY LenProperties
<1>2. \A i \in 1..(m + n) : \/ i \in 1..m /\ g[i] = s[i]
                            \/ i > m /\ i - m \in 1..n /\ g[i] = t[i - m]
  BY <1>1
<1>3. /\ \A i \in 1..m : i \in 1..(m + n) /\ g[i] = s[i]
      /\ \A i \in 1..n : i + m \in 1..(m + n) /\ g[i + m] = t[i]
  <2>1. \A i \in 1..m : i \in 1..(m + n) /\ g[i] = s[i]
    BY <1>1
  <2>2. ASSUME NEW i \in 1..n PROVE i + m \in 1..(m + n) /\ g[i + m] = t[i]
    <3>1. i + m \in 1..(m + n) /\ ~(i + m <= m) /\ (i + m) - m = i
      BY <1>1
    <3>2. QED
      BY <3>1
  <2>3. QED
    BY <2>1, <2>2
<1>4. DOMAIN g = 1..(m + n)
  OBVIOUS
<1> HIDE DEF g
<1>5. \A i \in 1..(m + n) : g[i] \in U
  BY <1>1, <1>2 DEF ToSet
<1>6. ASSUME NEW x \in U PROVE \E i \in 1..(m + n) : g[i] = x
  BY <1>1, <1>3 DEF ToSet
<1>7. ASSUME NEW i \in 1..(m + n), NEW j \in 1..(m + n), g[i] = g[j] PROVE i = j
  <2>1. CASE i \in 1..m /\ j \in 1..m /\ g[i] = s[i] /\ g[j] = s[j]
    BY <1>1, <1>7, <2>1 DEF Once
  <2>2. CASE /\ i > m /\ i - m \in 1..n /\ g[i] = t[i - m]
             /\ j > m /\ j - m \in 1..n /\ g[j] = t[j - m]
    <3>1. i - m = j - m
      BY <1>1, <1>7, <2>2 DEF Once
    <3>2. QED
      BY <1>1, <3>1
  <2>3. CASE /\ i \in 1..m /\ g[i] = s[i]
             /\ j > m /\ j - m \in 1..n /\ g[j] = t[j - m]
    BY <1>1, <1>7, <2>3 DEF ToSet
  <2>4. CASE /\ j \in 1..m /\ g[j] = s[j]
             /\ i > m /\ i - m \in 1..n /\ g[i] = t[i - m]
    BY <1>1, <1>7, <2>4 DEF ToSet
  <2>5. QED
    BY <1>2, <2>1, <2>2, <2>3, <2>4
<1>8. g \in Bijection(1..(m + n), U)
  <2>1. g = [i \in 1..(m + n) |-> g[i]]
    BY DEF g
  <2>2. g \in [1..(m + n) -> U]
    BY <1>5, <2>1
  <2>3. QED
    BY <1>6, <1>7, <2>2, Fun_IsBij
<1>9. IsFiniteSet(1..(m + n)) /\ Cardinality(1..(m + n)) = m + n
  <2>1. m + n \in Nat
    BY <1>1
  <2>2. QED
    BY <2>1, FS_Interval
<1>10. QED
  BY <1>8, <1>9, FS_Bijection DEF ExistsBijection

\* "A bad line becomes a counted [...] ParseFailure rather than aborting the
\* run" (engine.py:3): every line is one event or one failure at the end.
LEMMA EachLine ==
  ASSUME EngineInv
  PROVE  EachLineOnce
<1> SUFFICES ASSUME stage = "done"
             PROVE  /\ \A f \in Files : Readable(f)
                    /\ Len(events) + Len(failures) = Cardinality(Lines)
                    /\ Lines = {<<e.file, e.no>> : e \in ToSet(events)} \cup ToSet(failures)
  BY DEF EachLineOnce
<1>1. TypeOK /\ OnceInv /\ Lines = DoneLines /\ \A f \in Files : Readable(f)
  BY AllLinesDone
<1>2. ToSet(EventLines) = {<<e.file, e.no>> : e \in ToSet(events)}
  BY DEF ToSet, EventLines
<1>3. EventLines \in Seq(Numbered) /\ Len(EventLines) = Len(events) /\ failures \in Seq(Numbered)
  <2>1. DOMAIN events = 1..Len(events) /\ Len(events) \in Nat
    BY <1>1, EventTypes
  <2>2. \A i \in 1..Len(events) : <<events[i].file, events[i].no>> \in Numbered
    BY <1>1, EventTypes DEF Numbered
  <2>3. QED
    BY <1>1, <2>1, <2>2, LenProperties DEF EventLines, TypeOK
<1>4. Cardinality(DoneLines) = Len(events) + Len(failures)
  BY <1>1, <1>3, CountOnce DEF OnceInv, DoneLines
<1>5. QED
  BY <1>1, <1>2, <1>4 DEF DoneLines

\* engine.py:51: the order in which the files are given does not matter.
LEMMA AnyOrder ==
  ASSUME EngineInv
  PROVE  SameInAnyOrder
<1> SUFFICES ASSUME stage = "done", NEW e \in ToSet(events)
             PROVE  e.date = DateOf(IF Web(e.file) THEN "apache" ELSE "syslog",
                                    content[e.file][e.no], Basis)
  BY DEF SameInAnyOrder
<1>1. PICK i \in DOMAIN events : e = events[i]
  BY DEF ToSet
<1>2. /\ TypeOK /\ FilesInv /\ DateInv /\ RefInv /\ Lines = DoneLines
      /\ \A f \in Files : Resolve(f) \in {"apache", "syslog"} /\ Readable(f)
  BY AllLinesDone
<1>3. e.file \in Files /\ e.date = DateOf(Resolve(e.file), content[e.file][e.no], reference)
  BY <1>1, <1>2, EventTypes DEF DateInv
<1>4. content[e.file][e.no] \in Line
  <2>1. <<e.file, e.no>> \in Lines
    BY <1>1, <1>2 DEF DoneLines, ToSet, EventLines
  <2>2. PICK f \in Files : <<e.file, e.no>> \in {f} \X (1..Len(content[f]))
    BY <2>1 DEF Lines
  <2>3. f = e.file /\ e.no \in 1..Len(content[f])
    BY <2>2
  <2>4. QED
    BY <1>2, <2>3, ReadableContent
<1>5. CASE Web(e.file)
  <2>1. Resolve(e.file) = "apache"
    BY <1>5 DEF Web
  <2>2. QED
    BY <1>3, <1>4, <1>5, <2>1, WebDateIsItsOwn
<1>6. CASE ~Web(e.file)
  <2>1. Resolve(e.file) = "syslog"
    BY <1>2, <1>3, <1>6 DEF Web
  <2>2. reference = Basis
    BY <1>2, <1>3, <1>6 DEF RefInv
  <2>3. QED
    BY <1>3, <1>6, <2>1, <2>2
<1>7. QED
  BY <1>5, <1>6

LEMMA MonthAndDay ==
  ASSUME NEW t \in Dates, IsDate(t.month, t.day, t.year)
  PROVE  IsReference(t)
<1>1. t \in Calendar /\ t.year > YearSearchDepth
  BY DEF Dates
<1>2. t.month \in 1..12 /\ t.day \in 1..31
  BY <1>1 DEF IsDate, MonthDays, Calendar
<1>3. t \in [year : Nat, month : 1..12, day : 1..31]
  BY <1>1, <1>2 DEF Calendar
<1>4. QED
  BY <1>1, <1>3 DEF IsReference

\* "Never lose a legitimate security event to a calendar quirk"
\* (syslog_auth.py:70), whatever the web logs say of the time of the analysis.
LEMMA Dated ==
  ASSUME EngineInv
  PROVE  DatedRight
<1> DEFINE Own(l) == content[l[1]][l[2]]
<1> SUFFICES ASSUME stage = "done"
             PROVE  /\ \A id \in Lines :
                         ~Web(id[1]) /\ Matches("syslog", Own(id))
                         /\ IsDay(Own(id).date.month, Own(id).date.day)
                           => id \notin ToSet(failures)
                    /\ \A e \in ToSet(events) :
                         LET t == content[e.file][e.no].date
                         IN  IsDate(t.month, t.day, t.year) /\ Certain(t, Basis) => e.date = t
  BY DEF DatedRight
<1>1. /\ TypeOK /\ FilesInv /\ DateInv /\ RefInv /\ Lines = DoneLines
      /\ \A f \in Files : Resolve(f) \in {"apache", "syslog"} /\ Readable(f)
  BY AllLinesDone
<1>2. ASSUME NEW l \in Lines
      PROVE  /\ l[1] \in Files /\ Own(l) \in Line
             /\ Web(l[1]) => Resolve(l[1]) = "apache"
             /\ ~Web(l[1]) => /\ Resolve(l[1]) = "syslog" /\ reference = Basis
                              /\ IsReference(reference)
  <2>1. PICK f \in Files : l \in {f} \X (1..Len(content[f]))
    BY DEF Lines
  <2>2. l[1] = f /\ l[2] \in 1..Len(content[f])
    BY <2>1
  <2>3. Own(l) \in Line
    BY <1>1, <2>2, ReadableContent
  <2>4. ~Web(f) => Resolve(f) = "syslog" /\ reference = Basis /\ IsReference(reference)
    BY <1>1, BasisIsReference DEF Web
  <2>5. QED
    BY <2>2, <2>3, <2>4 DEF Web
<1>3. ASSUME NEW id \in Lines, ~Web(id[1]), Matches("syslog", Own(id)),
             IsDay(Own(id).date.month, Own(id).date.day)
      PROVE  id \notin ToSet(failures)
  <2> DEFINE t == Own(id).date
             y == InferYear(t.month, t.day, reference)
  <2>1. IsDate(t.month, t.day, y)
    BY <1>2, <1>3, NoDayLost
  <2>2. DateOf("syslog", Own(id), reference) = [t EXCEPT !.year = y]
    BY <1>3, <2>1 DEF DateOf, Parses
  <2>3. t \in Calendar
    BY <1>2 DEF Line, Dates
  <2> HIDE DEF y
  <2>4. [t EXCEPT !.year = y].year = y /\ y # NoDate.year
    <3>1. y # NoYear
      BY <2>1, DateHasYear
    <3>2. NoDate.year = NoYear
      BY DEF NoDate
    <3>3. [t EXCEPT !.year = y].year = y
      BY <2>3 DEF Calendar
    <3>4. QED
      BY <3>1, <3>2, <3>3
  <2>5. DateOf(Resolve(id[1]), Own(id), reference) # NoDate
    BY <1>2, <1>3, <2>2, <2>4
  <2>6. QED
    BY <1>1, <2>5 DEF DateInv, ToSet
<1>4. ASSUME NEW e \in ToSet(events),
             IsDate(content[e.file][e.no].date.month, content[e.file][e.no].date.day,
                    content[e.file][e.no].date.year),
             Certain(content[e.file][e.no].date, Basis)
      PROVE  e.date = content[e.file][e.no].date
  <2> DEFINE t == content[e.file][e.no].date
  <2>1. PICK i \in DOMAIN events : e = events[i]
    BY DEF ToSet
  <2>2. <<e.file, e.no>> \in Lines
    BY <1>1, <2>1 DEF DoneLines, ToSet, EventLines
  <2>3. content[e.file][e.no] \in Line
    BY <1>2, <2>2
  <2>4. e.date = DateOf(Resolve(e.file), content[e.file][e.no], reference) /\ e.date # NoDate
    <3>1. IsDate(e.date.month, e.date.day, e.date.year)
      BY <1>1 DEF TypeOK
    <3>2. e.date # NoDate
      BY <3>1 DEF IsDate, NoDate, NoYear
    <3>3. QED
      BY <1>1, <2>1, <3>2 DEF DateInv
  <2>5. CASE Web(e.file)
    BY <2>3, <2>4, <2>5, WebDateIsItsOwn DEF Web
  <2>6. CASE ~Web(e.file)
    <3>1. Resolve(e.file) = "syslog" /\ reference = Basis /\ IsReference(reference)
      BY <1>2, <2>2, <2>6
    <3>2. t \in Dates
      BY <2>3 DEF Line
    <3>3. InferYear(t.month, t.day, reference) = t.year
      BY <1>4, <3>1, <3>2, MonthAndDay, CertainIsRight
    <3>4. DateOf("syslog", content[e.file][e.no], reference) = [t EXCEPT !.year = t.year]
      BY <2>4, <3>1, <3>3 DEF DateOf
    <3>5. [t EXCEPT !.year = t.year] = t
      BY <3>2 DEF Dates, Calendar
    <3>6. QED
      BY <2>4, <3>1, <3>4, <3>5
  <2>7. QED
    BY <2>5, <2>6
<1>5. QED
  BY <1>3, <1>4

-----------------------------------------------------------------------------
(* The command: the inductive invariant *)

Alerts == Eligible(findings, config.min_severity)
Calls == [at : DOMAIN config.sinks, ok : BOOLEAN, got : {Alerts}]

\* The config in use is one that the checks of the loader let through.
ConfigInv ==
  /\ config.sinks \in Seq(ToSet(config.sinks))
  /\ \A r \in EnabledRules(config) : r.window > 0 /\ r.type \in VALID_RULE_TYPES
  /\ \A i, j \in DOMAIN config.rules : config.rules[i].id = config.rules[j].id => i = j

\* How far the command has come.
StageInv ==
  /\ phase \in {"load", "analyze", "view", "export", "build", "send", "exited"}
  /\ phase \notin {"send", "exited"} => sinks = {} /\ built = {} /\ sent = <<>> /\ ~muted
  /\ phase \in {"load", "analyze", "view", "export"} => exported = NotExported
  /\ phase \in {"load", "analyze", "view"} => shown = {}
  /\ phase # "exited" => code = 0 /\ ~crashed
  /\ phase \in {"build", "send"} => exported \in {NotExported, shown}
  /\ phase = "send" => ~muted

\* A sink that was built is still to be called, or has been called once.
CallsInv ==
  phase = "send" =>
    /\ built \subseteq DOMAIN config.sinks /\ sinks \subseteq built
    /\ \A i \in DOMAIN config.sinks : config.sinks[i] = "toast" => i \in built
    /\ sent \in Seq(Calls)
    /\ {sent[k].at : k \in DOMAIN sent} = built \ sinks
    /\ Len(sent) = Cardinality(built \ sinks)

FindingsInv ==
  /\ findings \subseteq AnySeverity /\ shown \subseteq findings
  /\ exported \in {NotExported} \cup SUBSET AnySeverity
  /\ code \in 0..2 /\ muted \in BOOLEAN /\ crashed \in BOOLEAN

Kept ==
  /\ ConfigInv /\ StageInv /\ CallsInv /\ FindingsInv
  /\ CodeTellsOutcome /\ NoneSuppressed

CommandInv == EngineInv /\ Kept

-----------------------------------------------------------------------------
(* The command: what its steps keep *)

Problems == {Fine, Refused, Traceback}

LEMMA FirstProblemIs ==
  ASSUME NEW s, DOMAIN s \subseteq Nat
  PROVE  /\ FirstProblem(s) = Fine => \A i \in DOMAIN s : s[i] = Fine
         /\ (\A i \in DOMAIN s : s[i] \in Problems) => FirstProblem(s) \in Problems
<1> DEFINE bad == {i \in DOMAIN s : s[i] # Fine}
           first == CHOOSE i \in bad : \A j \in bad : i <= j
<1>1. CASE bad = {}
  BY <1>1 DEF FirstProblem, Problems
<1>2. CASE bad # {}
  <2>1. \E i \in bad : \A j \in bad : i <= j
    BY <1>2, LeastNumber
  <2>2. first \in bad
    BY <2>1
  <2>3. FirstProblem(s) = s[first]
    BY <1>2 DEF FirstProblem
  <2>4. QED
    BY <2>2, <2>3
<1>3. QED
  BY <1>1, <1>2

LEMMA RuleProblemIs ==
  ASSUME NEW r
  PROVE  /\ RuleProblem(r) \in Problems
         /\ RuleProblem(r) = Fine => r.type \in VALID_RULE_TYPES
<1> DEFINE a == Unless(r.id \notin {Absent, "60", ""}, Refused)
           b == Unless(r.type \notin Unhashable, Traceback)
           ok == /\ r.type \in VALID_RULE_TYPES
                 /\ Or(r.severity, "medium") \in Severities
                 /\ r.source \in {Absent, "null", "web", "auth"}
                 /\ r.window \in Positive \cup {Absent}
                 /\ r.enabled \in {Absent, "true", "false"}
                 /\ r.patterns \in {Absent, "regexes"}
           c == Unless(ok, Refused)
           s == <<a, b, c>>
<1>1. a \in Problems /\ b \in Problems /\ c \in Problems
  BY DEF Unless, Problems
<1>2. c = Fine => r.type \in VALID_RULE_TYPES
  BY DEF Unless, Fine, Refused
<1>3. RuleProblem(r) = FirstProblem(s)
  BY DEF RuleProblem
<1> HIDE DEF a, b, c
<1>4. DOMAIN s = 1..3 /\ s[1] = a /\ s[2] = b /\ s[3] = c
  OBVIOUS
<1> HIDE DEF s
<1>5. \A i \in DOMAIN s : s[i] \in Problems
  BY <1>1, <1>4
<1>6. DOMAIN s \subseteq Nat /\ 3 \in DOMAIN s
  BY <1>4
<1>7. QED
  BY <1>2, <1>3, <1>4, <1>5, <1>6, FirstProblemIs

LEMMA ConcatAt ==
  ASSUME NEW S, NEW s \in Seq(S), NEW t \in Seq(S)
  PROVE  \A i \in 1..Len(t) : (s \o t)[Len(s) + i] = t[i]
OBVIOUS

\* The loader checks each rule of the list, and that no name comes twice.
LEMMA LoadProblemIs ==
  ASSUME NEW doc \in Docs
  PROVE  /\ LoadProblem(doc) \in Problems
         /\ LoadProblem(doc) = Fine =>
              /\ \A i \in DOMAIN doc.rules : doc.rules[i].type \in VALID_RULE_TYPES
              /\ \A i, j \in DOMAIN doc.rules : doc.rules[i].id = doc.rules[j].id => i = j
<1> DEFINE rules == doc.rules
           P(i) == RuleProblem(rules[i])
           Q(i) == Unless(~Twice(rules, i), Refused)
           R == RulesProblems(rules)
           h == <<FileProblem(doc), SectionProblem(doc)>>
           s == h \o R
<1>1. DOMAIN rules = 1..Len(rules) /\ Len(rules) \in Nat
  BY DocsAssumption, LenProperties
<1>2. ASSUME NEW i \in DOMAIN rules
      PROVE  R[i] \in Problems /\ (R[i] = Fine => P(i) = Fine /\ Q(i) = Fine)
  <2> DEFINE t == <<P(i), Q(i)>>
  <2>1. P(i) \in Problems /\ Q(i) \in Problems
    BY RuleProblemIs DEF Unless, Problems
  <2>2. R[i] = FirstProblem(t)
    BY DEF RulesProblems
  <2> HIDE DEF P, Q
  <2>3. DOMAIN t = 1..2 /\ t[1] = P(i) /\ t[2] = Q(i)
    OBVIOUS
  <2> HIDE DEF t
  <2>4. /\ DOMAIN t \subseteq Nat /\ 1 \in DOMAIN t /\ 2 \in DOMAIN t
        /\ \A k \in DOMAIN t : t[k] \in Problems
    BY <2>1, <2>3
  <2>5. QED
    BY <2>2, <2>3, <2>4, FirstProblemIs
<1>3. R \in Seq(Problems) /\ Len(R) = Len(rules)
  <2>1. R = [i \in DOMAIN rules |-> R[i]]
    BY DEF RulesProblems
  <2> HIDE DEF R
  <2>2. QED
    BY <1>1, <1>2, <2>1, LenProperties
<1>4. h \in Seq(Problems) /\ Len(h) = 2
  BY DEF FileProblem, SectionProblem, Unless, Problems
<1> HIDE DEF R, h
<1>5. /\ s \in Seq(Problems) /\ Len(s) = Len(h) + Len(R)
      /\ \A i \in 1..Len(R) : s[Len(h) + i] = R[i]
  <2>1. s \in Seq(Problems) /\ Len(s) = Len(h) + Len(R)
    BY <1>3, <1>4, ConcatProperties
  <2>2. ASSUME NEW i \in 1..Len(R) PROVE s[Len(h) + i] = R[i]
    <3>1. h \in Seq(Problems) /\ R \in Seq(Problems)
      BY <1>3, <1>4
    <3>2. QED
      BY <3>1, ConcatAt
  <2>3. QED
    BY <2>1, <2>2
<1>6. LoadProblem(doc) = FirstProblem(s)
  BY DEF LoadProblem, h, R
<1> HIDE DEF s
<1>7. DOMAIN s = 1..(2 + Len(rules)) /\ \A i \in DOMAIN s : s[i] \in Problems
  BY <1>1, <1>3, <1>4, <1>5, LenProperties, ElementOfSeq
<1>8. ASSUME LoadProblem(doc) = Fine, NEW i \in DOMAIN rules
      PROVE  R[i] = Fine
  <2>1. 2 + i \in DOMAIN s /\ i \in 1..Len(R)
    BY <1>1, <1>3, <1>7
  <2>2. s[2 + i] = R[i]
    BY <1>4, <1>5, <2>1
  <2>3. s[2 + i] = Fine
    <3>1. DOMAIN s \subseteq Nat
      BY <1>1, <1>7
    <3>2. QED
      BY <1>6, <1>8, <2>1, <3>1, FirstProblemIs
  <2>4. QED
    BY <2>2, <2>3
<1>9. ASSUME LoadProblem(doc) = Fine, NEW i \in DOMAIN rules, NEW j \in DOMAIN rules,
             rules[i].id = rules[j].id, i < j
      PROVE  FALSE
  <2>1. Twice(rules, j)
    BY <1>1, <1>9 DEF Twice
  <2>2. Q(j) = Fine
    BY <1>2, <1>8, <1>9
  <2>3. QED
    BY <2>1, <2>2 DEF Unless, Fine, Refused
<1>10. ASSUME LoadProblem(doc) = Fine, NEW i \in DOMAIN rules
       PROVE  rules[i].type \in VALID_RULE_TYPES
  BY <1>2, <1>8, <1>10, RuleProblemIs
<1>11. LoadProblem(doc) \in Problems
  <2>1. DOMAIN s \subseteq Nat
    BY <1>1, <1>7
  <2>2. QED
    BY <1>6, <1>7, <2>1, FirstProblemIs
<1>12. ASSUME LoadProblem(doc) = Fine, NEW i \in DOMAIN rules, NEW j \in DOMAIN rules,
              rules[i].id = rules[j].id
       PROVE  i = j
  <2>1. ~(i < j) /\ ~(j < i)
    BY <1>9, <1>12
  <2>2. i \in Nat /\ j \in Nat
    BY <1>1
  <2>3. QED
    BY <2>1, <2>2
<1>13. QED
  BY <1>10, <1>11, <1>12

LEMMA ConfigMade ==
  ASSUME NEW doc \in Docs, LoadProblem(doc) = Fine
  PROVE  LET c == AppConfig(doc)
         IN  /\ c.sinks \in Seq(ToSet(c.sinks))
             /\ \A r \in EnabledRules(c) : r.window > 0 /\ r.type \in VALID_RULE_TYPES
             /\ \A i, j \in DOMAIN c.rules : c.rules[i].id = c.rules[j].id => i = j
<1> DEFINE c == AppConfig(doc)
           w == DefaultWindow(doc)
<1>1. c.sinks \in Seq(ToSet(c.sinks))
  <2>1. c.sinks = doc.sinks \/ c.sinks = <<>>
    BY DEF AppConfig
  <2> HIDE DEF c
  <2>2. <<>> \in Seq(ToSet(<<>>))
    OBVIOUS
  <2>3. QED
    BY <2>1, <2>2, DocsAssumption
<1>2. w > 0
  BY DEF DefaultWindow, Seconds
<1>3. /\ DOMAIN c.rules = DOMAIN doc.rules
      /\ \A i \in DOMAIN doc.rules : c.rules[i] = RuleConfig(doc.rules[i], w)
  BY DEF AppConfig
<1>4. ASSUME NEW r PROVE /\ RuleConfig(r, w).window > 0
                         /\ RuleConfig(r, w).type = r.type /\ RuleConfig(r, w).id = r.id
  BY <1>2 DEF RuleConfig, Seconds
<1> HIDE DEF c, w
<1>5. \A r \in EnabledRules(c) : \E i \in DOMAIN doc.rules : r = RuleConfig(doc.rules[i], w)
  BY <1>3 DEF EnabledRules
<1>6. \A r \in EnabledRules(c) : r.window > 0 /\ r.type \in VALID_RULE_TYPES
  BY <1>4, <1>5, LoadProblemIs
<1>7. \A i, j \in DOMAIN c.rules : c.rules[i].id = c.rules[j].id => i = j
  BY <1>3, <1>4, LoadProblemIs
<1>8. QED
  BY <1>1, <1>6, <1>7 DEF c

\* What leaves early leaves before an alert or a file, or with a traceback.
LEMMA LeaveKeeps ==
  ASSUME Kept, NEW problem \in {Refused, Traceback}, Leave(problem), phase # "exited",
         problem = Refused => phase \in {"load", "analyze", "view", "export"} /\ UNCHANGED exported,
         exported' \in {exported, NotExported, {}},
         UNCHANGED <<config, findings, shown, sinks, built, sent, muted>>
  PROVE  Kept'
<1>1. /\ phase' = "exited" /\ code' = (IF problem = Refused THEN 2 ELSE 1)
      /\ crashed' = (problem = Traceback)
  BY DEF Leave
<1>2. Refused # Traceback
  BY DEF Refused, Traceback
<1>3. ConfigInv' /\ StageInv' /\ CallsInv'
  BY <1>1 DEF Kept, ConfigInv, StageInv, CallsInv, ToSet, EnabledRules
<1>4. FindingsInv'
  BY <1>1 DEF Kept, FindingsInv
<1>5. ~Ended'
  BY <1>1, <1>2 DEF Ended
<1>6. CodeTellsOutcome'
  BY <1>1, <1>2, <1>5 DEF Kept, CodeTellsOutcome, StageInv
<1>7. NoneSuppressed'
  BY <1>5 DEF NoneSuppressed
<1>8. QED
  BY <1>3, <1>4, <1>6, <1>7 DEF Kept

\* What leaves at the end has alerted whom it had to.
LEMMA ExitKeeps ==
  ASSUME Kept, Exit, phase \in {"build", "send"},
         UNCHANGED <<config, findings, shown, exported, sinks, built, sent>>,
         \/ muted' = TRUE
         \/ muted' = muted /\ Alerts = {}
         \/ muted' = muted /\ phase = "send" /\ sinks = {}
  PROVE  Kept'
<1>1. /\ phase' = "exited" /\ crashed' = crashed /\ crashed = FALSE
      /\ code' = IF \E x \in shown : x >= HIGH THEN 1 ELSE 0
  BY DEF Exit, Kept, StageInv, FindingsInv
<1>2. ConfigInv' /\ StageInv' /\ CallsInv'
  BY <1>1 DEF Kept, ConfigInv, StageInv, CallsInv, ToSet, EnabledRules
<1>3. FindingsInv'
  <2>1. code' \in 0..2
    BY <1>1
  <2>2. muted \in BOOLEAN /\ muted' \in BOOLEAN /\ crashed' \in BOOLEAN
    BY <1>1, Zenon DEF Kept, FindingsInv
  <2>3. (/\ findings \subseteq AnySeverity /\ shown \subseteq findings
         /\ exported \in {NotExported} \cup SUBSET AnySeverity)'
    BY DEF Kept, FindingsInv
  <2>4. QED
    BY <2>1, <2>2, <2>3 DEF FindingsInv
<1>4. CodeTellsOutcome'
  <2>1. exported \in {NotExported, shown}
    BY DEF Kept, StageInv
  <2>2. code' # 2
    BY <1>1
  <2>3. (\E x \in shown : x >= HIGH)' <=> (\E x \in shown : x >= HIGH)
    BY DEF HIGH, Rank
  <2>4. code' = 1 <=> \E x \in shown : x >= HIGH
    BY <1>1
  <2>5. QED
    BY <2>1, <2>2, <2>3, <2>4 DEF CodeTellsOutcome
<1>5. NoneSuppressed'
  <2> SUFFICES ASSUME ~muted', Alerts # {}
               PROVE  /\ {sent[k].at : k \in DOMAIN sent} = built
                      /\ Len(sent) = Cardinality(built)
                      /\ \A i \in DOMAIN config.sinks : config.sinks[i] = "toast" => i \in built
                      /\ \A k \in DOMAIN sent : sent[k].got = Alerts
    BY DEF NoneSuppressed, Alerts
  <2>1. phase = "send" /\ sinks = {}
    OBVIOUS
  <2>2. built \ sinks = built
    BY <2>1
  <2>3. /\ {sent[k].at : k \in DOMAIN sent} = built \ sinks
        /\ Len(sent) = Cardinality(built \ sinks)
        /\ \A i \in DOMAIN config.sinks : config.sinks[i] = "toast" => i \in built
        /\ sent \in Seq(Calls)
    BY <2>1 DEF Kept, CallsInv
  <2>4. \A k \in DOMAIN sent : sent[k].got = Alerts
    <3>1. \A c \in Calls : c.got = Alerts
      BY DEF Calls
    <3>2. QED
      BY <2>3, <3>1, LenProperties, ElementOfSeq
  <2>5. QED
    BY <2>2, <2>3, <2>4
<1>6. QED
  BY <1>2, <1>3, <1>4, <1>5 DEF Kept

\* A call moves a sink from those that are left to those called.
LEMMA SendKeeps ==
  ASSUME Kept, NEW i \in sinks, NEW ok \in BOOLEAN, Send(i, ok)
  PROVE  Kept'
<1> DEFINE c == [at |-> i, ok |-> ok, got |-> Alerts]
<1>1. /\ phase = "send" /\ sent' = Append(sent, c) /\ sinks' = sinks \ {i}
      /\ UNCHANGED <<phase, config, findings, shown, exported, built, muted, code, crashed>>
  BY DEF Send, Alerts
<1>2. /\ built \subseteq DOMAIN config.sinks /\ sinks \subseteq built
      /\ \A j \in DOMAIN config.sinks : config.sinks[j] = "toast" => j \in built
      /\ sent \in Seq(Calls)
      /\ {sent[k].at : k \in DOMAIN sent} = built \ sinks
      /\ Len(sent) = Cardinality(built \ sinks)
  BY <1>1 DEF Kept, CallsInv
<1>3. c \in Calls /\ c.at = i
  BY <1>2 DEF Calls
<1> HIDE DEF c
<1>4. /\ sent' \in Seq(Calls)
      /\ DOMAIN sent' = DOMAIN sent \cup {Len(sent) + 1}
      /\ \A k \in DOMAIN sent : sent'[k] = sent[k]
      /\ sent'[Len(sent) + 1] = c
  <2>1. sent \in Seq(Calls) /\ c \in Calls /\ sent' = Append(sent, c)
    BY <1>1, <1>2, <1>3
  <2>2. QED
    BY ONLY <2>1, AppendOnce
<1>5. built \ sinks' = (built \ sinks) \cup {i} /\ i \notin built \ sinks
  BY <1>1, <1>2
<1>6. {sent'[k].at : k \in DOMAIN sent'} = built \ sinks'
  <2>1. {sent'[k].at : k \in DOMAIN sent'} = {sent[k].at : k \in DOMAIN sent} \cup {i}
    BY <1>3, <1>4
  <2>2. QED
    BY <1>2, <1>5, <2>1
<1>7. Len(sent') = Cardinality(built \ sinks')
  <2>1. config.sinks \in Seq(ToSet(config.sinks))
    BY DEF Kept, ConfigInv
  <2>2. IsFiniteSet(DOMAIN config.sinks)
    BY <2>1, LenProperties, FS_Interval
  <2>3. IsFiniteSet(built \ sinks)
    BY <1>2, <2>2, FS_Subset
  <2>4. Cardinality((built \ sinks) \cup {i}) = Cardinality(built \ sinks) + 1
    BY <1>5, <2>3, FS_AddElement
  <2>5. Len(sent') = Len(sent) + 1
    BY <1>1, <1>2, <1>3, AppendProperties
  <2>6. QED
    BY <1>2, <1>5, <2>4, <2>5
<1>8. Calls' = Calls
  BY <1>1 DEF Calls, Alerts
<1>9. CallsInv'
  BY <1>1, <1>2, <1>4, <1>6, <1>7, <1>8 DEF CallsInv
<1>10. ConfigInv' /\ StageInv'
  BY <1>1 DEF Kept, ConfigInv, StageInv, ToSet, EnabledRules
<1>11. FindingsInv'
  BY <1>1 DEF Kept, FindingsInv
<1>12. code = 0 /\ ~Ended'
  BY <1>1 DEF Kept, StageInv, Ended
<1>13. CodeTellsOutcome' /\ NoneSuppressed'
  BY <1>1, <1>12 DEF CodeTellsOutcome, NoneSuppressed
<1>14. QED
  BY <1>9, <1>10, <1>11, <1>13 DEF Kept

\* Each toast that is listed is built; the mails, as the environment says.
LEMMA BuildKeeps ==
  ASSUME Kept, NEW file, NEW real, Build(file, real)
  PROVE  Kept'
<1>1. CASE Alerts = {}
  <2>1. Exit /\ UNCHANGED <<sinks, built>>
    BY <1>1 DEF Build, Alerts
  <2>2. QED
    BY <1>1, <2>1, ExitKeeps DEF Build
<1>2. CASE Alerts # {}
  <2> DEFINE env == Environment(file, real)
  <2>1. /\ phase = "build" /\ sinks' = BuildDispatcher(config.sinks, env) /\ built' = sinks'
        /\ phase' = "send"
        /\ UNCHANGED <<config, findings, shown, exported, sent, muted, code, crashed>>
    BY <1>2 DEF Build, Alerts
  <2> HIDE DEF env
  <2>2. sent = <<>> /\ ~muted /\ code = 0 /\ ~crashed
    BY <2>1 DEF Kept, StageInv
  <2>3. /\ sinks' \subseteq DOMAIN config.sinks
        /\ \A i \in DOMAIN config.sinks : config.sinks[i] = "toast" => i \in sinks'
    BY <2>1 DEF BuildDispatcher
  <2>4. built' \ sinks' = {} /\ Cardinality({}) = 0
    BY <2>1, FS_EmptySet
  <2>5. sent' = <<>> /\ Len(sent') = 0 /\ {sent'[k].at : k \in DOMAIN sent'} = {}
    BY <2>1, <2>2
  <2>6. sent' \in Seq(Calls)'
    BY <2>5
  <2>7. CallsInv'
    BY <2>1, <2>3, <2>4, <2>5, <2>6 DEF CallsInv
  <2>8. ConfigInv' /\ StageInv'
    BY <2>1 DEF Kept, ConfigInv, StageInv, ToSet, EnabledRules
  <2>9. FindingsInv'
    BY <2>1 DEF Kept, FindingsInv
  <2>10. CodeTellsOutcome' /\ NoneSuppressed'
    BY <2>1, <2>2 DEF CodeTellsOutcome, NoneSuppressed, Ended
  <2>11. QED
    BY <2>7, <2>8, <2>9, <2>10 DEF Kept
<1>3. QED
  BY <1>1, <1>2

LEMMA LoadKeeps ==
  ASSUME Kept, NEW doc \in Docs, Load(doc)
  PROVE  Kept'
<1>1. /\ phase = "load"
      /\ UNCHANGED <<findings, shown, exported, sinks, built, sent, muted>>
  BY DEF Load
<1>2. CASE LoadProblem(doc) = Fine
  <2>1. phase' = "analyze" /\ config' = AppConfig(doc) /\ UNCHANGED <<code, crashed>>
    BY <1>2 DEF Load
  <2> DEFINE c == AppConfig(doc)
  <2>2. /\ c.sinks \in Seq(ToSet(c.sinks))
        /\ \A r \in EnabledRules(c) : r.window > 0 /\ r.type \in VALID_RULE_TYPES
        /\ \A i, j \in DOMAIN c.rules : c.rules[i].id = c.rules[j].id => i = j
    BY <1>2, ConfigMade
  <2>3. config' = c
    BY <2>1
  <2> HIDE DEF c
  <2>4. ConfigInv'
    BY <2>2, <2>3 DEF ConfigInv, ToSet, EnabledRules
  <2>5. StageInv' /\ CallsInv'
    BY <1>1, <2>1 DEF Kept, StageInv, CallsInv
  <2>6. FindingsInv'
    BY <1>1, <2>1 DEF Kept, FindingsInv
  <2>7. CodeTellsOutcome' /\ NoneSuppressed'
    BY <1>1, <2>1 DEF Kept, StageInv, CodeTellsOutcome, NoneSuppressed, Ended
  <2>8. QED
    BY <2>4, <2>5, <2>6, <2>7 DEF Kept
<1>3. CASE LoadProblem(doc) # Fine
  <2>1. LoadProblem(doc) \in {Refused, Traceback}
    BY <1>3, LoadProblemIs DEF Problems
  <2>2. Leave(LoadProblem(doc)) /\ UNCHANGED config
    BY <1>3 DEF Load
  <2>3. QED
    BY <1>1, <2>1, <2>2, LeaveKeeps
<1>4. QED
  BY <1>2, <1>3

\* The steps that only move on to the next stage.
LEMMA MoveKeeps ==
  ASSUME Kept, UNCHANGED <<config, sinks, built, sent, muted, code, crashed>>,
         \/ /\ phase = "analyze" /\ phase' = "view" /\ findings' \subseteq AnySeverity
            /\ UNCHANGED <<shown, exported>>
         \/ /\ phase = "view" /\ phase' = "export" /\ shown' \subseteq findings
            /\ UNCHANGED <<findings, exported>>
         \/ /\ phase = "export" /\ phase' = "build" /\ exported' \in {exported, shown}
            /\ UNCHANGED <<findings, shown>>
  PROVE  Kept'
<1>1. ConfigInv' /\ StageInv' /\ CallsInv'
  BY DEF Kept, ConfigInv, StageInv, CallsInv, ToSet, EnabledRules
<1>2. FindingsInv'
  BY DEF Kept, StageInv, FindingsInv
<1>3. CodeTellsOutcome' /\ NoneSuppressed'
  BY DEF Kept, StageInv, CodeTellsOutcome, NoneSuppressed, Ended
<1>4. QED
  BY <1>1, <1>2, <1>3 DEF Kept

LEMMA StutterKeeps ==
  ASSUME Kept, UNCHANGED command
  PROVE  Kept'
<1>1. ConfigInv' /\ StageInv' /\ FindingsInv'
  BY DEF Kept, ConfigInv, StageInv, FindingsInv, ToSet, EnabledRules, command
<1>2. Calls' = Calls
  BY DEF Calls, Alerts, command
<1>4. CallsInv'
  BY <1>2 DEF Kept, CallsInv, command
<1>5. CodeTellsOutcome' /\ NoneSuppressed'
  BY DEF Kept, CodeTellsOutcome, NoneSuppressed, Ended, command
<1>6. QED
  BY <1>1, <1>4, <1>5 DEF Kept

LEMMA CommandStep ==
  ASSUME CommandInv, [CommandNext]_commandVars
  PROVE  CommandInv'
<1>1. Kept /\ EngineInv
  BY DEF CommandInv
<1>2. ASSUME NEW doc \in Docs, Load(doc) PROVE CommandInv'
  <2>1. Kept'
    BY <1>1, <1>2, LoadKeeps
  <2>2. UNCHANGED vars
    BY <1>2 DEF Load
  <2>3. QED
    BY <1>1, <2>1, <2>2, EngineStep DEF CommandInv
<1>3. CASE Analyze
  BY <1>1, <1>3, EngineStep, StutterKeeps DEF Analyze, CommandInv
<1>4. CASE AnalyzeFails
  <2>1. Kept'
    BY <1>1, <1>4, LeaveKeeps DEF AnalyzeFails
  <2>2. UNCHANGED vars
    BY <1>4 DEF AnalyzeFails
  <2>3. QED
    BY <1>1, <2>1, <2>2, EngineStep DEF CommandInv
<1>5. ASSUME NEW found \in SUBSET AnySeverity, Detect(found) PROVE CommandInv'
  <2>1. Kept'
    <3>1. CASE Buildable(config)
      BY <1>1, <1>5, <3>1, MoveKeeps DEF Detect
    <3>2. CASE ~Buildable(config)
      BY <1>1, <1>5, <3>2, LeaveKeeps DEF Detect, Refused, Traceback
    <3>3. QED
      BY <3>1, <3>2
  <2>2. UNCHANGED vars
    BY <1>5 DEF Detect
  <2>3. QED
    BY <1>1, <2>1, <2>2, EngineStep DEF CommandInv
<1>6. ASSUME NEW min \in Severities \cup {"word"}, View(min) PROVE CommandInv'
  <2>1. Kept'
    <3>1. CASE min \in Severities
      <4>1. Eligible(findings, Rank[min]) \subseteq findings
        BY DEF Eligible
      <4>2. QED
        BY <1>1, <1>6, <3>1, <4>1, MoveKeeps DEF View
    <3>2. CASE min \notin Severities
      BY <1>1, <1>6, <3>2, LeaveKeeps DEF View
    <3>3. QED
      BY <3>1, <3>2
  <2>2. UNCHANGED vars
    BY <1>6 DEF View
  <2>3. QED
    BY <1>1, <2>1, <2>2, EngineStep DEF CommandInv
<1>7. CASE NoExport
  BY <1>1, <1>7, MoveKeeps, EngineStep DEF NoExport, CommandInv
<1>8. CASE ExportNowhere
  BY <1>1, <1>8, LeaveKeeps, EngineStep DEF ExportNowhere, CommandInv
<1>9. CASE Export
  BY <1>1, <1>9, MoveKeeps, EngineStep DEF Export, CommandInv
<1>10. ASSUME NEW left \in {NotExported, {}}, ExportFails(left) PROVE CommandInv'
  BY <1>1, <1>10, LeaveKeeps, EngineStep DEF ExportFails, CommandInv, Refused, Traceback
<1>11. CASE Mute
  BY <1>1, <1>11, ExitKeeps, EngineStep DEF Mute, CommandInv
<1>12. CASE EnvFails
  BY <1>1, <1>12, LeaveKeeps, EngineStep DEF EnvFails, CommandInv, Refused, Traceback
<1>13. ASSUME NEW file \in EnvFiles, NEW real \in Environs, Build(file, real) PROVE CommandInv'
  <2>1. Kept'
    BY <1>1, <1>13, BuildKeeps
  <2>2. UNCHANGED vars
    BY <1>13 DEF Build
  <2>3. QED
    BY <1>1, <2>1, <2>2, EngineStep DEF CommandInv
<1>14. ASSUME NEW i \in sinks, NEW ok \in BOOLEAN, Send(i, ok) PROVE CommandInv'
  <2>1. Kept'
    BY <1>1, <1>14, SendKeeps
  <2>2. UNCHANGED vars
    BY <1>14 DEF Send
  <2>3. QED
    BY <1>1, <2>1, <2>2, EngineStep DEF CommandInv
<1>15. CASE AllSent
  BY <1>1, <1>15, ExitKeeps, EngineStep DEF AllSent, CommandInv
<1>16. CASE UNCHANGED commandVars
  <2>1. UNCHANGED vars /\ UNCHANGED command
    BY <1>16 DEF commandVars
  <2>2. QED
    BY <1>1, <2>1, EngineStep, StutterKeeps DEF CommandInv
<1>17. QED
  BY <1>2, <1>3, <1>4, <1>5, <1>6, <1>7, <1>8, <1>9, <1>10, <1>11, <1>12, <1>13, <1>14,
     <1>15, <1>16 DEF CommandNext

LEMMA CommandStarts ==
  ASSUME CommandInit
  PROVE  CommandInv
<1>1. /\ Init /\ phase = "load" /\ config = NoConfig
      /\ findings = {} /\ shown = {} /\ exported = NotExported
      /\ sinks = {} /\ built = {} /\ sent = <<>> /\ muted = FALSE
      /\ code = 0 /\ crashed = FALSE
  BY DEF CommandInit
<1>2. ConfigInv
  <2>1. config.sinks = <<>> /\ config.rules = <<>>
    BY <1>1 DEF NoConfig
  <2>2. EnabledRules(config) = {}
    BY <2>1 DEF EnabledRules
  <2>3. config.sinks \in Seq(ToSet(config.sinks))
    BY <2>1
  <2>4. QED
    BY <2>1, <2>2, <2>3 DEF ConfigInv
<1>3. StageInv /\ CallsInv
  BY <1>1 DEF StageInv, CallsInv
<1>4. FindingsInv
  <2>1. code \in 0..2
    BY <1>1
  <2>2. muted \in BOOLEAN /\ crashed \in BOOLEAN
    BY <1>1
  <2>3. QED
    BY <1>1, <2>1, <2>2 DEF FindingsInv
<1>5. CodeTellsOutcome /\ NoneSuppressed
  BY <1>1 DEF CodeTellsOutcome, NoneSuppressed, Ended
<1>6. QED
  BY <1>1, <1>2, <1>3, <1>4, <1>5, InitKeeps DEF CommandInv, Kept

-----------------------------------------------------------------------------
(* The theorems *)

\* The inductive invariant of the command, the engine in it included.
THEOREM Inductive == CommandSpec => []CommandInv
<1>1. CommandInit => CommandInv
  BY CommandStarts
<1>2. CommandInv /\ [CommandNext]_commandVars => CommandInv'
  BY CommandStep
<1>3. QED
  BY <1>1, <1>2, PTL DEF CommandSpec

\* Every variable has its type, and every rule in use a positive window, a
\* type that there is and a name of its own (config.py).
THEOREM TypeCorrect == CommandSpec => []CommandTypeOK
<1>1. CommandInv => CommandTypeOK
  BY DEF CommandInv, Kept, EngineInv, ConfigInv, StageInv, FindingsInv, CommandTypeOK
<1>2. QED
  BY <1>1, Inductive, PTL

\* "A bad line becomes a counted [...] ParseFailure rather than aborting the
\* run" (engine.py:3): a result tells of every line of every file once.
THEOREM EachLineIsReadOnce == CommandSpec => []EachLineOnce
<1>1. CommandInv => EachLineOnce
  BY EachLine DEF CommandInv
<1>2. QED
  BY <1>1, Inductive, PTL

\* engine.py:51: the dates do not depend on the order of the files.
THEOREM OrderDoesNotMatter == CommandSpec => []SameInAnyOrder
<1>1. CommandInv => SameInAnyOrder
  BY AnyOrder DEF CommandInv
<1>2. QED
  BY <1>1, Inductive, PTL

\* syslog_auth.py:70: no event is lost to the calendar, and a date that lies
\* near enough to the reference is the one that was written.
THEOREM DatesAreRight == CommandSpec => []DatedRight
<1>1. CommandInv => DatedRight
  BY Dated DEF CommandInv
<1>2. QED
  BY <1>1, Inductive, PTL

\* analyze.py:7 and 95: the exit code tells of what is shown, and 2 of a
\* command that has done nothing.
THEOREM CodeIsRight == CommandSpec => []CodeTellsOutcome
<1>1. CommandInv => CodeTellsOutcome
  BY DEF CommandInv, Kept
<1>2. QED
  BY <1>1, Inductive, PTL

\* analyze.py:82, alerts/__init__.py:4: every sink that was built is called
\* exactly once, with every finding above the threshold of the alerts, whatever
\* the display filter hides and whichever sinks before it failed.
THEOREM NothingSuppressed == CommandSpec => []NoneSuppressed
<1>1. CommandInv => NoneSuppressed
  BY DEF CommandInv, Kept
<1>2. QED
  BY <1>1, Inductive, PTL

\* The engine behaves as well where it is used without the command.
THEOREM EngineAlone == Spec => [](EachLineOnce /\ SameInAnyOrder /\ DatedRight)
<1>1. Init => EngineInv
  BY InitKeeps
<1>2. EngineInv /\ [Next]_vars => EngineInv'
  BY EngineStep
<1>3. EngineInv => EachLineOnce /\ SameInAnyOrder /\ DatedRight
  BY EachLine, AnyOrder, Dated
<1>4. QED
  BY <1>1, <1>2, <1>3, PTL DEF Spec
=============================================================================
