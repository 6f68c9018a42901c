----------------------------- MODULE FileTailer -----------------------------
(***************************************************************************)
(* pipeline/watch.py: FileTailer follows one log file by byte offset while *)
(* a logger appends to it and a log rotation replaces or truncates it.     *)
(*                                                                         *)
(* What a file holds is told apart only by where it came from: byte i of   *)
(* the g-th file that stood at the path is <<g, i>>.  Every line of file g *)
(* has LineLen[g] bytes, the last of which is the newline.  Stripping "\r" *)
(* and decoding change no line into another and are left out.              *)
(***************************************************************************)
EXTENDS Integers, Sequences, FiniteSets

CONSTANTS
  NumFiles,        \* how many files stand at the path, one after another
  LineLen,         \* the length of the lines of each file
  MaxSize,         \* bound: bytes ever written to one file
  ChunkLimit,      \* _READ_CHUNK_LIMIT
  OutpacesRefill   \* assumption: the path is polled before the bytes of a
                   \* file with the old inode number reach the old offset.  Of
                   \* a gap watch.py:28 speaks where st_ino is 0 only, but a file
                   \* truncated in place keeps its number everywhere

ASSUME FilesAssumption == NumFiles \in Nat \ {0}

Files == 1..NumFiles

ASSUME LineAssumption == LineLen \in [Files -> Nat \ {0, 1}]
ASSUME ChunkAssumption == ChunkLimit \in Nat \ {0}
ASSUME BoundAssumption == MaxSize \in Nat /\ OutpacesRefill \in BOOLEAN

None == -1

VARIABLES
  \* The path
  present,    \* is there a file?
  file,       \* which one, or the last one there was
  size,       \* its size
  inode,      \* its st_ino, 0 on a platform that reports none
  \* The tailer
  offset,     \* _offset
  buffer,     \* _buffer
  known,      \* _inode
  stage,      \* "stat" or, between the stat and the open of a poll, "read"
  \* What has become of it
  delivered,  \* all the lines that poll() has returned
  follows,    \* the file that the last stat saw
  torn        \* did a new file come between the stat and the open of a poll?

path == <<present, file, size, inode>>
tailer == <<offset, buffer, known, stage>>
vars == <<path, tailer, delivered, follows, torn>>

Newline(b) == b[2] % LineLen[b[1]] = 0
Byte == Files \X (1..MaxSize)

TypeOK ==
  /\ present \in BOOLEAN
  /\ file \in Files /\ size \in 0..MaxSize /\ inode \in Files \cup {0}
  /\ offset \in 0..MaxSize
  /\ buffer \in Seq(Byte) /\ \A i \in 1..Len(buffer) : ~Newline(buffer[i])
  /\ known \in Files \cup {None, 0}
  /\ stage \in {"stat", "read"}
  /\ delivered \in Seq(Seq(Byte))
  /\ follows \in Files
  /\ torn \in BOOLEAN

Init ==
  /\ present = TRUE /\ file = 1 /\ size = 0 /\ inode \in {0, 1}
  /\ offset = 0 /\ buffer = <<>> /\ known = None /\ stage = "stat"
  /\ delivered = <<>>
  /\ follows = 1
  /\ torn = FALSE

-----------------------------------------------------------------------------
(* The logger and the rotation of its file *)

\* One more byte, so that a line may stay half-written for a while.
Append1 ==
  /\ present /\ size < MaxSize
  /\ OutpacesRefill =>
       \/ follows = file \/ inode # known \/ offset = 0
       \/ size + 1 < offset
  /\ size' = size + 1
  /\ UNCHANGED <<present, file, inode, tailer, delivered, follows, torn>>

\* The file may go away, and another one come, at any time: also between the
\* stat of a poll and its open.
Renamed ==
  /\ present
  /\ present' = FALSE
  /\ UNCHANGED <<file, size, inode, tailer, delivered, follows, torn>>

Created ==
  /\ ~present /\ file + 1 \in Files
  /\ present' = TRUE /\ file' = file + 1 /\ size' = 0
  /\ inode' \in {inode} \cup (IF inode = 0 THEN {} ELSE {file + 1})
  /\ torn' = (torn \/ stage = "read")
  /\ UNCHANGED <<tailer, delivered, follows>>

Truncated ==
  /\ present /\ file + 1 \in Files
  /\ file' = file + 1 /\ size' = 0
  /\ torn' = (torn \/ stage = "read")
  /\ UNCHANGED <<present, inode, tailer, delivered, follows>>

-----------------------------------------------------------------------------
(* poll() *)

\* Mutant: a rotated file is read from the top, after the old partial line.
HandleRotationKeepsBuffer(ino, sz) ==
  LET rotated == (known # None /\ ino # 0 /\ ino # known) \/ sz < offset
  IN  /\ offset' = IF rotated THEN 0 ELSE offset
      /\ buffer' = buffer
      /\ known' = ino

\* Mutant: a file of another inode counts as rotated only if it is shorter.
HandleRotationBySize(ino, sz) ==
  LET rotated == sz < offset
  IN  /\ offset' = IF rotated THEN 0 ELSE offset
      /\ buffer' = IF rotated THEN <<>> ELSE buffer
      /\ known' = ino

\* _handle_rotation()
HandleRotation(ino, sz) ==
  LET rotated == (known # None /\ ino # 0 /\ ino # known) \/ sz < offset
  IN  /\ offset' = IF rotated THEN 0 ELSE offset
      /\ buffer' = IF rotated THEN <<>> ELSE buffer
      /\ known' = ino

Stat ==
  /\ stage = "stat" /\ present
  /\ HandleRotation(inode, size)
  /\ stage' = "read"
  /\ follows' = file
  /\ UNCHANGED <<path, delivered, torn>>

\* The stat or the open fails, for want of a file or by any other OSError:
\* poll() returns nothing.
StatFails ==
  /\ stage = "stat"
  /\ UNCHANGED vars

OpenFails ==
  /\ stage = "read"
  /\ stage' = "stat"
  /\ UNCHANGED <<path, offset, buffer, known, delivered, follows, torn>>

\* The bytes from the offset on, as many as one poll takes; none if the offset
\* lies behind the end.
Chunk ==
  LET n == IF size <= offset THEN 0
           ELSE IF size - offset < ChunkLimit THEN size - offset ELSE ChunkLimit
  IN  [i \in 1..n |-> <<file, offset + i>>]

\* data.split(b"\n"): the complete lines, and what follows the last newline.
Newlines(data) == {i \in 1..Len(data) : Newline(data[i])}
LineEnd(data, k) ==
  IF k = 0 THEN 0
  ELSE CHOOSE i \in Newlines(data) : Cardinality({m \in Newlines(data) : m <= i}) = k
Lines(data) ==
  [k \in 1..Cardinality(Newlines(data)) |->
     SubSeq(data, LineEnd(data, k - 1) + 1, LineEnd(data, k) - 1)]
Partial(data) ==
  SubSeq(data, LineEnd(data, Cardinality(Newlines(data))) + 1, Len(data))

\* Mutant: every read is taken to be a full one.
ReadAssumedFull ==
  /\ stage = "read" /\ present
  /\ offset' = offset + ChunkLimit
  /\ delivered' = delivered \o Lines(buffer \o Chunk)
  /\ buffer' = Partial(buffer \o Chunk)
  /\ stage' = "stat"
  /\ UNCHANGED <<path, known, follows, torn>>

\* open, seek, read, tell.  The open handle pins the file, so that what
\* happens between these calls might as well happen before or after them.
Read ==
  /\ stage = "read" /\ present
  /\ offset' = offset + Len(Chunk)
  /\ delivered' = delivered \o Lines(buffer \o Chunk)
  /\ buffer' = Partial(buffer \o Chunk)
  /\ stage' = "stat"
  /\ UNCHANGED <<path, known, follows, torn>>

Poll == Stat \/ StatFails \/ OpenFails \/ Read

Next == Append1 \/ Renamed \/ Created \/ Truncated \/ Poll

Spec == Init /\ [][Next]_vars

\* WatchSession.run polls for ever; nobody has to write or rotate.
FairSpec == Spec /\ WF_vars(Poll)

-----------------------------------------------------------------------------
(* Properties *)

\* The n-th line of file f.
Line(f, n) == [i \in 1..(LineLen[f] - 1) |-> <<f, (n - 1) * LineLen[f] + i>>]
LineIds == {id \in Files \X (1..MaxSize) : id[2] * LineLen[id[1]] <= MaxSize}
IsLine(l, id) == l = Line(id[1], id[2])

\* "A half-written line is never parsed" (watch.py:8): what poll() returns are
\* whole lines, none of them cut, joined or begun in the middle.  It is not so
\* when a file is replaced between the stat and the open of one poll.
WholeLines ==
  \A k \in 1..Len(delivered) : \E id \in LineIds : IsLine(delivered[k], id)

\* poll() returns "only what was appended since the last poll" (watch.py:6):
\* no line twice, none out of turn and none skipped but for the unread end of
\* a file that was rotated away; each new file is read from line one.
InTurn ==
  \A k \in 1..Len(delivered), id \in LineIds : IsLine(delivered[k], id) =>
    \/ k = 1 /\ id[2] = 1
    \/ k > 1 /\ id[2] = 1 /\ \E f \in 1..(id[1] - 1), n \in 1..MaxSize :
         <<f, n>> \in LineIds /\ IsLine(delivered[k - 1], <<f, n>>)
    \/ k > 1 /\ id[2] > 1 /\ IsLine(delivered[k - 1], <<id[1], id[2] - 1>>)

\* Unless a file came in the middle of a poll: lines come whole and in turn
\* through every rotation, truncation and capped read.
RightUnlessTorn == ~torn => WholeLines /\ InTurn

\* The tailer implements LineReader, on whose lines WatchSession relies, step
\* by step as long as no poll has been torn.
Reader == INSTANCE LineReader WITH
  LineAt <- [id \in Files \X (1..MaxSize) |-> Line(id[1], id[2])],
  complete <- size \div LineLen[file],
  following <- follows,
  taken <- offset \div LineLen[follows],
  returned <- delivered
ImplementsReader == Reader!Init /\ [][~torn' => [Reader!Next]_(Reader!reader)]_vars

\* The stat and the open fail now and then, and not for ever, while there is a
\* file.
OpensAgain == SF_vars(Stat) /\ SF_vars(Read)

\* Every complete line is returned at last, unless its file goes away first,
\* however small the chunks are in which it is read, however many polls fail in
\* between and even if its file came in the middle of a poll.
CatchesUp ==
  OpensAgain => \A id \in LineIds :
    (present /\ file = id[1] /\ size >= id[2] * LineLen[id[1]]) ~>
      \/ ~present \/ file # id[1]
      \/ \E k \in 1..Len(delivered) : IsLine(delivered[k], id)
=============================================================================
