----------------------------- MODULE LineReader -----------------------------
(***************************************************************************)
(* What a tailer promises to the watch session that polls it, whatever     *)
(* becomes of the log file: of the files that stand at the path one after  *)
(* another it follows one at a time, none again that it left, and returns  *)
(* the complete lines of that file from the first on, each once, none      *)
(* before its newline was written.  Bytes, offsets, inode numbers and the  *)
(* size of reads do not show.  FileTailer implements this specification as *)
(* long as no new file comes in the middle of a poll.                      *)
(***************************************************************************)
EXTENDS Integers, Sequences

CONSTANTS
  Files,      \* the files that stand at the path, numbered in that order
  LineAt      \* LineAt[<<f, n>>]: the n-th line of file f

VARIABLES
  file,       \* the file at the path
  complete,   \* how many of its lines end with a newline so far
  following,  \* the file that is followed
  taken,      \* how many of its lines have been returned
  returned    \* all lines that have been returned

reader == <<file, complete, following, taken, returned>>

Init == file = 1 /\ complete = 0 /\ following = 1 /\ taken = 0 /\ returned = <<>>

Write ==
  /\ complete' = complete + 1
  /\ UNCHANGED <<file, following, taken, returned>>

Replace ==
  /\ \E g \in Files : g > file /\ file' = g
  /\ complete' = 0
  /\ UNCHANGED <<following, taken, returned>>

\* The unread rest of the file that is left is lost.
Switch ==
  /\ following < file
  /\ following' = file /\ taken' = 0
  /\ UNCHANGED <<file, complete, returned>>

Return(n) ==
  /\ following = file /\ taken + n <= complete
  /\ returned' = returned \o [k \in 1..n |-> LineAt[<<following, taken + k>>]]
  /\ taken' = taken + n
  /\ UNCHANGED <<file, complete, following>>

Next == Write \/ Replace \/ Switch \/ \E n \in 1..complete : Return(n)

Spec == Init /\ [][Next]_reader
=============================================================================
