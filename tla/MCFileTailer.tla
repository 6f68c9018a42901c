---------------------------- MODULE MCFileTailer ----------------------------
(* Instances of FileTailer for TLC. *)
EXTENDS FileTailer

\* Lines of different lengths, so that an offset that is a line's end in one
\* file is the middle of a line in the next.
MCLineLen == <<2, 3, 2>>
=============================================================================
