---------------------------- MODULE MCTuiSession ----------------------------
(* The instance of TuiSession for TLC: its constants are in the cfg files. *)
EXTENDS TuiSession
=============================================================================
