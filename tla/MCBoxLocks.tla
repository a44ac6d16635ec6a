----------------------------- MODULE MCBoxLocks -----------------------------
(***************************************************************************)
(* Instances of BoxLocks for TLC.                                          *)
(***************************************************************************)
EXTENDS BoxLocks
=============================================================================
