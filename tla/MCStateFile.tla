---------------------------- MODULE MCStateFile ----------------------------
(* Instances of StateFile for TLC.                                         *)
EXTENDS StateFile
=============================================================================
