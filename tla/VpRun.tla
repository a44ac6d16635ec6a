------------------------------- MODULE VpRun -------------------------------
(***************************************************************************)
(* The run row of the authority store (vp/vpstore.py, "run" section) and   *)
(* the STOP file beside it.  Every verb is one transaction.  Together they *)
(* form the gate that assign, claim and promote_prepare read.              *)
(***************************************************************************)

VARIABLES
  run,        \* status of the current (latest) run row, "NONE" before run_init
  stopFile    \* does the STOP file exist under the store's root

runVars == <<run, stopFile>>

RunStatuses == {"RUNNING", "STOPPING", "STOPPED", "INHIBITED"}

RunTypeOK ==
  /\ run \in RunStatuses \cup {"NONE"}
  /\ stopFile \in BOOLEAN

RunStart == run = "NONE" /\ stopFile = FALSE

SetRun(status) == run' = status /\ UNCHANGED stopFile

(* Any later run_init adds a row under a new run_id; the latest row is the *)
(* current run.                                                            *)
RunInit == SetRun("RUNNING")

RunStop == run # "NONE" /\ SetRun("STOPPING")

RunInhibitSet == run # "NONE" /\ SetRun("INHIBITED")

RunInhibitClear == run \notin {"NONE", "STOPPING"} /\ SetRun("RUNNING")

RunResume ==
  /\ run \notin {"NONE", "RUNNING"}
  /\ ~stopFile
  /\ SetRun("RUNNING")

RunFinish == run # "NONE" /\ SetRun("STOPPED")

(* The owner touches or removes the file by hand.                          *)
StopFileToggle == stopFile' = ~stopFile /\ UNCHANGED run

RunNext ==
  \/ RunInit \/ RunStop \/ RunInhibitSet \/ RunInhibitClear
  \/ RunResume \/ RunFinish \/ StopFileToggle

(* The condition assign, claim and promote_prepare test before they move   *)
(* anything.                                                               *)
GateOpen == run = "RUNNING" /\ ~stopFile
=============================================================================
