---------------------------- MODULE MCLaneDriver ----------------------------
(***************************************************************************)
(* Instances of LaneDriver for TLC.  Two builders share a path and the     *)
(* opencode slot; the codex review has a slot of its own.  A start chooses *)
(* which rows are still open and how the bounded events are spent.         *)
(***************************************************************************)
EXTENDS LaneDriver, TLC

CONSTANTS b1, b2, rv, opencode, codex

Runs  == (b1 :> opencode) @@ (b2 :> codex) @@ (rv :> codex)
Owned == (b1 :> "src") @@ (b2 :> "src") @@ (rv :> "review")

(* open rows, and the faults, operator commands and crashes left           *)
Starts ==
  { [open |-> {b1, rv}, faults |-> 1, ops |-> 0, crashes |-> 1],
    [open |-> {b1, rv}, faults |-> 0, ops |-> 1, crashes |-> 0],
    [open |-> {b1, b2}, faults |-> 1, ops |-> 0, crashes |-> 0],
    [open |-> {b2, rv}, faults |-> 0, ops |-> 0, crashes |-> 1],
    [open |-> {b1},     faults |-> 3, ops |-> 0, crashes |-> 1],
    [open |-> {b1},     faults |-> 1, ops |-> 1, crashes |-> 0],
    [open |-> {b1},     faults |-> 0, ops |-> 2, crashes |-> 1] }

StartIn(s) ==
  /\ st = [t \in Task |-> IF t \in s.open THEN "READY" ELSE "VERIFIED"]
  /\ faults = MaxFaults - s.faults
  /\ ops = MaxOps - s.ops
  /\ crashes = MaxCrashes - s.crashes
  /\ InitRest

Spec_Starts == (\E s \in Starts : StartIn(s)) /\ [][Next]_vars /\ Fairness
=============================================================================
