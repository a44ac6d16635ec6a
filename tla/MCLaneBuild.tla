---------------------------- MODULE MCLaneBuild ----------------------------
(***************************************************************************)
(* Instances of LaneBuild for TLC.  A start chooses the row and what may   *)
(* go wrong: rows that owe a proof meet two slips, the others one.         *)
(***************************************************************************)
EXTENDS LaneBuild

Starts ==
  { [needs |-> TRUE,  twin |-> FALSE, regrade |-> 0, slips |-> 2],
    [needs |-> TRUE,  twin |-> TRUE,  regrade |-> 0, slips |-> 2],
    [needs |-> TRUE,  twin |-> FALSE, regrade |-> 2, slips |-> 1],
    [needs |-> FALSE, twin |-> FALSE, regrade |-> 2, slips |-> 1],
    [needs |-> FALSE, twin |-> FALSE, regrade |-> 0, slips |-> 1] }

StartIn(s) ==
  /\ needs = s.needs /\ twin = s.twin /\ regrade = s.regrade
  /\ slips = MaxSlips - s.slips
  /\ proofs \in SUBSET [sha : IF s.regrade = 0 THEN {} ELSE {s.regrade}, status : Answers, by : {"other"}]
  /\ InitRest

Spec_Starts == (\E s \in Starts : StartIn(s)) /\ [][Next]_vars /\ Fairness
=============================================================================
