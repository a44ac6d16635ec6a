---------------------------- MODULE MCLaneUnion ----------------------------
(***************************************************************************)
(* Instances of LaneUnion for TLC.  A start chooses which of the two rows  *)
(* is open and how the bounded versions, moves and faults are spent.       *)
(***************************************************************************)
EXTENDS LaneUnion

CONSTANTS a, b

Clashes == {{<<a, 2>>, <<b, 1>>}}

Starts ==
  { [review |-> FALSE, top |-> 1, a |-> 1, b |-> 2, moves |-> 0, faults |-> 1],
    [review |-> FALSE, top |-> 2, a |-> 2, b |-> 1, moves |-> 0, faults |-> 0],
    [review |-> FALSE, top |-> 1, a |-> 1, b |-> 1, moves |-> 2, faults |-> 1],
    [review |-> TRUE,  top |-> 0, a |-> 2, b |-> 1, moves |-> 0, faults |-> 0],
    [review |-> TRUE,  top |-> 0, a |-> 1, b |-> 1, moves |-> 2, faults |-> 1] }

StartIn(s) ==
  /\ ver = [t \in Row |-> MaxVersions - (CASE t = a -> s.a [] t = b -> s.b [] OTHER -> s.top)]
  /\ rstage = IF s.review THEN "ready" ELSE "refused"
  /\ moves = MaxMoves - s.moves /\ faults = MaxFaults - s.faults
  /\ InitRest

Spec_Starts == (\E s \in Starts : StartIn(s)) /\ [][Next]_vars
=============================================================================
