---------------------------- MODULE MCLaneProof ----------------------------
(* Starts of LaneProof for TLC: T1 asks for the full suite, T2 and T3 are  *)
(* twins, T4 is a packet with files of its own, all on one commit.  A      *)
(* start says which of them ask, how often, and what goes wrong.           *)
EXTENDS LaneProof

CONSTANTS T1, T2, T3, T4, fx, fy

Starts ==
  { [who |-> {T1, T2, T3}, asks |-> 1, faults |-> 0, flips |-> 0, crashes |-> 0],
    [who |-> {T1, T3},     asks |-> 2, faults |-> 1, flips |-> 0, crashes |-> 0],
    [who |-> {T2, T3},     asks |-> 2, faults |-> 0, flips |-> 0, crashes |-> 1],
    [who |-> {T2, T4},     asks |-> 1, faults |-> 1, flips |-> 1, crashes |-> 0],
    [who |-> {T1},         asks |-> 1, faults |-> 1, flips |-> 2, crashes |-> 0] }

StartIn(s) ==
  /\ InitRest
  /\ ask = [t \in Asker |-> IF t \in s.who THEN [Idle EXCEPT !.asks = MaxAsks - s.asks] ELSE [Idle EXCEPT !.at = "answered"]]
  /\ spent = [faults |-> MaxFaults - s.faults, flips |-> MaxFlips - s.flips, crashes |-> MaxCrashes - s.crashes]
=============================================================================
