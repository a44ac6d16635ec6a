--------------------------- MODULE MCHostedTwins ---------------------------
(* Starts of HostedTwins for TLC: h is the canary's twin, p and q carry    *)
(* the rows of one parent, p behind CIRCLECI and q behind another gate.    *)
EXTENDS HostedTwins

CONSTANTS h, p, q

Starts ==
  { [scoping |-> FALSE, ready |-> {h, p}, trouble |-> 1, edits |-> 0],
    [scoping |-> TRUE,  ready |-> {p, q}, trouble |-> 0, edits |-> 2],
    [scoping |-> TRUE,  ready |-> {p, q}, trouble |-> 1, edits |-> 0] }

StartIn(s) ==
  /\ InitWith(s.scoping, s.ready)
  /\ spent = [trouble |-> MaxTrouble - s.trouble, edits |-> MaxEdits - s.edits]
=============================================================================
