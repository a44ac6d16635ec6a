---------------------------- MODULE MCMergeGate ----------------------------
(* Instances of MergeGate for TLC: two gates over a box whose owner is     *)
(* gone, two over the portal lock, one item gated twice with its review,   *)
(* on autopilot.                                                           *)
EXTENDS MergeGate

CONSTANTS i, j

Cases ==
  { [asks |-> [g \in Items |-> {"box"}], box |-> Taken, portal |-> Free, runs |-> 1, kills |-> 1],
    [asks |-> [g \in Items |-> {"portal"}], box |-> Free, portal |-> Taken, runs |-> 1, kills |-> 1],
    [asks |-> [g \in Items |-> IF g = i THEN {"codex", "box", "autopilot"} ELSE {}], box |-> Free, portal |-> Free, runs |-> 2, kills |-> 1] }

StartIn(s) ==
  /\ asks = s.asks /\ box = s.box /\ portal = s.portal /\ kills = MaxKills - s.kills
  /\ run = [g \in Items |-> IF s.asks[g] = {} THEN MaxRuns ELSE MaxRuns - s.runs]
  /\ lane = [g \in Items |-> IF s.runs = 2 THEN 1 ELSE MaxCommits] /\ gate = [g \in Items |-> NoGate]
  /\ review = [g \in Items |-> NoReview] /\ last = [g \in Items |-> Nothing] /\ wall = FALSE /\ tests = {} /\ trunk = {}
  /\ row = [g \in Items |-> [status |-> "reported", sha |-> 0]]

=============================================================================
