-------------------------------- MODULE MCVp --------------------------------
(***************************************************************************)
(* Instances of the parts of the v12 driver for TLC: the rounds of the     *)
(* items (VpTurns), the runs of models a turn is made of (Runners) and the *)
(* unions the rounds end in (VpUnions).  A start chooses a part and one of *)
(* its starts; the variables of the others keep theirs.                    *)
(***************************************************************************)
EXTENDS Naturals, FiniteSets

CONSTANTS
  i, j, Items, None,
  RoundCap, FailCap, Room, TurnFaults,
  Ways, ProofSlots, UnionSlots, InfraCap, MaxUnions, MaxProofs, MaxRounds,
  MaxOps, MaxFaults, MaxCrashes,
  MaxResumes, MaxRuns, MaxMessages, MaxSlips

VARIABLES
  half,
  rows, turn, busy, park, strike, rerun, senior, edited, stopFile, proc, todo, seen, used,
  item, union, proof, trees, thr, main, cancel, infra, up, spent,
  kind, run, msgs, work, held, lost, rec, stop, late, outcome, slips

Turns  == INSTANCE MCVpTurns WITH item <- rows, spent <- used, MaxFaults <- TurnFaults
Unions == INSTANCE MCVpUnions
Runs   == INSTANCE Runners

ASSUME HalvesAssumption == Turns!TurnsAssumption /\ Unions!UnionsAssumption /\ Runs!RunnersAssumption

MCRoom == [server |-> 1, codex |-> 2, claude |-> 2]
MCWays == [x \in Items |-> IF x = i THEN {"box", "circle"} ELSE {"kinds"}]

NoTurns ==
  /\ Turns!Init
  /\ rows = [x \in Items |-> [st |-> "READY", round |-> 0, rev |-> 0, att |-> FALSE, from |-> None]]
  /\ used = [ops |-> MaxOps, faults |-> TurnFaults, crashes |-> MaxCrashes]
NoUnions == Unions!TwoItems
NoRuns   == Runs!Init /\ kind = "http"

Init ==
  \/ half = "turns" /\ Turns!Init_Starts /\ NoUnions /\ NoRuns
  \/ half = "unions" /\ NoTurns /\ Unions!Init_Starts /\ NoRuns
  \/ half = "runs" /\ NoTurns /\ NoUnions /\ Runs!Init

turnVars  == <<rows, turn, busy, park, strike, rerun, senior, edited, stopFile, proc, todo, seen, used>>
unionVars == <<item, union, proof, trees, thr, main, cancel, infra, up, spent>>
runVars   == <<kind, run, msgs, work, held, lost, rec, stop, late, outcome, slips>>
vars      == <<half, turnVars, unionVars, runVars>>

InTurns  == half = "turns" /\ UNCHANGED <<half, unionVars, runVars>>
InUnions == half = "unions" /\ UNCHANGED <<half, turnVars, runVars>>
InRuns   == half = "runs" /\ UNCHANGED <<half, turnVars, unionVars>>

Next ==
  \/ InTurns /\ Turns!Next
  \/ InUnions /\ Unions!Next
  \/ InRuns /\ Runs!Next

(* The fairness of the parts.                                              *)
Fairness ==
  /\ WF_vars(InTurns /\ Turns!LoopStep) /\ WF_vars(InTurns /\ Turns!Restart)
  /\ \A x \in Items : WF_vars(InTurns /\ Turns!ThreadStep(x)) /\ WF_vars(InTurns /\ Turns!BackoffOver(x))
  /\ \A r \in Turns!Runners : WF_vars(InTurns /\ Turns!ParkOver(r))
  /\ WF_vars(InUnions /\ Unions!LoopStep) /\ WF_vars(InUnions /\ Unions!Restart)
  /\ \A x \in Items : WF_vars(InUnions /\ Unions!ThreadStep(x))
  /\ \A u \in 1 .. MaxUnions : WF_vars(InUnions /\ u \in Unions!Unions /\ Unions!WaitOver(u))
  /\ WF_vars(InRuns /\ Runs!RunnerStep) /\ WF_vars(InRuns /\ Runs!Deadline)

Spec == Init /\ [][Next]_vars /\ Fairness

(* VpTurns and Runners: an attempt is RUNNING only while a thread runs the *)
(* model, no model goes on when its run has ended, and what counts as done *)
(* was written by the run that says so.                                    *)
TurnsAreOwned == Turns!AttemptsAreOwned /\ Runs!NoneLeftBehind /\ Runs!DoneIsOwn
(* VpTurns: a turn starts only for the role its item is due for.           *)
TurnsAreDue == Turns!TurnsAreDue
(* VpUnions: no proof of a candidate while its backoff runs.               *)
WaitingIsQuiet == Unions!WaitingIsQuiet
(* VpUnions: an approval is one of the candidate the item holds.           *)
ApprovedAsReviewed == Unions!ApprovedAsReviewed
(* Every item comes to rest, no union stands on one that died, and every   *)
(* run of a model ends.                                                    *)
Settles ==
  (half = "unions" => Unions!Undisturbed)
    => []<>CASE half = "turns"  -> Turns!Settled
             [] half = "unions" -> Unions!AtRest
             [] half = "runs"   -> Runs!Ended
=============================================================================
