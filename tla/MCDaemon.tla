------------------------------ MODULE MCDaemon ------------------------------
(***************************************************************************)
(* Instances of the two halves of the daemon's tick for TLC: the executor  *)
(* sessions (Dispatcher) and the Codex slots (CodexSlots), on one queue.   *)
(* A start chooses a half; the variables of the other keep theirs.  The    *)
(* first slot rotates, the second is routed to one account.                *)
(***************************************************************************)
EXTENDS MCDispatcher

CONSTANTS g1, g2, z1, NSlots, Go, Zen, Named, Route, CodexTrouble

VARIABLES part, cw, cdisk, conv, work, cproc, chold, cspent

NoName == [i \in Items |-> None]
Routes == [s \in 1..2 |-> IF s = 1 THEN "rotate" ELSE g1]

Codex == INSTANCE MCCodexSlots
  WITH w <- cw, disk <- cdisk, proc <- cproc, hold <- chold, spent <- cspent,
       MaxTrouble <- CodexTrouble

ASSUME CodexAssumption == Codex!SlotsAssumption

codexVars == <<cw, cdisk, conv, work, cproc, chold, cspent>>
allVars   == <<part, vars, codexVars>>

DaemonInit ==
  /\ Init
  /\ \/ part = "tick" /\ Codex!StartIn([queued |-> {}, trouble |-> 0])
     \/ part = "codex" /\ \E s \in Codex!Starts : Codex!StartIn(s)

InTick  == part = "tick" /\ UNCHANGED <<part, codexVars>>
InCodex == part = "codex" /\ UNCHANGED <<part, vars>>

DaemonNext ==
  \/ InTick /\ Next
  \/ InCodex /\ Codex!Next

DaemonFairness ==
  /\ WF_allVars(InTick /\ Tick) /\ WF_allVars(InTick /\ Starts) /\ WF_allVars(InTick /\ ~net /\ Outage)
  /\ \A e \in Execs : WF_allVars(InTick /\ PlanReviewed(e)) /\ WF_allVars(InTick /\ Session(e))
  /\ \A i \in Items : WF_allVars(InTick /\ Gates(i)) /\ WF_allVars(InTick /\ GateStamps(i))
  /\ WF_allVars(InCodex /\ Codex!Tick) /\ WF_allVars(InCodex /\ Codex!Restarts) /\ WF_allVars(InCodex /\ Codex!GapOver)
  /\ \A p \in Codex!Profiles : WF_allVars(InCodex /\ Codex!HoldOver(p))
  /\ \A s \in Codex!Slots : WF_allVars(InCodex /\ s \in chold /\ Codex!HoldsFeed(s))
  /\ WF_allVars(InCodex /\ \E n \in DOMAIN work : Codex!WorkerEnds(n))

DaemonSpec == DaemonInit /\ [][DaemonNext]_allVars /\ DaemonFairness

(* Two builders never work on one worktree: no two sessions' items share   *)
(* one, and no two Codex workers write one.                                *)
OneBuilder == OneBuilderPerWorktree /\ Codex!OneWriterPerTree
(* CodexSlots: a conversation keeps its account.                           *)
AccountStays == Codex!AccountStays
(* An executor that is done is given the next item, and every item of the  *)
(* Codex slots is brought to BOSS.                                         *)
NobodyWaits == []<>IF part = "tick" THEN \A e \in Execs : Served(e) ELSE Codex!AllWithBoss
=============================================================================
