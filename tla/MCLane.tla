------------------------------- MODULE MCLane -------------------------------
(***************************************************************************)
(* Instances of the parts of a lane's way for TLC: the rounds of a build   *)
(* (LaneBuild), the unions under builds and reviews (LaneUnion), the       *)
(* proofs (LaneProof), the hosted twins (HostedTwins) and the merge gate   *)
(* of the lanes before them (MergeGate).  A start chooses a part and one   *)
(* of its starts; the variables of the others keep theirs.                 *)
(***************************************************************************)
EXTENDS MCMergeGate, Sequences

CONSTANTS
  Rounds, MaxHeads, MaxSlips,
  a, b, Member, Clash, ExcludeMax, MaxVersions, MaxUnions, MaxMoves, MaxFaults,
  T1, T2, T3, T4, fx, fy, Asker, File, Wants, FilesOf, Touched,
  FullCap, OnlyCap, DailyCap, BoxSlots, Host, MaxAsks, MaxFlips, MaxCrashes,
  h, p, q, hb, qb, TwinRow, Circle, Canary, Platform, NeedsAll, Owes, ParentOf, RowsOf, TestPaths, Named,
  MaxRetries, MaxTrouble, MaxEdits

VARIABLES
  part,
  needs, twin, regrade, cap, head, result, findings, rounds, pending, proofs,
  step, rnd, prior, skip, resumeProof, prec, again, done, turns, excused, slips,
  out, ver, mainline, cand, docs, logged, base, tree, rstage, rbase, rtree, subject, verdict, moves, mishaps,
  red, pipes, recs, ledger, ask, full, only, onbox, host, off, open, spent,
  roster, mem, trow, trun, trecs, tout, hosted, cli, earned, tspent

Build == INSTANCE MCLaneBuild WITH pc <- step, last <- prior
Union == INSTANCE MCLaneUnion WITH faults <- mishaps, trunk <- mainline
Proof == INSTANCE MCLaneProof WITH gate <- open, box <- onbox
Twins == INSTANCE MCHostedTwins
  WITH row <- trow, run <- trun, recs <- trecs, out <- tout, spent <- tspent, Twin <- TwinRow, Of <- ParentOf, Rows <- RowsOf

Clashes == {{<<a, 2>>, <<b, 1>>}}
Scopes  == [t \in Asker |-> CASE t = T1 -> "full" [] t = T4 -> "plain" [] OTHER -> "twin"]
Owned   == [t \in Asker |-> CASE t = T2 -> {fx} [] t = T3 -> {fy} [] OTHER -> {fx, fy}]
Changed == [t \in Asker |-> IF t = T2 THEN {} ELSE {fx}]
Parents == [t \in {h, p, q} |-> IF t = h THEN "A" ELSE "B"]
OwnRows == [t \in {h, p, q} |-> CASE t = p -> {hb} [] t = q -> {qb} [] OTHER -> {}]
Paths   == [t \in {h, p, q} |-> {fx}]
NoTests == [t \in {h, p, q} |-> {}]

ASSUME PartsAssumption ==
  Build!BuildAssumption /\ Union!UnionAssumption /\ Proof!ProofAssumption /\ Twins!TwinsAssumption

NoBuild == Build!StartIn(CHOOSE s \in Build!Starts : s.regrade = 0) /\ proofs = {}
NoUnion == Union!StartIn(CHOOSE s \in Union!Starts : s.top = 0)
NoProof == Proof!StartIn(CHOOSE s \in Proof!Starts : s.who = {T1}) /\ red = {}
NoTwins == Twins!StartIn(CHOOSE s \in Twins!Starts : ~s.scoping)
NoMerge  == StartIn(CHOOSE s \in Cases : s.runs = 2)

LaneInit ==
  \/ part = "build" /\ (\E s \in Build!Starts : Build!StartIn(s)) /\ NoUnion /\ NoProof /\ NoTwins /\ NoMerge
  \/ part = "union" /\ NoBuild /\ (\E s \in Union!Starts : Union!StartIn(s)) /\ NoProof /\ NoTwins /\ NoMerge
  \/ part = "proof" /\ NoBuild /\ NoUnion /\ (\E s \in Proof!Starts : Proof!StartIn(s)) /\ NoTwins /\ NoMerge
  \/ part = "twins" /\ NoBuild /\ NoUnion /\ NoProof /\ (\E s \in Twins!Starts : Twins!StartIn(s)) /\ NoMerge
  \/ part = "gate" /\ NoBuild /\ NoUnion /\ NoProof /\ NoTwins /\ (\E s \in Cases : StartIn(s))

buildVars == <<needs, twin, regrade, cap, head, result, findings, rounds, pending, proofs,
               step, rnd, prior, skip, resumeProof, prec, again, done, turns, excused, slips>>
unionVars == <<out, ver, mainline, cand, docs, logged, base, tree, rstage, rbase, rtree, subject, verdict, moves, mishaps>>
proofVars == <<red, pipes, recs, ledger, ask, full, only, onbox, host, off, open, spent>>
twinVars  == <<roster, mem, trow, trun, trecs, tout, hosted, cli, earned, tspent>>
laneVars  == <<part, buildVars, unionVars, proofVars, twinVars, vars>>

InBuild == part = "build" /\ UNCHANGED <<part, unionVars, proofVars, twinVars, vars>>
InUnion == part = "union" /\ UNCHANGED <<part, buildVars, proofVars, twinVars, vars>>
InProof == part = "proof" /\ UNCHANGED <<part, buildVars, unionVars, twinVars, vars>>
InTwins == part = "twins" /\ UNCHANGED <<part, buildVars, unionVars, proofVars, vars>>
InGate  == part = "gate" /\ UNCHANGED <<part, buildVars, unionVars, proofVars, twinVars>>

LaneNext ==
  \/ InBuild /\ Build!Next
  \/ InUnion /\ Union!Next
  \/ InProof /\ Proof!Next
  \/ InTwins /\ Twins!Next
  \/ InGate /\ Next

LaneFairness ==
  /\ WF_laneVars(InBuild /\ Build!Work)
  /\ \A g \in Items : WF_laneVars(InGate /\ Step(g))

LaneSpec == LaneInit /\ [][LaneNext]_laneVars /\ LaneFairness

(* LaneBuild: every turn of the builder is counted against its rounds.     *)
TurnsAreCounted == Build!TurnsAreCounted
(* LaneBuild: every build comes to an end.                                 *)
Closes == part = "build" => Build!Closes
(* LaneUnion: a row is claimed on the union of the day.                    *)
ClaimedOnCurrent == Union!ClaimedOnCurrent
(* LaneUnion: a review's verdict is about a tree the reviewer saw.         *)
VerdictWasSeen == Union!VerdictWasSeen
(* LaneProof: slots and hosts that are counted are held, within limits.    *)
SlotsAreCounted == Proof!SlotsAreCounted
(* LaneProof: a pass hides no red file of its row.                         *)
PassHidesNoRed == Proof!PassHidesNoRed
(* LaneProof: a pass on record as the full suite's is one of it.           *)
FullPassIsFull == Proof!FullPassIsFull
(* HostedTwins: a parent's record is cleared on what was reported, and     *)
(* while the canary has not passed no other twin runs the full suite.      *)
TwinsAreGraded == Twins!ClearedIsEarned /\ Twins!CanaryFirst
(* MergeGate: every gate ends and leaves no lock of its own.               *)
GatesEnd == part = "gate" => Ends
=============================================================================
