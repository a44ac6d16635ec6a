--------------------------- MODULE VpStore_proofs ---------------------------
(***************************************************************************)
(* Theorems about the authority store, for every number of items, commits, *)
(* unions, proofs, promotions, reviewers and groups.                       *)
(***************************************************************************)
EXTENDS VpStore, TLAPS

(* _set_item keeps the types of the columns it writes.                     *)
LEMMA SetStatusType ==
  ASSUME TypeOK, NEW S \in SUBSET Items, NEW new \in ItemStatuses, SetStatus(S, new)
  PROVE  /\ status' \in [Items -> ItemStatuses]
         /\ pausedFrom' \in [Items -> ItemStatuses \cup {None}]
         /\ unionOf' \in [Items -> Unions \cup {None}]
         /\ ustatus' \in [Unions -> UnionStatuses]
         /\ fresh' \in [Items -> BOOLEAN]
         /\ uitems' = uitems /\ ubase' = ubase
<1>1. status' \in [Items -> ItemStatuses]
  BY DEF SetStatus, TypeOK
<1>2. pausedFrom' \in [Items -> ItemStatuses \cup {None}]
  BY DEF SetStatus, TypeOK
<1>3. unionOf' \in [Items -> Unions \cup {None}]
  BY DEF SetStatus, TypeOK
<1>4. ustatus' \in [Unions -> UnionStatuses]
  BY DEF SetStatus, FailUnions, TypeOK, UnionStatuses
<1>5. fresh' \in [Items -> BOOLEAN]
  BY DEF SetStatus, BumpRev, TypeOK
<1>6. QED BY <1>1, <1>2, <1>3, <1>4, <1>5 DEF SetStatus

LEMMA MoveType ==
  ASSUME TypeOK, NEW S \in SUBSET Items, NEW new \in ItemStatuses, Move(S, new)
  PROVE  /\ status' \in [Items -> ItemStatuses]
         /\ pausedFrom' \in [Items -> ItemStatuses \cup {None}]
         /\ unionOf' \in [Items -> Unions \cup {None}]
         /\ ustatus' \in [Unions -> UnionStatuses]
         /\ fresh' \in [Items -> BOOLEAN]
         /\ uitems' = uitems /\ ubase' = ubase
         /\ cand' \in [Items -> Shas \cup {None}]
<1>1. SetStatus(S, new)
  BY DEF Move
<1>2. cand' \in [Items -> Shas \cup {None}]
  BY DEF Move, Restored, TypeOK, Shas
<1>3. QED BY <1>1, <1>2, SetStatusType

LEMMA StatusNames ==
  ItemStatuses = {"NEW", "READY", "ASSIGNED", "BUILDING", "GRADING", "JUNIOR_SATISFIED",
                  "PREPARING", "PREPARED", "PROOF_PENDING", "FINAL_REVIEW", "APPROVED",
                  "PROMOTED", "PAUSED", "BLOCKED", "STOPPED"}
  BY DEF ItemStatuses, Transitions

LEMMA ProofMovesTyped ==
  ASSUME NEW new \in ProofStatuses \ {"NONE"}
  PROVE  ProofMoves[new].to \in ItemStatuses
  BY StatusNames DEF ProofMoves, ProofStatuses

(* Every column keeps its type.                                            *)
THEOREM StoreTypeOK == Spec => []TypeOK
<1>1. Init => TypeOK
  <2> SUFFICES ASSUME Init PROVE TypeOK
    OBVIOUS
  <2>1. RunTypeOK
    BY DEF Init, RunStart, RunTypeOK
  <2>2. round \in [Items -> 0..RoundCap]
    BY StoreAssumption DEF Init, StoreStart
  <2>3. approvals \in SUBSET (Items \X Shas) /\ passed \in SUBSET Shas
    BY DEF Init, StoreStart
  <2>4. QED BY <2>1, <2>2, <2>3, StatusNames
            DEF Init, StoreStart, TypeOK, UnionStatuses, ProofStatuses, PromoStatuses
<1>2. TypeOK /\ [Next]_vars => TypeOK'
  <2> SUFFICES ASSUME TypeOK, [Next]_vars PROVE TypeOK'
    OBVIOUS
  <2> USE StatusNames
  <2>1. ASSUME NEW i \in Items, ItemStep(i) PROVE TypeOK'
    <3>1. CASE PacketReady(i)
      BY <3>1 DEF PacketReady, TypeOK, RunTypeOK, runVars, unionVars, proofVars, reviewVars, promoVars
    <3>2. CASE ReportItems(i)
      BY <3>2 DEF ReportItems, TypeOK, RunTypeOK, runVars, unionVars, proofVars, reviewVars, promoVars
    <3>3. CASE Claim(i)
      BY <3>3, MoveType DEF Claim, TypeOK, RunTypeOK, runVars, proofVars, reviewVars, promoVars
    <3>4. CASE ItemUnassign(i)
      BY <3>4, MoveType DEF ItemUnassign, TypeOK, RunTypeOK, runVars, proofVars, reviewVars, promoVars
    <3>5. CASE ItemRebase(i)
      BY <3>5 DEF ItemRebase, BumpRev, TypeOK, RunTypeOK, runVars, unionVars, proofVars, reviewVars, promoVars
    <3>6. CASE ItemPause(i)
      BY <3>6, MoveType DEF ItemPause, TypeOK, RunTypeOK, runVars, proofVars, reviewVars, promoVars
    <3>7. CASE ItemResume(i)
      BY <3>7, MoveType DEF ItemResume, TypeOK, RunTypeOK, runVars, proofVars, reviewVars, promoVars
    <3>8. CASE ItemBlock(i)
      BY <3>8, MoveType DEF ItemBlock, TypeOK, RunTypeOK, runVars, proofVars, reviewVars, promoVars
    <3>9. ASSUME NEW g \in Groups, Assign(i, g) PROVE TypeOK'
      BY <3>9, MoveType DEF Assign, TypeOK, RunTypeOK, runVars, proofVars, reviewVars, promoVars
    <3>10. ASSUME NEW to \in {"READY", "GRADING"}, ItemUnblock(i, to) PROVE TypeOK'
      BY <3>10, MoveType DEF ItemUnblock, TypeOK, RunTypeOK, runVars, proofVars, reviewVars, promoVars
    <3>11. ASSUME NEW c \in CommitsOf[i], SubmitResult(i, c) PROVE TypeOK'
      <4>1. c \in Commits
        BY <3>11, StoreAssumption
      <4>2. QED BY <3>11, <4>1, SetStatusType
                DEF SubmitResult, TypeOK, RunTypeOK, Shas, runVars, proofVars, reviewVars, promoVars
    <3>12. ASSUME NEW satisfied \in BOOLEAN, Findings(i, satisfied) PROVE TypeOK'
      <4>1. NextRound(i) \in 0..RoundCap
        BY StoreAssumption DEF NextRound, TypeOK
      <4>2. QED BY <3>12, <4>1, MoveType
                DEF Findings, TypeOK, RunTypeOK, runVars, proofVars, reviewVars, promoVars
    <3>13. ASSUME NEW r \in Reviewers, NEW verdict \in Verdicts, PlanReview(i, r, verdict) PROVE TypeOK'
      BY <3>13, MoveType DEF PlanReview, AtSenior, TypeOK, RunTypeOK, runVars, proofVars, promoVars
    <3>14. ASSUME NEW r \in Reviewers, NEW verdict \in Verdicts, NEW c \in Shas, CodeReview(i, r, c, verdict) PROVE TypeOK'
      BY <3>14, MoveType DEF CodeReview, TypeOK, RunTypeOK, runVars, proofVars, promoVars
    <3>15. QED BY <2>1, <3>1, <3>2, <3>3, <3>4, <3>5, <3>6, <3>7, <3>8, <3>9, <3>10, <3>11, <3>12, <3>13, <3>14 DEF ItemStep
  <2>2. ASSUME NEW u \in Unions, UnionStep(u) PROVE TypeOK'
    <3>1. ASSUME NEW S \in SUBSET Items, NEW base \in Recorded \cup {None}, UnionRecord(S, u, base)
          PROVE TypeOK'
      BY <3>1 DEF UnionRecord, BumpRev, Recorded, TypeOK, RunTypeOK, UnionStatuses, Shas,
                  runVars, proofVars, reviewVars, promoVars
    <3>2. ASSUME NEW new \in UnionMarks, UnionStatus(u, new) PROVE TypeOK'
      BY <3>2, StoreAssumption DEF UnionStatus, UnionStatuses, TypeOK, RunTypeOK, runVars, itemVars,
                  proofVars, reviewVars, promoVars
    <3>3. CASE UnionCancel(u)
      BY <3>3 DEF UnionCancel, OnUnionPath, BumpRev, Restored, Shas, UnionStatuses, ProofStatuses,
                  TypeOK, RunTypeOK, runVars, reviewVars, promoVars
    <3>4. QED BY <2>2, <3>1, <3>2, <3>3 DEF UnionStep
  <2>3. ASSUME NEW p \in Proofs, ProofStep(p) PROVE TypeOK'
    <3>1. ASSUME NEW sha \in Commits \cup Recorded, ProofRequest(p, sha) PROVE TypeOK'
      BY <3>1, MoveType, StoreAssumption DEF ProofRequest, Candidates, Recorded, Shas, ProofStatuses, TypeOK, RunTypeOK,
                  runVars, reviewVars, promoVars
    <3>2. ASSUME NEW new \in ProofStatuses \ {"NONE"}, ProofRecord(p, new) PROVE TypeOK'
      <4>1. Move({i \in Candidates(pcand[p]) : status[i] \in ProofMoves[new].from}, ProofMoves[new].to)
        BY <3>2 DEF ProofRecord
      <4>2. {i \in Candidates(pcand[p]) : status[i] \in ProofMoves[new].from} \in SUBSET Items
        BY DEF Candidates
      <4>3. pcand[p] \in Shas
        BY <3>2 DEF ProofRecord, TypeOK
      <4>4. QED BY <3>2, <4>1, <4>2, <4>3, MoveType, ProofMovesTyped
                DEF ProofRecord, TypeOK, RunTypeOK, runVars, reviewVars, promoVars
    <3>3. QED BY <2>3, <3>1, <3>2 DEF ProofStep
  <2>4. ASSUME NEW m \in Promos, PromoStep(m) PROVE TypeOK'
    <3>1. ASSUME NEW S \in SUBSET Items \ {{}}, NEW sha \in Shas, NEW p \in Proofs,
                 PromotePrepare(m, S, sha, p)
          PROVE TypeOK'
      BY <3>1 DEF PromotePrepare, PromoStatuses, TypeOK, RunTypeOK, runVars, itemVars, unionVars,
                  proofVars, reviewVars
    <3>2. CASE PromoteCommit(m)
      BY <3>2, MoveType DEF PromoteCommit, PromoStatuses, TypeOK, RunTypeOK, runVars, proofVars, reviewVars
    <3>3. CASE PromoteReconcile(m)
      BY <3>3 DEF PromoteReconcile, PromoStatuses, TypeOK, RunTypeOK, runVars, itemVars, unionVars,
                  proofVars, reviewVars
    <3>4. QED BY <2>4, <3>1, <3>2, <3>3 DEF PromoStep
  <2>5. CASE RunNext /\ UNCHANGED storeVars
    BY <2>5 DEF RunNext, RunInit, RunStop, RunInhibitSet, RunInhibitClear, RunResume, RunFinish,
                StopFileToggle, SetRun, RunStatuses, TypeOK, RunTypeOK,
                storeVars, itemVars, unionVars, proofVars, reviewVars, promoVars
  <2>6. CASE UNCHANGED vars
    BY <2>6 DEF vars, runVars, TypeOK, RunTypeOK,
                storeVars, itemVars, unionVars, proofVars, reviewVars, promoVars
  <2>7. QED BY <2>1, <2>2, <2>3, <2>4, <2>5, <2>6 DEF Next, StoreNext
<1>3. QED BY <1>1, <1>2, PTL DEF Spec

-----------------------------------------------------------------------------
(* A move to a status short of final review keeps ProvenBeforeReview and   *)
(* ApprovedWasReviewed, whatever it does to the candidate; a move to a     *)
(* later status does not touch the candidate at all.                       *)
Late == {"FINAL_REVIEW", "APPROVED", "PROMOTED"}

Ready2Ship == ProvenBeforeReview /\ ApprovedWasReviewed

LEMMA EarlySet ==
  ASSUME TypeOK, Ready2Ship, NEW S \in SUBSET Items, NEW new \in ItemStatuses \ (Late \cup {"PAUSED"}),
         SetStatus(S, new), \A i \in Items \ S : cand'[i] = cand[i],
         passed \subseteq passed', approvals \subseteq approvals'
  PROVE  Ready2Ship'
<1>1. \A i \in Items : status'[i] = IF i \in S THEN new ELSE status[i]
  BY DEF SetStatus
<1>2. \A i \in Items \ S : pausedFrom'[i] = pausedFrom[i]
  BY DEF SetStatus
<1>3. \A i \in S : Standing(i)' \notin Late
  BY <1>1 DEF Standing, Late
<1>4. \A i \in Items \ S : Standing(i)' = Standing(i)
  BY <1>1, <1>2 DEF Standing
<1>5. QED BY <1>3, <1>4 DEF Ready2Ship, ProvenBeforeReview, ApprovedWasReviewed, Late

LEMMA EarlyMove ==
  ASSUME TypeOK, Ready2Ship, NEW S \in SUBSET Items, NEW new \in ItemStatuses \ (Late \cup {"PAUSED"}),
         Move(S, new), passed \subseteq passed', approvals \subseteq approvals'
  PROVE  Ready2Ship'
<1>1. SetStatus(S, new)
  BY DEF Move
<1>2. \A i \in Items \ S : cand'[i] = cand[i]
  BY DEF Move, Leaving, TypeOK
<1>3. QED BY <1>1, <1>2, EarlySet

LEMMA LateMove ==
  ASSUME TypeOK, NEW S \in SUBSET Items, NEW new \in Late \cup {"PAUSED"}, Move(S, new)
  PROVE  /\ cand' = cand
         /\ \A i \in Items \ S : Standing(i)' = Standing(i)
         /\ new # "PAUSED" => \A i \in S : Standing(i)' = new
<1>1. Leaving(S, new) = {}
  BY DEF Leaving, Late
<1>2. cand' = cand
  BY <1>1 DEF Move, TypeOK
<1>3. QED BY <1>2 DEF Move, SetStatus, Standing, Late

LEMMA ShipStart == Init => Ready2Ship
  BY DEF Init, StoreStart, Ready2Ship, ProvenBeforeReview, ApprovedWasReviewed, Standing

LEMMA ShipItemStep ==
  ASSUME TypeOK, Ready2Ship, NEW i \in Items, ItemStep(i)
  PROVE  Ready2Ship'
<1> USE StatusNames DEF Late
<1>1. CASE PacketReady(i)
    BY <1>1 DEF PacketReady, Ready2Ship, ProvenBeforeReview, ApprovedWasReviewed, Standing, proofVars, reviewVars, TypeOK
<1>2. CASE ReportItems(i)
    BY <1>2 DEF ReportItems, Ready2Ship, ProvenBeforeReview, ApprovedWasReviewed, Standing, proofVars, reviewVars
<1>3. CASE Claim(i)
    BY <1>3, EarlyMove DEF Claim, proofVars, reviewVars
<1>4. CASE ItemUnassign(i)
    BY <1>4, EarlyMove DEF ItemUnassign, proofVars, reviewVars
<1>5. CASE ItemRebase(i)
    BY <1>5 DEF ItemRebase, Ready2Ship, ProvenBeforeReview, ApprovedWasReviewed, Standing, proofVars, reviewVars
<1>6. CASE ItemPause(i)
    <2>1. /\ cand' = cand /\ passed' = passed /\ approvals' = approvals
         /\ \A j \in Items \ {i} : Standing(j)' = Standing(j)
      BY <1>6, LateMove DEF ItemPause, proofVars, reviewVars
    <2>2. Standing(i)' = Standing(i)
      BY <1>6 DEF ItemPause, Move, SetStatus, Standing, TypeOK
    <2>3. QED BY <2>1, <2>2 DEF Ready2Ship, ProvenBeforeReview, ApprovedWasReviewed
<1>7. CASE ItemResume(i)
    <2> DEFINE back == IF pausedFrom[i] = None THEN "READY" ELSE pausedFrom[i]
    <2>1. Move({i}, back) /\ passed' = passed /\ approvals' = approvals /\ back \in ItemStatuses
      BY <1>7 DEF ItemResume, proofVars, reviewVars, TypeOK
    <2>2. CASE back \in Late
      <3>1. cand' = cand /\ \A j \in Items : Standing(j)' = Standing(j)
        BY <1>7, <2>1, <2>2, LateMove DEF ItemResume, Standing
      <3>2. QED BY <2>1, <3>1 DEF Ready2Ship, ProvenBeforeReview, ApprovedWasReviewed
    <2>3. CASE back = "PAUSED"
      <3>1. cand' = cand /\ \A j \in Items \ {i} : Standing(j)' = Standing(j)
        BY <2>1, <2>3, LateMove
      <3>2. Standing(i)' = "PAUSED"
        BY <1>7, <2>1, <2>3 DEF ItemResume, Standing, Move, SetStatus
      <3>3. QED BY <2>1, <3>1, <3>2 DEF Ready2Ship, ProvenBeforeReview, ApprovedWasReviewed
    <2>4. CASE back \notin Late \cup {"PAUSED"}
      BY <2>1, <2>4, EarlyMove
    <2>5. QED BY <2>1, <2>2, <2>3, <2>4
<1>8. CASE ItemBlock(i)
    BY <1>8, EarlyMove DEF ItemBlock, proofVars, reviewVars
<1>9. ASSUME NEW g \in Groups, Assign(i, g) PROVE Ready2Ship'
    BY <1>9, EarlyMove DEF Assign, proofVars, reviewVars
<1>10. ASSUME NEW to \in {"READY", "GRADING"}, ItemUnblock(i, to) PROVE Ready2Ship'
    BY <1>10, EarlyMove DEF ItemUnblock, proofVars, reviewVars
<1>11. ASSUME NEW c \in CommitsOf[i], SubmitResult(i, c) PROVE Ready2Ship'
    <2>1. \A j \in Items \ {i} : cand'[j] = cand[j]
      BY <1>11 DEF SubmitResult, TypeOK
    <2>2. QED BY <1>11, <2>1, EarlySet DEF SubmitResult, proofVars, reviewVars
<1>12. ASSUME NEW satisfied \in BOOLEAN, Findings(i, satisfied) PROVE Ready2Ship'
    BY <1>12, EarlyMove DEF Findings, proofVars, reviewVars
<1>13. ASSUME NEW r \in Reviewers, NEW verdict \in Verdicts, PlanReview(i, r, verdict) PROVE Ready2Ship'
    BY <1>13, EarlyMove DEF PlanReview, AtSenior, proofVars, reviewVars
<1>14. ASSUME NEW r \in Reviewers, NEW verdict \in Verdicts, NEW c \in Shas, CodeReview(i, r, c, verdict) PROVE Ready2Ship'
    <2>1. CASE verdict = "APPROVED"
      <3>1. /\ Move({i}, "APPROVED") /\ status[i] = "FINAL_REVIEW"
            /\ passed' = passed /\ approvals' = approvals \cup {<<i, cand[i]>>}
        BY <1>14, <2>1 DEF CodeReview, proofVars
      <3>2. /\ cand' = cand /\ \A j \in Items \ {i} : Standing(j)' = Standing(j)
        BY <3>1, LateMove
      <3>3. cand[i] \in passed
        BY <3>1 DEF Ready2Ship, ProvenBeforeReview, Standing
      <3>4. QED BY <3>1, <3>2, <3>3 DEF Ready2Ship, ProvenBeforeReview, ApprovedWasReviewed
    <2>2. CASE verdict # "APPROVED"
      BY <1>14, <2>2, EarlyMove DEF CodeReview, proofVars
    <2>3. QED BY <2>1, <2>2
<1>15. QED BY <1>1, <1>2, <1>3, <1>4, <1>5, <1>6, <1>7, <1>8, <1>9, <1>10, <1>11, <1>12, <1>13, <1>14 DEF ItemStep

LEMMA ShipUnionStep ==
  ASSUME TypeOK, Ready2Ship, NEW u \in Unions, UnionStep(u)
  PROVE  Ready2Ship'
<1>1. ASSUME NEW S \in SUBSET Items, NEW base \in Recorded \cup {None}, UnionRecord(S, u, base)
      PROVE Ready2Ship'
  BY <1>1 DEF UnionRecord, Ready2Ship, ProvenBeforeReview, ApprovedWasReviewed, Standing,
              proofVars, reviewVars
<1>2. ASSUME NEW new \in UnionMarks, UnionStatus(u, new) PROVE Ready2Ship'
  BY <1>2 DEF UnionStatus, Ready2Ship, ProvenBeforeReview, ApprovedWasReviewed, Standing,
              itemVars, proofVars, reviewVars
<1>3. CASE UnionCancel(u)
  <2>1. \A i \in Items : \/ Standing(i)' = "PREPARING"
                         \/ Standing(i)' = Standing(i) /\ cand'[i] = cand[i]
    BY <1>3 DEF UnionCancel, OnUnionPath, UnionCancelFrom, Standing, TypeOK
  <2>2. QED BY <1>3, <2>1 DEF UnionCancel, Ready2Ship, ProvenBeforeReview, ApprovedWasReviewed, reviewVars
<1>4. QED BY <1>1, <1>2, <1>3 DEF UnionStep

LEMMA ShipProofStep ==
  ASSUME TypeOK, Ready2Ship, NEW p \in Proofs, ProofStep(p)
  PROVE  Ready2Ship'
<1> USE StatusNames DEF Late
<1>1. ASSUME NEW sha \in Commits \cup Recorded, ProofRequest(p, sha) PROVE Ready2Ship'
  <2>1. {i \in Candidates(sha) : status[i] = "PREPARING"} \in SUBSET Items
    BY DEF Candidates
  <2>2. QED BY <1>1, <2>1, EarlyMove DEF ProofRequest, reviewVars
<1>2. ASSUME NEW new \in ProofStatuses \ {"NONE"}, ProofRecord(p, new) PROVE Ready2Ship'
  <2> DEFINE moved == {i \in Candidates(pcand[p]) : status[i] \in ProofMoves[new].from}
  <2>1. /\ Move(moved, ProofMoves[new].to) /\ moved \in SUBSET Items
        /\ approvals' = approvals /\ passed \subseteq passed'
    BY <1>2 DEF ProofRecord, Candidates, reviewVars
  <2>2. CASE new = "PASS"
    <3>1. ProofMoves[new].to = "FINAL_REVIEW"
      BY <2>2 DEF ProofMoves
    <3>2. cand' = cand /\ (\A i \in Items \ moved : Standing(i)' = Standing(i))
          /\ \A i \in moved : Standing(i)' = "FINAL_REVIEW"
      BY <2>1, <3>1, LateMove
    <3>3. \A i \in moved : cand[i] \in passed'
      BY <1>2, <2>2 DEF ProofRecord, Candidates
    <3>4. QED BY <2>1, <3>2, <3>3 DEF Ready2Ship, ProvenBeforeReview, ApprovedWasReviewed
  <2>3. CASE new # "PASS"
    <3>1. ProofMoves[new].to \in ItemStatuses \ (Late \cup {"PAUSED"})
      BY <2>3 DEF ProofMoves, ProofStatuses
    <3>2. QED BY <2>1, <3>1, EarlyMove
  <2>4. QED BY <2>2, <2>3
<1>3. QED BY <1>1, <1>2 DEF ProofStep

LEMMA ShipPromoStep ==
  ASSUME TypeOK, Ready2Ship, NEW m \in Promos, PromoStep(m)
  PROVE  Ready2Ship'
<1>1. ASSUME NEW S \in SUBSET Items \ {{}}, NEW sha \in Shas, NEW p \in Proofs,
             PromotePrepare(m, S, sha, p)
      PROVE Ready2Ship'
  BY <1>1 DEF PromotePrepare, Ready2Ship, ProvenBeforeReview, ApprovedWasReviewed, Standing,
              itemVars, proofVars, reviewVars
<1>2. CASE PromoteCommit(m)
  <2>1. /\ Move(mitems[m], "PROMOTED") /\ mitems[m] \in SUBSET Items
        /\ passed' = passed /\ approvals' = approvals
    BY <1>2 DEF PromoteCommit, proofVars, reviewVars, TypeOK
  <2>2. /\ cand' = cand /\ (\A i \in Items \ mitems[m] : Standing(i)' = Standing(i))
        /\ \A i \in mitems[m] : Standing(i)' = "PROMOTED"
    BY <2>1, LateMove DEF Late
  <2>3. \A i \in mitems[m] : Standing(i) \in {"APPROVED", "PROMOTED"}
    <3>1. \A i \in mitems[m] : status[i] \in ItemStatuses /\ Legal(i, "PROMOTED")
      BY <2>1 DEF Move, SetStatus, TypeOK
    <3>2. QED BY <3>1, StatusNames DEF Legal, Transitions, Standing
  <2>4. QED BY <2>1, <2>2, <2>3 DEF Ready2Ship, ProvenBeforeReview, ApprovedWasReviewed
<1>3. CASE PromoteReconcile(m)
  BY <1>3 DEF PromoteReconcile, Ready2Ship, ProvenBeforeReview, ApprovedWasReviewed, Standing,
              itemVars, proofVars, reviewVars
<1>4. QED BY <1>1, <1>2, <1>3 DEF PromoStep

LEMMA ShipStep ==
  ASSUME TypeOK, Ready2Ship, [Next]_vars
  PROVE  Ready2Ship'
<1>1. CASE StoreNext
  BY <1>1, ShipItemStep, ShipUnionStep, ShipProofStep, ShipPromoStep DEF StoreNext
<1>2. CASE UNCHANGED storeVars
  BY <1>2 DEF Ready2Ship, ProvenBeforeReview, ApprovedWasReviewed, Standing,
              storeVars, itemVars, proofVars, reviewVars
<1>3. QED BY <1>1, <1>2 DEF Next, vars

(* In every run of the store, with any number of items, unions and proofs: *)
(* what is up for final review is proven, and what is approved or promoted *)
(* was reviewed, always for the candidate the item holds.                  *)
THEOREM ShipSafety == Spec => [](ProvenBeforeReview /\ ApprovedWasReviewed)
<1>1. Ready2Ship => ProvenBeforeReview /\ ApprovedWasReviewed
  BY DEF Ready2Ship
<1>2. TypeOK /\ Ready2Ship /\ [Next]_vars => Ready2Ship'
  BY ShipStep
<1>3. QED BY <1>1, <1>2, ShipStart, StoreTypeOK, PTL DEF Spec

(* What counts as approved, or is promoted, was reviewed and approved for  *)
(* the candidate it holds now, whatever was reworked, rebuilt, paused or   *)
(* cancelled in between (review_record).                                   *)
THEOREM ApprovalsAreReviewed == Spec => []ApprovedWasReviewed
BY ShipSafety, PTL

-----------------------------------------------------------------------------
(* What no verb takes back: union rows and their items, PASSes, approvals, *)
(* and the place and tree of a promoted item.                              *)
Grows ==
  /\ Recorded \subseteq Recorded' /\ passed \subseteq passed' /\ approvals \subseteq approvals'
  /\ \A u \in Recorded : uitems'[u] = uitems[u] /\ ubase'[u] = ubase[u]
  /\ \A u \in Unions : ubase'[u] = ubase[u] \/ ubase'[u] \in Recorded \cup {None}
  /\ \A i \in Items : status[i] = "PROMOTED" => status'[i] = "PROMOTED" /\ cand'[i] = cand[i]

LEMMA SetKeeps ==
  ASSUME TypeOK, NEW S \in SUBSET Items, NEW new \in ItemStatuses, SetStatus(S, new)
  PROVE  /\ Recorded \subseteq Recorded' /\ uitems' = uitems /\ ubase' = ubase
         /\ \A i \in Items : status[i] = "PROMOTED" =>
              status'[i] = "PROMOTED" /\ (i \in S => new = "PROMOTED")
<1>1. Recorded \subseteq Recorded' /\ uitems' = uitems /\ ubase' = ubase
  BY DEF SetStatus, FailUnions, Recorded, TypeOK
<1>2. ASSUME NEW i \in Items, status[i] = "PROMOTED"
      PROVE  status'[i] = "PROMOTED" /\ (i \in S => new = "PROMOTED")
  <2>1. Transitions["PROMOTED"] = {}
    BY DEF Transitions
  <2>2. i \in S => new = "PROMOTED"
    BY <1>2, <2>1 DEF SetStatus, Legal
  <2>3. QED BY <1>2, <2>2 DEF SetStatus
<1>3. QED BY <1>1, <1>2

LEMMA MoveKeeps ==
  ASSUME TypeOK, NEW S \in SUBSET Items, NEW new \in ItemStatuses, Move(S, new),
         passed \subseteq passed', approvals \subseteq approvals'
  PROVE  Grows
<1>1. SetStatus(S, new)
  BY DEF Move
<1>2. ASSUME NEW i \in Items, status[i] = "PROMOTED" PROVE cand'[i] = cand[i]
  <2>1. i \notin Leaving(S, new)
    BY <1>1, <1>2, SetKeeps DEF Leaving
  <2>2. QED BY <2>1 DEF Move, TypeOK
<1>3. QED BY <1>1, <1>2, SetKeeps DEF Grows

LEMMA StandsStill ==
  ASSUME TypeOK, UNCHANGED <<status, cand, unionVars, passed, approvals>>
  PROVE  Grows
  BY DEF Grows, Recorded, unionVars

LEMMA ItemStepGrows ==
  ASSUME TypeOK, NEW i \in Items, ItemStep(i)
  PROVE  Grows
<1> USE StatusNames DEF proofVars, reviewVars
<1>1. CASE PacketReady(i)
  BY <1>1 DEF PacketReady, Grows, Recorded, unionVars, TypeOK
<1>2. CASE ReportItems(i)
  BY <1>2, StandsStill DEF ReportItems
<1>3. CASE Claim(i)
  BY <1>3, MoveKeeps DEF Claim
<1>4. CASE ItemUnassign(i)
  BY <1>4, MoveKeeps DEF ItemUnassign
<1>5. CASE ItemRebase(i)
  BY <1>5, StandsStill DEF ItemRebase
<1>6. CASE ItemPause(i)
  BY <1>6, MoveKeeps DEF ItemPause
<1>7. CASE ItemResume(i)
  <2>1. (IF pausedFrom[i] = None THEN "READY" ELSE pausedFrom[i]) \in ItemStatuses
    BY DEF TypeOK
  <2>2. QED BY <1>7, <2>1, MoveKeeps DEF ItemResume
<1>8. CASE ItemBlock(i)
  BY <1>8, MoveKeeps DEF ItemBlock
<1>9. ASSUME NEW g \in Groups, Assign(i, g) PROVE Grows
  BY <1>9, MoveKeeps DEF Assign
<1>10. ASSUME NEW to \in {"READY", "GRADING"}, ItemUnblock(i, to) PROVE Grows
  BY <1>10, MoveKeeps DEF ItemUnblock
<1>11. ASSUME NEW c \in CommitsOf[i], SubmitResult(i, c) PROVE Grows
  <2>1. SetStatus({i}, "GRADING") /\ passed' = passed /\ approvals' = approvals
    BY <1>11 DEF SubmitResult
  <2>2. status[i] # "PROMOTED"
    BY <2>1, SetKeeps
  <2>3. \A j \in Items \ {i} : cand'[j] = cand[j]
    BY <1>11 DEF SubmitResult, TypeOK
  <2>4. QED BY <2>1, <2>2, <2>3, SetKeeps DEF Grows
<1>12. ASSUME NEW satisfied \in BOOLEAN, Findings(i, satisfied) PROVE Grows
  BY <1>12, MoveKeeps DEF Findings
<1>13. ASSUME NEW r \in Reviewers, NEW verdict \in Verdicts, PlanReview(i, r, verdict) PROVE Grows
  BY <1>13, MoveKeeps DEF PlanReview, AtSenior
<1>14. ASSUME NEW r \in Reviewers, NEW verdict \in Verdicts, NEW c \in Shas, CodeReview(i, r, c, verdict)
       PROVE Grows
  BY <1>14, MoveKeeps DEF CodeReview
<1>15. QED BY <1>1, <1>2, <1>3, <1>4, <1>5, <1>6, <1>7, <1>8, <1>9, <1>10, <1>11, <1>12, <1>13, <1>14 DEF ItemStep

LEMMA UnionStepGrows ==
  ASSUME TypeOK, NEW u \in Unions, UnionStep(u)
  PROVE  Grows
<1> USE DEF proofVars, reviewVars
<1>1. ASSUME NEW S \in SUBSET Items, NEW base \in Recorded \cup {None}, UnionRecord(S, u, base)
      PROVE Grows
  BY <1>1 DEF UnionRecord, Grows, Recorded, TypeOK
<1>2. ASSUME NEW new \in UnionMarks, UnionStatus(u, new) PROVE Grows
  <2>1. new # "NONE"
    BY StoreAssumption
  <2>2. QED BY <1>2, <2>1 DEF UnionStatus, Grows, Recorded, TypeOK, itemVars
<1>3. CASE UnionCancel(u)
  BY <1>3 DEF UnionCancel, OnUnionPath, UnionCancelFrom, Grows, Recorded, TypeOK
<1>4. QED BY <1>1, <1>2, <1>3 DEF UnionStep

LEMMA ProofStepGrows ==
  ASSUME TypeOK, NEW p \in Proofs, ProofStep(p)
  PROVE  Grows
<1> USE StatusNames DEF reviewVars
<1>1. ASSUME NEW sha \in Commits \cup Recorded, ProofRequest(p, sha) PROVE Grows
  BY <1>1, MoveKeeps DEF ProofRequest, Candidates
<1>2. ASSUME NEW new \in ProofStatuses \ {"NONE"}, ProofRecord(p, new) PROVE Grows
  <2>1. {i \in Candidates(pcand[p]) : status[i] \in ProofMoves[new].from} \in SUBSET Items
    BY DEF Candidates
  <2>2. QED BY <1>2, <2>1, MoveKeeps, ProofMovesTyped DEF ProofRecord
<1>3. QED BY <1>1, <1>2 DEF ProofStep

LEMMA PromoStepGrows ==
  ASSUME TypeOK, NEW m \in Promos, PromoStep(m)
  PROVE  Grows
<1> USE StatusNames DEF proofVars, reviewVars
<1>1. ASSUME NEW S \in SUBSET Items \ {{}}, NEW sha \in Shas, NEW p \in Proofs, PromotePrepare(m, S, sha, p)
      PROVE Grows
  BY <1>1, StandsStill DEF PromotePrepare, itemVars
<1>2. CASE PromoteCommit(m)
  BY <1>2, MoveKeeps DEF PromoteCommit, TypeOK
<1>3. CASE PromoteReconcile(m)
  BY <1>3, StandsStill DEF PromoteReconcile, itemVars
<1>4. QED BY <1>1, <1>2, <1>3 DEF PromoStep

LEMMA StoreGrows == ASSUME TypeOK, [Next]_vars PROVE Grows
<1>1. CASE StoreNext
  BY <1>1, ItemStepGrows, UnionStepGrows, ProofStepGrows, PromoStepGrows DEF StoreNext
<1>2. CASE UNCHANGED storeVars
  BY <1>2, StandsStill DEF storeVars, itemVars, proofVars, reviewVars
<1>3. QED BY <1>1, <1>2 DEF Next, vars

(* No verb moves a promoted item or the tree it was promoted as, union_cancel *)
(* and its bypass of the transition table included.                        *)
THEOREM PromotionIsFinal == Spec => PromotedIsFinal
<1>1. TypeOK /\ [Next]_vars =>
        [\A i \in Items : status[i] = "PROMOTED" => status'[i] = "PROMOTED" /\ cand'[i] = cand[i]]_vars
  BY StoreGrows DEF Grows
<1>2. QED BY <1>1, StoreTypeOK, PTL DEF Spec, PromotedIsFinal

-----------------------------------------------------------------------------
(* A PASS is of a commit or a recorded union, and stays one; a union is    *)
(* cut from a recorded one.                                                *)
Records ==
  /\ passed \subseteq Commits \cup Recorded
  /\ \A p \in Proofs : /\ pstatus[p] # "NONE" => pcand[p] \in Commits \cup Recorded
                       /\ pstatus[p] = "PASS" => pcand[p] \in passed
  /\ \A u \in Unions : ubase[u] # None => ubase[u] \in Recorded

LEMMA RecordsStep ==
  ASSUME TypeOK, Records, [Next]_vars
  PROVE  Records'
<1> USE StatusNames DEF ProofStatuses
<1>1. Grows
  BY StoreGrows
<1>2. ASSUME UNCHANGED <<passed, pcand>>,
             \A p \in Proofs : pstatus'[p] = pstatus[p] \/ (pstatus[p] # "NONE" /\ pstatus'[p] # "PASS")
      PROVE  Records'
  BY <1>1, <1>2 DEF Records, Grows
<1>3. ASSUME NEW p \in Proofs, NEW sha \in Commits \cup Recorded, ProofRequest(p, sha) PROVE Records'
  BY <1>1, <1>3 DEF ProofRequest, Records, Grows, TypeOK
<1>4. ASSUME NEW p \in Proofs, NEW new \in ProofStatuses \ {"NONE"}, ProofRecord(p, new) PROVE Records'
  BY <1>1, <1>4 DEF ProofRecord, Records, Grows, TypeOK
<1>5. ASSUME NEW u \in Unions, UnionCancel(u) PROVE Records'
  BY <1>2, <1>5 DEF UnionCancel, TypeOK
<1>6. CASE UNCHANGED proofVars
  BY <1>2, <1>6 DEF proofVars
<1>7. ASSUME NEW i \in Items, ItemStep(i) PROVE UNCHANGED proofVars
  BY <1>7 DEF ItemStep, PacketReady, ReportItems, Claim, ItemUnassign, ItemRebase, ItemPause, ItemResume,
              ItemBlock, Assign, ItemUnblock, SubmitResult, Findings, PlanReview, CodeReview
<1>8. ASSUME NEW u \in Unions, UnionStep(u) PROVE UnionCancel(u) \/ UNCHANGED proofVars
  BY <1>8 DEF UnionStep, UnionRecord, UnionStatus
<1>9. ASSUME NEW m \in Promos, PromoStep(m) PROVE UNCHANGED proofVars
  BY <1>9 DEF PromoStep, PromotePrepare, PromoteCommit, PromoteReconcile
<1>10. QED BY <1>3, <1>4, <1>5, <1>6, <1>7, <1>8, <1>9 DEF Next, StoreNext, ProofStep, vars, storeVars

(* An intent is recorded on what never goes away, so it stays justified.   *)
LEMMA JustifiedStep ==
  ASSUME TypeOK, Records, IntentJustified, [Next]_vars
  PROVE  IntentJustified'
<1>1. Grows
  BY StoreGrows
<1>2. ASSUME NEW m \in Promos, mstatus[m] # "NONE", msha'[m] = msha[m]
      PROVE  /\ msha'[m] \in passed' /\ \E i \in Items : <<i, msha'[m]>> \in approvals'
             /\ (msha'[m] \in Recorded' /\ ubase'[msha'[m]] # None) =>
                   \A i \in uitems'[ubase'[msha'[m]]] : status'[i] = "PROMOTED"
  <2>1. /\ msha[m] \in passed /\ \E i \in Items : <<i, msha[m]>> \in approvals
        /\ (msha[m] \in Recorded /\ ubase[msha[m]] # None) => \A i \in uitems[ubase[msha[m]]] : status[i] = "PROMOTED"
    BY <1>2 DEF IntentJustified
  <2>2. msha[m] \in Recorded' => msha[m] \in Recorded
    BY <2>1, StoreAssumption DEF Records, Recorded
  <2>3. ASSUME msha[m] \in Recorded, ubase[msha[m]] # None
        PROVE  /\ ubase'[msha[m]] = ubase[msha[m]] /\ uitems'[ubase[msha[m]]] = uitems[ubase[msha[m]]]
               /\ uitems[ubase[msha[m]]] \subseteq Items
    BY <1>1, <2>3 DEF Grows, Records, Recorded, TypeOK
  <2>4. QED BY <1>1, <1>2, <2>1, <2>2, <2>3 DEF Grows
<1>3. ASSUME UNCHANGED msha, \A m \in Promos : mstatus'[m] # "NONE" => mstatus[m] # "NONE"
      PROVE  IntentJustified'
  BY <1>2, <1>3 DEF IntentJustified
<1>4. ASSUME NEW m \in Promos, NEW S \in SUBSET Items \ {{}}, NEW sha \in Shas, NEW p \in Proofs,
             PromotePrepare(m, S, sha, p)
      PROVE  IntentJustified'
  <2>1. \A n \in Promos \ {m} : mstatus'[n] = mstatus[n] /\ msha'[n] = msha[n]
    BY <1>4 DEF PromotePrepare, TypeOK
  <2>2. /\ msha'[m] = sha /\ sha \in passed /\ \E i \in Items : <<i, sha>> \in approvals
        /\ sha \in Recorded /\ ubase[sha] # None => \A i \in uitems[ubase[sha]] : status[i] = "PROMOTED"
    BY <1>4 DEF PromotePrepare, ChainPredecessorUnpromoted, Records, TypeOK
  <2>3. UNCHANGED <<status, unionVars, passed, approvals>>
    BY <1>4 DEF PromotePrepare, itemVars, proofVars, reviewVars
  <2>4. QED BY <1>2, <2>1, <2>2, <2>3 DEF IntentJustified, Recorded, unionVars
<1>5. ASSUME NEW m \in Promos, PromoteCommit(m) \/ PromoteReconcile(m) PROVE IntentJustified'
  BY <1>3, <1>5 DEF PromoteCommit, PromoteReconcile, TypeOK
<1>6. CASE UNCHANGED promoVars
  BY <1>3, <1>6 DEF promoVars
<1>7. ASSUME NEW i \in Items, ItemStep(i) PROVE UNCHANGED promoVars
  BY <1>7 DEF ItemStep, PacketReady, ReportItems, Claim, ItemUnassign, ItemRebase, ItemPause, ItemResume,
              ItemBlock, Assign, ItemUnblock, SubmitResult, Findings, PlanReview, CodeReview
<1>8. ASSUME NEW u \in Unions, UnionStep(u) PROVE UNCHANGED promoVars
  BY <1>8 DEF UnionStep, UnionRecord, UnionStatus, UnionCancel
<1>9. ASSUME NEW p \in Proofs, ProofStep(p) PROVE UNCHANGED promoVars
  BY <1>9 DEF ProofStep, ProofRequest, ProofRecord
<1>10. QED BY <1>4, <1>5, <1>6, <1>7, <1>8, <1>9 DEF Next, StoreNext, PromoStep, vars, storeVars

(* Whoever promotes whatever, an intent is of a proven and approved tree   *)
(* whose predecessor in the chain is wholly promoted.                      *)
THEOREM IntentsAreJustified == Spec => []IntentJustified
<1>1. Init => Records /\ IntentJustified
  BY DEF Init, StoreStart, Records, IntentJustified
<1>2. TypeOK /\ Records /\ IntentJustified /\ [Next]_vars => Records' /\ IntentJustified'
  BY RecordsStep, JustifiedStep
<1>3. QED BY <1>1, <1>2, StoreTypeOK, PTL DEF Spec

-----------------------------------------------------------------------------
(* A report whose rev is still the item's names the item's group.          *)
ReportsAreFresh == \A i \in Items : fresh[i] => seen[i] = group[i]

LEMMA FreshStep ==
  ASSUME TypeOK, ReportsAreFresh, [Next]_vars
  PROVE  ReportsAreFresh'
<1>1. ASSUME \A i \in Items : fresh'[i] => fresh[i], UNCHANGED <<seen, group>> PROVE ReportsAreFresh'
  BY <1>1 DEF ReportsAreFresh
<1>2. ASSUME NEW S, NEW new, SetStatus(S, new) PROVE \A i \in Items : fresh'[i] => fresh[i] /\ i \notin S
  BY <1>2 DEF SetStatus, BumpRev
<1>3. ASSUME NEW i \in Items, ItemStep(i) PROVE ReportsAreFresh'
  <2>1. CASE ReportItems(i)
    BY <2>1 DEF ReportItems, ReportsAreFresh, TypeOK
  <2>2. ASSUME NEW g \in Groups, Assign(i, g) PROVE ReportsAreFresh'
    BY <1>2, <2>2 DEF Assign, Move, ReportsAreFresh, TypeOK
  <2>3. CASE ItemUnassign(i)
    BY <1>2, <2>3 DEF ItemUnassign, Move, ReportsAreFresh, TypeOK
  <2>4. CASE PacketReady(i) \/ ItemRebase(i)
    BY <1>1, <2>4 DEF PacketReady, ItemRebase, BumpRev
  <2>5. CASE Claim(i) \/ ItemPause(i) \/ ItemResume(i) \/ ItemBlock(i)
    BY <1>1, <1>2, <2>5 DEF Claim, ItemPause, ItemResume, ItemBlock, Move
  <2>6. ASSUME NEW to, ItemUnblock(i, to) PROVE ReportsAreFresh'
    BY <1>1, <1>2, <2>6 DEF ItemUnblock, Move
  <2>7. ASSUME NEW c, SubmitResult(i, c) PROVE ReportsAreFresh'
    BY <1>1, <1>2, <2>7 DEF SubmitResult
  <2>8. ASSUME NEW s, Findings(i, s) PROVE ReportsAreFresh'
    BY <1>1, <1>2, <2>8 DEF Findings, Move
  <2>9. ASSUME NEW r, NEW v, PlanReview(i, r, v) PROVE ReportsAreFresh'
    BY <1>1, <1>2, <2>9 DEF PlanReview, Move
  <2>10. ASSUME NEW r, NEW v, NEW c, CodeReview(i, r, c, v) PROVE ReportsAreFresh'
    BY <1>1, <1>2, <2>10 DEF CodeReview, Move
  <2>11. QED BY <1>3, <2>1, <2>2, <2>3, <2>4, <2>5, <2>6, <2>7, <2>8, <2>9, <2>10 DEF ItemStep
<1>4. ASSUME NEW u \in Unions, UnionStep(u) PROVE ReportsAreFresh'
  BY <1>1, <1>4 DEF UnionStep, UnionRecord, UnionStatus, UnionCancel, BumpRev, itemVars
<1>5. ASSUME NEW p \in Proofs, ProofStep(p) PROVE ReportsAreFresh'
  BY <1>1, <1>2, <1>5 DEF ProofStep, ProofRequest, ProofRecord, Move
<1>6. ASSUME NEW m \in Promos, PromoStep(m) PROVE ReportsAreFresh'
  BY <1>1, <1>2, <1>6 DEF PromoStep, PromotePrepare, PromoteCommit, PromoteReconcile, Move, itemVars
<1>7. CASE UNCHANGED storeVars
  BY <1>1, <1>7 DEF storeVars, itemVars
<1>8. QED BY <1>3, <1>4, <1>5, <1>6, <1>7 DEF Next, StoreNext, vars

(* A builder takes an item only for the group it is assigned to at that    *)
(* moment, though it decided on an older report, and keeps it until it is  *)
(* unassigned.                                                             *)
THEOREM OneWriterPerItem == Spec => UniqueWriter
<1> DEFINE Taken == \A i \in Items : builder'[i] # builder[i] =>
                      IF builder[i] = None THEN builder'[i] = group[i]
                      ELSE builder'[i] = None /\ status[i] = "ASSIGNED" /\ status'[i] = "READY"
<1>1. Init => ReportsAreFresh
  BY DEF Init, StoreStart, ReportsAreFresh
<1>2. ASSUME TypeOK, ReportsAreFresh, [Next]_vars PROVE [Taken]_vars
  <2>1. ASSUME NEW i \in Items, Claim(i) PROVE Taken
    BY <1>2, <2>1 DEF Claim, ReportsAreFresh, TypeOK
  <2>2. ASSUME NEW i \in Items, ItemUnassign(i) PROVE Taken
    BY <1>2, <2>2 DEF ItemUnassign, Move, SetStatus, TypeOK
  <2>3. ASSUME NEW i \in Items, ItemStep(i) PROVE Claim(i) \/ ItemUnassign(i) \/ UNCHANGED builder
    BY <2>3 DEF ItemStep, PacketReady, ReportItems, ItemRebase, ItemPause, ItemResume,
                ItemBlock, Assign, ItemUnblock, SubmitResult, Findings, PlanReview, CodeReview
  <2>4. ASSUME NEW u \in Unions, UnionStep(u) PROVE UNCHANGED builder
    BY <2>4 DEF UnionStep, UnionRecord, UnionStatus, UnionCancel, itemVars
  <2>5. ASSUME NEW p \in Proofs, ProofStep(p) PROVE UNCHANGED builder
    BY <2>5 DEF ProofStep, ProofRequest, ProofRecord
  <2>6. ASSUME NEW m \in Promos, PromoStep(m) PROVE UNCHANGED builder
    BY <2>6 DEF PromoStep, PromotePrepare, PromoteCommit, PromoteReconcile, itemVars
  <2>7. CASE UNCHANGED storeVars
    BY <2>7 DEF storeVars, itemVars
  <2>8. QED BY <1>2, <2>1, <2>2, <2>3, <2>4, <2>5, <2>6, <2>7 DEF Next, StoreNext, vars
<1>3. TypeOK /\ ReportsAreFresh /\ [Next]_vars => ReportsAreFresh' /\ [Taken]_vars
  BY <1>2, FreshStep
<1>4. QED BY <1>1, <1>3, StoreTypeOK, PTL DEF Spec, UniqueWriter, Taken

-----------------------------------------------------------------------------
(* A union an item is in is recorded and lists it, the item holds the      *)
(* union's sha and is on the union path; outside of one it holds what its  *)
(* builder submitted last.                                                 *)
Homed(i) ==
  /\ unionOf[i] = None /\ lastSubmit[i] # None => cand[i] = lastSubmit[i]
  /\ unionOf[i] # None =>
       /\ unionOf[i] \in Recorded /\ i \in uitems[unionOf[i]] /\ cand[i] = unionOf[i]
       /\ status[i] \notin {"NEW", "READY", "BUILDING", "GRADING", "BLOCKED"}

AllHomed == \A i \in Items : Homed(i)

LEMMA HomedMove ==
  ASSUME TypeOK, AllHomed, NEW S \in SUBSET Items, NEW new \in ItemStatuses, Move(S, new),
         UNCHANGED lastSubmit
  PROVE  AllHomed'
<1> USE StatusNames
<1>1. SetStatus(S, new) /\ Recorded \subseteq Recorded' /\ uitems' = uitems
  BY SetKeeps DEF Move
<1>2. ASSUME NEW i \in Leaving(S, new) PROVE Homed(i)'
  BY <1>1, <1>2 DEF Move, SetStatus, Leaving, Restored, Homed, TypeOK
<1>3. ASSUME NEW i \in Items \ Leaving(S, new) PROVE Homed(i)'
  <2>1. unionOf'[i] = unionOf[i] /\ cand'[i] = cand[i]
    BY <1>1, <1>3 DEF Move, SetStatus
  <2>2. unionOf[i] # None /\ i \in S => new \notin {"NEW", "READY", "BUILDING", "GRADING", "BLOCKED"}
    <3>1. \A s \in ItemStatuses : s # "NEW" => "NEW" \notin Transitions[s]
      BY DEF Transitions
    <3>2. QED BY <1>1, <1>3, <3>1 DEF SetStatus, Legal, Leaving, AllHomed, Homed, TypeOK
  <2>3. status'[i] = (IF i \in S THEN new ELSE status[i])
    BY <1>1, <1>3 DEF SetStatus
  <2>4. QED BY <1>1, <2>1, <2>2, <2>3 DEF AllHomed, Homed
<1>4. Leaving(S, new) \subseteq Items
  BY DEF Leaving
<1>5. QED BY <1>2, <1>3, <1>4 DEF AllHomed

LEMMA HomedStill ==
  ASSUME TypeOK, AllHomed, UNCHANGED <<unionOf, cand, lastSubmit, status, uitems>>, Recorded \subseteq Recorded'
  PROVE  AllHomed'
  BY DEF AllHomed, Homed

LEMMA HomedStep ==
  ASSUME TypeOK, AllHomed, [Next]_vars
  PROVE  AllHomed'
<1> USE StatusNames
<1>1. Recorded \subseteq Recorded' /\ \A u \in Recorded : uitems'[u] = uitems[u]
  BY StoreGrows DEF Grows
<1>2. ASSUME NEW i \in Items, ItemStep(i) PROVE AllHomed'
  <2>1. CASE PacketReady(i)
    BY <1>1, <2>1 DEF PacketReady, AllHomed, Homed, unionVars, TypeOK
  <2>2. CASE ReportItems(i) \/ ItemRebase(i)
    BY <1>1, <2>2, HomedStill DEF ReportItems, ItemRebase, unionVars
  <2>3. CASE Claim(i) \/ ItemPause(i) \/ ItemBlock(i) \/ ItemUnassign(i)
    BY <2>3, HomedMove DEF Claim, ItemPause, ItemBlock, ItemUnassign
  <2>4. CASE ItemResume(i)
    <3>1. (IF pausedFrom[i] = None THEN "READY" ELSE pausedFrom[i]) \in ItemStatuses
      BY DEF TypeOK
    <3>2. QED BY <2>4, <3>1, HomedMove DEF ItemResume
  <2>5. ASSUME NEW g \in Groups, Assign(i, g) PROVE AllHomed'
    BY <2>5, HomedMove DEF Assign
  <2>6. ASSUME NEW to \in {"READY", "GRADING"}, ItemUnblock(i, to) PROVE AllHomed'
    BY <2>6, HomedMove DEF ItemUnblock
  <2>7. ASSUME NEW c \in CommitsOf[i], SubmitResult(i, c) PROVE AllHomed'
    <3>1. unionOf'[i] = None /\ cand'[i] = lastSubmit'[i]
      BY <2>7 DEF SubmitResult, SetStatus, Leaving, TypeOK
    <3>2. ASSUME NEW j \in Items \ {i}
          PROVE  /\ unionOf'[j] = unionOf[j] /\ cand'[j] = cand[j] /\ lastSubmit'[j] = lastSubmit[j]
                 /\ status'[j] = status[j] /\ uitems' = uitems
      BY <2>7, <3>2 DEF SubmitResult, SetStatus, Leaving, TypeOK
    <3>3. QED BY <1>1, <3>1, <3>2 DEF AllHomed, Homed
  <2>8. ASSUME NEW s \in BOOLEAN, Findings(i, s) PROVE AllHomed'
    BY <2>8, HomedMove DEF Findings
  <2>9. ASSUME NEW r \in Reviewers, NEW v \in Verdicts, PlanReview(i, r, v) PROVE AllHomed'
    BY <2>9, HomedMove DEF PlanReview, AtSenior
  <2>10. ASSUME NEW r \in Reviewers, NEW v \in Verdicts, NEW c \in Shas, CodeReview(i, r, c, v) PROVE AllHomed'
    BY <2>10, HomedMove DEF CodeReview
  <2>11. QED BY <1>2, <2>1, <2>2, <2>3, <2>4, <2>5, <2>6, <2>7, <2>8, <2>9, <2>10 DEF ItemStep
<1>3. ASSUME NEW u \in Unions, UnionStep(u) PROVE AllHomed'
  <2>1. ASSUME NEW S \in SUBSET Items, NEW base \in Recorded \cup {None}, UnionRecord(S, u, base) PROVE AllHomed'
    <3>1. ASSUME NEW i \in S PROVE Homed(i)'
      BY <2>1, <3>1, StoreAssumption DEF UnionRecord, Homed, Recorded, Shas, TypeOK
    <3>2. ASSUME NEW i \in Items \ S PROVE Homed(i)'
      BY <1>1, <2>1, <3>2 DEF UnionRecord, AllHomed, Homed, TypeOK
    <3>3. QED BY <3>1, <3>2 DEF AllHomed
  <2>2. ASSUME NEW new \in UnionMarks, UnionStatus(u, new) PROVE AllHomed'
    BY <1>1, <2>2, HomedStill DEF UnionStatus, itemVars
  <2>3. CASE UnionCancel(u)
    <3>1. ASSUME NEW i \in OnUnionPath(u) PROVE Homed(i)'
      BY <2>3, <3>1 DEF UnionCancel, OnUnionPath, Restored, Homed, TypeOK
    <3>2. ASSUME NEW i \in Items \ OnUnionPath(u) PROVE Homed(i)'
      BY <1>1, <2>3, <3>2 DEF UnionCancel, AllHomed, Homed, TypeOK
    <3>3. QED BY <3>1, <3>2 DEF AllHomed
  <2>4. QED BY <1>3, <2>1, <2>2, <2>3 DEF UnionStep
<1>4. ASSUME NEW p \in Proofs, ProofStep(p) PROVE AllHomed'
  <2>1. ASSUME NEW sha \in Commits \cup Recorded, ProofRequest(p, sha) PROVE AllHomed'
    BY <2>1, HomedMove DEF ProofRequest, Candidates
  <2>2. ASSUME NEW new \in ProofStatuses \ {"NONE"}, ProofRecord(p, new) PROVE AllHomed'
    <3>1. {i \in Candidates(pcand[p]) : status[i] \in ProofMoves[new].from} \in SUBSET Items
      BY DEF Candidates
    <3>2. QED BY <2>2, <3>1, HomedMove, ProofMovesTyped DEF ProofRecord
  <2>3. QED BY <1>4, <2>1, <2>2 DEF ProofStep
<1>5. ASSUME NEW m \in Promos, PromoStep(m) PROVE AllHomed'
  <2>1. CASE PromoteCommit(m)
    BY <2>1, HomedMove DEF PromoteCommit, TypeOK
  <2>2. CASE UNCHANGED <<itemVars, unionVars>>
    BY <1>1, <2>2, HomedStill DEF itemVars, unionVars
  <2>3. QED BY <1>5, <2>1, <2>2 DEF PromoStep, PromotePrepare, PromoteReconcile
<1>6. CASE UNCHANGED storeVars
  BY <1>1, <1>6, HomedStill DEF storeVars, itemVars, unionVars
<1>7. QED BY <1>2, <1>3, <1>4, <1>5, <1>6 DEF Next, StoreNext, vars

(* Whatever unions it is put into and thrown out of, an item holds its     *)
(* union's tree while it is in one and its builder's commit otherwise.     *)
THEOREM CandidatesAreHome == Spec => [](OwnCandidate /\ UnionMembership)
<1>1. Init => AllHomed
  BY DEF Init, StoreStart, AllHomed, Homed
<1>2. AllHomed => OwnCandidate /\ UnionMembership
  BY DEF AllHomed, Homed, OwnCandidate, UnionMembership
<1>3. TypeOK /\ AllHomed /\ [Next]_vars => AllHomed'
  BY HomedStep
<1>4. QED BY <1>1, <1>2, <1>3, StoreTypeOK, PTL DEF Spec

=============================================================================
