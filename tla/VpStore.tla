------------------------------ MODULE VpStore ------------------------------
(***************************************************************************)
(* The authority store of the v12 run (vp/vpstore.py): items, unions,      *)
(* proofs, reviews and promotions, with one action per store verb.  Every  *)
(* verb is one BEGIN IMMEDIATE transaction, so it is one step; any caller  *)
(* (the driver's threads, vpctl, the owner) may call any verb at any time, *)
(* and a verb that is refused rolls back and is no step.                   *)
(*                                                                         *)
(* A git tree is named by the commit a builder submitted or by the union   *)
(* built from several of them: build_union always makes a fresh merge      *)
(* commit, so a union row and its union_sha are one value.                 *)
(***************************************************************************)
EXTENDS VpRun, Naturals, FiniteSets

CONSTANTS
  Items, Commits, Unions, Proofs, Promos,   \* rows the tables have room for
  CommitsOf,     \* the commits the builder of each item can submit
  Reviewers,     \* reviewer_ref values
  UnionMarks,    \* statuses callers give union_status
  Groups,        \* build groups; the builder role of group g is "builder<g>"
  WipCap,        \* roster wip_per_group
  RoundCap,      \* roster round_cap
  None           \* SQL NULL

Shas == Commits \cup Unions

ASSUME StoreAssumption ==
  /\ Commits \cap Unions = {}
  /\ UnionMarks \subseteq {"PROOF", "APPROVED", "FINDINGS", "BLOCKED"}
  /\ CommitsOf \in [Items -> SUBSET Commits]
  /\ None \notin Shas \cup Items \cup Groups \cup Reviewers
  /\ WipCap \in Nat /\ RoundCap \in Nat \ {0}

VARIABLES
  \* the item table
  status, pausedFrom, group, builder, round, cand, unionOf,
  \* the group in the caller's last report("items") row, and whether the rev
  \* of that row is still the item's rev
  seen, fresh,
  \* the event table: last SUBMIT_RESULT ref per item, shas some proof PASSed
  lastSubmit, passed,
  \* the union, proof, review and promotion tables
  ustatus, uitems, ubase, pstatus, pcand, lastPlan, approvals,
  mstatus, mitems, msha

itemVars   == <<status, pausedFrom, group, builder, round, cand, unionOf, seen, fresh, lastSubmit>>
unionVars  == <<ustatus, uitems, ubase>>
proofVars  == <<pstatus, pcand, passed>>
reviewVars == <<lastPlan, approvals>>
promoVars  == <<mstatus, mitems, msha>>
storeVars  == <<itemVars, unionVars, proofVars, reviewVars, promoVars>>
vars       == <<runVars, storeVars>>

Transitions ==
  [ NEW              |-> {},          \* no row yet
    READY            |-> {"ASSIGNED", "PAUSED", "BLOCKED", "STOPPED"},
    ASSIGNED         |-> {"BUILDING", "READY", "PAUSED", "BLOCKED", "STOPPED"},
    BUILDING         |-> {"GRADING", "PAUSED", "BLOCKED", "STOPPED"},
    GRADING          |-> {"BUILDING", "JUNIOR_SATISFIED", "PAUSED", "BLOCKED", "STOPPED"},
    JUNIOR_SATISFIED |-> {"PREPARING", "GRADING", "PAUSED", "BLOCKED", "STOPPED"},
    PREPARING        |-> {"PREPARED", "GRADING", "PAUSED", "BLOCKED", "STOPPED"},
    PREPARED         |-> {"PROOF_PENDING", "FINAL_REVIEW", "GRADING", "PAUSED", "BLOCKED", "STOPPED"},
    PROOF_PENDING    |-> {"FINAL_REVIEW", "GRADING", "PREPARED", "PAUSED", "BLOCKED", "STOPPED"},
    FINAL_REVIEW     |-> {"APPROVED", "GRADING", "PAUSED", "BLOCKED", "STOPPED"},
    APPROVED         |-> {"PROMOTED", "GRADING", "PAUSED", "BLOCKED", "STOPPED"},
    PROMOTED         |-> {},
    PAUSED           |-> {"READY", "ASSIGNED", "BUILDING", "GRADING", "JUNIOR_SATISFIED",
                          "PREPARING", "PREPARED", "PROOF_PENDING", "FINAL_REVIEW",
                          "APPROVED", "STOPPED", "BLOCKED"},
    BLOCKED          |-> {"READY", "GRADING", "STOPPED"},
    STOPPED          |-> {} ]

ItemStatuses  == DOMAIN Transitions
UnionStatuses == {"NONE", "BUILT", "PROOF", "APPROVED", "FAILED", "FINDINGS", "BLOCKED", "CANCELLED"}
ProofStatuses == {"NONE", "REQUESTED", "RUNNING", "PASS", "FAIL_PRODUCT", "FAIL_INFRA", "UNKNOWN", "CANCELLED"}
PromoStatuses == {"NONE", "INTENT", "COMMITTED", "RECONCILE"}
InFlight      == {"ASSIGNED", "BUILDING", "GRADING", "JUNIOR_SATISFIED"}
UnionCancelFrom == {"PREPARED", "PROOF_PENDING", "FINAL_REVIEW", "APPROVED"}

TypeOK ==
  /\ RunTypeOK
  /\ status \in [Items -> ItemStatuses]
  /\ pausedFrom \in [Items -> ItemStatuses \cup {None}]
  /\ group \in [Items -> Groups \cup {None}]
  /\ builder \in [Items -> Groups \cup {None}]
  /\ round \in [Items -> 0..RoundCap]
  /\ cand \in [Items -> Shas \cup {None}]
  /\ unionOf \in [Items -> Unions \cup {None}]
  /\ seen \in [Items -> Groups \cup {None}]
  /\ fresh \in [Items -> BOOLEAN]
  /\ lastSubmit \in [Items -> Commits \cup {None}]
  /\ passed \in SUBSET Shas
  /\ ustatus \in [Unions -> UnionStatuses]
  /\ uitems \in [Unions -> SUBSET Items]
  /\ ubase \in [Unions -> Unions \cup {None}]
  /\ pstatus \in [Proofs -> ProofStatuses]
  /\ pcand \in [Proofs -> Shas \cup {None}]
  /\ \A p \in Proofs : pstatus[p] # "NONE" => pcand[p] # None
  /\ lastPlan \in [Items -> Reviewers \cup {None}]
  /\ approvals \in SUBSET (Items \X Shas)
  /\ mstatus \in [Promos -> PromoStatuses]
  /\ mitems \in [Promos -> SUBSET Items]
  /\ msha \in [Promos -> Shas \cup {None}]

StoreStart ==
  /\ status = [i \in Items |-> "NEW"]
  /\ pausedFrom = [i \in Items |-> None]
  /\ group = [i \in Items |-> None]
  /\ builder = [i \in Items |-> None]
  /\ round = [i \in Items |-> 0]
  /\ cand = [i \in Items |-> None]
  /\ unionOf = [i \in Items |-> None]
  /\ seen = [i \in Items |-> None]
  /\ fresh = [i \in Items |-> FALSE]
  /\ lastSubmit = [i \in Items |-> None]
  /\ passed = {}
  /\ ustatus = [u \in Unions |-> "NONE"]
  /\ uitems = [u \in Unions |-> {}]
  /\ ubase = [u \in Unions |-> None]
  /\ pstatus = [p \in Proofs |-> "NONE"]
  /\ pcand = [p \in Proofs |-> None]
  /\ lastPlan = [i \in Items |-> None]
  /\ approvals = {}
  /\ mstatus = [m \in Promos |-> "NONE"]
  /\ mitems = [m \in Promos |-> {}]
  /\ msha = [m \in Promos |-> None]

Init == RunStart /\ StoreStart

-----------------------------------------------------------------------------
(* _set_item, for a set S of items that all move to the status `new`       *)

Legal(i, new) == new = status[i] \/ new \in Transitions[status[i]]

(* Leaving the union path drops the membership, restores the item's own    *)
(* last submitted commit and fails the union.                              *)
Leaving(S, new) ==
  IF new \in {"GRADING", "BUILDING", "BLOCKED", "READY"}
  THEN {i \in S : unionOf[i] # None}
  ELSE {}

\* faulty variant: the union's sha is left as the candidate
Faulty_Restored(i) == cand[i]

Restored(i) == IF lastSubmit[i] # None THEN lastSubmit[i] ELSE cand[i]

BumpRev(S) == fresh' = [i \in Items |-> fresh[i] /\ i \notin S]

FailUnions(L) ==
  ustatus' = [u \in Unions |->
                IF (\E i \in L : unionOf[i] = u) /\ ustatus[u] # "APPROVED"
                THEN "FAILED" ELSE ustatus[u]]

(* Everything _set_item does except to candidate_sha, which some callers   *)
(* pass as a field of their own.  item_pause passes paused_from; the code  *)
(* leaves an old value there when the item leaves PAUSED by another verb   *)
(* than item_resume, but reads it only while PAUSED, so it is cleared here.*)
SetStatus(S, new) ==
  /\ \A i \in S : Legal(i, new)
  /\ status' = [i \in Items |-> IF i \in S THEN new ELSE status[i]]
  /\ unionOf' = [i \in Items |-> IF i \in Leaving(S, new) THEN None ELSE unionOf[i]]
  /\ pausedFrom' = [i \in Items |->
                      IF i \notin S THEN pausedFrom[i]
                      ELSE IF new = "PAUSED" THEN status[i] ELSE None]
  /\ FailUnions(Leaving(S, new))
  /\ BumpRev(S)
  /\ UNCHANGED <<uitems, ubase>>

Move(S, new) ==
  /\ SetStatus(S, new)
  /\ cand' = [i \in Items |-> IF i \in Leaving(S, new) THEN Restored(i) ELSE cand[i]]

-----------------------------------------------------------------------------
(* Items and their builders                                                *)

(* packet_ready of an item's first packet creates its row.                 *)
PacketReady(i) ==
  /\ status[i] = "NEW"
  /\ status' = [status EXCEPT ![i] = "READY"]
  /\ UNCHANGED <<runVars, pausedFrom, group, builder, round, cand, unionOf, seen, fresh,
                 lastSubmit, unionVars, proofVars, reviewVars, promoVars>>

InFlightOf(g) == {i \in Items : group[i] = g /\ status[i] \in InFlight}

Assign(i, g) ==
  /\ GateOpen
  /\ Cardinality(InFlightOf(g)) < WipCap
  /\ Move({i}, "ASSIGNED")
  /\ group' = [group EXCEPT ![i] = g]
  /\ UNCHANGED <<runVars, builder, round, seen, lastSubmit, proofVars,
                 reviewVars, promoVars>>

(* A caller reads report("items"): it now holds the item's group and rev.  *)
ReportItems(i) ==
  /\ status[i] # "NEW"
  /\ seen' = [seen EXCEPT ![i] = group[i]]
  /\ fresh' = [fresh EXCEPT ![i] = TRUE]
  /\ UNCHANGED <<runVars, status, pausedFrom, group, builder, round, cand, unionOf,
                 lastSubmit, unionVars, proofVars, reviewVars, promoVars>>

\* faulty variant: expected_rev is not compared
Faulty_Claim(i) ==
  /\ GateOpen
  /\ seen[i] # None
  /\ builder[i] \in {None, seen[i]}
  /\ Move({i}, "BUILDING")
  /\ builder' = [builder EXCEPT ![i] = seen[i]]
  /\ UNCHANGED <<runVars, group, round, seen, lastSubmit, proofVars, reviewVars, promoVars>>

(* claim by the builder role of the group the caller saw, with its rev as  *)
(* expected_rev.                                                           *)
Claim(i) ==
  /\ GateOpen
  /\ seen[i] # None
  /\ builder[i] \in {None, seen[i]}
  /\ fresh[i]
  /\ Move({i}, "BUILDING")
  /\ builder' = [builder EXCEPT ![i] = seen[i]]
  /\ UNCHANGED <<runVars, group, round, seen, lastSubmit, proofVars,
                 reviewVars, promoVars>>

ItemUnassign(i) ==
  /\ status[i] = "ASSIGNED"
  /\ Move({i}, "READY")
  /\ group' = [group EXCEPT ![i] = None]
  /\ builder' = [builder EXCEPT ![i] = None]
  /\ UNCHANGED <<runVars, round, seen, lastSubmit, proofVars, reviewVars, promoVars>>

(* A rebase touches base_sha, which nothing here reads, and the rev.       *)
ItemRebase(i) ==
  /\ (IF status[i] = "PAUSED" THEN pausedFrom[i] ELSE status[i]) \in {"READY", "ASSIGNED"}
  /\ BumpRev({i})
  /\ UNCHANGED <<runVars, status, pausedFrom, group, builder, round, cand, unionOf, seen,
                 lastSubmit, unionVars, proofVars, reviewVars, promoVars>>

ItemPause(i) ==
  /\ status[i] \notin {"NEW", "PAUSED", "PROMOTED", "STOPPED"}
  /\ Move({i}, "PAUSED")
  /\ UNCHANGED <<runVars, group, builder, round, seen, lastSubmit, proofVars, reviewVars, promoVars>>

ItemResume(i) ==
  /\ status[i] = "PAUSED"
  /\ Move({i}, IF pausedFrom[i] = None THEN "READY" ELSE pausedFrom[i])
  /\ UNCHANGED <<runVars, group, builder, round, seen, lastSubmit, proofVars, reviewVars, promoVars>>

ItemBlock(i) ==
  /\ status[i] \notin {"NEW", "BLOCKED", "PROMOTED", "STOPPED"}
  /\ Move({i}, "BLOCKED")
  /\ UNCHANGED <<runVars, group, builder, round, seen, lastSubmit, proofVars,
                 reviewVars, promoVars>>

ItemUnblock(i, to) ==
  /\ status[i] = "BLOCKED"
  /\ to \in {"READY", "GRADING"}
  /\ Move({i}, to)
  /\ UNCHANGED <<runVars, group, builder, round, seen, lastSubmit, proofVars,
                 reviewVars, promoVars>>

(* A builder's result: candidate_sha is passed as a field, so it is the    *)
(* commit even when the item leaves a union.                               *)
SubmitResult(i, c) ==
  /\ SetStatus({i}, "GRADING")
  /\ cand' = [cand EXCEPT ![i] = c]
  /\ lastSubmit' = [lastSubmit EXCEPT ![i] = c]
  /\ UNCHANGED <<runVars, group, builder, round, seen, proofVars, reviewVars, promoVars>>

(* The round saturates at the cap: the code only compares it with >= cap.  *)
NextRound(i) == IF round[i] + 1 < RoundCap THEN round[i] + 1 ELSE RoundCap

(* findings: `satisfied` is all_pass, or UNKNOWN-only handed to the senior *)
Findings(i, satisfied) ==
  /\ status[i] \in {"GRADING", "FINAL_REVIEW"}
  /\ \/ /\ satisfied
        /\ Move({i}, "JUNIOR_SATISFIED")
        /\ UNCHANGED round
     \/ /\ ~satisfied
        /\ Move({i}, IF NextRound(i) = RoundCap THEN "BLOCKED" ELSE "BUILDING")
        /\ round' = [round EXCEPT ![i] = NextRound(i)]
  /\ UNCHANGED <<runVars, group, builder, seen, lastSubmit, proofVars,
                 reviewVars, promoVars>>

-----------------------------------------------------------------------------
(* Unions                                                                  *)

Recorded == {u \in Unions : ustatus[u] # "NONE"}

(* The integrator built u = base + the items' commits; base None is trunk. *)
UnionRecord(S, u, base) ==
  /\ S # {} /\ \A i \in S : status[i] = "PREPARING"
  /\ u \notin Recorded
  /\ ustatus' = [ustatus EXCEPT ![u] = "BUILT"]
  /\ uitems' = [uitems EXCEPT ![u] = S]
  /\ ubase' = [ubase EXCEPT ![u] = base]
  /\ cand' = [i \in Items |-> IF i \in S THEN u ELSE cand[i]]
  /\ unionOf' = [i \in Items |-> IF i \in S THEN u ELSE unionOf[i]]
  /\ BumpRev(S)
  /\ UNCHANGED <<runVars, status, pausedFrom, group, builder, round, seen, lastSubmit,
                 proofVars, reviewVars, promoVars>>

UnionStatus(u, new) ==
  /\ u \in Recorded
  /\ ustatus' = [ustatus EXCEPT ![u] = new]
  /\ UNCHANGED <<runVars, itemVars, uitems, ubase, proofVars, reviewVars, promoVars>>

OnUnionPath(u) == {i \in uitems[u] : unionOf[i] = u /\ status[i] \in UnionCancelFrom}

(* Bypasses Transitions: the items go straight back to PREPARING.          *)
UnionCancel(u) ==
  /\ u \in Recorded /\ ustatus[u] # "CANCELLED"
  /\ \A i \in uitems[u] : status[i] # "PROMOTED"
  /\ LET reset == OnUnionPath(u) IN
       /\ status' = [i \in Items |-> IF i \in reset THEN "PREPARING" ELSE status[i]]
       /\ unionOf' = [i \in Items |-> IF i \in reset THEN None ELSE unionOf[i]]
       /\ cand' = [i \in Items |-> IF i \in reset THEN Restored(i) ELSE cand[i]]
       /\ BumpRev(reset)
  /\ pstatus' = [p \in Proofs |->
                   IF pcand[p] = u /\ pstatus[p] \in {"REQUESTED", "RUNNING"}
                   THEN "CANCELLED" ELSE pstatus[p]]
  /\ ustatus' = [ustatus EXCEPT ![u] = "CANCELLED"]
  /\ UNCHANGED <<runVars, pausedFrom, group, builder, round, seen, lastSubmit, uitems, ubase,
                 pcand, passed, reviewVars, promoVars>>

-----------------------------------------------------------------------------
(* Proofs                                                                  *)

\* faulty variant: the proof moves every item that has a candidate
Faulty_Candidates(sha) == {i \in Items : cand[i] # None}

Candidates(sha) == {i \in Items : cand[i] = sha}

ProofRequest(p, sha) ==
  /\ pstatus[p] = "NONE"
  /\ pstatus' = [pstatus EXCEPT ![p] = "REQUESTED"]
  /\ pcand' = [pcand EXCEPT ![p] = sha]
  /\ Move({i \in Candidates(sha) : status[i] = "PREPARING"}, "PREPARED")
  /\ UNCHANGED <<runVars, group, builder, round, seen, lastSubmit, passed,
                 reviewVars, promoVars>>

(* What a proof status does to the items whose candidate it is about: the  *)
(* statuses it moves, and where to.                                        *)
ProofMoves ==
  [ REQUESTED    |-> [from |-> {}, to |-> "PREPARED"],
    RUNNING      |-> [from |-> {"PREPARED"}, to |-> "PROOF_PENDING"],
    PASS         |-> [from |-> {"PREPARED", "PROOF_PENDING"}, to |-> "FINAL_REVIEW"],
    FAIL_PRODUCT |-> [from |-> {"PREPARED", "PROOF_PENDING"}, to |-> "GRADING"],
    FAIL_INFRA   |-> [from |-> {"PROOF_PENDING"}, to |-> "PREPARED"],
    UNKNOWN      |-> [from |-> {"PROOF_PENDING"}, to |-> "PREPARED"],
    CANCELLED    |-> [from |-> {"PROOF_PENDING"}, to |-> "PREPARED"] ]

(* There is no guard on the proof's own status: a proof that is CANCELLED  *)
(* or already has a result can be recorded again.                          *)
ProofRecord(p, new) ==
  /\ pstatus[p] # "NONE"
  /\ pstatus' = [pstatus EXCEPT ![p] = new]
  /\ passed' = IF new = "PASS" THEN passed \cup {pcand[p]} ELSE passed
  /\ Move({i \in Candidates(pcand[p]) : status[i] \in ProofMoves[new].from}, ProofMoves[new].to)
  /\ UNCHANGED <<runVars, group, builder, round, seen, lastSubmit, pcand,
                 reviewVars, promoVars>>

-----------------------------------------------------------------------------
(* Reviews                                                                 *)

Verdicts == {"APPROVED", "FINDINGS", "BLOCKED"}

(* An APPROVED or FINDINGS plan review moves the item only from here.      *)
AtSenior(i) == {j \in {i} : status[j] = "JUNIOR_SATISFIED"}

PlanReview(i, r, verdict) ==
  /\ status[i] \in {"JUNIOR_SATISFIED", "PREPARING", "READY", "ASSIGNED", "BUILDING", "GRADING"}
  /\ lastPlan' = [lastPlan EXCEPT ![i] = r]
  /\ \/ verdict = "APPROVED" /\ Move(AtSenior(i), "PREPARING")
     \/ verdict = "FINDINGS" /\ Move(AtSenior(i), "GRADING")
     \/ verdict = "BLOCKED" /\ Move({i}, "BLOCKED")
  /\ UNCHANGED <<runVars, group, builder, round, seen, lastSubmit, proofVars,
                 approvals, promoVars>>

\* faulty variant: a stale candidate is not refused
Faulty_CodeReview(i, r, candidate, verdict) ==
  /\ cand[i] # None
  /\ lastPlan[i] # r
  /\ verdict = "APPROVED" /\ status[i] = "FINAL_REVIEW"
  /\ Move({i}, "APPROVED")
  /\ approvals' = approvals \cup {<<i, candidate>>}
  /\ UNCHANGED <<runVars, group, builder, round, seen, lastSubmit, proofVars,
                 lastPlan, promoVars>>

(* The candidate under review must still be the item's (a stale one is     *)
(* refused), and the reviewer not the one of the latest plan review.       *)
CodeReview(i, r, candidate, verdict) ==
  /\ cand[i] # None /\ candidate = cand[i]
  /\ lastPlan[i] # r
  /\ \/ /\ verdict = "APPROVED" /\ status[i] = "FINAL_REVIEW"
        /\ Move({i}, "APPROVED")
        /\ approvals' = approvals \cup {<<i, candidate>>}
     \/ /\ verdict # "APPROVED"
        /\ Move({i}, IF verdict = "FINDINGS" THEN "GRADING" ELSE "BLOCKED")
        /\ UNCHANGED approvals
  /\ UNCHANGED <<runVars, group, builder, round, seen, lastSubmit, proofVars,
                 lastPlan, promoVars>>

-----------------------------------------------------------------------------
(* Promotions                                                              *)

\* faulty variant: the chain order is not looked at
Faulty_ChainPredecessorUnpromoted(sha) == FALSE

ChainPredecessorUnpromoted(sha) ==
  /\ sha \in Recorded /\ ubase[sha] # None
  /\ \E i \in uitems[ubase[sha]] : status[i] # "PROMOTED"

(* The items are the caller's list: nothing ties it to the union's items.  *)
PromotePrepare(m, S, sha, p) ==
  /\ mstatus[m] = "NONE"
  /\ GateOpen
  /\ \E i \in Items : <<i, sha>> \in approvals
  /\ pstatus[p] = "PASS" /\ pcand[p] = sha
  /\ ~ChainPredecessorUnpromoted(sha)
  /\ \A i \in S : status[i] = "APPROVED"
  /\ mstatus' = [mstatus EXCEPT ![m] = "INTENT"]
  /\ mitems' = [mitems EXCEPT ![m] = S]
  /\ msha' = [msha EXCEPT ![m] = sha]
  /\ UNCHANGED <<runVars, itemVars, unionVars, proofVars, reviewVars>>

PromoteCommit(m) ==
  /\ mstatus[m] = "INTENT"
  /\ mstatus' = [mstatus EXCEPT ![m] = "COMMITTED"]
  /\ Move(mitems[m], "PROMOTED")
  /\ UNCHANGED <<runVars, group, builder, round, seen, lastSubmit, proofVars,
                 reviewVars, mitems, msha>>

(* The ref moved under the promotion: record it, promote nothing.          *)
PromoteReconcile(m) ==
  /\ mstatus[m] = "INTENT"
  /\ mstatus' = [mstatus EXCEPT ![m] = "RECONCILE"]
  /\ UNCHANGED <<runVars, itemVars, unionVars, proofVars, reviewVars, mitems, msha>>

-----------------------------------------------------------------------------
ItemStep(i) ==
  \/ PacketReady(i) \/ ReportItems(i) \/ Claim(i)
  \/ ItemUnassign(i) \/ ItemRebase(i) \/ ItemPause(i) \/ ItemResume(i) \/ ItemBlock(i)
  \/ \E g \in Groups : Assign(i, g)
  \/ \E to \in {"READY", "GRADING"} : ItemUnblock(i, to)
  \/ \E c \in CommitsOf[i] : SubmitResult(i, c)
  \/ \E satisfied \in BOOLEAN : Findings(i, satisfied)
  \/ \E r \in Reviewers, verdict \in Verdicts :
       PlanReview(i, r, verdict) \/ \E c \in Shas : CodeReview(i, r, c, verdict)

UnionStep(u) ==
  \/ \E S \in SUBSET Items, base \in Recorded \cup {None} : UnionRecord(S, u, base)
  \/ \E new \in UnionMarks : UnionStatus(u, new)
  \/ UnionCancel(u)

ProofStep(p) ==
  \/ \E sha \in Commits \cup Recorded : ProofRequest(p, sha)
  \/ \E new \in ProofStatuses \ {"NONE"} : ProofRecord(p, new)

PromoStep(m) ==
  \/ \E S \in SUBSET Items \ {{}}, sha \in Shas, p \in Proofs : PromotePrepare(m, S, sha, p)
  \/ PromoteCommit(m) \/ PromoteReconcile(m)

StoreNext ==
  \/ \E i \in Items : ItemStep(i)
  \/ \E u \in Unions : UnionStep(u)
  \/ \E p \in Proofs : ProofStep(p)
  \/ \E m \in Promos : PromoStep(m)

Next == StoreNext \/ (RunNext /\ UNCHANGED storeVars)

Spec == Init /\ [][Next]_vars

-----------------------------------------------------------------------------
(* Properties                                                              *)

(* The place of an item in the flow: a paused item counts as where it was. *)
Standing(i) == IF status[i] = "PAUSED" THEN pausedFrom[i] ELSE status[i]

(* No item is up for final review, approved or promoted unless some proof  *)
(* of exactly its present candidate has PASSed -- whatever pauses, blocks, *)
(* reworks, cancelled unions and late proof results happened on the way    *)
(* (_set_item, union_cancel, proof_record).                                *)
ProvenBeforeReview ==
  \A i \in Items :
    Standing(i) \in {"FINAL_REVIEW", "APPROVED", "PROMOTED"} => cand[i] \in passed

(* An item that counts as approved, or is promoted, has a final code       *)
(* review APPROVED of exactly the candidate it holds now: no rework or     *)
(* union rebuild changes the candidate under the approval (review_record). *)
ApprovedWasReviewed ==
  \A i \in Items : Standing(i) \in {"APPROVED", "PROMOTED"} => <<i, cand[i]>> \in approvals

(* An item outside a union holds its builder's last submitted commit, so a *)
(* reviewer or junior is never handed a dead union's tree (the restore in  *)
(* _set_item and union_cancel; SEC-01b).                                   *)
OwnCandidate ==
  \A i \in Items : unionOf[i] = None /\ lastSubmit[i] # None => cand[i] = lastSubmit[i]

(* An item in a union is one of the union row's items, holds the union's   *)
(* sha, and is nowhere in the flow where its own commit is being worked on *)
(* (union_record and every path off the union).                            *)
UnionMembership ==
  \A i \in Items : unionOf[i] # None =>
    /\ i \in uitems[unionOf[i]] /\ cand[i] = unionOf[i]
    /\ status[i] \notin {"NEW", "READY", "BUILDING", "GRADING", "BLOCKED"}

(* A recorded promotion intent names a tree that some proof PASSed and     *)
(* some reviewer approved, and stands behind its predecessor in the        *)
(* speculative chain: the union it is based on is wholly promoted          *)
(* (promote_prepare, with union_cancel refusing promoted unions).          *)
IntentJustified ==
  \A m \in Promos : mstatus[m] # "NONE" =>
    /\ msha[m] \in passed /\ \E i \in Items : <<i, msha[m]>> \in approvals
    /\ (msha[m] \in Recorded /\ ubase[msha[m]] # None) =>
          \A i \in uitems[ubase[msha[m]]] : status[i] = "PROMOTED"

(* Promotion is final: no verb, not even union_cancel that bypasses the    *)
(* transition table, moves a promoted item or the tree it was promoted as. *)
PromotedIsFinal ==
  [][\A i \in Items : status[i] = "PROMOTED" =>
       status'[i] = "PROMOTED" /\ cand'[i] = cand[i]]_vars

(* Unique writer: a builder takes an unclaimed item only as the builder of *)
(* the group the item is assigned to at that moment, though it decided on  *)
(* an older report; and it keeps the item until item_unassign (claim).     *)
UniqueWriter ==
  [][\A i \in Items : builder'[i] # builder[i] =>
       IF builder[i] = None THEN builder'[i] = group[i]
       ELSE builder'[i] = None /\ status[i] = "ASSIGNED" /\ status'[i] = "READY"]_vars

-----------------------------------------------------------------------------
(* What the documents say and the code does not keep                       *)

(* union_cancel: "Every item still on the union path goes back to          *)
(* PREPARING with union_id NULL".  A paused item, or one whose proof is    *)
(* not requested yet, stays in the cancelled union.                        *)
CancelledUnionIsEmpty ==
  [][\A u \in Unions : ustatus[u] # "CANCELLED" /\ ustatus'[u] = "CANCELLED" =>
       \A i \in Items : unionOf'[i] # u]_vars

(* union_record: "its candidate becomes the union sha so proof and final   *)
(* review address the exact tree that ships".  promote_prepare does not    *)
(* compare the items' candidates with the union that is promoted.          *)
ShipsReviewedTree ==
  [][\A m \in Promos, i \in Items :
       mstatus[m] = "INTENT" /\ mstatus'[m] = "COMMITTED" /\ i \in mitems[m]
         => <<i, msha[m]>> \in approvals]_vars

=============================================================================
