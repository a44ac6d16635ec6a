------------------------------ MODULE VpUnions ------------------------------
(***************************************************************************)
(* From PREPARING to APPROVED in the v12 driver (vp/vpdriver.py: tick,     *)
(* _reconcile_chain, build_union, run_proof and its ways to prove,         *)
(* _note_proof_infra, _deliver_final) over the store's unions and proofs.  *)
(* The loop merges prepared items into a union on top of the last one,     *)
(* threads prove it on the box or on CircleCI and review it, and a union   *)
(* whose predecessor died is cancelled with its items given back.  Every   *)
(* call of the store is a step of its own, and the driver may die between  *)
(* any two.                                                                *)
(*                                                                         *)
(* An item is its status, its union and its candidate: 0 for the commit it *)
(* submitted, u for the sha of union u.  GRADING stands for the rounds of  *)
(* module VpTurns, out of which it comes back PREPARING.                   *)
(***************************************************************************)
EXTENDS Naturals, Sequences, FiniteSets, SequencesExt, FiniteSetsExt

CONSTANTS
  Items,
  Ways,               \* how an item's proofs may run: "box" (one kind), "kinds" (several), "circle"
  ProofSlots,         \* max_proofs_in_flight
  UnionSlots,         \* max_unions_in_flight
  InfraCap,           \* proofs without a verdict after which the items are paused
  MaxUnions, MaxProofs, MaxRounds,        \* bounds: rows of a kind, submissions again
  MaxOps, MaxFaults, MaxCrashes           \* bounds: operator's moves, conflicts, deaths

UnionsAssumption ==
  /\ IsFiniteSet(Items) /\ Ways \in [Items -> SUBSET {"box", "kinds", "circle"}] /\ ProofSlots \in Nat /\ UnionSlots \in Nat /\ InfraCap \in Nat \ {0}
  /\ MaxUnions \in Nat /\ MaxProofs \in Nat /\ MaxRounds \in Nat /\ MaxOps \in Nat /\ MaxFaults \in Nat /\ MaxCrashes \in Nat

VARIABLES
  item,       \* item -> [st, un, cand, from]
  union,      \* sequence of [st, items, base]; base 0 is the trunk
  proof,      \* sequence of [cand, st]
  trees,      \* numbers of the union worktrees on disk
  thr,        \* item -> NoThread or its proof or final thread
  main,       \* where the loop is, and what it works on
  cancel,     \* _proof_cancel: the unions whose proofs are to be dropped
  infra,      \* _proof_infra_n and _proof_backoff, by candidate
  up,         \* the driver runs
  spent       \* [rounds, ops, faults, crashes]

store == <<item, union, proof>>
vars  == <<store, trees, thr, main, cancel, infra, up, spent>>

Verdicts == {"PASS", "FAIL_PRODUCT", "FAIL_INFRA"}       \* UNKNOWN is treated as FAIL_INFRA
Live     == {"BUILT", "PROOF", "APPROVED"}               \* UNION_LIVE
Dead     == {"FAILED", "FINDINGS", "BLOCKED", "CANCELLED"}
NoThread == [at |-> "none", role |-> "none", cand |-> 0, un |-> 0, pid |-> 0, way |-> "none", res |-> "none", left |-> {}]
Idle     == [at |-> "idle", todo |-> {}, seen |-> <<>>, us |-> <<>>, prep |-> {}, base |-> 0]
Unions   == 1 .. Len(union)
Running  == {i \in Items : thr[i] # NoThread}
Proving  == {i \in Running : thr[i].role = "proof"}

TypeOK ==
  /\ \A i \in Items : /\ item[i].st \in {"GRADING", "BLOCKED", "PAUSED", "PREPARING", "PREPARED", "PROOF_PENDING",
                                         "FINAL_REVIEW", "APPROVED", "PROMOTED"}
                      /\ item[i].un \in {0} \cup Unions /\ item[i].cand \in {0} \cup Unions
  /\ \A u \in Unions : union[u].st \in Live \cup Dead /\ union[u].base < u /\ union[u].items \subseteq Items
  /\ \A p \in DOMAIN proof : proof[p].st \in Verdicts \cup {"REQUESTED", "RUNNING", "CANCELLED"}
  /\ Cardinality(Proving) <= ProofSlots /\ trees \subseteq 1 .. MaxUnions + 1
  /\ \A u \in DOMAIN infra : infra[u].n < InfraCap

Limit == [rounds |-> MaxRounds, ops |-> MaxOps, faults |-> MaxFaults, crashes |-> MaxCrashes]
Spend(what) == spent[what] < Limit[what] /\ spent' = [spent EXCEPT ![what] = @ + 1]

----------------------------------------------------------------------------
(* The store.                                                              *)
OutOfUnion == {"GRADING", "BLOCKED"}

(* _set_item: an item that leaves its union fails the union, unless it is  *)
(* approved already, and has its own commit again                          *)
Moved(row, st) == IF st \in OutOfUnion THEN [row EXCEPT !.st = st, !.un = 0, !.cand = 0] ELSE [row EXCEPT !.st = st]
Failed(S) ==
  [u \in Unions |-> IF union[u].st # "APPROVED" /\ \E i \in S : item[i].un = u THEN [union[u] EXCEPT !.st = "FAILED"] ELSE union[u]]
MoveAll(S, st) ==
  /\ item' = [i \in Items |-> IF i \in S THEN Moved(item[i], st) ELSE item[i]]
  /\ union' = IF st \in OutOfUnion THEN Failed(S) ELSE union

(* proof_record: what a status of a proof does to the items of its tree    *)
Recorded(pid, st) ==
  LET on(from) == {i \in Items : item[i].cand = proof[pid].cand /\ item[i].st \in from}
      S == CASE st = "RUNNING" -> on({"PREPARED"})
             [] st \in {"PASS", "FAIL_PRODUCT"} -> on({"PREPARED", "PROOF_PENDING"})
             [] OTHER -> on({"PROOF_PENDING"})
      to == CASE st = "RUNNING" -> "PROOF_PENDING" [] st = "PASS" -> "FINAL_REVIEW"
              [] st = "FAIL_PRODUCT" -> "GRADING" [] OTHER -> "PREPARED" IN
  /\ MoveAll(S, to)
  /\ proof' = [proof EXCEPT ![pid].st = st]

ProofRequest(u) ==
  /\ Len(proof) < MaxProofs
  /\ proof' = Append(proof, [cand |-> u, st |-> "REQUESTED"])
  /\ MoveAll({i \in Items : item[i].cand = u /\ item[i].st = "PREPARING"}, "PREPARED")

OpenProof(u) ==
  LET open == {p \in DOMAIN proof : proof[p].cand = u /\ proof[p].st \in {"REQUESTED", "RUNNING"}} IN
  IF open = {} THEN 0 ELSE Max(open)

(* union_cancel: what is still on the union path goes back to PREPARING    *)
CancelFrom == {"PREPARED", "PROOF_PENDING", "FINAL_REVIEW", "APPROVED"}
UnionCancel(u) ==
  /\ item' = [i \in Items |-> IF item[i].un = u /\ item[i].st \in CancelFrom
                              THEN [item[i] EXCEPT !.st = "PREPARING", !.un = 0, !.cand = 0] ELSE item[i]]
  /\ proof' = [p \in DOMAIN proof |-> IF proof[p].cand = u /\ proof[p].st \in {"REQUESTED", "RUNNING"}
                                      THEN [proof[p] EXCEPT !.st = "CANCELLED"] ELSE proof[p]]
  /\ union' = [union EXCEPT ![u].st = "CANCELLED"]
Cancellable(u) == union[u].st # "CANCELLED" /\ \A i \in union[u].items : item[i].st # "PROMOTED"

----------------------------------------------------------------------------
(* The loop: the items are read once and visited one after the other, by   *)
(* their rounds and ages; then the chain is looked over and a union built  *)
(* of what was PREPARING when they were read.                              *)
Dies == up' = FALSE /\ main' = Idle /\ thr' = [i \in Items |-> NoThread] /\ cancel' = {} /\ infra' = <<>>
Loop(at) == main.at = at /\ up
Step(m) == main' = m /\ UNCHANGED <<up, thr, infra>>

Row(i) == [st |-> item[i].st, un |-> item[i].un, cand |-> item[i].cand, pid |-> OpenProof(item[i].cand)]
TickBegins ==
  /\ Loop("idle") /\ Step([Idle EXCEPT !.at = "visit", !.todo = Items, !.seen = [i \in Items |-> Row(i)]])
  /\ UNCHANGED <<store, trees, cancel, spent>>

RoleForStatus == [PREPARED |-> "proof", FINAL_REVIEW |-> "final"]
Named(u) == \E x \in Proving : thr[x].cand = u /\ thr[x].at # "start"        \* _proof_thread_live
Spawns(i) ==
  LET r == main.seen[i] IN
  /\ thr[i] = NoThread /\ r.st \in DOMAIN RoleForStatus
  /\ r.st = "PREPARED" => Cardinality(Proving) < ProofSlots /\ ~(r.pid # 0 /\ Named(r.cand))
  /\ r.st = "FINAL_REVIEW" => \A x \in Running : r.un # 0 => main.seen[x].un # r.un
Spawned(r) == [NoThread EXCEPT !.at = "start", !.role = RoleForStatus[r.st], !.cand = r.cand, !.un = r.un, !.pid = r.pid]

Prepared == {i \in Items : main.seen[i].st = "PREPARING" /\ main.seen[i].un = 0}
Visit(i) ==
  /\ Loop("visit") /\ i \in main.todo
  /\ thr' = IF Spawns(i) THEN [thr EXCEPT ![i] = Spawned(main.seen[i])] ELSE thr
  /\ main' = IF main.todo # {i} THEN [main EXCEPT !.todo = @ \ {i}]
             ELSE [Idle EXCEPT !.at = "chain", !.us = [u \in Unions |-> union[u].st], !.prep = Prepared]
  /\ UNCHANGED <<store, trees, cancel, infra, up, spent>>

(* _reconcile_chain: one pass in the order of the unions, cascading        *)
Orphan(u) == main.us[u] \in Live /\ union[u].base # 0 /\ main.us[union[u].base] \in Dead
Orphans == IF UnionSlots > 1 THEN {u \in DOMAIN main.us : Orphan(u)} ELSE {}
ReconcileChain ==
  /\ Loop("chain") /\ Orphans # {}
  /\ LET u == Min(Orphans) IN
     /\ cancel' = cancel \cup {u}
     /\ IF Cancellable(u)
        THEN UnionCancel(u) /\ Step([main EXCEPT !.us[u] = "CANCELLED"])
        ELSE UNCHANGED store /\ Step([main EXCEPT !.us[u] = "refused"])
  /\ UNCHANGED <<trees, spent>>

Tips == {u \in Unions : union[u].st \in (IF UnionSlots > 1 THEN Live ELSE {"APPROVED"})}
InFlight == {u \in Unions : union[u].st \in {"BUILT", "PROOF"}}
UnionNo == Len(union) + 1
Builds == main.prep # {} /\ Cardinality(InFlight) < UnionSlots /\ Len(union) < MaxUnions
BuildAdds ==
  /\ Loop("chain") /\ Orphans = {} /\ Builds
  /\ IF UnionNo \in trees THEN Dies /\ UNCHANGED trees                  \* an old worktree: K-23
     ELSE /\ trees' = trees \cup {UnionNo} /\ UNCHANGED cancel
          /\ Step([Idle EXCEPT !.at = "merge", !.prep = main.prep, !.base = IF Tips = {} THEN 0 ELSE Max(Tips)])
  /\ UNCHANGED <<store, spent>>
TickEnds ==
  /\ Loop("chain") /\ Orphans = {} /\ ~Builds /\ Step(Idle)
  /\ UNCHANGED <<store, trees, cancel, spent>>

(* what conflicts, collides or cannot be regenerated is blocked            *)
BuildMerges ==
  /\ Loop("merge")
  /\ \/ /\ UNCHANGED <<item, union, trees, spent>>
        /\ Step([main EXCEPT !.at = "record"])
     \/ \E S \in SUBSET main.prep \ {{}} :
          /\ Spend("faults") /\ MoveAll({i \in S : item[i].st # "PROMOTED"}, "BLOCKED")
          /\ IF S = main.prep THEN trees' = trees \ {UnionNo} /\ Step(Idle)
             ELSE UNCHANGED trees /\ Step([main EXCEPT !.at = "record", !.prep = @ \ S])
  /\ UNCHANGED <<proof, cancel>>

(* union_record, refused when an item is not PREPARING any more            *)
BuildRecords ==
  /\ Loop("record")
  /\ IF \A i \in main.prep : item[i].st = "PREPARING"
     THEN /\ union' = Append(union, [st |-> "BUILT", items |-> main.prep, base |-> main.base])
          /\ item' = [i \in Items |-> IF i \in main.prep THEN [item[i] EXCEPT !.un = UnionNo, !.cand = UnionNo] ELSE item[i]]
          /\ Step([Idle EXCEPT !.at = "request"]) /\ UNCHANGED cancel
     ELSE Dies /\ UNCHANGED <<item, union>>
  /\ UNCHANGED <<proof, trees, spent>>

BuildRequests ==
  /\ Loop("request") /\ ProofRequest(Len(union)) /\ Step(Idle)
  /\ UNCHANGED <<trees, cancel, spent>>

----------------------------------------------------------------------------
(* A proof.                                                                *)
At(i, role, at) == thr[i].role = role /\ thr[i].at = at
Rest == UNCHANGED <<trees, main, cancel, up, spent>>
Goes(i, at) == thr' = [thr EXCEPT ![i].at = at]
Ends(i) == thr' = [thr EXCEPT ![i] = NoThread]

Faulty_WaitsFor(u) == u \in DOMAIN infra /\ infra[u].wait /\ infra[u].n > 1

WaitsFor(u) == u \in DOMAIN infra /\ infra[u].wait
ProofBegins(i) ==
  /\ At(i, "proof", "start")
  /\ IF WaitsFor(thr[i].cand) THEN Ends(i) /\ UNCHANGED store
     ELSE \E w \in Ways[i] :
          LET new == thr[i].pid = 0 IN
          /\ IF new THEN ProofRequest(thr[i].cand) ELSE UNCHANGED store
          /\ thr' = [thr EXCEPT ![i].at = "named", ![i].way = w, ![i].pid = IF new THEN Len(proof) + 1 ELSE @]
  /\ UNCHANGED infra /\ Rest

(* vpproof takes the box lock and records RUNNING, CircleCI is triggered;  *)
(* with several kinds nothing is recorded before the last                  *)
Dropped(i) == thr[i].cand \in cancel                     \* _proof_cancelled
ProofRuns(i) ==
  /\ At(i, "proof", "named")
  /\ IF thr[i].way # "circle" /\ Dropped(i) THEN Ends(i) /\ UNCHANGED store
     ELSE /\ Goes(i, "runs")
          /\ IF thr[i].way = "kinds" THEN UNCHANGED store ELSE Recorded(thr[i].pid, "RUNNING")
  /\ UNCHANGED infra /\ Rest

ProofAnswers(i) ==
  /\ At(i, "proof", "runs")
  /\ IF thr[i].way = "circle" /\ Dropped(i) THEN Ends(i) /\ UNCHANGED store            \* poll aborts, no verdict
     ELSE \E v \in Verdicts :
          /\ IF thr[i].way = "box" THEN Recorded(thr[i].pid, v) ELSE UNCHANGED store   \* vpproof records by itself
          /\ thr' = [thr EXCEPT ![i].res = v, ![i].at = IF thr[i].way = "box" THEN "recorded" ELSE "answered"]
  /\ UNCHANGED infra /\ Rest

(* the cancellation is looked at, and the verdict recorded in a later call *)
ProofChecked(i) ==
  /\ At(i, "proof", "answered")
  /\ IF Dropped(i) THEN Ends(i) ELSE Goes(i, "record")
  /\ UNCHANGED <<store, infra>> /\ Rest
ProofRecords(i) ==
  /\ At(i, "proof", "record") /\ Recorded(thr[i].pid, thr[i].res) /\ Goes(i, "follow")
  /\ UNCHANGED infra /\ Rest
ProofRecorded(i) ==
  /\ At(i, "proof", "recorded")
  /\ IF Dropped(i) THEN Ends(i) ELSE Goes(i, "follow")
  /\ UNCHANGED <<store, infra>> /\ Rest

(* _note_proof_infra                                                       *)
Tries(u) == (IF u \in DOMAIN infra THEN infra[u].n ELSE 0) + 1
Forget(u) == [x \in DOMAIN infra \ {u} |-> infra[x]]
Members(i) == IF thr[i].un = 0 THEN {i} ELSE union[thr[i].un].items
Pausable == {i \in Items : item[i].st \notin {"PAUSED", "PROMOTED"}}
Paused(S) == [i \in Items |-> IF i \in S \cap Pausable THEN [item[i] EXCEPT !.st = "PAUSED", !.from = item[i].st] ELSE item[i]]

ProofFollows(i) ==
  /\ At(i, "proof", "follow") /\ Ends(i)
  /\ LET u == thr[i].cand IN
     \/ /\ thr[i].res = "PASS" /\ infra' = Forget(u) /\ UNCHANGED item
        /\ union' = IF thr[i].un = 0 THEN union ELSE [union EXCEPT ![thr[i].un].st = "PROOF"]
     \/ thr[i].res = "FAIL_PRODUCT" /\ UNCHANGED <<item, union, infra>>                \* findings: back to the rounds
     \/ /\ thr[i].res = "FAIL_INFRA" /\ UNCHANGED union
        /\ IF Tries(u) >= InfraCap
           THEN item' = Paused(Members(i)) /\ infra' = Forget(u)
           ELSE UNCHANGED item /\ infra' = [x \in DOMAIN infra \cup {u} |-> IF x = u THEN [n |-> Tries(u), wait |-> TRUE] ELSE infra[x]]
  /\ UNCHANGED proof /\ Rest

WaitOver(u) ==
  /\ WaitsFor(u) /\ infra' = [infra EXCEPT ![u].wait = FALSE]
  /\ UNCHANGED <<store, trees, thr, main, cancel, up, spent>>

----------------------------------------------------------------------------
(* The final review: asked for the candidate the item holds now, delivered *)
(* to every member of the union one by one, then the union.                *)
FinalBegins(i) ==
  /\ At(i, "final", "start")
  /\ IF item[i].st # "FINAL_REVIEW" \/ item[i].un = 0 THEN Ends(i)
     ELSE \E v \in {"APPROVED", "FINDINGS", "BLOCKED"} :
            thr' = [thr EXCEPT ![i].at = "deliver", ![i].res = v, ![i].cand = item[i].cand, ![i].left = union[thr[i].un].items]
  /\ UNCHANGED <<store, infra>> /\ Rest

Faulty_Reviewed(i, x) == (thr[i].res = "APPROVED" => item[x].st = "FINAL_REVIEW") /\ item[x].st # "PROMOTED"

Reviewed(i, x) == item[x].cand = thr[i].cand /\ (thr[i].res = "APPROVED" => item[x].st = "FINAL_REVIEW") /\ item[x].st # "PROMOTED"
FinalDelivers(i) ==
  /\ At(i, "final", "deliver") /\ thr[i].left # {}
  /\ LET x == CHOOSE x \in thr[i].left : TRUE IN
     /\ thr' = [thr EXCEPT ![i].left = @ \ {x}]
     /\ IF ~Reviewed(i, x) THEN UNCHANGED <<item, union>>
        ELSE MoveAll({x}, CASE thr[i].res = "APPROVED" -> "APPROVED" [] thr[i].res = "FINDINGS" -> "GRADING" [] OTHER -> "BLOCKED")
  /\ UNCHANGED <<proof, infra>> /\ Rest
FinalEnds(i) ==
  /\ At(i, "final", "deliver") /\ thr[i].left = {} /\ Ends(i)
  /\ union' = [union EXCEPT ![thr[i].un].st = thr[i].res]
  /\ UNCHANGED <<item, proof, infra>> /\ Rest

----------------------------------------------------------------------------
(* The rounds bring an item back; the operator pauses, resumes, blocks and *)
(* promotes in chain order; the driver dies and is started again.          *)
Quiet == UNCHANGED <<trees, thr, main, cancel, infra, up>>
Resubmits(i) ==
  /\ item[i].st = "GRADING" /\ Spend("rounds") /\ MoveAll({i}, "PREPARING")
  /\ UNCHANGED proof /\ Quiet
Promotable(u) ==
  /\ union[u].items # {} /\ \A i \in union[u].items : item[i].st = "APPROVED" /\ item[i].cand = u
  /\ union[u].base # 0 => \A i \in union[union[u].base].items : item[i].st = "PROMOTED"
Promotes(u) ==
  /\ Promotable(u) /\ MoveAll(union[u].items, "PROMOTED")
  /\ UNCHANGED <<proof, spent>> /\ Quiet
Operator(i) ==
  /\ Spend("ops") /\ UNCHANGED proof /\ Quiet
  /\ \/ item' = Paused({i}) /\ item' # item /\ UNCHANGED union
     \/ item[i].st = "PAUSED" /\ item' = [item EXCEPT ![i].st = item[i].from, ![i].from = "none"] /\ UNCHANGED union
     \/ item[i].st \notin {"BLOCKED", "PROMOTED"} /\ MoveAll({i}, "BLOCKED")
Crash ==
  /\ up /\ Spend("crashes") /\ Dies /\ UNCHANGED <<store, trees>>
Restart ==
  /\ ~up /\ up' = TRUE /\ UNCHANGED <<store, trees, thr, main, cancel, infra, spent>>

LoopStep == TickBegins \/ (\E i \in Items : Visit(i)) \/ ReconcileChain \/ TickEnds \/ BuildAdds \/ BuildMerges \/ BuildRecords \/ BuildRequests
ThreadStep(i) ==
  \/ ProofBegins(i) \/ ProofRuns(i) \/ ProofAnswers(i) \/ ProofChecked(i) \/ ProofRecords(i) \/ ProofRecorded(i) \/ ProofFollows(i)
  \/ FinalBegins(i) \/ FinalDelivers(i) \/ FinalEnds(i)

Init ==
  /\ item \in [Items -> [st : {"PREPARING", "GRADING", "PROMOTED"}, un : {0}, cand : {0}, from : {"none"}]]
  /\ union = <<>> /\ proof = <<>> /\ trees = {} /\ thr = [i \in Items |-> NoThread] /\ main = Idle
  /\ cancel = {} /\ infra = <<>> /\ up = TRUE
  /\ spent \in [rounds : 0 .. MaxRounds, ops : 0 .. MaxOps, faults : 0 .. MaxFaults, crashes : 0 .. MaxCrashes]

Next ==
  \/ LoopStep \/ Crash \/ Restart
  \/ \E i \in Items : ThreadStep(i) \/ Resubmits(i) \/ Operator(i)
  \/ \E u \in Unions : Promotes(u) \/ WaitOver(u)

Fairness ==
  /\ WF_vars(LoopStep) /\ WF_vars(Restart)
  /\ \A i \in Items : WF_vars(ThreadStep(i))
  /\ \A u \in 1 .. MaxUnions : WF_vars(u \in Unions /\ WaitOver(u))

Spec == Init /\ [][Next]_vars /\ Fairness

----------------------------------------------------------------------------
(* An item's candidate is the sha of its union, and the union lists it,    *)
(* however it came into the union or was thrown out of it.                 *)
Belongs == \A i \in Items : item[i].cand = item[i].un /\ (item[i].un # 0 => i \in union[item[i].un].items)

(* A candidate whose proof ended without a verdict is not proved again     *)
(* while its backoff runs, by no thread and no tick.                       *)
WaitingIsQuiet ==
  \A u \in DOMAIN infra : infra[u].wait => ~\E i \in Proving : thr[i].cand = u /\ thr[i].at \notin {"start", "follow"}

(* An item comes to stand approved, paused or not, only by a final review  *)
(* of the candidate it holds then, whatever happened to its union while    *)
(* the review ran, and its candidate does not change under the approval.   *)
StandsApproved(i) == item[i].st = "APPROVED" \/ (item[i].st = "PAUSED" /\ item[i].from = "APPROVED")
Granted ==
  \A i \in Items : StandsApproved(i)' =>
    \/ StandsApproved(i) /\ item'[i].cand = item[i].cand
    \/ \E k \in Running : thr[k].role = "final" /\ thr[k].cand = item'[i].cand
ApprovedAsReviewed == [][Granted]_vars

(* Whatever the proofs and reviews say, every item comes to rest, and no   *)
(* live union is left on one that died; unless a build that died left the  *)
(* worktree of the next union behind, over which every later build dies.   *)
Undisturbed == spent.ops = MaxOps /\ spent.crashes = MaxCrashes
Exhausted   == Len(union) = MaxUnions \/ Len(proof) = MaxProofs
Settled     == \A i \in Items : item[i].st \in {"GRADING", "BLOCKED", "PAUSED", "APPROVED", "PROMOTED"}
Orphaned    == \E u \in Unions : union[u].st \in Live /\ union[u].base # 0 /\ union[union[u].base].st \in Dead
Stuck       == UnionNo \in trees /\ main.at \in {"idle", "visit", "chain"}
AtRest      == Exhausted \/ Stuck \/ (Settled /\ ~Orphaned)
Settles     == Undisturbed => []<>AtRest

----------------------------------------------------------------------------
(* What the documents say and the code does not do.                        *)

(* The result of a proof whose union was cancelled is discarded: nothing   *)
(* is written to its row (README-driver.md, "Proof abort").                *)
ResultDiscarded == [][\A p \in DOMAIN proof : proof[p].st = "CANCELLED" => proof'[p].st = "CANCELLED"]_vars

(* A cancelled union stays cancelled, and is no base of a later one.       *)
CancelledStays == [][\A u \in Unions : union[u].st = "CANCELLED" => union'[u].st = "CANCELLED"]_vars

(* The driver goes down only when something outside takes it down.         *)
Survives == [][up /\ ~up' => spent'.crashes # spent.crashes]_vars
=============================================================================
