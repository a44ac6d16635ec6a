----------------------------- MODULE MCVpUnions -----------------------------
(* Instances of VpUnions: two items prepared at once; one item with an     *)
(* operator's move, a conflict, a round or a death; two unions, the second *)
(* on the first, which has passed its proof; those two in final review,    *)
(* the first with findings and its item to come again; and an approved     *)
(* item on hold, with the second in final review on it.                    *)
EXTENDS VpUnions

CONSTANTS i, j

Left == (MaxRounds - spent.rounds) + (MaxOps - spent.ops) + (MaxFaults - spent.faults) + (MaxCrashes - spent.crashes)

TwoItems == Init /\ (\A x \in Items : item[x].st = "PREPARING") /\ Left = 0
OneItem  == Init /\ item[i].st = "PREPARING" /\ item[j].st = "PROMOTED" /\ Left <= 1
Chain ==
  /\ union = <<[st |-> "PROOF", items |-> {i}, base |-> 0], [st |-> "BUILT", items |-> {j}, base |-> 1]>>
  /\ proof = <<[cand |-> 1, st |-> "PASS"], [cand |-> 2, st |-> "REQUESTED"]>>
  /\ item = [x \in Items |-> IF x = i THEN [st |-> "FINAL_REVIEW", un |-> 1, cand |-> 1, from |-> "none"]
                               ELSE [st |-> "PREPARED", un |-> 2, cand |-> 2, from |-> "none"]]
  /\ trees = {1, 2} /\ thr = [x \in Items |-> NoThread] /\ main = Idle /\ cancel = {} /\ infra = <<>> /\ up = TRUE
  /\ spent = Limit

Stale ==
  /\ union = <<[st |-> "FINDINGS", items |-> {i}, base |-> 0], [st |-> "PROOF", items |-> {j}, base |-> 1]>>
  /\ proof = <<[cand |-> 1, st |-> "PASS"], [cand |-> 2, st |-> "PASS"]>>
  /\ item = [x \in Items |-> IF x = i THEN [st |-> "GRADING", un |-> 0, cand |-> 0, from |-> "none"]
                               ELSE [st |-> "FINAL_REVIEW", un |-> 2, cand |-> 2, from |-> "none"]]
  /\ trees = {1, 2} /\ thr = [x \in Items |-> NoThread] /\ main = Idle /\ cancel = {} /\ infra = <<>> /\ up = TRUE
  /\ spent = [Limit EXCEPT !.rounds = MaxRounds - 1]

Held ==
  /\ union = <<[st |-> "APPROVED", items |-> {i}, base |-> 0], [st |-> "PROOF", items |-> {j}, base |-> 1]>>
  /\ proof = <<[cand |-> 1, st |-> "PASS"], [cand |-> 2, st |-> "PASS"]>>
  /\ item = [x \in Items |-> IF x = i THEN [st |-> "PAUSED", un |-> 1, cand |-> 1, from |-> "APPROVED"]
                               ELSE [st |-> "FINAL_REVIEW", un |-> 2, cand |-> 2, from |-> "none"]]
  /\ trees = {1, 2} /\ thr = [x \in Items |-> NoThread] /\ main = Idle /\ cancel = {} /\ infra = <<>> /\ up = TRUE
  /\ spent = [Limit EXCEPT !.ops = MaxOps - 1]

Init_Starts == TwoItems \/ OneItem \/ Chain \/ Stale \/ Held
Spec_Starts == Init_Starts /\ [][Next]_vars /\ Fairness
=============================================================================
