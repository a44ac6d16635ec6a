----------------------------- MODULE MCVpTurns ------------------------------
(* Instances of VpTurns: one item with an operator's move, a fault or a    *)
(* death, from every status; two items in their last round that share the  *)
(* runners, with faults or with nothing.                                   *)
EXTENDS VpTurns

CONSTANTS i, j

Left == (MaxOps - spent.ops) + (MaxFaults - spent.faults) + (MaxCrashes - spent.crashes)

OneItem  == item[j].st = "READY" /\ ~item[j].att /\ item[j].round = 0 /\ item[i].st # "READY" /\ item[i].round = 0 /\ Left <= 1
TwoItems == /\ \A x \in Items : item[x].round = RoundCap - 1 /\ ~item[x].att
            /\ \/ item[i].st = "JUNIOR_SATISFIED" /\ item[j].st = "JUNIOR_SATISFIED" /\ Left = MaxFaults - spent.faults
               \/ item[i].st = "ASSIGNED" /\ item[j].st = "GRADING" /\ Left = 0

Init_Starts == Init /\ (OneItem \/ TwoItems)
Spec_Starts == Init_Starts /\ [][Next]_vars /\ Fairness
=============================================================================
