---------------------------- MODULE MCCodexSlots ----------------------------
(* Starts of CodexSlots for TLC: which items are queued (i1 and i2 share a *)
(* worktree) and how much goes wrong.                                      *)
EXTENDS CodexSlots

CONSTANTS i1, i2, i3

Starts ==
  { [queued |-> {i1, i2}, trouble |-> 0],
    [queued |-> {i1, i3}, trouble |-> 0],
    [queued |-> {i3},     trouble |-> 1] }

StartIn(s) ==
  /\ InitWith([i \in Items |-> IF i \in s.queued THEN "queued" ELSE "merged"])
  /\ spent = [trouble |-> MaxTrouble - s.trouble, deaths |-> 0]
=============================================================================
