---------------------------- MODULE MCDispatcher ----------------------------
EXTENDS Dispatcher
(* One executor x; i1 and i2 share a worktree, i3 has its own.             *)
CONSTANTS i1, i2, i3, x
MCQueue == <<i1, i2, i3>>
MCTree == [i \in Items |-> IF i = i2 THEN i1 ELSE i]
MCDeps == [i \in Items |-> {}]
=============================================================================
