---------------------------- MODULE MCLanePack -----------------------------
(***************************************************************************)
(* Instances of LanePack for TLC: A drives the catalog row a, then a-V13;  *)
(* T is its hosted twin, F the final review, C and A close the catalog row *)
(* r that C drives, X is A-V13-FIX-1, u is a row no packet names.          *)
(***************************************************************************)
EXTENDS LanePack, TLC

P(own, dyn, ds, cs, tw, numbered) ==
  [own |-> own, dyn |-> dyn, deps |-> ds, closes |-> cs, twin |-> tw, numbered |-> numbered]
MCPack == [A |-> P("a", <<"av", 0>>, {}, {<<"r", 0>>}, None, TRUE),
           C |-> P("r", <<"c", 0>>, {}, {<<"r", 0>>}, None, FALSE),
           F |-> P("f", <<"fv", 0>>, {"A"}, {}, None, FALSE),
           T |-> P(None, <<"t", 0>>, {"A"}, {}, "A", FALSE),
           X |-> P(None, <<"av", Fix>>, {}, {}, None, FALSE)]
MCOrder == <<"A", "C", "F", "T", "X">>

(* The starts: what each row is, and the packets whose binding is on disk. *)
Rows(g) == [w \in Task |-> IF w \in DOMAIN g THEN g[w] ELSE "absent"]
Binding(g) == [p \in Packet |-> IF p \in DOMAIN g THEN g[p] ELSE None]
a == <<"a", 0>>  av == <<"av", 0>>  c == <<"c", 0>>  f == <<"f", 0>>  r == <<"r", 0>>  u == <<"u", 0>>  t == <<"t", 0>>  x == <<"av", Fix>>

Starts ==
  { (* A is done, its twin is owed and the final review waits               *)
    [row |-> Rows(a :> "INTEGRATED" @@ av :> "VERIFIED" @@ f :> "WAITING"), rec |-> Binding("A" :> av),
     loaded |-> {"A", "F", "T"}, asks |-> 1, crashes |-> 0, faults |-> 0],
    (* A is red, and retried, and fixed by X                               *)
    [row |-> Rows(a :> "INTEGRATED" @@ av :> "REPAIR_REQUIRED" @@ f :> "WAITING"), rec |-> Binding("A" :> av),
     loaded |-> {"A", "F", "X"}, asks |-> 1, crashes |-> 0, faults |-> 0],
    (* A is to run, with a crash and a lost answer                         *)
    [row |-> Rows(a :> "INTEGRATED" @@ av :> "WAITING"), rec |-> Binding("A" :> av),
     loaded |-> {"A"}, asks |-> 1, crashes |-> 1, faults |-> 1],
    (* A and C close r, promoted or, of an invalid row, retired            *)
    [row |-> Rows(a :> "WAITING" @@ r :> "REPAIR_REQUIRED"), rec |-> Binding("A" :> a),
     loaded |-> {"A", "C"}, asks |-> 0, crashes |-> 1, faults |-> 1],
    [row |-> Rows(a :> "WAITING" @@ r :> "INVALID_EVIDENCE"), rec |-> Binding("A" :> a),
     loaded |-> {"A", "C"}, asks |-> 0, crashes |-> 0, faults |-> 0],
    (* a row that is repaired                                              *)
    [row |-> Rows(u :> "REPAIR_REQUIRED"), rec |-> Binding(<<>>),
     loaded |-> {}, asks |-> 0, crashes |-> 0, faults |-> 0] }

StartIn(s) ==
  /\ row = s.row /\ rec = s.rec /\ loaded = s.loaded /\ gate = FALSE /\ deps = [w \in Task |-> {}]
  /\ bound = [p \in Packet |-> None]
  /\ ledger = <<>> /\ marker = [p \in Packet |-> FALSE]
  /\ tried = {} /\ pc = "idle" /\ k = 1 /\ snap = Forgotten.row /\ sdeps = Forgotten.deps
  /\ aim = [w \in {"loop", "thread"} |-> NoAim] /\ thread = NoThread
  /\ uses = [p \in Packet |-> {}]
  /\ asks = MaxAsks - s.asks /\ crashes = MaxCrashes - s.crashes /\ faults = MaxFaults - s.faults

Spec_Starts == (\E s \in Starts : StartIn(s)) /\ [][Next]_vars /\ Fairness
=============================================================================
