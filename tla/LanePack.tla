----------------------------- MODULE LanePack ------------------------------
(***************************************************************************)
(* The packets of the v13 lane driver (vp/lanedriver.py, _pack_step;       *)
(* vp/vppack.py).  A packet is bound to a row of the scheduler: to the     *)
(* catalog row it names while that one is unfinished, else to a dynamic    *)
(* row the driver instantiates, to <id>-R<n> when an operator asked for a  *)
(* retry.  A hosted twin is instantiated once its parent's row is accepted *)
(* and the final review waits for every twin.  An accepted row retires     *)
(* what it supersedes and what its packet closes, and rows that waited for *)
(* a retired one are rewired.  The loop does all of it from a state it     *)
(* read at the start of a pass; a thread does it for the row it completed; *)
(* each call to the scheduler is checked there, against the rows as they   *)
(* are by then.  The driver may die between two steps, and keeps only what *)
(* it wrote under the run root.                                            *)
(*                                                                         *)
(* A row is <<root, n>>: <<"a", 0>> is a, <<"a", 2>> is a-R2, Fix stands   *)
(* for a-FIX-1.  WAITING is PLANNED, WAITING_DEPENDENCY or READY; RUNNING  *)
(* also stands for CLAIMED and DISPATCHED, INVALID_EVIDENCE for BLOCKED.   *)
(***************************************************************************)
EXTENDS Naturals, FiniteSets, FiniteSetsExt, Sequences, SequencesExt

CONSTANTS
  Pack,        \* packet -> [own, dyn, deps, closes, twin, numbered], see PackAssumption
  Order,       \* the packets, each after those it depends on (topo_order)
  Finals,      \* packets of packet.rewire and packet.twin_dependents (L42)
  Unowned,     \* catalog rows no packet names
  None,
  RepairCap,   \* concurrency.repair_generations
  MaxIndex, MaxAsks, MaxCrashes, MaxFaults   \* bounds: -R rows, retries asked, crashes, lost answers

Packet == DOMAIN Pack
Closeable == UNION {Pack[p].closes : p \in Packet}
Root   == {Pack[p].dyn[1] : p \in Packet} \cup {Pack[p].own : p \in Packet} \cup {c[1] : c \in Closeable} \cup Unowned
Fix    == MaxIndex + 1
Task   == (Root \ {None}) \X (0 .. Fix)

ASSUME PackAssumption ==
  /\ \A p \in Packet :
       /\ Pack[p].dyn[2] \in {0, Fix} /\ Pack[p].deps \subseteq Packet
       /\ Pack[p].closes \subseteq Task /\ Pack[p].twin \in Packet \cup {None}
  /\ Range(Order) = Packet /\ Finals \subseteq Packet
  /\ {RepairCap, MaxIndex, MaxAsks, MaxCrashes, MaxFaults} \subseteq Nat /\ RepairCap <= MaxIndex

VARIABLES
  row, deps, ledger,          \* the scheduler: states, depends_on, migration numbers in order
  loaded,                     \* the pack directory
  gate,                       \* the roster: the owner gate of the twins is open or skipped
  rec, marker,                \* packets/<id>.json, packets/<id>.retry.json
  bound, tried,               \* memory: pack_by_task, the refused closures of _pack_logged
  pc, k, snap, sdeps,         \* the loop: step, packet, the state it read
  aim,                        \* what the loop and a thread are about to call
  thread,                     \* the thread past its completion: [at, task]
  uses,                       \* numbers the attempts of a packet were given
  asks, crashes, faults

sched  == <<row, deps, ledger>>
roster == <<loaded, gate>>
disk   == <<rec, marker>>
memory == <<bound, tried>>
loop   == <<pc, k, snap, sdeps>>
count  == <<asks, crashes, faults>>
vars   == <<sched, roster, disk, memory, loop, aim, thread, uses, count>>

Unfinished == {"WAITING", "RUNNING"}
Accepted   == {"VERIFIED", "INTEGRATED"}
Retirable  == {"WAITING", "REPAIR_REQUIRED", "INVALID_EVIDENCE"}
Red        == {"REPAIR_REQUIRED", "INVALID_EVIDENCE"}
Finished   == Accepted \cup Red \cup {"CANCELLED"}
States     == Unfinished \cup Finished \cup {"absent"}
NoAim      == [close |-> {}, promote |-> {}, retire |-> {}, wires |-> {}]
Forgotten  == [row |-> [t \in Task |-> "absent"], deps |-> [t \in Task |-> {}]]
NoThread   == [at |-> "none", task |-> None]

TypeOK ==
  /\ row \in [Task -> States] /\ deps \in [Task -> SUBSET Task]
  /\ \A t \in Task : \A d \in deps[t] : row[d] # "absent"
  /\ \A n \in DOMAIN ledger : row[ledger[n]] # "absent"
  /\ rec \in [Packet -> Task \cup {None}] /\ marker \in [Packet -> BOOLEAN]
  /\ loaded \subseteq Packet /\ bound \in [Packet -> Task \cup {None}] /\ gate \in BOOLEAN
  /\ \A p, q \in Packet : bound[p] = bound[q] /\ bound[p] # None => p = q

(* the packets of the directory, in dependency order                       *)
Queue       == SelectSeq(Order, LAMBDA p : p \in loaded)
IsTwin(p)   == Pack[p].twin # None
GateOpen(p) == ~IsTwin(p) \/ gate
OwnRow(p)   == <<Pack[p].own, 0>>
BoundTo(t)  == {p \in Packet : bound[p] = t}

(* The row a packet drives: the one it is bound to; else its catalog row   *)
(* while that is unfinished, else its dynamic row.                         *)
Bind(p, s)    == IF Pack[p].own # None /\ s[OwnRow(p)] \in Unfinished THEN OwnRow(p) ELSE Pack[p].dyn
BoundTask(p, s) == IF bound[p] # None THEN bound[p] ELSE Bind(p, s)

DependencyTasks(p, s) == {BoundTask(q, s) : q \in Pack[p].deps}
DepsBound(p, s) == \A t \in DependencyTasks(p, s) : s[t] # "absent"

ParentReady(p, s) ==
  IsTwin(p) => /\ bound[Pack[p].twin] # None
               /\ s[bound[Pack[p].twin]] \in Accepted

----------------------------------------------------------------------------
(* One pass over the packets.                                              *)
Restored ==
  [p \in Packet |-> IF /\ bound[p] = None /\ rec[p] # None /\ row[rec[p]] # "absent"
                       /\ BoundTo(rec[p]) = {}
                    THEN rec[p] ELSE bound[p]]

PackBegins ==
  /\ pc = "idle"
  /\ snap' = row /\ sdeps' = deps /\ bound' = Restored
  /\ pc' = (IF loaded = {} THEN "rewire" ELSE "visit") /\ k' = 1
  /\ UNCHANGED <<sched, roster, disk, tried, aim, thread, uses, count>>

Advance == IF k >= Len(Queue) THEN pc' = "rewire" /\ k' = 1 ELSE pc' = "visit" /\ k' = k + 1

(* control.instantiate of the row t for p: refused when t exists.  As any  *)
(* verb it may have no answer, having been applied or not.                 *)
Creatable(p, s) == GateOpen(p) /\ DepsBound(p, s) /\ ParentReady(p, s)
NewRow(p, t) == row' = [row EXCEPT ![t] = "WAITING"] /\ deps' = [deps EXCEPT ![t] = DependencyTasks(p, snap)]
SeesNew(p, t) == snap' = [snap EXCEPT ![t] = "WAITING"] /\ sdeps' = [sdeps EXCEPT ![t] = DependencyTasks(p, snap)]

Instantiated(p, t) ==
  /\ row[t] = "absent" /\ NewRow(p, t) /\ SeesNew(p, t)
  /\ bound' = [bound EXCEPT ![p] = t] /\ pc' = "record" /\ k' = k
  /\ UNCHANGED <<marker, faults>>

InstantiateFails(p, t) ==
  /\ \/ row[t] # "absent" /\ UNCHANGED <<row, deps, faults>>
     \/ faults < MaxFaults /\ faults' = faults + 1
        /\ (UNCHANGED <<row, deps>> \/ (row[t] = "absent" /\ NewRow(p, t)))
  /\ marker' = [marker EXCEPT ![p] = FALSE]
  /\ Advance /\ UNCHANGED <<snap, sdeps, bound>>

(* <id>-R<n>, n the first no row has                                       *)
RetryRow(p, s) == LET free == {i \in 1 .. MaxIndex : s[<<Pack[p].dyn[1], i>>] = "absent"}
                  IN  <<Pack[p].dyn[1], IF free = {} THEN MaxIndex ELSE Min(free)>>

PackRetry(p) ==
  /\ pc = "visit" /\ p = Queue[k] /\ marker[p]
  /\ CASE snap[bound[p]] \in Unfinished \cup Accepted ->   \* PACKET_RETRY_REFUSED
            /\ marker' = [marker EXCEPT ![p] = FALSE] /\ Advance
            /\ UNCHANGED <<row, deps, snap, sdeps, bound, faults>>
       [] OTHER ->
            IF Creatable(p, snap) THEN Instantiated(p, RetryRow(p, snap)) \/ InstantiateFails(p, RetryRow(p, snap))
            ELSE Advance /\ UNCHANGED <<row, deps, marker, snap, sdeps, bound, faults>>
  /\ UNCHANGED <<ledger, roster, rec, tried, aim, thread, uses, asks, crashes>>

(* A packet with no row yet: bound to one there is, or to a new one.       *)
PackBind(p) ==
  /\ pc = "visit" /\ p = Queue[k] /\ ~marker[p] /\ bound[p] = None
  /\ LET t == Bind(p, snap) IN
       \/ /\ snap[t] # "absent" /\ BoundTo(t) = {}
          /\ bound' = [bound EXCEPT ![p] = t] /\ pc' = "record" /\ k' = k
          /\ UNCHANGED <<row, deps, marker, snap, sdeps, faults>>
       \/ snap[t] = "absent" /\ Creatable(p, snap) /\ (Instantiated(p, t) \/ InstantiateFails(p, t))
       \/ /\ snap[t] = "absent" /\ ~Creatable(p, snap)
          /\ Advance /\ UNCHANGED <<row, deps, marker, snap, sdeps, bound, faults>>
  /\ UNCHANGED <<ledger, roster, rec, tried, aim, thread, uses, asks, crashes>>

PackKeeps(p) ==
  /\ pc = "visit" /\ p = Queue[k] /\ ~marker[p] /\ bound[p] # None
  /\ Advance /\ UNCHANGED <<sched, roster, disk, memory, snap, sdeps, aim, thread, uses, count>>

(* packets/<id>.json, then: the marker is removed, or the final review is  *)
(* made to wait for the new twin.                                          *)
PackRecord(p) ==
  /\ pc = "record" /\ p = Queue[k]
  /\ rec' = [rec EXCEPT ![p] = bound[p]]
  /\ IF marker[p] THEN pc' = "unmark" /\ k' = k
     ELSE IF IsTwin(p) THEN pc' = "expand" /\ k' = k ELSE Advance
  /\ UNCHANGED <<sched, roster, marker, memory, snap, sdeps, aim, thread, uses, count>>

PackUnmark(p) ==
  /\ pc = "unmark" /\ p = Queue[k]
  /\ marker' = [marker EXCEPT ![p] = FALSE] /\ Advance
  /\ UNCHANGED <<sched, roster, rec, memory, snap, sdeps, aim, thread, uses, count>>

(* control.rewire of d to what the caller made of the depends_on it read   *)
Rewired(calls) ==
  deps' = [d \in Task |-> LET new == {c \in calls : c[1] = d} IN
             IF new # {} /\ row[d] = "WAITING" THEN (CHOOSE c \in new : TRUE)[2] ELSE deps[d]]

TwinDependentsExpand(p) ==
  /\ pc = "expand" /\ p = Queue[k]
  /\ LET calls == {<<OwnRow(f), sdeps[OwnRow(f)] \cup {bound[p]}>> : f \in {g \in Finals \cap loaded : snap[OwnRow(g)] = "WAITING"}}
     IN  Rewired(calls) /\ sdeps' = [d \in Task |-> IF \E c \in calls : c[1] = d THEN deps'[d] ELSE sdeps[d]]
  /\ Advance
  /\ UNCHANGED <<row, ledger, roster, disk, memory, snap, aim, thread, uses, count>>

(* The final review follows the rows its packet depends on; of the others  *)
(* it keeps those a twin is bound to.                                      *)
FinalDeps(f) == DependencyTasks(f, snap) \cup {t \in sdeps[OwnRow(f)] : \E p \in BoundTo(t) : IsTwin(p)}

PackRewire ==
  /\ pc = "rewire"
  /\ Rewired({<<OwnRow(f), FinalDeps(f)>> : f \in {g \in Finals \cap loaded : snap[OwnRow(g)] = "WAITING" /\ DepsBound(g, snap)}})
  /\ pc' = "look" /\ snap' = Forgotten.row /\ sdeps' = Forgotten.deps
  /\ UNCHANGED <<row, ledger, roster, disk, memory, k, aim, thread, uses, count>>

----------------------------------------------------------------------------
(* Superseding: the accepted <root>-R<n> retires <root> and the other -R   *)
(* rows, <root>-FIX-1 those too.                                           *)
Faulty_SupersededBy(t, states) ==
  IF t[2] = 0 THEN {} ELSE {<<t[1], n>> : n \in {m \in 0 .. MaxIndex : m < t[2] /\ row[<<t[1], m>>] \in states}}

SupersededBy(t, states) ==
  IF t[2] = 0 \/ t[1] \in Unowned THEN {}
  ELSE {<<t[1], n>> : n \in {m \in 0 .. MaxIndex : m # t[2] /\ row[<<t[1], m>>] \in states}}

(* the rows that waited for what a row in ts superseded, and what for now: *)
(* -FIX rows come before -R ones                                           *)
Heir(d, ts) == LET hs == {t \in ts : d \in SupersededBy(t, Retirable \cup {"CANCELLED"})}
               IN  IF hs = {} THEN d ELSE IF <<d[1], Fix>> \in hs THEN <<d[1], Fix>>
                   ELSE CHOOSE h \in hs : \A g \in hs : h[2] <= g[2]

Wires(ts) == {<<d, {Heir(x, ts) : x \in deps[d]}>> :
                d \in {e \in Task : row[e] = "WAITING" /\ \E x \in deps[e] : Heir(x, ts) # x}}
Supersedes(ts) == [NoAim EXCEPT !.retire = UNION {SupersededBy(t, Retirable) : t \in ts}, !.wires = Wires(ts)]

SupersedeSweep ==
  /\ pc = "look"
  /\ aim' = [aim EXCEPT !["loop"] = Supersedes({t \in Task : row[t] \in Accepted})]
  /\ pc' = "retire"
  /\ UNCHANGED <<sched, roster, disk, memory, k, snap, sdeps, thread, uses, count>>

Retire(ts)  == row' = [t \in Task |-> IF t \in ts /\ row[t] \in Retirable THEN "CANCELLED" ELSE row[t]]

SweepRetires ==
  /\ pc = "retire" /\ Retire(aim["loop"].retire) /\ pc' = "wire"
  /\ UNCHANGED <<deps, ledger, roster, disk, memory, k, snap, sdeps, aim, thread, uses, count>>
SweepRewires ==
  /\ pc = "wire" /\ Rewired(aim["loop"].wires) /\ pc' = "close"
  /\ UNCHANGED <<row, ledger, roster, disk, memory, k, snap, sdeps, aim, thread, uses, count>>

----------------------------------------------------------------------------
(* Closing: a row in the packet's closes is retired, its own catalog row   *)
(* promoted, once every other packet that closes it is accepted.           *)
Faulty_Owed(p, c) == {}

Owed(p, c) == {q \in loaded \ {p} : c \in Pack[q].closes /\ row[BoundTask(q, row)] \notin Accepted}

Closable(p) == {c \in Pack[p].closes : row[c] # "absent" /\ Owed(p, c) = {}}
Promotable(p) == {c \in Closable(p) : c = OwnRow(p) /\ row[c] \in {"REPAIR_REQUIRED", "VERIFIED"}}
Closures(ps) == [NoAim EXCEPT !.close   = {<<p, c>> \in ps \X Task : c \in Closable(p) \ Promotable(p)},
                              !.promote = {<<p, c>> \in ps \X Task : c \in Promotable(p)}]

(* what the sweep still has to try                                         *)
Untried(a) == [a EXCEPT !.close   = {x \in a.close : row[x[2]] \in Retirable /\ x \notin tried},
                        !.promote = {x \in a.promote : x \notin tried}]

ClosureSweep ==
  /\ pc = "close"
  /\ aim' = [aim EXCEPT !["loop"] = Untried(Closures({p \in loaded : bound[p] # None /\ row[bound[p]] \in Accepted}))]
  /\ pc' = "closing"
  /\ UNCHANGED <<sched, roster, disk, memory, k, snap, sdeps, thread, uses, count>>

Closed(a) ==
  row' = [t \in Task |-> CASE t \in {x[2] : x \in a.close} /\ row[t] \in Retirable -> "CANCELLED"
                           [] t \in {x[2] : x \in a.promote} /\ row[t] \in {"VERIFIED", "REPAIR_REQUIRED"} -> "INTEGRATED"
                           [] OTHER -> row[t]]
Refused(a) == {x \in a.close : row[x[2]] \notin Retirable}
              \cup {x \in a.promote : row[x[2]] \notin {"VERIFIED", "REPAIR_REQUIRED"}}

SweepCloses ==
  /\ pc = "closing" /\ Closed(aim["loop"])
  /\ tried' = tried \cup Refused(aim["loop"])
  /\ aim' = [aim EXCEPT !["loop"] = NoAim] /\ pc' = "idle"
  /\ UNCHANGED <<deps, ledger, roster, disk, bound, k, snap, sdeps, thread, uses, count>>

----------------------------------------------------------------------------
(* Rows no packet owns: a red one gets repairs <<u, 1>>, <<u, 2>>, ... one *)
(* after the other, and is promoted with the one that is accepted.  The    *)
(* driver does this when no thread of it lives.                            *)
RepairsOf(u)  == {<<u, n>> : n \in {m \in 1 .. MaxIndex : row[<<u, m>>] # "absent"}}

RepairDue(u) == /\ row[<<u, 0>>] = "REPAIR_REQUIRED"
                 /\ \A t \in RepairsOf(u) : row[t] \in Finished \ {"VERIFIED"}
                 /\ Cardinality(RepairsOf(u)) < RepairCap
PromoteDue(u) == row[<<u, 0>>] = "REPAIR_REQUIRED" /\ \E t \in RepairsOf(u) : row[t] = "VERIFIED"

FrontierActions ==
  /\ pc = "idle" /\ thread = NoThread /\ \A t \in Task : row[t] # "RUNNING"
  /\ \E u \in Unowned : RepairDue(u) \/ PromoteDue(u)
  /\ row' = [t \in Task |->
       CASE t[1] \in Unowned /\ t[2] = 0 /\ PromoteDue(t[1]) -> "INTEGRATED"
         [] t[1] \in Unowned /\ t[2] > 0 /\ RepairDue(t[1]) /\ t[2] = Cardinality(RepairsOf(t[1])) + 1 -> "WAITING"
         [] OTHER -> row[t]]
  /\ UNCHANGED <<deps, ledger, roster, disk, memory, loop, aim, thread, uses, count>>

----------------------------------------------------------------------------
(* Attempts.  A claim needs the dependencies accepted and the twin's gate; *)
(* the attempt of a packet with a migration gets the lowest number of its  *)
(* lineage, the row itself and its root, or a new one.                     *)
PackRoot(t) == IF \E p \in Packet : Pack[p].dyn = <<t[1], 0>> /\ Pack[p].own # None
               THEN <<(CHOOSE r \in {Pack[p].own : p \in {q \in Packet : Pack[q].dyn = <<t[1], 0>>}} : TRUE), 0>>
               ELSE <<t[1], 0>>

Numbers(t) == {n \in DOMAIN ledger : ledger[n] \in {t, PackRoot(t)}}

Allocate(t) ==
  LET ps == {p \in BoundTo(t) : Pack[p].numbered} IN
    IF ps = {} THEN UNCHANGED <<ledger, uses>>
    ELSE LET n == IF Numbers(t) # {} THEN Min(Numbers(t)) ELSE Len(ledger) + 1 IN
           /\ ledger' = IF Numbers(t) # {} THEN ledger ELSE Append(ledger, t)
           /\ uses' = [p \in Packet |-> IF p \in ps THEN uses[p] \cup {n} ELSE uses[p]]

Start(t) ==
  /\ pc = "idle" /\ row[t] = "WAITING" /\ \A d \in deps[t] : row[d] \in Accepted
  /\ \A p \in BoundTo(t) : GateOpen(p)
  /\ row' = [row EXCEPT ![t] = "RUNNING"] /\ Allocate(t)
  /\ UNCHANGED <<deps, roster, disk, memory, loop, aim, thread, count>>

(* complete: a thread that VERIFIED its row goes on to close and supersede *)
(* (REPAIR_REQUIRED also stands for the INVALID_EVIDENCE of an attempt)    *)
Finish(t) ==
  /\ row[t] = "RUNNING"
  /\ \/ row' = [row EXCEPT ![t] = "REPAIR_REQUIRED"] /\ UNCHANGED thread
     \/ /\ thread = NoThread /\ row' = [row EXCEPT ![t] = "VERIFIED"]
        /\ thread' = [at |-> IF BoundTo(t) = {} THEN "look" ELSE "plan", task |-> t]
  /\ UNCHANGED <<deps, ledger, roster, disk, memory, loop, aim, uses, count>>

ThreadStep ==
  /\ CASE thread.at = "plan"   -> /\ aim' = [aim EXCEPT !["thread"] = Closures(BoundTo(thread.task))]
                                  /\ thread' = [thread EXCEPT !.at = "close"] /\ UNCHANGED <<row, deps>>
       [] thread.at = "close"  -> /\ Closed(aim["thread"]) /\ aim' = [aim EXCEPT !["thread"] = NoAim]
                                  /\ thread' = [thread EXCEPT !.at = "look"] /\ UNCHANGED deps
       [] thread.at = "look"   -> /\ aim' = [aim EXCEPT !["thread"] = Supersedes({thread.task})]
                                  /\ thread' = [thread EXCEPT !.at = "retire"] /\ UNCHANGED <<row, deps>>
       [] thread.at = "retire" -> /\ Retire(aim["thread"].retire)
                                  /\ thread' = [thread EXCEPT !.at = "wire"] /\ UNCHANGED <<aim, deps>>
       [] thread.at = "wire"   -> /\ Rewired(aim["thread"].wires) /\ aim' = [aim EXCEPT !["thread"] = NoAim]
                                  /\ thread' = NoThread /\ UNCHANGED row
       [] OTHER -> FALSE
  /\ UNCHANGED <<ledger, roster, disk, memory, loop, uses, count>>

----------------------------------------------------------------------------
(* The operator and the owner, in processes of their own; crashes.         *)
RequestPacketRetry(p) ==
  /\ asks < MaxAsks /\ asks' = asks + 1
  /\ rec[p] # None /\ row[rec[p]] \in Finished \ Accepted
  /\ marker' = [marker EXCEPT ![p] = TRUE]
  /\ UNCHANGED <<sched, roster, rec, memory, loop, aim, thread, uses, crashes, faults>>

OwnerOpens == ~gate /\ gate' = TRUE /\ UNCHANGED <<sched, loaded, disk, memory, loop, aim, thread, uses, count>>

Crash ==
  /\ crashes < MaxCrashes /\ crashes' = crashes + 1
  /\ bound' = [p \in Packet |-> None] /\ tried' = {} /\ pc' = "idle" /\ k' = 1
  /\ aim' = [w \in {"loop", "thread"} |-> NoAim] /\ thread' = NoThread
  /\ snap' = Forgotten.row /\ sdeps' = Forgotten.deps
  /\ UNCHANGED <<sched, roster, disk, uses, asks, faults>>

LoopStep ==
  \/ PackBegins \/ PackRewire \/ SupersedeSweep \/ SweepRetires \/ SweepRewires \/ ClosureSweep \/ SweepCloses
  \/ \E p \in Packet : \/ PackRetry(p) \/ PackBind(p) \/ PackKeeps(p) \/ PackRecord(p)
                       \/ PackUnmark(p) \/ TwinDependentsExpand(p)

InitRest ==
  /\ ledger = <<>> /\ marker = [p \in Packet |-> FALSE]
  /\ tried = {} /\ pc = "idle" /\ k = 1 /\ snap = Forgotten.row /\ sdeps = Forgotten.deps
  /\ aim = [w \in {"loop", "thread"} |-> NoAim] /\ thread = NoThread
  /\ uses = [p \in Packet |-> {}] /\ asks = 0 /\ crashes = 0 /\ faults = 0

(* any states of the catalog rows, nothing bound yet                       *)
Init ==
  /\ \E catalog \in [{OwnRow(p) : p \in {q \in Packet : Pack[q].own # None}} \cup {<<u, 0>> : u \in Unowned} \cup Closeable
                     -> States \ {"absent", "RUNNING"}] :
       row = [t \in Task |-> IF t \in DOMAIN catalog THEN catalog[t] ELSE "absent"]
  /\ deps = [t \in Task |-> {}] /\ gate \in BOOLEAN /\ loaded \in SUBSET Packet
  /\ rec = [p \in Packet |-> None] /\ bound = [p \in Packet |-> None]
  /\ InitRest

Next ==
  \/ LoopStep \/ ThreadStep \/ FrontierActions \/ OwnerOpens \/ Crash
  \/ \E t \in Task : Start(t) \/ Finish(t)
  \/ \E p \in Packet : RequestPacketRetry(p)

(* the loop goes on ticking, a thread goes on to its end                   *)
Fairness == WF_vars(LoopStep) /\ WF_vars(ThreadStep)

Spec == Init /\ [][Next]_vars /\ Fairness

----------------------------------------------------------------------------
(* A row is retired, outside of a retry's succession, only when every      *)
(* packet that closes it is accepted: two closers, two threads and the     *)
(* sweep never retire it early.                                            *)
ClosedByAllClosers ==
  [][\A t \in Task :
       row'[t] = "CANCELLED" /\ row[t] # "CANCELLED" =>
         \/ \E n \in 1 .. Fix : row[<<t[1], n>>] \in Accepted
         \/ \A q \in loaded : t \in Pack[q].closes => row[BoundTask(q, row)] \in Accepted]_vars

(* Whatever was lost on the way, in the end: what a retry superseded is    *)
(* retired ("a verified retry/fix retires the rows it supersedes"), the    *)
(* final review does not wait for a retired row, and a target all of whose *)
(* closers are accepted is closed ("closure is a state, not an event"),    *)
(* unless the scheduler refused that and it was raised as an alert.        *)
Superseded(p) ==
  \E n \in 1 .. Fix, m \in (0 .. MaxIndex) : n # m /\ row[<<Pack[p].dyn[1], n>>] \in Accepted /\ row[<<Pack[p].dyn[1], m>>] \in Red
WaitsForRetired(t) ==
  row[t] = "WAITING" /\ \E d \in deps[t] : row[d] = "CANCELLED" /\ \E n \in 1 .. Fix : row[<<d[1], n>>] \in Accepted
LeftOpen(p, c) == /\ row[c] \in Red /\ <<p, c>> \notin tried
                  /\ \A q \in loaded : c \in Pack[q].closes => row[BoundTask(q, row)] \in Accepted
Settled == /\ \A p \in loaded : ~Superseded(p) /\ \A c \in Pack[p].closes : ~LeftOpen(p, c)
           /\ \A f \in Finals \cap loaded : ~WaitsForRetired(OwnRow(f))
Settles == []<>Settled

(* An unowned row never has two repairs to run, nor one after it was       *)
(* promoted by another.                                                    *)
OneRepairAtATime ==
  \A u \in Unowned : Cardinality({t \in RepairsOf(u) : row[t] \in Unfinished \cup Accepted}) <= 1

(* Of the rows of one packet at most one is to be run: "only a finished,   *)
(* unaccepted task can be retried" (request_packet_retry).                 *)
RowsOf(p) == {t \in Task : row[t] \in Unfinished /\ t[1] = Pack[p].dyn[1] /\ (t[2] = Pack[p].dyn[2] \/ t[2] \in 1 .. MaxIndex)}
OneLiveRow == \A p \in Packet : Cardinality(RowsOf(p)) <= 1

(* "a retried packet keeps the number its lineage already holds"           *)
LineageKeepsNumber == \A p \in Packet : Cardinality(uses[p]) <= 1

(* "L36/L42 wait on every twin too": a twin that is bound is awaited by    *)
(* the final review that has not started, once the pass is over.           *)
TwinsAreAwaited ==
  \A p \in loaded, f \in Finals \cap loaded :
    pc = "idle" /\ IsTwin(p) /\ bound[p] # None /\ rec[p] = bound[p] /\ row[OwnRow(f)] = "WAITING"
      => \/ bound[p] \in deps[OwnRow(f)]
         \/ row[bound[p]] = "CANCELLED"
=============================================================================
