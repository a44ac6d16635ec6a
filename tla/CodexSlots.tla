----------------------------- MODULE CodexSlots -----------------------------
(***************************************************************************)
(* The Codex half of the dispatcher's tick (dispatcher.py: codex_tick,     *)
(* codex_spawn; museadapter.py: select_profile; musesession.py).  Under    *)
(* the queue's lock a tick visits the slots in turn: it collects the       *)
(* worker that ended or ran too long, books its last words on the item,    *)
(* and starts the slot's next item on an account that is not held.         *)
(* Workers run on when the daemon dies; queue and state are saved one      *)
(* after the other.                                                        *)
(*                                                                         *)
(* What a tick works on is the record w.  A worker is a log in work, which *)
(* run records name; a worker told to stop is taken to stop.               *)
(***************************************************************************)
EXTENDS Naturals, Sequences, FiniteSets

CONSTANTS
  Queue,              \* the items in the order of queue.json
  NSlots,             \* codex_slots
  Tree,               \* item -> its worktree
  Deps,               \* item -> the items it depends on
  Named,              \* item -> the profile it names, or None
  Route,              \* slot -> Legacy, Rotate or a profile (codex_routes)
  Go, Zen,            \* the accounts of the two tiers
  MaxFeed, MaxAuto,   \* max_dispatch_per_tick, max_auto_continue
  MaxTrouble          \* bound: BOSS's moves, failed launches and deaths

None == "none"  Legacy == "legacy"  Rotate == "rotate"  Wait == "WAIT"
Items    == {Queue[n] : n \in DOMAIN Queue}
Slots    == 1..NSlots
Profiles == Go \cup Zen \cup {Legacy}
Read     == [item |-> None, profile |-> None, at |-> "read"]
NoRun    == [item |-> None, log |-> 0]

SlotsAssumption ==
  /\ {NSlots, MaxFeed, MaxAuto, MaxTrouble} \subseteq Nat
  /\ {None, Legacy, Rotate, Wait} \cap (Go \cup Zen) = {}
  /\ Queue \in Seq(Items) /\ Tree \in [Items -> Items] /\ Deps \in [Items -> SUBSET Items]
  /\ Named \in [Items -> Profiles \cup {None}] /\ Route \in [Slots -> Profiles \cup {Rotate}]

VARIABLES
  w,        \* the queue and the state as the daemon has them; slot 0 is none
  disk,     \* queue.json and state.json
  conv,     \* item -> the account of its persisted conversation (muse-conversations/)
  work,     \* the workers in the order they were started
  proc,     \* [up, at, fed]: the slot the tick is at, 0 between ticks
  hold,     \* the slots whose feed is held
  spent     \* [trouble, deaths]

vars == <<w, disk, conv, work, proc, hold, spent>>

Trouble == spent.trouble < MaxTrouble
Troubled == spent' = [spent EXCEPT !.trouble = @ + 1]

State(v) == [runs |-> v.runs, held |-> v.held, aff |-> v.aff, gap |-> v.gap]
-----------------------------------------------------------------------------
(* The end of a worker.  A refusal holds the account it ran on.            *)
Refusals == {"AUTH", "QUOTA", "WEEKLY"}
Lasts    == {"REPORT_READY", "QUESTION", "ERROR", "TURN_ENDED"} \cup Refusals   \* ERROR: or on another route

Continued(r) == r.cont < MaxAuto
Booked(r, s, kind) ==
  CASE kind = "TURN_ENDED" /\ Continued(r)  -> [r EXCEPT !.st = "queued", !.only = s, !.cont = @ + 1, !.to = 0]
    [] kind = "TURN_ENDED" /\ ~Continued(r) -> [r EXCEPT !.st = "parked"]
    [] kind = "REPORT_READY" -> [r EXCEPT !.st = "reported"]
    [] kind = "QUESTION"     -> [r EXCEPT !.st = "parked"]
    [] OTHER                 -> [r EXCEPT !.st = "broken"]

(* Every row dispatched to the slot is booked.                             *)
OnSlot(v, s) == {i \in Items : v.row[i].st = "dispatched" /\ v.row[i].to = s}

Collected(v, s, end) ==
  LET p == work[v.runs[s].log].profile IN
  [v EXCEPT
     !.row = [i \in Items |-> IF i \in OnSlot(v, s) THEN Booked(@[i], s, end) ELSE @[i]],
     !.held[p] = IF end \in Refusals THEN end ELSE @,
     !.runs[s] = NoRun]
-----------------------------------------------------------------------------
(* The account of a spawn.                                                 *)
Held(v, p)    == v.held[p] # None
MayMove(v, p) == v.held[p] \in {"AUTH", "WEEKLY"}

(* The persisted conversation, written before the launch, outlives queue   *)
(* and state (musesession).                                                *)
Existing(i)    == conv[i]
Prepared(i, p) == IF p = Legacy THEN conv ELSE [conv EXCEPT ![i] = p]
Faulty_Known(v, i) == v.row[i].muse
Known(v, i) == IF Existing(i) # None /\ Named[i] = None THEN Existing(i) ELSE v.row[i].muse

(* account_load: the queue file, and the state's index for the others.     *)
Load(v, p) ==
  Cardinality({i \in Items : IF disk.queue[i].muse # None THEN disk.queue[i].muse = p ELSE v.aff[i] = p})

Placed(v) ==
  LET pool == {p \in Go : ~Held(v, p)} IN
  {p \in pool : \A q \in pool : Load(v, p) <= Load(v, q)}

Selected(v, s, i) ==
  LET stuck == Known(v, i) IN
  IF Named[i] # None THEN {Named[i]}
  ELSE IF stuck # None /\ ~Held(v, stuck) THEN {stuck}
  ELSE IF stuck # None /\ ~MayMove(v, stuck) THEN {Wait}
  ELSE IF Route[s] = Legacy THEN {Legacy}
  ELSE IF Route[s] # Rotate /\ ~Held(v, Route[s]) THEN {Route[s]}
  ELSE IF Placed(v) # {} THEN Placed(v)
  ELSE IF \E p \in Zen : ~Held(v, p) THEN {p \in Zen : ~Held(v, p)}
  ELSE {None}
-----------------------------------------------------------------------------
(* The item a slot is fed with.                                            *)
Busy(v) ==
  {Tree[i] : i \in {j \in Items : v.row[j].st = "dispatched"} \cup {v.runs[s].item : s \in {t \in Slots : v.runs[t] # NoRun}}}

Ready(v, s) ==
  {n \in DOMAIN Queue : LET i == Queue[n] IN
     /\ v.row[i].st = "queued" /\ v.row[i].only \in {0, s}
     /\ \A d \in Deps[i] : v.row[d].st = "merged"
     /\ Tree[i] \notin Busy(v)}
FirstOf(S) == Queue[CHOOSE n \in S : \A m \in S : n <= m]

Feeds(v, s) == v.runs[s] = NoRun /\ proc.fed < MaxFeed /\ s \notin hold /\ Ready(v, s) # {}

Breaks(v, i) == [v EXCEPT !.row[i].st = "broken"]

(* The record of a worker that was started.                                *)
Started(v, s, i, p) ==
  LET own == p # Legacy /\ Named[i] = None IN
  [v EXCEPT !.row[i].st = "dispatched", !.row[i].to = s, !.row[i].muse = IF own THEN p ELSE @,
            !.aff[i] = IF own THEN p ELSE @,
            !.gap = TRUE, !.runs[s] = [item |-> i, log |-> Len(work) + 1]]

(* codex_spawn: waits, breaks the item, or starts its worker.              *)
Spawns(v, s) ==
  LET i == FirstOf(Ready(v, s))
      u == [v EXCEPT !.row[i].muse = Known(v, i)] IN
  \/ v.gap /\ w' = v /\ UNCHANGED <<conv, work, spent>> /\ proc' = [proc EXCEPT !.at = s + 1]
  \/ ~v.gap /\ Trouble /\ Troubled /\ w' = Breaks(v, i)                     \* worktree, environment, prompt
     /\ UNCHANGED <<conv, work>> /\ proc' = [proc EXCEPT !.at = s + 1]
  \/ ~v.gap /\ \E p \in Selected(v, s, i) :
       \/ /\ p \in {Wait, None} /\ w' = IF p = Wait THEN u ELSE Breaks(u, i)
          /\ proc' = [proc EXCEPT !.at = s + 1] /\ UNCHANGED <<conv, work, spent>>
       \/ /\ p \in Profiles /\ Trouble /\ Troubled                          \* no spec or no key
          /\ w' = Breaks(IF p = Legacy THEN u ELSE [u EXCEPT !.held[p] = "AUTH"], i)
          /\ proc' = [proc EXCEPT !.at = s + 1] /\ UNCHANGED <<conv, work>>
       \/ /\ p \in Profiles
          /\ conv' = Prepared(i, p)
          /\ \/ /\ w' = Started(u, s, i, p)
                /\ work' = Append(work, [item |-> i, profile |-> p, at |-> "runs"])
                /\ proc' = [proc EXCEPT !.at = s + 1, !.fed = @ + 1] /\ UNCHANGED spent
             \/ /\ Trouble /\ Troubled /\ w' = Breaks(u, i)                 \* Popen
                /\ proc' = [proc EXCEPT !.at = s + 1] /\ UNCHANGED work

Fed(v, s) ==
  \/ Feeds(v, s) /\ Spawns(v, s)
  \/ ~Feeds(v, s) /\ w' = v /\ proc' = [proc EXCEPT !.at = s + 1] /\ UNCHANGED <<conv, work, spent>>
-----------------------------------------------------------------------------
At(s)  == proc.up /\ proc.at = s
Log(s) == w.runs[s].log
Alive(s) == w.runs[s] # NoRun /\ work[Log(s)].at = "runs"

TickBegins ==
  /\ At(0) /\ proc' = [proc EXCEPT !.at = 1, !.fed = 0]
  /\ UNCHANGED <<w, disk, conv, work, hold, spent>>

Builds(s) ==
  /\ At(s) /\ Alive(s) /\ proc' = [proc EXCEPT !.at = s + 1]
  /\ UNCHANGED <<w, disk, conv, work, hold, spent>>

(* Longer than codex_max_minutes: the group is killed, and the slot feeds. *)
TimesOut(s) ==
  /\ At(s) /\ Alive(s) /\ Trouble
  /\ LET v == Collected(w, s, "STUCK") IN
     /\ w' = v /\ work' = [work EXCEPT ![Log(s)].at = "STUCK"]
     /\ proc' = [proc EXCEPT !.at = IF Feeds(v, s) THEN s ELSE s + 1]
  /\ Troubled /\ UNCHANGED <<disk, conv, hold>>

Visits(s) ==
  /\ At(s) /\ ~Alive(s)
  /\ \E v \in {IF w.runs[s] = NoRun THEN w ELSE Collected(w, s, work[Log(s)].at)} : Fed(v, s)
  /\ UNCHANGED <<disk, hold>>

SavesQueue ==
  /\ At(NSlots + 1) /\ disk' = [disk EXCEPT !.queue = w.row] /\ proc' = [proc EXCEPT !.at = @ + 1]
  /\ UNCHANGED <<w, conv, work, hold, spent>>

(* A log that no record names any more is not read again.                  *)
SavesState ==
  /\ At(NSlots + 2) /\ disk' = [disk EXCEPT !.state = State(w)] /\ proc' = [proc EXCEPT !.at = 0]
  /\ work' = [n \in DOMAIN work |-> IF work[n].at = "runs" \/ (\E s \in Slots : Log(s) = n) THEN work[n] ELSE Read]
  /\ UNCHANGED <<w, conv, hold, spent>>

(* The daemon dies and starts again on what was saved.                     *)
Dies ==
  /\ proc.up /\ Trouble /\ spent' = [spent EXCEPT !.trouble = @ + 1, !.deaths = @ + 1]
  /\ proc' = [up |-> FALSE, at |-> 0, fed |-> 0]
  /\ w' = [row |-> disk.queue, runs |-> disk.state.runs, held |-> disk.state.held, aff |-> disk.state.aff, gap |-> disk.state.gap]
  /\ UNCHANGED <<disk, conv, work, hold>>
Restarts ==
  /\ ~proc.up /\ proc' = [proc EXCEPT !.up = TRUE] /\ UNCHANGED <<w, disk, conv, work, hold, spent>>
-----------------------------------------------------------------------------
(* Workers end, holds and the stagger run out, BOSS edits the queue,       *)
(* clears an account, holds a slot's feed.                                 *)
WorkerEnds(n) ==
  /\ work[n].at = "runs" /\ \E end \in Lasts : work' = [work EXCEPT ![n].at = end]
  /\ UNCHANGED <<w, disk, conv, proc, hold, spent>>

Over(v, d) == w' = v /\ disk' = d /\ UNCHANGED <<conv, work, proc, hold, spent>>
GapOver == w.gap /\ Over([w EXCEPT !.gap = FALSE], [disk EXCEPT !.state.gap = FALSE])
HoldOver(p) == w.held[p] = "QUOTA" /\ Over([w EXCEPT !.held[p] = None], [disk EXCEPT !.state.held[p] = IF @ = "QUOTA" THEN None ELSE @])
HoldCleared(p) ==
  /\ At(0) /\ w.held[p] \in {"AUTH", "WEEKLY"} /\ Trouble /\ Troubled /\ w' = [w EXCEPT !.held[p] = None]
  /\ UNCHANGED <<disk, conv, work, proc, hold>>

Unlocked == proc.at \in {0, NSlots + 2}
Requeues(i) ==
  /\ Unlocked /\ w.row[i].st # "queued" /\ Trouble /\ Troubled
  /\ LET r == [w.row[i] EXCEPT !.st = "queued", !.to = 0] IN
     w' = [w EXCEPT !.row[i] = r] /\ disk' = [disk EXCEPT !.queue[i] = r]
  /\ UNCHANGED <<conv, work, proc, hold>>
HoldsFeed(s) ==
  /\ \/ s \notin hold /\ Trouble /\ Troubled /\ hold' = hold \cup {s}
     \/ s \in hold /\ hold' = hold \ {s} /\ UNCHANGED spent
  /\ UNCHANGED <<w, disk, conv, work, proc>>

InitWith(st) ==
  /\ w = [row |-> [i \in Items |-> [st |-> st[i], to |-> 0, only |-> 0, cont |-> 0, muse |-> None]],
          runs |-> [s \in Slots |-> NoRun], held |-> [p \in Profiles |-> None], aff |-> [i \in Items |-> None], gap |-> FALSE]
  /\ disk = [queue |-> w.row, state |-> State(w)]
  /\ conv = [i \in Items |-> None] /\ work = <<>>
  /\ proc = [up |-> TRUE, at |-> 0, fed |-> 0] /\ hold = {}

Init == InitWith([i \in Items |-> "queued"]) /\ spent = [trouble |-> 0, deaths |-> 0]

Visit(s) == Builds(s) \/ Visits(s)
Tick == TickBegins \/ (\E s \in Slots : Visit(s)) \/ SavesQueue \/ SavesState
Next ==
  \/ Tick \/ Dies \/ Restarts \/ GapOver
  \/ \E s \in Slots : TimesOut(s) \/ HoldsFeed(s)
  \/ \E n \in DOMAIN work : WorkerEnds(n)
  \/ \E p \in Profiles : HoldOver(p) \/ HoldCleared(p)
  \/ \E i \in Items : Requeues(i)

Fairness ==
  /\ WF_vars(Tick) /\ WF_vars(Restarts) /\ WF_vars(GapOver)
  /\ \A p \in Profiles : WF_vars(HoldOver(p))
  /\ \A s \in Slots : WF_vars(s \in hold /\ HoldsFeed(s))
  /\ WF_vars(\E n \in DOMAIN work : WorkerEnds(n))

Spec == Init /\ [][Next]_vars /\ Fairness
-----------------------------------------------------------------------------
(* A conversation leaves its account only if that is held for good or for  *)
(* the week: not for a rolling quota, and not because the daemon died      *)
(* before it had saved where it had placed it (select_profile, step 2).    *)
AccountStays ==
  [][\A i \in Items : Named[i] = None /\ conv[i] # None /\ conv'[i] # conv[i] => MayMove(w, conv[i]) \/ MayMove(w', conv[i])]_vars

(* Two workers never write one worktree while the daemon lives: not after  *)
(* a requeue of an item whose worker still runs (busy_worktrees).          *)
OneWriterPerTree ==
  spent.deaths = 0 =>
    \A k, n \in DOMAIN work : work[k].at = "runs" /\ work[n].at = "runs" /\ Tree[work[k].item] = Tree[work[n].item] => k = n

(* While the daemon lives, every item is brought to a report, a question   *)
(* or an error for BOSS: a turn that ends in the middle is continued a     *)
(* bounded number of times, a rolling quota is waited out.                 *)
AllWithBoss ==
  spent.deaths > 0 \/ \A i \in Items : w.row[i].st \in {"queued", "dispatched"} => \E d \in Deps[i] : w.row[d].st # "merged"
WorkIsReported == []<>AllWithBoss
-----------------------------------------------------------------------------
(* What the comments say and the code does not do.                         *)

(* "AUTH waits for a human": a later refusal of the same account turns the *)
(* hold into one the clock ends (mark_unhealthy).                          *)
AuthWaits == [][\A p \in Profiles : w.held[p] = "AUTH" /\ w'.held[p] # "AUTH" => ~proc.up \/ At(0)]_vars
=============================================================================
