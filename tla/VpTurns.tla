------------------------------ MODULE VpTurns -------------------------------
(***************************************************************************)
(* The turns of the v12 driver (vp/vpdriver.py: tick, _spawn_role,         *)
(* _turn_thread, run_turn, _deliver, _senior_fallback, _stop_step).  A     *)
(* tick reads the items once and visits them one after the other, while    *)
(* the threads of earlier ticks go on: a thread reads its item again, asks *)
(* the store for an attempt, runs a model, ends the attempt and delivers   *)
(* what the model wrote.  Failures are counted per item and per rev of the *)
(* item, runners and servers have slots and are parked on quota answers,   *)
(* a review Codex refuses is run on Claude, STOP drains, and the driver    *)
(* may die at any point and be started again.                              *)
(*                                                                         *)
(* An item is what the store says of it: status, round, rev, whether it    *)
(* has a RUNNING attempt, what it was paused from.  The union path starts  *)
(* at PREPARING, where this module ends.                                   *)
(***************************************************************************)
EXTENDS Naturals, Sequences, FiniteSets, SequencesExt, FiniteSetsExt

CONSTANTS
  Items,
  Room,                       \* turns at once of the server, codex and claude
  RoundCap,                   \* round_cap of the roster
  FailCap,                    \* FAIL_CAP
  None,
  MaxOps, MaxFaults, MaxCrashes   \* bounds: operator's moves, quota answers and refusals, deaths

Runners == {"server", "codex", "claude"}

TurnsAssumption ==
  /\ Room \in [Runners -> Nat] /\ RoundCap \in Nat \ {0} /\ FailCap \in Nat \ {0}
  /\ MaxOps \in Nat /\ MaxFaults \in Nat /\ MaxCrashes \in Nat

VARIABLES
  item,        \* the store: item -> [st, round, rev, att, from]
  turn,        \* item -> NoTurn or its thread [role, rev, on, at, saved]
  busy, park,  \* slots taken; "no", "parked", or "due" for a probe
  strike,      \* _fail: [n, rev, wait]
  rerun,       \* _unknown_rerun: the rev a grading left UNKNOWN lines at
  senior,      \* the runner roles["senior"] names
  edited,      \* the roster file changed since it was read
  stopFile,
  proc,        \* [alive, reconciled, stopping, aborting]
  todo, seen,  \* items the tick has yet to visit, as it read them
  spent        \* [ops, faults, crashes]

mem  == <<strike, rerun, senior>>
tick == <<todo, seen>>
vars == <<item, turn, busy, park, mem, edited, stopFile, proc, tick, spent>>

RoleForStatus == [BUILDING |-> "builder", GRADING |-> "junior", JUNIOR_SATISFIED |-> "senior"]
RoleOf(st) == IF st \in DOMAIN RoleForStatus THEN RoleForStatus[st] ELSE None

Statuses == {"READY", "ASSIGNED", "PREPARING", "PAUSED", "BLOCKED"} \cup DOMAIN RoleForStatus
NoTurn   == [at |-> "none", role |-> None, rev |-> 0, on |-> <<>>, saved |-> <<>>]
NoStrike == [n |-> 0, rev |-> 0, wait |-> FALSE]
Fresh    == [alive |-> TRUE, reconciled |-> FALSE, stopping |-> FALSE, aborting |-> FALSE]
Live     == {i \in Items : turn[i] # NoTurn}

TypeOK ==
  /\ \A i \in Items :
       /\ item[i].st \in Statuses /\ item[i].from \in Statuses \cup {None}
       /\ item[i].round \in 0 .. RoundCap /\ item[i].att \in BOOLEAN
       /\ turn[i].at \in {"none", "read", "start", "run", "fallback", "deliver", "findings"}
       /\ turn[i].role \in {"builder", "junior", "senior", None}
       /\ strike[i].n \in 0 .. FailCap
       /\ seen[i] = None \/ seen[i].st \in Statuses
  /\ \A r \in Runners : busy[r] \in 0 .. Room[r] /\ park[r] \in {"no", "parked", "due"}
  /\ senior \in {"codex", "claude"} /\ Range(todo) \subseteq Items

Spend(what) == /\ spent[what] < [ops |-> MaxOps, faults |-> MaxFaults, crashes |-> MaxCrashes][what]
               /\ spent' = [spent EXCEPT ![what] = @ + 1]

----------------------------------------------------------------------------
(* What a thread and the tick do to the store and to the failure counts.   *)
At(i, st)    == [item EXCEPT ![i].st = st, ![i].rev = @ + 1]
Blocks(i)    == IF item[i].st = "BLOCKED" THEN item ELSE At(i, "BLOCKED")
Worked(i)    == IF item[i].round + 1 >= RoundCap
                THEN [At(i, "BLOCKED") EXCEPT ![i].round = RoundCap]
                ELSE [At(i, "BUILDING") EXCEPT ![i].round = @ + 1]

(* note_item_failure: counts from one again when the rev is another one;   *)
(* at the cap the item is blocked, and stuck even if that is refused.      *)
Count(i, rev) == IF strike[i].n > 0 /\ strike[i].rev = rev THEN strike[i].n + 1 ELSE 1
NoteItemFailure(i, rev) ==
  /\ strike' = [strike EXCEPT ![i] = [n |-> Count(i, rev), rev |-> rev, wait |-> TRUE]]
  /\ item' = IF Count(i, rev) >= FailCap THEN Blocks(i) ELSE item
ClearItemFailures(i) == strike' = [strike EXCEPT ![i] = NoStrike]

BackedOff(i, rev) == strike[i].n > 0 /\ strike[i].rev = rev /\ (strike[i].n >= FailCap \/ strike[i].wait)

TryAcquire(r) == busy[r] < Room[r] /\ park[r] # "parked"

(* the end of a thread: its slots are free, roles["senior"] is what it was *)
(* when the (outermost) fallback of this thread began                      *)
Released(i) == [r \in Runners |-> busy[r] - Len(SelectSeq(turn[i].on, LAMBDA x : x = r))]
ThreadEnds(i) ==
  /\ turn' = [turn EXCEPT ![i] = NoTurn]
  /\ busy' = Released(i)
  /\ senior' = IF turn[i].saved = <<>> THEN senior ELSE turn[i].saved[1]
Raises(i) == NoteItemFailure(i, turn[i].rev) /\ ThreadEnds(i)
Goes(i, at) == turn' = [turn EXCEPT ![i].at = at] /\ UNCHANGED <<busy, senior>>

----------------------------------------------------------------------------
(* The tick.                                                               *)

Faulty_Reconciled == item

Reconciled == [i \in Items |-> [item[i] EXCEPT !.att = FALSE]]

(* _maybe_unpark: a runner that is due is probed                           *)
Unparks == \/ park' = [r \in Runners |-> IF park[r] = "due" THEN "no" ELSE park[r]] /\ UNCHANGED spent
           \/ /\ \E r \in Runners : park[r] = "due"
              /\ Spend("faults") /\ park' = [r \in Runners |-> IF park[r] = "due" THEN "parked" ELSE park[r]]

TickBegins ==
  /\ proc.alive /\ todo = <<>> /\ ~proc.stopping /\ ~stopFile
  /\ item' = (IF proc.reconciled THEN item ELSE Reconciled)
  /\ proc' = [proc EXCEPT !.reconciled = TRUE]
  /\ Unparks
  /\ todo' = SetToSeq(Items) /\ seen' = [i \in Items |-> [st |-> item'[i].st, rev |-> item'[i].rev, att |-> item'[i].att]]
  /\ UNCHANGED <<turn, busy, mem, edited, stopFile>>

Visited(i) == todo' = Tail(todo) /\ seen' = [seen EXCEPT ![i] = None]

Skips(i) ==
  /\ \/ i \in Live
     \/ BackedOff(i, seen[i].rev)
     \/ seen[i].st # "ASSIGNED" /\ (RoleOf(seen[i].st) = None \/ seen[i].att)
  /\ UNCHANGED <<item, turn, busy, strike>>

(* ASSIGNED: a worktree, then the store's claim with the rev that was read *)
Claims(i) ==
  /\ i \notin Live /\ ~BackedOff(i, seen[i].rev) /\ seen[i].st = "ASSIGNED"
  /\ \/ item[i].rev = seen[i].rev /\ ~stopFile /\ item' = At(i, "BUILDING") /\ UNCHANGED strike
     \/ NoteItemFailure(i, seen[i].rev)
  /\ UNCHANGED <<turn, busy>>

RunnerFor(role) == IF role = "senior" THEN senior ELSE "server"

SpawnRole(i) ==
  LET role == RoleOf(seen[i].st)  r == RunnerFor(role) IN
  /\ i \notin Live /\ ~BackedOff(i, seen[i].rev) /\ role # None /\ ~seen[i].att
  /\ IF TryAcquire(r)
     THEN /\ busy' = [busy EXCEPT ![r] = @ + 1]
          /\ turn' = [turn EXCEPT ![i] = [at |-> "read", role |-> role, rev |-> seen[i].rev, on |-> <<r>>, saved |-> <<>>]]
     ELSE UNCHANGED <<busy, turn>>
  /\ UNCHANGED <<item, strike>>

Visit(i) ==
  /\ proc.alive /\ todo # <<>> /\ i = Head(todo)
  /\ Skips(i) \/ Claims(i) \/ SpawnRole(i)
  /\ Visited(i)
  /\ UNCHANGED <<park, rerun, senior, edited, stopFile, proc, spent>>

(* STOP: no new turn; after the grace the threads are told to abort; when  *)
(* the last is gone the run is finished and the driver ends.               *)
Finish == Live = {}
StopStep ==
  /\ proc.alive /\ todo = <<>> /\ (proc.stopping \/ stopFile)
  /\ item' = (IF proc.reconciled THEN item ELSE Reconciled)
  /\ proc' = IF Finish THEN [Fresh EXCEPT !.alive = FALSE]
             ELSE [proc EXCEPT !.stopping = TRUE, !.reconciled = TRUE, !.aborting = proc.stopping]
  /\ UNCHANGED <<turn, busy, park, mem, edited, stopFile, tick, spent>>

----------------------------------------------------------------------------
(* A thread.                                                               *)
Runner(i) == Last(turn[i].on)
Threads(i) == UNCHANGED <<edited, stopFile, proc, tick>>

(* the tick's row may be old: the item is read again before a turn is paid *)
Faulty_StillDue(i) == TRUE

StillDue(i) == RoleOf(item[i].st) = turn[i].role
TurnReads(i) ==
  /\ turn[i].at = "read"
  /\ \/ StillDue(i) /\ Goes(i, "start") /\ UNCHANGED <<item, strike>>
     \/ ~StillDue(i) /\ ThreadEnds(i) /\ UNCHANGED <<item, strike>>
     \/ Raises(i)                       \* no worktree, no packet
  /\ Threads(i) /\ UNCHANGED <<park, rerun, spent>>

(* turn_start; then the roster is read again if its file changed           *)
Started(i) == [item EXCEPT ![i].att = TRUE]
TurnStarts(i) ==
  /\ turn[i].at = "start"
  /\ IF item[i].att THEN Raises(i) /\ UNCHANGED edited
     ELSE /\ item' = Started(i) /\ turn' = [turn EXCEPT ![i].at = "run"]
          /\ senior' = (IF edited THEN "codex" ELSE senior) /\ edited' = FALSE
          /\ UNCHANGED <<busy, strike>>
  /\ UNCHANGED <<park, rerun, stopFile, proc, tick, spent>>

(* run and turn_end: what the model's turn came to                         *)
Ended(i) == [item EXCEPT ![i].att = FALSE]
TurnRuns(i) ==
  /\ turn[i].at = "run"
  /\ \/ ~item[i].att /\ Raises(i) /\ UNCHANGED <<park, spent>>      \* turn_end: already ended
     \/ /\ item[i].att
        /\ \/ item' = Ended(i) /\ Goes(i, "deliver") /\ UNCHANGED <<park, strike, spent>>        \* DONE
           \/ /\ proc.stopping /\ item' = Ended(i) /\ ThreadEnds(i)                              \* ABORTED
              /\ UNCHANGED <<park, strike, spent>>
           \/ /\ ~proc.stopping /\ Spend("faults") /\ item' = Ended(i) /\ ThreadEnds(i)
              /\ park' = [park EXCEPT ![Runner(i)] = "parked"] /\ UNCHANGED strike               \* quota
           \/ /\ ~proc.stopping /\ turn[i].role = "senior" /\ senior = "codex" /\ Spend("faults")
              /\ item' = Ended(i) /\ Goes(i, "fallback") /\ UNCHANGED <<park, strike>>           \* refused
           \/ /\ ~proc.stopping /\ ThreadEnds(i)                                                 \* denied a tool
              /\ item' = [Blocks(i) EXCEPT ![i].att = FALSE] /\ UNCHANGED <<park, strike, spent>>
           \/ /\ ~proc.stopping /\ ThreadEnds(i)                                                 \* any other failure
              /\ strike' = [strike EXCEPT ![i] = [n |-> Count(i, turn[i].rev), rev |-> turn[i].rev, wait |-> TRUE]]
              /\ item' = [(IF Count(i, turn[i].rev) >= FailCap THEN Blocks(i) ELSE item) EXCEPT ![i].att = FALSE]
              /\ UNCHANGED <<park, spent>>
  /\ Threads(i) /\ UNCHANGED rerun

(* the review is run again on Claude, in this thread, with roles["senior"] *)
(* saying so for everybody; with no Claude slot the thread just ends       *)
SeniorFallback(i) ==
  /\ turn[i].at = "fallback"
  /\ IF TryAcquire("claude")
     THEN /\ busy' = [busy EXCEPT !["claude"] = @ + 1] /\ senior' = "claude"
          /\ turn' = [turn EXCEPT ![i].at = "read", ![i].on = Append(@, "claude"), ![i].saved = Append(@, senior)]
     ELSE ThreadEnds(i)
  /\ Threads(i) /\ UNCHANGED <<item, park, strike, rerun, spent>>

(* _deliver: the verbs a record of each role leads to.  A verb the store   *)
(* refuses raises, and a record that is no good strikes.                   *)
Takes(i, from, new) == item[i].st \in from /\ item' = new
Submittable == {"BUILDING", "GRADING", "JUNIOR_SATISFIED", "PREPARING", "PAUSED", "BLOCKED"}
Reviewable  == {"JUNIOR_SATISFIED", "PREPARING", "READY", "ASSIGNED", "BUILDING", "GRADING"}

Faulty_Counted(i) == ThreadEnds(i) /\ ClearItemFailures(i) /\ UNCHANGED item

Counted(i) == Raises(i)

Delivered(i) ==
  \/ /\ turn[i].role = "builder"
     /\ Takes(i, Submittable, At(i, "GRADING")) /\ UNCHANGED rerun
  \/ /\ turn[i].role = "junior" /\ rerun[i] # turn[i].rev                  \* UNKNOWN lines only: graded once more
     /\ rerun' = [rerun EXCEPT ![i] = turn[i].rev] /\ UNCHANGED item
  \/ /\ turn[i].role = "junior" /\ rerun' = [rerun EXCEPT ![i] = None]
     /\ (Takes(i, {"GRADING"}, At(i, "JUNIOR_SATISFIED")) \/ Takes(i, {"GRADING"}, Worked(i)))
  \/ /\ turn[i].role = "senior" /\ UNCHANGED rerun
     /\ \/ Takes(i, Reviewable, IF item[i].st = "JUNIOR_SATISFIED" THEN At(i, "PREPARING") ELSE item)
        \/ Takes(i, Reviewable, At(i, "BLOCKED"))

TurnDelivers(i) ==
  /\ turn[i].at = "deliver"
  /\ \/ Delivered(i) /\ ClearItemFailures(i) /\ ThreadEnds(i)
     \/ /\ turn[i].role = "builder" /\ item' = Blocks(i)                   \* the record says blocked
        /\ ThreadEnds(i) /\ UNCHANGED <<strike, rerun>>
     \/ Counted(i) /\ UNCHANGED rerun
     \/ /\ turn[i].role = "senior" /\ item[i].st \in Reviewable            \* FINDINGS: the review, then its lines
        /\ item' = (IF item[i].st = "JUNIOR_SATISFIED" THEN At(i, "GRADING") ELSE item)
        /\ Goes(i, "findings") /\ UNCHANGED <<strike, rerun>>
  /\ Threads(i) /\ UNCHANGED <<park, spent>>

TurnFindings(i) ==
  /\ turn[i].at = "findings"
  /\ \/ item[i].st = "GRADING" /\ item' = Worked(i) /\ ClearItemFailures(i) /\ ThreadEnds(i)
     \/ item[i].st # "GRADING" /\ Raises(i)
  /\ Threads(i) /\ UNCHANGED <<park, rerun, spent>>

----------------------------------------------------------------------------
(* The operator, time, and the death of the driver.                        *)
Rest == UNCHANGED <<turn, busy, park, mem, tick>>

ItemPause(i)   == item[i].st \notin {"PAUSED"} /\ item' = [At(i, "PAUSED") EXCEPT ![i].from = item[i].st]
ItemResume(i)  == item[i].st = "PAUSED" /\ item' = [At(i, item[i].from) EXCEPT ![i].from = None]
ItemUnblock(i) == item[i].st = "BLOCKED" /\ item' = At(i, "GRADING")
Operator ==
  /\ Spend("ops") /\ Rest
  /\ \/ \E i \in Items : (ItemPause(i) \/ ItemResume(i) \/ ItemUnblock(i)) /\ UNCHANGED <<edited, stopFile, proc>>
     \/ item' = Reconciled /\ item' # item /\ UNCHANGED <<edited, stopFile, proc>>        \* vpctl run reconcile
     \/ ~edited /\ edited' = TRUE /\ UNCHANGED <<item, stopFile, proc>>
     \/ ~stopFile /\ stopFile' = TRUE /\ UNCHANGED <<item, edited, proc>>

BackoffOver(i) ==
  /\ strike[i].wait /\ strike' = [strike EXCEPT ![i].wait = FALSE]
  /\ UNCHANGED <<item, turn, busy, park, rerun, senior, edited, stopFile, proc, tick, spent>>
ParkOver(r) ==
  /\ park[r] = "parked" /\ park' = [park EXCEPT ![r] = "due"]
  /\ UNCHANGED <<item, turn, busy, mem, edited, stopFile, proc, tick, spent>>

Emptied ==
  /\ turn' = [i \in Items |-> NoTurn] /\ busy' = [r \in Runners |-> 0] /\ park' = [r \in Runners |-> "no"]
  /\ strike' = [i \in Items |-> NoStrike] /\ rerun' = [i \in Items |-> None] /\ senior' = "codex"
  /\ todo' = <<>> /\ seen' = [i \in Items |-> None] /\ edited' = FALSE
Crash ==
  /\ proc.alive /\ Spend("crashes") /\ Emptied
  /\ proc' = [Fresh EXCEPT !.alive = FALSE]
  /\ UNCHANGED <<item, stopFile>>
Restart ==
  /\ ~proc.alive /\ proc' = Fresh /\ stopFile' = FALSE /\ Emptied
  /\ UNCHANGED <<item, spent>>

ThreadStep(i) ==
  \/ TurnReads(i) \/ TurnStarts(i) \/ TurnRuns(i) \/ SeniorFallback(i) \/ TurnDelivers(i) \/ TurnFindings(i)
LoopStep == TickBegins \/ StopStep \/ \E i \in Items : Visit(i)

Init ==
  /\ item \in [Items -> [st : {"READY", "ASSIGNED"} \cup DOMAIN RoleForStatus, round : 0 .. RoundCap - 1, rev : {0}, att : BOOLEAN, from : {None}]]
  /\ turn = [i \in Items |-> NoTurn] /\ busy = [r \in Runners |-> 0] /\ park = [r \in Runners |-> "no"]
  /\ strike = [i \in Items |-> NoStrike] /\ rerun = [i \in Items |-> None] /\ senior = "codex"
  /\ edited = FALSE /\ stopFile = FALSE /\ proc = Fresh /\ todo = <<>> /\ seen = [i \in Items |-> None]
  /\ spent \in [ops : 0 .. MaxOps, faults : 0 .. MaxFaults, crashes : 0 .. MaxCrashes]

Next ==
  \/ LoopStep \/ Operator \/ Crash \/ Restart
  \/ \E i \in Items : ThreadStep(i) \/ BackoffOver(i)
  \/ \E r \in Runners : ParkOver(r)

(* The loop ticks on, threads come to an end, waits run out and a stopped  *)
(* driver is started again.                                                *)
Fairness ==
  /\ WF_vars(LoopStep) /\ WF_vars(Restart)
  /\ \A i \in Items : WF_vars(ThreadStep(i)) /\ WF_vars(BackoffOver(i))
  /\ \A r \in Runners : WF_vars(ParkOver(r))

Spec == Init /\ [][Next]_vars /\ Fairness

----------------------------------------------------------------------------
(* A slot is taken for every runner a live thread uses, two for one that   *)
(* is in a fallback, and is free again however the thread ends ("a         *)
(* crashing turn cannot leak a slot").                                     *)
SlotsMatchThreads ==
  \A r \in Runners :
    busy[r] = FoldSet(LAMBDA i, n : n + Len(SelectSeq(turn[i].on, LAMBDA x : x = r)), 0, Items)

(* Once a driver has reconciled, an attempt is RUNNING only while a thread *)
(* of it runs the model: neither a death nor any way out of a thread       *)
(* leaves one behind, which would keep the item from ever running again.   *)
AttemptsAreOwned ==
  proc.alive /\ proc.reconciled => \A i \in Items : item[i].att => turn[i].at = "run"

(* As long as no operator moves items, a turn starts only for the role the *)
(* item is due for, although the tick spawned it from an older row.        *)
StartsDue == \A i \in Items : item'[i].att /\ ~item[i].att /\ spent.ops = 0 => RoleOf(item[i].st) = turn[i].role
TurnsAreDue == [][StartsDue]_vars

(* A driver that was stopped leaves no attempt RUNNING.                    *)
StopsQuietly ==
  [][proc.alive /\ ~proc'.alive /\ spent'.crashes = spent.crashes => \A i \in Items : ~item'[i].att]_vars

(* Whatever fails, and however often, every item comes to rest: it leaves  *)
(* for the union, is blocked, is held by the operator or is out of tries   *)
(* ("three strikes").                                                      *)
Settled == \A i \in Items : item[i].st \in {"PREPARING", "BLOCKED", "PAUSED", "READY"} \/ strike[i].n >= FailCap
Settles == []<>Settled

(* With no thread in a fallback the senior reviews run where the roster    *)
(* says.                                                                   *)
SeniorRestored == (\A i \in Items : turn[i].saved = <<>>) => senior = "codex"

(* Reconciling orphans no attempt of a driver that is alive.               *)
OrphansAreDead ==
  [][\A i \in Items : turn[i].at = "run" /\ item[i].att /\ ~item'[i].att => turn'[i].at # "run" \/ ~proc'.alive]_vars

(* An item the operator paused stays paused until it is resumed.           *)
PausedStays ==
  [][\A i \in Items : item[i].st = "PAUSED" /\ item'[i].st # "PAUSED" => spent'.ops # spent.ops]_vars
============================================================================
