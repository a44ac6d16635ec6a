----------------------------- MODULE LaneDriver -----------------------------
(***************************************************************************)
(* The v13 lane driver (vp/lanedriver.py): one tick loop, one thread per   *)
(* live attempt, the files of the run root through which the operator      *)
(* stops, drains and reloads it, and the rows of the scheduler, which the  *)
(* driver moves only through the verbs claim, start and complete.          *)
(*                                                                         *)
(* A tick reads the scheduler's rows once (`view`) and then walks them:    *)
(* threads, the operator and crashes move in between.  A verb is one call  *)
(* of a child process: it may be refused, and it may time out, with or     *)
(* without having taken effect.                                            *)
(***************************************************************************)
EXTENDS Naturals, FiniteSets, FiniteSetsExt

CONSTANTS
  Task,          \* the rows of the run
  Runner,        \* the programs turns run in
  RunnerOf,      \* the runner of each task's role
  Late,          \* codex tasks: started inside the thread, once a session is open
  Gated,         \* tasks the scheduler completes only after a recorded review
  PathOf,        \* the path each task owns
  MaxTasks,      \* concurrency.max_tasks_in_flight
  RunnerMax,     \* turns a runner takes at once
  FailCap,       \* FAIL_CAP
  MaxAttempts,   \* bound: claims of one row
  MaxFaults,     \* bound: failed turns, parked runners, verbs that time out
  MaxOps,        \* bound: operator commands
  MaxCrashes     \* bound: deaths of the driver

ASSUME DriverAssumption ==
  /\ RunnerOf \in [Task -> Runner]
  /\ Late \subseteq Task /\ Gated \subseteq Task
  /\ MaxTasks \in Nat \ {0} /\ RunnerMax \in Nat \ {0} /\ FailCap \in Nat \ {0}
  /\ {MaxAttempts, MaxFaults, MaxOps, MaxCrashes} \subseteq Nat

VARIABLES
  \* the scheduler: phase, state and attempt of every row, recorded reviews
  phase, st, att, reviewed,
  \* the run root: the three request files, the held completion of each attempt
  \* (the outcome in gate-hold.json, or "none"), the live set last published
  drain, stop, reload, held, heartbeat,
  \* the driver: is it alive, where in the tick, the rows left in this walk,
  \* the row claimed and about to be started, what it read, the flags it keeps
  up, pc, todo, starting, view, draining, stopping, pending, reloadFailed, reconciled, abort,
  \* the attempts it is running, what their threads do, the slots they hold,
  \* parked runners and strikes
  live, stage, result, slots, parked, fails,
  faults, ops, crashes

control == <<phase, st, att, reviewed>>
files   == <<drain, stop, reload, held, heartbeat>>
flags   == <<stopping, pending, reloadFailed, reconciled, abort>>
driver  == <<up, pc, todo, starting, view, draining, flags>>
threads == <<live, stage, result, slots, parked, fails>>
budgets == <<faults, ops, crashes>>
vars    == <<control, files, driver, threads, budgets>>

Active   == {"CLAIMED", "RUNNING"}
Outcomes == {"VERIFIED", "BLOCKED", "INVALID_EVIDENCE"}
Rows     == {"READY"} \cup Active \cup Outcomes
Stages   == {"idle", "open", "work", "close"}

(* A strike counts against the row's key: the attempt once there is one,   *)
(* before that the row as `ready` reported it.                             *)
ReadyKey(t)   == <<"ready", att[t]>>
AttemptKey(a) == <<"attempt", a>>
Keys    == {"none", "ready", "attempt"} \X (0..MaxAttempts)
Strikes == [key : Keys, count : 0..FailCap, later : BOOLEAN]
Clean   == [key |-> <<"none", 0>>, count |-> 0, later |-> FALSE]
Stuck(t) == fails[t].count >= FailCap

TypeOK ==
  /\ phase \in {"ACTIVE", "DRAINING"}
  /\ st \in [Task -> Rows] /\ att \in [Task -> 0..MaxAttempts]
  /\ reviewed \subseteq Gated
  /\ {drain, stop, reload, up, stopping, pending, reloadFailed, reconciled, abort} \subseteq BOOLEAN
  /\ held \in [Task -> [0..MaxAttempts -> Outcomes \cup {"none"}]] /\ heartbeat \subseteq Task
  /\ pc \in {"tick", "look", "adopt", "ready", "dispatch"}
  /\ todo \subseteq Task /\ starting \subseteq Task /\ draining \in BOOLEAN
  /\ view \in [Task -> [st : Rows, att : 0..MaxAttempts]]
  /\ live \in [Task -> 0..MaxAttempts] /\ stage \in [Task -> Stages]
  /\ result \in [Task -> Outcomes \cup {"none"}]
  /\ slots \in [Runner -> Nat] /\ parked \subseteq Runner
  /\ fails \in [Task -> Strikes]

Unread == [t \in Task |-> [st |-> "READY", att |-> 0]]

InitRest ==
  /\ phase = "ACTIVE" /\ att = [t \in Task |-> 0]
  /\ reviewed = {}
  /\ drain = FALSE /\ stop = FALSE /\ reload = FALSE
  /\ held = [t \in Task |-> [a \in 0..MaxAttempts |-> "none"]] /\ heartbeat = {}
  /\ up = TRUE /\ pc = "tick" /\ todo = {} /\ starting = {} /\ draining = FALSE
  /\ view = Unread
  /\ stopping = FALSE /\ pending = FALSE /\ reloadFailed = FALSE
  /\ reconciled = FALSE /\ abort = FALSE
  /\ live = [t \in Task |-> 0] /\ stage = [t \in Task |-> "idle"]
  /\ result = [t \in Task |-> "none"]
  /\ slots = [r \in Runner |-> 0] /\ parked = {} /\ fails = [t \in Task |-> Clean]

Init ==
  /\ st = [t \in Task |-> "READY"]
  /\ faults = 0 /\ ops = 0 /\ crashes = 0
  /\ InitRest

Live == {t \in Task : live[t] # 0}
-----------------------------------------------------------------------------
(* The verbs, as the scheduler answers them.                               *)

Clash(t, x) == t # x /\ PathOf[t] = PathOf[x]
ClaimRefusedForPath(t) == \E x \in Task : Clash(t, x) /\ st[x] \in Active
ClaimAllowed(t) == phase = "ACTIVE" /\ st[t] = "READY" /\ ~ClaimRefusedForPath(t)
StartAllowed(t, a) == phase = "ACTIVE" /\ st[t] = "CLAIMED" /\ att[t] = a

(* faulty variant: any attempt may complete the row *)
Faulty_CompletionMatches(t, a) == st[t] # "READY"

CompletionMatches(t, a) == st[t] \in Active /\ att[t] = a
ReviewMissing(t, o) == o = "VERIFIED" /\ t \in Gated \ reviewed

ClaimRow(t) ==
  /\ st' = [st EXCEPT ![t] = "CLAIMED"]
  /\ att' = [att EXCEPT ![t] = @ + 1]
  /\ UNCHANGED <<phase, reviewed>>
MoveRow(t, to) == st' = [st EXCEPT ![t] = to] /\ UNCHANGED <<phase, att, reviewed>>

Fault == faults < MaxFaults /\ faults' = faults + 1
NoFault == UNCHANGED faults
-----------------------------------------------------------------------------
(* Slots and strikes, each under the driver's lock.                        *)

SlotFree(t) ==
  /\ Cardinality(Live) < MaxTasks
  /\ slots[RunnerOf[t]] < RunnerMax
  /\ RunnerOf[t] \notin parked

Acquire(t) == slots' = [slots EXCEPT ![RunnerOf[t]] = @ + 1]
Released(r) == IF slots[r] > 0 THEN slots[r] - 1 ELSE 0
Release(t) == slots' = [slots EXCEPT ![RunnerOf[t]] = Released(RunnerOf[t])]

(* A new key starts a new count.                                           *)
Entry(t, key) == IF fails[t].key = key THEN fails[t] ELSE [Clean EXCEPT !.key = key]
Strike(t, key) ==
  fails' = [fails EXCEPT ![t] = [key |-> key, count |-> Entry(t, key).count + 1, later |-> TRUE]]
Hold(t, key) == fails' = [fails EXCEPT ![t] = [Entry(t, key) EXCEPT !.later = TRUE]]

BackedOff(t, key) == fails[t].key = key /\ (Stuck(t) \/ fails[t].later)

(* What _backed_off leaves: an entry under another key is dropped.         *)
Forgotten(t, key) == IF fails[t].key = key THEN fails ELSE [fails EXCEPT ![t] = Clean]
-----------------------------------------------------------------------------
(* The tick, up to the point where it reads the rows.                      *)

(* hot_reload: on success the strikes of stuck tasks are lifted; on        *)
(* failure nothing is claimed until a reload succeeds.                     *)
HotReload(ok) ==
  /\ reload' = FALSE /\ pending' = FALSE /\ reloadFailed' = ~ok
  /\ fails' = IF ok THEN [t \in Task |-> IF Stuck(t) THEN Clean ELSE fails[t]] ELSE fails

Quiet == Live = {}

(* faulty variant: the withdrawn request stays pending *)
Faulty_AfterWithdrawal(stops) == pending

AfterWithdrawal(stops) == stops /\ pending

(* The reload step: note the request, drop a request that was withdrawn,   *)
(* or reload once nothing is live.                                         *)
ReloadStep(stops) ==
  IF stops \/ ~reload
    THEN /\ pending' = AfterWithdrawal(stops)
         /\ pc' = "look" /\ UNCHANGED <<reload, reloadFailed, fails>>
    ELSE \/ ~Quiet /\ pending' = TRUE /\ pc' = "look" /\ UNCHANGED <<reload, reloadFailed, fails>>
         \/ Quiet /\ pc' = "tick" /\ \E ok \in BOOLEAN : HotReload(ok)

TickHead ==
  /\ up /\ pc = "tick"
  /\ \E ok \in BOOLEAN :
       /\ reconciled' = (reconciled \/ ok)
       /\ IF reconciled \/ ok THEN NoFault ELSE Fault
  /\ stopping' = (stopping \/ stop)
  /\ heartbeat' = Live
  /\ ReloadStep(stopping')
  /\ UNCHANGED <<control, drain, stop, held, up, todo, starting, view, draining, abort, live, stage,
                 result, slots, parked, ops, crashes>>

(* _stop_step and the end of the loop: after the grace the threads are     *)
(* aborted, and once none is live the driver finishes.                     *)
StopStep ==
  /\ up /\ pc = "look" /\ stopping
  /\ IF Live = {} THEN /\ up' = FALSE /\ UNCHANGED abort
                  ELSE /\ abort' \in {abort, TRUE} /\ UNCHANGED up
  /\ pc' = "tick"
  /\ heartbeat' = IF up' THEN heartbeat ELSE {}
  /\ UNCHANGED <<control, drain, stop, reload, held, todo, starting, view, draining, stopping, pending,
                 reloadFailed, reconciled, threads, budgets>>

Quiescing == phase # "ACTIVE" \/ drain \/ pending

(* faulty variant: only running rows are looked for *)
Faulty_Adoptable(t) == st[t] = "RUNNING"

Adoptable(t) == st[t] \in Active

(* The rows are read; the walk over them works on this copy.               *)
Look ==
  /\ up /\ pc = "look" /\ ~stopping
  /\ draining' = Quiescing
  /\ view' = [t \in Task |-> [st |-> st[t], att |-> att[t]]]
  /\ todo' = {t \in Task : Adoptable(t)}
  /\ pc' = "adopt"
  /\ UNCHANGED <<control, files, up, starting, flags, threads, budgets>>
-----------------------------------------------------------------------------
(* _adopt_orphans: rows the view shows claimed or running that no thread   *)
(* of this driver serves.                                                  *)

Walked(t) == todo' = todo \ {t} /\ UNCHANGED <<up, pc, starting, view, draining, flags>>

Spawn(t, a, first) ==
  /\ Acquire(t)
  /\ live' = [live EXCEPT ![t] = a]
  /\ stage' = [stage EXCEPT ![t] = first]
  /\ UNCHANGED <<result, parked>>

Adopting(t) == up /\ pc = "adopt" /\ t \in todo
HeldFor(t) == held[t][view[t].att]
Orphan(t) ==
  /\ live[t] = 0
  /\ ~BackedOff(t, AttemptKey(view[t].att))

AdoptSkip(t) ==
  /\ Adopting(t)
  /\ \/ ~Orphan(t)
     \/ HeldFor(t) = "none" /\ view[t].st = "CLAIMED" /\ draining
     \/ HeldFor(t) = "none" /\ (view[t].st = "RUNNING" \/ t \in Late) /\ ~SlotFree(t)
  /\ fails' = IF live[t] = 0 THEN Forgotten(t, AttemptKey(view[t].att)) ELSE fails
  /\ Walked(t)
  /\ UNCHANGED <<control, files, live, stage, result, slots, parked, budgets>>

RerunAllowed(t) == HeldFor(t) = "none"

(* _gate_hold_retry: the recorded completion is offered again; no turn.    *)
(* (At most once a minute: an offer too early is one that is refused.)     *)
GateHoldRetry(t) ==
  /\ Adopting(t) /\ Orphan(t) /\ HeldFor(t) # "none"
  /\ fails' = Forgotten(t, AttemptKey(view[t].att))
  /\ \/ /\ CompletionMatches(t, view[t].att) /\ ~ReviewMissing(t, HeldFor(t))
        /\ MoveRow(t, HeldFor(t))
        /\ \/ held' = [held EXCEPT ![t][view[t].att] = "none"] /\ NoFault
           \/ Fault /\ UNCHANGED held                \* done, answered too late
     \/ /\ ~CompletionMatches(t, view[t].att) \/ ReviewMissing(t, HeldFor(t))
        /\ NoFault /\ UNCHANGED <<control, held>>
  /\ Walked(t)
  /\ UNCHANGED <<drain, stop, reload, heartbeat, live, stage, result, slots, parked, ops, crashes>>

AdoptRunning(t) ==
  /\ Adopting(t) /\ Orphan(t) /\ RerunAllowed(t) /\ SlotFree(t)
  /\ \/ view[t].st = "RUNNING" /\ Spawn(t, view[t].att, "work")
     \/ view[t].st = "CLAIMED" /\ t \in Late /\ ~draining /\ Spawn(t, view[t].att, "open")
  /\ fails' = Forgotten(t, AttemptKey(view[t].att))
  /\ Walked(t)
  /\ UNCHANGED <<control, files, budgets>>

(* A claimed row is started first.  When the start took effect and no slot *)
(* is free the next tick finds the row running.                            *)
AdoptClaimed(t) ==
  /\ Adopting(t) /\ Orphan(t) /\ RerunAllowed(t)
  /\ view[t].st = "CLAIMED" /\ t \notin Late /\ ~draining
  /\ \/ /\ StartAllowed(t, view[t].att) /\ NoFault
        /\ MoveRow(t, "RUNNING")
        /\ IF SlotFree(t) THEN Spawn(t, view[t].att, "work")
                          ELSE UNCHANGED <<live, stage, result, slots, parked>>
        /\ fails' = Forgotten(t, AttemptKey(view[t].att))
     \/ /\ ~StartAllowed(t, view[t].att) /\ NoFault
        /\ Strike(t, AttemptKey(view[t].att))
        /\ UNCHANGED <<control, live, stage, result, slots, parked>>
     \/ /\ Fault /\ Strike(t, AttemptKey(view[t].att))
        /\ \/ UNCHANGED control
           \/ StartAllowed(t, view[t].att) /\ MoveRow(t, "RUNNING")
        /\ UNCHANGED <<live, stage, result, slots, parked>>
  /\ Walked(t)
  /\ UNCHANGED <<files, ops, crashes>>

(* The copy is gone when the tick ends.                                     *)
TickOver == pc' = "tick" /\ draining' = FALSE /\ view' = Unread

(* A drain past its deadline is cleared by the driver itself.              *)
DrainExpires ==
  /\ up /\ pc = "look" /\ ~stopping /\ drain
  /\ drain' = FALSE
  /\ UNCHANGED <<control, stop, reload, held, heartbeat, driver, threads, budgets>>

(* Disk, memory, budget and authority guards are outside; a failed reload  *)
(* is one of them.                                                         *)
AdoptEnd ==
  /\ up /\ pc = "adopt" /\ todo = {}
  /\ \/ TickOver
     \/ ~draining /\ ~reloadFailed /\ pc' = "ready" /\ UNCHANGED <<view, draining>>
  /\ UNCHANGED <<control, files, up, todo, starting, flags, threads, budgets>>
-----------------------------------------------------------------------------
(* _dispatch_ready: the rows the scheduler reports ready.                  *)

ReadyVerb ==
  /\ up /\ pc = "ready"
  /\ \/ todo' = {t \in Task : st[t] = "READY"} /\ pc' = "dispatch" /\ NoFault
        /\ UNCHANGED <<view, draining>>
     \/ Fault /\ TickOver /\ UNCHANGED todo
  /\ UNCHANGED <<control, files, up, starting, flags, threads, ops, crashes>>

Dispatching(t) == up /\ pc = "dispatch" /\ starting = {} /\ t \in todo
SeenClash(t) == \E x \in Task : Clash(t, x) /\ view[x].st \in Active

DispatchSkip(t) ==
  /\ Dispatching(t)
  /\ live[t] # 0 \/ BackedOff(t, ReadyKey(t)) \/ SeenClash(t) \/ ~SlotFree(t)
  /\ fails' = IF live[t] = 0 THEN Forgotten(t, ReadyKey(t)) ELSE fails
  /\ Walked(t)
  /\ UNCHANGED <<control, files, live, stage, result, slots, parked, budgets>>

Claimable(t) ==
  /\ Dispatching(t)
  /\ live[t] = 0 /\ ~BackedOff(t, ReadyKey(t)) /\ ~SeenClash(t) /\ SlotFree(t)

Marked(t) == view' = [view EXCEPT ![t] = [st |-> "CLAIMED", att |-> att'[t]]]

(* The claim is granted: a codex task goes to its thread, any other task   *)
(* is started first.                                                       *)
DispatchClaim(t) ==
  /\ Claimable(t) /\ ClaimAllowed(t) /\ att[t] < MaxAttempts
  /\ ClaimRow(t) /\ Marked(t)
  /\ fails' = Forgotten(t, ReadyKey(t))
  /\ todo' = todo \ {t}
  /\ IF t \in Late
       THEN Spawn(t, att[t] + 1, "open") /\ UNCHANGED starting
       ELSE Acquire(t) /\ starting' = {t} /\ UNCHANGED <<live, stage, result, parked>>
  /\ UNCHANGED <<files, up, pc, draining, flags, budgets>>

(* faulty variant: the slot of a refused claim is not given back *)
Faulty_AfterRefusal(t) == Acquire(t)

AfterRefusal(t) == UNCHANGED slots

(* Refused for a path: no strike, next tick.  Refused or timed out         *)
(* otherwise: a strike.  Either way the slot taken for it is given back.   *)
DispatchRefused(t) ==
  /\ Claimable(t)
  /\ AfterRefusal(t)
  /\ \/ /\ ClaimRefusedForPath(t) /\ NoFault
        /\ fails' = Forgotten(t, ReadyKey(t)) /\ UNCHANGED control
     \/ /\ ~ClaimAllowed(t) /\ ~ClaimRefusedForPath(t) /\ NoFault
        /\ Strike(t, ReadyKey(t)) /\ UNCHANGED control
     \/ /\ Fault /\ Strike(t, ReadyKey(t))
        /\ \/ UNCHANGED control
           \/ ClaimAllowed(t) /\ att[t] < MaxAttempts /\ ClaimRow(t)
  /\ Walked(t)
  /\ UNCHANGED <<files, live, stage, result, parked, ops, crashes>>

(* The start that follows the claim in the same pass.                      *)
DispatchStart(t) ==
  /\ up /\ t \in starting /\ starting' = {}
  /\ \/ /\ StartAllowed(t, view[t].att) /\ NoFault
        /\ MoveRow(t, "RUNNING")
        /\ live' = [live EXCEPT ![t] = view[t].att]
        /\ stage' = [stage EXCEPT ![t] = "work"]
        /\ UNCHANGED <<slots, fails>>
     \/ /\ \/ ~StartAllowed(t, view[t].att) /\ NoFault /\ UNCHANGED control
           \/ Fault /\ UNCHANGED control
           \/ Fault /\ StartAllowed(t, view[t].att) /\ MoveRow(t, "RUNNING")
        /\ Release(t)
        /\ Strike(t, <<"ready", view[t].att - 1>>)
        /\ UNCHANGED <<live, stage>>
  /\ UNCHANGED <<files, up, pc, todo, view, draining, flags, result, parked, ops, crashes>>

DispatchEnd ==
  /\ up /\ pc = "dispatch" /\ todo = {} /\ starting = {}
  /\ TickOver /\ heartbeat' \in {heartbeat, Live}
  /\ UNCHANGED <<control, drain, stop, reload, held, up, todo, starting, flags, threads, budgets>>
-----------------------------------------------------------------------------
(* A thread: _task_thread around _run_attempt.                             *)

Leave(t) ==
  /\ Release(t)
  /\ live' = [live EXCEPT ![t] = 0] /\ stage' = [stage EXCEPT ![t] = "idle"]
  /\ result' = [result EXCEPT ![t] = "none"]

Key(t) == AttemptKey(live[t])

(* The session is opened and the row started by the thread.                *)
Open(t) ==
  /\ stage[t] = "open"
  /\ \/ /\ StartAllowed(t, live[t]) /\ NoFault /\ MoveRow(t, "RUNNING")
        /\ stage' = [stage EXCEPT ![t] = "work"]
        /\ UNCHANGED <<live, result, slots, fails>>
     \/ /\ \/ ~StartAllowed(t, live[t]) /\ NoFault /\ UNCHANGED control
           \/ Fault /\ UNCHANGED control
           \/ Fault /\ StartAllowed(t, live[t]) /\ MoveRow(t, "RUNNING")
        /\ Strike(t, Key(t)) /\ Leave(t)
  /\ UNCHANGED <<files, driver, parked, ops, crashes>>

(* A turn that answered: strikes are cleared and the result is completed.  *)
Answer(t) ==
  /\ stage[t] = "work"
  /\ \E o \in {"VERIFIED", "BLOCKED"} : result' = [result EXCEPT ![t] = o]
  /\ stage' = [stage EXCEPT ![t] = "close"]
  /\ fails' = [fails EXCEPT ![t] = Clean]
  /\ UNCHANGED <<control, files, driver, live, slots, parked, budgets>>

(* faulty variant: one strike short *)
Faulty_GivesUp(count) == count + 1 >= FailCap

GivesUp(count) == count >= FailCap

(* A turn that failed: a strike; the last one closes the attempt.          *)
Fail(t) ==
  /\ stage[t] = "work" /\ Fault
  /\ Strike(t, Key(t))
  /\ IF GivesUp(Entry(t, Key(t)).count + 1)
       THEN /\ stage' = [stage EXCEPT ![t] = "close"]
            /\ result' = [result EXCEPT ![t] = "INVALID_EVIDENCE"]
            /\ UNCHANGED <<live, slots>>
       ELSE Leave(t)
  /\ UNCHANGED <<control, files, driver, parked, ops, crashes>>

(* No verdict on the work: the runner is parked (quota, rate, auth), the   *)
(* proof is held (memory, credits, gate), or the driver is stopping.       *)
Interrupted(t) ==
  /\ stage[t] = "work"
  /\ \/ Fault /\ parked' = parked \cup {RunnerOf[t]} /\ UNCHANGED fails
     \/ Fault /\ Hold(t, Key(t)) /\ UNCHANGED parked
     \/ abort /\ NoFault /\ UNCHANGED <<parked, fails>>
  /\ Leave(t)
  /\ UNCHANGED <<control, files, driver, ops, crashes>>

(* _complete.  Refused for a missing review: the completion is kept in     *)
(* gate-hold.json.  Refused otherwise, or unanswered: the thread ends.     *)
Close(t) ==
  /\ stage[t] = "close"
  /\ \/ /\ CompletionMatches(t, live[t]) /\ ~ReviewMissing(t, result[t])
        /\ MoveRow(t, result[t])
        /\ UNCHANGED held /\ (NoFault \/ Fault)
     \/ /\ CompletionMatches(t, live[t]) /\ ReviewMissing(t, result[t]) /\ NoFault
        /\ held' = [held EXCEPT ![t][live[t]] = result[t]] /\ UNCHANGED control
     \/ /\ ~CompletionMatches(t, live[t]) /\ NoFault /\ UNCHANGED <<control, held>>
     \/ Fault /\ UNCHANGED <<control, held>>
  /\ Leave(t)
  /\ UNCHANGED <<drain, stop, reload, heartbeat, driver, parked, fails, ops, crashes>>
-----------------------------------------------------------------------------
(* Around the driver: time, reviewers, the operator, crashes.              *)

(* A back-off or a hold runs out; a parked runner is let in again.         *)
Wait ==
  /\ \/ /\ \E t \in Task : fails[t].later /\ fails' = [fails EXCEPT ![t].later = FALSE]
        /\ UNCHANGED parked
     \/ \E r \in parked : parked' = parked \ {r} /\ UNCHANGED fails
  /\ UNCHANGED <<control, files, driver, live, stage, result, slots, budgets>>

RecordReview(t) ==
  /\ t \in Gated \ reviewed /\ st[t] # "READY"
  /\ reviewed' = reviewed \cup {t}
  /\ UNCHANGED <<phase, st, att, files, driver, threads, budgets>>

Operator == ops < MaxOps /\ ops' = ops + 1 /\ UNCHANGED <<faults, crashes>>

(* drain, undrain, reload, reload --cancel, the STOP file and the          *)
(* scheduler's own drain and activate.                                     *)
Request ==
  /\ Operator
  /\ \/ drain' = ~drain /\ UNCHANGED <<stop, reload, phase>>
     \/ reload' = ~reload /\ UNCHANGED <<drain, stop, phase>>
     \/ ~stop /\ stop' = TRUE /\ UNCHANGED <<drain, reload, phase>>
     \/ phase' \in {"ACTIVE", "DRAINING"} \ {phase} /\ UNCHANGED <<drain, stop, reload>>
  /\ UNCHANGED <<st, att, reviewed, held, heartbeat, driver, threads>>

(* `item complete`, refused only while the published heartbeat shows the   *)
(* task live.                                                              *)
ItemComplete(t) ==
  /\ Operator
  /\ t \notin heartbeat /\ st[t] \in Active
  /\ \E o \in {"BLOCKED", "INVALID_EVIDENCE"} : MoveRow(t, o)
  /\ UNCHANGED <<files, driver, threads>>

ItemUnblock(t) ==
  /\ Operator /\ st[t] = "BLOCKED" /\ att[t] < MaxAttempts
  /\ MoveRow(t, "READY")
  /\ UNCHANGED <<files, driver, threads>>

Forget ==
  /\ live' = [t \in Task |-> 0] /\ stage' = [t \in Task |-> "idle"]
  /\ result' = [t \in Task |-> "none"]
  /\ slots' = [r \in Runner |-> 0] /\ parked' = {} /\ fails' = [t \in Task |-> Clean]

(* The process dies with its threads; the files and the rows stay.         *)
Crash ==
  /\ up /\ crashes < MaxCrashes /\ crashes' = crashes + 1
  /\ up' = FALSE /\ Forget /\ TickOver /\ todo' = {} /\ starting' = {}
  /\ UNCHANGED <<control, files, flags, faults, ops>>

(* A new driver over the same run root, the STOP and DRAIN files cleared   *)
(* first (cmd_restart).                                                    *)
Restart ==
  /\ ~up /\ up' = TRUE /\ Forget
  /\ stopping' = FALSE /\ pending' = FALSE /\ reloadFailed' = FALSE
  /\ reconciled' = FALSE /\ abort' = FALSE
  /\ stop' = FALSE /\ drain' = FALSE
  /\ UNCHANGED <<control, reload, held, heartbeat, pc, todo, starting, view, draining, budgets>>

DriverStep ==
  \/ TickHead \/ StopStep \/ DrainExpires \/ Look \/ AdoptEnd \/ ReadyVerb \/ DispatchEnd
  \/ \E t \in Task : \/ AdoptSkip(t) \/ GateHoldRetry(t) \/ AdoptRunning(t) \/ AdoptClaimed(t)
                     \/ DispatchSkip(t) \/ DispatchClaim(t) \/ DispatchRefused(t) \/ DispatchStart(t)

ThreadStep(t) == Open(t) \/ Answer(t) \/ Fail(t) \/ Interrupted(t) \/ Close(t)

Next ==
  \/ DriverStep
  \/ \E t \in Task : ThreadStep(t) \/ RecordReview(t) \/ ItemComplete(t) \/ ItemUnblock(t)
  \/ Wait \/ Request \/ Crash \/ Restart

Spec == Init /\ [][Next]_vars

(* The loop ticks, threads run, waits end, reviewers answer, and a driver  *)
(* that went down is started again.                                        *)
Fairness ==
  /\ WF_vars(DriverStep \/ Restart)
  /\ WF_vars(Wait \/ \E t \in Gated : RecordReview(t))
  /\ \A t \in Task : WF_vars(ThreadStep(t))

FairSpec == Spec /\ Fairness
-----------------------------------------------------------------------------
(* Every slot a runner counts belongs to a thread or to the claim being    *)
(* started, and no limit is passed, whatever is refused, timed out or      *)
(* aborted on the way (_try_acquire, _release).                            *)
SlotsMatchThreads ==
  /\ \A r \in Runner :
       slots[r] = Cardinality({t \in Live : RunnerOf[t] = r})
                  + Cardinality({t \in starting : RunnerOf[t] = r})
  /\ \A r \in Runner : slots[r] <= RunnerMax
  /\ Cardinality(Live) <= MaxTasks

(* An attempt is given up for its strikes only after FAIL_CAP of them.     *)
GivenUpIsStuck == \A t \in Task : result[t] = "INVALID_EVIDENCE" => Stuck(t)

(* A grade once recorded stays, although a stale view makes the driver run *)
(* the attempt again, a hand edit closes it under a thread, or a verb that *)
(* timed out is offered twice.                                             *)
GradesStay ==
  [][\A t \in Task : st[t] \in {"VERIFIED", "INVALID_EVIDENCE"} => st'[t] = st[t]]_vars

(* While a completion is held for its review the attempt is not run again. *)
HeldNotRerun ==
  [][\A t \in Task : \A a \in 1..MaxAttempts :
       held[t][a] # "none" /\ live[t] # a => live'[t] # a]_vars

(* From the tick that notes a STOP or a RELOAD until it is over no row is  *)
(* claimed, and the code is swapped under no running thread.               *)
QuiescedMeansNoClaims ==
  [][/\ pending \/ stopping =>
          \A t \in Task : ~(st[t] = "READY" /\ st'[t] = "CLAIMED")
     /\ pc = "tick" /\ reload /\ ~reload' /\ up /\ pending' # pending => Live = {}]_vars

(* A row that was claimed is not lost: it closes, or its driver tells the  *)
(* operator that it is stuck, or a drain is holding it.                    *)
ClaimsAreServed ==
  \A t \in Task :
    st[t] \in Active ~> (st[t] \notin Active \/ Stuck(t) \/ drain \/ phase # "ACTIVE")

(* A requested reload is applied, or withdrawn, in the end: adoption goes  *)
(* on while it waits and does not keep it waiting.                         *)
ReloadIsApplied == pending ~> ~pending
=============================================================================
