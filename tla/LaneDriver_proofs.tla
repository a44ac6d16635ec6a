------------------------- MODULE LaneDriver_proofs -------------------------
(***************************************************************************)
(* Theorems about the v13 lane driver, for any rows, runners, limits and   *)
(* any number of faults, operator commands and crashes.                    *)
(***************************************************************************)
EXTENDS LaneDriver, FiniteSetTheorems, TLAPS

(* Attempts are numbered from one: a claimed or running row has one, as does *)
(* the copy of it that the walk reads, and no thread and no held       *)
(* completion is ahead of its row.                                         *)
NumberedAt(t) ==
  /\ st[t] \in Active => att[t] # 0
  /\ view[t].st \in Active => view[t].att # 0
  /\ view[t].att <= att[t] /\ live[t] <= att[t]
  /\ \A k \in 0..MaxAttempts : held[t][k] # "none" => k <= att[t]
Numbered == \A t \in Task : NumberedAt(t)

(* A thread has an attempt and, once its turn is over, an outcome.         *)
ThreadedAt(t) ==
  /\ live[t] = 0 <=> stage[t] = "idle"
  /\ result[t] # "none" <=> stage[t] = "close"
Threaded == \A t \in Task : ThreadedAt(t)

(* The row between claim and start: only a driver that is up and walks the *)
(* ready rows has one, no thread serves it, its strikes are those of the   *)
(* row, and no completion is held for its attempt.                         *)
StartingAt(t) ==
  /\ up /\ pc = "dispatch" /\ starting = {t}
  /\ live[t] = 0 /\ ~Stuck(t)
  /\ view[t].st = "CLAIMED" /\ view[t].att = att[t]
  /\ held[t][att[t]] = "none"
StartingIsOurs == \A t \in starting : StartingAt(t)

(* A thread works below FAIL_CAP; one that gives up has reached it.        *)
Worked == \A t \in Task : stage[t] \in {"open", "work"} => ~Stuck(t)

(* The slots and, of the limit on tasks, the place the claim holds.        *)
Counted ==
  /\ IsFiniteSet(Live)
  /\ SlotsMatchThreads
  /\ Cardinality(Live) + Cardinality(starting) <= MaxTasks

(* The walk over the ready rows is not entered under a STOP or a RELOAD.   *)
Quieted ==
  /\ stopping => pc \in {"tick", "look"}
  /\ pending /\ pc = "adopt" => draining
  /\ pending => pc \notin {"ready", "dispatch"}

DriverInv == TypeOK /\ Numbered /\ Threaded /\ StartingIsOurs /\ Worked /\ GivenUpIsStuck /\ Counted /\ Quieted
-----------------------------------------------------------------------------
(* Strikes.                                                                *)

LEMMA Bounds == DriverAssumption => /\ FailCap \in Nat \ {0} /\ MaxTasks \in Nat \ {0} /\ RunnerMax \in Nat \ {0}
                                    /\ MaxAttempts \in Nat /\ RunnerOf \in [Task -> Runner]
  BY DEF DriverAssumption

LEMMA CleanType == DriverAssumption => Clean \in Strikes /\ Clean.count < FailCap
<1>1. ASSUME DriverAssumption PROVE <<"none", 0>> \in Keys
  <2>1. 0 \in 0..MaxAttempts
    BY <1>1, Bounds
  <2>2. QED BY <2>1 DEF Keys
<1>2. ASSUME DriverAssumption PROVE 0 \in 0..FailCap /\ 0 < FailCap
  BY <1>2, Bounds
<1>3. QED BY <1>1, <1>2 DEF Clean, Strikes

(* A new count starts below FAIL_CAP, a count that goes on was below it.   *)
LEMMA EntryType ==
  ASSUME DriverAssumption, TypeOK, NEW t \in Task, NEW key \in Keys
  PROVE  /\ Entry(t, key) \in Strikes
         /\ ~Stuck(t) \/ fails[t].key # key => Entry(t, key).count < FailCap
<1>1. fails[t] \in Strikes
  BY DEF TypeOK
<1>2. [Clean EXCEPT !.key = key] \in Strikes /\ [Clean EXCEPT !.key = key].count < FailCap
  BY CleanType DEF Strikes
<1>3. QED BY <1>1, <1>2, Bounds DEF Entry, Stuck, Strikes

LEMMA StrikeType ==
  ASSUME DriverAssumption, TypeOK, NEW t \in Task, NEW key \in Keys,
         ~Stuck(t) \/ fails[t].key # key, Strike(t, key)
  PROVE  /\ fails' \in [Task -> Strikes]
         /\ fails'[t].count = Entry(t, key).count + 1
         /\ \A x \in Task \ {t} : fails'[x] = fails[x]
<1> DEFINE new == [key |-> key, count |-> Entry(t, key).count + 1, later |-> TRUE]
<1>1. Entry(t, key) \in Strikes /\ Entry(t, key).count < FailCap
  BY EntryType
<1>2. new \in Strikes
  BY <1>1, Bounds DEF Strikes
<1>3. fails' = [fails EXCEPT ![t] = new]
  BY DEF Strike
<1>4. QED BY <1>2, <1>3 DEF TypeOK

LEMMA HoldType ==
  ASSUME DriverAssumption, TypeOK, NEW t \in Task, NEW key \in Keys, Hold(t, key)
  PROVE  fails' \in [Task -> Strikes] /\ \A x \in Task \ {t} : fails'[x] = fails[x]
<1>1. Entry(t, key) \in Strikes
  BY EntryType
<1>2. [Entry(t, key) EXCEPT !.later = TRUE] \in Strikes
  BY <1>1 DEF Strikes
<1>3. QED BY <1>2 DEF TypeOK, Hold

(* What _backed_off leaves is below FAIL_CAP for a row it lets through.    *)
LEMMA ForgottenType ==
  ASSUME DriverAssumption, TypeOK, NEW t \in Task, NEW key
  PROVE  /\ Forgotten(t, key) \in [Task -> Strikes]
         /\ \A x \in Task \ {t} : Forgotten(t, key)[x] = fails[x]
         /\ ~BackedOff(t, key) => Forgotten(t, key)[t].count < FailCap
         /\ fails[t].count < FailCap => Forgotten(t, key)[t].count < FailCap
<1>1. fails[t] \in Strikes /\ fails[t].count \in Nat
  <2>1. fails[t] \in Strikes
    BY DEF TypeOK
  <2>2. QED BY <2>1, Bounds DEF Strikes
<1>2. ~Stuck(t) => fails[t].count < FailCap
  BY <1>1, Bounds DEF Stuck
<1>3. CASE fails[t].key = key
  BY <1>2, <1>3 DEF Forgotten, BackedOff, TypeOK
<1>4. CASE fails[t].key # key
  BY <1>4, CleanType DEF Forgotten, TypeOK
<1>5. QED BY <1>3, <1>4

LEMMA KeyType ==
  ASSUME DriverAssumption, TypeOK, NEW k \in 0..MaxAttempts
  PROVE  AttemptKey(k) \in Keys /\ <<"ready", k>> \in Keys
  BY DEF AttemptKey, Keys

-----------------------------------------------------------------------------
(* Types.  They need the other parts: a row is struck only while below   *)
(* FAIL_CAP, and an attempt that closes has an outcome.                    *)

LEMMA ViewType ==
  ASSUME TypeOK, NEW t \in Task
  PROVE  /\ view[t].st \in Rows /\ view[t].att \in 0..MaxAttempts /\ att[t] \in 0..MaxAttempts
         /\ live[t] \in 0..MaxAttempts /\ st[t] \in Rows
         /\ \A k \in 0..MaxAttempts : held[t][k] \in Outcomes \cup {"none"}
<1>1. /\ view[t] \in [st : Rows, att : 0..MaxAttempts] /\ st[t] \in Rows
      /\ att[t] \in 0..MaxAttempts /\ live[t] \in 0..MaxAttempts
  BY DEF TypeOK
<1>2. held[t] \in [0..MaxAttempts -> Outcomes \cup {"none"}]
  BY DEF TypeOK
<1>3. QED BY <1>1, <1>2

LEMMA MoveType ==
  ASSUME TypeOK, NEW t \in Task, NEW to \in Rows, MoveRow(t, to)
  PROVE  /\ st' \in [Task -> Rows]
         /\ phase' = phase /\ att' = att /\ reviewed' = reviewed
  BY DEF TypeOK, MoveRow

LEMMA ClaimType ==
  ASSUME DriverAssumption, TypeOK, NEW t \in Task, att[t] < MaxAttempts, ClaimRow(t)
  PROVE  /\ st' \in [Task -> Rows] /\ att' \in [Task -> 0..MaxAttempts]
         /\ phase' = phase /\ reviewed' = reviewed
         /\ att'[t] = att[t] + 1 /\ att[t] + 1 \in 0..MaxAttempts
<1>1. att[t] + 1 \in 0..MaxAttempts
  <2>1. att[t] \in 0..MaxAttempts /\ MaxAttempts \in Nat
    BY ViewType, Bounds
  <2>2. QED BY <2>1
<1>2. QED BY <1>1 DEF TypeOK, ClaimRow, Rows, Active

LEMMA SlotType ==
  ASSUME DriverAssumption, TypeOK, NEW t \in Task
  PROVE  /\ Acquire(t) => slots' \in [Runner -> Nat]
         /\ Release(t) => slots' \in [Runner -> Nat]
<1>1. RunnerOf[t] \in Runner /\ slots \in [Runner -> Nat] /\ slots[RunnerOf[t]] \in Nat
  BY Bounds DEF TypeOK
<1>2. Released(RunnerOf[t]) \in Nat
  BY <1>1 DEF Released
<1>3. QED BY <1>1, <1>2 DEF Acquire, Release

LEMMA ControlOnly ==
  ASSUME TypeOK, NEW t \in Task,
         \/ UNCHANGED control
         \/ \E k : StartAllowed(t, k) /\ MoveRow(t, "RUNNING")
  PROVE  /\ st' \in [Task -> Rows]
         /\ phase' = phase /\ att' = att /\ reviewed' = reviewed
  BY DEF TypeOK, control, MoveRow, Rows, Active

(* The fields of TypeOK that a step of the walk moves.                     *)
LEMMA SpawnType ==
  ASSUME DriverAssumption, TypeOK, NEW t \in Task, NEW k \in 0..MaxAttempts, NEW s \in Stages, Spawn(t, k, s)
  PROVE  /\ slots' \in [Runner -> Nat] /\ live' \in [Task -> 0..MaxAttempts] /\ stage' \in [Task -> Stages]
         /\ result' = result /\ parked' = parked
  BY SlotType DEF TypeOK, Spawn

LEMMA LeaveType ==
  ASSUME DriverAssumption, TypeOK, NEW t \in Task, Leave(t)
  PROVE  /\ slots' \in [Runner -> Nat] /\ live' \in [Task -> 0..MaxAttempts] /\ stage' \in [Task -> Stages]
         /\ result' \in [Task -> Outcomes \cup {"none"}]
<1>1. 0 \in 0..MaxAttempts
  BY Bounds
<1>2. QED BY <1>1, SlotType DEF TypeOK, Leave, Stages

LEMMA ForgetType ==
  ASSUME DriverAssumption, Forget
  PROVE  /\ slots' \in [Runner -> Nat] /\ live' \in [Task -> 0..MaxAttempts] /\ stage' \in [Task -> Stages]
         /\ result' \in [Task -> Outcomes \cup {"none"}] /\ parked' = {} /\ fails' \in [Task -> Strikes]
<1>1. 0 \in 0..MaxAttempts
  BY Bounds
<1>2. QED BY <1>1, CleanType DEF Forget, Stages

LEMMA UnreadType == DriverAssumption => Unread \in [Task -> [st : Rows, att : 0..MaxAttempts]]
  BY Bounds DEF Unread, Rows

LEMMA TickType ==
  ASSUME DriverAssumption, TypeOK,
         TickHead \/ StopStep \/ DrainExpires \/ Look \/ AdoptEnd \/ ReadyVerb \/ DispatchEnd
  PROVE  TypeOK'
<1> USE DEF TypeOK, control, files, driver, flags, threads, budgets
<1>1. CASE TickHead
  <2>1. fails' \in [Task -> Strikes]
    <3>1. ASSUME NEW ok \in BOOLEAN, HotReload(ok) PROVE fails' \in [Task -> Strikes]
      BY <3>1, CleanType DEF HotReload
    <3>2. QED BY <1>1, <3>1 DEF TickHead, ReloadStep
  <2>2. /\ {reload', pending', reloadFailed'} \subseteq BOOLEAN /\ pc' \in {"tick", "look"}
    BY <1>1 DEF TickHead, ReloadStep, HotReload, AfterWithdrawal
  <2>3. reconciled' \in BOOLEAN /\ stopping' \in BOOLEAN /\ heartbeat' \subseteq Task
    BY <1>1 DEF TickHead, Live
  <2>4. QED BY <1>1, <2>1, <2>2, <2>3 DEF TickHead
<1>2. CASE StopStep
  <2>1. heartbeat' \subseteq Task /\ up' \in BOOLEAN /\ abort' \in BOOLEAN
    BY <1>2 DEF StopStep
  <2>2. QED BY <1>2, <2>1 DEF StopStep
<1>3. CASE DrainExpires
  BY <1>3 DEF DrainExpires
<1>4. CASE Look
  <2>1. draining' \in BOOLEAN
    BY <1>4 DEF Look, Quiescing
  <2>2. view' \in [Task -> [st : Rows, att : 0..MaxAttempts]]
    BY <1>4 DEF Look
  <2>3. QED BY <1>4, <2>1, <2>2 DEF Look
<1>5. CASE AdoptEnd
  BY <1>5, UnreadType DEF AdoptEnd, TickOver
<1>6. CASE ReadyVerb
  BY <1>6, UnreadType DEF ReadyVerb, TickOver
<1>7. CASE DispatchEnd
  BY <1>7, UnreadType DEF DispatchEnd, TickOver, Live
<1>8. QED BY <1>1, <1>2, <1>3, <1>4, <1>5, <1>6, <1>7

LEMMA AdoptType ==
  ASSUME DriverAssumption, TypeOK, NEW t \in Task,
         AdoptSkip(t) \/ GateHoldRetry(t) \/ AdoptRunning(t) \/ AdoptClaimed(t)
  PROVE  TypeOK'
<1> DEFINE k == view[t].att
<1>0. k \in 0..MaxAttempts /\ AttemptKey(k) \in Keys
  BY ViewType, KeyType
<1> HIDE DEF k
<1>a. ASSUME Orphan(t) PROVE ~Stuck(t) \/ fails[t].key # AttemptKey(view[t].att)
  BY <1>a DEF Orphan, BackedOff
<1>1. CASE AdoptSkip(t)
  <2>1. fails' \in [Task -> Strikes]
    BY <1>1, ForgottenType DEF AdoptSkip, TypeOK
  <2>2. QED BY <1>1, <2>1 DEF AdoptSkip, Walked, TypeOK, control, files, flags, budgets
<1>2. CASE GateHoldRetry(t)
  <2>1. fails' \in [Task -> Strikes]
    BY <1>2, ForgottenType DEF GateHoldRetry
  <2>2. st' \in [Task -> Rows] /\ phase' = phase /\ att' = att /\ reviewed' = reviewed
    <3>1. HeldFor(t) \in Outcomes
      BY <1>2, ViewType DEF GateHoldRetry, HeldFor
    <3>2. HeldFor(t) \in Rows
      BY <3>1 DEF Rows
    <3>3. CASE MoveRow(t, HeldFor(t))
      BY <3>2, <3>3, MoveType
    <3>4. CASE UNCHANGED control
      BY <3>4 DEF control, TypeOK
    <3>5. QED BY <1>2, <3>3, <3>4 DEF GateHoldRetry
  <2>3. held' \in [Task -> [0..MaxAttempts -> Outcomes \cup {"none"}]]
    <3>1. CASE held' = [held EXCEPT ![t][k] = "none"]
      BY <1>0, <3>1 DEF TypeOK
    <3>2. CASE held' = held
      BY <3>2 DEF TypeOK
    <3>3. QED BY <1>2, <3>1, <3>2 DEF GateHoldRetry, k
  <2>4. QED BY <1>2, <2>1, <2>2, <2>3 DEF GateHoldRetry, Walked, TypeOK, flags
<1>3. CASE AdoptRunning(t)
  <2>1. fails' \in [Task -> Strikes]
    BY <1>3, ForgottenType DEF AdoptRunning
  <2>2. Spawn(t, k, "work") \/ Spawn(t, k, "open")
    BY <1>3 DEF AdoptRunning, k
  <2>3. /\ slots' \in [Runner -> Nat] /\ live' \in [Task -> 0..MaxAttempts] /\ stage' \in [Task -> Stages]
        /\ result' = result /\ parked' = parked
    BY <1>0, <2>2, SpawnType DEF Stages
  <2>4. QED BY <1>3, <2>1, <2>3 DEF AdoptRunning, Walked, TypeOK, control, files, flags, budgets
<1>4. CASE AdoptClaimed(t)
  <2>1. fails' \in [Task -> Strikes]
    <3>1. CASE fails' = Forgotten(t, AttemptKey(view[t].att))
      BY <3>1, ForgottenType
    <3>2. CASE Strike(t, AttemptKey(k))
      BY <1>0, <1>4, <1>a, <3>2, StrikeType DEF AdoptClaimed, k
    <3>3. QED BY <1>4, <3>1, <3>2 DEF AdoptClaimed, k
  <2>2. st' \in [Task -> Rows] /\ phase' = phase /\ att' = att /\ reviewed' = reviewed
    <3>1. UNCHANGED control \/ (StartAllowed(t, k) /\ MoveRow(t, "RUNNING"))
      BY <1>4 DEF AdoptClaimed, k
    <3>2. QED BY <3>1, ControlOnly
  <2>3. /\ slots' \in [Runner -> Nat] /\ live' \in [Task -> 0..MaxAttempts] /\ stage' \in [Task -> Stages]
        /\ result' = result /\ parked' = parked
    <3>1. CASE Spawn(t, k, "work")
      BY <1>0, <3>1, SpawnType DEF Stages
    <3>2. CASE UNCHANGED <<live, stage, result, slots, parked>>
      BY <3>2 DEF TypeOK
    <3>3. QED BY <1>4, <3>1, <3>2 DEF AdoptClaimed, k
  <2>4. QED BY <1>4, <2>1, <2>2, <2>3 DEF AdoptClaimed, Walked, TypeOK, files, flags
<1>5. QED BY <1>1, <1>2, <1>3, <1>4

LEMMA DispatchType ==
  ASSUME DriverAssumption, TypeOK, Numbered, StartingIsOurs, NEW t \in Task,
         DispatchSkip(t) \/ DispatchClaim(t) \/ DispatchRefused(t) \/ DispatchStart(t)
  PROVE  TypeOK'
<1>0. att[t] \in 0..MaxAttempts /\ ReadyKey(t) \in Keys /\ view[t].att \in 0..MaxAttempts
  BY ViewType, KeyType DEF ReadyKey
<1>a. ~BackedOff(t, ReadyKey(t)) => ~Stuck(t) \/ fails[t].key # ReadyKey(t)
  BY DEF BackedOff
<1>1. CASE DispatchSkip(t)
  <2>1. fails' \in [Task -> Strikes]
    BY <1>1, ForgottenType DEF DispatchSkip, TypeOK
  <2>2. QED BY <1>1, <2>1 DEF DispatchSkip, Walked, TypeOK, control, files, flags, budgets
<1>2. CASE DispatchClaim(t)
  <2>1. fails' \in [Task -> Strikes]
    BY <1>2, ForgottenType DEF DispatchClaim
  <2>2. /\ st' \in [Task -> Rows] /\ att' \in [Task -> 0..MaxAttempts] /\ phase' = phase /\ reviewed' = reviewed
        /\ att'[t] = att[t] + 1 /\ att[t] + 1 \in 0..MaxAttempts
    BY <1>2, ClaimType DEF DispatchClaim
  <2>3. view' \in [Task -> [st : Rows, att : 0..MaxAttempts]]
    <3>1. [st |-> "CLAIMED", att |-> att'[t]] \in [st : Rows, att : 0..MaxAttempts]
      BY <2>2 DEF Rows, Active
    <3>2. QED BY <1>2, <3>1 DEF DispatchClaim, Marked, TypeOK
  <2>4. /\ slots' \in [Runner -> Nat] /\ live' \in [Task -> 0..MaxAttempts] /\ stage' \in [Task -> Stages]
        /\ result' = result /\ parked' = parked /\ starting' \subseteq Task
    <3>1. CASE t \in Late
      <4>1. Spawn(t, att[t] + 1, "open") /\ starting' = starting
        BY <1>2, <3>1 DEF DispatchClaim
      <4>2. QED BY <2>2, <4>1, SpawnType DEF Stages, TypeOK
    <3>2. CASE t \notin Late
      BY <1>2, <3>2, SlotType DEF DispatchClaim, TypeOK
    <3>3. QED BY <3>1, <3>2
  <2>5. QED BY <1>2, <2>1, <2>2, <2>3, <2>4 DEF DispatchClaim, TypeOK, files, flags
<1>3. CASE DispatchRefused(t)
  <2>1. fails' \in [Task -> Strikes]
    <3>1. CASE Strike(t, ReadyKey(t))
      BY <1>0, <1>3, <1>a, <3>1, StrikeType DEF DispatchRefused, Claimable
    <3>2. QED BY <1>3, <3>1, ForgottenType DEF DispatchRefused
  <2>2. st' \in [Task -> Rows] /\ att' \in [Task -> 0..MaxAttempts] /\ phase' = phase /\ reviewed' = reviewed
    <3>1. CASE UNCHANGED control
      BY <3>1 DEF control, TypeOK
    <3>2. CASE att[t] < MaxAttempts /\ ClaimRow(t)
      BY <3>2, ClaimType
    <3>3. QED BY <1>3, <3>1, <3>2 DEF DispatchRefused
  <2>3. QED BY <1>3, <2>1, <2>2 DEF DispatchRefused, AfterRefusal, Walked, TypeOK, files, flags
<1>4. CASE DispatchStart(t)
  <2>0. /\ t \in starting /\ view[t].att # 0 /\ view[t].att - 1 \in 0..MaxAttempts /\ ~Stuck(t)
        /\ <<"ready", view[t].att - 1>> \in Keys
    <3>1. t \in starting /\ view[t].att # 0 /\ ~Stuck(t)
      BY <1>4 DEF DispatchStart, StartingIsOurs, StartingAt, Numbered, NumberedAt, Active
    <3>2. view[t].att - 1 \in 0..MaxAttempts
      BY <1>0, <3>1, Bounds
    <3>3. QED BY <3>1, <3>2, KeyType
  <2>1. fails' \in [Task -> Strikes]
    <3>1. CASE Strike(t, <<"ready", view[t].att - 1>>)
      BY <2>0, <3>1, StrikeType
    <3>2. CASE fails' = fails
      BY <3>2 DEF TypeOK
    <3>3. QED BY <1>4, <3>1, <3>2 DEF DispatchStart
  <2>2. st' \in [Task -> Rows] /\ phase' = phase /\ att' = att /\ reviewed' = reviewed
    <3>1. UNCHANGED control \/ (StartAllowed(t, view[t].att) /\ MoveRow(t, "RUNNING"))
      BY <1>4 DEF DispatchStart
    <3>2. QED BY <3>1, ControlOnly
  <2>3. slots' \in [Runner -> Nat] /\ live' \in [Task -> 0..MaxAttempts] /\ stage' \in [Task -> Stages]
    <3>1. CASE Release(t) /\ UNCHANGED <<live, stage>>
      BY <3>1, SlotType DEF TypeOK
    <3>2. CASE ~(Release(t) /\ UNCHANGED <<live, stage>>)
      BY <1>0, <1>4, <3>2 DEF DispatchStart, TypeOK, Stages
    <3>3. QED BY <3>1, <3>2
  <2>4. QED BY <1>4, <2>1, <2>2, <2>3 DEF DispatchStart, TypeOK, files, flags
<1>5. QED BY <1>1, <1>2, <1>3, <1>4

LEMMA ThreadType ==
  ASSUME DriverAssumption, TypeOK, Threaded, Worked, NEW t \in Task, ThreadStep(t)
  PROVE  TypeOK'
<1>0. live[t] \in 0..MaxAttempts /\ Key(t) \in Keys
  BY ViewType, KeyType DEF Key
<1>a. Entry(t, Key(t)).count \in 0..FailCap
  BY <1>0, EntryType DEF Strikes
<1>b. stage[t] \in {"open", "work"} => ~Stuck(t)
  BY DEF Worked
<1>1. CASE Open(t)
  <2>1. fails' \in [Task -> Strikes]
    <3>1. CASE Strike(t, Key(t))
      BY <1>0, <1>1, <1>b, <3>1, StrikeType DEF Open
    <3>2. QED BY <1>1, <3>1 DEF Open, TypeOK
  <2>2. st' \in [Task -> Rows] /\ phase' = phase /\ att' = att /\ reviewed' = reviewed
    <3>1. UNCHANGED control \/ (StartAllowed(t, live[t]) /\ MoveRow(t, "RUNNING"))
      BY <1>1 DEF Open
    <3>2. QED BY <3>1, ControlOnly
  <2>3. /\ slots' \in [Runner -> Nat] /\ live' \in [Task -> 0..MaxAttempts] /\ stage' \in [Task -> Stages]
        /\ result' \in [Task -> Outcomes \cup {"none"}]
    <3>1. CASE Leave(t)
      BY <3>1, LeaveType
    <3>2. Leave(t) \/ (stage' = [stage EXCEPT ![t] = "work"] /\ UNCHANGED <<live, result, slots>>)
      BY <1>1 DEF Open
    <3>3. CASE stage' = [stage EXCEPT ![t] = "work"] /\ UNCHANGED <<live, result, slots>>
      BY <3>3 DEF TypeOK, Stages
    <3>4. QED BY <3>1, <3>2, <3>3
  <2>4. QED BY <1>1, <2>1, <2>2, <2>3 DEF Open, TypeOK, files, driver, flags
<1>2. CASE Answer(t)
  <2>1. result' \in [Task -> Outcomes \cup {"none"}]
    BY <1>2 DEF Answer, TypeOK, Outcomes
  <2>2. fails' \in [Task -> Strikes] /\ stage' \in [Task -> Stages]
    BY <1>2, CleanType DEF Answer, TypeOK, Stages
  <2>3. QED BY <1>2, <2>1, <2>2 DEF Answer, TypeOK, control, files, driver, flags, budgets
<1>3. CASE Fail(t)
  <2>1. fails' \in [Task -> Strikes]
    BY <1>0, <1>3, <1>b, StrikeType DEF Fail
  <2>2. /\ slots' \in [Runner -> Nat] /\ live' \in [Task -> 0..MaxAttempts] /\ stage' \in [Task -> Stages]
        /\ result' \in [Task -> Outcomes \cup {"none"}]
    <3>1. CASE Leave(t)
      BY <3>1, LeaveType
    <3>2. CASE ~Leave(t)
      BY <1>3, <3>2 DEF Fail, TypeOK, Stages, Outcomes
    <3>3. QED BY <3>1, <3>2
  <2>3. QED BY <1>3, <2>1, <2>2 DEF Fail, TypeOK, control, files, driver, flags
<1>4. CASE Interrupted(t)
  <2>1. fails' \in [Task -> Strikes] /\ parked' \subseteq Runner
    <3>1. CASE Hold(t, Key(t)) /\ UNCHANGED parked
      BY <1>0, <3>1, HoldType DEF TypeOK
    <3>2. QED BY <1>4, <3>1, Bounds DEF Interrupted, TypeOK
  <2>2. QED BY <1>4, <2>1, LeaveType DEF Interrupted, TypeOK, control, files, driver, flags
<1>5. CASE Close(t)
  <2>0. result[t] \in Outcomes /\ result[t] \in Rows
    <3>1. result[t] \in Outcomes \cup {"none"} /\ result[t] # "none"
      BY <1>5 DEF Close, Threaded, ThreadedAt, TypeOK
    <3>2. QED BY <3>1 DEF Rows
  <2>1. st' \in [Task -> Rows] /\ phase' = phase /\ att' = att /\ reviewed' = reviewed
    <3>1. CASE MoveRow(t, result[t])
      BY <2>0, <3>1, MoveType
    <3>2. CASE UNCHANGED control
      BY <3>2 DEF control, TypeOK
    <3>3. QED BY <1>5, <3>1, <3>2 DEF Close
  <2>2. held' \in [Task -> [0..MaxAttempts -> Outcomes \cup {"none"}]]
    <3>1. CASE held' = [held EXCEPT ![t][live[t]] = result[t]]
      BY <1>0, <2>0, <3>1 DEF TypeOK
    <3>2. CASE held' = held
      BY <3>2 DEF TypeOK
    <3>3. QED BY <1>5, <3>1, <3>2 DEF Close
  <2>3. QED BY <1>5, <2>1, <2>2, LeaveType DEF Close, TypeOK, driver, flags
<1>6. QED BY <1>1, <1>2, <1>3, <1>4, <1>5 DEF ThreadStep

LEMMA AroundType ==
  ASSUME DriverAssumption, TypeOK,
         \/ Wait \/ Request \/ Crash \/ Restart
         \/ \E t \in Task : RecordReview(t) \/ ItemComplete(t) \/ ItemUnblock(t)
  PROVE  TypeOK'
<1>1. CASE Wait
  <2>1. fails' \in [Task -> Strikes] /\ parked' \subseteq Runner
    <3>1. ASSUME NEW t \in Task, fails' = [fails EXCEPT ![t].later = FALSE] PROVE fails' \in [Task -> Strikes]
      <4>1. fails[t] \in Strikes
        BY DEF TypeOK
      <4>2. [fails[t] EXCEPT !.later = FALSE] \in Strikes
        BY <4>1 DEF Strikes
      <4>3. fails' = [fails EXCEPT ![t] = [fails[t] EXCEPT !.later = FALSE]]
        BY <3>1 DEF TypeOK
      <4>4. QED BY <4>2, <4>3 DEF TypeOK
    <3>2. QED BY <1>1, <3>1 DEF Wait, TypeOK
  <2>2. QED BY <1>1, <2>1 DEF Wait, TypeOK, control, files, driver, flags, budgets
<1>2. CASE Request
  <2>1. drain' \in BOOLEAN /\ reload' \in BOOLEAN /\ stop' \in BOOLEAN /\ phase' \in {"ACTIVE", "DRAINING"}
    BY <1>2 DEF Request, TypeOK
  <2>2. QED BY <1>2, <2>1 DEF Request, Operator, TypeOK, driver, flags, threads
<1>3. CASE Crash
  BY <1>3, ForgetType, UnreadType DEF Crash, TickOver, TypeOK, control, files, flags
<1>4. CASE Restart
  BY <1>4, ForgetType DEF Restart, TypeOK, control, budgets
<1>5. ASSUME NEW t \in Task, RecordReview(t) PROVE TypeOK'
  BY <1>5 DEF RecordReview, TypeOK, files, driver, flags, threads, budgets
<1>6. ASSUME NEW t \in Task, ItemComplete(t) PROVE TypeOK'
  <2>1. st' \in [Task -> Rows] /\ phase' = phase /\ att' = att /\ reviewed' = reviewed
    BY <1>6, MoveType DEF ItemComplete, Rows, Outcomes
  <2>2. QED BY <1>6, <2>1 DEF ItemComplete, TypeOK, files, driver, flags, threads
<1>7. ASSUME NEW t \in Task, ItemUnblock(t) PROVE TypeOK'
  <2>1. st' \in [Task -> Rows] /\ phase' = phase /\ att' = att /\ reviewed' = reviewed
    BY <1>7, MoveType DEF ItemUnblock, Rows
  <2>2. QED BY <1>7, <2>1 DEF ItemUnblock, TypeOK, files, driver, flags, threads
<1>8. QED BY <1>1, <1>2, <1>3, <1>4, <1>5, <1>6, <1>7

LEMMA TypeStep == ASSUME DriverAssumption, DriverInv, [Next]_vars PROVE TypeOK'
<1>1. CASE Next
  BY <1>1, TickType, AdoptType, DispatchType, ThreadType, AroundType DEF Next, DriverStep, DriverInv
<1>2. CASE UNCHANGED vars
  BY <1>2 DEF vars, DriverInv, TypeOK, control, files, driver, flags, threads, budgets
<1>3. QED BY <1>1, <1>2

-----------------------------------------------------------------------------
(* Attempts are numbered.                                                  *)

LEMMA NumberedKept ==
  ASSUME Numbered, NEW x \in Task,
         st'[x] = st[x] \/ st'[x] \notin Active, att' = att, view' = view \/ view' = Unread,
         live'[x] = live[x] \/ live'[x] = 0, held' = held, att[x] \in Nat
  PROVE  NumberedAt(x)'
<1>1. NumberedAt(x)
  BY DEF Numbered
<1>2. view'[x] = view[x] \/ (view'[x].st \notin Active /\ view'[x].att = 0)
  BY DEF Unread, Active
<1>3. QED BY <1>1, <1>2 DEF NumberedAt

LEMMA NumberedStep == ASSUME DriverAssumption, DriverInv, Next PROVE Numbered'
<1> SUFFICES ASSUME NEW x \in Task PROVE NumberedAt(x)'
  BY DEF Numbered
<1>0. /\ NumberedAt(x) /\ att[x] \in Nat /\ att[x] \in 0..MaxAttempts /\ live[x] \in Nat /\ view[x].att \in Nat
      /\ TypeOK /\ view[x].att \in 0..MaxAttempts /\ live[x] \in 0..MaxAttempts
  BY ViewType, Bounds DEF Numbered, DriverInv
<1>1. CASE TickHead \/ StopStep \/ DrainExpires \/ AdoptEnd \/ ReadyVerb \/ DispatchEnd \/ Wait \/ Request
  <2>1. /\ st' = st /\ att' = att /\ live' = live /\ held' = held
        /\ view' = view \/ view' = Unread
    BY <1>1 DEF TickHead, StopStep, DrainExpires, AdoptEnd, ReadyVerb, DispatchEnd, Wait, Request, TickOver,
                control, files, driver, flags, threads
  <2>2. QED BY <1>0, <2>1, NumberedKept DEF DriverInv
<1>2. CASE Look
  <2>1. view'[x].st = st[x] /\ view'[x].att = att[x]
    BY <1>2 DEF Look
  <2>2. st' = st /\ att' = att /\ live' = live /\ held' = held
    BY <1>2 DEF Look, control, files, threads
  <2>3. QED BY <1>0, <2>1, <2>2 DEF NumberedAt
<1>3. ASSUME NEW t \in Task, AdoptSkip(t) \/ DispatchSkip(t) \/ Answer(t) \/ RecordReview(t) PROVE NumberedAt(x)'
  <2>1. st' = st /\ att' = att /\ live' = live /\ held' = held /\ view' = view
    BY <1>3 DEF AdoptSkip, DispatchSkip, Answer, RecordReview, Walked, control, files, driver, threads
  <2>2. QED BY <1>0, <2>1, NumberedKept DEF DriverInv
<1>4. ASSUME NEW t \in Task, GateHoldRetry(t) PROVE NumberedAt(x)'
  <2>1. HeldFor(t) \notin Active /\ view[t].att \in 0..MaxAttempts
    BY <1>0, <1>4, ViewType DEF GateHoldRetry, HeldFor, Active, Outcomes
  <2>2. (st'[x] = st[x] \/ st'[x] \notin Active) /\ att' = att
    BY <1>0, <1>4, <2>1 DEF GateHoldRetry, MoveRow, control, TypeOK
  <2>3. \A k \in 0..MaxAttempts : held'[x][k] # "none" => held[x][k] # "none"
    <3>1. held \in [Task -> [0..MaxAttempts -> Outcomes \cup {"none"}]]
      BY <1>0 DEF TypeOK
    <3>2. held' = held \/ held' = [held EXCEPT ![t][view[t].att] = "none"]
      BY <1>4 DEF GateHoldRetry
    <3>3. QED BY <2>1, <3>1, <3>2
  <2>4. live' = live /\ view' = view
    BY <1>4 DEF GateHoldRetry, Walked
  <2>5. QED BY <1>0, <2>2, <2>3, <2>4 DEF NumberedAt
<1>5. ASSUME NEW t \in Task, AdoptRunning(t) \/ AdoptClaimed(t) PROVE NumberedAt(x)'
  <2>1. live'[x] = live[x] \/ live'[x] = view[x].att
    BY <1>0, <1>5 DEF AdoptRunning, AdoptClaimed, Spawn, TypeOK
  <2>2. (st'[x] \in Active => st[x] \in Active) /\ att' = att /\ held' = held /\ view' = view
    <3>1. UNCHANGED control \/ (st[t] = "CLAIMED" /\ MoveRow(t, "RUNNING"))
      BY <1>5 DEF AdoptRunning, AdoptClaimed, StartAllowed
    <3>2. QED BY <1>0, <1>5, <3>1 DEF AdoptRunning, AdoptClaimed, MoveRow, control, files, Walked, Active, TypeOK
  <2>3. QED BY <1>0, <2>1, <2>2 DEF NumberedAt
<1>6. ASSUME NEW t \in Task, DispatchClaim(t) PROVE NumberedAt(x)'
  <2>1. CASE x = t
    <3>1. att'[x] = att[x] + 1 /\ held' = held
      BY <1>0, <1>6, <2>1 DEF DispatchClaim, ClaimRow, files, TypeOK
    <3>2. view'[x].att = att'[x]
      BY <1>0, <1>6, <2>1 DEF DispatchClaim, Marked, TypeOK
    <3>3. live'[x] = live[x] \/ live'[x] = att'[x]
      BY <1>0, <1>6, <2>1, <3>1 DEF DispatchClaim, Spawn, TypeOK
    <3>4. QED BY <1>0, <3>1, <3>2, <3>3 DEF NumberedAt
  <2>2. CASE x # t
    <3>1. st'[x] = st[x] /\ att'[x] = att[x] /\ live'[x] = live[x] /\ view'[x] = view[x] /\ held' = held
      BY <1>0, <1>6, <2>2 DEF DispatchClaim, ClaimRow, Marked, Spawn, files, TypeOK
    <3>2. QED BY <1>0, <3>1 DEF NumberedAt
  <2>3. QED BY <2>1, <2>2
<1>7. ASSUME NEW t \in Task, DispatchRefused(t) PROVE NumberedAt(x)'
  <2>1. /\ st'[x] = st[x] /\ att'[x] = att[x]
        \/ att'[x] = att[x] + 1
    BY <1>0, <1>7 DEF DispatchRefused, ClaimRow, control, TypeOK
  <2>2. live' = live /\ view' = view /\ held' = held
    BY <1>7 DEF DispatchRefused, Walked, files
  <2>3. QED BY <1>0, <2>1, <2>2 DEF NumberedAt
<1>8. ASSUME NEW t \in Task, DispatchStart(t) PROVE NumberedAt(x)'
  <2>1. live'[x] = live[x] \/ live'[x] = view[x].att
    BY <1>0, <1>8 DEF DispatchStart, TypeOK
  <2>2. (st'[x] \in Active => st[x] \in Active) /\ att' = att /\ held' = held /\ view' = view
    <3>1. UNCHANGED control \/ (st[t] = "CLAIMED" /\ MoveRow(t, "RUNNING"))
      BY <1>8 DEF DispatchStart, StartAllowed
    <3>2. QED BY <1>0, <1>8, <3>1 DEF DispatchStart, MoveRow, control, files, Active, TypeOK
  <2>3. QED BY <1>0, <2>1, <2>2 DEF NumberedAt
<1>9. ASSUME NEW t \in Task, Open(t) \/ Fail(t) \/ Interrupted(t) PROVE NumberedAt(x)'
  <2>1. live'[x] = live[x] \/ live'[x] = 0
    BY <1>0, <1>9 DEF Open, Fail, Interrupted, Leave, TypeOK
  <2>2. (st'[x] \in Active => st[x] \in Active) /\ att' = att /\ held' = held /\ view' = view
    <3>1. UNCHANGED control \/ (st[t] = "CLAIMED" /\ MoveRow(t, "RUNNING"))
      BY <1>9 DEF Open, Fail, Interrupted, StartAllowed
    <3>2. QED BY <1>0, <1>9, <3>1 DEF Open, Fail, Interrupted, MoveRow, control, files, driver, Active, TypeOK
  <2>3. QED BY <1>0, <2>1, <2>2 DEF NumberedAt
<1>10. ASSUME NEW t \in Task, Close(t) PROVE NumberedAt(x)'
  <2>1. result[t] \notin Active /\ live[t] \in 0..MaxAttempts
    BY <1>0, ViewType DEF TypeOK, Active, Outcomes
  <2>2. (st'[x] = st[x] \/ st'[x] \notin Active) /\ att' = att /\ view' = view
    BY <1>0, <1>10, <2>1 DEF Close, MoveRow, control, driver, TypeOK
  <2>3. live'[x] = live[x] \/ live'[x] = 0
    BY <1>0, <1>10 DEF Close, Leave, TypeOK
  <2>4. \A k \in 0..MaxAttempts : held'[x][k] # "none" => held[x][k] # "none" \/ k = live[x]
    <3>1. held \in [Task -> [0..MaxAttempts -> Outcomes \cup {"none"}]]
      BY <1>0 DEF TypeOK
    <3>2. held' = held \/ held' = [held EXCEPT ![t][live[t]] = result[t]]
      BY <1>10 DEF Close
    <3>3. QED BY <2>1, <3>1, <3>2
  <2>5. QED BY <1>0, <2>2, <2>3, <2>4 DEF NumberedAt
<1>11. ASSUME NEW t \in Task, ItemComplete(t) \/ ItemUnblock(t) PROVE NumberedAt(x)'
  <2>1. st'[x] = st[x] \/ st'[x] \notin Active
    BY <1>0, <1>11 DEF ItemComplete, ItemUnblock, MoveRow, TypeOK, Active
  <2>2. att' = att /\ live' = live /\ held' = held /\ view' = view
    BY <1>11 DEF ItemComplete, ItemUnblock, MoveRow, files, driver, threads
  <2>3. QED BY <1>0, <2>1, <2>2, NumberedKept DEF DriverInv
<1>12. CASE Crash \/ Restart
  <2>1. /\ st' = st /\ att' = att /\ live'[x] = 0 /\ held' = held
        /\ view' = view \/ view' = Unread
    BY <1>12 DEF Crash, Restart, Forget, TickOver, control, files
  <2>2. QED BY <1>0, <2>1, NumberedKept DEF DriverInv
<1>13. QED BY <1>1, <1>2, <1>3, <1>4, <1>5, <1>6, <1>7, <1>8, <1>9, <1>10, <1>11, <1>12
           DEF Next, DriverStep, ThreadStep

-----------------------------------------------------------------------------
(* Threads.                                                                *)

(* The steps that start and end no thread and hold no place.               *)
Apart ==
  \/ TickHead \/ StopStep \/ DrainExpires \/ Look \/ AdoptEnd \/ ReadyVerb \/ DispatchEnd \/ Wait \/ Request
  \/ \E t \in Task : \/ AdoptSkip(t) \/ GateHoldRetry(t) \/ DispatchSkip(t) \/ DispatchRefused(t)
                     \/ RecordReview(t) \/ ItemComplete(t) \/ ItemUnblock(t)

LEMMA ApartStays == Apart => UNCHANGED <<live, stage, result, slots, starting>>
  BY DEF Apart, TickHead, StopStep, DrainExpires, Look, AdoptEnd, ReadyVerb, DispatchEnd, Wait, Request, AdoptSkip,
         GateHoldRetry, DispatchSkip, DispatchRefused, AfterRefusal, RecordReview, ItemComplete, ItemUnblock, Walked,
         driver, threads

LEMMA NextCases ==
  Next => \/ Apart \/ Crash \/ Restart
          \/ \E t \in Task : \/ AdoptRunning(t) \/ AdoptClaimed(t) \/ DispatchClaim(t) \/ DispatchStart(t)
                             \/ ThreadStep(t)
  BY DEF Next, DriverStep, Apart

LEMMA ThreadedStep == ASSUME DriverAssumption, DriverInv, Next PROVE Threaded'
<1> SUFFICES ASSUME NEW x \in Task PROVE ThreadedAt(x)'
  BY DEF Threaded
<1>0. ThreadedAt(x) /\ TypeOK
  BY DEF Threaded, DriverInv
<1>1. CASE Apart
  BY <1>0, <1>1, ApartStays DEF ThreadedAt
<1>2. CASE Crash \/ Restart
  BY <1>2 DEF Crash, Restart, Forget, ThreadedAt
<1>3. ASSUME NEW t \in Task, AdoptRunning(t) \/ AdoptClaimed(t) PROVE ThreadedAt(x)'
  <2>1. ThreadedAt(t) /\ NumberedAt(t) /\ live[t] = 0
    BY <1>3 DEF DriverInv, Threaded, Numbered, AdoptRunning, AdoptClaimed, Orphan
  <2>2. view[t].att # 0
    BY <1>3, <2>1 DEF AdoptRunning, AdoptClaimed, NumberedAt, Active
  <2>3. \/ UNCHANGED <<live, stage, result>>
        \/ \E s \in {"open", "work"} : Spawn(t, view[t].att, s)
    BY <1>3 DEF AdoptRunning, AdoptClaimed
  <2>4. QED BY <1>0, <2>1, <2>2, <2>3 DEF Spawn, ThreadedAt, TypeOK
<1>4. ASSUME NEW t \in Task, DispatchClaim(t) PROVE ThreadedAt(x)'
  <2>1. ThreadedAt(t) /\ live[t] = 0 /\ att[t] + 1 # 0
    <3>1. att[t] \in Nat
      BY <1>0, ViewType, Bounds
    <3>2. QED BY <1>4, <3>1 DEF DriverInv, Threaded, DispatchClaim, Claimable
  <2>2. UNCHANGED <<live, stage, result>> \/ Spawn(t, att[t] + 1, "open")
    BY <1>4 DEF DispatchClaim
  <2>3. QED BY <1>0, <2>1, <2>2 DEF Spawn, ThreadedAt, TypeOK
<1>5. ASSUME NEW t \in Task, DispatchStart(t) PROVE ThreadedAt(x)'
  <2>1. ThreadedAt(t) /\ live[t] = 0 /\ view[t].att # 0
    BY <1>5 DEF DriverInv, Threaded, DispatchStart, StartingIsOurs, StartingAt, Numbered, NumberedAt, Active
  <2>2. QED BY <1>0, <1>5, <2>1 DEF DispatchStart, ThreadedAt, TypeOK
<1>6. ASSUME NEW t \in Task, ThreadStep(t) PROVE ThreadedAt(x)'
  <2>1. ThreadedAt(t)
    BY DEF DriverInv, Threaded
  <2>2. CASE Leave(t)
    BY <1>0, <2>2 DEF Leave, ThreadedAt, TypeOK
  <2>3. CASE ~Leave(t)
    BY <1>0, <1>6, <2>1, <2>3 DEF ThreadStep, Open, Answer, Fail, Interrupted, Close, ThreadedAt, TypeOK
  <2>4. QED BY <2>2, <2>3
<1>7. QED BY <1>1, <1>2, <1>3, <1>4, <1>5, <1>6, NextCases

(* The strikes of a row that a thread serves are touched by that thread    *)
(* alone.                                                                  *)
LEMMA StrikesOfLive ==
  ASSUME DriverAssumption, DriverInv, NEW x \in Task, live[x] # 0,
         \/ Apart
         \/ \E t \in Task : \/ AdoptRunning(t) \/ AdoptClaimed(t) \/ DispatchClaim(t) \/ DispatchStart(t)
                            \/ t # x /\ ThreadStep(t)
  PROVE  fails'[x].count = fails[x].count
<1>0. TypeOK
  BY DEF DriverInv
<1>1. CASE TickHead
  <2>1. ~Quiet
    BY DEF Quiet, Live
  <2>2. QED BY <1>1, <2>1 DEF TickHead, ReloadStep
<1>2. CASE StopStep \/ DrainExpires \/ Look \/ AdoptEnd \/ ReadyVerb \/ DispatchEnd \/ Request
  BY <1>2 DEF StopStep, DrainExpires, Look, AdoptEnd, ReadyVerb, DispatchEnd, Request, driver, threads
<1>3. CASE Wait
  <2>1. ASSUME NEW t \in Task, fails' = [fails EXCEPT ![t].later = FALSE] PROVE fails'[x].count = fails[x].count
    <3>1. fails \in [Task -> Strikes] /\ fails[t] \in Strikes
      BY <1>0 DEF TypeOK
    <3>2. fails'[x] = IF x = t THEN [fails[t] EXCEPT !.later = FALSE] ELSE fails[x]
      BY <2>1, <3>1
    <3>3. [fails[t] EXCEPT !.later = FALSE].count = fails[t].count
      BY <3>1 DEF Strikes
    <3>4. QED BY <3>2, <3>3
  <2>2. QED BY <1>3, <2>1 DEF Wait
<1>4. ASSUME NEW t \in Task, AdoptSkip(t) \/ GateHoldRetry(t) \/ AdoptRunning(t)
      PROVE  fails'[x] = fails[x]
  <2>1. fails' = fails \/ (live[t] = 0 /\ fails' = Forgotten(t, AttemptKey(view[t].att)))
    BY <1>4 DEF AdoptSkip, GateHoldRetry, AdoptRunning, Orphan
  <2>2. QED BY <1>0, <2>1, ForgottenType
<1>5. ASSUME NEW t \in Task, AdoptClaimed(t) PROVE fails'[x] = fails[x]
  <2>1. t # x
    BY <1>5 DEF AdoptClaimed, Orphan
  <2>2. CASE fails' = Forgotten(t, AttemptKey(view[t].att))
    BY <1>0, <2>1, <2>2, ForgottenType
  <2>3. CASE Strike(t, AttemptKey(view[t].att))
    BY <1>0, <2>1, <2>3 DEF Strike, TypeOK
  <2>4. QED BY <1>5, <2>2, <2>3 DEF AdoptClaimed
<1>6. ASSUME NEW t \in Task, DispatchSkip(t) \/ DispatchClaim(t) PROVE fails'[x] = fails[x]
  <2>1. fails' = fails \/ (live[t] = 0 /\ fails' = Forgotten(t, ReadyKey(t)))
    BY <1>6 DEF DispatchSkip, DispatchClaim, Claimable
  <2>2. QED BY <1>0, <2>1, ForgottenType
<1>7. ASSUME NEW t \in Task, DispatchRefused(t) PROVE fails'[x] = fails[x]
  <2>1. t # x
    BY <1>7 DEF DispatchRefused, Claimable
  <2>2. CASE fails' = Forgotten(t, ReadyKey(t))
    BY <1>0, <2>1, <2>2, ForgottenType
  <2>3. CASE Strike(t, ReadyKey(t))
    BY <1>0, <2>1, <2>3 DEF Strike, TypeOK
  <2>4. QED BY <1>7, <2>2, <2>3 DEF DispatchRefused
<1>8. ASSUME NEW t \in Task, DispatchStart(t) PROVE fails'[x] = fails[x]
  <2>1. t # x
    BY <1>8 DEF DriverInv, DispatchStart, StartingIsOurs, StartingAt
  <2>2. QED BY <1>0, <1>8, <2>1 DEF DispatchStart, Strike, TypeOK
<1>9. ASSUME NEW t \in Task \ {x}, ThreadStep(t) PROVE fails'[x] = fails[x]
  BY <1>0, <1>9 DEF ThreadStep, Open, Answer, Fail, Interrupted, Close, Strike, Hold, TypeOK
<1>10. ASSUME NEW t \in Task, RecordReview(t) \/ ItemComplete(t) \/ ItemUnblock(t) PROVE fails' = fails
  BY <1>10 DEF RecordReview, ItemComplete, ItemUnblock, threads
<1>11. QED BY <1>1, <1>2, <1>3, <1>4, <1>5, <1>6, <1>7, <1>8, <1>9, <1>10 DEF Apart

-----------------------------------------------------------------------------
(* Strikes and the row between claim and start.                            *)

LEMMA BelowCap == ASSUME DriverAssumption, TypeOK, NEW t \in Task PROVE ~Stuck(t) <=> fails[t].count < FailCap
<1>1. fails[t] \in Strikes
  BY DEF TypeOK
<1>2. fails[t].count \in Nat
  BY <1>1, Bounds DEF Strikes
<1>3. QED BY <1>2, Bounds DEF Stuck

LEMMA WorkedStep == ASSUME DriverAssumption, DriverInv, Next PROVE Worked' /\ GivenUpIsStuck'
<1> SUFFICES ASSUME NEW x \in Task
             PROVE  /\ stage'[x] \in {"open", "work"} => ~Stuck(x)'
                    /\ result'[x] = "INVALID_EVIDENCE" => Stuck(x)'
  BY DEF Worked, GivenUpIsStuck
<1>0. /\ TypeOK /\ ThreadedAt(x)
      /\ stage[x] \in {"open", "work"} => ~Stuck(x)
      /\ result[x] = "INVALID_EVIDENCE" => Stuck(x)
  BY DEF DriverInv, Threaded, Worked, GivenUpIsStuck
<1>a. fails'[x].count < FailCap => ~Stuck(x)'
  <2>1. fails' \in [Task -> Strikes]
    BY TypeStep DEF TypeOK
  <2>2. fails'[x] \in Strikes
    BY <2>1
  <2>3. fails'[x].count \in Nat
    BY <2>2, Bounds DEF Strikes
  <2>4. QED BY <2>3, Bounds DEF Stuck
<1>b. ASSUME fails'[x].count = fails[x].count PROVE Stuck(x)' <=> Stuck(x)
  BY <1>b DEF Stuck
<1>1. CASE stage'[x] = stage[x] /\ result'[x] = result[x] /\ fails'[x].count = fails[x].count
  BY <1>0, <1>1, <1>b
<1>2. CASE stage'[x] = stage[x] /\ result'[x] = result[x] /\ live[x] = 0
  BY <1>0, <1>2 DEF ThreadedAt
<1>3. CASE Apart
  BY <1>1, <1>2, <1>3, ApartStays, StrikesOfLive
<1>4. CASE Crash \/ Restart
  BY <1>4 DEF Crash, Restart, Forget
<1>5. ASSUME NEW t \in Task, t # x,
             AdoptRunning(t) \/ AdoptClaimed(t) \/ DispatchClaim(t) \/ DispatchStart(t) \/ ThreadStep(t)
      PROVE  stage'[x] = stage[x] /\ result'[x] = result[x]
  BY <1>0, <1>5 DEF AdoptRunning, AdoptClaimed, DispatchClaim, DispatchStart, ThreadStep, Open, Answer, Fail, Interrupted,
                    Close, Spawn, Leave, TypeOK
<1>6. CASE AdoptRunning(x) \/ AdoptClaimed(x)
  <2>1. live[x] = 0 /\ result' = result /\ ~BackedOff(x, AttemptKey(view[x].att))
    BY <1>6 DEF AdoptRunning, AdoptClaimed, Orphan, Spawn
  <2>2. stage'[x] = stage[x] \/ fails' = Forgotten(x, AttemptKey(view[x].att))
    BY <1>0, <1>6 DEF AdoptRunning, AdoptClaimed
  <2>3. fails' = Forgotten(x, AttemptKey(view[x].att)) => fails'[x].count < FailCap
    BY <1>0, <2>1, ForgottenType
  <2>4. QED BY <1>0, <1>2, <1>a, <2>1, <2>2, <2>3 DEF ThreadedAt
<1>7. CASE DispatchClaim(x)
  <2>1. live[x] = 0 /\ result' = result /\ ~BackedOff(x, ReadyKey(x)) /\ fails' = Forgotten(x, ReadyKey(x))
    BY <1>7 DEF DispatchClaim, Claimable, Spawn
  <2>2. fails'[x].count < FailCap
    BY <1>0, <2>1, ForgottenType
  <2>3. QED BY <1>0, <1>a, <2>1, <2>2 DEF ThreadedAt
<1>8. CASE DispatchStart(x)
  <2>1. live[x] = 0 /\ ~Stuck(x) /\ result' = result
    BY <1>8 DEF DispatchStart, DriverInv, StartingIsOurs, StartingAt
  <2>2. fails' = fails \/ stage' = stage
    BY <1>8 DEF DispatchStart
  <2>3. QED BY <1>0, <1>2, <1>b, <2>1, <2>2 DEF ThreadedAt
<1>9. CASE ThreadStep(x)
  <2>1. CASE Leave(x)
    BY <1>0, <2>1 DEF Leave, TypeOK
  <2>2. CASE Open(x) /\ ~Leave(x)
    BY <1>0, <1>b, <2>2 DEF Open, ThreadedAt, TypeOK
  <2>3. CASE Answer(x)
    BY <1>0, <2>3 DEF Answer, TypeOK
  <2>4. CASE Fail(x) /\ ~Leave(x)
    <3>1. Key(x) \in Keys /\ ~Stuck(x) /\ Strike(x, Key(x))
      BY <1>0, <2>4, ViewType, KeyType DEF Key, Fail
    <3>2. fails'[x].count = Entry(x, Key(x)).count + 1
      BY <1>0, <3>1, StrikeType
    <3>3. Entry(x, Key(x)).count + 1 >= FailCap /\ stage'[x] = "close"
      BY <1>0, <2>4 DEF Fail, GivesUp, TypeOK
    <3>4. QED BY <3>2, <3>3 DEF Stuck
  <2>5. QED BY <1>9, <2>1, <2>2, <2>3, <2>4 DEF ThreadStep, Interrupted, Close
<1>10. QED
  <2>1. PICK t \in Task :
          AdoptRunning(t) \/ AdoptClaimed(t) \/ DispatchClaim(t) \/ DispatchStart(t) \/ ThreadStep(t) \/ Apart \/ Crash \/ Restart
    BY NextCases
  <2>2. CASE t = x
    BY <1>3, <1>4, <1>6, <1>7, <1>8, <1>9, <2>1, <2>2
  <2>3. CASE t # x
    BY <1>1, <1>2, <1>3, <1>4, <1>5, <2>1, <2>3, StrikesOfLive
  <2>4. QED BY <2>2, <2>3

LEMMA StartingStep == ASSUME DriverAssumption, DriverInv, Next PROVE StartingIsOurs'
<1> SUFFICES ASSUME NEW x \in starting'
             PROVE  StartingAt(x)'
  BY DEF StartingIsOurs
<1>0. TypeOK /\ TypeOK' /\ x \in Task
  BY TypeStep DEF DriverInv, TypeOK
<1>a. ASSUME x \in starting
      PROVE  StartingAt(x)
  BY <1>a DEF DriverInv, StartingIsOurs
<1>b. ASSUME x \in starting,
             UNCHANGED <<up, pc, starting, view, att>>,
             live'[x] = live[x], held'[x] = held[x], fails'[x].count = fails[x].count
      PROVE  StartingAt(x)'
  BY <1>a, <1>b DEF StartingAt, Stuck
<1>1. CASE TickHead \/ StopStep \/ DrainExpires \/ Look \/ AdoptEnd \/ ReadyVerb \/ DispatchEnd \/ Restart \/ Crash
  <2>1. x \notin starting
    BY <1>1, <1>a DEF StartingAt, TickHead, StopStep, DrainExpires, Look, AdoptEnd, ReadyVerb, DispatchEnd, Restart, Crash
  <2>2. starting' = starting \/ starting' = {}
    BY <1>1 DEF TickHead, StopStep, DrainExpires, Look, AdoptEnd, ReadyVerb, DispatchEnd, Restart, Crash, driver
  <2>3. QED BY <2>1, <2>2
<1>2. ASSUME NEW t \in Task,
             \/ AdoptSkip(t) \/ GateHoldRetry(t) \/ AdoptRunning(t) \/ AdoptClaimed(t)
             \/ DispatchSkip(t) \/ DispatchRefused(t) \/ DispatchStart(t)
      PROVE  FALSE
  <2>1. starting' = starting \/ starting' = {}
    BY <1>2 DEF AdoptSkip, GateHoldRetry, AdoptRunning, AdoptClaimed, DispatchSkip, DispatchRefused, DispatchStart, Walked
  <2>2. starting = {} \/ pc = "adopt" \/ starting' = {}
    BY <1>2 DEF AdoptSkip, GateHoldRetry, AdoptRunning, AdoptClaimed, DispatchSkip, DispatchRefused, DispatchStart,
                Adopting, Dispatching, Claimable
  <2>3. QED BY <1>a, <2>1, <2>2 DEF StartingAt
<1>3. ASSUME NEW t \in Task, DispatchClaim(t)
      PROVE  StartingAt(x)'
  <2>1. /\ starting = {} /\ up /\ pc = "dispatch" /\ live[t] = 0 /\ ~BackedOff(t, ReadyKey(t))
        /\ UNCHANGED <<up, pc, held>> /\ fails' = Forgotten(t, ReadyKey(t)) /\ ClaimRow(t) /\ Marked(t)
    BY <1>3 DEF DispatchClaim, Claimable, Dispatching, files
  <2>2. x = t /\ starting' = {t} /\ live' = live
    BY <1>3, <2>1 DEF DispatchClaim
  <2>3. att'[x] = att[x] + 1 /\ att[x] \in Nat /\ att[x] + 1 \in 0..MaxAttempts
    BY <1>0, <1>3, <2>2, ClaimType, ViewType, Bounds DEF DispatchClaim
  <2>4. view'[x].st = "CLAIMED" /\ view'[x].att = att'[x]
    BY <1>0, <2>1, <2>2 DEF Marked, TypeOK
  <2>5. held[x][att[x] + 1] = "none"
    BY <1>0, <2>3 DEF DriverInv, Numbered, NumberedAt
  <2>6. ~Stuck(x)'
    <3>1. fails'[x].count < FailCap
      BY <1>0, <2>1, <2>2, ForgottenType
    <3>2. fails'[x] \in Strikes
      BY <1>0 DEF TypeOK
    <3>3. fails'[x].count \in Nat
      BY <3>2, Bounds DEF Strikes
    <3>4. QED BY <3>1, <3>3, Bounds DEF Stuck
  <2>7. QED BY <2>1, <2>2, <2>3, <2>4, <2>5, <2>6 DEF StartingAt
<1>4. CASE Wait \/ Request
  <2>1. fails'[x].count = fails[x].count
    <3>1. ASSUME NEW t \in Task, fails' = [fails EXCEPT ![t].later = FALSE] PROVE fails'[x].count = fails[x].count
      <4>1. fails \in [Task -> Strikes] /\ fails[t] \in Strikes
        BY <1>0 DEF TypeOK
      <4>2. fails'[x] = IF x = t THEN [fails[t] EXCEPT !.later = FALSE] ELSE fails[x]
        BY <1>0, <3>1, <4>1
      <4>3. [fails[t] EXCEPT !.later = FALSE].count = fails[t].count
        BY <4>1 DEF Strikes
      <4>4. QED BY <4>2, <4>3
    <3>2. QED BY <1>4, <3>1 DEF Wait, Request, threads
  <2>2. QED BY <1>4, <1>b, <2>1 DEF Wait, Request, control, files, driver, threads
<1>5. ASSUME NEW t \in Task, RecordReview(t) \/ ItemComplete(t) \/ ItemUnblock(t)
      PROVE  StartingAt(x)'
  BY <1>5, <1>b DEF RecordReview, ItemComplete, ItemUnblock, MoveRow, files, driver, threads
<1>6. ASSUME NEW t \in Task, ThreadStep(t)
      PROVE  StartingAt(x)'
  <2>1. UNCHANGED <<up, pc, starting, view, att>>
    BY <1>6 DEF ThreadStep, Open, Answer, Fail, Interrupted, Close, MoveRow, control, driver
  <2>2. t # x
    <3>1. ThreadedAt(t) /\ stage[t] # "idle"
      BY <1>6 DEF DriverInv, Threaded, ThreadStep, Open, Answer, Fail, Interrupted, Close
    <3>2. QED BY <1>a, <2>1, <3>1 DEF ThreadedAt, StartingAt
  <2>3. live'[x] = live[x] /\ held'[x] = held[x] /\ fails'[x] = fails[x]
    <3>1. held' = held \/ held' = [held EXCEPT ![t][live[t]] = result[t]]
      BY <1>6 DEF ThreadStep, Open, Answer, Fail, Interrupted, Close, files
    <3>2. live'[x] = live[x] /\ fails'[x] = fails[x]
      BY <1>0, <1>6, <2>2 DEF ThreadStep, Open, Answer, Fail, Interrupted, Close, Leave, Strike, Hold, TypeOK
    <3>3. QED BY <1>0, <2>2, <3>1, <3>2 DEF TypeOK
  <2>4. QED BY <1>b, <2>1, <2>3
<1>7. QED BY <1>1, <1>2, <1>3, <1>4, <1>5, <1>6 DEF Next, DriverStep

-----------------------------------------------------------------------------
(* Quiet and slots.                                                        *)

LEMMA QuietedStep == ASSUME DriverAssumption, DriverInv, Next PROVE Quieted'
<1> USE DEF DriverInv, Quieted
<1>1. CASE TickHead
  BY <1>1 DEF TickHead, ReloadStep
<1>2. CASE StopStep \/ DrainExpires \/ AdoptEnd \/ ReadyVerb \/ DispatchEnd
  <2>1. CASE StopStep
    BY <2>1 DEF StopStep
  <2>2. CASE DrainExpires
    BY <2>2 DEF DrainExpires, driver, flags
  <2>3. CASE AdoptEnd
    BY <2>3 DEF AdoptEnd, TickOver, flags
  <2>4. CASE ReadyVerb \/ DispatchEnd
    BY <2>4 DEF ReadyVerb, DispatchEnd, TickOver, flags
  <2>5. QED BY <1>2, <2>1, <2>2, <2>3, <2>4
<1>3. CASE Look
  BY <1>3 DEF Look, Quiescing, flags
<1>4. CASE Wait \/ Request \/ Crash \/ Restart
  BY <1>4 DEF Wait, Request, Crash, Restart, TickOver, driver, flags
<1>5. ASSUME NEW t \in Task,
             \/ AdoptSkip(t) \/ GateHoldRetry(t) \/ AdoptRunning(t) \/ AdoptClaimed(t)
             \/ DispatchSkip(t) \/ DispatchClaim(t) \/ DispatchRefused(t) \/ DispatchStart(t)
      PROVE  UNCHANGED <<pc, draining, stopping, pending>>
  BY <1>5 DEF AdoptSkip, GateHoldRetry, AdoptRunning, AdoptClaimed, DispatchSkip, DispatchClaim, DispatchRefused,
              DispatchStart, Walked, flags
<1>6. ASSUME NEW t \in Task, ThreadStep(t) \/ RecordReview(t) \/ ItemComplete(t) \/ ItemUnblock(t)
      PROVE  UNCHANGED <<pc, draining, stopping, pending>>
  BY <1>6 DEF ThreadStep, Open, Answer, Fail, Interrupted, Close, RecordReview, ItemComplete, ItemUnblock, driver, flags
<1>7. QED BY <1>1, <1>2, <1>3, <1>4, <1>5, <1>6 DEF Next, DriverStep

On(S, r) == {t \in S : RunnerOf[t] = r}

(* One more, one fewer: what a runner carries.                             *)
LEMMA OnAdd ==
  ASSUME NEW S, IsFiniteSet(S), NEW x, x \notin S, NEW r
  PROVE  /\ IsFiniteSet(On(S, r)) /\ Cardinality(On(S, r)) \in Nat
         /\ Cardinality(On(S \cup {x}, r)) = Cardinality(On(S, r)) + (IF RunnerOf[x] = r THEN 1 ELSE 0)
<1>1. IsFiniteSet(On(S, r)) /\ x \notin On(S, r)
  BY FS_Subset DEF On
<1>2. On(S \cup {x}, r) = IF RunnerOf[x] = r THEN On(S, r) \cup {x} ELSE On(S, r)
  BY DEF On
<1>3. Cardinality(On(S, r) \cup {x}) = Cardinality(On(S, r)) + 1 /\ Cardinality(On(S, r)) \in Nat
  BY <1>1, FS_AddElement, FS_CardinalityType
<1>4. QED BY <1>1, <1>2, <1>3

LEMMA OnNone == ASSUME NEW r PROVE Cardinality(On({}, r)) = 0
  BY FS_EmptySet DEF On

LEMMA OnOne == ASSUME NEW x, NEW r PROVE Cardinality(On({x}, r)) = IF RunnerOf[x] = r THEN 1 ELSE 0
<1>1. On({x}, r) = IF RunnerOf[x] = r THEN {x} ELSE {}
  BY DEF On
<1>2. QED BY <1>1, FS_EmptySet, FS_Singleton

SlotsAre(L, s) ==
  /\ IsFiniteSet(L)
  /\ \A r \in Runner : slots[r] = Cardinality(On(L, r)) + Cardinality(On(s, r)) /\ slots[r] <= RunnerMax
  /\ Cardinality(L) + Cardinality(s) <= MaxTasks

LEMMA CountedIs ==
  ASSUME DriverAssumption, DriverInv
  PROVE  Counted <=> SlotsAre(Live, starting)
<1>1. IsFiniteSet(starting)
  <2>1. CASE starting = {}
    BY <2>1, FS_EmptySet
  <2>2. ASSUME NEW t \in starting PROVE IsFiniteSet(starting)
    <3>1. starting = {t}
      BY DEF DriverInv, StartingIsOurs, StartingAt
    <3>2. QED BY <3>1, FS_Singleton
  <2>3. QED BY <2>1, <2>2
<1>2. IsFiniteSet(Live) /\ Cardinality(Live) + Cardinality(starting) <= MaxTasks => Cardinality(Live) <= MaxTasks
  BY <1>1, FS_CardinalityType, Bounds
<1>3. QED BY <1>2 DEF Counted, SlotsMatchThreads, SlotsAre, On

(* A thread begins in a free place.                                        *)
LEMMA SpawnCounts ==
  ASSUME DriverAssumption, DriverInv, NEW t \in Task, live[t] = 0, starting = {}, SlotFree(t),
         NEW k \in Nat \ {0}, NEW s, Spawn(t, k, s), starting' = starting
  PROVE  SlotsAre(Live, starting)'
<1>0. SlotsAre(Live, starting) /\ t \notin Live /\ RunnerOf[t] \in Runner
  BY CountedIs, Bounds DEF DriverInv, Live
<1>1. Live' = Live \cup {t}
  BY DEF Spawn, DriverInv, TypeOK, Live
<1>2. IsFiniteSet(Live') /\ Cardinality(Live') = Cardinality(Live) + 1 /\ Cardinality(Live) \in Nat
  BY <1>0, <1>1, FS_AddElement, FS_CardinalityType DEF SlotsAre
<1>3. Cardinality(starting) = 0 /\ starting' = {} /\ Cardinality(starting') = 0
  BY FS_EmptySet
<1>4. Cardinality(Live') + Cardinality(starting') <= MaxTasks
  BY <1>2, <1>3, Bounds DEF SlotFree
<1>5. ASSUME NEW r \in Runner
      PROVE  slots'[r] = Cardinality(On(Live', r)) + Cardinality(On(starting', r)) /\ slots'[r] <= RunnerMax
  <2>1. Cardinality(On(Live', r)) = Cardinality(On(Live, r)) + (IF RunnerOf[t] = r THEN 1 ELSE 0)
    BY <1>0, <1>1, OnAdd DEF SlotsAre
  <2>2. Cardinality(On(starting', r)) = 0 /\ Cardinality(On(starting, r)) = 0 /\ Cardinality(On(Live, r)) \in Nat
    BY <1>0, <1>3, OnNone, OnAdd DEF SlotsAre
  <2>3. slots[r] = Cardinality(On(Live, r)) /\ slots[r] <= RunnerMax
    BY <1>0, <2>2 DEF SlotsAre
  <2>4. slots'[r] = slots[r] + (IF RunnerOf[t] = r THEN 1 ELSE 0)
    BY DEF Spawn, Acquire, DriverInv, TypeOK
  <2>5. RunnerOf[t] = r => slots[r] < RunnerMax
    BY DEF SlotFree
  <2>6. QED BY <2>1, <2>2, <2>3, <2>4, <2>5, Bounds
<1>6. QED BY <1>2, <1>4, <1>5 DEF SlotsAre

(* A thread ends and gives its place back.                                 *)
LEMMA LeaveCounts ==
  ASSUME DriverAssumption, DriverInv, NEW t \in Live, Leave(t), starting' = starting
  PROVE  SlotsAre(Live, starting)'
<1>0. SlotsAre(Live, starting) /\ t \in Task /\ RunnerOf[t] \in Runner
  BY CountedIs, Bounds DEF DriverInv, Live
<1> DEFINE L == Live \ {t}
<1>1. Live' = L
  BY <1>0 DEF Leave, DriverInv, TypeOK, Live
<1>2. IsFiniteSet(L) /\ t \notin L /\ Live = L \cup {t}
  BY <1>0, FS_Subset DEF SlotsAre
<1> HIDE DEF L
<1>3. Cardinality(Live) = Cardinality(L) + 1 /\ Cardinality(L) \in Nat
  BY <1>2, FS_AddElement, FS_CardinalityType
<1>4. IsFiniteSet(starting)
  <2>1. CASE starting = {}
    BY <2>1, FS_EmptySet
  <2>2. ASSUME NEW x \in starting PROVE IsFiniteSet(starting)
    <3>1. starting = {x}
      BY DEF DriverInv, StartingIsOurs, StartingAt
    <3>2. QED BY <3>1, FS_Singleton
  <2>3. QED BY <2>1, <2>2
<1>5. Cardinality(Live') + Cardinality(starting') <= MaxTasks
  BY <1>0, <1>1, <1>3, <1>4, FS_CardinalityType, Bounds DEF SlotsAre
<1>6. ASSUME NEW r \in Runner
      PROVE  slots'[r] = Cardinality(On(Live', r)) + Cardinality(On(starting', r)) /\ slots'[r] <= RunnerMax
  <2>1. Cardinality(On(Live, r)) = Cardinality(On(L, r)) + (IF RunnerOf[t] = r THEN 1 ELSE 0)
    BY <1>2, OnAdd
  <2>2. Cardinality(On(L, r)) \in Nat /\ Cardinality(On(starting, r)) \in Nat
    <3>1. IsFiniteSet(On(starting, r))
      BY <1>4, FS_Subset DEF On
    <3>2. QED BY <1>2, <3>1, OnAdd, FS_CardinalityType
  <2>3. slots[r] = Cardinality(On(Live, r)) + Cardinality(On(starting, r)) /\ slots[r] <= RunnerMax
    BY <1>0 DEF SlotsAre
  <2>4. slots'[r] = IF RunnerOf[t] = r THEN Released(r) ELSE slots[r]
    BY <1>0 DEF Leave, Release, DriverInv, TypeOK
  <2>5. QED BY <1>1, <2>1, <2>2, <2>3, <2>4, Bounds DEF Released
<1>7. QED BY <1>1, <1>2, <1>5, <1>6 DEF SlotsAre

LEMMA CountedStep == ASSUME DriverAssumption, DriverInv, Next PROVE SlotsAre(Live, starting)'
<1>0. SlotsAre(Live, starting) /\ TypeOK
  BY CountedIs DEF DriverInv
<1>1. CASE Apart
  BY <1>0, <1>1, ApartStays DEF SlotsAre, On, Live
<1>2. CASE Crash \/ Restart
  <2>1. starting' = {}
    BY <1>2 DEF Crash, Restart, DriverInv, StartingIsOurs, StartingAt
  <2>2. Live' = {} /\ \A r \in Runner : slots'[r] = 0
    BY <1>2 DEF Crash, Restart, Forget, Live
  <2>3. QED BY <2>1, <2>2, FS_EmptySet, OnNone, Bounds DEF SlotsAre
<1>3. ASSUME NEW t \in Task, AdoptRunning(t) \/ AdoptClaimed(t) PROVE SlotsAre(Live, starting)'
  <2>1. live[t] = 0 /\ starting = {} /\ starting' = starting
    BY <1>3 DEF AdoptRunning, AdoptClaimed, Orphan, Adopting, Walked, DriverInv, StartingIsOurs, StartingAt
  <2>2. view[t].att \in Nat \ {0}
    <3>1. view[t].att # 0 /\ view[t].att \in 0..MaxAttempts
      BY <1>0, <1>3, ViewType DEF AdoptRunning, AdoptClaimed, DriverInv, Numbered, NumberedAt, Active
    <3>2. QED BY <3>1, Bounds
  <2>3. CASE SlotFree(t) /\ \E s \in {"open", "work"} : Spawn(t, view[t].att, s)
    BY <2>1, <2>2, <2>3, SpawnCounts
  <2>4. CASE UNCHANGED <<live, slots>>
    BY <1>0, <2>1, <2>4 DEF SlotsAre, On, Live
  <2>5. QED BY <1>3, <2>3, <2>4 DEF AdoptRunning, AdoptClaimed
<1>4. ASSUME NEW t \in Task, DispatchClaim(t) PROVE SlotsAre(Live, starting)'
  <2>1. live[t] = 0 /\ starting = {} /\ SlotFree(t) /\ att[t] + 1 \in Nat \ {0}
    <3>1. att[t] \in Nat
      BY <1>0, ViewType, Bounds
    <3>2. QED BY <1>4, <3>1 DEF DispatchClaim, Claimable, Dispatching
  <2>2. CASE t \in Late
    BY <1>4, <2>1, <2>2, SpawnCounts DEF DispatchClaim
  <2>3. CASE t \notin Late
    <3>1. Acquire(t) /\ starting' = {t} /\ Live' = Live
      BY <1>4, <2>3 DEF DispatchClaim, Live
    <3>2. Cardinality({t}) = 1 /\ Cardinality(Live) \in Nat /\ Cardinality(Live) + 1 <= MaxTasks
      <4>1. Cardinality(Live) \in Nat /\ Cardinality({t}) = 1
        BY <1>0, FS_Singleton, FS_CardinalityType DEF SlotsAre
      <4>2. Cardinality(Live) < MaxTasks
        BY <2>1 DEF SlotFree
      <4>3. QED BY <4>1, <4>2, Bounds
    <3>3. ASSUME NEW r \in Runner
          PROVE  slots'[r] = Cardinality(On(Live, r)) + Cardinality(On({t}, r)) /\ slots'[r] <= RunnerMax
      <4>1. slots[r] = Cardinality(On(Live, r)) /\ slots[r] <= RunnerMax /\ slots[r] \in Nat
        <5>1. slots[r] = Cardinality(On(Live, r)) + Cardinality(On(starting, r)) /\ slots[r] <= RunnerMax
          BY <1>0 DEF SlotsAre
        <5>2. Cardinality(On(Live, r)) \in Nat
          BY <1>0, <2>1, OnAdd DEF SlotsAre, Live
        <5>3. QED BY <2>1, <5>1, <5>2, OnNone
      <4>2. slots'[r] = slots[r] + (IF RunnerOf[t] = r THEN 1 ELSE 0)
        BY <1>0, <3>1 DEF Acquire, TypeOK
      <4>3. RunnerOf[t] = r => slots[r] < RunnerMax
        BY <2>1 DEF SlotFree
      <4>4. QED BY <4>1, <4>2, <4>3, OnOne, Bounds
    <3>4. QED BY <1>0, <3>1, <3>2, <3>3 DEF SlotsAre
  <2>4. QED BY <2>2, <2>3
<1>5. ASSUME NEW t \in Task, DispatchStart(t) PROVE SlotsAre(Live, starting)'
  <2>1. live[t] = 0 /\ starting = {t} /\ starting' = {} /\ view[t].att # 0
    BY <1>5 DEF DispatchStart, DriverInv, StartingIsOurs, StartingAt, Numbered, NumberedAt, Active
  <2>2. Cardinality({t}) = 1 /\ Cardinality({}) = 0 /\ Cardinality(Live) \in Nat /\ t \notin Live
    BY <1>0, <2>1, FS_Singleton, FS_EmptySet, FS_CardinalityType DEF SlotsAre, Live
  <2>3. ASSUME NEW r \in Runner
        PROVE  /\ slots[r] = Cardinality(On(Live, r)) + (IF RunnerOf[t] = r THEN 1 ELSE 0) /\ slots[r] <= RunnerMax
               /\ Cardinality(On(Live, r)) \in Nat
    <3>1. slots[r] = Cardinality(On(Live, r)) + Cardinality(On(starting, r)) /\ slots[r] <= RunnerMax
      BY <1>0 DEF SlotsAre
    <3>2. Cardinality(On(Live, r)) \in Nat
      BY <1>0, <2>2, OnAdd DEF SlotsAre
    <3>3. QED BY <2>1, <3>1, <3>2, OnOne
  <2>4. CASE live' = [live EXCEPT ![t] = view[t].att] /\ slots' = slots
    <3>1. Live' = Live \cup {t}
      BY <1>0, <2>1, <2>4 DEF Live, TypeOK
    <3>2. IsFiniteSet(Live') /\ Cardinality(Live') = Cardinality(Live) + 1
      BY <1>0, <2>2, <3>1, FS_AddElement DEF SlotsAre
    <3>3. \A r \in Runner : slots[r] = Cardinality(On(Live', r)) + Cardinality(On({}, r)) /\ slots[r] <= RunnerMax
      BY <1>0, <2>2, <2>3, <3>1, OnAdd, OnNone DEF SlotsAre
    <3>4. Cardinality(Live') + Cardinality({}) <= MaxTasks
      BY <1>0, <2>1, <2>2, <3>2, Bounds DEF SlotsAre
    <3>5. QED BY <2>1, <2>4, <3>2, <3>3, <3>4 DEF SlotsAre
  <2>5. CASE live' = live /\ Release(t)
    <3>1. Live' = Live
      BY <2>5 DEF Live
    <3>2. ASSUME NEW r \in Runner
          PROVE  slots'[r] = Cardinality(On(Live, r)) + Cardinality(On({}, r)) /\ slots'[r] <= RunnerMax
      <4>1. slots'[r] = IF RunnerOf[t] = r THEN Released(r) ELSE slots[r]
        BY <1>0, <2>5 DEF Release, TypeOK
      <4>2. QED BY <2>3, <4>1, OnNone, Bounds DEF Released
    <3>3. QED BY <1>0, <2>1, <2>2, <3>1, <3>2, Bounds DEF SlotsAre
  <2>6. QED BY <1>5, <2>4, <2>5 DEF DispatchStart
<1>6. ASSUME NEW t \in Task, ThreadStep(t) PROVE SlotsAre(Live, starting)'
  <2>1. t \in Live
    BY <1>6 DEF DriverInv, Threaded, ThreadedAt, ThreadStep, Open, Answer, Fail, Interrupted, Close, Live
  <2>2. starting' = starting
    BY <1>6 DEF ThreadStep, Open, Answer, Fail, Interrupted, Close, driver
  <2>3. CASE Leave(t)
    BY <2>1, <2>2, <2>3, LeaveCounts
  <2>4. CASE UNCHANGED <<live, slots>>
    BY <1>0, <2>2, <2>4 DEF SlotsAre, On, Live
  <2>5. QED BY <1>6, <2>3, <2>4 DEF ThreadStep, Open, Answer, Fail, Interrupted, Close
<1>7. QED BY <1>1, <1>2, <1>3, <1>4, <1>5, <1>6, NextCases

-----------------------------------------------------------------------------
(* The invariant and what follows from it.                                 *)

LEMMA InitInv == ASSUME DriverAssumption, Init PROVE DriverInv
<1>0. 0 \in 0..MaxAttempts
  BY Bounds
<1> USE DEF Init, InitRest
<1>1. TypeOK
  BY <1>0, CleanType, UnreadType DEF TypeOK, Rows, Stages
<1>2. Numbered
  BY Bounds DEF Numbered, NumberedAt, Active, Unread
<1>3. Threaded /\ StartingIsOurs /\ GivenUpIsStuck /\ Quieted
  BY DEF Threaded, ThreadedAt, StartingIsOurs, GivenUpIsStuck, Quieted
<1>4. Worked
  BY DEF Worked
<1>5. Counted
  <2>1. Live = {}
    BY DEF Live
  <2>2. \A r \in Runner : Cardinality({t \in {} : RunnerOf[t] = r}) = 0
    BY FS_EmptySet
  <2>3. Cardinality({}) = 0 /\ IsFiniteSet({}) /\ MaxTasks \in Nat /\ RunnerMax \in Nat
    BY FS_EmptySet, Bounds
  <2>4. QED BY <2>1, <2>2, <2>3 DEF Counted, SlotsMatchThreads
<1>6. QED BY <1>1, <1>2, <1>3, <1>4, <1>5 DEF DriverInv

LEMMA InvStep == ASSUME DriverAssumption, DriverInv, [Next]_vars PROVE DriverInv'
<1>1. CASE Next
  <2>1. TypeOK' /\ Numbered' /\ Threaded' /\ StartingIsOurs' /\ Worked' /\ GivenUpIsStuck' /\ Quieted'
    BY <1>1, TypeStep, NumberedStep, ThreadedStep, StartingStep, WorkedStep, QuietedStep
  <2>2. SlotsAre(Live, starting)'
    BY <1>1, CountedStep
  <2>3. IsFiniteSet(starting')
    <3>1. CASE starting' = {}
      BY <3>1, FS_EmptySet
    <3>2. ASSUME NEW x \in starting' PROVE IsFiniteSet(starting')
      <4>1. starting' = {x}
        BY <2>1 DEF StartingIsOurs, StartingAt
      <4>2. QED BY <4>1, FS_Singleton
    <3>3. QED BY <3>1, <3>2
  <2>4. Cardinality(Live') <= MaxTasks
    BY <2>2, <2>3, FS_CardinalityType, Bounds DEF SlotsAre
  <2>5. Counted'
    BY <2>2, <2>4 DEF Counted, SlotsMatchThreads, SlotsAre, On
  <2>6. QED BY <2>1, <2>5 DEF DriverInv
<1>2. CASE UNCHANGED vars
  <2> USE DEF vars, control, files, driver, flags, threads, budgets, DriverInv
  <2>1. TypeOK'
    BY <1>2 DEF TypeOK
  <2>2. Numbered' /\ Threaded' /\ StartingIsOurs'
    BY <1>2 DEF Numbered, NumberedAt, Threaded, ThreadedAt, StartingIsOurs, StartingAt, Stuck
  <2>3. Worked' /\ GivenUpIsStuck' /\ Quieted'
    BY <1>2 DEF Worked, GivenUpIsStuck, Quieted, Stuck
  <2>4. Counted'
    BY <1>2 DEF Counted, SlotsMatchThreads, Live
  <2>5. QED BY <2>1, <2>2, <2>3, <2>4
<1>3. QED BY <1>1, <1>2

LEMMA Invariant == ASSUME DriverAssumption PROVE Spec => []DriverInv
  BY InitInv, InvStep, PTL DEF Spec

(* Every variable of the driver keeps its type: attempts stay within the   *)
(* bound of the claims, and no task is struck more than FAIL_CAP times.    *)
THEOREM DriverTypeOK == Spec => []TypeOK
<1>1. DriverInv => TypeOK
  BY DEF DriverInv
<1>2. QED BY <1>1, Invariant, DriverAssumption, PTL

(* Every slot a runner counts belongs to a thread or to the claim being    *)
(* started and no limit is passed, whatever verbs are refused or time out  *)
(* and whenever the driver dies (_try_acquire, _release).                  *)
THEOREM SlotsAreHeld == Spec => []SlotsMatchThreads
<1>1. DriverInv => SlotsMatchThreads
  BY DEF DriverInv, Counted
<1>2. QED BY <1>1, Invariant, DriverAssumption, PTL

(* An attempt is closed for its strikes only after FAIL_CAP of them, which *)
(* no reload and no back-off takes from it while its thread runs.          *)
THEOREM GiveUpIsEarned == Spec => []GivenUpIsStuck
<1>1. DriverInv => GivenUpIsStuck
  BY DEF DriverInv
<1>2. QED BY <1>1, Invariant, DriverAssumption, PTL

LEMMA GradeStep ==
  ASSUME TypeOK, Next, NEW x \in Task, st[x] \in {"VERIFIED", "INVALID_EVIDENCE"}
  PROVE  st'[x] = st[x]
<1> USE DEF TypeOK
<1>1. CASE TickHead \/ StopStep \/ DrainExpires \/ Look \/ AdoptEnd \/ ReadyVerb \/ DispatchEnd \/ Wait \/ Request \/ Crash \/ Restart
  BY <1>1 DEF TickHead, StopStep, DrainExpires, Look, AdoptEnd, ReadyVerb, DispatchEnd, Wait, Request, Crash, Restart, control
<1>2. ASSUME NEW t \in Task,
             \/ AdoptSkip(t) \/ GateHoldRetry(t) \/ AdoptRunning(t) \/ AdoptClaimed(t)
             \/ DispatchSkip(t) \/ DispatchClaim(t) \/ DispatchRefused(t) \/ DispatchStart(t)
      PROVE  st'[x] = st[x]
  BY <1>2 DEF AdoptSkip, GateHoldRetry, AdoptRunning, AdoptClaimed, DispatchSkip, DispatchClaim, DispatchRefused,
              DispatchStart, MoveRow, ClaimRow, StartAllowed, ClaimAllowed, CompletionMatches, Active, control
<1>3. ASSUME NEW t \in Task, ThreadStep(t) \/ RecordReview(t) \/ ItemComplete(t) \/ ItemUnblock(t)
      PROVE  st'[x] = st[x]
  BY <1>3 DEF ThreadStep, Open, Answer, Fail, Interrupted, Close, RecordReview, ItemComplete, ItemUnblock,
              MoveRow, StartAllowed, CompletionMatches, Active, control
<1>4. QED BY <1>1, <1>2, <1>3 DEF Next, DriverStep

(* A grade once recorded stays: every way to move a row, of this driver,   *)
(* of a thread it lost or of the operator, passes the scheduler's own      *)
(* check of the row's state and attempt (claim, start, complete).          *)
THEOREM GradesAreFinal == Spec => GradesStay
<1>1. TypeOK /\ [Next]_vars =>
        [\A t \in Task : st[t] \in {"VERIFIED", "INVALID_EVIDENCE"} => st'[t] = st[t]]_vars
  BY GradeStep
<1>2. QED BY <1>1, DriverTypeOK, PTL DEF Spec, GradesStay

(* While the completion of an attempt is held for its review no turn of    *)
(* that attempt is begun, although every tick finds the row running        *)
(* without a thread (_gate_hold_retry before the adoption).                *)
THEOREM HeldWorkIsNotRerun == Spec => HeldNotRerun
<1> DEFINE Kept(t, k) == held[t][k] # "none" /\ live[t] # k => live'[t] # k
<1>1. ASSUME DriverInv, Next, NEW x \in Task, NEW k \in 1..MaxAttempts PROVE Kept(x, k)
  <2>0. TypeOK /\ k # 0
    BY <1>1 DEF DriverInv
  <2>1. CASE Apart \/ Crash \/ Restart
    BY <2>0, <2>1, ApartStays DEF Crash, Restart, Forget
  <2>2. ASSUME NEW t \in Task, AdoptRunning(t) \/ AdoptClaimed(t) PROVE Kept(x, k)
    <3>1. held[t][view[t].att] = "none"
      BY <2>2 DEF AdoptRunning, AdoptClaimed, RerunAllowed, HeldFor
    <3>2. live' = live \/ live' = [live EXCEPT ![t] = view[t].att]
      BY <2>2 DEF AdoptRunning, AdoptClaimed, Spawn
    <3>3. QED BY <2>0, <3>1, <3>2 DEF TypeOK
  <2>3. ASSUME NEW t \in Task, DispatchClaim(t) PROVE Kept(x, k)
    <3>1. live' = live \/ live' = [live EXCEPT ![t] = att[t] + 1]
      BY <2>3 DEF DispatchClaim, Spawn
    <3>2. att[t] \in Nat /\ (held[t][k] # "none" => k <= att[t]) /\ k \in Nat
      BY <1>1, <2>0, ViewType, Bounds, DriverAssumption DEF DriverInv, Numbered, NumberedAt
    <3>3. QED BY <2>0, <3>1, <3>2 DEF TypeOK
  <2>4. ASSUME NEW t \in Task, DispatchStart(t) PROVE Kept(x, k)
    <3>1. held[t][view[t].att] = "none"
      BY <1>1, <2>4 DEF DispatchStart, DriverInv, StartingIsOurs, StartingAt
    <3>2. live' = live \/ live' = [live EXCEPT ![t] = view[t].att]
      BY <2>4 DEF DispatchStart
    <3>3. QED BY <2>0, <3>1, <3>2 DEF TypeOK
  <2>5. ASSUME NEW t \in Task, ThreadStep(t) PROVE Kept(x, k)
    BY <2>0, <2>5 DEF ThreadStep, Open, Answer, Fail, Interrupted, Close, Leave, TypeOK
  <2>6. QED BY <1>1, <2>1, <2>2, <2>3, <2>4, <2>5, NextCases
<1>2. DriverInv /\ [Next]_vars =>
        [\A t \in Task : \A a \in 1..MaxAttempts : held[t][a] # "none" /\ live[t] # a => live'[t] # a]_vars
  BY <1>1
<1>3. QED BY <1>2, Invariant, DriverAssumption, PTL DEF Spec, HeldNotRerun

(* Under a STOP or a RELOAD that a tick has noted no row is claimed, and   *)
(* the code is reloaded under no running thread (hot_reload): the walk     *)
(* that claims is never entered.                                           *)
THEOREM QuiescedClaimsNothing == Spec => QuiescedMeansNoClaims
<1> DEFINE Quiesced ==
             /\ pending \/ stopping => \A t \in Task : ~(st[t] = "READY" /\ st'[t] = "CLAIMED")
             /\ pc = "tick" /\ reload /\ ~reload' /\ up /\ pending' # pending => Live = {}
<1>1. ASSUME DriverInv, Next, pending \/ stopping, NEW x \in Task, st[x] = "READY", st'[x] = "CLAIMED"
      PROVE  FALSE
  <2>0. TypeOK /\ pc \notin {"ready", "dispatch"}
    BY <1>1 DEF DriverInv, Quieted
  <2>1. CASE TickHead \/ StopStep \/ DrainExpires \/ Look \/ AdoptEnd \/ ReadyVerb \/ DispatchEnd \/ Wait \/ Request \/ Crash \/ Restart
    BY <1>1, <2>1 DEF TickHead, StopStep, DrainExpires, Look, AdoptEnd, ReadyVerb, DispatchEnd, Wait, Request, Crash, Restart, control
  <2>2. ASSUME NEW t \in Task, DispatchSkip(t) \/ DispatchClaim(t) \/ DispatchRefused(t) \/ DispatchStart(t) PROVE FALSE
    BY <1>1, <2>0, <2>2 DEF DispatchSkip, DispatchClaim, DispatchRefused, DispatchStart, Claimable, Dispatching, DriverInv,
                            StartingIsOurs, StartingAt
  <2>3. ASSUME NEW t \in Task, AdoptSkip(t) \/ GateHoldRetry(t) \/ AdoptRunning(t) \/ AdoptClaimed(t) PROVE FALSE
    <3>1. CASE GateHoldRetry(t)
      BY <1>1, <2>0, <3>1 DEF GateHoldRetry, MoveRow, CompletionMatches, Active, control, TypeOK
    <3>2. QED BY <1>1, <2>0, <2>3, <3>1 DEF AdoptSkip, AdoptRunning, AdoptClaimed, MoveRow, StartAllowed, control, TypeOK
  <2>4. ASSUME NEW t \in Task, ThreadStep(t) \/ RecordReview(t) \/ ItemComplete(t) \/ ItemUnblock(t) PROVE FALSE
    BY <1>1, <2>0, <2>4 DEF ThreadStep, Open, Answer, Fail, Interrupted, Close, RecordReview, ItemComplete, ItemUnblock,
                            MoveRow, StartAllowed, CompletionMatches, Active, control, TypeOK
  <2>5. QED BY <1>1, <2>1, <2>2, <2>3, <2>4 DEF Next, DriverStep
<1>2. ASSUME DriverInv, Next, pc = "tick", reload, ~reload', up, pending' # pending PROVE Live = {}
  <2>1. CASE TickHead
    BY <1>2, <2>1 DEF TickHead, ReloadStep, Quiet
  <2>2. CASE StopStep \/ DrainExpires \/ Look \/ AdoptEnd \/ ReadyVerb \/ DispatchEnd \/ Wait \/ Request \/ Crash \/ Restart
    BY <1>2, <2>2 DEF StopStep, DrainExpires, Look, AdoptEnd, ReadyVerb, DispatchEnd, Wait, Request, Crash, Restart, driver, flags
  <2>3. ASSUME NEW t \in Task,
               \/ AdoptSkip(t) \/ GateHoldRetry(t) \/ AdoptRunning(t) \/ AdoptClaimed(t)
               \/ DispatchSkip(t) \/ DispatchClaim(t) \/ DispatchRefused(t) \/ DispatchStart(t)
               \/ ThreadStep(t) \/ RecordReview(t) \/ ItemComplete(t) \/ ItemUnblock(t)
        PROVE  pending' = pending
    BY <2>3 DEF AdoptSkip, GateHoldRetry, AdoptRunning, AdoptClaimed, DispatchSkip, DispatchClaim, DispatchRefused, DispatchStart,
                ThreadStep, Open, Answer, Fail, Interrupted, Close, RecordReview, ItemComplete, ItemUnblock, Walked, driver, flags
  <2>4. QED BY <1>2, <2>1, <2>2, <2>3 DEF Next, DriverStep
<1>3. DriverInv /\ [Next]_vars =>
        [/\ pending \/ stopping => \A t \in Task : ~(st[t] = "READY" /\ st'[t] = "CLAIMED")
         /\ pc = "tick" /\ reload /\ ~reload' /\ up /\ pending' # pending => Live = {}]_vars
  BY <1>1, <1>2
<1>4. QED BY <1>3, Invariant, DriverAssumption, PTL DEF Spec, QuiescedMeansNoClaims
=============================================================================
