-------------------------- MODULE Scheduler_proofs --------------------------
(***************************************************************************)
(* What holds of the scheduler for every catalog, whatever is rewired,     *)
(* instantiated, blocked, invalidated or registered, and in any order.     *)
(***************************************************************************)
EXTENDS Scheduler, TLAPS

States == Unstarted \cup Active \cup Finished \cup {"ABSENT"}
Dead   == {"INVALID_EVIDENCE", "CANCELLED"}

(* The ledger: who unlocks, who is ready, who waits.                       *)
Board == UnlocksAreAccepted /\ BuiltOnAccepted /\ NoForgottenDependent /\ PinnedStand
Keyed == ReviewsTheCandidate /\ NoDuplicateReview
IInv  == TypeOK /\ Board /\ ClaimsSound /\ Keyed

-----------------------------------------------------------------------------
(* What a recompute does to one row: it decides the unstarted rows by      *)
(* their dependencies and leaves the others as the verb put them.          *)
Decided(x, s) ==
  /\ s \notin Unstarted => st'[x] = s
  /\ s \in Unstarted => /\ st'[x] \in {"READY", "WAITING_DEPENDENCY"}
                        /\ st'[x] = "READY" => deps'[x] \subseteq unlocks'
                        /\ (st'[x] # "READY" /\ x \notin Gated) => ~(deps'[x] \subseteq unlocks')

LEMMA Recomputing ==
  ASSUME NEW s \in [Tasks -> States], Recompute(s)
  PROVE  /\ st' \in [Tasks -> States]
         /\ \A x \in Tasks : Decided(x, s[x])
<1>1. \A x \in Tasks : st'[x] = IF s[x] \notin Unstarted THEN s[x]
          ELSE IF Satisfied(x, s, unlocks', deps', reviewed') THEN "READY" ELSE "WAITING_DEPENDENCY"
  BY DEF Recompute, Readiness
<1>2. \A x \in Tasks : x \notin Gated =>
          (Satisfied(x, s, unlocks', deps', reviewed') <=> deps'[x] \subseteq unlocks')
  BY DEF Satisfied
<1>3. \A x \in Tasks : Satisfied(x, s, unlocks', deps', reviewed') => deps'[x] \subseteq unlocks'
  BY DEF Satisfied
<1>4. \A x \in Tasks : Decided(x, s[x])
  BY <1>1, <1>2, <1>3 DEF Decided, Unstarted
<1>5. \A x \in Tasks : st'[x] \in States
  BY <1>1 DEF States, Unstarted
<1>6. st' = [x \in Tasks |-> st'[x]]
  BY DEF Recompute, Readiness
<1>7. QED BY <1>4, <1>5, <1>6

(* The same for the two ways the verbs call it.                            *)
LEMMA Marking ==
  ASSUME TypeOK, NEW t \in Tasks, NEW v \in States, Recompute(Marked(t, v))
  PROVE  /\ st' \in [Tasks -> States]
         /\ Decided(t, v)
         /\ \A x \in Tasks \ {t} : Decided(x, st[x])
<1>1. Marked(t, v) \in [Tasks -> States]
  BY DEF TypeOK, Marked, States
<1>2. Marked(t, v)[t] = v /\ \A x \in Tasks \ {t} : Marked(t, v)[x] = st[x]
  BY DEF TypeOK, Marked
<1>3. QED BY <1>1, <1>2, Recomputing

LEMMA Refreshing ==
  ASSUME TypeOK, Recompute(st)
  PROVE  /\ st' \in [Tasks -> States]
         /\ \A x \in Tasks : Decided(x, st[x])
<1>1. st \in [Tasks -> States]
  BY DEF TypeOK, States
<1>2. QED BY <1>1, Recomputing

-----------------------------------------------------------------------------
(* Every verb keeps the types.                                             *)
LEMMA TypeStep == ASSUME TypeOK, Next PROVE TypeOK'
<1> USE SchedulerAssumption DEF TypeOK
<1>1. CASE RunStep
  BY <1>1 DEF RunStep, BindChief, SatisfyGate, Activate, Drain, BindController, RegisterCandidate,
              rows, runRow
<1>2. CASE Ready \/ Reconcile
  BY <1>2, Refreshing DEF Ready, Reconcile, rows, runRow, States
<1>3. ASSUME NEW t \in Tasks, RowStep(t) PROVE TypeOK'
  <2>1. CASE Instantiate(t)
    <3>1. st' \in [Tasks -> States]
      BY <2>1, Marking DEF Instantiate, States, Unstarted
    <3>2. deps' \in [Tasks -> SUBSET Tasks]
      BY <2>1 DEF Instantiate, Existing
    <3>3. key' \in [Tasks -> Keys \cup {NoKey}]
      <4>1. UNCHANGED key \/ \E s \in Scopes : key' = [key EXCEPT ![t] = [cand |-> candidate, scope |-> s]]
        BY <2>1 DEF Instantiate
      <4>2. ~UNCHANGED key => \A s \in Scopes : [cand |-> candidate, scope |-> s] \in Keys
        BY <2>1 DEF Instantiate, Keys
      <4>3. QED BY <4>1, <4>2
    <3>4. QED BY <2>1, <3>1, <3>2, <3>3 DEF Instantiate, runRow, States
  <2>2. CASE Claim(t)
    BY <2>2 DEF Claim, Marked, Active, runRow
  <2>3. CASE Start(t)
    BY <2>3 DEF Start, Marked, Active, runRow
  <2>4. ASSUME Result(t), owned' \in [Tasks -> SUBSET Files] PROVE TypeOK'
    <3>1. PICK outcome \in Outcomes, unlock \in BOOLEAN, commit \in BOOLEAN :
             /\ StoreVerdict(t, outcome)
             /\ unlocks' = IF unlock THEN unlocks \cup {t} ELSE unlocks \ {t}
             /\ output' = IF commit THEN output \cup {t} ELSE output \ {t}
             /\ UNCHANGED <<runRow, candidate, deps, child, key, pinned>>
             /\ Recompute(Marked(t, outcome))
      BY <2>4 DEF Result
    <3>2. st' \in [Tasks -> States]
      BY <3>1, Marking DEF States, Finished
    <3>3. reviewed' \in [Tasks -> Commits \cup {None}]
      BY <3>1 DEF StoreVerdict, Verdicts
    <3>4. QED BY <2>4, <3>1, <3>2, <3>3 DEF runRow, States
  <2>5. CASE Adopt(t)
    BY <2>4, <2>5 DEF Adopt
  <2>6. CASE Complete(t)
    BY <2>4, <2>6 DEF Complete
  <2>7. CASE Block(t)
    BY <2>7 DEF Block, Marked, Finished, Outcomes, rows, runRow
  <2>8. CASE Unblock(t)
    BY <2>8, Marking DEF Unblock, rows, runRow, States, Unstarted
  <2>9. CASE Promote(t)
    <3>1. st' \in [Tasks -> States]
      BY <2>9, Marking DEF Promote, States, Finished, Outcomes, Accepted
    <3>2. reviewed' \in [Tasks -> Commits \cup {None}]
      BY <2>9 DEF Promote, StoreVerdict, Verdicts
    <3>3. QED BY <2>9, <3>1, <3>2 DEF Promote, runRow, States
  <2>10. CASE Rewire(t)
    <3>1. st' \in [Tasks -> States]
      BY <2>10, Refreshing DEF Rewire
    <3>2. deps' \in [Tasks -> SUBSET Tasks]
      BY <2>10 DEF Rewire, Existing
    <3>3. QED BY <2>10, <3>1, <3>2 DEF Rewire, runRow, States
  <2>11. CASE Retire(t)
    BY <2>11 DEF Retire, Marked, Finished, runRow
  <2>12. CASE Invalidate(t)
    BY <2>12 DEF Invalidate, Marked, Finished, Outcomes, runRow
  <2>13. ASSUME NEW role \in ReviewRoles, RecordReview(t, role) PROVE TypeOK'
    <3>1. st' \in [Tasks -> States]
      BY <2>13, Refreshing DEF RecordReview
    <3>2. reviewed' \in [Tasks -> Commits \cup {None}]
      BY <2>13 DEF RecordReview, Verdicts
    <3>3. QED BY <2>13, <3>1, <3>2 DEF RecordReview, runRow, States
  <2>14. QED BY <1>3, <2>1, <2>2, <2>3, <2>5, <2>6, <2>7, <2>8, <2>9, <2>10, <2>11, <2>12, <2>13
            DEF RowStep
<1>4. QED BY <1>1, <1>2, <1>3 DEF Next

-----------------------------------------------------------------------------
(* Every verb keeps the board: what one row may lose, no other stands on.  *)
LEMMA BoardStep == ASSUME TypeOK, TypeOK', Board, Next PROVE Board'
<1> DEFINE Safe(x) ==
      /\ x \in unlocks' => st'[x] \in Accepted
      /\ st'[x] \in {"READY"} \cup Active => deps'[x] \subseteq unlocks'
      /\ x \notin Gated => /\ st'[x] # "PLANNED"
                           /\ st'[x] = "WAITING_DEPENDENCY" => ~(deps'[x] \subseteq unlocks')
      /\ x \in pinned' => st'[x] \in Accepted
<1>1. (\A x \in Tasks : Safe(x)) => Board'
  BY DEF Board, UnlocksAreAccepted, BuiltOnAccepted, NoForgottenDependent, PinnedStand, TypeOK
<1>2. \A x \in Tasks :
        /\ x \in unlocks => st[x] \in Accepted
        /\ st[x] \in {"READY"} \cup Active => deps[x] \subseteq unlocks
        /\ x \notin Gated => /\ st[x] # "PLANNED"
                             /\ st[x] = "WAITING_DEPENDENCY" => ~(deps[x] \subseteq unlocks)
        /\ x \in pinned => st[x] \in Accepted
  BY DEF Board, UnlocksAreAccepted, BuiltOnAccepted, NoForgottenDependent, PinnedStand
(* A row decided anew by a step that leaves its dependencies alone.        *)
<1>3. ASSUME NEW x \in Tasks, Decided(x, st[x]), deps'[x] = deps[x], unlocks \subseteq unlocks',
             x \in unlocks' => x \in unlocks, x \in pinned' => x \in pinned
      PROVE  Safe(x)
  BY <1>2, <1>3 DEF Decided, Unstarted, Active, Accepted
(* A row the step does not touch, while no other row stops unlocking.      *)
<1>4. ASSUME NEW x \in Tasks, st'[x] = st[x], deps'[x] = deps[x], unlocks' = unlocks,
             x \in pinned' => x \in pinned
      PROVE  Safe(x)
  BY <1>2, <1>4
<1>5. CASE RunStep
  <2>1. /\ st' = st /\ deps' = deps /\ unlocks' = unlocks
        /\ \A x \in pinned' : x \in pinned \/ st[x] = "VERIFIED"
    BY <1>5 DEF RunStep, BindChief, SatisfyGate, Activate, Drain, BindController,
                RegisterCandidate, rows
  <2>2. \A x \in Tasks : Safe(x)
    BY <1>2, <2>1 DEF Accepted
  <2>3. QED BY <1>1, <2>2
<1>6. CASE Ready \/ Reconcile
  <2>1. \A x \in Tasks : Decided(x, st[x])
    BY <1>6, Refreshing DEF Ready, Reconcile
  <2>2. deps' = deps /\ unlocks' = unlocks /\ pinned' = pinned
    BY <1>6 DEF Ready, Reconcile, rows
  <2>3. QED BY <1>1, <1>3, <2>1, <2>2
<1>7. ASSUME NEW t \in Tasks, RowStep(t) PROVE Board'
  <2>1. CASE Instantiate(t)
    <3>1. Decided(t, "PLANNED") /\ \A x \in Tasks \ {t} : Decided(x, st[x])
      BY <2>1, Marking DEF Instantiate, States, Unstarted
    <3>2. /\ st[t] = "ABSENT" /\ unlocks' = unlocks /\ pinned' = pinned
          /\ \A x \in Tasks \ {t} : deps'[x] = deps[x]
      BY <2>1 DEF Instantiate, TypeOK
    <3>3. Safe(t)
      BY <1>2, <3>1, <3>2 DEF Decided, Unstarted, Accepted, Active
    <3>4. QED BY <1>1, <1>3, <3>1, <3>2, <3>3
  <2>2. CASE Claim(t)
    BY <1>1, <1>2, <1>4, <2>2 DEF Claim, Marked, TypeOK, Active, Accepted
  <2>3. CASE Start(t)
    BY <1>1, <1>2, <1>4, <2>3 DEF Start, Marked, TypeOK, Active, Accepted
  <2>4. ASSUME Result(t), st[t] \in Unstarted \cup Active PROVE Board'
    <3>1. PICK outcome \in Outcomes, unlock \in BOOLEAN :
             /\ unlock => outcome \in Accepted
             /\ unlocks' = IF unlock THEN unlocks \cup {t} ELSE unlocks \ {t}
             /\ UNCHANGED <<deps, pinned>>
             /\ Recompute(Marked(t, outcome))
      BY <2>4 DEF Result
    <3>2. Decided(t, outcome) /\ \A x \in Tasks \ {t} : Decided(x, st[x])
      BY <3>1, Marking DEF States, Finished
    <3>3. t \notin unlocks /\ t \notin pinned
      BY <1>2, <2>4 DEF Unstarted, Active, Accepted
    <3>4. Safe(t)
      BY <3>1, <3>2, <3>3 DEF Decided, Outcomes, Unstarted, Accepted, Active
    <3>5. QED BY <1>1, <1>3, <3>1, <3>2, <3>3, <3>4
  <2>5. CASE Adopt(t)
    BY <2>4, <2>5 DEF Adopt
  <2>6. CASE Complete(t)
    BY <2>4, <2>6 DEF Complete
  <2>7. CASE Block(t)
    <3>1. /\ st'[t] = "BLOCKED" /\ unlocks' = unlocks /\ deps' = deps /\ pinned' = pinned
          /\ \A x \in Tasks \ {t} : st'[x] = st[x]
      BY <2>7 DEF Block, Marked, rows, TypeOK
    <3>2. t \notin unlocks /\ t \notin pinned
      BY <1>2, <2>7 DEF Block, Unstarted, Accepted
    <3>3. QED BY <1>1, <1>4, <3>1, <3>2 DEF Active
  <2>8. CASE Unblock(t)
    <3>1. Decided(t, "PLANNED") /\ \A x \in Tasks \ {t} : Decided(x, st[x])
      BY <2>8, Marking DEF Unblock, States, Unstarted
    <3>2. st[t] = "BLOCKED" /\ unlocks' = unlocks /\ deps' = deps /\ pinned' = pinned
      BY <2>8 DEF Unblock, rows
    <3>3. Safe(t)
      BY <1>2, <3>1, <3>2 DEF Decided, Unstarted, Accepted, Active
    <3>4. QED BY <1>1, <1>3, <3>1, <3>2, <3>3
  <2>9. CASE Promote(t)
    <3>1. Decided(t, "INTEGRATED") /\ \A x \in Tasks \ {t} : Decided(x, st[x])
      BY <2>9, Marking DEF Promote, States, Finished, Outcomes, Accepted
    <3>2. unlocks' = unlocks \cup {t} /\ deps' = deps /\ pinned' = pinned
      BY <2>9 DEF Promote
    <3>3. Safe(t)
      BY <3>1, <3>2 DEF Decided, Unstarted, Accepted, Active
    <3>4. QED BY <1>1, <1>3, <3>1, <3>2, <3>3
  <2>10. CASE Rewire(t)
    <3>1. \A x \in Tasks : Decided(x, st[x])
      BY <2>10, Refreshing DEF Rewire
    <3>2. /\ st[t] \in Unstarted /\ unlocks' = unlocks /\ pinned' = pinned
          /\ \A x \in Tasks \ {t} : deps'[x] = deps[x]
      BY <2>10 DEF Rewire, TypeOK
    <3>3. Safe(t)
      BY <1>2, <3>1, <3>2 DEF Decided, Unstarted, Accepted, Active
    <3>4. QED BY <1>1, <1>3, <3>1, <3>2, <3>3
  <2>11. CASE Retire(t)
    <3>1. /\ st'[t] = "CANCELLED" /\ unlocks' = unlocks /\ deps' = deps /\ pinned' = pinned
          /\ \A x \in Tasks \ {t} : st'[x] = st[x]
      BY <2>11 DEF Retire, Marked, TypeOK
    <3>2. t \notin unlocks /\ t \notin pinned
      BY <1>2, <2>11 DEF Retire, Retirable, Unstarted, Accepted
    <3>3. QED BY <1>1, <1>4, <3>1, <3>2 DEF Active
  <2>12. CASE Invalidate(t)
    <3>1. /\ st'[t] = "INVALID_EVIDENCE" /\ unlocks' = unlocks \ {t} /\ deps' = deps
          /\ pinned' = pinned /\ \A x \in Tasks \ {t} : st'[x] = st[x]
      BY <2>12 DEF Invalidate, Marked, TypeOK
    <3>2. t \notin pinned
      BY <1>2, <2>12 DEF Invalidate, Unconsumed, Accepted
    <3>3. t \in unlocks => \A x \in Tasks : st[x] \in {"READY"} \cup Active => t \notin deps[x]
      BY <1>2, <2>12 DEF Invalidate, Unconsumed, Accepted, Existing, Active
    <3>4. Safe(t)
      BY <3>1, <3>2 DEF Active
    <3>5. \A x \in Tasks \ {t} : Safe(x)
      BY <1>2, <3>1, <3>3
    <3>6. QED BY <1>1, <3>4, <3>5
  <2>13. ASSUME NEW role \in ReviewRoles, RecordReview(t, role) PROVE Board'
    <3>1. \A x \in Tasks : Decided(x, st[x])
      BY <2>13, Refreshing DEF RecordReview
    <3>2. deps' = deps /\ unlocks' = unlocks /\ pinned' = pinned
      BY <2>13 DEF RecordReview
    <3>3. QED BY <1>1, <1>3, <3>1, <3>2
  <2>14. QED BY <1>7, <2>1, <2>2, <2>3, <2>5, <2>6, <2>7, <2>8, <2>9, <2>10, <2>11, <2>12, <2>13
            DEF RowStep
<1>8. QED BY <1>5, <1>6, <1>7 DEF Next

-----------------------------------------------------------------------------
(* What a step can do to the state of one row, for the properties that     *)
(* only ask whether an attempt of it is out or its review is dead.         *)
LEMMA DecidedKeeps ==
  ASSUME NEW x, NEW s \in States, Decided(x, s)
  PROVE  /\ st'[x] \in Active <=> s \in Active
         /\ s \in Dead => st'[x] \in Dead
         /\ st'[x] \in Accepted <=> s \in Accepted
BY DEF Decided, States, Unstarted, Active, Finished, Outcomes, Dead, Accepted

(* A claim is taken with an attempt, against every other, and released     *)
(* with it.                                                                *)
LEMMA ClaimsStep == ASSUME TypeOK, TypeOK', ClaimsSound, Next PROVE ClaimsSound'
<1>1. \A t \in Tasks : st[t] \in Active <=> owned[t] # {}
  BY DEF ClaimsSound, ClaimFollowsAttempt
<1>2. \A t, x \in Tasks : t # x => owned[t] \cap owned[x] = {}
  BY DEF ClaimsSound, ClaimsDisjoint
<1> USE DEF ClaimsSound, ClaimFollowsAttempt, ClaimsDisjoint
(* Steps that start and end no attempt.                                    *)
<1>3. ASSUME owned' = owned, \A x \in Tasks : st'[x] \in Active <=> st[x] \in Active
      PROVE  ClaimsSound'
  BY <1>1, <1>2, <1>3
<1>4. CASE RunStep
  BY <1>3, <1>4 DEF RunStep, BindChief, SatisfyGate, Activate, Drain, BindController,
                    RegisterCandidate, rows
<1>5. \A x \in Tasks : st[x] \in States
  BY DEF TypeOK, States
<1>6. ASSUME \A x \in Tasks : Decided(x, st[x]), owned' = owned PROVE ClaimsSound'
  BY <1>3, <1>5, <1>6, DecidedKeeps
<1>7. CASE Ready \/ Reconcile
  BY <1>6, <1>7, Refreshing DEF Ready, Reconcile, rows
<1>8. ASSUME NEW t \in Tasks, RowStep(t) PROVE ClaimsSound'
  (* A row outside an attempt that the verb marks with another such state. *)
  <2>1. ASSUME NEW v \in States \ Active, st[t] \notin Active, owned' = owned,
               Recompute(Marked(t, v)) \/ st' = Marked(t, v)
        PROVE  ClaimsSound'
    <3>1. CASE Recompute(Marked(t, v))
      <4>1. Decided(t, v) /\ \A x \in Tasks \ {t} : Decided(x, st[x])
        BY <2>1, <3>1, Marking
      <4>2. \A x \in Tasks : st'[x] \in Active <=> st[x] \in Active
        BY <2>1, <4>1, <1>5, DecidedKeeps
      <4>3. QED BY <1>3, <2>1, <4>2
    <3>2. CASE st' = Marked(t, v)
      BY <1>3, <2>1, <3>2 DEF Marked, TypeOK
    <3>3. QED BY <2>1, <3>1, <3>2
  <2>2. CASE Instantiate(t)
    BY <2>1, <2>2 DEF Instantiate, States, Unstarted, Active
  <2>3. CASE Claim(t)
    <3>1. PICK F \in (SUBSET Files) \ {{}} :
             (\A x \in Tasks : F \cap owned[x] = {}) /\ owned' = [owned EXCEPT ![t] = F]
      BY <2>3 DEF Claim
    <3>2. owned'[t] = F /\ \A x \in Tasks \ {t} : owned'[x] = owned[x]
      BY <3>1 DEF TypeOK
    <3>3. st'[t] \in Active /\ \A x \in Tasks \ {t} : st'[x] = st[x]
      BY <2>3 DEF Claim, Marked, TypeOK, Active
    <3>4. \A x \in Tasks : st'[x] \in Active <=> owned'[x] # {}
      <4>1. F # {}
        BY <3>1
      <4>2. \A x \in Tasks \ {t} : st'[x] \in Active <=> owned'[x] # {}
        BY <1>1, <3>2, <3>3
      <4>3. QED BY <3>2, <3>3, <4>1, <4>2
    <3>5. ASSUME NEW x \in Tasks, NEW y \in Tasks, x # y PROVE owned'[x] \cap owned'[y] = {}
      <4>1. CASE x = t
        BY <3>1, <3>2, <3>5, <4>1
      <4>2. CASE y = t
        BY <3>1, <3>2, <3>5, <4>2
      <4>3. QED BY <1>2, <3>2, <3>5, <4>1, <4>2
    <3>6. QED BY <3>4, <3>5
  <2>4. CASE Start(t)
    <3>1. st[t] \in Active /\ st'[t] \in Active /\ \A x \in Tasks \ {t} : st'[x] = st[x]
      BY <2>4 DEF Start, Marked, TypeOK, Active
    <3>2. QED BY <1>3, <2>4, <3>1 DEF Start
  <2>5. CASE Adopt(t)
    <3>1. PICK outcome \in Outcomes : Recompute(Marked(t, outcome))
      BY <2>5 DEF Adopt, Result
    <3>2. outcome \in States \ Active /\ st[t] \notin Active /\ owned' = owned
      BY <2>5, <3>1 DEF Adopt, States, Finished, Outcomes, Accepted, Active, Unstarted
    <3>3. QED BY <2>1, <3>1, <3>2
  <2>6. CASE Complete(t)
    <3>1. PICK outcome \in Outcomes : Recompute(Marked(t, outcome))
      BY <2>6 DEF Complete, Result
    <3>2. Decided(t, outcome) /\ \A x \in Tasks \ {t} : Decided(x, st[x])
      BY <3>1, Marking DEF States, Finished
    <3>3. st'[t] \notin Active
      BY <3>1, <3>2 DEF Decided, Outcomes, Accepted, Unstarted, Active
    <3>4. \A x \in Tasks \ {t} : st'[x] \in Active <=> st[x] \in Active
      BY <3>2, <1>5, DecidedKeeps
    <3>5. owned'[t] = {} /\ \A x \in Tasks \ {t} : owned'[x] = owned[x]
      BY <2>6 DEF Complete, TypeOK
    <3>6. QED BY <1>1, <1>2, <3>3, <3>4, <3>5
  <2>7. CASE Block(t)
    BY <2>1, <2>7 DEF Block, rows, States, Finished, Outcomes, Unstarted, Active
  <2>8. CASE Unblock(t)
    BY <2>1, <2>8 DEF Unblock, rows, States, Unstarted, Active
  <2>9. CASE Promote(t)
    BY <2>1, <2>9 DEF Promote, States, Finished, Outcomes, Accepted, Active
  <2>10. CASE Rewire(t)
    BY <1>6, <2>10, Refreshing DEF Rewire
  (* Retire and invalidate find no active claim to release.                *)
  <2>11. ASSUME st[t] \notin Active, owned' = [owned EXCEPT ![t] = {}] PROVE owned' = owned
    BY <1>1, <2>11 DEF TypeOK
  <2>12. CASE Retire(t)
    <3>1. st[t] \notin Active
      BY <2>12 DEF Retire, Retirable, Unstarted, Active
    <3>2. QED BY <2>1, <2>11, <2>12, <3>1 DEF Retire, States, Finished, Active, Outcomes, Accepted
  <2>13. CASE Invalidate(t)
    <3>1. st[t] \notin Active
      BY <2>13 DEF Invalidate, Active
    <3>2. QED BY <2>1, <2>11, <2>13, <3>1 DEF Invalidate, States, Finished, Outcomes, Accepted, Active
  <2>14. ASSUME NEW role \in ReviewRoles, RecordReview(t, role) PROVE ClaimsSound'
    BY <1>6, <2>14, Refreshing DEF RecordReview
  <2>15. QED BY <1>8, <2>2, <2>3, <2>4, <2>5, <2>6, <2>7, <2>8, <2>9, <2>10, <2>12, <2>13, <2>14
            DEF RowStep
<1>9. QED BY <1>4, <1>7, <1>8 DEF Next

-----------------------------------------------------------------------------
(* Reviews: a keyed review is claimed for the registered candidate, the    *)
(* candidate changes only between attempts, and dead reviews stay dead.    *)
LEMMA KeyedStep == ASSUME TypeOK, TypeOK', Keyed, Next PROVE Keyed'
<1>1. \A x \in Tasks : (st[x] \in Active /\ key[x] # NoKey) => key[x].cand = candidate
  BY DEF Keyed, ReviewsTheCandidate
<1>2. \A x, y \in Tasks : (x # y /\ key[x] # NoKey /\ key[x] = key[y] /\ Kind[x] = Kind[y])
                          => st[x] \in Dead \/ st[y] \in Dead
  BY DEF Keyed, NoDuplicateReview, Dead
<1>3. ASSUME \A x \in Tasks : (st'[x] \in Active /\ key'[x] # NoKey) => key'[x].cand = candidate',
             \A x, y \in Tasks : (x # y /\ key'[x] # NoKey /\ key'[x] = key'[y] /\ Kind[x] = Kind[y])
                          => st'[x] \in Dead \/ st'[y] \in Dead
      PROVE  Keyed'
  BY <1>3 DEF Keyed, ReviewsTheCandidate, NoDuplicateReview, Dead
(* Steps that start no attempt and revive nothing.                         *)
<1>4. ASSUME key' = key, candidate' = candidate,
             \A x \in Tasks : /\ st'[x] \in Active => st[x] \in Active
                              /\ st[x] \in Dead => st'[x] \in Dead
      PROVE  Keyed'
  <2>1. \A x \in Tasks : (st'[x] \in Active /\ key'[x] # NoKey) => key'[x].cand = candidate'
    BY <1>1, <1>4
  <2>2. ASSUME NEW x \in Tasks, NEW y \in Tasks, x # y, key'[x] # NoKey, key'[x] = key'[y],
               Kind[x] = Kind[y]
        PROVE  st'[x] \in Dead \/ st'[y] \in Dead
    <3>1. st[x] \in Dead \/ st[y] \in Dead
      BY <1>2, <1>4, <2>2
    <3>2. QED BY <1>4, <3>1
  <2>3. QED BY <1>3, <2>1, <2>2
<1>5. \A x \in Tasks : st[x] \in States
  BY DEF TypeOK, States
<1>6. ASSUME \A x \in Tasks : Decided(x, st[x]), key' = key, candidate' = candidate PROVE Keyed'
  BY <1>4, <1>5, <1>6, DecidedKeeps
<1>7. CASE RunStep
  <2>1. CASE \E c \in Commits : RegisterCandidate(c)
    <3>1. st' = st /\ key' = key /\ \A x \in Tasks : st[x] \notin Active
      BY <2>1 DEF RegisterCandidate
    <3>2. QED BY <1>2, <1>3, <3>1
  <2>2. CASE ~\E c \in Commits : RegisterCandidate(c)
    <3>1. st' = st /\ key' = key /\ candidate' = candidate
      BY <1>7, <2>2 DEF RunStep, BindChief, SatisfyGate, Activate, Drain, BindController, rows
    <3>2. QED BY <1>4, <3>1
  <2>3. QED BY <2>1, <2>2
<1>8. CASE Ready \/ Reconcile
  BY <1>6, <1>8, Refreshing DEF Ready, Reconcile, rows
<1>9. ASSUME NEW t \in Tasks, RowStep(t) PROVE Keyed'
  <2>1. ASSUME NEW v \in States \ Active, st[t] \notin Dead \/ v \in Dead, key' = key,
               candidate' = candidate, Recompute(Marked(t, v)) \/ st' = Marked(t, v)
        PROVE  Keyed'
    <3>1. CASE Recompute(Marked(t, v))
      <4>1. Decided(t, v) /\ \A x \in Tasks \ {t} : Decided(x, st[x])
        BY <2>1, <3>1, Marking
      <4>2. (st'[t] \notin Active) /\ (v \in Dead => st'[t] \in Dead)
        BY <2>1, <4>1, DecidedKeeps
      <4>3. \A x \in Tasks \ {t} : /\ st'[x] \in Active => st[x] \in Active
                                   /\ st[x] \in Dead => st'[x] \in Dead
        BY <4>1, <1>5, DecidedKeeps
      <4>4. QED BY <1>4, <2>1, <4>2, <4>3
    <3>2. CASE st' = Marked(t, v)
      <4>1. st'[t] = v /\ \A x \in Tasks \ {t} : st'[x] = st[x]
        BY <3>2 DEF Marked, TypeOK
      <4>2. QED BY <1>4, <2>1, <4>1
    <3>3. QED BY <2>1, <3>1, <3>2
  <2>2. CASE Instantiate(t)
    <3>1. Decided(t, "PLANNED") /\ \A x \in Tasks \ {t} : Decided(x, st[x])
      BY <2>2, Marking DEF Instantiate, States, Unstarted
    <3>2. st'[t] \notin Active
      BY <3>1 DEF Decided, Unstarted, Active
    <3>3. \A x \in Tasks \ {t} : /\ st'[x] \in Active => st[x] \in Active
                                 /\ st[x] \in Dead => st'[x] \in Dead
      BY <3>1, <1>5, DecidedKeeps
    <3>4. candidate' = candidate /\ \A x \in Tasks \ {t} : key'[x] = key[x]
      BY <2>2 DEF Instantiate, TypeOK
    <3>5. CASE UNCHANGED key
      <4>1. st[t] \notin Dead
        BY <2>2 DEF Instantiate, Dead
      <4>2. QED BY <1>4, <3>2, <3>3, <3>4, <3>5, <4>1
    <3>6. ASSUME NEW s \in Scopes, ~Duplicate(t, [cand |-> candidate, scope |-> s]),
                 key' = [key EXCEPT ![t] = [cand |-> candidate, scope |-> s]]
          PROVE  Keyed'
      <4>1. \A x \in Tasks : (Kind[x] = Kind[t] /\ key[x] = key'[t]) => st[x] \in Dead
        BY <3>6 DEF Duplicate, Dead, TypeOK
      <4>2. \A x \in Tasks : (st'[x] \in Active /\ key'[x] # NoKey) => key'[x].cand = candidate'
        <5>1. \A x \in Tasks \ {t} : (st'[x] \in Active /\ key'[x] # NoKey) => key'[x].cand = candidate'
          BY <1>1, <3>3, <3>4
        <5>2. QED BY <3>2, <5>1
      <4>3. ASSUME NEW x \in Tasks, NEW y \in Tasks, x # y, key'[x] # NoKey, key'[x] = key'[y],
                   Kind[x] = Kind[y]
            PROVE  st'[x] \in Dead \/ st'[y] \in Dead
        <5>1. CASE x = t
          <6>1. y \in Tasks \ {t} /\ key[y] = key'[t] /\ Kind[y] = Kind[t]
            BY <3>4, <4>3, <5>1
          <6>2. st[y] \in Dead
            BY <4>1, <6>1
          <6>3. QED BY <3>3, <6>1, <6>2
        <5>2. CASE y = t
          <6>1. x \in Tasks \ {t} /\ key[x] = key'[t] /\ Kind[x] = Kind[t]
            BY <3>4, <4>3, <5>2
          <6>2. st[x] \in Dead
            BY <4>1, <6>1
          <6>3. QED BY <3>3, <6>1, <6>2
        <5>3. CASE x # t /\ y # t
          <6>1. x \in Tasks \ {t} /\ y \in Tasks \ {t} /\ key'[x] = key[x] /\ key'[y] = key[y]
            BY <3>4, <5>3
          <6>2. st[x] \in Dead \/ st[y] \in Dead
            BY <1>2, <4>3, <6>1
          <6>3. QED BY <3>3, <6>1, <6>2
        <5>4. QED BY <5>1, <5>2, <5>3
      <4>4. QED BY <1>3, <4>2, <4>3
    <3>7. QED BY <2>2, <3>5, <3>6 DEF Instantiate
  <2>3. CASE Claim(t)
    <3>1. /\ st[t] = "READY" /\ st'[t] = "CLAIMED" /\ \A x \in Tasks \ {t} : st'[x] = st[x]
          /\ key' = key /\ candidate' = candidate /\ (key[t] # NoKey => key[t].cand = candidate)
      BY <2>3 DEF Claim, Marked, TypeOK
    <3>2. st[t] \notin Dead
      BY <3>1 DEF Dead
    <3>3. \A x \in Tasks : (st'[x] \in Active /\ key'[x] # NoKey) => key'[x].cand = candidate'
      BY <1>1, <3>1
    <3>4. \A x \in Tasks : st[x] \in Dead => st'[x] \in Dead
      BY <3>1, <3>2
    <3>5. QED BY <1>2, <1>3, <3>1, <3>3, <3>4
  <2>4. CASE Start(t)
    <3>1. /\ st[t] = "CLAIMED" /\ \A x \in Tasks \ {t} : st'[x] = st[x]
          /\ key' = key /\ candidate' = candidate
      BY <2>4 DEF Start, Marked, TypeOK
    <3>2. QED BY <1>4, <3>1 DEF Active, Dead
  <2>5. CASE Adopt(t) \/ Complete(t)
    <3>1. PICK outcome \in Outcomes : Recompute(Marked(t, outcome))
      BY <2>5 DEF Adopt, Complete, Result
    <3>2. outcome \in States \ Active
      BY DEF States, Finished, Outcomes, Accepted, Active
    <3>3. st[t] \notin Dead /\ key' = key /\ candidate' = candidate
      BY <2>5 DEF Adopt, Complete, Result, Dead, Unstarted, Active
    <3>4. QED BY <2>1, <3>1, <3>2, <3>3
  <2>6. CASE Block(t)
    BY <2>1, <2>6 DEF Block, rows, States, Finished, Outcomes, Unstarted, Active, Dead
  <2>7. CASE Unblock(t)
    BY <2>1, <2>7 DEF Unblock, rows, States, Unstarted, Active, Dead
  <2>8. CASE Promote(t)
    BY <2>1, <2>8 DEF Promote, States, Finished, Outcomes, Accepted, Active, Dead
  <2>9. CASE Rewire(t)
    BY <1>6, <2>9, Refreshing DEF Rewire
  <2>10. CASE Retire(t)
    BY <2>1, <2>10 DEF Retire, States, Finished, Active, Dead
  <2>11. CASE Invalidate(t)
    BY <2>1, <2>11 DEF Invalidate, States, Finished, Outcomes, Active, Dead
  <2>12. ASSUME NEW role \in ReviewRoles, RecordReview(t, role) PROVE Keyed'
    BY <1>6, <2>12, Refreshing DEF RecordReview
  <2>13. QED BY <1>9, <2>2, <2>3, <2>4, <2>5, <2>6, <2>7, <2>8, <2>9, <2>10, <2>11, <2>12 DEF RowStep
<1>10. QED BY <1>7, <1>8, <1>9 DEF Next

-----------------------------------------------------------------------------
(* The life of one row: its two terminal states hold, and it is accepted   *)
(* only by a verb that asked review_gate.                                  *)
Lives(x) ==
  /\ st[x] \in {"INTEGRATED", "CANCELLED"} => st'[x] = st[x]
  /\ (st[x] \notin Accepted /\ st'[x] \in Accepted) => ReviewAllows(x, st'[x])

LEMMA RowLives == ASSUME TypeOK, Next, NEW x \in Tasks PROVE Lives(x)
<1>1. st[x] \in States
  BY DEF TypeOK, States
<1>2. CASE st'[x] = st[x] \/ Decided(x, st[x])
  BY <1>1, <1>2, DecidedKeeps DEF Lives, Decided, Unstarted
<1>3. CASE RunStep
  <2>1. st' = st
    BY <1>3 DEF RunStep, BindChief, SatisfyGate, Activate, Drain, BindController, RegisterCandidate, rows
  <2>2. QED BY <1>2, <2>1
<1>4. CASE Ready \/ Reconcile
  BY <1>2, <1>4, Refreshing DEF Ready, Reconcile
<1>5. ASSUME NEW t \in Tasks, RowStep(t) PROVE Lives(x)
  (* The verb marks row t with v, by a recompute or without.               *)
  <2>1. ASSUME NEW v \in States, st[t] \notin {"INTEGRATED", "CANCELLED"},
               v \in Accepted => ReviewAllows(t, v),
               Recompute(Marked(t, v)) \/ st' = Marked(t, v)
        PROVE  Lives(x)
    <3>1. CASE x # t
      BY <1>2, <2>1, <3>1, Marking DEF Marked, TypeOK
    <3>2. CASE x = t /\ st' = Marked(t, v)
      BY <2>1, <3>2 DEF Lives, Marked, TypeOK
    <3>3. CASE x = t /\ Recompute(Marked(t, v))
      <4>1. Decided(t, v)
        BY <2>1, <3>3, Marking
      <4>2. st'[t] \in Accepted => v \in Accepted /\ st'[t] = v
        BY <4>1, DecidedKeeps DEF Decided, Unstarted, Accepted
      <4>3. QED BY <2>1, <3>3, <4>2 DEF Lives
    <3>4. QED BY <2>1, <3>1, <3>2, <3>3
  <2>2. CASE Instantiate(t)
    BY <2>1, <2>2 DEF Instantiate, States, Unstarted, Accepted
  <2>3. CASE Claim(t)
    BY <2>1, <2>3 DEF Claim, States, Active, Accepted
  <2>4. CASE Start(t)
    BY <2>1, <2>4 DEF Start, States, Active, Accepted
  <2>5. CASE Adopt(t) \/ Complete(t)
    <3>1. PICK outcome \in Outcomes : ReviewAllows(t, outcome) /\ Recompute(Marked(t, outcome))
      BY <2>5 DEF Adopt, Complete, Result
    <3>2. outcome \in States
      BY DEF States, Finished
    <3>3. st[t] \notin {"INTEGRATED", "CANCELLED"}
      BY <2>5 DEF Adopt, Complete, Unstarted, Active
    <3>4. QED BY <2>1, <3>1, <3>2, <3>3
  <2>6. CASE Block(t)
    BY <2>1, <2>6 DEF Block, States, Finished, Outcomes, Unstarted, Accepted
  <2>7. CASE Unblock(t)
    BY <2>1, <2>7 DEF Unblock, States, Unstarted, Accepted
  <2>8. CASE Promote(t)
    BY <2>1, <2>8 DEF Promote, States, Finished, Outcomes, Accepted
  <2>9. CASE Rewire(t)
    BY <1>2, <2>9, Refreshing DEF Rewire
  <2>10. CASE Retire(t)
    BY <2>1, <2>10 DEF Retire, Retirable, States, Finished, Unstarted, Accepted
  <2>11. CASE Invalidate(t)
    BY <2>1, <2>11 DEF Invalidate, States, Finished, Outcomes, Accepted
  <2>12. ASSUME NEW role \in ReviewRoles, RecordReview(t, role) PROVE Lives(x)
    BY <1>2, <2>12, Refreshing DEF RecordReview
  <2>13. QED BY <1>5, <2>2, <2>3, <2>4, <2>5, <2>6, <2>7, <2>8, <2>9, <2>10, <2>11, <2>12 DEF RowStep
<1>6. QED BY <1>3, <1>4, <1>5 DEF Next

-----------------------------------------------------------------------------
LEMMA Initially == Init => IInv
<1> SUFFICES ASSUME Init PROVE IInv
  OBVIOUS
<1> USE SchedulerAssumption
<1>1. /\ \A t \in Tasks : st[t] \in {"READY", "WAITING_DEPENDENCY", "ABSENT"}
      /\ \A t \in Tasks : st[t] = "READY" => deps[t] \subseteq unlocks
      /\ \A t \in Tasks : (t \notin Gated /\ st[t] = "WAITING_DEPENDENCY") => ~(deps[t] \subseteq unlocks)
  BY DEF Init, Readiness, Satisfied, Unstarted
<1>2. TypeOK
  <2>1. st \in [Tasks -> Unstarted \cup Active \cup Finished \cup {"ABSENT"}]
    <3>1. st = [t \in Tasks |-> st[t]]
      BY DEF Init, Readiness
    <3>2. QED BY <1>1, <3>1 DEF Unstarted
  <2>2. deps \in [Tasks -> SUBSET Tasks]
    BY DEF Init, Tasks
  <2>3. QED BY <2>1, <2>2 DEF TypeOK, Init
<1>3. Board
  BY <1>1 DEF Board, UnlocksAreAccepted, BuiltOnAccepted, NoForgottenDependent, PinnedStand, Init, Active
<1>4. ClaimsSound
  BY <1>1 DEF ClaimsSound, ClaimsDisjoint, ClaimFollowsAttempt, Init, Active
<1>5. Keyed
  BY DEF Keyed, ReviewsTheCandidate, NoDuplicateReview, Init
<1>6. QED BY <1>2, <1>3, <1>4, <1>5 DEF IInv

LEMMA Inductively == IInv /\ [Next]_vars => IInv'
<1> SUFFICES ASSUME IInv, [Next]_vars PROVE IInv'
  OBVIOUS
<1>1. CASE Next
  BY <1>1, TypeStep, BoardStep, ClaimsStep, KeyedStep DEF IInv
<1>2. CASE UNCHANGED vars
  BY <1>2 DEF vars, rows, runRow, IInv, TypeOK, Board, UnlocksAreAccepted, BuiltOnAccepted,
              NoForgottenDependent, PinnedStand, ClaimsSound, ClaimsDisjoint, ClaimFollowsAttempt,
              Keyed, ReviewsTheCandidate, NoDuplicateReview
<1>3. QED BY <1>1, <1>2

LEMMA Invariance == Spec => []IInv
BY Initially, Inductively, PTL DEF Spec

(* The state document keeps its types under every verb.                    *)
THEOREM SchedulerTypeOK == Spec => []TypeOK
<1>1. IInv => TypeOK
  BY DEF IInv
<1>2. QED BY <1>1, Invariance, PTL

(* Nothing is ready, claimed or running on a dependency that was taken     *)
(* away (rewire, invalidate, block, retire and register-candidate          *)
(* included).                                                              *)
THEOREM BuildsStandOnAccepted == Spec => []BuiltOnAccepted
<1>1. IInv => BuiltOnAccepted
  BY DEF IInv, Board
<1>2. QED BY <1>1, Invariance, PTL

(* The verb that satisfies a row's last dependency readies the row.        *)
THEOREM DependentsAreReadied == Spec => []NoForgottenDependent
<1>1. IInv => NoForgottenDependent
  BY DEF IInv, Board
<1>2. QED BY <1>1, Invariance, PTL

(* What the registered candidate contains is not invalidated under it.     *)
THEOREM CandidateStands == Spec => []PinnedStand
<1>1. IInv => PinnedStand
  BY DEF IInv, Board
<1>2. QED BY <1>1, Invariance, PTL

(* Active claims are disjoint, and a row has one exactly while an attempt  *)
(* of it is out.                                                           *)
THEOREM ClaimsExclude == Spec => []ClaimsSound
<1>1. IInv => ClaimsSound
  BY DEF IInv
<1>2. QED BY <1>1, Invariance, PTL

(* A keyed review runs only at the registered candidate.                   *)
THEOREM ReviewsAreCurrent == Spec => []ReviewsTheCandidate
<1>1. IInv => ReviewsTheCandidate
  BY DEF IInv, Keyed
<1>2. QED BY <1>1, Invariance, PTL

(* No two live reviews of one role look at the same thing.                 *)
THEOREM ReviewsAreUnique == Spec => []NoDuplicateReview
<1>1. IInv => NoDuplicateReview
  BY DEF IInv, Keyed
<1>2. QED BY <1>1, Invariance, PTL

(* INTEGRATED and CANCELLED are terminal.                                  *)
THEOREM TerminalRowsStay == Spec => TerminalStays
<1>1. TypeOK /\ [Next]_vars => [\A t \in Tasks : st[t] \in {"INTEGRATED", "CANCELLED"} => st'[t] = st[t]]_vars
  BY RowLives DEF Lives
<1>2. QED BY <1>1, SchedulerTypeOK, PTL DEF Spec, TerminalStays

(* A final row is accepted only on the registered candidate's reviews.     *)
THEOREM FinalAcceptance == Spec => FinalGate
<1>1. ASSUME TypeOK, Next, NEW f \in Finals, st[f] \notin Accepted, st'[f] \in Accepted
      PROVE  /\ deps[f] \subseteq unlocks
             /\ \A x \in NeedsReview(st) \cup {L35} : CurrentReview(x, reviewed)
  <2>1. f \in Tasks /\ f \in Gated /\ RoleOf(f) # "build"
    BY SchedulerAssumption DEF Tasks, Gated, RoleOf
  <2>2. ReviewAllows(f, st'[f])
    BY <1>1, <2>1, RowLives DEF Lives
  <2>3. CurrentReview(L35, reviewed) /\ Satisfied(f, st, unlocks, deps, reviewed)
    BY <1>1, <2>1, <2>2 DEF ReviewAllows
  <2>4. QED BY <2>1, <2>3 DEF Satisfied
<1>2. TypeOK /\ [Next]_vars =>
        [\A f \in Finals : (st[f] \notin Accepted /\ st'[f] \in Accepted) =>
             /\ deps[f] \subseteq unlocks
             /\ \A x \in NeedsReview(st) \cup {L35} : CurrentReview(x, reviewed)]_vars
  BY <1>1
<1>3. QED BY <1>2, SchedulerTypeOK, PTL DEF Spec, FinalGate

=============================================================================
