----------------------------- MODULE Scheduler -----------------------------
(***************************************************************************)
(* The dependency scheduler of the launch catalog                          *)
(* (ci/control/orchestration_control.py, with the verdict rules of         *)
(* ci/control/review_gate.py).  Its state is one JSON document; every verb *)
(* reads, checks and rewrites it under an exclusive flock (locked_state),  *)
(* so a verb is one step.  How that document and the files published from  *)
(* it survive a crash is the subject of module StateFile.                  *)
(*                                                                         *)
(* Hashed evidence files, chief ownership (any caller may pass             *)
(* --transferred), routes, the --stacked-on note and events are left out:  *)
(* they refuse malformed calls and no verb reads them again.  An attempt's *)
(* calls carry its own id.                                                 *)
(***************************************************************************)
EXTENDS Naturals, FiniteSets

CONSTANTS
  Catalog,      \* tasks of the fixed catalog
  Dynamic,      \* tasks `instantiate` may add
  CatalogDeps,  \* the catalog's depends_on
  Kind,         \* "build" or the review role of each task
  L35, Finals,  \* the consolidated review row; the final acceptance rows
  Files,        \* leaves of the repository tree: a claimed path is a set of leaves
  Sessions,     \* agent sessions (child_id, thread_id)
  Commits, Descends,  \* commits, and which descend from which
  Scopes,       \* what a review is asked to look at (diff_or_scope, union_sha)
  Chiefs, Gates,
  Rewirable,    \* tasks the pack re-points (roster packet.rewire)
  None

Tasks       == Catalog \cup Dynamic
Gated       == {L35} \cup Finals
ReviewRoles == {"junior", "security", "final_review"}

ASSUME SchedulerAssumption ==
  /\ CatalogDeps \in [Catalog -> SUBSET Catalog]
  /\ Kind \in [Tasks -> ReviewRoles \cup {"build"}]
  /\ Finals \subseteq Catalog
  /\ Finals # {} => L35 \in Catalog
  /\ Descends \subseteq Commits \X Commits
  /\ None \notin Commits \cup Sessions
  /\ Rewirable \subseteq Tasks

VARIABLES
  phase,      \* of the run
  thread,     \* thread bound to each chief
  satisfied,  \* activation gates with evidence
  candidate,  \* the registered review candidate
  st,         \* state of each row, "ABSENT" before it exists
  deps,       \* depends_on
  unlocks,    \* rows with unlocks_dependents
  child,      \* session of the last attempt started
  owned,      \* leaves of the row's ACTIVE claim, {} without one
  reviewed,   \* candidate of the row's junior PASS record
  key,        \* candidate and scope a review row was instantiated for
  output,     \* rows with an output_sha
  pinned      \* rows that were VERIFIED when the candidate was registered

runRow  == <<phase, thread, satisfied>>
rows    == <<deps, unlocks, child, owned, reviewed, key, output, pinned>>
vars    == <<runRow, candidate, st, rows>>

Unstarted == {"PLANNED", "WAITING_DEPENDENCY", "READY"}
Active    == {"CLAIMED", "RUNNING"}
Accepted  == {"VERIFIED", "INTEGRATED"}
Outcomes  == Accepted \cup {"REPAIR_REQUIRED", "BLOCKED", "INVALID_EVIDENCE"}
Finished  == Outcomes \cup {"CANCELLED"}
Retirable == Unstarted \cup {"REPAIR_REQUIRED", "BLOCKED", "INVALID_EVIDENCE"}

NoKey == [cand |-> None, scope |-> None]
Keys  == [cand : Commits, scope : Scopes]

TypeOK ==
  /\ phase \in {"PREPARED", "ACTIVE", "DRAINING"}
  /\ thread \in [Chiefs -> Sessions \cup {None}]
  /\ satisfied \subseteq Gates
  /\ candidate \in Commits \cup {None}
  /\ st \in [Tasks -> Unstarted \cup Active \cup Finished \cup {"ABSENT"}]
  /\ deps \in [Tasks -> SUBSET Tasks]
  /\ unlocks \subseteq Tasks
  /\ child \in [Tasks -> Sessions \cup {None}]
  /\ owned \in [Tasks -> SUBSET Files]
  /\ reviewed \in [Tasks -> Commits \cup {None}]
  /\ key \in [Tasks -> Keys \cup {NoKey}]
  /\ output \subseteq Tasks
  /\ pinned \subseteq Tasks

Existing == {t \in Tasks : st[t] # "ABSENT"}

-----------------------------------------------------------------------------
(* Readiness.                                                              *)

(* Rows whose integration the consolidated and final rows must see         *)
(* reviewed.                                                               *)
NeedsReview(s) == {t \in Tasks \ Gated : s[t] = "INTEGRATED" /\ Kind[t] = "build"}

CurrentReview(t, r) == candidate # None /\ r[t] = candidate

(* dependency_status, of a ledger with states s, unlocking rows u,         *)
(* dependencies d and review records r.                                    *)
Satisfied(t, s, u, d, r) ==
  /\ d[t] \subseteq u
  /\ t \in Gated => \A x \in NeedsReview(s) : CurrentReview(x, r)

Readiness(s, u, d, r) ==
  [t \in Tasks |->
     IF s[t] \notin Unstarted THEN s[t]
     ELSE IF Satisfied(t, s, u, d, r) THEN "READY" ELSE "WAITING_DEPENDENCY"]

(* Every verb that ends in recompute_readiness ends in this conjunct: s    *)
(* are the states the verb itself assigned.                                *)
Recompute(s) == st' = Readiness(s, unlocks', deps', reviewed')

Marked(t, state) == [st EXCEPT ![t] = state]

-----------------------------------------------------------------------------
(* Verdicts.                                                               *)

KnownAuthors == {child[t] : t \in {x \in Tasks : Kind[x] = "build"}}
                  \cup {thread[c] : c \in Chiefs}

(* Commits a clean PASS of this role can be recorded for now: the          *)
(* registered candidate or, but for the final review, a union tip that     *)
(* descends from it; written by the session of a dispatched review of the  *)
(* role, which built and controls nothing.                                 *)
Verdicts(role) ==
  {c \in Commits :
     /\ candidate # None
     /\ c = candidate \/ (role # "final_review" /\ <<candidate, c>> \in Descends)
     /\ \E t \in Existing : /\ Kind[t] = role
                            /\ child[t] \notin KnownAuthors \cup {None}}

RoleOf(t) == IF t = L35 THEN "junior"
             ELSE IF t \in Finals THEN "final_review" ELSE Kind[t]

(* faulty variant: the consolidated row's own check is thought enough *)
Faulty_ReviewAllows(t, outcome) ==
  (outcome \in Accepted /\ RoleOf(t) # "build") =>
    /\ Verdicts(RoleOf(t)) # {}
    /\ t \in Gated => deps[t] \subseteq unlocks

(* enforce_review_transition.  A verdict is stored on the row; only the    *)
(* junior record is ever read again.                                       *)
ReviewAllows(t, outcome) ==
  (outcome \in Accepted /\ RoleOf(t) # "build") =>
    /\ Verdicts(RoleOf(t)) # {}
    /\ t \in Finals => CurrentReview(L35, reviewed)
    /\ t \in Gated => Satisfied(t, st, unlocks, deps, reviewed)

StoreVerdict(t, outcome) ==
  IF outcome \in Accepted /\ RoleOf(t) = "junior"
    THEN \E c \in Verdicts("junior") : reviewed' = [reviewed EXCEPT ![t] = c]
    ELSE UNCHANGED reviewed

-----------------------------------------------------------------------------
(* The run.                                                                *)

Init ==
  /\ phase = "PREPARED"
  /\ thread = [c \in Chiefs |-> None]
  /\ satisfied = {}
  /\ candidate = None
  /\ deps = [t \in Tasks |-> IF t \in Catalog THEN CatalogDeps[t] ELSE {}]
  /\ unlocks = {}
  /\ child = [t \in Tasks |-> None]
  /\ owned = [t \in Tasks |-> {}]
  /\ reviewed = [t \in Tasks |-> None]
  /\ key = [t \in Tasks |-> NoKey]
  /\ output = {}
  /\ pinned = {}
  /\ st = Readiness([t \in Tasks |-> IF t \in Catalog THEN "PLANNED" ELSE "ABSENT"],
                    unlocks, deps, reviewed)

BindChief(c) ==
  /\ \E s \in Sessions : thread' = [thread EXCEPT ![c] = s]
  /\ UNCHANGED <<phase, satisfied, candidate, st, rows>>

SatisfyGate(g) ==
  /\ satisfied' = satisfied \cup {g}
  /\ UNCHANGED <<phase, thread, candidate, st, rows>>

Activate ==
  /\ \A c \in Chiefs : thread[c] # None
  /\ satisfied = Gates
  /\ phase' = "ACTIVE"
  /\ UNCHANGED <<thread, satisfied, candidate, st, rows>>

Drain ==
  /\ phase' = "DRAINING"
  /\ UNCHANGED <<thread, satisfied, candidate, st, rows>>

BindController ==
  /\ phase = "DRAINING"
  /\ \A t \in Tasks : st[t] \notin Active /\ owned[t] = {}
  /\ \E s \in Sessions : thread' = [c \in Chiefs |-> s]
  /\ UNCHANGED <<phase, satisfied, candidate, st, rows>>

(* faulty variant: running attempts are not drained first *)
Faulty_RegisterCandidate(c) ==
  /\ c # candidate
  /\ candidate' = c
  /\ pinned' = {t \in Tasks : st[t] = "VERIFIED"}
  /\ UNCHANGED <<runRow, st, deps, unlocks, child, owned, reviewed, key, output>>

RegisterCandidate(c) ==
  /\ c # candidate
  /\ \A t \in Tasks : st[t] \notin Active
  /\ candidate' = c
  /\ pinned' = {t \in Tasks : st[t] = "VERIFIED"}
  /\ UNCHANGED <<runRow, st, deps, unlocks, child, owned, reviewed, key, output>>

-----------------------------------------------------------------------------
(* The rows.                                                               *)

(* `ready` reports the queue, after a recompute.                           *)
Ready ==
  /\ UNCHANGED <<runRow, candidate, rows>>
  /\ Recompute(st)

(* A live row of the same template for the same candidate and scope.       *)
Duplicate(t, k) ==
  \E x \in Tasks : /\ Kind[x] = Kind[t] /\ key[x] = k
                   /\ st[x] \notin {"INVALID_EVIDENCE", "CANCELLED"}

(* Junior and security templates are keyed by the registered candidate.    *)
Instantiate(t) ==
  /\ t \in Dynamic /\ st[t] = "ABSENT"
  /\ \E d \in SUBSET Existing : deps' = [deps EXCEPT ![t] = d]
  /\ IF Kind[t] \in {"junior", "security"}
       THEN /\ candidate # None
            /\ \E s \in Scopes : LET k == [cand |-> candidate, scope |-> s] IN
                 ~Duplicate(t, k) /\ key' = [key EXCEPT ![t] = k]
       ELSE UNCHANGED key
  /\ UNCHANGED <<runRow, candidate, unlocks, child, owned, reviewed, output, pinned>>
  /\ Recompute(Marked(t, "PLANNED"))

Claim(t) ==
  /\ phase = "ACTIVE"
  /\ st[t] = "READY"
  /\ key[t] # NoKey => key[t].cand = candidate
  /\ \E F \in (SUBSET Files) \ {{}} :
       /\ \A x \in Tasks : F \cap owned[x] = {}
       /\ owned' = [owned EXCEPT ![t] = F]
  /\ st' = Marked(t, "CLAIMED")
  /\ UNCHANGED <<runRow, candidate, deps, unlocks, child, reviewed, key, output, pinned>>

Start(t) ==
  /\ phase = "ACTIVE"
  /\ st[t] = "CLAIMED"
  /\ \E s \in Sessions : child' = [child EXCEPT ![t] = s]
  /\ st' = Marked(t, "RUNNING")
  /\ UNCHANGED <<runRow, candidate, deps, unlocks, owned, reviewed, key, output, pinned>>

(* What adopt and complete write on the row.  A builder that fails may     *)
(* have no commit to show.                                                 *)
Result(t) ==
  \E outcome \in Outcomes, unlock \in BOOLEAN, commit \in BOOLEAN :
    /\ unlock => outcome \in Accepted
    /\ ReviewAllows(t, outcome)
    /\ StoreVerdict(t, outcome)
    /\ unlocks' = IF unlock THEN unlocks \cup {t} ELSE unlocks \ {t}
    /\ output' = IF commit THEN output \cup {t} ELSE output \ {t}
    /\ UNCHANGED <<runRow, candidate, deps, child, key, pinned>>
    /\ Recompute(Marked(t, outcome))

Adopt(t) ==
  /\ phase = "PREPARED"
  /\ st[t] \in Unstarted
  /\ UNCHANGED owned
  /\ Result(t)

(* faulty variant: only a good result releases the claim *)
Faulty_Complete(t) ==
  /\ st[t] \in Active
  /\ Result(t)
  /\ owned' = IF st'[t] \in Accepted THEN [owned EXCEPT ![t] = {}] ELSE owned

Complete(t) ==
  /\ st[t] \in Active
  /\ owned' = [owned EXCEPT ![t] = {}]
  /\ Result(t)

Block(t) ==
  /\ st[t] \in Unstarted \cup {"BLOCKED"}
  /\ st' = Marked(t, "BLOCKED")
  /\ UNCHANGED <<runRow, candidate, rows>>

Unblock(t) ==
  /\ st[t] = "BLOCKED"
  /\ UNCHANGED <<runRow, candidate, rows>>
  /\ Recompute(Marked(t, "PLANNED"))

Consumable(t) == st[t] \in Accepted /\ t \in unlocks

(* faulty variant: the dependents are not looked at again *)
Faulty_Promote(t) ==
  /\ st[t] \in {"VERIFIED", "REPAIR_REQUIRED"}
  /\ st[t] = "REPAIR_REQUIRED" => \E x \in Tasks : Consumable(x)
  /\ ReviewAllows(t, "INTEGRATED")
  /\ StoreVerdict(t, "INTEGRATED")
  /\ unlocks' = unlocks \cup {t}
  /\ output' = output \cup {t}
  /\ UNCHANGED <<runRow, candidate, deps, child, owned, key, pinned>>
  /\ st' = Marked(t, "INTEGRATED")

(* A repaired parent is promoted on the strength of the tasks that         *)
(* repaired it.                                                            *)
Promote(t) ==
  /\ st[t] \in {"VERIFIED", "REPAIR_REQUIRED"}
  /\ st[t] = "REPAIR_REQUIRED" => \E x \in Tasks : Consumable(x)
  /\ ReviewAllows(t, "INTEGRATED")
  /\ StoreVerdict(t, "INTEGRATED")
  /\ unlocks' = unlocks \cup {t}
  /\ output' = output \cup {t}
  /\ UNCHANGED <<runRow, candidate, deps, child, owned, key, pinned>>
  /\ Recompute(Marked(t, "INTEGRATED"))

(* faulty variant: the row keeps its readiness *)
Faulty_Rewire(t) ==
  /\ t \in Rewirable /\ st[t] \in Unstarted
  /\ \E d \in SUBSET (Existing \ {t}) : deps' = [deps EXCEPT ![t] = d]
  /\ UNCHANGED <<runRow, candidate, st, unlocks, child, owned, reviewed, key, output, pinned>>

Rewire(t) ==
  /\ t \in Rewirable /\ st[t] \in Unstarted
  /\ \E d \in SUBSET (Existing \ {t}) : deps' = [deps EXCEPT ![t] = d]
  /\ UNCHANGED <<runRow, candidate, unlocks, child, owned, reviewed, key, output, pinned>>
  /\ Recompute(st)

Retire(t) ==
  /\ st[t] \in Retirable
  /\ \E closer \in Tasks : st[closer] \in Accepted
  /\ st' = Marked(t, "CANCELLED")
  /\ owned' = [owned EXCEPT ![t] = {}]
  /\ UNCHANGED <<runRow, candidate, deps, unlocks, child, reviewed, key, output, pinned>>

(* contaminated_verified_check: nobody consumed the row, its output is on  *)
(* record, and the candidate was not registered on top of it.  (That no    *)
(* union lists it is read from other files: the verb may refuse more.)     *)
Unconsumed(t) ==
  /\ \A x \in Existing : t \in deps[x] => st[x] = "PLANNED"
  /\ t \in output
  /\ t \notin pinned

Invalidate(t) ==
  /\ \/ st[t] \in {"REPAIR_REQUIRED", "BLOCKED"}
     \/ st[t] = "VERIFIED" /\ Unconsumed(t)
  /\ st' = Marked(t, "INVALID_EVIDENCE")
  /\ unlocks' = unlocks \ {t}
  /\ owned' = [owned EXCEPT ![t] = {}]
  /\ UNCHANGED <<runRow, candidate, deps, child, reviewed, key, output, pinned>>

(* One verdict may be recorded on any row, in any state.                   *)
RecordReview(t, role) ==
  /\ t \in Existing
  /\ \E c \in Verdicts(role) :
       reviewed' = IF role = "junior" THEN [reviewed EXCEPT ![t] = c] ELSE reviewed
  /\ UNCHANGED <<runRow, candidate, deps, unlocks, child, owned, key, output, pinned>>
  /\ Recompute(st)

(* verify_state, its three checks on live data.                            *)
ReadyIsSatisfied ==
  \A t \in Tasks : st[t] = "READY" => Satisfied(t, st, unlocks, deps, reviewed)
UnlocksAreAccepted == \A t \in unlocks : st[t] \in Accepted
ClaimsDisjoint == \A t, x \in Tasks : t # x => owned[t] \cap owned[x] = {}

Reconcile ==
  /\ ReadyIsSatisfied /\ UnlocksAreAccepted /\ ClaimsDisjoint
  /\ UNCHANGED <<runRow, candidate, rows>>
  /\ Recompute(st)

RunStep ==
  \/ \E c \in Chiefs : BindChief(c)
  \/ \E g \in Gates : SatisfyGate(g)
  \/ Activate \/ Drain \/ BindController
  \/ \E c \in Commits : RegisterCandidate(c)

RowStep(t) ==
  \/ Instantiate(t) \/ Claim(t) \/ Start(t) \/ Adopt(t) \/ Complete(t)
  \/ Block(t) \/ Unblock(t) \/ Promote(t) \/ Rewire(t) \/ Retire(t)
  \/ Invalidate(t)
  \/ \E role \in ReviewRoles : RecordReview(t, role)

Next == RunStep \/ Ready \/ Reconcile \/ \E t \in Tasks : RowStep(t)

Spec == Init /\ [][Next]_vars

-----------------------------------------------------------------------------
(* A row that is READY, claimed or running stands on dependencies that     *)
(* unlock it: whatever is rewired, invalidated, blocked or retired in the  *)
(* meantime, the ground is not taken from under a build.                   *)
BuiltOnAccepted ==
  \A t \in Tasks : st[t] \in {"READY"} \cup Active => deps[t] \subseteq unlocks

(* No wake-up is lost: a row outside the review gate waits only while one  *)
(* of its dependencies does not unlock it.  (`ready` notifies nobody, so   *)
(* the verb that made the difference must have readied it.)                *)
NoForgottenDependent ==
  \A t \in Tasks \ Gated :
    /\ st[t] # "PLANNED"
    /\ st[t] = "WAITING_DEPENDENCY" => ~(deps[t] \subseteq unlocks)

(* A row has an ACTIVE claim exactly while an attempt of it is out, so     *)
(* files are neither held for ever nor worked on without a claim.          *)
ClaimFollowsAttempt == \A t \in Tasks : st[t] \in Active <=> owned[t] # {}

(* The claims exclude each other and follow the attempts.                  *)
ClaimsSound == ClaimsDisjoint /\ ClaimFollowsAttempt

(* An attempt at a keyed review is always at the registered candidate: a   *)
(* candidate is neither claimed stale nor replaced under a reviewer.       *)
ReviewsTheCandidate ==
  \A t \in Tasks : (st[t] \in Active /\ key[t] # NoKey) => key[t].cand = candidate

(* Of the reviews of one role, candidate and scope at most one is not      *)
(* INVALID_EVIDENCE or CANCELLED.                                          *)
NoDuplicateReview ==
  \A t, x \in Tasks :
    (/\ t # x /\ key[t] # NoKey /\ key[t] = key[x] /\ Kind[t] = Kind[x]
     /\ {st[t], st[x]} \cap {"INVALID_EVIDENCE", "CANCELLED"} = {}) => FALSE

(* Work the registered candidate contains as VERIFIED is never taken back. *)
PinnedStand == \A t \in pinned : st[t] \in Accepted

(* INTEGRATED and CANCELLED rows keep their state.                         *)
TerminalStays ==
  [][\A t \in Tasks : st[t] \in {"INTEGRATED", "CANCELLED"} => st'[t] = st[t]]_vars

(* However a final row comes to be accepted (adopted, completed or         *)
(* promoted), at that moment every integrated build and the consolidated   *)
(* row have a junior PASS of the registered candidate.                     *)
FinalGate ==
  [][\A f \in Finals : (st[f] \notin Accepted /\ st'[f] \in Accepted) =>
       /\ deps[f] \subseteq unlocks
       /\ \A x \in NeedsReview(st) \cup {L35} : CurrentReview(x, reviewed)]_vars

=============================================================================
