---------------------------- MODULE MCScheduler ----------------------------
(* Instances of the scheduler for TLC: one catalog, of which a start keeps *)
(* some rows; the others are CANCELLED or never instantiated.              *)
EXTENDS Scheduler, TLC

CONSTANTS t1, t2, t3, l42, j1, j2, f1, f2, s1, s2, c1, c2, A, g1, scope1

MCDeps == [t \in Catalog |-> CASE t = t2 -> {t1} [] t = l42 -> {L35} [] OTHER -> {}]
MCKind == [t \in Tasks |-> CASE t \in Dynamic -> "junior" [] t = l42 -> "final_review" [] OTHER -> "build"]
TipOverBase == {<<c1, c2>>}

VARIABLE start     \* "deps", "keys" or "gate"

Without(rows_) == [t \in Tasks |-> IF t \in Dynamic THEN "ABSENT" ELSE IF t \in rows_ THEN "CANCELLED" ELSE "PLANNED"]

(* "deps": a chain t1 <- t2 and a task that is rewired; one candidate.     *)
DepsInit ==
  /\ phase = "PREPARED" /\ thread = [c \in Chiefs |-> None] /\ satisfied = {}
  /\ st = Readiness(Without({L35, l42}), {}, MCDeps, [t \in Tasks |-> None])

DepsNext ==
  /\ RunStep \/ Ready \/ Reconcile \/ \E t \in {t1, t2, t3} : RowStep(t)
  /\ candidate' # c2 /\ (\A c \in Chiefs : thread'[c] # s2) /\ deps'[t3] \subseteq {t1, t2}
  /\ \A t \in Tasks : child'[t] # s2

(* "keys": one build, two review rows; the chief is bound.                 *)
KeysInit ==
  /\ phase = "PREPARED" /\ thread = [c \in Chiefs |-> s2] /\ satisfied = Gates
  /\ st = Readiness(Without({t2, t3, L35, l42}), {}, MCDeps, [t \in Tasks |-> None])

KeysNext ==
  /\ RunStep \/ Ready \/ Reconcile \/ \E t \in {t1} \cup Dynamic : RowStep(t)
  /\ UNCHANGED <<thread, satisfied>> /\ \A t \in Tasks : child'[t] # s2
  /\ \A j \in Dynamic : deps'[j] \subseteq {t1} \cup Dynamic
  /\ Cardinality(UNION {owned'[t] : t \in Tasks}) <= 1

(* "gate": a build, the consolidated row, the final row and one review,    *)
(* from the moment the run is active and the review of the registered      *)
(* candidate c1 is queued; the phase and the chief's thread then stay.     *)
GateInit ==
  /\ phase = "ACTIVE" /\ satisfied = Gates /\ thread = [c \in Chiefs |-> s1]
  /\ st = [t \in Tasks |-> CASE t \in {t1, L35, j1} -> "READY" [] t = l42 -> "WAITING_DEPENDENCY"
                             [] t = j2 -> "ABSENT" [] OTHER -> "CANCELLED"]

(* The candidate is replaced once, no row is taken aside by `block`, a     *)
(* finished attempt leaves a commit, and builders run in the chief's       *)
(* session, which may review nothing.                                      *)
GateNext ==
  /\ RunStep \/ Ready \/ Reconcile \/ \E t \in {t1, L35, l42, j1} : RowStep(t)
  /\ UNCHANGED <<phase, thread, satisfied>>
  /\ candidate' \in {candidate, c2}
  /\ Cardinality(UNION {owned'[t] : t \in Tasks}) <= 1
  /\ child'[t1] # s2 /\ child'[L35] # s2
  /\ \A t \in Tasks : st[t] \in Unstarted => st'[t] # "BLOCKED"
  /\ output' = output \cup {t \in Tasks : st[t] \in Active /\ st'[t] \in Finished}

StartIn(s) ==
  /\ start = s
  /\ CASE s = "deps" -> DepsInit [] s = "keys" -> KeysInit [] s = "gate" -> GateInit
  /\ candidate = IF s = "gate" THEN c1 ELSE None
  /\ deps = [t \in Tasks |-> IF t \in Catalog THEN CatalogDeps[t] ELSE {}]
  /\ key = [t \in Tasks |-> IF s = "gate" /\ t = j1 THEN [cand |-> c1, scope |-> scope1] ELSE NoKey]
  /\ child = [t \in Tasks |-> None] /\ reviewed = [t \in Tasks |-> None]
  /\ owned = [t \in Tasks |-> {}]
  /\ unlocks = {} /\ output = {} /\ pinned = {}

NextIn ==
  /\ start' = start
  /\ \/ start = "deps" /\ DepsNext
     \/ start = "keys" /\ KeysNext
     \/ start = "gate" /\ GateNext

Spec_Starts == (\E s \in {"deps", "keys", "gate"} : StartIn(s)) /\ [][NextIn]_<<vars, start>>

(* What the steps and properties of this catalog tell apart: t1 and L35    *)
(* are the only rows whose junior records are read, the reviewers' the     *)
(* only sessions, and claims and outputs follow from the states.           *)
GateView == <<candidate, st, unlocks, pinned, child[j1], child[l42], reviewed[t1], reviewed[L35]>>

(* An output_sha is read of VERIFIED rows only, and Complete and Adopt      *)
(* write it anew; an INTEGRATED row is pinned or not for nobody.           *)
Verified == {t \in Tasks : st[t] = "VERIFIED"}

(* Without gated rows no verb reads the junior records.                    *)
KeyView == <<runRow, candidate, st, deps, unlocks, child, owned, key,
             output \cap Verified, pinned \cap Verified>>

(* Where there is no review at all, nobody reads who did the work.         *)
DepsView == <<runRow, candidate, st, deps, unlocks, owned, output \cap Verified, pinned>>

StartView == <<start, CASE start = "gate" -> GateView [] start = "keys" -> KeyView [] start = "deps" -> DepsView>>

Sym == Permutations(Files) \cup Permutations({j1, j2})
=============================================================================
