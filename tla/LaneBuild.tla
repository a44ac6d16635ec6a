----------------------------- MODULE LaneBuild -----------------------------
(***************************************************************************)
(* One attempt of a build row in the v13 lane driver (vp/lanedriver.py,    *)
(* _build_pipeline): rounds of builder turn, autofix commit, proof of the  *)
(* exact head and grader turn, until the benchmark is clean or the rounds  *)
(* are spent.  A turn may end on a quota or a dead runner, a proof on its  *)
(* infrastructure, the driver may die anywhere, and the scheduler may not  *)
(* answer the completion: the attempt then stays RUNNING and is entered    *)
(* again, with only the files of the worktree and of the turn directory to *)
(* tell how far it came.                                                   *)
(*                                                                         *)
(* The benchmark has three rows: "box" the builder must answer, "hosted"   *)
(* belongs to the hosted twin, "gated" to a gate the owner skipped.  The   *)
(* line "node" is the test a red proof names.                              *)
(***************************************************************************)
EXTENDS Naturals, FiniteSets

CONSTANTS
  Rounds,      \* concurrency.max_rounds
  MaxHeads,    \* bound: commits of the worktree
  MaxSlips     \* bound: parks, holds, crashes, unanswered completions, caps lowered

BuildAssumption == Rounds \in Nat \ {0} /\ {MaxHeads, MaxSlips} \subseteq Nat

VARIABLES
  needs, twin, regrade,   \* the row: owes a proof, is a hosted twin, the sha it regrades (0: none)
  cap,                    \* max_rounds of the live roster
  head, result, findings, \* the worktree: HEAD, the commit RESULT.json names, FINDINGS.json
  rounds, pending,        \* the turn directory: rounds.json, proof-pending.json (0: none)
  proofs,                 \* the proof records of the run root
  pc, rnd, last, skip, resumeProof, prec, again,   \* the thread
  done,                   \* how the attempt was closed
  turns, excused, slips   \* builder turns that ended, those excused (see Lost), what went wrong

row    == <<needs, twin, regrade>>
tree   == <<head, result, findings>>
tdir   == <<rounds, pending>>
thread == <<rnd, last, skip, resumeProof, prec, again>>
count  == <<turns, excused, slips>>
vars   == <<row, cap, tree, tdir, proofs, pc, thread, done, count>>

Head     == 0 .. MaxHeads
Verdict  == {"PASS", "FAIL", "UNKNOWN", "DEFERRED", "absent"}
Line     == {"box", "hosted", "gated", "node"}
Unread   == [sha |-> 0, of |-> [l \in Line |-> "absent"]]
NoRounds == [round |-> 0, stage |-> "none", head |-> 0]
NoProof  == [sha |-> 0, status |-> "none", by |-> "none"]
Open     == [outcome |-> "none", sha |-> 0, owed |-> {}]
Answers  == {"PASS", "FAIL_PRODUCT"}
Stages   == {"idle", "build", "autofix", "rebind", "built", "prove", "proving", "grade", "grading",
             "decide", "accept", "repair", "closed", "held"}

TypeOK ==
  /\ {needs, twin, skip, resumeProof, again} \subseteq BOOLEAN
  /\ {regrade, head, result, pending} \subseteq Head
  /\ cap \in 1 .. Rounds /\ rnd \in 0 .. Rounds + 1 /\ last \in 0 .. Rounds
  /\ findings.sha \in Head /\ findings.of \in [Line -> Verdict]
  /\ rounds.round \in 0 .. Rounds /\ rounds.stage \in {"none", "built", "graded"}
  /\ proofs \subseteq [sha : Head, status : Answers, by : {"other", "own"}]
  /\ pc \in Stages /\ done.outcome \in {"none", "VERIFIED", "REPAIR_REQUIRED", "INVALID_EVIDENCE"}

(* commit 1 is the base, 2 what another row built: the regraded one        *)
InitRest ==
  /\ cap = Rounds /\ head = 1 /\ result = 0 /\ findings = Unread
  /\ rounds = NoRounds /\ pending = 0
  /\ pc = "idle" /\ rnd = 0 /\ last = 0 /\ skip = FALSE /\ resumeProof = FALSE
  /\ prec = NoProof /\ again = FALSE
  /\ done = Open /\ turns = 0 /\ excused = 0

Init ==
  /\ needs \in BOOLEAN /\ twin \in BOOLEAN /\ regrade \in {0, 2}
  /\ proofs \in SUBSET [sha : {2}, status : Answers, by : {"other"}]
  /\ slips = 0 /\ InitRest

(* a commit is a new number: the builder's, or the autofix's               *)
Commits == {head} \cup (IF head < MaxHeads THEN {IF head < 2 THEN 3 ELSE head + 1} ELSE {})

Cap == IF twin THEN 1 ELSE cap

Faulty_StartRound == IF rounds.stage = "built" /\ rounds.head = head THEN rounds.round ELSE 1

(* The attempt is entered: rounds.json says where it stopped.              *)
StartRound ==
  CASE rounds.stage = "graded" -> rounds.round + 1
    [] rounds.stage = "built" /\ rounds.head = head -> rounds.round
    [] OTHER -> 1

Faulty_Clamped(r) == r

Clamped(r) == IF r > Cap THEN Cap ELSE r

Enter ==
  /\ pc = "idle"
  /\ last' = Cap /\ rnd' = Clamped(StartRound)
  /\ skip' = (rounds.stage = "built" /\ rounds.head = head)
  /\ resumeProof' = (needs /\ pending # 0 /\ pending = head)
  /\ prec' = NoProof /\ again' = FALSE
  /\ pc' = IF rnd' > last' THEN "idle" ELSE "build"
  /\ UNCHANGED <<row, cap, tree, tdir, proofs, done, count>>

(* The head is taken as it is: this round was built already, or its proof  *)
(* died on infrastructure.                                                 *)
Resume ==
  /\ pc = "build" /\ (skip \/ (~(rnd = 1 /\ regrade # 0) /\ resumeProof))
  /\ skip' = FALSE /\ resumeProof' = (skip /\ resumeProof)
  /\ pc' = "built"
  /\ UNCHANGED <<row, cap, tree, tdir, proofs, rnd, last, prec, again, done, count>>

(* D21: the commit of another row is graded again; its RESULT.json comes   *)
(* along when it names that commit.  A commit that does not descend from   *)
(* either base is refused, and the attempt is held as it is.               *)
Regrade ==
  /\ pc = "build" /\ ~skip /\ rnd = 1 /\ regrade # 0
  /\ \/ /\ head' = regrade /\ result' \in {regrade, result}
        /\ pc' = "built" /\ UNCHANGED findings
     \/ pc' = "held" /\ UNCHANGED tree
  /\ UNCHANGED <<row, cap, tdir, proofs, thread, done, count>>

Builds == pc = "build" /\ ~skip /\ ~(rnd = 1 /\ regrade # 0) /\ ~resumeProof

(* A builder turn: RESULT.json is removed first and written by the agent.  *)
BuilderTurn ==
  /\ Builds
  /\ head' \in Commits /\ result' = head'
  /\ turns' = turns + 1 /\ pc' = "autofix"
  /\ UNCHANGED <<row, cap, findings, tdir, proofs, thread, done, excused, slips>>

(* ... or one that ends on a quota, a timeout, an agent with no record: it *)
(* may have committed.                                                     *)
BuilderStops ==
  /\ Builds /\ slips < MaxSlips
  /\ head' \in Commits /\ result' = 0
  /\ slips' = slips + 1 /\ pc' = "idle"
  /\ UNCHANGED <<row, cap, findings, tdir, proofs, thread, done, turns, excused>>

(* The driver commits the formatter's changes, then rebinds RESULT.json.   *)
Autofix ==
  /\ pc = "autofix"
  /\ head' \in Commits
  /\ pc' = IF head' = head THEN "built" ELSE "rebind"
  /\ UNCHANGED <<row, cap, result, findings, tdir, proofs, thread, done, count>>

Rebound == head

Rebind ==
  /\ pc = "rebind" /\ result' = Rebound /\ pc' = "built"
  /\ UNCHANGED <<row, cap, head, findings, tdir, proofs, thread, done, count>>

SaveBuilt ==
  /\ pc = "built"
  /\ rounds' = [round |-> rnd, stage |-> "built", head |-> head]
  /\ prec' = NoProof
  /\ pc' = IF needs THEN "prove" ELSE "grade"
  /\ UNCHANGED <<row, cap, tree, pending, proofs, rnd, last, skip, resumeProof, again, done, count>>

(* The proof of this head: an answer some other attempt has on record, or  *)
(* a run of its own.                                                       *)
ProofBegins ==
  /\ pc = "prove"
  /\ pending' = head
  /\ \/ /\ \E p \in proofs : p.by = "other" /\ p.sha = head /\ prec' = p
        /\ pc' = "grade"
     \/ /\ ~\E p \in proofs : p.by = "other" /\ p.sha = head
        /\ pc' = "proving" /\ UNCHANGED prec
  /\ UNCHANGED <<row, cap, tree, rounds, proofs, rnd, last, skip, resumeProof, again, done, count>>

ProofAnswers ==
  /\ pc = "proving"
  /\ \E s \in Answers : prec' = [sha |-> head, status |-> s, by |-> "own"]
  /\ proofs' = proofs \cup {prec'}
  /\ pc' = "grade"
  /\ UNCHANGED <<row, cap, tree, tdir, rnd, last, skip, resumeProof, again, done, count>>

(* FAIL_INFRA, UNKNOWN, BLOCKED_*: the attempt is held or struck and the   *)
(* request stays on disk.  A cancelled run, or a claim handed to a waiting *)
(* row while credits are out, closes it.                                   *)
ProofStops ==
  /\ pc = "proving" /\ slips < MaxSlips /\ slips' = slips + 1
  /\ \/ pc' = "idle" /\ UNCHANGED done
     \/ pc' = "closed" /\ done' = [Open EXCEPT !.outcome = "INVALID_EVIDENCE"]
  /\ UNCHANGED <<row, cap, tree, tdir, proofs, thread, turns, excused>>

(* proof-pending.json goes once the proof is an answer, the old findings   *)
(* before the grader starts.                                               *)
GraderStarts ==
  /\ pc = "grade"
  /\ pending' = IF needs THEN 0 ELSE pending
  /\ findings' = Unread /\ again' = FALSE /\ pc' = "grading"
  /\ UNCHANGED <<row, cap, head, result, rounds, proofs, rnd, last, skip, resumeProof, prec, done, count>>

(* A red proof adds its node as a FAIL line, unless the grader wrote one.  *)
Merged(v) ==
  IF prec.status = "FAIL_PRODUCT" /\ v["node"] = "absent" THEN [v EXCEPT !["node"] = "FAIL"] ELSE v

Deferred(v) == [v EXCEPT !["gated"] = "DEFERRED"]

Written(v) == findings' = [sha |-> head, of |-> Deferred(Merged(v))]

(* A grader's record answers every row of the benchmark; a record with     *)
(* several reds stands for the one with the builder's red.                 *)
Records == { v \in [Line -> Verdict \ {"DEFERRED"}] :
               /\ v["box"] # "absent" /\ v["hosted"] # "absent" /\ v["gated"] = "FAIL"
               /\ v["box"] # "PASS" => v["hosted"] = "PASS"
               /\ v["node"] \in {"absent", "PASS"} }

GraderTurn ==
  /\ pc = "grading"
  /\ \E v \in Records : Written(v)
  /\ pc' = "decide"
  /\ UNCHANGED <<row, cap, head, result, tdir, proofs, thread, done, count>>

GraderStops ==
  /\ pc = "grading" /\ slips < MaxSlips
  /\ slips' = slips + 1 /\ pc' = "idle"
  /\ UNCHANGED <<row, cap, tree, tdir, proofs, thread, done, turns, excused>>

With(verdict) == { l \in Line : findings.of[l] = verdict }

(* The rows a twin answers for its parent are nobody else's to block on.   *)
Exempt == IF twin THEN {} ELSE {"hosted"}

Fails == IF again THEN With("FAIL") ELSE With("FAIL") \ Exempt

Blocking == With("UNKNOWN") \ Exempt

Owed == (With("UNKNOWN") \cap Exempt) \cup (IF again THEN {} ELSE With("FAIL") \cap Exempt)

Clean == Fails = {} /\ Blocking = {}

(* only rows nobody could grade are left: the same commit is graded once more *)
GradeOnceMore ==
  /\ pc = "decide" /\ ~again /\ Fails = {} /\ Blocking # {}
  /\ again' = TRUE /\ findings' = Unread /\ pc' = "grading"
  /\ UNCHANGED <<row, cap, head, result, tdir, proofs, rnd, last, skip, resumeProof, prec, done, count>>

Accept ==
  /\ pc = "decide" /\ Clean /\ pc' = "accept"
  /\ UNCHANGED <<row, cap, tree, tdir, proofs, thread, done, count>>

NextRound ==
  /\ pc = "decide" /\ ~Clean /\ (again \/ Fails # {})
  /\ rounds' = [round |-> rnd, stage |-> "graded", head |-> head]
  /\ IF rnd < last
     THEN rnd' = rnd + 1 /\ pc' = "build"
     ELSE rnd' = rnd /\ pc' = "repair"
  /\ again' = FALSE
  /\ UNCHANGED <<row, cap, tree, pending, proofs, last, skip, resumeProof, prec, done, count>>

(* The completion: the scheduler takes it, or does not answer.             *)
Complete ==
  /\ pc \in {"accept", "repair"}
  /\ pc' = "closed"
  /\ done' = [outcome |-> IF pc = "accept" THEN "VERIFIED" ELSE "REPAIR_REQUIRED", sha |-> head, owed |-> Owed]
  /\ UNCHANGED <<row, cap, tree, tdir, proofs, thread, count>>

(* The thread dies with the driver, the completion is not answered, or an  *)
(* abort ends the turn: only the files are left.  `excused` counts the     *)
(* times this lost a builder turn nobody had recorded, or the last round's *)
(* completion.                                                             *)
Lost ==
  /\ pc \notin {"idle", "closed", "held"} /\ slips < MaxSlips
  /\ slips' = slips + 1
  /\ excused' = IF pc \in {"autofix", "rebind", "built", "repair"} THEN excused + 1 ELSE excused
  /\ pc' = "idle"
  /\ UNCHANGED <<row, cap, tree, tdir, proofs, thread, done, turns>>

(* A roster reload lowers the cap while the attempt is parked.             *)
LowerCap ==
  /\ pc = "idle" /\ cap > 1 /\ slips < MaxSlips
  /\ cap' = cap - 1 /\ slips' = slips + 1 /\ excused' = excused + 1
  /\ UNCHANGED <<row, tree, tdir, proofs, pc, thread, done, turns>>

Work ==
  \/ Enter \/ Resume \/ Regrade \/ BuilderTurn \/ Autofix \/ Rebind \/ SaveBuilt
  \/ ProofBegins \/ ProofAnswers \/ GraderStarts \/ GraderTurn
  \/ GradeOnceMore \/ Accept \/ NextRound \/ Complete

Slip == BuilderStops \/ ProofStops \/ GraderStops \/ Lost \/ LowerCap

Over == pc \in {"closed", "held"} /\ UNCHANGED vars

Next == Work \/ Slip \/ Over

(* the tick loop enters every RUNNING attempt and its thread goes on       *)
Fairness == WF_vars(Work)

Spec == Init /\ [][Next]_vars /\ Fairness

----------------------------------------------------------------------------
(* A VERIFIED completion names the commit the last grader judged: nothing  *)
(* but its PASS on every row that is the builder's, each hosted row that   *)
(* is not a PASS is in the list owed to the twin, and if a proof was owed  *)
(* that commit has a PASS on record, or a red one whose node the grader    *)
(* itself answered.                                                        *)
VerifiedWasJudged ==
  done.outcome = "VERIFIED" =>
    /\ findings.sha = done.sha
    /\ findings.of["box"] = "PASS"
    /\ findings.of["hosted"] = "PASS" \/ (~twin /\ "hosted" \in done.owed)
    /\ needs => \E p \in proofs :
         p.sha = done.sha /\ (p.status = "PASS" \/ findings.of["node"] = "PASS")

(* Whenever a grader reads the worktree, RESULT.json names its HEAD: only  *)
(* a regraded commit may come without one.                                 *)
ResultNamesHead == pc = "grading" => result = head \/ regrade # 0

(* D53: parks, holds and quotas do not repeat a builder turn that ended.   *)
(* The turns of an attempt stay within the rounds, but for the turns lost  *)
(* before rounds.json knew of them, the last round whose completion was    *)
(* not answered, and a cap lowered under a parked attempt.                 *)
TurnsAreCounted == turns <= Rounds + excused

(* D79a: an attempt is closed once its turns and proofs stop failing: it   *)
(* is not entered again and again with no round left to run.               *)
Closes == <>(pc \in {"closed", "held"})

(* What the comment at _exempt_rows promises (lanedriver.py:5685): a       *)
(* hosted row is the twin's to answer and never blocks its parent.         *)
HostedNeverBlocks ==
  done.outcome = "REPAIR_REQUIRED" /\ ~twin =>
    \E l \in Line \ {"hosted"} : findings.of[l] \in {"FAIL", "UNKNOWN"}

(* D53 (lanedriver.py:5588): a round after a graded one is a builder turn  *)
(* on the findings, not another proof and grade of the old head.           *)
NewRoundBuilds ==
  [][pc = "build" /\ pc' = "built" /\ rounds.stage = "graded" /\ rounds.round < rnd => regrade # 0]_vars
=============================================================================
