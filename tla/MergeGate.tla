----------------------------- MODULE MergeGate ------------------------------
(***************************************************************************)
(* The merge gate (mergegate.py: _main, run_merge_preflight,               *)
(* run_portal_proofs, _run_proofs, break_dead_box_lock, run_codex).  A     *)
(* gate is a process that measures the head of a lane: a preflight against *)
(* trunk, the portal suite, the platform proofs on the box, and a review   *)
(* by Codex in a thread of its own; its rows make a verdict, and on        *)
(* autopilot a PASS is merged.  Gates of several items share the box lock, *)
(* the portal lock, trunk and the queue, and may be killed anywhere.       *)
(*                                                                         *)
(* A lock is a directory with an owner file: None when there is no file.   *)
(* A token <<g, n>> is the n-th gate of item g, and its pid is alive while *)
(* that gate runs.  The migration an item adds at commit s takes number s. *)
(***************************************************************************)
EXTENDS Naturals, FiniteSets

CONSTANTS
  Items, None,
  Lane,                          \* an executor that took the box and is gone
  MaxWait,                       \* 3600 s and PORTAL_WAIT_MAX, in waits
  MaxRuns, MaxCommits, MaxKills  \* bounds: gates of an item, commits of a lane, kills

GateAssumption ==
  /\ Lane \notin Items /\ None \notin (Items \cup {Lane}) \X Nat
  /\ {MaxWait, MaxRuns, MaxCommits, MaxKills} \subseteq Nat

VARIABLES
  asks,       \* item -> its options, proof files and portal changes, subset of {"codex", "portal", "box", "autopilot"}
  lane,       \* item -> the commit its worktree is at
  gate,       \* item -> NoGate or its running gate
  run,        \* item -> gates launched so far
  review,     \* item -> the thread of run_codex
  last,       \* item -> gates/<item>.codex.json: [sha, verdict]
  wall,       \* the newest review on disk names a usage wall that still stands
  box, portal,\* the locks: [dir, owner, old]
  tests,      \* tokens whose pytest runs
  trunk,      \* merged <<item, commit>>
  row,        \* item -> [status, sha] of the queue
  kills

locks == <<box, portal, tests>>
vars  == <<asks, lane, gate, run, review, last, wall, locks, trunk, row, kills>>

NoGate   == [at |-> "none", sha |-> 0, rows |-> {}, waited |-> 0, saw |-> None, base |-> {}, tested |-> FALSE, read |-> 0]
NoReview == [at |-> "none", ok |-> FALSE, text |-> "none", sha |-> 0]
Free     == [dir |-> FALSE, owner |-> None, old |-> FALSE]
Nothing  == [sha |-> 0, verdict |-> "none"]
Running(g) == gate[g] # NoGate
Token(g)   == <<g, run[g]>>
Dead(t)    == t # None /\ ~(t[1] \in Items /\ Running(t[1]) /\ run[t[1]] = t[2])

Options == {"codex", "portal", "box", "autopilot"}
Tokens  == (Items \cup {Lane}) \X Nat
Places  == {"none", "preflight", "portal", "p-break", "p-own", "p-run", "proofs", "recheck", "break", "own",
            "census", "start", "test", "join", "verdict", "merged", "gated"}
Lock    == [dir : BOOLEAN, owner : Tokens \cup {None}, old : BOOLEAN]

Gates   == [at : Places, sha : Nat, rows : SUBSET {"pass", "fail", "unrun"}, waited : 0 .. MaxWait,
            saw : Tokens \cup {None}, base : SUBSET (Items \X Nat), tested : BOOLEAN, read : Nat]
Reviewing == [at : {"none", "starts", "asks", "again", "reads", "done", "error"}, ok : BOOLEAN,
              text : {"none", "wall", "approve", "needs-attention"}, sha : Nat]
Answers == [sha : Nat, verdict : {"none", "approve", "needs-attention"}]
Rows    == [status : {"reported", "merged", "gated"}, sha : Nat]

TypeOK ==
  /\ asks \in [Items -> SUBSET Options] /\ lane \in [Items -> Nat] /\ run \in [Items -> Nat] /\ kills \in Nat
  /\ gate \in [Items -> Gates] /\ review \in [Items -> Reviewing] /\ last \in [Items -> Answers] /\ wall \in BOOLEAN
  /\ box \in Lock /\ portal \in Lock /\ tests \in SUBSET Tokens /\ trunk \in SUBSET (Items \X Nat)
  /\ row \in [Items -> Rows]

(* Lanes with work to measure; each lock is free, or was left by an        *)
(* executor that is gone.                                                  *)
Taken == [dir |-> TRUE, owner |-> <<Lane, 0>>, old |-> TRUE]
Init ==
  /\ asks \in [Items -> SUBSET Options] /\ lane \in [Items -> Nat] /\ run \in [Items -> Nat] /\ kills \in Nat
  /\ box \in {Free, Taken} /\ portal \in {Free, Taken} /\ tests = {} /\ trunk = {} /\ wall = FALSE
  /\ gate = [g \in Items |-> NoGate] /\ review = [g \in Items |-> NoReview] /\ last = [g \in Items |-> Nothing]
  /\ row = [g \in Items |-> [status |-> "reported", sha |-> 0]]

----------------------------------------------------------------------------
At(g, at)   == gate[g].at = at
Goes(g, at) == gate' = [gate EXCEPT ![g].at = at]
Row(g, r, at) == gate' = [gate EXCEPT ![g].at = at, ![g].rows = @ \cup {r}]
Rest == UNCHANGED <<asks, lane, run, review, last, wall, trunk, row, kills>>

(* _main up to the proofs: the head is read once, the scope, report and    *)
(* yaml rows come out one way or the other, the review starts unless a     *)
(* recorded wall stands                                                    *)
Begins(g) ==
  /\ ~Running(g) /\ run[g] < MaxRuns /\ run' = [run EXCEPT ![g] = @ + 1]
  /\ \E r \in {"pass", "fail", "unrun"} :
       gate' = [gate EXCEPT ![g] = [NoGate EXCEPT !.at = "preflight", !.sha = lane[g], !.rows = {r}]]
  /\ UNCHANGED <<asks, lane, review, last, wall, locks, trunk, row, kills>>

Collides(g, t) == \E m \in t : m[1] # g /\ m[2] = gate[g].sha
Preflight(g) ==
  /\ At(g, "preflight")
  /\ \E merges \in BOOLEAN :
       gate' = [gate EXCEPT ![g].at = "portal", ![g].base = trunk,
                            ![g].rows = @ \cup {IF merges /\ ~Collides(g, trunk) THEN "pass" ELSE "fail"}]
  /\ review' = IF "codex" \in asks[g] /\ ~wall THEN [review EXCEPT ![g] = [NoReview EXCEPT !.at = "starts", !.sha = gate[g].sha]] ELSE review
  /\ UNCHANGED <<asks, lane, run, last, wall, locks, trunk, row, kills>>

----------------------------------------------------------------------------
(* The portal lock: broken when its owner is dead and it is old, with no   *)
(* second look.                                                            *)
Waits(g, lost) ==                     \* another wait, or the row NOT RUN
  IF gate[g].waited = MaxWait THEN gate' = [gate EXCEPT ![g].at = lost, ![g].rows = @ \cup {"unrun"}, ![g].waited = 0]
                              ELSE gate' = [gate EXCEPT ![g].waited = @ + 1]
Release(l, g) == IF l.owner = Token(g) THEN Free ELSE l           \* release_if_mine
PortalTakes(g) ==
  /\ At(g, "portal") /\ UNCHANGED tests /\ UNCHANGED box /\ Rest
  /\ IF "portal" \notin asks[g] THEN Goes(g, "proofs") /\ UNCHANGED portal
     ELSE \/ Row(g, "fail", "proofs") /\ UNCHANGED portal                          \* frozen_checkout
          \/ ~portal.dir /\ Goes(g, "p-own") /\ portal' = [Free EXCEPT !.dir = TRUE]
          \/ /\ portal.dir /\ UNCHANGED portal
             /\ IF Dead(portal.owner) /\ portal.old THEN Goes(g, "p-break") ELSE Waits(g, "proofs")
PortalBreaks(g) ==
  /\ At(g, "p-break") /\ Goes(g, "portal") /\ portal' = (IF portal.owner = None THEN portal ELSE Free)
  /\ UNCHANGED <<box, tests>> /\ Rest
PortalOwns(g) ==
  /\ At(g, "p-own") /\ Goes(g, "p-run") /\ portal' = [portal EXCEPT !.owner = Token(g), !.old = FALSE]
  /\ UNCHANGED <<box, tests>> /\ Rest
PortalRuns(g) ==
  /\ At(g, "p-run")
  /\ \/ \E r \in {"pass", "fail"} :
          gate' = [gate EXCEPT ![g].at = "proofs", ![g].rows = @ \cup {r}, ![g].tested = (r = "pass")]
     \/ Row(g, "fail", "join")                                   \* timed out: run_proofs is left
  /\ portal' = Release(portal, g) /\ UNCHANGED <<box, tests>> /\ Rest

----------------------------------------------------------------------------
(* The box lock: a dead owner is looked at twice with no pytest running,   *)
(* and the census is taken after the lock.                                 *)
Faulty_GivesUp(g) == IF box.owner = None THEN UNCHANGED gate ELSE Waits(g, "join")

GivesUp(g) == Waits(g, "join")
BoxTakes(g) ==
  /\ At(g, "proofs") /\ UNCHANGED <<portal, tests>> /\ Rest
  /\ IF "box" \notin asks[g]
     THEN /\ gate' = [gate EXCEPT ![g].at = "join", ![g].rows = @ \cup (IF "portal" \in asks[g] THEN {} ELSE {"unrun"})]
          /\ UNCHANGED box
     ELSE \/ ~box.dir /\ Goes(g, "own") /\ box' = [Free EXCEPT !.dir = TRUE]
          \/ /\ box.dir /\ UNCHANGED box
             /\ IF Dead(box.owner) /\ box.old /\ tests = {}
                THEN gate' = [gate EXCEPT ![g].at = "recheck", ![g].saw = box.owner] ELSE GivesUp(g)
Rechecks(g) ==                        \* BOX_RECHECK_S later
  /\ At(g, "recheck") /\ UNCHANGED locks /\ Rest
  /\ IF box.owner = gate[g].saw /\ tests = {} THEN Goes(g, "break")
     ELSE \/ gate[g].waited < MaxWait /\ gate' = [gate EXCEPT ![g].at = "proofs", ![g].waited = @ + 1]
          \/ gate[g].waited = MaxWait /\ Waits(g, "join")
Breaks(g) ==                          \* remove and rmdir, of whatever is there by now
  /\ At(g, "break") /\ Goes(g, "proofs") /\ box' = (IF box.owner = None THEN box ELSE Free)
  /\ UNCHANGED <<portal, tests>> /\ Rest
Owns(g) ==                            \* the owner file, if the directory is still there
  /\ At(g, "own") /\ UNCHANGED <<portal, tests>> /\ Rest
  /\ IF box.dir THEN Goes(g, "census") /\ box' = [box EXCEPT !.owner = Token(g), !.old = FALSE]
     ELSE Row(g, "fail", "join") /\ UNCHANGED box
Census(g) ==
  /\ At(g, "census") /\ UNCHANGED <<portal, tests>> /\ Rest
  /\ IF tests # {} THEN Row(g, "unrun", "join") /\ box' = Release(box, g)
     ELSE \/ Goes(g, "start") /\ UNCHANGED box
          \/ Row(g, "fail", "join") /\ box' = Release(box, g)                   \* no scratch worktree, no venv

Faulty_StillMine(g) == TRUE

(* the token is read again and pytest started: the two are one step here   *)
StillMine(g) == box.owner = Token(g)
Starts(g) ==
  /\ At(g, "start") /\ UNCHANGED <<portal, box>> /\ Rest
  /\ IF StillMine(g) THEN Goes(g, "test") /\ tests' = tests \cup {Token(g)}
     ELSE Row(g, "fail", "join") /\ UNCHANGED tests
(* green, red, or cut at PROOF_TIMEOUT_S: red as far as it went, or not    *)
Outcomes == {"pass", "fail", "unrun"}
Tested(g) ==
  /\ At(g, "test") /\ tests' = tests \ {Token(g)} /\ box' = Release(box, g) /\ UNCHANGED portal /\ Rest
  /\ \E r \in Outcomes :
       gate' = [gate EXCEPT ![g].at = "join", ![g].rows = @ \cup {r}, ![g].tested = (r = "pass")]

----------------------------------------------------------------------------
(* The review: a wall is asked again once, and what is read afterwards is  *)
(* the file the CLI was to write.                                          *)
Reviews(g, r) == review' = [review EXCEPT ![g] = r]
RestOfReview == UNCHANGED <<asks, lane, gate, run, locks, trunk, row, kills>>
ReviewStarts(g) ==                    \* in a frozen checkout of the commit, or not at all
  /\ review[g].at = "starts" /\ \E at \in {"asks", "error"} : Reviews(g, [review[g] EXCEPT !.at = at])
  /\ UNCHANGED <<last, wall>> /\ RestOfReview
ReviewAnswers(g) ==
  /\ review[g].at \in {"asks", "again"} /\ UNCHANGED wall /\ RestOfReview
  /\ \/ \E v \in {"approve", "needs-attention"} :
          /\ last' = [last EXCEPT ![g] = [sha |-> review[g].sha, verdict |-> v]]
          /\ Reviews(g, [review[g] EXCEPT !.at = "reads", !.ok = TRUE])
     \/ /\ \E l \in {last[g], Nothing} : last' = [last EXCEPT ![g] = l]             \* walled: the file is left, or emptied
        /\ Reviews(g, [review[g] EXCEPT !.at = IF @ = "asks" THEN "again" ELSE "reads"])
     \/ Reviews(g, [review[g] EXCEPT !.at = "error"]) /\ UNCHANGED last             \* the call timed out
ReviewReads(g) ==
  /\ review[g].at = "reads" /\ UNCHANGED last /\ RestOfReview
  /\ LET text == IF last[g] = Nothing THEN "wall" ELSE last[g].verdict IN
     /\ Reviews(g, [review[g] EXCEPT !.at = "done", !.text = text, !.sha = last[g].sha])
     /\ wall' = (text = "wall")                                                     \* <item>.codex.txt
WallPasses ==
  /\ wall /\ wall' = FALSE /\ UNCHANGED <<asks, lane, gate, run, review, last, locks, trunk, row, kills>>

Faulty_Approves(r) == r.text = "approve"

Approves(r) == r.ok /\ r.text = "approve"
Join(g) ==
  /\ At(g, "join") /\ review' = [review EXCEPT ![g] = NoReview]
  /\ UNCHANGED <<asks, lane, run, last, wall, locks, trunk, row, kills>>
  /\ LET r == review[g] IN
     gate' = [gate EXCEPT ![g].at = "verdict", ![g].read = r.sha,
                          ![g].rows = @ \cup {CASE r.at = "error" -> "fail"
                                                [] r.at = "done" /\ r.text # "wall" -> IF Approves(r) THEN "pass" ELSE "fail"
                                                [] OTHER -> "unrun"}]               \* no call, a wall, still running
----------------------------------------------------------------------------
(* verdict_of, the merge on autopilot and the stamp of the queue row.      *)
Verdict(g) == CASE "fail" \in gate[g].rows -> "FAIL" [] "unrun" \in gate[g].rows -> "INCOMPLETE" [] OTHER -> "PASS"
Merges(g) ==
  /\ At(g, "verdict")
  /\ IF Verdict(g) = "PASS" /\ "autopilot" \in asks[g]
     THEN \/ trunk' = trunk \cup {<<g, gate[g].sha>>} /\ Goes(g, "merged")
          \/ UNCHANGED trunk /\ Goes(g, "gated")                                    \* a conflict, a dirty trunk, a denied file
     ELSE UNCHANGED trunk /\ Goes(g, "gated")
  /\ UNCHANGED <<asks, lane, run, review, last, wall, locks, row, kills>>
Stamps(g) ==
  /\ gate[g].at \in {"merged", "gated"}
  /\ row' = [row EXCEPT ![g] = [status |-> gate[g].at, sha |-> gate[g].sha]] /\ gate' = [gate EXCEPT ![g] = NoGate]
  /\ UNCHANGED <<asks, lane, run, review, last, wall, locks, trunk, kills>>

(* An exception out of the proofs: main writes CRASHED.md and lets go of the box    *)
Raises(g) ==
  /\ gate[g].at \in {"preflight", "join", "verdict", "merged", "gated"} /\ kills < MaxKills /\ kills' = kills + 1
  /\ gate' = [gate EXCEPT ![g] = NoGate] /\ review' = [review EXCEPT ![g] = NoReview]
  /\ box' = Release(box, g) /\ UNCHANGED <<asks, lane, run, last, wall, portal, tests, trunk, row>>
Killed(g) ==                          \* its pytest goes on without it
  /\ Running(g) /\ kills < MaxKills /\ kills' = kills + 1
  /\ gate' = [gate EXCEPT ![g] = NoGate] /\ review' = [review EXCEPT ![g] = NoReview]
  /\ UNCHANGED <<asks, lane, run, last, wall, locks, trunk, row>>
OrphanEnds ==
  /\ \E t \in tests : Dead(t) /\ tests' = tests \ {t}
  /\ UNCHANGED <<asks, lane, gate, run, review, last, wall, box, portal, trunk, row, kills>>
Ages ==                               \* half an hour
  /\ \/ box.owner # None /\ ~box.old /\ box' = [box EXCEPT !.old = TRUE] /\ UNCHANGED portal
     \/ portal.owner # None /\ ~portal.old /\ portal' = [portal EXCEPT !.old = TRUE] /\ UNCHANGED box
  /\ UNCHANGED <<asks, lane, gate, run, review, last, wall, tests, trunk, row, kills>>
Commits(g) ==                         \* the lane's next item, or the rework
  /\ lane[g] < MaxCommits /\ lane' = [lane EXCEPT ![g] = @ + 1]
  /\ UNCHANGED <<asks, gate, run, review, last, wall, locks, trunk, row, kills>>

Step(g) ==
  \/ Preflight(g) \/ PortalTakes(g) \/ PortalBreaks(g) \/ PortalOwns(g) \/ PortalRuns(g)
  \/ BoxTakes(g) \/ Rechecks(g) \/ Breaks(g) \/ Owns(g) \/ Census(g) \/ Starts(g) \/ Tested(g)
  \/ Join(g) \/ Merges(g) \/ Stamps(g)
Next ==
  \/ \E g \in Items : Begins(g) \/ Step(g) \/ ReviewStarts(g) \/ ReviewAnswers(g) \/ ReviewReads(g)
                      \/ Raises(g) \/ Killed(g) \/ Commits(g)
  \/ WallPasses \/ OrphanEnds \/ Ages

Spec == Init /\ [][Next]_vars

Fairness == \A g \in Items : WF_vars(Step(g))

----------------------------------------------------------------------------
(* Two gates never run pytest at once, although two that find the same     *)
(* dead owner may each remove the lock of the other, and a killed gate     *)
(* leaves its pytest behind: the token is read again before the tests and  *)
(* the census is taken under the lock.                                     *)
OneSuite == Cardinality(tests) <= 1

(* A gate that passes has seen its own commit tested green to the end and  *)
(* an approval of that commit, whatever earlier gates of the item left on  *)
(* disk and wherever the lane went since.                                  *)
PassWasMeasured ==
  \A g \in Items : gate[g].at = "verdict" /\ Verdict(g) = "PASS" => gate[g].tested /\ gate[g].read = gate[g].sha

(* Every gate ends, whoever holds the locks, a directory nobody owns       *)
(* included, and one that was not killed leaves no lock of its own.        *)
Ends ==
  []<>(\A g \in Items : /\ ~Running(g)
                        /\ kills = 0 => (box.owner = None \/ box.owner[1] # g) /\ (portal.owner = None \/ portal.owner[1] # g))

----------------------------------------------------------------------------
(* What the source says and the code does not do.                          *)

(* A live owner's lock is not removed ("Cheap; closes it"; "nothing here   *)
(* ever deletes a directory it does not own").                             *)
LiveLocksStay ==
  [][\A g \in Items : Running(g) /\ gate'[g] = gate[g] =>
       (box.owner = Token(g) => box'.owner = Token(g)) /\ (portal.owner = Token(g) => portal'.owner = Token(g))]_vars

(* What is merged was preflighted against the trunk it is merged into.     *)
NumbersAreUnique == \A m, n \in trunk : m[1] # n[1] => m[2] # n[2]

(* A merge that happened is in the queue.                                  *)
MergesAreStamped == \A g \in Items : ~Running(g) /\ (\E m \in trunk : m[1] = g) => row[g].status = "merged"
=============================================================================
