----------------------------- MODULE LaneProof ------------------------------
(***************************************************************************)
(* Proofs of the v13 lane driver (vp/laneproof.py: Proof; lanedriver.py:   *)
(* _reusable_proof).  Rows whose candidates are one commit ask for it to   *)
(* be tested: the full suite, the files of a hosted twin, or the files of  *)
(* a packet.  Each ask is a thread: it reuses an answer on record, adopts  *)
(* a pipeline that was triggered and never answered, triggers one of its   *)
(* own on the hosted route (gha), or runs on the box.                      *)
(*                                                                         *)
(* The files that are really red are fixed; a hosted run may show others   *)
(* red as well.  A scope (`only`) is <<kind, row>>, Whole the full suite.   *)
(***************************************************************************)
EXTENDS Naturals, FiniteSets, Sequences, SequencesExt

CONSTANTS
  Asker, File,
  Wants,      \* row -> "full", "twin" or "plain"
  FilesOf,    \* row -> the files its scope names
  Touched,    \* row -> the files its lane changed
  FullCap, OnlyCap, DailyCap, BoxSlots,   \* the roster's limits
  Host,       \* the hosts, numbered
  MaxAsks, MaxFaults, MaxFlips, MaxCrashes

ProofAssumption ==
  /\ Wants \in [Asker -> {"full", "twin", "plain"}]
  /\ FilesOf \in [Asker -> SUBSET File] /\ Touched \in [Asker -> SUBSET File]
  /\ {FullCap, OnlyCap, DailyCap, BoxSlots, MaxAsks, MaxFaults, MaxFlips, MaxCrashes} \subseteq Nat
  /\ Host \subseteq Nat \ {0}

VARIABLES
  red,       \* the files that are really red at the candidate
  pipes,     \* the pipelines in the order they were triggered
  recs,      \* proofs/proof-*.json, oldest first
  ledger,    \* the triggered rows of circleci-pipelines.jsonl
  ask,       \* row -> its thread
  full, only, box, host,   \* circle_active, only_active, box_active, host_active
  off, gate, \* the OFF file, the owner's gate
  spent

counters == <<full, only, box, host>>
vars     == <<red, pipes, recs, ledger, ask, counters, off, gate, spent>>

Whole == <<>>
NoPrior == [pipe |-> 0, only |-> Whole]
Idle    == [at |-> "idle", only |-> Whole, prior |-> NoPrior, pipe |-> 0, slot |-> FALSE, host |-> 0, asks |-> 0]

Twin(s)    == s # Whole /\ s[1] = "twin"
Scope(t)   == IF Wants[t] = "twin" THEN <<"twin", t>> ELSE Whole
Paths(t)   == IF Wants[t] = "plain" THEN <<t>> ELSE Whole
Runs(s)    == IF s = Whole THEN File ELSE FilesOf[s[2]]

At(t, at)  == ask[t].at = at
Goes(t, at) == ask' = [ask EXCEPT ![t].at = at]
(* A thread that holds nothing; one more ask of the row has begun.         *)
Bare(t, at) == [Idle EXCEPT !.at = at, !.asks = ask[t].asks]
Ends(t, at) == ask' = [ask EXCEPT ![t] = Bare(t, at)]
More(t, at) == ask' = [ask EXCEPT ![t] = [Bare(t, at) EXCEPT !.asks = @ + 1]]
Fault      == spent.faults < MaxFaults /\ spent' = [spent EXCEPT !.faults = @ + 1]

(* A record replaces the one of the same proof id and pipeline.            *)
Rec(t, status) == [pid |-> t, pipe |-> ask[t].pipe, copy |-> 0, hosted |-> ~At(t, "box"), only |-> Whole, paths |-> Whole, status |-> status]
SameFile(r, x) == r.pid = x.pid /\ r.pipe = x.pipe /\ r.copy = x.copy
Written(r) ==
  \/ \E k \in DOMAIN recs : SameFile(r, recs[k]) /\ recs' = Append(RemoveAt(recs, k), r)
  \/ (\A k \in DOMAIN recs : ~SameFile(r, recs[k])) /\ recs' = Append(recs, r)

Answered(r) == r.status \in {"PASS", "FAIL_PRODUCT"}
(* The ask is over: the row closes on an answer and asks again otherwise.  *)
Rests(t, r) == Ends(t, IF Answered(r) THEN "answered" ELSE "idle")

Released(t) ==
  /\ full' = IF ask[t].slot /\ ask[t].only = Whole THEN full - 1 ELSE full
  /\ only' = IF ask[t].slot /\ ask[t].only # Whole THEN only - 1 ELSE only
  /\ host' = [h \in Host |-> IF h = ask[t].host THEN host[h] - 1 ELSE host[h]]
  /\ UNCHANGED box

(* The hosted route records its answer and gives its slots back.           *)
Closes(t, r) == Written(r) /\ Released(t) /\ Rests(t, r)
-----------------------------------------------------------------------------
(* What is on disk for an ask.                                             *)
OpenAnswers(of, s) == of = s \/ (Twin(s) /\ of = Whole)

(* The newest of the rows S of a log, one of just this scope before others.*)
Newest(S) == {k \in S : \A l \in S : l <= k}
Best(log, S, s) ==
  LET exact == {k \in S : log[k].only = s} IN
  {[pipe |-> log[k].pipe, only |-> log[k].only] : k \in Newest(IF exact # {} THEN exact ELSE S)}

Unanswered(s) == {k \in DOMAIN recs : recs[k].pipe # 0 /\ recs[k].status = "UNKNOWN" /\ OpenAnswers(recs[k].only, s)}
LedgerOpen(s) == {l \in DOMAIN ledger : OpenAnswers(ledger[l].only, s) /\ \A k \in DOMAIN recs : recs[k].pipe # ledger[l].pipe}

TriggeredPipeline(s) ==
  CASE Unanswered(s) # {}                          -> Best(recs, Unanswered(s), s)
    [] Unanswered(s) = {} /\ LedgerOpen(s) # {}    -> Best(ledger, LedgerOpen(s), s)
    [] OTHER                                       -> {NoPrior}

(* Another row's full run that failed is split against another base.       *)
Unattributable(t, r) == r.status = "FAIL_PRODUCT" /\ r.only = Whole /\ r.paths = Whole /\ r.pid # t

Reusable(t) ==
  {k \in DOMAIN recs :
    LET r == recs[k] IN
    /\ r.pid # t /\ Answered(r) /\ ~Unattributable(t, r)
    /\ r.paths = Paths(t) /\ (r.hosted => r.pipe # 0)
    /\ \/ r.only = Scope(t)
       \/ Twin(Scope(t)) /\ r.only = Whole /\ r.status = "PASS" /\ r.hosted}
-----------------------------------------------------------------------------
(* A round of the row comes to its proof: an answer on record is copied.   *)
Reuses(t) ==
  /\ At(t, "idle") /\ ask[t].asks < MaxAsks
  /\ \E k \in Newest(Reusable(t)) : recs' = Append(recs, [recs[k] EXCEPT !.pid = t, !.copy = ask[t].asks + 1])
  /\ More(t, "answered")
  /\ UNCHANGED <<red, pipes, ledger, counters, off, gate, spent>>

(* Nothing was run: a BLOCKED_* record, which no ask ever reads.           *)
Blocked(t) ==
  /\ More(t, "idle")
  /\ UNCHANGED <<red, pipes, recs, ledger, counters, off, gate, spent>>

(* run and route: the early tests of off, the day's cap and the slots.     *)
Full(t)   == Wants[t] = "full"
Hosted(t) == /\ ~off
             /\ CASE Wants[t] = "twin" -> only < OnlyCap
                  [] OTHER -> Len(ledger) < DailyCap /\ full < FullCap /\ (Full(t) \/ box >= BoxSlots)
OnBox(t)  == Wants[t] = "plain" /\ (Hosted(t) => only >= OnlyCap)
Routed(t) == At(t, "idle") /\ ask[t].asks < MaxAsks /\ Reusable(t) = {}

Holds(t)  == Routed(t) /\ Wants[t] # "plain" /\ ~Hosted(t) /\ Blocked(t)

MemoryHold(t) == Routed(t) /\ OnBox(t) /\ Blocked(t)

Boxed(t) ==
  /\ Routed(t) /\ OnBox(t) /\ box' = box + 1 /\ More(t, "box")
  /\ UNCHANGED <<red, pipes, recs, ledger, full, only, host, off, gate, spent>>

LeastLoaded == {h \in Host : \A k \in Host : host[h] < host[k] \/ (host[h] = host[k] /\ h <= k)}

(* run_circleci: a host for a full run, and the pipeline to adopt, if any. *)
Looks(t) ==
  /\ Routed(t) /\ ~OnBox(t) /\ Hosted(t)
  /\ LET s == IF Wants[t] = "plain" THEN <<"targeted", t>> ELSE Scope(t) IN
     \E prior \in TriggeredPipeline(s), chosen \in IF s = Whole THEN LeastLoaded ELSE {0} :
       /\ ask' = [ask EXCEPT ![t] = [ask[t] EXCEPT !.at = "slot", !.only = s, !.host = chosen, !.prior = prior, !.asks = ask[t].asks + 1]]
       /\ host' = [k \in Host |-> IF k = chosen THEN host[k] + 1 ELSE host[k]]
  /\ UNCHANGED <<red, pipes, recs, ledger, full, only, box, off, gate, spent>>

(* The slot is taken, or refused with the host given back, under the lock; *)
(* an adopter takes none.                                                  *)
Adopts(t) ==
  /\ At(t, "slot") /\ ask[t].prior.pipe # 0
  /\ ask' = [ask EXCEPT ![t] = [ask[t] EXCEPT !.at = "poll", !.pipe = ask[t].prior.pipe]]
  /\ UNCHANGED <<red, pipes, recs, ledger, counters, off, gate, spent>>

Faulty_HasRoom(t) == ask[t].only # Whole \/ full < FullCap
HasRoom(t) == IF ask[t].only = Whole THEN full < FullCap ELSE only < OnlyCap

TakesSlot(t) ==
  /\ At(t, "slot") /\ ask[t].prior.pipe = 0 /\ HasRoom(t)
  /\ IF ask[t].only = Whole THEN full' = full + 1 /\ UNCHANGED only ELSE only' = only + 1 /\ UNCHANGED full
  /\ ask' = [ask EXCEPT ![t] = [ask[t] EXCEPT !.at = "trigger", !.slot = TRUE]]
  /\ UNCHANGED <<red, pipes, recs, ledger, box, host, off, gate, spent>>

CapHolds(t) ==
  /\ At(t, "slot") /\ ask[t].prior.pipe = 0 /\ ~HasRoom(t)
  /\ Released(t) /\ Ends(t, "idle")
  /\ UNCHANGED <<red, pipes, recs, ledger, off, gate, spent>>

(* _trigger_refusal, read again at the trigger.                            *)
Refusal == ~gate \/ off \/ Len(ledger) >= DailyCap

Refused(t) ==
  /\ At(t, "trigger") /\ Refusal
  /\ Released(t) /\ Ends(t, "idle")
  /\ UNCHANGED <<red, pipes, recs, ledger, off, gate, spent>>

(* The push or the trigger fails, or the account is out of credits.        *)
TriggerFails(t) ==
  /\ At(t, "trigger") /\ ~Refusal /\ Fault
  /\ Released(t) /\ Ends(t, "idle")
  /\ UNCHANGED <<red, pipes, recs, ledger, off, gate>>

Triggers(t) ==
  /\ At(t, "trigger") /\ ~Refusal
  /\ pipes' = Append(pipes, [at |-> "running", only |-> ask[t].only, reds |-> {}, infra |-> FALSE, empty |-> FALSE])
  /\ ask' = [ask EXCEPT ![t] = [ask[t] EXCEPT !.at = "note", !.pipe = Len(pipes) + 1]]
  /\ UNCHANGED <<red, recs, ledger, counters, off, gate, spent>>

Notes(t) ==
  /\ At(t, "note")
  /\ ledger' = Append(ledger, [pipe |-> ask[t].pipe, only |-> ask[t].only])
  /\ Goes(t, "poll")
  /\ UNCHANGED <<red, pipes, recs, counters, off, gate, spent>>

(* The pipeline runs without the driver.                                   *)
PipelineEnds(p) ==
  /\ pipes[p].at = "running"
  /\ \/ \E more \in SUBSET (Runs(pipes[p].only) \ red) :
          pipes' = [pipes EXCEPT ![p].at = "done", ![p].reds = (red \cap Runs(pipes[p].only)) \cup more] /\ UNCHANGED spent
     \/ pipes' = [pipes EXCEPT ![p].at = "done", ![p].infra = TRUE] /\ Fault
     \/ pipes' = [pipes EXCEPT ![p].at = "done", ![p].empty = TRUE] /\ Fault /\ pipes[p].only # Whole
  /\ UNCHANGED <<red, recs, ledger, ask, counters, off, gate>>

PollAborted(t) ==
  /\ At(t, "poll") /\ off /\ pipes[ask[t].pipe].at # "done"
  /\ pipes' = [pipes EXCEPT ![ask[t].pipe].at = "cancelled"]
  /\ Closes(t, Rec(t, "CANCELLED"))
  /\ UNCHANGED <<red, ledger, off, gate, spent>>

(* The poll runs into its deadline or too many errors.                     *)
PollDies(t) ==
  /\ At(t, "poll") /\ Fault
  /\ Closes(t, Rec(t, "UNKNOWN"))
  /\ UNCHANGED <<red, pipes, ledger, off, gate>>
-----------------------------------------------------------------------------
(* What the pipeline says about this ask.                                  *)
Of(t)       == pipes[ask[t].pipe]
Failed(t)   == Of(t).reds \cap Runs(ask[t].only)
AdoptedFull(t) == ask[t].prior.pipe # 0 /\ ask[t].prior.only = Whole

Class(t) ==
  IF Of(t).at = "cancelled" THEN "CANCELLED"
  ELSE IF Of(t).reds # {} THEN "FAIL_PRODUCT"
  ELSE IF Of(t).infra THEN "FAIL_INFRA" ELSE "PASS"

Status(t) ==
  CASE ask[t].only # Whole /\ Class(t) = "FAIL_PRODUCT" /\ Failed(t) = {} /\ AdoptedFull(t) -> "PASS"
    [] ask[t].only # Whole /\ Class(t) = "PASS" /\ Of(t).empty -> "FAIL_INFRA"
    [] OTHER -> Class(t)

(* A red node outside the lane's own files is run again on the box.        *)
Blocking(t) == Failed(t) \cap Touched[t]
Again(t)    == Failed(t) \ Touched[t]

(* The record carries the scope of the ask, or that of a full run it       *)
(* adopted.                                                                *)
Judgement(t, status) ==
  [Rec(t, status) EXCEPT !.only  = IF AdoptedFull(t) THEN Whole ELSE ask[t].only,
                         !.paths = IF AdoptedFull(t) THEN Whole ELSE Paths(t)]

Judges(t) ==
  /\ At(t, "poll") /\ Of(t).at # "running"
  /\ IF Status(t) = "FAIL_PRODUCT" /\ Again(t) # {}
     THEN Goes(t, "rerun") /\ box' = box + 1 /\ UNCHANGED <<recs, full, only, host>>
     ELSE LET r == Judgement(t, Status(t))
          IN  IF r.status = "FAIL_INFRA" /\ Wants[t] = "plain" /\ ~off
              THEN /\ Written(r) /\ box' = box + 1 /\ Ends(t, "box")
                   /\ full' = full /\ only' = (IF ask[t].slot THEN only - 1 ELSE only) /\ host' = host
              ELSE Closes(t, r)
  /\ UNCHANGED <<red, pipes, ledger, off, gate, spent>>

(* Green on the box, and nothing of the lane's own red: a pass.            *)
Faulty_Pardoned(t, still) == still = {}
Pardoned(t, still) == still = {} /\ Blocking(t) = {}

Reruns(t) ==
  /\ At(t, "rerun")
  /\ \E still \in {Again(t) \cap red, Again(t)} :
       LET r == Judgement(t, IF Pardoned(t, still) THEN "PASS" ELSE "FAIL_PRODUCT") IN
       /\ Written(r) /\ Rests(t, r)
       /\ full' = IF ask[t].slot /\ ask[t].only = Whole THEN full - 1 ELSE full
       /\ only' = IF ask[t].slot /\ ask[t].only # Whole THEN only - 1 ELSE only
       /\ host' = [h \in Host |-> IF h = ask[t].host THEN host[h] - 1 ELSE host[h]]
       /\ box' = box - 1
  /\ UNCHANGED <<red, pipes, ledger, off, gate, spent>>

BoxEnds(t) ==
  /\ At(t, "box") /\ box' = box - 1
  /\ \/ LET r == [Rec(t, IF FilesOf[t] \cap red = {} THEN "PASS" ELSE "FAIL_PRODUCT") EXCEPT !.paths = Paths(t)]
        IN  Written(r) /\ Rests(t, r) /\ UNCHANGED spent
     \/ Fault /\ Ends(t, "idle") /\ UNCHANGED recs
  /\ UNCHANGED <<red, pipes, ledger, full, only, host, off, gate>>
-----------------------------------------------------------------------------
Flips ==
  /\ spent.flips < MaxFlips /\ spent' = [spent EXCEPT !.flips = @ + 1]
  /\ \/ off' = ~off /\ UNCHANGED gate
     \/ gate' = ~gate /\ UNCHANGED off
  /\ UNCHANGED <<red, pipes, recs, ledger, ask, counters>>

(* The driver dies: the threads and the counters go, disk and pipelines    *)
(* stay.                                                                   *)
Crash ==
  /\ spent.crashes < MaxCrashes /\ spent' = [spent EXCEPT !.crashes = @ + 1]
  /\ ask' = [t \in Asker |-> IF At(t, "answered") THEN ask[t] ELSE Bare(t, "idle")]
  /\ full' = 0 /\ only' = 0 /\ box' = 0 /\ host' = [h \in Host |-> 0]
  /\ UNCHANGED <<red, pipes, recs, ledger, off, gate>>

InitRest ==
  /\ red \in SUBSET File
  /\ pipes = <<>> /\ recs = <<>> /\ ledger = <<>>
  /\ full = 0 /\ only = 0 /\ box = 0 /\ host = [h \in Host |-> 0]
  /\ off = FALSE /\ gate = TRUE

Init ==
  /\ InitRest /\ ask = [t \in Asker |-> Idle]
  /\ spent = [faults |-> 0, flips |-> 0, crashes |-> 0]

Next ==
  \/ \E t \in Asker :
       \/ Reuses(t) \/ Holds(t) \/ MemoryHold(t) \/ Boxed(t) \/ Looks(t)
       \/ Adopts(t) \/ TakesSlot(t) \/ CapHolds(t) \/ Refused(t) \/ TriggerFails(t) \/ Triggers(t) \/ Notes(t)
       \/ PollAborted(t) \/ PollDies(t) \/ Judges(t) \/ Reruns(t) \/ BoxEnds(t)
  \/ \E p \in DOMAIN pipes : PipelineEnds(p)
  \/ Flips \/ Crash

Spec == Init /\ [][Next]_vars
-----------------------------------------------------------------------------
FullHeld == {t \in Asker : ask[t].slot /\ ask[t].only = Whole}
OnlyHeld == {t \in Asker : ask[t].slot /\ ask[t].only # Whole}
BoxHeld  == {t \in Asker : ask[t].at \in {"box", "rerun"}}
HostHeld(h) == {t \in Asker : ask[t].host = h}

(* Every slot and host that is counted is held by a live thread, and the   *)
(* limits stand, although the early tests read them without taking them    *)
(* (D135, D141, D143).                                                     *)
SlotsAreCounted ==
  /\ full = Cardinality(FullHeld) /\ full <= FullCap
  /\ only = Cardinality(OnlyHeld) /\ only <= OnlyCap
  /\ box  = Cardinality(BoxHeld)
  /\ \A h \in Host : host[h] = Cardinality(HostHeld(h))

(* A pass on record hides no file of its row that its pipeline showed red  *)
(* and that is: what was pardoned was a flake, what was left to other      *)
(* scopes is theirs.                                                       *)
PassHidesNoRed ==
  \A k \in DOMAIN recs :
    LET r == recs[k] IN
    r.status = "PASS" /\ r.pipe # 0 /\ r.copy = 0 => FilesOf[r.pid] \cap pipes[r.pipe].reds \cap red = {}

-----------------------------------------------------------------------------
(* What the source says and the code does not do.                          *)

(* A pass on record as one of the full suite is one: "a full green is a    *)
(* strict superset" (laneproof 1051; _reusable_proof 6637).                *)
FullPassIsFull ==
  \A k \in DOMAIN recs :
    LET r == recs[k] IN
    r.status = "PASS" /\ r.pipe # 0 /\ r.only = Whole /\ r.paths = Whole => pipes[r.pipe].only = Whole /\ red = {}

(* A pipeline that was answered is not polled again: only one "whose       *)
(* answer never came back" is (triggered_pipeline).                        *)
AnsweredIsClosed ==
  [][\A t \in Asker : ~At(t, "poll") /\ ask'[t].at = "poll" =>
       ~\E k \in DOMAIN recs : recs[k].pipe = ask'[t].pipe /\ recs[k].status \in {"PASS", "FAIL_PRODUCT", "FAIL_INFRA"}]_vars
=============================================================================
