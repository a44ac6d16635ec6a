---------------------------- MODULE HostedTwins ----------------------------
(***************************************************************************)
(* The hosted twins of the v13 lane driver (vp/lanedriver.py): packets     *)
(* that carry the benchmark rows of a parent which only a hosted run can   *)
(* answer.  While the canary is armed the other CIRCLECI twins are held;   *)
(* a twin that completes is written into its parent's hosted record, whose *)
(* box_only falls when all twins and rows are in; an operator withdraws a  *)
(* row's verdict and restores it from another process.  Nobody locks the   *)
(* record: a writer reads it, truncates it and writes it, and a truncated  *)
(* record reads like none.  A twin's retry is a task of its own.           *)
(***************************************************************************)
EXTENDS Naturals, FiniteSets

CONSTANTS
  Twin,                \* the twin packets
  Of,                  \* twin -> its parent packet
  Circle,              \* the twins behind the CIRCLECI gate
  Canary,              \* the roster's canary task
  Rows,                \* twin -> its hosted rows
  File, Platform,      \* test files, and those under platform/
  TestPaths,           \* twin -> its parent's and its contract's test files
  Named,               \* twin -> the files its rows name
  NeedsAll,            \* the twins that say "full", or whose rows ask for a job or a stubbed seam
  Owes,                \* the parents whose kind owes a proof
  FullCap, OnlyCap,    \* max_in_flight, max_only_in_flight
  None,                \* no value yet
  MaxRetries, MaxTrouble, MaxEdits   \* bounds

TwinsAssumption ==
  /\ Circle \subseteq Twin /\ NeedsAll \subseteq Twin /\ Canary \in Circle /\ Platform \subseteq File
  /\ TestPaths \in [Twin -> SUBSET File] /\ Named \in [Twin -> SUBSET File]
  /\ {FullCap, OnlyCap, MaxRetries, MaxTrouble, MaxEdits} \subseteq Nat
  /\ \A t, u \in Twin : t # u => Rows[t] \cap Rows[u] = {}
  /\ None \notin {"PASS", "DEFERRED", "UNKNOWN", "UNSOUND", "VERIFIED", "RED"}

VARIABLES
  roster, mem,   \* [scoping, released, skipped]: roster.json, and what the driver runs on
  row,           \* twin -> its task in the scheduler: [gen, at]
  run,           \* twin -> the thread of its attempt
  recs,          \* twin -> its last proof record and the last that passed
  out,           \* parent -> the version of its output
  hosted,        \* parent -> hosted/<task>.json
  cli,           \* the operator's process
  earned,        \* what was ever reported: [twins, rows, canary]
  spent          \* [trouble, edits]

vars == <<roster, mem, row, run, recs, out, hosted, cli, earned, spent>>

Parents == {Of[t] : t \in Twin}
Row     == UNION {Rows[t] : t \in Twin}
Task    == Twin \X (0 .. MaxRetries)
TwinsOf(p) == {t \in Twin : Of[t] = p}
Whole   == {}        \* the scope of the full suite
NoRow   == [v |-> None, by |-> None, was |-> None, wasBy |-> None]
NoRec   == [status |-> None, only |-> Whole, pipe |-> FALSE, of |-> 0]
Empty   == [twins |-> [k \in Task |-> None], rows |-> [r \in Row |-> NoRow], boxOnly |-> TRUE]
Rests   == [at |-> "idle", only |-> Whole, outcome |-> None, said |-> {}, snap |-> Empty]
NoCli   == [at |-> "idle", of |-> None, row |-> None, names |-> None, snap |-> Empty]

TaskOf(t)  == <<t, row[t].gen>>
Live(t)    == run[t].at # "idle"
Trouble    == spent.trouble < MaxTrouble /\ spent' = [spent EXCEPT !.trouble = @ + 1]
Edits      == spent.edits < MaxEdits /\ spent' = [spent EXCEPT !.edits = @ + 1]
-----------------------------------------------------------------------------
(* Scopes, holds and slots.                                                *)
IsCanaryRow(t) == t = Canary
ScopedTwin(t)  == mem.scoping /\ t \in Circle /\ ~IsCanaryRow(t)

TwinScopePaths(t) == TestPaths[t] \cup Named[t]
TwinScopeOnly(t) ==
  IF ScopedTwin(t) /\ t \notin NeedsAll /\ TwinScopePaths(t) \subseteq Platform THEN TwinScopePaths(t) ELSE Whole

CanaryHold(t) == t \in Circle /\ ~mem.released /\ ~IsCanaryRow(t) /\ ~ScopedTwin(t)

TwinSlotFull(t) ==
  /\ t \in Circle
  /\ Cardinality({u \in Circle : Live(u) /\ ScopedTwin(u) = ScopedTwin(t)}) >= IF ScopedTwin(t) THEN OnlyCap ELSE FullCap

CanaryProof == recs[Canary].last
CanaryAnswers(r) == r.only = Whole /\ r.pipe /\ r.status = "PASS"

(* What the ledger says of a parent's proof.                               *)
ProofScopeFor(t) == IF recs[t].pass = NoRec THEN None ELSE IF recs[t].pass.only = Whole THEN "full" ELSE "scoped"
MemberScope(p) ==
  LET scopes == {ProofScopeFor(t) : t \in TwinsOf(p)} \ {None} IN
  IF p \notin Owes THEN {"not_required"} ELSE IF scopes = {} THEN {"unproven"} ELSE scopes
-----------------------------------------------------------------------------
(* The hosted record.                                                      *)
Cleared(p, f) ==
  /\ \A t \in TwinsOf(p) : f.twins[<<t, 0>>] = "VERIFIED"      \* twins are kept by task, expected by packet
  /\ \A r \in UNION {Rows[t] : t \in TwinsOf(p)} : f.rows[r].v \in {"PASS", "DEFERRED"}
Weighed(p, f) == [f EXCEPT !.boxOnly = ~Cleared(p, f)]

DeferredRows(t) == Rows[t] \cap mem.skipped

(* A PASS is only ever what a grader ruled.                                *)
Faulty_Verdict(t, r) ==
  IF r \in DeferredRows(t) THEN "DEFERRED" ELSE IF run[t].outcome = "VERIFIED" \/ r \in run[t].said THEN "PASS" ELSE "UNKNOWN"
Verdict(t, r) ==
  CASE r \in DeferredRows(t)                         -> "DEFERRED"
    [] r \notin DeferredRows(t) /\ r \in run[t].said -> "PASS"
    [] OTHER                                         -> "UNKNOWN"

TwinRecord(t, f) ==
  Weighed(Of[t],
    [f EXCEPT !.twins[TaskOf(t)] = run[t].outcome,
              !.rows = [r \in Row |-> IF r \in Rows[t] THEN [NoRow EXCEPT !.v = Verdict(t, r), !.by = TaskOf(t)] ELSE @[r]]])

CanWithdraw(f) == LET cur == f.rows[cli.row] IN cur.v \notin {None, "UNSOUND"} /\ cur.by = cli.names
UnsoundGrade(f) ==
  Weighed(cli.of, [f EXCEPT !.rows[cli.row] = [v |-> "UNSOUND", by |-> cli.names, was |-> @.v, wasBy |-> @.by]])

CanRestore(f) == f.rows[cli.row].v = "UNSOUND"
RestoreGrade(f) == Weighed(cli.of, [f EXCEPT !.rows[cli.row] = [NoRow EXCEPT !.v = f.rows[cli.row].was, !.by = f.rows[cli.row].wasBy]])
-----------------------------------------------------------------------------
(* The driver.                                                             *)
Claims(t) ==
  /\ row[t].at = "READY" /\ ~Live(t) /\ ~CanaryHold(t) /\ ~TwinSlotFull(t)
  /\ row' = [row EXCEPT ![t].at = "RUNNING"] /\ run' = [run EXCEPT ![t].at = "claimed"]
  /\ UNCHANGED <<roster, mem, recs, out, hosted, cli, earned, spent>>

(* A packet of the canary may ask for one job only.                        *)
Proves(t) ==
  /\ run[t].at = "claimed"
  /\ \E only \in {TwinScopeOnly(t)} \cup IF IsCanaryRow(t) THEN {File} ELSE {} :
       run' = [run EXCEPT ![t].at = "proving", ![t].only = only]
  /\ UNCHANGED <<roster, mem, row, recs, out, hosted, cli, earned, spent>>

(* Proof, grader and complete.  A twin behind another gate has no proof;   *)
(* a probe has no grader.  A proof without a pipeline ran on the box.      *)
Completes(t) ==
  /\ run[t].at = "proving"
  /\ \E status \in IF t \in Circle THEN {"PASS", "FAIL_PRODUCT"} ELSE {None},
        pipe \in IF IsCanaryRow(t) THEN BOOLEAN ELSE {t \in Circle},
        outcome \in {"VERIFIED", "RED"}, said \in SUBSET Rows[t] :
       LET r == [status |-> status, only |-> run[t].only, pipe |-> pipe, of |-> out[Of[t]]] IN
       /\ outcome = "VERIFIED" => status \in {"PASS", None}
       /\ row' = [row EXCEPT ![t].at = outcome]
       /\ recs' = [recs EXCEPT ![t] = [last |-> r, pass |-> IF status = "PASS" THEN r ELSE @.pass]]
       /\ run' = [run EXCEPT ![t] = [@ EXCEPT !.at = "record", !.outcome = outcome, !.said = said]]
       /\ earned' = [twins  |-> IF outcome = "VERIFIED" THEN earned.twins \cup {t} ELSE earned.twins,
                     rows   |-> earned.rows \cup said,
                     canary |-> earned.canary \/ (IsCanaryRow(t) /\ CanaryAnswers(r))]
  /\ UNCHANGED <<roster, mem, out, hosted, cli, spent>>

RecordReads(t) ==
  /\ run[t].at = "record"
  /\ run' = [run EXCEPT ![t] = [Rests EXCEPT !.at = "tear", !.snap = TwinRecord(t, hosted[Of[t]])]]
  /\ UNCHANGED <<roster, mem, row, recs, out, hosted, cli, earned, spent>>

RecordTears(t) ==
  /\ run[t].at = "tear" /\ run' = [run EXCEPT ![t].at = "fill"] /\ hosted' = [hosted EXCEPT ![Of[t]] = Empty]
  /\ UNCHANGED <<roster, mem, row, recs, out, cli, earned, spent>>

RecordFills(t) ==
  /\ run[t].at = "fill" /\ run' = [run EXCEPT ![t] = Rests] /\ hosted' = [hosted EXCEPT ![Of[t]] = run[t].snap]
  /\ UNCHANGED <<roster, mem, row, recs, out, cli, earned, spent>>

(* The roster is written back with the release, unless that fails.         *)
CanaryStep ==
  /\ ~mem.released /\ CanaryAnswers(CanaryProof)
  /\ mem' = [mem EXCEPT !.released = TRUE]
  /\ \/ roster' = [roster EXCEPT !.released = TRUE] /\ UNCHANGED spent
     \/ Trouble /\ UNCHANGED roster
  /\ UNCHANGED <<row, run, recs, out, hosted, cli, earned>>

AppliesRoster == mem' = roster
ReloadsRoster ==
  /\ mem # roster /\ AppliesRoster
  /\ UNCHANGED <<roster, row, run, recs, out, hosted, cli, earned, spent>>

(* A restart adopts the attempts that run; one that has completed is not   *)
(* recorded any more.                                                      *)
Restarts ==
  /\ Trouble /\ AppliesRoster
  /\ run' = [t \in Twin |-> IF run[t].at \in {"claimed", "proving"} THEN run[t] ELSE Rests]
  /\ UNCHANGED <<roster, row, recs, out, hosted, cli, earned>>

PackRetry(t) ==
  /\ Edits /\ row[t].at = "RED" /\ ~Live(t) /\ row[t].gen < MaxRetries
  /\ row' = [row EXCEPT ![t] = [gen |-> @.gen + 1, at |-> "READY"]]
  /\ UNCHANGED <<roster, mem, run, recs, out, hosted, cli, earned>>
-----------------------------------------------------------------------------
(* The owner skips a gate or opens it; a twin or a parent is invalidated;  *)
(* the operator withdraws a verdict or restores it.                        *)
OwnerFlips(r) ==
  /\ Edits /\ roster' = [roster EXCEPT !.skipped = IF r \in @ THEN @ \ {r} ELSE @ \cup {r}]
  /\ earned' = [earned EXCEPT !.rows = @ \cup {r}]
  /\ UNCHANGED <<mem, row, run, recs, out, hosted, cli>>

Invalidated(t) ==
  /\ Edits /\ row[t].at = "VERIFIED" /\ row' = [row EXCEPT ![t].at = "RED"]
  /\ UNCHANGED <<roster, mem, run, recs, out, hosted, cli, earned>>

ParentRebuilt(p) ==
  /\ Edits /\ out' = [out EXCEPT ![p] = @ + 1]
  /\ UNCHANGED <<roster, mem, row, run, recs, hosted, cli, earned>>

(* He names the task whose verdict he has read.                            *)
OperatorAsks(p, r, op) ==
  /\ Edits /\ cli.at = "idle" /\ r \in UNION {Rows[t] : t \in TwinsOf(p)} /\ hosted[p].rows[r] # NoRow
  /\ cli' = [at |-> op, of |-> p, row |-> r, names |-> hosted[p].rows[r].by, snap |-> Empty]
  /\ UNCHANGED <<roster, mem, row, run, recs, out, hosted, earned>>

CliReads ==
  /\ cli.at \in {"unsound", "restore"}
  /\ LET f == hosted[cli.of]
         ok == IF cli.at = "unsound" THEN CanWithdraw(f) ELSE CanRestore(f) IN
     cli' = IF ok THEN [cli EXCEPT !.at = "tear", !.snap = IF cli.at = "unsound" THEN UnsoundGrade(f) ELSE RestoreGrade(f)]
            ELSE NoCli
  /\ UNCHANGED <<roster, mem, row, run, recs, out, hosted, earned, spent>>

CliTears ==
  /\ cli.at = "tear" /\ cli' = [cli EXCEPT !.at = "fill"] /\ hosted' = [hosted EXCEPT ![cli.of] = Empty]
  /\ UNCHANGED <<roster, mem, row, run, recs, out, earned, spent>>

CliFills ==
  /\ cli.at = "fill" /\ cli' = NoCli /\ hosted' = [hosted EXCEPT ![cli.of] = cli.snap]
  /\ UNCHANGED <<roster, mem, row, run, recs, out, earned, spent>>

InitWith(scoping, ready) ==
  /\ roster = [scoping |-> scoping, released |-> FALSE, skipped |-> {}] /\ mem = roster
  /\ row = [t \in Twin |-> [gen |-> 0, at |-> IF t \in ready THEN "READY" ELSE "WAITING"]]
  /\ run = [t \in Twin |-> Rests] /\ recs = [t \in Twin |-> [last |-> NoRec, pass |-> NoRec]]
  /\ out = [p \in Parents |-> 1] /\ hosted = [p \in Parents |-> Empty] /\ cli = NoCli
  /\ earned = [twins |-> {}, rows |-> {}, canary |-> FALSE]

Init == (\E scoping \in BOOLEAN : InitWith(scoping, Twin)) /\ spent = [trouble |-> 0, edits |-> 0]

Attempt(t) == Claims(t) \/ Proves(t) \/ Completes(t) \/ RecordReads(t) \/ RecordTears(t) \/ RecordFills(t)
Next ==
  \/ \E t \in Twin : Attempt(t) \/ PackRetry(t) \/ Invalidated(t)
  \/ CanaryStep \/ ReloadsRoster \/ Restarts
  \/ \E r \in Row : OwnerFlips(r)
  \/ \E p \in Parents : ParentRebuilt(p) \/ (\E r \in Row : \E op \in {"unsound", "restore"} : OperatorAsks(p, r, op))
  \/ CliReads \/ CliTears \/ CliFills

Spec == Init /\ [][Next]_vars
-----------------------------------------------------------------------------
(* A parent's hosted record is cleared only on what happened: each of its  *)
(* twins was verified, and each row was ruled PASS by a grader or its gate *)
(* skipped by the owner; whatever writers of the record overtake each      *)
(* other, die in between, are withdrawn or restored (_twin_record).        *)
ClearedIsEarned ==
  \A p \in Parents : ~hosted[p].boxOnly => \A t \in TwinsOf(p) : t \in earned.twins /\ Rows[t] \subseteq earned.rows

(* Without scoped twins no pipeline of the full suite is run for a twin    *)
(* before the canary's has passed: not for a run of one job, nor on the    *)
(* box, nor after a restart (_canary_hold, _canary_step).                  *)
CanaryFirst ==
  ~mem.scoping /\ ~earned.canary => \A t \in Circle \ {Canary} : ~Live(t)
-----------------------------------------------------------------------------
(* What the docstrings say and the code does not do.                       *)

(* "a scoped twin never waits on the canary", but it may have no scope and *)
(* run everything.                                                         *)
CanaryAlone == ~earned.canary => \A t \in Circle \ {Canary} : run[t].at = "proving" => run[t].only # Whole

(* A withdrawal stays until it is restored or a newer task reports: not    *)
(* when a twin had read the record before.                                 *)
WithdrawnStays ==
  [][\A p \in Parents, r \in Row :
       LET was == hosted[p].rows[r]  now == hosted'[p].rows[r] IN
       was.v = "UNSOUND" /\ now.v = "PASS" => cli.at = "fill" \/ now.by # was.by]_vars

(* box_only clears once every twin is verified: not when one was retried.  *)
VerifiedClears ==
  \A p \in Parents :
    (\A t \in TwinsOf(p) : row[t].at = "VERIFIED" /\ ~Live(t) /\ \A r \in Rows[t] : hosted[p].rows[r].v = "PASS")
      => ~hosted[p].boxOnly

(* The scope on the ledger is that of a proof of the present output.       *)
ScopeIsOfOutput ==
  \A p \in Parents : MemberScope(p) = {"full"} => \E t \in TwinsOf(p) : recs[t].pass.of = out[p]
=============================================================================
