---------------------------- MODULE MCLane_proofs ----------------------------
(***************************************************************************)
(* Proofs about the parts of a lane's way, for every value of the          *)
(* constants the assumptions allow: the hosted twins (HostedTwins), the    *)
(* rounds of a build (LaneBuild), the unions (LaneUnion), the proofs       *)
(* (LaneProof) and the merge gate (MergeGate), each under its own          *)
(* specification.  The invariants of a part are its types and what its own *)
(* theorem needs beyond them.                                              *)
(***************************************************************************)
EXTENDS MCLane, FiniteSetTheorems, SequenceTheorems, TLAPS

-----------------------------------------------------------------------------
(* HostedTwins.  A document about a parent is sound when what it says was  *)
(* reported at some time: a twin VERIFIED in it was, a row ruled PASS or   *)
(* DEFERRED, now or before it was withdrawn, was ruled so or skipped, and  *)
(* box_only is down only if all of that holds of all the parent's twins.   *)
TwinVerdicts == {None, "PASS", "DEFERRED", "UNKNOWN", "UNSOUND"}
TwinNames    == Twins!Task \cup {None}
RowRecords   == [v : TwinVerdicts, by : TwinNames, was : TwinVerdicts, wasBy : TwinNames]
Documents    == [twins : [Twins!Task -> {None, "VERIFIED", "RED"}], rows : [Twins!Row -> RowRecords], boxOnly : BOOLEAN]
Rosters      == [scoping : BOOLEAN, released : BOOLEAN, skipped : SUBSET Twins!Row]
Attempts     == [at : {"idle", "claimed", "proving", "record", "tear", "fill"}, only : SUBSET File,
                 outcome : {None, "VERIFIED", "RED"}, said : SUBSET Twins!Row, snap : Documents]
ProofRecords == [status : {None, "PASS", "FAIL_PRODUCT"}, only : SUBSET File, pipe : BOOLEAN, of : Nat]
Operators    == [at : {"idle", "unsound", "restore", "tear", "fill"}, of : Twins!Parents \cup {None},
                 row : Twins!Row \cup {None}, names : TwinNames, snap : Documents]

TwinsTyped ==
  /\ roster \in Rosters /\ mem \in Rosters
  /\ trow \in [TwinRow -> [gen : 0 .. MaxRetries, at : {"READY", "WAITING", "RUNNING", "VERIFIED", "RED"}]]
  /\ trun \in [TwinRow -> Attempts]
  /\ trecs \in [TwinRow -> [last : ProofRecords, pass : ProofRecords]]
  /\ tout \in [Twins!Parents -> Nat] /\ hosted \in [Twins!Parents -> Documents]
  /\ cli \in Operators /\ (cli.at # "idle" => cli.of \in Twins!Parents /\ cli.row \in Twins!Row)
  /\ earned \in [twins : SUBSET TwinRow, rows : SUBSET Twins!Row, canary : BOOLEAN]

Said(e, f) ==
  /\ \A k \in Twins!Task : f.twins[k] = "VERIFIED" => k[1] \in e.twins
  /\ \A r \in Twins!Row : f.rows[r].v \in {"PASS", "DEFERRED"} \/ f.rows[r].was \in {"PASS", "DEFERRED"} => r \in e.rows
Sound(e, par, f) ==
  /\ Said(e, f)
  /\ ~f.boxOnly => \A t \in Twins!TwinsOf(par) : t \in e.twins /\ RowsOf[t] \subseteq e.rows

SoundAttempt(e, t, att) ==
  /\ Sound(e, ParentOf[t], att.snap) /\ att.said \subseteq e.rows
  /\ att.outcome = "VERIFIED" => t \in e.twins

Honest ==
  /\ \A par \in Twins!Parents : Sound(earned, par, hosted[par])
  /\ \A t \in TwinRow : SoundAttempt(earned, t, trun[t])
  /\ Sound(earned, cli.of, cli.snap)
  /\ roster.skipped \subseteq earned.rows /\ mem.skipped \subseteq earned.rows

(* The canary has passed once its release or its passing proof is on record.*)
Heard ==
  /\ roster.scoping = mem.scoping
  /\ (roster.released => earned.canary) /\ (mem.released => earned.canary)
  /\ Twins!CanaryAnswers(trecs[Canary].last) => earned.canary
  /\ Twins!CanaryFirst

TwinsInv == TwinsTyped /\ Honest /\ Heard

LEMMA TwinConstants ==
  /\ Canary \in TwinRow /\ Circle \subseteq TwinRow /\ MaxRetries \in Nat /\ 0 \in 0 .. MaxRetries
  /\ None \notin {"PASS", "DEFERRED", "UNKNOWN", "UNSOUND", "VERIFIED", "RED"}
  /\ \A t \in TwinRow : ParentOf[t] \in Twins!Parents /\ RowsOf[t] \in SUBSET Twins!Row /\ TestPaths[t] \in SUBSET File /\ Named[t] \in SUBSET File
<1>1. Twins!TwinsAssumption
  BY PartsAssumption
<1>2. MaxRetries \in Nat /\ Canary \in TwinRow /\ Circle \subseteq TwinRow
  BY <1>1 DEF Twins!TwinsAssumption
<1>3. \A t \in TwinRow : ParentOf[t] \in Twins!Parents /\ RowsOf[t] \in SUBSET Twins!Row
  BY DEF Twins!Parents, Twins!Row
<1>4. \A t \in TwinRow : TestPaths[t] \in SUBSET File /\ Named[t] \in SUBSET File
  BY <1>1 DEF Twins!TwinsAssumption
<1>5. None \notin {"PASS", "DEFERRED", "UNKNOWN", "UNSOUND", "VERIFIED", "RED"}
  BY <1>1 DEF Twins!TwinsAssumption
<1>6. QED BY <1>2, <1>3, <1>4, <1>5

(* The empty document says nothing.                                        *)
LEMMA EmptyIsSound ==
  /\ Twins!Empty \in Documents
  /\ \A e, par : Sound(e, par, Twins!Empty)
<1>1. Twins!NoRow \in RowRecords
  BY DEF Twins!NoRow, RowRecords, TwinVerdicts, TwinNames
<1>2. Twins!Empty \in Documents
  BY <1>1 DEF Twins!Empty, Documents
<1>3. ASSUME NEW e PROVE Said(e, Twins!Empty)
  BY TwinConstants DEF Said, Twins!Empty, Twins!NoRow
<1>4. QED BY <1>2, <1>3 DEF Sound, Twins!Empty

(* What was reported stays reported.                                       *)
LEMMA SoundStays ==
  ASSUME NEW e, NEW n, NEW par, NEW f, Sound(e, par, f), e.twins \subseteq n.twins, e.rows \subseteq n.rows
  PROVE  Sound(n, par, f)
BY DEF Sound, Said

(* A writer weighs what it writes.                                         *)
LEMMA WeighedIsSound ==
  ASSUME NEW e, NEW par, NEW f \in Documents, Said(e, f)
  PROVE  Twins!Weighed(par, f) \in Documents /\ Sound(e, par, Twins!Weighed(par, f))
<1> DEFINE w == Twins!Weighed(par, f)
<1>1. w \in Documents /\ w.twins = f.twins /\ w.rows = f.rows /\ w.boxOnly = ~Twins!Cleared(par, f)
  BY DEF Twins!Weighed, Documents, Twins!Cleared
<1>2. Said(e, w)
  BY <1>1 DEF Said
<1>3. ASSUME ~w.boxOnly, NEW t \in Twins!TwinsOf(par) PROVE t \in e.twins /\ RowsOf[t] \subseteq e.rows
  <2>1. Twins!Cleared(par, f) /\ t \in TwinRow
    BY <1>1, <1>3 DEF Twins!TwinsOf
  <2>2. <<t, 0>> \in Twins!Task /\ <<t, 0>>[1] = t
    BY <2>1, TwinConstants DEF Twins!Task
  <2>3. t \in e.twins
    BY <1>3, <2>1, <2>2 DEF Twins!Cleared, Said
  <2>4. ASSUME NEW r \in RowsOf[t] PROVE r \in e.rows
    <3>1. r \in Twins!Row /\ f.rows[r].v \in {"PASS", "DEFERRED"}
      BY <1>3, <2>1, TwinConstants DEF Twins!Cleared
    <3>2. QED BY <3>1 DEF Said
  <2>5. QED BY <2>3, <2>4
<1>4. QED BY <1>1, <1>2, <1>3 DEF Sound

(* What a thread or the operator makes of a sound document is sound.       *)
LEMMA RecordIsSound ==
  ASSUME TwinsTyped, Honest, NEW t \in TwinRow
  PROVE  /\ Twins!TwinRecord(t, hosted[ParentOf[t]]) \in Documents
         /\ Sound(earned, ParentOf[t], Twins!TwinRecord(t, hosted[ParentOf[t]]))
<1> DEFINE f == hosted[ParentOf[t]]
           rows == [r \in Twins!Row |-> IF r \in RowsOf[t] THEN [Twins!NoRow EXCEPT !.v = Twins!Verdict(t, r), !.by = Twins!TaskOf(t)] ELSE f.rows[r]]
           twins == [f.twins EXCEPT ![Twins!TaskOf(t)] = trun[t].outcome]
           g == [f EXCEPT !.twins = twins, !.rows = rows]
<1>1. f \in Documents /\ Sound(earned, ParentOf[t], f) /\ SoundAttempt(earned, t, trun[t])
  BY TwinConstants DEF TwinsTyped, Honest
<1>2. Twins!TaskOf(t) \in Twins!Task /\ Twins!TaskOf(t)[1] = t
  BY DEF TwinsTyped, Twins!TaskOf, Twins!Task
<1>3. trun[t].outcome \in {None, "VERIFIED", "RED"} /\ mem.skipped \in SUBSET Twins!Row
  BY DEF TwinsTyped, Attempts, Rosters
<1>4. twins \in [Twins!Task -> {None, "VERIFIED", "RED"}]
  BY <1>1, <1>2, <1>3 DEF Documents
<1>5. ASSUME NEW r \in Twins!Row
      PROVE  /\ Twins!Verdict(t, r) \in {"PASS", "DEFERRED", "UNKNOWN"}
             /\ Twins!Verdict(t, r) \in {"PASS", "DEFERRED"} => r \in earned.rows
  BY <1>1 DEF Twins!Verdict, Twins!DeferredRows, SoundAttempt, Honest
<1>6. ASSUME NEW r \in Twins!Row PROVE rows[r] \in RowRecords
  <2>1. f.rows[r] \in RowRecords
    BY <1>1 DEF Documents
  <2>2. [Twins!NoRow EXCEPT !.v = Twins!Verdict(t, r), !.by = Twins!TaskOf(t)] \in RowRecords
    BY <1>2, <1>5 DEF Twins!NoRow, RowRecords, TwinVerdicts, TwinNames
  <2>3. QED BY <2>1, <2>2
<1>7. g \in Documents /\ g.twins = twins /\ g.rows = rows
  BY <1>1, <1>4, <1>6 DEF Documents
<1>8. ASSUME NEW k \in Twins!Task, twins[k] = "VERIFIED" PROVE k[1] \in earned.twins
  BY <1>1, <1>2, <1>8 DEF Documents, Sound, Said, SoundAttempt
<1>9. ASSUME NEW r \in Twins!Row, rows[r].v \in {"PASS", "DEFERRED"} \/ rows[r].was \in {"PASS", "DEFERRED"} PROVE r \in earned.rows
  <2>1. CASE r \in RowsOf[t]
    BY <1>5, <1>9, <2>1, TwinConstants DEF Twins!NoRow
  <2>2. CASE r \notin RowsOf[t]
    BY <1>1, <1>9, <2>2 DEF Sound, Said
  <2>3. QED BY <2>1, <2>2
<1>10. Said(earned, g)
  BY <1>7, <1>8, <1>9 DEF Said
<1>11. Twins!TwinRecord(t, f) = Twins!Weighed(ParentOf[t], g)
  BY DEF Twins!TwinRecord
<1>12. QED BY <1>7, <1>10, <1>11, WeighedIsSound

LEMMA RewriteIsSound ==
  ASSUME TwinsTyped, Honest, cli.at # "idle", NEW x \in RowRecords,
         x.v \in {"PASS", "DEFERRED"} \/ x.was \in {"PASS", "DEFERRED"} => cli.row \in earned.rows
  PROVE  LET g == Twins!Weighed(cli.of, [hosted[cli.of] EXCEPT !.rows[cli.row] = x])
         IN  g \in Documents /\ Sound(earned, cli.of, g)
<1> DEFINE f == hosted[cli.of]
           rows == [f.rows EXCEPT ![cli.row] = x]
           g == [f EXCEPT !.rows[cli.row] = x]
<1>1. f \in Documents /\ Sound(earned, cli.of, f) /\ cli.row \in Twins!Row
  BY DEF TwinsTyped, Honest
<1>2. rows \in [Twins!Row -> RowRecords] /\ rows[cli.row] = x /\ \A r \in Twins!Row \ {cli.row} : rows[r] = f.rows[r]
  BY <1>1 DEF Documents
<1>3. g \in Documents /\ g.twins = f.twins /\ g.rows = rows
  BY <1>1, <1>2 DEF Documents
<1>4. Said(earned, g)
  BY <1>1, <1>2, <1>3 DEF Sound, Said
<1>5. QED BY <1>3, <1>4, WeighedIsSound

LEMMA CliIsSound ==
  ASSUME TwinsTyped, Honest, cli.at # "idle"
  PROVE  LET f == hosted[cli.of] IN
         /\ Twins!UnsoundGrade(f) \in Documents /\ Sound(earned, cli.of, Twins!UnsoundGrade(f))
         /\ Twins!RestoreGrade(f) \in Documents /\ Sound(earned, cli.of, Twins!RestoreGrade(f))
<1> DEFINE f == hosted[cli.of]
           c == f.rows[cli.row]
           withdrawn == [v |-> "UNSOUND", by |-> cli.names, was |-> c.v, wasBy |-> c.by]
           restored == [Twins!NoRow EXCEPT !.v = c.was, !.by = c.wasBy]
<1>1. f \in Documents /\ Sound(earned, cli.of, f) /\ cli.row \in Twins!Row /\ cli.names \in TwinNames
  BY DEF TwinsTyped, Honest, Operators
<1>2. c \in RowRecords /\ (c.v \in {"PASS", "DEFERRED"} \/ c.was \in {"PASS", "DEFERRED"} => cli.row \in earned.rows)
  BY <1>1 DEF Documents, Sound, Said
<1>3. withdrawn \in RowRecords /\ withdrawn.v = "UNSOUND" /\ withdrawn.was = c.v
  BY <1>1, <1>2 DEF RowRecords, TwinVerdicts
<1>4. restored \in RowRecords /\ restored.v = c.was /\ restored.was = None
  BY <1>2 DEF Twins!NoRow, RowRecords, TwinVerdicts, TwinNames
<1>5. Twins!UnsoundGrade(f) = Twins!Weighed(cli.of, [f EXCEPT !.rows[cli.row] = withdrawn])
  BY DEF Twins!UnsoundGrade
<1>6. Twins!RestoreGrade(f) = Twins!Weighed(cli.of, [f EXCEPT !.rows[cli.row] = restored])
  BY DEF Twins!RestoreGrade
<1>7. QED BY <1>2, <1>3, <1>4, <1>5, <1>6, RewriteIsSound, TwinConstants

LEMMA TwinsStart ==
  ASSUME Twins!Init PROVE TwinsInv
<1>1. PICK scoping \in BOOLEAN : Twins!InitWith(scoping, TwinRow)
  BY DEF Twins!Init
<1>2. TwinsTyped
  <2>1. roster \in Rosters /\ mem \in Rosters
    BY <1>1 DEF Twins!InitWith, Rosters
  <2>2. trow \in [TwinRow -> [gen : 0 .. MaxRetries, at : {"READY", "WAITING", "RUNNING", "VERIFIED", "RED"}]]
    BY <1>1, TwinConstants DEF Twins!InitWith
  <2>3. Twins!Rests \in Attempts
    BY EmptyIsSound DEF Twins!Rests, Attempts, Twins!Whole
  <2>4. trun \in [TwinRow -> Attempts]
    BY <1>1, <2>3 DEF Twins!InitWith
  <2>5. Twins!NoRec \in ProofRecords
    BY DEF Twins!NoRec, ProofRecords, Twins!Whole
  <2>6. trecs \in [TwinRow -> [last : ProofRecords, pass : ProofRecords]] /\ tout \in [Twins!Parents -> Nat]
    BY <1>1, <2>5 DEF Twins!InitWith
  <2>7. hosted \in [Twins!Parents -> Documents]
    BY <1>1, EmptyIsSound DEF Twins!InitWith
  <2>8. cli \in Operators /\ cli.at = "idle"
    BY <1>1, EmptyIsSound DEF Twins!InitWith, Twins!NoCli, Operators, TwinNames
  <2>9. earned \in [twins : SUBSET TwinRow, rows : SUBSET Twins!Row, canary : BOOLEAN]
    BY <1>1 DEF Twins!InitWith
  <2>10. QED BY <2>1, <2>2, <2>4, <2>6, <2>7, <2>8, <2>9 DEF TwinsTyped
<1>3. Honest
  <2>1. \A t \in TwinRow : SoundAttempt(earned, t, trun[t])
    BY <1>1, EmptyIsSound, TwinConstants DEF Twins!InitWith, SoundAttempt, Twins!Rests
  <2>2. QED BY <1>1, <2>1, EmptyIsSound DEF Honest, Twins!InitWith, Twins!NoCli
<1>4. Heard
  BY <1>1, TwinConstants DEF Heard, Twins!InitWith, Twins!CanaryAnswers, Twins!NoRec, Twins!CanaryFirst, Twins!Live, Twins!Rests
<1>5. QED BY <1>2, <1>3, <1>4 DEF TwinsInv

(* Honest and Heard across a step, by what the step touches.               *)
LEMMA HonestStep ==
  ASSUME Honest, earned.twins \subseteq earned'.twins, earned.rows \subseteq earned'.rows,
         \A par \in Twins!Parents : Sound(earned', par, hosted[par]) => Sound(earned', par, hosted'[par]),
         \A t \in TwinRow : SoundAttempt(earned', t, trun[t]) => SoundAttempt(earned', t, trun'[t]),
         Sound(earned', cli.of, cli.snap) => Sound(earned', cli'.of, cli'.snap),
         roster'.skipped \subseteq earned'.rows, mem'.skipped \subseteq earned'.rows
  PROVE  Honest'
<1>1. \A par \in Twins!Parents : Sound(earned', par, hosted[par])
  BY SoundStays DEF Honest
<1>2. \A t \in TwinRow : SoundAttempt(earned', t, trun[t])
  BY SoundStays DEF Honest, SoundAttempt
<1>3. Sound(earned', cli.of, cli.snap)
  BY SoundStays DEF Honest
<1>4. QED BY <1>1, <1>2, <1>3 DEF Honest

LEMMA HeardStep ==
  ASSUME Heard, mem' = mem, trecs' = trecs, earned'.canary = earned.canary,
         roster'.scoping = roster.scoping, roster'.released = roster.released,
         \A t \in Circle : trun'[t].at # "idle" => trun[t].at # "idle"
  PROVE  Heard'
BY DEF Heard, Twins!CanaryAnswers, Twins!CanaryFirst, Twins!Live

(* The steps of a twin's thread.                                           *)
LEMMA ClaimsStep ==
  ASSUME TwinsInv, NEW t \in TwinRow, Twins!Claims(t) PROVE TwinsInv'
<1>1. /\ trow' = [trow EXCEPT ![t].at = "RUNNING"] /\ trun' = [trun EXCEPT ![t].at = "claimed"]
      /\ UNCHANGED <<roster, mem, trecs, tout, hosted, cli, earned>>
  BY DEF Twins!Claims
<1>2. trun[t] \in Attempts /\ trun \in [TwinRow -> Attempts]
  BY DEF TwinsInv, TwinsTyped
<1>3. \A x \in TwinRow \ {t} : trun'[x] = trun[x]
  BY <1>1, <1>2
<1>4. trun'[t] = [trun[t] EXCEPT !.at = "claimed"] /\ trun'[t] \in Attempts
  BY <1>1, <1>2 DEF Attempts
<1>5. TwinsTyped'
  <2>1. trun' \in [TwinRow -> Attempts]
    BY <1>1, <1>2, <1>3, <1>4
  <2>2. trow' \in [TwinRow -> [gen : 0 .. MaxRetries, at : {"READY", "WAITING", "RUNNING", "VERIFIED", "RED"}]]
    BY <1>1 DEF TwinsInv, TwinsTyped
  <2>3. QED BY <1>1, <2>1, <2>2 DEF TwinsInv, TwinsTyped
<1>6. Honest'
  <2>1. SoundAttempt(earned, t, trun[t]) => SoundAttempt(earned, t, trun'[t])
    BY <1>2, <1>4 DEF Attempts, SoundAttempt
  <2>2. QED BY <1>1, <1>3, <2>1, HonestStep DEF TwinsInv, Honest
<1>7. Heard'
  <2>1. ASSUME ~mem.scoping, ~earned.canary PROVE t \notin Circle \ {Canary}
    BY <2>1 DEF TwinsInv, Heard, Twins!Claims, Twins!CanaryHold, Twins!ScopedTwin, Twins!IsCanaryRow
  <2>2. Twins!CanaryFirst'
    BY <1>1, <1>3, <2>1, TwinConstants DEF TwinsInv, Heard, Twins!CanaryFirst, Twins!Live
  <2>3. QED BY <1>1, <2>2 DEF TwinsInv, Heard, Twins!CanaryAnswers
<1>8. QED BY <1>5, <1>6, <1>7 DEF TwinsInv

LEMMA ProvesStep ==
  ASSUME TwinsInv, NEW t \in TwinRow, Twins!Proves(t) PROVE TwinsInv'
<1>1. PICK chosen \in {Twins!TwinScopeOnly(t)} \cup IF Twins!IsCanaryRow(t) THEN {File} ELSE {} :
        trun' = [trun EXCEPT ![t].at = "proving", ![t].only = chosen]
  BY DEF Twins!Proves
<1>2. UNCHANGED <<roster, mem, trow, trecs, tout, hosted, cli, earned>> /\ trun[t].at = "claimed"
  BY DEF Twins!Proves
<1>3. trun[t] \in Attempts /\ trun \in [TwinRow -> Attempts]
  BY DEF TwinsInv, TwinsTyped
<1>4. chosen \in SUBSET File
  <2>1. Twins!TwinScopeOnly(t) \in SUBSET File
    BY TwinConstants DEF Twins!TwinScopeOnly, Twins!TwinScopePaths, Twins!Whole
  <2>2. QED BY <1>1, <2>1
<1>5. \A x \in TwinRow \ {t} : trun'[x] = trun[x]
  BY <1>1, <1>3
<1>6. trun'[t] = [trun[t] EXCEPT !.at = "proving", !.only = chosen] /\ trun'[t] \in Attempts
  BY <1>1, <1>3, <1>4 DEF Attempts
<1>7. trun' \in [TwinRow -> Attempts]
  BY <1>1, <1>3, <1>5, <1>6
<1>8. TwinsTyped'
  BY <1>2, <1>7 DEF TwinsInv, TwinsTyped
<1>9. Honest'
  <2>1. SoundAttempt(earned, t, trun[t]) => SoundAttempt(earned, t, trun'[t])
    BY <1>3, <1>6 DEF Attempts, SoundAttempt
  <2>2. QED BY <1>2, <1>5, <2>1, HonestStep DEF TwinsInv, Honest
<1>10. Heard'
  BY <1>2, <1>5, TwinConstants, HeardStep DEF TwinsInv
<1>11. QED BY <1>8, <1>9, <1>10 DEF TwinsInv

LEMMA CompletesStep ==
  ASSUME TwinsInv, NEW t \in TwinRow, Twins!Completes(t) PROVE TwinsInv'
<1> DEFINE R(status, pipe) == [status |-> status, only |-> trun[t].only, pipe |-> pipe, of |-> tout[ParentOf[t]]]
<1>1. PICK status \in IF t \in Circle THEN {"PASS", "FAIL_PRODUCT"} ELSE {None},
           pipe \in IF Twins!IsCanaryRow(t) THEN BOOLEAN ELSE {t \in Circle},
           outcome \in {"VERIFIED", "RED"}, said \in SUBSET RowsOf[t] :
        /\ outcome = "VERIFIED" => status \in {"PASS", None}
        /\ trow' = [trow EXCEPT ![t].at = outcome]
        /\ trecs' = [trecs EXCEPT ![t] = [last |-> R(status, pipe), pass |-> IF status = "PASS" THEN R(status, pipe) ELSE @.pass]]
        /\ trun' = [trun EXCEPT ![t] = [@ EXCEPT !.at = "record", !.outcome = outcome, !.said = said]]
        /\ earned' = [twins  |-> IF outcome = "VERIFIED" THEN earned.twins \cup {t} ELSE earned.twins,
                      rows   |-> earned.rows \cup said,
                      canary |-> earned.canary \/ (Twins!IsCanaryRow(t) /\ Twins!CanaryAnswers(R(status, pipe)))]
  BY DEF Twins!Completes
<1>2. UNCHANGED <<roster, mem, tout, hosted, cli>> /\ trun[t].at = "proving"
  BY DEF Twins!Completes
<1>3. status \in {"PASS", "FAIL_PRODUCT", None} /\ pipe \in BOOLEAN
  OBVIOUS
<1>4. trun[t] \in Attempts /\ trun \in [TwinRow -> Attempts] /\ ParentOf[t] \in Twins!Parents /\ said \in SUBSET Twins!Row
  BY TwinConstants DEF TwinsInv, TwinsTyped
<1>5. R(status, pipe) \in ProofRecords
  <2>1. trun[t].only \in SUBSET File /\ tout[ParentOf[t]] \in Nat
    BY <1>4 DEF Attempts, TwinsInv, TwinsTyped
  <2>2. QED BY <1>3, <2>1 DEF ProofRecords
<1>6. \A x \in TwinRow \ {t} : trun'[x] = trun[x] /\ trecs'[x] = trecs[x]
  BY <1>1 DEF TwinsInv, TwinsTyped
<1>7. trun'[t] = [trun[t] EXCEPT !.at = "record", !.outcome = outcome, !.said = said]
  BY <1>1, <1>4
<1>8. trun'[t] \in Attempts
  BY <1>4, <1>7 DEF Attempts
<1>9. trecs'[t].last = R(status, pipe) /\ trecs'[t] \in [last : ProofRecords, pass : ProofRecords]
  <2>1. trecs[t] \in [last : ProofRecords, pass : ProofRecords]
    BY DEF TwinsInv, TwinsTyped
  <2>2. trecs'[t] = [last |-> R(status, pipe), pass |-> IF status = "PASS" THEN R(status, pipe) ELSE trecs[t].pass]
    BY <1>1 DEF TwinsInv, TwinsTyped
  <2>3. QED BY <1>5, <2>1, <2>2
<1>10. TwinsTyped'
  <2>1. trun' \in [TwinRow -> Attempts]
    BY <1>1, <1>4, <1>6, <1>8
  <2>2. trow' \in [TwinRow -> [gen : 0 .. MaxRetries, at : {"READY", "WAITING", "RUNNING", "VERIFIED", "RED"}]]
    BY <1>1 DEF TwinsInv, TwinsTyped
  <2>3. trecs' \in [TwinRow -> [last : ProofRecords, pass : ProofRecords]]
    BY <1>1, <1>6, <1>9 DEF TwinsInv, TwinsTyped
  <2>4. earned' \in [twins : SUBSET TwinRow, rows : SUBSET Twins!Row, canary : BOOLEAN]
    <3>1. earned \in [twins : SUBSET TwinRow, rows : SUBSET Twins!Row, canary : BOOLEAN]
      BY DEF TwinsInv, TwinsTyped
    <3>2. (earned.canary \/ (Twins!IsCanaryRow(t) /\ Twins!CanaryAnswers(R(status, pipe)))) \in BOOLEAN
      BY DEF Twins!IsCanaryRow, Twins!CanaryAnswers
    <3>3. QED BY <1>1, <1>4, <3>1, <3>2
  <2>5. QED BY <1>2, <2>1, <2>2, <2>3, <2>4 DEF TwinsInv, TwinsTyped
<1>11. earned.twins \subseteq earned'.twins /\ earned.rows \subseteq earned'.rows /\ (earned.canary => earned'.canary)
  BY <1>1
<1>12. Honest'
  <2>1. SoundAttempt(earned', t, trun[t]) => SoundAttempt(earned', t, trun'[t])
    BY <1>1, <1>4, <1>7 DEF Attempts, SoundAttempt
  <2>2. roster.skipped \subseteq earned'.rows /\ mem.skipped \subseteq earned'.rows
    BY <1>11 DEF TwinsInv, Honest
  <2>3. QED BY <1>2, <1>6, <1>11, <2>1, <2>2, HonestStep DEF TwinsInv
<1>13. Heard'
  <2>1. Twins!CanaryAnswers(trecs'[Canary].last) => earned'.canary
    <3>1. CASE t = Canary
      BY <1>1, <1>9, <3>1 DEF Twins!IsCanaryRow
    <3>2. CASE t # Canary
      BY <1>6, <1>11, <3>2, TwinConstants DEF TwinsInv, Heard
    <3>3. QED BY <3>1, <3>2
  <2>2. Twins!CanaryFirst'
    <3>1. SUFFICES ASSUME ~mem.scoping, ~earned'.canary, NEW x \in Circle \ {Canary} PROVE trun'[x].at = "idle"
      BY <1>2 DEF Twins!CanaryFirst, Twins!Live
    <3>2. trun[x].at = "idle" /\ x \in TwinRow
      BY <1>11, <3>1, TwinConstants DEF TwinsInv, Heard, Twins!CanaryFirst, Twins!Live
    <3>3. QED BY <1>2, <1>6, <3>2
  <2>3. QED BY <1>2, <1>11, <2>1, <2>2 DEF TwinsInv, Heard, Twins!CanaryAnswers
<1>14. QED BY <1>10, <1>12, <1>13 DEF TwinsInv

LEMMA RecordReadsStep ==
  ASSUME TwinsInv, NEW t \in TwinRow, Twins!RecordReads(t) PROVE TwinsInv'
<1> DEFINE att == [Twins!Rests EXCEPT !.at = "tear", !.snap = Twins!TwinRecord(t, hosted[ParentOf[t]])]
<1>1. /\ trun[t].at = "record" /\ trun' = [trun EXCEPT ![t] = att]
      /\ UNCHANGED <<roster, mem, trow, trecs, tout, hosted, cli, earned>>
  BY DEF Twins!RecordReads
<1>2. trun \in [TwinRow -> Attempts]
  BY DEF TwinsInv, TwinsTyped
<1>3. Twins!TwinRecord(t, hosted[ParentOf[t]]) \in Documents /\ Sound(earned, ParentOf[t], Twins!TwinRecord(t, hosted[ParentOf[t]]))
  BY RecordIsSound DEF TwinsInv
<1>4. att \in Attempts /\ SoundAttempt(earned, t, att)
  BY <1>3, TwinConstants DEF Twins!Rests, Attempts, SoundAttempt, Twins!Whole
<1>5. trun'[t] = att /\ \A x \in TwinRow \ {t} : trun'[x] = trun[x]
  BY <1>1, <1>2
<1>6. trun' \in [TwinRow -> Attempts]
  BY <1>1, <1>2, <1>4, <1>5
<1>7. TwinsTyped'
  BY <1>1, <1>6 DEF TwinsInv, TwinsTyped
<1>8. Honest'
  BY <1>1, <1>4, <1>5, HonestStep DEF TwinsInv, Honest
<1>9. Heard'
  BY <1>1, <1>5, TwinConstants, HeardStep DEF TwinsInv
<1>10. QED BY <1>7, <1>8, <1>9 DEF TwinsInv

LEMMA RecordWritesStep ==
  ASSUME TwinsInv, NEW t \in TwinRow, Twins!RecordTears(t) \/ Twins!RecordFills(t) PROVE TwinsInv'
<1> DEFINE par == ParentOf[t]
<1>1. /\ trun[t].at # "idle" /\ UNCHANGED <<roster, mem, trow, trecs, tout, cli, earned>>
      /\ \/ trun' = [trun EXCEPT ![t].at = "fill"] /\ hosted' = [hosted EXCEPT ![par] = Twins!Empty]
         \/ trun' = [trun EXCEPT ![t] = Twins!Rests] /\ hosted' = [hosted EXCEPT ![par] = trun[t].snap]
  BY DEF Twins!RecordTears, Twins!RecordFills
<1>2. trun \in [TwinRow -> Attempts] /\ trun[t] \in Attempts /\ trun[t].snap \in Documents /\ par \in Twins!Parents /\ hosted \in [Twins!Parents -> Documents]
  BY TwinConstants DEF TwinsInv, TwinsTyped, Attempts
<1>3. SoundAttempt(earned, t, trun[t])
  BY DEF TwinsInv, Honest
<1>4. Twins!Rests \in Attempts /\ SoundAttempt(earned, t, Twins!Rests)
  BY EmptyIsSound, TwinConstants DEF Twins!Rests, Attempts, SoundAttempt, Twins!Whole
<1>5. \A x \in TwinRow \ {t} : trun'[x] = trun[x]
  BY <1>1, <1>2
<1>6. trun'[t] \in Attempts /\ SoundAttempt(earned, t, trun'[t])
  <2>1. CASE trun' = [trun EXCEPT ![t].at = "fill"]
    <3>1. trun'[t] = [trun[t] EXCEPT !.at = "fill"]
      BY <1>2, <2>1
    <3>2. QED BY <1>2, <1>3, <3>1 DEF Attempts, SoundAttempt
  <2>2. CASE trun' = [trun EXCEPT ![t] = Twins!Rests]
    BY <1>2, <1>4, <2>2
  <2>3. QED BY <1>1, <2>1, <2>2
<1>7. hosted'[par] \in Documents /\ Sound(earned, par, hosted'[par]) /\ \A q1 \in Twins!Parents \ {par} : hosted'[q1] = hosted[q1]
  BY <1>1, <1>2, <1>3, EmptyIsSound DEF SoundAttempt
<1>8. TwinsTyped'
  <2>1. trun' \in [TwinRow -> Attempts]
    BY <1>1, <1>2, <1>5, <1>6
  <2>2. hosted' \in [Twins!Parents -> Documents]
    BY <1>1, <1>2, <1>7
  <2>3. QED BY <1>1, <2>1, <2>2 DEF TwinsInv, TwinsTyped
<1>9. Honest'
  BY <1>1, <1>5, <1>6, <1>7, HonestStep DEF TwinsInv, Honest
<1>10. Heard'
  BY <1>1, <1>5, TwinConstants, HeardStep DEF TwinsInv
<1>11. QED BY <1>8, <1>9, <1>10 DEF TwinsInv

(* The driver's own steps: release, reload, restart.                       *)
LEMMA RostersStep ==
  ASSUME TwinsInv, Twins!CanaryStep \/ Twins!ReloadsRoster PROVE TwinsInv'
<1>1. UNCHANGED <<trow, trun, trecs, tout, hosted, cli, earned>>
  BY DEF Twins!CanaryStep, Twins!ReloadsRoster
<1>2. roster \in Rosters /\ mem \in Rosters
  BY DEF TwinsInv, TwinsTyped
<1>3. \/ /\ Twins!CanaryAnswers(trecs[Canary].last) /\ mem' = [mem EXCEPT !.released = TRUE]
         /\ roster' = [roster EXCEPT !.released = TRUE] \/ roster' = roster
      \/ mem' = roster /\ roster' = roster
  BY DEF Twins!CanaryStep, Twins!ReloadsRoster, Twins!AppliesRoster, Twins!CanaryProof
<1>4. /\ roster' \in Rosters /\ mem' \in Rosters
      /\ roster'.scoping = roster.scoping /\ roster'.skipped = roster.skipped
      /\ mem'.scoping \in {mem.scoping, roster.scoping} /\ mem'.skipped \in {mem.skipped, roster.skipped}
      /\ roster'.released \/ mem'.released => roster.released \/ mem.released \/ Twins!CanaryAnswers(trecs[Canary].last)
  BY <1>2, <1>3 DEF Rosters
<1>5. TwinsTyped'
  BY <1>1, <1>4 DEF TwinsInv, TwinsTyped
<1>6. Honest'
  BY <1>1, <1>4, HonestStep DEF TwinsInv, Honest
<1>7. Heard'
  BY <1>1, <1>4 DEF TwinsInv, Heard, Twins!CanaryAnswers, Twins!CanaryFirst, Twins!Live
<1>8. QED BY <1>5, <1>6, <1>7 DEF TwinsInv

LEMMA TwinsRestart ==
  ASSUME TwinsInv, Twins!Restarts PROVE TwinsInv'
<1>1. /\ mem' = roster /\ UNCHANGED <<roster, trow, trecs, tout, hosted, cli, earned>>
      /\ trun' = [t \in TwinRow |-> IF trun[t].at \in {"claimed", "proving"} THEN trun[t] ELSE Twins!Rests]
  BY DEF Twins!Restarts, Twins!AppliesRoster
<1>2. Twins!Rests \in Attempts /\ \A t \in TwinRow : SoundAttempt(earned, t, Twins!Rests)
  BY EmptyIsSound, TwinConstants DEF Twins!Rests, Attempts, SoundAttempt, Twins!Whole
<1>3. \A t \in TwinRow : trun'[t] = trun[t] \/ (trun'[t] = Twins!Rests /\ trun'[t].at = "idle")
  BY <1>1 DEF Twins!Rests
<1>4. TwinsTyped'
  BY <1>1, <1>2 DEF TwinsInv, TwinsTyped
<1>5. Honest'
  BY <1>1, <1>2, <1>3, HonestStep DEF TwinsInv, Honest
<1>6. Heard'
  BY <1>1, <1>3, TwinConstants DEF TwinsInv, Heard, Twins!CanaryAnswers, Twins!CanaryFirst, Twins!Live
<1>7. QED BY <1>4, <1>5, <1>6 DEF TwinsInv

(* What the scheduler, the owner and the operator do meanwhile.            *)
LEMMA RowsMove ==
  ASSUME TwinsInv, \E t \in TwinRow : Twins!PackRetry(t) \/ Twins!Invalidated(t) PROVE TwinsInv'
<1>1. PICK t \in TwinRow : Twins!PackRetry(t) \/ Twins!Invalidated(t)
  OBVIOUS
<1>2. UNCHANGED <<roster, mem, trun, trecs, tout, hosted, cli, earned>>
  BY <1>1 DEF Twins!PackRetry, Twins!Invalidated
<1>3. trow' \in [TwinRow -> [gen : 0 .. MaxRetries, at : {"READY", "WAITING", "RUNNING", "VERIFIED", "RED"}]]
  <2>1. trow[t] \in [gen : 0 .. MaxRetries, at : {"READY", "WAITING", "RUNNING", "VERIFIED", "RED"}]
    BY DEF TwinsInv, TwinsTyped
  <2>2. CASE Twins!PackRetry(t)
    <3>1. trow[t].gen < MaxRetries /\ trow' = [trow EXCEPT ![t] = [gen |-> @.gen + 1, at |-> "READY"]]
      BY <2>2 DEF Twins!PackRetry
    <3>2. trow[t].gen + 1 \in 0 .. MaxRetries
      BY <2>1, <3>1, TwinConstants
    <3>3. QED BY <3>1, <3>2 DEF TwinsInv, TwinsTyped
  <2>3. CASE Twins!Invalidated(t)
    BY <2>3 DEF Twins!Invalidated, TwinsInv, TwinsTyped
  <2>4. QED BY <1>1, <2>2, <2>3
<1>4. TwinsTyped'
  BY <1>2, <1>3 DEF TwinsInv, TwinsTyped
<1>5. Honest'
  BY <1>2, HonestStep DEF TwinsInv, Honest
<1>6. Heard'
  BY <1>2, HeardStep DEF TwinsInv
<1>7. QED BY <1>4, <1>5, <1>6 DEF TwinsInv

LEMMA OwnerStep ==
  ASSUME TwinsInv, NEW r \in Twins!Row, Twins!OwnerFlips(r) PROVE TwinsInv'
<1>1. /\ roster' = [roster EXCEPT !.skipped = IF r \in roster.skipped THEN roster.skipped \ {r} ELSE roster.skipped \cup {r}]
      /\ earned' = [earned EXCEPT !.rows = earned.rows \cup {r}]
      /\ UNCHANGED <<mem, trow, trun, trecs, tout, hosted, cli>>
  BY DEF Twins!OwnerFlips
<1>2. roster \in Rosters /\ earned \in [twins : SUBSET TwinRow, rows : SUBSET Twins!Row, canary : BOOLEAN]
  BY DEF TwinsInv, TwinsTyped
<1>3. /\ roster' \in Rosters /\ roster'.scoping = roster.scoping /\ roster'.released = roster.released
      /\ roster'.skipped \subseteq roster.skipped \cup {r}
  BY <1>1, <1>2 DEF Rosters
<1>4. /\ earned' \in [twins : SUBSET TwinRow, rows : SUBSET Twins!Row, canary : BOOLEAN]
      /\ earned'.twins = earned.twins /\ earned'.rows = earned.rows \cup {r} /\ earned'.canary = earned.canary
  BY <1>1, <1>2
<1>5. TwinsTyped'
  BY <1>1, <1>3, <1>4 DEF TwinsInv, TwinsTyped
<1>6. roster'.skipped \subseteq earned'.rows /\ mem'.skipped \subseteq earned'.rows
  BY <1>1, <1>3, <1>4 DEF TwinsInv, Honest
<1>7. Honest'
  BY <1>1, <1>4, <1>6, HonestStep DEF TwinsInv
<1>8. Heard'
  BY <1>1, <1>3, <1>4, HeardStep DEF TwinsInv
<1>9. QED BY <1>5, <1>7, <1>8 DEF TwinsInv

LEMMA RebuiltStep ==
  ASSUME TwinsInv, NEW x \in Twins!Parents, Twins!ParentRebuilt(x) PROVE TwinsInv'
<1>1. tout' = [tout EXCEPT ![x] = tout[x] + 1] /\ UNCHANGED <<roster, mem, trow, trun, trecs, hosted, cli, earned>>
  BY DEF Twins!ParentRebuilt
<1>2. TwinsTyped'
  BY <1>1 DEF TwinsInv, TwinsTyped
<1>3. Honest'
  BY <1>1, HonestStep DEF TwinsInv, Honest
<1>4. Heard'
  BY <1>1, HeardStep DEF TwinsInv
<1>5. QED BY <1>2, <1>3, <1>4 DEF TwinsInv

LEMMA AsksStep ==
  ASSUME TwinsInv, NEW x \in Twins!Parents, NEW r \in Twins!Row, NEW op \in {"unsound", "restore"}, Twins!OperatorAsks(x, r, op)
  PROVE  TwinsInv'
<1>1. /\ cli' = [at |-> op, of |-> x, row |-> r, names |-> hosted[x].rows[r].by, snap |-> Twins!Empty]
      /\ UNCHANGED <<roster, mem, trow, trun, trecs, tout, hosted, earned>>
  BY DEF Twins!OperatorAsks
<1>2. hosted[x].rows[r].by \in TwinNames
  <2>1. hosted[x] \in Documents
    BY DEF TwinsInv, TwinsTyped
  <2>2. hosted[x].rows[r] \in RowRecords
    BY <2>1 DEF Documents
  <2>3. QED BY <2>2 DEF RowRecords
<1>3. cli' \in Operators /\ cli'.of \in Twins!Parents /\ cli'.row \in Twins!Row /\ cli'.snap = Twins!Empty
  BY <1>1, <1>2, EmptyIsSound DEF Operators
<1>4. TwinsTyped'
  BY <1>1, <1>3 DEF TwinsInv, TwinsTyped
<1>5. Honest'
  BY <1>1, <1>3, EmptyIsSound, HonestStep DEF TwinsInv, Honest
<1>6. Heard'
  BY <1>1, HeardStep DEF TwinsInv
<1>7. QED BY <1>4, <1>5, <1>6 DEF TwinsInv

LEMMA CliStep ==
  ASSUME TwinsInv, Twins!CliReads \/ Twins!CliTears \/ Twins!CliFills PROVE TwinsInv'
<1> DEFINE p1 == cli.of  f == hosted[p1]
<1>1. cli.at # "idle" /\ UNCHANGED <<roster, mem, trow, trun, trecs, tout, earned>>
  BY DEF Twins!CliReads, Twins!CliTears, Twins!CliFills
<1>2. /\ cli \in Operators /\ p1 \in Twins!Parents /\ cli.row \in Twins!Row /\ cli.snap \in Documents
      /\ hosted \in [Twins!Parents -> Documents] /\ Sound(earned, p1, cli.snap)
  BY <1>1 DEF TwinsInv, TwinsTyped, Operators, Honest
<1>3. Twins!NoCli \in Operators /\ Twins!NoCli.at = "idle" /\ Sound(earned, Twins!NoCli.of, Twins!NoCli.snap)
  BY EmptyIsSound DEF Twins!NoCli, Operators, TwinNames
<1>4. /\ cli' \in Operators /\ (cli'.at # "idle" => cli'.of = p1 /\ cli'.row = cli.row)
      /\ Sound(earned, cli'.of, cli'.snap)
  <2>1. CASE cli' = Twins!NoCli
    BY <1>3, <2>1
  <2>2. ASSUME NEW g \in {Twins!UnsoundGrade(f), Twins!RestoreGrade(f)}, cli' = [cli EXCEPT !.at = "tear", !.snap = g]
        PROVE  /\ cli' \in Operators /\ (cli'.at # "idle" => cli'.of = p1 /\ cli'.row = cli.row)
               /\ Sound(earned, cli'.of, cli'.snap)
    <3>1. g \in Documents /\ Sound(earned, p1, g)
      BY <1>1, CliIsSound DEF TwinsInv
    <3>2. QED BY <1>2, <2>2, <3>1 DEF Operators
  <2>3. CASE cli' = [cli EXCEPT !.at = "fill"]
    BY <1>2, <2>3 DEF Operators
  <2>4. \/ cli' = Twins!NoCli \/ cli' = [cli EXCEPT !.at = "fill"]
        \/ \E g \in {Twins!UnsoundGrade(f), Twins!RestoreGrade(f)} : cli' = [cli EXCEPT !.at = "tear", !.snap = g]
    BY DEF Twins!CliReads, Twins!CliTears, Twins!CliFills
  <2>5. QED BY <2>1, <2>2, <2>3, <2>4
<1>5. /\ hosted' \in [Twins!Parents -> Documents]
      /\ \A x \in Twins!Parents : hosted'[x] = hosted[x] \/ Sound(earned, x, hosted'[x])
  <2>1. CASE hosted' = hosted
    BY <1>2, <2>1
  <2>2. CASE hosted' = [hosted EXCEPT ![p1] = Twins!Empty]
    BY <1>2, <2>2, EmptyIsSound
  <2>3. CASE hosted' = [hosted EXCEPT ![p1] = cli.snap]
    BY <1>2, <2>3
  <2>4. QED BY <2>1, <2>2, <2>3 DEF Twins!CliReads, Twins!CliTears, Twins!CliFills
<1>6. TwinsTyped'
  BY <1>1, <1>2, <1>4, <1>5 DEF TwinsInv, TwinsTyped
<1>7. Honest'
  BY <1>1, <1>4, <1>5, HonestStep DEF TwinsInv, Honest
<1>8. Heard'
  BY <1>1, HeardStep DEF TwinsInv
<1>9. QED BY <1>6, <1>7, <1>8 DEF TwinsInv

LEMMA TwinsStep ==
  ASSUME TwinsInv, [Twins!Next]_(Twins!vars) PROVE TwinsInv'
<1>1. CASE \E t \in TwinRow : Twins!Attempt(t)
  BY <1>1, ClaimsStep, ProvesStep, CompletesStep, RecordReadsStep, RecordWritesStep DEF Twins!Attempt
<1>2. CASE \E t \in TwinRow : Twins!PackRetry(t) \/ Twins!Invalidated(t)
  BY <1>2, RowsMove
<1>3. CASE Twins!CanaryStep \/ Twins!ReloadsRoster \/ Twins!Restarts
  BY <1>3, RostersStep, TwinsRestart
<1>4. CASE \E r \in Twins!Row : Twins!OwnerFlips(r)
  BY <1>4, OwnerStep
<1>5. CASE \E x \in Twins!Parents : Twins!ParentRebuilt(x) \/ (\E r \in Twins!Row : \E op \in {"unsound", "restore"} : Twins!OperatorAsks(x, r, op))
  BY <1>5, RebuiltStep, AsksStep
<1>6. CASE Twins!CliReads \/ Twins!CliTears \/ Twins!CliFills
  BY <1>6, CliStep
<1>7. CASE UNCHANGED Twins!vars
  <2>1. UNCHANGED <<roster, mem, trow, trun, trecs, tout, hosted, cli, earned>>
    BY <1>7 DEF Twins!vars
  <2>2. TwinsTyped'
    BY <2>1 DEF TwinsInv, TwinsTyped
  <2>3. Honest'
    BY <2>1, HonestStep DEF TwinsInv, Honest
  <2>4. Heard'
    BY <2>1, HeardStep DEF TwinsInv
  <2>5. QED BY <2>2, <2>3, <2>4 DEF TwinsInv
<1>8. QED BY <1>1, <1>2, <1>3, <1>4, <1>5, <1>6, <1>7 DEF Twins!Next

(* In every run of any number of twins, whatever writers of a hosted       *)
(* record overtake each other: a parent's record is cleared only on what   *)
(* was reported of each of its twins, and without scoped twins none but    *)
(* the canary runs before the canary has passed.                           *)
THEOREM GradedOnReports == Twins!Spec => []TwinsAreGraded
<1>1. TwinsInv => TwinsAreGraded
  BY DEF TwinsInv, Honest, Heard, Sound, TwinsAreGraded, Twins!ClearedIsEarned
<1>2. QED BY <1>1, TwinsStart, TwinsStep, PTL DEF Twins!Spec

-----------------------------------------------------------------------------
(* LaneBuild.  `Known` is what the turn directory vouches for when the     *)
(* attempt is entered: the rounds behind a graded round, within the rounds *)
(* of the live roster.  A round built at the present head counts as well.  *)
Lesser(x, y) == IF x < y THEN x ELSE y
Known == IF rounds.stage = "graded" THEN Lesser(rounds.round, Build!Cap - 1) ELSE 0
Here  == rounds.stage = "built" /\ rounds.head = head
Room  == IF Here THEN Lesser(rounds.round, Build!Cap) ELSE Known

Outside  == {"idle", "closed", "held"}
Building == {"autofix", "rebind"}
Judging  == {"prove", "proving", "grade", "grading", "decide", "accept"}

BuildTyped ==
  /\ cap \in 1 .. Rounds /\ {rnd, prior, turns, excused} \subseteq Nat
  /\ rounds.round \in Nat /\ rounds.stage \in {"none", "built", "graded"}
  /\ step \in Build!Stages

(* Turns against what an entry now would still know of.                    *)
InRounds == step \notin Outside => prior = Build!Cap /\ rnd \in 0 .. Build!Cap
SkipsOnce == step \notin Outside \cup {"build"} => ~skip
BoundIdle     == step = "idle" => turns <= Room + excused
BoundBuild    == step = "build" => turns <= Room + excused /\ (skip <=> Here) /\ rnd = Build!Clamped(Build!StartRound)
BoundBuilding == step \in Building => turns <= rnd + excused /\ turns <= Known + excused + 1
BoundBuilt    == step = "built" => turns <= rnd + excused /\ turns <= Room + excused + 1
BoundJudging  == step \in Judging => turns <= rnd + excused /\ Here /\ rounds.round = rnd
BoundRepair   == step = "repair" => turns <= rnd + excused /\ rnd = prior /\ rounds.stage = "graded" /\ rounds.round = rnd
BoundOver     == step \in {"closed", "held"} => turns <= Rounds + excused

BuildInv ==
  /\ BuildTyped /\ InRounds /\ SkipsOnce
  /\ BoundIdle /\ BoundBuild /\ BoundBuilding /\ BoundBuilt /\ BoundJudging /\ BoundRepair /\ BoundOver

LEMMA BuildConstants == Rounds \in Nat \ {0}
BY PartsAssumption DEF Build!BuildAssumption

LEMMA CapFacts ==
  BuildTyped => /\ Build!Cap \in 1 .. Rounds /\ Rounds \in Nat /\ rounds.round \in Nat
                /\ Known \in Nat /\ Room \in Nat /\ Known <= Room /\ Room <= Build!Cap /\ Known <= Build!Cap - 1
<1> SUFFICES ASSUME BuildTyped
             PROVE  /\ Build!Cap \in 1 .. Rounds /\ Rounds \in Nat /\ rounds.round \in Nat
                    /\ Known \in Nat /\ Room \in Nat /\ Known <= Room /\ Room <= Build!Cap /\ Known <= Build!Cap - 1
  OBVIOUS
<1>1. Rounds \in Nat \ {0} /\ Build!Cap \in 1 .. Rounds /\ rounds.round \in Nat /\ rounds.stage \in {"none", "built", "graded"}
  BY BuildConstants DEF BuildTyped, Build!Cap
<1>2. QED BY <1>1 DEF Known, Room, Here, Lesser

LEMMA CapFactsNext ==
  ASSUME BuildTyped'
  PROVE  /\ Build!Cap' \in 1 .. Rounds /\ Rounds \in Nat
         /\ Known' \in Nat /\ Room' \in Nat /\ Known' <= Room' /\ Room' <= Build!Cap' /\ Known' <= Build!Cap' - 1
<1>1. Build!Cap' \in 1 .. Rounds /\ rounds'.round \in Nat /\ rounds'.stage \in {"none", "built", "graded"} /\ Rounds \in Nat \ {0}
  BY BuildConstants DEF BuildTyped, Build!Cap
<1>2. Known' \in Nat /\ Known' <= Build!Cap' - 1
  BY <1>1 DEF Known, Lesser, Build!Cap
<1>3. Known' \in Nat /\ Room' \in Nat /\ Known' <= Room' /\ Room' <= Build!Cap'
  <2>1. CASE Here'
    <3>1. Room' = Lesser(rounds'.round, Build!Cap') /\ (rounds'.stage = "built" => Known' = 0)
      BY <2>1 DEF Room, Known
    <3>2. QED BY <1>1, <2>1, <3>1 DEF Here, Lesser
  <2>2. CASE ~Here'
    <3>1. Room' = Known'
      BY <2>2 DEF Room
    <3>2. \A x, y \in Nat : x <= x /\ (x <= y - 1 => x <= y)
      OBVIOUS
    <3>3. Build!Cap' \in Nat
      BY <1>1
    <3>4. QED BY <1>2, <3>1, <3>2, <3>3
  <2>3. QED BY <2>1, <2>2
<1>4. QED BY <1>1, <1>2, <1>3

(* The round an attempt is entered at.                                     *)
LEMMA EntryRound ==
  ASSUME BuildTyped
  PROVE  LET r == Build!Clamped(Build!StartRound) IN
         /\ r \in 0 .. Build!Cap
         /\ Here => r = Room
         /\ ~Here => r = Known + 1 /\ Room = Known
<1>1. Build!Cap \in 1 .. Rounds /\ Rounds \in Nat /\ rounds.round \in Nat /\ rounds.stage \in {"none", "built", "graded"}
  BY CapFacts DEF BuildTyped
<1>2. QED BY <1>1 DEF Build!Clamped, Build!StartRound, Here, Room, Known, Lesser

LEMMA BuildStart == ASSUME Build!Init PROVE BuildInv
<1>1. /\ cap = Rounds /\ rnd = 0 /\ prior = 0 /\ turns = 0 /\ excused = 0 /\ step = "idle"
      /\ rounds.round = 0 /\ rounds.stage = "none"
  BY DEF Build!Init, Build!InitRest, Build!NoRounds
<1>2. BuildTyped
  BY <1>1, BuildConstants DEF BuildTyped, Build!Stages
<1>3. BoundIdle
  BY <1>1, <1>2, CapFacts DEF BoundIdle
<1>4. QED BY <1>1, <1>2, <1>3 DEF BuildInv, InRounds, SkipsOnce, BoundBuild, BoundBuilding, BoundBuilt, BoundJudging,
                                BoundRepair, BoundOver, Outside, Building, Judging

LEMMA EnterStep == ASSUME BuildInv, Build!Enter PROVE BuildInv'
<1>1. /\ step = "idle" /\ prior' = Build!Cap /\ rnd' = Build!Clamped(Build!StartRound) /\ skip' = Here
      /\ step' = (IF rnd' > prior' THEN "idle" ELSE "build") /\ UNCHANGED <<cap, twin, head, rounds, turns, excused>>
  BY DEF Build!Enter, Here, Build!row, Build!tree, Build!tdir, Build!count
<1>2. /\ Build!Cap' = Build!Cap /\ Here' = Here /\ Room' = Room
      /\ Build!Clamped(Build!StartRound)' = Build!Clamped(Build!StartRound)
  BY <1>1 DEF Build!Cap, Here, Room, Known, Build!Clamped, Build!StartRound
<1>3. Build!Clamped(Build!StartRound) \in 0 .. Build!Cap /\ Build!Cap \in Nat
  BY EntryRound, CapFacts DEF BuildInv
<1>4. step' = "build"
  BY <1>1, <1>3
<1>5. BuildTyped'
  BY <1>1, <1>3, <1>4 DEF BuildInv, BuildTyped, Build!Stages
<1>6. BoundBuild' /\ InRounds'
  BY <1>1, <1>2, <1>3, <1>4 DEF BuildInv, BoundBuild, BoundIdle, InRounds
<1>7. QED BY <1>4, <1>5, <1>6 DEF BuildInv, SkipsOnce, BoundIdle, BoundBuilding, BoundBuilt, BoundJudging, BoundRepair,
                                BoundOver, Outside, Building, Judging

(* Steps inside the rounds leave the cap and the entry's rounds alone.     *)
LEMMA CapStays ==
  ASSUME UNCHANGED <<cap, twin>> PROVE Build!Cap' = Build!Cap
BY DEF Build!Cap

LEMMA KnownStays ==
  ASSUME UNCHANGED <<cap, twin, rounds>> PROVE Known' = Known
BY DEF Known, Build!Cap

LEMMA RoomStays ==
  ASSUME UNCHANGED <<cap, twin, rounds, head>> PROVE Room' = Room /\ Here' = Here
BY DEF Room, Here, Known, Build!Cap

(* Of the bounds only the one of the stage arrived at says anything.       *)
LEMMA AtIdle ==
  ASSUME BuildTyped', step' = "idle", turns' <= Room' + excused' PROVE BuildInv'
BY DEF BuildInv, InRounds, SkipsOnce, BoundIdle, BoundBuild, BoundBuilding, BoundBuilt, BoundJudging, BoundRepair, BoundOver,
   Outside, Building, Judging

LEMMA AtBuilding ==
  ASSUME BuildTyped', InRounds', step' \in Building, ~skip', BoundBuilding' PROVE BuildInv'
BY DEF BuildInv, InRounds, SkipsOnce, BoundIdle, BoundBuild, BoundBuilding, BoundBuilt, BoundJudging, BoundRepair, BoundOver,
   Outside, Building, Judging

LEMMA AtBuilt ==
  ASSUME BuildTyped', InRounds', step' = "built", ~skip', BoundBuilt' PROVE BuildInv'
BY DEF BuildInv, InRounds, SkipsOnce, BoundIdle, BoundBuild, BoundBuilding, BoundBuilt, BoundJudging, BoundRepair, BoundOver,
   Outside, Building, Judging

LEMMA AtJudging ==
  ASSUME BuildTyped', InRounds', step' \in Judging, ~skip', BoundJudging' PROVE BuildInv'
BY DEF BuildInv, InRounds, SkipsOnce, BoundIdle, BoundBuild, BoundBuilding, BoundBuilt, BoundJudging, BoundRepair, BoundOver,
   Outside, Building, Judging

LEMMA AtRepair ==
  ASSUME BuildTyped', InRounds', step' = "repair", ~skip', BoundRepair' PROVE BuildInv'
BY DEF BuildInv, InRounds, SkipsOnce, BoundIdle, BoundBuild, BoundBuilding, BoundBuilt, BoundJudging, BoundRepair, BoundOver,
   Outside, Building, Judging

LEMMA AtOver ==
  ASSUME BuildTyped', step' \in {"closed", "held"}, turns' <= Rounds + excused' PROVE BuildInv'
BY DEF BuildInv, InRounds, SkipsOnce, BoundIdle, BoundBuild, BoundBuilding, BoundBuilt, BoundJudging, BoundRepair, BoundOver,
   Outside, Building, Judging

LEMMA ResumeStep == ASSUME BuildInv, Build!Resume PROVE BuildInv'
<1>1. /\ step = "build" /\ step' = "built" /\ skip' = FALSE
      /\ UNCHANGED <<cap, twin, head, rounds, rnd, prior, turns, excused>>
  BY DEF Build!Resume, Build!row, Build!tree, Build!tdir, Build!count
<1>2. Build!Cap' = Build!Cap /\ Room' = Room
  BY <1>1, CapStays, RoomStays
<1>3. BuildTyped'
  BY <1>1 DEF BuildInv, BuildTyped, Build!Stages
<1>4. turns <= Room + excused /\ rnd \in 0 .. Build!Cap /\ (rnd = Room \/ rnd = Room + 1) /\ {turns, excused, Room} \subseteq Nat
  BY <1>1, EntryRound, CapFacts DEF BuildInv, BoundBuild, BuildTyped
<1>5. BoundBuilt'
  BY <1>1, <1>2, <1>4 DEF BoundBuilt
<1>6. InRounds'
  BY <1>1, <1>2 DEF BuildInv, InRounds, Outside
<1>7. QED BY <1>1, <1>3, <1>5, <1>6, AtBuilt

LEMMA RegradeStep == ASSUME BuildInv, Build!Regrade PROVE BuildInv'
<1>1. /\ step = "build" /\ ~skip /\ step' \in {"built", "held"}
      /\ UNCHANGED <<cap, twin, rounds, skip, rnd, prior, turns, excused>>
  BY DEF Build!Regrade, Build!row, Build!tdir, Build!thread, Build!count
<1>2. Build!Cap' = Build!Cap /\ Known' = Known
  BY <1>1, CapStays, KnownStays
<1>3. BuildTyped'
  BY <1>1 DEF BuildInv, BuildTyped, Build!Stages
<1>4. /\ turns <= Known + excused /\ rnd \in 0 .. Build!Cap /\ rnd = Known + 1
      /\ Known' <= Room' /\ Known <= Rounds /\ {turns, excused, Known, Room', Rounds} \subseteq Nat
  BY <1>1, <1>3, EntryRound, CapFacts, CapFactsNext DEF BuildInv, BoundBuild, BuildTyped
<1>5. InRounds'
  BY <1>1, <1>2 DEF BuildInv, InRounds, Outside
<1>6. CASE step' = "built"
  <2>1. BoundBuilt'
    BY <1>1, <1>2, <1>4 DEF BoundBuilt
  <2>2. QED BY <1>1, <1>3, <1>5, <1>6, <2>1, AtBuilt
<1>7. CASE step' = "held"
  <2>1. turns' <= Rounds + excused'
    BY <1>1, <1>4
  <2>2. QED BY <1>3, <1>7, <2>1, AtOver
<1>8. QED BY <1>1, <1>6, <1>7

LEMMA BuilderStep == ASSUME BuildInv, Build!BuilderTurn PROVE BuildInv'
<1>1. /\ step = "build" /\ ~skip /\ step' = "autofix" /\ turns' = turns + 1
      /\ UNCHANGED <<cap, twin, rounds, skip, rnd, prior, excused>>
  BY DEF Build!BuilderTurn, Build!Builds, Build!row, Build!tdir, Build!thread
<1>2. Build!Cap' = Build!Cap /\ Known' = Known
  BY <1>1, CapStays, KnownStays
<1>3. BuildTyped'
  BY <1>1 DEF BuildInv, BuildTyped, Build!Stages
<1>4. turns <= Known + excused /\ rnd = Known + 1 /\ {turns, excused, Known} \subseteq Nat
  BY <1>1, EntryRound, CapFacts DEF BuildInv, BoundBuild, BuildTyped
<1>5. BoundBuilding'
  BY <1>1, <1>2, <1>4 DEF BoundBuilding
<1>6. InRounds'
  BY <1>1, <1>2 DEF BuildInv, InRounds, Outside
<1>7. QED BY <1>1, <1>3, <1>5, <1>6, AtBuilding DEF Building

LEMMA BuilderStopsStep == ASSUME BuildInv, Build!BuilderStops PROVE BuildInv'
<1>1. step = "build" /\ ~skip /\ step' = "idle" /\ UNCHANGED <<cap, twin, rounds, rnd, prior, turns, excused>>
  BY DEF Build!BuilderStops, Build!Builds, Build!row, Build!tdir, Build!thread
<1>2. BuildTyped'
  BY <1>1 DEF BuildInv, BuildTyped, Build!Stages
<1>3. turns <= Known + excused /\ Known' = Known /\ Known' <= Room' /\ {turns, excused, Known, Room'} \subseteq Nat
  BY <1>1, <1>2, KnownStays, EntryRound, CapFacts, CapFactsNext DEF BuildInv, BoundBuild, BuildTyped
<1>4. turns' <= Room' + excused'
  BY <1>1, <1>3
<1>5. QED BY <1>1, <1>2, <1>4, AtIdle

LEMMA FixStep == ASSUME BuildInv, Build!Autofix \/ Build!Rebind PROVE BuildInv'
<1>1. /\ step \in Building /\ step' \in {"built", "rebind"}
      /\ UNCHANGED <<cap, twin, rounds, skip, rnd, prior, turns, excused>>
  BY DEF Build!Autofix, Build!Rebind, Build!row, Build!tdir, Build!thread, Build!count, Building
<1>2. Build!Cap' = Build!Cap /\ Known' = Known
  BY <1>1, CapStays, KnownStays
<1>3. BuildTyped'
  BY <1>1 DEF BuildInv, BuildTyped, Build!Stages
<1>4. /\ turns <= rnd + excused /\ turns <= Known + excused + 1
      /\ Known' <= Room' /\ {turns, excused, rnd, Known, Room'} \subseteq Nat
  BY <1>1, <1>3, CapFacts, CapFactsNext DEF BuildInv, BoundBuilding, BuildTyped
<1>5. InRounds' /\ ~skip'
  BY <1>1, <1>2 DEF BuildInv, InRounds, SkipsOnce, Outside, Building
<1>6. CASE step' = "built"
  <2>1. BoundBuilt'
    BY <1>1, <1>2, <1>4 DEF BoundBuilt
  <2>2. QED BY <1>3, <1>5, <1>6, <2>1, AtBuilt
<1>7. CASE step' = "rebind"
  <2>1. BoundBuilding'
    BY <1>1, <1>2, <1>4 DEF BoundBuilding
  <2>2. QED BY <1>3, <1>5, <1>7, <2>1, AtBuilding DEF Building
<1>8. QED BY <1>1, <1>6, <1>7

LEMMA SaveStep == ASSUME BuildInv, Build!SaveBuilt PROVE BuildInv'
<1>1. /\ step = "built" /\ step' \in {"prove", "grade"} /\ rounds' = [round |-> rnd, stage |-> "built", head |-> head]
      /\ UNCHANGED <<cap, twin, head, skip, rnd, prior, turns, excused>>
  BY DEF Build!SaveBuilt, Build!row, Build!tree, Build!count
<1>2. Build!Cap' = Build!Cap
  BY <1>1, CapStays
<1>3. rounds'.round = rnd /\ rounds'.stage = "built" /\ rounds'.head = head
  BY <1>1
<1>4. BuildTyped'
  BY <1>1, <1>3 DEF BuildInv, BuildTyped, Build!Stages
<1>5. BoundJudging'
  BY <1>1, <1>3 DEF BuildInv, BoundBuilt, BoundJudging, Here
<1>6. InRounds' /\ ~skip'
  BY <1>1, <1>2 DEF BuildInv, InRounds, SkipsOnce, Outside
<1>7. QED BY <1>1, <1>4, <1>5, <1>6, AtJudging DEF Judging

(* Proof and grader leave the rounds as they are.                          *)
LEMMA JudgeStep ==
  ASSUME BuildInv,
         Build!ProofBegins \/ Build!ProofAnswers \/ Build!GraderStarts \/ Build!GraderTurn \/ Build!GradeOnceMore \/ Build!Accept
  PROVE  BuildInv'
<1>1. /\ step \in Judging /\ step' \in Judging
      /\ UNCHANGED <<cap, twin, head, rounds, skip, rnd, prior, turns, excused>>
  BY DEF Build!ProofBegins, Build!ProofAnswers, Build!GraderStarts, Build!GraderTurn, Build!GradeOnceMore, Build!Accept,
         Build!row, Build!tree, Build!tdir, Build!thread, Build!count, Judging
<1>2. Build!Cap' = Build!Cap /\ Here' = Here
  BY <1>1, CapStays, RoomStays
<1>3. BuildTyped'
  BY <1>1 DEF BuildInv, BuildTyped, Build!Stages, Judging
<1>4. BoundJudging'
  BY <1>1, <1>2 DEF BuildInv, BoundJudging
<1>5. InRounds' /\ ~skip'
  BY <1>1, <1>2 DEF BuildInv, InRounds, SkipsOnce, Outside, Judging
<1>6. QED BY <1>1, <1>3, <1>4, <1>5, AtJudging

LEMMA StopsStep == ASSUME BuildInv, Build!ProofStops \/ Build!GraderStops PROVE BuildInv'
<1>1. /\ step \in Judging /\ step' \in {"idle", "closed"}
      /\ UNCHANGED <<cap, twin, head, rounds, rnd, prior, turns, excused>>
  BY DEF Build!ProofStops, Build!GraderStops, Build!row, Build!tree, Build!tdir, Build!thread, Judging
<1>2. BuildTyped'
  BY <1>1 DEF BuildInv, BuildTyped, Build!Stages
<1>3. /\ turns <= rnd + excused /\ rnd <= Build!Cap /\ Build!Cap <= Rounds /\ Room = rnd /\ Room' = Room
      /\ {turns, excused, rnd, Rounds, Build!Cap} \subseteq Nat
  <2>1. Here /\ rounds.round = rnd /\ rnd \in 0 .. Build!Cap /\ turns <= rnd + excused
    BY <1>1 DEF BuildInv, BoundJudging, InRounds, Outside, Judging
  <2>2. Room = rnd
    BY <2>1, CapFacts DEF BuildInv, Room, Lesser
  <2>3. QED BY <1>1, <2>1, <2>2, CapFacts, RoomStays DEF BuildInv, BuildTyped
<1>4. CASE step' = "idle"
  BY <1>1, <1>2, <1>3, <1>4, AtIdle
<1>5. CASE step' = "closed"
  BY <1>1, <1>2, <1>3, <1>5, AtOver
<1>6. QED BY <1>1, <1>4, <1>5

LEMMA RoundStep == ASSUME BuildInv, Build!NextRound PROVE BuildInv'
<1>1. /\ step = "decide" /\ rounds' = [round |-> rnd, stage |-> "graded", head |-> head]
      /\ \/ rnd < prior /\ rnd' = rnd + 1 /\ step' = "build"
         \/ ~(rnd < prior) /\ rnd' = rnd /\ step' = "repair"
      /\ UNCHANGED <<cap, twin, head, skip, prior, turns, excused>>
  BY DEF Build!NextRound, Build!row, Build!tree, Build!count
<1>2. Build!Cap' = Build!Cap /\ Build!Cap \in Nat
  BY <1>1, CapStays, CapFacts DEF BuildInv
<1>3. rounds'.round = rnd /\ rounds'.stage = "graded"
  BY <1>1
<1>4. /\ turns <= rnd + excused /\ prior = Build!Cap /\ rnd \in 0 .. Build!Cap /\ ~skip
      /\ {turns, excused, rnd} \subseteq Nat
  BY <1>1 DEF BuildInv, BuildTyped, BoundJudging, InRounds, SkipsOnce, Outside, Judging
<1>5. BuildTyped'
  BY <1>1, <1>3, <1>4 DEF BuildInv, BuildTyped, Build!Stages
<1>6. InRounds'
  BY <1>1, <1>2, <1>4 DEF InRounds
<1>7. CASE step' = "build"
  <2>1. ~Here' /\ Room' = rnd
    BY <1>1, <1>2, <1>3, <1>4, <1>7 DEF Room, Known, Here, Lesser
  <2>2. Build!Clamped(Build!StartRound)' = rnd + 1
    BY <1>1, <1>2, <1>3, <1>4, <1>7 DEF Build!Clamped, Build!StartRound
  <2>3. BoundBuild'
    BY <1>1, <1>4, <1>7, <2>1, <2>2 DEF BoundBuild
  <2>4. QED BY <1>5, <1>6, <1>7, <2>3 DEF BuildInv, SkipsOnce, BoundIdle, BoundBuilding, BoundBuilt, BoundJudging,
                                          BoundRepair, BoundOver, Outside, Building, Judging
<1>8. CASE step' = "repair"
  <2>1. BoundRepair'
    BY <1>1, <1>2, <1>3, <1>4, <1>8 DEF BoundRepair
  <2>2. QED BY <1>1, <1>4, <1>5, <1>6, <1>8, <2>1, AtRepair
<1>9. QED BY <1>1, <1>7, <1>8

LEMMA CompleteStep == ASSUME BuildInv, Build!Complete PROVE BuildInv'
<1>1. step \in {"accept", "repair"} /\ step' = "closed" /\ UNCHANGED <<cap, twin, rounds, rnd, prior, turns, excused>>
  BY DEF Build!Complete, Build!row, Build!tdir, Build!thread, Build!count
<1>2. BuildTyped'
  BY <1>1 DEF BuildInv, BuildTyped, Build!Stages
<1>3. turns <= rnd + excused /\ rnd <= Build!Cap /\ Build!Cap <= Rounds /\ {turns, excused, rnd, Build!Cap, Rounds} \subseteq Nat
  BY <1>1, CapFacts DEF BuildInv, BuildTyped, BoundJudging, BoundRepair, InRounds, Outside, Judging
<1>4. turns' <= Rounds + excused'
  BY <1>1, <1>3
<1>5. QED BY <1>1, <1>2, <1>4, AtOver

LEMMA LostStep == ASSUME BuildInv, Build!Lost PROVE BuildInv'
<1>1. /\ step \notin Outside /\ step' = "idle"
      /\ excused' = IF step \in {"autofix", "rebind", "built", "repair"} THEN excused + 1 ELSE excused
      /\ UNCHANGED <<cap, twin, head, rounds, rnd, prior, turns>>
  BY DEF Build!Lost, Build!row, Build!tree, Build!tdir, Build!thread, Outside
<1>2. BuildTyped'
  BY <1>1 DEF BuildInv, BuildTyped, Build!Stages
<1>3. /\ Room' = Room /\ Known <= Room /\ {turns, excused, rnd, Known, Room} \subseteq Nat
      /\ prior = Build!Cap /\ rnd \in 0 .. Build!Cap /\ Build!Cap \in Nat
  BY <1>1, RoomStays, CapFacts DEF BuildInv, BuildTyped, InRounds
<1>4. CASE step = "build"
  BY <1>1, <1>2, <1>3, <1>4, AtIdle DEF BuildInv, BoundBuild
<1>5. CASE step \in Building
  <2>1. turns <= Known + excused + 1 /\ excused' = excused + 1
    BY <1>1, <1>5 DEF BuildInv, BoundBuilding, Building
  <2>2. turns' <= Room' + excused'
    BY <1>1, <1>3, <2>1
  <2>3. QED BY <1>1, <1>2, <2>2, AtIdle
<1>6. CASE step = "built"
  <2>1. turns <= Room + excused + 1 /\ excused' = excused + 1
    BY <1>1, <1>6 DEF BuildInv, BoundBuilt
  <2>2. turns' <= Room' + excused'
    BY <1>1, <1>3, <2>1
  <2>3. QED BY <1>1, <1>2, <2>2, AtIdle
<1>7. CASE step \in Judging
  <2>1. turns <= rnd + excused /\ Here /\ rounds.round = rnd /\ excused' = excused
    BY <1>1, <1>7 DEF BuildInv, BoundJudging, Judging
  <2>2. Room = rnd
    BY <1>3, <2>1 DEF Room, Lesser
  <2>3. QED BY <1>1, <1>2, <1>3, <2>1, <2>2, AtIdle
<1>8. CASE step = "repair"
  <2>1. turns <= rnd + excused /\ rnd = Build!Cap /\ rounds.stage = "graded" /\ rounds.round = rnd /\ excused' = excused + 1
    BY <1>1, <1>3, <1>8 DEF BuildInv, BoundRepair
  <2>2. Room = rnd - 1
    BY <1>3, <2>1 DEF Room, Known, Here, Lesser
  <2>3. turns' <= Room' + excused'
    BY <1>1, <1>3, <2>1, <2>2
  <2>4. QED BY <1>1, <1>2, <2>3, AtIdle
<1>9. step \in {"build", "built", "repair"} \cup Building \cup Judging
  BY <1>1 DEF BuildInv, BuildTyped, Build!Stages, Outside, Building, Judging
<1>10. QED BY <1>4, <1>5, <1>6, <1>7, <1>8, <1>9

(* A lower cap takes at most one round, and is excused.                    *)
LEMMA LowerStep == ASSUME BuildInv, Build!LowerCap PROVE BuildInv'
<1>1. /\ step = "idle" /\ step' = "idle" /\ cap > 1 /\ cap' = cap - 1 /\ excused' = excused + 1
      /\ UNCHANGED <<twin, head, rounds, rnd, prior, turns>>
  BY DEF Build!LowerCap, Build!row, Build!tree, Build!tdir, Build!thread
<1>2. BuildTyped'
  BY <1>1, BuildConstants DEF BuildInv, BuildTyped
<1>3. cap \in Nat /\ cap' \in Nat /\ Build!Cap \in Nat /\ (Build!Cap' = Build!Cap \/ Build!Cap' = Build!Cap - 1)
  BY <1>1, BuildConstants DEF BuildInv, BuildTyped, Build!Cap
<1>4. Room <= Room' + 1 /\ Room \in Nat /\ Room' \in Nat
  <2>1. Room \in Nat /\ Room' \in Nat /\ rounds.round \in Nat /\ rounds' = rounds /\ head' = head
    BY <1>1, <1>2, CapFacts, CapFactsNext DEF BuildInv
  <2>2. QED BY <1>3, <2>1 DEF Room, Known, Here, Lesser
<1>5. turns <= Room + excused /\ turns \in Nat /\ excused \in Nat
  BY <1>1 DEF BuildInv, BuildTyped, BoundIdle
<1>6. turns' <= Room' + excused'
  <2>1. \A x, y, t, e \in Nat : x <= y + 1 /\ t <= x + e => t <= y + (e + 1)
    OBVIOUS
  <2>2. turns <= Room' + (excused + 1)
    BY <1>4, <1>5, <2>1
  <2>3. QED BY <1>1, <2>2
<1>7. QED BY <1>1, <1>2, <1>6, AtIdle

LEMMA BuildStutters == ASSUME BuildInv, UNCHANGED Build!vars PROVE BuildInv'
<1>1. UNCHANGED <<cap, twin, head, rounds, skip, rnd, prior, step, turns, excused>>
  BY DEF Build!vars, Build!row, Build!tree, Build!tdir, Build!thread, Build!count
<1>2. Build!Cap' = Build!Cap /\ Room' = Room /\ Here' = Here /\ Known' = Known
  BY <1>1, CapStays, RoomStays, KnownStays
<1>3. Build!Clamped(Build!StartRound)' = Build!Clamped(Build!StartRound)
  BY <1>1, <1>2 DEF Build!Clamped, Build!StartRound
<1>4. BuildTyped' /\ InRounds' /\ SkipsOnce'
  BY <1>1, <1>2 DEF BuildInv, BuildTyped, InRounds, SkipsOnce
<1>5. BoundIdle' /\ BoundBuild' /\ BoundBuilding' /\ BoundBuilt' /\ BoundJudging' /\ BoundRepair' /\ BoundOver'
  BY <1>1, <1>2, <1>3 DEF BuildInv, BoundIdle, BoundBuild, BoundBuilding, BoundBuilt, BoundJudging, BoundRepair, BoundOver
<1>6. QED BY <1>4, <1>5 DEF BuildInv

LEMMA BuildStep == ASSUME BuildInv, [Build!Next]_(Build!vars) PROVE BuildInv'
<1>1. CASE Build!Work
  BY <1>1, EnterStep, ResumeStep, RegradeStep, BuilderStep, FixStep, SaveStep, JudgeStep, RoundStep, CompleteStep DEF Build!Work
<1>2. CASE Build!Slip
  BY <1>2, BuilderStopsStep, StopsStep, LostStep, LowerStep DEF Build!Slip
<1>3. CASE UNCHANGED Build!vars
  BY <1>3, BuildStutters
<1>4. QED BY <1>1, <1>2, <1>3 DEF Build!Next, Build!Over

LEMMA BuildCounts == ASSUME BuildInv PROVE TurnsAreCounted
<1>1. /\ step \in Build!Stages /\ {turns, excused, rnd} \subseteq Nat /\ Rounds \in Nat /\ Build!Cap <= Rounds /\ Room <= Build!Cap
      /\ Build!Cap \in Nat /\ Room \in Nat
  BY CapFacts DEF BuildInv, BuildTyped
<1>2. step \notin Outside => rnd <= Build!Cap
  BY DEF BuildInv, InRounds
<1>3. turns <= Room + excused \/ (turns <= rnd + excused /\ rnd <= Build!Cap) \/ turns <= Rounds + excused
  BY <1>1, <1>2 DEF BuildInv, BoundIdle, BoundBuild, BoundBuilding, BoundBuilt, BoundJudging, BoundRepair, BoundOver,
     Outside, Building, Judging, Build!Stages
<1>4. QED BY <1>1, <1>3 DEF TurnsAreCounted, Build!TurnsAreCounted

(* In every run of a build with any number of rounds, however often its    *)
(* turns stop, the driver dies or the cap is lowered: the builder turns    *)
(* that ended stay within the rounds and those excused.                    *)
THEOREM BuildTurnsAreCounted == Build!Spec => []TurnsAreCounted
BY BuildStart, BuildStep, BuildCounts, PTL DEF Build!Spec

-----------------------------------------------------------------------------
(* LaneUnion.  From the turn on, a review of a union stands on its tip.    *)
StandsOnTip == rstage \in {"turn", "approved", "graded"} /\ subject.union => rtree = subject.commit

LEMMA StandsStep ==
  ASSUME StandsOnTip, [Union!Next]_(Union!vars) PROVE StandsOnTip'
<1>1. CASE Union!ClaimReview \/ Union!BindUnion
  BY <1>1 DEF Union!ClaimReview, Union!BindUnion, StandsOnTip
<1>2. CASE Union!ReviewTurn
  BY <1>2 DEF Union!ReviewTurn, Union!StandsOn, StandsOnTip
<1>3. CASE Union!ReviewerEnds \/ Union!CheckPacket
  BY <1>3 DEF Union!ReviewerEnds, Union!CheckPacket, StandsOnTip
<1>4. CASE Union!CompleteReview
  BY <1>4 DEF Union!CompleteReview, StandsOnTip
<1>5. CASE Union!Restart
  BY <1>5 DEF Union!Restart, StandsOnTip
<1>6. CASE UNCHANGED Union!review
  BY <1>6 DEF Union!review, StandsOnTip
<1>7. CASE Union!Integrator \/ Union!ClaimTop \/ Union!BuildTop
  BY <1>6, <1>7 DEF Union!Integrator, Union!IntegrationUnion, Union!UnionStep, Union!ClaimTop, Union!BuildTop
<1>8. CASE (\E t \in Member : Union!MemberVerified(t)) \/ Union!Register \/ Union!FastForward
  BY <1>6, <1>8 DEF Union!MemberVerified, Union!Register, Union!FastForward
<1>9. QED BY <1>1, <1>2, <1>3, <1>4, <1>5, <1>6, <1>7, <1>8 DEF Union!Next, Union!Reviewing, Union!World, Union!vars

(* A build is claimed only on a base that has every dependency's output.   *)
LEMMA ClaimStep ==
  ASSUME [Union!Next]_(Union!vars), base = Union!NoneYet, base' # Union!NoneYet
  PROVE  \A t \in Member : out[t] \subseteq base'
<1>1. CASE Union!ClaimTop
  BY <1>1 DEF Union!ClaimTop, Union!BaseInvariant, Union!Ready
<1>2. CASE Union!BuildTop
  BY <1>2 DEF Union!BuildTop
<1>3. CASE UNCHANGED Union!topRow
  BY <1>3 DEF Union!topRow
<1>4. CASE Union!Integrator
  BY <1>3, <1>4 DEF Union!Integrator, Union!IntegrationUnion, Union!UnionStep
<1>5. CASE Union!Reviewing
  BY <1>3, <1>5 DEF Union!Reviewing, Union!ClaimReview, Union!BindUnion, Union!ReviewTurn, Union!ReviewerEnds,
                    Union!CheckPacket, Union!CompleteReview
<1>6. CASE Union!World
  BY <1>3, <1>6 DEF Union!World, Union!MemberVerified, Union!Register, Union!FastForward, Union!Restart
<1>7. QED BY <1>1, <1>2, <1>3, <1>4, <1>5, <1>6 DEF Union!Next, Union!vars

(* Only the completion of a graded review, with the gate open, verifies it.*)
LEMMA VerdictStep ==
  ASSUME StandsOnTip, [Union!Next]_(Union!vars), rstage = "graded", rstage' = "verified"
  PROVE  IF subject.union THEN rtree = subject.commit /\ cand \subseteq subject.commit ELSE subject.commit = cand
<1>1. CASE Union!CompleteReview
  BY <1>1 DEF Union!CompleteReview, Union!GateOpen, StandsOnTip
<1>2. CASE Union!ClaimReview \/ Union!BindUnion \/ Union!ReviewTurn \/ Union!ReviewerEnds \/ Union!CheckPacket \/ Union!Restart
  BY <1>2 DEF Union!ClaimReview, Union!BindUnion, Union!ReviewTurn, Union!ReviewerEnds, Union!CheckPacket, Union!Restart
<1>3. CASE UNCHANGED Union!review
  BY <1>3 DEF Union!review
<1>4. CASE Union!Integrator \/ Union!ClaimTop \/ Union!BuildTop
  BY <1>3, <1>4 DEF Union!Integrator, Union!IntegrationUnion, Union!UnionStep, Union!ClaimTop, Union!BuildTop
<1>5. CASE (\E t \in Member : Union!MemberVerified(t)) \/ Union!Register \/ Union!FastForward
  BY <1>3, <1>5 DEF Union!MemberVerified, Union!Register, Union!FastForward
<1>6. QED BY <1>1, <1>2, <1>3, <1>4, <1>5 DEF Union!Next, Union!Reviewing, Union!World, Union!vars

(* In every run of the integrator, whatever rows are verified again, and   *)
(* whatever trunk and candidate do: a row is claimed on a base that has    *)
(* the output each dependency has at that moment.                          *)
THEOREM ClaimsStandOnOutputs == Union!Spec => ClaimedOnCurrent
BY ClaimStep, PTL DEF Union!Spec, ClaimedOnCurrent, Union!ClaimedOnCurrent

(* In every such run a verdict on a union is about a tip the reviewer's    *)
(* worktree stood on and that descends from the candidate of the moment.   *)
THEOREM VerdictsWereSeen == Union!Spec => VerdictWasSeen
<1>1. Union!Init => StandsOnTip
  BY DEF Union!Init, StandsOnTip
<1>2. QED BY <1>1, StandsStep, VerdictStep, PTL DEF Union!Spec, VerdictWasSeen, Union!VerdictWasSeen

-----------------------------------------------------------------------------
(* LaneProof.  Threads, records and ledger rows name pipelines there are;  *)
(* what a passing record hides is checked when it is written and holds     *)
(* from then on, since a pipeline that is done does not change.            *)
ProofScopes == {Proof!Whole} \cup ({"twin", "targeted"} \X Asker)
Priors      == [pipe : Nat, only : ProofScopes]
Threads     == [at : {"idle", "answered", "box", "slot", "trigger", "note", "poll", "rerun"}, only : ProofScopes,
                prior : Priors, pipe : Nat, slot : BOOLEAN, host : Host \cup {0}, asks : Nat]
Pipelines   == [at : {"running", "done", "cancelled"}, only : ProofScopes, reds : SUBSET File, infra : BOOLEAN, empty : BOOLEAN]
Entries     == [pid : Asker, pipe : Nat, copy : Nat, hosted : BOOLEAN, only : ProofScopes, paths : {Proof!Whole} \cup {<<t>> : t \in Asker},
                status : {"PASS", "FAIL_PRODUCT", "FAIL_INFRA", "CANCELLED", "UNKNOWN"}]

ProofTyped ==
  /\ red \in SUBSET File /\ pipes \in Seq(Pipelines) /\ recs \in Seq(Entries) /\ ledger \in Seq(Priors)
  /\ ask \in [Asker -> Threads]

Bares == {"idle", "answered", "box"}
EntryFits(ps, r) ==
  /\ r.pipe <= Len(ps)
  /\ r.status = "PASS" /\ r.pipe # 0 /\ r.copy = 0 => ps[r.pipe].at = "done" /\ FilesOf[r.pid] \cap ps[r.pipe].reds \cap red = {}
ThreadFits(ps, t, x) ==
  /\ x.pipe <= Len(ps) /\ x.prior.pipe <= Len(ps)
  /\ x.at \in Bares => ~x.slot /\ x.host = 0 /\ x.pipe = 0
  /\ x.at = "slot" => ~x.slot
  /\ x.at \in {"note", "poll", "rerun"} => x.pipe # 0
  /\ x.at = "rerun" => ps[x.pipe].at = "done"
  /\ x.only # Proof!Whole => x.only \in {<<"twin", t>>, <<"targeted", t>>} /\ x.host = 0
  /\ x.at \notin Bares /\ Wants[t] = "plain" => x.only # Proof!Whole

ProofFits ==
  /\ \A k \in DOMAIN recs : EntryFits(pipes, recs[k])
  /\ \A k \in DOMAIN ledger : ledger[k].pipe <= Len(pipes)
  /\ \A t \in Asker : ThreadFits(pipes, t, ask[t])

SlotsHeld ==
  /\ IsFiniteSet(Proof!FullHeld) /\ full = Cardinality(Proof!FullHeld) /\ full <= FullCap
  /\ IsFiniteSet(Proof!OnlyHeld) /\ only = Cardinality(Proof!OnlyHeld) /\ only <= OnlyCap
BoxesHeld == IsFiniteSet(Proof!BoxHeld) /\ onbox = Cardinality(Proof!BoxHeld)
HostsHeld == \A x \in Host : IsFiniteSet(Proof!HostHeld(x)) /\ host[x] = Cardinality(Proof!HostHeld(x))

ProofInv == ProofTyped /\ ProofFits /\ SlotsHeld /\ BoxesHeld /\ HostsHeld

LEMMA ProofConstants ==
  /\ Wants \in [Asker -> {"full", "twin", "plain"}] /\ FilesOf \in [Asker -> SUBSET File]
  /\ FullCap \in Nat /\ OnlyCap \in Nat /\ 0 \notin Host
BY PartsAssumption DEF Proof!ProofAssumption

LEMMA ScopeFacts ==
  /\ Proof!Whole \in ProofScopes
  /\ \A t \in Asker : <<"twin", t>> \in ProofScopes /\ <<"targeted", t>> \in ProofScopes
                      /\ <<"twin", t>> # Proof!Whole /\ <<"targeted", t>> # Proof!Whole
BY DEF ProofScopes, Proof!Whole

(* One comes or goes.                                                      *)
LEMMA OneJoins ==
  ASSUME NEW S, NEW T, NEW x, IsFiniteSet(S), x \notin S, T = S \cup {x}
  PROVE  IsFiniteSet(T) /\ Cardinality(T) = Cardinality(S) + 1
BY FS_AddElement

LEMMA OneLeaves ==
  ASSUME NEW S, NEW T, NEW x, IsFiniteSet(S), x \in S, T = S \ {x}
  PROVE  IsFiniteSet(T) /\ Cardinality(T) = Cardinality(S) - 1 /\ Cardinality(T) \in Nat /\ Cardinality(S) \in Nat
BY FS_RemoveElement, FS_CardinalityType

(* Pipelines are added and end; those done stay as they are.               *)
Later(ps, qs) ==
  /\ ps \in Seq(Pipelines) /\ qs \in Seq(Pipelines) /\ Len(ps) <= Len(qs)
  /\ \A k \in 1 .. Len(ps) : ps[k].at = "done" => qs[k] = ps[k]

LEMMA SamePipes == ASSUME ProofTyped, pipes' = pipes PROVE Later(pipes, pipes')
<1>1. pipes \in Seq(Pipelines) /\ Len(pipes) \in Nat
  BY DEF ProofTyped
<1>2. QED BY <1>1 DEF Later

LEMMA FitsLater ==
  ASSUME NEW ps, NEW qs, Later(ps, qs)
  PROVE  /\ \A r \in Entries : EntryFits(ps, r) => EntryFits(qs, r)
         /\ \A t \in Asker, x \in Threads : ThreadFits(ps, t, x) => ThreadFits(qs, t, x)
<1>1. Len(ps) \in Nat /\ Len(qs) \in Nat /\ Len(ps) <= Len(qs)
  BY DEF Later
<1>2. ASSUME NEW n \in Nat, n <= Len(ps) PROVE n <= Len(qs) /\ (n # 0 /\ ps[n].at = "done" => qs[n] = ps[n])
  BY <1>1, <1>2 DEF Later
<1>3. ASSUME NEW r \in Entries, EntryFits(ps, r) PROVE EntryFits(qs, r)
  <2>1. r.pipe \in Nat
    BY DEF Entries
  <2>2. QED BY <1>2, <1>3, <2>1 DEF EntryFits
<1>4. ASSUME NEW t \in Asker, NEW x \in Threads, ThreadFits(ps, t, x) PROVE ThreadFits(qs, t, x)
  <2>1. x.pipe \in Nat /\ x.prior.pipe \in Nat
    BY DEF Threads, Priors
  <2>2. QED BY <1>2, <1>4, <2>1 DEF ThreadFits
<1>5. QED BY <1>3, <1>4

(* A thread moves: what it writes fits, and the others still do.           *)
LEMMA ThreadMoves ==
  ASSUME ProofTyped, ProofFits, red' = red, Later(pipes, pipes'),
         recs' \in Seq(Entries), \A k \in DOMAIN recs' : (\E l \in DOMAIN recs : recs'[k] = recs[l]) \/ EntryFits(pipes', recs'[k]),
         ledger' \in Seq(Priors), \A k \in DOMAIN ledger' : ledger'[k].pipe <= Len(pipes'),
         NEW t \in Asker, NEW x \in Threads, ThreadFits(pipes', t, x), ask' = [ask EXCEPT ![t] = x]
  PROVE  ProofTyped' /\ ProofFits'
<1>1. ask \in [Asker -> Threads] /\ recs \in Seq(Entries)
  BY DEF ProofTyped
<1>2. ask' \in [Asker -> Threads] /\ ask'[t] = x /\ \A u \in Asker \ {t} : ask'[u] = ask[u]
  BY <1>1
<1>3. ProofTyped'
  BY <1>2 DEF ProofTyped, Later
<1>4. \A k \in DOMAIN recs' : EntryFits(pipes', recs'[k])
  <2>1. \A l \in DOMAIN recs : recs[l] \in Entries /\ EntryFits(pipes, recs[l])
    BY <1>1 DEF ProofFits
  <2>2. \A l \in DOMAIN recs : EntryFits(pipes', recs[l])
    BY <2>1, FitsLater
  <2>3. QED BY <2>2
<1>5. \A u \in Asker : ThreadFits(pipes', u, ask'[u])
  BY <1>1, <1>2, FitsLater DEF ProofFits
<1>6. ProofFits'
  BY <1>4, <1>5 DEF ProofFits, EntryFits, ThreadFits
<1>7. QED BY <1>3, <1>6

LEMMA WrittenFits ==
  ASSUME ProofTyped, NEW r \in Entries, Proof!Written(r)
  PROVE  recs' \in Seq(Entries) /\ \A k \in DOMAIN recs' : (\E l \in DOMAIN recs : recs'[k] = recs[l]) \/ recs'[k] = r
<1>1. recs \in Seq(Entries)
  BY DEF ProofTyped
<1>2. CASE recs' = Append(recs, r)
  BY <1>1, <1>2
<1>3. ASSUME NEW k \in DOMAIN recs, recs' = Append(Proof!RemoveAt(recs, k), r)
      PROVE  recs' \in Seq(Entries) /\ \A n \in DOMAIN recs' : (\E l \in DOMAIN recs : recs'[n] = recs[l]) \/ recs'[n] = r
  <2> DEFINE before == SubSeq(recs, 1, k - 1)  after == SubSeq(recs, k + 1, Len(recs))  rest == before \o after
  <2>1. k \in 1 .. Len(recs) /\ Len(recs) \in Nat
    BY <1>1
  <2>2. before \in Seq(Entries) /\ Len(before) = k - 1 /\ \A n \in 1 .. k - 1 : before[n] = recs[n]
    <3>1. 1 \in Int /\ k - 1 \in Int /\ \A n \in 1 .. k - 1 : recs[n] \in Entries
      BY <1>1, <2>1
    <3>2. before \in Seq(Entries) /\ Len(before) = (IF 1 <= k - 1 THEN k - 1 - 1 + 1 ELSE 0)
          /\ \A n \in 1 .. k - 1 - 1 + 1 : before[n] = recs[1 + n - 1]
      BY <3>1, SubSeqProperties
    <3>3. QED BY <2>1, <3>2
  <2>3. after \in Seq(Entries) /\ Len(after) = Len(recs) - k /\ \A n \in 1 .. Len(recs) - k : after[n] = recs[n + k]
    <3>1. k + 1 \in Int /\ Len(recs) \in Int /\ \A n \in k + 1 .. Len(recs) : recs[n] \in Entries
      BY <1>1, <2>1
    <3>2. after \in Seq(Entries) /\ Len(after) = (IF k + 1 <= Len(recs) THEN Len(recs) - (k + 1) + 1 ELSE 0)
          /\ \A n \in 1 .. Len(recs) - (k + 1) + 1 : after[n] = recs[k + 1 + n - 1]
      BY <3>1, SubSeqProperties
    <3>3. \A n \in 1 .. Len(recs) - k : n \in 1 .. Len(recs) - (k + 1) + 1 /\ k + 1 + n - 1 = n + k
      BY <2>1
    <3>4. QED BY <2>1, <3>2, <3>3
  <2> HIDE DEF before, after
  <2>4. rest \in Seq(Entries) /\ Len(rest) = Len(recs) - 1
        /\ \A n \in 1 .. Len(recs) - 1 : rest[n] = IF n <= k - 1 THEN before[n] ELSE after[n - (k - 1)]
    <3>1. rest \in Seq(Entries) /\ Len(rest) = Len(before) + Len(after)
          /\ \A n \in 1 .. Len(before) + Len(after) : rest[n] = IF n <= Len(before) THEN before[n] ELSE after[n - Len(before)]
      BY <2>2, <2>3, ConcatProperties
    <3>2. Len(before) + Len(after) = Len(recs) - 1
      BY <2>1, <2>2, <2>3
    <3>3. QED BY <2>2, <3>1, <3>2
  <2>5. ASSUME NEW n \in 1 .. Len(rest) PROVE \E l \in DOMAIN recs : rest[n] = recs[l]
    <3>1. CASE n <= k - 1
      <4>1. n \in 1 .. k - 1 /\ n \in DOMAIN recs /\ n \in 1 .. Len(recs) - 1
        BY <1>1, <2>1, <2>4, <3>1
      <4>2. rest[n] = before[n]
        BY <2>4, <3>1, <4>1
      <4>3. QED BY <2>2, <4>1, <4>2
    <3>2. CASE n > k - 1
      <4>1. n \in 1 .. Len(recs) - 1 /\ ~(n <= k - 1)
        BY <2>1, <2>4, <3>2
      <4>2. rest[n] = after[n - (k - 1)]
        BY <2>4, <4>1
      <4>3. n - (k - 1) \in 1 .. Len(recs) - k /\ n + 1 \in DOMAIN recs /\ n - (k - 1) + k = n + 1
        BY <1>1, <2>1, <2>4, <3>2
      <4>4. QED BY <2>3, <4>2, <4>3
    <3>3. QED BY <2>1, <3>1, <3>2, <2>4
  <2>6. recs' = Append(rest, r)
    BY <1>3 DEF Proof!RemoveAt, before, after
  <2> HIDE DEF rest
  <2>7. recs' \in Seq(Entries) /\ Len(recs') = Len(rest) + 1 /\ recs'[Len(rest) + 1] = r
        /\ \A n \in 1 .. Len(rest) : recs'[n] = rest[n]
    BY <2>4, <2>6, AppendProperties
  <2>8. \A n \in DOMAIN recs' : n \in 1 .. Len(rest) \/ n = Len(rest) + 1
    BY <2>4, <2>7
  <2>9. QED BY <2>5, <2>7, <2>8
<1>4. QED BY <1>2, <1>3 DEF Proof!Written

(* What a thread counts for when it moves to x.                            *)
LEMMA SlotsStay ==
  ASSUME ProofTyped, SlotsHeld, NEW t \in Asker, NEW x, ask' = [ask EXCEPT ![t] = x],
         x.slot <=> ask[t].slot, x.slot => x.only = ask[t].only, UNCHANGED <<full, only>>
  PROVE  SlotsHeld'
<1>1. ask'[t] = x /\ \A u \in Asker \ {t} : ask'[u] = ask[u]
  BY DEF ProofTyped
<1>2. Proof!FullHeld' = Proof!FullHeld /\ Proof!OnlyHeld' = Proof!OnlyHeld
  BY <1>1 DEF Proof!FullHeld, Proof!OnlyHeld
<1>3. QED BY <1>2 DEF SlotsHeld

LEMMA SlotsLeave ==
  ASSUME ProofTyped, SlotsHeld, NEW t \in Asker, NEW x, ask' = [ask EXCEPT ![t] = x], ~x.slot,
         full' = IF ask[t].slot /\ ask[t].only = Proof!Whole THEN full - 1 ELSE full,
         only' = IF ask[t].slot /\ ask[t].only # Proof!Whole THEN only - 1 ELSE only
  PROVE  SlotsHeld'
<1>1. ask'[t] = x /\ \A u \in Asker \ {t} : ask'[u] = ask[u]
  BY DEF ProofTyped
<1>2. Proof!FullHeld' = Proof!FullHeld \ {t} /\ Proof!OnlyHeld' = Proof!OnlyHeld \ {t}
  BY <1>1 DEF Proof!FullHeld, Proof!OnlyHeld
<1>3. FullCap \in Nat /\ OnlyCap \in Nat
  BY ProofConstants
<1>4. IsFiniteSet(Proof!FullHeld') /\ full' = Cardinality(Proof!FullHeld') /\ full' <= FullCap
  <2>1. CASE ask[t].slot /\ ask[t].only = Proof!Whole
    <3>1. t \in Proof!FullHeld /\ full' = full - 1
      BY <2>1 DEF Proof!FullHeld
    <3>2. IsFiniteSet(Proof!FullHeld') /\ Cardinality(Proof!FullHeld') = Cardinality(Proof!FullHeld) - 1 /\ Cardinality(Proof!FullHeld) \in Nat
      BY <1>2, <3>1, OneLeaves DEF SlotsHeld
    <3>3. QED BY <1>3, <3>1, <3>2 DEF SlotsHeld
  <2>2. CASE ~(ask[t].slot /\ ask[t].only = Proof!Whole)
    <3>1. Proof!FullHeld' = Proof!FullHeld
      BY <1>2, <2>2 DEF Proof!FullHeld
    <3>2. QED BY <2>2, <3>1 DEF SlotsHeld
  <2>3. QED BY <2>1, <2>2
<1>5. IsFiniteSet(Proof!OnlyHeld') /\ only' = Cardinality(Proof!OnlyHeld') /\ only' <= OnlyCap
  <2>1. CASE ask[t].slot /\ ask[t].only # Proof!Whole
    <3>1. t \in Proof!OnlyHeld /\ only' = only - 1
      BY <2>1 DEF Proof!OnlyHeld
    <3>2. IsFiniteSet(Proof!OnlyHeld') /\ Cardinality(Proof!OnlyHeld') = Cardinality(Proof!OnlyHeld) - 1 /\ Cardinality(Proof!OnlyHeld) \in Nat
      BY <1>2, <3>1, OneLeaves DEF SlotsHeld
    <3>3. QED BY <1>3, <3>1, <3>2 DEF SlotsHeld
  <2>2. CASE ~(ask[t].slot /\ ask[t].only # Proof!Whole)
    <3>1. Proof!OnlyHeld' = Proof!OnlyHeld
      BY <1>2, <2>2 DEF Proof!OnlyHeld
    <3>2. QED BY <2>2, <3>1 DEF SlotsHeld
  <2>3. QED BY <2>1, <2>2
<1>6. QED BY <1>4, <1>5 DEF SlotsHeld

LEMMA SlotsTaken ==
  ASSUME ProofTyped, SlotsHeld, NEW t \in Asker, NEW x, ask' = [ask EXCEPT ![t] = x], x.slot, ~ask[t].slot, x.only = ask[t].only,
         Proof!HasRoom(t),
         IF ask[t].only = Proof!Whole THEN full' = full + 1 /\ UNCHANGED only ELSE only' = only + 1 /\ UNCHANGED full
  PROVE  SlotsHeld'
<1>1. ask'[t] = x /\ \A u \in Asker \ {t} : ask'[u] = ask[u]
  BY DEF ProofTyped
<1>2. FullCap \in Nat /\ OnlyCap \in Nat /\ t \notin Proof!FullHeld /\ t \notin Proof!OnlyHeld
  BY ProofConstants DEF Proof!FullHeld, Proof!OnlyHeld
<1>3. \A m, n \in Nat : m < n => m + 1 <= n
  OBVIOUS
<1>4. CASE ask[t].only = Proof!Whole
  <2>1. Proof!FullHeld' = Proof!FullHeld \cup {t} /\ Proof!OnlyHeld' = Proof!OnlyHeld
    BY <1>1, <1>4 DEF Proof!FullHeld, Proof!OnlyHeld
  <2>2. IsFiniteSet(Proof!FullHeld') /\ Cardinality(Proof!FullHeld') = full + 1 /\ full \in Nat
    BY <1>2, <2>1, OneJoins, FS_CardinalityType DEF SlotsHeld
  <2>3. full + 1 <= FullCap
    BY <1>2, <1>3, <1>4, <2>2 DEF Proof!HasRoom
  <2>4. full' = full + 1 /\ only' = only
    BY <1>4
  <2>5. QED BY <2>1, <2>2, <2>3, <2>4 DEF SlotsHeld
<1>5. CASE ask[t].only # Proof!Whole
  <2>1. Proof!OnlyHeld' = Proof!OnlyHeld \cup {t} /\ Proof!FullHeld' = Proof!FullHeld
    BY <1>1, <1>5 DEF Proof!FullHeld, Proof!OnlyHeld
  <2>2. IsFiniteSet(Proof!OnlyHeld') /\ Cardinality(Proof!OnlyHeld') = only + 1 /\ only \in Nat
    BY <1>2, <2>1, OneJoins, FS_CardinalityType DEF SlotsHeld
  <2>3. only + 1 <= OnlyCap
    BY <1>2, <1>3, <1>5, <2>2 DEF Proof!HasRoom
  <2>4. only' = only + 1 /\ full' = full
    BY <1>5
  <2>5. QED BY <2>1, <2>2, <2>3, <2>4 DEF SlotsHeld
<1>6. QED BY <1>4, <1>5

OnTheBox == {"box", "rerun"}

LEMMA BoxesMove ==
  ASSUME ProofTyped, BoxesHeld, NEW t \in Asker, NEW x, ask' = [ask EXCEPT ![t] = x],
         \/ (x.at \in OnTheBox <=> ask[t].at \in OnTheBox) /\ onbox' = onbox
         \/ x.at \in OnTheBox /\ ask[t].at \notin OnTheBox /\ onbox' = onbox + 1
         \/ x.at \notin OnTheBox /\ ask[t].at \in OnTheBox /\ onbox' = onbox - 1
  PROVE  BoxesHeld'
<1>1. ask'[t] = x /\ \A u \in Asker \ {t} : ask'[u] = ask[u]
  BY DEF ProofTyped
<1>2. CASE (x.at \in OnTheBox <=> ask[t].at \in OnTheBox) /\ onbox' = onbox
  <2>1. Proof!BoxHeld' = Proof!BoxHeld
    BY <1>1, <1>2 DEF Proof!BoxHeld, OnTheBox
  <2>2. QED BY <1>2, <2>1 DEF BoxesHeld
<1>3. CASE x.at \in OnTheBox /\ ask[t].at \notin OnTheBox /\ onbox' = onbox + 1
  <2>1. Proof!BoxHeld' = Proof!BoxHeld \cup {t} /\ t \notin Proof!BoxHeld
    BY <1>1, <1>3 DEF Proof!BoxHeld, OnTheBox
  <2>2. QED BY <1>3, <2>1, OneJoins DEF BoxesHeld
<1>4. CASE x.at \notin OnTheBox /\ ask[t].at \in OnTheBox /\ onbox' = onbox - 1
  <2>1. Proof!BoxHeld' = Proof!BoxHeld \ {t} /\ t \in Proof!BoxHeld
    BY <1>1, <1>4 DEF Proof!BoxHeld, OnTheBox
  <2>2. QED BY <1>4, <2>1, OneLeaves DEF BoxesHeld
<1>5. QED BY <1>2, <1>3, <1>4

LEMMA HostsStay ==
  ASSUME ProofTyped, HostsHeld, NEW t \in Asker, NEW x, ask' = [ask EXCEPT ![t] = x], x.host = ask[t].host, host' = host
  PROVE  HostsHeld'
<1>1. ask'[t] = x /\ \A u \in Asker \ {t} : ask'[u] = ask[u]
  BY DEF ProofTyped
<1>2. \A k \in Host : Proof!HostHeld(k)' = Proof!HostHeld(k)
  BY <1>1 DEF Proof!HostHeld
<1>3. QED BY <1>2 DEF HostsHeld

LEMMA HostsMove ==
  ASSUME ProofTyped, HostsHeld, NEW t \in Asker, NEW x, ask' = [ask EXCEPT ![t] = x],
         \/ x.host = 0 /\ \A k \in Host : host'[k] = IF k = ask[t].host THEN host[k] - 1 ELSE host[k]
         \/ ask[t].host = 0 /\ \A k \in Host : host'[k] = IF k = x.host THEN host[k] + 1 ELSE host[k]
  PROVE  HostsHeld'
<1>1. ask'[t] = x /\ \A u \in Asker \ {t} : ask'[u] = ask[u]
  BY DEF ProofTyped
<1>2. 0 \notin Host
  BY ProofConstants
<1>3. SUFFICES ASSUME NEW k \in Host PROVE IsFiniteSet(Proof!HostHeld(k)') /\ host'[k] = Cardinality(Proof!HostHeld(k)')
  BY DEF HostsHeld
<1>4. IsFiniteSet(Proof!HostHeld(k)) /\ host[k] = Cardinality(Proof!HostHeld(k))
  BY DEF HostsHeld
<1>5. CASE x.host = 0 /\ \A n \in Host : host'[n] = IF n = ask[t].host THEN host[n] - 1 ELSE host[n]
  <2>1. Proof!HostHeld(k)' = Proof!HostHeld(k) \ {t} /\ (t \in Proof!HostHeld(k) <=> k = ask[t].host)
    BY <1>1, <1>2, <1>5 DEF Proof!HostHeld
  <2>2. CASE k = ask[t].host
    <3>1. host'[k] = host[k] - 1
      BY <1>5, <2>2
    <3>2. QED BY <1>4, <2>1, <2>2, <3>1, OneLeaves
  <2>3. CASE k # ask[t].host
    <3>1. host'[k] = host[k] /\ Proof!HostHeld(k)' = Proof!HostHeld(k)
      BY <1>5, <2>1, <2>3
    <3>2. QED BY <1>4, <3>1
  <2>4. QED BY <2>2, <2>3
<1>6. CASE ask[t].host = 0 /\ \A n \in Host : host'[n] = IF n = x.host THEN host[n] + 1 ELSE host[n]
  <2>1. CASE k = x.host
    <3>1. Proof!HostHeld(k)' = Proof!HostHeld(k) \cup {t} /\ t \notin Proof!HostHeld(k) /\ host'[k] = host[k] + 1
      BY <1>1, <1>2, <1>6, <2>1 DEF Proof!HostHeld
    <3>2. QED BY <1>4, <3>1, OneJoins
  <2>2. CASE k # x.host
    <3>1. Proof!HostHeld(k)' = Proof!HostHeld(k) /\ host'[k] = host[k]
      BY <1>1, <1>2, <1>6, <2>2 DEF Proof!HostHeld
    <3>2. QED BY <1>4, <3>1
  <2>3. QED BY <2>1, <2>2
<1>7. QED BY <1>5, <1>6

(* A thread that holds nothing, at rest, answered or with its first box.   *)
Holdless(x, at) == x \in Threads /\ x.at = at /\ ~x.slot /\ x.host = 0 /\ x.pipe = 0 /\ x.prior.pipe = 0 /\ x.only = Proof!Whole

LEMMA BareIsHoldless ==
  ASSUME ProofTyped, NEW t \in Asker, NEW at \in Bares
  PROVE  Holdless(Proof!Bare(t, at), at) /\ Holdless([Proof!Bare(t, at) EXCEPT !.asks = @ + 1], at)
<1>1. ask[t].asks \in Nat /\ ask[t].asks + 1 \in Nat
  BY DEF ProofTyped, Threads
<1>2. Holdless(Proof!Idle, "idle")
  <2>1. Proof!NoPrior \in Priors /\ Proof!NoPrior.pipe = 0 /\ Proof!Whole \in ProofScopes
    BY ScopeFacts DEF Proof!NoPrior, Priors
  <2>2. QED BY <2>1 DEF Holdless, Threads, Proof!Idle
<1>3. at \in {"idle", "answered", "box", "slot", "trigger", "note", "poll", "rerun"}
  BY DEF Bares
<1>4. ASSUME NEW y, Holdless(y, "idle"), NEW n \in Nat PROVE Holdless([y EXCEPT !.at = at, !.asks = n], at)
  <2>1. y \in Threads
    BY <1>4 DEF Holdless
  <2>2. [y EXCEPT !.at = at, !.asks = n] \in Threads
    BY <1>3, <2>1 DEF Threads
  <2>3. QED BY <1>4, <2>1, <2>2 DEF Holdless, Threads
<1>5. ASSUME NEW y, Holdless(y, at) PROVE Holdless([y EXCEPT !.asks = @ + 1], at)
  <2>1. y \in Threads
    BY <1>5 DEF Holdless
  <2>2. [y EXCEPT !.asks = @ + 1] \in Threads
    BY <2>1 DEF Threads
  <2>3. QED BY <1>5, <2>1, <2>2 DEF Holdless, Threads
<1>6. Holdless(Proof!Bare(t, at), at)
  BY <1>1, <1>2, <1>4 DEF Proof!Bare
<1>7. QED BY <1>5, <1>6

LEMMA HoldlessFits ==
  ASSUME NEW ps \in Seq(Pipelines), NEW t \in Asker, NEW x, NEW at \in Bares, Holdless(x, at)
  PROVE  ThreadFits(ps, t, x)
BY DEF Holdless, ThreadFits, Bares

LEMMA AtMost == \A m, n, k \in Nat : k <= m /\ m <= n => k <= n
OBVIOUS

LEMMA LedgerKept ==
  ASSUME ProofInv, Later(pipes, pipes'), ledger' = ledger
  PROVE  ledger' \in Seq(Priors) /\ \A k \in DOMAIN ledger' : ledger'[k].pipe <= Len(pipes')
<1>1. Len(pipes) \in Nat /\ Len(pipes') \in Nat /\ Len(pipes) <= Len(pipes')
  BY DEF Later
<1>2. ledger \in Seq(Priors) /\ \A k \in DOMAIN ledger : ledger[k].pipe <= Len(pipes)
  BY DEF ProofInv, ProofTyped, ProofFits
<1>3. \A k \in DOMAIN ledger : ledger[k].pipe \in Nat
  <2>1. \A k \in DOMAIN ledger : ledger[k] \in Priors
    BY <1>2
  <2>2. \A y \in Priors : y.pipe \in Nat
    BY DEF Priors
  <2>3. QED BY <2>1, <2>2
<1>4. ASSUME NEW k \in DOMAIN ledger PROVE ledger[k].pipe <= Len(pipes')
  <2>1. ledger[k].pipe \in Nat /\ ledger[k].pipe <= Len(pipes)
    BY <1>2, <1>3
  <2>2. QED BY <1>1, <2>1, AtMost
<1>5. QED BY <1>2, <1>4

(* A thread gives up what it holds, which the hosted route counts back.    *)
LEMMA ThreadFrees ==
  ASSUME ProofInv, red' = red, Later(pipes, pipes'),
         recs' \in Seq(Entries), \A k \in DOMAIN recs' : (\E l \in DOMAIN recs : recs'[k] = recs[l]) \/ EntryFits(pipes', recs'[k]),
         ledger' = ledger,
         NEW t \in Asker, NEW at \in Bares, NEW x, Holdless(x, at), ask' = [ask EXCEPT ![t] = x],
         full' = IF ask[t].slot /\ ask[t].only = Proof!Whole THEN full - 1 ELSE full,
         only' = IF ask[t].slot /\ ask[t].only # Proof!Whole THEN only - 1 ELSE only,
         \A k \in Host : host'[k] = IF k = ask[t].host THEN host[k] - 1 ELSE host[k],
         \/ (x.at \in OnTheBox <=> ask[t].at \in OnTheBox) /\ onbox' = onbox
         \/ x.at \in OnTheBox /\ ask[t].at \notin OnTheBox /\ onbox' = onbox + 1
         \/ x.at \notin OnTheBox /\ ask[t].at \in OnTheBox /\ onbox' = onbox - 1
  PROVE  ProofInv'
<1>1. ProofTyped /\ ProofFits /\ SlotsHeld /\ BoxesHeld /\ HostsHeld
  BY DEF ProofInv
<1>2. pipes' \in Seq(Pipelines) /\ x \in Threads /\ ~x.slot /\ x.host = 0
  BY DEF Later, Holdless
<1>3. ThreadFits(pipes', t, x)
  BY <1>2, HoldlessFits
<1>4. ledger' \in Seq(Priors) /\ \A k \in DOMAIN ledger' : ledger'[k].pipe <= Len(pipes')
  BY LedgerKept
<1>5. ProofTyped' /\ ProofFits'
  BY <1>1, <1>2, <1>3, <1>4, ThreadMoves
<1>6. SlotsHeld'
  BY <1>1, <1>2, SlotsLeave
<1>7. BoxesHeld'
  BY <1>1, BoxesMove
<1>8. HostsHeld'
  BY <1>1, <1>2, HostsMove
<1>9. QED BY <1>5, <1>6, <1>7, <1>8 DEF ProofInv

(* At rest or on the box a thread holds neither slot nor host.             *)
LEMMA BareHolds ==
  ASSUME ProofInv, NEW t \in Asker, ask[t].at \in Bares, UNCHANGED <<full, only, host>>
  PROVE  /\ full' = IF ask[t].slot /\ ask[t].only = Proof!Whole THEN full - 1 ELSE full
         /\ only' = IF ask[t].slot /\ ask[t].only # Proof!Whole THEN only - 1 ELSE only
         /\ \A k \in Host : host'[k] = IF k = ask[t].host THEN host[k] - 1 ELSE host[k]
<1>1. ~ask[t].slot /\ ask[t].host = 0
  BY DEF ProofInv, ProofFits, ThreadFits
<1>2. 0 \notin Host
  BY ProofConstants
<1>3. QED BY <1>1, <1>2

Statuses == {"PASS", "FAIL_PRODUCT", "FAIL_INFRA", "CANCELLED", "UNKNOWN"}

LEMMA RecIsEntry ==
  ASSUME ProofTyped, NEW t \in Asker, NEW status \in Statuses
  PROVE  /\ Proof!Rec(t, status) \in Entries
         /\ \A s \in ProofScopes, w \in {Proof!Whole} \cup {<<u>> : u \in Asker} :
              [Proof!Rec(t, status) EXCEPT !.only = s, !.paths = w] \in Entries
         /\ [Proof!Rec(t, status) EXCEPT !.paths = Proof!Paths(t)] \in Entries
         /\ Proof!Judgement(t, status) \in Entries
<1>1. ask[t].pipe \in Nat /\ ask[t].only \in ProofScopes
  BY DEF ProofTyped, Threads
<1>2. Proof!Rec(t, status) \in Entries
  BY <1>1, ScopeFacts DEF Proof!Rec, Entries, Statuses, Proof!At
<1>3. \A s \in ProofScopes, w \in {Proof!Whole} \cup {<<u>> : u \in Asker} :
        [Proof!Rec(t, status) EXCEPT !.only = s, !.paths = w] \in Entries
  BY <1>2 DEF Entries
<1>4. Proof!Paths(t) \in {Proof!Whole} \cup {<<u>> : u \in Asker}
  BY DEF Proof!Paths
<1>5. [Proof!Rec(t, status) EXCEPT !.paths = Proof!Paths(t)] \in Entries
  BY <1>2, <1>4 DEF Entries
<1>6. Proof!Judgement(t, status) \in Entries
  BY <1>1, <1>3, <1>4, ScopeFacts DEF Proof!Judgement
<1>7. QED BY <1>2, <1>3, <1>5, <1>6

LEMMA RecFields ==
  ASSUME NEW t, NEW status
  PROVE  /\ Proof!Rec(t, status).pid = t /\ Proof!Rec(t, status).pipe = ask[t].pipe /\ Proof!Rec(t, status).status = status
         /\ Proof!Judgement(t, status).pid = t /\ Proof!Judgement(t, status).pipe = ask[t].pipe /\ Proof!Judgement(t, status).status = status
BY DEF Proof!Rec, Proof!Judgement

LEMMA RestsHoldless ==
  ASSUME ProofTyped, NEW t \in Asker, NEW r, Proof!Rests(t, r)
  PROVE  \E at \in {"idle", "answered"} : Holdless(Proof!Bare(t, at), at) /\ ask' = [ask EXCEPT ![t] = Proof!Bare(t, at)]
<1>1. \E at \in {"idle", "answered"} : ask' = [ask EXCEPT ![t] = Proof!Bare(t, at)]
  BY DEF Proof!Rests, Proof!Ends
<1>2. \A at \in {"idle", "answered"} : Holdless(Proof!Bare(t, at), at)
  BY BareIsHoldless DEF Bares
<1>3. QED BY <1>1, <1>2

LEMMA ReleasedMeans ==
  ASSUME NEW t, Proof!Released(t)
  PROVE  /\ full' = IF ask[t].slot /\ ask[t].only = Proof!Whole THEN full - 1 ELSE full
         /\ only' = IF ask[t].slot /\ ask[t].only # Proof!Whole THEN only - 1 ELSE only
         /\ \A k \in Host : host'[k] = IF k = ask[t].host THEN host[k] - 1 ELSE host[k]
         /\ onbox' = onbox
BY DEF Proof!Released

LEMMA ClosesKeeps ==
  ASSUME ProofInv, red' = red, Later(pipes, pipes'), ledger' = ledger, NEW t \in Asker, ask[t].at \notin OnTheBox,
         NEW r \in Entries, EntryFits(pipes', r), Proof!Closes(t, r)
  PROVE  ProofInv'
<1>1. ProofTyped
  BY DEF ProofInv
<1>2. PICK at \in {"idle", "answered"} : Holdless(Proof!Bare(t, at), at) /\ ask' = [ask EXCEPT ![t] = Proof!Bare(t, at)]
  BY <1>1, RestsHoldless DEF Proof!Closes
<1>3. recs' \in Seq(Entries) /\ \A k \in DOMAIN recs' : (\E l \in DOMAIN recs : recs'[k] = recs[l]) \/ EntryFits(pipes', recs'[k])
  <2>1. recs' \in Seq(Entries) /\ \A k \in DOMAIN recs' : (\E l \in DOMAIN recs : recs'[k] = recs[l]) \/ recs'[k] = r
    BY <1>1, WrittenFits DEF Proof!Closes
  <2>2. QED BY <2>1
<1>4. at \in Bares /\ Proof!Bare(t, at).at \notin OnTheBox
  BY <1>2 DEF Holdless, Bares, OnTheBox
<1>5. onbox' = onbox
  BY ReleasedMeans DEF Proof!Closes
<1>6. Proof!Released(t)
  BY DEF Proof!Closes
<1>7. QED BY <1>2, <1>3, <1>4, <1>5, <1>6, ReleasedMeans, ThreadFrees
-----------------------------------------------------------------------------
(* One lemma for each kind of step.                                        *)
LEMMA SameRecs ==
  ASSUME ProofTyped, recs' = recs
  PROVE  recs' \in Seq(Entries) /\ \A k \in DOMAIN recs' : (\E l \in DOMAIN recs : recs'[k] = recs[l]) \/ EntryFits(pipes', recs'[k])
BY DEF ProofTyped

(* An answer on record is copied: the copy hides what its original does.   *)
LEMMA ReusesKeeps == ASSUME ProofInv, NEW t \in Asker, Proof!Reuses(t) PROVE ProofInv'
<1>1. ProofTyped /\ ProofFits
  BY DEF ProofInv
<1>2. PICK k \in Proof!Newest(Proof!Reusable(t)) : recs' = Append(recs, [recs[k] EXCEPT !.pid = t, !.copy = ask[t].asks + 1])
  BY DEF Proof!Reuses
<1>3. k \in DOMAIN recs
  BY DEF Proof!Newest, Proof!Reusable
<1>4. ask[t].asks \in Nat /\ recs \in Seq(Entries) /\ recs[k] \in Entries /\ recs[k].pipe <= Len(pipes)
  BY <1>1, <1>3 DEF ProofTyped, ProofFits, Threads, EntryFits
<1>5. ask[t].asks + 1 \in Nat /\ ask[t].asks + 1 # 0
  BY <1>4
<1>6. ASSUME NEW n \in Nat, n # 0, NEW y \in Entries, y.pipe <= Len(pipes)
      PROVE  [y EXCEPT !.pid = t, !.copy = n] \in Entries /\ EntryFits(pipes, [y EXCEPT !.pid = t, !.copy = n])
  <2>1. [y EXCEPT !.pid = t, !.copy = n] \in Entries
    BY <1>6 DEF Entries
  <2>2. [y EXCEPT !.pid = t, !.copy = n].copy = n /\ [y EXCEPT !.pid = t, !.copy = n].pipe = y.pipe
    BY <1>6 DEF Entries
  <2>3. QED BY <1>6, <2>1, <2>2 DEF EntryFits
<1> DEFINE r == [recs[k] EXCEPT !.pid = t, !.copy = ask[t].asks + 1]
<1>7. r \in Entries /\ EntryFits(pipes, r)
  BY <1>4, <1>5, <1>6
<1>8. UNCHANGED <<red, pipes, ledger, full, only, host, onbox>>
  BY DEF Proof!Reuses, Proof!counters
<1> HIDE DEF r
<1>9. recs' \in Seq(Entries) /\ \A n \in DOMAIN recs' : (\E l \in DOMAIN recs : recs'[n] = recs[l]) \/ EntryFits(pipes', recs'[n])
  <2>1. recs' = Append(recs, r)
    BY <1>2 DEF r
  <2>2. recs' \in Seq(Entries) /\ \A n \in DOMAIN recs' : (\E l \in DOMAIN recs : recs'[n] = recs[l]) \/ recs'[n] = r
    BY <1>4, <1>7, <2>1
  <2>3. QED BY <1>7, <1>8, <2>2
<1> DEFINE x == [Proof!Bare(t, "answered") EXCEPT !.asks = @ + 1]
<1>10. Holdless(x, "answered") /\ ask' = [ask EXCEPT ![t] = x]
  BY <1>1, BareIsHoldless DEF Proof!Reuses, Proof!More, Bares
<1>11. ask[t].at = "idle"
  BY DEF Proof!Reuses, Proof!At
<1> HIDE DEF x
<1>12. x.at \notin OnTheBox /\ ask[t].at \notin OnTheBox /\ ask[t].at \in Bares /\ "answered" \in Bares
  BY <1>10, <1>11 DEF Holdless, OnTheBox, Bares
<1>13. Later(pipes, pipes')
  BY <1>1, <1>8, SamePipes
<1>14. QED BY <1>8, <1>9, <1>10, <1>12, <1>13, BareHolds, ThreadFrees

LEMMA BlockedKeeps == ASSUME ProofInv, NEW t \in Asker, Proof!At(t, "idle"), Proof!Blocked(t) PROVE ProofInv'
<1>1. ProofTyped /\ ask[t].at = "idle"
  BY DEF ProofInv, Proof!At
<1>2. UNCHANGED <<red, pipes, recs, ledger, full, only, host, onbox>>
  BY DEF Proof!Blocked, Proof!counters
<1> DEFINE x == [Proof!Bare(t, "idle") EXCEPT !.asks = @ + 1]
<1>3. Holdless(x, "idle") /\ ask' = [ask EXCEPT ![t] = x]
  BY <1>1, BareIsHoldless DEF Proof!Blocked, Proof!More, Bares
<1> HIDE DEF x
<1>4. x.at \notin OnTheBox /\ ask[t].at \notin OnTheBox /\ ask[t].at \in Bares /\ "idle" \in Bares
  BY <1>1, <1>3 DEF Holdless, OnTheBox, Bares
<1>5. Later(pipes, pipes')
  BY <1>1, <1>2, SamePipes
<1>6. recs' \in Seq(Entries) /\ \A k \in DOMAIN recs' : (\E l \in DOMAIN recs : recs'[k] = recs[l]) \/ EntryFits(pipes', recs'[k])
  BY <1>1, <1>2, SameRecs
<1>7. QED BY <1>2, <1>3, <1>4, <1>5, <1>6, BareHolds, ThreadFrees

LEMMA BoxedKeeps == ASSUME ProofInv, NEW t \in Asker, Proof!Boxed(t) PROVE ProofInv'
<1>1. ProofTyped /\ ask[t].at = "idle"
  BY DEF ProofInv, Proof!Boxed, Proof!Routed, Proof!At
<1>2. UNCHANGED <<red, pipes, recs, ledger, full, only, host>> /\ onbox' = onbox + 1
  BY DEF Proof!Boxed
<1> DEFINE x == [Proof!Bare(t, "box") EXCEPT !.asks = @ + 1]
<1>3. Holdless(x, "box") /\ ask' = [ask EXCEPT ![t] = x]
  BY <1>1, BareIsHoldless DEF Proof!Boxed, Proof!More, Bares
<1> HIDE DEF x
<1>4. x.at \in OnTheBox /\ ask[t].at \notin OnTheBox /\ ask[t].at \in Bares /\ "box" \in Bares
  BY <1>1, <1>3 DEF Holdless, OnTheBox, Bares
<1>5. Later(pipes, pipes')
  BY <1>1, <1>2, SamePipes
<1>6. recs' \in Seq(Entries) /\ \A k \in DOMAIN recs' : (\E l \in DOMAIN recs : recs'[k] = recs[l]) \/ EntryFits(pipes', recs'[k])
  BY <1>1, <1>2, SameRecs
<1>7. QED BY <1>2, <1>3, <1>4, <1>5, <1>6, BareHolds, ThreadFrees

(* The pipeline to adopt is one that was triggered.                        *)
LEMMA PriorsFit ==
  ASSUME ProofInv, NEW s, NEW p0 \in Proof!TriggeredPipeline(s)
  PROVE  p0 \in Priors /\ p0.pipe <= Len(pipes)
<1>1. recs \in Seq(Entries) /\ ledger \in Seq(Priors) /\ Len(pipes) \in Nat
  BY DEF ProofInv, ProofTyped
<1>2. \A k \in DOMAIN recs : recs[k] \in Entries /\ recs[k].pipe <= Len(pipes)
  BY <1>1 DEF ProofInv, ProofFits, EntryFits
<1>3. \A k \in DOMAIN ledger : ledger[k] \in Priors /\ ledger[k].pipe <= Len(pipes)
  BY <1>1 DEF ProofInv, ProofFits
<1>4. ASSUME NEW k \in DOMAIN recs, p0 = [pipe |-> recs[k].pipe, only |-> recs[k].only]
      PROVE  p0 \in Priors /\ p0.pipe <= Len(pipes)
  <2>1. recs[k].pipe \in Nat /\ recs[k].only \in ProofScopes
    BY <1>2 DEF Entries
  <2>2. QED BY <1>2, <1>4, <2>1 DEF Priors
<1>5. ASSUME NEW k \in DOMAIN ledger, p0 = [pipe |-> ledger[k].pipe, only |-> ledger[k].only]
      PROVE  p0 \in Priors /\ p0.pipe <= Len(pipes)
  <2>1. ledger[k].pipe \in Nat /\ ledger[k].only \in ProofScopes
    BY <1>3 DEF Priors
  <2>2. QED BY <1>3, <1>5, <2>1 DEF Priors
<1>6. CASE p0 \in Proof!Best(recs, Proof!Unanswered(s), s)
  <2>1. \E k \in DOMAIN recs : p0 = [pipe |-> recs[k].pipe, only |-> recs[k].only]
    BY <1>6 DEF Proof!Best, Proof!Newest, Proof!Unanswered
  <2>2. QED BY <1>4, <2>1
<1>7. CASE p0 \in Proof!Best(ledger, Proof!LedgerOpen(s), s)
  <2>1. \E k \in DOMAIN ledger : p0 = [pipe |-> ledger[k].pipe, only |-> ledger[k].only]
    BY <1>7 DEF Proof!Best, Proof!Newest, Proof!LedgerOpen
  <2>2. QED BY <1>5, <2>1
<1>8. CASE p0 = Proof!NoPrior
  BY <1>1, <1>8, ScopeFacts DEF Proof!NoPrior, Priors
<1>9. QED BY <1>6, <1>7, <1>8 DEF Proof!TriggeredPipeline

LEMMA LedgerStays ==
  ASSUME ProofInv, UNCHANGED <<ledger, pipes>>
  PROVE  ledger' \in Seq(Priors) /\ \A k \in DOMAIN ledger' : ledger'[k].pipe <= Len(pipes')
BY DEF ProofInv, ProofTyped, ProofFits

LEMMA ThreadKnown ==
  ASSUME ProofInv, NEW t \in Asker
  PROVE  ask[t] \in Threads /\ ThreadFits(pipes, t, ask[t])
BY DEF ProofInv, ProofTyped, ProofFits

Looked(y, s, chosen, p0) == [y EXCEPT !.at = "slot", !.only = s, !.host = chosen, !.prior = p0, !.asks = y.asks + 1]

LEMMA LooksKeeps == ASSUME ProofInv, NEW t \in Asker, Proof!Looks(t) PROVE ProofInv'
<1> DEFINE s == IF Wants[t] = "plain" THEN <<"targeted", t>> ELSE Proof!Scope(t)
<1>1. PICK p0 \in Proof!TriggeredPipeline(s), chosen \in IF s = Proof!Whole THEN Proof!LeastLoaded ELSE {0} :
        /\ ask' = [ask EXCEPT ![t] = [ask[t] EXCEPT !.at = "slot", !.only = s, !.host = chosen, !.prior = p0, !.asks = ask[t].asks + 1]]
        /\ host' = [k \in Host |-> IF k = chosen THEN host[k] + 1 ELSE host[k]]
  BY DEF Proof!Looks
<1>2. ProofTyped /\ ProofFits /\ SlotsHeld /\ BoxesHeld /\ HostsHeld /\ ask[t].at = "idle"
  BY DEF ProofInv, Proof!Looks, Proof!Routed, Proof!At
<1>3. UNCHANGED <<red, pipes, recs, ledger, full, only, onbox>>
  BY DEF Proof!Looks
<1>4. ask[t] \in Threads /\ ~ask[t].slot /\ ask[t].host = 0 /\ ask[t].pipe = 0
  BY <1>2, ThreadKnown DEF ThreadFits, Bares
<1>5. s \in ProofScopes /\ (s # Proof!Whole => s \in {<<"twin", t>>, <<"targeted", t>>}) /\ (Wants[t] = "plain" => s # Proof!Whole)
  BY ScopeFacts DEF Proof!Scope
<1>6. p0 \in Priors /\ p0.pipe <= Len(pipes)
  BY PriorsFit
<1>7. chosen \in Host \cup {0} /\ (s # Proof!Whole => chosen = 0)
  BY DEF Proof!LeastLoaded
<1> HIDE DEF s
<1> DEFINE x == Looked(ask[t], s, chosen, p0)
<1>8. x \in Threads /\ x.at = "slot" /\ x.only = s /\ x.host = chosen /\ x.prior = p0 /\ x.slot = ask[t].slot /\ x.pipe = ask[t].pipe
  <2>1. ask[t].asks + 1 \in Nat
    BY <1>4 DEF Threads
  <2>2. \A y \in Threads, n \in Nat :
          [y EXCEPT !.at = "slot", !.only = s, !.host = chosen, !.prior = p0, !.asks = n] \in Threads
    BY <1>5, <1>6, <1>7 DEF Threads
  <2>3. x \in Threads
    BY <1>4, <2>1, <2>2 DEF Looked
  <2>4. QED BY <1>4, <2>3 DEF Threads, Looked
<1>9. ask' = [ask EXCEPT ![t] = x]
  BY <1>1 DEF Looked
<1> HIDE DEF x
<1>10. ThreadFits(pipes, t, x)
  <2>1. x.pipe <= Len(pipes)
    BY <1>2, <1>4, <1>8, ThreadKnown DEF ThreadFits
  <2>2. QED BY <1>4, <1>5, <1>6, <1>7, <1>8, <2>1 DEF ThreadFits, Bares
<1>11. ProofTyped' /\ ProofFits'
  BY <1>2, <1>3, <1>8, <1>9, <1>10, SamePipes, SameRecs, LedgerStays, ThreadMoves
<1>12. SlotsHeld'
  BY <1>2, <1>3, <1>4, <1>8, <1>9, SlotsStay
<1>13. BoxesHeld'
  <2>1. x.at \notin OnTheBox /\ ask[t].at \notin OnTheBox
    BY <1>2, <1>8 DEF OnTheBox
  <2>2. QED BY <1>2, <1>3, <1>9, <2>1, BoxesMove
<1>14. HostsHeld'
  <2>1. \A k \in Host : host'[k] = IF k = x.host THEN host[k] + 1 ELSE host[k]
    BY <1>1, <1>8
  <2>2. QED BY <1>2, <1>4, <1>9, <2>1, HostsMove
<1>15. QED BY <1>11, <1>12, <1>13, <1>14 DEF ProofInv

LEMMA AdoptsKeeps == ASSUME ProofInv, NEW t \in Asker, Proof!Adopts(t) PROVE ProofInv'
<1>1. ProofTyped /\ ProofFits /\ SlotsHeld /\ BoxesHeld /\ HostsHeld /\ ask[t].at = "slot" /\ ask[t].prior.pipe # 0
  BY DEF ProofInv, Proof!Adopts, Proof!At
<1>2. UNCHANGED <<red, pipes, recs, ledger, full, only, host, onbox>>
  BY DEF Proof!Adopts, Proof!counters
<1>3. ask[t] \in Threads /\ ThreadFits(pipes, t, ask[t])
  BY ThreadKnown
<1>4. ask[t].prior.pipe \in Nat
  BY <1>3 DEF Threads, Priors
<1> DEFINE x == [ask[t] EXCEPT !.at = "poll", !.pipe = ask[t].prior.pipe]
<1>5. ask' = [ask EXCEPT ![t] = x]
  BY DEF Proof!Adopts
<1>6. x \in Threads /\ x.at = "poll" /\ x.pipe = ask[t].prior.pipe /\ x.prior = ask[t].prior /\ x.only = ask[t].only
      /\ x.slot = ask[t].slot /\ x.host = ask[t].host
  BY <1>3, <1>4 DEF Threads
<1> HIDE DEF x
<1>7. ThreadFits(pipes, t, x)
  BY <1>1, <1>3, <1>6 DEF ThreadFits, Bares
<1>8. ProofTyped' /\ ProofFits'
  BY <1>1, <1>2, <1>5, <1>6, <1>7, SamePipes, SameRecs, LedgerStays, ThreadMoves
<1>9. SlotsHeld'
  BY <1>1, <1>2, <1>5, <1>6, SlotsStay
<1>10. BoxesHeld'
  <2>1. x.at \notin OnTheBox /\ ask[t].at \notin OnTheBox
    BY <1>1, <1>6 DEF OnTheBox
  <2>2. QED BY <1>1, <1>2, <1>5, <2>1, BoxesMove
<1>11. HostsHeld'
  BY <1>1, <1>2, <1>5, <1>6, HostsStay
<1>12. QED BY <1>8, <1>9, <1>10, <1>11 DEF ProofInv

LEMMA TakesSlotKeeps == ASSUME ProofInv, NEW t \in Asker, Proof!TakesSlot(t) PROVE ProofInv'
<1>1. ProofTyped /\ ProofFits /\ SlotsHeld /\ BoxesHeld /\ HostsHeld /\ ask[t].at = "slot"
  BY DEF ProofInv, Proof!TakesSlot, Proof!At
<1>2. UNCHANGED <<red, pipes, recs, ledger, host, onbox>>
  BY DEF Proof!TakesSlot
<1>3. ask[t] \in Threads /\ ThreadFits(pipes, t, ask[t])
  BY ThreadKnown
<1> DEFINE x == [ask[t] EXCEPT !.at = "trigger", !.slot = TRUE]
<1>4. ask' = [ask EXCEPT ![t] = x]
  BY DEF Proof!TakesSlot
<1>5. x \in Threads /\ x.at = "trigger" /\ x.slot /\ x.pipe = ask[t].pipe /\ x.prior = ask[t].prior /\ x.only = ask[t].only
      /\ x.host = ask[t].host
  BY <1>3 DEF Threads
<1> HIDE DEF x
<1>6. ThreadFits(pipes, t, x) /\ ~ask[t].slot
  BY <1>1, <1>3, <1>5 DEF ThreadFits, Bares
<1>7. ProofTyped' /\ ProofFits'
  BY <1>1, <1>2, <1>4, <1>5, <1>6, SamePipes, SameRecs, LedgerStays, ThreadMoves
<1>8. SlotsHeld'
  <2>1. Proof!HasRoom(t) /\ IF ask[t].only = Proof!Whole THEN full' = full + 1 /\ UNCHANGED only ELSE only' = only + 1 /\ UNCHANGED full
    BY DEF Proof!TakesSlot
  <2>2. QED BY <1>1, <1>4, <1>5, <1>6, <2>1, SlotsTaken
<1>9. BoxesHeld'
  <2>1. x.at \notin OnTheBox /\ ask[t].at \notin OnTheBox
    BY <1>1, <1>5 DEF OnTheBox
  <2>2. QED BY <1>1, <1>2, <1>4, <2>1, BoxesMove
<1>10. HostsHeld'
  BY <1>1, <1>2, <1>4, <1>5, HostsStay
<1>11. QED BY <1>7, <1>8, <1>9, <1>10 DEF ProofInv

(* The cap holds, the trigger is refused, or it fails: all is given back.  *)
LEMMA GivenBackKeeps ==
  ASSUME ProofInv, NEW t \in Asker, ask[t].at \notin OnTheBox, Proof!Released(t), Proof!Ends(t, "idle"),
         UNCHANGED <<red, pipes, recs, ledger>>
  PROVE  ProofInv'
<1>1. ProofTyped /\ onbox' = onbox
  BY ReleasedMeans DEF ProofInv
<1> DEFINE x == Proof!Bare(t, "idle")
<1>2. Holdless(x, "idle") /\ ask' = [ask EXCEPT ![t] = x]
  BY <1>1, BareIsHoldless DEF Proof!Ends, Bares
<1> HIDE DEF x
<1>3. x.at \notin OnTheBox /\ "idle" \in Bares
  BY <1>2 DEF Holdless, OnTheBox, Bares
<1>4. QED BY <1>1, <1>2, <1>3, SamePipes, SameRecs, ReleasedMeans, ThreadFrees

LEMMA TriggersKeeps == ASSUME ProofInv, NEW t \in Asker, Proof!Triggers(t) PROVE ProofInv'
<1>1. ProofTyped /\ ProofFits /\ SlotsHeld /\ BoxesHeld /\ HostsHeld /\ ask[t].at = "trigger"
  BY DEF ProofInv, Proof!Triggers, Proof!At
<1>2. UNCHANGED <<red, recs, ledger, full, only, host, onbox>>
  BY DEF Proof!Triggers, Proof!counters
<1>3. ask[t] \in Threads /\ ThreadFits(pipes, t, ask[t]) /\ Len(pipes) \in Nat /\ Len(pipes) + 1 \in Nat
  BY <1>1, ThreadKnown DEF ProofTyped
<1> DEFINE p0 == [at |-> "running", only |-> ask[t].only, reds |-> {}, infra |-> FALSE, empty |-> FALSE]
<1>4. p0 \in Pipelines
  BY <1>3 DEF Pipelines, Threads
<1> HIDE DEF p0
<1>5. Later(pipes, pipes') /\ Len(pipes') = Len(pipes) + 1
  <2>1. pipes' = Append(pipes, p0) /\ pipes \in Seq(Pipelines)
    BY <1>1 DEF Proof!Triggers, ProofTyped, p0
  <2>2. pipes' \in Seq(Pipelines) /\ Len(pipes') = Len(pipes) + 1 /\ \A k \in 1 .. Len(pipes) : pipes'[k] = pipes[k]
    BY <1>4, <2>1, AppendProperties
  <2>3. QED BY <1>3, <2>1, <2>2 DEF Later
<1> DEFINE x == [ask[t] EXCEPT !.at = "note", !.pipe = Len(pipes) + 1]
<1>6. ask' = [ask EXCEPT ![t] = x]
  BY DEF Proof!Triggers
<1>7. x \in Threads /\ x.at = "note" /\ x.pipe = Len(pipes) + 1 /\ x.prior = ask[t].prior /\ x.only = ask[t].only
      /\ x.slot = ask[t].slot /\ x.host = ask[t].host
  BY <1>3 DEF Threads
<1> HIDE DEF x
<1>8. ThreadFits(pipes', t, x)
  <2>1. x.pipe <= Len(pipes') /\ x.pipe # 0
    BY <1>3, <1>5, <1>7
  <2>2. x.prior.pipe <= Len(pipes')
    <3>1. ask[t].prior.pipe \in Nat /\ ask[t].prior.pipe <= Len(pipes)
      BY <1>3 DEF Threads, Priors, ThreadFits
    <3>2. QED BY <1>3, <1>5, <1>7, <3>1
  <2>3. QED BY <1>1, <1>3, <1>7, <2>1, <2>2 DEF ThreadFits, Bares
<1>9. ledger' \in Seq(Priors) /\ \A k \in DOMAIN ledger' : ledger'[k].pipe <= Len(pipes')
  BY <1>2, <1>5, LedgerKept
<1>10. ProofTyped' /\ ProofFits'
  BY <1>1, <1>2, <1>5, <1>6, <1>7, <1>8, <1>9, SameRecs, ThreadMoves
<1>11. SlotsHeld'
  BY <1>1, <1>2, <1>6, <1>7, SlotsStay
<1>12. BoxesHeld'
  <2>1. x.at \notin OnTheBox /\ ask[t].at \notin OnTheBox
    BY <1>1, <1>7 DEF OnTheBox
  <2>2. QED BY <1>1, <1>2, <1>6, <2>1, BoxesMove
<1>13. HostsHeld'
  BY <1>1, <1>2, <1>6, <1>7, HostsStay
<1>14. QED BY <1>10, <1>11, <1>12, <1>13 DEF ProofInv

LEMMA NotesKeeps == ASSUME ProofInv, NEW t \in Asker, Proof!Notes(t) PROVE ProofInv'
<1>1. ProofTyped /\ ProofFits /\ SlotsHeld /\ BoxesHeld /\ HostsHeld /\ ask[t].at = "note"
  BY DEF ProofInv, Proof!Notes, Proof!At
<1>2. UNCHANGED <<red, pipes, recs, full, only, host, onbox>>
  BY DEF Proof!Notes, Proof!counters
<1>3. ask[t] \in Threads /\ ThreadFits(pipes, t, ask[t])
  BY ThreadKnown
<1> DEFINE x == [ask[t] EXCEPT !.at = "poll"]
<1>4. ask' = [ask EXCEPT ![t] = x]
  BY <1>1 DEF Proof!Notes, Proof!Goes, ProofTyped
<1>5. x \in Threads /\ x.at = "poll" /\ x.pipe = ask[t].pipe /\ x.prior = ask[t].prior /\ x.only = ask[t].only
      /\ x.slot = ask[t].slot /\ x.host = ask[t].host
  BY <1>3 DEF Threads
<1> HIDE DEF x
<1>6. ThreadFits(pipes, t, x)
  BY <1>1, <1>3, <1>5 DEF ThreadFits, Bares
<1> DEFINE e == [pipe |-> ask[t].pipe, only |-> ask[t].only]
<1>7. e \in Priors /\ e.pipe <= Len(pipes) /\ ledger' = Append(ledger, e)
  BY <1>3 DEF Priors, Threads, ThreadFits, Proof!Notes
<1> HIDE DEF e
<1>8. ledger' \in Seq(Priors) /\ \A k \in DOMAIN ledger' : ledger'[k].pipe <= Len(pipes')
  <2>1. ledger \in Seq(Priors) /\ \A k \in DOMAIN ledger : ledger[k].pipe <= Len(pipes)
    BY <1>1 DEF ProofTyped, ProofFits
  <2>2. ledger' \in Seq(Priors) /\ \A k \in DOMAIN ledger' : ledger'[k] = e \/ \E l \in DOMAIN ledger : ledger'[k] = ledger[l]
    BY <1>7, <2>1
  <2>3. QED BY <1>2, <1>7, <2>1, <2>2
<1>9. ProofTyped' /\ ProofFits'
  BY <1>1, <1>2, <1>4, <1>5, <1>6, <1>8, SamePipes, SameRecs, ThreadMoves
<1>10. SlotsHeld'
  BY <1>1, <1>2, <1>4, <1>5, SlotsStay
<1>11. BoxesHeld'
  <2>1. x.at \notin OnTheBox /\ ask[t].at \notin OnTheBox
    BY <1>1, <1>5 DEF OnTheBox
  <2>2. QED BY <1>1, <1>2, <1>4, <2>1, BoxesMove
<1>12. HostsHeld'
  BY <1>1, <1>2, <1>4, <1>5, HostsStay
<1>13. QED BY <1>9, <1>10, <1>11, <1>12 DEF ProofInv
-----------------------------------------------------------------------------
(* What a poll ends with.                                                  *)
LEMMA PolledPipe ==
  ASSUME ProofInv, NEW t \in Asker, ask[t].at \in {"poll", "rerun"}
  PROVE  /\ ask[t].pipe \in 1 .. Len(pipes) /\ ask[t].pipe \in DOMAIN pipes /\ Proof!Of(t) \in Pipelines
         /\ ask[t].pipe # 0 /\ ask[t].pipe <= Len(pipes)
<1>1. ask[t] \in Threads /\ ThreadFits(pipes, t, ask[t]) /\ pipes \in Seq(Pipelines) /\ Len(pipes) \in Nat
  BY ThreadKnown DEF ProofInv, ProofTyped
<1>2. ask[t].pipe \in Nat /\ ask[t].pipe # 0 /\ ask[t].pipe <= Len(pipes)
  BY <1>1 DEF ThreadFits, Threads
<1>3. ask[t].pipe \in 1 .. Len(pipes)
  BY <1>1, <1>2
<1>4. QED BY <1>1, <1>2, <1>3 DEF Proof!Of

(* The files that fail for the ask are at least those of its own row.      *)
LEMMA FailedOwn ==
  ASSUME ProofInv, NEW t \in Asker
  PROVE  FilesOf[t] \cap Proof!Of(t).reds \subseteq Proof!Failed(t)
<1>1. ThreadFits(pipes, t, ask[t]) /\ FilesOf[t] \subseteq File
  BY ThreadKnown, ProofConstants
<1>2. CASE ask[t].only = Proof!Whole
  BY <1>1, <1>2 DEF Proof!Failed, Proof!Runs
<1>3. CASE ask[t].only # Proof!Whole
  <2>1. ask[t].only[2] = t
    BY <1>1, <1>3 DEF ThreadFits
  <2>2. QED BY <1>3, <2>1 DEF Proof!Failed, Proof!Runs
<1>4. QED BY <1>2, <1>3

LEMMA StatusMeans ==
  ASSUME ProofInv, NEW t \in Asker, ask[t].at = "poll", Proof!Of(t).at # "running"
  PROVE  /\ Proof!Status(t) \in Statuses
         /\ Proof!Status(t) = "PASS" => Proof!Of(t).at = "done" /\ FilesOf[t] \cap Proof!Of(t).reds \cap red = {}
         /\ Proof!Status(t) = "FAIL_PRODUCT" => Proof!Of(t).at = "done"
<1>1. Proof!Of(t).at \in {"done", "cancelled"}
  BY PolledPipe DEF Pipelines
<1>2. /\ Proof!Class(t) \in Statuses
      /\ Proof!Class(t) \in {"PASS", "FAIL_PRODUCT"} => Proof!Of(t).at = "done"
      /\ Proof!Class(t) = "PASS" => Proof!Of(t).reds = {}
  BY <1>1 DEF Proof!Class, Statuses
<1>3. Proof!Failed(t) = {} => FilesOf[t] \cap Proof!Of(t).reds \cap red = {}
  BY FailedOwn
<1>4. QED BY <1>2, <1>3 DEF Proof!Status, Statuses

LEMMA NotAPass ==
  ASSUME ProofInv, Later(pipes, pipes'), NEW t \in Asker, NEW r, r.pipe = ask[t].pipe, r.status # "PASS"
  PROVE  EntryFits(pipes', r)
<1>1. ask[t].pipe \in Nat /\ ask[t].pipe <= Len(pipes)
  BY ThreadKnown DEF Threads, ThreadFits
<1>2. Len(pipes) \in Nat /\ Len(pipes') \in Nat /\ Len(pipes) <= Len(pipes')
  BY DEF Later
<1>3. ask[t].pipe <= Len(pipes')
  BY <1>1, <1>2, AtMost
<1>4. QED BY <1>3 DEF EntryFits

LEMMA PollAbortedKeeps == ASSUME ProofInv, NEW t \in Asker, Proof!PollAborted(t) PROVE ProofInv'
<1>1. ProofTyped /\ ask[t].at = "poll" /\ ask[t].at \notin OnTheBox
  BY DEF ProofInv, Proof!PollAborted, Proof!At, OnTheBox
<1>2. ask[t].pipe \in 1 .. Len(pipes) /\ pipes[ask[t].pipe] \in Pipelines
  BY <1>1, PolledPipe DEF Proof!Of
<1>3. Later(pipes, pipes')
  <2> DEFINE p0 == [pipes[ask[t].pipe] EXCEPT !.at = "cancelled"]
  <2>1. p0 \in Pipelines
    BY <1>2 DEF Pipelines
  <2>2. pipes' = [pipes EXCEPT ![ask[t].pipe] = p0] /\ pipes[ask[t].pipe].at # "done" /\ pipes \in Seq(Pipelines)
    BY <1>1 DEF Proof!PollAborted, ProofTyped
  <2> HIDE DEF p0
  <2>3. pipes' \in Seq(Pipelines) /\ Len(pipes') = Len(pipes)
    BY <1>2, <2>1, <2>2
  <2>4. \A k \in 1 .. Len(pipes) : k # ask[t].pipe => pipes'[k] = pipes[k]
    BY <1>2, <2>2
  <2>5. Len(pipes) \in Nat
    BY <2>2
  <2>6. QED BY <2>2, <2>3, <2>4, <2>5 DEF Later
<1>4. Proof!Rec(t, "CANCELLED") \in Entries
  BY <1>1, RecIsEntry DEF Statuses
<1>5. EntryFits(pipes', Proof!Rec(t, "CANCELLED"))
  BY <1>3, NotAPass, RecFields
<1>6. red' = red /\ ledger' = ledger /\ Proof!Closes(t, Proof!Rec(t, "CANCELLED"))
  BY DEF Proof!PollAborted
<1>7. QED BY <1>1, <1>3, <1>4, <1>5, <1>6, ClosesKeeps

LEMMA PollDiesKeeps == ASSUME ProofInv, NEW t \in Asker, Proof!PollDies(t) PROVE ProofInv'
<1>1. ProofTyped /\ ask[t].at = "poll" /\ ask[t].at \notin OnTheBox
  BY DEF ProofInv, Proof!PollDies, Proof!At, OnTheBox
<1>2. red' = red /\ ledger' = ledger /\ pipes' = pipes /\ Proof!Closes(t, Proof!Rec(t, "UNKNOWN"))
  BY DEF Proof!PollDies
<1>3. Later(pipes, pipes')
  BY <1>1, <1>2, SamePipes
<1>4. Proof!Rec(t, "UNKNOWN") \in Entries
  BY <1>1, RecIsEntry DEF Statuses
<1>5. EntryFits(pipes', Proof!Rec(t, "UNKNOWN"))
  BY <1>3, NotAPass, RecFields
<1>6. QED BY <1>1, <1>2, <1>3, <1>4, <1>5, ClosesKeeps

(* A judgement that passes fits when the pipeline is done and the row's    *)
(* own files that it showed red are not.                                   *)
LEMMA JudgementFits ==
  ASSUME ProofInv, pipes' = pipes, NEW t \in Asker, ask[t].at \in {"poll", "rerun"}, NEW status \in Statuses,
         status = "PASS" => Proof!Of(t).at = "done" /\ FilesOf[t] \cap Proof!Of(t).reds \cap red = {}
  PROVE  Proof!Judgement(t, status) \in Entries /\ EntryFits(pipes', Proof!Judgement(t, status))
<1>1. Proof!Judgement(t, status) \in Entries
  BY RecIsEntry DEF ProofInv
<1>2. Proof!Judgement(t, status).pid = t /\ Proof!Judgement(t, status).pipe = ask[t].pipe /\ Proof!Judgement(t, status).status = status
  BY RecFields
<1>3. ask[t].pipe <= Len(pipes)
  BY PolledPipe
<1>4. QED BY <1>1, <1>2, <1>3 DEF EntryFits, Proof!Of

LEMMA JudgesKeeps == ASSUME ProofInv, NEW t \in Asker, Proof!Judges(t) PROVE ProofInv'
<1>1. ProofTyped /\ ProofFits /\ SlotsHeld /\ BoxesHeld /\ HostsHeld /\ ask[t].at = "poll" /\ ask[t].at \notin OnTheBox
  BY DEF ProofInv, Proof!Judges, Proof!At, OnTheBox
<1>2. UNCHANGED <<red, pipes, ledger>> /\ Proof!Of(t).at # "running"
  BY DEF Proof!Judges
<1>3. ask[t] \in Threads /\ ThreadFits(pipes, t, ask[t]) /\ Later(pipes, pipes')
  BY <1>1, <1>2, ThreadKnown, SamePipes
<1>4. CASE Proof!Status(t) = "FAIL_PRODUCT" /\ Proof!Again(t) # {}
  <2> DEFINE x == [ask[t] EXCEPT !.at = "rerun"]
  <2>1. ask' = [ask EXCEPT ![t] = x]
    BY <1>1, <1>4 DEF Proof!Judges, Proof!Goes, ProofTyped
  <2>2. UNCHANGED <<recs, full, only, host>> /\ onbox' = onbox + 1
    BY <1>4 DEF Proof!Judges
  <2>3. x \in Threads /\ x.at = "rerun" /\ x.pipe = ask[t].pipe /\ x.prior = ask[t].prior /\ x.only = ask[t].only
        /\ x.slot = ask[t].slot /\ x.host = ask[t].host
    BY <1>3 DEF Threads
  <2> HIDE DEF x
  <2>4. pipes[ask[t].pipe].at = "done"
    BY <1>1, <1>2, <1>4, StatusMeans DEF Proof!Of
  <2>5. ThreadFits(pipes, t, x)
    BY <1>1, <1>3, <2>3, <2>4 DEF ThreadFits, Bares
  <2>6. ProofTyped' /\ ProofFits'
    BY <1>1, <1>2, <1>3, <2>1, <2>2, <2>3, <2>5, SameRecs, LedgerStays, ThreadMoves
  <2>7. SlotsHeld'
    BY <1>1, <2>1, <2>2, <2>3, SlotsStay
  <2>8. BoxesHeld'
    <3>1. x.at \in OnTheBox
      BY <2>3 DEF OnTheBox
    <3>2. QED BY <1>1, <2>1, <2>2, <3>1, BoxesMove
  <2>9. HostsHeld'
    BY <1>1, <2>1, <2>2, <2>3, HostsStay
  <2>10. QED BY <2>6, <2>7, <2>8, <2>9 DEF ProofInv
<1>5. CASE ~(Proof!Status(t) = "FAIL_PRODUCT" /\ Proof!Again(t) # {})
  <2> DEFINE r == Proof!Judgement(t, Proof!Status(t))
  <2>1. r \in Entries /\ EntryFits(pipes', r)
    BY <1>1, <1>2, StatusMeans, JudgementFits
  <2>2. IF r.status = "FAIL_INFRA" /\ Wants[t] = "plain" /\ ~off
        THEN /\ Proof!Written(r) /\ onbox' = onbox + 1 /\ Proof!Ends(t, "box")
             /\ full' = full /\ only' = (IF ask[t].slot THEN only - 1 ELSE only) /\ host' = host
        ELSE Proof!Closes(t, r)
    BY <1>5 DEF Proof!Judges
  <2> HIDE DEF r
  <2>3. CASE r.status = "FAIL_INFRA" /\ Wants[t] = "plain" /\ ~off
    <3> DEFINE x == Proof!Bare(t, "box")
    <3>1. Holdless(x, "box") /\ ask' = [ask EXCEPT ![t] = x]
      BY <1>1, <2>2, <2>3, BareIsHoldless DEF Proof!Ends, Bares
    <3> HIDE DEF x
    <3>2. recs' \in Seq(Entries) /\ \A k \in DOMAIN recs' : (\E l \in DOMAIN recs : recs'[k] = recs[l]) \/ EntryFits(pipes', recs'[k])
      <4>1. recs' \in Seq(Entries) /\ \A k \in DOMAIN recs' : (\E l \in DOMAIN recs : recs'[k] = recs[l]) \/ recs'[k] = r
        BY <1>1, <2>1, <2>2, <2>3, WrittenFits
      <4>2. QED BY <2>1, <4>1
    <3>3. ask[t].only # Proof!Whole /\ ask[t].host = 0
      BY <1>1, <1>3, <2>3 DEF ThreadFits, Bares
    <3>4. /\ full' = IF ask[t].slot /\ ask[t].only = Proof!Whole THEN full - 1 ELSE full
          /\ only' = IF ask[t].slot /\ ask[t].only # Proof!Whole THEN only - 1 ELSE only
      BY <2>2, <2>3, <3>3
    <3>5. \A k \in Host : host'[k] = IF k = ask[t].host THEN host[k] - 1 ELSE host[k]
      BY <2>2, <2>3, <3>3, ProofConstants
    <3>6. x.at \in OnTheBox /\ "box" \in Bares /\ onbox' = onbox + 1
      BY <2>2, <2>3, <3>1 DEF Holdless, OnTheBox, Bares
    <3>7. QED BY <1>1, <1>2, <1>3, <3>1, <3>2, <3>4, <3>5, <3>6, ThreadFrees
  <2>4. CASE ~(r.status = "FAIL_INFRA" /\ Wants[t] = "plain" /\ ~off)
    BY <1>1, <1>2, <1>3, <2>1, <2>2, <2>4, ClosesKeeps
  <2>5. QED BY <2>3, <2>4
<1>6. QED BY <1>4, <1>5

(* Green on the box: none of what failed is red.                           *)
LEMMA RerunsKeeps == ASSUME ProofInv, NEW t \in Asker, Proof!Reruns(t) PROVE ProofInv'
<1>1. ProofTyped /\ ask[t].at = "rerun"
  BY DEF ProofInv, Proof!Reruns, Proof!At
<1>2. UNCHANGED <<red, pipes, ledger>>
  BY DEF Proof!Reruns
<1>3. ask[t] \in Threads /\ ThreadFits(pipes, t, ask[t]) /\ Later(pipes, pipes')
  BY <1>1, <1>2, ThreadKnown, SamePipes
<1>4. PICK still \in {Proof!Again(t) \cap red, Proof!Again(t)} :
        LET r == Proof!Judgement(t, IF Proof!Pardoned(t, still) THEN "PASS" ELSE "FAIL_PRODUCT") IN
        /\ Proof!Written(r) /\ Proof!Rests(t, r)
        /\ full' = IF ask[t].slot /\ ask[t].only = Proof!Whole THEN full - 1 ELSE full
        /\ only' = IF ask[t].slot /\ ask[t].only # Proof!Whole THEN only - 1 ELSE only
        /\ host' = [k \in Host |-> IF k = ask[t].host THEN host[k] - 1 ELSE host[k]]
        /\ onbox' = onbox - 1
  BY DEF Proof!Reruns
<1> DEFINE status == IF Proof!Pardoned(t, still) THEN "PASS" ELSE "FAIL_PRODUCT"  r == Proof!Judgement(t, status)
<1>5. status \in Statuses /\ (status = "PASS" => Proof!Of(t).at = "done" /\ FilesOf[t] \cap Proof!Of(t).reds \cap red = {})
  <2>1. Proof!Of(t).at = "done"
    BY <1>1, <1>3 DEF ThreadFits, Proof!Of
  <2>2. ASSUME Proof!Pardoned(t, still) PROVE FilesOf[t] \cap Proof!Of(t).reds \cap red = {}
    <3>1. Proof!Failed(t) \cap Touched[t] = {} /\ (Proof!Failed(t) \ Touched[t]) \cap red = {}
      BY <1>4, <2>2 DEF Proof!Pardoned, Proof!Blocking, Proof!Again
    <3>2. QED BY <3>1, FailedOwn
  <2>3. QED BY <2>1, <2>2 DEF Statuses
<1>6. Proof!Written(r) /\ Proof!Rests(t, r) /\ onbox' = onbox - 1
  BY <1>4
<1> HIDE DEF status, r
<1>7. r \in Entries /\ EntryFits(pipes', r)
  BY <1>1, <1>2, <1>5, JudgementFits DEF r
<1>8. PICK at \in {"idle", "answered"} : Holdless(Proof!Bare(t, at), at) /\ ask' = [ask EXCEPT ![t] = Proof!Bare(t, at)]
  BY <1>1, <1>6, RestsHoldless
<1>9. recs' \in Seq(Entries) /\ \A k \in DOMAIN recs' : (\E l \in DOMAIN recs : recs'[k] = recs[l]) \/ EntryFits(pipes', recs'[k])
  <2>1. recs' \in Seq(Entries) /\ \A k \in DOMAIN recs' : (\E l \in DOMAIN recs : recs'[k] = recs[l]) \/ recs'[k] = r
    BY <1>1, <1>6, <1>7, WrittenFits
  <2>2. QED BY <1>7, <2>1
<1>10. at \in Bares /\ Proof!Bare(t, at).at \notin OnTheBox /\ ask[t].at \in OnTheBox
  BY <1>1, <1>8 DEF Holdless, Bares, OnTheBox
<1>11. /\ full' = IF ask[t].slot /\ ask[t].only = Proof!Whole THEN full - 1 ELSE full
       /\ only' = IF ask[t].slot /\ ask[t].only # Proof!Whole THEN only - 1 ELSE only
       /\ \A k \in Host : host'[k] = IF k = ask[t].host THEN host[k] - 1 ELSE host[k]
  BY <1>4
<1>12. QED BY <1>2, <1>3, <1>6, <1>8, <1>9, <1>10, <1>11, ThreadFrees

LEMMA BoxEndsKeeps == ASSUME ProofInv, NEW t \in Asker, Proof!BoxEnds(t) PROVE ProofInv'
<1>1. ProofTyped /\ ask[t].at = "box" /\ ask[t].at \in Bares /\ ask[t].at \in OnTheBox
  BY DEF ProofInv, Proof!BoxEnds, Proof!At, Bares, OnTheBox
<1>2. UNCHANGED <<red, pipes, ledger, full, only, host>> /\ onbox' = onbox - 1
  BY DEF Proof!BoxEnds
<1>3. Later(pipes, pipes') /\ ask[t].pipe = 0 /\ Len(pipes) \in Nat
  BY <1>1, <1>2, ThreadKnown, SamePipes DEF ThreadFits, ProofTyped
<1>4. \E at \in {"idle", "answered"} :
         Holdless(Proof!Bare(t, at), at) /\ ask' = [ask EXCEPT ![t] = Proof!Bare(t, at)]
  BY <1>1, RestsHoldless, BareIsHoldless DEF Proof!BoxEnds, Proof!Ends, Bares
<1>5. recs' \in Seq(Entries) /\ \A k \in DOMAIN recs' : (\E l \in DOMAIN recs : recs'[k] = recs[l]) \/ EntryFits(pipes', recs'[k])
  <2>1. CASE recs' = recs
    BY <1>1, <2>1, SameRecs
  <2>2. CASE recs' # recs
    <3> DEFINE status == IF FilesOf[t] \cap red = {} THEN "PASS" ELSE "FAIL_PRODUCT"
               r == [Proof!Rec(t, status) EXCEPT !.paths = Proof!Paths(t)]
    <3>1. Proof!Written(r) /\ status \in Statuses
      BY <2>2 DEF Proof!BoxEnds, Statuses
    <3> HIDE DEF status
    <3>2. r \in Entries /\ r.pipe = 0
      BY <1>1, <1>3, <3>1, RecIsEntry DEF Proof!Rec
    <3> HIDE DEF r
    <3>3. EntryFits(pipes', r)
      BY <1>2, <1>3, <3>2 DEF EntryFits
    <3>4. recs' \in Seq(Entries) /\ \A k \in DOMAIN recs' : (\E l \in DOMAIN recs : recs'[k] = recs[l]) \/ recs'[k] = r
      BY <1>1, <3>1, <3>2, WrittenFits
    <3>5. QED BY <3>3, <3>4
  <2>3. QED BY <2>1, <2>2
<1>6. PICK at \in {"idle", "answered"} : Holdless(Proof!Bare(t, at), at) /\ ask' = [ask EXCEPT ![t] = Proof!Bare(t, at)]
  BY <1>4
<1>7. at \in Bares /\ Proof!Bare(t, at).at \notin OnTheBox
  BY <1>6 DEF Holdless, Bares, OnTheBox
<1>8. QED BY <1>1, <1>2, <1>3, <1>5, <1>6, <1>7, BareHolds, ThreadFrees

(* Nothing happens to the threads: what they hold is as it was.            *)
LEMMA HoldingStays ==
  ASSUME ProofInv, UNCHANGED <<ask, full, only, host, onbox>>
  PROVE  SlotsHeld' /\ BoxesHeld' /\ HostsHeld'
BY DEF ProofInv, SlotsHeld, BoxesHeld, HostsHeld, Proof!FullHeld, Proof!OnlyHeld, Proof!BoxHeld, Proof!HostHeld

LEMMA WorldMoves ==
  ASSUME ProofInv, Later(pipes, pipes'), UNCHANGED <<red, recs, ledger, ask, full, only, host, onbox>>
  PROVE  ProofInv'
<1>1. ProofTyped /\ ProofFits
  BY DEF ProofInv
<1>2. ProofTyped'
  BY <1>1 DEF ProofTyped, Later
<1>3. \A k \in DOMAIN recs : EntryFits(pipes', recs[k])
  <2>1. \A k \in DOMAIN recs : recs[k] \in Entries /\ EntryFits(pipes, recs[k])
    BY <1>1 DEF ProofTyped, ProofFits
  <2>2. QED BY <2>1, FitsLater
<1>4. \A k \in DOMAIN ledger' : ledger'[k].pipe <= Len(pipes')
  BY LedgerKept
<1>5. \A t \in Asker : ThreadFits(pipes', t, ask[t])
  BY ThreadKnown, FitsLater
<1>6. ProofFits'
  BY <1>3, <1>4, <1>5 DEF ProofFits, EntryFits, ThreadFits
<1>7. QED BY <1>2, <1>6, HoldingStays DEF ProofInv

LEMMA PipelineEndsKeeps == ASSUME ProofInv, NEW p0 \in DOMAIN pipes, Proof!PipelineEnds(p0) PROVE ProofInv'
<1>1. pipes \in Seq(Pipelines) /\ Len(pipes) \in Nat /\ p0 \in 1 .. Len(pipes) /\ pipes[p0] \in Pipelines /\ red \subseteq File
  BY DEF ProofInv, ProofTyped
<1>2. Proof!Runs(pipes[p0].only) \subseteq File
  <2>1. pipes[p0].only \in ProofScopes
    BY <1>1 DEF Pipelines
  <2>2. CASE pipes[p0].only = Proof!Whole
    BY <2>2 DEF Proof!Runs
  <2>3. CASE pipes[p0].only # Proof!Whole
    <3>1. pipes[p0].only[2] \in Asker
      BY <2>1, <2>3 DEF ProofScopes
    <3>2. QED BY <2>3, <3>1, ProofConstants DEF Proof!Runs
  <2>4. QED BY <2>2, <2>3
<1>3. \E y \in Pipelines : pipes' = [pipes EXCEPT ![p0] = y]
  <2>1. ASSUME NEW more \in SUBSET (Proof!Runs(pipes[p0].only) \ red),
               pipes' = [pipes EXCEPT ![p0].at = "done", ![p0].reds = (red \cap Proof!Runs(pipes[p0].only)) \cup more]
        PROVE  \E y \in Pipelines : pipes' = [pipes EXCEPT ![p0] = y]
    <3> DEFINE reds == (red \cap Proof!Runs(pipes[p0].only)) \cup more  y == [pipes[p0] EXCEPT !.at = "done", !.reds = reds]
    <3>1. reds \in SUBSET File
      BY <1>1, <1>2
    <3> HIDE DEF reds
    <3>2. y \in Pipelines
      BY <1>1, <3>1 DEF Pipelines
    <3>3. pipes' = [pipes EXCEPT ![p0] = y]
      BY <1>1, <2>1 DEF reds
    <3>4. QED BY <3>2, <3>3
  <2>2. ASSUME pipes' = [pipes EXCEPT ![p0].at = "done", ![p0].infra = TRUE]
        PROVE  \E y \in Pipelines : pipes' = [pipes EXCEPT ![p0] = y]
    <3> DEFINE y == [pipes[p0] EXCEPT !.at = "done", !.infra = TRUE]
    <3>1. y \in Pipelines
      BY <1>1 DEF Pipelines
    <3>2. pipes' = [pipes EXCEPT ![p0] = y]
      BY <1>1, <2>2
    <3>3. QED BY <3>1, <3>2
  <2>3. ASSUME pipes' = [pipes EXCEPT ![p0].at = "done", ![p0].empty = TRUE]
        PROVE  \E y \in Pipelines : pipes' = [pipes EXCEPT ![p0] = y]
    <3> DEFINE y == [pipes[p0] EXCEPT !.at = "done", !.empty = TRUE]
    <3>1. y \in Pipelines
      BY <1>1 DEF Pipelines
    <3>2. pipes' = [pipes EXCEPT ![p0] = y]
      BY <1>1, <2>3
    <3>3. QED BY <3>1, <3>2
  <2>4. QED BY <2>1, <2>2, <2>3 DEF Proof!PipelineEnds
<1>4. Later(pipes, pipes')
  <2>1. PICK y \in Pipelines : pipes' = [pipes EXCEPT ![p0] = y]
    BY <1>3
  <2>2. pipes' \in Seq(Pipelines) /\ Len(pipes') = Len(pipes)
    BY <1>1, <2>1
  <2>3. \A k \in 1 .. Len(pipes) : k # p0 => pipes'[k] = pipes[k]
    BY <1>1, <2>1
  <2>4. pipes[p0].at # "done"
    BY DEF Proof!PipelineEnds
  <2>5. QED BY <1>1, <2>2, <2>3, <2>4 DEF Later
<1>5. UNCHANGED <<red, recs, ledger, ask, full, only, host, onbox>>
  BY DEF Proof!PipelineEnds, Proof!counters
<1>6. QED BY <1>4, <1>5, WorldMoves

LEMMA CrashKeeps == ASSUME ProofInv, Proof!Crash PROVE ProofInv'
<1>1. ProofTyped /\ ProofFits
  BY DEF ProofInv
<1>2. UNCHANGED <<red, pipes, recs, ledger>> /\ full' = 0 /\ only' = 0 /\ onbox' = 0 /\ \A k \in Host : host'[k] = 0
  BY DEF Proof!Crash
<1>3. ASSUME NEW t \in Asker PROVE ask'[t] \in Threads /\ ThreadFits(pipes, t, ask'[t]) /\ ask'[t].at \in {"idle", "answered"}
  <2>1. ask'[t] = IF Proof!At(t, "answered") THEN ask[t] ELSE Proof!Bare(t, "idle")
    BY DEF Proof!Crash
  <2>2. CASE Proof!At(t, "answered")
    BY <2>1, <2>2, ThreadKnown DEF Proof!At
  <2>3. CASE ~Proof!At(t, "answered")
    <3>1. Holdless(Proof!Bare(t, "idle"), "idle") /\ ask'[t] = Proof!Bare(t, "idle")
      BY <1>1, <2>1, <2>3, BareIsHoldless DEF Bares
    <3>2. ThreadFits(pipes, t, ask'[t])
      BY <1>1, <3>1, HoldlessFits DEF ProofTyped, Bares
    <3>3. QED BY <3>1, <3>2 DEF Holdless
  <2>4. QED BY <2>2, <2>3
<1>4. ask' \in [Asker -> Threads]
  BY <1>3 DEF Proof!Crash
<1>5. ProofTyped'
  BY <1>1, <1>2, <1>4 DEF ProofTyped
<1>6. ProofFits'
  BY <1>1, <1>2, <1>3 DEF ProofFits, EntryFits, ThreadFits
<1>7. \A t \in Asker : ~ask'[t].slot /\ ask'[t].host = 0 /\ ask'[t].at \notin OnTheBox
  BY <1>3 DEF ThreadFits, Bares, OnTheBox
<1>8. Proof!FullHeld' = {} /\ Proof!OnlyHeld' = {} /\ Proof!BoxHeld' = {}
  BY <1>7 DEF Proof!FullHeld, Proof!OnlyHeld, Proof!BoxHeld, OnTheBox
<1>9. \A k \in Host : Proof!HostHeld(k)' = {}
  BY <1>7, ProofConstants DEF Proof!HostHeld
<1>10. QED BY <1>2, <1>5, <1>6, <1>8, <1>9, ProofConstants, FS_EmptySet DEF ProofInv, SlotsHeld, BoxesHeld, HostsHeld

LEMMA ProofInitInv == ASSUME Proof!Init PROVE ProofInv
<1>1. red \in SUBSET File /\ pipes = <<>> /\ recs = <<>> /\ ledger = <<>> /\ ask = [t \in Asker |-> Proof!Idle]
      /\ full = 0 /\ only = 0 /\ onbox = 0 /\ host = [k \in Host |-> 0]
  BY DEF Proof!Init, Proof!InitRest
<1>2. Holdless(Proof!Idle, "idle")
  <2>1. Proof!NoPrior \in Priors /\ Proof!NoPrior.pipe = 0 /\ Proof!Whole \in ProofScopes
    BY ScopeFacts DEF Proof!NoPrior, Priors
  <2>2. QED BY <2>1 DEF Holdless, Threads, Proof!Idle
<1>3. ProofTyped
  BY <1>1, <1>2 DEF ProofTyped, Holdless
<1>4. ProofFits
  <2>1. \A t \in Asker : ThreadFits(pipes, t, ask[t])
    BY <1>1, <1>2, <1>3, HoldlessFits DEF ProofTyped, Bares
  <2>2. QED BY <1>1, <2>1 DEF ProofFits
<1>5. Proof!FullHeld = {} /\ Proof!OnlyHeld = {} /\ Proof!BoxHeld = {} /\ \A k \in Host : Proof!HostHeld(k) = {}
  BY <1>1, <1>2, ProofConstants DEF Proof!FullHeld, Proof!OnlyHeld, Proof!BoxHeld, Proof!HostHeld, Holdless
<1>6. QED BY <1>1, <1>3, <1>4, <1>5, ProofConstants, FS_EmptySet DEF ProofInv, SlotsHeld, BoxesHeld, HostsHeld

LEMMA ProofNextInv == ASSUME ProofInv, [Proof!Next]_(Proof!vars) PROVE ProofInv'
<1>1. ASSUME NEW t \in Asker, Proof!Holds(t) \/ Proof!MemoryHold(t) PROVE ProofInv'
  BY <1>1, BlockedKeeps DEF Proof!Holds, Proof!MemoryHold, Proof!Routed
<1>2. ASSUME NEW t \in Asker, Proof!CapHolds(t) \/ Proof!Refused(t) \/ Proof!TriggerFails(t) PROVE ProofInv'
  <2>1. ask[t].at \notin OnTheBox
    BY <1>2 DEF Proof!CapHolds, Proof!Refused, Proof!TriggerFails, Proof!At, OnTheBox
  <2>2. Proof!Released(t) /\ Proof!Ends(t, "idle") /\ UNCHANGED <<red, pipes, recs, ledger>>
    BY <1>2 DEF Proof!CapHolds, Proof!Refused, Proof!TriggerFails
  <2>3. QED BY <2>1, <2>2, GivenBackKeeps
<1>3. CASE Proof!Flips
  <2>1. UNCHANGED <<red, pipes, recs, ledger, ask, full, only, host, onbox>>
    BY <1>3 DEF Proof!Flips, Proof!counters
  <2>2. QED BY <2>1, SamePipes, WorldMoves DEF ProofInv
<1>4. CASE UNCHANGED Proof!vars
  <2>1. UNCHANGED <<red, pipes, recs, ledger, ask, full, only, host, onbox>>
    BY <1>4 DEF Proof!vars, Proof!counters
  <2>2. QED BY <2>1, SamePipes, WorldMoves DEF ProofInv
<1>5. QED BY <1>1, <1>2, <1>3, <1>4, ReusesKeeps, BoxedKeeps, LooksKeeps, AdoptsKeeps, TakesSlotKeeps, TriggersKeeps, NotesKeeps,
             PollAbortedKeeps, PollDiesKeeps, JudgesKeeps, RerunsKeeps, BoxEndsKeeps, PipelineEndsKeeps, CrashKeeps DEF Proof!Next

LEMMA SameCardinality == \A S : Proof!Cardinality(S) = Cardinality(S)
BY Zenon DEF Cardinality, Proof!Cardinality

(* Every full and scoped slot, every host and every place on the box that  *)
(* is counted is held by a live thread, and the roster's limits stand: the *)
(* thread that takes a slot tests the limit under the lock, and each way   *)
(* out of an ask gives back exactly what that ask holds (D135, D141).      *)
THEOREM ProofSlotsAreHeld == Proof!Spec => []SlotsAreCounted
<1>1. ProofInv => SlotsAreCounted
  <2>1. SlotsHeld /\ BoxesHeld /\ HostsHeld => Proof!SlotsAreCounted
    BY SameCardinality DEF SlotsHeld, BoxesHeld, HostsHeld, Proof!SlotsAreCounted
  <2>2. QED BY <2>1 DEF ProofInv, SlotsAreCounted
<1>2. QED BY <1>1, ProofInitInv, ProofNextInv, PTL DEF Proof!Spec

(* A pass on record hides no file of its row that its pipeline showed red  *)
(* and that is red at the candidate.                                       *)
THEOREM PassesHideNothing == Proof!Spec => []PassHidesNoRed
<1>1. ProofInv => PassHidesNoRed
  BY DEF ProofInv, ProofFits, EntryFits, PassHidesNoRed, Proof!PassHidesNoRed
<1>2. QED BY <1>1, ProofInitInv, ProofNextInv, PTL DEF Proof!Spec

-----------------------------------------------------------------------------
(* MergeGate, for any items, locks left behind, waits and kills.           *)

LEMMA TokenType == ASSUME TypeOK, NEW g \in Items PROVE Token(g) \in Tokens
  BY DEF TypeOK, Token, Tokens

LEMMA FreeLock == Free \in Lock
  BY DEF Free, Lock

LEMMA ReleaseType == ASSUME NEW l \in Lock, NEW g PROVE Release(l, g) \in Lock
  BY FreeLock DEF Release

LEMMA GoesType ==
  ASSUME TypeOK, NEW g \in Items, NEW at \in Places
  PROVE  /\ Goes(g, at) => gate' \in [Items -> Gates]
         /\ \A r \in {"pass", "fail", "unrun"} : Row(g, r, at) => gate' \in [Items -> Gates]
  BY DEF TypeOK, Gates, Goes, Row

LEMMA SetType ==
  ASSUME TypeOK, NEW g \in Items, NEW x \in Gates, gate' = [gate EXCEPT ![g] = x]
  PROVE  gate' \in [Items -> Gates]
  BY DEF TypeOK

LEMMA Bounds == ASSUME GateAssumption PROVE MaxWait \in Nat /\ 0 \in 0..MaxWait
  BY DEF GateAssumption

LEMMA WaitedType ==
  ASSUME TypeOK, GateAssumption, NEW g \in Items, gate[g].waited < MaxWait
  PROVE  gate[g].waited + 1 \in 0..MaxWait
  BY Bounds DEF TypeOK, Gates

LEMMA WaitsType ==
  ASSUME TypeOK, GateAssumption, NEW g \in Items, NEW lost \in Places, Waits(g, lost)
  PROVE  gate' \in [Items -> Gates]
<1> DEFINE over == [gate[g] EXCEPT !.at = lost, !.rows = @ \cup {"unrun"}, !.waited = 0]
           more == [gate[g] EXCEPT !.waited = @ + 1]
<1>1. gate[g] \in Gates
  BY DEF TypeOK
<1>2. over \in Gates
  BY <1>1, Bounds DEF Gates
<1>3. CASE gate[g].waited = MaxWait
  <2>1. gate' = [gate EXCEPT ![g] = over]
    BY <1>3 DEF Waits, TypeOK
  <2>2. QED BY <1>2, <2>1, SetType
<1>4. CASE gate[g].waited # MaxWait
  <2>1. gate[g].waited < MaxWait
    BY <1>1, <1>4, Bounds DEF Gates
  <2>2. more \in Gates
    BY <1>1, <2>1, WaitedType DEF Gates
  <2>3. gate' = [gate EXCEPT ![g] = more]
    BY <1>4 DEF Waits, TypeOK
  <2>4. QED BY <2>2, <2>3, SetType
<1>5. QED BY <1>3, <1>4

LEMMA NoGateType == GateAssumption => NoGate \in Gates
  BY DEF NoGate, Gates, GateAssumption, Places

LEMMA StepType ==
  ASSUME TypeOK, GateAssumption, NEW g \in Items, Step(g)
  PROVE  TypeOK'
<1>0. /\ gate[g] \in Gates /\ review[g] \in Reviewing /\ last[g] \in Answers
      /\ trunk \in SUBSET (Items \X Nat) /\ box.owner \in Tokens \cup {None}
  BY DEF TypeOK, Lock
<1> USE GoesType, WaitsType, TokenType, FreeLock, ReleaseType DEF Rest, locks, Places
<1>1. CASE Preflight(g)
  <2>1. gate' \in [Items -> Gates]
    <3>1. PICK r \in {"pass", "fail"} :
            gate' = [gate EXCEPT ![g].at = "portal", ![g].base = trunk, ![g].rows = @ \cup {r}]
      BY <1>1 DEF Preflight
    <3> DEFINE x == [gate[g] EXCEPT !.at = "portal", !.base = trunk, !.rows = @ \cup {r}]
    <3>2. x \in Gates
      BY <1>0 DEF Gates
    <3>3. gate' = [gate EXCEPT ![g] = x]
      BY <3>1 DEF TypeOK
    <3>4. QED BY <3>2, <3>3, SetType
  <2>2. review' \in [Items -> Reviewing]
    BY <1>1 DEF Preflight, TypeOK, Reviewing, NoReview, Gates
  <2>3. QED BY <1>1, <2>1, <2>2 DEF Preflight, TypeOK
<1>2. CASE PortalTakes(g)
  <2>1. gate' \in [Items -> Gates]
    BY <1>2 DEF PortalTakes
  <2>2. portal' \in Lock
    BY <1>2 DEF PortalTakes, Free, Lock, TypeOK
  <2>3. QED BY <1>2, <2>1, <2>2 DEF PortalTakes, TypeOK
<1>3. CASE PortalBreaks(g)
  BY <1>3 DEF PortalBreaks, TypeOK
<1>4. CASE PortalOwns(g)
  BY <1>4 DEF PortalOwns, TypeOK, Lock
<1>5. CASE PortalRuns(g)
  <2>1. gate' \in [Items -> Gates]
    <3>1. ASSUME NEW r \in {"pass", "fail"},
                 gate' = [gate EXCEPT ![g].at = "proofs", ![g].rows = @ \cup {r}, ![g].tested = (r = "pass")]
          PROVE  gate' \in [Items -> Gates]
      <4> DEFINE x == [gate[g] EXCEPT !.at = "proofs", !.rows = @ \cup {r}, !.tested = (r = "pass")]
      <4>1. x \in Gates
        BY <1>0 DEF Gates
      <4>2. gate' = [gate EXCEPT ![g] = x]
        BY <3>1 DEF TypeOK
      <4>3. QED BY <4>1, <4>2, SetType
    <3>2. QED BY <1>5, <3>1 DEF PortalRuns
  <2>2. QED BY <1>5, <2>1 DEF PortalRuns, TypeOK
<1>6. CASE BoxTakes(g)
  <2>1. gate' \in [Items -> Gates]
    <3> DEFINE r == IF "portal" \in asks[g] THEN {} ELSE {"unrun"}
               x == [gate[g] EXCEPT !.at = "join", !.rows = @ \cup r]
               y == [gate[g] EXCEPT !.at = "recheck", !.saw = box.owner]
    <3>1. x \in Gates /\ y \in Gates
      <4>1. r \subseteq {"unrun"}
        OBVIOUS
      <4>2. QED BY <1>0, <4>1 DEF Gates
    <3>2. /\ [gate EXCEPT ![g].at = "join", ![g].rows = @ \cup r] = [gate EXCEPT ![g] = x]
          /\ [gate EXCEPT ![g].at = "recheck", ![g].saw = box.owner] = [gate EXCEPT ![g] = y]
      BY DEF TypeOK
    <3>3. QED BY <1>6, <3>1, <3>2, SetType DEF BoxTakes, GivesUp
  <2>2. box' \in Lock
    BY <1>6 DEF BoxTakes, Free, Lock, TypeOK
  <2>3. QED BY <1>6, <2>1, <2>2 DEF BoxTakes, TypeOK
<1>7. CASE Rechecks(g)
  <2>1. ASSUME gate[g].waited < MaxWait, gate' = [gate EXCEPT ![g].at = "proofs", ![g].waited = @ + 1]
        PROVE  gate' \in [Items -> Gates]
    <3> DEFINE x == [gate[g] EXCEPT !.at = "proofs", !.waited = @ + 1]
    <3>1. x \in Gates
      BY <1>0, <2>1, WaitedType DEF Gates
    <3>2. gate' = [gate EXCEPT ![g] = x]
      BY <2>1 DEF TypeOK
    <3>3. QED BY <3>1, <3>2, SetType
  <2>2. QED BY <1>7, <2>1 DEF Rechecks, TypeOK
<1>8. CASE Breaks(g)
  BY <1>8 DEF Breaks, TypeOK
<1>9. CASE Owns(g)
  BY <1>9 DEF Owns, TypeOK, Lock
<1>10. CASE Census(g)
  BY <1>10 DEF Census, TypeOK
<1>11. CASE Starts(g)
  BY <1>11 DEF Starts, TypeOK
<1>12. CASE Tested(g)
  <2>1. gate' \in [Items -> Gates]
    <3>1. PICK r \in Outcomes :
            gate' = [gate EXCEPT ![g].at = "join", ![g].rows = @ \cup {r}, ![g].tested = (r = "pass")]
      BY <1>12 DEF Tested
    <3> DEFINE x == [gate[g] EXCEPT !.at = "join", !.rows = @ \cup {r}, !.tested = (r = "pass")]
    <3>2. x \in Gates
      BY <1>0, <3>1 DEF Gates, Outcomes
    <3>3. gate' = [gate EXCEPT ![g] = x]
      BY <3>1 DEF TypeOK
    <3>4. QED BY <3>2, <3>3, SetType
  <2>2. QED BY <1>12, <2>1 DEF Tested, TypeOK
<1>13. CASE Join(g)
  <2>1. gate' \in [Items -> Gates]
    <3>1. PICK r \in {"pass", "fail", "unrun"} :
            gate' = [gate EXCEPT ![g].at = "verdict", ![g].read = review[g].sha, ![g].rows = @ \cup {r}]
      BY <1>13 DEF Join
    <3> DEFINE x == [gate[g] EXCEPT !.at = "verdict", !.read = review[g].sha, !.rows = @ \cup {r}]
    <3>2. x \in Gates
      BY <1>0 DEF Gates, Reviewing
    <3>3. gate' = [gate EXCEPT ![g] = x]
      BY <3>1 DEF TypeOK
    <3>4. QED BY <3>2, <3>3, SetType
  <2>2. review' \in [Items -> Reviewing]
    BY <1>13 DEF Join, TypeOK, Reviewing, NoReview
  <2>3. QED BY <1>13, <2>1, <2>2 DEF Join, TypeOK
<1>14. CASE Merges(g)
  <2>1. <<g, gate[g].sha>> \in Items \X Nat
    BY DEF TypeOK, Gates
  <2>2. QED BY <1>14, <2>1 DEF Merges, TypeOK
<1>15. CASE Stamps(g)
  <2>1. gate' \in [Items -> Gates]
    BY <1>15, NoGateType DEF Stamps, TypeOK
  <2>2. row' \in [Items -> Rows]
    BY <1>15 DEF Stamps, TypeOK, Gates, Rows
  <2>3. QED BY <1>15, <2>1, <2>2 DEF Stamps, TypeOK
<1>16. QED BY <1>1, <1>2, <1>3, <1>4, <1>5, <1>6, <1>7, <1>8, <1>9, <1>10, <1>11, <1>12, <1>13, <1>14, <1>15 DEF Step

LEMMA AroundType ==
  ASSUME TypeOK, GateAssumption, NEW g \in Items,
         Begins(g) \/ ReviewStarts(g) \/ ReviewAnswers(g) \/ ReviewReads(g) \/ Raises(g) \/ Killed(g) \/ Commits(g)
  PROVE  TypeOK'
<1>0. /\ gate[g] \in Gates /\ review[g] \in Reviewing /\ last[g] \in Answers
      /\ trunk \in SUBSET (Items \X Nat) /\ box.owner \in Tokens \cup {None}
  BY DEF TypeOK, Lock
<1> USE NoGateType, FreeLock, ReleaseType DEF locks, RestOfReview, Reviews
<1>1. CASE Begins(g)
  <2>1. PICK r \in {"pass", "fail", "unrun"} :
          gate' = [gate EXCEPT ![g] = [NoGate EXCEPT !.at = "preflight", !.sha = lane[g], !.rows = {r}]]
    BY <1>1 DEF Begins
  <2>2. [NoGate EXCEPT !.at = "preflight", !.sha = lane[g], !.rows = {r}] \in Gates
    BY Bounds DEF NoGate, Gates, Places, TypeOK
  <2>3. QED BY <1>1, <2>1, <2>2, SetType DEF Begins, TypeOK
<1>2. CASE ReviewStarts(g)
  <2>1. review' \in [Items -> Reviewing]
    BY <1>2 DEF ReviewStarts, TypeOK, Reviewing
  <2>2. QED BY <1>2, <2>1 DEF ReviewStarts, TypeOK
<1>3. CASE ReviewAnswers(g)
  <2>1. review' \in [Items -> Reviewing]
    <3>1. /\ [review[g] EXCEPT !.at = "reads", !.ok = TRUE] \in Reviewing
          /\ [review[g] EXCEPT !.at = IF @ = "asks" THEN "again" ELSE "reads"] \in Reviewing
          /\ [review[g] EXCEPT !.at = "error"] \in Reviewing
      BY <1>0 DEF Reviewing
    <3>2. QED BY <1>3, <3>1 DEF ReviewAnswers, TypeOK
  <2>2. last' \in [Items -> Answers]
    BY <1>3 DEF ReviewAnswers, TypeOK, Reviewing, Answers, Nothing
  <2>3. QED BY <1>3, <2>1, <2>2 DEF ReviewAnswers, TypeOK
<1>4. CASE ReviewReads(g)
  <2>1. review' \in [Items -> Reviewing]
    <3>1. ASSUME NEW text \in {"none", "wall", "approve", "needs-attention"}
          PROVE  [review[g] EXCEPT !.at = "done", !.text = text, !.sha = last[g].sha] \in Reviewing
      BY <1>0 DEF Reviewing, Answers
    <3>2. last[g].verdict \in {"none", "approve", "needs-attention"}
      BY <1>0 DEF Answers
    <3>3. QED BY <1>4, <3>1, <3>2 DEF ReviewReads, TypeOK
  <2>2. QED BY <1>4, <2>1 DEF ReviewReads, TypeOK
<1>5. CASE Raises(g) \/ Killed(g)
  <2>1. gate' \in [Items -> Gates]
    BY <1>5 DEF Raises, Killed, TypeOK
  <2>2. review' \in [Items -> Reviewing]
    <3>1. NoReview \in Reviewing
      BY DEF NoReview, Reviewing
    <3>2. QED BY <1>5, <3>1 DEF Raises, Killed, TypeOK
  <2>3. box' \in Lock /\ kills' \in Nat
    BY <1>5 DEF Raises, Killed, TypeOK
  <2>4. QED BY <1>5, <2>1, <2>2, <2>3 DEF Raises, Killed, TypeOK
<1>6. CASE Commits(g)
  BY <1>6 DEF Commits, TypeOK
<1>7. QED BY <1>1, <1>2, <1>3, <1>4, <1>5, <1>6

(* The gate's records, locks and reviews keep their types.                 *)
THEOREM GateTypeOK == GateAssumption /\ Spec => []TypeOK
<1> SUFFICES ASSUME GateAssumption PROVE Spec => []TypeOK
  OBVIOUS
<1>1. Init => TypeOK
  <2> SUFFICES ASSUME Init PROVE TypeOK
    OBVIOUS
  <2>1. Free \in Lock /\ Taken \in Lock
    BY DEF Free, Taken, Lock, Tokens
  <2>2. NoReview \in Reviewing /\ Nothing \in Answers /\ NoGate \in Gates
    BY NoGateType DEF NoReview, Reviewing, Nothing, Answers
  <2>3. QED BY <2>1, <2>2 DEF Init, TypeOK, Rows
<1>2. TypeOK /\ [Next]_vars => TypeOK'
  <2> SUFFICES ASSUME TypeOK, [Next]_vars PROVE TypeOK'
    OBVIOUS
  <2>1. CASE WallPasses \/ OrphanEnds \/ Ages
    BY <2>1 DEF WallPasses, OrphanEnds, Ages, TypeOK, Lock, locks
  <2>2. CASE UNCHANGED vars
    BY <2>2 DEF vars, locks, TypeOK
  <2>3. QED BY <2>1, <2>2, StepType, AroundType DEF Next
<1>3. QED BY <1>1, <1>2, PTL DEF Spec

-----------------------------------------------------------------------------
(* A gate about to start the tests whose token is in the box found no      *)
(* pytest running after it had written the token, and none started since.  *)
Alone ==
  /\ \A s, t \in tests : s = t
  /\ \A g \in Items : gate[g].at = "start" /\ box.owner = Token(g) => tests = {}

LEMMA TokensDiffer == ASSUME TypeOK, NEW g \in Items, NEW k \in Items, Token(g) = Token(k) PROVE g = k
  BY DEF Token

LEMMA NoneIsNoToken == ASSUME TypeOK, GateAssumption, NEW g \in Items PROVE Token(g) # None
  BY TokenType DEF GateAssumption, Tokens

(* Other gates keep their place, and their tokens.                         *)
LEMMA AloneStep ==
  ASSUME TypeOK, GateAssumption, Alone, NEW g \in Items, Step(g)
  PROVE  Alone'
<1>1. /\ \A k \in Items \ {g} : gate'[k] = gate[k]
      /\ run' = run
  BY DEF Step, Preflight, PortalTakes, PortalBreaks, PortalOwns, PortalRuns, BoxTakes, Rechecks, Breaks, Owns, Census,
         Starts, Tested, Join, Merges, Stamps, Goes, Row, Waits, GivesUp, Rest, TypeOK
<1>2. ASSUME tests' \subseteq tests, box'.owner \in {box.owner, None}, gate'[g].at # "start"
      PROVE  Alone'
  <2>1. ASSUME NEW k \in Items, gate'[k].at = "start", box'.owner = Token(k)' PROVE tests' = {}
    BY <1>1, <1>2, <2>1, NoneIsNoToken DEF Alone, Token
  <2>2. QED BY <1>2, <2>1 DEF Alone
<1>3. CASE Owns(g)
  <2>1. tests' = tests /\ gate'[g].at # "start" /\ box'.owner \in {box.owner, Token(g)}
    <3>1. gate'[g].at \in {"census", "join"}
      BY <1>3 DEF Owns, Goes, Row, TypeOK, Gates
    <3>2. box'.owner \in {box.owner, Token(g)}
      <4>1. box' \in {box, [box EXCEPT !.owner = Token(g), !.old = FALSE]}
        BY <1>3 DEF Owns
      <4>2. QED BY <4>1 DEF TypeOK, Lock
    <3>3. QED BY <1>3, <3>1, <3>2 DEF Owns
  <2>2. ASSUME NEW k \in Items, gate'[k].at = "start", box'.owner = Token(k)' PROVE tests' = {}
    BY <1>1, <2>1, <2>2, TokensDiffer DEF Alone, Token
  <2>3. QED BY <2>1, <2>2 DEF Alone
<1>4. CASE Census(g)
  <2>1. tests' = tests /\ (gate'[g].at = "start" => tests = {}) /\ box'.owner \in {box.owner, None}
    BY <1>4 DEF Census, Goes, Row, Release, Free, TypeOK, Gates
  <2>2. ASSUME NEW k \in Items, gate'[k].at = "start", box'.owner = Token(k)' PROVE tests' = {}
    BY <1>1, <2>1, <2>2, NoneIsNoToken DEF Alone, Token
  <2>3. QED BY <2>1, <2>2 DEF Alone
<1>5. CASE Starts(g)
  <2>1. box' = box /\ gate'[g].at # "start"
    BY <1>5 DEF Starts, Goes, Row, TypeOK, Gates
  <2>2. CASE ~StillMine(g)
    BY <1>2, <1>5, <2>1, <2>2 DEF Starts
  <2>3. CASE StillMine(g)
    <3>1. box.owner = Token(g) /\ tests = {} /\ tests' = {Token(g)}
      BY <1>5, <2>3 DEF Starts, StillMine, Alone, At
    <3>2. \A k \in Items : ~(gate'[k].at = "start" /\ box'.owner = Token(k)')
      BY <1>1, <2>1, <3>1, TokensDiffer DEF Token
    <3>3. QED BY <3>1, <3>2 DEF Alone
  <2>4. QED BY <2>2, <2>3
<1>6. CASE BoxTakes(g)
  <2>1. gate'[g].at # "start"
    <3>1. \/ \E at \in {"own", "recheck", "join"} : gate'[g].at = at
          \/ gate'[g].at = gate[g].at
      BY <1>6 DEF BoxTakes, Goes, Waits, GivesUp, TypeOK, Gates
    <3>2. QED BY <1>6, <3>1 DEF BoxTakes, At
  <2>2. tests' = tests /\ box' \in {box, [Free EXCEPT !.dir = TRUE]}
    BY <1>6 DEF BoxTakes
  <2>3. [Free EXCEPT !.dir = TRUE].owner = None
    BY DEF Free
  <2>4. QED BY <1>2, <2>1, <2>2, <2>3
<1>10. CASE Breaks(g) \/ Tested(g)
  <2>1. gate'[g].at \in {"proofs", "join"}
    <3>1. CASE Breaks(g)
      BY <3>1 DEF Breaks, Goes, TypeOK, Gates
    <3>2. CASE Tested(g)
      <4>1. PICK r \in Outcomes :
              gate' = [gate EXCEPT ![g].at = "join", ![g].rows = @ \cup {r}, ![g].tested = (r = "pass")]
        BY <3>2 DEF Tested
      <4>2. QED BY <4>1 DEF TypeOK, Gates
    <3>3. QED BY <1>10, <3>1, <3>2
  <2>2. tests' \subseteq tests /\ box' \in {box, Free}
    BY <1>10 DEF Breaks, Tested, Release
  <2>3. Free.owner = None
    BY DEF Free
  <2>4. QED BY <1>2, <2>1, <2>2, <2>3
<1>7. CASE Rechecks(g) \/ PortalTakes(g) \/ PortalBreaks(g) \/ PortalOwns(g) \/ PortalRuns(g)
  <2>1. gate'[g].at # "start"
    BY <1>7 DEF Rechecks, PortalTakes, PortalBreaks, PortalOwns, PortalRuns, Goes, Row, Waits, At, TypeOK, Gates
  <2>2. tests' = tests /\ box' = box
    BY <1>7 DEF Rechecks, PortalTakes, PortalBreaks, PortalOwns, PortalRuns, locks
  <2>3. QED BY <1>2, <2>1, <2>2
<1>8. CASE Preflight(g) \/ Join(g) \/ Merges(g) \/ Stamps(g)
  <2>1. gate'[g].at # "start"
    BY <1>8 DEF Preflight, Join, Merges, Stamps, Goes, NoGate, At, TypeOK, Gates
  <2>2. tests' = tests /\ box' = box
    BY <1>8 DEF Preflight, Join, Merges, Stamps, locks
  <2>3. QED BY <1>2, <2>1, <2>2
<1>9. QED BY <1>3, <1>4, <1>5, <1>6, <1>7, <1>8, <1>10 DEF Step

LEMMA AloneAround ==
  ASSUME TypeOK, GateAssumption, Alone, [Next]_vars, \A g \in Items : ~Step(g)
  PROVE  Alone'
<1>1. ASSUME tests' \subseteq tests, box'.owner \in {box.owner, None},
             \A k \in Items : gate'[k].at = "start" => gate[k].at = "start" /\ run'[k] = run[k]
      PROVE  Alone'
  <2>1. ASSUME NEW k \in Items, gate'[k].at = "start", box'.owner = Token(k)' PROVE tests' = {}
    BY <1>1, <2>1, NoneIsNoToken DEF Alone, Token
  <2>2. QED BY <1>1, <2>1 DEF Alone
<1>2. ASSUME NEW g \in Items, Begins(g) PROVE Alone'
  <2>1. gate'[g].at = "preflight" /\ \A k \in Items \ {g} : gate'[k] = gate[k] /\ run'[k] = run[k]
    BY <1>2 DEF Begins, NoGate, TypeOK
  <2>2. tests' = tests /\ box' = box
    BY <1>2 DEF Begins, locks
  <2>3. QED BY <1>1, <2>1, <2>2
<1>3. ASSUME NEW g \in Items, ReviewStarts(g) \/ ReviewAnswers(g) \/ ReviewReads(g) \/ Commits(g) PROVE Alone'
  BY <1>1, <1>3 DEF ReviewStarts, ReviewAnswers, ReviewReads, Commits, RestOfReview, locks
<1>4. ASSUME NEW g \in Items, Raises(g) \/ Killed(g) PROVE Alone'
  <2>1. gate'[g].at = "none" /\ \A k \in Items \ {g} : gate'[k] = gate[k]
    BY <1>4 DEF Raises, Killed, NoGate, TypeOK
  <2>2. tests' = tests /\ run' = run /\ box'.owner \in {box.owner, None}
    BY <1>4 DEF Raises, Killed, Release, Free, locks
  <2>3. QED BY <1>1, <2>1, <2>2
<1>5. CASE WallPasses \/ OrphanEnds \/ Ages
  BY <1>1, <1>5 DEF WallPasses, OrphanEnds, Ages, locks, TypeOK, Lock
<1>6. CASE UNCHANGED vars
  BY <1>1, <1>6 DEF vars, locks
<1>7. QED BY <1>2, <1>3, <1>4, <1>5, <1>6 DEF Next

(* At most one pytest of the platform proofs runs, whoever took whose lock *)
(* away and however many gates were killed over their tests.               *)
THEOREM OneSuiteAtATime == GateAssumption /\ Spec => []OneSuite
<1> SUFFICES ASSUME GateAssumption PROVE Spec => []OneSuite
  OBVIOUS
<1>1. Init => Alone
  BY DEF Init, Alone
<1>2. TypeOK /\ Alone /\ [Next]_vars => Alone'
  BY AloneStep, AloneAround
<1>3. Alone => OneSuite
  <2> SUFFICES ASSUME Alone PROVE OneSuite
    OBVIOUS
  <2>1. CASE tests = {}
    <3>1. Cardinality(tests) = 0
      BY <2>1, FS_EmptySet
    <3>2. QED BY <3>1 DEF OneSuite
  <2>2. CASE tests # {}
    <3>1. PICK t \in tests : tests = {t}
      <4>1. PICK t \in tests : TRUE
        BY <2>2
      <4>2. tests = {t}
        BY <4>1 DEF Alone
      <4>3. QED BY <4>2
    <3>2. Cardinality(tests) = 1
      BY <3>1, FS_Singleton
    <3>3. QED BY <3>2 DEF OneSuite
  <2>3. QED BY <2>1, <2>2
<1>4. QED BY <1>1, <1>2, <1>3, GateTypeOK, PTL DEF Spec

-----------------------------------------------------------------------------
(* What a gate without a bad row has seen on its way to the verdict, and   *)
(* of which commit the review is that it will join.                        *)
Clean(g) == gate[g].rows \cap {"fail", "unrun"} = {}
InBox    == {"proofs", "recheck", "break", "own", "census", "start", "test"}
AtReview == {"starts", "asks", "again", "reads", "done", "error"}

WasTested(g) ==
  /\ gate[g].at \in InBox /\ "portal" \in asks[g] /\ Clean(g) => gate[g].tested
  /\ gate[g].at \in {"join", "verdict"} /\ Clean(g) => gate[g].tested

WasReviewed(g) ==
  /\ review[g].at # "none" => gate[g].at \notin {"none", "preflight", "verdict", "merged", "gated"}
  /\ review[g].at \in {"starts", "asks", "again"} => ~review[g].ok
  /\ review[g].at \in {"starts", "asks", "again", "reads"} => review[g].sha = gate[g].sha
  /\ review[g].at = "reads" /\ review[g].ok => last[g].sha = gate[g].sha /\ last[g] # Nothing
  /\ review[g].at = "done" /\ Approves(review[g]) => review[g].sha = gate[g].sha
  /\ gate[g].at = "verdict" /\ Clean(g) => gate[g].read = gate[g].sha

Measured(g) == WasTested(g) /\ WasReviewed(g)
AllMeasured == \A g \in Items : Measured(g)

LEMMA OthersMeasured ==
  ASSUME TypeOK, AllMeasured, NEW g \in Items,
         \A k \in Items \ {g} : gate'[k] = gate[k] /\ review'[k] = review[k] /\ last'[k] = last[k],
         UNCHANGED asks, Measured(g)'
  PROVE  AllMeasured'
<1>1. ASSUME NEW k \in Items \ {g} PROVE Measured(k)'
  BY <1>1 DEF AllMeasured, Measured, WasTested, WasReviewed, Clean
<1>2. QED BY <1>1 DEF AllMeasured

LEMMA ReviewStays ==
  ASSUME TypeOK, NEW g \in Items, WasReviewed(g), UNCHANGED <<review, last>>,
         gate'[g].sha = gate[g].sha, gate'[g].at \notin {"none", "preflight", "verdict", "merged", "gated"}
  PROVE  WasReviewed(g)'
  BY DEF WasReviewed, Clean

(* One step of a gate up to its join.                                      *)
LEMMA TestingMeasured ==
  ASSUME TypeOK, GateAssumption, AllMeasured, NEW g \in Items,
         PortalTakes(g) \/ PortalBreaks(g) \/ PortalOwns(g) \/ PortalRuns(g) \/ BoxTakes(g) \/ Rechecks(g)
         \/ Breaks(g) \/ Owns(g) \/ Census(g) \/ Starts(g) \/ Tested(g)
  PROVE  AllMeasured'
<1>1. /\ UNCHANGED <<asks, review, last>> /\ \A k \in Items \ {g} : gate'[k] = gate[k]
      /\ gate[g].at \in InBox \cup {"portal", "p-break", "p-own", "p-run"}
  BY DEF PortalTakes, PortalBreaks, PortalOwns, PortalRuns, BoxTakes, Rechecks, Breaks, Owns, Census, Starts, Tested,
         Goes, Row, Waits, GivesUp, Rest, TypeOK, At, InBox
<1>2. Measured(g)
  BY DEF AllMeasured
<1> DEFINE Kept(at)     == gate'[g] = [gate[g] EXCEPT !.at = at]
           Waited(at)   == \E n \in Nat : gate'[g] = [gate[g] EXCEPT !.at = at, !.waited = n]
           Spoilt(at)   == \E r \in {"fail", "unrun"} : /\ gate'[g].at = at /\ gate'[g].sha = gate[g].sha
                                                       /\ r \in gate'[g].rows
           Ran(at)      == \E r \in {"pass", "fail", "unrun"} :
                             /\ gate'[g].at = at /\ gate'[g].sha = gate[g].sha
                             /\ gate'[g].rows = gate[g].rows \cup {r} /\ gate'[g].tested = (r = "pass")
<1>3. ASSUME NEW at \in InBox \cup {"join"}, Spoilt(at) PROVE AllMeasured'
  <2>1. ~Clean(g)' /\ gate'[g].at = at /\ gate'[g].sha = gate[g].sha
    BY <1>3 DEF Clean
  <2>2. WasReviewed(g)'
    BY <1>1, <1>2, <2>1, ReviewStays DEF Measured, InBox
  <2>3. QED BY <1>1, <2>1, <2>2, OthersMeasured DEF Measured, WasTested
<1>4. ASSUME NEW at \in InBox \cup {"join"}, Ran(at) PROVE AllMeasured'
  <2>1. gate'[g].at = at /\ gate'[g].sha = gate[g].sha /\ (Clean(g)' => gate'[g].tested)
    BY <1>4 DEF Clean
  <2>2. WasReviewed(g)'
    BY <1>1, <1>2, <2>1, ReviewStays DEF Measured, InBox
  <2>3. QED BY <1>1, <2>1, <2>2, OthersMeasured DEF Measured, WasTested
<1>5. ASSUME NEW at, gate'[g].at = at, gate'[g].sha = gate[g].sha, gate'[g].rows = gate[g].rows, gate'[g].tested = gate[g].tested,
             \/ gate[g].at \in InBox /\ at \in InBox
             \/ at \in {"portal", "p-break", "p-own", "p-run"}
             \/ at = "proofs" /\ "portal" \notin asks[g]
             \/ gate[g].at \in InBox /\ "portal" \in asks[g] /\ at = "join"
      PROVE  AllMeasured'
  <2>1. WasReviewed(g)'
    BY <1>1, <1>2, <1>5, ReviewStays DEF Measured, InBox
  <2>2. WasTested(g)'
    BY <1>1, <1>2, <1>5 DEF Measured, WasTested, Clean, InBox
  <2>3. QED BY <1>1, <2>1, <2>2, OthersMeasured DEF Measured
<1>6. ASSUME NEW lost \in {"proofs", "join"}, Waits(g, lost), gate[g].at \in {"portal"} \cup InBox
      PROVE  AllMeasured'
  <2>1. CASE gate[g].waited = MaxWait
    <3>1. gate'[g] = [gate[g] EXCEPT !.at = lost, !.rows = @ \cup {"unrun"}, !.waited = 0]
      BY <1>6, <2>1 DEF Waits, TypeOK
    <3>2. Spoilt(lost)
      BY <3>1 DEF TypeOK, Gates
    <3>3. QED BY <1>3, <3>2 DEF InBox
  <2>2. CASE gate[g].waited # MaxWait
    <3>1. gate'[g] = [gate[g] EXCEPT !.waited = @ + 1]
      BY <1>6, <2>2 DEF Waits, TypeOK
    <3>2. /\ gate'[g].at = gate[g].at /\ gate'[g].sha = gate[g].sha
          /\ gate'[g].rows = gate[g].rows /\ gate'[g].tested = gate[g].tested
      BY <3>1 DEF TypeOK, Gates
    <3>3. QED BY <1>5, <1>6, <3>2
  <2>3. QED BY <2>1, <2>2
<1>7. ASSUME NEW at, Goes(g, at)
      PROVE  /\ gate'[g].at = at /\ gate'[g].sha = gate[g].sha
             /\ gate'[g].rows = gate[g].rows /\ gate'[g].tested = gate[g].tested
  BY <1>7 DEF Goes, TypeOK, Gates
<1>8. ASSUME NEW at \in InBox \cup {"join"}, NEW r \in {"fail", "unrun"}, Row(g, r, at) PROVE AllMeasured'
  <2>1. Spoilt(at)
    BY <1>8 DEF Row, TypeOK, Gates
  <2>2. QED BY <1>3, <2>1
<1>9. CASE PortalTakes(g)
  <2>1. CASE "portal" \notin asks[g]
    BY <1>5, <1>7, <1>9, <2>1 DEF PortalTakes
  <2>2. CASE "portal" \in asks[g]
    BY <1>5, <1>6, <1>7, <1>8, <1>9, <2>2 DEF PortalTakes, At, InBox
  <2>3. QED BY <2>1, <2>2
<1>10. CASE PortalBreaks(g) \/ PortalOwns(g)
  BY <1>5, <1>7, <1>10 DEF PortalBreaks, PortalOwns
<1>11. CASE PortalRuns(g)
  <2>1. ASSUME NEW r \in {"pass", "fail"},
               gate' = [gate EXCEPT ![g].at = "proofs", ![g].rows = @ \cup {r}, ![g].tested = (r = "pass")]
        PROVE  AllMeasured'
    <3>1. Ran("proofs")
      BY <2>1 DEF TypeOK, Gates
    <3>2. QED BY <1>4, <3>1 DEF InBox
  <2>2. QED BY <1>8, <1>11, <2>1 DEF PortalRuns
<1>12. CASE BoxTakes(g)
  <2>1. CASE "box" \notin asks[g] /\ "portal" \in asks[g]
    <3>1. gate'[g] = [gate[g] EXCEPT !.at = "join", !.rows = @ \cup {}]
      BY <1>12, <2>1 DEF BoxTakes, TypeOK
    <3>2. /\ gate'[g].at = "join" /\ gate'[g].sha = gate[g].sha
          /\ gate'[g].rows = gate[g].rows /\ gate'[g].tested = gate[g].tested
      BY <3>1 DEF TypeOK, Gates
    <3>3. QED BY <1>5, <1>12, <2>1, <3>2 DEF BoxTakes, At, InBox
  <2>2. CASE "box" \notin asks[g] /\ "portal" \notin asks[g]
    <3>1. gate'[g] = [gate[g] EXCEPT !.at = "join", !.rows = @ \cup {"unrun"}]
      BY <1>12, <2>2 DEF BoxTakes, TypeOK
    <3>2. Spoilt("join")
      BY <3>1 DEF TypeOK, Gates
    <3>3. QED BY <1>3, <3>2
  <2>3. CASE "box" \in asks[g]
    <3>1. CASE gate' = [gate EXCEPT ![g].at = "recheck", ![g].saw = box.owner]
      <4>1. /\ gate'[g].at = "recheck" /\ gate'[g].sha = gate[g].sha
            /\ gate'[g].rows = gate[g].rows /\ gate'[g].tested = gate[g].tested
        BY <3>1 DEF TypeOK, Gates
      <4>2. QED BY <1>5, <1>12, <4>1 DEF BoxTakes, At, InBox
    <3>2. CASE Goes(g, "own")
      BY <1>5, <1>7, <1>12, <3>2 DEF BoxTakes, At, InBox
    <3>3. CASE GivesUp(g)
      BY <1>6, <1>12, <3>3 DEF BoxTakes, GivesUp, At, InBox
    <3>4. QED BY <1>12, <2>3, <3>1, <3>2, <3>3 DEF BoxTakes
  <2>4. QED BY <2>1, <2>2, <2>3
<1>13. CASE Rechecks(g)
  <2>1. CASE gate' = [gate EXCEPT ![g].at = "proofs", ![g].waited = @ + 1]
    <3>1. /\ gate'[g].at = "proofs" /\ gate'[g].sha = gate[g].sha
          /\ gate'[g].rows = gate[g].rows /\ gate'[g].tested = gate[g].tested
      BY <2>1 DEF TypeOK, Gates
    <3>2. QED BY <1>5, <1>13, <3>1 DEF Rechecks, At, InBox
  <2>2. CASE Goes(g, "break")
    BY <1>5, <1>7, <1>13, <2>2 DEF Rechecks, At, InBox
  <2>3. CASE Waits(g, "join")
    BY <1>6, <1>13, <2>3 DEF Rechecks, At, InBox
  <2>4. QED BY <1>13, <2>1, <2>2, <2>3 DEF Rechecks
<1>14. CASE Breaks(g)
  BY <1>5, <1>7, <1>14 DEF Breaks, At, InBox
<1>15. CASE Owns(g)
  BY <1>5, <1>7, <1>8, <1>15 DEF Owns, At, InBox
<1>16. CASE Census(g)
  BY <1>5, <1>7, <1>8, <1>16 DEF Census, At, InBox
<1>17. CASE Starts(g)
  BY <1>5, <1>7, <1>8, <1>17 DEF Starts, At, InBox
<1>18. CASE Tested(g)
  <2>1. PICK r \in Outcomes :
          gate' = [gate EXCEPT ![g].at = "join", ![g].rows = @ \cup {r}, ![g].tested = (r = "pass")]
    BY <1>18 DEF Tested
  <2>2. Ran("join")
    BY <2>1 DEF TypeOK, Gates, Outcomes
  <2>3. QED BY <1>4, <2>2
<1>19. QED BY <1>9, <1>10, <1>11, <1>12, <1>13, <1>14, <1>15, <1>16, <1>17, <1>18

LEMMA EndingMeasured ==
  ASSUME TypeOK, GateAssumption, AllMeasured, NEW g \in Items,
         Preflight(g) \/ Join(g) \/ Merges(g) \/ Stamps(g)
  PROVE  AllMeasured'
<1>1. UNCHANGED <<asks, last>> /\ \A k \in Items \ {g} : gate'[k] = gate[k] /\ review'[k] = review[k]
  BY DEF Preflight, Join, Merges, Stamps, Goes, TypeOK
<1>2. Measured(g)
  BY DEF AllMeasured
<1>3. CASE Preflight(g)
  <2>1. gate'[g].at = "portal" /\ gate'[g].sha = gate[g].sha /\ review[g].at = "none"
    <3>1. PICK r \in {"pass", "fail"} : gate' = [gate EXCEPT ![g].at = "portal", ![g].base = trunk, ![g].rows = @ \cup {r}]
      BY <1>3 DEF Preflight
    <3>2. gate'[g] = [gate[g] EXCEPT !.at = "portal", !.base = trunk, !.rows = @ \cup {r}] /\ gate[g] \in Gates
      BY <3>1 DEF TypeOK
    <3>3. gate'[g].at = "portal" /\ gate'[g].sha = gate[g].sha
      BY <3>2 DEF Gates
    <3>4. gate[g].at = "preflight"
      BY <1>3 DEF Preflight, At
    <3>5. review[g].at = "none"
      BY <1>2, <3>4 DEF Measured, WasReviewed
    <3>6. QED BY <3>3, <3>5
  <2>2. \/ review'[g] = review[g]
        \/ review'[g].at = "starts" /\ ~review'[g].ok /\ review'[g].sha = gate[g].sha
    BY <1>3 DEF Preflight, NoReview, TypeOK
  <2>3. Measured(g)'
    BY <2>1, <2>2 DEF Measured, WasTested, WasReviewed, InBox
  <2>4. QED BY <1>1, <2>3, OthersMeasured
<1>4. CASE Join(g)
  <2> DEFINE r == CASE review[g].at = "error" -> "fail"
                    [] review[g].at = "done" /\ review[g].text # "wall" -> IF Approves(review[g]) THEN "pass" ELSE "fail"
                    [] OTHER -> "unrun"
  <2>1. gate'[g] = [gate[g] EXCEPT !.at = "verdict", !.read = review[g].sha, !.rows = @ \cup {r}] /\ review'[g] = NoReview
    BY <1>4 DEF Join, TypeOK
  <2>2. /\ gate'[g].at = "verdict" /\ gate'[g].read = review[g].sha /\ gate'[g].sha = gate[g].sha
        /\ gate'[g].rows = gate[g].rows \cup {r} /\ gate'[g].tested = gate[g].tested /\ review'[g].at = "none"
    BY <2>1 DEF TypeOK, Gates, NoReview
  <2>3. Clean(g)' => Clean(g) /\ r \notin {"fail", "unrun"}
    BY <2>2 DEF Clean
  <2>4. Clean(g)' => review[g].at = "done" /\ Approves(review[g])
    BY <2>3
  <2>5. Measured(g)'
    BY <1>2, <1>4, <2>2, <2>3, <2>4 DEF Join, At, Measured, WasTested, WasReviewed, InBox
  <2>6. QED BY <1>1, <2>5, OthersMeasured
<1>5. CASE Merges(g) \/ Stamps(g)
  <2>1. gate'[g].at \in {"merged", "gated", "none"} /\ review' = review /\ review[g].at = "none"
    BY <1>2, <1>5 DEF Merges, Stamps, Goes, NoGate, At, TypeOK, Gates, Measured, WasReviewed
  <2>2. Measured(g)'
    BY <2>1 DEF Measured, WasTested, WasReviewed, InBox
  <2>3. QED BY <1>1, <2>2, OthersMeasured
<1>6. QED BY <1>3, <1>4, <1>5

LEMMA AroundMeasured ==
  ASSUME TypeOK, AllMeasured, NEW g \in Items,
         Begins(g) \/ ReviewStarts(g) \/ ReviewAnswers(g) \/ ReviewReads(g) \/ Raises(g) \/ Killed(g) \/ Commits(g)
  PROVE  AllMeasured'
<1>1. UNCHANGED asks /\ \A k \in Items \ {g} : gate'[k] = gate[k] /\ review'[k] = review[k] /\ last'[k] = last[k]
  BY DEF Begins, ReviewStarts, ReviewAnswers, ReviewReads, Raises, Killed, Commits, Reviews, RestOfReview, TypeOK
<1>2. Measured(g)
  BY DEF AllMeasured
<1>3. CASE Begins(g)
  <2>1. gate'[g].at = "preflight" /\ review'[g] = review[g] /\ review[g].at = "none"
    BY <1>2, <1>3 DEF Begins, Running, NoGate, TypeOK, Measured, WasReviewed
  <2>2. gate'[g].at \notin InBox \cup {"join", "verdict"}
    BY <2>1 DEF InBox
  <2>3. WasTested(g)' /\ WasReviewed(g)'
    BY <2>1, <2>2 DEF WasTested, WasReviewed
  <2>4. QED BY <1>1, <2>3, OthersMeasured DEF Measured
<1>4. CASE Raises(g) \/ Killed(g)
  <2>1. gate'[g].at = "none" /\ review'[g].at = "none"
    BY <1>4 DEF Raises, Killed, NoGate, NoReview, TypeOK
  <2>2. QED BY <1>1, <2>1, OthersMeasured DEF Measured, WasTested, WasReviewed, InBox
<1>5. CASE Commits(g)
  BY <1>1, <1>2, <1>5, OthersMeasured DEF Commits, Measured, WasTested, WasReviewed, Clean
<1>6. ASSUME UNCHANGED <<gate, asks>>, WasReviewed(g)' PROVE AllMeasured'
  BY <1>1, <1>2, <1>6, OthersMeasured DEF Measured, WasTested, Clean
<1>7. CASE ReviewStarts(g)
  <2>1. PICK at \in {"asks", "error"} : review'[g] = [review[g] EXCEPT !.at = at]
    BY <1>7 DEF ReviewStarts, Reviews, TypeOK
  <2>2. review'[g].at = at /\ review'[g].ok = review[g].ok /\ review'[g].sha = review[g].sha
    BY <2>1 DEF TypeOK, Reviewing
  <2>3. WasReviewed(g)'
    BY <1>2, <1>7, <2>2 DEF ReviewStarts, RestOfReview, Measured, WasReviewed, Clean
  <2>4. QED BY <1>6, <1>7, <2>3 DEF ReviewStarts, RestOfReview
<1>8. CASE ReviewAnswers(g)
  <2>1. CASE \E v \in {"approve", "needs-attention"} :
                /\ last' = [last EXCEPT ![g] = [sha |-> review[g].sha, verdict |-> v]]
                /\ Reviews(g, [review[g] EXCEPT !.at = "reads", !.ok = TRUE])
    <3>1. /\ review'[g].at = "reads" /\ review'[g].sha = review[g].sha
          /\ last'[g].sha = review[g].sha /\ last'[g] # Nothing
      BY <2>1 DEF Reviews, TypeOK, Reviewing, Nothing
    <3>2. WasReviewed(g)'
      BY <1>2, <1>8, <3>1 DEF ReviewAnswers, RestOfReview, Measured, WasReviewed, Clean
    <3>3. QED BY <1>6, <1>8, <3>2 DEF ReviewAnswers, RestOfReview
  <2>2. CASE \/ Reviews(g, [review[g] EXCEPT !.at = IF @ = "asks" THEN "again" ELSE "reads"])
             \/ Reviews(g, [review[g] EXCEPT !.at = "error"])
    <3>1. review'[g].at \in {"again", "reads", "error"} /\ review'[g].sha = review[g].sha /\ review'[g].ok = review[g].ok
      BY <2>2 DEF Reviews, TypeOK, Reviewing
    <3>2. WasReviewed(g)'
      BY <1>2, <1>8, <3>1 DEF ReviewAnswers, RestOfReview, Measured, WasReviewed, Clean
    <3>3. QED BY <1>6, <1>8, <3>2 DEF ReviewAnswers, RestOfReview
  <2>3. QED BY <1>8, <2>1, <2>2 DEF ReviewAnswers
<1>9. CASE ReviewReads(g)
  <2>1. /\ review'[g].at = "done" /\ review'[g].sha = last[g].sha /\ review'[g].ok = review[g].ok
        /\ review[g].at = "reads" /\ last' = last /\ gate' = gate
    BY <1>9 DEF ReviewReads, Reviews, RestOfReview, TypeOK, Reviewing
  <2>2. WasReviewed(g)'
    BY <1>2, <2>1 DEF Measured, WasReviewed, Clean, Approves
  <2>3. QED BY <1>6, <1>9, <2>2 DEF ReviewReads, RestOfReview
<1>10. QED BY <1>3, <1>4, <1>5, <1>7, <1>8, <1>9

(* A gate that passes saw its own commit pass a suite and a review of that *)
(* commit approve, for any options, locks, kills and earlier gates.        *)
THEOREM PassIsMeasured == GateAssumption /\ Spec => []PassWasMeasured
<1> SUFFICES ASSUME GateAssumption PROVE Spec => []PassWasMeasured
  OBVIOUS
<1>1. Init => AllMeasured
  BY DEF Init, AllMeasured, Measured, WasTested, WasReviewed, NoGate, NoReview, InBox
<1>2. ASSUME TypeOK, AllMeasured, [Next]_vars PROVE AllMeasured'
  <2>1. CASE UNCHANGED <<asks, gate, review, last>>
    BY <1>2, <2>1 DEF AllMeasured, Measured, WasTested, WasReviewed, Clean
  <2>2. CASE WallPasses \/ OrphanEnds \/ Ages
    BY <2>1, <2>2 DEF WallPasses, OrphanEnds, Ages
  <2>3. ASSUME NEW g \in Items, Step(g) PROVE AllMeasured'
    BY <1>2, <2>3, TestingMeasured, EndingMeasured DEF Step
  <2>4. CASE UNCHANGED vars
    BY <2>1, <2>4 DEF vars
  <2>5. QED BY <1>2, <2>2, <2>3, <2>4, AroundMeasured DEF Next
<1>3. AllMeasured => PassWasMeasured
  BY DEF AllMeasured, Measured, WasTested, WasReviewed, PassWasMeasured, Verdict, Clean
<1>4. QED BY <1>1, <1>2, <1>3, GateTypeOK, PTL DEF Spec
=============================================================================
