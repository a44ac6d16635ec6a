------------------------------ MODULE Runners ------------------------------
(***************************************************************************)
(* The runs of models that make up the turns of one item                   *)
(* (vp/vprunners.py): OpenCodeHttpRunner ("http") creates or resumes a     *)
(* session of a model server, posts the prompt and polls the messages;     *)
(* OpenCodeRunner ("cli"), CodexRunner and ClaudeRunner run a command,     *)
(* read its output to the end and have a watchdog thread kill its process  *)
(* group.  Each ends with one status.                                      *)
(*                                                                         *)
(* What the model does meanwhile is external: it adds messages to its      *)
(* session, writes the record file in the worktree, ends.  A request may   *)
(* be refused, or its answer lost; a descendant of a command may leave the *)
(* process group with the output pipe in hand.                             *)
(***************************************************************************)
EXTENDS Naturals, Sequences, FiniteSets, SequencesExt, FiniteSetsExt

CONSTANTS
  None,
  MaxResumes,              \* MAX_RESUMES of the drivers
  MaxRuns, MaxMessages,    \* bounds: runs of the item, messages of one run
  MaxSlips                 \* bound: refused requests, lost answers, escaped descendants

RunnersAssumption ==
  /\ MaxResumes \in Nat /\ MaxRuns \in Nat \ {0} /\ MaxMessages \in Nat \ {0} /\ MaxSlips \in Nat
  /\ None \notin {"DONE", "PROGRESS_STOP"}

VARIABLES
  kind,        \* the runner
  run,         \* [n, at, sid, before, resumes, watch]: the current run and its turn
  msgs,        \* session -> the assistant messages [n, st]: whose run, "open", "done", "error"
  work,        \* the models at work: [n, sid], of which run in which session
  held,        \* an escaped descendant holds the pipe
  lost,        \* runs of which an answer was lost, or whose model was not told to stop
  rec,         \* the record file: None or [n, ok]
  stop, late,  \* the abort flag; the deadline of the run has passed
  outcome,     \* of the last run
  slips

vars == <<kind, run, msgs, work, held, lost, rec, stop, late, outcome, slips>>

Kinds    == {"http", "cli", "codex", "claude"}
OpenCode == {"http", "cli"}
Runs     == 1 .. MaxRuns
Watches  == {"none", "aborted", "timed", "error"}   \* what the watchdog has killed the group for
Provider == {"QUOTA_WEEKLY", "QUOTA_ROLLING", "RATE", "AUTH", "DEGRADED"}
Graded(ok) == IF ok THEN "DONE" ELSE "INCOMPLETE"

TypeOK ==
  /\ kind \in Kinds /\ work \subseteq [n : Runs, sid : Runs] /\ lost \subseteq Runs
  /\ run.n \in 0 .. MaxRuns /\ run.sid \in 0 .. MaxRuns /\ run.resumes \in 0 .. MaxResumes
  /\ run.at \in {"idle", "create", "count", "prompt", "poll", "spawn", "stream", "read"}
  /\ run.watch \in Watches
  /\ msgs \in [Runs -> Seq([n : Runs, st : {"open", "done", "error"}])]
  /\ rec = None \/ rec \in [n : Runs, ok : BOOLEAN]
  /\ {held, stop, late} \subseteq BOOLEAN /\ slips \in 0 .. MaxSlips

Init ==
  /\ kind \in Kinds
  /\ run = [n |-> 0, at |-> "idle", sid |-> 0, before |-> 0, resumes |-> 0, watch |-> "none"]
  /\ msgs = [s \in Runs |-> <<>>]
  /\ work = {} /\ held = FALSE /\ lost = {} /\ rec = None
  /\ stop = FALSE /\ late = FALSE /\ outcome = None /\ slips = 0

Slip     == slips < MaxSlips /\ slips' = slips + 1
NoSlip   == UNCHANGED slips
Me       == [n |-> run.n, sid |-> run.sid]
Goes(at) == run' = [run EXCEPT !.at = at]

----------------------------------------------------------------------------
(* The driver: a turn removes the record of earlier ones and runs the      *)
(* model, again on the same session while an OpenCode run stops without a  *)
(* record.  A drain makes every other outcome than DONE an ABORTED.        *)
First(k) == IF k = "http" THEN "create" ELSE "spawn"

Begin(sid, resumes) ==
  /\ run.at = "idle" /\ run.n < MaxRuns /\ ~stop
  /\ run' = [n |-> run.n + 1, sid |-> sid, before |-> 0, resumes |-> resumes, watch |-> "none",
             at |-> IF kind = "http" /\ sid # 0 THEN "count" ELSE First(kind)]
  /\ late' = FALSE /\ outcome' = None
  /\ UNCHANGED <<kind, msgs, work, held, lost, stop, slips>>

GoesOn == outcome = "PROGRESS_STOP" /\ kind \in OpenCode /\ run.resumes < MaxResumes

Turn    == ~GoesOn /\ (\E sid \in {0, run.sid} : Begin(sid, 0)) /\ rec' = None
Resumes == GoesOn /\ Begin(run.sid, run.resumes + 1) /\ UNCHANGED rec

Stops    == ~stop /\ stop' = TRUE /\ UNCHANGED <<kind, run, msgs, work, held, lost, rec, late, outcome, slips>>
Deadline == ~late /\ run.at # "idle" /\ late' = TRUE
            /\ UNCHANGED <<kind, run, msgs, work, held, lost, rec, stop, outcome, slips>>

(* finish: the run ends with a status.                                     *)
Ends(status) ==
  /\ run' = [run EXCEPT !.at = "idle", !.watch = "none"]
  /\ outcome' = IF stop /\ status # "DONE" THEN "ABORTED" ELSE status
  /\ UNCHANGED <<kind, msgs, held, stop, late>>

Quiet == UNCHANGED <<work, lost, rec>>

----------------------------------------------------------------------------
(* OpenCodeHttpRunner: session, number of messages before, prompt.  A      *)
(* request that finds nobody ends the run as DEGRADED, whether or not the  *)
(* server has taken the prompt.                                            *)
Create ==
  /\ run.at = "create"
  /\ \/ run' = [run EXCEPT !.sid = run.n, !.at = "count"] /\ NoSlip /\ UNCHANGED <<kind, msgs, held, stop, late, outcome>>
     \/ Slip /\ \E s \in {"RUNNER_CRASH", "DEGRADED"} : Ends(s)
  /\ Quiet

(* A count that is answered with an error stays at zero: every message of  *)
(* the session then is one of this run's.                                  *)
Count ==
  /\ run.at = "count"
  /\ \/ run' = [run EXCEPT !.before = Len(msgs[run.sid]), !.at = "prompt"]
        /\ NoSlip /\ Quiet /\ UNCHANGED <<kind, msgs, held, stop, late, outcome>>
     \/ Slip /\ Goes("prompt") /\ lost' = lost \cup {run.n}
        /\ UNCHANGED <<kind, msgs, work, held, rec, stop, late, outcome>>
     \/ Slip /\ Ends("DEGRADED") /\ Quiet

Prompt ==
  /\ run.at = "prompt"
  /\ \/ Goes("poll") /\ work' = work \cup {Me} /\ NoSlip /\ UNCHANGED <<kind, msgs, held, lost, rec, stop, late, outcome>>
     \/ Slip /\ Quiet /\ \E s \in Provider \cup {"RUNNER_CRASH"} : Ends(s)
     \/ Slip /\ Ends("DEGRADED") /\ work' = work \cup {Me} /\ lost' = lost \cup {run.n} /\ UNCHANGED rec

(* The poll: STOP, then the deadline, then the messages.  _abort is posted *)
(* once and its answer not looked at.                                      *)
Aborts ==
  \/ NoSlip /\ work' = {w \in work : w.sid # run.sid} /\ UNCHANGED <<lost, rec>>
  \/ Slip /\ lost' = lost \cup {run.n} /\ UNCHANGED <<work, rec>>

Mine       == SubSeq(msgs[run.sid], run.before + 1, Len(msgs[run.sid]))
Failed     == \E k \in DOMAIN Mine : Mine[k].st = "error"
Completed  == Mine # <<>> /\ Last(Mine).st \in {"done", "error"}

PollStops == run.at = "poll" /\ stop /\ Aborts /\ Ends("ABORTED")
PollEnds  == run.at = "poll" /\ ~stop /\ late /\ Aborts /\ Ends("RUNNER_TIMEOUT")
Poll ==
  /\ run.at = "poll" /\ ~stop /\ ~late
  /\ NoSlip /\ Quiet
  /\ \/ Failed /\ \E s \in Provider : Ends(s)
     \/ ~Failed /\ Completed /\ Goes("read") /\ UNCHANGED <<kind, msgs, held, stop, late, outcome>>

----------------------------------------------------------------------------
(* Exec.stream: the command runs in a session of its own; a watchdog looks *)
(* at the abort flag and the deadline while the pipe is open and kills the *)
(* group.  The reader goes on until the pipe closes.  What a killed        *)
(* OpenCode client leaves running in its server nobody tells to stop.      *)
Spawn ==
  /\ run.at = "spawn"
  /\ \/ LET sid == IF run.sid = 0 THEN run.n ELSE run.sid IN
          /\ run' = [run EXCEPT !.sid = sid, !.at = "stream"]
          /\ work' = work \cup {[n |-> run.n, sid |-> sid]}
        /\ NoSlip /\ UNCHANGED <<kind, msgs, held, lost, rec, stop, late, outcome>>
     \/ Slip /\ Quiet /\ Ends("RUNNER_CRASH")

HasFailed == \E k \in DOMAIN msgs[run.sid] : msgs[run.sid][k] = [n |-> run.n, st |-> "error"]

KillGroup(why) ==
  /\ run.at = "stream" /\ run.watch = "none" /\ (Me \in work \/ held)
  /\ run' = [run EXCEPT !.watch = why]
  /\ IF kind = "cli" /\ Me \in work /\ ~HasFailed
     THEN lost' = lost \cup {run.n} /\ UNCHANGED work
     ELSE work' = work \ {Me} /\ UNCHANGED lost
  /\ UNCHANGED <<kind, msgs, held, rec, stop, late, outcome, slips>>

(* session_error of the cli's watchdog reads every message of the session, *)
(* those of earlier runs as well.                                          *)
SessionError == kind = "cli" /\ \E k \in DOMAIN msgs[run.sid] : msgs[run.sid][k].st = "error"

WatchdogStops == stop /\ KillGroup("aborted")
WatchdogEnds  == ~stop /\ late /\ KillGroup("timed")
WatchdogError == run.at = "stream" /\ ~stop /\ SessionError /\ KillGroup("error")

StreamEnds ==
  /\ run.at = "stream" /\ ~held /\ (Me \in work => run.watch # "none")
  /\ Goes("read") /\ NoSlip /\ Quiet /\ UNCHANGED <<kind, msgs, held, stop, late, outcome>>

----------------------------------------------------------------------------
(* How a run is judged.  What has killed it comes first and its record     *)
(* file, where it is looked at, hides what its output says; the output     *)
(* itself is free.  Codex and Claude print the record and the runner       *)
(* writes it, as it writes the one an OpenCode role that cannot write      *)
(* fences in its text.                                                     *)
Says(S) == [status : S, taken : {FALSE}]
Fence   == [status : {"DONE", "INCOMPLETE"}, taken : {TRUE}]
Record  == Says({Graded(rec.ok)})

KilledAs == [aborted |-> Says({"ABORTED"}), timed |-> Says({"RUNNER_TIMEOUT"}), error |-> Says(Provider)]
Killed   == run.watch \in DOMAIN KilledAs

HttpResults ==
  Says({"MODEL_MISMATCH"})
    \cup IF rec # None THEN Record
         ELSE Fence \cup Says({"RUNNER_DENIED", "RUNNER_REFUSED", "RUNNER_EMPTY", "PROGRESS_STOP"})

CliResults ==
  Says(Provider \cup {"SESSION_MISMATCH"})
    \cup IF rec # None THEN Record
         ELSE Fence \cup Says({"RUNNER_DENIED", "RUNNER_CRASH", "RUNNER_REFUSED", "RUNNER_EMPTY", "PROGRESS_STOP"})

CodexResults ==
  Fence \cup Says((Provider \ {"RATE"}) \cup {"MODEL_MISMATCH", "RUNNER_REFUSED", "RUNNER_CRASH", "RUNNER_EMPTY", "INCOMPLETE"})

ClaudeResults ==
  Fence \cup Says({"RATE", "AUTH", "RUNNER_CRASH", "INCOMPLETE"})
    \cup IF rec # None THEN Record ELSE Says({"RUNNER_DENIED", "RUNNER_REFUSED", "RUNNER_EMPTY"})

Results ==
  IF Killed THEN KilledAs[run.watch]
  ELSE CASE kind = "http" -> HttpResults [] kind = "cli" -> CliResults
         [] kind = "codex" -> CodexResults [] kind = "claude" -> ClaudeResults

Read ==
  /\ run.at = "read" /\ NoSlip /\ UNCHANGED <<work, lost>>
  /\ \E r \in Results :
       /\ Ends(r.status)
       /\ rec' = IF r.taken THEN [n |-> run.n, ok |-> r.status = "DONE"] ELSE rec

----------------------------------------------------------------------------
(* External: the models at work.  A run's messages follow one another      *)
(* without a gap; the client of a session that failed does not end.        *)
Model == UNCHANGED <<kind, run, lost, stop, late, outcome>>

Own(w)    == {k \in DOMAIN msgs[w.sid] : msgs[w.sid][k].n = w.n}
OpenOf(w) == {k \in Own(w) : msgs[w.sid][k].st = "open"}
Adds(w, s)  == Append(s, [n |-> w.n, st |-> "open"])
Closed(w, st) == [k \in DOMAIN msgs[w.sid] |-> IF k \in OpenOf(w) THEN [n |-> w.n, st |-> st] ELSE msgs[w.sid][k]]
Session(w, s) == msgs' = [msgs EXCEPT ![w.sid] = s]

Opens(w)    == Own(w) = {} /\ Session(w, Adds(w, msgs[w.sid])) /\ UNCHANGED work
Steps(w)    == OpenOf(w) # {} /\ Cardinality(Own(w)) < MaxMessages /\ Session(w, Adds(w, Closed(w, "done"))) /\ UNCHANGED work
Finishes(w) == OpenOf(w) # {} /\ Session(w, Closed(w, "done")) /\ work' = work \ {w}
Fails(w)    == OpenOf(w) # {} /\ Session(w, Closed(w, "error")) /\ work' = IF kind = "cli" THEN work ELSE work \ {w}
Exits(w)    == work' = work \ {w} /\ UNCHANGED msgs
Writes(w)   == \E ok \in BOOLEAN : rec' = [n |-> w.n, ok |-> ok]

Works(w) ==
  /\ w \in work /\ Model /\ NoSlip /\ UNCHANGED held
  /\ \/ kind \in OpenCode /\ (Opens(w) \/ Steps(w) \/ Finishes(w) \/ Fails(w)) /\ UNCHANGED rec
     \/ kind \notin OpenCode /\ Exits(w) /\ UNCHANGED rec
     \/ Writes(w) /\ UNCHANGED <<msgs, work>>

Escapes     == run.at = "stream" /\ Me \in work /\ ~held /\ Slip /\ held' = TRUE /\ Model /\ UNCHANGED <<msgs, work, rec>>
EscapedEnds == held /\ held' = FALSE /\ NoSlip /\ Model /\ UNCHANGED <<msgs, work, rec>>

----------------------------------------------------------------------------
RunnerStep ==
  \/ Create \/ Count \/ Prompt \/ PollStops \/ PollEnds \/ Poll
  \/ Spawn \/ WatchdogStops \/ WatchdogEnds \/ WatchdogError \/ StreamEnds \/ Read

Next ==
  \/ Turn \/ Resumes \/ Stops \/ Deadline \/ RunnerStep
  \/ \E w \in work : Works(w)
  \/ Escapes \/ EscapedEnds

(* Requests time out, threads are scheduled and clocks go on; nothing is   *)
(* asked of the models and the server.                                     *)
Fairness == WF_vars(RunnerStep) /\ WF_vars(Deadline)

Spec == Init /\ [][Next]_vars /\ Fairness

----------------------------------------------------------------------------
Over(n)     == n < run.n \/ run.at = "idle"
LostBy(n)   == \E l \in lost : l =< n

(* Two models never work on one worktree: when a run has ended, its model  *)
(* has too, unless an answer of it or of an earlier run was lost, or a     *)
(* client was killed.                                                      *)
NoneLeftBehind == \A w \in work : Over(w.n) => LostBy(w.n)

(* A DONE is said of the record the run itself, or the turn it resumes,    *)
(* has written.                                                            *)
DoneIsOwn == outcome = "DONE" => rec.n = run.n \/ LostBy(run.n)

(* Every run ends, whether the server answers or not, as long as no        *)
(* descendant that escaped holds the pipe.                                 *)
Ended   == run.at = "idle" \/ held
RunEnds == []<>Ended
=============================================================================
