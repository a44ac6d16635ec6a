----------------------------- MODULE Dispatcher -----------------------------
(***************************************************************************)
(* The dispatcher daemon (dispatcher.py with autogate.py): a tick under    *)
(* the queue's lock applies BOSS's requests, collects merge gates and      *)
(* visits every executor session: it clears, resumes, continues, parks or  *)
(* reports what the session's newest message says, launches merge gates    *)
(* and feeds queued items.  Sessions, merge gates and BOSS go on           *)
(* meanwhile; queue and state are saved one after the other at the end of  *)
(* a tick, and the daemon may die at any point of it.                      *)
(*                                                                         *)
(* What a tick works on is the record w; what it does to it are operators  *)
(* from such a record to the next.  Times are nondeterministic: a cut turn *)
(* is one that was inert for long enough.                                  *)
(***************************************************************************)
EXTENDS Naturals, Sequences, FiniteSets, SequencesExt

CONSTANTS
  Queue,              \* the items in the order of queue.json
  Execs,              \* the executors of the roster
  Tree,               \* item -> its worktree (and lane)
  Deps,               \* item -> the items it depends on
  Box,                \* items whose gate needs the box
  PlanReview,         \* the PLANREVIEW file is there
  MaxFeed, MaxAuto, MaxParks, MaxReworks,      \* max_dispatch_per_tick, max_auto_continue, max_parks_per_hour, MAX_AUTO_FAILS
  MaxTurns, MaxTrouble                         \* bounds: turns of a session; BOSS's moves, outages and deaths

Items == ToSet(Queue)
ASSUME DispatcherAssumption ==
  /\ Tree \in [Items -> Items] /\ Deps \in [Items -> SUBSET Items] /\ Box \subseteq Items /\ PlanReview \in BOOLEAN
  /\ \A n \in {MaxFeed, MaxAuto, MaxParks, MaxReworks, MaxTurns, MaxTrouble} : n \in Nat

VARIABLES
  w,          \* the queue and the state as the daemon has them, the sessions and the gates
  disk,       \* queue.json and state.json
  proc,       \* [up, at, left, fed, recovered]: where the tick is
  req,        \* request files: <<"gate", i>>, <<"answer", i>>
  net,        \* the opencode server answers
  observe,    \* the OBSERVE file is there
  spent       \* [trouble, turns]: against the bounds

vars == <<w, disk, proc, req, net, observe, spent>>

None == "none"
Statuses  == {"queued", "dispatched", "reported", "rework", "parked", "gated", "merged"}
Current   == {"dispatched", "rework", "reported"}                   \* CURRENT_STATUS
Unfinished  == Current \cup {"gated", "parked"}                     \* UNFINISHED
LaneHolding == Current \cup {"gated"}                               \* LANE_HOLDING
Working == {"QUEUED", "LOST", "BUSY", "CUT"}                        \* LOST: queued, and no turn will take it
Bodies(kind) == CASE kind = "REPORT_READY" -> {"good", "noline", "idle"}   \* idle names no report, noline no interrupt test
                  [] kind = "ERROR" -> {"retryable", "fatal"}
                  [] OTHER -> {""}
Stops == {"REPORT_READY", "QUESTION", "ACK", "PLAN_READY", "PROGRESS_STOP", "ERROR", "WAITING"}
FeedKinds == {"REPORT_READY", "QUESTION", "ACK"}                    \* FEED_KINDS

First(S) == LET at == SelectSeq(Queue, LAMBDA i : i \in S) IN IF at = <<>> THEN None ELSE Head(at)
HeldIn(v, e, sts) == {i \in Items : v.row[i].to = e /\ v.row[i].st \in sts}
Cur(v, e) == First(HeldIn(v, e, Current))                           \* current_item
Gating(v) == {i \in Items : v.gate[i] # None}                       \* running_gate_items
GatedFor(v, e) == First({i \in Items : v.row[i].to = e /\ (v.row[i].st = "gated" \/ i \in Gating(v))})

TypeOK ==
  /\ \A i \in Items : /\ w.row[i].st \in Statuses /\ w.row[i].to \in Execs \cup {None} /\ w.row[i].pin \in Execs \cup {None}
                      /\ w.row[i].from \in {None} \cup Current /\ w.gate[i] \in {None, "runs", "wrote"}
                      /\ w.fails[i] <= MaxReworks
  /\ \A e \in Execs : /\ w.msg[e].kind \in Working \cup Stops /\ w.about[e] \in Items \cup {None}
                      /\ w.know[e].auto <= MaxAuto /\ w.know[e].parks <= MaxParks
                      /\ w.know[e].pend \in {None, "STUCK"} \cup Stops
  /\ w.hold \subseteq Execs /\ proc.fed <= MaxFeed

Trouble == spent.trouble < MaxTrouble /\ spent' = [spent EXCEPT !.trouble = @ + 1]

----------------------------------------------------------------------------
(* What the parts of a tick do.                                            *)
CanPost == net /\ ~observe
Mark(v, e, m) == [v EXCEPT !.know[e].marks = @ \cup {m}]
Marked(v, e, m) == m \in v.know[e].marks

(* post_prompt: the prompt is the newest message then                      *)
Post(v, e) ==
  IF CanPost THEN [v EXCEPT !.msg[e] = [kind |-> "QUEUED", body |-> ""], !.know[e].marks = {}] ELSE v

(* launch_gate                                                             *)
Launchable(v, i) == ~observe /\ (i \in Box => Gating(v) = {})
LaunchGate(v, i, source) ==
  IF Launchable(v, i)
  THEN [v EXCEPT !.gate[i] = "runs", !.md[i] = None, !.flight[i] = source, !.row[i].st = "gated"] ELSE v

(* eligible_item: dependencies done, nobody else on the lane or worktree   *)
Shared(i)  == {j \in Items \ {i} : Tree[j] = Tree[i]}
DepsOk(v, i) == \A d \in Deps[i] : v.row[d].st = "merged"
LaneOccupied(v, i) == \E j \in Shared(i) : v.row[j].st \in LaneHolding \/ j \in Gating(v)
WorktreeClaim(v, i) == \E j \in Shared(i) : v.row[j].st \in Unfinished
Faulty_Eligible(v, e) ==
  {i \in Items : /\ v.row[i].st = "queued" /\ v.row[i].pin \in {None, e} /\ DepsOk(v, i)
                 /\ \A j \in Shared(i) : v.row[j].st # "dispatched"}

Eligible(v, e) ==
  {i \in Items : /\ v.row[i].st = "queued" /\ v.row[i].pin \in {None, e}
                 /\ DepsOk(v, i) /\ ~WorktreeClaim(v, i) /\ ~LaneOccupied(v, i)}

(* the last part of feed, and dispatch                                     *)
FeedNext(v, e) ==
  LET i == First(Eligible(v, e)) IN
  IF i = None \/ ~CanPost THEN v
  ELSE [Post(v, e) EXCEPT !.row[i].st = "dispatched", !.row[i].to = e, !.about[e] = i]

(* feed                                                                    *)
Reported(v, e, i) ==
  LET u == [v EXCEPT !.row[i].st = "reported"] IN
  CASE v.msg[e].body = "idle"   -> FeedNext(u, e)
    [] v.msg[e].body = "noline" -> IF Marked(v, e, "skipped") THEN u ELSE Post(Mark(u, e, "skipped"), e)
    [] OTHER -> FeedNext(LaunchGate(u, i, "report"), e)

Parked(v, e, i) ==
  LET n == v.know[e].parks + 1
      u == [v EXCEPT !.row[i].from = v.row[i].st, !.row[i].st = "parked", !.know[e].parks = n] IN
  IF n >= MaxParks THEN [u EXCEPT !.hold = @ \cup {e}] ELSE FeedNext(u, e)

Feed(v, e) ==
  LET i == Cur(v, e)  kind == v.msg[e].kind IN
  IF e \in v.hold THEN v ELSE
  CASE i = None /\ kind = "REPORT_READY" /\ HeldIn(v, e, {"gated"}) # {} ->
         IF Marked(v, e, "skipped") THEN v ELSE Post(Mark(v, e, "skipped"), e)
    [] i = None /\ kind = "REPORT_READY" /\ HeldIn(v, e, {"gated"}) = {} /\ HeldIn(v, e, {"parked"}) # {} ->
         Post(Mark(v, e, "escalated"), e)
    [] i # None /\ kind = "REPORT_READY" -> Reported(v, e, i)
    [] i # None /\ kind = "QUESTION" -> Parked(v, e, i)
    [] i # None /\ kind \notin {"REPORT_READY", "QUESTION"} -> v
    [] OTHER -> FeedNext(v, e)

(* withdraw_idle_row: the message raises no row for BOSS                   *)
Withdrawn(v, e) ==
  /\ v.msg[e].kind = "REPORT_READY" /\ e \notin v.hold
  /\ IF Cur(v, e) = None THEN HeldIn(v, e, {"gated"}) # {} ELSE v.msg[e].body = "idle"

MayFeed == proc.fed < MaxFeed
Faulty_FeedWhenIdle(v, e) == Cur(v, e) = None /\ v.msg[e].kind = "REPORT_READY"

FeedWhenIdle(v, e) ==
  /\ Cur(v, e) = None
  /\ \/ v.msg[e].kind \in FeedKinds
     \/ v.msg[e].kind = "PROGRESS_STOP" /\ GatedFor(v, e) = None

(* check_stall, check_dead, check_session_idle                             *)
Resume(v, e) ==
  IF v.know[e].resumed \/ ~CanPost THEN Mark([v EXCEPT !.know[e].resumed = TRUE], e, "escalated")
  ELSE Post([v EXCEPT !.know[e].resumed = TRUE], e)
Stalled(v, e) == v.msg[e].kind = "CUT" /\ ~Marked(v, e, "stalled")
Dead(v, e) == v.msg[e].kind = "LOST" /\ Cur(v, e) # None
Watch(v, e) ==
  IF Stalled(v, e) THEN Resume(Mark(v, e, "stalled"), e) ELSE IF Dead(v, e) THEN Mark(v, e, "escalated") ELSE v
Clears(v, e) ==
  IF v.know[e].pend = None THEN v
  ELSE [v EXCEPT !.know[e].pend = None, !.know[e].parks = 0, !.hold = @ \ {e}]      \* and release_hold

Pending(v, e, kind) ==
  LET p == [v EXCEPT !.know[e].auto = IF kind = "STUCK" THEN @ ELSE 0, !.know[e].pend = kind] IN
  IF kind \notin FeedKinds \/ ~MayFeed THEN p
  ELSE IF Withdrawn(v, e) THEN [Feed(p, e) EXCEPT !.know[e].pend = None] ELSE Feed(p, e)

(* tick, a message not seen before                                         *)
Continues(v, e) ==
  IF CanPost THEN [Post(v, e) EXCEPT !.know[e].auto = @ + 1] ELSE v
Stopped(v, e) ==
  LET i == Cur(v, e)  kind == v.msg[e].kind  calm == [v EXCEPT !.know[e].auto = 0] IN
  CASE kind = "PLAN_READY" -> IF PlanReview /\ i # None THEN [v EXCEPT !.review[e] = TRUE] ELSE Post(v, e)
    [] kind = "PROGRESS_STOP" ->
         IF GatedFor(v, e) # None \/ (i = None /\ ~MayFeed) THEN calm
         ELSE IF i = None THEN Feed(calm, e)
         ELSE IF v.know[e].auto < MaxAuto THEN Continues(v, e) ELSE Pending(v, e, "STUCK")
    [] kind = "ACK" -> IF i # None THEN Post(calm, e) ELSE IF MayFeed THEN Feed(calm, e) ELSE calm
    [] OTHER -> Pending(v, e, kind)

(* tick, one executor; first prune_superseded_error                        *)
Visit(v0, e) ==
  LET kind == v0.msg[e].kind
      v == IF v0.know[e].pend = "ERROR" /\ kind # "ERROR" THEN [v0 EXCEPT !.know[e].pend = None] ELSE v0 IN
  IF kind \in Working THEN Clears(Watch(v, e), e) ELSE
  CASE kind = "ERROR" /\ ~Marked(v, e, "handled") /\ v.msg[e].body = "retryable" ->
         LET u == Resume(v, e) IN IF u.msg[e].kind = "QUEUED" THEN u ELSE Stopped(Mark(u, e, "handled"), e)
    [] Marked(v, e, "handled") ->
         IF kind = "ACK" /\ Cur(v, e) # None THEN Post(v, e)
         ELSE IF FeedWhenIdle(v, e) /\ MayFeed THEN Feed(v, e) ELSE v
    [] OTHER -> Stopped(Mark(v, e, "handled"), e)

----------------------------------------------------------------------------
(* Requests and gates.                                                     *)

(* recover_missed_reports, once in the life of a process                   *)
Recover(v, e) ==
  LET i == Cur(v, e) IN
  IF /\ v.msg[e].kind = "REPORT_READY" /\ v.msg[e].body # "idle" /\ Marked(v, e, "handled") /\ i # None
     /\ v.know[e].marks \cap {"recovered", "judged"} = {}
  THEN IF v.flight[i] = None THEN LaunchGate(Mark(v, e, "recovered"), i, "recovery") ELSE v
  ELSE v

(* apply_gate_requests                                                     *)
GateAsked(v, i) ==
  IF v.row[i].st \in Current /\ v.flight[i] = None THEN LaunchGate(v, i, "manual") ELSE v

(* apply_answer_requests: posted, then un-parked, or neither               *)
Faulty_Restored(v, i, e) == IF v.row[i].from = None THEN "dispatched" ELSE v.row[i].from

Restored(v, i, e) ==
  IF HeldIn(v, e, Current) \ {i} # {} THEN "queued" ELSE IF v.row[i].from = None THEN "dispatched" ELSE v.row[i].from
Answered(v, i) ==
  LET e == v.row[i].to  back == Restored(v, i, e) IN
  IF v.row[i].st # "parked" \/ ~CanPost THEN v
  ELSE [Post(v, e) EXCEPT !.row[i] = [st |-> back, to |-> IF back = "queued" THEN None ELSE e, pin |-> IF back = "queued" THEN e ELSE @.pin,
                                      from |-> None, ans |-> TRUE],
                          !.about[e] = i, !.know[e].pend = IF @ = "QUESTION" THEN None ELSE @]

(* collect_gates, send_rework: not posted, it is BOSS who is told          *)
MayRework(v, i) == v.fails[i] < MaxReworks
Rework(v, i) ==
  LET e == v.row[i].to IN
  IF CanPost /\ e # None THEN [Post(v, e) EXCEPT !.fails[i] = @ + 1, !.row[i].st = "rework", !.about[e] = i]
  ELSE [v EXCEPT !.told = @ \cup {i}]
Collected(v, i) ==
  LET u == [v EXCEPT !.flight[i] = None] IN
  IF v.flight[i] = None \/ (v.md[i] = None /\ v.gate[i] # None) THEN v ELSE
  CASE v.md[i] = None -> [u EXCEPT !.told = @ \cup {i}]      \* three hours without a file
    [] v.md[i] = "findings" /\ MayRework(v, i) -> Rework(u, i)
    [] OTHER -> [u EXCEPT !.row[i].st = "reported", !.told = @ \cup {i}]

(* clear_feed_holds_for_answered                                           *)
AnsweredExecs(v) == {e \in Execs : \E i \in Items : v.row[i].st = "queued" /\ v.row[i].ans /\ v.row[i].pin = e}
FeedAgain(v) ==
  [v EXCEPT !.hold = @ \ AnsweredExecs(v), !.know = [e \in Execs |-> IF e \in v.hold \cap AnsweredExecs(v) THEN [@[e] EXCEPT !.parks = 0] ELSE @[e]]]

Asked(what) == SelectSeq(Queue, LAMBDA i : <<what, i>> \in req)

----------------------------------------------------------------------------
(* The tick.                                                               *)
Idle == [up |-> TRUE, at |-> "idle", left |-> {}, fed |-> 0, recovered |-> TRUE]
Locked == proc.up /\ proc.at \in {"begin", "loop"}               \* queue_lock
At(at) == proc.up /\ proc.at = at
Queued(v) == v.row
State(v) == [know |-> v.know, flight |-> v.flight, fails |-> v.fails]

TickBegins ==
  /\ At("idle") /\ proc' = [proc EXCEPT !.at = "begin", !.left = IF net THEN Execs ELSE {}, !.fed = 0]
  /\ UNCHANGED <<w, disk, req, net, observe, spent>>

TickRequests ==
  /\ At("begin")
  /\ LET a == IF net /\ ~proc.recovered THEN FoldLeft(Recover, w, SetToSeq(Execs)) ELSE w
         b == FoldLeft(GateAsked, a, Asked("gate"))
         c == FoldLeft(Answered, b, Asked("answer")) IN
     w' = FoldLeft(Collected, c, Queue)
  /\ req' = {} /\ proc' = [proc EXCEPT !.at = "loop", !.recovered = @ \/ net]
  /\ UNCHANGED <<disk, net, observe, spent>>

Fed(v, u) == \E i \in Items : v.row[i].st = "queued" /\ u.row[i].st = "dispatched"
TickVisits ==
  /\ At("loop") /\ proc.left # {}
  /\ LET e == CHOOSE e \in proc.left : TRUE IN
     /\ w' = Visit(w, e)
     /\ proc' = [proc EXCEPT !.left = @ \ {e}, !.fed = IF Fed(w, Visit(w, e)) THEN @ + 1 ELSE @]
     /\ disk' = IF w'.msg[e] = w.msg[e] THEN disk ELSE [disk EXCEPT !.state.know[e].marks = {}]
  /\ UNCHANGED <<req, net, observe, spent>>

SavesQueue ==
  /\ At("loop") /\ proc.left = {}
  /\ w' = FeedAgain(w) /\ disk' = [disk EXCEPT !.queue = Queued(FeedAgain(w))]
  /\ proc' = [proc EXCEPT !.at = "saved"]
  /\ UNCHANGED <<req, net, observe, spent>>

SavesState ==
  /\ At("saved") /\ disk' = [disk EXCEPT !.state = State(w)] /\ proc' = [proc EXCEPT !.at = "idle"]
  /\ UNCHANGED <<w, req, net, observe, spent>>

(* start_plan_review's thread                                              *)
PlanReviewed(e) ==
  /\ proc.up /\ w.review[e]
  /\ w' = [IF CanPost THEN Post(w, e) ELSE Mark(w, e, "escalated") EXCEPT !.review[e] = FALSE]
  /\ disk' = IF CanPost THEN [disk EXCEPT !.state.know[e].marks = {}] ELSE disk
  /\ UNCHANGED <<proc, req, net, observe, spent>>

WindowOver(e) ==
  /\ At("idle")
  /\ \/ w' = [w EXCEPT !.know[e].resumed = FALSE]
     \/ w' = [w EXCEPT !.know[e].parks = 0]
  /\ w' # w /\ disk' = [disk EXCEPT !.state = State(w')]
  /\ UNCHANGED <<proc, req, net, observe, spent>>

Dies == 
  /\ proc.up /\ Trouble /\ proc' = [Idle EXCEPT !.up = FALSE, !.recovered = FALSE]
  /\ w' = [w EXCEPT !.row = disk.queue, !.know = disk.state.know, !.flight = disk.state.flight, !.fails = disk.state.fails,
                    !.review = [e \in Execs |-> FALSE]]
  /\ UNCHANGED <<disk, req, net, observe>>
Starts ==
  /\ ~proc.up /\ proc' = [proc EXCEPT !.up = TRUE]
  /\ UNCHANGED <<w, disk, req, net, observe, spent>>

----------------------------------------------------------------------------
(* The sessions: a prompt is taken, a turn ends or is cut.                 *)
NewMessage(e, kind, body) ==
  /\ w' = [w EXCEPT !.msg[e] = [kind |-> kind, body |-> body], !.know[e].marks = {}]
  /\ disk' = [disk EXCEPT !.state.know[e].marks = {}]
  /\ UNCHANGED <<proc, req, net, observe>>
Takes(e) ==
  /\ w.msg[e].kind = "QUEUED" /\ spent.turns[e] < MaxTurns
  /\ spent' = [spent EXCEPT !.turns[e] = @ + 1] /\ NewMessage(e, "BUSY", "")
Ends(e) ==
  /\ w.msg[e].kind = "BUSY" /\ \E kind \in Stops : \E body \in Bodies(kind) : NewMessage(e, kind, body)
  /\ UNCHANGED spent
Breaks(e) ==
  /\ w.msg[e].kind \in {"BUSY", "QUEUED"} /\ Trouble
  /\ NewMessage(e, IF w.msg[e].kind = "BUSY" THEN "CUT" ELSE "LOST", "")

(* mergegate.py: the file, and minutes later the row under the lock        *)
Gates(i) ==
  /\ w.gate[i] = "runs"
  /\ \E v \in {"pass", "findings", "other"} :
       w' = [w EXCEPT !.gate[i] = "wrote", !.md[i] = v,
                      !.know = [e \in Execs |-> IF w.row[i].to = e THEN [@[e] EXCEPT !.marks = @ \cup {"judged"}] ELSE @[e]]]
  /\ UNCHANGED <<disk, proc, req, net, observe, spent>>
GateDies(i) ==
  /\ w.gate[i] = "runs" /\ Trouble /\ w' = [w EXCEPT !.gate[i] = None]
  /\ UNCHANGED <<disk, proc, req, net, observe>>
GateStamps(i) ==
  /\ w.gate[i] = "wrote" /\ ~Locked
  /\ w' = [w EXCEPT !.gate[i] = None, !.row[i].st = "gated"] /\ disk' = [disk EXCEPT !.queue = w'.row]
  /\ UNCHANGED <<proc, req, net, observe, spent>>

(* BOSS: requests, queuectl, merging by hand, clearing a row, the files    *)
Edit(i, r) == w' = [w EXCEPT !.row[i] = r] /\ disk' = [disk EXCEPT !.queue[i] = r]
Boss(i) ==
  /\ Trouble /\ UNCHANGED <<proc, net>>
  /\ \/ \E what \in {"gate", "answer"} : req' = req \cup {<<what, i>>} /\ req' # req /\ UNCHANGED <<w, disk, observe>>
     \/ /\ ~Locked /\ w.row[i].st # "queued" /\ UNCHANGED <<req, observe>>
        /\ Edit(i, [w.row[i] EXCEPT !.st = "queued", !.to = None])
     \/ observe' = ~observe /\ UNCHANGED <<w, disk, req>>
Merges(i) ==
  /\ ~Locked /\ w.row[i].st = "reported" /\ i \in w.told /\ Edit(i, [w.row[i] EXCEPT !.st = "merged"])
  /\ UNCHANGED <<proc, req, net, observe, spent>>
Outage ==
  /\ \/ net /\ Trouble /\ net' = FALSE
     \/ ~net /\ net' = TRUE /\ UNCHANGED spent
  /\ UNCHANGED <<w, disk, proc, req, observe>>

----------------------------------------------------------------------------
Fresh == [marks |-> {}, auto |-> 0, parks |-> 0, resumed |-> FALSE, pend |-> None]
Init ==
  /\ w = [row |-> [i \in Items |-> [st |-> "queued", to |-> None, pin |-> None, from |-> None, ans |-> FALSE]],
          msg |-> [e \in Execs |-> [kind |-> "ACK", body |-> ""]], about |-> [e \in Execs |-> None],
          know |-> [e \in Execs |-> Fresh], flight |-> [i \in Items |-> None], fails |-> [i \in Items |-> 0],
          hold |-> {}, gate |-> [i \in Items |-> None], md |-> [i \in Items |-> None],
          review |-> [e \in Execs |-> FALSE], told |-> {}]
  /\ disk = [queue |-> Queued(w), state |-> State(w)]
  /\ proc = Idle /\ req = {} /\ net = TRUE /\ observe = FALSE
  /\ spent = [trouble |-> 0, turns |-> [e \in Execs |-> 0]]

Tick == TickBegins \/ TickRequests \/ TickVisits \/ SavesQueue \/ SavesState
Session(e) == Takes(e) \/ Ends(e)
Next ==
  \/ Tick \/ Dies \/ Starts \/ Outage
  \/ \E e \in Execs : PlanReviewed(e) \/ WindowOver(e) \/ Session(e) \/ Breaks(e)
  \/ \E i \in Items : Gates(i) \/ GateDies(i) \/ GateStamps(i) \/ Boss(i) \/ Merges(i)

Fairness ==
  /\ WF_vars(Tick) /\ WF_vars(Starts) /\ WF_vars(~net /\ Outage)
  /\ \A e \in Execs : WF_vars(PlanReviewed(e)) /\ WF_vars(Session(e))
  /\ \A i \in Items : WF_vars(Gates(i)) /\ WF_vars(GateStamps(i))

Spec == Init /\ [][Next]_vars /\ Fairness

----------------------------------------------------------------------------
(* Two items of one worktree are never with two executors at work: not     *)
(* after a park and its answer, a rework, a gate that comes back late      *)
(* (eligible_item, busy_worktrees, lane_occupied).                         *)
AtWork == {i \in Items : w.row[i].st \in {"dispatched", "rework"}}
OneBuilderPerWorktree == \A i, j \in AtWork : i = j \/ Tree[i] # Tree[j]

(* An executor that holds at most one item never has two of them           *)
(* dispatched after the next step: an answer that comes when it has been   *)
(* given another item queues the parked one, two answers of one tick       *)
(* restore one of them, and a feed takes the place of what it closes       *)
(* (apply_answer_requests, the comment at 1299; feed).                     *)
Booked(v, e) == Cardinality(HeldIn(v, e, Current))
BookedOnce ==
  [][\A e \in Execs : proc.up /\ proc'.up /\ Booked(w, e) <= 1 => Cardinality(HeldIn(w', e, {"dispatched"})) <= 1]_vars

(* A stop BOSS must see is on the board once its tick is over: a question, *)
(* a fatal error, a report with a verdict to give.                         *)
StopIsOnBoard ==
  proc.at = "idle" =>
    \A e \in Execs : Marked(w, e, "handled") /\ w.msg[e].kind \in {"QUESTION", "ERROR", "WAITING"} =>
      w.know[e].pend = w.msg[e].kind

(* Promises of the comments and docstrings that an interleaving, a crash   *)
(* or an outage breaks.                                                    *)

(* An executor is sent to work on a second item only as rework             *)
(* (current_items, "normally one, occasionally two"): with a reported item *)
(* it has not closed, its next report is booked on that one, and the feed  *)
(* that follows dispatches beside the item the report was about.           *)
OneDispatchEach == \A i, j \in Items : w.row[i].st = "dispatched" /\ w.row[j].st = "dispatched" /\ w.row[i].to = w.row[j].to => i = j

(* A gate is launched once for a report: none is launched for an item      *)
(* whose gate still runs (recover_missed_reports, launch_gate).            *)
LaunchedOnce == [][\A i \in Items : w.gate[i] = "runs" => ~(w.flight[i] = None /\ w'.flight[i] # None)]_vars

(* A verdict stays what the row says until somebody acts on it.            *)
GatedIsInFlight == proc.at = "idle" => \A i \in Items : w.row[i].st = "gated" => w.flight[i] # None \/ w.gate[i] # None
MergedStays == [][\A i \in Items : w.row[i].st = "merged" => w'.row[i].st = "merged"]_vars
RequeuedIsServed == [][\A i \in Items : w.row[i].st = "queued" => w'.row[i].st \in {"queued", "dispatched"}]_vars

(* A report is booked on the item its executor was prompted for.           *)
ReportIsOfItem ==
  [][\A i \in Items, e \in Execs : w.row[i].st # "reported" /\ w.row[i].to = e /\ w'.flight[i] = "report" /\ w.flight[i] = None
                                     => w.about[e] = i]_vars

(* An executor that is done and has something to do is given it.           *)
Calm == net /\ ~observe
Waits(e) == /\ e \notin w.hold /\ Cur(w, e) = None
            /\ \/ w.msg[e].kind \in {"ACK", "QUESTION"}
               \/ w.msg[e].kind = "REPORT_READY" /\ HeldIn(w, e, {"gated", "parked"}) = {}
Served(e) == Calm /\ MaxFeed > 0 => ~(Waits(e) /\ Eligible(w, e) # {})
IdleIsFed == \A e \in Execs : []<>Served(e)
(* A turn that stopped in the middle of an item is driven on or BOSS is    *)
(* told (tick, the comment at 3001).                                       *)
StopsAreRetried ==
  \A e \in Execs : []<>(~(w.msg[e].kind = "PROGRESS_STOP" /\ Cur(w, e) # None /\ w.know[e].pend = None
                           /\ GatedFor(w, e) = None /\ Calm))
=============================================================================
