----------------------------- MODULE LaneUnion -----------------------------
(***************************************************************************)
(* Unions, stacked bases and reviews of the v13 lane driver                *)
(* (vp/lanedriver.py): every tick merges the verified outputs into one     *)
(* integration union, cuts a union for a row whose dependencies diverge,   *)
(* and dispatches the rows that have a base to stand on.  `top` builds on  *)
(* the members, `review` is the review of their union.                     *)
(*                                                                         *)
(* A commit is the set of changes it contains, so that an ancestor is a    *)
(* subset and a merge a union; a change is <<row, version>>.               *)
(***************************************************************************)
EXTENDS Naturals, FiniteSets, Sequences, Functions, FiniteSetsExt

CONSTANTS
  Member,      \* the rows `top` and `review` depend on
  Clash,       \* pairs of changes that do not merge
  ExcludeMax,  \* INTEGRATION_EXCLUDE_MAX
  MaxVersions, \* bound: outputs of one row
  MaxUnions,   \* bound: directories under unions/
  MaxMoves,    \* bound: candidates registered, fast-forwards of trunk
  MaxFaults    \* bound: merges git cannot start, restarts

UnionAssumption == {ExcludeMax, MaxVersions, MaxUnions, MaxMoves, MaxFaults} \subseteq Nat

VARIABLES
  out, ver,          \* the output of each verified row, its versions so far
  trunk, cand,       \* the trunk checkout, the registered candidate
  docs, logged,      \* the unions on disk in order, the keys tried (in memory)
  base, tree,        \* top: the base it is claimed on, its worktree's HEAD
  rstage, rbase, rtree, subject, verdict,   \* the review, see below
  moves, faults

scheduler == <<out, ver, trunk, cand>>
unions    == <<docs, logged>>
topRow    == <<base, tree>>
review    == <<rstage, rbase, rtree, subject, verdict>>
vars      == <<scheduler, unions, topRow, review, moves, faults>>

top     == "top"
Row     == Member \cup {top}
Change  == Row \X (1 .. MaxVersions)
NoneYet == {<<"none", 0>>}          \* no commit
Root    == {}
Commit  == SUBSET Change
Verified == { t \in Row : out[t] # NoneYet }

Doc == [for : {"INTEGRATION", top, "review"}, base : Commit, tip : Commit,
        have : UNION { [S -> Commit] : S \in SUBSET Row },
        excluded : UNION { [S -> Commit] : S \in SUBSET Row }]

TypeOK ==
  /\ out \in [Row -> Commit \cup {NoneYet}] /\ ver \in [Row -> 0 .. MaxVersions]
  /\ trunk \in Commit /\ cand \in Commit
  /\ \A d \in Range(docs) :
       /\ DOMAIN d.have \subseteq Row /\ DOMAIN d.excluded \subseteq Row
       /\ d.base \in Commit /\ d.tip \in Commit /\ d.base \subseteq d.tip
  /\ base \in Commit \cup {NoneYet} /\ tree \in Commit \cup {NoneYet}
  /\ rstage \in {"ready", "claimed", "bound", "turn", "approved", "graded", "verified", "refused"}

InitRest ==
  /\ out = [t \in Row |-> NoneYet]
  /\ trunk = Root /\ cand = Root
  /\ docs = <<>> /\ logged = {}
  /\ base = NoneYet /\ tree = NoneYet
  /\ rbase = NoneYet /\ rtree = NoneYet
  /\ subject = [commit |-> NoneYet, union |-> FALSE] /\ verdict = NoneYet

Init == ver = [t \in Row |-> 0] /\ rstage = "ready" /\ moves = 0 /\ faults = 0 /\ InitRest

----------------------------------------------------------------------------
(* what the scheduler and git do around the driver                         *)

Fresh(t) == <<t, ver[t] + 1>>

(* A member is verified, or verified again after a repair: a new commit.   *)
MemberVerified(t) ==
  /\ ver[t] < MaxVersions
  /\ ver' = [ver EXCEPT ![t] = @ + 1]
  /\ out' = [out EXCEPT ![t] = trunk \cup {Fresh(t)}]
  /\ UNCHANGED <<trunk, cand, unions, topRow, review, moves, faults>>

(* A candidate is registered: trunk, or a union's tip.                     *)
Register ==
  /\ moves < MaxMoves /\ moves' = moves + 1
  /\ cand' \in ({trunk} \cup { d.tip : d \in Range(docs) }) \ {cand}
  /\ UNCHANGED <<out, ver, trunk, unions, topRow, review, faults>>

(* Trunk is fast-forwarded to a union.                                     *)
FastForward ==
  /\ moves < MaxMoves /\ moves' = moves + 1
  /\ \E d \in Range(docs) : trunk \subseteq d.tip /\ trunk # d.tip /\ trunk' = d.tip
  /\ UNCHANGED <<out, ver, cand, unions, topRow, review, faults>>

Restart ==
  /\ faults < MaxFaults /\ faults' = faults + 1
  /\ logged' = {}
  /\ rstage' = IF rstage \in {"bound", "turn", "approved", "graded"} THEN "claimed" ELSE rstage
  /\ UNCHANGED <<scheduler, docs, topRow, rbase, rtree, subject, verdict, moves>>

----------------------------------------------------------------------------
(* the integrator: _build_union merges the members one by one onto a base  *)

Clean(c, d) == ~\E a \in c, b \in d : {a, b} \in Clash

(* [tip, conflict]: the merge of `pool`'s outputs in order, or the first   *)
(* member that does not merge                                              *)
Merge(from, pool, want) ==
  LET With(t, m) == IF m.conflict # {} THEN m
                    ELSE IF Clean(m.tip, want[t]) THEN [m EXCEPT !.tip = @ \cup want[t]] ELSE [m EXCEPT !.conflict = {t}]
  IN  FoldSet(With, [tip |-> from, conflict |-> {}], pool)

(* the integration union without the members that conflict                 *)
Excluding(from, all, known, want) ==
  LET Left[tries \in 0 .. ExcludeMax] ==
        IF tries = 0 THEN known ELSE LET before == Left[tries - 1] IN before \cup Merge(from, all \ before, want).conflict
      excluded == Left[ExcludeMax]
      m        == Merge(from, all \ excluded, want)
  IN  [tip |-> IF m.conflict = {} THEN m.tip ELSE NoneYet, pool |-> all \ excluded, excluded |-> excluded]

Only(f, S) == [x \in S |-> f[x]]

Cut(for, from, tip, have, excluded) ==
  docs' = Append(docs, [for |-> for, base |-> from, tip |-> tip, have |-> have, excluded |-> excluded])

(* _integration_members: verified outputs trunk does not contain           *)
Integrable == { t \in Verified : ~out[t] \subseteq trunk }

IntegrationDocs == SelectSeq(docs, LAMBDA d : d.for = "INTEGRATION")

Latest == IntegrationDocs[Len(IntegrationDocs)]

IsCurrent ==
  /\ IntegrationDocs # <<>>
  /\ Latest.base = cand
  /\ DOMAIN Latest.have \cup DOMAIN Latest.excluded = Integrable
  /\ \A t \in DOMAIN Latest.have : Latest.have[t] = out[t]
  /\ \A t \in DOMAIN Latest.excluded : Latest.excluded[t] = out[t]

(* the members the last integration union left out, at the same output     *)
Known ==
  IF IntegrationDocs = <<>> THEN {}
  ELSE { t \in Integrable \cap DOMAIN Latest.excluded : Latest.excluded[t] = out[t] }

IntegrationKey == <<"integration", { out[t] : t \in Integrable }>>

(* One pass of _integration_union_step.  The set of outputs is tried once  *)
(* per life of the driver, whether it was merged, conflicted or git failed.*)
IntegrationUnion ==
  /\ Integrable # {} /\ ~IsCurrent /\ IntegrationKey \notin logged
  /\ Len(docs) < MaxUnions
  /\ logged' = logged \cup {IntegrationKey}
  /\ \/ /\ LET u == Excluding(cand, Integrable, Known, out)
           IN IF u.tip = NoneYet THEN UNCHANGED docs
              ELSE Cut("INTEGRATION", cand, u.tip, Only(out, u.pool), Only(out, u.excluded))
        /\ UNCHANGED faults
     \/ faults < MaxFaults /\ faults' = faults + 1 /\ UNCHANGED docs
  /\ UNCHANGED <<scheduler, topRow, review, moves>>

Holds(d, need) == \A t \in need : t \in DOMAIN d.have /\ d.have[t] = out[t]

(* _union_for: the newest union that has every member at its output        *)
UnionsFor == SelectSeq(docs, LAMBDA d : Holds(d, Member))

UnionFor == UnionsFor[Len(UnionsFor)]

(* _stack_plan: the members top must stand on and trunk does not contain   *)
Carried == { t \in Member \cap Verified : ~out[t] \subseteq trunk }

Descends(t) == \A x \in Carried : out[x] \subseteq out[t]

PlanBases ==
  IF Carried = {} THEN {trunk}
  ELSE IF \E t \in Carried : Descends(t) THEN { out[t] : t \in { t \in Carried : Descends(t) } }
  ELSE LET cs == SelectSeq(docs, LAMBDA d : Holds(d, Carried))
       IN IF cs = <<>> THEN {} ELSE {cs[Len(cs)].tip}

Ready == Member \subseteq Verified

(* _union_step: a union for the review whose members are not together yet, *)
(* or for a ready row whose dependencies diverge                           *)
UnionStep(for) ==
  /\ Ready /\ Len(docs) < MaxUnions
  /\ \/ for = "review" /\ rstage = "ready" /\ UnionsFor = <<>>
     \/ for = top /\ base = NoneYet /\ PlanBases = {} /\ Cardinality(Carried) > 1
  /\ LET members == IF for = top THEN Carried ELSE Member
         from    == IF for = top THEN trunk ELSE cand
         key     == <<for, { out[t] : t \in members }>>
         m       == Merge(from, members, out)
     IN /\ key \notin logged
        /\ logged' = logged \cup {key}
        /\ IF m.conflict # {} THEN UNCHANGED docs
           ELSE Cut(for, from, m.tip, Only(out, members), <<>>)
  /\ UNCHANGED <<scheduler, topRow, review, moves, faults>>

----------------------------------------------------------------------------
(* top: claimed on its stacked base, built in a worktree that contains it  *)

Faulty_BaseInvariant(b) == TRUE

(* _base_invariant: every verified dependency is in the base               *)
BaseInvariant(b) == \A t \in Member \cap Verified : out[t] \subseteq b

ClaimTop ==
  /\ Ready /\ base = NoneYet /\ ver[top] < MaxVersions
  /\ base' \in { b \in PlanBases : BaseInvariant(b) }
  /\ UNCHANGED <<scheduler, unions, tree, review, moves, faults>>

(* the worktree of an earlier attempt is kept if it stands on the new base *)
Kept(t, b) == t # NoneYet /\ b \subseteq t

(* top is built and verified; a failed attempt leaves its worktree         *)
BuildTop ==
  /\ base # NoneYet
  /\ LET from == IF Kept(tree, base) THEN tree ELSE base
     IN \/ /\ ver[top] < MaxVersions
           /\ ver' = [ver EXCEPT ![top] = @ + 1]
           /\ tree' = from \cup {Fresh(top)}
           /\ out' = [out EXCEPT ![top] = tree']
        \/ tree' = from /\ UNCHANGED <<out, ver>>
  /\ base' = NoneYet
  /\ UNCHANGED <<trunk, cand, unions, review, moves, faults>>

----------------------------------------------------------------------------
(* the review: claimed on the candidate, its worktree reset to the union's *)
(* tip, a turn of the reviewer, the gate over its packet, the grader       *)

ClaimReview ==
  /\ rstage = "ready" /\ Ready /\ UnionsFor # <<>>
  /\ rstage' = "claimed" /\ rbase' = cand
  /\ UNCHANGED <<scheduler, unions, topRow, rtree, subject, verdict, moves, faults>>

(* _union_bound: the worktree is made, and reset to the tip of the union   *)
(* that descends from the base claimed                                     *)
BindUnion ==
  /\ rstage = "claimed" /\ rstage' = "bound"
  /\ rtree' = IF UnionsFor # <<>> /\ rbase \subseteq UnionFor.tip THEN UnionFor.tip
              ELSE IF Kept(rtree, rbase) THEN rtree ELSE rbase
  /\ UNCHANGED <<scheduler, unions, topRow, rbase, subject, verdict, moves, faults>>

Faulty_StandsOn(u) == TRUE

StandsOn(u) == rtree = u.tip

(* _review_pipeline reads the scheduler and the unions again: the subject  *)
(* is the union if the worktree still stands on it, else the candidate     *)
ReviewTurn ==
  /\ rstage = "bound" /\ rstage' = "turn"
  /\ subject' = IF UnionsFor # <<>> /\ StandsOn(UnionFor)
                THEN [commit |-> UnionFor.tip, union |-> TRUE]
                ELSE [commit |-> cand, union |-> FALSE]
  /\ UNCHANGED <<scheduler, unions, topRow, rbase, rtree, verdict, moves, faults>>

(* the reviewer approves, has findings, or dies (its attempt is entered again) *)
ReviewerEnds ==
  /\ rstage = "turn" /\ rstage' \in {"approved", "refused"}
  /\ UNCHANGED <<scheduler, unions, topRow, rbase, rtree, subject, verdict, moves, faults>>

(* review_gate.validate: a union's tip descends from the candidate, any    *)
(* other subject is the candidate                                          *)
GateOpen(p) == IF p.union THEN cand \subseteq p.commit ELSE p.commit = cand

(* _review_packet_finish: a packet the gate refuses is never completed; an *)
(* accepted one is committed and its own benchmark graded                  *)
CheckPacket ==
  /\ rstage = "approved"
  /\ rstage' \in IF GateOpen(subject) THEN {"graded", "refused"} ELSE {"refused"}
  /\ UNCHANGED <<scheduler, unions, topRow, rbase, rtree, subject, verdict, moves, faults>>

(* the scheduler validates the packet again before it takes the verdict    *)
CompleteReview ==
  /\ rstage = "graded"
  /\ IF GateOpen(subject)
     THEN rstage' = "verified" /\ verdict' = subject.commit
     ELSE rstage' = "refused" /\ UNCHANGED verdict
  /\ UNCHANGED <<scheduler, unions, topRow, rbase, rtree, subject, moves, faults>>

Integrator == IntegrationUnion \/ \E f \in {top, "review"} : UnionStep(f)

Reviewing == ClaimReview \/ BindUnion \/ ReviewTurn \/ ReviewerEnds \/ CheckPacket \/ CompleteReview

World == (\E t \in Member : MemberVerified(t)) \/ Register \/ FastForward \/ Restart

Next == Integrator \/ ClaimTop \/ BuildTop \/ Reviewing \/ World

Spec == Init /\ [][Next]_vars /\ WF_vars(Integrator) /\ WF_vars(Reviewing)

----------------------------------------------------------------------------
(* A union's tip holds exactly the base it was cut from and the outputs it *)
(* lists: what is excluded is in no union, and nothing listed is missing.  *)
TipIsItsMembers ==
  \A d \in Range(docs) : d.tip = d.base \cup UNION { d.have[t] : t \in DOMAIN d.have }

(* D63: a build is cut from a base, and continues in a worktree, that has  *)
(* the output every dependency had when the row was claimed.               *)
BuiltOnDependencies ==
  [][out'[top] # out[top] => base \subseteq out'[top] /\ \A t \in Member : \E v \in 1 .. ver[t] : <<t, v>> \in out'[top]]_vars

(* A claim of top carries the outputs its dependencies have at the claim.  *)
ClaimedOnCurrent ==
  [][base = NoneYet /\ base' # NoneYet => \A t \in Member : out[t] \subseteq base']_vars

(* A verdict on a union was given over a worktree that stood on that tip,  *)
(* and on a tip that descends from the candidate registered at that moment.*)
VerdictWasSeen ==
  [][rstage = "graded" /\ rstage' = "verified" =>
       IF subject.union THEN rtree = subject.commit /\ cand \subseteq subject.commit
       ELSE subject.commit = cand]_vars

(* _union_review_packet (lanedriver.py:2500): the subject of a <union>     *)
(* review is a union tip the integrator builds, so its verdict covers the  *)
(* output of every row it depends on.                                      *)
VerdictCoversMembers ==
  verdict # NoneYet => \A t \in Member : \E v \in 1 .. ver[t] : <<t, v>> \in verdict

(* _integration_union_step (lanedriver.py:2685): one integration union is  *)
(* kept refreshed: it ends up with the outputs and the base of the day.    *)
StaysRefreshed == <>[](Integrable # {} => IsCurrent)
=============================================================================
