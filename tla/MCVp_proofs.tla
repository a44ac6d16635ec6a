---------------------------- MODULE MCVp_proofs -----------------------------
(***************************************************************************)
(* Proofs about the parts of the v12 driver, for every value of the        *)
(* constants the assumptions allow: the unions (VpUnions), the turns       *)
(* (VpTurns) and the runs of models (Runners), each under its own          *)
(* specification.                                                          *)
(***************************************************************************)
EXTENDS MCVp, FiniteSetTheorems, SequenceTheorems, TLAPS

-----------------------------------------------------------------------------
(* VpUnions: approvals.  All the argument needs of the store is that its   *)
(* rows are rows: every other call takes an item to a status that is not   *)
(* an approval, or keeps the approval with the candidate it is of.         *)
Fields     == {"st", "un", "cand", "from"}
ItemRows   == DOMAIN item = Items /\ \A x \in Items : DOMAIN item[x] = Fields
Approved(r) == r.st = "APPROVED" \/ (r.st = "PAUSED" /\ r.from = "APPROVED")
Sound      == ItemRows' /\ Unions!Granted

LEMMA GrantedMeans ==
  Unions!Granted <=>
    \A x \in Items : Approved(item'[x]) =>
      \/ Approved(item[x]) /\ item'[x].cand = item[x].cand
      \/ \E k \in Unions!Running : thr[k].role = "final" /\ thr[k].cand = item'[x].cand
BY DEF Unions!Granted, Unions!StandsApproved, Approved

LEMMA SameItems == ASSUME ItemRows, UNCHANGED item PROVE Sound
BY GrantedMeans DEF ItemRows, Sound, Approved

(* _set_item and union_cancel, whatever items they are for.                *)
LEMMA MovesAreSound ==
  ASSUME ItemRows, NEW S, NEW to, to \notin {"APPROVED", "PAUSED"}, Unions!MoveAll(S, to)
  PROVE  Sound
<1>1. ASSUME NEW x \in Items PROVE DOMAIN item'[x] = Fields /\ (item'[x] = item[x] \/ item'[x].st = to)
  BY <1>1 DEF ItemRows, Fields, Unions!MoveAll, Unions!Moved
<1>2. DOMAIN item' = Items
  BY DEF Unions!MoveAll
<1>3. QED BY <1>1, <1>2, GrantedMeans DEF ItemRows, Sound, Approved

LEMMA RecordedIsSound ==
  ASSUME ItemRows, NEW pid, NEW st, Unions!Recorded(pid, st) PROVE Sound
<1>1. PICK S, to : Unions!MoveAll(S, to) /\ to \in {"PROOF_PENDING", "FINAL_REVIEW", "GRADING", "PREPARED"}
  BY DEF Unions!Recorded
<1>2. QED BY <1>1, MovesAreSound

LEMMA RequestIsSound ==
  ASSUME ItemRows, NEW u, Unions!ProofRequest(u) PROVE Sound
BY MovesAreSound DEF Unions!ProofRequest

LEMMA CancelIsSound ==
  ASSUME ItemRows, NEW u, Unions!UnionCancel(u) PROVE Sound
<1>1. ASSUME NEW x \in Items PROVE DOMAIN item'[x] = Fields /\ (item'[x] = item[x] \/ item'[x].st = "PREPARING")
  BY <1>1 DEF ItemRows, Fields, Unions!UnionCancel
<1>2. DOMAIN item' = Items
  BY DEF Unions!UnionCancel
<1>3. QED BY <1>1, <1>2, GrantedMeans DEF ItemRows, Sound, Approved

LEMMA PausesAreSound ==
  ASSUME ItemRows, NEW S, item' = Unions!Paused(S) PROVE Sound
<1>1. ASSUME NEW x \in Items
      PROVE  DOMAIN item'[x] = Fields /\ (item'[x] = item[x] \/ (item'[x].from = item[x].st /\ item'[x].cand = item[x].cand))
  BY <1>1 DEF ItemRows, Fields, Unions!Paused
<1>2. DOMAIN item' = Items
  BY DEF Unions!Paused
<1>3. ASSUME NEW x \in Items PROVE item'[x] = item[x] \/ item'[x].st = "PAUSED"
  BY <1>3 DEF ItemRows, Fields, Unions!Paused
<1>4. QED BY <1>1, <1>2, <1>3, GrantedMeans DEF ItemRows, Sound, Approved

LEMMA LoopIsSound == ASSUME ItemRows, Unions!LoopStep PROVE Sound
<1>1. CASE Unions!TickBegins \/ (\E x \in Items : Unions!Visit(x)) \/ Unions!BuildAdds \/ Unions!TickEnds
  BY <1>1, SameItems DEF Unions!TickBegins, Unions!Visit, Unions!BuildAdds, Unions!TickEnds, Unions!store
<1>2. CASE Unions!ReconcileChain
  BY <1>2, SameItems, CancelIsSound DEF Unions!ReconcileChain, Unions!store
<1>3. CASE Unions!BuildMerges
  BY <1>3, SameItems, MovesAreSound DEF Unions!BuildMerges
<1>4. CASE Unions!BuildRecords
  <2>1. CASE UNCHANGED item
    BY <2>1, SameItems
  <2>2. CASE /\ \A x \in main.prep : item[x].st = "PREPARING"
             /\ item' = [x \in Items |-> IF x \in main.prep THEN [item[x] EXCEPT !.un = Unions!UnionNo, !.cand = Unions!UnionNo] ELSE item[x]]
    <3>1. ASSUME NEW x \in Items PROVE DOMAIN item'[x] = Fields /\ (item'[x] = item[x] \/ item'[x].st = "PREPARING")
      BY <2>2, <3>1 DEF ItemRows, Fields
    <3>2. QED BY <2>2, <3>1, GrantedMeans DEF ItemRows, Sound, Approved
  <2>3. QED BY <1>4, <2>1, <2>2 DEF Unions!BuildRecords
<1>5. CASE Unions!BuildRequests
  BY <1>5, RequestIsSound DEF Unions!BuildRequests
<1>6. QED BY <1>1, <1>2, <1>3, <1>4, <1>5 DEF Unions!LoopStep

LEMMA DeliveryIsSound ==
  ASSUME ItemRows, NEW k \in Items, Unions!FinalDelivers(k) PROVE Sound
<1> DEFINE x == CHOOSE x \in thr[k].left : TRUE
           to == CASE thr[k].res = "APPROVED" -> "APPROVED" [] thr[k].res = "FINDINGS" -> "GRADING" [] OTHER -> "BLOCKED"
<1>1. CASE UNCHANGED item
  BY <1>1, SameItems
<1>2. CASE item[x].cand = thr[k].cand /\ Unions!MoveAll({x}, to)
  <2>1. ASSUME NEW z \in Items PROVE DOMAIN item'[z] = Fields
    BY <1>2, <2>1 DEF ItemRows, Fields, Unions!MoveAll, Unions!Moved
  <2>2. ASSUME NEW z \in Items, Approved(item'[z]), item'[z] # item[z] PROVE item'[z].cand = thr[k].cand
    <3>1. z = x /\ item'[x] = Unions!Moved(item[x], to)
      BY <1>2, <2>2 DEF Unions!MoveAll
    <3>2. item'[x].st = to /\ to # "PAUSED"
      BY <3>1, <2>2 DEF Unions!Moved, ItemRows, Fields
    <3>3. to = "APPROVED"
      BY <3>1, <3>2, <2>2 DEF Approved
    <3>4. QED BY <1>2, <2>2, <3>1, <3>3 DEF Unions!Moved, Unions!OutOfUnion, ItemRows, Fields
  <2>3. thr[k].role = "final" /\ k \in Unions!Running
    BY DEF Unions!FinalDelivers, Unions!At, Unions!Running, Unions!NoThread
  <2>4. DOMAIN item' = Items
    BY <1>2 DEF Unions!MoveAll
  <2>5. QED BY <2>1, <2>2, <2>3, <2>4, GrantedMeans DEF ItemRows, Sound
<1>3. QED BY <1>1, <1>2 DEF Unions!FinalDelivers, Unions!Reviewed

LEMMA ThreadsAreSound ==
  ASSUME ItemRows, NEW k \in Items, Unions!ThreadStep(k) PROVE Sound
<1>1. CASE Unions!ProofBegins(k)
  BY <1>1, SameItems, RequestIsSound DEF Unions!ProofBegins, Unions!store
<1>2. CASE Unions!ProofRuns(k)
  BY <1>2, SameItems, RecordedIsSound DEF Unions!ProofRuns, Unions!store
<1>3. CASE Unions!ProofAnswers(k)
  BY <1>3, SameItems, RecordedIsSound DEF Unions!ProofAnswers, Unions!store
<1>4. CASE Unions!ProofChecked(k) \/ Unions!ProofRecorded(k) \/ Unions!FinalBegins(k) \/ Unions!FinalEnds(k)
  BY <1>4, SameItems DEF Unions!ProofChecked, Unions!ProofRecorded, Unions!FinalBegins, Unions!FinalEnds, Unions!store
<1>5. CASE Unions!ProofRecords(k)
  BY <1>5, RecordedIsSound DEF Unions!ProofRecords
<1>6. CASE Unions!ProofFollows(k)
  BY <1>6, SameItems, PausesAreSound DEF Unions!ProofFollows
<1>7. CASE Unions!FinalDelivers(k)
  BY <1>7, DeliveryIsSound
<1>8. QED BY <1>1, <1>2, <1>3, <1>4, <1>5, <1>6, <1>7 DEF Unions!ThreadStep

LEMMA OperatorIsSound ==
  ASSUME ItemRows, NEW x \in Items, Unions!Operator(x) PROVE Sound
<1>1. CASE item' = Unions!Paused({x})
  BY <1>1, PausesAreSound
<1>2. CASE item[x].st = "PAUSED" /\ item' = [item EXCEPT ![x].st = item[x].from, ![x].from = "none"]
  <2>1. ItemRows'
    BY <1>2 DEF ItemRows, Fields
  <2>2. item'[x].st = item[x].from /\ item'[x].from = "none" /\ item'[x].cand = item[x].cand
    BY <1>2 DEF ItemRows, Fields
  <2>3. \A z \in Items : z # x => item'[z] = item[z]
    BY <1>2 DEF ItemRows
  <2>4. QED BY <1>2, <2>1, <2>2, <2>3, GrantedMeans DEF Sound, Approved
<1>3. CASE Unions!MoveAll({x}, "BLOCKED")
  BY <1>3, MovesAreSound
<1>4. QED BY <1>1, <1>2, <1>3 DEF Unions!Operator

LEMMA UnionsSound == ASSUME ItemRows, [Unions!Next]_(Unions!vars) PROVE Sound
<1>1. CASE Unions!LoopStep
  BY <1>1, LoopIsSound
<1>2. CASE Unions!Crash \/ Unions!Restart \/ (\E u \in Unions!Unions : Unions!WaitOver(u)) \/ UNCHANGED Unions!vars
  BY <1>2, SameItems DEF Unions!Crash, Unions!Restart, Unions!WaitOver, Unions!vars, Unions!store
<1>3. ASSUME NEW x \in Items, Unions!ThreadStep(x) \/ Unions!Operator(x) PROVE Sound
  BY <1>3, ThreadsAreSound, OperatorIsSound
<1>4. ASSUME NEW x \in Items, Unions!Resubmits(x) PROVE Sound
  BY <1>4, MovesAreSound DEF Unions!Resubmits
<1>5. ASSUME NEW u \in Unions!Unions, Unions!Promotes(u) PROVE Sound
  BY <1>5, MovesAreSound DEF Unions!Promotes
<1>6. QED BY <1>1, <1>2, <1>3, <1>4, <1>5 DEF Unions!Next

(* An approval is one a final review gave of the candidate the item holds  *)
(* (review_record), however the union was cancelled, blocked, paused or    *)
(* promoted in the meantime.                                               *)
THEOREM ApprovalsAreOfTheCandidate == Unions!Spec => ApprovedAsReviewed
<1>1. Unions!Init => ItemRows
  BY DEF Unions!Init, ItemRows, Fields
<1>2. ItemRows /\ [Unions!Next]_(Unions!vars) => ItemRows'
  BY UnionsSound DEF Sound
<1>3. ItemRows /\ [Unions!Next]_(Unions!vars) => Unions!Granted
  BY UnionsSound DEF Sound
<1>4. QED BY <1>1, <1>2, <1>3, PTL DEF Unions!Spec, ApprovedAsReviewed, Unions!ApprovedAsReviewed

-----------------------------------------------------------------------------
(* VpUnions: the backoff.  With one slot there is one proof, so the one    *)
(* that starts a backoff is not followed by another that was let in before.*)
ThreadFields == {"at", "role", "cand", "un", "pid", "way", "res", "left"}
ThreadRows == DOMAIN thr = Items /\ \A x \in Items : DOMAIN thr[x] = ThreadFields
InfraRows  == infra \in [DOMAIN infra -> [n : Nat, wait : BOOLEAN]]
OneProof   == \A x, y \in Unions!Proving : x = y
QuietInv   == ThreadRows /\ InfraRows /\ OneProof /\ WaitingIsQuiet
Past(t)    == t.at \notin {"start", "follow"}

LEMMA QuietMeans ==
  WaitingIsQuiet <=> \A x \in Unions!Proving : Past(thr[x]) /\ thr[x].cand \in DOMAIN infra => ~infra[thr[x].cand].wait
BY DEF WaitingIsQuiet, Unions!WaitingIsQuiet, Past

LEMMA QuietNext ==
  WaitingIsQuiet' <=> \A x \in Unions!Proving' : Past(thr'[x]) /\ thr'[x].cand \in DOMAIN infra' => ~infra'[thr'[x].cand].wait
BY DEF WaitingIsQuiet, Unions!WaitingIsQuiet, Past

LEMMA ProvingMeans == ASSUME ThreadRows PROVE Unions!Proving = {x \in Items : thr[x].role = "proof"}
BY DEF Unions!Proving, Unions!Running, Unions!NoThread, ThreadRows

LEMMA ProvingNext == ASSUME ThreadRows' PROVE Unions!Proving' = {x \in Items : thr'[x].role = "proof"}
BY DEF Unions!Proving, Unions!Running, Unions!NoThread, ThreadRows

(* A step that lets no proof in and starts no backoff.                     *)
Fewer == \A x \in Items : thr'[x].role = "proof" =>
           thr[x].role = "proof" /\ thr'[x].cand = thr[x].cand /\ (Past(thr'[x]) => Past(thr[x]))
Calmer == \A u \in DOMAIN infra' : u \in DOMAIN infra /\ (infra'[u].wait => infra[u].wait)

LEMMA QuietKept ==
  ASSUME QuietInv, ThreadRows', InfraRows', Fewer, Calmer PROVE QuietInv'
<1>1. Unions!Proving' = {x \in Items : thr'[x].role = "proof"} /\ Unions!Proving = {x \in Items : thr[x].role = "proof"}
  BY ProvingMeans, ProvingNext DEF QuietInv
<1>2. OneProof'
  BY <1>1 DEF QuietInv, OneProof, Fewer
<1>3. WaitingIsQuiet'
  <2>1. ASSUME NEW x \in Unions!Proving', Past(thr'[x]), thr'[x].cand \in DOMAIN infra' PROVE ~infra'[thr'[x].cand].wait
    <3>1. x \in Unions!Proving /\ thr'[x].cand = thr[x].cand /\ Past(thr[x])
      BY <1>1, <2>1 DEF Fewer
    <3>2. thr[x].cand \in DOMAIN infra => ~infra[thr[x].cand].wait
      BY <3>1, QuietMeans DEF QuietInv
    <3>3. QED BY <2>1, <3>1, <3>2 DEF Calmer
  <2>2. QED BY <2>1, QuietNext
<1>4. QED BY <1>2, <1>3 DEF QuietInv

LEMMA SameThreads == ASSUME QuietInv, UNCHANGED thr PROVE ThreadRows' /\ Fewer
BY DEF QuietInv, ThreadRows, Fewer, Past

LEMMA SameInfra == ASSUME QuietInv, UNCHANGED infra PROVE InfraRows' /\ Calmer
BY DEF QuietInv, InfraRows, Calmer

LEMMA EndsFewer == ASSUME QuietInv, NEW k \in Items, Unions!Ends(k) PROVE ThreadRows' /\ Fewer
BY DEF QuietInv, ThreadRows, Fewer, Unions!Ends, Unions!NoThread, ThreadFields

LEMMA DiesQuietly == ASSUME QuietInv, Unions!Dies PROVE QuietInv'
<1>1. ThreadRows' /\ Fewer
  BY DEF Unions!Dies, Unions!NoThread, ThreadRows, ThreadFields, Fewer
<1>2. InfraRows' /\ Calmer
  BY DEF Unions!Dies, InfraRows, Calmer
<1>3. QED BY <1>1, <1>2, QuietKept

LEMMA UnionItems == IsFiniteSet(Items)
<1>1. Unions!IsFiniteSet(Items)
  BY HalvesAssumption DEF Unions!UnionsAssumption
<1>2. QED BY <1>1, Zenon DEF Unions!IsFiniteSet, IsFiniteSet

LEMMA CardinalityOfUnions == \A S : Unions!Cardinality(S) = Cardinality(S)
BY Zenon DEF Unions!Cardinality, Cardinality

(* The loop lets a proof in when there is none.                            *)
LEMMA VisitQuietly ==
  ASSUME QuietInv, ProofSlots = 1, NEW k \in Items, Unions!Visit(k) PROVE QuietInv'
<1> DEFINE new == Unions!Spawned(main.seen[k])
<1>1. InfraRows' /\ Calmer
  BY SameInfra DEF Unions!Visit
<1>2. CASE UNCHANGED thr
  BY <1>1, <1>2, SameThreads, QuietKept
<1>3. CASE Unions!Spawns(k) /\ thr' = [thr EXCEPT ![k] = new]
  <2>1. DOMAIN new = ThreadFields /\ new.at = "start"
    BY DEF Unions!Spawned, Unions!NoThread, ThreadFields
  <2>2. ThreadRows'
    BY <1>3, <2>1 DEF QuietInv, ThreadRows
  <2>3. CASE new.role # "proof"
    <3>1. Fewer
      BY <1>3, <2>3 DEF QuietInv, ThreadRows, Fewer
    <3>2. QED BY <1>1, <2>2, <3>1, QuietKept
  <2>4. CASE new.role = "proof"
    <3>1. main.seen[k].st = "PREPARED"
      BY <1>3, <2>4 DEF Unions!Spawns, Unions!Spawned, Unions!NoThread, Unions!RoleForStatus
    <3>2. Unions!Cardinality(Unions!Proving) < 1
      BY <1>3, <3>1 DEF Unions!Spawns
    <3>3. Unions!Proving = {}
      <4>1. IsFiniteSet(Unions!Proving)
        BY FS_Subset, UnionItems DEF Unions!Proving, Unions!Running
      <4>2. Cardinality(Unions!Proving) \in Nat /\ Cardinality(Unions!Proving) < 1
        BY <3>2, <4>1, FS_CardinalityType, CardinalityOfUnions
      <4>3. QED BY <4>1, <4>2, FS_EmptySet
    <3>4. \A x \in Items : thr[x].role # "proof"
      BY <3>3, ProvingMeans DEF QuietInv
    <3>5. Unions!Proving' \subseteq {k}
      BY <1>3, <2>2, <3>4, ProvingNext DEF QuietInv, ThreadRows
    <3>6. thr'[k].at = "start"
      BY <1>3, <2>1 DEF QuietInv, ThreadRows
    <3>7. OneProof' /\ WaitingIsQuiet'
      BY <3>5, <3>6, QuietNext DEF OneProof, Past
    <3>8. QED BY <1>1, <2>2, <3>7 DEF QuietInv
  <2>5. QED BY <2>3, <2>4
<1>4. QED BY <1>2, <1>3 DEF Unions!Visit

(* A proof looks at the backoff before it goes on.                         *)
LEMMA BeginsQuietly ==
  ASSUME QuietInv, NEW k \in Items, Unions!ProofBegins(k) PROVE QuietInv'
<1>1. InfraRows' /\ Calmer
  BY SameInfra DEF Unions!ProofBegins
<1>2. CASE Unions!Ends(k)
  BY <1>1, <1>2, EndsFewer, QuietKept
<1>3. CASE ~Unions!WaitsFor(thr[k].cand)
            /\ \E w, p : thr' = [thr EXCEPT ![k].at = "named", ![k].way = w, ![k].pid = p]
  <2>1. PICK w, p : thr' = [thr EXCEPT ![k].at = "named", ![k].way = w, ![k].pid = p]
    BY <1>3
  <2>2. ThreadRows'
    BY <2>1 DEF QuietInv, ThreadRows, ThreadFields
  <2>3. \A x \in Items : thr'[x].role = thr[x].role /\ thr'[x].cand = thr[x].cand
    BY <2>1 DEF QuietInv, ThreadRows, ThreadFields
  <2>4. \A x \in Items : x # k => thr'[x] = thr[x]
    BY <2>1 DEF QuietInv, ThreadRows
  <2>5. Unions!Proving' = Unions!Proving
    BY <2>2, <2>3, ProvingMeans, ProvingNext DEF QuietInv
  <2>6. OneProof'
    BY <2>5 DEF QuietInv, OneProof
  <2>7. ASSUME NEW x \in Unions!Proving', Past(thr'[x]), thr'[x].cand \in DOMAIN infra' PROVE ~infra'[thr'[x].cand].wait
    <3>1. UNCHANGED infra /\ thr'[x].cand = thr[x].cand
      BY <2>3, <2>7 DEF Unions!ProofBegins, Unions!Proving, Unions!Running
    <3>2. CASE x = k
      BY <1>3, <2>7, <3>1, <3>2 DEF Unions!WaitsFor
    <3>3. CASE x # k
      BY <2>4, <2>5, <2>7, <3>1, <3>3, QuietMeans DEF QuietInv, Unions!Proving, Unions!Running
    <3>4. QED BY <3>2, <3>3
  <2>8. QED BY <1>1, <2>2, <2>6, <2>7, QuietNext DEF QuietInv
<1>4. QED BY <1>2, <1>3 DEF Unions!ProofBegins

(* A proof that starts a backoff was the only one, and ends.               *)
LEMMA FollowsQuietly ==
  ASSUME QuietInv, NEW k \in Items, Unions!ProofFollows(k) PROVE QuietInv'
<1>1. ThreadRows' /\ Fewer
  BY EndsFewer DEF Unions!ProofFollows
<1>2. CASE infra' = Unions!Forget(thr[k].cand)
  <2>1. InfraRows' /\ Calmer
    BY <1>2 DEF QuietInv, InfraRows, Calmer, Unions!Forget
  <2>2. QED BY <1>1, <2>1, QuietKept
<1>3. CASE UNCHANGED infra
  BY <1>1, <1>3, SameInfra, QuietKept
<1>4. CASE infra' = [x \in DOMAIN infra \cup {thr[k].cand} |->
                      IF x = thr[k].cand THEN [n |-> Unions!Tries(thr[k].cand), wait |-> TRUE] ELSE infra[x]]
  <2>1. Unions!Tries(thr[k].cand) \in Nat
    BY DEF QuietInv, InfraRows, Unions!Tries
  <2>2. InfraRows'
    BY <1>4, <2>1 DEF QuietInv, InfraRows
  <2>3. k \in Unions!Proving
    BY ProvingMeans DEF QuietInv, Unions!ProofFollows, Unions!At
  <2>4. \A x \in Items : x # k => thr[x].role # "proof"
    BY <2>3, ProvingMeans DEF QuietInv, OneProof
  <2>5. thr'[k].role # "proof"
    BY DEF QuietInv, ThreadRows, Unions!ProofFollows, Unions!Ends, Unions!NoThread
  <2>6. Unions!Proving' = {}
    BY <1>1, <2>4, <2>5, ProvingNext DEF Fewer
  <2>7. OneProof' /\ WaitingIsQuiet'
    BY <2>6, QuietNext DEF OneProof
  <2>8. QED BY <1>1, <2>2, <2>7 DEF QuietInv
<1>5. QED BY <1>2, <1>3, <1>4 DEF Unions!ProofFollows

(* The other steps of a thread.                                            *)
LEMMA ThreadsQuietly ==
  ASSUME QuietInv, NEW k \in Items, Unions!ThreadStep(k) PROVE QuietInv'
<1>1. CASE Unions!ProofBegins(k)
  BY <1>1, BeginsQuietly
<1>2. CASE Unions!ProofFollows(k)
  BY <1>2, FollowsQuietly
<1>3. ASSUME UNCHANGED infra, Unions!Ends(k) PROVE QuietInv'
  BY <1>3, EndsFewer, SameInfra, QuietKept
<1>4. ASSUME NEW at \in {"runs", "record", "follow"}, UNCHANGED infra, thr[k].at \notin {"start", "follow"}, Unions!Goes(k, at) PROVE QuietInv'
  <2>1. ThreadRows' /\ Fewer
    BY <1>4 DEF QuietInv, ThreadRows, ThreadFields, Fewer, Past, Unions!Goes
  <2>2. QED BY <1>4, <2>1, SameInfra, QuietKept
<1>5. CASE Unions!ProofRuns(k) \/ Unions!ProofChecked(k) \/ Unions!ProofRecords(k) \/ Unions!ProofRecorded(k)
  BY <1>3, <1>4, <1>5 DEF Unions!ProofRuns, Unions!ProofChecked, Unions!ProofRecords, Unions!ProofRecorded, Unions!At
<1>6. CASE Unions!ProofAnswers(k)
  <2>1. CASE Unions!Ends(k)
    BY <1>3, <1>6, <2>1 DEF Unions!ProofAnswers
  <2>2. CASE \E v, at : thr' = [thr EXCEPT ![k].res = v, ![k].at = at]
    <3>1. PICK v, at : thr' = [thr EXCEPT ![k].res = v, ![k].at = at]
      BY <2>2
    <3>2. Past(thr[k])
      BY <1>6 DEF Past, Unions!ProofAnswers, Unions!At
    <3>3. ThreadRows' /\ Fewer
      BY <3>1, <3>2 DEF QuietInv, ThreadRows, ThreadFields, Fewer
    <3>4. QED BY <1>6, <3>3, SameInfra, QuietKept DEF Unions!ProofAnswers
  <2>3. QED BY <1>6, <2>1, <2>2 DEF Unions!ProofAnswers
<1>7. CASE Unions!FinalBegins(k)
  <2>1. CASE Unions!Ends(k)
    BY <1>3, <1>7, <2>1 DEF Unions!FinalBegins
  <2>2. CASE \E v, c, l : thr' = [thr EXCEPT ![k].at = "deliver", ![k].res = v, ![k].cand = c, ![k].left = l]
    <3>1. ThreadRows' /\ Fewer
      BY <1>7, <2>2 DEF QuietInv, ThreadRows, ThreadFields, Fewer, Unions!FinalBegins, Unions!At
    <3>2. QED BY <1>7, <3>1, SameInfra, QuietKept DEF Unions!FinalBegins
  <2>3. QED BY <1>7, <2>1, <2>2 DEF Unions!FinalBegins
<1>8. CASE Unions!FinalDelivers(k)
  <2>1. PICK l : thr' = [thr EXCEPT ![k].left = l]
    BY <1>8 DEF Unions!FinalDelivers
  <2>2. ThreadRows' /\ Fewer
    BY <2>1 DEF QuietInv, ThreadRows, ThreadFields, Fewer, Past
  <2>3. QED BY <1>8, <2>2, SameInfra, QuietKept DEF Unions!FinalDelivers
<1>9. CASE Unions!FinalEnds(k)
  BY <1>3, <1>9 DEF Unions!FinalEnds
<1>10. QED BY <1>1, <1>2, <1>5, <1>6, <1>7, <1>8, <1>9 DEF Unions!ThreadStep

LEMMA UnionsQuiet ==
  ASSUME QuietInv, ProofSlots = 1, [Unions!Next]_(Unions!vars) PROVE QuietInv'
<1>1. ASSUME UNCHANGED <<thr, infra>> PROVE QuietInv'
  BY <1>1, SameThreads, SameInfra, QuietKept
<1>2. CASE Unions!LoopStep
  <2>1. ASSUME NEW x \in Items, Unions!Visit(x) PROVE QuietInv'
    BY <2>1, VisitQuietly
  <2>2. CASE Unions!TickBegins \/ Unions!ReconcileChain \/ Unions!TickEnds \/ Unions!BuildMerges \/ Unions!BuildRequests
    BY <1>1, <2>2 DEF Unions!TickBegins, Unions!ReconcileChain, Unions!TickEnds, Unions!BuildMerges, Unions!BuildRequests, Unions!Step
  <2>3. CASE Unions!BuildAdds \/ Unions!BuildRecords
    BY <1>1, <2>3, DiesQuietly DEF Unions!BuildAdds, Unions!BuildRecords, Unions!Step
  <2>4. QED BY <1>2, <2>1, <2>2, <2>3 DEF Unions!LoopStep
<1>3. CASE Unions!Crash
  BY <1>3, DiesQuietly DEF Unions!Crash
<1>4. CASE Unions!Restart \/ UNCHANGED Unions!vars
  BY <1>1, <1>4 DEF Unions!Restart, Unions!vars
<1>5. ASSUME NEW x \in Items, Unions!ThreadStep(x) PROVE QuietInv'
  BY <1>5, ThreadsQuietly
<1>6. ASSUME NEW x \in Items, Unions!Resubmits(x) \/ Unions!Operator(x) PROVE QuietInv'
  BY <1>1, <1>6 DEF Unions!Resubmits, Unions!Operator, Unions!Quiet
<1>7. ASSUME NEW u \in Unions!Unions, Unions!Promotes(u) PROVE QuietInv'
  BY <1>1, <1>7 DEF Unions!Promotes, Unions!Quiet
<1>8. ASSUME NEW u \in Unions!Unions, Unions!WaitOver(u) PROVE QuietInv'
  <2>1. InfraRows' /\ Calmer
    BY <1>8 DEF QuietInv, InfraRows, Calmer, Unions!WaitOver, Unions!WaitsFor
  <2>2. QED BY <1>8, <2>1, SameThreads, QuietKept DEF Unions!WaitOver
<1>9. QED BY <1>2, <1>3, <1>4, <1>5, <1>6, <1>7, <1>8 DEF Unions!Next

(* With the one proof slot that is the code's default, a candidate whose   *)
(* proof ended without a verdict is not proved while its backoff runs      *)
(* (run_proof, _note_proof_infra), in whatever order the loop, the threads *)
(* and the clock come.                                                     *)
THEOREM BackoffIsKept == ProofSlots = 1 /\ Unions!Spec => []WaitingIsQuiet
<1> SUFFICES ASSUME ProofSlots = 1 PROVE Unions!Spec => []WaitingIsQuiet
  OBVIOUS
<1>1. Unions!Init => QuietInv
  <2>1. ASSUME Unions!Init PROVE ThreadRows /\ InfraRows /\ \A x \in Items : thr[x].role # "proof"
    BY <2>1 DEF Unions!Init, Unions!NoThread, ThreadRows, ThreadFields, InfraRows
  <2>2. QED BY <2>1, ProvingMeans, QuietMeans DEF QuietInv, OneProof
<1>2. QuietInv /\ [Unions!Next]_(Unions!vars) => QuietInv'
  BY UnionsQuiet
<1>3. QuietInv => WaitingIsQuiet
  BY DEF QuietInv
<1>4. QED BY <1>1, <1>2, <1>3, PTL DEF Unions!Spec

-----------------------------------------------------------------------------
(* VpTurns.  Beside its types: after the reconciliation an attempt has its *)
(* thread, and a thread that is about to start, while no operator moved    *)
(* anything, is of the role its item is due for.                           *)
RowFields  == {"st", "round", "rev", "att", "from"}
TurnFields == {"at", "role", "rev", "on", "saved"}
RowsTyped  == DOMAIN rows = Items /\ \A x \in Items : DOMAIN rows[x] = RowFields /\ rows[x].att \in BOOLEAN
TurnTyped  == DOMAIN turn = Items /\ \A x \in Items : DOMAIN turn[x] = TurnFields
ProcTyped  == proc \in [alive : BOOLEAN, reconciled : BOOLEAN, stopping : BOOLEAN, aborting : BOOLEAN]
UsedTyped  == used \in [ops : Nat, faults : Nat, crashes : Nat]
DueRole(x) == Turns!RoleOf(rows[x].st) = turn[x].role
Due        == used.ops = 0 => \A x \in Items : turn[x].at = "start" => DueRole(x)
TurnsInv   == RowsTyped /\ TurnTyped /\ ProcTyped /\ UsedTyped /\ Turns!AttemptsAreOwned /\ Due
TurnsGo    == TurnsInv' /\ Turns!StartsDue

(* A step of the thread of one item, or of the loop at that item.          *)
Alone(k)   == \A x \in Items : x # k => rows'[x] = rows[x] /\ turn'[x] = turn[x]
AttKept(k) == rows'[k].att => turn'[k].at = "run" \/ (rows[k].att /\ turn[k].at # "run")
DueKept(k) == turn'[k].at = "start" => Turns!RoleOf(rows'[k].st) = turn'[k].role
StartKept(k) == rows'[k].att /\ ~rows[k].att /\ used.ops = 0 => DueRole(k)

LEMMA AloneGoes ==
  ASSUME TurnsInv, NEW k \in Items, RowsTyped', TurnTyped', UsedTyped', proc' = proc, used'.ops = used.ops,
         Alone(k), AttKept(k), DueKept(k), StartKept(k)
  PROVE  TurnsGo
<1>1. Turns!AttemptsAreOwned'
  BY DEF TurnsInv, Turns!AttemptsAreOwned, Alone, AttKept
<1>2. Due'
  BY DEF TurnsInv, Due, DueRole, Alone, DueKept
<1>3. Turns!StartsDue
  BY DEF Turns!StartsDue, Alone, StartKept, DueRole
<1>4. ProcTyped'
  BY DEF TurnsInv, ProcTyped
<1>5. QED BY <1>1, <1>2, <1>3, <1>4 DEF TurnsGo, TurnsInv

LEMMA SpendsFaults ==
  ASSUME UsedTyped, Turns!Spend("faults") \/ UNCHANGED used PROVE UsedTyped' /\ used'.ops = used.ops
BY DEF UsedTyped, Turns!Spend

(* What is written to a row: its status, its rev and its round.            *)
Touched(k, new) ==
  /\ DOMAIN new = Items /\ \A x \in Items : DOMAIN new[x] = RowFields /\ new[x].att = rows[x].att /\ (x # k => new[x] = rows[x])

LEMMA AtTouches == ASSUME RowsTyped, NEW k \in Items, NEW st PROVE Touched(k, Turns!At(k, st))
BY DEF RowsTyped, RowFields, Touched, Turns!At

LEMMA BlocksTouches == ASSUME RowsTyped, NEW k \in Items PROVE Touched(k, Turns!Blocks(k))
<1>1. Touched(k, rows)
  BY DEF RowsTyped, Touched
<1>2. QED BY <1>1, AtTouches DEF Turns!Blocks

LEMMA WorkedTouches == ASSUME RowsTyped, NEW k \in Items PROVE Touched(k, Turns!Worked(k))
<1>1. ASSUME NEW its, Touched(k, its), NEW n PROVE Touched(k, [its EXCEPT ![k].round = n])
  BY <1>1 DEF Touched, RowFields
<1>2. QED BY <1>1, AtTouches DEF Turns!Worked

LEMMA FailureTouches ==
  ASSUME RowsTyped, NEW k \in Items, NEW rev, Turns!NoteItemFailure(k, rev) PROVE Touched(k, rows')
<1>1. Touched(k, rows)
  BY DEF RowsTyped, Touched
<1>2. QED BY <1>1, BlocksTouches DEF Turns!NoteItemFailure

LEMMA EndsTurn ==
  ASSUME TurnTyped, NEW k \in Items, Turns!ThreadEnds(k)
  PROVE  TurnTyped' /\ turn'[k].at = "none" /\ \A x \in Items : x # k => turn'[x] = turn[x]
BY DEF TurnTyped, TurnFields, Turns!ThreadEnds, Turns!NoTurn

LEMMA GoesTurn ==
  ASSUME TurnTyped, NEW k \in Items, NEW at, Turns!Goes(k, at)
  PROVE  TurnTyped' /\ turn'[k].at = at /\ turn'[k].role = turn[k].role /\ \A x \in Items : x # k => turn'[x] = turn[x]
BY DEF TurnTyped, TurnFields, Turns!Goes

(* A thread that ends, or goes on past its start, with its row written but *)
(* its attempt as it was, which it does not run.                           *)
LEMMA LeavesGoes ==
  ASSUME TurnsInv, NEW k \in Items, Touched(k, rows'), turn[k].at # "run" \/ ~rows[k].att, proc' = proc,
         Turns!Spend("faults") \/ UNCHANGED used,
         Turns!ThreadEnds(k) \/ UNCHANGED turn \/ (\E at : at # "start" /\ Turns!Goes(k, at)), turn[k].at # "start" \/ Turns!ThreadEnds(k)
  PROVE  TurnsGo
<1>1. RowsTyped'
  BY DEF TurnsInv, RowsTyped, Touched
<1>2. TurnTyped' /\ turn'[k].at # "start" /\ \A x \in Items : x # k => turn'[x] = turn[x]
  <2>1. CASE Turns!ThreadEnds(k)
    BY <2>1, EndsTurn DEF TurnsInv
  <2>2. CASE UNCHANGED turn /\ turn[k].at # "start"
    BY <2>2 DEF TurnsInv, TurnTyped
  <2>3. CASE \E at : at # "start" /\ Turns!Goes(k, at)
    BY <2>3, GoesTurn DEF TurnsInv
  <2>4. QED BY <2>1, <2>2, <2>3
<1>3. Alone(k) /\ AttKept(k) /\ DueKept(k) /\ StartKept(k)
  BY <1>2 DEF Alone, AttKept, DueKept, StartKept, Touched
<1>4. UsedTyped' /\ used'.ops = used.ops
  BY SpendsFaults DEF TurnsInv
<1>5. QED BY <1>1, <1>2, <1>3, <1>4, AloneGoes

LEMMA SameRows == ASSUME TurnsInv, NEW k \in Items, UNCHANGED rows PROVE Touched(k, rows')
BY DEF TurnsInv, RowsTyped, Touched

LEMMA RaisesGoes ==
  ASSUME TurnsInv, NEW k \in Items, Turns!Raises(k), turn[k].at # "run" \/ ~rows[k].att, proc' = proc, UNCHANGED used PROVE TurnsGo
<1>1. Touched(k, rows') /\ Turns!ThreadEnds(k)
  BY FailureTouches DEF Turns!Raises, TurnsInv
<1>2. QED BY <1>1, LeavesGoes

(* The turn of a thread, from its start to its end.                        *)
LEMMA ReadsGoes == ASSUME TurnsInv, NEW k \in Items, Turns!TurnReads(k) PROVE TurnsGo
<1>1. turn[k].at = "read" /\ proc' = proc /\ UNCHANGED used
  BY DEF Turns!TurnReads, Turns!Threads
<1>2. CASE Turns!Raises(k)
  BY <1>1, <1>2, RaisesGoes
<1>3. CASE Turns!ThreadEnds(k) /\ UNCHANGED rows
  BY <1>1, <1>3, LeavesGoes, SameRows
<1>4. CASE Turns!StillDue(k) /\ Turns!Goes(k, "start") /\ UNCHANGED rows
  <2>1. TurnTyped' /\ turn'[k].at = "start" /\ turn'[k].role = turn[k].role /\ \A x \in Items : x # k => turn'[x] = turn[x]
    BY <1>4, GoesTurn DEF TurnsInv
  <2>2. Alone(k) /\ AttKept(k) /\ DueKept(k) /\ StartKept(k)
    BY <1>1, <1>4, <2>1 DEF Alone, AttKept, DueKept, StartKept, Turns!StillDue
  <2>3. RowsTyped' /\ UsedTyped'
    BY <1>1, <1>4 DEF TurnsInv, RowsTyped, UsedTyped
  <2>4. QED BY <1>1, <2>1, <2>2, <2>3, AloneGoes
<1>5. QED BY <1>2, <1>3, <1>4 DEF Turns!TurnReads

LEMMA StartsGoes == ASSUME TurnsInv, NEW k \in Items, Turns!TurnStarts(k) PROVE TurnsGo
<1>1. turn[k].at = "start" /\ proc' = proc /\ UNCHANGED used
  BY DEF Turns!TurnStarts
<1>2. CASE Turns!Raises(k)
  BY <1>1, <1>2, RaisesGoes
<1>3. CASE rows' = Turns!Started(k) /\ turn' = [turn EXCEPT ![k].at = "run"]
  <2>1. RowsTyped' /\ \A x \in Items : x # k => rows'[x] = rows[x]
    BY <1>3 DEF TurnsInv, RowsTyped, RowFields, Turns!Started
  <2>2. TurnTyped' /\ turn'[k].at = "run" /\ \A x \in Items : x # k => turn'[x] = turn[x]
    BY <1>3 DEF TurnsInv, TurnTyped, TurnFields
  <2>3. Alone(k) /\ AttKept(k) /\ DueKept(k)
    BY <2>1, <2>2 DEF Alone, AttKept, DueKept
  <2>4. StartKept(k)
    BY <1>1 DEF TurnsInv, Due, StartKept
  <2>5. UsedTyped'
    BY <1>1 DEF TurnsInv, UsedTyped
  <2>6. QED BY <1>1, <2>1, <2>2, <2>3, <2>4, <2>5, AloneGoes
<1>4. QED BY <1>2, <1>3 DEF Turns!TurnStarts

(* turn_end, with or without an item that is blocked on the way.           *)
LEMMA EndedGoes ==
  ASSUME TurnsInv, NEW k \in Items, turn[k].at = "run", NEW its, Touched(k, its), rows' = [its EXCEPT ![k].att = FALSE], proc' = proc,
         Turns!Spend("faults") \/ UNCHANGED used,
         Turns!ThreadEnds(k) \/ (\E at : at # "start" /\ Turns!Goes(k, at))
  PROVE  TurnsGo
<1>1. RowsTyped' /\ ~rows'[k].att /\ \A x \in Items : x # k => rows'[x] = rows[x]
  BY DEF TurnsInv, RowsTyped, Touched, RowFields
<1>2. TurnTyped' /\ turn'[k].at # "start" /\ \A x \in Items : x # k => turn'[x] = turn[x]
  BY EndsTurn, GoesTurn DEF TurnsInv
<1>3. Alone(k) /\ AttKept(k) /\ DueKept(k) /\ StartKept(k)
  BY <1>1, <1>2 DEF Alone, AttKept, DueKept, StartKept
<1>4. UsedTyped' /\ used'.ops = used.ops
  BY SpendsFaults DEF TurnsInv
<1>5. QED BY <1>1, <1>2, <1>3, <1>4, AloneGoes

LEMMA RunsGoes == ASSUME TurnsInv, NEW k \in Items, Turns!TurnRuns(k) PROVE TurnsGo
<1>1. turn[k].at = "run" /\ proc' = proc
  BY DEF Turns!TurnRuns, Turns!Threads
<1>2. Touched(k, rows) /\ Touched(k, Turns!Blocks(k))
  BY BlocksTouches DEF TurnsInv, RowsTyped, Touched
<1>3. CASE ~rows[k].att /\ Turns!Raises(k) /\ UNCHANGED used
  BY <1>1, <1>3, RaisesGoes
<1>4. CASE rows' = Turns!Ended(k) /\ (Turns!Spend("faults") \/ UNCHANGED used)
            /\ (Turns!ThreadEnds(k) \/ Turns!Goes(k, "deliver") \/ Turns!Goes(k, "fallback"))
  <2>1. rows' = [rows EXCEPT ![k].att = FALSE]
    BY <1>4 DEF Turns!Ended
  <2>2. Turns!ThreadEnds(k) \/ \E at : at # "start" /\ Turns!Goes(k, at)
    BY <1>4
  <2>3. QED BY <1>1, <1>2, <1>4, <2>1, <2>2, EndedGoes
<1>5. CASE (rows' = [Turns!Blocks(k) EXCEPT ![k].att = FALSE] \/ rows' = [rows EXCEPT ![k].att = FALSE]) /\ Turns!ThreadEnds(k) /\ UNCHANGED used
  BY <1>1, <1>2, <1>5, EndedGoes
<1>6. CASE rows' = [(IF Turns!Count(k, turn[k].rev) >= FailCap THEN Turns!Blocks(k) ELSE rows) EXCEPT ![k].att = FALSE]
            /\ Turns!ThreadEnds(k) /\ UNCHANGED used
  BY <1>5, <1>6
<1>7. QED BY <1>3, <1>4, <1>5, <1>6 DEF Turns!TurnRuns

LEMMA FallbackGoes == ASSUME TurnsInv, NEW k \in Items, Turns!SeniorFallback(k) PROVE TurnsGo
<1>1. turn[k].at = "fallback" /\ proc' = proc /\ UNCHANGED <<used, rows>>
  BY DEF Turns!SeniorFallback, Turns!Threads
<1>2. CASE Turns!ThreadEnds(k)
  BY <1>1, <1>2, LeavesGoes, SameRows
<1>3. CASE \E on, saved : turn' = [turn EXCEPT ![k].at = "read", ![k].on = on, ![k].saved = saved]
  <2>1. PICK on, saved : turn' = [turn EXCEPT ![k].at = "read", ![k].on = on, ![k].saved = saved]
    BY <1>3
  <2>2. TurnTyped' /\ turn'[k].at = "read" /\ \A x \in Items : x # k => turn'[x] = turn[x]
    BY <2>1 DEF TurnsInv, TurnTyped, TurnFields
  <2>3. Alone(k) /\ AttKept(k) /\ DueKept(k) /\ StartKept(k)
    BY <1>1, <2>2 DEF Alone, AttKept, DueKept, StartKept
  <2>4. RowsTyped' /\ UsedTyped'
    BY <1>1 DEF TurnsInv, RowsTyped, UsedTyped
  <2>5. QED BY <1>1, <2>2, <2>3, <2>4, AloneGoes
<1>4. QED BY <1>2, <1>3 DEF Turns!SeniorFallback

LEMMA DeliveredTouches ==
  ASSUME TurnsInv, NEW k \in Items, Turns!Delivered(k) PROVE Touched(k, rows')
<1>1. Touched(k, rows) /\ Touched(k, Turns!Worked(k)) /\ \A st : Touched(k, Turns!At(k, st))
  BY AtTouches, WorkedTouches DEF TurnsInv, RowsTyped, Touched
<1>2. rows' = rows \/ rows' = Turns!Worked(k) \/ \E st : rows' = Turns!At(k, st)
  BY DEF Turns!Delivered, Turns!Takes
<1>3. QED BY <1>1, <1>2

LEMMA DeliversGoes == ASSUME TurnsInv, NEW k \in Items, Turns!TurnDelivers(k) PROVE TurnsGo
<1>1. turn[k].at = "deliver" /\ proc' = proc /\ UNCHANGED used
  BY DEF Turns!TurnDelivers, Turns!Threads
<1>2. CASE Turns!Delivered(k) /\ Turns!ThreadEnds(k)
  BY <1>1, <1>2, DeliveredTouches, LeavesGoes
<1>3. CASE rows' = Turns!Blocks(k) /\ Turns!ThreadEnds(k)
  BY <1>1, <1>3, BlocksTouches, LeavesGoes DEF TurnsInv
<1>4. CASE Turns!Counted(k)
  BY <1>1, <1>4, RaisesGoes DEF Turns!Counted
<1>5. CASE (rows' = Turns!At(k, "GRADING") \/ rows' = rows) /\ Turns!Goes(k, "findings")
  <2>1. Touched(k, rows')
    BY <1>5, AtTouches, SameRows DEF TurnsInv
  <2>2. \E at : at # "start" /\ Turns!Goes(k, at)
    BY <1>5
  <2>3. QED BY <1>1, <2>1, <2>2, LeavesGoes
<1>6. QED BY <1>2, <1>3, <1>4, <1>5 DEF Turns!TurnDelivers

LEMMA FindingsGoes == ASSUME TurnsInv, NEW k \in Items, Turns!TurnFindings(k) PROVE TurnsGo
<1>1. turn[k].at = "findings" /\ proc' = proc /\ UNCHANGED used
  BY DEF Turns!TurnFindings, Turns!Threads
<1>2. CASE rows' = Turns!Worked(k) /\ Turns!ThreadEnds(k)
  BY <1>1, <1>2, WorkedTouches, LeavesGoes DEF TurnsInv
<1>3. CASE Turns!Raises(k)
  BY <1>1, <1>3, RaisesGoes
<1>4. QED BY <1>2, <1>3 DEF Turns!TurnFindings

(* The loop.                                                               *)
LEMMA VisitGoes == ASSUME TurnsInv, NEW k \in Items, Turns!Visit(k) PROVE TurnsGo
<1>1. proc' = proc /\ UNCHANGED used
  BY DEF Turns!Visit
<1>2. CASE UNCHANGED <<rows, turn>>
  <2>1. RowsTyped' /\ TurnTyped' /\ UsedTyped'
    BY <1>1, <1>2 DEF TurnsInv, RowsTyped, TurnTyped, UsedTyped
  <2>2. TurnsInv'
    BY <1>1, <1>2, <2>1 DEF TurnsInv, ProcTyped, Turns!AttemptsAreOwned, Due, DueRole
  <2>3. QED BY <1>2, <2>2 DEF TurnsGo, Turns!StartsDue
<1>3. CASE Turns!Claims(k)
  <2>1. turn[k].at = "none" /\ UNCHANGED turn
    BY <1>3 DEF Turns!Claims, Turns!Live, Turns!NoTurn
  <2>2. Touched(k, rows')
    BY <1>3, AtTouches, FailureTouches DEF Turns!Claims, TurnsInv
  <2>3. QED BY <1>1, <2>1, <2>2, LeavesGoes
<1>4. CASE Turns!SpawnRole(k) /\ ~UNCHANGED turn
  <2>1. turn[k].at = "none" /\ UNCHANGED rows
    BY <1>4 DEF Turns!SpawnRole, Turns!Live, Turns!NoTurn
  <2>2. PICK r, role : turn' = [turn EXCEPT ![k] = [at |-> "read", role |-> role, rev |-> seen[k].rev, on |-> <<r>>, saved |-> <<>>]]
    BY <1>4 DEF Turns!SpawnRole
  <2>3. TurnTyped' /\ turn'[k].at = "read" /\ \A x \in Items : x # k => turn'[x] = turn[x]
    BY <2>2 DEF TurnsInv, TurnTyped, TurnFields
  <2>4. Alone(k) /\ AttKept(k) /\ DueKept(k) /\ StartKept(k)
    BY <2>1, <2>3 DEF Alone, AttKept, DueKept, StartKept
  <2>5. RowsTyped' /\ UsedTyped'
    BY <1>1, <2>1 DEF TurnsInv, RowsTyped, UsedTyped
  <2>6. QED BY <1>1, <2>3, <2>4, <2>5, AloneGoes
<1>5. QED BY <1>2, <1>3, <1>4 DEF Turns!Visit, Turns!Skips, Turns!SpawnRole

LEMMA ReconciledRows ==
  ASSUME RowsTyped, rows' = Turns!Reconciled
  PROVE  RowsTyped' /\ \A x \in Items : ~rows'[x].att /\ rows'[x].st = rows[x].st
BY DEF RowsTyped, RowFields, Turns!Reconciled

(* A step that ends or begins the driver's life, reconciles or is the      *)
(* operator's: no attempt is started.                                      *)
LEMMA NobodyStarts ==
  ASSUME TurnsInv, RowsTyped', UNCHANGED turn, ProcTyped', UsedTyped',
         \A x \in Items : rows'[x].att => rows[x].att,
         proc'.alive /\ proc'.reconciled => (proc.alive /\ proc.reconciled) \/ \A x \in Items : ~rows'[x].att,
         used'.ops = 0 => used.ops = 0 /\ \A x \in Items : rows'[x].st = rows[x].st
  PROVE  TurnsGo
<1>1. TurnTyped'
  BY DEF TurnsInv, TurnTyped
<1>2. Turns!AttemptsAreOwned'
  BY DEF TurnsInv, Turns!AttemptsAreOwned
<1>3. Due'
  BY DEF TurnsInv, Due, DueRole
<1>4. Turns!StartsDue
  BY DEF Turns!StartsDue
<1>5. QED BY <1>1, <1>2, <1>3, <1>4 DEF TurnsGo, TurnsInv

LEMMA TickGoes == ASSUME TurnsInv, Turns!TickBegins \/ Turns!StopStep PROVE TurnsGo
<1>1. CASE Turns!TickBegins
  <2>1. proc.alive /\ proc' = [proc EXCEPT !.reconciled = TRUE] /\ UNCHANGED turn
    BY <1>1 DEF Turns!TickBegins
  <2>2. ProcTyped'
    BY <2>1 DEF TurnsInv, ProcTyped
  <2>3. UsedTyped' /\ used'.ops = used.ops
    BY <1>1, SpendsFaults DEF TurnsInv, Turns!TickBegins, Turns!Unparks
  <2>4. CASE proc.reconciled
    <3>1. rows' = rows
      BY <1>1, <2>4 DEF Turns!TickBegins
    <3>2. RowsTyped'
      BY <3>1 DEF TurnsInv, RowsTyped
    <3>3. QED BY <2>1, <2>2, <2>3, <2>4, <3>1, <3>2, NobodyStarts
  <2>5. CASE ~proc.reconciled
    <3>1. rows' = Turns!Reconciled
      BY <1>1, <2>5 DEF Turns!TickBegins
    <3>2. QED BY <2>1, <2>2, <2>3, <3>1, ReconciledRows, NobodyStarts DEF TurnsInv
  <2>6. QED BY <2>4, <2>5
<1>2. CASE Turns!StopStep
  <2>1. proc.alive /\ UNCHANGED <<turn, used>>
    BY <1>2 DEF Turns!StopStep
  <2>2. proc' = [Turns!Fresh EXCEPT !.alive = FALSE] \/ proc' = [proc EXCEPT !.stopping = TRUE, !.reconciled = TRUE, !.aborting = proc.stopping]
    BY <1>2 DEF Turns!StopStep
  <2>3. ProcTyped'
    BY <2>2 DEF TurnsInv, ProcTyped, Turns!Fresh
  <2>4. UsedTyped' /\ used'.ops = used.ops
    BY <2>1 DEF TurnsInv, UsedTyped
  <2>5. CASE proc.reconciled
    <3>1. rows' = rows
      BY <1>2, <2>5 DEF Turns!StopStep
    <3>2. RowsTyped'
      BY <3>1 DEF TurnsInv, RowsTyped
    <3>3. QED BY <2>1, <2>3, <2>4, <2>5, <3>1, <3>2, NobodyStarts
  <2>6. CASE ~proc.reconciled
    <3>1. rows' = Turns!Reconciled
      BY <1>2, <2>6 DEF Turns!StopStep
    <3>2. QED BY <2>1, <2>3, <2>4, <3>1, ReconciledRows, NobodyStarts DEF TurnsInv
  <2>7. QED BY <2>5, <2>6
<1>3. QED BY <1>1, <1>2

(* The operator may move any item: his moves are what TurnsAreDue excepts. *)
LEMMA TurnsOperatorGoes == ASSUME TurnsInv, Turns!Operator PROVE TurnsGo
<1>1. UNCHANGED turn /\ UsedTyped' /\ used'.ops # 0
  BY DEF TurnsInv, UsedTyped, Turns!Operator, Turns!Rest, Turns!Spend
<1>2. proc' = proc /\ ProcTyped'
  BY DEF TurnsInv, ProcTyped, Turns!Operator
<1>3. RowsTyped' /\ \A x \in Items : rows'[x].att => rows[x].att
  <2>1. ASSUME NEW x \in Items, NEW its, Touched(x, its), NEW st PROVE Touched(x, [its EXCEPT ![x].from = st])
    BY <2>1 DEF Touched, RowFields
  <2>2. ASSUME NEW x \in Items, Turns!ItemPause(x) \/ Turns!ItemResume(x) \/ Turns!ItemUnblock(x) PROVE Touched(x, rows')
    BY <2>1, <2>2, AtTouches DEF TurnsInv, Turns!ItemPause, Turns!ItemResume, Turns!ItemUnblock
  <2>3. ASSUME NEW x \in Items, Touched(x, rows') PROVE RowsTyped' /\ \A z \in Items : rows'[z].att => rows[z].att
    BY <2>3 DEF Touched, RowsTyped, TurnsInv
  <2>4. CASE UNCHANGED rows
    BY <2>4 DEF RowsTyped, TurnsInv
  <2>5. CASE rows' = Turns!Reconciled
    BY <2>5, ReconciledRows DEF TurnsInv
  <2>6. QED BY <2>2, <2>3, <2>4, <2>5 DEF Turns!Operator
<1>4. QED BY <1>1, <1>2, <1>3, NobodyStarts

LEMMA TurnsDie == ASSUME TurnsInv, Turns!Crash \/ Turns!Restart PROVE TurnsGo
<1>1. UNCHANGED rows /\ turn' = [x \in Items |-> Turns!NoTurn] /\ ~(proc'.alive /\ proc'.reconciled) /\ ProcTyped'
  <2>1. UNCHANGED rows /\ turn' = [x \in Items |-> Turns!NoTurn]
    BY DEF Turns!Crash, Turns!Restart, Turns!Emptied
  <2>2. proc' = Turns!Fresh \/ proc' = [Turns!Fresh EXCEPT !.alive = FALSE]
    BY DEF Turns!Crash, Turns!Restart
  <2>3. CASE proc' = Turns!Fresh
    BY <2>1, <2>3 DEF Turns!Fresh, ProcTyped
  <2>4. CASE proc' = [Turns!Fresh EXCEPT !.alive = FALSE]
    BY <2>1, <2>4 DEF Turns!Fresh, ProcTyped
  <2>5. QED BY <2>2, <2>3, <2>4
<1>2. UsedTyped'
  BY DEF TurnsInv, UsedTyped, Turns!Crash, Turns!Restart, Turns!Spend
<1>3. RowsTyped' /\ TurnTyped' /\ Turns!AttemptsAreOwned' /\ Due' /\ Turns!StartsDue
  BY <1>1 DEF TurnsInv, RowsTyped, TurnTyped, TurnFields, Turns!NoTurn, Turns!AttemptsAreOwned, Due, Turns!StartsDue
<1>4. QED BY <1>1, <1>2, <1>3 DEF TurnsGo, TurnsInv

LEMMA TurnsStep == ASSUME TurnsInv, [Turns!Next]_(Turns!vars) PROVE TurnsGo
<1>1. CASE Turns!LoopStep
  BY <1>1, TickGoes, VisitGoes DEF Turns!LoopStep
<1>2. CASE Turns!Operator \/ Turns!Crash \/ Turns!Restart
  BY <1>2, TurnsOperatorGoes, TurnsDie
<1>3. ASSUME NEW k \in Items, Turns!ThreadStep(k) PROVE TurnsGo
  BY <1>3, ReadsGoes, StartsGoes, RunsGoes, FallbackGoes, DeliversGoes, FindingsGoes DEF Turns!ThreadStep
<1>4. CASE (\E k \in Items : Turns!BackoffOver(k)) \/ (\E r \in Turns!Runners : Turns!ParkOver(r)) \/ UNCHANGED Turns!vars
  <2>1. UNCHANGED <<rows, turn, proc, used>>
    BY <1>4 DEF Turns!BackoffOver, Turns!ParkOver, Turns!vars
  <2>2. RowsTyped' /\ ProcTyped' /\ UsedTyped'
    BY <2>1 DEF TurnsInv, RowsTyped, ProcTyped, UsedTyped
  <2>3. QED BY <2>1, <2>2, NobodyStarts
<1>5. QED BY <1>1, <1>2, <1>3, <1>4 DEF Turns!Next

LEMMA TurnsInit == ASSUME Turns!Init PROVE TurnsInv
<1>1. RowsTyped /\ TurnTyped /\ ProcTyped
  BY DEF Turns!Init, RowsTyped, RowFields, TurnTyped, TurnFields, ProcTyped, Turns!NoTurn, Turns!Fresh
<1>2. UsedTyped
  BY HalvesAssumption DEF Turns!Init, Turns!TurnsAssumption, UsedTyped
<1>3. Turns!AttemptsAreOwned /\ Due
  BY DEF Turns!Init, Turns!AttemptsAreOwned, Due, Turns!NoTurn, Turns!Fresh
<1>4. QED BY <1>1, <1>2, <1>3 DEF TurnsInv

(* As long as no operator moves an item, an attempt starts only for the    *)
(* role its item is due for (run_turn reads the item again), whatever the  *)
(* thread, its siblings and the ticks did since the row it was spawned of. *)
THEOREM StartsAreDue == Turns!Spec => TurnsAreDue
<1>1. TurnsInv /\ [Turns!Next]_(Turns!vars) => TurnsInv' /\ Turns!StartsDue
  BY TurnsStep DEF TurnsGo
<1>2. QED BY <1>1, TurnsInit, PTL DEF Turns!Spec, TurnsAreDue, Turns!TurnsAreDue

-----------------------------------------------------------------------------
(* Runners.  A model at work that nothing was lost of is the one of the    *)
(* run of the moment, and its run is still listening to it: while the poll *)
(* goes on its session ends in a message of its own that is open.          *)
Waiting    == {"create", "count", "prompt"}
RunRecords == [n : 0 .. MaxRuns, at : Waiting \cup {"idle", "poll", "spawn", "stream", "read"}, sid : 0 .. MaxRuns,
               before : Nat, resumes : Nat, watch : Runs!Watches]
Messages   == [n : Runs!Runs, st : {"open", "done", "error"}]
Records    == [n : Runs!Runs, ok : BOOLEAN]
LostIn(L, n) == \E l \in L : l <= n

RunsTyped ==
  /\ kind \in Runs!Kinds /\ stop \in BOOLEAN
  /\ run \in RunRecords
  /\ run.at # "idle" => run.n \in Runs!Runs
  /\ run.at \in {"count", "prompt", "poll", "stream"} => run.sid \in Runs!Runs
  /\ run.at \in Waiting \cup {"poll"} => kind = "http"
  /\ run.at = "spawn" => run.watch = "none"
  /\ work \subseteq [n : Runs!Runs, sid : Runs!Runs] /\ lost \subseteq Runs!Runs
  /\ msgs \in [Runs!Runs -> Seq(Messages)]
  /\ rec = None \/ rec \in Records

Listening == run.at = "poll" \/ (run.at = "stream" /\ run.watch = "none")
WorkOwned == \A w \in work : w.n <= run.n /\ (LostIn(lost, w.n) \/ (w = Runs!Me /\ Listening))

AnswersOpen(s) ==
  /\ run.before <= Len(s)
  /\ \A k \in DOMAIN s :
       IF k <= run.before THEN s[k].n < run.n
       ELSE s[k] = [n |-> run.n, st |-> IF k = Len(s) THEN "open" ELSE "done"]
Heard ==
  /\ \A x \in Runs!Runs : \A k \in DOMAIN msgs[x] : msgs[x][k].n <= run.n
  /\ run.at \in Waiting /\ ~LostIn(lost, run.n) => \A x \in Runs!Runs : \A k \in DOMAIN msgs[x] : msgs[x][k].n < run.n
  /\ run.at = "prompt" /\ ~LostIn(lost, run.n) => run.before = Len(msgs[run.sid])
  /\ run.at = "poll" /\ ~LostIn(lost, run.n) /\ Runs!Me \in work => AnswersOpen(msgs[run.sid])

Written ==
  /\ rec # None => rec.n = run.n \/ LostIn(lost, run.n)
  /\ outcome # None => run.at = "idle"
  /\ outcome = "PROGRESS_STOP" => rec = None \/ LostIn(lost, run.n)
  /\ outcome = "DONE" => rec.n = run.n \/ LostIn(lost, run.n)

RunsInv == RunsTyped /\ WorkOwned /\ Heard /\ Written

LEMMA RunConstants == MaxRuns \in Nat \ {0} /\ None \notin {"DONE", "PROGRESS_STOP"} /\ Runs!Runs = 1 .. MaxRuns
BY HalvesAssumption DEF Runs!RunnersAssumption, Runs!Runs

(* What is lost stays lost, and is lost to every later run.                *)
LEMMA LostGrows ==
  ASSUME NEW L, NEW M, L \subseteq M, M \subseteq Nat, NEW m \in Nat, NEW n \in Nat, m <= n, LostIn(L, m) PROVE LostIn(M, n)
<1>1. PICK l \in L : l <= m
  BY DEF LostIn
<1>2. l \in M /\ l \in Nat /\ l <= n
  BY <1>1
<1>3. QED BY <1>2 DEF LostIn

LEMMA LostNow ==
  ASSUME NEW L, NEW n \in Nat, n \in L PROVE LostIn(L, n)
BY DEF LostIn

LEMMA RunFacts ==
  ASSUME RunsInv
  PROVE  /\ run.n \in Nat /\ lost \subseteq Nat /\ \A w \in work : w.n \in Runs!Runs /\ w.sid \in Runs!Runs /\ w.n \in Nat
         /\ ~Listening => \A w \in work : LostIn(lost, w.n)
<1>1. run.n \in 0 .. MaxRuns
  BY DEF RunsInv, RunsTyped, RunRecords
<1>2. Runs!Runs \subseteq Nat
  BY RunConstants
<1>3. \A w \in work : w.n \in Runs!Runs /\ w.sid \in Runs!Runs
  BY DEF RunsInv, RunsTyped
<1>4. QED BY <1>1, <1>2, <1>3, RunConstants DEF RunsInv, RunsTyped, WorkOwned

(* No model is at work that nothing was lost of: a step that leaves that   *)
(* so, and the messages as they are, and is outside of the poll.           *)
LEMMA RunEnds ==
  ASSUME RunsInv, NEW status, Runs!Ends(status), lost \subseteq lost', lost' \subseteq Runs!Runs,
         work' \subseteq [n : Runs!Runs, sid : Runs!Runs], \A w \in work' : w.n <= run.n /\ LostIn(lost', w.n),
         rec' = None \/ rec' \in Records,
         rec' # None => rec'.n = run.n \/ LostIn(lost', run.n),
         status = "PROGRESS_STOP" => rec' = None \/ LostIn(lost', run.n),
         status = "DONE" => rec'.n = run.n \/ LostIn(lost', run.n)
  PROVE  RunsInv'
<1>1. run' \in RunRecords /\ run'.n = run.n /\ run'.at = "idle"
  BY DEF RunsInv, RunsTyped, RunRecords, Runs!Ends, Runs!Watches
<1>2. kind' = kind /\ msgs' = msgs /\ stop' = stop /\ outcome' \in {status, "ABORTED"}
  BY DEF Runs!Ends
<1>3. RunsTyped'
  BY <1>1, <1>2 DEF RunsInv, RunsTyped, Waiting
<1>4. WorkOwned' /\ Heard'
  BY <1>1, <1>2 DEF RunsInv, WorkOwned, Heard, Waiting
<1>5. Written'
  BY <1>1, <1>2 DEF Written
<1>6. QED BY <1>3, <1>4, <1>5 DEF RunsInv

(* A run that ends while it was not listening, with nothing written.       *)
LEMMA RunGivesUp ==
  ASSUME RunsInv, NEW status, Runs!Ends(status), Runs!Quiet, ~Listening, status \notin {"DONE", "PROGRESS_STOP"}
  PROVE  RunsInv'
<1>1. \A w \in work' : w.n <= run.n /\ LostIn(lost', w.n)
  BY RunFacts DEF RunsInv, WorkOwned, Runs!Quiet
<1>2. QED BY <1>1, RunEnds DEF RunsInv, RunsTyped, Written, Runs!Quiet

(* The beginning of a turn, or of a run that resumes it.                   *)
LEMMA BeginKeeps ==
  ASSUME RunsInv, NEW sid \in {0, run.sid}, NEW resumes \in Nat, Runs!Begin(sid, resumes),
         rec' = None \/ (rec' = rec /\ (rec = None \/ LostIn(lost, run.n)))
  PROVE  RunsInv'
<1>1. run.at = "idle" /\ run.n < MaxRuns /\ UNCHANGED <<kind, msgs, work, lost, stop>> /\ outcome' = None
  BY DEF Runs!Begin
<1>2. run' = [n |-> run.n + 1, sid |-> sid, before |-> 0, resumes |-> resumes, watch |-> "none",
              at |-> IF kind = "http" /\ sid # 0 THEN "count" ELSE Runs!First(kind)]
  BY DEF Runs!Begin
<1>3. run.n \in Nat /\ run.n + 1 \in Runs!Runs /\ run.n + 1 \in 0 .. MaxRuns /\ run.n < run.n + 1 /\ run.n <= run.n + 1
  BY <1>1, RunFacts, RunConstants
<1>4. sid \in 0 .. MaxRuns
  BY RunConstants DEF RunsInv, RunsTyped, RunRecords
<1>5. run' \in RunRecords /\ run'.n = run.n + 1 /\ run'.at \in {"count", "create", "spawn"} /\ run'.watch = "none"
  BY <1>2, <1>3, <1>4 DEF RunRecords, Waiting, Runs!First, Runs!Watches
<1>6. (run'.at \in Waiting => kind = "http") /\ (run'.at = "count" => run'.sid \in Runs!Runs)
  BY <1>2, <1>4, RunConstants DEF Waiting, Runs!First
<1>7. RunsTyped'
  BY <1>1, <1>3, <1>5, <1>6 DEF RunsInv, RunsTyped, Waiting
<1>8. \A w \in work : LostIn(lost, w.n) /\ w.n <= run.n + 1
  BY <1>1, <1>3, RunFacts DEF RunsInv, WorkOwned, Listening
<1>9. WorkOwned'
  BY <1>1, <1>5, <1>8 DEF WorkOwned
<1>10. \A x \in Runs!Runs : \A k \in DOMAIN msgs[x] : msgs[x][k].n < run.n + 1
  <2>1. ASSUME NEW x \in Runs!Runs, NEW k \in DOMAIN msgs[x] PROVE msgs[x][k].n < run.n + 1
    <3>1. msgs[x][k] \in Messages
      BY LenProperties DEF RunsInv, RunsTyped
    <3>2. msgs[x][k].n \in Nat
      BY <3>1, RunConstants DEF Messages
    <3>3. msgs[x][k].n <= run.n
      BY DEF RunsInv, Heard
    <3>4. QED BY <1>3, <3>2, <3>3
  <2>2. QED BY <2>1
<1>11. Heard'
  <2>1. ASSUME NEW x \in Runs!Runs, NEW k \in DOMAIN msgs'[x] PROVE msgs'[x][k].n <= run'.n
    <3>1. k \in DOMAIN msgs[x] /\ msgs'[x][k] = msgs[x][k]
      BY <1>1, <2>1
    <3>2. msgs[x][k] \in Messages
      BY <3>1, LenProperties DEF RunsInv, RunsTyped
    <3>3. msgs[x][k].n \in Nat
      BY <3>2, RunConstants DEF Messages
    <3>4. msgs[x][k].n <= run.n
      BY <3>1 DEF RunsInv, Heard
    <3>5. QED BY <1>3, <1>5, <3>1, <3>3, <3>4
  <2>2. QED BY <1>1, <1>5, <1>10, <2>1 DEF Heard
<1>12. LostIn(lost, run.n) => LostIn(lost, run.n + 1)
  BY <1>3, RunFacts, LostGrows
<1>13. Written'
  BY <1>1, <1>5, <1>12, RunConstants DEF Written
<1>14. QED BY <1>7, <1>9, <1>11, <1>13 DEF RunsInv

LEMMA TurnKeeps == ASSUME RunsInv, Runs!Turn \/ Runs!Resumes PROVE RunsInv'
<1>1. CASE Runs!Turn
  BY <1>1, BeginKeeps DEF Runs!Turn
<1>2. CASE Runs!Resumes
  <2>1. run.resumes + 1 \in Nat
    BY DEF RunsInv, RunsTyped, RunRecords
  <2>2. rec = None \/ LostIn(lost, run.n)
    BY <1>2 DEF Runs!Resumes, Runs!GoesOn, RunsInv, Written
  <2>3. QED BY <1>2, <2>1, <2>2, BeginKeeps DEF Runs!Resumes
<1>3. QED BY <1>1, <1>2

(* OpenCodeHttpRunner: the session, the count and the prompt.              *)
LEMMA CreateKeeps == ASSUME RunsInv, Runs!Create PROVE RunsInv'
<1>1. run.at = "create" /\ ~Listening /\ Runs!Quiet
  BY DEF Runs!Create, Listening
<1>2. ASSUME NEW status, Runs!Ends(status), status \in {"RUNNER_CRASH", "DEGRADED"} PROVE RunsInv'
  BY <1>1, <1>2, RunGivesUp
<1>3. CASE run' = [run EXCEPT !.sid = run.n, !.at = "count"] /\ UNCHANGED <<kind, msgs, stop, outcome>>
  <2>1. run.n \in Runs!Runs /\ run.n \in 0 .. MaxRuns /\ kind = "http" /\ outcome = None
    BY <1>1 DEF RunsInv, RunsTyped, RunRecords, Waiting, Written
  <2>2. run' \in RunRecords /\ run'.n = run.n /\ run'.at = "count" /\ run'.sid = run.n
    BY <1>3, <2>1 DEF RunsInv, RunsTyped, RunRecords, Waiting
  <2>3. RunsTyped'
    BY <1>1, <1>3, <2>1, <2>2 DEF RunsInv, RunsTyped, Waiting, Runs!Quiet
  <2>4. WorkOwned'
    BY <1>1, <2>2, RunFacts DEF RunsInv, WorkOwned, Runs!Quiet
  <2>5. Heard' /\ Written'
    BY <1>1, <1>3, <2>2 DEF RunsInv, Heard, Written, Waiting, Runs!Quiet
  <2>6. QED BY <2>3, <2>4, <2>5 DEF RunsInv
<1>4. QED BY <1>2, <1>3 DEF Runs!Create

LEMMA CountKeeps == ASSUME RunsInv, Runs!Count PROVE RunsInv'
<1>1. run.at = "count" /\ ~Listening /\ run.n \in Runs!Runs /\ run.sid \in Runs!Runs /\ kind = "http" /\ outcome = None
  BY DEF Runs!Count, Listening, RunsInv, RunsTyped, Waiting, Written
<1>2. CASE Runs!Ends("DEGRADED") /\ Runs!Quiet
  BY <1>1, <1>2, RunGivesUp
<1>3. CASE run' = [run EXCEPT !.before = Len(msgs[run.sid]), !.at = "prompt"] /\ Runs!Quiet /\ UNCHANGED <<kind, msgs, stop, outcome>>
  <2>1. Len(msgs[run.sid]) \in Nat
    BY <1>1, LenProperties DEF RunsInv, RunsTyped
  <2>2. run' \in RunRecords /\ run'.n = run.n /\ run'.at = "prompt" /\ run'.sid = run.sid /\ run'.before = Len(msgs[run.sid])
    BY <1>3, <2>1 DEF RunsInv, RunsTyped, RunRecords, Waiting
  <2>3. RunsTyped'
    BY <1>1, <1>3, <2>2 DEF RunsInv, RunsTyped, Waiting, Runs!Quiet
  <2>4. WorkOwned'
    BY <1>1, <1>3, <2>2, RunFacts DEF RunsInv, WorkOwned, Runs!Quiet
  <2>5. Heard' /\ Written'
    BY <1>1, <1>3, <2>2 DEF RunsInv, Heard, Written, Waiting, Runs!Quiet
  <2>6. QED BY <2>3, <2>4, <2>5 DEF RunsInv
<1>4. CASE Runs!Goes("prompt") /\ lost' = lost \cup {run.n} /\ UNCHANGED <<kind, msgs, work, rec, stop, outcome>>
  <2>1. run' \in RunRecords /\ run'.n = run.n /\ run'.at = "prompt" /\ run'.sid = run.sid
    BY <1>4 DEF RunsInv, RunsTyped, RunRecords, Waiting, Runs!Goes
  <2>2. RunsTyped'
    BY <1>1, <1>4, <2>1 DEF RunsInv, RunsTyped, Waiting
  <2>3. LostIn(lost', run.n) /\ \A w \in work : LostIn(lost', w.n)
    BY <1>1, <1>4, RunFacts DEF LostIn
  <2>4. WorkOwned'
    BY <1>4, <2>1, <2>3 DEF RunsInv, WorkOwned
  <2>5. Heard' /\ Written'
    BY <1>1, <1>4, <2>1, <2>3 DEF RunsInv, Heard, Written
  <2>6. QED BY <2>2, <2>4, <2>5 DEF RunsInv
<1>5. QED BY <1>2, <1>3, <1>4 DEF Runs!Count

LEMMA PromptKeeps == ASSUME RunsInv, Runs!Prompt PROVE RunsInv'
<1>1. run.at = "prompt" /\ ~Listening /\ run.n \in Runs!Runs /\ run.sid \in Runs!Runs /\ kind = "http" /\ outcome = None
  BY DEF Runs!Prompt, Listening, RunsInv, RunsTyped, Waiting, Written
<1>2. Runs!Me \in [n : Runs!Runs, sid : Runs!Runs] /\ Runs!Me.n = run.n
  BY <1>1 DEF Runs!Me
<1>3. ASSUME NEW status \in Runs!Provider \cup {"RUNNER_CRASH"}, Runs!Ends(status), Runs!Quiet PROVE RunsInv'
  BY <1>1, <1>3, RunGivesUp DEF Runs!Provider
<1>4. CASE Runs!Ends("DEGRADED") /\ work' = work \cup {Runs!Me} /\ lost' = lost \cup {run.n} /\ UNCHANGED rec
  <2>1. LostIn(lost', run.n) /\ \A w \in work : LostIn(lost', w.n)
    BY <1>1, <1>4, RunFacts DEF LostIn
  <2>2. lost' \subseteq Runs!Runs /\ work' \subseteq [n : Runs!Runs, sid : Runs!Runs]
    BY <1>1, <1>2, <1>4 DEF RunsInv, RunsTyped
  <2>3. \A w \in work' : w.n <= run.n /\ LostIn(lost', w.n)
    BY <1>2, <1>4, <2>1, RunFacts DEF RunsInv, WorkOwned
  <2>4. (rec' = None \/ rec' \in Records) /\ (rec' # None => rec'.n = run.n \/ LostIn(lost', run.n))
    BY <1>4, <2>1 DEF RunsInv, RunsTyped
  <2>5. QED BY <1>4, <2>2, <2>3, <2>4, RunEnds
<1>5. CASE Runs!Goes("poll") /\ work' = work \cup {Runs!Me} /\ UNCHANGED <<kind, msgs, lost, rec, stop, outcome>>
  <2>1. run' \in RunRecords /\ run'.n = run.n /\ run'.at = "poll" /\ run'.sid = run.sid /\ run'.before = run.before
    BY <1>5 DEF RunsInv, RunsTyped, RunRecords, Waiting, Runs!Goes
  <2>2. RunsTyped'
    BY <1>1, <1>2, <1>5, <2>1 DEF RunsInv, RunsTyped, Waiting
  <2>3. Runs!Me' = Runs!Me /\ Listening'
    BY <2>1 DEF Runs!Me, Listening
  <2>4. WorkOwned'
    BY <1>1, <1>2, <1>5, <2>1, <2>3, RunFacts DEF RunsInv, WorkOwned
  <2>5. Heard'
    <3>1. ASSUME ~LostIn(lost, run.n) PROVE AnswersOpen(msgs[run.sid])'
      <4>1. run.before = Len(msgs[run.sid]) /\ \A k \in DOMAIN msgs[run.sid] : msgs[run.sid][k].n < run.n
        BY <1>1, <3>1 DEF RunsInv, Heard, Waiting
      <4>2. DOMAIN msgs[run.sid] = 1 .. Len(msgs[run.sid]) /\ Len(msgs[run.sid]) \in Nat
        BY <1>1, LenProperties DEF RunsInv, RunsTyped
      <4>3. QED BY <1>5, <2>1, <4>1, <4>2 DEF AnswersOpen
    <3>2. QED BY <1>5, <2>1, <3>1 DEF RunsInv, Heard, Waiting
  <2>6. Written'
    BY <1>1, <1>5, <2>1 DEF RunsInv, Written
  <2>7. QED BY <2>2, <2>4, <2>5, <2>6 DEF RunsInv
<1>6. QED BY <1>3, <1>4, <1>5 DEF Runs!Prompt

LEMMA TailIs ==
  ASSUME NEW S, NEW s \in Seq(S), NEW b \in Nat, b <= Len(s)
  PROVE  LET m == SubSeq(s, b + 1, Len(s))
         IN  m \in Seq(S) /\ Len(m) = Len(s) - b /\ \A k \in 1 .. Len(s) - b : m[k] = s[b + k]
<1> DEFINE m == SubSeq(s, b + 1, Len(s))
<1>1. Len(s) \in Nat /\ b + 1 \in Int /\ Len(s) \in Int
  BY LenProperties
<1>2. \A k \in b + 1 .. Len(s) : s[k] \in S
  BY <1>1, LenProperties
<1>3. /\ m \in Seq(S)
      /\ Len(m) = IF b + 1 <= Len(s) THEN Len(s) - (b + 1) + 1 ELSE 0
      /\ \A k \in 1 .. Len(s) - (b + 1) + 1 : m[k] = s[b + 1 + k - 1]
  BY <1>1, <1>2, SubSeqProperties
<1> HIDE DEF m
<1>4. Len(s) - (b + 1) + 1 = Len(s) - b
  BY <1>1
<1>5. Len(m) = Len(s) - b
  <2>1. CASE b + 1 <= Len(s)
    BY <1>3, <1>4, <2>1
  <2>2. CASE ~(b + 1 <= Len(s))
    <3>1. Len(m) = 0
      BY <1>3, <2>2
    <3>2. QED BY <1>1, <2>2, <3>1
  <2>3. QED BY <2>1, <2>2
<1>6. ASSUME NEW k \in 1 .. Len(s) - b PROVE m[k] = s[b + k]
  <2>1. b + 1 + k - 1 = b + k
    BY <1>1
  <2>2. QED BY <1>3, <1>4, <2>1
<1>7. QED BY <1>3, <1>5, <1>6 DEF m

(* The poll ends by itself only when the model has.                        *)
LEMMA OpenIsNotOver ==
  ASSUME RunsInv, run.at = "poll", ~LostIn(lost, run.n), Runs!Me \in work PROVE ~Runs!Failed /\ ~Runs!Completed
<1> DEFINE s == msgs[run.sid]
           b == run.before
<1>1. s \in Seq(Messages) /\ Len(s) \in Nat /\ DOMAIN s = 1 .. Len(s) /\ b \in Nat /\ b <= Len(s)
  BY LenProperties DEF RunsInv, RunsTyped, RunRecords, Heard, AnswersOpen
<1>2. \A k \in 1 .. Len(s) : k > b => s[k] = [n |-> run.n, st |-> IF k = Len(s) THEN "open" ELSE "done"]
  BY <1>1 DEF RunsInv, Heard, AnswersOpen
<1>3. Runs!Mine = SubSeq(s, b + 1, Len(s))
  BY DEF Runs!Mine
<1>4. Runs!Mine \in Seq(Messages)
  BY <1>1, <1>3, TailIs
<1>5. Len(Runs!Mine) = Len(s) - b /\ \A k \in 1 .. Len(s) - b : Runs!Mine[k] = s[b + k]
  BY <1>1, <1>3, TailIs
<1>6. DOMAIN Runs!Mine = 1 .. Len(s) - b
  BY <1>4, <1>5, LenProperties
<1>7. ASSUME NEW k \in 1 .. Len(s) - b PROVE Runs!Mine[k].st = IF b + k = Len(s) THEN "open" ELSE "done"
  <2>1. b + k \in 1 .. Len(s) /\ b + k > b
    BY <1>1, <1>7
  <2>2. s[b + k] = [n |-> run.n, st |-> IF b + k = Len(s) THEN "open" ELSE "done"]
    BY <1>2, <2>1
  <2>3. QED BY <1>5, <1>7, <2>2
<1>8. ~Runs!Failed
  BY <1>6, <1>7 DEF Runs!Failed
<1>9. ASSUME Runs!Mine # <<>> PROVE Runs!Mine[Len(Runs!Mine)].st = "open"
  <2>1. Len(Runs!Mine) # 0
    BY <1>4, <1>9, EmptySeq
  <2>2. QED BY <1>1, <1>5, <1>7, <2>1
<1>10. ~Runs!Completed
  BY <1>9 DEF Runs!Completed, Runs!Last
<1>11. QED BY <1>8, <1>10

LEMMA PollKeeps == ASSUME RunsInv, Runs!PollStops \/ Runs!PollEnds \/ Runs!Poll PROVE RunsInv'
<1>1. run.at = "poll" /\ run.n \in Runs!Runs /\ kind = "http" /\ outcome = None /\ UNCHANGED rec
  BY DEF Runs!PollStops, Runs!PollEnds, Runs!Poll, Runs!Aborts, Runs!Quiet, RunsInv, RunsTyped, Written
<1>2. ASSUME NEW status, status \notin {"DONE", "PROGRESS_STOP"}, Runs!Ends(status), lost \subseteq lost', lost' \subseteq Runs!Runs,
             work' \subseteq work, \A w \in work' : LostIn(lost', w.n) PROVE RunsInv'
  <2>1. LostIn(lost, run.n) => LostIn(lost', run.n)
    BY <1>2 DEF LostIn
  <2>2. \A w \in work' : w.n <= run.n
    BY <1>2 DEF RunsInv, WorkOwned
  <2>3. work' \subseteq [n : Runs!Runs, sid : Runs!Runs] /\ (rec' = None \/ rec' \in Records)
    BY <1>1, <1>2 DEF RunsInv, RunsTyped
  <2>4. rec' # None => rec'.n = run.n \/ LostIn(lost', run.n)
    BY <1>1, <2>1 DEF RunsInv, Written
  <2>5. QED BY <1>2, <2>2, <2>3, <2>4, RunEnds
<1>3. ASSUME Runs!Aborts, NEW status \in {"ABORTED", "RUNNER_TIMEOUT"}, Runs!Ends(status) PROVE RunsInv'
  <2>1. CASE work' = {w \in work : w.sid # run.sid} /\ UNCHANGED lost
    <3>1. \A w \in work' : LostIn(lost', w.n)
      BY <2>1 DEF RunsInv, WorkOwned, Runs!Me
    <3>2. QED BY <1>2, <1>3, <2>1, <3>1 DEF RunsInv, RunsTyped
  <2>2. CASE lost' = lost \cup {run.n} /\ UNCHANGED work
    <3>1. \A w \in work' : LostIn(lost', w.n)
      BY <2>2, RunFacts DEF RunsInv, WorkOwned, Runs!Me, LostIn
    <3>2. QED BY <1>1, <1>2, <1>3, <2>2, <3>1 DEF RunsInv, RunsTyped
  <2>3. QED BY <1>3, <2>1, <2>2 DEF Runs!Aborts
<1>4. CASE Runs!Poll
  <2>1. UNCHANGED <<work, lost>> /\ (Runs!Failed \/ Runs!Completed)
    BY <1>4 DEF Runs!Poll, Runs!Quiet
  <2>2. \A w \in work : LostIn(lost, w.n)
    <3>1. ASSUME NEW w \in work, ~LostIn(lost, w.n) PROVE FALSE
      <4>1. w = Runs!Me /\ w.n = run.n
        BY <3>1 DEF RunsInv, WorkOwned, Runs!Me
      <4>2. QED BY <1>1, <2>1, <3>1, <4>1, OpenIsNotOver
    <3>2. QED BY <3>1
  <2>3. ASSUME NEW status \in Runs!Provider, Runs!Ends(status) PROVE RunsInv'
    BY <1>2, <2>1, <2>2, <2>3 DEF Runs!Provider, RunsInv, RunsTyped
  <2>4. CASE Runs!Goes("read") /\ UNCHANGED <<kind, msgs, stop, outcome>>
    <3>1. run' \in RunRecords /\ run'.n = run.n /\ run'.at = "read"
      BY <2>4 DEF RunsInv, RunsTyped, RunRecords, Waiting, Runs!Goes
    <3>2. RunsTyped'
      BY <1>1, <2>1, <2>4, <3>1 DEF RunsInv, RunsTyped, Waiting
    <3>3. WorkOwned'
      BY <2>1, <2>2, <3>1 DEF RunsInv, WorkOwned
    <3>4. Heard' /\ Written'
      BY <1>1, <2>1, <2>4, <3>1 DEF RunsInv, Heard, Written, Waiting
    <3>5. QED BY <3>2, <3>3, <3>4 DEF RunsInv
  <2>5. QED BY <1>4, <2>3, <2>4 DEF Runs!Poll
<1>5. QED BY <1>3, <1>4 DEF Runs!PollStops, Runs!PollEnds

(* Exec.stream: the command, its watchdog, its end.                        *)
LEMMA SpawnKeeps == ASSUME RunsInv, Runs!Spawn PROVE RunsInv'
<1>1. run.at = "spawn" /\ run.watch = "none" /\ ~Listening /\ run.n \in Runs!Runs /\ outcome = None
  BY DEF Runs!Spawn, Listening, RunsInv, RunsTyped, Written
<1>2. CASE Runs!Quiet /\ Runs!Ends("RUNNER_CRASH")
  BY <1>1, <1>2, RunGivesUp
<1>3. ASSUME NEW sid \in {run.n, run.sid}, sid # 0, run' = [run EXCEPT !.sid = sid, !.at = "stream"],
             work' = work \cup {[n |-> run.n, sid |-> sid]}, UNCHANGED <<kind, msgs, lost, rec, stop, outcome>> PROVE RunsInv'
  <2>1. sid \in Runs!Runs /\ sid \in 0 .. MaxRuns
    BY <1>1, <1>3, RunConstants DEF RunsInv, RunsTyped, RunRecords
  <2>2. run' \in RunRecords /\ run'.n = run.n /\ run'.at = "stream" /\ run'.sid = sid /\ run'.watch = "none"
    BY <1>1, <1>3, <2>1 DEF RunsInv, RunsTyped, RunRecords, Waiting
  <2>3. RunsTyped'
    BY <1>1, <1>3, <2>1, <2>2 DEF RunsInv, RunsTyped, Waiting
  <2>4. Runs!Me' = [n |-> run.n, sid |-> sid] /\ Listening'
    BY <2>2 DEF Runs!Me, Listening
  <2>5. WorkOwned'
    BY <1>1, <1>3, <2>2, <2>4, RunFacts DEF RunsInv, WorkOwned
  <2>6. Heard' /\ Written'
    BY <1>1, <1>3, <2>2 DEF RunsInv, Heard, Written, Waiting
  <2>7. QED BY <2>3, <2>5, <2>6 DEF RunsInv
<1>4. CASE \E sid \in {run.n, run.sid} : sid # 0 /\ run' = [run EXCEPT !.sid = sid, !.at = "stream"]
             /\ work' = work \cup {[n |-> run.n, sid |-> sid]} /\ UNCHANGED <<kind, msgs, lost, rec, stop, outcome>>
  BY <1>3, <1>4
<1>5. run.n # 0
  BY <1>1, RunConstants
<1>6. QED BY <1>2, <1>4, <1>5 DEF Runs!Spawn

LEMMA KillKeeps == ASSUME RunsInv, NEW why \in {"aborted", "timed", "error"}, Runs!KillGroup(why) PROVE RunsInv'
<1>1. run.at = "stream" /\ run.watch = "none" /\ run.n \in Runs!Runs /\ outcome = None /\ UNCHANGED <<kind, msgs, rec, stop, outcome>>
  BY DEF Runs!KillGroup, RunsInv, RunsTyped, Written
<1>2. run' \in RunRecords /\ run'.n = run.n /\ run'.at = "stream" /\ run'.sid = run.sid
  BY DEF Runs!KillGroup, RunsInv, RunsTyped, RunRecords, Runs!Watches
<1>3. /\ (lost' = lost \cup {run.n} /\ UNCHANGED work) \/ (work' = work \ {Runs!Me} /\ UNCHANGED lost)
  BY DEF Runs!KillGroup
<1>4. RunsTyped'
  BY <1>1, <1>2, <1>3 DEF RunsInv, RunsTyped, Waiting
<1>5. lost \subseteq lost' /\ \A n : LostIn(lost, n) => LostIn(lost', n)
  BY <1>3 DEF LostIn
<1>6. \A w \in work' : w \in work /\ LostIn(lost', w.n)
  <2>1. CASE lost' = lost \cup {run.n} /\ UNCHANGED work
    BY <2>1, RunFacts DEF RunsInv, WorkOwned, Runs!Me, LostIn
  <2>2. CASE work' = work \ {Runs!Me} /\ UNCHANGED lost
    BY <2>2 DEF RunsInv, WorkOwned
  <2>3. QED BY <1>3, <2>1, <2>2
<1>7. WorkOwned'
  BY <1>2, <1>6 DEF RunsInv, WorkOwned
<1>8. Heard' /\ Written'
  BY <1>1, <1>2, <1>5 DEF RunsInv, Heard, Written, Waiting
<1>9. QED BY <1>4, <1>7, <1>8 DEF RunsInv

LEMMA StreamEndsKeeps == ASSUME RunsInv, Runs!StreamEnds PROVE RunsInv'
<1>1. run.at = "stream" /\ (Runs!Me \in work => run.watch # "none") /\ run.n \in Runs!Runs /\ outcome = None
      /\ UNCHANGED <<kind, msgs, work, lost, rec, stop, outcome>>
  BY DEF Runs!StreamEnds, Runs!Quiet, RunsInv, RunsTyped, Written
<1>2. run' \in RunRecords /\ run'.n = run.n /\ run'.at = "read"
  BY DEF Runs!StreamEnds, Runs!Goes, RunsInv, RunsTyped, RunRecords, Waiting
<1>3. RunsTyped'
  BY <1>1, <1>2 DEF RunsInv, RunsTyped, Waiting
<1>4. WorkOwned'
  BY <1>1, <1>2 DEF RunsInv, WorkOwned, Listening
<1>5. Heard' /\ Written'
  BY <1>1, <1>2 DEF RunsInv, Heard, Written, Waiting
<1>6. QED BY <1>3, <1>4, <1>5 DEF RunsInv

(* How a run is judged: DONE is said only over a record, PROGRESS_STOP     *)
(* only where there is none.                                               *)
LEMMA ResultsSay ==
  ASSUME RunsInv, NEW r \in Runs!Results
  PROVE  /\ r.status = "DONE" => r.taken \/ rec # None
         /\ r.status = "PROGRESS_STOP" => ~r.taken /\ rec = None
<1>1. ASSUME NEW S, NEW x \in Runs!Says(S) PROVE x.status \in S /\ ~x.taken
  BY <1>1 DEF Runs!Says
<1>2. ASSUME NEW x \in Runs!Fence PROVE x.status # "PROGRESS_STOP" /\ x.taken
  BY <1>2 DEF Runs!Fence
<1>3. ASSUME NEW x \in Runs!Record PROVE x.status # "PROGRESS_STOP" /\ ~x.taken
  <2>1. Runs!Graded(rec.ok) \in {"DONE", "INCOMPLETE"}
    BY Zenon DEF Runs!Graded
  <2>2. x.status = Runs!Graded(rec.ok) /\ ~x.taken
    BY <1>3 DEF Runs!Record, Runs!Says
  <2>3. QED BY <2>1, <2>2
<1>4. CASE Runs!Killed
  <2>1. r \in Runs!Says({"ABORTED"}) \cup Runs!Says({"RUNNER_TIMEOUT"}) \cup Runs!Says(Runs!Provider)
    BY <1>4 DEF Runs!Results, Runs!Killed, Runs!KilledAs
  <2>2. QED BY <1>1, <2>1 DEF Runs!Provider
<1>5. CASE r \in Runs!HttpResults
  <2>1. \/ r \in Runs!Says({"MODEL_MISMATCH"})
        \/ rec # None /\ r \in Runs!Record
        \/ rec = None /\ r \in Runs!Fence
        \/ rec = None /\ r \in Runs!Says({"RUNNER_DENIED", "RUNNER_REFUSED", "RUNNER_EMPTY", "PROGRESS_STOP"})
    BY Zenon, <1>5 DEF Runs!HttpResults
  <2>2. CASE r \in Runs!Says({"MODEL_MISMATCH"})
    BY <1>1, <2>2
  <2>3. CASE rec # None /\ r \in Runs!Record
    BY <1>3, <2>3
  <2>4. CASE r \in Runs!Fence
    BY <1>2, <2>4
  <2>5. CASE rec = None /\ r \in Runs!Says({"RUNNER_DENIED", "RUNNER_REFUSED", "RUNNER_EMPTY", "PROGRESS_STOP"})
    BY <1>1, <2>5
  <2>6. QED BY <2>1, <2>2, <2>3, <2>4, <2>5
<1>6. CASE r \in Runs!CliResults
  <2>1. \/ r \in Runs!Says(Runs!Provider \cup {"SESSION_MISMATCH"})
        \/ rec # None /\ r \in Runs!Record
        \/ rec = None /\ r \in Runs!Fence
        \/ rec = None /\ r \in Runs!Says({"RUNNER_DENIED", "RUNNER_CRASH", "RUNNER_REFUSED", "RUNNER_EMPTY", "PROGRESS_STOP"})
    BY Zenon, <1>6 DEF Runs!CliResults
  <2>2. CASE r \in Runs!Says(Runs!Provider \cup {"SESSION_MISMATCH"})
    BY <1>1, <2>2 DEF Runs!Provider
  <2>3. CASE rec # None /\ r \in Runs!Record
    BY <1>3, <2>3
  <2>4. CASE r \in Runs!Fence
    BY <1>2, <2>4
  <2>5. CASE rec = None /\ r \in Runs!Says({"RUNNER_DENIED", "RUNNER_CRASH", "RUNNER_REFUSED", "RUNNER_EMPTY", "PROGRESS_STOP"})
    BY <1>1, <2>5
  <2>6. QED BY <2>1, <2>2, <2>3, <2>4, <2>5
<1>7. CASE r \in Runs!CodexResults
  <2> DEFINE C == (Runs!Provider \ {"RATE"}) \cup {"MODEL_MISMATCH", "RUNNER_REFUSED", "RUNNER_CRASH", "RUNNER_EMPTY", "INCOMPLETE"}
  <2>1. r \in Runs!Fence \/ r \in Runs!Says(C)
    BY Zenon, <1>7 DEF Runs!CodexResults
  <2>2. CASE r \in Runs!Says(C)
    BY <1>1, <2>2 DEF Runs!Provider
  <2>3. QED BY <1>2, <2>1, <2>2
<1>8. CASE r \in Runs!ClaudeResults
  <2>1. \/ r \in Runs!Fence
        \/ r \in Runs!Says({"RATE", "AUTH", "RUNNER_CRASH", "INCOMPLETE"})
        \/ rec # None /\ r \in Runs!Record
        \/ rec = None /\ r \in Runs!Says({"RUNNER_DENIED", "RUNNER_REFUSED", "RUNNER_EMPTY"})
    BY Zenon, <1>8 DEF Runs!ClaudeResults
  <2>2. CASE r \in Runs!Says({"RATE", "AUTH", "RUNNER_CRASH", "INCOMPLETE"})
    BY <1>1, <2>2
  <2>3. CASE rec # None /\ r \in Runs!Record
    BY <1>3, <2>3
  <2>4. CASE r \in Runs!Says({"RUNNER_DENIED", "RUNNER_REFUSED", "RUNNER_EMPTY"})
    BY <1>1, <2>4
  <2>5. QED BY <1>2, <2>1, <2>2, <2>3, <2>4
<1>9. ~Runs!Killed => r \in Runs!HttpResults \/ r \in Runs!CliResults \/ r \in Runs!CodexResults \/ r \in Runs!ClaudeResults
  BY DEF Runs!Results, RunsInv, RunsTyped, Runs!Kinds
<1>10. QED BY <1>4, <1>5, <1>6, <1>7, <1>8, <1>9

LEMMA ReadKeeps == ASSUME RunsInv, Runs!Read PROVE RunsInv'
<1>1. run.at = "read" /\ ~Listening /\ run.n \in Runs!Runs /\ UNCHANGED <<work, lost>>
  BY DEF Runs!Read, Listening, RunsInv, RunsTyped
<1>2. PICK r \in Runs!Results : Runs!Ends(r.status) /\ rec' = IF r.taken THEN [n |-> run.n, ok |-> r.status = "DONE"] ELSE rec
  BY DEF Runs!Read
<1>3. \A w \in work' : w.n <= run.n /\ LostIn(lost', w.n)
  BY <1>1, RunFacts DEF RunsInv, WorkOwned
<1>4. rec' = None \/ rec' \in Records
  BY <1>1, <1>2 DEF RunsInv, RunsTyped, Records
<1>5. CASE r.taken
  <2>1. rec'.n = run.n
    BY <1>2, <1>5
  <2>2. r.status # "PROGRESS_STOP"
    BY <1>5, ResultsSay
  <2>3. QED BY <1>1, <1>2, <1>3, <1>4, <2>1, <2>2, RunEnds DEF RunsInv, RunsTyped
<1>6. CASE ~r.taken
  <2>1. rec' = rec /\ (r.status = "DONE" => rec # None) /\ (r.status = "PROGRESS_STOP" => rec = None)
    BY <1>2, <1>6, ResultsSay
  <2>2. rec # None => rec.n = run.n \/ LostIn(lost, run.n)
    BY DEF RunsInv, Written
  <2>3. QED BY <1>1, <1>2, <1>3, <1>4, <2>1, <2>2, RunEnds DEF RunsInv, RunsTyped
<1>7. QED BY <1>5, <1>6

(* The models: what one adds to its session, and when it is gone.          *)
LEMMA ClosedIs ==
  ASSUME RunsInv, NEW w \in work, NEW st \in {"done", "error"}
  PROVE  LET s == msgs[w.sid]  c == Runs!Closed(w, st)
         IN  /\ s \in Seq(Messages) /\ Len(s) \in Nat /\ DOMAIN s = 1 .. Len(s)
             /\ c \in Seq(Messages) /\ Len(c) = Len(s) /\ DOMAIN c = DOMAIN s
             /\ \A k \in DOMAIN s : c[k].n = s[k].n
             /\ \A k \in DOMAIN s : c[k] = IF s[k].n = w.n /\ s[k].st = "open" THEN [n |-> w.n, st |-> st] ELSE s[k]
<1> DEFINE s == msgs[w.sid]
           c == Runs!Closed(w, st)
<1>1. s \in Seq(Messages) /\ w.n \in Runs!Runs
  BY RunFacts DEF RunsInv, RunsTyped
<1>2. Len(s) \in Nat /\ DOMAIN s = 1 .. Len(s) /\ \A k \in DOMAIN s : s[k] \in Messages
  BY <1>1, LenProperties
<1>3. c = [k \in 1 .. Len(s) |-> IF s[k].n = w.n /\ s[k].st = "open" THEN [n |-> w.n, st |-> st] ELSE s[k]]
  BY <1>2 DEF Runs!Closed, Runs!OpenOf, Runs!Own
<1>4. c \in [1 .. Len(s) -> Messages]
  BY <1>1, <1>2, <1>3 DEF Messages
<1>5. c \in Seq(Messages) /\ Len(c) = Len(s)
  BY <1>2, <1>4
<1>6. \A k \in DOMAIN s : c[k] = IF s[k].n = w.n /\ s[k].st = "open" THEN [n |-> w.n, st |-> st] ELSE s[k]
  BY <1>2, <1>3
<1>7. \A k \in DOMAIN s : c[k].n = s[k].n
  BY <1>6
<1>8. DOMAIN c = DOMAIN s
  BY <1>2, <1>3
<1>9. QED BY <1>1, <1>2, <1>5, <1>6, <1>7, <1>8

LEMMA AddsIs ==
  ASSUME NEW w, w.n \in Runs!Runs, NEW s \in Seq(Messages)
  PROVE  LET a0 == Runs!Adds(w, s)
         IN  /\ a0 \in Seq(Messages) /\ Len(a0) = Len(s) + 1 /\ DOMAIN a0 = 1 .. Len(s) + 1
             /\ \A k \in 1 .. Len(s) : a0[k] = s[k]
             /\ a0[Len(s) + 1] = [n |-> w.n, st |-> "open"]
<1>1. [n |-> w.n, st |-> "open"] \in Messages
  BY DEF Messages
<1>2. Runs!Adds(w, s) = Append(s, [n |-> w.n, st |-> "open"])
  BY DEF Runs!Adds
<1>3. QED BY <1>1, <1>2, AppendProperties, LenProperties

(* A session a model writes to, with messages of its own and older ones.   *)
LEMMA SessionKeeps ==
  ASSUME RunsInv, NEW w \in work, NEW s \in Seq(Messages), Runs!Session(w, s), work' \subseteq work,
         \A k \in DOMAIN s : s[k].n = w.n \/ (k \in DOMAIN msgs[w.sid] /\ s[k].n = msgs[w.sid][k].n),
         w = Runs!Me /\ w \in work' /\ run.at = "poll" /\ ~LostIn(lost, run.n) => AnswersOpen(s),
         UNCHANGED <<kind, run, lost, stop, rec, outcome>>
  PROVE  RunsInv'
<1>1. msgs' = [msgs EXCEPT ![w.sid] = s] /\ w.sid \in Runs!Runs /\ w.n \in Nat /\ w.n <= run.n
  BY RunFacts DEF Runs!Session, RunsInv, WorkOwned
<1>2. RunsTyped'
  BY <1>1 DEF RunsInv, RunsTyped
<1>3. WorkOwned'
  BY DEF RunsInv, WorkOwned, Listening, Runs!Me
<1>4. Written'
  BY DEF RunsInv, Written
<1>5. Heard'
  <2>1. \A x \in Runs!Runs : \A k \in DOMAIN msgs'[x] : msgs'[x][k].n <= run'.n
    BY <1>1 DEF RunsInv, RunsTyped, Heard
  <2>2. run.at \in Waiting => LostIn(lost, run.n)
    <3>1. ASSUME run.at \in Waiting PROVE LostIn(lost, w.n)
      BY <3>1, RunFacts DEF Listening, Waiting
    <3>2. QED BY <1>1, <3>1, RunFacts, LostGrows
  <2>3. ASSUME run.at = "poll", ~LostIn(lost, run.n), Runs!Me \in work' PROVE AnswersOpen(msgs[run.sid])'
    <3>1. w = Runs!Me
      <4>1. ASSUME w # Runs!Me PROVE FALSE
        <5>1. LostIn(lost, w.n)
          BY <4>1 DEF RunsInv, WorkOwned
        <5>2. QED BY <1>1, <2>3, <5>1, RunFacts, LostGrows
      <4>2. QED BY <4>1
    <3>2. AnswersOpen(s) /\ w.sid = run.sid
      BY <2>3, <3>1 DEF Runs!Me
    <3>3. msgs'[run'.sid] = s
      BY <1>1, <3>2 DEF RunsInv, RunsTyped
    <3>4. QED BY <3>2, <3>3 DEF AnswersOpen
  <2>4. QED BY <2>1, <2>2, <2>3 DEF Heard, Waiting, Runs!Me
<1>6. QED BY <1>2, <1>3, <1>4, <1>5 DEF RunsInv

LEMMA WorksKeeps == ASSUME RunsInv, NEW w \in work, Runs!Works(w) PROVE RunsInv'
<1> DEFINE s == msgs[w.sid]
<1>1. UNCHANGED <<kind, run, lost, stop, outcome>> /\ w.n \in Runs!Runs /\ w.sid \in Runs!Runs /\ w.n \in Nat /\ w.n <= run.n
  BY RunFacts DEF Runs!Works, Runs!Model, RunsInv, WorkOwned
<1>2. s \in Seq(Messages) /\ Len(s) \in Nat /\ DOMAIN s = 1 .. Len(s)
  BY <1>1, LenProperties DEF RunsInv, RunsTyped
<1>3. CASE Runs!Opens(w) /\ UNCHANGED rec
  <2> DEFINE t == Runs!Adds(w, s)
  <2>1. Runs!Own(w) = {} /\ Runs!Session(w, t) /\ UNCHANGED work
    BY <1>3 DEF Runs!Opens
  <2>2. t \in Seq(Messages) /\ Len(t) = Len(s) + 1 /\ DOMAIN t = 1 .. Len(s) + 1 /\ (\A k \in 1 .. Len(s) : t[k] = s[k])
        /\ t[Len(s) + 1] = [n |-> w.n, st |-> "open"]
    BY <1>1, <1>2, AddsIs
  <2>3. \A k \in DOMAIN t : t[k].n = w.n \/ (k \in DOMAIN s /\ t[k].n = s[k].n)
    BY <1>2, <2>2
  <2>4. ASSUME w = Runs!Me, run.at = "poll", ~LostIn(lost, run.n) PROVE AnswersOpen(t)
    <3>1. AnswersOpen(s) /\ w.n = run.n /\ run.before \in Nat
      BY <2>4 DEF RunsInv, RunsTyped, RunRecords, Heard, Runs!Me
    <3>2. \A k \in DOMAIN s : s[k].n # w.n
      BY <2>1 DEF Runs!Own
    <3>3. Len(s) = run.before
      <4>1. run.before <= Len(s)
        BY <3>1 DEF AnswersOpen
      <4>2. ASSUME run.before < Len(s) PROVE FALSE
        <5>1. Len(s) \in DOMAIN s /\ ~(Len(s) <= run.before)
          BY <1>2, <3>1, <4>2
        <5>2. s[Len(s)] = [n |-> run.n, st |-> "open"]
          BY <3>1, <5>1 DEF AnswersOpen
        <5>3. QED BY <3>1, <3>2, <5>1, <5>2
      <4>3. QED BY <1>2, <3>1, <4>1, <4>2
    <3>4. ASSUME NEW k \in 1 .. Len(s) PROVE k <= run.before /\ t[k].n < run.n
      <4>1. k <= run.before
        BY <1>2, <3>3
      <4>2. s[k].n < run.n
        BY <1>2, <3>1, <4>1 DEF AnswersOpen
      <4>3. QED BY <2>2, <4>1, <4>2
    <3>5. ~(Len(s) + 1 <= run.before) /\ run.before <= Len(s) + 1
      BY <1>2, <3>3
    <3>6. QED BY <1>2, <2>2, <3>1, <3>4, <3>5 DEF AnswersOpen
  <2>5. QED BY <1>1, <1>3, <2>1, <2>2, <2>3, <2>4, SessionKeeps
<1>4. CASE Runs!Steps(w) /\ UNCHANGED rec
  <2> DEFINE c == Runs!Closed(w, "done")
             t == Runs!Adds(w, c)
  <2>1. Runs!OpenOf(w) # {} /\ Runs!Session(w, t) /\ UNCHANGED work
    BY <1>4 DEF Runs!Steps
  <2>2. /\ c \in Seq(Messages) /\ Len(c) = Len(s) /\ DOMAIN c = 1 .. Len(s) /\ (\A k \in 1 .. Len(s) : c[k].n = s[k].n)
        /\ \A k \in 1 .. Len(s) : c[k] = IF s[k].n = w.n /\ s[k].st = "open" THEN [n |-> w.n, st |-> "done"] ELSE s[k]
    BY <1>2, ClosedIs
  <2>3. t \in Seq(Messages) /\ Len(t) = Len(s) + 1 /\ DOMAIN t = 1 .. Len(s) + 1 /\ (\A k \in 1 .. Len(s) : t[k] = c[k])
        /\ t[Len(s) + 1] = [n |-> w.n, st |-> "open"]
    BY <1>1, <2>2, AddsIs
  <2>4. \A k \in DOMAIN t : t[k].n = w.n \/ (k \in DOMAIN s /\ t[k].n = s[k].n)
    BY <1>2, <2>2, <2>3
  <2>5. ASSUME w = Runs!Me, run.at = "poll", ~LostIn(lost, run.n) PROVE AnswersOpen(t)
    <3>1. AnswersOpen(s) /\ w.n = run.n /\ run.before \in Nat /\ run.n \in Nat
      BY <2>5, RunFacts DEF RunsInv, RunsTyped, RunRecords, Heard, Runs!Me
    <3>2. ASSUME NEW k \in 1 .. Len(s), k <= run.before PROVE t[k].n < run.n
      BY <1>2, <2>2, <2>3, <3>1, <3>2 DEF AnswersOpen
    <3>3. ASSUME NEW k \in 1 .. Len(s), ~(k <= run.before) PROVE t[k] = [n |-> run.n, st |-> "done"]
      <4>1. s[k] = [n |-> run.n, st |-> "open"] \/ s[k] = [n |-> run.n, st |-> "done"]
        BY <1>2, <3>1, <3>3 DEF AnswersOpen
      <4>2. QED BY <2>2, <2>3, <3>1, <3>3, <4>1
    <3>4. run.before <= Len(s) + 1 /\ ~(Len(s) + 1 <= run.before)
      BY <1>2, <3>1 DEF AnswersOpen
    <3>5. QED BY <1>2, <2>3, <3>1, <3>2, <3>3, <3>4 DEF AnswersOpen
  <2>6. QED BY <1>1, <1>4, <2>1, <2>3, <2>4, <2>5, SessionKeeps
<1>5. ASSUME NEW st \in {"done", "error"}, Runs!Session(w, Runs!Closed(w, st)), UNCHANGED rec,
             work' = work \ {w} \/ (kind = "cli" /\ work' = work)
      PROVE  RunsInv'
  <2>1. Runs!Closed(w, st) \in Seq(Messages)
        /\ \A k \in DOMAIN Runs!Closed(w, st) : k \in DOMAIN s /\ Runs!Closed(w, st)[k].n = s[k].n
    BY ClosedIs
  <2>2. ~(w \in work' /\ run.at = "poll")
    BY <1>5 DEF RunsInv, RunsTyped, Waiting
  <2>3. work' \subseteq work
    BY <1>5
  <2>4. QED BY <1>1, <1>5, <2>1, <2>2, <2>3, SessionKeeps
<1>6. CASE (Runs!Finishes(w) \/ Runs!Fails(w)) /\ UNCHANGED rec
  BY <1>5, <1>6 DEF Runs!Finishes, Runs!Fails
<1>7. CASE Runs!Exits(w) /\ UNCHANGED rec
  <2>1. work' \subseteq work /\ UNCHANGED msgs
    BY <1>7 DEF Runs!Exits
  <2>2. RunsTyped' /\ WorkOwned' /\ Written'
    BY <1>1, <1>7, <2>1 DEF RunsInv, RunsTyped, WorkOwned, Written, Listening, Runs!Me
  <2>3. Heard'
    BY <1>1, <2>1 DEF RunsInv, Heard, AnswersOpen, Runs!Me
  <2>4. QED BY <2>2, <2>3 DEF RunsInv
<1>8. CASE Runs!Writes(w) /\ UNCHANGED <<msgs, work>>
  <2>1. PICK ok \in BOOLEAN : rec' = [n |-> w.n, ok |-> ok]
    BY <1>8 DEF Runs!Writes
  <2>2. rec' \in Records /\ rec'.n = w.n
    BY <1>1, <2>1 DEF Records
  <2>3. RunsTyped'
    BY <1>1, <1>8, <2>2 DEF RunsInv, RunsTyped
  <2>4. WorkOwned' /\ Heard'
    BY <1>1, <1>8 DEF RunsInv, WorkOwned, Heard, Listening, Runs!Me, AnswersOpen
  <2>5. LostIn(lost, run.n) \/ (w.n = run.n /\ Listening)
    <3>1. CASE LostIn(lost, w.n)
      BY <1>1, <3>1, RunFacts, LostGrows
    <3>2. CASE w = Runs!Me /\ Listening
      BY <3>2 DEF Runs!Me
    <3>3. QED BY <3>1, <3>2 DEF RunsInv, WorkOwned
  <2>6. Written'
    BY <1>1, <2>2, <2>5, RunConstants DEF RunsInv, Written, Listening
  <2>7. QED BY <2>3, <2>4, <2>6 DEF RunsInv
<1>9. QED BY <1>3, <1>4, <1>6, <1>7, <1>8 DEF Runs!Works

LEMMA RunsStep == ASSUME RunsInv, [Runs!Next]_(Runs!vars) PROVE RunsInv'
<1>1. ASSUME UNCHANGED <<kind, run, msgs, work, lost, rec, outcome>>, stop' \in BOOLEAN PROVE RunsInv'
  BY <1>1 DEF RunsInv, RunsTyped, WorkOwned, Heard, Written, Listening, AnswersOpen, Runs!Me
<1>2. CASE Runs!Stops \/ Runs!Deadline \/ Runs!Escapes \/ Runs!EscapedEnds \/ UNCHANGED Runs!vars
  <2>1. stop \in BOOLEAN
    BY DEF RunsInv, RunsTyped
  <2>2. QED BY <1>1, <1>2, <2>1 DEF Runs!Stops, Runs!Deadline, Runs!Escapes, Runs!EscapedEnds, Runs!Model, Runs!vars
<1>3. CASE Runs!Turn \/ Runs!Resumes
  BY <1>3, TurnKeeps
<1>4. CASE Runs!RunnerStep
  <2>1. CASE Runs!WatchdogStops \/ Runs!WatchdogEnds \/ Runs!WatchdogError
    BY <2>1, KillKeeps DEF Runs!WatchdogStops, Runs!WatchdogEnds, Runs!WatchdogError
  <2>2. QED BY <1>4, <2>1, CreateKeeps, CountKeeps, PromptKeeps, PollKeeps, SpawnKeeps, StreamEndsKeeps, ReadKeeps DEF Runs!RunnerStep
<1>5. ASSUME NEW w \in work, Runs!Works(w) PROVE RunsInv'
  BY <1>5, WorksKeeps
<1>6. QED BY <1>2, <1>3, <1>4, <1>5 DEF Runs!Next

LEMMA RunsInit == ASSUME Runs!Init PROVE RunsInv
<1>1. run \in RunRecords /\ run.n = 0 /\ run.at = "idle"
  BY RunConstants DEF Runs!Init, RunRecords, Runs!Watches
<1>2. <<>> \in Seq(Messages) /\ DOMAIN <<>> = {}
  OBVIOUS
<1>3. RunsTyped
  BY <1>1, <1>2 DEF Runs!Init, RunsTyped, Waiting
<1>4. WorkOwned /\ Written
  BY <1>1, RunConstants DEF Runs!Init, WorkOwned, Written
<1>5. Heard
  BY <1>1, <1>2 DEF Runs!Init, Heard, Waiting
<1>6. QED BY <1>3, <1>4, <1>5 DEF RunsInv

LEMMA RunsOwned == ASSUME RunsInv PROVE Runs!NoneLeftBehind /\ Runs!DoneIsOwn
<1>1. \A n : Runs!LostBy(n) <=> LostIn(lost, n)
  BY DEF Runs!LostBy, LostIn
<1>2. ASSUME NEW w \in work, Runs!Over(w.n) PROVE LostIn(lost, w.n)
  <2>1. w = Runs!Me /\ Listening => w.n = run.n /\ run.at # "idle"
    BY DEF Runs!Me, Listening
  <2>2. QED BY <1>2, <2>1, RunFacts DEF RunsInv, WorkOwned, Runs!Over
<1>3. QED BY <1>1, <1>2 DEF RunsInv, Written, Runs!NoneLeftBehind, Runs!DoneIsOwn

(* An attempt is RUNNING only while a thread runs the model; no model goes *)
(* on when its run has ended, but where an answer was lost or a client was *)
(* killed; and what counts as done is said of a record of that run.        *)
THEOREM TurnsOwnTheirModels == Turns!Spec /\ Runs!Spec => []TurnsAreOwned
<1>1. TurnsInv /\ [Turns!Next]_(Turns!vars) => TurnsInv'
  BY TurnsStep DEF TurnsGo
<1>2. TurnsInv /\ RunsInv => TurnsAreOwned
  BY RunsOwned DEF TurnsInv, TurnsAreOwned
<1>3. QED BY <1>1, <1>2, TurnsInit, RunsInit, RunsStep, PTL DEF Turns!Spec, Runs!Spec

=============================================================================
