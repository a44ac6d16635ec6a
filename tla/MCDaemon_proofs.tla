-------------------------- MODULE MCDaemon_proofs --------------------------
(***************************************************************************)
(* Proofs about the Codex slots of the daemon's tick (CodexSlots), for any *)
(* queue, slots, routes and accounts the assumption allows.                *)
(***************************************************************************)
EXTENDS MCDaemon, SequenceTheorems, WellFoundedInduction, TLAPS

Accounts   == Codex!Profiles \cup {None}
Given      == Codex!Items \cup {None}
CodexRows  == [st : {"queued", "dispatched", "reported", "parked", "broken", "merged"},
               to : 0 .. NSlots, only : 0 .. NSlots, cont : 0 .. MaxAuto, muse : Accounts]
RunRecords == [item : Given, log : Nat]
Workers    == [item : Given, profile : Accounts, at : {"runs", "read", "STUCK"} \cup Codex!Lasts]
Queues     == [Codex!Items -> CodexRows]
RunsOfSlot == [Codex!Slots -> RunRecords]
Holds      == [Codex!Profiles -> {None} \cup Codex!Refusals]
Affinities == [Codex!Items -> Accounts]
Copies     == [row : Queues, runs : RunsOfSlot, held : Holds, aff : Affinities, gap : BOOLEAN]
Saved      == [queue : Queues, state : [runs : RunsOfSlot, held : Holds, aff : Affinities, gap : BOOLEAN]]

SlotsTyped ==
  /\ cw \in Copies /\ cdisk \in Saved /\ conv \in [Codex!Items -> Accounts] /\ work \in Seq(Workers)
  /\ cproc \in [up : BOOLEAN, at : 0 .. NSlots + 2, fed : Nat]
  /\ chold \subseteq Codex!Slots /\ cspent \in [trouble : Nat, deaths : Nat]

(* A run record names a worker that was started.                           *)
NamesWorker(r) == r = Codex!NoRun \/ (r.log \in DOMAIN work /\ r.item \in Codex!Items)
RunsNamed == \A s \in Codex!Slots : NamesWorker(cw.runs[s]) /\ NamesWorker(cdisk.state.runs[s])

(* While the daemon lives, a worker that runs is on record with its item.  *)
OnRecord ==
  cspent.deaths = 0 =>
    \A n \in DOMAIN work : work[n].at = "runs" =>
      work[n].item \in Codex!Items /\ \E s \in Codex!Slots : cw.runs[s] = [item |-> work[n].item, log |-> n]

SlotsInv == SlotsTyped /\ RunsNamed /\ OnRecord /\ Codex!OneWriterPerTree

-----------------------------------------------------------------------------
(* The operators of a tick keep the types of the copy it works on.         *)
LEMMA SlotConstants ==
  /\ NSlots \in Nat /\ MaxAuto \in Nat /\ MaxFeed \in Nat
  /\ Queue \in Seq(Codex!Items) /\ Tree \in [Codex!Items -> Codex!Items]
  /\ Named \in [Codex!Items -> Accounts] /\ Route \in [Codex!Slots -> Codex!Profiles \cup {Codex!Rotate}]
  /\ Codex!Slots = 1 .. NSlots
BY CodexAssumption DEF Codex!SlotsAssumption, Accounts, None, Codex!None, Codex!Slots

LEMMA AccountNames ==
  /\ Codex!Wait \notin Codex!Profiles /\ None \notin Codex!Profiles /\ Codex!None = None
  /\ Codex!Legacy \in Codex!Profiles
BY CodexAssumption DEF Codex!SlotsAssumption, Codex!Profiles, Codex!Wait, Codex!None, Codex!Legacy, None

LEMMA SlotFacts ==
  ASSUME NEW s \in Codex!Slots
  PROVE  s \in 0 .. NSlots /\ s + 1 \in 0 .. NSlots + 2 /\ s \in 0 .. NSlots + 2
BY SlotConstants

LEMMA FirstIsReady ==
  ASSUME NEW S, S \subseteq DOMAIN Queue, S # {}
  PROVE  \E n \in S : Codex!FirstOf(S) = Queue[n]
<1>1. S \subseteq Nat
  BY SlotConstants
<1>2. PICK n \in S : \A m \in S : ~(<<m, n>> \in OpToRel(<, Nat))
  BY <1>1, NatLessThanWellFounded, WFMin
<1>3. \A m \in S : n <= m
  <2> SUFFICES ASSUME NEW m \in S PROVE n <= m
    OBVIOUS
  <2>1. m \in Nat /\ n \in Nat /\ ~(m < n)
    BY <1>1, <1>2 DEF OpToRel
  <2>2. QED BY <2>1
<1>4. (CHOOSE k \in S : \A m \in S : k <= m) \in S
  BY <1>3
<1>5. QED BY <1>4 DEF Codex!FirstOf

LEMMA FedItem ==
  ASSUME NEW v, NEW s, Codex!Ready(v, s) # {}
  PROVE  LET i == Codex!FirstOf(Codex!Ready(v, s)) IN i \in Codex!Items /\ Tree[i] \notin Codex!Busy(v)
<1>1. Codex!Ready(v, s) \subseteq DOMAIN Queue
  BY DEF Codex!Ready
<1>2. PICK n \in Codex!Ready(v, s) : Codex!FirstOf(Codex!Ready(v, s)) = Queue[n]
  BY <1>1, FirstIsReady
<1>3. QED BY <1>2 DEF Codex!Ready, Codex!Items

LEMMA BookedType ==
  ASSUME NEW r \in CodexRows, NEW s \in Codex!Slots, NEW kind
  PROVE  Codex!Booked(r, s, kind) \in CodexRows
<1>1. CASE kind = "TURN_ENDED" /\ Codex!Continued(r)
  <2>1. r.cont + 1 \in 0 .. MaxAuto /\ s \in 0 .. NSlots /\ 0 \in 0 .. NSlots
    BY <1>1, SlotConstants, SlotFacts DEF Codex!Continued, CodexRows
  <2>2. Codex!Booked(r, s, kind) = [r EXCEPT !.st = "queued", !.only = s, !.cont = r.cont + 1, !.to = 0]
    BY <1>1 DEF Codex!Booked, CodexRows
  <2>3. QED BY <2>1, <2>2 DEF CodexRows
<1>2. CASE ~(kind = "TURN_ENDED" /\ Codex!Continued(r))
  <2>1. \/ Codex!Booked(r, s, kind) = [r EXCEPT !.st = "parked"]
        \/ Codex!Booked(r, s, kind) = [r EXCEPT !.st = "reported"]
        \/ Codex!Booked(r, s, kind) = [r EXCEPT !.st = "broken"]
    BY <1>2 DEF Codex!Booked
  <2>2. QED BY <2>1 DEF CodexRows
<1>3. QED BY <1>1, <1>2

LEMMA NoRunType == Codex!NoRun \in RunRecords /\ None \in Accounts /\ None \in Given
BY DEF Codex!NoRun, RunRecords, Given, Accounts, Codex!None, None

(* What a collected slot leaves: its record is gone, the other slots keep  *)
(* theirs.                                                                 *)
LEMMA CollectedType ==
  ASSUME SlotsTyped, NEW s \in Codex!Slots, NEW end
  PROVE  LET v == Codex!Collected(cw, s, end) IN
           v \in Copies /\ v.runs = [cw.runs EXCEPT ![s] = Codex!NoRun]
<1> DEFINE v    == Codex!Collected(cw, s, end)
           p    == work[cw.runs[s].log].profile
           rows == [i \in Codex!Items |-> IF i \in Codex!OnSlot(cw, s) THEN Codex!Booked(cw.row[i], s, end) ELSE cw.row[i]]
           hs   == [cw.held EXCEPT ![p] = IF end \in Codex!Refusals THEN end ELSE cw.held[p]]
<1>1. cw \in Copies
  BY DEF SlotsTyped
<1>2. rows \in Queues
  BY <1>1, BookedType DEF Copies, Queues
<1>3. hs \in Holds
  <2>1. cw.held \in Holds
    BY <1>1 DEF Copies
  <2>2. CASE p \in Codex!Profiles
    BY <2>1, <2>2 DEF Holds
  <2>3. CASE p \notin Codex!Profiles
    <3>1. hs = cw.held
      BY <2>1, <2>3 DEF Holds
    <3>2. QED BY <2>1, <3>1
  <2>4. QED BY <2>2, <2>3
<1>4. [cw.runs EXCEPT ![s] = Codex!NoRun] \in RunsOfSlot
  BY <1>1, NoRunType DEF Copies, RunsOfSlot
<1>5. v = [cw EXCEPT !.row = rows, !.held = hs, !.runs = [cw.runs EXCEPT ![s] = Codex!NoRun]]
  BY <1>1 DEF Codex!Collected, Copies
<1>6. QED BY <1>1, <1>2, <1>3, <1>4, <1>5 DEF Copies

LEMMA RowChanges ==
  ASSUME NEW v \in Copies, NEW i \in Codex!Items
  PROVE  /\ \A e \in {"queued", "dispatched", "reported", "parked", "broken", "merged"} :
              LET u == [v EXCEPT !.row[i].st = e] IN
                u \in Copies /\ u.row[i].muse = v.row[i].muse /\ u.runs = v.runs /\ u.aff = v.aff /\ u.held = v.held
         /\ \A e \in 0 .. NSlots :
              LET u == [v EXCEPT !.row[i].to = e] IN
                u \in Copies /\ u.row[i].muse = v.row[i].muse /\ u.runs = v.runs /\ u.aff = v.aff /\ u.held = v.held
         /\ \A e \in Accounts :
              LET u == [v EXCEPT !.row[i].muse = e] IN
                u \in Copies /\ u.runs = v.runs /\ u.aff = v.aff /\ u.held = v.held
<1>1. v.row \in Queues /\ v.row[i] \in CodexRows
  BY DEF Copies, Queues
<1>2. ASSUME NEW r \in CodexRows
      PROVE  LET u == [v EXCEPT !.row = [v.row EXCEPT ![i] = r]] IN
               u \in Copies /\ u.row[i] = r /\ u.runs = v.runs /\ u.aff = v.aff /\ u.held = v.held
  <2>1. [v.row EXCEPT ![i] = r] \in Queues /\ [v.row EXCEPT ![i] = r][i] = r
    BY <1>1 DEF Queues
  <2>2. QED BY <2>1 DEF Copies
<1>3. ASSUME NEW e \in {"queued", "dispatched", "reported", "parked", "broken", "merged"}
      PROVE  LET u == [v EXCEPT !.row[i].st = e] IN
               u \in Copies /\ u.row[i].muse = v.row[i].muse /\ u.runs = v.runs /\ u.aff = v.aff /\ u.held = v.held
  <2> DEFINE r == [v.row[i] EXCEPT !.st = e]
  <2>1. r \in CodexRows /\ r.muse = v.row[i].muse
    BY <1>1 DEF CodexRows
  <2>2. [v EXCEPT !.row[i].st = e] = [v EXCEPT !.row = [v.row EXCEPT ![i] = r]]
    BY <1>1 DEF Copies
  <2> HIDE DEF r
  <2>3. QED BY <1>2, <2>1, <2>2
<1>4. ASSUME NEW e \in 0 .. NSlots
      PROVE  LET u == [v EXCEPT !.row[i].to = e] IN
               u \in Copies /\ u.row[i].muse = v.row[i].muse /\ u.runs = v.runs /\ u.aff = v.aff /\ u.held = v.held
  <2> DEFINE r == [v.row[i] EXCEPT !.to = e]
  <2>1. r \in CodexRows /\ r.muse = v.row[i].muse
    BY <1>1 DEF CodexRows
  <2>2. [v EXCEPT !.row[i].to = e] = [v EXCEPT !.row = [v.row EXCEPT ![i] = r]]
    BY <1>1 DEF Copies
  <2> HIDE DEF r
  <2>3. QED BY <1>2, <2>1, <2>2
<1>5. ASSUME NEW e \in Accounts
      PROVE  LET u == [v EXCEPT !.row[i].muse = e] IN
               u \in Copies /\ u.runs = v.runs /\ u.aff = v.aff /\ u.held = v.held
  <2> DEFINE r == [v.row[i] EXCEPT !.muse = e]
  <2>1. r \in CodexRows
    BY <1>1 DEF CodexRows
  <2>2. [v EXCEPT !.row[i].muse = e] = [v EXCEPT !.row = [v.row EXCEPT ![i] = r]]
    BY <1>1 DEF Copies
  <2> HIDE DEF r
  <2>3. QED BY <1>2, <2>1, <2>2
<1>6. QED BY <1>3, <1>4, <1>5

LEMMA StartedType ==
  ASSUME SlotsTyped, NEW v \in Copies, NEW s \in Codex!Slots, NEW i \in Codex!Items, NEW p \in Codex!Profiles
  PROVE  LET y == Codex!Started(v, s, i, p) IN
           /\ y \in Copies /\ y.held = v.held
           /\ y.runs = [v.runs EXCEPT ![s] = [item |-> i, log |-> Len(work) + 1]]
<1> DEFINE own == p # Codex!Legacy /\ Named[i] = Codex!None
           v1  == [v EXCEPT !.row[i].st = "dispatched"]
           v2  == [v1 EXCEPT !.row[i].to = s]
           m   == IF own THEN p ELSE v.row[i].muse
           v3  == [v2 EXCEPT !.row[i].muse = m]
           a   == IF own THEN p ELSE v.aff[i]
           v4  == [v3 EXCEPT !.aff[i] = a]
           v5  == [v4 EXCEPT !.gap = TRUE]
           rec == [item |-> i, log |-> Len(work) + 1]
           v6  == [v5 EXCEPT !.runs[s] = rec]
<1>1. v1 \in Copies /\ v1.row[i].muse = v.row[i].muse /\ v1.aff = v.aff /\ v1.runs = v.runs /\ v1.held = v.held
  BY RowChanges
<1>2. v2 \in Copies /\ v2.row[i].muse = v.row[i].muse /\ v2.aff = v.aff /\ v2.runs = v.runs /\ v2.held = v.held
  <2>1. s \in 0 .. NSlots
    BY SlotFacts
  <2> HIDE DEF v1
  <2>2. QED BY <1>1, <2>1, RowChanges
<1>3. v3 \in Copies /\ v3.aff = v.aff /\ v3.runs = v.runs /\ v3.held = v.held
  <2>1. m \in Accounts
    BY DEF Copies, Queues, CodexRows, Accounts
  <2> HIDE DEF m, v2
  <2>2. QED BY <1>2, <2>1, RowChanges
<1>4. v4 \in Copies /\ v4.runs = v.runs /\ v4.held = v.held
  <2>1. a \in Accounts
    BY DEF Copies, Affinities, Accounts
  <2>2. [v3.aff EXCEPT ![i] = a] \in Affinities
    BY <1>3, <2>1 DEF Copies, Affinities
  <2> HIDE DEF a, v3
  <2>3. v4 = [v3 EXCEPT !.aff = [v3.aff EXCEPT ![i] = a]]
    BY <1>3 DEF Copies
  <2>4. QED BY <1>3, <2>2, <2>3 DEF Copies
<1>5. v5 \in Copies /\ v5.runs = v.runs /\ v5.held = v.held
  <2> HIDE DEF v4
  <2>1. QED BY <1>4 DEF Copies
<1>6. v6 \in Copies /\ v6.runs = [v.runs EXCEPT ![s] = rec] /\ v6.held = v.held
  <2>1. Len(work) + 1 \in Nat
    BY DEF SlotsTyped
  <2>2. rec \in RunRecords
    BY <2>1 DEF RunRecords, Given
  <2>3. [v5.runs EXCEPT ![s] = rec] \in RunsOfSlot
    BY <1>5, <2>2 DEF Copies, RunsOfSlot
  <2> HIDE DEF rec, v5
  <2>4. v6 = [v5 EXCEPT !.runs = [v5.runs EXCEPT ![s] = rec]]
    BY <1>5 DEF Copies
  <2>5. QED BY <1>5, <2>3, <2>4 DEF Copies
<1>7. Codex!Started(v, s, i, p) = v6
  <2>1. v2.row[i].muse = v.row[i].muse /\ v3.aff[i] = v.aff[i]
    BY <1>2, <1>3
  <2>2. QED BY <2>1 DEF Codex!Started
<1>8. QED BY <1>6, <1>7

LEMMA BreaksType ==
  ASSUME NEW v \in Copies, NEW i \in Codex!Items
  PROVE  Codex!Breaks(v, i) \in Copies /\ Codex!Breaks(v, i).runs = v.runs /\ Codex!Breaks(v, i).held = v.held
BY RowChanges DEF Codex!Breaks

LEMMA KnownType ==
  ASSUME SlotsTyped, NEW v \in Copies, NEW i \in Codex!Items
  PROVE  LET u == [v EXCEPT !.row[i].muse = Codex!Known(v, i)] IN
           u \in Copies /\ u.runs = v.runs /\ u.held = v.held
<1>1. Codex!Known(v, i) \in Accounts
  BY DEF SlotsTyped, Codex!Known, Codex!Existing, Copies, Queues, CodexRows
<1>2. QED BY <1>1, RowChanges

LEMMA AuthType ==
  ASSUME NEW u \in Copies, NEW p \in Codex!Profiles
  PROVE  [u EXCEPT !.held[p] = "AUTH"] \in Copies /\ [u EXCEPT !.held[p] = "AUTH"].runs = u.runs
<1> DEFINE hs == [u.held EXCEPT ![p] = "AUTH"]
<1>1. hs \in Holds
  BY DEF Copies, Holds, Codex!Refusals
<1>2. [u EXCEPT !.held[p] = "AUTH"] = [u EXCEPT !.held = hs]
  BY DEF Copies
<1>3. QED BY <1>1, <1>2 DEF Copies

(* What a feed of a slot comes to, whichever way it ends: it starts one    *)
(* worker, in a worktree that was not busy, or none.                       *)
Launched(v, s, i, p) ==
  /\ Tree[i] \notin Codex!Busy(v)
  /\ work' = Append(work, [item |-> i, profile |-> p, at |-> "runs"])
  /\ cw'.runs = [v.runs EXCEPT ![s] = [item |-> i, log |-> Len(work) + 1]]

StartsOne(v, s) == \E i \in Codex!Items, p \in Codex!Profiles : Launched(v, s, i, p)
StartsNone(v)   == work' = work /\ cw'.runs = v.runs

(* A conversation moves only if its account may be left.                   *)
StaysPut(v) ==
  \A i \in Codex!Items : Named[i] = None /\ conv[i] # None /\ conv'[i] # conv[i] =>
    Codex!MayMove(v, conv[i]) /\ cw'.held = v.held

LEMMA SelectedMoves ==
  ASSUME SlotsTyped, NEW v \in Copies, NEW s \in Codex!Slots, NEW i \in Codex!Items,
         NEW p \in Codex!Selected(v, s, i), p \in Codex!Profiles, p # conv[i], conv[i] # None, Named[i] = None
  PROVE  Codex!MayMove(v, conv[i])
<1>1. Codex!Known(v, i) = conv[i]
  BY AccountNames DEF Codex!Known, Codex!Existing
<1>2. Codex!Held(v, conv[i])
  BY <1>1, AccountNames DEF Codex!Selected
<1>3. p # Codex!Wait
  BY AccountNames
<1>4. QED BY <1>1, <1>2, <1>3, AccountNames DEF Codex!Selected

TickTyped  == cproc \in [up : BOOLEAN, at : 0 .. NSlots + 2, fed : Nat]
SpentTyped == cspent \in [trouble : Nat, deaths : Nat]

LEMMA NextSlot ==
  ASSUME TickTyped, NEW s \in Codex!Slots
  PROVE  /\ [cproc EXCEPT !.at = s + 1] \in [up : BOOLEAN, at : 0 .. NSlots + 2, fed : Nat]
         /\ [cproc EXCEPT !.at = s + 1, !.fed = cproc.fed + 1] \in [up : BOOLEAN, at : 0 .. NSlots + 2, fed : Nat]
<1>1. s + 1 \in 0 .. NSlots + 2 /\ cproc.fed + 1 \in Nat
  BY SlotFacts DEF TickTyped
<1>2. QED BY <1>1 DEF TickTyped

LEMMA TroubledType ==
  ASSUME SpentTyped, Codex!Troubled PROVE SpentTyped' /\ cspent'.deaths = cspent.deaths
BY DEF SpentTyped, Codex!Troubled

LEMMA PreparedType ==
  ASSUME SlotsTyped, NEW i \in Codex!Items, NEW p \in Codex!Profiles
  PROVE  /\ Codex!Prepared(i, p) \in [Codex!Items -> Accounts]
         /\ \A j \in Codex!Items : Codex!Prepared(i, p)[j] # conv[j] => j = i /\ p # conv[i]
BY DEF SlotsTyped, Codex!Prepared, Accounts

Kept(v, s) ==
  /\ cw' \in Copies /\ conv' \in [Codex!Items -> Accounts] /\ TickTyped' /\ SpentTyped'
  /\ cspent'.deaths = cspent.deaths /\ StaysPut(v) /\ (StartsNone(v) \/ StartsOne(v, s))

LEMMA FedKeeps ==
  ASSUME SlotsTyped, NEW v \in Copies, NEW s \in Codex!Slots, Codex!Fed(v, s)
  PROVE  Kept(v, s)
<1> DEFINE i == Codex!FirstOf(Codex!Ready(v, s))
           u == [v EXCEPT !.row[i].muse = Codex!Known(v, i)]
           next == cproc' = [cproc EXCEPT !.at = s + 1]
<1>1. TickTyped /\ SpentTyped /\ conv \in [Codex!Items -> Accounts]
  BY DEF SlotsTyped, TickTyped, SpentTyped
<1>2. next => TickTyped'
  BY <1>1, NextSlot DEF TickTyped
<1>3. conv' = conv => conv' \in [Codex!Items -> Accounts] /\ StaysPut(v)
  BY <1>1 DEF StaysPut
<1>4. cspent' = cspent => SpentTyped' /\ cspent'.deaths = cspent.deaths
  BY <1>1 DEF SpentTyped
<1>5. Codex!Troubled => SpentTyped' /\ cspent'.deaths = cspent.deaths
  BY <1>1, TroubledType
<1>6. CASE ~Codex!Feeds(v, s)
  BY <1>2, <1>3, <1>4, <1>6 DEF Codex!Fed, Kept, StartsNone
<1>7. CASE Codex!Feeds(v, s)
  <2>1. i \in Codex!Items /\ Tree[i] \notin Codex!Busy(v)
    BY <1>7, FedItem DEF Codex!Feeds
  <2>2. u \in Copies /\ u.runs = v.runs /\ u.held = v.held
    BY <2>1, KnownType
  <2> HIDE DEF i, u, next
  <2>3. Codex!Breaks(v, i) \in Copies /\ Codex!Breaks(v, i).runs = v.runs
    BY <2>1, BreaksType
  <2>4. Codex!Breaks(u, i) \in Copies /\ Codex!Breaks(u, i).runs = v.runs /\ Codex!Breaks(u, i).held = v.held
    BY <2>1, <2>2, BreaksType
  <2>5. \/ v.gap /\ cw' = v /\ UNCHANGED <<conv, work, cspent>> /\ next
        \/ Codex!Troubled /\ cw' = Codex!Breaks(v, i) /\ UNCHANGED <<conv, work>> /\ next
        \/ \E p \in Codex!Selected(v, s, i) :
             \/ /\ p \in {Codex!Wait, Codex!None} /\ cw' = IF p = Codex!Wait THEN u ELSE Codex!Breaks(u, i)
                /\ next /\ UNCHANGED <<conv, work, cspent>>
             \/ /\ p \in Codex!Profiles /\ Codex!Troubled
                /\ cw' = Codex!Breaks(IF p = Codex!Legacy THEN u ELSE [u EXCEPT !.held[p] = "AUTH"], i)
                /\ next /\ UNCHANGED <<conv, work>>
             \/ /\ p \in Codex!Profiles
                /\ conv' = Codex!Prepared(i, p)
                /\ \/ /\ cw' = Codex!Started(u, s, i, p)
                      /\ work' = Append(work, [item |-> i, profile |-> p, at |-> "runs"])
                      /\ cproc' = [cproc EXCEPT !.at = s + 1, !.fed = @ + 1] /\ UNCHANGED cspent
                   \/ Codex!Troubled /\ cw' = Codex!Breaks(u, i) /\ next /\ UNCHANGED work
    BY <1>7 DEF Codex!Fed, Codex!Spawns, i, u, next
  <2>6. CASE v.gap /\ cw' = v /\ UNCHANGED <<conv, work, cspent>> /\ next
    BY <1>2, <1>3, <1>4, <2>6 DEF Kept, StartsNone
  <2>7. CASE Codex!Troubled /\ cw' = Codex!Breaks(v, i) /\ UNCHANGED <<conv, work>> /\ next
    BY <1>2, <1>3, <1>5, <2>3, <2>7 DEF Kept, StartsNone
  <2>8. ASSUME NEW p, p \in {Codex!Wait, Codex!None}, cw' = IF p = Codex!Wait THEN u ELSE Codex!Breaks(u, i),
               next, UNCHANGED <<conv, work, cspent>>
        PROVE  Kept(v, s)
    <3>1. cw' \in Copies /\ cw'.runs = v.runs
      BY <2>2, <2>4, <2>8
    <3>2. QED BY <1>2, <1>3, <1>4, <2>8, <3>1 DEF Kept, StartsNone
  <2>9. ASSUME NEW p \in Codex!Profiles, Codex!Troubled, next, UNCHANGED <<conv, work>>,
               cw' = Codex!Breaks(IF p = Codex!Legacy THEN u ELSE [u EXCEPT !.held[p] = "AUTH"], i)
        PROVE  Kept(v, s)
    <3>1. [u EXCEPT !.held[p] = "AUTH"] \in Copies /\ [u EXCEPT !.held[p] = "AUTH"].runs = v.runs
      BY <2>2, AuthType
    <3>2. cw' = Codex!Breaks(u, i) \/ cw' = Codex!Breaks([u EXCEPT !.held[p] = "AUTH"], i)
      BY <2>9
    <3>3. cw' \in Copies /\ cw'.runs = v.runs
      BY <2>1, <2>4, <3>1, <3>2, BreaksType
    <3>4. QED BY <1>2, <1>3, <1>5, <2>9, <3>3 DEF Kept, StartsNone
  <2>10. ASSUME NEW p \in Codex!Selected(v, s, i), p \in Codex!Profiles, conv' = Codex!Prepared(i, p)
         PROVE  conv' \in [Codex!Items -> Accounts] /\ (cw'.held = v.held => StaysPut(v))
    <3>1. conv' \in [Codex!Items -> Accounts] /\ \A j \in Codex!Items : conv'[j] # conv[j] => j = i /\ p # conv[i]
      BY <2>1, <2>10, PreparedType
    <3>2. conv[i] # None /\ Named[i] = None /\ p # conv[i] => Codex!MayMove(v, conv[i])
      BY <2>1, <2>10, SelectedMoves
    <3>3. QED BY <3>1, <3>2 DEF StaysPut
  <2>11. ASSUME NEW p \in Codex!Selected(v, s, i), p \in Codex!Profiles, conv' = Codex!Prepared(i, p),
                Codex!Troubled, cw' = Codex!Breaks(u, i), next, UNCHANGED work
         PROVE  Kept(v, s)
    BY <1>2, <1>5, <2>4, <2>10, <2>11 DEF Kept, StartsNone
  <2>12. ASSUME NEW p \in Codex!Selected(v, s, i), p \in Codex!Profiles, conv' = Codex!Prepared(i, p),
                cw' = Codex!Started(u, s, i, p), work' = Append(work, [item |-> i, profile |-> p, at |-> "runs"]),
                cproc' = [cproc EXCEPT !.at = s + 1, !.fed = cproc.fed + 1], UNCHANGED cspent
         PROVE  Kept(v, s)
    <3>1. cw' \in Copies /\ cw'.held = v.held /\ cw'.runs = [v.runs EXCEPT ![s] = [item |-> i, log |-> Len(work) + 1]]
      BY <2>1, <2>2, <2>12, StartedType
    <3>2. TickTyped'
      BY <1>1, <2>12, NextSlot DEF TickTyped
    <3>3. StartsOne(v, s)
      BY <2>1, <2>12, <3>1 DEF StartsOne, Launched
    <3>4. QED BY <1>4, <2>10, <2>12, <3>1, <3>2, <3>3 DEF Kept
  <2>13. QED BY <2>5, <2>6, <2>7, <2>8, <2>9, <2>11, <2>12
<1>8. QED BY <1>6, <1>7

-----------------------------------------------------------------------------
(* One writer per worktree: a worker that runs is on record with a slot,   *)
(* so that its worktree is busy when another slot looks for an item; a     *)
(* slot drops its record only when its worker has ended or was stopped.    *)
Writing == RunsNamed /\ OnRecord /\ Codex!OneWriterPerTree

LEMMA WorkFacts ==
  ASSUME SlotsTyped
  PROVE  /\ DOMAIN work = 1 .. Len(work) /\ Len(work) \in Nat
         /\ \A n \in DOMAIN work : work[n] \in Workers /\ n # 0
         /\ \A r \in RunRecords : r = Codex!NoRun => r.log = 0
BY DEF SlotsTyped, Codex!NoRun

LEMMA RunsType ==
  ASSUME SlotsTyped
  PROVE  cw.runs \in RunsOfSlot /\ cdisk.state.runs \in RunsOfSlot
BY DEF SlotsTyped, Copies, Saved

LEMMA RunsStay ==
  ASSUME SlotsInv, work' = work, cw'.runs = cw.runs, cdisk'.state.runs = cdisk.state.runs, cspent'.deaths = cspent.deaths
  PROVE  Writing'
<1>1. RunsNamed'
  BY DEF SlotsInv, RunsNamed, NamesWorker
<1>2. OnRecord'
  BY DEF SlotsInv, OnRecord
<1>3. Codex!OneWriterPerTree'
  BY DEF SlotsInv, Codex!OneWriterPerTree
<1>4. QED BY <1>1, <1>2, <1>3 DEF Writing

(* A slot whose worker does not run gives up its record: the running ones  *)
(* keep theirs.                                                            *)
LEMMA OthersOnRecord ==
  ASSUME SlotsInv, NEW s \in Codex!Slots, ~Codex!Alive(s), cspent.deaths = 0,
         NEW n \in DOMAIN work, work[n].at = "runs"
  PROVE  work[n].item \in Codex!Items /\ \E t \in Codex!Slots \ {s} : cw.runs[t] = [item |-> work[n].item, log |-> n]
<1>1. PICK t \in Codex!Slots : cw.runs[t] = [item |-> work[n].item, log |-> n] /\ work[n].item \in Codex!Items
  BY DEF SlotsInv, OnRecord
<1>2. t # s
  <2> SUFFICES ASSUME t = s PROVE FALSE
    OBVIOUS
  <2>1. cw.runs[s].log = n
    BY <1>1
  <2>2. cw.runs[s] # Codex!NoRun
    BY <2>1, WorkFacts DEF SlotsInv, Codex!NoRun
  <2>3. QED BY <2>1, <2>2 DEF Codex!Alive, Codex!Log
<1>3. QED BY <1>1, <1>2

LEMMA BusyTrees ==
  ASSUME NEW v \in Copies, NEW t \in Codex!Slots, v.runs[t] # Codex!NoRun
  PROVE  Tree[v.runs[t].item] \in Codex!Busy(v)
BY DEF Codex!Busy

(* A visit that starts no worker.                                          *)
LEMMA NoneKeeps ==
  ASSUME SlotsInv, NEW s \in Codex!Slots, ~Codex!Alive(s), work' = work, cw'.runs = [cw.runs EXCEPT ![s] = Codex!NoRun],
         cdisk'.state.runs = cdisk.state.runs, cspent'.deaths = cspent.deaths
  PROVE  Writing'
<1>1. \A t \in Codex!Slots : cw'.runs[t] = IF t = s THEN Codex!NoRun ELSE cw.runs[t]
  BY RunsType DEF SlotsInv, RunsOfSlot
<1>2. RunsNamed'
  BY <1>1 DEF SlotsInv, RunsNamed, NamesWorker
<1>3. OnRecord'
  BY <1>1, OthersOnRecord DEF OnRecord
<1>4. Codex!OneWriterPerTree'
  BY DEF SlotsInv, Codex!OneWriterPerTree
<1>5. QED BY <1>2, <1>3, <1>4 DEF Writing

(* A visit that starts one.                                                *)
LEMMA OneKeeps ==
  ASSUME SlotsInv, NEW s \in Codex!Slots, ~Codex!Alive(s), NEW v \in Copies, v.runs = [cw.runs EXCEPT ![s] = Codex!NoRun],
         NEW i \in Codex!Items, NEW p \in Codex!Profiles, Launched(v, s, i, p),
         cdisk'.state.runs = cdisk.state.runs, cspent'.deaths = cspent.deaths
  PROVE  work' \in Seq(Workers) /\ Writing'
<1> DEFINE new == Len(work) + 1
<1>1. /\ work' \in Seq(Workers) /\ DOMAIN work' = DOMAIN work \cup {new}
      /\ new \notin DOMAIN work /\ work'[new] = [item |-> i, profile |-> p, at |-> "runs"]
      /\ \A n \in DOMAIN work : work'[n] = work[n]
  <2>1. [item |-> i, profile |-> p, at |-> "runs"] \in Workers
    BY DEF Workers, Given, Accounts
  <2>2. work \in Seq(Workers)
    BY DEF SlotsInv, SlotsTyped
  <2>3. QED BY <2>1, <2>2 DEF Launched
<1>2. \A t \in Codex!Slots : cw'.runs[t] = IF t = s THEN [item |-> i, log |-> new] ELSE cw.runs[t]
  BY RunsType DEF SlotsInv, RunsOfSlot, Launched
<1>3. \A t \in Codex!Slots \ {s} : v.runs[t] = cw.runs[t]
  BY RunsType DEF SlotsInv, RunsOfSlot
<1> HIDE DEF new
<1>4. RunsNamed'
  BY <1>1, <1>2 DEF SlotsInv, RunsNamed, NamesWorker
<1>5. OnRecord'
  <2> SUFFICES ASSUME cspent.deaths = 0, NEW n \in DOMAIN work', work'[n].at = "runs"
               PROVE  /\ work'[n].item \in Codex!Items
                      /\ \E t \in Codex!Slots : cw'.runs[t] = [item |-> work'[n].item, log |-> n]
    BY DEF OnRecord
  <2>1. CASE n = new
    BY <1>1, <1>2, <2>1
  <2>2. CASE n # new
    BY <1>1, <1>2, <2>2, OthersOnRecord
  <2>3. QED BY <2>1, <2>2
<1>6. Codex!OneWriterPerTree'
  <2> SUFFICES ASSUME cspent.deaths = 0, NEW k \in DOMAIN work', NEW n \in DOMAIN work', work'[k].at = "runs",
                      work'[n].at = "runs", Tree[work'[k].item] = Tree[work'[n].item]
               PROVE  k = n
    BY DEF Codex!OneWriterPerTree
  <2>1. \A m \in DOMAIN work : work[m].at = "runs" => Tree[work[m].item] # Tree[i]
    <3> SUFFICES ASSUME NEW m \in DOMAIN work, work[m].at = "runs" PROVE Tree[work[m].item] # Tree[i]
      OBVIOUS
    <3>1. PICK t \in Codex!Slots \ {s} : cw.runs[t] = [item |-> work[m].item, log |-> m]
      BY OthersOnRecord
    <3>2. v.runs[t] # Codex!NoRun /\ v.runs[t].item = work[m].item
      BY <1>3, <3>1, WorkFacts DEF SlotsInv, Codex!NoRun
    <3>3. Tree[work[m].item] \in Codex!Busy(v)
      BY <3>2, BusyTrees
    <3>4. QED BY <3>3 DEF Launched
  <2>2. QED BY <1>1, <2>1 DEF SlotsInv, Codex!OneWriterPerTree
<1>7. QED BY <1>1, <1>4, <1>5, <1>6 DEF Writing

Stays ==
  \A i \in Codex!Items : Named[i] = Codex!None /\ conv[i] # Codex!None /\ conv'[i] # conv[i] =>
    Codex!MayMove(cw, conv[i]) \/ Codex!MayMove(cw', conv[i])

LEMMA VisitsStep ==
  ASSUME SlotsInv, NEW s \in Codex!Slots, Codex!Visits(s) PROVE SlotsInv' /\ Stays
<1>1. PICK v \in {IF cw.runs[s] = Codex!NoRun THEN cw ELSE Codex!Collected(cw, s, work[Codex!Log(s)].at)} : Codex!Fed(v, s)
  BY DEF Codex!Visits
<1>2. SlotsTyped /\ cw \in Copies /\ cw.runs \in RunsOfSlot /\ ~Codex!Alive(s) /\ UNCHANGED <<cdisk, chold>>
  BY RunsType DEF SlotsInv, SlotsTyped, Codex!Visits
<1>3. v \in Copies /\ v.runs = [cw.runs EXCEPT ![s] = Codex!NoRun]
  <2>1. CASE cw.runs[s] = Codex!NoRun
    <3>1. v = cw
      BY <1>1, <2>1
    <3>2. QED BY <1>2, <2>1, <3>1 DEF RunsOfSlot
  <2>2. CASE cw.runs[s] # Codex!NoRun
    <3>1. v = Codex!Collected(cw, s, work[Codex!Log(s)].at)
      BY <1>1, <2>2
    <3>2. QED BY <1>2, <3>1, CollectedType
  <2>3. QED BY <2>1, <2>2
<1>4. Kept(v, s)
  BY <1>1, <1>2, <1>3, FedKeeps
<1>5. work' \in Seq(Workers) /\ Writing'
  <2>1. CASE StartsNone(v)
    <3>1. Writing'
      BY <1>2, <1>3, <1>4, <2>1, NoneKeeps DEF StartsNone, Kept
    <3>2. QED BY <1>2, <2>1, <3>1 DEF StartsNone, SlotsTyped
  <2>2. CASE StartsOne(v, s)
    <3>1. PICK i \in Codex!Items, p \in Codex!Profiles : Launched(v, s, i, p)
      BY <2>2 DEF StartsOne
    <3>2. QED BY <1>2, <1>3, <1>4, <3>1, OneKeeps DEF Kept
  <2>3. QED BY <1>4, <2>1, <2>2 DEF Kept
<1>6. SlotsInv'
  BY <1>2, <1>4, <1>5 DEF Kept, SlotsInv, Writing, SlotsTyped, TickTyped, SpentTyped
<1>7. Stays
  BY <1>4, AccountNames DEF Kept, StaysPut, Stays, Codex!MayMove
<1>8. QED BY <1>6, <1>7

(* Codex!Next's steps other than a visit leave the conversations alone.    *)
LEMMA Quiet == ASSUME conv' = conv PROVE Stays
BY DEF Stays

LEMMA SavedType ==
  ASSUME SlotsTyped
  PROVE  /\ cdisk \in Saved /\ cdisk.state.runs \in RunsOfSlot /\ cw.row \in Queues
         /\ [cdisk EXCEPT !.queue = cw.row] \in Saved /\ [cdisk EXCEPT !.queue = cw.row].state = cdisk.state
         /\ [cdisk EXCEPT !.state = Codex!State(cw)] \in Saved
         /\ [cdisk EXCEPT !.state = Codex!State(cw)].state.runs = cw.runs
BY DEF SlotsTyped, Saved, Copies, Codex!State

LEMMA TimesOutStep ==
  ASSUME SlotsInv, NEW s \in Codex!Slots, Codex!TimesOut(s) PROVE SlotsInv' /\ Stays
<1> DEFINE v == Codex!Collected(cw, s, "STUCK")
           l == cw.runs[s].log
<1>1. SlotsTyped /\ cw.runs \in RunsOfSlot /\ work \in Seq(Workers) /\ TickTyped /\ SpentTyped
  BY RunsType DEF SlotsInv, SlotsTyped, TickTyped, SpentTyped
<1>2. cw' \in Copies /\ cw'.runs = [cw.runs EXCEPT ![s] = Codex!NoRun]
  BY <1>1, CollectedType DEF Codex!TimesOut
<1>3. /\ cw.runs[s] # Codex!NoRun /\ work' = [work EXCEPT ![l].at = "STUCK"]
      /\ UNCHANGED <<cdisk, conv, chold>> /\ Codex!Troubled
      /\ cproc' = [cproc EXCEPT !.at = s] \/ cproc' = [cproc EXCEPT !.at = s + 1]
  BY DEF Codex!TimesOut, Codex!Alive, Codex!Log
<1>4. l \in DOMAIN work
  BY <1>3 DEF SlotsInv, RunsNamed, NamesWorker
<1>5. /\ work' \in Seq(Workers) /\ DOMAIN work' = DOMAIN work /\ work'[l].at = "STUCK"
      /\ \A n \in DOMAIN work : work'[n].item = work[n].item /\ (n # l => work'[n] = work[n])
  <2> DEFINE y == [work[l] EXCEPT !.at = "STUCK"]
  <2>1. y \in Workers /\ y.item = work[l].item /\ y.at = "STUCK"
    BY <1>1, <1>4, WorkFacts DEF Workers
  <2>2. work' = [work EXCEPT ![l] = y]
    BY <1>3
  <2> HIDE DEF y, l
  <2>3. work' \in Seq(Workers) /\ DOMAIN work' = DOMAIN work
    BY <1>1, <1>4, <2>1, <2>2
  <2>4. work'[l] = y /\ \A n \in DOMAIN work : n # l => work'[n] = work[n]
    BY <1>1, <1>4, <2>2
  <2>5. QED BY <2>1, <2>3, <2>4
<1>6. TickTyped'
  BY <1>1, <1>3, SlotFacts DEF TickTyped
<1>7. SpentTyped' /\ cspent'.deaths = cspent.deaths
  BY <1>1, <1>3, TroubledType
<1>8. SlotsTyped'
  BY <1>1, <1>2, <1>3, <1>5, <1>6, <1>7 DEF SlotsTyped, TickTyped, SpentTyped
<1>9. \A t \in Codex!Slots : cw'.runs[t] = IF t = s THEN Codex!NoRun ELSE cw.runs[t]
  BY <1>1, <1>2 DEF RunsOfSlot
<1>10. RunsNamed'
  BY <1>3, <1>5, <1>9 DEF SlotsInv, RunsNamed, NamesWorker
<1>11. OnRecord'
  <2> SUFFICES ASSUME cspent.deaths = 0, NEW n \in DOMAIN work', work'[n].at = "runs"
               PROVE  /\ work'[n].item \in Codex!Items
                      /\ \E t \in Codex!Slots : cw'.runs[t] = [item |-> work'[n].item, log |-> n]
    BY <1>7 DEF OnRecord
  <2>1. n # l /\ work'[n] = work[n] /\ n \in DOMAIN work
    BY <1>5
  <2>2. PICK t \in Codex!Slots : cw.runs[t] = [item |-> work[n].item, log |-> n] /\ work[n].item \in Codex!Items
    BY <2>1 DEF SlotsInv, OnRecord
  <2>3. t # s
    BY <2>1, <2>2
  <2>4. QED BY <1>9, <2>1, <2>2, <2>3
<1>12. Codex!OneWriterPerTree'
  BY <1>5, <1>7 DEF SlotsInv, Codex!OneWriterPerTree
<1>13. QED BY <1>3, <1>8, <1>10, <1>11, <1>12, Quiet DEF SlotsInv

LEMMA TickStep ==
  ASSUME SlotsInv, Codex!TickBegins \/ (\E s \in Codex!Slots : Codex!Builds(s)) \/ Codex!SavesQueue
  PROVE  SlotsInv' /\ Stays
<1>1. UNCHANGED <<cw, conv, work, chold, cspent>> /\ cdisk'.state.runs = cdisk.state.runs /\ cdisk' \in Saved
  <2>1. cdisk' = cdisk \/ cdisk' = [cdisk EXCEPT !.queue = cw.row]
    BY DEF Codex!TickBegins, Codex!Builds, Codex!SavesQueue
  <2>2. UNCHANGED <<cw, conv, work, chold, cspent>>
    BY DEF Codex!TickBegins, Codex!Builds, Codex!SavesQueue
  <2>3. QED BY <2>1, <2>2, SavedType DEF SlotsInv
<1>2. TickTyped'
  <2>1. TickTyped
    BY DEF SlotsInv, SlotsTyped, TickTyped
  <2>2. CASE Codex!TickBegins
    <3>1. 1 \in 0 .. NSlots + 2 /\ 0 \in Nat
      BY SlotConstants
    <3>2. QED BY <2>1, <2>2, <3>1 DEF Codex!TickBegins, TickTyped
  <2>3. ASSUME NEW s \in Codex!Slots, Codex!Builds(s) PROVE TickTyped'
    BY <2>1, <2>3, SlotFacts DEF Codex!Builds, TickTyped
  <2>4. CASE Codex!SavesQueue
    <3>1. cproc' = [cproc EXCEPT !.at = cproc.at + 1] /\ cproc.at = NSlots + 1
      BY <2>4 DEF Codex!SavesQueue, Codex!At
    <3>2. cproc.at + 1 \in 0 .. NSlots + 2
      BY <3>1, SlotConstants
    <3>3. QED BY <2>1, <3>1, <3>2 DEF TickTyped
  <2>5. QED BY <2>2, <2>3, <2>4
<1>3. SlotsTyped'
  BY <1>1, <1>2 DEF SlotsInv, SlotsTyped, TickTyped
<1>4. Writing'
  BY <1>1, RunsStay
<1>5. QED BY <1>1, <1>3, <1>4, Quiet DEF SlotsInv, Writing

LEMMA SavesStateStep ==
  ASSUME SlotsInv, Codex!SavesState PROVE SlotsInv' /\ Stays
<1>1. /\ UNCHANGED <<cw, conv, chold, cspent>> /\ cdisk' = [cdisk EXCEPT !.state = Codex!State(cw)]
      /\ cproc' = [cproc EXCEPT !.at = 0]
      /\ DOMAIN work' = DOMAIN work /\ Len(work) \in Nat
      /\ \A n \in DOMAIN work : work'[n] = work[n] \/ (work'[n] = Codex!Read /\ work[n].at # "runs")
  BY WorkFacts DEF Codex!SavesState, SlotsInv
<1>2. cdisk' \in Saved /\ cdisk'.state.runs = cw.runs
  BY <1>1, SavedType DEF SlotsInv
<1>3. work' \in Seq(Workers)
  <2>1. Codex!Read \in Workers /\ Codex!Read.at # "runs"
    BY NoRunType DEF Codex!Read, Workers, Codex!None, None
  <2>2. work \in Seq(Workers)
    BY DEF SlotsInv, SlotsTyped
  <2>3. work' \in [1 .. Len(work) -> Workers]
    BY <1>1, <2>1, <2>2 DEF Codex!SavesState
  <2>4. QED BY <1>1, <2>3, SeqDef
<1>4. cproc' \in [up : BOOLEAN, at : 0 .. NSlots + 2, fed : Nat]
  <2>1. 0 \in 0 .. NSlots + 2
    BY SlotConstants
  <2>2. QED BY <1>1, <2>1 DEF SlotsInv, SlotsTyped
<1>5. SlotsTyped'
  BY <1>1, <1>2, <1>3, <1>4 DEF SlotsInv, SlotsTyped
<1>6. RunsNamed'
  BY <1>1, <1>2 DEF SlotsInv, RunsNamed, NamesWorker
<1>7. \A n \in DOMAIN work : work'[n].at = "runs" => work'[n] = work[n]
  BY <1>1 DEF Codex!Read
<1>8. OnRecord' /\ Codex!OneWriterPerTree'
  BY <1>1, <1>7 DEF SlotsInv, OnRecord, Codex!OneWriterPerTree
<1>9. QED BY <1>1, <1>5, <1>6, <1>8, Quiet DEF SlotsInv

LEMMA DiesStep ==
  ASSUME SlotsInv, Codex!Dies \/ Codex!Restarts PROVE SlotsInv' /\ Stays
<1>1. CASE Codex!Dies
  <2>1. cw' \in Copies /\ cw'.runs = cdisk.state.runs
    BY <1>1 DEF Codex!Dies, SlotsInv, SlotsTyped, Saved, Copies
  <2>2. UNCHANGED <<cdisk, conv, work, chold>> /\ cspent' = [cspent EXCEPT !.trouble = @ + 1, !.deaths = @ + 1]
    BY <1>1 DEF Codex!Dies
  <2>3. cspent' \in [trouble : Nat, deaths : Nat] /\ cspent'.deaths # 0
    <3>1. cspent \in [trouble : Nat, deaths : Nat]
      BY DEF SlotsInv, SlotsTyped
    <3>2. cspent' = [cspent EXCEPT !.trouble = cspent.trouble + 1, !.deaths = cspent.deaths + 1]
      BY <2>2
    <3>3. cspent.trouble + 1 \in Nat /\ cspent.deaths + 1 \in Nat /\ cspent.deaths + 1 # 0
      BY <3>1
    <3>4. QED BY <3>1, <3>2, <3>3
  <2>4. cproc' \in [up : BOOLEAN, at : 0 .. NSlots + 2, fed : Nat]
    <3>1. 0 \in 0 .. NSlots + 2
      BY SlotConstants
    <3>2. QED BY <1>1, <3>1 DEF Codex!Dies
  <2>5. SlotsTyped'
    BY <2>1, <2>2, <2>3, <2>4 DEF SlotsInv, SlotsTyped
  <2>6. RunsNamed'
    BY <2>1, <2>2 DEF SlotsInv, RunsNamed, NamesWorker
  <2>7. OnRecord' /\ Codex!OneWriterPerTree'
    BY <2>3 DEF OnRecord, Codex!OneWriterPerTree
  <2>8. QED BY <2>2, <2>5, <2>6, <2>7, Quiet DEF SlotsInv
<1>2. CASE Codex!Restarts
  <2>1. UNCHANGED <<cw, cdisk, conv, work, chold, cspent>> /\ cproc' = [cproc EXCEPT !.up = TRUE]
    BY <1>2 DEF Codex!Restarts
  <2>2. SlotsTyped'
    BY <2>1 DEF SlotsInv, SlotsTyped
  <2>3. Writing'
    BY <2>1, RunsStay
  <2>4. QED BY <2>1, <2>2, <2>3, Quiet DEF SlotsInv, Writing
<1>3. QED BY <1>1, <1>2

LEMMA EndsStep ==
  ASSUME SlotsInv, NEW n \in DOMAIN work, Codex!WorkerEnds(n) PROVE SlotsInv' /\ Stays
<1>1. PICK e \in Codex!Lasts : work' = [work EXCEPT ![n].at = e]
  BY DEF Codex!WorkerEnds
<1>2. UNCHANGED <<cw, cdisk, conv, cproc, chold, cspent>> /\ work \in Seq(Workers)
  BY DEF Codex!WorkerEnds, SlotsInv, SlotsTyped
<1>3. /\ work' \in Seq(Workers) /\ DOMAIN work' = DOMAIN work /\ work'[n].at # "runs"
      /\ \A m \in DOMAIN work : m # n => work'[m] = work[m]
  <2> DEFINE y == [work[n] EXCEPT !.at = e]
  <2>1. y \in Workers /\ y.at # "runs"
    BY <1>2, WorkFacts DEF Workers, SlotsInv, Codex!Lasts, Codex!Refusals
  <2>2. work' = [work EXCEPT ![n] = y]
    BY <1>1
  <2> HIDE DEF y
  <2>3. work' \in Seq(Workers) /\ DOMAIN work' = DOMAIN work
    BY <1>2, <2>1, <2>2
  <2>4. work'[n] = y /\ \A m \in DOMAIN work : m # n => work'[m] = work[m]
    BY <1>2, <2>2
  <2>5. QED BY <2>1, <2>3, <2>4
<1>4. SlotsTyped'
  BY <1>2, <1>3 DEF SlotsInv, SlotsTyped
<1>5. RunsNamed'
  BY <1>2, <1>3 DEF SlotsInv, RunsNamed, NamesWorker
<1>6. \A m \in DOMAIN work' : work'[m].at = "runs" => m \in DOMAIN work /\ work'[m] = work[m]
  BY <1>3
<1>7. OnRecord' /\ Codex!OneWriterPerTree'
  BY <1>2, <1>6 DEF SlotsInv, OnRecord, Codex!OneWriterPerTree
<1>8. QED BY <1>2, <1>4, <1>5, <1>7, Quiet DEF SlotsInv

(* The clock and BOSS change copies and what is saved, but no run record.  *)
LEMMA EditsKeep ==
  ASSUME SlotsInv, cw' \in Copies, cdisk' \in Saved, SpentTyped', chold' \subseteq Codex!Slots,
         UNCHANGED <<conv, work, cproc>>, cw'.runs = cw.runs, cdisk'.state.runs = cdisk.state.runs, cspent'.deaths = cspent.deaths
  PROVE  SlotsInv' /\ Stays
<1>1. SlotsTyped'
  BY DEF SlotsInv, SlotsTyped, SpentTyped
<1>2. QED BY <1>1, RunsStay, Quiet DEF SlotsInv, Writing

LEMMA HeldChanges ==
  ASSUME NEW v \in Copies, NEW p \in Codex!Profiles, NEW e \in {None} \cup Codex!Refusals
  PROVE  [v EXCEPT !.held[p] = e] \in Copies /\ [v EXCEPT !.held[p] = e].runs = v.runs
<1> DEFINE hs == [v.held EXCEPT ![p] = e]
<1>1. hs \in Holds
  BY DEF Copies, Holds
<1>2. [v EXCEPT !.held[p] = e] = [v EXCEPT !.held = hs]
  BY DEF Copies
<1>3. QED BY <1>1, <1>2 DEF Copies

LEMMA SavedHoldChanges ==
  ASSUME NEW d \in Saved, NEW p \in Codex!Profiles, NEW e \in {None} \cup Codex!Refusals
  PROVE  [d EXCEPT !.state.held[p] = e] \in Saved /\ [d EXCEPT !.state.held[p] = e].state.runs = d.state.runs
<1> DEFINE hs == [d.state.held EXCEPT ![p] = e]
           st == [d.state EXCEPT !.held = hs]
<1>1. hs \in Holds
  BY DEF Saved, Holds
<1>2. [d EXCEPT !.state.held[p] = e] = [d EXCEPT !.state = st]
  BY DEF Saved
<1>3. st \in [runs : RunsOfSlot, held : Holds, aff : Affinities, gap : BOOLEAN] /\ st.runs = d.state.runs
  BY <1>1 DEF Saved
<1> HIDE DEF st
<1>4. QED BY <1>2, <1>3 DEF Saved

LEMMA GapStep == ASSUME SlotsInv, Codex!GapOver PROVE SlotsInv' /\ Stays
<1>1. cw \in Copies /\ cdisk \in Saved /\ SpentTyped /\ chold \subseteq Codex!Slots
  BY DEF SlotsInv, SlotsTyped, SpentTyped
<1>2. /\ cw' = [cw EXCEPT !.gap = FALSE] /\ cdisk' = [cdisk EXCEPT !.state.gap = FALSE]
      /\ UNCHANGED <<conv, work, cproc, chold, cspent>>
  BY DEF Codex!GapOver, Codex!Over
<1>3. cw' \in Copies /\ cw'.runs = cw.runs
  BY <1>1, <1>2 DEF Copies
<1>4. cdisk' \in Saved /\ cdisk'.state.runs = cdisk.state.runs
  <2> DEFINE st == [cdisk.state EXCEPT !.gap = FALSE]
  <2>1. st \in [runs : RunsOfSlot, held : Holds, aff : Affinities, gap : BOOLEAN] /\ st.runs = cdisk.state.runs
    BY <1>1 DEF Saved
  <2>2. cdisk' = [cdisk EXCEPT !.state = st]
    BY <1>1, <1>2 DEF Saved
  <2> HIDE DEF st
  <2>3. QED BY <1>1, <2>1, <2>2 DEF Saved
<1>5. QED BY <1>1, <1>2, <1>3, <1>4, EditsKeep DEF SpentTyped

LEMMA HoldStep ==
  ASSUME SlotsInv, NEW p \in Codex!Profiles, Codex!HoldOver(p) \/ Codex!HoldCleared(p) PROVE SlotsInv' /\ Stays
<1>1. cw \in Copies /\ cdisk \in Saved /\ SpentTyped /\ chold \subseteq Codex!Slots
  BY DEF SlotsInv, SlotsTyped, SpentTyped
<1>2. cw' = [cw EXCEPT !.held[p] = None] /\ UNCHANGED <<conv, work, cproc, chold>>
  BY AccountNames DEF Codex!HoldOver, Codex!HoldCleared, Codex!Over
<1>3. cspent' = cspent \/ Codex!Troubled
  BY DEF Codex!HoldOver, Codex!HoldCleared, Codex!Over
<1>4. SpentTyped' /\ cspent'.deaths = cspent.deaths
  BY <1>1, <1>3, TroubledType DEF SpentTyped
<1>5. \E e \in {None} \cup Codex!Refusals : cdisk' = cdisk \/ cdisk' = [cdisk EXCEPT !.state.held[p] = e]
  <2>1. CASE Codex!HoldOver(p)
    <3> DEFINE e == IF cdisk.state.held[p] = "QUOTA" THEN None ELSE cdisk.state.held[p]
    <3>1. e \in {None} \cup Codex!Refusals
      BY <1>1 DEF Saved, Holds
    <3>2. cdisk' = [cdisk EXCEPT !.state.held[p] = e]
      BY <2>1, AccountNames DEF Codex!HoldOver, Codex!Over
    <3>3. QED BY <3>1, <3>2
  <2>2. CASE Codex!HoldCleared(p)
    BY <2>2 DEF Codex!HoldCleared
  <2>3. QED BY <2>1, <2>2
<1>6. cdisk' \in Saved /\ cdisk'.state.runs = cdisk.state.runs
  <2>1. PICK e \in {None} \cup Codex!Refusals : cdisk' = cdisk \/ cdisk' = [cdisk EXCEPT !.state.held[p] = e]
    BY <1>5
  <2>2. [cdisk EXCEPT !.state.held[p] = e] \in Saved /\ [cdisk EXCEPT !.state.held[p] = e].state.runs = cdisk.state.runs
    BY <1>1, SavedHoldChanges
  <2>3. QED BY <1>1, <2>1, <2>2
<1>7. cw' \in Copies /\ cw'.runs = cw.runs
  <2>1. [cw EXCEPT !.held[p] = None] \in Copies /\ [cw EXCEPT !.held[p] = None].runs = cw.runs
    BY <1>1, HeldChanges
  <2>2. QED BY <1>2, <2>1
<1>8. QED BY <1>1, <1>2, <1>4, <1>6, <1>7, EditsKeep

LEMMA BossStep ==
  ASSUME SlotsInv, (\E i \in Codex!Items : Codex!Requeues(i)) \/ (\E s \in Codex!Slots : Codex!HoldsFeed(s))
  PROVE  SlotsInv' /\ Stays
<1>1. cw \in Copies /\ cdisk \in Saved /\ SpentTyped /\ chold \subseteq Codex!Slots
  BY DEF SlotsInv, SlotsTyped, SpentTyped
<1>2. ASSUME NEW i \in Codex!Items, Codex!Requeues(i) PROVE SlotsInv' /\ Stays
  <2> DEFINE r  == [cw.row[i] EXCEPT !.st = "queued", !.to = 0]
             qs == [cdisk.queue EXCEPT ![i] = r]
             rs == [cw.row EXCEPT ![i] = r]
  <2>1. /\ cw' = [cw EXCEPT !.row[i] = r] /\ cdisk' = [cdisk EXCEPT !.queue[i] = r]
        /\ UNCHANGED <<conv, work, cproc, chold>> /\ Codex!Troubled
    BY <1>2 DEF Codex!Requeues
  <2>2. r \in CodexRows
    <3>1. cw.row[i] \in CodexRows /\ 0 \in 0 .. NSlots
      BY <1>1, SlotConstants DEF Copies, Queues
    <3>2. QED BY <3>1 DEF CodexRows
  <2> HIDE DEF r
  <2>3. rs \in Queues /\ qs \in Queues
    BY <1>1, <2>2 DEF Copies, Saved, Queues
  <2>4. cw' = [cw EXCEPT !.row = rs] /\ cdisk' = [cdisk EXCEPT !.queue = qs]
    BY <1>1, <2>1 DEF Copies, Saved
  <2> HIDE DEF rs, qs
  <2>5. cw' \in Copies /\ cw'.runs = cw.runs /\ cdisk' \in Saved /\ cdisk'.state.runs = cdisk.state.runs
    BY <1>1, <2>3, <2>4 DEF Copies, Saved
  <2>6. SpentTyped' /\ cspent'.deaths = cspent.deaths
    BY <1>1, <2>1, TroubledType
  <2>7. QED BY <1>1, <2>1, <2>5, <2>6, EditsKeep
<1>3. ASSUME NEW s \in Codex!Slots, Codex!HoldsFeed(s) PROVE SlotsInv' /\ Stays
  <2>1. UNCHANGED <<cw, cdisk, conv, work, cproc>> /\ (cspent' = cspent \/ Codex!Troubled) /\ chold' \subseteq Codex!Slots
    BY <1>1, <1>3 DEF Codex!HoldsFeed
  <2>2. SpentTyped' /\ cspent'.deaths = cspent.deaths
    BY <1>1, <2>1, TroubledType DEF SpentTyped
  <2>3. QED BY <1>1, <2>1, <2>2, EditsKeep
<1>4. QED BY <1>2, <1>3

LEMMA SlotsStep == ASSUME SlotsInv, [Codex!Next]_(Codex!vars) PROVE SlotsInv' /\ (Stays \/ UNCHANGED Codex!vars)
<1>1. CASE UNCHANGED Codex!vars
  <2>1. UNCHANGED <<cw, cdisk, conv, work, cproc, chold, cspent>>
    BY <1>1 DEF Codex!vars
  <2>2. SlotsTyped'
    BY <2>1 DEF SlotsInv, SlotsTyped
  <2>3. QED BY <1>1, <2>1, <2>2, RunsStay DEF SlotsInv, Writing
<1>2. CASE Codex!Next
  BY <1>2, VisitsStep, TimesOutStep, TickStep, SavesStateStep, DiesStep, EndsStep, GapStep, HoldStep, BossStep
    DEF Codex!Next, Codex!Tick, Codex!Visit
<1>3. QED BY <1>1, <1>2

LEMMA SlotsStart == ASSUME Codex!Init PROVE SlotsInv
<1>1. /\ cw = [row |-> [i \in Codex!Items |-> [st |-> "queued", to |-> 0, only |-> 0, cont |-> 0, muse |-> None]],
               runs |-> [s \in Codex!Slots |-> Codex!NoRun], held |-> [p \in Codex!Profiles |-> None],
               aff |-> [i \in Codex!Items |-> None], gap |-> FALSE]
      /\ cdisk = [queue |-> cw.row, state |-> Codex!State(cw)]
      /\ conv = [i \in Codex!Items |-> None] /\ work = <<>> /\ cproc = [up |-> TRUE, at |-> 0, fed |-> 0]
      /\ chold = {} /\ cspent = [trouble |-> 0, deaths |-> 0]
  BY AccountNames DEF Codex!Init, Codex!InitWith
<1>2. 0 \in 0 .. NSlots /\ 0 \in 0 .. MaxAuto /\ 0 \in 0 .. NSlots + 2
  BY SlotConstants
<1>3. cw \in Copies
  <2>1. [i \in Codex!Items |-> [st |-> "queued", to |-> 0, only |-> 0, cont |-> 0, muse |-> None]] \in Queues
    BY <1>2, NoRunType DEF Queues, CodexRows
  <2>2. [s \in Codex!Slots |-> Codex!NoRun] \in RunsOfSlot
    BY NoRunType DEF RunsOfSlot
  <2>3. [p \in Codex!Profiles |-> None] \in Holds /\ [i \in Codex!Items |-> None] \in Affinities
    BY NoRunType DEF Holds, Affinities
  <2>4. QED BY <1>1, <2>1, <2>2, <2>3 DEF Copies
<1>4. cdisk \in Saved
  BY <1>1, <1>3 DEF Saved, Copies, Codex!State
<1>5. conv \in [Codex!Items -> Accounts] /\ work \in Seq(Workers) /\ DOMAIN work = {}
  BY <1>1, NoRunType
<1>6. SlotsTyped
  BY <1>1, <1>2, <1>3, <1>4, <1>5 DEF SlotsTyped
<1>7. RunsNamed
  BY <1>1 DEF RunsNamed, NamesWorker, Codex!State
<1>8. QED BY <1>5, <1>6, <1>7 DEF SlotsInv, OnRecord, Codex!OneWriterPerTree

(* The tick's copy of queue and state, what is saved and the workers keep  *)
(* their types.                                                            *)
THEOREM SlotsTypeOK == Codex!Spec => []SlotsTyped
<1>1. SlotsInv => SlotsTyped
  BY DEF SlotsInv
<1>2. QED BY <1>1, SlotsStart, SlotsStep, PTL DEF Codex!Spec

(* For any queue, slots, routes and accounts, whatever dies or is refused: *)
(* an item's conversation leaves its account only when that is held for    *)
(* good or for the week (select_profile, step 2).                          *)
THEOREM ConversationsStay == Codex!Spec => AccountStays
<1>1. SlotsInv /\ [Codex!Next]_(Codex!vars) => SlotsInv' /\ [Stays]_(Codex!vars)
  BY SlotsStep
<1>2. Codex!Spec => [][Stays]_(Codex!vars)
  BY <1>1, SlotsStart, PTL DEF Codex!Spec
<1>3. QED BY <1>2 DEF AccountStays, Codex!AccountStays, Stays

(* While the daemon lives no worktree has two workers, through launches,   *)
(* time-outs and BOSS's requeues of items whose worker still runs          *)
(* (busy_worktrees).                                                       *)
THEOREM TreesHaveOneWriter == Codex!Spec => []Codex!OneWriterPerTree
<1>1. SlotsInv => Codex!OneWriterPerTree
  BY DEF SlotsInv
<1>2. QED BY <1>1, SlotsStart, SlotsStep, PTL DEF Codex!Spec
=============================================================================
