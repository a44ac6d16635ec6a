------------------------------ MODULE BoxLocks ------------------------------
(***************************************************************************)
(* The box locks every Postgres-backed proof takes (vp/vp_box_lock.py):    *)
(* mkdir directories with an owner.json inside.  A process is one vpproof  *)
(* (or one `vp_box_lock.py` command); each of its file system calls is a   *)
(* step, so processes interleave between any two of them.  `sleep` is the  *)
(* five seconds between rounds.                                            *)
(***************************************************************************)
EXTENDS Naturals, FiniteSets

CONSTANTS
  Proc,          \* processes, each with its own pid
  Exclusive,     \* those of tier "exclusive"; the others are small proofs
  Portal,        \* the small proofs of kind "portal"
  MaxCrashes,    \* bound: processes that die without releasing
  None

ASSUME BoxAssumption ==
  /\ Exclusive \subseteq Proc /\ Portal \subseteq Proc \ Exclusive
  /\ None \notin Proc
  /\ MaxCrashes \in Nat

Locks == {"box", "slot0", "slot1", "portal"}
Slots == {"slot0", "slot1"}

VARIABLES
  dir,      \* lock directory -> the process whose mkdir made it, None if absent
  file,     \* its owner.json -> the process whose token it carries, None if absent
  pc, at,   \* where each process is, and the lock it is working on
  saw,      \* who had made the directory when the process decided to reap it
  held,     \* BoxLocks.held
  keeping,  \* is the running release the one that keeps box.lock.d?
  crossed   \* history: has a reap removed anything but the corpse it had read?

vars == <<dir, file, pc, at, saw, held, keeping, crossed>>

Places == {"idle", "pending", "try", "write", "unlink", "rmdir", "remake",
           "release", "relUnlink", "relRmdir", "sleep", "proving", "dead"}

TypeOK ==
  /\ dir \in [Locks -> Proc \cup {None}]
  /\ file \in [Locks -> Proc \cup {None}]
  /\ pc \in [Proc -> Places]
  /\ at \in [Proc -> Locks]
  /\ saw \in [Proc -> Proc \cup {None}]
  /\ held \in [Proc -> SUBSET Locks]
  /\ keeping \in [Proc -> BOOLEAN]
  /\ crossed \in BOOLEAN

Init ==
  /\ dir = [l \in Locks |-> None]
  /\ file = [l \in Locks |-> None]
  /\ pc = [p \in Proc |-> "idle"]
  /\ at = [p \in Proc |-> "box"]
  /\ saw = [p \in Proc |-> None]
  /\ held = [p \in Proc |-> {}]
  /\ keeping = [p \in Proc |-> FALSE]
  /\ crossed = FALSE

-----------------------------------------------------------------------------
Alive(p) == pc[p] # "dead"

Goto(p, place) == pc' = [pc EXCEPT ![p] = place]
Work(p, l)     == at' = [at EXCEPT ![p] = l]
Idle(p)        == pc[p] = "idle"

disk == <<dir, file>>
mine == <<saw, held, keeping>>

(* release(keep=("box.lock.d",) for an exclusive, () otherwise)            *)
Back(p)  == Goto(p, "release") /\ keeping' = [keeping EXCEPT ![p] = TRUE]
(* release()                                                               *)
Leave(p) == Goto(p, "release") /\ keeping' = [keeping EXCEPT ![p] = FALSE]

Kept(p) == IF keeping[p] /\ p \in Exclusive THEN {"box"} ELSE {}

Following == [box |-> "slot0", slot0 |-> "slot1", slot1 |-> "portal", portal |-> ""]

(* The next lock names_for(tier) asks for once l is held, "" when all are. *)
After(p, l) ==
  IF p \in Exclusive THEN Following[l]
  ELSE IF p \in Portal /\ l # "portal" THEN "portal" ELSE ""

(* An ownerless directory older than STALE_S.  The two gaps a live process *)
(* leaves (mkdir to owner.json, unlink to rmdir) are taken to be shorter.  *)
Stale(l) ==
  /\ file[l] = None
  /\ \A p \in Proc : dir[l] = p /\ at[p] = l => pc[p] \notin {"write", "relRmdir"}

LiveOwner(l) == file[l] # None /\ Alive(file[l])

\* faulty variant: an ownerless directory is reaped whatever its age
Faulty_Corpse(l) == ~LiveOwner(l)

Corpse(l) == (file[l] # None /\ ~Alive(file[l])) \/ Stale(l)

-----------------------------------------------------------------------------
(* acquire, and the first steps of _round                                  *)

Start(p) ==
  /\ Idle(p)
  /\ Goto(p, IF p \in Exclusive THEN "try" ELSE "pending")
  /\ Work(p, "box")
  /\ UNCHANGED <<disk, mine, crossed>>

Wake(p) ==
  /\ pc[p] = "sleep"
  /\ Goto(p, IF p \in Exclusive THEN "try" ELSE "pending")
  /\ Work(p, IF p \in Exclusive /\ "box" \in held[p] THEN "slot0" ELSE "box")
  /\ UNCHANGED <<disk, mine, crossed>>

(* The deadline has passed: release everything and return False.           *)
Timeout(p) ==
  /\ pc[p] = "sleep"
  /\ Leave(p)
  /\ UNCHANGED <<disk, at, saw, held, crossed>>

\* faulty variant: a small proof does not yield to a live exclusive
Faulty_BoxFree == dir["box"] = None \/ ~Corpse("box")

BoxFree == dir["box"] = None

(* _box_pending of a small proof: no box.lock.d, a corpse's, or a live one *)
NoExclusive(p) ==
  /\ pc[p] = "pending" /\ BoxFree
  /\ Goto(p, "try") /\ Work(p, "slot0")
  /\ UNCHANGED <<disk, mine, crossed>>

YieldToExclusive(p) ==
  /\ pc[p] = "pending" /\ ~BoxFree /\ ~Corpse("box")
  /\ Back(p)
  /\ UNCHANGED <<disk, at, saw, held, crossed>>

ReapPending(p) ==
  /\ pc[p] = "pending" /\ ~BoxFree /\ Corpse("box")
  /\ Goto(p, "unlink") /\ Work(p, "box")
  /\ saw' = [saw EXCEPT ![p] = dir["box"]]
  /\ UNCHANGED <<disk, held, keeping, crossed>>

-----------------------------------------------------------------------------
(* _try_one                                                                *)

TryMkdir(p) ==
  /\ pc[p] = "try" /\ dir[at[p]] = None
  /\ dir' = [dir EXCEPT ![at[p]] = p]
  /\ Goto(p, "write")
  /\ UNCHANGED <<file, at, mine, crossed>>

(* Not obtained: a small proof goes on from slot-0 to slot-1, any other    *)
(* failure ends the round.                                                 *)
Missed(p) ==
  IF p \notin Exclusive /\ at[p] = "slot0"
  THEN Goto(p, "try") /\ Work(p, "slot1") /\ UNCHANGED keeping
  ELSE Back(p) /\ UNCHANGED at

TryBusy(p) ==
  /\ pc[p] = "try" /\ dir[at[p]] # None /\ ~Corpse(at[p])
  /\ Missed(p)
  /\ UNCHANGED <<disk, saw, held, crossed>>

TryDead(p) ==
  /\ pc[p] = "try" /\ dir[at[p]] # None /\ Corpse(at[p])
  /\ Goto(p, "unlink")
  /\ saw' = [saw EXCEPT ![p] = dir[at[p]]]
  /\ UNCHANGED <<disk, at, held, keeping, crossed>>

Unlink(p) ==
  /\ pc[p] = "unlink"
  /\ file' = [file EXCEPT ![at[p]] = None]
  /\ crossed' = (crossed \/ (file[at[p]] # None /\ dir[at[p]] # saw[p]))
  /\ Goto(p, "rmdir")
  /\ UNCHANGED <<dir, at, mine>>

(* rmdir fails on a missing directory and on one that is not empty.        *)
Removable(l) == dir[l] # None /\ file[l] = None

Rmdir(p) ==
  /\ pc[p] = "rmdir"
  /\ IF Removable(at[p])
     THEN /\ dir' = [dir EXCEPT ![at[p]] = None]
          /\ crossed' = (crossed \/ dir[at[p]] # saw[p])
     ELSE UNCHANGED <<dir, crossed>>
  /\ IF at[p] = "box" /\ p \notin Exclusive       \* _box_pending's reap
     THEN IF dir'["box"] = None
          THEN Goto(p, "try") /\ Work(p, "slot0") /\ UNCHANGED keeping
          ELSE Back(p) /\ UNCHANGED at
     ELSE IF Removable(at[p])
          THEN Goto(p, "remake") /\ UNCHANGED <<at, keeping>>
          ELSE Missed(p)
  /\ UNCHANGED <<file, saw, held>>

Vacant(l) == dir[l] = None

Remake(p) ==
  /\ pc[p] = "remake"
  /\ IF Vacant(at[p])
     THEN /\ dir' = [dir EXCEPT ![at[p]] = p]
          /\ Goto(p, "write") /\ UNCHANGED <<at, keeping>>
     ELSE Missed(p) /\ UNCHANGED dir
  /\ UNCHANGED <<file, saw, held, crossed>>

(* Writing owner.json fails only when the directory is gone; the exception *)
(* leaves acquire before the caller's try block and ends the process.      *)
Write(p) ==
  /\ pc[p] = "write" /\ dir[at[p]] # None
  /\ file' = [file EXCEPT ![at[p]] = p]
  /\ held' = [held EXCEPT ![p] = @ \cup {at[p]}]
  /\ IF After(p, at[p]) = ""
     THEN Goto(p, "proving") /\ UNCHANGED at
     ELSE Goto(p, "try") /\ Work(p, After(p, at[p]))
  /\ UNCHANGED <<dir, saw, keeping, crossed>>

Die(p) ==
  /\ Goto(p, "dead")
  /\ held' = [held EXCEPT ![p] = {}]
  /\ UNCHANGED <<disk, at, saw, keeping, crossed>>

WriteFails(p) == pc[p] = "write" /\ dir[at[p]] = None /\ Die(p)

-----------------------------------------------------------------------------
(* release, last acquired first                                            *)

Order == <<"box", "slot0", "slot1", "portal">>

LastOf(S) ==
  CHOOSE l \in S : \E n \in 1..4 : Order[n] = l /\ \A m \in n+1..4 : Order[m] \notin S

Releasing(p) == LastOf(held[p] \ Kept(p))

Forget(p, l) == held' = [held EXCEPT ![p] = @ \ {l}]

(* owner.json is read: only the holder's own token lets it be removed.     *)
ReleaseRead(p) ==
  /\ pc[p] = "release" /\ held[p] \ Kept(p) # {}
  /\ LET l == Releasing(p) IN
     /\ Work(p, l)
     /\ IF file[l] = p THEN Goto(p, "relUnlink") /\ UNCHANGED held
                       ELSE Forget(p, l) /\ UNCHANGED pc
  /\ UNCHANGED <<disk, saw, keeping, crossed>>

ReleaseUnlink(p) ==
  /\ pc[p] = "relUnlink"
  /\ file' = [file EXCEPT ![at[p]] = None]
  /\ Goto(p, "relRmdir")
  /\ UNCHANGED <<dir, at, mine, crossed>>

ReleaseRmdir(p) ==
  /\ pc[p] = "relRmdir"
  /\ dir' = IF Removable(at[p]) THEN [dir EXCEPT ![at[p]] = None] ELSE dir
  /\ Forget(p, at[p])
  /\ Goto(p, "release")
  /\ UNCHANGED <<file, at, saw, keeping, crossed>>

Released(p) ==
  /\ pc[p] = "release" /\ held[p] \subseteq Kept(p)
  /\ Goto(p, IF keeping[p] THEN "sleep" ELSE "idle")
  /\ UNCHANGED <<disk, at, mine, crossed>>

(* The proof under the locks is over (its timeouts see to it).             *)
Finish(p) ==
  /\ pc[p] = "proving"
  /\ Leave(p)
  /\ UNCHANGED <<disk, at, saw, held, crossed>>

Crash(p) ==
  /\ Alive(p) /\ pc[p] # "idle"
  /\ Cardinality({q \in Proc : ~Alive(q)}) < MaxCrashes
  /\ Die(p)

-----------------------------------------------------------------------------
Step(p) ==
  \/ Wake(p) \/ NoExclusive(p) \/ YieldToExclusive(p) \/ ReapPending(p)
  \/ TryMkdir(p) \/ TryBusy(p) \/ TryDead(p) \/ Unlink(p) \/ Rmdir(p) \/ Remake(p)
  \/ Write(p) \/ WriteFails(p)
  \/ ReleaseRead(p) \/ ReleaseUnlink(p) \/ ReleaseRmdir(p) \/ Released(p)
  \/ Finish(p)

Next == \E p \in Proc : Start(p) \/ Step(p) \/ Timeout(p) \/ Crash(p)

Spec == Init /\ [][Next]_vars

(* Every process runs on and every proof under the locks ends; nobody has  *)
(* to start a proof, give up or crash.                                     *)
FairSpec == Spec /\ \A p \in Proc : WF_vars(Step(p))

-----------------------------------------------------------------------------
Proving == {p \in Proc : pc[p] = "proving"}

(* At most two proofs run on the box at once, and an exclusive one runs    *)
(* alone, whatever the order of the file system calls and whoever dies     *)
(* with its locks, as long as no reap has crossed another (two processes   *)
(* that read the same dead owner, the second removing the directory the    *)
(* first has taken over).                                                  *)
BoxCapacity ==
  ~crossed =>
    /\ \A p \in Proving \cap Exclusive : Proving = {p}
    /\ \A p, q, r \in Proving : p = q \/ q = r \/ p = r

(* The owner.json of a live process leaves its directory only by that      *)
(* process's own release: the token check and the reap of dead owners.     *)
OwnersKeepLocks ==
  [][~crossed' => \A l \in Locks :
       LiveOwner(l) /\ file'[l] # file[l] => pc[file[l]] = "relUnlink"]_vars

(* An exclusive waiter that has box.lock.d gets the rest of the box (or    *)
(* gives up, or dies): newcomers yield to it, slot holders drain, and the  *)
(* locks of the dead are reaped.                                           *)
ExclusiveNotStarved ==
  \A p \in Exclusive : "box" \in held[p] ~> pc[p] \in {"proving", "idle", "dead"}

(* "a live owner's lock is never removed" (vpproof.py) and "at most TWO    *)
(* Postgres-backed proofs on the box at once" (vp_box_lock.py), with no    *)
(* exception for reaps that cross: read, unlink, rmdir and mkdir are four  *)
(* separate calls.                                                         *)
LiveLockNeverRemoved ==
  [][\A l \in Locks : LiveOwner(l) /\ file'[l] # file[l] => pc[file[l]] = "relUnlink"]_vars
=============================================================================
