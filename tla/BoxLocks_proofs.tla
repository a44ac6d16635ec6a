--------------------------- MODULE BoxLocks_proofs ---------------------------
(***************************************************************************)
(* The box locks for any set of processes and any number of crashes.  As   *)
(* long as no reap crosses another, a directory made by a live process is  *)
(* held (or being taken) by that process, a process that is reaping aims   *)
(* at a dead one, and so no lock has two holders.                          *)
(***************************************************************************)
EXTENDS BoxLocks, TLAPS

LEMMA LockNames ==
  /\ "box" \in Locks /\ "slot0" \in Locks /\ "slot1" \in Locks /\ "portal" \in Locks
  /\ Slots \subseteq Locks
BY DEF Locks, Slots

LEMMA AfterType ==
  ASSUME NEW p \in Proc, NEW l \in Locks, After(p, l) # ""
  PROVE  After(p, l) \in Locks
<1>1. CASE p \in Exclusive
  <2>1. /\ Following["box"] = "slot0" /\ Following["slot0"] = "slot1"
        /\ Following["slot1"] = "portal" /\ Following["portal"] = ""
    BY DEF Following
  <2>2. After(p, l) = Following[l]
    BY <1>1 DEF After
  <2>3. QED BY <2>1, <2>2, LockNames DEF Locks
<1>2. CASE p \notin Exclusive
  BY <1>2, LockNames DEF After
<1>3. QED BY <1>1, <1>2

(* The lock a release works on is one the process holds.                   *)
LEMMA ReleasingHeld ==
  ASSUME TypeOK, NEW p \in Proc, held[p] \ Kept(p) # {}
  PROVE  Releasing(p) \in held[p] \ Kept(p) /\ Releasing(p) \in Locks
<1> DEFINE S == held[p] \ Kept(p)
<1>1. S \subseteq Locks
  BY DEF TypeOK
<1>2. \E l \in S : \E n \in 1..4 : Order[n] = l /\ \A m \in n+1..4 : Order[m] \notin S
  <2>1. Order[1] = "box" /\ Order[2] = "slot0" /\ Order[3] = "slot1" /\ Order[4] = "portal"
    BY DEF Order
  <2>2. CASE "portal" \in S
    BY <2>1, <2>2
  <2>3. CASE "portal" \notin S /\ "slot1" \in S
    BY <2>1, <2>3
  <2>4. CASE "portal" \notin S /\ "slot1" \notin S /\ "slot0" \in S
    BY <2>1, <2>4
  <2>5. CASE "portal" \notin S /\ "slot1" \notin S /\ "slot0" \notin S
    <3>1. "box" \in S
      BY <1>1, <2>5 DEF Locks
    <3>2. QED BY <2>1, <2>5, <3>1
  <2>6. QED BY <2>2, <2>3, <2>4, <2>5
<1>3. Releasing(p) \in S
  BY <1>2 DEF Releasing, LastOf
<1>4. QED BY <1>1, <1>3

-----------------------------------------------------------------------------
(* Every variable keeps its type: each file system call of acquire and     *)
(* release.                                                                *)
THEOREM BoxTypeOK == Spec => []TypeOK
<1>1. Init => TypeOK
  BY DEF Init, TypeOK, Places, Locks
<1>2. ASSUME TypeOK, [Next]_vars PROVE TypeOK'
  <2> USE <1>2, LockNames DEF TypeOK, Places
  <2>1. ASSUME NEW p \in Proc, Start(p) PROVE TypeOK'
    BY <2>1 DEF Start, Goto, Work, disk, mine
  <2>2. ASSUME NEW p \in Proc, Wake(p) PROVE TypeOK'
    BY <2>2 DEF Wake, Goto, Work, disk, mine
  <2>3. ASSUME NEW p \in Proc, Timeout(p) PROVE TypeOK'
    BY <2>3 DEF Timeout, Leave, Goto, disk
  <2>4. ASSUME NEW p \in Proc, NoExclusive(p) PROVE TypeOK'
    BY <2>4 DEF NoExclusive, Goto, Work, disk, mine
  <2>5. ASSUME NEW p \in Proc, YieldToExclusive(p) PROVE TypeOK'
    BY <2>5 DEF YieldToExclusive, Back, Goto, disk
  <2>6. ASSUME NEW p \in Proc, ReapPending(p) PROVE TypeOK'
    BY <2>6 DEF ReapPending, Goto, Work, disk
  <2>7. ASSUME NEW p \in Proc, TryMkdir(p) PROVE TypeOK'
    BY <2>7 DEF TryMkdir, Goto, mine
  <2>8. ASSUME NEW p \in Proc, TryBusy(p) PROVE TypeOK'
    BY <2>8 DEF TryBusy, Missed, Back, Goto, Work, disk
  <2>9. ASSUME NEW p \in Proc, TryDead(p) PROVE TypeOK'
    BY <2>9 DEF TryDead, Goto, disk
  <2>10. ASSUME NEW p \in Proc, Unlink(p) PROVE TypeOK'
    BY <2>10 DEF Unlink, Goto, mine
  <2>11. ASSUME NEW p \in Proc, Rmdir(p) PROVE TypeOK'
    BY <2>11 DEF Rmdir, Missed, Back, Goto, Work
  <2>12. ASSUME NEW p \in Proc, Remake(p) PROVE TypeOK'
    BY <2>12 DEF Remake, Missed, Back, Goto, Work
  <2>13. ASSUME NEW p \in Proc, Write(p) PROVE TypeOK'
    <3>1. at[p] \in Locks
      BY <2>13
    <3>2. CASE After(p, at[p]) = ""
      BY <2>13, <3>1, <3>2 DEF Write, Goto
    <3>3. CASE After(p, at[p]) # ""
      <4>1. After(p, at[p]) \in Locks
        BY <3>1, <3>3, AfterType
      <4>2. QED BY <2>13, <3>1, <3>3, <4>1 DEF Write, Goto, Work
    <3>4. QED BY <3>2, <3>3
  <2>14. ASSUME NEW p \in Proc, WriteFails(p) PROVE TypeOK'
    BY <2>14 DEF WriteFails, Die, Goto, disk
  <2>15. ASSUME NEW p \in Proc, ReleaseRead(p) PROVE TypeOK'
    BY <2>15, ReleasingHeld DEF ReleaseRead, Forget, Goto, Work, disk
  <2>16. ASSUME NEW p \in Proc, ReleaseUnlink(p) PROVE TypeOK'
    BY <2>16 DEF ReleaseUnlink, Goto, mine
  <2>17. ASSUME NEW p \in Proc, ReleaseRmdir(p) PROVE TypeOK'
    BY <2>17 DEF ReleaseRmdir, Forget, Goto
  <2>18. ASSUME NEW p \in Proc, Released(p) PROVE TypeOK'
    BY <2>18 DEF Released, Goto, disk, mine
  <2>19. ASSUME NEW p \in Proc, Finish(p) PROVE TypeOK'
    BY <2>19 DEF Finish, Leave, Goto, disk
  <2>20. ASSUME NEW p \in Proc, Crash(p) PROVE TypeOK'
    BY <2>20 DEF Crash, Die, Goto, disk
  <2>21. CASE UNCHANGED vars
    BY <2>21 DEF vars
  <2>22. QED
    BY <1>2, <2>1, <2>2, <2>3, <2>4, <2>5, <2>6, <2>7, <2>8, <2>9, <2>10, <2>11,
       <2>12, <2>13, <2>14, <2>15, <2>16, <2>17, <2>18, <2>19, <2>20, <2>21
       DEF Next, Step
<1>3. QED BY <1>1, <1>2, PTL DEF Spec

-----------------------------------------------------------------------------
(* What a process already holds, by the place it has reached.              *)

Working == {"try", "unlink", "rmdir", "remake", "write"}

Progress(p) ==
  /\ p \in Exclusive => pc[p] # "pending"
  /\ p \in Exclusive /\ pc[p] \in Working =>
       /\ at[p] # "box" => "box" \in held[p]
       /\ at[p] \in {"slot1", "portal"} => "slot0" \in held[p]
       /\ at[p] = "portal" => "slot1" \in held[p]
  /\ p \notin Exclusive /\ pc[p] \in {"try", "remake", "write"} => at[p] # "box"
  /\ p \notin Exclusive /\ pc[p] \in Working /\ at[p] = "portal" => held[p] \cap Slots # {}
  /\ p \notin Exclusive /\ pc[p] = "proving" => held[p] \cap Slots # {}
  /\ p \in Exclusive /\ pc[p] = "proving" => Locks \subseteq held[p]

LEMMA OwnProgress ==
  ASSUME TypeOK, NEW p \in Proc, Progress(p),
         Start(p) \/ Step(p) \/ Timeout(p) \/ Crash(p)
  PROVE  Progress(p)'
<1> USE DEF TypeOK, Progress, Working
<1>1. ASSUME Start(p) PROVE Progress(p)'
  BY <1>1 DEF Start, Goto, Work, mine, disk
<1>2. ASSUME Wake(p) PROVE Progress(p)'
  BY <1>2 DEF Wake, Goto, Work, mine, disk
<1>3. ASSUME Timeout(p) PROVE Progress(p)'
  BY <1>3 DEF Timeout, Goto, Work, Leave, disk
<1>4. ASSUME NoExclusive(p) PROVE Progress(p)'
  BY <1>4 DEF NoExclusive, Goto, Work, mine, disk
<1>5. ASSUME YieldToExclusive(p) PROVE Progress(p)'
  BY <1>5 DEF YieldToExclusive, Goto, Work, Back, disk
<1>6. ASSUME ReapPending(p) PROVE Progress(p)'
  BY <1>6 DEF ReapPending, Goto, Work, disk
<1>7. ASSUME TryMkdir(p) PROVE Progress(p)'
  BY <1>7 DEF TryMkdir, Goto, Work, mine
<1>8. ASSUME TryBusy(p) PROVE Progress(p)'
  BY <1>8 DEF TryBusy, Goto, Work, Missed, Back, disk
<1>9. ASSUME TryDead(p) PROVE Progress(p)'
  BY <1>9 DEF TryDead, Goto, Work, disk
<1>10. ASSUME Unlink(p) PROVE Progress(p)'
  BY <1>10 DEF Unlink, Goto, Work, mine
<1>11. ASSUME Rmdir(p) PROVE Progress(p)'
  BY <1>11 DEF Rmdir, Goto, Work, Missed, Back
<1>12. ASSUME Remake(p) PROVE Progress(p)'
  BY <1>12 DEF Remake, Goto, Work, Missed, Back
<1>13. ASSUME Write(p) PROVE Progress(p)'
  <2>1. Following["box"] = "slot0" /\ Following["slot0"] = "slot1"
        /\ Following["slot1"] = "portal" /\ Following["portal"] = ""
    BY DEF Following
  <2>2. at[p] \in {"box", "slot0", "slot1", "portal"}
    BY DEF Locks
  <2>3. CASE p \in Exclusive
    <3>1. After(p, at[p]) = Following[at[p]]
      BY <2>3 DEF After
    <3>2. CASE at[p] = "portal"
      <4>1. pc'[p] = "proving" /\ held'[p] = held[p] \cup {"portal"}
        BY <1>13, <2>1, <3>1, <3>2 DEF Write, Goto
      <4>2. {"box", "slot0", "slot1"} \subseteq held[p]
        BY <1>13, <2>3, <3>2 DEF Write
      <4>3. Locks \subseteq held'[p]
        BY <4>1, <4>2 DEF Locks
      <4>4. QED BY <2>3, <4>1, <4>3
    <3>3. CASE at[p] = "slot1"
      BY <1>13, <2>1, <2>3, <3>1, <3>3 DEF Write, Goto, Work
    <3>4. CASE at[p] = "slot0"
      BY <1>13, <2>1, <2>3, <3>1, <3>4 DEF Write, Goto, Work
    <3>5. CASE at[p] = "box"
      BY <1>13, <2>1, <2>3, <3>1, <3>5 DEF Write, Goto, Work
    <3>6. QED BY <2>2, <3>2, <3>3, <3>4, <3>5
  <2>4. CASE p \notin Exclusive
    BY <1>13, <2>2, <2>4 DEF Write, After, Goto, Work, Slots
  <2>5. QED BY <2>3, <2>4
<1>14. ASSUME WriteFails(p) PROVE Progress(p)'
  BY <1>14 DEF WriteFails, Goto, Work, Die, disk
<1>15. ASSUME ReleaseRead(p) PROVE Progress(p)'
  BY <1>15 DEF ReleaseRead, Goto, Work, Forget, disk
<1>16. ASSUME ReleaseUnlink(p) PROVE Progress(p)'
  BY <1>16 DEF ReleaseUnlink, Goto, Work, mine
<1>17. ASSUME ReleaseRmdir(p) PROVE Progress(p)'
  BY <1>17 DEF ReleaseRmdir, Goto, Work, Forget
<1>18. ASSUME Released(p) PROVE Progress(p)'
  BY <1>18 DEF Released, Goto, Work, disk, mine
<1>19. ASSUME Finish(p) PROVE Progress(p)'
  BY <1>19 DEF Finish, Goto, Work, Leave, disk
<1>20. ASSUME Crash(p) PROVE Progress(p)'
  BY <1>20 DEF Crash, Goto, Work, Die, disk
<1>21. QED BY <1>1, <1>2, <1>3, <1>4, <1>5, <1>6, <1>7, <1>8, <1>9, <1>10, <1>11, <1>12, <1>13, <1>14, <1>15, <1>16, <1>17, <1>18, <1>19, <1>20 DEF Step

(* A step of one process leaves what the others do and hold alone.         *)
LEMMA OthersUntouched ==
  ASSUME TypeOK, NEW p \in Proc, NEW q \in Proc, q # p,
         Start(p) \/ Step(p) \/ Timeout(p) \/ Crash(p)
  PROVE  pc'[q] = pc[q] /\ at'[q] = at[q] /\ held'[q] = held[q] /\ saw'[q] = saw[q]
<1> USE DEF TypeOK
<1> DEFINE Same == pc'[q] = pc[q] /\ at'[q] = at[q] /\ held'[q] = held[q] /\ saw'[q] = saw[q]
<1>1. ASSUME Start(p) PROVE Same
  BY <1>1 DEF Start, Goto, Work, mine, disk
<1>2. ASSUME Wake(p) PROVE Same
  BY <1>2 DEF Wake, Goto, Work, mine, disk
<1>3. ASSUME Timeout(p) PROVE Same
  BY <1>3 DEF Timeout, Goto, Work, Leave, disk
<1>4. ASSUME NoExclusive(p) PROVE Same
  BY <1>4 DEF NoExclusive, Goto, Work, mine, disk
<1>5. ASSUME YieldToExclusive(p) PROVE Same
  BY <1>5 DEF YieldToExclusive, Goto, Work, Back, disk
<1>6. ASSUME ReapPending(p) PROVE Same
  BY <1>6 DEF ReapPending, Goto, Work, disk
<1>7. ASSUME TryMkdir(p) PROVE Same
  BY <1>7 DEF TryMkdir, Goto, Work, mine
<1>8. ASSUME TryBusy(p) PROVE Same
  BY <1>8 DEF TryBusy, Goto, Work, Missed, Back, disk
<1>9. ASSUME TryDead(p) PROVE Same
  BY <1>9 DEF TryDead, Goto, Work, disk
<1>10. ASSUME Unlink(p) PROVE Same
  BY <1>10 DEF Unlink, Goto, Work, mine
<1>11. ASSUME Rmdir(p) PROVE Same
  BY <1>11 DEF Rmdir, Goto, Work, Missed, Back
<1>12. ASSUME Remake(p) PROVE Same
  BY <1>12 DEF Remake, Goto, Work, Missed, Back
<1>13. ASSUME Write(p) PROVE Same
  BY <1>13 DEF Write, Goto, Work
<1>14. ASSUME WriteFails(p) PROVE Same
  BY <1>14 DEF WriteFails, Goto, Work, Die, disk
<1>15. ASSUME ReleaseRead(p) PROVE Same
  BY <1>15 DEF ReleaseRead, Goto, Work, Forget, disk
<1>16. ASSUME ReleaseUnlink(p) PROVE Same
  BY <1>16 DEF ReleaseUnlink, Goto, Work, mine
<1>17. ASSUME ReleaseRmdir(p) PROVE Same
  BY <1>17 DEF ReleaseRmdir, Goto, Work, Forget
<1>18. ASSUME Released(p) PROVE Same
  BY <1>18 DEF Released, Goto, Work, disk, mine
<1>19. ASSUME Finish(p) PROVE Same
  BY <1>19 DEF Finish, Goto, Work, Leave, disk
<1>20. ASSUME Crash(p) PROVE Same
  BY <1>20 DEF Crash, Goto, Work, Die, disk
<1>21. QED BY <1>1, <1>2, <1>3, <1>4, <1>5, <1>6, <1>7, <1>8, <1>9, <1>10, <1>11, <1>12, <1>13, <1>14, <1>15, <1>16, <1>17, <1>18, <1>19, <1>20 DEF Step

-----------------------------------------------------------------------------
(* Who owns what, as long as no reap has crossed another.                  *)

Taking(p, l) == pc[p] = "write" /\ at[p] = l
Freeing(p, l) == pc[p] = "relRmdir" /\ at[p] = l

(* A lock in BoxLocks.held has its holder's directory, and its token in    *)
(* it until the release has unlinked it; so has a lock being taken its     *)
(* directory.                                                              *)
HeldIsMine(p) ==
  /\ \A l \in held[p] : Alive(p) /\ dir[l] = p /\ (file[l] = p \/ Freeing(p, l))
  /\ \A l \in Locks : Taking(p, l) => dir[l] = p
  /\ pc[p] \in {"relUnlink", "relRmdir"} => at[p] \in held[p]
  /\ pc[p] = "relRmdir" => file[at[p]] = None

ReapsTheDead(p) == pc[p] \in {"unlink", "rmdir"} => saw[p] \in Proc /\ ~Alive(saw[p])

OnDisk(l) ==
  /\ file[l] # None => dir[l] = file[l]
  /\ dir[l] # None => ~Alive(dir[l]) \/ l \in held[dir[l]] \/ Taking(dir[l], l)

Ownership ==
  /\ \A p \in Proc : HeldIsMine(p) /\ ReapsTheDead(p)
  /\ \A l \in Locks : OnDisk(l)

IInv == TypeOK /\ (\A p \in Proc : Progress(p)) /\ (~crossed => Ownership)

(* A directory a process decides to reap was made by a dead one: a live    *)
(* maker has its token in it, or is about to, or is about to remove it.    *)
LEMMA CorpseIsDead ==
  ASSUME BoxAssumption, TypeOK, Ownership, NEW l \in Locks, dir[l] # None, Corpse(l)
  PROVE  dir[l] \in Proc /\ ~Alive(dir[l])
<1>1. dir[l] \in Proc
  BY DEF TypeOK
<1>2. CASE file[l] # None /\ ~Alive(file[l])
  <2>1. OnDisk(l)
    BY DEF Ownership
  <2>2. dir[l] = file[l]
    BY <1>2, <2>1 DEF OnDisk
  <2>3. QED BY <1>1, <1>2, <2>2
<1>3. CASE Stale(l)
  <2> DEFINE m == dir[l]
  <2>1. file[l] = None /\ ~Taking(m, l) /\ ~Freeing(m, l)
    BY <1>1, <1>3 DEF Stale, Taking, Freeing
  <2>2. l \notin held[m]
    BY <1>1, <2>1 DEF Ownership, HeldIsMine, BoxAssumption
  <2>3. QED BY <1>1, <2>1, <2>2 DEF Ownership, OnDisk
<1>4. QED BY <1>1, <1>2, <1>3 DEF Corpse


LEMMA ReapsStable ==
  ASSUME TypeOK, Ownership, NEW p \in Proc, NEW q \in Proc \ {p},
         pc'[q] = pc[q] /\ saw'[q] = saw[q],
         \A r \in Proc : ~Alive(r) => ~Alive(r)'
  PROVE  ReapsTheDead(q)'
BY DEF Ownership, ReapsTheDead

(* A step that touches neither the disk nor what p holds, and is not one   *)
(* of those between which p is making or removing a directory.             *)
LEMMA QuietStep ==
  ASSUME TypeOK, Ownership, NEW p \in Proc,
         \A q \in Proc \ {p} : pc'[q] = pc[q] /\ at'[q] = at[q] /\ held'[q] = held[q] /\ saw'[q] = saw[q],
         UNCHANGED disk, held'[p] = held[p], Alive(p), pc'[p] # "dead",
         pc[p] \notin {"write", "relRmdir"},
         pc'[p] \notin {"write", "relUnlink", "relRmdir"},
         ReapsTheDead(p)'
  PROVE  Ownership'
<1> USE DEF disk
<1>1. \A r \in Proc : Alive(r)' = Alive(r)
  BY DEF Alive
<1>2. ASSUME NEW q \in Proc PROVE HeldIsMine(q)' /\ ReapsTheDead(q)'
  <2>1. CASE q = p
    BY <1>1, <2>1 DEF Ownership, HeldIsMine, Taking, Freeing
  <2>2. CASE q # p
    <3>1. HeldIsMine(q)'
      BY <1>1, <2>2 DEF Ownership, HeldIsMine, Taking, Freeing
    <3>2. QED BY <1>1, <2>2, <3>1, ReapsStable
  <2>3. QED BY <2>1, <2>2
<1>3. ASSUME NEW l \in Locks PROVE OnDisk(l)'
  <2>1. dir[l] = None \/ dir[l] \in Proc
    BY DEF TypeOK
  <2>2. dir[l] # None /\ Alive(dir[l]) => l \in held'[dir[l]] \/ Taking(dir[l], l)'
    <3>1. CASE dir[l] = p
      BY <3>1 DEF Ownership, OnDisk, Taking
    <3>2. CASE dir[l] # p
      BY <2>1, <3>2 DEF Ownership, OnDisk, Taking
    <3>3. QED BY <3>1, <3>2
  <2>3. QED BY <1>1, <2>1, <2>2 DEF Ownership, OnDisk
<1>4. QED BY <1>2, <1>3 DEF Ownership

LEMMA OwnershipStep ==
  ASSUME BoxAssumption, TypeOK, ~crossed, ~crossed', Ownership, NEW p \in Proc,
         \A q \in Proc \ {p} : pc'[q] = pc[q] /\ at'[q] = at[q] /\ held'[q] = held[q] /\ saw'[q] = saw[q],
         Start(p) \/ Step(p) \/ Timeout(p) \/ Crash(p)
  PROVE  Ownership'
<1>1. ASSUME Start(p) PROVE Ownership'
  BY <1>1, QuietStep DEF Start, Goto, Work, mine, disk, Idle, TypeOK, Alive, ReapsTheDead
<1>2. ASSUME Wake(p) PROVE Ownership'
  BY <1>2, QuietStep DEF Wake, Goto, Work, mine, disk, Idle, TypeOK, Alive, ReapsTheDead
<1>3. ASSUME Timeout(p) PROVE Ownership'
  BY <1>3, QuietStep DEF Timeout, Goto, Work, Leave, disk, Idle, TypeOK, Alive, ReapsTheDead
<1>4. ASSUME NoExclusive(p) PROVE Ownership'
  BY <1>4, QuietStep DEF NoExclusive, Goto, Work, mine, disk, Idle, TypeOK, Alive, ReapsTheDead
<1>5. ASSUME YieldToExclusive(p) PROVE Ownership'
  BY <1>5, QuietStep DEF YieldToExclusive, Goto, Work, Back, disk, Idle, TypeOK, Alive, ReapsTheDead
<1>6. ASSUME ReapPending(p) PROVE Ownership'
  <2>1. "box" \in Locks /\ dir["box"] \in Proc /\ ~Alive(dir["box"])
    BY <1>6, CorpseIsDead, LockNames DEF ReapPending, TypeOK, BoxFree
  <2>2. pc'[p] = "unlink" /\ saw'[p] = dir["box"] /\ pc'[dir["box"]] = "dead" /\ dir["box"] # p
    BY <1>6, <2>1 DEF ReapPending, Goto, Work, disk, TypeOK, Alive
  <2>3. ReapsTheDead(p)'
    BY <2>1, <2>2 DEF ReapsTheDead, Alive
  <2>4. QED BY <1>6, <2>2, <2>3, QuietStep DEF ReapPending, Goto, Work, disk, TypeOK, Alive
<1>7. ASSUME TryMkdir(p) PROVE Ownership'
  <2> USE DEF BoxAssumption, TypeOK, Ownership, HeldIsMine, ReapsTheDead, OnDisk, Taking, Freeing, Alive
  <2>1. ASSUME NEW q \in Proc PROVE HeldIsMine(q)'
    BY <1>7, <2>1 DEF TryMkdir, Goto, Work, mine
  <2>2. ASSUME NEW q \in Proc PROVE ReapsTheDead(q)'
    BY <1>7, <2>2 DEF TryMkdir, Goto, Work, mine
  <2>3. ASSUME NEW l \in Locks PROVE OnDisk(l)'
    BY <1>7, <2>3 DEF TryMkdir, Goto, Work, mine
  <2>4. QED BY <2>1, <2>2, <2>3
<1>8. ASSUME TryBusy(p) PROVE Ownership'
  BY <1>8, QuietStep DEF TryBusy, Goto, Work, Missed, Back, disk, Idle, TypeOK, Alive, ReapsTheDead
<1>9. ASSUME TryDead(p) PROVE Ownership'
  <2>1. at[p] \in Locks /\ dir[at[p]] \in Proc /\ ~Alive(dir[at[p]])
    BY <1>9, CorpseIsDead, LockNames DEF TryDead, TypeOK
  <2>2. pc'[p] = "unlink" /\ saw'[p] = dir[at[p]] /\ pc'[dir[at[p]]] = "dead" /\ dir[at[p]] # p
    BY <1>9, <2>1 DEF TryDead, Goto, Work, disk, TypeOK, Alive
  <2>3. ReapsTheDead(p)'
    BY <2>1, <2>2 DEF ReapsTheDead, Alive
  <2>4. QED BY <1>9, <2>2, <2>3, QuietStep DEF TryDead, Goto, Work, disk, TypeOK, Alive
<1>10. ASSUME Unlink(p) PROVE Ownership'
  <2> USE DEF BoxAssumption, TypeOK, Ownership, HeldIsMine, ReapsTheDead, OnDisk, Taking, Freeing, Alive
  <2>1. file'[at[p]] = None /\ dir' = dir /\ pc'[p] = "rmdir" /\ held' = held
    BY <1>10 DEF Unlink, Goto, mine
  <2>2. \A l \in Locks : l # at[p] => file'[l] = file[l]
    BY <1>10 DEF Unlink
  <2>3. file[at[p]] # None => ~Alive(file[at[p]])
    <3>1. at[p] \in Locks /\ saw[p] \in Proc /\ ~Alive(saw[p])
      BY <1>10 DEF Unlink
    <3>2. file[at[p]] # None => dir[at[p]] = saw[p]
      BY <1>10 DEF Unlink
    <3>3. file[at[p]] # None => dir[at[p]] = file[at[p]]
      BY <3>1
    <3>4. QED BY <3>1, <3>2, <3>3
  <2>4. ASSUME NEW q \in Proc PROVE HeldIsMine(q)'
    <3>1. CASE q = p
      BY <1>10, <2>1, <2>2, <2>3, <3>1 DEF Unlink
    <3>2. CASE q # p
      BY <1>10, <2>1, <2>2, <2>3, <3>2 DEF Unlink
    <3>3. QED BY <3>1, <3>2
  <2>5. ASSUME NEW q \in Proc PROVE ReapsTheDead(q)'
    BY <1>10, <2>5 DEF Unlink, Goto, Work, mine
  <2>6. ASSUME NEW l \in Locks PROVE OnDisk(l)'
    BY <1>10, <2>6 DEF Unlink, Goto, Work, mine
  <2>7. QED BY <2>4, <2>5, <2>6
<1>11. ASSUME Rmdir(p) PROVE Ownership'
  <2>1. pc'[p] \in {"try", "release", "remake"} /\ held' = held /\ saw' = saw /\ file' = file
    BY <1>11 DEF Rmdir, Goto, Work, Missed, Back, TypeOK
  <2>2. CASE ~Removable(at[p])
    <3>1. dir' = dir /\ pc[p] = "rmdir"
      BY <1>11, <2>2 DEF Rmdir
    <3>2. QED BY <2>1, <3>1, QuietStep DEF disk, Alive, ReapsTheDead
  <2>3. CASE Removable(at[p])
    <3> USE DEF BoxAssumption, TypeOK, Ownership, HeldIsMine, ReapsTheDead, OnDisk, Taking, Freeing, Alive
    <3>1. /\ dir' = [dir EXCEPT ![at[p]] = None]
          /\ file[at[p]] = None /\ dir[at[p]] = saw[p] /\ ~Alive(saw[p]) /\ pc[p] = "rmdir"
      BY <1>11, <2>3 DEF Rmdir, Removable
    <3>2. \A q \in Proc : Alive(q)' = Alive(q)
      BY <2>1, <3>1
    <3>3. ASSUME NEW q \in Proc PROVE HeldIsMine(q)'
      <4>1. CASE q = p
        BY <2>1, <3>1, <3>2, <4>1
      <4>2. CASE q # p
        BY <2>1, <3>1, <3>2, <4>2
      <4>3. QED BY <4>1, <4>2
    <3>4. ASSUME NEW q \in Proc PROVE ReapsTheDead(q)'
      BY <2>1, <3>2
    <3>5. ASSUME NEW l \in Locks PROVE OnDisk(l)'
      BY <2>1, <3>1, <3>2
    <3>6. QED BY <3>3, <3>4, <3>5
  <2>4. QED BY <2>2, <2>3
<1>12. ASSUME Remake(p) PROVE Ownership'
  <2>1. CASE ~Vacant(at[p])
    <3>1. UNCHANGED disk /\ held' = held /\ pc'[p] \in {"try", "release"} /\ pc[p] = "remake"
      BY <1>12, <2>1 DEF Remake, Goto, Work, Missed, Back, disk, TypeOK
    <3>2. QED BY <3>1, QuietStep DEF Alive, ReapsTheDead
  <2>2. CASE Vacant(at[p])
    <3> USE DEF BoxAssumption, TypeOK, Ownership, HeldIsMine, ReapsTheDead, OnDisk, Taking, Freeing, Alive
    <3>1. /\ dir[at[p]] = None /\ dir' = [dir EXCEPT ![at[p]] = p] /\ file' = file
          /\ pc'[p] = "write" /\ pc[p] = "remake" /\ at' = at /\ held' = held /\ saw' = saw
      BY <1>12, <2>2 DEF Remake, Vacant, Goto
    <3>2. ASSUME NEW q \in Proc PROVE HeldIsMine(q)'
      BY <3>1
    <3>3. ASSUME NEW q \in Proc PROVE ReapsTheDead(q)'
      BY <3>1
    <3>4. ASSUME NEW l \in Locks PROVE OnDisk(l)'
      BY <3>1
    <3>5. QED BY <3>2, <3>3, <3>4
  <2>3. QED BY <2>1, <2>2
<1>13. ASSUME Write(p) PROVE Ownership'
  <2>1. /\ pc'[p] \in {"try", "proving"} /\ pc[p] = "write" /\ dir' = dir /\ saw' = saw
        /\ file' = [file EXCEPT ![at[p]] = p]
        /\ held'[p] = held[p] \cup {at[p]}
    <3>1. pc' = [pc EXCEPT ![p] = "proving"] \/ pc' = [pc EXCEPT ![p] = "try"]
      BY <1>13 DEF Write, Goto
    <3>2. held' = [held EXCEPT ![p] = @ \cup {at[p]}] /\ pc[p] = "write" /\ dir' = dir
          /\ saw' = saw /\ file' = [file EXCEPT ![at[p]] = p]
      BY <1>13 DEF Write
    <3>3. QED BY <3>1, <3>2 DEF TypeOK
  <2> USE DEF BoxAssumption, TypeOK, Ownership, HeldIsMine, ReapsTheDead, OnDisk, Taking, Freeing, Alive
  <2>2. dir[at[p]] = p
    BY <2>1
  <2>3. \A q \in Proc : Alive(q)' = Alive(q)
    BY <2>1
  <2>4. ASSUME NEW q \in Proc PROVE HeldIsMine(q)'
    <3>1. CASE q = p
      BY <2>1, <2>2, <2>3, <3>1
    <3>2. CASE q # p
      BY <2>1, <2>2, <2>3, <3>2
    <3>3. QED BY <3>1, <3>2
  <2>5. ASSUME NEW q \in Proc PROVE ReapsTheDead(q)'
    BY <2>1, <2>3
  <2>6. ASSUME NEW l \in Locks PROVE OnDisk(l)'
    <3>1. CASE dir[l] = p
      BY <2>1, <2>2, <3>1
    <3>2. CASE dir[l] # p
      BY <2>1, <2>2, <2>3, <3>2
    <3>3. QED BY <3>1, <3>2
  <2>7. QED BY <2>4, <2>5, <2>6
<1>14. ASSUME WriteFails(p) PROVE Ownership'
  <2> USE DEF BoxAssumption, TypeOK, Ownership, HeldIsMine, ReapsTheDead, OnDisk, Taking, Freeing, Alive
  <2>1. ASSUME NEW q \in Proc PROVE HeldIsMine(q)'
    BY <1>14, <2>1 DEF WriteFails, Goto, Work, Die, disk
  <2>2. ASSUME NEW q \in Proc PROVE ReapsTheDead(q)'
    BY <1>14, <2>2 DEF WriteFails, Goto, Work, Die, disk
  <2>3. ASSUME NEW l \in Locks PROVE OnDisk(l)'
    BY <1>14, <2>3 DEF WriteFails, Goto, Work, Die, disk
  <2>4. QED BY <2>1, <2>2, <2>3
<1>15. ASSUME ReleaseRead(p) PROVE Ownership'
  <2> DEFINE l == Releasing(p)
  <2>1. l \in held[p] /\ l \in Locks
    BY <1>15, ReleasingHeld DEF ReleaseRead
  <2>2. file[l] = p
    BY <1>15, <2>1 DEF BoxAssumption, TypeOK, Ownership, HeldIsMine, ReapsTheDead, OnDisk, Taking, Freeing, Alive, ReleaseRead
  <2>3. /\ pc'[p] = "relUnlink" /\ at'[p] = l /\ pc[p] = "release"
        /\ held' = held /\ saw' = saw /\ dir' = dir /\ file' = file
    BY <1>15, <2>1, <2>2 DEF ReleaseRead, Goto, Work, TypeOK, disk
  <2> HIDE DEF l
  <2> USE DEF BoxAssumption, TypeOK, Ownership, HeldIsMine, ReapsTheDead, OnDisk, Taking, Freeing, Alive
  <2>4. ASSUME NEW q \in Proc PROVE HeldIsMine(q)'
    BY <2>1, <2>2, <2>3
  <2>5. ASSUME NEW q \in Proc PROVE ReapsTheDead(q)'
    BY <2>3
  <2>6. ASSUME NEW k \in Locks PROVE OnDisk(k)'
    BY <2>3
  <2>7. QED BY <2>4, <2>5, <2>6
<1>16. ASSUME ReleaseUnlink(p) PROVE Ownership'
  <2> USE DEF BoxAssumption, TypeOK, Ownership, HeldIsMine, ReapsTheDead, OnDisk, Taking, Freeing, Alive
  <2>1. ASSUME NEW q \in Proc PROVE HeldIsMine(q)'
    BY <1>16, <2>1 DEF ReleaseUnlink, Goto, Work, mine
  <2>2. ASSUME NEW q \in Proc PROVE ReapsTheDead(q)'
    BY <1>16, <2>2 DEF ReleaseUnlink, Goto, Work, mine
  <2>3. ASSUME NEW l \in Locks PROVE OnDisk(l)'
    BY <1>16, <2>3 DEF ReleaseUnlink, Goto, Work, mine
  <2>4. QED BY <2>1, <2>2, <2>3
<1>17. ASSUME ReleaseRmdir(p) PROVE Ownership'
  <2> USE DEF BoxAssumption, TypeOK, Ownership, HeldIsMine, ReapsTheDead, OnDisk, Taking, Freeing, Alive
  <2>1. /\ at[p] \in held[p] /\ dir[at[p]] = p /\ file[at[p]] = None
        /\ dir' = [dir EXCEPT ![at[p]] = None] /\ file' = file
        /\ held'[p] = held[p] \ {at[p]} /\ pc[p] = "relRmdir" /\ pc'[p] = "release" /\ saw' = saw
    BY <1>17 DEF ReleaseRmdir, Removable, Forget, Goto
  <2>2. ASSUME NEW q \in Proc PROVE HeldIsMine(q)'
    <3>1. CASE q = p
      BY <2>1, <3>1
    <3>2. CASE q # p
      BY <2>1, <3>2
    <3>3. QED BY <3>1, <3>2
  <2>3. ASSUME NEW q \in Proc PROVE ReapsTheDead(q)'
    BY <2>1
  <2>4. ASSUME NEW l \in Locks PROVE OnDisk(l)'
    <3>1. CASE l = at[p]
      BY <2>1, <3>1
    <3>2. CASE l # at[p]
      BY <2>1, <3>2
    <3>3. QED BY <3>1, <3>2
  <2>5. QED BY <2>2, <2>3, <2>4
<1>18. ASSUME Released(p) PROVE Ownership'
  BY <1>18, QuietStep DEF Released, Goto, Work, disk, mine, Idle, TypeOK, Alive, ReapsTheDead
<1>19. ASSUME Finish(p) PROVE Ownership'
  BY <1>19, QuietStep DEF Finish, Goto, Work, Leave, disk, Idle, TypeOK, Alive, ReapsTheDead
<1>20. ASSUME Crash(p) PROVE Ownership'
  <2> USE DEF BoxAssumption, TypeOK, Ownership, HeldIsMine, ReapsTheDead, OnDisk, Taking, Freeing, Alive
  <2>1. ASSUME NEW q \in Proc PROVE HeldIsMine(q)'
    BY <1>20, <2>1 DEF Crash, Goto, Work, Die, disk
  <2>2. ASSUME NEW q \in Proc PROVE ReapsTheDead(q)'
    BY <1>20, <2>2 DEF Crash, Goto, Work, Die, disk
  <2>3. ASSUME NEW l \in Locks PROVE OnDisk(l)'
    BY <1>20, <2>3 DEF Crash, Goto, Work, Die, disk
  <2>4. QED BY <2>1, <2>2, <2>3
<1>21. QED BY <1>1, <1>2, <1>3, <1>4, <1>5, <1>6, <1>7, <1>8, <1>9, <1>10, <1>11, <1>12, <1>13, <1>14, <1>15, <1>16, <1>17, <1>18, <1>19, <1>20 DEF Step

LEMMA CrossedStays ==
  ASSUME TypeOK, NEW p \in Proc, ~crossed', Start(p) \/ Step(p) \/ Timeout(p) \/ Crash(p)
  PROVE  ~crossed
BY DEF TypeOK, Step, Start, Wake, Timeout, NoExclusive, YieldToExclusive, ReapPending,
       TryMkdir, TryBusy, TryDead, Unlink, Rmdir, Remake, Write, WriteFails, ReleaseRead,
       ReleaseUnlink, ReleaseRmdir, Released, Finish, Crash, Die

LEMMA InductiveInvariant == Spec => []IInv
<1>1. Init => IInv
  <2> SUFFICES ASSUME Init PROVE IInv
    OBVIOUS
  <2>1. TypeOK
    BY LockNames DEF Init, TypeOK, Places
  <2>2. ASSUME NEW p \in Proc PROVE Progress(p)
    BY DEF Init, Progress, Working
  <2>3. Ownership
    BY DEF Init, Ownership, HeldIsMine, ReapsTheDead, OnDisk, Taking
  <2>4. QED BY <2>1, <2>2, <2>3 DEF IInv
<1>2. ASSUME IInv, TypeOK', [Next]_vars PROVE IInv'
  <2>1. CASE UNCHANGED vars
    BY <1>2, <2>1 DEF vars, IInv, Progress, Ownership, HeldIsMine, ReapsTheDead, OnDisk,
                      Taking, Freeing, Alive
  <2>2. ASSUME NEW p \in Proc, Start(p) \/ Step(p) \/ Timeout(p) \/ Crash(p) PROVE IInv'
    <3>1. TypeOK /\ \A q \in Proc : Progress(q)
      BY <1>2 DEF IInv
    <3>2. \A q \in Proc \ {p} :
            pc'[q] = pc[q] /\ at'[q] = at[q] /\ held'[q] = held[q] /\ saw'[q] = saw[q]
      BY <2>2, <3>1, OthersUntouched
    <3>3. ASSUME NEW q \in Proc PROVE Progress(q)'
      <4>1. CASE q = p
        BY <2>2, <3>1, <4>1, OwnProgress
      <4>2. CASE q # p
        BY <3>1, <3>2, <4>2 DEF Progress
      <4>3. QED BY <4>1, <4>2
    <3>4. ASSUME ~crossed' PROVE Ownership'
      <4>1. ~crossed
        BY <2>2, <3>1, <3>4, CrossedStays
      <4>2. Ownership
        BY <1>2, <4>1 DEF IInv
      <4>3. QED BY <2>2, <3>1, <3>2, <3>4, <4>1, <4>2, BoxAssumption, OwnershipStep
    <3>5. QED BY <1>2, <3>3, <3>4 DEF IInv
  <2>3. QED BY <1>2, <2>1, <2>2 DEF Next
<1>3. QED BY <1>1, <1>2, BoxTypeOK, PTL DEF Spec

(* As long as no reap has crossed another: an exclusive proof runs alone,  *)
(* because a small one would hold one of its slots, and no three proofs    *)
(* run together, because two of them would share a slot.                   *)
THEOREM BoxNeverOverloaded == Spec => []BoxCapacity
<1>1. ASSUME IInv PROVE BoxCapacity
  <2> SUFFICES ASSUME ~crossed
               PROVE  /\ \A p \in Proving \cap Exclusive : Proving = {p}
                      /\ \A p, q, r \in Proving : p = q \/ q = r \/ p = r
    BY DEF BoxCapacity
  <2>1. \A p, q \in Proc : held[p] \cap held[q] # {} => p = q
    BY <1>1 DEF IInv, Ownership, HeldIsMine
  <2>2. \A p \in Proving : p \in Proc /\ held[p] \cap Slots # {}
    BY <1>1, LockNames DEF IInv, Progress, Proving, Slots
  <2>3. \A p \in Proving \cap Exclusive : Slots \subseteq held[p]
    BY <1>1, LockNames DEF IInv, Progress, Proving
  <2>4. \A p \in Proving \cap Exclusive : Proving = {p}
    BY <2>1, <2>2, <2>3
  <2>5. \A p \in Proving : "slot0" \in held[p] \/ "slot1" \in held[p]
    BY <2>2 DEF Slots
  <2>6. \A p, q, r \in Proving : p = q \/ q = r \/ p = r
    BY <2>1, <2>2, <2>5
  <2>7. QED BY <2>4, <2>6
<1>2. QED BY <1>1, InductiveInvariant, PTL

(* As long as no reap has crossed another, the owner.json of a live        *)
(* process goes only by that process's own release.                        *)
THEOREM LiveOwnersKeepLocks == Spec => OwnersKeepLocks
<1> DEFINE KeepsLock(l) == LiveOwner(l) /\ file'[l] # file[l] => pc[file[l]] = "relUnlink"
<1>1. ASSUME IInv, [Next]_vars, ~crossed', NEW l \in Locks PROVE KeepsLock(l)
  <2>1. CASE UNCHANGED vars
    BY <2>1 DEF vars
  <2>2. ASSUME NEW p \in Proc, Start(p) \/ Step(p) \/ Timeout(p) \/ Crash(p) PROVE KeepsLock(l)
    <3>1. TypeOK /\ Ownership
      BY <1>1, <2>2, CrossedStays DEF IInv
    <3>2. CASE file' = file
      BY <3>2
    <3>3. CASE Unlink(p)
      <4>1. saw[p] \in Proc /\ ~Alive(saw[p]) /\ (file[at[p]] # None => dir[at[p]] = saw[p])
        BY <1>1, <3>1, <3>3 DEF Unlink, Ownership, ReapsTheDead
      <4>2. file[at[p]] # None => dir[at[p]] = file[at[p]]
        BY <3>1 DEF Ownership, OnDisk, TypeOK
      <4>3. QED BY <3>1, <3>3, <4>1, <4>2 DEF Unlink, LiveOwner, TypeOK
    <3>4. CASE Write(p)
      <4>1. dir[at[p]] = p
        BY <3>1, <3>4 DEF Write, Ownership, HeldIsMine, Taking, TypeOK
      <4>2. file[at[p]] # None => file[at[p]] = p
        BY <3>1, <4>1 DEF Ownership, OnDisk, TypeOK
      <4>3. QED BY <3>1, <3>4, <4>2 DEF Write, LiveOwner, TypeOK
    <3>5. CASE ReleaseUnlink(p)
      <4>1. file[at[p]] = p
        BY <3>1, <3>5 DEF ReleaseUnlink, Ownership, HeldIsMine, Freeing, TypeOK
      <4>2. QED BY <3>1, <3>5, <4>1 DEF ReleaseUnlink, TypeOK
    <3>6. file' = file \/ Unlink(p) \/ Write(p) \/ ReleaseUnlink(p)
      BY <2>2 DEF Step, Start, Wake, Timeout, NoExclusive, YieldToExclusive, ReapPending,
                  TryMkdir, TryBusy, TryDead, Rmdir, Remake, WriteFails, ReleaseRead,
                  ReleaseRmdir, Released, Finish, Crash, Die, disk
    <3>7. QED BY <3>2, <3>3, <3>4, <3>5, <3>6
  <2>3. QED BY <1>1, <2>1, <2>2 DEF Next
<1>2. IInv /\ [Next]_vars => [~crossed' => \A l \in Locks : KeepsLock(l)]_vars
  BY <1>1
<1>3. QED BY <1>2, InductiveInvariant, PTL DEF Spec, OwnersKeepLocks
=============================================================================
