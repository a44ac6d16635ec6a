-------------------------- MODULE StateFile_proofs --------------------------
(***************************************************************************)
(* The state file implements module Publications for any number of         *)
(* commands, verbs, chiefs and crashes, until an `init` overtakes a        *)
(* command that holds the lock.                                            *)
(***************************************************************************)
EXTENDS StateFile, TLAPS

InLock == {"replaying", "committing", "publishing"}

(* The flock is held by the command that is between its read and its end.  *)
Holding == \A p \in Procs : pc[p] \in InLock <=> lock = p

(* Documents and published files belong to runs that were created.         *)
Fresh ==
  /\ doc = NoDoc \/ doc.run > 0
  /\ doc.run <= runs
  /\ \A x \in published : x.run <= runs
  /\ \A x \in doc.outbox : x.run = doc.run /\ x.verb <= doc.done

(* The holder's copy is the document, or one verb ahead of a document      *)
(* whose announcements are all out.                                        *)
Copies ==
  \A p \in Procs :
    /\ pc[p] \in {"replaying", "publishing"} => mem[p] = doc
    /\ pc[p] \in InLock => doc.run > 0
    /\ pc[p] = "committing" =>
         /\ mem[p].run = doc.run /\ mem[p].done = doc.done + 1
         /\ doc.outbox \subseteq published
         /\ \E new \in NewEntries(doc.run, doc.done + 1) : mem[p].outbox = doc.outbox \cup new

IInv == TypeOK /\ Holding /\ OnlyCommitted /\ (~raced => Fresh /\ Copies)

LEMMA Entering ==
  ASSUME NEW r \in Nat, NEW v \in Nat, NEW new \in NewEntries(r, v)
  PROVE  new \subseteq Pubs /\ \A x \in new : x.run = r /\ x.verb = v
<1>1. CASE new = {}
  BY <1>1
<1>2. ASSUME NEW to \in SUBSET Chiefs, new = [run : {r}, verb : {v}, to : {Event} \cup to]
      PROVE  new \subseteq Pubs /\ \A x \in new : x.run = r /\ x.verb = v
  BY <1>2 DEF Pubs
<1>3. QED BY <1>1, <1>2 DEF NewEntries

LEMMA TypeStep == ASSUME TypeOK, Next PROVE TypeOK'
<1> USE DEF TypeOK, Goto
<1>1. NoDoc \in Docs
  BY DEF NoDoc, Docs
<1>2. ASSUME NEW p \in Procs, Leave(p), crashes' \in Nat PROVE TypeOK'
  BY <1>1, <1>2 DEF Leave
<1>3. ASSUME NEW p \in Procs,
             \/ Begin(p) \/ \E force \in BOOLEAN : BeginInit(p, force)
             \/ Acquire(p) \/ Work(p) \/ Crash(p)
      PROVE  TypeOK'
  <2>1. CASE Begin(p)
    BY <2>1 DEF Begin
  <2>2. CASE \E force \in BOOLEAN : BeginInit(p, force)
    BY <2>2 DEF BeginInit
  <2>3. CASE Acquire(p)
    BY <2>3 DEF Acquire
  <2>4. CASE Create(p)
    <3>1. doc' \in Docs
      BY <2>4 DEF Create, Docs
    <3>2. QED BY <2>4, <3>1 DEF Create
  <2>5. CASE Absent(p) \/ Refuse(p) \/ Finish(p) \/ Crash(p)
    BY <1>2, <2>5 DEF Absent, Refuse, Finish, Crash
  <2>6. CASE Flush(p)
    <3>1. Missing(p) \subseteq Pubs
      BY DEF Missing, Docs
    <3>2. QED BY <2>6, <3>1 DEF Flush
  <2>7. CASE Verb(p)
    <3>1. PICK new \in NewEntries(mem[p].run, mem[p].done + 1) :
            mem' = [mem EXCEPT ![p] = [run    |-> mem[p].run,
                                       done   |-> mem[p].done + 1,
                                       outbox |-> mem[p].outbox \cup new]]
      BY <2>7 DEF Verb
    <3>2. mem[p].run \in Nat /\ mem[p].done + 1 \in Nat /\ mem[p].outbox \subseteq Pubs
      BY DEF Docs
    <3>3. new \subseteq Pubs
      BY <3>2, Entering
    <3>4. [run |-> mem[p].run, done |-> mem[p].done + 1, outbox |-> mem[p].outbox \cup new] \in Docs
      BY <3>2, <3>3 DEF Docs
    <3>5. QED BY <2>7, <3>1, <3>4 DEF Verb
  <2>8. CASE Commit(p)
    BY <2>8 DEF Commit
  <2>9. QED BY <1>3, <2>1, <2>2, <2>3, <2>4, <2>5, <2>6, <2>7, <2>8 DEF Work
<1>4. QED BY <1>3 DEF Next

-----------------------------------------------------------------------------
LEMMA HoldingStep == ASSUME TypeOK, Holding, Next PROVE Holding'
<1> USE StateFileAssumption DEF TypeOK, Holding, Goto, InLock
<1>1. ASSUME NEW p \in Procs, Leave(p) PROVE Holding'
  BY <1>1 DEF Leave
<1>2. ASSUME NEW p \in Procs,
             \/ Begin(p) \/ \E force \in BOOLEAN : BeginInit(p, force)
             \/ Acquire(p) \/ Work(p) \/ Crash(p)
      PROVE  Holding'
  <2>1. CASE Begin(p) \/ \E force \in BOOLEAN : BeginInit(p, force)
    BY <1>2, <2>1 DEF Begin, BeginInit
  <2>2. CASE Acquire(p)
    BY <2>2 DEF Acquire
  <2>3. CASE Create(p) \/ Verb(p) \/ Commit(p)
    BY <2>3 DEF Create, Verb, Commit
  <2>4. CASE Absent(p) \/ Refuse(p) \/ Finish(p) \/ Crash(p)
    BY <1>1, <2>4 DEF Absent, Refuse, Finish, Crash
  <2>5. CASE Flush(p)
    BY <2>5 DEF Flush
  <2>6. QED BY <1>2, <2>1, <2>2, <2>3, <2>4, <2>5 DEF Work
<1>3. QED BY <1>2 DEF Next

-----------------------------------------------------------------------------
(* One step: the strengthening holds after it, and the abstract state      *)
(* moves as module Publications allows or stays.                           *)
Mapped == Abstract!PubNext \/ UNCHANGED Abstract!pubVars

Kept   == OnlyCommitted /\ Fresh /\ Copies

LEMMA Step ==
  ASSUME IInv, TypeOK', Holding', Next, ~raced'
  PROVE  Kept' /\ Mapped
<1>1. ~raced /\ TypeOK /\ Holding /\ OnlyCommitted /\ Fresh /\ Copies
  <2>1. TypeOK
    BY DEF IInv
  <2>2. raced' = raced \/ raced' = (raced \/ lock # None)
    BY DEF Next, Begin, BeginInit, Acquire, Work, Create, Absent, Leave, Flush, Verb, Refuse,
           Commit, Finish, Crash
  <2>3. ~raced
    BY <2>1, <2>2 DEF TypeOK
  <2>4. QED BY <2>3 DEF IInv
<1>2. ASSUME doc' = doc, published' = published PROVE Mapped /\ OnlyCommitted'
  BY <1>1, <1>2 DEF Mapped, Abstract!pubVars, OnlyCommitted
<1>3. ASSUME doc' = doc, published' = published, runs' = runs PROVE Fresh'
  BY <1>1, <1>3 DEF Fresh
<1>4. \A q \in Procs : (pc[q] \in InLock => lock = q) /\ (pc'[q] \in InLock => lock' = q)
  BY <1>1 DEF Holding
<1>5. StateFileAssumption /\ \A q \in Procs : q # None
  BY StateFileAssumption DEF StateFileAssumption
(* Only the holder's copy is spoken of.                                    *)
<1>6. ASSUME NEW p \in Procs, lock' = p,
             pc'[p] \in {"replaying", "publishing"} => mem'[p] = doc',
             doc'.run > 0,
             pc'[p] = "committing" =>
               /\ mem'[p].run = doc'.run /\ mem'[p].done = doc'.done + 1
               /\ doc'.outbox \subseteq published'
               /\ \E new \in NewEntries(doc'.run, doc'.done + 1) : mem'[p].outbox = doc'.outbox \cup new
      PROVE  Copies'
  BY <1>4, <1>6 DEF Copies, InLock
<1>7. ASSUME NEW p \in Procs, doc' = doc, published' = published, pc'[p] \notin InLock,
             \A q \in Procs \ {p} : pc'[q] = pc[q] /\ mem'[q] = mem[q]
      PROVE  Copies'
  BY <1>1, <1>7 DEF Copies, InLock
<1>8. ASSUME NEW p \in Procs, Leave(p) PROVE Kept' /\ Mapped
  <2>1. /\ doc' = doc /\ published' = published /\ runs' = runs /\ pc'[p] \notin InLock
        /\ \A q \in Procs \ {p} : pc'[q] = pc[q] /\ mem'[q] = mem[q]
    BY <1>1, <1>8 DEF Leave, Goto, TypeOK, InLock
  <2>2. QED BY <1>2, <1>3, <1>7, <2>1 DEF Kept
<1>9. ASSUME NEW p \in Procs,
             \/ Begin(p) \/ \E force \in BOOLEAN : BeginInit(p, force)
             \/ Acquire(p) \/ Work(p) \/ Crash(p)
      PROVE  Kept' /\ Mapped
  <2>1. CASE Begin(p) \/ \E force \in BOOLEAN : BeginInit(p, force)
    <3>1. /\ doc' = doc /\ published' = published /\ runs' = runs /\ pc'[p] \notin InLock
          /\ \A q \in Procs \ {p} : pc'[q] = pc[q] /\ mem'[q] = mem[q]
      BY <1>1, <2>1 DEF Begin, BeginInit, Goto, TypeOK, InLock
    <3>2. QED BY <1>2, <1>3, <1>7, <3>1 DEF Kept
  <2>2. CASE Acquire(p)
    <3>1. /\ doc' = doc /\ published' = published /\ runs' = runs
          /\ lock' = p /\ pc'[p] = "replaying" /\ mem'[p] = doc /\ doc.run > 0
      BY <1>1, <2>2 DEF Acquire, Goto, TypeOK, Fresh
    <3>2. Copies'
      BY <1>6, <3>1
    <3>3. QED BY <1>2, <1>3, <3>1, <3>2 DEF Kept
  <2>3. CASE Create(p)
    <3>1. /\ runs' = runs + 1 /\ doc'.run = runs + 1 /\ doc'.done = 0 /\ doc'.outbox = {}
          /\ published' = published /\ lock = None /\ lock' = None
      BY <1>1, <2>3 DEF Create
    <3>2. doc.run \in Nat /\ runs \in Nat /\ \A x \in published : x.run \in Nat
      BY <1>1 DEF TypeOK, Docs, Pubs
    <3>3. Fresh'
      BY <1>1, <3>1, <3>2 DEF Fresh
    <3>4. \A x \in published' : x.run # doc'.run
      BY <1>1, <3>1, <3>2 DEF Fresh
    <3>5. OnlyCommitted'
      BY <3>4 DEF OnlyCommitted
    <3>6. Copies'
      BY <1>4, <1>5, <3>1 DEF Copies, InLock
    <3>7. doc'.run > doc.run
      BY <1>1, <3>1, <3>2 DEF Fresh
    <3>8. (doc.outbox \ published)' = {} /\ {x \in published : x.run = doc.run}' = {}
      BY <3>1, <3>4
    <3>9. Abstract!NewRun
      BY <3>1, <3>7, <3>8 DEF Abstract!NewRun
    <3>10. QED BY <3>3, <3>5, <3>6, <3>9 DEF Kept, Mapped, Abstract!PubNext
  <2>4. CASE Absent(p) \/ Refuse(p) \/ Finish(p) \/ Crash(p)
    BY <1>8, <2>4 DEF Absent, Refuse, Finish, Crash
  <2>5. CASE Flush(p)
    <3>1. mem[p] = doc /\ doc.run > 0 /\ lock = p
      BY <1>1, <1>4, <2>5 DEF Flush, Copies, InLock
    <3>2. PICK x \in doc.outbox \ published :
             /\ (\E y \in doc.outbox \ published : y.to = Event) => x.to = Event
             /\ published' = published \cup {x}
      BY <2>5, <3>1 DEF Flush, Missing
    <3>3. doc' = doc /\ runs' = runs /\ lock' = p /\ mem'[p] = mem[p]
          /\ pc'[p] \in {"replaying", "publishing"}
      BY <2>5, <3>1 DEF Flush
    <3>4. x.run = doc.run
      BY <1>1, <3>2 DEF Fresh
    <3>5. Fresh' /\ OnlyCommitted'
      BY <1>1, <3>2, <3>3, <3>4 DEF Fresh, OnlyCommitted
    <3>6. Copies'
      BY <1>6, <3>1, <3>3
    <3>7. Abstract!Announce
      <4>1. (doc.outbox \ published)' = (doc.outbox \ published) \ {x}
        BY <3>2, <3>3
      <4>2. {y \in published : y.run = doc.run}' = {y \in published : y.run = doc.run} \cup {x}
        BY <3>2, <3>3, <3>4
      <4>3. QED BY <3>2, <3>3, <4>1, <4>2 DEF Abstract!Announce
    <3>8. QED BY <3>5, <3>6, <3>7 DEF Kept, Mapped, Abstract!PubNext
  <2>6. CASE Verb(p)
    <3>1. mem[p] = doc /\ doc.run > 0 /\ lock = p
      BY <1>1, <1>4, <2>6 DEF Verb, Copies, InLock
    <3>2. PICK new \in NewEntries(doc.run, doc.done + 1) :
             mem' = [mem EXCEPT ![p] = [run    |-> doc.run,
                                        done   |-> doc.done + 1,
                                        outbox |-> doc.outbox \cup new]]
      BY <2>6, <3>1 DEF Verb
    <3>3. /\ doc' = doc /\ published' = published /\ runs' = runs /\ lock' = p
          /\ pc'[p] = "committing" /\ doc.outbox \subseteq published
      BY <1>1, <2>6, <3>1 DEF Verb, Goto, TypeOK, Flushed, Missing
    <3>4. mem'[p].run = doc.run /\ mem'[p].done = doc.done + 1 /\ mem'[p].outbox = doc.outbox \cup new
      BY <1>1, <3>2 DEF TypeOK
    <3>5. Copies'
      BY <1>6, <3>1, <3>3, <3>4
    <3>6. QED BY <1>2, <1>3, <3>3, <3>5 DEF Kept
  <2>7. CASE Commit(p)
    <3>1. /\ mem[p].run = doc.run /\ mem[p].done = doc.done + 1 /\ doc.outbox \subseteq published
          /\ doc.run > 0 /\ lock = p
      BY <1>1, <1>4, <2>7 DEF Commit, Copies, InLock
    <3>2. PICK new \in NewEntries(doc.run, doc.done + 1) : mem[p].outbox = doc.outbox \cup new
      BY <1>1, <2>7 DEF Commit, Copies, InLock
    <3>3. /\ doc' = mem[p] /\ published' = published /\ runs' = runs /\ lock' = p
          /\ pc'[p] = "publishing" /\ mem'[p] = mem[p]
      BY <1>1, <2>7, <3>1 DEF Commit, Goto, TypeOK
    <3>4. doc.run \in Nat /\ doc.done \in Nat /\ \A x \in doc.outbox : x.verb \in Nat
      BY <1>1 DEF TypeOK, Docs, Pubs
    <3>5. \A x \in new : x.run = doc.run /\ x.verb = doc.done + 1
      BY <3>4, Entering
    <3>6. Fresh'
      BY <1>1, <3>1, <3>2, <3>3, <3>4, <3>5 DEF Fresh
    <3>7. OnlyCommitted'
      BY <1>1, <3>1, <3>2, <3>3 DEF OnlyCommitted
    <3>8. Copies'
      BY <1>6, <3>1, <3>3
    <3>9. \A x \in new : x \notin published
      BY <1>1, <3>4, <3>5 DEF OnlyCommitted, Fresh
    <3>10. doc.outbox \ published = {} /\ (doc.outbox \ published)' = new
      BY <3>1, <3>2, <3>3, <3>9
    <3>11. {x \in published : x.run = doc.run}' = {x \in published : x.run = doc.run}
      BY <3>1, <3>3
    <3>12. Abstract!Take
      <4>1. doc'.run = doc.run /\ doc'.done = doc.done + 1
        BY <3>1, <3>3
      <4>2. new \in Abstract!Announcements(doc.run, doc.done + 1)
        BY DEF NewEntries, Abstract!Announcements, Abstract!Announced
      <4>3. QED BY <3>1, <3>10, <3>11, <4>1, <4>2 DEF Abstract!Take
    <3>13. QED BY <3>6, <3>7, <3>8, <3>12 DEF Kept, Mapped, Abstract!PubNext
  <2>8. QED BY <1>9, <2>1, <2>2, <2>3, <2>4, <2>5, <2>6, <2>7 DEF Work
<1>10. QED BY <1>9 DEF Next

-----------------------------------------------------------------------------
LEMMA Inductively == IInv /\ [Next]_vars => IInv' /\ (raced' \/ Mapped)
<1> SUFFICES ASSUME IInv, [Next]_vars PROVE IInv' /\ (raced' \/ Mapped)
  OBVIOUS
<1>1. CASE Next
  <2>1. TypeOK' /\ Holding'
    BY <1>1, TypeStep, HoldingStep DEF IInv
  <2>2. CASE raced'
    BY <2>1, <2>2 DEF IInv, OnlyCommitted
  <2>3. CASE ~raced'
    BY <1>1, <2>1, <2>3, Step DEF IInv, Kept
  <2>4. QED BY <2>2, <2>3
<1>2. CASE UNCHANGED vars
  BY <1>2 DEF vars, IInv, TypeOK, Holding, OnlyCommitted, Fresh, Copies, Mapped, Abstract!pubVars
<1>3. QED BY <1>1, <1>2

LEMMA Initially == Init => IInv /\ Abstract!Start
<1> SUFFICES ASSUME Init PROVE IInv /\ Abstract!Start
  OBVIOUS
<1> USE StateFileAssumption
<1>1. NoDoc \in Docs
  BY DEF NoDoc, Docs
<1>2. TypeOK
  BY <1>1 DEF Init, TypeOK
<1>3. Holding /\ OnlyCommitted /\ Copies
  BY DEF Init, Holding, OnlyCommitted, Copies, InLock
<1>4. Fresh
  BY DEF Init, Fresh, NoDoc
<1>5. Abstract!Start
  BY DEF Init, NoDoc, Abstract!Start
<1>6. QED BY <1>2, <1>3, <1>4, <1>5 DEF IInv

LEMMA Invariance == Spec => []IInv
<1>1. Init => IInv
  BY Initially
<1>2. IInv /\ [Next]_vars => IInv'
  BY Inductively
<1>3. QED BY <1>1, <1>2, PTL DEF Spec

(* The document, the copies and the published files keep their types.      *)
THEOREM StateFileTypeOK == Spec => []TypeOK
<1>1. IInv => TypeOK
  BY DEF IInv
<1>2. QED BY <1>1, Invariance, PTL

(* An event or message is never on disk without the commit it announces.   *)
THEOREM CommittedBeforePublished == Spec => []OnlyCommitted
<1>1. IInv => OnlyCommitted
  BY DEF IInv
<1>2. QED BY <1>1, Invariance, PTL

(* The state file implements module Publications.                          *)
THEOREM StateFileImplements == Spec => Implements
<1>1. Init => Abstract!Start
  BY Initially
<1>2. IInv /\ [Next]_vars => [raced' \/ Abstract!PubNext]_(Abstract!pubVars)
  BY Inductively DEF Mapped
<1>3. QED BY <1>1, <1>2, Invariance, PTL DEF Spec, Implements
=============================================================================
