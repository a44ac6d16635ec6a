----------------------------- MODULE StateFile -----------------------------
(***************************************************************************)
(* How the launch catalog's state file survives its users                  *)
(* (ci/control/orchestration_control.py: locked_state, atomic_json,        *)
(* flush_publications, and cmd_init, which writes outside the lock).       *)
(*                                                                         *)
(* A command is a process: it waits for the flock, reads the document,     *)
(* replays its outbox, runs its verb on the copy in memory, replaces the   *)
(* file and publishes the outbox again.  It may be killed between any two  *)
(* of these; the kernel then drops its lock.  What a verb does to the rows *)
(* is the subject of module Scheduler: here a document is the run it is    *)
(* about, how many verbs it went through and its outbox.                   *)
(*                                                                         *)
(* Published names hold a fresh uuid, so a file that exists is the one     *)
(* that was written for that entry.  os.replace is atomic; a temporary     *)
(* file that a killed command leaves is read by nobody.                    *)
(***************************************************************************)
EXTENDS Naturals

CONSTANTS
  Procs,      \* commands being run
  Chiefs,     \* who gets messages
  Event,      \* the addressee of events
  None,
  MaxRuns, MaxVerbs, MaxCrashes   \* bounds

ASSUME StateFileAssumption ==
  /\ None \notin Procs
  /\ Event \notin Chiefs
  /\ MaxRuns \in Nat /\ MaxVerbs \in Nat /\ MaxCrashes \in Nat

VARIABLES
  doc,        \* the state file
  lock,       \* holder of the flock
  pc, mem,    \* each command's progress and its copy of the document
  published,  \* the files under events/ and inbox/
  runs,       \* documents created so far
  raced,      \* was one created while a command held the lock
  crashes

vars == <<doc, lock, pc, mem, published, runs, raced, crashes>>

Pubs  == [run : Nat, verb : Nat, to : Chiefs \cup {Event}]
Docs  == [run : Nat, done : Nat, outbox : SUBSET Pubs]
NoDoc == [run |-> 0, done |-> 0, outbox |-> {}]

TypeOK ==
  /\ doc \in Docs
  /\ lock \in Procs \cup {None}
  /\ pc \in [Procs -> {"idle", "creating", "waiting", "replaying", "committing", "publishing"}]
  /\ mem \in [Procs -> Docs]
  /\ published \in SUBSET Pubs
  /\ runs \in Nat /\ crashes \in Nat
  /\ raced \in BOOLEAN

Init ==
  /\ doc = NoDoc /\ lock = None
  /\ pc = [p \in Procs |-> "idle"]
  /\ mem = [p \in Procs |-> NoDoc]
  /\ published = {} /\ runs = 0 /\ crashes = 0
  /\ raced = FALSE

Goto(p, label) == pc' = [pc EXCEPT ![p] = label]

(* The command ends, or dies: its lock goes with it.                       *)
Leave(p) ==
  /\ Goto(p, "idle")
  /\ mem' = [mem EXCEPT ![p] = NoDoc]
  /\ lock' = IF lock = p THEN None ELSE lock
  /\ UNCHANGED <<doc, published, runs, raced>>

Begin(p) ==
  /\ pc[p] = "idle"
  /\ Goto(p, "waiting")
  /\ UNCHANGED <<doc, lock, mem, published, runs, raced, crashes>>

(* `init`, without --force only if there is no state file.                 *)
BeginInit(p, force) ==
  /\ pc[p] = "idle" /\ runs < MaxRuns
  /\ doc = NoDoc \/ force
  /\ Goto(p, "creating")
  /\ UNCHANGED <<doc, lock, mem, published, runs, raced, crashes>>

(* The new document is written without the lock, after a check that may be *)
(* out of date.                                                            *)
Create(p) ==
  /\ pc[p] = "creating"
  /\ runs' = runs + 1
  /\ doc' = [run |-> runs', done |-> 0, outbox |-> {}]
  /\ raced' = (raced \/ lock # None)
  /\ Goto(p, "waiting")
  /\ UNCHANGED <<lock, mem, published, crashes>>

(* faulty variant: the flock is taken after the document is read *)
Faulty_Acquire(p) ==
  /\ pc[p] = "waiting" /\ doc # NoDoc
  /\ lock' = p
  /\ mem' = [mem EXCEPT ![p] = doc]
  /\ Goto(p, "replaying")
  /\ UNCHANGED <<doc, published, runs, raced, crashes>>

Acquire(p) ==
  /\ pc[p] = "waiting" /\ lock = None /\ doc # NoDoc
  /\ lock' = p
  /\ mem' = [mem EXCEPT ![p] = doc]
  /\ Goto(p, "replaying")
  /\ UNCHANGED <<doc, published, runs, raced, crashes>>

(* No state file to read.                                                  *)
Absent(p) ==
  /\ pc[p] = "waiting" /\ lock = None /\ doc = NoDoc
  /\ Leave(p)
  /\ UNCHANGED crashes

Missing(p) == mem[p].outbox \ published

(* faulty variant: announced before it is committed *)
Faulty_Flush(p) ==
  /\ pc[p] \in {"replaying", "committing", "publishing"}
  /\ \E x \in Missing(p) :
       /\ (\E y \in Missing(p) : y.to = Event) => x.to = Event
       /\ published' = published \cup {x}
  /\ UNCHANGED <<doc, lock, pc, mem, runs, raced, crashes>>

(* flush_publications writes what is missing in the order of the outbox:   *)
(* events first.                                                           *)
Flush(p) ==
  /\ pc[p] \in {"replaying", "publishing"}
  /\ \E x \in Missing(p) :
       /\ (\E y \in Missing(p) : y.to = Event) => x.to = Event
       /\ published' = published \cup {x}
  /\ UNCHANGED <<doc, lock, pc, mem, runs, raced, crashes>>

(* faulty variant: messages that were not delivered are forgotten *)
Faulty_Flushed(p) == \A x \in Missing(p) : x.to # Event

Flushed(p) == Missing(p) = {}

(* write_event, then notify for each chief with new work; `ready` writes   *)
(* neither.                                                                *)
NewEntries(r, v) ==
  {{}} \cup {[run : {r}, verb : {v}, to : {Event} \cup to] : to \in SUBSET Chiefs}

(* The verb runs on the copy, or refuses (the locked part of `init` is a   *)
(* verb like the others, though it never does).                            *)
Verb(p) ==
  /\ pc[p] = "replaying" /\ Flushed(p)
  /\ mem[p].done < MaxVerbs
  /\ \E new \in NewEntries(mem[p].run, mem[p].done + 1) :
       mem' = [mem EXCEPT ![p] = [run    |-> mem[p].run,
                                  done   |-> mem[p].done + 1,
                                  outbox |-> mem[p].outbox \cup new]]
  /\ Goto(p, "committing")
  /\ UNCHANGED <<doc, lock, published, runs, raced, crashes>>

Refuse(p) ==
  /\ pc[p] = "replaying" /\ Flushed(p)
  /\ Leave(p)
  /\ UNCHANGED crashes

(* atomic_json.                                                            *)
Commit(p) ==
  /\ pc[p] = "committing"
  /\ doc' = mem[p]
  /\ Goto(p, "publishing")
  /\ UNCHANGED <<lock, mem, published, runs, raced, crashes>>

Finish(p) ==
  /\ pc[p] = "publishing" /\ Flushed(p)
  /\ Leave(p)
  /\ UNCHANGED crashes

Crash(p) ==
  /\ pc[p] # "idle" /\ crashes < MaxCrashes
  /\ crashes' = crashes + 1
  /\ Leave(p)

Work(p) == Create(p) \/ Absent(p) \/ Flush(p) \/ Verb(p) \/ Refuse(p) \/ Commit(p) \/ Finish(p)

Next ==
  \E p \in Procs :
    \/ Begin(p)
    \/ \E force \in BOOLEAN : BeginInit(p, force)
    \/ Acquire(p)
    \/ Work(p)
    \/ Crash(p)

Spec == Init /\ [][Next]_vars

(* A command that runs goes on, the flock goes to one that waits for it,   *)
(* and commands keep being called.                                         *)
Fairness ==
  /\ \A p \in Procs : WF_vars(Work(p))
  /\ WF_vars(\E p \in Procs : Acquire(p))
  /\ WF_vars(\E p \in Procs : Begin(p))

FairSpec == Spec /\ Fairness

-----------------------------------------------------------------------------
(* Nothing is published before the commit it belongs to (docstring of      *)
(* flush_publications), as long as no `init` overtakes a running command.  *)
OnlyCommitted ==
  ~raced => \A x \in published : x.run = doc.run => x \in doc.outbox

Abstract == INSTANCE Publications
              WITH run <- doc.run, verbs <- doc.done, due <- doc.outbox \ published,
                   out <- {x \in published : x.run = doc.run}

(* Through every interleaving and crash the file and the directories       *)
(* beside it do what module Publications says: verbs take effect one at a  *)
(* time, none is lost, and one's announcements are complete, event first,  *)
(* before the next takes effect.                                           *)
Implements ==
  Abstract!Start /\ [][raced' \/ Abstract!PubNext]_(Abstract!pubVars)

(* What a killed command committed and did not publish, a later one        *)
(* publishes.                                                              *)
Repaired == []<>(raced \/ doc.outbox \subseteq published)
=============================================================================
