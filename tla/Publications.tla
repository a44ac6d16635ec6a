---------------------------- MODULE Publications ----------------------------
(***************************************************************************)
(* What the catalog's state file promises to everything that reads the     *)
(* directory beside it: commands take effect one after the other, each on  *)
(* the result of the one before; what a command announces (its event, and  *)
(* a message to each chief it made work for) is on disk only after the     *)
(* command took effect, the event before the messages, and all of it       *)
(* before the next command takes effect.                                   *)
(***************************************************************************)
EXTENDS Naturals

CONSTANTS Chiefs, Event

VARIABLES
  run,    \* number of the run the state file is about, 0 before any
  verbs,  \* commands that took effect in it
  due,    \* announcements of the last one that are not on disk
  out     \* announcements of the run that are

pubVars == <<run, verbs, due, out>>

(* What command v of run r announces: nothing (`ready`), or its event and  *)
(* messages to some chiefs.                                                *)
Announced(r, v, to) == [run : {r}, verb : {v}, to : to]
Announcements(r, v) ==
  {{}} \cup {Announced(r, v, {Event} \cup to) : to \in SUBSET Chiefs}

Start == run = 0 /\ verbs = 0 /\ due = {} /\ out = {}

NewRun ==
  /\ run' > run
  /\ verbs' = 0 /\ due' = {} /\ out' = {}

Take ==
  /\ run > 0 /\ due = {}
  /\ verbs' = verbs + 1
  /\ due' \in Announcements(run, verbs')
  /\ UNCHANGED <<run, out>>

Announce ==
  \E x \in due :
    /\ (\E y \in due : y.to = Event) => x.to = Event
    /\ due' = due \ {x}
    /\ out' = out \cup {x}
    /\ UNCHANGED <<run, verbs>>

PubNext == NewRun \/ Take \/ Announce

PubSpec == Start /\ [][PubNext]_pubVars
=============================================================================
