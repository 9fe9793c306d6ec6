------------------------------ MODULE InputRelay ------------------------------
(***************************************************************************)
(* What the path from the capture hooks to the injecting client promises   *)
(* about input events, whatever the queues, tasks and sockets between the  *)
(* two ends do: the client applies user events one at a time, in the order *)
(* in which the user caused them, none of them twice.  Events may be lost  *)
(* at any point (a full channel, the grab turned off, a failed injection,  *)
(* the end of the session); they are never invented, repeated or reordered.*)
(* InputPath implements this specification.                                *)
(***************************************************************************)
EXTENDS Naturals

CONSTANTS
  Inputs,     \* keys, mouse buttons and motions an event can be about
  Motions,    \* the inputs that are not held down (mouse motion, wheel)
  MaxEvents   \* bound on the number of user events in a behaviour

VARIABLES
  issued,     \* number of events the user has caused so far
  pending,    \* the events on their way to the client
  last,       \* id of the newest event the client has taken
  held        \* the keys and buttons the client machine sees held down

vars == <<issued, pending, last, held>>

\* `local` records that the event also reached the machine of the user.
Event == [id : 1..MaxEvents, inp : Inputs, pressed : BOOLEAN, local : BOOLEAN]

\* The held keys of a machine that receives event e.
Apply(e, down) ==
  IF e.inp \in Motions THEN down
  ELSE IF e.pressed THEN down \cup {e.inp}
  ELSE down \ {e.inp}

TypeOK ==
  /\ issued \in 0..MaxEvents
  /\ pending \in SUBSET Event
  /\ last \in 0..MaxEvents
  /\ held \in SUBSET Inputs

Init ==
  /\ issued = 0
  /\ pending = {}
  /\ last = 0
  /\ held = {}

\* The user acts; the event enters the relay or is lost on entry.
Issue(e) ==
  /\ issued < MaxEvents
  /\ issued' = issued + 1
  /\ e.id = issued'
  /\ pending' \in {pending, pending \cup {e}}
  /\ UNCHANGED <<last, held>>

\* Events are lost on the way; a client that ends also lets its keys go.
Lose(lost) ==
  /\ pending' = pending \ lost
  /\ held' \in {held, {}}
  /\ UNCHANGED <<issued, last>>

\* The client takes the oldest event, and applies it or fails to.
Deliver(e) ==
  /\ \A f \in pending : e.id <= f.id
  /\ pending' = pending \ {e}
  /\ last' = e.id
  /\ held' \in {held, Apply(e, held)}
  /\ UNCHANGED issued

Next ==
  \/ \E e \in Event : Issue(e)
  \/ \E lost \in SUBSET pending : Lose(lost)
  \/ \E e \in pending : Deliver(e)

Spec == Init /\ [][Next]_vars

\* Everything on its way is newer than what the client has taken, all of it was
\* really caused by the user, and no two of them are the same user event.
InOrder ==
  /\ last <= issued
  /\ \A e \in pending : last < e.id /\ e.id <= issued
  /\ \A e, f \in pending : e.id = f.id => e = f

\* The client moves forward through the user's events: an event is never
\* applied after a newer one, and never twice.
NeverBackwards == [][last' # last => last' > last]_vars

===============================================================================
