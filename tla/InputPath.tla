------------------------------- MODULE InputPath -------------------------------
(***************************************************************************)
(* One server session with one client, from the user's hands to the        *)
(* client's virtual device:                                                *)
(*                                                                         *)
(*   user -> hook callbacks -> mpsc channel -> select loop of handle_peer  *)
(*        -> framed TCP stream -> client loop -> InputInject::handle       *)
(*                                                                         *)
(* The Windows hook callbacks decide whether the local OS gets an event;   *)
(* the select loop decides, later and from a fresh read of the same flag,  *)
(* whether the client gets it.  The module starts when both peers have     *)
(* finished the handshake and the hooks are installed.                     *)
(*                                                                         *)
(* A hook callback is one step: the grab flag is written only by the hook  *)
(* thread, so the two reads of the flag in a callback see one value, and   *)
(* the loop can only observe the event after try_send has queued it.       *)
(***************************************************************************)
EXTENDS Naturals, Sequences, FiniteSets, Functions

CONSTANTS
  Keys,       \* keyboard keys
  Buttons,    \* mouse buttons
  Motions,    \* mouse motion and wheel: events about nothing that is held
  Mods,       \* the modifiers of the hotkey: Ctrl, Alt, Shift
  HotKey,     \* the key that toggles the grab while Mods are down: G
  Mapped,     \* inputs the capture backend has a Message for
  ChanCap,    \* capacity of the capture channel (256 in the code)
  LinkCap,    \* messages the TCP connection holds before a send blocks
  MaxEvents   \* bound on the number of user events in a behaviour

Holdable == Keys \cup Buttons
Inputs == Holdable \cup Motions

ASSUME PathAssumption ==
  /\ Keys \cap Buttons = {} /\ Holdable \cap Motions = {}
  /\ Mods \subseteq Keys /\ HotKey \in Keys \ Mods
  /\ Mapped \subseteq Inputs
  /\ ChanCap \in Nat \ {0} /\ LinkCap \in Nat \ {0} /\ MaxEvents \in Nat

VARIABLES
  n,          \* number of user events so far
  phys,       \* keys and buttons the user holds down
  osDown,     \* keys and buttons the local OS believes to be down
  grabbed,    \* the shared AtomicBool of WinCapture
  chan,       \* the capture channel
  hand,       \* the message the loop is awaiting sink.send for: <<>> or <<m>>
  link,       \* messages written by the server and not yet read by the client
  remote,     \* keys and buttons the client's virtual device holds down
  server,     \* "loop", then "aborted" (loop left, hooks still there), "ended"
  client,     \* "up" or "gone"
  (* History, read by properties only. *)
  last,       \* id of the newest event the client has taken
  toggledAt,  \* id of the user event that last toggled the grab
  stranded,   \* inputs the client was left holding when the grab went off
  lossy       \* some event was dropped by a full channel or failed to inject

user == <<n, phys, osDown, grabbed, toggledAt>>
loop == <<chan, hand>>
far == <<link, remote, client, last>>
vars == <<user, loop, far, server, stranded, lossy>>

Event == [id : 1..MaxEvents, inp : Inputs, pressed : BOOLEAN, local : BOOLEAN]

\* The held inputs after one more event, as an OS or a uinput device keeps them.
Apply(e, down) ==
  IF e.inp \in Motions THEN down
  ELSE IF e.pressed THEN down \cup {e.inp}
  ELSE down \ {e.inp}

\* The held inputs after a queue of events has been applied to `down`.
After(q, down) ==
  {i \in Holdable :
     LET about == {k \in DOMAIN q : q[k].inp = i}
     IN  IF about = {} THEN i \in down
         ELSE \E k \in about : q[k].pressed /\ \A m \in about : m <= k}

\* What the client will hold once all the loop has decided to send is injected.
WillHold == After(link \o hand, remote)

TypeOK ==
  /\ n \in 0..MaxEvents
  /\ phys \in SUBSET Holdable
  /\ osDown \in SUBSET Holdable
  /\ grabbed \in BOOLEAN
  /\ chan \in Seq(Event) /\ Len(chan) <= ChanCap
  /\ hand \in Seq(Event) /\ Len(hand) <= 1
  /\ link \in Seq(Event) /\ Len(link) <= LinkCap
  /\ remote \in SUBSET Inputs
  /\ server \in {"loop", "aborted", "ended"}
  /\ client \in {"up", "gone"}
  /\ last \in 0..MaxEvents
  /\ toggledAt \in 0..MaxEvents
  /\ stranded \in SUBSET Inputs
  /\ lossy \in BOOLEAN

Init ==
  /\ n = 0
  /\ phys = {}
  /\ osDown = {}
  /\ grabbed = FALSE
  /\ chan = <<>>
  /\ hand = <<>>
  /\ link = <<>>
  /\ remote = {}
  /\ server = "loop"
  /\ client = "up"
  /\ last = 0
  /\ toggledAt = 0
  /\ stranded = {}
  /\ lossy = FALSE

-------------------------------------------------------------------------------
(* The hook thread. *)

\* The user presses i (or the key repeats), releases it, or moves the mouse.
\* The hooks see it as long as they are installed.
UserActs(i, pressed) ==
  /\ server # "ended"
  /\ n < MaxEvents
  /\ n' = n + 1
  /\ \/ i \in Keys /\ (pressed \/ i \in phys)
     \/ i \in Buttons /\ (pressed <=> i \notin phys)
     \/ i \in Motions /\ pressed
  /\ phys' = Apply([inp |-> i, pressed |-> pressed], phys)

\* read_current_modifiers: GetAsyncKeyState knows only the events the hooks
\* passed on.
ChordDown == Mods \subseteq osDown

\* The hotkey is recognised in the callback, toggles the flag, is swallowed
\* and never queued.  Every WM_KEYDOWN counts, those of a held key included.
KbdHotKey ==
  /\ UserActs(HotKey, TRUE)
  /\ ChordDown
  /\ grabbed' = ~grabbed
  /\ toggledAt' = n'
  /\ stranded' = IF grabbed THEN stranded \cup WillHold ELSE stranded
  /\ UNCHANGED <<osDown, loop, far, server, lossy>>

\* Mutants of TrySend: a channel without a bound, and one that silently
\* overwrites its oldest message when it is full.
TrySendUnboundedMutant(e) ==
  IF server = "loop" THEN chan' = Append(chan, e) /\ UNCHANGED lossy
  ELSE lossy' = TRUE /\ UNCHANGED chan
TrySendEvictingMutant(e) ==
  IF server = "loop"
  THEN /\ chan' = Append(IF Len(chan) < ChanCap THEN chan ELSE Tail(chan), e)
       /\ UNCHANGED lossy
  ELSE lossy' = TRUE /\ UNCHANGED chan

\* try_send: never blocks, drops the message if the channel is full (or its
\* receiver gone with the loop).
TrySend(e) ==
  IF server = "loop" /\ Len(chan) < ChanCap
  THEN chan' = Append(chan, e) /\ UNCHANGED lossy
  ELSE lossy' = TRUE /\ UNCHANGED chan

\* A mutant of Capture: releases are passed on to the local OS even while the
\* grab is on.
CapturePassesReleasesMutant(i, pressed) ==
  LET e == [id |-> n', inp |-> i, pressed |-> pressed, local |-> ~grabbed]
  IN  /\ IF i \in Mapped THEN TrySend(e) ELSE UNCHANGED <<chan, lossy>>
      /\ osDown' = IF grabbed /\ pressed THEN osDown ELSE Apply(e, osDown)
      /\ UNCHANGED <<grabbed, toggledAt, hand, far, server, stranded>>

\* The rest of both callbacks: queue the event if there is a Message for it,
\* then swallow it if the grab is on, else pass it to the local OS.
Capture(i, pressed) ==
  LET e == [id |-> n', inp |-> i, pressed |-> pressed, local |-> ~grabbed]
  IN  /\ IF i \in Mapped THEN TrySend(e) ELSE UNCHANGED <<chan, lossy>>
      /\ osDown' = IF grabbed THEN osDown ELSE Apply(e, osDown)
      /\ UNCHANGED <<grabbed, toggledAt, hand, far, server, stranded>>

KbdHook(k, pressed) ==
  /\ k \in Keys
  /\ ~(k = HotKey /\ pressed /\ ChordDown)
  /\ UserActs(k, pressed)
  /\ Capture(k, pressed)

MouseHook(i, pressed) ==
  /\ i \in Buttons \cup Motions
  /\ UserActs(i, pressed)
  /\ Capture(i, pressed)

-------------------------------------------------------------------------------
(* The select loop of handle_peer on the server. *)

\* Mutants of LoopRecv: it forwards without reading the flag, and it leaves the
\* channel alone while the grab is off.
LoopRecvUncheckedMutant ==
  /\ server = "loop" /\ hand = <<>> /\ chan # <<>>
  /\ chan' = Tail(chan)
  /\ hand' = <<Head(chan)>>
  /\ stranded' = stranded \ {Head(chan).inp}
  /\ UNCHANGED <<user, far, server, lossy>>
LoopRecvOnlyGrabbedMutant ==
  /\ server = "loop" /\ hand = <<>> /\ chan # <<>> /\ grabbed
  /\ chan' = Tail(chan)
  /\ hand' = <<Head(chan)>>
  /\ stranded' = stranded \ {Head(chan).inp}
  /\ UNCHANGED <<user, far, server, lossy>>

\* cap_rx.recv(): the flag, as it is now, decides whether the message is sent.
LoopRecv ==
  /\ server = "loop"
  /\ hand = <<>>
  /\ chan # <<>>
  /\ chan' = Tail(chan)
  /\ hand' = IF grabbed THEN <<Head(chan)>> ELSE <<>>
  /\ stranded' = IF grabbed THEN stranded \ {Head(chan).inp} ELSE stranded
  /\ UNCHANGED <<user, far, server, lossy>>

\* A mutant of LoopSend: a message that was sent may be sent again.
LoopSendRetriesMutant ==
  /\ server = "loop"
  /\ hand # <<>>
  /\ hand' \in {hand, <<>>}
  /\ IF client = "gone" THEN UNCHANGED link
     ELSE Len(link) < LinkCap /\ link' = Append(link, Head(hand))
  /\ UNCHANGED <<user, chan, remote, client, last, server, stranded, lossy>>

\* sink.send completes: the socket takes the frame.  It blocks while a live
\* client leaves the connection full; bytes for a dead one vanish.
LoopSend ==
  /\ server = "loop"
  /\ hand # <<>>
  /\ hand' = <<>>
  /\ IF client = "gone" THEN UNCHANGED link
     ELSE Len(link) < LinkCap /\ link' = Append(link, Head(hand))
  /\ UNCHANGED <<user, chan, remote, client, last, server, stranded, lossy>>

\* Both ways out of the loop end in cap_task.abort() and the return of
\* handle_peer, which drops the channel's receiver and the stream.
LeaveLoop ==
  /\ server = "loop"
  /\ server' = "aborted"
  /\ chan' = <<>>
  /\ hand' = <<>>
  /\ UNCHANGED <<user, far, stranded, lossy>>

\* sink.send returns an error.
LoopSendFails == client = "gone" /\ hand # <<>> /\ LeaveLoop

\* A mutant of LoopPeerClosed: the end of the stream is noticed only while the
\* grab is on.
LoopPeerClosedGrabbedMutant ==
  client = "gone" /\ hand = <<>> /\ grabbed /\ LeaveLoop

\* source.next() returns None or an error: polled only between two messages.
LoopPeerClosed == client = "gone" /\ hand = <<>> /\ LeaveLoop

\* The aborted capture task is dropped: WM_QUIT, join, hooks removed.
CaptureDropped ==
  /\ server = "aborted"
  /\ server' = "ended"
  /\ UNCHANGED <<user, loop, far, stranded, lossy>>

\* The server's process is killed; Windows removes its hooks and closes the
\* connection.
ServerKilled ==
  /\ server # "ended"
  /\ server' = "ended"
  /\ chan' = <<>>
  /\ hand' = <<>>
  /\ UNCHANGED <<user, far, stranded, lossy>>

-------------------------------------------------------------------------------
(* The client. *)

\* source.next() and inj.handle(&msg), which succeeds or is only logged.
Inject ==
  /\ client = "up"
  /\ link # <<>>
  /\ link' = Tail(link)
  /\ last' = Head(link).id
  /\ \/ remote' = Apply(Head(link), remote) /\ UNCHANGED lossy
     \/ UNCHANGED remote /\ lossy' = TRUE
  /\ UNCHANGED <<user, loop, server, client, stranded>>

\* The client's process ends and with it the virtual device.
ClientEnds ==
  /\ client = "up"
  /\ client' = "gone"
  /\ link' = <<>>
  /\ remote' = {}
  /\ UNCHANGED <<user, loop, last, server, stranded, lossy>>

\* It is killed, loses the connection or fails to decode a frame.
ClientDies == ClientEnds

\* A mutant of ClientEof: the loop ends and the device stays.
ClientEofKeepsDeviceMutant ==
  /\ server # "loop" /\ link = <<>> /\ client = "up"
  /\ client' = "gone"
  /\ UNCHANGED <<user, loop, link, remote, last, server, stranded, lossy>>

\* It reads the end of the stream the server closed.
ClientEof == server # "loop" /\ link = <<>> /\ ClientEnds

-------------------------------------------------------------------------------
Next ==
  \/ KbdHotKey
  \/ \E k \in Keys, pressed \in BOOLEAN : KbdHook(k, pressed)
  \/ \E i \in Buttons \cup Motions, pressed \in BOOLEAN : MouseHook(i, pressed)
  \/ LoopRecv
  \/ LoopSend
  \/ LoopSendFails
  \/ LoopPeerClosed
  \/ CaptureDropped
  \/ ServerKilled
  \/ Inject
  \/ ClientDies
  \/ ClientEof

\* The tasks run.  select! polls its branches in random order, so a branch
\* that is ready again and again is taken: strong fairness for LoopPeerClosed.
\* Nothing is assumed of the user or of an end that dies.
Fairness ==
  /\ WF_vars(LoopRecv)
  /\ WF_vars(LoopSend)
  /\ SF_vars(LoopPeerClosed)
  /\ WF_vars(CaptureDropped)
  /\ WF_vars(Inject)
  /\ WF_vars(ClientEof)

SafeSpec == Init /\ [][Next]_vars
Spec == SafeSpec /\ Fairness

-------------------------------------------------------------------------------
(* Properties. *)

\* While the grab is on the local OS still sees the modifiers of the hotkey
\* down: they were down when it went on, and since then every event has been
\* swallowed, the user letting go of them included.  So the next G, whatever
\* else the user does, always gives local control back, a blocked connection
\* notwithstanding - and no G can be typed on the client.
GrabKeepsChordDown == grabbed => ChordDown

\* Swallowing and forwarding are decided apart, by two threads.  For an event
\* captured since the last toggle they agree: exactly one machine gets it.
\* (The events still queued at a toggle go to both machines or to neither.)
ExactlyOneMachine ==
  [][LoopRecv /\ Head(chan).id > toggledAt
       => (hand' # <<>> <=> ~Head(chan).local)]_vars

\* A key or button the client holds, or will hold once all that was sent is
\* injected, is still held by the user or has its release in the channel,
\* with the grab on to let it through.  The only exceptions are what the
\* client held when the grab was turned off, and sessions that lost an event.
NoStuckInputs ==
  server = "loop" /\ client = "up" /\ ~lossy =>
    \A i \in WillHold \ stranded :
      /\ grabbed
      /\ i \in After(chan, WillHold) => i \in phys

\* The path implements the abstract relay: in order, at most once.
Relay == INSTANCE InputRelay WITH
  issued <- n,
  pending <- Range(chan) \cup Range(hand) \cup Range(link),
  held <- remote
RelaySpec == Relay!Spec

\* A client that is gone ends the session on the server: the hooks, and with
\* them the grab, do not outlive it.
ClientGoneEndsSession == client = "gone" ~> server = "ended"

\* A session that ends on the server, even by a crash with the grab on, leaves no
\* key or button held on the client.
SessionEndReleases == server = "ended" ~> remote = {}

\* No event stays in the queues for ever: it is injected or dropped.
Queued(id) ==
  \E e \in Range(chan) \cup Range(hand) \cup Range(link) : e.id = id
EveryEventSettles == \A id \in 1..MaxEvents : Queued(id) ~> ~Queued(id)

\* crates/dshare-input/src/windows.rs:250 and the README's "Press the same
\* hotkey again to release": the grab toggles when the user presses G while
\* holding the modifiers.  The code does not ensure it.
ToggleByChordPress ==
  [][grabbed' # grabbed => Mods \subseteq phys /\ HotKey \notin phys]_vars

===============================================================================
