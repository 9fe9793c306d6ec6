-------------------------------- MODULE Handshake --------------------------------
(***************************************************************************)
(* handle_peer from the accepted or connected stream to the end of the     *)
(* session, at both ends of one connection.  Each end sends its Hello,     *)
(* waits for the Hello of the other for at most five seconds, compares the *)
(* protocol versions, answers with a HelloAck and, if it accepts, goes on  *)
(* to its loop at once: nobody waits for the HelloAck of the other end,    *)
(* which its loop takes for an ordinary message and ignores.               *)
(*                                                                         *)
(* The code is the same at both ends up to the loops.  An end closes its   *)
(* stream when handle_peer returns or the process ends; the other end sees *)
(* that after the data sent before it, or loses that data to a reset.  A   *)
(* machine that loses its power or its network closes nothing.             *)
(***************************************************************************)
EXTENDS Naturals, Sequences

CONSTANTS
  Versions,   \* values PROTOCOL_VERSION has in the builds that meet
  MaxFrames   \* bound on the frames an end sends from its loop

ASSUME HandshakeAssumption == MaxFrames \in Nat

Ends == {"server", "client"}
Other(p) == IF p = "server" THEN "client" ELSE "server"

VARIABLES
  version,    \* PROTOCOL_VERSION at each end
  pc,         \* "start", "waiting" (for Hello), "accepting", "rejecting",
              \* "ready" (in its loop), "ended"
  inbox,      \* frames sent to an end that it has not read
  closed,     \* the ends whose stream was closed, as far as TCP can tell
  unacked,    \* the ends that have sent something TCP cannot deliver
  rejected,   \* history: the ends that have been sent a refusal
  frames      \* number of frames each end has sent from its loop

vars == <<version, pc, inbox, closed, unacked, rejected, frames>>

Frame == [kind : {"Hello"}, version : Versions]
         \cup [kind : {"HelloAck"}, accepted : BOOLEAN]
         \cup [kind : {"Data"}]

TypeOK ==
  /\ version \in [Ends -> Versions]
  /\ pc \in [Ends ->
       {"start", "waiting", "accepting", "rejecting", "ready", "ended"}]
  /\ inbox \in [Ends -> Seq(Frame)]
  /\ \A p \in Ends : Len(inbox[p]) <= MaxFrames + 2
  /\ closed \in SUBSET Ends
  /\ unacked \in SUBSET Ends
  /\ rejected \in SUBSET Ends
  /\ frames \in [Ends -> 0..MaxFrames]

Init ==
  /\ version \in [Ends -> Versions]
  /\ pc = [p \in Ends |-> "start"]
  /\ inbox = [p \in Ends |-> <<>>]
  /\ closed = {}
  /\ unacked = {}
  /\ rejected = {}
  /\ frames = [p \in Ends |-> 0]

-------------------------------------------------------------------------------
(* The connection. *)

\* A frame reaches the other end's socket, or nobody if that end is gone.
Send(p, frame) ==
  IF pc[Other(p)] = "ended"
  THEN unacked' = unacked \cup {p} /\ UNCHANGED inbox
  ELSE inbox' = [inbox EXCEPT ![Other(p)] = Append(@, frame)] /\ UNCHANGED unacked

\* handle_peer returns, or the process ends: the stream is closed.
Leave(p) ==
  /\ pc' = [pc EXCEPT ![p] = "ended"]
  /\ inbox' = [inbox EXCEPT ![p] = <<>>]
  /\ closed' = closed \cup {p}

\* The next read of end p returns None.
AtEof(p) == inbox[p] = <<>> /\ Other(p) \in closed

\* A write at end p can fail: the other end has closed the connection, or TCP
\* gives up on a machine that is gone.
CanFail(p) == pc[Other(p)] = "ended"

-------------------------------------------------------------------------------
(* The handshake. *)

\* A mutant of SendHello: it is sent again and again until there is an answer.
SendHelloRepeatsMutant(p) ==
  /\ pc[p] = "start"
  /\ pc' \in {pc, [pc EXCEPT ![p] = "waiting"]}
  /\ Send(p, [kind |-> "Hello", version |-> version[p]])
  /\ UNCHANGED <<version, closed, rejected, frames>>

SendHello(p) ==
  /\ pc[p] = "start"
  /\ pc' = [pc EXCEPT ![p] = "waiting"]
  /\ Send(p, [kind |-> "Hello", version |-> version[p]])
  /\ UNCHANGED <<version, closed, rejected, frames>>

\* A mutant of RecvHello: every version is accepted.
RecvHelloAnyMutant(p) ==
  /\ pc[p] = "waiting"
  /\ inbox[p] # <<>>
  /\ inbox' = [inbox EXCEPT ![p] = Tail(@)]
  /\ pc' = [pc EXCEPT ![p] = "accepting"]
  /\ UNCHANGED <<version, closed, unacked, rejected, frames>>

\* The other end's first frame, which is its Hello, in time; versions must be
\* equal.
RecvHello(p) ==
  /\ pc[p] = "waiting"
  /\ inbox[p] # <<>>
  /\ inbox' = [inbox EXCEPT ![p] = Tail(@)]
  /\ pc' = [pc EXCEPT ![p] =
       IF Head(inbox[p]).version = version[p] THEN "accepting" ELSE "rejecting"]
  /\ UNCHANGED <<version, closed, unacked, rejected, frames>>

\* A mutant of Timeout: the clock runs only once the other end has closed.
TimeoutAtEofMutant(p) ==
  pc[p] = "waiting" /\ AtEof(p) /\ Leave(p)
  /\ UNCHANGED <<version, unacked, rejected, frames>>

\* Five seconds have passed.  The other end's Hello may be under way, or be read by
\* nobody: the clock races it.
Timeout(p) ==
  pc[p] = "waiting" /\ Leave(p)
  /\ UNCHANGED <<version, unacked, rejected, frames>>

SendAccept(p) ==
  /\ pc[p] = "accepting"
  /\ pc' = [pc EXCEPT ![p] = "ready"]
  /\ Send(p, [kind |-> "HelloAck", accepted |-> TRUE])
  /\ UNCHANGED <<version, closed, rejected, frames>>

\* The refusal is sent if it can be, and the session ends in any case.
SendReject(p) ==
  /\ pc[p] = "rejecting"
  /\ pc' = [pc EXCEPT ![p] = "ended"]
  /\ inbox' = [inbox EXCEPT
       ![p] = <<>>,
       ![Other(p)] = IF pc[Other(p)] = "ended" THEN @
                     ELSE Append(@, [kind |-> "HelloAck", accepted |-> FALSE])]
  /\ closed' = closed \cup {p}
  /\ rejected' = rejected \cup {Other(p)}
  /\ UNCHANGED <<version, unacked, frames>>

\* A send of the handshake, or of the server's loop, returns an error.
SendFails(p) ==
  /\ pc[p] \in {"start", "accepting"} \/ (p = "server" /\ pc[p] = "ready")
  /\ CanFail(p)
  /\ Leave(p)
  /\ UNCHANGED <<version, unacked, rejected, frames>>

-------------------------------------------------------------------------------
(* The loops. *)

\* A mutant of SendData: the server forwards before it is ready.
SendDataEarlyMutant(p) ==
  /\ p = "server" /\ pc[p] # "ended"
  /\ frames[p] < MaxFrames
  /\ frames' = [frames EXCEPT ![p] = @ + 1]
  /\ Send(p, [kind |-> "Data"])
  /\ UNCHANGED <<version, pc, closed, rejected>>

\* The loop of the server sends an input event to the client.
SendData(p) ==
  /\ p = "server" /\ pc[p] = "ready"
  /\ frames[p] < MaxFrames
  /\ frames' = [frames EXCEPT ![p] = @ + 1]
  /\ Send(p, [kind |-> "Data"])
  /\ UNCHANGED <<version, pc, closed, rejected>>

\* A loop reads a frame.  A HelloAck, whatever it says, is passed over: the
\* server ignores every frame, the client's inject knows only input events.
RecvReady(p) ==
  /\ pc[p] = "ready"
  /\ inbox[p] # <<>>
  /\ inbox' = [inbox EXCEPT ![p] = Tail(@)]
  /\ UNCHANGED <<version, pc, closed, unacked, rejected, frames>>

\* A mutant of PeerClosed: only the handshake notices.
PeerClosedWaitingMutant(p) ==
  /\ pc[p] = "waiting"
  /\ AtEof(p)
  /\ Leave(p)
  /\ UNCHANGED <<version, unacked, rejected, frames>>

\* source.next() returns None: "peer disconnected", or the end of the while.
PeerClosed(p) ==
  /\ pc[p] \in {"waiting", "ready"}
  /\ AtEof(p)
  /\ Leave(p)
  /\ UNCHANGED <<version, unacked, rejected, frames>>

\* The connection is reset: an end that closes with frames unread may take what
\* it sent with it, and the read fails instead.
PeerReset(p) ==
  /\ pc[p] \in {"waiting", "ready"}
  /\ inbox[p] # <<>> /\ Other(p) \in closed
  /\ Leave(p)
  /\ UNCHANGED <<version, unacked, rejected, frames>>

\* The process is killed, or an end that is ready cannot create its capture or
\* inject backend and returns.
Killed(p) ==
  /\ pc[p] # "ended"
  /\ Leave(p)
  /\ UNCHANGED <<version, unacked, rejected, frames>>

\* What an end sent is never acknowledged, or answered with a reset: the
\* connection fails and the read with it.
GivesUp(p) ==
  /\ pc[p] \in {"waiting", "ready"}
  /\ p \in unacked
  /\ Leave(p)
  /\ UNCHANGED <<version, unacked, rejected, frames>>

\* The machine is gone, and nothing tells the other end.  Frames it has not read
\* may have been acknowledged or not.
Vanishes(p) ==
  /\ pc[p] # "ended"
  /\ pc' = [pc EXCEPT ![p] = "ended"]
  /\ inbox' = [inbox EXCEPT ![p] = <<>>]
  /\ \/ UNCHANGED unacked
     \/ inbox[p] # <<>> /\ unacked' = unacked \cup {Other(p)}
  /\ UNCHANGED <<version, closed, rejected, frames>>

-------------------------------------------------------------------------------
Step(p) ==
  \/ SendHello(p)
  \/ RecvHello(p)
  \/ Timeout(p)
  \/ SendAccept(p)
  \/ SendReject(p)
  \/ SendFails(p)
  \/ SendData(p)
  \/ RecvReady(p)
  \/ PeerClosed(p)
  \/ PeerReset(p)
  \/ GivesUp(p)
  \/ Killed(p)
  \/ Vanishes(p)

Next == \E p \in Ends : Step(p)

\* The tasks run and the clock ticks.  Nothing is assumed of kills and losses,
\* nor of what a loop has to send.
Fairness ==
  \A p \in Ends :
    /\ WF_vars(SendHello(p))
    /\ WF_vars(RecvHello(p))
    /\ WF_vars(Timeout(p))
    /\ WF_vars(SendAccept(p))
    /\ WF_vars(SendReject(p))
    /\ WF_vars(RecvReady(p))
    /\ WF_vars(PeerClosed(p))
    /\ WF_vars(GivesUp(p))

SafeSpec == Init /\ [][Next]_vars
Spec == SafeSpec /\ Fairness

-------------------------------------------------------------------------------
(* Properties. *)

\* Nobody waits for the other end's HelloAck, and yet an end that is in its loop
\* - for the server: with its hooks installed - has never been refused and will
\* not be: the two decide alike.
ReadyMeansAccepted ==
  \A p \in Ends : pc[p] \in {"accepting", "ready"} =>
    /\ version[Other(p)] = version[p]
    /\ p \notin rejected /\ pc[Other(p)] # "rejecting"

\* The first frame an end reads is the other end's Hello, although frames of the
\* other end's loop may already be queued behind it.
HelloComesFirst ==
  \A p \in Ends :
    /\ pc[p] \in {"start", "waiting"} /\ inbox[p] # <<>> => Head(inbox[p]).kind = "Hello"
    /\ pc[p] = "ready" => \A i \in DOMAIN inbox[p] : inbox[p][i].kind # "Hello"

\* The handshake comes to a decision at every end that starts it, even if the
\* machine at the other end vanishes without closing the connection.
HandshakeDecides == \A p \in Ends : pc[p] = "start" ~> pc[p] \in {"ready", "ended"}

\* An end whose partner closed the connection leaves its loop too.
ClosedEndsBoth == \A p \in Ends : p \in closed ~> pc[Other(p)] = "ended"

\* crates/dshare-protocol/src/lib.rs:52: Ping and Pong are the "Heartbeat for
\* liveness detection", by which an end would notice that the other one is gone.
\* The code never sends them.
LossIsNoticed == \A p \in Ends : pc[p] = "ended" ~> pc[Other(p)] = "ended"
===============================================================================
