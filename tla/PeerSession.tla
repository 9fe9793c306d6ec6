------------------------------ MODULE PeerSession -------------------------------
(***************************************************************************)
(* PeerSession::spawn at both ends of one connection.  A session is two    *)
(* tasks on the halves of one framed stream: the reader takes frames and   *)
(* awaits room for them in the owner's inbound channel, the writer takes   *)
(* messages from the bounded outbound channel and awaits room in the       *)
(* stream.  They know nothing of each other: each ends for reasons of its  *)
(* own, and the socket is closed when both have ended.                     *)
(*                                                                         *)
(* The daemon does not use PeerSession; its owners are modelled as the     *)
(* type allows: they send, receive and drop their two channels at will.    *)
(***************************************************************************)
EXTENDS Naturals, Sequences

CONSTANTS
  OutCap,     \* capacity of the outbound channel (256 in the code)
  InCap,      \* capacity of the owner's inbound channel
  LinkCap,    \* frames the stream takes before a write has to wait
  MaxMsgs,    \* bounds on the messages each owner sends
  MaxTotal    \* bound on the messages they send together

Ends == {"dialer", "acceptor"}
Other(e) == IF e = "dialer" THEN "acceptor" ELSE "dialer"

ASSUME PeerAssumption ==
  /\ OutCap \in Nat \ {0} /\ InCap \in Nat \ {0} /\ LinkCap \in Nat \ {0}
  /\ MaxMsgs \in [Ends -> Nat] /\ MaxTotal \in Nat

\* A "large" message is above the encoder's limit, an "unknown" one belongs to
\* a build the other end is not.
Message == [n : UNION {1..MaxMsgs[e] : e \in Ends}, kind : {"plain", "large", "unknown"}]

VARIABLES
  holdsTx,    \* the ends whose owner has not dropped the outbound sender
  holdsRx,    \* the ends whose owner has not dropped the inbound receiver
  outbound,   \* the outbound channels; what an ended writer left is lost
  writing,    \* the message a writer has taken, or is stuck on: at most one
  writeTask,  \* "runs", "drained", "refused", "failed" or "killed"
  link,       \* frames written by an end that the other has not read
  broken,     \* the ends whose side of the connection was reset
  readTask,   \* "runs", "eof", "failed", "unheard" or "killed"
  reading,    \* the message a reader has taken but not forwarded: at most one
  inbound,    \* the inbound channels
  (* History, read by properties only. *)
  accepted,   \* what the outbound channels have accepted
  received    \* what the owners have received

channels == <<holdsTx, holdsRx, accepted, received>>
writers == <<outbound, writing, writeTask>>
readers == <<readTask, reading, inbound>>
peerVars == <<channels, writers, readers, link, broken>>

AtMost(k) == {q \in Seq(Message) : Len(q) <= k}

PeerTypeOK ==
  /\ holdsTx \subseteq Ends /\ holdsRx \subseteq Ends /\ broken \subseteq Ends
  /\ outbound \in [Ends -> AtMost(OutCap)]
  /\ link \in [Ends -> AtMost(LinkCap)]
  /\ inbound \in [Ends -> AtMost(InCap)]
  /\ writing \in [Ends -> AtMost(1)] /\ reading \in [Ends -> AtMost(1)]
  /\ writeTask \in [Ends -> {"runs", "drained", "refused", "failed", "killed"}]
  /\ readTask \in [Ends -> {"runs", "eof", "failed", "unheard", "killed"}]
  /\ accepted \in [Ends -> Seq(Message)] /\ received \in [Ends -> Seq(Message)]
  /\ \A e \in Ends : Len(accepted[e]) <= MaxMsgs[e] /\ Len(received[e]) <= MaxMsgs[Other(e)]

Nothing == [e \in Ends |-> <<>>]

PeerInit ==
  /\ holdsTx = Ends /\ holdsRx = Ends
  /\ outbound = Nothing /\ writing = Nothing
  /\ writeTask = [e \in Ends |-> "runs"]
  /\ link = Nothing /\ broken = {}
  /\ readTask = [e \in Ends |-> "runs"]
  /\ reading = Nothing /\ inbound = Nothing
  /\ accepted = Nothing /\ received = Nothing

\* The stream is closed when both of its halves have been dropped.
Closed(e) == readTask[e] # "runs" /\ writeTask[e] # "runs"

-------------------------------------------------------------------------------
(* The owners. *)

\* outbound.send has accepted a message: there was room and a writer.
OwnerSends(e, kind) ==
  /\ e \in holdsTx /\ writeTask[e] = "runs"
  /\ Len(outbound[e]) < OutCap
  /\ Len(accepted[e]) < MaxMsgs[e] /\ Len(accepted[e] \o accepted[Other(e)]) < MaxTotal
  /\ LET m == [n |-> Len(accepted[e]) + 1, kind |-> kind]
     IN  /\ outbound' = [outbound EXCEPT ![e] = Append(@, m)]
         /\ accepted' = [accepted EXCEPT ![e] = Append(@, m)]
  /\ UNCHANGED <<holdsTx, holdsRx, received, writing, writeTask, readers, link, broken>>

OwnerReceives(e) ==
  /\ e \in holdsRx /\ inbound[e] # <<>>
  /\ received' = [received EXCEPT ![e] = Append(@, Head(inbound[e]))]
  /\ inbound' = [inbound EXCEPT ![e] = Tail(@)]
  /\ UNCHANGED <<holdsTx, holdsRx, accepted, writers, readTask, reading, link, broken>>

DropsOutbound(e) ==
  /\ e \in holdsTx
  /\ holdsTx' = holdsTx \ {e}
  /\ UNCHANGED <<holdsRx, accepted, received, writers, readers, link, broken>>

DropsInbound(e) ==
  /\ e \in holdsRx
  /\ holdsRx' = holdsRx \ {e}
  /\ inbound' = [inbound EXCEPT ![e] = <<>>]
  /\ UNCHANGED <<holdsTx, accepted, received, writers, readTask, reading, link, broken>>

-------------------------------------------------------------------------------
(* The write task. *)

\* A mutant of WriterTakes: what is left when the sender is dropped stays.
WriterTakesHeldMutant(e) ==
  /\ writeTask[e] = "runs" /\ writing[e] = <<>> /\ outbound[e] # <<>> /\ e \in holdsTx
  /\ writing' = [writing EXCEPT ![e] = <<Head(outbound[e])>>]
  /\ outbound' = [outbound EXCEPT ![e] = Tail(@)]
  /\ UNCHANGED <<channels, writeTask, readers, link, broken>>

\* rx.recv returns a message, also after the sender was dropped.
WriterTakes(e) ==
  /\ writeTask[e] = "runs" /\ writing[e] = <<>> /\ outbound[e] # <<>>
  /\ writing' = [writing EXCEPT ![e] = <<Head(outbound[e])>>]
  /\ outbound' = [outbound EXCEPT ![e] = Tail(@)]
  /\ UNCHANGED <<channels, writeTask, readers, link, broken>>

\* sink.send has encoded and flushed it.
WriterWrites(e) ==
  /\ writeTask[e] = "runs" /\ writing[e] # <<>> /\ e \notin broken
  /\ Head(writing[e]).kind # "large" /\ Len(link[e]) < LinkCap
  /\ link' = [link EXCEPT ![e] = Append(@, Head(writing[e]))]
  /\ writing' = [writing EXCEPT ![e] = <<>>]
  /\ UNCHANGED <<channels, outbound, writeTask, readers, broken>>

WriterEndsAs(e, how) ==
  /\ writeTask' = [writeTask EXCEPT ![e] = how]
  /\ UNCHANGED <<channels, outbound, writing, readers, link, broken>>

\* A mutant of WriterRefused: the message is logged and skipped.
WriterRefusedSkipsMutant(e) ==
  /\ writeTask[e] = "runs" /\ writing[e] # <<>>
  /\ Head(writing[e]).kind = "large"
  /\ writing' = [writing EXCEPT ![e] = <<>>]
  /\ UNCHANGED <<channels, outbound, writeTask, readers, link, broken>>

WriterRefused(e) ==
  /\ writeTask[e] = "runs" /\ writing[e] # <<>>
  /\ Head(writing[e]).kind = "large"
  /\ WriterEndsAs(e, "refused")

\* A mutant of WriterFails: an error is logged and the message tried again.
WriterFailsRetriesMutant(e) ==
  /\ writeTask[e] = "runs" /\ writing[e] # <<>> /\ e \in broken
  /\ UNCHANGED peerVars

WriterFails(e) ==
  /\ writeTask[e] = "runs" /\ writing[e] # <<>> /\ e \in broken
  /\ WriterEndsAs(e, "failed")

\* A mutant of WriterDrained: dropping the sender stops the writer at once.
WriterDrainedAtOnceMutant(e) ==
  /\ writeTask[e] = "runs" /\ writing[e] = <<>>
  /\ e \notin holdsTx
  /\ WriterEndsAs(e, "drained")

\* rx.recv returns None: the sender is gone and the channel is empty.
WriterDrained(e) ==
  /\ writeTask[e] = "runs" /\ writing[e] = <<>>
  /\ e \notin holdsTx /\ outbound[e] = <<>>
  /\ WriterEndsAs(e, "drained")

-------------------------------------------------------------------------------
(* The read task. *)

ReaderTakes(e) ==
  /\ readTask[e] = "runs" /\ reading[e] = <<>> /\ link[Other(e)] # <<>>
  /\ link' = [link EXCEPT ![Other(e)] = Tail(@)]
  /\ IF Head(link[Other(e)]).kind = "unknown"   \* a decode error
     THEN readTask' = [readTask EXCEPT ![e] = "failed"] /\ UNCHANGED reading
     ELSE reading' = [reading EXCEPT ![e] = <<Head(link[Other(e)])>>]
          /\ UNCHANGED readTask
  /\ UNCHANGED <<channels, writers, inbound, broken>>

\* A mutant of ReaderForwards: it does not wait for room in the channel.
ReaderForwardsUnboundedMutant(e) ==
  /\ readTask[e] = "runs" /\ reading[e] # <<>> /\ e \in holdsRx
  /\ inbound' = [inbound EXCEPT ![e] = Append(@, Head(reading[e]))]
  /\ reading' = [reading EXCEPT ![e] = <<>>]
  /\ UNCHANGED <<channels, writers, readTask, link, broken>>

\* inbound.send returns Ok once there is room.
ReaderForwards(e) ==
  /\ readTask[e] = "runs" /\ reading[e] # <<>> /\ e \in holdsRx
  /\ Len(inbound[e]) < InCap
  /\ inbound' = [inbound EXCEPT ![e] = Append(@, Head(reading[e]))]
  /\ reading' = [reading EXCEPT ![e] = <<>>]
  /\ UNCHANGED <<channels, writers, readTask, link, broken>>

ReaderEndsAs(e, how) ==
  /\ readTask' = [readTask EXCEPT ![e] = how]
  /\ reading' = [reading EXCEPT ![e] = <<>>]
  /\ UNCHANGED <<channels, writers, inbound, link, broken>>

\* The receiver is gone; the reader learns of it with a message in its hand.
ReaderUnheard(e) ==
  /\ readTask[e] = "runs" /\ reading[e] # <<>> /\ e \notin holdsRx
  /\ ReaderEndsAs(e, "unheard")

ReaderEof(e) ==
  /\ readTask[e] = "runs" /\ reading[e] = <<>> /\ e \notin broken
  /\ link[Other(e)] = <<>> /\ Closed(Other(e))
  /\ ReaderEndsAs(e, "eof")

\* A read error, whatever had arrived before it.
ReaderFails(e) ==
  /\ readTask[e] = "runs" /\ reading[e] = <<>> /\ e \in broken
  /\ ReaderEndsAs(e, "failed")

-------------------------------------------------------------------------------
(* The connection and the processes. *)

\* What end e wrote finds its other end closed: TCP answers with a reset.
Reset(e) ==
  /\ Closed(Other(e)) /\ link[e] # <<>> /\ e \notin broken
  /\ broken' = broken \cup {e}
  /\ link' = [link EXCEPT ![e] = <<>>]
  /\ UNCHANGED <<channels, writers, readers>>

\* The process ends, with its tasks, its channels and its socket.
Killed(e) ==
  /\ readTask[e] # "killed"
  /\ readTask' = [readTask EXCEPT ![e] = "killed"]
  /\ writeTask' = [writeTask EXCEPT ![e] = "killed"]
  /\ reading' = [reading EXCEPT ![e] = <<>>]
  /\ inbound' = [inbound EXCEPT ![e] = <<>>]
  /\ holdsTx' = holdsTx \ {e} /\ holdsRx' = holdsRx \ {e}
  /\ UNCHANGED <<accepted, received, outbound, writing, link, broken>>

Writer(e) ==
  WriterTakes(e) \/ WriterWrites(e) \/ WriterRefused(e) \/ WriterFails(e) \/ WriterDrained(e)

Reader(e) ==
  ReaderTakes(e) \/ ReaderForwards(e) \/ ReaderUnheard(e) \/ ReaderEof(e) \/ ReaderFails(e)

PeerNext ==
  \E e \in Ends :
    \/ \E kind \in {"plain", "large", "unknown"} : OwnerSends(e, kind)
    \/ OwnerReceives(e) \/ DropsOutbound(e) \/ DropsInbound(e)
    \/ Writer(e) \/ Reader(e)
    \/ Reset(e) \/ Killed(e)

\* The runtime polls its tasks, TCP answers, and an owner that holds on to its
\* receiver receives; nobody has to send or to drop anything.
PeerFairness ==
  \A e \in Ends :
    /\ WF_peerVars(Writer(e)) /\ WF_peerVars(Reader(e))
    /\ WF_peerVars(Reset(e)) /\ WF_peerVars(OwnerReceives(e))

PeerSafeSpec == PeerInit /\ [][PeerNext]_peerVars
PeerSpec == PeerSafeSpec /\ PeerFairness

-------------------------------------------------------------------------------
(* Properties. *)

\* In each direction the owners see the stream of Frames: what one end's channel
\* accepted reaches the other end's owner whole, in order and without a gap,
\* through two channels, two tasks and the stream, until it is over; never
\* something behind a message that was refused, unknown or lost.
ToAcceptor ==
  INSTANCE Frames WITH
    Frame <- Message, sent <- accepted["dialer"], got <- received["acceptor"],
    over <- "acceptor" \notin holdsRx
ToDialer ==
  INSTANCE Frames WITH
    Frame <- Message, sent <- accepted["acceptor"], got <- received["dialer"],
    over <- "dialer" \notin holdsRx
InOrder == ToAcceptor!Spec /\ ToDialer!Spec

\* An owner that drops its sender and lets the connection end loses nothing: if
\* its writer has drained the channel and the other end has read an end of
\* file, every message has been forwarded.
CleanEndLosesNothing ==
  \A e \in Ends :
    writeTask[e] = "drained" /\ readTask[Other(e)] = "eof" /\ Other(e) \in holdsRx =>
      received[Other(e)] \o inbound[Other(e)] = accepted[e]

\* When one end has closed the connection, the reader of the other end ends,
\* and its owner's channel with it, however full the channels were; and whenever
\* the owner drops its sender, before or after, the socket is closed too, even
\* with messages waiting in the channel and a writer waiting for room.
CloseIsNoticed ==
  \A e \in Ends :
    Closed(Other(e)) ~> (readTask[e] # "runs" /\ (e \notin holdsTx => Closed(e)))

\* As long as the other end reads, every message the channel has accepted is
\* written, whether or not its sender is still there, unless a message in front
\* of it is refused: that ends the writer and loses what was accepted behind it.
Written(e) == Len(accepted[e]) - Len(outbound[e]) - Len(writing[e])
AcceptedIsWritten ==
  \A e \in Ends : \A k \in 1..MaxMsgs[e] :
    (Len(accepted[e]) >= k /\ \A j \in 1..k : accepted[e][j].kind # "large")
      ~> (Written(e) >= k \/ readTask[Other(e)] # "runs" \/ writeTask[e] = "killed")
===============================================================================
