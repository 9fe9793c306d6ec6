--------------------------------- MODULE Frames ---------------------------------
(***************************************************************************)
(* What a framed connection promises in one direction: the receiver gets   *)
(* the frames that were sent, whole, in order, without a gap, until the    *)
(* connection is over for it.  Codec implements this over the bytes of a   *)
(* TCP stream, PeerSession over its tasks and channels; Handshake and      *)
(* InputPath rely on it.                                                   *)
(***************************************************************************)
EXTENDS Naturals, Sequences

CONSTANT Frame   \* the frames that can be sent

VARIABLES
  sent,   \* the frames the sender has put on the connection, in order
  got,    \* the frames the receiver has taken from it, in order
  over    \* the connection has ended for the receiver

vars == <<sent, got, over>>

Init ==
  /\ sent = <<>>
  /\ got = <<>>
  /\ over = FALSE

Send(f) ==
  /\ sent' = Append(sent, f)
  /\ UNCHANGED <<got, over>>

Receive ==
  /\ ~over
  /\ Len(got) < Len(sent)
  /\ got' = Append(got, sent[Len(got) + 1])
  /\ UNCHANGED <<sent, over>>

End ==
  /\ over' = TRUE
  /\ UNCHANGED <<sent, got>>

Next ==
  \/ \E f \in Frame : Send(f)
  \/ Receive
  \/ End

Spec == Init /\ [][Next]_vars

\* What was taken is what was sent, as far as it goes.
Prefix ==
  /\ Len(got) <= Len(sent)
  /\ \A i \in 1..Len(got) : got[i] = sent[i]

===============================================================================
