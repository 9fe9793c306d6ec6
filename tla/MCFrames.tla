-------------------------------- MODULE MCFrames --------------------------------
(* Model checking Codec and PeerSession, the two implementations of Frames, side *)
(* by side: `part` says which of them a behaviour is about, the other stays in   *)
(* its initial state.  See README.md for the bounds.                             *)
EXTENDS Codec, PeerSession

MCSizes == {1, 2, 3}
MCCaps == {1, 2}
MCMaxMsgs == [e \in {"dialer", "acceptor"} |-> IF e = "dialer" THEN 3 ELSE 1]

VARIABLE part   \* "codec" or "peers"

MCInit ==
  /\ part \in {"codec", "peers"}
  /\ Init /\ PeerInit
  /\ part = "peers" => \A e \in DOMAIN cap : cap[e] = 1

MCNext ==
  \/ part = "codec" /\ Next /\ UNCHANGED <<part, peerVars>>
  \/ part = "peers" /\ PeerNext /\ UNCHANGED <<part, vars>>

\* Fairness of Codec and of PeerSession, each where it applies.
MCFairness ==
  /\ WF_vars(part = "codec" /\ Read) /\ WF_vars(part = "codec" /\ ReadEof)
  /\ WF_vars(part = "codec" /\ ReadFails) /\ WF_vars(part = "codec" /\ Decode)
  /\ \A e \in Ends :
       /\ WF_peerVars(part = "peers" /\ Writer(e))
       /\ WF_peerVars(part = "peers" /\ Reader(e))
       /\ WF_peerVars(part = "peers" /\ Reset(e))
       /\ WF_peerVars(part = "peers" /\ OwnerReceives(e))

MCSpec == MCInit /\ [][MCNext]_<<part, vars, peerVars>> /\ MCFairness

-------------------------------------------------------------------------------
\* The types of Codec and of PeerSession.
FramesTypeOK == TypeOK /\ PeerTypeOK
===============================================================================
