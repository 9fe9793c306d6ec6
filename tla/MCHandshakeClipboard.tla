-------------------------- MODULE MCHandshakeClipboard --------------------------
(* Model checking Handshake and Clipboard side by side: `part` says which of them *)
(* a behaviour is about, the other stays in an initial state.  See README.md for  *)
(* the bounds.                                                                    *)
EXTENDS MCHandshake, MCClipboard

VARIABLE part   \* "handshake" or "clipboard"

MCInit ==
  /\ part \in {"handshake", "clipboard"}
  /\ Init /\ ClipInit
  /\ part # "clipboard" => clip = NoText
  /\ part # "handshake" => version["server"] = version["client"]

MCNext ==
  \/ part = "handshake" /\ Next /\ UNCHANGED <<part, clipVars>>
  \/ part = "clipboard" /\ ClipNext /\ UNCHANGED <<part, vars>>

\* Fairness of Handshake and of Clipboard, each where it applies.
MCFairness ==
  /\ \A p \in Ends :
       /\ WF_vars(part = "handshake" /\ SendHello(p))
       /\ WF_vars(part = "handshake" /\ RecvHello(p))
       /\ WF_vars(part = "handshake" /\ Timeout(p))
       /\ WF_vars(part = "handshake" /\ SendAccept(p))
       /\ WF_vars(part = "handshake" /\ SendReject(p))
       /\ WF_vars(part = "handshake" /\ RecvReady(p))
       /\ WF_vars(part = "handshake" /\ PeerClosed(p))
       /\ WF_vars(part = "handshake" /\ GivesUp(p))
  /\ WF_clipVars(part = "clipboard" /\ WatchRead)
  /\ WF_clipVars(part = "clipboard" /\ WatchCheck)
  /\ WF_clipVars(part = "clipboard" /\ WatchSend)
  /\ WF_clipVars(part = "clipboard" /\ Drain)
  /\ WF_clipVars(part = "clipboard" /\ ApplyWrite)

MCSpec == MCInit /\ [][MCNext]_<<part, vars, clipVars>> /\ MCFairness

-------------------------------------------------------------------------------
\* Where the handshake runs it comes to a decision at every end that starts it,
\* even if the machine at the other end vanishes without closing the connection.
EveryEndDecides == part = "handshake" => HandshakeDecides
===============================================================================
