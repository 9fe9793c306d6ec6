---------------------------- MODULE HandshakeProofs -----------------------------
(***************************************************************************)
(* The safety of the handshake, for every set of versions and every number *)
(* of frames: both ends decide alike, on a Hello that is always the first  *)
(* frame, although neither waits for the decision of the other.            *)
(***************************************************************************)
EXTENDS Handshake, SequenceTheorems, TLAPS

\* TypeOK without the bound on the queues.
Typed ==
  /\ version \in [Ends -> Versions]
  /\ pc \in [Ends ->
       {"start", "waiting", "accepting", "rejecting", "ready", "ended"}]
  /\ inbox \in [Ends -> Seq(Frame)]
  /\ closed \in SUBSET Ends
  /\ unacked \in SUBSET Ends
  /\ rejected \in SUBSET Ends
  /\ frames \in [Ends -> 0..MaxFrames]

Undecided == {"start", "waiting"}
Greeted == {"waiting", "accepting", "rejecting", "ready"}

\* What can be in the stream to end q, by how far the other end o has come: its
\* Hello is there from the moment it is sent until q reads it, and only then; the
\* number of frames is bounded by what o has sent.
Stream(q) ==
  LET o == Other(q)
  IN  /\ pc[o] = "start" => inbox[q] = <<>> /\ pc[q] \in Undecided \cup {"ended"}
      /\ pc[q] \in Undecided /\ pc[o] \in Greeted => inbox[q] # <<>>
      /\ pc[q] \in Undecided /\ inbox[q] # <<>> =>
           inbox[q][1].kind = "Hello" /\ inbox[q][1].version = version[o]
      /\ \A i \in DOMAIN inbox[q] :
           inbox[q][i].kind = "Hello" => i = 1 /\ pc[q] \in Undecided
      /\ pc[o] \notin {"ready", "ended"} => Len(inbox[q]) <= 1 /\ frames[o] = 0
      /\ Len(inbox[q]) <= frames[o] + 2

\* What an end has decided is what the two versions say.
Decided(q) ==
  /\ pc[q] \in {"accepting", "ready"} => version[Other(q)] = version[q]
  /\ pc[q] = "rejecting" \/ q \in rejected => version[Other(q)] # version[q]

Inv == Typed /\ \A q \in Ends : Stream(q) /\ Decided(q)

\* There are two ends.
LEMMA TwoEnds ==
  ASSUME NEW p \in Ends
  PROVE  Other(p) \in Ends /\ Other(p) # p /\ Other(Other(p)) = p /\ Ends = {p, Other(p)}
  BY DEF Ends, Other

\* A stream after a frame was added, and after one was read.
LEMMA Added ==
  ASSUME NEW s \in Seq(Frame), NEW f \in Frame
  PROVE  LET t == Append(s, f)
         IN  /\ t \in Seq(Frame) /\ t # <<>> /\ Len(t) = Len(s) + 1
             /\ DOMAIN t = 1..(Len(s) + 1) /\ DOMAIN s = 1..Len(s) /\ Len(s) \in Nat
             /\ \A i \in DOMAIN s : t[i] = s[i]
             /\ t[Len(s) + 1] = f
             /\ s # <<>> => 1 \in DOMAIN s
             /\ s = <<>> => Len(s) = 0
  BY AppendProperties, LenProperties, EmptySeq

\* What is left of a queue when its first message is gone.
LEMMA Removed ==
  ASSUME NEW s \in Seq(Frame), s # <<>>
  PROVE  LET t == Tail(s)
         IN  /\ Head(s) = s[1] /\ Head(s) \in Frame
             /\ t \in Seq(Frame) /\ Len(t) = Len(s) - 1
             /\ 1 \in DOMAIN s /\ Len(s) \in Nat
             /\ DOMAIN t = 1..Len(t) /\ DOMAIN s = 1..Len(s)
             /\ \A i \in DOMAIN t : t[i] = s[i + 1] /\ i + 1 \in DOMAIN s /\ i + 1 # 1
  BY HeadTailProperties, LenProperties, EmptySeq

\* Every end that leaves, leaves an empty stream behind and sends no more.
LEMMA Left ==
  ASSUME Inv, NEW p \in Ends,
         pc' = [pc EXCEPT ![p] = "ended"], inbox' = [inbox EXCEPT ![p] = <<>>],
         UNCHANGED <<version, rejected, frames>>,
         closed' \in SUBSET Ends, unacked' \in SUBSET Ends
  PROVE  Inv'
  <1> DEFINE o == Other(p)
  <1>1. o \in Ends /\ o # p /\ Other(o) = p /\ Ends = {p, o}
    BY TwoEnds
  <1>2. <<>> \in Seq(Frame) /\ Len(<<>>) = 0 /\ DOMAIN <<>> = {}
    BY EmptySeq
  <1>3. /\ pc'[p] = "ended" /\ pc'[o] = pc[o]
        /\ inbox'[p] = <<>> /\ inbox'[o] = inbox[o]
    BY <1>1 DEF Inv, Typed
  <1>4. Typed'
    BY <1>2 DEF Inv, Typed
  <1>5. Stream(p)' /\ Decided(p)'
    BY <1>1, <1>2, <1>3 DEF Inv, Typed, Stream, Decided, Undecided, Greeted
  <1>6. Stream(o)' /\ Decided(o)'
    BY <1>1, <1>3 DEF Inv, Typed, Stream, Decided, Undecided, Greeted
  <1> QED
    BY <1>1, <1>4, <1>5, <1>6 DEF Inv

\* The invariant holds on a new connection.
LEMMA Initially == Init => Inv
  <1> SUFFICES ASSUME Init PROVE Inv
    OBVIOUS
  <1>1. <<>> \in Seq(Frame) /\ Len(<<>>) = 0 /\ DOMAIN <<>> = {}
    BY EmptySeq
  <1>2. MaxFrames \in Nat
    BY HandshakeAssumption
  <1>3. Typed
    BY <1>1, <1>2 DEF Init, Typed
  <1>4. ASSUME NEW q \in Ends PROVE Stream(q) /\ Decided(q)
    BY <1>1, TwoEnds DEF Init, Stream, Decided, Undecided, Greeted
  <1> QED
    BY <1>3, <1>4 DEF Inv

\* A frame is sent while the sender's pc and its count of frames may change: what
\* is left of Send when the receiver is there, and when it is gone.
LEMMA Sent ==
  ASSUME Inv, NEW p \in Ends, NEW f \in Frame, Send(p, f)
  PROVE  /\ inbox' \in [Ends -> Seq(Frame)] /\ unacked' \in SUBSET Ends
         /\ inbox'[p] = inbox[p]
         /\ pc[Other(p)] = "ended" => inbox'[Other(p)] = inbox[Other(p)]
         /\ pc[Other(p)] # "ended" => inbox'[Other(p)] = Append(inbox[Other(p)], f)
  <1>1. Other(p) \in Ends /\ Other(p) # p
    BY TwoEnds
  <1>2. Append(inbox[Other(p)], f) \in Seq(Frame)
    BY <1>1, Added DEF Inv, Typed
  <1> QED
    BY <1>1, <1>2 DEF Send, Inv, Typed

\* Sending the hello keeps it.
LEMMA HelloSent == ASSUME Inv, NEW p \in Ends, SendHello(p) PROVE Inv'
  <1> DEFINE o == Other(p)
             f == [kind |-> "Hello", version |-> version[p]]
  <1>1. o \in Ends /\ o # p /\ Other(o) = p /\ Ends = {p, o}
    BY TwoEnds
  <1>2. f \in Frame
    BY DEF Inv, Typed, Frame
  <1>3. /\ inbox' \in [Ends -> Seq(Frame)] /\ unacked' \in SUBSET Ends
        /\ inbox'[p] = inbox[p]
        /\ pc[o] = "ended" => inbox'[o] = inbox[o]
        /\ pc[o] # "ended" => inbox'[o] = Append(inbox[o], f)
    BY <1>2, Sent DEF SendHello
  <1>4. pc'[p] = "waiting" /\ pc'[o] = pc[o] /\ pc[p] = "start"
    BY <1>1 DEF SendHello, Inv, Typed
  <1>5. Typed'
    BY <1>3 DEF SendHello, Inv, Typed
  <1>6. Stream(p)' /\ Decided(p)'
    BY <1>1, <1>3, <1>4 DEF SendHello, Inv, Typed, Stream, Decided, Undecided, Greeted
  <1>7. inbox[o] \in Seq(Frame) /\ inbox[o] = <<>> /\ Len(inbox[o]) = 0
    BY <1>1, <1>4, EmptySeq DEF Inv, Typed, Stream
  <1>8. CASE pc[o] = "ended"
    <2>1. Stream(o)' /\ Decided(o)'
      BY <1>1, <1>3, <1>4, <1>7, <1>8 DEF SendHello, Inv, Typed, Stream, Decided, Undecided, Greeted
    <2> QED
      BY <1>1, <1>5, <1>6, <2>1 DEF Inv
  <1>9. CASE pc[o] # "ended"
    <2>1. /\ inbox'[o] # <<>> /\ Len(inbox'[o]) = 1
          /\ DOMAIN inbox'[o] = 1..1 /\ inbox'[o][1] = f
      <3> HIDE DEF f, o
      <3>1. inbox'[o] = Append(inbox[o], f)
        BY <1>3, <1>9
      <3> QED
        BY <1>2, <1>7, <3>1, Added
    <2>2. pc[o] \in Undecided
      BY <1>1, <1>4, <1>9 DEF Inv, Stream
    <2>3. f.kind = "Hello" /\ f.version = version[p]
      OBVIOUS
    <2>4. Stream(o)'
      BY <1>1, <1>4, <2>1, <2>2, <2>3 DEF SendHello, Inv, Typed, Stream, Undecided, Greeted
    <2>5. Decided(o)'
      BY <1>1, <1>4 DEF SendHello, Inv, Decided
    <2> QED
      BY <1>1, <1>5, <1>6, <2>4, <2>5 DEF Inv
  <1> QED
    BY <1>8, <1>9

\* Receiving one does.
LEMMA HelloReceived == ASSUME Inv, NEW p \in Ends, RecvHello(p) PROVE Inv'
  <1> DEFINE o == Other(p)
  <1>1. o \in Ends /\ o # p /\ Other(o) = p /\ Ends = {p, o}
    BY TwoEnds
  <1>2. inbox[p] \in Seq(Frame) /\ inbox[p] # <<>> /\ pc[p] = "waiting"
    BY DEF RecvHello, Inv, Typed
  <1>3. /\ pc'[o] = pc[o] /\ inbox'[o] = inbox[o] /\ inbox'[p] = Tail(inbox[p])
        /\ pc'[p] = IF Head(inbox[p]).version = version[p] THEN "accepting" ELSE "rejecting"
    BY <1>1 DEF RecvHello, Inv, Typed
  <1>4. /\ Head(inbox[p]) = inbox[p][1] /\ Len(Tail(inbox[p])) = Len(inbox[p]) - 1
        /\ Tail(inbox[p]) \in Seq(Frame)
        /\ \A i \in DOMAIN Tail(inbox[p]) :
             Tail(inbox[p])[i] = inbox[p][i + 1] /\ i + 1 \in DOMAIN inbox[p] /\ i + 1 # 1
        /\ Len(inbox[p]) \in Nat
    BY <1>2, Removed
  <1>5. inbox[p][1].version = version[o] /\ pc[o] # "start"
    BY <1>1, <1>2 DEF Inv, Stream, Undecided
  <1>6. Typed'
    BY <1>4 DEF RecvHello, Inv, Typed
  <1>7. frames \in [Ends -> Nat] /\ frames' = frames /\ version' = version /\ rejected' = rejected
    BY HandshakeAssumption DEF RecvHello, Inv, Typed
  <1>8. \A i \in DOMAIN inbox'[p] : inbox'[p][i].kind # "Hello"
    BY <1>1, <1>3, <1>4 DEF Inv, Stream
  <1>9. Stream(p)'
    BY <1>1, <1>2, <1>3, <1>4, <1>5, <1>7, <1>8 DEF Inv, Stream, Undecided, Greeted
  <1>10. Stream(o)'
    BY <1>1, <1>2, <1>3, <1>7 DEF Inv, Stream, Undecided, Greeted
  <1>11. Decided(p)' /\ Decided(o)'
    BY <1>1, <1>2, <1>3, <1>4, <1>5, <1>7 DEF Inv, Decided
  <1> QED
    BY <1>1, <1>6, <1>9, <1>10, <1>11 DEF Inv

\* Receiving the accept does.
LEMMA ReadyReceived == ASSUME Inv, NEW p \in Ends, RecvReady(p) PROVE Inv'
  <1> DEFINE o == Other(p)
  <1>1. o \in Ends /\ o # p /\ Other(o) = p /\ Ends = {p, o}
    BY TwoEnds
  <1>2. inbox[p] \in Seq(Frame) /\ inbox[p] # <<>> /\ pc[p] = "ready"
    BY DEF RecvReady, Inv, Typed
  <1>3. inbox'[o] = inbox[o] /\ inbox'[p] = Tail(inbox[p])
    BY <1>1 DEF RecvReady, Inv, Typed
  <1>4. /\ Len(Tail(inbox[p])) = Len(inbox[p]) - 1
        /\ Tail(inbox[p]) \in Seq(Frame)
        /\ \A i \in DOMAIN Tail(inbox[p]) :
             Tail(inbox[p])[i] = inbox[p][i + 1] /\ i + 1 \in DOMAIN inbox[p] /\ i + 1 # 1
        /\ Len(inbox[p]) \in Nat
    BY <1>2, Removed
  <1>5. Typed'
    BY <1>4 DEF RecvReady, Inv, Typed
  <1>6. /\ frames \in [Ends -> Nat] /\ frames' = frames /\ version' = version
        /\ rejected' = rejected /\ pc' = pc
    BY HandshakeAssumption DEF RecvReady, Inv, Typed
  <1>7. pc[o] # "start"
    BY <1>1, <1>2 DEF Inv, Stream, Undecided
  <1>8. \A i \in DOMAIN inbox'[p] : inbox'[p][i].kind # "Hello"
    BY <1>1, <1>3, <1>4 DEF Inv, Stream
  <1>9. Stream(p)'
    BY <1>1, <1>2, <1>3, <1>4, <1>6, <1>7, <1>8 DEF Inv, Stream, Undecided, Greeted
  <1>10. Stream(o)' /\ Decided(p)' /\ Decided(o)'
    BY <1>1, <1>3, <1>6 DEF Inv, Stream, Decided
  <1> QED
    BY <1>1, <1>5, <1>9, <1>10 DEF Inv

\* A stream after a frame that is no Hello was added behind what was there.
LEMMA AddedBehind ==
  ASSUME NEW s \in Seq(Frame), NEW f \in Frame, f.kind # "Hello"
  PROVE  LET t == Append(s, f)
         IN  /\ t \in Seq(Frame) /\ t # <<>>
             /\ Len(t) = Len(s) + 1 /\ Len(s) \in Nat /\ (s = <<>> => Len(s) = 0)
             /\ \A i \in DOMAIN t : t[i].kind = "Hello" => i \in DOMAIN s /\ t[i] = s[i]
             /\ s # <<>> => t[1] = s[1]
  BY Added

\* Sending the accept does.
LEMMA AcceptSent == ASSUME Inv, NEW p \in Ends, SendAccept(p) PROVE Inv'
  <1> DEFINE o == Other(p)
             f == [kind |-> "HelloAck", accepted |-> TRUE]
  <1>1. o \in Ends /\ o # p /\ Other(o) = p /\ Ends = {p, o}
    BY TwoEnds
  <1>2. f \in Frame /\ f.kind # "Hello"
    BY DEF Frame
  <1>3. /\ inbox' \in [Ends -> Seq(Frame)] /\ unacked' \in SUBSET Ends
        /\ inbox'[p] = inbox[p]
        /\ pc[o] = "ended" => inbox'[o] = inbox[o]
        /\ pc[o] # "ended" => inbox'[o] = Append(inbox[o], f)
    BY <1>2, Sent DEF SendAccept
  <1>4. pc'[p] = "ready" /\ pc'[o] = pc[o] /\ pc[p] = "accepting"
    BY <1>1 DEF SendAccept, Inv, Typed
  <1>5. Typed'
    BY <1>3 DEF SendAccept, Inv, Typed
  <1>6. /\ frames \in [Ends -> Nat] /\ frames' = frames /\ version' = version
        /\ rejected' = rejected
    BY HandshakeAssumption DEF SendAccept, Inv, Typed
  <1>7. Stream(p)'
    BY <1>1, <1>3, <1>4, <1>6 DEF Inv, Stream, Undecided, Greeted
  <1>8. Stream(o)'
    <2>1. CASE pc[o] = "ended"
      BY <1>1, <1>3, <1>4, <1>6, <2>1 DEF Inv, Typed, Stream, Undecided, Greeted
    <2>2. CASE pc[o] # "ended"
      <3>1. inbox[o] \in Seq(Frame) /\ inbox'[o] = Append(inbox[o], f)
        BY <1>1, <1>3, <2>2 DEF Inv, Typed
      <3>2. /\ inbox'[o] # <<>> /\ Len(inbox'[o]) = Len(inbox[o]) + 1 /\ Len(inbox[o]) \in Nat
            /\ \A i \in DOMAIN inbox'[o] : inbox'[o][i].kind = "Hello" =>
                 i \in DOMAIN inbox[o] /\ inbox'[o][i] = inbox[o][i]
            /\ inbox[o] # <<>> => inbox'[o][1] = inbox[o][1]
        <4> HIDE DEF o, f
        <4> QED
          BY <1>2, <3>1, AddedBehind
      <3> QED
        BY <1>1, <1>4, <1>6, <3>2 DEF Inv, Stream, Undecided, Greeted
    <2> QED
      BY <2>1, <2>2
  <1>9. Decided(p)' /\ Decided(o)'
    BY <1>1, <1>4, <1>6 DEF Inv, Decided
  <1> QED
    BY <1>1, <1>5, <1>7, <1>8, <1>9 DEF Inv

\* Sending data does.
LEMMA DataSent == ASSUME Inv, NEW p \in Ends, SendData(p) PROVE Inv'
  <1> DEFINE o == Other(p)
             f == [kind |-> "Data"]
  <1>1. o \in Ends /\ o # p /\ Other(o) = p /\ Ends = {p, o}
    BY TwoEnds
  <1>2. f \in Frame /\ f.kind # "Hello"
    BY DEF Frame
  <1>3. /\ inbox' \in [Ends -> Seq(Frame)] /\ unacked' \in SUBSET Ends
        /\ inbox'[p] = inbox[p]
        /\ pc[o] = "ended" => inbox'[o] = inbox[o]
        /\ pc[o] # "ended" => inbox'[o] = Append(inbox[o], f)
    BY <1>2, Sent DEF SendData
  <1>4. /\ pc' = pc /\ version' = version /\ rejected' = rejected /\ pc[p] = "ready"
        /\ frames \in [Ends -> Nat]
        /\ frames'[p] = frames[p] + 1 /\ frames'[o] = frames[o]
    BY <1>1, HandshakeAssumption DEF SendData, Inv, Typed
  <1>5. frames' \in [Ends -> 0..MaxFrames]
    BY HandshakeAssumption DEF SendData, Inv, Typed
  <1>6. Typed'
    BY <1>3, <1>5 DEF SendData, Inv, Typed
  <1>7. Stream(p)'
    BY <1>1, <1>3, <1>4 DEF Inv, Stream, Undecided, Greeted
  <1>8. Stream(o)'
    <2>1. inbox[o] \in Seq(Frame) /\ Len(inbox[o]) \in Nat
      BY <1>1, LenProperties DEF Inv, Typed
    <2>2. CASE pc[o] = "ended"
      BY <1>1, <1>3, <1>4, <2>1, <2>2 DEF Inv, Typed, Stream, Undecided, Greeted
    <2>3. CASE pc[o] # "ended"
      <3>1. inbox'[o] = Append(inbox[o], f)
        BY <1>3, <2>3
      <3>2. /\ inbox'[o] # <<>> /\ Len(inbox'[o]) = Len(inbox[o]) + 1
            /\ \A i \in DOMAIN inbox'[o] : inbox'[o][i].kind = "Hello" =>
                 i \in DOMAIN inbox[o] /\ inbox'[o][i] = inbox[o][i]
            /\ inbox[o] # <<>> => inbox'[o][1] = inbox[o][1]
        <4> HIDE DEF o, f
        <4> QED
          BY <1>2, <2>1, <3>1, AddedBehind
      <3>3. Len(inbox'[o]) <= frames'[p] + 2
        BY <1>1, <1>4, <2>1, <3>2 DEF Inv, Stream
      <3>4. \A i \in DOMAIN inbox'[o] :
              inbox'[o][i].kind = "Hello" => i = 1 /\ pc'[o] \in Undecided
        BY <1>1, <1>4, <3>2 DEF Inv, Stream
      <3>5. pc[o] \in Undecided => inbox[o] # <<>>
        BY <1>1, <1>4 DEF Inv, Stream, Greeted
      <3> QED
        BY <1>1, <1>4, <3>2, <3>3, <3>4, <3>5 DEF Inv, Stream
    <2> QED
      BY <2>2, <2>3
  <1>9. Decided(p)' /\ Decided(o)'
    BY <1>1, <1>4 DEF Inv, Decided
  <1> QED
    BY <1>1, <1>6, <1>7, <1>8, <1>9 DEF Inv

\* Sending the reject does.
LEMMA RejectSent == ASSUME Inv, NEW p \in Ends, SendReject(p) PROVE Inv'
  <1> DEFINE o == Other(p)
             f == [kind |-> "HelloAck", accepted |-> FALSE]
  <1>1. o \in Ends /\ o # p /\ Other(o) = p /\ Ends = {p, o}
    BY TwoEnds
  <1>2. f \in Frame /\ f.kind # "Hello"
    BY DEF Frame
  <1>3. inbox[o] \in Seq(Frame) /\ Append(inbox[o], f) \in Seq(Frame) /\ <<>> \in Seq(Frame)
    BY <1>1, <1>2, Added, EmptySeq DEF Inv, Typed
  <1>4. /\ inbox' \in [Ends -> Seq(Frame)] /\ inbox'[p] = <<>>
        /\ pc[o] = "ended" => inbox'[o] = inbox[o]
        /\ pc[o] # "ended" => inbox'[o] = Append(inbox[o], f)
    BY <1>1, <1>3 DEF SendReject, Inv, Typed
  <1>5. pc'[p] = "ended" /\ pc'[o] = pc[o] /\ pc[p] = "rejecting"
    BY <1>1 DEF SendReject, Inv, Typed
  <1>6. Typed'
    BY <1>1, <1>4 DEF SendReject, Inv, Typed
  <1>7. /\ frames \in [Ends -> Nat] /\ frames' = frames /\ version' = version
        /\ rejected' = rejected \cup {o}
    BY HandshakeAssumption DEF SendReject, Inv, Typed
  <1>8. Len(<<>>) = 0 /\ DOMAIN <<>> = {}
    OBVIOUS
  <1>9. Stream(p)'
    BY <1>1, <1>4, <1>5, <1>7, <1>8 DEF Inv, Typed, Stream, Undecided, Greeted
  <1>10. Stream(o)'
    <2>1. CASE pc[o] = "ended"
      BY <1>1, <1>4, <1>5, <1>7, <2>1 DEF Inv, Typed, Stream, Undecided, Greeted
    <2>2. CASE pc[o] # "ended"
      <3>1. inbox'[o] = Append(inbox[o], f)
        BY <1>4, <2>2
      <3>2. /\ inbox'[o] # <<>> /\ Len(inbox'[o]) = Len(inbox[o]) + 1 /\ Len(inbox[o]) \in Nat
            /\ \A i \in DOMAIN inbox'[o] : inbox'[o][i].kind = "Hello" =>
                 i \in DOMAIN inbox[o] /\ inbox'[o][i] = inbox[o][i]
            /\ inbox[o] # <<>> => inbox'[o][1] = inbox[o][1]
        <4> HIDE DEF o, f
        <4> QED
          BY <1>2, <1>3, <3>1, AddedBehind
      <3> QED
        BY <1>1, <1>5, <1>7, <3>2 DEF Inv, Stream, Undecided, Greeted
    <2> QED
      BY <2>1, <2>2
  <1>11. Decided(p)' /\ Decided(o)'
    BY <1>1, <1>5, <1>7 DEF Inv, Decided
  <1> QED
    BY <1>1, <1>6, <1>9, <1>10, <1>11 DEF Inv

\* Every step preserves the invariant: the five above, and the ends of a session.
LEMMA Preserved == Inv /\ [Next]_vars => Inv'
  <1> SUFFICES ASSUME Inv, [Next]_vars PROVE Inv'
    OBVIOUS
  <1>1. CASE UNCHANGED vars
    BY <1>1 DEF vars, Inv, Typed, Stream, Decided
  <1>2. ASSUME NEW p \in Ends, Step(p) PROVE Inv'
    <2>1. closed \cup {p} \in SUBSET Ends /\ closed \in SUBSET Ends
          /\ unacked \in SUBSET Ends /\ Other(p) \in Ends
      BY TwoEnds DEF Inv, Typed
    <2>2. CASE SendHello(p)
      BY <2>2, HelloSent
    <2>3. CASE RecvHello(p)
      BY <2>3, HelloReceived
    <2>4. CASE SendAccept(p)
      BY <2>4, AcceptSent
    <2>5. CASE SendReject(p)
      BY <2>5, RejectSent
    <2>6. CASE SendData(p)
      BY <2>6, DataSent
    <2>7. CASE RecvReady(p)
      BY <2>7, ReadyReceived
    <2>8. CASE Leave(p) /\ UNCHANGED <<version, unacked, rejected, frames>>
      BY <2>1, <2>8, Left DEF Leave
    <2>9. CASE Vanishes(p)
      <3>1. unacked' \in SUBSET Ends /\ closed' \in SUBSET Ends
        BY <2>1, <2>9 DEF Vanishes
      <3> QED
        BY <2>9, <3>1, Left DEF Vanishes
    <2> QED
      BY <1>2, <2>2, <2>3, <2>4, <2>5, <2>6, <2>7, <2>8, <2>9
      DEF Step, Timeout, SendFails, PeerClosed, PeerReset, GivesUp, Killed
  <1> QED
    BY <1>1, <1>2 DEF Next

\* So it always holds.
LEMMA InvHolds == SafeSpec => []Inv
  BY Initially, Preserved, PTL DEF SafeSpec

\* The type invariant, with the bound on the stream: an end queues at most the
\* two frames of the handshake before those of its loop.
THEOREM TypeCorrect == SafeSpec => []TypeOK
  <1>1. Inv => TypeOK
    <2> SUFFICES ASSUME Inv PROVE TypeOK
      OBVIOUS
    <2>1. ASSUME NEW q \in Ends PROVE Len(inbox[q]) <= MaxFrames + 2
      <3>1. Other(q) \in Ends
        BY TwoEnds
      <3>2. Len(inbox[q]) \in Nat /\ frames[Other(q)] \in 0..MaxFrames
        BY <3>1, LenProperties DEF Inv, Typed
      <3>3. Len(inbox[q]) <= frames[Other(q)] + 2
        BY DEF Inv, Stream
      <3> QED
        BY <3>2, <3>3, HandshakeAssumption
    <2> QED
      BY <2>1 DEF Inv, Typed, TypeOK
  <1> QED
    BY <1>1, InvHolds, PTL

\* read_hello never meets anything but a Hello, even if the other end's loop has
\* started: HelloComesFirst, for every set of versions and any number of frames.
THEOREM FirstFrameIsHello == SafeSpec => []HelloComesFirst
  <1>1. Inv => HelloComesFirst
    <2> SUFFICES ASSUME Inv, NEW p \in Ends
                 PROVE  /\ pc[p] \in Undecided /\ inbox[p] # <<>> => Head(inbox[p]).kind = "Hello"
                        /\ pc[p] = "ready" => \A i \in DOMAIN inbox[p] : inbox[p][i].kind # "Hello"
      BY DEF HelloComesFirst, Undecided
    <2>1. inbox[p] \in Seq(Frame)
      BY DEF Inv, Typed
    <2>2. inbox[p] # <<>> => Head(inbox[p]) = inbox[p][1]
      BY <2>1, Removed
    <2> QED
      BY <2>2 DEF Inv, Stream, Undecided
  <1> QED
    BY <1>1, InvHolds, PTL

\* The two ends decide alike, although neither waits for the answer of the other:
\* ReadyMeansAccepted, for every set of versions and any number of frames.
THEOREM EndsDecideAlike == SafeSpec => []ReadyMeansAccepted
  <1>1. Inv => ReadyMeansAccepted
    <2> SUFFICES ASSUME Inv, NEW p \in Ends, pc[p] \in {"accepting", "ready"}
                 PROVE  /\ version[Other(p)] = version[p]
                        /\ p \notin rejected /\ pc[Other(p)] # "rejecting"
      BY DEF ReadyMeansAccepted
    <2>1. Other(p) \in Ends /\ Other(Other(p)) = p
      BY TwoEnds
    <2> QED
      BY <2>1 DEF Inv, Decided
  <1> QED
    BY <1>1, InvHolds, PTL
===============================================================================
