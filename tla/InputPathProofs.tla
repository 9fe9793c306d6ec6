---------------------------- MODULE InputPathProofs ----------------------------
(***************************************************************************)
(* What TLAPS checks about InputPath, for every choice of its constants.   *)
(* Fairness plays no part here: the theorems are about SafeSpec.           *)
(***************************************************************************)
EXTENDS InputPath, SequenceTheorems, TLAPS

USE PathAssumption

-------------------------------------------------------------------------------
(* Lemmas about the helpers. *)

\* Head and Tail of a nonempty queue of events, in one place.
LEMMA Dequeue ==
  ASSUME NEW S, NEW q \in Seq(S), q # <<>>
  PROVE  /\ Head(q) \in S /\ Head(q) = q[1]
         /\ Tail(q) \in Seq(S)
         /\ Len(q) \in Nat \ {0}
         /\ Len(Tail(q)) = Len(q) - 1
         /\ \A i \in 1..Len(Tail(q)) : Tail(q)[i] = q[i + 1]
  BY HeadTailProperties, EmptySeq

\* The inputs held after an event are inputs.
LEMMA ApplyFields ==
  ASSUME NEW e, NEW down \in SUBSET Inputs, e.inp \in Inputs
  PROVE  Apply(e, down) \in SUBSET Inputs
  BY DEF Apply

-------------------------------------------------------------------------------
(* Type correctness. *)

\* One user event: the counter stays below its bound, the held keys are keys.
LEMMA UserActsTypes ==
  ASSUME TypeOK, NEW i, NEW pressed \in BOOLEAN, UserActs(i, pressed)
  PROVE  /\ n' \in 1..MaxEvents /\ n' = n + 1
         /\ i \in Inputs
         /\ phys' \in SUBSET Holdable
  <1>1. n' \in 1..MaxEvents /\ n' = n + 1
    BY DEF TypeOK, UserActs
  <1>2. i \in Inputs
    BY DEF UserActs, Inputs, Holdable
  <1>3. phys' \in SUBSET Holdable
    BY <1>2 DEF TypeOK, UserActs, Apply, Inputs
  <1> QED BY <1>1, <1>2, <1>3

\* What the two callbacks share keeps the types.
LEMMA CaptureTypes ==
  ASSUME TypeOK, NEW i \in Inputs, NEW pressed \in BOOLEAN, n' \in 1..MaxEvents,
         Capture(i, pressed)
  PROVE  /\ chan' \in Seq(Event) /\ Len(chan') <= ChanCap
         /\ osDown' \in SUBSET Holdable
         /\ lossy' \in BOOLEAN
         /\ UNCHANGED <<grabbed, toggledAt, hand, far, server, stranded>>
  <1> DEFINE e == [id |-> n', inp |-> i, pressed |-> pressed, local |-> ~grabbed]
  <1>1. e \in Event
    BY DEF Event, TypeOK
  <1>2. chan' \in Seq(Event) /\ Len(chan') <= ChanCap
    <2>1. CASE UNCHANGED chan
      BY <2>1 DEF TypeOK
    <2>2. CASE chan' = Append(chan, e) /\ Len(chan) < ChanCap
      BY <1>1, <2>2, AppendProperties DEF TypeOK
    <2> QED BY <2>1, <2>2 DEF Capture, TrySend
  <1>3. osDown' \in SUBSET Holdable
    BY DEF Capture, Apply, TypeOK, Inputs
  <1>4. lossy' \in BOOLEAN
    BY DEF Capture, TrySend, TypeOK
  <1> QED BY <1>2, <1>3, <1>4 DEF Capture

\* The client's keys and the counters are what TypeOK says, in every
\* reachable state and for every size of the queues.
THEOREM TypeCorrect == SafeSpec => []TypeOK
<1> <<>> \in Seq(Event) /\ Len(<<>>) = 0
  BY EmptySeq
<1>1. Init => TypeOK
  <2> SUFFICES ASSUME Init PROVE TypeOK
    OBVIOUS
  <2>1. /\ chan \in Seq(Event) /\ Len(chan) <= ChanCap
        /\ hand \in Seq(Event) /\ Len(hand) <= 1
        /\ link \in Seq(Event) /\ Len(link) <= LinkCap
    BY DEF Init
  <2>2. n \in 0..MaxEvents /\ last \in 0..MaxEvents /\ toggledAt \in 0..MaxEvents
    BY DEF Init
  <2>3. grabbed \in BOOLEAN /\ lossy \in BOOLEAN
    BY DEF Init
  <2> QED BY <2>1, <2>2, <2>3, Zenon DEF Init, TypeOK
<1>2. TypeOK /\ [Next]_vars => TypeOK'
  <2> SUFFICES ASSUME TypeOK, [Next]_vars PROVE TypeOK'
    OBVIOUS
  <2> USE DEF TypeOK
  <2>1. CASE KbdHotKey
    <3>1. HotKey \in Holdable
      BY DEF Holdable
    <3>2. n' \in 1..MaxEvents /\ phys' \in SUBSET Holdable
      BY <2>1, UserActsTypes DEF KbdHotKey
    <3>3. stranded' \in SUBSET Inputs
      BY <2>1 DEF KbdHotKey, WillHold, After, Inputs
    <3> QED BY <2>1, <3>2, <3>3 DEF KbdHotKey, loop, far
  <2>2. ASSUME NEW i \in Inputs, NEW pressed \in BOOLEAN,
               UserActs(i, pressed), Capture(i, pressed)
        PROVE  TypeOK'
    BY <2>2, UserActsTypes, CaptureTypes DEF far
  <2>3. ASSUME NEW k \in Keys, NEW pressed \in BOOLEAN, KbdHook(k, pressed)
        PROVE  TypeOK'
    BY <2>2, <2>3 DEF KbdHook, Inputs, Holdable
  <2>4. ASSUME NEW i \in Buttons \cup Motions, NEW pressed \in BOOLEAN,
               MouseHook(i, pressed)
        PROVE  TypeOK'
    BY <2>2, <2>4 DEF MouseHook, Inputs, Holdable
  <2>5. CASE LoopRecv
    <3>1. Head(chan) \in Event /\ Tail(chan) \in Seq(Event)
          /\ Len(Tail(chan)) <= ChanCap
      BY <2>5, Dequeue DEF LoopRecv
    <3>2. hand' \in Seq(Event) /\ Len(hand') <= 1
      BY <2>5, <3>1, EmptySeq DEF LoopRecv
    <3> QED BY <2>5, <3>1, <3>2 DEF LoopRecv, user, far
  <2>6. CASE LoopSend
    <3>1. hand' \in Seq(Event) /\ Len(hand') <= 1
      BY <2>6, EmptySeq DEF LoopSend
    <3>2. link' \in Seq(Event) /\ Len(link') <= LinkCap
      <4>1. CASE UNCHANGED link
        BY <4>1
      <4>2. CASE Len(link) < LinkCap /\ link' = Append(link, Head(hand))
        <5>1. Head(hand) \in Event
          BY <2>6, Dequeue DEF LoopSend
        <5> QED BY <4>2, <5>1, AppendProperties
      <4> QED BY <2>6, <4>1, <4>2 DEF LoopSend
    <3> QED BY <2>6, <3>1, <3>2 DEF LoopSend, user
  <2>7. CASE LeaveLoop \/ ServerKilled
    <3>1. chan' \in Seq(Event) /\ Len(chan') <= ChanCap
          /\ hand' \in Seq(Event) /\ Len(hand') <= 1
      <4>1. chan' = <<>> /\ hand' = <<>>
        BY <2>7 DEF LeaveLoop, ServerKilled
      <4>2. ChanCap \in Nat
        BY PathAssumption
      <4> QED BY <4>1, <4>2
    <3>2. server' \in {"aborted", "ended"} /\ UNCHANGED <<user, far, stranded, lossy>>
      BY <2>7 DEF LeaveLoop, ServerKilled
    <3> QED BY <3>1, <3>2 DEF user, far
  <2>8. CASE CaptureDropped
    BY <2>8 DEF CaptureDropped, user, loop, far
  <2>9. CASE Inject
    <3>1. Head(link) \in Event /\ Tail(link) \in Seq(Event)
          /\ Len(Tail(link)) <= LinkCap
      BY <2>9, Dequeue DEF Inject
    <3>2. Head(link).id \in 1..MaxEvents /\ Head(link).inp \in Inputs
      BY <3>1 DEF Event
    <3>3. remote' \in SUBSET Inputs
      BY <2>9, <3>2, ApplyFields DEF Inject
    <3>4. lossy' \in BOOLEAN
      BY <2>9 DEF Inject
    <3> QED BY <2>9, <3>1, <3>2, <3>3, <3>4 DEF Inject, user, loop
  <2>10. CASE ClientEnds
    <3>1. link' \in Seq(Event) /\ Len(link') <= LinkCap
      BY <2>10, EmptySeq DEF ClientEnds
    <3> QED BY <2>10, <3>1 DEF ClientEnds, user, loop
  <2>11. CASE UNCHANGED vars
    BY <2>11 DEF vars, user, loop, far
  <2> QED
    BY <2>1, <2>3, <2>4, <2>5, <2>6, <2>7, <2>8, <2>9, <2>10, <2>11
    DEF Next, LoopSendFails, LoopPeerClosed, ClientDies, ClientEof
<1> QED BY <1>1, <1>2, PTL DEF SafeSpec

-------------------------------------------------------------------------------
(* Local control can always be taken back. *)

\* While the grab is on, the local OS keeps seeing the modifiers of the hotkey
\* down, so the callback goes on recognising the hotkey.
THEOREM GrabCanBeReleased == SafeSpec => []GrabKeepsChordDown
<1> USE DEF GrabKeepsChordDown, ChordDown
<1>1. Init => GrabKeepsChordDown
  BY DEF Init
<1>2. TypeOK /\ GrabKeepsChordDown /\ [Next]_vars => GrabKeepsChordDown'
  <2> SUFFICES ASSUME TypeOK, GrabKeepsChordDown, [Next]_vars
               PROVE  GrabKeepsChordDown'
    OBVIOUS
  <2>1. CASE KbdHotKey
    BY <2>1 DEF KbdHotKey
  <2>2. ASSUME NEW i, NEW pressed, Capture(i, pressed)
        PROVE  GrabKeepsChordDown'
    <3>1. CASE grabbed
      BY <2>2, <3>1 DEF Capture
    <3>2. CASE ~grabbed
      BY <2>2, <3>2 DEF Capture
    <3> QED BY <3>1, <3>2
  <2>3. CASE UNCHANGED <<grabbed, osDown>>
    BY <2>3
  <2> QED
    BY <2>1, <2>2, <2>3
    DEF Next, KbdHook, MouseHook, LoopRecv, LoopSend, LoopSendFails,
        LoopPeerClosed, LeaveLoop, CaptureDropped, ServerKilled, Inject,
        ClientDies, ClientEof, ClientEnds, vars, user
<1> QED BY <1>1, <1>2, TypeCorrect, PTL DEF SafeSpec

-------------------------------------------------------------------------------
(* One machine per event. *)

\* What the channel knows of the grab: the events captured since the last
\* toggle were swallowed exactly if the grab is on now.
Agreement ==
  /\ toggledAt <= n
  /\ \A k \in DOMAIN chan :
       /\ chan[k].id <= n
       /\ chan[k].id > toggledAt => (chan[k].local <=> ~grabbed)

\* Agreement is inductive: a toggle makes every queued event an older one, and
\* a capture queues the new event with the current value of the flag.
LEMMA AgreementInvariant == SafeSpec => []Agreement
<1> USE DEF Agreement
<1>1. Init => Agreement
  BY EmptySeq DEF Init
<1>2. TypeOK /\ Agreement /\ [Next]_vars => Agreement'
  <2> SUFFICES ASSUME TypeOK, Agreement, [Next]_vars PROVE Agreement'
    OBVIOUS
  <2> USE DEF TypeOK
  <2>0. /\ DOMAIN chan = 1..Len(chan) /\ Len(chan) \in Nat
        /\ \A k \in DOMAIN chan : chan[k].id \in 1..MaxEvents
    <3>1. chan \in [1..Len(chan) -> Event] /\ Len(chan) \in Nat
      BY LenProperties
    <3> QED BY <3>1 DEF Event
  <2>1. CASE KbdHotKey
    <3>1. n' = n + 1 /\ toggledAt' = n' /\ chan' = chan
      BY <2>1 DEF KbdHotKey, UserActs, loop
    <3> QED BY <2>0, <3>1
  <2>2. ASSUME NEW i, NEW pressed, UserActs(i, pressed), Capture(i, pressed)
        PROVE  Agreement'
    <3> DEFINE e == [id |-> n', inp |-> i, pressed |-> pressed, local |-> ~grabbed]
    <3>1. n' = n + 1 /\ toggledAt' = toggledAt /\ (grabbed' <=> grabbed)
      BY <2>2 DEF UserActs, Capture
    <3>2. CASE UNCHANGED chan
      BY <2>0, <3>1, <3>2
    <3>3. CASE chan' = Append(chan, e)
      <4>1. /\ DOMAIN chan' = 1..(Len(chan) + 1)
            /\ \A k \in 1..Len(chan) : chan'[k] = chan[k]
            /\ chan'[Len(chan) + 1] = e
        <5> HIDE DEF e
        <5> QED BY <2>0, <3>3
      <4>2. ASSUME NEW k \in DOMAIN chan'
            PROVE  /\ chan'[k].id <= n'
                   /\ chan'[k].id > toggledAt' => (chan'[k].local <=> ~grabbed')
        <5>1. CASE k \in DOMAIN chan
          BY <2>0, <3>1, <4>1, <5>1
        <5>2. CASE k = Len(chan) + 1
          <6>1. chan'[k].id = n' /\ chan'[k].local = ~grabbed
            BY <4>1, <5>2
          <6>2. n' <= n'
            BY <3>1
          <6> QED BY <3>1, <6>1, <6>2, Zenon
        <5> QED BY <2>0, <4>1, <4>2, <5>1, <5>2
      <4> QED BY <3>1, <4>2
    <3> QED BY <2>2, <3>2, <3>3 DEF Capture, TrySend
  <2>3. CASE LoopRecv
    <3>1. /\ DOMAIN chan' = 1..(Len(chan) - 1)
          /\ \A k \in DOMAIN chan' : chan'[k] = chan[k + 1]
          /\ UNCHANGED <<n, toggledAt, grabbed>>
      BY <2>3, Dequeue, LenProperties DEF LoopRecv, user
    <3> QED BY <2>0, <3>1
  <2>4. CASE LeaveLoop \/ ServerKilled
    BY <2>4, EmptySeq DEF LeaveLoop, ServerKilled, user
  <2>5. CASE UNCHANGED <<n, toggledAt, grabbed, chan>>
    BY <2>5
  <2> QED
    BY <2>1, <2>2, <2>3, <2>4, <2>5
    DEF Next, KbdHook, MouseHook, LoopSend, LoopSendFails, LoopPeerClosed,
        CaptureDropped, Inject, ClientDies, ClientEof, ClientEnds,
        vars, user, loop
<1> QED BY <1>1, <1>2, TypeCorrect, PTL DEF SafeSpec

\* An event captured since the last toggle goes to exactly one machine: the
\* loop forwards it if and only if the callback swallowed it.
THEOREM OneMachinePerEvent == SafeSpec => ExactlyOneMachine
<1>1. TypeOK /\ Agreement /\ [Next]_vars =>
        [LoopRecv /\ Head(chan).id > toggledAt
           => (hand' # <<>> <=> ~Head(chan).local)]_vars
  <2> SUFFICES ASSUME TypeOK, Agreement, LoopRecv, Head(chan).id > toggledAt
               PROVE  hand' # <<>> <=> ~Head(chan).local
    OBVIOUS
  <2>1. 1 \in DOMAIN chan /\ Head(chan) = chan[1]
    BY Dequeue, LenProperties DEF LoopRecv, TypeOK
  <2>2. Head(chan).local <=> ~grabbed
    BY <2>1 DEF Agreement
  <2>3. CASE grabbed
    BY <2>2, <2>3 DEF LoopRecv
  <2>4. CASE ~grabbed
    BY <2>2, <2>4 DEF LoopRecv
  <2> QED BY <2>3, <2>4
<1> QED BY <1>1, TypeCorrect, AgreementInvariant, PTL DEF SafeSpec, ExactlyOneMachine

-------------------------------------------------------------------------------
(* In order and at most once: the refinement of InputRelay. *)

\* The queues one behind the other, oldest events first; everything the client
\* took is older, and every event was caused by the user.
Increasing(q) == \A i, j \in DOMAIN q : i < j => q[i].id < q[j].id
Before(p, q) == \A e \in Range(p), f \in Range(q) : e.id < f.id
OnTheWay == Range(chan) \cup Range(hand) \cup Range(link)
Ordered ==
  /\ Increasing(chan) /\ Increasing(hand) /\ Increasing(link)
  /\ Before(link, hand) /\ Before(link, chan) /\ Before(hand, chan)
  /\ last <= n
  /\ \A e \in OnTheWay : last < e.id /\ e.id <= n

\* The elements of a queue are events with natural ids.
LEMMA RangeOfEvents ==
  ASSUME NEW q \in Seq(Event)
  PROVE  \A e \in Range(q) : e \in Event /\ e.id \in 1..MaxEvents
  <1>1. q \in [1..Len(q) -> Event]
    BY LenProperties
  <1> QED BY <1>1 DEF Range, Event

\* The empty queue, and a queue of one.
LEMMA RangeOfShort ==
  /\ Range(<<>>) = {} /\ Increasing(<<>>)
  /\ \A e : Range(<<e>>) = {e} /\ Increasing(<<e>>)
  BY DEF Range, Increasing

\* A new last element.
LEMMA RangeOfAppend ==
  ASSUME NEW q \in Seq(Event), NEW e \in Event,
         Increasing(q), \A f \in Range(q) : f.id < e.id
  PROVE  /\ Range(Append(q, e)) = Range(q) \cup {e}
         /\ Increasing(Append(q, e))
  <1> DEFINE p == Append(q, e)
  <1>1. /\ Len(q) \in Nat /\ DOMAIN q = 1..Len(q)
        /\ DOMAIN p = 1..(Len(q) + 1)
        /\ \A i \in 1..Len(q) : p[i] = q[i]
        /\ p[Len(q) + 1] = e
    BY LenProperties, AppendProperties
  <1> HIDE DEF p
  <1>2. Range(p) = Range(q) \cup {e}
    BY <1>1 DEF Range
  <1>3. Increasing(p)
    BY <1>1 DEF Increasing, Range
  <1> QED BY <1>2, <1>3 DEF p

\* The first element taken away.
LEMMA RangeOfTail ==
  ASSUME NEW q \in Seq(Event), q # <<>>, Increasing(q)
  PROVE  /\ Head(q) \in Range(q) /\ Head(q) \in Event
         /\ Range(Tail(q)) = Range(q) \ {Head(q)}
         /\ \A f \in Range(Tail(q)) : Head(q).id < f.id
         /\ Increasing(Tail(q))
  <1> DEFINE p == Tail(q)
  <1>1. /\ Len(q) \in Nat \ {0} /\ DOMAIN q = 1..Len(q)
        /\ DOMAIN p = 1..(Len(q) - 1)
        /\ \A i \in DOMAIN p : p[i] = q[i + 1]
        /\ Head(q) = q[1] /\ Head(q) \in Event
    BY Dequeue, LenProperties
  <1> HIDE DEF p
  <1>2. \A i \in DOMAIN q : q[i].id \in Nat
    BY RangeOfEvents DEF Range
  <1>3. \A i \in DOMAIN p : q[1].id < p[i].id
    BY <1>1 DEF Increasing
  <1>4. Range(p) \subseteq Range(q) \ {Head(q)}
    <2> SUFFICES ASSUME NEW i \in DOMAIN p
                 PROVE  p[i] \in Range(q) /\ p[i] # q[1]
      BY <1>1 DEF Range
    <2>1. p[i] = q[i + 1] /\ i + 1 \in DOMAIN q
      BY <1>1
    <2>2. p[i].id # q[1].id
      BY <1>1, <1>2, <1>3, <2>1
    <2> QED BY <2>1, <2>2 DEF Range
  <1>5. Range(q) \ {Head(q)} \subseteq Range(p)
    <2> SUFFICES ASSUME NEW i \in DOMAIN q, i # 1 PROVE q[i] \in Range(p)
      BY <1>1 DEF Range
    <2>1. i - 1 \in DOMAIN p /\ p[i - 1] = q[i]
      BY <1>1
    <2> QED BY <2>1 DEF Range
  <1>6. Increasing(p)
    BY <1>1 DEF Increasing
  <1>7. Head(q) \in Range(q) /\ \A f \in Range(p) : Head(q).id < f.id
    BY <1>1, <1>3 DEF Range
  <1> QED BY <1>1, <1>4, <1>5, <1>6, <1>7 DEF p

\* Ordered is inductive: events enter at the end with a new, larger id, and
\* leave every queue at its front.
LEMMA OrderedInvariant == SafeSpec => []Ordered
<1>1. Init => Ordered
  BY RangeOfShort DEF Init, Ordered, OnTheWay, Before
<1>2. TypeOK /\ Ordered /\ [Next]_vars => Ordered'
  <2> SUFFICES ASSUME TypeOK, Ordered, [Next]_vars PROVE Ordered'
    OBVIOUS
  <2>0. /\ chan \in Seq(Event) /\ hand \in Seq(Event) /\ link \in Seq(Event)
        /\ \A e \in OnTheWay : e \in Event /\ e.id \in Nat
        /\ n \in Nat /\ last \in Nat
    BY RangeOfEvents DEF TypeOK, OnTheWay
  <2>1. CASE KbdHotKey
    <3>1. n' = n + 1 /\ UNCHANGED <<chan, hand, link, last>>
      BY <2>1 DEF KbdHotKey, UserActs, loop, far
    <3> QED BY <2>0, <3>1 DEF Ordered, OnTheWay
  <2>2. ASSUME NEW i \in Inputs, NEW pressed \in BOOLEAN,
               UserActs(i, pressed), Capture(i, pressed)
        PROVE  Ordered'
    <3>1. PICK e : /\ e = [id |-> n', inp |-> i, pressed |-> pressed, local |-> ~grabbed]
                   /\ chan' \in {chan, Append(chan, e)}
      BY <2>2 DEF Capture, TrySend
    <3>2. n' = n + 1 /\ UNCHANGED <<hand, link, last>>
      BY <2>2 DEF UserActs, Capture, far
    <3>3. e \in Event /\ e.id = n + 1
      BY <2>2, <3>1, <3>2, UserActsTypes DEF Event, TypeOK
    <3>4. CASE chan' = chan
      BY <2>0, <3>2, <3>4 DEF Ordered, OnTheWay
    <3>5. CASE chan' = Append(chan, e)
      <4>1. \A f \in OnTheWay : f.id < e.id
        <5> SUFFICES ASSUME NEW f \in OnTheWay PROVE f.id < e.id
          OBVIOUS
        <5>1. f.id <= n /\ f.id \in Nat /\ n \in Nat
          BY <2>0 DEF Ordered
        <5> QED BY <3>3, <5>1
      <4>2. Range(chan') = Range(chan) \cup {e} /\ Increasing(chan')
        BY <2>0, <3>3, <3>5, <4>1, RangeOfAppend DEF Ordered, OnTheWay
      <4>3. Before(link', hand') /\ Before(link', chan') /\ Before(hand', chan')
        BY <3>2, <4>1, <4>2 DEF Ordered, OnTheWay, Before
      <4>4. ASSUME NEW f \in OnTheWay' PROVE last' < f.id /\ f.id <= n'
        <5>1. CASE f \in OnTheWay
          BY <2>0, <3>2, <5>1 DEF Ordered
        <5>2. CASE f = e
          <6>1. last <= n
            BY DEF Ordered
          <6> QED BY <2>0, <3>2, <3>3, <5>2, <6>1
        <5> QED BY <3>2, <4>2, <5>1, <5>2 DEF OnTheWay
      <4>5. last' <= n'
        BY <2>0, <3>2 DEF Ordered
      <4> QED BY <3>2, <4>2, <4>3, <4>4, <4>5 DEF Ordered
    <3> QED BY <3>1, <3>4, <3>5
  <2>3. CASE LoopRecv
    <3>1. hand = <<>> /\ chan # <<>> /\ chan' = Tail(chan)
          /\ hand' \in {<<>>, <<Head(chan)>>} /\ UNCHANGED <<n, last, link>>
      BY <2>3 DEF LoopRecv, user, far
    <3>2. /\ Head(chan) \in Range(chan)
          /\ Range(chan') = Range(chan) \ {Head(chan)}
          /\ \A f \in Range(chan') : Head(chan).id < f.id
          /\ Increasing(chan')
      BY <2>0, <3>1, RangeOfTail DEF Ordered
    <3>3. Range(hand') \subseteq {Head(chan)} /\ Increasing(hand')
      BY <3>1, RangeOfShort
    <3> QED BY <3>1, <3>2, <3>3 DEF Ordered, OnTheWay, Before
  <2>4. CASE LoopSend
    <3>1. hand # <<>> /\ hand' = <<>> /\ UNCHANGED <<n, last, chan>>
          /\ link' \in {link, Append(link, Head(hand))}
      BY <2>4 DEF LoopSend, user
    <3>2. Head(hand) \in Range(hand) /\ Head(hand) \in Event
          /\ Range(hand') = {} /\ Increasing(hand')
      BY <2>0, <3>1, RangeOfTail, RangeOfShort DEF Ordered
    <3>3. CASE link' = link
      BY <3>1, <3>2, <3>3 DEF Ordered, OnTheWay, Before
    <3>4. CASE link' = Append(link, Head(hand))
      <4>1. Range(link') = Range(link) \cup {Head(hand)} /\ Increasing(link')
        BY <2>0, <3>2, <3>4, RangeOfAppend DEF Ordered, Before
      <4> QED BY <3>1, <3>2, <4>1 DEF Ordered, OnTheWay, Before
    <3> QED BY <3>1, <3>3, <3>4
  <2>5. CASE LeaveLoop \/ ServerKilled
    BY <2>5, RangeOfShort DEF LeaveLoop, ServerKilled, user, far, Ordered, OnTheWay, Before
  <2>6. CASE Inject
    <3>1. link # <<>> /\ link' = Tail(link) /\ last' = Head(link).id
          /\ UNCHANGED <<n, chan, hand>>
      BY <2>6 DEF Inject, user, loop
    <3>2. /\ Head(link) \in Range(link)
          /\ Range(link') = Range(link) \ {Head(link)}
          /\ \A f \in Range(link') : Head(link).id < f.id
          /\ Increasing(link')
      BY <2>0, <3>1, RangeOfTail DEF Ordered
    <3> QED BY <3>1, <3>2 DEF Ordered, OnTheWay, Before
  <2>7. CASE ClientEnds
    BY <2>7, RangeOfShort DEF ClientEnds, user, loop, Ordered, OnTheWay, Before
  <2>8. CASE UNCHANGED <<n, chan, hand, link, last>>
    BY <2>8 DEF Ordered, OnTheWay
  <2> QED
    BY <2>1, <2>2, <2>3, <2>4, <2>5, <2>6, <2>7, <2>8
    DEF Next, KbdHook, MouseHook, LoopSendFails, LoopPeerClosed,
        CaptureDropped, ClientDies, ClientEof, vars, user, loop, far,
        Inputs, Holdable
<1> QED BY <1>1, <1>2, TypeCorrect, PTL DEF SafeSpec

\* InputPath implements InputRelay: whatever the channel, the loop, the socket
\* and the two ends do, the client gets the user's events in order, each at
\* most once.
THEOREM PathImplementsRelay == SafeSpec => RelaySpec
<1>1. Init => Relay!Init
  BY RangeOfShort DEF Init, Relay!Init
<1>2. TypeOK /\ Ordered /\ [Next]_vars => [Relay!Next]_(Relay!vars)
  <2> SUFFICES ASSUME TypeOK, Ordered, Next
               PROVE  Relay!Next \/ UNCHANGED Relay!vars
    <3>1. UNCHANGED vars => UNCHANGED Relay!vars
      BY DEF vars, user, loop, far, Relay!vars
    <3> QED BY <3>1
  <2>0. /\ chan \in Seq(Event) /\ hand \in Seq(Event) /\ link \in Seq(Event)
        /\ n \in Nat /\ Relay!Event = Event
        /\ \A e \in OnTheWay : e.id \in Nat
    <3>1. Relay!Event = Event
      BY DEF Event, Relay!Event
    <3>2. \A e \in OnTheWay : e.id \in Nat
      BY RangeOfEvents DEF TypeOK, OnTheWay
    <3> QED BY <3>1, <3>2 DEF TypeOK
  \* The ways in which a step of the path is a step of the relay.
  <2>a. ASSUME NEW e \in Event, e.id = n', n' = n + 1, n < MaxEvents,
               OnTheWay' \in {OnTheWay, OnTheWay \cup {e}}, UNCHANGED <<last, remote>>
        PROVE  Relay!Next
    BY <2>0, <2>a DEF OnTheWay, Relay!Next, Relay!Issue
  <2>b. ASSUME NEW lost \in SUBSET OnTheWay, OnTheWay' = OnTheWay \ lost,
               remote' \in {remote, {}}, UNCHANGED <<n, last>>
        PROVE  Relay!Next
    BY <2>b DEF OnTheWay, Relay!Next, Relay!Lose
  <2>1. CASE KbdHotKey
    <3> DEFINE e == [id |-> n', inp |-> HotKey, pressed |-> TRUE, local |-> TRUE]
    <3>1. n' \in 1..MaxEvents /\ n' = n + 1 /\ n < MaxEvents
      BY <2>1, UserActsTypes DEF KbdHotKey, UserActs
    <3>2. e \in Event
      BY <3>1 DEF Event, Inputs, Holdable
    <3>3. OnTheWay' = OnTheWay /\ UNCHANGED <<last, remote>>
      BY <2>1 DEF KbdHotKey, loop, far, OnTheWay
    <3> QED BY <2>a, <3>1, <3>2, <3>3
  <2>2. ASSUME NEW i \in Inputs, NEW pressed \in BOOLEAN,
               UserActs(i, pressed), Capture(i, pressed)
        PROVE  Relay!Next
    <3>1. PICK e : /\ e = [id |-> n', inp |-> i, pressed |-> pressed, local |-> ~grabbed]
                   /\ chan' \in {chan, Append(chan, e)}
      BY <2>2 DEF Capture, TrySend
    <3>2. n' \in 1..MaxEvents /\ n' = n + 1 /\ n < MaxEvents
      BY <2>2, UserActsTypes DEF UserActs
    <3>3. e \in Event /\ e.id = n'
      BY <3>1, <3>2 DEF Event, TypeOK
    <3>4. \A f \in Range(chan) : f.id < e.id
      <4> SUFFICES ASSUME NEW f \in Range(chan) PROVE f.id < e.id
        OBVIOUS
      <4>1. f.id \in Nat /\ f.id <= n /\ n \in Nat
        BY <2>0 DEF Ordered, OnTheWay
      <4> QED BY <3>2, <3>3, <4>1
    <3>5. Range(Append(chan, e)) = Range(chan) \cup {e}
      BY <2>0, <3>3, <3>4, RangeOfAppend DEF Ordered
    <3>6. Range(chan') \in {Range(chan), Range(chan) \cup {e}}
          /\ UNCHANGED <<hand, link, last, remote>>
      BY <2>2, <3>1, <3>5 DEF Capture, far
    <3>7. OnTheWay' \in {OnTheWay, OnTheWay \cup {e}}
      BY <3>6 DEF OnTheWay
    <3> QED BY <2>a, <3>2, <3>3, <3>6, <3>7
  <2>3. CASE LoopRecv
    <3>1. hand = <<>> /\ chan # <<>> /\ chan' = Tail(chan)
          /\ hand' \in {<<>>, <<Head(chan)>>} /\ UNCHANGED <<n, last, link, remote>>
      BY <2>3 DEF LoopRecv, user, far
    <3>2. Head(chan) \in Range(chan) /\ Range(chan') = Range(chan) \ {Head(chan)}
      BY <2>0, <3>1, RangeOfTail DEF Ordered
    <3>3. Head(chan) \notin Range(link)
      <4> SUFFICES ASSUME Head(chan) \in Range(link) PROVE FALSE
        OBVIOUS
      <4>1. Head(chan).id < Head(chan).id /\ Head(chan).id \in Nat
        BY <2>0, <3>2 DEF Ordered, Before, OnTheWay
      <4> QED BY <4>1
    <3>4. CASE hand' = <<Head(chan)>>
      <4>1. OnTheWay' = OnTheWay
        BY <3>1, <3>2, <3>4, RangeOfShort DEF OnTheWay
      <4> QED BY <3>1, <4>1 DEF OnTheWay, Relay!vars
    <3>5. CASE hand' = <<>>
      <4>1. OnTheWay' = OnTheWay \ {Head(chan)} /\ {Head(chan)} \in SUBSET OnTheWay
        BY <3>1, <3>2, <3>3, <3>5, RangeOfShort DEF OnTheWay
      <4> QED BY <2>b, <3>1, <4>1
    <3> QED BY <3>1, <3>4, <3>5
  <2>4. CASE LoopSend
    <3>1. hand # <<>> /\ hand' = <<>> /\ UNCHANGED <<n, last, chan, remote>>
          /\ link' \in {link, Append(link, Head(hand))}
      BY <2>4 DEF LoopSend, user
    <3>2. Head(hand) \in Event /\ Range(hand) = {Head(hand)}
      <4>1. Len(hand) \in Nat \ {0} /\ Len(hand) <= 1 /\ Head(hand) = hand[1]
        BY <2>0, <3>1, Dequeue DEF TypeOK
      <4>2. DOMAIN hand = {1}
        <5>1. DOMAIN hand = 1..Len(hand)
          BY <2>0, LenProperties
        <5> QED BY <4>1, <5>1
      <4>3. Head(hand) \in Event
        BY <2>0, <3>1, Dequeue
      <4> QED BY <4>1, <4>2, <4>3 DEF Range
    <3>3. CASE link' = Append(link, Head(hand))
      <4>1. Range(link') = Range(link) \cup {Head(hand)}
        BY <2>0, <3>2, <3>3, RangeOfAppend DEF Ordered, Before
      <4>2. OnTheWay' = OnTheWay
        BY <3>1, <3>2, <4>1, RangeOfShort DEF OnTheWay
      <4> QED BY <3>1, <4>2 DEF OnTheWay, Relay!vars
    <3>4. CASE link' = link
      <4>1. Head(hand) \notin Range(link) \cup Range(chan)
        <5> SUFFICES ASSUME Head(hand) \in Range(link) \cup Range(chan) PROVE FALSE
          OBVIOUS
        <5>1. Head(hand).id < Head(hand).id /\ Head(hand).id \in Nat
          BY <2>0, <3>2 DEF Ordered, Before, OnTheWay
        <5> QED BY <5>1
      <4>2. OnTheWay' = OnTheWay \ {Head(hand)} /\ {Head(hand)} \in SUBSET OnTheWay
        BY <3>1, <3>2, <3>4, <4>1, RangeOfShort DEF OnTheWay
      <4> QED BY <2>b, <3>1, <4>2
    <3> QED BY <3>1, <3>3, <3>4
  <2>5. CASE LeaveLoop \/ ServerKilled
    <3> DEFINE lost == (Range(chan) \cup Range(hand)) \ Range(link)
    <3>1. OnTheWay' = OnTheWay \ lost /\ lost \in SUBSET OnTheWay
      BY <2>5, RangeOfShort DEF LeaveLoop, ServerKilled, far, OnTheWay
    <3> QED BY <2>5, <2>b, <3>1 DEF LeaveLoop, ServerKilled, user, far
  <2>6. CASE Inject
    <3> DEFINE e == Head(link)
    <3>1. link # <<>> /\ link' = Tail(link) /\ last' = e.id
          /\ remote' \in {remote, Apply(e, remote)} /\ UNCHANGED <<n, chan, hand>>
      BY <2>6 DEF Inject, user, loop
    <3>2. /\ e \in Range(link) /\ Range(link') = Range(link) \ {e}
          /\ \A f \in Range(link') : e.id < f.id
      BY <2>0, <3>1, RangeOfTail DEF Ordered
    <3>3. \A f \in OnTheWay : f = e \/ e.id < f.id
      BY <3>2 DEF Ordered, Before, OnTheWay
    <3>4. \A f \in OnTheWay : e.id <= f.id
      BY <2>0, <3>2, <3>3 DEF OnTheWay
    <3>5. e \notin Range(chan) \cup Range(hand)
      <4> SUFFICES ASSUME e \in Range(chan) \cup Range(hand) PROVE FALSE
        OBVIOUS
      <4>1. e.id < e.id /\ e.id \in Nat
        BY <2>0, <3>2 DEF Ordered, Before, OnTheWay
      <4> QED BY <4>1
    <3>6. OnTheWay' = OnTheWay \ {e} /\ e \in OnTheWay
      BY <3>1, <3>2, <3>5 DEF OnTheWay
    <3> HIDE DEF e
    <3> QED BY <3>1, <3>4, <3>6
            DEF OnTheWay, Relay!Next, Relay!Deliver, Apply, Relay!Apply
  <2>7. CASE ClientEnds
    <3> DEFINE lost == Range(link) \ (Range(chan) \cup Range(hand))
    <3>1. OnTheWay' = OnTheWay \ lost /\ lost \in SUBSET OnTheWay
      BY <2>7, RangeOfShort DEF ClientEnds, loop, OnTheWay
    <3> QED BY <2>7, <2>b, <3>1 DEF ClientEnds, user
  <2>8. CASE CaptureDropped
    BY <2>8 DEF CaptureDropped, user, loop, far, Relay!vars
  <2> QED
    BY <2>1, <2>2, <2>3, <2>4, <2>5, <2>6, <2>7, <2>8
    DEF Next, KbdHook, MouseHook, LoopSendFails, LoopPeerClosed,
        ClientDies, ClientEof, Inputs, Holdable
<1> QED
  BY <1>1, <1>2, TypeCorrect, OrderedInvariant, PTL
  DEF SafeSpec, RelaySpec, Relay!Spec

-------------------------------------------------------------------------------
(* Nothing stays held on the client by accident. *)

\* An input is held after a queue by its last event, or as before if none is
\* about it.
LastIsPress(i, q) ==
  \E k \in DOMAIN q : /\ q[k].inp = i /\ q[k].pressed
                      /\ \A m \in DOMAIN q : q[m].inp = i => m <= k

\* The same, said of one input.
LEMMA AfterLast ==
  ASSUME NEW q, NEW down, NEW i \in Holdable
  PROVE  i \in After(q, down) <=>
           \/ LastIsPress(i, q)
           \/ i \in down /\ \A k \in DOMAIN q : q[k].inp # i
  BY DEF After, LastIsPress

\* What is down before a queue matters only for the inputs it is not about.
LEMMA AfterGrows ==
  ASSUME NEW q, NEW down
  PROVE  After(q, {}) \subseteq After(q, down) /\ After(q, down) \subseteq Holdable
  BY AfterLast DEF After

\* One more event at the end is applied last.
LEMMA AfterAppend ==
  ASSUME NEW q \in Seq(Event), NEW e \in Event, NEW down
  PROVE  After(Append(q, e), down) = Apply(e, After(q, down))
  <1> DEFINE p == Append(q, e)
  <1>1. /\ Len(q) \in Nat /\ DOMAIN q = 1..Len(q)
        /\ DOMAIN p = 1..(Len(q) + 1)
        /\ \A k \in 1..Len(q) : p[k] = q[k]
        /\ p[Len(q) + 1] = e
    BY LenProperties, AppendProperties
  <1> HIDE DEF p
  <1>2. ASSUME NEW i \in Holdable
        PROVE  i \in After(p, down) <=> i \in Apply(e, After(q, down))
    <2>1. CASE e.inp = i
      <3>1. i \notin Motions
        BY DEF Holdable
      <3>2. LastIsPress(i, p) <=> e.pressed
        BY <1>1, <2>1 DEF LastIsPress
      <3>3. i \in After(p, down) <=> e.pressed
        BY <1>1, <2>1, <3>2, AfterLast
      <3> QED BY <2>1, <3>1, <3>3 DEF Apply
    <2>2. CASE e.inp # i
      <3>1. LastIsPress(i, p) <=> LastIsPress(i, q)
        <4>1. \A k \in DOMAIN p : p[k].inp = i => k \in DOMAIN q /\ q[k] = p[k]
          BY <1>1, <2>2
        <4>2. \A k \in DOMAIN q : k \in DOMAIN p /\ q[k] = p[k]
          BY <1>1
        <4> QED BY <4>1, <4>2 DEF LastIsPress
      <3>2. (\A k \in DOMAIN p : p[k].inp # i) <=> (\A k \in DOMAIN q : q[k].inp # i)
        BY <1>1, <2>2
      <3>3. i \in After(p, down) <=> i \in After(q, down)
        BY <3>1, <3>2, AfterLast
      <3> QED BY <2>2, <3>3 DEF Apply
    <2> QED BY <2>1, <2>2
  <1>3. After(p, down) \subseteq Holdable /\ Apply(e, After(q, down)) \subseteq Holdable
    <2>1. e.inp \in Holdable \/ e.inp \in Motions
      BY DEF Event, Inputs
    <2> QED BY <2>1, AfterGrows DEF Apply
  <1> QED BY <1>2, <1>3 DEF p

\* The first event of a queue may as well be applied before the rest.
LEMMA AfterTail ==
  ASSUME NEW q \in Seq(Event), q # <<>>, NEW down
  PROVE  After(q, down) = After(Tail(q), Apply(Head(q), down))
  <1> DEFINE p == Tail(q)
             e == Head(q)
  <1>1. /\ Len(q) \in Nat \ {0} /\ DOMAIN q = 1..Len(q)
        /\ DOMAIN p = 1..(Len(q) - 1)
        /\ \A k \in DOMAIN p : p[k] = q[k + 1]
        /\ e = q[1] /\ e \in Event
    BY Dequeue, LenProperties
  <1> HIDE DEF p, e
  <1>2. ASSUME NEW i \in Holdable
        PROVE  i \in After(q, down) <=> i \in After(p, Apply(e, down))
    <2>1. CASE \E k \in DOMAIN p : p[k].inp = i
      <3>1. \E k \in DOMAIN q : q[k].inp = i
        BY <1>1, <2>1
      <3>2. LastIsPress(i, p) => LastIsPress(i, q)
        <4> SUFFICES ASSUME NEW k \in DOMAIN p, p[k].inp = i, p[k].pressed,
                            \A m \in DOMAIN p : p[m].inp = i => m <= k
                     PROVE  LastIsPress(i, q)
          BY DEF LastIsPress
        <4>1. k + 1 \in DOMAIN q /\ q[k + 1] = p[k]
          BY <1>1
        <4>2. ASSUME NEW m \in DOMAIN q, q[m].inp = i PROVE m <= k + 1
          <5>1. CASE m = 1
            BY <1>1, <5>1
          <5>2. CASE m # 1
            <6>1. m - 1 \in DOMAIN p /\ p[m - 1] = q[m]
              BY <1>1, <5>2
            <6>2. m - 1 <= k
              BY <4>2, <6>1
            <6> QED BY <1>1, <6>2
          <5> QED BY <5>1, <5>2
        <4> QED BY <4>1, <4>2 DEF LastIsPress
      <3>3. LastIsPress(i, q) => LastIsPress(i, p)
        <4> SUFFICES ASSUME NEW k \in DOMAIN q, q[k].inp = i, q[k].pressed,
                            \A m \in DOMAIN q : q[m].inp = i => m <= k
                     PROVE  LastIsPress(i, p)
          BY DEF LastIsPress
        <4>1. PICK j \in DOMAIN p : p[j].inp = i
          BY <2>1
        <4>2. j + 1 <= k
          BY <1>1, <4>1
        <4>3. k - 1 \in DOMAIN p /\ p[k - 1] = q[k]
          BY <1>1, <4>2
        <4>4. \A m \in DOMAIN p : p[m].inp = i => m <= k - 1
          BY <1>1
        <4> QED BY <4>3, <4>4 DEF LastIsPress
      <3> QED BY <2>1, <3>1, <3>2, <3>3, AfterLast
    <2>2. CASE \A k \in DOMAIN p : p[k].inp # i
      <3>1. \A k \in DOMAIN q : k # 1 => q[k].inp # i
        <4> SUFFICES ASSUME NEW k \in DOMAIN q, k # 1 PROVE q[k].inp # i
          OBVIOUS
        <4>1. k - 1 \in DOMAIN p /\ p[k - 1] = q[k]
          BY <1>1
        <4> QED BY <2>2, <4>1
      <3>2. ~LastIsPress(i, p)
        BY <2>2 DEF LastIsPress
      <3>3. i \notin Motions
        BY DEF Holdable
      <3>4. CASE e.inp = i
        <4>1. LastIsPress(i, q) <=> e.pressed
          BY <1>1, <3>1, <3>4 DEF LastIsPress
        <4>2. i \in After(q, down) <=> e.pressed
          BY <1>1, <3>4, <4>1, AfterLast
        <4>3. i \in Apply(e, down) <=> e.pressed
          BY <3>3, <3>4 DEF Apply
        <4> QED BY <2>2, <3>2, <4>2, <4>3, AfterLast
      <3>5. CASE e.inp # i
        <4>1. ~LastIsPress(i, q) /\ \A k \in DOMAIN q : q[k].inp # i
          BY <1>1, <3>1, <3>5 DEF LastIsPress
        <4>2. i \in Apply(e, down) <=> i \in down
          BY <3>5 DEF Apply
        <4> QED BY <2>2, <3>2, <4>1, <4>2, AfterLast
      <3> QED BY <3>4, <3>5
    <2> QED BY <2>1, <2>2
  <1> QED BY <1>2, AfterGrows DEF p, e
\* What the loop holds in its hand is behind what is on the connection.
LEMMA Sent ==
  ASSUME TypeOK
  PROVE  /\ link \o hand \in Seq(Event)
         /\ hand = <<>> => link \o hand = link
         /\ hand # <<>> => /\ hand = <<Head(hand)>> /\ Head(hand) \in Event
                           /\ link \o hand = Append(link, Head(hand))
         /\ \A e \in Event : hand = <<>> => link \o <<e>> = Append(link \o hand, e)
  <1>1. link \in Seq(Event) /\ hand \in Seq(Event)
    BY DEF TypeOK
  <1>2. link \o hand \in Seq(Event) /\ link \o <<>> = link
    BY <1>1, ConcatProperties, ConcatEmptySeq
  <1>3. ASSUME hand # <<>> PROVE hand = <<Head(hand)>> /\ Head(hand) \in Event
    <2>1. Head(hand) = hand[1] /\ Head(hand) \in Event
      BY <1>1, <1>3, Dequeue
    <2>2. Len(hand) <= 1 /\ Len(hand) \in Nat \ {0}
      BY <1>1, <1>3, Dequeue DEF TypeOK
    <2>3. Len(hand) = 1
      <3>1. \A l \in Nat \ {0} : l <= 1 => l = 1
        OBVIOUS
      <3> QED BY <2>2, <3>1, Zenon
    <2>4. /\ <<Head(hand)>> \in Seq(Event) /\ Len(<<Head(hand)>>) = 1
          /\ <<Head(hand)>>[1] = Head(hand)
      BY <2>1
    <2>5. <<Head(hand)>> = hand
      BY <1>1, <2>1, <2>3, <2>4, SeqEqual
    <2> QED BY <2>1, <2>5
  <1>4. \A e \in Event : link \o <<e>> = Append(link, e)
    BY <1>1, AppendIsConcat
  <1> QED BY <1>2, <1>3, <1>4

\* As long as nothing was lost and both ends are there: only inputs with a
\* Message are under way, an input whose newest event in the channel is a press
\* is still held by the user, and what the client will hold is as promised.
Tracked ==
  server = "loop" /\ client = "up" /\ ~lossy =>
    /\ WillHold \subseteq Mapped
    /\ \A k \in DOMAIN chan : chan[k].inp \in Mapped
    /\ After(chan, {}) \subseteq phys
    /\ \A i \in WillHold \ stranded :
         /\ grabbed
         /\ i \in After(chan, WillHold) => i \in phys

\* A user event: the channel gets it if there is a Message for it, and so knows
\* of every release of an input the client may hold.
LEMMA TrackedCapture ==
  ASSUME TypeOK, Tracked, NEW i \in Inputs, NEW pressed \in BOOLEAN,
         UserActs(i, pressed), Capture(i, pressed)
  PROVE  Tracked'
  <1> SUFFICES ASSUME server = "loop", client = "up", ~lossy'
               PROVE  /\ WillHold' \subseteq Mapped
                      /\ \A k \in DOMAIN chan' : chan'[k].inp \in Mapped
                      /\ After(chan', {}) \subseteq phys'
                      /\ \A j \in WillHold' \ stranded' :
                           /\ grabbed'
                           /\ j \in After(chan', WillHold') => j \in phys'
    BY DEF Capture, far, Tracked
  <1> DEFINE e == [id |-> n', inp |-> i, pressed |-> pressed, local |-> ~grabbed]
  <1>1. WillHold' = WillHold /\ UNCHANGED <<stranded, grabbed>>
    BY DEF Capture, far, WillHold
  <1>2. ~lossy
    BY DEF Capture, TrySend
  <1>3. /\ WillHold \subseteq Mapped
        /\ \A k \in DOMAIN chan : chan[k].inp \in Mapped
        /\ After(chan, {}) \subseteq phys
        /\ \A j \in WillHold \ stranded :
             /\ grabbed
             /\ j \in After(chan, WillHold) => j \in phys
    BY <1>2 DEF Tracked
  <1>4. phys' = Apply(e, phys)
    BY DEF UserActs, Apply
  <1>5. chan \in Seq(Event)
    BY DEF TypeOK
  <1>6. e \in Event
    BY UserActsTypes DEF Event, TypeOK
  <1>7. CASE i \in Mapped
    <2>1. chan' = Append(chan, e)
      BY <1>2, <1>7 DEF Capture, TrySend
    <2>2. e.inp = i
      OBVIOUS
    <2> HIDE DEF e
    <2>3. \A down : After(chan', down) = Apply(e, After(chan, down))
      BY <1>5, <1>6, <2>1, AfterAppend
    <2>4. \A k \in DOMAIN chan' : chan'[k].inp \in Mapped
      <3>1. ASSUME NEW k \in DOMAIN chan'
            PROVE  (k \in DOMAIN chan /\ chan'[k] = chan[k]) \/ chan'[k] = e
        BY <1>5, <1>6, <2>1, AppendProperties, LenProperties
      <3> QED BY <1>3, <1>7, <2>2, <3>1
    <2>5. After(chan', {}) \subseteq phys'
      BY <1>3, <1>4, <2>3 DEF Apply
    <2>6. ASSUME NEW j \in WillHold \ stranded, j \in After(chan', WillHold)
          PROVE  j \in phys'
      BY <1>3, <1>4, <2>3, <2>6 DEF Apply
    <2> QED BY <1>1, <1>3, <2>4, <2>5, <2>6
  <1>8. CASE i \notin Mapped
    <2>1. chan' = chan
      BY <1>8 DEF Capture
    <2>2. phys \subseteq phys' \cup {i}
      BY <1>4 DEF Apply
    <2>3. i \notin WillHold /\ ~LastIsPress(i, chan)
      BY <1>3, <1>8 DEF LastIsPress
    <2>4. i \notin After(chan, {})
      <3>1. CASE i \in Holdable
        BY <2>3, <3>1, AfterLast
      <3>2. CASE i \notin Holdable
        BY <3>2, AfterGrows
      <3> QED BY <3>1, <3>2
    <2> QED BY <1>1, <1>3, <2>1, <2>2, <2>3, <2>4
  <1> QED BY <1>7, <1>8

\* Tracked is inductive together with TypeOK.
LEMMA TrackedInvariant == SafeSpec => []Tracked
<1>1. Init => Tracked
  <2> SUFFICES ASSUME Init PROVE Tracked
    OBVIOUS
  <2>1. link \o hand = <<>>
    BY EmptySeq, ConcatEmptySeq DEF Init
  <2>2. \A i \in Holdable : ~LastIsPress(i, <<>>)
    BY EmptySeq DEF LastIsPress
  <2>3. After(<<>>, {}) = {}
    BY <2>2, AfterLast, AfterGrows
  <2>4. WillHold = {} /\ After(chan, {}) = {} /\ DOMAIN chan = {}
    BY <2>1, <2>3, EmptySeq DEF Init, WillHold
  <2> QED BY <2>4 DEF Tracked
<1>2. TypeOK /\ Tracked /\ [Next]_vars => Tracked'
  <2> SUFFICES ASSUME TypeOK, Tracked, [Next]_vars PROVE Tracked'
    OBVIOUS
  <2>0. chan \in Seq(Event) /\ link \in Seq(Event) /\ hand \in Seq(Event)
    BY DEF TypeOK
  <2>1. CASE KbdHotKey
    <3>1. WillHold' = WillHold /\ UNCHANGED <<chan, server, client, lossy>>
      BY <2>1 DEF KbdHotKey, loop, far, WillHold
    <3>2. phys \subseteq phys'
      BY <2>1 DEF KbdHotKey, UserActs, Apply
    <3>3. stranded' = IF grabbed THEN stranded \cup WillHold ELSE stranded
      BY <2>1 DEF KbdHotKey
    <3> QED BY <3>1, <3>2, <3>3 DEF Tracked
  <2>2. ASSUME NEW i \in Inputs, NEW pressed \in BOOLEAN,
               UserActs(i, pressed), Capture(i, pressed)
        PROVE  Tracked'
    BY <2>2, TrackedCapture
  <2>3. CASE LoopRecv
    <3> SUFFICES ASSUME server = "loop", client = "up", ~lossy
                 PROVE  /\ WillHold' \subseteq Mapped
                        /\ \A k \in DOMAIN chan' : chan'[k].inp \in Mapped
                        /\ After(chan', {}) \subseteq phys'
                        /\ \A i \in WillHold' \ stranded' :
                             /\ grabbed'
                             /\ i \in After(chan', WillHold') => i \in phys'
      BY <2>3 DEF LoopRecv, far, Tracked
    <3> DEFINE e == Head(chan)
    <3>1. /\ WillHold \subseteq Mapped
          /\ \A k \in DOMAIN chan : chan[k].inp \in Mapped
          /\ After(chan, {}) \subseteq phys
          /\ \A i \in WillHold \ stranded :
               /\ grabbed
               /\ i \in After(chan, WillHold) => i \in phys
      BY DEF Tracked
    <3>2. /\ hand = <<>> /\ chan # <<>> /\ chan' = Tail(chan)
          /\ hand' = IF grabbed THEN <<e>> ELSE <<>>
          /\ stranded' = IF grabbed THEN stranded \ {e.inp} ELSE stranded
          /\ UNCHANGED <<phys, grabbed, link, remote>>
      BY <2>3 DEF LoopRecv, user, far
    <3>3. /\ e \in Event /\ e = chan[1]
          /\ 1 \in DOMAIN chan
          /\ \A k \in DOMAIN chan' : k + 1 \in DOMAIN chan /\ chan'[k] = chan[k + 1]
      <4>1. Len(chan) \in Nat \ {0} /\ DOMAIN chan = 1..Len(chan)
            /\ DOMAIN chan' = 1..(Len(chan) - 1)
        BY <2>0, <3>2, Dequeue, LenProperties
      <4>2. e \in Event /\ e = chan[1] /\ \A k \in DOMAIN chan' : chan'[k] = chan[k + 1]
        BY <2>0, <3>2, <4>1, Dequeue
      <4> HIDE DEF e
      <4> QED BY <4>1, <4>2
    <3>4. \A k \in DOMAIN chan' : chan'[k].inp \in Mapped
      BY <3>1, <3>3
    <3>5. e.inp \in Mapped
      BY <3>1, <3>3
    <3> HIDE DEF e
    <3>6. \A down : After(chan, down) = After(chan', Apply(e, down))
      BY <2>0, <3>2, AfterTail DEF e
    <3>7. After(chan', {}) \subseteq phys'
      <4>1. After(chan', {}) \subseteq After(chan, {})
        BY <3>6, AfterGrows
      <4> QED BY <3>1, <3>2, <4>1
    <3>8. CASE ~grabbed
      <4>1. WillHold' = WillHold
        BY <3>2, <3>8 DEF WillHold
      <4> QED BY <3>1, <3>2, <3>4, <3>7, <3>8, <4>1
    <3>9. CASE grabbed
      <4>1. WillHold' = Apply(e, WillHold)
        <5>1. link' \o hand' = Append(link \o hand, e)
          BY <3>2, <3>3, <3>9, Sent
        <5>2. link \o hand \in Seq(Event)
          BY Sent
        <5>3. After(Append(link \o hand, e), remote) = Apply(e, WillHold)
          BY <3>3, <5>2, AfterAppend DEF WillHold
        <5>4. WillHold' = After(link' \o hand', remote)
          BY <3>2 DEF WillHold
        <5> QED BY <5>1, <5>3, <5>4
      <4>2. WillHold' \subseteq Mapped
        BY <3>1, <3>5, <4>1 DEF Apply
      <4>3. After(chan', WillHold') = After(chan, WillHold)
        BY <3>6, <4>1
      <4>4. ASSUME NEW i \in WillHold' \ stranded', i \in After(chan', WillHold')
            PROVE  i \in phys'
        <5>1. CASE i = e.inp
          <6>1. i \in Holdable
            BY <4>4, AfterGrows
          <6>2. i \in After(chan, {})
            BY <3>3, <4>3, <4>4, <5>1, <6>1, AfterLast
          <6> QED BY <3>1, <3>2, <6>2
        <5>2. CASE i # e.inp
          <6>1. i \in WillHold \ stranded
            BY <3>2, <3>9, <4>1, <4>4, <5>2 DEF Apply
          <6> QED BY <3>1, <3>2, <4>3, <4>4, <6>1
        <5> QED BY <5>1, <5>2
      <4> QED BY <3>2, <3>4, <3>7, <3>9, <4>2, <4>4
    <3> QED BY <3>8, <3>9
  <2>4. CASE LoopSend
    <3> SUFFICES ASSUME client = "up" PROVE Tracked'
      BY <2>4 DEF LoopSend, Tracked
    <3>1. hand # <<>> /\ hand' = <<>> /\ link' = Append(link, Head(hand))
          /\ UNCHANGED <<chan, phys, grabbed, remote, client, server, stranded, lossy>>
      BY <2>4 DEF LoopSend, user
    <3>2. Append(link, Head(hand)) \in Seq(Event)
      BY <2>0, <3>1, Sent, AppendProperties
    <3>3. link' \o hand' = link \o hand
      BY <3>1, <3>2, Sent, ConcatEmptySeq
    <3>4. WillHold' = WillHold
      BY <3>1, <3>3 DEF WillHold
    <3> QED BY <3>1, <3>4 DEF Tracked
  <2>5. CASE LeaveLoop \/ ServerKilled \/ CaptureDropped
    BY <2>5 DEF LeaveLoop, ServerKilled, CaptureDropped, Tracked
  <2>6. CASE Inject
    <3> SUFFICES ASSUME ~lossy' PROVE Tracked'
      BY DEF Tracked
    <3>1. link # <<>> /\ link' = Tail(link) /\ remote' = Apply(Head(link), remote)
          /\ UNCHANGED <<chan, hand, phys, grabbed, client, server, stranded, lossy>>
      BY <2>6 DEF Inject, user, loop
    <3>2. link \o hand # <<>> /\ Head(link \o hand) = Head(link)
          /\ Tail(link \o hand) = Tail(link) \o hand
      <4>1. CASE hand = <<>>
        <5>1. Tail(link) \o <<>> = Tail(link)
          BY <2>0, <3>1, Dequeue, ConcatEmptySeq
        <5> QED BY <3>1, <4>1, <5>1, Sent
      <4>2. CASE hand # <<>>
        <5>1. link \o hand = Append(link, Head(hand)) /\ hand = <<Head(hand)>>
              /\ Head(hand) \in Event
          BY <4>2, Sent
        <5>2. /\ Head(Append(link, Head(hand))) = Head(link)
              /\ Tail(Append(link, Head(hand))) = Append(Tail(link), Head(hand))
              /\ Append(link, Head(hand)) # <<>>
          BY <2>0, <3>1, <5>1, HeadTailAppend, AppendProperties
        <5>3. Append(Tail(link), Head(hand)) = Tail(link) \o <<Head(hand)>>
          BY <2>0, <3>1, <5>1, Dequeue, AppendIsConcat
        <5> QED BY <5>1, <5>2, <5>3
      <4> QED BY <4>1, <4>2
    <3>3. WillHold' = WillHold
      BY <3>1, <3>2, Sent, AfterTail DEF WillHold
    <3> QED BY <3>1, <3>3 DEF Tracked
  <2>7. CASE ClientEnds
    BY <2>7 DEF ClientEnds, Tracked
  <2>8. CASE UNCHANGED vars
    BY <2>8 DEF vars, user, loop, far, Tracked, WillHold
  <2> QED
    BY <2>1, <2>2, <2>3, <2>4, <2>5, <2>6, <2>7, <2>8
    DEF Next, KbdHook, MouseHook, LoopSendFails, LoopPeerClosed,
        ClientDies, ClientEof, Inputs, Holdable
<1> QED BY <1>1, <1>2, TypeCorrect, PTL DEF SafeSpec

\* In every session, whatever the sizes of its queues: an input the client holds
\* or will hold is still held by the user or has its release in the channel and
\* the grab on to let it through, but for what the grab left behind when it went
\* off, and as long as no event is lost.
THEOREM NothingSticks == SafeSpec => []NoStuckInputs
<1>1. Tracked => NoStuckInputs
  BY DEF Tracked, NoStuckInputs
<1> QED BY <1>1, TrackedInvariant, PTL
===============================================================================
