--------------------------- MODULE InputRelayProofs ----------------------------
(***************************************************************************)
(* What the promise of InputRelay amounts to, and with it, through the     *)
(* theorem PathImplementsRelay, what holds of the whole path.              *)
(***************************************************************************)
EXTENDS InputRelay, TLAPS

\* In every state the events on their way are newer than what the client took
\* from the loop's stream, were caused by the user, and differ from each other.
THEOREM RelayInOrder ==
  ASSUME MaxEvents \in Nat
  PROVE  Spec => [](TypeOK /\ InOrder)
<1> USE DEF TypeOK, InOrder
<1>1. Init => TypeOK /\ InOrder
  BY DEF Init
<1>2. TypeOK /\ InOrder /\ [Next]_vars => TypeOK' /\ InOrder'
  <2> SUFFICES ASSUME TypeOK, InOrder, [Next]_vars PROVE TypeOK' /\ InOrder'
    OBVIOUS
  <2>0. last \in Nat /\ issued \in Nat /\ \A e \in pending : e \in Event /\ e.id \in 1..MaxEvents
    BY DEF Event
  <2>1. ASSUME NEW e \in Event, Issue(e) PROVE TypeOK' /\ InOrder'
    <3>1. /\ e.id = issued + 1 /\ issued' = issued + 1 /\ last' = last
          /\ pending' \subseteq pending \cup {e} /\ issued' \in 0..MaxEvents
          /\ held' = held
      BY <2>1 DEF Issue
    <3>2. \A f \in pending : f.id < e.id
      BY <2>0, <3>1
    <3>3. \A f \in pending' : last' < f.id /\ f.id <= issued'
      <4> SUFFICES ASSUME NEW f \in pending'
                   PROVE  last' < f.id /\ f.id <= issued'
        OBVIOUS
      <4>1. CASE f \in pending
        BY <2>0, <3>1, <4>1
      <4>2. CASE f = e
        BY <3>1, <4>2
      <4> QED BY <3>1, <4>1, <4>2
    <3>4. \A f, g \in pending' : f.id = g.id => f = g
      <4> SUFFICES ASSUME NEW f \in pending', NEW g \in pending', f.id = g.id, f # g
                   PROVE  FALSE
        OBVIOUS
      <4>1. CASE f \in pending /\ g \in pending
        BY <4>1
      <4>2. CASE f = e \/ g = e
        <5>1. e.id < e.id
          BY <3>1, <3>2, <4>2
        <5> QED BY <2>1, <3>1, <5>1
      <4> QED BY <3>1, <4>1, <4>2
    <3> QED BY <2>1, <3>1, <3>3, <3>4
  <2>2. ASSUME NEW lost \in SUBSET pending, Lose(lost) PROVE TypeOK' /\ InOrder'
    <3>1. TypeOK'
      BY <2>2 DEF Lose
    <3> QED BY <2>2, <3>1 DEF Lose
  <2>3. ASSUME NEW e \in pending, Deliver(e) PROVE TypeOK' /\ InOrder'
    <3>1. e.id \in 1..MaxEvents /\ e.inp \in Inputs
      BY DEF Event
    <3>2. TypeOK'
      BY <2>3, <3>1 DEF Deliver, Apply
    <3>3. \A f \in pending' : f \in pending /\ e.id < f.id
      BY <2>0, <2>3 DEF Deliver
    <3> QED BY <2>3, <3>2, <3>3 DEF Deliver
  <2>4. CASE UNCHANGED vars
    BY <2>4 DEF vars
  <2> QED BY <2>1, <2>2, <2>3, <2>4 DEF Next
<1> QED BY <1>1, <1>2, PTL DEF Spec

\* The client moves forward through the user's events: none is applied after a
\* newer one, and none twice.
THEOREM RelayNeverBackwards ==
  ASSUME MaxEvents \in Nat
  PROVE  Spec => NeverBackwards
<1>1. InOrder /\ [Next]_vars => [last' # last => last' > last]_vars
  BY DEF InOrder, Next, Issue, Lose, Deliver, vars
<1> QED BY <1>1, RelayInOrder, PTL DEF Spec, NeverBackwards
===============================================================================
