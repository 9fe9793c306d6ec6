---------------------------- MODULE HookChainProofs -----------------------------
(***************************************************************************)
(* What TLAPS checks about WinCapture and HookChain, for every set of      *)
(* sessions, every number of workers, every keyboard and every capacity of *)
(* the channels.  Fairness plays no part here.                             *)
(***************************************************************************)
EXTENDS HookChain, SequenceTheorems, TLAPS

-------------------------------------------------------------------------------
(* The life cycle of a capture: WinCapture. *)

\* The actions of Step, each under its own name.
LEMMA StepCases ==
  ASSUME NEW s \in Sessions, Step(s)
  PROVE  \/ StartCapture(s) \/ Run(s) \/ RunFails(s) \/ LeaveLoop(s)
         \/ DropCapture(s) \/ Joined(s) \/ PublishTid(s) \/ HookMouse(s)
         \/ HookKbd(s) \/ PumpQuits(s)
  BY DEF Step, PeerGone, SenderGone

\* What Drop relies on: the thread exists only once run() was polled, and the
\* task ends only before there is a thread or after it has exited.
TaskOutlivesThread ==
  \A s \in Sessions :
    /\ session[s] = "none" => task[s] = "none"
    /\ task[s] \in {"none", "spawned"} => thread[s] = "none"
    /\ task[s] = "ended" => thread[s] \in {"none", "exited"}

\* Together with TypeOK, which needs it where run() starts the thread (no WM_QUIT
\* can be waiting for it), it is inductive.
LEMMA TypedInvariant == SafeSpec => [](TypeOK /\ TaskOutlivesThread)
<1> USE DEF TaskOutlivesThread, TypeOK
<1>1. Init => TypeOK /\ TaskOutlivesThread
  BY DEF Init
<1>2. TypeOK /\ TaskOutlivesThread /\ [Next]_vars => TypeOK' /\ TaskOutlivesThread'
  <2> SUFFICES ASSUME TypeOK, TaskOutlivesThread, [Next]_vars
               PROVE  TypeOK' /\ TaskOutlivesThread'
    OBVIOUS
  <2>1. ASSUME NEW s \in Sessions, Step(s) PROVE TypeOK' /\ TaskOutlivesThread'
    <3>1. CASE StartCapture(s)
      <4>1. TypeOK'
        BY <3>1 DEF StartCapture, TidStored, HasQueue
      <4>2. TaskOutlivesThread'
        BY <3>1 DEF StartCapture
      <4> QED BY <4>1, <4>2
    <3>2. CASE Run(s)
      <4>1. TypeOK'
        BY <3>2 DEF Run, TidStored, HasQueue
      <4>2. TaskOutlivesThread'
        BY <3>2 DEF Run
      <4> QED BY <4>1, <4>2
    <3>3. CASE RunFails(s)
      <4>1. TypeOK'
        BY <3>3 DEF RunFails, TidStored, HasQueue
      <4>2. TaskOutlivesThread'
        BY <3>3 DEF RunFails
      <4> QED BY <4>1, <4>2
    <3>4. CASE LeaveLoop(s)
      <4>1. TypeOK'
        BY <3>4 DEF LeaveLoop, TidStored, HasQueue
      <4>2. TaskOutlivesThread'
        BY <3>4 DEF LeaveLoop
      <4> QED BY <4>1, <4>2
    <3>5. CASE DropCapture(s)
      <4>1. TypeOK'
        BY <3>5 DEF DropCapture, TidStored, HasQueue
      <4>2. TaskOutlivesThread'
        BY <3>5 DEF DropCapture
      <4> QED BY <4>1, <4>2
    <3>6. CASE Joined(s)
      <4>1. TypeOK'
        BY <3>6 DEF Joined, TidStored, HasQueue
      <4>2. TaskOutlivesThread'
        BY <3>6 DEF Joined
      <4> QED BY <4>1, <4>2
    <3>7. CASE PublishTid(s)
      <4>1. TypeOK'
        BY <3>7 DEF PublishTid, TidStored, HasQueue
      <4>2. TaskOutlivesThread'
        BY <3>7 DEF PublishTid
      <4> QED BY <4>1, <4>2
    <3>8. CASE HookMouse(s)
      <4>1. TypeOK'
        BY <3>8 DEF HookMouse, TidStored, HasQueue
      <4>2. TaskOutlivesThread'
        BY <3>8 DEF HookMouse
      <4> QED BY <4>1, <4>2
    <3>9. CASE HookKbd(s)
      <4>1. TypeOK'
        BY <3>9 DEF HookKbd, TidStored, HasQueue
      <4>2. TaskOutlivesThread'
        BY <3>9 DEF HookKbd
      <4> QED BY <4>1, <4>2
    <3>10. CASE PumpQuits(s)
      <4>1. TypeOK'
        BY <3>10 DEF PumpQuits, TidStored, HasQueue
      <4>2. TaskOutlivesThread'
        BY <3>10 DEF PumpQuits
      <4> QED BY <4>1, <4>2
    <3> QED
      BY <2>1, StepCases, <3>1, <3>2, <3>3, <3>4, <3>5,
         <3>6, <3>7, <3>8, <3>9, <3>10
  <2>2. CASE UNCHANGED vars
    BY <2>2 DEF vars
  <2> QED BY <2>1, <2>2 DEF Next
<1> QED BY <1>1, <1>2, PTL DEF SafeSpec

\* Every session, task and thread is in one of the states listed for it, and
\* WM_QUIT is only ever put into a message queue that exists.
THEOREM TypeCorrect == SafeSpec => []TypeOK
  BY TypedInvariant, PTL

\* No thread leaves a hook behind, whichever installation fails.
THEOREM HooksHaveThreads == SafeSpec => []HooksMatchThread
<1> USE DEF HooksMatchThread, HasQueue, TypeOK
<1>1. Init => HooksMatchThread
  BY DEF Init
<1>2. TypeOK /\ TaskOutlivesThread /\ HooksMatchThread /\ [Next]_vars => HooksMatchThread'
  <2> SUFFICES ASSUME TypeOK, TaskOutlivesThread, HooksMatchThread, [Next]_vars
               PROVE  HooksMatchThread'
    OBVIOUS
  <2>1. ASSUME NEW s \in Sessions, Step(s) PROVE HooksMatchThread'
    <3>1. CASE UNCHANGED <<thread, mouseHooks, kbdHooks>>
      BY <3>1
    <3>2. CASE Run(s)
      <4>1. thread[s] = "none"
        BY <3>2 DEF Run, TaskOutlivesThread
      <4> QED BY <3>2, <4>1 DEF Run
    <3>3. CASE PublishTid(s)
      BY <3>3 DEF PublishTid
    <3>4. CASE HookMouse(s)
      BY <3>4 DEF HookMouse
    <3>5. CASE HookKbd(s)
      BY <3>5 DEF HookKbd
    <3>6. CASE PumpQuits(s)
      BY <3>6 DEF PumpQuits
    <3> QED
      BY <2>1, StepCases, <3>1, <3>2, <3>3, <3>4, <3>5, <3>6
      DEF StartCapture, RunFails, LeaveLoop, DropCapture, Joined
  <2>2. CASE UNCHANGED vars
    BY <2>2 DEF vars
  <2> QED BY <2>1, <2>2 DEF Next
<1> QED BY <1>1, <1>2, TypedInvariant, PTL DEF SafeSpec

\* Drop is synchronous: a capture that is gone has no hook in the system, and
\* no thread that could still install one.
THEOREM DropLeavesNoHook == SafeSpec => []NoHookAfterDrop
<1>1. TaskOutlivesThread /\ HooksMatchThread => NoHookAfterDrop
  BY DEF TaskOutlivesThread, HooksMatchThread, NoHookAfterDrop, HasQueue
<1> QED BY <1>1, TypedInvariant, HooksHaveThreads, PTL

-------------------------------------------------------------------------------
(* Several sessions: HookChain. *)

USE ChainAssumption

\* The sessions of a desktop live as those of WinCapture do: what the user and the
\* callbacks do in between changes nothing there.
THEOREM ChainImplementsCapture == ChainSafeSpec => SafeSpec
<1>1. ChainInit => Init
  BY DEF ChainInit
<1>2. [ChainNext]_chainVars => [Next]_vars
  BY DEF ChainNext, chainVars, Next, KbdHotKey, KbdHooks, MouseHooks, Capture, UserActs,
         LoopRecv, Lifecycle
<1> QED BY <1>1, <1>2, PTL DEF ChainSafeSpec, SafeSpec

\* What the life cycle guarantees, for the steps of the chains.
Captured == TypeOK /\ TaskOutlivesThread /\ HooksMatchThread

\* The invariant always holds.
LEMMA CapturedInvariant == ChainSafeSpec => []Captured
  BY ChainImplementsCapture, TypedInvariant, HooksHaveThreads, PTL DEF Captured

\* The hooks of a chain are the sessions that have an order with themselves.
LEMMA ChainMembers ==
  ASSUME NEW chain, NEW hooks, IsChain(chain, hooks), NEW s
  PROVE  s \in hooks <=> <<s, s>> \in chain
  BY DEF IsChain

\* Hooks that go leave a chain, and a hook that comes is in front of all others.
LEMMA RelinkIsChain ==
  ASSUME NEW chain, NEW hooks, IsChain(chain, hooks),
         NEW s, NEW next, next \subseteq hooks \cup {s}
  PROVE  IsChain(Relink(chain, next), next)
  <1> DEFINE kept == {p \in chain : p[1] \in next /\ p[2] \in next}
             new == {t \in next : <<t, t>> \notin chain}
             c == Relink(chain, next)
  <1>1. new \subseteq {s} /\ new = next \ hooks
    BY ChainMembers
  <1>2. c = kept \cup (new \X next)
    BY DEF Relink
  <1>3. ASSUME NEW t \in next, NEW u \in next
        PROVE  <<t, u>> \in c <=> (t \in new \/ <<t, u>> \in chain)
    BY <1>2, <1>3
  <1>4. c \subseteq next \X next
    BY <1>2 DEF IsChain
  <1>5. ASSUME NEW t \in next, NEW u \in next
        PROVE  /\ <<t, u>> \in c \/ <<u, t>> \in c
               /\ (<<t, u>> \in c /\ <<u, t>> \in c) => t = u
    <2>1. t \notin new => t \in hooks
      BY <1>1
    <2>2. u \notin new => u \in hooks
      BY <1>1
    <2>3. <<t, u>> \in chain => t \in hooks /\ u \in hooks
      BY DEF IsChain
    <2>4. <<u, t>> \in chain => t \in hooks /\ u \in hooks
      BY DEF IsChain
    <2> QED BY <1>1, <1>3, <1>5, <2>1, <2>2, <2>3, <2>4 DEF IsChain
  <1>6. ASSUME NEW t \in next, NEW u \in next, NEW v \in next,
               <<t, u>> \in c, <<u, v>> \in c
        PROVE  <<t, v>> \in c
    <2>1. CASE t \in new
      BY <1>3, <2>1
    <2>2. CASE t \notin new
      <3>1. <<t, u>> \in chain
        BY <1>3, <1>6, <2>2
      <3>2. t \in hooks /\ u \in hooks
        BY <3>1 DEF IsChain
      <3>3. <<u, v>> \in chain
        BY <1>1, <1>3, <1>6, <3>2
      <3>4. v \in hooks
        BY <3>3 DEF IsChain
      <3> QED BY <1>3, <3>1, <3>2, <3>3, <3>4 DEF IsChain
    <2> QED BY <2>1, <2>2
  <1> HIDE DEF c
  <1> QED BY <1>4, <1>5, <1>6 DEF IsChain, c

\* A step of a session touches its own hooks only.
LEMMA StepHooks ==
  ASSUME TypeOK, NEW s \in Sessions, Step(s)
  PROVE  /\ mouseHooks' \subseteq mouseHooks \cup {s}
         /\ kbdHooks' \subseteq kbdHooks \cup {s}
         /\ \A t \in Sessions \ {s} : thread'[t] = thread[t]
  BY StepCases
  DEF StartCapture, Run, RunFails, LeaveLoop, DropCapture, Joined, PublishTid,
      HookMouse, HookKbd, PumpQuits, TypeOK

\* The steps of ChainNext.  Both callbacks capture; a key is captured in the
\* keyboard's chain.
LEMMA ChainCases ==
  ASSUME ChainNext
  PROVE  \/ KbdHotKey
         \/ \E chain \in {mouseChain, kbdChain}, i \in Keys \cup Motions, pressed \in BOOLEAN :
              /\ Capture(chain, i, pressed)
              /\ chain = kbdChain \/ i \in Motions
         \/ \E s \in Sessions : LoopRecv(s)
         \/ \E s \in Sessions : Lifecycle(s)
  BY Zenon DEF ChainNext, KbdHooks, MouseHooks

\* try_send leaves a channel as it is or puts the event behind the others.
LEMMA Queued ==
  ASSUME ChainTypeOK, NEW s \in Sessions, NEW e \in Event, NEW reached
  PROVE  /\ Queue(s, e, reached) \in Seq(Event)
         /\ Len(Queue(s, e, reached)) <= ChanCap
         /\ \/ Queue(s, e, reached) = chan[s]
            \/ s \in reached /\ Queue(s, e, reached) = Append(chan[s], e)
  <1>1. chan[s] \in Seq(Event) /\ Len(chan[s]) <= ChanCap /\ Len(chan[s]) \in Nat
    BY DEF ChainTypeOK
  <1>2. CASE Queue(s, e, reached) = chan[s]
    BY <1>1, <1>2
  <1>3. CASE s \in reached /\ Queue(s, e, reached) = Append(chan[s], e) /\ Len(chan[s]) < ChanCap
    BY <1>1, <1>3, AppendProperties
  <1> QED BY <1>2, <1>3 DEF Queue

\* What a user event does to the counters and the keys held.
LEMMA UserTypes ==
  ASSUME ChainTypeOK, NEW i \in Keys \cup Motions, NEW pressed, UserActs(i, pressed)
  PROVE  /\ n' = n + 1 /\ n' \in 1..MaxEvents
         /\ phys' \in SUBSET Keys
         /\ UNCHANGED <<vars, mouseChain, kbdChain, sent>>
  BY DEF ChainTypeOK, UserActs

\* A captured event: who takes it, and what is queued.  The local OS only learns
\* of a key that it takes itself.
LEMMA Captures ==
  ASSUME ChainTypeOK, NEW chain, NEW i \in Keys \cup Motions, NEW pressed \in BOOLEAN,
         Capture(chain, i, pressed)
  PROVE  \E e \in Event :
           /\ e.id = n' /\ e.taker \in Takers(chain)
           /\ chan' \in [Sessions -> Seq(Event)]
           /\ \A s \in Sessions :
                /\ Len(chan'[s]) <= ChanCap
                /\ \/ chan'[s] = chan[s]
                   \/ s \in Reached(chain) /\ chan'[s] = Append(chan[s], e)
           /\ osDown' \in SUBSET Keys
           /\ (e.taker = Local /\ i \notin Motions) \/ osDown' = osDown
  <1>1. UserActs(i, pressed)
    BY DEF Capture
  <1>2. PICK taker \in Takers(chain) :
          /\ chan' = [s \in Sessions |->
                        Queue(s, [id |-> n', inp |-> i, pressed |-> pressed, taker |-> taker],
                              Reached(chain))]
          /\ osDown' = IF taker # Local \/ i \in Motions THEN osDown
                       ELSE IF pressed THEN osDown \cup {i} ELSE osDown \ {i}
    BY Zenon DEF Capture
  <1> DEFINE e == [id |-> n', inp |-> i, pressed |-> pressed, taker |-> taker]
  <1>3. taker \in Sessions \cup {Local}
    BY DEF Takers, Reached, Called
  <1>4. e \in Event
    BY <1>1, <1>3, UserTypes DEF Event
  <1>5. e.id = n' /\ e.taker = taker
    OBVIOUS
  <1> HIDE DEF e
  <1>6. chan' = [s \in Sessions |-> Queue(s, e, Reached(chain))]
    BY <1>2 DEF e
  <1>7. /\ chan' \in [Sessions -> Seq(Event)]
        /\ \A s \in Sessions :
             /\ Len(chan'[s]) <= ChanCap
             /\ \/ chan'[s] = chan[s]
                \/ s \in Reached(chain) /\ chan'[s] = Append(chan[s], e)
    BY <1>4, <1>6, Queued
  <1>8. osDown' \in SUBSET Keys /\ ((taker = Local /\ i \notin Motions) \/ osDown' = osDown)
    BY <1>2 DEF ChainTypeOK
  <1> QED BY <1>2, <1>4, <1>5, <1>7, <1>8

\* What else a captured event changes.
LEMMA CaptureFrame ==
  ASSUME ChainTypeOK, NEW chain, NEW i \in Keys \cup Motions, NEW pressed \in BOOLEAN,
         Capture(chain, i, pressed)
  PROVE  /\ n' = n + 1 /\ n' \in 1..MaxEvents
         /\ phys' \in SUBSET Keys
         /\ UNCHANGED <<vars, mouseChain, kbdChain, sent, grabbed, toggledAt>>
  BY UserTypes DEF Capture

\* Every session's hooks, flag and channel are of their types: the chains stay in
\* an order whichever hooks come and go, and no channel exceeds its capacity.
THEOREM ChainTypeCorrect == ChainSafeSpec => []ChainTypeOK
<1>1. ChainInit => ChainTypeOK
  <2> SUFFICES ASSUME ChainInit PROVE ChainTypeOK
    OBVIOUS
  <2>1. TypeOK /\ mouseHooks = {} /\ kbdHooks = {}
    BY DEF ChainInit, Init, TypeOK
  <2> QED BY <2>1 DEF ChainInit, ChainTypeOK, IsChain, desk
<1>2. ChainTypeOK /\ TypeOK' /\ [ChainNext]_chainVars => ChainTypeOK'
  <2> SUFFICES ASSUME ChainTypeOK, TypeOK', [ChainNext]_chainVars PROVE ChainTypeOK'
    OBVIOUS
  <2>1. CASE KbdHotKey
    <3>1. UserActs(HotKey, TRUE) /\ toggledAt' = n' /\ UNCHANGED <<osDown, chan>>
      BY <2>1 DEF KbdHotKey
    <3>2. grabbed' \in SUBSET Sessions
      BY <2>1 DEF KbdHotKey, Called, ChainTypeOK
    <3>3. /\ n' \in 1..MaxEvents /\ phys' \in SUBSET Keys
          /\ UNCHANGED <<vars, mouseChain, kbdChain, sent>>
      BY <3>1, UserTypes
    <3> QED BY <3>1, <3>2, <3>3 DEF ChainTypeOK, vars
  <2>2. ASSUME NEW chain, NEW i \in Keys \cup Motions, NEW pressed \in BOOLEAN,
               Capture(chain, i, pressed), chain = kbdChain \/ i \in Motions
        PROVE  ChainTypeOK'
    <3>1. /\ chan' \in [Sessions -> Seq(Event)] /\ \A s \in Sessions : Len(chan'[s]) <= ChanCap
          /\ osDown' \in SUBSET Keys
      BY <2>2, Captures
    <3>2. /\ n' \in 1..MaxEvents /\ phys' \in SUBSET Keys
          /\ UNCHANGED <<vars, mouseChain, kbdChain, sent, grabbed, toggledAt>>
      BY <2>2, CaptureFrame
    <3> QED BY <3>1, <3>2 DEF ChainTypeOK, vars
  <2>3. ASSUME NEW s \in Sessions, LoopRecv(s) PROVE ChainTypeOK'
    <3>1. chan[s] \in Seq(Event) /\ chan[s] # <<>> /\ Len(chan[s]) <= ChanCap
      BY <2>3 DEF LoopRecv, ChainTypeOK
    <3>2. Head(chan[s]) \in Event /\ Tail(chan[s]) \in Seq(Event)
          /\ Len(Tail(chan[s])) <= ChanCap
      BY <3>1, HeadTailProperties, EmptySeq
    <3>3. chan' \in [Sessions -> Seq(Event)] /\ \A t \in Sessions : Len(chan'[t]) <= ChanCap
      BY <2>3, <3>2 DEF LoopRecv, ChainTypeOK
    <3>4. sent' \in SUBSET ((1..MaxEvents) \X Sessions)
      <4>1. Head(chan[s]).id \in 1..MaxEvents
        BY <3>2 DEF Event
      <4> QED BY <2>3, <4>1 DEF LoopRecv, ChainTypeOK
    <3> QED BY <2>3, <3>3, <3>4 DEF LoopRecv, ChainTypeOK, vars, desk
  <2>4. ASSUME NEW s \in Sessions, Lifecycle(s) PROVE ChainTypeOK'
    <3>1. Step(s) /\ Relinked(s) /\ TypeOK
      BY <2>4 DEF Lifecycle, ChainTypeOK
    <3>2. IsChain(mouseChain', mouseHooks')
      <4>1. mouseHooks' \subseteq mouseHooks \cup {s} /\ IsChain(mouseChain, mouseHooks)
        BY <3>1, StepHooks DEF ChainTypeOK
      <4>2. IsChain(Relink(mouseChain, mouseHooks'), mouseHooks')
        BY <4>1, RelinkIsChain
      <4> QED BY <3>1, <4>2 DEF Relinked
    <3>3. IsChain(kbdChain', kbdHooks')
      <4>1. kbdHooks' \subseteq kbdHooks \cup {s} /\ IsChain(kbdChain, kbdHooks)
        BY <3>1, StepHooks DEF ChainTypeOK
      <4>2. IsChain(Relink(kbdChain, kbdHooks'), kbdHooks')
        BY <4>1, RelinkIsChain
      <4> QED BY <3>1, <4>2 DEF Relinked
    <3>4. chan' \in [Sessions -> Seq(Event)] /\ \A t \in Sessions : Len(chan'[t]) <= ChanCap
      <4>1. <<>> \in Seq(Event) /\ Len(<<>>) <= ChanCap
        OBVIOUS
      <4> QED BY <3>1, <4>1 DEF Relinked, ChainTypeOK
    <3> QED BY <3>1, <3>2, <3>3, <3>4 DEF Relinked, ChainTypeOK, desk
  <2>5. CASE UNCHANGED chainVars
    BY <2>5 DEF chainVars, vars, desk, ChainTypeOK
  <2> QED BY <2>1, <2>2, <2>3, <2>4, <2>5, ChainCases
<1> QED BY <1>1, <1>2, CapturedInvariant, PTL DEF ChainSafeSpec, Captured

\* A flag is only ever set in a callback, so in a thread that pumps messages.  What
\* gets a hook later has its flag clear: a session is not reused.
GrabbedHaveHooked == \A s \in grabbed : thread[s] \in {"pumping", "exited"}

\* Together with AnyGrabKeepsChordDown it is inductive: a new hook cannot be grabbed
\* already, and while any hook is, no key gets past the chain.
ChordInv == GrabbedHaveHooked /\ AnyGrabKeepsChordDown

\* The hooks that are called are those of threads that pump.
LEMMA CalledHooks ==
  ASSUME ChainTypeOK, HooksMatchThread
  PROVE  Called(kbdChain) = kbdHooks /\ Called(mouseChain) \subseteq mouseHooks
  <1>1. kbdHooks \subseteq Sessions /\ mouseHooks \subseteq Sessions
    BY DEF ChainTypeOK, TypeOK
  <1>2. \A s \in Sessions : s \in kbdHooks <=> <<s, s>> \in kbdChain
    BY DEF ChainTypeOK, IsChain
  <1>3. \A s \in Sessions : s \in mouseHooks <=> <<s, s>> \in mouseChain
    BY DEF ChainTypeOK, IsChain
  <1> QED BY <1>1, <1>2, <1>3 DEF Called, HooksMatchThread

\* The step of the hotkey: one session's flag, in a thread that pumps.
LEMMA Toggles ==
  ASSUME KbdHotKey
  PROVE  /\ Mods \subseteq osDown
         /\ UserActs(HotKey, TRUE) /\ toggledAt' = n' /\ UNCHANGED <<osDown, chan>>
         /\ \E s \in Sessions : thread[s] = "pumping" /\ grabbed' \subseteq grabbed \cup {s}
  BY DEF KbdHotKey, Called

\* What a step of a session leaves alone.
LEMMA LifecycleFrame ==
  ASSUME ChainTypeOK, Captured, NEW s \in Sessions, Lifecycle(s)
  PROVE  /\ UNCHANGED <<grabbed, phys, osDown, n, toggledAt, sent>>
         /\ \A t \in Sessions :
              /\ chan'[t] = chan[t] \/ chan'[t] = <<>>
              /\ thread[t] \in {"pumping", "exited"} => thread'[t] \in {"pumping", "exited"}
              /\ t \in kbdHooks' => t \in kbdHooks \/ thread[t] = "mouse"
  <1>1. Step(s) /\ Relinked(s) /\ TypeOK
    BY DEF Lifecycle, ChainTypeOK
  <1>2. UNCHANGED <<grabbed, phys, osDown, n, toggledAt, sent>>
    BY <1>1 DEF Relinked, desk
  <1>3. ASSUME NEW t \in Sessions PROVE chan'[t] = chan[t] \/ chan'[t] = <<>>
    BY <1>1 DEF Relinked, ChainTypeOK
  <1>4. ASSUME NEW t \in Sessions
        PROVE  /\ thread[t] \in {"pumping", "exited"} => thread'[t] \in {"pumping", "exited"}
               /\ t \in kbdHooks' => t \in kbdHooks \/ thread[t] = "mouse"
    BY <1>1, StepCases
    DEF StartCapture, Run, RunFails, LeaveLoop, DropCapture, Joined, PublishTid, HookMouse,
        HookKbd, PumpQuits, TypeOK, Captured, TaskOutlivesThread
  <1> QED BY <1>2, <1>3, <1>4

\* As long as any session's hook is there and grabbed, whichever it is and whatever
\* has come and gone in front of it, the hotkey's modifiers are down for the local OS.
THEOREM ChordStaysDown == ChainSafeSpec => []AnyGrabKeepsChordDown
<1>1. ChainInit => ChordInv
  BY DEF ChainInit, ChordInv, GrabbedHaveHooked, AnyGrabKeepsChordDown
<1>2. ChainTypeOK /\ Captured /\ ChordInv /\ [ChainNext]_chainVars => ChordInv'
  <2> SUFFICES ASSUME ChainTypeOK, Captured, ChordInv, [ChainNext]_chainVars PROVE ChordInv'
    OBVIOUS
  <2> USE DEF ChordInv, GrabbedHaveHooked, AnyGrabKeepsChordDown
  <2>0. Called(kbdChain) = kbdHooks
    BY CalledHooks DEF Captured
  <2>1. CASE KbdHotKey
    <3>1. UNCHANGED <<vars, osDown>> /\ Mods \subseteq osDown
      BY <2>1, Toggles, UserTypes
    <3> QED BY <2>1, <3>1, Toggles DEF vars
  <2>2. ASSUME NEW chain, NEW i \in Keys \cup Motions, NEW pressed \in BOOLEAN,
               Capture(chain, i, pressed), chain = kbdChain \/ i \in Motions
        PROVE  ChordInv'
    <3>1. UNCHANGED <<vars, grabbed>>
      BY <2>2, CaptureFrame
    <3>2. ASSUME kbdHooks \cap grabbed # {} PROVE osDown' = osDown
      <4>1. PICK e \in Event :
              /\ e.taker \in Takers(chain)
              /\ (e.taker = Local /\ i \notin Motions) \/ osDown' = osDown
        BY <2>2, Captures
      <4>2. CASE i \in Motions
        BY <4>1, <4>2
      <4>3. CASE chain = kbdChain
        <5>1. Takers(chain) \subseteq Sessions
          BY <2>0, <3>2, <4>3 DEF Takers, Reached, Called
        <5> QED BY <4>1, <5>1
      <4> QED BY <2>2, <4>2, <4>3
    <3> QED BY <3>1, <3>2 DEF vars
  <2>3. ASSUME NEW s \in Sessions, LoopRecv(s) PROVE ChordInv'
    BY <2>3 DEF LoopRecv, vars, desk
  <2>4. ASSUME NEW s \in Sessions, Lifecycle(s) PROVE ChordInv'
    <3>1. grabbed \subseteq Sessions /\ kbdHooks' \subseteq Sessions
      BY <2>4, StepHooks DEF ChainTypeOK, TypeOK, Lifecycle
    <3> QED BY <2>4, <3>1, LifecycleFrame
  <2>5. CASE UNCHANGED chainVars
    BY <2>5 DEF chainVars, vars, desk
  <2> QED BY <2>1, <2>2, <2>3, <2>4, <2>5, ChainCases
<1>3. ChordInv => AnyGrabKeepsChordDown
  BY DEF ChordInv
<1> QED BY <1>1, <1>2, <1>3, CapturedInvariant, ChainTypeCorrect, PTL DEF ChainSafeSpec

\* Every event that was queued since the last toggle says which session took it,
\* and that is the one whose flag is set.
Owned(s, e) == e.id > toggledAt => (e.taker = s <=> s \in grabbed)

\* A channel holds events in the order of the user, all of them younger than what
\* its session has sent.
Fresh(s, q) ==
  \A i \in 1..Len(q) :
    /\ q[i].id <= n
    /\ Owned(s, q[i])
    /\ \A j \in 1..Len(q) : i < j => q[i].id < q[j].id
    /\ \A k \in 1..MaxEvents : <<k, s>> \in sent => k < q[i].id

\* The inductive invariant behind OneMachinePerEvent.
ChainAgreement ==
  /\ \A s \in Sessions : Fresh(s, chan[s])
  /\ \A k \in 1..MaxEvents, s \in Sessions : <<k, s>> \in sent => k <= n

\* In a chain with an order, two different sessions cannot both take an event.
LEMMA OneTaker ==
  ASSUME NEW chain, NEW hooks, IsChain(chain, hooks), Called(chain) \subseteq hooks,
         NEW s \in Reached(chain), NEW t \in Takers(chain), Local \notin Sessions
  PROVE  t = s <=> s \in grabbed
  <1>1. CASE Called(chain) \cap grabbed = {}
    BY <1>1 DEF Takers, Reached, Called
  <1>2. CASE Called(chain) \cap grabbed # {}
    <2>1. t \in Reached(chain) /\ t \in grabbed
      BY <1>2 DEF Takers
    <2>2. ASSUME s \in grabbed, s # t PROVE FALSE
      <3>1. s \in Called(chain) /\ t \in Called(chain)
        BY <2>1 DEF Reached
      <3>2. <<s, t>> \in chain \/ <<t, s>> \in chain
        BY <3>1 DEF IsChain
      <3>3. s \in Before(chain, t) \/ t \in Before(chain, s)
        BY <2>2, <3>1, <3>2 DEF Before
      <3> QED BY <2>1, <2>2, <3>3 DEF Reached
    <2> QED BY <2>1, <2>2
  <1> QED BY <1>1, <1>2

\* A channel stays as it should be when it is cut at the head, when nothing else
\* about its events changes.
LEMMA FreshTail ==
  ASSUME NEW s \in Sessions, NEW q \in Seq(Event), Fresh(s, q), q # <<>>
  PROVE  /\ Head(q) = q[1] /\ Len(q) \in Nat \ {0}
         /\ Tail(q) \in Seq(Event) /\ Len(Tail(q)) = Len(q) - 1
         /\ \A i \in 1..Len(Tail(q)) : Tail(q)[i] = q[i + 1]
         /\ Fresh(s, Tail(q))
  <1>1. /\ Head(q) = q[1] /\ Len(q) \in Nat \ {0}
        /\ Tail(q) \in Seq(Event) /\ Len(Tail(q)) = Len(q) - 1
        /\ \A i \in 1..Len(Tail(q)) : Tail(q)[i] = q[i + 1]
    BY HeadTailProperties, EmptySeq
  <1>2. \A i \in 1..Len(Tail(q)) : i + 1 \in 1..Len(q) /\ Tail(q)[i] = q[i + 1]
    BY <1>1
  <1>3. \A i, j \in 1..Len(Tail(q)) : i < j => i + 1 < j + 1
    OBVIOUS
  <1>4. Fresh(s, Tail(q))
    BY <1>2, <1>3 DEF Fresh
  <1> QED BY <1>1, <1>4

\* The invariant through every step.
LEMMA AgreementHolds == ChainSafeSpec => []ChainAgreement
<1>1. ChainInit => ChainAgreement
  BY DEF ChainInit, ChainAgreement, Fresh
<1>2. ChainTypeOK /\ Captured /\ ChainAgreement /\ [ChainNext]_chainVars => ChainAgreement'
  <2> SUFFICES ASSUME ChainTypeOK, Captured, ChainAgreement, [ChainNext]_chainVars
               PROVE  ChainAgreement'
    OBVIOUS
  <2>0. /\ n \in Nat /\ toggledAt \in Nat
        /\ \A s \in Sessions : /\ chan[s] \in Seq(Event) /\ Len(chan[s]) \in Nat
                               /\ \A i \in 1..Len(chan[s]) : chan[s][i].id \in 1..MaxEvents
    <3>1. ASSUME NEW s \in Sessions, NEW i \in 1..Len(chan[s])
          PROVE  chan[s][i].id \in 1..MaxEvents
      <4>1. chan[s] \in Seq(Event)
        BY DEF ChainTypeOK
      <4>2. chan[s][i] \in Event
        BY <4>1, ElementOfSeq
      <4> QED BY <4>2 DEF Event
    <3> QED BY <3>1 DEF ChainTypeOK
  <2>1. CASE KbdHotKey
    <3>1. n' = n + 1 /\ UNCHANGED <<chan, sent>> /\ toggledAt' = n'
      BY <2>1, Toggles, UserTypes
    <3>2. ASSUME NEW s \in Sessions PROVE Fresh(s, chan[s])'
      <4>1. Fresh(s, chan[s])
        BY DEF ChainAgreement
      <4>2. \A i \in 1..Len(chan[s]) : chan[s][i].id <= n' /\ ~(chan[s][i].id > toggledAt')
        BY <2>0, <3>1, <4>1 DEF Fresh
      <4> QED BY <3>1, <4>1, <4>2 DEF Fresh, Owned
    <3>3. \A k \in 1..MaxEvents, s \in Sessions : <<k, s>> \in sent' => k <= n'
      BY <2>0, <3>1 DEF ChainAgreement
    <3> QED BY <3>2, <3>3 DEF ChainAgreement
  <2>2. ASSUME NEW chain \in {mouseChain, kbdChain}, NEW i \in Keys \cup Motions,
               NEW pressed \in BOOLEAN, Capture(chain, i, pressed)
        PROVE  ChainAgreement'
    <3>1. n' = n + 1 /\ UNCHANGED <<grabbed, toggledAt, sent>>
      BY <2>2, CaptureFrame
    <3>2. PICK e \in Event :
            /\ e.id = n' /\ e.taker \in Takers(chain)
            /\ \A s \in Sessions :
                 \/ chan'[s] = chan[s]
                 \/ s \in Reached(chain) /\ chan'[s] = Append(chan[s], e)
      BY <2>2, Captures
    <3>3. \A s \in Reached(chain) : e.taker = s <=> s \in grabbed
      <4>1. CASE chain = kbdChain
        <5>1. Called(chain) \subseteq kbdHooks /\ IsChain(chain, kbdHooks)
          BY <4>1, CalledHooks DEF Captured, ChainTypeOK
        <5> QED BY <3>2, <5>1, OneTaker
      <4>2. CASE chain = mouseChain
        <5>1. Called(chain) \subseteq mouseHooks /\ IsChain(chain, mouseHooks)
          BY <4>2, CalledHooks DEF Captured, ChainTypeOK
        <5> QED BY <3>2, <5>1, OneTaker
      <4> QED BY <2>2, <4>1, <4>2
    <3>4. ASSUME NEW s \in Sessions PROVE Fresh(s, chan[s])'
      <4>1. Fresh(s, chan[s])
        BY DEF ChainAgreement
      <4>2. \A j \in 1..Len(chan[s]) : chan[s][j].id <= n
        BY <4>1 DEF Fresh
      <4>3. CASE chan'[s] = chan[s]
        <5>1. \A j \in 1..Len(chan[s]) : chan[s][j].id <= n'
          BY <2>0, <3>1, <4>2
        <5> QED BY <3>1, <4>1, <4>3, <5>1 DEF Fresh, Owned
      <4>4. CASE s \in Reached(chain) /\ chan'[s] = Append(chan[s], e)
        <5> DEFINE q == chan'[s]
        <5>1. /\ Len(q) = Len(chan[s]) + 1
              /\ q[Len(chan[s]) + 1] = e
              /\ \A j \in 1..Len(chan[s]) : q[j] = chan[s][j]
          BY <2>0, <4>4, AppendProperties
        <5> HIDE DEF q
        <5>2. ASSUME NEW j \in 1..Len(q)
              PROVE  /\ q[j].id <= n'
                     /\ q[j].id > toggledAt => (q[j].taker = s <=> s \in grabbed)
                     /\ \A k \in 1..Len(q) : j < k => q[j].id < q[k].id
                     /\ \A k \in 1..MaxEvents : <<k, s>> \in sent' => k < q[j].id
          <6>1. CASE j \in 1..Len(chan[s])
            <7>1. /\ q[j] = chan[s][j] /\ q[j].id <= n /\ q[j].id \in Nat
              BY <2>0, <4>2, <5>1, <6>1
            <7>2. q[j].id > toggledAt => (q[j].taker = s <=> s \in grabbed)
              BY <4>1, <6>1, <7>1 DEF Fresh, Owned
            <7>3. ASSUME NEW k \in 1..Len(q), j < k PROVE q[j].id < q[k].id
              <8>1. CASE k \in 1..Len(chan[s])
                BY <4>1, <5>1, <6>1, <7>3, <8>1 DEF Fresh
              <8>2. CASE k = Len(chan[s]) + 1
                BY <2>0, <3>1, <3>2, <5>1, <7>1, <8>2
              <8> QED BY <2>0, <5>1, <8>1, <8>2
            <7>4. \A k \in 1..MaxEvents : <<k, s>> \in sent' => k < q[j].id
              BY <3>1, <4>1, <6>1, <7>1 DEF Fresh
            <7> QED BY <2>0, <3>1, <7>1, <7>2, <7>3, <7>4
          <6>2. CASE j = Len(chan[s]) + 1
            <7>1. q[j] = e /\ e.id = n'
              BY <3>2, <5>1, <6>2
            <7>2. q[j].taker = s <=> s \in grabbed
              BY <3>3, <4>4, <7>1
            <7>3. \A k \in 1..Len(q) : ~(j < k)
              BY <2>0, <5>1, <6>2
            <7>4. \A k \in 1..MaxEvents : <<k, s>> \in sent' => k < n'
              BY <2>0, <3>1 DEF ChainAgreement
            <7> QED BY <2>0, <3>1, <7>1, <7>2, <7>3, <7>4
          <6> QED BY <2>0, <5>1, <6>1, <6>2
        <5> QED BY <3>1, <5>2 DEF Fresh, Owned, q
      <4> QED BY <3>2, <4>3, <4>4
    <3>5. \A k \in 1..MaxEvents, s \in Sessions : <<k, s>> \in sent' => k <= n'
      BY <2>0, <3>1 DEF ChainAgreement
    <3> QED BY <3>4, <3>5 DEF ChainAgreement
  <2>3. ASSUME NEW s \in Sessions, LoopRecv(s) PROVE ChainAgreement'
    <3>1. /\ chan[s] # <<>> /\ chan' = [chan EXCEPT ![s] = Tail(@)]
          /\ sent' \subseteq sent \cup {<<Head(chan[s]).id, s>>}
          /\ UNCHANGED <<n, grabbed, toggledAt>>
      BY <2>3 DEF LoopRecv, desk
    <3>2. Fresh(s, chan[s]) /\ \A t \in Sessions : Fresh(t, chan[t])
      BY DEF ChainAgreement
    <3>3. /\ Head(chan[s]) = chan[s][1] /\ Len(chan[s]) \in Nat \ {0}
          /\ Len(Tail(chan[s])) = Len(chan[s]) - 1
          /\ \A i \in 1..Len(Tail(chan[s])) : Tail(chan[s])[i] = chan[s][i + 1]
          /\ Fresh(s, Tail(chan[s]))
      BY <2>0, <3>1, <3>2, FreshTail
    <3>4. \A k \in 1..MaxEvents, t \in Sessions :
            <<k, t>> \in sent' => <<k, t>> \in sent \/ (t = s /\ k = chan[s][1].id)
      BY <3>1, <3>3
    <3>5. Fresh(s, chan[s])'
      <4>1. chan'[s] = Tail(chan[s])
        BY <3>1 DEF ChainTypeOK
      <4>2. ASSUME NEW i \in 1..Len(Tail(chan[s])), NEW k \in 1..MaxEvents,
                   <<k, s>> \in sent'
            PROVE  k < Tail(chan[s])[i].id
        <5>1. CASE <<k, s>> \in sent
          BY <3>3, <5>1 DEF Fresh
        <5>2. CASE k = chan[s][1].id
          <6>1. 1 \in 1..Len(chan[s]) /\ i + 1 \in 1..Len(chan[s]) /\ 1 < i + 1
            BY <3>3
          <6> QED BY <3>2, <3>3, <5>2, <6>1 DEF Fresh
        <5> QED BY <3>4, <4>2, <5>1, <5>2
      <4> QED BY <3>1, <3>3, <4>1, <4>2 DEF Fresh, Owned
    <3>6. ASSUME NEW t \in Sessions, t # s PROVE Fresh(t, chan[t])'
      <4>1. chan'[t] = chan[t]
        BY <3>1, <3>6 DEF ChainTypeOK
      <4>2. \A k \in 1..MaxEvents : <<k, t>> \in sent' => <<k, t>> \in sent
        BY <3>4, <3>6
      <4> QED BY <3>1, <3>2, <4>1, <4>2 DEF Fresh, Owned
    <3>7. \A k \in 1..MaxEvents, t \in Sessions : <<k, t>> \in sent' => k <= n'
      <4>1. chan[s][1].id <= n
        BY <3>2, <3>3 DEF Fresh
      <4> QED BY <3>1, <3>4, <4>1 DEF ChainAgreement
    <3> QED BY <3>5, <3>6, <3>7 DEF ChainAgreement
  <2>4. ASSUME NEW s \in Sessions, Lifecycle(s) PROVE ChainAgreement'
    <3>1. /\ UNCHANGED <<grabbed, n, toggledAt, sent>>
          /\ \A t \in Sessions : chan'[t] = chan[t] \/ chan'[t] = <<>>
      BY <2>4, LifecycleFrame
    <3>2. ASSUME NEW t \in Sessions PROVE Fresh(t, chan[t])'
      BY <3>1 DEF ChainAgreement, Fresh, Owned
    <3> QED BY <3>1, <3>2 DEF ChainAgreement
  <2>5. CASE UNCHANGED chainVars
    BY <2>5 DEF chainVars, desk, ChainAgreement, Fresh, Owned
  <2> QED BY <2>1, <2>2, <2>3, <2>4, <2>5, ChainCases
<1> QED BY <1>1, <1>2, CapturedInvariant, ChainTypeCorrect, PTL DEF ChainSafeSpec

\* For any number of sessions and any order of their hooks: an event queued since
\* the last toggle is forwarded by the session that swallowed it, and by no other.
THEOREM OneSessionForwards == ChainSafeSpec => OneMachinePerEvent
<1>1. ChainTypeOK /\ ChainAgreement /\ [ChainNext]_chainVars =>
        [\A s \in Sessions :
           LoopRecv(s) /\ Head(chan[s]).id > toggledAt =>
             (<<Head(chan[s]).id, s>> \in sent' <=> Head(chan[s]).taker = s)]_chainVars
  <2> SUFFICES ASSUME ChainTypeOK, ChainAgreement, NEW s \in Sessions,
                      LoopRecv(s), Head(chan[s]).id > toggledAt
               PROVE  <<Head(chan[s]).id, s>> \in sent' <=> Head(chan[s]).taker = s
    OBVIOUS
  <2>1. chan[s] \in Seq(Event) /\ chan[s] # <<>> /\ Fresh(s, chan[s])
    BY DEF LoopRecv, ChainTypeOK, ChainAgreement
  <2>2. Head(chan[s]) = chan[s][1] /\ 1 \in 1..Len(chan[s])
    BY <2>1, FreshTail
  <2>3. Head(chan[s]).id \in 1..MaxEvents
    <3>1. Head(chan[s]) \in Event
      BY <2>1, <2>2, ElementOfSeq
    <3> QED BY <3>1 DEF Event
  <2>4. Head(chan[s]).taker = s <=> s \in grabbed
    BY <2>1, <2>2 DEF Fresh, Owned
  <2>5. <<Head(chan[s]).id, s>> \notin sent
    BY <2>1, <2>2, <2>3 DEF Fresh
  <2> QED BY <2>4, <2>5 DEF LoopRecv
<1> QED BY <1>1, AgreementHolds, ChainTypeCorrect, PTL DEF ChainSafeSpec, OneMachinePerEvent
===============================================================================
