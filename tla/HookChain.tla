------------------------------- MODULE HookChain --------------------------------
(***************************************************************************)
(* Several sessions on one desktop.  run_server accepts any number of      *)
(* clients and every session installs hooks of its own, with its own grab  *)
(* flag and its own channel, but the user, the keyboard and the chain of   *)
(* low-level hooks are shared: Windows calls the newest hook first, and    *)
(* only a hook that calls CallNextHookEx lets the event go on to the older *)
(* hooks and, past the last one, to the local OS.                          *)
(*                                                                         *)
(* The module adds the user, the two chains and the callbacks to the life  *)
(* cycle of WinCapture.  What the loop does with a message it decides to   *)
(* send is InputPath's subject: here it has simply been sent.              *)
(***************************************************************************)
EXTENDS WinCapture, Sequences

CONSTANTS
  Keys,       \* keyboard keys
  Motions,    \* mouse motions
  Mods,       \* the modifiers of the hotkey
  HotKey,     \* the key that toggles a grab while Mods are down
  ChanCap,    \* capacity of a capture channel
  MaxEvents   \* bound on the number of user events in a behaviour

Local == "local"   \* the server's own OS, beside the sessions

ASSUME ChainAssumption ==
  /\ Local \notin Sessions
  /\ Mods \subseteq Keys /\ HotKey \in Keys \ Mods
  /\ Keys \cap Motions = {}
  /\ ChanCap \in Nat \ {0} /\ MaxEvents \in Nat

VARIABLES
  mouseChain, \* the chain of WH_MOUSE_LL hooks, as an order: <<s, t>> if the hook
              \* of s is that of t or in front of it
  kbdChain,   \* the chain of WH_KEYBOARD_LL hooks
  grabbed,    \* the sessions whose AtomicBool is set
  phys,       \* keys the user holds down
  osDown,     \* keys the local OS believes to be down
  chan,       \* the capture channel of each session
  n,          \* number of user events so far
  sent,       \* <<id, session>>: the events forwarded so far
  toggledAt   \* id of the user event that last toggled a grab (history)

desk == <<grabbed, phys, osDown, n, toggledAt>>
chainVars == <<vars, mouseChain, kbdChain, desk, chan, sent>>

Event == [id : 1..MaxEvents, inp : Keys \cup Motions, pressed : BOOLEAN,
          taker : Sessions \cup {Local}]

\* Every two hooks of a chain have an order: whichever have gone, one is in front.
IsChain(chain, hooks) ==
  /\ chain \subseteq hooks \X hooks
  /\ \A s, t \in hooks :
       /\ <<s, t>> \in chain \/ <<t, s>> \in chain
       /\ (<<s, t>> \in chain /\ <<t, s>> \in chain) => s = t
  /\ \A s, t, u \in hooks :
       (<<s, t>> \in chain /\ <<t, u>> \in chain) => <<s, u>> \in chain

ChainTypeOK ==
  /\ TypeOK
  /\ IsChain(mouseChain, mouseHooks) /\ IsChain(kbdChain, kbdHooks)
  /\ grabbed \in SUBSET Sessions
  /\ phys \in SUBSET Keys /\ osDown \in SUBSET Keys
  /\ chan \in [Sessions -> Seq(Event)]
  /\ \A s \in Sessions : Len(chan[s]) <= ChanCap
  /\ n \in 0..MaxEvents /\ toggledAt \in 0..MaxEvents
  /\ sent \in SUBSET ((1..MaxEvents) \X Sessions)

ChainInit ==
  /\ Init
  /\ mouseChain = {}
  /\ kbdChain = {}
  /\ grabbed = {}
  /\ phys = {}
  /\ osDown = {}
  /\ chan = [s \in Sessions |-> <<>>]
  /\ n = 0
  /\ sent = {}
  /\ toggledAt = 0

-------------------------------------------------------------------------------
(* The user and the callbacks. *)

\* A hook is called in the thread that installed it, so not before that thread
\* pumps messages.
Called(chain) == {s \in Sessions : <<s, s>> \in chain /\ thread[s] = "pumping"}

\* The hooks that are called before that of s.
Before(chain, s) == {t \in Called(chain) : t # s /\ <<t, s>> \in chain}

\* The sessions whose callback sees an event: down the chain, up to the first
\* one with its grab on.
Reached(chain) == {s \in Called(chain) : Before(chain, s) \cap grabbed = {}}

\* A mutant of Takers: the event goes to the newest hook only.
TakersNewestMutant(chain) ==
  LET newest == {s \in Called(chain) : Before(chain, s) = {}}
  IN  IF newest \cap grabbed = {} THEN {Local} ELSE newest

\* Who has the event in the end: the session that swallows it, or the local OS.
Takers(chain) ==
  IF Called(chain) \cap grabbed = {} THEN {Local} ELSE Reached(chain) \cap grabbed

\* A mutant of Queue: a channel without a bound.
QueueUnboundedMutant(s, e, reached) ==
  IF s \in reached /\ session[s] = "loop" THEN Append(chan[s], e) ELSE chan[s]

\* try_send in every callback that is reached.
Queue(s, e, reached) ==
  IF s \in reached /\ session[s] = "loop" /\ Len(chan[s]) < ChanCap
  THEN Append(chan[s], e) ELSE chan[s]

UserActs(i, pressed) ==
  /\ n < MaxEvents
  /\ n' = n + 1
  /\ (i \in Keys /\ (pressed \/ i \in phys)) \/ (i \in Motions /\ pressed)
  /\ phys' = IF i \in Motions THEN phys
             ELSE IF pressed THEN phys \cup {i} ELSE phys \ {i}
  /\ UNCHANGED <<vars, mouseChain, kbdChain, sent>>

\* The newest keyboard hook alone sees the hotkey: it toggles its own flag and
\* swallows the event.
KbdHotKey ==
  /\ Mods \subseteq osDown
  /\ UserActs(HotKey, TRUE)
  /\ \E s \in Called(kbdChain) :
       /\ Before(kbdChain, s) = {}
       /\ grabbed' = IF s \in grabbed THEN grabbed \ {s} ELSE grabbed \cup {s}
  /\ toggledAt' = n'
  /\ UNCHANGED <<osDown, chan>>

\* Any other event, in the callbacks of its chain.
Capture(chain, i, pressed) ==
  /\ UserActs(i, pressed)
  /\ \E taker \in Takers(chain) :
       LET e == [id |-> n', inp |-> i, pressed |-> pressed, taker |-> taker]
       IN  /\ chan' = [s \in Sessions |-> Queue(s, e, Reached(chain))]
           /\ osDown' = IF taker # Local \/ i \in Motions THEN osDown
                        ELSE IF pressed THEN osDown \cup {i} ELSE osDown \ {i}
  /\ UNCHANGED <<grabbed, toggledAt>>

KbdHooks(k, pressed) ==
  /\ k \in Keys
  /\ ~(k = HotKey /\ pressed /\ Mods \subseteq osDown /\ Called(kbdChain) # {})
  /\ Capture(kbdChain, k, pressed)

MouseHooks(i) == i \in Motions /\ Capture(mouseChain, i, TRUE)

\* A mutant of LoopRecv: every session reads the flag of the newest one.
LoopRecvOneFlagMutant(s) ==
  /\ session[s] = "loop" /\ chan[s] # <<>>
  /\ chan' = [chan EXCEPT ![s] = Tail(@)]
  /\ sent' = IF grabbed # {} THEN sent \cup {<<Head(chan[s]).id, s>>} ELSE sent
  /\ UNCHANGED <<vars, mouseChain, kbdChain, desk>>

\* A session's loop takes a message and sends it if its own flag is set now.
LoopRecv(s) ==
  /\ session[s] = "loop" /\ chan[s] # <<>>
  /\ chan' = [chan EXCEPT ![s] = Tail(@)]
  /\ sent' = IF s \in grabbed THEN sent \cup {<<Head(chan[s]).id, s>>} ELSE sent
  /\ UNCHANGED <<vars, mouseChain, kbdChain, desk>>

-------------------------------------------------------------------------------
(* The life cycle of the sessions, and what it does to the chains. *)

\* A hook that was installed is the newest, one that was removed is gone.
Relink(chain, hooks) ==
  LET kept == {p \in chain : p[1] \in hooks /\ p[2] \in hooks}
      new == {s \in hooks : <<s, s>> \notin chain}
  IN  kept \cup (new \X hooks)

\* What a step of session s does to the rest: the chains follow the hooks, and
\* the receiver of a channel is dropped with its loop.
Relinked(s) ==
  /\ mouseChain' = Relink(mouseChain, mouseHooks')
  /\ kbdChain' = Relink(kbdChain, kbdHooks')
  /\ chan' = [chan EXCEPT ![s] = IF session'[s] = "left" THEN <<>> ELSE @]
  /\ UNCHANGED <<desk, sent>>

Lifecycle(s) == Step(s) /\ Relinked(s)

ChainNext ==
  \/ KbdHotKey
  \/ \E k \in Keys, pressed \in BOOLEAN : KbdHooks(k, pressed)
  \/ \E i \in Motions : MouseHooks(i)
  \/ \E s \in Sessions : LoopRecv(s)
  \/ \E s \in Sessions : Lifecycle(s)

\* As in WinCapture; the callbacks and the loop never keep a task waiting.
ChainFairness ==
  \A s \in Sessions :
    /\ WF_chainVars((Run(s) \/ RunFails(s)) /\ Relinked(s))
    /\ WF_chainVars(SenderGone(s) /\ Relinked(s))
    /\ WF_chainVars(Joined(s) /\ Relinked(s))
    /\ WF_chainVars(PublishTid(s) /\ Relinked(s))
    /\ WF_chainVars(DropCapture(s) /\ Relinked(s))
    /\ WF_chainVars(HookMouse(s) /\ Relinked(s))
    /\ WF_chainVars(HookKbd(s) /\ Relinked(s))
    /\ WF_chainVars(PumpQuits(s) /\ Relinked(s))

ChainSafeSpec == ChainInit /\ [][ChainNext]_chainVars
ChainSpec == ChainSafeSpec /\ ChainFairness

-------------------------------------------------------------------------------
(* Properties. *)

\* However many sessions there are, an event captured since the last toggle is
\* forwarded by the session that swallowed it and by no other, and by none if
\* the local OS got it - although every hook in front of the swallowing one has
\* queued it too.
OneMachinePerEvent ==
  [][\A s \in Sessions :
       LoopRecv(s) /\ Head(chan[s]).id > toggledAt =>
         (<<Head(chan[s]).id, s>> \in sent' <=> Head(chan[s]).taker = s)]_chainVars

\* As long as any hook in the chain swallows, the local OS sees the modifiers of
\* the hotkey down, whichever session was grabbed first and whichever has come
\* or gone since: the hotkey is not lost.
AnyGrabKeepsChordDown == kbdHooks \cap grabbed # {} => Mods \subseteq osDown

\* README.md:67: "Press the same hotkey again to release."  With more than one
\* client the code does not ensure it.
HotKeyReleases ==
  [][KbdHotKey /\ kbdHooks \cap grabbed # {} => kbdHooks \cap grabbed' = {}]_chainVars
===============================================================================
