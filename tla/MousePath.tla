-------------------------------- MODULE MousePath --------------------------------
(***************************************************************************)
(* Motion and wheel on their way to the client: MouseHook, the loop that   *)
(* forwards while the grab is on, and the client's injection.  The life    *)
(* and death of the two ends is InputPath's subject.                       *)
(***************************************************************************)
EXTENDS MouseHook

CONSTANT MaxEvents   \* bound on the number of user events in a behaviour

ASSUME MousePathAssumption == MaxEvents \in Nat

VARIABLES
  link,       \* messages sent and not yet injected
  injected,   \* what the client's device was told to move and to turn, added up
  n,          \* number of user events so far
  (* History, read by properties only. *)
  discarded,  \* what the loop took from the channel while the grab was off
  wheel,      \* wheel movement of the user, in units of the wheel
  odd,        \* number of wheel movements that were no number of notches
  lossy       \* a message was dropped by a full channel or failed to inject

pathVars == <<link, injected, n, discarded, wheel, odd, lossy>>
mouseVars == <<hookVars, pathVars>>

Kinds == {"move", "wheel"}

\* What the messages of a queue tell a device, added up.
Part(m, kind) == IF m.kind = kind THEN m.delta ELSE 0
SumOf(q, kind) ==
  LET sum[i \in 0..Len(q)] == IF i = 0 THEN 0 ELSE sum[i - 1] + Part(q[i], kind)
  IN  sum[Len(q)]

MouseTypeOK ==
  /\ HookTypeOK
  /\ link \in Seq(Message)
  /\ injected \in [Kinds -> Int] /\ discarded \in [Kinds -> Int]
  /\ n \in 0..MaxEvents /\ odd \in 0..MaxEvents
  /\ wheel \in Int
  /\ lossy \in BOOLEAN

MouseInit ==
  /\ HookInit
  /\ link = <<>>
  /\ injected = [k \in Kinds |-> 0]
  /\ n = 0
  /\ discarded = [k \in Kinds |-> 0]
  /\ wheel = 0
  /\ odd = 0
  /\ lossy = FALSE

UserActs ==
  /\ n < MaxEvents
  /\ n' = n + 1
  /\ UNCHANGED <<link, injected, discarded>>

\* try_send found the channel full.
Dropped == last # Nowhere /\ Len(chan) = ChanCap

UserMoves(d) ==
  /\ UserActs
  /\ HookMove(d)
  /\ lossy' = (lossy \/ Dropped)
  /\ UNCHANGED <<wheel, odd>>

UserScrolls(w) ==
  /\ UserActs
  /\ HookWheel(w)
  /\ wheel' = wheel + w
  /\ odd' = IF w % Notch = 0 THEN odd ELSE odd + 1
  /\ lossy' = (lossy \/ Len(chan) = ChanCap)

UserToggles ==
  /\ UserActs
  /\ HotKey
  /\ UNCHANGED <<wheel, odd, lossy>>

\* cap_rx.recv(), and sink.send if the flag is set now.
LoopRecv ==
  /\ chan # <<>>
  /\ chan' = Tail(chan)
  /\ LET m == Head(chan)
     IN  IF grabbed
         THEN link' = Append(link, m) /\ UNCHANGED discarded
         ELSE discarded' = [discarded EXCEPT ![m.kind] = @ + m.delta] /\ UNCHANGED link
  /\ UNCHANGED <<cursor, last, grabbed, injected, n, wheel, odd, lossy>>

\* The client's handle: REL_X or REL_WHEEL on Linux, nothing if the delta is 0;
\* MOUSEEVENTF_MOVE or MOUSEEVENTF_WHEEL (dy * 120) on Windows.  A failure is only
\* logged.
InjectMouse ==
  /\ link # <<>>
  /\ link' = Tail(link)
  /\ \/ /\ injected' = [injected EXCEPT ![Head(link).kind] = @ + Head(link).delta]
        /\ UNCHANGED lossy
     \/ lossy' = TRUE /\ UNCHANGED injected
  /\ UNCHANGED <<hookVars, n, discarded, wheel, odd>>

MouseNext ==
  \/ \E d \in Moves : UserMoves(d)
  \/ \E w \in Wheels : UserScrolls(w)
  \/ UserToggles
  \/ LoopRecv
  \/ InjectMouse

MouseSpec == MouseInit /\ [][MouseNext]_mouseVars

-------------------------------------------------------------------------------
(* Properties. *)

\* All a hook has sent, whatever has become of it: injected, on its way, or
\* discarded because the grab was off.
Accounted(kind) ==
  injected[kind] + SumOf(link, kind) + discarded[kind] + SumOf(chan, kind)

\* The wheel of the client turns as the user's does, but for less than a notch for
\* every movement that is not a number of notches.
WheelLosesParts ==
  ~lossy =>
    LET lost == wheel - Notch * Accounted("wheel")
    IN  -(odd * (Notch - 1)) <= lost /\ lost <= odd * (Notch - 1)

\* crates/dshare-protocol/src/lib.rs:39: a MouseMove is "Relative mouse motion while
\* cursor is on the remote screen": what the user moves the mouse by while the grab is
\* on is what is sent.  (Motions at the edge of the screen apart: the hook cannot see
\* all of them.)  The code does not ensure it: it counts from the position the hook
\* was called with last, and a swallowed motion has left the cursor where it was.
MotionIsRelative ==
  [][\A d \in Moves :
       /\ grabbed /\ UserMoves(d) /\ Len(chan') > Len(chan)
       /\ {last, cursor + d} \subseteq 0..Width
       => chan'[Len(chan')].delta = d]_mouseVars
===============================================================================
