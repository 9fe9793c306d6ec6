-------------------------------- MODULE MouseHook --------------------------------
(***************************************************************************)
(* What mouse_hook_proc makes of motion and of the wheel: the data that    *)
(* InputPath leaves out.  One axis stands for both.                        *)
(*                                                                         *)
(* Windows calls the hook with the position the cursor is about to take.   *)
(* The hook sends the difference to the position it saw last, whether or   *)
(* not the cursor ever went there: a swallowed motion leaves it where it   *)
(* is.  MousePath and TestCapture add what reads the channel.              *)
(***************************************************************************)
EXTENDS Integers, Sequences

CONSTANTS
  Width,      \* the cursor is at 0..Width
  Moves,      \* motions of the mouse, in pixels
  Wheels,     \* movements of the wheel
  WordSize,   \* number of values a word has (2^16 in the code)
  Notch,      \* WHEEL_DELTA (120)
  ChanCap,    \* capacity of the capture channel (256 in the code)
  Nowhere     \* no position

ASSUME HookAssumption ==
  /\ Width \in Nat /\ Moves \subseteq Int
  /\ WordSize \in Nat /\ Wheels \subseteq {i \in Int : -WordSize <= 2 * i /\ 2 * i < WordSize}
  /\ Notch \in Nat \ {0} /\ ChanCap \in Nat \ {0}
  /\ Nowhere \notin Int

VARIABLES
  cursor,     \* where the cursor of the local desktop is
  last,       \* LAST_MOUSE_POS
  grabbed,    \* the grab flag
  chan        \* the capture channel

hookVars == <<cursor, last, grabbed, chan>>

\* A MouseMove or a MouseWheel and its delta.
Message == [kind : {"move", "wheel"}, delta : Int]

HookTypeOK ==
  /\ cursor \in 0..Width
  /\ last \in Int \cup {Nowhere}
  /\ grabbed \in BOOLEAN
  /\ chan \in Seq(Message) /\ Len(chan) <= ChanCap

HookInit ==
  /\ cursor \in 0..Width
  /\ last = Nowhere
  /\ grabbed = FALSE
  /\ chan = <<>>

Clip(x) == IF x < 0 THEN 0 ELSE IF x > Width THEN Width ELSE x

\* The position a hook is called with may lie beyond the edge of the screen.
Reported(d) == {cursor + d, Clip(cursor + d)}

TrySend(m) == chan' = IF Len(chan) < ChanCap THEN Append(chan, m) ELSE chan

\* WM_MOUSEMOVE.  The first motion only sets the position.
MoveTo(pt) ==
  /\ last' = pt
  /\ IF last = Nowhere THEN UNCHANGED chan
     ELSE TrySend([kind |-> "move", delta |-> pt - last])
  /\ cursor' = IF grabbed THEN cursor ELSE Clip(pt)
  /\ UNCHANGED grabbed

HookMove(d) == \E pt \in Reported(d) : MoveTo(pt)

\* The high word of mouseData: the wheel's movement in two's complement.
Word(w) == w % WordSize

\* A mutant of AsI16: `as u16 as i32`, no word is negative.
AsI16UnsignedMutant(word) == word

\* `as u16 as i16`: the upper half of the words are negative.
AsI16(word) == IF 2 * word < WordSize THEN word ELSE word - WordSize

\* Integer division truncates towards zero.
Notches(delta) == IF delta < 0 THEN -((-delta) \div Notch) ELSE delta \div Notch

\* WM_MOUSEWHEEL; a part of a notch is dropped with its event.
HookWheel(w) ==
  /\ TrySend([kind |-> "wheel", delta |-> Notches(AsI16(Word(w)))])
  /\ UNCHANGED <<cursor, last, grabbed>>

\* The hotkey, whenever the user presses it.
HotKey ==
  /\ grabbed' = ~grabbed
  /\ UNCHANGED <<cursor, last, chan>>
===============================================================================
