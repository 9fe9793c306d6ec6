------------------------------- MODULE TestCapture -------------------------------
(***************************************************************************)
(* `dshare test-capture`: install the capture hooks, log what they report  *)
(* until a deadline, and with --self-test inject three small motions there *)
(* and back, to see them come round through the OS.                        *)
(*                                                                         *)
(* The hooks are those of a server session: nothing keeps the hotkey from  *)
(* turning the grab on.  The deadline is after the hooks are up (--seconds *)
(* 1 or more); a capture dropped while they start is WinCapture's subject. *)
(* User events are not bounded: the loop has to end in spite of them.      *)
(***************************************************************************)
EXTENDS MouseHook

CONSTANTS
  Rounds,     \* there-and-back motions of the self-test (3 in the code)
  Step        \* their size (2)

\* What the constants are; assumed where they get their values.
TestAssumption == Rounds \in Nat /\ Step \in Nat \ {0}

VARIABLES
  hooks,      \* "starting", "on", "failed" (the capture has ended) or "off"
  pc,         \* the loop: "check", "waiting" (for an event), "done", "exited"
  late,       \* the deadline has passed
  injections, \* motions the inject task has made, or -1 without --self-test
  (* History, read by properties only. *)
  start,      \* where the cursor was
  alone       \* neither the user nor the hotkey has interfered

testVars == <<hooks, pc, late, injections, start, alone>>
vars == <<hookVars, testVars>>

TypeOK ==
  /\ HookTypeOK
  /\ hooks \in {"starting", "on", "failed", "off"}
  /\ pc \in {"check", "waiting", "done", "exited"}
  /\ late \in BOOLEAN /\ alone \in BOOLEAN
  /\ injections \in -1..(2 * Rounds)
  /\ start \in 0..Width

Init ==
  /\ HookInit
  /\ hooks = "starting"
  /\ pc = "check"
  /\ late = FALSE
  /\ injections \in {-1, 0}
  /\ start = cursor
  /\ alone = TRUE

\* A motion, of the user or injected, goes through the hook if there is one.
Motion(d) ==
  IF hooks = "on" THEN HookMove(d)
  ELSE cursor' = Clip(cursor + d) /\ UNCHANGED <<last, grabbed, chan>>

UserMoves(d) ==
  /\ pc # "exited"
  /\ Motion(d)
  /\ alone' = FALSE
  /\ UNCHANGED <<hooks, pc, late, injections, start>>

UserToggles ==
  /\ hooks = "on"
  /\ HotKey
  /\ alone' = FALSE
  /\ UNCHANGED <<hooks, pc, late, injections, start>>

\* The inject task: there and back, with pauses; results are ignored.
Injects ==
  /\ pc # "exited"
  /\ injections \in 0..(2 * Rounds - 1)
  /\ Motion(IF injections % 2 = 0 THEN Step ELSE -Step)
  /\ injections' = injections + 1
  /\ UNCHANGED <<hooks, pc, late, start, alone>>

Installed ==
  /\ hooks = "starting"
  /\ hooks' = "on"
  /\ UNCHANGED <<hookVars, pc, late, injections, start, alone>>

\* run fails, as on Linux, or the hooks cannot be installed; the sender is dropped.
CaptureFails ==
  /\ hooks = "starting"
  /\ hooks' = "failed"
  /\ UNCHANGED <<hookVars, pc, late, injections, start, alone>>

Deadline ==
  /\ hooks # "starting" /\ ~late
  /\ late' = TRUE
  /\ UNCHANGED <<hookVars, hooks, pc, injections, start, alone>>

Check ==
  /\ pc = "check"
  /\ pc' = IF late THEN "done" ELSE "waiting"
  /\ UNCHANGED <<hookVars, hooks, late, injections, start, alone>>

\* A mutant of Received: the deadline is looked at only when nothing happens.
ReceivedDrainsMutant ==
  /\ pc = "waiting" /\ chan # <<>>
  /\ chan' = Tail(chan)
  /\ UNCHANGED <<cursor, last, grabbed, testVars>>

\* An event is logged.
Received ==
  /\ pc = "waiting" /\ chan # <<>>
  /\ chan' = Tail(chan)
  /\ pc' = "check"
  /\ UNCHANGED <<cursor, last, grabbed, hooks, late, injections, start, alone>>

\* Half a second without an event.
TimedOut ==
  /\ pc = "waiting" /\ chan = <<>> /\ hooks # "failed"
  /\ pc' = "check"
  /\ UNCHANGED <<hookVars, hooks, late, injections, start, alone>>

SenderGone ==
  /\ pc = "waiting" /\ chan = <<>> /\ hooks = "failed"
  /\ pc' = "done"
  /\ UNCHANGED <<hookVars, hooks, late, injections, start, alone>>

\* cap_task.abort() and the end of the runtime: the tasks are dropped, the hooks
\* with the capture.
Exits ==
  /\ pc = "done"
  /\ pc' = "exited"
  /\ hooks' = "off"
  /\ UNCHANGED <<hookVars, late, injections, start, alone>>

Next ==
  \/ \E d \in Moves : UserMoves(d)
  \/ UserToggles
  \/ Injects
  \/ Installed
  \/ CaptureFails
  \/ Deadline
  \/ Check
  \/ Received
  \/ TimedOut
  \/ SenderGone
  \/ Exits

\* Time passes, the main task and the inject task run.
Fairness ==
  /\ WF_vars(Installed) /\ WF_vars(Deadline)
  /\ WF_vars(Check) /\ WF_vars(Received) /\ WF_vars(TimedOut) /\ WF_vars(SenderGone)
  /\ WF_vars(Exits)

Spec == Init /\ [][Next]_vars /\ Fairness

-------------------------------------------------------------------------------
(* Properties. *)

\* However fast events come, and whether or not somebody has turned the grab on,
\* the test ends after its deadline and the user's input is free again.  Its
\* self-test has then left the cursor where it was, provided nobody interfered
\* and there was room for a step; it does not matter when the hooks came up.
TestLeavesNothing ==
  <>[](/\ pc = "exited" /\ hooks = "off"
       /\ injections = 2 * Rounds /\ alone /\ start + Step <= Width => cursor = start)
===============================================================================
