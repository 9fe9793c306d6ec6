------------------------------ MODULE MCSideBySide -------------------------------
(* Model checking the small components side by side: `part` says which of them a *)
(* behaviour is about, the others stay in their initial state.  See README.md    *)
(* for the bounds.                                                               *)
EXTENDS ConfigFile, KeyPath, MousePath

CONSTANTS
  g1, g2, a1, a2,
  Rounds, Step                                        \* TestCapture

MCGuis == {g1, g2}
MCAddrs == {a1, a2}
MCEnvs == {{"APPDATA"}, {"HOME", "APPDATA"}}

MCMoves == {-1, 2}
\* A notch and a half, the smallest value of a word, a notch back.
MCWheels == {3, -4, -2}

VARIABLES
  part,                                               \* "file", "keys", "mouse" or "test"
  hooks, pc, late, injections, start, alone           \* TestCapture

testVars == <<hooks, pc, late, injections, start, alone>>

\* The test session has the hooks of a server session.
Test == INSTANCE TestCapture

ASSUME MCTestAssumption == Test!TestAssumption

MCInit ==
  /\ part \in {"file", "keys", "mouse", "test"}
  /\ Init /\ KeyInit /\ MouseInit /\ Test!Init
  /\ part # "file" => \A p \in DOMAIN env : env[p] = {"APPDATA"}
  /\ part \notin {"mouse", "test"} => cursor = 0
  /\ part # "test" => injections = 0

MCNext ==
  \/ part = "file" /\ Next
     /\ UNCHANGED <<part, keyVars, mouseVars, testVars>>
  \/ part = "keys" /\ KeyNext
     /\ UNCHANGED <<part, vars, mouseVars, testVars>>
  \/ part = "mouse" /\ MouseNext
     /\ UNCHANGED <<part, vars, keyVars, testVars>>
  \/ part = "test" /\ Test!Next
     /\ UNCHANGED <<part, vars, keyVars, pathVars>>

MCVars == <<part, vars, keyVars, mouseVars, testVars>>

\* Fairness of TestCapture; the others' safety needs none.
captureVars == <<hookVars, testVars>>
MCFairness ==
  /\ WF_captureVars(part = "test" /\ Test!Installed)
  /\ WF_captureVars(part = "test" /\ Test!Deadline)
  /\ WF_captureVars(part = "test" /\ Test!Check)
  /\ WF_captureVars(part = "test" /\ Test!Received)
  /\ WF_captureVars(part = "test" /\ Test!TimedOut)
  /\ WF_captureVars(part = "test" /\ Test!SenderGone)
  /\ WF_captureVars(part = "test" /\ Test!Exits)

MCSpec == MCInit /\ [][MCNext]_MCVars /\ MCFairness

-------------------------------------------------------------------------------
(* The types, and the properties of several modules or of the instance. *)

\* The types of the four modules.
PartsTypeOK ==
  /\ TypeOK /\ KeyTypeOK /\ MouseTypeOK
  /\ part = "test" => Test!TypeOK

\* Unless a message is lost, the wheel of the client turns as the user's does, less
\* than a notch apart for every movement that is not a number of notches.
WheelFollows == part = "mouse" => WheelLosesParts

\* The test ends after its deadline, the user's input is free again, and the
\* self-test has left the cursor where it was.
TestLeavesNothing == part = "test" => Test!TestLeavesNothing
===============================================================================
