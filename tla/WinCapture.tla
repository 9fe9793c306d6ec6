------------------------------- MODULE WinCapture -------------------------------
(***************************************************************************)
(* The life of WinCapture, the Windows capture backend, in every session   *)
(* the server has: the task that owns it, the hook thread the task spawns, *)
(* the two low-level hooks of that thread, and the Drop that ends them.    *)
(*                                                                         *)
(* A session is one run of handle_peer after its handshake.  Tasks run on  *)
(* the worker threads of the tokio runtime; Drop blocks its worker in      *)
(* JoinHandle::join.                                                       *)
(*                                                                         *)
(* What Windows does is modelled from how the code uses it: a thread has a *)
(* message queue from its first User32 call on, which is SetWindowsHookExW;*)
(* PostThreadMessageW to a thread without one fails, and Drop ignores that;*)
(* WM_QUIT stays in the queue until GetMessageW returns it.                *)
(***************************************************************************)
EXTENDS Naturals, FiniteSets

CONSTANTS
  Sessions,   \* the sessions the server may have
  Workers     \* worker threads of the runtime

ASSUME CaptureAssumption ==
  /\ IsFiniteSet(Sessions)
  /\ Workers \in Nat \ {0}

VARIABLES
  session,    \* handle_peer: "none", "loop", then "left" (abort was called)
  task,       \* the capture task: "none", "spawned", "parked" (run awaits for
              \* ever), "joining" (in Drop), "ended"
  thread,     \* the hook thread: "none", "started", "published" (its id is
              \* stored), "mouse" (first hook set), "pumping", "exited"
  quit,       \* sessions with WM_QUIT in the message queue of their hook thread
  mouseHooks, \* sessions whose WH_MOUSE_LL hook is installed
  kbdHooks    \* sessions whose WH_KEYBOARD_LL hook is installed

vars == <<session, task, thread, quit, mouseHooks, kbdHooks>>

TypeOK ==
  /\ session \in [Sessions -> {"none", "loop", "left"}]
  /\ task \in [Sessions -> {"none", "spawned", "parked", "joining", "ended"}]
  /\ thread \in [Sessions ->
       {"none", "started", "published", "mouse", "pumping", "exited"}]
  /\ quit \in SUBSET {s \in Sessions : thread[s] \in {"mouse", "pumping", "exited"}}
  /\ mouseHooks \in SUBSET Sessions
  /\ kbdHooks \in SUBSET Sessions

Init ==
  /\ session = [s \in Sessions |-> "none"]
  /\ task = [s \in Sessions |-> "none"]
  /\ thread = [s \in Sessions |-> "none"]
  /\ quit = {}
  /\ mouseHooks = {}
  /\ kbdHooks = {}

\* A worker that joins a hook thread polls nothing else.
WorkerFree == Cardinality({s \in Sessions : task[s] = "joining"}) < Workers

-------------------------------------------------------------------------------
(* The tasks of the runtime. *)

\* handle_peer creates the capture and the channel and spawns the task.
StartCapture(s) ==
  /\ WorkerFree
  /\ session[s] = "none"
  /\ session' = [session EXCEPT ![s] = "loop"]
  /\ task' = [task EXCEPT ![s] = "spawned"]
  /\ UNCHANGED <<thread, quit, mouseHooks, kbdHooks>>

\* The first poll of the task: run() spawns the hook thread and parks, unless
\* the task was aborted before it was polled.
Run(s) ==
  /\ WorkerFree
  /\ task[s] = "spawned" /\ session[s] = "loop"
  /\ task' = [task EXCEPT ![s] = "parked"]
  /\ thread' = [thread EXCEPT ![s] = "started"]
  /\ UNCHANGED <<session, quit, mouseHooks, kbdHooks>>

\* The thread cannot be spawned: run() returns the error, which is logged, and
\* the capture is dropped with no thread to join.
RunFails(s) ==
  /\ WorkerFree
  /\ task[s] = "spawned" /\ session[s] = "loop"
  /\ task' = [task EXCEPT ![s] = "ended"]
  /\ UNCHANGED <<session, thread, quit, mouseHooks, kbdHooks>>

\* The loop of handle_peer ends; abort() is its next statement.
LeaveLoop(s) ==
  /\ WorkerFree
  /\ session[s] = "loop"
  /\ session' = [session EXCEPT ![s] = "left"]
  /\ UNCHANGED <<task, thread, quit, mouseHooks, kbdHooks>>

\* The client disconnects, or reading from or sending to it fails.
PeerGone(s) == LeaveLoop(s)

\* A mutant of SenderGone: the loop is told only of a run() that returned, as
\* if the task kept a sender of its own.
SenderGoneTaskOnlyMutant(s) == task[s] = "ended" /\ LeaveLoop(s)

\* cap_rx.recv() returns None: the only sender was moved to the hook thread
\* and is gone with it, or was dropped because there is no thread.
SenderGone(s) == (task[s] = "ended" \/ thread[s] = "exited") /\ LeaveLoop(s)

\* The id of the hook thread is in hook_thread_id.
TidStored(s) == thread[s] \notin {"none", "started"}

\* The hook thread has a message queue, so that PostThreadMessageW succeeds.
HasQueue(s) == thread[s] \in {"mouse", "pumping"}

\* Mutants of DropCapture: it does not join the hook thread, and it leaves the
\* hook thread without its WM_QUIT.
DropCaptureDetachesMutant(s) ==
  /\ WorkerFree
  /\ session[s] = "left" /\ task[s] \in {"spawned", "parked"}
  /\ quit' = IF TidStored(s) /\ HasQueue(s) THEN quit \cup {s} ELSE quit
  /\ task' = [task EXCEPT ![s] = "ended"]
  /\ UNCHANGED <<session, thread, mouseHooks, kbdHooks>>
DropCaptureSilentMutant(s) ==
  /\ WorkerFree
  /\ session[s] = "left" /\ task[s] \in {"spawned", "parked"}
  /\ task' = [task EXCEPT ![s] = IF thread[s] = "none" THEN "ended" ELSE "joining"]
  /\ UNCHANGED <<session, thread, quit, mouseHooks, kbdHooks>>

\* The runtime drops the aborted task and with it the capture: WM_QUIT is
\* posted if the thread's id is known by now, and the thread, if any, joined.
DropCapture(s) ==
  /\ WorkerFree
  /\ session[s] = "left" /\ task[s] \in {"spawned", "parked"}
  /\ quit' = IF TidStored(s) /\ HasQueue(s) THEN quit \cup {s} ELSE quit
  /\ task' = [task EXCEPT ![s] = IF thread[s] = "none" THEN "ended" ELSE "joining"]
  /\ UNCHANGED <<session, thread, mouseHooks, kbdHooks>>

\* join() returns.
Joined(s) ==
  /\ task[s] = "joining" /\ thread[s] = "exited"
  /\ task' = [task EXCEPT ![s] = "ended"]
  /\ UNCHANGED <<session, thread, quit, mouseHooks, kbdHooks>>

-------------------------------------------------------------------------------
(* The hook thread: hook_thread_main. *)

\* tid_slot.store(GetCurrentThreadId()).
PublishTid(s) ==
  /\ thread[s] = "started"
  /\ thread' = [thread EXCEPT ![s] = "published"]
  /\ UNCHANGED <<session, task, quit, mouseHooks, kbdHooks>>

\* SetWindowsHookExW(WH_MOUSE_LL), which may fail and end the thread.
HookMouse(s) ==
  /\ thread[s] = "published"
  /\ \/ /\ thread' = [thread EXCEPT ![s] = "mouse"]
        /\ mouseHooks' = mouseHooks \cup {s}
     \/ /\ thread' = [thread EXCEPT ![s] = "exited"]
        /\ UNCHANGED mouseHooks
  /\ UNCHANGED <<session, task, quit, kbdHooks>>

\* A mutant of HookKbd: the failure path forgets the hook that was set.
HookKbdLeaksMutant(s) ==
  /\ thread[s] = "mouse"
  /\ \/ /\ thread' = [thread EXCEPT ![s] = "pumping"]
        /\ kbdHooks' = kbdHooks \cup {s}
     \/ /\ thread' = [thread EXCEPT ![s] = "exited"]
        /\ UNCHANGED kbdHooks
  /\ UNCHANGED <<session, task, quit, mouseHooks>>

\* SetWindowsHookExW(WH_KEYBOARD_LL); if it fails the mouse hook is removed.
HookKbd(s) ==
  /\ thread[s] = "mouse"
  /\ \/ /\ thread' = [thread EXCEPT ![s] = "pumping"]
        /\ kbdHooks' = kbdHooks \cup {s}
        /\ UNCHANGED mouseHooks
     \/ /\ thread' = [thread EXCEPT ![s] = "exited"]
        /\ mouseHooks' = mouseHooks \ {s}
        /\ UNCHANGED kbdHooks
  /\ UNCHANGED <<session, task, quit>>

\* GetMessageW returns WM_QUIT: the pump ends and both hooks are removed.  The
\* thread pumps nothing in between, so no callback sees only one of them.
PumpQuits(s) ==
  /\ thread[s] = "pumping" /\ s \in quit
  /\ thread' = [thread EXCEPT ![s] = "exited"]
  /\ quit' = quit \ {s}
  /\ mouseHooks' = mouseHooks \ {s}
  /\ kbdHooks' = kbdHooks \ {s}
  /\ UNCHANGED <<session, task>>

-------------------------------------------------------------------------------
Step(s) ==
  \/ StartCapture(s)
  \/ Run(s)
  \/ RunFails(s)
  \/ PeerGone(s)
  \/ SenderGone(s)
  \/ DropCapture(s)
  \/ Joined(s)
  \/ PublishTid(s)
  \/ HookMouse(s)
  \/ HookKbd(s)
  \/ PumpQuits(s)

Next == \E s \in Sessions : Step(s)

\* Threads and tasks that can run do.  Clients come and go as they please.
Fairness ==
  \A s \in Sessions :
    /\ WF_vars(Run(s) \/ RunFails(s))
    /\ WF_vars(SenderGone(s))
    /\ WF_vars(DropCapture(s))
    /\ WF_vars(Joined(s))
    /\ WF_vars(PublishTid(s))
    /\ WF_vars(HookMouse(s))
    /\ WF_vars(HookKbd(s))
    /\ WF_vars(PumpQuits(s))

SafeSpec == Init /\ [][Next]_vars
Spec == SafeSpec /\ Fairness

-------------------------------------------------------------------------------
(* Properties. *)

\* A hook that is installed has a thread on the way to its message pump, and a
\* thread that is gone, on whichever path, leaves no hook in the system.
HooksMatchThread ==
  \A s \in Sessions :
    /\ s \in mouseHooks <=> HasQueue(s)
    /\ s \in kbdHooks <=> thread[s] = "pumping"

\* Drop is synchronous: once the capture is gone its hooks are out of the chain
\* and will never be put into it.
NoHookAfterDrop ==
  \A s \in Sessions : task[s] = "ended" =>
    /\ s \notin mouseHooks \cup kbdHooks
    /\ thread[s] \in {"none", "exited"}

\* Hooks that cannot be installed end the session: the sender dies with the hook
\* thread, the loop sees the end of the channel.  Nothing else reports it.
FailedHooksEndSession ==
  \A s \in Sessions : thread[s] = "exited" ~> session[s] = "left"

\* From the moment the hook thread has a message queue, leaving the loop ends the
\* thread and the task: WM_QUIT waits in the queue through the rest of the
\* installation.
DropEndsOnceQueued ==
  \A s \in Sessions :
    (session[s] = "left" /\ task[s] = "parked" /\ HasQueue(s)) ~> task[s] = "ended"

\* crates/dshare-input/src/windows.rs:93-94: "The caller drops `self` (which
\* posts WM_QUIT) for a clean shutdown."  The code does not ensure it: Drop can
\* run before the hook thread can be posted to.
CleanShutdown == \A s \in Sessions : session[s] = "left" ~> task[s] = "ended"
===============================================================================
