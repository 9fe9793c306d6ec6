# A TLA+ verification of dshare

dshare shares the mouse and keyboard of a Windows machine (the *server*) with
Linux machines (the *clients*) over TCP. This directory models it in TLA+,
model-checks the models with TLC, and proves their central invariants with TLAPS. All
paths below are relative to `src/crates/`.

## 1. Inventory

| Component | State | Operations | Module(s) |
|---|---|---|---|
| Hook callbacks (`dshare-input/src/windows.rs`) | grab flag (shared `AtomicBool`), last mouse position | `mouse_hook_proc`, `kbd_hook_proc` | `InputPath`, `HookChain`, `MouseHook` |
| Capture life cycle (`windows.rs`, `dshare/src/main.rs`) | hook thread id and handle, the two hooks, the capture task | `new`, `run`, `drop`, `hook_thread_main` | `WinCapture` |
| Server session (`main.rs:274-318`) | capture channel (256), grab flag, framed stream | `select!` loop | `InputPath`, `HookChain`, `MousePath` |
| Client session (`main.rs:319-336`) and Linux injection (`linux.rs`) | virtual device | read loop, `handle` | `InputPath`, `MousePath`, `KeyPath` |
| Keycode tables (`dshare-protocol/src/keycode.rs`) and Windows injection (`windows.rs`) | held keys | look-ups, `send_key`, `send_mouse` | `Keycodes`, `KeyPath`, `TestCapture` |
| Handshake (`main.rs:220-269`) | where each end is | Hello, timeout, version check, HelloAck | `Handshake` |
| Wire codec (`dshare-protocol/src/codec.rs`) | receive buffer | `decode`, `encode` | `Frames`, `Codec` |
| `PeerSession` (`dshare-core/src/session.rs`) | two channels, two tasks | `spawn` | `Frames`, `PeerSession` |
| Clipboard (`dshare-clipboard/src/lib.rs`) | `last_hash`, OS clipboard | watcher task, `apply` | `Clipboard` |
| Screen layout (`dshare-core/src/layout.rs`) | none | `check_edge` | `Layout` |
| Configuration (`dshare-core/src/config.rs`) and GUI (`dshare-gui/src/lib.rs`) | a TOML file, a `Config` being edited | `load`, `save`, `default_path`, widgets, start of the daemon | `ConfigFile` |
| `test-capture` (`main.rs:78-150`) | deadline, inject task, hooks | receive loop, `--self-test` | `TestCapture` |
| Linux capture | none: a stub that fails | `run` | `RunFails` of `WinCapture`, `CaptureFails` of `TestCapture` |

How they interact. Windows calls the hook callbacks in the hook thread of every
session. A callback queues a message with `try_send` and, from the grab flag,
decides whether the local OS sees the event. The session's `select!` loop takes
the message, reads the same flag *again* and sends or drops it. The codec cuts
messages into a byte stream and finds them again; the client's loop
reads frames and injects them. The hook thread is started by the capture task and
ended by the `Drop` of the capture, when the loop is left and the task aborted. GUI
and daemon share a file and nothing else. The clipboard crate, `check_edge` and
`PeerSession` are complete but the daemon does not call them yet.

What is hard here, and which property answers it (the full list with lines is
`hazards` in `PROJECT.json`):

* the flag is read twice, by two threads, for one event: `ExactlyOneMachine`;
* events pass three queues and two tasks, and can be dropped in each:
  `RelaySpec`, `NoStuckInputs`;
* frames arrive in arbitrary pieces and builds with different limits meet:
  `ReaderIsRight` (`InSync`, `FailsForAReason`, `CleanEndIsComplete`), `FramesSpec`,
  `WholeFramesArrive`;
* the user must get control back, also from a stalled or dead client:
  `GrabKeepsChordDown`, `ClientGoneEndsSession`; the end of the session must release what
  the client holds: `SessionEndReleases`;
* the hook thread starts and stops concurrently with its owner: `HooksMatchThread`,
  `NoHookAfterDrop`, `DropEndsOnceQueued`, `FailedHooksEndSession`;
* several sessions share one desktop: `OneMachinePerEvent`,
  `AnyGrabKeepsChordDown`; one that ends while grabbed stops swallowing: `NoHookAfterDrop`,
  `DropEndsOnceQueued`;
* motion is the difference of two positions, of which one may never have been taken, so that
  it is lost while the grab is on: `MotionIsRelative`, which the code violates;
* wheel movements come in two's complement and in parts of a notch: `WheelFollows`
  (`WheelLosesParts`);
* two code tables and a list of extended keys must agree: `KeysFollow` (`LinuxFollows`,
  `WinFollows`);
* the ends do not wait for each other's HelloAck, and either can vanish:
  `ReadyMeansAccepted`, `HelloComesFirst`, `EveryEndDecides`, `ClosedEndsBoth`;
* the two tasks of a `PeerSession` end on their own: `InOrder`, `CleanEndLosesNothing`,
  `AcceptedIsWritten`, `CloseIsNoticed`;
* hash and clipboard are updated under different locks: `NoEchoUndisturbed`,
  `ClipboardSettles`;
* the file is rewritten in place, while others read or write it, and each process looks
  for it through its own environment: `RunsAsSaved` (`ConnectsWhereSaved`,
  `SavesRoundTrip`);
* unvalidated sizes and offsets meet `i32` arithmetic: `EntryOnPeer`,
  `OnlyUnrealScreensPanic`, `EntryFollowsCursor`;
* the self-test moves the real cursor, and must end under unbounded input:
  `TestLeavesNothing`.

## 2. Modules

`InputRelay` is the abstract promise of the input path: events arrive in order, each at most
once, none invented. `InputPath` implements it. `Frames` is the abstract promise of a
connection: whole frames, in order, without a gap, until it is over. `Codec`
implements it over the bytes of a TCP stream, `PeerSession` over tasks and channels;
`Handshake` and `InputPath` start from it. `WinCapture` is one session's capture, for every
session; `HookChain` extends it with the user, the hook chains and the channels.
`MouseHook` is the data of one callback; `MousePath` and `TestCapture` extend it with
what reads the channel. `KeyPath` extends the tables of `Keycodes`. `Clipboard`,
`Layout` and `ConfigFile` stand alone. `MC*.tla` give the constants
their values, `*Proofs.tla` hold the theorems.

### InputPath

One session after its handshake, hooks installed. `KbdHook`, `MouseHook` and `KbdHotKey`
are the callbacks, `LoopRecv`, `LoopSend`, `LoopSendFails`, `LoopPeerClosed` the
branches of the `select!` loop, `CaptureDropped` the end of the capture, `Inject`
and `ClientEof` the client's loop; `ClientDies` and `ServerKilled` are crashes or a lost
connection.
`hand` is the message of a pending `sink.send(msg).await`: while it is there the loop
polls nothing else.

* A callback is one step. Only the hook thread writes the flag, so its two reads in
  a callback agree, and the loop can see the event only through the channel.
* A swallowed event (`LRESULT(1)`) does not reach the OS, so `GetAsyncKeyState`,
  which is `osDown`, does not change with it.
* An input is a model value; codes, deltas and the modifiers of a `KeyEvent` are left
  out, and one modifier may stand for Ctrl, Alt and Shift. `Mapped` holds the inputs
  that have a `Message`; X buttons do not (`windows.rs:211`). The first mouse move
  has no `Message` either; leaving one out is a special case of a lost event.
* The server ignores inbound frames, so the client sends none in the model.
* The client's virtual device is destroyed, and its keys released, with its process.
* A dead client is noticed by TCP; one that vanishes silently is `Handshake`'s subject.

### WinCapture and HookChain

Per session: `session` (the loop), `task` (the capture task), `thread` (the hook
thread), the hooks and a waiting WM_QUIT. A thread has a message queue from its first
User32 call, which is `SetWindowsHookExW` here; posting to a thread without one fails and
the code ignores the error. `join` blocks a worker of the runtime (`Workers`).
`HookChain` has a chain of each type, an order of the installed hooks (`IsChain`) in which a
new hook comes first, as in Windows; a hook is called only once its thread pumps messages. The
event goes to the hooks in front of the first grabbed one and to that one (`Reached`), and to the
local OS if there is none (`Takers`). Windows' `LowLevelHooksTimeout` is not modelled.

### Handshake

Both ends run the same actions. `inbox` is a TCP stream of whole frames. An end may close
(`Leave`), be killed, or vanish with its machine, which closes nothing. Data that can
never be acknowledged (`unacked`) makes the connection fail some time; an end that has
sent nothing learns nothing. The five seconds may pass at any moment before the Hello
is read, with the Hello already in the inbox or not. An end that gets something else than a Hello first gives
up; conforming ends never send that (`HelloComesFirst`), so there is no such action.

### Clipboard

Each critical section of the two mutexes is a step. Texts stand for their hashes
(collisions are left out), mutex poisoning is left out, and there is one caller of
`apply` at a time. `origin`, `from` and `disturbed` are history: who put a text on
the clipboard, and whether `apply` overlapped a read and its check or failed to write.
`exchanged` is history too: the texts that entered the channel or were received since the
watcher last took a text for new. It is not changed when `last_hash` is, but when the message
is really queued, so `ClipboardSettles` notices a text that is taken for known and was lost
on its way into the channel (its mutant is `try_send`).

### Frames and Codec

One direction of one connection. A byte is its position in the stream, and the
state is four positions: written by the encoder, flushed to TCP, arrived, consumed
by the decoder. Any step may move any number of bytes, so every way of cutting the stream
occurs. Where the decoder takes bytes for a length, they are the sender's if its
position is the start of a frame and arbitrary otherwise; `InSync` says that it never looks
for one anywhere else. A payload is its size and whether the receiver's build can deserialise it. The two
builds may have different limits (`Caps`): the code has one constant, but nothing in the
handshake compares it. `Framed` is tokio-util's and external; it decodes until `None`
and, at the end of the stream, reports left-over bytes as an error.

### MouseHook, MousePath and TestCapture

`MouseHook` has a cursor that the desktop clips and a hook that subtracts positions;
`Nowhere` is the position before the first. One axis stands for both: the code treats them alike. A wheel movement is a word in
two's complement (`WordSize`), divided by `Notch` towards zero. `MousePath` compares sums (`SumOf` a queue, `Part` by part):
the wheel as the user turned it, what the hook sent of it, what became of that. Parts of a
notch are lost and never collected; `WheelLosesParts` bounds the loss by one part for each
movement. For motion there is no such bound: since a swallowed motion leaves the cursor
where it is, the differences count every motion from the frozen cursor and cancel out.
`MotionIsRelative` says what the protocol promises, and is violated.
`TestCapture` assumes that the deadline comes after the hooks are up (`--seconds` is
at least 1); a capture dropped while they start is `WinCapture`'s subject.

### Keycodes and KeyPath

`vk_to_evdev`, `evdev_to_vk`, `is_extended_vk` and the key list of the Linux device are
functions with every entry of the source, written as rows of codes for successive virtual
keys (`Row`; `Entries` takes them apart). A key of the `Keyboard` (`PlainVks`, `ExtendedVks`) is a virtual key and whether its
scan code is an extended one; `MapVirtualKeyW` is external and returns the
unextended scan code. The keyboard's keypad is there twice, with NumLock on and off; with
NumLock off its keys have the virtual keys of the arrow block and of Insert, Delete, Home, End and the
page keys, as the two Enters have one. Keys that share a virtual key are one key to the hook, and
release each other: the properties except keys that are held together with another of
their virtual key (`crossed`, a history variable); `Own` are those that share theirs with none. The
eleven punctuation keys are in `vk_to_evdev` and not in `evdev_to_vk`: they work on a Linux
client and are dropped, press and release, by a Windows one. (`dshare client` runs on Windows
as well, although the repository's README describes Linux clients.)

### PeerSession

Both ends of one connection with their reader and writer task, their two channels and the two
directions of the stream. The daemon has no owner for them, so the owners do what the
types allow: send plain, oversized or unknown messages, stop receiving, drop either
channel. A half that is dropped does not close the socket; the second one does. An owner that drops
its sender leaves messages in the channel: `AcceptedIsWritten` and `CleanEndLosesNothing` say that they
still go out, in front of the end of the stream.
An idle connection that both owners have abandoned is never closed: a reader
notices a dropped receiver only with a frame in its hand. `CloseIsNoticed`
therefore starts from an end that did close.

### ConfigFile

Windows that open (and load), edit, and save in two steps, truncation and write, which
overlap with those of other windows and with loads, and may be cut short; a daemon that
loads once, as a server or as a client that needs an address, and falls back on
defaults if the file cannot be read. A config is its server
address and its number of peers: the address lies in the head every config needs to be
readable, the peers in the tail. `Garbled` is a file that does not parse. A write starts at
the beginning of a file that another window may have filled since it was truncated:
`Overlaid` is what a whole write makes of it (the tail of a longer text remains), `Torn` what a
write makes of it that is cut short: the head of the new text in front of what the file held. The cut
may be in the address, and then the address may be `Spliced`, one that nobody typed. Each process
has an environment and finds its file by `dirs_path`.

`SavesRoundTrip` is about the save that begins when no other is under way: it repairs whatever was
there, spliced or torn. Saves that begin while it runs may mix with it, and the property says
how much. `ConnectsWhereSaved` excepts splices, which the code can produce.

### Layout

`Half` is 2^31. The arithmetic wraps in a release build and panics in a debug build
(`Cargo.toml` sets no `overflow-checks`); `clamp` panics in both if its bounds are the
wrong way round. `Next` asks for any position after any other.

## 3. Runs

| Run | Bounds | Shows |
|---|---|---|
| `input_path` | 3 keys (a modifier, G, another), an unmapped button, a motion, channel 2, link 1, 5 events | all properties of `InputPath` |
| `input_path_toggle` | same | **violated** `ToggleByChordPress` |
| `hook_chain` | 2 sessions, 2 workers, 2 keys, a motion, channel 1, 4 events | all properties of `WinCapture` and `HookChain` |
| `hook_chain_release` | same | **violated** `HotKeyReleases` |
| `win_capture_shutdown` | 2 sessions, 2 workers | **violated** `CleanShutdown` |
| `handshake_clipboard` | `Handshake`: 2 versions, 2 frames. `Clipboard`: 2 texts, channel 1, 2 copies, 2 applies | all properties of the two |
| `handshake_heartbeat` | as `Handshake` above | **violated** `LossIsNoticed` |
| `clipboard_echo` | as `Clipboard` above | **violated** `NoEcho` |
| `layout` | 3-bit integers, 3 screens, 2 offsets, up to 2 peers | all properties of `Layout` |
| `frames` | `Codec`: header 2 bytes, sizes 1 to 3, limits 1 and 2, 2 frames. `PeerSession`: every channel and the link hold 1, up to 3 messages one way and 1 the other, 3 together | all properties of `Codec` and `PeerSession` |
| `side_by_side` | `ConfigFile`: 2 windows, 2 addresses, 2 environments, 1 peer, 2 saves. `KeyPath`: 115 keys, 2 held, link 1. `MousePath`: cursor 0..3, motions -1 and 2, three wheel movements, 3-bit words, notch 2, channel 2, 4 events. `TestCapture`: the same screen, channel 1, motions of 1, 2 rounds, step 2 | all properties of the four |
| `mouse_motion` | same | **violated** `MotionIsRelative` |

`handshake_clipboard`, `frames` and `side_by_side` check components that share no state in one
run: `part`, chosen in the initial state, says which of them moves, and the others stay as they
are. A behaviour of the run is a behaviour of one component, so the state spaces add
up and do not multiply. `MCHandshakeClipboard` extends `MCHandshake` and `MCClipboard`, `MCFrames`
extends `Codec` and `PeerSession`; `MCSideBySide` extends
`ConfigFile`, `KeyPath` and `MousePath`, and instantiates `TestCapture`, whose hooks are the
variables of `MousePath`'s. (Modules that are extended together prefix the names they would
share: `PeerInit`, `KeyNext`, `ClipTypeOK`, `mouseVars`.) `FramesTypeOK`, `PartsTypeOK` and
`KeysFollow` are conjunctions of the modules' own properties, `EveryEndDecides` and `WheelFollows`
are `HandshakeDecides` and `WheelLosesParts` where their part runs, and fairness is stated
under `part`. `hook_chain` checks the
life cycle of the captures in the composition with the user and the channels; that is the
stronger question, as `HookChain` extends `WinCapture` step by step.

Why the bounds are enough.

* `input_path`: grabbing costs two events (modifier, G); with five there
  is room for a press on the client, the OFF toggle and one more, with the channel full
  (two) and the connection full (one) on the way.
* `hook_chain`: a hook only knows whether an event gets past it, so two sessions suffice;
  with four events both can be grabbed. `Workers` is the number of sessions so that a
  blocked worker alone does not stop the rest; with fewer, `CleanShutdown`'s failure stops
  other sessions too.
* `handshake_clipboard`: two versions are equal or not, two frames can follow a handshake that the
  other end has not finished. An echo needs two applies; two copies let a text be copied while
  another one waits for the full channel.
* `layout`: the three screens are a real one, one whose width is negative as an `i32` and
  one without a pixel; the offsets make the difference overflow in both directions.
* `frames`, the codec: the sizes are below, at and above the larger limit, the limits of the
  two builds equal and different; two header bytes can be cut in the middle, and two frames
  allow one behind or one before the one that fails. `PeerSession`: with three messages one
  way every place a message can wait in is full with another one waiting behind it - the
  owner's channel behind a reader with a message in its hand, the link behind a writer - and
  a message can be lost in front of another.
* `side_by_side`, the configuration: overlapping, and a splice, need two windows with one save each, the repair of one the second save of
  a window that was cut short; one peer against none makes the longer file whose tail remains. `HOME` is set or not. Keys: the
  tables are the source's, entry by entry, and a conflict of two keys needs two held keys.
  Mouse: two motions of different size and sign in a range of four clip at both edges, with
  the grab at every position; the wheel movements are a notch and a half, the smallest word and a whole
  notch. Test: the cursor may start anywhere, with room for a step and without; two rounds
  show that what one leaves behind meets the next; user motion is not bounded.

The violated runs. Each checks one sentence of the documentation.

* `ToggleByChordPress`: a held G repeats and toggles at each repetition; while the grab
  is on the modifiers never go up for `GetAsyncKeyState`, so G alone toggles.
* `CleanShutdown`: a client that leaves while the hook thread starts makes `drop` skip,
  or lose, the WM_QUIT and join for ever, hooks installed.
* `HotKeyReleases`: the newest session's hook swallows the hotkey and toggles its own
  flag, so an older session's grab cannot be released with it.
* `LossIsNoticed`: nothing sends the `Ping` that the protocol declares.
* `NoEcho`: the clipboard holds a text of the peer; the watcher reads it; `apply` stores the hash
  of the peer's next text; the watcher compares, finds another hash, takes the older text for new and
  sends it back.
* `MotionIsRelative`: while the grab is on the cursor is frozen, so the second of two equal
  motions is reported at the position of the first and sent as zero (`windows.rs:175`).

What modelling showed besides. These follow from the models by a few steps and have no run
of their own.

* A write that is cut short over what another window has written meanwhile can leave an address put
  together from two, which a client then connects to (`config.rs:56`).
* A message above the limit ends the write task of a `PeerSession` alone: what was accepted
  behind it is never written, on a connection that stays up (`session.rs:45`). `AcceptedIsWritten`
  excepts exactly this.
* The virtual key of Enter is listed as extended (`windows.rs:380`), so Enter is injected at a Windows
  client with the scan code of the keypad's Enter.
* The daemon reads its file once (`main.rs:188`); the comment at `config.rs:1` says it "watches
  it". A daemon that runs keeps the config it started with whatever is saved afterwards, and
  `SavesRoundTrip` speaks only of the moment it starts.
* `HOME` is asked before `APPDATA` on Windows too (`config.rs:66`), so two processes of one user
  can have two files. `SavesRoundTrip` is about processes with one path.
* The hotkey works during `test-capture` too and then swallows everything until the test ends
  (`TestLeavesNothing` shows that it does); the comment at `main.rs:42` says "Does NOT grab".
* At the right edge the self-test's step there is clipped and the step back is not:
  `TestLeavesNothing` says where the cursor is only if there was room for a step.

What the properties themselves except. `NoStuckInputs`: the inputs the client holds when the
grab goes off (nothing releases them) and sessions that lost an event.
`ExactlyOneMachine`: the events queued at a toggle. `LinuxFollows`, `WinFollows`: keys that share
a virtual key. `CloseIsNoticed`: connections that neither end has closed.
`AcceptedIsWritten`: messages behind one that the encoder refuses, and ends that no longer read.
`SavesRoundTrip`: saves since which another was cut short. `ConnectsWhereSaved`: addresses spliced
by a write that was cut short. Hazards that no property covers, because nothing says what
should happen: when a session ends while grabbed, the local OS has seen the modifiers
of the hotkey go down and not up; of two peers on one edge the first takes every
crossing; a window that could not read the file, or read it before another one saved, puts
its defaults or its older state in the file's place when it saves.

Fairness. Tasks and threads that can run do (weak fairness of every step of the loop,
client, watcher, hook thread, codec, reader and writer task). `select!` picks a ready
branch at random, so a branch that is ready again and again is taken: strong fairness of
`LoopPeerClosed`. The timers of the handshake and of `test-capture` fire; TCP delivers what was
sent or gives up on it. In `Codec` only the receiver is fair, so nothing but what has been
sent makes it go on. In `PeerSession` an owner that keeps its receiver takes from
it; it need not send, drop or close. `ConfigFile` has no fairness and only
safety properties. Nothing is assumed of users, crashes, losses, or of failures.

## 4. Proofs

All theorems hold for every value of the constants that satisfies the named assumptions
(`PathAssumption`, `CaptureAssumption`, `ChainAssumption`, `ClipboardAssumption`,
`HandshakeAssumption`, `LayoutAssumption`, `CodecAssumption`, `PeerAssumption`,
`ConfigAssumption`, `KeyAssumption`, `HookAssumption`, `MousePathAssumption`,
`MCTestAssumption`), which say which constants are numbers, which are positive and which sets are
disjoint; TLC evaluates each of them in a run. No theorem uses fairness.
Every invariant, every action property and every refinement that a passing run checks
is proved.

* **InputPathProofs.** `TypeCorrect`. `GrabCanBeReleased`: inductive with
  `TypeOK`: the grab goes on only with the modifiers down, and `osDown` is frozen
  while it is on. `OneMachinePerEvent` needs `Agreement`: every queued event younger
  than the last toggle recorded the *present* value of the flag. `NothingSticks` needs
  `Tracked`: besides `NoStuckInputs` itself, only inputs with a `Message` are under way, and an
  input whose newest event in the channel is a press is still held by the user; without the
  second part the loop could forward an old press. Its lemmas say that what is held after a
  queue changes by one event when the queue grows at its end or shrinks at its front,
  without induction over the queue: only the last event about an input
  counts. `PathImplementsRelay` needs `Ordered`: the ids increase along link, hand and channel,
  and all exceed what was delivered; each action is then a step of `InputRelay` or a stutter.
* **InputRelayProofs.** `RelayInOrder`, `RelayNeverBackwards`: what the relay, and so
  every implementation of it, promises.
* **HookChainProofs.** Of one session (`WinCapture`): `TaskOutlivesThread` (a task ends before it
  has a thread or after the thread's exit) is inductive with `TypeOK`; `HooksHaveThreads` is
  inductive relative to it, and `DropLeavesNoHook` follows from the two. Of several
  (`HookChain`): `ChainImplementsCapture`, because a session's step changes its life cycle as
  `WinCapture`'s does and the callbacks do not change it at all; so the three hold there too
  (`Captured`) and carry the rest. `ChainTypeCorrect`: relinking a chain gives an order
  of the hooks that are left (`RelinkIsChain`). `ChordStaysDown` is inductive with
  `GrabbedHaveHooked`: a flag is set only in a thread that pumps, so a hook that is installed comes
  with its flag clear. `OneSessionForwards` needs `ChainAgreement`: channels hold events
  in the user's order, younger than what was sent, and an event queued since the last toggle
  names its session as the taker exactly if that session's flag is set.
* **ClipboardProofs.** `Suppressed` says, for each place a peer's text can be in,
  that `last_hash` still covers it; it is inductive as long as `disturbed` is false,
  and implies `LoopSuppression`. `HashIsExchanged` says that `last_hash` is a text that was
  exchanged, but for the one the watcher is about to send; it implies `NothingOverlooked`, the
  safety part of `ClipboardSettles`: the check lets nothing pass as known that is not.
* **LayoutProofs.** `Reported` (a crossing is what `Enter` computes for the present cursor,
  which is beyond the edge) gives `EntersOnAdjoiningEdge` and `EntrySlidesWithCursor`
  by lemmas on clamping and wrapping. `RealScreensDoNotPanic`: in a release
  build the bounds of `clamp` are in order for every screen a system can report.
* **HandshakeProofs.** `Stream` says what can be in the stream to an end by how far the
  other end has come (its Hello first, from the moment it is sent until it is
  read), `Decided` that a decision is what the versions say. Together with the types
  they are inductive, and give `EndsDecideAlike` and `FirstFrameIsHello`.
* **FramesProofs.** The codec: `Positions` (the frames lie end to end in the stream), `Taken`
  (those returned are a prefix of those written) and `InSync` (the decoder stands behind the last of
  them) are inductive together; `DecoderStaysInSync` and the refinement
  `CodecImplementsFrames` follow. `AtEnd` (once the end was read nothing is on its way) adds
  `FailuresHaveReasons` and `CleanEndsLoseNothing`; `ReaderStaysRight` is the three together.
  `PeerSession`: `PeerInv` says of each direction that while the receiving end reads and
  listens, what was accepted is what was delivered, followed by what is `OnTheWay` - reader's hand,
  link, writer's hand, channel - in this order (`Complete`); that what was delivered stays a prefix
  afterwards (`Prefixes`), which no later step can lose; and what the two ends of the tasks mean
  (`Ending`). It gives `NothingLost` and, because the next frame to be received is then the next
  one accepted, the refinement `PeerImplementsFrames` in both directions. `FramesSideBySide`
  carries both over to the run.
* **SideBySideProofs.** `ConfigFile`: `Addresses` (every address in a file, in a write under way or
  with the daemon was typed, as long as none was spliced) gives `ClientsConnectWhereSaved`. `Stored`
  (the file is empty under a save that runs alone, and afterwards what that save stored; if others
  began meanwhile it is what the last of them left, or garbled; unless one was cut short)
  gives `UndisturbedSavesRoundTrip`, for any number of windows; `DaemonRunsAsSaved` is both.
  `KeyPath`: lemmas on the tables, checked row by row, say that no two virtual keys have a code in
  common, that the second table leads back along the first, and which scan code a key of its own has
  (`TablesAgree`, `ExtendedKeys`). `KeyInv` speaks of the codes that `WillBeDown` when
  the link is empty - the last event about a code decides - so it says at every moment what
  `ClientsFollowKeys` says of the end, and that the Windows client is in step with the Linux client.
  `MousePath`: `MouseInv` is `WheelLosesParts` with the types and the number of odd movements; an
  event leaves one term of `Accounted` and enters another. `SumOf` is recursive, and its lemmas
  (a sum is a number; it grows by the message appended, shrinks by the one taken) are
  proved by looking at the least place where they would fail (`LeastNumber`). Of the wheel the proof
  needs that division towards zero loses less than a notch (`NotchesLose`) and that a word is the
  movement it stands for (`WordsAreSigned`). `TestCapture`: `TestInv` says where the cursor is
  after every injected motion; `SelfTestReturnsCursor` is the safety half of `TestLeavesNothing`.
  `SideInv` holds `MouseInv` and `TestInv` under `part`, since both components have the same hooks.

Only model-checked: the liveness properties. TLAPS has no rule for fairness here, nor for
ENABLED, without which weak fairness says nothing. They are `ClientGoneEndsSession`,
`SessionEndReleases`, `EveryEventSettles`, `FailedHooksEndSession`, `DropEndsOnceQueued`,
`ClipboardSettles`, `EveryEndDecides`, `ClosedEndsBoth`, `WholeFramesArrive`, `CloseIsNoticed`,
`AcceptedIsWritten`, and that the test ends (`TestLeavesNothing`). Of the abstract `Frames` and
`InputRelay` the proofs concern the safety part, which is all they state.

## 5. Plan

Done, in this order: `InputRelay`/`InputPath`, `WinCapture`, `HookChain`, `Clipboard`,
`Handshake`, `Layout`; `Frames`/`Codec`, `MouseHook`/`MousePath`/`TestCapture`, `PeerSession`,
`Keycodes`/`KeyPath`, `ConfigFile`; the proofs of the input path, the capture, the clipboard, the
layout, the handshake, the codec and the configuration; then those of `HookChain`, `PeerSession`,
`KeyPath`, `MousePath` and `TestCapture`.

Left:

1. What the safety part of the liveness properties says, as invariants with theorems: for example
   that WM_QUIT waits for a thread until it has read it, or that an end of the handshake that has
   not decided can still time out.
2. A daemon that watches its file, as `config.rs:1` has it, once the code does: then `RunsAsSaved`
   becomes a liveness property.
3. `ClipboardPair`, two machines back to back, for the ping-pong an echo starts, and a caller of
   `check_edge`: once the daemon wires either of them up. Until then there is no code that
   says how.

## 6. Not modelled

The GUI's layout preview and status tab, which only draw, and the fields it edits in the same way
as those that are modelled; argument parsing, `--config` among it; logging;
`test-inject`, a fixed sequence of calls of the injection; serialisation formats; uinput set-up and
permissions; TLS settings (parsed and unused); `EnterScreen`, `LeaveScreen` and `MouseWarp`
(declared and never sent).
