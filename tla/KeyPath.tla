--------------------------------- MODULE KeyPath ---------------------------------
(***************************************************************************)
(* Which keys go down where.  Keys pressed and released at a grabbed       *)
(* Windows server are translated by its hook, and injected in order at a   *)
(* Linux client and, for comparison, at a Windows client.  Loss, queues    *)
(* and the grab are InputPath's subject.                                   *)
(*                                                                         *)
(* A key of a Windows keyboard is a virtual key and whether its scan code  *)
(* is an extended one: Enter and the keypad's Enter are one virtual key,   *)
(* and so are each arrow or editing key and the key of the keypad with     *)
(* NumLock off.                                                            *)
(***************************************************************************)
EXTENDS Keycodes

CONSTANTS
  MaxHeld,    \* bound on the keys held at once
  LinkCap     \* bound on the messages on their way

ASSUME KeyAssumption == MaxHeld \in Nat /\ LinkCap \in Nat

\* The virtual keys of a keyboard, by whether their scan code is an extended one.
PlainVks ==
  \* digits, letters, F1..F12; Backspace, Tab, Enter, Escape, Space, locks; punctuation
       \h30..\h39 \cup \h41..\h5A \cup \h70..\h7B
  \cup {\h08, \h09, \h0D, \h14, \h1B, \h20, \h90, \h91} \cup \hBA..\hC0 \cup \hDB..\hDE
  \* Shift, Ctrl, Alt; Pause; the keypad with NumLock on, and off
  \cup {\hA0, \hA1, \hA2, \hA4} \cup {\h13} \cup \h60..\h6B \cup {\h6D, \h6E}
  \cup \h21..\h28 \cup {\h0C, \h2D, \h2E}
ExtendedVks ==
  \* Ctrl, Alt; Win, Win, Menu; PrintScreen; editing, arrows; the keypad
       {\hA3, \hA5} \cup \h5B..\h5D \cup {\h2C}
  \cup \h21..\h28 \cup {\h2D, \h2E} \cup {\h6F, \h0D}

\* The keys of a keyboard.
Keyboard == [vk : PlainVks, ext : {FALSE}] \cup [vk : ExtendedVks, ext : {TRUE}]

VARIABLES
  held,       \* keys the user holds down
  keyLink,    \* KeyEvents on their way
  linux,      \* codes that are down on the virtual device of a Linux client
  win,        \* keys that are down at a Windows client
  crossed     \* history: virtual keys two of whose keys were held at once, and
              \* one still is

keyVars == <<held, keyLink, linux, win, crossed>>

KeyEvent == [keycode : LinuxKeys, pressed : BOOLEAN]

\* Every code that is sent is one of the Linux client's device.
KeyTypeOK ==
  /\ held \subseteq Keyboard
  /\ crossed \subseteq {k.vk : k \in held}
  /\ keyLink \in Seq(KeyEvent)
  /\ linux \subseteq LinuxKeys
  /\ win \subseteq [vk : {EvdevToVk[code] : code \in DOMAIN EvdevToVk}, ext : BOOLEAN]

KeyInit ==
  /\ held = {}
  /\ keyLink = <<>>
  /\ linux = {}
  /\ win = {}
  /\ crossed = {}

\* The hook: a key that is not in the table is dropped with a warning.
KbdHook(vk, pressed) ==
  keyLink' = IF vk \in DOMAIN VkToEvdev
             THEN Append(keyLink, [keycode |-> VkToEvdev[vk], pressed |-> pressed])
             ELSE keyLink

\* The other keys held that have the virtual key of k.
Others(k) == {j \in held \ {k} : j.vk = k.vk}

\* The user presses a key, or it repeats.
Press(k) ==
  /\ Cardinality(held \cup {k}) <= MaxHeld /\ Len(keyLink) < LinkCap
  /\ held' = held \cup {k}
  /\ KbdHook(k.vk, TRUE)
  /\ crossed' = IF Others(k) = {} THEN crossed ELSE crossed \cup {k.vk}
  /\ UNCHANGED <<linux, win>>

Release(k) ==
  /\ k \in held /\ Len(keyLink) < LinkCap
  /\ held' = held \ {k}
  /\ KbdHook(k.vk, FALSE)
  /\ crossed' = IF Others(k) = {} THEN crossed \ {k.vk} ELSE crossed
  /\ UNCHANGED <<linux, win>>

Set(keys, k, pressed) == IF pressed THEN keys \cup {k} ELSE keys \ {k}

\* LinuxInject: emitted as it is if it is a u16.
LinuxHandle(e) ==
  linux' = IF e.keycode < 2^16 /\ e.keycode \in LinuxKeys
           THEN Set(linux, e.keycode, e.pressed) ELSE linux

\* WinInject: the scan code of the virtual key, extended or not.
WinHandle(e) ==
  win' = IF e.keycode < 2^16 /\ e.keycode \in DOMAIN EvdevToVk
         THEN LET vk == EvdevToVk[e.keycode]
              IN  Set(win, [vk |-> vk, ext |-> IsExtendedVk(vk)], e.pressed)
         ELSE win

InjectKey ==
  /\ keyLink # <<>>
  /\ keyLink' = Tail(keyLink)
  /\ LinuxHandle(Head(keyLink)) /\ WinHandle(Head(keyLink))
  /\ UNCHANGED <<held, crossed>>

KeyNext ==
  \/ \E k \in Keyboard : Press(k) \/ Release(k)
  \/ InjectKey

KeySpec == KeyInit /\ [][KeyNext]_keyVars

-------------------------------------------------------------------------------
(* Properties. *)

Mapped == {k \in Keyboard : k.vk \in DOMAIN VkToEvdev}
\* The keys that share their virtual key with no other.
Own == {k \in Keyboard : \A j \in Keyboard : j.vk = k.vk => j = k}
\* The keys held that are translated and whose virtual key was theirs alone.
Clear == {k \in held \cap Mapped : k.vk \notin crossed}

\* When everything has arrived, a code is down at a Linux client only if a key
\* with that code is held, and down for every key held unless another key of its
\* virtual key was held at the same time: releasing one key never releases another.
LinuxFollows ==
  keyLink = <<>> =>
    /\ linux \subseteq {VkToEvdev[k.vk] : k \in held \cap Mapped}
    /\ {VkToEvdev[k.vk] : k \in Clear} \subseteq linux

\* Through both tables and the scan code, a Windows client has down the very keys
\* that are held, but for the keys the second table lacks and those held together
\* with another of their virtual key; of two keys that share a virtual key, it is
\* the extended one that goes down.
WinFollows ==
  keyLink = <<>> =>
    /\ \A k \in win : \E j \in held : j.vk = k.vk
    /\ \A k \in Clear : VkToEvdev[k.vk] \in DOMAIN EvdevToVk =>
         [k EXCEPT !.ext = k.ext \/ k \notin Own] \in win

\* What is down at a Linux and at a Windows client is what the user holds, but for
\* keys that are held together with another of their virtual key, or that the second
\* table lacks.
KeysFollow == LinuxFollows /\ WinFollows
===============================================================================
