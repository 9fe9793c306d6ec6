------------------------------- MODULE ConfigFile -------------------------------
(***************************************************************************)
(* The configuration file between the GUI and the daemon.  Any number of   *)
(* GUI windows load it when they open, edit their copy, and save it by     *)
(* truncating and rewriting the file in place; nothing locks it.  A daemon *)
(* loads it once, when it starts, and takes the defaults if that fails.    *)
(*                                                                         *)
(* Every process finds the file through its own environment.  A config is  *)
(* abstracted to the address of the server and the number of peers in the  *)
(* layout: the first stands in the head of the file, which every config    *)
(* needs to be read at all, the peers make up its tail.  The --config      *)
(* option, another way to name the file, is left out.                      *)
(***************************************************************************)
EXTENDS Naturals

CONSTANTS
  Guis,       \* windows that may be opened
  Addrs,      \* addresses the user may type
  Envs,       \* environments of the processes: sets of "HOME", "APPDATA"
  MaxPeers,   \* bound on the peers of a layout
  MaxSaves,   \* bound on the clicks on Save
  None,
  Spliced,    \* an address put together from parts of two
  Absent, Empty, Garbled  \* files that hold no config

Config == [server_addr : Addrs \cup {None, Spliced}, peers : 0..MaxPeers]

ASSUME ConfigAssumption ==
  /\ Envs \subseteq SUBSET {"HOME", "APPDATA"} /\ Envs # {}
  /\ MaxPeers \in Nat /\ MaxSaves \in Nat
  /\ None \notin Addrs \cup Config \cup {Spliced} /\ Spliced \notin Addrs
  /\ {Absent, Empty, Garbled} \cap Config = {}

VARIABLES
  file,       \* by path: the config in it, or what else there is
  env,        \* the environment of the GUIs and that of the daemon
  gui,        \* "closed", "open" or "saving": between truncation and write
  shown,      \* the config an open window shows
  daemon,     \* "off", "server", "client" (connected) or "failed"
  running,    \* the config the daemon runs with, if it runs
  saves,      \* number of clicks on Save
  (* History, read by properties only. *)
  typed,      \* the addresses in configs whose save has begun
  lastSaved,  \* the config of the last save that ended
  overlapped, \* the last save began while another was under way
  torn,       \* a save was cut short since the last one that began alone
  spliced     \* a save was cut short over what another window had written

history == <<typed, lastSaved, overlapped, torn, spliced>>
vars == <<file, env, gui, shown, daemon, running, saves, history>>

Paths == {"~/.config/dshare", "%APPDATA%/dshare", "."}
Default == [server_addr |-> None, peers |-> 0]

TypeOK ==
  /\ file \in [Paths -> Config \cup {Absent, Empty, Garbled}]
  /\ env \in [{"gui", "daemon"} -> Envs]
  /\ gui \in [Guis -> {"closed", "open", "saving"}]
  /\ shown \in [Guis -> Config]
  /\ daemon \in {"off", "server", "client", "failed"}
  /\ running \in Config
  /\ saves \in 0..MaxSaves
  /\ typed \subseteq Addrs /\ lastSaved \in Config \cup {None}
  /\ overlapped \in BOOLEAN /\ torn \in BOOLEAN /\ spliced \in BOOLEAN

Init ==
  /\ file = [p \in Paths |-> Absent]
  /\ env \in [{"gui", "daemon"} -> Envs]
  /\ gui = [g \in Guis |-> "closed"] /\ shown = [g \in Guis |-> Default]
  /\ daemon = "off" /\ running = Default
  /\ saves = 0
  /\ typed = {} /\ lastSaved = None
  /\ overlapped = FALSE /\ torn = FALSE /\ spliced = FALSE

-------------------------------------------------------------------------------
(* Paths, reading and writing. *)

\* dirs_path: HOME is asked first, on every system.
DirsPath(e) ==
  IF "HOME" \in e THEN "~/.config/dshare"
  ELSE IF "APPDATA" \in e THEN "%APPDATA%/dshare" ELSE "."

\* Config::load, with the defaults both callers take instead of an error.
LoadOrDefault(p) == IF file[p] \in Config THEN file[p] ELSE Default

\* A mutant of Truncated: the file is opened without truncating it.
TruncatedMutant(old) == old

\* What fs::write opens.
Truncated(old) == Empty

\* How many peers, and which addresses, can be made out in a file.
PeersIn(text) ==
  IF text \in Config THEN text.peers ELSE IF text = Garbled THEN MaxPeers ELSE 0
AddrsIn(text) ==
  IF text \in Config THEN {text.server_addr} ELSE IF text = Garbled THEN Addrs ELSE {}

\* Numbers of peers a mixture of two texts may have.
Mixed(c, old) == {k \in 0..MaxPeers : k <= c.peers + PeersIn(old)}

\* A config written from the start of a file that need not be empty any more:
\* the tail of what is longer remains.
Overlaid(c, old) ==
  IF old \in {Absent, Empty} THEN {c}
  ELSE {c, Garbled}
       \cup {[c EXCEPT !.peers = k] : k \in {j \in Mixed(c, old) : j >= c.peers}}

\* A write that was cut short: the head of the config, and behind it what the file
\* held there.  The cut may be in the address, or before it.
Torn(c, old) ==
  IF old \in {Absent, Empty}
  THEN {Empty, Garbled} \cup {[c EXCEPT !.peers = k] : k \in 0..c.peers}
  ELSE {old, Garbled}
       \cup [server_addr : {c.server_addr, None, Spliced} \cup AddrsIn(old),
             peers : Mixed(c, old)]

-------------------------------------------------------------------------------
(* The GUI. *)

GuiPath == DirsPath(env["gui"])
Saving == {g \in Guis : gui[g] = "saving"}

Opens(g) ==
  /\ gui[g] = "closed"
  /\ gui' = [gui EXCEPT ![g] = "open"]
  /\ shown' = [shown EXCEPT ![g] = LoadOrDefault(GuiPath)]
  /\ UNCHANGED <<file, env, daemon, running, saves, history>>

\* general_tab: the empty text is no address.
ServerAddr(text) == IF text = "" THEN None ELSE text

EditsAddress(g, text) ==
  /\ gui[g] = "open"
  /\ shown' = [shown EXCEPT ![g].server_addr = ServerAddr(text)]
  /\ UNCHANGED <<file, env, gui, daemon, running, saves, history>>

\* layout_tab: a peer is added at the end, or one is removed.
EditsPeers(g) ==
  /\ gui[g] = "open"
  /\ \E k \in 0..MaxPeers :
       /\ k = shown[g].peers + 1 \/ k + 1 = shown[g].peers
       /\ shown' = [shown EXCEPT ![g].peers = k]
  /\ UNCHANGED <<file, env, gui, daemon, running, saves, history>>

\* Save is clicked: the directory is there and the file open.
SaveBegins(g) ==
  /\ gui[g] = "open" /\ saves < MaxSaves
  /\ saves' = saves + 1
  /\ gui' = [gui EXCEPT ![g] = "saving"]
  /\ file' = [file EXCEPT ![GuiPath] = Truncated(@)]
  /\ typed' = typed \cup ({shown[g].server_addr} \cap Addrs)
  /\ overlapped' = (Saving # {})
  /\ torn' = (torn /\ Saving # {})
  /\ UNCHANGED <<env, shown, daemon, running, lastSaved, spliced>>

SaveEnds(g) ==
  /\ gui[g] = "saving"
  /\ gui' = [gui EXCEPT ![g] = "open"]
  /\ \E text \in Overlaid(shown[g], file[GuiPath]) : file' = [file EXCEPT ![GuiPath] = text]
  /\ lastSaved' = shown[g]
  /\ UNCHANGED <<env, shown, daemon, running, saves, typed, overlapped, torn, spliced>>

\* The disk is full, or the window is killed while it writes.
SaveCutShort(g) ==
  /\ gui[g] = "saving"
  /\ \/ gui' = [gui EXCEPT ![g] = "open"] /\ UNCHANGED shown
     \/ gui' = [gui EXCEPT ![g] = "closed"] /\ shown' = [shown EXCEPT ![g] = Default]
  /\ \E text \in Torn(shown[g], file[GuiPath]) :
       file' = [file EXCEPT ![GuiPath] = text]
  /\ torn' = TRUE
  /\ spliced' = (spliced \/ file[GuiPath] # Empty)
  /\ UNCHANGED <<env, daemon, running, saves, typed, lastSaved, overlapped>>

Closes(g) ==
  /\ gui[g] = "open"
  /\ gui' = [gui EXCEPT ![g] = "closed"]
  /\ shown' = [shown EXCEPT ![g] = Default]
  /\ UNCHANGED <<file, env, daemon, running, saves, history>>

-------------------------------------------------------------------------------
(* The daemon. *)

DaemonPath == DirsPath(env["daemon"])

Load ==
  /\ daemon = "off"
  /\ running' = LoadOrDefault(DaemonPath)
  /\ UNCHANGED <<file, env, gui, shown, saves, history>>

\* A server runs unless it cannot bind its address.
StartsServer == Load /\ daemon' \in {"server", "failed"}

\* A client needs an address, and an answer there.
StartsClient ==
  /\ Load
  /\ \/ daemon' = "client" /\ running'.server_addr # None
     \/ daemon' = "failed"

Stops ==
  /\ daemon # "off"
  /\ daemon' = "off" /\ running' = Default
  /\ UNCHANGED <<file, env, gui, shown, saves, history>>

Next ==
  \/ \E g \in Guis :
       \/ Opens(g) \/ EditsPeers(g) \/ Closes(g)
       \/ \E text \in Addrs \cup {""} : EditsAddress(g, text)
       \/ SaveBegins(g) \/ SaveEnds(g) \/ SaveCutShort(g)
  \/ StartsServer \/ StartsClient \/ Stops

Spec == Init /\ [][Next]_vars

-------------------------------------------------------------------------------
(* Properties. *)

\* Whatever overlapped, was cut short or read half-way, a client connects only to
\* an address the user has typed and saved - unless a save was cut short over what
\* another window had written meanwhile, which can splice two addresses.
ConnectsWhereSaved == daemon = "client" => running.server_addr \in typed \/ spliced

\* A save that begins alone repairs whatever was cut short or mixed up before: once
\* none is under way, a daemon that finds the same file and starts then gets exactly
\* what was saved last.  If further saves began meanwhile, and none was cut short,
\* it gets the last one's address and at least its peers, or the defaults.
SavesRoundTrip ==
  ~torn /\ Saving = {} /\ lastSaved # None /\ GuiPath = DaemonPath =>
    LET c == LoadOrDefault(DaemonPath)
    IN  \/ c = lastSaved
        \/ overlapped /\ c = Default
        \/ /\ overlapped
           /\ c.server_addr = lastSaved.server_addr /\ c.peers >= lastSaved.peers

\* A daemon runs on what was saved, in both senses.
RunsAsSaved == ConnectsWhereSaved /\ SavesRoundTrip
===============================================================================
