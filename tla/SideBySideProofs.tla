---------------------------- MODULE SideBySideProofs ----------------------------
(***************************************************************************)
(* What TLAPS checks about ConfigFile, KeyPath and MousePath, each for its *)
(* own specification, and about the four modules of MCSideBySide together. *)
(***************************************************************************)
EXTENDS MCSideBySide, WellFoundedInduction, SequenceTheorems, TLAPS

-------------------------------------------------------------------------------
(* ConfigFile: any number of windows, every set of addresses and environments,   *)
(* every number of saves.                                                        *)

Unreadable == {Absent, Empty, Garbled}

\* dirs_path always names one of the three directories.
LEMMA PathIsOne ==
  ASSUME NEW e
  PROVE  DirsPath(e) \in Paths
  BY DEF DirsPath, Paths

\* Both callers of Config::load get a config.
LEMMA LoadGivesConfig ==
  ASSUME NEW p
  PROVE  /\ LoadOrDefault(p) \in Config
         /\ LoadOrDefault(p) = file[p] \/ LoadOrDefault(p) = Default
  BY ConfigAssumption DEF ConfigAssumption, LoadOrDefault, Default, Config

\* Configs that differ in the peers have the same address.
LEMMA PeersAside ==
  ASSUME NEW c \in Config, NEW k \in 0..MaxPeers
  PROVE  /\ [c EXCEPT !.peers = k] \in Config
         /\ [c EXCEPT !.peers = k].server_addr = c.server_addr
  BY DEF Config

\* No file state is a config, and None is neither.
LEMMA Apart == None \notin Config /\ Unreadable \cap Config = {}
  BY ConfigAssumption DEF ConfigAssumption, Unreadable

\* A write that is cut short leaves a config or none; over an empty file, one with
\* its own address.
LEMMA TornLeaves ==
  ASSUME NEW c \in Config, NEW old \in Config \cup Unreadable,
         NEW text \in Torn(c, old)
  PROVE  /\ text \in Config \cup Unreadable
         /\ old = Empty /\ text \in Config => text.server_addr = c.server_addr
<1>1. CASE text \in {Empty, Garbled}
  BY <1>1, Apart DEF Unreadable
<1>2. CASE old \in {Absent, Empty} /\ \E k \in 0..c.peers : text = [c EXCEPT !.peers = k]
  <2>1. PICK k \in 0..c.peers : text = [c EXCEPT !.peers = k]
    BY <1>2
  <2>2. k \in 0..MaxPeers
    BY ConfigAssumption DEF ConfigAssumption, Config
  <2> QED BY <2>1, <2>2, PeersAside
<1>3. CASE old \notin {Absent, Empty} /\ text \in {old}
  BY <1>3
<1>4. CASE /\ old \notin {Absent, Empty}
           /\ text \in [server_addr : {c.server_addr, None, Spliced} \cup AddrsIn(old),
                        peers : Mixed(c, old)]
  <2>1. {c.server_addr, None, Spliced} \cup AddrsIn(old) \subseteq Addrs \cup {None, Spliced}
    BY DEF AddrsIn, Config
  <2>2. Mixed(c, old) \subseteq 0..MaxPeers
    BY DEF Mixed
  <2>3. text.server_addr \in Addrs \cup {None, Spliced} /\ text.peers \in 0..MaxPeers
    BY <1>4, <2>1, <2>2
  <2>4. text = [server_addr |-> text.server_addr, peers |-> text.peers]
    BY <1>4
  <2>5. text \in Config
    BY <2>3, <2>4 DEF Config
  <2> QED BY <1>4, <2>5
<1> QED BY <1>1, <1>2, <1>3, <1>4 DEF Torn

\* A write over what was there leaves its own address and at least its own peers,
\* or no config.
LEMMA OverlaidLeaves ==
  ASSUME NEW c \in Config, NEW old \in Config \cup Unreadable,
         NEW text \in Overlaid(c, old)
  PROVE  \/ text = Garbled
         \/ /\ text \in Config
            /\ text.server_addr = c.server_addr /\ text.peers >= c.peers
<1>1. CASE text \in {c, Garbled}
  BY <1>1 DEF Config
<1>2. CASE \E k \in {j \in Mixed(c, old) : j >= c.peers} : text = [c EXCEPT !.peers = k]
  <2>1. PICK k \in {j \in Mixed(c, old) : j >= c.peers} : text = [c EXCEPT !.peers = k]
    BY <1>2
  <2>2. k \in 0..MaxPeers /\ k >= c.peers
    BY <2>1 DEF Mixed
  <2>3. text.peers = k
    BY <2>1 DEF Config
  <2> QED BY <2>1, <2>2, <2>3, PeersAside
<1> QED BY <1>1, <1>2 DEF Overlaid

\* A write into a file that was truncated and left alone is what was written.
LEMMA OverlaidNothing ==
  ASSUME NEW c
  PROVE  Overlaid(c, Empty) = {c}
  BY DEF Overlaid

-------------------------------------------------------------------------------
\* Every step keeps the types.
LEMMA StepKeepsTypes == TypeOK /\ [Next]_vars => TypeOK'
<1> SUFFICES ASSUME TypeOK, [Next]_vars PROVE TypeOK'
  OBVIOUS
<1> USE DEF TypeOK
<1>1. GuiPath \in Paths /\ DaemonPath \in Paths
  BY PathIsOne DEF GuiPath, DaemonPath
<1>2. ASSUME NEW g \in Guis, Opens(g) PROVE TypeOK'
  BY <1>2, LoadGivesConfig DEF Opens, history
<1>3. ASSUME NEW g \in Guis, NEW text \in Addrs \cup {""}, EditsAddress(g, text)
      PROVE TypeOK'
  <2>1. ServerAddr(text) \in Addrs \cup {None}
    BY DEF ServerAddr
  <2>2. [shown[g] EXCEPT !.server_addr = ServerAddr(text)] \in Config
    BY <2>1 DEF Config
  <2>3. shown' = [shown EXCEPT ![g] = [shown[g] EXCEPT !.server_addr = ServerAddr(text)]]
    BY <1>3 DEF EditsAddress
  <2>4. shown' \in [Guis -> Config]
    BY <2>2, <2>3
  <2> QED BY <1>3, <2>4 DEF EditsAddress, history
<1>4. ASSUME NEW g \in Guis, EditsPeers(g) PROVE TypeOK'
  <2>1. PICK k \in 0..MaxPeers : shown' = [shown EXCEPT ![g].peers = k]
    BY <1>4 DEF EditsPeers
  <2>2. shown' = [shown EXCEPT ![g] = [shown[g] EXCEPT !.peers = k]]
    BY <2>1
  <2>3. [shown[g] EXCEPT !.peers = k] \in Config
    BY PeersAside
  <2>4. shown' \in [Guis -> Config]
    BY <2>2, <2>3
  <2> QED BY <1>4, <2>4 DEF EditsPeers, history
<1>5. ASSUME NEW g \in Guis, SaveBegins(g) PROVE TypeOK'
  <2>1. saves' \in 0..MaxSaves
    BY <1>5, ConfigAssumption DEF SaveBegins, ConfigAssumption
  <2>2. overlapped' \in BOOLEAN /\ torn' \in BOOLEAN
    BY <1>5 DEF SaveBegins
  <2>3. file' \in [Paths -> Config \cup {Absent, Empty, Garbled}]
    BY <1>1, <1>5 DEF SaveBegins, Truncated
  <2>4. typed' \subseteq Addrs
    BY <1>5 DEF SaveBegins
  <2> QED BY <1>5, <2>1, <2>2, <2>3, <2>4 DEF SaveBegins
<1>6. ASSUME NEW g \in Guis, SaveEnds(g) PROVE TypeOK'
  <2>1. PICK text \in Overlaid(shown[g], file[GuiPath]) : file' = [file EXCEPT ![GuiPath] = text]
    BY <1>6 DEF SaveEnds
  <2>2. text \in Config \cup {Absent, Empty, Garbled}
    BY <1>1, OverlaidLeaves DEF Unreadable
  <2> QED BY <1>6, <2>1, <2>2 DEF SaveEnds
<1>7. ASSUME NEW g \in Guis, SaveCutShort(g) PROVE TypeOK'
  <2>1. PICK text \in Torn(shown[g], file[GuiPath]) :
          file' = [file EXCEPT ![GuiPath] = text]
    BY <1>7 DEF SaveCutShort
  <2>2. text \in Config \cup {Absent, Empty, Garbled}
    BY <1>1, TornLeaves DEF Unreadable
  <2>3. file' \in [Paths -> Config \cup {Absent, Empty, Garbled}]
    BY <2>1, <2>2
  <2>4. Default \in Config
    BY ConfigAssumption DEF ConfigAssumption, Default, Config
  <2>5. gui' \in [Guis -> {"closed", "open", "saving"}] /\ shown' \in [Guis -> Config]
    BY <1>7, <2>4 DEF SaveCutShort
  <2>6. torn' \in BOOLEAN /\ spliced' \in BOOLEAN
    BY <1>7 DEF SaveCutShort
  <2> QED BY <1>7, <2>3, <2>5, <2>6 DEF SaveCutShort
<1>8. ASSUME NEW g \in Guis, Closes(g) PROVE TypeOK'
  <2>1. Default \in Config
    BY ConfigAssumption DEF ConfigAssumption, Default, Config
  <2> QED BY <1>8, <2>1 DEF Closes, history
<1>9. ASSUME StartsServer \/ StartsClient PROVE TypeOK'
  BY <1>9, LoadGivesConfig DEF StartsServer, StartsClient, Load, history
<1>10. ASSUME Stops PROVE TypeOK'
  <2>1. Default \in Config
    BY ConfigAssumption DEF ConfigAssumption, Default, Config
  <2> QED BY <1>10, <2>1 DEF Stops, history
<1>11. ASSUME UNCHANGED vars PROVE TypeOK'
  BY <1>11 DEF vars, history
<1> QED BY <1>2, <1>3, <1>4, <1>5, <1>6, <1>7, <1>8, <1>9, <1>10, <1>11 DEF Next

\* The file, the windows and the daemon hold what they are declared to hold.
THEOREM TypeCorrect == Spec => []TypeOK
<1>1. Init => TypeOK
  <2> SUFFICES ASSUME Init PROVE TypeOK
    OBVIOUS
  <2>1. Default \in Config
    BY ConfigAssumption DEF ConfigAssumption, Default, Config
  <2>2. 0 \in 0..MaxSaves
    BY ConfigAssumption DEF ConfigAssumption
  <2> QED BY <2>1, <2>2 DEF Init, TypeOK
<1> QED BY <1>1, StepKeepsTypes, PTL DEF Spec

-------------------------------------------------------------------------------
\* Where no address was spliced, one that was saved from a window was typed.
Known == IF spliced THEN Addrs \cup {None, Spliced} ELSE typed \cup {None}

\* Every address on file, in a window or with the daemon was typed, or spliced.
Addresses ==
  /\ \A p \in Paths : file[p] \in Config => file[p].server_addr \in Known
  /\ \A g \in Guis : gui[g] = "saving" => shown[g].server_addr \in Known
  /\ \A g \in Guis : shown[g].server_addr \in Addrs \cup Known
  /\ running.server_addr \in Known
  /\ daemon = "client" => running.server_addr # None

\* Every step keeps the addresses known ones.
LEMMA StepKeepsAddresses == TypeOK /\ Addresses /\ [Next]_vars => Addresses'
<1> SUFFICES ASSUME TypeOK, Addresses, [Next]_vars PROVE Addresses'
  OBVIOUS
<1> USE DEF TypeOK, Addresses
<1>1. GuiPath \in Paths /\ DaemonPath \in Paths
  BY PathIsOne DEF GuiPath, DaemonPath
<1>2. UNCHANGED history => Known' = Known
  BY DEF history, Known
<1>3. None \in Known /\ Default.server_addr = None
  BY DEF Known, Default
<1>4. ASSUME NEW g \in Guis, Opens(g) PROVE Addresses'
  <2>1. LoadOrDefault(GuiPath).server_addr \in Known
    BY <1>1, <1>3, LoadGivesConfig
  <2>2. \A h \in Guis : shown'[h].server_addr \in Addrs \cup Known
    BY <1>4, <2>1 DEF Opens
  <2>3. \A h \in Guis : gui'[h] = "saving" => gui[h] = "saving" /\ shown'[h] = shown[h]
    BY <1>4 DEF Opens
  <2> QED BY <1>2, <1>4, <2>2, <2>3 DEF Opens
<1>5. ASSUME NEW g \in Guis, NEW text \in Addrs \cup {""}, EditsAddress(g, text)
      PROVE Addresses'
  <2>1. ServerAddr(text) \in Addrs \cup Known
    BY <1>3 DEF ServerAddr
  <2>2. shown'[g].server_addr = ServerAddr(text)
    BY <1>5 DEF EditsAddress, Config
  <2>3. \A h \in Guis \ {g} : shown'[h] = shown[h]
    BY <1>5 DEF EditsAddress
  <2>4. gui[g] = "open"
    BY <1>5 DEF EditsAddress
  <2> QED BY <1>2, <1>5, <2>1, <2>2, <2>3, <2>4 DEF EditsAddress
<1>6. ASSUME NEW g \in Guis, EditsPeers(g) PROVE Addresses'
  <2>1. shown'[g].server_addr = shown[g].server_addr
    BY <1>6 DEF EditsPeers, Config
  <2>2. \A h \in Guis : shown'[h].server_addr = shown[h].server_addr
    BY <1>6, <2>1 DEF EditsPeers
  <2> QED BY <1>2, <1>6, <2>2 DEF EditsPeers
<1>7. ASSUME NEW g \in Guis, SaveBegins(g) PROVE Addresses'
  <2>1. Known \subseteq Known' /\ spliced' = spliced
    BY <1>7 DEF SaveBegins, Known
  <2>2. shown[g].server_addr \in Known'
    BY <1>7 DEF SaveBegins, Known, Config
  <2>3. \A p \in Paths : file'[p] \in Config => file'[p] = file[p]
    BY <1>1, <1>7, Apart DEF SaveBegins, Truncated, Unreadable
  <2> QED BY <1>7, <2>1, <2>2, <2>3 DEF SaveBegins
<1>8. ASSUME NEW g \in Guis, SaveEnds(g) PROVE Addresses'
  <2>1. PICK text \in Overlaid(shown[g], file[GuiPath]) : file' = [file EXCEPT ![GuiPath] = text]
    BY <1>8 DEF SaveEnds
  <2>2. text \in Config => text.server_addr = shown[g].server_addr
    BY <1>1, OverlaidLeaves, Apart DEF Unreadable
  <2>3. Known' = Known
    BY <1>8 DEF SaveEnds, Known
  <2> QED BY <1>1, <1>8, <2>1, <2>2, <2>3 DEF SaveEnds
<1>9. ASSUME NEW g \in Guis, SaveCutShort(g) PROVE Addresses'
  <2>1. PICK text \in Torn(shown[g], file[GuiPath]) :
          file' = [file EXCEPT ![GuiPath] = text]
    BY <1>9 DEF SaveCutShort
  <2>2. \A h \in Guis : /\ gui'[h] = "saving" => gui[h] = "saving" /\ shown'[h] = shown[h]
                        /\ shown'[h] \in {shown[h], Default}
    BY <1>9 DEF SaveCutShort
  <2>3. Known \subseteq Known'
    BY <1>9 DEF SaveCutShort, Known
  <2>4. text \in Config => text.server_addr \in Known'
    <3>1. CASE file[GuiPath] = Empty
      BY <1>1, <1>9, <2>3, <3>1, TornLeaves DEF SaveCutShort, Unreadable
    <3>2. CASE file[GuiPath] # Empty
      BY <1>9, <3>2 DEF SaveCutShort, Known, Config
    <3> QED BY <3>1, <3>2
  <2>5. \A p \in Paths : file'[p] \in Config => file'[p].server_addr \in Known'
    BY <1>1, <2>1, <2>3, <2>4
  <2>6. \A h \in Guis : gui'[h] = "saving" => shown'[h].server_addr \in Known'
    BY <2>2, <2>3
  <2>7. \A h \in Guis : shown'[h].server_addr \in Addrs \cup Known'
    BY <1>3, <2>2, <2>3
  <2>8. UNCHANGED <<running, daemon>>
    BY <1>9 DEF SaveCutShort
  <2> QED BY <2>3, <2>5, <2>6, <2>7, <2>8
<1>10. ASSUME NEW g \in Guis, Closes(g) PROVE Addresses'
  <2>1. \A h \in Guis : /\ gui'[h] = "saving" => gui[h] = "saving" /\ shown'[h] = shown[h]
                        /\ shown'[h] \in {shown[h], Default}
    BY <1>10 DEF Closes
  <2> QED BY <1>2, <1>3, <1>10, <2>1 DEF Closes
<1>11. ASSUME StartsServer \/ StartsClient PROVE Addresses'
  <2>1. running' \in Config /\ (running' = file[DaemonPath] \/ running' = Default)
    BY <1>11, LoadGivesConfig DEF StartsServer, StartsClient, Load
  <2>2. running'.server_addr \in Known
    BY <1>1, <1>3, <2>1
  <2> QED BY <1>2, <1>11, <2>2 DEF StartsServer, StartsClient, Load
<1>12. ASSUME Stops PROVE Addresses'
  BY <1>2, <1>3, <1>12 DEF Stops
<1>13. ASSUME UNCHANGED vars PROVE Addresses'
  BY <1>2, <1>13 DEF vars
<1> QED
  BY <1>4, <1>5, <1>6, <1>7, <1>8, <1>9, <1>10, <1>11, <1>12, <1>13 DEF Next

\* However saves overlap or break off, a client connects only to an address that
\* was typed and saved, unless one was cut short over another window's text
\* (ConnectsWhereSaved).
THEOREM ClientsConnectWhereSaved == Spec => []ConnectsWhereSaved
<1>1. Init => Addresses
  BY Apart DEF Init, Addresses, Known, Default, Unreadable
<1>2. Addresses => ConnectsWhereSaved
  BY DEF Addresses, Known, ConnectsWhereSaved
<1> QED BY <1>1, <1>2, TypeCorrect, StepKeepsAddresses, PTL DEF Spec

-------------------------------------------------------------------------------
\* Saves overlap whenever one begins while another is under way; until then the file
\* is empty while a save is under way.  Afterwards it is what the last save stored,
\* or has no fewer peers, or is garbled.
Stored ==
  /\ ~overlapped => \A g \in Saving : file[GuiPath] = Empty /\ Saving = {g}
  /\ ~torn /\ Saving = {} /\ lastSaved # None =>
       \/ file[GuiPath] = lastSaved
       \/ overlapped /\ file[GuiPath] = Garbled
       \/ /\ overlapped /\ file[GuiPath] \in Config
          /\ file[GuiPath].server_addr = lastSaved.server_addr
          /\ file[GuiPath].peers >= lastSaved.peers

\* Every step keeps it so.
LEMMA StepKeepsStored == TypeOK /\ Stored /\ [Next]_vars => Stored'
<1> SUFFICES ASSUME TypeOK, Stored, [Next]_vars PROVE Stored'
  OBVIOUS
<1> USE DEF TypeOK, Stored
<1>1. GuiPath \in Paths /\ GuiPath' = GuiPath
  <2>1. env' = env
    BY DEF Next, Opens, EditsAddress, EditsPeers, SaveBegins, SaveEnds, SaveCutShort,
           Closes, StartsServer, StartsClient, Load, Stops, vars
  <2> QED BY <2>1, PathIsOne DEF GuiPath
<1>2. ASSUME Saving' = Saving, UNCHANGED <<file, history>> PROVE Stored'
  BY <1>1, <1>2 DEF history
<1>3. ASSUME NEW g \in Guis,
             Opens(g) \/ EditsPeers(g) \/ Closes(g)
             \/ \E text \in Addrs \cup {""} : EditsAddress(g, text)
      PROVE Stored'
  <2>1. Saving' = Saving
    BY <1>3 DEF Opens, EditsPeers, Closes, EditsAddress, Saving
  <2> QED BY <1>2, <1>3, <2>1 DEF Opens, EditsPeers, Closes, EditsAddress
<1>4. ASSUME NEW g \in Guis, SaveBegins(g) PROVE Stored'
  <2>1. Saving' = Saving \cup {g}
    BY <1>4 DEF SaveBegins, Saving
  <2>2. file'[GuiPath] = Empty
    BY <1>1, <1>4 DEF SaveBegins, Truncated
  <2>3. ~overlapped' => Saving' = {g}
    BY <1>4, <2>1 DEF SaveBegins
  <2> QED BY <1>1, <2>1, <2>2, <2>3
<1>5. ASSUME NEW g \in Guis, SaveEnds(g) PROVE Stored'
  <2>1. Saving' = Saving \ {g} /\ g \in Saving /\ UNCHANGED <<overlapped, torn>>
    BY <1>5 DEF SaveEnds, Saving
  <2>2. PICK text \in Overlaid(shown[g], file[GuiPath]) : file' = [file EXCEPT ![GuiPath] = text]
    BY <1>5 DEF SaveEnds
  <2>3. file'[GuiPath] = text /\ lastSaved' = shown[g]
    BY <1>1, <1>5, <2>2 DEF SaveEnds
  <2>4. ~overlapped => Saving' = {} /\ file'[GuiPath] = lastSaved'
    BY <2>1, <2>2, <2>3, OverlaidNothing
  <2>5. \/ text = Garbled
        \/ /\ text \in Config
           /\ text.server_addr = shown[g].server_addr /\ text.peers >= shown[g].peers
    BY <1>1, OverlaidLeaves DEF Unreadable
  <2> QED BY <1>1, <2>1, <2>3, <2>4, <2>5
<1>6. ASSUME NEW g \in Guis, SaveCutShort(g) PROVE Stored'
  <2>1. Saving' = Saving \ {g} /\ g \in Saving
    BY <1>6 DEF SaveCutShort, Saving
  <2>2. torn' /\ overlapped' = overlapped
    BY <1>6 DEF SaveCutShort
  <2>3. ~overlapped => Saving' = {}
    BY <2>1
  <2> QED BY <2>2, <2>3
<1>7. ASSUME StartsServer \/ StartsClient \/ Stops PROVE Stored'
  <2>1. Saving' = Saving
    BY <1>7 DEF StartsServer, StartsClient, Load, Stops, Saving
  <2> QED BY <1>2, <1>7, <2>1 DEF StartsServer, StartsClient, Load, Stops
<1>8. ASSUME UNCHANGED vars PROVE Stored'
  <2>1. Saving' = Saving
    BY <1>8 DEF vars, Saving
  <2> QED BY <1>2, <1>8, <2>1 DEF vars
<1> QED BY <1>3, <1>4, <1>5, <1>6, <1>7, <1>8 DEF Next

\* For any number of windows, a save that begins alone stores what a daemon then
\* loads, whatever became of the saves before it; overlapping ones lose no more
\* than they may (SavesRoundTrip).
THEOREM UndisturbedSavesRoundTrip == Spec => []SavesRoundTrip
<1>1. Init => Stored
  BY DEF Init, Stored, Saving
<1>2. TypeOK /\ Stored => SavesRoundTrip
  <2> SUFFICES ASSUME TypeOK, Stored,
                      ~torn, Saving = {}, lastSaved # None, GuiPath = DaemonPath
               PROVE  LET c == LoadOrDefault(DaemonPath)
                      IN  \/ c = lastSaved
                          \/ overlapped /\ c = Default
                          \/ /\ overlapped
                             /\ c.server_addr = lastSaved.server_addr
                             /\ c.peers >= lastSaved.peers
    BY DEF SavesRoundTrip
  <2>1. lastSaved \in Config
    BY DEF TypeOK
  <2>2. file[GuiPath] = Garbled => LoadOrDefault(DaemonPath) = Default
    BY Apart DEF LoadOrDefault, Unreadable
  <2>3. file[GuiPath] \in Config => LoadOrDefault(DaemonPath) = file[GuiPath]
    BY DEF LoadOrDefault
  <2> QED BY <2>1, <2>2, <2>3 DEF Stored
<1> QED BY <1>1, <1>2, TypeCorrect, StepKeepsStored, PTL DEF Spec

\* However the file is written and whenever it is read, a client connects only where
\* the user has said, or where a save was cut short over another, and what was saved
\* last is what a daemon loads, or as much of it as overlapping saves leave.
THEOREM DaemonRunsAsSaved == Spec => []RunsAsSaved
<1>1. ConnectsWhereSaved /\ SavesRoundTrip => RunsAsSaved
  BY DEF RunsAsSaved
<1> QED BY <1>1, ClientsConnectWhereSaved, UndisturbedSavesRoundTrip, PTL

-------------------------------------------------------------------------------
(* KeyPath: the key tables, entry by entry, and any number of keys held in any   *)
(* order.                                                                        *)

\* Where a row has a code there is a virtual key, and a code of the Linux device.
LEMMA RowTypes ==
  \A r \in VkRows : r.vk \in Nat /\ \A i \in DOMAIN r.codes : i \in Nat /\ r.codes[i] \in 1..126
  BY SMTT(60) DEF VkRows, VkModifiers, Row

\* No two rows have a virtual key in common.
LEMMA RowsApart ==
  \A r, s \in VkRows : \A i \in DOMAIN r.codes, j \in DOMAIN s.codes :
    r.vk + i = s.vk + j => r = s
  BY SMTT(120) DEF VkRows, VkModifiers, Row

\* No two rows have a code in common.
LEMMA CodesApart ==
  \A r, s \in VkRows : \A i \in DOMAIN r.codes, j \in DOMAIN s.codes :
    r.codes[i] = s.codes[j] => r = s
  BY SMTT(120) DEF VkRows, VkModifiers, Row
\* No row has a code twice.
LEMMA CodesOnce ==
  \A r \in VkRows : \A i, j \in DOMAIN r.codes : r.codes[i] = r.codes[j] => i = j
  BY SMTT(60) DEF VkRows, VkModifiers, Row

\* Every row of the way back is one of the way out.
LEMMA RowsBack == EvdevRows \subseteq VkRows
  BY SMTT(60) DEF VkRows, EvdevRows, VkModifiers, Row

\* PrintScreen and Menu have no way back.
LEMMA NoWayBack ==
  \A r \in EvdevRows : \A i \in DOMAIN r.codes : r.vk + i - 1 \notin {\h2C, \h5D}
  BY SMTT(60) DEF EvdevRows, Row

\* Every entry comes from a place in a row.
LEMMA EntryHasPlace ==
  ASSUME NEW rows, NEW e \in Entries(rows)
  PROVE  \E r \in rows : \E i \in DOMAIN r.codes : e = Entry(r, i)
  BY DEF Entries

\* An entry has a virtual key and a code of the Linux device, and no other entry has
\* either of them.
LEMMA EntriesAreKeys ==
  /\ \A e \in VkEntries : e.code \in LinuxKeys /\ e.code < 2^16
  /\ \A e, f \in VkEntries : e.vk = f.vk => e = f
  /\ \A e, f \in VkEntries : e.code = f.code => e = f
<1>1. \A e \in VkEntries : \E r \in VkRows : \E i \in DOMAIN r.codes :
        e = Entry(r, i)
  BY EntryHasPlace DEF VkEntries
<1>2. \A c \in 1..126 : c \in LinuxKeys /\ c < 2^16
  BY DEF LinuxKeys
<1>3. \A e \in VkEntries : e.code \in LinuxKeys /\ e.code < 2^16
  BY <1>1, <1>2, RowTypes DEF Entry
<1>4. ASSUME NEW e \in VkEntries, NEW f \in VkEntries, e.vk = f.vk \/ e.code = f.code
      PROVE  e = f
  <2>1. PICK r \in VkRows : \E i \in DOMAIN r.codes : e = Entry(r, i)
    BY <1>1
  <2>2. PICK i \in DOMAIN r.codes : e = Entry(r, i)
    BY <2>1
  <2>3. PICK s \in VkRows : \E j \in DOMAIN s.codes : f = Entry(s, j)
    BY <1>1
  <2>4. PICK j \in DOMAIN s.codes : f = Entry(s, j)
    BY <2>3
  <2>5. r.vk \in Nat /\ s.vk \in Nat /\ i \in Nat /\ j \in Nat
    BY RowTypes
  <2>6. CASE e.vk = f.vk
    <3>1. r.vk + i = s.vk + j
      BY <2>2, <2>4, <2>5, <2>6 DEF Entry
    <3>2. r = s
      BY <3>1, RowsApart
    <3> QED BY <2>2, <2>4, <2>5, <3>1, <3>2
  <2>7. CASE e.code = f.code
    <3>1. r.codes[i] = s.codes[j]
      BY <2>2, <2>4, <2>7 DEF Entry
    <3>2. r = s
      BY <3>1, CodesApart
    <3> QED BY <2>2, <2>4, <3>1, <3>2, CodesOnce
  <2> QED BY <1>4, <2>6, <2>7
<1> QED BY <1>3, <1>4

\* What the functions vk_to_evdev and evdev_to_vk give is an entry.
LEMMA TableLooksUp ==
  /\ \A v \in DOMAIN VkToEvdev : \E e \in VkEntries : e.vk = v /\ VkToEvdev[v] = e.code
  /\ \A e \in VkEntries : e.vk \in DOMAIN VkToEvdev /\ VkToEvdev[e.vk] = e.code
  /\ \A c \in DOMAIN EvdevToVk : \E e \in EvdevEntries : e.code = c /\ EvdevToVk[c] = e.vk
<1>1. \A v \in DOMAIN VkToEvdev : \E e \in VkEntries : e.vk = v /\ VkToEvdev[v] = e.code
  BY DEF VkToEvdev
<1>2. \A e \in VkEntries : e.vk \in DOMAIN VkToEvdev
  BY DEF VkToEvdev
<1>3. \A c \in DOMAIN EvdevToVk : \E e \in EvdevEntries : e.code = c /\ EvdevToVk[c] = e.vk
  BY DEF EvdevToVk
<1> QED BY <1>1, <1>2, <1>3, EntriesAreKeys

\* What the tables promise one another: no two virtual keys have the same code, and the
\* way back leads to where a code came from.
LEMMA TablesAgree ==
  /\ \A v \in DOMAIN VkToEvdev : VkToEvdev[v] \in LinuxKeys
  /\ \A v, w \in DOMAIN VkToEvdev : VkToEvdev[v] = VkToEvdev[w] => v = w
  /\ \A c \in DOMAIN EvdevToVk :
       EvdevToVk[c] \in DOMAIN VkToEvdev /\ VkToEvdev[EvdevToVk[c]] = c
<1>1. EvdevEntries \subseteq VkEntries
  BY RowsBack DEF EvdevEntries, VkEntries, Entries
<1>2. \A c \in DOMAIN EvdevToVk :
        EvdevToVk[c] \in DOMAIN VkToEvdev /\ VkToEvdev[EvdevToVk[c]] = c
  BY <1>1, TableLooksUp
<1>3. ASSUME NEW v \in DOMAIN VkToEvdev, NEW w \in DOMAIN VkToEvdev, VkToEvdev[v] = VkToEvdev[w]
      PROVE  v = w
  <2>1. PICK e \in VkEntries : e.vk = v /\ VkToEvdev[v] = e.code
    BY TableLooksUp
  <2>2. PICK f \in VkEntries : f.vk = w /\ VkToEvdev[w] = f.code
    BY TableLooksUp
  <2> QED BY <1>3, <2>1, <2>2, EntriesAreKeys
<1> QED BY <1>2, <1>3, TableLooksUp, EntriesAreKeys

\* A key of the keyboard is a plain or an extended one.
LEMMA KeyboardHas ==
  ASSUME NEW k \in Keyboard
  PROVE  \/ k = [vk |-> k.vk, ext |-> FALSE] /\ k.vk \in PlainVks
         \/ k = [vk |-> k.vk, ext |-> TRUE] /\ k.vk \in ExtendedVks
<1>1. ASSUME k \in [vk : PlainVks, ext : {FALSE}]
      PROVE  k = [vk |-> k.vk, ext |-> FALSE] /\ k.vk \in PlainVks
  BY <1>1
<1>2. ASSUME k \in [vk : ExtendedVks, ext : {TRUE}]
      PROVE  k = [vk |-> k.vk, ext |-> TRUE] /\ k.vk \in ExtendedVks
  BY <1>2
<1> QED BY <1>1, <1>2, Zenon DEF Keyboard

\* The keys of a virtual key that the way back knows: several, one of them extended,
\* or one. The scan code that is injected is that of the extended one or the only one.
LEMMA ExtendedKeys ==
  ASSUME NEW k \in Keyboard, NEW c \in DOMAIN EvdevToVk, EvdevToVk[c] = k.vk
  PROVE  IsExtendedVk(k.vk) = (k.ext \/ k \notin Own)
<1> DEFINE Shared == \h21..\h28 \cup {\h2D, \h2E, \h0D}
<1>1. k.vk \notin {\h2C, \h5D}
  <2>1. PICK e \in EvdevEntries : e.vk = k.vk
    BY TableLooksUp
  <2>2. PICK r \in EvdevRows : \E i \in DOMAIN r.codes : e = Entry(r, i)
    BY EntryHasPlace DEF EvdevEntries
  <2> QED BY <2>1, <2>2, NoWayBack DEF Entry
<1>2. k.vk \in PlainVks \cap ExtendedVks <=> k.vk \in Shared
  <2>1. k.vk \in PlainVks \cup ExtendedVks
    BY KeyboardHas
  <2> QED BY <2>1 DEF PlainVks, ExtendedVks
<1> HIDE DEF Shared
<1>3. CASE k.vk \in Shared
  <2>1. [vk |-> k.vk, ext |-> FALSE] \in Keyboard /\ [vk |-> k.vk, ext |-> TRUE] \in Keyboard
    BY <1>2, <1>3 DEF Keyboard
  <2>2. [vk |-> k.vk, ext |-> FALSE] # [vk |-> k.vk, ext |-> TRUE]
    <3>1. [vk |-> k.vk, ext |-> FALSE].ext # [vk |-> k.vk, ext |-> TRUE].ext
      OBVIOUS
    <3> QED BY <3>1
  <2>3. k \notin Own
    BY <2>1, <2>2 DEF Own
  <2>4. IsExtendedVk(k.vk) = TRUE
    BY <1>3 DEF Shared, IsExtendedVk
  <2> QED BY <2>3, <2>4
<1>4. CASE k.vk \notin Shared
  <2>1. k \in Own
    <3> SUFFICES ASSUME NEW j \in Keyboard, j.vk = k.vk PROVE j = k
      BY DEF Own
    <3>1. \/ j = [vk |-> k.vk, ext |-> FALSE] /\ k.vk \in PlainVks
          \/ j = [vk |-> k.vk, ext |-> TRUE] /\ k.vk \in ExtendedVks
      BY KeyboardHas
    <3> QED BY <1>2, <1>4, <3>1, KeyboardHas
  <2>2. CASE k = [vk |-> k.vk, ext |-> FALSE] /\ k.vk \in PlainVks
    <3>1. IsExtendedVk(k.vk) = FALSE
      BY <1>4, <2>2 DEF PlainVks, IsExtendedVk, Shared
    <3>2. k.ext = FALSE
      BY <2>2
    <3> QED BY <2>1, <3>1, <3>2
  <2>3. CASE k = [vk |-> k.vk, ext |-> TRUE] /\ k.vk \in ExtendedVks
    <3>1. IsExtendedVk(k.vk) = TRUE
      BY <1>1, <2>3 DEF ExtendedVks, IsExtendedVk
    <3>2. k.ext = TRUE
      BY <2>3
    <3> QED BY <3>1, <3>2
  <2> QED BY <2>2, <2>3, KeyboardHas
<1> QED BY <1>3, <1>4

\* Whether a code will be down where the codes of S are down, once what is on its way
\* has been injected.
WillBeDown(q, S, c) ==
  \/ \E i \in 1..Len(q) : /\ q[i].keycode = c /\ q[i].pressed
                          /\ \A j \in 1..Len(q) : i < j => q[j].keycode # c
  \/ c \in S /\ \A i \in 1..Len(q) : q[i].keycode # c

\* Nothing is on its way.
LEMMA DownNow == \A S, c : WillBeDown(<<>>, S, c) <=> c \in S
  BY DEF WillBeDown

\* An event decides about its code, and about no other.
LEMMA DownAfterEvent ==
  ASSUME NEW q \in Seq(KeyEvent), NEW e \in KeyEvent, NEW S, NEW c
  PROVE  WillBeDown(Append(q, e), S, c) <=>
           IF e.keycode = c THEN e.pressed ELSE WillBeDown(q, S, c)
<1> DEFINE r == Append(q, e)
<1>1. Len(r) = Len(q) + 1 /\ r[Len(q) + 1] = e /\ \A i \in 1..Len(q) : r[i] = q[i]
  OBVIOUS
<1>2. Len(q) \in Nat
  OBVIOUS
<1> HIDE DEF r
<1>3. CASE e.keycode = c
  <2>1. \A i \in 1..Len(r) : (\A j \in 1..Len(r) : i < j => r[j].keycode # c) => i = Len(r)
    BY <1>1, <1>2, <1>3
  <2>2. \A j \in 1..Len(r) : ~(Len(r) < j)
    BY <1>1, <1>2
  <2> QED BY <1>1, <1>2, <1>3, <2>1, <2>2 DEF WillBeDown
<1>4. CASE e.keycode # c
  <2>1. WillBeDown(q, S, c) => WillBeDown(r, S, c)
    BY <1>1, <1>2, <1>4 DEF WillBeDown
  <2>2. ASSUME WillBeDown(r, S, c) PROVE WillBeDown(q, S, c)
    <3>1. CASE \E i \in 1..Len(r) : /\ r[i].keycode = c /\ r[i].pressed
                                    /\ \A j \in 1..Len(r) : i < j => r[j].keycode # c
      <4>1. PICK i \in 1..Len(r) : /\ r[i].keycode = c /\ r[i].pressed
                                   /\ \A j \in 1..Len(r) : i < j => r[j].keycode # c
        BY <3>1
      <4>2. i \in 1..Len(q)
        BY <1>1, <1>2, <1>4, <4>1
      <4>3. \A j \in 1..Len(q) : j \in 1..Len(r)
        BY <1>1, <1>2
      <4> QED BY <1>1, <4>1, <4>2, <4>3 DEF WillBeDown
    <3>2. CASE c \in S /\ \A i \in 1..Len(r) : r[i].keycode # c
      BY <1>1, <1>2, <3>2 DEF WillBeDown
    <3> QED BY <2>2, <3>1, <3>2 DEF WillBeDown
  <2> QED BY <1>4, <2>1, <2>2 DEF r
<1> QED BY <1>3, <1>4 DEF r

\* What an event makes of the keys that are down is what was to be expected of it.
LEMMA DownAfterInjection ==
  ASSUME NEW q \in Seq(KeyEvent), q # <<>>, NEW S, NEW c
  PROVE  WillBeDown(Tail(q), Set(S, Head(q).keycode, Head(q).pressed), c)
           <=> WillBeDown(q, S, c)
<1> DEFINE t == Tail(q)
           e == Head(q)
           d == Set(S, Head(q).keycode, Head(q).pressed)
<1>1. /\ e = q[1] /\ e \in KeyEvent /\ Len(q) \in Nat \ {0}
      /\ t \in Seq(KeyEvent) /\ Len(t) = Len(q) - 1
      /\ \A i \in 1..Len(t) : t[i] = q[i + 1]
  BY HeadTailProperties
<1>2. c \in d <=> IF e.keycode = c THEN e.pressed ELSE c \in S
  <2>1. CASE e.pressed
    BY <2>1 DEF Set
  <2>2. CASE ~e.pressed
    BY <2>2 DEF Set
  <2> QED BY <2>1, <2>2
<1>3. Len(t) \in Nat
  BY <1>1
<1> HIDE DEF t, e, d
<1>4. \A i \in 1..Len(q) : i # 1 => i - 1 \in 1..Len(t) /\ q[i] = t[i - 1]
  BY <1>1
<1>5. \A i \in 1..Len(t) : i + 1 \in 1..Len(q) /\ i + 1 # 1 /\ t[i] = q[i + 1]
  BY <1>1
<1>6. 1 \in 1..Len(q)
  BY <1>1
<1>7. (\A i \in 1..Len(q) : q[i].keycode # c)
        <=> e.keycode # c /\ \A i \in 1..Len(t) : t[i].keycode # c
  BY <1>1, <1>4, <1>5, <1>6
<1>8. ASSUME WillBeDown(t, d, c) PROVE WillBeDown(q, S, c)
  <2>1. CASE \E i \in 1..Len(t) : /\ t[i].keycode = c /\ t[i].pressed
                                  /\ \A j \in 1..Len(t) : i < j => t[j].keycode # c
    <3>1. PICK i \in 1..Len(t) : /\ t[i].keycode = c /\ t[i].pressed
                                 /\ \A j \in 1..Len(t) : i < j => t[j].keycode # c
      BY <2>1
    <3>2. \A j \in 1..Len(q) : i + 1 < j => q[j].keycode # c
      <4> TAKE j \in 1..Len(q)
      <4>1. i + 1 < j => j # 1 /\ i < j - 1
        BY <1>3
      <4> QED BY <1>4, <3>1, <4>1
    <3> QED BY <1>5, <3>1, <3>2 DEF WillBeDown
  <2>2. CASE c \in d /\ \A i \in 1..Len(t) : t[i].keycode # c
    <3>1. CASE e.keycode = c
      <4>1. q[1].keycode = c /\ q[1].pressed
        BY <1>1, <1>2, <2>2, <3>1
      <4>2. \A j \in 1..Len(q) : 1 < j => q[j].keycode # c
        BY <1>4, <2>2
      <4> QED BY <1>6, <4>1, <4>2 DEF WillBeDown
    <3>2. CASE e.keycode # c
      BY <1>2, <1>7, <2>2, <3>2 DEF WillBeDown
    <3> QED BY <3>1, <3>2
  <2> QED BY <1>8, <2>1, <2>2 DEF WillBeDown
<1>9. ASSUME WillBeDown(q, S, c) PROVE WillBeDown(t, d, c)
  <2>1. CASE \E i \in 1..Len(q) : /\ q[i].keycode = c /\ q[i].pressed
                                  /\ \A j \in 1..Len(q) : i < j => q[j].keycode # c
    <3>1. PICK i \in 1..Len(q) : /\ q[i].keycode = c /\ q[i].pressed
                                 /\ \A j \in 1..Len(q) : i < j => q[j].keycode # c
      BY <2>1
    <3>2. CASE i = 1
      <4>1. \A j \in 1..Len(t) : t[j].keycode # c
        <5> TAKE j \in 1..Len(t)
        <5>1. 1 < j + 1
          BY <1>3
        <5> QED BY <1>5, <3>1, <3>2, <5>1
      <4>2. c \in d
        BY <1>1, <1>2, <3>1, <3>2
      <4> QED BY <4>1, <4>2 DEF WillBeDown
    <3>3. CASE i # 1
      <4>1. \A j \in 1..Len(t) : i - 1 < j => t[j].keycode # c
        <5> TAKE j \in 1..Len(t)
        <5>1. i - 1 < j => i < j + 1
          BY <1>3
        <5> QED BY <1>5, <3>1, <5>1
      <4> QED BY <1>4, <3>1, <3>3, <4>1 DEF WillBeDown
    <3> QED BY <3>2, <3>3
  <2>2. CASE c \in S /\ \A i \in 1..Len(q) : q[i].keycode # c
    BY <1>2, <1>7, <2>2 DEF WillBeDown
  <2> QED BY <1>9, <2>1, <2>2 DEF WillBeDown
<1> QED BY <1>8, <1>9 DEF t, e, d

\* The key of the Windows client that a code stands for.
WinKey(c) == [vk |-> EvdevToVk[c], ext |-> IsExtendedVk(EvdevToVk[c])]

\* The inductive invariant.  What will be down at the Linux client when everything has
\* arrived is held, and all that is held and had its virtual key to itself will be
\* down; two keys of one virtual key are not held unnoticed; the Windows client is in
\* step with the Linux client.
DownIsHeld ==
  \A c \in LinuxKeys : WillBeDown(keyLink, linux, c) =>
    \E k \in held \cap Mapped : VkToEvdev[k.vk] = c
HeldIsDown ==
  \A k \in Clear : WillBeDown(keyLink, linux, VkToEvdev[k.vk])
Noticed ==
  \A j, k \in held : j.vk = k.vk /\ j # k => k.vk \in crossed
InStep ==
  /\ win \subseteq {WinKey(c) : c \in DOMAIN EvdevToVk}
  /\ \A c \in DOMAIN EvdevToVk : WinKey(c) \in win <=> c \in linux
KeyInv == KeyTypeOK /\ DownIsHeld /\ HeldIsDown /\ Noticed /\ InStep

\* With no key held the invariant holds.
LEMMA KeyInitEstablishes == KeyInit => KeyInv
<1> SUFFICES ASSUME KeyInit PROVE KeyInv
  OBVIOUS
<1> USE DEF KeyInit
<1>1. KeyTypeOK
  BY DEF KeyTypeOK
<1>2. DownIsHeld
  BY DownNow DEF DownIsHeld
<1>3. HeldIsDown /\ Noticed /\ InStep
  BY DEF HeldIsDown, Clear, Noticed, InStep
<1> QED BY <1>1, <1>2, <1>3 DEF KeyInv

\* A press or a release goes into the queue, if the key has a code.
LEMMA UserKeepsKeyInv ==
  ASSUME KeyInv, NEW k \in Keyboard, Press(k) \/ Release(k)
  PROVE  KeyInv'
<1> USE DEF KeyInv
<1> DEFINE c == VkToEvdev[k.vk]
<1>1. UNCHANGED <<linux, win>> /\ held' \subseteq Keyboard
  BY DEF Press, Release, KeyTypeOK
<1>2. InStep'
  BY <1>1 DEF InStep
<1>3. PICK pressed \in BOOLEAN :
        /\ IF pressed THEN Press(k) ELSE Release(k)
        /\ pressed => held' = held \cup {k}
        /\ ~pressed => held' = held \ {k}
  BY DEF Press, Release
<1>4. Noticed'
  <2> SUFFICES ASSUME NEW i \in held', NEW j \in held', i.vk = j.vk, i # j
               PROVE  j.vk \in crossed'
    BY DEF Noticed
  <2>1. CASE pressed
    <3>1. crossed' = IF Others(k) = {} THEN crossed ELSE crossed \cup {k.vk}
      BY <1>3, <2>1 DEF Press
    <3>2. CASE i \in held /\ j \in held
      BY <3>1, <3>2 DEF Noticed
    <3>3. CASE i \notin held \/ j \notin held
      <4>1. j.vk = k.vk /\ Others(k) # {}
        BY <1>3, <2>1, <3>3 DEF Others
      <4> QED BY <3>1, <4>1
    <3> QED BY <3>2, <3>3
  <2>2. CASE ~pressed
    <3>1. i \in held \ {k} /\ j \in held \ {k} /\ j.vk \in crossed
      BY <1>3, <2>2 DEF Noticed
    <3>2. j.vk = k.vk => Others(k) # {}
      BY <3>1 DEF Others
    <3> QED BY <1>3, <2>2, <3>1, <3>2 DEF Release
  <2> QED BY <2>1, <2>2
<1>5. crossed' \subseteq {j.vk : j \in held'}
  <2>1. crossed \subseteq {j.vk : j \in held}
    BY DEF KeyTypeOK
  <2>2. CASE pressed
    BY <1>3, <2>1, <2>2 DEF Press
  <2>3. CASE ~pressed
    <3> SUFFICES ASSUME NEW v \in crossed' PROVE \E j \in held' : j.vk = v
      OBVIOUS
    <3>1. v \in crossed /\ (Others(k) = {} => v # k.vk)
      BY <1>3, <2>3 DEF Release
    <3>2. PICK j \in held : j.vk = v
      BY <2>1, <3>1
    <3>3. CASE v = k.vk
      <4>1. Others(k) \subseteq held' /\ Others(k) # {}
        BY <1>3, <2>3, <3>1, <3>3 DEF Others
      <4> QED BY <3>3, <4>1 DEF Others
    <3>4. CASE v # k.vk
      BY <1>3, <2>3, <3>2, <3>4
    <3> QED BY <3>3, <3>4
  <2> QED BY <2>2, <2>3
<1>6. \A v : v # k.vk => (v \in crossed' <=> v \in crossed)
  BY <1>3 DEF Press, Release
<1>7. CASE k.vk \notin DOMAIN VkToEvdev
  <2>1. keyLink' = keyLink
    BY <1>7 DEF Press, Release, KbdHook
  <2>2. held' \cap Mapped = held \cap Mapped
    BY <1>7 DEF Press, Release, Mapped
  <2>3. KeyTypeOK'
    BY <1>1, <1>5, <2>1 DEF KeyTypeOK
  <2>4. \A j \in Mapped : j.vk # k.vk
    BY <1>7 DEF Mapped
  <2>5. Clear' = Clear
    BY <1>6, <2>2, <2>4 DEF Clear
  <2>6. DownIsHeld' /\ HeldIsDown'
    BY <1>1, <2>1, <2>2, <2>5 DEF DownIsHeld, HeldIsDown
  <2> QED BY <1>2, <1>4, <2>3, <2>6
<1>8. CASE k.vk \in DOMAIN VkToEvdev
  <2>1. keyLink' = Append(keyLink, [keycode |-> c, pressed |-> pressed])
    BY <1>8, <1>3 DEF Press, Release, KbdHook
  <2> DEFINE e == [keycode |-> c, pressed |-> pressed]
  <2>2. e \in KeyEvent /\ e.keycode = c /\ e.pressed = pressed /\ keyLink \in Seq(KeyEvent)
    BY <1>8, TablesAgree DEF KeyEvent, KeyTypeOK
  <2>3. keyLink' = Append(keyLink, e)
    BY <2>1
  <2> HIDE DEF e
  <2>4. KeyTypeOK'
    <3>1. keyLink' \in Seq(KeyEvent)
      BY <2>2, <2>3
    <3> QED BY <1>1, <1>5, <3>1 DEF KeyTypeOK
  <2>5. \A d : WillBeDown(keyLink', linux', d) <=>
                 IF d = c THEN pressed ELSE WillBeDown(keyLink, linux, d)
    BY <1>1, <2>2, <2>3, DownAfterEvent
  <2>6. \A j \in Mapped : VkToEvdev[j.vk] = c => j.vk = k.vk
    BY <1>8, TablesAgree DEF Mapped
  <2>7. k \in Mapped
    BY <1>8 DEF Mapped
  <2>8. DownIsHeld'
    <3> SUFFICES ASSUME NEW d \in LinuxKeys, WillBeDown(keyLink', linux', d)
                 PROVE  \E j \in held' \cap Mapped : VkToEvdev[j.vk] = d
      BY DEF DownIsHeld
    <3>1. CASE d = c
      BY <1>3, <2>5, <2>7, <3>1
    <3>2. CASE d # c
      <4>1. PICK j \in held \cap Mapped : VkToEvdev[j.vk] = d
        BY <2>5, <3>2 DEF DownIsHeld
      <4>2. j \in held'
        BY <1>3, <3>2, <4>1
      <4> QED BY <4>1, <4>2
    <3> QED BY <3>1, <3>2
  <2>9. HeldIsDown'
    <3> SUFFICES ASSUME NEW j \in Clear'
                 PROVE  WillBeDown(keyLink', linux', VkToEvdev[j.vk])
      BY DEF HeldIsDown
    <3>0. j \in held' /\ j \in Mapped /\ j.vk \notin crossed'
      BY DEF Clear
    <3>1. CASE VkToEvdev[j.vk] = c
      <4>1. j.vk = k.vk
        BY <2>6, <3>0, <3>1
      <4>2. CASE pressed
        BY <2>5, <3>1, <4>2
      <4>3. CASE ~pressed
        <5>1. j \in held /\ j # k /\ k \in held /\ j \in Others(k)
          BY <1>3, <3>0, <4>1, <4>3 DEF Release, Others
        <5>2. k.vk \in crossed
          BY <4>1, <5>1 DEF Noticed
        <5>3. crossed' = crossed
          BY <1>3, <4>3, <5>1 DEF Release
        <5> QED BY <3>0, <4>1, <5>2, <5>3
      <4> QED BY <4>2, <4>3
    <3>2. CASE VkToEvdev[j.vk] # c
      <4>1. j \in held /\ j.vk # k.vk
        BY <1>3, <3>0, <3>2
      <4>2. j \in Clear
        BY <1>6, <3>0, <4>1 DEF Clear
      <4> QED BY <2>5, <3>2, <4>2 DEF HeldIsDown
    <3> QED BY <3>1, <3>2
  <2> QED BY <1>2, <1>4, <2>4, <2>8, <2>9
<1> QED BY <1>7, <1>8

\* An injection changes what is down as expected, at both clients alike.
LEMMA InjectKeepsKeyInv ==
  ASSUME KeyInv, InjectKey
  PROVE  KeyInv'
<1> USE DEF KeyInv
<1> DEFINE e == Head(keyLink)
           c == e.keycode
<1>1. /\ keyLink \in Seq(KeyEvent) /\ keyLink # <<>> /\ keyLink' = Tail(keyLink)
      /\ UNCHANGED <<held, crossed>>
  BY DEF InjectKey, KeyTypeOK
<1>2. keyLink' \in Seq(KeyEvent) /\ e \in KeyEvent
  BY <1>1, HeadTailProperties
<1>3. c \in LinuxKeys /\ c < 2^16
  <2>1. c \in LinuxKeys
    BY <1>2 DEF KeyEvent
  <2>2. \A d \in LinuxKeys : d < 65536
    BY DEF LinuxKeys
  <2>3. 2^16 = 65536
    OBVIOUS
  <2> QED BY <2>1, <2>2, <2>3
<1>4. linux' = Set(linux, c, e.pressed)
  BY <1>3 DEF InjectKey, LinuxHandle
<1>5. win' = IF c \in DOMAIN EvdevToVk THEN Set(win, WinKey(c), e.pressed) ELSE win
  BY <1>3 DEF InjectKey, WinHandle, WinKey
<1>6. \A d : WillBeDown(keyLink', linux', d) <=> WillBeDown(keyLink, linux, d)
  BY <1>1, <1>4, DownAfterInjection
<1>7. DownIsHeld' /\ HeldIsDown' /\ Noticed'
  BY <1>1, <1>6 DEF DownIsHeld, HeldIsDown, Clear, Noticed
<1> HIDE DEF e, c
<1>8. InStep'
  <2>1. \A d \in DOMAIN EvdevToVk : WinKey(d) = WinKey(c) /\ c \in DOMAIN EvdevToVk => d = c
    BY TablesAgree DEF WinKey
  <2>2. CASE e.pressed
    <3>1. /\ linux' = linux \cup {c}
          /\ win' = IF c \in DOMAIN EvdevToVk THEN win \cup {WinKey(c)} ELSE win
      BY <1>4, <1>5, <2>2 DEF Set
    <3>2. win' \subseteq {WinKey(d) : d \in DOMAIN EvdevToVk}
      BY <3>1 DEF InStep
    <3>3. \A d \in DOMAIN EvdevToVk : WinKey(d) \in win' <=> d \in linux'
      BY <2>1, <3>1 DEF InStep
    <3> QED BY <3>2, <3>3 DEF InStep
  <2>3. CASE ~e.pressed
    <3>1. /\ linux' = linux \ {c}
          /\ win' = IF c \in DOMAIN EvdevToVk THEN win \ {WinKey(c)} ELSE win
      BY <1>4, <1>5, <2>3 DEF Set
    <3>2. win' \subseteq {WinKey(d) : d \in DOMAIN EvdevToVk}
      BY <3>1 DEF InStep
    <3>3. \A d \in DOMAIN EvdevToVk : WinKey(d) \in win' <=> d \in linux'
      BY <2>1, <3>1 DEF InStep
    <3> QED BY <3>2, <3>3 DEF InStep
  <2> QED BY <2>2, <2>3
<1>9. KeyTypeOK'
  <2>1. linux' \subseteq LinuxKeys
    BY <1>3, <1>4 DEF Set, KeyTypeOK
  <2>2. \A d \in DOMAIN EvdevToVk :
          WinKey(d) \in [vk : {EvdevToVk[code] : code \in DOMAIN EvdevToVk}, ext : BOOLEAN]
    <3> TAKE d \in DOMAIN EvdevToVk
    <3>1. IsExtendedVk(EvdevToVk[d]) \in BOOLEAN
      BY DEF IsExtendedVk
    <3> QED BY <3>1 DEF WinKey
  <2>3. win' \subseteq [vk : {EvdevToVk[code] : code \in DOMAIN EvdevToVk}, ext : BOOLEAN]
    BY <1>8, <2>2 DEF InStep
  <2>4. held' \subseteq Keyboard /\ crossed' \subseteq {k.vk : k \in held'}
    BY <1>1 DEF KeyTypeOK
  <2> QED BY <1>2, <2>1, <2>3, <2>4 DEF KeyTypeOK
<1> QED BY <1>7, <1>8, <1>9

\* Every step keeps it.
LEMMA KeyNextPreserves == KeyInv /\ [KeyNext]_keyVars => KeyInv'
<1> SUFFICES ASSUME KeyInv, [KeyNext]_keyVars PROVE KeyInv'
  OBVIOUS
<1>1. CASE UNCHANGED keyVars
  BY <1>1 DEF keyVars, KeyInv, KeyTypeOK, DownIsHeld, HeldIsDown, Clear, Noticed,
                InStep
<1>2. CASE KeyNext
  BY <1>2, UserKeepsKeyInv, InjectKeepsKeyInv DEF KeyNext
<1> QED BY <1>1, <1>2

\* So it always holds.
LEMMA KeyInvHolds == KeySpec => []KeyInv
  BY KeyInitEstablishes, KeyNextPreserves, PTL DEF KeySpec

\* Every code on its way is one of the Linux client's device, and so is every code that
\* is down there.
THEOREM KeyTypeCorrect == KeySpec => []KeyTypeOK
<1>1. KeyInv => KeyTypeOK
  BY DEF KeyInv
<1> QED BY <1>1, KeyInvHolds, PTL

\* When everything has arrived, what is down at the two clients is what the user holds
\* (KeysFollow), however many keys are held in whatever order.
THEOREM ClientsFollowKeys == KeySpec => []KeysFollow
<1>1. KeyInv => KeysFollow
  <2> SUFFICES ASSUME KeyInv, keyLink = <<>> PROVE KeysFollow
    BY DEF KeysFollow, LinuxFollows, WinFollows
  <2> USE DEF KeyInv
  <2>1. \A c : WillBeDown(keyLink, linux, c) <=> c \in linux
    BY DownNow
  <2>2. \A c \in linux : \E k \in held \cap Mapped : VkToEvdev[k.vk] = c
    BY <2>1 DEF DownIsHeld, KeyTypeOK
  <2>3. \A k \in Clear : VkToEvdev[k.vk] \in linux
    BY <2>1 DEF HeldIsDown
  <2>4. LinuxFollows
    BY <2>2, <2>3 DEF LinuxFollows
  <2>5. ASSUME NEW k \in win PROVE \E j \in held : j.vk = k.vk
    <3>1. PICK c \in DOMAIN EvdevToVk : k = WinKey(c)
      BY DEF InStep
    <3>2. PICK j \in held \cap Mapped : VkToEvdev[j.vk] = c
      BY <2>2, <3>1 DEF InStep
    <3>3. j.vk = EvdevToVk[c] /\ k.vk = EvdevToVk[c]
      BY <3>1, <3>2, TablesAgree DEF WinKey, Mapped
    <3> QED BY <3>2, <3>3
  <2>6. ASSUME NEW k \in Clear, VkToEvdev[k.vk] \in DOMAIN EvdevToVk
        PROVE  [k EXCEPT !.ext = k.ext \/ k \notin Own] \in win
    <3> DEFINE c == VkToEvdev[k.vk]
    <3>1. WinKey(c) \in win
      BY <2>3, <2>6 DEF InStep
    <3>2. k \in Keyboard /\ EvdevToVk[c] = k.vk
      BY <2>6, TablesAgree DEF Clear, Mapped
    <3>3. IsExtendedVk(k.vk) = (k.ext \/ k \notin Own)
      BY <2>6, <3>2, ExtendedKeys
    <3>4. [k EXCEPT !.ext = k.ext \/ k \notin Own]
            = [vk |-> k.vk, ext |-> k.ext \/ k \notin Own]
      BY <3>2, KeyboardHas
    <3> QED BY <3>1, <3>2, <3>3, <3>4 DEF WinKey
  <2> QED BY <2>4, <2>5, <2>6 DEF KeysFollow, WinFollows
<1> QED BY <1>1, KeyInvHolds, PTL

-------------------------------------------------------------------------------
(* MousePath: every screen, mouse, word size, notch, channel and number of       *)
(* events.  Sums are taken with a recursive function; what holds of them for     *)
(* every queue follows from the least number for which it would not.             *)

\* A set of numbers that is not empty has a least one.
LEMMA LeastNumber ==
  ASSUME NEW T \in SUBSET Nat, T # {}
  PROVE  \E x \in T : \A y \in T : x <= y
<1> DEFINE R == OpToRel(<, Nat)
<1>1. IsWellFoundedOn(R, Nat)
  BY NatLessThanWellFounded
<1>2. \A x, y \in Nat : x < y => <<x, y>> \in R
  BY DEF OpToRel
<1> HIDE DEF R
<1>3. PICK x \in T : \A y \in T : ~ (<<y, x>> \in R)
  BY <1>1, WFMin
<1>4. \A y \in T : ~(y < x)
  BY <1>2, <1>3
<1> QED BY <1>3, <1>4

\* f adds up the messages of q, up to the nth.
Running(f, q, kind, len) ==
  f = [i \in 0..len |-> IF i = 0 THEN 0 ELSE f[i - 1] + Part(q[i], kind)]

\* A part of a message is a number.
LEMMA PartIsNumber == \A m \in Message, kind \in Kinds : Part(m, kind) \in Int
  BY DEF Message, Part

\* The sums of two queues are the same as long as their messages are.
LEMMA SumsAgree ==
  \A q, r \in Seq(Message), kind \in Kinds : \A f, g :
    /\ Len(q) <= Len(r) /\ \A x \in 1..Len(q) : q[x] = r[x]
    /\ Running(f, q, kind, Len(q)) /\ Running(g, r, kind, Len(r))
    => \A x \in 0..Len(q) : f[x] = g[x]
<1> SUFFICES ASSUME NEW q \in Seq(Message), NEW r \in Seq(Message), NEW kind \in Kinds,
                    NEW f, NEW g, Len(q) <= Len(r), \A x \in 1..Len(q) : q[x] = r[x],
                    Running(f, q, kind, Len(q)), Running(g, r, kind, Len(r))
             PROVE  \A x \in 0..Len(q) : f[x] = g[x]
  OBVIOUS
<1> DEFINE k == Len(q)
<1>k. k \in Nat
  OBVIOUS
<1> SUFFICES ASSUME \E x \in 0..k : f[x] # g[x] PROVE FALSE
  OBVIOUS
<1> DEFINE T == {x \in 0..k : f[x] # g[x]}
<1>1. T \in SUBSET Nat /\ T # {}
  OBVIOUS
<1>2. PICK x \in T : \A y \in T : x <= y
  <2> HIDE DEF T
  <2> QED BY <1>1, LeastNumber
<1>3. \A y \in 1..k : f[y] = f[y - 1] + Part(q[y], kind) /\ g[y] = g[y - 1] + Part(r[y], kind)
  <2>1. \A y \in 0..k : f[y] = IF y = 0 THEN 0 ELSE f[y - 1] + Part(q[y], kind)
    BY DEF Running
  <2>2. \A y \in 1..k : y # 0 /\ y \in 0..k /\ y \in 0..Len(r)
    BY <1>k
  <2>3. \A y \in 0..Len(r) : g[y] = IF y = 0 THEN 0 ELSE g[y - 1] + Part(r[y], kind)
    BY DEF Running
  <2> QED BY <2>1, <2>2, <2>3
<1>4. f[0] = 0 /\ g[0] = 0
  BY DEF Running
<1>5. x \in 1..k /\ x - 1 \in 0..k /\ x - 1 < x
  BY <1>4
<1>6. f[x - 1] = g[x - 1]
  BY <1>2, <1>5
<1> QED BY <1>3, <1>5, <1>6

\* The messages of every queue can be added up, and their sums are numbers.
LEMMA SumsExist ==
  ASSUME NEW q \in Seq(Message), NEW kind \in Kinds
  PROVE  \A i \in 0..Len(q) : \E f \in [0..i -> Int] : Running(f, q, kind, i)
<1> SUFFICES ASSUME \E i \in 0..Len(q) : ~ \E f \in [0..i -> Int] : Running(f, q, kind, i)
             PROVE  FALSE
  OBVIOUS
<1> DEFINE T == {i \in 0..Len(q) : ~ \E f \in [0..i -> Int] : Running(f, q, kind, i)}
<1>1. T \in SUBSET Nat /\ T # {}
  OBVIOUS
<1>2. PICK i \in T : \A y \in T : i <= y
  <2> HIDE DEF T
  <2> QED BY <1>1, LeastNumber
<1>3. i # 0
  <2> DEFINE g == [x \in 0..0 |-> 0]
  <2>1. Running(g, q, kind, 0) /\ g \in [0..0 -> Int]
    BY DEF Running
  <2> QED BY <2>1
<1>4. i \in 1..Len(q) /\ i - 1 \in 0..Len(q) /\ i - 1 \notin T
  BY <1>2, <1>3
<1>5. PICK f \in [0..(i - 1) -> Int] : Running(f, q, kind, i - 1)
  BY <1>4
<1>6. Part(q[i], kind) \in Int
  BY <1>4, PartIsNumber
<1> DEFINE g == [x \in 0..i |-> IF x = i THEN f[i - 1] + Part(q[i], kind) ELSE f[x]]
<1>7. \A x \in 0..(i - 1) : f[x] = IF x = 0 THEN 0 ELSE f[x - 1] + Part(q[x], kind)
  BY <1>5 DEF Running
<1>8. g \in [0..i -> Int]
  BY <1>4, <1>6
<1>9. ASSUME NEW x \in 0..i PROVE g[x] = IF x = 0 THEN 0 ELSE g[x - 1] + Part(q[x], kind)
  <2>1. CASE x = i
    BY <1>4, <2>1
  <2>2. CASE x # i
    <3>1. x \in 0..(i - 1) /\ g[x] = f[x]
      BY <2>2
    <3>2. x # 0 => g[x - 1] = f[x - 1]
      BY <2>2
    <3> QED BY <1>7, <3>1, <3>2
  <2> QED BY <2>1, <2>2
<1>10. Running(g, q, kind, i)
  <2> HIDE DEF g
  <2> QED BY <1>8, <1>9 DEF Running
<1> QED BY <1>8, <1>10

\* SumOf is the last of the sums, however they are come by.
LEMMA SumIsLast ==
  ASSUME NEW q \in Seq(Message), NEW kind \in Kinds, NEW f, Running(f, q, kind, Len(q))
  PROVE  SumOf(q, kind) = f[Len(q)]
<1> DEFINE s == CHOOSE g : Running(g, q, kind, Len(q))
<1>1. Running(s, q, kind, Len(q))
  BY Zenon
<1>2. SumOf(q, kind) = s[Len(q)]
  BY Zenon DEF SumOf, Running
<1> HIDE DEF s
<1>3. Len(q) \in Nat /\ Len(q) <= Len(q)
  OBVIOUS
<1>4. s[Len(q)] = f[Len(q)]
  <2>1. \A x \in 0..Len(q) : s[x] = f[x]
    BY <1>1, <1>3, SumsAgree
  <2> QED BY <1>3, <2>1
<1> QED BY <1>2, <1>4

\* An empty queue adds up to nothing.
LEMMA SumOfNothing == \A kind \in Kinds : SumOf(<<>>, kind) = 0
<1> TAKE kind \in Kinds
<1>1. PICK f \in [0..0 -> Int] : Running(f, <<>>, kind, 0)
  <2>1. <<>> \in Seq(Message) /\ Len(<<>>) = 0 /\ 0 \in 0..Len(<<>>)
    OBVIOUS
  <2> QED BY <2>1, SumsExist
<1>2. f[0] = 0
  BY <1>1 DEF Running
<1> QED BY <1>1, <1>2, SumIsLast

\* Every sum is a number.
LEMMA SumIsNumber == \A q \in Seq(Message), kind \in Kinds : SumOf(q, kind) \in Int
<1> TAKE q \in Seq(Message), kind \in Kinds
<1>1. Len(q) \in 0..Len(q)
  OBVIOUS
<1>2. PICK f \in [0..Len(q) -> Int] : Running(f, q, kind, Len(q))
  BY <1>1, SumsExist
<1> QED BY <1>1, <1>2, SumIsLast

\* One message more adds its part.
LEMMA SumOfAppend ==
  \A q \in Seq(Message), m \in Message, kind \in Kinds :
    SumOf(Append(q, m), kind) = SumOf(q, kind) + Part(m, kind)
<1> TAKE q \in Seq(Message), m \in Message, kind \in Kinds
<1> DEFINE r == Append(q, m)
<1>1. /\ r \in Seq(Message) /\ Len(r) = Len(q) + 1 /\ Len(q) \in Nat
      /\ r[Len(q) + 1] = m /\ \A x \in 1..Len(q) : q[x] = r[x]
  OBVIOUS
<1> HIDE DEF r
<1>2. PICK f : Running(f, q, kind, Len(q))
  BY <1>1, SumsExist
<1>3. PICK g : Running(g, r, kind, Len(r))
  BY <1>1, SumsExist
<1>4. f[Len(q)] = g[Len(q)]
  <2>1. Len(q) <= Len(q) /\ Len(q) <= Len(r) /\ Len(q) \in Nat /\ Len(r) \in Nat
    BY <1>1
  <2>2. \A x \in 1..Len(q) : q[x] = r[x]
    BY <1>1
  <2>3. \A x \in 0..Len(q) : f[x] = g[x]
    BY <1>1, <1>2, <1>3, <2>1, <2>2, SumsAgree
  <2> QED BY <2>1, <2>3
<1>5. g[Len(r)] = g[Len(q)] + Part(m, kind)
  BY <1>1, <1>3 DEF Running
<1>6. SumOf(q, kind) = f[Len(q)] /\ SumOf(r, kind) = g[Len(r)]
  BY <1>1, <1>2, <1>3, SumIsLast
<1> QED BY <1>4, <1>5, <1>6 DEF r

\* The first message has its part in the sum.
LEMMA SumOfTail ==
  \A q \in Seq(Message), kind \in Kinds :
    q # <<>> => SumOf(q, kind) = Part(Head(q), kind) + SumOf(Tail(q), kind)
<1> TAKE q \in Seq(Message), kind \in Kinds
<1> SUFFICES ASSUME q # <<>>
             PROVE  SumOf(q, kind) = Part(Head(q), kind) + SumOf(Tail(q), kind)
  OBVIOUS
<1> DEFINE t == Tail(q)
           p == Part(Head(q), kind)
<1>1. /\ t \in Seq(Message) /\ Len(q) = Len(t) + 1 /\ Len(t) \in Nat
      /\ \A i \in 1..Len(t) : t[i] = q[i + 1]
  BY HeadTailProperties
<1>2. p = Part(q[1], kind) /\ p \in Int
  BY HeadTailProperties, PartIsNumber
<1> HIDE DEF t, p
<1>3. PICK f \in [0..Len(q) -> Int] : Running(f, q, kind, Len(q))
  BY <1>1, SumsExist
<1> DEFINE g == [i \in 0..Len(t) |-> f[i + 1] - p]
<1>4. \A i \in 0..Len(q) : f[i] \in Int
  OBVIOUS
<1>5. \A i \in 1..Len(q) : f[i] = f[i - 1] + Part(q[i], kind)
  BY <1>3 DEF Running
<1>6. f[0] = 0 /\ f[1] = p
  BY <1>1, <1>2, <1>3, <1>5 DEF Running
<1>7. \A i \in 0..Len(t) : g[i] = IF i = 0 THEN 0 ELSE g[i - 1] + Part(t[i], kind)
  <2> TAKE i \in 0..Len(t)
  <2>1. CASE i = 0
    BY <1>2, <1>6, <2>1
  <2>2. CASE i # 0
    <3>1. f[i + 1] = f[i] + Part(t[i], kind)
      <4>1. i + 1 \in 1..Len(q) /\ (i + 1) - 1 = i /\ t[i] = q[i + 1]
        BY <1>1, <2>2
      <4> QED BY <1>5, <4>1
    <3>2. g[i - 1] = f[i] - p
      BY <1>1, <2>2
    <3>3. f[i] \in Int /\ Part(t[i], kind) \in Int
      <4>1. i \in 0..Len(q) /\ i \in 1..Len(t)
        BY <1>1, <2>2
      <4>2. t[i] \in Message
        BY <1>1, <4>1
      <4> QED BY <1>4, <4>1, <4>2, PartIsNumber
    <3> QED BY <1>2, <2>2, <3>1, <3>2, <3>3
  <2> QED BY <2>1, <2>2
<1>8. Running(g, t, kind, Len(t))
  <2>1. g = [i \in 0..Len(t) |-> g[i]]
    OBVIOUS
  <2> HIDE DEF g
  <2> QED BY <1>7, <2>1 DEF Running
<1>9. SumOf(t, kind) = f[Len(q)] - p
  BY <1>1, <1>8, SumIsLast
<1>10. SumOf(q, kind) = f[Len(q)]
  BY <1>3, SumIsLast
<1> QED BY <1>1, <1>2, <1>4, <1>9, <1>10 DEF t, p

\* A word is read back as the movement that was put into it.
LEMMA WordsAreSigned == \A w \in Wheels : w \in Int /\ AsI16(Word(w)) = w
<1> TAKE w \in Wheels
<1>1. w \in Int /\ WordSize \in Nat /\ -WordSize <= 2 * w /\ 2 * w < WordSize
  BY HookAssumption DEF HookAssumption
<1>2. WordSize \in Nat \ {0}
  BY <1>1
<1>3. CASE 0 <= w
  <2>1. w % WordSize = w
    BY <1>1, <1>2, <1>3
  <2> QED BY <1>1, <2>1 DEF AsI16, Word
<1>4. CASE w < 0
  <2>1. w % WordSize = w + WordSize
    BY <1>1, <1>2, <1>4
  <2> QED BY <1>1, <1>4, <2>1 DEF AsI16, Word
<1> QED BY <1>1, <1>3, <1>4

\* What division leaves over.
LEMMA Division ==
  ASSUME NEW a \in Int, NEW b \in Int, b > 0
  PROVE  /\ a \div b \in Int /\ b * (a \div b) \in Int
         /\ b * (a \div b) <= a /\ a < b * (a \div b) + b
         /\ a = (a \div b) * b + (a % b)
<1>1. a \div b \in Int /\ b * (a \div b) \in Int
  OBVIOUS
<1>2. b * (a \div b) <= a /\ a < b * (a \div b) + b
  BY SMTT(30)
<1>3. a = (a \div b) * b + (a % b)
  BY Z3T(30)
<1> QED BY <1>1, <1>2, <1>3

\* A multiple less than one is none.
LEMMA SmallMultiple ==
  ASSUME NEW b \in Nat \ {0}, NEW x \in Int, 0 <= b * x, b * x < b
  PROVE  x = 0
  BY SMTT(30)

\* An event loses less than a notch, and nothing if it is a number of notches.
LEMMA NotchesLose ==
  ASSUME NEW w \in Int
  PROVE  /\ Notches(w) \in Int /\ Notch * Notches(w) \in Int
         /\ -(Notch - 1) <= w - Notch * Notches(w) /\ w - Notch * Notches(w) <= Notch - 1
         /\ w % Notch = 0 => w = Notch * Notches(w)
<1>1. Notch \in Nat \ {0}
  BY HookAssumption DEF HookAssumption
<1>2. CASE w >= 0
  <2>1. Notches(w) = w \div Notch
    BY <1>2 DEF Notches
  <2> QED BY <1>1, <2>1, Division
<1>3. CASE w < 0
  <2> DEFINE v == -w
             q == v \div Notch
             k == w \div Notch
  <2>1. Notches(w) = -q
    BY <1>3 DEF Notches
  <2>2. /\ v \in Int /\ q \in Int /\ k \in Int /\ Notch * q \in Int
        /\ Notch * q <= v /\ v < Notch * q + Notch
    BY <1>1, Division
  <2>3. w % Notch = 0 => w = k * Notch
    BY <1>1, Division
  <2>4. v = -w
    OBVIOUS
  <2> HIDE DEF v, q, k
  <2>5. Notch * (-q) = -(Notch * q)
    BY <1>1, <2>2
  <2>6. ASSUME w % Notch = 0 PROVE v = Notch * q
    <3> DEFINE x == (-k) - q
    <3>1. Notch * x = v - Notch * q
      BY <1>1, <2>2, <2>3, <2>4, <2>6
    <3>2. x \in Int
      BY <2>2
    <3> HIDE DEF x
    <3>3. 0 <= Notch * x /\ Notch * x < Notch
      BY <1>1, <2>2, <3>1
    <3>4. x = 0
      BY <1>1, <3>2, <3>3, SmallMultiple
    <3> QED BY <1>1, <2>2, <3>1, <3>4
  <2> QED BY <1>1, <2>1, <2>2, <2>4, <2>5, <2>6
<1> QED BY <1>2, <1>3

\* The inductive invariant: the sum of the property, and why its terms are numbers.
MouseInv == MouseTypeOK /\ odd <= n /\ WheelLosesParts

\* What has happened to a kind of message is a number.
LEMMA AccountIsNumber ==
  ASSUME MouseTypeOK, NEW kind \in Kinds
  PROVE  /\ injected[kind] \in Int /\ discarded[kind] \in Int
         /\ SumOf(link, kind) \in Int /\ SumOf(chan, kind) \in Int
         /\ Accounted(kind) \in Int
<1>1. SumOf(link, kind) \in Int /\ SumOf(chan, kind) \in Int
  BY SumIsNumber DEF MouseTypeOK, HookTypeOK
<1>2. injected[kind] \in Int /\ discarded[kind] \in Int
  BY DEF MouseTypeOK
<1> QED BY <1>1, <1>2 DEF Accounted

\* Before the first event the invariant holds.
LEMMA MouseInitEstablishes == MouseInit => MouseInv
<1> SUFFICES ASSUME MouseInit PROVE MouseInv
  OBVIOUS
<1>1. MouseTypeOK
  <2>1. HookTypeOK
    <3>1. chan = <<>> /\ chan \in Seq(Message) /\ Len(chan) = 0
      BY DEF MouseInit, HookInit
    <3>2. Len(chan) <= ChanCap
      BY <3>1, HookAssumption DEF HookAssumption
    <3> QED BY <3>1, <3>2 DEF MouseInit, HookInit, HookTypeOK
  <2>2. injected \in [Kinds -> Int] /\ discarded \in [Kinds -> Int]
    BY DEF MouseInit
  <2>3. link \in Seq(Message)
    BY DEF MouseInit
  <2>4. n \in 0..MaxEvents /\ odd \in 0..MaxEvents
    BY MousePathAssumption DEF MousePathAssumption, MouseInit
  <2>5. wheel = 0 /\ lossy \in BOOLEAN
    BY DEF MouseInit
  <2> QED BY <2>1, <2>2, <2>3, <2>4, <2>5 DEF MouseTypeOK
<1>2. \A kind \in Kinds : Accounted(kind) = 0
  BY SumOfNothing DEF MouseInit, HookInit, Accounted
<1>3. WheelLosesParts
  BY <1>2, HookAssumption DEF HookAssumption, WheelLosesParts, MouseInit, Kinds
<1> QED BY <1>1, <1>2, <1>3 DEF MouseInv, MouseInit, HookInit, Kinds

\* What has happened to the messages decides, with the wheel, whether a step keeps the
\* invariant.
LEMMA SameAccounts ==
  ASSUME MouseInv, MouseTypeOK',
         \A kind \in Kinds : lossy' \/ Accounted(kind)' = Accounted(kind),
         UNCHANGED <<wheel, odd>>, odd <= n', lossy => lossy'
  PROVE  MouseInv'
<1>1. "wheel" \in Kinds
  BY DEF Kinds
<1>2. WheelLosesParts'
  BY <1>1 DEF MouseInv, WheelLosesParts
<1> QED BY <1>2 DEF MouseInv

\* The user moves the mouse: nothing about the wheel is queued.
LEMMA MovesKeepMouseInv ==
  ASSUME MouseInv, NEW d \in Moves, UserMoves(d)
  PROVE  MouseInv'
<1> USE DEF MouseInv
<1>1. PICK pt \in Reported(d) : MoveTo(pt)
  BY DEF UserMoves, HookMove
<1>2. /\ cursor \in Int /\ d \in Int /\ Nowhere \notin Int
      /\ Width \in Nat /\ ChanCap \in Nat \ {0}
  BY HookAssumption DEF HookAssumption, MouseTypeOK, HookTypeOK
<1>3. \A x \in Int : Clip(x) \in 0..Width
  BY <1>2 DEF Clip
<1>4. pt \in Int
  BY <1>2, <1>3 DEF Reported
<1>5. /\ last' = pt /\ UNCHANGED <<grabbed, link, injected, discarded, wheel, odd>>
      /\ n' = n + 1 /\ n < MaxEvents /\ lossy' = (lossy \/ Dropped)
  BY <1>1 DEF MoveTo, UserMoves, UserActs
<1>6. cursor' \in 0..Width
  BY <1>1, <1>3, <1>4 DEF MoveTo, MouseTypeOK, HookTypeOK
<1> DEFINE m == [kind |-> "move", delta |-> pt - last]
<1>7. CASE last = Nowhere
  <2>1. chan' = chan
    BY <1>1, <1>7 DEF MoveTo
  <2>2. MouseTypeOK'
    BY <1>2, <1>4, <1>5, <1>6, <1>7, <2>1, MousePathAssumption
       DEF MousePathAssumption, MouseTypeOK, HookTypeOK
  <2>3. \A kind \in Kinds : Accounted(kind)' = Accounted(kind)
    BY <1>5, <2>1 DEF Accounted
  <2>4. WheelLosesParts'
    BY <1>5, <2>3 DEF WheelLosesParts, Kinds, Dropped
  <2>5. (odd <= n)'
    BY <1>5 DEF MouseTypeOK
  <2> QED BY <2>2, <2>4, <2>5
<1>8. CASE last # Nowhere
  <2>1. last \in Int
    BY <1>2, <1>8 DEF MouseTypeOK, HookTypeOK
  <2>2. m \in Message /\ m.kind = "move" /\ m.delta = pt - last
    BY <1>4, <2>1 DEF Message
  <2>3. chan' = IF Len(chan) < ChanCap THEN Append(chan, m) ELSE chan
    BY <1>1, <1>8 DEF MoveTo, TrySend
  <2> HIDE DEF m
  <2>4. chan \in Seq(Message) /\ Len(chan) \in Nat /\ Len(chan) <= ChanCap
    BY DEF MouseTypeOK, HookTypeOK
  <2>5. chan' \in Seq(Message) /\ Len(chan') <= ChanCap
    BY <1>2, <2>2, <2>3, <2>4
  <2>6. MouseTypeOK'
    BY <1>2, <1>4, <1>5, <1>6, <2>1, <2>5, MousePathAssumption
       DEF MousePathAssumption, MouseTypeOK, HookTypeOK
  <2>7. ASSUME ~lossy' PROVE ~lossy /\ chan' = Append(chan, m)
    <3>1. ~lossy /\ ~Dropped
      BY <1>5, <2>7
    <3>2. Len(chan) < ChanCap
      BY <1>2, <1>8, <2>4, <3>1 DEF Dropped
    <3> QED BY <2>3, <3>1, <3>2
  <2>8. ASSUME ~lossy', NEW kind \in Kinds
        PROVE  Accounted(kind)' = Accounted(kind) + Part(m, kind)
    <3>1. SumOf(chan, kind)' = SumOf(chan, kind) + Part(m, kind)
      BY <2>2, <2>4, <2>7, <2>8, SumOfAppend
    <3>2. Part(m, kind) \in Int
      BY <2>2, PartIsNumber
    <3> QED BY <1>5, <3>1, <3>2, AccountIsNumber DEF Accounted
  <2>9. Part(m, "wheel") = 0 /\ "wheel" \in Kinds /\ Accounted("wheel") \in Int
    BY <2>2, AccountIsNumber DEF Part, Kinds
  <2>10. ASSUME ~lossy' PROVE Accounted("wheel")' = Accounted("wheel")
    BY <2>8, <2>9, <2>10
  <2>11. WheelLosesParts'
    BY <1>5, <2>7, <2>10 DEF WheelLosesParts
  <2>12. (odd <= n)'
    BY <1>5 DEF MouseTypeOK
  <2> QED BY <2>6, <2>11, <2>12
<1> QED BY <1>7, <1>8

\* The user turns the wheel: less than a notch of the movement is lost.
LEMMA WheelKeepsMouseInv ==
  ASSUME MouseInv, NEW w \in Wheels, UserScrolls(w)
  PROVE  MouseInv'
<1> USE DEF MouseInv
<1> DEFINE N == Notches(w)
           m == [kind |-> "wheel", delta |-> N]
<1>1. /\ UNCHANGED <<cursor, last, grabbed, link, injected, discarded>>
      /\ n' = n + 1 /\ n < MaxEvents /\ lossy' = (lossy \/ Len(chan) = ChanCap)
      /\ wheel' = wheel + w /\ odd' = IF w % Notch = 0 THEN odd ELSE odd + 1
  BY DEF UserScrolls, UserActs, HookWheel
<1>2. chan' = IF Len(chan) < ChanCap THEN Append(chan, m) ELSE chan
  BY WordsAreSigned DEF UserScrolls, HookWheel, TrySend
<1>3. /\ w \in Int /\ N \in Int /\ Notch * N \in Int
      /\ -(Notch - 1) <= w - Notch * N /\ w - Notch * N <= Notch - 1
      /\ w % Notch = 0 => w = Notch * N
  BY WordsAreSigned, NotchesLose
<1> HIDE DEF N
<1>4. m \in Message /\ m.kind = "wheel" /\ m.delta = N
  BY <1>3 DEF Message
<1> HIDE DEF m
<1>5. /\ chan \in Seq(Message) /\ Len(chan) \in Nat /\ Len(chan) <= ChanCap
      /\ wheel \in Int /\ odd \in Nat /\ n \in Nat /\ n' \in 0..MaxEvents
      /\ ChanCap \in Nat /\ Notch \in Nat \ {0} /\ MaxEvents \in Nat
  BY <1>1, HookAssumption, MousePathAssumption
     DEF HookAssumption, MousePathAssumption, MouseTypeOK, HookTypeOK
<1>6. odd' \in Nat /\ odd' <= n' /\ odd' \in 0..MaxEvents
  BY <1>1, <1>5
<1>7. MouseTypeOK'
  <2>1. chan' \in Seq(Message) /\ Len(chan') <= ChanCap
    BY <1>2, <1>4, <1>5
  <2>2. HookTypeOK'
    BY <1>1, <2>1 DEF HookTypeOK, MouseTypeOK
  <2>3. wheel' \in Int /\ lossy' \in BOOLEAN
    BY <1>1, <1>3, <1>5
  <2> QED BY <1>1, <1>5, <1>6, <2>2, <2>3 DEF MouseTypeOK
<1>8. ASSUME ~lossy' PROVE ~lossy /\ chan' = Append(chan, m)
  <2>1. ~lossy /\ Len(chan) # ChanCap
    BY <1>1, <1>8
  <2>2. Len(chan) < ChanCap
    BY <1>5, <2>1
  <2> QED BY <1>2, <2>1, <2>2
<1>9. ASSUME ~lossy', NEW kind \in Kinds
      PROVE  Accounted(kind)' = Accounted(kind) + Part(m, kind)
  <2>1. SumOf(chan, kind)' = SumOf(chan, kind) + Part(m, kind)
    BY <1>4, <1>5, <1>8, <1>9, SumOfAppend
  <2>2. Part(m, kind) \in Int
    BY <1>4, PartIsNumber
  <2> QED BY <1>1, <2>1, <2>2, AccountIsNumber DEF Accounted
<1>10. Part(m, "wheel") = N
  BY <1>4 DEF Part
<1>11. "wheel" \in Kinds /\ Accounted("wheel") \in Int
  BY AccountIsNumber DEF Kinds
<1>12. WheelLosesParts'
  <2> SUFFICES ASSUME ~lossy' PROVE WheelLosesParts'
    BY DEF WheelLosesParts
  <2> DEFINE A == Accounted("wheel")
             lost == wheel - Notch * A
             most == odd * (Notch - 1)
  <2>1. -most <= lost /\ lost <= most
    BY <1>8 DEF WheelLosesParts
  <2>2. A \in Int /\ Accounted("wheel")' = A + N
    BY <1>9, <1>10, <1>11
  <2> HIDE DEF A
  <2>3. Notch * A \in Int /\ Notch * (A + N) = Notch * A + Notch * N
    BY <1>3, <1>5, <2>2
  <2>4. most \in Int /\ lost \in Int
    BY <1>5, <2>2, <2>3
  <2>5. (odd + 1) * (Notch - 1) = odd * (Notch - 1) + (Notch - 1)
    BY <1>5
  <2>6. wheel' - Notch * (A + N) = lost + (w - Notch * N)
    BY <1>1, <1>3, <1>5, <2>3
  <2> DEFINE most2 == odd' * (Notch - 1)
             lost2 == wheel' - Notch * (A + N)
  <2>7. -most2 <= lost2 /\ lost2 <= most2
    <3>1. CASE w % Notch = 0
      <4>1. most2 = most /\ lost2 = lost
        BY <1>1, <1>3, <2>4, <2>6, <3>1
      <4> QED BY <2>1, <4>1
    <3>2. CASE w % Notch # 0
      <4>1. most2 = most + (Notch - 1)
        BY <1>1, <2>5, <3>2
      <4>2. lost2 = lost + (w - Notch * N)
        BY <2>6
      <4> HIDE DEF most2, lost2, most, lost
      <4> QED BY <1>3, <1>5, <2>1, <2>4, <4>1, <4>2
    <3> QED BY <3>1, <3>2
  <2> QED BY <2>2, <2>7 DEF WheelLosesParts
<1> QED BY <1>6, <1>7, <1>12

\* The hotkey moves no message.
LEMMA TogglesKeepMouseInv == MouseInv /\ UserToggles => MouseInv'
<1> SUFFICES ASSUME MouseInv, UserToggles PROVE MouseInv'
  OBVIOUS
<1>1. MouseTypeOK'
  BY MousePathAssumption
     DEF MousePathAssumption, MouseInv, UserToggles, UserActs, HotKey, MouseTypeOK, HookTypeOK
<1>2. \A kind \in Kinds : Accounted(kind)' = Accounted(kind)
  BY DEF UserToggles, UserActs, HotKey, Accounted
<1>3. odd <= n'
  BY DEF MouseInv, MouseTypeOK, UserToggles, UserActs
<1> QED BY <1>1, <1>2, <1>3, SameAccounts DEF UserToggles, HotKey

\* The loop takes a message and sends it on, or drops it.
LEMMA LoopKeepsMouseInv == MouseInv /\ LoopRecv => MouseInv'
<1> SUFFICES ASSUME MouseInv, LoopRecv PROVE MouseInv'
  OBVIOUS
<1> USE DEF MouseInv
<1> DEFINE m == Head(chan)
<1>1. chan \in Seq(Message) /\ chan # <<>> /\ chan' = Tail(chan) /\ link \in Seq(Message)
  BY DEF LoopRecv, MouseTypeOK, HookTypeOK
<1>2. /\ m \in Message /\ chan' \in Seq(Message)
      /\ Len(chan') = Len(chan) - 1 /\ Len(chan) \in Nat
  BY <1>1, HeadTailProperties
<1>3. UNCHANGED <<cursor, last, grabbed, injected, n, wheel, odd, lossy>>
  BY DEF LoopRecv
<1>4. \/ link' = Append(link, m) /\ discarded' = discarded
      \/ discarded' = [discarded EXCEPT ![m.kind] = @ + m.delta] /\ link' = link
  BY DEF LoopRecv
<1>5. \A kind \in Kinds : SumOf(chan, kind) = Part(m, kind) + SumOf(chan', kind)
  BY <1>1, SumOfTail
<1>6. \A kind \in Kinds : Part(m, kind) \in Int /\ SumOf(chan', kind) \in Int
  BY <1>2, PartIsNumber, SumIsNumber
<1>7. m.kind \in Kinds /\ m.delta \in Int
  BY <1>2 DEF Message, Kinds
<1> HIDE DEF m
<1>8. link' \in Seq(Message)
  <2>1. Append(link, m) \in Seq(Message)
    BY <1>1, <1>2, AppendProperties
  <2> QED BY <1>1, <1>4, <2>1
<1>9. \A kind \in Kinds : Accounted(kind)' = Accounted(kind)
  <2> TAKE kind \in Kinds
  <2>1. SumOf(link, kind)' + discarded[kind]'
          = SumOf(link, kind) + discarded[kind] + Part(m, kind)
    <3>1. CASE link' = Append(link, m) /\ discarded' = discarded
      <4>1. SumOf(link', kind) = SumOf(link, kind) + Part(m, kind)
        BY <1>1, <1>2, <3>1, SumOfAppend DEF m
      <4> QED BY <1>6, <3>1, <4>1, AccountIsNumber
    <3>2. CASE discarded' = [discarded EXCEPT ![m.kind] = @ + m.delta] /\ link' = link
      <4>1. discarded'[kind] = discarded[kind] + Part(m, kind)
        BY <1>7, <3>2, AccountIsNumber DEF Part, MouseTypeOK
      <4> QED BY <1>6, <3>2, <4>1, AccountIsNumber
    <3> QED BY <1>4, <3>1, <3>2
  <2>2. SumOf(link, kind)' \in Int /\ discarded[kind]' \in Int
    <3>1. SumOf(link, kind)' \in Int
      BY <1>8, SumIsNumber
    <3>2. discarded[kind]' \in Int
      BY <1>4, <1>7 DEF MouseTypeOK
    <3> QED BY <3>1, <3>2
  <2> DEFINE l == SumOf(link, kind)
             l2 == SumOf(link, kind)'
             c == SumOf(chan, kind)
             c2 == SumOf(chan', kind)
             d == discarded[kind]
             d2 == discarded[kind]'
             p == Part(m, kind)
             i == injected[kind]
  <2>3. /\ l \in Int /\ l2 \in Int /\ c \in Int /\ c2 \in Int /\ d \in Int /\ d2 \in Int
        /\ p \in Int /\ i \in Int
        /\ l2 + d2 = l + d + p /\ c = p + c2
    BY <1>5, <1>6, <2>1, <2>2, AccountIsNumber
  <2>4. /\ Accounted(kind)' = i + l2 + d2 + c2
        /\ Accounted(kind) = i + l + d + c
    BY <1>3 DEF Accounted
  <2> HIDE DEF l, l2, c, c2, d, d2, p, i
  <2>5. i + l2 + d2 + c2 = i + l + d + c
    BY <2>3
  <2> QED BY <2>4, <2>5
<1>10. MouseTypeOK'
  <2>1. discarded' \in [Kinds -> Int]
    BY <1>4, <1>7 DEF MouseTypeOK
  <2>2. Len(chan') <= ChanCap
    BY <1>2, HookAssumption DEF HookAssumption, MouseTypeOK, HookTypeOK
  <2> QED BY <1>2, <1>3, <1>8, <2>1, <2>2 DEF MouseTypeOK, HookTypeOK
<1>11. odd <= n'
  BY <1>3
<1> QED BY <1>3, <1>9, <1>10, <1>11, SameAccounts

\* The client injects a message, or fails to.
LEMMA InjectKeepsMouseInv == MouseInv /\ InjectMouse => MouseInv'
<1> SUFFICES ASSUME MouseInv, InjectMouse PROVE MouseInv'
  OBVIOUS
<1> USE DEF MouseInv
<1> DEFINE m == Head(link)
<1>1. link \in Seq(Message) /\ link # <<>> /\ link' = Tail(link)
  BY DEF InjectMouse, MouseTypeOK
<1>2. m \in Message /\ link' \in Seq(Message)
  BY <1>1, HeadTailProperties
<1>3. UNCHANGED <<cursor, last, grabbed, chan, n, discarded, wheel, odd>>
  BY DEF InjectMouse, hookVars
<1>4. \/ injected' = [injected EXCEPT ![m.kind] = @ + m.delta] /\ lossy' = lossy
      \/ lossy' = TRUE /\ injected' = injected
  BY DEF InjectMouse
<1>5. \A kind \in Kinds : SumOf(link, kind) = Part(m, kind) + SumOf(link', kind)
  BY <1>1, SumOfTail
<1>6. \A kind \in Kinds : Part(m, kind) \in Int /\ SumOf(link', kind) \in Int
  BY <1>2, PartIsNumber, SumIsNumber
<1>7. m.kind \in Kinds /\ m.delta \in Int
  BY <1>2 DEF Message, Kinds
<1> HIDE DEF m
<1>8. \A kind \in Kinds : lossy' \/ Accounted(kind)' = Accounted(kind)
  <2> TAKE kind \in Kinds
  <2>1. CASE injected' = [injected EXCEPT ![m.kind] = @ + m.delta] /\ lossy' = lossy
    <3>1. injected'[kind] = injected[kind] + Part(m, kind)
      BY <1>7, <2>1, AccountIsNumber DEF Part, MouseTypeOK
    <3> QED BY <1>3, <1>5, <1>6, <3>1, AccountIsNumber DEF Accounted
  <2>2. CASE lossy' = TRUE /\ injected' = injected
    BY <2>2
  <2> QED BY <1>4, <2>1, <2>2
<1>9. MouseTypeOK'
  <2>1. injected' \in [Kinds -> Int]
    BY <1>4, <1>7 DEF MouseTypeOK
  <2>2. lossy' \in BOOLEAN
    BY <1>4 DEF MouseTypeOK
  <2> QED BY <1>2, <1>3, <2>1, <2>2 DEF MouseTypeOK, HookTypeOK
<1>10. odd <= n' /\ (lossy => lossy')
  BY <1>3, <1>4
<1> QED BY <1>3, <1>8, <1>9, <1>10, SameAccounts

\* Every step keeps it.
LEMMA MouseNextPreserves == MouseInv /\ [MouseNext]_mouseVars => MouseInv'
<1> SUFFICES ASSUME MouseInv, [MouseNext]_mouseVars PROVE MouseInv'
  OBVIOUS
<1>1. CASE UNCHANGED mouseVars
  <2>1. UNCHANGED <<cursor, last, grabbed, chan, link, injected, n, discarded,
                    wheel, odd, lossy>>
    BY <1>1 DEF mouseVars, pathVars, hookVars
  <2>2. MouseTypeOK' /\ odd <= n'
    BY <2>1 DEF MouseInv, MouseTypeOK, HookTypeOK
  <2>3. \A kind \in Kinds : Accounted(kind)' = Accounted(kind)
    BY <2>1 DEF Accounted
  <2> QED BY <2>1, <2>2, <2>3, SameAccounts
<1>2. CASE MouseNext
  BY <1>2, MovesKeepMouseInv, WheelKeepsMouseInv, TogglesKeepMouseInv, LoopKeepsMouseInv,
     InjectKeepsMouseInv DEF MouseNext
<1> QED BY <1>1, <1>2

\* So it always holds.
LEMMA MouseInvHolds == MouseSpec => []MouseInv
  BY MouseInitEstablishes, MouseNextPreserves, PTL DEF MouseSpec

\* Only motions and wheel movements are on their way, and the channel is never too full.
THEOREM MouseTypeCorrect == MouseSpec => []MouseTypeOK
<1>1. MouseInv => MouseTypeOK
  BY DEF MouseInv
<1> QED BY <1>1, MouseInvHolds, PTL

\* However the grab comes and goes, and whatever else is queued, the wheel of the client
\* loses only parts of notches (WheelLosesParts).
THEOREM WheelIsKept == MouseSpec => []WheelLosesParts
<1>1. MouseInv => WheelLosesParts
  BY DEF MouseInv
<1> QED BY <1>1, MouseInvHolds, PTL

-------------------------------------------------------------------------------
(* TestCapture, and all four side by side. *)

\* The inductive invariant of the test session: as long as nobody has interfered, the
\* cursor is where it was, or a step further while an injected motion is to be undone.
TestInv ==
  /\ Test!TypeOK
  /\ alone => /\ grabbed = FALSE
              /\ start + Step <= Width =>
                   cursor = IF injections > 0 /\ injections % 2 = 1 THEN start + Step ELSE start

\* A motion of the test session goes through the hook, or past it.
LEMMA MotionMoves ==
  ASSUME Test!HookTypeOK, NEW d \in Int, Test!Motion(d)
  PROVE  /\ Test!HookTypeOK' /\ grabbed' = grabbed
         /\ ~grabbed => cursor' = Clip(cursor + d)
<1>1. /\ cursor \in Int /\ cursor \in 0..Width /\ Nowhere \notin Int
      /\ Width \in Nat /\ ChanCap \in Nat \ {0}
  BY HookAssumption DEF HookAssumption, Test!HookTypeOK
<1>2. \A x \in Int : Clip(x) \in 0..Width /\ Clip(Clip(x)) = Clip(x)
  BY <1>1 DEF Clip
<1>3. CASE hooks = "on"
  <2>1. PICK pt \in Test!Reported(d) : Test!MoveTo(pt)
    BY <1>3 DEF Test!Motion, Test!HookMove
  <2>2. pt \in {cursor + d, Clip(cursor + d)}
    BY <2>1 DEF Test!Reported, Test!Clip, Clip
  <2>3. pt \in Int /\ Clip(pt) = Clip(cursor + d) /\ Clip(pt) \in 0..Width
    BY <1>1, <1>2, <2>2
  <2>4. last' = pt /\ cursor' = (IF grabbed THEN cursor ELSE Clip(pt)) /\ grabbed' = grabbed
    BY <2>1 DEF Test!MoveTo, Test!Clip, Clip
  <2>5. chan' \in Seq(Message) /\ Len(chan') <= ChanCap
    <3>1. chan \in Seq(Message) /\ Len(chan) <= ChanCap
      BY DEF Test!HookTypeOK, Test!Message, Message
    <3>2. CASE last = Nowhere
      BY <2>1, <3>1, <3>2 DEF Test!MoveTo
    <3>3. CASE last # Nowhere
      <4> DEFINE m == [kind |-> "move", delta |-> pt - last]
      <4>1. m \in Message
        BY <2>3, <3>3 DEF Test!HookTypeOK, Message
      <4>2. chan' = IF Len(chan) < ChanCap THEN Append(chan, m) ELSE chan
        BY <2>1, <3>3 DEF Test!MoveTo, Test!TrySend
      <4> HIDE DEF m
      <4> QED BY <1>1, <3>1, <4>1, <4>2
    <3> QED BY <3>2, <3>3
  <2> QED BY <1>1, <2>3, <2>4, <2>5 DEF Test!HookTypeOK, Test!Message, Message
<1>4. CASE hooks # "on"
  <2>1. cursor' = Clip(cursor + d) /\ UNCHANGED <<last, grabbed, chan>>
    BY <1>4 DEF Test!Motion, Test!Clip, Clip
  <2> QED BY <1>1, <1>2, <2>1 DEF Test!HookTypeOK
<1> QED BY <1>3, <1>4

\* Every step of the test session keeps it.
LEMMA TestNextPreserves == TestInv /\ Test!Next => TestInv'
<1> SUFFICES ASSUME TestInv, Test!Next PROVE TestInv'
  OBVIOUS
<1> USE DEF TestInv
<1>1. /\ Width \in Nat /\ ChanCap \in Nat \ {0} /\ Moves \subseteq Int
      /\ Rounds \in Nat /\ Step \in Nat \ {0}
  BY HookAssumption, MCTestAssumption DEF HookAssumption, Test!TestAssumption
<1>2. ASSUME NEW d \in Moves, Test!UserMoves(d) PROVE TestInv'
  <2>1. Test!HookTypeOK'
    BY <1>1, <1>2, MotionMoves DEF Test!UserMoves, Test!TypeOK
  <2> QED BY <1>2, <2>1 DEF Test!UserMoves, Test!TypeOK
<1>3. ASSUME Test!UserToggles PROVE TestInv'
  BY <1>3 DEF Test!UserToggles, Test!HotKey, Test!TypeOK, Test!HookTypeOK
<1>4. ASSUME Test!Injects PROVE TestInv'
  <2> DEFINE d == IF injections % 2 = 0 THEN Step ELSE -Step
  <2>1. d \in Int /\ injections \in 0..(2 * Rounds - 1) /\ injections' = injections + 1
        /\ Test!Motion(d) /\ UNCHANGED <<hooks, pc, late, start, alone>>
    BY <1>1, <1>4 DEF Test!Injects
  <2>2. /\ Test!HookTypeOK' /\ grabbed' = grabbed
        /\ ~grabbed => cursor' = Clip(cursor + d)
    <3> HIDE DEF d
    <3> QED BY <2>1, MotionMoves DEF Test!TypeOK
  <2>3. Test!TypeOK'
    BY <1>1, <2>1, <2>2 DEF Test!TypeOK
  <2>4. start \in 0..Width
    BY DEF Test!TypeOK
  <2>5. ASSUME alone, start + Step <= Width
        PROVE  cursor' = IF injections' > 0 /\ injections' % 2 = 1 THEN start + Step ELSE start
    <3>1. cursor' = Clip(cursor + d)
      BY <2>2, <2>5
    <3>2. CASE injections % 2 = 0
      <4>1. cursor = start /\ d = Step /\ injections' > 0 /\ injections' % 2 = 1
        BY <2>1, <2>5, <3>2
      <4> QED BY <1>1, <2>4, <2>5, <3>1, <4>1 DEF Clip
    <3>3. CASE injections % 2 # 0
      <4>1. injections % 2 = 1 /\ injections > 0 /\ injections' % 2 = 0
        BY <2>1, <3>3
      <4>2. cursor = start + Step /\ d = -Step
        BY <2>5, <4>1
      <4> QED BY <1>1, <2>4, <2>5, <3>1, <4>1, <4>2 DEF Clip
    <3> QED BY <3>2, <3>3
  <2> QED BY <2>1, <2>2, <2>3, <2>5
<1>5. ASSUME Test!Received PROVE TestInv'
  <2>1. Test!HookTypeOK'
    <3>1. chan \in Seq(Message) /\ chan # <<>> /\ chan' = Tail(chan) /\ Len(chan) <= ChanCap
      BY <1>5 DEF Test!Received, Test!TypeOK, Test!HookTypeOK, Test!Message, Message
    <3>2. chan' \in Seq(Message) /\ Len(chan') = Len(chan) - 1 /\ Len(chan) \in Nat
      BY <3>1, HeadTailProperties
    <3>3. Len(chan') <= ChanCap
      BY <1>1, <3>1, <3>2
    <3> QED BY <1>5, <3>2, <3>3
            DEF Test!Received, Test!TypeOK, Test!HookTypeOK, Test!Message, Message
  <2> QED BY <1>5, <2>1 DEF Test!Received, Test!TypeOK
<1>6. ASSUME \/ Test!Installed \/ Test!CaptureFails \/ Test!Deadline \/ Test!Check
             \/ Test!TimedOut \/ Test!SenderGone \/ Test!Exits
      PROVE  TestInv'
  <2>1. /\ UNCHANGED <<cursor, last, grabbed, chan, injections, start, alone>>
        /\ hooks' \in {"starting", "on", "failed", "off"}
        /\ pc' \in {"check", "waiting", "done", "exited"} /\ late' \in BOOLEAN
    BY <1>6 DEF Test!Installed, Test!CaptureFails, Test!Deadline, Test!Check, Test!TimedOut,
                Test!SenderGone, Test!Exits, Test!hookVars, Test!TypeOK
  <2> QED BY <2>1 DEF Test!TypeOK, Test!HookTypeOK
<1> QED BY <1>2, <1>3, <1>4, <1>5, <1>6 DEF Test!Next

\* The inductive invariant of the behaviours side by side.  Both MousePath and TestCapture
\* have the variables of the hooks.
SideInv ==
  /\ part # "test" => MouseInv
  /\ part = "test" =>
       /\ TestInv
       /\ link = <<>> /\ n = 0 /\ odd = 0 /\ wheel = 0 /\ lossy = FALSE
       /\ injected = [k \in Kinds |-> 0] /\ discarded = [k \in Kinds |-> 0]

\* The invariant holds before anything happens.
LEMMA SideInitEstablishes == MCInit => SideInv
<1> SUFFICES ASSUME MCInit PROVE SideInv
  OBVIOUS
<1>1. MouseInit /\ Test!Init
  BY DEF MCInit
<1>2. MouseInv
  BY <1>1, MouseInitEstablishes
<1>3. TestInv
  <2>1. Test!HookTypeOK
    BY <1>2 DEF MouseInv, MouseTypeOK, HookTypeOK, Test!HookTypeOK, Message, Test!Message
  <2>2. Rounds \in Nat /\ start = cursor /\ injections \in {-1, 0} /\ grabbed = FALSE
    BY <1>1, MCTestAssumption DEF Test!TestAssumption, Test!Init, Test!HookInit
  <2>3. Test!TypeOK
    <3>1. injections \in -1..(2 * Rounds) /\ start \in 0..Width
      BY <2>1, <2>2 DEF Test!HookTypeOK
    <3>2. hooks = "starting" /\ pc = "check" /\ late = FALSE /\ alone = TRUE
      BY <1>1 DEF Test!Init
    <3> QED BY <2>1, <3>1, <3>2 DEF Test!TypeOK
  <2>4. (injections > 0 /\ injections % 2 = 1) = FALSE
    BY <2>2
  <2>5. cursor = IF injections > 0 /\ injections % 2 = 1 THEN start + Step ELSE start
    BY <2>2, <2>4
  <2> QED BY <2>2, <2>3, <2>5, Zenon DEF TestInv
<1>4. /\ link = <<>> /\ n = 0 /\ odd = 0 /\ wheel = 0 /\ lossy = FALSE
      /\ injected = [k \in Kinds |-> 0] /\ discarded = [k \in Kinds |-> 0]
  BY <1>1 DEF MouseInit
<1> QED BY <1>2, <1>3, <1>4 DEF SideInv

\* Every step of any of the four keeps it.
LEMMA SideNextPreserves == SideInv /\ [MCNext]_MCVars => SideInv'
<1> SUFFICES ASSUME SideInv, [MCNext]_MCVars PROVE SideInv'
  OBVIOUS
<1>1. CASE part # "test"
  <2>1. part' = part /\ [MouseNext]_mouseVars
    BY <1>1 DEF MCNext, MCVars
  <2>2. MouseInv'
    BY <1>1, <2>1, MouseNextPreserves DEF SideInv
  <2> QED BY <1>1, <2>1, <2>2 DEF SideInv
<1>2. CASE part = "test"
  <2>1. part' = part /\ UNCHANGED pathVars /\ (Test!Next \/ UNCHANGED <<hookVars, testVars>>)
    BY <1>2 DEF MCNext, MCVars, mouseVars
  <2>2. TestInv'
    <3>1. CASE Test!Next
      BY <1>2, <3>1, TestNextPreserves DEF SideInv
    <3>2. CASE UNCHANGED <<hookVars, testVars>>
      BY <1>2, <3>2 DEF SideInv, TestInv, Test!TypeOK, Test!HookTypeOK, hookVars, testVars
    <3> QED BY <2>1, <3>1, <3>2
  <2> QED BY <1>2, <2>1, <2>2 DEF SideInv, pathVars
<1> QED BY <1>1, <1>2

\* So it always holds.
LEMMA SideInvHolds == MCSpec => []SideInv
  BY SideInitEstablishes, SideNextPreserves, PTL DEF MCSpec

\* What holds of ConfigFile and of KeyPath holds of the behaviours of MCSideBySide.
THEOREM PartsSideBySide == MCSpec => Spec /\ KeySpec
<1>1. MCInit => Init /\ KeyInit
  BY DEF MCInit
<1>2. [MCNext]_MCVars => [Next]_vars /\ [KeyNext]_keyVars
  BY DEF MCNext, MCVars
<1> QED BY <1>1, <1>2, PTL DEF MCSpec, Spec, KeySpec

\* The types of the four modules.
THEOREM PartsTypeCorrect == MCSpec => []PartsTypeOK
<1>1. ASSUME SideInv PROVE MouseTypeOK /\ (part = "test" => Test!TypeOK)
  <2>1. CASE part # "test"
    BY <1>1, <2>1 DEF SideInv, MouseInv
  <2>2. CASE part = "test"
    <3>1. Test!TypeOK
      BY <1>1, <2>2 DEF SideInv, TestInv
    <3>2. HookTypeOK
      BY <3>1 DEF Test!TypeOK, Test!HookTypeOK, HookTypeOK, Test!Message, Message
    <3>3. injected \in [Kinds -> Int] /\ discarded \in [Kinds -> Int] /\ link \in Seq(Message)
      BY <1>1, <2>2 DEF SideInv
    <3>4. n \in 0..MaxEvents /\ odd \in 0..MaxEvents
      BY <1>1, <2>2, MousePathAssumption DEF MousePathAssumption, SideInv
    <3>5. wheel = 0 /\ lossy \in BOOLEAN
      BY <1>1, <2>2 DEF SideInv
    <3> QED BY <3>1, <3>2, <3>3, <3>4, <3>5 DEF MouseTypeOK
  <2> QED BY <2>1, <2>2
<1>2. TypeOK /\ KeyTypeOK /\ SideInv => PartsTypeOK
  BY <1>1 DEF PartsTypeOK
<1> QED BY <1>2, PartsSideBySide, SideInvHolds, TypeCorrect, KeyTypeCorrect, PTL

\* The wheel loses only parts of notches (WheelFollows), for every screen, mouse, word
\* size, notch and channel.
THEOREM WheelSumsUp == MCSpec => []WheelFollows
<1>1. SideInv => WheelFollows
  BY DEF SideInv, MouseInv, WheelFollows
<1> QED BY <1>1, SideInvHolds, PTL

\* The daemon and the clients, side by side with the others: RunsAsSaved and KeysFollow.
THEOREM FilesAndKeysSideBySide == MCSpec => [](RunsAsSaved /\ KeysFollow)
  BY PartsSideBySide, DaemonRunsAsSaved, ClientsFollowKeys, PTL

\* A self-test nobody interferes with leaves the cursor where it was, if there was room
\* for a step: the safety part of TestLeavesNothing, whenever the hooks come up.
THEOREM SelfTestReturnsCursor ==
  MCSpec => [](part = "test" /\ alone /\ injections = 2 * Rounds /\ start + Step <= Width
                 => cursor = start)
<1>1. ASSUME SideInv, part = "test", alone, injections = 2 * Rounds, start + Step <= Width
      PROVE  cursor = start
  <2>1. (2 * Rounds) % 2 = 0
    BY MCTestAssumption DEF Test!TestAssumption
  <2> QED BY <1>1, <2>1 DEF SideInv, TestInv
<1>2. SideInv => (part = "test" /\ alone /\ injections = 2 * Rounds /\ start + Step <= Width
                    => cursor = start)
  BY <1>1
<1> QED BY <1>2, SideInvHolds, PTL
===============================================================================
