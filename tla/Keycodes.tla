-------------------------------- MODULE Keycodes --------------------------------
(***************************************************************************)
(* The key tables.  A KeyEvent carries a Linux evdev code: the Windows     *)
(* capture translates a virtual key to it, the Windows injection back and  *)
(* on to a scan code, and the Linux injection emits it as it is.  The two  *)
(* tables are written out one by one in the code, and here.                *)
(***************************************************************************)
EXTENDS Naturals, Sequences, FiniteSets

\* A row of a table: the codes of successive virtual keys.
Row(vk, codes) == [vk |-> vk, codes |-> codes]

\* The entries of a table: pairs of a virtual key and a code.
Entry(r, i) == [vk |-> r.vk + i - 1, code |-> r.codes[i]]
Entries(rows) == UNION {{Entry(r, i) : i \in DOMAIN r.codes} : r \in rows}

-------------------------------------------------------------------------------
(* vk_to_evdev. *)

\* A mutant of VkModifiers: both shifts have the code of the left one.
VkModifiersMutant == Row(\hA0, <<42, 42, 29, 97, 56, 100>>)

\* Shift, Ctrl and Alt, left before right.
VkModifiers == Row(\hA0, <<42, 54, 29, 97, 56, 100>>)

VkRows == {
  Row(\h41, <<30, 48, 46, 32, 18, 33, 34, 35, 23, 36, 37, 38, 50, 49, 24, 25,
              16, 19, 31, 20, 22, 47, 17, 45, 21, 44>>),            \* A..Z
  Row(\h30, <<11, 2, 3, 4, 5, 6, 7, 8, 9, 10>>),                    \* 0..9
  Row(\h0D, <<28>>), Row(\h1B, <<1>>), Row(\h08, <<14, 15>>), Row(\h20, <<57>>),
  Row(\h25, <<105, 103, 106, 108>>),                                \* arrows
  VkModifiers, Row(\h5B, <<125, 126>>),
  Row(\h70, <<59, 60, 61, 62, 63, 64, 65, 66, 67, 68, 87, 88>>),    \* F1..F12
  Row(\h2D, <<110, 111>>), Row(\h21, <<104, 109, 107, 102>>),       \* editing
  Row(\hBA, <<39, 13, 51, 12, 52, 53, 41>>), Row(\hDB, <<26, 43, 27, 40>>),
  Row(\h14, <<58>>), Row(\h90, <<69, 70>>)}                         \* locks
VkEntries == Entries(VkRows)

VkToEvdev == [vk \in {e.vk : e \in VkEntries} |-> (CHOOSE e \in VkEntries : e.vk = vk).code]

-------------------------------------------------------------------------------
(* The Windows injection. *)

\* evdev_to_vk has no punctuation.
EvdevRows == {
  Row(\h41, <<30, 48, 46, 32, 18, 33, 34, 35, 23, 36, 37, 38, 50, 49, 24, 25,
              16, 19, 31, 20, 22, 47, 17, 45, 21, 44>>),
  Row(\h30, <<11, 2, 3, 4, 5, 6, 7, 8, 9, 10>>),
  Row(\h0D, <<28>>), Row(\h1B, <<1>>), Row(\h08, <<14, 15>>), Row(\h20, <<57>>),
  Row(\h25, <<105, 103, 106, 108>>),
  Row(\hA0, <<42, 54, 29, 97, 56, 100>>), Row(\h5B, <<125, 126>>),
  Row(\h70, <<59, 60, 61, 62, 63, 64, 65, 66, 67, 68, 87, 88>>),
  Row(\h2D, <<110, 111>>), Row(\h21, <<104, 109, 107, 102>>),
  Row(\h14, <<58>>), Row(\h90, <<69, 70>>)}
EvdevEntries == Entries(EvdevRows)

EvdevToVk ==
  [code \in {e.code : e \in EvdevEntries} |-> (CHOOSE e \in EvdevEntries : e.code = code).vk]

\* The scan code of a virtual key that several keys have is sent as extended.
IsExtendedVk(vk) ==
  vk \in \h21..\h28 \cup {\h2D, \h2E, \h6F, \h0D, \hA3, \hA5, \h5B, \h5C}

-------------------------------------------------------------------------------
(* The Linux injection. *)

\* A mutant of LinuxKeys: the keyboard of 1987.
LinuxKeysMutant == 1..88 \cup \h100..\h150

\* The key codes of the virtual device; the kernel ignores others.
LinuxKeys == 1..248 \cup \h100..\h150
===============================================================================
