--------------------------------- MODULE Layout ---------------------------------
(***************************************************************************)
(* Layout::check_edge: whether a cursor on the server's desktop leaves it  *)
(* through an edge that has a peer, and where it enters the peer's screen. *)
(* The layout comes from the configuration file, which nothing validates:  *)
(* sizes are any u32, offsets any i32, several peers may share an edge.    *)
(*                                                                         *)
(* Half is 2^31 in the code: i32 is -Half..Half-1, u32 is 0..2*Half-1.     *)
(* Integer overflow panics in a debug build and wraps around in a release  *)
(* build; i32::clamp panics in both if its bounds are the wrong way round. *)
(***************************************************************************)
EXTENDS Integers, Sequences

CONSTANTS
  Half,       \* 2^31
  Screens,    \* screens in the configurations considered
  Offsets,    \* offsets along the shared edge in them
  MaxPeers    \* number of peers in them

I32 == (-Half)..(Half - 1)
U32 == 0..(2 * Half - 1)

ASSUME LayoutAssumption ==
  /\ Half \in Nat \ {0}
  /\ Screens \subseteq [width : U32, height : U32] /\ Offsets \subseteq I32
  /\ MaxPeers \in Nat

VARIABLES
  build,      \* "debug" or "release"
  server,     \* server_screen
  peers,      \* the peers, in the order of the configuration file
  pos,        \* the cursor position asked about
  result      \* what check_edge returned for it

vars == <<build, server, peers, pos, result>>

Edges == {"Left", "Right", "Top", "Bottom"}
PeerScreen == [edge : Edges, offset : Offsets, screen : Screens]
Position == [x : I32, y : I32]

Stay == [kind |-> "Stay"]
Panic == [kind |-> "Panic"]
Crossing == [kind : {"Cross"}, peer : Nat \ {0}, entry_x : I32, entry_y : I32]

TypeOK ==
  /\ build \in {"debug", "release"}
  /\ server \in Screens
  /\ peers \in Seq(PeerScreen)
  /\ pos \in Position
  /\ result \in {Stay, Panic} \cup Crossing
  /\ result \in Crossing => result.peer \in DOMAIN peers

Init ==
  /\ build \in {"debug", "release"}
  /\ server \in Screens
  /\ \E k \in 0..MaxPeers : peers \in [1..k -> PeerScreen]
  /\ pos = [x |-> 0, y |-> 0]
  /\ result = Stay

-------------------------------------------------------------------------------
(* Machine arithmetic. *)

\* `n as i32` of a u32.
AsI32(n) == IF n < Half THEN n ELSE n - 2 * Half

\* A mutant of Wrap: integers without a width.
WrapUnboundedMutant(n) == n

\* What a release build makes of a difference of two i32.
Wrap(n) ==
  IF n < -Half THEN n + 2 * Half ELSE IF n >= Half THEN n - 2 * Half ELSE n

\* A mutant of Overflows: both builds check.
OverflowsAlwaysMutant(n) == n \notin I32

\* A difference that a debug build cannot compute.
Overflows(n) == build = "debug" /\ n \notin I32

\* i32::clamp(lo, hi), for lo <= hi.
Clamp(n, lo, hi) == IF n < lo THEN lo ELSE IF n > hi THEN hi ELSE n

-------------------------------------------------------------------------------
(* check_edge. *)

Sideways(e) == e \in {"Left", "Right"}

\* The cursor is beyond edge e of the server's screen.
Beyond(e, p) ==
  \/ e = "Left" /\ p.x < 0
  \/ e = "Right" /\ p.x >= AsI32(server.width)
  \/ e = "Top" /\ p.y < 0
  \/ e = "Bottom" /\ p.y >= AsI32(server.height)

\* The coordinate that runs along an edge, and the peer's size in that
\* direction and across it.
Along(e, p) == IF Sideways(e) THEN p.y ELSE p.x
LengthAlong(peer) ==
  AsI32(IF Sideways(peer.edge) THEN peer.screen.height ELSE peer.screen.width)
LengthAcross(peer) ==
  AsI32(IF Sideways(peer.edge) THEN peer.screen.width ELSE peer.screen.height)

\* Mutants of Local: the last pixel is one too far, and the offset and the
\* cursor change places.
LocalOffByOneMutant(peer, p) ==
  Clamp(Wrap(Along(peer.edge, p) - peer.offset), 0, Wrap(LengthAlong(peer)))
LocalSwappedMutant(peer, p) ==
  Clamp(Wrap(peer.offset - Along(peer.edge, p)), 0, Wrap(LengthAlong(peer) - 1))

\* local_x or local_y: the entry coordinate along the edge.
Local(peer, p) ==
  Clamp(Wrap(Along(peer.edge, p) - peer.offset), 0, Wrap(LengthAlong(peer) - 1))

\* The entry coordinate across the edge: the peer's last pixel or its first.
Far(peer) == IF peer.edge \in {"Left", "Top"} THEN Wrap(LengthAcross(peer) - 1) ELSE 0

\* The expressions of the arm that is taken cannot all be evaluated.
Panics(peer, p) ==
  \/ Overflows(Along(peer.edge, p) - peer.offset)
  \/ Overflows(LengthAlong(peer) - 1)
  \/ Wrap(LengthAlong(peer) - 1) < 0
  \/ peer.edge \in {"Left", "Top"} /\ Overflows(LengthAcross(peer) - 1)

Enter(i, p) ==
  LET peer == peers[i]
  IN  IF Panics(peer, p) THEN Panic
      ELSE [kind |-> "Cross", peer |-> i,
            entry_x |-> IF Sideways(peer.edge) THEN Far(peer) ELSE Local(peer, p),
            entry_y |-> IF Sideways(peer.edge) THEN Local(peer, p) ELSE Far(peer)]

\* No arm of any peer is taken.
CheckStays(p) ==
  /\ \A i \in DOMAIN peers : ~Beyond(peers[i].edge, p)
  /\ pos' = p
  /\ result' = Stay
  /\ UNCHANGED <<build, server, peers>>

\* The first peer of the file whose edge the cursor is beyond gets it.
CheckCrosses(p) ==
  /\ \E i \in DOMAIN peers :
       /\ Beyond(peers[i].edge, p)
       /\ \A j \in 1..(i - 1) : ~Beyond(peers[j].edge, p)
       /\ result' = Enter(i, p)
  /\ pos' = p
  /\ UNCHANGED <<build, server, peers>>

Next == \E p \in Position : CheckStays(p) \/ CheckCrosses(p)

Spec == Init /\ [][Next]_vars

-------------------------------------------------------------------------------
(* Properties. *)

\* A peer's screen as a real one is: its sizes are positive i32.
Sane(screen) == {screen.width, screen.height} \subseteq 1..(Half - 1)

\* The cursor enters a real screen on a pixel of it, and of the edge that
\* adjoins the server, whatever the offset is and however far outside the server's
\* screen, or past the end of the shared edge, the cursor was.
EntryOnPeer ==
  result \in Crossing =>
    LET peer == peers[result.peer]
    IN  Sane(peer.screen) =>
          /\ result.entry_x \in 0..(peer.screen.width - 1)
          /\ result.entry_y \in 0..(peer.screen.height - 1)
          /\ Beyond(peer.edge, pos)
          /\ peer.edge = "Left" => result.entry_x = peer.screen.width - 1
          /\ peer.edge = "Right" => result.entry_x = 0
          /\ peer.edge = "Top" => result.entry_y = peer.screen.height - 1
          /\ peer.edge = "Bottom" => result.entry_y = 0

\* With real screens a release build never panics.
OnlyUnrealScreensPanic ==
  build = "release" /\ (\A i \in DOMAIN peers : Sane(peers[i].screen))
    => result # Panic

\* The distance along the edge from the peer's first pixel, as an i32.
Fits(peer, p) == Along(peer.edge, p) - peer.offset \in I32

\* A cursor that slides along the edge of one peer slides the same way on the
\* peer's screen and never further: clamping neither turns it round nor makes it
\* jump, as long as the difference is an i32.
EntryAlong(r) == Along(peers[r.peer].edge, [x |-> r.entry_x, y |-> r.entry_y])
Follows(slid, moved) ==
  /\ slid >= 0 => moved \in 0..slid
  /\ slid <= 0 => -moved \in 0..(-slid)
SamePeer ==
  /\ {result, result'} \subseteq Crossing
  /\ result'.peer = result.peer
  /\ Fits(peers[result.peer], pos) /\ Fits(peers[result.peer], pos')
Slides ==
  SamePeer =>
    LET edge == peers[result.peer].edge
    IN  Follows(Along(edge, pos') - Along(edge, pos),
                EntryAlong(result') - EntryAlong(result))
EntryFollowsCursor == [][Slides]_vars
===============================================================================
