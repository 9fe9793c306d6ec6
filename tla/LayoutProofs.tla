------------------------------ MODULE LayoutProofs ------------------------------
(***************************************************************************)
(* Layout's invariants and the continuity of entry points, for integers of *)
(* every width, every layout and every cursor position.                    *)
(***************************************************************************)
EXTENDS Layout, TLAPS

\* A wrapped difference of two i32 is an i32, and itself if it is in range.
LEMMA WrapRange ==
  ASSUME NEW a \in I32, NEW b \in I32
  PROVE  Wrap(a - b) \in I32 /\ (a - b \in I32 => Wrap(a - b) = a - b)
  BY LayoutAssumption DEF Wrap, I32

\* Clamping to proper bounds stays within them.
LEMMA ClampRange ==
  ASSUME NEW n \in Int, NEW hi \in Int, hi >= 0
  PROVE  Clamp(n, 0, hi) \in 0..hi
  BY DEF Clamp

\* Clamping preserves order and stretches no distance.
LEMMA ClampFollows ==
  ASSUME NEW m \in Int, NEW n \in Int, NEW hi \in Int, hi >= 0
  PROVE  Follows(n - m, Clamp(n, 0, hi) - Clamp(m, 0, hi))
  BY DEF Clamp, Follows

\* The numbers of a peer are i32, the sizes of a real screen what they say.
LEMMA PeerNumbers ==
  ASSUME NEW peer \in PeerScreen, NEW p \in Position
  PROVE  /\ Along(peer.edge, p) \in I32
         /\ peer.offset \in I32
         /\ LengthAlong(peer) \in I32 /\ LengthAcross(peer) \in I32
         /\ Wrap(LengthAlong(peer) - 1) \in I32
         /\ Wrap(LengthAcross(peer) - 1) \in I32
         /\ Wrap(Along(peer.edge, p) - peer.offset) \in I32
  <1>1. /\ peer.screen \in [width : U32, height : U32]
        /\ peer.offset \in I32
    BY LayoutAssumption DEF PeerScreen
  <1>2. peer.screen.width \in U32 /\ peer.screen.height \in U32
    BY <1>1
  <1>3. Along(peer.edge, p) \in I32
    BY DEF Along, Position
  <1>4. \A k \in U32 : AsI32(k) \in I32
    BY LayoutAssumption DEF AsI32, U32, I32
  <1>5. LengthAlong(peer) \in I32 /\ LengthAcross(peer) \in I32
    BY <1>2, <1>4 DEF LengthAlong, LengthAcross
  <1>6. \A k \in I32 : Wrap(k - 1) \in I32
    BY LayoutAssumption DEF Wrap, I32
  <1> QED
    BY <1>1, <1>3, <1>5, <1>6, WrapRange

\* What a crossing returns is a pair of i32.
LEMMA EnterTyped ==
  ASSUME TypeOK, NEW i \in DOMAIN peers, NEW p \in Position
  PROVE  Enter(i, p) \in {Panic} \cup Crossing
  <1> DEFINE peer == peers[i]
  <1>1. peer \in PeerScreen /\ i \in Nat \ {0}
    BY DEF TypeOK
  <1>2. CASE Panics(peer, p)
    BY <1>2 DEF Enter
  <1>3. CASE ~Panics(peer, p)
    <2>1. Wrap(LengthAlong(peer) - 1) \in I32 /\ Wrap(LengthAlong(peer) - 1) >= 0
      BY <1>1, <1>3, PeerNumbers, LayoutAssumption DEF Panics, I32
    <2>2. Local(peer, p) \in 0..Wrap(LengthAlong(peer) - 1)
      <3>1. Wrap(Along(peer.edge, p) - peer.offset) \in I32
        BY <1>1, PeerNumbers
      <3> QED
        BY <2>1, <3>1, ClampRange, LayoutAssumption DEF Local, I32
    <2>3. Local(peer, p) \in I32
      BY <2>1, <2>2, LayoutAssumption DEF I32
    <2>4. Far(peer) \in I32
      <3>1. Wrap(LengthAcross(peer) - 1) \in I32
        BY <1>1, PeerNumbers
      <3>2. 0 \in I32
        BY LayoutAssumption DEF I32
      <3> QED
        BY <3>1, <3>2 DEF Far
    <2> QED
      BY <1>1, <1>3, <2>3, <2>4 DEF Enter, Crossing
  <1> QED
    BY <1>2, <1>3

\* TypeOK: crossings are reported for a peer that exists, with i32 coordinates.
THEOREM TypeCorrect == Spec => []TypeOK
  <1>1. Init => TypeOK
    <2> SUFFICES ASSUME Init PROVE TypeOK
      OBVIOUS
    <2>1. peers \in Seq(PeerScreen)
      <3>1. PICK k \in 0..MaxPeers : peers \in [1..k -> PeerScreen]
        BY DEF Init
      <3>2. k \in Nat
        BY <3>1, LayoutAssumption
      <3> QED
        BY <3>1, <3>2
    <2>2. pos \in Position
      BY LayoutAssumption DEF Init, Position, I32
    <2>3. result = Stay /\ result \notin Crossing
      BY DEF Init, Stay, Crossing
    <2> QED
      BY <2>1, <2>2, <2>3 DEF Init, TypeOK
  <1>2. TypeOK /\ [Next]_vars => TypeOK'
    <2> SUFFICES ASSUME TypeOK, [Next]_vars PROVE TypeOK'
      OBVIOUS
    <2>1. ASSUME NEW p \in Position, CheckStays(p) PROVE TypeOK'
      <3>1. result' = Stay /\ result' \notin Crossing
        BY <2>1 DEF CheckStays, Stay, Crossing
      <3> QED
        BY <2>1, <3>1 DEF CheckStays, TypeOK
    <2>2. ASSUME NEW p \in Position, CheckCrosses(p) PROVE TypeOK'
      <3>1. PICK i \in DOMAIN peers : result' = Enter(i, p)
        BY <2>2 DEF CheckCrosses
      <3>2. result' \in {Panic} \cup Crossing
        BY <3>1, EnterTyped
      <3>3. result' \in Crossing => result'.peer \in DOMAIN peers
        BY <3>1 DEF Enter, Panic, Crossing
      <3>4. UNCHANGED <<build, server, peers>> /\ pos' = p
        BY <2>2 DEF CheckCrosses
      <3> QED
        BY <3>2, <3>3, <3>4 DEF TypeOK
    <2>3. CASE UNCHANGED vars
      BY <2>3 DEF vars, TypeOK
    <2> QED
      BY <2>1, <2>2, <2>3 DEF Next
  <1> QED
    BY <1>1, <1>2, PTL DEF Spec

-------------------------------------------------------------------------------
\* A real screen's sizes survive the conversion, and its last pixel exists.
LEMMA SanePeer ==
  ASSUME NEW peer \in PeerScreen, Sane(peer.screen)
  PROVE  /\ LengthAlong(peer) =
              IF Sideways(peer.edge) THEN peer.screen.height ELSE peer.screen.width
         /\ LengthAcross(peer) =
              IF Sideways(peer.edge) THEN peer.screen.width ELSE peer.screen.height
         /\ LengthAlong(peer) \in 1..(Half - 1) /\ LengthAcross(peer) \in 1..(Half - 1)
         /\ Wrap(LengthAlong(peer) - 1) = LengthAlong(peer) - 1
         /\ Wrap(LengthAcross(peer) - 1) = LengthAcross(peer) - 1
  <1>1. \A k \in 1..(Half - 1) :
          AsI32(k) = k /\ Wrap(k - 1) = k - 1
    BY LayoutAssumption DEF AsI32, Wrap, I32
  <1>2. peer.screen.width \in 1..(Half - 1) /\ peer.screen.height \in 1..(Half - 1)
    BY DEF Sane
  <1> QED
    BY <1>1, <1>2 DEF LengthAlong, LengthAcross

\* An entry into a real screen is a pixel of the edge that adjoins the server.
LEMMA EnterOnEdge ==
  ASSUME TypeOK, NEW i \in DOMAIN peers, NEW p \in Position,
         Enter(i, p) \in Crossing, Sane(peers[i].screen)
  PROVE  LET peer == peers[i]
             r == Enter(i, p)
         IN  /\ r.entry_x \in 0..(peer.screen.width - 1)
             /\ r.entry_y \in 0..(peer.screen.height - 1)
             /\ peer.edge = "Left" => r.entry_x = peer.screen.width - 1
             /\ peer.edge = "Right" => r.entry_x = 0
             /\ peer.edge = "Top" => r.entry_y = peer.screen.height - 1
             /\ peer.edge = "Bottom" => r.entry_y = 0
  <1> DEFINE peer == peers[i]
             far == IF peer.edge \in {"Left", "Top"} THEN LengthAcross(peer) - 1 ELSE 0
  <1>1. peer \in PeerScreen /\ peer.edge \in Edges
    <2>1. peers \in Seq(PeerScreen)
      BY DEF TypeOK
    <2>2. peers[i] \in PeerScreen
      BY <2>1
    <2> QED
      BY <2>2 DEF PeerScreen
  <1>2. ~Panics(peer, p)
    BY DEF Enter, Panic, Crossing
  <1>3. Wrap(Along(peer.edge, p) - peer.offset) \in Int
    BY <1>1, PeerNumbers, LayoutAssumption DEF I32
  <1>4. /\ Wrap(LengthAlong(peer) - 1) = LengthAlong(peer) - 1
        /\ LengthAlong(peer) - 1 \in Int /\ LengthAlong(peer) - 1 >= 0
        /\ LengthAcross(peer) - 1 \in Int /\ LengthAcross(peer) - 1 >= 0
        /\ Wrap(LengthAcross(peer) - 1) = LengthAcross(peer) - 1
    <2>1. Sane(peer.screen)
      OBVIOUS
    <2>2. /\ LengthAlong(peer) \in 1..(Half - 1) /\ LengthAcross(peer) \in 1..(Half - 1)
          /\ Wrap(LengthAlong(peer) - 1) = LengthAlong(peer) - 1
          /\ Wrap(LengthAcross(peer) - 1) = LengthAcross(peer) - 1
      BY <1>1, <2>1, SanePeer
    <2> QED
      BY <2>2, LayoutAssumption
  <1>5. Local(peer, p) \in 0..(LengthAlong(peer) - 1)
    BY <1>3, <1>4, ClampRange DEF Local
  <1>6. Far(peer) = far /\ far \in 0..(LengthAcross(peer) - 1)
    BY <1>4 DEF Far
  <1>7. /\ Enter(i, p).entry_x = IF Sideways(peer.edge) THEN far ELSE Local(peer, p)
        /\ Enter(i, p).entry_y = IF Sideways(peer.edge) THEN Local(peer, p) ELSE far
    BY <1>2, <1>6 DEF Enter
  <1>8. /\ LengthAlong(peer) =
             IF Sideways(peer.edge) THEN peer.screen.height ELSE peer.screen.width
        /\ LengthAcross(peer) =
             IF Sideways(peer.edge) THEN peer.screen.width ELSE peer.screen.height
    BY <1>1, SanePeer
  <1> HIDE DEF far, peer
  <1>9. CASE Sideways(peer.edge)
    <2>1. /\ Enter(i, p).entry_x = far /\ far \in 0..(peer.screen.width - 1)
          /\ Enter(i, p).entry_y \in 0..(peer.screen.height - 1)
      BY <1>5, <1>6, <1>7, <1>8, <1>9
    <2>2. peer.edge \in {"Left", "Right"}
      BY <1>9 DEF Sideways
    <2>3. /\ peer.edge = "Left" => far = peer.screen.width - 1
          /\ peer.edge = "Right" => far = 0
      BY <1>8, <1>9 DEF far
    <2> QED
      BY <2>1, <2>2, <2>3 DEF peer
  <1>10. CASE ~Sideways(peer.edge)
    <2>1. /\ Enter(i, p).entry_y = far /\ far \in 0..(peer.screen.height - 1)
          /\ Enter(i, p).entry_x \in 0..(peer.screen.width - 1)
      BY <1>5, <1>6, <1>7, <1>8, <1>10
    <2>2. peer.edge \in {"Top", "Bottom"}
      BY <1>1, <1>10 DEF Sideways, Edges
    <2>3. /\ peer.edge = "Top" => far = peer.screen.height - 1
          /\ peer.edge = "Bottom" => far = 0
      BY <1>8, <1>10 DEF far
    <2> QED
      BY <2>1, <2>2, <2>3 DEF peer
  <1> QED
    BY <1>9, <1>10

\* What a crossing reports is what Enter computes for the cursor it was asked
\* about, and that cursor is beyond the peer's edge.
Reported ==
  result \in Crossing =>
    result = Enter(result.peer, pos) /\ Beyond(peers[result.peer].edge, pos)

\* The inductive invariant of this module.
LEMMA ReportedInvariant == Spec => [](TypeOK /\ Reported)
  <1>1. Init => Reported
    BY DEF Init, Reported, Stay, Crossing
  <1>2. TypeOK /\ Reported /\ [Next]_vars => Reported'
    <2> SUFFICES ASSUME TypeOK, Reported, [Next]_vars PROVE Reported'
      OBVIOUS
    <2>1. ASSUME NEW p \in Position, CheckStays(p) PROVE Reported'
      BY <2>1 DEF CheckStays, Reported, Stay, Crossing
    <2>2. ASSUME NEW p \in Position, CheckCrosses(p) PROVE Reported'
      <3>1. PICK i \in DOMAIN peers : Beyond(peers[i].edge, p) /\ result' = Enter(i, p)
        BY <2>2 DEF CheckCrosses
      <3>2. UNCHANGED <<build, server, peers>> /\ pos' = p
        BY <2>2 DEF CheckCrosses
      <3>3. result' \in Crossing => result'.peer = i
        BY <3>1 DEF Enter, Panic, Crossing
      <3>4. Enter(i, pos)' = Enter(i, p) /\ Beyond(peers[i].edge, pos)' = Beyond(peers[i].edge, p)
        BY <3>2 DEF Enter, Panics, Local, Far, Beyond, Along, LengthAlong, LengthAcross, Overflows
      <3> QED
        BY <3>1, <3>2, <3>3, <3>4 DEF Reported
    <2>3. CASE UNCHANGED vars
      BY <2>3 DEF vars, Reported, Enter, Panics, Local, Far, Beyond, Along,
                  LengthAlong, LengthAcross, Overflows
    <2> QED
      BY <2>1, <2>2, <2>3 DEF Next
  <1> QED
    BY <1>1, <1>2, TypeCorrect, PTL DEF Spec

\* EntryOnPeer: the cursor never enters a real screen off its adjoining edge.
THEOREM EntersOnAdjoiningEdge == Spec => []EntryOnPeer
  <1>1. TypeOK /\ Reported => EntryOnPeer
    <2> SUFFICES ASSUME TypeOK, Reported, result \in Crossing,
                        Sane(peers[result.peer].screen)
                 PROVE  EntryOnPeer
      BY DEF EntryOnPeer
    <2>1. result.peer \in DOMAIN peers /\ pos \in Position
      BY DEF TypeOK
    <2>2. result = Enter(result.peer, pos) /\ Beyond(peers[result.peer].edge, pos)
      BY DEF Reported
    <2> QED
      BY <2>1, <2>2, EnterOnEdge DEF EntryOnPeer
  <1> QED
    BY <1>1, ReportedInvariant, PTL

\* OnlyUnrealScreensPanic: a release build never hands clamp crossed
\* bounds on a screen a system can report.
THEOREM RealScreensDoNotPanic == Spec => []OnlyUnrealScreensPanic
  <1>1. Init => OnlyUnrealScreensPanic
    BY DEF Init, OnlyUnrealScreensPanic, Stay, Panic
  <1>2. TypeOK /\ OnlyUnrealScreensPanic /\ [Next]_vars => OnlyUnrealScreensPanic'
    <2> SUFFICES ASSUME TypeOK, OnlyUnrealScreensPanic, [Next]_vars
                 PROVE  OnlyUnrealScreensPanic'
      OBVIOUS
    <2>1. ASSUME NEW p \in Position, CheckStays(p) PROVE OnlyUnrealScreensPanic'
      BY <2>1 DEF CheckStays, OnlyUnrealScreensPanic, Stay, Panic
    <2>2. ASSUME NEW p \in Position, CheckCrosses(p) PROVE OnlyUnrealScreensPanic'
      <3>1. PICK i \in DOMAIN peers : result' = Enter(i, p)
        BY <2>2 DEF CheckCrosses
      <3>2. UNCHANGED <<build, peers>>
        BY <2>2 DEF CheckCrosses
      <3>3. SUFFICES ASSUME build = "release", Sane(peers[i].screen)
                     PROVE  result' # Panic
        BY <3>2 DEF OnlyUnrealScreensPanic, Sane
      <3>4. peers[i] \in PeerScreen
        <4>1. peers \in Seq(PeerScreen)
          BY DEF TypeOK
        <4> QED
          BY <4>1
      <3>5. Wrap(LengthAlong(peers[i]) - 1) >= 0
        <4>1. /\ LengthAlong(peers[i]) \in 1..(Half - 1)
              /\ Wrap(LengthAlong(peers[i]) - 1) = LengthAlong(peers[i]) - 1
          BY <3>3, <3>4, SanePeer
        <4> QED
          BY <4>1, LayoutAssumption
      <3>6. Wrap(LengthAlong(peers[i]) - 1) \in Int
        BY <3>4, PeerNumbers, LayoutAssumption DEF I32
      <3>7. ~Panics(peers[i], p)
        BY <3>3, <3>5, <3>6 DEF Panics, Overflows
      <3> QED
        BY <3>1, <3>7 DEF Enter, Panic
    <2>3. CASE UNCHANGED vars
      BY <2>3 DEF vars, OnlyUnrealScreensPanic, Sane
    <2> QED
      BY <2>1, <2>2, <2>3 DEF Next
  <1> QED
    BY <1>1, <1>2, TypeCorrect, PTL DEF Spec

\* The entry coordinate along the edge, of a cursor no difference of which wraps.
LEMMA EntryClamped ==
  ASSUME TypeOK, NEW i \in DOMAIN peers, NEW p \in Position,
         Enter(i, p) \in Crossing, Fits(peers[i], p)
  PROVE  LET peer == peers[i]
             hi == Wrap(LengthAlong(peer) - 1)
         IN  /\ hi \in Int /\ hi >= 0
             /\ Along(peer.edge, p) \in Int /\ peer.offset \in Int
             /\ Along(peer.edge, [x |-> Enter(i, p).entry_x, y |-> Enter(i, p).entry_y])
                  = Clamp(Along(peer.edge, p) - peer.offset, 0, hi)
  <1> DEFINE peer == peers[i]
             hi == Wrap(LengthAlong(peer) - 1)
             a == Along(peer.edge, p)
  <1>1. peer \in PeerScreen
    <2>1. peers \in Seq(PeerScreen)
      BY DEF TypeOK
    <2> QED
      BY <2>1
  <1>2. ~Panics(peer, p)
    BY DEF Enter, Panic, Crossing
  <1>3. hi \in I32 /\ a \in I32 /\ peer.offset \in I32
    BY <1>1, PeerNumbers
  <1>4. hi \in Int /\ hi >= 0 /\ a \in Int /\ peer.offset \in Int
    BY <1>2, <1>3, LayoutAssumption DEF Panics, I32
  <1>5. Wrap(a - peer.offset) = a - peer.offset
    BY <1>3, WrapRange DEF Fits
  <1>6. Local(peer, p) = Clamp(a - peer.offset, 0, hi)
    BY <1>5 DEF Local
  <1>7. Along(peer.edge, [x |-> Enter(i, p).entry_x, y |-> Enter(i, p).entry_y])
          = Local(peer, p)
    BY <1>2 DEF Enter, Along
  <1> QED
    BY <1>4, <1>6, <1>7

\* EntryFollowsCursor: sliding along an edge is sliding along the peer's edge.
THEOREM EntrySlidesWithCursor == Spec => EntryFollowsCursor
  <1>1. TypeOK /\ Reported /\ (TypeOK /\ Reported)' /\ [Next]_vars => Slides
    <2> SUFFICES ASSUME TypeOK, Reported, TypeOK', Reported', [Next]_vars, SamePeer
                 PROVE  Slides
      BY DEF Slides
    <2> DEFINE i == result.peer
               peer == peers[i]
               hi == Wrap(LengthAlong(peer) - 1)
               m == Along(peer.edge, pos)
               n == Along(peer.edge, pos')
    <2>1. UNCHANGED <<build, server, peers>>
      BY DEF Next, CheckStays, CheckCrosses, vars
    <2>2. result \in Crossing /\ result' \in Crossing /\ result'.peer = i
      BY DEF SamePeer
    <2>3. i \in DOMAIN peers /\ pos \in Position /\ pos' \in Position
      BY <2>2 DEF TypeOK
    <2>4. result = Enter(i, pos) /\ result' = Enter(i, pos')
      <3>1. Enter(i, pos)' = Enter(i', pos')
        BY <2>1 DEF Enter, Panics, Local, Far, Along, LengthAlong, LengthAcross, Overflows
      <3> QED
        BY <2>1, <2>2, <3>1 DEF Reported
    <2>5. Fits(peer, pos) /\ Fits(peer, pos')
      BY <2>1, <2>2 DEF SamePeer
    <2>6. /\ hi \in Int /\ hi >= 0 /\ m \in Int /\ n \in Int /\ peer.offset \in Int
          /\ EntryAlong(result) = Clamp(m - peer.offset, 0, hi)
          /\ EntryAlong(result') = Clamp(n - peer.offset, 0, hi)
      BY <2>2, <2>3, <2>4, <2>5, EntryClamped DEF EntryAlong
    <2>7. Follows((n - peer.offset) - (m - peer.offset),
                  EntryAlong(result') - EntryAlong(result))
      <3>1. m - peer.offset \in Int /\ n - peer.offset \in Int
        BY <2>6
      <3> HIDE DEF m, n, hi, peer
      <3>2. Follows((n - peer.offset) - (m - peer.offset),
                    Clamp(n - peer.offset, 0, hi) - Clamp(m - peer.offset, 0, hi))
        BY <2>6, <3>1, ClampFollows
      <3> QED
        BY <2>6, <3>2
    <2>8. (n - peer.offset) - (m - peer.offset) = n - m
      BY <2>6
    <2> QED
      BY <2>7, <2>8 DEF Slides
  <1> QED
    BY <1>1, ReportedInvariant, PTL DEF Spec, EntryFollowsCursor
===============================================================================
