------------------------------ MODULE FramesProofs ------------------------------
(***************************************************************************)
(* What TLAPS checks about the two implementations of Frames, for every    *)
(* choice of their constants.  Fairness plays no part here.                *)
(***************************************************************************)
EXTENDS MCFrames, SequenceTheorems, TLAPS

-------------------------------------------------------------------------------
(* Codec.  The decoder is in step with the sender for every header size, every *)
(* limit and every way the bytes are cut into pieces.  The invariant says where  *)
(* the frames lie in the stream (Positions), that what was returned is what was  *)
(* sent (Taken), and that the decoder stands at the start of the next frame      *)
(* (InSync); the last two need each other.                                       *)

Positions ==
  /\ \A i \in 1..Len(start) : start[i] < written
  /\ \A i, j \in 1..Len(start) : i < j => start[i] < start[j]
  /\ \A i \in 1..Len(frames) : Boundary(i) = start[i] + Header + frames[i].size

Taken ==
  /\ Len(got) <= Len(frames)
  /\ \A i \in 1..Len(got) : got[i] = frames[i]

IInv == TypeOK /\ Positions /\ Taken /\ InSync

\* The size of a frame is a number.
LEMMA FrameSize == \A f \in Frame : f.size \in Nat
<1>1. \A f \in Frame : f.size \in Sizes
  BY DEF Frame
<1> QED BY <1>1, CodecAssumption DEF CodecAssumption

\* While there is a length in the buffer, it is that of the next frame that was
\* sent, and no other reading of the buffer is possible.
LEMMA SeenIsNext ==
  ASSUME IInv, reader = "reading", Buffered >= Header, NEW f \in Seen
  PROVE  /\ Len(got) < Len(frames)
         /\ consumed = start[Len(got) + 1]
         /\ f = frames[Len(got) + 1]
<1> USE CodecAssumption DEF IInv, CodecAssumption
<1>1. /\ consumed \in Nat /\ arrived \in Nat /\ flushed \in Nat /\ written \in Nat
      /\ consumed < arrived /\ arrived <= flushed /\ flushed <= written
  BY DEF TypeOK, Buffered
<1>2. consumed = Boundary(Len(got)) /\ Len(got) <= Len(frames)
  BY DEF InSync, Taken
<1>3. Len(got) \in Nat /\ Len(frames) \in Nat /\ Len(start) = Len(frames)
  BY DEF TypeOK
<1>4. Len(got) < Len(frames)
  BY <1>1, <1>2, <1>3 DEF Boundary
<1>5. consumed = start[Len(got) + 1]
  BY <1>2, <1>4 DEF Boundary
<1>6. Len(got) + 1 \in DOMAIN start /\ DOMAIN start = 1..Len(start)
  BY <1>3, <1>4 DEF TypeOK
<1>7. \E i \in DOMAIN start : start[i] = consumed
  BY <1>5, <1>6
<1>8. PICK i \in DOMAIN start : start[i] = consumed /\ f = frames[i]
  BY <1>7 DEF Seen
<1>9. i = Len(got) + 1
  <2>1. i \in Nat /\ start[i] \in Nat /\ start[i] = start[Len(got) + 1]
    BY <1>5, <1>6, <1>8 DEF TypeOK
  <2>2. ~(i < Len(got) + 1) /\ ~(Len(got) + 1 < i)
    BY <1>6, <2>1 DEF Positions
  <2> QED BY <1>3, <2>1, <2>2
<1> QED BY <1>4, <1>5, <1>8, <1>9

\* The frame after the first k ends where the next one starts.
LEMMA NextBoundary ==
  ASSUME IInv, Len(got) < Len(frames), consumed = start[Len(got) + 1]
  PROVE  Boundary(Len(got) + 1) = consumed + Header + frames[Len(got) + 1].size
<1>1. Len(got) + 1 \in 1..Len(frames)
  BY DEF IInv, TypeOK
<1> QED BY <1>1 DEF IInv, Positions

\* A new frame leaves the boundaries of the older ones where they are.
LEMMA EncodePreserves ==
  ASSUME IInv, NEW f \in Frame, Encode(f)
  PROVE  IInv'
<1> USE CodecAssumption DEF IInv, CodecAssumption
<1>1. /\ frames \in Seq(Frame) /\ start \in Seq(Nat) /\ Len(start) = Len(frames)
      /\ Len(frames) \in Nat /\ written \in Nat /\ f.size \in Nat
      /\ MaxFrames \in Nat /\ Header \in Nat \ {0}
  <2>1. f.size \in Nat
    BY FrameSize
  <2>2. /\ frames \in Seq(Frame) /\ start \in Seq(Nat) /\ Len(start) = Len(frames)
        /\ written \in Nat
    BY DEF TypeOK
  <2>3. Len(frames) \in Nat
    BY <2>2
  <2> QED BY <2>1, <2>2, <2>3
<1>2. /\ frames' = Append(frames, f) /\ start' = Append(start, written)
      /\ written' = written + Header + f.size
      /\ flushed' = flushed /\ arrived' = arrived /\ consumed' = consumed /\ got' = got
      /\ reader' = reader /\ cap' = cap /\ Len(frames) < MaxFrames
  BY DEF Encode
<1>3. /\ Len(frames') = Len(frames) + 1 /\ Len(start') = Len(frames) + 1
      /\ frames' \in Seq(Frame) /\ start' \in Seq(Nat)
      /\ \A i \in 1..Len(frames) : frames'[i] = frames[i] /\ start'[i] = start[i]
      /\ frames'[Len(frames) + 1] = f /\ start'[Len(frames) + 1] = written
  BY <1>1, <1>2
<1>4. TypeOK'
  <2>1. written' \in Nat /\ flushed' \in 0..written'
    BY <1>1, <1>2 DEF TypeOK
  <2> QED BY <1>2, <1>3, <2>1, <1>1 DEF TypeOK, Encode
<1>5. \A k \in 0..Len(frames) : Boundary(k)' = Boundary(k)
  <2> SUFFICES ASSUME NEW k \in 0..Len(frames) PROVE Boundary(k)' = Boundary(k)
    OBVIOUS
  <2>1. CASE k = Len(frames)
    BY <1>1, <1>3, <2>1 DEF Boundary
  <2>2. CASE k < Len(frames)
    <3>1. k + 1 \in 1..Len(frames) /\ k < Len(frames')
      BY <1>1, <1>3, <2>2
    <3> QED BY <1>3, <2>2, <3>1 DEF Boundary
  <2> QED BY <1>1, <2>1, <2>2
<1>6. Boundary(Len(frames) + 1)' = written'
  BY <1>1, <1>3 DEF Boundary
<1>7. Positions'
  <2>1. \A i \in 1..Len(start) : start[i] \in Nat /\ start[i] < written
    BY <1>1 DEF Positions, TypeOK
  <2>2. \A i \in 1..Len(start') : start'[i] < written'
    <3> SUFFICES ASSUME NEW i \in 1..Len(start') PROVE start'[i] < written'
      OBVIOUS
    <3>1. CASE i \in 1..Len(frames)
      BY <1>1, <1>2, <1>3, <2>1, <3>1
    <3>2. CASE i = Len(frames) + 1
      BY <1>1, <1>2, <1>3, <3>2
    <3> QED BY <1>1, <1>3, <3>1, <3>2
  <2>3. \A i, j \in 1..Len(start') : i < j => start'[i] < start'[j]
    <3> SUFFICES ASSUME NEW i \in 1..Len(start'), NEW j \in 1..Len(start'), i < j
                 PROVE  start'[i] < start'[j]
      OBVIOUS
    <3>1. CASE j \in 1..Len(frames)
      <4>1. i \in 1..Len(frames)
        BY <1>1, <1>3, <3>1
      <4> QED BY <1>1, <1>3, <3>1, <4>1 DEF Positions
    <3>2. CASE j = Len(frames) + 1
      <4>1. i \in 1..Len(frames)
        BY <1>1, <1>3, <3>2
      <4> QED BY <1>1, <1>3, <2>1, <3>2, <4>1
    <3> QED BY <1>1, <1>3, <3>1, <3>2
  <2>4. \A i \in 1..Len(frames') : Boundary(i)' = start'[i] + Header + frames'[i].size
    <3> SUFFICES ASSUME NEW i \in 1..Len(frames')
                 PROVE  Boundary(i)' = start'[i] + Header + frames'[i].size
      OBVIOUS
    <3>1. CASE i \in 1..Len(frames)
      <4>1. Boundary(i)' = Boundary(i)
        BY <1>1, <1>5, <3>1
      <4>2. Boundary(i) = start[i] + Header + frames[i].size
        BY <3>1 DEF Positions
      <4> QED BY <1>3, <3>1, <4>1, <4>2
    <3>2. CASE i = Len(frames) + 1
      <4>1. Boundary(i)' = written'
        BY <1>1, <1>3, <3>2 DEF Boundary
      <4>2. start'[i] = written /\ frames'[i] = f
        BY <1>3, <3>2
      <4> QED BY <1>2, <4>1, <4>2
    <3> QED BY <1>1, <1>3, <3>1, <3>2
  <2> QED BY <2>2, <2>3, <2>4 DEF Positions
<1>8. Len(got) \in 0..Len(frames)
  BY <1>1 DEF TypeOK, Taken
<1>9. Taken'
  BY <1>1, <1>2, <1>3, <1>8 DEF Taken
<1>10. InSync'
  BY <1>2, <1>5, <1>8 DEF InSync
<1> QED BY <1>4, <1>7, <1>9, <1>10

\* A decoded frame is the next one sent, and the decoder moves on to its end.
LEMMA DecodePreserves ==
  ASSUME IInv, NEW f \in Seen, DecodeFrame(f) \/ DecodeUnknown(f) \/ DecodeTooLarge(f)
  PROVE  /\ IInv'
         /\ Len(got) < Len(frames)
         /\ f = frames[Len(got) + 1]
<1> USE CodecAssumption DEF IInv, CodecAssumption
<1>1. /\ Len(got) < Len(frames) /\ consumed = start[Len(got) + 1]
      /\ f = frames[Len(got) + 1]
  BY SeenIsNext DEF DecodeFrame, DecodeUnknown, DecodeTooLarge
<1>2. Boundary(Len(got) + 1) = consumed + Header + f.size
  BY <1>1, NextBoundary
<1>3. /\ got \in Seq(Frame) /\ frames \in Seq(Frame) /\ Len(got) \in Nat
      /\ Len(frames) \in Nat /\ Header \in Nat /\ consumed \in Nat /\ arrived \in Nat
      /\ cap["receiver"] \in Nat
  <2>1. cap["receiver"] \in Caps
    BY DEF TypeOK
  <2>2. cap["receiver"] \in Nat
    BY <2>1
  <2>3. got \in Seq(Frame) /\ frames \in Seq(Frame) /\ consumed \in Nat /\ arrived \in Nat
    BY DEF TypeOK
  <2>4. Len(got) \in Nat /\ Len(frames) \in Nat
    BY <2>3
  <2> QED BY <2>2, <2>3, <2>4
<1>4. f \in Frame /\ f.size \in Nat
  <2>1. f \in Frame
    BY <1>1, <1>3
  <2> QED BY <2>1, FrameSize
<1>5. /\ frames' = frames /\ start' = start /\ written' = written
      /\ arrived' = arrived /\ flushed' = flushed
  BY DEF DecodeFrame, DecodeUnknown, DecodeTooLarge, sending
<1>6. Positions'
  BY <1>5 DEF Positions, Boundary
<1>7. CASE DecodeFrame(f)
  <2>1. got' = Append(got, f) /\ consumed' = consumed + Header + f.size
    BY <1>7 DEF DecodeFrame
  <2>2. consumed' \in 0..arrived'
    BY <1>3, <1>4, <1>5, <1>7, <2>1 DEF DecodeFrame, Incomplete, Buffered
  <2>3. /\ got' \in Seq(Frame) /\ Len(got') = Len(got) + 1
        /\ got'[Len(got) + 1] = f /\ \A i \in 1..Len(got) : got'[i] = got[i]
    BY <1>3, <1>4, <2>1
  <2>4. TypeOK'
    BY <1>7, <2>2, <2>3 DEF TypeOK, DecodeFrame, sending
  <2>5. Taken'
    <3>1. Len(got) < Len(frames) /\ f = frames[Len(got) + 1]
          /\ \A i \in 1..Len(got) : got[i] = frames[i]
      BY <1>1 DEF Taken
    <3>2. \A i \in 1..(Len(got) + 1) : i \in 1..Len(got) \/ i = Len(got) + 1
      BY <1>3
    <3>3. \A i \in 1..Len(got') : got'[i] = frames[i]
      BY <2>3, <3>1, <3>2
    <3> QED BY <1>3, <1>5, <2>3, <3>1, <3>3 DEF Taken
  <2>6. InSync'
    BY <1>2, <1>5, <2>1, <2>3 DEF InSync, Boundary
  <2> QED BY <1>1, <1>6, <2>4, <2>5, <2>6
<1>8. CASE DecodeUnknown(f)
  <2>1. consumed' = consumed + Header + f.size /\ got' = got /\ reader' = "failed"
    BY <1>8 DEF DecodeUnknown
  <2>2. consumed' \in 0..arrived'
    BY <1>3, <1>4, <1>5, <1>8, <2>1 DEF DecodeUnknown, Incomplete, Buffered
  <2>3. TypeOK'
    BY <1>8, <2>1, <2>2 DEF TypeOK, DecodeUnknown, sending
  <2> QED BY <1>1, <1>5, <1>6, <2>1, <2>3 DEF Taken, InSync
<1>9. CASE DecodeTooLarge(f)
  <2>1. TypeOK'
    BY <1>9 DEF TypeOK, DecodeTooLarge, sending
  <2> QED BY <1>1, <1>5, <1>6, <1>9, <2>1 DEF Taken, InSync, DecodeTooLarge
<1> QED BY <1>7, <1>8, <1>9

\* The invariant holds before anything is sent.
LEMMA InitEstablishes == Init => IInv
<1> SUFFICES ASSUME Init PROVE IInv
  OBVIOUS
<1>1. /\ <<>> \in Seq(Frame) /\ <<>> \in Seq(Nat) /\ Len(<<>>) = 0
  BY EmptySeq
<1>2. TypeOK
  <2>1. /\ frames \in Seq(Frame) /\ start \in Seq(Nat) /\ got \in Seq(Frame)
        /\ Len(frames) = 0 /\ Len(start) = 0
    BY <1>1 DEF Init
  <2>2. Len(frames) <= MaxFrames
    BY <2>1, CodecAssumption DEF CodecAssumption
  <2>3. /\ written \in Nat /\ flushed \in 0..written
        /\ arrived \in 0..flushed /\ consumed \in 0..arrived
    BY DEF Init
  <2> QED BY <2>1, <2>2, <2>3 DEF Init, TypeOK
<1>3. Positions /\ Taken /\ InSync
  BY <1>1 DEF Init, Positions, Taken, InSync, Boundary
<1> QED BY <1>2, <1>3 DEF IInv

\* Every step keeps the invariant.
LEMMA NextPreserves == IInv /\ [Next]_vars => IInv'
<1> SUFFICES ASSUME IInv, [Next]_vars PROVE IInv'
  OBVIOUS
<1> USE DEF IInv
<1>1. ASSUME NEW f \in Frame, Encode(f) PROVE IInv'
  BY <1>1, EncodePreserves
<1>2. ASSUME NEW f \in Seen, DecodeFrame(f) \/ DecodeUnknown(f) \/ DecodeTooLarge(f)
      PROVE  IInv'
  BY <1>2, DecodePreserves
<1>3. ASSUME /\ \/ Flush \/ Closes \/ Read \/ ReadEof \/ ReadFails
                \/ DecodeNone \/ DecodeEof \/ UNCHANGED vars
                \/ \E f \in Frame : EncodeRefuses(f)
      PROVE  IInv'
  <2>1. /\ frames' = frames /\ start' = start /\ written' = written /\ cap' = cap
        /\ got' = got /\ consumed' = consumed
        /\ reader' = "reading" => reader = "reading"
    BY <1>3 DEF Flush, Closes, Read, ReadEof, ReadFails, DecodeNone, DecodeEof,
                EncodeRefuses, sending, vars
  <2>2. flushed' \in 0..written /\ arrived' \in 0..flushed' /\ consumed' \in 0..arrived'
    BY <1>3 DEF Flush, Closes, Read, ReadEof, ReadFails, DecodeNone, DecodeEof,
                EncodeRefuses, sending, vars, TypeOK
  <2>3. /\ writer' \in {"open", "closed", "reset"}
        /\ reader' \in {"reading", "ended", "failed"}
        /\ readable' \in BOOLEAN /\ eof' \in BOOLEAN
    BY <1>3 DEF Flush, Closes, Read, ReadEof, ReadFails, DecodeNone, DecodeEof,
                EncodeRefuses, sending, vars, TypeOK
  <2>4. TypeOK'
    BY <2>1, <2>2, <2>3 DEF TypeOK
  <2> QED BY <2>1, <2>4 DEF Positions, Taken, InSync, Boundary
<1> QED BY <1>1, <1>2, <1>3 DEF Next, Decode

\* The positions, the frames taken and the decoder's place go together.
LEMMA IInvHolds == SafeSpec => []IInv
BY InitEstablishes, NextPreserves, PTL DEF SafeSpec

\* The positions stay in order: nothing is decoded that has not arrived.
THEOREM TypeCorrect == SafeSpec => []TypeOK
<1>1. IInv => TypeOK
  BY DEF IInv
<1> QED BY <1>1, IInvHolds, PTL

\* The decoder looks for a length only at the start of a frame.
THEOREM DecoderStaysInSync == SafeSpec => []InSync
<1>1. IInv => InSync
  BY DEF IInv
<1> QED BY <1>1, IInvHolds, PTL

-------------------------------------------------------------------------------
(* The codec carries frames. *)

\* Every step is one of Frames, or none of its steps.
LEMMA StepCarriesFrames == IInv /\ [Next]_vars => [Connection!Next]_Connection!vars
<1> SUFFICES ASSUME IInv, [Next]_vars PROVE [Connection!Next]_Connection!vars
  OBVIOUS
<1> USE DEF Connection!vars, Connection!Next
<1>1. ASSUME NEW f \in Frame, Encode(f) PROVE Connection!Send(f)
  BY <1>1 DEF Encode, Connection!Send
<1>2. ASSUME NEW f \in Seen, DecodeFrame(f) PROVE Connection!Receive
  <2>1. Len(got) < Len(frames) /\ f = frames[Len(got) + 1]
    BY <1>2, DecodePreserves
  <2> QED BY <1>2, <2>1 DEF DecodeFrame, sending, Connection!Receive
<1>3. ASSUME NEW f \in Seen, DecodeUnknown(f) \/ DecodeTooLarge(f) PROVE Connection!End
  BY <1>3 DEF DecodeUnknown, DecodeTooLarge, sending, Connection!End
<1>4. ASSUME DecodeEof \/ ReadFails PROVE Connection!End
  BY <1>4 DEF DecodeEof, ReadFails, sending, Connection!End
<1>5. ASSUME \/ Flush \/ Closes \/ Read \/ ReadEof \/ DecodeNone \/ UNCHANGED vars
             \/ \E f \in Frame : EncodeRefuses(f)
      PROVE  UNCHANGED Connection!vars
  BY <1>5 DEF Flush, Closes, Read, ReadEof, DecodeNone, EncodeRefuses, sending, vars
<1> QED BY <1>1, <1>2, <1>3, <1>4, <1>5 DEF Next, Decode

\* Codec implements Frames: whatever the pieces, the frames that come out are
\* those that went in, in order and without a gap, until the stream is over.
THEOREM CodecImplementsFrames == SafeSpec => FramesSpec
<1>1. Init => Connection!Init
  BY DEF Init, Connection!Init
<1> QED BY <1>1, StepCarriesFrames, IInvHolds, PTL DEF SafeSpec, FramesSpec, Connection!Spec

-------------------------------------------------------------------------------
(* How the stream ends. *)

\* Once the end was read nothing is on its way.
AtEnd ==
  /\ eof => writer = "closed" /\ arrived = flushed
  /\ reader = "ended" => eof

EndInv == IInv /\ AtEnd /\ FailsForAReason /\ CleanEndIsComplete

\* With all of the stream in the buffer the decoder wants more only if the stream
\* was cut in the middle of a frame, or has no frame left.
LEMMA NothingHeldBack ==
  ASSUME IInv, reader = "reading", NeedsMore, arrived = flushed
  PROVE  /\ Buffered # 0 => flushed # written
         /\ Buffered = 0 => \A k \in 1..Len(frames) : flushed >= Boundary(k) => k <= Len(got)
<1> USE CodecAssumption DEF CodecAssumption
<1>1. /\ consumed \in Nat /\ arrived \in Nat /\ flushed \in Nat /\ written \in Nat
      /\ consumed <= arrived /\ flushed <= written
  BY DEF IInv, TypeOK
<1>2. /\ Len(frames) \in Nat /\ Len(got) \in Nat /\ Len(start) = Len(frames)
      /\ frames \in Seq(Frame) /\ start \in Seq(Nat)
  BY DEF IInv, TypeOK
<1>3. consumed = Boundary(Len(got)) /\ Len(got) <= Len(frames)
  BY DEF IInv, InSync, Taken
<1>4. ASSUME Buffered # 0, flushed = written PROVE FALSE
  <2>1. consumed < written
    BY <1>1, <1>4 DEF Buffered
  <2>2. Len(got) < Len(frames) /\ consumed = start[Len(got) + 1]
    BY <1>1, <1>2, <1>3, <2>1 DEF Boundary
  <2> DEFINE f == frames[Len(got) + 1]
  <2>3. f.size \in Nat
    <3>1. Len(got) + 1 \in 1..Len(frames)
      BY <1>2, <2>2
    <3>2. f \in Frame
      BY <1>2, <3>1
    <3> QED BY <3>2, FrameSize
  <2>4. Boundary(Len(got) + 1) = consumed + Header + f.size
    BY <2>2, NextBoundary
  <2>5. Boundary(Len(got) + 1) <= written
    <3>1. CASE Len(got) + 1 < Len(frames)
      <4>1. Len(got) + 2 \in 1..Len(start)
        BY <1>2, <3>1
      <4>2. start[Len(got) + 2] < written /\ start[Len(got) + 2] \in Nat
        BY <1>2, <4>1 DEF IInv, Positions
      <4> QED BY <1>1, <1>2, <3>1, <4>2 DEF Boundary
    <3>2. CASE Len(got) + 1 = Len(frames)
      BY <1>1, <1>2, <3>2 DEF Boundary
    <3> QED BY <1>2, <2>2, <3>1, <3>2
  <2>6. Buffered >= Header + f.size
    <3> HIDE DEF f
    <3> QED BY <1>1, <1>4, <2>3, <2>4, <2>5 DEF Buffered
  <2>7. Buffered \in Nat /\ ~(Buffered < Header)
    <3> HIDE DEF f
    <3> QED BY <1>1, <2>3, <2>6 DEF Buffered
  <2>8. PICK g \in Seen : Incomplete(g)
    BY <2>7 DEF NeedsMore
  <2>9. g = f
    BY <2>7, <2>8, SeenIsNext
  <2> HIDE DEF f
  <2>10. Buffered < Header + f.size
    BY <2>8, <2>9 DEF Incomplete
  <2> QED BY <2>3, <2>6, <2>7, <2>10
<1>5. ASSUME Buffered = 0, NEW k \in 1..Len(frames), flushed >= Boundary(k), Len(got) < k
      PROVE  FALSE
  <2>1. Boundary(Len(got)) >= Boundary(k)
    BY <1>1, <1>3, <1>5 DEF Buffered
  <2>2. Boundary(Len(got)) = start[Len(got) + 1] /\ Len(got) + 1 \in 1..Len(start)
    BY <1>2, <1>5 DEF Boundary
  <2>3. start[Len(got) + 1] < written /\ start[Len(got) + 1] \in Nat
    BY <1>2, <2>2 DEF IInv, Positions
  <2>4. CASE k = Len(frames)
    BY <1>1, <1>2, <2>1, <2>2, <2>3, <2>4 DEF Boundary
  <2>5. CASE k < Len(frames)
    <3>1. k + 1 \in 1..Len(start) /\ Len(got) + 1 < k + 1
      BY <1>2, <1>5, <2>5
    <3>2. start[Len(got) + 1] < start[k + 1] /\ start[k + 1] \in Nat
      BY <1>2, <2>2, <3>1 DEF IInv, Positions
    <3> QED BY <2>1, <2>2, <2>3, <2>5, <3>2 DEF Boundary
  <2> QED BY <1>2, <2>4, <2>5
<1> QED BY <1>2, <1>4, <1>5

\* Every step keeps what is known of the ends.
LEMMA EndPreserves == EndInv /\ [Next]_vars => EndInv'
<1> SUFFICES ASSUME EndInv, [Next]_vars PROVE EndInv'
  OBVIOUS
<1> USE DEF EndInv
<1>1. IInv'
  BY NextPreserves
<1>2. ASSUME NEW f \in Frame, Encode(f) PROVE EndInv'
  <2>1. /\ writer = "open" /\ writer' = writer /\ eof' = eof /\ reader' = reader
        /\ frames' = Append(frames, f) /\ got' = got /\ cap' = cap
    BY <1>2 DEF Encode
  <2>2. ~eof /\ reader # "ended"
    BY <2>1 DEF AtEnd
  <2>3. AtEnd' /\ CleanEndIsComplete'
    BY <2>1, <2>2 DEF AtEnd, CleanEndIsComplete
  <2>4. FailsForAReason'
    <3> SUFFICES ASSUME reader = "failed" PROVE FailsForAReason'
      BY <2>1 DEF FailsForAReason
    <3>1. /\ Len(got) < Len(frames)
          /\ ~frames[Len(got) + 1].known \/ frames[Len(got) + 1].size > cap["receiver"]
      BY <2>1 DEF FailsForAReason
    <3>2. frames \in Seq(Frame) /\ Len(frames) \in Nat /\ Len(got) \in Nat
      BY DEF IInv, TypeOK
    <3>3. frames'[Len(got) + 1] = frames[Len(got) + 1] /\ Len(got) < Len(frames')
      BY <2>1, <3>1, <3>2
    <3> QED BY <2>1, <3>1, <3>3 DEF FailsForAReason
  <2> QED BY <1>1, <2>3, <2>4
<1>3. ASSUME NEW f \in Seen, DecodeFrame(f) PROVE EndInv'
  BY <1>1, <1>3 DEF DecodeFrame, sending, AtEnd, FailsForAReason, CleanEndIsComplete
<1>4. ASSUME NEW f \in Seen, DecodeUnknown(f) \/ DecodeTooLarge(f) PROVE EndInv'
  <2>1. Len(got) < Len(frames) /\ f = frames[Len(got) + 1]
    BY <1>4, DecodePreserves
  <2>2. /\ ~f.known \/ f.size > cap["receiver"]
        /\ reader' = "failed" /\ got' = got /\ frames' = frames /\ cap' = cap
        /\ eof' = eof /\ writer' = writer /\ arrived' = arrived /\ flushed' = flushed
    BY <1>4 DEF DecodeUnknown, DecodeTooLarge, sending
  <2>3. AtEnd' /\ CleanEndIsComplete'
    BY <2>2 DEF AtEnd, CleanEndIsComplete
  <2>4. FailsForAReason'
    BY <2>1, <2>2 DEF FailsForAReason
  <2> QED BY <1>1, <2>3, <2>4
<1>5. ASSUME DecodeEof PROVE EndInv'
  <2>1. /\ reader = "reading" /\ eof /\ NeedsMore /\ writer = "closed" /\ arrived = flushed
        /\ reader' = IF Buffered = 0 THEN "ended" ELSE "failed"
        /\ UNCHANGED <<sending, arrived, consumed, readable, eof, got>>
    BY <1>5 DEF DecodeEof, AtEnd
  <2>2. /\ Buffered # 0 => flushed # written
        /\ Buffered = 0 => \A k \in 1..Len(frames) : flushed >= Boundary(k) => k <= Len(got)
    BY <2>1, NothingHeldBack
  <2>3. FailsForAReason'
    BY <2>1, <2>2 DEF sending, FailsForAReason
  <2>4. CleanEndIsComplete'
    BY <2>1, <2>2 DEF sending, CleanEndIsComplete, Boundary, Buffered, IInv, TypeOK
  <2>5. AtEnd'
    BY <2>1 DEF sending, AtEnd
  <2> QED BY <1>1, <2>3, <2>4, <2>5
<1>6. ASSUME ReadFails PROVE EndInv'
  BY <1>1, <1>6 DEF ReadFails, sending, AtEnd, FailsForAReason, CleanEndIsComplete
<1>7. ASSUME Flush \/ Closes \/ \E f \in Frame : EncodeRefuses(f) PROVE EndInv'
  <2>1. /\ writer = "open" /\ eof' = eof /\ reader' = reader /\ frames' = frames
        /\ got' = got /\ cap' = cap
    BY <1>7 DEF Flush, Closes, EncodeRefuses
  <2>2. ~eof /\ reader # "ended"
    BY <2>1 DEF AtEnd
  <2> QED BY <1>1, <2>1, <2>2 DEF AtEnd, FailsForAReason, CleanEndIsComplete
<1>8. ASSUME Read PROVE EndInv'
  <2>1. arrived < flushed
    BY <1>8 DEF Read, IInv, TypeOK
  <2>2. ~eof
    BY <2>1 DEF AtEnd, IInv, TypeOK
  <2> QED BY <1>1, <1>8, <2>2 DEF Read, sending, AtEnd, FailsForAReason, CleanEndIsComplete
<1>9. ASSUME ReadEof PROVE EndInv'
  BY <1>1, <1>9 DEF ReadEof, sending, AtEnd, FailsForAReason, CleanEndIsComplete
<1>10. ASSUME DecodeNone \/ UNCHANGED vars PROVE EndInv'
  BY <1>1, <1>10 DEF DecodeNone, sending, vars, AtEnd, FailsForAReason,
                     CleanEndIsComplete, Boundary
<1> QED BY <1>2, <1>3, <1>4, <1>5, <1>6, <1>7, <1>8, <1>9, <1>10 DEF Next, Decode

\* What is known of the ends always holds.
LEMMA EndInvHolds == SafeSpec => []EndInv
<1>1. Init => EndInv
  BY InitEstablishes DEF Init, EndInv, AtEnd, FailsForAReason, CleanEndIsComplete
<1> QED BY <1>1, EndPreserves, PTL DEF SafeSpec

\* The pieces the bytes come in never make the stream fail.
THEOREM FailuresHaveReasons == SafeSpec => []FailsForAReason
<1>1. EndInv => FailsForAReason
  BY DEF EndInv
<1> QED BY <1>1, EndInvHolds, PTL

\* No frame that was sent is lost in the buffer when the stream ends.
THEOREM CleanEndsLoseNothing == SafeSpec => []CleanEndIsComplete
<1>1. EndInv => CleanEndIsComplete
  BY DEF EndInv
<1> QED BY <1>1, EndInvHolds, PTL

\* For every cut of the stream the receiver is in its place while it reads, and when it
\* stops it has a reason and all it could have had.
THEOREM ReaderStaysRight == SafeSpec => []ReaderIsRight
<1>1. InSync /\ FailsForAReason /\ CleanEndIsComplete => ReaderIsRight
  BY DEF ReaderIsRight
<1> QED BY <1>1, DecoderStaysInSync, FailuresHaveReasons, CleanEndsLoseNothing, PTL

-------------------------------------------------------------------------------
(* PeerSession.  A direction is named by its sending end e; Other(e) receives.   *)

\* The messages on their way to Other(e), the oldest first.
OnTheWay(e) == reading[Other(e)] \o (link[e] \o (writing[e] \o outbound[e]))

\* What the owner of the receiving end has, and what waits for it in its channel.
Delivered(e) == received[Other(e)] \o inbound[Other(e)]

IsPrefixOf(p, q) == Len(p) <= Len(q) /\ \A i \in 1..Len(p) : p[i] = q[i]

\* What holds of one direction, whatever the tasks and owners of both ends have done.
\* While the receiving end listens and reads, everything accepted is somewhere between
\* the two owners, in order.
Complete(e) ==
  Other(e) \in holdsRx /\ readTask[Other(e)] = "runs" =>
    accepted[e] = Delivered(e) \o OnTheWay(e)

\* When the reader has ended, for whatever reason, what was delivered is a prefix; when
\* the owner has dropped its channel, what it had received.
Prefixes(e) ==
  /\ IsPrefixOf(received[Other(e)], accepted[e])
  /\ Other(e) \in holdsRx => IsPrefixOf(Delivered(e), accepted[e])

\* A reader sees the end of the stream only behind a writer that has ended; a writer
\* that drained its channel left nothing behind; both together lose nothing.
Ending(e) ==
  /\ readTask[Other(e)] = "eof" => writeTask[e] # "runs"
  /\ writeTask[e] = "drained" => outbound[e] = <<>> /\ writing[e] = <<>>
  /\ writeTask[e] = "drained" /\ readTask[Other(e)] = "eof" /\ Other(e) \in holdsRx =>
       Delivered(e) = accepted[e]

Direction(e) == Complete(e) /\ Prefixes(e) /\ Ending(e)

\* The inductive invariant of PeerSession.
PeerInv == PeerTypeOK /\ \A e \in Ends : Direction(e)

\* The end and its other.
LEMMA TwoEnds ==
  ASSUME NEW e \in Ends
  PROVE  /\ Other(e) \in Ends /\ Other(e) # e /\ Other(Other(e)) = e
         /\ \A d \in Ends : d = e \/ d = Other(e)
  BY DEF Ends, Other

\* A message that is passed on, from the head of one queue to the end of the one in front.
LEMMA Passed ==
  \A p, q \in Seq(Message) : q # <<>> =>
    /\ Head(q) \in Message /\ Tail(q) \in Seq(Message) /\ Len(Tail(q)) = Len(q) - 1
    /\ Append(p, Head(q)) \in Seq(Message) /\ Len(Append(p, Head(q))) = Len(p) + 1
    /\ Append(p, Head(q)) \o Tail(q) = p \o q
<1> TAKE p, q \in Seq(Message)
<1> HAVE q # <<>>
<1>1. Head(q) \in Message /\ Tail(q) \in Seq(Message) /\ Len(Tail(q)) = Len(q) - 1
  BY HeadTailProperties, EmptySeq
<1>2. <<Head(q)>> \in Seq(Message) /\ Append(p, Head(q)) = p \o <<Head(q)>>
  BY <1>1, AppendIsConcat
<1>3. Append(p, Head(q)) \in Seq(Message) /\ Len(Append(p, Head(q))) = Len(p) + 1
  BY <1>1, AppendProperties
<1>4. <<Head(q)>> \o Tail(q) = q
  <2>1. Len(<<Head(q)>> \o Tail(q)) = Len(q) /\ <<Head(q)>> \o Tail(q) \in Seq(Message)
    BY <1>1, <1>2, ConcatProperties
  <2>2. ASSUME NEW i \in 1..Len(q) PROVE (<<Head(q)>> \o Tail(q))[i] = q[i]
    <3>1. (<<Head(q)>> \o Tail(q))[i] = IF i <= 1 THEN <<Head(q)>>[i] ELSE Tail(q)[i - 1]
      BY <1>1, <1>2, <2>1, ConcatProperties
    <3>2. Head(q) = q[1] /\ \A j \in 1..Len(Tail(q)) : Tail(q)[j] = q[j + 1]
      BY HeadTailProperties, EmptySeq
    <3> QED BY <1>1, <3>1, <3>2
  <2> QED BY <2>1, <2>2, SeqEqual
<1>5. (p \o <<Head(q)>>) \o Tail(q) = p \o (<<Head(q)>> \o Tail(q))
  BY <1>1, <1>2, ConcatAssociative
<1> QED BY <1>1, <1>2, <1>3, <1>4, <1>5

\* A task holds one message at most.
LEMMA Single ==
  \A q \in Seq(Message) : q # <<>> /\ Len(q) <= 1 => Tail(q) = <<>> /\ q = <<Head(q)>>
<1> TAKE q \in Seq(Message)
<1> HAVE q # <<>> /\ Len(q) <= 1
<1>1. Len(q) = 1 /\ Tail(q) \in Seq(Message) /\ Len(Tail(q)) = 0 /\ Head(q) = q[1]
  <2>1. Len(q) \in Nat /\ Len(q) # 0
    BY EmptySeq
  <2>2. Tail(q) \in Seq(Message) /\ Len(Tail(q)) = Len(q) - 1 /\ Head(q) = q[1]
    BY HeadTailProperties
  <2> QED BY <2>1, <2>2
<1>2. Tail(q) = <<>>
  BY <1>1, EmptySeq
<1> QED BY <1>1, <1>2, SeqEqual

\* A message that is added behind all others.
LEMMA Added ==
  \A p, q \in Seq(Message) : \A m \in Message : p \o Append(q, m) = Append(p \o q, m)
<1> TAKE p, q \in Seq(Message)
<1> TAKE m \in Message
<1>1. <<m>> \in Seq(Message) /\ p \o q \in Seq(Message)
  BY ConcatProperties
<1>2. Append(q, m) = q \o <<m>> /\ Append(p \o q, m) = (p \o q) \o <<m>>
  BY <1>1, AppendIsConcat
<1> QED BY <1>1, <1>2, ConcatAssociative

\* What is put together in two ways.
LEMMA Associative ==
  \A p, q, r \in Seq(Message) : (p \o q) \o r = p \o (q \o r)
BY ConcatAssociative

\* What stands in front is a prefix, and stays one.
LEMMA PrefixOfConcat ==
  ASSUME NEW S, NEW p \in Seq(S), NEW q \in Seq(S)
  PROVE  IsPrefixOf(p, p \o q)
<1>1. Len(p \o q) = Len(p) + Len(q) /\ \A i \in 1..Len(p) : (p \o q)[i] = p[i]
  BY ConcatProperties
<1> QED BY <1>1 DEF IsPrefixOf

\* A sequence begins what it is continued to.
LEMMA PrefixOfAppend ==
  ASSUME NEW S, NEW p \in Seq(S), NEW q \in Seq(S), NEW m \in S, IsPrefixOf(p, q)
  PROVE  IsPrefixOf(p, Append(q, m))
<1>1. Len(Append(q, m)) = Len(q) + 1 /\ \A i \in 1..Len(q) : Append(q, m)[i] = q[i]
  BY AppendProperties
<1> QED BY <1>1 DEF IsPrefixOf

\* What begins a beginning begins the whole.
LEMMA PrefixTransitive ==
  ASSUME NEW S, NEW p \in Seq(S), NEW q \in Seq(S), NEW r \in Seq(S),
         IsPrefixOf(p, q), IsPrefixOf(q, r)
  PROVE  IsPrefixOf(p, r)
  BY DEF IsPrefixOf

\* The types of what is on the way in one direction.
LEMMA Typed ==
  ASSUME PeerTypeOK, NEW e \in Ends
  PROVE  /\ outbound[e] \in Seq(Message) /\ Len(outbound[e]) <= OutCap
         /\ writing[e] \in Seq(Message) /\ Len(writing[e]) <= 1
         /\ link[e] \in Seq(Message) /\ Len(link[e]) <= LinkCap
         /\ reading[e] \in Seq(Message) /\ Len(reading[e]) <= 1
         /\ inbound[e] \in Seq(Message) /\ Len(inbound[e]) <= InCap
         /\ accepted[e] \in Seq(Message) /\ Len(accepted[e]) <= MaxMsgs[e]
         /\ received[e] \in Seq(Message)
         /\ Delivered(e) \in Seq(Message) /\ OnTheWay(e) \in Seq(Message)
<1>1. \A d \in Ends :
        /\ outbound[d] \in Seq(Message) /\ Len(outbound[d]) <= OutCap
        /\ writing[d] \in Seq(Message) /\ Len(writing[d]) <= 1
        /\ link[d] \in Seq(Message) /\ Len(link[d]) <= LinkCap
        /\ reading[d] \in Seq(Message) /\ Len(reading[d]) <= 1
        /\ inbound[d] \in Seq(Message) /\ Len(inbound[d]) <= InCap
        /\ accepted[d] \in Seq(Message) /\ Len(accepted[d]) <= MaxMsgs[d]
        /\ received[d] \in Seq(Message)
  BY DEF PeerTypeOK, AtMost
<1>2. Other(e) \in Ends
  BY TwoEnds
<1>3. Delivered(e) \in Seq(Message) /\ OnTheWay(e) \in Seq(Message)
  BY <1>1, <1>2, ConcatProperties DEF Delivered, OnTheWay
<1> QED BY <1>1, <1>3

\* A step that leaves the places of a direction alone leaves the direction as it was.
LEMMA SameDirection ==
  ASSUME NEW e \in Ends, Direction(e),
         Other(e) \in holdsRx' <=> Other(e) \in holdsRx,
         readTask'[Other(e)] = readTask[Other(e)], writeTask'[e] = writeTask[e],
         accepted'[e] = accepted[e], received'[Other(e)] = received[Other(e)],
         inbound'[Other(e)] = inbound[Other(e)], reading'[Other(e)] = reading[Other(e)],
         link'[e] = link[e], writing'[e] = writing[e], outbound'[e] = outbound[e]
  PROVE  Direction(e)'
<1>1. Delivered(e)' = Delivered(e) /\ OnTheWay(e)' = OnTheWay(e)
  BY DEF Delivered, OnTheWay
<1>2. Complete(e)'
  BY <1>1 DEF Direction, Complete
<1>3. Prefixes(e)'
  BY <1>1 DEF Direction, Prefixes
<1>4. Ending(e)'
  BY <1>1 DEF Direction, Ending
<1> QED BY <1>2, <1>3, <1>4 DEF Direction

\* The bounded queues, with a message less or a message more.
LEMMA QueueTypes ==
  ASSUME NEW k \in Nat, NEW f \in [Ends -> AtMost(k)], NEW e \in Ends
  PROVE  /\ [f EXCEPT ![e] = <<>>] \in [Ends -> AtMost(k)]
         /\ f[e] # <<>> => [f EXCEPT ![e] = Tail(@)] \in [Ends -> AtMost(k)]
         /\ \A m \in Message :
              Len(f[e]) < k => [f EXCEPT ![e] = Append(@, m)] \in [Ends -> AtMost(k)]
<1>1. f[e] \in Seq(Message) /\ Len(f[e]) \in Nat /\ Len(f[e]) <= k
  BY DEF AtMost
<1>2. <<>> \in AtMost(k)
  BY DEF AtMost
<1>3. f[e] # <<>> => Tail(f[e]) \in AtMost(k)
  BY <1>1, Passed DEF AtMost
<1>4. ASSUME NEW m \in Message, Len(f[e]) < k PROVE Append(f[e], m) \in AtMost(k)
  <2>1. Append(f[e], m) \in Seq(Message) /\ Len(Append(f[e], m)) = Len(f[e]) + 1
    BY <1>1, AppendProperties
  <2> QED BY <1>1, <1>4, <2>1 DEF AtMost
<1> QED BY <1>2, <1>3, <1>4

\* What a task holds, when it takes a message.
LEMMA HeldTypes ==
  ASSUME NEW f \in [Ends -> AtMost(1)], NEW e \in Ends, NEW m \in Message
  PROVE  [f EXCEPT ![e] = <<m>>] \in [Ends -> AtMost(1)]
<1>1. <<m>> \in Seq(Message) /\ Len(<<m>>) = 1
  OBVIOUS
<1>2. <<m>> \in AtMost(1)
  BY <1>1 DEF AtMost
<1> QED BY <1>2

\* The steps of the sending end of a direction, each with its effect on the types and on
\* both directions.

\* What is added behind everything else leaves all that was delivered a prefix.
LEMMA OwnerSendsPreserves ==
  ASSUME PeerInv, NEW e \in Ends, NEW kind \in {"plain", "large", "unknown"},
         OwnerSends(e, kind)
  PROVE  PeerInv'
<1> USE PeerAssumption DEF PeerAssumption
<1> DEFINE m == [n |-> Len(accepted[e]) + 1, kind |-> kind]
<1>1. /\ e \in holdsTx /\ writeTask[e] = "runs" /\ Len(outbound[e]) < OutCap
      /\ Len(accepted[e]) < MaxMsgs[e]
      /\ outbound' = [outbound EXCEPT ![e] = Append(@, m)]
      /\ accepted' = [accepted EXCEPT ![e] = Append(@, m)]
      /\ UNCHANGED <<holdsTx, holdsRx, received, writing, writeTask, readers, link, broken>>
  BY DEF OwnerSends
<1>2. PeerTypeOK /\ Direction(e) /\ Direction(Other(e))
  BY TwoEnds DEF PeerInv
<1>3. m \in Message
  <2>1. Len(accepted[e]) + 1 \in 1..MaxMsgs[e]
    BY <1>1, <1>2, Typed
  <2> QED BY <2>1 DEF Message
<1> HIDE DEF m
<1>4. /\ accepted'[e] = Append(accepted[e], m) /\ outbound'[e] = Append(outbound[e], m)
      /\ \A d \in Ends : d # e => accepted'[d] = accepted[d] /\ outbound'[d] = outbound[d]
  BY <1>1, <1>2 DEF PeerTypeOK
<1>5. PeerTypeOK'
  <2>1. outbound' \in [Ends -> AtMost(OutCap)]
    BY <1>1, <1>2, <1>3, QueueTypes DEF PeerTypeOK
  <2>2. accepted' \in [Ends -> Seq(Message)]
    <3>1. Append(accepted[e], m) \in Seq(Message)
      BY <1>2, <1>3, Typed, AppendProperties
    <3> QED BY <1>1, <1>2, <3>1 DEF PeerTypeOK
  <2>3. \A d \in Ends : Len(accepted'[d]) <= MaxMsgs[d]
    <3>1. Len(accepted'[e]) = Len(accepted[e]) + 1
      BY <1>2, <1>3, <1>4, Typed, AppendProperties
    <3> QED BY <1>1, <1>2, <1>4, <3>1, Typed
  <2> QED BY <1>1, <1>2, <2>1, <2>2, <2>3 DEF PeerTypeOK, readers
<1>6. Delivered(e)' = Delivered(e) /\ OnTheWay(e)' = Append(OnTheWay(e), m)
  <2>1. /\ reading[Other(e)] \in Seq(Message) /\ link[e] \in Seq(Message)
        /\ writing[e] \in Seq(Message) /\ outbound[e] \in Seq(Message)
    BY <1>2, Typed, TwoEnds
  <2>2. writing[e] \o Append(outbound[e], m) = Append(writing[e] \o outbound[e], m)
    BY <1>3, <2>1, Added
  <2>3. writing[e] \o outbound[e] \in Seq(Message)
    BY <2>1, ConcatProperties
  <2>4. link[e] \o Append(writing[e] \o outbound[e], m)
          = Append(link[e] \o (writing[e] \o outbound[e]), m)
    BY <1>3, <2>1, <2>3, Added
  <2>5. link[e] \o (writing[e] \o outbound[e]) \in Seq(Message)
    BY <2>1, <2>3, ConcatProperties
  <2>6. reading[Other(e)] \o Append(link[e] \o (writing[e] \o outbound[e]), m)
          = Append(reading[Other(e)] \o (link[e] \o (writing[e] \o outbound[e])), m)
    BY <1>3, <2>1, <2>5, Added
  <2> QED BY <1>1, <1>4, <2>2, <2>4, <2>6 DEF Delivered, OnTheWay, readers
<1>7. Direction(e)'
  <2>1. Complete(e)'
    <3>1. Delivered(e) \o Append(OnTheWay(e), m) = Append(Delivered(e) \o OnTheWay(e), m)
      BY <1>2, <1>3, Typed, Added
    <3> QED BY <1>1, <1>2, <1>4, <1>6, <3>1 DEF Direction, Complete, readers
  <2>2. Prefixes(e)'
    <3>1. IsPrefixOf(received[Other(e)], Append(accepted[e], m))
      BY <1>2, <1>3, Typed, TwoEnds, PrefixOfAppend DEF Direction, Prefixes
    <3>2. Other(e) \in holdsRx => IsPrefixOf(Delivered(e), Append(accepted[e], m))
      BY <1>2, <1>3, Typed, PrefixOfAppend DEF Direction, Prefixes
    <3> QED BY <1>1, <1>4, <1>6, <3>1, <3>2 DEF Prefixes
  <2>3. Ending(e)'
    BY <1>1, <1>2, TwoEnds DEF Direction, Ending, readers
  <2> QED BY <2>1, <2>2, <2>3 DEF Direction
<1>8. Direction(Other(e))'
  BY <1>1, <1>2, <1>4, TwoEnds, SameDirection DEF readers
<1> QED BY <1>5, <1>7, <1>8, TwoEnds DEF PeerInv

\* A message the writer takes stays on its way.
LEMMA WriterTakesPreserves ==
  ASSUME PeerInv, NEW e \in Ends, WriterTakes(e)
  PROVE  PeerInv'
<1> USE PeerAssumption DEF PeerAssumption
<1>1. /\ writeTask[e] = "runs" /\ writing[e] = <<>> /\ outbound[e] # <<>>
      /\ writing' = [writing EXCEPT ![e] = <<Head(outbound[e])>>]
      /\ outbound' = [outbound EXCEPT ![e] = Tail(@)]
      /\ UNCHANGED <<channels, writeTask, readers, link, broken>>
  BY DEF WriterTakes
<1>2. PeerTypeOK /\ Direction(e) /\ Direction(Other(e))
  BY TwoEnds DEF PeerInv
<1>3. outbound[e] \in Seq(Message) /\ Head(outbound[e]) \in Message
  BY <1>1, <1>2, Typed, Passed
<1>4. /\ writing'[e] = <<Head(outbound[e])>> /\ outbound'[e] = Tail(outbound[e])
      /\ \A d \in Ends : d # e => writing'[d] = writing[d] /\ outbound'[d] = outbound[d]
  BY <1>1, <1>2 DEF PeerTypeOK
<1>5. PeerTypeOK'
  <2>1. outbound' \in [Ends -> AtMost(OutCap)]
    BY <1>1, <1>2, QueueTypes DEF PeerTypeOK
  <2>2. writing' \in [Ends -> AtMost(1)]
    BY <1>1, <1>2, <1>3, HeldTypes DEF PeerTypeOK
  <2> QED BY <1>1, <1>2, <2>1, <2>2 DEF PeerTypeOK, readers, channels
<1>6. Delivered(e)' = Delivered(e) /\ OnTheWay(e)' = OnTheWay(e)
  <2>1. <<Head(outbound[e])>> \o Tail(outbound[e]) = <<>> \o outbound[e]
    <3>1. <<>> \in Seq(Message) /\ Append(<<>>, Head(outbound[e])) = <<Head(outbound[e])>>
      OBVIOUS
    <3> QED BY <1>1, <1>3, <3>1, Passed
  <2> QED BY <1>1, <1>4, <2>1 DEF Delivered, OnTheWay, readers, channels
<1>7. Direction(e)'
  <2>1. Complete(e)'
    BY <1>1, <1>2, <1>6 DEF Direction, Complete, readers, channels
  <2>2. Prefixes(e)'
    BY <1>1, <1>2, <1>6 DEF Direction, Prefixes, channels
  <2>3. Ending(e)'
    BY <1>1, <1>2, TwoEnds DEF Direction, Ending, readers
  <2> QED BY <2>1, <2>2, <2>3 DEF Direction
<1>8. Direction(Other(e))'
  BY <1>1, <1>2, <1>4, TwoEnds, SameDirection DEF readers, channels
<1> QED BY <1>5, <1>7, <1>8, TwoEnds DEF PeerInv

\* A message that is written stays on its way.
LEMMA WriterWritesPreserves ==
  ASSUME PeerInv, NEW e \in Ends, WriterWrites(e)
  PROVE  PeerInv'
<1> USE PeerAssumption DEF PeerAssumption
<1>1. /\ writeTask[e] = "runs" /\ writing[e] # <<>> /\ Len(link[e]) < LinkCap
      /\ link' = [link EXCEPT ![e] = Append(@, Head(writing[e]))]
      /\ writing' = [writing EXCEPT ![e] = <<>>]
      /\ UNCHANGED <<channels, outbound, writeTask, readers, broken>>
  BY DEF WriterWrites
<1>2. PeerTypeOK /\ Direction(e) /\ Direction(Other(e))
  BY TwoEnds DEF PeerInv
<1>3. /\ writing[e] \in Seq(Message) /\ Len(writing[e]) <= 1 /\ Head(writing[e]) \in Message
      /\ link[e] \in Seq(Message) /\ outbound[e] \in Seq(Message)
  BY <1>1, <1>2, Typed, Passed
<1>4. /\ link'[e] = Append(link[e], Head(writing[e])) /\ writing'[e] = <<>>
      /\ \A d \in Ends : d # e => writing'[d] = writing[d] /\ link'[d] = link[d]
  BY <1>1, <1>2 DEF PeerTypeOK
<1>5. PeerTypeOK'
  <2>1. link' \in [Ends -> AtMost(LinkCap)]
    BY <1>1, <1>2, <1>3, QueueTypes DEF PeerTypeOK
  <2>2. writing' \in [Ends -> AtMost(1)]
    BY <1>1, <1>2, QueueTypes DEF PeerTypeOK
  <2> QED BY <1>1, <1>2, <2>1, <2>2 DEF PeerTypeOK, readers, channels
<1>6. Delivered(e)' = Delivered(e) /\ OnTheWay(e)' = OnTheWay(e)
  <2>1. /\ Tail(writing[e]) = <<>> /\ Append(link[e], Head(writing[e])) \in Seq(Message)
        /\ Append(link[e], Head(writing[e])) \o Tail(writing[e]) = link[e] \o writing[e]
    <3>1. Tail(writing[e]) = <<>>
      BY <1>1, <1>3, Single
    <3> QED BY <1>1, <1>3, <3>1, Passed
  <2>2. Append(link[e], Head(writing[e])) = link[e] \o writing[e]
    BY <2>1, ConcatEmptySeq
  <2>3. (link[e] \o writing[e]) \o outbound[e] = link[e] \o (writing[e] \o outbound[e])
    BY <1>3, Associative
  <2>4. <<>> \o outbound[e] = outbound[e]
    BY <1>3, ConcatEmptySeq
  <2> QED BY <1>1, <1>4, <2>2, <2>3, <2>4 DEF Delivered, OnTheWay, readers, channels
<1>7. Direction(e)'
  <2>1. Complete(e)'
    BY <1>1, <1>2, <1>6 DEF Direction, Complete, readers, channels
  <2>2. Prefixes(e)'
    BY <1>1, <1>2, <1>6 DEF Direction, Prefixes, channels
  <2>3. Ending(e)'
    BY <1>1, <1>2, TwoEnds DEF Direction, Ending, readers
  <2> QED BY <2>1, <2>2, <2>3 DEF Direction
<1>8. Direction(Other(e))'
  BY <1>1, <1>2, <1>4, TwoEnds, SameDirection DEF readers, channels
<1> QED BY <1>5, <1>7, <1>8, TwoEnds DEF PeerInv

\* A writer that ends leaves everything where it is; one that drained its channel had
\* nothing left.
LEMMA WriterEndsPreserves ==
  ASSUME PeerInv, NEW e \in Ends, WriterRefused(e) \/ WriterFails(e) \/ WriterDrained(e)
  PROVE  PeerInv'
<1>1. PICK how \in {"refused", "failed", "drained"} :
        /\ writeTask[e] = "runs" /\ writeTask' = [writeTask EXCEPT ![e] = how]
        /\ how = "drained" => writing[e] = <<>> /\ outbound[e] = <<>>
        /\ UNCHANGED <<channels, outbound, writing, readers, link, broken>>
  BY DEF WriterRefused, WriterFails, WriterDrained, WriterEndsAs
<1>2. PeerTypeOK /\ Direction(e) /\ Direction(Other(e))
  BY TwoEnds DEF PeerInv
<1>3. writeTask'[e] = how /\ \A d \in Ends : d # e => writeTask'[d] = writeTask[d]
  BY <1>1, <1>2 DEF PeerTypeOK
<1>4. PeerTypeOK'
  BY <1>1, <1>2 DEF PeerTypeOK, readers, channels
<1>5. Delivered(e)' = Delivered(e) /\ OnTheWay(e)' = OnTheWay(e)
  BY <1>1 DEF Delivered, OnTheWay, readers, channels
<1>6. Direction(e)'
  <2>1. Complete(e)' /\ Prefixes(e)'
    BY <1>1, <1>2, <1>5 DEF Direction, Complete, Prefixes, readers, channels
  <2>2. readTask[Other(e)] # "eof"
    BY <1>1, <1>2 DEF Direction, Ending
  <2>3. Ending(e)'
    BY <1>1, <1>3, <2>2 DEF Ending, readers
  <2> QED BY <2>1, <2>3 DEF Direction
<1>7. Direction(Other(e))'
  BY <1>1, <1>2, <1>3, TwoEnds, SameDirection DEF readers, channels
<1> QED BY <1>4, <1>6, <1>7, TwoEnds DEF PeerInv

\* What a reset loses was for a reader that had ended.
LEMMA ResetPreserves ==
  ASSUME PeerInv, NEW e \in Ends, Reset(e)
  PROVE  PeerInv'
<1> USE PeerAssumption DEF PeerAssumption
<1>1. /\ readTask[Other(e)] # "runs"
      /\ broken' = broken \cup {e} /\ link' = [link EXCEPT ![e] = <<>>]
      /\ UNCHANGED <<channels, writers, readers>>
  BY DEF Reset, Closed
<1>2. PeerTypeOK /\ Direction(e) /\ Direction(Other(e))
  BY TwoEnds DEF PeerInv
<1>3. \A d \in Ends : d # e => link'[d] = link[d]
  BY <1>1, <1>2 DEF PeerTypeOK
<1>4. PeerTypeOK'
  <2>1. link' \in [Ends -> AtMost(LinkCap)]
    BY <1>1, <1>2, QueueTypes DEF PeerTypeOK
  <2> QED BY <1>1, <1>2, <2>1 DEF PeerTypeOK, readers, writers, channels
<1>5. Direction(e)'
  <2>1. Delivered(e)' = Delivered(e)
    BY <1>1 DEF Delivered, readers, channels
  <2>2. Complete(e)'
    BY <1>1 DEF Complete, readers
  <2>3. Prefixes(e)' /\ Ending(e)'
    BY <1>1, <1>2, <2>1 DEF Direction, Prefixes, Ending, readers, writers, channels
  <2> QED BY <2>2, <2>3 DEF Direction
<1>6. Direction(Other(e))'
  BY <1>1, <1>2, <1>3, TwoEnds, SameDirection DEF readers, writers, channels
<1> QED BY <1>4, <1>5, <1>6, TwoEnds DEF PeerInv

\* The steps of the receiving end of a direction.

\* The owner receives what was delivered first.
LEMMA OwnerReceivesPreserves ==
  ASSUME PeerInv, NEW r \in Ends, OwnerReceives(r)
  PROVE  PeerInv'
<1> USE PeerAssumption DEF PeerAssumption
<1> DEFINE e == Other(r)
<1>e. e \in Ends /\ Other(e) = r /\ e # r /\ \A d \in Ends : d = e \/ d = r
  BY TwoEnds
<1> HIDE DEF e
<1>1. /\ r \in holdsRx /\ inbound[r] # <<>>
      /\ received' = [received EXCEPT ![r] = Append(@, Head(inbound[r]))]
      /\ inbound' = [inbound EXCEPT ![r] = Tail(@)]
      /\ UNCHANGED <<holdsTx, holdsRx, accepted, writers, readTask, reading, link, broken>>
  BY DEF OwnerReceives
<1>2. PeerTypeOK /\ Direction(e) /\ Direction(r)
  BY <1>e DEF PeerInv
<1>3. /\ inbound[r] \in Seq(Message) /\ received[r] \in Seq(Message)
      /\ Delivered(e) \in Seq(Message) /\ accepted[e] \in Seq(Message)
  BY <1>2, <1>e, Typed
<1>4. /\ received'[r] = Append(received[r], Head(inbound[r])) /\ inbound'[r] = Tail(inbound[r])
      /\ \A d \in Ends : d # r => received'[d] = received[d] /\ inbound'[d] = inbound[d]
  BY <1>1, <1>2 DEF PeerTypeOK
<1>5. /\ received'[r] \in Seq(Message) /\ inbound'[r] \in Seq(Message)
      /\ received'[r] \o inbound'[r] = received[r] \o inbound[r]
  BY <1>1, <1>3, <1>4, Passed
<1>6. Delivered(e)' = Delivered(e) /\ OnTheWay(e)' = OnTheWay(e)
  BY <1>1, <1>5, <1>e DEF Delivered, OnTheWay, writers
<1>7. IsPrefixOf(received'[r], accepted[e])
  <2>1. IsPrefixOf(received'[r], Delivered(e))
    BY <1>5, <1>e, PrefixOfConcat DEF Delivered
  <2>2. IsPrefixOf(Delivered(e), accepted[e])
    BY <1>1, <1>2, <1>e DEF Direction, Prefixes
  <2> QED BY <1>3, <1>5, <2>1, <2>2, PrefixTransitive
<1>8. PeerTypeOK'
  <2>1. inbound' \in [Ends -> AtMost(InCap)]
    BY <1>1, <1>2, QueueTypes DEF PeerTypeOK
  <2>2. received' \in [Ends -> Seq(Message)]
    BY <1>1, <1>2, <1>4, <1>5 DEF PeerTypeOK
  <2>3. Len(received'[r]) <= MaxMsgs[e]
    <3>1. Len(received'[r]) <= Len(accepted[e]) /\ Len(accepted[e]) <= MaxMsgs[e]
      BY <1>2, <1>7, <1>e, Typed DEF IsPrefixOf
    <3>2. Len(received'[r]) \in Nat /\ Len(accepted[e]) \in Nat /\ MaxMsgs[e] \in Nat
      BY <1>3, <1>5, <1>e, LenProperties
    <3> QED BY <3>1, <3>2
  <2>4. \A d \in Ends : Len(received'[d]) <= MaxMsgs[Other(d)]
    BY <1>2, <1>4, <2>3, <1>e DEF PeerTypeOK, e
  <2> QED BY <1>1, <1>2, <2>1, <2>2, <2>4 DEF PeerTypeOK, writers
<1>9. Direction(e)'
  <2>1. Complete(e)'
    BY <1>1, <1>2, <1>6, <1>e DEF Direction, Complete
  <2>2. Prefixes(e)'
    BY <1>1, <1>2, <1>6, <1>7, <1>e DEF Direction, Prefixes
  <2>3. Ending(e)'
    BY <1>1, <1>2, <1>6, <1>e DEF Direction, Ending, writers
  <2> QED BY <2>1, <2>2, <2>3 DEF Direction
<1>10. Direction(r)'
  BY <1>1, <1>2, <1>4, <1>e, SameDirection DEF writers, e
<1> QED BY <1>8, <1>9, <1>10, <1>e DEF PeerInv

\* An owner that drops its channel loses what it had not received: a prefix is left.
LEMMA DropsInboundPreserves ==
  ASSUME PeerInv, NEW r \in Ends, DropsInbound(r)
  PROVE  PeerInv'
<1> USE PeerAssumption DEF PeerAssumption
<1> DEFINE e == Other(r)
<1>e. e \in Ends /\ Other(e) = r /\ e # r /\ \A d \in Ends : d = e \/ d = r
  BY TwoEnds
<1>1. /\ holdsRx' = holdsRx \ {r} /\ inbound' = [inbound EXCEPT ![r] = <<>>]
      /\ UNCHANGED <<holdsTx, accepted, received, writers, readTask, reading, link, broken>>
  BY DEF DropsInbound
<1>2. PeerTypeOK /\ Direction(e) /\ Direction(r)
  BY <1>e DEF PeerInv
<1>3. \A d \in Ends : d # r => inbound'[d] = inbound[d]
  BY <1>1, <1>2 DEF PeerTypeOK
<1>4. PeerTypeOK'
  <2>1. inbound' \in [Ends -> AtMost(InCap)]
    BY <1>1, <1>2, QueueTypes DEF PeerTypeOK
  <2> QED BY <1>1, <1>2, <2>1 DEF PeerTypeOK, writers
<1>5. Direction(e)'
  BY <1>1, <1>2, <1>e DEF Direction, Complete, Prefixes, Ending, writers
<1>6. Direction(r)'
  BY <1>1, <1>2, <1>3, <1>e, SameDirection DEF writers
<1> QED BY <1>4, <1>5, <1>6, <1>e DEF PeerInv

\* A message the reader takes stays on its way; one it does not know ends the reader.
LEMMA ReaderTakesPreserves ==
  ASSUME PeerInv, NEW r \in Ends, ReaderTakes(r)
  PROVE  PeerInv'
<1> USE PeerAssumption DEF PeerAssumption
<1> DEFINE e == Other(r)
<1>e. e \in Ends /\ Other(e) = r /\ e # r /\ \A d \in Ends : d = e \/ d = r
  BY TwoEnds
<1>1. /\ readTask[r] = "runs" /\ reading[r] = <<>> /\ link[e] # <<>>
      /\ link' = [link EXCEPT ![e] = Tail(@)]
      /\ \/ readTask' = [readTask EXCEPT ![r] = "failed"] /\ UNCHANGED reading
         \/ reading' = [reading EXCEPT ![r] = <<Head(link[e])>>] /\ UNCHANGED readTask
      /\ UNCHANGED <<channels, writers, inbound, broken>>
  BY DEF ReaderTakes
<1> HIDE DEF e
<1>2. PeerTypeOK /\ Direction(e) /\ Direction(r)
  BY <1>e DEF PeerInv
<1>3. /\ link[e] \in Seq(Message) /\ Head(link[e]) \in Message
      /\ writing[e] \in Seq(Message) /\ outbound[e] \in Seq(Message)
  BY <1>1, <1>2, <1>e, Typed, Passed
<1>4. /\ link'[e] = Tail(link[e]) /\ \A d \in Ends : d # e => link'[d] = link[d]
      /\ \A d \in Ends : d # r => reading'[d] = reading[d] /\ readTask'[d] = readTask[d]
  BY <1>1, <1>2, <1>e DEF PeerTypeOK
<1>5. PeerTypeOK'
  <2>1. link' \in [Ends -> AtMost(LinkCap)]
    BY <1>1, <1>2, <1>e, QueueTypes DEF PeerTypeOK
  <2>2. reading' \in [Ends -> AtMost(1)]
    <3>1. reading \in [Ends -> AtMost(1)]
      BY <1>2 DEF PeerTypeOK
    <3>2. [reading EXCEPT ![r] = <<Head(link[e])>>] \in [Ends -> AtMost(1)]
      BY <1>3, <3>1, HeldTypes
    <3> QED BY <1>1, <3>1, <3>2
  <2>3. readTask' \in [Ends -> {"runs", "eof", "failed", "unheard", "killed"}]
    BY <1>1, <1>2 DEF PeerTypeOK
  <2> QED BY <1>1, <1>2, <2>1, <2>2, <2>3 DEF PeerTypeOK, writers, channels
<1>6. Delivered(e)' = Delivered(e)
  BY <1>1 DEF Delivered, channels
<1>7. Complete(e)'
  <2>1. CASE readTask' = [readTask EXCEPT ![r] = "failed"]
    BY <1>2, <2>1, <1>e DEF PeerTypeOK, Complete
  <2>2. CASE reading' = [reading EXCEPT ![r] = <<Head(link[e])>>] /\ UNCHANGED readTask
    <3> DEFINE rest == writing[e] \o outbound[e]
    <3>1. rest \in Seq(Message)
      BY <1>3, ConcatProperties
    <3>2. <<Head(link[e])>> \o Tail(link[e]) = link[e]
      <4>1. /\ <<>> \in Seq(Message) /\ Append(<<>>, Head(link[e])) = <<Head(link[e])>>
            /\ <<>> \o link[e] = link[e]
        BY <1>3, ConcatEmptySeq
      <4> QED BY <1>1, <1>3, <4>1, Passed
    <3>3. <<Head(link[e])>> \in Seq(Message) /\ Tail(link[e]) \in Seq(Message)
      BY <1>1, <1>3, Passed
    <3>4. <<Head(link[e])>> \o (Tail(link[e]) \o rest) = link[e] \o rest
      <4> DEFINE first == <<Head(link[e])>>
      <4> DEFINE others == Tail(link[e])
      <4>1. first \in Seq(Message) /\ others \in Seq(Message) /\ rest \in Seq(Message)
        BY <3>1, <3>3
      <4> HIDE DEF first, others, rest
      <4>2. (first \o others) \o rest = first \o (others \o rest)
        BY <4>1, Associative
      <4> QED BY <3>2, <4>2 DEF first, others
    <3>5. <<>> \o (link[e] \o rest) = link[e] \o rest
      BY <1>3, <3>1, ConcatProperties, ConcatEmptySeq
    <3>6. reading'[r] = <<Head(link[e])>>
      BY <1>2, <2>2 DEF PeerTypeOK
    <3>7. OnTheWay(e)' = OnTheWay(e)
      BY <1>1, <1>4, <1>e, <3>4, <3>5, <3>6 DEF OnTheWay, writers
    <3> QED BY <1>1, <1>2, <1>6, <2>2, <3>7 DEF Direction, Complete, channels
  <2> QED BY <1>1, <2>1, <2>2
<1>8. Prefixes(e)'
  BY <1>1, <1>2, <1>6 DEF Direction, Prefixes, channels
<1>9. Ending(e)'
  <2>1. readTask'[r] # "eof"
    BY <1>1, <1>2 DEF PeerTypeOK
  <2> QED BY <1>1, <1>2, <1>e, <2>1 DEF Direction, Ending, writers
<1>10. Direction(r)'
  BY <1>1, <1>2, <1>4, <1>e, SameDirection DEF writers, channels, e
<1> QED BY <1>5, <1>7, <1>8, <1>9, <1>10, <1>e DEF PeerInv, Direction

\* A message the reader forwards is behind what was delivered, and in front of the rest.
LEMMA ReaderForwardsPreserves ==
  ASSUME PeerInv, NEW r \in Ends, ReaderForwards(r)
  PROVE  PeerInv'
<1> USE PeerAssumption DEF PeerAssumption
<1> DEFINE e == Other(r)
<1>e. e \in Ends /\ Other(e) = r /\ e # r /\ \A d \in Ends : d = e \/ d = r
  BY TwoEnds
<1> HIDE DEF e
<1>1. /\ readTask[r] = "runs" /\ reading[r] # <<>> /\ r \in holdsRx /\ Len(inbound[r]) < InCap
      /\ inbound' = [inbound EXCEPT ![r] = Append(@, Head(reading[r]))]
      /\ reading' = [reading EXCEPT ![r] = <<>>]
      /\ UNCHANGED <<channels, writers, readTask, link, broken>>
  BY DEF ReaderForwards
<1>2. PeerTypeOK /\ Direction(e) /\ Direction(r)
  BY <1>e DEF PeerInv
<1> DEFINE rest == link[e] \o (writing[e] \o outbound[e])
<1>3. /\ reading[r] \in Seq(Message) /\ Len(reading[r]) <= 1 /\ Head(reading[r]) \in Message
      /\ inbound[r] \in Seq(Message) /\ received[r] \in Seq(Message)
      /\ Delivered(e) \in Seq(Message)
  BY <1>1, <1>2, <1>e, Typed, Passed
<1>4. /\ inbound'[r] = Append(inbound[r], Head(reading[r])) /\ reading'[r] = <<>>
      /\ \A d \in Ends : d # r => reading'[d] = reading[d] /\ inbound'[d] = inbound[d]
  BY <1>1, <1>2 DEF PeerTypeOK
<1>r. rest \in Seq(Message)
  <2>1. link[e] \in Seq(Message) /\ writing[e] \in Seq(Message) /\ outbound[e] \in Seq(Message)
    BY <1>2, <1>e, Typed
  <2>2. writing[e] \o outbound[e] \in Seq(Message)
    BY <2>1, ConcatProperties
  <2> QED BY <2>1, <2>2, ConcatProperties
<1>5. PeerTypeOK'
  <2>1. inbound' \in [Ends -> AtMost(InCap)]
    BY <1>1, <1>2, <1>3, QueueTypes DEF PeerTypeOK
  <2>2. reading' \in [Ends -> AtMost(1)]
    BY <1>1, <1>2, QueueTypes DEF PeerTypeOK
  <2> QED BY <1>1, <1>2, <2>1, <2>2 DEF PeerTypeOK, writers, channels
<1>6. Delivered(e)' = Delivered(e) \o reading[r] /\ Delivered(e)' \in Seq(Message)
  <2>1. Delivered(e)' = Append(Delivered(e), Head(reading[r]))
    <3>1. received[r] \o Append(inbound[r], Head(reading[r]))
            = Append(received[r] \o inbound[r], Head(reading[r]))
      BY <1>3, Added
    <3> QED BY <1>1, <1>4, <1>e, <3>1 DEF Delivered, channels
  <2>2. Tail(reading[r]) = <<>>
    BY <1>1, <1>3, Single
  <2>3. /\ Append(Delivered(e), Head(reading[r])) \o Tail(reading[r]) = Delivered(e) \o reading[r]
        /\ Append(Delivered(e), Head(reading[r])) \in Seq(Message)
    BY <1>1, <1>3, Passed
  <2> QED BY <2>1, <2>2, <2>3, ConcatEmptySeq
<1>7. OnTheWay(e) = reading[r] \o rest /\ OnTheWay(e)' = rest
  <2>1. <<>> \o rest = rest
    BY <1>r, ConcatEmptySeq
  <2> QED BY <1>1, <1>4, <1>e, <2>1 DEF OnTheWay, writers
<1> HIDE DEF rest
<1>8. accepted[e] = Delivered(e)' \o rest
  <2>1. accepted[e] = Delivered(e) \o (reading[r] \o rest)
    BY <1>1, <1>2, <1>7, <1>e DEF Direction, Complete
  <2>2. (Delivered(e) \o reading[r]) \o rest = Delivered(e) \o (reading[r] \o rest)
    BY <1>3, <1>r, Associative
  <2> QED BY <1>6, <2>1, <2>2
<1>9. Complete(e)'
  BY <1>1, <1>7, <1>8 DEF Complete, channels
<1>10. Prefixes(e)'
  <2>1. IsPrefixOf(Delivered(e)', accepted[e])
    BY <1>6, <1>8, <1>r, PrefixOfConcat
  <2> QED BY <1>1, <1>2, <2>1 DEF Direction, Prefixes, channels
<1>11. Ending(e)'
  BY <1>1, <1>2, <1>e DEF Direction, Ending, writers
<1>12. Direction(r)'
  BY <1>1, <1>2, <1>4, <1>e, SameDirection DEF writers, channels, e
<1> QED BY <1>5, <1>9, <1>10, <1>11, <1>12, <1>e DEF PeerInv, Direction

\* A reader that ends leaves what it delivered; one that has seen the end of the stream
\* behind a writer that drained its channel has delivered everything.
LEMMA ReaderEndsPreserves ==
  ASSUME PeerInv, NEW r \in Ends, ReaderUnheard(r) \/ ReaderEof(r) \/ ReaderFails(r)
  PROVE  PeerInv'
<1> DEFINE e == Other(r)
<1>e. e \in Ends /\ Other(e) = r /\ e # r /\ \A d \in Ends : d = e \/ d = r
  BY TwoEnds
<1>1. PICK how \in {"unheard", "eof", "failed"} :
        /\ readTask[r] = "runs"
        /\ readTask' = [readTask EXCEPT ![r] = how] /\ reading' = [reading EXCEPT ![r] = <<>>]
        /\ how = "eof" => reading[r] = <<>> /\ link[e] = <<>> /\ writeTask[e] # "runs"
        /\ UNCHANGED <<channels, writers, inbound, link, broken>>
  BY DEF ReaderUnheard, ReaderEof, ReaderFails, ReaderEndsAs, Closed
<1> HIDE DEF e
<1>2. PeerTypeOK /\ Direction(e) /\ Direction(r)
  BY <1>e DEF PeerInv
<1>3. /\ readTask'[r] = how
      /\ \A d \in Ends : d # r => reading'[d] = reading[d] /\ readTask'[d] = readTask[d]
  BY <1>1, <1>2 DEF PeerTypeOK
<1>4. PeerTypeOK'
  <2>1. reading' \in [Ends -> AtMost(1)]
    BY <1>1, <1>2, QueueTypes DEF PeerTypeOK
  <2> QED BY <1>1, <1>2, <2>1 DEF PeerTypeOK, writers, channels
<1>5. Delivered(e)' = Delivered(e)
  BY <1>1 DEF Delivered, channels
<1>6. Complete(e)'
  BY <1>3, <1>e DEF Complete
<1>7. Prefixes(e)'
  BY <1>1, <1>2, <1>5 DEF Direction, Prefixes, channels
<1>8. Ending(e)'
  <2>1. ASSUME writeTask[e] = "drained", how = "eof", r \in holdsRx
        PROVE  Delivered(e) = accepted[e]
    <3>1. outbound[e] = <<>> /\ writing[e] = <<>>
      BY <1>2, <2>1 DEF Direction, Ending
    <3>2. <<>> \o (<<>> \o (<<>> \o <<>>)) = <<>>
      BY ConcatEmptySeq
    <3>3. OnTheWay(e) = <<>>
      BY <1>1, <1>e, <2>1, <3>1, <3>2 DEF OnTheWay
    <3>4. accepted[e] = Delivered(e) \o <<>>
      BY <1>1, <1>2, <1>e, <2>1, <3>3 DEF Direction, Complete
    <3> QED BY <1>2, <1>e, <3>4, Typed, ConcatEmptySeq
  <2> QED BY <1>1, <1>2, <1>3, <1>5, <1>e, <2>1 DEF Direction, Ending, writers, channels
<1>9. Direction(r)'
  BY <1>1, <1>2, <1>3, <1>e, SameDirection DEF writers, channels, e
<1> QED BY <1>4, <1>6, <1>7, <1>8, <1>9, <1>e DEF PeerInv, Direction

\* A process that ends takes with it what its owner had not received; what it had put on
\* the connection can still arrive.
LEMMA KilledPreserves ==
  ASSUME PeerInv, NEW r \in Ends, Killed(r)
  PROVE  PeerInv'
<1> USE PeerAssumption DEF PeerAssumption
<1> DEFINE e == Other(r)
<1>e. e \in Ends /\ Other(e) = r /\ e # r /\ \A d \in Ends : d = e \/ d = r
  BY TwoEnds
<1> HIDE DEF e
<1>1. /\ readTask' = [readTask EXCEPT ![r] = "killed"]
      /\ writeTask' = [writeTask EXCEPT ![r] = "killed"]
      /\ reading' = [reading EXCEPT ![r] = <<>>] /\ inbound' = [inbound EXCEPT ![r] = <<>>]
      /\ holdsTx' = holdsTx \ {r} /\ holdsRx' = holdsRx \ {r}
      /\ UNCHANGED <<accepted, received, outbound, writing, link, broken>>
  BY DEF Killed
<1>2. PeerTypeOK /\ Direction(e) /\ Direction(r)
  BY <1>e DEF PeerInv
<1>3. /\ readTask'[r] = "killed" /\ writeTask'[r] = "killed"
      /\ readTask'[e] = readTask[e] /\ writeTask'[e] = writeTask[e]
      /\ reading'[e] = reading[e] /\ inbound'[e] = inbound[e]
  BY <1>1, <1>2, <1>e DEF PeerTypeOK
<1>4. PeerTypeOK'
  <2>1. reading' \in [Ends -> AtMost(1)] /\ inbound' \in [Ends -> AtMost(InCap)]
    BY <1>1, <1>2, QueueTypes DEF PeerTypeOK
  <2> QED BY <1>1, <1>2, <2>1 DEF PeerTypeOK
<1>5. Direction(e)'
  BY <1>1, <1>2, <1>3, <1>e DEF Direction, Complete, Prefixes, Ending
<1>6. Direction(r)'
  <2>1. Other(r) = e
    BY DEF e
  <2>2. Delivered(r)' = Delivered(r) /\ OnTheWay(r)' = OnTheWay(r)
    BY <1>1, <1>3, <2>1 DEF Delivered, OnTheWay
  <2>3. Complete(r)'
    BY <1>1, <1>2, <1>3, <1>e, <2>1, <2>2 DEF Direction, Complete
  <2>4. Prefixes(r)'
    BY <1>1, <1>2, <1>e, <2>1, <2>2 DEF Direction, Prefixes
  <2>5. Ending(r)'
    BY <1>3 DEF Ending
  <2> QED BY <2>3, <2>4, <2>5 DEF Direction
<1> QED BY <1>4, <1>5, <1>6, <1>e DEF PeerInv

\* The invariant of the sessions holds when they are spawned.
LEMMA PeerInitEstablishes == PeerInit => PeerInv
<1> SUFFICES ASSUME PeerInit PROVE PeerInv
  OBVIOUS
<1> USE PeerAssumption DEF PeerAssumption
<1>1. <<>> \in Seq(Message) /\ Len(<<>>) = 0 /\ <<>> \o <<>> = <<>>
  BY EmptySeq, ConcatEmptySeq
<1>2. \A k \in Nat : Nothing \in [Ends -> AtMost(k)]
  BY <1>1 DEF Nothing, AtMost
<1>3. \A e \in Ends : Nothing[e] = <<>>
  BY DEF Nothing
<1>4. PeerTypeOK
  <2>1. Nothing \in [Ends -> Seq(Message)]
    BY <1>1 DEF Nothing
  <2>2. \A e \in Ends : Len(Nothing[e]) <= MaxMsgs[e] /\ Len(Nothing[e]) <= MaxMsgs[Other(e)]
    BY <1>1, <1>3, TwoEnds
  <2> QED BY <1>2, <2>1, <2>2 DEF PeerInit, PeerTypeOK
<1>5. ASSUME NEW e \in Ends PROVE Direction(e)
  <2>1. Delivered(e) = <<>> /\ OnTheWay(e) = <<>>
    BY <1>1, <1>3, TwoEnds DEF PeerInit, Delivered, OnTheWay
  <2>2. accepted[e] = <<>> /\ received[Other(e)] = <<>>
    BY <1>3, TwoEnds DEF PeerInit
  <2>3. readTask[Other(e)] = "runs" /\ writeTask[e] = "runs"
    BY TwoEnds DEF PeerInit
  <2>4. Complete(e)
    BY <1>1, <2>1, <2>2 DEF Complete
  <2>5. Prefixes(e)
    BY <1>1, <2>1, <2>2 DEF Prefixes, IsPrefixOf
  <2>6. Ending(e)
    BY <2>3 DEF Ending
  <2> QED BY <2>4, <2>5, <2>6 DEF Direction
<1> QED BY <1>4, <1>5 DEF PeerInv

\* Every step of an owner, a task or the connection keeps it.
LEMMA PeerNextPreserves == PeerInv /\ [PeerNext]_peerVars => PeerInv'
<1> SUFFICES ASSUME PeerInv, [PeerNext]_peerVars PROVE PeerInv'
  OBVIOUS
<1>1. CASE /\ UNCHANGED <<holdsRx, accepted, received, writers, readers, link, broken>>
           /\ holdsTx' \subseteq Ends
  <2>1. PeerTypeOK'
    BY <1>1 DEF PeerInv, PeerTypeOK, writers, readers
  <2>2. ASSUME NEW e \in Ends PROVE Direction(e)'
    BY <1>1, SameDirection DEF PeerInv, writers, readers
  <2> QED BY <2>1, <2>2 DEF PeerInv
<1>2. CASE UNCHANGED peerVars
  BY <1>1, <1>2 DEF peerVars, channels, PeerInv, PeerTypeOK
<1>3. ASSUME NEW e \in Ends, DropsOutbound(e) PROVE PeerInv'
  BY <1>1, <1>3 DEF DropsOutbound, PeerInv, PeerTypeOK
<1>4. ASSUME NEW e \in Ends, Writer(e) PROVE PeerInv'
  BY <1>4, WriterTakesPreserves, WriterWritesPreserves, WriterEndsPreserves DEF Writer
<1>5. ASSUME NEW e \in Ends, Reader(e) PROVE PeerInv'
  BY <1>5, ReaderTakesPreserves, ReaderForwardsPreserves, ReaderEndsPreserves DEF Reader
<1> QED BY <1>2, <1>3, <1>4, <1>5, OwnerSendsPreserves, OwnerReceivesPreserves,
           DropsInboundPreserves, ResetPreserves, KilledPreserves DEF PeerNext

\* So it always holds.
LEMMA PeerInvHolds == PeerSafeSpec => []PeerInv
BY PeerInitEstablishes, PeerNextPreserves, PTL DEF PeerSafeSpec

\* The queues of both ends stay within their capacities.
THEOREM PeerTypeCorrect == PeerSafeSpec => []PeerTypeOK
<1>1. PeerInv => PeerTypeOK
  BY DEF PeerInv
<1> QED BY <1>1, PeerInvHolds, PTL

\* An owner that drops its sender and lets the connection end loses nothing.
THEOREM NothingLost == PeerSafeSpec => []CleanEndLosesNothing
<1>1. PeerInv => CleanEndLosesNothing
  BY DEF PeerInv, Direction, Ending, Delivered, CleanEndLosesNothing
<1> QED BY <1>1, PeerInvHolds, PTL

\* What a direction shows of Frames.
Sends(e) ==
  /\ \E m \in Message : accepted'[e] = Append(accepted[e], m)
  /\ received'[Other(e)] = received[Other(e)]
  /\ Other(e) \in holdsRx' <=> Other(e) \in holdsRx
Receives(e) ==
  /\ Other(e) \in holdsRx /\ Len(received[Other(e)]) < Len(accepted[e])
  /\ received'[Other(e)] = Append(received[Other(e)], accepted[e][Len(received[Other(e)]) + 1])
  /\ accepted'[e] = accepted[e]
  /\ Other(e) \in holdsRx'
IsOver(e) ==
  /\ Other(e) \notin holdsRx'
  /\ accepted'[e] = accepted[e] /\ received'[Other(e)] = received[Other(e)]
Stays(e) ==
  /\ accepted'[e] = accepted[e] /\ received'[Other(e)] = received[Other(e)]
  /\ Other(e) \in holdsRx' <=> Other(e) \in holdsRx

\* Every step of the two sessions is in each direction a step of Frames or none: what an
\* owner receives is the next message that was accepted, since what was delivered to it is
\* a prefix.
LEMMA DirectionSteps ==
  ASSUME PeerInv, PeerNext, NEW e \in Ends
  PROVE  Sends(e) \/ Receives(e) \/ IsOver(e) \/ Stays(e)
<1> DEFINE o == Other(e)
<1>e. o \in Ends /\ Other(o) = e /\ e # o /\ \A d \in Ends : d = e \/ d = o
  BY TwoEnds
<1>t. PeerTypeOK /\ Direction(e)
  BY DEF PeerInv
<1>1. ASSUME NEW d \in Ends, NEW kind \in {"plain", "large", "unknown"}, OwnerSends(d, kind)
      PROVE  Sends(e) \/ Stays(e)
  <2> DEFINE m == [n |-> Len(accepted[d]) + 1, kind |-> kind]
  <2>1. /\ accepted' = [accepted EXCEPT ![d] = Append(@, m)]
        /\ UNCHANGED <<received, holdsRx>> /\ Len(accepted[d]) < MaxMsgs[d]
    BY <1>1 DEF OwnerSends
  <2>2. CASE d = e
    <3>1. m \in Message
      <4>1. Len(accepted[d]) + 1 \in 1..MaxMsgs[d]
        BY <1>t, <2>1, Typed, PeerAssumption DEF PeerAssumption
      <4> QED BY <4>1 DEF Message
    <3> HIDE DEF m
    <3>2. accepted'[e] = Append(accepted[e], m)
      BY <1>t, <2>1, <2>2 DEF PeerTypeOK
    <3> QED BY <2>1, <3>1, <3>2 DEF Sends
  <2>3. CASE d # e
    BY <1>t, <2>1, <2>3 DEF PeerTypeOK, Stays
  <2> QED BY <2>2, <2>3
<1>2. ASSUME NEW d \in Ends, OwnerReceives(d) PROVE Receives(e) \/ Stays(e)
  <2>1. /\ d \in holdsRx /\ inbound[d] # <<>>
        /\ received' = [received EXCEPT ![d] = Append(@, Head(inbound[d]))]
        /\ UNCHANGED <<accepted, holdsRx>>
    BY <1>2 DEF OwnerReceives
  <2>2. CASE d = o
    <3>1. /\ received[o] \in Seq(Message) /\ inbound[o] \in Seq(Message)
          /\ accepted[e] \in Seq(Message)
      BY <1>e, <1>t, Typed
    <3>2. Len(inbound[o]) \in Nat /\ Len(inbound[o]) # 0 /\ Head(inbound[o]) = inbound[o][1]
      BY <2>1, <2>2, <3>1, EmptySeq, HeadTailProperties
    <3> DEFINE k == Len(received[o]) + 1
    <3>3. /\ Len(Delivered(e)) = Len(received[o]) + Len(inbound[o])
          /\ k \in 1..Len(Delivered(e)) /\ Delivered(e)[k] = inbound[o][1]
      <4>1. Len(received[o]) \in Nat
        BY <3>1, LenProperties
      <4>2. /\ Len(received[o] \o inbound[o]) = Len(received[o]) + Len(inbound[o])
            /\ \A i \in 1..(Len(received[o]) + Len(inbound[o])) :
                 (received[o] \o inbound[o])[i] =
                   IF i <= Len(received[o]) THEN received[o][i]
                   ELSE inbound[o][i - Len(received[o])]
        BY <3>1, ConcatProperties
      <4>3. k \in 1..(Len(received[o]) + Len(inbound[o]))
        <5> DEFINE a == Len(received[o])
        <5> DEFINE b == Len(inbound[o])
        <5>1. a \in Nat /\ b \in Nat /\ b # 0
          BY <3>2, <4>1
        <5> HIDE DEF a, b
        <5>2. a + 1 \in 1..(a + b)
          BY <5>1
        <5> QED BY <5>2 DEF a, b
      <4>4. ~(k <= Len(received[o])) /\ k - Len(received[o]) = 1
        BY <4>1
      <4> QED BY <4>2, <4>3, <4>4 DEF Delivered
    <3>4. IsPrefixOf(Delivered(e), accepted[e])
      BY <1>t, <2>1, <2>2 DEF Direction, Prefixes
    <3>5. accepted[e][k] = Head(inbound[o])
      BY <3>2, <3>3, <3>4 DEF IsPrefixOf
    <3>6. Len(received[o]) < Len(accepted[e])
      <4>1. Len(received[o]) \in Nat /\ Len(accepted[e]) \in Nat
        BY <3>1, LenProperties
      <4> DEFINE a == Len(received[o])
      <4> DEFINE b == Len(inbound[o])
      <4> DEFINE c == Len(accepted[e])
      <4>2. a \in Nat /\ b \in Nat /\ c \in Nat /\ b # 0 /\ a + b <= c
        BY <3>2, <3>3, <3>4, <4>1 DEF IsPrefixOf
      <4> HIDE DEF a, b, c
      <4>3. a < c
        BY <4>2
      <4> QED BY <4>3 DEF a, c
    <3>7. received'[o] = Append(received[o], Head(inbound[o]))
      BY <1>e, <1>t, <2>1, <2>2 DEF PeerTypeOK
    <3> QED BY <2>1, <2>2, <3>5, <3>6, <3>7 DEF Receives
  <2>3. CASE d # o
    BY <1>e, <1>t, <2>1, <2>3 DEF PeerTypeOK, Stays
  <2> QED BY <2>2, <2>3
<1>3. ASSUME NEW d \in Ends, DropsInbound(d) \/ Killed(d) PROVE IsOver(e) \/ Stays(e)
  BY <1>3 DEF DropsInbound, Killed, IsOver, Stays
<1>4. ASSUME NEW d \in Ends, DropsOutbound(d) \/ Writer(d) \/ Reader(d) \/ Reset(d)
      PROVE  Stays(e)
  <2>1. UNCHANGED <<holdsRx, accepted, received>>
    BY <1>4 DEF DropsOutbound, Writer, WriterTakes, WriterWrites, WriterRefused, WriterFails,
                WriterDrained, WriterEndsAs, Reader, ReaderTakes, ReaderForwards, ReaderUnheard,
                ReaderEof, ReaderFails, ReaderEndsAs, Reset, channels
  <2> QED BY <2>1 DEF Stays
<1> QED BY <1>1, <1>2, <1>3, <1>4 DEF PeerNext

\* PeerSession implements Frames in both directions: through two channels, two tasks and
\* the stream the owners see what was accepted, whole, in order, without a gap.
THEOREM PeerImplementsFrames == PeerSafeSpec => InOrder
<1>1. PeerInit => ToAcceptor!Init /\ ToDialer!Init
  BY DEF PeerInit, Nothing, Ends, ToAcceptor!Init, ToDialer!Init
<1>2. ASSUME PeerInv, [PeerNext]_peerVars
      PROVE  [ToAcceptor!Next]_ToAcceptor!vars /\ [ToDialer!Next]_ToDialer!vars
  <2>1. CASE UNCHANGED peerVars
    BY <2>1 DEF peerVars, channels, ToAcceptor!vars, ToDialer!vars
  <2>2. CASE PeerNext
    <3>e. /\ "dialer" \in Ends /\ Other("dialer") = "acceptor"
          /\ "acceptor" \in Ends /\ Other("acceptor") = "dialer"
      BY DEF Ends, Other
    <3>1. [ToAcceptor!Next]_ToAcceptor!vars
      <4>1. \/ Sends("dialer") \/ Receives("dialer") \/ IsOver("dialer") \/ Stays("dialer")
        BY <1>2, <2>2, <3>e, DirectionSteps
      <4> QED BY <3>e, <4>1 DEF Sends, Receives, IsOver, Stays, ToAcceptor!Next, ToAcceptor!Send,
                 ToAcceptor!Receive, ToAcceptor!End, ToAcceptor!vars
    <3>2. [ToDialer!Next]_ToDialer!vars
      <4>1. \/ Sends("acceptor") \/ Receives("acceptor") \/ IsOver("acceptor")
            \/ Stays("acceptor")
        BY <1>2, <2>2, <3>e, DirectionSteps
      <4> QED BY <3>e, <4>1 DEF Sends, Receives, IsOver, Stays, ToDialer!Next, ToDialer!Send,
                 ToDialer!Receive, ToDialer!End, ToDialer!vars
    <3> QED BY <3>1, <3>2
  <2> QED BY <1>2, <2>1, <2>2
<1> QED BY <1>1, <1>2, PeerInvHolds, PTL DEF PeerSafeSpec, InOrder, ToAcceptor!Spec, ToDialer!Spec

-------------------------------------------------------------------------------
(* Both, side by side. *)

\* What holds of Codec and of PeerSession holds of the behaviours of MCFrames.
THEOREM FramesSideBySide == MCSpec => SafeSpec /\ PeerSafeSpec
<1>1. MCInit => Init /\ PeerInit
  BY DEF MCInit
<1>2. [MCNext]_<<part, vars, peerVars>> => [Next]_vars /\ [PeerNext]_peerVars
  BY DEF MCNext
<1> QED BY <1>1, <1>2, PTL DEF MCSpec, SafeSpec, PeerSafeSpec

\* The types of both.
THEOREM FramesTypeCorrect == MCSpec => []FramesTypeOK
<1>1. IInv => TypeOK
  BY DEF IInv
<1>2. TypeOK /\ PeerTypeOK => FramesTypeOK
  BY DEF FramesTypeOK
<1> QED BY <1>1, <1>2, FramesSideBySide, IInvHolds, PeerTypeCorrect, PTL
===============================================================================
