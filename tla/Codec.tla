--------------------------------- MODULE Codec ----------------------------------
(***************************************************************************)
(* One direction of a framed TCP stream: MessageCodec at both ends, inside *)
(* tokio-util's Framed.                                                    *)
(*                                                                         *)
(* A byte is its position in the stream.  Four positions say where it is:  *)
(* below `consumed` the decoder is done with it, below `arrived` it is in  *)
(* the receiver's buffer, below `flushed` with TCP, below `written` in the *)
(* sender's buffer.  What the bytes say matters only where the decoder     *)
(* takes them for a length and a payload: at the start of a frame they are *)
(* the sender's, anywhere else they could be anything.                     *)
(***************************************************************************)
EXTENDS Naturals, Sequences

CONSTANTS
  Header,     \* bytes of the length prefix (4 in the code)
  Sizes,      \* sizes of serialised messages
  Caps,       \* values MAX_FRAME_BYTES has in the builds that meet
  MaxFrames   \* bound on the number of frames in a behaviour

ASSUME CodecAssumption ==
  Header \in Nat \ {0} /\ Sizes \subseteq Nat /\ Caps \subseteq Nat /\ MaxFrames \in Nat

VARIABLES
  cap,        \* MAX_FRAME_BYTES of the sender and of the receiver
  frames,     \* the frames encoded so far
  start,      \* the position of the first byte of each
  written, flushed, arrived, consumed,
  writer,     \* "open"; "closed" or "reset": how TCP ends the stream
  reader,     \* "reading", "ended" (stream returned None), "failed" (an error)
  readable,   \* is_readable: the buffer is to be decoded before it is added to
  eof,        \* the receiver has read the end of the stream
  got         \* the messages the receiver's stream has returned

sending == <<cap, frames, start, written, flushed, writer>>
vars == <<sending, arrived, consumed, reader, readable, eof, got>>

\* `known` says whether the receiver's build can deserialise the payload.
Frame == [size : Sizes, known : BOOLEAN]

TypeOK ==
  /\ cap \in [{"sender", "receiver"} -> Caps]
  /\ frames \in Seq(Frame) /\ Len(frames) <= MaxFrames
  /\ start \in Seq(Nat) /\ Len(start) = Len(frames)
  /\ written \in Nat /\ flushed \in 0..written
  /\ arrived \in 0..flushed /\ consumed \in 0..arrived
  /\ writer \in {"open", "closed", "reset"}
  /\ reader \in {"reading", "ended", "failed"}
  /\ readable \in BOOLEAN /\ eof \in BOOLEAN
  /\ got \in Seq(Frame)

Init ==
  /\ cap \in [{"sender", "receiver"} -> Caps]
  /\ frames = <<>>
  /\ start = <<>>
  /\ written = 0 /\ flushed = 0 /\ arrived = 0 /\ consumed = 0
  /\ writer = "open"
  /\ reader = "reading"
  /\ readable = FALSE
  /\ eof = FALSE
  /\ got = <<>>

-------------------------------------------------------------------------------
(* The sender. *)

\* encode: sink.send has flushed the frame before, so the buffer is empty.
Encode(f) ==
  /\ writer = "open" /\ flushed = written
  /\ Len(frames) < MaxFrames
  /\ f.size <= cap["sender"]
  /\ frames' = Append(frames, f)
  /\ start' = Append(start, written)
  /\ written' = written + Header + f.size
  /\ UNCHANGED <<cap, flushed, writer, arrived, consumed, reader, readable, eof, got>>

\* A message over the limit is refused before a byte of it is written; the
\* caller of send gives up and drops the stream (see Closes).
EncodeRefuses(f) ==
  /\ writer = "open" /\ flushed = written
  /\ f.size > cap["sender"]
  /\ writer' \in {"closed", "reset"}
  /\ UNCHANGED <<cap, frames, start, written, flushed, arrived, consumed, reader,
                 readable, eof, got>>

\* The socket takes some of the buffer.
Flush ==
  /\ writer = "open"
  /\ flushed' \in (flushed + 1)..written
  /\ UNCHANGED <<cap, frames, start, written, writer, arrived, consumed, reader,
                 readable, eof, got>>

\* The sender drops the stream, which it does between two frames, or is killed in
\* the middle of one.  TCP resets a stream that is dropped with unread data.
Closes ==
  /\ writer = "open"
  /\ writer' \in {"closed", "reset"}
  /\ UNCHANGED <<cap, frames, start, written, flushed, arrived, consumed, reader,
                 readable, eof, got>>

-------------------------------------------------------------------------------
(* The receiver. *)

\* A read returns some of the bytes that have come.
Read ==
  /\ reader = "reading" /\ ~readable
  /\ arrived' \in (arrived + 1)..flushed
  /\ readable' = TRUE
  /\ UNCHANGED <<sending, consumed, reader, eof, got>>

\* A read returns no bytes: decode what is there for the last time.
ReadEof ==
  /\ reader = "reading" /\ ~readable
  /\ writer = "closed" /\ arrived = flushed
  /\ eof' = TRUE
  /\ readable' = TRUE
  /\ UNCHANGED <<sending, arrived, consumed, reader, got>>

\* A connection that is reset loses the bytes that were not read.
ReadFails ==
  /\ reader = "reading" /\ ~readable
  /\ writer = "reset"
  /\ reader' = "failed"
  /\ UNCHANGED <<sending, arrived, consumed, readable, eof, got>>

Buffered == arrived - consumed

\* The frame the decoder sees in the buffer: its length, once four bytes are
\* there, and whether the payload deserialises.
Seen ==
  IF \E i \in DOMAIN start : start[i] = consumed
  THEN {frames[i] : i \in {j \in DOMAIN start : start[j] = consumed}}
  ELSE Frame

\* decode returns None because the payload is not all there yet.
Incomplete(f) == f.size <= cap["receiver"] /\ Buffered < Header + f.size

\* decode cannot return a frame yet.
NeedsMore == Buffered < Header \/ \E f \in Seen : Incomplete(f)

\* Framed goes on to read.
DecodeNone ==
  /\ reader = "reading" /\ readable /\ ~eof
  /\ NeedsMore
  /\ readable' = FALSE
  /\ UNCHANGED <<sending, arrived, consumed, reader, eof, got>>

\* A mutant of DecodeEof: the end of the stream counts as its end whatever is left.
DecodeEofLenientMutant ==
  /\ reader = "reading" /\ readable /\ eof
  /\ NeedsMore
  /\ reader' = "ended"
  /\ UNCHANGED <<sending, arrived, consumed, readable, eof, got>>

\* decode_eof: nothing more will come.  The stream ends if nothing is left over,
\* and fails with "bytes remaining on stream" otherwise.
DecodeEof ==
  /\ reader = "reading" /\ readable /\ eof
  /\ NeedsMore
  /\ reader' = IF Buffered = 0 THEN "ended" ELSE "failed"
  /\ UNCHANGED <<sending, arrived, consumed, readable, eof, got>>

\* A mutant of DecodeFrame: Framed reads after each frame without looking at what
\* it still has.
DecodeFrameReadsMutant(f) ==
  /\ reader = "reading" /\ readable
  /\ Buffered >= Header /\ f.size <= cap["receiver"] /\ ~Incomplete(f)
  /\ f.known
  /\ consumed' = consumed + Header + f.size
  /\ got' = Append(got, f)
  /\ readable' = FALSE
  /\ UNCHANGED <<sending, arrived, reader, eof>>

\* decode returns a message and takes its bytes off the buffer.  Framed decodes
\* again before it reads.
DecodeFrame(f) ==
  /\ reader = "reading" /\ readable
  /\ Buffered >= Header /\ f.size <= cap["receiver"] /\ ~Incomplete(f)
  /\ f.known
  /\ consumed' = consumed + Header + f.size
  /\ got' = Append(got, f)
  /\ UNCHANGED <<sending, arrived, reader, readable, eof>>

\* The payload does not deserialise; it has been taken off the buffer.  Both loops
\* of handle_peer, and PeerSession's, give up on an error.
DecodeUnknown(f) ==
  /\ reader = "reading" /\ readable
  /\ Buffered >= Header /\ f.size <= cap["receiver"] /\ ~Incomplete(f)
  /\ ~f.known
  /\ consumed' = consumed + Header + f.size
  /\ reader' = "failed"
  /\ UNCHANGED <<sending, arrived, readable, eof, got>>

\* A mutant of DecodeTooLarge: the length is skipped and decoding goes on.
DecodeTooLargeSkipsMutant(f) ==
  /\ reader = "reading" /\ readable
  /\ Buffered >= Header
  /\ f.size > cap["receiver"]
  /\ consumed' = consumed + Header
  /\ UNCHANGED <<sending, arrived, reader, readable, eof, got>>

\* FrameTooLarge, as soon as the length is there.
DecodeTooLarge(f) ==
  /\ reader = "reading" /\ readable
  /\ Buffered >= Header
  /\ f.size > cap["receiver"]
  /\ reader' = "failed"
  /\ UNCHANGED <<sending, arrived, consumed, readable, eof, got>>

Decode ==
  \/ DecodeNone
  \/ DecodeEof
  \/ \E f \in Seen : DecodeFrame(f) \/ DecodeUnknown(f) \/ DecodeTooLarge(f)

-------------------------------------------------------------------------------
Next ==
  \/ \E f \in Frame : Encode(f) \/ EncodeRefuses(f)
  \/ Flush
  \/ Closes
  \/ Read
  \/ ReadEof
  \/ ReadFails
  \/ Decode

\* The receiver's task runs, and TCP tells it what came.  Nothing is assumed of the
\* sender.
Fairness ==
  WF_vars(Read) /\ WF_vars(ReadEof) /\ WF_vars(ReadFails) /\ WF_vars(Decode)

SafeSpec == Init /\ [][Next]_vars
Spec == SafeSpec /\ Fairness

-------------------------------------------------------------------------------
(* Properties. *)

\* The position after the first k frames.
Boundary(k) == IF k < Len(frames) THEN start[k + 1] ELSE written

\* However the bytes are cut into pieces, the decoder looks for a length only at
\* the start of a frame: the one after those it has returned.
InSync == reader = "reading" => consumed = Boundary(Len(got))

\* The stream fails only for a reason: it was reset, or cut in the middle of a
\* frame, or its next frame is too large for this build or unknown to it.  The
\* pieces the bytes come in never make it fail.
FailsForAReason ==
  reader = "failed" =>
    \/ writer = "reset"
    \/ writer = "closed" /\ flushed # written
    \/ /\ Len(got) < Len(frames)
       /\ LET f == frames[Len(got) + 1]
          IN  ~f.known \/ f.size > cap["receiver"]

\* A stream that ends without an error has returned every frame that was sent
\* whole, those read together with the end of the stream included, and there was
\* no part of a frame behind them.
CleanEndIsComplete ==
  reader = "ended" =>
    /\ consumed = flushed
    /\ \A k \in 1..Len(frames) : flushed >= Boundary(k) => k <= Len(got)

\* While it reads, the receiver is in its place; when it stops, it is for a reason
\* and with everything it could have had.
ReaderIsRight == InSync /\ FailsForAReason /\ CleanEndIsComplete

\* The bytes carry frames: whole, in order, without a gap.
Connection == INSTANCE Frames WITH sent <- frames, over <- reader # "reading"
FramesSpec == Connection!Spec

\* A frame whose bytes have all been sent is returned, or the stream is over, even
\* if no further byte ever comes; and an end of the sender, however it comes
\* about, ends the receiver's stream.
WholeFramesArrive ==
  /\ \A k \in 1..MaxFrames :
       (k <= Len(frames) /\ flushed >= Boundary(k))
         ~> (Len(got) >= k \/ reader # "reading")
  /\ writer # "open" ~> reader # "reading"

===============================================================================
