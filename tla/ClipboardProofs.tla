---------------------------- MODULE ClipboardProofs -----------------------------
(***************************************************************************)
(* What TLAPS checks about Clipboard: the loop suppression, for any texts  *)
(* and any number of copies and updates.                                   *)
(***************************************************************************)
EXTENDS Clipboard, SequenceTheorems, TLAPS

USE ClipboardAssumption DEF Origins

Update == [text : Texts, from : Origins]

\* Every variable is what its comment says; the channel respects its capacity.
THEOREM TypeCorrect == ClipSafeSpec => []ClipTypeOK
<1> USE DEF ClipTypeOK, Update
<1>0. <<>> \in Seq(Update) /\ Len(<<>>) = 0
  BY EmptySeq
<1>1. ClipInit => ClipTypeOK
  <2> SUFFICES ASSUME ClipInit PROVE ClipTypeOK
    OBVIOUS
  <2>1. out \in Seq(Update) /\ Len(out) <= OutCap
    BY <1>0 DEF ClipInit
  <2>2. receiver \in BOOLEAN /\ disturbed \in BOOLEAN
    BY DEF ClipInit
  <2>3. copies \in 0..MaxCopies /\ applies \in 0..MaxApplies
    BY DEF ClipInit
  <2> QED BY <2>1, <2>2, <2>3 DEF ClipInit
<1>2. ClipTypeOK /\ [ClipNext]_clipVars => ClipTypeOK'
  <2> SUFFICES ASSUME ClipTypeOK, [ClipNext]_clipVars PROVE ClipTypeOK'
    OBVIOUS
  <2>1. ASSUME NEW t \in Texts \cup {NoText}, UserCopies(t) PROVE ClipTypeOK'
    BY <2>1 DEF UserCopies
  <2>2. CASE Drain
    BY <2>2, HeadTailProperties DEF Drain, env
  <2>3. CASE ReceiverDropped
    <3>1. out' \in Seq(Update) /\ Len(out') <= OutCap
      BY <1>0, <2>3 DEF ReceiverDropped
    <3>2. receiver' \in BOOLEAN
      BY <2>3 DEF ReceiverDropped
    <3> QED BY <2>3, <3>1, <3>2 DEF ReceiverDropped
  <2>4. CASE WatchRead
    BY <2>4 DEF WatchRead, env
  <2>5. CASE WatchCheck
    BY <2>5 DEF WatchCheck, env
  <2>6. CASE WatchSend
    <3>1. [text |-> text, from |-> from] \in Update
      BY <2>6 DEF WatchSend, Queue
    <3>2. out' \in Seq(Update) /\ Len(out') <= OutCap
      BY <2>6, <3>1, AppendProperties DEF WatchSend, Queue
    <3> QED BY <2>6, <3>2 DEF WatchSend, Queue, env
  <2>7. CASE WatchEnds
    BY <2>7 DEF WatchEnds, env
  <2>8. ASSUME NEW t \in Texts, ApplyHash(t) PROVE ClipTypeOK'
    BY <2>8 DEF ApplyHash
  <2>9. CASE ApplyWrite
    BY <2>9 DEF ApplyWrite, env
  <2>10. CASE UNCHANGED clipVars
    BY <2>10 DEF clipVars, env
  <2> QED
    BY <2>1, <2>2, <2>3, <2>4, <2>5, <2>6, <2>7, <2>8, <2>9, <2>10 DEF ClipNext
<1> QED BY <1>1, <1>2, PTL DEF ClipSafeSpec

\* Why nothing from the peer is sent back while nothing disturbs apply(): it owns
\* last_hash from its first step to its second, then last_hash names what the
\* peer put on the clipboard until the user copies something else.
Suppressed ==
  /\ NoEcho
  /\ watcher = "send" => from = "user"
  /\ applying # NoText => last_hash = applying /\ watcher # "check"
  /\ applying = NoText /\ origin = "peer" => last_hash = clip
  /\ watcher = "check" /\ from = "peer" => last_hash = text
  /\ watcher = "check" /\ origin = "peer" => from = "peer"

\* While nothing is disturbed, Suppressed is inductive.
LEMMA SuppressedInvariant == ClipSafeSpec => [](~disturbed => Suppressed)
<1> USE DEF Suppressed, NoEcho, ClipTypeOK
<1>1. ClipInit => (~disturbed => Suppressed)
  BY EmptySeq DEF ClipInit
<1>2. ClipTypeOK /\ (~disturbed => Suppressed) /\ [ClipNext]_clipVars
        => (~disturbed => Suppressed)'
  <2> SUFFICES ASSUME ClipTypeOK, ~disturbed => Suppressed, [ClipNext]_clipVars, ~disturbed'
               PROVE  Suppressed'
    OBVIOUS
  <2>1. ASSUME NEW t, UserCopies(t) PROVE Suppressed'
    BY <2>1 DEF UserCopies
  <2>2. CASE Drain
    <3>1. out' = Tail(out) /\ \A i \in DOMAIN out' : out'[i] = out[i + 1] /\ i + 1 \in DOMAIN out
      BY <2>2, HeadTailProperties, LenProperties, EmptySeq DEF Drain
    <3> QED BY <2>2, <3>1 DEF Drain, env
  <2>3. CASE ReceiverDropped
    BY <2>3, EmptySeq DEF ReceiverDropped
  <2>4. CASE WatchRead
    BY <2>4 DEF WatchRead, env
  <2>5. CASE WatchCheck
    BY <2>5 DEF WatchCheck, env
  <2>6. CASE WatchSend
    <3>1. out' = Append(out, [text |-> text, from |-> from]) /\ from = "user"
      BY <2>6 DEF WatchSend, Queue
    <3>2. \A i \in DOMAIN out' : out'[i].from = "user"
      BY <2>6, <3>1, AppendProperties, LenProperties DEF WatchSend, Queue
    <3> QED BY <2>6, <3>2 DEF WatchSend, Queue, env
  <2>7. CASE WatchEnds
    BY <2>7 DEF WatchEnds, env
  <2>8. ASSUME NEW t \in Texts, ApplyHash(t) PROVE Suppressed'
    BY <2>8 DEF ApplyHash
  <2>9. CASE ApplyWrite
    BY <2>9 DEF ApplyWrite, env
  <2>10. CASE UNCHANGED clipVars
    BY <2>10 DEF clipVars, env
  <2> QED
    BY <2>1, <2>2, <2>3, <2>4, <2>5, <2>6, <2>7, <2>8, <2>9, <2>10 DEF ClipNext
<1> QED BY <1>1, <1>2, TypeCorrect, PTL DEF ClipSafeSpec

\* As long as apply() can write and does not overlap a read and its check, no
\* text from the peer is sent back to it.
THEOREM LoopSuppression == ClipSafeSpec => []NoEchoUndisturbed
<1>1. (~disturbed => Suppressed) => NoEchoUndisturbed
  BY DEF Suppressed, NoEcho, NoEchoUndisturbed
<1> QED BY <1>1, SuppressedInvariant, PTL

\* Why no text is overlooked: outside a send, last_hash names a text exchanged
\* since the watcher last found a new one; the text it is about to send is the
\* only other one last_hash can name.
HashIsExchanged ==
  /\ watcher \in {"poll", "check"} => last_hash \in exchanged \cup {NoText}
  /\ watcher = "send" => last_hash \in exchanged \cup {text}

\* Whatever apply() does between the steps of the watcher, a text the watcher
\* passes over as known was sent or received after it last found a new one.
THEOREM NothingOverlooked ==
  ClipSafeSpec => [](watcher = "check" /\ text = last_hash => text \in exchanged)
<1> USE DEF HashIsExchanged, ClipTypeOK
<1>1. ClipInit => HashIsExchanged
  BY DEF ClipInit
<1>2. ClipTypeOK /\ HashIsExchanged /\ [ClipNext]_clipVars => HashIsExchanged'
  <2> SUFFICES ASSUME ClipTypeOK, HashIsExchanged, [ClipNext]_clipVars
               PROVE  HashIsExchanged'
    OBVIOUS
  <2>1. CASE UNCHANGED <<watcher, last_hash, exchanged, text>>
    BY <2>1
  <2>2. CASE WatchRead
    BY <2>2 DEF WatchRead
  <2>3. CASE WatchCheck
    BY <2>3 DEF WatchCheck
  <2>4. CASE WatchSend
    BY <2>4 DEF WatchSend, Queue
  <2>5. CASE WatchEnds
    BY <2>5 DEF WatchEnds
  <2>6. ASSUME NEW t \in Texts, ApplyHash(t) PROVE HashIsExchanged'
    BY <2>6 DEF ApplyHash
  <2>7. CASE UNCHANGED clipVars
    BY <2>1, <2>7 DEF clipVars
  <2>8. ASSUME NEW t \in Texts \cup {NoText}, UserCopies(t) PROVE HashIsExchanged'
    BY <2>1, <2>8 DEF UserCopies
  <2> QED
    BY <2>1, <2>2, <2>3, <2>4, <2>5, <2>6, <2>7, <2>8
    DEF ClipNext, Drain, ReceiverDropped, ApplyWrite
<1>3. ClipTypeOK /\ HashIsExchanged
        => (watcher = "check" /\ text = last_hash => text \in exchanged)
  OBVIOUS
<1> QED BY <1>1, <1>2, <1>3, TypeCorrect, PTL DEF ClipSafeSpec
===============================================================================
