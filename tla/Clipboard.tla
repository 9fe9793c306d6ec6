-------------------------------- MODULE Clipboard --------------------------------
(***************************************************************************)
(* The clipboard of one machine (crate dshare-clipboard): the watcher task *)
(* that polls the OS clipboard and emits an update when its text changed,  *)
(* and apply(), which writes an update from the peer into it.  The two run *)
(* in different threads and share only last_hash, the hash of the text     *)
(* that needs no (further) broadcast; each of them holds one of the two    *)
(* mutexes at a time, so every critical section is one step.               *)
(*                                                                         *)
(* Texts stand for their hashes: collisions of the 64-bit hash are left    *)
(* out.  The user, the peer and whoever drains the out channel are the     *)
(* environment: the daemon does not wire the crate up yet.                 *)
(***************************************************************************)
EXTENDS Naturals, Sequences

CONSTANTS
  Texts,      \* texts that are copied
  NoText,     \* no text: the clipboard is empty or holds an image
  OutCap,     \* capacity of the out channel
  MaxCopies,  \* bound on the number of times the user copies
  MaxApplies  \* bound on the number of updates from the peer

ASSUME ClipboardAssumption ==
  /\ NoText \notin Texts
  /\ OutCap \in Nat \ {0} /\ MaxCopies \in Nat /\ MaxApplies \in Nat

VARIABLES
  clip,       \* the text on the OS clipboard
  last_hash,  \* the text last sent or last received; NoText: the initial 0
  watcher,    \* where the watcher is: "poll", "check", "send" or "ended"
  text,       \* the text the watcher has read
  applying,   \* the text apply() has hashed and not yet written, or NoText
  out,        \* the out channel
  receiver,   \* the channel's receiver exists
  copies,     \* number of copies by the user so far
  applies,    \* number of calls of apply() so far
  (* History, read by properties only. *)
  origin,     \* who put the text on the clipboard: "user" or "peer"
  from,       \* origin of the text the watcher has read
  disturbed,  \* apply() overlapped a read and its check, or could not write
  exchanged   \* texts sent or received since the watcher last took one for new

env == <<copies, applies, receiver>>
clipVars == <<clip, last_hash, watcher, text, applying, out, env,
            origin, from, disturbed, exchanged>>

Origins == {"user", "peer"}

ClipTypeOK ==
  /\ {clip, last_hash, text, applying} \subseteq Texts \cup {NoText}
  /\ watcher \in {"poll", "check", "send", "ended"}
  /\ out \in Seq([text : Texts, from : Origins]) /\ Len(out) <= OutCap
  /\ receiver \in BOOLEAN /\ disturbed \in BOOLEAN
  /\ copies \in 0..MaxCopies /\ applies \in 0..MaxApplies
  /\ origin \in Origins /\ from \in Origins /\ exchanged \subseteq Texts
  /\ watcher \in {"check", "send"} => text \in Texts

ClipInit ==
  /\ clip \in Texts \cup {NoText}
  /\ last_hash = NoText
  /\ watcher = "poll"
  /\ text = NoText
  /\ applying = NoText
  /\ out = <<>>
  /\ receiver = TRUE
  /\ copies = 0 /\ applies = 0
  /\ origin = "user" /\ from = "user"
  /\ disturbed = FALSE
  /\ exchanged = {}

-------------------------------------------------------------------------------
(* The environment. *)

\* The user copies a text, or something that is not text.
UserCopies(t) ==
  /\ copies < MaxCopies
  /\ copies' = copies + 1
  /\ clip' = t
  /\ origin' = "user"
  /\ UNCHANGED <<last_hash, watcher, text, applying, out, applies, receiver,
                 from, disturbed, exchanged>>

\* An update leaves the channel for the peer.
Drain ==
  /\ out # <<>>
  /\ out' = Tail(out)
  /\ UNCHANGED <<clip, last_hash, watcher, text, applying, env,
                 origin, from, disturbed, exchanged>>

\* The session that drains the channel ends.
ReceiverDropped ==
  /\ receiver
  /\ receiver' = FALSE
  /\ out' = <<>>
  /\ UNCHANGED <<clip, last_hash, watcher, text, applying, copies, applies,
                 origin, from, disturbed, exchanged>>

-------------------------------------------------------------------------------
(* The watcher. *)

\* After POLL_INTERVAL, get_text() under the first mutex.  A read that fails, or
\* finds no text, leaves everything as it is.
WatchRead ==
  /\ watcher = "poll"
  /\ clip # NoText
  /\ watcher' = "check"
  /\ text' = clip
  /\ from' = origin
  /\ disturbed' = (disturbed \/ applying # NoText)
  /\ UNCHANGED <<clip, last_hash, applying, out, env, origin, exchanged>>

\* Under the second mutex: a text that is already known is not sent.
WatchCheck ==
  /\ watcher = "check"
  /\ IF last_hash = text
     THEN watcher' = "poll" /\ UNCHANGED <<last_hash, exchanged>>
     ELSE watcher' = "send" /\ last_hash' = text /\ exchanged' = {}
  /\ UNCHANGED <<clip, text, applying, out, env, origin, from, disturbed>>

\* The message is queued, and the watcher polls again.
Queue ==
  /\ out' = Append(out, [text |-> text, from |-> from])
  /\ exchanged' = exchanged \cup {text}
  /\ watcher' = "poll"

\* A mutant of WatchSend: the message is queued whether there is room or not.
WatchSendUnboundedMutant ==
  /\ watcher = "send" /\ receiver
  /\ Queue
  /\ UNCHANGED <<clip, last_hash, text, applying, env, origin, from, disturbed>>

\* A mutant of WatchSend: try_send(), the message is lost if there is no room.
WatchSendTriesMutant ==
  /\ watcher = "send" /\ receiver
  /\ IF Len(out) < OutCap THEN Queue
     ELSE watcher' = "poll" /\ UNCHANGED <<out, exchanged>>
  /\ UNCHANGED <<clip, last_hash, text, applying, env, origin, from, disturbed>>

\* out.send(): waits for room in the channel.
WatchSend ==
  /\ watcher = "send" /\ receiver
  /\ Len(out) < OutCap
  /\ Queue
  /\ UNCHANGED <<clip, last_hash, text, applying, env, origin, from, disturbed>>

\* The receiver is gone: send() fails and the task ends.
WatchEnds ==
  /\ watcher = "send" /\ ~receiver
  /\ watcher' = "ended"
  /\ UNCHANGED <<clip, last_hash, text, applying, out, env,
                 origin, from, disturbed, exchanged>>

-------------------------------------------------------------------------------
(* apply() on a ClipboardUpdate with UTF-8 text; any other message returns at *)
(* once.                                                                      *)

\* A mutant of ApplyHash: the hash of the text is not stored.
ApplyHashForgetsMutant(t) ==
  /\ applying = NoText
  /\ applies < MaxApplies
  /\ applies' = applies + 1
  /\ applying' = t
  /\ exchanged' = {t}
  /\ disturbed' = (disturbed \/ watcher = "check")
  /\ UNCHANGED <<clip, last_hash, watcher, text, out, copies, receiver, origin, from>>

\* last_hash, under the second mutex.
ApplyHash(t) ==
  /\ applying = NoText
  /\ applies < MaxApplies
  /\ applies' = applies + 1
  /\ last_hash' = t
  /\ applying' = t
  /\ exchanged' = {t}
  /\ disturbed' = (disturbed \/ watcher = "check")
  /\ UNCHANGED <<clip, watcher, text, out, copies, receiver, origin, from>>

\* set_text(), under the first mutex: it succeeds, or fails and is only logged.
ApplyWrite ==
  /\ applying # NoText
  /\ \/ clip' = applying /\ origin' = "peer" /\ UNCHANGED disturbed
     \/ disturbed' = TRUE /\ UNCHANGED <<clip, origin>>
  /\ applying' = NoText
  /\ UNCHANGED <<last_hash, watcher, text, out, env, from, exchanged>>

-------------------------------------------------------------------------------
ClipNext ==
  \/ \E t \in Texts \cup {NoText} : UserCopies(t)
  \/ Drain
  \/ ReceiverDropped
  \/ WatchRead
  \/ WatchCheck
  \/ WatchSend
  \/ WatchEnds
  \/ \E t \in Texts : ApplyHash(t)
  \/ ApplyWrite

\* The watcher polls for ever and reads succeed again and again; the channel is
\* drained; apply() runs to its end.
ClipFairness ==
  /\ WF_clipVars(WatchRead)
  /\ WF_clipVars(WatchCheck)
  /\ WF_clipVars(WatchSend)
  /\ WF_clipVars(Drain)
  /\ WF_clipVars(ApplyWrite)

ClipSafeSpec == ClipInit /\ [][ClipNext]_clipVars
ClipSpec == ClipSafeSpec /\ ClipFairness

-------------------------------------------------------------------------------
(* Properties. *)

\* The loop suppression works as long as apply() succeeds and never overlaps the
\* watcher's read and check: no text from the peer is sent back.
NoEchoUndisturbed ==
  ~disturbed => \A i \in DOMAIN out : out[i].from = "user"

\* A text that stays on the clipboard, the channel's receiver being there, is
\* queued for the peer or came from it: the watcher never takes a text for known
\* that was not exchanged since it last found a new one, whatever apply() does to
\* last_hash meanwhile, and a full channel delays a text without losing it.
ClipboardSettles ==
  \A t \in Texts : clip = t ~> clip # t \/ t \in exchanged \/ ~receiver

\* crates/dshare-clipboard/src/lib.rs:4-5 and 69: "Per-direction loop suppression
\* prevents echo when we apply a remote update locally", "without retriggering
\* broadcast".  The code does not ensure it: between the watcher's read of a text
\* the peer sent earlier and the check of it, apply() can store the hash of the
\* next text from the peer; the check then takes the older one for new.
NoEcho == \A i \in DOMAIN out : out[i].from = "user"
===============================================================================
