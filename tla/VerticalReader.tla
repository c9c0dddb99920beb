--------------------------- MODULE VerticalReader ---------------------------
(***************************************************************************)
(* A connection of an application module, byte by byte: what the module    *)
(* marshals, how handleConnection cuts the stream into messages again, and *)
(* where the payloads it hands on are kept.                                *)
(*                                                                         *)
(* The unit is a word of two bytes, which every field of the four packets  *)
(* fills (an announcement's ttl and reserved byte share one), and so a     *)
(* header has two.  The reader reuses one buffer.  A payload is not        *)
(* copied: it is a piece of the array behind the buffer, which the strategy*)
(* keeps until its next gossip tick, while the reader goes on reading.     *)
(* slices.Grow takes a new array if the message does not fit into this one.*)
(***************************************************************************)
EXTENDS Integers, SequencesExt, FiniteSets

CONSTANTS
  Packets,       \* the messages a module sends
  Modulus,       \* the values of a uint16
  GossipAnnounceType, GossipNotifyType, GossipValidationType,
  GossipNotificationType,
  CutAt,         \* the sizes of messages that are cut short
  MaxFrames,     \* bound: frames a module sends
  MaxSpare       \* bound: words that an array gets more than was asked for

Types == {GossipAnnounceType, GossipNotifyType, GossipValidationType, GossipNotificationType}
Words == 0..(Modulus - 1)

HeaderSize == 2

\* The shortest a packet of any type is: two fields of a word each, and no payload.
EmptySize == HeaderSize + 2

ASSUME VerticalReaderAssumption ==
  /\ Modulus \in Nat \ {0, 1} /\ MaxFrames \in Nat /\ MaxSpare \in Nat
  /\ CutAt \subseteq 1..(EmptySize - 1)
  /\ Types \subseteq Words /\ Cardinality(Types) = 4
  /\ \A p \in Packets : p \in Seq(Words) /\ Len(p) >= EmptySize /\ Len(p) = p[1]

-----------------------------------------------------------------------------
(* The packets. *)

\* A message with this body, under a header with its size.
Marshal(type, body) == <<(HeaderSize + Len(body)) % Modulus, type>> \o body

\* ttl stands for the time to live and the byte after it.
GossipAnnounce(ttl, dataType, data) == Marshal(GossipAnnounceType, <<ttl, dataType>> \o data)
GossipNotify(dataType) == Marshal(GossipNotifyType, <<0, dataType>>)
GossipValidation(id, bitfield) == Marshal(GossipValidationType, <<id, bitfield>>)
GossipNotification(id, dataType, data) ==
  Marshal(GossipNotificationType, <<id, dataType>> \o data)

\* The payload, which ends with the message.
Payload(buf) == SubSeq(buf, EmptySize + 1, buf[1])

\* What the reader hands on of a message; the payload of an announcement stays where
\* it is.
UnmarshalAnnounce(buf) == [ttl |-> buf[3], dataType |-> buf[4]]
UnmarshalNotify(buf) == [dataType |-> buf[4]]
UnmarshalValidation(buf) == [id |-> buf[3], valid |-> buf[4] % 2 = 1]

\* The types it reads; a message that is too short for its type is refused.
Accepted(buf) ==
  /\ buf[2] \in {GossipAnnounceType, GossipNotifyType, GossipValidationType}
  /\ Len(buf) >= EmptySize

Unmarshal(buf) ==
  CASE buf[2] = GossipAnnounceType   -> UnmarshalAnnounce(buf)
    [] buf[2] = GossipNotifyType     -> UnmarshalNotify(buf)
    [] buf[2] = GossipValidationType -> UnmarshalValidation(buf)

\* Fault: the header is counted as part of the payload.
UnmarshalNotificationLong(buf) ==
  [id |-> buf[3], dataType |-> buf[4], data |-> SubSeq(buf, HeaderSize + 1, buf[1])]

\* A module's reading of a notification.
UnmarshalNotification(buf) == [id |-> buf[3], dataType |-> buf[4], data |-> Payload(buf)]

\* The announcement as it is pushed, and the push as other peers notify it.
ConvertAnnounceToPush(id, msg, payload) ==
  [ttl |-> msg.ttl, gossipType |-> msg.dataType, id |-> id, payload |-> payload]
ConvertPushToNotification(push) == GossipNotification(push.id, push.gossipType, push.payload)

-----------------------------------------------------------------------------

VARIABLES
  sent,      \* history: the frames the module has sent
  left,      \* the module has closed the connection
  stream,    \* the words that were not read yet
  reader,    \* where the reader is
  arrays,    \* the arrays that were ever behind the buffer; the last one is
  frames,    \* history: how many frames were read
  handed     \* the messages handed to main, with a history of their payload

vars == <<sent, left, stream, reader, arrays, frames, handed>>

\* The beginning of packet p, which says that it is all: n words, or its header.
Cut(p, n) == <<n>> \o SubSeq(p, 2, IF n < HeaderSize THEN HeaderSize ELSE n)

\* What a module sends: a packet, one that is cut short and says so, or a header with
\* a size below its own.
Frames == Packets \cup {Cut(p, n) : p \in Packets, n \in CutAt}

TypeOK ==
  /\ sent \in Seq(Frames) /\ Len(sent) <= MaxFrames
  /\ left \in BOOLEAN
  /\ stream \in Seq(Words)
  /\ reader \in {"header", "body", "ended", "panicked"}
  /\ arrays \in Seq(Seq(Words)) /\ arrays # <<>>
  /\ frames \in 0..Len(sent)
  /\ reader = "body" => Last(arrays)[1] \in HeaderSize..Len(Last(arrays))
  /\ \A h \in Range(handed) :
       /\ h.array \in 1..Len(arrays)
       /\ h.size \in EmptySize..Len(arrays[h.array])
       /\ h.frame \in 1..frames

Init ==
  /\ sent = <<>> /\ left = FALSE /\ stream = <<>>
  /\ reader = "header" /\ arrays = <<[i \in 1..HeaderSize |-> 0]>>
  /\ frames = 0 /\ handed = <<>>

Send(f) ==
  /\ ~left /\ Len(sent) < MaxFrames
  /\ sent' = Append(sent, f) /\ stream' = stream \o f
  /\ UNCHANGED <<left, reader, arrays, frames, handed>>

\* The module closes its end, or dies, and the last n words do not arrive.
Leave(n) ==
  /\ ~left /\ left' = TRUE
  /\ stream' = SubSeq(stream, 1, Len(stream) - n)
  /\ UNCHANGED <<sent, reader, arrays, frames, handed>>

-----------------------------------------------------------------------------
(* The reader. *)

\* The array behind the buffer, with the words w from place i on.
Filled(i, w) ==
  [j \in 1..Len(Last(arrays)) |->
     IF j \in i..(i + Len(w) - 1) THEN w[j - i + 1] ELSE Last(arrays)[j]]

Behind(array) == [arrays EXCEPT ![Len(arrays)] = array]

\* Fault: room is made for the message without its header.
GrownShort(array, size) ==
  IF size - HeaderSize <= Len(array) THEN {Behind(array)}
  ELSE {Append(Behind(array), array \o [i \in 1..(size - Len(array) + n) |-> 0]) : n \in 0..MaxSpare}

\* slices.Grow: the array as it is, or one with the room, and what was in this one.
Grown(array, size) ==
  IF size <= Len(array) THEN {Behind(array)}
  ELSE {Append(Behind(array), array \o [i \in 1..(size - Len(array) + n) |-> 0]) : n \in 0..MaxSpare}

\* Fault: the body of a message is not read unless its type is known.
ReadHeaderSkips ==
  /\ reader = "header" /\ Len(stream) >= HeaderSize /\ stream[1] >= HeaderSize
  /\ arrays' \in Grown(Filled(1, SubSeq(stream, 1, HeaderSize)), stream[1])
  /\ stream' = SubSeq(stream, HeaderSize + 1, Len(stream))
  /\ reader' = IF stream[2] \in {GossipAnnounceType, GossipNotifyType, GossipValidationType}
               THEN "body" ELSE "header"
  /\ frames' = IF reader' = "body" THEN frames ELSE frames + 1
  /\ UNCHANGED <<sent, left, handed>>

ReadHeader ==
  /\ reader = "header" /\ Len(stream) >= HeaderSize /\ stream[1] >= HeaderSize
  /\ arrays' \in Grown(Filled(1, SubSeq(stream, 1, HeaderSize)), stream[1])
  /\ stream' = SubSeq(stream, HeaderSize + 1, Len(stream))
  /\ reader' = "body"
  /\ UNCHANGED <<sent, left, frames, handed>>

\* slices.Grow does not take a negative number: the program ends.
ReadHeaderPanics ==
  /\ reader = "header" /\ Len(stream) >= HeaderSize /\ stream[1] < HeaderSize
  /\ reader' = "panicked"
  /\ UNCHANGED <<sent, left, stream, arrays, frames, handed>>

\* A message of a type that is read, and not too short for it, goes to main.
ReadBody ==
  LET size == Last(arrays)[1]
      body == SubSeq(stream, 1, size - HeaderSize)
      buf  == SubSeq(Filled(HeaderSize + 1, body), 1, size)
  IN  /\ reader = "body" /\ Len(stream) >= size - HeaderSize
      /\ arrays' = Behind(Filled(HeaderSize + 1, body))
      /\ stream' = SubSeq(stream, Len(body) + 1, Len(stream))
      /\ reader' = "header" /\ frames' = frames + 1
      /\ handed' = IF Accepted(buf)
                   THEN Append(handed, [type |-> buf[2], msg |-> Unmarshal(buf), payload |-> Payload(buf),
                                        array |-> Len(arrays), size |-> size, frame |-> frames + 1])
                   ELSE handed
      /\ UNCHANGED <<sent, left>>

\* Fault: the rest of the body is waited for.
ReadTruncatedAgain ==
  /\ left /\ \/ reader = "header" /\ Len(stream) \in 1..(HeaderSize - 1)
             \/ reader = "body" /\ Len(stream) < Last(arrays)[1] - HeaderSize
  /\ arrays' = Behind(Filled(IF reader = "header" THEN 1 ELSE HeaderSize + 1, stream))
  /\ stream' = <<>>
  /\ UNCHANGED <<sent, left, reader, frames, handed>>

\* The stream ends within a message: the reader tries the next header.
ReadTruncated ==
  /\ left /\ \/ reader = "header" /\ Len(stream) \in 1..(HeaderSize - 1)
             \/ reader = "body" /\ Len(stream) < Last(arrays)[1] - HeaderSize
  /\ arrays' = Behind(Filled(IF reader = "header" THEN 1 ELSE HeaderSize + 1, stream))
  /\ stream' = <<>>
  /\ reader' = "header"
  /\ UNCHANGED <<sent, left, frames, handed>>

\* EOF between two messages.
ReadEnds ==
  /\ left /\ reader = "header" /\ stream = <<>>
  /\ reader' = "ended"
  /\ UNCHANGED <<sent, left, stream, arrays, frames, handed>>

Read == ReadHeader \/ ReadHeaderPanics \/ ReadBody \/ ReadTruncated \/ ReadEnds

Next ==
  \/ \E f \in Frames : Send(f)
  \/ \E n \in 0..Len(stream) : Leave(n)
  \/ Read

Spec == Init /\ [][Next]_vars

\* The reader runs on, and main takes what it hands on.
FairSpec == Spec /\ WF_vars(Read)

-----------------------------------------------------------------------------
(* Properties. *)

\* What reaches main is what the module sent: every message of a type that is read
\* and long enough for it, once, in order, with its fields and its payload; frames
\* that are skipped do not take the reader out of step.
HandedAsSent ==
  /\ \A i, j \in 1..Len(handed) : i < j => handed[i].frame < handed[j].frame
  /\ {h.frame : h \in Range(handed)} = {i \in 1..frames : Accepted(sent[i])}
  /\ \A h \in Range(handed) :
       LET f == sent[h.frame]
       IN  h.type = f[2] /\ h.msg = Unmarshal(f) /\ h.payload = Payload(f)

\* What was announced to one peer fits into a notification to the modules of
\* another one, and they read from it what was announced.
NotifiedAsAnnounced ==
  \A h \in Range(handed), id \in Words :
    h.type = GossipAnnounceType =>
      LET buf == ConvertPushToNotification(ConvertAnnounceToPush(id, h.msg, h.payload))
          n   == UnmarshalNotification(buf)
      IN  Len(buf) = buf[1] /\ n.dataType = h.msg.dataType /\ n.data = h.payload

\* The payload of an announcement is still the announced one when the strategy
\* relays it.
AnnouncedPayloadKept ==
  \A h \in Range(handed) :
    h.type = GossipAnnounceType =>
      SubSeq(arrays[h.array], EmptySize + 1, h.size) = h.payload

\* The reader of a module that has left ends, wherever its last message was cut off.
EndNoticed == left ~> reader \in {"ended", "panicked"}
=============================================================================
