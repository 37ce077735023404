------------------------------ MODULE FramePipe ------------------------------
(***************************************************************************)
(* Frames on their way through a tunnel: MultiplexedFrame and FrameCodec   *)
(* (protocol/multiplex.rs), pad_packet and unpad_packet                    *)
(* (protocol/padding.rs) and the batches of encrypt_data_batch             *)
(* (mobile/server_session.rs).  In "message" mode frames travel in padded  *)
(* messages, in "stream" mode as a byte stream that arrives in pieces.     *)
(*                                                                         *)
(* A cell stands for a byte of payload or padding, for a whole integer of  *)
(* a frame header, or for the two bytes of the padding length.             *)
(***************************************************************************)
EXTENDS Naturals, SequencesExt, FiniteSetsExt

CONSTANTS
    MaxPayload,  \* MAX_PAYLOAD_SIZE
    Block,       \* PADDING_BLOCK_SIZE
    MaxPadded,   \* MAX_PADDED_SIZE
    MaxBatch,    \* packets in a batch of the mobile client
    Sizes,       \* bound: payload sizes
    MaxFrames    \* bound: frames of a run

VARIABLES
    mode,      \* how frames travel: "message" or "stream"
    sent,      \* the frames handed over, in order
    refused,   \* sizes of the frames the sender has refused
    link,      \* padded messages in flight, or the stream in flight
    buffer,    \* FrameCodec.buffer of the receiver
    received   \* the frames the receiver has returned, in order

vars == <<mode, sent, refused, link, buffer, received>>

Header == 2
PadLen == 1
Frame(flow, n) == [flow |-> flow, payload |-> [i \in 1..n |-> flow]]
-----------------------------------------------------------------------------
(* Frames. *)

Encoded(f) == <<f.flow, Len(f.payload)>> \o f.payload

\* Accepts a frame whose last cell has not arrived.
DecodeShort(data) ==
    IF Len(data) < Header \/ Len(data) + 1 < Header + data[2] THEN <<>>
    ELSE <<[flow |-> data[1],
            payload |-> SubSeq(data, Header + 1, Min({Len(data), Header + data[2]}))]>>

\* The frame at the start of data, or none if it is not complete.
DecodeFirst(data) ==
    IF Len(data) < Header \/ Len(data) < Header + data[2] THEN <<>>
    ELSE <<[flow |-> data[1], payload |-> SubSeq(data, Header + 1, Header + data[2])]>>

Behind(data) == SubSeq(data, Header + data[2] + 1, Len(data))

\* parse_frames: as many frames as are complete.
ParseFrames(data) ==
    LET Take(acc, i) == LET f == DecodeFirst(acc.rest)
                        IN  IF f = <<>> THEN acc
                            ELSE [frames |-> acc.frames \o f, rest |-> Behind(acc.rest)]
    IN  FoldLeft(Take, [frames |-> <<>>, rest |-> data], [i \in 1..Len(data) |-> i]).frames
-----------------------------------------------------------------------------
(* Padding. *)

Blocks(n) == ((n + PadLen + Block - 1) \div Block) * Block

Cells(n, c) == [i \in 1..n |-> c]

\* Forgets that the padding length takes room.
PadToLong(data, target, fill) ==
    LET padding == target - Len(data)
    IN  data \o Cells(padding, fill) \o <<padding>>

\* The data, padding filled with an arbitrary value, and its length.
PadTo(data, target, fill) ==
    LET padding == target - PadLen - Len(data)
    IN  data \o Cells(padding, fill) \o <<padding>>

\* Without the room for the padding length.
PaddedSizeTight(n) == Min({((n + Block - 1) \div Block) * Block, MaxPadded})

PaddedSize(n) == IF n = 0 THEN Block ELSE Min({Blocks(n), MaxPadded})

\* pad_packet succeeds.
Paddable(n) == n <= PaddedSize(n) - PadLen

\* unpad_packet, on whatever decryption returned.
UnpadPacket(data) ==
    IF Len(data) < PadLen \/ Last(data) > Len(data) - PadLen THEN <<>>
    ELSE SubSeq(data, 1, Len(data) - PadLen - Last(data))

-----------------------------------------------------------------------------
Init ==
    /\ mode \in {"message", "stream"}
    /\ sent = <<>> /\ refused = {} /\ link = <<>> /\ buffer = <<>> /\ received = <<>>

Room == Len(sent) + Cardinality(refused)

\* One frame in one message, or appended to the stream.
SendFrame(n, fill) ==
    /\ Room < MaxFrames
    /\ LET f == Frame(Len(sent) + 1, n)
           data == Encoded(f)
           ok == n <= MaxPayload /\ (mode = "message" => Paddable(Len(data)))
       IN  /\ refused' = IF ok THEN refused ELSE refused \cup {n}
           /\ sent' = IF ok THEN Append(sent, f) ELSE sent
           /\ link' = IF ~ok THEN link
                      ELSE IF mode = "stream" THEN link \o data
                      ELSE Append(link, PadTo(data, PaddedSize(Len(data)), fill))
    /\ UNCHANGED <<mode, buffer, received>>

\* A batch of packets in one message, which no limit of the padding caps.
SendBatch(sizes, fill) ==
    /\ mode = "message" /\ sizes # <<>> /\ Room + Len(sizes) <= MaxFrames
    /\ LET fs == [i \in 1..Len(sizes) |-> Frame(Len(sent) + i, sizes[i])]
           data == FlattenSeq([i \in 1..Len(fs) |-> Encoded(fs[i])])
       IN  /\ sent' = sent \o fs
           /\ link' = Append(link, PadTo(data, Blocks(Len(data)), fill))
    /\ UNCHANGED <<mode, refused, buffer, received>>

\* A message arrives: unpad_packet, then parse_frames.
Deliver ==
    /\ mode = "message" /\ link # <<>>
    /\ link' = SubSeq(link, 2, Len(link))
    /\ received' = received \o ParseFrames(UnpadPacket(Head(link)))
    /\ UNCHANGED <<mode, sent, refused, buffer>>

\* A piece of the stream arrives.
Feed(n) ==
    /\ mode = "stream" /\ n \in 1..Len(link)
    /\ buffer' = buffer \o SubSeq(link, 1, n)
    /\ link' = SubSeq(link, n + 1, Len(link))
    /\ UNCHANGED <<mode, sent, refused, received>>

\* decode_next returns a frame.
DecodeNext ==
    /\ mode = "stream" /\ DecodeFirst(buffer) # <<>>
    /\ received' = received \o DecodeFirst(buffer)
    /\ buffer' = Behind(buffer)
    /\ UNCHANGED <<mode, sent, refused, link>>

Next ==
    \/ \E n \in Sizes, fill \in {0, 1} : SendFrame(n, fill)
    \/ \E sizes \in SeqOf({n \in Sizes : n <= MaxPayload}, MaxBatch), fill \in {0, 1} :
         SendBatch(sizes, fill)
    \/ Deliver
    \/ \E n \in 1..3 : Feed(n)
    \/ DecodeNext

Spec == Init /\ [][Next]_vars
-----------------------------------------------------------------------------
TypeOK ==
    /\ mode \in {"message", "stream"} /\ refused \subseteq Sizes
    /\ \A i \in 1..Len(sent) : sent[i].flow = i
    /\ buffer \in Seq(Nat)

(***************************************************************************)
(* The receiver returns the frames that were sent, in order and unchanged, *)
(* whatever the random padding was and wherever the stream was cut: no     *)
(* padding is read as a frame, no frame is lost in a batch, and once       *)
(* nothing is on the way every frame has been returned.                    *)
(***************************************************************************)
FramesSurvive ==
    /\ IsPrefix(received, sent)
    /\ link = <<>> /\ DecodeFirst(buffer) = <<>> => received = sent /\ buffer = <<>>

(***************************************************************************)
(* Every message consists of whole blocks, at a frame that just fits and   *)
(* at one that needs another block for the length of its padding.          *)
(***************************************************************************)
WholeBlocks ==
    mode = "message" => \A i \in 1..Len(link) : Len(link[i]) % Block = 0 /\ link[i] # <<>>

(***************************************************************************)
(* A frame is refused only because it is too large for its header or for   *)
(* the largest padded message: the 8190 bytes a relay reads at most are    *)
(* always sent.                                                            *)
(***************************************************************************)
OnlyOversizeRefused ==
    \A n \in refused : n > MaxPayload \/ Header + n + PadLen > MaxPadded
=============================================================================
