------------------------------- MODULE WsLink -------------------------------
(***************************************************************************)
(* The mobile client's own WebSocket (rvpn-mobile/ws.rs): the upgrade, the *)
(* reader with its persistent buffer and the writer that masks frames.     *)
(* The peer is the server's WebSocket library, modelled by the frames it   *)
(* sends (unmasked and unfragmented) and by how it reads ours; it answers  *)
(* the client's Hello, so its first frame comes after the upgrade.         *)
(*                                                                         *)
(* The transport is a stream: a read returns any number of the bytes that  *)
(* have arrived.  A cell stands for a byte of payload, for one byte of the *)
(* header, or for a whole extended length.                                 *)
(***************************************************************************)
EXTENDS Naturals, SequencesExt, FiniteSetsExt

CONSTANTS
    Small,      \* 125: the largest length that fits the header
    Medium,     \* 65535: the largest length of the 2-byte extension
    OutLen,     \* length of the caller's frame buffer
    RespLen,    \* length of the upgrade response
    Sizes,      \* bound: payload sizes
    MaxFrames   \* bound: frames in both directions

VARIABLES
    phase,      \* of the client: "upgrade", "open", or "failed"
    response,   \* cells of the upgrade response read so far
    down,       \* cells on the way to the client
    eof,        \* whether the server has closed the stream
    readBuf,    \* MinimalWsReader.read_buf
    sent,       \* frames the server has sent
    returned,   \* frames next_frame has returned
    up,         \* cells on the way to the server
    written     \* frames the client has written

vars == <<phase, response, down, eof, readBuf, sent, returned, up, written>>

Binary == 2
Close == 8
Ping == 9
Pong == 10
Frame(op, n) == [op |-> op, payload |-> [i \in 1..n |-> (i + n) % 2]]
-----------------------------------------------------------------------------
(* The header: the opcode, the mask bit with the length or the code of its *)
(* extension, and the extension.                                           *)

Ext16 == Small + 1
Ext64 == Small + 2
MaskBit == 128

\* An off-by-one at the largest short length.
HeaderAtLimit(op, n, mask) ==
    IF n <= Small + 1 THEN <<op, mask + n>>
    ELSE <<op, mask + (IF n <= Medium THEN Ext16 ELSE Ext64), n>>

Header(op, n, mask) ==
    IF n <= Small THEN <<op, mask + n>>
    ELSE <<op, mask + (IF n <= Medium THEN Ext16 ELSE Ext64), n>>

\* XOR with the repeating key; a second application restores the data.
ApplyMask(data, key) == [i \in 1..Len(data) |-> (data[i] + key[1 + ((i - 1) % Len(key))]) % 2]

ClientFrame(f, key) ==
    Header(f.op, Len(f.payload), MaskBit) \o key \o ApplyMask(f.payload, key)

ServerFrame(f) == Header(f.op, Len(f.payload), 0) \o f.payload

\* The length of the header at the start of a buffer and of its payload, or
\* nothing while they cannot be told.
HeaderOf(b) ==
    IF Len(b) < 2 THEN <<>>
    ELSE IF b[2] % MaskBit <= Small THEN <<2, b[2] % MaskBit>>
    ELSE IF Len(b) < 3 THEN <<>> ELSE <<3, b[3]>>

FrameEnd(b) == HeaderOf(b)[1] + HeaderOf(b)[2]

\* Takes the header of a frame for the frame.
CompleteAtHeader(b) == HeaderOf(b) # <<>> /\ Len(b) >= HeaderOf(b)[1]

Complete(b) == HeaderOf(b) # <<>> /\ Len(b) >= FrameEnd(b)

Payload(b) == SubSeq(b, HeaderOf(b)[1] + 1, Min({FrameEnd(b), Len(b)}))
-----------------------------------------------------------------------------
Init ==
    /\ phase = "upgrade" /\ response = 0 /\ down = <<>> /\ eof = FALSE /\ readBuf = <<>>
    /\ sent = <<>> /\ returned = <<>> /\ up = <<>> /\ written = <<>>

\* connect: the request is answered; the response arrives in pieces.  Bytes
\* read past its end are dropped with resp_buf, whatever the comment of split
\* says ("preserved"); this peer sends none before the client has spoken.
ReadResponse(n) ==
    /\ phase = "upgrade" /\ n \in 1..(RespLen - response)
    /\ response' = response + n
    /\ phase' = IF response' = RespLen THEN "open" ELSE phase
    /\ UNCHANGED <<down, eof, readBuf, sent, returned, up, written>>

\* The answer is not the expected upgrade, or the stream ends before it.
UpgradeFails ==
    /\ phase = "upgrade" /\ phase' = "failed"
    /\ UNCHANGED <<response, down, eof, readBuf, sent, returned, up, written>>

ServerSends(f) ==
    /\ phase = "open" /\ ~eof /\ Len(sent) + Len(written) < MaxFrames
    /\ sent' = Append(sent, f) /\ down' = down \o ServerFrame(f)
    /\ UNCHANGED <<phase, response, eof, readBuf, returned, up, written>>

ServerEnds ==
    /\ phase = "open" /\ ~eof /\ eof' = TRUE
    /\ UNCHANGED <<phase, response, down, readBuf, sent, returned, up, written>>

\* One turn of next_frame: it waits for bytes before it looks at what the
\* buffer holds, and returns at most one frame.
NextFrame(n) ==
    /\ phase = "open" /\ n \in 1..Len(down)
    /\ down' = SubSeq(down, n + 1, Len(down))
    /\ LET b == readBuf \o SubSeq(down, 1, n)
           refused == HeaderOf(b)[2] > OutLen \/ b[2] >= MaskBit \/
                      b[1] \notin {Binary, Ping, Pong, Close}
           f == [op |-> b[1], payload |-> IF b[1] \in {Binary, Ping} THEN Payload(b) ELSE <<>>]
       IN  IF ~Complete(b)
           THEN readBuf' = b /\ UNCHANGED <<phase, returned>>
           ELSE IF refused
           THEN readBuf' = b /\ phase' = "failed" /\ UNCHANGED returned
           ELSE /\ readBuf' = SubSeq(b, FrameEnd(b) + 1, Len(b))
                /\ returned' = Append(returned, f) /\ UNCHANGED phase
    /\ UNCHANGED <<response, eof, sent, up, written>>

\* No new bytes: the reader reports the end of the stream.
NextFrameEof ==
    /\ phase = "open" /\ eof /\ down = <<>> /\ phase' = "failed"
    /\ UNCHANGED <<response, down, eof, readBuf, sent, returned, up, written>>

\* write_frame: the whole frame in one write, under a fresh key.
WriteFrame(f, key) ==
    /\ phase = "open" /\ Len(sent) + Len(written) < MaxFrames
    /\ written' = Append(written, f)
    /\ up' = up \o ClientFrame(f, key)
    /\ UNCHANGED <<phase, response, down, eof, readBuf, sent, returned>>

Frames == {Frame(op, n) : op \in {Binary, Ping}, n \in Sizes} \cup {Frame(Close, 0), Frame(Pong, 0)}
Key == {<<0, 1>>, <<1, 1>>}

Next ==
    \/ \E n \in 1..RespLen : ReadResponse(n)
    \/ UpgradeFails
    \/ \E f \in Frames : ServerSends(f)
    \/ ServerEnds
    \/ \E n \in 1..Len(down) : NextFrame(n)
    \/ NextFrameEof
    \/ \E f \in {x \in Frames : x.op # Close}, key \in Key : WriteFrame(f, key)

Spec == Init /\ [][Next]_vars
-----------------------------------------------------------------------------
TypeOK ==
    /\ phase \in {"upgrade", "open", "failed"} /\ response \in 0..RespLen
    /\ eof \in BOOLEAN
    /\ Len(returned) <= Len(sent) /\ Len(sent) <= MaxFrames

(***************************************************************************)
(* The reader returns the server's frames in order and unchanged, wherever *)
(* the stream is cut, and keeps the others: what it has returned, what its *)
(* buffer holds and what is on the way are the frames sent.                *)
(***************************************************************************)
FramesConserved ==
    /\ IsPrefix(returned, sent)
    /\ readBuf \o down =
         FlattenSeq([i \in 1..(Len(sent) - Len(returned)) |-> ServerFrame(sent[Len(returned) + i])])

\* The peer's reader: frames with the mask bit, unmasked.
ServerReads ==
    LET Take(acc, i) ==
            IF ~Complete(acc.rest) THEN acc
            ELSE LET h == HeaderOf(acc.rest)
                     end == h[1] + 2 + h[2]
                     key == SubSeq(acc.rest, h[1] + 1, h[1] + 2)
                     data == SubSeq(acc.rest, h[1] + 3, end)
                 IN  [frames |-> Append(acc.frames, [op |-> acc.rest[1],
                                                     payload |-> ApplyMask(data, key)]),
                      rest |-> SubSeq(acc.rest, end + 1, Len(acc.rest))]
    IN  FoldLeft(Take, [frames |-> <<>>, rest |-> up], [i \in 1..Len(written) |-> i]).frames

(***************************************************************************)
(* The server reads exactly the frames the client has written, also at the *)
(* lengths where the header changes its form.                              *)
(***************************************************************************)
WrittenIsReadable == ServerReads = written
=============================================================================
