----------------------------- MODULE WireCodec ------------------------------
(***************************************************************************)
(* The binary codec of rvpn-core/protocol/codec.rs.  Each message is a     *)
(* type byte and a sequence of fields; every decoder walks the fields with *)
(* a cursor and returns an error as soon as one does not fit into what is  *)
(* left.  A format below lists the fields in the order both functions of   *)
(* the source use.                                                         *)
(*                                                                         *)
(* A byte is a digit to the base Radix, so that lengths wrap where the     *)
(* casts of the source wrap.  A fixed-width field is one byte, since the   *)
(* codec treats its bytes as one unit, and text is what from_utf8 accepts. *)
(* An absent error and an empty one are the same: the codec cannot tell    *)
(* them apart.                                                             *)
(***************************************************************************)
EXTENDS Naturals, SequencesExt, FiniteSetsExt

CONSTANTS
    Radix,       \* number of values of a byte
    MaxLen,      \* bound: length of a text or of data
    MaxItems,    \* bound: items of a batch
    MaxCipher    \* MAX_CIPHERTEXT_LEN

VARIABLES
    message,  \* the message that is sent: its type and its field values
    bytes,    \* what has arrived of it
    decoder,  \* the type whose decoder has read it, 0 before
    result    \* what the decoder has returned

vars == <<message, bytes, decoder, result>>

Byte == 0..Radix - 1
\* The outcome of a decoder, as an optional sequence of values.
Error == <<>>
Ok(values) == <<values>>
-----------------------------------------------------------------------------
(* Integers, big-endian. *)

ToBytes(n, width) ==
    [i \in 1..width |-> (n \div (Radix ^ (width - i))) % Radix]

FromBytes(b) == FoldLeft(LAMBDA acc, d : acc * Radix + d, 0, b)
-----------------------------------------------------------------------------
(* Fields: a byte, a flag, bytes behind a length of the given width, and   *)
(* items behind a count.                                                   *)

Fixed == [kind |-> "fixed"]
Flag == [kind |-> "flag"]
Sized(width, max) == [kind |-> "sized", width |-> width, max |-> max]
Bytes(width) == Sized(width, Radix ^ width)
Many(width, item) == [kind |-> "many", width |-> width, item |-> item]

EncodeField(field, value) ==
    CASE field.kind = "fixed" -> <<value>>
      [] field.kind = "flag" -> <<value>>
      [] field.kind = "sized" -> ToBytes(Len(value), field.width) \o value

EncodeFields(fields, values) ==
    FlattenSeq([i \in 1..Len(fields) |-> EncodeField(fields[i], values[i])])

\* The cursor behind a field, or an error.
Step(at, ok, n, value) ==
    IF at.error \/ at.pos + n > Len(at.bytes) \/ ~ok
    THEN [at EXCEPT !.error = TRUE]
    ELSE [at EXCEPT !.pos = @ + n, !.values = Append(@, value)]

\* A sized field without the check that its bytes have arrived.
DecodeFieldUnchecked(at, field) ==
    LET here == at.pos + 1
        width == IF field.kind = "sized" THEN field.width ELSE 1
    IN  IF at.error \/ at.pos + width > Len(at.bytes) THEN [at EXCEPT !.error = TRUE]
        ELSE IF field.kind = "fixed" THEN Step(at, TRUE, 1, at.bytes[here])
        ELSE IF field.kind = "flag" THEN Step(at, TRUE, 1, Min({at.bytes[here], 1}))
        ELSE LET n == FromBytes(SubSeq(at.bytes, here, at.pos + width))
                 end == Min({at.pos + width + n, Len(at.bytes)})
             IN  Step(at, n <= field.max, end - at.pos, SubSeq(at.bytes, here + width, end))

DecodeField(at, field) ==
    LET here == at.pos + 1
        width == IF field.kind = "sized" THEN field.width ELSE 1
    IN  IF at.error \/ at.pos + width > Len(at.bytes) THEN [at EXCEPT !.error = TRUE]
        ELSE IF field.kind = "fixed" THEN Step(at, TRUE, 1, at.bytes[here])
        ELSE IF field.kind = "flag" THEN Step(at, TRUE, 1, Min({at.bytes[here], 1}))
        ELSE LET n == FromBytes(SubSeq(at.bytes, here, at.pos + width))
                 end == at.pos + width + n
             IN  Step(at, n <= field.max, width + n,
                      SubSeq(at.bytes, here + width, Min({end, Len(at.bytes)})))
-----------------------------------------------------------------------------
(* The formats. *)

ProxyConnect == [type |-> 1, fields |-> <<Fixed, Bytes(1), Fixed>>]
ProxyResponse == [type |-> 2, fields |-> <<Fixed, Flag, Bytes(2)>>]
ProxyData == [type |-> 3, fields |-> <<Fixed, Flag, Bytes(4)>>]
DnsQuery == [type |-> 5, fields |-> <<Fixed, Fixed, Bytes(1)>>]

\* The addresses of both families, one byte each, behind their counts.
DnsResponse == [type |-> 6, fields |-> <<Fixed, Flag, Fixed, Bytes(1), Bytes(1), Bytes(2)>>]

\* The DH key is present or not; the flag is written by a format of its own.
RatchetMessage(dh) ==
    [type |-> 4, fields |-> <<Flag>> \o (IF dh THEN <<Fixed>> ELSE <<>>) \o
                            <<Fixed, Fixed, Fixed, Fixed, Sized(4, MaxCipher)>>]

ProxyDataBatch == [type |-> 10, fields |-> <<Many(2, <<Fixed, Flag, Bytes(4)>>)>>]

IsBatch(format) == format.type = ProxyDataBatch.type
ItemFields == ProxyDataBatch.fields[1].item

Encode(m) ==
    LET format == m.format
    IN  <<format.type>> \o
        IF IsBatch(format)
        THEN ToBytes(Len(m.values), 2) \o
             FlattenSeq([i \in 1..Len(m.values) |-> EncodeFields(ItemFields, m.values[i])])
        ELSE EncodeFields(format.fields, m.values)

Start(b) == [bytes |-> b, pos |-> 1, values |-> <<>>, error |-> FALSE]
Fields(at, fields) == FoldLeft(DecodeField, at, fields)

DecodeBatch(b) ==
    IF Len(b) < 3 THEN Error
    ELSE LET n == FromBytes(SubSeq(b, 2, 3))
             Item(acc, i) == LET at == Fields([acc EXCEPT !.values = <<>>], ItemFields)
                             IN  [at EXCEPT !.values = Append(acc.values, at.values)]
             at == FoldLeft(Item, [Start(b) EXCEPT !.pos = 3], [i \in 1..n |-> i])
         IN  IF at.error THEN Error ELSE Ok(at.values)

\* The decoder of a ratchet message reads the flag first.
DecodeRatchet(b) ==
    IF Len(b) < 2 THEN Error
    ELSE LET at == Fields(Start(b), RatchetMessage(b[2] # 0).fields)
         IN  IF at.error THEN Error ELSE Ok(at.values)

\* The decoder of a format, for its type byte only.
Decode(format, b) ==
    IF b = <<>> \/ b[1] # format.type THEN Error
    ELSE IF IsBatch(format) THEN DecodeBatch(b)
    ELSE IF format.type = 4 THEN DecodeRatchet(b)
    ELSE LET at == Fields(Start(b), format.fields)
         IN  IF at.error THEN Error ELSE Ok(at.values)
-----------------------------------------------------------------------------
Formats ==
    {ProxyConnect, ProxyResponse, ProxyData, DnsQuery, DnsResponse, ProxyDataBatch,
     RatchetMessage(TRUE), RatchetMessage(FALSE)}

Values(field) ==
    CASE field.kind = "fixed" -> {1}
      [] field.kind = "flag" -> {0, 1}
      [] field.kind = "sized" -> {[i \in 1..n |-> 1] : n \in 0..MaxLen}

Tuples(fields) ==
    FoldLeft(LAMBDA acc, f : {Append(v, x) : v \in acc, x \in Values(f)}, {<<>>}, fields)

MessagesOf(format) ==
    LET values == IF IsBatch(format) THEN SeqOf(Tuples(ItemFields), MaxItems)
                  ELSE IF format.type # 4 THEN Tuples(format.fields)
                  ELSE {v \in Tuples(format.fields) : v[1] = Len(format.fields) - 6}
    IN  {[format |-> format, values |-> v] : v \in values}

Init ==
    /\ \E f \in Formats : message \in MessagesOf(f)
    /\ bytes = Encode(message) /\ decoder = 0 /\ result = Error

\* The transport loses the end of the message.
Truncate ==
    /\ decoder = 0 /\ bytes # <<>>
    /\ bytes' = Front(bytes)
    /\ UNCHANGED <<message, decoder, result>>

\* A decoder, of the message's type or of another one, reads what arrived.
Receive(format) ==
    /\ decoder = 0
    /\ decoder' = format.type /\ result' = Decode(format, bytes)
    /\ UNCHANGED <<message, bytes>>

Next == Truncate \/ \E f \in Formats : Receive(f)

Spec == Init /\ [][Next]_vars
-----------------------------------------------------------------------------
TypeOK ==
    /\ bytes \in Seq(Byte \cup {f.type : f \in Formats})
    /\ decoder \in {0} \cup {f.type : f \in Formats}
    /\ message.format \in Formats /\ Len(result) \in 0..1

\* Every length and count fits the integer it is cast to.
LengthsFit(m) ==
    IF IsBatch(m.format)
    THEN Len(m.values) < Radix ^ 2
    ELSE \A i \in 1..Len(m.format.fields) :
           LET f == m.format.fields[i]
           IN  f.kind = "sized" => Len(m.values[i]) < Radix ^ f.width /\ Len(m.values[i]) <= f.max

(***************************************************************************)
(* What a decoder returns is what was encoded, or an error: a message that *)
(* lost its end, or that meets the decoder of another type, is refused,    *)
(* and one that arrived whole decodes to itself, if its lengths fit their  *)
(* prefixes.                                                               *)
(***************************************************************************)
DecodesToItselfOrFails ==
    decoder # 0 /\ LengthsFit(message) =>
      result = IF bytes = Encode(message) /\ decoder = message.format.type
               THEN Ok(message.values) ELSE Error
=============================================================================
