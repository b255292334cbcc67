---------------------------- MODULE Segmentation ----------------------------
(***************************************************************************)
(* How a message is cut into submessages and put together again:           *)
(* writeSegmentedInternal on the sending side, receive and takeNext on the *)
(* receiving one, for one message, any sizes of its user header and        *)
(* payload, and any order of arrival.  Locks, timeouts and the segment     *)
(* table are the subject of TransportToIox, devices that of                *)
(* IoxToTransport.                                                         *)
(*                                                                         *)
(* A byte is named by its place: <<"header", i>> or <<"payload", i>>.  A   *)
(* datagram is a sequence: the words of the serialized datagram header,    *)
(* then bytes.  The hashes and the alignment in that header are left out.  *)
(***************************************************************************)
EXTENDS Integers, Sequences, FiniteSets

CONSTANTS
    HeaderSizes,   \* userHeaderSize, zero for a message without user header
    PayloadSizes,  \* userPayloadSize
    TransportSizes,\* maxTransportPayloadSize
    Width,         \* bits of a size (32 in the code)
    MayTruncate    \* whether the receiver's socket buffer may be too small

ASSUME SizesAssumption ==
    /\ IsFiniteSet(HeaderSizes) /\ HeaderSizes \subseteq Nat
    /\ IsFiniteSet(PayloadSizes) /\ PayloadSizes \subseteq Nat
    /\ IsFiniteSet(TransportSizes) /\ TransportSizes \subseteq Nat \ {0}
    /\ Width \in Nat /\ 2 ^ Width \in Nat /\ MayTruncate \in BOOLEAN
    /\ \A size \in HeaderSizes \cup PayloadSizes, max \in TransportSizes :
          size + max <= 2 ^ Width

VARIABLES
    userHeaderSize, userPayloadSize, maxSize,
    submessageCount,
    submessageOffset, remainingHeader, remainingPayload,  \* the sending loops
    wire,      \* datagrams on their way
    truncated, \* history: a datagram has lost its end
    arrived,   \* number of submessages received
    counter,   \* submessages the table entry still waits for
    header, payload,  \* the loaned chunk: the byte in each place
    state      \* of that chunk: "none", "loaned" or "published"

sizes == <<userHeaderSize, userPayloadSize, maxSize, submessageCount>>
sender == <<submessageOffset, remainingHeader, remainingPayload>>
receiver == <<arrived, counter, header, payload, state>>
vars == <<sizes, sender, wire, truncated, receiver>>

-----------------------------------------------------------------------------
NoByte == <<"none", 0>>
Buffer(size) == 0 .. size - 1
EmptyBuffer(size) == [i \in Buffer(size) |-> NoByte]
Least(a, b) == IF a <= b THEN a ELSE b

\* Mutant: rounds up what needs no rounding, too.
DivideAndAddOne(divident, divisor) == (divident \div divisor) + 1

\* In unsigned arithmetic.
DivideAndRoundUp(divident, divisor) ==
    ((divident + divisor - 1) % 2 ^ Width) \div divisor

SubmessageCount(hs, ps, max) == DivideAndRoundUp(hs, max) + DivideAndRoundUp(ps, max)

Init ==
    /\ userHeaderSize \in HeaderSizes /\ userPayloadSize \in PayloadSizes
    /\ maxSize \in TransportSizes
    /\ submessageCount = SubmessageCount(userHeaderSize, userPayloadSize, maxSize)
    /\ submessageOffset = 0
    /\ remainingHeader = userHeaderSize /\ remainingPayload = userPayloadSize
    /\ wire = {} /\ truncated = FALSE /\ arrived = 0 /\ counter = 0
    /\ header = EmptyBuffer(0) /\ payload = EmptyBuffer(0)
    /\ state = "none"

-----------------------------------------------------------------------------
\* serialize and deserialize of an IoxChunkDatagramHeader_t.
Serialize(h) ==
    <<h.submessageCount, h.submessageOffset, h.submessageSize, h.userPayloadSize,
      h.userHeaderSize>>

HeaderLength == 5

Deserialize(data) ==
    [submessageCount |-> data[1], submessageOffset |-> data[2], submessageSize |-> data[3],
     userPayloadSize |-> data[4], userHeaderSize |-> data[5]]

\* One submessage: its place in the message, and the bytes sent with it.
SendUserData(offset, size, bytes) ==
    wire' = wire \cup
        {Serialize([submessageCount |-> submessageCount, submessageOffset |-> offset,
                    submessageSize |-> size, userPayloadSize |-> userPayloadSize,
                    userHeaderSize |-> userHeaderSize]) \o bytes}

\* Mutant: header and payload are cut as if they were one block.
SendHeaderFilled ==
    /\ remainingHeader # 0
    /\ LET size == Least(maxSize, remainingHeader + remainingPayload)
           Byte(i) == IF submessageOffset + i < userHeaderSize
                      THEN <<"header", submessageOffset + i>>
                      ELSE <<"payload", submessageOffset + i - userHeaderSize>>
       IN  /\ SendUserData(submessageOffset, size, [i \in 1 .. size |-> Byte(i - 1)])
           /\ submessageOffset' = submessageOffset + size
           /\ remainingHeader' = remainingHeader - Least(size, remainingHeader)
           /\ remainingPayload' = remainingPayload - (size - Least(size, remainingHeader))
    /\ UNCHANGED <<sizes, truncated, receiver>>

\* The first loop sends the user header.
SendHeader ==
    /\ remainingHeader # 0
    /\ LET size == Least(maxSize, remainingHeader)
       IN  /\ SendUserData(submessageOffset, size,
                           [i \in 1 .. size |-> <<"header", submessageOffset + i - 1>>])
           /\ submessageOffset' = submessageOffset + size
           /\ remainingHeader' = remainingHeader - size
    /\ UNCHANGED <<sizes, remainingPayload, truncated, receiver>>

\* The second loop sends the payload.
SendPayload ==
    /\ remainingHeader = 0 /\ remainingPayload # 0
    /\ LET size == Least(maxSize, remainingPayload)
       IN  /\ SendUserData(submessageOffset, size,
                 [i \in 1 .. size |-> <<"payload", submessageOffset + i - 1 - userHeaderSize>>])
           /\ submessageOffset' = submessageOffset + size
           /\ remainingPayload' = remainingPayload - size
    /\ UNCHANGED <<sizes, remainingHeader, truncated, receiver>>

-----------------------------------------------------------------------------
\* A receiver whose buffer is smaller than the sender's messages: the end of
\* the datagram is lost, though not that of its header.
Truncate(d) ==
    /\ MayTruncate /\ ~truncated
    /\ truncated' = TRUE
    /\ wire' = (wire \ {d}) \cup {SubSeq(d, 1, Len(d) - 1)}
    /\ UNCHANGED <<sizes, sender, receiver>>

\* Mutant: header and bytes are not compared.
ValidAlways(d) == Len(d) >= HeaderLength

\* "Validate header"
Valid(d) == Len(d) = Deserialize(d).submessageSize + HeaderLength

\* A datagram that is not valid is dropped.
ReceiveInvalid(d) ==
    /\ ~Valid(d)
    /\ wire' = wire \ {d}
    /\ UNCHANGED <<sizes, sender, truncated, receiver>>

\* A buffer after the copy of size bytes to their place.  (What is beyond the
\* end of the datagram is not the message's.)
Written(buffer, at, size, bytes) ==
    [i \in DOMAIN buffer \cup (at .. at + size - 1) |->
        IF i - at \notin Buffer(size) THEN buffer[i]
        ELSE IF i - at + 1 \in DOMAIN bytes THEN bytes[i - at + 1] ELSE NoByte]

\* takeNext copies into the header or into the payload of the chunk.
TakeNext(h, bytes, oldHeader, oldPayload) ==
    IF h.submessageOffset < h.userHeaderSize
    THEN /\ header' = Written(oldHeader, h.submessageOffset, h.submessageSize, bytes)
         /\ payload' = oldPayload
    ELSE /\ payload' = Written(oldPayload, h.submessageOffset - h.userHeaderSize,
                               h.submessageSize, bytes)
         /\ header' = oldHeader

\* The first submessage to arrive loans the chunk; with the last one, by the
\* count of the entry, the chunk is published.  (If there were more to come
\* after that, it would begin another message; this model stops there.)
Receive(d) ==
    LET h == Deserialize(d)
        bytes == SubSeq(d, HeaderLength + 1, Len(d))
    IN  /\ Valid(d) /\ state # "published"
        /\ wire' = wire \ {d}
        /\ arrived' = arrived + 1
        /\ IF state = "none"
           THEN /\ counter' = h.submessageCount - 1
                /\ state' = IF h.submessageCount > 1 THEN "loaned" ELSE "published"
                /\ TakeNext(h, bytes, EmptyBuffer(h.userHeaderSize),
                            EmptyBuffer(h.userPayloadSize))
           ELSE /\ counter' = counter - 1
                /\ state' = IF counter = 1 THEN "published" ELSE "loaned"
                /\ TakeNext(h, bytes, header, payload)
        /\ UNCHANGED <<sizes, sender, truncated>>

WriteSegmented == SendHeader \/ SendPayload
ReceiveAny == \E d \in wire : Receive(d) \/ ReceiveInvalid(d)

Next == WriteSegmented \/ ReceiveAny \/ \E d \in wire : Truncate(d)

\* Every submessage is sent and, on a network without loss, received.  Of the
\* invariants this covers loss, too: a lost submessage is one not yet received.
Spec == Init /\ [][Next]_vars /\ WF_vars(WriteSegmented) /\ WF_vars(ReceiveAny)

-----------------------------------------------------------------------------
\* Types: no submessage is empty or too large for the transport, and nothing
\* is written outside of the chunk.
TypeOK ==
    /\ submessageCount \in Nat /\ counter \in Nat /\ arrived \in 0 .. submessageCount
    /\ submessageOffset \in 0 .. userHeaderSize + userPayloadSize
    /\ remainingHeader \in 0 .. userHeaderSize /\ remainingPayload \in 0 .. userPayloadSize
    /\ \A d \in wire : Deserialize(d).submessageSize \in 1 .. maxSize
    /\ truncated \in BOOLEAN
    /\ state # "none" => /\ DOMAIN header = Buffer(userHeaderSize)
                         /\ DOMAIN payload = Buffer(userPayloadSize)
    /\ state \in {"none", "loaned", "published"}

\* PublishedIntact: what is published is the message that was sent, byte by
\* byte, in whatever order its submessages came; losing one, or the end of one,
\* prevents it.
PublishedIntact ==
    state = "published" =>
        /\ header = [i \in Buffer(userHeaderSize) |-> <<"header", i>>]
        /\ payload = [i \in Buffer(userPayloadSize) |-> <<"payload", i>>]

\* Arrives: every message that is not empty gets published, unless a datagram is
\* lost or truncated: the count in its datagram headers is the number of
\* submessages really sent.
Arrives == userHeaderSize + userPayloadSize > 0 => <>(state = "published" \/ truncated)
=============================================================================
