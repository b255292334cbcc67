------------------------- MODULE SegmentationProofs -------------------------
(***************************************************************************)
(* Theorems about Segmentation, for all sizes.  A count decides when the   *)
(* receiver publishes, and a count says nothing about which bytes have     *)
(* come: the invariant connects the number of datagrams cut so far with    *)
(* the places of the message that are filled or still on their way.        *)
(***************************************************************************)
EXTENDS Segmentation, FiniteSetTheorems, SequenceTheorems, TLAPS

Token == Int \cup ({"header", "payload", "none"} \X Int)

\* The byte in place k of the message, user header first, and what is in that
\* place of the chunk.
Place(k) == IF k < userHeaderSize THEN <<"header", k>> ELSE <<"payload", k - userHeaderSize>>
InChunk(k) == IF k < userHeaderSize THEN header[k] ELSE payload[k - userHeaderSize]

\* The sizes of a message do not change, and the loops of the sender cut off
\* the user header first.
SizesInv ==
    /\ userHeaderSize \in HeaderSizes /\ userPayloadSize \in PayloadSizes
    /\ maxSize \in TransportSizes
    /\ submessageCount = SubmessageCount(userHeaderSize, userPayloadSize, maxSize)
    /\ remainingHeader \in 0 .. userHeaderSize /\ remainingPayload \in 0 .. userPayloadSize
    /\ remainingHeader # 0 => remainingPayload = userPayloadSize
    /\ submessageOffset =
          (userHeaderSize - remainingHeader) + (userPayloadSize - remainingPayload)
    /\ truncated \in BOOLEAN

\* A datagram on its way may lack its last byte; all else about it is right.
Datagram(d) ==
    /\ d \in Seq(Token)
    /\ d[2] \in Nat /\ d[3] \in 1 .. maxSize
    /\ Len(d) \in {HeaderLength + d[3] - 1, HeaderLength + d[3]}
    /\ d[1] = submessageCount /\ d[4] = userPayloadSize /\ d[5] = userHeaderSize
    /\ d[2] + d[3] <= submessageOffset
    /\ d[2] < userHeaderSize => d[2] + d[3] <= userHeaderSize
    /\ \A i \in 1 .. d[3] : HeaderLength + i <= Len(d) => d[HeaderLength + i] = Place(d[2] + i - 1)

WireInv == \A d \in wire : Datagram(d) /\ (~truncated => Valid(d))

\* How many datagrams the sender has cut off, and which can still be received.
Sent == submessageCount - DivideAndRoundUp(remainingHeader, maxSize)
                        - DivideAndRoundUp(remainingPayload, maxSize)
Coming == {d \in wire : Valid(d)}
Spoilt == IF truncated THEN 1 ELSE 0

CountInv ==
    /\ IsFiniteSet(wire)
    /\ arrived \in Nat
    /\ arrived + Cardinality(Coming) + Spoilt <= Sent

\* The chunk has room for the message, and the entry waits for the rest.
ChunkInv ==
    \/ state = "none" /\ arrived = 0 /\ counter = 0
    \/ /\ state \in {"loaned", "published"}
       /\ counter = submessageCount - arrived
       /\ state = "published" <=> counter = 0
       /\ header \in [Buffer(userHeaderSize) -> Token]
       /\ payload \in [Buffer(userPayloadSize) -> Token]

\* Every place that the sender has passed is filled, or is on its way, unless
\* a datagram was spoilt.
Covers(d, k) == k \in d[2] .. d[2] + d[3] - 1
PlacesInv ==
    \A k \in 0 .. submessageOffset - 1 :
        \/ truncated
        \/ state # "none" /\ InChunk(k) = Place(k)
        \/ \E d \in Coming : Covers(d, k)

IntactInv == SizesInv /\ WireInv /\ CountInv /\ ChunkInv /\ PlacesInv

-----------------------------------------------------------------------------
\* Arithmetic.

\* What the assumption says of the sizes of one message.
LEMMA SizesFacts ==
    ASSUME SizesInv
    PROVE  /\ userHeaderSize \in Nat /\ userPayloadSize \in Nat
           /\ maxSize \in Nat /\ maxSize > 0
           /\ 2 ^ Width \in Nat
           /\ userHeaderSize + maxSize <= 2 ^ Width
           /\ userPayloadSize + maxSize <= 2 ^ Width
           /\ remainingHeader \in Nat /\ remainingHeader <= userHeaderSize
           /\ remainingPayload \in Nat /\ remainingPayload <= userPayloadSize
           /\ submessageOffset \in Nat
           /\ submessageOffset <= userHeaderSize + userPayloadSize
<1>1. /\ userHeaderSize \in Nat /\ userPayloadSize \in Nat
      /\ maxSize \in Nat /\ maxSize > 0
      /\ 2 ^ Width \in Nat
      /\ userHeaderSize + maxSize <= 2 ^ Width
      /\ userPayloadSize + maxSize <= 2 ^ Width
  BY SizesAssumption DEF SizesInv
<1>2. QED
  BY <1>1 DEF SizesInv

\* divideAndRoundUp counts the pieces of a block: none of an empty block, and
\* one less after a piece is cut off.  The sum does not wrap.
LEMMA Pieces ==
    ASSUME NEW size \in Nat, NEW max \in Nat, max > 0,
           2 ^ Width \in Nat, size + max <= 2 ^ Width
    PROVE  /\ DivideAndRoundUp(size, max) \in Nat
           /\ size = 0 => DivideAndRoundUp(size, max) = 0
           /\ size # 0 => /\ DivideAndRoundUp(size, max) > 0
                          /\ DivideAndRoundUp(size - Least(max, size), max)
                                = DivideAndRoundUp(size, max) - 1
<1> DEFINE W == 2 ^ Width
<1>0. W \in Nat /\ size + max <= W
  OBVIOUS
<1> HIDE DEF W
<1>1. ASSUME NEW a \in Nat, a <= size
      PROVE  DivideAndRoundUp(a, max) = (a + max - 1) \div max
  <2>1. a + max - 1 \in Nat /\ a + max - 1 < W /\ W > 0
    BY <1>0, <1>1
  <2>2. (a + max - 1) % W = a + max - 1
    BY <2>1, <1>0
  <2> QED
    BY <2>2 DEF DivideAndRoundUp, W
<1>2. \A a \in Nat : (a + max) \div max = (a \div max) + 1
  OBVIOUS
<1>3. \A a \in Nat : a < max => a \div max = 0
  OBVIOUS
<1>4. \A a \in Nat : a \div max \in Nat
  OBVIOUS
<1>5. size + max - 1 \in Nat
  OBVIOUS
<1>6. DivideAndRoundUp(size, max) \in Nat
  BY <1>1, <1>4, <1>5
<1>7. ASSUME size = 0 PROVE DivideAndRoundUp(size, max) = 0
  <2>1. size + max - 1 < max
    BY <1>7
  <2> QED
    BY <2>1, <1>1, <1>3, <1>5
<1>8. ASSUME size # 0
      PROVE  DivideAndRoundUp(size, max) = ((size - 1) \div max) + 1
  <2>1. size - 1 \in Nat /\ size + max - 1 = (size - 1) + max
    BY <1>8
  <2> QED
    BY <2>1, <1>1, <1>2
<1>9. ASSUME size # 0
      PROVE  DivideAndRoundUp(size - Least(max, size), max)
                = DivideAndRoundUp(size, max) - 1
  <2>1. CASE max <= size
    <3>1. size - max \in Nat /\ size - max <= size /\ size - 1 = size - max + max - 1
          /\ size - 1 \in Nat
      BY <2>1
    <3>2. DivideAndRoundUp(size - max, max) = (size - 1) \div max
      BY <3>1, <1>1
    <3>3. (size - 1) \div max \in Nat
      BY <3>1, <1>4
    <3> QED
      BY <3>2, <3>3, <2>1, <1>8, <1>9 DEF Least
  <2>2. CASE ~(max <= size)
    <3>1. size - 1 \in Nat /\ size - 1 < max /\ size - size = 0 /\ max - 1 \in Nat
          /\ max - 1 < max /\ 0 + max - 1 = max - 1 /\ 0 <= size /\ 0 \in Nat
      BY <2>2, <1>9
    <3>2. DivideAndRoundUp(0, max) = 0
      BY <3>1, <1>1, <1>3
    <3>3. (size - 1) \div max = 0
      BY <3>1, <1>3
    <3> QED
      BY <3>1, <3>2, <3>3, <2>2, <1>8, <1>9 DEF Least
  <2> QED
    BY <2>1, <2>2
<1>10. ASSUME size # 0 PROVE DivideAndRoundUp(size, max) > 0
  <2>1. (size - 1) \div max \in Nat
    BY <1>10, <1>4
  <2> QED
    BY <2>1, <1>8, <1>10
<1> QED
  BY <1>6, <1>7, <1>9, <1>10

\* The pieces of both blocks.
LEMMA Cut ==
    ASSUME SizesInv
    PROVE  /\ submessageCount \in Nat /\ Sent \in Int /\ Sent <= submessageCount
           /\ Sent = submessageCount => remainingHeader = 0 /\ remainingPayload = 0
           /\ DivideAndRoundUp(remainingHeader, maxSize) \in Nat
           /\ DivideAndRoundUp(remainingPayload, maxSize) \in Nat
<1>1. DivideAndRoundUp(userHeaderSize, maxSize) \in Nat
  BY SizesFacts, Pieces
<1>2. DivideAndRoundUp(userPayloadSize, maxSize) \in Nat
  BY SizesFacts, Pieces
<1>3. /\ DivideAndRoundUp(remainingHeader, maxSize) \in Nat
      /\ remainingHeader # 0 => DivideAndRoundUp(remainingHeader, maxSize) > 0
  <2>1. remainingHeader \in Nat /\ remainingHeader + maxSize <= 2 ^ Width
    BY SizesFacts
  <2> QED
    BY <2>1, SizesFacts, Pieces
<1>4. /\ DivideAndRoundUp(remainingPayload, maxSize) \in Nat
      /\ remainingPayload # 0 => DivideAndRoundUp(remainingPayload, maxSize) > 0
  <2>1. remainingPayload \in Nat /\ remainingPayload + maxSize <= 2 ^ Width
    BY SizesFacts
  <2> QED
    BY <2>1, SizesFacts, Pieces
<1>5. submessageCount \in Nat
  BY <1>1, <1>2 DEF SizesInv, SubmessageCount
<1> QED
  BY <1>3, <1>4, <1>5 DEF Sent

-----------------------------------------------------------------------------
\* Datagrams.

\* The lengths that receive compares.
LEMMA ValidLength ==
    ASSUME NEW d
    PROVE  Valid(d) <=> Len(d) = d[3] + 5
BY DEF Valid, Deserialize, HeaderLength

\* A serialized header followed by bytes: five words, then the bytes in their order.
Numbers(h) ==
    /\ h.submessageCount \in Nat /\ h.submessageOffset \in Nat /\ h.submessageSize \in Nat
    /\ h.userPayloadSize \in Nat /\ h.userHeaderSize \in Nat
Holds(d, h, size, bytes) ==
    /\ d \in Seq(Token) /\ Len(d) = 5 + size
    /\ d[1] = h.submessageCount /\ d[2] = h.submessageOffset
    /\ d[3] = h.submessageSize /\ d[4] = h.userPayloadSize
    /\ d[5] = h.userHeaderSize
    /\ \A i \in 1 .. size : d[5 + i] = bytes[i]

LEMMA Serialized ==
    ASSUME NEW h, Numbers(h), NEW size \in Nat, NEW bytes \in [1 .. size -> Token],
           NEW d, d = Serialize(h) \o bytes
    PROVE  Holds(d, h, size, bytes)
<1> DEFINE s == Serialize(h)
<1>1. s \in Seq(Token) /\ Len(s) = 5
  BY DEF Numbers, Serialize, Token
<1>2. bytes \in Seq(Token) /\ Len(bytes) = size
  <2> HIDE DEF s
  <2> QED
    OBVIOUS
<1>3. /\ s[1] = h.submessageCount /\ s[2] = h.submessageOffset
      /\ s[3] = h.submessageSize /\ s[4] = h.userPayloadSize
      /\ s[5] = h.userHeaderSize
  BY DEF Serialize
<1> HIDE DEF s
<1>4. d = s \o bytes
  BY DEF s
<1>5. /\ d \in Seq(Token) /\ Len(d) = 5 + size
      /\ \A i \in 1 .. 5 + size : d[i] = IF i <= 5 THEN s[i] ELSE bytes[i - 5]
  <2>1. /\ s \o bytes \in Seq(Token) /\ Len(s \o bytes) = Len(s) + Len(bytes)
        /\ \A i \in 1 .. Len(s) + Len(bytes) :
              (s \o bytes)[i] = IF i <= Len(s) THEN s[i] ELSE bytes[i - Len(s)]
    BY <1>1, <1>2, ConcatProperties, Zenon
  <2> QED
    BY <2>1, <1>1, <1>2, <1>4, Zenon
<1>6. \A i \in 1 .. size : d[5 + i] = bytes[i]
  <2> TAKE i \in 1 .. size
  <2>1. 5 + i \in 1 .. 5 + size /\ ~(5 + i <= 5) /\ 5 + i - 5 = i
    OBVIOUS
  <2> QED
    BY <2>1, <1>5
<1>7. /\ d[1] = s[1] /\ d[2] = s[2] /\ d[3] = s[3] /\ d[4] = s[4] /\ d[5] = s[5]
  <2>1. 1 \in 1 .. 5 + size /\ 2 \in 1 .. 5 + size /\ 3 \in 1 .. 5 + size
        /\ 4 \in 1 .. 5 + size /\ 5 \in 1 .. 5 + size
    OBVIOUS
  <2> QED
    BY <2>1, <1>5
<1> QED
  BY <1>3, <1>5, <1>6, <1>7 DEF Holds

\* A datagram stays one while sizes are the same and the sender goes on.
LEMMA DatagramStays ==
    ASSUME NEW d, Datagram(d), UNCHANGED sizes,
           submessageOffset \in Nat, submessageOffset' \in Nat, submessageOffset <= submessageOffset'
    PROVE  Datagram(d)'
<1>1. /\ userHeaderSize' = userHeaderSize /\ userPayloadSize' = userPayloadSize
      /\ maxSize' = maxSize /\ submessageCount' = submessageCount
  BY DEF sizes
<1>2. maxSize' = maxSize /\ d[2] \in Nat /\ d[3] \in 1 .. maxSize /\ d[2] + d[3] <= submessageOffset
  BY <1>1 DEF Datagram
<1>3. d[3] \in Int
  BY <1>2
<1>4. d[2] + d[3] <= submessageOffset'
  BY <1>2, <1>3
<1>5. \A k : Place(k)' = Place(k)
  BY <1>1 DEF Place
<1> QED
  BY <1>1, <1>4, <1>5 DEF Datagram

\* Bytes are tokens.
LEMMA BytesAreTokens ==
    ASSUME NEW k \in Int
    PROVE  <<"header", k>> \in Token /\ <<"payload", k>> \in Token /\ NoByte \in Token
BY DEF Token, NoByte

-----------------------------------------------------------------------------
\* The sender.

\* A datagram with the next bytes of the message, which does not cross the end
\* of the user header.
LEMMA SendStep ==
    ASSUME IntactInv, SizesInv', UNCHANGED <<sizes, truncated, receiver>>,
           NEW size \in 1 .. maxSize, NEW bytes \in [1 .. size -> Token],
           SendUserData(submessageOffset, size, bytes),
           \A i \in 1 .. size : bytes[i] = Place(submessageOffset + i - 1),
           submessageOffset < userHeaderSize => submessageOffset + size <= userHeaderSize,
           submessageOffset' = submessageOffset + size,
           Sent' = Sent + 1
    PROVE  IntactInv'
<1>1. /\ userHeaderSize' = userHeaderSize /\ userPayloadSize' = userPayloadSize
      /\ maxSize' = maxSize /\ submessageCount' = submessageCount
      /\ truncated' = truncated /\ arrived' = arrived /\ counter' = counter
      /\ header' = header /\ payload' = payload /\ state' = state
  BY DEF sizes, receiver
<1>2. SizesInv /\ WireInv /\ CountInv /\ ChunkInv /\ PlacesInv
  BY DEF IntactInv
<1>3. /\ submessageOffset \in Nat /\ userHeaderSize \in Nat /\ userPayloadSize \in Nat
      /\ maxSize \in Nat /\ submessageCount \in Nat /\ Sent \in Int /\ size \in Nat
  BY <1>2, SizesFacts, Cut
<1>4. PICK h : /\ h = [submessageCount |-> submessageCount, submessageOffset |-> submessageOffset,
                       submessageSize |-> size, userPayloadSize |-> userPayloadSize,
                       userHeaderSize |-> userHeaderSize]
               /\ wire' = wire \cup {Serialize(h) \o bytes}
  BY DEF SendUserData
<1>5. /\ h.submessageCount = submessageCount /\ h.submessageOffset = submessageOffset
      /\ h.submessageSize = size /\ h.userPayloadSize = userPayloadSize
      /\ h.userHeaderSize = userHeaderSize
  BY <1>4
<1>6. PICK d : d = Serialize(h) \o bytes
  OBVIOUS
<1>7. wire' = wire \cup {d}
  BY <1>4, <1>6
<1>8. /\ d \in Seq(Token) /\ Len(d) = 5 + size
      /\ d[1] = submessageCount /\ d[2] = submessageOffset /\ d[3] = size
      /\ d[4] = userPayloadSize /\ d[5] = userHeaderSize
      /\ \A i \in 1 .. size : d[5 + i] = bytes[i]
  <2>1. Numbers(h)
    BY <1>3, <1>5 DEF Numbers
  <2>2. Holds(d, h, size, bytes)
    BY <2>1, <1>3, <1>6, Serialized
  <2> QED
    BY <2>2, <1>5 DEF Holds
<1>9. Valid(d)
  BY <1>3, <1>8, ValidLength
<1>10. \A k : Place(k)' = Place(k)
  BY <1>1 DEF Place
<1>11. Datagram(d)'
  <2>1. \A i \in 1 .. d[3] : d[HeaderLength + i] = Place(d[2] + i - 1)'
    BY <1>8, <1>10 DEF HeaderLength
  <2>2. Len(d) = HeaderLength + d[3]
    BY <1>8 DEF HeaderLength
  <2>3. d[2] \in Nat /\ d[3] \in 1 .. maxSize'
    BY <1>1, <1>3, <1>8
  <2>4. d[2] + d[3] <= submessageOffset'
    BY <1>3, <1>8
  <2>5. d[2] < userHeaderSize' => d[2] + d[3] <= userHeaderSize'
    BY <1>1, <1>8
  <2>6. d[1] = submessageCount' /\ d[4] = userPayloadSize' /\ d[5] = userHeaderSize'
    BY <1>1, <1>8
  <2> QED
    BY <2>1, <2>2, <2>3, <2>4, <2>5, <2>6, <1>8 DEF Datagram
<1>12. WireInv'
  <2> SUFFICES ASSUME NEW e \in wire'
               PROVE  Datagram(e)' /\ (~truncated' => Valid(e))
    BY DEF WireInv
  <2>1. CASE e \in wire
    <3>1. Datagram(e) /\ (~truncated => Valid(e))
      BY <2>1, <1>2 DEF WireInv
    <3>2. submessageOffset' \in Nat /\ submessageOffset <= submessageOffset'
      BY <1>3
    <3> QED
      BY <3>1, <3>2, <1>1, <1>3, DatagramStays
  <2>2. CASE e = d
    BY <2>2, <1>9, <1>11
  <2> QED
    BY <2>1, <2>2, <1>7
<1>13. Coming' = Coming \cup {d}
  BY <1>7, <1>9 DEF Coming
<1>14. CountInv'
  <2>1. IsFiniteSet(wire) /\ IsFiniteSet(Coming)
    BY <1>2, FS_Subset DEF CountInv, Coming
  <2>2. IsFiniteSet(wire')
    BY <2>1, <1>7, FS_AddElement
  <2>3. Cardinality(Coming) \in Nat
    BY <2>1, FS_CardinalityType
  <2>4. Cardinality(Coming') \in Nat /\ Cardinality(Coming') <= Cardinality(Coming) + 1
    <3>1. Cardinality(Coming \cup {d})
             = IF d \in Coming THEN Cardinality(Coming) ELSE Cardinality(Coming) + 1
      BY <2>1, FS_AddElement, Zenon
    <3> QED
      BY <3>1, <2>3, <1>13
  <2>5. Spoilt' = Spoilt /\ Spoilt \in Nat
    BY <1>1 DEF Spoilt
  <2>6. arrived \in Nat /\ arrived + Cardinality(Coming) + Spoilt <= Sent
    BY <1>2 DEF CountInv
  <2>7. arrived + Cardinality(Coming') + Spoilt <= Sent + 1
    BY <2>3, <2>4, <2>5, <2>6, <1>3
  <2> QED
    BY <2>2, <2>5, <2>6, <2>7, <1>1 DEF CountInv
<1>15. ChunkInv'
  BY <1>1, <1>2 DEF ChunkInv
<1>16. PlacesInv'
  <2> SUFFICES ASSUME NEW k \in 0 .. submessageOffset' - 1
               PROVE  \/ truncated'
                      \/ state' # "none" /\ InChunk(k)' = Place(k)'
                      \/ \E e \in Coming' : Covers(e, k)
    BY DEF PlacesInv
  <2>1. CASE k < submessageOffset
    <3>1. k \in 0 .. submessageOffset - 1
      BY <2>1, <1>3
    <3>2. \/ truncated
          \/ state # "none" /\ InChunk(k) = Place(k)
          \/ \E e \in Coming : Covers(e, k)
      BY <3>1, <1>2 DEF PlacesInv
    <3>3. InChunk(k)' = InChunk(k)
      BY <1>1 DEF InChunk
    <3> QED
      BY <3>2, <3>3, <1>1, <1>10, <1>13
  <2>2. CASE ~(k < submessageOffset)
    <3>1. Covers(d, k)
      BY <2>2, <1>3, <1>8 DEF Covers
    <3> QED
      BY <3>1, <1>13
  <2> QED
    BY <2>1, <2>2
<1> QED
  BY <1>12, <1>14, <1>15, <1>16 DEF IntactInv

\* The first loop.
LEMMA SendHeaderStep ==
    ASSUME IntactInv, SendHeader
    PROVE  IntactInv'
<1>1. SizesInv /\ remainingHeader # 0
  BY DEF IntactInv, SendHeader
<1>2. PICK size : /\ size = Least(maxSize, remainingHeader)
                  /\ SendUserData(submessageOffset, size,
                         [i \in 1 .. size |-> <<"header", submessageOffset + i - 1>>])
                  /\ submessageOffset' = submessageOffset + size
                  /\ remainingHeader' = remainingHeader - size
  BY DEF SendHeader
<1>3. /\ UNCHANGED <<sizes, remainingPayload, truncated, receiver>>
      /\ userHeaderSize' = userHeaderSize /\ userPayloadSize' = userPayloadSize
      /\ maxSize' = maxSize /\ submessageCount' = submessageCount
      /\ remainingPayload' = remainingPayload /\ truncated' = truncated
  BY DEF SendHeader, sizes
<1>4. /\ userHeaderSize \in Nat /\ userPayloadSize \in Nat /\ maxSize \in Nat /\ maxSize > 0
      /\ remainingHeader \in Nat /\ remainingHeader <= userHeaderSize
      /\ submessageOffset \in Nat /\ submessageOffset = userHeaderSize - remainingHeader
      /\ remainingPayload = userPayloadSize
  BY <1>1, SizesFacts DEF SizesInv
<1>5. size \in 1 .. maxSize /\ size <= remainingHeader
  BY <1>1, <1>2, <1>4 DEF Least
<1>6. SizesInv'
  <2>1. remainingHeader' \in 0 .. userHeaderSize'
    BY <1>2, <1>3, <1>4, <1>5
  <2>2. submessageOffset' = (userHeaderSize' - remainingHeader') + (userPayloadSize' - remainingPayload')
    BY <1>2, <1>3, <1>4, <1>5
  <2> QED
    BY <2>1, <2>2, <1>1, <1>3, <1>4 DEF SizesInv, SubmessageCount, DivideAndRoundUp
<1> DEFINE bytes == [i \in 1 .. size |-> <<"header", submessageOffset + i - 1>>]
<1>7. bytes \in [1 .. size -> Token]
  <2>1. \A i \in 1 .. size : <<"header", submessageOffset + i - 1>> \in Token
    <3> TAKE i \in 1 .. size
    <3>1. submessageOffset + i - 1 \in Int
      BY <1>4, <1>5
    <3> QED
      BY <3>1, BytesAreTokens
  <2> QED
    BY <2>1
<1>8. \A i \in 1 .. size : bytes[i] = Place(submessageOffset + i - 1)
  <2> TAKE i \in 1 .. size
  <2>1. submessageOffset + i - 1 < userHeaderSize
    BY <1>4, <1>5
  <2> QED
    BY <2>1 DEF Place
<1>9. submessageOffset + size <= userHeaderSize
  BY <1>4, <1>5
<1>10. Sent' = Sent + 1
  <2>1. 2 ^ Width \in Nat /\ remainingHeader + maxSize <= 2 ^ Width
    BY <1>1, SizesFacts
  <2>2. DivideAndRoundUp(remainingHeader - size, maxSize)
           = DivideAndRoundUp(remainingHeader, maxSize) - 1
    BY <2>1, <1>1, <1>2, <1>4, Pieces
  <2>3. /\ submessageCount \in Nat /\ DivideAndRoundUp(remainingHeader, maxSize) \in Nat
        /\ DivideAndRoundUp(remainingPayload, maxSize) \in Nat
    BY <1>1, Cut
  <2>4. Sent' = submessageCount - DivideAndRoundUp(remainingHeader - size, maxSize)
                                - DivideAndRoundUp(remainingPayload, maxSize)
    BY <1>2, <1>3 DEF Sent, DivideAndRoundUp
  <2> QED
    BY <2>2, <2>3, <2>4 DEF Sent
<1>11. SendUserData(submessageOffset, size, bytes)
  BY <1>2
<1> HIDE DEF bytes
<1> QED
  BY <1>2, <1>3, <1>5, <1>6, <1>7, <1>8, <1>9, <1>10, <1>11, SendStep

\* The second loop.
LEMMA SendPayloadStep ==
    ASSUME IntactInv, SendPayload
    PROVE  IntactInv'
<1>1. SizesInv /\ remainingHeader = 0 /\ remainingPayload # 0
  BY DEF IntactInv, SendPayload
<1>2. PICK size : /\ size = Least(maxSize, remainingPayload)
                  /\ SendUserData(submessageOffset, size,
                         [i \in 1 .. size |-> <<"payload", submessageOffset + i - 1 - userHeaderSize>>])
                  /\ submessageOffset' = submessageOffset + size
                  /\ remainingPayload' = remainingPayload - size
  BY DEF SendPayload
<1>3. /\ UNCHANGED <<sizes, remainingHeader, truncated, receiver>>
      /\ userHeaderSize' = userHeaderSize /\ userPayloadSize' = userPayloadSize
      /\ maxSize' = maxSize /\ submessageCount' = submessageCount
      /\ remainingHeader' = remainingHeader /\ truncated' = truncated
  BY DEF SendPayload, sizes
<1>4. /\ userHeaderSize \in Nat /\ userPayloadSize \in Nat /\ maxSize \in Nat /\ maxSize > 0
      /\ remainingPayload \in Nat /\ remainingPayload <= userPayloadSize
      /\ submessageOffset \in Nat
      /\ submessageOffset = userHeaderSize + (userPayloadSize - remainingPayload)
  BY <1>1, SizesFacts DEF SizesInv
<1>5. size \in 1 .. maxSize /\ size <= remainingPayload
  BY <1>1, <1>2, <1>4 DEF Least
<1>6. SizesInv'
  <2>1. remainingPayload' \in 0 .. userPayloadSize'
    BY <1>2, <1>3, <1>4, <1>5
  <2>2. submessageOffset' = (userHeaderSize' - remainingHeader') + (userPayloadSize' - remainingPayload')
    BY <1>1, <1>2, <1>3, <1>4, <1>5
  <2> QED
    BY <2>1, <2>2, <1>1, <1>3, <1>4 DEF SizesInv, SubmessageCount, DivideAndRoundUp
<1> DEFINE bytes == [i \in 1 .. size |-> <<"payload", submessageOffset + i - 1 - userHeaderSize>>]
<1>7. bytes \in [1 .. size -> Token]
  <2>1. \A i \in 1 .. size : <<"payload", submessageOffset + i - 1 - userHeaderSize>> \in Token
    <3> TAKE i \in 1 .. size
    <3>1. submessageOffset + i - 1 - userHeaderSize \in Int
      BY <1>4, <1>5
    <3> QED
      BY <3>1, BytesAreTokens
  <2> QED
    BY <2>1
<1>8. \A i \in 1 .. size : bytes[i] = Place(submessageOffset + i - 1)
  <2> TAKE i \in 1 .. size
  <2>1. ~(submessageOffset + i - 1 < userHeaderSize)
    BY <1>4, <1>5
  <2>2. Place(submessageOffset + i - 1) = <<"payload", submessageOffset + i - 1 - userHeaderSize>>
    <3>1. (submessageOffset + i - 1) - userHeaderSize = submessageOffset + i - 1 - userHeaderSize
      BY <1>4
    <3> QED
      BY <2>1, <3>1 DEF Place
  <2>3. bytes[i] = <<"payload", submessageOffset + i - 1 - userHeaderSize>>
    OBVIOUS
  <2> QED
    BY <2>2, <2>3
<1>9. ~(submessageOffset < userHeaderSize)
  BY <1>4, <1>5
<1>10. Sent' = Sent + 1
  <2>1. 2 ^ Width \in Nat /\ remainingPayload + maxSize <= 2 ^ Width
    BY <1>1, SizesFacts
  <2>2. DivideAndRoundUp(remainingPayload - size, maxSize)
           = DivideAndRoundUp(remainingPayload, maxSize) - 1
    BY <2>1, <1>1, <1>2, <1>4, Pieces
  <2>3. /\ submessageCount \in Nat /\ DivideAndRoundUp(remainingHeader, maxSize) \in Nat
        /\ DivideAndRoundUp(remainingPayload, maxSize) \in Nat
    BY <1>1, Cut
  <2>4. Sent' = submessageCount - DivideAndRoundUp(remainingHeader, maxSize)
                                - DivideAndRoundUp(remainingPayload - size, maxSize)
    BY <1>2, <1>3 DEF Sent, DivideAndRoundUp
  <2> QED
    BY <2>2, <2>3, <2>4 DEF Sent
<1>11. SendUserData(submessageOffset, size, bytes)
  BY <1>2
<1> HIDE DEF bytes
<1> QED
  BY <1>2, <1>3, <1>5, <1>6, <1>7, <1>8, <1>9, <1>10, <1>11, SendStep

-----------------------------------------------------------------------------
\* The network and the receiver.

\* A datagram that is taken from the wire, and could be received, was counted.
LEMMA OneLess ==
    ASSUME CountInv, NEW d \in Coming, Coming' = Coming \ {d}
    PROVE  Cardinality(Coming') = Cardinality(Coming) - 1 /\ Cardinality(Coming) \in Nat
<1>1. IsFiniteSet(Coming)
  BY FS_Subset DEF CountInv, Coming
<1>2. Cardinality(Coming) \in Nat
  BY <1>1, FS_CardinalityType
<1>3. Cardinality(Coming \ {d}) = IF d \in Coming THEN Cardinality(Coming) - 1 ELSE Cardinality(Coming)
  BY <1>1, FS_RemoveElement, Zenon
<1> QED
  BY <1>2, <1>3

\* Only one datagram is spoilt, and it is invalid from then on.
LEMMA TruncateStep ==
    ASSUME IntactInv, NEW d \in wire, Truncate(d)
    PROVE  IntactInv'
<1>1. SizesInv /\ WireInv /\ CountInv /\ ChunkInv /\ PlacesInv
  BY DEF IntactInv
<1> DEFINE t == SubSeq(d, 1, Len(d) - 1)
<1>2. ~truncated /\ truncated' = TRUE /\ wire' = (wire \ {d}) \cup {t}
  BY DEF Truncate
<1>3. /\ userHeaderSize' = userHeaderSize /\ userPayloadSize' = userPayloadSize
      /\ maxSize' = maxSize /\ submessageCount' = submessageCount
      /\ submessageOffset' = submessageOffset /\ remainingHeader' = remainingHeader
      /\ remainingPayload' = remainingPayload
      /\ arrived' = arrived /\ counter' = counter
      /\ header' = header /\ payload' = payload /\ state' = state
      /\ UNCHANGED sizes
  BY DEF Truncate, sizes, sender, receiver
<1>4. Datagram(d) /\ Valid(d)
  BY <1>1, <1>2 DEF WireInv
<1>5. /\ userHeaderSize \in Nat /\ maxSize \in Nat /\ submessageOffset \in Nat
      /\ submessageCount \in Nat /\ Sent \in Int
  BY <1>1, SizesFacts, Cut
<1>6. d \in Seq(Token) /\ d[3] \in 1 .. maxSize /\ Len(d) = d[3] + 5
  BY <1>4, ValidLength DEF Datagram
<1>7. Len(d) \in Nat /\ Len(d) >= 6
  BY <1>5, <1>6
<1>8. /\ t \in Seq(Token) /\ Len(t) = Len(d) - 1
      /\ \A i \in 1 .. Len(d) - 1 : t[i] = d[i]
  <2>1. 1 \in 1 .. Len(d) + 1 /\ Len(d) - 1 \in 0 .. Len(d) /\ Len(d) - 1 \in Int
    BY <1>7
  <2> QED
    BY <2>1, <1>6, <1>7
<1>9. t[1] = d[1] /\ t[2] = d[2] /\ t[3] = d[3] /\ t[4] = d[4] /\ t[5] = d[5]
  <2>1. /\ 1 \in 1 .. Len(d) - 1 /\ 2 \in 1 .. Len(d) - 1 /\ 3 \in 1 .. Len(d) - 1
        /\ 4 \in 1 .. Len(d) - 1 /\ 5 \in 1 .. Len(d) - 1
    BY <1>7
  <2> QED
    BY <2>1, <1>8
<1> HIDE DEF t
<1>10. ~Valid(t)
  BY <1>5, <1>6, <1>8, <1>9, ValidLength, SMTT(30)
<1>11. Datagram(t)
  <2>1. Len(t) = HeaderLength + t[3] - 1
    BY <1>5, <1>6, <1>8, <1>9 DEF HeaderLength
  <2>2. \A i \in 1 .. t[3] : HeaderLength + i <= Len(t) => t[HeaderLength + i] = Place(t[2] + i - 1)
    <3> SUFFICES ASSUME NEW i \in 1 .. t[3], HeaderLength + i <= Len(t)
                 PROVE  t[HeaderLength + i] = Place(t[2] + i - 1)
      OBVIOUS
    <3>1. HeaderLength + i \in 1 .. Len(d) - 1 /\ HeaderLength + i <= Len(d) /\ i \in 1 .. d[3]
      BY <1>5, <1>6, <1>8, <1>9, SMTT(30) DEF HeaderLength
    <3>2. d[HeaderLength + i] = Place(d[2] + i - 1)
      BY <3>1, <1>4 DEF Datagram
    <3> QED
      BY <3>1, <3>2, <1>8, <1>9
  <2> QED
    BY <2>1, <2>2, <1>4, <1>8, <1>9 DEF Datagram
<1>12. SizesInv'
  BY <1>1, <1>2, <1>3 DEF SizesInv, SubmessageCount, DivideAndRoundUp
<1>13. WireInv'
  <2> SUFFICES ASSUME NEW e \in wire' PROVE Datagram(e)'
    BY <1>2 DEF WireInv
  <2>1. Datagram(e)
    BY <1>1, <1>2, <1>11 DEF WireInv
  <2> QED
    BY <2>1, <1>3, <1>5, DatagramStays
<1>14. CountInv'
  <2>1. IsFiniteSet(wire')
    <3>1. IsFiniteSet(wire) /\ IsFiniteSet(wire \ {d})
      BY <1>1, FS_Subset DEF CountInv
    <3> QED
      BY <3>1, <1>2, FS_AddElement
  <2>2. Coming' = Coming \ {d} /\ d \in Coming
    BY <1>2, <1>4, <1>10 DEF Coming
  <2>3. Cardinality(Coming') = Cardinality(Coming) - 1 /\ Cardinality(Coming) \in Nat
    BY <2>2, <1>1, OneLess
  <2>4. Spoilt = 0 /\ Spoilt' = 1
    BY <1>2 DEF Spoilt
  <2>5. Sent' = Sent
    BY <1>3 DEF Sent, DivideAndRoundUp
  <2>6. arrived \in Nat /\ arrived + Cardinality(Coming) + Spoilt <= Sent
    BY <1>1 DEF CountInv
  <2>7. arrived + Cardinality(Coming') + Spoilt' <= Sent'
    BY <2>3, <2>4, <2>5, <2>6, <1>5
  <2> QED
    BY <2>1, <2>6, <2>7, <1>3 DEF CountInv
<1>15. ChunkInv'
  BY <1>1, <1>3 DEF ChunkInv
<1>16. PlacesInv'
  BY <1>2 DEF PlacesInv
<1> QED
  BY <1>12, <1>13, <1>14, <1>15, <1>16 DEF IntactInv

\* Dropping what nobody counts on.
LEMMA ReceiveInvalidStep ==
    ASSUME IntactInv, NEW d \in wire, ReceiveInvalid(d)
    PROVE  IntactInv'
<1>1. SizesInv /\ WireInv /\ CountInv /\ ChunkInv /\ PlacesInv
  BY DEF IntactInv
<1>2. ~Valid(d) /\ wire' = wire \ {d} /\ truncated' = truncated
  BY DEF ReceiveInvalid
<1>3. /\ userHeaderSize' = userHeaderSize /\ userPayloadSize' = userPayloadSize
      /\ maxSize' = maxSize /\ submessageCount' = submessageCount
      /\ submessageOffset' = submessageOffset /\ remainingHeader' = remainingHeader
      /\ remainingPayload' = remainingPayload
      /\ arrived' = arrived /\ counter' = counter
      /\ header' = header /\ payload' = payload /\ state' = state
      /\ UNCHANGED sizes
  BY DEF ReceiveInvalid, sizes, sender, receiver
<1>4. SizesInv'
  BY <1>1, <1>2, <1>3 DEF SizesInv, SubmessageCount, DivideAndRoundUp
<1>5. WireInv'
  <2> SUFFICES ASSUME NEW e \in wire' PROVE Datagram(e)' /\ (~truncated' => Valid(e))
    BY DEF WireInv
  <2>1. Datagram(e) /\ (~truncated => Valid(e))
    BY <1>1, <1>2 DEF WireInv
  <2>2. submessageOffset \in Nat
    BY <1>1, SizesFacts
  <2> QED
    BY <2>1, <2>2, <1>2, <1>3, DatagramStays
<1>6. Coming' = Coming
  BY <1>2 DEF Coming
<1>7. CountInv'
  <2>1. IsFiniteSet(wire')
    BY <1>1, <1>2, FS_Subset DEF CountInv
  <2>2. Sent' = Sent /\ Spoilt' = Spoilt
    BY <1>2, <1>3 DEF Sent, DivideAndRoundUp, Spoilt
  <2> QED
    BY <2>1, <2>2, <1>1, <1>3, <1>6 DEF CountInv
<1>8. ChunkInv'
  BY <1>1, <1>3 DEF ChunkInv
<1>9. PlacesInv'
  <2>1. \A k : Place(k)' = Place(k) /\ InChunk(k)' = InChunk(k)
    BY <1>3 DEF Place, InChunk
  <2> QED
    BY <2>1, <1>1, <1>2, <1>3, <1>6 DEF PlacesInv
<1> QED
  BY <1>4, <1>5, <1>7, <1>8, <1>9 DEF IntactInv

\* The copy stays within the buffer and changes only its place.
Copy(new, old, n, at, size, bytes) ==
    /\ new \in [Buffer(n) -> Token]
    /\ \A i \in Buffer(n) :
          new[i] = IF i \in at .. at + size - 1 THEN bytes[i - at + 1] ELSE old[i]

LEMMA Copied ==
    ASSUME NEW n \in Nat, NEW buffer \in [Buffer(n) -> Token],
           NEW at \in Nat, NEW size \in Nat, size > 0, at + size <= n,
           NEW bytes \in Seq(Token), Len(bytes) = size
    PROVE  Copy(Written(buffer, at, size, bytes), buffer, n, at, size, bytes)
<1>1. DOMAIN buffer = Buffer(n)
  OBVIOUS
<1>2. Buffer(n) \cup (at .. at + size - 1) = Buffer(n)
  BY DEF Buffer
<1>3. DOMAIN bytes = 1 .. size
  OBVIOUS
<1>4. \A i \in Buffer(n) : i - at \in Buffer(size) <=> i \in at .. at + size - 1
  BY DEF Buffer
<1>5. \A i \in Buffer(n) : i \in at .. at + size - 1 => i - at + 1 \in 1 .. size
  BY DEF Buffer
<1> DEFINE f == [i \in Buffer(n) |->
                    IF i \in at .. at + size - 1 THEN bytes[i - at + 1] ELSE buffer[i]]
<1>6. Written(buffer, at, size, bytes) = f
  BY <1>1, <1>2, <1>3, <1>4, <1>5 DEF Written
<1>7. \A i \in 1 .. size : bytes[i] \in Token
  OBVIOUS
<1>8. f \in [Buffer(n) -> Token]
  BY <1>5, <1>7
<1> QED
  BY <1>6, <1>8 DEF Copy

\* After takeNext the places that a valid datagram covers are right, and the
\* others are what they were.
Before(oldHeader, oldPayload, k) ==
    IF k < userHeaderSize THEN oldHeader[k] ELSE oldPayload[k - userHeaderSize]

LEMMA TakeNextFills ==
    ASSUME IntactInv, NEW d, Datagram(d), Valid(d), UNCHANGED sizes,
           NEW oldHeader \in [Buffer(userHeaderSize) -> Token],
           NEW oldPayload \in [Buffer(userPayloadSize) -> Token],
           TakeNext(Deserialize(d), SubSeq(d, HeaderLength + 1, Len(d)), oldHeader, oldPayload)
    PROVE  /\ header' \in [Buffer(userHeaderSize') -> Token]
           /\ payload' \in [Buffer(userPayloadSize') -> Token]
           /\ \A k \in 0 .. submessageOffset - 1 :
                 InChunk(k)' = IF Covers(d, k) THEN Place(k) ELSE Before(oldHeader, oldPayload, k)
<1>1. SizesInv
  BY DEF IntactInv
<1>2. /\ userHeaderSize \in Nat /\ userPayloadSize \in Nat /\ maxSize \in Nat
      /\ submessageOffset \in Nat /\ submessageOffset <= userHeaderSize + userPayloadSize
  BY <1>1, SizesFacts
<1>3. /\ d \in Seq(Token) /\ Len(d) = 5 + d[3] /\ d[2] \in Nat /\ d[3] \in Nat /\ d[3] > 0
      /\ d[5] = userHeaderSize /\ d[2] + d[3] <= submessageOffset
      /\ (d[2] < userHeaderSize => d[2] + d[3] <= userHeaderSize)
      /\ Len(d) \in Nat
  BY <1>2, ValidLength, SMTT(30) DEF Datagram
<1> DEFINE bytes == SubSeq(d, 6, Len(d))
<1>4. /\ bytes \in Seq(Token) /\ Len(bytes) = d[3]
      /\ \A i \in 1 .. d[3] : bytes[i] = d[5 + i]
  <2>1. 6 \in 1 .. Len(d) + 1 /\ Len(d) \in 5 .. Len(d) /\ Len(d) - 6 + 1 = d[3]
    BY <1>3
  <2>2. \A i \in 1 .. d[3] : 6 + i - 1 = 5 + i
    BY <1>3
  <2>3. \A i \in 6 .. Len(d) : d[i] \in Token
    BY <1>3
  <2>4. /\ bytes \in Seq(Token)
        /\ Len(bytes) = IF 6 <= Len(d) THEN Len(d) - 6 + 1 ELSE 0
        /\ \A i \in 1 .. Len(d) - 6 + 1 : bytes[i] = d[6 + i - 1]
    BY <2>3, <1>3, SubSeqProperties
  <2> QED
    BY <2>1, <2>2, <2>4, <1>3, SMTT(30)
<1>5. \A i \in 1 .. d[3] : bytes[i] = Place(d[2] + i - 1)
  <2> TAKE i \in 1 .. d[3]
  <2>1. HeaderLength + i <= Len(d) /\ HeaderLength + i = 5 + i
    BY <1>3 DEF HeaderLength
  <2>2. d[5 + i] = Place(d[2] + i - 1)
    BY <2>1 DEF Datagram
  <2> QED
    BY <2>2, <1>4
<1>6. IF d[2] < userHeaderSize
      THEN /\ header' = Written(oldHeader, d[2], d[3], bytes)
           /\ payload' = oldPayload
      ELSE /\ payload' = Written(oldPayload, d[2] - userHeaderSize, d[3], bytes)
           /\ header' = oldHeader
  BY <1>3 DEF TakeNext, Deserialize, HeaderLength
<1>7. userHeaderSize' = userHeaderSize /\ userPayloadSize' = userPayloadSize
  BY DEF sizes
<1> HIDE DEF bytes
<1>8. CASE d[2] < userHeaderSize
  <2>1. d[2] + d[3] <= userHeaderSize
    BY <1>3, <1>8
  <2>2. /\ header' \in [Buffer(userHeaderSize) -> Token]
        /\ \A i \in Buffer(userHeaderSize) :
              header'[i] = IF i \in d[2] .. d[2] + d[3] - 1 THEN bytes[i - d[2] + 1] ELSE oldHeader[i]
    <3>1. Copy(Written(oldHeader, d[2], d[3], bytes), oldHeader, userHeaderSize, d[2], d[3], bytes)
      BY <2>1, <1>2, <1>3, <1>4, Copied
    <3> QED
      BY <3>1, <1>6, <1>8 DEF Copy
  <2>3. payload' = oldPayload
    BY <1>6, <1>8
  <2>4. ASSUME NEW k \in 0 .. submessageOffset - 1
        PROVE  InChunk(k)' = IF Covers(d, k) THEN Place(k) ELSE Before(oldHeader, oldPayload, k)
    <3>1. CASE k < userHeaderSize
      <4>1. k \in Buffer(userHeaderSize)
        BY <3>1, <1>2 DEF Buffer
      <4>2. InChunk(k)' = header'[k]
        BY <3>1, <1>7 DEF InChunk
      <4>3. CASE Covers(d, k)
        <5>1. k - d[2] + 1 \in 1 .. d[3] /\ d[2] + (k - d[2] + 1) - 1 = k
          BY <4>3, <1>2, <1>3, SMTT(30) DEF Covers
        <5>2. bytes[k - d[2] + 1] = Place(k)
          BY <5>1, <1>5
        <5> QED
          BY <5>2, <4>1, <4>2, <4>3, <2>2 DEF Covers
      <4>4. CASE ~Covers(d, k)
        BY <4>1, <4>2, <4>4, <3>1, <2>2 DEF Covers, Before
      <4> QED
        BY <4>3, <4>4
    <3>2. CASE ~(k < userHeaderSize)
      <4>1. ~Covers(d, k)
        BY <3>2, <2>1, <1>2, <1>3, SMTT(30) DEF Covers
      <4> QED
        BY <4>1, <3>2, <2>3, <1>7 DEF InChunk, Before
    <3> QED
      BY <3>1, <3>2
  <2> QED
    BY <2>2, <2>3, <2>4, <1>7
<1>9. CASE ~(d[2] < userHeaderSize)
  <2>1. PICK at : at = d[2] - userHeaderSize
    OBVIOUS
  <2>2. at \in Nat /\ at + d[3] <= userPayloadSize
    BY <2>1, <1>2, <1>3, <1>9, SMTT(30)
  <2>3. /\ payload' \in [Buffer(userPayloadSize) -> Token]
        /\ \A i \in Buffer(userPayloadSize) :
              payload'[i] = IF i \in at .. at + d[3] - 1 THEN bytes[i - at + 1] ELSE oldPayload[i]
    <3>1. Copy(Written(oldPayload, at, d[3], bytes), oldPayload, userPayloadSize, at, d[3], bytes)
      BY <2>2, <1>2, <1>3, <1>4, Copied
    <3> QED
      BY <3>1, <2>1, <1>6, <1>9 DEF Copy
  <2>4. header' = oldHeader
    BY <1>6, <1>9
  <2>5. ASSUME NEW k \in 0 .. submessageOffset - 1
        PROVE  InChunk(k)' = IF Covers(d, k) THEN Place(k) ELSE Before(oldHeader, oldPayload, k)
    <3>1. CASE ~(k < userHeaderSize)
      <4>1. k - userHeaderSize \in Buffer(userPayloadSize)
        BY <3>1, <1>2 DEF Buffer
      <4>2. InChunk(k)' = payload'[k - userHeaderSize]
        BY <3>1, <1>7 DEF InChunk
      <4>3. k - userHeaderSize \in at .. at + d[3] - 1 <=> Covers(d, k)
        <5>1. PICK h, o, n : h = userHeaderSize /\ o = d[2] /\ n = d[3]
          OBVIOUS
        <5>2. k \in Int /\ o \in Nat /\ n \in Nat /\ h \in Nat /\ at = o - h /\ at \in Nat
          BY <5>1, <2>1, <2>2, <1>2, <1>3
        <5>3. k - h \in at .. at + n - 1 <=> k \in o .. o + n - 1
          BY <5>2
        <5> QED
          BY <5>1, <5>3 DEF Covers
      <4>4. CASE Covers(d, k)
        <5>1. /\ k - d[2] + 1 \in 1 .. d[3] /\ d[2] + (k - d[2] + 1) - 1 = k
          BY <4>4, <1>2, <1>3, SMTT(30) DEF Covers
        <5>a. k - userHeaderSize - at + 1 = k - d[2] + 1
          <6>1. \A h, o \in Nat, x \in Int : x - h - (o - h) + 1 = x - o + 1
            OBVIOUS
          <6> QED
            BY <6>1, <2>1, <1>2, <1>3, SMTT(30)
        <5>2. bytes[k - d[2] + 1] = Place(k)
          BY <5>1, <1>5
        <5> QED
          BY <5>a, <5>2, <4>1, <4>2, <4>3, <4>4, <2>3
      <4>5. CASE ~Covers(d, k)
        BY <4>1, <4>2, <4>3, <4>5, <3>1, <2>3 DEF Before
      <4> QED
        BY <4>4, <4>5
    <3>2. CASE k < userHeaderSize
      <4>1. ~Covers(d, k)
        BY <3>2, <1>2, <1>3, <1>9 DEF Covers
      <4> QED
        BY <4>1, <3>2, <2>4, <1>7 DEF InChunk, Before
    <3> QED
      BY <3>1, <3>2
  <2> QED
    BY <2>3, <2>4, <2>5, <1>7
<1> QED
  BY <1>8, <1>9

\* One submessage more: the first loans the chunk, the last publishes it.
LEMMA ReceiveStep ==
    ASSUME IntactInv, NEW d \in wire, Receive(d)
    PROVE  IntactInv'
<1>1. SizesInv /\ WireInv /\ CountInv /\ ChunkInv /\ PlacesInv
  BY DEF IntactInv
<1>2. /\ Valid(d) /\ state # "published" /\ wire' = wire \ {d}
      /\ arrived' = arrived + 1 /\ truncated' = truncated
  BY DEF Receive
<1>3. /\ userHeaderSize' = userHeaderSize /\ userPayloadSize' = userPayloadSize
      /\ maxSize' = maxSize /\ submessageCount' = submessageCount
      /\ submessageOffset' = submessageOffset /\ remainingHeader' = remainingHeader
      /\ remainingPayload' = remainingPayload
      /\ UNCHANGED sizes
  BY DEF Receive, sizes, sender
<1>4. Datagram(d) /\ d[1] = submessageCount /\ d[4] = userPayloadSize /\ d[5] = userHeaderSize
  BY <1>1 DEF WireInv, Datagram
<1>5. /\ submessageOffset \in Nat /\ submessageCount \in Nat /\ Sent \in Int
      /\ Sent <= submessageCount /\ userHeaderSize \in Nat /\ userPayloadSize \in Nat
  BY <1>1, SizesFacts, Cut
<1>6. SizesInv'
  BY <1>1, <1>2, <1>3 DEF SizesInv, SubmessageCount, DivideAndRoundUp
<1>7. WireInv'
  <2> SUFFICES ASSUME NEW e \in wire' PROVE Datagram(e)' /\ (~truncated' => Valid(e))
    BY DEF WireInv
  <2>1. Datagram(e) /\ (~truncated => Valid(e))
    BY <1>1, <1>2 DEF WireInv
  <2> QED
    BY <2>1, <1>2, <1>3, <1>5, DatagramStays
<1>8. Coming' = Coming \ {d} /\ d \in Coming
  BY <1>2 DEF Coming
<1>9. /\ Cardinality(Coming') = Cardinality(Coming) - 1 /\ Cardinality(Coming) \in Nat
      /\ Cardinality(Coming') \in Nat
  <2>1. Cardinality(Coming') = Cardinality(Coming) - 1 /\ Cardinality(Coming) \in Nat
    BY <1>1, <1>8, OneLess
  <2>2. IsFiniteSet(Coming')
    BY <1>1, <1>8, FS_Subset DEF CountInv, Coming
  <2> QED
    BY <2>1, <2>2, FS_CardinalityType
<1>10. Spoilt' = Spoilt /\ Spoilt \in Nat
  BY <1>2 DEF Spoilt
<1>11. arrived \in Nat /\ arrived + Cardinality(Coming) + Spoilt <= Sent
  BY <1>1 DEF CountInv
<1>12. CountInv'
  <2>1. IsFiniteSet(wire')
    BY <1>1, <1>2, FS_Subset DEF CountInv
  <2>2. Sent' = Sent
    BY <1>3 DEF Sent, DivideAndRoundUp
  <2>3. arrived' \in Nat /\ arrived' + Cardinality(Coming') + Spoilt' <= Sent'
    BY <2>2, <1>2, <1>5, <1>9, <1>10, <1>11
  <2> QED
    BY <2>1, <2>3 DEF CountInv
<1>13. arrived + 1 <= submessageCount
  BY <1>5, <1>9, <1>10, <1>11
<1>14. \A k : Place(k)' = Place(k)
  BY <1>3 DEF Place
<1> DEFINE Take(oldHeader, oldPayload) ==
        TakeNext(Deserialize(d), SubSeq(d, HeaderLength + 1, Len(d)), oldHeader, oldPayload)
<1>15. CASE state = "none"
  <2>1. /\ counter' = submessageCount - 1
        /\ state' = IF submessageCount > 1 THEN "loaned" ELSE "published"
        /\ Take(EmptyBuffer(userHeaderSize), EmptyBuffer(userPayloadSize))
    BY <1>4, <1>15 DEF Receive, Deserialize
  <2>2. arrived = 0 /\ arrived' = 1
    BY <1>1, <1>2, <1>15 DEF ChunkInv
  <2>3. /\ EmptyBuffer(userHeaderSize) \in [Buffer(userHeaderSize) -> Token]
        /\ EmptyBuffer(userPayloadSize) \in [Buffer(userPayloadSize) -> Token]
    <3>1. NoByte \in Token
      BY 0 \in Int, BytesAreTokens
    <3> QED
      BY <3>1 DEF EmptyBuffer
  <2>4. PICK oldHeader, oldPayload :
           oldHeader = EmptyBuffer(userHeaderSize) /\ oldPayload = EmptyBuffer(userPayloadSize)
    OBVIOUS
  <2>5. /\ header' \in [Buffer(userHeaderSize') -> Token]
        /\ payload' \in [Buffer(userPayloadSize') -> Token]
        /\ \A k \in 0 .. submessageOffset - 1 :
              InChunk(k)' = IF Covers(d, k) THEN Place(k) ELSE Before(oldHeader, oldPayload, k)
    <3>1. TakeNext(Deserialize(d), SubSeq(d, HeaderLength + 1, Len(d)), oldHeader, oldPayload)
      BY <2>1, <2>4
    <3> QED
      BY <3>1, <2>3, <2>4, <1>2, <1>3, <1>4, TakeNextFills
  <2>6. ChunkInv'
    <3>1. state' \in {"loaned", "published"} /\ counter' = submessageCount' - arrived'
      BY <2>1, <2>2, <1>3, <1>5
    <3>2. state' = "published" <=> counter' = 0
      BY <2>1, <2>2, <1>5, <1>13
    <3> QED
      BY <3>1, <3>2, <2>5 DEF ChunkInv
  <2>7. PlacesInv'
    <3> SUFFICES ASSUME NEW k \in 0 .. submessageOffset' - 1
                 PROVE  \/ truncated'
                        \/ state' # "none" /\ InChunk(k)' = Place(k)'
                        \/ \E e \in Coming' : Covers(e, k)
      BY DEF PlacesInv
    <3>1. k \in 0 .. submessageOffset - 1 /\ state' # "none"
      BY <2>1, <1>3
    <3>2. truncated \/ \E e \in Coming : Covers(e, k)
      BY <3>1, <1>1, <1>15 DEF PlacesInv
    <3>3. CASE Covers(d, k)
      BY <3>1, <3>3, <2>5, <1>14
    <3> QED
      BY <3>2, <3>3, <1>2, <1>8
  <2> QED
    BY <2>6, <2>7, <1>6, <1>7, <1>12 DEF IntactInv
<1>16. CASE state # "none"
  <2>1. /\ counter' = counter - 1
        /\ state' = IF counter = 1 THEN "published" ELSE "loaned"
        /\ Take(header, payload)
    BY <1>16 DEF Receive
  <2>2. /\ counter = submessageCount - arrived
        /\ header \in [Buffer(userHeaderSize) -> Token]
        /\ payload \in [Buffer(userPayloadSize) -> Token]
    BY <1>1, <1>16 DEF ChunkInv
  <2>3. PICK oldHeader, oldPayload : oldHeader = header /\ oldPayload = payload
    OBVIOUS
  <2>4. /\ header' \in [Buffer(userHeaderSize') -> Token]
        /\ payload' \in [Buffer(userPayloadSize') -> Token]
        /\ \A k \in 0 .. submessageOffset - 1 :
              InChunk(k)' = IF Covers(d, k) THEN Place(k) ELSE Before(oldHeader, oldPayload, k)
    <3>1. TakeNext(Deserialize(d), SubSeq(d, HeaderLength + 1, Len(d)), oldHeader, oldPayload)
      BY <2>1, <2>3
    <3> QED
      BY <3>1, <2>2, <2>3, <1>2, <1>3, <1>4, TakeNextFills
  <2>5. ChunkInv'
    <3>1. state' \in {"loaned", "published"} /\ counter' = submessageCount' - arrived'
      BY <2>1, <2>2, <1>2, <1>3, <1>5, <1>11
    <3>2. state' = "published" <=> counter' = 0
      BY <2>1, <2>2, <1>5, <1>11, <1>13
    <3> QED
      BY <3>1, <3>2, <2>4 DEF ChunkInv
  <2>6. PlacesInv'
    <3> SUFFICES ASSUME NEW k \in 0 .. submessageOffset' - 1
                 PROVE  \/ truncated'
                        \/ state' # "none" /\ InChunk(k)' = Place(k)'
                        \/ \E e \in Coming' : Covers(e, k)
      BY DEF PlacesInv
    <3>1. k \in 0 .. submessageOffset - 1 /\ state' # "none"
      BY <2>1, <1>3
    <3>2. truncated \/ InChunk(k) = Place(k) \/ \E e \in Coming : Covers(e, k)
      BY <3>1, <1>1 DEF PlacesInv
    <3>3. Before(oldHeader, oldPayload, k) = InChunk(k)
      BY <2>3 DEF Before, InChunk
    <3>4. CASE Covers(d, k)
      BY <3>1, <3>4, <2>4, <1>14
    <3>5. CASE ~Covers(d, k)
      BY <3>1, <3>2, <3>3, <3>5, <2>4, <1>2, <1>8, <1>14
    <3> QED
      BY <3>4, <3>5
  <2> QED
    BY <2>5, <2>6, <1>6, <1>7, <1>12 DEF IntactInv
<1> QED
  BY <1>15, <1>16

-----------------------------------------------------------------------------
\* Before anything is sent, no pieces are cut off.
LEMMA InitIntact == Init => IntactInv
<1> SUFFICES ASSUME Init PROVE IntactInv
  OBVIOUS
<1>1. SizesInv
  <2>1. userHeaderSize \in Nat /\ userPayloadSize \in Nat
    BY SizesAssumption DEF Init
  <2>2. 0 = (userHeaderSize - userHeaderSize) + (userPayloadSize - userPayloadSize)
    BY <2>1
  <2>3. userHeaderSize \in 0 .. userHeaderSize /\ userPayloadSize \in 0 .. userPayloadSize
    BY <2>1
  <2>4. truncated \in BOOLEAN
    BY Zenon DEF Init
  <2>5. /\ userHeaderSize \in HeaderSizes /\ userPayloadSize \in PayloadSizes
        /\ maxSize \in TransportSizes
        /\ submessageCount = SubmessageCount(userHeaderSize, userPayloadSize, maxSize)
        /\ submessageOffset = 0
        /\ remainingHeader = userHeaderSize /\ remainingPayload = userPayloadSize
    BY DEF Init
  <2> QED
    BY <2>2, <2>3, <2>4, <2>5 DEF SizesInv
<1>2. WireInv
  BY DEF Init, WireInv
<1>3. submessageOffset = 0
  BY DEF Init
<1>4. PlacesInv
  BY <1>3 DEF PlacesInv
<1>5. ChunkInv
  BY DEF Init, ChunkInv
<1>6. CountInv
  <2>1. Coming = {} /\ Spoilt = 0 /\ wire = {} /\ arrived = 0
    BY DEF Init, Coming, Spoilt
  <2>2. IsFiniteSet(wire) /\ Cardinality(Coming) = 0
    BY <2>1, FS_EmptySet
  <2>3. Sent = 0
    <3>1. DivideAndRoundUp(userHeaderSize, maxSize) \in Nat /\ DivideAndRoundUp(userPayloadSize, maxSize) \in Nat
      BY <1>1, Cut DEF Init
    <3> QED
      BY <3>1 DEF Init, Sent, SubmessageCount
  <2> QED
    BY <2>1, <2>2, <2>3 DEF CountInv
<1> QED
  BY <1>1, <1>2, <1>4, <1>5, <1>6 DEF IntactInv

\* Nothing changes without a step.
LEMMA StutterIntact ==
    ASSUME IntactInv, UNCHANGED vars
    PROVE  IntactInv'
<1>1. /\ userHeaderSize' = userHeaderSize /\ userPayloadSize' = userPayloadSize
      /\ maxSize' = maxSize /\ submessageCount' = submessageCount
      /\ submessageOffset' = submessageOffset /\ remainingHeader' = remainingHeader
      /\ remainingPayload' = remainingPayload /\ wire' = wire /\ truncated' = truncated
      /\ arrived' = arrived /\ counter' = counter
      /\ header' = header /\ payload' = payload /\ state' = state
  BY DEF vars, sizes, sender, receiver
<1>2. Coming' = Coming /\ Spoilt' = Spoilt /\ Sent' = Sent
  BY <1>1 DEF Coming, Spoilt, Sent, DivideAndRoundUp
<1>3. \A k : Place(k)' = Place(k) /\ InChunk(k)' = InChunk(k)
  BY <1>1 DEF Place, InChunk
<1>4. \A d : Datagram(d)' <=> Datagram(d)
  BY <1>1, <1>3 DEF Datagram
<1>5. SizesInv' /\ ChunkInv'
  BY <1>1 DEF IntactInv, SizesInv, ChunkInv, SubmessageCount, DivideAndRoundUp
<1>6. WireInv' /\ CountInv' /\ PlacesInv'
  BY <1>1, <1>2, <1>3, <1>4 DEF IntactInv, WireInv, CountInv, PlacesInv
<1> QED
  BY <1>5, <1>6 DEF IntactInv

\* The invariant of segmentation, for all sizes and all orders of arrival.
THEOREM SegmentsCorrect == Spec => []IntactInv
<1>1. Init => IntactInv
  BY InitIntact
<1>2. ASSUME IntactInv, [Next]_vars
      PROVE  IntactInv'
  <2>1. CASE SendHeader
    BY <2>1, <1>2, SendHeaderStep
  <2>2. CASE SendPayload
    BY <2>2, <1>2, SendPayloadStep
  <2>3. ASSUME NEW d \in wire, Receive(d) PROVE IntactInv'
    BY <2>3, <1>2, ReceiveStep
  <2>4. ASSUME NEW d \in wire, ReceiveInvalid(d) PROVE IntactInv'
    BY <2>4, <1>2, ReceiveInvalidStep
  <2>5. ASSUME NEW d \in wire, Truncate(d) PROVE IntactInv'
    BY <2>5, <1>2, TruncateStep
  <2>6. CASE UNCHANGED vars
    BY <2>6, <1>2, StutterIntact
  <2> QED
    BY <1>2, <2>1, <2>2, <2>3, <2>4, <2>5, <2>6 DEF Next, WriteSegmented, ReceiveAny
<1> QED
  BY <1>1, <1>2, PTL DEF Spec

\* Sizes, offsets and counts keep their ranges, no submessage is empty or too
\* large, and takeNext never writes outside of the chunk.
THEOREM TypeCorrectness == Spec => []TypeOK
<1>1. IntactInv => TypeOK
  <2> SUFFICES ASSUME IntactInv PROVE TypeOK
    OBVIOUS
  <2>1. SizesInv /\ WireInv /\ CountInv /\ ChunkInv
    BY DEF IntactInv
  <2>2. /\ userHeaderSize \in Nat /\ userPayloadSize \in Nat /\ submessageOffset \in Nat
        /\ submessageOffset <= userHeaderSize + userPayloadSize
        /\ submessageCount \in Nat /\ Sent \in Int /\ Sent <= submessageCount
    BY <2>1, SizesFacts, Cut
  <2>3. Cardinality(Coming) \in Nat /\ Spoilt \in Nat
    <3>1. IsFiniteSet(Coming)
      BY <2>1, FS_Subset DEF CountInv, Coming
    <3> QED
      BY <3>1, FS_CardinalityType DEF Spoilt
  <2>4. arrived \in 0 .. submessageCount
    BY <2>1, <2>2, <2>3 DEF CountInv
  <2>5. counter \in Nat
    BY <2>1, <2>2, <2>4 DEF ChunkInv
  <2>6. \A d \in wire : Deserialize(d).submessageSize \in 1 .. maxSize
    BY <2>1 DEF WireInv, Datagram, Deserialize
  <2>7. state # "none" => /\ DOMAIN header = Buffer(userHeaderSize)
                          /\ DOMAIN payload = Buffer(userPayloadSize)
    BY <2>1 DEF ChunkInv
  <2>8. state \in {"none", "loaned", "published"}
    BY <2>1 DEF ChunkInv
  <2>9. submessageOffset \in 0 .. userHeaderSize + userPayloadSize
    BY <2>2
  <2> QED
    BY <2>1, <2>2, <2>4, <2>5, <2>6, <2>7, <2>8, <2>9 DEF TypeOK, SizesInv
<1> QED
  BY <1>1, SegmentsCorrect, PTL

\* What transport2iox publishes is the message that was sent, byte by byte, for
\* all sizes of header, payload and transport and all orders of arrival: with
\* the last count all datagrams have been cut and received, none of them
\* spoilt, so no place of the message is left open.
THEOREM MessagesStayIntact == Spec => []PublishedIntact
<1>1. IntactInv => PublishedIntact
  <2> SUFFICES ASSUME IntactInv, state = "published"
               PROVE  /\ header = [i \in Buffer(userHeaderSize) |-> <<"header", i>>]
                      /\ payload = [i \in Buffer(userPayloadSize) |-> <<"payload", i>>]
    BY DEF PublishedIntact
  <2>1. SizesInv /\ CountInv /\ ChunkInv /\ PlacesInv
    BY DEF IntactInv
  <2>2. /\ submessageCount \in Nat /\ Sent \in Int /\ Sent <= submessageCount
        /\ (Sent = submessageCount => remainingHeader = 0 /\ remainingPayload = 0)
        /\ userHeaderSize \in Nat /\ userPayloadSize \in Nat
    BY <2>1, SizesFacts, Cut
  <2>3. IsFiniteSet(Coming)
    BY <2>1, FS_Subset DEF CountInv, Coming
  <2>4. Cardinality(Coming) \in Nat /\ Spoilt \in Nat
    BY <2>3, FS_CardinalityType DEF Spoilt
  <2>5. counter = submessageCount - arrived /\ counter = 0
    BY <2>1 DEF ChunkInv
  <2>6. arrived \in Nat /\ arrived + Cardinality(Coming) + Spoilt <= Sent
    BY <2>1 DEF CountInv
  <2>7. arrived = submessageCount
    BY <2>2, <2>5, <2>6
  <2>8. Sent = submessageCount /\ Cardinality(Coming) = 0 /\ Spoilt = 0
    BY <2>2, <2>4, <2>6, <2>7
  <2>9. Coming = {} /\ ~truncated
    BY <2>3, <2>8, FS_EmptySet DEF Spoilt
  <2>10. submessageOffset = userHeaderSize + userPayloadSize
    BY <2>1, <2>2, <2>8 DEF SizesInv
  <2>11. \A k \in 0 .. submessageOffset - 1 : InChunk(k) = Place(k)
    BY <2>1, <2>9 DEF PlacesInv
  <2>12. /\ header \in [Buffer(userHeaderSize) -> Token]
         /\ payload \in [Buffer(userPayloadSize) -> Token]
    BY <2>1 DEF ChunkInv
  <2>13. \A i \in Buffer(userHeaderSize) : header[i] = <<"header", i>>
    <3> TAKE i \in Buffer(userHeaderSize)
    <3>1. i \in 0 .. submessageOffset - 1 /\ i < userHeaderSize
      BY <2>2, <2>10 DEF Buffer
    <3> QED
      BY <3>1, <2>11 DEF InChunk, Place
  <2>14. \A i \in Buffer(userPayloadSize) : payload[i] = <<"payload", i>>
    <3> TAKE i \in Buffer(userPayloadSize)
    <3>1. /\ userHeaderSize + i \in 0 .. submessageOffset - 1
          /\ ~(userHeaderSize + i < userHeaderSize)
      BY <2>2, <2>10 DEF Buffer
    <3>2. InChunk(userHeaderSize + i) = Place(userHeaderSize + i)
      BY <3>1, <2>11
    <3>3. (userHeaderSize + i) - userHeaderSize = i
      BY <2>2 DEF Buffer
    <3> QED
      BY <3>1, <3>2, <3>3 DEF InChunk, Place
  <2> QED
    BY <2>12, <2>13, <2>14
<1> QED
  BY <1>1, SegmentsCorrect, PTL
=============================================================================
