---------------------- MODULE TransportForwarderProofs ----------------------
(***************************************************************************)
(* Proofs about TransportForwarder, for any number of devices, services,   *)
(* chunks and messages and any capacity of tables and queues.              *)
(***************************************************************************)
EXTENDS TransportForwarder, TLAPS, FiniteSetTheorems, SequenceTheorems

-----------------------------------------------------------------------------
(***************************************************************************)
(* Lemmas about the operators of the model.                                *)
(***************************************************************************)

\* What is left of a sequence when one element is removed.
LEMMA RemoveAtProperties ==
    ASSUME NEW S, NEW q \in Seq(S), NEW i \in 1 .. Len(q)
    PROVE  /\ RemoveAt(q, i) \in Seq(S) /\ Len(RemoveAt(q, i)) = Len(q) - 1
           /\ \A j \in 1 .. Len(q) - 1 :
                 RemoveAt(q, i)[j] = q[IF j < i THEN j ELSE j + 1]
  <1> DEFINE a == SubSeq(q, 1, i - 1)
             b == SubSeq(q, i + 1, Len(q))
  <1>1. Len(q) \in Nat /\ i \in Nat /\ 1 <= i /\ i <= Len(q)
    OBVIOUS
  <1>2. /\ a \in Seq(S) /\ Len(a) = i - 1
        /\ \A j \in 1 .. i - 1 : a[j] = q[j]
    BY <1>1
  <1>3. /\ b \in Seq(S) /\ Len(b) = Len(q) - i
        /\ \A j \in 1 .. Len(q) - i : b[j] = q[j + i]
    BY <1>1
  <1>4. RemoveAt(q, i) = a \o b
    BY DEF RemoveAt
  <1> HIDE DEF a, b
  <1>5. a \o b \in Seq(S) /\ Len(a \o b) = Len(q) - 1
    <2>1. a \o b \in Seq(S) /\ Len(a \o b) = Len(a) + Len(b)
      BY <1>2, <1>3, ConcatProperties
    <2> QED
      BY <1>1, <1>2, <1>3, <2>1
  <1>6. ASSUME NEW j \in 1 .. Len(q) - 1
        PROVE  (a \o b)[j] = q[IF j < i THEN j ELSE j + 1]
    <2>1. CASE j < i
      BY <1>1, <1>2, <1>3, <2>1
    <2>2. CASE ~(j < i)
      <3>1. (a \o b)[j] = b[j - (i - 1)]
        BY <1>1, <1>2, <1>3, <2>2
      <3>2. j - (i - 1) \in 1 .. Len(q) - i /\ (j - (i - 1)) + i = j + 1
        BY <1>1, <2>2
      <3> QED
        BY <1>3, <2>2, <3>1, <3>2
    <2> QED
      BY <2>1, <2>2
  <1> QED
    BY <1>4, <1>5, <1>6

\* A list of devices in some order.
LEMMA SetToSeqsProperties ==
    ASSUME NEW S, IsFiniteSet(S), S # {}, NEW q \in SetToSeqs(S)
    PROVE  /\ q \in Seq(S) /\ q # <<>> /\ Len(q) \in Nat \ {0}
           /\ \A i, j \in 1 .. Len(q) : i # j => q[i] # q[j]
  <1>1. Cardinality(S) \in Nat /\ Cardinality(S) # 0
    BY FS_CardinalityType, FS_EmptySet
  <1>2. /\ q \in [1 .. Cardinality(S) -> S]
        /\ \A i, j \in 1 .. Cardinality(S) : i # j => q[i] # q[j]
    BY DEF SetToSeqs
  <1>3. q \in Seq(S) /\ Len(q) = Cardinality(S)
    BY <1>1, <1>2
  <1> QED
    BY <1>1, <1>2, <1>3

\* A message is not the mark for no message.
LEMMA MessagesAreLoaned == NothingLoaned \notin Message
  <1>1. SUFFICES ASSUME NothingLoaned \in Message PROVE FALSE
    OBVIOUS
  <1>2. DOMAIN NothingLoaned = {"chunk"}
    BY DEF NothingLoaned
  <1>3. "from" \in DOMAIN NothingLoaned
    BY <1>1 DEF Message
  <1> QED
    BY <1>2, <1>3

-----------------------------------------------------------------------------
(***************************************************************************)
(* Types.                                                                  *)
(***************************************************************************)
Hand == [at : Steps, message : Message, device : Devices \cup {NoDevice},
         targets : Seq(Devices)]
StaleEntry == [chunk : Chunks, device : Devices \cup {Local}]

\* The locals of the loop.
LEMMA HandFields ==
    ASSUME TypeOK, hand.at # "waiting"
    PROVE  /\ hand \in Hand /\ hand.at \in Steps /\ hand.message \in Message
           /\ hand.device \in Devices \cup {NoDevice} /\ hand.targets \in Seq(Devices)
  BY DEF TypeOK, Hand, Idle

\* The entries of the table.
LEMMA EntriesType ==
    ASSUME TypeOK
    PROVE  \A i \in DOMAIN messagesToForward :
              messagesToForward[i].chunk \in Chunks /\ messagesToForward[i].device \in Devices
  <1> DEFINE E == Entry
  <1>1. messagesToForward \in Seq(E)
    BY DEF TypeOK
  <1> HIDE DEF E
  <1>2. \A i \in DOMAIN messagesToForward : messagesToForward[i] \in E
    BY <1>1
  <1> QED
    BY <1>2 DEF E, Entry

\* The fields of a message.
LEMMA MessageFields ==
    ASSUME NEW m \in Message
    PROVE  /\ m.number \in 1 .. MaxMessages /\ m.service \in Services /\ m.chunk \in Chunks
           /\ m.noted \in BOOLEAN /\ EntryOf(m) \in StaleEntry
  BY DEF Message, EntryOf, StaleEntry

\* What Missed adds to the two histories.
LEMMA MissedType ==
    ASSUME TypeOK, NEW m \in Message, Missed({m})
    PROVE  lost' \subseteq 1 .. MaxMessages /\ stale' \subseteq StaleEntry
  BY MessageFields DEF TypeOK, Missed, StaleEntry

\* What the queues are after the delivery of a message: at most one message,
\* the oldest of a full queue, leaves, and the new one is the last one.
LEMMA DeliverProperties ==
    ASSUME TypeOK, NEW m \in Message, Deliver(m)
    PROVE  /\ queue' \in [Services -> Seq(Message)]
           /\ lost' \subseteq 1 .. MaxMessages /\ stale' \subseteq StaleEntry
           /\ stale \subseteq stale'
           /\ \A s \in Services \ {m.service} : queue'[s] = queue[s]
           /\ \E k \in {0, 1} : \A i \in 1 .. Len(queue'[m.service]) :
                 \/ /\ i + k \in 1 .. Len(queue[m.service])
                    /\ queue'[m.service][i] = queue[m.service][i + k]
                 \/ i = Len(queue'[m.service]) /\ queue'[m.service][i] = m
           /\ \A i \in 1 .. Len(queue[m.service]) :
                 \/ \E j \in 1 .. Len(queue'[m.service]) :
                       queue'[m.service][j] = queue[m.service][i]
                 \/ queue[m.service][i].noted => EntryOf(queue[m.service][i]) \in stale'
           /\ \/ \E j \in 1 .. Len(queue'[m.service]) : queue'[m.service][j] = m
              \/ m.service \in forwardedServices /\ m.noted => EntryOf(m) \in stale'
  <1> DEFINE s == m.service
             q == queue[s]
  <1>1. s \in Services /\ q \in Seq(Message) /\ queue \in [Services -> Seq(Message)]
    BY MessageFields DEF TypeOK
  <1>2. lost \subseteq 1 .. MaxMessages /\ stale \subseteq StaleEntry
    BY DEF TypeOK, StaleEntry
  <1>3. CASE s \notin forwardedServices
    <2>1. UNCHANGED <<queue, lost, stale>>
      BY <1>3 DEF Deliver
    <2>2. \A i \in 1 .. Len(queue'[s]) : i + 0 \in 1 .. Len(q) /\ queue'[s][i] = q[i + 0]
      BY <1>1, <2>1
    <2> QED
      BY <1>1, <1>2, <1>3, <2>1, <2>2
  <1>4. CASE s \in forwardedServices /\ s \notin subscribed
    <2>1. Missed({m}) /\ queue' = queue
      BY <1>4 DEF Deliver
    <2>2. stale \subseteq stale' /\ (m.noted => EntryOf(m) \in stale')
      BY <2>1 DEF Missed
    <2> QED
      BY <1>1, <2>1, <2>2, MissedType
  <1>5. CASE s \in forwardedServices /\ s \in subscribed /\ Len(q) < QueueCapacity
    <2>1. queue' = [queue EXCEPT ![s] = Append(q, m)] /\ UNCHANGED <<lost, stale>>
      BY <1>5 DEF Deliver
    <2>2. /\ queue'[s] = Append(q, m) /\ \A r \in Services \ {s} : queue'[r] = queue[r]
          /\ queue' \in [Services -> Seq(Message)]
      BY <1>1, <2>1
    <2>3. /\ Len(Append(q, m)) = Len(q) + 1 /\ Append(q, m)[Len(q) + 1] = m
          /\ \A i \in 1 .. Len(q) : Append(q, m)[i] = q[i]
      BY <1>1
    <2> QED
      BY <1>1, <1>2, <2>1, <2>2, <2>3
  <1>6. CASE s \in forwardedServices /\ s \in subscribed /\ ~(Len(q) < QueueCapacity)
    <2>1. queue' = [queue EXCEPT ![s] = Append(Tail(q), m)] /\ Missed({Head(q)})
      BY <1>6 DEF Deliver
    <2>2. Len(q) \in Nat \ {0} /\ q # <<>>
      BY <1>1, <1>6, ForwarderAssumption
    <2>3. /\ Head(q) \in Message /\ Head(q) = q[1] /\ Tail(q) \in Seq(Message)
          /\ Len(Tail(q)) = Len(q) - 1 /\ \A i \in 1 .. Len(q) - 1 : Tail(q)[i] = q[i + 1]
      BY <1>1, <2>2
    <2>4. /\ queue'[s] = Append(Tail(q), m) /\ \A r \in Services \ {s} : queue'[r] = queue[r]
          /\ queue' \in [Services -> Seq(Message)]
      BY <1>1, <2>1, <2>3
    <2>5. /\ Len(queue'[s]) = Len(q) /\ queue'[s][Len(q)] = m
          /\ \A i \in 1 .. Len(q) - 1 : queue'[s][i] = q[i + 1]
      BY <2>2, <2>3, <2>4
    <2>6. \A i \in 1 .. Len(queue'[s]) :
             \/ i + 1 \in 1 .. Len(q) /\ queue'[s][i] = q[i + 1]
             \/ i = Len(queue'[s]) /\ queue'[s][i] = m
      BY <2>2, <2>5
    <2>7. \A i \in 1 .. Len(q) :
             \/ i = 1
             \/ i - 1 \in 1 .. Len(queue'[s]) /\ queue'[s][i - 1] = q[i]
      BY <2>2, <2>5
    <2>8. /\ lost' \subseteq 1 .. MaxMessages /\ stale' \subseteq StaleEntry
          /\ stale \subseteq stale' /\ (q[1].noted => EntryOf(q[1]) \in stale')
      BY <2>1, <2>3, MissedType DEF Missed
    <2>9. Len(queue'[s]) \in 1 .. Len(queue'[s])
      BY <2>2, <2>5
    <2> QED
      BY <2>2, <2>4, <2>5, <2>6, <2>7, <2>8, <2>9
  <1> QED
    BY <1>3, <1>4, <1>5, <1>6

LEMMA TypeInit == Init => TypeOK
  <1> SUFFICES ASSUME Init PROVE TypeOK
    OBVIOUS
  <1>1. messagesToForward \in Seq(Entry) /\ Len(messagesToForward) = 0
    BY DEF Init
  <1> QED
    BY <1>1, ForwarderAssumption DEF Init, TypeOK

\* The devices that a chunk cannot reach any more are those of the list.
LEMMA FailedType ==
    ASSUME TypeOK, hand.at = "sending"
    PROVE  /\ Remaining \subseteq (1 .. MaxMessages) \X Devices
           /\ \A c : Reused(c) => failed' \subseteq (1 .. MaxMessages) \X Devices
  <1>1. hand.message \in Message /\ hand.targets \in Seq(Devices)
    BY HandFields
  <1>2. hand.message.number \in 1 .. MaxMessages /\ ToSet(hand.targets) \subseteq Devices
    BY <1>1, MessageFields DEF ToSet
  <1>3. Remaining \subseteq (1 .. MaxMessages) \X Devices
    BY <1>2 DEF Remaining
  <1> QED
    BY <1>3 DEF Reused, TypeOK

LEMMA ReusedType ==
    ASSUME TypeOK, NEW c, Reused(c)
    PROVE  failed' \subseteq (1 .. MaxMessages) \X Devices
  <1>1. CASE hand.at = "sending"
    BY <1>1, FailedType
  <1>2. CASE hand.at # "sending"
    BY <1>2 DEF Reused, TypeOK
  <1> QED
    BY <1>1, <1>2

\* push appends at most one entry, of the message's chunk and device.
LEMMA PushProperties ==
    ASSUME TypeOK, NEW s, NEW c \in Chunks, NEW d \in Devices
    PROVE  /\ Push(s, c, d) \in Seq(Entry)
           /\ Len(Push(s, c, d)) <= MAX_FORWARDED_SERVICES
           /\ Push(s, c, d) # messagesToForward =>
                 /\ s \in forwardedServices
                 /\ Push(s, c, d) = Append(messagesToForward, [chunk |-> c, device |-> d])
  <1> DEFINE E == Entry
             e == [chunk |-> c, device |-> d]
  <1>1. e \in E /\ messagesToForward \in Seq(E)
    BY DEF TypeOK, Entry
  <1>2. /\ Len(messagesToForward) \in Nat /\ MAX_FORWARDED_SERVICES \in Nat
        /\ Len(messagesToForward) <= MAX_FORWARDED_SERVICES
    BY <1>1, ForwarderAssumption DEF TypeOK
  <1>3. \/ Push(s, c, d) = messagesToForward
        \/ /\ s \in forwardedServices /\ Len(messagesToForward) < MAX_FORWARDED_SERVICES
           /\ Push(s, c, d) = Append(messagesToForward, e)
    BY DEF Push
  <1> HIDE DEF e, E
  <1>4. /\ Append(messagesToForward, e) \in Seq(E)
        /\ Len(Append(messagesToForward, e)) = Len(messagesToForward) + 1
    BY <1>1
  <1>5. Push(s, c, d) \in Seq(E) /\ Len(Push(s, c, d)) <= MAX_FORWARDED_SERVICES
    BY <1>1, <1>2, <1>3, <1>4
  <1> QED
    BY <1>3, <1>5 DEF e, E

\* writeSegmented goes on to the next device, or ends.
LEMMA NextDeviceType ==
    ASSUME TypeOK, hand.at = "sending", hand.targets # <<>>
    PROVE  \/ NextDevice = Idle
           \/ /\ NextDevice \in Hand /\ NextDevice.at = "sending"
              /\ NextDevice.message = hand.message /\ NextDevice.targets = Tail(hand.targets)
              /\ Len(hand.targets) > 1
  <1>1. hand \in Hand /\ hand.targets \in Seq(Devices)
    BY HandFields
  <1>2. Tail(hand.targets) \in Seq(Devices) /\ Len(hand.targets) \in Nat \ {0}
    BY <1>1
  <1>3. CASE Len(hand.targets) = 1
    BY <1>3 DEF NextDevice
  <1>4. CASE Len(hand.targets) # 1
    <2> DEFINE rest == Tail(hand.targets)
    <2>1. NextDevice = [hand EXCEPT !.targets = rest]
      BY <1>4 DEF NextDevice
    <2> HIDE DEF rest
    <2>2. rest \in Seq(Devices)
      BY <1>2 DEF rest
    <2>3. /\ NextDevice \in Hand /\ NextDevice.at = "sending"
          /\ NextDevice.message = hand.message /\ NextDevice.targets = rest
      BY <1>1, <2>1, <2>2 DEF Hand
    <2>4. Len(hand.targets) > 1
      <3>1. \A n \in Nat \ {0} : n # 1 => n > 1
        OBVIOUS
      <3> QED
        BY <1>2, <1>4, <3>1
    <2>5. NextDevice.targets = Tail(hand.targets)
      BY <2>3 DEF rest
    <2> QED
      BY <2>3, <2>4, <2>5
  <1> QED
    BY <1>3, <1>4

LEMMA TypeNext ==
    ASSUME TypeOK, hand.at = "sending" => hand.targets # <<>>, [Next]_vars
    PROVE  TypeOK'
  <1> USE DEF discoveryVars, loopVars, publisherVars
  <1>1. ASSUME NEW s \in Services, NEW c \in Chunks, NEW d \in Devices, ReceiveMessage(s, c, d)
        PROVE  TypeOK'
    <2> DEFINE flag == messagesToForward' # messagesToForward
    <2>1. flag \in BOOLEAN /\ d \in Devices \cup {Local}
      OBVIOUS
    <2>2. loaned' = [number |-> count + 1, service |-> s, chunk |-> c, from |-> d, noted |-> flag]
      BY <1>1 DEF ReceiveMessage
    <2> HIDE DEF flag
    <2>3. count' = count + 1 /\ count + 1 \in 1 .. MaxMessages
      BY <1>1, ForwarderAssumption DEF ReceiveMessage, TypeOK
    <2>4. loaned' \in Message
      BY <2>1, <2>2, <2>3 DEF Message
    <2>5. /\ messagesToForward' \in Seq(Entry)
          /\ Len(messagesToForward') <= MAX_FORWARDED_SERVICES
      BY <1>1, PushProperties DEF ReceiveMessage
    <2>6. failed' \subseteq (1 .. MaxMessages) \X Devices
      BY <1>1, ReusedType DEF ReceiveMessage
    <2> QED
      BY <1>1, <2>3, <2>4, <2>5, <2>6 DEF ReceiveMessage, TypeOK
  <1>2. ASSUME PublishMessage PROVE TypeOK'
    <2>1. loaned \in Message
      BY <1>2 DEF PublishMessage, TypeOK
    <2>2. /\ queue' \in [Services -> Seq(Message)]
          /\ lost' \subseteq 1 .. MaxMessages /\ stale' \subseteq StaleEntry
      BY <1>2, <2>1, DeliverProperties DEF PublishMessage
    <2> QED
      BY <1>2, <2>2 DEF PublishMessage, TypeOK, StaleEntry
  <1>3. ASSUME NEW s \in Services, NEW c \in Chunks, PublishLocally(s, c)
        PROVE  TypeOK'
    <2> DEFINE no == FALSE
               m == [number |-> count + 1, service |-> s, chunk |-> c, from |-> Local,
                     noted |-> no]
    <2>1. no \in BOOLEAN /\ Local \in Devices \cup {Local}
      OBVIOUS
    <2>2. Deliver(m)
      BY <1>3 DEF PublishLocally
    <2> HIDE DEF no
    <2>3. count' = count + 1 /\ count + 1 \in 1 .. MaxMessages
      BY <1>3, ForwarderAssumption DEF PublishLocally, TypeOK
    <2>4. m \in Message
      BY <2>1, <2>3 DEF Message
    <2> HIDE DEF m
    <2>5. /\ queue' \in [Services -> Seq(Message)]
          /\ lost' \subseteq 1 .. MaxMessages /\ stale' \subseteq StaleEntry
      BY <2>2, <2>4, DeliverProperties
    <2>6. failed' \subseteq (1 .. MaxMessages) \X Devices
      BY <1>3, ReusedType DEF PublishLocally
    <2> QED
      BY <1>3, <2>3, <2>5, <2>6 DEF PublishLocally, TypeOK, StaleEntry
  <1>4. ASSUME NEW s \in Services, Subscribe(s) PROVE TypeOK'
    BY <1>4 DEF Subscribe, TypeOK
  <1>5. ASSUME NEW d \in Devices, ChangeRecords(d) PROVE TypeOK'
    <2>1. known' \subseteq Devices /\ reachable' \subseteq Devices
      BY <1>5 DEF ChangeRecords, TypeOK, SymDiff
    <2>2. changes' \in 0 .. MaxChanges
      BY <1>5, ForwarderAssumption DEF ChangeRecords, TypeOK
    <2> QED
      BY <1>5, <2>1, <2>2 DEF ChangeRecords, TypeOK
  <1>6. ASSUME NEW s \in Services, Take(s) PROVE TypeOK'
    <2>1. /\ queue[s] \in Seq(Message) /\ queue[s] # <<>>
          /\ Head(queue[s]) \in Message /\ Tail(queue[s]) \in Seq(Message)
      BY <1>6 DEF Take, TypeOK
    <2>2. queue' \in [Services -> Seq(Message)]
      BY <1>6, <2>1 DEF Take, TypeOK
    <2>3. Head(queue[s]).chunk \in Chunks
      BY <2>1, MessageFields
    <2>4. CASE Cardinality(taken) < MaxHeld
      <3> DEFINE none == <<>>
      <3>1. none \in Seq(Devices) /\ NoDevice \in Devices \cup {NoDevice} /\ "taken" \in Steps
        BY DEF Steps
      <3>2. hand' = [at |-> "taken", message |-> Head(queue[s]), device |-> NoDevice,
                     targets |-> none]
        BY <1>6, <2>4 DEF Take
      <3> HIDE DEF none
      <3>3. hand' \in Hand
        BY <2>1, <3>1, <3>2 DEF Hand
      <3> QED
        BY <1>6, <2>2, <2>3, <2>4, <3>3 DEF Take, TypeOK, Hand
    <2>5. CASE ~(Cardinality(taken) < MaxHeld)
      <3>1. lost' \subseteq 1 .. MaxMessages /\ stale' \subseteq StaleEntry
        BY <1>6, <2>1, <2>5, MissedType DEF Take
      <3> QED
        BY <1>6, <2>2, <2>5, <3>1 DEF Take, TypeOK, StaleEntry
    <2> QED
      BY <2>4, <2>5
  <1>7. ASSUME FindDevice PROVE TypeOK'
    <2>1. hand \in Hand
      BY <1>7, HandFields DEF FindDevice
    <2>2. \E d \in Devices \cup {NoDevice} : hand' = [hand EXCEPT !.at = "found", !.device = d]
      <3>1. \A i \in DOMAIN messagesToForward : messagesToForward[i].device \in Devices
        BY EntriesType
      <3> QED
        BY <1>7, <3>1 DEF FindDevice
    <2>3. hand' \in Hand
      BY <2>1, <2>2 DEF Hand, Steps
    <2>4. \/ UNCHANGED messagesToForward
          \/ \E i \in DOMAIN messagesToForward : messagesToForward' = RemoveAt(messagesToForward, i)
      BY <1>7 DEF FindDevice
    <2>5. /\ messagesToForward' \in Seq(Entry)
          /\ Len(messagesToForward') <= MAX_FORWARDED_SERVICES
      <3>1. CASE UNCHANGED messagesToForward
        BY <3>1 DEF TypeOK
      <3>2. ASSUME NEW i \in DOMAIN messagesToForward,
                   messagesToForward' = RemoveAt(messagesToForward, i)
            PROVE  /\ messagesToForward' \in Seq(Entry)
                   /\ Len(messagesToForward') = Len(messagesToForward) - 1
        <4>1. messagesToForward \in Seq(Entry)
          BY DEF TypeOK
        <4>2. i \in 1 .. Len(messagesToForward)
          BY <4>1
        <4> QED
          BY <3>2, <4>1, <4>2, RemoveAtProperties
      <3>3. Len(messagesToForward) \in Nat /\ MAX_FORWARDED_SERVICES \in Nat
        BY ForwarderAssumption DEF TypeOK
      <3> QED
        BY <2>4, <3>1, <3>2, <3>3 DEF TypeOK
    <2>6. stale' \subseteq StaleEntry
      <3>1. ToSet(messagesToForward') \subseteq Entry
        BY <2>5 DEF ToSet
      <3>2. Entry \subseteq StaleEntry
        BY DEF Entry, StaleEntry
      <3>3. stale \subseteq StaleEntry
        BY DEF TypeOK, StaleEntry
      <3> QED
        BY <1>7, <3>1, <3>2, <3>3 DEF FindDevice
    <2> QED
      BY <1>7, <2>3, <2>5, <2>6 DEF FindDevice, TypeOK, Hand, StaleEntry
  <1>8. ASSUME ChooseDevices PROVE TypeOK'
    <2> DEFINE targets == GenerateDeviceIndicesForwarding(hand.message.service, hand.device)
    <2>1. hand \in Hand
      BY <1>8, HandFields DEF ChooseDevices
    <2>2. targets \in SUBSET Devices /\ IsFiniteSet(targets)
      <3>1. targets \in SUBSET Devices
        BY DEF GenerateDeviceIndicesForwarding, TypeOK
      <3> QED
        BY <3>1, ForwarderAssumption, FS_Subset
    <2>3. CASE targets = {}
      BY <1>8, <2>3 DEF ChooseDevices, TypeOK, historyVars
    <2>4. CASE targets # {}
      <3>1. PICK list \in SetToSeqs(targets) :
                hand' = [hand EXCEPT !.at = "sending", !.targets = list]
        BY <1>8, <2>4 DEF ChooseDevices
      <3> HIDE DEF targets
      <3>2. list \in Seq(targets)
        BY <2>2, <2>4, SetToSeqsProperties
      <3>3. list \in Seq(Devices)
        BY <2>2, <3>2
      <3>4. hand' \in Hand
        BY <2>1, <3>1, <3>3 DEF Hand, Steps
      <3>5. UNCHANGED taken
        BY <1>8, <2>4 DEF ChooseDevices, targets
      <3> QED
        BY <1>8, <3>4, <3>5 DEF ChooseDevices, TypeOK, Hand, historyVars
    <2> QED
      BY <2>3, <2>4
  <1>9. ASSUME SendDirectly \/ SendPending \/ SendFails \/ DiscardMessage PROVE TypeOK'
    <2>1. hand.at = "sending"
      BY <1>9 DEF SendDirectly, SendPending, SendFails, DiscardMessage
    <2>2. /\ hand \in Hand /\ hand.message \in Message /\ hand.targets \in Seq(Devices)
          /\ hand.targets # <<>> /\ Head(hand.targets) \in Devices
      BY <2>1, HandFields
    <2>3. hand' = Idle \/ hand' \in Hand
      BY <1>9, <2>1, <2>2, NextDeviceType DEF SendDirectly, SendPending, SendFails, DiscardMessage
    <2>4. hand.message.chunk \in Chunks /\ hand.message.number \in 1 .. MaxMessages
      BY <2>2, MessageFields
    <2>5. forwarded' \subseteq Message \X Devices
      BY <1>9, <2>2 DEF SendDirectly, SendPending, SendFails, DiscardMessage, Sent, TypeOK
    <2>6. /\ taken' \subseteq Chunks /\ pending' \subseteq Chunks
      BY <1>9, <2>4 DEF SendDirectly, SendPending, SendFails, DiscardMessage, TypeOK
    <2>7. UNCHANGED <<publisherVars, queue, messagesToForward, stale, lost>>
      BY <1>9 DEF SendDirectly, SendPending, SendFails, DiscardMessage
    <2>8. failed' \subseteq (1 .. MaxMessages) \X Devices
      BY <1>9, <2>1, <2>2, <2>4, FailedType
         DEF SendDirectly, SendPending, SendFails, DiscardMessage, TypeOK
    <2> QED
      BY <2>3, <2>5, <2>6, <2>7, <2>8 DEF TypeOK, Hand
  <1>10. ASSUME NEW c \in Chunks, BufferSent(c) PROVE TypeOK'
    BY <1>10 DEF BufferSent, TypeOK, historyVars
  <1>11. ASSUME UNCHANGED vars PROVE TypeOK'
    BY <1>11 DEF vars, TypeOK
  <1> QED
    BY <1>1, <1>2, <1>3, <1>4, <1>5, <1>6, <1>7, <1>8, <1>9, <1>10, <1>11 DEF Next, LoopStep

-----------------------------------------------------------------------------
(***************************************************************************)
(* A message is looked up under the address of its payload.                *)
(***************************************************************************)

\* DmaAlone: a list of devices with one whose transport makes the message
\* pending holds no other device.  (Otherwise writeSegmented releases the chunk
\* while the message is pending, and the buffer sent callback releases it once
\* more, under another message.)
DmaAlone ==
    \A d, e, f \in Devices :
        e \in DmaDevices /\ ~Share(d, e) /\ ~Share(d, f) /\ Wants(e) \cap Wants(f) # {} => e = f

\* The message is in a place from where the forwarder will look it up.
Ahead(m) ==
    \/ loaned # NothingLoaned /\ m = loaned
    \/ \E s \in Services : \E i \in 1 .. Len(queue[s]) : queue[s][i] = m
    \/ hand.at = "taken" /\ m = hand.message

\* PlacesInv: chunks that are loaned, queued or taken are different ones.
PlacesInv ==
    /\ loaned # NothingLoaned =>
          /\ loaned.chunk \notin taken
          /\ \A s \in Services : \A i \in 1 .. Len(queue[s]) : queue[s][i].chunk # loaned.chunk
    /\ \A s, r \in Services : \A i \in 1 .. Len(queue[s]), j \in 1 .. Len(queue[r]) :
          queue[s][i].chunk = queue[r][j].chunk => s = r /\ i = j
    /\ \A s \in Services : \A i \in 1 .. Len(queue[s]) : queue[s][i].chunk \notin taken

\* A message may go to a device, as far as entries left behind do not mislead
\* the loop.
Allowed(m, e) ==
    m.noted /\ Share(m.from, e) => \E x \in stale : x.chunk = m.chunk /\ ~Share(x.device, e)

\* LoopInv: the loop holds the chunk of its message, until it begins to send
\* it.  It has found the device that was noted, or that of an entry left
\* behind.
LoopInv ==
    /\ pending \subseteq taken
    /\ hand.at \in {"taken", "found"} => hand.message.chunk \in taken \ pending
    /\ hand.at = "found" /\ hand.message.noted =>
          \/ hand.device = hand.message.from
          \/ \E x \in stale : x.chunk = hand.message.chunk /\ x.device = hand.device
    /\ hand.at = "sending" =>
          /\ hand.targets # <<>> /\ hand.message.chunk \notin pending
          /\ \A i \in 1 .. Len(hand.targets) :
                /\ hand.targets[i] \in DmaDevices =>
                      Len(hand.targets) = 1 /\ hand.message.chunk \in taken
                /\ Allowed(hand.message, hand.targets[i])

\* NotedInv: there is an entry under the address of a message that was noted,
\* and those that were not left behind are its own.
NotedInv ==
    \A m : Ahead(m) /\ m.noted =>
        /\ m.service \in forwardedServices
        /\ \E i \in DOMAIN messagesToForward : messagesToForward[i].chunk = m.chunk
        /\ \A i \in DOMAIN messagesToForward :
              messagesToForward[i].chunk = m.chunk =>
                  messagesToForward[i] = EntryOf(m) \/ messagesToForward[i] \in stale

\* EntriesInv: an entry that was not left behind has its message, and is the
\* only one of this kind for its chunk.
EntriesInv ==
    \A i \in DOMAIN messagesToForward : messagesToForward[i] \notin stale =>
        /\ \E m : Ahead(m) /\ m.noted /\ messagesToForward[i] = EntryOf(m)
        /\ \A j \in DOMAIN messagesToForward :
              messagesToForward[j].chunk = messagesToForward[i].chunk =>
                  i = j \/ messagesToForward[j] \in stale

\* EchoInv: EchoNeedsStale, in terms of Allowed.
EchoInv == \A f \in forwarded : Allowed(f[1], f[2])

\* ForwardInv: the inductive strengthening of EchoNeedsStale and
\* EntriesHaveMessages.
ForwardInv == PlacesInv /\ LoopInv /\ NotedInv /\ EntriesInv /\ EchoInv

\* Entries left behind only add to what is allowed.
LEMMA AllowedGrows ==
    ASSUME stale \subseteq stale', NEW m, NEW e, Allowed(m, e)
    PROVE  Allowed(m, e)'
  BY DEF Allowed

LEMMA ForwardInit == Init => ForwardInv
  <1> SUFFICES ASSUME Init PROVE ForwardInv
    OBVIOUS
  <1>1. /\ loaned = NothingLoaned /\ hand.at = "waiting" /\ pending = {} /\ forwarded = {}
        /\ DOMAIN messagesToForward = {}
        /\ \A s \in Services : 1 .. Len(queue[s]) = {}
    BY DEF Init, Idle
  <1> QED
    BY <1>1 DEF ForwardInv, PlacesInv, LoopInv, NotedInv, EntriesInv, EchoInv, Ahead

\* Messages that are ahead, and their chunks.
LEMMA AheadChunks ==
    ASSUME TypeOK, PlacesInv, LoopInv, NEW m, Ahead(m)
    PROVE  /\ m \in Message
           /\ m.chunk \in Queued \cup taken \cup {loaned.chunk}
           /\ \A x : Ahead(x) /\ x.chunk = m.chunk => x = m
  <1>1. \A s \in Services : \A i \in 1 .. Len(queue[s]) :
           queue[s][i] \in Message /\ queue[s][i].chunk \in Queued
    BY DEF TypeOK, Queued, ToSet
  <1>2. ASSUME NEW x, Ahead(x)
        PROVE  x \in Message /\ x.chunk \in Queued \cup taken \cup {loaned.chunk}
    <2>1. CASE loaned # NothingLoaned /\ x = loaned
      BY <2>1 DEF TypeOK
    <2>2. CASE \E s \in Services : \E i \in 1 .. Len(queue[s]) : queue[s][i] = x
      BY <1>1, <2>2
    <2>3. CASE hand.at = "taken" /\ x = hand.message
      BY <2>3, HandFields DEF LoopInv
    <2> QED
      BY <1>2, <2>1, <2>2, <2>3 DEF Ahead
  <1>3. ASSUME NEW x, Ahead(x), x.chunk = m.chunk PROVE x = m
    BY <1>3 DEF Ahead, PlacesInv, LoopInv
  <1> QED
    BY <1>2, <1>3

\* Steps of the loop that change no table and no queue.
LEMMA LoopFrame ==
    ASSUME PlacesInv, NotedInv, EntriesInv, taken' \subseteq taken,
           UNCHANGED <<loaned, queue, messagesToForward, stale>>,
           hand'.at = "taken" <=> hand.at = "taken",
           hand.at = "taken" => hand'.message = hand.message
    PROVE  PlacesInv' /\ NotedInv' /\ EntriesInv'
  <1>1. \A m : Ahead(m)' <=> Ahead(m)
    BY DEF Ahead
  <1>2. PlacesInv'
    BY DEF PlacesInv
  <1>3. NotedInv'
    BY <1>1 DEF NotedInv
  <1>4. EntriesInv'
    BY <1>1 DEF EntriesInv
  <1> QED
    BY <1>2, <1>3, <1>4

\* receive notes a message: its chunk is used by no other message, so that
\* there is no entry for it but those nobody will look up.
LEMMA ReceiveMessageForward ==
    ASSUME TypeOK, ForwardInv,
           NEW s \in Services, NEW c \in Chunks, NEW d \in Devices, ReceiveMessage(s, c, d)
    PROVE  ForwardInv'
  <1> USE DEF ForwardInv
  <1> DEFINE flag == messagesToForward' # messagesToForward
             E == [chunk : Chunks, device : Devices]
             table == messagesToForward
             e == [chunk |-> c, device |-> d]
  <1>0. flag \in BOOLEAN
    OBVIOUS
  <1>1. /\ loaned = NothingLoaned /\ c \notin Queued \cup taken \cup {loaned.chunk}
        /\ loaned' = [number |-> count + 1, service |-> s, chunk |-> c, from |-> d, noted |-> flag]
        /\ messagesToForward' = Push(s, c, d)
        /\ UNCHANGED <<queue, hand, taken, pending, stale, forwarded>>
    BY DEF ReceiveMessage, FreeChunks, loopVars
  <1>a. flag <=> table' # table
    OBVIOUS
  <1> HIDE DEF flag
  <1>2. /\ loaned'.chunk = c /\ loaned'.service = s /\ loaned'.from = d /\ loaned'.noted = flag
        /\ loaned' # NothingLoaned /\ EntryOf(loaned') = e
    <2>1. DOMAIN NothingLoaned = {"chunk"} /\ "from" \in DOMAIN loaned'
      BY <1>1 DEF NothingLoaned
    <2> QED
      BY <1>1, <2>1 DEF EntryOf
  <1>3. table \in Seq(E) /\ e \in E
    BY DEF TypeOK, Entry
  <1>4. table' = table \/ (table' = Append(table, e) /\ s \in forwardedServices)
    BY <1>1, PushProperties
  <1>e. e.chunk = c /\ e.device = d
    OBVIOUS
  <1> HIDE DEF e, E
  <1>5. /\ Len(table) \in Nat /\ DOMAIN table = 1 .. Len(table)
        /\ DOMAIN Append(table, e) = 1 .. Len(table) + 1
        /\ Append(table, e)[Len(table) + 1] = e
        /\ \A i \in 1 .. Len(table) : Append(table, e)[i] = table[i]
    BY <1>3
  <1>6. \A m : Ahead(m)' <=> Ahead(m) \/ m = loaned'
    BY <1>1, <1>2 DEF Ahead
  <1>7. \A m : Ahead(m) => m.chunk # c
    BY <1>1, AheadChunks
  <1>8. \A i \in DOMAIN table : table[i] \notin stale => table[i].chunk # c
    BY <1>7 DEF EntriesInv, EntryOf
  <1>9. PlacesInv'
    <2>1. \A r \in Services : \A i \in 1 .. Len(queue[r]) : queue[r][i].chunk # c
      BY <1>7 DEF Ahead
    <2> QED
      BY <1>1, <1>2, <2>1 DEF PlacesInv
  <1>10. LoopInv' /\ EchoInv'
    BY <1>1 DEF LoopInv, EchoInv, Allowed
  <1> HIDE DEF table
  <1>11. CASE table' = table
    <2>1. messagesToForward' = messagesToForward /\ ~flag
      BY <1>a, <1>11 DEF table
    <2>2. NotedInv'
      BY <1>1, <1>2, <1>6, <2>1 DEF NotedInv
    <2>3. EntriesInv'
      BY <1>1, <1>6, <2>1 DEF EntriesInv
    <2> QED
      BY <1>9, <1>10, <2>2, <2>3
  <1>12. CASE table' = Append(table, e) /\ s \in forwardedServices
    <2>1. /\ DOMAIN table' = 1 .. Len(table) + 1 /\ table'[Len(table) + 1] = e
          /\ \A i \in 1 .. Len(table) : table'[i] = table[i]
      BY <1>5, <1>12
    <2>2. \A i \in DOMAIN table' : i \in DOMAIN table \/ i = Len(table) + 1
      BY <1>5, <2>1
    <2>3. \A i \in DOMAIN table : i \in DOMAIN table' /\ table'[i] = table[i]
      BY <1>5, <2>1
    <2>4. Len(table) + 1 \in DOMAIN table' /\ Len(table) + 1 \notin DOMAIN table
      BY <1>5, <2>1
    <2>5. NotedInv'
      <3>1. ASSUME NEW m, Ahead(m), m.noted
            PROVE  /\ m.service \in forwardedServices
                   /\ \E i \in DOMAIN table' : table'[i].chunk = m.chunk
                   /\ \A i \in DOMAIN table' : table'[i].chunk = m.chunk =>
                         table'[i] = EntryOf(m) \/ table'[i] \in stale
        BY <1>e, <1>7, <2>1, <2>2, <2>3, <3>1 DEF NotedInv, table
      <3>2. ASSUME flag
            PROVE  /\ \E i \in DOMAIN table' : table'[i].chunk = c
                   /\ \A i \in DOMAIN table' : table'[i].chunk = c =>
                         table'[i] = e \/ table'[i] \in stale
        BY <1>e, <1>8, <2>1, <2>2, <2>3, <2>4, <3>2
      <3> QED
        BY <1>1, <1>2, <1>6, <1>12, <3>1, <3>2 DEF NotedInv, table
    <2>6. EntriesInv'
      <3>1. table' # table
        BY <2>4
      <3>2. ASSUME NEW i \in DOMAIN table', table'[i] \notin stale
            PROVE  /\ \E m : Ahead(m)' /\ m.noted /\ table'[i] = EntryOf(m)
                   /\ \A j \in DOMAIN table' : table'[j].chunk = table'[i].chunk =>
                         i = j \/ table'[j] \in stale
        <4>1. CASE i \in DOMAIN table
          <5>1. table[i].chunk # c /\ table'[i] = table[i]
            BY <1>8, <2>3, <3>2, <4>1
          <5>2. \E m : Ahead(m) /\ m.noted /\ table[i] = EntryOf(m)
            BY <3>2, <4>1, <5>1 DEF EntriesInv, table
          <5>3. \A j \in DOMAIN table : table[j].chunk = table[i].chunk =>
                   i = j \/ table[j] \in stale
            BY <3>2, <4>1, <5>1 DEF EntriesInv, table
          <5> QED
            BY <1>e, <1>6, <2>1, <2>2, <2>3, <5>1, <5>2, <5>3
        <4>2. CASE i = Len(table) + 1
          <5>1. table'[i] = e /\ flag
            BY <1>a, <2>1, <3>1, <4>2
          <5>2. \A j \in DOMAIN table : table[j].chunk = c => table[j] \in stale
            BY <1>8
          <5> QED
            BY <1>e, <1>2, <1>6, <2>2, <2>3, <4>2, <5>1, <5>2
        <4> QED
          BY <2>2, <4>1, <4>2
      <3> QED
        BY <1>1, <3>2 DEF EntriesInv, table
    <2> QED
      BY <1>9, <1>10, <2>5, <2>6
  <1> QED
    BY <1>4, <1>11, <1>12

\* A message is published: it gets into the queue, and another one may drop
\* out of it, or it is missed; what was noted for a message that is lost is
\* stale.
LEMMA DeliverForward ==
    ASSUME TypeOK, ForwardInv, NEW m \in Message, Deliver(m), m.chunk \notin taken,
           \A s \in Services : \A i \in 1 .. Len(queue[s]) : queue[s][i].chunk # m.chunk,
           \/ m = loaned /\ loaned # NothingLoaned /\ loaned' = NothingLoaned
           \/ ~m.noted /\ loaned' = loaned /\ loaned.chunk # m.chunk,
           UNCHANGED <<hand, taken, pending, messagesToForward, forwarded>>
    PROVE  ForwardInv'
  <1> USE DEF ForwardInv
  <1>1. PICK k \in {0, 1} : \A i \in 1 .. Len(queue'[m.service]) :
           \/ /\ i + k \in 1 .. Len(queue[m.service])
              /\ queue'[m.service][i] = queue[m.service][i + k]
           \/ i = Len(queue'[m.service]) /\ queue'[m.service][i] = m
    BY DeliverProperties
  <1>2. /\ \A s \in Services \ {m.service} : queue'[s] = queue[s]
        /\ stale \subseteq stale' /\ queue' \in [Services -> Seq(Message)]
        /\ m.service \in Services
    BY DeliverProperties, MessageFields
  <1>3. /\ \A i \in 1 .. Len(queue[m.service]) :
              \/ \E j \in 1 .. Len(queue'[m.service]) :
                    queue'[m.service][j] = queue[m.service][i]
              \/ queue[m.service][i].noted => EntryOf(queue[m.service][i]) \in stale'
        /\ \/ \E j \in 1 .. Len(queue'[m.service]) : queue'[m.service][j] = m
           \/ m.service \in forwardedServices /\ m.noted => EntryOf(m) \in stale'
    BY DeliverProperties
  <1>4. /\ queue' \in [Services -> Seq(Message)] /\ queue \in [Services -> Seq(Message)]
        /\ \A s \in Services : Len(queue'[s]) \in Nat /\ Len(queue[s]) \in Nat
    BY <1>2 DEF TypeOK
  <1>5. \A s \in Services : \A i \in 1 .. Len(queue'[s]) :
           \/ queue'[s][i] = m
           \/ \E j \in 1 .. Len(queue[s]) : queue'[s][i] = queue[s][j]
    BY <1>1, <1>2
  <1>6. PlacesInv'
    <2>1. loaned' # NothingLoaned =>
             /\ loaned'.chunk \notin taken'
             /\ \A s \in Services : \A i \in 1 .. Len(queue'[s]) :
                   queue'[s][i].chunk # loaned'.chunk
      BY <1>5 DEF PlacesInv
    <2>2. \A s \in Services : \A i \in 1 .. Len(queue'[s]) : queue'[s][i].chunk \notin taken'
      BY <1>5 DEF PlacesInv
    <2>3. ASSUME NEW s \in Services, NEW r \in Services,
                 NEW i \in 1 .. Len(queue'[s]), NEW j \in 1 .. Len(queue'[r]),
                 queue'[s][i].chunk = queue'[r][j].chunk
          PROVE  s = r /\ i = j
      <3>1. ASSUME NEW u \in Services, NEW v \in 1 .. Len(queue'[u]), queue'[u][v].chunk = m.chunk
            PROVE  u = m.service /\ v = Len(queue'[u])
        <4>1. u = m.service
          BY <1>2, <3>1
        <4>2. ~(v + k \in 1 .. Len(queue[u]) /\ queue'[u][v] = queue[u][v + k])
          BY <3>1
        <4> QED
          BY <1>1, <4>1, <4>2
      <3>2. CASE queue'[s][i].chunk = m.chunk
        BY <2>3, <3>1, <3>2
      <3>3. CASE queue'[s][i].chunk # m.chunk
        <4>1. ASSUME NEW u \in Services, NEW v \in 1 .. Len(queue'[u]),
                     queue'[u][v].chunk # m.chunk
              PROVE  LET w == IF u = m.service THEN v + k ELSE v
                     IN  w \in 1 .. Len(queue[u]) /\ queue'[u][v] = queue[u][w]
          BY <1>1, <1>2, <4>1
        <4> DEFINE a == IF s = m.service THEN i + k ELSE i
                   b == IF r = m.service THEN j + k ELSE j
        <4>2. /\ a \in 1 .. Len(queue[s]) /\ queue'[s][i] = queue[s][a]
              /\ b \in 1 .. Len(queue[r]) /\ queue'[r][j] = queue[r][b]
          BY <2>3, <3>3, <4>1
        <4>3. s = r /\ a = b
          BY <2>3, <4>2 DEF PlacesInv
        <4>4. i \in Nat /\ j \in Nat /\ k \in Nat
          BY <1>4
        <4> QED
          BY <4>3, <4>4
      <3> QED
        BY <3>2, <3>3
    <2> QED
      BY <2>1, <2>2, <2>3 DEF PlacesInv
  <1>7. LoopInv' /\ EchoInv'
    BY <1>2, AllowedGrows DEF LoopInv, EchoInv
  <1>8. \A x : Ahead(x)' /\ x.noted => Ahead(x)
    BY <1>5 DEF Ahead
  <1>9. NotedInv'
    BY <1>2, <1>8 DEF NotedInv
  <1>10. ASSUME NEW x, Ahead(x), x.noted, EntryOf(x) \notin stale' PROVE Ahead(x)'
    <2>1. CASE loaned # NothingLoaned /\ x = loaned
      <3>1. x.service \in forwardedServices
        BY <1>10 DEF NotedInv
      <3> QED
        BY <1>2, <1>3, <1>10, <2>1, <3>1 DEF Ahead
    <2>2. CASE \E s \in Services : \E i \in 1 .. Len(queue[s]) : queue[s][i] = x
      BY <1>2, <1>3, <1>10, <2>2, SMTT(30) DEF Ahead
    <2>3. CASE hand.at = "taken" /\ x = hand.message
      BY <2>3 DEF Ahead
    <2> QED
      BY <1>10, <2>1, <2>2, <2>3 DEF Ahead
  <1>11. EntriesInv'
    <2>1. ASSUME NEW i \in DOMAIN messagesToForward, messagesToForward[i] \notin stale'
          PROVE  \E x : Ahead(x)' /\ x.noted /\ messagesToForward[i] = EntryOf(x)
      <3>1. messagesToForward[i] \notin stale
        BY <1>2, <2>1
      <3>2. PICK x : Ahead(x) /\ x.noted /\ messagesToForward[i] = EntryOf(x)
        BY <3>1 DEF EntriesInv
      <3> QED
        BY <1>10, <2>1, <3>2
    <2> QED
      BY <1>2, <2>1 DEF EntriesInv
  <1> QED
    BY <1>6, <1>7, <1>9, <1>11

LEMMA PublishForward ==
    ASSUME TypeOK, ForwardInv,
           PublishMessage \/ \E s \in Services, c \in Chunks : PublishLocally(s, c)
    PROVE  ForwardInv'
  <1>1. CASE PublishMessage
    <2>1. /\ loaned # NothingLoaned /\ loaned \in Message /\ Deliver(loaned)
          /\ loaned' = NothingLoaned
          /\ UNCHANGED <<hand, taken, pending, messagesToForward, forwarded>>
      BY <1>1 DEF PublishMessage, loopVars, TypeOK
    <2>2. PICK m \in Message : m = loaned
      BY <2>1
    <2>3. /\ m.chunk \notin taken
          /\ \A s \in Services : \A i \in 1 .. Len(queue[s]) : queue[s][i].chunk # m.chunk
      BY <2>1, <2>2 DEF ForwardInv, PlacesInv
    <2>4. Deliver(m) /\ m = loaned
      BY <2>1, <2>2
    <2> QED
      BY <2>1, <2>3, <2>4, DeliverForward
  <1>2. ASSUME NEW s \in Services, NEW c \in Chunks, PublishLocally(s, c)
        PROVE  ForwardInv'
    <2> DEFINE no == FALSE
    <2>a. no \in BOOLEAN /\ ~no /\ Local \in Devices \cup {Local}
      OBVIOUS
    <2>1. /\ Deliver([number |-> count + 1, service |-> s, chunk |-> c, from |-> Local,
                      noted |-> no])
          /\ c \notin Queued \cup taken \cup {loaned.chunk}
          /\ count + 1 \in 1 .. MaxMessages
          /\ UNCHANGED <<loaned, hand, taken, pending, messagesToForward, forwarded>>
      BY <1>2, ForwarderAssumption DEF PublishLocally, FreeChunks, loopVars, TypeOK
    <2> HIDE DEF no
    <2>2. PICK m : m = [number |-> count + 1, service |-> s, chunk |-> c, from |-> Local,
                        noted |-> no]
      OBVIOUS
    <2>3. m \in Message /\ m.chunk = c /\ ~m.noted /\ Deliver(m)
      BY <2>a, <2>1, <2>2 DEF Message
    <2>4. \A r \in Services : \A i \in 1 .. Len(queue[r]) : queue[r][i].chunk # m.chunk
      BY <2>1, <2>3 DEF Queued, ToSet, TypeOK
    <2> QED
      BY <2>1, <2>3, <2>4, DeliverForward
  <1> QED
    BY <1>1, <1>2

\* take: a queued message gets into the hand of the loop, or is lost.
LEMMA TakeForward ==
    ASSUME TypeOK, ForwardInv, NEW s \in Services, Take(s)
    PROVE  ForwardInv'
  <1> USE DEF ForwardInv
  <1>1. PICK m : m = Head(queue[s])
    OBVIOUS
  <1>2. /\ queue \in [Services -> Seq(Message)] /\ queue[s] \in Seq(Message) /\ queue[s] # <<>>
        /\ queue' = [queue EXCEPT ![s] = Tail(queue[s])] /\ hand = Idle
        /\ UNCHANGED <<loaned, messagesToForward, pending, forwarded>>
    BY DEF Take, TypeOK, publisherVars
  <1>3. /\ Len(queue[s]) \in Nat \ {0} /\ m = queue[s][1] /\ m \in Message
        /\ queue'[s] = Tail(queue[s]) /\ Len(queue'[s]) = Len(queue[s]) - 1
        /\ \A i \in 1 .. Len(queue'[s]) :
              i + 1 \in 1 .. Len(queue[s]) /\ queue'[s][i] = queue[s][i + 1]
        /\ \A r \in Services \ {s} : queue'[r] = queue[r]
    BY <1>1, <1>2
  <1>4. hand.at = "waiting" /\ 1 \in 1 .. Len(queue[s])
    BY <1>2, <1>3 DEF Idle
  <1>5. Ahead(m)
    BY <1>3, <1>4 DEF Ahead
  <1>6. \A r \in Services : \A i \in 1 .. Len(queue'[r]) :
           /\ queue'[r][i].chunk # m.chunk
           /\ \E j \in 1 .. Len(queue[r]) : queue'[r][i] = queue[r][j]
    <2>1. ASSUME NEW r \in Services \ {s}, NEW i \in 1 .. Len(queue'[r])
          PROVE  /\ queue'[r][i].chunk # m.chunk
                 /\ \E j \in 1 .. Len(queue[r]) : queue'[r][i] = queue[r][j]
      BY <1>3, <1>4 DEF PlacesInv
    <2>2. ASSUME NEW i \in 1 .. Len(queue'[s])
          PROVE  /\ queue'[s][i].chunk # m.chunk
                 /\ \E j \in 1 .. Len(queue[s]) : queue'[s][i] = queue[s][j]
      <3>1. i + 1 \in 1 .. Len(queue[s]) /\ queue'[s][i] = queue[s][i + 1] /\ i + 1 # 1
        BY <1>3
      <3> QED
        BY <1>3, <1>4, <3>1 DEF PlacesInv
    <2> QED
      BY <2>1, <2>2
  <1>7. \A r \in Services : \A i \in 1 .. Len(queue[r]) :
           queue[r][i] # m => \E j \in 1 .. Len(queue'[r]) : queue'[r][j] = queue[r][i]
    <2>1. ASSUME NEW i \in 1 .. Len(queue[s]), i # 1
          PROVE  i - 1 \in 1 .. Len(queue'[s]) /\ queue'[s][i - 1] = queue[s][i]
      BY <1>2, <1>3, <2>1
    <2> QED
      BY <1>3, <2>1, ZenonT(30)
  <1>8. /\ taken \subseteq taken' /\ taken' \subseteq taken \cup {m.chunk}
        /\ stale \subseteq stale'
        /\ \/ hand' = hand /\ (m.noted => EntryOf(m) \in stale')
           \/ /\ hand'.at = "taken" /\ hand'.message = m /\ m.chunk \in taken'
              /\ stale' = stale
    BY <1>1 DEF Take, Missed
  <1>9. PlacesInv'
    <2>1. loaned # NothingLoaned => loaned.chunk # m.chunk
      BY <1>3, <1>4 DEF PlacesInv
    <2>2. \A r \in Services : \A i \in 1 .. Len(queue'[r]) : queue'[r][i].chunk \notin taken'
      BY <1>6, <1>8 DEF PlacesInv
    <2>3. loaned' # NothingLoaned =>
             /\ loaned'.chunk \notin taken'
             /\ \A r \in Services : \A i \in 1 .. Len(queue'[r]) :
                   queue'[r][i].chunk # loaned'.chunk
      BY <1>2, <1>6, <1>8, <2>1 DEF PlacesInv
    <2>4. ASSUME NEW u \in Services, NEW r \in Services,
                 NEW i \in 1 .. Len(queue'[u]), NEW j \in 1 .. Len(queue'[r]),
                 queue'[u][i].chunk = queue'[r][j].chunk
          PROVE  u = r /\ i = j
      <3> DEFINE a == IF u = s THEN i + 1 ELSE i
                 b == IF r = s THEN j + 1 ELSE j
      <3>1. /\ a \in 1 .. Len(queue[u]) /\ queue'[u][i] = queue[u][a]
            /\ b \in 1 .. Len(queue[r]) /\ queue'[r][j] = queue[r][b]
        BY <1>3
      <3>2. u = r /\ a = b
        BY <2>4, <3>1 DEF PlacesInv
      <3>3. i \in Int /\ j \in Int
        OBVIOUS
      <3> QED
        BY <3>2, <3>3
    <2> QED
      BY <2>2, <2>3, <2>4 DEF PlacesInv
  <1>10. m.chunk \notin taken
    BY <1>3, <1>4 DEF PlacesInv
  <1>11. LoopInv'
    BY <1>2, <1>4, <1>8, <1>10 DEF LoopInv
  <1>12. \A x : Ahead(x)' => Ahead(x)
    BY <1>2, <1>5, <1>6, <1>8 DEF Ahead
  <1>13. ASSUME NEW x, Ahead(x), x.noted, EntryOf(x) \notin stale' PROVE Ahead(x)'
    <2>1. CASE x = m
      BY <1>8, <1>13, <2>1 DEF Ahead
    <2>2. CASE loaned # NothingLoaned /\ x = loaned
      BY <1>2, <2>2 DEF Ahead
    <2>3. CASE x # m /\ \E r \in Services : \E i \in 1 .. Len(queue[r]) : queue[r][i] = x
      BY <1>7, <2>3 DEF Ahead
    <2> QED
      BY <1>4, <1>13, <2>1, <2>2, <2>3 DEF Ahead
  <1>14. NotedInv' /\ EchoInv'
    BY <1>2, <1>8, <1>12, AllowedGrows DEF NotedInv, EchoInv
  <1>15. EntriesInv'
    <2>1. ASSUME NEW i \in DOMAIN messagesToForward, messagesToForward[i] \notin stale'
          PROVE  \E x : Ahead(x)' /\ x.noted /\ messagesToForward[i] = EntryOf(x)
      <3>1. messagesToForward[i] \notin stale
        BY <1>8, <2>1
      <3>2. PICK x : Ahead(x) /\ x.noted /\ messagesToForward[i] = EntryOf(x)
        BY <3>1 DEF EntriesInv
      <3> QED
        BY <1>13, <2>1, <3>2
    <2> QED
      BY <1>2, <1>8, <2>1 DEF EntriesInv
  <1> QED
    BY <1>9, <1>11, <1>14, <1>15

\* find and erase: the first entry for the chunk is that of the message, if it
\* was noted, or one left behind; erasing it takes no entry of another message
\* away.
LEMMA FindDeviceForward ==
    ASSUME TypeOK, ForwardInv, FindDevice
    PROVE  ForwardInv'
  <1> USE DEF ForwardInv
  <1> DEFINE E == Entry
             table == messagesToForward
             found == {i \in DOMAIN table : table[i].chunk = hand.message.chunk}
  <1>1. PICK m : m = hand.message
    OBVIOUS
  <1>2. /\ hand.at = "taken" /\ hand \in Hand /\ m \in Message /\ Ahead(m)
        /\ UNCHANGED <<queue, loaned, taken, pending, forwarded>>
        /\ stale' = stale \cup {e \in ToSet(messagesToForward') : e.chunk = m.chunk}
    BY <1>1, HandFields DEF FindDevice, Ahead, publisherVars
  <1>3. PICK d \in Devices \cup {NoDevice} :
            /\ hand' = [hand EXCEPT !.at = "found", !.device = d]
            /\ \/ \E i \in found : /\ \A j \in found : i <= j
                                   /\ d = table[i].device /\ table' = RemoveAt(table, i)
               \/ found = {} /\ table' = table
    BY EntriesType DEF FindDevice
  <1>4. hand'.at = "found" /\ hand'.message = m /\ hand'.device = d
    BY <1>1, <1>2, <1>3 DEF Hand
  <1>5. \A x : Ahead(x)' => Ahead(x) /\ x # m
    <2>1. ASSUME NEW x, Ahead(x)' PROVE Ahead(x) /\ x.chunk # m.chunk
      <3>1. \/ loaned # NothingLoaned /\ x = loaned
            \/ \E s \in Services : \E i \in 1 .. Len(queue[s]) : queue[s][i] = x
        BY <1>2, <1>4, <2>1 DEF Ahead
      <3>2. m.chunk \in taken
        BY <1>1, <1>2 DEF LoopInv
      <3> QED
        BY <3>1, <3>2 DEF Ahead, PlacesInv
    <2> QED
      BY <2>1
  <1>6. \A x : Ahead(x) /\ x # m => Ahead(x)' /\ x.chunk # m.chunk
    <2>1. \A x : Ahead(x) /\ x.chunk = m.chunk => x = m
      BY <1>2, AheadChunks
    <2> QED
      BY <1>1, <1>2, <2>1 DEF Ahead
  <1>7. PlacesInv' /\ EchoInv'
    BY <1>2, AllowedGrows DEF PlacesInv, EchoInv
  <1>8. m.noted => d = m.from \/ \E x \in stale' : x.chunk = m.chunk /\ x.device = d
    <2>1. m.noted => /\ found # {}
                     /\ \A i \in found : table[i] = EntryOf(m) \/ table[i] \in stale
      BY <1>1, <1>2 DEF NotedInv
    <2>2. EntryOf(m).device = m.from
      BY DEF EntryOf
    <2> QED
      BY <1>1, <1>2, <1>3, <2>1, <2>2
  <1>9. LoopInv'
    BY <1>1, <1>2, <1>4, <1>8 DEF LoopInv
  <1>10. table \in Seq(E)
    BY DEF TypeOK
  <1> DEFINE OthersStay ==
               /\ \A i \in DOMAIN table : table[i].chunk # m.chunk =>
                     \E j \in DOMAIN table' : table'[j] = table[i]
               /\ \E f : /\ \A i \in DOMAIN table' :
                               f[i] \in DOMAIN table /\ table'[i] = table[f[i]]
                         /\ \A i, j \in DOMAIN table' : f[i] = f[j] => i = j
  <1>11. OthersStay
    <2> HIDE DEF E
    <2>1. CASE found = {} /\ table' = table
      <3> DEFINE f == [i \in DOMAIN table |-> i]
      <3>1. /\ \A i \in DOMAIN table' : f[i] \in DOMAIN table /\ table'[i] = table[f[i]]
            /\ \A i, j \in DOMAIN table' : f[i] = f[j] => i = j
        BY <2>1
      <3> QED
        BY <1>1, <2>1, <3>1
    <2>2. ASSUME NEW i \in found, table' = RemoveAt(table, i)
          PROVE  OthersStay
      <3>1. i \in 1 .. Len(table) /\ Len(table) \in Nat
        BY <1>10
      <3>2. /\ table' \in Seq(E) /\ Len(table') = Len(table) - 1
            /\ \A j \in 1 .. Len(table) - 1 : table'[j] = table[IF j < i THEN j ELSE j + 1]
        BY <1>10, <2>2, <3>1, RemoveAtProperties
      <3>3. DOMAIN table' = 1 .. Len(table) - 1 /\ DOMAIN table = 1 .. Len(table)
        BY <1>10, <3>1, <3>2
      <3> DEFINE f == [j \in 1 .. Len(table) - 1 |-> IF j < i THEN j ELSE j + 1]
      <3>4. \A j \in 1 .. Len(table) - 1 :
               /\ f[j] \in 1 .. Len(table) /\ f[j] # i
               /\ f[j] = IF j < i THEN j ELSE j + 1
        BY <3>1
      <3>5. \A j, k \in 1 .. Len(table) - 1 : f[j] = f[k] => j = k
        BY <3>1, <3>4
      <3>6. \A k \in 1 .. Len(table) : k # i =>
               \E j \in 1 .. Len(table) - 1 : table'[j] = table[k]
        <4>1. ASSUME NEW k \in 1 .. Len(table), k < i
              PROVE  k \in 1 .. Len(table) - 1 /\ table'[k] = table[k]
          BY <3>1, <3>2, <4>1
        <4>2. ASSUME NEW k \in 1 .. Len(table), k > i
              PROVE  /\ k - 1 \in 1 .. Len(table) - 1 /\ table'[k - 1] = table[k]
          <5>1. k - 1 \in 1 .. Len(table) - 1 /\ ~(k - 1 < i) /\ (k - 1) + 1 = k
            BY <3>1, <4>2
          <5> QED
            BY <3>2, <5>1
        <4>3. \A k \in 1 .. Len(table) : k = i \/ k < i \/ k > i
          BY <3>1
        <4> QED
          BY <4>1, <4>2, <4>3
      <3> HIDE DEF f
      <3>7. \A j \in DOMAIN table' : f[j] \in DOMAIN table /\ table'[j] = table[f[j]] /\ f[j] # i
        BY <3>2, <3>3, <3>4
      <3>8. \A j, k \in DOMAIN table' : f[j] = f[k] => j = k
        BY <3>3, <3>5
      <3>9. \A k \in DOMAIN table : table[k].chunk # m.chunk =>
               \E j \in DOMAIN table' : table'[j] = table[k]
        BY <1>1, <2>2, <3>3, <3>6
      <3> QED
        BY <2>2, <3>7, <3>8, <3>9
    <2> QED
      BY <1>3, <2>1, <2>2
  <1>12. NotedInv'
    <2>1. ASSUME NEW x, Ahead(x), x.noted, x.chunk # m.chunk
          PROVE  /\ x.service \in forwardedServices
                 /\ \E i \in DOMAIN table' : table'[i].chunk = x.chunk
                 /\ \A i \in DOMAIN table' : table'[i].chunk = x.chunk =>
                       table'[i] = EntryOf(x) \/ table'[i] \in stale'
      BY <1>2, <1>11, <2>1 DEF NotedInv
    <2> QED
      BY <1>5, <1>6, <2>1 DEF NotedInv
  <1>13. EntriesInv'
    <2>1. PICK f : /\ \A i \in DOMAIN table' : f[i] \in DOMAIN table /\ table'[i] = table[f[i]]
                   /\ \A i, j \in DOMAIN table' : f[i] = f[j] => i = j
      BY <1>11
    <2>2. ASSUME NEW i \in DOMAIN table', table'[i] \notin stale'
          PROVE  /\ \E x : Ahead(x)' /\ x.noted /\ table'[i] = EntryOf(x)
                 /\ \A j \in DOMAIN table' : table'[j].chunk = table'[i].chunk =>
                       i = j \/ table'[j] \in stale'
      <3>1. table'[i].chunk # m.chunk /\ table'[i] \notin stale
        BY <1>2, <2>2 DEF ToSet
      <3>2. \A j \in DOMAIN table' : table'[j].chunk = table'[i].chunk =>
               f[i] = f[j] \/ table'[j] \in stale
        BY <2>1, <3>1 DEF EntriesInv
      <3>3. PICK x : Ahead(x) /\ x.noted /\ table'[i] = EntryOf(x)
        BY <2>1, <3>1 DEF EntriesInv
      <3>4. Ahead(x)'
        BY <1>6, <3>1, <3>3 DEF EntryOf
      <3> QED
        BY <1>2, <2>1, <3>2, <3>3, <3>4
    <2> QED
      BY <2>2 DEF EntriesInv
  <1> QED
    BY <1>7, <1>9, <1>12, <1>13

\* The list of devices holds only those without a transport in common with the
\* source.
LEMMA ChooseDevicesForward ==
    ASSUME TypeOK, ForwardInv, DmaAlone, ChooseDevices
    PROVE  ForwardInv'
  <1> USE DEF ForwardInv
  <1> DEFINE targets == GenerateDeviceIndicesForwarding(hand.message.service, hand.device)
  <1>1. /\ hand.at = "found" /\ hand \in Hand /\ hand.message \in Message
        /\ UNCHANGED <<queue, loaned, pending, stale, forwarded, messagesToForward>>
    BY HandFields DEF ChooseDevices, publisherVars, historyVars
  <1>2. hand.message.chunk \in taken \ pending
    BY <1>1 DEF LoopInv
  <1>3. EchoInv'
    BY <1>1 DEF EchoInv, Allowed
  <1>4. CASE targets = {}
    <2>1. hand' = Idle /\ taken' = taken \ {hand.message.chunk}
      BY <1>4 DEF ChooseDevices
    <2>2. hand'.at = "waiting"
      BY <2>1 DEF Idle
    <2>3. LoopInv'
      BY <1>1, <1>2, <2>1, <2>2 DEF LoopInv
    <2>4. PlacesInv' /\ NotedInv' /\ EntriesInv'
      BY <1>1, <2>1, <2>2, LoopFrame
    <2> QED
      BY <1>3, <2>3, <2>4
  <1>5. CASE targets # {}
    <2>1. PICK list \in SetToSeqs(targets) :
              hand' = [hand EXCEPT !.at = "sending", !.targets = list]
      BY <1>5 DEF ChooseDevices
    <2>2. taken' = taken
      BY <1>5 DEF ChooseDevices
    <2>3. /\ hand'.at = "sending" /\ hand'.message = hand.message /\ hand'.targets = list
      BY <1>1, <2>1 DEF Hand
    <2>4. /\ targets \in SUBSET Devices /\ hand.device \in Devices
          /\ \A e \in targets : ~Share(hand.device, e) /\ hand.message.service \in Wants(e)
      BY <1>5 DEF GenerateDeviceIndicesForwarding, TypeOK
    <2>5. IsFiniteSet(targets)
      BY <2>4, ForwarderAssumption, FS_Subset
    <2> HIDE DEF targets
    <2>6. /\ list \in Seq(targets) /\ list # <<>> /\ Len(list) \in Nat \ {0}
          /\ \A i, j \in 1 .. Len(list) : i # j => list[i] # list[j]
      BY <1>5, <2>1, <2>5, SetToSeqsProperties
    <2>7. \A i \in 1 .. Len(list) : list[i] \in targets
      BY <2>6
    <2>8. ASSUME NEW i \in 1 .. Len(list), list[i] \in DmaDevices PROVE Len(list) = 1
      <3>1. \A j \in 1 .. Len(list) : list[j] = list[i]
        BY <2>4, <2>7, <2>8 DEF DmaAlone
      <3>2. \A j \in 1 .. Len(list) : j = i
        BY <2>6, <3>1
      <3>3. 1 \in 1 .. Len(list) /\ Len(list) \in 1 .. Len(list)
        BY <2>6
      <3> QED
        BY <3>2, <3>3
    <2>9. hand.message.noted =>
             \/ hand.device = hand.message.from
             \/ \E x \in stale : x.chunk = hand.message.chunk /\ x.device = hand.device
      BY <1>1 DEF LoopInv
    <2>10. \A i \in 1 .. Len(list) : Allowed(hand.message, list[i])
      BY <2>4, <2>7, <2>9 DEF Allowed
    <2>11. LoopInv'
      BY <1>1, <1>2, <2>2, <2>3, <2>6, <2>8, <2>10 DEF LoopInv, Allowed
    <2>12. PlacesInv' /\ NotedInv' /\ EntriesInv'
      BY <1>1, <2>2, <2>3, LoopFrame
    <2> QED
      BY <1>3, <2>11, <2>12
  <1> QED
    BY <1>4, <1>5

\* writeSegmented sends to the next device, or gives up.
LEMMA SendForward ==
    ASSUME TypeOK, ForwardInv, SendDirectly \/ SendPending \/ SendFails \/ DiscardMessage
    PROVE  ForwardInv'
  <1> USE DEF ForwardInv
  <1> DEFINE c == hand.message.chunk
  <1>1. hand.at = "sending" /\ UNCHANGED <<queue, loaned, stale, messagesToForward>>
    BY DEF SendDirectly, SendPending, SendFails, DiscardMessage, publisherVars
  <1>2. /\ hand.message \in Message /\ hand.targets \in Seq(Devices) /\ hand.targets # <<>>
        /\ c \notin pending
    BY <1>1, HandFields DEF LoopInv
  <1>3. /\ Len(hand.targets) \in Nat \ {0} /\ Head(hand.targets) = hand.targets[1]
        /\ Len(Tail(hand.targets)) = Len(hand.targets) - 1
        /\ \A i \in 1 .. Len(hand.targets) - 1 : Tail(hand.targets)[i] = hand.targets[i + 1]
    BY <1>2
  <1>4. 1 \in 1 .. Len(hand.targets)
    BY <1>3
  <1>5. /\ Head(hand.targets) \in DmaDevices => Len(hand.targets) = 1 /\ c \in taken
        /\ Allowed(hand.message, Head(hand.targets))
    BY <1>1, <1>3, <1>4 DEF LoopInv
  <1>6. \/ hand'.at = "waiting"
        \/ /\ hand'.at = "sending" /\ hand'.message = hand.message
           /\ hand'.targets = Tail(hand.targets) /\ Len(hand.targets) > 1
           /\ SendDirectly \/ SendFails
    <2>1. hand' = Idle \/ (hand' = NextDevice /\ Len(hand.targets) # 1)
      BY DEF SendDirectly, SendPending, SendFails, DiscardMessage, NextDevice
    <2>2. Idle.at = "waiting"
      BY DEF Idle
    <2>3. Len(hand.targets) # 1 => SendDirectly \/ SendFails \/ DiscardMessage
      BY <1>5 DEF SendPending
    <2>4. DiscardMessage => hand' = Idle
      BY DEF DiscardMessage
    <2> QED
      BY <1>1, <1>2, <2>1, <2>2, <2>3, <2>4, NextDeviceType
  <1>7. \A f \in forwarded' : f \in forwarded \/ f = <<hand.message, Head(hand.targets)>>
    BY DEF SendDirectly, SendPending, SendFails, DiscardMessage, Sent
  <1>8. EchoInv'
    BY <1>1, <1>5, <1>7 DEF EchoInv, Allowed
  <1>9. taken' \subseteq taken /\ pending' \subseteq taken'
    BY <1>2, <1>5 DEF SendDirectly, SendPending, SendFails, DiscardMessage, LoopInv
  <1>10. SendDirectly \/ SendFails => pending' = pending
    BY DEF SendDirectly, SendFails
  <1>11. LoopInv'
    <2>1. CASE hand'.at = "waiting"
      BY <1>9, <2>1 DEF LoopInv
    <2>2. CASE /\ hand'.at = "sending" /\ hand'.message = hand.message
               /\ hand'.targets = Tail(hand.targets) /\ Len(hand.targets) > 1
               /\ SendDirectly \/ SendFails
      <3>1. /\ Len(hand'.targets) = Len(hand.targets) - 1 /\ Len(hand'.targets) > 0
            /\ \A i \in 1 .. Len(hand'.targets) :
                  i + 1 \in 1 .. Len(hand.targets) /\ hand'.targets[i] = hand.targets[i + 1]
        BY <1>3, <2>2
      <3>2. \A i \in 1 .. Len(hand.targets) :
               /\ hand.targets[i] \notin DmaDevices
               /\ Allowed(hand.message, hand.targets[i])
        <4>1. Len(hand.targets) # 1
          <5>1. \A n \in Nat \ {0} : n > 1 => n # 1
            OBVIOUS
          <5> QED
            BY <1>3, <2>2, <5>1
        <4> QED
          BY <1>1, <4>1 DEF LoopInv
      <3>3. hand'.targets # <<>>
        BY <3>1
      <3>4. hand'.message.chunk \notin pending'
        BY <1>2, <1>10, <2>2
      <3> QED
        BY <1>1, <1>9, <2>2, <3>1, <3>2, <3>3, <3>4 DEF LoopInv, Allowed
    <2> QED
      BY <1>6, <2>1, <2>2
  <1>12. PlacesInv' /\ NotedInv' /\ EntriesInv'
    BY <1>1, <1>6, <1>9, LoopFrame
  <1> QED
    BY <1>8, <1>11, <1>12

\* The callback of a transport releases the chunk of a pending message, which
\* is not that of the message the loop works on.
LEMMA BufferSentForward ==
    ASSUME TypeOK, ForwardInv, NEW c \in Chunks, BufferSent(c)
    PROVE  ForwardInv'
  <1> USE DEF ForwardInv
  <1>1. /\ c \in pending /\ pending' = pending \ {c} /\ taken' = taken \ {c}
        /\ UNCHANGED <<queue, loaned, stale, messagesToForward, hand, forwarded>>
    BY DEF BufferSent, publisherVars, historyVars
  <1>2. LoopInv' /\ EchoInv'
    BY <1>1 DEF LoopInv, EchoInv, Allowed
  <1>3. PlacesInv' /\ NotedInv' /\ EntriesInv'
    BY <1>1, LoopFrame
  <1> QED
    BY <1>2, <1>3

LEMMA ForwardNext ==
    ASSUME DmaAlone, TypeOK, ForwardInv, [Next]_vars
    PROVE  ForwardInv'
  <1>1. ASSUME \/ \E s \in Services : Subscribe(s)
               \/ \E d \in Devices : ChangeRecords(d)
               \/ UNCHANGED vars
        PROVE  ForwardInv'
    <2>1. UNCHANGED <<messagesToForward, loaned, queue, hand, taken, pending, stale, forwarded>>
      BY <1>1 DEF Subscribe, ChangeRecords, vars, loopVars
    <2>2. PlacesInv' /\ NotedInv' /\ EntriesInv'
      BY <2>1, LoopFrame DEF ForwardInv
    <2> QED
      BY <2>1, <2>2 DEF ForwardInv, LoopInv, EchoInv, Allowed
  <1> QED
    BY <1>1, ReceiveMessageForward, PublishForward, TakeForward, FindDeviceForward,
       ChooseDevicesForward, SendForward, BufferSentForward
       DEF Next, LoopStep

\* The types are kept together with ForwardInv, which says that a list of
\* devices that is being sent to is not empty.
LEMMA InvariantsHold ==
    ASSUME DmaAlone
    PROVE  Spec => [](TypeOK /\ ForwardInv)
  <1>1. TypeOK /\ ForwardInv /\ [Next]_vars => (TypeOK /\ ForwardInv)'
    BY ForwardNext, TypeNext DEF ForwardInv, LoopInv
  <1> QED
    BY <1>1, TypeInit, ForwardInit, PTL DEF Spec

\* A noted message is forwarded to a device that shares a transport with its
\* source, and so has got it already, only when an entry was left behind under
\* its payload address, of a device without a transport in common with the
\* target; however other addresses are used again, sends fail, messages are
\* lost, records change and tables and queues fill up.
THEOREM EchoesNeedStaleEntries ==
    ASSUME DmaAlone
    PROVE  Spec => []EchoNeedsStale
  <1>1. ForwardInv => EchoNeedsStale
    BY DEF ForwardInv, EchoInv, Allowed, EchoNeedsStale
  <1> QED
    BY <1>1, InvariantsHold, PTL

\* An entry of m_messagesToForward names the device of the one message under
\* its address that is still to be looked up, unless it was left behind.
THEOREM EntriesAreLookedUp ==
    ASSUME DmaAlone
    PROVE  Spec => []EntriesHaveMessages
  <1>1. ASSUME TypeOK, ForwardInv PROVE EntriesHaveMessages
    <2> DEFINE ahead == {loaned} \cup (UNION {ToSet(queue[s]) : s \in Services})
                           \cup (IF hand.at = "taken" THEN {hand.message} ELSE {})
    <2>1. ASSUME NEW m, Ahead(m) PROVE m \in ahead \ {NothingLoaned}
      <3>1. m \in Message
        BY <1>1, <2>1, AheadChunks DEF ForwardInv
      <3>2. m # NothingLoaned
        BY <3>1, MessagesAreLoaned
      <3>3. \A s \in Services : \A i \in 1 .. Len(queue[s]) : queue[s][i] \in ToSet(queue[s])
        BY <1>1 DEF TypeOK, ToSet
      <3> QED
        BY <2>1, <3>2, <3>3 DEF Ahead
    <2>2. EntriesInv
      BY <1>1 DEF ForwardInv
    <2> HIDE DEF ahead
    <2>3. \A i \in DOMAIN messagesToForward : messagesToForward[i] \notin stale =>
             /\ \E m \in ahead \ {NothingLoaned} :
                   /\ m.chunk = messagesToForward[i].chunk
                   /\ m.from = messagesToForward[i].device
             /\ \A j \in DOMAIN messagesToForward :
                   j # i /\ messagesToForward[j].chunk = messagesToForward[i].chunk =>
                       messagesToForward[j] \in stale
      BY <2>1, <2>2 DEF EntriesInv, EntryOf
    <2> QED
      BY <2>3 DEF EntriesHaveMessages, ahead
  <1> QED
    BY <1>1, InvariantsHold, PTL
=============================================================================
