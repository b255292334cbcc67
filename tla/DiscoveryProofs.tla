-------------------------- MODULE DiscoveryProofs ---------------------------
(***************************************************************************)
(* Theorems about Discovery, for every number of nodes, services,          *)
(* transport types and restarts.                                           *)
(***************************************************************************)
EXTENDS Discovery, FiniteSetTheorems, SequenceTheorems, TLAPS

-----------------------------------------------------------------------------
(***************************************************************************)
(* Serialization.                                                          *)
(***************************************************************************)

\* What is on its way between two gateways that send infos of a set I.
Wire(I) == {Serialize(info) : info \in I}
Datagrams(I) == [from : Nodes, to : Nodes, type : Lossy, data : Wire(I)]
Pipes == (Types \ Lossy) \X Nodes \X Nodes

\* The sequence of a set has each of its elements.
LEMMA SetToSeqProperties ==
    ASSUME NEW S, IsFiniteSet(S)
    PROVE  /\ Cardinality(S) \in Nat
           /\ SetToSeq(S) \in [1 .. Cardinality(S) -> S]
           /\ S = {SetToSeq(S)[i] : i \in 1 .. Cardinality(S)}
  <1> DEFINE c == Cardinality(S)
  <1>1. c \in Nat /\ ExistsBijection(1 .. c, S)
    BY FS_CardinalityType
  <1>2. PICK g \in [1 .. c -> S] : IsInjective(g)
    <2>1. PICK g : g \in Bijection(1 .. c, S)
      BY <1>1 DEF ExistsBijection
    <2>2. g \in [1 .. c -> S] /\ IsInjective(g)
      BY <2>1 DEF Bijection, Injection, IsInjective
    <2> QED
      BY <2>2
  <1>3. SetToSeq(S) \in [1 .. c -> S] /\ IsInjective(SetToSeq(S))
    BY <1>2 DEF SetToSeq
  <1>4. IsFiniteSet(1 .. c) /\ Cardinality(1 .. c) = c
    BY <1>1, FS_Interval
  <1>5. SetToSeq(S) \in Injection(1 .. c, S)
    BY <1>3 DEF Injection
  <1>6. SetToSeq(S) \in Surjection(1 .. c, S)
    BY <1>4, <1>5, FS_Injection
  <1>7. \A x \in S : \E i \in 1 .. c : SetToSeq(S)[i] = x
    BY <1>6 DEF Surjection
  <1> QED
    BY <1>1, <1>3, <1>7

\* RoundTrip: deserialize gives back what serialize was given.
LEMMA RoundTrip ==
    ASSUME NEW info \in Info
    PROVE  Deserialize(Serialize(info)) = info
  <1> DEFINE S == info.userSubscribers
             c == Cardinality(S)
             f == SetToSeq(S)
             w == Serialize(info)
  <1>1. /\ info.userSubscribers \subseteq Services /\ IsFiniteSet(S)
    <2>1. S \in SUBSET Services
      BY DEF Info
    <2> QED
      BY <2>1, FS_Subset, DiscoveryAssumption
  <1>2. c \in Nat /\ f \in [1 .. c -> S] /\ S = {f[i] : i \in 1 .. c}
    BY <1>1, SetToSeqProperties
  <1> DEFINE rest == <<info.gatewayBitset, info.gatewayHash, info.isTermination>>
             T == {c} \cup S \cup {info.gatewayBitset, info.gatewayHash, info.isTermination}
  <1>3. f \in Seq(T) /\ Len(f) = c
    BY <1>2
  <1>4. /\ <<c>> \in Seq(T) /\ Len(<<c>>) = 1 /\ <<c>>[1] = c
    OBVIOUS
  <1>5. /\ rest \in Seq(T) /\ Len(rest) = 3 /\ rest[1] = info.gatewayBitset
        /\ rest[2] = info.gatewayHash /\ rest[3] = info.isTermination
    OBVIOUS
  <1> HIDE DEF rest
  <1>6. w = (<<c>> \o f) \o rest
    BY DEF Serialize, rest
  <1>7. /\ <<c>> \o f \in Seq(T) /\ Len(<<c>> \o f) = 1 + c
        /\ (<<c>> \o f)[1] = c
        /\ \A i \in 1 .. c : (<<c>> \o f)[1 + i] = f[i]
    <2> HIDE DEF c, f, T
    <2>1. DOMAIN <<c>> = 1 .. 1
      OBVIOUS
    <2> QED
      BY <1>2, <1>3, <1>4, ConcatProperties
  <1>8. /\ w[1] = c
        /\ \A i \in 1 .. c : w[1 + i] = f[i]
        /\ w[1 + c + 1] = rest[1] /\ w[1 + c + 2] = rest[2] /\ w[1 + c + 3] = rest[3]
    <2> DEFINE q == <<c>> \o f
    <2> HIDE DEF c, f, T, q, w
    <2>1. w = q \o rest /\ q \in Seq(T) /\ Len(q) = 1 + c
      BY <1>6, <1>7 DEF q
    <2>2. \A i \in 1 .. Len(q) + Len(rest) :
             w[i] = IF i <= Len(q) THEN q[i] ELSE rest[i - Len(q)]
      BY <2>1, <1>5, ConcatProperties
    <2>3. \A i \in 1 .. 1 + c : w[i] = q[i]
      BY <2>1, <2>2, <1>2, <1>5
    <2>4. ASSUME NEW j \in 1 .. 3 PROVE w[1 + c + j] = rest[j]
      <3>1. PICK p : p = 1 + c + j
        OBVIOUS
      <3>2. p \in 1 .. Len(q) + Len(rest) /\ ~(p <= Len(q)) /\ p - Len(q) = j
        BY <3>1, <2>1, <1>2, <1>5
      <3>3. w[p] = rest[j]
        BY <3>2, <2>2, Zenon
      <3> QED
        BY <3>1, <3>3
    <2>5. q[1] = c /\ \A i \in 1 .. c : q[1 + i] = f[i]
      BY <1>7 DEF q
    <2>6. 1 \in 1 .. 1 + c /\ \A i \in 1 .. c : 1 + i \in 1 .. 1 + c
      BY <1>2
    <2>7. 1 \in 1 .. 3 /\ 2 \in 1 .. 3 /\ 3 \in 1 .. 3
      OBVIOUS
    <2> QED
      BY <2>3, <2>4, <2>5, <2>6, <2>7
  <1> DEFINE end == 1 + w[1]
  <1>9. {w[i] : i \in 2 .. end} = S
    <2> HIDE DEF w, f, c, S
    <2>a. end = 1 + c /\ c \in Nat
      BY <1>8, <1>2
    <2> HIDE DEF end
    <2>1. ASSUME NEW i \in 2 .. end PROVE i - 1 \in 1 .. c /\ w[i] = f[i - 1]
      <3>1. i - 1 \in 1 .. c /\ 1 + (i - 1) = i
        BY <2>a
      <3> QED
        BY <3>1, <1>8
    <2>2. ASSUME NEW i \in 1 .. c PROVE 1 + i \in 2 .. end /\ w[1 + i] = f[i]
      <3>1. 1 + i \in 2 .. end
        BY <2>a
      <3> QED
        BY <3>1, <1>8
    <2>3. \A i \in 2 .. end : w[i] \in S
      BY <2>1, <1>2
    <2>4. \A x \in S : \E i \in 2 .. end : w[i] = x
      BY <2>2, <1>2
    <2> QED
      BY <2>3, <2>4
  <1>10. /\ w[end + 1] = info.gatewayBitset /\ w[end + 2] = info.gatewayHash
         /\ w[end + 3] = info.isTermination
    <2> HIDE DEF w, f, c, S
    <2> QED
      BY <1>8, <1>5
  <1>11. Deserialize(w) =
            [userSubscribers |-> S, gatewayBitset |-> info.gatewayBitset,
             gatewayHash |-> info.gatewayHash, isTermination |-> info.isTermination]
    <2> HIDE DEF w, S
    <2> QED
      BY <1>9, <1>10 DEF Deserialize
  <1>12. info = [gatewayHash |-> info.gatewayHash, userSubscribers |-> info.userSubscribers,
                 gatewayBitset |-> info.gatewayBitset, isTermination |-> info.isTermination]
    BY DEF Info
  <1> QED
    BY <1>11, <1>12

LEMMA WireInfo ==
    ASSUME NEW I \in SUBSET Info, NEW d \in Wire(I)
    PROVE  Deserialize(d) \in I
  BY RoundTrip DEF Wire

-----------------------------------------------------------------------------
(***************************************************************************)
(* Types.                                                                  *)
(***************************************************************************)
Tasks == [stage : Stages, needed : SUBSET Services]

UserType ==
    /\ ports \in [Nodes -> Ports] /\ changed \in [Nodes -> BOOLEAN]
    /\ changes \in 0 .. MaxChanges

GatewayType ==
    /\ phase \in [Nodes -> Phases] /\ epoch \in [Nodes -> 0 .. MaxEpoch]
    /\ local \in [Nodes -> Ports] /\ lastSent \in [Nodes -> SUBSET Services]
    /\ registered \in [Nodes -> Ports] /\ loanFailed \in [Nodes -> BOOLEAN]

ChannelType == tr2iox \in [Nodes -> SUBSET Services] /\ iox2tr \in [Nodes -> SUBSET Services]

TaskType == task \in [Nodes -> [ThreadsOf -> Tasks]]

\* The vector of records stays within its capacity.
RecordsType ==
    /\ records \in [Nodes -> Seq(DeviceRecord)]
    /\ \A n \in Nodes : Len(records[n]) <= MAX_DEVICE_COUNT

CacheType ==
    /\ DOMAIN cache = Nodes
    /\ \A n \in Nodes : /\ DOMAIN cache[n] \subseteq Services
                        /\ \A s \in DOMAIN cache[n] : Range(cache[n][s]) \subseteq DeviceIndex

TransportType ==
    /\ status \in [Nodes -> [Types -> Statuses]]
    /\ bitset \in [Nodes -> SUBSET Types]
    /\ handling \in [Nodes -> [Types -> {"none", "disable", "callback"}]]

\* Whatever is on its way is one of these infos, serialized.
NetOf(I) == net \subseteq Datagrams(I) /\ pipe \in [Pipes -> Seq(Wire(I))]

NetType == NetOf(Info)

\* TypeInv: the inductive strengthening of TypeOK.
TypeInv ==
    /\ UserType /\ GatewayType /\ ChannelType /\ TaskType
    /\ RecordsType /\ CacheType /\ TransportType /\ NetType

LEMMA EmptyCacheType == DOMAIN EmptyCache = {}
  BY DEF EmptyCache

LEMMA InfoType ==
    ASSUME GatewayType, NEW n \in Nodes, NEW types \in SUBSET Types, NEW b \in BOOLEAN
    PROVE  DiscoveryInfo(n, types, b) \in Info
  <1>1. Hash(n) \in GatewayHashes
    BY DEF Hash, GatewayHashes, GatewayType
  <1>2. local[n].subscribers \in SUBSET Services
    BY DEF GatewayType, Ports
  <1> QED
    BY <1>1, <1>2, Zenon DEF DiscoveryInfo, Info

LEMMA BroadcastType ==
    ASSUME DOMAIN pipe = Pipes, NEW n \in Nodes, NEW types \in SUBSET Types,
           NEW I \in SUBSET Info, NEW infos \in Seq(I), NEW datagrams \in SUBSET Datagrams(I),
           NEW messages \in [Pipes -> Seq(Wire(I))],
           Broadcast(n, types, infos, datagrams, messages)
    PROVE  NetOf(I)'
  <1> DEFINE bytes == [i \in DOMAIN infos |-> Serialize(infos[i])]
  <1>1. bytes \in Seq(Wire(I))
    <2>1. \A i \in 1 .. Len(infos) : Serialize(infos[i]) \in Wire(I)
      BY DEF Wire
    <2> QED
      BY <2>1
  <1>2. /\ net' = datagrams \cup [from : {n}, to : Nodes \ {n}, type : types \cap Lossy,
                                  data : ToSet(bytes)]
        /\ pipe' = [k \in DOMAIN pipe |->
              IF k[1] \in types /\ k[2] = n /\ k[3] # n /\ Up(k[3])
              THEN messages[k] \o bytes ELSE messages[k]]
    BY DEF Broadcast
  <1>3. ToSet(bytes) \subseteq Wire(I)
    BY <1>1 DEF ToSet
  <1> HIDE DEF bytes
  <1>4. net' \subseteq Datagrams(I)
    BY <1>2, <1>3 DEF Datagrams
  <1>5. pipe' \in [Pipes -> Seq(Wire(I))]
    <2>1. \A k \in Pipes : messages[k] \in Seq(Wire(I)) /\ messages[k] \o bytes \in Seq(Wire(I))
      BY <1>1
    <2> QED
      BY <2>1, <1>2
  <1> QED
    BY <1>4, <1>5 DEF NetOf

\* sendDiscoveryInfo: with no failed transport nothing changes but the network.
LEMMA SendType ==
    ASSUME TypeInv, NEW n \in Nodes, NEW I \in SUBSET Info, NEW info \in I,
           \A types \in SUBSET Types : DiscoveryInfo(n, types, FALSE) \in I,
           NEW datagrams \in SUBSET Datagrams(I), NEW messages \in [Pipes -> Seq(Wire(I))],
           SendDiscoveryInfo(n, info, datagrams, messages)
    PROVE  /\ NetOf(I)' /\ status' \in [Nodes -> [Types -> Statuses]]
           /\ bitset' \in [Nodes -> SUBSET Types]
           /\ \A m \in Nodes : m # n \/ Failed(n) = {} =>
                 status'[m] = status[m] /\ bitset'[m] = bitset[m]
  <1> DEFINE remaining == bitset[n] \ Failed(n)
             second == DiscoveryInfo(n, remaining, FALSE)
             infos == IF Failed(n) = {} \/ TerminateFlag(n) THEN <<info>> ELSE <<info, second>>
             st == [ty \in Types |-> IF ty \in Failed(n) THEN "DISABLED" ELSE status[n][ty]]
  <1>1. /\ status' = [status EXCEPT ![n] = st] /\ bitset' = [bitset EXCEPT ![n] = remaining]
        /\ Broadcast(n, Good(n), infos, datagrams, messages)
    BY DEF SendDiscoveryInfo
  <1>2. remaining \in SUBSET Types /\ Good(n) \in SUBSET Types
    BY DiscoveryAssumption DEF TypeInv, TransportType, Good
  <1>3. second \in I
    BY <1>2
  <1> HIDE DEF second
  <1>4. infos \in Seq(I)
    BY <1>3
  <1>5. NetOf(I)'
    BY <1>1, <1>2, <1>4, BroadcastType DEF TypeInv, NetType, NetOf
  <1>6. st \in [Types -> Statuses] /\ (Failed(n) = {} => st = status[n])
    BY DEF TypeInv, TransportType, Statuses
  <1> HIDE DEF st, infos
  <1>7. status' \in [Nodes -> [Types -> Statuses]] /\ bitset' \in [Nodes -> SUBSET Types]
    BY <1>1, <1>2, <1>6 DEF TypeInv, TransportType
  <1>8. \A m \in Nodes : m # n \/ Failed(n) = {} =>
           status'[m] = status[m] /\ bitset'[m] = bitset[m]
    BY <1>1, <1>6 DEF TypeInv, TransportType
  <1> QED
    BY <1>5, <1>7, <1>8

LEMMA SendTypeOfAll ==
    ASSUME TypeInv, NEW n \in Nodes, NEW info \in Info,
           NEW datagrams \in SUBSET Datagrams(Info),
           NEW messages \in [Pipes -> Seq(Wire(Info))],
           SendDiscoveryInfo(n, info, datagrams, messages)
    PROVE  /\ NetType' /\ status' \in [Nodes -> [Types -> Statuses]]
           /\ bitset' \in [Nodes -> SUBSET Types]
  <1>1. \A types \in SUBSET Types : DiscoveryInfo(n, types, FALSE) \in Info
    BY InfoType DEF TypeInv
  <1> QED
    BY <1>1, SendType DEF NetType

LEMMA RecordFields ==
    ASSUME NEW r \in DeviceRecord
    PROVE  r.info \in Info /\ r.deviceIndices \in SUBSET DeviceIndex
  BY DEF DeviceRecord

\* pushUnique adds nothing but what it is given.
LEMMA PushUniqueType ==
    ASSUME NEW kept \in SUBSET Services, NEW more \in SUBSET Services
    PROVE  PushUnique(kept, more) \in SUBSET Services
  <1>1. more \ kept \in SUBSET Services
    OBVIOUS
  <1>2. IsFiniteSet(more \ kept)
    BY <1>1, FS_Subset, DiscoveryAssumption
  <1>3. SetToSeq(more \ kept) \in [1 .. Cardinality(more \ kept) -> more \ kept]
    BY <1>2, SetToSeqProperties
  <1> QED
    BY <1>1, <1>3 DEF PushUnique

LEMMA NeededType ==
    ASSUME NEW own \in Ports, NEW recs \in Seq(DeviceRecord)
    PROVE  NeededServices(own, recs) \in SUBSET Services
  <1>1. \A r \in ToSet(recs) : r.info.userSubscribers \in SUBSET Services
    <2>1. \A r \in ToSet(recs) : r \in DeviceRecord
      BY DEF ToSet
    <2>2. \A i \in Info : i.userSubscribers \in SUBSET Services
      BY DEF Info
    <2> QED
      BY <2>1, <2>2, RecordFields
  <1>2. own.publishers \in SUBSET Services /\ own.subscribers \in SUBSET Services
    BY DEF Ports
  <1>3. UNION {r.info.userSubscribers : r \in ToSet(recs)} \in SUBSET Services
    BY <1>1
  <1> QED
    BY <1>2, <1>3, PushUniqueType DEF NeededServices

LEMMA IdleTaskType == IdleTask \in Tasks /\ \A k : AfterUpdate(k) \in Tasks
  BY DEF IdleTask, AfterUpdate, Tasks, Stages

LEMMA NoPortsType == NoPorts \in Ports
  BY DEF NoPorts, Ports

\* What a transport thread receives was on its way, and the rest still is.
LEMMA ArrivalType ==
    ASSUME NEW I \in SUBSET Info, NetOf(I), NEW n \in Nodes, NEW ty \in Types,
           NEW from \in Nodes, NEW msg \in Arrivals(n, ty, from)
    PROVE  /\ msg.info \in I /\ msg.net \in SUBSET Datagrams(I)
           /\ msg.pipe \in [Pipes -> Seq(Wire(I))]
  <1> USE DEF NetOf
  <1>1. CASE ty \in Lossy
    <2>1. PICK m \in net :
             msg = [info |-> Deserialize(m.data), net |-> net \ {m}, pipe |-> pipe]
      BY <1>1 DEF Arrivals
    <2>2. m.data \in Wire(I)
      BY DEF Datagrams
    <2>3. Deserialize(m.data) \in I
      BY <2>2, WireInfo
    <2> QED
      BY <2>1, <2>3
  <1>2. CASE ty \notin Lossy
    <2> DEFINE k == <<ty, from, n>>
    <2>1. /\ pipe[k] # <<>>
          /\ msg = [info |-> Deserialize(Head(pipe[k])), net |-> net,
                    pipe |-> [pipe EXCEPT ![k] = Tail(@)]]
      BY <1>2 DEF Arrivals
    <2>2. k \in Pipes
      BY <1>2 DEF Pipes
    <2> HIDE DEF k
    <2>3. Head(pipe[k]) \in Wire(I) /\ Tail(pipe[k]) \in Seq(Wire(I))
      BY <2>1, <2>2
    <2>4. Deserialize(Head(pipe[k])) \in I
      BY <2>3, WireInfo
    <2> QED
      BY <2>1, <2>2, <2>3, <2>4
  <1> QED
    BY <1>1, <1>2

LEMMA StoreIndexType ==
    ASSUME NEW indices \in SUBSET DeviceIndex, NEW index \in DeviceIndex
    PROVE  StoreIndex(indices, index) \in SUBSET DeviceIndex
  BY DEF StoreIndex

LEMMA RecordType ==
    ASSUME NEW info \in Info, NEW indices \in SUBSET DeviceIndex
    PROVE  [info |-> info, deviceIndices |-> indices] \in DeviceRecord
  BY DEF DeviceRecord

LEMMA SenderIndex ==
    ASSUME NEW info \in Info, NEW ty \in Types
    PROVE  <<ty, info.gatewayHash[1]>> \in DeviceIndex
  <1>1. info.gatewayHash \in GatewayHashes
    BY DEF Info
  <1> QED
    BY <1>1 DEF GatewayHashes, DeviceIndex

\* The records after the news of a gateway that had none.
LEMMA RecordsWithNewType ==
    ASSUME RecordsType, NEW n \in Nodes, NEW info \in Info, NEW index \in DeviceIndex
    PROVE  /\ RecordsWithNew(n, info, index) \in Seq(DeviceRecord)
           /\ Len(RecordsWithNew(n, info, index)) <= MAX_DEVICE_COUNT
  <1>1. records[n] \in Seq(DeviceRecord) /\ Len(records[n]) <= MAX_DEVICE_COUNT
    BY DEF RecordsType
  <1>2. MAX_DEVICE_COUNT \in Nat \ {0}
    BY DiscoveryAssumption
  <1>3. CASE Len(records[n]) < MAX_DEVICE_COUNT
    <2> DEFINE r == [info |-> info, deviceIndices |-> {index}]
    <2>1. r \in DeviceRecord
      BY RecordType
    <2>2. RecordsWithNew(n, info, index) = Append(records[n], r)
      BY <1>3 DEF RecordsWithNew
    <2> HIDE DEF r
    <2> QED
      BY <1>1, <1>2, <1>3, <2>1, <2>2
  <1>4. CASE ~(Len(records[n]) < MAX_DEVICE_COUNT)
    <2>1. Len(records[n]) = MAX_DEVICE_COUNT /\ MAX_DEVICE_COUNT \in 1 .. Len(records[n])
      BY <1>1, <1>2, <1>4
    <2> DEFINE i == MAX_DEVICE_COUNT
               r == [info |-> info,
                     deviceIndices |-> StoreIndex(records[n][i].deviceIndices, index)]
    <2>2. records[n][i].deviceIndices \in SUBSET DeviceIndex
      BY <1>1, <2>1, RecordFields
    <2>3. r \in DeviceRecord
      BY <2>2, StoreIndexType, RecordType
    <2>4. RecordsWithNew(n, info, index) = [records[n] EXCEPT ![i] = r]
      BY <1>4 DEF RecordsWithNew
    <2> HIDE DEF r
    <2> QED
      BY <1>1, <2>1, <2>3, <2>4
  <1> QED
    BY <1>3, <1>4

\* Erasing a record keeps the others, in order.
LEMMA Erased ==
    ASSUME NEW S, NEW q \in Seq(S), NEW j \in 1 .. Len(q)
    PROVE  /\ RemoveAt(q, j) \in Seq(S) /\ Len(RemoveAt(q, j)) = Len(q) - 1
           /\ \A i \in 1 .. Len(q) - 1 :
                 RemoveAt(q, j)[i] = IF i < j THEN q[i] ELSE q[i + 1]
  <1> DEFINE a == SubSeq(q, 1, j - 1)
             b == SubSeq(q, j + 1, Len(q))
  <1>1. Len(q) \in Nat /\ j \in Nat /\ j > 0 /\ j <= Len(q)
    OBVIOUS
  <1>2. /\ a \in Seq(S) /\ Len(a) = j - 1 /\ \A i \in 1 .. j - 1 : a[i] = q[i]
    BY <1>1
  <1>3. b \in Seq(S) /\ Len(b) = Len(q) - j /\ \A i \in 1 .. Len(q) - j : b[i] = q[j + i]
    BY <1>1
  <1>4. RemoveAt(q, j) = a \o b
    BY DEF RemoveAt
  <1> HIDE DEF a, b
  <1>5. /\ a \o b \in Seq(S) /\ Len(a \o b) = Len(q) - 1
        /\ \A i \in 1 .. Len(q) - 1 : (a \o b)[i] = IF i < j THEN a[i] ELSE b[i - (j - 1)]
    BY <1>1, <1>2, <1>3
  <1>6. \A i \in 1 .. Len(q) - 1 : ~(i < j) => b[i - (j - 1)] = q[i + 1]
    BY <1>1, <1>3
  <1>7. \A i \in 1 .. Len(q) - 1 : i < j => a[i] = q[i]
    BY <1>1, <1>2
  <1> QED
    BY <1>4, <1>5, <1>6, <1>7

-----------------------------------------------------------------------------
(***************************************************************************)
(* computeDeviceIndices as a function of what it reads.                    *)
(***************************************************************************)
TypeToUse(n, st, bits, remoteBitset) ==
    IF PreferredType[n] \in remoteBitset \cap bits
    THEN PreferredType[n]
    ELSE LET good == {ty \in EnabledTypes[n] : st[ty] = "GOOD"}
             matching == {i \in DOMAIN TypeOrder : TypeOrder[i] \in good \cap remoteBitset}
         IN  IF matching = {} THEN NoType ELSE TypeOrder[Min(matching)]

Usable(n, st, bits, r) ==
    {i \in r.deviceIndices : i[1] = TypeToUse(n, st, bits, r.info.gatewayBitset)}

Reached(n, st, bits, s, r) == s \in r.info.userSubscribers /\ Usable(n, st, bits, r) # {}

Route(n, st, bits, r) == CHOOSE i \in Usable(n, st, bits, r) : TRUE

Routes(n, st, bits, recs, s) ==
    [k \in {k \in DOMAIN recs : Reached(n, st, bits, s, recs[k])} |->
        Route(n, st, bits, recs[k])]

LEMMA ComputedRoutes ==
    ASSUME NEW n \in Nodes, NEW s \in Services
    PROVE  /\ ComputeDeviceIndices(n, s) = Routes(n, status[n], bitset[n], records[n], s)
           /\ ComputeDeviceIndices(n, s)' = Routes(n, status'[n], bitset'[n], records'[n], s)
  BY DEF ComputeDeviceIndices, Routes, Route, Reached, Usable, TypeToUse, Matching,
         FindMatchingType, Good

LEMMA RoutesType ==
    ASSUME NEW n \in Nodes, NEW st, NEW bits, NEW s, NEW recs \in Seq(DeviceRecord)
    PROVE  Range(Routes(n, st, bits, recs, s)) \subseteq DeviceIndex
  <1>1. ASSUME NEW k \in DOMAIN recs, Reached(n, st, bits, s, recs[k])
        PROVE  Route(n, st, bits, recs[k]) \in DeviceIndex
    <2>1. recs[k] \in DeviceRecord
      OBVIOUS
    <2>2. PICK U : U = Usable(n, st, bits, recs[k])
      OBVIOUS
    <2>3. U # {} /\ U \subseteq DeviceIndex
      BY <1>1, <2>1, <2>2, RecordFields DEF Reached, Usable
    <2>4. Route(n, st, bits, recs[k]) \in U
      BY <2>2, <2>3 DEF Route
    <2> QED
      BY <2>3, <2>4
  <1> QED
    BY <1>1 DEF Routes, Range

\* Without one of the records there are no other routes.
LEMMA RoutesWithout ==
    ASSUME NEW n \in Nodes, NEW st, NEW bits, NEW s, NEW S, NEW recs \in Seq(S),
           NEW j \in 1 .. Len(recs)
    PROVE  Range(Routes(n, st, bits, RemoveAt(recs, j), s))
              \subseteq Range(Routes(n, st, bits, recs, s))
  <1> DEFINE q == RemoveAt(recs, j)
  <1>1. /\ q \in Seq(S) /\ Len(q) = Len(recs) - 1
        /\ \A i \in 1 .. Len(recs) - 1 : q[i] = IF i < j THEN recs[i] ELSE recs[i + 1]
    BY Erased
  <1> HIDE DEF q
  <1>2. ASSUME NEW k \in DOMAIN q PROVE \E l \in DOMAIN recs : q[k] = recs[l]
    <2>1. /\ k \in 1 .. Len(recs) - 1 /\ k \in DOMAIN recs /\ k + 1 \in DOMAIN recs
      BY <1>1
    <2> QED
      BY <1>1, <2>1
  <1>3. ASSUME NEW k \in DOMAIN q, Reached(n, st, bits, s, q[k])
        PROVE  Route(n, st, bits, q[k]) \in Range(Routes(n, st, bits, recs, s))
    <2>1. PICK l \in DOMAIN recs : q[k] = recs[l]
      BY <1>2
    <2> QED
      BY <1>3, <2>1 DEF Routes, Range
  <1>4. Range(Routes(n, st, bits, q, s)) \subseteq Range(Routes(n, st, bits, recs, s))
    BY <1>3 DEF Routes, Range
  <1> QED
    BY <1>4 DEF q

-----------------------------------------------------------------------------
(***************************************************************************)
(* Every step keeps the types.                                             *)
(***************************************************************************)
LEMMA InitType == Init => TypeInv
  <1> SUFFICES ASSUME Init PROVE TypeInv
    OBVIOUS
  <1>1. UserType /\ GatewayType /\ ChannelType
    BY DiscoveryAssumption, NoPortsType
       DEF Init, UserType, GatewayType, ChannelType, Ports, Phases
  <1>2. TaskType /\ TransportType
    BY IdleTaskType DEF Init, TaskType, TransportType, Statuses
  <1>3. RecordsType /\ CacheType
    BY DiscoveryAssumption, EmptyCacheType DEF Init, RecordsType, CacheType
  <1>4. NetType
    BY DEF Init, NetType, NetOf, Pipes
  <1> QED
    BY <1>1, <1>2, <1>3, <1>4 DEF TypeInv

\* The cache of one node is cleared or left alone.
LEMMA CacheCleared ==
    ASSUME CacheType, NEW n \in Nodes, NEW c, c = EmptyCache \/ c = cache[n],
           cache' = [cache EXCEPT ![n] = c]
    PROVE  CacheType'
  <1>1. DOMAIN c \subseteq Services /\ \A s \in DOMAIN c : Range(c[s]) \subseteq DeviceIndex
    BY EmptyCacheType DEF CacheType
  <1> QED
    BY <1>1 DEF CacheType

LEMMA LifeCycleType ==
    ASSUME TypeInv, NEW n \in Nodes,
           Start(n) \/ Initialize(n) \/ Terminate(n) \/ Deinitialize(n) \/ Exit(n) \/ Crash(n)
    PROVE  TypeInv'
  <1> USE DEF TypeInv, userVars, localVars, remoteVars, transportVars, channelVars, netVars
  <1>1. CASE Start(n)
    <2>1. UserType' /\ GatewayType'
      BY <1>1, DiscoveryAssumption DEF Start, UserType, GatewayType, Phases
    <2>2. TransportType'
      BY <1>1, DiscoveryAssumption DEF Start, TransportType
    <2>3. ChannelType' /\ TaskType' /\ RecordsType' /\ CacheType' /\ NetType'
      BY <1>1 DEF Start, ChannelType, TaskType, RecordsType, CacheType, NetType, NetOf
    <2> QED
      BY <2>1, <2>2, <2>3
  <1>2. CASE Terminate(n)
    <2>1. GatewayType'
      BY <1>2 DEF Terminate, GatewayType, Phases
    <2>2. UserType' /\ TransportType'
      BY <1>2 DEF Terminate, TransportType, UserType
    <2>3. ChannelType' /\ TaskType' /\ RecordsType' /\ CacheType' /\ NetType'
      BY <1>2 DEF Terminate, ChannelType, TaskType, RecordsType, CacheType, NetType, NetOf
    <2> QED
      BY <2>1, <2>2, <2>3
  <1>3. CASE Initialize(n) \/ Deinitialize(n)
    <2>1. PICK b \in BOOLEAN : SendDiscoveryInfo(n, DiscoveryInfo(n, bitset[n], b), net, pipe)
      BY <1>3 DEF Initialize, Deinitialize, GenerateDiscoveryInfo
    <2>2. DiscoveryInfo(n, bitset[n], b) \in Info
      BY InfoType DEF TransportType
    <2>3. /\ NetType' /\ status' \in [Nodes -> [Types -> Statuses]]
          /\ bitset' \in [Nodes -> SUBSET Types]
      BY <2>1, <2>2, SendTypeOfAll DEF NetType, NetOf
    <2>4. TransportType'
      BY <1>3, <2>3 DEF TransportType, Initialize, Deinitialize
    <2>5. GatewayType'
      BY <1>3 DEF GatewayType, Initialize, Deinitialize, Phases
    <2>6. CacheType'
      BY <1>3, CacheCleared DEF Initialize, Deinitialize, CacheAfterSend
    <2>7. UserType' /\ ChannelType' /\ TaskType' /\ RecordsType'
      BY <1>3 DEF Initialize, Deinitialize, UserType, ChannelType, TaskType, RecordsType
    <2> QED
      BY <2>3, <2>4, <2>5, <2>6, <2>7
  <1>4. CASE Exit(n) \/ Crash(n)
    <2>1. Vanish(n)
      BY <1>4 DEF Exit, Crash
    <2>2. UserType' /\ GatewayType' /\ ChannelType'
      BY <2>1, NoPortsType DEF Vanish, UserType, GatewayType, ChannelType, Phases
    <2>3. TaskType' /\ TransportType'
      BY <2>1, IdleTaskType DEF Vanish, TaskType, TransportType, Statuses
    <2>4. RecordsType'
      BY <2>1, DiscoveryAssumption DEF Vanish, RecordsType
    <2>5. CacheType'
      BY <2>1, CacheCleared DEF Vanish
    <2>6. NetType'
      BY <2>1 DEF Vanish, NetType, NetOf
    <2> QED
      BY <2>2, <2>3, <2>4, <2>5, <2>6
  <1> QED
    BY <1>1, <1>2, <1>3, <1>4

LEMMA LocalType ==
    ASSUME TypeInv, NEW n \in Nodes, NEW k \in ThreadsOf,
           \/ ReadPortSubscriber(n) \/ UpdateTr2iox(n, k) \/ UpdateIox2tr(n, k)
           \/ SendIfChanged(n) \/ PublishIntrospection(n)
           \/ \E new \in PortStates[n] : ChangePorts(n, new)
    PROVE  TypeInv'
  <1> USE DEF TypeInv, userVars, localVars, remoteVars, transportVars, channelVars, netVars
  <1>a. DiscoveryThread \in ThreadsOf
    BY DEF ThreadsOf
  <1>1. CASE ReadPortSubscriber(n)
    <2> DEFINE f == FALSE
               t == IF ports[n] = local[n]
                    THEN [stage |-> "publish", needed |-> {}]
                    ELSE [stage |-> "tr2iox", needed |-> NeededServices(ports[n], records[n])]
    <2>1. changed' = [changed EXCEPT ![n] = f] /\ f \in BOOLEAN /\ ports' = ports /\ changes' = changes
      BY <1>1 DEF ReadPortSubscriber
    <2> HIDE DEF f
    <2>2. UserType'
      BY <2>1 DEF UserType
    <2>3. GatewayType'
      BY <1>1 DEF ReadPortSubscriber, GatewayType, UserType
    <2>4. t \in Tasks
      <3>1. NeededServices(ports[n], records[n]) \in SUBSET Services
        BY NeededType DEF UserType, RecordsType
      <3> QED
        BY <3>1 DEF Tasks, Stages
    <2>5. task' = [task EXCEPT ![n][DiscoveryThread] = t]
      BY <1>1 DEF ReadPortSubscriber
    <2> HIDE DEF t
    <2>6. TaskType'
      BY <1>a, <2>4, <2>5 DEF TaskType
    <2>7. ChannelType' /\ RecordsType' /\ CacheType'
      BY <1>1 DEF ReadPortSubscriber, ChannelType, RecordsType, CacheType
    <2>8. TransportType' /\ NetType'
      BY <1>1 DEF ReadPortSubscriber, TransportType, NetType, NetOf
    <2> QED
      BY <2>2, <2>3, <2>6, <2>7, <2>8
  <1>2. CASE UpdateTr2iox(n, k) \/ UpdateIox2tr(n, k)
    <2>1. task[n][k].needed \in SUBSET Services
      BY DEF TaskType, Tasks
    <2>2. ChannelType'
      BY <1>2, <2>1 DEF UpdateTr2iox, UpdateIox2tr, ChannelType
    <2>3. TaskType'
      <3>1. PICK t \in Tasks : task' = [task EXCEPT ![n][k] = t]
        <4>1. [task[n][k] EXCEPT !.stage = "iox2tr"] \in Tasks
          BY DEF TaskType, Tasks, Stages
        <4> QED
          BY <1>2, <4>1, IdleTaskType DEF UpdateTr2iox, UpdateIox2tr
      <3> QED
        BY <3>1 DEF TaskType
    <2>4. UserType' /\ GatewayType'
      BY <1>2 DEF UpdateTr2iox, UpdateIox2tr, UserType, GatewayType
    <2>5. RecordsType' /\ CacheType'
      BY <1>2 DEF UpdateTr2iox, UpdateIox2tr, RecordsType, CacheType
    <2>6. TransportType' /\ NetType'
      BY <1>2 DEF UpdateTr2iox, UpdateIox2tr, TransportType, NetType, NetOf
    <2> QED
      BY <2>2, <2>3, <2>4, <2>5, <2>6
  <1>3. CASE SendIfChanged(n)
    <2>1. local[n].subscribers \in SUBSET Services
      BY DEF GatewayType, Ports
    <2>2. GatewayType'
      BY <1>3, <2>1 DEF SendIfChanged, GatewayType
    <2>3. TaskType'
      <3> DEFINE t == [stage |-> "publish", needed |-> {}]
      <3>1. t \in Tasks
        BY DEF Tasks, Stages
      <3>2. task' = [task EXCEPT ![n][DiscoveryThread] = t]
        BY <1>3 DEF SendIfChanged
      <3> HIDE DEF t
      <3> QED
        BY <1>a, <3>1, <3>2 DEF TaskType
    <2>4. CacheType'
      BY <1>3, CacheCleared DEF SendIfChanged, CacheAfterSend, CacheType
    <2>5. TransportType' /\ NetType'
      <3>1. CASE local[n].subscribers = lastSent[n]
        BY <1>3, <3>1 DEF SendIfChanged, TransportType, NetType, NetOf
      <3>2. CASE local[n].subscribers # lastSent[n]
        <4>1. GenerateDiscoveryInfo(n) \in Info
          BY InfoType DEF GenerateDiscoveryInfo, TransportType
        <4>2. SendDiscoveryInfo(n, GenerateDiscoveryInfo(n), net, pipe) /\ handling' = handling
          BY <1>3, <3>2 DEF SendIfChanged
        <4> QED
          BY <4>1, <4>2, SendTypeOfAll DEF NetType, NetOf, TransportType
      <3> QED
        BY <3>1, <3>2
    <2>6. UserType' /\ ChannelType' /\ RecordsType'
      BY <1>3 DEF SendIfChanged, UserType, ChannelType, RecordsType
    <2> QED
      BY <2>2, <2>3, <2>4, <2>5, <2>6
  <1>4. CASE PublishIntrospection(n)
    <2>1. GatewayType'
      BY <1>4 DEF PublishIntrospection, GatewayType
    <2>2. TaskType'
      BY <1>4, <1>a, IdleTaskType DEF PublishIntrospection, TaskType
    <2>3. UserType' /\ ChannelType'
      BY <1>4 DEF PublishIntrospection, UserType, ChannelType
    <2>4. RecordsType' /\ CacheType'
      BY <1>4 DEF PublishIntrospection, RecordsType, CacheType
    <2>5. TransportType' /\ NetType'
      BY <1>4 DEF PublishIntrospection, TransportType, NetType, NetOf
    <2> QED
      BY <2>1, <2>2, <2>3, <2>4, <2>5
  <1>5. CASE \E new \in PortStates[n] : ChangePorts(n, new)
    <2>1. PICK new \in PortStates[n] : ChangePorts(n, new)
      BY <1>5
    <2>2. new \in Ports
      BY DiscoveryAssumption DEF Ports
    <2>3. PICK up \in BOOLEAN : changed' = [changed EXCEPT ![n] = up]
      BY <2>1 DEF ChangePorts, Up
    <2>4. UserType'
      <3>1. ports' \in [Nodes -> Ports] /\ changed' \in [Nodes -> BOOLEAN]
        BY <2>1, <2>2, <2>3 DEF ChangePorts, UserType
      <3>2. changes' \in 0 .. MaxChanges
        BY <2>1, DiscoveryAssumption DEF ChangePorts, UserType
      <3> QED
        BY <3>1, <3>2 DEF UserType
    <2>5. GatewayType' /\ ChannelType' /\ TaskType'
      BY <2>1 DEF ChangePorts, GatewayType, ChannelType, TaskType
    <2>6. RecordsType' /\ CacheType'
      BY <2>1 DEF ChangePorts, RecordsType, CacheType
    <2>7. TransportType' /\ NetType'
      BY <2>1 DEF ChangePorts, TransportType, NetType, NetOf
    <2> QED
      BY <2>4, <2>5, <2>6, <2>7
  <1> QED
    BY <1>1, <1>2, <1>3, <1>4, <1>5

LEMMA FailureType ==
    ASSUME TypeInv, NEW n \in Nodes, NEW ty \in Types,
           \/ SetFailed(n, ty) \/ HasFailedSetDisabled(n, ty) \/ Disable(n, ty)
           \/ FailCallback(n, ty) \/ ResendDiscoveryInfoToTransport(n, ty)
    PROVE  TypeInv'
  <1> USE DEF TypeInv, userVars, localVars, remoteVars, transportVars, channelVars, netVars
  <1>1. CASE SetFailed(n, ty) \/ HasFailedSetDisabled(n, ty) \/ Disable(n, ty)
    <2>1. TransportType'
      <3>1. CASE SetFailed(n, ty)
        BY <3>1 DEF SetFailed, TransportType, Statuses
      <3>2. CASE HasFailedSetDisabled(n, ty)
        BY <3>2 DEF HasFailedSetDisabled, TransportType, Statuses
      <3>3. CASE Disable(n, ty)
        BY <3>3 DEF Disable, TransportType
      <3> QED
        BY <1>1, <3>1, <3>2, <3>3
    <2>2. UserType' /\ GatewayType'
      BY <1>1 DEF SetFailed, HasFailedSetDisabled, Disable, UserType, GatewayType
    <2>3. ChannelType' /\ TaskType'
      BY <1>1 DEF SetFailed, HasFailedSetDisabled, Disable, ChannelType, TaskType
    <2>4. RecordsType' /\ CacheType' /\ NetType'
      BY <1>1 DEF SetFailed, HasFailedSetDisabled, Disable, RecordsType, CacheType, NetType, NetOf
    <2> QED
      BY <2>1, <2>2, <2>3, <2>4
  <1>2. CASE FailCallback(n, ty)
    <2>1. GenerateDiscoveryInfo(n) \in Info
      BY InfoType DEF GenerateDiscoveryInfo, TransportType
    <2>2. \/ UNCHANGED <<status, bitset, netVars>>
          \/ SendDiscoveryInfo(n, GenerateDiscoveryInfo(n), net, pipe)
      BY <1>2 DEF FailCallback
    <2>3. /\ NetType' /\ status' \in [Nodes -> [Types -> Statuses]]
          /\ bitset' \in [Nodes -> SUBSET Types]
      <3>1. CASE UNCHANGED <<status, bitset, netVars>>
        BY <3>1 DEF NetType, NetOf, TransportType
      <3>2. CASE SendDiscoveryInfo(n, GenerateDiscoveryInfo(n), net, pipe)
        BY <2>1, <3>2, SendTypeOfAll DEF NetType, NetOf
      <3> QED
        BY <2>2, <3>1, <3>2
    <2>4. TransportType'
      BY <1>2, <2>3 DEF FailCallback, TransportType
    <2>5. CacheType'
      BY <1>2, CacheCleared DEF FailCallback
    <2>6. UserType' /\ GatewayType'
      BY <1>2 DEF FailCallback, UserType, GatewayType
    <2>7. ChannelType' /\ TaskType' /\ RecordsType'
      BY <1>2 DEF FailCallback, ChannelType, TaskType, RecordsType
    <2> QED
      BY <2>3, <2>4, <2>5, <2>6, <2>7
  <1>3. CASE ResendDiscoveryInfoToTransport(n, ty)
    <2>1. UserType' /\ GatewayType'
      BY <1>3 DEF ResendDiscoveryInfoToTransport, UserType, GatewayType
    <2>2. ChannelType' /\ TaskType' /\ RecordsType'
      BY <1>3 DEF ResendDiscoveryInfoToTransport, ChannelType, TaskType, RecordsType
    <2>3. CacheType'
      BY <1>3, CacheCleared DEF ResendDiscoveryInfoToTransport, CacheType
    <2>4. TransportType'
      <3> DEFINE st == [t \in Types |-> IF t \in Failed(n) THEN "DISABLED" ELSE status[n][t]]
      <3>1. st \in [Types -> Statuses]
        BY DEF TransportType, Statuses
      <3>2. /\ handling' = handling
            /\ \/ UNCHANGED <<status, bitset>>
               \/ /\ status' = [status EXCEPT ![n] = st]
                  /\ bitset' = [bitset EXCEPT ![n] = bitset[n] \ Failed(n)]
        BY <1>3 DEF ResendDiscoveryInfoToTransport
      <3> HIDE DEF st
      <3>3. CASE UNCHANGED <<status, bitset>>
        BY <3>2, <3>3 DEF TransportType
      <3>4. CASE ~UNCHANGED <<status, bitset>>
        <4>1. status' \in [Nodes -> [Types -> Statuses]]
          BY <3>1, <3>2, <3>4 DEF TransportType
        <4>2. bitset' \in [Nodes -> SUBSET Types]
          BY <3>2, <3>4 DEF TransportType
        <4> QED
          BY <3>2, <4>1, <4>2 DEF TransportType
      <3> QED
        BY <3>3, <3>4
    <2>5. NetType'
      <3>1. PICK types \in SUBSET Types, remaining \in SUBSET Types :
               Broadcast(n, types, <<DiscoveryInfo(n, remaining, FALSE)>>, net, pipe)
        <4>1. /\ {ty} \in SUBSET Types /\ Good(n) \in SUBSET Types
              /\ bitset[n] \in SUBSET Types /\ bitset[n] \ Failed(n) \in SUBSET Types
          BY DiscoveryAssumption DEF TransportType, Good
        <4> QED
          BY <1>3, <4>1 DEF ResendDiscoveryInfoToTransport, GenerateDiscoveryInfo
      <3> DEFINE info == DiscoveryInfo(n, remaining, FALSE)
      <3>2. info \in Info
        BY InfoType
      <3>3. Broadcast(n, types, <<info>>, net, pipe)
        BY <3>1
      <3> HIDE DEF info
      <3>4. <<info>> \in Seq(Info)
        BY <3>2
      <3> QED
        BY <3>3, <3>4, BroadcastType DEF NetType, NetOf
    <2> QED
      BY <2>1, <2>2, <2>3, <2>4, <2>5
  <1> QED
    BY <1>1, <1>2, <1>3

\* What receiveRemoteDiscoveryInfo makes of the records and the cache.
LEMMA ReceiveType ==
    ASSUME TypeInv, NEW n \in Nodes, NEW ty \in Types, NEW from \in Nodes \ {n},
           ReceiveRemoteDiscoveryInfo(n, ty, from)
    PROVE  TypeInv'
  <1> USE DEF TypeInv, userVars, localVars, remoteVars, transportVars, channelVars, netVars
  <1>1. PICK msg \in Arrivals(n, ty, from) :
           \/ ReceiveTermination(n, ty, msg)
           \/ ReceiveFromKnown(n, ty, msg)
           \/ ReceiveFromNew(n, ty, msg)
    BY DEF ReceiveRemoteDiscoveryInfo
  <1>2. /\ msg.info \in Info /\ msg.net \in SUBSET Datagrams(Info)
        /\ msg.pipe \in [Pipes -> Seq(Wire(Info))]
    BY ArrivalType DEF NetType
  <1>3. UserType' /\ GatewayType' /\ ChannelType' /\ handling' = handling
    BY DEF ReceiveRemoteDiscoveryInfo, UserType, GatewayType, ChannelType
  <1>4. ty \in ThreadsOf /\ <<ty, msg.info.gatewayHash[1]>> \in DeviceIndex
    BY <1>2, SenderIndex DEF ThreadsOf
  <1>5. ASSUME RecordsType', NextUpdate(n, ty, records'[n]) PROVE TaskType'
    <2> DEFINE t == [stage |-> "tr2iox", needed |-> NeededServices(local[n], records'[n])]
    <2>1. local[n] \in Ports /\ records'[n] \in Seq(DeviceRecord)
      BY <1>5 DEF GatewayType, RecordsType
    <2>2. NeededServices(local[n], records'[n]) \in SUBSET Services
      BY <2>1, NeededType
    <2>3. t \in Tasks
      BY <2>2 DEF Tasks, Stages
    <2>4. task' = [task EXCEPT ![n][ty] = t]
      BY <1>5 DEF NextUpdate
    <2> HIDE DEF t
    <2> QED
      BY <1>4, <2>3, <2>4 DEF TaskType
  <1>6. CASE ReceiveTermination(n, ty, msg)
    <2>1. NetType' /\ CacheType' /\ TransportType' /\ TaskType'
      BY <1>2, <1>3, <1>6 DEF ReceiveTermination, NetType, NetOf, CacheType, TransportType, TaskType
    <2>2. RecordsType'
      <3>1. CASE records' = records
        BY <3>1 DEF RecordsType
      <3>2. CASE records' # records
        <4>1. PICK i \in RecordIndex(n, msg.info.gatewayHash) :
                 records' = [records EXCEPT ![n] = RemoveAt(records[n], i)]
          BY <1>6, <3>2 DEF ReceiveTermination
        <4>2. /\ records[n] \in Seq(DeviceRecord) /\ i \in 1 .. Len(records[n])
              /\ Len(records[n]) <= MAX_DEVICE_COUNT
          BY DEF RecordIndex, RecordsType
        <4>3. /\ RemoveAt(records[n], i) \in Seq(DeviceRecord)
              /\ Len(RemoveAt(records[n], i)) <= MAX_DEVICE_COUNT
          <5>1. PICK q : q = records[n]
            OBVIOUS
          <5>2. RemoveAt(q, i) \in Seq(DeviceRecord) /\ Len(RemoveAt(q, i)) = Len(q) - 1
            BY <4>2, <5>1, Erased, Zenon
          <5>3. Len(q) \in Nat /\ MAX_DEVICE_COUNT \in Nat
            BY <4>2, <5>1, DiscoveryAssumption
          <5> QED
            BY <4>2, <5>1, <5>2, <5>3
        <4> QED
          BY <4>1, <4>3 DEF RecordsType
      <3> QED
        BY <3>1, <3>2
    <2> QED
      BY <1>3, <2>1, <2>2
  <1>7. CASE ReceiveFromKnown(n, ty, msg)
    <2>1. NetType' /\ TransportType' /\ CacheType'
      BY <1>2, <1>3, <1>7, CacheCleared DEF ReceiveFromKnown, NetType, NetOf, TransportType
    <2>2. RecordsType'
      <3>1. PICK i \in RecordIndex(n, msg.info.gatewayHash) :
               records' = [records EXCEPT ![n][i] =
                  [info |-> msg.info,
                   deviceIndices |-> StoreIndex(records[n][i].deviceIndices,
                                                <<ty, msg.info.gatewayHash[1]>>)]]
        BY <1>7 DEF ReceiveFromKnown
      <3>2. records[n] \in Seq(DeviceRecord) /\ i \in 1 .. Len(records[n])
        BY DEF RecordIndex, RecordsType
      <3> DEFINE r == [info |-> msg.info,
                       deviceIndices |-> StoreIndex(records[n][i].deviceIndices,
                                                    <<ty, msg.info.gatewayHash[1]>>)]
      <3>3. r \in DeviceRecord
        BY <1>2, <1>4, <3>2, RecordFields, StoreIndexType, RecordType
      <3>4. records' = [records EXCEPT ![n] = [records[n] EXCEPT ![i] = r]]
        BY <3>1
      <3> HIDE DEF r
      <3>5. /\ [records[n] EXCEPT ![i] = r] \in Seq(DeviceRecord)
            /\ Len([records[n] EXCEPT ![i] = r]) = Len(records[n])
        BY <3>2, <3>3
      <3> QED
        BY <3>4, <3>5 DEF RecordsType
    <2>3. TaskType'
      BY <1>5, <1>7, <2>2 DEF ReceiveFromKnown
    <2> QED
      BY <1>3, <2>1, <2>2, <2>3
  <1>8. CASE ReceiveFromNew(n, ty, msg)
    <2>1. GenerateDiscoveryInfo(n) \in Info
      BY InfoType DEF GenerateDiscoveryInfo, TransportType
    <2>2. NetType' /\ TransportType'
      <3>1. CASE TerminateFlag(n)
        BY <1>2, <1>3, <1>8, <3>1 DEF ReceiveFromNew, NetType, NetOf, TransportType
      <3>2. CASE ~TerminateFlag(n)
        <4>1. SendDiscoveryInfo(n, GenerateDiscoveryInfo(n), msg.net, msg.pipe)
          BY <1>8, <3>2 DEF ReceiveFromNew
        <4> QED
          BY <1>2, <1>3, <2>1, <4>1, SendTypeOfAll DEF TransportType
      <3> QED
        BY <3>1, <3>2
    <2>3. CacheType'
      BY <1>8, CacheCleared DEF ReceiveFromNew
    <2>4. RecordsType'
      <3> DEFINE q == RecordsWithNew(n, msg.info, <<ty, msg.info.gatewayHash[1]>>)
      <3>1. q \in Seq(DeviceRecord) /\ Len(q) <= MAX_DEVICE_COUNT
        BY <1>2, <1>4, RecordsWithNewType
      <3>2. records' = [records EXCEPT ![n] = q]
        BY <1>8 DEF ReceiveFromNew
      <3> HIDE DEF q
      <3> QED
        BY <3>1, <3>2 DEF RecordsType
    <2>5. TaskType'
      BY <1>5, <1>8, <2>4 DEF ReceiveFromNew
    <2> QED
      BY <1>3, <2>2, <2>3, <2>4, <2>5
  <1> QED
    BY <1>1, <1>6, <1>7, <1>8

LEMMA GenerateType ==
    ASSUME TypeInv, NEW n \in Nodes, NEW s \in Services, GenerateDeviceIndices(n, s)
    PROVE  TypeInv'
  <1> USE DEF TypeInv, userVars, localVars, remoteVars, transportVars, channelVars, netVars
  <1> DEFINE routes == ComputeDeviceIndices(n, s)
             c == [r \in DOMAIN cache[n] \cup {s} |-> IF r = s THEN routes ELSE cache[n][r]]
  <1>1. Range(routes) \subseteq DeviceIndex
    BY ComputedRoutes, RoutesType DEF RecordsType
  <1>2. cache' = [cache EXCEPT ![n] = c]
    BY DEF GenerateDeviceIndices
  <1> HIDE DEF routes
  <1>3. DOMAIN c \subseteq Services /\ \A r \in DOMAIN c : Range(c[r]) \subseteq DeviceIndex
    BY <1>1 DEF CacheType
  <1> HIDE DEF c
  <1>4. CacheType'
    BY <1>2, <1>3 DEF CacheType
  <1>5. UserType' /\ GatewayType' /\ ChannelType'
    BY DEF GenerateDeviceIndices, UserType, GatewayType, ChannelType
  <1>6. TaskType' /\ RecordsType'
    BY DEF GenerateDeviceIndices, TaskType, RecordsType
  <1>7. TransportType' /\ NetType'
    BY DEF GenerateDeviceIndices, TransportType, NetType, NetOf
  <1> QED
    BY <1>4, <1>5, <1>6, <1>7

LEMMA QuietType ==
    ASSUME TypeInv, LoseDatagram \/ UNCHANGED vars
    PROVE  TypeInv'
  <1> USE DEF TypeInv, userVars, localVars, remoteVars, transportVars, channelVars, netVars
  <1>1. UserType' /\ GatewayType' /\ ChannelType'
    BY DEF LoseDatagram, vars, UserType, GatewayType, ChannelType
  <1>2. TaskType' /\ RecordsType' /\ CacheType'
    BY DEF LoseDatagram, vars, TaskType, RecordsType, CacheType
  <1>3. TransportType' /\ NetType'
    BY DEF LoseDatagram, vars, TransportType, NetType, NetOf
  <1> QED
    BY <1>1, <1>2, <1>3

LEMMA StepType == TypeInv /\ [Next]_vars => TypeInv'
  <1> SUFFICES ASSUME TypeInv, [Next]_vars PROVE TypeInv'
    OBVIOUS
  <1> USE DEF ThreadsOf
  <1>1. ASSUME NEW n \in Nodes,
               \/ Start(n) \/ Terminate(n) \/ Crash(n) \/ MainThread(n) \/ WaitsetLoop(n)
               \/ \E new \in PortStates[n] : ChangePorts(n, new)
        PROVE  TypeInv'
    BY <1>1, LifeCycleType, LocalType DEF MainThread, WaitsetLoop
  <1>2. ASSUME NEW n \in Nodes, NEW ty \in Types,
               \/ CallbackThread(n, ty) \/ HandleFailure(n, ty)
               \/ SetFailed(n, ty) \/ HasFailedSetDisabled(n, ty)
               \/ ResendDiscoveryInfoToTransport(n, ty)
               \/ \E from \in Nodes \ {n} : ReceiveRemoteDiscoveryInfo(n, ty, from)
        PROVE  TypeInv'
    BY <1>2, LocalType, FailureType, ReceiveType DEF CallbackThread, HandleFailure
  <1> QED
    BY <1>1, <1>2, GenerateType, QuietType DEF Next

LEMMA TypeInvHolds == Spec => []TypeInv
  BY InitType, StepType, PTL DEF Spec

\* TypeCorrectness: every variable keeps its type; in particular the vector of
\* records stays within MAX_DEVICE_COUNT, and whatever receiveRemoteDiscoveryInfo
\* deserializes is the info of some gateway.
THEOREM TypeCorrectness == Spec => []TypeOK
  <1>1. TypeInv => TypeOK
    <2> SUFFICES ASSUME TypeInv PROVE TypeOK
      OBVIOUS
    <2>1. \A msg \in net : /\ {msg.from, msg.to} \subseteq Nodes /\ msg.type \in Lossy
                           /\ Deserialize(msg.data) \in Info
      BY WireInfo DEF TypeInv, NetType, NetOf, Datagrams
    <2>2. \A k \in DOMAIN pipe : \A i \in DOMAIN pipe[k] : Deserialize(pipe[k][i]) \in Info
      BY WireInfo DEF TypeInv, NetType, NetOf
    <2> QED
      BY <2>1, <2>2 DEF TypeInv, TypeOK, UserType, GatewayType, ChannelType, TaskType, Tasks,
         RecordsType, CacheType, TransportType, NetType, NetOf, Pipes
  <1> QED
    BY <1>1, TypeInvHolds, PTL

-----------------------------------------------------------------------------
(***************************************************************************)
(* The device indices cache.  A step leaves the routes of a node as they   *)
(* are, or clears its cache, or leaves a failure to be handled, or erases  *)
(* a record, or stores computed indices.                                   *)
(***************************************************************************)
Settled(n) == Failed(n) = {} /\ \A ty \in Types : handling[n][ty] = "none"

RoutesKept(n) ==
    /\ cache'[n] = cache[n] /\ records'[n] = records[n] /\ status'[n] = status[n]
    /\ bitset'[n] = bitset[n] /\ handling'[n] = handling[n]
    /\ phase'[n] = "off" => phase[n] = "off"

Cleared(n) == cache'[n] = EmptyCache

Unsettled(n) == cache'[n] = cache[n] /\ phase'[n] = phase[n] /\ ~Settled(n)'

Forgets(n) ==
    /\ \E i \in 1 .. Len(records[n]) : records'[n] = RemoveAt(records[n], i)
    /\ cache'[n] = cache[n] /\ status'[n] = status[n] /\ bitset'[n] = bitset[n]
    /\ handling'[n] = handling[n] /\ phase'[n] = phase[n]

Computes(n) ==
    /\ \E s \in Services : cache'[n] =
          [r \in DOMAIN cache[n] \cup {s} |->
              IF r = s THEN ComputeDeviceIndices(n, s) ELSE cache[n][r]]
    /\ records'[n] = records[n] /\ status'[n] = status[n] /\ bitset'[n] = bitset[n]
    /\ handling'[n] = handling[n] /\ phase'[n] # "off"

\* A step that erases no record.
CacheChange(n) == RoutesKept(n) \/ Cleared(n) \/ Unsettled(n) \/ Computes(n)

\* A gateway that does not run has cached nothing.
OffInv == \A n \in Nodes : phase[n] = "off" => cache[n] = EmptyCache

\* sendDiscoveryInfo together with what it does to the cache.
LEMMA SendRoutes ==
    ASSUME TypeInv, NEW n \in Nodes, NEW info, NEW datagrams, NEW messages,
           SendDiscoveryInfo(n, info, datagrams, messages),
           cache' = [cache EXCEPT ![n] = CacheAfterSend(n)],
           records' = records, handling' = handling,
           \A m \in Nodes : phase'[m] = "off" => phase[m] = "off"
    PROVE  \A m \in Nodes : RoutesKept(m) \/ Cleared(m)
  <1>1. \A m \in Nodes : m # n \/ Failed(n) = {} =>
           status'[m] = status[m] /\ bitset'[m] = bitset[m]
    <2> DEFINE st == [ty \in Types |-> IF ty \in Failed(n) THEN "DISABLED" ELSE status[n][ty]]
    <2>1. /\ status' = [status EXCEPT ![n] = st]
          /\ bitset' = [bitset EXCEPT ![n] = bitset[n] \ Failed(n)]
      BY DEF SendDiscoveryInfo
    <2>2. Failed(n) = {} => st = status[n]
      BY DEF TypeInv, TransportType
    <2> HIDE DEF st
    <2> QED
      BY <2>1, <2>2 DEF TypeInv, TransportType
  <1>2. \A m \in Nodes : m # n \/ Failed(n) = {} => cache'[m] = cache[m]
    BY DEF CacheAfterSend, TypeInv, CacheType
  <1>3. Failed(n) # {} => cache'[n] = EmptyCache
    BY DEF CacheAfterSend, TypeInv, CacheType
  <1> QED
    BY <1>1, <1>2, <1>3 DEF RoutesKept, Cleared

\* A step that leaves other nodes alone.
LEMMA OthersKept ==
    ASSUME NEW n \in Nodes,
           \A m \in Nodes \ {n} :
              /\ cache'[m] = cache[m] /\ records'[m] = records[m] /\ status'[m] = status[m]
              /\ bitset'[m] = bitset[m] /\ handling'[m] = handling[m] /\ phase'[m] = phase[m],
           CacheChange(n)
    PROVE  \A m \in Nodes : CacheChange(m)
  BY DEF CacheChange, RoutesKept

LEMMA LifeCycleRoutes ==
    ASSUME TypeInv, OffInv, NEW n \in Nodes,
           Start(n) \/ Initialize(n) \/ Terminate(n) \/ Deinitialize(n) \/ Exit(n) \/ Crash(n)
    PROVE  \A m \in Nodes : CacheChange(m)
  <1> USE DEF TypeInv, CacheType, GatewayType, RecordsType, TransportType,
              userVars, localVars, remoteVars, transportVars, channelVars, netVars
  <1>1. CASE Start(n)
    <2>1. Cleared(n)
      BY <1>1 DEF Start, Cleared, OffInv
    <2> QED
      BY <1>1, <2>1, OthersKept DEF Start, CacheChange
  <1>2. CASE Terminate(n)
    BY <1>2 DEF Terminate, CacheChange, RoutesKept
  <1>3. CASE Initialize(n) \/ Deinitialize(n)
    <2>1. \A m \in Nodes : phase'[m] = "off" => phase[m] = "off"
      BY <1>3 DEF Initialize, Deinitialize
    <2>2. PICK info : SendDiscoveryInfo(n, info, net, pipe)
      BY <1>3 DEF Initialize, Deinitialize
    <2>3. /\ cache' = [cache EXCEPT ![n] = CacheAfterSend(n)]
          /\ records' = records /\ handling' = handling
      BY <1>3 DEF Initialize, Deinitialize
    <2> HIDE DEF TypeInv
    <2> QED
      BY <2>1, <2>2, <2>3, SendRoutes DEF CacheChange
  <1>4. CASE Exit(n) \/ Crash(n)
    <2>1. Vanish(n)
      BY <1>4 DEF Exit, Crash
    <2>2. Cleared(n)
      BY <2>1 DEF Vanish, Cleared
    <2> QED
      BY <2>1, <2>2, OthersKept DEF Vanish, CacheChange
  <1> QED
    BY <1>1, <1>2, <1>3, <1>4

LEMMA LocalRoutes ==
    ASSUME TypeInv, NEW n \in Nodes, NEW k \in ThreadsOf,
           \/ ReadPortSubscriber(n) \/ UpdateTr2iox(n, k) \/ UpdateIox2tr(n, k)
           \/ SendIfChanged(n) \/ PublishIntrospection(n)
           \/ \E new \in PortStates[n] : ChangePorts(n, new)
    PROVE  \A m \in Nodes : CacheChange(m)
  <1> USE DEF userVars, localVars, remoteVars, transportVars, channelVars, netVars
  <1>1. CASE UNCHANGED <<phase, cache, records, status, bitset, handling>>
    BY <1>1 DEF CacheChange, RoutesKept
  <1>2. CASE SendIfChanged(n) /\ local[n].subscribers # lastSent[n]
    <2>1. /\ SendDiscoveryInfo(n, GenerateDiscoveryInfo(n), net, pipe)
          /\ cache' = [cache EXCEPT ![n] = CacheAfterSend(n)]
          /\ records' = records /\ handling' = handling /\ phase' = phase
      BY <1>2 DEF SendIfChanged
    <2> QED
      BY <2>1, SendRoutes DEF CacheChange
  <1>3. \/ UNCHANGED <<phase, cache, records, status, bitset, handling>>
        \/ SendIfChanged(n) /\ local[n].subscribers # lastSent[n]
    BY DEF ReadPortSubscriber, UpdateTr2iox, UpdateIox2tr, SendIfChanged,
           PublishIntrospection, ChangePorts
  <1> QED
    BY <1>1, <1>2, <1>3

LEMMA FailureRoutes ==
    ASSUME TypeInv, NEW n \in Nodes, NEW ty \in Types,
           \/ SetFailed(n, ty) \/ HasFailedSetDisabled(n, ty) \/ Disable(n, ty)
           \/ FailCallback(n, ty) \/ ResendDiscoveryInfoToTransport(n, ty)
    PROVE  \A m \in Nodes : CacheChange(m)
  <1> USE DEF TypeInv, CacheType, GatewayType, RecordsType, TransportType,
              userVars, localVars, remoteVars, transportVars, channelVars, netVars
  <1>1. CASE SetFailed(n, ty)
    <2>1. Unsettled(n)
      BY <1>1 DEF SetFailed, Unsettled, Settled, Failed
    <2> QED
      BY <1>1, <2>1, OthersKept DEF SetFailed, CacheChange
  <1>2. CASE HasFailedSetDisabled(n, ty)
    <2>1. Unsettled(n)
      BY <1>2 DEF HasFailedSetDisabled, Unsettled, Settled
    <2> QED
      BY <1>2, <2>1, OthersKept DEF HasFailedSetDisabled, CacheChange
  <1>3. CASE Disable(n, ty)
    <2>1. Unsettled(n)
      BY <1>3 DEF Disable, Unsettled, Settled
    <2> QED
      BY <1>3, <2>1, OthersKept DEF Disable, CacheChange
  <1>4. CASE FailCallback(n, ty)
    <2>1. Cleared(n)
      BY <1>4 DEF FailCallback, Cleared
    <2>2. \A m \in Nodes \ {n} : status'[m] = status[m] /\ bitset'[m] = bitset[m]
      BY <1>4 DEF FailCallback, SendDiscoveryInfo
    <2> QED
      <3>1. \A m \in Nodes \ {n} :
               /\ cache'[m] = cache[m] /\ records'[m] = records[m]
               /\ handling'[m] = handling[m] /\ phase'[m] = phase[m]
        BY <1>4 DEF FailCallback
      <3> HIDE DEF TypeInv
      <3> QED
        BY <2>1, <2>2, <3>1, OthersKept DEF CacheChange
  <1>5. CASE ResendDiscoveryInfoToTransport(n, ty)
    <2>1. CASE UNCHANGED <<status, bitset, cache>>
      BY <1>5, <2>1 DEF ResendDiscoveryInfoToTransport, CacheChange, RoutesKept
    <2>2. CASE ~UNCHANGED <<status, bitset, cache>>
      <3>1. Cleared(n)
        BY <1>5, <2>2 DEF ResendDiscoveryInfoToTransport, Cleared
      <3>2. \A m \in Nodes \ {n} :
               status'[m] = status[m] /\ bitset'[m] = bitset[m] /\ cache'[m] = cache[m]
        BY <1>5 DEF ResendDiscoveryInfoToTransport
      <3> QED
        <4>1. records' = records /\ handling' = handling /\ phase' = phase
          BY <1>5 DEF ResendDiscoveryInfoToTransport
        <4> HIDE DEF TypeInv, CacheType, GatewayType, RecordsType, TransportType
        <4>2. \A m \in Nodes \ {n} :
                 /\ cache'[m] = cache[m] /\ records'[m] = records[m] /\ status'[m] = status[m]
                 /\ bitset'[m] = bitset[m] /\ handling'[m] = handling[m] /\ phase'[m] = phase[m]
          BY <3>2, <4>1
        <4>3. CacheChange(n)
          BY <3>1 DEF CacheChange
        <4> QED
          BY <4>2, <4>3, OthersKept
    <2> QED
      BY <2>1, <2>2
  <1> QED
    BY <1>1, <1>2, <1>3, <1>4, <1>5

\* Only the message of a gateway that terminates erases a record.
LEMMA ReceiveRoutes ==
    ASSUME TypeInv, NEW n \in Nodes, NEW ty \in Types, NEW from \in Nodes \ {n},
           ReceiveRemoteDiscoveryInfo(n, ty, from)
    PROVE  \/ \A m \in Nodes : CacheChange(m)
           \/ /\ \A m \in Nodes : CacheChange(m) \/ Forgets(m)
              /\ \E msg \in Arrivals(n, ty, from) : msg.info.isTermination
  <1> USE DEF TypeInv, CacheType, GatewayType, RecordsType, TransportType,
              userVars, localVars, remoteVars, transportVars, channelVars, netVars
  <1>1. PICK msg \in Arrivals(n, ty, from) :
           \/ ReceiveTermination(n, ty, msg)
           \/ ReceiveFromKnown(n, ty, msg)
           \/ ReceiveFromNew(n, ty, msg)
    BY DEF ReceiveRemoteDiscoveryInfo
  <1>2. phase' = phase /\ handling' = handling
    BY DEF ReceiveRemoteDiscoveryInfo
  <1>3. CASE ReceiveTermination(n, ty, msg)
    <2>1. msg.info.isTermination /\ UNCHANGED <<cache, status, bitset>>
      BY <1>3 DEF ReceiveTermination
    <2>2. CASE records' = records
      BY <1>2, <2>1, <2>2 DEF CacheChange, RoutesKept
    <2>3. CASE records' # records
      <3>1. PICK i \in RecordIndex(n, msg.info.gatewayHash) :
               records' = [records EXCEPT ![n] = RemoveAt(records[n], i)]
        BY <1>3, <2>3 DEF ReceiveTermination
      <3>2. Forgets(n)
        BY <1>2, <2>1, <3>1 DEF Forgets, RecordIndex
      <3>3. \A m \in Nodes \ {n} : RoutesKept(m)
        BY <1>2, <2>1, <3>1 DEF RoutesKept
      <3> QED
        BY <2>1, <3>2, <3>3 DEF CacheChange
    <2> QED
      BY <2>2, <2>3
  <1>4. CASE ReceiveFromKnown(n, ty, msg) \/ ReceiveFromNew(n, ty, msg)
    <2>1. Cleared(n) /\ \A m \in Nodes \ {n} : cache'[m] = cache[m]
      BY <1>4 DEF ReceiveFromKnown, ReceiveFromNew, Cleared
    <2>2. \A m \in Nodes \ {n} : records'[m] = records[m]
      BY <1>4 DEF ReceiveFromKnown, ReceiveFromNew
    <2>3. \A m \in Nodes \ {n} : status'[m] = status[m] /\ bitset'[m] = bitset[m]
      BY <1>4 DEF ReceiveFromKnown, ReceiveFromNew, SendDiscoveryInfo
    <2> QED
      BY <1>2, <2>1, <2>2, <2>3, OthersKept DEF CacheChange
  <1> QED
    BY <1>1, <1>3, <1>4

LEMMA GenerateRoutes ==
    ASSUME TypeInv, NEW n \in Nodes, NEW s \in Services, GenerateDeviceIndices(n, s)
    PROVE  \A m \in Nodes : CacheChange(m)
  <1> USE DEF TypeInv, CacheType,
              userVars, localVars, remoteVars, transportVars, channelVars, netVars
  <1> DEFINE routes == ComputeDeviceIndices(n, s)
             c == [r \in DOMAIN cache[n] \cup {s} |-> IF r = s THEN routes ELSE cache[n][r]]
  <1>1. cache' = [cache EXCEPT ![n] = c]
    BY DEF GenerateDeviceIndices
  <1>2. UNCHANGED <<phase, records, status, bitset, handling>> /\ phase[n] # "off"
    BY DEF GenerateDeviceIndices, Up
  <1>3. cache'[n] = c
    BY <1>1
  <1>4. Computes(n)
    BY <1>2, <1>3 DEF Computes
  <1> HIDE DEF c
  <1>5. \A m \in Nodes \ {n} : cache'[m] = cache[m]
    BY <1>1
  <1> QED
    BY <1>2, <1>4, <1>5, OthersKept DEF CacheChange

LEMMA StepRoutes ==
    ASSUME TypeInv, OffInv, [Next]_vars
    PROVE  \/ \A m \in Nodes : CacheChange(m)
           \/ /\ \A m \in Nodes : CacheChange(m) \/ Forgets(m)
              /\ \E n \in Nodes, ty \in Types, from \in Nodes :
                    \E msg \in Arrivals(n, ty, from) : msg.info.isTermination
  <1> USE DEF ThreadsOf
  <1>1. ASSUME NEW n \in Nodes,
               \/ Start(n) \/ Terminate(n) \/ Crash(n) \/ MainThread(n) \/ WaitsetLoop(n)
               \/ \E new \in PortStates[n] : ChangePorts(n, new)
        PROVE  \A m \in Nodes : CacheChange(m)
    BY <1>1, LifeCycleRoutes, LocalRoutes DEF MainThread, WaitsetLoop
  <1>2. ASSUME NEW n \in Nodes, NEW ty \in Types,
               \/ CallbackThread(n, ty) \/ HandleFailure(n, ty)
               \/ SetFailed(n, ty) \/ HasFailedSetDisabled(n, ty)
               \/ ResendDiscoveryInfoToTransport(n, ty)
        PROVE  \A m \in Nodes : CacheChange(m)
    BY <1>2, LocalRoutes, FailureRoutes DEF CallbackThread, HandleFailure
  <1>3. ASSUME LoseDatagram \/ UNCHANGED vars
        PROVE  \A m \in Nodes : CacheChange(m)
    <2>1. UNCHANGED <<phase, cache, records, status, bitset, handling>>
      BY <1>3 DEF LoseDatagram, vars, remoteVars, transportVars
    <2> QED
      BY <2>1 DEF CacheChange, RoutesKept
  <1>4. CASE \E n \in Nodes, ty \in Types : \E from \in Nodes \ {n} :
                ReceiveRemoteDiscoveryInfo(n, ty, from)
    <2>1. PICK n \in Nodes, ty \in Types, from \in Nodes :
             from # n /\ ReceiveRemoteDiscoveryInfo(n, ty, from)
      BY <1>4
    <2> QED
      BY <2>1, ReceiveRoutes
  <1>5. CASE ~\E n \in Nodes, ty \in Types : \E from \in Nodes \ {n} :
                ReceiveRemoteDiscoveryInfo(n, ty, from)
    <2>1. \A m \in Nodes : CacheChange(m)
      BY <1>1, <1>2, <1>3, <1>5, GenerateRoutes DEF Next
    <2> QED
      BY <2>1
  <1> QED
    BY <1>4, <1>5

LEMMA OffStep ==
    ASSUME OffInv, \A m \in Nodes : CacheChange(m) \/ Forgets(m)
    PROVE  OffInv'
  BY DEF OffInv, CacheChange, RoutesKept, Cleared, Unsettled, Computes, Forgets

CompleteAt(n) ==
    Settled(n) => \A s \in DOMAIN cache[n] :
        Range(ComputeDeviceIndices(n, s)) \subseteq Range(cache[n][s])

ExactAt(n) ==
    Settled(n) => \A s \in DOMAIN cache[n] : cache[n][s] = ComputeDeviceIndices(n, s)

\* Whether a node is settled depends on its own transports.
LEMMA SettledKept ==
    ASSUME NEW n \in Nodes, status'[n] = status[n], handling'[n] = handling[n]
    PROVE  Settled(n)' = Settled(n)
  BY DEF Settled, Failed

LEMMA CompleteStep ==
    ASSUME TypeInv, NEW n \in Nodes, CompleteAt(n), CacheChange(n) \/ Forgets(n)
    PROVE  CompleteAt(n)'
  <1>1. DOMAIN cache[n] \subseteq Services /\ records[n] \in Seq(DeviceRecord)
    BY DEF TypeInv, CacheType, RecordsType
  <1>2. CASE Cleared(n)
    BY <1>2, EmptyCacheType DEF Cleared, CompleteAt
  <1>3. CASE Unsettled(n)
    BY <1>3 DEF Unsettled, CompleteAt
  <1>4. CASE RoutesKept(n)
    <2>1. \A s \in DOMAIN cache[n] : ComputeDeviceIndices(n, s)' = ComputeDeviceIndices(n, s)
      BY <1>1, <1>4, ComputedRoutes DEF RoutesKept
    <2>2. Settled(n)' = Settled(n) /\ cache'[n] = cache[n]
      BY <1>4, SettledKept DEF RoutesKept
    <2> QED
      BY <2>1, <2>2 DEF CompleteAt
  <1>5. CASE Forgets(n)
    <2>1. \A s \in DOMAIN cache[n] :
             Range(ComputeDeviceIndices(n, s)') \subseteq Range(ComputeDeviceIndices(n, s))
      BY <1>1, <1>5, ComputedRoutes, RoutesWithout DEF Forgets
    <2>2. Settled(n)' = Settled(n) /\ cache'[n] = cache[n]
      BY <1>5, SettledKept DEF Forgets
    <2> QED
      BY <2>1, <2>2 DEF CompleteAt
  <1>6. CASE Computes(n)
    <2>1. PICK s \in Services : cache'[n] =
             [r \in DOMAIN cache[n] \cup {s} |->
                 IF r = s THEN ComputeDeviceIndices(n, s) ELSE cache[n][r]]
      BY <1>6 DEF Computes
    <2>2. \A r \in Services : ComputeDeviceIndices(n, r)' = ComputeDeviceIndices(n, r)
      BY <1>6, ComputedRoutes DEF Computes
    <2>3. Settled(n)' = Settled(n)
      BY <1>6, SettledKept DEF Computes
    <2> QED
      BY <1>1, <2>1, <2>2, <2>3 DEF CompleteAt
  <1> QED
    BY <1>2, <1>3, <1>4, <1>5, <1>6 DEF CacheChange

LEMMA ExactStep ==
    ASSUME TypeInv, NEW n \in Nodes, ExactAt(n), CacheChange(n)
    PROVE  ExactAt(n)'
  <1>1. DOMAIN cache[n] \subseteq Services
    BY DEF TypeInv, CacheType
  <1>2. CASE Cleared(n)
    BY <1>2, EmptyCacheType DEF Cleared, ExactAt
  <1>3. CASE Unsettled(n)
    BY <1>3 DEF Unsettled, ExactAt
  <1>4. CASE RoutesKept(n)
    <2>1. \A s \in DOMAIN cache[n] : ComputeDeviceIndices(n, s)' = ComputeDeviceIndices(n, s)
      BY <1>1, <1>4, ComputedRoutes DEF RoutesKept
    <2>2. Settled(n)' = Settled(n) /\ cache'[n] = cache[n]
      BY <1>4, SettledKept DEF RoutesKept
    <2> QED
      BY <2>1, <2>2 DEF ExactAt
  <1>5. CASE Computes(n)
    <2>1. PICK s \in Services : cache'[n] =
             [r \in DOMAIN cache[n] \cup {s} |->
                 IF r = s THEN ComputeDeviceIndices(n, s) ELSE cache[n][r]]
      BY <1>5 DEF Computes
    <2>2. \A r \in Services : ComputeDeviceIndices(n, r)' = ComputeDeviceIndices(n, r)
      BY <1>5, ComputedRoutes DEF Computes
    <2>3. Settled(n)' = Settled(n)
      BY <1>5, SettledKept DEF Computes
    <2> QED
      BY <1>1, <2>1, <2>2, <2>3 DEF ExactAt
  <1> QED
    BY <1>2, <1>3, <1>4, <1>5 DEF CacheChange

\* CompleteInv: the inductive strengthening of CacheComplete.
CompleteInv == TypeInv /\ OffInv /\ \A n \in Nodes : CompleteAt(n)

LEMMA CompleteInvHolds == Spec => []CompleteInv
  <1>1. Init => CompleteInv
    <2> SUFFICES ASSUME Init PROVE CompleteInv
      OBVIOUS
    <2>1. \A n \in Nodes : cache[n] = EmptyCache
      BY DEF Init
    <2> QED
      BY <2>1, InitType, EmptyCacheType DEF CompleteInv, OffInv, CompleteAt
  <1>2. CompleteInv /\ [Next]_vars => CompleteInv'
    <2> SUFFICES ASSUME CompleteInv, [Next]_vars PROVE CompleteInv'
      OBVIOUS
    <2>1. \A m \in Nodes : CacheChange(m) \/ Forgets(m)
      BY StepRoutes DEF CompleteInv
    <2>2. TypeInv' /\ OffInv'
      BY <2>1, StepType, OffStep DEF CompleteInv
    <2>3. \A n \in Nodes : CompleteAt(n)'
      BY <2>1, CompleteStep DEF CompleteInv
    <2> QED
      BY <2>2, <2>3 DEF CompleteInv
  <1> QED
    BY <1>1, <1>2, PTL DEF Spec

\* CacheStaysComplete: as long as no transport failure is being handled, every
\* device that computeDeviceIndices would find now is among the cached ones,
\* whatever gateways start, terminate and crash and whatever transports fail.
THEOREM CacheStaysComplete == Spec => []CacheComplete
  <1>1. CompleteInv => CacheComplete
    BY DEF CompleteInv, CompleteAt, Settled, CacheComplete
  <1> QED
    BY <1>1, CompleteInvHolds, PTL

-----------------------------------------------------------------------------
(***************************************************************************)
(* Without terminations the cache is exact.                                *)
(***************************************************************************)
News == {info \in Info : ~info.isTermination}

\* NewsInv: no gateway terminates, and no termination is on its way.
NewsInv ==
    /\ NetOf(News)
    /\ \A n \in Nodes : phase[n] \in {"off", "constructed", "running"}

LEMMA NewsType ==
    ASSUME TypeInv, NEW n \in Nodes
    PROVE  /\ News \in SUBSET Info /\ GenerateDiscoveryInfo(n) \in News
           /\ \A types \in SUBSET Types : DiscoveryInfo(n, types, FALSE) \in News
  <1>1. ASSUME NEW types \in SUBSET Types PROVE DiscoveryInfo(n, types, FALSE) \in News
    <2>1. DiscoveryInfo(n, types, FALSE) \in Info
      BY InfoType DEF TypeInv
    <2>2. DiscoveryInfo(n, types, FALSE).isTermination = FALSE
      BY Zenon DEF DiscoveryInfo
    <2> QED
      BY <2>1, <2>2, Zenon DEF News
  <1>2. bitset[n] \in SUBSET Types
    BY DEF TypeInv, TransportType
  <1> QED
    BY <1>1, <1>2 DEF News, GenerateDiscoveryInfo

LEMMA NewsSent ==
    ASSUME TypeInv, NEW n \in Nodes, NEW datagrams \in SUBSET Datagrams(News),
           NEW messages \in [Pipes -> Seq(Wire(News))],
           SendDiscoveryInfo(n, GenerateDiscoveryInfo(n), datagrams, messages)
    PROVE  NetOf(News)'
  BY NewsType, SendType

LEMMA NewsStep ==
    ASSUME MayStop = {}, TypeInv, NewsInv, [Next]_vars
    PROVE  NewsInv'
  <1> USE DEF userVars, localVars, remoteVars, transportVars, channelVars, netVars
  <1>a. net \in SUBSET Datagrams(News) /\ pipe \in [Pipes -> Seq(Wire(News))]
    BY DEF NewsInv, NetOf
  <1>b. phase \in [Nodes -> Phases]
    BY DEF TypeInv, GatewayType
  <1>1. ASSUME NEW n \in Nodes, NEW phs \in {"off", "constructed", "running"},
               phase' = [phase EXCEPT ![n] = phs]
        PROVE  \A m \in Nodes : phase'[m] \in {"off", "constructed", "running"}
    BY <1>b, <1>1 DEF NewsInv
  <1>2. CASE UNCHANGED <<phase, net, pipe>>
    BY <1>2 DEF NewsInv, NetOf
  <1>3. ASSUME NEW n \in Nodes, Start(n) \/ Crash(n) \/ MainThread(n) \/ WaitsetLoop(n)
        PROVE  NewsInv'
    <2>1. CASE Start(n)
      BY <1>1, <2>1 DEF Start, NewsInv, NetOf
    <2>2. CASE Crash(n) \/ Exit(n)
      <3>1. phase' = [phase EXCEPT ![n] = "off"] /\ net' = net
        BY <2>2 DEF Crash, Exit, Vanish
      <3>2. pipe' \in [Pipes -> Seq(Wire(News))]
        <4>1. pipe' = [k \in DOMAIN pipe |-> IF k[3] = n THEN <<>> ELSE pipe[k]]
          BY <2>2 DEF Crash, Exit, Vanish
        <4>2. <<>> \in Seq(Wire(News))
          OBVIOUS
        <4> QED
          BY <1>a, <4>1, <4>2
      <3> QED
        BY <1>1, <1>a, <3>1, <3>2 DEF NewsInv, NetOf
    <2>3. CASE Initialize(n)
      <3>1. NetOf(News)'
        BY <1>a, <2>3, NewsSent DEF Initialize
      <3> QED
        BY <1>1, <2>3, <3>1 DEF Initialize, NewsInv
    <2>4. ~Deinitialize(n)
      BY DEF Deinitialize, NewsInv
    <2>5. CASE SendIfChanged(n) /\ local[n].subscribers # lastSent[n]
      <3>1. NetOf(News)' /\ phase' = phase
        BY <1>a, <2>5, NewsSent DEF SendIfChanged
      <3> QED
        BY <3>1 DEF NewsInv
    <2>6. CASE WaitsetLoop(n) /\ ~(SendIfChanged(n) /\ local[n].subscribers # lastSent[n])
      <3>1. UNCHANGED <<phase, net, pipe>>
        BY <2>6 DEF WaitsetLoop, ReadPortSubscriber, UpdateTr2iox, UpdateIox2tr,
                    SendIfChanged, PublishIntrospection
      <3> QED
        BY <1>2, <3>1
    <2> QED
      BY <1>3, <2>1, <2>2, <2>3, <2>4, <2>5, <2>6 DEF MainThread
  <1>4. ASSUME NEW n \in Nodes, \E new \in PortStates[n] : ChangePorts(n, new)
        PROVE  NewsInv'
    BY <1>2, <1>4 DEF ChangePorts
  <1>5. ASSUME NEW n \in Nodes PROVE ~Terminate(n)
    BY DEF Terminate
  <1>6. ASSUME NEW n \in Nodes, NEW ty \in Types,
               \/ CallbackThread(n, ty) \/ HandleFailure(n, ty)
               \/ SetFailed(n, ty) \/ HasFailedSetDisabled(n, ty)
               \/ ResendDiscoveryInfoToTransport(n, ty)
        PROVE  NewsInv'
    <2>1. CASE FailCallback(n, ty)
      <3>1. phase' = phase
        BY <2>1 DEF FailCallback
      <3>2. CASE TerminateFlag(n)
        BY <1>2, <2>1, <3>2 DEF FailCallback
      <3>3. CASE ~TerminateFlag(n)
        <4>1. NetOf(News)'
          BY <1>a, <2>1, <3>3, NewsSent DEF FailCallback
        <4> QED
          BY <3>1, <4>1 DEF NewsInv
      <3> QED
        BY <3>2, <3>3
    <2>2. CASE ResendDiscoveryInfoToTransport(n, ty)
      <3>1. PICK types \in SUBSET Types, remaining \in SUBSET Types :
               Broadcast(n, types, <<DiscoveryInfo(n, remaining, FALSE)>>, net, pipe)
        <4>1. /\ {ty} \in SUBSET Types /\ Good(n) \in SUBSET Types
              /\ bitset[n] \in SUBSET Types /\ bitset[n] \ Failed(n) \in SUBSET Types
          BY DiscoveryAssumption DEF TypeInv, TransportType, Good
        <4> QED
          BY <2>2, <4>1 DEF ResendDiscoveryInfoToTransport, GenerateDiscoveryInfo
      <3> DEFINE info == DiscoveryInfo(n, remaining, FALSE)
      <3>2. info \in News
        BY NewsType
      <3>3. Broadcast(n, types, <<info>>, net, pipe)
        BY <3>1
      <3> HIDE DEF info
      <3>4. <<info>> \in Seq(News) /\ DOMAIN pipe = Pipes /\ News \in SUBSET Info
        BY <1>a, <3>2 DEF News
      <3>5. NetOf(News)'
        BY <1>a, <3>3, <3>4, BroadcastType
      <3>6. phase' = phase
        BY <2>2 DEF ResendDiscoveryInfoToTransport
      <3> QED
        BY <3>5, <3>6 DEF NewsInv
    <2>3. CASE CallbackThread(n, ty) \/ Disable(n, ty) \/ SetFailed(n, ty)
                  \/ HasFailedSetDisabled(n, ty)
      <3>1. UNCHANGED <<phase, net, pipe>>
        BY <2>3 DEF CallbackThread, UpdateTr2iox, UpdateIox2tr, Disable, SetFailed,
                    HasFailedSetDisabled
      <3> QED
        BY <1>2, <3>1
    <2> QED
      BY <1>6, <2>1, <2>2, <2>3 DEF HandleFailure
  <1>7. ASSUME NEW n \in Nodes, NEW ty \in Types, NEW from \in Nodes \ {n},
               ReceiveRemoteDiscoveryInfo(n, ty, from)
        PROVE  NewsInv'
    <2>1. PICK msg \in Arrivals(n, ty, from) :
             \/ ReceiveTermination(n, ty, msg)
             \/ ReceiveFromKnown(n, ty, msg)
             \/ ReceiveFromNew(n, ty, msg)
      BY <1>7 DEF ReceiveRemoteDiscoveryInfo
    <2>2. /\ msg.net \in SUBSET Datagrams(News) /\ msg.pipe \in [Pipes -> Seq(Wire(News))]
      BY ArrivalType DEF NewsInv, News
    <2>3. phase' = phase
      BY <1>7 DEF ReceiveRemoteDiscoveryInfo
    <2>4. CASE net' = msg.net /\ pipe' = msg.pipe
      BY <2>2, <2>3, <2>4 DEF NewsInv, NetOf
    <2>5. CASE SendDiscoveryInfo(n, GenerateDiscoveryInfo(n), msg.net, msg.pipe)
      <3>1. NetOf(News)'
        BY <2>2, <2>5, NewsSent
      <3> QED
        BY <2>3, <3>1 DEF NewsInv
    <2> QED
      BY <2>1, <2>4, <2>5 DEF ReceiveTermination, ReceiveFromKnown, ReceiveFromNew
  <1>8. ASSUME NEW n \in Nodes, NEW s \in Services, GenerateDeviceIndices(n, s)
        PROVE  NewsInv'
    BY <1>2, <1>8 DEF GenerateDeviceIndices
  <1>9. CASE LoseDatagram
    BY <1>9 DEF LoseDatagram, NewsInv, NetOf
  <1>10. CASE UNCHANGED vars
    BY <1>2, <1>10 DEF vars
  <1> QED
    BY <1>3, <1>4, <1>5, <1>6, <1>7, <1>8, <1>9, <1>10 DEF Next

\* ExactInv: the inductive strengthening of CacheExact.
ExactInv == TypeInv /\ OffInv /\ NewsInv /\ \A n \in Nodes : ExactAt(n)

LEMMA ExactInvHolds == ASSUME MayStop = {} PROVE Spec => []ExactInv
  <1>1. Init => ExactInv
    <2> SUFFICES ASSUME Init PROVE ExactInv
      OBVIOUS
    <2>1. \A n \in Nodes : cache[n] = EmptyCache
      BY DEF Init
    <2>2. NewsInv
      BY DEF Init, NewsInv, NetOf, Pipes
    <2> QED
      BY <2>1, <2>2, InitType, EmptyCacheType DEF ExactInv, OffInv, ExactAt
  <1>2. ExactInv /\ [Next]_vars => ExactInv'
    <2> SUFFICES ASSUME ExactInv, [Next]_vars PROVE ExactInv'
      OBVIOUS
    <2>1. ASSUME NEW n \in Nodes, NEW ty \in Types, NEW from \in Nodes,
                 NEW msg \in Arrivals(n, ty, from)
          PROVE  ~msg.info.isTermination
      <3>1. News \in SUBSET Info /\ NetOf(News)
        BY DEF ExactInv, NewsInv, News
      <3>2. msg.info \in News
        BY <3>1, ArrivalType
      <3> QED
        BY <3>2 DEF News
    <2>2. \A m \in Nodes : CacheChange(m)
      BY <2>1, StepRoutes DEF ExactInv
    <2>3. TypeInv' /\ OffInv' /\ NewsInv'
      BY <2>2, StepType, OffStep, NewsStep DEF ExactInv
    <2>4. \A n \in Nodes : ExactAt(n)'
      BY <2>2, ExactStep DEF ExactInv
    <2> QED
      BY <2>3, <2>4 DEF ExactInv
  <1> QED
    BY <1>1, <1>2, PTL DEF Spec

\* CacheStaysExact: if no gateway terminates in the orderly way, the cached
\* devices of a service are exactly those that computeDeviceIndices would find,
\* as long as no transport failure is being handled.  (The termination message
\* erases a record and leaves the cache as it is.)
THEOREM CacheStaysExact == ASSUME MayStop = {} PROVE Spec => []CacheExact
  <1>1. ExactInv => CacheExact
    BY DEF ExactInv, ExactAt, Settled, CacheExact
  <1> QED
    BY <1>1, ExactInvHolds, PTL

-----------------------------------------------------------------------------
(***************************************************************************)
(* A gateway that has terminated is forgotten.                             *)
(***************************************************************************)
\* Two nodes that have one transport, and that one is reliable.
Link(n, m, ty) ==
    /\ n \in Nodes /\ m \in Nodes \ ({n} \cup MayCrash) /\ ty \in Types \ Lossy
    /\ EnabledTypes[n] = {ty} /\ EnabledTypes[m] = {ty}

Knows(recs, h) == \E i \in 1 .. Len(recs) : recs[i].info.gatewayHash = h
Mentions(q, h) == \E i \in 1 .. Len(q) : Deserialize(q[i]).gatewayHash = h

\* The last message of a gateway that is on its way is its termination.
Followed(q, h) ==
    \E i \in 1 .. Len(q) :
        /\ Deserialize(q[i]).gatewayHash = h /\ Deserialize(q[i]).isTermination
        /\ \A j \in i + 1 .. Len(q) : Deserialize(q[j]).gatewayHash # h

\* FollowedAt: the inductive strengthening of TerminatedForgotten, for gateway h
\* of node m, and node n.
FollowedAt(n, m, ty, h) ==
    HasTerminated(h) /\ (Knows(records[n], h) \/ Mentions(pipe[<<ty, m, n>>], h)) =>
        Followed(pipe[<<ty, m, n>>], h)

FollowedInv ==
    \A n, m \in Nodes, ty \in Types : Link(n, m, ty) =>
        \A h \in GatewayHashes : h[1] = m => FollowedAt(n, m, ty, h)

\* It needs: the discovery thread runs between initialize and deinitialize;
QuietInv ==
    \A n \in Nodes :
        phase[n] \notin {"running", "stopping"} => task[n][DiscoveryThread].stage = "idle"

\* a node without gateway knows nothing and is sent nothing;
GoneInv ==
    \A n \in Nodes : phase[n] = "off" =>
        records[n] = <<>> /\ \A k \in Pipes : k[3] = n => pipe[k] = <<>>

\* a gateway sends its own hash;
SenderInv ==
    \A k \in Pipes : \A i \in 1 .. Len(pipe[k]) : Deserialize(pipe[k][i]).gatewayHash[1] = k[2]

\* there is one record for a hash;
UniqueRecords(recs) ==
    \A i, j \in 1 .. Len(recs) : recs[i].info.gatewayHash = recs[j].info.gatewayHash => i = j

UniqueInv == \A n \in Nodes : UniqueRecords(records[n])

\* and the transports of a node that has only reliable ones are good.
OnlyReliable(n) == EnabledTypes[n] \cap Lossy = {}

GoodInv ==
    \A n \in Nodes : OnlyReliable(n) =>
        \A ty \in Types : status[n][ty] = "GOOD" /\ handling[n][ty] = "none"

\* No reliable transport fails.
Reliable == \A n \in Nodes, ty \in Types \ Lossy : <<n, ty>> \notin Failable

\* Sequence r is q with messages of gateway h behind it.
Extends(q, r, h) ==
    /\ Len(q) <= Len(r)
    /\ \A i \in 1 .. Len(q) : r[i] = q[i]
    /\ \A i \in Len(q) + 1 .. Len(r) : Deserialize(r[i]).gatewayHash = h

\* Sequence r is q with these infos behind it.
Continues(q, r, infos) ==
    /\ Len(r) = Len(q) + Len(infos)
    /\ \A i \in 1 .. Len(q) : r[i] = q[i]
    /\ \A i \in 1 .. Len(infos) : Deserialize(r[Len(q) + i]) = infos[i]

LEMMA ExtendsItself ==
    ASSUME NEW S, NEW q \in Seq(S), NEW h PROVE Extends(q, q, h)
  BY DEF Extends

\* These bytes are the infos, serialized.
Decodes(b, infos) ==
    Len(b) = Len(infos) /\ \A i \in 1 .. Len(infos) : Deserialize(b[i]) = infos[i]

LEMMA Concatenated ==
    ASSUME NEW S, NEW q \in Seq(S), NEW b \in Seq(S), NEW infos, Decodes(b, infos)
    PROVE  Continues(q, q \o b, infos)
  <1>1. /\ Len(q \o b) = Len(q) + Len(b)
        /\ \A i \in 1 .. Len(q) : (q \o b)[i] = q[i]
        /\ \A i \in 1 .. Len(b) : (q \o b)[Len(q) + i] = b[i]
    OBVIOUS
  <1>2. PICK r : r = q \o b
    OBVIOUS
  <1> QED
    BY <1>1, <1>2 DEF Continues, Decodes

\* What a broadcast does to the messages on their way.
LEMMA BroadcastPipes ==
    ASSUME DOMAIN pipe = Pipes, NEW n \in Nodes, NEW types, NEW infos \in Seq(Info),
           NEW datagrams, NEW messages \in [Pipes -> Seq(Wire(Info))],
           Broadcast(n, types, infos, datagrams, messages), NEW k \in Pipes
    PROVE  /\ k[1] \in types /\ k[2] = n /\ k[3] # n /\ Up(k[3]) =>
                 Continues(messages[k], pipe'[k], infos)
           /\ ~(k[1] \in types /\ k[2] = n /\ k[3] # n /\ Up(k[3])) =>
                 pipe'[k] = messages[k]
  <1> DEFINE bytes == [i \in DOMAIN infos |-> Serialize(infos[i])]
  <1>1. /\ bytes \in Seq(Wire(Info)) /\ Len(bytes) = Len(infos)
        /\ \A i \in 1 .. Len(infos) : bytes[i] = Serialize(infos[i])
    <2>1. \A i \in 1 .. Len(infos) : Serialize(infos[i]) \in Wire(Info)
      BY DEF Wire
    <2> QED
      BY <2>1
  <1>2. \A i \in 1 .. Len(infos) : Deserialize(bytes[i]) = infos[i]
    BY <1>1, RoundTrip
  <1>3. pipe'[k] = IF k[1] \in types /\ k[2] = n /\ k[3] # n /\ Up(k[3])
                   THEN messages[k] \o bytes ELSE messages[k]
    BY DEF Broadcast
  <1> HIDE DEF bytes
  <1>4. CASE k[1] \in types /\ k[2] = n /\ k[3] # n /\ Up(k[3])
    <2>1. PICK q \in Seq(Wire(Info)) : q = messages[k]
      OBVIOUS
    <2>2. pipe'[k] = q \o bytes
      BY <1>3, <1>4, <2>1
    <2>3. bytes \in Seq(Wire(Info)) /\ Len(bytes) = Len(infos)
      BY <1>1
    <2>4. Continues(q, q \o bytes, infos)
      BY <1>2, <2>3, Concatenated DEF Decodes
    <2> QED
      BY <1>4, <2>1, <2>2, <2>4
  <1>5. CASE ~(k[1] \in types /\ k[2] = n /\ k[3] # n /\ Up(k[3]))
    BY <1>3, <1>5
  <1> QED
    BY <1>4, <1>5

\* sendDiscoveryInfo of an info of its own.
LEMMA SendPipes ==
    ASSUME TypeInv, NEW n \in Nodes, NEW types \in SUBSET Types, NEW b \in BOOLEAN,
           NEW datagrams, NEW messages \in [Pipes -> Seq(Wire(Info))],
           SendDiscoveryInfo(n, DiscoveryInfo(n, types, b), datagrams, messages),
           NEW k \in Pipes
    PROVE  /\ k[2] # n \/ ~Up(k[3]) => pipe'[k] = messages[k]
           /\ k[2] = n => Extends(messages[k], pipe'[k], Hash(n))
  <1> DEFINE remaining == bitset[n] \ Failed(n)
             first == DiscoveryInfo(n, types, b)
             second == DiscoveryInfo(n, remaining, FALSE)
             infos == IF Failed(n) = {} \/ TerminateFlag(n) THEN <<first>> ELSE <<first, second>>
  <1>1. Broadcast(n, Good(n), infos, datagrams, messages)
    BY DEF SendDiscoveryInfo
  <1>2. remaining \in SUBSET Types
    BY DEF TypeInv, TransportType
  <1>3. first \in Info /\ second \in Info
    BY <1>2, InfoType DEF TypeInv
  <1>4. first.gatewayHash = Hash(n) /\ second.gatewayHash = Hash(n)
    BY Zenon DEF DiscoveryInfo
  <1> HIDE DEF first, second
  <1>5. infos \in Seq(Info) /\ \A i \in 1 .. Len(infos) : infos[i].gatewayHash = Hash(n)
    BY <1>3, <1>4
  <1> HIDE DEF infos
  <1>6. DOMAIN pipe = Pipes
    BY DEF TypeInv, NetType, NetOf
  <1>7. CASE k[1] \in Good(n) /\ k[2] = n /\ k[3] # n /\ Up(k[3])
    <2>1. PICK q, r : q = messages[k] /\ r = pipe'[k] /\ Continues(q, r, infos)
      BY <1>1, <1>5, <1>6, <1>7, BroadcastPipes
    <2>2. q \in Seq(Wire(Info))
      BY <2>1
    <2>3. Len(q) \in Nat /\ Len(infos) \in Nat /\ Len(r) = Len(q) + Len(infos)
      BY <1>5, <2>1, <2>2 DEF Continues
    <2>4. ASSUME NEW i \in Len(q) + 1 .. Len(r)
          PROVE  Deserialize(r[i]).gatewayHash = Hash(n)
      <3>1. i - Len(q) \in 1 .. Len(infos) /\ Len(q) + (i - Len(q)) = i
        BY <2>3
      <3>2. Deserialize(r[Len(q) + (i - Len(q))]) = infos[i - Len(q)]
        BY <2>1, <3>1 DEF Continues
      <3> QED
        BY <1>5, <3>1, <3>2
    <2>5. Extends(q, r, Hash(n))
      BY <2>1, <2>3, <2>4 DEF Extends, Continues
    <2> QED
      BY <1>7, <2>1, <2>5
  <1>8. CASE ~(k[1] \in Good(n) /\ k[2] = n /\ k[3] # n /\ Up(k[3]))
    <2>1. pipe'[k] = messages[k]
      BY <1>1, <1>5, <1>6, <1>8, BroadcastPipes
    <2>2. messages[k] \in Seq(Wire(Info))
      OBVIOUS
    <2> QED
      BY <2>1, <2>2, ExtendsItself
  <1> QED
    BY <1>7, <1>8

(***************************************************************************)
(* What the steps do to the messages on their way and to the records.      *)
(***************************************************************************)

\* Node p sends something of its own.
Sends(p, messages) ==
    \A k \in Pipes :
        /\ k[2] # p \/ ~Up(k[3]) => pipe'[k] = messages[k]
        /\ k[2] = p => Extends(messages[k], pipe'[k], Hash(p))

Quiet == UNCHANGED <<phase, epoch, records, pipe>>

Begins(p) ==
    /\ phase[p] = "off" /\ phase' = [phase EXCEPT ![p] = "constructed"]
    /\ epoch' = [epoch EXCEPT ![p] = @ + 1] /\ UNCHANGED <<records, pipe>>

\* A step of a gateway that has not terminated; one of a node that has lossy
\* transports may also be late.
Talks(p) ==
    /\ phase[p] \in {"constructed", "running", "stopping"} \/ ~OnlyReliable(p)
    /\ \A x \in Nodes : phase'[x] = phase[x] \/ phase'[x] \in {"running", "stopping"}
    /\ Sends(p, pipe) /\ UNCHANGED <<epoch, records>>

Ends(p) ==
    /\ phase[p] = "stopping" /\ phase' = [phase EXCEPT ![p] = "terminated"]
    /\ SendDiscoveryInfo(p, DiscoveryInfo(p, bitset[p], TRUE), net, pipe)
    /\ UNCHANGED <<epoch, records>>

Leaves(p) == (phase[p] = "terminated" \/ p \in MayCrash) /\ Vanish(p)

\* The records of p after a message.
Learns(p, info) ==
    /\ \A h : Knows(records'[p], h) =>
          IF h = info.gatewayHash THEN ~info.isTermination ELSE Knows(records[p], h)
    /\ UniqueRecords(records'[p])
    /\ \A x \in Nodes \ {p} : records'[x] = records[x]

Hears(p, ty, from) ==
    /\ ty \in EnabledTypes[p] /\ Up(p) /\ UNCHANGED <<phase, epoch>>
    /\ \E msg \in Arrivals(p, ty, from) :
          /\ Learns(p, msg.info)
          /\ \/ pipe' = msg.pipe
             \/ /\ phase[p] \in {"constructed", "running"}
                /\ Sends(p, msg.pipe)

LEMMA SendSends ==
    ASSUME TypeInv, NEW p \in Nodes, NEW datagrams,
           NEW messages \in [Pipes -> Seq(Wire(Info))],
           SendDiscoveryInfo(p, GenerateDiscoveryInfo(p), datagrams, messages)
    PROVE  Sends(p, messages)
  <1>1. bitset[p] \in SUBSET Types /\ FALSE \in BOOLEAN
    BY DEF TypeInv, TransportType
  <1>2. SendDiscoveryInfo(p, DiscoveryInfo(p, bitset[p], FALSE), datagrams, messages)
    BY DEF GenerateDiscoveryInfo
  <1> QED
    BY <1>1, <1>2, SendPipes DEF Sends

\* Which kind of step an action is.
LEMMA LifeCycleKinds ==
    ASSUME TypeInv, NEW n \in Nodes
    PROVE  /\ Start(n) => Begins(n)
           /\ Terminate(n) => Talks(n)
           /\ Crash(n) \/ Exit(n) => Leaves(n)
           /\ Deinitialize(n) => Ends(n)
           /\ Initialize(n) => Talks(n)
  <1> USE DEF userVars, localVars, remoteVars, transportVars, channelVars, netVars
  <1>1. /\ phase \in [Nodes -> Phases] /\ pipe \in [Pipes -> Seq(Wire(Info))]
    BY DEF TypeInv, GatewayType, NetType, NetOf
  <1>2. Start(n) => Begins(n)
    BY DEF Start, Begins
  <1>3. ASSUME Terminate(n) PROVE Talks(n)
    <2>1. Sends(n, pipe)
      BY <1>1, <1>3, ExtendsItself DEF Terminate, Sends
    <2> QED
      BY <1>1, <1>3, <2>1 DEF Terminate, Talks
  <1>4. Crash(n) \/ Exit(n) => Leaves(n)
    BY DEF Crash, Exit, Leaves
  <1>5. Deinitialize(n) => Ends(n)
    BY DEF Deinitialize, Ends
  <1>6. ASSUME Initialize(n) PROVE Talks(n)
    <2>1. Sends(n, pipe)
      BY <1>1, <1>6, SendSends DEF Initialize
    <2> QED
      BY <1>1, <1>6, <2>1 DEF Initialize, Talks
  <1> QED
    BY <1>2, <1>3, <1>4, <1>5, <1>6

LEMMA LocalKinds ==
    ASSUME TypeInv, QuietInv, NEW n \in Nodes, NEW k \in ThreadsOf
    PROVE  /\ (\E new \in PortStates[n] : ChangePorts(n, new)) => Quiet
           /\ ReadPortSubscriber(n) => Quiet
           /\ UpdateTr2iox(n, k) \/ UpdateIox2tr(n, k) => Quiet
           /\ PublishIntrospection(n) => Quiet
           /\ SendIfChanged(n) => Quiet \/ Talks(n)
           /\ \A s \in Services : GenerateDeviceIndices(n, s) => Quiet
           /\ LoseDatagram \/ UNCHANGED vars => Quiet
  <1> USE DEF userVars, localVars, remoteVars, transportVars, channelVars, netVars
  <1>1. (\E new \in PortStates[n] : ChangePorts(n, new)) \/ ReadPortSubscriber(n) => Quiet
    BY DEF ChangePorts, ReadPortSubscriber, Quiet
  <1>2. UpdateTr2iox(n, k) \/ UpdateIox2tr(n, k) \/ PublishIntrospection(n) => Quiet
    BY DEF UpdateTr2iox, UpdateIox2tr, PublishIntrospection, Quiet
  <1>3. \A s \in Services : GenerateDeviceIndices(n, s) => Quiet
    BY DEF GenerateDeviceIndices, Quiet
  <1>4. LoseDatagram \/ UNCHANGED vars => Quiet
    BY DEF LoseDatagram, vars, Quiet
  <1>5. ASSUME SendIfChanged(n), local[n].subscribers = lastSent[n] PROVE Quiet
    BY <1>5 DEF SendIfChanged, Quiet
  <1>6. ASSUME SendIfChanged(n), local[n].subscribers # lastSent[n] PROVE Talks(n)
    <2>1. pipe \in [Pipes -> Seq(Wire(Info))]
      BY DEF TypeInv, NetType, NetOf
    <2>2. Sends(n, pipe)
      BY <1>6, <2>1, SendSends DEF SendIfChanged
    <2>3. phase[n] \in {"running", "stopping"}
      BY <1>6 DEF SendIfChanged, QuietInv
    <2> QED
      BY <1>6, <2>2, <2>3 DEF SendIfChanged, Talks
  <1> QED
    BY <1>1, <1>2, <1>3, <1>4, <1>5, <1>6

LEMMA FailureKinds ==
    ASSUME TypeInv, GoodInv, NEW n \in Nodes, NEW ty \in Types
    PROVE  /\ SetFailed(n, ty) \/ HasFailedSetDisabled(n, ty) \/ Disable(n, ty) => Quiet
           /\ FailCallback(n, ty) => Quiet \/ Talks(n)
           /\ ResendDiscoveryInfoToTransport(n, ty) => Talks(n)
  <1> USE DEF userVars, localVars, remoteVars, transportVars, channelVars, netVars
  <1>1. SetFailed(n, ty) \/ HasFailedSetDisabled(n, ty) \/ Disable(n, ty) => Quiet
    BY DEF SetFailed, HasFailedSetDisabled, Disable, Quiet
  <1>2. pipe \in [Pipes -> Seq(Wire(Info))]
    BY DEF TypeInv, NetType, NetOf
  <1>3. ASSUME FailCallback(n, ty), TerminateFlag(n) PROVE Quiet
    BY <1>3 DEF FailCallback, Quiet
  <1>4. ASSUME FailCallback(n, ty), ~TerminateFlag(n) PROVE Talks(n)
    <2>1. Sends(n, pipe)
      BY <1>2, <1>4, SendSends DEF FailCallback
    <2>2. ~OnlyReliable(n)
      BY <1>4 DEF FailCallback, GoodInv
    <2> QED
      BY <1>4, <2>1, <2>2 DEF FailCallback, Talks
  <1>5. ASSUME ResendDiscoveryInfoToTransport(n, ty) PROVE Talks(n)
    <2>1. PICK types \in SUBSET Types, remaining \in SUBSET Types :
             Broadcast(n, types, <<DiscoveryInfo(n, remaining, FALSE)>>, net, pipe)
      <3>1. /\ {ty} \in SUBSET Types /\ Good(n) \in SUBSET Types
            /\ bitset[n] \in SUBSET Types /\ bitset[n] \ Failed(n) \in SUBSET Types
        BY DiscoveryAssumption DEF TypeInv, TransportType, Good
      <3> QED
        BY <1>5, <3>1 DEF ResendDiscoveryInfoToTransport, GenerateDiscoveryInfo
    <2> DEFINE info == DiscoveryInfo(n, remaining, FALSE)
    <2>2. info \in Info /\ info.gatewayHash = Hash(n)
      <3>1. info \in Info
        BY InfoType DEF TypeInv
      <3>2. info.gatewayHash = Hash(n)
        BY Zenon DEF DiscoveryInfo
      <3> QED
        BY <3>1, <3>2
    <2>3. Broadcast(n, types, <<info>>, net, pipe)
      BY <2>1
    <2> HIDE DEF info
    <2>4. <<info>> \in Seq(Info) /\ DOMAIN pipe = Pipes
      BY <1>2, <2>2
    <2>5. ASSUME NEW k \in Pipes
          PROVE  /\ k[2] # n \/ ~Up(k[3]) => pipe'[k] = pipe[k]
                 /\ k[2] = n => Extends(pipe[k], pipe'[k], Hash(n))
      <3>1. pipe[k] \in Seq(Wire(Info))
        BY <1>2
      <3>2. ASSUME Continues(pipe[k], pipe'[k], <<info>>)
            PROVE  Extends(pipe[k], pipe'[k], Hash(n))
        <4>1. PICK q, r : q = pipe[k] /\ r = pipe'[k] /\ q \in Seq(Wire(Info))
          BY <3>1
        <4>2. /\ Len(q) \in Nat /\ Len(r) = Len(q) + 1 /\ \A i \in 1 .. Len(q) : r[i] = q[i]
              /\ Deserialize(r[Len(q) + 1]) = info
          BY <3>2, <4>1 DEF Continues
        <4> QED
          BY <2>2, <4>1, <4>2 DEF Extends
      <3> QED
        BY <1>2, <2>3, <2>4, <3>1, <3>2, BroadcastPipes, ExtendsItself
    <2>6. ~OnlyReliable(n)
      BY <1>5 DEF ResendDiscoveryInfoToTransport, OnlyReliable
    <2> QED
      BY <1>5, <2>5, <2>6 DEF ResendDiscoveryInfoToTransport, Talks, Sends
  <1> QED
    BY <1>1, <1>3, <1>4, <1>5

\* A record that is erased, written over, or new.
LEMMA ErasedKnows ==
    ASSUME NEW S, NEW q \in Seq(S), UniqueRecords(q), NEW j \in 1 .. Len(q)
    PROVE  /\ UniqueRecords(RemoveAt(q, j))
           /\ \A h : Knows(RemoveAt(q, j), h) => h # q[j].info.gatewayHash /\ Knows(q, h)
  <1>1. PICK r : r = RemoveAt(q, j)
    OBVIOUS
  <1>2. /\ r \in Seq(S) /\ Len(r) = Len(q) - 1
        /\ \A i \in 1 .. Len(q) - 1 : r[i] = IF i < j THEN q[i] ELSE q[i + 1]
    BY <1>1, Erased, Zenon
  <1>3. Len(q) \in Nat /\ j \in Nat /\ j > 0 /\ j <= Len(q)
    OBVIOUS
  <1> DEFINE old(i) == IF i < j THEN i ELSE i + 1
  <1>4. ASSUME NEW i \in 1 .. Len(r)
        PROVE  old(i) \in 1 .. Len(q) /\ old(i) # j /\ r[i] = q[old(i)]
    BY <1>2, <1>3
  <1>5. \A a, b \in 1 .. Len(r) : old(a) = old(b) => a = b
    BY <1>2, <1>3
  <1> HIDE DEF old
  <1>6. UniqueRecords(r)
    BY <1>4, <1>5 DEF UniqueRecords
  <1>7. \A h : Knows(r, h) => h # q[j].info.gatewayHash /\ Knows(q, h)
    BY <1>4 DEF Knows, UniqueRecords
  <1> QED
    BY <1>1, <1>6, <1>7

LEMMA WrittenKnows ==
    ASSUME NEW S, NEW q \in Seq(S), UniqueRecords(q), NEW j \in 1 .. Len(q), NEW r,
           \A i \in 1 .. Len(q) : q[i].info.gatewayHash = r.info.gatewayHash => i = j
    PROVE  /\ UniqueRecords([q EXCEPT ![j] = r])
           /\ \A h : Knows([q EXCEPT ![j] = r], h) => h = r.info.gatewayHash \/ Knows(q, h)
  BY DEF UniqueRecords, Knows

LEMMA AppendedKnows ==
    ASSUME NEW S, NEW q \in Seq(S), UniqueRecords(q), NEW r \in S,
           ~Knows(q, r.info.gatewayHash)
    PROVE  /\ UniqueRecords(Append(q, r))
           /\ \A h : Knows(Append(q, r), h) => h = r.info.gatewayHash \/ Knows(q, h)
  BY DEF UniqueRecords, Knows

\* What receiveRemoteDiscoveryInfo makes of the records.
LEMMA ReceiveLearns ==
    ASSUME TypeInv, UniqueInv, NEW n \in Nodes, NEW ty \in Types, NEW msg, msg.info \in Info,
           \/ ReceiveTermination(n, ty, msg)
           \/ ReceiveFromKnown(n, ty, msg)
           \/ ReceiveFromNew(n, ty, msg)
    PROVE  Learns(n, msg.info)
  <1>1. PICK q \in Seq(DeviceRecord) : q = records[n]
    BY DEF TypeInv, RecordsType
  <1>2. DOMAIN records = Nodes /\ UniqueRecords(q) /\ Len(q) <= MAX_DEVICE_COUNT
    BY <1>1 DEF TypeInv, RecordsType, UniqueInv
  <1>3. PICK hash : hash = msg.info.gatewayHash
    OBVIOUS
  <1>4. RecordIndex(n, hash) = {i \in 1 .. Len(q) : q[i].info.gatewayHash = hash}
    BY <1>1 DEF RecordIndex
  <1>5. SUFFICES ASSUME NEW r, records' = [records EXCEPT ![n] = r],
                        UniqueRecords(r),
                        \A h : Knows(r, h) =>
                            IF h = hash THEN ~msg.info.isTermination ELSE Knows(q, h)
                 PROVE  Learns(n, msg.info)
    <2>1. CASE ReceiveTermination(n, ty, msg) /\ RecordIndex(n, hash) = {}
      <3>1. records' = records
        BY <1>3, <2>1 DEF ReceiveTermination
      <3>2. records' = [records EXCEPT ![n] = q]
        BY <1>1, <1>2, <3>1 DEF TypeInv, RecordsType
      <3>3. ~Knows(q, hash)
        BY <1>4, <2>1 DEF Knows
      <3> QED
        BY <1>2, <1>5, <3>2, <3>3
    <2>2. CASE ReceiveTermination(n, ty, msg) /\ RecordIndex(n, hash) # {}
      <3>1. PICK i \in RecordIndex(n, hash) :
               records' = [records EXCEPT ![n] = RemoveAt(records[n], i)]
        BY <1>3, <2>2 DEF ReceiveTermination
      <3>2. i \in 1 .. Len(q) /\ q[i].info.gatewayHash = hash
        BY <1>4
      <3>3. PICK r : r = RemoveAt(q, i)
        OBVIOUS
      <3>4. UniqueRecords(r) /\ \A h : Knows(r, h) => h # hash /\ Knows(q, h)
        BY <1>2, <3>2, <3>3, ErasedKnows
      <3> QED
        BY <1>1, <1>5, <3>1, <3>3, <3>4
    <2>3. CASE ReceiveFromKnown(n, ty, msg)
      <3>1. PICK i \in RecordIndex(n, hash),
                 r \in [info : {msg.info}, deviceIndices : SUBSET DeviceIndex] :
               records' = [records EXCEPT ![n] = [q EXCEPT ![i] = r]]
        <4>1. PICK i \in RecordIndex(n, hash) :
                 records' = [records EXCEPT ![n][i] =
                    [info |-> msg.info,
                     deviceIndices |-> StoreIndex(records[n][i].deviceIndices,
                                                  <<ty, msg.info.gatewayHash[1]>>)]]
          BY <1>3, <2>3 DEF ReceiveFromKnown
        <4>2. q[i].deviceIndices \in SUBSET DeviceIndex
          BY <1>4, RecordFields
        <4>3. PICK indices \in SUBSET DeviceIndex :
                 indices = StoreIndex(records[n][i].deviceIndices, <<ty, msg.info.gatewayHash[1]>>)
          BY <1>1, <4>2, SenderIndex, StoreIndexType
        <4>4. records' = [records EXCEPT ![n] = [q EXCEPT ![i] =
                              [info |-> msg.info, deviceIndices |-> indices]]]
          BY <1>1, <4>1, <4>3
        <4> QED
          BY <4>4
      <3>2. i \in 1 .. Len(q) /\ q[i].info.gatewayHash = hash /\ r.info = msg.info
        BY <1>4
      <3>3. \A j \in 1 .. Len(q) : q[j].info.gatewayHash = r.info.gatewayHash => j = i
        BY <1>2, <1>3, <3>2 DEF UniqueRecords
      <3>4. /\ UniqueRecords([q EXCEPT ![i] = r])
            /\ \A h : Knows([q EXCEPT ![i] = r], h) => h = hash \/ Knows(q, h)
        BY <1>2, <1>3, <3>2, <3>3, WrittenKnows
      <3>5. ~msg.info.isTermination
        BY <2>3 DEF ReceiveFromKnown
      <3> QED
        BY <1>5, <3>1, <3>4, <3>5
    <2>4. CASE ReceiveFromNew(n, ty, msg)
      <3>1. ~msg.info.isTermination /\ RecordIndex(n, hash) = {}
        BY <1>3, <2>4 DEF ReceiveFromNew
      <3>2. /\ ~Knows(q, hash) /\ \A i \in 1 .. Len(q) : q[i].info.gatewayHash # hash
        BY <1>4, <3>1 DEF Knows
      <3>3. PICK index \in DeviceIndex : index = <<ty, msg.info.gatewayHash[1]>>
        BY SenderIndex
      <3>4. records' = [records EXCEPT ![n] = RecordsWithNew(n, msg.info, index)]
        BY <2>4, <3>3 DEF ReceiveFromNew
      <3>5. CASE Len(q) < MAX_DEVICE_COUNT
        <4>1. PICK r \in DeviceRecord : r = [info |-> msg.info, deviceIndices |-> {index}]
          BY RecordType
        <4>2. RecordsWithNew(n, msg.info, index) = Append(q, r) /\ r.info = msg.info
          BY <1>1, <3>5, <4>1 DEF RecordsWithNew
        <4>3. /\ UniqueRecords(Append(q, r))
              /\ \A h : Knows(Append(q, r), h) => h = hash \/ Knows(q, h)
          BY <1>2, <1>3, <3>2, <4>2, AppendedKnows
        <4> QED
          BY <1>5, <3>1, <3>4, <4>2, <4>3
      <3>6. CASE ~(Len(q) < MAX_DEVICE_COUNT)
        <4>1. MAX_DEVICE_COUNT \in 1 .. Len(q)
          BY <1>2, <3>6, DiscoveryAssumption
        <4>2. PICK r : /\ r = [info |-> msg.info, deviceIndices |->
                                  StoreIndex(q[MAX_DEVICE_COUNT].deviceIndices, index)]
          OBVIOUS
        <4>3. /\ RecordsWithNew(n, msg.info, index) = [q EXCEPT ![MAX_DEVICE_COUNT] = r]
              /\ r.info = msg.info
          BY <1>1, <3>6, <4>2 DEF RecordsWithNew
        <4>4. /\ UniqueRecords([q EXCEPT ![MAX_DEVICE_COUNT] = r])
              /\ \A h : Knows([q EXCEPT ![MAX_DEVICE_COUNT] = r], h) => h = hash \/ Knows(q, h)
          BY <1>2, <1>3, <3>2, <4>1, <4>3, WrittenKnows
        <4> QED
          BY <1>5, <3>1, <3>4, <4>3, <4>4
      <3> QED
        BY <3>5, <3>6
    <2> QED
      BY <2>1, <2>2, <2>3, <2>4
  <1>6. records'[n] = r /\ \A x \in Nodes \ {n} : records'[x] = records[x]
    BY <1>2, <1>5
  <1> QED
    BY <1>1, <1>3, <1>5, <1>6 DEF Learns

LEMMA ReceiveKinds ==
    ASSUME TypeInv, UniqueInv, NEW n \in Nodes, NEW ty \in Types, NEW from \in Nodes \ {n},
           ReceiveRemoteDiscoveryInfo(n, ty, from)
    PROVE  Hears(n, ty, from)
  <1>1. PICK msg \in Arrivals(n, ty, from) :
           \/ ReceiveTermination(n, ty, msg)
           \/ ReceiveFromKnown(n, ty, msg)
           \/ ReceiveFromNew(n, ty, msg)
    BY DEF ReceiveRemoteDiscoveryInfo
  <1>2. msg.info \in Info /\ msg.pipe \in [Pipes -> Seq(Wire(Info))]
    BY ArrivalType DEF TypeInv, NetType
  <1>3. Learns(n, msg.info)
    BY <1>1, <1>2, ReceiveLearns
  <1>4. /\ ty \in EnabledTypes[n] /\ phase[n] # "off" /\ UNCHANGED <<phase, epoch>>
    BY DEF ReceiveRemoteDiscoveryInfo, Up
  <1>5. phase[n] \in Phases
    BY DEF TypeInv, GatewayType
  <1>6. \/ pipe' = msg.pipe
        \/ phase[n] \in {"constructed", "running"} /\ Sends(n, msg.pipe)
    <2>1. \/ pipe' = msg.pipe
          \/ /\ ~TerminateFlag(n)
             /\ SendDiscoveryInfo(n, GenerateDiscoveryInfo(n), msg.net, msg.pipe)
      BY <1>1 DEF ReceiveTermination, ReceiveFromKnown, ReceiveFromNew
    <2>2. ASSUME SendDiscoveryInfo(n, GenerateDiscoveryInfo(n), msg.net, msg.pipe)
          PROVE  Sends(n, msg.pipe)
      BY <1>2, <2>2, SendSends
    <2>3. ~TerminateFlag(n) => phase[n] \in {"constructed", "running"}
      BY <1>4, <1>5 DEF TerminateFlag, Phases
    <2> QED
      BY <2>1, <2>2, <2>3
  <1> QED
    BY <1>3, <1>4, <1>6 DEF Hears, Up

LEMMA StepKinds ==
    ASSUME TypeInv, QuietInv, GoodInv, UniqueInv, [Next]_vars
    PROVE  \/ Quiet
           \/ \E p \in Nodes : Begins(p) \/ Talks(p) \/ Ends(p) \/ Leaves(p)
           \/ \E p \in Nodes, ty \in Types, from \in Nodes : from # p /\ Hears(p, ty, from)
  <1> USE DEF ThreadsOf
  <1>1. ASSUME NEW n \in Nodes,
               Start(n) \/ Terminate(n) \/ Crash(n) \/ MainThread(n)
        PROVE  Begins(n) \/ Talks(n) \/ Ends(n) \/ Leaves(n)
    BY <1>1, LifeCycleKinds DEF MainThread
  <1>2. ASSUME NEW n \in Nodes,
               \/ WaitsetLoop(n)
               \/ \E new \in PortStates[n] : ChangePorts(n, new)
               \/ \E s \in Services : GenerateDeviceIndices(n, s)
        PROVE  Quiet \/ Talks(n)
    BY <1>2, LocalKinds DEF WaitsetLoop
  <1>3. ASSUME NEW n \in Nodes, NEW ty \in Types,
               \/ CallbackThread(n, ty) \/ HandleFailure(n, ty)
               \/ SetFailed(n, ty) \/ HasFailedSetDisabled(n, ty)
               \/ ResendDiscoveryInfoToTransport(n, ty)
        PROVE  Quiet \/ Talks(n)
    BY <1>3, LocalKinds, FailureKinds DEF CallbackThread, HandleFailure
  <1>4. ASSUME LoseDatagram \/ UNCHANGED vars PROVE Quiet
    BY <1>4 DEF LoseDatagram, vars, Quiet, remoteVars, netVars
  <1>5. ASSUME NEW n \in Nodes, NEW ty \in Types, NEW from \in Nodes \ {n},
               ReceiveRemoteDiscoveryInfo(n, ty, from)
        PROVE  from # n /\ Hears(n, ty, from)
    BY <1>5, ReceiveKinds
  <1> QED
    BY <1>1, <1>2, <1>3, <1>4, <1>5 DEF Next

(***************************************************************************)
(* The discovery thread and the transports of a node with reliable ones.   *)
(***************************************************************************)
LEMMA QuietStep ==
    ASSUME TypeInv, QuietInv, [Next]_vars
    PROVE  QuietInv'
  <1> USE DEF userVars, localVars, remoteVars, transportVars, channelVars, netVars
  <1> DEFINE d == DiscoveryThread
  <1>1. /\ phase \in [Nodes -> Phases] /\ task \in [Nodes -> [ThreadsOf -> Tasks]]
        /\ d \in ThreadsOf /\ d \notin Types
    BY DiscoveryAssumption DEF TypeInv, GatewayType, TaskType, ThreadsOf
  <1> HIDE DEF d
  <1>2. SUFFICES ASSUME NEW n \in Nodes, phase'[n] \notin {"running", "stopping"}
                 PROVE  task'[n][d].stage = "idle"
    BY DEF QuietInv, d
  <1>3. CASE phase'[n] = phase[n] /\ task'[n][d] = task[n][d]
    BY <1>2, <1>3 DEF QuietInv, d
  <1>4. ASSUME NEW m \in Nodes, NEW t, phase' = phase, m # n \/ phase[n] \in {"running", "stopping"},
               task' = [task EXCEPT ![m][d] = t]
        PROVE  task'[n][d].stage = "idle"
    BY <1>1, <1>2, <1>3, <1>4
  <1>5. ASSUME NEW m \in Nodes, NEW ty \in Types, NEW t, phase' = phase,
               task' = [task EXCEPT ![m][ty] = t]
        PROVE  task'[n][d].stage = "idle"
    <2>1. ty \in ThreadsOf /\ ty # d
      BY <1>1 DEF ThreadsOf
    <2> QED
      BY <1>1, <1>3, <1>5, <2>1
  <1>6. ASSUME NEW m \in Nodes, Start(m) \/ Terminate(m) \/ Initialize(m) \/ Deinitialize(m)
        PROVE  task'[n][d].stage = "idle"
    <2>1. task' = task /\ (m # n => phase'[n] = phase[n])
      BY <1>1, <1>6 DEF Start, Terminate, Initialize, Deinitialize
    <2>2. CASE m # n
      BY <1>3, <2>1, <2>2
    <2>3. CASE m = n
      <3>1. Start(n) \/ Deinitialize(n)
        BY <1>1, <1>2, <1>6, <2>3 DEF Terminate, Initialize
      <3>2. task[n][d].stage = "idle"
        BY <3>1 DEF Start, Deinitialize, QuietInv, d
      <3> QED
        BY <2>1, <3>2
    <2> QED
      BY <2>2, <2>3
  <1>7. ASSUME NEW m \in Nodes, Exit(m) \/ Crash(m)
        PROVE  task'[n][d].stage = "idle"
    <2>1. /\ phase' = [phase EXCEPT ![m] = "off"]
          /\ task' = [task EXCEPT ![m] = [k \in ThreadsOf |-> IdleTask]]
      BY <1>7 DEF Exit, Crash, Vanish
    <2> QED
      BY <1>1, <1>3, <2>1 DEF IdleTask
  <1>8. ASSUME NEW m \in Nodes, NEW k \in ThreadsOf, UpdateTr2iox(m, k) \/ UpdateIox2tr(m, k)
        PROVE  task'[n][d].stage = "idle"
    <2>1. PICK t : phase' = phase /\ task' = [task EXCEPT ![m][k] = t] /\ task[m][k].stage # "idle"
      <3>1. ASSUME NEW st PROVE [task EXCEPT ![m][k].stage = st]
                                  = [task EXCEPT ![m][k] = [task[m][k] EXCEPT !.stage = st]]
        BY <1>1
      <3> QED
        BY <1>8, <3>1 DEF UpdateTr2iox, UpdateIox2tr
    <2>2. CASE k = d
      BY <1>4, <2>1, <2>2 DEF QuietInv, d
    <2>3. CASE k # d
      BY <1>5, <2>1, <2>3 DEF ThreadsOf, d
    <2> QED
      BY <2>2, <2>3
  <1>9. ASSUME NEW m \in Nodes,
               ReadPortSubscriber(m) \/ SendIfChanged(m) \/ PublishIntrospection(m)
        PROVE  task'[n][d].stage = "idle"
    <2>1. PICK t : phase' = phase /\ task' = [task EXCEPT ![m][d] = t]
      BY <1>9 DEF ReadPortSubscriber, SendIfChanged, PublishIntrospection, d
    <2>2. phase[m] \in {"running", "stopping"}
      BY <1>9 DEF ReadPortSubscriber, SendIfChanged, PublishIntrospection, QuietInv
    <2> QED
      BY <1>4, <2>1, <2>2
  <1>10. ASSUME NEW m \in Nodes, NEW ty \in Types, NEW from \in Nodes \ {m},
                ReceiveRemoteDiscoveryInfo(m, ty, from)
         PROVE  task'[n][d].stage = "idle"
    <2>1. phase' = phase
      BY <1>10 DEF ReceiveRemoteDiscoveryInfo
    <2>2. task' = task \/ \E t : task' = [task EXCEPT ![m][ty] = t]
      BY <1>10 DEF ReceiveRemoteDiscoveryInfo, ReceiveTermination, ReceiveFromKnown,
                   ReceiveFromNew, NextUpdate
    <2> QED
      BY <1>3, <1>5, <2>1, <2>2
  <1>11. ASSUME NEW m \in Nodes, NEW ty \in Types,
                \/ HandleFailure(m, ty) \/ SetFailed(m, ty) \/ HasFailedSetDisabled(m, ty)
                \/ ResendDiscoveryInfoToTransport(m, ty)
         PROVE  task'[n][d].stage = "idle"
    <2>1. UNCHANGED <<phase, task>>
      BY <1>11 DEF HandleFailure, Disable, FailCallback, SetFailed, HasFailedSetDisabled,
                   ResendDiscoveryInfoToTransport
    <2> QED
      BY <1>3, <2>1
  <1>12. ASSUME \/ \E m \in Nodes : \E new \in PortStates[m] : ChangePorts(m, new)
                \/ \E m \in Nodes, s \in Services : GenerateDeviceIndices(m, s)
                \/ LoseDatagram \/ UNCHANGED vars
         PROVE  task'[n][d].stage = "idle"
    <2>1. UNCHANGED <<phase, task>>
      BY <1>12 DEF ChangePorts, GenerateDeviceIndices, LoseDatagram, vars
    <2> QED
      BY <1>3, <2>1
  <1> QED
    BY <1>6, <1>7, <1>8, <1>9, <1>10, <1>11, <1>12
       DEF Next, MainThread, WaitsetLoop, CallbackThread, ThreadsOf

LEMMA GoodStep ==
    ASSUME Reliable, TypeInv, GoodInv, [Next]_vars
    PROVE  GoodInv'
  <1> USE DEF userVars, localVars, remoteVars, transportVars, channelVars, netVars
  <1>1. /\ status \in [Nodes -> [Types -> Statuses]]
        /\ handling \in [Nodes -> [Types -> {"none", "disable", "callback"}]]
    BY DEF TypeInv, TransportType
  <1>2. SUFFICES ASSUME NEW n \in Nodes, OnlyReliable(n), NEW ty \in Types
                 PROVE  status'[n][ty] = "GOOD" /\ handling'[n][ty] = "none"
    BY DEF GoodInv
  <1>3. /\ \A t \in Types : status[n][t] = "GOOD" /\ handling[n][t] = "none"
        /\ Failed(n) = {}
    <2>1. \A t \in Types : status[n][t] = "GOOD" /\ handling[n][t] = "none"
      BY <1>2 DEF GoodInv
    <2> QED
      BY <2>1, DiscoveryAssumption DEF Failed
  <1>4. CASE status'[n] = status[n] /\ handling'[n] = handling[n]
    BY <1>3, <1>4
  <1>5. ASSUME NEW m \in Nodes, NEW info, NEW datagrams, NEW messages,
               SendDiscoveryInfo(m, info, datagrams, messages)
        PROVE  status'[n] = status[n]
    <2>1. CASE m # n
      BY <1>1, <1>5, <2>1 DEF SendDiscoveryInfo
    <2>2. CASE m = n
      <3>1. [t \in Types |-> IF t \in Failed(n) THEN "DISABLED" ELSE status[n][t]] = status[n]
        BY <1>1, <1>3
      <3> QED
        BY <1>1, <1>5, <2>2, <3>1 DEF SendDiscoveryInfo
    <2> QED
      BY <2>1, <2>2
  <1>6. ASSUME NEW m \in Nodes,
               \/ Start(m) \/ Terminate(m) \/ Initialize(m) \/ Deinitialize(m) \/ WaitsetLoop(m)
        PROVE  status'[n] = status[n] /\ handling'[n] = handling[n]
    <2>1. handling' = handling
      BY <1>6 DEF Start, Terminate, Initialize, Deinitialize, WaitsetLoop, ReadPortSubscriber,
                  UpdateTr2iox, UpdateIox2tr, SendIfChanged, PublishIntrospection
    <2>2. \/ status' = status
          \/ \E info, datagrams, messages : SendDiscoveryInfo(m, info, datagrams, messages)
      BY <1>6 DEF Start, Terminate, Initialize, Deinitialize, WaitsetLoop, ReadPortSubscriber,
                  UpdateTr2iox, UpdateIox2tr, SendIfChanged, PublishIntrospection
    <2> QED
      BY <1>5, <2>1, <2>2
  <1>7. ASSUME NEW m \in Nodes, Exit(m) \/ Crash(m)
        PROVE  status'[n][ty] = "GOOD" /\ handling'[n][ty] = "none"
    <2>1. /\ status' = [status EXCEPT ![m] = [t \in Types |-> "GOOD"]]
          /\ handling' = [handling EXCEPT ![m] = [t \in Types |-> "none"]]
      BY <1>7 DEF Exit, Crash, Vanish
    <2> QED
      BY <1>1, <1>3, <2>1
  <1>8. ASSUME NEW m \in Nodes, NEW t \in Types,
               \/ CallbackThread(m, t) \/ HandleFailure(m, t)
               \/ SetFailed(m, t) \/ HasFailedSetDisabled(m, t)
               \/ ResendDiscoveryInfoToTransport(m, t)
        PROVE  status'[n] = status[n] /\ handling'[n] = handling[n]
    <2>1. CASE CallbackThread(m, t)
      BY <2>1 DEF CallbackThread, UpdateTr2iox, UpdateIox2tr
    <2>2. CASE FailCallback(m, t)
      <3>1. m # n
        BY <1>3, <2>2 DEF FailCallback
      <3>2. \/ status' = status
            \/ SendDiscoveryInfo(m, GenerateDiscoveryInfo(m), net, pipe)
        BY <2>2 DEF FailCallback
      <3>3. handling'[n] = handling[n]
        BY <1>1, <2>2, <3>1 DEF FailCallback
      <3> QED
        BY <1>5, <3>2, <3>3
    <2>3. CASE Disable(m, t)
      BY <1>1, <1>3, <2>3 DEF Disable
    <2>4. CASE SetFailed(m, t)
      <3>1. t \in EnabledTypes[m] /\ <<m, t>> \in Failable
        BY <2>4 DEF SetFailed
      <3>2. m # n
        BY <1>2, <3>1 DEF Reliable, OnlyReliable
      <3> QED
        BY <1>1, <2>4, <3>2 DEF SetFailed
    <2>5. CASE HasFailedSetDisabled(m, t)
      BY <1>1, <1>3, <2>5 DEF HasFailedSetDisabled
    <2>6. CASE ResendDiscoveryInfoToTransport(m, t)
      <3>1. m # n
        BY <1>2, <2>6 DEF ResendDiscoveryInfoToTransport, OnlyReliable
      <3> QED
        BY <1>1, <2>6, <3>1 DEF ResendDiscoveryInfoToTransport
    <2> QED
      BY <1>8, <2>1, <2>2, <2>3, <2>4, <2>5, <2>6 DEF HandleFailure
  <1>9. ASSUME NEW m \in Nodes, NEW t \in Types, NEW from \in Nodes \ {m},
               ReceiveRemoteDiscoveryInfo(m, t, from)
        PROVE  status'[n] = status[n] /\ handling'[n] = handling[n]
    <2>1. handling' = handling
      BY <1>9 DEF ReceiveRemoteDiscoveryInfo
    <2>2. \/ status' = status
          \/ \E info, datagrams, messages : SendDiscoveryInfo(m, info, datagrams, messages)
      BY <1>9 DEF ReceiveRemoteDiscoveryInfo, ReceiveTermination, ReceiveFromKnown, ReceiveFromNew
    <2> QED
      BY <1>5, <2>1, <2>2
  <1>10. ASSUME \/ \E m \in Nodes : \E new \in PortStates[m] : ChangePorts(m, new)
                \/ \E m \in Nodes, s \in Services : GenerateDeviceIndices(m, s)
                \/ LoseDatagram \/ UNCHANGED vars
         PROVE  status'[n] = status[n] /\ handling'[n] = handling[n]
    BY <1>10 DEF ChangePorts, GenerateDeviceIndices, LoseDatagram, vars
  <1> QED
    BY <1>4, <1>6, <1>7, <1>8, <1>9, <1>10 DEF Next, MainThread

(***************************************************************************)
(* Senders, records, and nodes without gateway.                            *)
(***************************************************************************)
OthersWait(j, msg) == \A k \in Pipes : k # j => msg.pipe[k] = pipe[k]

HeadTaken(k, msg) ==
    k \in Pipes => /\ pipe[k] # <<>> /\ msg.info = Deserialize(Head(pipe[k]))
                   /\ msg.pipe[k] = Tail(pipe[k])

LEMMA ArrivalPipe ==
    ASSUME TypeInv, NEW p \in Nodes, NEW ty \in Types, NEW from \in Nodes,
           NEW msg \in Arrivals(p, ty, from)
    PROVE  /\ msg.pipe \in [Pipes -> Seq(Wire(Info))] /\ msg.info \in Info
           /\ OthersWait(<<ty, from, p>>, msg) /\ HeadTaken(<<ty, from, p>>, msg)
  <1>1. msg.pipe \in [Pipes -> Seq(Wire(Info))] /\ msg.info \in Info
    BY ArrivalType DEF TypeInv, NetType
  <1>2. pipe \in [Pipes -> Seq(Wire(Info))]
    BY DEF TypeInv, NetType, NetOf
  <1>3. CASE ty \in Lossy
    <2>1. msg.pipe = pipe
      BY <1>3 DEF Arrivals
    <2>2. <<ty, from, p>> \notin Pipes
      BY <1>3 DEF Pipes
    <2> QED
      BY <1>1, <2>1, <2>2 DEF OthersWait, HeadTaken
  <1>4. CASE ty \notin Lossy
    <2>1. PICK k : k = <<ty, from, p>>
      OBVIOUS
    <2>2. /\ pipe[k] # <<>>
          /\ msg = [info |-> Deserialize(Head(pipe[k])), net |-> net,
                    pipe |-> [pipe EXCEPT ![k] = Tail(@)]]
      BY <1>4, <2>1 DEF Arrivals
    <2>3. msg.info = Deserialize(Head(pipe[k])) /\ msg.pipe = [pipe EXCEPT ![k] = Tail(@)]
      BY <2>2
    <2> QED
      BY <1>1, <1>2, <2>1, <2>2, <2>3 DEF OthersWait, HeadTaken
  <1> QED
    BY <1>3, <1>4

\* Every message of a sequence comes from node m.
SentBy(q, m) == \A i \in 1 .. Len(q) : Deserialize(q[i]).gatewayHash[1] = m

LEMMA SentByTail ==
    ASSUME NEW S, NEW q \in Seq(S), q # <<>>, NEW m, SentBy(q, m)
    PROVE  SentBy(Tail(q), m) /\ Deserialize(Head(q)).gatewayHash[1] = m
  BY DEF SentBy

LEMMA SentByExtends ==
    ASSUME NEW S, NEW q \in Seq(S), NEW r \in Seq(S), NEW h, NEW m,
           h[1] = m, SentBy(q, m), Extends(q, r, h)
    PROVE  SentBy(r, m)
  BY DEF SentBy, Extends

LEMMA SendsSender ==
    ASSUME NEW p \in Nodes, NEW messages \in [Pipes -> Seq(Wire(Info))],
           pipe' \in [Pipes -> Seq(Wire(Info))], Sends(p, messages),
           \A k \in Pipes : SentBy(messages[k], k[2])
    PROVE  \A k \in Pipes : SentBy(pipe'[k], k[2])
  <1> SUFFICES ASSUME NEW k \in Pipes PROVE SentBy(pipe'[k], k[2])
    OBVIOUS
  <1>1. CASE k[2] # p
    BY <1>1 DEF Sends
  <1>2. CASE k[2] = p
    <2>1. Extends(messages[k], pipe'[k], Hash(p)) /\ Hash(p)[1] = p
      BY <1>2 DEF Sends, Hash
    <2>2. messages[k] \in Seq(Wire(Info)) /\ pipe'[k] \in Seq(Wire(Info))
      OBVIOUS
    <2> QED
      BY <1>2, <2>1, <2>2, SentByExtends
  <1> QED
    BY <1>1, <1>2

LEMMA SenderStep ==
    ASSUME TypeInv, TypeInv', QuietInv, GoodInv, UniqueInv, SenderInv, [Next]_vars
    PROVE  SenderInv'
  <1>1. pipe \in [Pipes -> Seq(Wire(Info))] /\ pipe' \in [Pipes -> Seq(Wire(Info))]
    BY DEF TypeInv, NetType, NetOf
  <1>2. SUFFICES \A k \in Pipes : SentBy(pipe'[k], k[2])
    BY DEF SenderInv, SentBy
  <1>3. \A k \in Pipes : SentBy(pipe[k], k[2])
    BY DEF SenderInv, SentBy
  <1>4. CASE pipe' = pipe
    BY <1>3, <1>4
  <1>5. ASSUME NEW p \in Nodes, Talks(p) \/ Ends(p)
        PROVE  \A k \in Pipes : SentBy(pipe'[k], k[2])
    <2>1. Sends(p, pipe)
      <3>1. CASE Talks(p)
        BY <3>1 DEF Talks
      <3>2. CASE Ends(p)
        <4>1. SendDiscoveryInfo(p, DiscoveryInfo(p, bitset[p], TRUE), net, pipe)
          BY <3>2 DEF Ends
        <4>2. bitset[p] \in SUBSET Types /\ TRUE \in BOOLEAN
          BY DEF TypeInv, TransportType
        <4> QED
          BY <1>1, <4>1, <4>2, SendPipes DEF Sends
      <3> QED
        BY <1>5, <3>1, <3>2
    <2> QED
      BY <1>1, <1>3, <2>1, SendsSender
  <1>6. ASSUME NEW p \in Nodes, Leaves(p)
        PROVE  \A k \in Pipes : SentBy(pipe'[k], k[2])
    <2>1. \A k \in Pipes : pipe'[k] = pipe[k] \/ pipe'[k] = <<>>
      BY <1>1, <1>6 DEF Leaves, Vanish
    <2> QED
      BY <1>3, <2>1 DEF SentBy
  <1>7. ASSUME NEW p \in Nodes, NEW ty \in Types, NEW from \in Nodes, Hears(p, ty, from)
        PROVE  \A k \in Pipes : SentBy(pipe'[k], k[2])
    <2>1. PICK msg \in Arrivals(p, ty, from) : pipe' = msg.pipe \/ Sends(p, msg.pipe)
      BY <1>7 DEF Hears
    <2>2. msg.pipe \in [Pipes -> Seq(Wire(Info))]
      BY ArrivalPipe
    <2>3. ASSUME NEW k \in Pipes PROVE SentBy(msg.pipe[k], k[2])
      <3>1. CASE k # <<ty, from, p>>
        BY <1>3, <3>1, ArrivalPipe DEF OthersWait
      <3>2. CASE k = <<ty, from, p>>
        <4>1. pipe[k] # <<>> /\ msg.pipe[k] = Tail(pipe[k])
          BY <3>2, ArrivalPipe DEF HeadTaken
        <4>2. pipe[k] \in Seq(Wire(Info)) /\ SentBy(pipe[k], k[2])
          BY <1>1, <1>3
        <4> QED
          BY <4>1, <4>2, SentByTail
      <3> QED
        BY <3>1, <3>2
    <2> QED
      BY <1>1, <2>1, <2>2, <2>3, SendsSender
  <1> QED
    BY <1>4, <1>5, <1>6, <1>7, StepKinds DEF Quiet, Begins

LEMMA UniqueStep ==
    ASSUME TypeInv, QuietInv, GoodInv, UniqueInv, [Next]_vars
    PROVE  UniqueInv'
  <1>1. CASE records' = records
    BY <1>1 DEF UniqueInv
  <1>2. ASSUME NEW p \in Nodes, Leaves(p) PROVE UniqueInv'
    <2>1. \A n \in Nodes : records'[n] = records[n] \/ records'[n] = <<>>
      BY <1>2 DEF Leaves, Vanish, TypeInv, RecordsType
    <2>2. UniqueRecords(<<>>)
      BY DEF UniqueRecords
    <2> QED
      BY <2>1, <2>2 DEF UniqueInv
  <1>3. ASSUME NEW p \in Nodes, NEW ty \in Types, NEW from \in Nodes, Hears(p, ty, from)
        PROVE  UniqueInv'
    <2>1. PICK info : Learns(p, info)
      BY <1>3 DEF Hears
    <2> QED
      BY <2>1 DEF Learns, UniqueInv
  <1> QED
    BY <1>1, <1>2, <1>3, StepKinds DEF Quiet, Begins, Talks, Ends

LEMMA GoneStep ==
    ASSUME TypeInv, QuietInv, GoodInv, UniqueInv, GoneInv, [Next]_vars
    PROVE  GoneInv'
  <1>1. /\ pipe \in [Pipes -> Seq(Wire(Info))] /\ phase \in [Nodes -> Phases]
        /\ DOMAIN records = Nodes
    BY DEF TypeInv, NetType, NetOf, GatewayType, RecordsType
  <1>2. SUFFICES ASSUME NEW n \in Nodes, phase'[n] = "off"
                 PROVE  records'[n] = <<>> /\ \A k \in Pipes : k[3] = n => pipe'[k] = <<>>
    BY DEF GoneInv
  <1>3. ASSUME phase[n] = "off", records'[n] = records[n],
               \A k \in Pipes : k[3] = n => pipe'[k] = pipe[k]
        PROVE  records'[n] = <<>> /\ \A k \in Pipes : k[3] = n => pipe'[k] = <<>>
    BY <1>3 DEF GoneInv
  <1>4. CASE Quiet
    BY <1>2, <1>3, <1>4 DEF Quiet
  <1>5. ASSUME NEW p \in Nodes, Begins(p)
        PROVE  records'[n] = <<>> /\ \A k \in Pipes : k[3] = n => pipe'[k] = <<>>
    BY <1>1, <1>2, <1>3, <1>5 DEF Begins
  <1>6. ASSUME NEW p \in Nodes, Talks(p) \/ Ends(p)
        PROVE  records'[n] = <<>> /\ \A k \in Pipes : k[3] = n => pipe'[k] = <<>>
    <2>1. phase[n] = "off" /\ records' = records
      BY <1>1, <1>2, <1>6 DEF Talks, Ends
    <2>2. \A k \in Pipes : ~Up(k[3]) => pipe'[k] = pipe[k]
      <3>1. CASE Talks(p)
        BY <3>1 DEF Talks, Sends
      <3>2. CASE Ends(p)
        <4>1. SendDiscoveryInfo(p, DiscoveryInfo(p, bitset[p], TRUE), net, pipe)
          BY <3>2 DEF Ends
        <4>2. bitset[p] \in SUBSET Types /\ TRUE \in BOOLEAN
          BY DEF TypeInv, TransportType
        <4> QED
          BY <1>1, <4>1, <4>2, SendPipes
      <3> QED
        BY <1>6, <3>1, <3>2
    <2> QED
      BY <1>3, <2>1, <2>2 DEF Up
  <1>7. ASSUME NEW p \in Nodes, Leaves(p)
        PROVE  records'[n] = <<>> /\ \A k \in Pipes : k[3] = n => pipe'[k] = <<>>
    <2>1. /\ phase' = [phase EXCEPT ![p] = "off"] /\ records' = [records EXCEPT ![p] = <<>>]
          /\ pipe' = [k \in DOMAIN pipe |-> IF k[3] = p THEN <<>> ELSE pipe[k]]
      BY <1>7 DEF Leaves, Vanish
    <2>2. CASE n = p
      BY <1>1, <2>1, <2>2
    <2>3. CASE n # p
      <3>1. phase[n] = "off" /\ records'[n] = records[n]
        BY <1>1, <1>2, <2>1, <2>3
      <3>2. \A k \in Pipes : k[3] = n => pipe'[k] = pipe[k]
        BY <1>1, <2>1, <2>3
      <3> QED
        BY <1>3, <3>1, <3>2
    <2> QED
      BY <2>2, <2>3
  <1>8. ASSUME NEW p \in Nodes, NEW ty \in Types, NEW from \in Nodes, Hears(p, ty, from)
        PROVE  records'[n] = <<>> /\ \A k \in Pipes : k[3] = n => pipe'[k] = <<>>
    <2>1. PICK msg \in Arrivals(p, ty, from) :
             Learns(p, msg.info) /\ (pipe' = msg.pipe \/ Sends(p, msg.pipe))
      BY <1>8 DEF Hears
    <2>2. phase[n] = "off" /\ p # n
      BY <1>2, <1>8 DEF Hears, Up
    <2>3. records'[n] = records[n]
      BY <2>1, <2>2 DEF Learns
    <2>4. ASSUME NEW k \in Pipes, k[3] = n PROVE pipe'[k] = pipe[k]
      <3>1. msg.pipe[k] = pipe[k]
        <4>1. k # <<ty, from, p>>
          BY <2>2, <2>4
        <4> QED
          BY <4>1, ArrivalPipe DEF OthersWait
      <3>2. pipe'[k] = msg.pipe[k]
        BY <2>1, <2>2, <2>4 DEF Sends, Up
      <3> QED
        BY <3>1, <3>2
    <2> QED
      BY <1>3, <2>2, <2>3, <2>4
  <1> QED
    BY <1>4, <1>5, <1>6, <1>7, <1>8, StepKinds

(***************************************************************************)
(* The termination stays behind what else the gateway has sent.            *)
(***************************************************************************)
LEMMA FollowedExtends ==
    ASSUME NEW S, NEW q \in Seq(S), NEW r \in Seq(S), NEW g, NEW h, g # h, Extends(q, r, g)
    PROVE  (Mentions(r, h) => Mentions(q, h)) /\ (Followed(q, h) => Followed(r, h))
  <1>1. Len(q) \in Nat /\ Len(r) \in Nat /\ Len(q) <= Len(r)
    BY DEF Extends
  <1>2. \A i \in 1 .. Len(r) : Deserialize(r[i]).gatewayHash = h => i \in 1 .. Len(q) /\ r[i] = q[i]
    BY <1>1 DEF Extends
  <1>3. Mentions(r, h) => Mentions(q, h)
    BY <1>2 DEF Mentions
  <1>4. ASSUME Followed(q, h) PROVE Followed(r, h)
    <2>1. PICK i \in 1 .. Len(q) :
             /\ Deserialize(q[i]).gatewayHash = h /\ Deserialize(q[i]).isTermination
             /\ \A j \in i + 1 .. Len(q) : Deserialize(q[j]).gatewayHash # h
      BY <1>4 DEF Followed
    <2>2. i \in 1 .. Len(r) /\ r[i] = q[i]
      BY <1>1 DEF Extends
    <2>3. ASSUME NEW j \in i + 1 .. Len(r) PROVE Deserialize(r[j]).gatewayHash # h
      BY <1>1, <1>2, <2>1
    <2> QED
      BY <2>1, <2>2, <2>3 DEF Followed
  <1> QED
    BY <1>3, <1>4

LEMMA FollowedTail ==
    ASSUME NEW S, NEW q \in Seq(S), q # <<>>, NEW h
    PROVE  /\ Mentions(Tail(q), h) \/ Deserialize(Head(q)).gatewayHash = h => Mentions(q, h)
           /\ Followed(q, h) =>
                 \/ Followed(Tail(q), h)
                 \/ /\ Deserialize(Head(q)).gatewayHash = h /\ Deserialize(Head(q)).isTermination
                    /\ ~Mentions(Tail(q), h)
  <1>1. PICK r : r = Tail(q)
    OBVIOUS
  <1>2. /\ Len(q) \in Nat /\ Len(q) > 0 /\ Len(r) = Len(q) - 1 /\ Head(q) = q[1]
        /\ \A i \in 1 .. Len(r) : r[i] = q[i + 1]
    BY <1>1
  <1>3. Mentions(r, h) \/ Deserialize(Head(q)).gatewayHash = h => Mentions(q, h)
    BY <1>2 DEF Mentions
  <1>4. ASSUME Followed(q, h)
        PROVE  \/ Followed(r, h)
               \/ /\ Deserialize(q[1]).gatewayHash = h /\ Deserialize(q[1]).isTermination
                  /\ ~Mentions(r, h)
    <2>1. PICK i \in 1 .. Len(q) :
             /\ Deserialize(q[i]).gatewayHash = h /\ Deserialize(q[i]).isTermination
             /\ \A j \in i + 1 .. Len(q) : Deserialize(q[j]).gatewayHash # h
      BY <1>4 DEF Followed
    <2>2. CASE i = 1
      <3>1. \A j \in 1 .. Len(r) : j + 1 \in i + 1 .. Len(q)
        BY <1>2, <2>2
      <3>2. ~Mentions(r, h)
        BY <1>2, <2>1, <3>1 DEF Mentions
      <3> QED
        BY <2>1, <2>2, <3>2
    <2>3. CASE i # 1
      <3>1. PICK e : e = i - 1
        OBVIOUS
      <3>2. e \in 1 .. Len(r) /\ r[e] = q[i]
        BY <1>2, <2>3, <3>1
      <3>3. \A j \in e + 1 .. Len(r) : j + 1 \in i + 1 .. Len(q) /\ j \in 1 .. Len(r)
        BY <1>2, <2>3, <3>1
      <3>4. \A j \in e + 1 .. Len(r) : Deserialize(r[j]).gatewayHash # h
        BY <1>2, <2>1, <3>3
      <3> QED
        BY <2>1, <3>2, <3>4 DEF Followed
    <2> QED
      BY <2>2, <2>3
  <1> QED
    BY <1>1, <1>2, <1>3, <1>4

LEMMA FollowedLast ==
    ASSUME NEW S, NEW q \in Seq(S), NEW r, NEW info, Continues(q, r, <<info>>), info.isTermination
    PROVE  Followed(r, info.gatewayHash)
  <1>1. Len(q) \in Nat /\ Len(r) = Len(q) + 1 /\ Deserialize(r[Len(q) + 1]) = info
    BY DEF Continues
  <1>2. PICK i : i = Len(q) + 1
    OBVIOUS
  <1>3. i \in 1 .. Len(r) /\ Deserialize(r[i]) = info /\ \A j \in i + 1 .. Len(r) : FALSE
    BY <1>1, <1>2
  <1> QED
    BY <1>3 DEF Followed

\* deinitialize on a node that has one transport, and that one is good.
LEMMA EndReaches ==
    ASSUME TypeInv, GoodInv, NEW n, NEW m, NEW ty, Link(n, m, ty), Ends(m), Up(n)
    PROVE  Followed(pipe'[<<ty, m, n>>], Hash(m))
  <1>1. n \in Nodes /\ m \in Nodes /\ n # m /\ ty \in Types \ Lossy /\ EnabledTypes[m] = {ty}
    BY DEF Link
  <1>2. \A t \in Types : status[m][t] = "GOOD"
    BY <1>1 DEF GoodInv, OnlyReliable
  <1>3. Good(m) = {ty} /\ Failed(m) = {}
    BY <1>1, <1>2 DEF Good, Failed
  <1> DEFINE info == DiscoveryInfo(m, bitset[m], TRUE)
  <1>4. info \in Info /\ info.gatewayHash = Hash(m) /\ info.isTermination
    <2>1. info \in Info
      BY <1>1, InfoType DEF TypeInv, TransportType
    <2>2. info.gatewayHash = Hash(m) /\ info.isTermination = TRUE
      BY Zenon DEF DiscoveryInfo
    <2> QED
      BY <2>1, <2>2, Zenon
  <1>5. Broadcast(m, Good(m), <<info>>, net, pipe)
    BY <1>3 DEF Ends, SendDiscoveryInfo
  <1> HIDE DEF info
  <1>6. pipe \in [Pipes -> Seq(Wire(Info))] /\ DOMAIN pipe = Pipes /\ <<info>> \in Seq(Info)
    BY <1>4 DEF TypeInv, NetType, NetOf
  <1>7. PICK k \in Pipes : k = <<ty, m, n>>
    BY <1>1 DEF Pipes
  <1>8. Continues(pipe[k], pipe'[k], <<info>>)
    <2>1. k[1] \in Good(m) /\ k[2] = m /\ k[3] # m /\ Up(k[3])
      BY <1>1, <1>3, <1>7
    <2> QED
      BY <1>1, <1>5, <1>6, <2>1, BroadcastPipes
  <1>9. pipe[k] \in Seq(Wire(Info))
    BY <1>6
  <1> QED
    BY <1>4, <1>7, <1>8, <1>9, FollowedLast

\* ForgottenInv: all of it together.
ForgottenInv ==
    /\ TypeInv /\ QuietInv /\ GoodInv /\ UniqueInv /\ SenderInv /\ GoneInv /\ FollowedInv

LEMMA FollowedStep ==
    ASSUME ForgottenInv, TypeInv', [Next]_vars
    PROVE  FollowedInv'
  <1>1. /\ pipe \in [Pipes -> Seq(Wire(Info))] /\ pipe' \in [Pipes -> Seq(Wire(Info))]
        /\ phase \in [Nodes -> Phases] /\ epoch \in [Nodes -> 0 .. MaxEpoch]
        /\ DOMAIN records = Nodes /\ TypeInv
    BY DEF ForgottenInv, TypeInv, NetType, NetOf, GatewayType, RecordsType
  <1>2. SUFFICES ASSUME NEW n \in Nodes, NEW m \in Nodes, NEW ty \in Types, Link(n, m, ty),
                        NEW h \in GatewayHashes, h[1] = m, HasTerminated(h)',
                        Knows(records'[n], h) \/ Mentions(pipe'[<<ty, m, n>>], h)
                 PROVE  Followed(pipe'[<<ty, m, n>>], h)
    BY DEF FollowedInv, FollowedAt
  <1>3. PICK k \in Pipes : k = <<ty, m, n>>
    BY <1>2 DEF Link, Pipes
  <1>4. /\ n # m /\ m \notin MayCrash /\ OnlyReliable(m) /\ EnabledTypes[n] = {ty}
        /\ k[1] = ty /\ k[2] = m /\ k[3] = n
    BY <1>2, <1>3 DEF Link, OnlyReliable
  <1>5. pipe[k] \in Seq(Wire(Info)) /\ pipe'[k] \in Seq(Wire(Info))
    BY <1>1
  <1>6. epoch[m] \in Nat /\ h[2] \in Nat /\ h = <<m, h[2]>> /\ phase[m] \in Phases
    BY <1>1, <1>2 DEF GatewayHashes
  <1>7. HasTerminated(h) /\ (Knows(records[n], h) \/ Mentions(pipe[k], h)) => Followed(pipe[k], h)
    BY <1>2, <1>3 DEF ForgottenInv, FollowedInv, FollowedAt
  <1>8. ASSUME HasTerminated(h), Knows(records'[n], h) => Knows(records[n], h),
               \/ pipe'[k] = pipe[k]
               \/ Extends(pipe[k], pipe'[k], Hash(m)) /\ Hash(m) # h
        PROVE  Followed(pipe'[k], h)
    <2>1. CASE pipe'[k] = pipe[k]
      BY <1>2, <1>3, <1>7, <1>8, <2>1
    <2>2. CASE Extends(pipe[k], pipe'[k], Hash(m)) /\ Hash(m) # h
      <3>1. /\ Mentions(pipe'[k], h) => Mentions(pipe[k], h)
            /\ Followed(pipe[k], h) => Followed(pipe'[k], h)
        BY <1>5, <2>2, FollowedExtends
      <3> QED
        BY <1>2, <1>3, <1>7, <1>8, <3>1
    <2> QED
      BY <1>8, <2>1, <2>2
  <1>9. ASSUME HasTerminated(h), phase[m] \in {"constructed", "running", "stopping"}
        PROVE  Hash(m) # h
    BY <1>2, <1>6, <1>9 DEF HasTerminated, Hash
  <1>10. CASE Quiet
    <2>1. HasTerminated(h)
      BY <1>2, <1>10 DEF Quiet, HasTerminated
    <2> QED
      BY <1>3, <1>8, <1>10, <2>1 DEF Quiet
  <1>11. ASSUME NEW p \in Nodes, Begins(p) PROVE Followed(pipe'[k], h)
    <2>1. HasTerminated(h)
      <3>1. CASE p = m
        <4>1. epoch'[m] = epoch[m] + 1 /\ phase'[m] = "constructed" /\ phase[m] = "off"
          BY <1>1, <1>11, <3>1 DEF Begins
        <4>2. h[2] < epoch[m] + 1
          BY <1>2, <4>1 DEF HasTerminated
        <4> QED
          BY <1>2, <1>6, <4>1, <4>2 DEF HasTerminated
      <3>2. CASE p # m
        BY <1>1, <1>2, <1>11, <3>2 DEF Begins, HasTerminated
      <3> QED
        BY <3>1, <3>2
    <2> QED
      BY <1>8, <1>11, <2>1 DEF Begins
  <1>12. ASSUME NEW p \in Nodes, Talks(p) PROVE Followed(pipe'[k], h)
    <2>1. HasTerminated(h)
      BY <1>2, <1>12 DEF Talks, HasTerminated
    <2>2. records' = records /\ Sends(p, pipe)
      BY <1>12 DEF Talks
    <2>3. CASE p # m
      BY <1>4, <1>8, <2>1, <2>2, <2>3 DEF Sends
    <2>4. CASE p = m
      <3>1. Hash(m) # h
        BY <1>4, <1>9, <1>12, <2>1, <2>4 DEF Talks
      <3> QED
        BY <1>4, <1>8, <2>1, <2>2, <2>4, <3>1 DEF Sends
    <2> QED
      BY <2>3, <2>4
  <1>13. ASSUME NEW p \in Nodes, Ends(p) PROVE Followed(pipe'[k], h)
    <2>1. records' = records /\ epoch' = epoch /\ phase' = [phase EXCEPT ![p] = "terminated"]
      BY <1>13 DEF Ends
    <2>2. Sends(p, pipe)
      <3>1. SendDiscoveryInfo(p, DiscoveryInfo(p, bitset[p], TRUE), net, pipe)
        BY <1>13 DEF Ends
      <3>2. bitset[p] \in SUBSET Types /\ TRUE \in BOOLEAN
        BY <1>1 DEF TypeInv, TransportType
      <3> QED
        BY <1>1, <3>1, <3>2, SendPipes DEF Sends
    <2>3. CASE p # m
      <3>1. HasTerminated(h)
        BY <1>1, <1>2, <2>1, <2>3 DEF HasTerminated
      <3> QED
        BY <1>4, <1>8, <2>1, <2>2, <2>3, <3>1 DEF Sends
    <2>4. CASE p = m /\ h # Hash(m)
      <3>1. HasTerminated(h)
        <4>1. h[2] # epoch[m]
          BY <1>6, <2>4 DEF Hash
        <4> QED
          BY <1>2, <2>1, <4>1 DEF HasTerminated
      <3> QED
        BY <1>4, <1>8, <2>1, <2>2, <2>4, <3>1 DEF Sends
    <2>5. CASE p = m /\ h = Hash(m) /\ Up(n)
      <3>1. Followed(pipe'[<<ty, m, n>>], Hash(m))
        BY <1>1, <1>2, <1>13, <2>5, EndReaches DEF ForgottenInv
      <3> QED
        BY <1>3, <2>5, <3>1
    <2>6. CASE p = m /\ h = Hash(m) /\ ~Up(n)
      <3>1. records[n] = <<>> /\ pipe[k] = <<>>
        BY <1>4, <2>6 DEF ForgottenInv, GoneInv, Up
      <3>2. records'[n] = <<>> /\ pipe'[k] = <<>>
        BY <1>4, <2>1, <2>2, <2>6, <3>1 DEF Sends
      <3> QED
        BY <1>2, <1>3, <3>2 DEF Knows, Mentions
    <2> QED
      BY <2>3, <2>4, <2>5, <2>6
  <1>14. ASSUME NEW p \in Nodes, Leaves(p) PROVE Followed(pipe'[k], h)
    <2>1. /\ phase' = [phase EXCEPT ![p] = "off"] /\ records' = [records EXCEPT ![p] = <<>>]
          /\ pipe' = [x \in DOMAIN pipe |-> IF x[3] = p THEN <<>> ELSE pipe[x]]
          /\ epoch' = epoch
      BY <1>14 DEF Leaves, Vanish
    <2>2. CASE p = n
      <3>1. records'[n] = <<>> /\ pipe'[k] = <<>>
        BY <1>1, <1>4, <2>1, <2>2
      <3> QED
        BY <1>2, <1>3, <3>1 DEF Knows, Mentions
    <2>3. CASE p # n
      <3>1. records'[n] = records[n] /\ pipe'[k] = pipe[k]
        BY <1>1, <1>4, <2>1, <2>3
      <3>2. HasTerminated(h)
        <4>1. p = m => phase[m] = "terminated"
          BY <1>4, <1>14 DEF Leaves
        <4> QED
          BY <1>1, <1>2, <2>1, <4>1 DEF HasTerminated
      <3> QED
        BY <1>8, <3>1, <3>2
    <2> QED
      BY <2>2, <2>3
  <1>15. ASSUME NEW p \in Nodes, NEW t \in Types, NEW from \in Nodes, from # p, Hears(p, t, from)
         PROVE  Followed(pipe'[k], h)
    <2>1. PICK msg \in Arrivals(p, t, from) :
             /\ Learns(p, msg.info)
             /\ \/ pipe' = msg.pipe
                \/ phase[p] \in {"constructed", "running"} /\ Sends(p, msg.pipe)
      BY <1>15 DEF Hears
    <2>2. HasTerminated(h) /\ t \in EnabledTypes[p]
      BY <1>2, <1>15 DEF Hears, HasTerminated
    <2>3. OthersWait(<<t, from, p>>, msg) /\ HeadTaken(<<t, from, p>>, msg)
      BY <1>1, ArrivalPipe
    <2>4. CASE p = n /\ from = m
      <3>1. t = ty /\ <<t, from, p>> = k
        BY <1>3, <1>4, <2>2, <2>4
      <3>2. /\ pipe[k] # <<>> /\ msg.info = Deserialize(Head(pipe[k]))
            /\ msg.pipe[k] = Tail(pipe[k])
        BY <2>3, <3>1 DEF HeadTaken
      <3>3. pipe'[k] = Tail(pipe[k])
        BY <1>4, <2>1, <2>4, <3>2 DEF Sends
      <3>4. Knows(records'[n], h) =>
               IF h = msg.info.gatewayHash THEN ~msg.info.isTermination ELSE Knows(records[n], h)
        BY <2>1, <2>4 DEF Learns
      <3>5. Mentions(Tail(pipe[k]), h) \/ msg.info.gatewayHash = h => Mentions(pipe[k], h)
        BY <1>5, <3>2, FollowedTail
      <3>6. Followed(pipe[k], h)
        BY <1>2, <1>3, <1>7, <2>2, <3>3, <3>4, <3>5
      <3>7. \/ Followed(Tail(pipe[k]), h)
            \/ /\ msg.info.gatewayHash = h /\ msg.info.isTermination
               /\ ~Mentions(Tail(pipe[k]), h)
        BY <1>5, <3>2, <3>6, FollowedTail
      <3> QED
        BY <1>2, <1>3, <3>3, <3>4, <3>7
    <2>5. CASE p = n /\ from # m
      <3>1. PICK j \in Pipes : j = <<t, from, p>> /\ j # k
        <4>1. t \in Types \ Lossy
          BY <1>2, <1>4, <2>2, <2>5 DEF Link
        <4>2. <<t, from, p>> \in Pipes
          BY <4>1 DEF Pipes
        <4>3. <<t, from, p>> # k
          BY <1>3, <2>5
        <4> QED
          BY <4>2, <4>3
      <3>2. pipe[j] # <<>> /\ msg.info = Deserialize(Head(pipe[j]))
        BY <2>3, <3>1 DEF HeadTaken
      <3>3. pipe[j] \in Seq(Wire(Info)) /\ SentBy(pipe[j], from)
        BY <1>1, <3>1 DEF ForgottenInv, SenderInv, SentBy
      <3>4. msg.info.gatewayHash[1] = from
        BY <3>2, <3>3, SentByTail
      <3>5. Knows(records'[n], h) => Knows(records[n], h)
        BY <1>2, <2>1, <2>5, <3>4 DEF Learns
      <3>6. pipe'[k] = pipe[k]
        <4>1. msg.pipe[k] = pipe[k]
          BY <2>3, <3>1 DEF OthersWait
        <4> QED
          BY <1>4, <2>1, <2>5, <4>1 DEF Sends
      <3> QED
        BY <1>8, <2>2, <3>5, <3>6
    <2>6. CASE p # n
      <3>1. msg.pipe[k] = pipe[k]
        BY <1>3, <2>3, <2>6 DEF OthersWait
      <3>2. records'[n] = records[n]
        BY <2>1, <2>6 DEF Learns
      <3>3. CASE p # m \/ pipe' = msg.pipe
        BY <1>4, <1>8, <2>1, <2>2, <3>1, <3>2, <3>3 DEF Sends
      <3>4. CASE p = m /\ pipe' # msg.pipe
        <4>1. phase[m] \in {"constructed", "running"} /\ Extends(pipe[k], pipe'[k], Hash(m))
          BY <1>4, <2>1, <3>1, <3>4 DEF Sends
        <4> QED
          BY <1>8, <1>9, <2>2, <3>2, <4>1
      <3> QED
        BY <3>3, <3>4
    <2> QED
      BY <2>4, <2>5, <2>6
  <1> QED
    BY <1>3, <1>10, <1>11, <1>12, <1>13, <1>14, <1>15, StepKinds DEF ForgottenInv

LEMMA ForgottenInvHolds == ASSUME Reliable PROVE Spec => []ForgottenInv
  <1>1. Init => ForgottenInv
    <2> SUFFICES ASSUME Init PROVE ForgottenInv
      OBVIOUS
    <2>1. /\ \A n \in Nodes : records[n] = <<>> /\ phase[n] = "off"
          /\ \A k \in Pipes : pipe[k] = <<>>
      BY DEF Init, Pipes
    <2>2. QuietInv /\ GoodInv
      BY DEF Init, QuietInv, GoodInv, IdleTask, ThreadsOf
    <2>3. UniqueInv /\ SenderInv /\ GoneInv
      BY <2>1 DEF UniqueInv, UniqueRecords, SenderInv, GoneInv
    <2>4. FollowedInv
      <3>1. ASSUME NEW n \in Nodes, NEW m \in Nodes, NEW ty \in Types, Link(n, m, ty),
                   NEW h \in GatewayHashes
            PROVE  FollowedAt(n, m, ty, h)
        <4>1. <<ty, m, n>> \in Pipes
          BY <3>1 DEF Link, Pipes
        <4>2. records[n] = <<>> /\ pipe[<<ty, m, n>>] = <<>>
          BY <2>1, <4>1
        <4> QED
          BY <4>2 DEF FollowedAt, Knows, Mentions
      <3> QED
        BY <3>1 DEF FollowedInv
    <2> QED
      BY <2>2, <2>3, <2>4, InitType DEF ForgottenInv
  <1>2. ForgottenInv /\ [Next]_vars => ForgottenInv'
    <2> SUFFICES ASSUME ForgottenInv, [Next]_vars PROVE ForgottenInv'
      OBVIOUS
    <2>1. TypeInv'
      BY StepType DEF ForgottenInv
    <2>2. QuietInv' /\ GoodInv' /\ UniqueInv'
      BY QuietStep, GoodStep, UniqueStep DEF ForgottenInv
    <2>3. SenderInv' /\ GoneInv'
      BY <2>1, SenderStep, GoneStep DEF ForgottenInv
    <2>4. FollowedInv'
      BY <2>1, FollowedStep
    <2> QED
      BY <2>1, <2>2, <2>3, <2>4 DEF ForgottenInv
  <1> QED
    BY <1>1, <1>2, PTL DEF Spec

\* TerminatedAreForgotten: if reliable transports do not fail, then of two nodes
\* that have one, reliable, transport, neither keeps a record of a gateway of the
\* other that has terminated once it has received what that gateway sent: its
\* termination message, which deinitialize sends, is its last.
THEOREM TerminatedAreForgotten == ASSUME Reliable PROVE Spec => []TerminatedForgotten
  <1>1. ForgottenInv => TerminatedForgotten
    <2> SUFFICES ASSUME ForgottenInv, NEW n \in Nodes, NEW m \in Nodes \ ({n} \cup MayCrash),
                        NEW ty \in EnabledTypes[n] \ Lossy,
                        EnabledTypes[n] = {ty}, EnabledTypes[m] = {ty},
                        NEW r \in ToSet(records[n]),
                        r.info.gatewayHash[1] = m, HasTerminated(r.info.gatewayHash)
                 PROVE  \E i \in 1 .. Len(pipe[<<ty, m, n>>]) :
                            Deserialize(pipe[<<ty, m, n>>][i]).gatewayHash = r.info.gatewayHash
      BY DEF TerminatedForgotten
    <2>1. PICK q \in Seq(DeviceRecord) : q = records[n]
      BY DEF ForgottenInv, TypeInv, RecordsType
    <2>2. PICK i \in 1 .. Len(q) : r = q[i]
      BY <2>1 DEF ToSet
    <2>3. PICK h \in GatewayHashes : h = r.info.gatewayHash
      <3>1. q[i] \in DeviceRecord
        OBVIOUS
      <3>2. r.info \in Info
        BY <2>2, <3>1, RecordFields
      <3> QED
        BY <3>2 DEF Info
    <2>4. Knows(records[n], h)
      BY <2>1, <2>2, <2>3 DEF Knows
    <2>5. ty \in Types /\ Link(n, m, ty)
      BY DiscoveryAssumption DEF Link
    <2>6. FollowedAt(n, m, ty, h)
      BY <2>3, <2>5 DEF ForgottenInv, FollowedInv
    <2>7. Followed(pipe[<<ty, m, n>>], h)
      BY <2>3, <2>4, <2>6 DEF FollowedAt
    <2> QED
      BY <2>3, <2>7 DEF Followed
  <1> QED
    BY <1>1, ForgottenInvHolds, PTL
=============================================================================
