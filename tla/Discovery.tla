----------------------------- MODULE Discovery ------------------------------
(***************************************************************************)
(* The discovery system: DiscoveryManager with the TransportInfo registry  *)
(* it sends through, on every node of a network, and the life cycle that   *)
(* GatewayApp::run gives it.  A gateway reads the local user ports from    *)
(* iceoryx introspection, broadcasts its subscribers and its transport     *)
(* types, records what it hears from other gateways, and derives from that *)
(* the channels it needs and the devices a message goes to.                *)
(*                                                                         *)
(* A step is a critical section of m_mutex (held while discovery info is   *)
(* sent) or one call that another thread can overtake.  Each gateway has a *)
(* discovery thread (waitsetLoop), one callback thread per transport type  *)
(* and a main thread.                                                      *)
(*                                                                         *)
(* Abstracted: user ports are the sets of services they offer or want; a   *)
(* device index is a transport type and the node it leads to; infoHash,    *)
(* which nothing reads, is left out.                                       *)
(***************************************************************************)
EXTENDS Integers, Sequences, FiniteSets, SequencesExt

CONSTANTS
    Nodes,            \* devices; at most one gateway runs on each at a time
    Services,
    Types,            \* TransportType, without NONE
    TypeOrder,        \* s_transports: the types by their index
    Lossy,            \* LOSSY_TRANSPORT_TYPES: no order, no guarantee
    EnabledTypes,     \* the transports enabled on each node
    PreferredType,    \* m_preferredType of each node, or NoType
    MayLose,          \* whether datagrams get lost, or only delayed
    Failable,         \* <<node, type>>: transport layers that may fail
    PortStates,       \* what the user applications of a node may open
    InitialPorts,     \* what they have open before any gateway starts
    MAX_DEVICE_COUNT, \* capacity of m_remoteState.records
    MAX_TOPICS,       \* capacity of ServiceVector_t and of deviceIndicesCache
    MaxEpoch,         \* bound: how often a gateway is started
    MaxChanges,       \* bound: how often user ports change
    MayStop,          \* nodes whose gateway may be terminated
    MayCrash,         \* nodes whose gateway may crash
    MayLackChunks,    \* nodes on which the loan of a sample may fail
    NoType, DiscoveryThread

ASSUME DiscoveryAssumption ==
    /\ IsFiniteSet(Nodes) /\ IsFiniteSet(Services) /\ IsFiniteSet(Types)
    /\ TypeOrder \in Seq(Types) /\ ToSet(TypeOrder) = Types
    /\ Lossy \subseteq Types /\ Failable \subseteq Nodes \X Types
    /\ EnabledTypes \in [Nodes -> SUBSET Types]
    /\ PreferredType \in [Nodes -> Types \cup {NoType}]
    /\ \A n \in Nodes : PreferredType[n] \in EnabledTypes[n] \cup {NoType}
    /\ InitialPorts \in [Nodes -> [publishers : SUBSET Services, subscribers : SUBSET Services]]
    /\ PortStates \in [Nodes -> SUBSET [publishers : SUBSET Services,
                                        subscribers : SUBSET Services]]
    /\ MayLose \in BOOLEAN
    /\ MAX_DEVICE_COUNT \in Nat \ {0} /\ MAX_TOPICS \in Nat
    /\ MaxEpoch \in Nat /\ MaxChanges \in Nat
    /\ MayStop \subseteq Nodes /\ MayCrash \subseteq Nodes /\ MayLackChunks \subseteq Nodes
    /\ NoType \notin Types /\ DiscoveryThread \notin Types

\* The user ports of a node fit the vectors of LocalState_t.
ASSUME PortsAssumption ==
    \A n \in Nodes : \A p \in PortStates[n] \cup {InitialPorts[n]} :
        Cardinality(p.publishers) <= MAX_TOPICS /\ Cardinality(p.subscribers) <= MAX_TOPICS

VARIABLES
    phase,       \* where GatewayApp::run is
    epoch,       \* how often the gateway was started; m_gatewayHash is <<node, epoch>>
    ports,       \* the user ports that exist
    changed,     \* m_portSubscriber HAS_DATA
    changes,     \* number of port changes so far
    local,       \* m_localState
    lastSent,    \* m_lastSentDiscoveryInfo.userSubscribers
    records,     \* m_remoteState.records
    cache,       \* m_remoteState.deviceIndicesCache
    status,      \* TransportLayerBase::m_status
    bitset,      \* TransportInfo::s_bitset
    handling,    \* how far a thread is with a failure it has noticed
    task,        \* the rest of a handler that runs outside m_mutex
    tr2iox,      \* the channels of Transport2Iceoryx
    iox2tr,      \* the channels of Iceoryx2Transport
    registered,  \* the sample m_gwIntrospectionPublisher published last
    loanFailed,  \* history: it had no chunk for the sample after that
    net,         \* discovery datagrams of lossy transports
    pipe         \* discovery messages of the others, in order

userVars == <<ports, changed, changes>>
localVars == <<local, lastSent, registered, loanFailed>>
remoteVars == <<records, cache>>
transportVars == <<status, bitset, handling>>
channelVars == <<tr2iox, iox2tr>>
netVars == <<net, pipe>>
vars == <<phase, epoch, userVars, localVars, remoteVars, transportVars, task,
          channelVars, netVars>>

-----------------------------------------------------------------------------
Phases == {"off", "constructed", "running", "stopping", "terminated"}
Stages == {"idle", "tr2iox", "iox2tr", "send", "publish"}
Statuses == {"GOOD", "FAILED", "DISABLED"}

GatewayHashes == Nodes \X (0 .. MaxEpoch)
Ports == [publishers : SUBSET Services, subscribers : SUBSET Services]
NoPorts == [publishers |-> {}, subscribers |-> {}]
DeviceIndex == Types \X Nodes

\* PubSubInfo_t
Info == [gatewayHash : GatewayHashes, userSubscribers : SUBSET Services,
         gatewayBitset : SUBSET Types, isTermination : BOOLEAN]

\* DeviceRecord_t
DeviceRecord == [info : Info, deviceIndices : SUBSET DeviceIndex]

ThreadsOf == Types \cup {DiscoveryThread}
IdleTask == [stage |-> "idle", needed |-> {}]
EmptyCache == [s \in {} |-> <<>>]

Up(n) == phase[n] # "off"

\* Mutant: callback threads do not look at m_terminateFlag.
TerminateFlagIgnored(n) == FALSE

\* m_terminateFlag
TerminateFlag(n) == phase[n] \in {"stopping", "terminated"}

Hash(n) == <<n, epoch[n]>>

Init ==
    /\ phase = [n \in Nodes |-> "off"]
    /\ epoch = [n \in Nodes |-> 0]
    /\ ports = InitialPorts
    /\ changed = [n \in Nodes |-> FALSE]
    /\ changes = 0
    /\ local = [n \in Nodes |-> NoPorts]
    /\ lastSent = [n \in Nodes |-> {}]
    /\ records = [n \in Nodes |-> <<>>]
    /\ cache = [n \in Nodes |-> EmptyCache]
    /\ status = [n \in Nodes |-> [ty \in Types |-> "GOOD"]]
    /\ bitset = [n \in Nodes |-> {}]
    /\ handling = [n \in Nodes |-> [ty \in Types |-> "none"]]
    /\ task = [n \in Nodes |-> [k \in ThreadsOf |-> IdleTask]]
    /\ tr2iox = [n \in Nodes |-> {}]
    /\ iox2tr = [n \in Nodes |-> {}]
    /\ registered = [n \in Nodes |-> NoPorts]
    /\ loanFailed = [n \in Nodes |-> FALSE]
    /\ net = {}
    /\ pipe = [k \in (Types \ Lossy) \X Nodes \X Nodes |-> <<>>]

-----------------------------------------------------------------------------
(***************************************************************************)
(* TransportInfo and sending.                                              *)
(***************************************************************************)
Good(n) == {ty \in EnabledTypes[n] : status[n][ty] = "GOOD"}
Failed(n) == {ty \in EnabledTypes[n] : status[n][ty] = "FAILED"}

\* findMatchingType: the preferred type by the bitsets alone, otherwise the
\* first type in order whose transport is good.
FindMatchingType(n, remoteBitset) ==
    IF PreferredType[n] \in remoteBitset \cap bitset[n]
    THEN PreferredType[n]
    ELSE LET matching == {i \in DOMAIN TypeOrder : TypeOrder[i] \in Good(n) \cap remoteBitset}
         IN  IF matching = {} THEN NoType ELSE TypeOrder[Min(matching)]

\* generateDiscoveryInfo, given s_bitset.
DiscoveryInfo(n, types, isTermination) ==
    [gatewayHash |-> Hash(n), userSubscribers |-> local[n].subscribers,
     gatewayBitset |-> types, isTermination |-> isTermination]

GenerateDiscoveryInfo(n) == DiscoveryInfo(n, bitset[n], FALSE)

\* serialize: the number of services, the services, then the other fields.
Serialize(info) ==
    <<Cardinality(info.userSubscribers)>> \o SetToSeq(info.userSubscribers)
        \o <<info.gatewayBitset, info.gatewayHash, info.isTermination>>

\* deserialize: the first number says where the other fields begin.
Deserialize(data) ==
    LET end == 1 + data[1]
    IN  [userSubscribers |-> {data[i] : i \in 2 .. end}, gatewayBitset |-> data[end + 1],
         gatewayHash |-> data[end + 2], isTermination |-> data[end + 3]]

\* sendBroadcast of a series of infos on some transports, into a network whose
\* state is <<datagrams, messages>>.
Broadcast(n, types, infos, datagrams, messages) ==
    LET bytes == [i \in DOMAIN infos |-> Serialize(infos[i])]
    IN  /\ net' = datagrams \cup [from : {n}, to : Nodes \ {n}, type : types \cap Lossy,
                                  data : ToSet(bytes)]
        /\ pipe' = [k \in DOMAIN pipe |->
              IF k[1] \in types /\ k[2] = n /\ k[3] # n /\ Up(k[3])
              THEN messages[k] \o bytes ELSE messages[k]]

\* sendDiscoveryInfo on the transports that are good.  doForAllEnabled then
\* disables the failed ones, and the fail callback sends the new bitset, unless
\* the gateway is terminating.  (With several failed transports the code sends
\* once for each; the last of these infos is the one that counts.)
SendDiscoveryInfo(n, info, datagrams, messages) ==
    LET remaining == bitset[n] \ Failed(n)
    IN  /\ status' = [status EXCEPT ![n] = [ty \in Types |->
              IF ty \in Failed(n) THEN "DISABLED" ELSE status[n][ty]]]
        /\ bitset' = [bitset EXCEPT ![n] = remaining]
        /\ Broadcast(n, Good(n),
              IF Failed(n) = {} \/ TerminateFlag(n) THEN <<info>>
              ELSE <<info, DiscoveryInfo(n, remaining, FALSE)>>,
              datagrams, messages)

\* What that does to the device indices cache (the fail callback clears it).
CacheAfterSend(n) == IF Failed(n) = {} THEN cache[n] ELSE EmptyCache

\* A transport layer reports an error.
SetFailed(n, ty) ==
    /\ Up(n) /\ <<n, ty>> \in Failable /\ ty \in EnabledTypes[n]
    /\ status[n][ty] = "GOOD"
    /\ status' = [status EXCEPT ![n][ty] = "FAILED"]
    /\ UNCHANGED <<phase, epoch, userVars, localVars, remoteVars, bitset, handling, task,
                   channelVars, netVars>>

\* doFor by a thread that sends user data and holds no lock: the exchange of
\* the status, disable and the fail callback are three steps.
HasFailedSetDisabled(n, ty) ==
    /\ Up(n) /\ status[n][ty] = "FAILED"
    /\ status' = [status EXCEPT ![n][ty] = "DISABLED"]
    /\ handling' = [handling EXCEPT ![n][ty] = "disable"]
    /\ UNCHANGED <<phase, epoch, userVars, localVars, remoteVars, bitset, task,
                   channelVars, netVars>>

Disable(n, ty) ==
    /\ handling[n][ty] = "disable"
    /\ bitset' = [bitset EXCEPT ![n] = @ \ {ty}]
    /\ handling' = [handling EXCEPT ![n][ty] = "callback"]
    /\ UNCHANGED <<phase, epoch, userVars, localVars, remoteVars, status, task,
                   channelVars, netVars>>

\* Mutant: the fail callback does not clear the cache.
FailCallbackKeepsCache(n, ty) ==
    /\ handling[n][ty] = "callback"
    /\ handling' = [handling EXCEPT ![n][ty] = "none"]
    /\ IF TerminateFlag(n)
       THEN UNCHANGED <<status, bitset, netVars>>
       ELSE SendDiscoveryInfo(n, GenerateDiscoveryInfo(n), net, pipe)
    /\ UNCHANGED <<phase, epoch, userVars, localVars, remoteVars, task, channelVars>>

FailCallback(n, ty) ==
    /\ handling[n][ty] = "callback"
    /\ cache' = [cache EXCEPT ![n] = EmptyCache]
    /\ handling' = [handling EXCEPT ![n][ty] = "none"]
    /\ IF TerminateFlag(n)
       THEN UNCHANGED <<status, bitset, netVars>>
       ELSE SendDiscoveryInfo(n, GenerateDiscoveryInfo(n), net, pipe)
    /\ UNCHANGED <<phase, epoch, userVars, localVars, records, task, channelVars>>

-----------------------------------------------------------------------------
(***************************************************************************)
(* GatewayApp::run: construction, initialize, termination; and crashes.    *)
(***************************************************************************)

\* A new process: transports enabled, callbacks registered, no update callback
\* yet.  m_portSubscriber asks for the last introspection sample.
Start(n) ==
    /\ phase[n] = "off" /\ epoch[n] < MaxEpoch
    /\ phase' = [phase EXCEPT ![n] = "constructed"]
    /\ epoch' = [epoch EXCEPT ![n] = @ + 1]
    /\ changed' = [changed EXCEPT ![n] = TRUE]
    /\ bitset' = [bitset EXCEPT ![n] = EnabledTypes[n]]
    /\ UNCHANGED <<ports, changes, localVars, remoteVars, status, handling, task,
                   channelVars, netVars>>

Initialize(n) ==
    /\ phase[n] = "constructed"
    /\ phase' = [phase EXCEPT ![n] = "running"]
    /\ SendDiscoveryInfo(n, GenerateDiscoveryInfo(n), net, pipe)
    /\ cache' = [cache EXCEPT ![n] = CacheAfterSend(n)]
    /\ UNCHANGED <<epoch, userVars, localVars, records, handling, task, channelVars>>

\* Mutant: resends only what has not been sent.
ResendIfChanged(n, ty) ==
    /\ phase[n] = "running" /\ ty \in Lossy \cap EnabledTypes[n]
    /\ IF local[n].subscribers # lastSent[n]
       THEN Broadcast(n, {ty}, <<GenerateDiscoveryInfo(n)>>, net, pipe)
       ELSE UNCHANGED netVars
    /\ UNCHANGED <<phase, epoch, userVars, localVars, remoteVars, transportVars, task,
                   channelVars>>

\* resendDiscoveryInfoToTransport, called periodically by the main thread for
\* every lossy type.
ResendDiscoveryInfoToTransport(n, ty) ==
    /\ phase[n] = "running" /\ ty \in Lossy \cap EnabledTypes[n]
    /\ \/ /\ status[n][ty] = "GOOD"
          /\ Broadcast(n, {ty}, <<GenerateDiscoveryInfo(n)>>, net, pipe)
          /\ UNCHANGED <<status, bitset, cache>>
       \/ /\ status[n][ty] = "FAILED"
          /\ status' = [status EXCEPT ![n] = [t \in Types |->
                IF t \in Failed(n) THEN "DISABLED" ELSE status[n][t]]]
          /\ bitset' = [bitset EXCEPT ![n] = @ \ Failed(n)]
          /\ cache' = [cache EXCEPT ![n] = EmptyCache]
          /\ Broadcast(n, Good(n), <<DiscoveryInfo(n, bitset[n] \ Failed(n), FALSE)>>,
                       net, pipe)
    /\ UNCHANGED <<phase, epoch, userVars, localVars, records, handling, task, channelVars>>

\* The main loop ends; deinitialize sets m_terminateFlag and waits for the
\* discovery thread.
Terminate(n) ==
    /\ n \in MayStop /\ phase[n] = "running"
    /\ phase' = [phase EXCEPT ![n] = "stopping"]
    /\ UNCHANGED <<epoch, userVars, localVars, remoteVars, transportVars, task,
                   channelVars, netVars>>

\* The rest of deinitialize: from now on the update callback does nothing.
Deinitialize(n) ==
    /\ phase[n] = "stopping"
    /\ task[n][DiscoveryThread].stage = "idle"
    /\ phase' = [phase EXCEPT ![n] = "terminated"]
    /\ SendDiscoveryInfo(n, DiscoveryInfo(n, bitset[n], TRUE), net, pipe)
    /\ cache' = [cache EXCEPT ![n] = CacheAfterSend(n)]
    /\ UNCHANGED <<epoch, userVars, localVars, records, handling, task, channelVars>>

\* The process is gone, and with it all it knew and whatever was on its way to
\* it, but for datagrams.
Vanish(n) ==
    /\ phase' = [phase EXCEPT ![n] = "off"]
    /\ changed' = [changed EXCEPT ![n] = FALSE]
    /\ local' = [local EXCEPT ![n] = NoPorts]
    /\ lastSent' = [lastSent EXCEPT ![n] = {}]
    /\ registered' = [registered EXCEPT ![n] = NoPorts]
    /\ loanFailed' = [loanFailed EXCEPT ![n] = FALSE]
    /\ records' = [records EXCEPT ![n] = <<>>]
    /\ cache' = [cache EXCEPT ![n] = EmptyCache]
    /\ status' = [status EXCEPT ![n] = [ty \in Types |-> "GOOD"]]
    /\ bitset' = [bitset EXCEPT ![n] = {}]
    /\ handling' = [handling EXCEPT ![n] = [ty \in Types |-> "none"]]
    /\ task' = [task EXCEPT ![n] = [k \in ThreadsOf |-> IdleTask]]
    /\ tr2iox' = [tr2iox EXCEPT ![n] = {}]
    /\ iox2tr' = [iox2tr EXCEPT ![n] = {}]
    /\ pipe' = [k \in DOMAIN pipe |-> IF k[3] = n THEN <<>> ELSE pipe[k]]
    /\ UNCHANGED <<epoch, ports, changes, net>>

\* The transports are destroyed, which waits for their threads, and run returns.
Exit(n) ==
    /\ phase[n] = "terminated"
    /\ \A k \in ThreadsOf : task[n][k].stage = "idle"
    /\ \A ty \in Types : handling[n][ty] = "none"
    /\ Vanish(n)

Crash(n) ==
    /\ n \in MayCrash /\ Up(n)
    /\ Vanish(n)

-----------------------------------------------------------------------------
(***************************************************************************)
(* Local discovery, on the discovery thread.                               *)
(***************************************************************************)

\* User applications open and close ports; RouDi publishes the new list, which
\* replaces an older one in the subscriber's queue of one element.
ChangePorts(n, new) ==
    /\ changes < MaxChanges /\ new # ports[n]
    /\ ports' = [ports EXCEPT ![n] = new]
    /\ changed' = [changed EXCEPT ![n] = Up(n)]
    /\ changes' = changes + 1
    /\ UNCHANGED <<phase, epoch, localVars, remoteVars, transportVars, task, channelVars,
                   netVars>>

\* pushUnique: a full vector silently refuses a service.
PushUnique(kept, more) ==
    LET added == SetToSeq(more \ kept)
    IN  kept \cup {added[i] : i \in {j \in 1 .. Cardinality(more \ kept) :
                                        j + Cardinality(kept) <= MAX_TOPICS}}

\* updateNeededChannels, for given local and remote state: local services come
\* first, so that remote ones are dropped when there are too many.
NeededServices(own, recs) ==
    LET remote == UNION {r.info.userSubscribers : r \in ToSet(recs)}
    IN  PushUnique(PushUnique(own.subscribers, own.publishers), remote)

\* readPortSubscriber, first critical section; without a change it returns.
ReadPortSubscriber(n) ==
    /\ phase[n] \in {"running", "stopping"}
    /\ changed[n] /\ task[n][DiscoveryThread].stage = "idle"
    /\ changed' = [changed EXCEPT ![n] = FALSE]
    /\ local' = [local EXCEPT ![n] = ports[n]]
    /\ task' = [task EXCEPT ![n][DiscoveryThread] =
          IF ports[n] = local[n]
          THEN [stage |-> "publish", needed |-> {}]
          ELSE [stage |-> "tr2iox", needed |-> NeededServices(ports[n], records[n])]]
    /\ UNCHANGED <<phase, epoch, ports, changes, lastSent, registered, loanFailed,
                   remoteVars, transportVars, channelVars, netVars>>

\* What a thread does after the update callback.
AfterUpdate(k) ==
    IF k = DiscoveryThread THEN [stage |-> "send", needed |-> {}] ELSE IdleTask

\* m_updateCallback, outside m_mutex: Transport2Iceoryx first.  There is no
\* callback before initialize, and one that does nothing after deinitialize.
UpdateTr2iox(n, k) ==
    /\ task[n][k].stage = "tr2iox"
    /\ IF phase[n] \in {"running", "stopping"}
       THEN /\ tr2iox' = [tr2iox EXCEPT ![n] = task[n][k].needed]
            /\ task' = [task EXCEPT ![n][k].stage = "iox2tr"]
       ELSE /\ task' = [task EXCEPT ![n][k] = AfterUpdate(k)]
            /\ UNCHANGED tr2iox
    /\ UNCHANGED <<phase, epoch, userVars, localVars, remoteVars, transportVars, iox2tr,
                   netVars>>

UpdateIox2tr(n, k) ==
    /\ task[n][k].stage = "iox2tr"
    /\ iox2tr' = [iox2tr EXCEPT ![n] = task[n][k].needed]
    /\ task' = [task EXCEPT ![n][k] = AfterUpdate(k)]
    /\ UNCHANGED <<phase, epoch, userVars, localVars, remoteVars, transportVars, tr2iox,
                   netVars>>

\* Mutant: without a change of subscribers nothing is published either.
SendOrReturn(n) ==
    /\ task[n][DiscoveryThread].stage = "send"
    /\ IF local[n].subscribers # lastSent[n]
       THEN /\ SendDiscoveryInfo(n, GenerateDiscoveryInfo(n), net, pipe)
            /\ cache' = [cache EXCEPT ![n] = CacheAfterSend(n)]
            /\ lastSent' = [lastSent EXCEPT ![n] = local[n].subscribers]
            /\ task' = [task EXCEPT ![n][DiscoveryThread].stage = "publish"]
       ELSE /\ task' = [task EXCEPT ![n][DiscoveryThread] = IdleTask]
            /\ UNCHANGED <<status, bitset, netVars, cache, lastSent>>
    /\ UNCHANGED <<phase, epoch, userVars, local, registered, loanFailed, records, handling,
                   channelVars>>

\* readPortSubscriber, second critical section.
SendIfChanged(n) ==
    /\ task[n][DiscoveryThread].stage = "send"
    /\ IF local[n].subscribers # lastSent[n]
       THEN /\ SendDiscoveryInfo(n, GenerateDiscoveryInfo(n), net, pipe)
            /\ cache' = [cache EXCEPT ![n] = CacheAfterSend(n)]
            /\ lastSent' = [lastSent EXCEPT ![n] = local[n].subscribers]
       ELSE UNCHANGED <<status, bitset, netVars, cache, lastSent>>
    /\ task' = [task EXCEPT ![n][DiscoveryThread] = [stage |-> "publish", needed |-> {}]]
    /\ UNCHANGED <<phase, epoch, userVars, local, registered, loanFailed, records, handling,
                   channelVars>>

\* waitsetLoop publishes what hasGwRegistered will find.  When loan finds no
\* chunk this is only logged: nothing is published before the next change.
PublishIntrospection(n) ==
    /\ task[n][DiscoveryThread].stage = "publish"
    /\ \/ /\ registered' = [registered EXCEPT ![n] = local[n]]
          /\ loanFailed' = [loanFailed EXCEPT ![n] = FALSE]
       \/ /\ n \in MayLackChunks
          /\ loanFailed' = [loanFailed EXCEPT ![n] = TRUE]
          /\ UNCHANGED registered
    /\ task' = [task EXCEPT ![n][DiscoveryThread] = IdleTask]
    /\ UNCHANGED <<phase, epoch, userVars, local, lastSent, remoteVars, transportVars,
                   channelVars, netVars>>

-----------------------------------------------------------------------------
(***************************************************************************)
(* Remote discovery, on the callback thread of a transport.                *)
(***************************************************************************)
RecordIndex(n, hash) ==
    {i \in 1 .. Len(records[n]) : records[n][i].info.gatewayHash = hash}

\* The device index of the sender, unless the record has one of this type.
StoreIndex(indices, index) ==
    IF \E i \in indices : i[1] = index[1] THEN indices ELSE indices \cup {index}

\* Mutant: the capacity of the records is not looked at.
RecordsUnbounded(n, info, index) ==
    Append(records[n], [info |-> info, deviceIndices |-> {index}])

\* A record whose gateway hash is new: emplace_back, then back() is filled.  A
\* full vector refuses the new record, and the last one is overwritten.
RecordsWithNew(n, info, index) ==
    IF Len(records[n]) < MAX_DEVICE_COUNT
    THEN Append(records[n], [info |-> info, deviceIndices |-> {index}])
    ELSE [records[n] EXCEPT ![MAX_DEVICE_COUNT] =
             [info |-> info, deviceIndices |-> StoreIndex(@.deviceIndices, index)]]

\* A thread goes on to the update callback.
NextUpdate(n, k, recs) ==
    task' = [task EXCEPT ![n][k] =
               [stage |-> "tr2iox", needed |-> NeededServices(local[n], recs)]]

\* What a transport thread can receive: any datagram of a lossy transport, the
\* next message of another; with what is left in the network.
Arrivals(n, ty, from) ==
    IF ty \in Lossy
    THEN {[info |-> Deserialize(msg.data), net |-> net \ {msg}, pipe |-> pipe] :
             msg \in {m \in net : m.to = n /\ m.type = ty /\ m.from = from}}
    ELSE {[info |-> Deserialize(Head(pipe[k])), net |-> net, pipe |-> [pipe EXCEPT ![k] = Tail(@)]] :
             k \in {k \in {<<ty, from, n>>} : pipe[k] # <<>>}}

\* receiveRemoteDiscoveryInfo of a termination: erase the record, if there is
\* one, and return.
ReceiveTermination(n, ty, msg) ==
    /\ msg.info.isTermination
    /\ \/ RecordIndex(n, msg.info.gatewayHash) = {} /\ UNCHANGED records
       \/ \E i \in RecordIndex(n, msg.info.gatewayHash) :
             records' = [records EXCEPT ![n] = RemoveAt(@, i)]
    /\ net' = msg.net /\ pipe' = msg.pipe
    /\ UNCHANGED <<cache, status, bitset, task>>

\* Mutant: news of a known gateway leave the cache as it is.
ReceiveFromKnownKeepsCache(n, ty, msg) ==
    /\ ~msg.info.isTermination
    /\ \E i \in RecordIndex(n, msg.info.gatewayHash) :
          records' = [records EXCEPT ![n][i] =
              [info |-> msg.info,
               deviceIndices |->
                  StoreIndex(@.deviceIndices, <<ty, msg.info.gatewayHash[1]>>)]]
    /\ NextUpdate(n, ty, records'[n])
    /\ net' = msg.net /\ pipe' = msg.pipe
    /\ UNCHANGED <<status, bitset, cache>>

\* A gateway that has a record.
ReceiveFromKnown(n, ty, msg) ==
    /\ ~msg.info.isTermination
    /\ \E i \in RecordIndex(n, msg.info.gatewayHash) :
          records' = [records EXCEPT ![n][i] =
              [info |-> msg.info,
               deviceIndices |->
                  StoreIndex(@.deviceIndices, <<ty, msg.info.gatewayHash[1]>>)]]
    /\ cache' = [cache EXCEPT ![n] = EmptyCache]
    /\ NextUpdate(n, ty, records'[n])
    /\ net' = msg.net /\ pipe' = msg.pipe
    /\ UNCHANGED <<status, bitset>>

\* A gateway not seen before; it is told about this one first.
ReceiveFromNew(n, ty, msg) ==
    /\ ~msg.info.isTermination
    /\ RecordIndex(n, msg.info.gatewayHash) = {}
    /\ IF TerminateFlag(n)
       THEN net' = msg.net /\ pipe' = msg.pipe /\ UNCHANGED <<status, bitset>>
       ELSE SendDiscoveryInfo(n, GenerateDiscoveryInfo(n), msg.net, msg.pipe)
    /\ records' = [records EXCEPT ![n] =
          RecordsWithNew(n, msg.info, <<ty, msg.info.gatewayHash[1]>>)]
    /\ cache' = [cache EXCEPT ![n] = EmptyCache]
    /\ NextUpdate(n, ty, records'[n])

ReceiveRemoteDiscoveryInfo(n, ty, from) ==
    /\ Up(n) /\ ty \in EnabledTypes[n] /\ task[n][ty].stage = "idle"
    /\ \E msg \in Arrivals(n, ty, from) :
          \/ ReceiveTermination(n, ty, msg)
          \/ ReceiveFromKnown(n, ty, msg)
          \/ ReceiveFromNew(n, ty, msg)
    /\ UNCHANGED <<phase, epoch, userVars, localVars, handling, channelVars>>

\* A datagram that is lost.  Without this action it may still stay in the
\* network for ever, which is the same to every safety property.
LoseDatagram ==
    /\ MayLose /\ \E msg \in net : net' = net \ {msg}
    /\ UNCHANGED <<phase, epoch, userVars, localVars, remoteVars, transportVars, task,
                   channelVars, pipe>>

-----------------------------------------------------------------------------
(***************************************************************************)
(* The users of discovery: a message of service s goes to these devices.   *)
(***************************************************************************)

\* The indices of a record that are of the type to use.
Matching(n, r) ==
    {i \in r.deviceIndices : i[1] = FindMatchingType(n, r.info.gatewayBitset)}

\* computeDeviceIndices: for each record with a matching subscriber, its index
\* of the type to use, if there is one, by the position of the record.
ComputeDeviceIndices(n, s) ==
    LET targets == {k \in DOMAIN records[n] : /\ s \in records[n][k].info.userSubscribers
                                              /\ Matching(n, records[n][k]) # {}}
    IN  [k \in targets |-> CHOOSE i \in Matching(n, records[n][k]) : TRUE]

\* generateDeviceIndices for a message of a registered local publisher.
GenerateDeviceIndices(n, s) ==
    /\ Up(n) /\ s \in iox2tr[n] /\ s \in local[n].publishers
    /\ s \notin DOMAIN cache[n] /\ Cardinality(DOMAIN cache[n]) < MAX_TOPICS
    /\ cache' = [cache EXCEPT ![n] =
          [r \in DOMAIN @ \cup {s} |-> IF r = s THEN ComputeDeviceIndices(n, s) ELSE @[r]]]
    /\ UNCHANGED <<phase, epoch, userVars, localVars, records, transportVars, task,
                   channelVars, netVars>>

-----------------------------------------------------------------------------
\* The steps of the main thread, of the discovery thread, and of a callback
\* thread or a thread that sends user data, once they have begun.
MainThread(n) == Initialize(n) \/ Deinitialize(n) \/ Exit(n)

WaitsetLoop(n) ==
    \/ ReadPortSubscriber(n)
    \/ UpdateTr2iox(n, DiscoveryThread) \/ UpdateIox2tr(n, DiscoveryThread)
    \/ SendIfChanged(n) \/ PublishIntrospection(n)

CallbackThread(n, ty) == UpdateTr2iox(n, ty) \/ UpdateIox2tr(n, ty)

HandleFailure(n, ty) == Disable(n, ty) \/ FailCallback(n, ty)

Next ==
    \/ \E n \in Nodes :
          \/ Start(n) \/ Terminate(n) \/ Crash(n)
          \/ MainThread(n) \/ WaitsetLoop(n)
          \/ \E new \in PortStates[n] : ChangePorts(n, new)
          \/ \E ty \in Types :
                \/ CallbackThread(n, ty) \/ HandleFailure(n, ty)
                \/ SetFailed(n, ty) \/ HasFailedSetDisabled(n, ty)
                \/ ResendDiscoveryInfoToTransport(n, ty)
                \/ \E from \in Nodes \ {n} : ReceiveRemoteDiscoveryInfo(n, ty, from)
          \/ \E s \in Services : GenerateDeviceIndices(n, s)
    \/ LoseDatagram

Spec == Init /\ [][Next]_vars

(***************************************************************************)
(* Fairness: every thread runs on, the main loop keeps resending on lossy  *)
(* transports, and a receiver to whom a node keeps sending receives from   *)
(* it again and again, although single datagrams are lost.  Nothing is     *)
(* assumed of user applications, of starts, stops, crashes, or failures.   *)
(***************************************************************************)
Fairness ==
    \A n \in Nodes :
        /\ WF_vars(MainThread(n))
        /\ WF_vars(WaitsetLoop(n))
        /\ \A ty \in Types :
              /\ WF_vars(CallbackThread(n, ty))
              /\ WF_vars(HandleFailure(n, ty))
              /\ WF_vars(ResendDiscoveryInfoToTransport(n, ty))
              /\ \A from \in Nodes \ {n} :
                    SF_vars(ReceiveRemoteDiscoveryInfo(n, ty, from))

FairSpec == Spec /\ Fairness

-----------------------------------------------------------------------------
\* Types; in particular the vector of records stays within its capacity.
TypeOK ==
    /\ phase \in [Nodes -> Phases]
    /\ epoch \in [Nodes -> 0 .. MaxEpoch]
    /\ ports \in [Nodes -> Ports]
    /\ changed \in [Nodes -> BOOLEAN]
    /\ changes \in 0 .. MaxChanges
    /\ local \in [Nodes -> Ports]
    /\ lastSent \in [Nodes -> SUBSET Services]
    /\ \A n \in Nodes :
          /\ records[n] \in Seq(DeviceRecord) /\ Len(records[n]) <= MAX_DEVICE_COUNT
          /\ DOMAIN cache[n] \subseteq Services
          /\ \A s \in DOMAIN cache[n] : Range(cache[n][s]) \subseteq DeviceIndex
    /\ status \in [Nodes -> [Types -> Statuses]]
    /\ bitset \in [Nodes -> SUBSET Types]
    /\ handling \in [Nodes -> [Types -> {"none", "disable", "callback"}]]
    /\ task \in [Nodes -> [ThreadsOf -> [stage : Stages, needed : SUBSET Services]]]
    /\ tr2iox \in [Nodes -> SUBSET Services]
    /\ iox2tr \in [Nodes -> SUBSET Services]
    /\ registered \in [Nodes -> Ports]
    /\ loanFailed \in [Nodes -> BOOLEAN]
    /\ \A msg \in net : /\ {msg.from, msg.to} \subseteq Nodes /\ msg.type \in Lossy
                         /\ Deserialize(msg.data) \in Info
    /\ DOMAIN pipe = (Types \ Lossy) \X Nodes \X Nodes
    /\ \A k \in DOMAIN pipe : \A i \in DOMAIN pipe[k] : Deserialize(pipe[k][i]) \in Info

\* CacheExact: as long as no transport failure is being handled, the cached
\* devices of a service are what computeDeviceIndices would find now: whoever
\* changes records or transports also clears the cache, in the same critical
\* section or in the fail callback.
CacheExact ==
    \A n \in Nodes :
        Failed(n) = {} /\ (\A ty \in Types : handling[n][ty] = "none") =>
            \A s \in DOMAIN cache[n] : cache[n][s] = ComputeDeviceIndices(n, s)

\* CacheComplete: even with terminations, no device that should get a message
\* is missing from the cache.
CacheComplete ==
    \A n \in Nodes :
        Failed(n) = {} /\ (\A ty \in Types : handling[n][ty] = "none") =>
            \A s \in DOMAIN cache[n] :
                Range(ComputeDeviceIndices(n, s)) \subseteq Range(cache[n][s])

\* The gateway with this hash has terminated in the orderly way.
HasTerminated(hash) ==
    \/ hash[2] < epoch[hash[1]]
    \/ hash[2] = epoch[hash[1]] /\ phase[hash[1]] \in {"terminated", "off"}

\* TerminatedForgotten: between nodes with one, reliable, transport, a gateway
\* that has terminated has no record once its messages have been received: its
\* termination is the last message it sends, whatever its callback threads do
\* between m_terminateFlag and the termination message.
TerminatedForgotten ==
    \A n \in Nodes : \A m \in Nodes \ ({n} \cup MayCrash) :
        \A ty \in EnabledTypes[n] \ Lossy :
            EnabledTypes[n] = {ty} /\ EnabledTypes[m] = {ty} =>
                \A r \in ToSet(records[n]) :
                    r.info.gatewayHash[1] = m /\ HasTerminated(r.info.gatewayHash) =>
                        \E i \in 1 .. Len(pipe[<<ty, m, n>>]) :
                            Deserialize(pipe[<<ty, m, n>>][i]).gatewayHash = r.info.gatewayHash

RunningPair(n, m) == n # m /\ phase[n] = "running" /\ phase[m] = "running"

\* Converges: when the user ports change no more, every running gateway with a
\* running peer ends up with the subscribers that peer has, and with exactly
\* the channels it needs, although datagrams are lost, delayed and reordered
\* and updates of two threads overtake each other.
Converges ==
    \A n, m \in Nodes : <>[](RunningPair(n, m) =>
        /\ \E r \in ToSet(records[n]) :
              /\ r.info.gatewayHash = Hash(m)
              /\ r.info.userSubscribers = ports[m].subscribers
        /\ tr2iox[n] = NeededServices(ports[n], records[n])
        /\ iox2tr[n] = tr2iox[n])

\* RegistrationCatchesUp: waitForGwRegistration ends: what the gateway publishes
\* as registered is eventually, and for good, what user applications have
\* opened, whatever became of earlier samples, unless the loan of the very
\* last sample failed, which waitsetLoop does not try again.
RegistrationCatchesUp ==
    \A n \in Nodes : <>[](phase[n] = "running" =>
        registered[n] = ports[n] \/ loanFailed[n])
=============================================================================
