------------------------- MODULE TransportForwarder -------------------------
(***************************************************************************)
(* TransportForwarder: messages that arrive over one transport are sent on *)
(* to devices which only another transport reaches.  Transport2Iceoryx     *)
(* notes the device that a message comes from and publishes the message;   *)
(* the forwarder takes it as a subscriber, looks up the device by the      *)
(* address of the payload, and sends to every device that has no transport *)
(* in common with that one.  Local publishers use the same services.       *)
(*                                                                         *)
(* External: iceoryx gives a chunk to another message once nobody holds    *)
(* it, drops the oldest chunk of a full queue, and connects a subscriber   *)
(* some time after its creation.  Local subscribers may hold a chunk for   *)
(* longer: the model just does not use it again.  A device record is       *)
(* reduced to a device that is known or not, and reachable over a          *)
(* transport of this gateway or not, with fixed transports and             *)
(* subscriptions.                                                          *)
(***************************************************************************)
EXTENDS Integers, Sequences, FiniteSets, SequencesExt

CONSTANTS
    Devices,                \* remote devices
    Transports(_),          \* the gatewayBitset of a device
    Wants(_),               \* the userSubscribers of a device
    DmaDevices,             \* devices whose transport makes messages pending
    Services,               \* services with a channel
    forwardedServices,      \* those of the configuration file
    Chunks,                 \* addresses of payloads
    MAX_FORWARDED_SERVICES, \* capacity of m_messagesToForward
    QueueCapacity,          \* chunks in the queue of a subscriber
    MaxHeld,                \* chunks that a subscriber holds in parallel
    MaxMessages,            \* bound: messages
    MaxChanges,             \* bound: changes of the device records
    NoDevice, Local

ASSUME ForwarderAssumption ==
    /\ forwardedServices \subseteq Services
    /\ IsFiniteSet(Devices) /\ DmaDevices \subseteq Devices
    /\ {MAX_FORWARDED_SERVICES, QueueCapacity, MaxHeld} \subseteq Nat \ {0}
    /\ MaxMessages \in Nat /\ MaxChanges \in Nat
    /\ NoDevice \notin Devices /\ Local \notin Devices

VARIABLES
    subscribed,         \* forwarded services whose subscriber is connected
    messagesToForward,  \* m_messagesToForward
    loaned,             \* the message that receive has noted and not yet published
    queue,              \* queues of the forwarder's subscribers
    hand,               \* the locals of waitsetLoop
    taken,              \* chunks that the forwarder's subscribers hold
    pending,            \* chunks of pending messages
    known,              \* devices with a record in DiscoveryManager
    reachable,          \* those whose record has an index for a transport of ours
    count, changes,     \* numbers of messages and of changes so far
    stale,              \* history: entries left behind, that no message was noted by
    lost,               \* history: messages the forwarder did not get
    failed,             \* history: messages with the devices they cannot get to
    forwarded           \* history: messages with the devices they were sent to

vars == <<subscribed, messagesToForward, loaned, queue, hand, taken, pending, known,
          reachable, count, changes, stale, lost, failed, forwarded>>
discoveryVars == <<known, reachable, changes>>
loopVars == <<hand, taken, pending>>

-----------------------------------------------------------------------------
\* noted: push has stored an entry with the device the message comes from.
Message == [number : 1 .. MaxMessages, service : Services, chunk : Chunks,
            from : Devices \cup {Local}, noted : BOOLEAN]
Entry == [chunk : Chunks, device : Devices]
EntryOf(m) == [chunk |-> m.chunk, device |-> m.from]

\* The loop waits; has taken a message; knows its device; sends it.
Steps == {"taken", "found", "sending"}
Idle == [at |-> "waiting"]

NothingLoaned == [chunk |-> NoDevice]

Share(d, e) == Transports(d) \cap Transports(e) # {}

Queued == UNION {{m.chunk : m \in ToSet(queue[s])} : s \in Services}
FreeChunks == Chunks \ (Queued \cup taken \cup {loaned.chunk})

Init ==
    /\ subscribed = {}
    /\ messagesToForward = <<>>
    /\ loaned = NothingLoaned
    /\ queue = [s \in Services |-> <<>>]
    /\ hand = Idle
    /\ taken = {} /\ pending = {}
    /\ known = Devices /\ reachable = Devices
    /\ count = 0 /\ changes = 0
    /\ stale = {} /\ lost = {} /\ failed = {} /\ forwarded = {}

-----------------------------------------------------------------------------
(***************************************************************************)
(* Messages are published.                                                 *)
(***************************************************************************)

\* The forwarder does not get a message; what was noted for it stays.
Missed(messages) ==
    /\ lost' = lost \cup {m.number : m \in messages}
    /\ stale' = stale \cup {EntryOf(m) : m \in {x \in messages : x.noted}}

\* The forwarder, if it subscribes to the service, gets a message.
Deliver(m) ==
    /\ IF m.service \notin forwardedServices
       THEN UNCHANGED <<queue, lost, stale>>
       ELSE IF m.service \notin subscribed
       THEN Missed({m}) /\ UNCHANGED queue
       ELSE IF Len(queue[m.service]) < QueueCapacity
       THEN /\ queue' = [queue EXCEPT ![m.service] = Append(@, m)]
            /\ UNCHANGED <<lost, stale>>
       ELSE /\ queue' = [queue EXCEPT ![m.service] = Append(Tail(@), m)]
            /\ Missed({Head(queue[m.service])})

\* Mutant of Push: the services of the configuration file are not looked at.
PushAny(s, c, d) ==
    IF Len(messagesToForward) < MAX_FORWARDED_SERVICES
    THEN Append(messagesToForward, [chunk |-> c, device |-> d])
    ELSE messagesToForward

\* push notes the device of a message of a forwarded service, if there is room.
Push(s, c, d) ==
    IF s \in forwardedServices /\ Len(messagesToForward) < MAX_FORWARDED_SERVICES
    THEN Append(messagesToForward, [chunk |-> c, device |-> d])
    ELSE messagesToForward

Remaining == {<<hand.message.number, e>> : e \in ToSet(hand.targets)}

\* A chunk that the loop has released, and still sends to the rest of its
\* devices, is used for another message: those devices get that one's data.
Reused(c) ==
    failed' = IF hand.at = "sending" /\ hand.message.chunk = c
              THEN failed \cup Remaining ELSE failed

\* receive has a complete message of device d, and calls push.
ReceiveMessage(s, c, d) ==
    /\ loaned = NothingLoaned /\ c \in FreeChunks /\ count < MaxMessages
    /\ count' = count + 1
    /\ messagesToForward' = Push(s, c, d)
    /\ loaned' = [number |-> count + 1, service |-> s, chunk |-> c, from |-> d,
                  noted |-> messagesToForward' # messagesToForward]
    /\ Reused(c)
    /\ UNCHANGED <<subscribed, queue, loopVars, discoveryVars, stale, lost, forwarded>>

\* receive publishes it.
PublishMessage ==
    /\ loaned # NothingLoaned
    /\ Deliver(loaned)
    /\ loaned' = NothingLoaned
    /\ UNCHANGED <<subscribed, messagesToForward, loopVars, discoveryVars, count, failed,
                   forwarded>>

\* A publisher on this device publishes a message.
PublishLocally(s, c) ==
    /\ c \in FreeChunks /\ count < MaxMessages
    /\ count' = count + 1
    /\ Deliver([number |-> count + 1, service |-> s, chunk |-> c, from |-> Local,
                noted |-> FALSE])
    /\ Reused(c)
    /\ UNCHANGED <<subscribed, messagesToForward, loaned, loopVars, discoveryVars, forwarded>>

\* A subscriber of the forwarder gets connected to the publishers.
Subscribe(s) ==
    /\ s \in forwardedServices \ subscribed
    /\ subscribed' = subscribed \cup {s}
    /\ UNCHANGED <<messagesToForward, loaned, queue, loopVars, discoveryVars, count,
                   stale, lost, failed, forwarded>>

\* DiscoveryManager adds or erases the record of a device, or the device index
\* in it for the transport to use.
ChangeRecords(d) ==
    /\ changes < MaxChanges
    /\ changes' = changes + 1
    /\ \/ /\ known' = SymDiff(known, {d})
          /\ UNCHANGED reachable
       \/ /\ reachable' = SymDiff(reachable, {d})
          /\ UNCHANGED known
    /\ UNCHANGED <<subscribed, messagesToForward, loaned, queue, loopVars, count,
                   stale, lost, failed, forwarded>>

-----------------------------------------------------------------------------
(***************************************************************************)
(* waitsetLoop.                                                            *)
(***************************************************************************)
publisherVars == <<subscribed, loaned, discoveryVars, count>>
historyVars == <<stale, lost, failed, forwarded>>

\* take; it fails, and the chunk is gone, when too many chunks are held.
Take(s) ==
    /\ hand = Idle /\ queue[s] # <<>>
    /\ queue' = [queue EXCEPT ![s] = Tail(@)]
    /\ IF Cardinality(taken) < MaxHeld
       THEN /\ taken' = taken \cup {Head(queue[s]).chunk}
            /\ hand' = [at |-> "taken", message |-> Head(queue[s]), device |-> NoDevice,
                        targets |-> <<>>]
            /\ UNCHANGED <<lost, stale>>
       ELSE /\ Missed({Head(queue[s])})
            /\ UNCHANGED <<taken, hand>>
    /\ UNCHANGED <<publisherVars, messagesToForward, pending, failed, forwarded>>

\* Mutant of FindDevice: the entry is not erased.
FindDeviceKeepsEntry ==
    /\ hand.at = "taken"
    /\ LET found == SelectSeq(messagesToForward, LAMBDA e : e.chunk = hand.message.chunk)
       IN  \E d \in IF found = <<>> THEN Devices ELSE {Head(found).device} :
              hand' = [hand EXCEPT !.at = "found", !.device = d]
    /\ UNCHANGED <<publisherVars, queue, messagesToForward, taken, pending, historyVars>>

\* The first entry with the payload's address is used and erased.  When there
\* is none, find returns end(), the test for nullptr holds all the same, and
\* the device index is whatever lies behind the last element.  Entries that are
\* left with the address belong to no message any more.
FindDevice ==
    /\ hand.at = "taken"
    /\ LET found == {i \in DOMAIN messagesToForward :
                        messagesToForward[i].chunk = hand.message.chunk}
       IN  \/ \E i \in found :
                 /\ \A j \in found : i <= j
                 /\ hand' = [hand EXCEPT !.at = "found", !.device = messagesToForward[i].device]
                 /\ messagesToForward' = RemoveAt(messagesToForward, i)
           \/ /\ found = {}
              /\ \E d \in Devices \cup {NoDevice} :
                    hand' = [hand EXCEPT !.at = "found", !.device = d]
              /\ UNCHANGED messagesToForward
    /\ stale' = stale \cup {e \in ToSet(messagesToForward') : e.chunk = hand.message.chunk}
    /\ UNCHANGED <<publisherVars, queue, taken, pending, lost, failed, forwarded>>

\* generateDeviceIndicesForwarding: nothing for an unknown source; otherwise
\* the subscribed devices without a transport in common with it, except those
\* for which no transport, or no device index of it, is found.
GenerateDeviceIndicesForwarding(s, d) ==
    IF d \notin known THEN {}
    ELSE {e \in known \cap reachable : ~Share(d, e) /\ s \in Wants(e)}

\* Mutant of ChooseDevices: without a device the chunk is not released.
ChooseDevicesKeepsChunk ==
    /\ hand.at = "found"
    /\ LET targets == GenerateDeviceIndicesForwarding(hand.message.service, hand.device)
       IN  IF targets = {}
           THEN hand' = Idle
           ELSE \E list \in SetToSeqs(targets) :
                   hand' = [hand EXCEPT !.at = "sending", !.targets = list]
    /\ UNCHANGED <<publisherVars, queue, messagesToForward, taken, pending, historyVars>>

\* The list of devices, in any order.  Without one the chunk is released.
ChooseDevices ==
    /\ hand.at = "found"
    /\ LET targets == GenerateDeviceIndicesForwarding(hand.message.service, hand.device)
       IN  IF targets = {}
           THEN /\ taken' = taken \ {hand.message.chunk}
                /\ hand' = Idle
           ELSE /\ \E list \in SetToSeqs(targets) :
                      hand' = [hand EXCEPT !.at = "sending", !.targets = list]
                /\ UNCHANGED taken
    /\ UNCHANGED <<publisherVars, queue, messagesToForward, pending, historyVars>>

\* Mutant of NextDevice: writeSegmented ends after the first device.
NextDeviceNone == Idle

\* writeSegmented goes on to the next device of the list.
NextDevice == IF Len(hand.targets) = 1 THEN Idle ELSE [hand EXCEPT !.targets = Tail(@)]

\* A device got the message, unless the chunk already holds another one.
Sent ==
    forwarded' = IF <<hand.message.number, Head(hand.targets)>> \in failed THEN forwarded
                 ELSE forwarded \cup {<<hand.message, Head(hand.targets)>>}

\* writeSegmented for a device whose transport sends at once: the chunk is
\* released, even if there are more devices in the list.
SendDirectly ==
    /\ hand.at = "sending" /\ Head(hand.targets) \notin DmaDevices
    /\ Sent
    /\ taken' = taken \ {hand.message.chunk}
    /\ hand' = NextDevice
    /\ UNCHANGED <<publisherVars, queue, messagesToForward, pending, stale, lost, failed>>

\* For a transport that makes it pending: its callback will release the chunk.
SendPending ==
    /\ hand.at = "sending" /\ Head(hand.targets) \in DmaDevices
    /\ Sent
    /\ pending' = pending \cup {hand.message.chunk}
    /\ hand' = NextDevice
    /\ UNCHANGED <<publisherVars, queue, messagesToForward, taken, stale, lost, failed>>

\* The transport of the device is disabled, so that doFor does nothing, or does
\* not get the message sent: the chunk is released all the same, and the loop
\* goes on with the next device.
SendFails ==
    /\ hand.at = "sending"
    /\ failed' = failed \cup {<<hand.message.number, Head(hand.targets)>>}
    /\ taken' = taken \ {hand.message.chunk}
    /\ hand' = NextDevice
    /\ UNCHANGED <<publisherVars, queue, messagesToForward, pending, stale, lost, forwarded>>

\* The table of pending messages, which Iceoryx2Transport fills as well, may be
\* full: the message is discarded, for the rest of the devices too.
DiscardMessage ==
    /\ hand.at = "sending" /\ Head(hand.targets) \in DmaDevices
    /\ failed' = failed \cup Remaining
    /\ taken' = taken \ {hand.message.chunk}
    /\ hand' = Idle
    /\ UNCHANGED <<publisherVars, queue, messagesToForward, pending, stale, lost, forwarded>>

\* The buffer sent callback.
BufferSent(c) ==
    /\ c \in pending
    /\ pending' = pending \ {c}
    /\ taken' = taken \ {c}
    /\ UNCHANGED <<publisherVars, queue, hand, messagesToForward, historyVars>>

-----------------------------------------------------------------------------
LoopStep ==
    \/ \E s \in Services : Take(s)
    \/ FindDevice \/ ChooseDevices
    \/ SendDirectly \/ SendPending \/ SendFails \/ DiscardMessage

Next ==
    \/ \E s \in Services, c \in Chunks :
          PublishLocally(s, c) \/ \E d \in Devices : ReceiveMessage(s, c, d)
    \/ PublishMessage
    \/ \E c \in Chunks : BufferSent(c)
    \/ \E s \in Services : Subscribe(s)
    \/ \E d \in Devices : ChangeRecords(d)
    \/ LoopStep

Spec == Init /\ [][Next]_vars

\* The loop wakes up at least every WAITSET_TIMEOUT, receive goes on to publish,
\* iceoryx connects subscribers, and a transport reports every transfer.
Fairness ==
    /\ WF_vars(LoopStep)
    /\ WF_vars(PublishMessage)
    /\ \A s \in Services : WF_vars(Subscribe(s))
    /\ \A c \in Chunks : WF_vars(BufferSent(c))

FairSpec == Spec /\ Fairness

-----------------------------------------------------------------------------
TypeOK ==
    /\ subscribed \subseteq forwardedServices
    /\ messagesToForward \in Seq(Entry)
    /\ Len(messagesToForward) <= MAX_FORWARDED_SERVICES
    /\ loaned = NothingLoaned \/ loaned \in Message
    /\ queue \in [Services -> Seq(Message)]
    /\ hand = Idle \/ hand \in [at : Steps, message : Message, device : Devices \cup {NoDevice},
                                targets : Seq(Devices)]
    /\ taken \subseteq Chunks /\ pending \subseteq Chunks
    /\ known \subseteq Devices /\ reachable \subseteq Devices
    /\ count \in 0 .. MaxMessages /\ changes \in 0 .. MaxChanges
    /\ stale \subseteq [chunk : Chunks, device : Devices \cup {Local}]
    /\ lost \subseteq 1 .. MaxMessages
    /\ failed \subseteq (1 .. MaxMessages) \X Devices
    /\ forwarded \subseteq Message \X Devices

\* NoEcho: "devices that dont share any enabled transport layer with the source
\* device": a message whose device was noted is never sent to a device that got
\* it from the source itself.  Not so in MCForwarder: an entry left behind by a
\* message that the forwarder did not get is found for the next one in the same
\* chunk.
NoEcho == \A f \in forwarded : f[1].noted => ~Share(f[1].from, f[2])

\* EchoNeedsStale: that is the only way.  A noted message is sent to a device
\* that got it from the source itself only if an entry was left behind under
\* its address, of a device that shares no transport with this one; whatever
\* happens to the messages in other chunks, in the table and in the records.
EchoNeedsStale ==
    \A f \in forwarded :
        f[1].noted /\ Share(f[1].from, f[2]) =>
            \E x \in stale : x.chunk = f[1].chunk /\ ~Share(x.device, f[2])

\* EntriesHaveMessages: an entry of m_messagesToForward names the device of the
\* one message with its payload address that the forwarder has still to look
\* up, so that it will be erased, unless it was left behind.
EntriesHaveMessages ==
    LET ahead == {loaned} \cup (UNION {ToSet(queue[s]) : s \in Services})
                    \cup (IF hand.at = "taken" THEN {hand.message} ELSE {})
    IN  \A i \in DOMAIN messagesToForward :
            messagesToForward[i] \notin stale =>
                /\ \E m \in ahead \ {NothingLoaned} :
                      /\ m.chunk = messagesToForward[i].chunk
                      /\ m.from = messagesToForward[i].device
                /\ \A j \in DOMAIN messagesToForward :
                      j # i /\ messagesToForward[j].chunk = messagesToForward[i].chunk =>
                          messagesToForward[j] \in stale

\* ForwardedToAll: "the gateway on device B will forward all" user data of a
\* forwarded service: a message that was noted gets to every device that wants
\* it and shares no transport with its source, if both stay known and the
\* device reachable, no entry was left behind under its address and its queue
\* does not lose it; unless sending to this very device fails, or comes after
\* the chunk was released and used again.
ForwardedToAll ==
    \A k \in 1 .. MaxMessages : \A d \in Devices : \A e \in {x \in Devices : ~Share(d, x)} :
        (/\ loaned # NothingLoaned /\ loaned.number = k /\ loaned.noted
         /\ \A x \in stale : x.chunk # loaned.chunk
         /\ loaned.from = d /\ loaned.service \in Wants(e)
         /\ [](d \in known /\ e \in known \cap reachable))
            ~> (\/ k \in lost \/ <<k, e>> \in failed
                \/ \E f \in forwarded : f[1].number = k /\ f[2] = e)

\* ChunksReturned: the forwarder releases every chunk that it takes.
ChunksReturned == \A c \in Chunks : c \in taken ~> c \notin taken
=============================================================================
