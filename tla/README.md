# Formal models of the p3com gateway

TLA+ models of the p3com gateway, the TLC configurations that check them on small instances, and
proofs that TLAPS checks. Definitions carry the names of the code where TLA+ allows it;
`PROJECT.json` maps every definition to the source lines it stands for.

## The system

A p3com gateway is a daemon that extends iceoryx, a shared-memory publish/subscribe system, over a
network. On each device one gateway subscribes to what local applications publish, sends it to the
gateways of other devices, and publishes there what arrives.

| Component | State | Operations | Threads |
|---|---|---|---|
| `DiscoveryManager` | local ports, records of remote gateways, cache of device indices, last info sent | `initialize`, `deinitialize`, `readPortSubscriber`, `receiveRemoteDiscoveryInfo`, `resendDiscoveryInfoToTransport`, `generateDeviceIndices` | its own waitset thread, transport threads, the main thread; `m_mutex` (recursive) |
| `TransportInfo`, `TransportLayer` | status of each transport, bitset of enabled ones | `doFor`, `doForAllEnabled`, `findMatchingType`, `disable`, fail callback | any; atomics, no lock |
| `Transport2Iceoryx` | a publisher per service | `receive`, `loanBuffer`, `releaseBuffer`, `updateChannels` | transport threads; `m_endpointsMutex` |
| `SegmentedMessageManager` | table of incomplete messages | `push`, `findAndDecrement`, `find`, `release`, `releaseAll`, `checkSegmentedMessages` | transport threads, the main thread |
| `Iceoryx2Transport` | a subscriber per service, waitset, suspend flag | `waitsetLoop`, `updateChannels`, `join` | its waitset thread, discovery and transport threads; `m_endpointsMutex`, `m_waitsetMutex` |
| `PendingMessageManager` | table of chunks being sent by DMA | `push`, `release`, `anyPending` | waitset threads, transport threads |
| `writeSegmented`, `takeNext` | none | cut a message into submessages, copy one into a chunk | the callers' |
| `TransportForwarder` | keys of messages to forward between transports | `push`, `waitsetLoop`, `join` | its waitset thread, transport threads |
| `TCPTransport`, `UDPTransport`, `UDPBroadcast` | sessions, sockets, table of endpoints | send, broadcast, asynchronous receive, connect and retry | ASIO threads |
| `GatewayApp` | none | `run`: construct, initialize, main loop, tear down | the main thread |
| Gateway introspection | none (reads what the gateway publishes) | `hasGwRegistered`, `waitForGwRegistration`, `isGwRunning` | user applications |
| Configuration, command line, serialization, containers, logging | constants, none | pure functions | - |

How they interact. Discovery hears of local ports from iceoryx introspection and of remote ones
from other gateways; it hands the set of needed services to both gateways (update callback), which
create and delete channels. `Iceoryx2Transport` asks discovery for the devices of each message and
sends it through `TransportInfo`; a transport that fails is disabled in the same call, and a fail
callback makes discovery announce it. Transports call back into `Transport2Iceoryx` with segments
or DMA buffers, into `PendingMessageManager` with finished transfers, and into discovery. The main
thread resends discovery information on lossy transports (UDP and TCP, which broadcast it in UDP
datagrams) and discards timed out messages.

What is hard:

- Ownership of shared-memory chunks passes between threads, tables and transports; a release too
  many, too early or too late is a corrupted or leaked sample.
- Publishers and subscribers are destroyed by channel updates while other threads hold pointers to
  them in tables, notifications and locals.
- Discovery state is read under a lock and applied after it, by several threads.
- Messages are lost, delayed and reordered; gateways crash, restart and terminate at any time.
- A transport fails while others compute routes from its status.
- Tables are bounded: segments, pending messages, records, channels.

What makes each part correct: every loaned chunk has one owner, and is published complete or given
back (`Transport2Iceoryx`); what is sent is still on loan, and is released once (`Iceoryx2Transport`);
a published message equals the one sent (segmentation); routes follow records, records follow
gateways, and channels follow both (discovery); updates end (all); a device has one session and one
index, and data between two devices keeps its order (transports); a message is sent on where it is
missing and nowhere else (forwarder); answers are true to some moment of the call (introspection).

## Modules

| Module | Stands for |
|---|---|
| `TransportToIox` | `Transport2Iceoryx`, `SegmentedMessageManager`, the channel table, the part of `TransportForwarder` that concerns chunks |
| `IoxToTransport` | `Iceoryx2Transport`, `PendingMessageManager`, `writeSegmented` |
| `Segmentation` | the arithmetic of `writeSegmentedInternal`, `receive` and `takeNext` for one message, and the serialized datagram header |
| `Discovery` | `DiscoveryManager`, `TransportInfo`, the life cycle in `GatewayApp::run`, on several nodes with a network |
| `UdpBroadcast` | the discovery socket and the device table that both IP transports share |
| `UdpTransport` | `UDPTransport` on several nodes; extends `UdpBroadcast` |
| `TcpTransport` | `TCPTransport` with its sessions on several nodes; extends `UdpBroadcast` |
| `OrderedLink` | what a connection-oriented transport promises: the abstract specification that `TcpTransport` implements |
| `IpTransport` | the IP transport of a build, one of the two; extends `TcpTransport`, instantiates `UdpTransport` |
| `TransportForwarder` | `TransportForwarder`, `generateDeviceIndicesForwarding`, and `writeSegmented` as it uses it |
| `GwIntrospection` | the functions of `gw_introspection.cpp` and the publications of the gateway that they read |
| `TransportToIoxProofs`, `IoxToTransportProofs`, `SegmentationProofs`, `DiscoveryProofs`, `UdpTransportProofs`, `IpTransportProofs` (for `TcpTransport` and `IpTransport`), `TransportForwarderProofs`, `GwIntrospectionProofs` | the theorems about each module and their proofs |
| `MCTransportToIox`, `MCIoxToTransport`, `MCDiscovery`, `MCIpTransport`, `MCTransportForwarder`, `MCGwIntrospection` | constants for TLC |

Definitions under a comment that begins with `Mutant:` are broken variants of the definition that
follows them. Nothing uses them; they serve to see that a property fails when the code is wrong.
`TypeOK` describes the state of each module, also where no run checks it.

### TransportToIox

One action is a piece of code between two points where another thread can interfere.
`m_endpointsMutex` is an explicit lock; the short critical sections of the segment table are parts
of a step. Each transport thread has the locals of the callback it executes (`thread`).

- `receive`: `EnterChannel` (or `CallbackWithoutChannel`), then `ReceiveNextSegment` for a message in
  the table, or `BeginNewMessage`, `Loan` (or `LoanFails`), `Push`; then `Write` and `Publish`.
- DMA: `LoanBufferAgain` or the new-message path, `FinishDma`, and a report, which is ignored, discards the
  message or publishes it (`ReleaseBufferIgnored`, `ReleaseBufferFailed`, `ReleaseBufferFilled`).
- `checkSegmentedMessages`: `CheckErase` and `CheckRelease`, its two critical sections.
- `updateChannels`: `BeginUpdate` makes the lists of channels to delete and to set up,
  `DeleteChannel` works off the first, then `SetupChannel` the second, with `AddChannel` refusing a channel when
  `MAX_TOPICS` exist; `EndUpdate`.

A chunk's bytes are the set of segments copied into it; a deadline is a nondeterministic expiry;
publisher addresses can be reused. A segment is handed up once, except those in `Repeated`, which come
again any number of times (`Delivered`): UDP may do that, and so does a sender with two records of a restarted
gateway. The code counts a repeated segment each time, and may publish its message without the
others, so `PublishedComplete` is about messages whose segments come once (`Once`). `orphaned` is a history variable: it records that a channel was
deleted in the window of `checkSegmentedMessages` described under Findings, after which ownership
is not claimed any more.

### IoxToTransport

`loop` is the waitset thread with its notifications and the message it forwards; `updater` is the
one thread at a time that holds `m_endpointsMutex` to update channels; callback threads are the
transfers in `dma` and the half-finished releases in `releasing`. A subscriber is its service with
the number of its setup, so that an old pointer and a new object differ. Use of a destroyed
subscriber, and release of a chunk that is not held, is undefined: the process ends (`Crash`) or
the operation has no effect. Which devices a message has is a nondeterministic list. A message is at
most one pending transfer: several pending submessages, or a pending user header, which
`writeSegmentedInternal` reports as "not supported in this p3com gateway version", are left out. The
submessages for one device are sent in one step.

### Segmentation

The two sending loops, one action per iteration, and reassembly in any order. Bytes are named by
their place. Sizes are unsigned numbers of `Width` bits. A datagram is the serialized header, field
after field, followed by bytes; it may arrive without its end (`Truncate`), and `receive` compares
the two lengths (`Valid`).

### Discovery

One action is a critical section of `m_mutex` (sending happens inside) or a call outside of it.
`task` holds, for the discovery thread and each transport's thread, what is left to do after the
mutex was released: the set of needed services waits there to be applied to `tr2iox` and then
`iox2tr`, so that sets can overtake each other. A thread that sends user data notices a failed
transport in three steps (`HasFailedSetDisabled`, `Disable`, `FailCallback`); discovery itself does
it within its critical section (`SendDiscoveryInfo`). `net` holds datagrams, which may be received
in any order or lost; `pipe` holds the messages of an ordered transport. A gateway hash is a node
and a count of starts. Sets of needed services are cut off at `MAX_TOPICS`, as `pushUnique` does silently
(`PushUnique`). On nodes in `MayLackChunks` the sample with the registered ports may not be loaned; the code
logs this and publishes nothing before the next change of ports (`loanFailed`). `InitialPorts` are the ports that were open before the gateways started. Crashes (`Crash`) lose everything but datagrams already sent. After
`m_terminateFlag` is set, the discovery thread may still read ports before it is joined; the model
lets it do so more than once. Infos travel in serialized form: the number of services, the services
and the other fields, which `Deserialize` finds by position.

### UdpBroadcast and UdpTransport

A device gets the next index of the table `devices` when its first broadcast arrives, while there is
room; without room the reported index is one past the end. `told` is the index that discovery
stores. User data is a datagram that may be lost, delayed and, because receipt does not remove it,
duplicated. Errors of the data socket fail the transport; those of the discovery socket only end
its receipts (`deaf`). A restart empties a node's tables, and nothing else.

### TcpTransport

All handlers of a node run on its ASIO thread, one step each: `UdpDiscoveryCallback` (a broadcast
opens a client session or reports a known device), `Connected`, `ConnectionFailed`, `Retry`,
`Accept`, `ReadSize`, `ReadBytes`, `ReadGarbled`, `ReadError`. Threads that send user data are apart,
and take no lock: `SendSize` and `SendBytes` are the two writes of `sendData`. A connection is a pair
of token streams with the set of its closed ends; connections wait in `backlog` for `async_accept`,
in order. An info is the hash of the gateway it is about. `Failure` counts against `MaxFailures`:
errors of sockets, refused connections that could have succeeded, crashes. The history variable
`faults` records that two threads wrote to one session at a time (`overlap`), that one wrote to an erased
session (`stray`), and that a receiver is out of step (`garbled`).

The refinement: `Link == INSTANCE OrderedLink` with `sent` and `received`, the numbers of the last
messages sent and handed up on each link. In `OrderedLink` a message may be lost, and is never
invented, repeated or overtaken. `InOrder == Link!Spec` is checked as a property of `ip_transports`.

### TransportForwarder

`ReceiveMessage` notes a message's device (`Push`) and `PublishMessage` publishes it; `Take`,
`FindDevice`, `ChooseDevices`, `SendDirectly`, `SendPending`, `SendFails` and `DiscardMessage` are the steps of the
loop. A send fails when the transport is disabled or does not get it done; a device without
a usable transport or index (`reachable`) is skipped. iceoryx gives a chunk, and with it the payload address that serves as key, to another message
once nobody holds it; the queue of a subscriber drops its oldest chunk. `writeSegmented` releases the chunk after each
direct send, so for the rest of its devices it may already hold another message (`Reused`); such a send is
not a delivery. `stale`, `lost` and `failed` are history:
entries left behind by messages the forwarder never got, those messages, and the sends that failed. An
entry left behind is found, and its device used, for the next message in the chunk. For a message without
entry `find` returns `end()`, which the code takes for an entry; the device is then any.

### GwIntrospection

`hasGwRegistered` and `hasServiceRegistered` are calls that do not wait, the other two are calls that do; a
publisher or a service is an item. Each stage of a call is a point where the gateway may publish
(`Publish`), fail to (`PublishFails`), stop or start. RouDi connects a subscriber and hands it the
last sample in one step, before the subscriber can see that it is subscribed. The end of a wait is the signed sum of
the clock and the timeout, which has become signed first (`ToSigned`); an overflow of the sum is
undefined, so that the wait then ends at once or not (`HasTimeLeft`). `seen` and `missed`
are history: whether the item was, or was not, registered at some moment of the call.

## Runs

Passing runs:

| Run | Bounds | Shows |
|---|---|---|
| `receive` | 2 threads, 3 messages (two of 2 segments), a segment of one of them that comes again and again, 3 services with room for 2 channels, 2 chunks, table of 1 | types; each chunk on loan has one owner (`ChunkOwnership`); table entries name live publishers; segments are copied into chunks on loan; only complete messages are published; updates leave exactly the wanted channels, also at the limit (`UpdateIsExact`); every loan ends (`ChunksReturned`) |
| `late_dma` | 2 messages of 2 segments, a payload sent by DMA that may outlast its deadline and its channel, a forwarded service; room for 1 channel and 1 entry | `OwnershipInv` (inductive) holds although reports are late, and every loan ends (`ChunksReturned`) |
| `forward` | 3 messages, a DMA device that may fail and a direct one, at most one device for each message, pending table of 1, room for one channel, 3 updates | what is sent or transferred is on loan (`PayloadHeld`), is released once (`ReleasedOnce`) and eventually (`ChunksReturned`); the waitset knows only live subscribers (`AttachedLive`); updates end (`UpdateEnds`) |
| `segmentation` | headers to 3 bytes, payloads to 5, transports of 1 to 3, one truncated datagram | types and buffer bounds; what is published is what was sent (`PublishedIntact`); without loss, every message that is not empty is published (`Arrives`) |
| `discovery_lossy` | 2 nodes, UDP, one crashes and restarts and its transport may fail, room for 1 record, ports open from the start | types; outside the handling of a failure, cached devices equal computed ones (`CacheExact`) |
| `discovery_shutdown` | 2 nodes, ordered transport, stop and restart, 2 port changes | a terminated gateway is forgotten (`TerminatedForgotten`); no cached list lacks a device (`CacheComplete`) |
| `discovery_converges` | 2 nodes, UDP with loss, 2 port changes, loans of samples that fail | gateways come to agree (`Converges`); registration catches up, unless the last loan failed (`RegistrationCatchesUp`) |
| `ip_transports` | TCP: 2 devices, 2 sending threads, 2 messages, 3 connections, 1 retry, 1 failure, 1 restart; UDP: 3 devices, table of 1, 1 message, 1 restart | one session for a device (`OneSessionPerPeer`); streams stay in step (`FramesIntact`); TCP implements `OrderedLink` (`InOrder`); attempts to connect end (`SessionsSettle`); running gateways get, and stay, known (`Known`); UDP indices name the sender (`DeviceIndexAgrees`) |
| `forwarder` | 3 devices on 2 transports, one by DMA, 2 messages, 2 chunks, table of 2, queue of 1, 2 changes of the records | a message is sent back to devices its source reaches only because of an entry left behind under its address (`EchoNeedsStale`); other entries belong to messages (`EntriesHaveMessages`); every device that needs a message gets it, although sends to others fail (`ForwardedToAll`); chunks are released (`ChunksReturned`) |
| `introspection` | 1 caller, 2 items, timeouts on both sides of the sign bit, 3 changes, 2 starts of the gateway | answers are right at some moment of the call (`AnswerJustified`); no registration is missed (`Answered`); calls return when a gateway runs and time passes (`Returns`) |

Why these bounds are enough. Two threads are the fewest that interleave, and every lock admits one
at a time. Tables with room for one entry are full in most behaviours. Messages of two segments
can be complete, half complete and begun anew. Three sizes around each multiple of the transport
size cover both ends of rounding. Two gateways show every exchange of discovery: a record depends
on its own gateway only, except when the vector is full, which a restarted gateway with a second
hash brings about in `discovery_lossy`. Two devices show every kind of crossing connection, since a
session concerns one peer; what only a third device shows is listed under Findings. Callers of the
introspection API meet only through the gateway, so one is enough.

Datagrams are lost only in `discovery_converges` (`MayLose`): for safety, a message that is never
received is as good as lost, and so it is in `segmentation`. Deadlock is not checked where the system
may come to rest: with an ordered transport only, discovery has nothing to resend, nor when its only transport has failed; after `join` the
waitset loop has ended; a message has been delivered; all messages of a bound have been sent; a
caller of the introspection API waits for a gateway that is never started.

### Fairness

- Threads that have work run on (weak fairness). In `TransportToIox`, a thread that waits for a mutex
  which others hold for bounded times gets it (strong fairness). In `IoxToTransport`, nothing of that
  kind is assumed of `m_waitsetMutex`: the suspend flag has to do it.
- The main loop runs periodically: it keeps resending and checking deadlines.
- A DMA transfer ends and is reported. This is the contract of a transport.
- A gateway that keeps sending datagrams to a node is heard again and again (strong fairness of the
  receipt). Single datagrams may be lost.
- Broadcasts of a running gateway are repeated and heard; an ASIO thread runs every handler that is
  ready; a sender that has written a size goes on to the bytes.
- RouDi serves subscribers that connect and disconnect. Nothing is assumed of timeouts: `Answered`
  holds without their help. `Returns` has the passing of time as its own premise.
- Nothing is assumed of user applications, updates, starts, stops, crashes and failures.

### Findings

Two runs are expected to end in a violation of what the repository's own texts say; `PROJECT.json`
quotes them.

| Run | What the code does |
|---|---|
| `forward_multi` | with several devices the chunk is released after each send, also during a transfer to another device (`PayloadHeld`) |
| `full_table` | with a full segment table `push` releases the chunk, and `loanBuffer` returns the pointer to it all the same (`LoanedBufferValid`) |

Three further statements of these texts are written down next to the properties, and no run lists them:
put into the configuration named, TLC finds each violated.

| Statement | Configuration | What the code does |
|---|---|---|
| `DmaTargetLoaned` | `MCLateDma` | a deadline that passes during a DMA transfer ends the loan of the buffer, before the call after which it "can be either published or released" (`transport.hpp:83`) |
| `NoEcho` | `MCForwarder` | an entry of a message that the forwarder never got gives its device to the next message in the chunk, which is then sent to devices that have it, and not those that "dont share any enabled transport layer with the source device" (`discovery.cpp:420`) |
| `WaitsForRegistration` | `MCIntrospection` | the default timeout, `Duration::max()`, becomes -1, and the functions that "make it possible to wait for the gateway registration" (`README.md:98`) return before they have waited |

The models contain further behaviour that limits what the passing runs claim. What may go wrong there
is listed, with its line, under the hazards of `PROJECT.json`.

- `checkSegmentedMessages` releases a timed out chunk in a second critical section; its publisher may
  be destroyed between the two (`orphaned`, which `OwnershipInv` takes into account).
- After a timeout has released a chunk under a transfer nothing is claimed of what is published:
  `MessagesComplete` is about transfers in time (`DmaInTime`).
- Segments are counted, not identified: a message of which a segment comes twice can be published
  without another one. `PublishedComplete` leaves such messages out.
- A sample that cannot be loaned is not published later; only the next change of ports makes up for it.
- The termination of a gateway erases its record but leaves the cached device indices: with
  terminations, `CacheExact` is violated; `CacheComplete` holds.
- `deleteChannel` does not see a pending message that is just being released, nor one that was taken
  and not yet sent, and destroys the subscriber; notifications from before an update are used after
  it. `PayloadHeld` and `ReleasedOnce` therefore speak of messages whose channel still exists, and
  the liveness properties of behaviours in which undefined behaviour does not end the process.
- A message without payload and user header is never sent (the premise of `Arrives`).
- The older of two sets of needed channels can be applied last. `Converges` holds because datagrams
  are resent; over ordered transports nothing would repair it.
- With all records in use, a new gateway overwrites the last record and inherits its device
  (`TypeOK` only says that the vector keeps to its capacity).
- Without its termination datagram, a gateway that is gone stays recorded (`TerminatedForgotten` is
  about ordered transports).
- Two threads in `sendData` of one session mix their sizes and bytes, and a session may be erased
  under a sender: `FramesIntact` says that nothing else puts a stream out of step.
- With two failures, while both devices connect to each other, an old connection in the backlog can be
  accepted after the newer session of the same device is lost, and its messages arrive late: `InOrder`
  is checked with one failure. `MessagesStayInOrder` shows that order is lost in no other way than by
  accepting a connection that its client has closed.
- The erase of a TCP session moves the ones behind it to other indices, while discovery keeps the first
  index it was told; user data carries the index of the broadcast table instead. Both need three
  devices to show. `OneSessionPerPeer` is what keeps sessions within the vector's capacity
  (`TcpAssumption`: not more peers than `MAX_DEVICE_COUNT`).
- Infos of failed sessions stay in `m_infoToReport`; `Known` holds all the same.
- A gateway whose discovery socket has failed is deaf for good, and `Known` does not speak of it.
- `find` returns `end()`, never `nullptr`: the forwarder works with an arbitrary device for messages
  that have no entry. `EchoNeedsStale` and `ForwardedToAll` speak of those that have one.
- Entries left behind are erased only when their address is taken again, and may fill the forwarder's
  table for good; messages that find no room in it have no entry.
- A timeout that fits a signed number can still overflow when the clock is added to it.
- Without a running gateway the introspection functions spin for ever, whatever the timeout (the
  premise of `Returns`).
- The third argument of the buffer released callback means "discard" in `releaseBuffer`, and "should
  be published" in the comment of `bufferReleasedCallback_t`; the model follows the code.

## Proofs

Every theorem holds for all values of the constants that satisfy the named assumptions of the
module (types of constants, sentinels that differ, bounds that are natural numbers), so for any
number of devices, threads, services, messages, restarts and failures and any capacity of the
tables. Where a theorem has a further hypothesis, it is named below, with the reason why the code
needs it. Each module's argument is one inductive invariant, with one lemma for each action, or for
each kind of step when many actions do the same to the state in question.

| Module | Theorems | Inductive invariant |
|---|---|---|
| `TransportToIoxProofs` | `TypeCorrectness`, `OwnershipCorrect`, `ChunksAreOwned`, `TableIsLive`, `WritesAreLoaned`, `MessagesComplete`, `UpdatesAreExact` | `TypeOK`, `OwnershipInv`, `CompleteInv`, `UpdateInv` |
| `IoxToTransportProofs` | `TypeCorrectness`, `WaitsetIsLive`, `PayloadsStayHeld`, `ChunksReleasedOnce` | `TypeInv`, `EndpointsInv`, `LoanInv` |
| `SegmentationProofs` | `SegmentsCorrect`, `TypeCorrectness`, `MessagesStayIntact` | `IntactInv` |
| `DiscoveryProofs` | `TypeCorrectness`, `CacheStaysComplete`, `CacheStaysExact`, `TerminatedAreForgotten` | `TypeInv`, `CompleteInv`, `ExactInv`, `ForgottenInv` |
| `UdpTransportProofs` | `IndicesAgree` | `IndexInv` |
| `IpTransportProofs` | `TypeCorrectness`, `SessionsAreUnique`, `SessionsFit`, `FramesStayIntact`, `MessagesStayInOrder`, `IpTransportsCorrect`, `IpMessagesStayInOrder` | `TcpInv`, `OrderInv`, `IpInv` |
| `TransportForwarderProofs` | `EchoesNeedStaleEntries`, `EntriesAreLookedUp` | `ForwardInv` |
| `GwIntrospectionProofs` | `TypeCorrectness`, `AnswersAreJustified` | `CallsInv` |

### TransportToIoxProofs

`TypeCorrectness`: the part that is not obvious is that `remainingSegments` of a table entry is never
zero, so the unsigned decrement does not wrap.

`ChunkOwnership` is not inductive: that a freshly loaned chunk can be pushed without creating a
second entry, or that a decremented entry still names the publisher of the channel, depends on who
holds the mutex. `OwnershipInv` adds

- `MutualExclusion`: a thread owns the mutex exactly when it is inside its channel;
- `ChannelsDistinct`: no publisher serves two services;
- `CallbackInChannel`: the publisher a callback works with is still its channel's, and a message it
  did not find in the table has no entry before its own push;
- `TableNamesLiveChannel` and `WriteTargetLoaned`.

Most of the callback's steps reduce to `CallbackStep` (tables, loans and channels unchanged) and to
`OthersHoldNothing` (other threads are outside while one holds the mutex).

`MessagesComplete` (`PublishedComplete`): the code publishes when a counter gets to zero, and a counter
does not say which segments have come. `CompleteInv` connects the two: an entry waits for at least as
many segments as its chunk lacks and no thread is about to copy, and a segment that was received does
not come again, in messages none of whose segments is in `Repeated`. `TransfersInv` says of each DMA transfer that it goes
to the chunk its message has in the table, so that a chunk is not given back under it. The theorem has
the hypothesis `DmaInTime`, which is true without DMA. With it it asks for what the code does not see to itself:

- a transfer ends before the deadline of its message, else `checkSegmentedMessages` gives its chunk back;
- the table has room for every message, else `push` gives the chunk back and `loanBuffer` returns it;
- no message has two segments sent by DMA, else `releaseBuffer` gives the chunk back when one transfer
  fails while the other one goes on;
- the channels of messages sent by DMA stay needed, else `updateChannels` deletes them under a transfer.

Without the first `DmaTargetLoaned` is violated, and without the second `LoanedBufferValid` (`full_table`).

`UpdatesAreExact` (`UpdateIsExact`) is an action property: the channels at the end of `updateChannels` are the
set it was given, although `addChannel` refuses a channel when the table is full and nobody looks at
the answer. `UpdateInv` says that what is left to delete is what exists and is not wanted, and what is
left to set up is what is wanted and does not exist; once nothing is left to delete, the channels and
those to come are therefore the set asked for, of at most `MAX_TOPICS`, and `addChannel` has room.

### IoxToTransportProofs

`WaitsetIsLive` (`AttachedLive`) rests on what an update that is under way still has to do: channels to be
deleted exist, those to be set up do not, and a subscriber about to be destroyed is detached.

`PayloadsStayHeld` and `ChunksReleasedOnce` need to know who will release a chunk: the loop, one entry of
the pending table, or one callback (`LoopOwns`, `TablesOwn`), and that a message is taken from a queue
once (`FreshInv`). Both have the hypothesis `SingleDevice`: with more devices the code releases a chunk
after each send, which the run `forward_multi` shows.

### SegmentationProofs

`MessagesStayIntact` (`PublishedIntact`) is for all sizes and all orders of arrival. `CountInv`: datagrams
received, on their way and spoilt are no more than those cut. `PlacesInv`: each place of the message
that the sender has passed is filled or on its way. When the counter is zero as many datagrams have
been received as the sender cuts in all, so none is on its way and every place is filled. That both
loops of the sender cut exactly `submessageCount` datagrams is arithmetic about `divideAndRoundUp`
(`DivideAndRoundUp` loses one with each full submessage, and one with the rest).
`SegmentationAssumption` says that `2 ^ Width` is a natural number because the provers know nothing of
exponentiation; TLC evaluates it.

### DiscoveryProofs

`RoundTrip`: deserializing what was serialized gives the info back; the length of the list of services
says where the other fields are. `TypeInv` says that everything on its way is a serialized info, from which
`TypeCorrectness` follows.

`CacheStaysComplete` and `CacheStaysExact` classify what a step may do to the cache of a node
(`CacheChange`): what routes are computed from stays as it is, or the cache is cleared, or the node is
in the middle of handling a failure, or a list is computed. Only a received termination does something else: it erases
a record and keeps the cache (`Forgets`), which can only make a cached list too long. So
`CacheComplete` holds always, and `CacheExact` under the hypothesis `MayStop = {}`, with which no termination is
ever on its way (`NewsInv`). `OffInv` is needed where a gateway starts and its bitset changes: its cache is empty.

`TerminatedAreForgotten` (`TerminatedForgotten`): `FollowedInv` says that when a gateway has terminated and
is still known or mentioned in the pipe, the last message about it in the pipe is its termination. A gateway
must not send after it (`QuietInv`: the discovery thread is idle outside of `running` and
`stopping`; callback threads look at `m_terminateFlag`), the termination must go into the pipe (`GoodInv`: the
transport is good; `GoneInv`: a node without gateway has nothing to forget), erasing one record must
suffice (`UniqueInv`), and messages of a third node must not bring the gateway back (`SenderInv`).
Every action is one of six kinds of step (`StepKinds`): `Quiet`, `Begins`, `Talks`, `Ends`, `Leaves`, `Hears`.
The hypothesis `Reliable` says that reliable transports do not fail; a failed one does not send the termination.

### UdpTransportProofs and IpTransportProofs

`IndicesAgree`: the table names no device twice, and what discovery was told is the place in the table or,
when the table is full, the one behind its end, to which nothing is sent.

`SessionsAreUnique` (`OneSessionPerPeer`) follows from the look at the sessions before a client or a server session
is added, since both happen on one thread. `SessionsFit` concludes that `emplace_back`, which is not asked
whether there is room, has it: no gateway has a session with itself (`OthersInv`), so a vector of as many
places as there are other devices is enough (`TcpAssumption`).

`FramesStayIntact` (`FramesIntact`) needs to know that an end of a connection is held by one session or waits once
in the backlog (`EndsInv`), that held ends are open (`OpenInv`), that a writer's end is its node's or closed
(`SendersInv`), and that writers are alone (`AloneInv`). `FramesInv` says of each stream that sizes and bytes
alternate, from what the reader has read of it to what a writer has still to write.

`MessagesStayInOrder` (`InOrder`): the numbers of messages alone do not say why a new session cannot
overtake an old one. `OrderInv` puts in a row what a device has still to read: first the stream of
its session, then the streams of the connections that wait in its backlog, in their order. It says
that numbers grow along this row (`SortedInv`), that all of them are newer than what has been read
(`UnreadInv`) and were sent by the other device (`NumbersInv`). Only connections that count are in the row:
those that their client has not closed (`Alive`, `Places`). `AliveInv` says that a waiting connection which
is alive is the one its client has a session for, so at most one of them is alive and the next message
gets to the end of the row. Each step is then a step of `OrderedLink` or leaves it alone
(`StepRefines`): `sendData` is its sending, and `readInner` with a whole message its receipt.

It has two hypotheses. `TwoDevices`: a row is that of one pair of devices; networks of three are
left to the plan. `[][AcceptsAlive]_vars`: the theorem is about behaviours in which `startAccept` never makes
a session for a connection that its client has closed while it waited (it may refuse one). The code does
not ensure this: the acceptor cannot see it, and what the client had written can still be read. TLC finds order lost that
way with two failures. Threads, messages, connections, retries, failures, crashes and restarts are as
many as one likes. The run `ip_transports` checks `InOrder` without this hypothesis, with one failure.

`IpTransportsCorrect` and `IpMessagesStayInOrder` are about the composition: whichever transport a build
has, the other one stands still.

### TransportForwarderProofs

`EchoesNeedStaleEntries` (`EchoNeedsStale`) and `EntriesAreLookedUp` (`EntriesHaveMessages`): the key of an entry is a payload
address, which iceoryx gives to another message once nobody holds it. `PlacesInv` says that chunks that are
loaned, queued and taken are different ones, `NotedInv` that all entries under the address of a message that was noted
are its own or were left behind, and `EchoInv` that a message was sent only where its own device, or that of
an entry left behind, allows it. Both have the hypothesis `DmaAlone`: a message that goes to a device by DMA goes to no other one.
Otherwise `writeSegmented` releases the chunk while it is pending, and the callback later releases it under
another message.

### GwIntrospectionProofs

`AnswersAreJustified` (`AnswerJustified`) needs that the history of a call accounts for what is published now and what its
subscriber holds (`CallInv`), and that a call with an empty queue has missed the item.

### What stays with TLC

- Liveness, under the fairness above: `ChunksReturned`, `UpdateEnds`, `Arrives`, `Converges`,
  `RegistrationCatchesUp`, `SessionsSettle`, `Known`, `ForwardedToAll`, `Answered`, `Returns`.

Every safety property of the passing runs is stated by a theorem, some under a hypothesis named above.

## Not modelled

- TCP networks of three devices: the code is modelled (`Nodes` is any set), but their states are too
  many for TLC.
- `isGwRunning`, which asks RouDi and keeps no state; the search for broadcast addresses.
- The one pending table that `Iceoryx2Transport` and `TransportForwarder` share; each has its own here.
- The order in which discovery, both gateways, the forwarder and the transports end.
- The PCIe transport is not in the repository; its interface is used as documented.
- Two transports at a time in `Discovery`: the code is modelled (`Types` may have several elements),
  but the states of two such gateways are too many for TLC.
- Messages of which several submessages, or the user header, are pending at a time.
- Parsing of configuration and command line, logging, FreeRTOS variants, memory copies.
- Data races inside single container operations, such as that on `m_gatewayPublisherUids`.

## Plan

1. `MessagesStayInOrder` for more than two devices: `OrderInv` for each pair, with the row of a pair
   picked out of the sessions and of the backlog that all devices share.
2. An abstract network of connections, small enough for three devices, for the indices of TCP
   sessions that move.
3. Failover between two transports, with local discovery abstracted, for what is announced over the
   one and delayed on the other.
4. Shutdown: the order in which discovery, both gateways and the transports end, as a composition of
   the models.
