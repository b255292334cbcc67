--------------------------- MODULE IoxToTransport ---------------------------
(***************************************************************************)
(* Iceoryx2Transport: user messages taken from iceoryx and sent to remote  *)
(* devices, with writeSegmented and the PendingMessageManager, which keeps *)
(* a chunk on loan while a transport transfers it by DMA.                  *)
(*                                                                         *)
(* Threads: the waitset loop; the thread that updates the channels (one at *)
(* a time, since it holds m_endpointsMutex); callback threads of the       *)
(* transports, which report finished transfers.  A step is a critical      *)
(* section or the part between two of them.                                *)
(*                                                                         *)
(* A subscriber is a service with the number of times it was set up, since *)
(* deleting a channel destroys the object.  The devices of a message,      *)
(* which discovery chooses, are an arbitrary list.  Segments of one message are  *)
(* sent in one step: no other thread tells them apart.                     *)
(***************************************************************************)
EXTENDS Integers, Sequences, FiniteSets

CONSTANTS
    Services,
    Messages,       \* messages of user publishers, each published once
    ServiceOf,      \* the service of a message
    Devices,
    DmaDevices,     \* devices whose transport says willBePending
    DeviceLists,    \* what generateDeviceIndices may return
    FailingDevices, \* devices whose transport may fail
    NeededSets,     \* what updateChannels may be called with
    MAX_TOPICS,     \* capacity of m_endpoints
    MaxPending,     \* MAX_PENDING_MESSAGE_COUNT
    MaxHeld,        \* chunks a subscriber may hold in parallel
    MaxUpdates,     \* bound: how often channels are updated
    NoMessage, NoSubscriber

ASSUME ForwardingAssumption ==
    /\ IsFiniteSet(Services) /\ IsFiniteSet(Messages)
    /\ ServiceOf \in [Messages -> Services]
    /\ DmaDevices \subseteq Devices /\ FailingDevices \subseteq Devices
    /\ DeviceLists \subseteq Seq(Devices)
    /\ NeededSets \subseteq SUBSET Services
    /\ MAX_TOPICS \in Nat /\ MaxPending \in Nat /\ MaxHeld \in Nat /\ MaxUpdates \in Nat
    /\ NoMessage \notin Messages
    /\ NoSubscriber \notin Services \X (0 .. MaxUpdates)

VARIABLES
    published,  \* the messages published so far
    endpoints,  \* m_endpoints
    setups,     \* how often a channel was set up for each service
    queue,      \* the queue of each service's subscriber
    attached,   \* the subscribers m_waitset listens to
    suspend,    \* m_suspendFlag
    waitLock,   \* who holds m_waitsetMutex
    endLock,    \* who holds m_endpointsMutex for longer than a step
    loop,       \* the waitset thread
    updater,    \* the thread that updates channels
    updates,    \* number of updates so far
    terminate,  \* m_terminateFlag
    good,       \* whether the transport to a device is good
    pending,    \* m_pendingMessages (the counter of an entry is always one)
    dma,        \* transfers that a transport is executing
    releasing,  \* PendingMessageManager::release between its critical sections
    held,       \* the chunks on loan to subscribers
    crashed     \* an undefined operation has ended the process

channelVars == <<endpoints, setups, queue, attached>>
updateVars == <<updater, updates, endLock>>
pendingVars == <<pending, dma, releasing>>
vars == <<published, channelVars, suspend, waitLock, loop, updateVars, terminate, good,
          pendingVars, held, crashed>>

-----------------------------------------------------------------------------
Subscribers == Services \X (0 .. MaxUpdates)
Subscriber(s) == <<s, setups[s]>>
Live(sub) == sub[1] \in endpoints /\ sub = Subscriber(sub[1])

LoopPoints == {"idle", "wait", "suspend", "dispatch", "indices", "begin", "send",
               "pending", "release", "discard", "done"}
UpdatePoints == {"idle", "next", "detach", "destroy", "attach"}

IdleLoop == [pc |-> "idle", notified |-> {}, sub |-> NoSubscriber, msg |-> NoMessage,
             devices |-> <<>>, shouldBePending |-> FALSE]
IdleUpdater == [pc |-> "idle", delete |-> {}, setup |-> {}, sub |-> NoSubscriber]

Init ==
    /\ published = {}
    /\ endpoints = {} /\ setups = [s \in Services |-> 0]
    /\ queue = [s \in Services |-> <<>>] /\ attached = {}
    /\ suspend = FALSE /\ waitLock = "free" /\ endLock = "free"
    /\ loop = IdleLoop /\ updater = IdleUpdater /\ updates = 0
    /\ terminate = FALSE
    /\ good = [d \in Devices |-> TRUE]
    /\ pending = {} /\ dma = {} /\ releasing = {} /\ held = {}
    /\ crashed = FALSE

\* A user publisher publishes; a subscriber that exists gets the message.
Publish(m) ==
    /\ m \notin published
    /\ published' = published \cup {m}
    /\ queue' = IF ServiceOf[m] \in endpoints
                THEN [queue EXCEPT ![ServiceOf[m]] = Append(@, m)] ELSE queue
    /\ UNCHANGED <<endpoints, setups, attached, suspend, waitLock, loop, updateVars,
                   terminate, good, pendingVars, held, crashed>>

FailTransport(d) ==
    /\ d \in FailingDevices /\ good[d]
    /\ good' = [good EXCEPT ![d] = FALSE]
    /\ UNCHANGED <<published, channelVars, suspend, waitLock, loop, updateVars, terminate,
                   pendingVars, held, crashed>>

-----------------------------------------------------------------------------
(***************************************************************************)
(* waitsetLoop.                                                            *)
(***************************************************************************)
LockWaitset ==
    /\ loop.pc = "idle" /\ ~terminate /\ waitLock = "free"
    /\ waitLock' = "loop"
    /\ loop' = [loop EXCEPT !.pc = "wait"]
    /\ UNCHANGED <<published, channelVars, suspend, updateVars, terminate, good, pendingVars,
                   held, crashed>>

LoopEnds ==
    /\ loop.pc = "idle" /\ terminate
    /\ loop' = [loop EXCEPT !.pc = "done"]
    /\ UNCHANGED <<published, channelVars, suspend, waitLock, updateVars, terminate, good,
                   pendingVars, held, crashed>>

\* timedWait returns the subscribers with data, or none after its timeout.
TimedWait ==
    /\ loop.pc = "wait"
    /\ waitLock' = "free"
    /\ loop' = [loop EXCEPT !.pc = "suspend",
                            !.notified = {sub \in attached : queue[sub[1]] # <<>>}]
    /\ UNCHANGED <<published, channelVars, suspend, updateVars, terminate, good, pendingVars,
                   held, crashed>>

\* Mutant: the loop does not wait for an update.
DoNotSuspend ==
    /\ loop.pc = "suspend"
    /\ loop' = [loop EXCEPT !.pc = "dispatch"]
    /\ UNCHANGED <<published, channelVars, suspend, waitLock, updateVars, terminate, good,
                   pendingVars, held, crashed>>

\* The loop yields while m_suspendFlag is set.
WaitWhileSuspended ==
    /\ loop.pc = "suspend" /\ ~suspend
    /\ loop' = [loop EXCEPT !.pc = "dispatch"]
    /\ UNCHANGED <<published, channelVars, suspend, waitLock, updateVars, terminate, good,
                   pendingVars, held, crashed>>

LoopAgain ==
    /\ loop.pc = "dispatch" /\ loop.notified = {}
    /\ loop' = IdleLoop
    /\ UNCHANGED <<published, channelVars, suspend, waitLock, updateVars, terminate, good,
                   pendingVars, held, crashed>>

\* take, under m_endpointsMutex, from a notified subscriber.
Take(sub) ==
    /\ loop.pc = "dispatch" /\ sub \in loop.notified /\ endLock = "free"
    /\ Live(sub) /\ queue[sub[1]] # <<>>
    /\ Cardinality({h \in held : h[2] = sub}) < MaxHeld
    /\ queue' = [queue EXCEPT ![sub[1]] = Tail(@)]
    /\ held' = held \cup {<<Head(queue[sub[1]]), sub>>}
    /\ loop' = [loop EXCEPT !.pc = "indices", !.notified = @ \ {sub}, !.sub = sub,
                            !.msg = Head(queue[sub[1]])]
    /\ UNCHANGED <<published, endpoints, setups, attached, suspend, waitLock, updateVars,
                   terminate, good, pendingVars, crashed>>

\* With too many chunks held the message is dropped.  From a destroyed
\* subscriber, if that does not crash, nothing is taken.
TakeFails(sub) ==
    /\ loop.pc = "dispatch" /\ sub \in loop.notified /\ endLock = "free"
    /\ \/ /\ Live(sub) /\ queue[sub[1]] # <<>>
          /\ Cardinality({h \in held : h[2] = sub}) >= MaxHeld
          /\ queue' = [queue EXCEPT ![sub[1]] = Tail(@)]
       \/ /\ ~Live(sub)
          /\ UNCHANGED queue
    /\ loop' = [loop EXCEPT !.notified = @ \ {sub}]
    /\ UNCHANGED <<published, endpoints, setups, attached, suspend, waitLock, updateVars,
                   terminate, good, pendingVars, held, crashed>>

\* Mutant: a message without devices is not released.
GenerateDeviceIndicesLeaks(devices) ==
    /\ loop.pc = "indices"
    /\ loop' = [loop EXCEPT !.pc = IF devices = <<>> THEN "dispatch" ELSE "begin",
                            !.devices = devices]
    /\ UNCHANGED <<published, channelVars, suspend, waitLock, updateVars, terminate, good,
                   pendingVars, held, crashed>>

\* A message without devices is released.
GenerateDeviceIndices(devices) ==
    /\ loop.pc = "indices"
    /\ loop' = [loop EXCEPT !.pc = IF devices = <<>> THEN "release" ELSE "begin",
                            !.devices = devices]
    /\ UNCHANGED <<published, channelVars, suspend, waitLock, updateVars, terminate, good,
                   pendingVars, held, crashed>>

-----------------------------------------------------------------------------
(***************************************************************************)
(* writeSegmented, for the first of the remaining devices.                 *)
(***************************************************************************)
Device == Head(loop.devices)
Chunk == <<loop.msg, loop.sub>>

\* The loop is done with a device: the next one, or the next notification.
NextDevice(l) ==
    LET rest == IF l.devices = <<>> THEN <<>> ELSE Tail(l.devices)
    IN  IF rest = <<>>
        THEN [l EXCEPT !.pc = "dispatch", !.devices = <<>>, !.sub = NoSubscriber,
                       !.msg = NoMessage, !.shouldBePending = FALSE]
        ELSE [l EXCEPT !.pc = "begin", !.devices = rest, !.shouldBePending = FALSE]

\* PendingMessageManager::push refuses a payload it has, and a full table.
CanPush(m) == (\A p \in pending : p[1] # m) /\ Cardinality(pending) < MaxPending

Begin ==
    /\ loop.pc = "begin"
    /\ IF good[Device] /\ Device \in DmaDevices
       THEN IF CanPush(loop.msg)
            THEN /\ pending' = pending \cup {Chunk}
                 /\ loop' = [loop EXCEPT !.pc = "send", !.shouldBePending = TRUE]
            ELSE /\ loop' = [loop EXCEPT !.pc = "discard"]
                 /\ UNCHANGED pending
       ELSE /\ loop' = [loop EXCEPT !.pc = "send", !.shouldBePending = FALSE]
            /\ UNCHANGED pending
    /\ UNCHANGED <<published, channelVars, suspend, waitLock, updateVars, terminate, good,
                   dma, releasing, held, crashed>>

\* Mutant: after the release of a message whose push was refused the loop goes on.
DiscardContinues ==
    /\ loop.pc = "discard" /\ endLock = "free"
    /\ held' = held \ {Chunk}
    /\ loop' = [loop EXCEPT !.pc = "release"]
    /\ UNCHANGED <<published, channelVars, suspend, waitLock, updateVars, terminate, good,
                   pendingVars, crashed>>

\* push was refused: release, and forget the remaining devices.
Discard ==
    /\ loop.pc = "discard" /\ endLock = "free"
    /\ held' = held \ {Chunk}
    /\ loop' = NextDevice([loop EXCEPT !.devices = <<>>])
    /\ UNCHANGED <<published, channelVars, suspend, waitLock, updateVars, terminate, good,
                   pendingVars, crashed>>

\* Mutant: the chunk is released although its transfer is pending.
SendThenRelease ==
    /\ loop.pc = "send" /\ good[Device] /\ loop.shouldBePending
    /\ dma' = dma \cup {<<loop.msg, Device>>}
    /\ loop' = [loop EXCEPT !.pc = "release"]
    /\ UNCHANGED <<published, channelVars, suspend, waitLock, updateVars, terminate, good,
                   pending, releasing, held, crashed>>

\* writeSegmentedInternal starts a transfer: at most one submessage of a message
\* is pending, and none of a user header.  The code logs that other messages
\* "are not supported in this p3com gateway version" and goes on as if nothing
\* were pending: transports that make messages pending must not need them.
SendPending ==
    /\ loop.pc = "send" /\ good[Device] /\ loop.shouldBePending
    /\ dma' = dma \cup {<<loop.msg, Device>>}
    /\ loop' = NextDevice(loop)
    /\ UNCHANGED <<published, channelVars, suspend, waitLock, updateVars, terminate, good,
                   pending, releasing, held, crashed>>

\* It sends and is done, or sending fails, or the transport has failed.
SendNotPending ==
    /\ loop.pc = "send"
    /\ loop' = [loop EXCEPT !.pc = IF loop.shouldBePending THEN "pending" ELSE "release"]
    /\ UNCHANGED <<published, channelVars, suspend, waitLock, updateVars, terminate, good,
                   pendingVars, held, crashed>>

\* Nothing is pending after all: PendingMessageManager::release in the loop.
ForgetPending ==
    /\ loop.pc = "pending"
    /\ IF Chunk \in pending
       THEN /\ pending' = pending \ {Chunk}
            /\ loop' = [loop EXCEPT !.pc = "release"]
       ELSE /\ loop' = NextDevice(loop)
            /\ UNCHANGED pending
    /\ UNCHANGED <<published, channelVars, suspend, waitLock, updateVars, terminate, good,
                   dma, releasing, held, crashed>>

\* UntypedSubscriber::release by the loop, under m_endpointsMutex.
Release ==
    /\ loop.pc = "release" /\ endLock = "free"
    /\ held' = held \ {Chunk}
    /\ loop' = NextDevice(loop)
    /\ UNCHANGED <<published, channelVars, suspend, waitLock, updateVars, terminate, good,
                   pendingVars, crashed>>

-----------------------------------------------------------------------------
(***************************************************************************)
(* A transport reports that a transfer is finished.                        *)
(***************************************************************************)

\* PendingMessageManager::release, first critical section.
BufferSent(m, d) ==
    /\ <<m, d>> \in dma
    /\ dma' = dma \ {<<m, d>>}
    /\ pending' = {p \in pending : p[1] # m}
    /\ releasing' = releasing \cup {<<p[1], p[2], d>> : p \in pending \ pending'}
    /\ UNCHANGED <<published, channelVars, suspend, waitLock, loop, updateVars, terminate,
                   good, held, crashed>>

\* Second one, under the mutex of the gateway that pushed the message.
ReleasePending(r) ==
    /\ r \in releasing /\ endLock = "free"
    /\ releasing' = releasing \ {r}
    /\ held' = held \ {<<r[1], r[2]>>}
    /\ UNCHANGED <<published, channelVars, suspend, waitLock, loop, updateVars, terminate,
                   good, pending, dma, crashed>>

-----------------------------------------------------------------------------
(***************************************************************************)
(* updateChannels and join.                                                *)
(***************************************************************************)
BeginUpdate(needed) ==
    /\ updater.pc = "idle" /\ endLock = "free" /\ ~terminate /\ updates < MaxUpdates
    /\ endLock' = "updater"
    /\ updates' = updates + 1
    /\ updater' = [updater EXCEPT !.pc = "next", !.delete = endpoints \ needed,
                                  !.setup = needed \ endpoints]
    /\ UNCHANGED <<published, channelVars, suspend, waitLock, loop, terminate, good,
                   pendingVars, held, crashed>>

BeginDelete(s) ==
    /\ updater.pc = "next" /\ s \in updater.delete
    /\ suspend' = TRUE
    /\ updater' = [updater EXCEPT !.pc = "detach", !.sub = Subscriber(s)]
    /\ UNCHANGED <<published, channelVars, waitLock, loop, updates, endLock, terminate, good,
                   pendingVars, held, crashed>>

\* Mutant: the channel is deleted while the waitset listens to it.
DoNotDetach ==
    /\ updater.pc = "detach" /\ waitLock = "free"
    /\ suspend' = FALSE
    /\ updater' = [updater EXCEPT !.pc = "destroy"]
    /\ UNCHANGED <<published, channelVars, waitLock, loop, updates, endLock, terminate, good,
                   pendingVars, held, crashed>>

\* Under m_waitsetMutex.  What still arrives before unsubscribe is not seen.
Detach ==
    /\ updater.pc = "detach" /\ waitLock = "free"
    /\ attached' = attached \ {updater.sub}
    /\ suspend' = FALSE
    /\ updater' = [updater EXCEPT !.pc = "destroy"]
    /\ UNCHANGED <<published, endpoints, setups, queue, waitLock, loop, updates, endLock,
                   terminate, good, pendingVars, held, crashed>>

\* Once nothing of the subscriber is pending it is destroyed, which returns
\* its chunks.
Destroy ==
    /\ updater.pc = "destroy"
    /\ \A p \in pending : p[2] # updater.sub
    /\ endpoints' = endpoints \ {updater.sub[1]}
    /\ queue' = [queue EXCEPT ![updater.sub[1]] = <<>>]
    /\ held' = {h \in held : h[2] # updater.sub}
    /\ updater' = [updater EXCEPT !.pc = "next", !.delete = @ \ {updater.sub[1]},
                                  !.sub = NoSubscriber]
    /\ UNCHANGED <<published, setups, attached, suspend, waitLock, loop, updates, endLock,
                   terminate, good, pendingVars, crashed>>

\* setupChannel: m_endpoints may be full.
BeginSetup(s) ==
    /\ updater.pc = "next" /\ updater.delete = {} /\ s \in updater.setup
    /\ IF Cardinality(endpoints) < MAX_TOPICS
       THEN /\ endpoints' = endpoints \cup {s}
            /\ setups' = [setups EXCEPT ![s] = @ + 1]
            /\ suspend' = TRUE
            /\ updater' = [updater EXCEPT !.pc = "attach", !.setup = @ \ {s},
                                          !.sub = <<s, setups'[s]>>]
       ELSE /\ updater' = [updater EXCEPT !.setup = @ \ {s}]
            /\ UNCHANGED <<endpoints, setups, suspend>>
    /\ UNCHANGED <<published, queue, attached, waitLock, loop, updates, endLock, terminate,
                   good, pendingVars, held, crashed>>

Attach ==
    /\ updater.pc = "attach" /\ waitLock = "free"
    /\ attached' = attached \cup {updater.sub}
    /\ suspend' = FALSE
    /\ updater' = [updater EXCEPT !.pc = "next", !.sub = NoSubscriber]
    /\ UNCHANGED <<published, endpoints, setups, queue, waitLock, loop, updates, endLock,
                   terminate, good, pendingVars, held, crashed>>

EndUpdate ==
    /\ updater.pc = "next" /\ updater.delete = {} /\ updater.setup = {}
    /\ endLock' = "free"
    /\ updater' = IdleUpdater
    /\ UNCHANGED <<published, channelVars, suspend, waitLock, loop, updates, terminate, good,
                   pendingVars, held, crashed>>

Join ==
    /\ ~terminate
    /\ terminate' = TRUE
    /\ UNCHANGED <<published, channelVars, suspend, waitLock, loop, updateVars, good,
                   pendingVars, held, crashed>>

-----------------------------------------------------------------------------
(***************************************************************************)
(* A thread is about to use a subscriber that is destroyed, or to release  *)
(* a chunk that its subscriber does not hold.  The program may crash, or   *)
(* go on as the actions above say.                                         *)
(***************************************************************************)
UndefinedUse ==
    \/ loop.pc = "dispatch" /\ endLock = "free" /\ \E sub \in loop.notified : ~Live(sub)
    \/ loop.pc = "indices" /\ ~Live(loop.sub)
    \/ loop.pc \in {"release", "discard"} /\ endLock = "free" /\ Chunk \notin held
    \/ endLock = "free" /\ \E r \in releasing : <<r[1], r[2]>> \notin held

Crash ==
    /\ UndefinedUse
    /\ crashed' = TRUE
    /\ UNCHANGED <<published, channelVars, suspend, waitLock, loop, updateVars, terminate,
                   good, pendingVars, held>>

WaitsetLoop ==
    \/ LockWaitset \/ LoopEnds \/ TimedWait \/ WaitWhileSuspended \/ LoopAgain
    \/ \E sub \in loop.notified : Take(sub) \/ TakeFails(sub)
    \/ \E devices \in DeviceLists : GenerateDeviceIndices(devices)
    \/ Begin \/ Discard \/ SendPending \/ SendNotPending \/ ForgetPending \/ Release

Callback ==
    \/ \E m \in Messages, d \in Devices : BufferSent(m, d)
    \/ \E r \in releasing : ReleasePending(r)

Updater ==
    \/ \E s \in Services : BeginDelete(s) \/ BeginSetup(s)
    \/ Detach \/ Destroy \/ Attach \/ EndUpdate

Next ==
    /\ ~crashed
    /\ \/ WaitsetLoop \/ Callback \/ Updater \/ Crash \/ Join
       \/ \E m \in Messages : Publish(m)
       \/ \E d \in Devices : FailTransport(d)
       \/ \E needed \in NeededSets : BeginUpdate(needed)

Spec == Init /\ [][Next]_vars

\* Every thread runs on, and every transfer comes to an end.  Of the mutexes
\* nothing is assumed but that a thread gets one that stays free.
Fairness ==
    /\ WF_vars(~crashed /\ WaitsetLoop)
    /\ WF_vars(~crashed /\ Updater)
    /\ WF_vars(~crashed /\ Callback)

FairSpec == Spec /\ Fairness

-----------------------------------------------------------------------------
\* Types, and the capacity of the tables.
TypeOK ==
    /\ published \subseteq Messages
    /\ endpoints \subseteq Services /\ Cardinality(endpoints) <= MAX_TOPICS
    /\ setups \in [Services -> 0 .. MaxUpdates]
    /\ queue \in [Services -> Seq(Messages)]
    /\ attached \subseteq Subscribers
    /\ suspend \in BOOLEAN /\ waitLock \in {"free", "loop"} /\ endLock \in {"free", "updater"}
    /\ loop \in [pc : LoopPoints, notified : SUBSET Subscribers,
                 sub : Subscribers \cup {NoSubscriber}, msg : Messages \cup {NoMessage},
                 devices : Seq(Devices), shouldBePending : BOOLEAN]
    /\ updater \in [pc : UpdatePoints, delete : SUBSET Services, setup : SUBSET Services,
                    sub : Subscribers \cup {NoSubscriber}]
    /\ updates \in 0 .. MaxUpdates
    /\ terminate \in BOOLEAN /\ crashed \in BOOLEAN
    /\ good \in [Devices -> BOOLEAN]
    /\ pending \subseteq Messages \X Subscribers /\ Cardinality(pending) <= MaxPending
    /\ dma \subseteq Messages \X Devices
    /\ releasing \subseteq Messages \X Subscribers \X Devices
    /\ held \subseteq Messages \X Subscribers

\* PayloadHeld: "it can only be released after the corresponding buffer sent
\* callback": what writeSegmented is sending is on loan from iceoryx, and what a
\* transfer reads is pending and on loan, unless the channel has been deleted.
PayloadHeld ==
    /\ loop.pc \in {"begin", "send"} /\ Live(loop.sub) => Chunk \in held
    /\ \A t \in dma : \E p \in pending : p[1] = t[1] /\ (Live(p[2]) => p \in held)

\* ReleasedOnce: who is about to release a chunk finds it on loan, unless its
\* channel has been deleted: loop and buffer sent callback never both release
\* it, whatever happens between push and send, and at the limit of the table.
ReleasedOnce ==
    /\ loop.pc \in {"release", "discard"} /\ Live(loop.sub) => Chunk \in held
    /\ \A r \in releasing : Live(r[2]) => <<r[1], r[2]>> \in held

\* AttachedLive: the waitset never listens to a destroyed subscriber.
AttachedLive == \A sub \in attached : Live(sub)

\* ChunksReturned: no chunk stays on loan for ever: it is released after
\* sending, discarding, a failed transfer or the callback.
ChunksReturned ==
    \A m \in Messages :
        (\E h \in held : h[1] = m) ~> (crashed \/ \A h \in held : h[1] # m)

\* UpdateEnds: an update of channels ends, although the loop keeps taking
\* m_waitsetMutex and the update waits, with m_endpointsMutex, for pending
\* messages.
UpdateEnds == (updater.pc # "idle") ~> (updater.pc = "idle" \/ crashed)
=============================================================================
