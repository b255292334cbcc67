--------------------------- MODULE TransportToIox ---------------------------
(***************************************************************************)
(* The receiving half of the p3com gateway: class Transport2Iceoryx with   *)
(* the SegmentedMessageManager it feeds.  Transport threads hand over the  *)
(* segments of user messages (receive), or ask for a buffer, fill it by    *)
(* DMA and report it (loanBuffer, releaseBuffer); the main thread discards *)
(* messages whose deadline has passed (checkSegmentedMessages); discovery  *)
(* creates and deletes channels, one iceoryx publisher per service         *)
(* (updateChannels).                                                       *)
(*                                                                         *)
(* A step is a maximal piece of code between two points where another      *)
(* thread can interfere.  m_endpointsMutex is an explicit lock, held over  *)
(* several steps.  The critical sections of SegmentedMessageManager and of *)
(* TransportForwarder::push take no other lock and are part of a step.     *)
(*                                                                         *)
(* Abstracted: a chunk's bytes are the set of segments copied into it; a   *)
(* deadline is a nondeterministic expiry; user header and user payload are *)
(* two parts of one chunk; a publisher is the address of its object, which *)
(* the allocator may hand out again once the object is destroyed.          *)
(***************************************************************************)
EXTENDS Integers, Sequences, FiniteSets, SequencesExt

CONSTANTS
    Services,           \* service descriptions (their class hashes)
    Messages,           \* message hashes
    ServiceOf,          \* the service of a message
    SegmentsOf,         \* its submessageCount
    BufferSegments,     \* the segments sent by DMA (buffer callbacks)
    Repeated,           \* the segments that may arrive more than once
    Threads,            \* threads on which transports call back
    Publishers,         \* addresses of publisher objects
    Chunks,             \* payload pointers of the iceoryx memory pool
    Updates,            \* the service sets discovery may ask for
    ForwardedServices,  \* services of the forwarder's configuration
    MAX_SEGMENTED_MESSAGE_COUNT,
    MAX_FORWARDED_SERVICES,
    MAX_TOPICS,
    DeadlineCoversDma,  \* TRUE: no deadline passes during a DMA transfer
    Nobody, Updater,    \* owners of the lock that are not in Threads
    NoPublisher, NoChunk, NoSegment, NoMessage

ASSUME ConstantsAssumption ==
    /\ IsFiniteSet(Services) /\ IsFiniteSet(Messages) /\ IsFiniteSet(Chunks)
    /\ ServiceOf \in [Messages -> Services]
    /\ SegmentsOf \in [Messages -> Nat \ {0}]
    /\ BufferSegments \subseteq Messages \X Nat
    /\ Repeated \subseteq Messages \X Nat
    /\ Updates \subseteq SUBSET Services
    /\ \A services \in Updates : Cardinality(services) <= MAX_TOPICS
    /\ ForwardedServices \subseteq Services
    /\ MAX_SEGMENTED_MESSAGE_COUNT \in Nat
    /\ MAX_FORWARDED_SERVICES \in Nat
    /\ MAX_TOPICS \in Nat
    /\ DeadlineCoversDma \in BOOLEAN

ASSUME DistinctAssumption ==
    /\ Nobody \notin Threads /\ Updater \notin Threads /\ Nobody # Updater
    /\ NoPublisher \notin Publishers
    /\ NoChunk \notin Chunks
    /\ NoMessage \notin [hash : Messages, remainingSegments : Nat \ {0},
                         userPayload : Chunks, publisher : Publishers]

VARIABLES
    endpointsMutex,       \* owner of m_endpointsMutex
    endpoints,            \* m_endpoints: the publisher of each service
    gatewayPublisherUids, \* DiscoveryManager::m_gatewayPublisherUids
    wanted,               \* updateChannels: the argument being applied
    servicesToDelete,     \* updateChannelsInternal: its two lists, as far as
    servicesToSetup,      \* they have not been worked off
    segmentedMessages,    \* SegmentedMessageManager::m_segmentedMessages
    msgToRelease,         \* checkSegmentedMessages: the timed out message
    messagesToForward,    \* TransportForwarder::m_messagesToForward (keys)
    loanedBy,             \* iceoryx: the publisher that holds each chunk
    content,              \* the segments present in each chunk
    datagrams,            \* segments on their way to this gateway
    thread,               \* the locals of each transport thread's callback
    orphaned              \* history: a channel was deleted while its
                          \* publisher was named by msgToRelease

updateVars == <<wanted, servicesToDelete, servicesToSetup>>
channelVars == <<endpoints, gatewayPublisherUids, updateVars>>
memoryVars == <<loanedBy, content>>
vars == <<endpointsMutex, channelVars, segmentedMessages, msgToRelease,
          messagesToForward, memoryVars, datagrams, thread, orphaned>>

-----------------------------------------------------------------------------
\* A datagram header, as far as it matters: message and submessage number.
Segments == UNION {{m} \X (1 .. SegmentsOf[m]) : m \in Messages}

SegmentedMessage == [hash : Messages, remainingSegments : Nat \ {0},
                     userPayload : Chunks, publisher : Publishers]

ProgramPoints == {"idle", "loan", "push", "write", "writeReleased",
                  "publish", "dma", "report"}

\* The program points at which a transport thread holds m_endpointsMutex.
Critical == {"loan", "push", "write", "writeReleased", "publish"}

\* The locals of a callback: the segment (datagramHeader) it works on, the
\* reference to its publisher, its chunk pointer and its flag shouldPublish.
Locals == [pc : ProgramPoints,
           job : Segments \cup {NoSegment},
           publisher : Publishers \cup {NoPublisher},
           userPayload : Chunks \cup {NoChunk},
           shouldPublish : BOOLEAN]

\* No callback runs on the thread.
Idle == [pc |-> "idle", job |-> NoSegment, publisher |-> NoPublisher,
         userPayload |-> NoChunk, shouldPublish |-> FALSE]

Hash(t) == thread[t].job[1]
Active == {s \in Services : endpoints[s] # NoPublisher}
AlivePublishers == {endpoints[s] : s \in Active}
Channel(m) == endpoints[ServiceOf[m]]
Entries(m) == {e \in segmentedMessages : e.hash = m}

\* iceoryx: publisher.release(chunk) and publisher.publish(chunk) both end the
\* loan; a chunk that the publisher does not hold is refused.
EndLoan(p, c) ==
    IF loanedBy[c] = p THEN [loanedBy EXCEPT ![c] = NoPublisher] ELSE loanedBy

Init ==
    /\ endpointsMutex = Nobody
    /\ endpoints = [s \in Services |-> NoPublisher]
    /\ gatewayPublisherUids = {}
    /\ wanted = {} /\ servicesToDelete = {} /\ servicesToSetup = {}
    /\ segmentedMessages = {}
    /\ msgToRelease = NoMessage
    /\ messagesToForward = <<>>
    /\ loanedBy = [c \in Chunks |-> NoPublisher]
    /\ content = [c \in Chunks |-> {}]
    /\ datagrams = Segments
    /\ thread = [t \in Threads |-> Idle]
    /\ orphaned = FALSE

-----------------------------------------------------------------------------
(***************************************************************************)
(* receive: one segment of a message, in a datagram.                       *)
(***************************************************************************)

\* The network loses a datagram, or delivers it with a size that contradicts
\* its header, which receive refuses before it touches any state.
LoseDatagram ==
    /\ \E d \in datagrams :
          /\ d \notin BufferSegments
          /\ datagrams' = datagrams \ {d}
    /\ UNCHANGED <<endpointsMutex, channelVars, segmentedMessages, msgToRelease,
                   messagesToForward, memoryVars, thread, orphaned>>

\* The segment d is handed up.  UDP delivers a datagram twice, and a sender that
\* has two records of this gateway (one of its previous life) sends every
\* segment to both: a repeated segment may come again, any number of times.
Delivered(d) ==
    datagrams' = IF d \in Repeated THEN datagrams ELSE datagrams \ {d}

\* A callback for a service without a channel has no effect (doForChannel);
\* loanBuffer then answers nullptr and the transport drops the segment.
CallbackWithoutChannel(t, d) ==
    /\ thread[t].pc = "idle" /\ endpointsMutex = Nobody
    /\ Channel(d[1]) = NoPublisher
    /\ Delivered(d)
    /\ UNCHANGED <<endpointsMutex, channelVars, segmentedMessages, msgToRelease,
                   messagesToForward, memoryVars, thread, orphaned>>

\* The locked part of a callback begins: t has found the channel.
EnterChannel(t, d) ==
    /\ thread[t].pc = "idle" /\ endpointsMutex = Nobody
    /\ Channel(d[1]) # NoPublisher
    /\ Delivered(d)

\* Mutant of Decremented: the entry stays when no segment is missing any more.
DecrementedKeepsEntry(e) ==
    (segmentedMessages \ {e}) \cup {[e EXCEPT !.remainingSegments = @ - 1]}

\* findAndDecrement on an entry that exists: the entry of the last missing
\* segment leaves the table.
Decremented(e) ==
    (segmentedMessages \ {e})
        \cup (IF e.remainingSegments = 1 THEN {}
              ELSE {[e EXCEPT !.remainingSegments = @ - 1]})

ReceiveNextSegment(t, d) ==
    /\ d \notin BufferSegments
    /\ EnterChannel(t, d)
    /\ \E e \in Entries(d[1]) :
          /\ segmentedMessages' = Decremented(e)
          /\ thread' = [thread EXCEPT ![t] =
                [pc |-> "write", job |-> d, publisher |-> Channel(d[1]),
                 userPayload |-> e.userPayload,
                 shouldPublish |-> e.remainingSegments = 1]]
    /\ endpointsMutex' = t
    /\ UNCHANGED <<channelVars, msgToRelease, messagesToForward, memoryVars, orphaned>>

\* receive and loanBuffer: the message is not in the table, loan a chunk.
BeginNewMessage(t, d) ==
    /\ EnterChannel(t, d)
    /\ Entries(d[1]) = {}
    /\ thread' = [thread EXCEPT ![t] =
          [pc |-> "loan", job |-> d, publisher |-> Channel(d[1]),
           userPayload |-> NoChunk, shouldPublish |-> FALSE]]
    /\ endpointsMutex' = t
    /\ UNCHANGED <<channelVars, segmentedMessages, msgToRelease, messagesToForward,
                   memoryVars, orphaned>>

\* Mutant of IsSegmented: off by one.
IsSegmentedOffByOne(d) == d \in BufferSegments \/ SegmentsOf[d[1]] > 2

\* loanBuffer always pushes, receive only messages of several segments.
IsSegmented(d) == d \in BufferSegments \/ SegmentsOf[d[1]] > 1

\* The chunk of a message of one datagram is published without entering the
\* table; what an old loan left in the chunk is not part of the message.
Loan(t) ==
    /\ thread[t].pc = "loan"
    /\ \E c \in Chunks :
          /\ loanedBy[c] = NoPublisher
          /\ loanedBy' = [loanedBy EXCEPT ![c] = thread[t].publisher]
          /\ content' = [content EXCEPT ![c] = {}]
          /\ thread' = [thread EXCEPT ![t] = [@ EXCEPT
                !.pc = IF IsSegmented(thread[t].job) THEN "push" ELSE "write",
                !.userPayload = c,
                !.shouldPublish = ~IsSegmented(thread[t].job)]]
    /\ UNCHANGED <<endpointsMutex, channelVars, segmentedMessages, msgToRelease,
                   messagesToForward, datagrams, orphaned>>

\* Running out of chunks, or too many held in parallel: the segment is dropped.
LoanFails(t) ==
    /\ thread[t].pc = "loan"
    /\ thread' = [thread EXCEPT ![t] = Idle]
    /\ endpointsMutex' = Nobody
    /\ UNCHANGED <<channelVars, segmentedMessages, msgToRelease, messagesToForward,
                   memoryVars, datagrams, orphaned>>

\* What push stores: receive has this segment at hand, loanBuffer has not.
NewEntry(t) ==
    [hash |-> Hash(t),
     remainingSegments |-> IF thread[t].job \in BufferSegments
                           THEN SegmentsOf[Hash(t)]
                           ELSE SegmentsOf[Hash(t)] - 1,
     userPayload |-> thread[t].userPayload,
     publisher |-> thread[t].publisher]

\* Mutant of Push: a message that finds the table full is not released.
PushLeaks(t) ==
    /\ thread[t].pc = "push"
    /\ segmentedMessages' =
          IF Cardinality(segmentedMessages) < MAX_SEGMENTED_MESSAGE_COUNT
          THEN segmentedMessages \cup {NewEntry(t)} ELSE segmentedMessages
    /\ IF thread[t].job \in BufferSegments
       THEN /\ thread' = [thread EXCEPT ![t].pc = "dma"]
            /\ endpointsMutex' = Nobody
       ELSE /\ thread' = [thread EXCEPT ![t].pc = "write"]
            /\ UNCHANGED endpointsMutex
    /\ UNCHANGED <<channelVars, msgToRelease, messagesToForward, memoryVars, datagrams,
                   orphaned>>

\* push releases the chunk when the table is full, but has no way to tell its
\* caller, who goes on with the same pointer.
Push(t) ==
    /\ thread[t].pc = "push"
    /\ LET emplaced == Cardinality(segmentedMessages) < MAX_SEGMENTED_MESSAGE_COUNT
       IN  /\ IF emplaced
              THEN /\ segmentedMessages' = segmentedMessages \cup {NewEntry(t)}
                   /\ UNCHANGED loanedBy
              ELSE /\ loanedBy' = EndLoan(thread[t].publisher, thread[t].userPayload)
                   /\ UNCHANGED segmentedMessages
           /\ IF thread[t].job \in BufferSegments
              THEN /\ thread' = [thread EXCEPT ![t].pc = "dma"]
                   /\ endpointsMutex' = Nobody
              ELSE /\ thread' = [thread EXCEPT ![t].pc =
                                   IF emplaced THEN "write" ELSE "writeReleased"]
                   /\ UNCHANGED endpointsMutex
    /\ UNCHANGED <<channelVars, msgToRelease, messagesToForward, content, datagrams,
                   orphaned>>

\* takeNext copies the segment into the header or the payload part.
TakeNext(t) ==
    content' = [content EXCEPT ![thread[t].userPayload] = @ \cup {thread[t].job}]

Write(t) ==
    /\ thread[t].pc \in {"write", "writeReleased"}
    /\ TakeNext(t)
    /\ IF thread[t].shouldPublish
       THEN /\ thread' = [thread EXCEPT ![t].pc = "publish"]
            /\ UNCHANGED endpointsMutex
       ELSE /\ thread' = [thread EXCEPT ![t] = Idle]
            /\ endpointsMutex' = Nobody
    /\ UNCHANGED <<channelVars, segmentedMessages, msgToRelease, messagesToForward,
                   loanedBy, datagrams, orphaned>>

\* TransportForwarder::push: remember the payload of a forwarded service, as
\* long as the table has room.
RememberToForward(t) ==
    messagesToForward' =
        IF /\ ServiceOf[Hash(t)] \in ForwardedServices
           /\ Len(messagesToForward) < MAX_FORWARDED_SERVICES
        THEN Append(messagesToForward, thread[t].userPayload)
        ELSE messagesToForward

Publish(t) ==
    /\ thread[t].pc = "publish"
    /\ RememberToForward(t)
    /\ loanedBy' = EndLoan(thread[t].publisher, thread[t].userPayload)
    /\ thread' = [thread EXCEPT ![t] = Idle]
    /\ endpointsMutex' = Nobody
    /\ UNCHANGED <<channelVars, segmentedMessages, msgToRelease, content, datagrams,
                   orphaned>>

-----------------------------------------------------------------------------
(***************************************************************************)
(* loanBuffer and releaseBuffer: a segment that travels by DMA.  The lock  *)
(* is free while the transport fills the buffer.                           *)
(***************************************************************************)

\* loanBuffer: another segment of this message has already loaned the chunk.
LoanBufferAgain(t, d) ==
    /\ d \in BufferSegments
    /\ EnterChannel(t, d)
    /\ \E e \in Entries(d[1]) :
          thread' = [thread EXCEPT ![t] =
              [pc |-> "dma", job |-> d, publisher |-> Channel(d[1]),
               userPayload |-> e.userPayload, shouldPublish |-> FALSE]]
    /\ UNCHANGED <<endpointsMutex, channelVars, segmentedMessages, msgToRelease,
                   messagesToForward, memoryVars, orphaned>>

\* The transfer ends, well or with an error; no lock is held.  shouldPublish
\* is the negation of the argument shouldRelease that the transport will pass.
FinishDma(t) ==
    /\ thread[t].pc = "dma"
    /\ \/ /\ TakeNext(t)
          /\ thread' = [thread EXCEPT ![t] = [@ EXCEPT !.pc = "report", !.shouldPublish = TRUE]]
       \/ /\ thread' = [thread EXCEPT ![t] = [@ EXCEPT !.pc = "report", !.shouldPublish = FALSE]]
          /\ UNCHANGED content
    /\ UNCHANGED <<endpointsMutex, channelVars, segmentedMessages, msgToRelease,
                   messagesToForward, loanedBy, datagrams, orphaned>>

\* releaseBuffer when there is nothing to do: no channel, or no entry.
ReleaseBufferIgnored(t) ==
    /\ thread[t].pc = "report" /\ endpointsMutex = Nobody
    /\ Channel(Hash(t)) = NoPublisher \/ Entries(Hash(t)) = {}
    /\ thread' = [thread EXCEPT ![t] = Idle]
    /\ UNCHANGED <<endpointsMutex, channelVars, segmentedMessages, msgToRelease,
                   messagesToForward, memoryVars, datagrams, orphaned>>

\* Mutant of ReleaseBufferFailed: the entry stays in the table.
ReleaseBufferFailedKeepsEntry(t) ==
    /\ thread[t].pc = "report" /\ endpointsMutex = Nobody
    /\ ~thread[t].shouldPublish
    /\ Channel(Hash(t)) # NoPublisher
    /\ \E e \in Entries(Hash(t)) : loanedBy' = EndLoan(e.publisher, e.userPayload)
    /\ thread' = [thread EXCEPT ![t] = Idle]
    /\ UNCHANGED <<endpointsMutex, channelVars, segmentedMessages, msgToRelease,
                   messagesToForward, content, datagrams, orphaned>>

\* releaseBuffer(shouldRelease): the whole message is given up.
ReleaseBufferFailed(t) ==
    /\ thread[t].pc = "report" /\ endpointsMutex = Nobody
    /\ ~thread[t].shouldPublish
    /\ Channel(Hash(t)) # NoPublisher
    /\ \E e \in Entries(Hash(t)) :
          /\ segmentedMessages' = segmentedMessages \ {e}
          /\ loanedBy' = EndLoan(e.publisher, e.userPayload)
    /\ thread' = [thread EXCEPT ![t] = Idle]
    /\ UNCHANGED <<endpointsMutex, channelVars, msgToRelease, messagesToForward,
                   content, datagrams, orphaned>>

\* releaseBuffer(~shouldRelease): one segment less to wait for; the chunk to
\* publish is the one the table names.
ReleaseBufferFilled(t) ==
    /\ thread[t].pc = "report" /\ endpointsMutex = Nobody
    /\ thread[t].shouldPublish
    /\ Channel(Hash(t)) # NoPublisher
    /\ \E e \in Entries(Hash(t)) :
          /\ segmentedMessages' = Decremented(e)
          /\ IF e.remainingSegments = 1
             THEN /\ thread' = [thread EXCEPT ![t] = [@ EXCEPT
                                    !.pc = "publish",
                                    !.publisher = Channel(Hash(t)),
                                    !.userPayload = e.userPayload]]
                  /\ endpointsMutex' = t
             ELSE /\ thread' = [thread EXCEPT ![t] = Idle]
                  /\ UNCHANGED endpointsMutex
    /\ UNCHANGED <<channelVars, msgToRelease, messagesToForward, memoryVars, datagrams,
                   orphaned>>

-----------------------------------------------------------------------------
(***************************************************************************)
(* checkSegmentedMessages, called by the main thread in a loop: take one   *)
(* expired message out of the table, then lock m_endpointsMutex and give   *)
(* its chunk back to the publisher remembered in it.                       *)
(***************************************************************************)
MayExpire(e) ==
    DeadlineCoversDma =>
        \A t \in Threads : thread[t].pc \in {"dma", "report"} => Hash(t) # e.hash

\* Mutant of CheckErase: the expired message is dropped without a release.
CheckEraseForgets ==
    /\ msgToRelease = NoMessage
    /\ \E e \in segmentedMessages :
          /\ MayExpire(e)
          /\ segmentedMessages' = segmentedMessages \ {e}
    /\ UNCHANGED <<endpointsMutex, channelVars, msgToRelease, messagesToForward,
                   memoryVars, datagrams, thread, orphaned>>

CheckErase ==
    /\ msgToRelease = NoMessage
    /\ \E e \in segmentedMessages :
          /\ MayExpire(e)
          /\ msgToRelease' = e
          /\ segmentedMessages' = segmentedMessages \ {e}
    /\ UNCHANGED <<endpointsMutex, channelVars, messagesToForward, memoryVars,
                   datagrams, thread, orphaned>>

\* Mutant of CheckRelease: does not lock m_endpointsMutex.
CheckReleaseUnlocked ==
    /\ msgToRelease # NoMessage
    /\ loanedBy' = EndLoan(msgToRelease.publisher, msgToRelease.userPayload)
    /\ msgToRelease' = NoMessage
    /\ UNCHANGED <<endpointsMutex, channelVars, segmentedMessages, messagesToForward,
                   content, datagrams, thread, orphaned>>

\* If the publisher has been destroyed meanwhile this is a call through a
\* dangling pointer: it finds no such loan, or acts on the publisher that now
\* lives at the same address.
CheckRelease ==
    /\ msgToRelease # NoMessage
    /\ endpointsMutex = Nobody
    /\ loanedBy' = EndLoan(msgToRelease.publisher, msgToRelease.userPayload)
    /\ msgToRelease' = NoMessage
    /\ UNCHANGED <<endpointsMutex, channelVars, segmentedMessages, messagesToForward,
                   content, datagrams, thread, orphaned>>

-----------------------------------------------------------------------------
(***************************************************************************)
(* updateChannels: under m_endpointsMutex, list the channels that are no   *)
(* longer wanted and the services that have none, delete the former, then  *)
(* set up the latter.                                                      *)
(***************************************************************************)
BeginUpdate(services) ==
    /\ endpointsMutex = Nobody
    /\ endpointsMutex' = Updater
    /\ wanted' = services
    /\ servicesToDelete' = Active \ services
    /\ servicesToSetup' = services \ Active
    /\ UNCHANGED <<endpoints, gatewayPublisherUids, segmentedMessages, msgToRelease,
                   messagesToForward, memoryVars, datagrams, thread, orphaned>>

\* Mutant of DeleteChannel: no releaseAll.
DeleteChannelKeepsEntries(s) ==
    /\ endpointsMutex = Updater
    /\ s \in servicesToDelete
    /\ servicesToDelete' = servicesToDelete \ {s}
    /\ loanedBy' = [c \in Chunks |-> IF loanedBy[c] = endpoints[s] THEN NoPublisher
                                      ELSE loanedBy[c]]
    /\ gatewayPublisherUids' = gatewayPublisherUids \ {endpoints[s]}
    /\ endpoints' = [endpoints EXCEPT ![s] = NoPublisher]
    /\ UNCHANGED <<endpointsMutex, wanted, servicesToSetup, segmentedMessages, msgToRelease,
                   messagesToForward, content, datagrams, thread, orphaned>>

\* releaseAll, discardGatewayPublisher, then the publisher is destroyed and
\* iceoryx takes back whatever chunk it still holds.
DeleteChannel(s) ==
    LET p == endpoints[s]
    IN  /\ endpointsMutex = Updater
        /\ s \in servicesToDelete
        /\ servicesToDelete' = servicesToDelete \ {s}
        /\ segmentedMessages' = {e \in segmentedMessages : e.publisher # p}
        /\ loanedBy' = [c \in Chunks |-> IF loanedBy[c] = p THEN NoPublisher
                                          ELSE loanedBy[c]]
        /\ gatewayPublisherUids' = gatewayPublisherUids \ {p}
        /\ endpoints' = [endpoints EXCEPT ![s] = NoPublisher]
        /\ orphaned' = (orphaned \/ (msgToRelease # NoMessage /\ msgToRelease.publisher = p))
        /\ UNCHANGED <<endpointsMutex, wanted, servicesToSetup, msgToRelease,
                       messagesToForward, content, datagrams, thread>>

\* addChannel: a full table refuses the channel, which is only logged.
AddChannel(s) ==
    IF Cardinality(Active) < MAX_TOPICS
    THEN \E p \in Publishers \ AlivePublishers :
            /\ endpoints' = [endpoints EXCEPT ![s] = p]
            /\ gatewayPublisherUids' = gatewayPublisherUids \cup {p}
    ELSE UNCHANGED <<endpoints, gatewayPublisherUids>>

\* Mutant of SetupChannel: does not wait for the deletions.
SetupChannelFirst(s) ==
    /\ endpointsMutex = Updater
    /\ s \in servicesToSetup
    /\ servicesToSetup' = servicesToSetup \ {s}
    /\ AddChannel(s)
    /\ UNCHANGED <<endpointsMutex, wanted, servicesToDelete, segmentedMessages, msgToRelease,
                   messagesToForward, memoryVars, datagrams, thread, orphaned>>

SetupChannel(s) ==
    /\ endpointsMutex = Updater
    /\ servicesToDelete = {}
    /\ s \in servicesToSetup
    /\ servicesToSetup' = servicesToSetup \ {s}
    /\ AddChannel(s)
    /\ UNCHANGED <<endpointsMutex, wanted, servicesToDelete, segmentedMessages, msgToRelease,
                   messagesToForward, memoryVars, datagrams, thread, orphaned>>

\* Both lists have been worked off.
EndUpdate ==
    /\ endpointsMutex = Updater
    /\ servicesToDelete = {} /\ servicesToSetup = {}
    /\ endpointsMutex' = Nobody
    /\ wanted' = {}
    /\ UNCHANGED <<endpoints, gatewayPublisherUids, servicesToDelete, servicesToSetup,
                   segmentedMessages, msgToRelease, messagesToForward, memoryVars,
                   datagrams, thread, orphaned>>

\* TransportForwarder::waitsetLoop looks a payload up and erases it.  A payload
\* that is not in the table leaves the table as it is.
ForwarderTake ==
    /\ \E i \in 1 .. Len(messagesToForward) :
          /\ \A j \in 1 .. (i - 1) : messagesToForward[j] # messagesToForward[i]
          /\ messagesToForward' = RemoveAt(messagesToForward, i)
    /\ UNCHANGED <<endpointsMutex, channelVars, segmentedMessages, msgToRelease,
                   memoryVars, datagrams, thread, orphaned>>

-----------------------------------------------------------------------------
Callback(t) ==
    \E d \in datagrams :
        \/ CallbackWithoutChannel(t, d)
        \/ ReceiveNextSegment(t, d)
        \/ BeginNewMessage(t, d)
        \/ LoanBufferAgain(t, d)

\* The rest of a callback that has begun.
Continue(t) ==
    \/ Loan(t) \/ LoanFails(t) \/ Push(t) \/ Write(t) \/ Publish(t)
    \/ FinishDma(t)

ReleaseBuffer(t) ==
    \/ ReleaseBufferIgnored(t) \/ ReleaseBufferFailed(t) \/ ReleaseBufferFilled(t)

UpdateChannels ==
    \/ \E services \in Updates : BeginUpdate(services)
    \/ \E s \in Services : DeleteChannel(s) \/ SetupChannel(s)
    \/ EndUpdate

Next ==
    \/ \E t \in Threads : Callback(t) \/ Continue(t) \/ ReleaseBuffer(t)
    \/ CheckErase \/ CheckRelease
    \/ UpdateChannels
    \/ LoseDatagram
    \/ ForwarderTake

Spec == Init /\ [][Next]_vars

(***************************************************************************)
(* Fairness: a callback that has begun runs on, an update that has begun   *)
(* runs on, the transport reports the end of a transfer, and the main loop *)
(* keeps checking, so that a deadline that has passed is noticed.  The     *)
(* mutex is held for a bounded time only, so a thread that waits for it    *)
(* gets it (strong fairness).  Nothing is assumed of the network, of the   *)
(* forwarder or of how often discovery asks for an update.                 *)
(***************************************************************************)
Fairness ==
    /\ \A t \in Threads : WF_vars(Continue(t)) /\ SF_vars(ReleaseBuffer(t))
    /\ WF_vars(CheckErase)
    /\ SF_vars(CheckRelease)
    /\ WF_vars((\E s \in Services : DeleteChannel(s) \/ SetupChannel(s)) \/ EndUpdate)

FairSpec == Spec /\ Fairness

-----------------------------------------------------------------------------
ThreadsOK ==
    /\ thread \in [Threads -> Locals]
    /\ \A t \in Threads : thread[t].pc # "idle" =>
          /\ thread[t].job \in Segments
          /\ thread[t].publisher \in Publishers
          /\ thread[t].pc # "loan" => thread[t].userPayload \in Chunks
          /\ thread[t].pc = "push" => NewEntry(t) \in SegmentedMessage

\* Types; in particular a message in the table misses at least one segment, so
\* that the unsigned remainingSegments never wraps.
TypeOK ==
    /\ endpointsMutex \in Threads \cup {Nobody, Updater}
    /\ endpoints \in [Services -> Publishers \cup {NoPublisher}]
    /\ gatewayPublisherUids \subseteq Publishers
    /\ wanted \in SUBSET Services
    /\ servicesToDelete \in SUBSET Services /\ servicesToSetup \in SUBSET Services
    /\ segmentedMessages \subseteq SegmentedMessage
    /\ msgToRelease \in SegmentedMessage \cup {NoMessage}
    /\ messagesToForward \in Seq(Chunks)
    /\ loanedBy \in [Chunks -> Publishers \cup {NoPublisher}]
    /\ content \in [Chunks -> SUBSET Segments]
    /\ datagrams \subseteq Segments
    /\ ThreadsOK
    /\ orphaned \in BOOLEAN

\* A transport thread holds a chunk of its own: just loaned and not yet in the
\* table, or taken out of the table to be published.
Holds(t) ==
    \/ thread[t].pc = "push"
    \/ thread[t].pc \in {"write", "publish"} /\ thread[t].shouldPublish

\* The chunk of every table entry, of the timed out message and of a thread
\* that holds one is on loan to the publisher that is named with it, and that
\* publisher is the one its service has now.
HoldersHaveLoans ==
    /\ \A e \in segmentedMessages : loanedBy[e.userPayload] = e.publisher
    /\ msgToRelease # NoMessage =>
          /\ loanedBy[msgToRelease.userPayload] = msgToRelease.publisher
          /\ msgToRelease.publisher = Channel(msgToRelease.hash)
    /\ \A t \in Threads : Holds(t) =>
          loanedBy[thread[t].userPayload] = thread[t].publisher

\* No chunk has two holders.
HoldersAreDistinct ==
    /\ \A e, f \in segmentedMessages : e.userPayload = f.userPayload => e = f
    /\ \A e \in segmentedMessages : msgToRelease # NoMessage =>
          e.userPayload # msgToRelease.userPayload
    /\ \A t \in Threads : Holds(t) =>
          /\ \A e \in segmentedMessages : e.userPayload # thread[t].userPayload
          /\ msgToRelease # NoMessage =>
                msgToRelease.userPayload # thread[t].userPayload
          /\ \A u \in Threads : Holds(u) /\ thread[u].userPayload = thread[t].userPayload
                => u = t

\* Every chunk on loan has a holder.
LoansHaveHolders ==
    \A c \in Chunks : loanedBy[c] # NoPublisher =>
        \/ \E e \in segmentedMessages : e.userPayload = c
        \/ msgToRelease # NoMessage /\ msgToRelease.userPayload = c
        \/ \E t \in Threads : Holds(t) /\ thread[t].userPayload = c

\* ChunkOwnership: whatever order segments, timeouts, DMA reports and channel
\* updates come in, every chunk that Transport2Iceoryx has loaned is owned by
\* exactly one of the segment table, the timed out message being released and
\* a callback about to push or publish it: no chunk leaks, none is released or
\* published twice.  (Until a channel is deleted in the window between the two
\* critical sections of checkSegmentedMessages.)
ChunkOwnership ==
    ~orphaned => HoldersHaveLoans /\ HoldersAreDistinct /\ LoansHaveHolders

\* TableNamesLiveChannel: an entry of the segment table always refers to the
\* publisher that its service has now, never to a destroyed one, and a message
\* has at most one entry (find of vector_map would only see the first).
TableNamesLiveChannel ==
    /\ \A e \in segmentedMessages :
          Channel(e.hash) # NoPublisher /\ e.publisher = Channel(e.hash)
    /\ \A e, f \in segmentedMessages : e.hash = f.hash => e = f

\* WriteTargetLoaned: receive copies a segment only into a chunk that is still
\* on loan, even when the message times out between findAndDecrement (or push)
\* and the copy: the release waits for m_endpointsMutex.  The one exception is
\* a segment whose push was refused ("writeReleased").
WriteTargetLoaned ==
    ~orphaned => \A t \in Threads : thread[t].pc = "write" =>
        loanedBy[thread[t].userPayload] = thread[t].publisher

\* OwnershipInv: the inductive strengthening of ChunkOwnership.  The mutex is
\* what makes the table and the loans change in step: a callback inside its
\* channel owns the mutex, so the channel it has found stays, and a message
\* it has not found in the table does not appear there before its own push.
MutualExclusion ==
    \A t \in Threads : endpointsMutex = t <=> thread[t].pc \in Critical

ChannelsDistinct ==
    \A s, r \in Active : endpoints[s] = endpoints[r] => s = r

CallbackInChannel ==
    \A t \in Threads : thread[t].pc \in Critical =>
        /\ thread[t].publisher = Channel(Hash(t))
        /\ thread[t].pc \in {"loan", "push"} => Entries(Hash(t)) = {}
        /\ thread[t].pc \in {"push", "writeReleased"} => ~thread[t].shouldPublish
        /\ thread[t].pc = "publish" => thread[t].shouldPublish

OwnershipInv ==
    /\ MutualExclusion
    /\ ChannelsDistinct
    /\ CallbackInChannel
    /\ TableNamesLiveChannel
    /\ ChunkOwnership
    /\ WriteTargetLoaned

\* No segment of message m comes twice.
Once(m) == \A d \in Repeated : d[1] # m

\* PublishedComplete: a chunk is published only when it holds all segments of
\* its message and nothing else, although receive merely counts segments:
\* lost, reordered and late segments, entries created anew after a timeout,
\* and repeated segments of other messages never add up to a complete count.
\* (The count of a message of which a segment comes twice does get to zero
\* early: findAndDecrement has no record of which segments have come.)
PublishedComplete ==
    ~orphaned => \A t \in Threads : thread[t].pc = "publish" /\ Once(Hash(t)) =>
        content[thread[t].userPayload] = {d \in Segments : d[1] = Hash(t)}

\* UpdateIsExact: when updateChannels returns, the channels are exactly the
\* services it was given, although addChannel silently refuses a channel when
\* the table is full: because unwanted channels go first, there is room for
\* the new ones even with MAX_TOPICS channels before and after.
UpdateIsExact ==
    [][endpointsMutex = Updater /\ endpointsMutex' = Nobody => Active' = wanted]_vars

\* ChunksReturned: no chunk stays on loan forever.  What is not completed is
\* given back by the timeout or by the deletion of its channel.
ChunksReturned ==
    \A c \in Chunks : loanedBy[c] # NoPublisher ~> loanedBy[c] = NoPublisher

\* LoanedBufferValid: "Should return a valid pointer to the loaned buffer or
\* nullptr" (bufferNeededCallback_t): what loanBuffer returns is on loan.  Not
\* so when the table is full: push gives the chunk back, and loanBuffer returns
\* its address all the same.
LoanedBufferValid ==
    [][\A t \in Threads : thread[t].pc # "dma" /\ thread'[t].pc = "dma" =>
          loanedBy'[thread'[t].userPayload] = thread'[t].publisher]_vars

\* DmaTargetLoaned: a buffer obtained from loanBuffer stays on loan until the
\* transport reports that "a buffer that was previously loaned [...] has now
\* been filled and can be either published or released"
\* (bufferReleasedCallback_t).  Not so when the message times out meanwhile:
\* checkSegmentedMessages does not know of the transfer, and TLC finds it
\* violated in the instance MCLateDma.
DmaTargetLoaned ==
    \A t \in Threads : thread[t].pc = "dma" =>
        loanedBy[thread[t].userPayload] = thread[t].publisher
=============================================================================
