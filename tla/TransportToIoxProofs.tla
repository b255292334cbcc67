------------------------ MODULE TransportToIoxProofs ------------------------
(***************************************************************************)
(* Proofs about TransportToIox, for every value of its constants.          *)
(***************************************************************************)
EXTENDS TransportToIox, TLAPS, FiniteSetTheorems

\* Removing one element of a sequence leaves a sequence over the same set.
LEMMA RemoveAtType ==
    ASSUME NEW S, NEW q \in Seq(S), NEW i \in 1 .. Len(q)
    PROVE  RemoveAt(q, i) \in Seq(S)
  BY DEF RemoveAt

\* The entries left by findAndDecrement are well-formed.
LEMMA DecrementedType ==
    ASSUME TypeOK, NEW e \in segmentedMessages
    PROVE  Decremented(e) \subseteq SegmentedMessage
  <1>1. e \in SegmentedMessage
    BY DEF TypeOK
  <1>2. ASSUME e.remainingSegments # 1
        PROVE  [e EXCEPT !.remainingSegments = @ - 1] \in SegmentedMessage
    BY <1>1, <1>2 DEF SegmentedMessage
  <1> QED
    BY <1>1, <1>2 DEF Decremented, TypeOK

\* What a datagram header names.
LEMMA SegmentFields ==
    ASSUME NEW d \in Segments
    PROVE  d[1] \in Messages /\ ServiceOf[d[1]] \in Services
  BY ConstantsAssumption DEF Segments

\* Ending a loan keeps the type of the loans.
LEMMA EndLoanType ==
    ASSUME TypeOK, NEW p, NEW c
    PROVE  EndLoan(p, c) \in [Chunks -> Publishers \cup {NoPublisher}]
  BY DEF EndLoan, TypeOK

\* The initial state has the right types.
LEMMA TypeInit == Init => TypeOK
  <1> SUFFICES ASSUME Init PROVE TypeOK
    OBVIOUS
  <1>1. Idle \in Locals
    BY DEF Idle, Locals, ProgramPoints
  <1>2. ThreadsOK
    BY <1>1 DEF Init, ThreadsOK, Idle
  <1>3. messagesToForward \in Seq(Chunks)
    BY DEF Init
  <1>4. orphaned \in BOOLEAN
    BY DEF Init
  <1>5. content \in [Chunks -> SUBSET Segments]
    BY DEF Init
  <1>6. wanted \in SUBSET Services /\ servicesToDelete \in SUBSET Services
        /\ servicesToSetup \in SUBSET Services
    BY DEF Init
  <1> QED
    BY <1>2, <1>3, <1>4, <1>5, <1>6 DEF Init, TypeOK

\* Steps that leave the callbacks alone keep their types.
LEMMA ThreadsUnchanged == ThreadsOK /\ UNCHANGED thread => ThreadsOK'
  BY DEF ThreadsOK, NewEntry, Hash

\* A step of one callback keeps the types of all.
LEMMA ThreadStep ==
    ASSUME ThreadsOK, NEW t \in Threads, NEW r \in Locals,
           thread' = [thread EXCEPT ![t] = r],
           r.pc # "idle" => r.job \in Segments /\ r.publisher \in Publishers,
           r.pc \notin {"idle", "loan"} => r.userPayload \in Chunks,
           r.pc = "push" => NewEntry(t)' \in SegmentedMessage
    PROVE  ThreadsOK'
  BY DEF ThreadsOK, NewEntry, Hash

\* Every step keeps the types.
LEMMA TypeNext == TypeOK /\ [Next]_vars => TypeOK'
  <1> SUFFICES ASSUME TypeOK, [Next]_vars PROVE TypeOK'
    OBVIOUS
  <1> USE DEF channelVars, updateVars, memoryVars
  <1>a. ThreadsOK
    BY DEF TypeOK
  <1>1. CASE LoseDatagram
    BY <1>1, ThreadsUnchanged DEF LoseDatagram, TypeOK
  <1>2. ASSUME NEW t \in Threads, NEW d \in datagrams, CallbackWithoutChannel(t, d)
        PROVE  TypeOK'
    BY <1>2, ThreadsUnchanged DEF CallbackWithoutChannel, Delivered, TypeOK
  <1>3. ASSUME NEW t \in Threads, NEW d \in datagrams, ReceiveNextSegment(t, d)
        PROVE  TypeOK'
    <2> d \in Segments /\ Channel(d[1]) \in Publishers
      BY <1>3, SegmentFields DEF ReceiveNextSegment, EnterChannel, Delivered, Channel, TypeOK
    <2> PICK e \in Entries(d[1]) :
              /\ segmentedMessages' = Decremented(e)
              /\ thread' = [thread EXCEPT ![t] =
                    [pc |-> "write", job |-> d, publisher |-> Channel(d[1]),
                     userPayload |-> e.userPayload,
                     shouldPublish |-> e.remainingSegments = 1]]
      BY <1>3 DEF ReceiveNextSegment
    <2> DEFINE flag == e.remainingSegments = 1
               r == [pc |-> "write", job |-> d, publisher |-> Channel(d[1]),
                     userPayload |-> e.userPayload, shouldPublish |-> flag]
    <2> e \in segmentedMessages /\ e.userPayload \in Chunks
      BY DEF Entries, TypeOK, SegmentedMessage
    <2>1. flag \in BOOLEAN /\ thread' = [thread EXCEPT ![t] = r]
      OBVIOUS
    <2> HIDE DEF flag
    <2>2. r \in Locals /\ r.pc = "write" /\ r.job \in Segments
          /\ r.userPayload \in Chunks /\ r.publisher \in Publishers
      BY <2>1 DEF Locals, ProgramPoints
    <2>3. ThreadsOK'
      BY <1>a, <2>1, <2>2, ThreadStep
    <2> QED
      BY <1>3, <2>3, DecrementedType DEF ReceiveNextSegment, EnterChannel, Delivered, TypeOK
  <1>4. ASSUME NEW t \in Threads, NEW d \in datagrams, BeginNewMessage(t, d)
        PROVE  TypeOK'
    <2> d \in Segments /\ Channel(d[1]) \in Publishers
      BY <1>4, SegmentFields DEF BeginNewMessage, EnterChannel, Delivered, Channel, TypeOK
    <2>1. ThreadsOK'
      BY <1>4, <1>a, ThreadStep DEF BeginNewMessage, Locals, ProgramPoints
    <2> QED
      BY <1>4, <2>1 DEF BeginNewMessage, EnterChannel, Delivered, TypeOK
  <1>5. ASSUME NEW t \in Threads, NEW d \in datagrams, LoanBufferAgain(t, d)
        PROVE  TypeOK'
    <2> d \in Segments /\ Channel(d[1]) \in Publishers
      BY <1>5, SegmentFields DEF LoanBufferAgain, EnterChannel, Delivered, Channel, TypeOK
    <2>1. ThreadsOK'
      BY <1>5, <1>a, ThreadStep
         DEF LoanBufferAgain, Entries, TypeOK, SegmentedMessage, Locals, ProgramPoints
    <2> QED
      BY <1>5, <2>1 DEF LoanBufferAgain, EnterChannel, Delivered, TypeOK
  <1>6. ASSUME NEW t \in Threads, Loan(t) PROVE TypeOK'
    <2> DEFINE isSegmented == IsSegmented(thread[t].job)
    <2> PICK c \in Chunks :
            /\ loanedBy' = [loanedBy EXCEPT ![c] = thread[t].publisher]
            /\ content' = [content EXCEPT ![c] = {}]
            /\ thread' = [thread EXCEPT ![t] = [@ EXCEPT
                  !.pc = IF isSegmented THEN "push" ELSE "write",
                  !.userPayload = c,
                  !.shouldPublish = ~isSegmented]]
      BY <1>6 DEF Loan
    <2> DEFINE r == [thread[t] EXCEPT !.pc = IF isSegmented THEN "push" ELSE "write",
                                      !.userPayload = c,
                                      !.shouldPublish = ~isSegmented]
    <2>1. thread[t] \in Locals /\ thread[t].job \in Segments
      BY <1>6 DEF Loan, TypeOK, ThreadsOK
    <2>2. Hash(t) \in Messages /\ SegmentsOf[Hash(t)] \in Nat \ {0}
      BY <2>1, SegmentFields, ConstantsAssumption DEF Hash
    <2>3. thread' = [thread EXCEPT ![t] = r]
      OBVIOUS
    <2>4. (~isSegmented) \in BOOLEAN
      BY DEF IsSegmented
    <2>5. isSegmented => thread[t].job \in BufferSegments \/ SegmentsOf[Hash(t)] > 1
      BY DEF IsSegmented, Hash
    <2> HIDE DEF isSegmented
    <2>6. /\ r \in Locals /\ r.job = thread[t].job /\ r.userPayload = c
          /\ r.publisher = thread[t].publisher
          /\ r.pc = IF isSegmented THEN "push" ELSE "write"
      BY <2>1, <2>4 DEF Locals, ProgramPoints
    <2>7. thread'[t] = r /\ thread[t].publisher \in Publishers
      BY <2>3, <1>6 DEF Loan, TypeOK, ThreadsOK
    <2>8. ASSUME r.pc = "push" PROVE NewEntry(t)' \in SegmentedMessage
      <3>1. thread[t].job \in BufferSegments \/ SegmentsOf[Hash(t)] > 1
        BY <2>5, <2>6, <2>8
      <3>2. thread'[t].job = thread[t].job /\ Hash(t)' = Hash(t)
        BY <2>6, <2>7 DEF Hash
      <3>3. thread'[t].userPayload \in Chunks /\ thread'[t].publisher \in Publishers
        BY <2>6, <2>7
      <3> QED
        BY <2>2, <3>1, <3>2, <3>3 DEF NewEntry, SegmentedMessage
    <2> HIDE DEF r
    <2>9. ThreadsOK'
      BY <1>a, <2>1, <2>3, <2>6, <2>7, <2>8, ThreadStep
    <2> QED
      BY <1>6, <2>7, <2>9 DEF Loan, TypeOK
  <1>7. ASSUME NEW t \in Threads, LoanFails(t) PROVE TypeOK'
    <2>1. ThreadsOK'
      BY <1>7, <1>a, ThreadStep DEF LoanFails, Idle, Locals, ProgramPoints
    <2> QED
      BY <1>7, <2>1 DEF LoanFails, TypeOK
  <1>8. ASSUME NEW t \in Threads, Push(t) PROVE TypeOK'
    <2>1. thread[t] \in Locals /\ thread[t].pc = "push" /\ thread[t].job \in Segments
          /\ thread[t].publisher \in Publishers /\ thread[t].userPayload \in Chunks
          /\ NewEntry(t) \in SegmentedMessage
      BY <1>8 DEF Push, TypeOK, ThreadsOK
    <2>2. PICK x \in {"dma", "write", "writeReleased"} :
               thread' = [thread EXCEPT ![t].pc = x]
      BY <1>8 DEF Push
    <2> DEFINE r == [thread[t] EXCEPT !.pc = x]
    <2>3. r \in Locals /\ r.pc = x /\ r.job = thread[t].job
          /\ r.publisher = thread[t].publisher /\ r.userPayload = thread[t].userPayload
      BY <2>1 DEF Locals, ProgramPoints
    <2>4. thread' = [thread EXCEPT ![t] = r]
      BY <2>2
    <2> HIDE DEF r
    <2>5. ThreadsOK'
      BY <1>a, <2>1, <2>3, <2>4, ThreadStep
    <2>6. endpointsMutex' \in Threads \cup {Nobody, Updater}
      BY <1>8 DEF Push, TypeOK
    <2>7. segmentedMessages' \subseteq SegmentedMessage
      BY <1>8, <2>1 DEF Push, TypeOK
    <2>8. loanedBy' \in [Chunks -> Publishers \cup {NoPublisher}]
      BY <1>8, EndLoanType DEF Push, TypeOK
    <2> QED
      BY <1>8, <2>5, <2>6, <2>7, <2>8 DEF Push, TypeOK
  <1>9. ASSUME NEW t \in Threads, Write(t) PROVE TypeOK'
    <2>1. thread[t] \in Locals /\ thread[t].job \in Segments
          /\ thread[t].publisher \in Publishers /\ thread[t].userPayload \in Chunks
      BY <1>9 DEF Write, TypeOK, ThreadsOK
    <2> DEFINE r == [thread[t] EXCEPT !.pc = "publish"]
    <2>2. thread' = [thread EXCEPT ![t] = r] \/ thread' = [thread EXCEPT ![t] = Idle]
      BY <1>9 DEF Write
    <2>3. r \in Locals /\ r.pc = "publish" /\ r.job = thread[t].job
          /\ r.publisher = thread[t].publisher /\ r.userPayload = thread[t].userPayload
      BY <2>1 DEF Locals, ProgramPoints
    <2>4. Idle \in Locals /\ Idle.pc = "idle"
      BY DEF Idle, Locals, ProgramPoints
    <2> HIDE DEF r
    <2>5. ThreadsOK'
      BY <1>a, <2>1, <2>2, <2>3, <2>4, ThreadStep
    <2>6. content' \in [Chunks -> SUBSET Segments]
      BY <1>9, <2>1 DEF Write, TakeNext, TypeOK
    <2> QED
      BY <1>9, <2>5, <2>6 DEF Write, TypeOK
  <1>10. ASSUME NEW t \in Threads, Publish(t) PROVE TypeOK'
    <2>1. thread[t].userPayload \in Chunks
      BY <1>10 DEF Publish, TypeOK, ThreadsOK
    <2>2. ThreadsOK'
      BY <1>10, <1>a, ThreadStep DEF Publish, Idle, Locals, ProgramPoints
    <2>3. messagesToForward' \in Seq(Chunks)
      BY <1>10, <2>1 DEF Publish, RememberToForward, TypeOK
    <2>4. loanedBy' \in [Chunks -> Publishers \cup {NoPublisher}]
      BY <1>10, EndLoanType DEF Publish
    <2> QED
      BY <1>10, <2>2, <2>3, <2>4 DEF Publish, TypeOK
  <1>11. ASSUME NEW t \in Threads, FinishDma(t) PROVE TypeOK'
    <2>1. thread[t] \in Locals /\ thread[t].job \in Segments
          /\ thread[t].publisher \in Publishers /\ thread[t].userPayload \in Chunks
      BY <1>11 DEF FinishDma, TypeOK, ThreadsOK
    <2>2. PICK flag \in BOOLEAN :
               thread' = [thread EXCEPT ![t] =
                             [@ EXCEPT !.pc = "report", !.shouldPublish = flag]]
      BY <1>11 DEF FinishDma
    <2> DEFINE r == [thread[t] EXCEPT !.pc = "report", !.shouldPublish = flag]
    <2>3. r \in Locals /\ r.pc = "report" /\ r.job = thread[t].job
          /\ r.publisher = thread[t].publisher /\ r.userPayload = thread[t].userPayload
      BY <2>1 DEF Locals, ProgramPoints
    <2>4. thread' = [thread EXCEPT ![t] = r]
      BY <2>2
    <2> HIDE DEF r
    <2>5. ThreadsOK'
      BY <1>a, <2>1, <2>3, <2>4, ThreadStep
    <2>6. content' \in [Chunks -> SUBSET Segments]
      BY <1>11, <2>1 DEF FinishDma, TakeNext, TypeOK
    <2> QED
      BY <1>11, <2>5, <2>6 DEF FinishDma, TypeOK
  <1>12. ASSUME NEW t \in Threads, ReleaseBufferIgnored(t) PROVE TypeOK'
    <2>1. ThreadsOK'
      BY <1>12, <1>a, ThreadStep DEF ReleaseBufferIgnored, Idle, Locals, ProgramPoints
    <2> QED
      BY <1>12, <2>1 DEF ReleaseBufferIgnored, TypeOK
  <1>13. ASSUME NEW t \in Threads, ReleaseBufferFailed(t) PROVE TypeOK'
    <2>1. ThreadsOK'
      BY <1>13, <1>a, ThreadStep DEF ReleaseBufferFailed, Idle, Locals, ProgramPoints
    <2>2. loanedBy' \in [Chunks -> Publishers \cup {NoPublisher}]
      BY <1>13, EndLoanType DEF ReleaseBufferFailed
    <2> QED
      BY <1>13, <2>1, <2>2 DEF ReleaseBufferFailed, TypeOK
  <1>14. ASSUME NEW t \in Threads, ReleaseBufferFilled(t) PROVE TypeOK'
    <2>1. thread[t] \in Locals /\ thread[t].job \in Segments
      BY <1>14 DEF ReleaseBufferFilled, TypeOK, ThreadsOK
    <2>2. Channel(Hash(t)) \in Publishers
      BY <1>14, <2>1, SegmentFields DEF ReleaseBufferFilled, Channel, Hash, TypeOK
    <2>3. PICK e \in Entries(Hash(t)) :
              /\ segmentedMessages' = Decremented(e)
              /\ \/ /\ thread' = [thread EXCEPT ![t] = [@ EXCEPT
                                     !.pc = "publish",
                                     !.publisher = Channel(Hash(t)),
                                     !.userPayload = e.userPayload]]
                    /\ endpointsMutex' = t
                 \/ /\ thread' = [thread EXCEPT ![t] = Idle]
                    /\ UNCHANGED endpointsMutex
      BY <1>14 DEF ReleaseBufferFilled
    <2>4. e \in segmentedMessages /\ e.userPayload \in Chunks
      BY DEF Entries, TypeOK, SegmentedMessage
    <2> DEFINE r == [thread[t] EXCEPT !.pc = "publish",
                                      !.publisher = Channel(Hash(t)),
                                      !.userPayload = e.userPayload]
    <2>5. r \in Locals /\ r.pc = "publish" /\ r.job = thread[t].job
          /\ r.publisher = Channel(Hash(t)) /\ r.userPayload = e.userPayload
      BY <2>1, <2>2, <2>4 DEF Locals, ProgramPoints
    <2>6. thread' = [thread EXCEPT ![t] = r] \/ thread' = [thread EXCEPT ![t] = Idle]
      BY <2>3
    <2>7. Idle \in Locals /\ Idle.pc = "idle"
      BY DEF Idle, Locals, ProgramPoints
    <2> HIDE DEF r
    <2>8. ThreadsOK'
      BY <1>a, <2>1, <2>2, <2>4, <2>5, <2>6, <2>7, ThreadStep
    <2>9. segmentedMessages' \subseteq SegmentedMessage
      BY <2>3, <2>4, DecrementedType
    <2> QED
      BY <1>14, <2>3, <2>8, <2>9 DEF ReleaseBufferFilled, TypeOK
  <1>15. CASE CheckErase
    BY <1>15, ThreadsUnchanged DEF CheckErase, TypeOK
  <1>16. CASE CheckRelease
    BY <1>16, ThreadsUnchanged, EndLoanType DEF CheckRelease, TypeOK
  <1>17. ASSUME NEW services \in Updates, BeginUpdate(services) PROVE TypeOK'
    BY <1>17, ThreadsUnchanged, ConstantsAssumption DEF BeginUpdate, Active, TypeOK
  <1>18. ASSUME NEW s \in Services, DeleteChannel(s) PROVE TypeOK'
    <2>1. ThreadsOK' /\ orphaned' \in BOOLEAN
      BY <1>18, <1>a, ThreadsUnchanged DEF DeleteChannel, TypeOK
    <2> QED
      BY <1>18, <2>1 DEF DeleteChannel, TypeOK
  <1>19. ASSUME NEW s \in Services, SetupChannel(s) PROVE TypeOK'
    BY <1>19, ThreadsUnchanged DEF SetupChannel, AddChannel, TypeOK
  <1>20. CASE EndUpdate
    BY <1>20, ThreadsUnchanged DEF EndUpdate, TypeOK
  <1>21. CASE ForwarderTake
    BY <1>21, ThreadsUnchanged, RemoveAtType DEF ForwarderTake, TypeOK
  <1>22. CASE UNCHANGED vars
    BY <1>22, ThreadsUnchanged DEF vars, TypeOK
  <1> QED
    BY <1>1, <1>2, <1>3, <1>4, <1>5, <1>6, <1>7, <1>8, <1>9, <1>10, <1>11, <1>12, <1>13,
       <1>14, <1>15, <1>16, <1>17, <1>18, <1>19, <1>20, <1>21, <1>22
       DEF Next, Callback, Continue, ReleaseBuffer, UpdateChannels

\* Every variable keeps its type; in particular the unsigned count of missing
\* segments of a message in the table never reaches zero, let alone wraps.
THEOREM TypeCorrectness == Spec => []TypeOK
  <1> QED
    BY TypeInit, TypeNext, PTL DEF Spec

-----------------------------------------------------------------------------
(***************************************************************************)
(* An update under way: its lists are what is left to be done.             *)
(***************************************************************************)
UpdateInv ==
    endpointsMutex = Updater =>
        /\ wanted \in Updates
        /\ servicesToDelete = Active \ wanted
        /\ servicesToSetup = wanted \ Active

LEMMA UpdateInit == Init => UpdateInv
  BY DistinctAssumption DEF Init, UpdateInv

\* When only wanted channels are left, one that is missing has room: the
\* wanted channels are at most MAX_TOPICS, and it is one of them.
LEMMA RoomForChannel ==
    ASSUME UpdateInv, endpointsMutex = Updater, servicesToDelete = {},
           NEW s \in servicesToSetup
    PROVE  Cardinality(Active) < MAX_TOPICS
  <1>1. Active \subseteq wanted /\ s \in wanted /\ s \notin Active
    BY DEF UpdateInv
  <1>2. /\ wanted \in SUBSET Services /\ Cardinality(wanted) <= MAX_TOPICS
        /\ IsFiniteSet(Services) /\ MAX_TOPICS \in Nat
    BY ConstantsAssumption DEF UpdateInv
  <1>3. IsFiniteSet(wanted)
    BY <1>2, FS_Subset
  <1>4. /\ IsFiniteSet(Active) /\ Cardinality(Active) <= Cardinality(wanted)
        /\ Cardinality(Active) = Cardinality(wanted) => Active = wanted
    BY <1>1, <1>3, FS_Subset
  <1>5. Cardinality(Active) \in Nat /\ Cardinality(wanted) \in Nat
    BY <1>3, <1>4, FS_CardinalityType
  <1> QED
    BY <1>1, <1>2, <1>4, <1>5

LEMMA UpdateNext == TypeOK /\ UpdateInv /\ [Next]_vars => UpdateInv'
  <1> SUFFICES ASSUME TypeOK, UpdateInv, [Next]_vars PROVE UpdateInv'
    OBVIOUS
  <1> USE DistinctAssumption DEF channelVars, updateVars
  <1>1. ASSUME NEW t \in Threads, Callback(t) \/ Continue(t) \/ ReleaseBuffer(t)
        PROVE  UNCHANGED channelVars /\ endpointsMutex' \in {t, Nobody, endpointsMutex}
    <2>1. CASE Callback(t)
      BY <2>1 DEF Callback, CallbackWithoutChannel, ReceiveNextSegment, BeginNewMessage,
                  LoanBufferAgain
    <2>2. CASE Continue(t)
      BY <2>2 DEF Continue, Loan, LoanFails, Push, Write, Publish, FinishDma
    <2>3. CASE ReleaseBuffer(t)
      BY <2>3 DEF ReleaseBuffer, ReleaseBufferIgnored, ReleaseBufferFailed,
                  ReleaseBufferFilled
    <2> QED
      BY <1>1, <2>1, <2>2, <2>3
  <1>2. ASSUME NEW services \in Updates, BeginUpdate(services) PROVE UpdateInv'
    BY <1>2 DEF UpdateInv, BeginUpdate, Active
  <1>3. ASSUME NEW s \in Services, DeleteChannel(s) PROVE UpdateInv'
    <2>1. /\ endpointsMutex = Updater /\ s \in servicesToDelete
          /\ servicesToDelete' = servicesToDelete \ {s}
          /\ endpoints' = [endpoints EXCEPT ![s] = NoPublisher]
          /\ UNCHANGED <<wanted, servicesToSetup>>
      BY <1>3 DEF DeleteChannel
    <2>2. Active' = Active \ {s}
      BY <2>1 DEF Active, TypeOK
    <2> QED
      BY <2>1, <2>2 DEF UpdateInv
  <1>4. ASSUME NEW s \in Services, SetupChannel(s) PROVE UpdateInv'
    <2>1. /\ endpointsMutex = Updater /\ servicesToDelete = {} /\ s \in servicesToSetup
          /\ servicesToSetup' = servicesToSetup \ {s}
          /\ UNCHANGED <<wanted, servicesToDelete>>
      BY <1>4 DEF SetupChannel
    <2>2. PICK p \in Publishers : endpoints' = [endpoints EXCEPT ![s] = p]
      BY <1>4, <2>1, RoomForChannel DEF SetupChannel, AddChannel
    <2>3. Active' = Active \cup {s}
      BY <2>2 DEF Active, TypeOK
    <2> QED
      BY <2>1, <2>3 DEF UpdateInv
  <1>5. ASSUME EndUpdate PROVE UpdateInv'
    BY <1>5 DEF UpdateInv, EndUpdate
  <1>6. ASSUME \/ CheckErase \/ CheckRelease \/ LoseDatagram \/ ForwarderTake
               \/ UNCHANGED vars
        PROVE  UpdateInv'
    BY <1>6 DEF UpdateInv, CheckErase, CheckRelease, LoseDatagram, ForwarderTake, vars, Active
  <1> QED
    BY <1>1, <1>2, <1>3, <1>4, <1>5, <1>6 DEF Next, UpdateChannels, UpdateInv, Active

LEMMA UpdateCorrect == Spec => []UpdateInv
  BY UpdateInit, UpdateNext, TypeCorrectness, PTL DEF Spec

-----------------------------------------------------------------------------
\* Nothing is on loan at first.
LEMMA OwnershipInit == Init => OwnershipInv
  BY DistinctAssumption
     DEF Init, OwnershipInv, MutualExclusion, ChannelsDistinct, CallbackInChannel,
         TableNamesLiveChannel, ChunkOwnership, HoldersHaveLoans, HoldersAreDistinct,
         LoansHaveHolders, Holds, WriteTargetLoaned, Idle, Critical, Active

\* A step that changes none of the state that OwnershipInv is about.
LEMMA OwnershipFrame ==
    ASSUME OwnershipInv,
           UNCHANGED <<endpointsMutex, endpoints, segmentedMessages, msgToRelease,
                       loanedBy, thread, orphaned>>
    PROVE  OwnershipInv'
  BY DEF OwnershipInv, MutualExclusion, ChannelsDistinct, CallbackInChannel,
         TableNamesLiveChannel, ChunkOwnership, HoldersHaveLoans, HoldersAreDistinct,
         LoansHaveHolders, Holds, WriteTargetLoaned, Critical, Active, Channel, Hash,
         Entries

\* At most the owner of the mutex holds a chunk or is inside its channel.
LEMMA OthersHoldNothing ==
    ASSUME OwnershipInv, NEW t, endpointsMutex \in {t, Nobody, Updater},
           NEW u \in Threads, u # t
    PROVE  thread[u].pc \notin Critical /\ ~Holds(u)
  BY DistinctAssumption DEF OwnershipInv, MutualExclusion, Holds, Critical

\* What findAndDecrement does to the table: the entry goes, or is replaced by
\* one of the same message, chunk and publisher.
LEMMA DecrementedFields ==
    ASSUME TypeOK, NEW e \in segmentedMessages
    PROVE  /\ e.remainingSegments = 1 => Decremented(e) = segmentedMessages \ {e}
           /\ e.remainingSegments # 1 =>
                 \E f : /\ Decremented(e) = (segmentedMessages \ {e}) \cup {f}
                       /\ f.hash = e.hash /\ f.userPayload = e.userPayload
                       /\ f.publisher = e.publisher
                       /\ f.remainingSegments = e.remainingSegments - 1
  <1> DEFINE f == [e EXCEPT !.remainingSegments = @ - 1]
  <1>1. /\ f.hash = e.hash /\ f.userPayload = e.userPayload /\ f.publisher = e.publisher
        /\ f.remainingSegments = e.remainingSegments - 1
    BY DEF TypeOK, SegmentedMessage
  <1> QED
    BY <1>1 DEF Decremented

\* Ending the loan of a chunk that p holds frees exactly that chunk.
LEMMA EndLoanEffect ==
    ASSUME TypeOK, NEW c \in Chunks, NEW p, loanedBy[c] = p, loanedBy' = EndLoan(p, c)
    PROVE  loanedBy'[c] = NoPublisher /\ \A b \in Chunks \ {c} : loanedBy'[b] = loanedBy[b]
  BY DEF TypeOK, EndLoan

\* receive of a further segment: the last one takes the chunk out of the table.
LEMMA ReceiveNextSegmentOwnership ==
    ASSUME TypeOK, OwnershipInv,
           NEW t \in Threads, NEW d \in datagrams, ReceiveNextSegment(t, d)
    PROVE  OwnershipInv'
  <1> USE DistinctAssumption DEF channelVars, updateVars, memoryVars
  <1>1. PICK e \in Entries(d[1]) :
            /\ segmentedMessages' = Decremented(e)
            /\ thread' = [thread EXCEPT ![t] =
                  [pc |-> "write", job |-> d, publisher |-> Channel(d[1]),
                   userPayload |-> e.userPayload,
                   shouldPublish |-> e.remainingSegments = 1]]
    BY DEF ReceiveNextSegment
  <1>2. /\ endpointsMutex = Nobody /\ endpointsMutex' = t
        /\ thread[t].pc = "idle" /\ Channel(d[1]) # NoPublisher
        /\ UNCHANGED <<endpoints, msgToRelease, loanedBy, orphaned>>
    BY DEF ReceiveNextSegment, EnterChannel, Delivered
  <1>3. /\ thread'[t].pc = "write" /\ thread'[t].job = d
        /\ thread'[t].publisher = Channel(d[1])
        /\ thread'[t].userPayload = e.userPayload
        /\ thread'[t].shouldPublish <=> e.remainingSegments = 1
        /\ \A u \in Threads \ {t} : thread'[u] = thread[u]
    BY <1>1 DEF TypeOK, ThreadsOK
  <1>4. e \in segmentedMessages /\ e.hash = d[1] /\ e.publisher = Channel(d[1])
    BY DEF Entries, OwnershipInv, TableNamesLiveChannel
  <1>5. \A u \in Threads \ {t} : ~Holds(u) /\ thread[u].pc \notin Critical
    BY <1>2, OthersHoldNothing
  <1>6. \A u \in Threads \ {t} : ~Holds(u)'
    BY <1>3, <1>5 DEF Holds
  <1>7. ~Holds(t) /\ (Holds(t)' <=> e.remainingSegments = 1)
    BY <1>2, <1>3 DEF Holds
  <1>8. PICK f : /\ segmentedMessages' \subseteq (segmentedMessages \ {e}) \cup {f}
                 /\ segmentedMessages \ {e} \subseteq segmentedMessages'
                 /\ e.remainingSegments # 1 => f \in segmentedMessages'
                 /\ e.remainingSegments = 1 => f \notin segmentedMessages'
                 /\ f.hash = e.hash /\ f.userPayload = e.userPayload
                 /\ f.publisher = e.publisher
    BY <1>1, <1>4, DecrementedFields
  <1>9. MutualExclusion' /\ ChannelsDistinct'
    BY <1>2, <1>3, <1>5 DEF OwnershipInv, MutualExclusion, ChannelsDistinct, Critical, Active
  <1>10. CallbackInChannel'
    BY <1>2, <1>3, <1>5 DEF CallbackInChannel, Channel, Hash, Critical
  <1>11. TableNamesLiveChannel'
    BY <1>2, <1>4, <1>8 DEF OwnershipInv, TableNamesLiveChannel, Channel
  <1>12. ASSUME ~orphaned' PROVE HoldersHaveLoans' /\ HoldersAreDistinct' /\ LoansHaveHolders'
    <2>1. HoldersHaveLoans /\ HoldersAreDistinct /\ LoansHaveHolders
      BY <1>12, <1>2 DEF OwnershipInv, ChunkOwnership
    <2>2. HoldersHaveLoans'
      BY <1>2, <1>3, <1>4, <1>6, <1>8, <2>1 DEF HoldersHaveLoans, Channel
    <2>3. HoldersAreDistinct'
      BY <1>2, <1>3, <1>4, <1>6, <1>7, <1>8, <2>1 DEF HoldersAreDistinct
    <2>4. LoansHaveHolders'
      BY <1>2, <1>3, <1>4, <1>5, <1>7, <1>8, <2>1 DEF LoansHaveHolders
    <2> QED
      BY <2>2, <2>3, <2>4
  <1>13. WriteTargetLoaned'
    BY <1>2, <1>3, <1>4, <1>5
       DEF OwnershipInv, WriteTargetLoaned, ChunkOwnership, HoldersHaveLoans, Critical
  <1> QED
    BY <1>9, <1>10, <1>11, <1>12, <1>13 DEF OwnershipInv, ChunkOwnership

\* A step of one callback that changes no table, no loan and no channel.
LEMMA CallbackStep ==
    ASSUME TypeOK, OwnershipInv, NEW t \in Threads, NEW r,
           thread' = [thread EXCEPT ![t] = r],
           UNCHANGED <<endpoints, segmentedMessages, msgToRelease, loanedBy, orphaned>>,
           MutualExclusion',
           r.pc \in Critical => r.publisher = Channel(r.job[1]),
           r.pc \in {"loan", "push"} => Entries(r.job[1]) = {},
           r.pc \in {"push", "writeReleased"} => ~r.shouldPublish,
           r.pc = "publish" => r.shouldPublish,
           Holds(t)' <=> Holds(t),
           Holds(t) => r.userPayload = thread[t].userPayload /\ r.publisher = thread[t].publisher,
           r.pc = "write" /\ ~orphaned => loanedBy[r.userPayload] = r.publisher
    PROVE  OwnershipInv'
  <1>1. thread'[t] = r /\ \A u \in Threads \ {t} : thread'[u] = thread[u]
    BY DEF TypeOK, ThreadsOK
  <1>2. \A u \in Threads : Holds(u)' <=> Holds(u)
    BY <1>1 DEF Holds
  <1>3. \A u \in Threads : Holds(u) =>
            /\ thread'[u].userPayload = thread[u].userPayload
            /\ thread'[u].publisher = thread[u].publisher
    BY <1>1
  <1>4. ChannelsDistinct' /\ TableNamesLiveChannel'
    BY DEF OwnershipInv, ChannelsDistinct, Active, TableNamesLiveChannel, Channel
  <1>5. CallbackInChannel'
    BY <1>1 DEF OwnershipInv, CallbackInChannel, Channel, Hash, Entries
  <1>6. ChunkOwnership'
    BY <1>2, <1>3 DEF OwnershipInv, ChunkOwnership, HoldersHaveLoans, HoldersAreDistinct,
                      LoansHaveHolders, Channel
  <1>7. WriteTargetLoaned'
    BY <1>1 DEF OwnershipInv, WriteTargetLoaned
  <1> QED
    BY <1>4, <1>5, <1>6, <1>7 DEF OwnershipInv

\* receive or loanBuffer of a message that is not in the table.
LEMMA BeginNewMessageOwnership ==
    ASSUME TypeOK, OwnershipInv,
           NEW t \in Threads, NEW d \in datagrams, BeginNewMessage(t, d)
    PROVE  OwnershipInv'
  <1> DEFINE r == [pc |-> "loan", job |-> d, publisher |-> Channel(d[1]),
                   userPayload |-> NoChunk, shouldPublish |-> FALSE]
  <1>1. thread' = [thread EXCEPT ![t] = r] /\ thread[t].pc = "idle" /\ Entries(d[1]) = {}
    BY DEF BeginNewMessage, EnterChannel, Delivered
  <1>2. MutualExclusion'
    BY DistinctAssumption
       DEF BeginNewMessage, EnterChannel, Delivered, OwnershipInv, MutualExclusion, Critical, TypeOK, ThreadsOK
  <1>3. ~Holds(t) /\ ~Holds(t)'
    BY <1>1 DEF Holds, TypeOK, ThreadsOK
  <1> QED
    BY <1>1, <1>2, <1>3, CallbackStep DEF BeginNewMessage, channelVars, updateVars, memoryVars

\* loanBuffer of a message in the table hands out the chunk, not its ownership.
LEMMA LoanBufferAgainOwnership ==
    ASSUME TypeOK, OwnershipInv,
           NEW t \in Threads, NEW d \in datagrams, LoanBufferAgain(t, d)
    PROVE  OwnershipInv'
  <1>1. PICK e \in Entries(d[1]) :
          thread' = [thread EXCEPT ![t] =
              [pc |-> "dma", job |-> d, publisher |-> Channel(d[1]),
               userPayload |-> e.userPayload, shouldPublish |-> FALSE]]
    BY DEF LoanBufferAgain
  <1> DEFINE r == [pc |-> "dma", job |-> d, publisher |-> Channel(d[1]),
                   userPayload |-> e.userPayload, shouldPublish |-> FALSE]
  <1>2. r.pc \notin Critical /\ thread[t].pc = "idle"
    BY DEF Critical, LoanBufferAgain, EnterChannel, Delivered
  <1>3. MutualExclusion'
    BY <1>1, <1>2
       DEF LoanBufferAgain, OwnershipInv, MutualExclusion, Critical, TypeOK, ThreadsOK
  <1>4. ~Holds(t) /\ ~Holds(t)'
    BY <1>1, <1>2 DEF Holds, TypeOK, ThreadsOK
  <1> QED
    BY <1>1, <1>2, <1>3, <1>4, CallbackStep
       DEF LoanBufferAgain, channelVars, updateVars, memoryVars, Critical

\* A callback that ends without having touched table or loans.
LEMMA CallbackEnds ==
    ASSUME TypeOK, OwnershipInv, NEW t \in Threads, ~Holds(t),
           thread' = [thread EXCEPT ![t] = Idle],
           endpointsMutex \in {t, Nobody}, endpointsMutex' = Nobody,
           UNCHANGED <<endpoints, segmentedMessages, msgToRelease, loanedBy, orphaned>>
    PROVE  OwnershipInv'
  <1>1. Idle.pc = "idle"
    BY DEF Idle
  <1>2. thread'[t].pc = "idle" /\ \A u \in Threads \ {t} : thread'[u] = thread[u]
    BY <1>1 DEF TypeOK, ThreadsOK
  <1>3. MutualExclusion'
    BY <1>2, DistinctAssumption DEF OwnershipInv, MutualExclusion, Critical
  <1>4. ~Holds(t)'
    BY <1>2 DEF Holds
  <1> QED
    BY <1>1, <1>3, <1>4, CallbackStep DEF Critical

\* takeNext changes no owner.
LEMMA WriteOwnership ==
    ASSUME TypeOK, OwnershipInv, NEW t \in Threads, Write(t)
    PROVE  OwnershipInv'
  <1>1. endpointsMutex = t
    BY DEF Write, OwnershipInv, MutualExclusion, Critical
  <1>2. CASE ~thread[t].shouldPublish
    BY <1>1, <1>2, CallbackEnds DEF Write, Holds, channelVars, updateVars
  <1>3. CASE thread[t].shouldPublish
    <2> DEFINE r == [thread[t] EXCEPT !.pc = "publish"]
    <2>1. thread' = [thread EXCEPT ![t] = r]
      BY <1>3 DEF Write
    <2>2. /\ r.pc = "publish" /\ r.job = thread[t].job
          /\ r.publisher = thread[t].publisher /\ r.userPayload = thread[t].userPayload
          /\ r.shouldPublish = thread[t].shouldPublish
      BY DEF TypeOK, ThreadsOK, Locals
    <2>3. MutualExclusion'
      BY <1>1, <1>3, <2>1, <2>2
         DEF Write, OwnershipInv, MutualExclusion, Critical, TypeOK, ThreadsOK
    <2> HIDE DEF r
    <2>4. r.publisher = Channel(r.job[1])
      BY <2>2 DEF Write, OwnershipInv, CallbackInChannel, Critical, Hash
    <2>5. Holds(t) /\ Holds(t)'
      BY <1>3, <2>1, <2>2
         DEF Write, Holds, OwnershipInv, CallbackInChannel, Critical, TypeOK, ThreadsOK
    <2> QED
      BY <1>3, <2>1, <2>2, <2>3, <2>4, <2>5, CallbackStep DEF Write, channelVars, updateVars
  <1> QED
    BY <1>2, <1>3

\* The end of a transfer changes no owner.
LEMMA FinishDmaOwnership ==
    ASSUME TypeOK, OwnershipInv, NEW t \in Threads, FinishDma(t)
    PROVE  OwnershipInv'
  <1>1. PICK flag \in BOOLEAN :
             thread' = [thread EXCEPT ![t] =
                           [@ EXCEPT !.pc = "report", !.shouldPublish = flag]]
    BY DEF FinishDma
  <1> DEFINE r == [thread[t] EXCEPT !.pc = "report", !.shouldPublish = flag]
  <1>2. thread' = [thread EXCEPT ![t] = r] /\ r.pc = "report" /\ thread[t].pc = "dma"
    BY <1>1 DEF FinishDma, TypeOK, ThreadsOK, Locals
  <1> HIDE DEF r
  <1>3. MutualExclusion'
    BY <1>2 DEF FinishDma, OwnershipInv, MutualExclusion, Critical, TypeOK, ThreadsOK
  <1>4. ~Holds(t) /\ ~Holds(t)'
    BY <1>2 DEF Holds, TypeOK, ThreadsOK
  <1> QED
    BY <1>2, <1>3, <1>4, CallbackStep DEF FinishDma, channelVars, updateVars, Critical

\* loan: a free chunk gets the callback as its holder.
LEMMA LoanOwnership ==
    ASSUME TypeOK, OwnershipInv, NEW t \in Threads, Loan(t)
    PROVE  OwnershipInv'
  <1> USE DistinctAssumption
  <1> DEFINE x == IF IsSegmented(thread[t].job) THEN "push" ELSE "write"
             flag == ~IsSegmented(thread[t].job)
  <1>a. x \in {"push", "write"} /\ (x = "write" <=> flag)
    OBVIOUS
  <1>b. flag \in BOOLEAN
    BY DEF IsSegmented
  <1>1. PICK c \in Chunks :
            /\ loanedBy[c] = NoPublisher
            /\ loanedBy' = [loanedBy EXCEPT ![c] = thread[t].publisher]
            /\ thread' = [thread EXCEPT ![t] = [@ EXCEPT
                  !.pc = x, !.userPayload = c, !.shouldPublish = flag]]
    BY DEF Loan
  <1> HIDE DEF x, flag
  <1>2. /\ thread[t].pc = "loan"
        /\ UNCHANGED <<endpointsMutex, endpoints, segmentedMessages, msgToRelease, orphaned>>
    BY DEF Loan, channelVars, updateVars
  <1>3. /\ thread'[t].pc = x /\ thread'[t].userPayload = c
        /\ thread'[t].shouldPublish = flag /\ thread'[t].job = thread[t].job
        /\ thread'[t].publisher = thread[t].publisher
        /\ \A u \in Threads \ {t} : thread'[u] = thread[u]
    BY <1>1 DEF TypeOK, ThreadsOK, Locals
  <1>4. /\ loanedBy'[c] = thread[t].publisher /\ thread[t].publisher # NoPublisher
        /\ \A b \in Chunks \ {c} : loanedBy'[b] = loanedBy[b]
    BY <1>1, <1>2 DEF TypeOK, ThreadsOK
  <1>5. /\ endpointsMutex = t
        /\ thread[t].publisher = Channel(Hash(t)) /\ Entries(Hash(t)) = {}
    BY <1>2 DEF OwnershipInv, MutualExclusion, CallbackInChannel, Critical
  <1>6. \A u \in Threads \ {t} : ~Holds(u) /\ ~Holds(u)' /\ thread[u].pc \notin Critical
    BY <1>3, <1>5, OthersHoldNothing DEF Holds
  <1>7. ~Holds(t) /\ Holds(t)'
    BY <1>a, <1>2, <1>3 DEF Holds
  <1>8. MutualExclusion' /\ ChannelsDistinct' /\ TableNamesLiveChannel'
    BY <1>a, <1>2, <1>3, <1>5, <1>6
       DEF OwnershipInv, MutualExclusion, ChannelsDistinct, Active, TableNamesLiveChannel,
           Channel, Critical
  <1>9. CallbackInChannel'
    BY <1>a, <1>2, <1>3, <1>5, <1>6
       DEF CallbackInChannel, Channel, Hash, Entries, Critical
  <1>10. ASSUME ~orphaned' PROVE HoldersHaveLoans' /\ HoldersAreDistinct' /\ LoansHaveHolders'
    <2>1. HoldersHaveLoans /\ HoldersAreDistinct /\ LoansHaveHolders
      BY <1>10, <1>2 DEF OwnershipInv, ChunkOwnership
    <2>2. /\ \A e \in segmentedMessages :
                e.userPayload \in Chunks /\ e.publisher \in Publishers
          /\ msgToRelease # NoMessage =>
                msgToRelease.userPayload \in Chunks /\ msgToRelease.publisher \in Publishers
      BY DEF TypeOK, SegmentedMessage
    <2>3. /\ \A e \in segmentedMessages : e.userPayload # c
          /\ msgToRelease # NoMessage => msgToRelease.userPayload # c
      BY <1>1, <2>1, <2>2 DEF HoldersHaveLoans
    <2>4. HoldersHaveLoans'
      BY <1>2, <1>3, <1>4, <1>6, <2>1, <2>2, <2>3 DEF HoldersHaveLoans, Channel
    <2>5. HoldersAreDistinct'
      BY <1>2, <1>3, <1>6, <2>1, <2>3 DEF HoldersAreDistinct
    <2>6. LoansHaveHolders'
      BY <1>2, <1>3, <1>4, <1>6, <1>7, <2>1 DEF LoansHaveHolders
    <2> QED
      BY <2>4, <2>5, <2>6
  <1>11. WriteTargetLoaned'
    BY <1>3, <1>4, <1>6 DEF WriteTargetLoaned, Critical
  <1> QED
    BY <1>8, <1>9, <1>10, <1>11 DEF OwnershipInv, ChunkOwnership

\* push: the chunk passes from the callback to the table, or back to iceoryx.
LEMMA PushOwnership ==
    ASSUME TypeOK, OwnershipInv, NEW t \in Threads, Push(t)
    PROVE  OwnershipInv'
  <1> USE DistinctAssumption
  <1> DEFINE c == thread[t].userPayload
             p == thread[t].publisher
             n == NewEntry(t)
  <1>1. /\ thread[t].pc = "push" /\ c \in Chunks /\ p \in Publishers
        /\ n.hash = Hash(t) /\ n.userPayload = c /\ n.publisher = p
        /\ UNCHANGED <<endpoints, msgToRelease, orphaned>>
    BY DEF Push, channelVars, updateVars, TypeOK, ThreadsOK, NewEntry
  <1>2. /\ endpointsMutex = t /\ ~thread[t].shouldPublish
        /\ p = Channel(Hash(t)) /\ Entries(Hash(t)) = {} /\ Holds(t)
    BY <1>1 DEF OwnershipInv, MutualExclusion, CallbackInChannel, Critical, Holds
  <1>3. PICK x \in {"dma", "write", "writeReleased"} :
            /\ thread' = [thread EXCEPT ![t].pc = x]
            /\ endpointsMutex' = IF x = "dma" THEN Nobody ELSE endpointsMutex
            /\ \/ /\ segmentedMessages' = segmentedMessages \cup {n}
                  /\ loanedBy' = loanedBy
               \/ /\ segmentedMessages' = segmentedMessages
                  /\ loanedBy' = EndLoan(p, c)
                  /\ x # "write"
    BY DEF Push
  <1>4. /\ thread'[t].pc = x /\ thread'[t].userPayload = c /\ thread'[t].publisher = p
        /\ thread'[t].job = thread[t].job
        /\ ~thread'[t].shouldPublish
        /\ \A u \in Threads \ {t} : thread'[u] = thread[u]
    BY <1>2, <1>3 DEF TypeOK, ThreadsOK, Locals
  <1>5. \A u \in Threads \ {t} : ~Holds(u) /\ ~Holds(u)' /\ thread[u].pc \notin Critical
    BY <1>2, <1>4, OthersHoldNothing DEF Holds
  <1>6. ~Holds(t)'
    BY <1>3, <1>4 DEF Holds
  <1>7. \A e \in segmentedMessages : e.hash # Hash(t)
    BY <1>2 DEF Entries
  <1> HIDE DEF n, c, p
  <1>8. Channel(Hash(t)) # NoPublisher
    BY <1>1, <1>2
  <1>9. MutualExclusion' /\ ChannelsDistinct'
    BY <1>1, <1>2, <1>3, <1>4, <1>5
       DEF OwnershipInv, MutualExclusion, ChannelsDistinct, Active, Critical
  <1>10. TableNamesLiveChannel'
    BY <1>1, <1>2, <1>3, <1>7, <1>8 DEF OwnershipInv, TableNamesLiveChannel, Channel
  <1>11. CallbackInChannel'
    BY <1>1, <1>2, <1>3, <1>4, <1>5 DEF CallbackInChannel, Channel, Hash, Critical
  <1>12. ASSUME ~orphaned'
         PROVE  /\ HoldersHaveLoans' /\ HoldersAreDistinct' /\ LoansHaveHolders'
                /\ WriteTargetLoaned'
    <2>1. HoldersHaveLoans /\ HoldersAreDistinct /\ LoansHaveHolders
      BY <1>12, <1>1 DEF OwnershipInv, ChunkOwnership
    <2>2. loanedBy[c] = p
      BY <1>2, <2>1 DEF HoldersHaveLoans, c, p
    <2>3. /\ \A e \in segmentedMessages : e.userPayload # c /\ e.userPayload \in Chunks
          /\ msgToRelease # NoMessage =>
                msgToRelease.userPayload # c /\ msgToRelease.userPayload \in Chunks
      BY <1>2, <2>1 DEF HoldersAreDistinct, c, TypeOK, SegmentedMessage
    <2>4. CASE segmentedMessages' = segmentedMessages \cup {n} /\ loanedBy' = loanedBy
      <3>1. HoldersHaveLoans'
        BY <1>1, <1>5, <1>6, <2>1, <2>2, <2>4 DEF HoldersHaveLoans, Channel
      <3>2. HoldersAreDistinct'
        BY <1>1, <1>5, <1>6, <2>1, <2>3, <2>4 DEF HoldersAreDistinct
      <3>3. LoansHaveHolders'
        BY <1>1, <1>5, <2>1, <2>4 DEF LoansHaveHolders, c
      <3>4. WriteTargetLoaned'
        BY <1>4, <1>5, <2>2, <2>4 DEF WriteTargetLoaned, Critical
      <3> QED
        BY <3>1, <3>2, <3>3, <3>4
    <2>5. CASE segmentedMessages' = segmentedMessages /\ loanedBy' = EndLoan(p, c) /\ x # "write"
      <3>1. loanedBy'[c] = NoPublisher /\ \A b \in Chunks \ {c} : loanedBy'[b] = loanedBy[b]
        BY <1>1, <2>2, <2>5, EndLoanEffect
      <3>2. HoldersHaveLoans'
        BY <1>1, <1>5, <1>6, <2>1, <2>3, <2>5, <3>1 DEF HoldersHaveLoans, Channel
      <3>3. HoldersAreDistinct'
        BY <1>1, <1>5, <1>6, <2>1, <2>5 DEF HoldersAreDistinct
      <3>4. LoansHaveHolders'
        BY <1>1, <1>5, <2>1, <2>5, <3>1 DEF LoansHaveHolders, c
      <3>5. WriteTargetLoaned'
        BY <1>4, <1>5, <2>5 DEF WriteTargetLoaned, Critical
      <3> QED
        BY <3>2, <3>3, <3>4, <3>5
    <2> QED
      BY <1>3, <2>4, <2>5
  <1> QED
    BY <1>9, <1>10, <1>11, <1>12 DEF OwnershipInv, ChunkOwnership, WriteTargetLoaned

\* publish: the chunk passes from the callback to the subscribers.
LEMMA PublishOwnership ==
    ASSUME TypeOK, OwnershipInv, NEW t \in Threads, Publish(t)
    PROVE  OwnershipInv'
  <1> USE DistinctAssumption
  <1> DEFINE c == thread[t].userPayload
             p == thread[t].publisher
  <1>1. /\ thread[t].pc = "publish" /\ c \in Chunks /\ endpointsMutex' = Nobody
        /\ loanedBy' = EndLoan(p, c)
        /\ UNCHANGED <<endpoints, segmentedMessages, msgToRelease, orphaned>>
    BY DEF Publish, channelVars, updateVars, TypeOK, ThreadsOK
  <1>2. endpointsMutex = t /\ Holds(t)
    BY <1>1 DEF OwnershipInv, MutualExclusion, CallbackInChannel, Critical, Holds
  <1>3. thread'[t].pc = "idle" /\ \A u \in Threads \ {t} : thread'[u] = thread[u]
    BY DEF Publish, TypeOK, ThreadsOK, Idle
  <1>4. \A u \in Threads \ {t} : ~Holds(u) /\ thread[u].pc \notin Critical
    BY <1>2, OthersHoldNothing
  <1>5. \A u \in Threads : ~Holds(u)' /\ thread'[u].pc \notin Critical
    BY <1>3, <1>4 DEF Holds, Critical
  <1>6. MutualExclusion' /\ ChannelsDistinct' /\ CallbackInChannel' /\ TableNamesLiveChannel'
    BY <1>1, <1>5
       DEF OwnershipInv, MutualExclusion, ChannelsDistinct, Active, CallbackInChannel,
           TableNamesLiveChannel, Channel
  <1>7. WriteTargetLoaned'
    BY <1>5 DEF WriteTargetLoaned, Critical
  <1>8. ASSUME ~orphaned' PROVE HoldersHaveLoans' /\ HoldersAreDistinct' /\ LoansHaveHolders'
    <2>1. HoldersHaveLoans /\ HoldersAreDistinct /\ LoansHaveHolders
      BY <1>8, <1>1 DEF OwnershipInv, ChunkOwnership
    <2>2. loanedBy[c] = p
      BY <1>2, <2>1 DEF HoldersHaveLoans
    <2>3. loanedBy'[c] = NoPublisher /\ \A b \in Chunks \ {c} : loanedBy'[b] = loanedBy[b]
      BY <1>1, <2>2, EndLoanEffect
    <2>4. /\ \A e \in segmentedMessages : e.userPayload # c /\ e.userPayload \in Chunks
          /\ msgToRelease # NoMessage =>
                msgToRelease.userPayload # c /\ msgToRelease.userPayload \in Chunks
      BY <1>2, <2>1 DEF HoldersAreDistinct, TypeOK, SegmentedMessage
    <2>5. HoldersHaveLoans'
      BY <1>1, <1>5, <2>1, <2>3, <2>4 DEF HoldersHaveLoans, Channel
    <2>6. HoldersAreDistinct'
      BY <1>1, <1>5, <2>1 DEF HoldersAreDistinct
    <2>7. LoansHaveHolders'
      BY <1>1, <1>4, <2>1, <2>3 DEF LoansHaveHolders
    <2> QED
      BY <2>5, <2>6, <2>7
  <1> QED
    BY <1>6, <1>7, <1>8 DEF OwnershipInv, ChunkOwnership

\* releaseBuffer after a failed transfer: the chunk leaves the table and the
\* loan together.
LEMMA ReleaseBufferFailedOwnership ==
    ASSUME TypeOK, OwnershipInv, NEW t \in Threads, ReleaseBufferFailed(t)
    PROVE  OwnershipInv'
  <1> USE DistinctAssumption
  <1>1. PICK e \in Entries(Hash(t)) :
            /\ segmentedMessages' = segmentedMessages \ {e}
            /\ loanedBy' = EndLoan(e.publisher, e.userPayload)
    BY DEF ReleaseBufferFailed
  <1>2. /\ thread[t].pc = "report" /\ endpointsMutex = Nobody
        /\ UNCHANGED <<endpointsMutex, endpoints, msgToRelease, orphaned>>
    BY DEF ReleaseBufferFailed, channelVars, updateVars
  <1>3. thread'[t].pc = "idle" /\ \A u \in Threads \ {t} : thread'[u] = thread[u]
    BY DEF ReleaseBufferFailed, TypeOK, ThreadsOK, Idle
  <1>4. \A u \in Threads : ~Holds(u) /\ thread[u].pc \notin Critical
    BY <1>2, OthersHoldNothing DEF Holds, Critical
  <1>5. \A u \in Threads : ~Holds(u)' /\ thread'[u].pc \notin Critical
    BY <1>3, <1>4 DEF Holds, Critical
  <1>6. e \in segmentedMessages /\ e.userPayload \in Chunks
    BY DEF Entries, TypeOK, SegmentedMessage
  <1>7. MutualExclusion' /\ ChannelsDistinct' /\ CallbackInChannel' /\ TableNamesLiveChannel'
    BY <1>1, <1>2, <1>5
       DEF OwnershipInv, MutualExclusion, ChannelsDistinct, Active, CallbackInChannel,
           TableNamesLiveChannel, Channel
  <1>8. WriteTargetLoaned'
    BY <1>5 DEF WriteTargetLoaned, Critical
  <1>9. ASSUME ~orphaned' PROVE HoldersHaveLoans' /\ HoldersAreDistinct' /\ LoansHaveHolders'
    <2>1. HoldersHaveLoans /\ HoldersAreDistinct /\ LoansHaveHolders
      BY <1>9, <1>2 DEF OwnershipInv, ChunkOwnership
    <2>2. /\ loanedBy'[e.userPayload] = NoPublisher
          /\ \A b \in Chunks \ {e.userPayload} : loanedBy'[b] = loanedBy[b]
      BY <1>1, <1>6, <2>1, EndLoanEffect DEF HoldersHaveLoans
    <2>3. /\ \A f \in segmentedMessages' :
                f.userPayload # e.userPayload /\ f.userPayload \in Chunks
          /\ msgToRelease # NoMessage =>
                msgToRelease.userPayload # e.userPayload /\ msgToRelease.userPayload \in Chunks
      BY <1>1, <1>6, <2>1 DEF HoldersAreDistinct, TypeOK, SegmentedMessage
    <2>4. HoldersHaveLoans'
      BY <1>1, <1>2, <1>5, <2>1, <2>2, <2>3 DEF HoldersHaveLoans, Channel
    <2>5. HoldersAreDistinct'
      BY <1>1, <1>2, <1>5, <2>1 DEF HoldersAreDistinct
    <2>6. LoansHaveHolders'
      BY <1>1, <1>2, <1>4, <2>1, <2>2 DEF LoansHaveHolders
    <2> QED
      BY <2>4, <2>5, <2>6
  <1> QED
    BY <1>7, <1>8, <1>9 DEF OwnershipInv, ChunkOwnership

\* releaseBuffer after a transfer that went well: the last segment makes the
\* chunk pass from the table to the callback.
LEMMA ReleaseBufferFilledOwnership ==
    ASSUME TypeOK, OwnershipInv, NEW t \in Threads, ReleaseBufferFilled(t)
    PROVE  OwnershipInv'
  <1> USE DistinctAssumption
  <1>1. PICK e \in Entries(Hash(t)) :
            /\ segmentedMessages' = Decremented(e)
            /\ \/ /\ e.remainingSegments = 1
                  /\ thread' = [thread EXCEPT ![t] = [@ EXCEPT
                                   !.pc = "publish",
                                   !.publisher = Channel(Hash(t)),
                                   !.userPayload = e.userPayload]]
                  /\ endpointsMutex' = t
               \/ /\ e.remainingSegments # 1
                  /\ thread' = [thread EXCEPT ![t] = Idle]
                  /\ UNCHANGED endpointsMutex
    BY DEF ReleaseBufferFilled
  <1>2. /\ thread[t].pc = "report" /\ thread[t].shouldPublish /\ endpointsMutex = Nobody
        /\ UNCHANGED <<endpoints, msgToRelease, loanedBy, orphaned>>
    BY DEF ReleaseBufferFilled, channelVars, updateVars, memoryVars
  <1>3. /\ e.remainingSegments = 1 =>
              /\ thread'[t].pc = "publish" /\ thread'[t].shouldPublish
              /\ thread'[t].job = thread[t].job
              /\ thread'[t].publisher = Channel(Hash(t))
              /\ thread'[t].userPayload = e.userPayload
        /\ e.remainingSegments # 1 => thread'[t].pc = "idle"
        /\ \A u \in Threads \ {t} : thread'[u] = thread[u]
    <2> DEFINE r == [thread[t] EXCEPT !.pc = "publish",
                                      !.publisher = Channel(Hash(t)),
                                      !.userPayload = e.userPayload]
    <2>1. /\ e.remainingSegments = 1 => thread' = [thread EXCEPT ![t] = r]
          /\ e.remainingSegments # 1 => thread' = [thread EXCEPT ![t] = Idle]
      BY <1>1
    <2>2. /\ r.pc = "publish" /\ r.shouldPublish = thread[t].shouldPublish
          /\ r.job = thread[t].job /\ r.publisher = Channel(Hash(t))
          /\ r.userPayload = e.userPayload
      BY DEF TypeOK, ThreadsOK, Locals
    <2> HIDE DEF r
    <2>3. /\ e.remainingSegments = 1 => thread'[t] = r
          /\ e.remainingSegments # 1 => thread'[t].pc = "idle"
          /\ \A u \in Threads \ {t} : thread'[u] = thread[u]
      BY <2>1 DEF TypeOK, ThreadsOK, Idle
    <2> QED
      BY <1>2, <2>2, <2>3
  <1>4. e \in segmentedMessages /\ e.hash = Hash(t) /\ e.publisher = Channel(Hash(t))
    BY DEF Entries, OwnershipInv, TableNamesLiveChannel
  <1>5. \A u \in Threads : ~Holds(u) /\ thread[u].pc \notin Critical
    BY <1>2, OthersHoldNothing DEF Holds, Critical
  <1>6. /\ \A u \in Threads \ {t} : ~Holds(u)' /\ thread'[u].pc \notin Critical
        /\ Holds(t)' <=> e.remainingSegments = 1
    <2>1. \A u \in Threads \ {t} : ~Holds(u)' /\ thread'[u].pc \notin Critical
      BY <1>3, <1>5 DEF Holds
    <2>2. e.remainingSegments = 1 => Holds(t)'
      BY <1>3 DEF Holds
    <2>3. e.remainingSegments # 1 => ~Holds(t)'
      BY <1>3 DEF Holds
    <2> QED
      BY <2>1, <2>2, <2>3
  <1>7. PICK f : /\ segmentedMessages' \subseteq (segmentedMessages \ {e}) \cup {f}
                 /\ segmentedMessages \ {e} \subseteq segmentedMessages'
                 /\ e.remainingSegments # 1 => f \in segmentedMessages'
                 /\ e.remainingSegments = 1 => f \notin segmentedMessages'
                 /\ f.hash = e.hash /\ f.userPayload = e.userPayload
                 /\ f.publisher = e.publisher
    BY <1>1, <1>4, DecrementedFields
  <1>8. MutualExclusion'
    BY <1>1, <1>2, <1>3, <1>6 DEF MutualExclusion, Critical
  <1>9. ChannelsDistinct' /\ TableNamesLiveChannel'
    BY <1>2, <1>4, <1>7
       DEF OwnershipInv, ChannelsDistinct, Active, TableNamesLiveChannel, Channel
  <1>10. CallbackInChannel'
    BY <1>2, <1>3, <1>6 DEF CallbackInChannel, Channel, Hash, Critical
  <1>11. WriteTargetLoaned'
    BY <1>3, <1>6 DEF WriteTargetLoaned, Critical
  <1>12. ASSUME ~orphaned' PROVE HoldersHaveLoans' /\ HoldersAreDistinct' /\ LoansHaveHolders'
    <2>1. HoldersHaveLoans /\ HoldersAreDistinct /\ LoansHaveHolders
      BY <1>12, <1>2 DEF OwnershipInv, ChunkOwnership
    <2>2. HoldersHaveLoans'
      BY <1>2, <1>3, <1>4, <1>6, <1>7, <2>1 DEF HoldersHaveLoans, Channel
    <2>3. HoldersAreDistinct'
      BY <1>2, <1>3, <1>4, <1>6, <1>7, <2>1 DEF HoldersAreDistinct
    <2>4. LoansHaveHolders'
      BY <1>2, <1>3, <1>4, <1>5, <1>6, <1>7, <2>1 DEF LoansHaveHolders
    <2> QED
      BY <2>2, <2>3, <2>4
  <1> QED
    BY <1>8, <1>9, <1>10, <1>11, <1>12 DEF OwnershipInv, ChunkOwnership

\* checkSegmentedMessages, first critical section: the chunk passes from the
\* table to msgToRelease.
LEMMA CheckEraseOwnership ==
    ASSUME TypeOK, OwnershipInv, CheckErase
    PROVE  OwnershipInv'
  <1>1. PICK e \in segmentedMessages :
            msgToRelease' = e /\ segmentedMessages' = segmentedMessages \ {e}
    BY DEF CheckErase
  <1>2. /\ msgToRelease = NoMessage
        /\ UNCHANGED <<endpointsMutex, endpoints, loanedBy, thread, orphaned>>
    BY DEF CheckErase, channelVars, updateVars, memoryVars
  <1>3. e # NoMessage
    BY DistinctAssumption DEF TypeOK, SegmentedMessage
  <1>4. \A u \in Threads : Holds(u)' <=> Holds(u)
    BY <1>2 DEF Holds
  <1>5. /\ MutualExclusion' /\ ChannelsDistinct' /\ CallbackInChannel'
        /\ TableNamesLiveChannel' /\ WriteTargetLoaned'
    BY <1>1, <1>2
       DEF OwnershipInv, MutualExclusion, ChannelsDistinct, Active, CallbackInChannel,
           TableNamesLiveChannel, WriteTargetLoaned, Channel, Hash, Entries
  <1>6. ASSUME ~orphaned' PROVE HoldersHaveLoans' /\ HoldersAreDistinct' /\ LoansHaveHolders'
    <2>1. HoldersHaveLoans /\ HoldersAreDistinct /\ LoansHaveHolders
      BY <1>6, <1>2 DEF OwnershipInv, ChunkOwnership
    <2>2. HoldersHaveLoans'
      BY <1>1, <1>2, <1>4, <2>1
         DEF HoldersHaveLoans, Channel, OwnershipInv, TableNamesLiveChannel
    <2>3. HoldersAreDistinct'
      BY <1>1, <1>2, <1>3, <1>4, <2>1 DEF HoldersAreDistinct
    <2>4. LoansHaveHolders'
      BY <1>1, <1>2, <1>3, <1>4, <2>1 DEF LoansHaveHolders
    <2> QED
      BY <2>2, <2>3, <2>4
  <1> QED
    BY <1>5, <1>6 DEF OwnershipInv, ChunkOwnership

\* Second critical section: the chunk of msgToRelease is given back.
LEMMA CheckReleaseOwnership ==
    ASSUME TypeOK, OwnershipInv, CheckRelease
    PROVE  OwnershipInv'
  <1> USE DistinctAssumption
  <1> DEFINE m == msgToRelease
  <1>1. /\ m # NoMessage /\ m.userPayload \in Chunks /\ msgToRelease' = NoMessage
        /\ endpointsMutex = Nobody /\ loanedBy' = EndLoan(m.publisher, m.userPayload)
        /\ UNCHANGED <<endpointsMutex, endpoints, segmentedMessages, thread, orphaned>>
    BY DEF CheckRelease, channelVars, updateVars, TypeOK, SegmentedMessage
  <1>2. \A u \in Threads : thread[u].pc \notin Critical
    BY <1>1 DEF OwnershipInv, MutualExclusion
  <1>3. \A u \in Threads : ~Holds(u) /\ ~Holds(u)'
    BY <1>1, <1>2 DEF Holds, Critical
  <1>4. /\ MutualExclusion' /\ ChannelsDistinct' /\ CallbackInChannel'
        /\ TableNamesLiveChannel' /\ WriteTargetLoaned'
    BY <1>1, <1>2
       DEF OwnershipInv, MutualExclusion, ChannelsDistinct, Active, CallbackInChannel,
           TableNamesLiveChannel, WriteTargetLoaned, Channel, Hash, Entries, Critical
  <1>5. ASSUME ~orphaned' PROVE HoldersHaveLoans' /\ HoldersAreDistinct' /\ LoansHaveHolders'
    <2>1. HoldersHaveLoans /\ HoldersAreDistinct /\ LoansHaveHolders
      BY <1>5, <1>1 DEF OwnershipInv, ChunkOwnership
    <2>2. /\ loanedBy'[m.userPayload] = NoPublisher
          /\ \A b \in Chunks \ {m.userPayload} : loanedBy'[b] = loanedBy[b]
      BY <1>1, <2>1, EndLoanEffect DEF HoldersHaveLoans
    <2>3. \A e \in segmentedMessages :
              e.userPayload # m.userPayload /\ e.userPayload \in Chunks
      BY <1>1, <2>1 DEF HoldersAreDistinct, TypeOK, SegmentedMessage
    <2>4. HoldersHaveLoans'
      BY <1>1, <1>3, <2>1, <2>2, <2>3 DEF HoldersHaveLoans
    <2>5. HoldersAreDistinct'
      BY <1>1, <1>3, <2>1 DEF HoldersAreDistinct
    <2>6. LoansHaveHolders'
      BY <1>1, <1>3, <2>1, <2>2 DEF LoansHaveHolders
    <2> QED
      BY <2>4, <2>5, <2>6
  <1> QED
    BY <1>4, <1>5 DEF OwnershipInv, ChunkOwnership

\* updateChannels begins and ends without touching channels, table or loans.
LEMMA UpdateBoundsOwnership ==
    ASSUME TypeOK, OwnershipInv,
           (\E services \in Updates : BeginUpdate(services)) \/ EndUpdate
    PROVE  OwnershipInv'
  <1>1. /\ endpointsMutex \in {Nobody, Updater} /\ endpointsMutex' \in {Nobody, Updater}
        /\ UNCHANGED <<endpoints, segmentedMessages, msgToRelease, loanedBy, thread, orphaned>>
    BY DEF BeginUpdate, EndUpdate, channelVars, updateVars, memoryVars
  <1>2. MutualExclusion'
    BY <1>1, DistinctAssumption DEF OwnershipInv, MutualExclusion
  <1> QED
    BY <1>1, <1>2
       DEF OwnershipInv, ChannelsDistinct, CallbackInChannel, TableNamesLiveChannel,
           ChunkOwnership, HoldersHaveLoans, HoldersAreDistinct, LoansHaveHolders, Holds,
           WriteTargetLoaned, Critical, Active, Channel, Hash, Entries

\* setupChannel: no callback is inside a channel, no table entry and no timed
\* out message names the service that gets its publisher.
LEMMA SetupChannelOwnership ==
    ASSUME TypeOK, OwnershipInv, UpdateInv, NEW s \in Services, SetupChannel(s)
    PROVE  OwnershipInv'
  <1> USE DistinctAssumption
  <1>1. PICK p \in Publishers \ AlivePublishers : endpoints' = [endpoints EXCEPT ![s] = p]
    BY RoomForChannel DEF SetupChannel, AddChannel
  <1>2. /\ endpoints[s] = NoPublisher /\ endpointsMutex = Updater
        /\ UNCHANGED <<endpointsMutex, segmentedMessages, msgToRelease, loanedBy, thread,
                       orphaned>>
    BY DEF SetupChannel, UpdateInv, Active, memoryVars
  <1>3. /\ endpoints'[s] = p /\ p # NoPublisher
        /\ \A r \in Services \ {s} : endpoints'[r] = endpoints[r] /\ endpoints[r] # p
    BY <1>1, <1>2 DEF TypeOK, AlivePublishers, Active
  <1>4. \A u \in Threads : thread[u].pc \notin Critical
    BY <1>2 DEF OwnershipInv, MutualExclusion
  <1>5. /\ \A e \in segmentedMessages : e.hash \in Messages /\ ServiceOf[e.hash] \in Services
        /\ msgToRelease # NoMessage =>
              ServiceOf[msgToRelease.hash] \in Services /\ msgToRelease.publisher \in Publishers
    BY ConstantsAssumption DEF TypeOK, SegmentedMessage
  <1>6. MutualExclusion' /\ CallbackInChannel' /\ WriteTargetLoaned'
    BY <1>2, <1>4
       DEF OwnershipInv, MutualExclusion, CallbackInChannel, WriteTargetLoaned, Critical
  <1>7. ChannelsDistinct'
    BY <1>3 DEF OwnershipInv, ChannelsDistinct, Active
  <1>8. TableNamesLiveChannel'
    BY <1>2, <1>3, <1>5 DEF OwnershipInv, TableNamesLiveChannel, Channel
  <1>9. ChunkOwnership'
    BY <1>2, <1>3, <1>5
       DEF OwnershipInv, ChunkOwnership, HoldersHaveLoans, HoldersAreDistinct,
           LoansHaveHolders, Holds, Channel
  <1> QED
    BY <1>6, <1>7, <1>8, <1>9 DEF OwnershipInv

\* deleteChannel: the entries of the channel leave the table together with the
\* loans of its publisher.  A timed out message of the channel stays behind:
\* that step makes orphaned true.
LEMMA DeleteChannelOwnership ==
    ASSUME TypeOK, OwnershipInv, UpdateInv, NEW s \in Services, DeleteChannel(s)
    PROVE  OwnershipInv'
  <1> USE DistinctAssumption
  <1> DEFINE p == endpoints[s]
  <1>1. /\ endpointsMutex = Updater /\ p \in Publishers /\ p # NoPublisher
        /\ segmentedMessages' = {e \in segmentedMessages : e.publisher # p}
        /\ endpoints' = [endpoints EXCEPT ![s] = NoPublisher]
        /\ UNCHANGED <<endpointsMutex, msgToRelease, thread>>
    BY DEF DeleteChannel, UpdateInv, Active, TypeOK
  <1>2. /\ \A c \in Chunks : loanedBy[c] = p => loanedBy'[c] = NoPublisher
        /\ \A c \in Chunks : loanedBy[c] # p => loanedBy'[c] = loanedBy[c]
    BY DEF DeleteChannel
  <1>3. ~orphaned' => ~orphaned /\ (msgToRelease # NoMessage => msgToRelease.publisher # p)
    BY DEF DeleteChannel
  <1>4. /\ endpoints'[s] = NoPublisher
        /\ \A r \in Services \ {s} : endpoints'[r] = endpoints[r]
    BY <1>1 DEF TypeOK
  <1>5. \A u \in Threads : thread[u].pc \notin Critical
    BY <1>1 DEF OwnershipInv, MutualExclusion
  <1>6. \A u \in Threads : ~Holds(u) /\ ~Holds(u)'
    BY <1>1, <1>5 DEF Holds, Critical
  <1>7. /\ \A e \in segmentedMessages :
              ServiceOf[e.hash] \in Services /\ e.userPayload \in Chunks
        /\ msgToRelease # NoMessage =>
              ServiceOf[msgToRelease.hash] \in Services /\ msgToRelease.userPayload \in Chunks
    BY ConstantsAssumption DEF TypeOK, SegmentedMessage
  <1> HIDE DEF p
  <1>8. MutualExclusion' /\ CallbackInChannel' /\ WriteTargetLoaned'
    BY <1>1, <1>5
       DEF OwnershipInv, MutualExclusion, CallbackInChannel, WriteTargetLoaned, Critical
  <1>9. ChannelsDistinct'
    BY <1>4 DEF OwnershipInv, ChannelsDistinct, Active
  <1>10. TableNamesLiveChannel'
    BY <1>1, <1>4, <1>7 DEF OwnershipInv, TableNamesLiveChannel, Channel, p
  <1>11. ASSUME ~orphaned' PROVE HoldersHaveLoans' /\ HoldersAreDistinct' /\ LoansHaveHolders'
    <2>1. HoldersHaveLoans /\ HoldersAreDistinct /\ LoansHaveHolders
      BY <1>11, <1>3 DEF OwnershipInv, ChunkOwnership
    <2>2. msgToRelease # NoMessage => msgToRelease.publisher # p
      BY <1>11, <1>3
    <2>3. \A e \in segmentedMessages' : loanedBy'[e.userPayload] = e.publisher
      BY <1>1, <1>2, <1>7, <2>1 DEF HoldersHaveLoans
    <2>4. msgToRelease # NoMessage =>
             /\ loanedBy'[msgToRelease.userPayload] = msgToRelease.publisher
             /\ msgToRelease.publisher = Channel(msgToRelease.hash)'
      BY <1>1, <1>2, <1>4, <1>7, <2>1, <2>2 DEF HoldersHaveLoans, Channel, p
    <2>5. HoldersHaveLoans'
      BY <1>1, <1>6, <2>3, <2>4 DEF HoldersHaveLoans, Channel
    <2>6. HoldersAreDistinct'
      BY <1>1, <1>6, <2>1 DEF HoldersAreDistinct
    <2>7. ASSUME NEW c \in Chunks, loanedBy'[c] # NoPublisher
          PROVE  \/ \E e \in segmentedMessages' : e.userPayload = c
                 \/ msgToRelease' # NoMessage /\ msgToRelease'.userPayload = c
      <3>1. loanedBy[c] # p /\ loanedBy[c] # NoPublisher
        BY <1>2, <2>7
      <3>2. \/ \E e \in segmentedMessages : e.userPayload = c
            \/ msgToRelease # NoMessage /\ msgToRelease.userPayload = c
        BY <1>6, <2>1, <3>1 DEF LoansHaveHolders
      <3>3. \A e \in segmentedMessages : e.userPayload = c => e.publisher # p
        BY <2>1, <3>1 DEF HoldersHaveLoans
      <3> QED
        BY <1>1, <3>2, <3>3
    <2>8. LoansHaveHolders'
      BY <2>7 DEF LoansHaveHolders
    <2> QED
      BY <2>5, <2>6, <2>8
  <1> QED
    BY <1>8, <1>9, <1>10, <1>11 DEF OwnershipInv, ChunkOwnership

\* Every step keeps the inductive invariant.
LEMMA OwnershipNext == TypeOK /\ UpdateInv /\ OwnershipInv /\ [Next]_vars => OwnershipInv'
  <1> SUFFICES ASSUME TypeOK, UpdateInv, OwnershipInv, [Next]_vars PROVE OwnershipInv'
    OBVIOUS
  <1>1. CASE LoseDatagram \/ ForwarderTake \/ UNCHANGED vars
    BY <1>1, OwnershipFrame
       DEF LoseDatagram, ForwarderTake, vars, channelVars, updateVars, memoryVars
  <1>2. ASSUME NEW t \in Threads, Callback(t) PROVE OwnershipInv'
    <2>1. PICK d \in datagrams :
              \/ CallbackWithoutChannel(t, d) \/ ReceiveNextSegment(t, d)
              \/ BeginNewMessage(t, d) \/ LoanBufferAgain(t, d)
      BY <1>2 DEF Callback
    <2>2. CASE CallbackWithoutChannel(t, d)
      BY <2>2, OwnershipFrame DEF CallbackWithoutChannel, channelVars, updateVars, memoryVars
    <2> QED
      BY <2>1, <2>2, ReceiveNextSegmentOwnership, BeginNewMessageOwnership,
         LoanBufferAgainOwnership
  <1>3. ASSUME NEW t \in Threads, LoanFails(t) PROVE OwnershipInv'
    <2>1. endpointsMutex = t /\ ~Holds(t)
      BY <1>3 DEF LoanFails, OwnershipInv, MutualExclusion, Critical, Holds
    <2> QED
      BY <1>3, <2>1, CallbackEnds DEF LoanFails, channelVars, updateVars, memoryVars
  <1>4. ASSUME NEW t \in Threads, Continue(t) PROVE OwnershipInv'
    BY <1>3, <1>4, LoanOwnership, PushOwnership, WriteOwnership, PublishOwnership,
       FinishDmaOwnership DEF Continue
  <1>5. ASSUME NEW t \in Threads, ReleaseBufferIgnored(t) PROVE OwnershipInv'
    <2>1. ~Holds(t) /\ endpointsMutex = Nobody /\ endpointsMutex' = Nobody
      BY <1>5 DEF ReleaseBufferIgnored, Holds
    <2> QED
      BY <1>5, <2>1, CallbackEnds DEF ReleaseBufferIgnored, channelVars, updateVars, memoryVars
  <1>6. ASSUME NEW t \in Threads, ReleaseBuffer(t) PROVE OwnershipInv'
    BY <1>5, <1>6, ReleaseBufferFailedOwnership, ReleaseBufferFilledOwnership
       DEF ReleaseBuffer
  <1>7. CASE CheckErase \/ CheckRelease
    BY <1>7, CheckEraseOwnership, CheckReleaseOwnership
  <1>8. CASE UpdateChannels
    BY <1>8, UpdateBoundsOwnership, SetupChannelOwnership, DeleteChannelOwnership
       DEF UpdateChannels
  <1> QED
    BY <1>1, <1>2, <1>4, <1>6, <1>7, <1>8 DEF Next

\* The inductive invariant holds in every reachable state, for any number of
\* threads, services, chunks, messages and any table sizes.
THEOREM OwnershipCorrect == Spec => []OwnershipInv
  <1> QED
    BY OwnershipInit, OwnershipNext, TypeCorrectness, UpdateCorrect, PTL DEF Spec

\* No chunk that Transport2Iceoryx has loaned is leaked, released twice or
\* published twice, in any interleaving of callbacks, timeouts and updates.
THEOREM ChunksAreOwned == Spec => []ChunkOwnership
  <1>1. OwnershipInv => ChunkOwnership
    BY DEF OwnershipInv
  <1> QED
    BY <1>1, OwnershipCorrect, PTL

\* The segment table never refers to a destroyed publisher.
THEOREM TableIsLive == Spec => []TableNamesLiveChannel
  <1>1. OwnershipInv => TableNamesLiveChannel
    BY DEF OwnershipInv
  <1> QED
    BY <1>1, OwnershipCorrect, PTL

\* receive never copies a segment into a chunk whose loan has ended, but for a
\* chunk that a full table has just refused.
THEOREM WritesAreLoaned == Spec => []WriteTargetLoaned
  <1>1. OwnershipInv => WriteTargetLoaned
    BY DEF OwnershipInv
  <1> QED
    BY <1>1, OwnershipCorrect, PTL

-----------------------------------------------------------------------------
(***************************************************************************)
(* updateChannels leaves exactly the channels it was asked for.            *)
(***************************************************************************)

\* Whenever updateChannels gives the mutex back, the channels are exactly the
\* services it was given, even when the table is full before and after.
THEOREM UpdatesAreExact == Spec => UpdateIsExact
  <1>1. ASSUME OwnershipInv, UpdateInv, [Next]_vars, endpointsMutex = Updater,
               endpointsMutex' = Nobody
        PROVE  Active' = wanted
    <2> USE DistinctAssumption
    <2>1. ASSUME NEW t \in Threads, Callback(t) \/ Continue(t) \/ ReleaseBuffer(t)
          PROVE  endpointsMutex' # Nobody
      <3>1. thread[t].pc \notin Critical
        BY <1>1 DEF OwnershipInv, MutualExclusion
      <3>2. CASE Callback(t)
        BY <1>1, <3>2 DEF Callback, CallbackWithoutChannel, ReceiveNextSegment,
                          BeginNewMessage, LoanBufferAgain, EnterChannel, Delivered
      <3>3. CASE Continue(t)
        BY <1>1, <3>1, <3>3 DEF Continue, Loan, LoanFails, Push, Write, Publish, FinishDma,
                                Critical
      <3>4. CASE ReleaseBuffer(t)
        BY <1>1, <3>4 DEF ReleaseBuffer, ReleaseBufferIgnored, ReleaseBufferFailed,
                          ReleaseBufferFilled
      <3> QED
        BY <2>1, <3>2, <3>3, <3>4
    <2>2. ASSUME UpdateChannels PROVE Active' = wanted
      <3>1. EndUpdate
        BY <1>1, <2>2 DEF UpdateChannels, BeginUpdate, DeleteChannel, SetupChannel
      <3> QED
        BY <1>1, <3>1, ConstantsAssumption DEF EndUpdate, UpdateInv, Active
    <2>3. ~(\/ CheckErase \/ CheckRelease \/ LoseDatagram \/ ForwarderTake
            \/ UNCHANGED vars)
      BY <1>1 DEF CheckErase, CheckRelease, LoseDatagram, ForwarderTake, vars
    <2> QED
      BY <1>1, <2>1, <2>2, <2>3 DEF Next
  <1>2. OwnershipInv /\ UpdateInv /\ [Next]_vars
        => [endpointsMutex = Updater /\ endpointsMutex' = Nobody => Active' = wanted]_vars
    BY <1>1
  <1> QED
    BY <1>2, UpdateCorrect, OwnershipCorrect, PTL DEF Spec, UpdateIsExact

-----------------------------------------------------------------------------
(***************************************************************************)
(* What is published is complete, when transfers end in time.              *)
(***************************************************************************)

\* What transfers by DMA rely on, and the code does not see to: a transfer ends
\* before the deadline of its message, the table has room for every message, a
\* message has one segment sent by DMA (when one of two transfers fails,
\* releaseBuffer gives up the chunk that the other one fills), and channels of
\* messages sent by DMA are not deleted, and none of their segments comes
\* twice.  Without DMA this is true.
DmaInTime ==
    /\ BufferSegments # {} =>
          DeadlineCoversDma /\ Cardinality(Messages) <= MAX_SEGMENTED_MESSAGE_COUNT
    /\ \A d, f \in BufferSegments : d[1] = f[1] => d = f
    /\ \A services \in Updates, d \in BufferSegments : ServiceOf[d[1]] \in services
    /\ \A d \in BufferSegments : Once(d[1])

SegmentsWith(m) == {d \in Segments : d[1] = m}

\* The threads that are about to copy a segment into a chunk.
Writers(c) == {t \in Threads : thread[t].pc = "write" /\ thread[t].userPayload = c}

\* The threads whose transfer has not been reported yet.
Transfers == {t \in Threads : thread[t].pc \in {"dma", "report"}}

\* The segments that are neither in the chunk of an entry nor about to be, or
\* in the hands of a transfer.
Missing(e) ==
    SegmentsWith(e.hash)
        \ ((content[e.userPayload] \cup {thread[t].job : t \in Writers(e.userPayload)})
              \ {thread[t].job : t \in Transfers})

\* A segment that a callback works on does not come again, if it comes once.
JobsInv ==
    /\ \A t \in Threads : thread[t].pc # "idle" /\ thread[t].job \notin Repeated =>
          thread[t].job \notin datagrams
    /\ \A t, u \in Threads : thread[t].pc # "idle" /\ thread[u].pc # "idle"
          /\ thread[t].job = thread[u].job /\ thread[t].job \notin Repeated => t = u
    /\ \A t \in Transfers : thread[t].job \in BufferSegments
    /\ \A t \in Threads : thread[t].pc = "write" => thread[t].job \notin BufferSegments

\* An entry waits for at least as many segments as its chunk lacks, so that a
\* count that gets to zero means a full chunk.
EntriesCount ==
    \A e \in segmentedMessages :
        /\ \A t \in Writers(e.userPayload) : Hash(t) = e.hash
        /\ Once(e.hash) =>
              /\ content[e.userPayload] \subseteq SegmentsWith(e.hash) \ datagrams
              /\ Cardinality(Missing(e)) <= e.remainingSegments

\* What a callback finds in its chunk.
CallbacksFill ==
    \A t \in Threads :
        LET found == content[thread[t].userPayload]
        IN  /\ thread[t].pc = "push" => found = {}
            /\ thread[t].pc = "write" /\ thread[t].shouldPublish /\ Once(Hash(t)) =>
                  /\ found \subseteq SegmentsWith(Hash(t))
                  /\ SegmentsWith(Hash(t)) \subseteq found \cup {thread[t].job}
            /\ thread[t].pc = "publish" /\ Once(Hash(t)) => found = SegmentsWith(Hash(t))
            /\ thread[t].pc = "writeReleased" => loanedBy[thread[t].userPayload] = NoPublisher

\* A transfer goes to the chunk that its message has in the table.
TransferCovered(t) ==
    /\ \E e \in Entries(Hash(t)) :
          e.userPayload = thread[t].userPayload /\ e.publisher = thread[t].publisher
    /\ thread[t].pc = "report" /\ thread[t].shouldPublish =>
          thread[t].job \in content[thread[t].userPayload]

TransfersInv == \A t \in Transfers : TransferCovered(t)

\* CompleteInv: the inductive strengthening of PublishedComplete.
CompleteInv == JobsInv /\ (~orphaned => EntriesCount /\ CallbacksFill /\ TransfersInv)

\* A message has as many segments as its headers say.
LEMMA SegmentCount ==
    ASSUME NEW m \in Messages
    PROVE  IsFiniteSet(SegmentsWith(m)) /\ Cardinality(SegmentsWith(m)) = SegmentsOf[m]
  <1>1. SegmentsOf[m] \in Nat \ {0}
    BY ConstantsAssumption
  <1>2. SegmentsWith(m) = {m} \X (1 .. SegmentsOf[m])
    BY DEF SegmentsWith, Segments
  <1>3. IsFiniteSet(1 .. SegmentsOf[m]) /\ Cardinality(1 .. SegmentsOf[m]) = SegmentsOf[m]
    BY <1>1, FS_Interval, SMTT(30)
  <1>4. IsFiniteSet({m}) /\ Cardinality({m}) = 1
    BY FS_Singleton
  <1> QED
    BY <1>1, <1>2, <1>3, <1>4, FS_Product, SMTT(30)

\* What is missing is finite.
LEMMA MissingFinite ==
    ASSUME TypeOK, NEW e \in segmentedMessages
    PROVE  /\ IsFiniteSet(Missing(e)) /\ Cardinality(Missing(e)) \in Nat
           /\ e.hash \in Messages /\ e.userPayload \in Chunks /\ e.publisher \in Publishers
           /\ e.remainingSegments \in Nat \ {0}
  <1>1. e \in SegmentedMessage
    BY DEF TypeOK
  <1>2. /\ e.hash \in Messages /\ e.userPayload \in Chunks /\ e.publisher \in Publishers
        /\ e.remainingSegments \in Nat \ {0}
    BY <1>1 DEF SegmentedMessage
  <1>3. Missing(e) \in SUBSET SegmentsWith(e.hash)
    BY DEF Missing
  <1>4. IsFiniteSet(Missing(e))
    BY <1>2, <1>3, SegmentCount, FS_Subset
  <1> QED
    BY <1>2, <1>4, FS_CardinalityType

\* A transfer under way when the table keeps what it relies on.
LEMMA TransferKept ==
    ASSUME NEW u, TransferCovered(u), thread'[u] = thread[u],
           content[thread[u].userPayload] \subseteq content'[thread[u].userPayload],
           \A e \in Entries(Hash(u)) : \E f \in segmentedMessages' :
              /\ f.hash = e.hash /\ f.userPayload = e.userPayload
              /\ f.publisher = e.publisher
    PROVE  TransferCovered(u)'
  <1>1. Hash(u)' = Hash(u)
    BY DEF Hash
  <1>2. PICK e \in Entries(Hash(u)) :
            e.userPayload = thread[u].userPayload /\ e.publisher = thread[u].publisher
    BY DEF TransferCovered
  <1>3. PICK f \in segmentedMessages' :
            f.hash = e.hash /\ f.userPayload = e.userPayload /\ f.publisher = e.publisher
    OBVIOUS
  <1>4. f \in Entries(Hash(u))'
    BY <1>1, <1>3 DEF Entries
  <1> QED
    BY <1>2, <1>3, <1>4 DEF TransferCovered

\* The chunk of a transfer belongs to its table entry.
LEMMA TransferEntry ==
    ASSUME TransfersInv, NEW u \in Transfers
    PROVE  \E e \in segmentedMessages :
              /\ e.hash = Hash(u) /\ e.userPayload = thread[u].userPayload
              /\ e.publisher = thread[u].publisher
  BY DEF TransfersInv, TransferCovered, Entries

\* What a transfer carries comes once, and has been taken from the datagrams.
LEMMA TransferOnce ==
    ASSUME DmaInTime, JobsInv, NEW u \in Transfers
    PROVE  /\ Once(Hash(u)) /\ thread[u].job \notin Repeated
           /\ thread[u].job \notin datagrams
  BY DEF DmaInTime, JobsInv, Once, Hash, Transfers

\* Steps that neither copy a segment nor change a callback.
LEMMA CompleteFrame ==
    ASSUME TypeOK, CompleteInv, segmentedMessages' \subseteq segmentedMessages,
           \A t \in Transfers : \A e \in Entries(Hash(t)) : e \in segmentedMessages',
           UNCHANGED <<content, thread>>, datagrams' \subseteq datagrams,
           ~orphaned' => ~orphaned,
           \A c \in Chunks : loanedBy[c] = NoPublisher => loanedBy'[c] = NoPublisher
    PROVE  CompleteInv'
  <1>1. JobsInv' /\ Transfers' = Transfers
    BY DEF CompleteInv, JobsInv, Transfers
  <1>2. ASSUME ~orphaned' PROVE EntriesCount' /\ CallbacksFill' /\ TransfersInv'
    <2>1. EntriesCount /\ CallbacksFill /\ TransfersInv
      BY <1>2 DEF CompleteInv
    <2>2. \A c : Writers(c)' = Writers(c)
      BY DEF Writers
    <2>3. ASSUME NEW e PROVE Missing(e)' = Missing(e)
      BY <1>1, <2>2 DEF Missing
    <2>4. EntriesCount'
      BY <2>1, <2>2, <2>3 DEF EntriesCount, Hash
    <2>5. CallbacksFill'
      BY <2>1 DEF CallbacksFill, Hash, TypeOK, ThreadsOK
    <2>6. TransfersInv'
      BY <1>1, <2>1, TransferKept DEF TransfersInv
    <2> QED
      BY <2>4, <2>5, <2>6
  <1> QED
    BY <1>1, <1>2 DEF CompleteInv

\* A callback begins or ends: at the mutex, without a copy.
LEMMA CompleteBegins ==
    ASSUME TypeOK, OwnershipInv, CompleteInv, NEW t \in Threads,
           endpointsMutex \in {t, Nobody}, thread[t].pc # "write", t \notin Transfers,
           \A u \in Threads \ {t} : thread'[u] = thread[u],
           thread'[t].pc \in {"idle", "loan"},
           thread'[t].pc # "idle" =>
              /\ thread'[t].job \in datagrams
              /\ thread'[t].job \notin Repeated => thread'[t].job \notin datagrams',
           UNCHANGED <<content, segmentedMessages, orphaned>>, datagrams' \subseteq datagrams
    PROVE  CompleteInv'
  <1>1. \A u \in Threads \ {t} : thread[u].pc \notin Critical
    BY OthersHoldNothing
  <1>a. /\ Transfers' = Transfers /\ \A u \in Transfers : thread'[u] = thread[u]
        /\ {thread'[u].job : u \in Transfers'} = {thread[u].job : u \in Transfers}
    BY DEF Transfers
  <1>2. JobsInv'
    BY <1>a DEF CompleteInv, JobsInv
  <1>3. ASSUME ~orphaned' PROVE EntriesCount' /\ CallbacksFill' /\ TransfersInv'
    <2>1. EntriesCount /\ CallbacksFill /\ TransfersInv
      BY <1>3 DEF CompleteInv
    <2>2. \A c : Writers(c)' = {} /\ Writers(c) = {}
      BY <1>1 DEF Writers, Critical
    <2>3. ASSUME NEW e PROVE Missing(e)' = Missing(e)
      BY <1>a, <2>2 DEF Missing
    <2>4. EntriesCount'
      BY <2>1, <2>2, <2>3 DEF EntriesCount
    <2>5. CallbacksFill'
      BY <1>1 DEF CallbacksFill, Critical
    <2>6. TransfersInv'
      BY <1>a, <2>1, TransferKept DEF TransfersInv, Entries
    <2> QED
      BY <2>4, <2>5, <2>6
  <1> QED
    BY <1>2, <1>3 DEF CompleteInv

\* loan: the chunk is nobody's, and empty; a message of one segment is that
\* segment.
LEMMA LoanComplete ==
    ASSUME TypeOK, OwnershipInv, CompleteInv, NEW t \in Threads, Loan(t)
    PROVE  CompleteInv'
  <1> USE DistinctAssumption
  <1> DEFINE x == IF IsSegmented(thread[t].job) THEN "push" ELSE "write"
             flag == ~IsSegmented(thread[t].job)
  <1>a. x \in {"push", "write"} /\ (x = "write" <=> flag)
    OBVIOUS
  <1>1. PICK c \in Chunks :
            /\ loanedBy[c] = NoPublisher
            /\ content' = [content EXCEPT ![c] = {}]
            /\ thread' = [thread EXCEPT ![t] = [@ EXCEPT
                  !.pc = x, !.userPayload = c, !.shouldPublish = flag]]
    BY DEF Loan
  <1>b. x = "write" => SegmentsOf[Hash(t)] \notin Nat \ {0, 1} /\ thread[t].job \notin BufferSegments
    BY DEF IsSegmented, Hash
  <1> HIDE DEF x, flag
  <1>2. thread[t].pc = "loan" /\ UNCHANGED <<segmentedMessages, datagrams, orphaned>>
    BY DEF Loan
  <1>3. /\ thread'[t].pc = x /\ thread'[t].userPayload = c /\ thread'[t].job = thread[t].job
        /\ \A u \in Threads \ {t} : thread'[u] = thread[u]
    BY <1>1 DEF TypeOK, ThreadsOK, Locals
  <1>4. /\ content' \in [Chunks -> SUBSET Segments] /\ content'[c] = {}
        /\ \A b \in Chunks \ {c} : content'[b] = content[b]
    BY <1>1 DEF TypeOK
  <1>5. \A u \in Threads \ {t} : thread[u].pc \notin Critical
    BY <1>2, OthersHoldNothing DEF OwnershipInv, MutualExclusion, Critical
  <1>c. /\ Transfers' = Transfers /\ \A u \in Transfers : u # t /\ thread'[u] = thread[u]
        /\ {thread'[u].job : u \in Transfers'} = {thread[u].job : u \in Transfers}
    BY <1>a, <1>2, <1>3 DEF Transfers
  <1>6. JobsInv'
    BY <1>a, <1>b, <1>c, <1>2, <1>3 DEF CompleteInv, JobsInv
  <1>7. ASSUME ~orphaned' PROVE EntriesCount' /\ CallbacksFill' /\ TransfersInv'
    <2>1. EntriesCount /\ CallbacksFill /\ TransfersInv /\ HoldersHaveLoans
      BY <1>2, <1>7 DEF CompleteInv, OwnershipInv, ChunkOwnership
    <2>2. ASSUME NEW e \in segmentedMessages
          PROVE  e.userPayload \in Chunks \ {c}
      BY <1>1, <2>1, MissingFinite DEF HoldersHaveLoans
    <2>3. ASSUME NEW e \in segmentedMessages
          PROVE  Writers(e.userPayload)' = {} /\ Writers(e.userPayload) = {}
      BY <1>2, <1>3, <1>5, <2>2 DEF Writers, Critical
    <2>4. ASSUME NEW e \in segmentedMessages
          PROVE  /\ Missing(e)' = Missing(e)
                 /\ content'[e.userPayload] = content[e.userPayload]
      BY <1>4, <1>c, <2>2, <2>3 DEF Missing
    <2>5. EntriesCount'
      BY <1>2, <2>1, <2>3, <2>4 DEF EntriesCount
    <2>6. thread[t].job \in Segments
      BY <1>2 DEF TypeOK, ThreadsOK
    <2>7. Hash(t) \in Messages /\ thread[t].job \in SegmentsWith(Hash(t))
      BY <2>6, SegmentFields DEF SegmentsWith, Hash
    <2>8. x = "write" => SegmentsOf[Hash(t)] = 1
      BY <1>b, <2>7, ConstantsAssumption
    <2>9. x = "write" => SegmentsWith(Hash(t)) = {thread[t].job}
      <3>1. x = "write" => SegmentsWith(Hash(t)) = {Hash(t)} \X {1}
        BY <2>7, <2>8 DEF SegmentsWith, Segments
      <3> QED
        BY <2>7, <3>1
    <2>10. CallbacksFill'
      BY <1>a, <1>3, <1>4, <1>5, <2>9 DEF CallbacksFill, Critical, Hash
    <2>11. TransfersInv'
      <3>1. ASSUME NEW u \in Transfers
            PROVE  content[thread[u].userPayload] \subseteq content'[thread[u].userPayload]
        BY <2>1, <2>4, TransferEntry
      <3> QED
        BY <1>2, <1>c, <2>1, <3>1, TransferKept DEF TransfersInv, Entries
    <2> QED
      BY <2>5, <2>10, <2>11
  <1> QED
    BY <1>6, <1>7 DEF CompleteInv

\* A table with room for every message has room for one that is not in it.
LEMMA RoomForEntry ==
    ASSUME Cardinality(Messages) <= MAX_SEGMENTED_MESSAGE_COUNT, TypeOK, OwnershipInv,
           NEW m \in Messages, Entries(m) = {}
    PROVE  Cardinality(segmentedMessages) < MAX_SEGMENTED_MESSAGE_COUNT
  <1> DEFINE T == Messages \ {m}
             f == [e \in segmentedMessages |-> e.hash]
  <1>1. \A e \in segmentedMessages : e.hash \in T
    BY MissingFinite DEF Entries
  <1>2. f \in Injection(segmentedMessages, T)
    BY <1>1 DEF OwnershipInv, TableNamesLiveChannel, Injection, IsInjective
  <1>3. /\ IsFiniteSet(Messages) /\ IsFiniteSet(T)
        /\ Cardinality(T) = Cardinality(Messages) - 1
    BY ConstantsAssumption, FS_RemoveElement
  <1>4. Cardinality(Messages) \in Nat
    BY <1>3, FS_CardinalityType
  <1> HIDE DEF f, T
  <1>5. IsFiniteSet(segmentedMessages) /\ Cardinality(segmentedMessages) <= Cardinality(T)
    BY <1>2, <1>3, FS_Injection
  <1>6. Cardinality(segmentedMessages) \in Nat
    BY <1>5, FS_CardinalityType
  <1> QED
    BY <1>3, <1>4, <1>5, <1>6, ConstantsAssumption

\* The first segment of a message of several: it enters the table, and all
\* segments but this one are missing (this one too, when it comes by DMA); or
\* the chunk goes back.
LEMMA PushComplete ==
    ASSUME TypeOK, OwnershipInv, CompleteInv, DmaInTime, NEW t \in Threads, Push(t)
    PROVE  CompleteInv'
  <1> USE DistinctAssumption
  <1> DEFINE c == thread[t].userPayload
             p == thread[t].publisher
             d == thread[t].job
  <1>0. PICK n : n = NewEntry(t)
    OBVIOUS
  <1>1. /\ thread[t].pc = "push" /\ c \in Chunks /\ p \in Publishers
        /\ n.hash = Hash(t) /\ n.userPayload = c /\ n.publisher = p
        /\ n.remainingSegments = IF d \in BufferSegments THEN SegmentsOf[Hash(t)]
                                 ELSE SegmentsOf[Hash(t)] - 1
        /\ d \in Segments
        /\ UNCHANGED <<content, datagrams, orphaned>>
    BY <1>0 DEF Push, TypeOK, ThreadsOK, NewEntry
  <1>7. Hash(t) \in Messages /\ d \in SegmentsWith(Hash(t)) /\ Entries(Hash(t)) = {}
    BY <1>1, SegmentFields
       DEF SegmentsWith, Hash, OwnershipInv, CallbackInChannel, Critical
  <1>2. PICK x \in {"write", "writeReleased", "dma"} :
            /\ thread' = [thread EXCEPT ![t].pc = x]
            /\ x = "dma" <=> d \in BufferSegments
            /\ \/ /\ segmentedMessages' = segmentedMessages \cup {n}
                  /\ x # "writeReleased"
                  /\ loanedBy' = loanedBy
               \/ /\ segmentedMessages' = segmentedMessages
                  /\ loanedBy' = EndLoan(p, c)
                  /\ x = "writeReleased"
    <2>1. CASE d \in BufferSegments
      <3>1. Cardinality(segmentedMessages) < MAX_SEGMENTED_MESSAGE_COUNT
        BY <1>7, <2>1, RoomForEntry DEF DmaInTime
      <3> QED
        BY <1>0, <2>1, <3>1 DEF Push
    <2>2. CASE d \notin BufferSegments
      BY <1>0, <2>2 DEF Push
    <2> QED
      BY <2>1, <2>2
  <1>3. /\ thread'[t].pc = x /\ thread'[t].userPayload = c
        /\ thread'[t].job = d /\ thread'[t].publisher = p
        /\ thread'[t].shouldPublish = thread[t].shouldPublish
        /\ \A u \in Threads \ {t} : thread'[u] = thread[u]
    BY <1>2 DEF TypeOK, ThreadsOK, Locals
  <1>4. ~thread[t].shouldPublish /\ Holds(t)
    BY <1>1 DEF OwnershipInv, CallbackInChannel, Critical, Holds
  <1>5. \A u \in Threads \ {t} : thread[u].pc \notin Critical
    BY <1>1, OthersHoldNothing DEF OwnershipInv, MutualExclusion, Critical
  <1>a. /\ t \notin Transfers /\ \A u \in Transfers : u \in Threads \ {t} /\ thread'[u] = thread[u]
        /\ Transfers' = IF x = "dma" THEN Transfers \cup {t} ELSE Transfers
    BY <1>1, <1>2, <1>3 DEF Transfers
  <1>b. {thread'[u].job : u \in Transfers'}
           = {thread[u].job : u \in Transfers} \cup (IF x = "dma" THEN {d} ELSE {})
    BY <1>3, <1>a
  <1>6. JobsInv'
    BY <1>1, <1>2, <1>3, <1>a DEF CompleteInv, JobsInv
  <1> HIDE DEF p, d
  <1>8. ASSUME ~orphaned' PROVE EntriesCount' /\ CallbacksFill' /\ TransfersInv'
    <2>1. /\ EntriesCount /\ CallbacksFill /\ HoldersAreDistinct /\ TransfersInv
          /\ content[c] = {} /\ loanedBy[c] = p
      BY <1>1, <1>4, <1>8
         DEF CompleteInv, OwnershipInv, ChunkOwnership, HoldersHaveLoans, CallbacksFill, p
    <2>2. ASSUME NEW e \in segmentedMessages PROVE e.userPayload # c /\ e.hash # Hash(t)
      BY <1>4, <1>7, <2>1 DEF HoldersAreDistinct, Entries
    <2>3. Writers(n.userPayload)' = IF x = "write" THEN {t} ELSE {}
      BY <1>1, <1>2, <1>3, <1>5 DEF Writers, Critical
    <2>4. ASSUME NEW e \in segmentedMessages
          PROVE  Writers(e.userPayload)' = {} /\ Writers(e.userPayload) = {}
      BY <1>1, <1>3, <1>5, <2>2 DEF Writers, Critical
    <2>5. ASSUME NEW e \in segmentedMessages PROVE Missing(e)' = Missing(e)
      <3>1. d \notin SegmentsWith(e.hash)
        BY <1>7, <2>2 DEF SegmentsWith
      <3> QED
        BY <1>1, <1>b, <2>4, <3>1 DEF Missing
    <2>6. ASSUME x # "writeReleased"
          PROVE  Missing(n)' = IF x = "write" THEN SegmentsWith(Hash(t)) \ {d}
                               ELSE SegmentsWith(Hash(t))
      <3>1. d \notin {thread[u].job : u \in Transfers}
        BY <1>1, <1>a, TransferOnce DEF CompleteInv, JobsInv, Transfers, d
      <3>2. SegmentsWith(n.hash)' = SegmentsWith(Hash(t)) /\ content'[n.userPayload] = {}
        BY <1>1, <2>1 DEF SegmentsWith
      <3>3. CASE x = "write"
        BY <1>3, <1>b, <2>3, <3>1, <3>2, <3>3 DEF Missing
      <3>4. CASE x = "dma"
        BY <1>b, <2>3, <3>2, <3>4 DEF Missing
      <3> QED
        BY <1>2, <2>6, <3>3, <3>4
    <2>7. /\ Cardinality(SegmentsWith(Hash(t)) \ {d}) = SegmentsOf[Hash(t)] - 1
          /\ Cardinality(SegmentsWith(Hash(t))) = SegmentsOf[Hash(t)]
      BY <1>7, SegmentCount, FS_RemoveElement
    <2>8. SegmentsOf[Hash(t)] \in Nat
      BY <1>7, ConstantsAssumption
    <2>9. ASSUME x # "writeReleased"
          PROVE  /\ content'[n.userPayload] \subseteq SegmentsWith(n.hash) \ datagrams'
                 /\ \A u \in Writers(n.userPayload)' : Hash(u)' = n.hash
                 /\ Cardinality(Missing(n)') <= n.remainingSegments
      <3>1. content'[n.userPayload] = {}
        BY <1>1, <2>1
      <3>2. Hash(t)' = n.hash
        BY <1>1, <1>3 DEF Hash, d
      <3>3. Cardinality(Missing(n)') = n.remainingSegments
        BY <1>1, <1>2, <2>6, <2>7, <2>9
      <3>4. n.remainingSegments \in Int
        BY <1>1, <2>8
      <3> QED
        BY <2>3, <2>9, <3>1, <3>2, <3>3, <3>4
    <2>10. \A e \in segmentedMessages' : e \in segmentedMessages \/ (e = n /\ x # "writeReleased")
      BY <1>2
    <2>11. EntriesCount'
      BY <1>1, <2>1, <2>4, <2>5, <2>9, <2>10 DEF EntriesCount, SegmentsWith
    <2>12. x = "writeReleased" => loanedBy'[c] = NoPublisher
      BY <1>1, <1>2, <2>1, EndLoanEffect
    <2>13. CallbacksFill'
      BY <1>2, <1>3, <1>4, <1>5, <2>12 DEF CallbacksFill, Critical
    <2>14. x = "dma" => TransferCovered(t)'
      BY <1>1, <1>2, <1>3 DEF TransferCovered, Entries, Hash, d
    <2>15. TransfersInv'
      <3>1. ASSUME NEW u \in Transfers PROVE TransferCovered(u)'
        BY <1>1, <1>2, <1>a, <2>1, TransferKept DEF TransfersInv, Entries
      <3> QED
        BY <1>a, <2>14, <3>1 DEF TransfersInv
    <2> QED
      BY <2>11, <2>13, <2>15
  <1> QED
    BY <1>6, <1>8 DEF CompleteInv

\* The copy: what was about to be in the chunk is in it.
LEMMA WriteComplete ==
    ASSUME TypeOK, OwnershipInv, CompleteInv, NEW t \in Threads, Write(t)
    PROVE  CompleteInv'
  <1> USE DistinctAssumption
  <1>0. PICK c, d : c = thread[t].userPayload /\ d = thread[t].job
    OBVIOUS
  <1>1. /\ thread[t].pc \in {"write", "writeReleased"} /\ c \in Chunks
        /\ d \in Segments /\ Hash(t) = d[1]
        /\ content' = [content EXCEPT ![c] = @ \cup {d}]
        /\ UNCHANGED <<segmentedMessages, datagrams, loanedBy, orphaned>>
    BY <1>0 DEF Write, TakeNext, TypeOK, ThreadsOK, Hash
  <1>2. /\ content'[c] = content[c] \cup {d}
        /\ \A b \in Chunks \ {c} : content'[b] = content[b]
    BY <1>1 DEF TypeOK
  <1>3. /\ thread[t].pc = "writeReleased" => ~thread[t].shouldPublish
        /\ thread[t].pc = "write" /\ thread[t].shouldPublish => Holds(t)
        /\ d \notin Repeated => d \notin datagrams
    BY <1>0, <1>1
       DEF OwnershipInv, CallbackInChannel, Critical, Holds, CompleteInv, JobsInv
  <1>4. PICK x \in {"idle", "publish"} :
            /\ thread'[t].pc = x /\ (x = "publish" <=> thread[t].shouldPublish)
            /\ x = "publish" => thread'[t].userPayload = c /\ thread'[t].job = d
            /\ \A u \in Threads \ {t} : thread'[u] = thread[u]
    <2>1. CASE thread[t].shouldPublish
      <3>1. thread' = [thread EXCEPT ![t].pc = "publish"]
        BY <2>1 DEF Write
      <3>2. /\ thread'[t].pc = "publish" /\ thread'[t].userPayload = c /\ thread'[t].job = d
            /\ \A u \in Threads \ {t} : thread'[u] = thread[u]
        BY <1>0, <3>1 DEF TypeOK, ThreadsOK, Locals
      <3> QED
        BY <2>1, <3>2
    <2>2. CASE ~thread[t].shouldPublish
      BY <2>2 DEF Write, TypeOK, ThreadsOK, Idle
    <2> QED
      BY <2>1, <2>2
  <1>5. \A u \in Threads \ {t} : thread[u].pc \notin Critical
    BY <1>1, OthersHoldNothing DEF OwnershipInv, MutualExclusion, Critical
  <1>a. /\ Transfers' = Transfers /\ \A u \in Transfers : u # t /\ thread'[u] = thread[u]
        /\ {thread'[u].job : u \in Transfers'} = {thread[u].job : u \in Transfers}
    BY <1>1, <1>4 DEF Transfers
  <1>6. JobsInv'
    BY <1>0, <1>1, <1>3, <1>4, <1>a DEF CompleteInv, JobsInv
  <1>7. ASSUME ~orphaned' PROVE EntriesCount' /\ CallbacksFill' /\ TransfersInv'
    <2>1. /\ EntriesCount /\ CallbacksFill /\ TransfersInv
          /\ HoldersAreDistinct /\ HoldersHaveLoans
      BY <1>1, <1>7 DEF CompleteInv, OwnershipInv, ChunkOwnership
    <2>2. \A b : Writers(b)' = {}
      BY <1>4, <1>5 DEF Writers, Critical
    <2>3. ASSUME NEW e \in segmentedMessages, e.userPayload = c
          PROVE  Writers(c) = {t} /\ Hash(t) = e.hash
      <3>1. thread[t].pc # "writeReleased"
        BY <1>0, <2>1, <2>3, MissingFinite DEF CallbacksFill, HoldersHaveLoans
      <3>2. Writers(c) = {t}
        BY <1>0, <1>1, <1>5, <3>1 DEF Writers, Critical
      <3> QED
        BY <2>1, <2>3, <3>2 DEF EntriesCount
    <2>4. ASSUME NEW e \in segmentedMessages, e.userPayload # c
          PROVE  Writers(e.userPayload) = {}
      BY <1>0, <1>5, <2>4 DEF Writers, Critical
    <2>5. ASSUME NEW e \in segmentedMessages
          PROVE  /\ Missing(e)' = Missing(e)
                 /\ Once(e.hash) =>
                       content'[e.userPayload] \subseteq SegmentsWith(e.hash) \ datagrams'
      <3>1. Once(e.hash) => content[e.userPayload] \subseteq SegmentsWith(e.hash) \ datagrams
        BY <2>1 DEF EntriesCount
      <3>2. CASE e.userPayload = c
        <4>1. Writers(e.userPayload) = {t} /\ d \in SegmentsWith(e.hash)
          BY <1>1, <2>3, <3>2 DEF SegmentsWith
        <4>2. Missing(e)' = Missing(e)
          BY <1>0, <1>2, <1>a, <2>2, <3>2, <4>1 DEF Missing
        <4> QED
          BY <1>1, <1>2, <1>3, <3>1, <3>2, <4>1, <4>2 DEF Once, SegmentsWith
      <3>3. CASE e.userPayload # c
        <4>1. content'[e.userPayload] = content[e.userPayload]
          BY <1>2, <3>3, MissingFinite
        <4>2. Missing(e)' = Missing(e)
          BY <1>a, <2>2, <2>4, <3>3, <4>1 DEF Missing
        <4> QED
          BY <1>1, <3>1, <4>1, <4>2
      <3> QED
        BY <3>2, <3>3
    <2>6. EntriesCount'
      BY <1>1, <2>1, <2>2, <2>5 DEF EntriesCount
    <2>7. thread[t].shouldPublish /\ Once(d[1]) => content'[c] = SegmentsWith(d[1])
      BY <1>0, <1>1, <1>2, <1>3, <2>1 DEF CallbacksFill, SegmentsWith
    <2>8. CallbacksFill'
      BY <1>4, <1>5, <2>7 DEF CallbacksFill, Critical, Hash
    <2>9. ASSUME NEW u \in Transfers PROVE TransferCovered(u)'
      <3>1. content[thread[u].userPayload] \subseteq content'[thread[u].userPayload]
        BY <1>2, <2>1, TransferEntry, MissingFinite
      <3> QED
        BY <1>1, <1>a, <2>1, <3>1, TransferKept DEF TransfersInv, Entries
    <2> QED
      BY <1>a, <2>6, <2>8, <2>9 DEF TransfersInv
  <1> QED
    BY <1>6, <1>7 DEF CompleteInv

\* A further segment was missing; when one was waited for, it is the last one.
LEMMA ReceiveNextSegmentComplete ==
    ASSUME TypeOK, OwnershipInv, CompleteInv, DmaInTime,
           NEW t \in Threads, NEW d \in datagrams, ReceiveNextSegment(t, d)
    PROVE  CompleteInv'
  <1> USE DistinctAssumption
  <1>1. PICK e \in Entries(d[1]) :
            /\ segmentedMessages' = Decremented(e)
            /\ thread' = [thread EXCEPT ![t] =
                  [pc |-> "write", job |-> d, publisher |-> Channel(d[1]),
                   userPayload |-> e.userPayload,
                   shouldPublish |-> e.remainingSegments = 1]]
    BY DEF ReceiveNextSegment
  <1>2. /\ endpointsMutex = Nobody /\ thread[t].pc = "idle"
        /\ datagrams' \subseteq datagrams /\ (d \notin Repeated => d \notin datagrams')
        /\ UNCHANGED <<content, orphaned>>
    BY DEF ReceiveNextSegment, EnterChannel, Delivered, memoryVars
  <1>3. /\ thread'[t].pc = "write" /\ thread'[t].job = d
        /\ thread'[t].userPayload = e.userPayload
        /\ thread'[t].shouldPublish <=> e.remainingSegments = 1
        /\ \A u \in Threads \ {t} : thread'[u] = thread[u]
    BY <1>1 DEF TypeOK, ThreadsOK
  <1>4. e \in segmentedMessages /\ e.hash = d[1] /\ d \in SegmentsWith(e.hash)
    BY <1>1 DEF Entries, TypeOK, SegmentsWith
  <1>5. \A u \in Threads : thread[u].pc \notin Critical
    BY <1>2, OthersHoldNothing DEF Critical
  <1>a. /\ Transfers' = Transfers /\ \A u \in Transfers : u # t /\ thread'[u] = thread[u]
        /\ {thread'[u].job : u \in Transfers'} = {thread[u].job : u \in Transfers}
    BY <1>2, <1>3 DEF Transfers
  <1>b. d \notin BufferSegments /\ d \notin {thread[u].job : u \in Transfers}
    BY TransferOnce DEF ReceiveNextSegment, CompleteInv
  <1>6. JobsInv'
    BY <1>2, <1>3, <1>a, <1>b DEF CompleteInv, JobsInv
  <1>7. ASSUME ~orphaned' PROVE EntriesCount' /\ CallbacksFill' /\ TransfersInv'
    <2>1. EntriesCount /\ TransfersInv /\ HoldersAreDistinct
      BY <1>2, <1>7 DEF CompleteInv, OwnershipInv, ChunkOwnership
    <2>2. \A b : Writers(b) = {}
      BY <1>5 DEF Writers, Critical
    <2>3. /\ Missing(e) = SegmentsWith(e.hash)
                             \ (content[e.userPayload] \ {thread[u].job : u \in Transfers})
          /\ Once(e.hash) => d \in Missing(e)
      BY <1>4, <2>1, <2>2 DEF EntriesCount, Missing
    <2>4. /\ IsFiniteSet(Missing(e)) /\ Cardinality(Missing(e)) \in Nat
          /\ e.remainingSegments \in Nat \ {0}
          /\ Once(e.hash) => Cardinality(Missing(e)) <= e.remainingSegments
      BY <1>4, <2>1, MissingFinite DEF EntriesCount
    <2>5. ASSUME Once(e.hash)
          PROVE  /\ IsFiniteSet(Missing(e) \ {d})
                 /\ Cardinality(Missing(e) \ {d}) = Cardinality(Missing(e)) - 1
      BY <2>3, <2>4, <2>5, FS_RemoveElement
    <2>6. ASSUME e.remainingSegments = 1, Once(e.hash)
          PROVE  /\ SegmentsWith(e.hash) \subseteq content[e.userPayload] \cup {d}
                 /\ \A u \in Transfers : Hash(u) # e.hash
      <3>1. Cardinality(Missing(e) \ {d}) = 0
        BY <2>4, <2>5, <2>6, FS_CardinalityType
      <3>2. Missing(e) \ {d} = {}
        BY <2>5, <2>6, <3>1, FS_EmptySet
      <3>3. ASSUME NEW u \in Transfers, Hash(u) = e.hash PROVE FALSE
        <4>1. thread[u].job \in SegmentsWith(e.hash)
          BY <3>3 DEF Transfers, TypeOK, ThreadsOK, SegmentsWith, Hash
        <4> QED
          BY <1>b, <2>3, <3>2, <4>1
      <3> QED
        BY <2>3, <3>2, <3>3
    <2>7. ASSUME NEW g \in segmentedMessages \ {e}
          PROVE  /\ Writers(g.userPayload)' = {} /\ Missing(g)' = Missing(g)
      <3>1. g.userPayload # e.userPayload
        BY <1>4, <2>1 DEF HoldersAreDistinct
      <3>2. Writers(g.userPayload)' = {}
        BY <1>3, <1>5, <3>1 DEF Writers, Critical
      <3> QED
        BY <1>2, <1>a, <2>2, <3>2 DEF Missing
    <2>8. PICK f : /\ segmentedMessages' \subseteq (segmentedMessages \ {e}) \cup {f}
                   /\ f \in segmentedMessages' => f.remainingSegments = e.remainingSegments - 1
                   /\ f.hash = e.hash /\ f.userPayload = e.userPayload
                   /\ f.publisher = e.publisher
                   /\ e.remainingSegments # 1 => f \in segmentedMessages'
                   /\ segmentedMessages \ {e} \subseteq segmentedMessages'
      BY <1>1, <1>4, DecrementedFields
    <2>9. Writers(f.userPayload)' = {t}
      BY <1>3, <1>5, <2>8 DEF Writers, Critical
    <2>10. Missing(f)' = Missing(e) \ {d}
      BY <1>2, <1>3, <1>a, <1>b, <2>3, <2>8, <2>9 DEF Missing, SegmentsWith
    <2>11. /\ Once(f.hash) =>
                 content'[f.userPayload] \subseteq SegmentsWith(f.hash) \ datagrams'
           /\ \A u \in Writers(f.userPayload)' : Hash(u)' = f.hash
      BY <1>2, <1>3, <1>4, <2>1, <2>8, <2>9 DEF EntriesCount, Hash
    <2>12. f \in segmentedMessages' /\ Once(f.hash) => Cardinality(Missing(f)') <= f.remainingSegments
      BY <2>4, <2>5, <2>8, <2>10
    <2>13. EntriesCount'
      BY <1>2, <2>1, <2>7, <2>8, <2>11, <2>12 DEF EntriesCount, SegmentsWith
    <2>14. Once(e.hash) => content[e.userPayload] \subseteq SegmentsWith(e.hash)
      BY <1>4, <2>1 DEF EntriesCount
    <2>15. CallbacksFill'
      BY <1>2, <1>3, <1>4, <1>5, <2>6, <2>14 DEF CallbacksFill, Critical, Hash, SegmentsWith
    <2>16. ASSUME NEW u \in Transfers PROVE TransferCovered(u)'
      <3>1. ASSUME NEW g \in Entries(Hash(u))
            PROVE  \E h \in segmentedMessages' :
                      /\ h.hash = g.hash /\ h.userPayload = g.userPayload
                      /\ h.publisher = g.publisher
        BY <2>6, <2>8, TransferOnce DEF Entries, CompleteInv
      <3> QED
        BY <1>2, <1>a, <2>1, <3>1, TransferKept DEF TransfersInv
    <2> QED
      BY <1>a, <2>13, <2>15, <2>16 DEF TransfersInv
  <1> QED
    BY <1>6, <1>7 DEF CompleteInv

\* A message has one transfer at a time.
LEMMA TransferUnique ==
    ASSUME DmaInTime, JobsInv, NEW t \in Transfers, NEW u \in Transfers, Hash(t) = Hash(u)
    PROVE  t = u
  <1>1. thread[t].job = thread[u].job
    BY DEF DmaInTime, JobsInv, Hash
  <1> QED
    BY <1>1, TransferOnce DEF JobsInv, Transfers

\* What the entry of a transfer that is over is to the table.
LEMMA TransferJob ==
    ASSUME TypeOK, OwnershipInv, TransfersInv, NEW t \in Transfers,
           NEW e \in Entries(Hash(t))
    PROVE  /\ e \in segmentedMessages /\ e.hash = Hash(t)
           /\ e.userPayload = thread[t].userPayload /\ e.publisher = thread[t].publisher
           /\ thread[t].job \in SegmentsWith(e.hash)
           /\ \A g \in segmentedMessages \ {e} :
                 g.hash # e.hash /\ thread[t].job \notin SegmentsWith(g.hash)
  <1>1. e \in segmentedMessages /\ e.hash = Hash(t)
    BY DEF Entries
  <1>2. \A g \in segmentedMessages \ {e} : g.hash # e.hash
    BY <1>1 DEF OwnershipInv, TableNamesLiveChannel
  <1>3. e.userPayload = thread[t].userPayload /\ e.publisher = thread[t].publisher
    BY <1>1, <1>2, TransferEntry
  <1>4. thread[t].job \in SegmentsWith(e.hash)
    BY <1>1 DEF Transfers, TypeOK, ThreadsOK, SegmentsWith, Hash
  <1> QED
    BY <1>1, <1>2, <1>3, <1>4 DEF SegmentsWith

\* loanBuffer finds the message in the table: its segment was missing, and is
\* until it is reported.
LEMMA LoanBufferAgainComplete ==
    ASSUME TypeOK, OwnershipInv, CompleteInv, DmaInTime,
           NEW t \in Threads, NEW d \in datagrams, LoanBufferAgain(t, d)
    PROVE  CompleteInv'
  <1> USE DistinctAssumption
  <1>1. PICK e \in Entries(d[1]) : thread' = [thread EXCEPT ![t] =
            [pc |-> "dma", job |-> d, publisher |-> Channel(d[1]),
             userPayload |-> e.userPayload, shouldPublish |-> FALSE]]
    BY DEF LoanBufferAgain
  <1>2. /\ endpointsMutex = Nobody /\ thread[t].pc = "idle" /\ d \in BufferSegments
        /\ datagrams' = datagrams \ {d}
        /\ UNCHANGED <<content, orphaned, segmentedMessages, loanedBy>>
    BY DEF LoanBufferAgain, EnterChannel, Delivered, memoryVars, DmaInTime, Once
  <1>3. /\ thread'[t].pc = "dma" /\ thread'[t].job = d /\ thread'[t].publisher = Channel(d[1])
        /\ thread'[t].userPayload = e.userPayload
        /\ \A u \in Threads \ {t} : thread'[u] = thread[u]
    BY <1>1 DEF TypeOK, ThreadsOK
  <1>4. /\ Transfers' = Transfers \cup {t}
        /\ \A u \in Transfers : u \in Threads \ {t} /\ thread'[u] = thread[u]
    BY <1>2, <1>3 DEF Transfers
  <1>5. {thread'[u].job : u \in Transfers'} = {thread[u].job : u \in Transfers} \cup {d}
    BY <1>3, <1>4
  <1>6. JobsInv'
    BY <1>2, <1>3, <1>4 DEF CompleteInv, JobsInv
  <1>7. ASSUME ~orphaned' PROVE EntriesCount' /\ CallbacksFill' /\ TransfersInv'
    <2>1. EntriesCount /\ CallbacksFill /\ TransfersInv
      BY <1>2, <1>7 DEF CompleteInv
    <2>2. \A u \in Threads : thread[u].pc \notin Critical
      BY <1>2, OthersHoldNothing DEF Critical
    <2>3. \A b : Writers(b) = {} /\ Writers(b)' = {}
      BY <1>3, <2>2 DEF Writers, Critical
    <2>4. ASSUME NEW g \in segmentedMessages PROVE Missing(g)' = Missing(g)
      <3>1. d \notin content[g.userPayload] \/ d \notin SegmentsWith(g.hash)
        BY <1>2, <2>1 DEF EntriesCount, DmaInTime, SegmentsWith
      <3> QED
        BY <1>2, <1>5, <2>3, <3>1 DEF Missing
    <2>5. EntriesCount'
      BY <1>2, <2>1, <2>3, <2>4 DEF EntriesCount
    <2>6. CallbacksFill'
      BY <1>3, <2>2 DEF CallbacksFill, Critical
    <2>7. ASSUME NEW u \in Transfers PROVE TransferCovered(u)'
      BY <1>2, <1>4, <2>1, TransferKept DEF TransfersInv, Entries
    <2>8. TransferCovered(t)'
      <3>1. e \in segmentedMessages /\ e.hash = d[1] /\ e.publisher = Channel(d[1])
        BY <1>1 DEF Entries, OwnershipInv, TableNamesLiveChannel
      <3> QED
        BY <1>2, <1>3, <3>1 DEF TransferCovered, Entries, Hash
    <2> QED
      BY <1>4, <2>5, <2>6, <2>7, <2>8 DEF TransfersInv
  <1> QED
    BY <1>6, <1>7 DEF CompleteInv

\* A transfer that ends well fills a chunk that belongs to its entry only.
LEMMA FinishDmaComplete ==
    ASSUME TypeOK, OwnershipInv, CompleteInv, DmaInTime, NEW t \in Threads, FinishDma(t)
    PROVE  CompleteInv'
  <1> USE DistinctAssumption
  <1>0. PICK c, d : c = thread[t].userPayload /\ d = thread[t].job
    OBVIOUS
  <1>1. /\ thread[t].pc = "dma" /\ c \in Chunks /\ d \in Segments /\ t \in Transfers
        /\ UNCHANGED <<segmentedMessages, datagrams, loanedBy, orphaned>>
    BY <1>0 DEF FinishDma, TypeOK, ThreadsOK, Transfers
  <1>2. /\ thread'[t].pc = "report" /\ thread'[t].userPayload = c /\ thread'[t].job = d
        /\ thread'[t].publisher = thread[t].publisher
        /\ \A u \in Threads \ {t} : thread'[u] = thread[u]
        /\ thread'[t].shouldPublish => content' = [content EXCEPT ![c] = @ \cup {d}]
        /\ ~thread'[t].shouldPublish => content' = content
    <2>1. CASE /\ TakeNext(t)
               /\ thread' = [thread EXCEPT ![t] =
                                [@ EXCEPT !.pc = "report", !.shouldPublish = TRUE]]
      BY <1>0, <2>1 DEF TakeNext, TypeOK, ThreadsOK, Locals
    <2>2. CASE /\ thread' = [thread EXCEPT ![t] =
                                [@ EXCEPT !.pc = "report", !.shouldPublish = FALSE]]
               /\ UNCHANGED content
      BY <1>0, <2>2 DEF TypeOK, ThreadsOK, Locals
    <2> QED
      BY <2>1, <2>2 DEF FinishDma
  <1>3. /\ content'[c] \subseteq content[c] \cup {d} /\ content[c] \subseteq content'[c]
        /\ thread'[t].shouldPublish => d \in content'[c]
        /\ \A b \in Chunks \ {c} : content'[b] = content[b]
    BY <1>1, <1>2 DEF TypeOK
  <1>4. /\ Transfers' = Transfers
        /\ {thread'[u].job : u \in Transfers'} = {thread[u].job : u \in Transfers}
    BY <1>0, <1>1, <1>2 DEF Transfers
  <1>5. JobsInv'
    <2>1. \A u \in Threads : /\ thread'[u].job = thread[u].job
                             /\ thread'[u].pc = "idle" <=> thread[u].pc = "idle"
                             /\ thread'[u].pc = "write" <=> thread[u].pc = "write"
      BY <1>0, <1>1, <1>2
    <2>2. Transfers \subseteq Threads
      BY DEF Transfers
    <2> QED
      BY <1>1, <1>4, <2>1, <2>2, SMTT(20) DEF CompleteInv, JobsInv
  <1>6. ASSUME ~orphaned' PROVE EntriesCount' /\ CallbacksFill' /\ TransfersInv'
    <2>1. EntriesCount /\ CallbacksFill /\ TransfersInv /\ HoldersAreDistinct
      BY <1>1, <1>6 DEF CompleteInv, OwnershipInv, ChunkOwnership
    <2>2. PICK e \in segmentedMessages : e.hash = Hash(t) /\ e.userPayload = c
      BY <1>0, <1>1, <2>1, TransferEntry
    <2>3. /\ d \in SegmentsWith(e.hash) \ datagrams
          /\ d \in {thread[u].job : u \in Transfers}
      BY <1>0, <1>1, <2>2, TransferOnce DEF SegmentsWith, Hash, CompleteInv
    <2>4. \A g \in segmentedMessages \ {e} : g.userPayload \in Chunks \ {c}
      BY <2>1, <2>2, MissingFinite DEF HoldersAreDistinct
    <2>5. \A b : Writers(b)' = Writers(b)
      BY <1>1, <1>2 DEF Writers
    <2>6. \A b : {thread'[u].job : u \in Writers(b)'} = {thread[u].job : u \in Writers(b)}
      BY <1>1, <1>2, <2>5 DEF Writers
    <2>7. ASSUME NEW g \in segmentedMessages
          PROVE  /\ Missing(g)' = Missing(g)
                 /\ Once(g.hash) =>
                       content'[g.userPayload] \subseteq SegmentsWith(g.hash) \ datagrams'
      <3>1. Once(g.hash) => content[g.userPayload] \subseteq SegmentsWith(g.hash) \ datagrams
        BY <2>1 DEF EntriesCount
      <3>2. CASE g = e
        BY <1>1, <1>3, <1>4, <2>2, <2>3, <2>6, <3>1, <3>2 DEF Missing
      <3>3. CASE g # e
        BY <1>1, <1>3, <1>4, <2>4, <2>6, <3>1, <3>3 DEF Missing
      <3> QED
        BY <3>2, <3>3
    <2>8. ASSUME NEW u \in Threads, thread[u].pc \in Critical
          PROVE  Hash(u)' = Hash(u) /\ thread'[u] = thread[u]
      BY <1>1, <1>2, <2>8 DEF Hash, Critical
    <2>9. EntriesCount'
      <3>1. \A b : \A u \in Writers(b) : Hash(u)' = Hash(u)
        BY <2>8 DEF Writers, Critical
      <3> QED
        BY <1>1, <2>1, <2>5, <2>7, <3>1 DEF EntriesCount
    <2>10. ASSUME NEW u \in Threads, Holds(u)
           PROVE  content'[thread[u].userPayload] = content[thread[u].userPayload]
      <3>1. thread[u].userPayload \in Chunks
        BY <2>10 DEF Holds, TypeOK, ThreadsOK
      <3> QED
        BY <1>3, <2>1, <2>2, <2>10, <3>1 DEF HoldersAreDistinct
    <2>11. CallbacksFill'
      <3>1. \A u \in Threads : thread'[u].pc \in Critical => thread'[u] = thread[u]
        BY <1>2 DEF Critical
      <3>2. \A u \in Threads : thread[u].pc = "publish" => Holds(u)
        BY DEF OwnershipInv, CallbackInChannel, Critical, Holds
      <3> QED
        BY <1>1, <2>1, <2>8, <2>10, <3>1, <3>2 DEF CallbacksFill, Critical, Holds
    <2>12. ASSUME NEW u \in Transfers \ {t} PROVE TransferCovered(u)'
      <3>1. content[thread[u].userPayload] \subseteq content'[thread[u].userPayload]
        BY <1>3, <2>1, TransferEntry, MissingFinite
      <3>2. thread'[u] = thread[u]
        BY <1>2 DEF Transfers
      <3> QED
        BY <1>1, <2>1, <3>1, <3>2, TransferKept DEF TransfersInv, Entries
    <2>13. TransferCovered(t)'
      BY <1>0, <1>1, <1>2, <1>3, <2>1
         DEF TransfersInv, TransferCovered, Entries, Hash
    <2> QED
      BY <1>4, <2>9, <2>11, <2>12, <2>13 DEF TransfersInv
  <1> QED
    BY <1>5, <1>6 DEF CompleteInv

\* releaseBuffer with an error: the entry goes, and no other transfer uses it.
LEMMA ReleaseBufferFailedComplete ==
    ASSUME TypeOK, OwnershipInv, CompleteInv, DmaInTime,
           NEW t \in Threads, ReleaseBufferFailed(t) \/ ReleaseBufferIgnored(t)
    PROVE  CompleteInv'
  <1> USE DistinctAssumption DEF memoryVars
  <1>1. /\ thread[t].pc = "report" /\ endpointsMutex = Nobody /\ t \in Transfers
        /\ UNCHANGED <<content, datagrams, orphaned>>
        /\ thread' = [thread EXCEPT ![t] = Idle]
    BY DEF ReleaseBufferFailed, ReleaseBufferIgnored, Transfers
  <1>2. thread'[t].pc = "idle" /\ \A u \in Threads \ {t} : thread'[u] = thread[u]
    BY <1>1 DEF TypeOK, ThreadsOK, Idle
  <1>3. Transfers' = Transfers \ {t} /\ \A u \in Transfers' : thread'[u] = thread[u]
    BY <1>2 DEF Transfers
  <1>4. JobsInv'
    BY <1>1, <1>2, <1>3 DEF CompleteInv, JobsInv
  <1>5. ASSUME ~orphaned' PROVE EntriesCount' /\ CallbacksFill' /\ TransfersInv'
    <2>1. EntriesCount /\ CallbacksFill /\ TransfersInv /\ JobsInv
      BY <1>1, <1>5 DEF CompleteInv
    <2>2. Channel(Hash(t)) # NoPublisher /\ Entries(Hash(t)) # {}
      BY <1>1, <2>1, TransferEntry DEF Entries, OwnershipInv, TableNamesLiveChannel
    <2>3. PICK e \in Entries(Hash(t)) : segmentedMessages' = segmentedMessages \ {e}
      BY <2>2 DEF ReleaseBufferFailed, ReleaseBufferIgnored
    <2>4. \A g \in segmentedMessages \ {e} :
             g.hash # Hash(t) /\ thread[t].job \notin SegmentsWith(g.hash)
      BY <1>1, <2>1, TransferJob
    <2>5. \A u \in Threads : thread[u].pc \notin Critical
      BY <1>1, OthersHoldNothing DEF Critical
    <2>6. \A b : Writers(b) = {} /\ Writers(b)' = {}
      BY <1>2, <2>5 DEF Writers, Critical
    <2>7. {thread[u].job : u \in Transfers}
             \subseteq {thread'[u].job : u \in Transfers'} \cup {thread[t].job}
          /\ {thread'[u].job : u \in Transfers'} \subseteq {thread[u].job : u \in Transfers}
      BY <1>3
    <2>8. ASSUME NEW g \in segmentedMessages' PROVE Missing(g)' = Missing(g)
      BY <1>1, <2>3, <2>4, <2>6, <2>7 DEF Missing
    <2>9. EntriesCount'
      BY <1>1, <2>1, <2>3, <2>6, <2>8 DEF EntriesCount
    <2>10. CallbacksFill'
      BY <1>2, <2>5 DEF CallbacksFill, Critical
    <2>11. ASSUME NEW u \in Transfers' PROVE TransferCovered(u)'
      <3>1. u \in Transfers /\ thread'[u] = thread[u] /\ Hash(u) # Hash(t)
        BY <1>1, <1>3, <2>1, TransferUnique
      <3>2. \A g \in Entries(Hash(u)) : g \in segmentedMessages'
        BY <2>3, <3>1 DEF Entries
      <3> QED
        BY <1>1, <2>1, <3>1, <3>2, TransferKept DEF TransfersInv
    <2> QED
      BY <2>9, <2>10, <2>11 DEF TransfersInv
  <1> QED
    BY <1>4, <1>5 DEF CompleteInv

\* releaseBuffer without an error: one segment less is missing, and with the
\* last one the chunk is full.
LEMMA ReleaseBufferFilledComplete ==
    ASSUME TypeOK, OwnershipInv, CompleteInv, DmaInTime,
           NEW t \in Threads, ReleaseBufferFilled(t)
    PROVE  CompleteInv'
  <1> USE DistinctAssumption DEF memoryVars
  <1>0. PICK d : d = thread[t].job
    OBVIOUS
  <1>1. /\ thread[t].pc = "report" /\ thread[t].shouldPublish /\ endpointsMutex = Nobody
        /\ t \in Transfers /\ UNCHANGED <<content, datagrams, orphaned>>
    BY DEF ReleaseBufferFilled, Transfers
  <1>2. PICK e \in Entries(Hash(t)) :
            /\ segmentedMessages' = Decremented(e)
            /\ thread' = IF e.remainingSegments = 1
                         THEN [thread EXCEPT ![t] = [@ EXCEPT
                                  !.pc = "publish", !.publisher = Channel(Hash(t)),
                                  !.userPayload = e.userPayload]]
                         ELSE [thread EXCEPT ![t] = Idle]
    BY DEF ReleaseBufferFilled
  <1>3. /\ thread'[t].pc = IF e.remainingSegments = 1 THEN "publish" ELSE "idle"
        /\ e.remainingSegments = 1 => thread'[t].job = d /\ thread'[t].userPayload = e.userPayload
        /\ \A u \in Threads \ {t} : thread'[u] = thread[u]
    BY <1>0, <1>2 DEF TypeOK, ThreadsOK, Locals, Idle
  <1>4. Transfers' = Transfers \ {t} /\ \A u \in Transfers' : thread'[u] = thread[u]
    BY <1>3 DEF Transfers
  <1>5. JobsInv'
    BY <1>0, <1>1, <1>3, <1>4 DEF CompleteInv, JobsInv
  <1>6. ASSUME ~orphaned' PROVE EntriesCount' /\ CallbacksFill' /\ TransfersInv'
    <2>1. EntriesCount /\ CallbacksFill /\ TransfersInv /\ JobsInv
      BY <1>1, <1>6 DEF CompleteInv
    <2>2. /\ e \in segmentedMessages /\ e.hash = Hash(t) /\ d \in SegmentsWith(e.hash)
          /\ e.userPayload = thread[t].userPayload
          /\ \A g \in segmentedMessages \ {e} :
                g.hash # e.hash /\ d \notin SegmentsWith(g.hash)
      BY <1>0, <1>1, <2>1, TransferJob
    <2>a. Once(e.hash)
      BY <1>1, <2>1, <2>2, TransferOnce
    <2>3. d \in content[e.userPayload] /\ content[e.userPayload] \subseteq SegmentsWith(e.hash)
      BY <1>0, <1>1, <2>1, <2>2, <2>a DEF TransfersInv, TransferCovered, EntriesCount
    <2>4. \A u \in Threads : thread[u].pc \notin Critical
      BY <1>1, OthersHoldNothing DEF Critical
    <2>5. \A b : Writers(b) = {} /\ Writers(b)' = {}
      BY <1>3, <2>4 DEF Writers, Critical
    <2>6. {thread[u].job : u \in Transfers} = {thread'[u].job : u \in Transfers'} \cup {d}
      BY <1>0, <1>1, <1>4
    <2>7. d \notin {thread'[u].job : u \in Transfers'}
      BY <1>0, <1>1, <1>4, <2>1, TransferOnce DEF JobsInv, Transfers
    <2>8. /\ d \in Missing(e)
          /\ Missing(e) \ {d} = SegmentsWith(e.hash)
                \ (content[e.userPayload] \ {thread'[u].job : u \in Transfers'})
      BY <2>2, <2>3, <2>5, <2>6, <2>7 DEF Missing
    <2>9. /\ IsFiniteSet(Missing(e)) /\ Cardinality(Missing(e)) \in Nat
          /\ e.remainingSegments \in Nat \ {0}
          /\ Cardinality(Missing(e)) <= e.remainingSegments
      BY <2>1, <2>2, <2>a, MissingFinite DEF EntriesCount
    <2>10. /\ IsFiniteSet(Missing(e) \ {d})
           /\ Cardinality(Missing(e) \ {d}) = Cardinality(Missing(e)) - 1
      BY <2>8, <2>9, FS_RemoveElement
    <2>11. ASSUME e.remainingSegments = 1
           PROVE  content[e.userPayload] = SegmentsWith(e.hash)
      <3>1. Cardinality(Missing(e) \ {d}) = 0
        BY <2>9, <2>10, <2>11, FS_CardinalityType
      <3>2. Missing(e) \ {d} = {}
        BY <2>10, <3>1, FS_EmptySet
      <3> QED
        BY <2>3, <2>8, <3>2
    <2>12. PICK f : /\ segmentedMessages' \subseteq (segmentedMessages \ {e}) \cup {f}
                    /\ f \in segmentedMessages' => f.remainingSegments = e.remainingSegments - 1
                    /\ f.hash = e.hash /\ f.userPayload = e.userPayload
                    /\ segmentedMessages \ {e} \subseteq segmentedMessages'
      BY <1>2, <2>2, DecrementedFields
    <2>13. ASSUME NEW g \in segmentedMessages \ {e} PROVE Missing(g)' = Missing(g)
      BY <1>1, <2>2, <2>5, <2>6 DEF Missing
    <2>14. Missing(f)' = Missing(e) \ {d}
      BY <1>1, <2>5, <2>8, <2>12 DEF Missing, SegmentsWith
    <2>15. EntriesCount'
      <3>1. ASSUME NEW g \in segmentedMessages \ {e}
            PROVE  Once(g.hash) =>
                   /\ content'[g.userPayload] \subseteq SegmentsWith(g.hash) \ datagrams'
                   /\ Cardinality(Missing(g)') <= g.remainingSegments
        BY <1>1, <2>1, <2>13 DEF EntriesCount
      <3>2. content'[f.userPayload] \subseteq SegmentsWith(f.hash) \ datagrams'
        BY <1>1, <2>1, <2>2, <2>a, <2>12 DEF EntriesCount
      <3>3. f \in segmentedMessages' => Cardinality(Missing(f)') <= f.remainingSegments
        BY <2>9, <2>10, <2>12, <2>14
      <3> QED
        BY <2>5, <2>12, <3>1, <3>2, <3>3 DEF EntriesCount, SegmentsWith
    <2>16. CallbacksFill'
      BY <1>0, <1>1, <1>3, <2>2, <2>4, <2>11 DEF CallbacksFill, Critical, Hash, SegmentsWith
    <2>17. ASSUME NEW u \in Transfers' PROVE TransferCovered(u)'
      <3>1. u \in Transfers /\ thread'[u] = thread[u] /\ Hash(u) # Hash(t)
        BY <1>1, <1>4, <2>1, TransferUnique
      <3>2. \A g \in Entries(Hash(u)) : g \in segmentedMessages'
        BY <2>2, <2>12, <3>1 DEF Entries
      <3> QED
        BY <1>1, <2>1, <3>1, <3>2, TransferKept DEF TransfersInv
    <2> QED
      BY <2>15, <2>16, <2>17 DEF TransfersInv
  <1> QED
    BY <1>5, <1>6 DEF CompleteInv

LEMMA CompleteInit == Init => CompleteInv
  BY DEF Init, CompleteInv, JobsInv, EntriesCount, CallbacksFill, TransfersInv, Transfers, Idle

LEMMA CompleteNext ==
    ASSUME DmaInTime, TypeOK, OwnershipInv, UpdateInv, CompleteInv, [Next]_vars
    PROVE  CompleteInv'
  <1> USE DistinctAssumption DEF channelVars, updateVars, memoryVars
  <1>1. ASSUME NEW t \in Threads, NEW d \in datagrams, BeginNewMessage(t, d)
        PROVE  CompleteInv'
    <2>1. /\ thread[t].pc = "idle" /\ endpointsMutex = Nobody /\ datagrams' \subseteq datagrams
          /\ d \notin Repeated => d \notin datagrams'
          /\ UNCHANGED <<content, segmentedMessages, orphaned>>
      BY <1>1 DEF BeginNewMessage, EnterChannel, Delivered
    <2>2. /\ thread'[t].pc = "loan" /\ thread'[t].job = d
          /\ \A u \in Threads \ {t} : thread'[u] = thread[u]
      BY <1>1 DEF BeginNewMessage, TypeOK, ThreadsOK
    <2> QED
      BY <2>1, <2>2, CompleteBegins DEF Transfers
  <1>2. ASSUME NEW t \in Threads, LoanFails(t) \/ Publish(t)
        PROVE  CompleteInv'
    <2>1. /\ thread[t].pc \in {"loan", "publish"}
          /\ UNCHANGED <<content, segmentedMessages, orphaned, datagrams>>
      BY <1>2 DEF LoanFails, Publish
    <2>2. thread'[t].pc = "idle" /\ \A u \in Threads \ {t} : thread'[u] = thread[u]
      BY <1>2 DEF LoanFails, Publish, Idle, TypeOK, ThreadsOK
    <2>3. endpointsMutex = t
      BY <2>1 DEF OwnershipInv, MutualExclusion, Critical
    <2> QED
      BY <2>1, <2>2, <2>3, CompleteBegins DEF Transfers
  <1>3. ASSUME NEW t \in Threads, ReleaseBuffer(t)
        PROVE  CompleteInv'
    BY <1>3, ReleaseBufferFailedComplete, ReleaseBufferFilledComplete DEF ReleaseBuffer
  <1>4. ASSUME NEW t \in Threads, NEW d \in datagrams, CallbackWithoutChannel(t, d)
        PROVE  CompleteInv'
    BY <1>4, CompleteFrame DEF CallbackWithoutChannel, Delivered, Entries
  <1>5. ASSUME LoseDatagram PROVE CompleteInv'
    BY <1>5, CompleteFrame DEF LoseDatagram, Entries
  <1>6. ASSUME CheckErase PROVE CompleteInv'
    <2>1. PICK e \in segmentedMessages : /\ MayExpire(e)
                                         /\ segmentedMessages' = segmentedMessages \ {e}
      BY <1>6 DEF CheckErase
    <2>2. \A t \in Transfers : Hash(t) # e.hash
      BY <2>1 DEF MayExpire, DmaInTime, CompleteInv, JobsInv, Transfers
    <2>3. \A t \in Transfers : \A g \in Entries(Hash(t)) : g \in segmentedMessages'
      BY <2>1, <2>2 DEF Entries
    <2> QED
      BY <1>6, <2>1, <2>3, CompleteFrame DEF CheckErase
  <1>7. ASSUME CheckRelease PROVE CompleteInv'
    <2>1. \A c : loanedBy[c] = NoPublisher => loanedBy'[c] = NoPublisher
      BY <1>7 DEF CheckRelease, EndLoan, TypeOK
    <2> QED
      BY <1>7, <2>1, CompleteFrame DEF CheckRelease, Entries
  <1>8. ASSUME NEW s \in Services, DeleteChannel(s) PROVE CompleteInv'
    <2>1. /\ \A c \in Chunks : loanedBy[c] = NoPublisher => loanedBy'[c] = NoPublisher
          /\ segmentedMessages' = {e \in segmentedMessages : e.publisher # endpoints[s]}
          /\ wanted \in Updates /\ s \in Active \ wanted
      BY <1>8 DEF DeleteChannel, TypeOK, UpdateInv
    <2>2. ASSUME NEW t \in Transfers, NEW e \in Entries(Hash(t))
          PROVE  e.publisher # endpoints[s]
      <3>1. thread[t].job \in BufferSegments /\ Hash(t) = e.hash /\ e \in segmentedMessages
        BY DEF CompleteInv, JobsInv, Entries
      <3>2. ServiceOf[e.hash] \in wanted
        BY <2>1, <3>1 DEF DmaInTime, Hash
      <3>3. ServiceOf[e.hash] \in Services
        BY <3>1, MissingFinite, ConstantsAssumption
      <3>4. endpoints[ServiceOf[e.hash]] # NoPublisher /\ e.publisher = endpoints[ServiceOf[e.hash]]
        BY <3>1 DEF OwnershipInv, TableNamesLiveChannel, Channel
      <3> QED
        BY <2>1, <3>2, <3>3, <3>4 DEF OwnershipInv, ChannelsDistinct, Active
    <2>3. \A t \in Transfers : \A e \in Entries(Hash(t)) : e \in segmentedMessages'
      BY <2>1, <2>2 DEF Entries
    <2> QED
      BY <1>8, <2>1, <2>3, CompleteFrame DEF DeleteChannel
  <1>9. ASSUME UpdateChannels, \A s \in Services : ~DeleteChannel(s) PROVE CompleteInv'
    <2>1. UNCHANGED <<segmentedMessages, memoryVars, datagrams, thread, orphaned>>
      BY <1>9 DEF UpdateChannels, BeginUpdate, SetupChannel, EndUpdate
    <2> QED
      BY <2>1, CompleteFrame DEF Entries
  <1>10. ASSUME ForwarderTake PROVE CompleteInv'
    BY <1>10, CompleteFrame DEF ForwarderTake, Entries
  <1>11. ASSUME UNCHANGED vars PROVE CompleteInv'
    BY <1>11, CompleteFrame DEF vars, Entries
  <1>12. ASSUME NEW t \in Threads, Callback(t) PROVE CompleteInv'
    BY <1>12, <1>1, <1>4, ReceiveNextSegmentComplete, LoanBufferAgainComplete DEF Callback
  <1>13. ASSUME NEW t \in Threads, Continue(t) PROVE CompleteInv'
    BY <1>13, <1>2, LoanComplete, PushComplete, WriteComplete, FinishDmaComplete DEF Continue
  <1> QED
    BY <1>3, <1>5, <1>6, <1>7, <1>8, <1>9, <1>10, <1>11, <1>12, <1>13
       DEF Next, UpdateChannels

LEMMA CompleteCorrect ==
    ASSUME DmaInTime
    PROVE  Spec => [](TypeOK /\ OwnershipInv /\ CompleteInv)
  <1>1. TypeOK /\ OwnershipInv /\ UpdateInv /\ CompleteInv /\ [Next]_vars => CompleteInv'
    BY CompleteNext
  <1> QED
    BY <1>1, CompleteInit, UpdateInit, UpdateNext, TypeCorrectness, OwnershipCorrect, PTL
       DEF Spec

\* When transfers by DMA end in time, and in any case without them, receive and
\* releaseBuffer publish a chunk only when it holds every segment of its
\* message and nothing else, if none of these comes twice: the counter of
\* missing segments is enough, whatever is lost, reordered, late, timed out or
\* comes twice of other messages.
THEOREM MessagesComplete ==
    ASSUME DmaInTime
    PROVE  Spec => []PublishedComplete
  <1>1. CompleteInv => PublishedComplete
    BY DEF CompleteInv, CallbacksFill, PublishedComplete, SegmentsWith
  <1> QED
    BY <1>1, CompleteCorrect, PTL
=============================================================================
