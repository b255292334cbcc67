------------------------ MODULE IoxToTransportProofs ------------------------
(***************************************************************************)
(* Proofs about IoxToTransport, for any number of services, messages,      *)
(* devices and updates and any capacity of the tables.  What concerns the  *)
(* release of chunks holds for messages that go to one device at most.     *)
(***************************************************************************)
EXTENDS IoxToTransport, TLAPS, FiniteSetTheorems

-----------------------------------------------------------------------------
(***************************************************************************)
(* The inductive invariants.                                               *)
(***************************************************************************)

\* EndpointsInv: while an update is under way, the channels it will delete
\* exist and those it will set up do not; the subscriber it works on is live,
\* and detached once it is about to be destroyed.
EndpointsInv ==
    /\ endLock = "free" => updater.pc = "idle"
    /\ updater.pc # "idle" =>
          updater.delete \subseteq endpoints /\ updater.setup \cap endpoints = {}
    /\ updater.pc \in {"detach", "destroy"} =>
          Live(updater.sub) /\ updater.sub[1] \in updater.delete
    /\ updater.pc = "attach" => Live(updater.sub)
    /\ updater.pc = "destroy" => updater.sub \notin attached
    /\ AttachedLive

\* SetupsInv: a channel is set up once for each update at most.
SetupsInv ==
    /\ \A s \in Services : setups[s] <= updates
    /\ updater.pc # "idle" => \A s \in updater.setup : setups[s] < updates

\* The loop has taken a message and has not done with it.
Busy == loop.pc \in {"indices", "begin", "send", "pending", "release", "discard"}

\* LocalsInv: what the threads have when they need it.
LocalsInv ==
    /\ Busy => loop.msg \in Messages /\ loop.sub \in Subscribers
    /\ loop.pc \in {"begin", "send"} => loop.devices # <<>>
    /\ updater.pc \in {"detach", "destroy", "attach"} => updater.sub \in Subscribers

\* TypeInv: the inductive strengthening of TypeOK.
TypeInv == TypeOK /\ SetupsInv /\ LocalsInv

SingleDevice == \A list \in DeviceLists : Len(list) <= 1

\* Chunks that a pending message, or one being released, still needs.
Awaited == pending \cup {<<r[1], r[2]>> : r \in releasing}

\* The subscriber of a chunk is not yet to be created, and if it is live the
\* chunk is on loan to it.
OnLoan(c) == /\ c[2][2] <= setups[c[2][1]]
             /\ Live(c[2]) => c \in held

\* HeldInv: every chunk that somebody will use or release is on loan.
HeldInv ==
    /\ Busy => OnLoan(Chunk)
    /\ \A c \in Awaited : OnLoan(c)

\* LoopOwns: the message that the loop works on is its own: it may be in the
\* table of pending messages, but no transfer of it has begun.
LoopOwns ==
    /\ loop.pc \in {"begin", "send", "pending", "release", "discard"} =>
          Len(loop.devices) <= 1
    /\ Busy => /\ \A p \in pending : p[1] = loop.msg =>
                     loop.pc \in {"send", "pending"} /\ loop.shouldBePending
               /\ \A t \in dma : t[1] # loop.msg
               /\ \A r \in releasing : r[1] # loop.msg
    /\ loop.pc \in {"send", "pending"} /\ loop.shouldBePending => Chunk \in pending
    /\ loop.pc = "pending" => loop.shouldBePending

\* TablesOwn: a message is pending once, or released by one callback, and a
\* message that is being transferred is pending.
TablesOwn ==
    /\ \A p, q \in pending : p[1] = q[1] => p = q
    /\ \A r, q \in releasing : r[1] = q[1] => r = q
    /\ \A t, u \in dma : t[1] = u[1] => t = u
    /\ \A p \in pending, r \in releasing : p[1] # r[1]
    /\ \A t \in dma : \E p \in pending : p[1] = t[1]

\* The messages that have been taken from a queue and are in use.
InUse(m) ==
    \/ Busy /\ loop.msg = m
    \/ \E p \in pending : p[1] = m
    \/ \E t \in dma : t[1] = m
    \/ \E r \in releasing : r[1] = m

\* FreshInv: a message is published once: it waits in one place of the queue
\* of its service, or has been taken.
FreshInv ==
    /\ \A s \in Services : \A i \in 1 .. Len(queue[s]) :
          /\ queue[s][i] \in published /\ ServiceOf[queue[s][i]] = s
          /\ ~InUse(queue[s][i])
          /\ \A j \in 1 .. Len(queue[s]) : queue[s][i] = queue[s][j] => i = j
    /\ \A m \in Messages : InUse(m) => m \in published

\* LoanInv: the inductive strengthening of PayloadHeld and ReleasedOnce.
LoanInv == HeldInv /\ LoopOwns /\ TablesOwn /\ FreshInv

-----------------------------------------------------------------------------
(***************************************************************************)
(* Types.                                                                  *)
(***************************************************************************)
LoopType ==
    [pc : LoopPoints, notified : SUBSET Subscribers, sub : Subscribers \cup {NoSubscriber},
     msg : Messages \cup {NoMessage}, devices : Seq(Devices), shouldBePending : BOOLEAN]

UpdaterType ==
    [pc : UpdatePoints, delete : SUBSET Services, setup : SUBSET Services,
     sub : Subscribers \cup {NoSubscriber}]

\* A loop record with typed fields.
LEMMA LoopRecord ==
    ASSUME NEW a \in LoopPoints, NEW n \in SUBSET Subscribers,
           NEW s \in Subscribers \cup {NoSubscriber}, NEW m \in Messages \cup {NoMessage},
           NEW d \in Seq(Devices), NEW b \in BOOLEAN
    PROVE  [pc |-> a, notified |-> n, sub |-> s, msg |-> m, devices |-> d,
            shouldBePending |-> b] \in LoopType
  BY DEF LoopType

\* The state in which the loop begins.
LEMMA IdleLoopType == IdleLoop \in LoopType /\ IdleLoop.pc = "idle"
  <1> DEFINE no == FALSE
             r == [pc |-> "idle", notified |-> {}, sub |-> NoSubscriber, msg |-> NoMessage,
                   devices |-> <<>>, shouldBePending |-> no]
  <1>1. IdleLoop = r /\ no \in BOOLEAN
    BY DEF IdleLoop
  <1> HIDE DEF no
  <1>2. "idle" \in LoopPoints /\ <<>> \in Seq(Devices)
    BY DEF LoopPoints
  <1>3. r \in LoopType
    BY <1>1, <1>2, LoopRecord
  <1> QED
    BY <1>1, <1>3

\* After a device the loop goes on to the next one, or is done with the message.
LEMMA NextDeviceType ==
    ASSUME NEW l \in LoopType
    PROVE  /\ NextDevice(l) \in LoopType
           /\ \/ NextDevice(l).pc = "dispatch"
              \/ /\ NextDevice(l).pc = "begin" /\ NextDevice(l).devices # <<>>
                 /\ NextDevice(l).msg = l.msg /\ NextDevice(l).sub = l.sub
  <1> DEFINE rest == IF l.devices = <<>> THEN <<>> ELSE Tail(l.devices)
             no == FALSE
  <1>1. rest \in Seq(Devices) /\ no \in BOOLEAN
    BY DEF LoopType
  <1>2. NextDevice(l) =
           IF rest = <<>>
           THEN [l EXCEPT !.pc = "dispatch", !.devices = <<>>, !.sub = NoSubscriber,
                          !.msg = NoMessage, !.shouldBePending = no]
           ELSE [l EXCEPT !.pc = "begin", !.devices = rest, !.shouldBePending = no]
    BY DEF NextDevice
  <1> HIDE DEF no, rest
  <1>3. CASE rest = <<>>
    BY <1>1, <1>2, <1>3, ZenonT(40) DEF LoopType, LoopPoints
  <1>4. CASE rest # <<>>
    BY <1>1, <1>2, <1>4, ZenonT(40) DEF LoopType, LoopPoints
  <1> QED
    BY <1>3, <1>4

\* Tables are finite.
LEMMA TablesFinite == TypeOK => IsFiniteSet(endpoints) /\ IsFiniteSet(pending)
  <1> SUFFICES ASSUME TypeOK PROVE IsFiniteSet(endpoints) /\ IsFiniteSet(pending)
    OBVIOUS
  <1>1. IsFiniteSet(endpoints)
    BY ForwardingAssumption, FS_Subset DEF TypeOK
  <1>2. IsFiniteSet(0 .. MaxUpdates)
    BY ForwardingAssumption, FS_Interval
  <1>3. IsFiniteSet(Subscribers)
    BY <1>2, ForwardingAssumption, FS_Product DEF Subscribers
  <1>4. IsFiniteSet(Messages \X Subscribers)
    BY <1>3, ForwardingAssumption, FS_Product
  <1> QED
    BY <1>1, <1>4, FS_Subset DEF TypeOK

\* The first state.
LEMMA TypeInit == Init => TypeInv
  <1> SUFFICES ASSUME Init PROVE TypeInv
    OBVIOUS
  <1>1. loop \in LoopType
    BY IdleLoopType DEF Init
  <1>2. updater \in UpdaterType
    BY DEF Init, IdleUpdater, UpdaterType, UpdatePoints
  <1>3. /\ endpoints \subseteq Services /\ Cardinality(endpoints) <= MAX_TOPICS
        /\ pending \subseteq Messages \X Subscribers /\ Cardinality(pending) <= MaxPending
    BY ForwardingAssumption, FS_EmptySet DEF Init
  <1>4. /\ setups \in [Services -> 0 .. MaxUpdates] /\ updates \in 0 .. MaxUpdates
        /\ queue \in [Services -> Seq(Messages)]
    BY ForwardingAssumption DEF Init
  <1>5. suspend \in BOOLEAN /\ terminate \in BOOLEAN /\ crashed \in BOOLEAN
    BY DEF Init
  <1>6. good \in [Devices -> BOOLEAN]
    BY DEF Init
  <1>7. TypeOK
    BY <1>1, <1>2, <1>3, <1>4, <1>5, <1>6 DEF Init, TypeOK, LoopType, UpdaterType
  <1>8. SetupsInv /\ LocalsInv
    BY <1>4 DEF Init, SetupsInv, LocalsInv, Busy, IdleLoop, IdleUpdater
  <1> QED
    BY <1>7, <1>8 DEF TypeInv

\* The steps of the waitset loop keep the types.
LEMMA TypeLoop == TypeInv /\ WaitsetLoop => TypeInv'
  <1> SUFFICES ASSUME TypeInv, WaitsetLoop PROVE TypeInv'
    OBVIOUS
  <1> USE DEF channelVars, updateVars, pendingVars
  <1>a. loop \in LoopType
    BY DEF TypeInv, TypeOK, LoopType
  <1>b. /\ loop.devices \in Seq(Devices) /\ loop.notified \subseteq Subscribers
        /\ loop.msg \in Messages \cup {NoMessage} /\ loop.sub \in Subscribers \cup {NoSubscriber}
    BY <1>a DEF LoopType
  \* What has to be shown of a step that leaves the tables and the updater alone.
  <1>c. ASSUME UNCHANGED <<published, endpoints, setups, attached, suspend, updateVars,
                           terminate, good, releasing, crashed>>,
               waitLock' \in {"free", "loop"}, queue' \in [Services -> Seq(Messages)],
               held' \subseteq Messages \X Subscribers,
               pending' \subseteq Messages \X Subscribers, Cardinality(pending') <= MaxPending,
               dma' \subseteq Messages \X Devices,
               loop' \in LoopType,
               Busy' => loop'.msg \in Messages /\ loop'.sub \in Subscribers,
               loop'.pc \in {"begin", "send"} => loop'.devices # <<>>
        PROVE  TypeInv'
    <2>1. TypeOK'
      BY <1>c DEF TypeInv, TypeOK, LoopType
    <2>2. SetupsInv' /\ LocalsInv'
      BY <1>c DEF TypeInv, SetupsInv, LocalsInv
    <2> QED
      BY <2>1, <2>2 DEF TypeInv
  <1>d. /\ waitLock \in {"free", "loop"} /\ queue \in [Services -> Seq(Messages)]
        /\ held \subseteq Messages \X Subscribers
        /\ pending \subseteq Messages \X Subscribers /\ Cardinality(pending) <= MaxPending
        /\ dma \subseteq Messages \X Devices
    BY DEF TypeInv, TypeOK
  <1>e. Busy => loop.msg \in Messages /\ loop.sub \in Subscribers
    BY DEF TypeInv, LocalsInv
  <1>1. CASE LockWaitset \/ LoopEnds \/ WaitWhileSuspended
    <2>1. loop' \in LoopType /\ loop'.pc \in {"wait", "done", "dispatch"}
      BY <1>1, <1>a DEF LockWaitset, LoopEnds, WaitWhileSuspended, LoopType, LoopPoints
    <2> QED
      BY <1>1, <1>c, <1>d, <2>1 DEF LockWaitset, LoopEnds, WaitWhileSuspended, Busy
  <1>2. CASE TimedWait
    <2>1. {sub \in attached : queue[sub[1]] # <<>>} \subseteq Subscribers
      BY DEF TypeInv, TypeOK
    <2>2. loop' \in LoopType /\ loop'.pc = "suspend"
      BY <1>2, <1>a, <2>1 DEF TimedWait, LoopType, LoopPoints
    <2> QED
      BY <1>2, <1>c, <1>d, <2>2 DEF TimedWait, Busy
  <1>3. CASE LoopAgain
    BY <1>3, <1>c, <1>d, IdleLoopType DEF LoopAgain, Busy
  <1>4. ASSUME NEW sub \in loop.notified, Take(sub) PROVE TypeInv'
    <2>1. sub \in Subscribers /\ sub[1] \in Services
      BY <1>b DEF Subscribers
    <2>2. Head(queue[sub[1]]) \in Messages /\ Tail(queue[sub[1]]) \in Seq(Messages)
      BY <1>4, <1>d, <2>1 DEF Take
    <2>3. loop' \in LoopType /\ loop'.pc = "indices" /\ loop'.msg \in Messages
          /\ loop'.sub \in Subscribers
      BY <1>4, <1>a, <2>1, <2>2 DEF Take, LoopType, LoopPoints
    <2>4. queue' \in [Services -> Seq(Messages)]
      BY <1>4, <1>d, <2>1, <2>2 DEF Take
    <2>5. held' \subseteq Messages \X Subscribers
      BY <1>4, <1>d, <2>1, <2>2 DEF Take
    <2>6. UNCHANGED <<published, endpoints, setups, attached, suspend, waitLock, updateVars,
                      terminate, good, pendingVars, crashed>>
      BY <1>4 DEF Take
    <2> QED
      BY <1>c, <1>d, <2>3, <2>4, <2>5, <2>6
  <1>5. ASSUME NEW sub \in loop.notified, TakeFails(sub) PROVE TypeInv'
    <2>1. sub \in Subscribers /\ sub[1] \in Services
      BY <1>b DEF Subscribers
    <2>2. queue' \in [Services -> Seq(Messages)]
      <3>1. queue[sub[1]] # <<>> => Tail(queue[sub[1]]) \in Seq(Messages)
        BY <1>d, <2>1
      <3>2. CASE /\ queue[sub[1]] # <<>>
                 /\ queue' = [queue EXCEPT ![sub[1]] = Tail(queue[sub[1]])]
        BY <3>1, <3>2, <1>d, <2>1
      <3> QED
        BY <1>5, <1>d, <3>2 DEF TakeFails
    <2>3. loop' \in LoopType /\ loop'.pc = "dispatch"
      BY <1>5, <1>a DEF TakeFails, LoopType
    <2> QED
      BY <1>5, <1>c, <1>d, <2>2, <2>3 DEF TakeFails, Busy
  <1>6. ASSUME NEW list \in DeviceLists, GenerateDeviceIndices(list) PROVE TypeInv'
    <2>1. list \in Seq(Devices)
      BY ForwardingAssumption
    <2>2. /\ loop' \in LoopType /\ loop'.pc = IF list = <<>> THEN "release" ELSE "begin"
          /\ loop'.devices = list /\ loop'.msg = loop.msg /\ loop'.sub = loop.sub /\ Busy
      BY <1>6, <1>a, <2>1 DEF GenerateDeviceIndices, LoopType, LoopPoints, Busy
    <2> QED
      BY <1>6, <1>c, <1>d, <1>e, <2>2 DEF GenerateDeviceIndices
  <1>7. CASE Begin
    <2>1. Busy /\ loop.devices # <<>>
      BY <1>7 DEF Begin, Busy, TypeInv, LocalsInv
    <2> DEFINE yes == TRUE
               no == FALSE
               with(y) == [loop EXCEPT !.pc = "send", !.shouldBePending = y]
    <2>2. loop' = with(yes) \/ loop' = with(no) \/ loop' = [loop EXCEPT !.pc = "discard"]
      BY <1>7 DEF Begin
    <2>3. loop' \in LoopType /\ loop'.msg = loop.msg /\ loop'.sub = loop.sub
          /\ loop'.devices = loop.devices
      <3>1. ASSUME NEW y \in BOOLEAN
            PROVE  /\ with(y) \in LoopType /\ with(y).msg = loop.msg
                   /\ with(y).sub = loop.sub /\ with(y).devices = loop.devices
        BY <1>a DEF LoopType, LoopPoints
      <3>2. CASE loop' = [loop EXCEPT !.pc = "discard"]
        BY <3>2, <1>a DEF LoopType, LoopPoints
      <3>3. yes \in BOOLEAN /\ no \in BOOLEAN
        OBVIOUS
      <3> HIDE DEF yes, no, with
      <3> QED
        BY <2>2, <3>1, <3>2, <3>3
    <2>4. pending' \subseteq Messages \X Subscribers /\ Cardinality(pending') <= MaxPending
      <3>1. CASE UNCHANGED pending
        BY <3>1, <1>d
      <3>2. CASE pending' = pending \cup {Chunk} /\ CanPush(loop.msg)
        <4>1. Cardinality(pending) < MaxPending /\ IsFiniteSet(pending)
          BY <3>2, TablesFinite DEF CanPush, TypeInv
        <4>2. /\ Cardinality(pending) \in Nat
              /\ Cardinality(pending') \in {Cardinality(pending), Cardinality(pending) + 1}
          <5>1. Cardinality(pending \cup {Chunk}) =
                   IF Chunk \in pending THEN Cardinality(pending) ELSE Cardinality(pending) + 1
            BY <4>1, FS_AddElement
          <5> QED
            BY <3>2, <4>1, <5>1, FS_CardinalityType
        <4>3. Chunk \in Messages \X Subscribers
          BY <2>1, <1>e DEF Chunk
        <4>4. Cardinality(pending') <= MaxPending
          BY <4>1, <4>2, ForwardingAssumption
        <4> QED
          BY <3>2, <4>3, <4>4, <1>d
      <3> QED
        BY <1>7, <3>1, <3>2 DEF Begin
    <2> QED
      BY <1>7, <1>c, <1>d, <1>e, <2>1, <2>3, <2>4 DEF Begin
  <1>8. CASE Discard
    <2> DEFINE none == <<>>
               l == [loop EXCEPT !.devices = none]
    <2>1. l \in LoopType /\ l.msg = loop.msg /\ l.sub = loop.sub
      <3>1. none \in Seq(Devices)
        OBVIOUS
      <3> HIDE DEF none
      <3> QED
        BY <1>a, <3>1 DEF LoopType
    <2>2. loop' = NextDevice(l) /\ Busy
      BY <1>8 DEF Discard, Busy
    <2> HIDE DEF l
    <2> QED
      BY <1>8, <1>c, <1>d, <1>e, <2>1, <2>2, NextDeviceType DEF Discard, Busy
  <1>9. CASE SendPending
    <2>1. Busy /\ loop.devices # <<>>
      BY <1>9 DEF SendPending, Busy, TypeInv, LocalsInv
    <2>2. Device \in Devices
      BY <1>b, <2>1 DEF Device
    <2>3. dma' \subseteq Messages \X Devices
      BY <1>9, <1>d, <1>e, <2>1, <2>2 DEF SendPending
    <2>4. loop' = NextDevice(loop)
      BY <1>9 DEF SendPending
    <2> QED
      BY <1>9, <1>a, <1>c, <1>d, <1>e, <2>1, <2>3, <2>4, NextDeviceType DEF SendPending, Busy
  <1>10. CASE SendNotPending
    <2>1. loop' \in LoopType /\ loop'.pc \in {"pending", "release"} /\ loop'.msg = loop.msg
          /\ loop'.sub = loop.sub /\ Busy
      BY <1>10, <1>a DEF SendNotPending, LoopType, LoopPoints, Busy
    <2> QED
      BY <1>10, <1>c, <1>d, <1>e, <2>1 DEF SendNotPending
  <1>11. CASE ForgetPending
    <2>1. loop' = NextDevice(loop) \/ loop' = [loop EXCEPT !.pc = "release"]
      BY <1>11 DEF ForgetPending
    <2>2. Busy
      BY <1>11 DEF ForgetPending, Busy
    <2>3. pending' \subseteq pending /\ Cardinality(pending') <= MaxPending
      <3>1. pending' \subseteq pending
        BY <1>11 DEF ForgetPending
      <3>2. Cardinality(pending') <= Cardinality(pending)
            /\ Cardinality(pending) \in Nat /\ Cardinality(pending') \in Nat
        BY <3>1, TablesFinite, FS_Subset, FS_CardinalityType DEF TypeInv
      <3> QED
        BY <1>d, <3>1, <3>2, ForwardingAssumption
    <2>4. CASE loop' = NextDevice(loop)
      BY <1>11, <1>a, <1>c, <1>d, <1>e, <2>2, <2>3, <2>4, NextDeviceType DEF ForgetPending, Busy
    <2>5. CASE loop' = [loop EXCEPT !.pc = "release"]
      <3>1. loop' \in LoopType /\ loop'.pc = "release" /\ loop'.msg = loop.msg
            /\ loop'.sub = loop.sub
        BY <1>a, <2>5 DEF LoopType, LoopPoints
      <3> QED
        BY <1>11, <1>c, <1>d, <1>e, <2>2, <2>3, <3>1 DEF ForgetPending
    <2> QED
      BY <2>1, <2>4, <2>5
  <1>12. CASE Release
    <2>1. loop' = NextDevice(loop) /\ Busy
      BY <1>12 DEF Release, Busy
    <2> QED
      BY <1>12, <1>a, <1>c, <1>d, <1>e, <2>1, NextDeviceType DEF Release, Busy
  <1> QED
    BY <1>1, <1>2, <1>3, <1>4, <1>5, <1>6, <1>7, <1>8, <1>9, <1>10, <1>11, <1>12
       DEF WaitsetLoop

\* An updater record with typed fields.
LEMMA UpdaterFields ==
    ASSUME NEW u \in UpdaterType
    PROVE  /\ u.pc \in UpdatePoints /\ u.delete \subseteq Services
           /\ u.setup \subseteq Services /\ u.sub \in Subscribers \cup {NoSubscriber}
  BY DEF UpdaterType

\* The steps of the thread that updates channels keep the types.
LEMMA TypeUpdater ==
    TypeInv /\ (Updater \/ \E needed \in NeededSets : BeginUpdate(needed)) => TypeInv'
  <1> SUFFICES ASSUME TypeInv,
                      Updater \/ \E needed \in NeededSets : BeginUpdate(needed)
               PROVE  TypeInv'
    OBVIOUS
  <1> USE DEF channelVars, updateVars, pendingVars
  <1>a. updater \in UpdaterType
    BY DEF TypeInv, TypeOK, UpdaterType
  <1>b. /\ updater.pc \in UpdatePoints /\ updater.delete \subseteq Services
        /\ updater.setup \subseteq Services
    BY <1>a, UpdaterFields
  <1>c. ASSUME UNCHANGED <<published, waitLock, loop, terminate, good, pendingVars, crashed>>,
               endpoints' \subseteq Services, Cardinality(endpoints') <= MAX_TOPICS,
               setups' \in [Services -> 0 .. MaxUpdates],
               queue' \in [Services -> Seq(Messages)], attached' \subseteq Subscribers,
               suspend' \in BOOLEAN, endLock' \in {"free", "updater"},
               updates' \in 0 .. MaxUpdates, held' \subseteq Messages \X Subscribers,
               updater' \in UpdaterType, SetupsInv',
               updater'.pc \in {"detach", "destroy", "attach"} => updater'.sub \in Subscribers
        PROVE  TypeInv'
    <2>1. TypeOK'
      BY <1>c DEF TypeInv, TypeOK, UpdaterType
    <2>2. LocalsInv'
      BY <1>c DEF TypeInv, LocalsInv, Busy
    <2> QED
      BY <1>c, <2>1, <2>2 DEF TypeInv
  <1>d. /\ endpoints \subseteq Services /\ Cardinality(endpoints) <= MAX_TOPICS
        /\ setups \in [Services -> 0 .. MaxUpdates]
        /\ queue \in [Services -> Seq(Messages)] /\ attached \subseteq Subscribers
        /\ suspend \in BOOLEAN /\ endLock \in {"free", "updater"}
        /\ updates \in 0 .. MaxUpdates /\ held \subseteq Messages \X Subscribers
    BY DEF TypeInv, TypeOK
  <1>e. SetupsInv /\ LocalsInv
    BY DEF TypeInv
  <1>1. ASSUME NEW s \in Services, BeginDelete(s) PROVE TypeInv'
    <2>1. Subscriber(s) \in Subscribers
      BY <1>d DEF Subscriber, Subscribers
    <2>2. /\ updater' \in UpdaterType /\ updater'.pc = "detach"
          /\ updater'.sub = Subscriber(s) /\ updater'.setup = updater.setup
      BY <1>1, <1>a, <2>1 DEF BeginDelete, UpdaterType, UpdatePoints
    <2>3. SetupsInv' /\ suspend' \in BOOLEAN
      BY <1>1, <1>e, <2>2 DEF BeginDelete, SetupsInv
    <2> QED
      BY <1>1, <1>c, <1>d, <2>1, <2>2, <2>3 DEF BeginDelete
  <1>2. ASSUME NEW s \in Services, BeginSetup(s), Cardinality(endpoints) < MAX_TOPICS
        PROVE  TypeInv'
    <2>1. setups[s] + 1 \in 0 .. MaxUpdates /\ setups[s] + 1 <= updates
      BY <1>2, <1>d, <1>e, ForwardingAssumption DEF BeginSetup, SetupsInv
    <2>2. /\ setups' = [setups EXCEPT ![s] = @ + 1] /\ setups'[s] = setups[s] + 1
          /\ setups' \in [Services -> 0 .. MaxUpdates]
      BY <1>2, <1>d, <2>1 DEF BeginSetup
    <2>3. <<s, setups'[s]>> \in Subscribers
      BY <2>1, <2>2 DEF Subscribers
    <2>4. updater' = [updater EXCEPT !.pc = "attach", !.setup = @ \ {s},
                                     !.sub = <<s, setups'[s]>>]
      BY <1>2 DEF BeginSetup
    <2>5. /\ updater' \in UpdaterType /\ updater'.pc = "attach"
          /\ updater'.sub \in Subscribers /\ updater'.setup = updater.setup \ {s}
      BY <1>a, <2>3, <2>4 DEF UpdaterType, UpdatePoints
    <2>6. endpoints' = endpoints \cup {s} /\ IsFiniteSet(endpoints)
      BY <1>2, TablesFinite DEF BeginSetup, TypeInv
    <2>7. endpoints' \subseteq Services /\ Cardinality(endpoints') <= MAX_TOPICS
      <3>1. Cardinality(endpoints \cup {s}) =
               IF s \in endpoints THEN Cardinality(endpoints) ELSE Cardinality(endpoints) + 1
        BY <2>6, FS_AddElement
      <3>2. Cardinality(endpoints) \in Nat
        BY <2>6, FS_CardinalityType
      <3> QED
        BY <1>2, <1>d, <2>6, <3>1, <3>2, ForwardingAssumption
    <2>8. SetupsInv'
      <3>1. \A x \in Services \ {s} : setups'[x] = setups[x]
        BY <1>d, <2>2
      <3>2. updates' = updates /\ updater.pc # "idle"
        BY <1>2 DEF BeginSetup
      <3>3. \A x \in Services : setups'[x] <= updates'
        BY <1>e, <2>1, <2>2, <3>1, <3>2 DEF SetupsInv
      <3>4. \A x \in updater'.setup : setups'[x] < updates'
        BY <1>b, <1>e, <2>5, <3>1, <3>2 DEF SetupsInv
      <3> QED
        BY <3>3, <3>4 DEF SetupsInv
    <2>9. suspend' \in BOOLEAN
      BY <1>2 DEF BeginSetup
    <2> QED
      BY <1>2, <1>c, <1>d, <2>2, <2>5, <2>7, <2>8, <2>9 DEF BeginSetup
  <1>3. ASSUME NEW s \in Services, BeginSetup(s), ~(Cardinality(endpoints) < MAX_TOPICS)
        PROVE  TypeInv'
    <2>1. updater' = [updater EXCEPT !.setup = @ \ {s}]
          /\ UNCHANGED <<endpoints, setups, suspend>> /\ updater.pc = "next"
      BY <1>3 DEF BeginSetup
    <2>2. /\ updater' \in UpdaterType /\ updater'.pc = "next"
          /\ updater'.setup = updater.setup \ {s}
      BY <1>a, <2>1 DEF UpdaterType, UpdatePoints
    <2>3. SetupsInv'
      BY <1>3, <1>e, <2>1, <2>2 DEF BeginSetup, SetupsInv
    <2> QED
      BY <1>3, <1>c, <1>d, <2>1, <2>2, <2>3 DEF BeginSetup
  <1>4. CASE Detach
    <2>1. /\ updater' \in UpdaterType /\ updater'.pc = "destroy" /\ updater.pc = "detach"
          /\ updater'.setup = updater.setup /\ updater'.sub = updater.sub
      BY <1>4, <1>a DEF Detach, UpdaterType, UpdatePoints
    <2>2. SetupsInv' /\ suspend' \in BOOLEAN /\ attached' \subseteq Subscribers
      BY <1>4, <1>d, <1>e, <2>1 DEF Detach, SetupsInv
    <2> QED
      BY <1>4, <1>c, <1>d, <1>e, <2>1, <2>2 DEF Detach, LocalsInv
  <1>5. CASE Destroy
    <2>1. /\ updater' \in UpdaterType /\ updater'.pc = "next" /\ updater.pc = "destroy"
          /\ updater'.setup = updater.setup
      BY <1>5, <1>a DEF Destroy, UpdaterType, UpdatePoints
    <2>2. updater.sub[1] \in Services
      BY <1>e, <2>1 DEF LocalsInv, Subscribers
    <2>3. SetupsInv'
      BY <1>5, <1>e, <2>1 DEF Destroy, SetupsInv
    <2>4. queue' \in [Services -> Seq(Messages)]
      <3>1. <<>> \in Seq(Messages)
        OBVIOUS
      <3> QED
        BY <1>5, <1>d, <2>2, <3>1 DEF Destroy
    <2>5. endpoints' \subseteq Services /\ Cardinality(endpoints') <= MAX_TOPICS
      <3>1. endpoints' \subseteq endpoints
        BY <1>5 DEF Destroy
      <3>2. Cardinality(endpoints') <= Cardinality(endpoints)
            /\ Cardinality(endpoints) \in Nat /\ Cardinality(endpoints') \in Nat
        BY <3>1, TablesFinite, FS_Subset, FS_CardinalityType DEF TypeInv
      <3> QED
        BY <1>d, <3>1, <3>2, ForwardingAssumption
    <2>6. held' \subseteq Messages \X Subscribers
      BY <1>5, <1>d DEF Destroy
    <2> QED
      BY <1>5, <1>c, <1>d, <2>1, <2>3, <2>4, <2>5, <2>6 DEF Destroy
  <1>6. CASE Attach
    <2>1. /\ updater' \in UpdaterType /\ updater'.pc = "next" /\ updater.pc = "attach"
          /\ updater'.setup = updater.setup
      BY <1>6, <1>a DEF Attach, UpdaterType, UpdatePoints
    <2>2. SetupsInv' /\ suspend' \in BOOLEAN /\ attached' \subseteq Subscribers
      BY <1>6, <1>d, <1>e, <2>1 DEF Attach, SetupsInv, LocalsInv
    <2> QED
      BY <1>6, <1>c, <1>d, <2>1, <2>2 DEF Attach
  <1>7. CASE EndUpdate
    <2>1. updater' \in UpdaterType /\ updater'.pc = "idle"
      BY <1>7 DEF EndUpdate, IdleUpdater, UpdaterType, UpdatePoints
    <2>2. SetupsInv'
      BY <1>7, <1>e, <2>1 DEF EndUpdate, SetupsInv
    <2> QED
      BY <1>7, <1>c, <1>d, <2>1, <2>2 DEF EndUpdate
  <1>8. ASSUME NEW needed \in NeededSets, BeginUpdate(needed) PROVE TypeInv'
    <2>1. /\ updater' \in UpdaterType /\ updater'.pc = "next"
          /\ updater'.setup = needed \ endpoints /\ needed \subseteq Services
      BY <1>8, <1>a, <1>d, ForwardingAssumption DEF BeginUpdate, UpdaterType, UpdatePoints
    <2>2. updates' \in 0 .. MaxUpdates /\ updates' = updates + 1
      <3>1. updates' = updates + 1 /\ updates < MaxUpdates
        BY <1>8 DEF BeginUpdate
      <3> QED
        BY <3>1, <1>d, ForwardingAssumption
    <2>3. SetupsInv'
      <3>1. \A s \in Services : setups[s] < updates + 1
        <4> SUFFICES ASSUME NEW s \in Services PROVE setups[s] < updates + 1
          OBVIOUS
        <4>1. setups[s] \in 0 .. MaxUpdates /\ setups[s] <= updates
          BY <1>d, <1>e DEF SetupsInv
        <4> QED
          BY <1>d, <4>1
      <3>2. setups' = setups
        BY <1>8 DEF BeginUpdate
      <3>3. \A s \in Services : setups'[s] <= updates'
        BY <1>d, <2>2, <3>1, <3>2
      <3> QED
        BY <2>1, <2>2, <3>1, <3>2, <3>3 DEF SetupsInv
    <2> QED
      BY <1>8, <1>c, <1>d, <2>1, <2>2, <2>3 DEF BeginUpdate
  <1> QED
    BY <1>1, <1>2, <1>3, <1>4, <1>5, <1>6, <1>7, <1>8 DEF Updater

\* The steps of callbacks, publishers and transports, and a crash, keep the types.
LEMMA TypeOthers ==
    TypeInv /\ (\/ Callback \/ Crash \/ Join
                \/ \E m \in Messages : Publish(m)
                \/ \E d \in Devices : FailTransport(d))
        => TypeInv'
  <1> USE DEF channelVars, updateVars, pendingVars
  <1> SUFFICES ASSUME TypeInv,
                      \/ Callback \/ Crash \/ Join
                      \/ \E m \in Messages : Publish(m)
                      \/ \E d \in Devices : FailTransport(d)
               PROVE  TypeInv'
    OBVIOUS
  <1>a. TypeOK /\ SetupsInv /\ LocalsInv
    BY DEF TypeInv
  <1>b. ASSUME UNCHANGED <<setups, updates, updater, loop>> PROVE SetupsInv' /\ LocalsInv'
    BY <1>a, <1>b DEF SetupsInv, LocalsInv, Busy
  <1>1. ASSUME NEW m \in Messages, NEW d \in Devices, BufferSent(m, d) PROVE TypeInv'
    <2>1. pending' \subseteq pending /\ dma' \subseteq dma
      BY <1>1 DEF BufferSent
    <2>2. Cardinality(pending') <= MaxPending
      <3>1. Cardinality(pending') <= Cardinality(pending)
            /\ Cardinality(pending) \in Nat /\ Cardinality(pending') \in Nat
        BY <1>a, <2>1, TablesFinite, FS_Subset, FS_CardinalityType
      <3> QED
        BY <1>a, <3>1, ForwardingAssumption DEF TypeOK
    <2>3. releasing' \subseteq Messages \X Subscribers \X Devices
      BY <1>1, <1>a DEF BufferSent, TypeOK
    <2>4. TypeOK'
      BY <1>1, <1>a, <2>1, <2>2, <2>3 DEF BufferSent, TypeOK
    <2> QED
      BY <1>1, <1>b, <2>4 DEF BufferSent, TypeInv
  <1>2. ASSUME NEW r \in releasing, ReleasePending(r) PROVE TypeInv'
    BY <1>2, <1>a, <1>b DEF ReleasePending, TypeOK, TypeInv
  <1>3. CASE Crash \/ Join
    <2>1. crashed' \in BOOLEAN /\ terminate' \in BOOLEAN
      BY <1>3, <1>a DEF Crash, Join, TypeOK
    <2> QED
      BY <1>3, <1>a, <1>b, <2>1 DEF Crash, Join, TypeOK, TypeInv
  <1>4. ASSUME NEW m \in Messages, Publish(m) PROVE TypeInv'
    <2>1. queue' \in [Services -> Seq(Messages)]
      <3>1. queue \in [Services -> Seq(Messages)] /\ ServiceOf[m] \in Services
        BY <1>a, ForwardingAssumption DEF TypeOK
      <3>2. Append(queue[ServiceOf[m]], m) \in Seq(Messages)
        BY <3>1
      <3>3. \/ queue' = [queue EXCEPT ![ServiceOf[m]] = Append(queue[ServiceOf[m]], m)]
            \/ queue' = queue
        BY <1>4 DEF Publish
      <3> QED
        BY <3>1, <3>2, <3>3
    <2>2. TypeOK'
      BY <1>4, <1>a, <2>1 DEF Publish, TypeOK
    <2> QED
      BY <1>4, <1>b, <2>2 DEF Publish, TypeInv
  <1>5. ASSUME NEW d \in Devices, FailTransport(d) PROVE TypeInv'
    <2>1. good' \in [Devices -> BOOLEAN]
      <3> DEFINE no == FALSE
      <3>1. good' = [good EXCEPT ![d] = no] /\ no \in BOOLEAN
        BY <1>5 DEF FailTransport
      <3> HIDE DEF no
      <3> QED
        BY <1>a, <3>1 DEF TypeOK
    <2>2. TypeOK'
      BY <1>5, <1>a, <2>1 DEF FailTransport, TypeOK
    <2> QED
      BY <1>5, <1>b, <2>2 DEF FailTransport, TypeInv
  <1> QED
    BY <1>1, <1>2, <1>3, <1>4, <1>5 DEF Callback

\* Every step keeps the types.
LEMMA TypeStep == TypeInv /\ [Next]_vars => TypeInv'
  <1>1. TypeInv /\ Next => TypeInv'
    BY TypeLoop, TypeUpdater, TypeOthers DEF Next
  <1>2. TypeInv /\ UNCHANGED vars => TypeInv'
    BY DEF vars, channelVars, updateVars, pendingVars, TypeInv, TypeOK, SetupsInv, LocalsInv,
           Busy
  <1> QED
    BY <1>1, <1>2

\* TypeInv is an invariant.
LEMMA TypeInvariant == Spec => []TypeInv
  BY TypeInit, TypeStep, PTL DEF Spec

\* TypeCorrectness: the variables have their types: neither m_endpoints nor the
\* table of pending messages grows past its capacity, and a channel is set up
\* once for each update at most, so that no subscriber has a number past the
\* number of updates.
THEOREM TypeCorrectness == Spec => []TypeOK
  BY TypeInvariant, PTL DEF TypeInv

-----------------------------------------------------------------------------
(***************************************************************************)
(* The waitset listens to live subscribers.                                *)
(***************************************************************************)

\* The state that EndpointsInv is about.
endpointVars == <<endpoints, setups, attached, updater, endLock>>

\* Only the thread that updates channels changes them.
LEMMA EndpointsStutter ==
    ASSUME EndpointsInv, UNCHANGED endpointVars PROVE EndpointsInv'
  BY DEF EndpointsInv, endpointVars, AttachedLive, Live, Subscriber

\* The steps of that thread keep EndpointsInv.
LEMMA EndpointsUpdater ==
    ASSUME TypeInv, EndpointsInv,
           Updater \/ \E needed \in NeededSets : BeginUpdate(needed)
    PROVE  EndpointsInv'
  <1>a. /\ updater \in UpdaterType /\ endpoints \subseteq Services
        /\ setups \in [Services -> 0 .. MaxUpdates] /\ attached \subseteq Subscribers
    BY DEF TypeInv, TypeOK, UpdaterType
  <1>b. updater.pc \in UpdatePoints /\ updater.delete \subseteq Services
        /\ updater.setup \subseteq Services
    BY <1>a, UpdaterFields
  <1>1. ASSUME NEW s \in Services, BeginDelete(s) PROVE EndpointsInv'
    <2>1. /\ updater'.pc = "detach" /\ updater'.sub = Subscriber(s)
          /\ updater'.delete = updater.delete /\ updater'.setup = updater.setup
      BY <1>1, <1>a DEF BeginDelete, UpdaterType
    <2>2. UNCHANGED <<endpoints, setups, attached, endLock>> /\ s \in updater.delete
          /\ updater.pc = "next"
      BY <1>1 DEF BeginDelete, channelVars
    <2>3. Subscriber(s)[1] = s /\ Live(Subscriber(s))
      BY <2>2 DEF EndpointsInv, Live, Subscriber
    <2> QED
      BY <2>1, <2>2, <2>3 DEF EndpointsInv, AttachedLive, Live, Subscriber
  <1>2. ASSUME NEW s \in Services, BeginSetup(s), Cardinality(endpoints) < MAX_TOPICS
        PROVE  EndpointsInv'
    <2>1. /\ updater' = [updater EXCEPT !.pc = "attach", !.setup = @ \ {s},
                                        !.sub = <<s, setups'[s]>>]
          /\ endpoints' = endpoints \cup {s} /\ UNCHANGED <<attached, endLock>>
          /\ s \in updater.setup /\ updater.pc = "next"
          /\ setups' = [setups EXCEPT ![s] = @ + 1]
      BY <1>2 DEF BeginSetup
    <2>2. /\ updater'.pc = "attach" /\ updater'.delete = updater.delete
          /\ updater'.setup = updater.setup \ {s} /\ updater'.sub = <<s, setups'[s]>>
      BY <1>a, <2>1 DEF UpdaterType
    <2>3. s \notin endpoints
      BY <2>1 DEF EndpointsInv
    <2>4. updater'.delete \subseteq endpoints' /\ updater'.setup \cap endpoints' = {}
      BY <2>1, <2>2 DEF EndpointsInv
    <2>5. Live(updater.sub)'
      BY <2>1, <2>2 DEF Live, Subscriber
    <2>6. AttachedLive'
      <3> SUFFICES ASSUME NEW sub \in attached PROVE Live(sub)'
        BY <2>1 DEF AttachedLive
      <3>1. Live(sub)
        BY DEF EndpointsInv, AttachedLive
      <3>2. sub[1] # s /\ sub[1] \in Services
        BY <1>a, <2>3, <3>1 DEF Live
      <3>3. setups'[sub[1]] = setups[sub[1]]
        BY <1>a, <2>1, <3>2
      <3> QED
        BY <2>1, <3>1, <3>3 DEF Live, Subscriber
    <2> QED
      BY <2>1, <2>2, <2>4, <2>5, <2>6 DEF EndpointsInv
  <1>3. ASSUME NEW s \in Services, BeginSetup(s), ~(Cardinality(endpoints) < MAX_TOPICS)
        PROVE  EndpointsInv'
    <2>1. updater' = [updater EXCEPT !.setup = @ \ {s}]
          /\ UNCHANGED <<endpoints, setups, attached, endLock>> /\ updater.pc = "next"
      BY <1>3 DEF BeginSetup
    <2>2. /\ updater'.pc = "next" /\ updater'.delete = updater.delete
          /\ updater'.setup = updater.setup \ {s}
      BY <1>a, <2>1 DEF UpdaterType
    <2> QED
      BY <2>1, <2>2 DEF EndpointsInv, AttachedLive, Live, Subscriber
  <1>4. CASE Detach
    <2>1. /\ updater'.pc = "destroy" /\ updater.pc = "detach" /\ updater'.sub = updater.sub
          /\ updater'.delete = updater.delete /\ updater'.setup = updater.setup
      BY <1>4, <1>a DEF Detach, UpdaterType
    <2>2. /\ UNCHANGED <<endpoints, setups, endLock>> /\ attached' = attached \ {updater.sub}
      BY <1>4 DEF Detach
    <2> QED
      BY <2>1, <2>2 DEF EndpointsInv, AttachedLive, Live, Subscriber
  <1>5. CASE Destroy
    <2>1. /\ updater'.pc = "next" /\ updater.pc = "destroy"
          /\ updater'.delete = updater.delete \ {updater.sub[1]}
          /\ updater'.setup = updater.setup
      BY <1>5, <1>a DEF Destroy, UpdaterType
    <2>2. endpoints' = endpoints \ {updater.sub[1]} /\ UNCHANGED <<setups, attached, endLock>>
      BY <1>5 DEF Destroy
    <2>3. AttachedLive'
      <3> SUFFICES ASSUME NEW sub \in attached PROVE Live(sub)'
        BY <2>2 DEF AttachedLive
      <3>1. Live(sub) /\ Live(updater.sub) /\ updater.sub \notin attached
        BY <2>1 DEF EndpointsInv, AttachedLive
      <3>2. sub[1] # updater.sub[1]
        BY <3>1 DEF Live, Subscriber
      <3> QED
        BY <2>2, <3>1, <3>2 DEF Live, Subscriber
    <2> QED
      BY <2>1, <2>2, <2>3 DEF EndpointsInv
  <1>6. CASE Attach
    <2>1. /\ updater'.pc = "next" /\ updater.pc = "attach"
          /\ updater'.delete = updater.delete /\ updater'.setup = updater.setup
      BY <1>6, <1>a DEF Attach, UpdaterType
    <2>2. UNCHANGED <<endpoints, setups, endLock>> /\ attached' = attached \cup {updater.sub}
      BY <1>6 DEF Attach
    <2> QED
      BY <2>1, <2>2 DEF EndpointsInv, AttachedLive, Live, Subscriber
  <1>7. CASE EndUpdate
    <2>1. updater'.pc = "idle" /\ endLock' = "free" /\ UNCHANGED <<endpoints, setups, attached>>
      BY <1>7 DEF EndUpdate, IdleUpdater, channelVars
    <2> QED
      BY <2>1 DEF EndpointsInv, AttachedLive, Live, Subscriber
  <1>8. ASSUME NEW needed \in NeededSets, BeginUpdate(needed) PROVE EndpointsInv'
    <2>1. /\ updater'.pc = "next" /\ updater'.delete = endpoints \ needed
          /\ updater'.setup = needed \ endpoints /\ endLock' = "updater"
          /\ UNCHANGED <<endpoints, setups, attached>>
      BY <1>8, <1>a DEF BeginUpdate, UpdaterType, channelVars
    <2> QED
      BY <2>1 DEF EndpointsInv, AttachedLive, Live, Subscriber
  <1> QED
    BY <1>1, <1>2, <1>3, <1>4, <1>5, <1>6, <1>7, <1>8 DEF Updater

\* The other threads leave the channels alone.
LEMMA OthersKeepChannels ==
    (\/ WaitsetLoop \/ Callback \/ Crash \/ Join
     \/ \E m \in Messages : Publish(m)
     \/ \E d \in Devices : FailTransport(d))
        => UNCHANGED endpointVars
  BY DEF endpointVars, channelVars, updateVars, WaitsetLoop, Callback, LockWaitset, LoopEnds,
         TimedWait, WaitWhileSuspended, LoopAgain, Take, TakeFails, GenerateDeviceIndices, Begin,
         Discard, SendPending, SendNotPending, ForgetPending, Release, BufferSent,
         ReleasePending, Crash, Join, Publish, FailTransport

\* Every step keeps EndpointsInv.
LEMMA EndpointsStep == TypeInv /\ EndpointsInv /\ [Next]_vars => EndpointsInv'
  <1>1. UNCHANGED vars => UNCHANGED endpointVars
    BY DEF vars, endpointVars, channelVars, updateVars
  <1> QED
    BY <1>1, EndpointsStutter, EndpointsUpdater, OthersKeepChannels DEF Next

\* EndpointsInv is an invariant.
LEMMA EndpointsInvariant == Spec => []EndpointsInv
  <1>1. Init => EndpointsInv
    BY DEF Init, EndpointsInv, AttachedLive, IdleUpdater
  <1> QED
    BY <1>1, TypeInvariant, EndpointsStep, PTL DEF Spec

\* WaitsetIsLive: m_waitset never listens to a subscriber that is destroyed: the
\* event of a channel is detached before the channel is deleted, and no channel
\* is set up a second time while it exists, however the loop, the callbacks and
\* the updates are interleaved.
THEOREM WaitsetIsLive == Spec => []AttachedLive
  BY EndpointsInvariant, PTL DEF EndpointsInv

-----------------------------------------------------------------------------
(***************************************************************************)
(* Chunks are on loan while they are used, and are released once.          *)
(***************************************************************************)

\* A message with one device at most is done with after that device.
LEMMA NoNextDevice ==
    ASSUME NEW l \in LoopType, Len(l.devices) <= 1 PROVE NextDevice(l).pc = "dispatch"
  <1>1. l.devices \in Seq(Devices)
    BY DEF LoopType
  <1>2. l.devices # <<>> => Tail(l.devices) = <<>>
    BY <1>1
  <1> QED
    BY <1>2 DEF NextDevice, LoopType

\* The steps of the loop in which it has no message.
LEMMA QuietSteps ==
    ASSUME TypeInv,
           \/ LockWaitset \/ LoopEnds \/ TimedWait \/ WaitWhileSuspended \/ LoopAgain
           \/ \E sub \in loop.notified : TakeFails(sub)
    PROVE  ~Busy /\ ~Busy'
  <1>1. loop \in LoopType
    BY DEF TypeInv, TypeOK, LoopType
  <1> QED
    BY <1>1, IdleLoopType
       DEF LockWaitset, LoopEnds, TimedWait, WaitWhileSuspended, LoopAgain, TakeFails, Busy,
           LoopType

\* Taking a message.
LEMMA TakeEffect ==
    ASSUME TypeInv, NEW sub \in loop.notified, Take(sub)
    PROVE  /\ ~Busy /\ Busy' /\ loop'.pc = "indices" /\ loop'.sub = sub
           /\ loop'.msg = Head(queue[sub[1]])
           /\ sub \in Subscribers /\ sub[1] \in Services /\ queue[sub[1]] \in Seq(Messages)
           /\ queue[sub[1]] # <<>> /\ loop'.msg \in Messages
  <1>1. loop \in LoopType /\ queue \in [Services -> Seq(Messages)]
    BY DEF TypeInv, TypeOK, LoopType
  <1>2. sub \in Subscribers /\ sub[1] \in Services
    BY <1>1 DEF LoopType, Subscribers
  <1>3. /\ ~Busy /\ loop'.pc = "indices" /\ loop'.sub = sub
        /\ loop'.msg = Head(queue[sub[1]]) /\ queue[sub[1]] # <<>>
    BY <1>1 DEF Take, LoopType, Busy
  <1>4. Busy' /\ loop'.msg \in Messages
    BY <1>1, <1>2, <1>3 DEF Busy
  <1> QED
    BY <1>1, <1>2, <1>3, <1>4

\* The loop keeps the message it works on.
Kept == Busy /\ Busy' /\ loop'.msg = loop.msg /\ loop'.sub = loop.sub

\* Choosing the devices of a message.
LEMMA IndicesEffect ==
    ASSUME TypeInv, NEW list \in DeviceLists, GenerateDeviceIndices(list)
    PROVE  /\ Kept /\ loop.pc = "indices" /\ loop'.pc \in {"begin", "release"}
           /\ loop'.devices = list
  <1>1. loop \in LoopType
    BY DEF TypeInv, TypeOK, LoopType
  <1> QED
    BY <1>1 DEF GenerateDeviceIndices, LoopType, Busy, Kept

\* Sending begins: a message for a transfer becomes pending.
LEMMA BeginEffect ==
    ASSUME TypeInv, Begin
    PROVE  /\ Kept /\ loop.pc = "begin" /\ loop'.devices = loop.devices
           /\ \/ /\ loop'.pc = "discard" /\ pending' = pending
              \/ /\ loop'.pc = "send" /\ pending' = pending /\ ~loop'.shouldBePending
              \/ /\ loop'.pc = "send" /\ pending' = pending \cup {Chunk}
                 /\ loop'.shouldBePending /\ \A p \in pending : p[1] # loop.msg
  <1>1. loop \in LoopType
    BY DEF TypeInv, TypeOK, LoopType
  <1> DEFINE yes == TRUE
             no == FALSE
             with(y) == [loop EXCEPT !.pc = "send", !.shouldBePending = y]
  <1>2. ASSUME NEW y \in BOOLEAN
        PROVE  /\ with(y).pc = "send" /\ with(y).msg = loop.msg /\ with(y).sub = loop.sub
               /\ with(y).devices = loop.devices /\ with(y).shouldBePending = y
    BY <1>1 DEF LoopType
  <1>3. yes \in BOOLEAN /\ no \in BOOLEAN /\ yes /\ ~no
    OBVIOUS
  <1>4. /\ loop.pc = "begin"
        /\ \/ loop' = [loop EXCEPT !.pc = "discard"] /\ pending' = pending
           \/ loop' = with(no) /\ pending' = pending
           \/ loop' = with(yes) /\ pending' = pending \cup {Chunk} /\ CanPush(loop.msg)
    BY DEF Begin
  <1> HIDE DEF yes, no, with
  <1>5. CASE loop' = [loop EXCEPT !.pc = "discard"] /\ pending' = pending
    BY <1>1, <1>4, <1>5 DEF LoopType, Kept, Busy
  <1>6. CASE loop' = with(no) /\ pending' = pending
    BY <1>2, <1>3, <1>4, <1>6 DEF Kept, Busy
  <1>7. CASE loop' = with(yes) /\ pending' = pending \cup {Chunk} /\ CanPush(loop.msg)
    BY <1>2, <1>3, <1>4, <1>7 DEF Kept, Busy, CanPush
  <1> QED
    BY <1>4, <1>5, <1>6, <1>7

\* Steps after which the loop is done with a message that has one device.
LEMMA DoneEffect ==
    ASSUME TypeInv, LoopOwns, Discard \/ SendPending \/ Release
    PROVE  Busy /\ ~Busy'
  <1>1. loop \in LoopType
    BY DEF TypeInv, TypeOK, LoopType
  <1>2. Busy
    BY DEF Discard, SendPending, Release, Busy
  <1>3. CASE SendPending \/ Release
    <2>1. Len(loop.devices) <= 1 /\ loop' = NextDevice(loop)
      BY <1>3 DEF SendPending, Release, LoopOwns
    <2> QED
      BY <1>1, <1>2, <2>1, NoNextDevice DEF Busy
  <1>4. CASE Discard
    <2> DEFINE none == <<>>
               l == [loop EXCEPT !.devices = none]
    <2>1. none \in Seq(Devices) /\ Len(none) = 0
      OBVIOUS
    <2>2. loop' = NextDevice(l)
      BY <1>4 DEF Discard
    <2> HIDE DEF none
    <2>3. l \in LoopType /\ l.devices = none
      BY <1>1, <2>1 DEF LoopType
    <2> HIDE DEF l
    <2>4. NextDevice(l).pc = "dispatch"
      BY <2>1, <2>3, NoNextDevice
    <2> QED
      BY <1>2, <2>2, <2>4 DEF Busy
  <1> QED
    BY <1>3, <1>4

\* A message that is sent, or not.
LEMMA SendEffect ==
    ASSUME TypeInv, SendNotPending
    PROVE  /\ Kept /\ loop.pc = "send" /\ loop'.devices = loop.devices
           /\ loop'.shouldBePending = loop.shouldBePending
           /\ \/ loop'.pc = "pending" /\ loop.shouldBePending
              \/ loop'.pc = "release" /\ ~loop.shouldBePending
  <1>1. loop \in LoopType
    BY DEF TypeInv, TypeOK, LoopType
  <1> QED
    BY <1>1 DEF SendNotPending, LoopType, Busy, Kept

\* A message is not pending after all.
LEMMA ForgetEffect ==
    ASSUME TypeInv, LoopOwns, ForgetPending
    PROVE  /\ Kept /\ loop.pc = "pending" /\ loop'.devices = loop.devices
           /\ loop'.pc = "release" /\ pending' = pending \ {Chunk}
  <1>1. loop \in LoopType
    BY DEF TypeInv, TypeOK, LoopType
  <1>2. loop.pc = "pending" /\ Chunk \in pending
    BY DEF ForgetPending, LoopOwns
  <1> QED
    BY <1>1, <1>2 DEF ForgetPending, LoopType, Busy, Kept

\* The steps of the loop keep one owner for each message.
LEMMA OwnersLoop ==
    ASSUME SingleDevice, TypeInv, LoopOwns, TablesOwn, FreshInv, WaitsetLoop
    PROVE  LoopOwns' /\ TablesOwn'
  <1> USE DEF channelVars, updateVars, pendingVars
  <1>a. ASSUME UNCHANGED pendingVars PROVE TablesOwn'
    BY <1>a DEF TablesOwn
  <1>b. ASSUME ~Busy' PROVE LoopOwns'
    BY <1>b DEF LoopOwns, Busy
  <1>c. ASSUME Kept PROVE Chunk' = Chunk
    BY <1>c DEF Kept, Chunk
  <1>1. CASE \/ LockWaitset \/ LoopEnds \/ TimedWait \/ WaitWhileSuspended \/ LoopAgain
             \/ \E sub \in loop.notified : TakeFails(sub)
    <2>1. ~Busy'
      BY <1>1, QuietSteps
    <2>2. UNCHANGED pendingVars
      BY <1>1 DEF LockWaitset, LoopEnds, TimedWait, WaitWhileSuspended, LoopAgain, TakeFails
    <2> QED
      BY <1>a, <1>b, <2>1, <2>2
  <1>2. ASSUME NEW sub \in loop.notified, Take(sub) PROVE LoopOwns' /\ TablesOwn'
    <2> DEFINE m == loop'.msg
    <2>1. /\ loop'.pc = "indices" /\ m = queue[sub[1]][1] /\ sub[1] \in Services
          /\ 1 \in 1 .. Len(queue[sub[1]])
      BY <1>2, TakeEffect
    <2>2. ~InUse(m)
      BY <2>1 DEF FreshInv
    <2>3. UNCHANGED pendingVars
      BY <1>2 DEF Take
    <2>4. LoopOwns'
      BY <2>1, <2>2, <2>3 DEF LoopOwns, InUse
    <2> QED
      BY <1>a, <2>3, <2>4
  <1>3. ASSUME NEW list \in DeviceLists, GenerateDeviceIndices(list)
        PROVE  LoopOwns' /\ TablesOwn'
    <2>1. /\ Kept /\ loop.pc = "indices" /\ loop'.pc \in {"begin", "release"}
          /\ loop'.devices = list /\ Len(list) <= 1 /\ UNCHANGED pendingVars
      BY <1>3, IndicesEffect DEF SingleDevice, GenerateDeviceIndices
    <2>2. LoopOwns'
      BY <2>1, <1>c DEF LoopOwns, Kept
    <2> QED
      BY <1>a, <2>1, <2>2
  <1>4. CASE Begin
    <2>1. UNCHANGED <<dma, releasing>>
      BY <1>4 DEF Begin
    <2>2. Kept /\ loop.pc = "begin" /\ loop'.devices = loop.devices
      BY <1>4, BeginEffect
    <2>3. /\ \A p \in pending : p[1] # loop.msg
          /\ \A r \in releasing : r[1] # loop.msg
      BY <2>2 DEF LoopOwns, Kept
    <2>4. CASE \/ loop'.pc = "discard" /\ pending' = pending
               \/ loop'.pc = "send" /\ pending' = pending /\ ~loop'.shouldBePending
      <3>1. LoopOwns'
        BY <2>1, <2>2, <2>3, <2>4 DEF LoopOwns, Kept
      <3> QED
        BY <1>a, <2>1, <2>4, <3>1
    <2>5. CASE loop'.pc = "send" /\ pending' = pending \cup {Chunk} /\ loop'.shouldBePending
      <3>1. Chunk[1] = loop.msg
        BY DEF Chunk
      <3>2. LoopOwns'
        BY <1>c, <2>1, <2>2, <2>5, <3>1 DEF LoopOwns, Kept
      <3>3. TablesOwn'
        BY <2>1, <2>3, <2>5, <3>1 DEF TablesOwn
      <3> QED
        BY <3>2, <3>3
    <2>6. \/ loop'.pc = "discard" /\ pending' = pending
          \/ loop'.pc = "send" /\ pending' = pending /\ ~loop'.shouldBePending
          \/ loop'.pc = "send" /\ pending' = pending \cup {Chunk} /\ loop'.shouldBePending
      BY <1>4, BeginEffect, Zenon
    <2> QED
      BY <2>4, <2>5, <2>6
  <1>5. CASE Discard \/ Release
    BY <1>5, <1>a, <1>b, DoneEffect DEF Discard, Release
  <1>6. CASE SendPending
    <2>1. /\ dma' = dma \cup {<<loop.msg, Device>>} /\ UNCHANGED <<pending, releasing>>
          /\ loop.pc = "send" /\ loop.shouldBePending
      BY <1>6 DEF SendPending
    <2>2. ~Busy' /\ Busy
      BY <1>6, DoneEffect
    <2>3. Chunk \in pending /\ Chunk[1] = loop.msg /\ \A t \in dma : t[1] # loop.msg
      BY <2>1, <2>2 DEF LoopOwns, Chunk
    <2>4. TablesOwn'
      BY <2>1, <2>3 DEF TablesOwn
    <2> QED
      BY <1>b, <2>2, <2>4
  <1>7. CASE SendNotPending
    <2>1. UNCHANGED pendingVars
      BY <1>7 DEF SendNotPending
    <2>2. LoopOwns'
      BY <1>7, <1>c, <2>1, SendEffect DEF LoopOwns, Kept
    <2> QED
      BY <1>a, <2>1, <2>2
  <1>8. CASE ForgetPending
    <2>1. UNCHANGED <<dma, releasing>>
      BY <1>8 DEF ForgetPending
    <2>2. /\ Kept /\ loop.pc = "pending" /\ loop'.devices = loop.devices
          /\ loop'.pc = "release" /\ pending' = pending \ {Chunk}
      BY <1>8, ForgetEffect
    <2>3. Chunk \in pending /\ Chunk[1] = loop.msg /\ \A t \in dma : t[1] # loop.msg
      BY <2>2 DEF LoopOwns, Chunk, Kept
    <2>4. \A p \in pending' : p[1] # loop.msg
      BY <2>2, <2>3 DEF TablesOwn
    <2>5. LoopOwns'
      BY <2>1, <2>2, <2>4 DEF LoopOwns, Kept
    <2>6. TablesOwn'
      BY <2>1, <2>2, <2>3 DEF TablesOwn
    <2> QED
      BY <2>5, <2>6
  <1> QED
    BY <1>1, <1>2, <1>3, <1>4, <1>5, <1>6, <1>7, <1>8 DEF WaitsetLoop

\* So do the callbacks.
LEMMA OwnersCallback ==
    ASSUME TypeInv, LoopOwns, TablesOwn, Callback
    PROVE  LoopOwns' /\ TablesOwn'
  <1>1. ASSUME NEW m \in Messages, NEW d \in Devices, BufferSent(m, d)
        PROVE  LoopOwns' /\ TablesOwn'
    <2>1. /\ <<m, d>> \in dma /\ dma' = dma \ {<<m, d>>} /\ loop' = loop
          /\ pending' = {p \in pending : p[1] # m}
          /\ releasing' = releasing \cup {<<p[1], p[2], d>> : p \in pending \ pending'}
      BY <1>1 DEF BufferSent
    <2>2. \A r \in releasing' :
             \/ r \in releasing
             \/ r[1] = m /\ \E p \in pending : p[1] = m /\ r = <<p[1], p[2], d>>
      BY <2>1
    <2>3. Busy => loop.msg # m
      BY <2>1 DEF LoopOwns
    <2>4. \A r \in releasing : r[1] # m
      BY <2>1 DEF TablesOwn
    <2>5. LoopOwns'
      <3>1. Busy' = Busy /\ Chunk' = Chunk /\ Chunk[1] = loop.msg
        BY <2>1 DEF Busy, Chunk
      <3>2. Busy => \A r \in releasing' : r[1] # loop.msg
        BY <2>2, <2>3 DEF LoopOwns
      <3>3. loop.pc \in {"send", "pending"} /\ loop.shouldBePending => Chunk \in pending'
        BY <2>1, <2>3, <3>1 DEF LoopOwns, Busy
      <3> QED
        BY <2>1, <3>1, <3>2, <3>3 DEF LoopOwns
    <2>6. TablesOwn'
      <3>1. \A p, q \in pending' : p[1] = q[1] => p = q
        BY <2>1 DEF TablesOwn
      <3>2. \A r, q \in releasing' : r[1] = q[1] => r = q
        <4> SUFFICES ASSUME NEW r \in releasing', NEW q \in releasing', r[1] = q[1] PROVE r = q
          OBVIOUS
        <4>1. CASE r \in releasing
          BY <2>2, <2>4, <4>1 DEF TablesOwn
        <4>2. CASE r \notin releasing
          BY <2>2, <2>4, <4>2 DEF TablesOwn
        <4> QED
          BY <4>1, <4>2
      <3>3. \A t, u \in dma' : t[1] = u[1] => t = u
        BY <2>1 DEF TablesOwn
      <3>4. \A p \in pending', r \in releasing' : p[1] # r[1]
        BY <2>1, <2>2 DEF TablesOwn
      <3>5. \A t \in dma' : \E p \in pending' : p[1] = t[1]
        <4> SUFFICES ASSUME NEW t \in dma' PROVE \E p \in pending' : p[1] = t[1]
          OBVIOUS
        <4>1. t \in dma /\ t # <<m, d>>
          BY <2>1
        <4>2. t[1] # m
          BY <2>1, <4>1 DEF TablesOwn
        <4> QED
          BY <2>1, <4>1, <4>2 DEF TablesOwn
      <3> QED
        BY <3>1, <3>2, <3>3, <3>4, <3>5 DEF TablesOwn
    <2> QED
      BY <2>5, <2>6
  <1>2. ASSUME NEW r \in releasing, ReleasePending(r) PROVE LoopOwns' /\ TablesOwn'
    <2>1. releasing' \subseteq releasing /\ UNCHANGED <<loop, pending, dma>>
      BY <1>2 DEF ReleasePending
    <2> QED
      BY <2>1 DEF LoopOwns, TablesOwn, Busy, Chunk
  <1> QED
    BY <1>1, <1>2 DEF Callback

\* A subscriber that is destroyed does not come to life again: a channel that is
\* set up again gets a new one.
LEMMA LivesOnce ==
    ASSUME TypeInv, Next, NEW sub \in Subscribers, sub[2] <= setups[sub[1]]
    PROVE  sub[2] <= setups'[sub[1]] /\ (Live(sub)' => Live(sub))
  <1>a. /\ setups \in [Services -> 0 .. MaxUpdates] /\ sub[1] \in Services
        /\ sub[2] \in 0 .. MaxUpdates /\ sub = <<sub[1], sub[2]>>
    BY DEF TypeInv, TypeOK, Subscribers
  <1>1. CASE setups' = setups /\ endpoints' \subseteq endpoints
    BY <1>1 DEF Live, Subscriber
  <1>2. ASSUME NEW s \in Services, BeginSetup(s)
        PROVE  sub[2] <= setups'[sub[1]] /\ (Live(sub)' => Live(sub))
    <2>1. CASE setups' = [setups EXCEPT ![s] = @ + 1] /\ endpoints' = endpoints \cup {s}
      <3>1. CASE sub[1] = s
        <4>1. setups'[s] = setups[s] + 1
          BY <1>a, <2>1
        <4>2. sub[2] <= setups'[s] /\ sub[2] # setups'[s]
          BY <1>a, <3>1, <4>1, ForwardingAssumption
        <4> QED
          BY <1>a, <3>1, <4>2 DEF Live, Subscriber
      <3>2. CASE sub[1] # s
        <4>1. setups'[sub[1]] = setups[sub[1]]
          BY <1>a, <2>1, <3>2
        <4> QED
          BY <2>1, <3>2, <4>1 DEF Live, Subscriber
      <3> QED
        BY <3>1, <3>2
    <2> QED
      BY <1>1, <1>2, <2>1 DEF BeginSetup
  <1>3. CASE UNCHANGED endpointVars
    BY <1>1, <1>3 DEF endpointVars
  <1>4. CASE Detach \/ Destroy \/ Attach \/ EndUpdate \/ (\E s \in Services : BeginDelete(s))
             \/ \E needed \in NeededSets : BeginUpdate(needed)
    BY <1>1, <1>4 DEF Detach, Destroy, Attach, EndUpdate, BeginDelete, BeginUpdate, channelVars
  <1> QED
    BY <1>2, <1>3, <1>4, OthersKeepChannels DEF Next, Updater

\* What is on loan stays so until it is released.
LEMMA LoanStays ==
    ASSUME TypeInv, Next, NEW c \in Messages \X Subscribers, OnLoan(c),
           c \in held /\ Live(c[2])' => c \in held'
    PROVE  OnLoan(c)'
  <1>1. c[2] \in Subscribers /\ c[2][2] <= setups[c[2][1]]
    BY DEF OnLoan
  <1> QED
    BY <1>1, LivesOnce DEF OnLoan

\* The chunks that are awaited, and the loop's, have their types.
LEMMA AwaitedType ==
    ASSUME TypeInv
    PROVE  /\ Awaited \subseteq Messages \X Subscribers
           /\ Busy => Chunk \in Messages \X Subscribers
  <1>1. pending \subseteq Messages \X Subscribers
        /\ releasing \subseteq Messages \X Subscribers \X Devices
    BY DEF TypeInv, TypeOK
  <1>2. Awaited \subseteq Messages \X Subscribers
    BY <1>1 DEF Awaited
  <1>3. Busy => Chunk \in Messages \X Subscribers
    BY DEF TypeInv, LocalsInv, Chunk
  <1> QED
    BY <1>2, <1>3

\* Every step keeps HeldInv.
LEMMA HeldStep ==
    ASSUME TypeInv, LoanInv, Next
    PROVE  HeldInv'
  <1> USE DEF channelVars, updateVars, pendingVars
  <1>a. HeldInv /\ LoopOwns /\ TablesOwn
    BY DEF LoanInv
  \* A step in which nobody new needs a chunk and nothing is released.
  <1>b. ASSUME Busy' => Kept, Awaited' \subseteq Awaited \cup (IF Busy THEN {Chunk} ELSE {}),
               \A c \in held : Live(c[2])' => c \in held'
        PROVE  HeldInv'
    <2>1. ASSUME Busy' PROVE OnLoan(Chunk)'
      <3>1. Busy /\ Chunk' = Chunk
        BY <1>b, <2>1 DEF Kept, Chunk
      <3>2. PICK c \in Messages \X Subscribers : c = Chunk
        BY <3>1, AwaitedType
      <3>3. OnLoan(c)
        BY <1>a, <3>1, <3>2 DEF HeldInv, OnLoan, Live, Subscriber
      <3>4. OnLoan(c)'
        BY <1>b, <3>3, LoanStays
      <3> QED
        BY <3>1, <3>2, <3>4 DEF OnLoan, Live, Subscriber
    <2>2. ASSUME NEW c \in Awaited' PROVE OnLoan(c)'
      <3>1. c \in Messages \X Subscribers /\ OnLoan(c)
        BY <1>a, <1>b, AwaitedType DEF HeldInv
      <3> QED
        BY <1>b, <3>1, LoanStays
    <2> QED
      BY <2>1, <2>2 DEF HeldInv
  <1>1. CASE \/ LockWaitset \/ LoopEnds \/ TimedWait \/ WaitWhileSuspended \/ LoopAgain
             \/ \E sub \in loop.notified : TakeFails(sub)
    <2>1. ~Busy'
      BY <1>1, QuietSteps
    <2>2. UNCHANGED pendingVars /\ held' = held
      BY <1>1 DEF LockWaitset, LoopEnds, TimedWait, WaitWhileSuspended, LoopAgain, TakeFails
    <2> QED
      BY <1>b, <2>1, <2>2 DEF Awaited
  <1>2. ASSUME NEW sub \in loop.notified, Take(sub) PROVE HeldInv'
    <2>1. /\ held' = held \cup {<<Head(queue[sub[1]]), sub>>} /\ Live(sub)
          /\ UNCHANGED <<endpoints, setups, pendingVars>>
      BY <1>2 DEF Take
    <2>2. ASSUME NEW c \in Awaited' PROVE OnLoan(c)'
      <3>1. OnLoan(c)
        BY <1>a, <2>1 DEF HeldInv, Awaited
      <3> QED
        BY <2>1, <3>1 DEF OnLoan, Live, Subscriber
    <2>3. Chunk' = <<Head(queue[sub[1]]), sub>>
      BY <1>2, TakeEffect DEF Chunk
    <2>4. sub[2] <= setups[sub[1]]
      <3>1. sub \in Subscribers /\ setups \in [Services -> 0 .. MaxUpdates]
        BY <1>2, TakeEffect DEF TypeInv, TypeOK
      <3>2. sub[1] \in Services /\ sub[2] = setups[sub[1]]
        BY <2>1, <3>1 DEF Live, Subscriber, Subscribers
      <3> QED
        BY <3>1, <3>2
    <2>5. OnLoan(Chunk)'
      BY <2>1, <2>3, <2>4 DEF OnLoan
    <2> QED
      BY <2>2, <2>5 DEF HeldInv
  <1>3. ASSUME NEW list \in DeviceLists, GenerateDeviceIndices(list) PROVE HeldInv'
    BY <1>3, <1>b, IndicesEffect DEF GenerateDeviceIndices, Awaited
  <1>4. CASE Begin
    <2>1. UNCHANGED <<releasing, held>> /\ Kept /\ pending' \subseteq pending \cup {Chunk}
      BY <1>4, BeginEffect DEF Begin
    <2>2. Awaited' \subseteq Awaited \cup {Chunk}
      BY <2>1 DEF Awaited
    <2> QED
      BY <1>b, <2>1, <2>2 DEF Kept
  <1>5. CASE Discard \/ Release
    <2>1. /\ held' = held \ {Chunk} /\ UNCHANGED pendingVars
          /\ loop.pc \in {"release", "discard"}
      BY <1>5 DEF Discard, Release
    <2>2. Busy /\ ~Busy'
      BY <1>5, <1>a, DoneEffect
    <2>3. ASSUME NEW c \in Awaited' PROVE OnLoan(c)'
      <3>1. c \in Awaited
        BY <2>1 DEF Awaited
      <3>2. c[1] # loop.msg
        BY <1>a, <2>1, <2>2, <3>1 DEF Awaited, LoopOwns
      <3>3. OnLoan(c) /\ c \in Messages \X Subscribers /\ c # Chunk
        BY <1>a, <3>1, <3>2, AwaitedType DEF HeldInv, Chunk
      <3> QED
        BY <2>1, <3>3, LoanStays
    <2> QED
      BY <2>2, <2>3 DEF HeldInv
  <1>6. CASE SendPending
    BY <1>6, <1>a, <1>b, DoneEffect DEF SendPending, Awaited
  <1>7. CASE SendNotPending
    BY <1>7, <1>b, SendEffect DEF SendNotPending, Awaited
  <1>8. CASE ForgetPending
    <2>1. Kept /\ pending' \subseteq pending /\ UNCHANGED <<releasing, held>>
      BY <1>8, <1>a, ForgetEffect DEF ForgetPending
    <2> QED
      BY <1>b, <2>1 DEF Awaited
  <1>9. ASSUME NEW m \in Messages, NEW d \in Devices, BufferSent(m, d) PROVE HeldInv'
    <2>1. /\ pending' = {p \in pending : p[1] # m} /\ UNCHANGED <<loop, held>>
          /\ releasing' = releasing \cup {<<p[1], p[2], d>> : p \in pending \ pending'}
      BY <1>9 DEF BufferSent
    <2>2. ASSUME NEW c \in Awaited' PROVE c \in Awaited
      <3>1. CASE c \in pending'
        BY <2>1, <3>1 DEF Awaited
      <3>2. CASE \E r \in releasing' : c = <<r[1], r[2]>>
        <4>1. PICK r \in releasing' : c = <<r[1], r[2]>>
          BY <3>2
        <4>2. CASE r \in releasing
          BY <4>1, <4>2 DEF Awaited
        <4>3. CASE \E p \in pending : r = <<p[1], p[2], d>>
          <5>1. PICK p \in pending : r = <<p[1], p[2], d>>
            BY <4>3
          <5>2. p = <<p[1], p[2]>>
            BY DEF TypeInv, TypeOK
          <5> QED
            BY <4>1, <5>1, <5>2 DEF Awaited
        <4> QED
          BY <2>1, <4>2, <4>3
      <3> QED
        BY <3>1, <3>2 DEF Awaited
    <2>3. Busy' => Kept
      BY <2>1 DEF Kept, Busy
    <2> QED
      BY <1>b, <2>1, <2>2, <2>3
  <1>10. ASSUME NEW r \in releasing, ReleasePending(r) PROVE HeldInv'
    <2> DEFINE gone == <<r[1], r[2]>>
    <2>1. /\ releasing' = releasing \ {r} /\ held' = held \ {gone}
          /\ UNCHANGED <<loop, pending, endpoints, setups>>
      BY <1>10 DEF ReleasePending
    <2>2. ASSUME NEW c \in Awaited' PROVE OnLoan(c)'
      <3>1. c \in Awaited
        BY <2>1 DEF Awaited
      <3>2. c[1] # r[1]
        BY <1>a, <2>1 DEF Awaited, TablesOwn
      <3>3. OnLoan(c) /\ c # gone
        BY <1>a, <3>1, <3>2 DEF HeldInv
      <3> QED
        BY <2>1, <3>3 DEF OnLoan, Live, Subscriber
    <2>3. ASSUME Busy' PROVE OnLoan(Chunk)'
      <3>1. Busy /\ Chunk' = Chunk
        BY <2>1, <2>3 DEF Busy, Chunk
      <3>2. OnLoan(Chunk) /\ Chunk # gone
        BY <1>a, <3>1 DEF HeldInv, LoopOwns, Chunk
      <3> QED
        BY <2>1, <3>1, <3>2 DEF OnLoan, Live, Subscriber
    <2> QED
      BY <2>2, <2>3 DEF HeldInv
  <1>11. CASE Destroy
    <2>1. /\ held' = {h \in held : h[2] # updater.sub} /\ UNCHANGED <<loop, pendingVars>>
          /\ endpoints' = endpoints \ {updater.sub[1]}
      BY <1>11 DEF Destroy
    <2>2. \A c \in held : Live(c[2])' => c \in held'
      BY <2>1 DEF Live
    <2>3. Busy' => Kept
      BY <2>1 DEF Kept, Busy
    <2> QED
      BY <1>b, <2>1, <2>2, <2>3 DEF Awaited
  <1>12. CASE \/ Crash \/ Join \/ Detach \/ Attach \/ EndUpdate
              \/ \E s \in Services : BeginDelete(s) \/ BeginSetup(s)
              \/ \E m \in Messages : Publish(m)
              \/ \E d \in Devices : FailTransport(d)
              \/ \E needed \in NeededSets : BeginUpdate(needed)
    <2>1. UNCHANGED <<loop, pendingVars, held>>
      BY <1>12 DEF Crash, Join, Detach, Attach, EndUpdate, BeginDelete, BeginSetup, Publish,
                   FailTransport, BeginUpdate
    <2>2. Busy' => Kept
      BY <2>1 DEF Kept, Busy
    <2> QED
      BY <1>b, <2>1, <2>2 DEF Awaited
  <1> QED
    BY <1>1, <1>2, <1>3, <1>4, <1>5, <1>6, <1>7, <1>8, <1>9, <1>10, <1>11, <1>12
       DEF Next, WaitsetLoop, Callback, Updater

\* A queue loses its first messages or all of them.
Shortened(s) ==
    \/ queue'[s] = queue[s]
    \/ queue'[s] = <<>>
    \/ queue[s] # <<>> /\ queue'[s] = Tail(queue[s])

\* A step that takes nothing into use and adds to no queue keeps FreshInv.
LEMMA FreshKept ==
    ASSUME TypeInv, FreshInv, published' = published, \A s \in Services : Shortened(s),
           NEW S \in SUBSET Messages,
           \A m \in Messages : InUse(m)' => InUse(m) \/ m \in S,
           \A m \in S : m \in published,
           \A s \in Services : \A i \in 1 .. Len(queue'[s]) : queue'[s][i] \notin S
    PROVE  FreshInv'
  <1>a. queue \in [Services -> Seq(Messages)]
    BY DEF TypeInv, TypeOK
  <1>1. ASSUME NEW s \in Services, NEW i \in 1 .. Len(queue'[s])
        PROVE  /\ queue'[s][i] \in published' /\ ServiceOf[queue'[s][i]] = s
               /\ ~InUse(queue[s][i])'
               /\ \A j \in 1 .. Len(queue'[s]) : queue'[s][i] = queue'[s][j] => i = j
    <2>a. queue[s] \in Seq(Messages) /\ Shortened(s)
      BY <1>a
    <2>b. \A j \in 1 .. Len(queue[s]) :
             /\ queue[s][j] \in published /\ ServiceOf[queue[s][j]] = s
             /\ ~InUse(queue[s][j]) /\ queue[s][j] \in Messages
             /\ \A k \in 1 .. Len(queue[s]) : queue[s][j] = queue[s][k] => j = k
      BY <2>a DEF FreshInv
    <2>1. PICK n \in {0, 1} : \A j \in 1 .. Len(queue'[s]) :
             j + n \in 1 .. Len(queue[s]) /\ queue'[s][j] = queue[s][j + n]
      <3>1. CASE queue'[s] = queue[s]
        BY <2>a, <3>1
      <3>2. CASE queue[s] # <<>> /\ queue'[s] = Tail(queue[s])
        <4>1. \A j \in 1 .. Len(queue'[s]) :
                 j + 1 \in 1 .. Len(queue[s]) /\ queue'[s][j] = queue[s][j + 1]
          BY <2>a, <3>2
        <4> QED
          BY <4>1
      <3>3. CASE queue'[s] = <<>>
        BY <3>3
      <3> QED
        BY <2>a, <3>1, <3>2, <3>3 DEF Shortened
    <2> DEFINE k == i + n
    <2>2. k \in 1 .. Len(queue[s]) /\ queue'[s][i] = queue[s][k]
      BY <2>1
    <2>3. queue'[s][i] \in published' /\ ServiceOf[queue'[s][i]] = s
      BY <2>b, <2>2
    <2>4. ~InUse(queue[s][i])'
      <3>1. PICK m \in Messages : m = queue[s][k]
        BY <2>b, <2>2
      <3>2. ~InUse(m)
        BY <2>b, <2>2, <3>1 DEF InUse
      <3>3. ~InUse(m)'
        BY <2>2, <3>1, <3>2
      <3> QED
        BY <2>2, <3>1, <3>3 DEF InUse
    <2>5. ASSUME NEW j \in 1 .. Len(queue'[s]), queue'[s][i] = queue'[s][j] PROVE i = j
      <3>1. /\ i + n \in 1 .. Len(queue[s]) /\ queue'[s][i] = queue[s][i + n]
            /\ j + n \in 1 .. Len(queue[s]) /\ queue'[s][j] = queue[s][j + n]
        BY <2>1
      <3>2. i + n = j + n
        BY <2>b, <2>5, <3>1
      <3> QED
        BY <3>2
    <2> QED
      BY <2>3, <2>4, <2>5
  <1>2. \A m \in Messages : InUse(m)' => m \in published'
    BY DEF FreshInv
  <1> QED
    BY <1>1, <1>2 DEF FreshInv

\* When messages move between the loop and the tables nothing else is in use.
LEMMA UseKept ==
    ASSUME Busy' => Kept,
           \A p \in pending' : p \in pending \/ (Busy /\ p = Chunk),
           \A t \in dma' : t \in dma \/ (Busy /\ t[1] = loop.msg),
           \A r \in releasing' : r \in releasing \/ \E p \in pending : r[1] = p[1]
    PROVE  \A m \in Messages : InUse(m)' => InUse(m)
  <1>1. Chunk[1] = loop.msg
    BY DEF Chunk
  <1> QED
    BY <1>1 DEF InUse, Kept

\* Every step keeps FreshInv.
LEMMA FreshStep ==
    ASSUME TypeInv, LoanInv, Next
    PROVE  FreshInv'
  <1> USE DEF channelVars, updateVars, pendingVars
  <1>a. LoopOwns /\ TablesOwn /\ FreshInv
    BY DEF LoanInv
  <1>b. queue \in [Services -> Seq(Messages)]
    BY DEF TypeInv, TypeOK
  <1>c. ASSUME published' = published, \A s \in Services : Shortened(s),
               \A m \in Messages : InUse(m)' => InUse(m)
        PROVE  FreshInv'
    <2> DEFINE none == {}
    <2>1. /\ none \in SUBSET Messages /\ \A m \in none : m \in published
          /\ \A m \in Messages : InUse(m)' => InUse(m) \/ m \in none
          /\ \A s \in Services : \A i \in 1 .. Len(queue'[s]) : queue'[s][i] \notin none
      BY <1>c
    <2> HIDE DEF none
    <2> QED
      BY <1>a, <1>c, <2>1, FreshKept
  <1>d. ASSUME queue' = queue PROVE \A s \in Services : Shortened(s)
    BY <1>d DEF Shortened
  <1>1. CASE LockWaitset \/ LoopEnds \/ TimedWait \/ WaitWhileSuspended \/ LoopAgain
    <2>1. UNCHANGED <<published, queue, pendingVars>>
      BY <1>1 DEF LockWaitset, LoopEnds, TimedWait, WaitWhileSuspended, LoopAgain
    <2> QED
      BY <1>1, <1>c, <1>d, <2>1, QuietSteps, UseKept
  <1>2. ASSUME NEW sub \in loop.notified, TakeFails(sub) PROVE FreshInv'
    <2>1. UNCHANGED <<published, pendingVars>>
      BY <1>2 DEF TakeFails
    <2>2. \A s \in Services : Shortened(s)
      <3>1. CASE queue[sub[1]] # <<>> /\ queue' = [queue EXCEPT ![sub[1]] = Tail(@)]
        BY <1>b, <3>1 DEF Shortened
      <3> QED
        BY <1>2, <1>d, <3>1 DEF TakeFails
    <2> QED
      BY <1>2, <1>c, <2>1, <2>2, QuietSteps, UseKept
  <1>3. ASSUME NEW sub \in loop.notified, Take(sub) PROVE FreshInv'
    <2> DEFINE m == Head(queue[sub[1]])
               s == sub[1]
    <2>1. /\ UNCHANGED <<published, pendingVars>> /\ queue' = [queue EXCEPT ![s] = Tail(@)]
      BY <1>3 DEF Take
    <2>2. /\ ~Busy /\ Busy' /\ loop'.msg = m /\ m \in Messages /\ queue[s] # <<>>
          /\ s \in Services /\ queue[s] \in Seq(Messages)
      BY <1>3, TakeEffect
    <2>3. m = queue[s][1] /\ 1 \in 1 .. Len(queue[s])
      BY <2>2
    <2>4. \A x \in Services : Shortened(x)
      BY <1>b, <2>1, <2>2 DEF Shortened
    <2>5. \A x \in Messages : InUse(x)' => InUse(x) \/ x \in {m}
      BY <2>1, <2>2 DEF InUse
    <2>6. m \in published /\ ServiceOf[m] = s
      BY <1>a, <2>2, <2>3 DEF FreshInv
    <2>7. \A x \in Services : \A i \in 1 .. Len(queue'[x]) : queue'[x][i] \notin {m}
      <3> SUFFICES ASSUME NEW x \in Services, NEW i \in 1 .. Len(queue'[x])
                   PROVE  queue'[x][i] # m
        OBVIOUS
      <3>1. CASE x = s
        <4>1. queue'[s] = Tail(queue[s])
          BY <1>b, <2>1, <2>2
        <4>2. i + 1 \in 1 .. Len(queue[s]) /\ queue'[s][i] = queue[s][i + 1]
          BY <2>2, <3>1, <4>1
        <4> QED
          BY <1>a, <2>2, <2>3, <3>1, <4>2 DEF FreshInv
      <3>2. CASE x # s
        <4>1. queue'[x] = queue[x]
          BY <1>b, <2>1, <3>2
        <4> QED
          BY <1>a, <2>6, <3>2, <4>1 DEF FreshInv
      <3> QED
        BY <3>1, <3>2
    <2>8. {m} \in SUBSET Messages /\ \A x \in {m} : x \in published
      BY <2>2, <2>6
    <2> HIDE DEF m, s
    <2> QED
      BY <1>a, <2>1, <2>4, <2>5, <2>7, <2>8, FreshKept
  <1>4. ASSUME NEW list \in DeviceLists, GenerateDeviceIndices(list) PROVE FreshInv'
    <2>1. UNCHANGED <<published, queue, pendingVars>>
      BY <1>4 DEF GenerateDeviceIndices
    <2> QED
      BY <1>4, <1>c, <1>d, <2>1, IndicesEffect, UseKept
  <1>5. CASE Begin
    <2>1. UNCHANGED <<published, queue, dma, releasing>>
      BY <1>5 DEF Begin
    <2>2. Kept /\ pending' \subseteq pending \cup {Chunk}
      BY <1>5, BeginEffect
    <2> QED
      BY <1>c, <1>d, <2>1, <2>2, UseKept DEF Kept
  <1>6. CASE Discard \/ SendPending \/ Release
    <2>1. /\ UNCHANGED <<published, queue, pending, releasing>>
          /\ dma' \subseteq dma \cup {<<loop.msg, Device>>}
      BY <1>6 DEF Discard, SendPending, Release
    <2> QED
      BY <1>6, <1>a, <1>c, <1>d, <2>1, DoneEffect, UseKept
  <1>7. CASE SendNotPending
    <2>1. UNCHANGED <<published, queue, pendingVars>>
      BY <1>7 DEF SendNotPending
    <2> QED
      BY <1>7, <1>c, <1>d, <2>1, SendEffect, UseKept
  <1>8. CASE ForgetPending
    <2>1. UNCHANGED <<published, queue, dma, releasing>>
      BY <1>8 DEF ForgetPending
    <2> QED
      BY <1>8, <1>a, <1>c, <1>d, <2>1, ForgetEffect, UseKept
  <1>9. ASSUME NEW m \in Messages, NEW d \in Devices, BufferSent(m, d) PROVE FreshInv'
    <2>1. /\ pending' \subseteq pending /\ dma' \subseteq dma
          /\ UNCHANGED <<loop, published, queue>>
          /\ \A r \in releasing' : r \in releasing \/ \E p \in pending : r[1] = p[1]
      BY <1>9 DEF BufferSent
    <2>2. Busy' => Kept
      BY <2>1 DEF Kept, Busy
    <2> QED
      BY <1>c, <1>d, <2>1, <2>2, UseKept
  <1>10. ASSUME NEW m \in Messages, Publish(m) PROVE FreshInv'
    <2> DEFINE s == ServiceOf[m]
    <2>1. /\ m \notin published /\ published' = published \cup {m}
          /\ UNCHANGED <<loop, pendingVars>> /\ s \in Services
      BY <1>10, ForwardingAssumption DEF Publish
    <2>2. \A x \in Messages : InUse(x)' => InUse(x)
      BY <2>1 DEF InUse, Busy
    <2>3. ~InUse(m)
      BY <1>a, <2>1 DEF FreshInv
    <2>4. ASSUME NEW x \in Services
          PROVE  \/ queue'[x] = queue[x]
                 \/ x = s /\ queue'[x] = Append(queue[x], m)
      BY <1>10, <1>b, <2>1 DEF Publish
    <2>5. ASSUME NEW x \in Services, NEW i \in 1 .. Len(queue'[x])
          PROVE  /\ queue'[x][i] \in published' /\ ServiceOf[queue'[x][i]] = x
                 /\ ~InUse(queue[x][i])'
                 /\ \A j \in 1 .. Len(queue'[x]) : queue'[x][i] = queue'[x][j] => i = j
      <3>1. \A k \in 1 .. Len(queue[x]) :
               /\ queue[x][k] \in published /\ ServiceOf[queue[x][k]] = x
               /\ ~InUse(queue[x][k])
               /\ queue[x][k] \in Messages /\ queue[x][k] # m
               /\ \A j \in 1 .. Len(queue[x]) : queue[x][k] = queue[x][j] => k = j
        BY <1>a, <1>b, <2>1 DEF FreshInv
      <3>2. \A k \in 1 .. Len(queue'[x]) :
               \/ k \in 1 .. Len(queue[x]) /\ queue'[x][k] = queue[x][k]
               \/ k = Len(queue[x]) + 1 /\ queue'[x][k] = m /\ x = s
        BY <1>b, <2>4, SMTT(30)
      <3>3. queue'[x][i] \in published' /\ ServiceOf[queue'[x][i]] = x
        BY <2>1, <3>1, <3>2
      <3>4. PICK y \in Messages : y = queue'[x][i] /\ ~InUse(y)
        BY <2>3, <3>1, <3>2 DEF InUse
      <3>5. ~InUse(queue[x][i])'
        BY <2>2, <3>4 DEF InUse
      <3>6. \A j \in 1 .. Len(queue'[x]) : queue'[x][i] = queue'[x][j] => i = j
        BY <3>1, <3>2
      <3> QED
        BY <3>3, <3>5, <3>6
    <2>6. \A x \in Messages : InUse(x)' => x \in published'
      BY <1>a, <2>1, <2>2 DEF FreshInv
    <2> QED
      BY <2>5, <2>6 DEF FreshInv
  <1>11. CASE Destroy
    <2>1. /\ UNCHANGED <<published, loop, pendingVars>>
          /\ queue' = [queue EXCEPT ![updater.sub[1]] = <<>>]
      BY <1>11 DEF Destroy
    <2>2. \A s \in Services : Shortened(s)
      BY <1>b, <2>1 DEF Shortened
    <2>3. Busy' => Kept
      BY <2>1 DEF Kept, Busy
    <2> QED
      BY <1>c, <2>1, <2>2, <2>3, UseKept
  <1>12. CASE \/ Crash \/ Join \/ Detach \/ Attach \/ EndUpdate
              \/ \E r \in releasing : ReleasePending(r)
              \/ \E s \in Services : BeginDelete(s) \/ BeginSetup(s)
              \/ \E d \in Devices : FailTransport(d)
              \/ \E needed \in NeededSets : BeginUpdate(needed)
    <2>1. UNCHANGED <<published, queue, loop, pending, dma>> /\ releasing' \subseteq releasing
      BY <1>12 DEF Crash, Join, Detach, Attach, EndUpdate, BeginDelete, BeginSetup,
                   FailTransport, BeginUpdate, ReleasePending
    <2>2. Busy' => Kept
      BY <2>1 DEF Kept, Busy
    <2> QED
      BY <1>c, <1>d, <2>1, <2>2, UseKept
  <1> QED
    BY <1>1, <1>2, <1>3, <1>4, <1>5, <1>6, <1>7, <1>8, <1>9, <1>10, <1>11, <1>12
       DEF Next, WaitsetLoop, Callback, Updater

\* Every step keeps LoanInv.
LEMMA LoanStep ==
    ASSUME SingleDevice PROVE TypeInv /\ LoanInv /\ [Next]_vars => LoanInv'
  <1> USE DEF channelVars, updateVars, pendingVars
  <1> SUFFICES ASSUME TypeInv, LoanInv, [Next]_vars PROVE LoanInv'
    OBVIOUS
  <1>1. ASSUME UNCHANGED <<loop, pendingVars>>, LoopOwns, TablesOwn PROVE LoopOwns' /\ TablesOwn'
    BY <1>1 DEF LoopOwns, TablesOwn, Busy, Chunk
  <1>2. CASE Next
    <2>1. LoopOwns /\ TablesOwn /\ FreshInv
      BY DEF LoanInv
    <2>2. CASE \/ Updater \/ Crash \/ Join
               \/ \E m \in Messages : Publish(m)
               \/ \E d \in Devices : FailTransport(d)
               \/ \E needed \in NeededSets : BeginUpdate(needed)
      <3>1. UNCHANGED <<loop, pendingVars>>
        BY <2>2 DEF Updater, Crash, Join, Publish, FailTransport, BeginUpdate, Detach, Destroy,
                    Attach, EndUpdate, BeginDelete, BeginSetup
      <3> QED
        BY <1>1, <1>2, <2>1, <3>1, HeldStep, FreshStep DEF LoanInv
    <2>3. CASE WaitsetLoop \/ Callback
      BY <1>2, <2>1, <2>3, OwnersLoop, OwnersCallback, HeldStep, FreshStep DEF LoanInv
    <2> QED
      BY <1>2, <2>2, <2>3 DEF Next
  <1>3. CASE UNCHANGED vars
    <2>1. LoopOwns' /\ TablesOwn'
      BY <1>1, <1>3 DEF vars, LoanInv
    <2>2. HeldInv'
      BY <1>3 DEF vars, LoanInv, HeldInv, Busy, Chunk, OnLoan, Live, Subscriber, Awaited
    <2>3. FreshInv'
      BY <1>3 DEF vars, LoanInv, FreshInv, InUse, Busy
    <2> QED
      BY <2>1, <2>2, <2>3 DEF LoanInv
  <1> QED
    BY <1>2, <1>3

\* LoanInv is an invariant.
LEMMA LoanInvariant == ASSUME SingleDevice PROVE Spec => []LoanInv
  <1>1. Init => LoanInv
    <2> SUFFICES ASSUME Init PROVE LoanInv
      OBVIOUS
    <2>1. ~Busy /\ pending = {} /\ dma = {} /\ releasing = {}
          /\ \A s \in Services : Len(queue[s]) = 0
      BY DEF Init, Busy, IdleLoop
    <2>2. HeldInv /\ LoopOwns /\ TablesOwn
      BY <2>1 DEF HeldInv, Awaited, LoopOwns, TablesOwn, Busy
    <2>3. FreshInv
      BY <2>1 DEF FreshInv, InUse
    <2> QED
      BY <2>2, <2>3 DEF LoanInv
  <1> QED
    BY <1>1, TypeInvariant, LoanStep, PTL DEF Spec

\* PayloadsStayHeld: what the loop sends, and what a transfer reads, is on loan
\* from iceoryx until the buffer sent callback, unless the channel is deleted,
\* when every message goes to one device at most.
THEOREM PayloadsStayHeld == ASSUME SingleDevice PROVE Spec => []PayloadHeld
  <1>1. LoanInv => PayloadHeld
    BY DEF LoanInv, HeldInv, Busy, Awaited, OnLoan, LoopOwns, TablesOwn, PayloadHeld, Chunk
  <1> QED
    BY <1>1, LoanInvariant, PTL

\* ChunksReleasedOnce: the loop and the callbacks never both release a chunk of
\* a channel that exists, when every message goes to one device at most.
THEOREM ChunksReleasedOnce == ASSUME SingleDevice PROVE Spec => []ReleasedOnce
  <1>1. LoanInv => ReleasedOnce
    BY DEF LoanInv, HeldInv, Busy, Awaited, OnLoan, ReleasedOnce, Chunk
  <1> QED
    BY <1>1, LoanInvariant, PTL
=============================================================================
