---------------------------- MODULE TcpTransport ----------------------------
(***************************************************************************)
(* TCPTransport with its client and server sessions, on every node of a    *)
(* network.  A gateway that hears a broadcast connects to the sender; it   *)
(* accepts connections of others; there is at most one session for each    *)
(* device, and the position of the session in m_transportSessions is the   *)
(* device index.                                                           *)
(*                                                                         *)
(* The handlers of a node run on one thread and are one step each.  User   *)
(* data is sent by other threads, without a lock: a message is written in  *)
(* two steps, its size and then its bytes.                                 *)
(*                                                                         *)
(* External: TCP connections, which are reliable byte streams until one    *)
(* end is closed, and the queue of connections that wait to be accepted.   *)
(* Broadcasts are repeated for ever, so the last gateway of a node may be  *)
(* heard at any time.  An info is the hash of the gateway it is about, a   *)
(* node with the number of its gateway.                                    *)
(***************************************************************************)
EXTENDS UdpBroadcast

CONSTANTS
    Threads,            \* number of threads that send user data, on every node
    Senders,            \* nodes that send user data
    MaxRetries,         \* max_reconnection_attempts
    MaxConnections,     \* connections that exist at a time
    MaxMessages,        \* bound: messages from one node to another
    MaxFailures,        \* bound: failures of the network, of sockets and gateways
    MayFail,            \* nodes whose sockets may report errors
    MayCrash,           \* nodes whose gateway may crash
    MaxLives,           \* bound: how many gateways run on a node
    NoConnection, NoMessage

ASSUME TcpAssumption ==
    /\ IsFiniteSet(Nodes)
    /\ Cardinality(Nodes) - 1 <= MAX_DEVICE_COUNT
    /\ Senders \subseteq Nodes /\ MayFail \subseteq Nodes /\ MayCrash \subseteq Nodes
    /\ Threads \in Nat /\ MAX_DEVICE_COUNT \in Nat /\ MaxRetries \in Nat /\ MaxConnections \in Nat
    /\ MaxMessages \in Nat /\ MaxFailures \in Nat /\ MaxLives \in Nat \ {0}
    /\ NoConnection \notin 1 .. MaxConnections
    /\ NoMessage \notin [from : Nodes, to : Nodes, number : Nat]

VARIABLES
    up,             \* nodes whose gateway runs
    life,           \* the number of the last gateway of each node
    deafAcceptor,   \* nodes whose acceptor has reported an error
    sessions,       \* m_transportSessions
    infoToReport,   \* m_infoToReport
    told,           \* the device index that DiscoveryManager stores
    connections,    \* TCP connections
    backlog,        \* connections that wait to be accepted
    sender,         \* the locals of sendData
    sent,           \* the number of the last message from one node to another
    received,       \* the number of the last message handed up
    failures,       \* number of failures so far
    faults          \* history: what has gone wrong

sessionVars == <<sessions, infoToReport, told>>
networkVars == <<connections, backlog>>
dataVars == <<sender, sent, received, faults>>
nodeVars == <<broadcastVars, up, life, deafAcceptor>>
vars == <<nodeVars, sessionVars, networkVars, dataVars, failures>>

-----------------------------------------------------------------------------
GatewayHashes == Nodes \X (1 .. MaxLives)
Hash(m) == <<m, life[m]>>

Links == {l \in Nodes \X Nodes : l[1] # l[2]}
ConnectionIds == 1 .. MaxConnections
Ends == {"client", "server"}
Peer(e) == IF e = "client" THEN "server" ELSE "client"

Message == [from : Nodes, to : Nodes, number : 1 .. MaxMessages]

\* A message on the wire: its size, then its bytes.
Tokens == {"size", "data"} \X Message

\* waiting: for the retry timer.  garbled: the stream is out of step.
States == {"connecting", "waiting", "open", "garbled"}

Session == [peer : Nodes, end : Ends, state : States,
            retriesLeft : 0 .. MaxRetries, connection : ConnectionIds \cup {NoConnection},
            readBufferSize : Message \cup {NoMessage}]

\* toRead: what each end has still to read.  When both ends are closed, the
\* connection is gone.
Connection == [closed : (SUBSET Ends) \ {Ends}, toRead : [Ends -> Seq(Tokens)]]

ASSUME NoConnectionAssumption == NoConnection \notin Connection

\* A number is not given to another connection while a thread still uses it.
FreeConnections ==
    {c \in ConnectionIds : /\ connections[c] = NoConnection
                           /\ \A n \in Nodes, t \in 1 .. Threads : sender[n][t].connection # c}

ClientSession(m) ==
    [peer |-> m, end |-> "client", state |-> "connecting", retriesLeft |-> MaxRetries,
     connection |-> NoConnection, readBufferSize |-> NoMessage]

ServerSession(m, c) ==
    [peer |-> m, end |-> "server", state |-> "open", retriesLeft |-> 0,
     connection |-> c, readBufferSize |-> NoMessage]

IdleSender == [connection |-> NoConnection, end |-> "client", message |-> NoMessage]

\* findSession
SessionsTo(n, m) == {i \in 1 .. Len(sessions[n]) : sessions[n][i].peer = m}

\* The gateways of these nodes run.
InitWith(running) ==
    /\ InitBroadcast
    /\ up = running
    /\ life = [n \in Nodes |-> 1]
    /\ deafAcceptor = {}
    /\ sessions = [n \in Nodes |-> <<>>]
    /\ infoToReport = [n \in Nodes |-> <<>>]
    /\ told = [n \in Nodes |-> [h \in GatewayHashes |-> NoIndex]]
    /\ connections = [c \in ConnectionIds |-> NoConnection]
    /\ backlog = [n \in Nodes |-> <<>>]
    /\ sender = [n \in Nodes |-> [t \in 1 .. Threads |-> IdleSender]]
    /\ sent = [l \in Links |-> 0]
    /\ received = [l \in Links |-> 0]
    /\ failures = 0
    /\ faults = {}

Init == InitWith(Nodes)

-----------------------------------------------------------------------------
(***************************************************************************)
(* Discovery: broadcasts, and what is reported to DiscoveryManager.        *)
(***************************************************************************)

\* The network, a socket or a gateway fails.
Failure ==
    /\ failures < MaxFailures
    /\ failures' = failures + 1

\* remoteDiscoveryHandler; the first index of a gateway is the one that stays.
Told(n, hash, index) ==
    IF told[n][hash] = NoIndex THEN [told EXCEPT ![n][hash] = index] ELSE told

\* Mutant of UdpDiscoveryCallback: with a session, a later info is not reported.
UdpDiscoveryCallbackOnce(n, m) ==
    /\ n \in up \ deaf /\ m # n /\ SessionsTo(n, m) = {}
    /\ devices' = [devices EXCEPT ![n] = DevicesWith(n, m)]
    /\ infoToReport' = IF Len(infoToReport[n]) < MAX_DEVICE_COUNT
                       THEN [infoToReport EXCEPT ![n] = Append(@, Hash(m))] ELSE infoToReport
    /\ sessions' = [sessions EXCEPT ![n] = Append(@, ClientSession(m))]
    /\ UNCHANGED <<deaf, up, life, deafAcceptor, told, networkVars, dataVars, failures>>

\* udpDiscoveryCallback: a device without a session gets one, and the info
\* waits until that is open (m_infoToReport may be full).  Otherwise the info
\* is reported with the position of the session, open or not.
UdpDiscoveryCallback(n, m) ==
    /\ n \in up \ deaf /\ m # n
    /\ devices' = [devices EXCEPT ![n] = DevicesWith(n, m)]
    /\ IF SessionsTo(n, m) = {}
       THEN /\ infoToReport' =
                  IF Len(infoToReport[n]) < MAX_DEVICE_COUNT
                  THEN [infoToReport EXCEPT ![n] = Append(@, Hash(m))] ELSE infoToReport
            /\ sessions' = [sessions EXCEPT ![n] = Append(@, ClientSession(m))]
            /\ UNCHANGED told
       ELSE /\ \E i \in SessionsTo(n, m) : told' = Told(n, Hash(m), i)
            /\ UNCHANGED <<infoToReport, sessions>>
    /\ UNCHANGED <<deaf, up, life, deafAcceptor, networkVars, dataVars, failures>>

BroadcastError(n) ==
    /\ n \in up \cap MayFail
    /\ DiscoverySocketError(n) /\ Failure
    /\ UNCHANGED <<up, life, deafAcceptor, sessionVars, networkVars, dataVars>>

\* handleSessionOpen for a session with peer m at position i: the first info of
\* that device that waits is reported and removed.
HandleSessionOpen(n, m, i) ==
    LET waiting == {k \in DOMAIN infoToReport[n] : infoToReport[n][k][1] = m}
    IN  IF waiting = {}
        THEN UNCHANGED <<told, infoToReport>>
        ELSE /\ told' = Told(n, infoToReport[n][Min(waiting)], i)
             /\ infoToReport' = [infoToReport EXCEPT ![n] = RemoveAt(@, Min(waiting))]

-----------------------------------------------------------------------------
(***************************************************************************)
(* Sessions.                                                               *)
(***************************************************************************)

\* One end of a connection is closed; with both ends it is gone.
Closed(c, e) ==
    IF connections[c].closed \cup {e} = Ends
    THEN [connections EXCEPT ![c] = NoConnection]
    ELSE [connections EXCEPT ![c].closed = @ \cup {e}]

\* sessionClosedHandler and handleSessionClose: the session leaves the vector,
\* and those behind it move up.
SessionClosed(n, i) ==
    /\ sessions' = [sessions EXCEPT ![n] = RemoveAt(@, i)]
    /\ connections' = IF sessions[n][i].connection = NoConnection THEN connections
                      ELSE Closed(sessions[n][i].connection, sessions[n][i].end)

\* async_connect succeeds as soon as the connection waits to be accepted.  The
\* retries that are left no longer matter then.
Connected(n, i) ==
    /\ n \in up /\ sessions[n][i].state = "connecting" /\ sessions[n][i].peer \in up
    /\ FreeConnections # {}
    /\ LET c == Min(FreeConnections)
       IN /\ connections' = [connections EXCEPT ![c] =
                [closed |-> {}, toRead |-> [e \in Ends |-> <<>>]]]
          /\ backlog' = [backlog EXCEPT ![sessions[n][i].peer] = Append(@, <<c, n>>)]
          /\ sessions' = [sessions EXCEPT ![n][i] =
                [@ EXCEPT !.state = "open", !.connection = c, !.retriesLeft = 0]]
    /\ HandleSessionOpen(n, sessions[n][i].peer, i)
    /\ UNCHANGED <<nodeVars, dataVars, failures>>

\* Mutant of ConnectionFailed: the retries are not counted.
ConnectionFailedForever(n, i) ==
    /\ n \in up /\ sessions[n][i].state = "connecting" /\ sessions[n][i].peer \notin up
    /\ sessions' = [sessions EXCEPT ![n][i].state = "waiting"]
    /\ UNCHANGED <<nodeVars, infoToReport, told, networkVars, dataVars, failures>>

\* connectionFailedHandler: a retry, later, or the end of the session, whose
\* info stays in m_infoToReport.
ConnectionFailed(n, i) ==
    /\ n \in up /\ sessions[n][i].state = "connecting"
    /\ \/ Failure
       \/ /\ sessions[n][i].peer \notin up \/ FreeConnections = {}
          /\ UNCHANGED failures
    /\ IF sessions[n][i].retriesLeft > 0
       THEN /\ sessions' = [sessions EXCEPT ![n][i].state = "waiting", ![n][i].retriesLeft = @ - 1]
            /\ UNCHANGED connections
       ELSE SessionClosed(n, i)
    /\ UNCHANGED <<nodeVars, infoToReport, told, backlog, dataVars>>

\* m_retryTimer expires: connectToEndpoint.
Retry(n, i) ==
    /\ n \in up /\ sessions[n][i].state = "waiting"
    /\ sessions' = [sessions EXCEPT ![n][i].state = "connecting"]
    /\ UNCHANGED <<nodeVars, infoToReport, told, networkVars, dataVars, failures>>

\* Mutant of Accept: there is no look for a session of the device.
AcceptAlways(n) ==
    /\ n \in up \ deafAcceptor /\ backlog[n] # <<>>
    /\ LET m == Head(backlog[n])[2]
       IN  /\ sessions' = [sessions EXCEPT ![n] =
                 Append(@, ServerSession(m, Head(backlog[n])[1]))]
           /\ HandleSessionOpen(n, m, Len(sessions[n]) + 1)
    /\ backlog' = [backlog EXCEPT ![n] = Tail(@)]
    /\ UNCHANGED <<connections, nodeVars, dataVars, failures>>

\* startAccept: the next connection that waits becomes a session, unless there
\* is a session for its device, open or not.
Accept(n) ==
    /\ n \in up \ deafAcceptor /\ backlog[n] # <<>>
    /\ LET c == Head(backlog[n])[1]
           m == Head(backlog[n])[2]
       IN  IF SessionsTo(n, m) = {}
           THEN /\ sessions' = [sessions EXCEPT ![n] = Append(@, ServerSession(m, c))]
                /\ HandleSessionOpen(n, m, Len(sessions[n]) + 1)
                /\ UNCHANGED connections
           ELSE /\ connections' = Closed(c, "server")
                /\ UNCHANGED sessionVars
    /\ backlog' = [backlog EXCEPT ![n] = Tail(@)]
    /\ UNCHANGED <<nodeVars, dataVars, failures>>

\* async_accept reports an error: the transport has failed, and startAccept is
\* not called again.
AcceptError(n) ==
    /\ n \in (up \cap MayFail) \ deafAcceptor
    /\ deafAcceptor' = deafAcceptor \cup {n} /\ Failure
    /\ UNCHANGED <<broadcastVars, up, life, sessionVars, networkVars, dataVars>>

-----------------------------------------------------------------------------
(***************************************************************************)
(* User data.                                                              *)
(***************************************************************************)

\* What is written at end e of c.  The peer may have closed its end: then the
\* bytes get lost.
Written(c, e, token) ==
    IF Peer(e) \in connections[c].closed
    THEN connections
    ELSE [connections EXCEPT ![c].toRead[Peer(e)] = Append(@, token)]

\* sendUserData to a gateway, then the first half of sendData.  The message is
\* lost if there is no session at the index, or its socket is not connected.
\* (Threads are alike: the first that is idle stands for any of them.)
SendSize(n, t, hash) ==
    /\ n \in up \cap Senders
    /\ sender[n][t] = IdleSender /\ \A u \in 1 .. t - 1 : sender[n][u] # IdleSender
    /\ told[n][hash] # NoIndex /\ sent[<<n, hash[1]>>] < MaxMessages
    /\ sent' = [sent EXCEPT ![<<n, hash[1]>>] = @ + 1]
    /\ LET message == [from |-> n, to |-> hash[1], number |-> sent[<<n, hash[1]>>] + 1]
           s == sessions[n][told[n][hash]]
       IN  IF told[n][hash] \in DOMAIN sessions[n] /\ s.state \in {"open", "garbled"}
           THEN /\ sender' = [sender EXCEPT ![n][t] =
                      [connection |-> s.connection, end |-> s.end, message |-> message]]
                /\ connections' = Written(s.connection, s.end, <<"size", message>>)
                /\ faults' = IF \E u \in 1 .. Threads : sender[n][u].connection = s.connection
                             THEN faults \cup {"overlap"} ELSE faults
           ELSE UNCHANGED <<sender, connections, faults>>
    /\ UNCHANGED <<nodeVars, sessionVars, backlog, received, failures>>

\* The second half.  When the session has been erased meanwhile, the write goes
\* to freed memory: it fails, or writes into a session that now lies there.
SendBytes(n, t) ==
    /\ sender[n][t] # IdleSender
    /\ LET s == sender[n][t]
           open == {i \in DOMAIN sessions[n] : sessions[n][i].connection # NoConnection}
           bytes == <<"data", s.message>>
       IN  IF \E i \in open : sessions[n][i].connection = s.connection
           THEN /\ connections' = Written(s.connection, s.end, bytes)
                /\ UNCHANGED faults
           ELSE /\ faults' = faults \cup {"stray"}
                /\ \/ UNCHANGED connections
                   \/ \E i \in open : connections' =
                         Written(sessions[n][i].connection, sessions[n][i].end, bytes)
    /\ sender' = [sender EXCEPT ![n][t] = IdleSender]
    /\ UNCHANGED <<nodeVars, sessionVars, backlog, sent, received, failures>>

\* What the session at position i of n has still to read.
Unread(n, i) == connections[sessions[n][i].connection].toRead[sessions[n][i].end]

\* The first of it has been read.
ConnectionsRead(n, i) ==
    [connections EXCEPT ![sessions[n][i].connection].toRead[sessions[n][i].end] = Tail(@)]

Reading(n, i) ==
    /\ n \in up /\ sessions[n][i].state = "open" /\ Unread(n, i) # <<>>

\* readOuter
ReadSize(n, i) ==
    /\ Reading(n, i) /\ sessions[n][i].readBufferSize = NoMessage
    /\ Head(Unread(n, i))[1] = "size"
    /\ sessions' = [sessions EXCEPT ![n][i].readBufferSize = Head(Unread(n, i))[2]]
    /\ connections' = ConnectionsRead(n, i)
    /\ UNCHANGED <<nodeVars, infoToReport, told, backlog, dataVars, failures>>

\* Mutant of ReadBytes: the next read does not begin with a size.
ReadBytesOnly(n, i) ==
    LET message == sessions[n][i].readBufferSize
    IN  /\ Reading(n, i) /\ Head(Unread(n, i)) = <<"data", message>>
        /\ connections' = ConnectionsRead(n, i)
        /\ received' = [received EXCEPT ![<<message.from, n>>] = message.number]
        /\ UNCHANGED <<nodeVars, sessionVars, backlog, sender, sent, faults, failures>>

\* readInner and handleUserDataCallback, which discards data of a device that
\* the discovery socket has not heard of.
ReadBytes(n, i) ==
    LET message == sessions[n][i].readBufferSize
    IN  /\ Reading(n, i) /\ Head(Unread(n, i)) = <<"data", message>>
        /\ sessions' = [sessions EXCEPT ![n][i].readBufferSize = NoMessage]
        /\ connections' = ConnectionsRead(n, i)
        /\ received' = IF GetIndex(n, sessions[n][i].peer) = NoIndex THEN received
                       ELSE [received EXCEPT ![<<message.from, n>>] = message.number]
        /\ UNCHANGED <<nodeVars, infoToReport, told, backlog, sender, sent, faults, failures>>

\* A size is taken for bytes, or bytes for a size or for those of another
\* message: from here on what is handed up is no message.
ReadGarbled(n, i) ==
    /\ Reading(n, i)
    /\ IF sessions[n][i].readBufferSize = NoMessage
       THEN Head(Unread(n, i))[1] = "data"
       ELSE Head(Unread(n, i)) # <<"data", sessions[n][i].readBufferSize>>
    /\ sessions' = [sessions EXCEPT ![n][i].state = "garbled"]
    /\ faults' = faults \cup {"garbled"}
    /\ UNCHANGED <<nodeVars, infoToReport, told, networkVars, sender, sent, received, failures>>

\* processErrorCode: the peer has closed its end, and what it had written may
\* be lost, or the network fails.
ReadError(n, i) ==
    /\ n \in up /\ sessions[n][i].state \in {"open", "garbled"}
    /\ \/ Failure
       \/ /\ Peer(sessions[n][i].end) \in connections[sessions[n][i].connection].closed
          /\ UNCHANGED failures
    /\ SessionClosed(n, i)
    /\ UNCHANGED <<nodeVars, infoToReport, told, backlog, dataVars>>

-----------------------------------------------------------------------------
(***************************************************************************)
(* Gateways that crash and start anew.                                     *)
(***************************************************************************)

\* The ends of connections that a node holds.
EndsOf(n) ==
    {<<sessions[n][i].connection, sessions[n][i].end>> : i \in DOMAIN sessions[n]}
       \cup {<<entry[1], "server">> : entry \in ToSet(backlog[n])}

Crash(n) ==
    /\ n \in up \cap MayCrash /\ Failure
    /\ up' = up \ {n}
    /\ connections' = [c \in ConnectionIds |->
          IF connections[c] = NoConnection THEN NoConnection
          ELSE LET closed == connections[c].closed \cup {e \in Ends : <<c, e>> \in EndsOf(n)}
               IN  IF closed = Ends THEN NoConnection
                   ELSE [connections[c] EXCEPT !.closed = closed]]
    /\ devices' = [devices EXCEPT ![n] = <<>>]
    /\ sessions' = [sessions EXCEPT ![n] = <<>>]
    /\ infoToReport' = [infoToReport EXCEPT ![n] = <<>>]
    /\ told' = [told EXCEPT ![n] = [h \in GatewayHashes |-> NoIndex]]
    /\ backlog' = [backlog EXCEPT ![n] = <<>>]
    /\ sender' = [sender EXCEPT ![n] = [t \in 1 .. Threads |-> IdleSender]]
    /\ deaf' = deaf \ {n}
    /\ deafAcceptor' = deafAcceptor \ {n}
    /\ UNCHANGED <<life, sent, received, faults>>

Restart(n) ==
    /\ n \notin up /\ life[n] < MaxLives
    /\ up' = up \cup {n}
    /\ life' = [life EXCEPT ![n] = @ + 1]
    /\ UNCHANGED <<broadcastVars, deafAcceptor, sessionVars, networkVars, dataVars, failures>>

-----------------------------------------------------------------------------
\* What the io context of n does for the session at position i.
SessionStep(n, i) ==
    \/ Connected(n, i) \/ ConnectionFailed(n, i) \/ Retry(n, i)
    \/ ReadSize(n, i) \/ ReadBytes(n, i) \/ ReadGarbled(n, i) \/ ReadError(n, i)

Next ==
    \/ \E n, m \in Nodes : UdpDiscoveryCallback(n, m)
    \/ \E n \in Nodes : \E i \in DOMAIN sessions[n] : SessionStep(n, i)
    \/ \E n \in Nodes : Accept(n) \/ AcceptError(n) \/ BroadcastError(n)
    \/ \E n \in Nodes, t \in 1 .. Threads :
          SendBytes(n, t) \/ \E h \in GatewayHashes : SendSize(n, t, h)
    \/ \E n \in Nodes : Crash(n) \/ Restart(n)

Spec == Init /\ [][Next]_vars

\* A gateway that runs broadcasts for ever and a broadcast is not lost for ever;
\* every attempt to connect ends, timers expire, the io context runs the
\* handlers that are ready, and a write ends.
Fairness ==
    /\ \A l \in Links : WF_vars(l[2] \in up /\ UdpDiscoveryCallback(l[1], l[2]))
    /\ \A n \in Nodes : \A i \in 1 .. MAX_DEVICE_COUNT :
          WF_vars(i \in DOMAIN sessions[n] /\ SessionStep(n, i))
    /\ \A n \in Nodes : WF_vars(Accept(n))
    /\ \A n \in Senders, t \in 1 .. Threads : WF_vars(SendBytes(n, t))

FairSpec == Spec /\ Fairness

-----------------------------------------------------------------------------
TypeOK ==
    /\ devices \in [Nodes -> Seq(Nodes)] /\ deaf \subseteq up
    /\ up \subseteq Nodes /\ deafAcceptor \subseteq up
    /\ life \in [Nodes -> 1 .. MaxLives]
    /\ sessions \in [Nodes -> Seq(Session)]
    /\ infoToReport \in [Nodes -> Seq(GatewayHashes)]
    /\ told \in [Nodes -> [GatewayHashes -> Nat]]
    /\ connections \in [ConnectionIds -> Connection \cup {NoConnection}]
    /\ backlog \in [Nodes -> Seq(ConnectionIds \X Nodes)]
    /\ \A n \in Nodes, t \in 1 .. Threads : sender[n][t] = IdleSender
          \/ sender[n][t] \in [connection : ConnectionIds, end : Ends, message : Message]
    /\ sent \in [Links -> 0 .. MaxMessages] /\ received \in [Links -> 0 .. MaxMessages]
    /\ failures \in 0 .. MaxFailures
    /\ faults \subseteq {"overlap", "stray", "garbled"}

\* OneSessionPerPeer: "device not found, add it": broadcasts of a device and
\* connections it makes at the same time never give it two sessions, and the
\* end of a connection is served by one session only.  This is what keeps the
\* sessions within the capacity of m_transportSessions.
OneSessionPerPeer ==
    \A n \in Nodes : \A i, j \in DOMAIN sessions[n] : i # j =>
        sessions[n][i].peer # sessions[n][j].peer

\* FramesIntact: "we need to read exactly this many bytes": a receiver gets out
\* of step with the sizes and bytes in its stream only when two threads have
\* written to one session at a time, or one has written to a session that was
\* erased, and not because of reconnections, crashes or lost connections.
FramesIntact == "garbled" \in faults => faults \cap {"overlap", "stray"} # {}

\* InOrder: user data between two devices is handed up at most once and in the
\* order in which it was sent, over all the sessions they ever have: because
\* sessions are unique and connections are accepted in order, a later session
\* never overtakes an earlier one.  Only a connection that its client has closed
\* while it waited can come too late.  That takes two failures, and both devices
\* connecting at the same time: see the README.
Link == INSTANCE OrderedLink
InOrder == Link!Spec

\* SessionsSettle: a session that is connecting gets connected or is removed
\* from m_transportSessions; until then every message to the device is lost.
SessionsSettle ==
    \A l \in Links :
        LET states == {sessions[l[1]][i].state : i \in SessionsTo(l[1], l[2])}
        IN  states \cap {"connecting", "waiting"} # {} ~> states \subseteq {"open", "garbled"}

\* Known: a gateway that runs from some time on is known from some time on to
\* every other one that runs and hears it, although infos of sessions that
\* failed, or of an earlier gateway of the same device, are left in
\* m_infoToReport.  It has to be known in this life: having been known before
\* a restart is not enough.
Known ==
    \A l \in Links :
        <>[](l[1] \in up \ deaf /\ l[2] \in up) => <>[](told[l[1]][Hash(l[2])] # NoIndex)
=============================================================================
