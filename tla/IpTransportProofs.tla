------------------------- MODULE IpTransportProofs --------------------------
(***************************************************************************)
(* Proofs about TcpTransport, for any number of devices, threads,          *)
(* connections, messages, failures and restarts, and, with those of        *)
(* UdpTransportProofs, about the IP transport of a build.                  *)
(***************************************************************************)
EXTENDS IpTransport, TLAPS, FiniteSetTheorems, SequenceTheorems, WellFoundedInduction

-----------------------------------------------------------------------------
SenderType ==
    [connection : ConnectionIds \cup {NoConnection}, end : Ends,
     message : Message \cup {NoMessage}]

\* TypeInv: the types, with the domains of all functions, and that no node
\* tells, hears of or is connected to itself.
TypeInv ==
    /\ devices \in [Nodes -> Seq(Nodes)] /\ deaf \subseteq up
    /\ up \subseteq Nodes /\ deafAcceptor \subseteq up
    /\ life \in [Nodes -> 1 .. MaxLives]
    /\ sessions \in [Nodes -> Seq(Session)]
    /\ infoToReport \in [Nodes -> Seq(GatewayHashes)]
    /\ told \in [Nodes -> [GatewayHashes -> Nat]]
    /\ connections \in [ConnectionIds -> Connection \cup {NoConnection}]
    /\ backlog \in [Nodes -> Seq(ConnectionIds \X Nodes)]
    /\ sender \in [Nodes -> [1 .. Threads -> SenderType]]
    /\ sent \in [Links -> 0 .. MaxMessages] /\ received \in [Links -> 0 .. MaxMessages]
    /\ failures \in 0 .. MaxFailures
    /\ faults \subseteq {"overlap", "stray", "garbled"}

\* OthersInv: a gateway has sessions with other devices only.
OthersInv ==
    \A n \in Nodes :
        /\ \A i \in 1 .. Len(sessions[n]) : sessions[n][i].peer # n
        /\ \A k \in 1 .. Len(backlog[n]) : backlog[n][k][2] # n
        /\ \A k \in 1 .. Len(infoToReport[n]) : infoToReport[n][k][1] # n
        /\ \A h \in GatewayHashes : told[n][h] # NoIndex => h[1] # n

\* StatesInv: a session has a connection, and reads, only when it is open; a
\* session without one is a client's.
StatesInv ==
    \A n \in Nodes : \A i \in 1 .. Len(sessions[n]) :
        LET s == sessions[n][i]
        IN  /\ s.connection = NoConnection <=> s.state \in {"connecting", "waiting"}
            /\ s.connection = NoConnection => s.readBufferSize = NoMessage /\ s.end = "client"

\* EndsInv: an end of a connection is served by one session, or waits once to
\* be accepted; and the ends of a connection are at different nodes.
EndsInv ==
    /\ \A n, m \in Nodes : \A i \in 1 .. Len(sessions[n]), j \in 1 .. Len(sessions[m]) :
          LET s == sessions[n][i]
              r == sessions[m][j]
          IN  s.connection = r.connection /\ s.connection # NoConnection /\ (n = m \/ s.end = r.end)
                 => n = m /\ i = j
    /\ \A n, m \in Nodes : \A k \in 1 .. Len(backlog[n]), l \in 1 .. Len(backlog[m]) :
          backlog[n][k][1] = backlog[m][l][1] => n = m /\ k = l
    /\ \A n, m \in Nodes : \A i \in 1 .. Len(sessions[n]), k \in 1 .. Len(backlog[m]) :
          sessions[n][i].connection = backlog[m][k][1] => n # m /\ sessions[n][i].end = "client"

\* OpenInv: the end that a session or the backlog holds is not closed.
OpenInv ==
    \A n \in Nodes :
        /\ \A i \in 1 .. Len(sessions[n]) :
              LET s == sessions[n][i]
              IN  s.connection # NoConnection =>
                     /\ connections[s.connection] # NoConnection
                     /\ s.end \notin connections[s.connection].closed
        /\ \A k \in 1 .. Len(backlog[n]) :
              LET c == backlog[n][k][1]
              IN  connections[c] # NoConnection /\ "server" \notin connections[c].closed

\* SendersInv: a thread writes at the end that its node has, which may have
\* been closed meanwhile.
SendersInv ==
    \A n \in Nodes, t \in 1 .. Threads :
        LET s == sender[n][t]
        IN  /\ s.connection = NoConnection => s = IdleSender
            /\ s.connection # NoConnection =>
                 /\ s.message \in Message
                 /\ \A i \in 1 .. Len(sessions[n]) :
                       sessions[n][i].connection = s.connection => sessions[n][i].end = s.end
                 /\ \A k \in 1 .. Len(backlog[n]) : backlog[n][k][1] # s.connection
                 /\ \/ \E i \in 1 .. Len(sessions[n]) : sessions[n][i].connection = s.connection
                    \/ connections[s.connection] = NoConnection
                    \/ s.end \in connections[s.connection].closed

\* Nothing has happened that FramesIntact makes an exception for.
Clean == faults \cap {"overlap", "stray"} = {}

Writes(n, t, c, e) == sender[n][t].connection = c /\ sender[n][t].end = e

\* AloneInv: no two threads write at one end.
AloneInv ==
    Clean => \A n, m \in Nodes, t, u \in 1 .. Threads :
        sender[n][t].connection = sender[m][u].connection /\ sender[n][t].end = sender[m][u].end
           /\ sender[n][t].connection # NoConnection => n = m /\ t = u

\* A stream of sizes and bytes in step, for a reader that has read the size of
\* message r, or nothing of a message.
InStep(q, r) ==
    /\ \A i \in 1 .. Len(q) - 1 :
          /\ q[i][1] = "size" => q[i + 1] = <<"data", q[i][2]>>
          /\ q[i][1] = "data" => q[i + 1][1] = "size"
    /\ q # <<>> => IF r = NoMessage THEN q[1][1] = "size" ELSE q[1] = <<"data", r>>

\* The stream ends with the size of w, whose bytes are still to be written ...
EndsWithin(q, r, w) == IF q = <<>> THEN r = w ELSE q[Len(q)] = <<"size", w>>

\* ... or with the bytes of a message.
EndsComplete(q, r) == IF q = <<>> THEN r = NoMessage ELSE q[Len(q)][1] = "data"

\* What the reader at end e of c, and the writer at the other end, rely on.
Framed(c, e, r) ==
    LET q == connections[c].toRead[e]
    IN  /\ InStep(q, r)
        /\ Peer(e) \notin connections[c].closed =>
              /\ \A n \in Nodes, t \in 1 .. Threads :
                    Writes(n, t, c, Peer(e)) => EndsWithin(q, r, sender[n][t].message)
              /\ (\A n \in Nodes, t \in 1 .. Threads : ~Writes(n, t, c, Peer(e)))
                    => EndsComplete(q, r)

FramesInv ==
    Clean =>
        /\ "garbled" \notin faults
        /\ \A n \in Nodes :
              /\ \A i \in 1 .. Len(sessions[n]) : sessions[n][i].connection # NoConnection =>
                    Framed(sessions[n][i].connection, sessions[n][i].end,
                           sessions[n][i].readBufferSize)
              /\ \A k \in 1 .. Len(backlog[n]) : Framed(backlog[n][k][1], "server", NoMessage)

\* ConnectionsInv: the part that OneSessionPerPeer and the capacity need is
\* OthersInv; the rest is for FramesIntact.
ConnectionsInv ==
    /\ StatesInv /\ OthersInv /\ OneSessionPerPeer /\ EndsInv /\ OpenInv /\ SendersInv
    /\ AloneInv /\ FramesInv

-----------------------------------------------------------------------------
\* What is left of a sequence when one element is removed.
LEMMA RemoveAtProperties ==
    ASSUME NEW S, NEW q \in Seq(S), NEW i \in 1 .. Len(q)
    PROVE  /\ RemoveAt(q, i) \in Seq(S) /\ Len(RemoveAt(q, i)) = Len(q) - 1
           /\ \A j \in 1 .. Len(q) - 1 :
                 RemoveAt(q, i)[j] = q[IF j < i THEN j ELSE j + 1]
  <1> DEFINE a == SubSeq(q, 1, i - 1)
             b == SubSeq(q, i + 1, Len(q))
  <1>1. Len(q) \in Nat /\ i \in Nat /\ 1 <= i /\ i <= Len(q)
    OBVIOUS
  <1>2. /\ a \in Seq(S) /\ Len(a) = i - 1
        /\ \A j \in 1 .. i - 1 : a[j] = q[j]
    BY <1>1
  <1>3. /\ b \in Seq(S) /\ Len(b) = Len(q) - i
        /\ \A j \in 1 .. Len(q) - i : b[j] = q[j + i]
    BY <1>1
  <1>4. RemoveAt(q, i) = a \o b
    BY DEF RemoveAt
  <1> HIDE DEF a, b
  <1>5. a \o b \in Seq(S) /\ Len(a \o b) = Len(q) - 1
    <2>1. a \o b \in Seq(S) /\ Len(a \o b) = Len(a) + Len(b)
      BY <1>2, <1>3, ConcatProperties
    <2> QED
      BY <1>1, <1>2, <1>3, <2>1
  <1>6. ASSUME NEW j \in 1 .. Len(q) - 1
        PROVE  (a \o b)[j] = q[IF j < i THEN j ELSE j + 1]
    <2>1. CASE j < i
      BY <1>1, <1>2, <1>3, <2>1
    <2>2. CASE ~(j < i)
      <3>1. (a \o b)[j] = b[j - (i - 1)]
        BY <1>1, <1>2, <1>3, <2>2
      <3>2. j - (i - 1) \in 1 .. Len(q) - i /\ (j - (i - 1)) + i = j + 1
        BY <1>1, <2>2
      <3> QED
        BY <1>3, <2>2, <3>1, <3>2
    <2> QED
      BY <2>1, <2>2
  <1> QED
    BY <1>4, <1>5, <1>6

\* The least member of a set of numbers.
LEMMA MinProperties ==
    ASSUME NEW T, T \subseteq Nat, T # {}
    PROVE  Min(T) \in T
  <1> DEFINE R == {p \in Nat \X Nat : p[1] < p[2]}
  <1>1. IsWellFoundedOn(R, Nat)
    BY NatLessThanWellFounded DEF OpToRel
  <1>2. PICK x \in T : \A y \in T : ~(<<y, x>> \in R)
    <2> HIDE DEF R
    <2> QED
      BY <1>1, WFMin
  <1>3. \A y, z \in Nat : y < z => <<y, z>> \in R
    OBVIOUS
  <1> HIDE DEF R
  <1>4. ASSUME NEW y \in T PROVE x <= y
    <2>1. x \in Nat /\ y \in Nat /\ ~(y < x)
      BY <1>2, <1>3
    <2> QED
      BY <2>1
  <1> QED
    BY <1>4 DEF Min

-----------------------------------------------------------------------------
(***************************************************************************)
(* Types.                                                                  *)
(***************************************************************************)

LEMMA EndFacts ==
    /\ \A e \in Ends : Peer(e) \in Ends /\ Peer(e) # e /\ Peer(Peer(e)) = e
    /\ \A e, f \in Ends : f = e \/ f = Peer(e)
    /\ \A S \in SUBSET Ends : S = Ends <=> "client" \in S /\ "server" \in S
  BY DEF Ends, Peer

LEMMA SessionFields ==
    ASSUME TypeInv, NEW n \in Nodes, NEW i \in 1 .. Len(sessions[n])
    PROVE  /\ sessions[n] \in Seq(Session) /\ sessions[n][i] \in Session
           /\ sessions[n][i].peer \in Nodes /\ sessions[n][i].end \in Ends
           /\ sessions[n][i].connection \in ConnectionIds \cup {NoConnection}
           /\ sessions[n][i].readBufferSize \in Message \cup {NoMessage}
  <1>1. sessions[n] \in Seq(Session)
    BY DEF TypeInv
  <1>2. sessions[n][i] \in Session
    BY <1>1
  <1> QED
    BY <1>1, <1>2 DEF Session

LEMMA ConnectionFields ==
    ASSUME TypeInv, NEW c \in ConnectionIds, connections[c] # NoConnection
    PROVE  /\ connections[c] \in Connection
           /\ connections[c].closed \in SUBSET Ends
           /\ connections[c].toRead \in [Ends -> Seq(Tokens)]
  <1>1. connections[c] \in Connection
    BY DEF TypeInv
  <1> QED
    BY <1>1 DEF Connection

LEMMA BacklogFields ==
    ASSUME TypeInv, NEW n \in Nodes, NEW k \in 1 .. Len(backlog[n])
    PROVE  /\ backlog[n] \in Seq(ConnectionIds \X Nodes)
           /\ backlog[n][k][1] \in ConnectionIds /\ backlog[n][k][2] \in Nodes
  <1>1. backlog[n] \in Seq(ConnectionIds \X Nodes)
    BY DEF TypeInv
  <1>2. backlog[n][k] \in ConnectionIds \X Nodes
    BY <1>1
  <1> QED
    BY <1>1, <1>2

LEMMA SenderFields ==
    ASSUME TypeInv, NEW n \in Nodes, NEW t \in 1 .. Threads
    PROVE  /\ sender[n][t].connection \in ConnectionIds \cup {NoConnection}
           /\ sender[n][t].end \in Ends
           /\ sender[n][t].message \in Message \cup {NoMessage}
  <1>a. sender \in [Nodes -> [1 .. Threads -> SenderType]]
    BY Zenon DEF TypeInv
  <1>1. sender[n][t] \in SenderType
    BY <1>a
  <1> QED
    BY <1>1 DEF SenderType

\* New sessions, and what the handlers change of a session.
LEMMA NewSessions ==
    ASSUME NEW m \in Nodes
    PROVE  /\ ClientSession(m) \in Session
           /\ ClientSession(m).peer = m /\ ClientSession(m).connection = NoConnection
           /\ ClientSession(m).readBufferSize = NoMessage /\ ClientSession(m).state = "connecting"
           /\ ClientSession(m).end = "client"
           /\ \A c \in ConnectionIds :
                 /\ ServerSession(m, c) \in Session
                 /\ ServerSession(m, c).peer = m /\ ServerSession(m, c).connection = c
                 /\ ServerSession(m, c).end = "server" /\ ServerSession(m, c).state = "open"
                 /\ ServerSession(m, c).readBufferSize = NoMessage
  <1>1. MaxRetries \in 0 .. MaxRetries /\ 0 \in 0 .. MaxRetries
    BY TcpAssumption
  <1>2. "client" \in Ends /\ "server" \in Ends /\ "connecting" \in States /\ "open" \in States
    BY DEF Ends, States
  <1> QED
    BY <1>1, <1>2 DEF ClientSession, ServerSession, Session

LEMMA ChangedSession ==
    ASSUME NEW s \in Session
    PROVE  /\ \A st \in States :
                 LET r == [s EXCEPT !.state = st]
                 IN  /\ r \in Session /\ r.peer = s.peer /\ r.end = s.end /\ r.state = st
                     /\ r.connection = s.connection /\ r.readBufferSize = s.readBufferSize
           /\ \A b \in Message \cup {NoMessage} :
                 LET r == [s EXCEPT !.readBufferSize = b]
                 IN  /\ r \in Session /\ r.peer = s.peer /\ r.end = s.end /\ r.state = s.state
                     /\ r.connection = s.connection /\ r.readBufferSize = b
           /\ s.retriesLeft > 0 =>
                 LET r == [s EXCEPT !.state = "waiting", !.retriesLeft = @ - 1]
                 IN  /\ r \in Session /\ r.peer = s.peer /\ r.end = s.end /\ r.state = "waiting"
                     /\ r.connection = s.connection /\ r.readBufferSize = s.readBufferSize
  <1>1. 0 \in 0 .. MaxRetries /\ \A r \in 0 .. MaxRetries : r > 0 => r - 1 \in 0 .. MaxRetries
    BY TcpAssumption
  <1>2. "waiting" \in States /\ "open" \in States
    BY DEF States
  <1> QED
    BY <1>1, <1>2 DEF Session

LEMMA ConnectedSession ==
    ASSUME NEW s \in Session, NEW c \in ConnectionIds
    PROVE  LET r == [s EXCEPT !.state = "open", !.connection = c, !.retriesLeft = 0]
           IN  /\ r \in Session /\ r.peer = s.peer /\ r.end = s.end /\ r.state = "open"
               /\ r.connection = c /\ r.readBufferSize = s.readBufferSize
  <1>1. 0 \in 0 .. MaxRetries /\ "open" \in States
    BY TcpAssumption DEF States
  <1> QED
    BY <1>1 DEF Session

\* The session at position i becomes r.
SessionChanged(n, i, r) ==
    /\ sessions'[n][i] = r
    /\ \A m \in Nodes : Len(sessions'[m]) = Len(sessions[m])
    /\ \A m \in Nodes : \A j \in 1 .. Len(sessions[m]) :
          m # n \/ j # i => sessions'[m][j] = sessions[m][j]

\* The steps that change m_transportSessions.
LEMMA SessionUpdated ==
    ASSUME TypeInv, NEW n \in Nodes, NEW i \in 1 .. Len(sessions[n]), NEW r \in Session,
           sessions' = [sessions EXCEPT ![n][i] = r]
    PROVE  sessions' \in [Nodes -> Seq(Session)] /\ SessionChanged(n, i, r)
  <1>1. sessions \in [Nodes -> Seq(Session)]
    BY DEF TypeInv
  <1>2. sessions'[n] = [sessions[n] EXCEPT ![i] = r] /\ \A m \in Nodes : m # n => sessions'[m] = sessions[m]
    BY <1>1
  <1>3. \A q \in Seq(Session) : \A j \in 1 .. Len(q) :
           /\ [q EXCEPT ![j] = r] \in Seq(Session) /\ Len([q EXCEPT ![j] = r]) = Len(q)
           /\ [q EXCEPT ![j] = r][j] = r
           /\ \A k \in 1 .. Len(q) : k # j => [q EXCEPT ![j] = r][k] = q[k]
    OBVIOUS
  <1>4. /\ sessions'[n] \in Seq(Session) /\ Len(sessions'[n]) = Len(sessions[n]) /\ sessions'[n][i] = r
        /\ \A k \in 1 .. Len(sessions[n]) : k # i => sessions'[n][k] = sessions[n][k]
    BY <1>1, <1>2, <1>3
  <1>5. sessions' \in [Nodes -> Seq(Session)]
    BY <1>1, <1>2, <1>4
  <1> QED
    BY <1>1, <1>2, <1>4, <1>5 DEF SessionChanged

LEMMA SessionAppended ==
    ASSUME TypeInv, NEW n \in Nodes, NEW r \in Session,
           sessions' = [sessions EXCEPT ![n] = Append(@, r)]
    PROVE  /\ sessions' \in [Nodes -> Seq(Session)]
           /\ Len(sessions[n]) \in Nat /\ Len(sessions'[n]) = Len(sessions[n]) + 1
           /\ sessions'[n][Len(sessions[n]) + 1] = r
           /\ \A j \in 1 .. Len(sessions[n]) : sessions'[n][j] = sessions[n][j]
           /\ \A m \in Nodes : m # n => sessions'[m] = sessions[m]
  <1>1. sessions \in [Nodes -> Seq(Session)] /\ sessions[n] \in Seq(Session)
    BY DEF TypeInv
  <1>2. sessions'[n] = Append(sessions[n], r) /\ \A m \in Nodes : m # n => sessions'[m] = sessions[m]
    BY <1>1
  <1>3. sessions' \in [Nodes -> Seq(Session)]
    BY <1>1, <1>2
  <1> QED
    BY <1>1, <1>2, <1>3

LEMMA SessionRemoved ==
    ASSUME TypeInv, NEW n \in Nodes, NEW i \in 1 .. Len(sessions[n]),
           sessions' = [sessions EXCEPT ![n] = RemoveAt(@, i)]
    PROVE  /\ sessions' \in [Nodes -> Seq(Session)]
           /\ Len(sessions[n]) \in Nat /\ Len(sessions'[n]) = Len(sessions[n]) - 1
           /\ \A j \in 1 .. Len(sessions'[n]) :
                 sessions'[n][j] = sessions[n][IF j < i THEN j ELSE j + 1]
           /\ \A m \in Nodes : m # n => sessions'[m] = sessions[m]
  <1>1. sessions \in [Nodes -> Seq(Session)] /\ sessions[n] \in Seq(Session)
    BY DEF TypeInv
  <1>2. sessions'[n] = RemoveAt(sessions[n], i) /\ \A m \in Nodes : m # n => sessions'[m] = sessions[m]
    BY <1>1
  <1>3. /\ RemoveAt(sessions[n], i) \in Seq(Session)
        /\ Len(RemoveAt(sessions[n], i)) = Len(sessions[n]) - 1
        /\ \A j \in 1 .. Len(sessions[n]) - 1 :
              RemoveAt(sessions[n], i)[j] = sessions[n][IF j < i THEN j ELSE j + 1]
    BY <1>1, RemoveAtProperties
  <1>4. sessions' \in [Nodes -> Seq(Session)]
    BY <1>1, <1>2, <1>3
  <1> QED
    BY <1>1, <1>2, <1>3, <1>4

\* The steps that change connections.
LEMMA ConnectionClosed ==
    ASSUME TypeInv, NEW c \in ConnectionIds, connections[c] # NoConnection,
           NEW e \in Ends, connections' = Closed(c, e)
    PROVE  /\ connections' \in [ConnectionIds -> Connection \cup {NoConnection}]
           /\ \A d \in ConnectionIds : d # c => connections'[d] = connections[d]
           /\ connections'[c] = NoConnection =>
                 \A f \in Ends : f = e \/ f \in connections[c].closed
           /\ connections'[c] # NoConnection =>
                 /\ connections'[c].closed = connections[c].closed \cup {e}
                 /\ connections'[c].toRead = connections[c].toRead
  <1> DEFINE all == connections[c].closed \cup {e}
  <1>1. /\ connections \in [ConnectionIds -> Connection \cup {NoConnection}]
        /\ connections[c] \in Connection /\ all \in SUBSET Ends
    BY ConnectionFields DEF TypeInv
  <1>2. CASE all = Ends
    <2>1. connections' = [connections EXCEPT ![c] = NoConnection]
      BY <1>2 DEF Closed
    <2> QED
      BY <1>1, <1>2, <2>1
  <1>3. CASE all # Ends
    <2>1. connections' = [connections EXCEPT ![c].closed = all]
      BY <1>3 DEF Closed
    <2>2. connections'[c] = [connections[c] EXCEPT !.closed = all]
      BY <1>1, <2>1
    <2>3. /\ connections'[c] \in Connection /\ connections'[c].closed = all
          /\ connections'[c].toRead = connections[c].toRead
      BY <1>1, <1>3, <2>2 DEF Connection
    <2>4. connections'[c] # NoConnection
      BY <2>3, NoConnectionAssumption
    <2>5. \A d \in ConnectionIds : d # c => connections'[d] = connections[d]
      BY <1>1, <2>1
    <2>6. connections' \in [ConnectionIds -> Connection \cup {NoConnection}]
      BY <1>1, <2>1, <2>3, <2>5
    <2> QED
      BY <2>3, <2>4, <2>5, <2>6
  <1> QED
    BY <1>2, <1>3

LEMMA ConnectionWritten ==
    ASSUME TypeInv, NEW c \in ConnectionIds, connections[c] # NoConnection,
           NEW e \in Ends, NEW token \in Tokens, connections' = Written(c, e, token)
    PROVE  /\ connections' \in [ConnectionIds -> Connection \cup {NoConnection}]
           /\ \A d \in ConnectionIds : d # c => connections'[d] = connections[d]
           /\ connections'[c] # NoConnection /\ connections'[c].closed = connections[c].closed
           /\ connections'[c].toRead[e] = connections[c].toRead[e]
           /\ Peer(e) \notin connections[c].closed =>
                 connections'[c].toRead[Peer(e)] = Append(connections[c].toRead[Peer(e)], token)
  <1>1. /\ connections \in [ConnectionIds -> Connection \cup {NoConnection}]
        /\ connections[c] \in Connection
        /\ connections[c].toRead \in [Ends -> Seq(Tokens)]
    BY ConnectionFields DEF TypeInv
  <1>2. Peer(e) \in Ends /\ Peer(e) # e
    BY EndFacts
  <1>3. CASE Peer(e) \in connections[c].closed
    BY <1>1, <1>3 DEF Written
  <1>4. CASE Peer(e) \notin connections[c].closed
    <2> DEFINE q == Append(connections[c].toRead[Peer(e)], token)
               streams == [connections[c].toRead EXCEPT ![Peer(e)] = q]
    <2>1. connections' = [connections EXCEPT ![c].toRead[Peer(e)] = q]
      BY <1>4 DEF Written
    <2>2. q \in Seq(Tokens) /\ streams \in [Ends -> Seq(Tokens)]
      BY <1>1, <1>2
    <2>3. streams[Peer(e)] = q /\ streams[e] = connections[c].toRead[e]
      BY <1>1, <1>2
    <2>4. connections'[c] = [connections[c] EXCEPT !.toRead = streams]
      BY <1>1, <2>1
    <2> HIDE DEF streams, q
    <2>5. /\ connections'[c] \in Connection /\ connections'[c].closed = connections[c].closed
          /\ connections'[c].toRead = streams
      BY <1>1, <2>2, <2>4 DEF Connection
    <2>6. connections'[c] # NoConnection
      BY <2>5, NoConnectionAssumption
    <2>7. \A d \in ConnectionIds : d # c => connections'[d] = connections[d]
      BY <1>1, <2>1
    <2>8. connections' \in [ConnectionIds -> Connection \cup {NoConnection}]
      BY <1>1, <2>1, <2>5, <2>7
    <2> QED
      BY <2>3, <2>5, <2>6, <2>7, <2>8 DEF q
  <1> QED
    BY <1>3, <1>4

LEMMA ConnectionRead ==
    ASSUME TypeInv, NEW n \in Nodes, NEW i \in 1 .. Len(sessions[n]),
           sessions[n][i].connection \in ConnectionIds,
           connections[sessions[n][i].connection] # NoConnection,
           connections' = ConnectionsRead(n, i), Unread(n, i) # <<>>
    PROVE  LET c == sessions[n][i].connection
               e == sessions[n][i].end
           IN  /\ connections' \in [ConnectionIds -> Connection \cup {NoConnection}]
               /\ \A d \in ConnectionIds : d # c => connections'[d] = connections[d]
               /\ connections'[c] # NoConnection /\ connections'[c].closed = connections[c].closed
               /\ connections'[c].toRead[e] = Tail(connections[c].toRead[e])
               /\ connections'[c].toRead[Peer(e)] = connections[c].toRead[Peer(e)]
  <1> DEFINE c == sessions[n][i].connection
             e == sessions[n][i].end
             q == Tail(connections[c].toRead[e])
             streams == [connections[c].toRead EXCEPT ![e] = q]
  <1>1. /\ connections \in [ConnectionIds -> Connection \cup {NoConnection}]
        /\ connections[c] \in Connection
        /\ connections[c].toRead \in [Ends -> Seq(Tokens)]
    BY ConnectionFields DEF TypeInv
  <1>2. e \in Ends /\ Peer(e) \in Ends /\ Peer(e) # e
    BY EndFacts, SessionFields
  <1>3. connections' = [connections EXCEPT ![c].toRead[e] = q]
    BY DEF ConnectionsRead
  <1>4. q \in Seq(Tokens) /\ streams \in [Ends -> Seq(Tokens)]
    BY <1>1, <1>2 DEF Unread
  <1>5. streams[e] = q /\ streams[Peer(e)] = connections[c].toRead[Peer(e)]
    BY <1>1, <1>2
  <1>6. connections'[c] = [connections[c] EXCEPT !.toRead = streams]
    BY <1>1, <1>3
  <1> HIDE DEF streams, q
  <1>7. /\ connections'[c] \in Connection /\ connections'[c].closed = connections[c].closed
        /\ connections'[c].toRead = streams
    BY <1>1, <1>4, <1>6 DEF Connection
  <1>8. connections'[c] # NoConnection
    BY <1>7, NoConnectionAssumption
  <1>9. \A d \in ConnectionIds : d # c => connections'[d] = connections[d]
    BY <1>1, <1>3
  <1>10. connections' \in [ConnectionIds -> Connection \cup {NoConnection}]
    BY <1>1, <1>3, <1>7, <1>9
  <1> QED
    BY <1>5, <1>7, <1>8, <1>9, <1>10 DEF q

-----------------------------------------------------------------------------
(***************************************************************************)
(* Steps after which no session, no connection and no writer is new: every *)
(* session was one before, at place f of its node, and every connection    *)
(* that waits was one at place g; ends may have been closed.               *)
(***************************************************************************)

\* SessionsKept and BacklogKept: what such a step keeps.
SessionsKept(f) ==
    \A m \in Nodes :
        /\ \A j \in 1 .. Len(sessions'[m]) :
              /\ f[m][j] \in 1 .. Len(sessions[m])
              /\ sessions'[m][j].peer = sessions[m][f[m][j]].peer
              /\ sessions'[m][j].end = sessions[m][f[m][j]].end
              /\ sessions'[m][j].connection = sessions[m][f[m][j]].connection
              /\ sessions'[m][j].readBufferSize = sessions[m][f[m][j]].readBufferSize
        /\ \A i, j \in 1 .. Len(sessions'[m]) : i # j => f[m][i] # f[m][j]

BacklogKept(g) ==
    \A m \in Nodes :
        /\ \A k \in 1 .. Len(backlog'[m]) :
              /\ g[m][k] \in 1 .. Len(backlog[m])
              /\ backlog'[m][k] = backlog[m][g[m][k]]
        /\ \A k, l \in 1 .. Len(backlog'[m]) : k # l => g[m][k] # g[m][l]

\* ConnectionsKept: ends are closed, and that is all.
ConnectionsKept ==
    \A c \in ConnectionIds :
        /\ connections[c] = NoConnection => connections'[c] = NoConnection
        /\ connections'[c] # NoConnection =>
              /\ connections'[c].toRead = connections[c].toRead
              /\ connections[c].closed \subseteq connections'[c].closed

\* SendersKept: a writer whose session is gone finds its end closed.
SendersKept ==
    \A n \in Nodes, t \in 1 .. Threads :
        /\ sender'[n][t] = sender[n][t] \/ sender'[n][t] = IdleSender
        /\ sender[n][t].connection # NoConnection =>
              \/ /\ sender'[n][t] = sender[n][t]
                 /\ \E i \in 1 .. Len(sessions'[n]) :
                       sessions'[n][i].connection = sender[n][t].connection
              \/ connections'[sender[n][t].connection] = NoConnection
              \/ sender[n][t].end \in connections'[sender[n][t].connection].closed

LEMMA IdleFields == IdleSender.connection = NoConnection
  BY DEF IdleSender

LEMMA FramedKept ==
    ASSUME TypeInv, TypeInv', ConnectionsKept, SendersKept,
           NEW c \in ConnectionIds, NEW e \in Ends, NEW r,
           connections'[c] # NoConnection, Framed(c, e, r)
    PROVE  Framed(c, e, r)'
  <1>1. c # NoConnection /\ connections[c] # NoConnection
    BY TcpAssumption DEF ConnectionsKept, ConnectionIds
  <1>2. /\ connections'[c].toRead = connections[c].toRead
        /\ connections[c].closed \subseteq connections'[c].closed
    BY DEF ConnectionsKept
  <1>3. \A n \in Nodes, t \in 1 .. Threads :
           sender'[n][t].connection = c => sender'[n][t] = sender[n][t]
    BY <1>1, IdleFields DEF SendersKept
  <1>4. ASSUME NEW n \in Nodes, NEW t \in 1 .. Threads, Writes(n, t, c, Peer(e)),
               Peer(e) \notin connections'[c].closed
        PROVE  sender'[n][t] = sender[n][t]
    BY <1>1, <1>4 DEF SendersKept, Writes
  <1> QED
    BY <1>2, <1>3, <1>4 DEF Framed, Writes

LEMMA Reduced ==
    ASSUME TypeInv, TypeInv', ConnectionsInv,
           NEW f, NEW g, SessionsKept(f), BacklogKept(g), ConnectionsKept, SendersKept,
           StatesInv', OpenInv', Clean' => faults' = faults
    PROVE  /\ OneSessionPerPeer' /\ EndsInv' /\ SendersInv' /\ AloneInv' /\ FramesInv'
           /\ \A n \in Nodes :
                 /\ \A i \in 1 .. Len(sessions'[n]) : sessions'[n][i].peer # n
                 /\ \A k \in 1 .. Len(backlog'[n]) : backlog'[n][k][2] # n
  <1> USE DEF ConnectionsInv
  <1>1. /\ \A m \in Nodes : Len(sessions[m]) \in Nat /\ DOMAIN sessions[m] = 1 .. Len(sessions[m])
        /\ \A m \in Nodes : DOMAIN sessions'[m] = 1 .. Len(sessions'[m])
        /\ \A m \in Nodes : Len(backlog[m]) \in Nat
    BY DEF TypeInv
  <1>1a. ASSUME NEW m \in Nodes, NEW j \in 1 .. Len(sessions'[m])
        PROVE  \E o \in 1 .. Len(sessions[m]) :
                  /\ o = f[m][j]
                  /\ sessions'[m][j].peer = sessions[m][o].peer
                  /\ sessions'[m][j].end = sessions[m][o].end
                  /\ sessions'[m][j].connection = sessions[m][o].connection
                  /\ sessions'[m][j].readBufferSize = sessions[m][o].readBufferSize
    BY DEF SessionsKept
  <1>1b. ASSUME NEW m \in Nodes, NEW k \in 1 .. Len(backlog'[m])
        PROVE  \E o \in 1 .. Len(backlog[m]) : o = g[m][k] /\ backlog'[m][k] = backlog[m][o]
    BY DEF BacklogKept
  <1>2. OneSessionPerPeer'
    <2> SUFFICES ASSUME NEW m \in Nodes, NEW i \in 1 .. Len(sessions'[m]),
                        NEW j \in 1 .. Len(sessions'[m]), i # j
                 PROVE  sessions'[m][i].peer # sessions'[m][j].peer
      BY <1>1 DEF OneSessionPerPeer
    <2>1. PICK o \in 1 .. Len(sessions[m]) :
             o = f[m][i] /\ sessions'[m][i].peer = sessions[m][o].peer
      BY <1>1a
    <2>2. PICK p \in 1 .. Len(sessions[m]) :
             p = f[m][j] /\ sessions'[m][j].peer = sessions[m][p].peer
      BY <1>1a
    <2>3. o # p
      BY <2>1, <2>2 DEF SessionsKept
    <2> QED
      BY <1>1, <2>1, <2>2, <2>3 DEF OneSessionPerPeer
  <1>3. \A n \in Nodes :
           /\ \A i \in 1 .. Len(sessions'[n]) : sessions'[n][i].peer # n
           /\ \A k \in 1 .. Len(backlog'[n]) : backlog'[n][k][2] # n
    BY <1>1a, <1>1b, SMTT(30) DEF OthersInv
  <1>4. EndsInv'
    <2>1. ASSUME NEW n \in Nodes, NEW m \in Nodes, NEW i \in 1 .. Len(sessions'[n]),
                 NEW j \in 1 .. Len(sessions'[m]),
                 sessions'[n][i].connection = sessions'[m][j].connection,
                 sessions'[n][i].connection # NoConnection,
                 n = m \/ sessions'[n][i].end = sessions'[m][j].end
          PROVE  n = m /\ i = j
      <3>1. n = m /\ f[n][i] = f[m][j]
        <4>1. PICK o \in 1 .. Len(sessions[n]) :
                 /\ o = f[n][i] /\ sessions'[n][i].end = sessions[n][o].end
                 /\ sessions'[n][i].connection = sessions[n][o].connection
          BY <1>1a
        <4>2. PICK p \in 1 .. Len(sessions[m]) :
                 /\ p = f[m][j] /\ sessions'[m][j].end = sessions[m][p].end
                 /\ sessions'[m][j].connection = sessions[m][p].connection
          BY <1>1a
        <4>3. n = m /\ o = p
          <5>1. /\ sessions[n][o].connection = sessions[m][p].connection
                /\ sessions[n][o].connection # NoConnection
                /\ n = m \/ sessions[n][o].end = sessions[m][p].end
            BY <2>1, <4>1, <4>2
          <5> QED
            BY <5>1 DEF EndsInv
        <4> QED
          BY <4>1, <4>2, <4>3
      <3> QED
        BY <3>1 DEF SessionsKept
    <2>2. ASSUME NEW n \in Nodes, NEW m \in Nodes, NEW k \in 1 .. Len(backlog'[n]),
                 NEW l \in 1 .. Len(backlog'[m]), backlog'[n][k][1] = backlog'[m][l][1]
          PROVE  n = m /\ k = l
      <3>1. n = m /\ g[n][k] = g[m][l]
        <4>1. PICK o \in 1 .. Len(backlog[n]) : o = g[n][k] /\ backlog'[n][k] = backlog[n][o]
          BY <1>1b
        <4>2. PICK p \in 1 .. Len(backlog[m]) : p = g[m][l] /\ backlog'[m][l] = backlog[m][p]
          BY <1>1b
        <4>3. n = m /\ o = p
          <5>1. backlog[n][o][1] = backlog[m][p][1]
            BY <2>2, <4>1, <4>2
          <5> QED
            BY <5>1 DEF EndsInv
        <4> QED
          BY <4>1, <4>2, <4>3
      <3> QED
        BY <3>1 DEF BacklogKept
    <2>3. ASSUME NEW n \in Nodes, NEW m \in Nodes, NEW i \in 1 .. Len(sessions'[n]),
                 NEW k \in 1 .. Len(backlog'[m]), sessions'[n][i].connection = backlog'[m][k][1]
          PROVE  n # m /\ sessions'[n][i].end = "client"
      <3>1. PICK o \in 1 .. Len(sessions[n]) :
               /\ sessions'[n][i].end = sessions[n][o].end
               /\ sessions'[n][i].connection = sessions[n][o].connection
        BY <1>1a
      <3>2. PICK p \in 1 .. Len(backlog[m]) : backlog'[m][k] = backlog[m][p]
        BY <1>1b
      <3>3. sessions[n][o].connection = backlog[m][p][1]
        BY <2>3, <3>1, <3>2
      <3>4. n # m /\ sessions[n][o].end = "client"
        BY <3>3 DEF EndsInv
      <3> QED
        BY <3>1, <3>4
    <2> QED
      BY <2>1, <2>2, <2>3 DEF EndsInv
  <1>5. SendersInv'
    <2> SUFFICES ASSUME NEW n \in Nodes, NEW t \in 1 .. Threads
                 PROVE  LET s == sender'[n][t]
                        IN  /\ s.connection = NoConnection => s = IdleSender
                            /\ s.connection # NoConnection =>
                                 /\ s.message \in Message
                                 /\ \A i \in 1 .. Len(sessions'[n]) :
                                       sessions'[n][i].connection = s.connection
                                          => sessions'[n][i].end = s.end
                                 /\ \A k \in 1 .. Len(backlog'[n]) : backlog'[n][k][1] # s.connection
                                 /\ \/ \E i \in 1 .. Len(sessions'[n]) :
                                          sessions'[n][i].connection = s.connection
                                    \/ connections'[s.connection] = NoConnection
                                    \/ s.end \in connections'[s.connection].closed
      BY DEF SendersInv, IdleSender
    <2>1. CASE sender'[n][t] = IdleSender
      BY <2>1, IdleFields
    <2>2. CASE sender'[n][t] = sender[n][t] /\ sender[n][t].connection # NoConnection
      <3>1. /\ sender[n][t].message \in Message
            /\ \A i \in 1 .. Len(sessions[n]) :
                  sessions[n][i].connection = sender[n][t].connection => sessions[n][i].end = sender[n][t].end
            /\ \A k \in 1 .. Len(backlog[n]) : backlog[n][k][1] # sender[n][t].connection
        BY <2>2 DEF SendersInv
      <3>2. \A i \in 1 .. Len(sessions'[n]) :
               sessions'[n][i].connection = sender[n][t].connection => sessions'[n][i].end = sender[n][t].end
        BY <1>1a, <3>1
      <3>3. \A k \in 1 .. Len(backlog'[n]) : backlog'[n][k][1] # sender[n][t].connection
        BY <1>1b, <3>1
      <3>4. \/ \E i \in 1 .. Len(sessions'[n]) : sessions'[n][i].connection = sender[n][t].connection
            \/ connections'[sender[n][t].connection] = NoConnection
            \/ sender[n][t].end \in connections'[sender[n][t].connection].closed
        BY <2>2 DEF SendersKept
      <3> QED
        BY <2>2, <3>1, <3>2, <3>3, <3>4
    <2>3. CASE sender'[n][t] = sender[n][t] /\ sender[n][t].connection = NoConnection
      BY <2>3 DEF SendersInv
    <2> QED
      BY <2>1, <2>2, <2>3 DEF SendersKept
  <1>6. Clean' => Clean
    BY DEF Clean
  <1>7. AloneInv'
    <2> SUFFICES ASSUME Clean', NEW n \in Nodes, NEW m \in Nodes,
                        NEW t \in 1 .. Threads, NEW u \in 1 .. Threads,
                        sender'[n][t].connection = sender'[m][u].connection,
                        sender'[n][t].end = sender'[m][u].end,
                        sender'[n][t].connection # NoConnection
                 PROVE  n = m /\ t = u
      BY DEF AloneInv
    <2>1. sender'[n][t] = sender[n][t] /\ sender'[m][u] = sender[m][u]
      BY IdleFields DEF SendersKept
    <2> QED
      BY <1>6, <2>1 DEF AloneInv
  <1>8. FramesInv'
    <2> SUFFICES ASSUME Clean' PROVE FramesInv'
      BY DEF FramesInv
    <2>1. "garbled" \notin faults'
      BY <1>6 DEF FramesInv
    <2>2. ASSUME NEW n \in Nodes, NEW i \in 1 .. Len(sessions'[n]),
                 sessions'[n][i].connection # NoConnection
          PROVE  Framed(sessions[n][i].connection, sessions[n][i].end, sessions[n][i].readBufferSize)'
      <3>1. PICK c, e, r : /\ c = sessions'[n][i].connection /\ e = sessions'[n][i].end
                           /\ r = sessions'[n][i].readBufferSize
        OBVIOUS
      <3>2. Framed(c, e, r) /\ c \in ConnectionIds /\ e \in Ends
        <4>1. PICK o \in 1 .. Len(sessions[n]) :
                 /\ c = sessions[n][o].connection /\ e = sessions[n][o].end
                 /\ r = sessions[n][o].readBufferSize
          BY <1>1a, <3>1
        <4> QED
          BY <1>6, <2>2, <3>1, <4>1, SessionFields DEF FramesInv
      <3>3. connections'[c] # NoConnection
        BY <2>2, <3>1 DEF OpenInv
      <3>4. Framed(c, e, r)'
        BY <3>2, <3>3, FramedKept
      <3> QED
        BY <3>1, <3>4
    <2>3. ASSUME NEW n \in Nodes, NEW k \in 1 .. Len(backlog'[n])
          PROVE  Framed(backlog[n][k][1], "server", NoMessage)'
      <3>1. PICK c : c = backlog'[n][k][1]
        OBVIOUS
      <3>2. Framed(c, "server", NoMessage) /\ c \in ConnectionIds /\ "server" \in Ends
        <4>1. PICK o \in 1 .. Len(backlog[n]) : c = backlog[n][o][1]
          BY <1>1b, <3>1
        <4> QED
          BY <1>6, <3>1, <4>1, BacklogFields DEF FramesInv, Ends
      <3>3. connections'[c] # NoConnection
        BY <3>1 DEF OpenInv
      <3>4. Framed(c, "server", NoMessage)'
        BY <3>2, <3>3, FramedKept
      <3> QED
        BY <3>1, <3>4
    <2> QED
      BY <2>1, <2>2, <2>3 DEF FramesInv
  <1> QED
    BY <1>2, <1>3, <1>4, <1>5, <1>7, <1>8

-----------------------------------------------------------------------------
(***************************************************************************)
(* The types are kept.                                                     *)
(***************************************************************************)

\* What discovery has been told, and is still to be told, by n.
InfosInv(n) ==
    /\ \A k \in 1 .. Len(infoToReport[n]) : infoToReport[n][k][1] # n
    /\ \A h \in GatewayHashes : told[n][h] # NoIndex => h[1] # n

InfosType ==
    /\ infoToReport \in [Nodes -> Seq(GatewayHashes)]
    /\ told \in [Nodes -> [GatewayHashes -> Nat]]
    /\ \A n \in Nodes : InfosInv(n)

LEMMA ToldType ==
    ASSUME InfosType, NEW n \in Nodes, NEW h \in GatewayHashes, h[1] # n, NEW x \in Nat,
           told' = Told(n, h, x)
    PROVE  /\ told' \in [Nodes -> [GatewayHashes -> Nat]]
           /\ \A m \in Nodes : \A g \in GatewayHashes : told'[m][g] # NoIndex => g[1] # m
  BY DEF Told, InfosType, InfosInv

LEMMA HandleSessionOpenType ==
    ASSUME InfosType, NEW n \in Nodes, NEW m \in Nodes, m # n, NEW x \in Nat,
           HandleSessionOpen(n, m, x)
    PROVE  InfosType'
  <1> DEFINE q == infoToReport[n]
             waiting == {k \in DOMAIN infoToReport[n] : infoToReport[n][k][1] = m}
  <1>1. q \in Seq(GatewayHashes) /\ DOMAIN q = 1 .. Len(q) /\ Len(q) \in Nat
    BY DEF InfosType
  <1>2. CASE waiting = {}
    BY <1>2 DEF HandleSessionOpen, InfosType, InfosInv
  <1>3. CASE waiting # {}
    <2>1. PICK k : k = Min(waiting)
      OBVIOUS
    <2>2. k \in 1 .. Len(q) /\ q[k][1] = m
      <3>1. waiting \subseteq Nat
        BY <1>1
      <3>2. k \in waiting
        BY <1>3, <2>1, <3>1, MinProperties
      <3> QED
        BY <1>1, <3>2
    <2>3. /\ told' = Told(n, q[k], x)
          /\ infoToReport' = [infoToReport EXCEPT ![n] = RemoveAt(@, k)]
      BY <1>3, <2>1 DEF HandleSessionOpen
    <2>4. q[k] \in GatewayHashes /\ q[k][1] # n
      BY <1>1, <2>2
    <2>5. /\ told' \in [Nodes -> [GatewayHashes -> Nat]]
          /\ \A p \in Nodes : \A g \in GatewayHashes : told'[p][g] # NoIndex => g[1] # p
      BY <2>3, <2>4, ToldType
    <2>6. /\ RemoveAt(q, k) \in Seq(GatewayHashes) /\ Len(RemoveAt(q, k)) = Len(q) - 1
          /\ \A j \in 1 .. Len(q) - 1 : RemoveAt(q, k)[j] = q[IF j < k THEN j ELSE j + 1]
      BY <1>1, <2>2, RemoveAtProperties
    <2>7. infoToReport' \in [Nodes -> Seq(GatewayHashes)] /\ infoToReport'[n] = RemoveAt(q, k)
          /\ \A p \in Nodes : p # n => infoToReport'[p] = infoToReport[p]
      BY <2>3, <2>6 DEF InfosType
    <2>8. \A j \in 1 .. Len(RemoveAt(q, k)) : RemoveAt(q, k)[j][1] # n
      <3>1. \A j \in 1 .. Len(q) : q[j][1] # n
        BY DEF InfosType, InfosInv
      <3>2. \A j \in 1 .. Len(q) - 1 : (IF j < k THEN j ELSE j + 1) \in 1 .. Len(q)
        BY <1>1, <2>2
      <3> QED
        BY <2>6, <3>1, <3>2
    <2>9. \A p \in Nodes : \A j \in 1 .. Len(infoToReport'[p]) : infoToReport'[p][j][1] # p
      <3>1. \A p \in Nodes : \A j \in 1 .. Len(infoToReport[p]) : infoToReport[p][j][1] # p
        BY DEF InfosType, InfosInv
      <3> HIDE DEF q
      <3> QED
        BY <2>7, <2>8, <3>1
    <2> QED
      BY <2>5, <2>7, <2>9 DEF InfosType, InfosInv
  <1> QED
    BY <1>2, <1>3

\* An info of a device without session waits.
LEMMA InfoAppended ==
    ASSUME InfosType, NEW n \in Nodes, NEW h \in GatewayHashes, h[1] # n,
           infoToReport' = [infoToReport EXCEPT ![n] = Append(@, h)], told' = told
    PROVE  InfosType'
  <1>1. infoToReport[n] \in Seq(GatewayHashes)
    BY DEF InfosType
  <1>2. /\ infoToReport' \in [Nodes -> Seq(GatewayHashes)]
        /\ infoToReport'[n] = Append(infoToReport[n], h)
        /\ \A p \in Nodes : p # n => infoToReport'[p] = infoToReport[p]
    BY <1>1 DEF InfosType
  <1>3. \A j \in 1 .. Len(Append(infoToReport[n], h)) : Append(infoToReport[n], h)[j][1] # n
    <2>1. \A j \in 1 .. Len(infoToReport[n]) : infoToReport[n][j][1] # n
      BY DEF InfosType, InfosInv
    <2> QED
      BY <1>1, <2>1
  <1>4. \A p \in Nodes : \A j \in 1 .. Len(infoToReport'[p]) : infoToReport'[p][j][1] # p
    BY <1>2, <1>3 DEF InfosType, InfosInv
  <1> QED
    BY <1>2, <1>4 DEF InfosType, InfosInv

\* A session that is open has its end of a connection.
LEMMA OpenSession ==
    ASSUME TypeInv, ConnectionsInv, NEW n \in Nodes, NEW i \in 1 .. Len(sessions[n]),
           sessions[n][i].state \in {"open", "garbled"}
    PROVE  /\ sessions[n][i].connection \in ConnectionIds
           /\ sessions[n][i].connection # NoConnection
           /\ connections[sessions[n][i].connection] # NoConnection
           /\ sessions[n][i].end \notin connections[sessions[n][i].connection].closed
  <1>1. sessions[n][i].connection # NoConnection
    BY DEF ConnectionsInv, StatesInv
  <1> QED
    BY <1>1, SessionFields DEF ConnectionsInv, OpenInv

LEMMA InfosKept ==
    ASSUME TypeInv, ConnectionsInv
    PROVE  /\ InfosType
           /\ UNCHANGED <<infoToReport, told>> => InfosType'
  BY DEF TypeInv, ConnectionsInv, OthersInv, InfosType, InfosInv

\* The steps that change the connections that wait.
BacklogAdded(n, c, m) ==
    /\ backlog' \in [Nodes -> Seq(ConnectionIds \X Nodes)]
    /\ Len(backlog[n]) \in Nat /\ Len(backlog'[n]) = Len(backlog[n]) + 1
    /\ backlog'[n][Len(backlog[n]) + 1][1] = c /\ backlog'[n][Len(backlog[n]) + 1][2] = m
    /\ \A k \in 1 .. Len(backlog[n]) : backlog'[n][k] = backlog[n][k]
    /\ \A p \in Nodes : p # n => backlog'[p] = backlog[p]

LEMMA BacklogAppended ==
    ASSUME TypeInv, NEW n \in Nodes, NEW c \in ConnectionIds, NEW m \in Nodes,
           backlog' = [backlog EXCEPT ![n] = Append(@, <<c, m>>)]
    PROVE  BacklogAdded(n, c, m)
  <1> DEFINE B == ConnectionIds \X Nodes
             x == <<c, m>>
  <1>1. backlog \in [Nodes -> Seq(B)] /\ backlog[n] \in Seq(B) /\ x \in B
    BY DEF TypeInv
  <1>2. backlog' = [backlog EXCEPT ![n] = Append(@, x)]
    OBVIOUS
  <1> HIDE DEF B, x
  <1>3. backlog'[n] = Append(backlog[n], x) /\ \A p \in Nodes : p # n => backlog'[p] = backlog[p]
    BY <1>1, <1>2
  <1>4. Append(backlog[n], x) \in Seq(B)
    BY <1>1
  <1>5. backlog' \in [Nodes -> Seq(B)]
    BY <1>1, <1>2, <1>3, <1>4
  <1>6. /\ Len(backlog[n]) \in Nat /\ Len(backlog'[n]) = Len(backlog[n]) + 1
        /\ backlog'[n][Len(backlog[n]) + 1] = x
        /\ \A k \in 1 .. Len(backlog[n]) : backlog'[n][k] = backlog[n][k]
    BY <1>1, <1>3
  <1> QED
    BY <1>3, <1>5, <1>6 DEF B, x, BacklogAdded

LEMMA BacklogTaken ==
    ASSUME TypeInv, NEW n \in Nodes, backlog[n] # <<>>,
           backlog' = [backlog EXCEPT ![n] = Tail(@)]
    PROVE  /\ backlog' \in [Nodes -> Seq(ConnectionIds \X Nodes)]
           /\ Len(backlog[n]) \in Nat /\ 1 \in 1 .. Len(backlog[n])
           /\ Len(backlog'[n]) = Len(backlog[n]) - 1
           /\ Head(backlog[n]) = backlog[n][1]
           /\ \A k \in 1 .. Len(backlog'[n]) : backlog'[n][k] = backlog[n][k + 1]
           /\ \A m \in Nodes : m # n => backlog'[m] = backlog[m]
  <1> DEFINE B == ConnectionIds \X Nodes
  <1>1. backlog \in [Nodes -> Seq(B)] /\ backlog[n] \in Seq(B)
    BY DEF TypeInv
  <1> HIDE DEF B
  <1>2. backlog'[n] = Tail(backlog[n]) /\ \A m \in Nodes : m # n => backlog'[m] = backlog[m]
    BY <1>1
  <1>3. /\ Tail(backlog[n]) \in Seq(B) /\ Len(Tail(backlog[n])) = Len(backlog[n]) - 1
        /\ Len(backlog[n]) \in Nat /\ 1 \in 1 .. Len(backlog[n])
        /\ Head(backlog[n]) = backlog[n][1]
        /\ \A k \in 1 .. Len(backlog[n]) - 1 : Tail(backlog[n])[k] = backlog[n][k + 1]
    BY <1>1
  <1>4. backlog' \in [Nodes -> Seq(B)]
    BY <1>1, <1>2, <1>3
  <1> QED
    BY <1>2, <1>3, <1>4 DEF B

\* SessionClosed for a session with a connection, or without.
LEMMA SessionClosedType ==
    ASSUME TypeInv, ConnectionsInv, NEW n \in Nodes, NEW i \in 1 .. Len(sessions[n]),
           SessionClosed(n, i)
    PROVE  /\ sessions' \in [Nodes -> Seq(Session)]
           /\ connections' \in [ConnectionIds -> Connection \cup {NoConnection}]
  <1>1. sessions' \in [Nodes -> Seq(Session)]
    BY SessionRemoved DEF SessionClosed
  <1>2. connections' \in [ConnectionIds -> Connection \cup {NoConnection}]
    <2>1. CASE sessions[n][i].connection = NoConnection
      BY <2>1 DEF SessionClosed, TypeInv
    <2>2. CASE sessions[n][i].connection # NoConnection
      <3>1. /\ sessions[n][i].connection \in ConnectionIds /\ sessions[n][i].end \in Ends
            /\ connections[sessions[n][i].connection] # NoConnection
        BY <2>2, SessionFields DEF ConnectionsInv, OpenInv
      <3>2. connections' = Closed(sessions[n][i].connection, sessions[n][i].end)
        BY <2>2 DEF SessionClosed
      <3> QED
        BY <3>1, <3>2, ConnectionClosed
    <2> QED
      BY <2>1, <2>2
  <1> QED
    BY <1>1, <1>2

LEMMA FailureType ==
    ASSUME TypeInv, Failure \/ UNCHANGED failures
    PROVE  failures' \in 0 .. MaxFailures
  BY TcpAssumption DEF TypeInv, Failure

\* The steps of the session at position i, except Connected.
LEMMA SessionStepType ==
    ASSUME TypeInv, ConnectionsInv, NEW n \in Nodes, NEW i \in 1 .. Len(sessions[n]),
           \/ ConnectionFailed(n, i) \/ Retry(n, i) \/ ReadSize(n, i)
           \/ ReadBytes(n, i) \/ ReadGarbled(n, i) \/ ReadError(n, i)
    PROVE  TypeInv' /\ InfosType'
  <1> DEFINE s == sessions[n][i]
  <1>1. /\ sessions \in [Nodes -> Seq(Session)] /\ sessions[n] \in Seq(Session) /\ s \in Session
        /\ s.readBufferSize \in Message \cup {NoMessage}
    BY SessionFields DEF TypeInv
  <1>2. UNCHANGED <<devices, deaf, up, life, deafAcceptor, infoToReport, told, backlog, sender, sent>>
    BY DEF ConnectionFailed, Retry, ReadSize, ReadBytes, ReadGarbled, ReadError, nodeVars,
           broadcastVars, dataVars, networkVars
  <1>3. InfosType'
    BY <1>2, InfosKept
  <1>4. faults' \subseteq {"overlap", "stray", "garbled"}
    BY DEF ConnectionFailed, Retry, ReadSize, ReadBytes, ReadGarbled, ReadError, dataVars, TypeInv
  <1>5. failures' \in 0 .. MaxFailures
    BY FailureType DEF ConnectionFailed, Retry, ReadSize, ReadBytes, ReadGarbled, ReadError, TypeInv
  <1>6. ASSUME Reading(n, i)
        PROVE  /\ s.connection \in ConnectionIds /\ connections[s.connection] # NoConnection
               /\ Unread(n, i) \in Seq(Tokens) /\ Unread(n, i) # <<>>
               /\ Head(Unread(n, i)) \in Tokens
    <2>1. s.connection \in ConnectionIds /\ connections[s.connection] # NoConnection
      BY <1>6, OpenSession DEF Reading
    <2>2. s.end \in Ends /\ connections[s.connection].toRead \in [Ends -> Seq(Tokens)]
      BY <2>1, ConnectionFields, SessionFields
    <2>3. connections[s.connection].toRead[s.end] \in Seq(Tokens)
      BY <2>2
    <2>4. \A q \in Seq(Tokens) : q # <<>> => Head(q) \in Tokens
      OBVIOUS
    <2> QED
      BY <1>6, <2>1, <2>3, <2>4 DEF Reading, Unread
  <1>7. /\ sessions' \in [Nodes -> Seq(Session)]
        /\ connections' \in [ConnectionIds -> Connection \cup {NoConnection}]
        /\ received' \in [Links -> 0 .. MaxMessages]
    <2>1. ASSUME NEW r \in Session, sessions' = [sessions EXCEPT ![n][i] = r]
          PROVE  sessions' \in [Nodes -> Seq(Session)]
      BY <2>1, SessionUpdated
    <2>2. CASE Retry(n, i) \/ ReadGarbled(n, i)
      <3>1. PICK st \in States : sessions' = [sessions EXCEPT ![n][i].state = st]
        BY <2>2 DEF Retry, ReadGarbled, States
      <3>2. [s EXCEPT !.state = st] \in Session
        BY <1>1, ChangedSession
      <3>3. sessions' = [sessions EXCEPT ![n][i] = [s EXCEPT !.state = st]]
        BY <1>1, <3>1
      <3> QED
        BY <2>1, <2>2, <3>2, <3>3 DEF Retry, ReadGarbled, TypeInv, networkVars, dataVars
    <2>3. CASE ConnectionFailed(n, i) \/ ReadError(n, i)
      <3>1. UNCHANGED received
        BY <2>3 DEF ConnectionFailed, ReadError, dataVars
      <3>2. CASE SessionClosed(n, i)
        BY <3>1, <3>2, SessionClosedType DEF TypeInv
      <3>3. CASE /\ s.retriesLeft > 0 /\ UNCHANGED connections
                 /\ sessions' = [sessions EXCEPT ![n][i].state = "waiting",
                                                 ![n][i].retriesLeft = @ - 1]
        <4>1. PICK r : r = [s EXCEPT !.state = "waiting", !.retriesLeft = @ - 1]
          OBVIOUS
        <4>2. r \in Session
          BY <1>1, <3>3, <4>1, ChangedSession
        <4>3. sessions' = [sessions EXCEPT ![n][i] = r]
          BY <1>1, <3>3, <4>1
        <4> QED
          BY <2>1, <3>1, <3>3, <4>2, <4>3 DEF TypeInv
      <3> QED
        BY <2>3, <3>2, <3>3 DEF ConnectionFailed, ReadError
    <2>4. CASE ReadSize(n, i) \/ ReadBytes(n, i)
      <3>1. Reading(n, i) /\ connections' = ConnectionsRead(n, i)
        BY <2>4 DEF ReadSize, ReadBytes
      <3>2. connections' \in [ConnectionIds -> Connection \cup {NoConnection}]
        BY <1>6, <3>1, ConnectionRead
      <3>3. PICK b \in Message \cup {NoMessage} :
               sessions' = [sessions EXCEPT ![n][i].readBufferSize = b]
        <4>1. Head(Unread(n, i))[2] \in Message
          BY <1>6, <3>1 DEF Tokens
        <4> QED
          BY <2>4, <4>1 DEF ReadSize, ReadBytes
      <3>4. [s EXCEPT !.readBufferSize = b] \in Session
        BY <1>1, ChangedSession
      <3>5. sessions' = [sessions EXCEPT ![n][i] = [s EXCEPT !.readBufferSize = b]]
        BY <1>1, <3>3
      <3>6. received' \in [Links -> 0 .. MaxMessages]
        <4>1. ReadBytes(n, i) => s.readBufferSize \in Message
          <5>1. Head(Unread(n, i)) \in Tokens
            BY <1>6, <3>1
          <5> QED
            BY <5>1 DEF ReadBytes, Tokens
        <4>2. \A m \in Message : m.number \in 0 .. MaxMessages
          BY TcpAssumption DEF Message
        <4> QED
          BY <2>4, <4>1, <4>2 DEF ReadSize, ReadBytes, dataVars, TypeInv
      <3> QED
        BY <2>1, <3>2, <3>4, <3>5, <3>6
    <2> QED
      BY <2>2, <2>3, <2>4
  <1> QED
    BY <1>2, <1>3, <1>4, <1>5, <1>7 DEF TypeInv

\* The number of a new connection.
LEMMA FreeConnection ==
    ASSUME FreeConnections # {}
    PROVE  Min(FreeConnections) \in FreeConnections
  <1>1. FreeConnections \subseteq Nat
    BY TcpAssumption DEF FreeConnections, ConnectionIds
  <1> QED
    BY <1>1, MinProperties

\* What Connected does, in terms of the new connection c to m, and of what
\* becomes of the session.
Connects(n, i, c, m, r) ==
    /\ m = sessions[n][i].peer /\ m # n
    /\ c # NoConnection /\ connections[c] = NoConnection
    /\ \A p \in Nodes, t \in 1 .. Threads : sender[p][t].connection # c
    /\ connections' \in [ConnectionIds -> Connection \cup {NoConnection}]
    /\ connections'[c] # NoConnection /\ connections'[c].closed = {}
    /\ \A e \in Ends : connections'[c].toRead[e] = <<>>
    /\ \A d \in ConnectionIds : d # c => connections'[d] = connections[d]
    /\ backlog' = [backlog EXCEPT ![m] = Append(@, <<c, n>>)]
    /\ sessions' = [sessions EXCEPT ![n][i] = r]
    /\ r.peer = m /\ r.connection = c /\ r.end = "client"
    /\ sessions[n][i].connection = NoConnection
    /\ r.state = "open" /\ r.readBufferSize = NoMessage
    /\ HandleSessionOpen(n, m, i)

LEMMA ConnectedEffect ==
    ASSUME TypeInv, ConnectionsInv, NEW n \in Nodes, NEW i \in 1 .. Len(sessions[n]),
           Connected(n, i)
    PROVE  \E c \in ConnectionIds, m \in Nodes, r \in Session : Connects(n, i, c, m, r)
  <1>1. /\ sessions[n] \in Seq(Session) /\ sessions[n][i] \in Session
        /\ sessions[n][i].peer \in Nodes
    BY SessionFields
  <1>2. PICK c : c = Min(FreeConnections)
    OBVIOUS
  <1>3. c \in FreeConnections
    BY <1>2, FreeConnection DEF Connected
  <1>4. /\ c \in ConnectionIds /\ connections[c] = NoConnection
        /\ \A p \in Nodes, t \in 1 .. Threads : sender[p][t].connection # c
    BY <1>3 DEF FreeConnections
  <1>5. c # NoConnection
    BY <1>4, TcpAssumption DEF ConnectionIds
  <1> DEFINE new == [closed |-> {}, toRead |-> [e \in Ends |-> <<>>]]
  <1>6. connections' = [connections EXCEPT ![c] = new]
    BY <1>2 DEF Connected
  <1>7. /\ new \in Connection /\ new.closed = {} /\ \A e \in Ends : new.toRead[e] = <<>>
    <2>1. [e \in Ends |-> <<>>] \in [Ends -> Seq(Tokens)]
      OBVIOUS
    <2>2. {} \in (SUBSET Ends) \ {Ends}
      BY DEF Ends
    <2> QED
      BY <2>1, <2>2 DEF Connection
  <1> HIDE DEF new
  <1>8. new # NoConnection
    BY <1>7, NoConnectionAssumption
  <1>9. /\ connections' \in [ConnectionIds -> Connection \cup {NoConnection}]
        /\ connections'[c] = new
        /\ \A d \in ConnectionIds : d # c => connections'[d] = connections[d]
    BY <1>4, <1>6, <1>7 DEF TypeInv
  <1>10. PICK r : r = [sessions[n][i] EXCEPT !.state = "open", !.connection = c, !.retriesLeft = 0]
    OBVIOUS
  <1>11. /\ r \in Session /\ r.peer = sessions[n][i].peer /\ r.end = sessions[n][i].end
         /\ r.connection = c /\ r.state = "open"
         /\ r.readBufferSize = sessions[n][i].readBufferSize
    BY <1>1, <1>4, <1>10, ConnectedSession
  <1>12. /\ sessions[n][i].readBufferSize = NoMessage /\ sessions[n][i].end = "client"
         /\ sessions[n][i].connection = NoConnection
    <2>1. sessions[n][i].state = "connecting"
      BY DEF Connected
    <2> QED
      BY <2>1 DEF ConnectionsInv, StatesInv
  <1>13. sessions' = [sessions EXCEPT ![n][i] = r]
    BY <1>1, <1>2, <1>10 DEF Connected
  <1>14. backlog' = [backlog EXCEPT ![sessions[n][i].peer] = Append(@, <<c, n>>)]
    BY <1>2 DEF Connected
  <1>15. HandleSessionOpen(n, sessions[n][i].peer, i)
    BY DEF Connected
  <1>16. sessions[n][i].peer # n
    BY DEF ConnectionsInv, OthersInv
  <1>17. PICK m \in Nodes : m = sessions[n][i].peer
    BY <1>1
  <1>18. connections'[c] # NoConnection /\ connections'[c].closed = {}
         /\ \A e \in Ends : connections'[c].toRead[e] = <<>>
    BY <1>7, <1>8, <1>9
  <1>19. /\ backlog' = [backlog EXCEPT ![m] = Append(@, <<c, n>>)] /\ m # n
         /\ r.peer = m /\ r.readBufferSize = NoMessage /\ HandleSessionOpen(n, m, i)
    BY <1>11, <1>12, <1>14, <1>15, <1>16, <1>17
  <1> HIDE DEF HandleSessionOpen
  <1>20. c \in ConnectionIds /\ m \in Nodes /\ r \in Session
    BY <1>4, <1>11
  <1> QED
    BY <1>4, <1>5, <1>9, <1>11, <1>12, <1>13, <1>17, <1>18, <1>19, <1>20 DEF Connects

LEMMA ConnectedType ==
    ASSUME TypeInv, ConnectionsInv, NEW n \in Nodes, NEW i \in 1 .. Len(sessions[n]),
           Connected(n, i)
    PROVE  TypeInv' /\ InfosType'
  <1>1. PICK c \in ConnectionIds, m \in Nodes, r \in Session : Connects(n, i, c, m, r)
    BY ConnectedEffect
  <1>2. UNCHANGED <<devices, deaf, up, life, deafAcceptor, sender, sent, received, faults, failures>>
    BY DEF Connected, nodeVars, broadcastVars, dataVars
  <1>3. sessions' \in [Nodes -> Seq(Session)]
    BY <1>1, SessionUpdated DEF Connects
  <1>4. backlog' \in [Nodes -> Seq(ConnectionIds \X Nodes)]
    <2>1. BacklogAdded(m, c, n)
      BY <1>1, BacklogAppended DEF Connects
    <2> QED
      BY <2>1 DEF BacklogAdded
  <1>5. InfosType'
    <2>1. i \in Nat
      BY SessionFields
    <2> QED
      BY <1>1, <2>1, InfosKept, HandleSessionOpenType DEF Connects
  <1> QED
    BY <1>1, <1>2, <1>3, <1>4, <1>5 DEF TypeInv, InfosType, Connects

LEMMA AcceptType ==
    ASSUME TypeInv, ConnectionsInv, NEW n \in Nodes, Accept(n)
    PROVE  TypeInv' /\ InfosType'
  <1>1. UNCHANGED <<devices, deaf, up, life, deafAcceptor, sender, sent, received, faults, failures>>
    BY DEF Accept, nodeVars, broadcastVars, dataVars
  <1>2. backlog[n] # <<>> /\ backlog' = [backlog EXCEPT ![n] = Tail(@)]
    BY DEF Accept
  <1>3. /\ backlog' \in [Nodes -> Seq(ConnectionIds \X Nodes)]
        /\ Head(backlog[n]) = backlog[n][1] /\ 1 \in 1 .. Len(backlog[n])
    BY <1>2, BacklogTaken
  <1>4. PICK c, m : c = Head(backlog[n])[1] /\ m = Head(backlog[n])[2]
    OBVIOUS
  <1>5. /\ c \in ConnectionIds /\ m \in Nodes /\ m # n
        /\ connections[c] # NoConnection
    BY <1>3, <1>4, BacklogFields DEF ConnectionsInv, OthersInv, OpenInv
  <1>6. CASE SessionsTo(n, m) = {}
    <2>1. /\ sessions' = [sessions EXCEPT ![n] = Append(@, ServerSession(m, c))]
          /\ HandleSessionOpen(n, m, Len(sessions[n]) + 1) /\ UNCHANGED connections
      BY <1>4, <1>6 DEF Accept
    <2>2. ServerSession(m, c) \in Session
      BY <1>5, NewSessions
    <2>3. sessions' \in [Nodes -> Seq(Session)] /\ Len(sessions[n]) + 1 \in Nat
      <3>1. PICK r \in Session : sessions' = [sessions EXCEPT ![n] = Append(@, r)]
        BY <2>1, <2>2
      <3>2. sessions' \in [Nodes -> Seq(Session)] /\ Len(sessions[n]) \in Nat
        BY <3>1, SessionAppended
      <3> QED
        BY <3>2
    <2>4. InfosType'
      BY <1>5, <2>1, <2>3, InfosKept, HandleSessionOpenType
    <2> QED
      BY <1>1, <1>3, <2>1, <2>3, <2>4 DEF TypeInv, InfosType
  <1>7. CASE SessionsTo(n, m) # {}
    <2>1. connections' = Closed(c, "server") /\ UNCHANGED <<sessions, infoToReport, told>>
      BY <1>4, <1>7 DEF Accept, sessionVars
    <2>2. connections' \in [ConnectionIds -> Connection \cup {NoConnection}]
      BY <1>5, <2>1, ConnectionClosed DEF Ends
    <2>3. InfosType'
      BY <2>1, InfosKept
    <2> QED
      BY <1>1, <1>3, <2>1, <2>2, <2>3 DEF TypeInv
  <1> QED
    BY <1>6, <1>7

LEMMA DevicesType ==
    ASSUME TypeInv, NEW n \in Nodes, NEW m \in Nodes
    PROVE  DevicesWith(n, m) \in Seq(Nodes)
  BY DEF TypeInv, DevicesWith

LEMMA UdpDiscoveryCallbackType ==
    ASSUME TypeInv, ConnectionsInv, NEW n \in Nodes, NEW m \in Nodes, UdpDiscoveryCallback(n, m)
    PROVE  TypeInv' /\ InfosType'
  <1>1. /\ UNCHANGED <<deaf, up, life, deafAcceptor, connections, backlog, sender, sent,
                       received, faults, failures>>
        /\ m # n /\ devices' = [devices EXCEPT ![n] = DevicesWith(n, m)]
    BY DEF UdpDiscoveryCallback, networkVars, dataVars
  <1>2. devices' \in [Nodes -> Seq(Nodes)]
    BY <1>1, DevicesType DEF TypeInv
  <1>3. Hash(m) \in GatewayHashes /\ Hash(m)[1] = m
    BY DEF TypeInv, Hash, GatewayHashes
  <1>4. InfosType
    BY InfosKept
  <1>5. CASE SessionsTo(n, m) = {}
    <2>1. sessions' = [sessions EXCEPT ![n] = Append(@, ClientSession(m))]
      BY <1>5 DEF UdpDiscoveryCallback
    <2>2. sessions' \in [Nodes -> Seq(Session)]
      BY <2>1, NewSessions, SessionAppended
    <2>3. /\ told' = told
          /\ \/ infoToReport' = infoToReport
             \/ infoToReport' = [infoToReport EXCEPT ![n] = Append(@, Hash(m))]
      BY <1>5 DEF UdpDiscoveryCallback
    <2>4. InfosType'
      <3>1. PICK h : h = Hash(m)
        OBVIOUS
      <3> QED
        BY <1>1, <1>3, <1>4, <2>3, <3>1, InfosKept, InfoAppended
    <2> QED
      BY <1>1, <1>2, <2>2, <2>4 DEF TypeInv, InfosType
  <1>6. CASE SessionsTo(n, m) # {}
    <2>1. PICK i \in SessionsTo(n, m) : told' = Told(n, Hash(m), i)
      BY <1>6 DEF UdpDiscoveryCallback
    <2>2. UNCHANGED <<infoToReport, sessions>>
      BY <1>6 DEF UdpDiscoveryCallback
    <2>3. i \in Nat
      BY DEF SessionsTo, TypeInv
    <2>4. PICK h : h = Hash(m)
      OBVIOUS
    <2>5. /\ told' \in [Nodes -> [GatewayHashes -> Nat]]
          /\ \A p \in Nodes : \A g \in GatewayHashes : told'[p][g] # NoIndex => g[1] # p
      BY <1>1, <1>3, <1>4, <2>1, <2>3, <2>4, ToldType
    <2>6. InfosType'
      BY <1>4, <2>2, <2>5 DEF InfosType, InfosInv
    <2> QED
      BY <1>1, <1>2, <2>2, <2>6 DEF TypeInv, InfosType
  <1> QED
    BY <1>5, <1>6

\* A thread writes something at an end that a session has.
LEMMA WrittenType ==
    ASSUME TypeInv, ConnectionsInv, NEW n \in Nodes, NEW i \in 1 .. Len(sessions[n]),
           sessions[n][i].connection # NoConnection, NEW token \in Tokens,
           connections' = Written(sessions[n][i].connection, sessions[n][i].end, token)
    PROVE  connections' \in [ConnectionIds -> Connection \cup {NoConnection}]
  <1>1. /\ sessions[n][i].connection \in ConnectionIds /\ sessions[n][i].end \in Ends
        /\ connections[sessions[n][i].connection] # NoConnection
    BY SessionFields DEF ConnectionsInv, OpenInv
  <1> QED
    BY <1>1, ConnectionWritten

\* The size of m is written to the session at position i.
SizeWritten(n, t, i, m) ==
    /\ sessions[n][i].state \in {"open", "garbled"}
    /\ sender' = [sender EXCEPT ![n][t] =
          [connection |-> sessions[n][i].connection, end |-> sessions[n][i].end, message |-> m]]
    /\ connections' = Written(sessions[n][i].connection, sessions[n][i].end, <<"size", m>>)
    /\ faults' = IF \E u \in 1 .. Threads : sender[n][u].connection = sessions[n][i].connection
                 THEN faults \cup {"overlap"} ELSE faults

\* The cases of sendData: the message is lost, or goes to an open session.
LEMMA SendSizeEffect ==
    ASSUME TypeInv, ConnectionsInv, NEW n \in Nodes, NEW t \in 1 .. Threads,
           NEW h \in GatewayHashes, SendSize(n, t, h)
    PROVE  \/ UNCHANGED <<sender, connections, faults>>
           \/ \E i \in 1 .. Len(sessions[n]), m \in Message :
                 /\ SizeWritten(n, t, i, m)
                 /\ m.from = n /\ m.number = sent[<<n, h[1]>>] + 1
  <1>1. PICK m : m = [from |-> n, to |-> h[1], number |-> sent[<<n, h[1]>>] + 1]
    OBVIOUS
  <1>2. h[1] \in Nodes /\ h[1] # n
    BY DEF SendSize, GatewayHashes, ConnectionsInv, OthersInv
  <1>3. m \in Message
    <2>1. <<n, h[1]>> \in Links
      BY <1>2 DEF Links
    <2>2. sent[<<n, h[1]>>] \in 0 .. MaxMessages /\ sent[<<n, h[1]>>] < MaxMessages
      BY <2>1 DEF TypeInv, SendSize
    <2>3. sent[<<n, h[1]>>] + 1 \in 1 .. MaxMessages
      BY <2>2, TcpAssumption
    <2> QED
      BY <1>1, <1>2, <2>3 DEF Message
  <1>4. DOMAIN sessions[n] = 1 .. Len(sessions[n])
    BY DEF TypeInv
  <1>5. PICK i : i = told[n][h]
    OBVIOUS
  <1>6. CASE i \in DOMAIN sessions[n] /\ sessions[n][i].state \in {"open", "garbled"}
    BY <1>1, <1>3, <1>4, <1>5, <1>6 DEF SendSize, SizeWritten
  <1>7. CASE ~(i \in DOMAIN sessions[n] /\ sessions[n][i].state \in {"open", "garbled"})
    BY <1>5, <1>7 DEF SendSize
  <1> QED
    BY <1>6, <1>7

LEMMA SendSizeType ==
    ASSUME TypeInv, ConnectionsInv, NEW n \in Nodes, NEW t \in 1 .. Threads,
           NEW h \in GatewayHashes, SendSize(n, t, h)
    PROVE  TypeInv' /\ InfosType'
  <1>1. UNCHANGED <<devices, deaf, up, life, deafAcceptor, sessions, infoToReport, told, backlog,
                    received, failures>>
    BY DEF SendSize, nodeVars, broadcastVars, sessionVars
  <1>2. InfosType'
    BY <1>1, InfosKept
  <1>3. sent' \in [Links -> 0 .. MaxMessages]
    <2>1. sent' = [sent EXCEPT ![<<n, h[1]>>] = @ + 1] /\ sent[<<n, h[1]>>] < MaxMessages
      BY DEF SendSize
    <2>2. h[1] \in Nodes /\ h[1] # n
      BY DEF SendSize, GatewayHashes, ConnectionsInv, OthersInv
    <2>3. <<n, h[1]>> \in Links
      BY <2>2 DEF Links
    <2>4. sent[<<n, h[1]>>] + 1 \in 0 .. MaxMessages
      BY <2>1, <2>3, TcpAssumption, SMTT(30) DEF TypeInv
    <2> QED
      BY <2>1, <2>3, <2>4 DEF TypeInv
  <1>4. /\ sender' \in [Nodes -> [1 .. Threads -> SenderType]]
        /\ connections' \in [ConnectionIds -> Connection \cup {NoConnection}]
        /\ faults' \subseteq {"overlap", "stray", "garbled"}
    <2>1. CASE UNCHANGED <<sender, connections, faults>>
      BY <2>1 DEF TypeInv
    <2>2. ASSUME NEW i \in 1 .. Len(sessions[n]), NEW m \in Message,
                 SizeWritten(n, t, i, m)
          PROVE  /\ sender' \in [Nodes -> [1 .. Threads -> SenderType]]
                 /\ connections' \in [ConnectionIds -> Connection \cup {NoConnection}]
                 /\ faults' \subseteq {"overlap", "stray", "garbled"}
      <3>1. [connection |-> sessions[n][i].connection, end |-> sessions[n][i].end, message |-> m]
               \in SenderType
        BY SessionFields DEF SenderType
      <3>2. sender' \in [Nodes -> [1 .. Threads -> SenderType]]
        BY <2>2, <3>1 DEF TypeInv, SizeWritten
      <3>3. <<"size", m>> \in Tokens /\ sessions[n][i].connection # NoConnection
        BY <2>2, OpenSession DEF Tokens, SizeWritten
      <3>4. connections' \in [ConnectionIds -> Connection \cup {NoConnection}]
        <4>1. PICK token : token = <<"size", m>>
          OBVIOUS
        <4> QED
          BY <2>2, <3>3, <4>1, WrittenType DEF SizeWritten
      <3> QED
        BY <2>2, <3>2, <3>4 DEF TypeInv, SizeWritten
    <2> QED
      BY <2>1, <2>2, SendSizeEffect
  <1> QED
    BY <1>1, <1>2, <1>3, <1>4 DEF TypeInv

\* The second half of sendData goes to the session that has the connection, or
\* astray.
BytesWritten(n, t, i) ==
    /\ sessions[n][i].connection # NoConnection
    /\ sessions[n][i].connection = sender[n][t].connection
    /\ connections' = Written(sender[n][t].connection, sender[n][t].end,
                              <<"data", sender[n][t].message>>)
    /\ UNCHANGED faults

BytesStray(n, t) ==
    /\ faults' = faults \cup {"stray"}
    /\ \/ UNCHANGED connections
       \/ \E i \in 1 .. Len(sessions[n]) :
             /\ sessions[n][i].connection # NoConnection
             /\ connections' = Written(sessions[n][i].connection, sessions[n][i].end,
                                       <<"data", sender[n][t].message>>)

LEMMA SendBytesEffect ==
    ASSUME TypeInv, ConnectionsInv, NEW n \in Nodes, NEW t \in 1 .. Threads, SendBytes(n, t)
    PROVE  /\ sender[n][t].connection # NoConnection /\ sender[n][t].message \in Message
           /\ BytesStray(n, t) \/ \E i \in 1 .. Len(sessions[n]) : BytesWritten(n, t, i)
  <1>1. DOMAIN sessions[n] = 1 .. Len(sessions[n])
    BY DEF TypeInv
  <1>2. sender[n][t] # IdleSender
    BY DEF SendBytes
  <1>3. sender[n][t].connection # NoConnection /\ sender[n][t].message \in Message
    BY <1>2 DEF ConnectionsInv, SendersInv
  <1> DEFINE open == {i \in DOMAIN sessions[n] : sessions[n][i].connection # NoConnection}
  <1>4. CASE \E i \in open : sessions[n][i].connection = sender[n][t].connection
    <2>1. PICK i \in open : sessions[n][i].connection = sender[n][t].connection
      BY <1>4
    <2>2. BytesWritten(n, t, i)
      BY <1>4, <2>1 DEF SendBytes, BytesWritten
    <2> QED
      BY <1>1, <1>3, <2>1, <2>2
  <1>5. CASE ~\E i \in open : sessions[n][i].connection = sender[n][t].connection
    BY <1>1, <1>3, <1>5 DEF SendBytes, BytesStray
  <1> QED
    BY <1>4, <1>5

LEMMA SendBytesType ==
    ASSUME TypeInv, ConnectionsInv, NEW n \in Nodes, NEW t \in 1 .. Threads, SendBytes(n, t)
    PROVE  TypeInv' /\ InfosType'
  <1>1. UNCHANGED <<devices, deaf, up, life, deafAcceptor, sessions, infoToReport, told, backlog,
                    sent, received, failures>>
    BY DEF SendBytes, nodeVars, broadcastVars, sessionVars
  <1>2. InfosType'
    BY <1>1, InfosKept
  <1>3. sender' \in [Nodes -> [1 .. Threads -> SenderType]]
    <2>1. IdleSender \in SenderType
      BY DEF IdleSender, SenderType, Ends
    <2>2. sender' = [sender EXCEPT ![n][t] = IdleSender]
      BY DEF SendBytes
    <2> HIDE DEF IdleSender
    <2> QED
      BY <2>1, <2>2 DEF TypeInv
  <1>4. sender[n][t].message \in Message
    BY SendBytesEffect
  <1>5. PICK token \in Tokens : token = <<"data", sender[n][t].message>>
    BY <1>4 DEF Tokens
  <1>6. CASE BytesStray(n, t)
    BY <1>1, <1>2, <1>3, <1>5, <1>6, WrittenType DEF BytesStray, TypeInv
  <1>7. ASSUME NEW i \in 1 .. Len(sessions[n]), BytesWritten(n, t, i)
        PROVE  TypeInv'
    <2>1. sessions[n][i].end = sender[n][t].end
      BY <1>7 DEF BytesWritten, ConnectionsInv, SendersInv
    <2>2. connections' = Written(sessions[n][i].connection, sessions[n][i].end, token)
      BY <1>5, <1>7, <2>1 DEF BytesWritten
    <2>3. connections' \in [ConnectionIds -> Connection \cup {NoConnection}]
      BY <1>7, <2>2, WrittenType DEF BytesWritten
    <2> QED
      BY <1>1, <1>2, <1>3, <1>7, <2>3 DEF BytesWritten, TypeInv
  <1> QED
    BY <1>2, <1>6, <1>7, SendBytesEffect

\* A crash closes the ends that a node holds.
LEMMA CrashConnections ==
    ASSUME TypeInv, NEW n \in Nodes, Crash(n)
    PROVE  /\ connections' \in [ConnectionIds -> Connection \cup {NoConnection}]
           /\ \A c \in ConnectionIds :
                 /\ connections[c] = NoConnection => connections'[c] = NoConnection
                 /\ connections[c] # NoConnection /\ connections'[c] = NoConnection =>
                       \A e \in Ends : e \in connections[c].closed \/ <<c, e>> \in EndsOf(n)
                 /\ connections'[c] # NoConnection =>
                       /\ connections'[c].closed =
                             connections[c].closed \cup {e \in Ends : <<c, e>> \in EndsOf(n)}
                       /\ connections'[c].toRead = connections[c].toRead
  <1> DEFINE all(c) == connections[c].closed \cup {e \in Ends : <<c, e>> \in EndsOf(n)}
             after(c) == IF connections[c] = NoConnection THEN NoConnection
                         ELSE IF all(c) = Ends THEN NoConnection
                              ELSE [connections[c] EXCEPT !.closed = all(c)]
  <1>1. connections' = [c \in ConnectionIds |-> after(c)]
    BY DEF Crash
  <1>2. ASSUME NEW c \in ConnectionIds, connections[c] # NoConnection, all(c) # Ends
        PROVE  /\ after(c) \in Connection /\ after(c) # NoConnection
               /\ after(c).closed = all(c) /\ after(c).toRead = connections[c].toRead
    <2>1. connections[c] \in Connection /\ all(c) \in (SUBSET Ends) \ {Ends}
      BY <1>2, ConnectionFields
    <2>2. after(c) = [connections[c] EXCEPT !.closed = all(c)]
      BY <1>2
    <2> HIDE DEF all, after
    <2>3. /\ after(c) \in Connection
          /\ after(c).closed = all(c) /\ after(c).toRead = connections[c].toRead
      BY <2>1, <2>2 DEF Connection
    <2> QED
      BY <2>3, NoConnectionAssumption
  <1>3. \A c \in ConnectionIds : after(c) \in Connection \cup {NoConnection}
    BY <1>2
  <1>4. ASSUME NEW c \in ConnectionIds
        PROVE  /\ connections[c] = NoConnection => after(c) = NoConnection
               /\ connections[c] # NoConnection /\ after(c) = NoConnection => all(c) = Ends
               /\ after(c) # NoConnection =>
                    after(c).closed = all(c) /\ after(c).toRead = connections[c].toRead
    BY <1>2
  <1>5. \A c \in ConnectionIds : connections'[c] = after(c)
    BY <1>1
  <1>6. connections' \in [ConnectionIds -> Connection \cup {NoConnection}]
    BY <1>1, <1>3
  <1> QED
    BY <1>4, <1>5, <1>6

LEMMA CrashType ==
    ASSUME TypeInv, ConnectionsInv, NEW n \in Nodes, Crash(n)
    PROVE  TypeInv' /\ InfosType'
  <1>1. /\ up' = up \ {n} /\ deaf' = deaf \ {n} /\ deafAcceptor' = deafAcceptor \ {n}
        /\ UNCHANGED <<life, sent, received, faults>>
    BY DEF Crash
  <1>2. connections' \in [ConnectionIds -> Connection \cup {NoConnection}]
    BY CrashConnections
  <1>3. failures' \in 0 .. MaxFailures
    BY FailureType DEF Crash
  <1>4. /\ devices' \in [Nodes -> Seq(Nodes)] /\ sessions' \in [Nodes -> Seq(Session)]
    BY DEF Crash, TypeInv
  <1>5. /\ infoToReport' \in [Nodes -> Seq(GatewayHashes)] /\ infoToReport'[n] = <<>>
        /\ \A m \in Nodes : m # n => infoToReport'[m] = infoToReport[m]
    BY DEF Crash, TypeInv
  <1>6. backlog' \in [Nodes -> Seq(ConnectionIds \X Nodes)]
    <2> DEFINE B == ConnectionIds \X Nodes
    <2>1. backlog \in [Nodes -> Seq(B)] /\ backlog' = [backlog EXCEPT ![n] = <<>>]
      BY DEF Crash, TypeInv
    <2> HIDE DEF B
    <2>2. <<>> \in Seq(B)
      OBVIOUS
    <2>3. backlog' \in [Nodes -> Seq(B)]
      BY <2>1, <2>2
    <2> QED
      BY <2>3 DEF B
  <1>7. /\ told' \in [Nodes -> [GatewayHashes -> Nat]]
        /\ \A h \in GatewayHashes : told'[n][h] = NoIndex
        /\ \A m \in Nodes : m # n => told'[m] = told[m]
    <2> DEFINE none == [h \in GatewayHashes |-> NoIndex]
    <2>1. none \in [GatewayHashes -> Nat] /\ \A h \in GatewayHashes : none[h] = NoIndex
      BY DEF NoIndex
    <2>2. told' = [told EXCEPT ![n] = none]
      BY DEF Crash
    <2> HIDE DEF none
    <2> QED
      BY <2>1, <2>2 DEF TypeInv
  <1>8. sender' \in [Nodes -> [1 .. Threads -> SenderType]]
    <2> DEFINE none == [t \in 1 .. Threads |-> IdleSender]
    <2>1. none \in [1 .. Threads -> SenderType]
      BY DEF IdleSender, SenderType, Ends
    <2>2. sender' = [sender EXCEPT ![n] = none]
      BY DEF Crash
    <2> HIDE DEF none
    <2> QED
      BY <2>1, <2>2 DEF TypeInv
  <1>9. InfosType'
    <2>1. \A m \in Nodes : \A k \in 1 .. Len(infoToReport'[m]) : infoToReport'[m][k][1] # m
      <3>1. \A k \in 1 .. Len(<<>>) : FALSE
        OBVIOUS
      <3> QED
        BY <1>5, <3>1 DEF ConnectionsInv, OthersInv
    <2>2. \A m \in Nodes : \A h \in GatewayHashes : told'[m][h] # NoIndex => h[1] # m
      BY <1>7 DEF ConnectionsInv, OthersInv
    <2> QED
      BY <1>5, <1>7, <2>1, <2>2 DEF InfosType, InfosInv
  <1> QED
    BY <1>1, <1>2, <1>3, <1>4, <1>5, <1>6, <1>7, <1>8, <1>9 DEF TypeInv

LEMMA OtherStepsType ==
    ASSUME TypeInv, ConnectionsInv, NEW n \in Nodes,
           AcceptError(n) \/ BroadcastError(n) \/ Restart(n)
    PROVE  /\ TypeInv' /\ InfosType'
           /\ UNCHANGED <<sessions, infoToReport, told, connections, backlog, sender, faults>>
  <1>1. UNCHANGED <<sessions, infoToReport, told, connections, backlog, sender, sent, received,
                    faults>>
    BY DEF AcceptError, BroadcastError, Restart, sessionVars, networkVars, dataVars
  <1>2. failures' \in 0 .. MaxFailures
    BY FailureType DEF AcceptError, BroadcastError, Restart
  <1>3. InfosType'
    BY <1>1, InfosKept
  <1>4. /\ devices' = devices /\ life' \in [Nodes -> 1 .. MaxLives]
        /\ up' \subseteq Nodes /\ deaf' \subseteq up' /\ deafAcceptor' \subseteq up'
    <2>1. CASE Restart(n)
      <3>1. life[n] + 1 \in 1 .. MaxLives
        BY <2>1, TcpAssumption DEF Restart, TypeInv
      <3> QED
        BY <2>1, <3>1 DEF Restart, TypeInv, broadcastVars
    <2>2. CASE ~Restart(n)
      BY <2>2 DEF AcceptError, BroadcastError, DiscoverySocketError, broadcastVars,
                  TypeInv
    <2> QED
      BY <2>1, <2>2
  <1> QED
    BY <1>1, <1>2, <1>3, <1>4 DEF TypeInv

-----------------------------------------------------------------------------
(***************************************************************************)
(* The invariant of the connections is kept.                               *)
(***************************************************************************)

\* Steps that are about discovery only.
LEMMA QuietConnections ==
    ASSUME TypeInv, ConnectionsInv, InfosType',
           UNCHANGED <<sessions, connections, backlog, sender, faults>>
    PROVE  ConnectionsInv'
  <1> USE DEF ConnectionsInv
  <1>1. StatesInv' /\ OneSessionPerPeer' /\ EndsInv'
    BY DEF StatesInv, OneSessionPerPeer, EndsInv
  <1>2. OthersInv'
    BY DEF OthersInv, InfosType, InfosInv
  <1>3. OpenInv' /\ SendersInv'
    BY DEF OpenInv, SendersInv
  <1>4. AloneInv' /\ FramesInv'
    <2>1. Clean' = Clean
      BY DEF Clean
    <2>2. \A c, e, r : Framed(c, e, r)' = Framed(c, e, r)
      BY DEF Framed, Writes
    <2>3. AloneInv'
      BY <2>1 DEF AloneInv
    <2> HIDE DEF Clean
    <2>4. FramesInv'
      BY <2>1, <2>2 DEF FramesInv
    <2> QED
      BY <2>3, <2>4
  <1> QED
    BY <1>1, <1>2, <1>3, <1>4

\* Nobody else holds the end of a session or of a connection that waits.
LEMMA EndHeldOnce ==
    ASSUME TypeInv, ConnectionsInv, NEW n \in Nodes, NEW m \in Nodes
    PROVE  /\ \A i \in 1 .. Len(sessions[n]), j \in 1 .. Len(sessions[m]) :
                 (/\ sessions[n][i].connection = sessions[m][j].connection
                  /\ sessions[n][i].connection # NoConnection
                  /\ sessions[n][i].end = sessions[m][j].end) => n = m /\ i = j
           /\ \A i \in 1 .. Len(sessions[n]), k \in 1 .. Len(backlog[m]) :
                 sessions[n][i].connection = backlog[m][k][1] => sessions[n][i].end # "server"
           /\ \A k \in 1 .. Len(backlog[n]), l \in 1 .. Len(backlog[m]) :
                 backlog[n][k][1] = backlog[m][l][1] => n = m /\ k = l
  <1>1. EndsInv
    BY DEF ConnectionsInv
  <1>2. ASSUME NEW i \in 1 .. Len(sessions[n]), NEW j \in 1 .. Len(sessions[m]),
               sessions[n][i].connection = sessions[m][j].connection,
               sessions[n][i].connection # NoConnection,
               sessions[n][i].end = sessions[m][j].end
        PROVE  n = m /\ i = j
    BY <1>1, <1>2 DEF EndsInv
  <1>3. ASSUME NEW i \in 1 .. Len(sessions[n]), NEW k \in 1 .. Len(backlog[m]),
               sessions[n][i].connection = backlog[m][k][1]
        PROVE  sessions[n][i].end # "server"
    BY <1>1, <1>3 DEF EndsInv
  <1>4. ASSUME NEW k \in 1 .. Len(backlog[n]), NEW l \in 1 .. Len(backlog[m]),
               backlog[n][k][1] = backlog[m][l][1]
        PROVE  n = m /\ k = l
    BY <1>1, <1>4 DEF EndsInv
  <1> QED
    BY <1>2, <1>3, <1>4

\* The session at position i leaves, and the others move up.
LEMMA SessionClosedConnections ==
    ASSUME TypeInv, ConnectionsInv, TypeInv', InfosType',
           NEW n \in Nodes, NEW i \in 1 .. Len(sessions[n]), SessionClosed(n, i),
           UNCHANGED <<backlog, sender, faults>>
    PROVE  ConnectionsInv'
  <1> DEFINE c == sessions[n][i].connection
             e == sessions[n][i].end
             f == [m \in Nodes |-> [j \in 1 .. Len(sessions'[m]) |->
                     IF m = n /\ ~(j < i) THEN j + 1 ELSE j]]
             g == [m \in Nodes |-> [k \in 1 .. Len(backlog'[m]) |-> k]]
  <1>1. /\ Len(sessions[n]) \in Nat /\ Len(sessions'[n]) = Len(sessions[n]) - 1
        /\ \A j \in 1 .. Len(sessions'[n]) :
              sessions'[n][j] = sessions[n][IF j < i THEN j ELSE j + 1]
        /\ \A m \in Nodes : m # n => sessions'[m] = sessions[m]
    BY SessionRemoved DEF SessionClosed
  <1>2. \A m \in Nodes : \A j \in 1 .. Len(sessions'[m]) :
           /\ f[m][j] \in 1 .. Len(sessions[m]) /\ sessions'[m][j] = sessions[m][f[m][j]]
           /\ m = n => f[m][j] # i
    <2> TAKE m \in Nodes
    <2> TAKE j \in 1 .. Len(sessions'[m])
    <2>1. f[m][j] = IF m = n /\ ~(j < i) THEN j + 1 ELSE j
      OBVIOUS
    <2> HIDE DEF f
    <2> QED
      BY <1>1, <2>1
  <1>3. SessionsKept(f)
    <2>1. \A m \in Nodes : \A j, k \in 1 .. Len(sessions'[m]) : j # k => f[m][j] # f[m][k]
      <3> TAKE m \in Nodes
      <3> TAKE j, k \in 1 .. Len(sessions'[m])
      <3>1. /\ f[m][j] = (IF m = n /\ ~(j < i) THEN j + 1 ELSE j)
            /\ f[m][k] = (IF m = n /\ ~(k < i) THEN k + 1 ELSE k)
        OBVIOUS
      <3> HIDE DEF f
      <3> QED
        BY <1>1, <3>1
    <2> HIDE DEF f
    <2> QED
      BY <1>2, <2>1 DEF SessionsKept
  <1>4. BacklogKept(g)
    BY DEF BacklogKept
  <1> HIDE DEF f, g
  <1>5. e \in Ends
    BY SessionFields
  <1>6. c # NoConnection => /\ c \in ConnectionIds /\ connections[c] # NoConnection
                            /\ e \notin connections[c].closed
                            /\ connections' = Closed(c, e)
    BY SessionFields DEF ConnectionsInv, OpenInv, SessionClosed
  <1>7. c = NoConnection => connections' = connections
    BY DEF SessionClosed
  <1>8. c # NoConnection =>
          /\ \A d \in ConnectionIds : d # c => connections'[d] = connections[d]
          /\ connections'[c] = NoConnection => \A x \in Ends : x = e \/ x \in connections[c].closed
          /\ connections'[c] # NoConnection =>
                /\ connections'[c].closed = connections[c].closed \cup {e}
                /\ connections'[c].toRead = connections[c].toRead
    BY <1>5, <1>6, ConnectionClosed
  <1> HIDE DEF c, e
  <1>9. ConnectionsKept
    BY <1>6, <1>7, <1>8 DEF ConnectionsKept
  \* An end that is held, but not by this session, stays open.
  <1>10. ASSUME NEW d \in ConnectionIds, NEW x \in Ends, d # c \/ x # e,
                connections[d] # NoConnection, x \notin connections[d].closed
         PROVE  connections'[d] # NoConnection /\ x \notin connections'[d].closed
    BY <1>6, <1>7, <1>8, <1>10
  <1>11. OpenInv'
    <2>1. ASSUME NEW m \in Nodes, NEW j \in 1 .. Len(sessions'[m]),
                 sessions'[m][j].connection # NoConnection
          PROVE  /\ connections'[sessions'[m][j].connection] # NoConnection
                 /\ sessions'[m][j].end \notin connections'[sessions'[m][j].connection].closed
      <3>1. PICK o \in 1 .. Len(sessions[m]) :
               sessions'[m][j] = sessions[m][o] /\ (m = n => o # i)
        BY <1>2
      <3>2. sessions[m][o].connection # c \/ sessions[m][o].end # e
        BY <2>1, <3>1, EndHeldOnce DEF c, e
      <3>3. /\ sessions[m][o].connection \in ConnectionIds /\ sessions[m][o].end \in Ends
            /\ connections[sessions[m][o].connection] # NoConnection
            /\ sessions[m][o].end \notin connections[sessions[m][o].connection].closed
        BY <2>1, <3>1, SessionFields DEF ConnectionsInv, OpenInv
      <3> QED
        BY <1>10, <3>1, <3>2, <3>3
    <2>2. ASSUME NEW m \in Nodes, NEW k \in 1 .. Len(backlog'[m])
          PROVE  /\ connections'[backlog'[m][k][1]] # NoConnection
                 /\ "server" \notin connections'[backlog'[m][k][1]].closed
      <3>1. backlog[m][k][1] \in ConnectionIds /\ k \in 1 .. Len(backlog[m])
        BY BacklogFields
      <3>2. backlog[m][k][1] # c \/ "server" # e
        BY <3>1, EndHeldOnce DEF c, e
      <3>3. connections[backlog[m][k][1]] # NoConnection
            /\ "server" \notin connections[backlog[m][k][1]].closed
        BY <3>1 DEF ConnectionsInv, OpenInv
      <3> QED
        BY <1>10, <3>1, <3>2, <3>3 DEF Ends
    <2> QED
      BY <2>1, <2>2 DEF OpenInv
  <1>12. StatesInv'
    <2> SUFFICES ASSUME NEW m \in Nodes, NEW j \in 1 .. Len(sessions'[m])
                 PROVE  LET s == sessions'[m][j]
                        IN  /\ s.connection = NoConnection <=> s.state \in {"connecting", "waiting"}
                            /\ s.connection = NoConnection => s.readBufferSize = NoMessage /\ s.end = "client"
      BY DEF StatesInv
    <2>1. PICK o \in 1 .. Len(sessions[m]) : sessions'[m][j] = sessions[m][o]
      BY <1>2
    <2> QED
      BY <2>1 DEF ConnectionsInv, StatesInv
  <1>13. SendersKept
    <2> SUFFICES ASSUME NEW p \in Nodes, NEW t \in 1 .. Threads,
                        sender[p][t].connection # NoConnection
                 PROVE  \/ \E j \in 1 .. Len(sessions'[p]) :
                              sessions'[p][j].connection = sender[p][t].connection
                        \/ connections'[sender[p][t].connection] = NoConnection
                        \/ sender[p][t].end \in connections'[sender[p][t].connection].closed
      BY DEF SendersKept
    <2>1. sender[p][t].connection \in ConnectionIds
      BY SenderFields
    <2>2. CASE \/ connections[sender[p][t].connection] = NoConnection
               \/ sender[p][t].end \in connections[sender[p][t].connection].closed
      BY <1>9, <2>1, <2>2 DEF ConnectionsKept
    <2>3. ASSUME NEW o \in 1 .. Len(sessions[p]), sessions[p][o].connection = sender[p][t].connection
          PROVE  \/ \E j \in 1 .. Len(sessions'[p]) :
                       sessions'[p][j].connection = sender[p][t].connection
                 \/ connections'[sender[p][t].connection] = NoConnection
                 \/ sender[p][t].end \in connections'[sender[p][t].connection].closed
      <3>1. CASE p # n
        BY <1>1, <2>3, <3>1
      <3>2. CASE p = n /\ o = i
        <4>1. sender[p][t].connection = c /\ sender[p][t].end = e
          BY <2>3, <3>2 DEF c, e, ConnectionsInv, SendersInv
        <4> QED
          BY <1>8, <4>1
      <3>3. CASE p = n /\ o # i
        <4>1. PICK j \in 1 .. Len(sessions'[n]) : o = IF j < i THEN j ELSE j + 1
          <5>1. CASE o < i
            <6>1. o \in 1 .. Len(sessions'[n])
              BY <1>1, <3>3, <5>1
            <6> QED
              BY <5>1, <6>1
          <5>2. CASE o > i
            <6>1. o - 1 \in 1 .. Len(sessions'[n]) /\ ~(o - 1 < i) /\ (o - 1) + 1 = o
              BY <1>1, <3>3, <5>2
            <6> QED
              BY <6>1
          <5> QED
            BY <3>3, <5>1, <5>2
        <4>2. sessions'[n][j] = sessions[n][o]
          BY <1>1, <4>1
        <4> QED
          BY <2>3, <3>3, <4>2
      <3> QED
        BY <3>1, <3>2, <3>3
    <2> QED
      BY <2>2, <2>3 DEF ConnectionsInv, SendersInv
  <1>14. Clean' => faults' = faults
    OBVIOUS
  <1>15. /\ OneSessionPerPeer' /\ EndsInv' /\ SendersInv' /\ AloneInv' /\ FramesInv'
         /\ \A m \in Nodes :
               /\ \A j \in 1 .. Len(sessions'[m]) : sessions'[m][j].peer # m
               /\ \A k \in 1 .. Len(backlog'[m]) : backlog'[m][k][2] # m
    BY <1>3, <1>4, <1>9, <1>11, <1>12, <1>13, <1>14, Reduced
  <1> QED
    BY <1>11, <1>12, <1>15 DEF ConnectionsInv, OthersInv, InfosType, InfosInv

\* Only the state of a session changes.
LEMMA StateChangedConnections ==
    ASSUME TypeInv, ConnectionsInv, TypeInv', InfosType',
           NEW n \in Nodes, NEW i \in 1 .. Len(sessions[n]), NEW r \in Session,
           SessionChanged(n, i, r),
           r.peer = sessions[n][i].peer, r.end = sessions[n][i].end,
           r.connection = sessions[n][i].connection,
           r.readBufferSize = sessions[n][i].readBufferSize,
           r.connection = NoConnection <=> r.state \in {"connecting", "waiting"},
           UNCHANGED <<connections, backlog, sender>>, Clean' => faults' = faults
    PROVE  ConnectionsInv'
  <1> DEFINE f == [m \in Nodes |-> [j \in 1 .. Len(sessions'[m]) |-> j]]
             g == [m \in Nodes |-> [k \in 1 .. Len(backlog'[m]) |-> k]]
  <1>1. /\ sessions'[n][i] = r
        /\ \A m \in Nodes : Len(sessions'[m]) = Len(sessions[m])
        /\ \A m \in Nodes : \A j \in 1 .. Len(sessions[m]) :
              m # n \/ j # i => sessions'[m][j] = sessions[m][j]
    BY DEF SessionChanged
  <1>2. \A m \in Nodes : \A j \in 1 .. Len(sessions'[m]) :
           /\ j \in 1 .. Len(sessions[m])
           /\ sessions'[m][j].peer = sessions[m][j].peer
           /\ sessions'[m][j].end = sessions[m][j].end
           /\ sessions'[m][j].connection = sessions[m][j].connection
           /\ sessions'[m][j].readBufferSize = sessions[m][j].readBufferSize
    BY <1>1
  <1>3. SessionsKept(f)
    <2>1. \A m \in Nodes : \A j \in 1 .. Len(sessions'[m]) : f[m][j] = j
      OBVIOUS
    <2> HIDE DEF f
    <2> QED
      BY <1>2, <2>1, SMTT(30) DEF SessionsKept
  <1>4. BacklogKept(g)
    BY DEF BacklogKept
  <1> HIDE DEF f, g
  <1>5. ConnectionsKept
    BY DEF ConnectionsKept
  <1>6. OpenInv'
    <2>1. OpenInv
      BY DEF ConnectionsInv
    <2>2. ASSUME NEW m \in Nodes, NEW j \in 1 .. Len(sessions'[m]),
                 sessions'[m][j].connection # NoConnection
          PROVE  /\ connections'[sessions'[m][j].connection] # NoConnection
                 /\ sessions'[m][j].end \notin connections'[sessions'[m][j].connection].closed
      <3>1. /\ j \in 1 .. Len(sessions[m]) /\ sessions'[m][j].end = sessions[m][j].end
            /\ sessions'[m][j].connection = sessions[m][j].connection
        BY <1>2
      <3>2. /\ connections[sessions[m][j].connection] # NoConnection
            /\ sessions[m][j].end \notin connections[sessions[m][j].connection].closed
        BY <2>1, <2>2, <3>1 DEF OpenInv
      <3> QED
        BY <3>1, <3>2
    <2> QED
      BY <2>1, <2>2 DEF OpenInv
  <1>7. StatesInv'
    <2>1. \A m \in Nodes : \A j \in 1 .. Len(sessions[m]) :
             /\ sessions[m][j].connection = NoConnection
                   <=> sessions[m][j].state \in {"connecting", "waiting"}
             /\ sessions[m][j].connection = NoConnection =>
                   sessions[m][j].readBufferSize = NoMessage /\ sessions[m][j].end = "client"
      BY DEF ConnectionsInv, StatesInv
    <2>2. ASSUME NEW m \in Nodes, NEW j \in 1 .. Len(sessions'[m])
          PROVE  sessions'[m][j].connection = NoConnection
                   <=> sessions'[m][j].state \in {"connecting", "waiting"}
      <3>1. CASE m = n /\ j = i
        BY <1>1, <3>1
      <3>2. CASE m # n \/ j # i
        BY <1>1, <1>2, <2>1, <3>2
      <3> QED
        BY <3>1, <3>2
    <2>3. \A m \in Nodes : \A j \in 1 .. Len(sessions'[m]) :
             sessions'[m][j].connection = NoConnection =>
                sessions'[m][j].readBufferSize = NoMessage /\ sessions'[m][j].end = "client"
      BY <1>2, <2>1
    <2> QED
      BY <2>2, <2>3 DEF StatesInv
  <1>8. SendersKept
    BY <1>1, <1>2 DEF SendersKept, ConnectionsInv, SendersInv
  <1>9. /\ OneSessionPerPeer' /\ EndsInv' /\ SendersInv' /\ AloneInv' /\ FramesInv'
        /\ \A m \in Nodes :
              /\ \A j \in 1 .. Len(sessions'[m]) : sessions'[m][j].peer # m
              /\ \A k \in 1 .. Len(backlog'[m]) : backlog'[m][k][2] # m
    BY <1>3, <1>4, <1>5, <1>6, <1>7, <1>8, Reduced
  <1> QED
    BY <1>6, <1>7, <1>9 DEF ConnectionsInv, OthersInv, InfosType, InfosInv

\* A reader gets out of step only after an overlap or a stray write.
LEMMA ReadGarbledUnclean ==
    ASSUME TypeInv, ConnectionsInv, NEW n \in Nodes, NEW i \in 1 .. Len(sessions[n]),
           ReadGarbled(n, i)
    PROVE  ~Clean
  <1> DEFINE s == sessions[n][i]
             q == connections[s.connection].toRead[s.end]
  <1>1. s.state = "open" /\ q # <<>>
    BY Zenon DEF ReadGarbled, Reading, Unread
  <1>2. /\ s.connection \in ConnectionIds /\ s.connection # NoConnection
        /\ connections[s.connection] # NoConnection /\ s.end \in Ends
    BY <1>1, OpenSession, SessionFields
  <1>3. q \in Seq(Tokens)
    BY <1>2, ConnectionFields
  <1>4. Head(q) = q[1] /\ 1 \in 1 .. Len(q)
    BY <1>1, <1>3
  <1>5. SUFFICES ASSUME Clean PROVE FALSE
    OBVIOUS
  <1>6. InStep(q, s.readBufferSize)
    BY <1>2, <1>5, Zenon DEF ConnectionsInv, FramesInv, Framed
  <1>7. IF s.readBufferSize = NoMessage THEN q[1][1] = "size" ELSE q[1] = <<"data", s.readBufferSize>>
    BY <1>1, <1>6, Zenon DEF InStep
  <1>8. IF s.readBufferSize = NoMessage THEN q[1][1] = "data" ELSE q[1] # <<"data", s.readBufferSize>>
    BY <1>4, Zenon DEF ReadGarbled, Unread
  <1> HIDE DEF s, q
  <1> QED
    BY <1>7, <1>8

\* The first token of a stream in step has been read.
LEMMA TokenRead ==
    ASSUME NEW q \in Seq(Tokens), q # <<>>, NEW r \in Message \cup {NoMessage}, InStep(q, r),
           NEW b \in Message \cup {NoMessage},
           \/ r = NoMessage /\ b = q[1][2] /\ b \in Message /\ q[1][1] = "size"
           \/ r \in Message /\ b = NoMessage
    PROVE  /\ InStep(Tail(q), b)
           /\ \A w : EndsWithin(q, r, w) => EndsWithin(Tail(q), b, w)
           /\ EndsComplete(q, r) => EndsComplete(Tail(q), b)
  <1>1. /\ Tail(q) \in Seq(Tokens) /\ Len(q) \in Nat \ {0} /\ Len(Tail(q)) = Len(q) - 1
        /\ \A i \in 1 .. Len(q) - 1 : Tail(q)[i] = q[i + 1]
    OBVIOUS
  <1>2. NoMessage \notin Message
    BY TcpAssumption DEF Message
  <1>3. PICK p : p = Tail(q)
    OBVIOUS
  <1>4. /\ p \in Seq(Tokens) /\ Len(q) \in Nat \ {0} /\ Len(p) = Len(q) - 1
        /\ \A i \in 1 .. Len(q) - 1 : p[i] = q[i + 1]
        /\ p = <<>> <=> Len(q) = 1
    <2>1. \A x \in Seq(Tokens) : x = <<>> <=> Len(x) = 0
      OBVIOUS
    <2>2. p \in Seq(Tokens) /\ Len(p) = Len(q) - 1
      BY <1>1, <1>3
    <2>3. p = <<>> <=> Len(q) - 1 = 0
      BY <2>1, <2>2
    <2>4. \A k \in Nat : k - 1 = 0 <=> k = 1
      OBVIOUS
    <2> QED
      BY <1>1, <1>3, <2>2, <2>3, <2>4
  <1>5. \A i \in 1 .. Len(p) - 1 :
          /\ p[i][1] = "size" => p[i + 1] = <<"data", p[i][2]>>
          /\ p[i][1] = "data" => p[i + 1][1] = "size"
    <2> TAKE i \in 1 .. Len(p) - 1
    <2>1. i + 1 \in 1 .. Len(q) - 1 /\ p[i] = q[i + 1] /\ p[i + 1] = q[(i + 1) + 1]
      BY <1>4
    <2>2. /\ q[i + 1][1] = "size" => q[(i + 1) + 1] = <<"data", q[i + 1][2]>>
          /\ q[i + 1][1] = "data" => q[(i + 1) + 1][1] = "size"
      BY <2>1 DEF InStep
    <2> QED
      BY <2>1, <2>2
  <1>6. q[1] = IF r = NoMessage THEN <<"size", b>> ELSE <<"data", r>>
    <2>1. q[1] \in Tokens
      BY <1>4
    <2>2. q[1] = <<q[1][1], q[1][2]>>
      BY <2>1 DEF Tokens
    <2> QED
      BY <1>2, <2>2 DEF InStep
  <1>7. p # <<>> => IF b = NoMessage THEN p[1][1] = "size" ELSE p[1] = <<"data", b>>
    <2> HAVE p # <<>>
    <2>1. 1 \in 1 .. Len(q) - 1 /\ p[1] = q[1 + 1]
      BY <1>4
    <2>2. /\ q[1][1] = "size" => q[1 + 1] = <<"data", q[1][2]>>
          /\ q[1][1] = "data" => q[1 + 1][1] = "size"
      BY <2>1 DEF InStep
    <2>3. CASE r = NoMessage
      <3>1. q[1][1] = "size" /\ q[1][2] = b /\ b # NoMessage
        BY <1>2, <1>6, <2>3
      <3> QED
        BY <2>1, <2>2, <3>1
    <2>4. CASE r # NoMessage
      <3>1. q[1][1] = "data" /\ b = NoMessage
        BY <1>6, <2>4
      <3> QED
        BY <2>1, <2>2, <3>1
    <2> QED
      BY <2>3, <2>4
  <1>8. InStep(p, b)
    BY <1>5, <1>7 DEF InStep
  <1>9. p # <<>> => p[Len(p)] = q[Len(q)]
    BY <1>4
  <1>10. p = <<>> => q[Len(q)] = q[1]
    BY <1>4
  <1>11. ASSUME NEW w, EndsWithin(q, r, w) PROVE EndsWithin(p, b, w)
    <2>1. q[Len(q)] = <<"size", w>>
      BY <1>11 DEF EndsWithin
    <2>2. p = <<>> => b = w
      BY <1>6, <1>10, <2>1
    <2> QED
      BY <1>9, <2>1, <2>2 DEF EndsWithin
  <1>12. ASSUME EndsComplete(q, r) PROVE EndsComplete(p, b)
    <2>1. q[Len(q)][1] = "data"
      BY <1>12 DEF EndsComplete
    <2>2. p = <<>> => b = NoMessage
      BY <1>6, <1>10, <2>1
    <2> QED
      BY <1>9, <2>1, <2>2 DEF EndsComplete
  <1> QED
    BY <1>3, <1>8, <1>11, <1>12

\* A size or the bytes of a message are read: streams stay in step.
LEMMA ReadConnections ==
    ASSUME TypeInv, ConnectionsInv, TypeInv', InfosType',
           NEW n \in Nodes, NEW i \in 1 .. Len(sessions[n]),
           ReadSize(n, i) \/ ReadBytes(n, i)
    PROVE  ConnectionsInv'
  <1> DEFINE s == sessions[n][i]
  <1>1. PICK c, e : c = s.connection /\ e = s.end
    OBVIOUS
  <1>2. PICK q, x : q = Unread(n, i) /\ x = s.readBufferSize
    OBVIOUS
  <1>3. /\ Reading(n, i) /\ connections' = ConnectionsRead(n, i)
        /\ UNCHANGED <<backlog, sender, faults>>
    BY DEF ReadSize, ReadBytes, dataVars
  <1>4. /\ s \in Session /\ sessions[n] \in Seq(Session) /\ sessions \in [Nodes -> Seq(Session)]
        /\ c \in ConnectionIds /\ c # NoConnection /\ connections[c] # NoConnection
        /\ e \in Ends /\ Peer(e) \in Ends /\ e \notin connections[c].closed
        /\ x \in Message \cup {NoMessage}
    BY <1>1, <1>2, <1>3, OpenSession, SessionFields, EndFacts DEF Reading, TypeInv
  <1>5. /\ q = connections[c].toRead[e] /\ q \in Seq(Tokens) /\ q # <<>>
    BY <1>1, <1>2, <1>3, <1>4, ConnectionFields DEF Reading, Unread
  <1>6. Head(q) = q[1] /\ q[1] \in Tokens
    BY <1>5
  <1>7. PICK b \in Message \cup {NoMessage} :
           /\ sessions' = [sessions EXCEPT ![n][i].readBufferSize = b]
           /\ \/ x = NoMessage /\ b = q[1][2] /\ b \in Message /\ q[1][1] = "size"
              \/ x \in Message /\ b = NoMessage
    <2>1. CASE ReadSize(n, i)
      <3>1. q[1][2] \in Message
        BY <1>6 DEF Tokens
      <3> QED
        BY <1>2, <1>6, <2>1, <3>1 DEF ReadSize
    <2>2. CASE ReadBytes(n, i)
      <3>1. q[1] = <<"data", x>> /\ sessions' = [sessions EXCEPT ![n][i].readBufferSize = NoMessage]
        BY <1>2, <1>6, <2>2 DEF ReadBytes
      <3>2. x \in Message
        BY <1>6, <3>1 DEF Tokens
      <3> QED
        BY <3>1, <3>2
    <2> QED
      BY <2>1, <2>2
  <1>8. PICK r : r = [s EXCEPT !.readBufferSize = b]
    OBVIOUS
  <1>9. /\ r \in Session /\ r.peer = s.peer /\ r.end = e /\ r.state = "open"
        /\ r.connection = c /\ r.readBufferSize = b
    <2>1. /\ r \in Session /\ r.peer = s.peer /\ r.end = s.end /\ r.state = s.state
          /\ r.connection = s.connection /\ r.readBufferSize = b
      <3> HIDE DEF s
      <3> QED
        BY <1>4, <1>8, ChangedSession, ZenonT(40)
    <2>2. s.state = "open"
      BY <1>3 DEF Reading
    <2> QED
      BY <1>1, <2>1, <2>2
  <1>10. SessionChanged(n, i, r)
    <2>1. sessions' = [sessions EXCEPT ![n][i] = r]
      BY <1>4, <1>7, <1>8
    <2> QED
      BY <1>9, <2>1, SessionUpdated
  <1>11. /\ sessions'[n][i] = r
         /\ \A m \in Nodes : Len(sessions'[m]) = Len(sessions[m])
         /\ \A m \in Nodes : \A j \in 1 .. Len(sessions[m]) :
               m # n \/ j # i => sessions'[m][j] = sessions[m][j]
    BY <1>10 DEF SessionChanged
  <1>12. \A m \in Nodes : \A j \in 1 .. Len(sessions'[m]) :
            /\ j \in 1 .. Len(sessions[m])
            /\ sessions'[m][j].peer = sessions[m][j].peer
            /\ sessions'[m][j].end = sessions[m][j].end
            /\ sessions'[m][j].connection = sessions[m][j].connection
            /\ sessions'[m][j].state = sessions[m][j].state
    BY <1>1, <1>3, <1>9, <1>11 DEF Reading
  <1>13. /\ \A d \in ConnectionIds : d # c => connections'[d] = connections[d]
         /\ connections'[c] # NoConnection /\ connections'[c].closed = connections[c].closed
         /\ connections'[c].toRead[e] = Tail(q)
         /\ connections'[c].toRead[Peer(e)] = connections[c].toRead[Peer(e)]
    BY <1>1, <1>2, <1>3, <1>4, <1>5, ConnectionRead, ZenonT(40)
  <1>14. \A d \in ConnectionIds :
            /\ connections'[d] = NoConnection <=> connections[d] = NoConnection
            /\ connections'[d].closed = connections[d].closed
    BY <1>4, <1>13
  <1>15. StatesInv /\ OthersInv /\ OneSessionPerPeer /\ EndsInv /\ OpenInv /\ SendersInv
         /\ AloneInv /\ FramesInv
    BY DEF ConnectionsInv
  <1>16. StatesInv'
    <2> SUFFICES ASSUME NEW m \in Nodes, NEW j \in 1 .. Len(sessions'[m])
                 PROVE  LET o == sessions'[m][j]
                        IN  /\ o.connection = NoConnection <=> o.state \in {"connecting", "waiting"}
                            /\ o.connection = NoConnection => o.readBufferSize = NoMessage /\ o.end = "client"
      BY DEF StatesInv
    <2>1. CASE m = n /\ j = i
      BY <1>4, <1>9, <1>11, <2>1
    <2>2. CASE m # n \/ j # i
      <3>1. j \in 1 .. Len(sessions[m]) /\ sessions'[m][j] = sessions[m][j]
        BY <1>11, <1>12, <2>2
      <3> QED
        BY <1>15, <3>1 DEF StatesInv
    <2> QED
      BY <2>1, <2>2
  <1>17. OthersInv' /\ OneSessionPerPeer'
    <2>1. /\ \A m \in Nodes : DOMAIN sessions[m] = 1 .. Len(sessions[m])
          /\ \A m \in Nodes : DOMAIN sessions'[m] = 1 .. Len(sessions'[m])
      BY DEF TypeInv
    <2>2. OneSessionPerPeer'
      BY <1>12, <1>15, <2>1, SMTT(30) DEF OneSessionPerPeer
    <2>3. OthersInv'
      BY <1>3, <1>12, <1>15, ZenonT(40) DEF OthersInv, InfosType, InfosInv
    <2> QED
      BY <2>2, <2>3
  <1>18. EndsInv'
    <2>1. ASSUME NEW p \in Nodes, NEW m \in Nodes, NEW k \in 1 .. Len(sessions'[p]),
                 NEW j \in 1 .. Len(sessions'[m]),
                 sessions'[p][k].connection = sessions'[m][j].connection,
                 sessions'[p][k].connection # NoConnection,
                 p = m \/ sessions'[p][k].end = sessions'[m][j].end
          PROVE  p = m /\ k = j
      <3>1. /\ k \in 1 .. Len(sessions[p]) /\ j \in 1 .. Len(sessions[m])
            /\ sessions[p][k].connection = sessions[m][j].connection
            /\ sessions[p][k].connection # NoConnection
            /\ p = m \/ sessions[p][k].end = sessions[m][j].end
        BY <1>12, <2>1
      <3> QED
        BY <1>15, <3>1 DEF EndsInv
    <2>2. ASSUME NEW p \in Nodes, NEW m \in Nodes, NEW j \in 1 .. Len(sessions'[p]),
                 NEW k \in 1 .. Len(backlog'[m]), sessions'[p][j].connection = backlog'[m][k][1]
          PROVE  p # m /\ sessions'[p][j].end = "client"
      <3>1. /\ j \in 1 .. Len(sessions[p]) /\ k \in 1 .. Len(backlog[m])
            /\ sessions[p][j].connection = backlog[m][k][1]
            /\ sessions'[p][j].end = sessions[p][j].end
        BY <1>3, <1>12, <2>2
      <3>2. p # m /\ sessions[p][j].end = "client"
        BY <1>15, <3>1 DEF EndsInv
      <3> QED
        BY <3>1, <3>2
    <2>3. \A p, m \in Nodes : \A k \in 1 .. Len(backlog'[p]), l \in 1 .. Len(backlog'[m]) :
             backlog'[p][k][1] = backlog'[m][l][1] => p = m /\ k = l
      BY <1>3, <1>15 DEF EndsInv
    <2> QED
      BY <2>1, <2>2, <2>3 DEF EndsInv
  <1>19. OpenInv'
    <2>1. ASSUME NEW m \in Nodes, NEW j \in 1 .. Len(sessions'[m]),
                 sessions'[m][j].connection # NoConnection
          PROVE  /\ connections'[sessions'[m][j].connection] # NoConnection
                 /\ sessions'[m][j].end \notin connections'[sessions'[m][j].connection].closed
      <3>1. /\ j \in 1 .. Len(sessions[m]) /\ sessions[m][j].connection \in ConnectionIds
            /\ sessions'[m][j].end = sessions[m][j].end
            /\ sessions'[m][j].connection = sessions[m][j].connection
        BY <1>12, <2>1, SessionFields
      <3> QED
        BY <1>14, <1>15, <2>1, <3>1 DEF OpenInv
    <2>2. ASSUME NEW m \in Nodes, NEW k \in 1 .. Len(backlog'[m])
          PROVE  /\ connections'[backlog'[m][k][1]] # NoConnection
                 /\ "server" \notin connections'[backlog'[m][k][1]].closed
      <3>1. k \in 1 .. Len(backlog[m]) /\ backlog[m][k][1] \in ConnectionIds
        BY <1>3, BacklogFields
      <3> QED
        BY <1>3, <1>14, <1>15, <3>1 DEF OpenInv
    <2> QED
      BY <2>1, <2>2 DEF OpenInv
  <1>20. SendersInv'
    <2> SUFFICES ASSUME NEW m \in Nodes, NEW t \in 1 .. Threads, sender[m][t].connection # NoConnection
                 PROVE  /\ sender[m][t].message \in Message
                        /\ \A j \in 1 .. Len(sessions'[m]) :
                              sessions'[m][j].connection = sender[m][t].connection
                                 => sessions'[m][j].end = sender[m][t].end
                        /\ \A k \in 1 .. Len(backlog[m]) : backlog[m][k][1] # sender[m][t].connection
                        /\ \/ \E j \in 1 .. Len(sessions'[m]) :
                                 sessions'[m][j].connection = sender[m][t].connection
                           \/ connections'[sender[m][t].connection] = NoConnection
                           \/ sender[m][t].end \in connections'[sender[m][t].connection].closed
      BY <1>3, <1>15 DEF SendersInv
    <2>1. sender[m][t].connection \in ConnectionIds
      BY SenderFields
    <2> QED
      BY <1>11, <1>12, <1>14, <1>15, <2>1 DEF SendersInv
  <1>21. AloneInv'
    BY <1>3, <1>15 DEF AloneInv, Clean
  \* What a reader other than this one relies on has not changed.
  <1>22. ASSUME Clean, NEW d \in ConnectionIds, NEW f \in Ends, NEW y, d # c \/ f # e, Framed(d, f, y)
         PROVE  Framed(d, f, y)'
    <2>1. connections'[d].toRead[f] = connections[d].toRead[f]
      BY <1>4, <1>13, <1>22, EndFacts
    <2>2. connections'[d].closed = connections[d].closed
      BY <1>14
    <2> QED
      BY <1>3, <1>22, <2>1, <2>2 DEF Framed, Writes
  <1>23. ASSUME Clean PROVE Framed(c, e, b)'
    <2>1. Framed(c, e, x)
      BY <1>1, <1>2, <1>4, <1>15, <1>23 DEF FramesInv
    <2>2. InStep(q, x)
      BY <1>5, <2>1 DEF Framed
    <2>3. /\ InStep(Tail(q), b)
          /\ \A w : EndsWithin(q, x, w) => EndsWithin(Tail(q), b, w)
          /\ EndsComplete(q, x) => EndsComplete(Tail(q), b)
      BY <1>4, <1>5, <1>7, <2>2, TokenRead
    <2> QED
      BY <1>3, <1>5, <1>13, <2>1, <2>3 DEF Framed, Writes
  <1>24. FramesInv'
    <2> SUFFICES ASSUME Clean' PROVE FramesInv'
      BY DEF FramesInv
    <2>1. Clean /\ "garbled" \notin faults'
      BY <1>3, <1>15 DEF Clean, FramesInv
    <2>2. ASSUME NEW m \in Nodes, NEW j \in 1 .. Len(sessions'[m]),
                 sessions'[m][j].connection # NoConnection
          PROVE  Framed(sessions[m][j].connection, sessions[m][j].end, sessions[m][j].readBufferSize)'
      <3>1. CASE m = n /\ j = i
        BY <1>9, <1>11, <1>23, <2>1, <3>1
      <3>2. CASE m # n \/ j # i
        <4>1. /\ j \in 1 .. Len(sessions[m]) /\ sessions'[m][j] = sessions[m][j]
          BY <1>11, <1>12, <3>2
        <4>2. PICK d, f, y : /\ d = sessions[m][j].connection /\ f = sessions[m][j].end
                             /\ y = sessions[m][j].readBufferSize
          OBVIOUS
        <4>3. /\ d \in ConnectionIds /\ f \in Ends /\ Framed(d, f, y)
          BY <1>15, <2>1, <2>2, <4>1, <4>2, SessionFields DEF FramesInv
        <4>4. d # c \/ f # e
          BY <1>1, <1>4, <3>2, <4>1, <4>2, EndHeldOnce
        <4>5. Framed(d, f, y)'
          BY <1>22, <2>1, <4>3, <4>4
        <4> QED
          BY <4>1, <4>2, <4>5
      <3> QED
        BY <3>1, <3>2
    <2>3. ASSUME NEW m \in Nodes, NEW k \in 1 .. Len(backlog'[m])
          PROVE  Framed(backlog[m][k][1], "server", NoMessage)'
      <3>1. k \in 1 .. Len(backlog[m]) /\ backlog'[m][k] = backlog[m][k]
        BY <1>3
      <3>2. PICK d : d = backlog[m][k][1]
        OBVIOUS
      <3>3. d \in ConnectionIds /\ "server" \in Ends /\ Framed(d, "server", NoMessage)
        BY <1>15, <2>1, <3>1, <3>2, BacklogFields DEF FramesInv, Ends
      <3>4. d # c \/ "server" # e
        BY <1>1, <3>1, <3>2, EndHeldOnce
      <3>5. Framed(d, "server", NoMessage)'
        BY <1>22, <2>1, <3>3, <3>4
      <3> QED
        BY <3>1, <3>2, <3>5
    <2> QED
      BY <2>1, <2>2, <2>3 DEF FramesInv
  <1> QED
    BY <1>16, <1>17, <1>18, <1>19, <1>20, <1>21, <1>24 DEF ConnectionsInv

\* The steps of the session at position i, except Connected.
LEMMA SessionStepConnections ==
    ASSUME TypeInv, ConnectionsInv, NEW n \in Nodes, NEW i \in 1 .. Len(sessions[n]),
           \/ ConnectionFailed(n, i) \/ Retry(n, i) \/ ReadSize(n, i)
           \/ ReadBytes(n, i) \/ ReadGarbled(n, i) \/ ReadError(n, i)
    PROVE  ConnectionsInv'
  <1> DEFINE s == sessions[n][i]
  <1>1. TypeInv' /\ InfosType'
    BY SessionStepType
  <1>2. /\ sessions \in [Nodes -> Seq(Session)] /\ sessions[n] \in Seq(Session) /\ s \in Session
        /\ s.connection = NoConnection <=> s.state \in {"connecting", "waiting"}
    BY SessionFields DEF TypeInv, ConnectionsInv, StatesInv
  <1>3. CASE ReadSize(n, i) \/ ReadBytes(n, i)
    BY <1>1, <1>3, ReadConnections
  <1>4. ASSUME NEW r \in Session, sessions' = [sessions EXCEPT ![n][i] = r],
               r.peer = s.peer, r.end = s.end, r.connection = s.connection,
               r.readBufferSize = s.readBufferSize,
               r.connection = NoConnection <=> r.state \in {"connecting", "waiting"},
               UNCHANGED <<connections, backlog, sender>>, Clean' => faults' = faults
        PROVE  ConnectionsInv'
    <2>1. SessionChanged(n, i, r)
      BY <1>4, SessionUpdated
    <2> QED
      BY <1>1, <1>4, <2>1, StateChangedConnections
  <1>5. CASE Retry(n, i) \/ ReadGarbled(n, i)
    <2>1. PICK st \in States : /\ sessions' = [sessions EXCEPT ![n][i].state = st]
                               /\ \/ st = "connecting" /\ s.state = "waiting"
                                  \/ st = "garbled" /\ s.state = "open"
      BY <1>5 DEF Retry, ReadGarbled, Reading, States
    <2>2. PICK r : r = [s EXCEPT !.state = st]
      OBVIOUS
    <2>3. /\ r \in Session /\ r.peer = s.peer /\ r.end = s.end /\ r.state = st
          /\ r.connection = s.connection /\ r.readBufferSize = s.readBufferSize
      <3> HIDE DEF s
      <3> QED
        BY <1>2, <2>2, ChangedSession
    <2>4. sessions' = [sessions EXCEPT ![n][i] = r]
      BY <1>2, <2>1, <2>2
    <2>5. UNCHANGED <<connections, backlog, sender>>
      BY <1>5 DEF Retry, ReadGarbled, networkVars, dataVars
    <2>6. Clean' => faults' = faults
      <3>1. CASE Retry(n, i)
        BY <3>1 DEF Retry, dataVars
      <3>2. CASE ReadGarbled(n, i)
        <4>1. ~Clean /\ faults' = faults \cup {"garbled"}
          BY <3>2, ReadGarbledUnclean DEF ReadGarbled
        <4> QED
          BY <4>1 DEF Clean
      <3> QED
        BY <1>5, <3>1, <3>2
    <2>7. r.connection = NoConnection <=> r.state \in {"connecting", "waiting"}
      BY <1>2, <2>1, <2>3
    <2> QED
      BY <1>4, <2>3, <2>4, <2>5, <2>6, <2>7
  <1>6. CASE ConnectionFailed(n, i) \/ ReadError(n, i)
    <2>1. UNCHANGED <<backlog, sender, faults>>
      BY <1>6 DEF ConnectionFailed, ReadError, dataVars
    <2>2. CASE SessionClosed(n, i)
      BY <1>1, <2>1, <2>2, SessionClosedConnections
    <2>3. CASE /\ s.retriesLeft > 0 /\ s.state = "connecting" /\ UNCHANGED connections
               /\ sessions' = [sessions EXCEPT ![n][i].state = "waiting",
                                               ![n][i].retriesLeft = @ - 1]
      <3>1. PICK r : r = [s EXCEPT !.state = "waiting", !.retriesLeft = @ - 1]
        OBVIOUS
      <3>2. /\ r \in Session /\ r.peer = s.peer /\ r.end = s.end /\ r.state = "waiting"
            /\ r.connection = s.connection /\ r.readBufferSize = s.readBufferSize
        <4> HIDE DEF s
        <4> QED
          BY <1>2, <2>3, <3>1, ChangedSession
      <3>3. sessions' = [sessions EXCEPT ![n][i] = r]
        BY <1>2, <2>3, <3>1
      <3>4. r.connection = NoConnection <=> r.state \in {"connecting", "waiting"}
        BY <1>2, <2>3, <3>2
      <3> QED
        BY <1>4, <2>1, <2>3, <3>2, <3>3, <3>4
    <2> QED
      BY <1>6, <2>2, <2>3 DEF ConnectionFailed, ReadError
  <1> QED
    BY <1>3, <1>5, <1>6

\* When the session at position i is written to, only one stream changes.
LEMMA WrittenConnections ==
    ASSUME TypeInv, ConnectionsInv, InfosType',
           NEW c \in ConnectionIds, connections[c] # NoConnection,
           NEW e \in Ends, NEW token \in Tokens, connections' = Written(c, e, token),
           UNCHANGED <<sessions, backlog>>
    PROVE  /\ StatesInv' /\ OthersInv' /\ OneSessionPerPeer' /\ EndsInv' /\ OpenInv'
           /\ \A d \in ConnectionIds :
                 /\ connections'[d] = NoConnection <=> connections[d] = NoConnection
                 /\ connections'[d].closed = connections[d].closed
           /\ \A d \in ConnectionIds, f \in Ends : d # c \/ f # Peer(e) =>
                 connections'[d].toRead[f] = connections[d].toRead[f]
  <1>1. /\ \A d \in ConnectionIds : d # c => connections'[d] = connections[d]
        /\ connections'[c] # NoConnection /\ connections'[c].closed = connections[c].closed
        /\ connections'[c].toRead[e] = connections[c].toRead[e]
    BY ConnectionWritten
  <1>2. \A d \in ConnectionIds :
           /\ connections'[d] = NoConnection <=> connections[d] = NoConnection
           /\ connections'[d].closed = connections[d].closed
    BY <1>1
  <1>3. \A d \in ConnectionIds, f \in Ends : d # c \/ f # Peer(e) =>
           connections'[d].toRead[f] = connections[d].toRead[f]
    BY <1>1, EndFacts
  <1>4. StatesInv' /\ OneSessionPerPeer' /\ EndsInv' /\ OthersInv'
    <2>1. StatesInv' /\ OneSessionPerPeer' /\ EndsInv'
      BY DEF ConnectionsInv, StatesInv, OneSessionPerPeer, EndsInv
    <2>2. OthersInv'
      BY DEF ConnectionsInv, OthersInv, InfosType, InfosInv
    <2> QED
      BY <2>1, <2>2
  <1>5. OpenInv'
    <2>1. \A m \in Nodes : \A j \in 1 .. Len(sessions[m]) :
             sessions[m][j].connection # NoConnection => sessions[m][j].connection \in ConnectionIds
      BY SessionFields
    <2>2. \A m \in Nodes : \A k \in 1 .. Len(backlog[m]) : backlog[m][k][1] \in ConnectionIds
      BY BacklogFields
    <2> QED
      BY <1>2, <2>1, <2>2 DEF ConnectionsInv, OpenInv
  <1> QED
    BY <1>2, <1>3, <1>4, <1>5

\* Who reads at end f of connection d, with the message whose size was read.
Reads(d, f, y) ==
    \/ \E n \in Nodes : \E i \in 1 .. Len(sessions[n]) :
          /\ sessions[n][i].connection = d /\ d # NoConnection
          /\ sessions[n][i].end = f /\ sessions[n][i].readBufferSize = y
    \/ /\ f = "server" /\ y = NoMessage
       /\ \E n \in Nodes : \E k \in 1 .. Len(backlog[n]) : backlog[n][k][1] = d

ReadersInv ==
    \A d \in ConnectionIds, f \in Ends, y \in Message \cup {NoMessage} :
        Reads(d, f, y) => Framed(d, f, y)

InStepSoFar == "garbled" \notin faults

LEMMA ReadersFramed ==
    TypeInv /\ InStepSoFar /\ ReadersInv => FramesInv
  <1> SUFFICES ASSUME TypeInv, "garbled" \notin faults, ReadersInv PROVE FramesInv
    BY DEF InStepSoFar
  <1>1. ASSUME NEW n \in Nodes, NEW i \in 1 .. Len(sessions[n]),
               sessions[n][i].connection # NoConnection
        PROVE  Framed(sessions[n][i].connection, sessions[n][i].end, sessions[n][i].readBufferSize)
    <2>1. PICK d, f, y : /\ d = sessions[n][i].connection /\ f = sessions[n][i].end
                         /\ y = sessions[n][i].readBufferSize
      OBVIOUS
    <2>2. d \in ConnectionIds /\ f \in Ends /\ y \in Message \cup {NoMessage}
      BY <1>1, <2>1, SessionFields
    <2>3. Reads(d, f, y)
      BY <1>1, <2>1 DEF Reads
    <2>4. Framed(d, f, y)
      BY <2>2, <2>3 DEF ReadersInv
    <2> QED
      BY <2>1, <2>4
  <1>2. ASSUME NEW n \in Nodes, NEW k \in 1 .. Len(backlog[n])
        PROVE  Framed(backlog[n][k][1], "server", NoMessage)
    <2>1. PICK d : d = backlog[n][k][1]
      OBVIOUS
    <2>2. d \in ConnectionIds /\ "server" \in Ends /\ NoMessage \in Message \cup {NoMessage}
      BY <2>1, BacklogFields DEF Ends
    <2>3. Reads(d, "server", NoMessage)
      BY <2>1 DEF Reads
    <2>4. Framed(d, "server", NoMessage)
      BY <2>2, <2>3 DEF ReadersInv
    <2> QED
      BY <2>1, <2>4
  <1> QED
    BY <1>1, <1>2 DEF FramesInv

LEMMA ReaderFacts ==
    ASSUME TypeInv, ConnectionsInv, NEW d, NEW f, NEW y, Reads(d, f, y)
    PROVE  /\ d \in ConnectionIds /\ d # NoConnection /\ f \in Ends
           /\ connections[d] # NoConnection /\ f \notin connections[d].closed
           /\ Clean => Framed(d, f, y)
  <1>1. ASSUME NEW n \in Nodes, NEW i \in 1 .. Len(sessions[n]),
               sessions[n][i].connection = d, d # NoConnection,
               sessions[n][i].end = f, sessions[n][i].readBufferSize = y
        PROVE  /\ d \in ConnectionIds /\ f \in Ends
               /\ connections[d] # NoConnection /\ f \notin connections[d].closed
               /\ Clean => Framed(d, f, y)
    BY <1>1, SessionFields DEF ConnectionsInv, OpenInv, FramesInv
  <1>2. ASSUME NEW n \in Nodes, NEW k \in 1 .. Len(backlog[n]), backlog[n][k][1] = d,
               f = "server", y = NoMessage
        PROVE  /\ d \in ConnectionIds /\ f \in Ends
               /\ connections[d] # NoConnection /\ f \notin connections[d].closed
               /\ Clean => Framed(d, f, y)
    BY <1>2, BacklogFields DEF ConnectionsInv, OpenInv, FramesInv, Ends
  <1>3. \A b \in ConnectionIds : b # NoConnection
    BY TcpAssumption DEF ConnectionIds
  <1> QED
    BY <1>1, <1>2, <1>3 DEF Reads

\* Only the node that has the session writes at its end.
LEMMA WriterFacts ==
    ASSUME TypeInv, ConnectionsInv, NEW n \in Nodes, NEW i \in 1 .. Len(sessions[n]),
           sessions[n][i].connection # NoConnection,
           NEW p \in Nodes, NEW u \in 1 .. Threads,
           Writes(p, u, sessions[n][i].connection, sessions[n][i].end)
    PROVE  p = n
  <1>1. /\ sender[p][u].connection = sessions[n][i].connection
        /\ sender[p][u].end = sessions[n][i].end
    BY DEF Writes
  <1>2. /\ connections[sessions[n][i].connection] # NoConnection
        /\ sessions[n][i].end \notin connections[sessions[n][i].connection].closed
    BY DEF ConnectionsInv, OpenInv
  <1>3. PICK j \in 1 .. Len(sessions[p]) : sessions[p][j].connection = sender[p][u].connection
    BY <1>1, <1>2 DEF ConnectionsInv, SendersInv
  <1>4. sessions[p][j].end = sender[p][u].end
    BY <1>1, <1>3 DEF ConnectionsInv, SendersInv
  <1>5. sessions[p][j].connection = sessions[n][i].connection /\ sessions[p][j].end = sessions[n][i].end
    BY <1>1, <1>3, <1>4
  <1> QED
    BY <1>5, EndHeldOnce

\* What is written at the end of a stream keeps it in step.
LEMMA SizeAppended ==
    ASSUME NEW q \in Seq(Tokens), NEW r, InStep(q, r), EndsComplete(q, r), NEW m \in Message
    PROVE  LET p == Append(q, <<"size", m>>)
           IN  InStep(p, r) /\ EndsWithin(p, r, m)
  <1>1. PICK p, x : p = Append(q, x) /\ x = <<"size", m>>
    OBVIOUS
  <1>2. x \in Tokens /\ x[1] = "size"
    BY <1>1 DEF Tokens
  <1>3. /\ Len(q) \in Nat /\ p \in Seq(Tokens) /\ Len(p) = Len(q) + 1 /\ p[Len(q) + 1] = x
        /\ p # <<>> /\ \A i \in 1 .. Len(q) : p[i] = q[i]
    <2> HIDE DEF Tokens
    <2> QED
      BY <1>1, <1>2
  <1>4. q = <<>> <=> Len(q) = 0
    OBVIOUS
  <1>5. ASSUME NEW i \in 1 .. Len(p) - 1
        PROVE  /\ p[i][1] = "size" => p[i + 1] = <<"data", p[i][2]>>
               /\ p[i][1] = "data" => p[i + 1][1] = "size"
    <2>1. CASE i = Len(q)
      <3>1. q # <<>> /\ p[i] = q[Len(q)] /\ p[i + 1] = x
        BY <1>3, <1>4, <2>1
      <3>2. p[i][1] = "data"
        BY <3>1 DEF EndsComplete
      <3> QED
        BY <1>2, <3>1, <3>2
    <2>2. CASE i # Len(q)
      <3>1. i \in 1 .. Len(q) - 1 /\ p[i] = q[i] /\ p[i + 1] = q[i + 1]
        BY <1>3, <2>2
      <3> QED
        BY <3>1 DEF InStep
    <2> QED
      BY <2>1, <2>2
  <1>6. IF r = NoMessage THEN p[1][1] = "size" ELSE p[1] = <<"data", r>>
    <2>1. CASE q = <<>>
      <3>1. r = NoMessage /\ p[1] = x
        BY <1>3, <1>4, <2>1 DEF EndsComplete
      <3> QED
        BY <1>2, <3>1
    <2>2. CASE q # <<>>
      <3>1. p[1] = q[1]
        BY <1>3, <1>4, <2>2
      <3> QED
        BY <2>2, <3>1 DEF InStep
    <2> QED
      BY <2>1, <2>2
  <1>7. p[Len(p)] = <<"size", m>>
    BY <1>1, <1>3
  <1> QED
    BY <1>1, <1>3, <1>5, <1>6, <1>7 DEF InStep, EndsWithin

LEMMA BytesAppended ==
    ASSUME NEW q \in Seq(Tokens), NEW r, InStep(q, r), NEW m \in Message, EndsWithin(q, r, m)
    PROVE  LET p == Append(q, <<"data", m>>)
           IN  InStep(p, r) /\ EndsComplete(p, r)
  <1>1. PICK p, x : p = Append(q, x) /\ x = <<"data", m>>
    OBVIOUS
  <1>2. x \in Tokens /\ x[1] = "data"
    BY <1>1 DEF Tokens
  <1>3. /\ Len(q) \in Nat /\ p \in Seq(Tokens) /\ Len(p) = Len(q) + 1 /\ p[Len(q) + 1] = x
        /\ p # <<>> /\ \A i \in 1 .. Len(q) : p[i] = q[i]
    <2> HIDE DEF Tokens
    <2> QED
      BY <1>1, <1>2
  <1>4. q = <<>> <=> Len(q) = 0
    OBVIOUS
  <1>5. ASSUME NEW i \in 1 .. Len(p) - 1
        PROVE  /\ p[i][1] = "size" => p[i + 1] = <<"data", p[i][2]>>
               /\ p[i][1] = "data" => p[i + 1][1] = "size"
    <2>1. CASE i = Len(q)
      <3>1. q # <<>> /\ p[i] = q[Len(q)] /\ p[i + 1] = x
        BY <1>3, <1>4, <2>1
      <3>2. p[i] = <<"size", m>>
        BY <3>1 DEF EndsWithin
      <3>3. p[i][1] = "size" /\ p[i][2] = m
        BY <3>2
      <3> QED
        BY <1>1, <3>1, <3>3
    <2>2. CASE i # Len(q)
      <3>1. i \in 1 .. Len(q) - 1 /\ p[i] = q[i] /\ p[i + 1] = q[i + 1]
        BY <1>3, <2>2
      <3> QED
        BY <3>1 DEF InStep
    <2> QED
      BY <2>1, <2>2
  <1>6. IF r = NoMessage THEN p[1][1] = "size" ELSE p[1] = <<"data", r>>
    <2>1. CASE q = <<>>
      <3>1. r = m /\ p[1] = x /\ m # NoMessage
        BY <1>3, <1>4, <2>1, TcpAssumption DEF EndsWithin, Message
      <3> QED
        BY <1>1, <3>1
    <2>2. CASE q # <<>>
      <3>1. p[1] = q[1]
        BY <1>3, <1>4, <2>2
      <3> QED
        BY <2>2, <3>1 DEF InStep
    <2> QED
      BY <2>1, <2>2
  <1>7. p[Len(p)][1] = "data"
    BY <1>2, <1>3
  <1> QED
    BY <1>1, <1>3, <1>5, <1>6, <1>7 DEF InStep, EndsComplete

\* The thread t of n, which writes at end e of c before or after the step and
\* nowhere else, changes what only the reader at the other end relies on.
WriterChanges(n, t, c, e) ==
    /\ \A p \in Nodes, u \in 1 .. Threads : p # n \/ u # t => sender'[p][u] = sender[p][u]
    /\ sender[n][t].connection \in {c, NoConnection}
    /\ sender[n][t].connection = c => sender[n][t].end = e
    /\ sender'[n][t].connection \in {c, NoConnection}
    /\ sender'[n][t].connection = c => sender'[n][t].end = e

LEMMA WriteKeepsFrames ==
    ASSUME TypeInv, TypeInv', ConnectionsInv, InfosType',
           NEW c \in ConnectionIds, connections[c] # NoConnection,
           NEW e \in Ends, NEW token \in Tokens, connections' = Written(c, e, token),
           UNCHANGED <<sessions, backlog, faults>>, Clean,
           NEW n \in Nodes, NEW t \in 1 .. Threads, WriterChanges(n, t, c, e),
           \A y \in Message \cup {NoMessage} : Reads(c, Peer(e), y) => Framed(c, Peer(e), y)'
    PROVE  FramesInv'
  <1>1. "garbled" \notin faults'
    BY DEF ConnectionsInv, FramesInv
  <1>2. ASSUME NEW d \in ConnectionIds, NEW f \in Ends, NEW y \in Message \cup {NoMessage},
               Reads(d, f, y)'
        PROVE  Framed(d, f, y)'
    <2>1. Reads(d, f, y)
      BY <1>2 DEF Reads
    <2>2. CASE d = c /\ f = Peer(e)
      BY <2>1, <2>2
    <2>3. CASE d # c \/ f # Peer(e)
      <3>1. Framed(d, f, y) /\ d # NoConnection
        BY <2>1, ReaderFacts
      <3>2. /\ connections'[d].closed = connections[d].closed
            /\ connections'[d].toRead[f] = connections[d].toRead[f]
        BY <2>3, WrittenConnections
      <3>3. \A p \in Nodes, u \in 1 .. Threads :
               /\ Writes(p, u, d, Peer(f))' <=> Writes(p, u, d, Peer(f))
               /\ Writes(p, u, d, Peer(f)) => sender'[p][u] = sender[p][u]
        <4> TAKE p \in Nodes, u \in 1 .. Threads
        <4>1. CASE p # n \/ u # t
          BY <4>1 DEF Writes, WriterChanges
        <4>2. CASE p = n /\ u = t
          <5>1. d # c \/ Peer(f) # e
            BY <2>3, EndFacts
          <5>2. ~Writes(p, u, d, Peer(f)) /\ ~Writes(p, u, d, Peer(f))'
            BY <3>1, <4>2, <5>1 DEF Writes, WriterChanges
          <5> QED
            BY <5>2
        <4> QED
          BY <4>1, <4>2
      <3> QED
        BY <3>1, <3>2, <3>3 DEF Framed
    <2> QED
      BY <2>2, <2>3
  <1> QED
    <2>1. ReadersInv' /\ InStepSoFar'
      BY <1>1, <1>2 DEF ReadersInv, InStepSoFar
    <2> QED
      BY <2>1, ReadersFramed, PTL

\* The first half of sendData.
LEMMA SendSizeConnections ==
    ASSUME TypeInv, ConnectionsInv, NEW n \in Nodes, NEW t \in 1 .. Threads,
           NEW h \in GatewayHashes, SendSize(n, t, h)
    PROVE  ConnectionsInv'
  <1>1. TypeInv' /\ InfosType'
    BY SendSizeType
  <1>2. UNCHANGED <<sessions, backlog>> /\ sender[n][t] = IdleSender
    BY DEF SendSize, sessionVars
  <1>3. CASE UNCHANGED <<sender, connections, faults>>
    BY <1>1, <1>2, <1>3, QuietConnections
  <1>4. ASSUME NEW i \in 1 .. Len(sessions[n]), NEW m \in Message, SizeWritten(n, t, i, m)
        PROVE  ConnectionsInv'
    <2>1. PICK c, e, token : /\ c = sessions[n][i].connection /\ e = sessions[n][i].end
                             /\ token = <<"size", m>>
      OBVIOUS
    <2>2. /\ c \in ConnectionIds /\ c # NoConnection /\ connections[c] # NoConnection
          /\ e \in Ends /\ e \notin connections[c].closed /\ token \in Tokens
      BY <1>4, <2>1, OpenSession, SessionFields DEF SizeWritten, Tokens
    <2>3. connections' = Written(c, e, token)
      BY <1>4, <2>1 DEF SizeWritten
    <2>4. /\ StatesInv' /\ OthersInv' /\ OneSessionPerPeer' /\ EndsInv' /\ OpenInv'
          /\ \A d \in ConnectionIds :
                /\ connections'[d] = NoConnection <=> connections[d] = NoConnection
                /\ connections'[d].closed = connections[d].closed
      BY <1>1, <1>2, <2>2, <2>3, WrittenConnections
    <2>5. /\ sender'[n][t].connection = c /\ sender'[n][t].end = e /\ sender'[n][t].message = m
          /\ \A p \in Nodes, u \in 1 .. Threads : p # n \/ u # t => sender'[p][u] = sender[p][u]
      <3>1. PICK s : s = [connection |-> c, end |-> e, message |-> m]
        OBVIOUS
      <3>2. sender' = [sender EXCEPT ![n][t] = s]
        BY <1>4, <2>1, <3>1 DEF SizeWritten
      <3>3. sender'[n][t] = s
            /\ \A p \in Nodes, u \in 1 .. Threads : p # n \/ u # t => sender'[p][u] = sender[p][u]
        BY <3>2 DEF TypeInv
      <3> QED
        BY <3>1, <3>3
    <2>6. WriterChanges(n, t, c, e)
      BY <1>2, <2>2, <2>5, IdleFields DEF WriterChanges
    <2>7. SendersInv'
      <3> SUFFICES ASSUME NEW p \in Nodes, NEW u \in 1 .. Threads
                   PROVE  LET s == sender'[p][u]
                          IN  /\ s.connection = NoConnection => s = IdleSender
                              /\ s.connection # NoConnection =>
                                   /\ s.message \in Message
                                   /\ \A j \in 1 .. Len(sessions[p]) :
                                         sessions[p][j].connection = s.connection
                                            => sessions[p][j].end = s.end
                                   /\ \A k \in 1 .. Len(backlog[p]) : backlog[p][k][1] # s.connection
                                   /\ \/ \E j \in 1 .. Len(sessions[p]) :
                                            sessions[p][j].connection = s.connection
                                      \/ connections'[s.connection] = NoConnection
                                      \/ s.end \in connections'[s.connection].closed
        BY <1>2 DEF SendersInv, IdleSender
      <3>1. CASE p = n /\ u = t
        <4>1. \A j \in 1 .. Len(sessions[n]) : sessions[n][j].connection = c => sessions[n][j].end = e
          <5> SUFFICES ASSUME NEW j \in 1 .. Len(sessions[n]), sessions[n][j].connection = c
                       PROVE  j = i
            BY <2>1
          <5>1. sessions[n][j].connection = sessions[n][i].connection
                /\ sessions[n][j].connection # NoConnection
            BY <2>1, <2>2
          <5> QED
            BY <5>1 DEF ConnectionsInv, EndsInv
        <4>2. \A k \in 1 .. Len(backlog[n]) : backlog[n][k][1] # c
          <5> SUFFICES ASSUME NEW k \in 1 .. Len(backlog[n]), backlog[n][k][1] = c
                       PROVE  FALSE
            OBVIOUS
          <5>1. sessions[n][i].connection = backlog[n][k][1]
            BY <2>1
          <5> QED
            BY <5>1 DEF ConnectionsInv, EndsInv
        <4> QED
          BY <2>1, <2>2, <2>5, <3>1, <4>1, <4>2
      <3>2. CASE p # n \/ u # t
        <4>1. sender'[p][u] = sender[p][u]
          BY <2>5, <3>2
        <4>2. sender[p][u].connection # NoConnection => sender[p][u].connection \in ConnectionIds
          BY SenderFields
        <4> QED
          BY <2>4, <4>1, <4>2 DEF ConnectionsInv, SendersInv
      <3> QED
        BY <3>1, <3>2
    <2>8. ASSUME Clean'
          PROVE  /\ Clean /\ faults' = faults
                 /\ \A p \in Nodes, u \in 1 .. Threads : ~Writes(p, u, c, e)
      <3>1. faults' = faults /\ \A u \in 1 .. Threads : sender[n][u].connection # c
        <4>1. "overlap" \notin faults'
          BY <2>8 DEF Clean
        <4> QED
          BY <1>4, <2>1, <4>1 DEF SizeWritten
      <3>2. ASSUME NEW p \in Nodes, NEW u \in 1 .. Threads, Writes(p, u, c, e)
            PROVE  FALSE
        <4>1. p = n
          BY <2>1, <2>2, <3>2, WriterFacts
        <4> QED
          BY <3>1, <3>2, <4>1 DEF Writes
      <3> QED
        BY <2>8, <3>1, <3>2 DEF Clean
    <2>9. AloneInv'
      <3> SUFFICES ASSUME Clean', NEW p \in Nodes, NEW o \in Nodes,
                          NEW u \in 1 .. Threads, NEW v \in 1 .. Threads,
                          sender'[p][u].connection = sender'[o][v].connection,
                          sender'[p][u].end = sender'[o][v].end,
                          sender'[p][u].connection # NoConnection
                   PROVE  p = o /\ u = v
        BY DEF AloneInv
      <3>1. CASE (p # n \/ u # t) /\ (o # n \/ v # t)
        <4>1. sender'[p][u] = sender[p][u] /\ sender'[o][v] = sender[o][v] /\ AloneInv
          BY <2>5, <3>1 DEF ConnectionsInv
        <4> QED
          BY <2>8, <4>1 DEF AloneInv
      <3>2. CASE p = n /\ u = t /\ (o # n \/ v # t)
        <4>1. Writes(o, v, c, e)
          BY <2>5, <3>2 DEF Writes
        <4> QED
          BY <2>8, <4>1
      <3>3. CASE o = n /\ v = t /\ (p # n \/ u # t)
        <4>1. Writes(p, u, c, e)
          BY <2>5, <3>3 DEF Writes
        <4> QED
          BY <2>8, <4>1
      <3> QED
        BY <3>1, <3>2, <3>3
    <2>10. ASSUME Clean', NEW y \in Message \cup {NoMessage}, Reads(c, Peer(e), y)
           PROVE  Framed(c, Peer(e), y)'
      <3>1. PICK q : q = connections[c].toRead[Peer(e)]
        OBVIOUS
      <3>2. /\ Peer(e) \in Ends /\ Peer(e) \notin connections[c].closed /\ Framed(c, Peer(e), y)
            /\ Peer(Peer(e)) = e /\ q \in Seq(Tokens)
        BY <2>2, <2>8, <2>10, <3>1, ReaderFacts, EndFacts, ConnectionFields
      <3>3. InStep(q, y) /\ EndsComplete(q, y)
        BY <2>2, <2>8, <2>10, <3>1, <3>2 DEF Framed
      <3>4. connections'[c].toRead[Peer(e)] = Append(q, token)
        BY <2>2, <2>3, <3>1, <3>2, ConnectionWritten
      <3>5. InStep(Append(q, token), y) /\ EndsWithin(Append(q, token), y, m)
        BY <2>1, <3>2, <3>3, SizeAppended
      <3>6. \A p \in Nodes, u \in 1 .. Threads : Writes(p, u, c, e)' => sender'[p][u].message = m
        BY <2>5, <2>8, <2>10 DEF Writes
      <3>7. Writes(n, t, c, e)'
        BY <2>5 DEF Writes
      <3> QED
        BY <3>2, <3>4, <3>5, <3>6, <3>7 DEF Framed
    <2>11. FramesInv'
      <3>1. CASE Clean'
        BY <1>1, <1>2, <2>2, <2>3, <2>6, <2>8, <2>10, <3>1, WriteKeepsFrames
      <3>2. CASE ~Clean'
        BY <3>2 DEF FramesInv
      <3> QED
        BY <3>1, <3>2
    <2> QED
      BY <2>4, <2>7, <2>9, <2>11 DEF ConnectionsInv
  <1> QED
    BY <1>3, <1>4, SendSizeEffect

\* The second half of sendData.
LEMMA SendBytesConnections ==
    ASSUME TypeInv, ConnectionsInv, NEW n \in Nodes, NEW t \in 1 .. Threads, SendBytes(n, t)
    PROVE  ConnectionsInv'
  <1>1. TypeInv' /\ InfosType'
    BY SendBytesType
  <1>2. UNCHANGED <<sessions, backlog>>
    BY DEF SendBytes, sessionVars
  <1>3. /\ sender'[n][t] = IdleSender
        /\ \A p \in Nodes, u \in 1 .. Threads : p # n \/ u # t => sender'[p][u] = sender[p][u]
    <2>1. sender' = [sender EXCEPT ![n][t] = IdleSender]
      BY DEF SendBytes
    <2> HIDE DEF IdleSender
    <2> QED
      BY <2>1 DEF TypeInv
  <1>4. PICK m, token : m = sender[n][t].message /\ token = <<"data", m>>
    OBVIOUS
  <1>5. m \in Message /\ token \in Tokens /\ sender[n][t].connection # NoConnection
    BY <1>4, SendBytesEffect DEF Tokens
  <1>6. ASSUME \A d \in ConnectionIds :
                  /\ connections'[d] = NoConnection <=> connections[d] = NoConnection
                  /\ connections'[d].closed = connections[d].closed
        PROVE  SendersInv'
    <2> SUFFICES ASSUME NEW p \in Nodes, NEW u \in 1 .. Threads
                 PROVE  LET s == sender'[p][u]
                        IN  /\ s.connection = NoConnection => s = IdleSender
                            /\ s.connection # NoConnection =>
                                 /\ s.message \in Message
                                 /\ \A j \in 1 .. Len(sessions[p]) :
                                       sessions[p][j].connection = s.connection
                                          => sessions[p][j].end = s.end
                                 /\ \A k \in 1 .. Len(backlog[p]) : backlog[p][k][1] # s.connection
                                 /\ \/ \E j \in 1 .. Len(sessions[p]) :
                                          sessions[p][j].connection = s.connection
                                    \/ connections'[s.connection] = NoConnection
                                    \/ s.end \in connections'[s.connection].closed
      BY <1>2 DEF SendersInv, IdleSender
    <2>1. CASE p = n /\ u = t
      BY <1>3, <2>1, IdleFields
    <2>2. CASE p # n \/ u # t
      <3>1. sender'[p][u] = sender[p][u]
        BY <1>3, <2>2
      <3>2. sender[p][u].connection # NoConnection => sender[p][u].connection \in ConnectionIds
        BY SenderFields
      <3> QED
        BY <1>6, <3>1, <3>2 DEF ConnectionsInv, SendersInv
    <2> QED
      BY <2>1, <2>2
  <1>7. CASE BytesStray(n, t)
    <2>1. /\ StatesInv' /\ OthersInv' /\ OneSessionPerPeer' /\ EndsInv' /\ OpenInv'
          /\ \A d \in ConnectionIds :
                /\ connections'[d] = NoConnection <=> connections[d] = NoConnection
                /\ connections'[d].closed = connections[d].closed
      <3>1. CASE UNCHANGED connections
        <4>1. StatesInv' /\ OneSessionPerPeer' /\ EndsInv'
          BY <1>2, SMTT(30) DEF ConnectionsInv, StatesInv, OneSessionPerPeer, EndsInv
        <4>3. OpenInv'
          BY <1>2, <3>1 DEF ConnectionsInv, OpenInv
        <4>2. OthersInv'
          BY <1>1, <1>2 DEF ConnectionsInv, OthersInv, InfosType, InfosInv
        <4> QED
          BY <3>1, <4>1, <4>2, <4>3
      <3>2. ASSUME NEW i \in 1 .. Len(sessions[n]), sessions[n][i].connection # NoConnection,
                   connections' = Written(sessions[n][i].connection, sessions[n][i].end, token)
            PROVE  /\ StatesInv' /\ OthersInv' /\ OneSessionPerPeer' /\ EndsInv' /\ OpenInv'
                   /\ \A d \in ConnectionIds :
                         /\ connections'[d] = NoConnection <=> connections[d] = NoConnection
                         /\ connections'[d].closed = connections[d].closed
        <4>1. /\ sessions[n][i].connection \in ConnectionIds /\ sessions[n][i].end \in Ends
              /\ connections[sessions[n][i].connection] # NoConnection
          BY <3>2, SessionFields DEF ConnectionsInv, OpenInv
        <4> QED
          BY <1>1, <1>2, <1>5, <3>2, <4>1, WrittenConnections
      <3> QED
        BY <1>4, <1>7, <3>1, <3>2 DEF BytesStray
    <2>2. ~Clean'
      BY <1>7 DEF BytesStray, Clean
    <2>3. SendersInv'
      BY <1>6, <2>1
    <2> QED
      BY <2>1, <2>2, <2>3 DEF ConnectionsInv, AloneInv, FramesInv
  <1>8. ASSUME NEW i \in 1 .. Len(sessions[n]), BytesWritten(n, t, i)
        PROVE  ConnectionsInv'
    <2>1. PICK c, e : c = sender[n][t].connection /\ e = sender[n][t].end
      OBVIOUS
    <2>2. sessions[n][i].connection = c /\ sessions[n][i].end = e /\ sender[n][t].end = e
      BY <1>5, <1>8, <2>1 DEF BytesWritten, ConnectionsInv, SendersInv
    <2>3. /\ c \in ConnectionIds /\ c # NoConnection /\ connections[c] # NoConnection
          /\ e \in Ends /\ e \notin connections[c].closed
      BY <1>5, <2>1, <2>2, SessionFields DEF ConnectionsInv, OpenInv
    <2>4. connections' = Written(c, e, token) /\ UNCHANGED faults
      BY <1>4, <1>8, <2>1 DEF BytesWritten
    <2>5. /\ StatesInv' /\ OthersInv' /\ OneSessionPerPeer' /\ EndsInv' /\ OpenInv'
          /\ \A d \in ConnectionIds :
                /\ connections'[d] = NoConnection <=> connections[d] = NoConnection
                /\ connections'[d].closed = connections[d].closed
      BY <1>1, <1>2, <1>5, <2>3, <2>4, WrittenConnections
    <2>6. SendersInv'
      BY <1>6, <2>5
    <2>7. WriterChanges(n, t, c, e)
      BY <1>3, <2>1, <2>3, IdleFields DEF WriterChanges
    <2>8. Clean' <=> Clean
      BY <2>4 DEF Clean
    <2>9. ASSUME Clean
          PROVE  \A p \in Nodes, u \in 1 .. Threads : ~Writes(p, u, c, e)'
      <3> SUFFICES ASSUME NEW p \in Nodes, NEW u \in 1 .. Threads, Writes(p, u, c, e)'
                   PROVE  FALSE
        OBVIOUS
      <3>1. p # n \/ u # t
        BY <1>3, <2>3, IdleFields DEF Writes
      <3>2. sender[p][u].connection = c /\ sender[p][u].end = e
        BY <1>3, <3>1 DEF Writes
      <3>3. AloneInv
        BY DEF ConnectionsInv
      <3> QED
        BY <2>1, <2>3, <2>9, <3>1, <3>2, <3>3 DEF AloneInv
    <2>10. AloneInv'
      <3> SUFFICES ASSUME Clean', NEW p \in Nodes, NEW o \in Nodes,
                          NEW u \in 1 .. Threads, NEW v \in 1 .. Threads,
                          sender'[p][u].connection = sender'[o][v].connection,
                          sender'[p][u].end = sender'[o][v].end,
                          sender'[p][u].connection # NoConnection
                   PROVE  p = o /\ u = v
        BY DEF AloneInv
      <3>1. sender'[p][u] = sender[p][u] /\ sender'[o][v] = sender[o][v] /\ AloneInv
        BY <1>3, IdleFields DEF ConnectionsInv
      <3> QED
        BY <2>8, <3>1 DEF AloneInv
    <2>11. ASSUME Clean, NEW y \in Message \cup {NoMessage}, Reads(c, Peer(e), y)
           PROVE  Framed(c, Peer(e), y)'
      <3>1. PICK q : q = connections[c].toRead[Peer(e)]
        OBVIOUS
      <3>2. /\ Peer(e) \in Ends /\ Peer(e) \notin connections[c].closed /\ Framed(c, Peer(e), y)
            /\ Peer(Peer(e)) = e /\ q \in Seq(Tokens)
        BY <2>3, <2>11, <3>1, ReaderFacts, EndFacts, ConnectionFields
      <3>3. Writes(n, t, c, e)
        BY <2>1 DEF Writes
      <3>4. InStep(q, y) /\ EndsWithin(q, y, m)
        BY <1>4, <2>3, <3>1, <3>2, <3>3 DEF Framed
      <3>5. connections'[c].toRead[Peer(e)] = Append(q, token)
        BY <1>5, <2>3, <2>4, <3>1, <3>2, ConnectionWritten
      <3>6. InStep(Append(q, token), y) /\ EndsComplete(Append(q, token), y)
        BY <1>4, <1>5, <3>2, <3>4, BytesAppended
      <3> QED
        BY <2>9, <2>11, <3>2, <3>5, <3>6 DEF Framed
    <2>12. FramesInv'
      <3>1. CASE Clean
        BY <1>1, <1>2, <1>5, <2>3, <2>4, <2>7, <2>11, <3>1, WriteKeepsFrames
      <3>2. CASE ~Clean
        BY <2>8, <3>2 DEF FramesInv
      <3> QED
        BY <3>1, <3>2
    <2> QED
      BY <2>5, <2>6, <2>10, <2>12 DEF ConnectionsInv
  <1> QED
    BY <1>7, <1>8, SendBytesEffect

\* FramesInv after a step that changes neither a connection nor a writer, and
\* after which nobody reads who did not read before.
LEMMA SameFrames ==
    ASSUME TypeInv, TypeInv', ConnectionsInv, UNCHANGED <<sender, faults>>,
           \A d \in ConnectionIds, f \in Ends, y \in Message \cup {NoMessage} : Reads(d, f, y)' =>
              \/ Framed(d, f, y)'
              \/ Reads(d, f, y) /\ connections'[d] = connections[d]
    PROVE  FramesInv'
  <1>1. CASE Clean'
    <2>1. Clean /\ InStepSoFar'
      BY <1>1 DEF Clean, InStepSoFar, ConnectionsInv, FramesInv
    <2>2. ReadersInv'
      <3> SUFFICES ASSUME NEW d \in ConnectionIds, NEW f \in Ends, NEW y \in Message \cup {NoMessage},
                          Reads(d, f, y), connections'[d] = connections[d]
                   PROVE  Framed(d, f, y)'
        BY DEF ReadersInv
      <3>1. Framed(d, f, y)
        BY <2>1, ReaderFacts
      <3> QED
        BY <3>1 DEF Framed, Writes
    <2> QED
      BY <2>1, <2>2, ReadersFramed, PTL
  <1>2. CASE ~Clean'
    BY <1>2 DEF FramesInv
  <1> QED
    BY <1>1, <1>2

\* A device that is heard of gets a session.
LEMMA UdpDiscoveryCallbackConnections ==
    ASSUME TypeInv, ConnectionsInv, NEW n \in Nodes, NEW m \in Nodes, UdpDiscoveryCallback(n, m)
    PROVE  ConnectionsInv'
  <1>1. TypeInv' /\ InfosType'
    BY UdpDiscoveryCallbackType
  <1>2. UNCHANGED <<connections, backlog, sender, faults>> /\ m # n
    BY DEF UdpDiscoveryCallback, networkVars, dataVars
  <1>3. CASE SessionsTo(n, m) # {}
    <2>1. UNCHANGED sessions
      BY <1>3 DEF UdpDiscoveryCallback
    <2> QED
      BY <1>1, <1>2, <2>1, QuietConnections
  <1>4. CASE SessionsTo(n, m) = {}
    <2>1. PICK r \in Session :
             /\ sessions' = [sessions EXCEPT ![n] = Append(@, r)]
             /\ r.peer = m /\ r.connection = NoConnection /\ r.end = "client"
             /\ r.readBufferSize = NoMessage /\ r.state = "connecting"
      BY <1>4, NewSessions DEF UdpDiscoveryCallback
    <2>2. /\ Len(sessions[n]) \in Nat /\ Len(sessions'[n]) = Len(sessions[n]) + 1
          /\ sessions'[n][Len(sessions[n]) + 1] = r
          /\ \A j \in 1 .. Len(sessions[n]) : sessions'[n][j] = sessions[n][j]
          /\ \A p \in Nodes : p # n => sessions'[p] = sessions[p]
      BY <2>1, SessionAppended
    <2>3. ASSUME NEW p \in Nodes, NEW j \in 1 .. Len(sessions'[p])
          PROVE  \/ j \in 1 .. Len(sessions[p]) /\ sessions'[p][j] = sessions[p][j]
                 \/ p = n /\ j = Len(sessions[n]) + 1 /\ sessions'[p][j] = r
      BY <2>2
    <2>4. ASSUME NEW p \in Nodes, NEW j \in 1 .. Len(sessions[p])
          PROVE  j \in 1 .. Len(sessions'[p]) /\ sessions'[p][j] = sessions[p][j]
      BY <2>2
    <2>5. \A p \in Nodes : \A j \in 1 .. Len(sessions'[p]) :
             sessions'[p][j].connection # NoConnection =>
                j \in 1 .. Len(sessions[p]) /\ sessions'[p][j] = sessions[p][j]
      BY <2>1, <2>3
    <2>6. StatesInv'
      <3> SUFFICES ASSUME NEW p \in Nodes, NEW j \in 1 .. Len(sessions'[p])
                   PROVE  LET s == sessions'[p][j]
                          IN  /\ s.connection = NoConnection <=> s.state \in {"connecting", "waiting"}
                              /\ s.connection = NoConnection =>
                                    s.readBufferSize = NoMessage /\ s.end = "client"
        BY DEF StatesInv
      <3> QED
        BY <2>1, <2>3 DEF ConnectionsInv, StatesInv
    <2>7. OthersInv'
      <3>1. \A p \in Nodes : \A j \in 1 .. Len(sessions'[p]) : sessions'[p][j].peer # p
        BY <1>2, <2>1, <2>3 DEF ConnectionsInv, OthersInv
      <3> QED
        BY <1>1, <1>2, <3>1 DEF ConnectionsInv, OthersInv, InfosType, InfosInv
    <2>8. OneSessionPerPeer'
      <3> SUFFICES ASSUME NEW p \in Nodes, NEW j \in 1 .. Len(sessions'[p]),
                          NEW k \in 1 .. Len(sessions'[p]), j # k
                   PROVE  sessions'[p][j].peer # sessions'[p][k].peer
        <4>1. \A p \in Nodes : DOMAIN sessions'[p] = 1 .. Len(sessions'[p])
          BY <1>1 DEF TypeInv
        <4> QED
          BY <4>1 DEF OneSessionPerPeer
      <3>1. \A o \in 1 .. Len(sessions[n]) : sessions[n][o].peer # m
        BY <1>4 DEF SessionsTo
      <3>2. \A o, q \in 1 .. Len(sessions[p]) : o # q => sessions[p][o].peer # sessions[p][q].peer
        <4>1. DOMAIN sessions[p] = 1 .. Len(sessions[p])
          BY DEF TypeInv
        <4> QED
          BY <4>1 DEF ConnectionsInv, OneSessionPerPeer
      <3> QED
        BY <2>1, <2>3, <3>1, <3>2
    <2>9. EndsInv'
      <3>1. ASSUME NEW p \in Nodes, NEW o \in Nodes, NEW k \in 1 .. Len(sessions'[p]),
                   NEW j \in 1 .. Len(sessions'[o]),
                   sessions'[p][k].connection = sessions'[o][j].connection,
                   sessions'[p][k].connection # NoConnection,
                   p = o \/ sessions'[p][k].end = sessions'[o][j].end
            PROVE  p = o /\ k = j
        <4>1. /\ k \in 1 .. Len(sessions[p]) /\ j \in 1 .. Len(sessions[o])
              /\ sessions[p][k].connection = sessions[o][j].connection
              /\ sessions[p][k].connection # NoConnection
              /\ p = o \/ sessions[p][k].end = sessions[o][j].end
          BY <2>5, <3>1
        <4> QED
          BY <4>1 DEF ConnectionsInv, EndsInv
      <3>2. ASSUME NEW p \in Nodes, NEW o \in Nodes, NEW j \in 1 .. Len(sessions'[p]),
                   NEW k \in 1 .. Len(backlog[o]), sessions'[p][j].connection = backlog[o][k][1]
            PROVE  p # o /\ sessions'[p][j].end = "client"
        <4>1. backlog[o][k][1] # NoConnection
          BY BacklogFields, TcpAssumption DEF ConnectionIds
        <4>2. j \in 1 .. Len(sessions[p]) /\ sessions'[p][j] = sessions[p][j]
          BY <2>5, <3>2, <4>1
        <4>3. sessions[p][j].connection = backlog[o][k][1]
          BY <3>2, <4>2
        <4>4. p # o /\ sessions[p][j].end = "client"
          BY <4>2, <4>3 DEF ConnectionsInv, EndsInv
        <4> QED
          BY <4>2, <4>4
      <3>3. \A p, o \in Nodes : \A k \in 1 .. Len(backlog[p]), l \in 1 .. Len(backlog[o]) :
               backlog[p][k][1] = backlog[o][l][1] => p = o /\ k = l
        BY DEF ConnectionsInv, EndsInv
      <3> QED
        BY <1>2, <3>1, <3>2, <3>3 DEF EndsInv
    <2>10. OpenInv'
      <3>1. ASSUME NEW p \in Nodes, NEW j \in 1 .. Len(sessions'[p]),
                   sessions'[p][j].connection # NoConnection
            PROVE  /\ connections[sessions'[p][j].connection] # NoConnection
                   /\ sessions'[p][j].end \notin connections[sessions'[p][j].connection].closed
        BY <2>5, <3>1 DEF ConnectionsInv, OpenInv
      <3> QED
        BY <1>2, <3>1 DEF ConnectionsInv, OpenInv
    <2>11. SendersInv'
      <3> SUFFICES ASSUME NEW p \in Nodes, NEW t \in 1 .. Threads, sender[p][t].connection # NoConnection
                   PROVE  /\ sender[p][t].message \in Message
                          /\ \A j \in 1 .. Len(sessions'[p]) :
                                sessions'[p][j].connection = sender[p][t].connection
                                   => sessions'[p][j].end = sender[p][t].end
                          /\ \A k \in 1 .. Len(backlog[p]) : backlog[p][k][1] # sender[p][t].connection
                          /\ \/ \E j \in 1 .. Len(sessions'[p]) :
                                   sessions'[p][j].connection = sender[p][t].connection
                             \/ connections[sender[p][t].connection] = NoConnection
                             \/ sender[p][t].end \in connections[sender[p][t].connection].closed
        BY <1>2 DEF ConnectionsInv, SendersInv
      <3>1. /\ sender[p][t].message \in Message
            /\ \A j \in 1 .. Len(sessions[p]) : sessions[p][j].connection = sender[p][t].connection
                  => sessions[p][j].end = sender[p][t].end
            /\ \A k \in 1 .. Len(backlog[p]) : backlog[p][k][1] # sender[p][t].connection
            /\ \/ \E j \in 1 .. Len(sessions[p]) :
                     sessions[p][j].connection = sender[p][t].connection
               \/ connections[sender[p][t].connection] = NoConnection
               \/ sender[p][t].end \in connections[sender[p][t].connection].closed
        BY DEF ConnectionsInv, SendersInv
      <3>2. \A j \in 1 .. Len(sessions'[p]) : sessions'[p][j].connection = sender[p][t].connection
               => sessions'[p][j].end = sender[p][t].end
        BY <2>5, <3>1
      <3>3. (\E j \in 1 .. Len(sessions[p]) : sessions[p][j].connection = sender[p][t].connection) =>
               \E j \in 1 .. Len(sessions'[p]) : sessions'[p][j].connection = sender[p][t].connection
        BY <2>4
      <3> QED
        BY <3>1, <3>2, <3>3
    <2>12. AloneInv'
      BY <1>2 DEF ConnectionsInv, AloneInv, Clean
    <2>13. FramesInv'
      <3>1. \A d \in ConnectionIds, f \in Ends, y \in Message \cup {NoMessage} :
               Reads(d, f, y)' => Reads(d, f, y) /\ connections'[d] = connections[d]
        <4>1. \A d \in ConnectionIds, f \in Ends, y \in Message \cup {NoMessage} :
                 Reads(d, f, y)' => Reads(d, f, y)
          BY <1>2, <2>5 DEF Reads
        <4> QED
          BY <1>2, <4>1
      <3> QED
        BY <1>1, <1>2, <3>1, SameFrames
    <2> QED
      BY <2>6, <2>7, <2>8, <2>9, <2>10, <2>11, <2>12, <2>13 DEF ConnectionsInv
  <1> QED
    BY <1>3, <1>4

\* A connection is made: one end is at the session, the other one waits.
LEMMA ConnectedConnections ==
    ASSUME TypeInv, ConnectionsInv, NEW n \in Nodes, NEW i \in 1 .. Len(sessions[n]),
           Connected(n, i)
    PROVE  ConnectionsInv'
  <1>1. TypeInv' /\ InfosType' /\ UNCHANGED <<sender, faults>>
    BY ConnectedType DEF Connected, dataVars
  <1>2. PICK c \in ConnectionIds, m \in Nodes, r \in Session : Connects(n, i, c, m, r)
    BY ConnectedEffect
  <1>3. /\ m = sessions[n][i].peer /\ m # n /\ c # NoConnection /\ connections[c] = NoConnection
        /\ \A p \in Nodes, t \in 1 .. Threads : sender[p][t].connection # c
        /\ connections'[c] # NoConnection /\ connections'[c].closed = {}
        /\ \A e \in Ends : connections'[c].toRead[e] = <<>>
        /\ \A d \in ConnectionIds : d # c => connections'[d] = connections[d]
        /\ r.peer = m /\ r.connection = c /\ r.end = "client" /\ r.state = "open"
        /\ r.readBufferSize = NoMessage /\ sessions[n][i].connection = NoConnection
    BY <1>2 DEF Connects
  <1>4. SessionChanged(n, i, r)
    BY <1>2, SessionUpdated DEF Connects
  <1>5. /\ sessions'[n][i] = r
        /\ \A p \in Nodes : Len(sessions'[p]) = Len(sessions[p])
        /\ \A p \in Nodes : \A j \in 1 .. Len(sessions[p]) :
              p # n \/ j # i => sessions'[p][j] = sessions[p][j]
    BY <1>4 DEF SessionChanged
  <1>6. /\ Len(backlog[m]) \in Nat /\ Len(backlog'[m]) = Len(backlog[m]) + 1
        /\ backlog'[m][Len(backlog[m]) + 1][1] = c /\ backlog'[m][Len(backlog[m]) + 1][2] = n
        /\ \A k \in 1 .. Len(backlog[m]) : backlog'[m][k] = backlog[m][k]
        /\ \A p \in Nodes : p # m => backlog'[p] = backlog[p]
    <2>1. BacklogAdded(m, c, n)
      BY <1>2, BacklogAppended DEF Connects
    <2> QED
      BY <2>1 DEF BacklogAdded
  \* Nobody had the connection before.
  <1>7. /\ \A p \in Nodes : \A j \in 1 .. Len(sessions[p]) : sessions[p][j].connection # c
        /\ \A p \in Nodes : \A k \in 1 .. Len(backlog[p]) : backlog[p][k][1] # c
    BY <1>3 DEF ConnectionsInv, OpenInv
  <1>8. ASSUME NEW p \in Nodes, NEW j \in 1 .. Len(sessions'[p])
        PROVE  /\ j \in 1 .. Len(sessions[p])
               /\ \/ p = n /\ j = i /\ sessions'[p][j] = r
                  \/ sessions'[p][j] = sessions[p][j] /\ sessions'[p][j].connection # c
    BY <1>5, <1>7
  <1>9. ASSUME NEW p \in Nodes, NEW k \in 1 .. Len(backlog'[p])
        PROVE  \/ /\ p = m /\ k = Len(backlog[m]) + 1
                  /\ backlog'[p][k][1] = c /\ backlog'[p][k][2] = n
               \/ /\ k \in 1 .. Len(backlog[p])
                  /\ backlog'[p][k] = backlog[p][k] /\ backlog'[p][k][1] # c
    BY <1>6, <1>7, SMTT(30)
  <1>10. \A p \in Nodes : \A j \in 1 .. Len(sessions[p]) :
            sessions[p][j].connection # NoConnection =>
               j \in 1 .. Len(sessions'[p]) /\ sessions'[p][j] = sessions[p][j]
    BY <1>3, <1>5
  <1>11. StatesInv'
    <2> SUFFICES ASSUME NEW p \in Nodes, NEW j \in 1 .. Len(sessions'[p])
                 PROVE  LET s == sessions'[p][j]
                        IN  /\ s.connection = NoConnection <=> s.state \in {"connecting", "waiting"}
                            /\ s.connection = NoConnection =>
                                  s.readBufferSize = NoMessage /\ s.end = "client"
      BY DEF StatesInv
    <2>1. CASE sessions'[p][j] = r
      BY <1>3, <2>1
    <2>2. CASE sessions'[p][j] = sessions[p][j] /\ j \in 1 .. Len(sessions[p])
      BY <2>2 DEF ConnectionsInv, StatesInv
    <2> QED
      BY <1>8, <2>1, <2>2
  <1>12. OthersInv'
    <2>1. ASSUME NEW p \in Nodes, NEW j \in 1 .. Len(sessions'[p]) PROVE sessions'[p][j].peer # p
      <3>1. \A o \in 1 .. Len(sessions[p]) : sessions[p][o].peer # p
        BY DEF ConnectionsInv, OthersInv
      <3> QED
        BY <1>3, <1>8, <3>1
    <2>2. ASSUME NEW p \in Nodes, NEW k \in 1 .. Len(backlog'[p]) PROVE backlog'[p][k][2] # p
      <3>1. \A o \in 1 .. Len(backlog[p]) : backlog[p][o][2] # p
        BY DEF ConnectionsInv, OthersInv
      <3> QED
        BY <1>3, <1>9, <3>1, SMTT(30)
    <2> QED
      BY <1>1, <2>1, <2>2 DEF OthersInv, InfosType, InfosInv
  <1>13. OneSessionPerPeer'
    <2> SUFFICES ASSUME NEW p \in Nodes, NEW j \in 1 .. Len(sessions'[p]),
                        NEW k \in 1 .. Len(sessions'[p]), j # k
                 PROVE  sessions'[p][j].peer # sessions'[p][k].peer
      <3>1. \A p \in Nodes : DOMAIN sessions'[p] = 1 .. Len(sessions'[p])
        BY <1>1 DEF TypeInv
      <3> QED
        BY <3>1 DEF OneSessionPerPeer
    <2>1. /\ j \in 1 .. Len(sessions[p]) /\ k \in 1 .. Len(sessions[p])
          /\ sessions'[p][j].peer = sessions[p][j].peer
          /\ sessions'[p][k].peer = sessions[p][k].peer
      BY <1>3, <1>8
    <2>2. DOMAIN sessions[p] = 1 .. Len(sessions[p])
      BY DEF TypeInv
    <2> QED
      BY <2>1, <2>2 DEF ConnectionsInv, OneSessionPerPeer
  <1>14. EndsInv'
    <2>1. ASSUME NEW p \in Nodes, NEW o \in Nodes, NEW k \in 1 .. Len(sessions'[p]),
                 NEW j \in 1 .. Len(sessions'[o]),
                 sessions'[p][k].connection = sessions'[o][j].connection,
                 sessions'[p][k].connection # NoConnection,
                 p = o \/ sessions'[p][k].end = sessions'[o][j].end
          PROVE  p = o /\ k = j
      <3>1. CASE sessions'[p][k].connection = c
        BY <1>8, <2>1, <3>1, ZenonT(40)
      <3>2. CASE sessions'[p][k].connection # c
        <4>1. /\ k \in 1 .. Len(sessions[p]) /\ j \in 1 .. Len(sessions[o])
              /\ sessions[p][k].connection = sessions[o][j].connection
              /\ sessions[p][k].connection # NoConnection
              /\ p = o \/ sessions[p][k].end = sessions[o][j].end
          BY <1>3, <1>8, <2>1, <3>2
        <4> QED
          BY <4>1 DEF ConnectionsInv, EndsInv
      <3> QED
        BY <3>1, <3>2
    <2>2. ASSUME NEW p \in Nodes, NEW o \in Nodes, NEW j \in 1 .. Len(sessions'[p]),
                 NEW k \in 1 .. Len(backlog'[o]), sessions'[p][j].connection = backlog'[o][k][1]
          PROVE  p # o /\ sessions'[p][j].end = "client"
      <3>1. CASE backlog'[o][k][1] = c
        BY <1>3, <1>8, <1>9, <2>2, <3>1
      <3>2. CASE backlog'[o][k][1] # c
        <4>1. /\ j \in 1 .. Len(sessions[p]) /\ k \in 1 .. Len(backlog[o])
              /\ sessions'[p][j] = sessions[p][j] /\ backlog'[o][k] = backlog[o][k]
          BY <1>3, <1>8, <1>9, <2>2, <3>2
        <4>2. sessions[p][j].connection = backlog[o][k][1]
          BY <2>2, <4>1
        <4>3. p # o /\ sessions[p][j].end = "client"
          BY <4>1, <4>2, SMTT(30) DEF ConnectionsInv, EndsInv
        <4> QED
          BY <4>1, <4>3
      <3> QED
        BY <3>1, <3>2
    <2>3. ASSUME NEW p \in Nodes, NEW o \in Nodes, NEW k \in 1 .. Len(backlog'[p]),
                 NEW l \in 1 .. Len(backlog'[o]), backlog'[p][k][1] = backlog'[o][l][1]
          PROVE  p = o /\ k = l
      <3>1. CASE backlog'[p][k][1] = c
        <4>1. p = m /\ k = Len(backlog[m]) + 1
          BY <1>9, <3>1
        <4>2. o = m /\ l = Len(backlog[m]) + 1
          BY <1>9, <2>3, <3>1
        <4> QED
          BY <4>1, <4>2
      <3>2. CASE backlog'[p][k][1] # c
        <4>1. /\ k \in 1 .. Len(backlog[p]) /\ l \in 1 .. Len(backlog[o])
              /\ backlog[p][k][1] = backlog[o][l][1]
          BY <1>9, <2>3, <3>2
        <4> QED
          BY <4>1 DEF ConnectionsInv, EndsInv
      <3> QED
        BY <3>1, <3>2
    <2> QED
      BY <2>1, <2>2, <2>3, SMTT(30) DEF EndsInv
  <1>15. OpenInv'
    <2>1. ASSUME NEW p \in Nodes, NEW j \in 1 .. Len(sessions'[p]),
                 sessions'[p][j].connection # NoConnection
          PROVE  /\ connections'[sessions'[p][j].connection] # NoConnection
                 /\ sessions'[p][j].end \notin connections'[sessions'[p][j].connection].closed
      <3>1. CASE sessions'[p][j].connection = c
        BY <1>3, <3>1
      <3>2. CASE sessions'[p][j].connection # c
        <4>1. j \in 1 .. Len(sessions[p]) /\ sessions'[p][j] = sessions[p][j]
          BY <1>3, <1>8, <3>2
        <4>2. sessions[p][j].connection \in ConnectionIds
          BY <2>1, <4>1, SessionFields
        <4>3. connections'[sessions[p][j].connection] = connections[sessions[p][j].connection]
          BY <1>3, <3>2, <4>1, <4>2
        <4> QED
          BY <2>1, <4>1, <4>3 DEF ConnectionsInv, OpenInv
      <3> QED
        BY <3>1, <3>2
    <2>2. ASSUME NEW p \in Nodes, NEW k \in 1 .. Len(backlog'[p])
          PROVE  /\ connections'[backlog'[p][k][1]] # NoConnection
                 /\ "server" \notin connections'[backlog'[p][k][1]].closed
      <3>1. CASE backlog'[p][k][1] = c
        BY <1>3, <3>1
      <3>2. CASE backlog'[p][k][1] # c
        <4>1. k \in 1 .. Len(backlog[p]) /\ backlog'[p][k] = backlog[p][k]
          BY <1>9, <3>2
        <4>2. backlog[p][k][1] \in ConnectionIds
          BY <4>1, BacklogFields
        <4> QED
          BY <1>3, <3>2, <4>1, <4>2 DEF ConnectionsInv, OpenInv
      <3> QED
        BY <3>1, <3>2
    <2> QED
      BY <2>1, <2>2 DEF OpenInv
  <1>16. SendersInv'
    <2> SUFFICES ASSUME NEW p \in Nodes, NEW t \in 1 .. Threads, sender[p][t].connection # NoConnection
                 PROVE  /\ sender[p][t].message \in Message
                        /\ \A j \in 1 .. Len(sessions'[p]) :
                              sessions'[p][j].connection = sender[p][t].connection
                                 => sessions'[p][j].end = sender[p][t].end
                        /\ \A k \in 1 .. Len(backlog'[p]) : backlog'[p][k][1] # sender[p][t].connection
                        /\ \/ \E j \in 1 .. Len(sessions'[p]) :
                                 sessions'[p][j].connection = sender[p][t].connection
                           \/ connections'[sender[p][t].connection] = NoConnection
                           \/ sender[p][t].end \in connections'[sender[p][t].connection].closed
      BY <1>1 DEF ConnectionsInv, SendersInv
    <2>1. /\ sender[p][t].message \in Message
          /\ \A j \in 1 .. Len(sessions[p]) : sessions[p][j].connection = sender[p][t].connection
                => sessions[p][j].end = sender[p][t].end
          /\ \A k \in 1 .. Len(backlog[p]) : backlog[p][k][1] # sender[p][t].connection
          /\ \/ \E j \in 1 .. Len(sessions[p]) :
                   sessions[p][j].connection = sender[p][t].connection
             \/ connections[sender[p][t].connection] = NoConnection
             \/ sender[p][t].end \in connections[sender[p][t].connection].closed
      BY DEF ConnectionsInv, SendersInv
    <2>2. sender[p][t].connection # c /\ sender[p][t].connection \in ConnectionIds
      BY <1>3, SenderFields
    <2>3. \A j \in 1 .. Len(sessions'[p]) : sessions'[p][j].connection = sender[p][t].connection
             => sessions'[p][j].end = sender[p][t].end
      BY <1>3, <1>8, <2>1, <2>2, ZenonT(40)
    <2>4. \A k \in 1 .. Len(backlog'[p]) : backlog'[p][k][1] # sender[p][t].connection
      BY <1>9, <2>1, <2>2
    <2>5. (\E j \in 1 .. Len(sessions[p]) : sessions[p][j].connection = sender[p][t].connection) =>
             \E j \in 1 .. Len(sessions'[p]) : sessions'[p][j].connection = sender[p][t].connection
      BY <1>10
    <2>6. connections'[sender[p][t].connection] = connections[sender[p][t].connection]
      BY <1>3, <2>2
    <2> QED
      BY <2>1, <2>3, <2>4, <2>5, <2>6
  <1>17. AloneInv'
    BY <1>1 DEF ConnectionsInv, AloneInv, Clean
  <1>18. FramesInv'
    <2>1. ASSUME NEW d \in ConnectionIds, NEW f \in Ends, NEW y \in Message \cup {NoMessage},
                 Reads(d, f, y)', d = c
          PROVE  Framed(d, f, y)'
      <3>1. y = NoMessage
        BY <1>3, <1>8, <2>1 DEF Reads
      <3>2. PICK q : q = connections'[c].toRead[f]
        OBVIOUS
      <3>3. q = <<>> /\ InStep(q, NoMessage) /\ EndsComplete(q, NoMessage)
        <4>1. q = <<>> /\ Len(q) = 0
          BY <1>3, <3>2
        <4> QED
          BY <4>1 DEF InStep, EndsComplete
      <3>4. \A p \in Nodes, u \in 1 .. Threads : ~Writes(p, u, c, Peer(f))'
        BY <1>1, <1>3 DEF Writes
      <3> QED
        BY <2>1, <3>1, <3>2, <3>3, <3>4 DEF Framed
    <2>2. ASSUME NEW d \in ConnectionIds, NEW f \in Ends, NEW y \in Message \cup {NoMessage},
                 Reads(d, f, y)', d # c
          PROVE  Reads(d, f, y) /\ connections'[d] = connections[d]
      <3>1. ASSUME NEW p \in Nodes, NEW j \in 1 .. Len(sessions'[p]),
                   sessions'[p][j].connection = d, d # NoConnection,
                   sessions'[p][j].end = f, sessions'[p][j].readBufferSize = y
            PROVE  Reads(d, f, y)
        <4>1. j \in 1 .. Len(sessions[p]) /\ sessions'[p][j] = sessions[p][j]
          BY <1>3, <1>8, <2>2, <3>1
        <4> QED
          BY <3>1, <4>1 DEF Reads
      <3>2. ASSUME NEW p \in Nodes, NEW k \in 1 .. Len(backlog'[p]), backlog'[p][k][1] = d,
                   f = "server", y = NoMessage
            PROVE  Reads(d, f, y)
        <4>1. k \in 1 .. Len(backlog[p]) /\ backlog'[p][k] = backlog[p][k]
          BY <1>9, <2>2, <3>2
        <4> QED
          BY <3>2, <4>1 DEF Reads
      <3>3. Reads(d, f, y)
        BY <2>2, <3>1, <3>2 DEF Reads
      <3> QED
        BY <1>3, <2>2, <3>3
    <2> QED
      BY <1>1, <2>1, <2>2, SameFrames
  <1> QED
    BY <1>11, <1>12, <1>13, <1>14, <1>15, <1>16, <1>17, <1>18 DEF ConnectionsInv

\* A connection that waits becomes a session.
Accepts(n, c, m) ==
    /\ backlog[n] # <<>> /\ backlog' = [backlog EXCEPT ![n] = Tail(@)]
    /\ c = backlog[n][1][1] /\ m = backlog[n][1][2] /\ SessionsTo(n, m) = {}
    /\ sessions' = [sessions EXCEPT ![n] = Append(@, ServerSession(m, c))]

LEMMA AcceptedConnections ==
    ASSUME TypeInv, ConnectionsInv, TypeInv', InfosType', NEW n \in Nodes,
           NEW c \in ConnectionIds, NEW m \in Nodes, Accepts(n, c, m),
           UNCHANGED <<connections, sender, faults>>
    PROVE  ConnectionsInv'
  <1>0. c = backlog[n][1][1] /\ m = backlog[n][1][2]
    BY DEF Accepts
  <1>1. PICK r \in Session :
           /\ sessions' = [sessions EXCEPT ![n] = Append(@, r)]
           /\ r.peer = m /\ r.connection = c /\ r.end = "server" /\ r.state = "open"
           /\ r.readBufferSize = NoMessage
    <2>1. PICK r : r = ServerSession(m, c)
      OBVIOUS
    <2>2. /\ r \in Session /\ r.peer = m /\ r.connection = c /\ r.end = "server"
          /\ r.state = "open" /\ r.readBufferSize = NoMessage
      BY <2>1, NewSessions
    <2>3. sessions' = [sessions EXCEPT ![n] = Append(@, r)]
      BY <2>1 DEF Accepts
    <2> QED
      BY <2>2, <2>3
  <1>2. /\ Len(sessions[n]) \in Nat /\ Len(sessions'[n]) = Len(sessions[n]) + 1
        /\ sessions'[n][Len(sessions[n]) + 1] = r
        /\ \A j \in 1 .. Len(sessions[n]) : sessions'[n][j] = sessions[n][j]
        /\ \A p \in Nodes : p # n => sessions'[p] = sessions[p]
    BY <1>1, SessionAppended
  <1>3. /\ Len(backlog[n]) \in Nat /\ 1 \in 1 .. Len(backlog[n])
        /\ Len(backlog'[n]) = Len(backlog[n]) - 1
        /\ \A k \in 1 .. Len(backlog'[n]) : backlog'[n][k] = backlog[n][k + 1]
        /\ \A p \in Nodes : p # n => backlog'[p] = backlog[p]
    BY BacklogTaken DEF Accepts
  <1>4. ASSUME NEW p \in Nodes, NEW j \in 1 .. Len(sessions'[p])
        PROVE  \/ j \in 1 .. Len(sessions[p]) /\ sessions'[p][j] = sessions[p][j]
               \/ p = n /\ j = Len(sessions[n]) + 1 /\ sessions'[p][j] = r
    BY <1>2
  <1>5. ASSUME NEW p \in Nodes, NEW j \in 1 .. Len(sessions[p])
        PROVE  j \in 1 .. Len(sessions'[p]) /\ sessions'[p][j] = sessions[p][j]
    BY <1>2
  <1>6. ASSUME NEW p \in Nodes, NEW k \in 1 .. Len(backlog'[p])
        PROVE  \E l \in 1 .. Len(backlog[p]) :
                  /\ l = (IF p = n THEN k + 1 ELSE k) /\ backlog'[p][k] = backlog[p][l]
    <2>1. CASE p = n
      <3>1. k + 1 \in 1 .. Len(backlog[n])
        BY <1>3, <2>1
      <3> QED
        BY <1>3, <2>1, <3>1
    <2>2. CASE p # n
      BY <1>3, <2>2
    <2> QED
      BY <2>1, <2>2
  <1>7. /\ c # NoConnection /\ m # n /\ connections[c] # NoConnection
        /\ "server" \notin connections[c].closed
    BY <1>0, <1>3, TcpAssumption DEF ConnectionIds, ConnectionsInv, OthersInv, OpenInv
  \* The end that waited was nobody else's.
  <1>8. ASSUME NEW p \in Nodes, NEW j \in 1 .. Len(sessions[p]), sessions[p][j].connection = c
        PROVE  p # n /\ sessions[p][j].end = "client"
    <2>1. sessions[p][j].connection = backlog[n][1][1]
      BY <1>0, <1>8
    <2> QED
      BY <1>3, <2>1 DEF ConnectionsInv, EndsInv
  <1>9. ASSUME NEW p \in Nodes, NEW k \in 1 .. Len(backlog'[p])
        PROVE  backlog'[p][k][1] # c
    <2>1. PICK l \in 1 .. Len(backlog[p]) :
             l = (IF p = n THEN k + 1 ELSE k) /\ backlog'[p][k] = backlog[p][l]
      BY <1>6
    <2>2. SUFFICES ASSUME backlog[p][l][1] = backlog[n][1][1] PROVE FALSE
      BY <1>0, <2>1
    <2>3. p = n /\ l = 1
      BY <1>3, <2>2 DEF ConnectionsInv, EndsInv
    <2> QED
      BY <2>1, <2>3
  <1>10. StatesInv'
    <2> SUFFICES ASSUME NEW p \in Nodes, NEW j \in 1 .. Len(sessions'[p])
                 PROVE  LET s == sessions'[p][j]
                        IN  /\ s.connection = NoConnection <=> s.state \in {"connecting", "waiting"}
                            /\ s.connection = NoConnection =>
                                  s.readBufferSize = NoMessage /\ s.end = "client"
      BY DEF StatesInv
    <2>1. CASE sessions'[p][j] = r
      BY <1>1, <1>7, <2>1
    <2>2. CASE sessions'[p][j] = sessions[p][j] /\ j \in 1 .. Len(sessions[p])
      BY <2>2 DEF ConnectionsInv, StatesInv
    <2> QED
      BY <1>4, <2>1, <2>2
  <1>11. OthersInv'
    <2>1. ASSUME NEW p \in Nodes, NEW j \in 1 .. Len(sessions'[p]) PROVE sessions'[p][j].peer # p
      <3>1. \A o \in 1 .. Len(sessions[p]) : sessions[p][o].peer # p
        BY DEF ConnectionsInv, OthersInv
      <3> QED
        BY <1>1, <1>4, <1>7, <3>1
    <2>2. ASSUME NEW p \in Nodes, NEW k \in 1 .. Len(backlog'[p]) PROVE backlog'[p][k][2] # p
      <3>1. \A o \in 1 .. Len(backlog[p]) : backlog[p][o][2] # p
        BY DEF ConnectionsInv, OthersInv
      <3> QED
        BY <1>6, <3>1
    <2> QED
      BY <2>1, <2>2 DEF OthersInv, InfosType, InfosInv
  <1>12. OneSessionPerPeer'
    <2> SUFFICES ASSUME NEW p \in Nodes, NEW j \in 1 .. Len(sessions'[p]),
                        NEW k \in 1 .. Len(sessions'[p]), j # k
                 PROVE  sessions'[p][j].peer # sessions'[p][k].peer
      <3>1. \A p \in Nodes : DOMAIN sessions'[p] = 1 .. Len(sessions'[p])
        BY DEF TypeInv
      <3> QED
        BY <3>1 DEF OneSessionPerPeer
    <2>1. \A o \in 1 .. Len(sessions[n]) : sessions[n][o].peer # m
      BY DEF SessionsTo, Accepts
    <2>2. \A o, q \in 1 .. Len(sessions[p]) : o # q => sessions[p][o].peer # sessions[p][q].peer
      <3>1. DOMAIN sessions[p] = 1 .. Len(sessions[p])
        BY DEF TypeInv
      <3> QED
        BY <3>1 DEF ConnectionsInv, OneSessionPerPeer
    <2> QED
      BY <1>1, <1>4, <2>1, <2>2
  <1>13. EndsInv'
    <2>1. ASSUME NEW p \in Nodes, NEW o \in Nodes, NEW k \in 1 .. Len(sessions'[p]),
                 NEW j \in 1 .. Len(sessions'[o]),
                 sessions'[p][k].connection = sessions'[o][j].connection,
                 sessions'[p][k].connection # NoConnection,
                 p = o \/ sessions'[p][k].end = sessions'[o][j].end
          PROVE  p = o /\ k = j
      <3>1. CASE sessions'[p][k] = r /\ p = n /\ k = Len(sessions[n]) + 1
        <4>1. CASE sessions'[o][j] = r /\ o = n /\ j = Len(sessions[n]) + 1
          BY <3>1, <4>1
        <4>2. CASE j \in 1 .. Len(sessions[o]) /\ sessions'[o][j] = sessions[o][j]
          BY <1>1, <1>8, <2>1, <3>1, <4>2
        <4> QED
          BY <1>4, <4>1, <4>2
      <3>2. CASE k \in 1 .. Len(sessions[p]) /\ sessions'[p][k] = sessions[p][k]
        <4>1. CASE sessions'[o][j] = r /\ o = n /\ j = Len(sessions[n]) + 1
          BY <1>1, <1>8, <2>1, <3>2, <4>1
        <4>2. CASE j \in 1 .. Len(sessions[o]) /\ sessions'[o][j] = sessions[o][j]
          <5>1. /\ sessions[p][k].connection = sessions[o][j].connection
                /\ sessions[p][k].connection # NoConnection
                /\ p = o \/ sessions[p][k].end = sessions[o][j].end
            BY <2>1, <3>2, <4>2
          <5> QED
            BY <3>2, <4>2, <5>1 DEF ConnectionsInv, EndsInv
        <4> QED
          BY <1>4, <4>1, <4>2
      <3> QED
        BY <1>4, <3>1, <3>2
    <2>2. ASSUME NEW p \in Nodes, NEW o \in Nodes, NEW j \in 1 .. Len(sessions'[p]),
                 NEW k \in 1 .. Len(backlog'[o]), sessions'[p][j].connection = backlog'[o][k][1]
          PROVE  p # o /\ sessions'[p][j].end = "client"
      <3>1. PICK l \in 1 .. Len(backlog[o]) : backlog'[o][k] = backlog[o][l]
        BY <1>6
      <3>2. j \in 1 .. Len(sessions[p]) /\ sessions'[p][j] = sessions[p][j]
        BY <1>1, <1>4, <1>9, <2>2
      <3>3. sessions[p][j].connection = backlog[o][l][1]
        BY <2>2, <3>1, <3>2
      <3>4. p # o /\ sessions[p][j].end = "client"
        BY <3>2, <3>3 DEF ConnectionsInv, EndsInv
      <3> QED
        BY <3>2, <3>4
    <2>3. ASSUME NEW p \in Nodes, NEW o \in Nodes, NEW k \in 1 .. Len(backlog'[p]),
                 NEW j \in 1 .. Len(backlog'[o]), backlog'[p][k][1] = backlog'[o][j][1]
          PROVE  p = o /\ k = j
      <3>1. PICK l \in 1 .. Len(backlog[p]) :
               l = (IF p = n THEN k + 1 ELSE k) /\ backlog'[p][k] = backlog[p][l]
        BY <1>6
      <3>2. PICK h \in 1 .. Len(backlog[o]) :
               h = (IF o = n THEN j + 1 ELSE j) /\ backlog'[o][j] = backlog[o][h]
        BY <1>6
      <3>3. backlog[p][l][1] = backlog[o][h][1]
        BY <2>3, <3>1, <3>2
      <3>4. p = o /\ l = h
        BY <3>3 DEF ConnectionsInv, EndsInv
      <3>5. \A a, b \in Int : a + 1 = b + 1 => a = b
        OBVIOUS
      <3> QED
        BY <3>1, <3>2, <3>4, <3>5
    <2> QED
      BY <2>1, <2>2, <2>3 DEF EndsInv
  <1>14. OpenInv'
    <2>1. ASSUME NEW p \in Nodes, NEW j \in 1 .. Len(sessions'[p]),
                 sessions'[p][j].connection # NoConnection
          PROVE  /\ connections[sessions'[p][j].connection] # NoConnection
                 /\ sessions'[p][j].end \notin connections[sessions'[p][j].connection].closed
      <3>1. CASE sessions'[p][j] = r
        BY <1>1, <1>7, <3>1
      <3>2. CASE sessions'[p][j] = sessions[p][j] /\ j \in 1 .. Len(sessions[p])
        BY <2>1, <3>2 DEF ConnectionsInv, OpenInv
      <3> QED
        BY <1>4, <3>1, <3>2
    <2>2. ASSUME NEW p \in Nodes, NEW k \in 1 .. Len(backlog'[p])
          PROVE  /\ connections[backlog'[p][k][1]] # NoConnection
                 /\ "server" \notin connections[backlog'[p][k][1]].closed
      <3>1. PICK l \in 1 .. Len(backlog[p]) : backlog'[p][k] = backlog[p][l]
        BY <1>6
      <3> QED
        BY <3>1 DEF ConnectionsInv, OpenInv
    <2> QED
      BY <2>1, <2>2 DEF OpenInv
  <1>15. SendersInv'
    <2> SUFFICES ASSUME NEW p \in Nodes, NEW t \in 1 .. Threads, sender[p][t].connection # NoConnection
                 PROVE  /\ sender[p][t].message \in Message
                        /\ \A j \in 1 .. Len(sessions'[p]) :
                              sessions'[p][j].connection = sender[p][t].connection
                                 => sessions'[p][j].end = sender[p][t].end
                        /\ \A k \in 1 .. Len(backlog'[p]) : backlog'[p][k][1] # sender[p][t].connection
                        /\ \/ \E j \in 1 .. Len(sessions'[p]) :
                                 sessions'[p][j].connection = sender[p][t].connection
                           \/ connections[sender[p][t].connection] = NoConnection
                           \/ sender[p][t].end \in connections[sender[p][t].connection].closed
      BY DEF ConnectionsInv, SendersInv
    <2>1. /\ sender[p][t].message \in Message
          /\ \A j \in 1 .. Len(sessions[p]) : sessions[p][j].connection = sender[p][t].connection
                => sessions[p][j].end = sender[p][t].end
          /\ \A k \in 1 .. Len(backlog[p]) : backlog[p][k][1] # sender[p][t].connection
          /\ \/ \E j \in 1 .. Len(sessions[p]) :
                   sessions[p][j].connection = sender[p][t].connection
             \/ connections[sender[p][t].connection] = NoConnection
             \/ sender[p][t].end \in connections[sender[p][t].connection].closed
      BY DEF ConnectionsInv, SendersInv
    <2>2. p = n => sender[p][t].connection # c
      BY <1>0, <1>3, <2>1
    <2>3. \A j \in 1 .. Len(sessions'[p]) : sessions'[p][j].connection = sender[p][t].connection
             => sessions'[p][j].end = sender[p][t].end
      BY <1>1, <1>4, <2>1, <2>2
    <2>4. \A k \in 1 .. Len(backlog'[p]) : backlog'[p][k][1] # sender[p][t].connection
      BY <1>6, <2>1, ZenonT(40)
    <2>5. (\E j \in 1 .. Len(sessions[p]) : sessions[p][j].connection = sender[p][t].connection) =>
             \E j \in 1 .. Len(sessions'[p]) : sessions'[p][j].connection = sender[p][t].connection
      BY <1>5
    <2> QED
      BY <2>1, <2>3, <2>4, <2>5
  <1>16. AloneInv'
    BY DEF ConnectionsInv, AloneInv, Clean
  <1>17. FramesInv'
    <2>1. ASSUME NEW d \in ConnectionIds, NEW f \in Ends, NEW y \in Message \cup {NoMessage},
                 Reads(d, f, y)'
          PROVE  Reads(d, f, y)
      <3>1. ASSUME NEW p \in Nodes, NEW j \in 1 .. Len(sessions'[p]),
                   sessions'[p][j].connection = d, d # NoConnection,
                   sessions'[p][j].end = f, sessions'[p][j].readBufferSize = y
            PROVE  Reads(d, f, y)
        <4>1. CASE sessions'[p][j] = r
          <5>1. f = "server" /\ y = NoMessage /\ backlog[n][1][1] = d
            BY <1>0, <1>1, <3>1, <4>1
          <5> QED
            BY <1>3, <5>1 DEF Reads
        <4>2. CASE sessions'[p][j] = sessions[p][j] /\ j \in 1 .. Len(sessions[p])
          BY <3>1, <4>2 DEF Reads
        <4> QED
          BY <1>4, <4>1, <4>2
      <3>2. ASSUME NEW p \in Nodes, NEW k \in 1 .. Len(backlog'[p]), backlog'[p][k][1] = d,
                   f = "server", y = NoMessage
            PROVE  Reads(d, f, y)
        BY <1>6, <3>2 DEF Reads
      <3> QED
        BY <2>1, <3>1, <3>2 DEF Reads
    <2>2. \A d \in ConnectionIds : connections'[d] = connections[d]
      OBVIOUS
    <2> QED
      BY <2>1, <2>2, SameFrames
  <1> QED
    BY <1>10, <1>11, <1>12, <1>13, <1>14, <1>15, <1>16, <1>17 DEF ConnectionsInv

\* The first connection that waits is refused.
Refuses(n, c) ==
    /\ backlog[n] # <<>> /\ backlog' = [backlog EXCEPT ![n] = Tail(@)]
    /\ c = backlog[n][1][1] /\ connections' = Closed(c, "server")

LEMMA RefusedConnections ==
    ASSUME TypeInv, ConnectionsInv, TypeInv', InfosType', NEW n \in Nodes,
           NEW c \in ConnectionIds, Refuses(n, c), UNCHANGED <<sessions, sender, faults>>
    PROVE  ConnectionsInv'
  <1> DEFINE f == [p \in Nodes |-> [j \in 1 .. Len(sessions'[p]) |-> j]]
             g == [p \in Nodes |-> [k \in 1 .. Len(backlog'[p]) |-> IF p = n THEN k + 1 ELSE k]]
  <1>1. SessionsKept(f)
    BY DEF SessionsKept
  <1>2. /\ Len(backlog[n]) \in Nat /\ 1 \in 1 .. Len(backlog[n])
        /\ Len(backlog'[n]) = Len(backlog[n]) - 1
        /\ \A k \in 1 .. Len(backlog'[n]) : backlog'[n][k] = backlog[n][k + 1]
        /\ \A p \in Nodes : p # n => backlog'[p] = backlog[p]
    BY BacklogTaken DEF Refuses
  <1>3. ASSUME NEW p \in Nodes, NEW k \in 1 .. Len(backlog'[p])
        PROVE  /\ g[p][k] \in 1 .. Len(backlog[p]) /\ backlog'[p][k] = backlog[p][g[p][k]]
               /\ g[p][k] = IF p = n THEN k + 1 ELSE k
    <2>1. g[p][k] = IF p = n THEN k + 1 ELSE k
      OBVIOUS
    <2> HIDE DEF g
    <2>2. CASE p = n
      <3>1. k + 1 \in 1 .. Len(backlog[n])
        BY <1>2, <2>2
      <3> QED
        BY <1>2, <2>1, <2>2, <3>1
    <2>3. CASE p # n
      BY <1>2, <2>1, <2>3
    <2> QED
      BY <2>1, <2>2, <2>3
  <1>4. BacklogKept(g)
    <2> HIDE DEF g
    <2>1. ASSUME NEW p \in Nodes, NEW k \in 1 .. Len(backlog'[p]), NEW l \in 1 .. Len(backlog'[p]),
                 k # l
          PROVE  g[p][k] # g[p][l]
      <3>1. /\ g[p][k] = (IF p = n THEN k + 1 ELSE k)
            /\ g[p][l] = (IF p = n THEN l + 1 ELSE l)
        BY <1>3
      <3> QED
        BY <2>1, <3>1
    <2> QED
      BY <1>3, <2>1 DEF BacklogKept
  <1> HIDE DEF f, g
  <1>5. /\ c = backlog[n][1][1] /\ connections' = Closed(c, "server") /\ "server" \in Ends
        /\ connections[c] # NoConnection
    BY <1>2 DEF Refuses, Ends, ConnectionsInv, OpenInv
  <1>6. /\ \A d \in ConnectionIds : d # c => connections'[d] = connections[d]
        /\ connections'[c] = NoConnection =>
              \A x \in Ends : x = "server" \/ x \in connections[c].closed
        /\ connections'[c] # NoConnection =>
              /\ connections'[c].closed = connections[c].closed \cup {"server"}
              /\ connections'[c].toRead = connections[c].toRead
    BY <1>5, ConnectionClosed
  <1>7. ConnectionsKept
    BY <1>5, <1>6 DEF ConnectionsKept
  <1>8. ASSUME NEW d \in ConnectionIds, NEW x \in Ends, d # c \/ x # "server",
               connections[d] # NoConnection, x \notin connections[d].closed
        PROVE  connections'[d] # NoConnection /\ x \notin connections'[d].closed
    BY <1>5, <1>6, <1>8
  <1>9. OpenInv'
    <2>1. ASSUME NEW p \in Nodes, NEW j \in 1 .. Len(sessions[p]),
                 sessions[p][j].connection # NoConnection
          PROVE  /\ connections'[sessions[p][j].connection] # NoConnection
                 /\ sessions[p][j].end \notin connections'[sessions[p][j].connection].closed
      <3>1. sessions[p][j].connection # c \/ sessions[p][j].end # "server"
        BY <1>2, <1>5, EndHeldOnce
      <3>2. /\ sessions[p][j].connection \in ConnectionIds /\ sessions[p][j].end \in Ends
            /\ connections[sessions[p][j].connection] # NoConnection
            /\ sessions[p][j].end \notin connections[sessions[p][j].connection].closed
        BY <2>1, SessionFields DEF ConnectionsInv, OpenInv
      <3> QED
        BY <1>8, <3>1, <3>2
    <2>2. ASSUME NEW p \in Nodes, NEW k \in 1 .. Len(backlog'[p])
          PROVE  /\ connections'[backlog'[p][k][1]] # NoConnection
                 /\ "server" \notin connections'[backlog'[p][k][1]].closed
      <3>1. PICK l \in 1 .. Len(backlog[p]) :
               l = (IF p = n THEN k + 1 ELSE k) /\ backlog'[p][k] = backlog[p][l]
        BY <1>3
      <3>2. backlog[p][l][1] # c
        <4> SUFFICES ASSUME backlog[p][l][1] = backlog[n][1][1] PROVE FALSE
          BY <1>5
        <4>1. p = n /\ l = 1
          BY <1>2, EndHeldOnce
        <4> QED
          BY <3>1, <4>1
      <3>3. /\ backlog[p][l][1] \in ConnectionIds /\ connections[backlog[p][l][1]] # NoConnection
            /\ "server" \notin connections[backlog[p][l][1]].closed
        BY BacklogFields DEF ConnectionsInv, OpenInv
      <3> QED
        BY <1>5, <1>8, <3>1, <3>2, <3>3
    <2> QED
      BY <2>1, <2>2 DEF OpenInv
  <1>10. StatesInv'
    BY DEF ConnectionsInv, StatesInv
  <1>11. SendersKept
    <2> SUFFICES ASSUME NEW p \in Nodes, NEW t \in 1 .. Threads,
                        sender[p][t].connection # NoConnection
                 PROVE  \/ \E j \in 1 .. Len(sessions[p]) :
                              sessions[p][j].connection = sender[p][t].connection
                        \/ connections'[sender[p][t].connection] = NoConnection
                        \/ sender[p][t].end \in connections'[sender[p][t].connection].closed
      BY DEF SendersKept
    <2>1. sender[p][t].connection \in ConnectionIds
      BY SenderFields
    <2> QED
      BY <1>7, <2>1 DEF ConnectionsKept, ConnectionsInv, SendersInv
  <1>12. Clean' => faults' = faults
    OBVIOUS
  <1>13. /\ OneSessionPerPeer' /\ EndsInv' /\ SendersInv' /\ AloneInv' /\ FramesInv'
         /\ \A p \in Nodes :
               /\ \A j \in 1 .. Len(sessions'[p]) : sessions'[p][j].peer # p
               /\ \A k \in 1 .. Len(backlog'[p]) : backlog'[p][k][2] # p
    BY <1>1, <1>4, <1>7, <1>9, <1>10, <1>11, <1>12, Reduced
  <1> QED
    BY <1>9, <1>10, <1>13 DEF ConnectionsInv, OthersInv, InfosType, InfosInv

LEMMA AcceptConnections ==
    ASSUME TypeInv, ConnectionsInv, NEW n \in Nodes, Accept(n)
    PROVE  ConnectionsInv'
  <1>1. TypeInv' /\ InfosType' /\ UNCHANGED <<sender, faults>>
    BY AcceptType DEF Accept, dataVars
  <1>2. backlog[n] # <<>> /\ backlog' = [backlog EXCEPT ![n] = Tail(@)]
    BY DEF Accept
  <1>3. Head(backlog[n]) = backlog[n][1] /\ 1 \in 1 .. Len(backlog[n])
    BY <1>2, BacklogTaken
  <1>4. PICK c, m : c = Head(backlog[n])[1] /\ m = Head(backlog[n])[2]
    OBVIOUS
  <1>5. /\ c \in ConnectionIds /\ m \in Nodes /\ c = backlog[n][1][1] /\ m = backlog[n][1][2]
    BY <1>3, <1>4, BacklogFields
  <1>6. CASE SessionsTo(n, m) = {}
    <2>1. /\ sessions' = [sessions EXCEPT ![n] = Append(@, ServerSession(m, c))]
          /\ UNCHANGED connections
      BY <1>4, <1>6 DEF Accept
    <2>2. Accepts(n, c, m)
      BY <1>2, <1>5, <1>6, <2>1 DEF Accepts
    <2> QED
      BY <1>1, <1>5, <2>1, <2>2, AcceptedConnections
  <1>7. CASE SessionsTo(n, m) # {}
    <2>1. connections' = Closed(c, "server") /\ UNCHANGED sessions
      BY <1>4, <1>7 DEF Accept, sessionVars
    <2>2. Refuses(n, c)
      BY <1>2, <1>5, <2>1 DEF Refuses
    <2> QED
      BY <1>1, <1>5, <2>1, <2>2, RefusedConnections
  <1> QED
    BY <1>6, <1>7

\* A gateway crashes, and all its ends are closed.
LEMMA CrashKeepsConnections ==
    ASSUME TypeInv, ConnectionsInv, NEW n \in Nodes, Crash(n)
    PROVE  ConnectionsInv'
  <1> DEFINE f == [p \in Nodes |-> [j \in 1 .. Len(sessions'[p]) |-> j]]
             g == [p \in Nodes |-> [k \in 1 .. Len(backlog'[p]) |-> k]]
  <1>1. TypeInv' /\ InfosType' /\ UNCHANGED faults
    BY CrashType DEF Crash
  <1>2. /\ Len(sessions'[n]) = 0 /\ \A p \in Nodes : p # n => sessions'[p] = sessions[p]
    <2>1. sessions' = [sessions EXCEPT ![n] = <<>>] /\ sessions \in [Nodes -> Seq(Session)]
      BY DEF Crash, TypeInv
    <2>2. sessions'[n] = <<>> /\ \A p \in Nodes : p # n => sessions'[p] = sessions[p]
      BY <2>1
    <2> QED
      BY <2>2
  <1>3. /\ Len(backlog'[n]) = 0 /\ \A p \in Nodes : p # n => backlog'[p] = backlog[p]
    <2>1. backlog' = [backlog EXCEPT ![n] = <<>>] /\ DOMAIN backlog = Nodes
      BY DEF Crash, TypeInv
    <2>2. backlog'[n] = <<>> /\ \A p \in Nodes : p # n => backlog'[p] = backlog[p]
      BY <2>1
    <2> QED
      BY <2>2
  <1>4. /\ \A t \in 1 .. Threads : sender'[n][t] = IdleSender
        /\ \A p \in Nodes : p # n => sender'[p] = sender[p]
    <2> DEFINE none == [t \in 1 .. Threads |-> IdleSender]
    <2>1. sender' = [sender EXCEPT ![n] = none] /\ DOMAIN sender = Nodes
      BY DEF Crash, TypeInv
    <2>2. \A t \in 1 .. Threads : none[t] = IdleSender
      OBVIOUS
    <2> HIDE DEF none, IdleSender
    <2> QED
      BY <2>1, <2>2
  <1>5. ASSUME NEW p \in Nodes, NEW j \in 1 .. Len(sessions'[p])
        PROVE  p # n /\ sessions'[p] = sessions[p] /\ j \in 1 .. Len(sessions[p])
    BY <1>2
  <1>6. ASSUME NEW p \in Nodes, NEW k \in 1 .. Len(backlog'[p])
        PROVE  p # n /\ backlog'[p] = backlog[p] /\ k \in 1 .. Len(backlog[p])
    BY <1>3
  <1>7. SessionsKept(f)
    <2>1. \A p \in Nodes : \A j \in 1 .. Len(sessions'[p]) : f[p][j] = j
      OBVIOUS
    <2> HIDE DEF f
    <2> QED
      BY <1>5, <2>1 DEF SessionsKept
  <1>8. BacklogKept(g)
    <2>1. \A p \in Nodes : \A k \in 1 .. Len(backlog'[p]) : g[p][k] = k
      OBVIOUS
    <2> HIDE DEF g
    <2> QED
      BY <1>6, <2>1 DEF BacklogKept
  <1> HIDE DEF f, g
  <1>9. \A c \in ConnectionIds :
           /\ connections[c] = NoConnection => connections'[c] = NoConnection
           /\ connections[c] # NoConnection /\ connections'[c] = NoConnection =>
                 \A e \in Ends : e \in connections[c].closed \/ <<c, e>> \in EndsOf(n)
           /\ connections'[c] # NoConnection =>
                 /\ connections'[c].closed =
                       connections[c].closed \cup {e \in Ends : <<c, e>> \in EndsOf(n)}
                 /\ connections'[c].toRead = connections[c].toRead
    BY CrashConnections
  <1>10. ConnectionsKept
    BY <1>9 DEF ConnectionsKept
  <1>11. ASSUME NEW d \in ConnectionIds, NEW x \in Ends, <<d, x>> \notin EndsOf(n),
                connections[d] # NoConnection, x \notin connections[d].closed
         PROVE  connections'[d] # NoConnection /\ x \notin connections'[d].closed
    BY <1>9, <1>11
  <1>12. ASSUME NEW d \in ConnectionIds, NEW x \in Ends, <<d, x>> \in EndsOf(n)
         PROVE  \/ \E i \in 1 .. Len(sessions[n]) :
                      sessions[n][i].connection = d /\ sessions[n][i].end = x
                \/ x = "server" /\ \E k \in 1 .. Len(backlog[n]) : backlog[n][k][1] = d
    <2>1. DOMAIN sessions[n] = 1 .. Len(sessions[n]) /\ DOMAIN backlog[n] = 1 .. Len(backlog[n])
      BY DEF TypeInv
    <2>2. CASE \E i \in DOMAIN sessions[n] :
                  <<d, x>> = <<sessions[n][i].connection, sessions[n][i].end>>
      BY <2>1, <2>2
    <2>3. CASE \E entry \in ToSet(backlog[n]) : <<d, x>> = <<entry[1], "server">>
      BY <2>1, <2>3 DEF ToSet
    <2> QED
      BY <1>12, <2>2, <2>3 DEF EndsOf
  <1>13. OpenInv'
    <2>1. ASSUME NEW p \in Nodes, NEW j \in 1 .. Len(sessions'[p]),
                 sessions'[p][j].connection # NoConnection
          PROVE  /\ connections'[sessions'[p][j].connection] # NoConnection
                 /\ sessions'[p][j].end \notin connections'[sessions'[p][j].connection].closed
      <3>1. p # n /\ sessions'[p][j] = sessions[p][j] /\ j \in 1 .. Len(sessions[p])
        BY <1>5
      <3>2. PICK d, x : d = sessions[p][j].connection /\ x = sessions[p][j].end
        OBVIOUS
      <3>3. /\ d \in ConnectionIds /\ x \in Ends /\ d # NoConnection
            /\ connections[d] # NoConnection /\ x \notin connections[d].closed
        BY <2>1, <3>1, <3>2, SessionFields DEF ConnectionsInv, OpenInv
      <3>4. <<d, x>> \notin EndsOf(n)
        <4>1. ASSUME NEW i \in 1 .. Len(sessions[n])
              PROVE  ~(sessions[n][i].connection = d /\ sessions[n][i].end = x)
          BY <3>1, <3>2, <3>3, EndHeldOnce
        <4>2. ASSUME NEW k \in 1 .. Len(backlog[n])
              PROVE  ~(x = "server" /\ backlog[n][k][1] = d)
          BY <3>1, <3>2, EndHeldOnce
        <4> QED
          BY <1>12, <3>3, <4>1, <4>2
      <3> QED
        BY <1>11, <3>1, <3>2, <3>3, <3>4
    <2>2. ASSUME NEW p \in Nodes, NEW k \in 1 .. Len(backlog'[p])
          PROVE  /\ connections'[backlog'[p][k][1]] # NoConnection
                 /\ "server" \notin connections'[backlog'[p][k][1]].closed
      <3>1. p # n /\ backlog'[p][k] = backlog[p][k] /\ k \in 1 .. Len(backlog[p])
        BY <1>6
      <3>2. PICK d : d = backlog[p][k][1]
        OBVIOUS
      <3>3. /\ d \in ConnectionIds /\ "server" \in Ends
            /\ connections[d] # NoConnection /\ "server" \notin connections[d].closed
        BY <3>1, <3>2, BacklogFields DEF ConnectionsInv, OpenInv, Ends
      <3>4. <<d, "server">> \notin EndsOf(n)
        <4>1. ASSUME NEW i \in 1 .. Len(sessions[n])
              PROVE  ~(sessions[n][i].connection = d /\ sessions[n][i].end = "server")
          BY <3>1, <3>2, EndHeldOnce
        <4>2. ASSUME NEW i \in 1 .. Len(backlog[n]) PROVE backlog[n][i][1] # d
          BY <3>1, <3>2, EndHeldOnce
        <4> QED
          BY <1>12, <3>3, <4>1, <4>2
      <3> QED
        BY <1>11, <3>1, <3>2, <3>3, <3>4
    <2> QED
      BY <2>1, <2>2 DEF OpenInv
  <1>14. StatesInv'
    <2> SUFFICES ASSUME NEW p \in Nodes, NEW j \in 1 .. Len(sessions'[p])
                 PROVE  LET s == sessions'[p][j]
                        IN  /\ s.connection = NoConnection <=> s.state \in {"connecting", "waiting"}
                            /\ s.connection = NoConnection =>
                                  s.readBufferSize = NoMessage /\ s.end = "client"
      BY DEF StatesInv
    <2>1. sessions'[p][j] = sessions[p][j] /\ j \in 1 .. Len(sessions[p])
      BY <1>5
    <2> QED
      BY <2>1 DEF ConnectionsInv, StatesInv
  <1>15. SendersKept
    <2> SUFFICES ASSUME NEW p \in Nodes, NEW t \in 1 .. Threads,
                        sender[p][t].connection # NoConnection
                 PROVE  \/ /\ sender'[p][t] = sender[p][t]
                           /\ \E j \in 1 .. Len(sessions'[p]) :
                                 sessions'[p][j].connection = sender[p][t].connection
                        \/ connections'[sender[p][t].connection] = NoConnection
                        \/ sender[p][t].end \in connections'[sender[p][t].connection].closed
      BY <1>4 DEF SendersKept
    <2>1. sender[p][t].connection \in ConnectionIds /\ sender[p][t].end \in Ends
      BY SenderFields
    <2>2. CASE \/ connections[sender[p][t].connection] = NoConnection
               \/ sender[p][t].end \in connections[sender[p][t].connection].closed
      BY <1>10, <2>1, <2>2 DEF ConnectionsKept
    <2>3. ASSUME NEW i \in 1 .. Len(sessions[p]), sessions[p][i].connection = sender[p][t].connection,
                 p = n
          PROVE  \/ connections'[sender[p][t].connection] = NoConnection
                 \/ sender[p][t].end \in connections'[sender[p][t].connection].closed
      <3>1. sessions[n][i].end = sender[n][t].end
        BY <2>3 DEF ConnectionsInv, SendersInv
      <3>2. <<sender[n][t].connection, sender[n][t].end>> \in EndsOf(n)
        <4>1. i \in DOMAIN sessions[n]
          BY <2>3 DEF TypeInv
        <4> QED
          BY <2>3, <3>1, <4>1 DEF EndsOf
      <3> QED
        BY <1>9, <2>1, <2>3, <3>2
    <2>4. CASE p # n
      BY <1>2, <1>4, <2>2, <2>4 DEF ConnectionsInv, SendersInv
    <2> QED
      BY <2>2, <2>3, <2>4 DEF ConnectionsInv, SendersInv
  <1>16. Clean' => faults' = faults
    BY <1>1
  <1>17. /\ OneSessionPerPeer' /\ EndsInv' /\ SendersInv' /\ AloneInv' /\ FramesInv'
         /\ \A p \in Nodes :
               /\ \A j \in 1 .. Len(sessions'[p]) : sessions'[p][j].peer # p
               /\ \A k \in 1 .. Len(backlog'[p]) : backlog'[p][k][2] # p
    BY <1>1, <1>7, <1>8, <1>10, <1>13, <1>14, <1>15, <1>16, Reduced
  <1> QED
    BY <1>1, <1>13, <1>14, <1>17 DEF ConnectionsInv, OthersInv, InfosType, InfosInv

-----------------------------------------------------------------------------
(***************************************************************************)
(* The theorems.                                                           *)
(***************************************************************************)

TcpInv == TypeInv /\ ConnectionsInv

\* The first states, whichever gateways run.
LEMMA InitTcpInv ==
    ASSUME NEW running \in SUBSET Nodes, InitWith(running)
    PROVE  TcpInv
  <1>1. /\ devices = [n \in Nodes |-> <<>>] /\ deaf = {} /\ up = running
        /\ life = [n \in Nodes |-> 1] /\ deafAcceptor = {}
        /\ sessions = [n \in Nodes |-> <<>>] /\ infoToReport = [n \in Nodes |-> <<>>]
        /\ told = [n \in Nodes |-> [h \in GatewayHashes |-> NoIndex]]
        /\ connections = [c \in ConnectionIds |-> NoConnection]
        /\ backlog = [n \in Nodes |-> <<>>]
        /\ sender = [n \in Nodes |-> [t \in 1 .. Threads |-> IdleSender]]
        /\ sent = [l \in Links |-> 0] /\ received = [l \in Links |-> 0]
        /\ failures = 0 /\ faults = {}
    BY DEF InitWith, InitBroadcast
  <1>2. \A n \in Nodes : Len(sessions[n]) = 0 /\ Len(backlog[n]) = 0 /\ Len(infoToReport[n]) = 0
    BY <1>1
  <1>3. TypeInv
    <2>1. devices \in [Nodes -> Seq(Nodes)] /\ sessions \in [Nodes -> Seq(Session)]
          /\ infoToReport \in [Nodes -> Seq(GatewayHashes)]
      BY <1>1
    <2>2. backlog \in [Nodes -> Seq(ConnectionIds \X Nodes)]
      <3> DEFINE B == ConnectionIds \X Nodes
      <3> HIDE DEF B
      <3>1. backlog \in [Nodes -> Seq(B)]
        BY <1>1
      <3> QED
        BY <3>1 DEF B
    <2>3. told \in [Nodes -> [GatewayHashes -> Nat]]
      BY <1>1 DEF NoIndex
    <2>4. sender \in [Nodes -> [1 .. Threads -> SenderType]]
      <3>1. IdleSender \in SenderType
        BY DEF IdleSender, SenderType, Ends
      <3> HIDE DEF IdleSender
      <3> QED
        BY <1>1, <3>1
    <2>5. /\ life \in [Nodes -> 1 .. MaxLives] /\ failures \in 0 .. MaxFailures
          /\ sent \in [Links -> 0 .. MaxMessages] /\ received \in [Links -> 0 .. MaxMessages]
      BY <1>1, TcpAssumption
    <2>6. connections \in [ConnectionIds -> Connection \cup {NoConnection}]
      BY <1>1
    <2> QED
      BY <1>1, <2>1, <2>2, <2>3, <2>4, <2>5, <2>6 DEF TypeInv
  <1>4. \A n \in Nodes, t \in 1 .. Threads :
           sender[n][t] = IdleSender /\ sender[n][t].connection = NoConnection
    BY <1>1, IdleFields
  <1>5. StatesInv /\ EndsInv /\ OpenInv
    BY <1>2 DEF StatesInv, EndsInv, OpenInv
  <1>6. OneSessionPerPeer
    BY <1>1 DEF OneSessionPerPeer
  <1>7. OthersInv
    <2>1. \A n \in Nodes, h \in GatewayHashes : told[n][h] = NoIndex
      BY <1>1
    <2> QED
      BY <1>2, <2>1 DEF OthersInv
  <1>8. SendersInv /\ AloneInv
    BY <1>4 DEF SendersInv, AloneInv
  <1>9. FramesInv
    BY <1>1, <1>2 DEF FramesInv
  <1> QED
    BY <1>3, <1>5, <1>6, <1>7, <1>8, <1>9 DEF TcpInv, ConnectionsInv

LEMMA NextTcpInv == TcpInv /\ [Next]_vars => TcpInv'
  <1> SUFFICES ASSUME TypeInv, ConnectionsInv, [Next]_vars PROVE TypeInv' /\ ConnectionsInv'
    BY DEF TcpInv
  <1>1. ASSUME NEW n \in Nodes, NEW m \in Nodes, UdpDiscoveryCallback(n, m)
        PROVE  TypeInv' /\ ConnectionsInv'
    BY <1>1, UdpDiscoveryCallbackType, UdpDiscoveryCallbackConnections
  <1>2. ASSUME NEW n \in Nodes, NEW i \in DOMAIN sessions[n], SessionStep(n, i)
        PROVE  TypeInv' /\ ConnectionsInv'
    <2>1. i \in 1 .. Len(sessions[n])
      BY DEF TypeInv
    <2>2. CASE Connected(n, i)
      BY <2>1, <2>2, ConnectedType, ConnectedConnections
    <2>3. CASE \/ ConnectionFailed(n, i) \/ Retry(n, i) \/ ReadSize(n, i)
               \/ ReadBytes(n, i) \/ ReadGarbled(n, i) \/ ReadError(n, i)
      BY <2>1, <2>3, SessionStepType, SessionStepConnections
    <2> QED
      BY <1>2, <2>2, <2>3 DEF SessionStep
  <1>3. ASSUME NEW n \in Nodes, Accept(n)
        PROVE  TypeInv' /\ ConnectionsInv'
    BY <1>3, AcceptType, AcceptConnections
  <1>4. ASSUME NEW n \in Nodes, AcceptError(n) \/ BroadcastError(n) \/ Restart(n)
        PROVE  TypeInv' /\ ConnectionsInv'
    <2>1. /\ TypeInv' /\ InfosType'
          /\ UNCHANGED <<sessions, infoToReport, told, connections, backlog, sender, faults>>
      BY <1>4, OtherStepsType
    <2> QED
      BY <2>1, QuietConnections
  <1>5. ASSUME NEW n \in Nodes, NEW t \in 1 .. Threads, SendBytes(n, t)
        PROVE  TypeInv' /\ ConnectionsInv'
    BY <1>5, SendBytesType, SendBytesConnections
  <1>6. ASSUME NEW n \in Nodes, NEW t \in 1 .. Threads, NEW h \in GatewayHashes, SendSize(n, t, h)
        PROVE  TypeInv' /\ ConnectionsInv'
    BY <1>6, SendSizeType, SendSizeConnections
  <1>7. ASSUME NEW n \in Nodes, Crash(n)
        PROVE  TypeInv' /\ ConnectionsInv'
    BY <1>7, CrashType, CrashKeepsConnections
  <1>8. CASE UNCHANGED vars
    <2>1. UNCHANGED <<devices, deaf, up, life, deafAcceptor, sessions, infoToReport, told,
                      connections, backlog, sender, sent, received, failures, faults>>
      BY <1>8 DEF vars, nodeVars, broadcastVars, sessionVars, networkVars, dataVars
    <2>2. TypeInv'
      BY <2>1 DEF TypeInv
    <2>3. InfosType'
      BY <2>1, InfosKept
    <2> QED
      BY <2>1, <2>2, <2>3, QuietConnections
  <1> QED
    BY <1>1, <1>2, <1>3, <1>4, <1>5, <1>6, <1>7, <1>8 DEF Next

LEMMA TcpInvHolds == Spec => []TcpInv
  <1>1. Init => TcpInv
    BY InitTcpInv DEF Init
  <1> QED
    BY <1>1, NextTcpInv, PTL DEF Spec

\* SessionsAreUnique: broadcasts and connections that arrive at the same time
\* never give a device two sessions (udpDiscoveryCallback and startAccept of
\* TCPTransport look for one first), whatever fails, crashes or is retried.
THEOREM SessionsAreUnique == Spec => []OneSessionPerPeer
  <1>1. TcpInv => OneSessionPerPeer
    BY DEF TcpInv, ConnectionsInv
  <1> QED
    BY <1>1, TcpInvHolds, PTL

\* FramesStayIntact: readOuter and readInner stay in step with the sizes and
\* bytes that sendData writes, unless two threads have written to one session
\* at a time or one has written to a session that was erased.
THEOREM FramesStayIntact == Spec => []FramesIntact
  <1>1. TcpInv => FramesIntact
    BY DEF TcpInv, ConnectionsInv, FramesInv, FramesIntact, Clean
  <1> QED
    BY <1>1, TcpInvHolds, PTL

\* TypeCorrectness: every variable keeps its type.
THEOREM TypeCorrectness == Spec => []TypeOK
  <1>1. TcpInv => TypeOK
    <2> SUFFICES ASSUME TypeInv, SendersInv PROVE TypeOK
      BY DEF TcpInv, ConnectionsInv
    <2>1. ASSUME NEW n \in Nodes, NEW t \in 1 .. Threads, sender[n][t] # IdleSender
          PROVE  sender[n][t] \in [connection : ConnectionIds, end : Ends, message : Message]
      <3>a. sender \in [Nodes -> [1 .. Threads -> SenderType]]
        BY Zenon DEF TypeInv
      <3>1. sender[n][t] \in SenderType
        BY <3>a
      <3>2. sender[n][t].connection # NoConnection /\ sender[n][t].message \in Message
        BY <2>1 DEF SendersInv
      <3> QED
        BY <3>1, <3>2 DEF SenderType
    <2> QED
      BY <2>1 DEF TypeInv, TypeOK
  <1> QED
    BY <1>1, TcpInvHolds, PTL

\* SessionsInCapacity: emplace_back on m_transportSessions always has room.
SessionsInCapacity == \A n \in Nodes : Len(sessions[n]) <= MAX_DEVICE_COUNT

\* SessionsFit: because sessions are unique and no gateway has one with itself,
\* there are never more of them than m_transportSessions, a vector of
\* MAX_DEVICE_COUNT places that is not asked whether it is full, has room for.
THEOREM SessionsFit == Spec => []SessionsInCapacity
  <1>1. TcpInv => SessionsInCapacity
    <2> SUFFICES ASSUME TypeInv, OthersInv, OneSessionPerPeer, NEW n \in Nodes
                 PROVE  Len(sessions[n]) <= MAX_DEVICE_COUNT
      BY DEF TcpInv, ConnectionsInv, SessionsInCapacity
    <2> DEFINE S == 1 .. Len(sessions[n])
               T == Nodes \ {n}
               f == [i \in S |-> sessions[n][i].peer]
    <2>1. Len(sessions[n]) \in Nat /\ DOMAIN sessions[n] = S
      BY DEF TypeInv
    <2>2. \A i \in S : sessions[n][i].peer \in T
      BY SessionFields DEF OthersInv
    <2>3. \A i, j \in S : i # j => sessions[n][i].peer # sessions[n][j].peer
      BY <2>1 DEF OneSessionPerPeer
    <2>4. f \in Injection(S, T)
      BY <2>2, <2>3 DEF Injection, IsInjective
    <2>5. IsFiniteSet(T) /\ Cardinality(T) = Cardinality(Nodes) - 1
      BY TcpAssumption, FS_RemoveElement
    <2> HIDE DEF f, S
    <2>6. Cardinality(S) <= Cardinality(T)
      <3> HIDE DEF T
      <3> QED
        BY <2>4, <2>5, FS_Injection
    <2>7. Cardinality(S) = Len(sessions[n])
      BY <2>1, FS_Interval DEF S
    <2>8. Cardinality(Nodes) \in Nat
      BY TcpAssumption, FS_CardinalityType
    <2> QED
      BY <2>1, <2>5, <2>6, <2>7, <2>8, TcpAssumption
  <1> QED
    BY <1>1, TcpInvHolds, PTL

-----------------------------------------------------------------------------
(***************************************************************************)
(* The order of messages between two devices, and that TcpTransport        *)
(* implements OrderedLink.  What a device has still to read is in its      *)
(* session and in the connections that wait to be accepted: the invariant  *)
(* is that read in this order, the numbers of the messages grow.  However  *)
(* much fails, only one thing breaks it: that a connection is accepted     *)
(* whose client has closed it while it waited.  (When both devices connect *)
(* at the same time, newer messages may already have come with the other   *)
(* connection.)                                                            *)
(***************************************************************************)

\* A network of two devices at most.
TwoDevices == \A n, m, p \in Nodes : n = m \/ m = p \/ p = n

\* Each has one session at most.
HasConnection(n) == Len(sessions[n]) = 1 /\ sessions[n][1].connection # NoConnection

\* The message that m has begun to read.
ReadBuffer(m) == IF Len(sessions[m]) = 1 THEN sessions[m][1].readBufferSize ELSE NoMessage

\* What m has still to read, in the order in which it would: from its session
\* (place 0), then from the connections that wait to be accepted.
Stream(m, k) ==
    IF k > 0 THEN connections[backlog[m][k][1]].toRead["server"]
    ELSE IF HasConnection(m)
         THEN connections[sessions[m][1].connection].toRead[sessions[m][1].end]
         ELSE <<>>

SizeAt(m, k, j) == j \in 1 .. Len(Stream(m, k)) /\ Stream(m, k)[j][1] = "size"
MessageAt(m, k, j) == Stream(m, k)[j][2]

\* The client has not closed the connection that waits at place k.
Alive(m, k) == "client" \notin connections[backlog[m][k][1]].closed

\* The places from which m may still read a message, if it never gets a session
\* from a connection that its client has closed.
Places(m) == {k \in 0 .. Len(backlog[m]) : k = 0 \/ Alive(m, k)}

\* AcceptsAlive: startAccept makes no session for a connection that its client
\* has closed while it waited.  (It may refuse one.)
AcceptsAlive ==
    \A n \in Nodes : Accept(n) /\ sessions' # sessions => Alive(n, 1)

\* NumbersInv: what m reads comes from n; a message that m has begun to read is
\* newer than those it has handed up.
NumbersInv(n, m) ==
    /\ received[<<n, m>>] <= sent[<<n, m>>]
    /\ \A k \in 0 .. Len(backlog[m]) : \A j \in Nat : SizeAt(m, k, j) =>
          MessageAt(m, k, j).from = n /\ MessageAt(m, k, j).number <= sent[<<n, m>>]
    /\ ReadBuffer(m) # NoMessage =>
          /\ ReadBuffer(m).from = n /\ ReadBuffer(m).number <= sent[<<n, m>>]
          /\ received[<<n, m>>] < ReadBuffer(m).number

\* Earlier(k, i, l, j): what is at index i of place k comes before what is at j of l.
Earlier(k, i, l, j) == k < l \/ (k = l /\ i < j)

\* SortedInv: m would read the messages in the order of their numbers ...
SortedInv(n, m) ==
    \A k, l \in Places(m) : \A i, j \in Nat :
        SizeAt(m, k, i) /\ SizeAt(m, l, j) /\ Earlier(k, i, l, j) =>
           MessageAt(m, k, i).number < MessageAt(m, l, j).number

\* UnreadInv: ... and none of them is older than what it has read.
UnreadInv(n, m) ==
    \A k \in Places(m) : \A j \in Nat : SizeAt(m, k, j) =>
        /\ received[<<n, m>>] < MessageAt(m, k, j).number
        /\ ReadBuffer(m) # NoMessage => ReadBuffer(m).number < MessageAt(m, k, j).number

\* AliveInv: of the connections that wait at m, only the one that n has a
\* session for is not closed by n.  So one of them at most is alive.
AliveInv(n, m) ==
    \A k \in 1 .. Len(backlog[m]) : Alive(m, k) =>
        HasConnection(n) /\ sessions[n][1].connection = backlog[m][k][1]

LinkInv(n, m) == NumbersInv(n, m) /\ SortedInv(n, m) /\ UnreadInv(n, m)

OrderInv == \A n, m \in Nodes : n # m => LinkInv(n, m) /\ AliveInv(n, m)

-----------------------------------------------------------------------------
\* Sessions of two devices.
LEMMA TwoSessions ==
    ASSUME TwoDevices, TypeInv, ConnectionsInv, NEW n \in Nodes
    PROVE  /\ Len(sessions[n]) = 0 \/ Len(sessions[n]) = 1
           /\ \A m \in Nodes : m # n => SessionsTo(n, m) = 1 .. Len(sessions[n])
           /\ \A m \in Nodes : m # n => \A k \in 1 .. Len(backlog[n]) : backlog[n][k][2] = m
  <1>1. Len(sessions[n]) \in Nat /\ DOMAIN sessions[n] = 1 .. Len(sessions[n])
    BY DEF TypeInv
  <1>2. \A i \in 1 .. Len(sessions[n]) : sessions[n][i].peer \in Nodes /\ sessions[n][i].peer # n
    BY SessionFields DEF ConnectionsInv, OthersInv
  <1>3. \A m \in Nodes : m # n => \A i \in 1 .. Len(sessions[n]) : sessions[n][i].peer = m
    BY <1>2 DEF TwoDevices
  <1>4. ASSUME Len(sessions[n]) # 0, Len(sessions[n]) # 1 PROVE FALSE
    <2>1. 1 \in 1 .. Len(sessions[n]) /\ 2 \in 1 .. Len(sessions[n])
      <3>1. \A x \in Nat : x # 0 /\ x # 1 => 1 \in 1 .. x /\ 2 \in 1 .. x
        OBVIOUS
      <3> QED
        BY <1>1, <1>4, <3>1
    <2>2. sessions[n][1].peer # sessions[n][2].peer
      BY <1>1, <2>1 DEF ConnectionsInv, OneSessionPerPeer
    <2> QED
      BY <1>2, <2>1, <2>2 DEF TwoDevices
  <1>5. \A m \in Nodes : m # n => SessionsTo(n, m) = 1 .. Len(sessions[n])
    BY <1>3 DEF SessionsTo
  <1>6. \A m \in Nodes : m # n => \A k \in 1 .. Len(backlog[n]) : backlog[n][k][2] = m
    BY BacklogFields DEF TwoDevices, ConnectionsInv, OthersInv
  <1> QED
    BY <1>4, <1>5, <1>6

\* The end that a session holds is open.
LEMMA ConnectionHeld ==
    ASSUME TypeInv, ConnectionsInv, NEW n \in Nodes, HasConnection(n)
    PROVE  /\ 1 \in 1 .. Len(sessions[n])
           /\ sessions[n][1].connection \in ConnectionIds /\ sessions[n][1].end \in Ends
           /\ connections[sessions[n][1].connection] # NoConnection
           /\ sessions[n][1].end \notin connections[sessions[n][1].connection].closed
  <1>1. 1 \in 1 .. Len(sessions[n])
    BY DEF HasConnection
  <1> QED
    BY <1>1, SessionFields DEF HasConnection, ConnectionsInv, OpenInv

\* The streams, before and after a step.
LEMMA StreamCases ==
    ASSUME NEW m
    PROVE  /\ HasConnection(m) =>
                 Stream(m, 0) = connections[sessions[m][1].connection].toRead[sessions[m][1].end]
           /\ ~HasConnection(m) => Stream(m, 0) = <<>>
           /\ \A k \in Nat \ {0} : Stream(m, k) = connections[backlog[m][k][1]].toRead["server"]
  BY DEF Stream

LEMMA StreamCasesNext ==
    ASSUME NEW m
    PROVE  /\ HasConnection(m)' =>
                 Stream(m, 0)' = connections'[sessions'[m][1].connection].toRead[sessions'[m][1].end]
           /\ ~HasConnection(m)' => Stream(m, 0)' = <<>>
           /\ \A k \in Nat \ {0} : Stream(m, k)' = connections'[backlog'[m][k][1]].toRead["server"]
  BY DEF Stream

\* A stream is a sequence of tokens, whichever place it is at.
LEMMA StreamType ==
    ASSUME TypeInv, ConnectionsInv, NEW m \in Nodes, NEW k \in 0 .. Len(backlog[m])
    PROVE  Stream(m, k) \in Seq(Tokens)
  <1>1. CASE k > 0
    <2>1. k \in 1 .. Len(backlog[m])
      BY <1>1 DEF TypeInv
    <2>2. backlog[m][k][1] \in ConnectionIds /\ connections[backlog[m][k][1]] # NoConnection
      BY <2>1, BacklogFields DEF ConnectionsInv, OpenInv
    <2>3. connections[backlog[m][k][1]].toRead \in [Ends -> Seq(Tokens)]
      BY <2>2, ConnectionFields
    <2> QED
      BY <1>1, <2>3 DEF Stream, Ends
  <1>2. CASE ~(k > 0) /\ HasConnection(m)
    <2>1. connections[sessions[m][1].connection].toRead \in [Ends -> Seq(Tokens)]
      BY <1>2, ConnectionHeld, ConnectionFields
    <2> QED
      BY <1>2, <2>1, ConnectionHeld DEF Stream
  <1>3. CASE ~(k > 0) /\ ~HasConnection(m)
    BY <1>3 DEF Stream
  <1> QED
    BY <1>1, <1>2, <1>3

\* A size in a stream is that of a message.
LEMMA MessageType ==
    ASSUME TypeInv, ConnectionsInv, NEW m \in Nodes, NEW k \in 0 .. Len(backlog[m]), NEW j,
           SizeAt(m, k, j)
    PROVE  MessageAt(m, k, j) \in Message /\ MessageAt(m, k, j).number \in Nat
  <1>1. Stream(m, k)[j] \in Tokens
    BY StreamType DEF SizeAt
  <1>2. MessageAt(m, k, j) \in Message
    BY <1>1 DEF MessageAt, Tokens
  <1> QED
    BY <1>2, TcpAssumption DEF Message

\* What m has begun to read is a message.
LEMMA BufferType ==
    ASSUME TypeInv, NEW m \in Nodes, ReadBuffer(m) # NoMessage
    PROVE  ReadBuffer(m) \in Message /\ ReadBuffer(m).number \in Nat
  <1>1. Len(sessions[m]) = 1 => 1 \in 1 .. Len(sessions[m])
    OBVIOUS
  <1>2. ReadBuffer(m) \in Message
    BY <1>1, SessionFields DEF ReadBuffer
  <1> QED
    BY <1>2, TcpAssumption DEF Message

LEMMA NotAMessage == NoMessage \notin Message
  <1>1. \A x \in Message : x \in [from : Nodes, to : Nodes, number : Nat]
    BY TcpAssumption DEF Message
  <1> QED
    BY <1>1, TcpAssumption

\* The types of what belongs to a link.
LEMMA LinkTypes ==
    ASSUME TypeInv, NEW n \in Nodes, NEW m \in Nodes, n # m
    PROVE  /\ <<n, m>> \in Links /\ sent[<<n, m>>] \in Nat /\ received[<<n, m>>] \in Nat
           /\ Len(backlog[m]) \in Nat
  <1>1. <<n, m>> \in Links
    BY DEF Links
  <1>2. sent[<<n, m>>] \in 0 .. MaxMessages /\ received[<<n, m>>] \in 0 .. MaxMessages
    BY <1>1 DEF TypeInv
  <1> QED
    BY <1>1, <1>2, TcpAssumption DEF TypeInv

\* After a step, every size that m has still to read was there before, at place
\* a[k] and b[k] further on; places keep their order.
SizesKept(m, a, b) ==
    /\ \A k \in 0 .. Len(backlog'[m]) : b[k] \in Nat
    /\ \A k, l \in 0 .. Len(backlog'[m]) : k < l => a[k] < a[l]
    /\ \A k \in 0 .. Len(backlog'[m]) : \A j \in Nat : SizeAt(m, k, j)' =>
          /\ a[k] \in 0 .. Len(backlog[m]) /\ SizeAt(m, a[k], j + b[k])
          /\ MessageAt(m, k, j)' = MessageAt(m, a[k], j + b[k])
          /\ k \in Places(m)' => a[k] \in Places(m)

\* What m has read: as before, or the message it had begun, or it has begun
\* the first that it has not read.
ReadKept(n, m, a, b) ==
    \/ /\ received'[<<n, m>>] = received[<<n, m>>]
       /\ ReadBuffer(m)' = ReadBuffer(m) \/ ReadBuffer(m)' = NoMessage
    \/ /\ ReadBuffer(m) # NoMessage /\ ReadBuffer(m)' = NoMessage
       /\ received'[<<n, m>>] = ReadBuffer(m).number
    \/ /\ received'[<<n, m>>] = received[<<n, m>>] /\ ReadBuffer(m) = NoMessage
       /\ SizeAt(m, 0, 1) /\ ReadBuffer(m)' = MessageAt(m, 0, 1)
       /\ b[0] = 1 /\ a[0] = 0 /\ \A k \in 1 .. Len(backlog'[m]) : a[k] > 0

\* Such a step keeps the order: it may lose messages, but moves none past another.
LEMMA OrderKept ==
    ASSUME TypeInv, TypeInv', NEW n \in Nodes, NEW m \in Nodes, n # m, LinkInv(n, m),
           ConnectionsInv, NEW a, NEW b, SizesKept(m, a, b), ReadKept(n, m, a, b),
           sent[<<n, m>>] <= sent'[<<n, m>>]
    PROVE  LinkInv(n, m)'
  <1>0. /\ sent[<<n, m>>] \in Nat /\ sent'[<<n, m>>] \in Nat /\ received[<<n, m>>] \in Nat
        /\ \A x \in Nat : x <= sent[<<n, m>>] => x <= sent'[<<n, m>>]
    <2>1. <<n, m>> \in Links /\ sent[<<n, m>>] \in Nat /\ received[<<n, m>>] \in Nat
      BY LinkTypes
    <2>2. sent'[<<n, m>>] \in Nat
      BY <2>1, TcpAssumption DEF TypeInv
    <2> QED
      BY <2>1, <2>2
  <1>1. Len(backlog[m]) \in Nat /\ Len(backlog'[m]) \in Nat /\ 0 \in 0 .. Len(backlog'[m])
    <2>1. Len(backlog[m]) \in Nat
      BY DEF TypeInv
    <2>2. Len(backlog'[m]) \in Nat
      BY DEF TypeInv
    <2> QED
      BY <2>1, <2>2
  <1>2. /\ \A k \in Places(m)' : k \in 0 .. Len(backlog'[m])
        /\ \A k \in Places(m)' : \A j \in Nat : SizeAt(m, k, j)' => a[k] \in Places(m)
        /\ 0 \in Places(m)
    <2>1. /\ \A k \in Places(m)' : k \in 0 .. Len(backlog'[m])
          /\ 0 \in Places(m)
      BY <1>1 DEF Places
    <2> QED
      BY <2>1 DEF SizesKept
  <1>3. ASSUME NEW k \in 0 .. Len(backlog'[m]), NEW j \in Nat, SizeAt(m, k, j)'
        PROVE  /\ a[k] \in 0 .. Len(backlog[m]) /\ j + b[k] \in Nat
               /\ SizeAt(m, a[k], j + b[k])
               /\ MessageAt(m, k, j)' = MessageAt(m, a[k], j + b[k])
    BY <1>3 DEF SizesKept
  <1>4. ASSUME NEW k \in 0 .. Len(backlog'[m]), NEW l \in 0 .. Len(backlog'[m]),
               NEW i \in Nat, NEW j \in Nat, Earlier(k, i, l, j)
        PROVE  Earlier(a[k], i + b[k], a[l], j + b[l])
    BY <1>4 DEF Earlier, SizesKept
  <1>5. SortedInv(n, m)'
    <2> SUFFICES ASSUME NEW k \in Places(m)', NEW l \in Places(m)',
                        NEW i \in Nat, NEW j \in Nat,
                        SizeAt(m, k, i)', SizeAt(m, l, j)', Earlier(k, i, l, j)
                 PROVE  MessageAt(m, k, i)'.number < MessageAt(m, l, j)'.number
      BY DEF SortedInv, Earlier
    <2>1. k \in 0 .. Len(backlog'[m]) /\ l \in 0 .. Len(backlog'[m])
      BY <1>2
    <2>2. Earlier(a[k], i + b[k], a[l], j + b[l])
      BY <1>4, <2>1
    <2> QED
      BY <1>2, <1>3, <2>1, <2>2 DEF LinkInv, SortedInv
  <1>6. ASSUME NEW x, SizeAt(m, 0, 1), x = MessageAt(m, 0, 1),
               b[0] = 1, a[0] = 0, \A k \in 1 .. Len(backlog'[m]) : a[k] > 0,
               NEW k \in Places(m)', NEW j \in Nat, SizeAt(m, k, j)'
        PROVE  x.number < MessageAt(m, k, j)'.number
    <2>1. k \in 0 .. Len(backlog'[m]) /\ a[k] \in Places(m)
      BY <1>2, <1>3, <1>6
    <2>2. j # 0 /\ j >= 1
      BY <1>6 DEF SizeAt
    <2>3. Earlier(0, 1, a[k], j + b[k])
      BY <1>6, <2>1, <2>2 DEF Earlier
    <2>4. 0 \in Places(m) /\ 1 \in Nat
      BY <1>2
    <2> QED
      BY <1>3, <1>6, <2>1, <2>3, <2>4 DEF LinkInv, SortedInv
  <1>7. UnreadInv(n, m)'
    <2> SUFFICES ASSUME NEW k \in Places(m)', NEW j \in Nat, SizeAt(m, k, j)'
                 PROVE  /\ received'[<<n, m>>] < MessageAt(m, k, j)'.number
                        /\ ReadBuffer(m)' # NoMessage =>
                              ReadBuffer(m)'.number < MessageAt(m, k, j)'.number
      BY DEF UnreadInv
    <2>1. /\ received[<<n, m>>] < MessageAt(m, k, j)'.number
          /\ ReadBuffer(m) # NoMessage => ReadBuffer(m).number < MessageAt(m, k, j)'.number
      BY <1>2, <1>3 DEF LinkInv, UnreadInv
    <2> QED
      BY <1>6, <2>1 DEF ReadKept
  <1>8. NumbersInv(n, m)'
    <2>1. ASSUME NEW k \in 0 .. Len(backlog'[m]), NEW j \in Nat, SizeAt(m, k, j)'
          PROVE  /\ MessageAt(m, k, j)'.from = n
                 /\ MessageAt(m, k, j)'.number <= sent'[<<n, m>>]
      <3>1. MessageAt(m, k, j)'.from = n /\ MessageAt(m, k, j)'.number <= sent[<<n, m>>]
        BY <1>3, <2>1 DEF LinkInv, NumbersInv
      <3>2. MessageAt(m, k, j)'.number \in Nat
        BY <1>3, <2>1, MessageType
      <3> QED
        BY <1>0, <3>1, <3>2
    <2>2. ASSUME ReadBuffer(m)' # NoMessage
          PROVE  /\ ReadBuffer(m)'.from = n /\ ReadBuffer(m)'.number <= sent'[<<n, m>>]
                 /\ received'[<<n, m>>] < ReadBuffer(m)'.number
      <3>1. CASE received'[<<n, m>>] = received[<<n, m>>] /\ ReadBuffer(m)' = ReadBuffer(m)
        <4>1. /\ ReadBuffer(m)'.from = n /\ ReadBuffer(m)'.number <= sent[<<n, m>>]
              /\ received'[<<n, m>>] < ReadBuffer(m)'.number
          BY <2>2, <3>1 DEF LinkInv, NumbersInv
        <4>2. ReadBuffer(m)'.number \in Nat
          BY <2>2, <3>1, BufferType
        <4> QED
          BY <1>0, <4>1, <4>2
      <3>2. CASE /\ received'[<<n, m>>] = received[<<n, m>>]
                 /\ SizeAt(m, 0, 1) /\ ReadBuffer(m)' = MessageAt(m, 0, 1)
        <4>1. 0 \in Places(m) /\ 1 \in Nat /\ 0 \in 0 .. Len(backlog[m])
          BY <1>1, <1>2
        <4>2. /\ ReadBuffer(m)'.from = n /\ ReadBuffer(m)'.number <= sent[<<n, m>>]
              /\ received'[<<n, m>>] < ReadBuffer(m)'.number
          BY <3>2, <4>1 DEF LinkInv, NumbersInv, UnreadInv
        <4>3. ReadBuffer(m)'.number \in Nat
          BY <3>2, <4>1, MessageType
        <4> QED
          BY <1>0, <4>2, <4>3
      <3> QED
        BY <2>2, <3>1, <3>2 DEF ReadKept
    <2>3. received'[<<n, m>>] <= sent'[<<n, m>>]
      <3>1. received[<<n, m>>] <= sent[<<n, m>>]
        BY DEF LinkInv, NumbersInv
      <3>2. ReadBuffer(m) # NoMessage =>
               ReadBuffer(m).number <= sent[<<n, m>>] /\ ReadBuffer(m).number \in Nat
        BY BufferType DEF LinkInv, NumbersInv
      <3> QED
        BY <1>0, <3>1, <3>2 DEF ReadKept
    <2> QED
      BY <2>1, <2>2, <2>3 DEF NumbersInv
  <1> QED
    BY <1>5, <1>7, <1>8 DEF LinkInv

\* n sends a message to m: it is the newest, and nothing that m may still read
\* comes after it.
LEMMA OrderAppended ==
    ASSUME TypeInv, ConnectionsInv, NEW n \in Nodes, NEW m \in Nodes, n # m, LinkInv(n, m),
           NEW x \in Message, x.from = n, x.number = sent[<<n, m>>] + 1,
           sent'[<<n, m>>] = sent[<<n, m>>] + 1,
           backlog'[m] = backlog[m], received'[<<n, m>>] = received[<<n, m>>],
           ReadBuffer(m)' = ReadBuffer(m), Places(m)' \subseteq Places(m),
           NEW o \in 0 .. Len(backlog[m]), \A k \in Places(m) : k <= o,
           Stream(m, o)' = Append(Stream(m, o), <<"size", x>>),
           \A k \in 0 .. Len(backlog[m]) : k # o => Stream(m, k)' = Stream(m, k)
    PROVE  LinkInv(n, m)'
  <1>1. /\ Len(backlog[m]) \in Nat /\ sent[<<n, m>>] \in Nat /\ received[<<n, m>>] \in Nat
    BY LinkTypes
  <1>2. Places(m)' \subseteq Places(m) /\ \A k \in Places(m) : k \in 0 .. Len(backlog[m])
    BY <1>1 DEF Places
  <1> DEFINE New(k, j) == k = o /\ j = Len(Stream(m, o)) + 1
  <1>3. Stream(m, o) \in Seq(Tokens) /\ Len(Stream(m, o)) \in Nat
    BY StreamType
  <1>4. ASSUME NEW k \in 0 .. Len(backlog[m]), NEW j \in Nat, SizeAt(m, k, j)'
        PROVE  \/ SizeAt(m, k, j) /\ MessageAt(m, k, j)' = MessageAt(m, k, j)
               \/ New(k, j) /\ MessageAt(m, k, j)' = x
    <2>1. CASE k # o
      BY <1>4, <2>1 DEF SizeAt, MessageAt
    <2>2. CASE k = o
      <3>1. \A q \in Seq(Tokens) : \A y : \A i \in 1 .. Len(Append(q, y)) :
               \/ i \in 1 .. Len(q) /\ Append(q, y)[i] = q[i]
               \/ i = Len(q) + 1 /\ Append(q, y)[i] = y
        OBVIOUS
      <3>2. PICK y : y = <<"size", x>>
        OBVIOUS
      <3>3. j \in 1 .. Len(Append(Stream(m, o), y)) /\ Stream(m, o)'[j] = Append(Stream(m, o), y)[j]
        BY <1>4, <2>2, <3>2 DEF SizeAt
      <3>4. CASE j \in 1 .. Len(Stream(m, o)) /\ Append(Stream(m, o), y)[j] = Stream(m, o)[j]
        BY <1>4, <2>2, <3>3, <3>4 DEF SizeAt, MessageAt
      <3>5. CASE j = Len(Stream(m, o)) + 1 /\ Append(Stream(m, o), y)[j] = y
        BY <1>4, <2>2, <3>2, <3>3, <3>5 DEF MessageAt
      <3> QED
        BY <1>3, <3>1, <3>3, <3>4, <3>5
    <2> QED
      BY <2>1, <2>2
  <1> HIDE DEF New
  <1>5. ASSUME NEW k \in 0 .. Len(backlog[m]), NEW j \in Nat, SizeAt(m, k, j)
        PROVE  /\ MessageAt(m, k, j).from = n
               /\ MessageAt(m, k, j).number <= sent[<<n, m>>]
               /\ MessageAt(m, k, j).number < x.number
               /\ MessageAt(m, k, j).number <= sent'[<<n, m>>]
    <2>1. /\ MessageAt(m, k, j).from = n
          /\ MessageAt(m, k, j).number <= sent[<<n, m>>]
      BY <1>5 DEF LinkInv, NumbersInv
    <2>2. MessageAt(m, k, j).number \in Nat
      BY <1>5, MessageType
    <2> QED
      BY <1>1, <2>1, <2>2
  <1>6. ReadBuffer(m) # NoMessage =>
           /\ ReadBuffer(m).from = n /\ ReadBuffer(m).number <= sent[<<n, m>>]
           /\ received[<<n, m>>] < ReadBuffer(m).number /\ ReadBuffer(m).number \in Nat
    BY BufferType DEF LinkInv, NumbersInv
  <1>7. received[<<n, m>>] <= sent[<<n, m>>]
    BY DEF LinkInv, NumbersInv
  <1>8. NumbersInv(n, m)'
    <2>1. ASSUME NEW k \in 0 .. Len(backlog[m]), NEW j \in Nat, SizeAt(m, k, j)'
          PROVE  /\ MessageAt(m, k, j)'.from = n
                 /\ MessageAt(m, k, j)'.number <= sent'[<<n, m>>]
      <3>1. x.from = n /\ x.number <= sent'[<<n, m>>]
        BY <1>1
      <3> QED
        BY <1>4, <1>5, <2>1, <3>1
    <2>2. ReadBuffer(m)' # NoMessage =>
             /\ ReadBuffer(m)'.from = n /\ ReadBuffer(m)'.number <= sent'[<<n, m>>]
             /\ received'[<<n, m>>] < ReadBuffer(m)'.number
      BY <1>1, <1>6
    <2>3. received'[<<n, m>>] <= sent'[<<n, m>>]
      BY <1>1, <1>7
    <2> QED
      BY <2>1, <2>2, <2>3 DEF NumbersInv
  <1>9. SortedInv(n, m)'
    <2> SUFFICES ASSUME NEW k \in Places(m), NEW l \in Places(m), NEW i \in Nat, NEW j \in Nat,
                        SizeAt(m, k, i)', SizeAt(m, l, j)', Earlier(k, i, l, j)
                 PROVE  MessageAt(m, k, i)'.number < MessageAt(m, l, j)'.number
      BY <1>2 DEF SortedInv, Earlier
    <2>1. k \in 0 .. Len(backlog[m]) /\ l \in 0 .. Len(backlog[m]) /\ k <= o /\ l <= o
      BY <1>2
    <2>2. ~New(k, i)
      <3>1. ASSUME New(k, i) PROVE FALSE
        <4>1. l = o /\ i < j /\ i = Len(Stream(m, o)) + 1
          BY <1>3, <2>1, <3>1 DEF New, Earlier
        <4>2. ~New(l, j) /\ ~SizeAt(m, l, j)
          BY <1>3, <4>1 DEF New, SizeAt
        <4> QED
          BY <1>4, <2>1, <4>2
      <3> QED
        BY <3>1
    <2>3. SizeAt(m, k, i) /\ MessageAt(m, k, i)' = MessageAt(m, k, i)
      BY <1>4, <2>1, <2>2
    <2>4. CASE SizeAt(m, l, j) /\ MessageAt(m, l, j)' = MessageAt(m, l, j)
      BY <2>3, <2>4 DEF LinkInv, SortedInv
    <2>5. CASE MessageAt(m, l, j)' = x
      BY <1>5, <2>1, <2>3, <2>5
    <2> QED
      BY <1>4, <2>1, <2>4, <2>5
  <1>10. UnreadInv(n, m)'
    <2> SUFFICES ASSUME NEW k \in Places(m), NEW j \in Nat, SizeAt(m, k, j)'
                 PROVE  /\ received[<<n, m>>] < MessageAt(m, k, j)'.number
                        /\ ReadBuffer(m) # NoMessage =>
                              ReadBuffer(m).number < MessageAt(m, k, j)'.number
      BY <1>2 DEF UnreadInv
    <2>1. CASE SizeAt(m, k, j) /\ MessageAt(m, k, j)' = MessageAt(m, k, j)
      BY <2>1 DEF LinkInv, UnreadInv
    <2>2. CASE MessageAt(m, k, j)' = x
      BY <1>1, <1>6, <1>7, <2>2
    <2> QED
      BY <1>2, <1>4, <2>1, <2>2
  <1> QED
    BY <1>8, <1>9, <1>10 DEF LinkInv

\* What is written by n gets to the place where m has the other end, if it has.
Target(n, m, k) ==
    /\ HasConnection(n)
    /\ IF k = 0 THEN HasConnection(m) /\ sessions[m][1].connection = sessions[n][1].connection
       ELSE backlog[m][k][1] = sessions[n][1].connection

WritesToken(n, token) ==
    /\ HasConnection(n) /\ UNCHANGED <<sessions, backlog>>
    /\ connections' = Written(sessions[n][1].connection, sessions[n][1].end, token)

\* Only the stream at that place grows.
LEMMA WrittenStreams ==
    ASSUME TypeInv, ConnectionsInv, NEW n \in Nodes, NEW token \in Tokens, WritesToken(n, token),
           NEW m \in Nodes, NEW k \in 0 .. Len(backlog[m])
    PROVE  IF m # n /\ Target(n, m, k)
           THEN Stream(m, k)' = Append(Stream(m, k), token)
           ELSE Stream(m, k)' = Stream(m, k)
  <1>1. PICK c, e : c = sessions[n][1].connection /\ e = sessions[n][1].end
    OBVIOUS
  <1>2. /\ 1 \in 1 .. Len(sessions[n]) /\ c \in ConnectionIds /\ e \in Ends
        /\ connections[c] # NoConnection
    BY <1>1, ConnectionHeld DEF WritesToken
  <1>3. /\ \A d \in ConnectionIds : d # c => connections'[d] = connections[d]
        /\ connections'[c].toRead[e] = connections[c].toRead[e]
        /\ Peer(e) \notin connections[c].closed =>
              connections'[c].toRead[Peer(e)] = Append(connections[c].toRead[Peer(e)], token)
    BY <1>1, <1>2, ConnectionWritten, Zenon DEF WritesToken
  <1>4. HasConnection(m)' <=> HasConnection(m)
    BY DEF WritesToken, HasConnection
  <1>a. /\ HasConnection(m) =>
              Stream(m, 0)' = connections'[sessions[m][1].connection].toRead[sessions[m][1].end]
        /\ ~HasConnection(m) => Stream(m, 0)' = Stream(m, 0)
        /\ \A o \in Nat \ {0} : Stream(m, o)' = connections'[backlog[m][o][1]].toRead["server"]
    BY <1>4, StreamCases, StreamCasesNext, Zenon DEF WritesToken
  <1>5. CASE k = 0 /\ HasConnection(m)
    <2>1. /\ 1 \in 1 .. Len(sessions[m]) /\ sessions[m][1].connection \in ConnectionIds
          /\ sessions[m][1].end \in Ends
          /\ sessions[m][1].end \notin connections[sessions[m][1].connection].closed
      BY <1>5, ConnectionHeld
    <2>2. CASE sessions[m][1].connection # c
      BY <1>1, <1>3, <1>5, <1>a, <2>1, <2>2, StreamCases, Zenon DEF Target
    <2>3. CASE sessions[m][1].connection = c /\ m = n
      BY <1>1, <1>3, <1>5, <1>a, <2>3, StreamCases, Zenon
    <2>4. CASE sessions[m][1].connection = c /\ m # n
      <3>1. sessions[m][1].end # e
        BY <1>1, <1>2, <1>5, <2>1, <2>4 DEF ConnectionsInv, EndsInv, HasConnection
      <3>2. sessions[m][1].end = Peer(e)
        BY <1>2, <2>1, <3>1, EndFacts
      <3>3. Target(n, m, k)
        BY <1>1, <1>5, <2>4 DEF Target, WritesToken
      <3> QED
        BY <1>3, <1>5, <1>a, <2>1, <2>4, <3>2, <3>3, StreamCases
    <2> QED
      BY <2>2, <2>3, <2>4
  <1>6. CASE k = 0 /\ ~HasConnection(m)
    BY <1>6, <1>a DEF Target
  <1>7. CASE k # 0
    <2>1. k \in 1 .. Len(backlog[m]) /\ k \in Nat \ {0}
      BY <1>7 DEF TypeInv
    <2>2. backlog[m][k][1] \in ConnectionIds /\ "server" \notin connections[backlog[m][k][1]].closed
      BY <2>1, BacklogFields DEF ConnectionsInv, OpenInv
    <2>3. CASE backlog[m][k][1] # c
      <3>1. ~Target(n, m, k)
        BY <1>1, <1>7, <2>3 DEF Target
      <3>2. Stream(m, k)' = Stream(m, k)
        BY <1>3, <1>a, <2>1, <2>2, <2>3, StreamCases
      <3> QED
        BY <3>1, <3>2
    <2>4. CASE backlog[m][k][1] = c
      <3>1. m # n /\ e = "client"
        BY <1>1, <1>2, <2>1, <2>4 DEF ConnectionsInv, EndsInv
      <3>2. Peer(e) = "server"
        BY <3>1 DEF Peer
      <3>3. Target(n, m, k)
        BY <1>1, <1>7, <2>4 DEF Target, WritesToken
      <3> QED
        BY <1>3, <1>a, <2>1, <2>2, <2>4, <3>1, <3>2, <3>3, StreamCases, Zenon
    <2> QED
      BY <2>3, <2>4
  <1> QED
    BY <1>5, <1>6, <1>7

\* The steps that neither write to a connection nor read from it.
ToReadKept ==
    \A c \in ConnectionIds : connections[c] # NoConnection /\ connections'[c] # NoConnection =>
        connections'[c].toRead = connections[c].toRead

\* No step opens a closed end.
ClosedKept ==
    \A c \in ConnectionIds : connections[c] # NoConnection /\ connections'[c] # NoConnection =>
        connections[c].closed \subseteq connections'[c].closed

\* A connection that is alive has been all the time.
LEMMA AliveBefore ==
    ASSUME TypeInv, ConnectionsInv, ConnectionsInv', ClosedKept, NEW m \in Nodes,
           NEW k \in 1 .. Len(backlog'[m]), NEW l \in 1 .. Len(backlog[m]),
           backlog'[m][k] = backlog[m][l], Alive(m, k)'
    PROVE  Alive(m, l)
  <1>1. PICK c : c = backlog[m][l][1]
    OBVIOUS
  <1>2. c \in ConnectionIds /\ connections[c] # NoConnection
    BY <1>1, BacklogFields DEF ConnectionsInv, OpenInv
  <1>3. connections'[c] # NoConnection
    BY <1>1 DEF ConnectionsInv, OpenInv
  <1>4. "client" \notin connections'[c].closed
    BY <1>1 DEF Alive
  <1> QED
    BY <1>1, <1>2, <1>3, <1>4 DEF ClosedKept, Alive

LEMMA PlacesSame ==
    ASSUME TypeInv, ConnectionsInv, ConnectionsInv', ClosedKept, NEW m \in Nodes,
           backlog'[m] = backlog[m]
    PROVE  Places(m)' \subseteq Places(m)
  <1>1. Len(backlog[m]) \in Nat
    BY DEF TypeInv
  <1>2. \A k \in 0 .. Len(backlog[m]) : k = 0 \/ k \in 1 .. Len(backlog[m])
    BY <1>1
  <1>3. \A k \in 1 .. Len(backlog[m]) : Alive(m, k)' => Alive(m, k)
    BY AliveBefore
  <1> QED
    BY <1>2, <1>3 DEF Places

\* A stream goes along with the connection it belongs to.
LEMMA KeptStreams ==
    ASSUME TypeInv, ConnectionsInv, ConnectionsInv', ToReadKept, NEW m \in Nodes,
           TypeInv'
    PROVE  /\ \A k \in 1 .. Len(backlog'[m]), l \in 1 .. Len(backlog[m]) :
                 backlog'[m][k] = backlog[m][l] => Stream(m, k)' = Stream(m, l)
           /\ HasConnection(m) /\ HasConnection(m)'
                 /\ sessions'[m][1].connection = sessions[m][1].connection
                 /\ sessions'[m][1].end = sessions[m][1].end => Stream(m, 0)' = Stream(m, 0)
           /\ \A l \in 1 .. Len(backlog[m]) :
                 HasConnection(m)' /\ sessions'[m][1].end = "server"
                    /\ sessions'[m][1].connection = backlog[m][l][1] => Stream(m, 0)' = Stream(m, l)
  <1>1. ASSUME NEW k \in 1 .. Len(backlog'[m]), NEW l \in 1 .. Len(backlog[m]),
               backlog'[m][k] = backlog[m][l]
        PROVE  Stream(m, k)' = Stream(m, l)
    <2>1. PICK c : c = backlog[m][l][1]
      OBVIOUS
    <2>2. c \in ConnectionIds /\ connections[c] # NoConnection
      BY <2>1, BacklogFields DEF ConnectionsInv, OpenInv
    <2>3. connections'[c] # NoConnection
      BY <1>1, <2>1 DEF ConnectionsInv, OpenInv
    <2>4. k \in Nat \ {0} /\ l \in Nat \ {0}
      OBVIOUS
    <2>5. connections'[c].toRead = connections[c].toRead
      BY <2>2, <2>3 DEF ToReadKept
    <2>6. Stream(m, k)' = connections'[c].toRead["server"]
      BY <1>1, <2>1, <2>4, StreamCasesNext
    <2>7. Stream(m, l) = connections[c].toRead["server"]
      BY <2>1, <2>4, StreamCases
    <2> QED
      BY <2>5, <2>6, <2>7
  <1>2. HasConnection(m)' =>
           1 \in 1 .. Len(sessions'[m]) /\ connections'[sessions'[m][1].connection] # NoConnection
    BY DEF HasConnection, ConnectionsInv, OpenInv
  <1>3. ASSUME HasConnection(m), HasConnection(m)',
               sessions'[m][1].connection = sessions[m][1].connection,
               sessions'[m][1].end = sessions[m][1].end
        PROVE  Stream(m, 0)' = Stream(m, 0)
    <2>1. PICK c, e : c = sessions[m][1].connection /\ e = sessions[m][1].end
      OBVIOUS
    <2>2. connections'[c].toRead = connections[c].toRead
      BY <1>2, <1>3, <2>1, ConnectionHeld DEF ToReadKept
    <2>3. Stream(m, 0)' = connections'[c].toRead[e]
      BY <1>3, <2>1, StreamCasesNext
    <2>4. Stream(m, 0) = connections[c].toRead[e]
      BY <1>3, <2>1, StreamCases
    <2> QED
      BY <2>2, <2>3, <2>4
  <1>4. ASSUME NEW l \in 1 .. Len(backlog[m]), HasConnection(m)', sessions'[m][1].end = "server",
               sessions'[m][1].connection = backlog[m][l][1]
        PROVE  Stream(m, 0)' = Stream(m, l)
    <2>1. backlog[m][l][1] \in ConnectionIds /\ connections[backlog[m][l][1]] # NoConnection
      BY BacklogFields DEF ConnectionsInv, OpenInv
    <2>2. l \in Nat \ {0}
      OBVIOUS
    <2>3. connections'[backlog[m][l][1]].toRead = connections[backlog[m][l][1]].toRead
      BY <1>2, <1>4, <2>1 DEF ToReadKept
    <2>4. Stream(m, 0)' = connections'[backlog[m][l][1]].toRead["server"]
      BY <1>4, StreamCasesNext
    <2>5. Stream(m, l) = connections[backlog[m][l][1]].toRead["server"]
      BY <2>2, StreamCases
    <2> QED
      BY <2>3, <2>4, <2>5
  <1> QED
    BY <1>1, <1>3, <1>4

\* Equal streams have equal sizes, and an empty one has none.
LEMMA SizesOfStreams ==
    ASSUME NEW m, NEW k, NEW l, NEW j
    PROVE  /\ Stream(m, k)' = Stream(m, l) /\ SizeAt(m, k, j)' =>
                 SizeAt(m, l, j) /\ MessageAt(m, k, j)' = MessageAt(m, l, j)
           /\ Stream(m, k)' = <<>> => ~SizeAt(m, k, j)'
  BY DEF SizeAt, MessageAt

\* Nothing moves to another place, and what is no longer there has been lost.
SizesSame(m) ==
    \A k \in 0 .. Len(backlog'[m]) : \A j \in Nat : SizeAt(m, k, j)' =>
        /\ k \in 0 .. Len(backlog[m]) /\ SizeAt(m, k, j)
        /\ MessageAt(m, k, j)' = MessageAt(m, k, j)
        /\ k \in Places(m)' => k \in Places(m)

\* Then the order is kept.
LEMMA OrderSame ==
    ASSUME TypeInv, TypeInv', ConnectionsInv, NEW n \in Nodes, NEW m \in Nodes, n # m,
           LinkInv(n, m), SizesSame(m),
           sent[<<n, m>>] <= sent'[<<n, m>>], received'[<<n, m>>] = received[<<n, m>>],
           ReadBuffer(m)' = ReadBuffer(m) \/ ReadBuffer(m)' = NoMessage
    PROVE  LinkInv(n, m)'
  <1> DEFINE a == [k \in Nat |-> k]
             b == [k \in Nat |-> 0]
  <1>1. SizesKept(m, a, b)
    <2>1. Len(backlog'[m]) \in Nat
      BY DEF TypeInv
    <2>2. \A k \in 0 .. Len(backlog'[m]) : a[k] = k /\ b[k] = 0
      BY <2>1
    <2> HIDE DEF a, b
    <2> QED
      BY <2>1, <2>2 DEF SizesKept, SizesSame
  <1>2. ReadKept(n, m, a, b)
    BY DEF ReadKept
  <1> HIDE DEF a, b
  <1> QED
    BY <1>1, <1>2, OrderKept

\* A session keeps its end of a connection, or has none ...
EndKept(m) ==
    /\ HasConnection(m)' <=> HasConnection(m)
    /\ HasConnection(m) => /\ sessions'[m][1].connection = sessions[m][1].connection
                           /\ sessions'[m][1].end = sessions[m][1].end

\* ... and does not read.
SessionQuiet(m) ==
    /\ EndKept(m)
    /\ ReadBuffer(m)' = ReadBuffer(m) \/ ReadBuffer(m)' = NoMessage

\* What such a session keeps.
LEMMA AliveQuiet ==
    ASSUME TypeInv, ConnectionsInv, ConnectionsInv', ClosedKept, NEW n \in Nodes, NEW m \in Nodes,
           EndKept(n), backlog'[m] = backlog[m], AliveInv(n, m)
    PROVE  AliveInv(n, m)'
  <1>1. \A k \in 1 .. Len(backlog[m]) : Alive(m, k)' => Alive(m, k)
    BY AliveBefore
  <1> QED
    BY <1>1 DEF EndKept, AliveInv

\* All sessions are quiet.
LEMMA QuietOrder ==
    ASSUME TypeInv, TypeInv', ConnectionsInv, ConnectionsInv', OrderInv, ToReadKept, ClosedKept,
           \A m \in Nodes : SessionQuiet(m), backlog' = backlog,
           sent' = sent, received' = received
    PROVE  OrderInv'
  <1> SUFFICES ASSUME NEW n \in Nodes, NEW m \in Nodes, n # m PROVE LinkInv(n, m)' /\ AliveInv(n, m)'
    BY DEF OrderInv
  <1>1. LinkInv(n, m) /\ AliveInv(n, m) /\ SessionQuiet(n) /\ SessionQuiet(m)
    BY DEF OrderInv
  <1>2. Len(backlog[m]) \in Nat
    BY LinkTypes
  <1>3. AliveInv(n, m)'
    BY <1>1, AliveQuiet DEF SessionQuiet
  <1>4. \A k \in 0 .. Len(backlog[m]) : Stream(m, k)' = Stream(m, k)
    <2>1. \A k \in 1 .. Len(backlog[m]) : Stream(m, k)' = Stream(m, k)
      BY KeptStreams
    <2>2. Stream(m, 0)' = Stream(m, 0)
      BY <1>1, KeptStreams, StreamCases, StreamCasesNext DEF SessionQuiet, EndKept
    <2> QED
      BY <1>2, <2>1, <2>2
  <1>5. SizesSame(m)
    BY <1>4, PlacesSame, SizesOfStreams DEF SizesSame
  <1>6. sent[<<n, m>>] <= sent'[<<n, m>>]
    BY LinkTypes
  <1> QED
    BY <1>1, <1>3, <1>5, <1>6, OrderSame DEF SessionQuiet

\* A session that does not change is quiet.
LEMMA SameSession ==
    ASSUME NEW p, sessions'[p] = sessions[p]
    PROVE  SessionQuiet(p)
  BY DEF SessionQuiet, EndKept, HasConnection, ReadBuffer

\* The session of one of two devices.
LEMMA TheSession ==
    ASSUME TwoDevices, TypeInv, ConnectionsInv, NEW n \in Nodes, NEW i \in 1 .. Len(sessions[n])
    PROVE  i = 1 /\ Len(sessions[n]) = 1
  <1>1. Len(sessions[n]) = 0 \/ Len(sessions[n]) = 1
    BY TwoSessions
  <1>2. \A x : (x = 0 \/ x = 1) => \A k \in 1 .. x : k = 1 /\ x = 1
    OBVIOUS
  <1>3. PICK x : x = Len(sessions[n])
    OBVIOUS
  <1> QED
    BY <1>1, <1>2, <1>3

\* A new session has no connection.
LEMMA UdpDiscoveryCallbackOrder ==
    ASSUME TwoDevices, TypeInv, TypeInv', ConnectionsInv, ConnectionsInv', OrderInv,
           NEW n \in Nodes, NEW m \in Nodes, UdpDiscoveryCallback(n, m)
    PROVE  OrderInv'
  <1>1. UNCHANGED <<connections, backlog, sent, received>> /\ m # n
    BY DEF UdpDiscoveryCallback, networkVars, dataVars
  <1>2. ToReadKept /\ ClosedKept
    BY <1>1 DEF ToReadKept, ClosedKept
  <1>3. \A p \in Nodes : SessionQuiet(p)
    <2>1. CASE SessionsTo(n, m) = {}
      <3>1. Len(sessions[n]) = 0
        <4>1. Len(sessions[n]) = 0 \/ Len(sessions[n]) = 1
          BY TwoSessions
        <4>2. 1 .. Len(sessions[n]) = {}
          BY <1>1, <2>1, TwoSessions
        <4>3. 1 \in 1 .. 1
          OBVIOUS
        <4> QED
          BY <4>1, <4>2, <4>3
      <3>2. sessions' = [sessions EXCEPT ![n] = Append(@, ClientSession(m))]
        BY <2>1 DEF UdpDiscoveryCallback
      <3>3. /\ ClientSession(m) \in Session /\ ClientSession(m).connection = NoConnection
            /\ ClientSession(m).readBufferSize = NoMessage
        BY NewSessions
      <3>4. /\ Len(sessions'[n]) = Len(sessions[n]) + 1
            /\ sessions'[n][Len(sessions[n]) + 1] = ClientSession(m)
            /\ \A p \in Nodes : p # n => sessions'[p] = sessions[p]
        BY <3>2, <3>3, SessionAppended
      <3>5. Len(sessions'[n]) = 1 /\ sessions'[n][1] = ClientSession(m)
        BY <3>1, <3>4
      <3>6. SessionQuiet(n)
        BY <3>1, <3>3, <3>5 DEF SessionQuiet, EndKept, HasConnection, ReadBuffer
      <3> QED
        BY <3>4, <3>6, SameSession
    <2>2. CASE SessionsTo(n, m) # {}
      <3>1. sessions' = sessions
        BY <2>2 DEF UdpDiscoveryCallback
      <3> QED
        BY <3>1, SameSession
    <2> QED
      BY <2>1, <2>2
  <1> QED
    BY <1>1, <1>2, <1>3, QuietOrder

\* Errors of the acceptor and of the discovery socket, and restarts.
LEMMA OtherStepsOrder ==
    ASSUME TypeInv, TypeInv', ConnectionsInv, ConnectionsInv', OrderInv,
           \/ \E n \in Nodes : AcceptError(n) \/ BroadcastError(n) \/ Restart(n)
           \/ UNCHANGED vars
    PROVE  OrderInv'
  <1>1. UNCHANGED <<sessions, connections, backlog, sent, received>>
    BY DEF AcceptError, BroadcastError, Restart, sessionVars, networkVars, dataVars, vars
  <1>2. ToReadKept /\ ClosedKept
    BY <1>1 DEF ToReadKept, ClosedKept
  <1>3. \A p \in Nodes : SessionQuiet(p)
    BY <1>1, SameSession
  <1> QED
    BY <1>1, <1>2, <1>3, QuietOrder

\* Only the state of a session changes, or a session without connection goes.
LEMMA SessionStateOrder ==
    ASSUME TwoDevices, TypeInv, TypeInv', ConnectionsInv, ConnectionsInv', OrderInv,
           NEW n \in Nodes, NEW i \in 1 .. Len(sessions[n]),
           ConnectionFailed(n, i) \/ Retry(n, i) \/ ReadGarbled(n, i)
    PROVE  OrderInv'
  <1> DEFINE s == sessions[n][i]
  <1>1. UNCHANGED <<backlog, sent, received>>
    BY DEF ConnectionFailed, Retry, ReadGarbled, networkVars, dataVars
  <1>2. i = 1 /\ Len(sessions[n]) = 1
    BY TheSession
  <1>3. /\ s \in Session /\ sessions \in [Nodes -> Seq(Session)] /\ sessions[n] \in Seq(Session)
        /\ s.state = "connecting" => s.connection = NoConnection
    BY SessionFields DEF TypeInv, ConnectionsInv, StatesInv
  <1>4. ASSUME NEW r \in Session, sessions' = [sessions EXCEPT ![n][i] = r], r.end = s.end,
               r.connection = s.connection, r.readBufferSize = s.readBufferSize
        PROVE  \A p \in Nodes : SessionQuiet(p)
    <2>1. SessionChanged(n, i, r)
      BY <1>4, SessionUpdated
    <2>2. /\ sessions'[n][1] = r /\ Len(sessions'[n]) = 1
      BY <1>2, <2>1 DEF SessionChanged
    <2>3. SessionQuiet(n)
      BY <1>2, <1>4, <2>2 DEF SessionQuiet, EndKept, HasConnection, ReadBuffer
    <2>4. \A p \in Nodes : p # n => sessions'[p] = sessions[p]
      BY <1>3, <1>4
    <2> QED
      BY <2>3, <2>4, SameSession
  <1>5. connections' = connections /\ \A p \in Nodes : SessionQuiet(p)
    <2>1. CASE Retry(n, i) \/ ReadGarbled(n, i)
      <3>1. connections' = connections
        BY <2>1 DEF Retry, ReadGarbled, networkVars
      <3>2. PICK st \in States : sessions' = [sessions EXCEPT ![n][i].state = st]
        BY <2>1 DEF Retry, ReadGarbled, States
      <3>3. PICK r : r = [s EXCEPT !.state = st]
        OBVIOUS
      <3>4. /\ r \in Session /\ r.end = s.end
            /\ r.connection = s.connection /\ r.readBufferSize = s.readBufferSize
        <4> HIDE DEF s
        <4> QED
          BY <1>3, <3>3, ChangedSession
      <3>5. sessions' = [sessions EXCEPT ![n][i] = r]
        BY <1>3, <3>2, <3>3
      <3> QED
        BY <1>4, <3>1, <3>4, <3>5
    <2>2. CASE /\ s.retriesLeft > 0 /\ UNCHANGED connections
               /\ sessions' = [sessions EXCEPT ![n][i].state = "waiting",
                                               ![n][i].retriesLeft = @ - 1]
      <3>1. PICK r : r = [s EXCEPT !.state = "waiting", !.retriesLeft = @ - 1]
        OBVIOUS
      <3>2. /\ r \in Session /\ r.end = s.end
            /\ r.connection = s.connection /\ r.readBufferSize = s.readBufferSize
        <4> HIDE DEF s
        <4> QED
          BY <1>3, <2>2, <3>1, ChangedSession
      <3>3. sessions' = [sessions EXCEPT ![n][i] = r]
        BY <1>3, <2>2, <3>1
      <3> QED
        BY <1>4, <2>2, <3>2, <3>3
    <2>3. CASE s.state = "connecting" /\ SessionClosed(n, i)
      <3>1. connections' = connections /\ sessions' = [sessions EXCEPT ![n] = RemoveAt(@, i)]
        BY <1>3, <2>3 DEF SessionClosed
      <3>2. /\ Len(sessions'[n]) = Len(sessions[n]) - 1
            /\ \A p \in Nodes : p # n => sessions'[p] = sessions[p]
        BY <3>1, SessionRemoved
      <3>3. Len(sessions'[n]) = 0
        BY <1>2, <3>2
      <3>4. SessionQuiet(n)
        BY <1>2, <1>3, <2>3, <3>3 DEF SessionQuiet, EndKept, HasConnection, ReadBuffer
      <3> QED
        BY <3>1, <3>2, <3>4, SameSession
    <2> QED
      BY <2>1, <2>2, <2>3 DEF ConnectionFailed
  <1>6. ToReadKept /\ ClosedKept
    BY <1>5 DEF ToReadKept, ClosedKept
  <1> QED
    BY <1>1, <1>5, <1>6, QuietOrder

\* What n writes goes to one place, and m reads nothing after it: to the only
\* one that is alive of those that wait, or else none of them is alive.
LEMMA TargetLast ==
    ASSUME TypeInv, ConnectionsInv, NEW n \in Nodes, NEW m \in Nodes, n # m,
           AliveInv(n, m), NEW k \in 0 .. Len(backlog[m]), Target(n, m, k)
    PROVE  /\ \A l \in 0 .. Len(backlog[m]) : Target(n, m, l) => l = k
           /\ \A l \in Places(m) : l <= k
  <1>1. Len(backlog[m]) \in Nat
    BY DEF TypeInv
  <1>2. HasConnection(n)
    BY DEF Target
  <1>3. \A l \in 0 .. Len(backlog[m]) : l # 0 => l \in 1 .. Len(backlog[m])
    BY <1>1
  <1>4. ASSUME HasConnection(m), NEW l \in 1 .. Len(backlog[m])
        PROVE  backlog[m][l][1] # sessions[m][1].connection
    <2>1. 1 \in 1 .. Len(sessions[m])
      BY <1>4, ConnectionHeld
    <2> QED
      BY <2>1 DEF ConnectionsInv, EndsInv
  <1>5. \A l, j \in 1 .. Len(backlog[m]) : backlog[m][l][1] = backlog[m][j][1] => l = j
    BY DEF ConnectionsInv, EndsInv
  <1>6. \A l \in 0 .. Len(backlog[m]) : Target(n, m, l) => l = k
    BY <1>3, <1>4, <1>5 DEF Target
  <1>7. ASSUME NEW l \in Places(m), l # 0 PROVE l = k
    <2>1. l \in 0 .. Len(backlog[m]) /\ l \in 1 .. Len(backlog[m]) /\ Alive(m, l)
      BY <1>3, <1>7 DEF Places
    <2>2. Target(n, m, l)
      BY <1>7, <2>1 DEF AliveInv, Target
    <2> QED
      BY <1>6, <2>1, <2>2
  <1> QED
    BY <1>1, <1>6, <1>7

\* sent grows.
LEMMA SentGrows ==
    ASSUME TypeInv, NEW l \in Links, NEW p \in Links,
           sent' = [sent EXCEPT ![l] = @ + 1]
    PROVE  sent'[l] = sent[l] + 1 /\ (p # l => sent'[p] = sent[p]) /\ sent[p] <= sent'[p]
  <1>1. sent \in [Links -> 0 .. MaxMessages] /\ sent[l] \in Nat /\ sent[p] \in Nat
    BY TcpAssumption DEF TypeInv
  <1>2. sent'[l] = sent[l] + 1 /\ (p # l => sent'[p] = sent[p])
    BY <1>1
  <1> QED
    BY <1>1, <1>2

\* Neither half of sendData closes a connection.
LEMMA SendKeepsClosed ==
    ASSUME TypeInv, ConnectionsInv, NEW n \in Nodes, NEW t \in 1 .. Threads,
           SendBytes(n, t) \/ \E h \in GatewayHashes : SendSize(n, t, h)
    PROVE  ClosedKept
  <1>1. CASE UNCHANGED connections
    BY <1>1 DEF ClosedKept
  <1>2. ASSUME NEW i \in 1 .. Len(sessions[n]), sessions[n][i].connection # NoConnection,
               NEW x \in Tokens,
               connections' = Written(sessions[n][i].connection, sessions[n][i].end, x)
        PROVE  ClosedKept
    <2>1. PICK c, e : c = sessions[n][i].connection /\ e = sessions[n][i].end
      OBVIOUS
    <2>2. c \in ConnectionIds /\ e \in Ends /\ connections[c] # NoConnection
      BY <1>2, <2>1, SessionFields DEF ConnectionsInv, OpenInv
    <2>3. /\ \A d \in ConnectionIds : d # c => connections'[d] = connections[d]
          /\ connections'[c].closed = connections[c].closed
      BY <1>2, <2>1, <2>2, ConnectionWritten
    <2> QED
      BY <2>3 DEF ClosedKept
  <1>3. ASSUME NEW h \in GatewayHashes, SendSize(n, t, h) PROVE ClosedKept
    <2>1. ASSUME NEW i \in 1 .. Len(sessions[n]), NEW m \in Message, SizeWritten(n, t, i, m)
          PROVE  ClosedKept
      <3>1. sessions[n][i].connection # NoConnection
        BY <2>1, OpenSession DEF SizeWritten
      <3>2. <<"size", m>> \in Tokens
        BY DEF Tokens
      <3> QED
        BY <1>2, <2>1, <3>1, <3>2 DEF SizeWritten
    <2> QED
      BY <1>1, <1>3, <2>1, SendSizeEffect
  <1>4. CASE SendBytes(n, t)
    <2>1. /\ sender[n][t].message \in Message
          /\ BytesStray(n, t) \/ \E i \in 1 .. Len(sessions[n]) : BytesWritten(n, t, i)
      BY <1>4, SendBytesEffect
    <2>2. <<"data", sender[n][t].message>> \in Tokens
      BY <2>1 DEF Tokens
    <2>3. ASSUME NEW i \in 1 .. Len(sessions[n]), BytesWritten(n, t, i) PROVE ClosedKept
      <3>1. sessions[n][i].end = sender[n][t].end
        BY <2>3 DEF BytesWritten, ConnectionsInv, SendersInv
      <3> QED
        BY <1>2, <2>2, <2>3, <3>1 DEF BytesWritten
    <2> QED
      BY <1>1, <1>2, <2>1, <2>2, <2>3 DEF BytesStray
  <1> QED
    BY <1>3, <1>4

\* A message gets lost or is the last that the other device will read.
LEMMA SendSizeOrder ==
    ASSUME TwoDevices, TypeInv, TypeInv', ConnectionsInv, ConnectionsInv', OrderInv,
           NEW n \in Nodes, NEW t \in 1 .. Threads, NEW h \in GatewayHashes, SendSize(n, t, h)
    PROVE  OrderInv'
  <1>1. /\ sessions' = sessions /\ backlog' = backlog /\ received' = received
        /\ sent' = [sent EXCEPT ![<<n, h[1]>>] = @ + 1]
    BY DEF SendSize, sessionVars
  <1>2. h[1] \in Nodes /\ h[1] # n /\ <<n, h[1]>> \in Links
    BY DEF SendSize, GatewayHashes, ConnectionsInv, OthersInv, Links
  <1> SUFFICES ASSUME NEW p \in Nodes, NEW q \in Nodes, p # q PROVE LinkInv(p, q)' /\ AliveInv(p, q)'
    BY DEF OrderInv
  <1>3. LinkInv(p, q) /\ AliveInv(p, q) /\ <<p, q>> \in Links
    BY DEF OrderInv, Links
  <1>c. ClosedKept
    BY SendKeepsClosed
  <1>4. AliveInv(p, q)'
    BY <1>1, <1>3, <1>c, SameSession, AliveQuiet DEF SessionQuiet
  <1>5. sent[<<p, q>>] <= sent'[<<p, q>>] /\ sent'[<<n, h[1]>>] = sent[<<n, h[1]>>] + 1
    BY <1>1, <1>2, <1>3, SentGrows
  <1>6. ReadBuffer(q)' = ReadBuffer(q) /\ Places(q)' \subseteq Places(q)
    BY <1>1, <1>c, PlacesSame DEF ReadBuffer
  <1>7. ASSUME \A k \in 0 .. Len(backlog[q]) : Stream(q, k)' = Stream(q, k)
        PROVE  LinkInv(p, q)'
    <2>1. SizesSame(q)
      BY <1>1, <1>6, <1>7, SizesOfStreams DEF SizesSame
    <2> QED
      BY <1>1, <1>3, <1>5, <1>6, <2>1, OrderSame
  <1>8. CASE UNCHANGED connections
    <2>1. HasConnection(q)' <=> HasConnection(q)
      BY <1>1 DEF HasConnection
    <2>2. \A k \in 0 .. Len(backlog[q]) : k = 0 \/ k \in Nat \ {0}
      BY LinkTypes
    <2>3. \A k \in 0 .. Len(backlog[q]) : Stream(q, k)' = Stream(q, k)
      BY <1>1, <1>8, <2>1, <2>2, StreamCases, StreamCasesNext
    <2> QED
      BY <1>4, <1>7, <2>3
  <1>9. ASSUME NEW i \in 1 .. Len(sessions[n]), NEW x \in Message, SizeWritten(n, t, i, x),
               x.from = n, x.number = sent[<<n, h[1]>>] + 1
        PROVE  LinkInv(p, q)'
    <2>1. i = 1 /\ Len(sessions[n]) = 1
      BY TheSession
    <2>2. HasConnection(n)
      BY <1>9, <2>1, OpenSession DEF SizeWritten, HasConnection
    <2>3. PICK token \in Tokens : token = <<"size", x>>
      BY DEF Tokens
    <2>4. WritesToken(n, token)
      BY <1>1, <1>9, <2>1, <2>2, <2>3 DEF SizeWritten, WritesToken
    <2>5. ASSUME NEW k \in 0 .. Len(backlog[q])
          PROVE  IF q # n /\ Target(n, q, k)
                 THEN Stream(q, k)' = Append(Stream(q, k), token)
                 ELSE Stream(q, k)' = Stream(q, k)
      BY <2>4, WrittenStreams
    <2>6. CASE q = n \/ ~\E k \in 0 .. Len(backlog[q]) : Target(n, q, k)
      <3>1. \A k \in 0 .. Len(backlog[q]) : Stream(q, k)' = Stream(q, k)
        BY <2>5, <2>6
      <3> QED
        BY <1>7, <3>1
    <2>7. CASE q # n /\ \E k \in 0 .. Len(backlog[q]) : Target(n, q, k)
      <3>1. PICK k \in 0 .. Len(backlog[q]) : Target(n, q, k)
        BY <2>7
      <3>2. p = n /\ q = h[1]
        BY <1>2, <2>7 DEF TwoDevices
      <3>3. /\ \A l \in 0 .. Len(backlog[q]) : Target(n, q, l) => l = k
            /\ \A l \in Places(q) : l <= k
        BY <1>3, <3>1, <3>2, TargetLast
      <3>4. /\ Stream(q, k)' = Append(Stream(q, k), <<"size", x>>)
            /\ \A l \in 0 .. Len(backlog[q]) : l # k => Stream(q, l)' = Stream(q, l)
        BY <2>3, <2>5, <2>7, <3>1, <3>3
      <3>5. /\ x.from = p /\ x.number = sent[<<p, q>>] + 1 /\ sent'[<<p, q>>] = sent[<<p, q>>] + 1
            /\ backlog'[q] = backlog[q] /\ received'[<<p, q>>] = received[<<p, q>>]
        BY <1>1, <1>5, <1>9, <3>2
      <3> QED
        BY <1>3, <1>6, <3>3, <3>4, <3>5, OrderAppended
    <2> QED
      BY <2>6, <2>7
  <1> QED
    BY <1>4, <1>8, <1>9, SendSizeEffect

\* The bytes of a message have no number.
LEMMA SendBytesOrder ==
    ASSUME TwoDevices, TypeInv, TypeInv', ConnectionsInv, ConnectionsInv', OrderInv,
           NEW n \in Nodes, NEW t \in 1 .. Threads, SendBytes(n, t)
    PROVE  OrderInv'
  <1>1. /\ sessions' = sessions /\ backlog' = backlog /\ received' = received
        /\ sent' = sent
    BY DEF SendBytes, sessionVars
  <1> SUFFICES ASSUME NEW p \in Nodes, NEW q \in Nodes, p # q PROVE LinkInv(p, q)' /\ AliveInv(p, q)'
    BY DEF OrderInv
  <1>2. LinkInv(p, q) /\ AliveInv(p, q)
    BY DEF OrderInv
  <1>c. ClosedKept
    BY SendKeepsClosed
  <1>3. AliveInv(p, q)'
    BY <1>1, <1>2, <1>c, SameSession, AliveQuiet DEF SessionQuiet
  <1>4. sent[<<p, q>>] <= sent'[<<p, q>>]
    BY <1>1, LinkTypes
  <1>5. ReadBuffer(q)' = ReadBuffer(q) /\ Places(q)' \subseteq Places(q)
    BY <1>1, <1>c, PlacesSame DEF ReadBuffer
  <1>6. CASE UNCHANGED connections
    <2>1. HasConnection(q)' <=> HasConnection(q)
      BY <1>1 DEF HasConnection
    <2>2. \A k \in 0 .. Len(backlog[q]) : k = 0 \/ k \in Nat \ {0}
      BY LinkTypes
    <2>3. \A k \in 0 .. Len(backlog[q]) : Stream(q, k)' = Stream(q, k)
      BY <1>1, <1>6, <2>1, <2>2, StreamCases, StreamCasesNext
    <2>4. SizesSame(q)
      BY <1>1, <1>5, <2>3, SizesOfStreams DEF SizesSame
    <2> QED
      BY <1>1, <1>2, <1>3, <1>4, <1>5, <2>4, OrderSame
  <1>7. ASSUME NEW i \in 1 .. Len(sessions[n]), NEW x \in Message,
               sessions[n][i].connection # NoConnection,
               connections' = Written(sessions[n][i].connection, sessions[n][i].end, <<"data", x>>)
        PROVE  LinkInv(p, q)'
    <2>1. i = 1 /\ HasConnection(n)
      BY <1>7, TheSession DEF HasConnection
    <2>2. PICK token \in Tokens : token = <<"data", x>>
      BY DEF Tokens
    <2>3. WritesToken(n, token)
      BY <1>1, <1>7, <2>1, <2>2 DEF WritesToken
    <2>4. ASSUME NEW k \in 0 .. Len(backlog[q])
          PROVE  Stream(q, k)' = Append(Stream(q, k), token) \/ Stream(q, k)' = Stream(q, k)
      BY <2>3, WrittenStreams
    <2>5. token[1] = "data"
      BY <2>2
    <2>6. SizesSame(q)
      <3> SUFFICES ASSUME NEW k \in 0 .. Len(backlog[q]), NEW j \in Nat, SizeAt(q, k, j)'
                   PROVE  SizeAt(q, k, j) /\ MessageAt(q, k, j)' = MessageAt(q, k, j)
        BY <1>1, <1>5 DEF SizesSame
      <3>1. CASE Stream(q, k)' = Stream(q, k)
        BY <3>1, SizesOfStreams
      <3>2. CASE Stream(q, k)' = Append(Stream(q, k), token)
        <4>1. \A s \in Seq(Tokens) : \A y : \A l \in 1 .. Len(Append(s, y)) :
                 \/ l \in 1 .. Len(s) /\ Append(s, y)[l] = s[l]
                 \/ l = Len(s) + 1 /\ Append(s, y)[l] = y
          OBVIOUS
        <4>2. Stream(q, k) \in Seq(Tokens)
          BY StreamType
        <4>3. j \in 1 .. Len(Append(Stream(q, k), token)) /\ Append(Stream(q, k), token)[j][1] = "size"
          BY <3>2 DEF SizeAt
        <4>4. j \in 1 .. Len(Stream(q, k)) /\ Append(Stream(q, k), token)[j] = Stream(q, k)[j]
          BY <2>5, <4>1, <4>2, <4>3
        <4> QED
          BY <3>2, <4>3, <4>4 DEF SizeAt, MessageAt
      <3> QED
        BY <2>4, <3>1, <3>2
    <2> QED
      BY <1>1, <1>2, <1>4, <1>5, <2>6, OrderSame
  <1>8. sender[n][t].message \in Message
    BY SendBytesEffect
  <1>9. ASSUME NEW i \in 1 .. Len(sessions[n]), BytesWritten(n, t, i) PROVE LinkInv(p, q)'
    <2>1. sessions[n][i].end = sender[n][t].end
      BY <1>9 DEF BytesWritten, ConnectionsInv, SendersInv
    <2> QED
      BY <1>7, <1>8, <1>9, <2>1 DEF BytesWritten
  <1>10. CASE BytesStray(n, t)
    BY <1>3, <1>6, <1>7, <1>8, <1>10 DEF BytesStray
  <1> QED
    BY <1>3, <1>9, <1>10, SendBytesEffect

\* What a read does to the session and the connection.
ReadsToken(n, b) ==
    /\ Len(sessions'[n]) = 1 /\ sessions'[n][1].readBufferSize = b
    /\ \A p \in Nodes : EndKept(p)
    /\ \A p \in Nodes : p # n => sessions'[p] = sessions[p]
    /\ HasConnection(n) /\ Stream(n, 0) # <<>>
    /\ connections' = ConnectionsRead(n, 1)

\* ReadSize begins with the first message of the stream, ReadBytes hands it up.
LEMMA ReadEffect ==
    ASSUME TwoDevices, TypeInv, ConnectionsInv, NEW n \in Nodes, NEW i \in 1 .. Len(sessions[n]),
           ReadSize(n, i) \/ ReadBytes(n, i)
    PROVE  \E b \in Message \cup {NoMessage} :
              /\ ReadsToken(n, b)
              /\ \/ /\ ReadBuffer(n) = NoMessage /\ SizeAt(n, 0, 1) /\ b = MessageAt(n, 0, 1)
                    /\ UNCHANGED received
                 \/ /\ ReadBuffer(n) # NoMessage /\ b = NoMessage
                    /\ \/ UNCHANGED received
                       \/ received' = [received EXCEPT ![<<ReadBuffer(n).from, n>>] =
                                          ReadBuffer(n).number]
  <1> DEFINE s == sessions[n][1]
  <1>1. i = 1 /\ Len(sessions[n]) = 1
    BY TheSession
  <1>2. /\ Reading(n, 1) /\ connections' = ConnectionsRead(n, 1)
    BY <1>1 DEF ReadSize, ReadBytes
  <1>3. /\ s \in Session /\ sessions[n] \in Seq(Session) /\ sessions \in [Nodes -> Seq(Session)]
        /\ HasConnection(n) /\ s.readBufferSize \in Message \cup {NoMessage}
    BY <1>1, <1>2, OpenSession, SessionFields DEF Reading, TypeInv, HasConnection
  <1>4. Stream(n, 0) = Unread(n, 1) /\ Stream(n, 0) # <<>> /\ ReadBuffer(n) = s.readBufferSize
    BY <1>1, <1>2, <1>3, StreamCases DEF Unread, Reading, ReadBuffer
  <1>5. Stream(n, 0) \in Seq(Tokens)
    <2>1. 0 \in 0 .. Len(backlog[n])
      BY DEF TypeInv
    <2> QED
      BY <2>1, StreamType
  <1>6. /\ 1 \in 1 .. Len(Stream(n, 0)) /\ Head(Stream(n, 0)) = Stream(n, 0)[1]
        /\ Stream(n, 0)[1] \in Tokens
    BY <1>4, <1>5
  <1>7. ASSUME NEW b \in Message \cup {NoMessage},
               sessions' = [sessions EXCEPT ![n][1].readBufferSize = b]
        PROVE  ReadsToken(n, b)
    <2>1. PICK r : r = [s EXCEPT !.readBufferSize = b]
      OBVIOUS
    <2>2. /\ r \in Session /\ r.end = s.end /\ r.connection = s.connection /\ r.readBufferSize = b
      <3> HIDE DEF s
      <3> QED
        BY <1>3, <2>1, ChangedSession, ZenonT(40)
    <2>3. sessions' = [sessions EXCEPT ![n][1] = r]
      BY <1>3, <1>7, <2>1
    <2>4. SessionChanged(n, 1, r)
      BY <1>1, <2>2, <2>3, SessionUpdated
    <2>5. Len(sessions'[n]) = 1 /\ sessions'[n][1] = r
      BY <1>1, <2>4 DEF SessionChanged
    <2>6. \A p \in Nodes : p # n => sessions'[p] = sessions[p]
      BY <1>3, <2>3
    <2>7. EndKept(n)
      BY <1>1, <1>3, <2>2, <2>5 DEF EndKept, HasConnection
    <2>8. \A p \in Nodes : EndKept(p)
      BY <2>6, <2>7, SameSession DEF SessionQuiet
    <2> QED
      BY <1>2, <1>3, <1>4, <2>2, <2>5, <2>6, <2>8 DEF ReadsToken
  <1>8. CASE ReadSize(n, i)
    <2>1. PICK b : b = MessageAt(n, 0, 1)
      OBVIOUS
    <2>2. /\ ReadBuffer(n) = NoMessage /\ Stream(n, 0)[1][1] = "size"
          /\ sessions' = [sessions EXCEPT ![n][1].readBufferSize = b] /\ UNCHANGED received
      BY <1>1, <1>4, <1>6, <1>8, <2>1 DEF ReadSize, MessageAt, dataVars
    <2>3. b \in Message
      BY <1>6, <2>1 DEF MessageAt, Tokens
    <2>4. SizeAt(n, 0, 1)
      BY <1>6, <2>2 DEF SizeAt
    <2> QED
      BY <1>7, <2>1, <2>2, <2>3, <2>4
  <1>9. CASE ReadBytes(n, i)
    <2>1. /\ Stream(n, 0)[1] = <<"data", ReadBuffer(n)>>
          /\ sessions' = [sessions EXCEPT ![n][1].readBufferSize = NoMessage]
          /\ \/ UNCHANGED received
             \/ received' = [received EXCEPT ![<<ReadBuffer(n).from, n>>] = ReadBuffer(n).number]
      BY <1>1, <1>4, <1>6, <1>9 DEF ReadBytes
    <2>2. ReadBuffer(n) \in Message
      BY <1>6, <2>1 DEF Tokens
    <2>3. ReadBuffer(n) # NoMessage
      BY <2>2, NotAMessage
    <2> QED
      BY <1>7, <2>1, <2>3
  <1> QED
    BY <1>8, <1>9

\* The streams after a read by n.
LEMMA ReadStreams ==
    ASSUME TypeInv, ConnectionsInv, NEW n \in Nodes, NEW b, ReadsToken(n, b), backlog' = backlog,
           NEW m \in Nodes, NEW k \in 0 .. Len(backlog[m])
    PROVE  IF m = n /\ k = 0 THEN Stream(m, k)' = Tail(Stream(m, k))
           ELSE Stream(m, k)' = Stream(m, k)
  <1>1. PICK c, e : c = sessions[n][1].connection /\ e = sessions[n][1].end
    OBVIOUS
  <1>2. /\ HasConnection(n) /\ Stream(n, 0) # <<>> /\ connections' = ConnectionsRead(n, 1)
        /\ EndKept(m)
    BY DEF ReadsToken
  <1>3. /\ 1 \in 1 .. Len(sessions[n]) /\ c \in ConnectionIds /\ e \in Ends
        /\ connections[c] # NoConnection
    BY <1>1, <1>2, ConnectionHeld
  <1>4. Unread(n, 1) # <<>>
    BY <1>2, StreamCases DEF Unread
  <1>5. /\ \A d \in ConnectionIds : d # c => connections'[d] = connections[d]
        /\ connections'[c].toRead[e] = Tail(connections[c].toRead[e])
        /\ connections'[c].toRead[Peer(e)] = connections[c].toRead[Peer(e)]
    BY <1>1, <1>2, <1>3, <1>4, ConnectionRead
  <1>6. /\ HasConnection(m) =>
              Stream(m, 0)' = connections'[sessions[m][1].connection].toRead[sessions[m][1].end]
        /\ ~HasConnection(m) => Stream(m, 0)' = Stream(m, 0)
        /\ \A o \in Nat \ {0} : Stream(m, o)' = connections'[backlog[m][o][1]].toRead["server"]
    BY <1>2, StreamCases, StreamCasesNext DEF EndKept
  <1>7. CASE k = 0 /\ m = n
    BY <1>1, <1>2, <1>5, <1>6, <1>7, StreamCases, Zenon
  <1>8. CASE k = 0 /\ m # n /\ HasConnection(m)
    <2>1. /\ 1 \in 1 .. Len(sessions[m]) /\ sessions[m][1].connection \in ConnectionIds
          /\ sessions[m][1].end \in Ends
      BY <1>8, ConnectionHeld
    <2>2. sessions[m][1].connection # c \/ sessions[m][1].end # e
      BY <1>1, <1>3, <1>8, <2>1 DEF ConnectionsInv, EndsInv, HasConnection
    <2>3. sessions[m][1].end = e \/ sessions[m][1].end = Peer(e)
      BY <1>3, <2>1, EndFacts
    <2> QED
      BY <1>5, <1>6, <1>8, <2>1, <2>2, <2>3, StreamCases
  <1>9. CASE k = 0 /\ m # n /\ ~HasConnection(m)
    BY <1>6, <1>9
  <1>10. CASE k # 0
    <2>1. k \in 1 .. Len(backlog[m]) /\ k \in Nat \ {0}
      BY <1>10 DEF TypeInv
    <2>2. backlog[m][k][1] \in ConnectionIds
      BY <2>1, BacklogFields
    <2>3. backlog[m][k][1] = c => e = "client" /\ Peer(e) = "server"
      BY <1>1, <1>3, <2>1 DEF ConnectionsInv, EndsInv, Peer
    <2>4. Stream(m, k)' = Stream(m, k)
      BY <1>5, <1>6, <2>1, <2>2, <2>3, StreamCases
    <2> QED
      BY <1>10, <2>4
  <1> QED
    BY <1>7, <1>8, <1>9, <1>10

\* A read closes no connection.
LEMMA ReadKeepsClosed ==
    ASSUME TypeInv, ConnectionsInv, NEW n \in Nodes, NEW b, ReadsToken(n, b)
    PROVE  ClosedKept
  <1>1. PICK c : c = sessions[n][1].connection
    OBVIOUS
  <1>2. /\ HasConnection(n) /\ Stream(n, 0) # <<>> /\ connections' = ConnectionsRead(n, 1)
    BY DEF ReadsToken
  <1>3. 1 \in 1 .. Len(sessions[n]) /\ c \in ConnectionIds /\ connections[c] # NoConnection
    BY <1>1, <1>2, ConnectionHeld
  <1>4. Unread(n, 1) # <<>>
    BY <1>2, StreamCases DEF Unread
  <1>5. /\ \A d \in ConnectionIds : d # c => connections'[d] = connections[d]
        /\ connections'[c].closed = connections[c].closed
    BY <1>1, <1>2, <1>3, <1>4, ConnectionRead
  <1> QED
    BY <1>5 DEF ClosedKept

\* The first of the stream is the oldest of what can be read.
LEMMA ReadOrder ==
    ASSUME TwoDevices, TypeInv, TypeInv', ConnectionsInv, ConnectionsInv', OrderInv,
           NEW n \in Nodes, NEW i \in 1 .. Len(sessions[n]), ReadSize(n, i) \/ ReadBytes(n, i)
    PROVE  OrderInv'
  <1>1. backlog' = backlog /\ sent' = sent
    BY DEF ReadSize, ReadBytes, dataVars
  <1>2. PICK b \in Message \cup {NoMessage} :
           /\ ReadsToken(n, b)
           /\ \/ /\ ReadBuffer(n) = NoMessage /\ SizeAt(n, 0, 1) /\ b = MessageAt(n, 0, 1)
                 /\ UNCHANGED received
              \/ /\ ReadBuffer(n) # NoMessage /\ b = NoMessage
                 /\ \/ UNCHANGED received
                    \/ received' = [received EXCEPT ![<<ReadBuffer(n).from, n>>] =
                                       ReadBuffer(n).number]
    BY ReadEffect
  <1> SUFFICES ASSUME NEW p \in Nodes, NEW q \in Nodes, p # q PROVE LinkInv(p, q)' /\ AliveInv(p, q)'
    BY DEF OrderInv
  <1>3. LinkInv(p, q) /\ AliveInv(p, q)
    BY DEF OrderInv
  <1>4. EndKept(p) /\ EndKept(q)
    BY <1>2 DEF ReadsToken
  <1>c. ClosedKept
    BY <1>2, ReadKeepsClosed
  <1>5. AliveInv(p, q)'
    BY <1>1, <1>3, <1>4, <1>c, AliveQuiet
  <1>6. Places(q)' \subseteq Places(q)
    BY <1>1, <1>c, PlacesSame
  <1>7. sent[<<p, q>>] <= sent'[<<p, q>>] /\ Len(backlog[q]) \in Nat /\ <<p, q>> \in Links
    BY <1>1, LinkTypes
  <1>8. CASE q # n
    <2>1. SizesSame(q)
      BY <1>1, <1>2, <1>6, <1>8, ReadStreams, SizesOfStreams DEF SizesSame
    <2>2. received'[<<p, q>>] = received[<<p, q>>]
      <3>1. received \in [Links -> 0 .. MaxMessages]
        BY DEF TypeInv
      <3> QED
        BY <1>2, <1>7, <1>8, <3>1
    <2>3. ReadBuffer(q)' = ReadBuffer(q)
      BY <1>2, <1>8 DEF ReadsToken, ReadBuffer
    <2> QED
      BY <1>3, <1>5, <1>7, <2>1, <2>2, <2>3, OrderSame
  <1>9. CASE q = n
    <2> DEFINE f == [k \in Nat |-> k]
               g == [k \in Nat |-> IF k = 0 THEN 1 ELSE 0]
    <2>1. /\ \A k \in 0 .. Len(backlog[q]) : f[k] = k /\ f[k] \in 0 .. Len(backlog[q])
          /\ \A k \in 0 .. Len(backlog[q]) : g[k] \in Nat /\ (k # 0 => g[k] = 0)
          /\ f[0] = 0 /\ g[0] = 1
      BY <1>7
    <2> HIDE DEF f, g
    <2>2. ASSUME NEW k \in 0 .. Len(backlog[q]), NEW j \in Nat, SizeAt(q, k, j)'
          PROVE  SizeAt(q, k, j + g[k]) /\ MessageAt(q, k, j)' = MessageAt(q, k, j + g[k])
      <3>1. CASE k = 0
        <4>1. Stream(q, 0) \in Seq(Tokens) /\ Stream(q, 0) # <<>>
          BY <1>2, <1>9, <2>2, <3>1, StreamType DEF ReadsToken
        <4>2. \A s \in Seq(Tokens) : s # <<>> => \A l \in 1 .. Len(Tail(s)) :
                 l + 1 \in 1 .. Len(s) /\ Tail(s)[l] = s[l + 1]
          OBVIOUS
        <4>3. Stream(q, 0)' = Tail(Stream(q, 0))
          BY <1>1, <1>2, <1>9, <2>2, <3>1, ReadStreams
        <4>4. /\ j \in 1 .. Len(Tail(Stream(q, 0))) /\ Tail(Stream(q, 0))[j][1] = "size"
              /\ MessageAt(q, 0, j)' = Tail(Stream(q, 0))[j][2]
          BY <2>2, <3>1, <4>3 DEF SizeAt, MessageAt
        <4>5. SizeAt(q, 0, j + 1) /\ MessageAt(q, 0, j)' = MessageAt(q, 0, j + 1)
          BY <4>1, <4>2, <4>4 DEF SizeAt, MessageAt
        <4> QED
          BY <2>1, <3>1, <4>5
      <3>2. CASE k # 0
        <4>1. Stream(q, k)' = Stream(q, k)
          BY <1>1, <1>2, <3>2, ReadStreams
        <4>2. j + g[k] = j
          BY <2>1, <3>2
        <4> QED
          BY <2>2, <4>1, <4>2, SizesOfStreams
      <3> QED
        BY <3>1, <3>2
    <2>3. SizesKept(q, f, g)
      BY <1>1, <1>6, <2>1, <2>2 DEF SizesKept
    <2>4. ReadBuffer(q)' = b
      BY <1>2, <1>9 DEF ReadsToken, ReadBuffer
    <2>5. \A k \in 1 .. Len(backlog'[q]) : f[k] > 0
      BY <1>1, <1>7, <2>1
    <2>6. ReadKept(p, q, f, g)
      <3>1. CASE UNCHANGED received /\ ReadBuffer(n) # NoMessage /\ b = NoMessage
        BY <2>4, <3>1 DEF ReadKept
      <3>2. CASE /\ UNCHANGED received /\ ReadBuffer(n) = NoMessage /\ SizeAt(n, 0, 1)
                 /\ b = MessageAt(n, 0, 1)
        BY <1>9, <2>1, <2>4, <2>5, <3>2 DEF ReadKept
      <3>3. CASE /\ ReadBuffer(n) # NoMessage /\ b = NoMessage
                 /\ received' = [received EXCEPT ![<<ReadBuffer(n).from, n>>] = ReadBuffer(n).number]
        <4>1. ReadBuffer(n).from = p
          BY <1>3, <1>9, <3>3 DEF LinkInv, NumbersInv
        <4>2. received \in [Links -> 0 .. MaxMessages]
          BY DEF TypeInv
        <4>3. received'[<<p, q>>] = ReadBuffer(q).number
          BY <1>7, <1>9, <3>3, <4>1, <4>2
        <4> QED
          BY <1>9, <2>4, <3>3, <4>3 DEF ReadKept
      <3> QED
        BY <1>2, <3>1, <3>2, <3>3
    <2> QED
      BY <1>3, <1>5, <1>7, <2>3, <2>6, OrderKept
  <1> QED
    BY <1>8, <1>9

\* Of two devices, the links are from one to the other and back.
LEMMA TwoLinks ==
    ASSUME TwoDevices, NEW n \in Nodes, NEW m \in Nodes, n # m,
           NEW p \in Nodes, NEW q \in Nodes, p # q
    PROVE  (p = n /\ q = m) \/ (p = m /\ q = n)
  BY DEF TwoDevices

\* The places of m stay, but for new ones at the end, which are empty.
LEMMA PlacesKept ==
    ASSUME TypeInv, TypeInv', ConnectionsInv, ConnectionsInv', ToReadKept, ClosedKept,
           NEW m \in Nodes, EndKept(m) \/ Stream(m, 0)' = <<>>,
           \A k \in 1 .. Len(backlog'[m]) :
              \/ k \in 1 .. Len(backlog[m]) /\ backlog'[m][k] = backlog[m][k]
              \/ Stream(m, k)' = <<>>
    PROVE  SizesSame(m)
  <1>1. Len(backlog[m]) \in Nat
    BY DEF TypeInv
  <1>2. Len(backlog'[m]) \in Nat
    BY DEF TypeInv
  <1> SUFFICES ASSUME NEW k \in 0 .. Len(backlog'[m]), NEW j \in Nat, SizeAt(m, k, j)'
               PROVE  /\ k \in 0 .. Len(backlog[m]) /\ SizeAt(m, k, j)
                      /\ MessageAt(m, k, j)' = MessageAt(m, k, j)
                      /\ k \in Places(m)' => k \in Places(m)
    BY DEF SizesSame
  <1>3. Stream(m, k)' # <<>>
    BY SizesOfStreams
  <1>4. CASE k = 0
    <2>1. Stream(m, 0)' = Stream(m, 0)
      BY <1>3, <1>4, KeptStreams, StreamCases, StreamCasesNext DEF EndKept
    <2>2. 0 \in 0 .. Len(backlog[m])
      BY <1>1
    <2>3. 0 \in Places(m)
      BY <2>2 DEF Places
    <2> QED
      BY <1>4, <2>1, <2>2, <2>3, SizesOfStreams
  <1>5. CASE k # 0
    <2>1. k \in 1 .. Len(backlog'[m])
      BY <1>2, <1>5
    <2>2. k \in 1 .. Len(backlog[m]) /\ backlog'[m][k] = backlog[m][k]
      BY <1>3, <2>1
    <2>3. Stream(m, k)' = Stream(m, k)
      BY <2>1, <2>2, KeptStreams
    <2>4. k \in 0 .. Len(backlog[m])
      BY <1>1, <2>2
    <2>5. Alive(m, k)' => Alive(m, k)
      BY <2>1, <2>2, AliveBefore
    <2>6. k \in Places(m)' => k \in Places(m)
      BY <1>5, <2>4, <2>5 DEF Places
    <2> QED
      BY <2>3, <2>4, <2>6, SizesOfStreams
  <1> QED
    BY <1>4, <1>5

\* A new connection is behind all that wait, and empty.
LEMMA ConnectedOrder ==
    ASSUME TwoDevices, TypeInv, TypeInv', ConnectionsInv, ConnectionsInv', OrderInv,
           NEW n \in Nodes, NEW i \in 1 .. Len(sessions[n]), Connected(n, i)
    PROVE  OrderInv'
  <1>1. PICK c \in ConnectionIds, m \in Nodes, r \in Session : Connects(n, i, c, m, r)
    BY ConnectedEffect
  <1>2. sent' = sent /\ received' = received
    BY DEF Connected, dataVars
  <1>3. i = 1 /\ Len(sessions[n]) = 1 /\ ~HasConnection(n) /\ m # n
    BY <1>1, TheSession DEF Connects, HasConnection
  <1>4. SessionChanged(n, 1, r) /\ sessions \in [Nodes -> Seq(Session)]
    BY <1>1, <1>3, SessionUpdated DEF Connects, TypeInv
  <1>5. Len(sessions'[n]) = 1 /\ sessions'[n][1] = r
    BY <1>3, <1>4 DEF SessionChanged
  <1>6. sessions'[m] = sessions[m]
    BY <1>1, <1>3, <1>4 DEF Connects
  <1>7. /\ HasConnection(n)' /\ sessions'[n][1].connection = c /\ sessions'[n][1].end = "client"
        /\ ReadBuffer(n)' = NoMessage
    BY <1>1, <1>5 DEF Connects, HasConnection, ReadBuffer
  <1>8. BacklogAdded(m, c, n)
    BY <1>1, BacklogAppended DEF Connects
  <1>9. ToReadKept /\ ClosedKept /\ \A e \in Ends : connections'[c].toRead[e] = <<>>
    BY <1>1 DEF Connects, ToReadKept, ClosedKept
  <1>10. Stream(n, 0)' = <<>>
    BY <1>7, <1>9, StreamCasesNext DEF Ends
  <1>11. EndKept(m) /\ ReadBuffer(m)' = ReadBuffer(m)
    BY <1>6 DEF EndKept, HasConnection, ReadBuffer
  <1>12. SizesSame(n)
    <2>1. backlog'[n] = backlog[n]
      BY <1>3, <1>8 DEF BacklogAdded
    <2> QED
      BY <1>9, <1>10, <2>1, PlacesKept
  <1>13. SizesSame(m)
    <2>1. ASSUME NEW k \in 1 .. Len(backlog'[m])
          PROVE  \/ k \in 1 .. Len(backlog[m]) /\ backlog'[m][k] = backlog[m][k]
                 \/ Stream(m, k)' = <<>>
      <3>1. k \in 1 .. Len(backlog[m]) \/ k = Len(backlog[m]) + 1
        BY <1>8 DEF BacklogAdded
      <3>2. CASE k \in 1 .. Len(backlog[m])
        BY <1>8, <3>2 DEF BacklogAdded
      <3>3. CASE k = Len(backlog[m]) + 1
        <4>1. k \in Nat \ {0} /\ backlog'[m][k][1] = c
          BY <1>8, <3>3 DEF BacklogAdded
        <4> QED
          BY <1>9, <4>1, StreamCasesNext DEF Ends
      <3> QED
        BY <3>1, <3>2, <3>3
    <2> QED
      BY <1>9, <1>11, <2>1, PlacesKept
  <1>14. AliveInv(n, m)'
    <2>1. AliveInv(n, m)
      BY <1>3 DEF OrderInv
    <2> SUFFICES ASSUME NEW k \in 1 .. Len(backlog'[m]), Alive(m, k)'
                 PROVE  c = backlog'[m][k][1]
      BY <1>7 DEF AliveInv
    <2>2. CASE k \in 1 .. Len(backlog[m])
      <3>1. backlog'[m][k] = backlog[m][k]
        BY <1>8, <2>2 DEF BacklogAdded
      <3>2. Alive(m, k)
        BY <1>9, <2>2, <3>1, AliveBefore
      <3> QED
        BY <1>3, <2>1, <2>2, <3>2 DEF AliveInv
    <2>3. CASE k = Len(backlog[m]) + 1
      BY <1>8, <2>3 DEF BacklogAdded
    <2>4. k \in 1 .. Len(backlog[m]) \/ k = Len(backlog[m]) + 1
      BY <1>8 DEF BacklogAdded
    <2> QED
      BY <2>2, <2>3, <2>4
  <1>15. AliveInv(m, n)'
    <2>1. backlog'[n] = backlog[n] /\ AliveInv(m, n)
      BY <1>3, <1>8 DEF BacklogAdded, OrderInv
    <2> QED
      BY <1>9, <1>11, <2>1, AliveQuiet
  <1> SUFFICES ASSUME NEW p \in Nodes, NEW q \in Nodes, p # q PROVE LinkInv(p, q)' /\ AliveInv(p, q)'
    BY DEF OrderInv
  <1>16. (p = n /\ q = m) \/ (p = m /\ q = n)
    BY <1>3, TwoLinks
  <1>17. LinkInv(p, q) /\ sent[<<p, q>>] <= sent'[<<p, q>>]
    BY <1>2, LinkTypes DEF OrderInv
  <1>18. LinkInv(p, q)'
    BY <1>2, <1>7, <1>11, <1>12, <1>13, <1>16, <1>17, OrderSame
  <1> QED
    BY <1>14, <1>15, <1>16, <1>18

\* The first connection of q is taken from those that wait.
LEMMA TakenAlive ==
    ASSUME TypeInv, ConnectionsInv, ConnectionsInv', ClosedKept, NEW p \in Nodes, NEW q \in Nodes,
           EndKept(p), AliveInv(p, q),
           Len(backlog[q]) \in Nat, Len(backlog'[q]) = Len(backlog[q]) - 1,
           \A k \in 1 .. Len(backlog'[q]) : backlog'[q][k] = backlog[q][k + 1]
    PROVE  AliveInv(p, q)'
  <1> SUFFICES ASSUME NEW k \in 1 .. Len(backlog'[q]), Alive(q, k)'
               PROVE  HasConnection(p)' /\ sessions'[p][1].connection = backlog'[q][k][1]
    BY DEF AliveInv
  <1>1. k + 1 \in 1 .. Len(backlog[q])
    OBVIOUS
  <1>2. Alive(q, k + 1)
    BY <1>1, AliveBefore
  <1>3. HasConnection(p) /\ sessions[p][1].connection = backlog[q][k + 1][1]
    BY <1>1, <1>2 DEF AliveInv
  <1> QED
    BY <1>3 DEF EndKept

\* Then the places behind it move up.
LEMMA PlacesTaken ==
    ASSUME TypeInv, ConnectionsInv, ConnectionsInv', ClosedKept, NEW q \in Nodes,
           Len(backlog[q]) \in Nat, Len(backlog'[q]) = Len(backlog[q]) - 1,
           \A k \in 1 .. Len(backlog'[q]) : backlog'[q][k] = backlog[q][k + 1],
           NEW k \in Places(q)', k # 0
    PROVE  k + 1 \in Places(q)
  <1>1. k \in 0 .. Len(backlog'[q]) /\ Alive(q, k)'
    BY DEF Places
  <1>2. k \in 1 .. Len(backlog'[q]) /\ k + 1 \in 1 .. Len(backlog[q]) /\ k + 1 \in 0 .. Len(backlog[q])
    BY <1>1
  <1>3. Alive(q, k + 1)
    BY <1>1, <1>2, AliveBefore
  <1> QED
    BY <1>2, <1>3 DEF Places

\* The first that waits becomes the session, when there was none: all move up.
LEMMA AcceptedOrder ==
    ASSUME TwoDevices, TypeInv, TypeInv', ConnectionsInv, ConnectionsInv', OrderInv,
           NEW n \in Nodes, NEW c \in ConnectionIds, NEW m \in Nodes, Accepts(n, c, m),
           Alive(n, 1), UNCHANGED <<connections, sent, received>>
    PROVE  OrderInv'
  <1>1. /\ Len(backlog[n]) \in Nat /\ 1 \in 1 .. Len(backlog[n])
        /\ Len(backlog'[n]) = Len(backlog[n]) - 1
        /\ \A k \in 1 .. Len(backlog'[n]) : backlog'[n][k] = backlog[n][k + 1]
        /\ \A p \in Nodes : p # n => backlog'[p] = backlog[p]
    BY BacklogTaken DEF Accepts
  <1>2. m # n /\ c = backlog[n][1][1]
    BY <1>1 DEF Accepts, ConnectionsInv, OthersInv
  <1>3. Len(sessions[n]) = 0
    <2>1. Len(sessions[n]) = 0 \/ Len(sessions[n]) = 1
      BY TwoSessions
    <2>2. 1 .. Len(sessions[n]) = {}
      BY <1>2, TwoSessions DEF Accepts
    <2>3. 1 \in 1 .. 1
      OBVIOUS
    <2> QED
      BY <2>1, <2>2, <2>3
  <1>4. /\ sessions' = [sessions EXCEPT ![n] = Append(@, ServerSession(m, c))]
        /\ ServerSession(m, c) \in Session /\ ServerSession(m, c).connection = c
        /\ ServerSession(m, c).end = "server" /\ ServerSession(m, c).readBufferSize = NoMessage
    BY NewSessions DEF Accepts
  <1>5. /\ Len(sessions'[n]) = Len(sessions[n]) + 1
        /\ sessions'[n][Len(sessions[n]) + 1] = ServerSession(m, c)
        /\ sessions'[m] = sessions[m]
    BY <1>2, <1>4, SessionAppended
  <1>6. Len(sessions'[n]) = 1 /\ sessions'[n][1] = ServerSession(m, c)
    BY <1>3, <1>5
  <1>7. ~HasConnection(n)
    BY <1>3 DEF HasConnection
  <1>8. /\ HasConnection(n)' /\ sessions'[n][1].connection = c /\ sessions'[n][1].end = "server"
        /\ ReadBuffer(n)' = NoMessage
    <2>1. c # NoConnection
      BY TcpAssumption DEF ConnectionIds
    <2> QED
      BY <1>4, <1>6, <2>1 DEF HasConnection, ReadBuffer
  <1>9. ToReadKept /\ ClosedKept
    BY DEF ToReadKept, ClosedKept
  <1>10. EndKept(m) /\ ReadBuffer(m)' = ReadBuffer(m)
    BY <1>5 DEF EndKept, HasConnection, ReadBuffer
  <1>11. LinkInv(n, m) /\ LinkInv(m, n) /\ AliveInv(n, m) /\ AliveInv(m, n)
    BY <1>2 DEF OrderInv
  <1>13. sent[<<n, m>>] <= sent'[<<n, m>>] /\ sent[<<m, n>>] <= sent'[<<m, n>>]
    BY <1>2, LinkTypes
  <1>14. LinkInv(n, m)' /\ AliveInv(n, m)'
    <2>1. backlog'[m] = backlog[m]
      BY <1>1, <1>2
    <2>2. SizesSame(m)
      BY <1>9, <1>10, <2>1, PlacesKept
    <2>3. LinkInv(n, m)'
      BY <1>2, <1>10, <1>11, <1>13, <2>2, OrderSame
    <2>4. \A k \in 1 .. Len(backlog[m]) : Alive(m, k)' => Alive(m, k)
      BY <1>9, <2>1, AliveBefore
    <2>5. \A k \in 1 .. Len(backlog[m]) : ~Alive(m, k)
      BY <1>7, <1>11 DEF AliveInv
    <2> QED
      BY <2>1, <2>3, <2>4, <2>5 DEF AliveInv
  <1>15. LinkInv(m, n)' /\ AliveInv(m, n)'
    <2>1. AliveInv(m, n)'
      BY <1>1, <1>9, <1>10, <1>11, TakenAlive
    <2> DEFINE a == [k \in Nat |-> k + 1]
               b == [k \in Nat |-> 0]
    <2>2. \A k \in 0 .. Len(backlog'[n]) :
             a[k] = k + 1 /\ b[k] = 0 /\ k + 1 \in 0 .. Len(backlog[n])
      BY <1>1
    <2> HIDE DEF a, b
    <2>3. ASSUME NEW k \in 0 .. Len(backlog'[n])
          PROVE  Stream(n, k)' = Stream(n, k + 1)
      <3>1. CASE k = 0
        BY <1>1, <1>2, <1>8, <1>9, <3>1, KeptStreams
      <3>2. CASE k # 0
        <4>1. k \in 1 .. Len(backlog'[n]) /\ k + 1 \in 1 .. Len(backlog[n])
          BY <1>1, <3>2
        <4> QED
          BY <1>1, <1>9, <4>1, KeptStreams
      <3> QED
        BY <3>1, <3>2
    <2>4. ASSUME NEW k \in 0 .. Len(backlog'[n]), NEW j \in Nat, SizeAt(n, k, j)'
          PROVE  SizeAt(n, k + 1, j) /\ MessageAt(n, k, j)' = MessageAt(n, k + 1, j)
      BY <2>3, <2>4, SizesOfStreams
    <2>a. 1 \in Places(n)
      BY <1>1 DEF Places
    <2>b. \A k \in Places(n)' : k + 1 \in Places(n)
      <3> SUFFICES ASSUME NEW k \in Places(n)' PROVE k + 1 \in Places(n)
        OBVIOUS
      <3>1. CASE k = 0
        BY <2>a, <3>1
      <3>2. CASE k # 0
        BY <1>1, <1>9, <3>2, PlacesTaken
      <3> QED
        BY <3>1, <3>2
    <2>5. SizesKept(n, a, b)
      BY <2>2, <2>4, <2>b DEF SizesKept
    <2>6. ReadKept(m, n, a, b)
      BY <1>8 DEF ReadKept
    <2> QED
      BY <1>2, <1>11, <1>13, <2>1, <2>5, <2>6, OrderKept
  <1> QED
    BY <1>2, <1>14, <1>15, TwoLinks DEF OrderInv

\* The first that waits gets lost, and those behind it move up.
LEMMA RefusedOrder ==
    ASSUME TwoDevices, TypeInv, TypeInv', ConnectionsInv, ConnectionsInv', OrderInv,
           NEW n \in Nodes, NEW c \in ConnectionIds, Refuses(n, c),
           UNCHANGED <<sessions, sent, received>>
    PROVE  OrderInv'
  <1>1. /\ Len(backlog[n]) \in Nat /\ 1 \in 1 .. Len(backlog[n])
        /\ Len(backlog'[n]) = Len(backlog[n]) - 1
        /\ \A k \in 1 .. Len(backlog'[n]) : backlog'[n][k] = backlog[n][k + 1]
        /\ \A p \in Nodes : p # n => backlog'[p] = backlog[p]
    BY BacklogTaken DEF Refuses
  <1>2. ToReadKept /\ ClosedKept
    <2>1. connections[c] # NoConnection /\ "server" \in Ends /\ connections' = Closed(c, "server")
      BY <1>1 DEF Refuses, ConnectionsInv, OpenInv, Ends
    <2> QED
      BY <2>1, ConnectionClosed DEF ToReadKept, ClosedKept
  <1> SUFFICES ASSUME NEW p \in Nodes, NEW q \in Nodes, p # q PROVE LinkInv(p, q)' /\ AliveInv(p, q)'
    BY DEF OrderInv
  <1>3. LinkInv(p, q) /\ AliveInv(p, q) /\ sent[<<p, q>>] <= sent'[<<p, q>>]
    BY LinkTypes DEF OrderInv
  <1>4. EndKept(p) /\ EndKept(q) /\ ReadBuffer(q)' = ReadBuffer(q)
    BY DEF EndKept, HasConnection, ReadBuffer
  <1>6. CASE q # n
    <2>1. backlog'[q] = backlog[q]
      BY <1>1, <1>6
    <2>2. SizesSame(q)
      BY <1>2, <1>4, <2>1, PlacesKept
    <2> QED
      BY <1>2, <1>3, <1>4, <2>1, <2>2, AliveQuiet, OrderSame
  <1>7. CASE q = n
    <2>1. AliveInv(p, n)'
      BY <1>1, <1>2, <1>3, <1>4, <1>7, TakenAlive
    <2> DEFINE a == [k \in Nat |-> IF k = 0 THEN 0 ELSE k + 1]
               b == [k \in Nat |-> 0]
    <2>2. /\ \A k \in 0 .. Len(backlog'[n]) : b[k] = 0 /\ a[k] \in 0 .. Len(backlog[n])
          /\ \A k \in 1 .. Len(backlog'[n]) : a[k] = k + 1
          /\ \A k, l \in 0 .. Len(backlog'[n]) : k < l => a[k] < a[l]
          /\ a[0] = 0
      BY <1>1
    <2> HIDE DEF a, b
    <2>3. ASSUME NEW k \in 0 .. Len(backlog'[n])
          PROVE  Stream(n, k)' = Stream(n, a[k])
      <3>1. CASE k = 0
        <4>1. Stream(n, 0)' = Stream(n, 0)
          BY <1>2, <1>4, <1>7, KeptStreams, StreamCases, StreamCasesNext DEF EndKept
        <4> QED
          BY <2>2, <3>1, <4>1
      <3>2. CASE k # 0
        <4>1. k \in 1 .. Len(backlog'[n]) /\ k + 1 \in 1 .. Len(backlog[n])
          BY <1>1, <3>2
        <4>2. Stream(n, k)' = Stream(n, k + 1)
          BY <1>1, <1>2, <4>1, KeptStreams
        <4> QED
          BY <2>2, <4>1, <4>2
      <3> QED
        BY <3>1, <3>2
    <2>4. ASSUME NEW k \in 0 .. Len(backlog'[n]), NEW j \in Nat, SizeAt(n, k, j)'
          PROVE  SizeAt(n, a[k], j) /\ MessageAt(n, k, j)' = MessageAt(n, a[k], j)
      BY <2>3, <2>4, SizesOfStreams
    <2>b. \A k \in Places(n)' : a[k] \in Places(n)
      <3> SUFFICES ASSUME NEW k \in Places(n)' PROVE a[k] \in Places(n)
        OBVIOUS
      <3>1. CASE k = 0
        BY <1>1, <2>2, <3>1 DEF Places
      <3>2. CASE k # 0
        <4>1. k \in 1 .. Len(backlog'[n])
          BY <1>1, <3>2 DEF Places
        <4>2. k + 1 \in Places(n)
          BY <1>1, <1>2, <3>2, PlacesTaken
        <4> QED
          BY <2>2, <4>1, <4>2
      <3> QED
        BY <3>1, <3>2
    <2>5. SizesKept(n, a, b)
      BY <2>2, <2>4, <2>b DEF SizesKept
    <2>6. ReadKept(p, n, a, b)
      BY <1>4, <1>7 DEF ReadKept
    <2> QED
      BY <1>3, <1>7, <2>1, <2>5, <2>6, OrderKept
  <1> QED
    BY <1>6, <1>7

\* Both cases of startAccept.
LEMMA AcceptOrder ==
    ASSUME TwoDevices, TypeInv, TypeInv', ConnectionsInv, ConnectionsInv', OrderInv,
           NEW n \in Nodes, Accept(n), AcceptsAlive
    PROVE  OrderInv'
  <1>1. UNCHANGED <<sent, received>>
    BY DEF Accept, dataVars
  <1>2. backlog[n] # <<>> /\ backlog' = [backlog EXCEPT ![n] = Tail(@)]
    BY DEF Accept
  <1>3. Head(backlog[n]) = backlog[n][1] /\ 1 \in 1 .. Len(backlog[n])
    BY <1>2, BacklogTaken
  <1>4. PICK c, m : c = Head(backlog[n])[1] /\ m = Head(backlog[n])[2]
    OBVIOUS
  <1>5. /\ c \in ConnectionIds /\ m \in Nodes /\ c = backlog[n][1][1] /\ m = backlog[n][1][2]
    BY <1>3, <1>4, BacklogFields
  <1>6. CASE SessionsTo(n, m) = {}
    <2>1. /\ sessions' = [sessions EXCEPT ![n] = Append(@, ServerSession(m, c))]
          /\ UNCHANGED connections
      BY <1>4, <1>6 DEF Accept
    <2>2. Accepts(n, c, m)
      BY <1>2, <1>5, <1>6, <2>1 DEF Accepts
    <2>3. sessions' # sessions
      <3>1. ServerSession(m, c) \in Session
        BY <1>5, NewSessions
      <3>2. Len(sessions'[n]) = Len(sessions[n]) + 1
        BY <2>1, <3>1, SessionAppended
      <3>3. Len(sessions[n]) \in Nat
        BY DEF TypeInv
      <3> QED
        BY <3>2, <3>3
    <2>4. Alive(n, 1)
      BY <2>3 DEF AcceptsAlive
    <2> QED
      BY <1>1, <1>5, <2>1, <2>2, <2>4, AcceptedOrder
  <1>7. CASE SessionsTo(n, m) # {}
    <2>1. connections' = Closed(c, "server") /\ UNCHANGED sessions
      BY <1>4, <1>7 DEF Accept, sessionVars
    <2>2. Refuses(n, c)
      BY <1>2, <1>5, <2>1 DEF Refuses
    <2> QED
      BY <1>1, <1>5, <2>1, <2>2, RefusedOrder
  <1> QED
    BY <1>6, <1>7

\* A session is closed, and what it had not read is lost.
LEMMA ReadErrorOrder ==
    ASSUME TwoDevices, TypeInv, TypeInv', ConnectionsInv, ConnectionsInv', OrderInv,
           NEW n \in Nodes, NEW i \in 1 .. Len(sessions[n]), ReadError(n, i)
    PROVE  OrderInv'
  <1>1. PICK c, e : c = sessions[n][1].connection /\ e = sessions[n][1].end
    OBVIOUS
  <1>2. i = 1 /\ Len(sessions[n]) = 1
    BY TheSession
  <1>3. /\ backlog' = backlog /\ sent' = sent /\ received' = received
        /\ sessions[n][1].state \in {"open", "garbled"} /\ SessionClosed(n, 1)
    BY <1>1, <1>2 DEF ReadError, dataVars
  <1>4. HasConnection(n)
    BY <1>2, <1>3, OpenSession DEF HasConnection
  <1>5. c \in ConnectionIds /\ e \in Ends /\ connections[c] # NoConnection /\ 1 \in 1 .. Len(sessions[n])
    BY <1>1, <1>4, ConnectionHeld
  <1>6. ToReadKept /\ ClosedKept /\ (connections'[c] # NoConnection => e \in connections'[c].closed)
    <2>1. connections' = Closed(c, e)
      BY <1>1, <1>3, <1>4 DEF SessionClosed, HasConnection
    <2> QED
      BY <1>5, <2>1, ConnectionClosed DEF ToReadKept, ClosedKept
  <1>7. Len(sessions'[n]) = 0 /\ \A p \in Nodes : p # n => sessions'[p] = sessions[p]
    <2>1. /\ Len(sessions'[n]) = Len(sessions[n]) - 1
          /\ \A p \in Nodes : p # n => sessions'[p] = sessions[p]
      BY <1>3, <1>5, SessionRemoved DEF SessionClosed
    <2> QED
      BY <1>2, <2>1
  <1>8. ~HasConnection(n)' /\ ReadBuffer(n)' = NoMessage /\ Stream(n, 0)' = <<>>
    BY <1>7, StreamCasesNext DEF HasConnection, ReadBuffer
  <1> SUFFICES ASSUME NEW p \in Nodes, NEW q \in Nodes, p # q PROVE LinkInv(p, q)' /\ AliveInv(p, q)'
    BY DEF OrderInv
  <1>9. LinkInv(p, q) /\ AliveInv(p, q) /\ sent[<<p, q>>] <= sent'[<<p, q>>]
    BY <1>3, LinkTypes DEF OrderInv
  <1>10. \A m \in Nodes : m # n => EndKept(m) /\ ReadBuffer(m)' = ReadBuffer(m)
    BY <1>7 DEF EndKept, HasConnection, ReadBuffer
  <1>11. SizesSame(q)
    BY <1>3, <1>6, <1>8, <1>10, PlacesKept
  <1>12. LinkInv(p, q)'
    BY <1>3, <1>8, <1>9, <1>10, <1>11, OrderSame
  <1>13. CASE p # n
    BY <1>3, <1>6, <1>9, <1>10, <1>12, <1>13, AliveQuiet
  <1>14. CASE p = n
    <2>1. ASSUME NEW k \in 1 .. Len(backlog[q]), Alive(q, k)' PROVE FALSE
      <3>1. Alive(q, k)
        BY <1>3, <1>6, <2>1, AliveBefore
      <3>2. backlog[q][k][1] = c
        BY <1>1, <1>9, <1>14, <3>1 DEF AliveInv
      <3>3. e = "client"
        BY <1>1, <1>5, <3>2 DEF ConnectionsInv, EndsInv
      <3>4. connections'[c] # NoConnection
        BY <1>3, <3>2 DEF ConnectionsInv, OpenInv
      <3> QED
        BY <1>3, <1>6, <2>1, <3>2, <3>3, <3>4 DEF Alive
    <2>2. AliveInv(p, q)'
      BY <1>3, <2>1 DEF AliveInv
    <2> QED
      BY <1>12, <2>2
  <1> QED
    BY <1>13, <1>14

\* All that a gateway had not read is lost.
LEMMA CrashOrder ==
    ASSUME TypeInv, TypeInv', ConnectionsInv, ConnectionsInv', OrderInv,
           NEW n \in Nodes, Crash(n)
    PROVE  OrderInv'
  <1>1. sent' = sent /\ received' = received
    BY DEF Crash
  <1>2. /\ Len(sessions'[n]) = 0 /\ \A p \in Nodes : p # n => sessions'[p] = sessions[p]
    <2>1. sessions' = [sessions EXCEPT ![n] = <<>>] /\ sessions \in [Nodes -> Seq(Session)]
      BY DEF Crash, TypeInv
    <2>2. sessions'[n] = <<>> /\ \A p \in Nodes : p # n => sessions'[p] = sessions[p]
      BY <2>1
    <2> QED
      BY <2>2
  <1>3. /\ Len(backlog'[n]) = 0 /\ \A p \in Nodes : p # n => backlog'[p] = backlog[p]
    <2>1. backlog' = [backlog EXCEPT ![n] = <<>>] /\ DOMAIN backlog = Nodes
      BY DEF Crash, TypeInv
    <2>2. backlog'[n] = <<>> /\ \A p \in Nodes : p # n => backlog'[p] = backlog[p]
      BY <2>1
    <2> QED
      BY <2>2
  <1>4. ToReadKept /\ ClosedKept
    BY CrashConnections DEF ToReadKept, ClosedKept
  <1>5. ~HasConnection(n)' /\ ReadBuffer(n)' = NoMessage /\ Stream(n, 0)' = <<>>
    BY <1>2, StreamCasesNext DEF HasConnection, ReadBuffer
  <1>6. \A k \in 1 .. Len(backlog'[n]) : FALSE
    BY <1>3
  <1> SUFFICES ASSUME NEW p \in Nodes, NEW q \in Nodes, p # q PROVE LinkInv(p, q)' /\ AliveInv(p, q)'
    BY DEF OrderInv
  <1>7. LinkInv(p, q) /\ AliveInv(p, q) /\ sent[<<p, q>>] <= sent'[<<p, q>>]
    BY <1>1, LinkTypes DEF OrderInv
  <1>8. \A m \in Nodes : m # n => EndKept(m) /\ ReadBuffer(m)' = ReadBuffer(m)
    BY <1>2 DEF EndKept, HasConnection, ReadBuffer
  <1>9. SizesSame(q)
    BY <1>3, <1>4, <1>5, <1>6, <1>8, PlacesKept
  <1>10. LinkInv(p, q)'
    <2>1. ReadBuffer(q)' = ReadBuffer(q) \/ ReadBuffer(q)' = NoMessage
      BY <1>5, <1>8
    <2> QED
      BY <1>1, <1>7, <1>9, <2>1, OrderSame
  <1>11. AliveInv(p, q)'
    <2>1. CASE p = n
      <3> SUFFICES ASSUME NEW k \in 1 .. Len(backlog[q]), Alive(q, k)' PROVE FALSE
        BY <1>3, <2>1 DEF AliveInv
      <3>1. PICK c : c = backlog[q][k][1]
        OBVIOUS
      <3>2. Alive(q, k)
        BY <1>3, <1>4, <2>1, AliveBefore
      <3>3. HasConnection(n) /\ sessions[n][1].connection = c
        BY <1>7, <2>1, <3>1, <3>2 DEF AliveInv
      <3>4. 1 \in 1 .. Len(sessions[n]) /\ 1 \in DOMAIN sessions[n] /\ c \in ConnectionIds
        <4>1. 1 \in 1 .. Len(sessions[n]) /\ c \in ConnectionIds
          BY <3>3, ConnectionHeld
        <4>2. DOMAIN sessions[n] = 1 .. Len(sessions[n])
          BY DEF TypeInv
        <4> QED
          BY <4>1, <4>2
      <3>5. sessions[n][1].end = "client"
        BY <3>1, <3>3, <3>4 DEF ConnectionsInv, EndsInv
      <3>6. <<c, "client">> \in EndsOf(n)
        BY <3>3, <3>4, <3>5 DEF EndsOf
      <3>7. connections'[c] # NoConnection
        BY <1>3, <2>1, <3>1 DEF ConnectionsInv, OpenInv
      <3>8. "client" \in connections'[c].closed
        <4>1. connections'[c].closed =
                 connections[c].closed \cup {e \in Ends : <<c, e>> \in EndsOf(n)}
          BY <3>4, <3>7, CrashConnections
        <4>2. "client" \in Ends
          BY DEF Ends
        <4>3. PICK S : S = EndsOf(n)
          OBVIOUS
        <4> QED
          BY <3>6, <4>1, <4>2, <4>3, Zenon
      <3> QED
        BY <1>3, <2>1, <3>1, <3>8 DEF Alive
    <2>2. CASE q = n
      BY <1>6, <2>2 DEF AliveInv
    <2>3. CASE p # n /\ q # n
      BY <1>3, <1>4, <1>7, <1>8, <2>3, AliveQuiet
    <2> QED
      BY <2>1, <2>2, <2>3
  <1> QED
    BY <1>10, <1>11

-----------------------------------------------------------------------------
\* OrderInv is inductive, together with TcpInv.
LEMMA InitOrder ==
    ASSUME NEW running \in SUBSET Nodes, InitWith(running)
    PROVE  OrderInv
  <1>1. /\ sessions = [n \in Nodes |-> <<>>] /\ backlog = [n \in Nodes |-> <<>>]
        /\ sent = [l \in Links |-> 0] /\ received = [l \in Links |-> 0]
    BY DEF InitWith
  <1> SUFFICES ASSUME NEW n \in Nodes, NEW m \in Nodes, n # m PROVE LinkInv(n, m) /\ AliveInv(n, m)
    BY DEF OrderInv
  <1>2. Len(sessions[m]) = 0 /\ Len(backlog[m]) = 0
    BY <1>1
  <1>3. ~HasConnection(m) /\ ReadBuffer(m) = NoMessage
    BY <1>2 DEF HasConnection, ReadBuffer
  <1>4. Stream(m, 0) = <<>>
    BY <1>3, StreamCases
  <1>5. \A k \in 0 .. Len(backlog[m]) : k = 0
    BY <1>2
  <1>6. \A k \in 0 .. Len(backlog[m]), j \in Nat : ~SizeAt(m, k, j)
    <2>1. \A j : ~SizeAt(m, 0, j)
      BY <1>4 DEF SizeAt
    <2> QED
      BY <1>5, <2>1
  <1>7. \A k \in Places(m) : k \in 0 .. Len(backlog[m])
    BY <1>2 DEF Places
  <1>8. received[<<n, m>>] <= sent[<<n, m>>]
    <2>1. <<n, m>> \in Links
      BY DEF Links
    <2> QED
      BY <1>1, <2>1
  <1>9. LinkInv(n, m)
    BY <1>3, <1>6, <1>7, <1>8 DEF LinkInv, NumbersInv, SortedInv, UnreadInv
  <1>10. \A k \in 1 .. Len(backlog[m]) : FALSE
    BY <1>2
  <1> QED
    BY <1>9, <1>10 DEF AliveInv

LEMMA NextOrder ==
    ASSUME TwoDevices, TcpInv, OrderInv, [Next]_vars, [AcceptsAlive]_vars
    PROVE  OrderInv'
  <1>1. TypeInv /\ ConnectionsInv /\ TypeInv' /\ ConnectionsInv'
    BY NextTcpInv DEF TcpInv
  <1>2. ASSUME NEW n \in Nodes, NEW m \in Nodes, UdpDiscoveryCallback(n, m) PROVE OrderInv'
    BY <1>1, <1>2, UdpDiscoveryCallbackOrder
  <1>3. ASSUME NEW n \in Nodes, NEW i \in DOMAIN sessions[n], SessionStep(n, i) PROVE OrderInv'
    <2>1. i \in 1 .. Len(sessions[n])
      BY <1>1 DEF TypeInv
    <2>2. CASE Connected(n, i)
      BY <1>1, <2>1, <2>2, ConnectedOrder
    <2>3. CASE ConnectionFailed(n, i) \/ Retry(n, i) \/ ReadGarbled(n, i)
      BY <1>1, <2>1, <2>3, SessionStateOrder
    <2>4. CASE ReadSize(n, i) \/ ReadBytes(n, i)
      BY <1>1, <2>1, <2>4, ReadOrder
    <2>5. CASE ReadError(n, i)
      BY <1>1, <2>1, <2>5, ReadErrorOrder
    <2> QED
      BY <1>3, <2>2, <2>3, <2>4, <2>5 DEF SessionStep
  <1>4. ASSUME NEW n \in Nodes, Accept(n) PROVE OrderInv'
    <2>1. CASE AcceptsAlive
      BY <1>1, <1>4, <2>1, AcceptOrder
    <2>2. CASE UNCHANGED vars
      BY <1>1, <2>2, OtherStepsOrder
    <2> QED
      BY <2>1, <2>2
  <1>5. ASSUME NEW n \in Nodes, AcceptError(n) \/ BroadcastError(n) \/ Restart(n) PROVE OrderInv'
    BY <1>1, <1>5, OtherStepsOrder
  <1>6. ASSUME NEW n \in Nodes, NEW t \in 1 .. Threads, SendBytes(n, t) PROVE OrderInv'
    BY <1>1, <1>6, SendBytesOrder
  <1>7. ASSUME NEW n \in Nodes, NEW t \in 1 .. Threads, NEW h \in GatewayHashes, SendSize(n, t, h)
        PROVE  OrderInv'
    BY <1>1, <1>7, SendSizeOrder
  <1>8. ASSUME NEW n \in Nodes, Crash(n) PROVE OrderInv'
    BY <1>1, <1>8, CrashOrder
  <1>9. CASE UNCHANGED vars
    BY <1>1, <1>9, OtherStepsOrder
  <1> QED
    BY <1>2, <1>3, <1>4, <1>5, <1>6, <1>7, <1>8, <1>9 DEF Next

\* A read hands up the message that was begun, or nothing.
LEMMA ReadIsReceive ==
    ASSUME TwoDevices, TypeInv, ConnectionsInv, OrderInv,
           NEW n \in Nodes, NEW i \in 1 .. Len(sessions[n]), ReadSize(n, i) \/ ReadBytes(n, i)
    PROVE  UNCHANGED <<sent, received>> \/ \E l \in Links : Link!Receive(l)
  <1>1. sent' = sent
    BY DEF ReadSize, ReadBytes, dataVars
  <1>2. CASE UNCHANGED received
    BY <1>1, <1>2
  <1>3. CASE /\ ReadBuffer(n) # NoMessage
             /\ received' = [received EXCEPT ![<<ReadBuffer(n).from, n>>] = ReadBuffer(n).number]
    <2>1. PICK p \in Nodes : p # n
      BY SessionFields DEF ConnectionsInv, OthersInv
    <2>2. LinkInv(p, n) /\ <<p, n>> \in Links
      BY <2>1 DEF OrderInv, Links
    <2>3. /\ ReadBuffer(n).from = p /\ ReadBuffer(n).number <= sent[<<p, n>>]
          /\ received[<<p, n>>] < ReadBuffer(n).number
      BY <1>3, <2>2 DEF LinkInv, NumbersInv
    <2>4. ReadBuffer(n).number \in Nat /\ sent[<<p, n>>] \in Nat /\ received[<<p, n>>] \in Nat
      BY <1>3, <2>1, BufferType, LinkTypes
    <2>5. ReadBuffer(n).number \in received[<<p, n>>] + 1 .. sent[<<p, n>>]
      BY <2>3, <2>4
    <2>6. Link!Receive(<<p, n>>)
      BY <1>1, <1>3, <2>3, <2>5 DEF Link!Receive
    <2> QED
      BY <2>2, <2>6
  <1> QED
    BY <1>2, <1>3, ReadEffect

\* Every step sends a message, hands one up or does neither.
LEMMA StepRefines ==
    ASSUME TwoDevices, TcpInv, OrderInv, [Next]_vars
    PROVE  [Link!Next]_<<sent, received>>
  <1>1. TypeInv /\ ConnectionsInv
    BY DEF TcpInv
  <1>2. ASSUME NEW n \in Nodes, NEW m \in Nodes, UdpDiscoveryCallback(n, m)
        PROVE  UNCHANGED <<sent, received>>
    BY <1>2 DEF UdpDiscoveryCallback, dataVars
  <1>3. ASSUME NEW n \in Nodes, NEW i \in DOMAIN sessions[n], SessionStep(n, i)
        PROVE  UNCHANGED <<sent, received>> \/ \E l \in Links : Link!Receive(l)
    <2>1. i \in 1 .. Len(sessions[n])
      BY <1>1 DEF TypeInv
    <2>2. CASE ReadSize(n, i) \/ ReadBytes(n, i)
      BY <1>1, <2>1, <2>2, ReadIsReceive
    <2>3. CASE \/ Connected(n, i) \/ ConnectionFailed(n, i) \/ Retry(n, i)
               \/ ReadGarbled(n, i) \/ ReadError(n, i)
      BY <2>3 DEF Connected, ConnectionFailed, Retry, ReadGarbled, ReadError, dataVars
    <2> QED
      BY <1>3, <2>2, <2>3 DEF SessionStep
  <1>4. ASSUME NEW n \in Nodes, \/ Accept(n) \/ AcceptError(n) \/ BroadcastError(n)
                                \/ Restart(n) \/ Crash(n)
        PROVE  UNCHANGED <<sent, received>>
    BY <1>4 DEF Accept, AcceptError, BroadcastError, Restart, Crash, dataVars
  <1>5. ASSUME NEW n \in Nodes, NEW t \in 1 .. Threads, SendBytes(n, t)
        PROVE  UNCHANGED <<sent, received>>
    BY <1>5 DEF SendBytes
  <1>6. ASSUME NEW n \in Nodes, NEW t \in 1 .. Threads, NEW h \in GatewayHashes, SendSize(n, t, h)
        PROVE  \E l \in Links : Link!Send(l)
    <2>1. h[1] \in Nodes /\ h[1] # n
      BY <1>1, <1>6 DEF SendSize, GatewayHashes, ConnectionsInv, OthersInv
    <2>2. <<n, h[1]>> \in Links
      BY <2>1 DEF Links
    <2>3. Link!Send(<<n, h[1]>>)
      BY <1>6 DEF SendSize, Link!Send
    <2> QED
      BY <2>2, <2>3
  <1>7. CASE UNCHANGED vars
    BY <1>7 DEF vars, dataVars
  <1> QED
    BY <1>2, <1>3, <1>4, <1>5, <1>6, <1>7 DEF Next, Link!Next

LEMMA InitRefines ==
    ASSUME NEW running, InitWith(running)
    PROVE  Link!Init
  BY DEF InitWith, Link!Init

\* MessagesStayInOrder: between two devices the messages that sendData writes
\* are handed up by readInner at most once and in the order in which they were
\* sent, over all the sessions that udpDiscoveryCallback and startAccept ever
\* make, for any number of threads, messages, connections, retries, failures and
\* restarts: TcpTransport implements OrderedLink as long as startAccept makes no
\* session for a connection that its client has closed while it waited.  Order
\* can be lost in no other way.
THEOREM MessagesStayInOrder ==
    ASSUME TwoDevices
    PROVE  Spec /\ [][AcceptsAlive]_vars => InOrder
  <1>1. Init => OrderInv /\ Link!Init
    BY InitOrder, InitRefines DEF Init
  <1>2. TcpInv /\ OrderInv /\ [Next]_vars /\ [AcceptsAlive]_vars => OrderInv'
    BY NextOrder
  <1>3. TcpInv /\ OrderInv /\ [Next]_vars => [Link!Next]_<<sent, received>>
    BY StepRefines
  <1> QED
    BY <1>1, <1>2, <1>3, TcpInvHolds, PTL DEF Spec, InOrder, Link!Spec

-----------------------------------------------------------------------------
\* The IP transport of a build.
UdpProofs == INSTANCE UdpTransportProofs WITH
    Nodes <- UdpNodes, MAX_DEVICE_COUNT <- UdpDeviceCount, MaxMessages <- UdpMessages,
    MayFail <- UdpMayFail, MayCrash <- UdpMayFail, MaxEpoch <- MaxLives - 1,
    devices <- uDevices, deaf <- uDeaf, epoch <- uEpoch, told <- uTold, failed <- uFailed,
    ended <- uEnded, datagrams <- uDatagrams, sent <- uSent, delivered <- uDelivered

\* The two instances of UdpTransport take the same steps.
LEMMA SameUdpSteps == Udp!Next => UdpProofs!Next
  <1>1. ASSUME NEW n, NEW m, Udp!Discover(n, m) PROVE UdpProofs!Discover(n, m)
    BY <1>1 DEF Udp!Discover, Udp!DevicesWith, Udp!ReportedIndex, Udp!NoIndex, Udp!ToSet,
                UdpProofs!Discover, UdpProofs!DevicesWith, UdpProofs!ReportedIndex, UdpProofs!NoIndex,
                UdpProofs!ToSet
  <1>2. ASSUME NEW n, NEW m, Udp!SendUserData(n, m) PROVE UdpProofs!SendUserData(n, m)
    BY <1>2 DEF Udp!SendUserData, Udp!NoIndex, Udp!broadcastVars,
                UdpProofs!SendUserData, UdpProofs!NoIndex, UdpProofs!broadcastVars
  <1>3. ASSUME NEW n, NEW m, Udp!SendFails(n, m) PROVE UdpProofs!SendFails(n, m)
    BY <1>3 DEF Udp!SendFails, Udp!NoIndex, Udp!broadcastVars,
                UdpProofs!SendFails, UdpProofs!NoIndex, UdpProofs!broadcastVars
  <1>4. ASSUME NEW n, Udp!DataSocketError(n) PROVE UdpProofs!DataSocketError(n)
    BY <1>4 DEF Udp!DataSocketError, Udp!broadcastVars,
                UdpProofs!DataSocketError, UdpProofs!broadcastVars
  <1>5. ASSUME NEW n, Udp!BroadcastError(n) PROVE UdpProofs!BroadcastError(n)
    BY <1>5 DEF Udp!BroadcastError, Udp!DiscoverySocketError,
                UdpProofs!BroadcastError, UdpProofs!DiscoverySocketError
  <1>6. ASSUME NEW n, Udp!Restart(n) PROVE UdpProofs!Restart(n)
    BY <1>6 DEF Udp!Restart, Udp!NoIndex,
                UdpProofs!Restart, UdpProofs!NoIndex
  <1>7. ASSUME NEW d, Udp!LoseDatagram(d) PROVE UdpProofs!LoseDatagram(d)
    BY <1>7 DEF Udp!LoseDatagram, Udp!broadcastVars,
                UdpProofs!LoseDatagram, UdpProofs!broadcastVars
  <1>8. ASSUME NEW d, Udp!DataSocketCallback(d.to, d) PROVE UdpProofs!DataSocketCallback(d.to, d)
    BY <1>8 DEF Udp!DataSocketCallback, Udp!GetIndex, Udp!ToSet, Udp!NoIndex, Udp!broadcastVars,
                UdpProofs!DataSocketCallback, UdpProofs!GetIndex, UdpProofs!ToSet,
                UdpProofs!NoIndex, UdpProofs!broadcastVars
  <1> QED
    BY <1>1, <1>2, <1>3, <1>4, <1>5, <1>6, <1>7, <1>8 DEF Udp!Next, UdpProofs!Next

IpInv == TcpInv /\ UdpProofs!IndexInv

LEMMA IpInvHolds == IpFairSpec => []IpInv
  <1>1. IpInit => IpInv
    <2>1. IpInit => UdpProofs!Init
      BY DEF IpInit, Udp!Init, UdpProofs!Init, Udp!InitBroadcast, UdpProofs!InitBroadcast,
             UdpProofs!NoIndex, Udp!NoIndex
    <2>2. IpInit => TcpInv
      BY InitTcpInv DEF IpInit, Init
    <2> QED
      BY <2>1, <2>2, UdpProofs!IndexInit DEF IpInv
  <1>2. IpInv /\ [IpNext]_ipVars => IpInv'
    <2>1. [IpNext]_ipVars => [Udp!Next]_(UdpProofs!vars)
      BY DEF IpNext, ipVars, udpVars, UdpProofs!vars, UdpProofs!broadcastVars
    <2>2. [IpNext]_ipVars => [Next]_vars
      BY DEF IpNext, ipVars
    <2> QED
      BY <2>1, <2>2, SameUdpSteps, NextTcpInv, UdpProofs!IndexNext DEF IpInv
  <1> QED
    BY <1>1, <1>2, PTL DEF IpFairSpec

\* IpTransportsCorrect: with either transport in the build, a device has one
\* session, streams stay in step, and user data comes with the index of its
\* sender.
THEOREM IpTransportsCorrect ==
    IpFairSpec => [](OneSessionPerPeer /\ FramesIntact /\ DeviceIndexAgrees)
  <1>1. IpInv => OneSessionPerPeer /\ FramesIntact
    BY DEF IpInv, TcpInv, ConnectionsInv, FramesInv, FramesIntact, Clean
  <1>2. IpInv => DeviceIndexAgrees
    BY UdpProofs!IndexAgrees
       DEF IpInv, DeviceIndexAgrees, Udp!DeviceIndexAgrees, UdpProofs!DeviceIndexAgrees
  <1> QED
    BY <1>1, <1>2, IpInvHolds, PTL

\* IpMessagesStayInOrder: the same for the IP transport of a build, of which
\* the run checks it: with UDP the TCP network is silent.
THEOREM IpMessagesStayInOrder ==
    ASSUME TwoDevices
    PROVE  IpFairSpec /\ [][AcceptsAlive]_vars => InOrder
  <1>1. IpInit => OrderInv /\ Link!Init
    BY InitOrder, InitRefines DEF IpInit, Init
  <1>2. [IpNext]_ipVars => [Next]_vars
    BY DEF IpNext, ipVars
  <1>3. TcpInv /\ OrderInv /\ [Next]_vars /\ [AcceptsAlive]_vars => OrderInv'
    BY NextOrder
  <1>4. TcpInv /\ OrderInv /\ [Next]_vars => [Link!Next]_<<sent, received>>
    BY StepRefines
  <1>5. IpInv => TcpInv
    BY DEF IpInv
  <1> QED
    BY <1>1, <1>2, <1>3, <1>4, <1>5, IpInvHolds, PTL DEF IpFairSpec, InOrder, Link!Spec
=============================================================================
