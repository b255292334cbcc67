---------------------------- MODULE UdpTransport ----------------------------
(***************************************************************************)
(* UDPTransport on every node of a network: datagrams with user data, sent *)
(* to the device that discovery knows by an index, and handed up with the  *)
(* index of the device they came from.                                     *)
(*                                                                         *)
(* The network loses, delays, duplicates and reorders datagrams.  A node's *)
(* broadcasts are repeated for ever, so one may arrive at any time after   *)
(* the node's gateway has started for the first time.                      *)
(***************************************************************************)
EXTENDS UdpBroadcast

CONSTANTS
    MaxMessages,    \* bound: user messages that are sent
    MayFail,        \* nodes whose sockets may report errors
    MayCrash,       \* nodes whose gateway may crash and start anew
    MaxEpoch        \* bound: how often a gateway is started

VARIABLES
    epoch,          \* how often the gateway of a node has crashed
    told,           \* the device index that DiscoveryManager stores
    failed,         \* nodes whose transport has called setFailed
    ended,          \* nodes whose chain of data receives has ended
    datagrams,      \* user data in the network
    sent,           \* number of messages sent so far
    delivered       \* what m_userDataCallback was called with

vars == <<broadcastVars, epoch, told, failed, ended, datagrams, sent, delivered>>

\* A datagram carries the number of the message and the intended receiver.
Datagram == [from : Nodes, to : Nodes, meant : Nodes, number : 1 .. MaxMessages]

Init ==
    /\ InitBroadcast
    /\ epoch = [n \in Nodes |-> 0]
    /\ told = [n \in Nodes |-> [m \in Nodes |-> NoIndex]]
    /\ failed = {}
    /\ ended = {}
    /\ datagrams = {}
    /\ sent = 0
    /\ delivered = {}

\* A discovery datagram of m arrives at n.  receiveRemoteDiscoveryInfo keeps
\* the first index it is told for a device and type.
Discover(n, m) ==
    /\ n # m /\ n \notin deaf
    /\ devices' = [devices EXCEPT ![n] = DevicesWith(n, m)]
    /\ told' = IF told[n][m] = NoIndex
               THEN [told EXCEPT ![n][m] = ReportedIndex(n, m)] ELSE told
    /\ UNCHANGED <<deaf, epoch, failed, ended, datagrams, sent, delivered>>

\* sendUserData to the device m.  With an index that is not in the table the
\* endpoint is empty and the message reaches nobody.
SendUserData(n, m) ==
    /\ told[n][m] # NoIndex /\ n \notin failed /\ sent < MaxMessages
    /\ sent' = sent + 1
    /\ datagrams' =
          IF told[n][m] \in 1 .. Len(devices[n])
          THEN datagrams \cup {[from |-> n, to |-> devices[n][told[n][m]], meant |-> m,
                                number |-> sent + 1]}
          ELSE datagrams
    /\ UNCHANGED <<broadcastVars, epoch, told, failed, ended, delivered>>

\* The socket refuses to send: the message is lost and the transport failed.
SendFails(n, m) ==
    /\ n \in MayFail /\ n \notin failed
    /\ told[n][m] # NoIndex /\ sent < MaxMessages
    /\ sent' = sent + 1
    /\ failed' = failed \cup {n}
    /\ UNCHANGED <<broadcastVars, epoch, told, ended, datagrams, delivered>>

\* dataSocketCallback: data of an unknown device is discarded.  The datagram
\* stays in the network, which may duplicate it.
DataSocketCallback(n, d) ==
    /\ d.to = n /\ n \notin ended /\ GetIndex(n, d.from) # NoIndex
    /\ delivered' = delivered \cup
          {[at |-> n, epoch |-> epoch[n], datagram |-> d, index |-> GetIndex(n, d.from)]}
    /\ UNCHANGED <<broadcastVars, epoch, told, failed, ended, datagrams, sent>>

LoseDatagram(d) ==
    /\ datagrams' = datagrams \ {d}
    /\ UNCHANGED <<broadcastVars, epoch, told, failed, ended, sent, delivered>>

\* An error of the data socket, or of the discovery socket, whose failure
\* leaves the transport as good as before.
DataSocketError(n) ==
    /\ n \in MayFail /\ n \notin ended
    /\ failed' = failed \cup {n}
    /\ ended' = ended \cup {n}
    /\ UNCHANGED <<broadcastVars, epoch, told, datagrams, sent, delivered>>

BroadcastError(n) ==
    /\ n \in MayFail
    /\ DiscoverySocketError(n)
    /\ UNCHANGED <<epoch, told, failed, ended, datagrams, sent, delivered>>

\* The gateway of n is gone and a new one begins, with empty tables.
Restart(n) ==
    /\ n \in MayCrash /\ epoch[n] < MaxEpoch
    /\ epoch' = [epoch EXCEPT ![n] = @ + 1]
    /\ devices' = [devices EXCEPT ![n] = <<>>]
    /\ deaf' = deaf \ {n}
    /\ failed' = failed \ {n}
    /\ ended' = ended \ {n}
    /\ told' = [told EXCEPT ![n] = [m \in Nodes |-> NoIndex]]
    /\ UNCHANGED <<datagrams, sent, delivered>>

Next ==
    \/ \E n, m \in Nodes : Discover(n, m) \/ SendUserData(n, m) \/ SendFails(n, m)
    \/ \E n \in Nodes : DataSocketError(n) \/ BroadcastError(n) \/ Restart(n)
    \/ \E d \in datagrams : LoseDatagram(d) \/ DataSocketCallback(d.to, d)

Spec == Init /\ [][Next]_vars

-----------------------------------------------------------------------------
TypeOK ==
    /\ devices \in [Nodes -> Seq(Nodes)]
    /\ \A n \in Nodes : Len(devices[n]) <= MAX_DEVICE_COUNT
    /\ deaf \subseteq Nodes /\ failed \subseteq Nodes /\ ended \subseteq failed
    /\ epoch \in [Nodes -> 0 .. MaxEpoch]
    /\ told \in [Nodes -> [Nodes -> 0 .. MAX_DEVICE_COUNT + 1]]
    /\ datagrams \subseteq Datagram
    /\ sent \in 0 .. MaxMessages
    /\ delivered \subseteq [at : Nodes, epoch : 0 .. MaxEpoch, datagram : Datagram,
                            index : 1 .. MAX_DEVICE_COUNT]

\* DeviceIndexAgrees: the index that comes with user data is "the index of the
\* device that sent the message": the one discovery stores for that device in
\* this life of the gateway, and never one it stores for another device; and no
\* message gets to another device than the one it was sent to, with more
\* devices than the table has room for and after restarts on either side.
DeviceIndexAgrees ==
    /\ \A r \in delivered : r.datagram.meant = r.at
    /\ \A r \in delivered : r.epoch = epoch[r.at] =>
          \A m \in Nodes : told[r.at][m] = r.index => m = r.datagram.from
=============================================================================
