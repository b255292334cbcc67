---------------------------- MODULE IpTransport -----------------------------
(***************************************************************************)
(* The IP transport of a build: TCPTransport or UDPTransport, never both   *)
(* (README: "Only one of UDP_TRANSPORT and TCP_TRANSPORT can be enabled",  *)
(* as both bind the discovery port).  The two have networks of their own,  *)
(* of different sizes: for TCP two devices show every kind of connection,  *)
(* for UDP a third one fills the table of devices.                         *)
(***************************************************************************)
EXTENDS TcpTransport

CONSTANTS
    UdpNodes,           \* devices of the UDP network
    UdpDeviceCount,     \* its MAX_DEVICE_COUNT
    UdpMessages,        \* bound: user messages sent on it
    UdpMayFail          \* devices whose sockets or gateway may fail there

VARIABLES
    kind,               \* the transport of the build
    uDevices, uDeaf, uEpoch, uTold, uFailed, uEnded, uDatagrams, uSent, uDelivered

udpVars == <<uDevices, uDeaf, uEpoch, uTold, uFailed, uEnded, uDatagrams, uSent, uDelivered>>
ipVars == <<kind, vars, udpVars>>

Udp == INSTANCE UdpTransport WITH
    Nodes <- UdpNodes, MAX_DEVICE_COUNT <- UdpDeviceCount, MaxMessages <- UdpMessages,
    MayFail <- UdpMayFail, MayCrash <- UdpMayFail, MaxEpoch <- MaxLives - 1,
    devices <- uDevices, deaf <- uDeaf, epoch <- uEpoch, told <- uTold, failed <- uFailed,
    ended <- uEnded, datagrams <- uDatagrams, sent <- uSent, delivered <- uDelivered

IpInit ==
    /\ Udp!Init
    /\ \/ kind = "TCP" /\ Init
       \/ kind = "UDP" /\ InitWith({})

IpNext ==
    /\ UNCHANGED kind
    /\ \/ kind = "TCP" /\ Next /\ UNCHANGED udpVars
       \/ kind = "UDP" /\ Udp!Next /\ UNCHANGED vars

\* With UDP no gateway runs in the TCP network, and Fairness says nothing.
IpFairSpec == IpInit /\ [][IpNext]_ipVars /\ Fairness

-----------------------------------------------------------------------------
\* DeviceIndexAgrees: over UDP, user data comes with the index of the device
\* that sent it, and gets to the device it was sent to (see UdpTransport).
DeviceIndexAgrees == Udp!DeviceIndexAgrees
=============================================================================
