---------------------------- MODULE UdpBroadcast ----------------------------
(***************************************************************************)
(* UDPBroadcast: the discovery socket that the UDP and the TCP transport   *)
(* share, and the table in which a device gets the index that the rest of  *)
(* the gateway knows it by.  A node stands for its address; indices count  *)
(* from one.  The node's own datagrams, which the callback ignores, and    *)
(* the failed mark of UDPBroadcast, which nobody reads, are left out.      *)
(***************************************************************************)
EXTENDS Integers, Sequences, FiniteSets, SequencesExt

CONSTANTS
    Nodes,              \* devices that run a gateway
    MAX_DEVICE_COUNT    \* capacity of m_devices

VARIABLES
    devices,            \* m_devices of each node
    deaf                \* nodes whose discovery socket has reported an error

broadcastVars == <<devices, deaf>>

NoIndex == 0

InitBroadcast ==
    /\ devices = [n \in Nodes |-> <<>>]
    /\ deaf = {}

\* getIndex: the position of an address in the table, if it is there.
GetIndex(n, m) ==
    IF m \in ToSet(devices[n])
    THEN CHOOSE i \in 1 .. Len(devices[n]) : devices[n][i] = m
    ELSE NoIndex

\* Mutant of DevicesWith: a full table gives its last place to the new device.
DevicesWithLastReplaced(n, m) ==
    IF m \in ToSet(devices[n]) THEN devices[n]
    ELSE IF Len(devices[n]) < MAX_DEVICE_COUNT
         THEN Append(devices[n], m)
         ELSE [devices[n] EXCEPT ![MAX_DEVICE_COUNT] = m]

\* discoverySocketCallback: an endpoint that is not in the table is appended
\* while there is room.
DevicesWith(n, m) ==
    IF m \in ToSet(devices[n]) \/ Len(devices[n]) >= MAX_DEVICE_COUNT
    THEN devices[n]
    ELSE Append(devices[n], m)

\* The index it then reports: without an entry it is one past the end.
ReportedIndex(n, m) ==
    LET table == DevicesWith(n, m)
    IN  IF m \in ToSet(table)
        THEN CHOOSE i \in 1 .. Len(table) : table[i] = m
        ELSE Len(table) + 1

\* An error of the discovery socket: no further receive is started.
DiscoverySocketError(n) ==
    /\ n \notin deaf
    /\ deaf' = deaf \cup {n}
    /\ UNCHANGED devices
=============================================================================
