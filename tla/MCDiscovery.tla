---------------------------- MODULE MCDiscovery -----------------------------
\* Small instances of Discovery for TLC.
EXTENDS Discovery

CONSTANTS a, b, s1, PCIE, UDP

\* a may publish the service, b may subscribe to it.
Publishing == [publishers |-> {s1}, subscribers |-> {}]
Subscribing == [publishers |-> {}, subscribers |-> {s1}]

OnlyUDP == <<UDP>>
OnlyPCIE == <<PCIE>>

AllEnabled == [n \in Nodes |-> Types]
NoPreference == [n \in Nodes |-> NoType]
PreferUDP == [n \in Nodes |-> UDP]

UDPFailsOnA == {<<a, UDP>>}

PublisherAndSubscriber ==
    [n \in Nodes |-> IF n = a THEN {NoPorts, Publishing} ELSE {NoPorts, Subscribing}]
NoneOpen == [n \in Nodes |-> NoPorts]
AllOpen == [n \in Nodes |-> IF n = a THEN Publishing ELSE Subscribing]
=============================================================================
