------------------------ MODULE MCTransportForwarder ------------------------
(***************************************************************************)
(* Instances of TransportForwarder for TLC: a device on UDP, one on PCIe,  *)
(* and a second one on UDP.                                                *)
(***************************************************************************)
EXTENDS TransportForwarder

CONSTANTS udp1, udp2, pcie, s1, s2, c1, c2

TransportsOf(d) == IF d = pcie THEN {"PCIE"} ELSE {"UDP"}
WantsAll(d) == Services
=============================================================================
