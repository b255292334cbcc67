--------------------------- MODULE MCIpTransport ----------------------------
(***************************************************************************)
(* Instances of IpTransport for TLC.                                       *)
(***************************************************************************)
EXTENDS IpTransport

CONSTANTS a, b, d
=============================================================================
