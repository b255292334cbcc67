------------------------ MODULE MCGwIntrospection ---------------------------
(***************************************************************************)
(* Instances of GwIntrospection for TLC.                                   *)
(***************************************************************************)
EXTENDS GwIntrospection

CONSTANTS c1, publisher, service
=============================================================================
