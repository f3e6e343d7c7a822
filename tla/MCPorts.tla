------------------------------ MODULE MCPorts -------------------------------
(***************************************************************************)
(* Instances of Ports for TLC.                                             *)
(***************************************************************************)
EXTENDS Ports
=============================================================================
