--------------------------- MODULE MCServerRefines ---------------------------
(* Instances of ServerRefines for TLC: those of IndexServer.                *)
EXTENDS ServerRefines, MCIndexServer
=============================================================================
