------------------------------- MODULE MCP2P --------------------------------
(* Two clients that may look for each other at the same time. *)
EXTENDS P2P

=============================================================================
