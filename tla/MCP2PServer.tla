---------------------------- MODULE MCP2PServer ----------------------------
(* Model checking of P2PServer: one room, two users, two connections. *)
EXTENDS P2PServer

CONSTANTS r1, u1, u2
=============================================================================
