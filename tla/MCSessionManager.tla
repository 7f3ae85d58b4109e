-------------------------- MODULE MCSessionManager --------------------------
(* Model checking of SessionManager: two sessions in one room and a limit of one pending operation. *)
EXTENDS SessionManager

CONSTANTS i1, i2, u1, u2, r1, o1, o2
=============================================================================
