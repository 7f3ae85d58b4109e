--------------------------- MODULE MCRoomManager ---------------------------
(* Model checking of RoomManager: two rooms, two users, timeouts in the order of their *)
(* defaults.                                                                            *)
EXTENDS RoomManager

CONSTANTS r1, r2, u1, u2
=============================================================================
