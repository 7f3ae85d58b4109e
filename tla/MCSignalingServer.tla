------------------------- MODULE MCSignalingServer -------------------------
(* Model checking of SignalingServer: rooms, users and sockets as model values, and what *)
(* the client of each socket may ask for.                                                *)
EXTENDS SignalingServer

CONSTANTS r1, r2, u1, u2, s1, s2

\* One client goes to two rooms and speaks for two users; the other acts for itself
OneRoams ==
    [s \in Sockets |-> IF s = s1 THEN {<<u1, r1>>, <<u2, r1>>, <<u1, r2>>} ELSE {<<u2, r1>>}]

\* The clients are of one user, who asks for every room
OneUser == [s \in Sockets |-> {<<u1, r>> : r \in RoomIds}]
=============================================================================
