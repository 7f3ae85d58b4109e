--------------------------- MODULE MCTokenManager ---------------------------
(* Model checking of TokenManager: one token, two validations of it at a time, and a user *)
(* whose cached entries may be cleared without touching it.                               *)
EXTENDS TokenManager, TLC

CONSTANTS t1, u1, u2, c1, c2

OneToken == t1 :> u1
=============================================================================
