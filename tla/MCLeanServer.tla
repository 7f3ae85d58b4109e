---------------------------- MODULE MCLeanServer ----------------------------
(* Model checking of LeanServer: who is at the other end of the sockets. *)
EXTENDS LeanServer, TLC

CONSTANTS p1, p2, p3, s1, s2, s3, s4

\* p1 may come back on a second socket
TwoPeers == (s1 :> p1) @@ (s2 :> p1) @@ (s3 :> p2)
ThreePeers == (s1 :> p1) @@ (s2 :> p1) @@ (s3 :> p2) @@ (s4 :> p3)

=============================================================================
