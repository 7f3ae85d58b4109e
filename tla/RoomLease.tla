----------------------------- MODULE RoomLease -----------------------------
(***************************************************************************)
(* What the room manager promises, without its records: every open room    *)
(* has members, and a member's lease is fresh or has run out.  A join, a    *)
(* heartbeat and the creation of the room start a fresh lease; time may     *)
(* let leases run out; a sweep takes only members whose lease has run out,  *)
(* takes all of them, and closes only rooms in which nobody's lease is      *)
(* fresh.  A member with a fresh lease goes away only by leaving.           *)
(***************************************************************************)
CONSTANTS RoomIds, UserIds

VARIABLES
    open,      \* the rooms that exist
    members,   \* the members of each room, {} when it is not open
    fresh      \* those of them whose lease has not run out

vars == <<open, members, fresh>>

TypeOK ==
    /\ open \subseteq RoomIds
    /\ members \in [RoomIds -> SUBSET UserIds]
    /\ fresh \in [RoomIds -> SUBSET UserIds]
    /\ \A r \in RoomIds : /\ fresh[r] \subseteq members[r]
                          /\ r \notin open => members[r] = {}

Init ==
    /\ open = {}
    /\ members = [r \in RoomIds |-> {}]
    /\ fresh = [r \in RoomIds |-> {}]

Open(r, u) ==
    /\ r \notin open
    /\ open' = open \cup {r}
    /\ members' = [members EXCEPT ![r] = {u}]
    /\ fresh' = [fresh EXCEPT ![r] = {u}]

Join(r, u) ==
    /\ r \in open
    /\ u \notin members[r]
    /\ members' = [members EXCEPT ![r] = @ \cup {u}]
    /\ fresh' = [fresh EXCEPT ![r] = @ \cup {u}]
    /\ UNCHANGED open

Leave(r, u) ==
    /\ u \in members[r]
    /\ members' = [members EXCEPT ![r] = @ \ {u}]
    /\ fresh' = [fresh EXCEPT ![r] = @ \ {u}]
    /\ UNCHANGED open

Renew(r, u) ==
    /\ u \in members[r]
    /\ fresh' = [fresh EXCEPT ![r] = @ \cup {u}]
    /\ UNCHANGED <<open, members>>

\* Any leases may run out, none is renewed
RunOut ==
    /\ fresh' \in [RoomIds -> SUBSET UserIds]
    /\ \A r \in RoomIds : fresh'[r] \subseteq fresh[r]
    /\ UNCHANGED <<open, members>>

\* All the members without a lease go; rooms may close if no lease is left in them
Sweep ==
    /\ members' = fresh
    /\ open' \subseteq open
    /\ \A r \in open \ open' : fresh[r] = {}
    /\ UNCHANGED fresh

Reset ==
    /\ open' = {}
    /\ members' = [r \in RoomIds |-> {}]
    /\ fresh' = [r \in RoomIds |-> {}]

Next ==
    \/ \E r \in RoomIds, u \in UserIds :
           Open(r, u) \/ Join(r, u) \/ Leave(r, u) \/ Renew(r, u)
    \/ RunOut
    \/ Sweep
    \/ Reset

Spec == Init /\ [][Next]_vars
=============================================================================
