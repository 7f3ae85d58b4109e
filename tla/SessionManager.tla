--------------------------- MODULE SessionManager ---------------------------
(***************************************************************************)
(* sessionManager.ts over the pending_operations table of supabaseDB.ts:   *)
(* sessions that survive a disconnection, and the operations the server    *)
(* keeps for them until they are acknowledged.                             *)
(*                                                                         *)
(* Every method changes the maps up to its first await.  What it asks the  *)
(* database for is served, or fails, at any later time and in any order;   *)
(* terminateSession and the cleanup go on after their awaits.  The code    *)
(* never reads the sessions table, so that is left out.                    *)
(***************************************************************************)
EXTENDS Integers, FiniteSets, SequencesExt

CONSTANTS
    SessionIds,              \* generateSessionId never repeats one
    UserIds, RoomIds,
    Operations,
    NoSession,
    SESSION_TIMEOUT,
    MAX_PENDING_OPERATIONS,
    MaxAdds                  \* bound: operations added, to all sessions together

ASSUME PositiveLimits == SESSION_TIMEOUT \in Nat /\ MAX_PENDING_OPERATIONS \in Nat \ {0}

VARIABLES
    sessions,            \* the sessions Map
    userSessions,        \* for each user, its session ids
    cleanupInterval,     \* is the cleanup timer running?
    requests,            \* inserts and acknowledgements the database has not served yet
    pending_operations,  \* the rows of the table
    terminating,         \* sessions whose terminateSession awaits the database
    deleting,            \* the session whose rows the cleanup awaits the deletion of
    listed,              \* the sessions the cleanup has still to delete
    added,               \* history: the operations added to each session ever created
    acknowledged,        \* history: the operations acknowledged, with their sessions
    failed               \* history: the additions whose insert failed

database == <<requests, pending_operations, failed>>
cleaning == <<deleting, listed>>
vars == <<sessions, userSessions, cleanupInterval, database, terminating, cleaning, added,
          acknowledged>>

\* lastDisconnectedAt || lastConnectedAt, as an age
Age == 0..SESSION_TIMEOUT + 1
PendingOperation == [operationId : Operations, acknowledged : BOOLEAN]
SessionMetadata == [userId : UserIds, roomId : RoomIds, isConnected : BOOLEAN,
                    lastActivity : Age, pendingOperations : Seq(PendingOperation)]
Row == [sessionId : SessionIds, userId : UserIds, roomId : RoomIds,
        serial : Nat \ {0},  \* the number of the addition: what tells two rows apart
        operationId : Operations, acknowledged : BOOLEAN]
Request == [type : {"insert"}, row : Row]
           \cup [type : {"acknowledge"}, sessionId : SessionIds, operationId : Operations]

HasSession(id) == id \in DOMAIN sessions
Stale(id) == sessions[id].lastActivity > SESSION_TIMEOUT
Additions == UNION {{id} \X DOMAIN added[id] : id \in DOMAIN added}
AddedOps == UNION {{id} \X ToSet(added[id]) : id \in DOMAIN added}

\* getPendingOperations, what a recovery offers the user in the room
PendingRows(u, r) ==
    {row \in pending_operations : row.userId = u /\ row.roomId = r /\ ~row.acknowledged}

----------------------------------------------------------------------------

Init ==
    /\ sessions = <<>>
    /\ userSessions = [u \in UserIds |-> {}]
    /\ cleanupInterval = TRUE
    /\ requests = {} /\ pending_operations = {} /\ failed = {}
    /\ terminating = {}
    /\ deleting = NoSession /\ listed = {}
    /\ added = <<>>
    /\ acknowledged = {}

WithSession(id, session) ==
    [i \in DOMAIN sessions \cup {id} |-> IF i = id THEN session ELSE sessions[i]]

\* createOrResumeSession without an existing session, or with one that is not this user's in
\* this room
CreateSession(id, u, r) ==
    /\ id \notin DOMAIN added
    /\ sessions' = WithSession(id,
           [userId |-> u, roomId |-> r, isConnected |-> TRUE, lastActivity |-> 0,
            pendingOperations |-> <<>>])
    /\ userSessions' = [userSessions EXCEPT ![u] = @ \cup {id}]
    /\ added' = [i \in DOMAIN added \cup {id} |-> IF i = id THEN <<>> ELSE added[i]]
    /\ UNCHANGED <<cleanupInterval, database, terminating, cleaning, acknowledged>>

\* Mutant: the new object starts without pending operations.
ResumeAfresh(id) ==
    /\ HasSession(id)
    /\ sessions' = WithSession(id,
           [sessions[id] EXCEPT !.isConnected = TRUE, !.lastActivity = 0,
                                !.pendingOperations = <<>>])
    /\ UNCHANGED <<userSessions, cleanupInterval, database, terminating, cleaning, added,
                   acknowledged>>

\* createOrResumeSession of an existing session by its user in its room: a new object takes
\* over the pending operations
ResumeSession(id) ==
    /\ HasSession(id)
    /\ sessions' = WithSession(id,
           [sessions[id] EXCEPT !.isConnected = TRUE, !.lastActivity = 0])
    /\ UNCHANGED <<userSessions, cleanupInterval, database, terminating, cleaning, added,
                   acknowledged>>

DisconnectSession(id) ==
    /\ HasSession(id)
    /\ sessions' = WithSession(id,
           [sessions[id] EXCEPT !.isConnected = FALSE, !.lastActivity = 0])
    /\ UNCHANGED <<userSessions, cleanupInterval, database, terminating, cleaning, added,
                   acknowledged>>

\* Mutant: a spread is missing, and the rest of the list becomes one element of the new one.
PushedNested(pending, new) ==
    Append(IF Len(pending) >= MAX_PENDING_OPERATIONS THEN <<Tail(pending)>> ELSE pending, new)

\* At the limit the oldest operation makes room, acknowledged or not
Pushed(pending, new) ==
    Append(IF Len(pending) >= MAX_PENDING_OPERATIONS THEN Tail(pending) ELSE pending, new)

AddPendingOperation(id, op) ==
    LET session == sessions[id]
        row == [sessionId |-> id, userId |-> session.userId, roomId |-> session.roomId,
                serial |-> Len(added[id]) + 1, operationId |-> op, acknowledged |-> FALSE]
    IN /\ HasSession(id)
       /\ Cardinality(Additions) < MaxAdds
       /\ sessions' = [sessions EXCEPT
              ![id].pendingOperations = Pushed(@, [operationId |-> op, acknowledged |-> FALSE])]
       /\ requests' = requests \cup {[type |-> "insert", row |-> row]}
       /\ added' = [added EXCEPT ![id] = Append(@, op)]
       /\ UNCHANGED <<userSessions, cleanupInterval, pending_operations, failed, terminating,
                      cleaning, acknowledged>>

\* Array.find: the first entry with the id
IsFirst(pending, i, op) ==
    /\ pending[i].operationId = op
    /\ \A j \in 1..i - 1 : pending[j].operationId # op

Marked(pending, op) ==
    [i \in DOMAIN pending |->
        [pending[i] EXCEPT !.acknowledged = @ \/ IsFirst(pending, i, op)]]

\* Of what was added before: in memory the first entry with the id is marked, in the table
\* every row
AcknowledgeOperation(id, op) ==
    /\ HasSession(id) /\ op \in ToSet(added[id])
    /\ sessions' = [sessions EXCEPT ![id].pendingOperations = Marked(@, op)]
    /\ requests' = requests
           \cup {[type |-> "acknowledge", sessionId |-> id, operationId |-> op]}
    /\ acknowledged' = acknowledged \cup {<<id, op>>}
    /\ UNCHANGED <<userSessions, cleanupInterval, pending_operations, failed, terminating,
                   cleaning, added>>

\* terminateSession up to its await
TerminateSession(id) ==
    /\ HasSession(id)
    /\ terminating' = terminating \cup {id}
    /\ UNCHANGED <<sessions, userSessions, cleanupInterval, database, cleaning, added,
                   acknowledged>>

\* Mutant: the list of the user is left as it is.
RemovedFromMap(id) ==
    /\ sessions' = [i \in DOMAIN sessions \ {id} |-> sessions[i]]
    /\ UNCHANGED userSessions

\* A session goes from the map and from the list of its user
Removed(id) ==
    /\ sessions' = [i \in DOMAIN sessions \ {id} |-> sessions[i]]
    /\ userSessions' = [u \in UserIds |-> userSessions[u] \ {id}]

\* The rest of terminateSession, whatever has become of the session meanwhile
Terminated(id) ==
    /\ id \in terminating
    /\ terminating' = terminating \ {id}
    /\ Removed(id)
    /\ UNCHANGED <<cleanupInterval, database, cleaning, added, acknowledged>>

----------------------------------------------------------------------------
(* The cleanup, one at a time: the timer is much slower than the database *)

\* Mutant: only sessions that are connected are looked at.
StaleConnected == {id \in DOMAIN sessions : Stale(id) /\ sessions[id].isConnected}

StaleSessions == {id \in DOMAIN sessions : Stale(id)}

\* The first round of the loop follows the listing without an await
Cleanup ==
    /\ cleanupInterval /\ deleting = NoSession /\ listed = {}
    /\ \E id \in StaleSessions :
          /\ Removed(id)
          /\ deleting' = id
          /\ listed' = StaleSessions \ {id}
    /\ UNCHANGED <<cleanupInterval, database, terminating, added, acknowledged>>

\* The next round deletes its session if it is there, without looking at its age again
CleanupNext ==
    /\ deleting = NoSession /\ listed # {}
    /\ IF listed \cap DOMAIN sessions = {}
       THEN listed' = {} /\ UNCHANGED <<sessions, userSessions, deleting>>
       ELSE \E id \in listed \cap DOMAIN sessions :
               /\ Removed(id)
               /\ deleting' = id
               /\ listed' = listed \ {id}
    /\ UNCHANGED <<cleanupInterval, database, terminating, added, acknowledged>>

\* Mutant: the rows are found by user and room, as getPendingOperations finds them.
RowsOfUser(id) ==
    {row \in pending_operations :
        \E other \in pending_operations : /\ other.sessionId = id
                                          /\ other.userId = row.userId
                                          /\ other.roomId = row.roomId}

RowsOfSession(id) == {row \in pending_operations : row.sessionId = id}

\* deleteExpiredSession, which may fail and then leaves the rows
DeleteExpiredSession ==
    /\ deleting # NoSession
    /\ deleting' = NoSession
    /\ \/ pending_operations' = pending_operations \ RowsOfSession(deleting)
       \/ UNCHANGED pending_operations
    /\ UNCHANGED <<sessions, userSessions, cleanupInterval, requests, failed, terminating,
                   listed, added, acknowledged>>

Shutdown ==
    /\ cleanupInterval' = FALSE
    /\ sessions' = <<>>
    /\ userSessions' = [u \in UserIds |-> {}]
    /\ UNCHANGED <<database, terminating, cleaning, added, acknowledged>>

----------------------------------------------------------------------------
(* The database *)

\* createPendingOperation and acknowledgePendingOperation: the update finds the rows that are
\* there when it is served
Serve(request) ==
    /\ requests' = requests \ {request}
    /\ pending_operations' =
           IF request.type = "insert" THEN pending_operations \cup {request.row}
           ELSE {[row EXCEPT !.acknowledged = @ \/ /\ row.sessionId = request.sessionId
                                                    /\ row.operationId = request.operationId]
                     : row \in pending_operations}
    /\ UNCHANGED <<sessions, userSessions, cleanupInterval, failed, terminating, cleaning,
                   added, acknowledged>>

\* A failure is logged and forgotten
Fail(request) ==
    /\ requests' = requests \ {request}
    /\ failed' = IF request.type = "insert"
                 THEN failed \cup {<<request.row.sessionId, request.row.serial>>} ELSE failed
    /\ UNCHANGED <<sessions, userSessions, cleanupInterval, pending_operations, terminating,
                   cleaning, added, acknowledged>>

Tick ==
    /\ sessions' = [id \in DOMAIN sessions |->
           IF Stale(id) THEN sessions[id] ELSE [sessions[id] EXCEPT !.lastActivity = @ + 1]]
    /\ UNCHANGED <<userSessions, cleanupInterval, database, terminating, cleaning, added,
                   acknowledged>>

Next ==
    \/ \E id \in SessionIds :
          \/ \E u \in UserIds, r \in RoomIds : CreateSession(id, u, r)
          \/ ResumeSession(id) \/ DisconnectSession(id)
          \/ \E op \in Operations : AddPendingOperation(id, op) \/ AcknowledgeOperation(id, op)
          \/ TerminateSession(id) \/ Terminated(id)
    \/ \E request \in requests : Serve(request) \/ Fail(request)
    \/ Cleanup \/ CleanupNext \/ DeleteExpiredSession \/ Shutdown
    \/ Tick

Spec == Init /\ [][Next]_vars

\* The timer fires and the database answers
FairSpec == Spec /\ WF_vars(Cleanup) /\ WF_vars(CleanupNext) /\ WF_vars(DeleteExpiredSession)

----------------------------------------------------------------------------
(* Properties *)

\* The shape of the maps, the table and what is under way.
TypeOK ==
    /\ DOMAIN sessions \subseteq DOMAIN added /\ DOMAIN added \subseteq SessionIds
    /\ \A id \in DOMAIN sessions : sessions[id] \in SessionMetadata
    /\ userSessions \in [UserIds -> SUBSET SessionIds]
    /\ cleanupInterval \in BOOLEAN
    /\ requests \subseteq Request /\ pending_operations \subseteq Row
    /\ terminating \subseteq DOMAIN added
    /\ deleting \in DOMAIN added \cup {NoSession} /\ listed \subseteq DOMAIN added
    /\ \A id \in DOMAIN added : added[id] \in Seq(Operations)
    /\ acknowledged \subseteq AddedOps /\ failed \subseteq Additions

\* The list of a user names exactly the sessions of that user, whatever terminations and
\* cleanups of a session overlap with its resumption and with each other
\* (sessionManager.ts:240, 309).
IndexMatches ==
    \A u \in UserIds : userSessions[u] = {id \in DOMAIN sessions : sessions[id].userId = u}

\* What a session keeps of all the operations added to it, position by position
Window(id, pending, all, acks) ==
    LET dropped == IF Len(all) > MAX_PENDING_OPERATIONS
                   THEN Len(all) - MAX_PENDING_OPERATIONS ELSE 0
    IN /\ Len(pending) = Len(all) - dropped
       /\ \A i \in 1..Len(pending) :
              LET op == all[dropped + i]
                  once == \A j \in 1..Len(all) : all[j] = op => j = dropped + i
              IN /\ pending[i].operationId = op
                 /\ pending[i].acknowledged => <<id, op>> \in acks
                 /\ once /\ <<id, op>> \in acks => pending[i].acknowledged

\* A session keeps the newest operations added to it, in order, through every disconnection
\* and resumption (sessionManager.ts:97, 188).  Only what was acknowledged is marked, and what
\* was added once and acknowledged stays marked; of an id that was added again some entries
\* stay unmarked (sessionManager.ts:212).
PendingKept ==
    \A id \in DOMAIN sessions :
        Window(id, sessions[id].pendingOperations, added[id], acknowledged)

\* While a session lives, a recovery of its user offers every operation added to it that has
\* not been acknowledged, those dropped from memory included, unless its insert is still
\* under way or failed: no cleanup of another session takes them away (supabaseDB.ts:872).
UnacknowledgedRecoverable ==
    \A id \in DOMAIN sessions : \A n \in DOMAIN added[id] :
        \/ <<id, added[id][n]>> \in acknowledged \/ <<id, n>> \in failed
        \/ \E row \in PendingRows(sessions[id].userId, sessions[id].roomId) :
              row.sessionId = id /\ row.serial = n /\ row.operationId = added[id][n]
        \/ \E request \in requests :
              /\ request.type = "insert"
              /\ request.row.sessionId = id /\ request.row.serial = n

\* A session whose user does not come back is reclaimed while the timer runs.
AbandonedReclaimed ==
    \A id \in SessionIds :
        (cleanupInterval /\ HasSession(id) /\ Stale(id) /\ ~sessions[id].isConnected)
            ~> (~HasSession(id) \/ ~Stale(id))
=============================================================================
