----------------------- MODULE SessionManager_proofs -----------------------
(***************************************************************************)
(* Proofs about SessionManager, for any sessions, users, rooms and         *)
(* operations and any limits.  The methods overlap at their awaits; what   *)
(* survives is that a session that is gone never comes back, so that the   *)
(* deletion the cleanup waits for meets no row of a session that lives.    *)
(***************************************************************************)
EXTENDS SessionManager, SequenceTheorems, TLAPS

\* What addPendingOperation saves
RowOf(id, n) ==
    [sessionId |-> id, userId |-> sessions[id].userId, roomId |-> sessions[id].roomId,
     serial |-> n, operationId |-> added[id][n], acknowledged |-> FALSE]

\* What is under way is about operations that were added, and acknowledged.
RequestsSound ==
    \A q \in requests :
        /\ q.type = "insert" => <<q.row.sessionId, q.row.serial>> \in Additions
        /\ q.type = "acknowledge" => <<q.sessionId, q.operationId>> \in acknowledged

\* The session whose rows the cleanup deletes is gone.
DeletingGone == deleting # NoSession => deleting \notin DOMAIN sessions

\* The row of an addition is there, or on its way, until it is acknowledged or lost.
RowKept(id, n) ==
    \/ <<id, added[id][n]>> \in acknowledged \/ <<id, n>> \in failed
    \/ RowOf(id, n) \in pending_operations
    \/ [type |-> "insert", row |-> RowOf(id, n)] \in requests

RowsKept == \A id \in DOMAIN sessions : \A n \in DOMAIN added[id] : RowKept(id, n)

IInv ==
    /\ TypeOK /\ RequestsSound /\ DeletingGone
    /\ RowsKept /\ IndexMatches /\ PendingKept

----------------------------------------------------------------------------
(* Sequences *)

\* The elements of a longer sequence.
LEMMA ToSetAppend ==
    ASSUME NEW S, NEW s \in Seq(S), NEW e \in S
    PROVE  ToSet(Append(s, e)) = ToSet(s) \cup {e}
<1> DEFINE t == Append(s, e)
<1>1. /\ t \in Seq(S) /\ Len(t) = Len(s) + 1 /\ t[Len(s) + 1] = e
      /\ \A i \in 1..Len(s) : t[i] = s[i]
  BY AppendProperties
<1>2. DOMAIN s = 1..Len(s) /\ DOMAIN t = 1..Len(t) /\ Len(s) \in Nat
  BY <1>1, LenProperties
<1> HIDE DEF t
<1>3. \A x : x \in ToSet(t) <=> x \in ToSet(s) \cup {e}
  BY <1>1, <1>2 DEF ToSet
<1>. QED BY <1>3 DEF t

LEMMA ToSetEmpty == ToSet(<<>>) = {}
BY DEF ToSet

\* The additions and the operations added, session by session.
LEMMA AddedMembers ==
    /\ \A id, n : <<id, n>> \in Additions <=> id \in DOMAIN added /\ n \in DOMAIN added[id]
    /\ \A id, op : <<id, op>> \in AddedOps <=> id \in DOMAIN added /\ op \in ToSet(added[id])
BY DEF Additions, AddedOps

\* The lengths when the window moves: m is the limit, a and p are all and pending, k is kept.
LEMMA WindowLength ==
    ASSUME NEW m \in Nat \ {0}, NEW a \in Nat, NEW p \in Nat, NEW k \in Nat,
           p = a - (IF a > m THEN a - m ELSE 0),
           k = (IF p >= m THEN p - 1 ELSE p)
    PROVE  k + 1 = a + 1 - (IF a + 1 > m THEN a + 1 - m ELSE 0)
OBVIOUS

\* addPendingOperation: the window moves on by one.
LEMMA WindowMoves ==
    ASSUME NEW id, NEW acks, NEW pending \in Seq(PendingOperation), NEW all \in Seq(Operations),
           Window(id, pending, all, acks), NEW op \in Operations,
           <<id, op>> \in acks => op \in ToSet(all)
    PROVE  LET new == [operationId |-> op, acknowledged |-> FALSE]
           IN /\ Pushed(pending, new) \in Seq(PendingOperation)
              /\ Window(id, Pushed(pending, new), Append(all, op), acks)
<1> DEFINE new == [operationId |-> op, acknowledged |-> FALSE]
           kept == IF Len(pending) >= MAX_PENDING_OPERATIONS THEN Tail(pending) ELSE pending
           longer == Append(all, op)
           pushed == Append(kept, new)
           first == IF Len(all) > MAX_PENDING_OPERATIONS
                    THEN Len(all) - MAX_PENDING_OPERATIONS ELSE 0
           cut == IF Len(longer) > MAX_PENDING_OPERATIONS
                   THEN Len(longer) - MAX_PENDING_OPERATIONS ELSE 0
<1>1. new \in PendingOperation /\ new.operationId = op /\ new.acknowledged = FALSE
  BY DEF PendingOperation
<1>2. MAX_PENDING_OPERATIONS \in Nat /\ MAX_PENDING_OPERATIONS > 0
  BY PositiveLimits
<1>3. Len(pending) \in Nat /\ Len(all) \in Nat /\ DOMAIN all = 1..Len(all)
  BY LenProperties
<1>4. Len(pending) = Len(all) - first /\ first \in Nat
  BY <1>2, <1>3 DEF Window
<1>5. /\ kept \in Seq(PendingOperation)
      /\ Len(kept) = IF Len(pending) >= MAX_PENDING_OPERATIONS THEN Len(pending) - 1
                     ELSE Len(pending)
      /\ \A i \in 1..Len(kept) :
             kept[i] = IF Len(pending) >= MAX_PENDING_OPERATIONS THEN pending[i + 1] ELSE pending[i]
  <2>1. CASE Len(pending) >= MAX_PENDING_OPERATIONS
    <3>1. pending # <<>>
      BY <1>2, <2>1, EmptySeq
    <3>. QED BY <2>1, <3>1, HeadTailProperties
  <2>2. CASE ~(Len(pending) >= MAX_PENDING_OPERATIONS)
    BY <2>2
  <2>. QED BY <2>1, <2>2
<1>6. /\ longer \in Seq(Operations) /\ Len(longer) = Len(all) + 1
      /\ \A i \in 1..Len(all) : longer[i] = all[i]
      /\ longer[Len(all) + 1] = op
  BY AppendProperties
<1>7. /\ pushed \in Seq(PendingOperation) /\ Len(pushed) = Len(kept) + 1
      /\ \A i \in 1..Len(kept) : pushed[i] = kept[i]
      /\ pushed[Len(kept) + 1] = new
  BY <1>1, <1>5, AppendProperties
<1>8. Pushed(pending, new) = pushed
  BY DEF Pushed
<1>9. Len(kept) \in Nat
  BY <1>5, LenProperties
<1>10. <<id, op>> \in acks => \E j \in 1..Len(all) : all[j] = op
  BY <1>3 DEF ToSet
<1>11. \A i \in 1..Len(pending) :
          /\ pending[i].operationId = all[first + i]
          /\ pending[i].acknowledged => <<id, all[first + i]>> \in acks
          /\ (\A j \in 1..Len(all) : all[j] = all[first + i] => j = first + i)
                /\ <<id, all[first + i]>> \in acks
             => pending[i].acknowledged
  BY DEF Window
<1> HIDE DEF new, kept, longer, pushed, first
<1>12. Len(pushed) = Len(longer) - cut /\ cut \in Nat /\ Len(kept) + 1 + cut = Len(all) + 1
  <2>1. PICK m, a, p, k : /\ m = MAX_PENDING_OPERATIONS /\ a = Len(all)
                          /\ p = Len(pending) /\ k = Len(kept)
    OBVIOUS
  <2>2. m \in Nat \ {0} /\ a \in Nat /\ p \in Nat /\ k \in Nat
    BY <2>1, <1>2, <1>3, <1>9
  <2>3. p = a - (IF a > m THEN a - m ELSE 0)
    BY <2>1, <1>4 DEF first
  <2>4. k = IF p >= m THEN p - 1 ELSE p
    BY <2>1, <1>5
  <2>5. k + 1 = a + 1 - (IF a + 1 > m THEN a + 1 - m ELSE 0)
    BY <2>2, <2>3, <2>4, WindowLength
  <2>6. Len(longer) = a + 1 /\ Len(pushed) = k + 1
    BY <2>1, <1>6, <1>7
  <2>7. cut = IF a + 1 > m THEN a + 1 - m ELSE 0
    BY <2>1, <2>2, <2>6
  <2>8. cut \in Nat
    <3> HIDE DEF cut
    <3>. QED BY <2>2, <2>7
  <2> HIDE DEF cut
  <2>9. k + 1 = a + 1 - cut
    BY <2>5, <2>7
  <2>10. k + 1 + cut = a + 1
    BY <2>2, <2>8, <2>9
  <2>. QED BY <2>1, <2>6, <2>8, <2>9, <2>10
<1> HIDE DEF cut
<1>13. ASSUME NEW i \in 1..Len(pushed), NEW o, o = longer[cut + i]
       PROVE  /\ pushed[i].operationId = o
              /\ pushed[i].acknowledged => <<id, o>> \in acks
              /\ (\A j \in 1..Len(longer) : longer[j] = o => j = cut + i)
                    /\ <<id, o>> \in acks
                 => pushed[i].acknowledged
  <2>1. CASE i = Len(kept) + 1
    <3>1. cut + i = Len(all) + 1 /\ Len(longer) = Len(all) + 1
      <4>1. Len(longer) = Len(all) + 1
        BY <1>6
      <4>. QED BY <2>1, <1>3, <1>9, <1>12, <4>1
    <3>2. pushed[i] = new /\ o = op
      BY <2>1, <3>1, <1>6, <1>7, <1>13
    <3>3. ASSUME NEW j \in 1..Len(all), all[j] = op
          PROVE  \E k \in 1..Len(longer) : longer[k] = op /\ k # cut + i
      <4>1. j \in 1..Len(longer) /\ j # cut + i
        BY <3>1, <1>3
      <4>. QED BY <4>1, <3>3, <1>6
    <3>. QED BY <3>2, <3>3, <1>1, <1>10
  <2>2. CASE i \in 1..Len(kept)
    <3>1. PICK k \in 1..Len(pending) :
              /\ k = IF Len(pending) >= MAX_PENDING_OPERATIONS THEN i + 1 ELSE i
              /\ pushed[i] = pending[k]
      BY <2>2, <1>3, <1>5, <1>7, <1>9
    <3>2. cut + i = first + k /\ first + k \in 1..Len(all)
      <4>1. Len(pushed) + k = Len(pending) + i + 1
        BY <2>2, <3>1, <1>3, <1>5, <1>7, <1>9
      <4>2. Len(pushed) = Len(all) + 1 - cut /\ Len(pending) = Len(all) - first
        BY <1>4, <1>6, <1>12
      <4>3. cut \in Nat /\ first \in Nat /\ i \in Nat /\ k \in Nat
        BY <1>4, <1>12, <2>2
      <4>. QED BY <4>1, <4>2, <4>3, <3>1, <1>3
    <3>3. o = all[first + k]
      BY <3>2, <1>6, <1>13
    <3>4. ASSUME \A j \in 1..Len(longer) : longer[j] = o => j = cut + i
          PROVE  \A j \in 1..Len(all) : all[j] = o => j = first + k
      <4>1. \A j \in 1..Len(all) : j \in 1..Len(longer)
        BY <1>3, <1>6
      <4>. QED BY <4>1, <3>2, <3>4, <1>6
    <3>5. /\ pending[k].operationId = o
          /\ pending[k].acknowledged => <<id, o>> \in acks
          /\ (\A j \in 1..Len(all) : all[j] = o => j = first + k)
                /\ <<id, o>> \in acks
             => pending[k].acknowledged
      BY <3>3, <1>11
    <3>. QED BY <3>1, <3>4, <3>5
  <2>. QED BY <2>1, <2>2, <1>7, <1>9
<1>14. Window(id, pushed, longer, acks)
  BY <1>12, <1>13 DEF Window, cut
<1>. QED BY <1>7, <1>8, <1>14 DEF new, longer

\* acknowledgeOperation: one operation of the window is marked.
LEMMA WindowMarked ==
    ASSUME NEW id, NEW acks, NEW pending \in Seq(PendingOperation), NEW all \in Seq(Operations),
           Window(id, pending, all, acks), NEW op \in Operations
    PROVE  /\ Marked(pending, op) \in Seq(PendingOperation)
           /\ Window(id, Marked(pending, op), all, acks \cup {<<id, op>>})
<1> DEFINE marked == Marked(pending, op)
           later == acks \cup {<<id, op>>}
           first == IF Len(all) > MAX_PENDING_OPERATIONS
                    THEN Len(all) - MAX_PENDING_OPERATIONS ELSE 0
<1>1. Len(pending) \in Nat /\ Len(all) \in Nat /\ DOMAIN pending = 1..Len(pending)
  BY LenProperties
<1>2. \A i \in 1..Len(pending) : pending[i] \in PendingOperation
  BY ElementOfSeq
<1>3. \A i \in 1..Len(pending) :
          /\ marked[i] \in PendingOperation
          /\ marked[i].operationId = pending[i].operationId
          /\ marked[i].acknowledged = (pending[i].acknowledged \/ IsFirst(pending, i, op))
  <2> SUFFICES ASSUME NEW i \in 1..Len(pending)
               PROVE  /\ marked[i] \in PendingOperation
                      /\ marked[i].operationId = pending[i].operationId
                      /\ marked[i].acknowledged
                             = (pending[i].acknowledged \/ IsFirst(pending, i, op))
    OBVIOUS
  <2>1. PICK b \in BOOLEAN : b = (pending[i].acknowledged \/ IsFirst(pending, i, op))
    OBVIOUS
  <2>2. marked[i] = [pending[i] EXCEPT !.acknowledged = b]
    BY <1>1, <2>1 DEF Marked
  <2>3. pending[i] \in PendingOperation
    BY <1>2
  <2>4. /\ [pending[i] EXCEPT !.acknowledged = b] \in PendingOperation
        /\ [pending[i] EXCEPT !.acknowledged = b].operationId = pending[i].operationId
        /\ [pending[i] EXCEPT !.acknowledged = b].acknowledged = b
    BY <2>3 DEF PendingOperation
  <2>. QED BY <2>1, <2>2, <2>4
<1>4. marked \in [1..Len(pending) -> PendingOperation]
  BY <1>1, <1>3 DEF Marked
<1>5. marked \in Seq(PendingOperation)
  BY <1>1, <1>4, SeqDef
<1>6. Len(marked) = Len(pending)
  BY <1>1, <1>4, <1>5, LenProperties
<1>7. Len(pending) = Len(all) - first /\ first \in Nat /\ first <= Len(all)
  BY <1>1, PositiveLimits DEF Window
<1>8. \A i \in 1..Len(pending) :
          /\ pending[i].operationId = all[first + i]
          /\ pending[i].acknowledged => <<id, all[first + i]>> \in acks
          /\ (\A j \in 1..Len(all) : all[j] = all[first + i] => j = first + i)
                /\ <<id, all[first + i]>> \in acks
             => pending[i].acknowledged
  BY DEF Window
<1> HIDE DEF marked, first
<1>9. ASSUME NEW i \in 1..Len(pending), NEW o, o = all[first + i]
      PROVE  /\ marked[i].operationId = o
             /\ marked[i].acknowledged => <<id, o>> \in later
             /\ (\A j \in 1..Len(all) : all[j] = o => j = first + i)
                   /\ <<id, o>> \in later
                => marked[i].acknowledged
  <2>1. IsFirst(pending, i, op) => o = op
    BY <1>8, <1>9 DEF IsFirst
  <2>2. ASSUME \A j \in 1..Len(all) : all[j] = o => j = first + i, o = op
        PROVE  IsFirst(pending, i, op)
    <3> SUFFICES ASSUME NEW k \in 1..i - 1 PROVE pending[k].operationId # op
      BY <1>8, <1>9, <2>2 DEF IsFirst
    <3>1. k \in 1..Len(pending) /\ first + k \in 1..Len(all) /\ first + k # first + i
      BY <1>1, <1>7
    <3>2. pending[k].operationId = all[first + k] /\ all[first + k] # o
      BY <3>1, <1>8, <2>2
    <3>. QED BY <3>2, <2>2
  <2>3. o # op => (<<id, o>> \in later <=> <<id, o>> \in acks)
    OBVIOUS
  <2>4. <<id, op>> \in later /\ acks \subseteq later
    OBVIOUS
  <2>. QED BY <1>3, <1>8, <1>9, <2>1, <2>2, <2>3, <2>4
<1>10. Window(id, marked, all, later)
  BY <1>6, <1>7, <1>9 DEF Window, first
<1>. QED BY <1>5, <1>10 DEF marked, later

\* What is acknowledged in one session marks nothing of another.
LEMMA WindowUnmarked ==
    ASSUME NEW id, NEW other, other # id, NEW pending, NEW all, NEW acks,
           Window(id, pending, all, acks), NEW op
    PROVE  Window(id, pending, all, acks \cup {<<other, op>>})
<1>1. \A o : <<id, o>> \in acks \cup {<<other, op>>} <=> <<id, o>> \in acks
  OBVIOUS
<1>. QED BY <1>1 DEF Window

----------------------------------------------------------------------------
(* Sessions that stay as they are, or go *)

\* Whatever removes sessions, or changes only whether and when they were connected.
LEMMA SessionsShrink ==
    ASSUME IInv,
           DOMAIN sessions' \subseteq DOMAIN sessions,
           \A id \in DOMAIN sessions' :
               /\ sessions'[id] \in SessionMetadata
               /\ sessions'[id].userId = sessions[id].userId
               /\ sessions'[id].roomId = sessions[id].roomId
               /\ sessions'[id].pendingOperations = sessions[id].pendingOperations,
           userSessions' \in [UserIds -> SUBSET SessionIds], IndexMatches',
           cleanupInterval' \in BOOLEAN, UNCHANGED <<database, added, acknowledged>>,
           terminating' \subseteq DOMAIN added,
           deleting' \in DOMAIN added \cup {NoSession}, listed' \subseteq DOMAIN added,
           deleting' # NoSession => deleting' \notin DOMAIN sessions'
    PROVE  IInv'
<1>1. UNCHANGED <<requests, pending_operations, failed, added, acknowledged>>
  BY DEF database
<1>2. AddedOps' = AddedOps /\ Additions' = Additions
  BY <1>1 DEF AddedOps, Additions
<1>3. TypeOK'
  BY <1>1, <1>2 DEF IInv, TypeOK
<1>4. RequestsSound' /\ DeletingGone'
  BY <1>1, <1>2 DEF IInv, RequestsSound, DeletingGone
<1>5. RowsKept'
  <2>1. \A id \in DOMAIN sessions' : \A n : RowOf(id, n)' = RowOf(id, n)
    BY <1>1 DEF RowOf
  <2>2. \A id \in DOMAIN sessions' : \A n : RowKept(id, n) => RowKept(id, n)'
    BY <1>1, <2>1 DEF RowKept
  <2>. QED BY <1>1, <2>2 DEF IInv, RowsKept
<1>6. PendingKept'
  BY <1>1 DEF IInv, PendingKept
<1>. QED BY <1>3, <1>4, <1>5, <1>6 DEF IInv

\* A session goes from the map and from the list of its user.
LEMMA RemovedKeeps ==
    ASSUME IInv, NEW gone, Removed(gone)
    PROVE  /\ DOMAIN sessions' = DOMAIN sessions \ {gone}
           /\ \A id \in DOMAIN sessions' : sessions'[id] = sessions[id]
           /\ userSessions' \in [UserIds -> SUBSET SessionIds]
           /\ IndexMatches'
<1>1. /\ DOMAIN sessions' = DOMAIN sessions \ {gone}
      /\ \A id \in DOMAIN sessions' : sessions'[id] = sessions[id]
  BY DEF Removed
<1>2. /\ userSessions' = [u \in UserIds |-> userSessions[u] \ {gone}]
      /\ userSessions' \in [UserIds -> SUBSET SessionIds]
  BY DEF Removed, IInv, TypeOK
<1>3. IndexMatches'
  BY <1>1, <1>2 DEF IInv, IndexMatches
<1>. QED BY <1>1, <1>2, <1>3

\* terminateSession goes on after its await.
LEMMA TerminatedIInv ==
    ASSUME IInv, NEW id, Terminated(id)
    PROVE  IInv'
<1>1. /\ DOMAIN sessions' = DOMAIN sessions \ {id}
      /\ \A i \in DOMAIN sessions' : sessions'[i] = sessions[i]
      /\ userSessions' \in [UserIds -> SUBSET SessionIds]
      /\ IndexMatches'
  BY RemovedKeeps DEF Terminated
<1>2. /\ UNCHANGED <<cleanupInterval, database, deleting, listed, added, acknowledged>>
      /\ terminating' \subseteq terminating
  BY DEF Terminated, cleaning
<1>. QED BY <1>1, <1>2, SessionsShrink DEF IInv, TypeOK, DeletingGone

\* A round of the cleanup: the session whose rows it will delete is gone from the map.
LEMMA RoundIInv ==
    ASSUME IInv, NEW id \in DOMAIN sessions, Removed(id), deleting' = id,
           listed' \subseteq DOMAIN added,
           UNCHANGED <<cleanupInterval, database, terminating, added, acknowledged>>
    PROVE  IInv'
<1>1. /\ DOMAIN sessions' = DOMAIN sessions \ {id}
      /\ \A i \in DOMAIN sessions' : sessions'[i] = sessions[i]
      /\ userSessions' \in [UserIds -> SUBSET SessionIds]
      /\ IndexMatches'
  BY RemovedKeeps
<1>2. DOMAIN sessions \subseteq DOMAIN added /\ terminating \subseteq DOMAIN added
  BY DEF IInv, TypeOK
<1>. QED BY <1>1, <1>2, SessionsShrink DEF IInv, TypeOK

LEMMA CleanupIInv == IInv /\ (Cleanup \/ CleanupNext) => IInv'
<1>1. ASSUME IInv, Cleanup PROVE IInv'
  <2>1. PICK id \in StaleSessions :
            Removed(id) /\ deleting' = id /\ listed' = StaleSessions \ {id}
    BY <1>1 DEF Cleanup
  <2>2. id \in DOMAIN sessions /\ listed' \subseteq DOMAIN added
    BY <1>1, <2>1 DEF StaleSessions, IInv, TypeOK
  <2>. QED BY <1>1, <2>1, <2>2, RoundIInv DEF Cleanup
<1>2. ASSUME IInv, CleanupNext, listed \cap DOMAIN sessions = {} PROVE IInv'
  <2>1. /\ listed' = {} /\ UNCHANGED <<sessions, userSessions, deleting>>
        /\ UNCHANGED <<cleanupInterval, database, terminating, added, acknowledged>>
    BY <1>2 DEF CleanupNext
  <2>2. IndexMatches'
    BY <1>2, <2>1 DEF IInv, IndexMatches
  <2>. QED BY <1>2, <2>1, <2>2, SessionsShrink DEF IInv, TypeOK, DeletingGone
<1>3. ASSUME IInv, CleanupNext, listed \cap DOMAIN sessions # {} PROVE IInv'
  <2>1. PICK id \in listed \cap DOMAIN sessions :
            Removed(id) /\ deleting' = id /\ listed' = listed \ {id}
    BY <1>3 DEF CleanupNext
  <2>2. id \in DOMAIN sessions /\ listed' \subseteq DOMAIN added
    BY <1>3, <2>1 DEF IInv, TypeOK
  <2>. QED BY <1>3, <2>1, <2>2, RoundIInv DEF CleanupNext
<1>. QED BY <1>1, <1>2, <1>3

\* Reconnections, disconnections and time change when a session was last active.
LEMMA ActivityIInv ==
    ASSUME IInv,
           \/ \E id \in SessionIds : ResumeSession(id) \/ DisconnectSession(id)
           \/ Tick
    PROVE  IInv'
<1>1. /\ UNCHANGED <<userSessions, cleanupInterval, database, terminating, deleting, listed,
                     added, acknowledged>>
      /\ DOMAIN sessions' = DOMAIN sessions
  BY DEF ResumeSession, DisconnectSession, Tick, WithSession, HasSession, cleaning
<1>2. \A i \in DOMAIN sessions : sessions[i] \in SessionMetadata
  BY DEF IInv, TypeOK
<1>3. 0 \in Age /\ \A a \in Age : a > SESSION_TIMEOUT \/ a + 1 \in Age
  BY PositiveLimits DEF Age
<1>4. \A i \in DOMAIN sessions :
          /\ sessions'[i] \in SessionMetadata
          /\ sessions'[i].userId = sessions[i].userId
          /\ sessions'[i].roomId = sessions[i].roomId
          /\ sessions'[i].pendingOperations = sessions[i].pendingOperations
  <2>1. ASSUME NEW id \in SessionIds, ResumeSession(id) \/ DisconnectSession(id),
               NEW i \in DOMAIN sessions
        PROVE  /\ sessions'[i] \in SessionMetadata
               /\ sessions'[i].userId = sessions[i].userId
               /\ sessions'[i].roomId = sessions[i].roomId
               /\ sessions'[i].pendingOperations = sessions[i].pendingOperations
    <3>1. PICK c \in BOOLEAN :
              sessions' = WithSession(id, [sessions[id] EXCEPT !.isConnected = c,
                                                               !.lastActivity = 0])
      BY <2>1 DEF ResumeSession, DisconnectSession
    <3>2. CASE i = id
      <4>1. sessions'[i] = [sessions[i] EXCEPT !.isConnected = c, !.lastActivity = 0]
        BY <3>1, <3>2 DEF WithSession
      <4>. QED BY <4>1, <1>2, <1>3 DEF SessionMetadata
    <3>3. CASE i # id
      BY <3>1, <3>3, <1>2 DEF WithSession
    <3>. QED BY <3>2, <3>3
  <2>2. ASSUME Tick, NEW i \in DOMAIN sessions
        PROVE  /\ sessions'[i] \in SessionMetadata
               /\ sessions'[i].userId = sessions[i].userId
               /\ sessions'[i].roomId = sessions[i].roomId
               /\ sessions'[i].pendingOperations = sessions[i].pendingOperations
    <3>1. sessions'[i] = IF Stale(i) THEN sessions[i]
                         ELSE [sessions[i] EXCEPT !.lastActivity = sessions[i].lastActivity + 1]
      BY <2>2 DEF Tick
    <3>2. sessions[i] \in SessionMetadata /\ sessions[i].lastActivity \in Age
      BY <1>2 DEF SessionMetadata
    <3>3. CASE Stale(i)
      BY <3>1, <3>2, <3>3
    <3>4. CASE ~Stale(i)
      <4>1. sessions[i].lastActivity + 1 \in Age
        BY <3>2, <3>4, <1>3 DEF Stale
      <4>. QED BY <3>1, <3>2, <3>4, <4>1 DEF SessionMetadata
    <3>. QED BY <3>3, <3>4
  <2>. QED BY <2>1, <2>2
<1>5. IndexMatches'
  BY <1>1, <1>4 DEF IInv, IndexMatches
<1>. QED BY <1>1, <1>4, <1>5, SessionsShrink DEF IInv, TypeOK, DeletingGone

\* terminateSession before its await, the shutdown, and no change.
LEMMA QuietIInv ==
    ASSUME IInv,
           (\E id \in SessionIds : TerminateSession(id)) \/ Shutdown \/ UNCHANGED vars
    PROVE  IInv'
<1>1. CASE Shutdown
  <2>1. DOMAIN sessions' = {} /\ userSessions' = [u \in UserIds |-> {}]
    BY <1>1 DEF Shutdown
  <2>2. IndexMatches'
    BY <2>1 DEF IndexMatches
  <2>3. UNCHANGED <<database, terminating, deleting, listed, added, acknowledged>>
        /\ cleanupInterval' \in BOOLEAN
    BY <1>1 DEF Shutdown, cleaning
  <2>. QED BY <2>1, <2>2, <2>3, SessionsShrink DEF IInv, TypeOK
<1>2. ASSUME UNCHANGED <<sessions, userSessions, cleanupInterval, database, deleting, listed,
                         added, acknowledged>>,
             terminating' \subseteq DOMAIN added
      PROVE  IInv'
  <2>1. IndexMatches'
    BY <1>2 DEF IInv, IndexMatches
  <2>. QED BY <1>2, <2>1, SessionsShrink DEF IInv, TypeOK, DeletingGone
<1>3. ASSUME NEW id \in SessionIds, TerminateSession(id) PROVE IInv'
  BY <1>2, <1>3 DEF TerminateSession, HasSession, IInv, TypeOK, cleaning
<1>4. CASE UNCHANGED vars
  BY <1>2, <1>4 DEF vars, IInv, TypeOK, cleaning
<1>. QED BY <1>1, <1>3, <1>4

----------------------------------------------------------------------------
(* New sessions and operations *)

\* A session begins: it has no operations, and it is none that the cleanup has taken.
LEMMA CreateIInv ==
    ASSUME IInv, NEW id \in SessionIds, NEW u \in UserIds, NEW r \in RoomIds,
           CreateSession(id, u, r)
    PROVE  IInv'
<1> DEFINE session == [userId |-> u, roomId |-> r, isConnected |-> TRUE, lastActivity |-> 0,
                       pendingOperations |-> <<>>]
<1>1. /\ id \notin DOMAIN added /\ id \notin DOMAIN sessions
      /\ UNCHANGED <<cleanupInterval, requests, pending_operations, failed, terminating,
                     deleting, listed, acknowledged>>
  BY DEF CreateSession, database, cleaning, IInv, TypeOK
<1>2. /\ DOMAIN sessions' = DOMAIN sessions \cup {id} /\ sessions'[id] = session
      /\ \A i \in DOMAIN sessions : sessions'[i] = sessions[i]
  BY <1>1 DEF CreateSession, WithSession
<1>3. /\ DOMAIN added' = DOMAIN added \cup {id} /\ added'[id] = <<>>
      /\ \A i \in DOMAIN added : added'[i] = added[i]
  BY <1>1 DEF CreateSession
<1>4. userSessions' = [userSessions EXCEPT ![u] = userSessions[u] \cup {id}]
  BY DEF CreateSession
<1>5. session \in SessionMetadata /\ session.userId = u /\ session.pendingOperations = <<>>
  <2>1. 0 \in Age
    BY PositiveLimits DEF Age
  <2>2. <<>> \in Seq(PendingOperation)
    BY EmptySeq
  <2>. QED BY <2>1, <2>2 DEF SessionMetadata
<1> HIDE DEF session
<1>6. AddedOps \subseteq AddedOps' /\ Additions \subseteq Additions'
  BY <1>1, <1>3 DEF AddedOps, Additions
<1>7. TypeOK'
  <2>1. <<>> \in Seq(Operations)
    BY EmptySeq
  <2>2. userSessions' \in [UserIds -> SUBSET SessionIds]
    BY <1>4 DEF IInv, TypeOK
  <2>. QED BY <1>1, <1>2, <1>3, <1>5, <1>6, <2>1, <2>2 DEF IInv, TypeOK
<1>8. RequestsSound'
  BY <1>1, <1>6 DEF IInv, RequestsSound
<1>10. DeletingGone'
  BY <1>1, <1>2 DEF IInv, DeletingGone, TypeOK
<1>11. RowsKept'
  <2>1. DOMAIN sessions \subseteq DOMAIN added /\ DOMAIN <<>> = {}
    BY DEF IInv, TypeOK
  <2>2. \A i \in DOMAIN sessions : \A n : RowOf(i, n)' = RowOf(i, n)
    BY <1>2, <1>3, <2>1 DEF RowOf
  <2>3. \A i \in DOMAIN sessions : \A n : RowKept(i, n) => RowKept(i, n)'
    BY <1>1, <1>3, <2>1, <2>2 DEF RowKept
  <2>. QED BY <1>2, <1>3, <2>1, <2>3 DEF IInv, RowsKept
<1>12. IndexMatches'
  <2> SUFFICES ASSUME NEW v \in UserIds
               PROVE  userSessions'[v] = {i \in DOMAIN sessions' : sessions'[i].userId = v}
    BY DEF IndexMatches
  <2>1. userSessions[v] = {i \in DOMAIN sessions : sessions[i].userId = v}
    BY DEF IInv, IndexMatches
  <2>2. userSessions'[v] = IF v = u THEN userSessions[v] \cup {id} ELSE userSessions[v]
    BY <1>4 DEF IInv, TypeOK
  <2>3. CASE v = u
    BY <1>2, <1>5, <2>1, <2>2, <2>3
  <2>4. CASE v # u
    BY <1>2, <1>5, <2>1, <2>2, <2>4
  <2>. QED BY <2>3, <2>4
<1>13. PendingKept'
  <2>1. Window(id, <<>>, <<>>, acknowledged)
    BY PositiveLimits, EmptySeq DEF Window
  <2>2. DOMAIN sessions \subseteq DOMAIN added
    BY DEF IInv, TypeOK
  <2>. QED BY <1>1, <1>2, <1>3, <1>5, <2>1, <2>2 DEF IInv, PendingKept
<1>. QED BY <1>7, <1>8, <1>10, <1>11, <1>12, <1>13 DEF IInv

\* An operation is added: its insert is on the way.
LEMMA AddIInv ==
    ASSUME IInv, NEW id \in SessionIds, NEW op \in Operations, AddPendingOperation(id, op)
    PROVE  IInv'
<1>0. PICK last : last = Len(added[id]) + 1
  OBVIOUS
<1> DEFINE old == sessions[id].pendingOperations
           new == [operationId |-> op, acknowledged |-> FALSE]
           row == [sessionId |-> id, userId |-> sessions[id].userId,
                   roomId |-> sessions[id].roomId, serial |-> last,
                   operationId |-> op, acknowledged |-> FALSE]
           request == [type |-> "insert", row |-> row]
<1>1. /\ id \in DOMAIN sessions
      /\ UNCHANGED <<userSessions, cleanupInterval, pending_operations, failed, terminating,
                     deleting, listed, acknowledged>>
  BY DEF AddPendingOperation, HasSession, cleaning
<1>2. DOMAIN sessions \subseteq DOMAIN added /\ \A i \in DOMAIN sessions : sessions[i] \in SessionMetadata
  BY DEF IInv, TypeOK
<1>3. requests' = requests \cup {request}
  BY <1>0 DEF AddPendingOperation
<1>4. /\ DOMAIN added' = DOMAIN added /\ added'[id] = Append(added[id], op)
      /\ \A i \in DOMAIN added : i # id => added'[i] = added[i]
  BY <1>1, <1>2 DEF AddPendingOperation
<1>5. /\ DOMAIN sessions' = DOMAIN sessions
      /\ sessions'[id] = [sessions[id] EXCEPT !.pendingOperations = Pushed(old, new)]
      /\ \A i \in DOMAIN sessions : i # id => sessions'[i] = sessions[i]
  BY <1>1 DEF AddPendingOperation
<1>6. old \in Seq(PendingOperation) /\ added[id] \in Seq(Operations)
  BY <1>1, <1>2 DEF SessionMetadata, IInv, TypeOK
<1>7. /\ added'[id] \in Seq(Operations) /\ Len(added[id]) \in Nat
      /\ DOMAIN added[id] = 1..Len(added[id]) /\ DOMAIN added'[id] = 1..last
      /\ added'[id][last] = op /\ \A n \in DOMAIN added[id] : added'[id][n] = added[id][n]
  BY <1>0, <1>4, <1>6, AppendProperties, LenProperties
<1>8. /\ Pushed(old, new) \in Seq(PendingOperation)
      /\ Window(id, Pushed(old, new), Append(added[id], op), acknowledged)
  <2>1. Window(id, old, added[id], acknowledged)
    BY <1>1 DEF IInv, PendingKept
  <2>2. <<id, op>> \in acknowledged => op \in ToSet(added[id])
    BY AddedMembers DEF IInv, TypeOK
  <2>. QED BY <1>6, <2>1, <2>2, WindowMoves
<1>9. /\ ToSet(added[id]) \subseteq ToSet(added'[id])
      /\ DOMAIN added[id] \subseteq DOMAIN added'[id] /\ last \in DOMAIN added'[id]
  BY <1>0, <1>4, <1>6, <1>7, ToSetAppend
<1>10. /\ AddedOps \subseteq AddedOps' /\ Additions \subseteq Additions'
       /\ <<id, last>> \in Additions'
  <2>1. id \in DOMAIN added'
    BY <1>1, <1>2, <1>4
  <2>2. <<id, last>> \in Additions'
    <3>. QED BY <1>9, <2>1 DEF Additions
  <2>3. \A i \in DOMAIN added : /\ ToSet(added[i]) \subseteq ToSet(added'[i])
                               /\ DOMAIN added[i] \subseteq DOMAIN added'[i]
    BY <1>4, <1>9
  <2>4. AddedOps \subseteq AddedOps'
    BY <1>4, <2>3 DEF AddedOps
  <2>5. Additions \subseteq Additions'
    BY <1>4, <2>3 DEF Additions
  <2>. QED BY <2>2, <2>4, <2>5
<1>11. \A i \in DOMAIN sessions :
           /\ sessions'[i] \in SessionMetadata
           /\ sessions'[i].userId = sessions[i].userId
           /\ sessions'[i].roomId = sessions[i].roomId
  BY <1>1, <1>2, <1>5, <1>8 DEF SessionMetadata
<1>12. sessions'[id].pendingOperations = Pushed(old, new)
  BY <1>1, <1>2, <1>5 DEF SessionMetadata
<1>13. /\ request \in Request /\ request.type = "insert"
       /\ request.row.sessionId = id /\ request.row.serial = last
  <2>1. last \in Nat \ {0}
    BY <1>0, <1>7
  <2>2. row \in Row
    BY <1>1, <1>2, <2>1 DEF Row, SessionMetadata
  <2>. QED BY <2>2 DEF Request
<1>14. TypeOK'
  <2>1. \A i \in DOMAIN added : added'[i] \in Seq(Operations)
    BY <1>4, <1>7 DEF IInv, TypeOK
  <2> HIDE DEF request
  <2>. QED BY <1>1, <1>2, <1>3, <1>4, <1>5, <1>10, <1>11, <1>13, <2>1 DEF IInv, TypeOK
<1>15. RequestsSound'
  <2> HIDE DEF request
  <2>. QED BY <1>1, <1>3, <1>10, <1>13 DEF IInv, RequestsSound
<1>16. DeletingGone' /\ IndexMatches'
  BY <1>1, <1>5, <1>11 DEF IInv, DeletingGone, IndexMatches
<1>17. RowsKept'
  <2>1. ASSUME NEW i \in DOMAIN sessions, NEW n \in DOMAIN added[i]
        PROVE  RowOf(i, n)' = RowOf(i, n) /\ added'[i][n] = added[i][n]
    <3>1. added'[i][n] = added[i][n]
      BY <1>2, <1>4, <1>7
    <3>. QED BY <3>1, <1>11 DEF RowOf
  <2>2. RowOf(id, last)' = row
    <3>1. sessions'[id].userId = sessions[id].userId /\ sessions'[id].roomId = sessions[id].roomId
      BY <1>1, <1>11
    <3>2. added'[id][last] = op
      BY <1>7
    <3>. QED BY <3>1, <3>2 DEF RowOf
  <2>3. ASSUME NEW i \in DOMAIN sessions, NEW n \in DOMAIN added[i]
        PROVE  RowKept(i, n)'
    <3>1. RowKept(i, n)
      BY DEF IInv, RowsKept
    <3>. QED BY <1>1, <1>3, <2>1, <3>1 DEF RowKept
  <2>4. RowKept(id, last)'
    <3>1. [type |-> "insert", row |-> RowOf(id, last)'] \in requests'
      BY <1>3, <2>2
    <3>. QED BY <3>1 DEF RowKept
  <2>5. ASSUME NEW i \in DOMAIN sessions, NEW n \in DOMAIN added'[i]
        PROVE  RowKept(i, n)'
    <3>1. n \in DOMAIN added[i] \/ (i = id /\ n = last)
      BY <1>0, <1>2, <1>4, <1>7
    <3>. QED BY <2>3, <2>4, <3>1
  <2>. QED BY <1>5, <2>5 DEF RowsKept
<1>18. PendingKept'
  BY <1>1, <1>2, <1>4, <1>5, <1>8, <1>12 DEF IInv, PendingKept
<1>. QED BY <1>14, <1>15, <1>16, <1>17, <1>18 DEF IInv

\* An operation is acknowledged, in memory at once and in the table later.
LEMMA AcknowledgeIInv ==
    ASSUME IInv, NEW id \in SessionIds, NEW op \in Operations, AcknowledgeOperation(id, op)
    PROVE  IInv'
<1> DEFINE old == sessions[id].pendingOperations
           request == [type |-> "acknowledge", sessionId |-> id, operationId |-> op]
<1>1. /\ id \in DOMAIN sessions /\ op \in ToSet(added[id])
      /\ UNCHANGED <<userSessions, cleanupInterval, pending_operations, failed, terminating,
                     deleting, listed, added>>
      /\ requests' = requests \cup {request} /\ acknowledged' = acknowledged \cup {<<id, op>>}
  BY DEF AcknowledgeOperation, HasSession, cleaning
<1>2. DOMAIN sessions \subseteq DOMAIN added /\ \A i \in DOMAIN sessions : sessions[i] \in SessionMetadata
  BY DEF IInv, TypeOK
<1>3. /\ DOMAIN sessions' = DOMAIN sessions
      /\ sessions'[id] = [sessions[id] EXCEPT !.pendingOperations = Marked(old, op)]
      /\ \A i \in DOMAIN sessions : i # id => sessions'[i] = sessions[i]
  BY <1>1, Zenon DEF AcknowledgeOperation
<1>4. old \in Seq(PendingOperation) /\ added[id] \in Seq(Operations)
  BY <1>1, <1>2 DEF SessionMetadata, IInv, TypeOK
<1>5. /\ Marked(old, op) \in Seq(PendingOperation)
      /\ Window(id, Marked(old, op), added[id], acknowledged')
  <2>1. Window(id, old, added[id], acknowledged)
    BY <1>1 DEF IInv, PendingKept
  <2> HIDE DEF old
  <2>2. /\ Marked(old, op) \in Seq(PendingOperation)
        /\ Window(id, Marked(old, op), added[id], acknowledged \cup {<<id, op>>})
    BY <1>4, <2>1, WindowMarked
  <2>. QED BY <1>1, <2>2
<1>6. \A i \in DOMAIN sessions :
           /\ sessions'[i] \in SessionMetadata
           /\ sessions'[i].userId = sessions[i].userId
           /\ sessions'[i].roomId = sessions[i].roomId
  BY <1>1, <1>2, <1>3, <1>5 DEF SessionMetadata
<1>7. sessions'[id].pendingOperations = Marked(old, op)
  BY <1>1, <1>2, <1>3 DEF SessionMetadata
<1>8. <<id, op>> \in AddedOps /\ AddedOps' = AddedOps /\ Additions' = Additions
  BY <1>1, <1>2 DEF AddedOps, Additions
<1>9. /\ request \in Request /\ request.type = "acknowledge"
      /\ request.sessionId = id /\ request.operationId = op
  BY DEF Request
<1>10. TypeOK'
  BY <1>1, <1>3, <1>6, <1>8, <1>9 DEF IInv, TypeOK
<1>11. RequestsSound' /\ DeletingGone' /\ IndexMatches'
  BY <1>1, <1>3, <1>6, <1>8, <1>9 DEF IInv, RequestsSound, DeletingGone, IndexMatches
<1>12. RowsKept'
  <2>1. \A i \in DOMAIN sessions : \A n : RowOf(i, n)' = RowOf(i, n)
    BY <1>1, <1>6 DEF RowOf
  <2>2. \A i \in DOMAIN sessions : \A n : RowKept(i, n) => RowKept(i, n)'
    BY <1>1, <2>1 DEF RowKept
  <2>. QED BY <1>1, <1>3, <2>2 DEF IInv, RowsKept
<1>13. PendingKept'
  <2>1. ASSUME NEW i \in DOMAIN sessions, i # id
        PROVE  Window(i, sessions[i].pendingOperations, added[i], acknowledged')
    <3>1. Window(i, sessions[i].pendingOperations, added[i], acknowledged)
      BY DEF IInv, PendingKept
    <3>2. Window(i, sessions[i].pendingOperations, added[i], acknowledged \cup {<<id, op>>})
      BY <2>1, <3>1, WindowUnmarked
    <3>. QED BY <1>1, <3>2
  <2>. QED BY <1>1, <1>3, <1>5, <1>7, <2>1 DEF PendingKept
<1>. QED BY <1>10, <1>11, <1>12, <1>13 DEF IInv

----------------------------------------------------------------------------
(* The database answers *)

\* A request is served: an update marks only what is acknowledged.
LEMMA ServeIInv ==
    ASSUME IInv, NEW q \in requests, Serve(q)
    PROVE  IInv'
<1> DEFINE Mark(row) == [row EXCEPT !.acknowledged = @ \/ /\ row.sessionId = q.sessionId
                                                          /\ row.operationId = q.operationId]
<1>1. /\ requests' = requests \ {q}
      /\ UNCHANGED <<sessions, userSessions, cleanupInterval, failed, terminating, deleting,
                     listed, added, acknowledged>>
  BY DEF Serve, cleaning
<1>2. pending_operations' = IF q.type = "insert" THEN pending_operations \cup {q.row}
                            ELSE {Mark(row) : row \in pending_operations}
  BY DEF Serve
<1>3. q \in Request
  BY DEF IInv, TypeOK
<1>4. AddedOps' = AddedOps /\ Additions' = Additions
  BY <1>1 DEF AddedOps, Additions
<1>5. \A row \in Row : Mark(row) \in Row
  BY DEF Row
<1>6. ASSUME NEW id, NEW n, NEW row, row = RowOf(id, n), q.type = "acknowledge",
             <<id, added[id][n]>> \notin acknowledged
      PROVE  Mark(row) = row
  <2>1. /\ row.sessionId = id /\ row.operationId = added[id][n] /\ row.acknowledged = FALSE
        /\ <<q.sessionId, q.operationId>> \in acknowledged
    BY <1>6 DEF RowOf, IInv, RequestsSound
  <2>2. (row.acknowledged \/ (row.sessionId = q.sessionId /\ row.operationId = q.operationId)) = FALSE
    BY <2>1, <1>6
  <2>3. Mark(row) = [row EXCEPT !.acknowledged = FALSE]
    BY <2>2
  <2>4. row.acknowledged = FALSE => [row EXCEPT !.acknowledged = FALSE] = row
    <3>1. row = [f \in DOMAIN row |-> row[f]]
      BY <1>6 DEF RowOf
    <3>. QED BY <3>1
  <2>. QED BY <2>1, <2>3, <2>4
<1> HIDE DEF Mark
<1>7. pending_operations' \subseteq Row
  <2>1. pending_operations \subseteq Row
    BY DEF IInv, TypeOK
  <2>2. CASE q.type = "insert"
    BY <1>2, <1>3, <2>1, <2>2 DEF Request
  <2>3. CASE q.type # "insert"
    BY <1>2, <1>5, <2>1, <2>3
  <2>. QED BY <2>2, <2>3
<1>8. TypeOK'
  BY <1>1, <1>4, <1>7 DEF IInv, TypeOK
<1>9. RequestsSound' /\ DeletingGone' /\ IndexMatches' /\ PendingKept'
  BY <1>1, <1>4 DEF IInv, RequestsSound, DeletingGone, IndexMatches, PendingKept
<1>10. RowsKept'
  <2>1. \A id \in DOMAIN sessions : \A n : RowOf(id, n)' = RowOf(id, n)
    BY <1>1 DEF RowOf
  <2>2. ASSUME NEW id \in DOMAIN sessions, NEW n \in DOMAIN added[id],
               <<id, added[id][n]>> \notin acknowledged, <<id, n>> \notin failed
        PROVE  RowOf(id, n) \in pending_operations'
               \/ [type |-> "insert", row |-> RowOf(id, n)] \in requests'
    <3>1. RowOf(id, n) \in pending_operations
          \/ [type |-> "insert", row |-> RowOf(id, n)] \in requests
      BY <2>2 DEF IInv, RowsKept, RowKept
    <3>2. CASE q.type = "insert"
      BY <1>1, <1>2, <3>1, <3>2
    <3>3. CASE q.type = "acknowledge"
      <4>1. RowOf(id, n) \in pending_operations => RowOf(id, n) \in pending_operations'
        BY <1>2, <1>6, <2>2, <3>3
      <4>2. q # [type |-> "insert", row |-> RowOf(id, n)]
        BY <3>3
      <4>. QED BY <1>1, <3>1, <4>1, <4>2
    <3>. QED BY <1>3, <3>2, <3>3 DEF Request
  <2>. QED BY <1>1, <2>1, <2>2 DEF RowsKept, RowKept
<1>. QED BY <1>8, <1>9, <1>10 DEF IInv

\* A request fails: an insert that does is remembered as lost.
LEMMA FailIInv ==
    ASSUME IInv, NEW q \in requests, Fail(q)
    PROVE  IInv'
<1>1. /\ requests' = requests \ {q}
      /\ failed' = IF q.type = "insert"
                   THEN failed \cup {<<q.row.sessionId, q.row.serial>>} ELSE failed
      /\ UNCHANGED <<sessions, userSessions, cleanupInterval, pending_operations, terminating,
                     deleting, listed, added, acknowledged>>
  BY DEF Fail, cleaning
<1>2. AddedOps' = AddedOps /\ Additions' = Additions
  BY <1>1 DEF AddedOps, Additions
<1>3. TypeOK'
  BY <1>1, <1>2 DEF IInv, TypeOK, RequestsSound
<1>4. RequestsSound' /\ DeletingGone' /\ IndexMatches' /\ PendingKept'
  BY <1>1, <1>2 DEF IInv, RequestsSound, DeletingGone, IndexMatches, PendingKept
<1>5. RowsKept'
  <2>1. \A id \in DOMAIN sessions : \A n : RowOf(id, n)' = RowOf(id, n)
    BY <1>1 DEF RowOf
  <2>2. ASSUME NEW id \in DOMAIN sessions, NEW n \in DOMAIN added[id],
               <<id, added[id][n]>> \notin acknowledged, <<id, n>> \notin failed'
        PROVE  RowOf(id, n) \in pending_operations
               \/ [type |-> "insert", row |-> RowOf(id, n)] \in requests'
    <3>1. RowOf(id, n) \in pending_operations
          \/ [type |-> "insert", row |-> RowOf(id, n)] \in requests
      BY <1>1, <2>2 DEF IInv, RowsKept, RowKept
    <3>2. q # [type |-> "insert", row |-> RowOf(id, n)]
      BY <1>1, <2>2 DEF RowOf
    <3>. QED BY <1>1, <3>1, <3>2
  <2>. QED BY <1>1, <2>1, <2>2 DEF RowsKept, RowKept
<1>. QED BY <1>3, <1>4, <1>5 DEF IInv

\* The rows of a session the cleanup has removed are deleted, and those of no other.
LEMMA DeleteIInv == IInv /\ DeleteExpiredSession => IInv'
<1> SUFFICES ASSUME IInv, DeleteExpiredSession PROVE IInv'
  OBVIOUS
<1>1. /\ deleting # NoSession /\ deleting' = NoSession
      /\ UNCHANGED <<sessions, userSessions, cleanupInterval, requests, failed, terminating,
                     listed, added, acknowledged>>
      /\ \A row \in pending_operations : row.sessionId # deleting => row \in pending_operations'
      /\ pending_operations' \subseteq pending_operations
  BY DEF DeleteExpiredSession, RowsOfSession
<1>2. AddedOps' = AddedOps /\ Additions' = Additions
  BY <1>1 DEF AddedOps, Additions
<1>3. TypeOK'
  BY <1>1, <1>2 DEF IInv, TypeOK
<1>4. RequestsSound' /\ DeletingGone' /\ IndexMatches' /\ PendingKept'
  BY <1>1, <1>2 DEF IInv, RequestsSound, DeletingGone, IndexMatches, PendingKept
<1>5. RowsKept'
  <2>1. \A id \in DOMAIN sessions : \A n : RowOf(id, n)' = RowOf(id, n)
    BY <1>1 DEF RowOf
  <2>2. \A id \in DOMAIN sessions : \A n : RowOf(id, n).sessionId # deleting
    BY <1>1 DEF RowOf, IInv, DeletingGone
  <2>3. \A id \in DOMAIN sessions : \A n : RowKept(id, n) => RowKept(id, n)'
    BY <1>1, <2>1, <2>2 DEF RowKept
  <2>. QED BY <1>1, <2>3 DEF IInv, RowsKept
<1>. QED BY <1>3, <1>4, <1>5 DEF IInv

----------------------------------------------------------------------------
(* The inductive invariant *)

\* It holds when the process starts.
LEMMA InitIInv == Init => IInv
<1> SUFFICES ASSUME Init PROVE IInv
  OBVIOUS
<1>1. DOMAIN sessions = {} /\ DOMAIN added = {}
  BY DEF Init
<1>2. TypeOK
  BY <1>1 DEF Init, TypeOK
<1>3. IndexMatches
  BY <1>1 DEF Init, IndexMatches
<1>. QED BY <1>1, <1>2, <1>3 DEF Init, IInv, RequestsSound, DeletingGone,
                                 RowsKept, PendingKept

\* Every step preserves it.
LEMMA NextIInv == IInv /\ [Next]_vars => IInv'
BY QuietIInv, ActivityIInv, CreateIInv, AddIInv, AcknowledgeIInv, TerminatedIInv, CleanupIInv,
   ServeIInv, FailIInv, DeleteIInv DEF Next

\* It holds in every reachable state.
THEOREM Invariant == Spec => []IInv
BY InitIInv, NextIInv, PTL DEF Spec

----------------------------------------------------------------------------
(* The properties *)

\* The maps, the table and what is under way are always well formed.
THEOREM TypeCorrect == Spec => []TypeOK
<1>1. IInv => TypeOK
  BY DEF IInv
<1>. QED BY <1>1, Invariant, PTL

\* The list of a user names the sessions of the user and no other, however terminations and
\* cleanups overlap at their awaits.
THEOREM IndexSound == Spec => []IndexMatches
<1>1. IInv => IndexMatches
  BY DEF IInv
<1>. QED BY <1>1, Invariant, PTL

\* No operation of a living session is lost before it is acknowledged, unless its own insert
\* fails: the cleanup of other sessions takes none.
THEOREM NothingLost == Spec => []UnacknowledgedRecoverable
<1>1. IInv => UnacknowledgedRecoverable
  <2> SUFFICES ASSUME IInv, NEW id \in DOMAIN sessions, NEW n \in DOMAIN added[id]
               PROVE  \/ <<id, added[id][n]>> \in acknowledged \/ <<id, n>> \in failed
                      \/ \E row \in PendingRows(sessions[id].userId, sessions[id].roomId) :
                            row.sessionId = id /\ row.serial = n /\ row.operationId = added[id][n]
                      \/ \E request \in requests :
                            /\ request.type = "insert"
                            /\ request.row.sessionId = id /\ request.row.serial = n
    BY DEF UnacknowledgedRecoverable
  <2>1. RowKept(id, n)
    BY DEF IInv, RowsKept
  <2>2. /\ RowOf(id, n).sessionId = id /\ RowOf(id, n).serial = n
        /\ RowOf(id, n).operationId = added[id][n] /\ RowOf(id, n).acknowledged = FALSE
        /\ RowOf(id, n).userId = sessions[id].userId /\ RowOf(id, n).roomId = sessions[id].roomId
    BY DEF RowOf
  <2>3. CASE RowOf(id, n) \in pending_operations
    BY <2>2, <2>3 DEF PendingRows
  <2>4. CASE [type |-> "insert", row |-> RowOf(id, n)] \in requests
    BY <2>2, <2>4
  <2>. QED BY <2>1, <2>3, <2>4 DEF RowKept
<1>. QED BY <1>1, Invariant, PTL

\* A session keeps the newest operations added to it, in order, with their acknowledgements.
THEOREM NewestKept == Spec => []PendingKept
<1>1. IInv => PendingKept
  BY DEF IInv
<1>. QED BY <1>1, Invariant, PTL

=============================================================================
