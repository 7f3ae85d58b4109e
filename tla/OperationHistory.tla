-------------------------- MODULE OperationHistory --------------------------
(***************************************************************************)
(* operationHistoryManager.ts: the operations of one room, kept in memory  *)
(* in the order they were recorded and saved, each by an insert nobody     *)
(* waits for, in the operation_history table; checkpoints; loads from the  *)
(* table, backups, retention; and a crash of the process.                  *)
(*                                                                         *)
(* An operation is its number.  An entry of the room's array is an object  *)
(* the process recorded, or a row of the table put there by a load: a row  *)
(* carries the operation's identifier in operation_id, so it is found      *)
(* under .id only if the table gives its rows an id of their own, and then *)
(* only by that id.                                                        *)
(***************************************************************************)
EXTENDS Arrays, SequencesExt

CONSTANTS
    MAX_CHECKPOINTS,  \* 50 in the code
    DaysToKeep,       \* the retention of pruneOldOperations
    Nothing,          \* no cursor, no backup
    MaxOps, MaxTime,  \* bounds of the model: operations recorded, the clock,
    MaxLoads          \* different answers of the table to loads under way

ASSUME LimitsAreNat ==
    /\ {MAX_CHECKPOINTS, MaxTime} \subseteq Nat \ {0}
    /\ {DaysToKeep, MaxOps, MaxLoads} \subseteq Nat

VARIABLES
    database,     \* is a client configured, and have its rows an id? never changes
    now,          \* Date.now()
    operations,   \* this.operations.get(roomId)
    checkpoints,  \* this.checkpoints.get(roomId): their timestamps
    recorded,     \* how many operations were recorded
    saves,        \* inserts under way
    unsaved,      \* the operations whose insert was not made
    rows,         \* the operation_history table
    answers,      \* what getOperations answered to the calls of loadFromDatabase under way
    backup,       \* the last export, written out
    cursor        \* the last operation a client got that follows the history

memory == <<operations, checkpoints>>
table == <<saves, unsaved, rows>>
vars == <<database, now, memory, recorded, table, answers, backup, cursor>>

Row == [id : 1..MaxOps, timestamp : 1..MaxTime]
Entry == [id : 1..MaxOps, timestamp : 1..MaxTime, isRow : BOOLEAN, isReverted : BOOLEAN]

RowOf(op) == [id |-> op.id, timestamp |-> op.timestamp]
EntryOf(row) ==
    [id |-> row.id, timestamp |-> row.timestamp, isRow |-> TRUE, isReverted |-> FALSE]

Init ==
    /\ database \in [ready : BOOLEAN, ids : BOOLEAN]
    /\ now = 1
    /\ operations = <<>> /\ checkpoints = <<>>
    /\ recorded = 0
    /\ saves = {} /\ unsaved = {} /\ rows = {}
    /\ answers = {}
    /\ backup = Nothing /\ cursor = Nothing

----------------------------------------------------------------------------
(* Recording and saving *)

\* Mutant: an operation recorded while a load is under way is not saved.
SavedUnlessLoading(row) ==
    IF database.ready /\ answers = {}
    THEN saves' = saves \cup {row} /\ UNCHANGED unsaved
    ELSE UNCHANGED <<saves, unsaved>>

\* persistOperationAsync: without a client saveOperation returns at once
Saved(row) ==
    IF database.ready
    THEN saves' = saves \cup {row} /\ UNCHANGED unsaved
    ELSE unsaved' = unsaved \cup {row} /\ UNCHANGED saves

RecordOperation ==
    LET op == [id |-> recorded + 1, timestamp |-> now, isRow |-> FALSE, isReverted |-> FALSE]
    IN /\ recorded < MaxOps
       /\ recorded' = recorded + 1
       /\ operations' = Append(operations, op)
       /\ Saved(RowOf(op))
       /\ UNCHANGED <<database, now, checkpoints, rows, answers, backup, cursor>>

\* The insert is made, or refused or lost: the error is logged and that is all
SaveOperation(row) ==
    /\ row \in saves
    /\ saves' = saves \ {row}
    /\ \/ rows' = rows \cup {row} /\ UNCHANGED unsaved
       \/ unsaved' = unsaved \cup {row} /\ UNCHANGED rows
    /\ UNCHANGED <<database, now, memory, recorded, answers, backup, cursor>>

----------------------------------------------------------------------------
(* Loading *)

\* The rows by ascending timestamp, those of one millisecond in any order
InTimeOrder(s) == \A i, j \in DOMAIN s : i < j => s[i].timestamp <= s[j].timestamp
Sorted(rs) == {s \in SetToSeqs(rs) : InTimeOrder(s)}

\* What getOperations may answer: the rows, or nothing when it fails or there is no client
GetOperations == {<<>>} \cup (IF database.ready THEN Sorted(rows) ELSE {})

\* A call up to the end of its await: nothing before it depends on the call, and an empty
\* answer replaces nothing.  Any number of calls may be under way.
LoadFromDatabase ==
    /\ Cardinality(answers) < MaxLoads
    /\ \E answer \in GetOperations : answer # <<>> /\ answers' = answers \cup {answer}
    /\ UNCHANGED <<database, now, memory, recorded, table, backup, cursor>>

\* Mutant: what is loaded is added to what is there.
LoadedBehind(answer) == operations \o [i \in DOMAIN answer |-> EntryOf(answer[i])]

Loaded(answer) == [i \in DOMAIN answer |-> EntryOf(answer[i])]

\* One of the calls goes on; another may have got the same answer.
LoadFinished(answer) ==
    /\ answer \in answers
    /\ operations' = Loaded(answer)
    /\ answers' \in {answers, answers \ {answer}}
    /\ UNCHANGED <<database, now, checkpoints, recorded, table, backup, cursor>>

----------------------------------------------------------------------------
(* Reverting, checkpoints, backup and retention *)

HasId(op) == op.isRow => database.ids

MarkReverted(i) ==
    /\ HasId(operations[i])
    /\ operations' = [operations EXCEPT ![i].isReverted = TRUE]
    /\ UNCHANGED <<database, now, checkpoints, recorded, table, answers, backup, cursor>>

\* Mutant: the limit is tested before the push, with the same comparison.
OneTooMany(cps) ==
    Append(IF Len(cps) > MAX_CHECKPOINTS THEN Tail(cps) ELSE cps, now)

WithCheckpoint(cps) ==
    LET pushed == Append(cps, now)
    IN IF Len(pushed) > MAX_CHECKPOINTS THEN Tail(pushed) ELSE pushed

CreateCheckpoint ==
    /\ checkpoints' = WithCheckpoint(checkpoints)
    /\ UNCHANGED <<database, now, operations, recorded, table, answers, backup, cursor>>

\* getCheckpointBefore, getCheckpointAfter: positions in the array, 0 for none
CheckpointBefore(t) == SelectLastInSeq(checkpoints, LAMBDA cp : cp <= t)
CheckpointAfter(t) == SelectInSeq(checkpoints, LAMBDA cp : cp > t)

ExportOperations ==
    /\ backup' = operations
    /\ UNCHANGED <<database, now, memory, recorded, table, answers, cursor>>

ImportOperations ==
    /\ backup # Nothing
    /\ operations' = backup
    /\ UNCHANGED <<database, now, checkpoints, recorded, table, answers, backup, cursor>>

ClearRoom ==
    /\ operations' = <<>>
    /\ checkpoints' = <<>>
    /\ UNCHANGED <<database, now, recorded, table, answers, backup, cursor>>

LaterThan(t) == {i \in DOMAIN operations : operations[i].timestamp > t}

PruneOldOperations ==
    /\ operations' = Filtered(operations, LaterThan(now - DaysToKeep))
    /\ UNCHANGED <<database, now, checkpoints, recorded, table, answers, backup, cursor>>

----------------------------------------------------------------------------
(* Following the history *)

\* Where the client's last operation is found by its id, 0 if it is not
IndexOf(op) ==
    SelectInSeq(operations,
        LAMBDA o : o.id = op.id /\ o.isRow = op.isRow /\ HasId(o))

\* Mutant: a client whose operation is not found starts again.
SinceOrAll(op) == SubSeq(operations, IndexOf(op) + 1, Len(operations))

\* getOperationsSince for the last operation of the client, and its timestamp
OperationsSince(op) ==
    IF IndexOf(op) > 0
    THEN SubSeq(operations, IndexOf(op) + 1, Len(operations))
    ELSE Filtered(operations, LaterThan(op.timestamp))

\* A client that has nothing takes all the room's operations
Poll ==
    LET answer == IF cursor = Nothing THEN operations ELSE OperationsSince(cursor)
    IN /\ answer # <<>>
       /\ cursor' = Last(answer)
       /\ UNCHANGED <<database, now, memory, recorded, table, answers, backup>>

----------------------------------------------------------------------------

\* The process dies and starts again: of the inserts under way some were made
Crash ==
    /\ operations' = <<>> /\ checkpoints' = <<>>
    /\ answers' = {}
    /\ saves' = {}
    /\ \E made \in SUBSET saves :
           /\ rows' = rows \cup made
           /\ unsaved' = unsaved \cup (saves \ made)
    /\ UNCHANGED <<database, now, recorded, backup, cursor>>

Tick ==
    /\ now < MaxTime
    /\ now' = now + 1
    /\ UNCHANGED <<database, memory, recorded, table, answers, backup, cursor>>

Next ==
    \/ RecordOperation
    \/ \E row \in saves : SaveOperation(row)
    \/ LoadFromDatabase \/ \E answer \in answers : LoadFinished(answer)
    \/ \E i \in DOMAIN operations : MarkReverted(i)
    \/ CreateCheckpoint \/ ExportOperations \/ ImportOperations
    \/ ClearRoom \/ PruneOldOperations
    \/ Poll
    \/ Crash
    \/ Tick

Spec == Init /\ [][Next]_vars

----------------------------------------------------------------------------
(* Properties *)

\* The history holds well-formed entries and rows, and never more checkpoints than the
\* limit of createCheckpoint.
TypeOK ==
    /\ database \in [ready : BOOLEAN, ids : BOOLEAN]
    /\ now \in 1..MaxTime /\ recorded \in 0..MaxOps
    /\ operations \in Seq(Entry)
    /\ checkpoints \in Seq(1..MaxTime) /\ Len(checkpoints) <= MAX_CHECKPOINTS
    /\ saves \subseteq Row /\ unsaved \subseteq Row /\ rows \subseteq Row
    /\ answers \subseteq Seq(Row)
    /\ backup \in Seq(Entry) \cup {Nothing}
    /\ cursor \in Entry \cup {Nothing}

NoOperationTwice == \A i, j \in DOMAIN operations : operations[i].id = operations[j].id => i = j

\* The checkpoint found before a time is the latest of those, the one after it the earliest.
CheckpointsFound ==
    \A t \in 0..MaxTime, i \in DOMAIN checkpoints :
        /\ checkpoints[i] <= t =>
               CheckpointBefore(t) > 0 /\ checkpoints[i] <= checkpoints[CheckpointBefore(t)]
        /\ checkpoints[i] > t =>
               CheckpointAfter(t) > 0 /\ checkpoints[i] >= checkpoints[CheckpointAfter(t)]

\* Whatever is recorded, loaded, restored and pruned between, the history of a room is in
\* the order of time and has no operation twice: getSummary takes its first and last entry
\* for the span, getOperationsSince and the search for checkpoints rely on it.
InOrder == InTimeOrder(operations) /\ NoOperationTwice /\ CheckpointsFound

Rows(s) == {RowOf(s[i]) : i \in DOMAIN s}

\* An operation that leaves the memory although nobody cleared, restored or pruned, by a
\* crash or by a load that replaces what was recorded during its await, is in the table or
\* on its way, or its own insert was not made: operationHistoryManager.ts:142.
HistoryKept ==
    [][\A row \in Rows(operations) \ Rows(operations') :
           \/ ClearRoom \/ ImportOperations \/ PruneOldOperations
           \/ row \in saves \cup rows \cup unsaved]_vars

\* A client that follows the history by its last operation never goes back in time, over
\* loads, restored backups and crashes of the server: getOperationsSince.
PollsAdvance ==
    [][cursor # Nothing => cursor'.timestamp >= cursor.timestamp]_vars
=============================================================================
