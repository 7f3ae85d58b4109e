------------------------ MODULE OperationalTransform ------------------------
(***************************************************************************)
(* operationalTransform.ts: one document kept by two peers, each in an     *)
(* instance of its own.                                                    *)
(*                                                                         *)
(* The service says that it needs delivery in order and leaves sending to  *)
(* its caller.  The caller modelled is the one its versions are right for: *)
(* a channel in order each way, and a peer that has one operation on the   *)
(* way at most, until it is acknowledged.  The connection may break and a  *)
(* peer start again from the exported state of the other; operations may   *)
(* be delivered again after they were integrated.                          *)
(***************************************************************************)
EXTENDS Arrays, SequencesExt

CONSTANTS
    PeerIds,         \* two peers, numbered in the order of their identifiers
    InitialContent,  \* what both initialize the document with
    Ack,             \* the message that an operation was integrated
    MaxOps           \* bound of the model: operations made in all

Operation ==
    [id : 0..MaxOps, peerId : PeerIds, type : {"insert", "delete"}, position : Nat,
     content : Seq(Nat), length : {0, 2}, version : 0..MaxOps]

ASSUME TwoPeers ==
    PeerIds \subseteq Nat /\ IsFiniteSet(PeerIds) /\ Cardinality(PeerIds) = 2
ASSUME ContentIsText == InitialContent \in Seq(Nat)
ASSUME AckIsNoOperation == Ack \notin Operation
ASSUME MaxOpsIsNat == MaxOps \in Nat

VARIABLES
    documents,    \* for each peer, DocumentVersion
    channel,      \* for each peer, the messages on their way to it
    outstanding,  \* the peers whose last operation is not acknowledged
    made,         \* how many operations were made
    clashed       \* has an operation met the other's delete inside its range?

vars == <<documents, channel, outstanding, made, clashed>>

Other(p) == CHOOSE q \in PeerIds : q # p

----------------------------------------------------------------------------
(* The content *)

UpTo(text, n) == SubSeq(text, 1, IF n < Len(text) THEN n ELSE Len(text))
From(text, n) == SubSeq(text, n + 1, Len(text))

\* The characters a delete without a length takes
Length(op) == IF op.length = 0 THEN 1 ELSE op.length

Edited(text, op) ==
    IF op.type = "insert"
    THEN UpTo(text, op.position) \o op.content \o From(text, op.position)
    ELSE UpTo(text, op.position) \o From(text, op.position + Length(op))

----------------------------------------------------------------------------
(* Transformation *)

\* Mutant: of two inserts at one position it is always the remote one that moves.
MovesAtTie(op, ours) == ours.position <= op.position

\* Does an insert of ours push the remote operation to the right?
Moves(op, ours) ==
    \/ ours.position < op.position
    \/ ours.position = op.position /\ (op.type = "insert" => ours.peerId > op.peerId)

\* transformOperations: the remote operation after one of ours
Transformed(op, ours) ==
    IF ours.type = "insert"
    THEN [op EXCEPT !.position = IF Moves(op, ours) THEN @ + Len(ours.content) ELSE @]
    ELSE [op EXCEPT !.position =
              IF ours.position >= @ THEN @
              ELSE IF @ < Length(ours) THEN 0 ELSE @ - Length(ours)]

\* The operations the author of op did not have, by their version
Concurrent(doc, op) ==
    Filtered(doc.operations,
             {i \in DOMAIN doc.operations : doc.operations[i].version >= op.version})

\* The version of an operation stays the one it was made at
TransformedOver(ours, op) ==
    [op EXCEPT !.position = FoldLeft(Transformed, op, ours).position]

HasOperation(doc, op) == \E i \in DOMAIN doc.operations : doc.operations[i].id = op.id

Integrated(doc, op) ==
    LET t == TransformedOver(Concurrent(doc, op), op)
    IN [doc EXCEPT !.content = Edited(@, t),
                   !.operations = Append(@, t),
                   !.version = @ + 1]

\* Mutant: a repetition is counted.
AppliedCounted(doc, op) ==
    IF HasOperation(doc, op) THEN [doc EXCEPT !.version = @ + 1] ELSE Integrated(doc, op)

\* Mutant: only the last operation is taken for a repetition.
AppliedUnlessLast(doc, op) ==
    IF op.version = doc.version - 1 /\ HasOperation(doc, op) THEN doc ELSE Integrated(doc, op)

\* applyRemoteOperation, called with the document's own version
Applied(doc, op) ==
    IF ~HasOperation(doc, op) THEN Integrated(doc, op)
    ELSE IF op.version < doc.version THEN doc
    ELSE [doc EXCEPT !.content = Integrated(doc, op).content]

----------------------------------------------------------------------------

Init ==
    /\ documents = [p \in PeerIds |->
           [version |-> 0, content |-> InitialContent, operations |-> <<>>]]
    /\ channel = [p \in PeerIds |-> <<>>]
    /\ outstanding = {}
    /\ made = 0
    /\ clashed = FALSE

ApplyLocalOperation(p, type, position, content, length) ==
    LET doc == documents[p]
        op == [id |-> made, peerId |-> p, type |-> type, position |-> position,
               content |-> content, length |-> length, version |-> doc.version]
    IN /\ made < MaxOps /\ made' = made + 1
       /\ p \notin outstanding /\ outstanding' = outstanding \cup {p}
       /\ documents' = [documents EXCEPT ![p] =
              [version |-> doc.version + 1, content |-> Edited(doc.content, op),
               operations |-> Append(doc.operations, op)]]
       /\ channel' = [channel EXCEPT ![Other(p)] = Append(@, op)]
       /\ UNCHANGED clashed

\* One or two characters, new ones or of the text; a delete of one leaves the length out
Edit(p) ==
    LET length == Len(documents[p].content)
    IN \/ \E position \in 0..length, text \in {<<p>>, <<p, p>>} :
              ApplyLocalOperation(p, "insert", position, text, 0)
       \/ \E position \in 0..length - 1, n \in {0, 2} :
              /\ position + n <= length
              /\ ApplyLocalOperation(p, "delete", position, <<>>, n)

\* Is op strictly inside what a delete takes away?
Inside(op, delete) ==
    /\ delete.type = "delete"
    /\ delete.position < op.position
    /\ op.position < delete.position + Length(delete)

Clash(ours, op) ==
    \E i \in DOMAIN ours : Inside(ours[i], op) \/ Inside(op, ours[i])

ApplyRemoteOperation(p) ==
    LET op == Head(channel[p])
    IN /\ channel[p] # <<>> /\ op # Ack
       /\ documents' = [documents EXCEPT ![p] = Applied(@, op)]
       /\ channel' = [channel EXCEPT ![p] = Tail(@), ![Other(p)] = Append(@, Ack)]
       /\ clashed' = (clashed \/ Clash(Concurrent(documents[p], op), op))
       /\ UNCHANGED <<outstanding, made>>

Acknowledged(p) ==
    /\ channel[p] # <<>> /\ Head(channel[p]) = Ack
    /\ channel' = [channel EXCEPT ![p] = Tail(@)]
    /\ outstanding' = outstanding \ {p}
    /\ UNCHANGED <<documents, made, clashed>>

\* The other peer sends from its history what p has integrated
Redelivered(p) ==
    /\ \E op \in ToSet(documents[Other(p)].operations) :
           /\ HasOperation(documents[p], op)
           /\ documents' = [documents EXCEPT ![p] = Applied(@, op)]
    /\ UNCHANGED <<channel, outstanding, made, clashed>>

\* p has lost its document and the connections; it starts from the other's exportState
ImportState(p) ==
    /\ documents' = [documents EXCEPT ![p] = documents[Other(p)]]
    /\ channel' = [q \in PeerIds |-> <<>>]
    /\ outstanding' = {}
    /\ clashed' = FALSE
    /\ UNCHANGED made

Next ==
    \E p \in PeerIds :
        \/ Edit(p)
        \/ ApplyRemoteOperation(p)
        \/ Acknowledged(p)
        \/ Redelivered(p)
        \/ ImportState(p)

Spec == Init /\ [][Next]_vars

----------------------------------------------------------------------------
(* Properties *)

\* Every document and every message is well formed: positions never become negative.
TypeOK ==
    /\ documents \in [PeerIds -> [version : 0..MaxOps, content : Seq(Nat),
                                  operations : Seq(Operation)]]
    /\ channel \in [PeerIds -> Seq(Operation \cup {Ack})]
    /\ outstanding \subseteq PeerIds
    /\ made \in 0..MaxOps
    /\ clashed \in BOOLEAN

Quiet == \A p \in PeerIds : channel[p] = <<>>

\* When nothing is on its way both peers show one content at one version, in whatever order
\* their operations crossed, the two inserts at one position that only the identifiers of
\* the peers decide and deletes that overlap from one position included; as long as no
\* operation fell strictly inside the range of a delete made at the same time, which
\* operationalTransform.ts:178 and :183 move before the range.
Converged ==
    Quiet /\ ~clashed =>
        \A p, q \in PeerIds :
            /\ documents[p].content = documents[q].content
            /\ documents[p].version = documents[q].version

\* The history of a document is what its version counts, holds no operation twice and none
\* of a later version, and validateOrder (operationalTransform.ts:216) finds no error in it:
\* the choice of the concurrent operations rests on the versions.
HistorySound ==
    \A p \in PeerIds :
        LET doc == documents[p]
        IN /\ doc.version = Len(doc.operations)
           /\ \A i, j \in DOMAIN doc.operations :
                  i < j => /\ doc.operations[i].version <= doc.operations[j].version
                           /\ doc.operations[i].id # doc.operations[j].id
           /\ \A i \in DOMAIN doc.operations : doc.operations[i].version < doc.version
=============================================================================
