---------------------------- MODULE CRDTManager ----------------------------
(***************************************************************************)
(* crdtManager.ts: the document of one room, kept by every peer in a       *)
(* manager of its own and edited by exchanging operations.                 *)
(*                                                                         *)
(* The operations travel over channels between each two peers that lose    *)
(* nothing, repeat nothing and keep their order, or over a network that    *)
(* also respects causality; what a peer lacks after an import is brought   *)
(* to it again.  An operation is identified by its peer and the number of  *)
(* operations that peer made before it.                                    *)
(*                                                                         *)
(* The visible content is always rebuilt from the characters, so it is an  *)
(* operator of them.                                                       *)
(***************************************************************************)
EXTENDS Integers, FiniteSets, SequencesExt

CONSTANTS
    PeerIds,        \* numbered in the order localeCompare gives them
    Texts,          \* what may be inserted: sequences of characters
    InitialContent, \* the text every peer initializes the document with
    System,         \* the peer of the initial characters, the greatest of all
    Causal,         \* does the network respect causality?
    MaxOps,         \* bound of the model: operations in all
    MaxImports      \* bound of the model: imports in all

Letters == UNION {ToSet(text) : text \in Texts \cup {InitialContent}}

ASSUME PeersAreNumbered == PeerIds \subseteq Nat /\ System \in Nat \ PeerIds
ASSUME TextsAreSequences == Texts \cup {InitialContent} \subseteq Seq(Letters)

VARIABLES
    characters,  \* for each peer, DocumentState.characters
    peerClocks,  \* for each peer, the clocks it keeps: its own and the others'
    ops,         \* every operation made so far
    applied,     \* for each peer, the operations its document comes from
    imports,     \* how many imports there were
    restarted    \* for the properties: the peers that imported a state after they had made
                 \* an operation

vars == <<characters, peerClocks, ops, applied, imports, restarted>>

CharacterId == [peerId : PeerIds \cup {System}, clock : Nat, position : Nat]
IsCharacter(c) == c.id \in CharacterId /\ c.deleted \in BOOLEAN

Made(p) == {op \in ops : op.key[1] = p}

\* Mutant: the position is counted from -1.
CountedFromMinusOne(p, clock, text) ==
    [i \in 1..Len(text) |->
        [value |-> text[i], id |-> [peerId |-> p, clock |-> clock, position |-> i - 2],
         deleted |-> FALSE]]

\* The characters of an inserted text, as its author and every other peer number them
CharactersOf(p, clock, text) ==
    [i \in 1..Len(text) |->
        [value |-> text[i], id |-> [peerId |-> p, clock |-> clock, position |-> i - 1],
         deleted |-> FALSE]]

----------------------------------------------------------------------------
(* The characters and what is visible of them *)

Live(chars) == {i \in DOMAIN chars : ~chars[i].deleted}

\* The live characters before one of them in the array
Before(chars, i) == Cardinality({j \in Live(chars) : j < i})

\* getCharArrayIndex
CharArrayIndex(chars, position) ==
    IF \E i \in Live(chars) : Before(chars, i) = position
    THEN CHOOSE i \in Live(chars) : Before(chars, i) = position
    ELSE Len(chars) + 1

EarlierId(a, b) ==
    \/ a.clock < b.clock
    \/ a.clock = b.clock /\ a.peerId < b.peerId
    \/ a.clock = b.clock /\ a.peerId = b.peerId /\ a.position < b.position

\* Mutant: the sort compares the clocks only.
SortedByClock(chars, i) ==
    Cardinality({j \in Live(chars) : \/ chars[j].id.clock < chars[i].id.clock
                                     \/ chars[j].id.clock = chars[i].id.clock /\ j < i})

\* How many live characters a stable sort of the array by identifier puts before one
SortedBefore(chars, i) ==
    Cardinality({j \in Live(chars) : \/ EarlierId(chars[j].id, chars[i].id)
                                     \/ chars[j].id = chars[i].id /\ j < i})

\* rebuildContent
Content(chars) ==
    [k \in 1..Cardinality(Live(chars)) |->
        chars[CHOOSE i \in Live(chars) : SortedBefore(chars, i) = k - 1].value]

----------------------------------------------------------------------------

Init ==
    /\ characters = [p \in PeerIds |-> CharactersOf(System, 0, InitialContent)]
    /\ peerClocks = [p \in PeerIds |-> [q \in PeerIds |-> 0]]
    /\ ops = {}
    /\ applied = [p \in PeerIds |-> {}]
    /\ imports = 0
    /\ restarted = {}

\* An operation of p, with the clock incrementClock gives it and, for the causal network
\* and the properties, the operations it comes after
Issue(p, type, content, ids) ==
    LET op == [key |-> <<p, Cardinality(Made(p))>>, type |-> type, content |-> content,
               ids |-> ids, clock |-> peerClocks[p][p] + 1, after |-> applied[p]]
    IN /\ Cardinality(ops) < MaxOps
       /\ ops' = ops \cup {op}
       /\ applied' = [applied EXCEPT ![p] = @ \cup {op.key}]
       /\ peerClocks' = [peerClocks EXCEPT ![p][p] = @ + 1]
       /\ UNCHANGED <<imports, restarted>>

\* Mutant: splice replaces the character at the index.
SplicedOver(chars, index, new) ==
    SubSeq(chars, 1, index - 1) \o new \o SubSeq(chars, index + 1, Len(chars))

Spliced(chars, index, new) ==
    SubSeq(chars, 1, index - 1) \o new \o SubSeq(chars, index, Len(chars))

ApplyInsert(p, position, text) ==
    /\ Issue(p, "insert", text, {})
    /\ LET new == CharactersOf(p, peerClocks[p][p] + 1, text)
       IN characters' = [characters EXCEPT
              ![p] = Spliced(@, CharArrayIndex(@, position), new)]

\* The live characters number position to position + length - 1 of the array
Chosen(chars, position, length) ==
    {i \in Live(chars) : Before(chars, i) \in position..position + length - 1}

\* A deleted character stays where it is, as a tombstone.
Marked(chars, marks) ==
    [i \in DOMAIN chars |-> [chars[i] EXCEPT !.deleted = @ \/ i \in marks]]

ApplyDelete(p, position, length) ==
    LET chosen == Chosen(characters[p], position, length)
    IN /\ Issue(p, "delete", <<>>, {characters[p][i].id : i \in chosen})
       /\ characters' = [characters EXCEPT ![p] = Marked(@, chosen)]

\* A delete marks the first character found with each identifier, and forgets those it
\* does not find
FirstFound(chars, ids) ==
    {i \in DOMAIN chars : chars[i].id \in ids /\ \A j \in 1..i - 1 : chars[j].id # chars[i].id}

Integrated(chars, op) ==
    IF op.type = "insert" THEN chars \o CharactersOf(op.key[1], op.clock, op.content)
    ELSE Marked(chars, FirstFound(chars, op.ids))

\* Does the network bring op to p now?
Delivered(p, op) ==
    /\ op.key \notin applied[p]
    /\ {k \in op.after : k[1] = op.key[1] \/ Causal} \subseteq applied[p]

\* Mutant: an operation whose clock is not above the one known of its peer is taken for a
\* repetition.
IntegrateUnlessKnown(p, op) ==
    /\ Delivered(p, op)
    /\ op.clock > peerClocks[p][op.key[1]]
    /\ characters' = [characters EXCEPT ![p] = Integrated(@, op)]
    /\ peerClocks' = [peerClocks EXCEPT
           ![p][op.key[1]] = IF @ > op.clock + 1 THEN @ ELSE op.clock + 1]
    /\ applied' = [applied EXCEPT ![p] = @ \cup {op.key}]
    /\ UNCHANGED <<ops, imports, restarted>>

IntegrateRemoteOperation(p, op) ==
    /\ Delivered(p, op)
    /\ characters' = [characters EXCEPT ![p] = Integrated(@, op)]
    /\ peerClocks' = [peerClocks EXCEPT
           ![p][op.key[1]] = IF @ > op.clock + 1 THEN @ ELSE op.clock + 1]
    /\ applied' = [applied EXCEPT ![p] = @ \cup {op.key}]
    /\ UNCHANGED <<ops, imports, restarted>>

\* importState of p with what q exports: another peer that comes late or falls back, or p
\* itself that restarts from its own export.  The document's peers map is filled by nobody,
\* so no clock comes along and p counts from 0 again.
ImportState(p, q) ==
    /\ imports < MaxImports
    /\ characters' = [characters EXCEPT ![p] = characters[q]]
    /\ peerClocks' = [peerClocks EXCEPT ![p] = [peer \in PeerIds |-> 0]]
    /\ applied' = [applied EXCEPT ![p] = applied[q]]
    /\ imports' = imports + 1
    /\ restarted' = restarted \cup (IF Made(p) = {} THEN {} ELSE {p})
    /\ UNCHANGED ops

Edit(p) ==
    LET visible == Cardinality(Live(characters[p]))
    IN \/ \E position \in 0..visible, text \in Texts : ApplyInsert(p, position, text)
       \/ \E position \in 0..visible - 1, length \in 1..2 : ApplyDelete(p, position, length)

Next ==
    \E p \in PeerIds :
        \/ Edit(p)
        \/ \E op \in ops : IntegrateRemoteOperation(p, op)
        \/ \E q \in PeerIds : ImportState(p, q)

Spec == Init /\ [][Next]_vars

\* The network delivers what was sent
FairSpec ==
    Spec /\ \A p \in PeerIds : WF_vars(\E op \in ops : IntegrateRemoteOperation(p, op))

----------------------------------------------------------------------------
(* Properties *)

\* Every peer holds well-formed characters and knows only operations that were made.
TypeOK ==
    /\ \A p \in PeerIds : \A i \in DOMAIN characters[p] : IsCharacter(characters[p][i])
    /\ peerClocks \in [PeerIds -> [PeerIds -> Nat]]
    /\ applied \in [PeerIds -> SUBSET {op.key : op \in ops}]
    /\ restarted \subseteq PeerIds

\* What validateConsistency looks for (crdtManager.ts:264): no identifier twice in a document
Unique(chars) == \A i, j \in DOMAIN chars : chars[i].id = chars[j].id => i = j

\* crdtManager.ts:8-9, "Works with out-of-order message delivery", "Strongly consistent
\* across all replicas": peers that applied the same operations show the same content and
\* hold the same characters, as long as no identifier is in their documents twice.
Converged ==
    \A p, q \in PeerIds :
        /\ p < q /\ applied[p] = applied[q]
        /\ Unique(characters[p]) /\ Unique(characters[q])
        => /\ Content(characters[p]) = Content(characters[q])
           /\ ToSet(characters[p]) = ToSet(characters[q])

\* An identifier is in a document twice only if its author, having made an operation,
\* imported a state and so lost its clock (crdtManager.ts:381, 394): an import gives away
\* the identifiers of the importing peer and never those of another.
IdsUnique ==
    \A p \in PeerIds : \A i, j \in DOMAIN characters[p] :
        characters[p][i].id = characters[p][j].id =>
            i = j \/ characters[p][i].id.peerId \in restarted

Known(p) == {op \in ops : op.key \in applied[p]}

\* What the initial text and the inserts among some operations wrote
Written(known) ==
    ToSet(CharactersOf(System, 0, InitialContent)) \cup
    UNION {ToSet(CharactersOf(op.key[1], op.clock, op.content)) :
               op \in {o \in known : o.type = "insert"}}

\* Whatever positions, deletes and deliveries there are, a document holds the characters
\* of the initial text and of every insert its peer applied, each with its letter, and no
\* other: tombstones included, nothing is overwritten, dropped or made up.
TextKept ==
    \A p \in PeerIds :
        {[c EXCEPT !.deleted = FALSE] : c \in ToSet(characters[p])} = Written(Known(p))

\* Both hold, so each letter is there once, also for a peer that came late and started from
\* the state of another, and for the text of all others when a peer restarts.
DocumentSound == IdsUnique /\ TextKept

\* In the end every operation made has reached every peer, and all show one content, unless
\* a peer that had made operations lost its clock.
EventuallyAgree ==
    <>[](\A p, q \in PeerIds :
            p < q => Content(characters[p]) = Content(characters[q]) \/ restarted # {})

=============================================================================
