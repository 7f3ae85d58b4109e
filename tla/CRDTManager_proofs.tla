------------------------- MODULE CRDTManager_proofs -------------------------
(***************************************************************************)
(* Proofs about CRDTManager, for any peers, texts and number of            *)
(* operations and imports: no text is lost, whatever the network delivers  *)
(* in what order; an identifier is there twice only if its author lost its *)
(* clock; and peers that applied the same operations hold the same         *)
(* characters and show the same content, if the network respects causality *)
(* and identifiers are unique.  Without causality they do not.             *)
(***************************************************************************)
EXTENDS CRDTManager, SequenceTheorems, FiniteSetTheorems, TLAPS

Character == [value : Letters, id : CharacterId, deleted : BOOLEAN]
Key == PeerIds \X Nat
Operation ==
    [key : Key, type : {"insert", "delete"}, content : Seq(Letters), ids : SUBSET CharacterId,
     clock : Nat, after : SUBSET Key]

Keys == {op.key : op \in ops}

Undeleted(c) == [c EXCEPT !.deleted = FALSE]

\* No identifier is there twice but those of some peers.
UniqueBut(chars, peers) ==
    \A i, j \in DOMAIN chars :
        chars[i].id = chars[j].id => i = j \/ chars[i].id.peerId \in peers

\* The identifiers of the characters that some operations deleted
Erased(known) == UNION {op.ids : op \in known}

\* A document holds the characters that some operations wrote, and no other.
Holds(chars, known) ==
    /\ chars \in Seq(Character)
    /\ {Undeleted(c) : c \in ToSet(chars)} = Written(known)

\* Those are deleted that the operations deleted.
Buries(chars, known) == \A c \in ToSet(chars) : c.deleted <=> c.id \in Erased(known)

WellTyped ==
    /\ peerClocks \in [PeerIds -> [PeerIds -> Nat]]
    /\ ops \subseteq Operation /\ IsFiniteSet(ops)
    /\ applied \in [PeerIds -> SUBSET Keys]
    /\ restarted \subseteq PeerIds

\* The clock of a peer that did not restart counts its operations.
ClocksSound ==
    /\ \A o, r \in ops : o.key = r.key => o = r
    /\ \A op \in ops : op.key[2] < Cardinality(Made(op.key[1]))
    /\ \A op \in ops : op.key[1] \notin restarted => op.clock = op.key[2] + 1
    /\ \A p \in PeerIds \ restarted : peerClocks[p][p] = Cardinality(Made(p))

\* A peer that did not restart has applied its own operations, and over a causal network
\* every peer those that come before what it applied.
AppliedSound ==
    /\ \A op \in ops : /\ op.key[1] \notin restarted => op.key \in applied[op.key[1]]
                      /\ op.after \subseteq Keys
    /\ Causal => \A p \in PeerIds, op \in ops :
                     op.key \in applied[p] => op.after \subseteq applied[p]

\* A delete is for characters its author had, an insert for none.
DeletesSound ==
    \A op \in ops :
        /\ op.type = "insert" => op.ids = {}
        /\ \A id \in op.ids : \E c \in Written({o \in ops : o.key \in op.after}) : c.id = id

OperationsSound == WellTyped /\ ClocksSound /\ AppliedSound /\ DeletesSound

\* Every document holds what its peer applied; over a causal network, if its identifiers are
\* unique, a character is deleted exactly if an applied operation deleted it.
DocumentsSound ==
    /\ characters \in [PeerIds -> Seq(Character)]
    /\ \A p \in PeerIds :
           /\ Holds(characters[p], Known(p)) /\ UniqueBut(characters[p], restarted)
           /\ Causal /\ Unique(characters[p]) => Buries(characters[p], Known(p))

IInv == OperationsSound /\ DocumentsSound

----------------------------------------------------------------------------
(* The characters of a text *)

\* The characters of an inserted text are numbered one after the other.
NewCharacters(p, clock, text, new) ==
    /\ new \in Seq(Character) /\ Len(new) = Len(text) /\ DOMAIN new = 1..Len(text)
    /\ \A i \in DOMAIN new :
           /\ new[i].id = [peerId |-> p, clock |-> clock, position |-> i - 1]
           /\ new[i].value = text[i] /\ new[i].deleted = FALSE

\* They carry the identifier's parts of their author.
Stamped(p, clock, new) ==
    \A c \in ToSet(new) :
        c \in Character /\ c.id.peerId = p /\ c.id.clock = clock /\ c.deleted = FALSE

LEMMA TextCharacters ==
    ASSUME NEW p \in PeerIds \cup {System}, NEW clock \in Nat, NEW text \in Seq(Letters)
    PROVE  /\ NewCharacters(p, clock, text, CharactersOf(p, clock, text))
           /\ Unique(CharactersOf(p, clock, text))
           /\ Stamped(p, clock, CharactersOf(p, clock, text))
<1> DEFINE new == CharactersOf(p, clock, text)
<1>1. Len(text) \in Nat /\ \A i \in 1..Len(text) : text[i] \in Letters
  BY LenProperties, ElementOfSeq
<1>2. /\ DOMAIN new = 1..Len(text)
      /\ \A i \in 1..Len(text) :
             new[i] = [value |-> text[i], deleted |-> FALSE,
                       id |-> [peerId |-> p, clock |-> clock, position |-> i - 1]]
  BY DEF CharactersOf
<1>3. \A i \in 1..Len(text) : new[i] \in Character
  <2> TAKE i \in 1..Len(text)
  <2>1. i - 1 \in Nat
    BY <1>1
  <2>2. [peerId |-> p, clock |-> clock, position |-> i - 1] \in CharacterId
    BY <2>1 DEF CharacterId
  <2>3. [value |-> text[i], deleted |-> FALSE,
         id |-> [peerId |-> p, clock |-> clock, position |-> i - 1]] \in Character
    BY <1>1, <2>2 DEF Character
  <2>4. new[i] = [value |-> text[i], deleted |-> FALSE,
                  id |-> [peerId |-> p, clock |-> clock, position |-> i - 1]]
    BY <1>2
  <2> HIDE DEF new
  <2>. QED BY <2>3, <2>4
<1>4. new \in [1..Len(text) -> Character]
  BY <1>3 DEF CharactersOf
<1>5. new \in Seq(Character) /\ Len(new) = Len(text)
  BY <1>1, <1>4, SeqDef
<1> HIDE DEF new
<1>6. NewCharacters(p, clock, text, new)
  BY <1>2, <1>5 DEF NewCharacters
<1>7. Unique(new)
  <2> SUFFICES ASSUME NEW i \in DOMAIN new, NEW j \in DOMAIN new, new[i].id = new[j].id
               PROVE  i = j
    BY DEF Unique
  <2>1. new[i].id.position = i - 1 /\ new[j].id.position = j - 1
    BY <1>2
  <2>. QED BY <1>1, <1>2, <2>1
<1>8. ASSUME NEW c \in ToSet(new)
      PROVE  c \in Character /\ c.id.peerId = p /\ c.id.clock = clock /\ c.deleted = FALSE
  <2>1. PICK i \in DOMAIN new : c = new[i]
    BY DEF ToSet
  <2>2. c.id = [peerId |-> p, clock |-> clock, position |-> i - 1] /\ c.deleted = FALSE
    BY <1>6, <2>1 DEF NewCharacters
  <2>3. c \in Character
    BY <1>2, <1>3, <2>1
  <2>. QED BY <2>2, <2>3
<1>9. Stamped(p, clock, new)
  BY <1>8 DEF Stamped
<1>. QED BY <1>6, <1>7, <1>9 DEF new

----------------------------------------------------------------------------
(* Characters put into an array *)

\* t is s with new from position k on.
Spread(s, k, new, t) ==
    /\ DOMAIN t = 1..Len(s) + Len(new)
    /\ \A i \in DOMAIN t :
           t[i] = IF i < k THEN s[i]
                  ELSE IF i < k + Len(new) THEN new[i - k + 1]
                  ELSE s[i - Len(new)]

LEMMA SplicedSpreads ==
    ASSUME NEW S, NEW s \in Seq(S), NEW new \in Seq(S), NEW k \in 1..Len(s) + 1
    PROVE  Spliced(s, k, new) \in Seq(S) /\ Spread(s, k, new, Spliced(s, k, new))
<1> DEFINE a == SubSeq(s, 1, k - 1)
           b == SubSeq(s, k, Len(s))
           an == a \o new
           t == an \o b
<1>1. /\ Len(s) \in Nat /\ Len(new) \in Nat /\ k \in Int /\ 1 <= k /\ k <= Len(s) + 1
      /\ \A i \in 1..Len(s) : s[i] \in S
  BY LenProperties, ElementOfSeq
<1>2. a \in Seq(S) /\ Len(a) = k - 1 /\ \A i \in 1..k - 1 : a[i] = s[i]
  <2>1. 1 \in Int /\ k - 1 \in Int /\ \A i \in 1..k - 1 : s[i] \in S
    BY <1>1
  <2>2. /\ a \in Seq(S) /\ Len(a) = IF 1 <= k - 1 THEN k - 1 - 1 + 1 ELSE 0
        /\ \A i \in 1..k - 1 - 1 + 1 : a[i] = s[1 + i - 1]
    BY <2>1, SubSeqProperties
  <2>3. k - 1 - 1 + 1 = k - 1 /\ (~(1 <= k - 1) => k - 1 = 0)
        /\ \A i \in 1..k - 1 : 1 + i - 1 = i
    BY <1>1
  <2>. QED BY <2>2, <2>3
<1>3. /\ b \in Seq(S) /\ Len(b) = Len(s) - k + 1
      /\ \A i \in 1..Len(s) - k + 1 : b[i] = s[k + i - 1]
  <2>1. k \in Int /\ Len(s) \in Int /\ \A i \in k..Len(s) : s[i] \in S
    BY <1>1
  <2>2. /\ b \in Seq(S) /\ Len(b) = IF k <= Len(s) THEN Len(s) - k + 1 ELSE 0
        /\ \A i \in 1..Len(s) - k + 1 : b[i] = s[k + i - 1]
    BY <2>1, SubSeqProperties
  <2>3. ~(k <= Len(s)) => Len(s) - k + 1 = 0
    BY <1>1
  <2>. QED BY <2>2, <2>3
<1> HIDE DEF a, b
<1>4. /\ an \in Seq(S) /\ Len(an) = Len(a) + Len(new)
      /\ \A i \in 1..Len(a) + Len(new) : an[i] =
             IF i <= Len(a) THEN a[i] ELSE new[i - Len(a)]
  BY <1>2, ConcatProperties
<1> HIDE DEF an
<1>5. /\ t \in Seq(S) /\ Len(t) = Len(an) + Len(b)
      /\ \A i \in 1..Len(an) + Len(b) : t[i] =
             IF i <= Len(an) THEN an[i] ELSE b[i - Len(an)]
  <2>1. an \in Seq(S) /\ b \in Seq(S)
    BY <1>3, <1>4
  <2>. QED BY <2>1, ConcatProperties
<1>6. /\ Len(t) = Len(s) + Len(new) /\ DOMAIN t = 1..Len(s) + Len(new)
      /\ Len(an) = k - 1 + Len(new)
  <2>1. Len(an) = k - 1 + Len(new)
    BY <1>2, <1>4
  <2>2. Len(t) = Len(s) + Len(new)
    BY <1>1, <1>3, <1>5, <2>1
  <2>. QED BY <1>5, <2>1, <2>2, LenProperties
<1> HIDE DEF t
<1>7. ASSUME NEW i \in 1..Len(s) + Len(new)
      PROVE  t[i] = IF i < k THEN s[i]
                    ELSE IF i < k + Len(new) THEN new[i - k + 1]
                    ELSE s[i - Len(new)]
  <2>1. CASE i < k
    <3>1. i \in 1..k - 1 /\ i <= k - 1 /\ i <= k - 1 + Len(new)
      BY <1>1, <2>1
    <3>2. t[i] = an[i]
      BY <1>5, <1>6, <3>1
    <3>3. an[i] = a[i]
      BY <1>1, <1>2, <1>4, <3>1
    <3>. QED BY <1>2, <2>1, <3>1, <3>2, <3>3
  <2>2. CASE ~(i < k) /\ i < k + Len(new)
    <3>1. ~(i <= k - 1) /\ i <= k - 1 + Len(new) /\ i - (k - 1) = i - k + 1
          /\ i \in 1..k - 1 + Len(new)
      BY <1>1, <2>2
    <3>2. t[i] = an[i]
      BY <1>5, <1>6, <3>1
    <3>3. an[i] = new[i - (k - 1)]
      BY <1>2, <1>4, <3>1
    <3>. QED BY <2>2, <3>1, <3>2, <3>3
  <2>3. CASE ~(i < k) /\ ~(i < k + Len(new))
    <3>1. /\ ~(i <= k - 1 + Len(new))
          /\ i - (k - 1 + Len(new)) \in 1..Len(s) - k + 1
          /\ k + (i - (k - 1 + Len(new))) - 1 = i - Len(new)
      BY <1>1, <2>3
    <3>2. t[i] = b[i - (k - 1 + Len(new))]
      BY <1>3, <1>5, <1>6, <3>1
    <3>3. b[i - (k - 1 + Len(new))] = s[i - Len(new)]
      BY <1>3, <3>1
    <3>. QED BY <2>3, <3>2, <3>3
  <2>. QED BY <2>1, <2>2, <2>3
<1>8. Spread(s, k, new, t)
  BY <1>6, <1>7 DEF Spread
<1>. QED BY <1>5, <1>8 DEF Spliced, t, an, a, b

LEMMA ConcatSpreads ==
    ASSUME NEW S, NEW s \in Seq(S), NEW new \in Seq(S)
    PROVE  s \o new \in Seq(S) /\ Spread(s, Len(s) + 1, new, s \o new)
<1> DEFINE t == s \o new
<1>1. Len(s) \in Nat /\ Len(new) \in Nat
  BY LenProperties
<1>2. /\ t \in Seq(S) /\ Len(t) = Len(s) + Len(new) /\ DOMAIN t = 1..Len(t)
      /\ \A i \in 1..Len(s) + Len(new) : t[i] = IF i <= Len(s) THEN s[i] ELSE new[i - Len(s)]
  BY ConcatProperties, LenProperties
<1> HIDE DEF t
<1>3. ASSUME NEW i \in 1..Len(s) + Len(new)
      PROVE  t[i] = IF i < Len(s) + 1 THEN s[i]
                    ELSE IF i < Len(s) + 1 + Len(new) THEN new[i - (Len(s) + 1) + 1]
                    ELSE s[i - Len(new)]
  <2>1. /\ i <= Len(s) <=> i < Len(s) + 1
        /\ i < Len(s) + 1 + Len(new) /\ i - (Len(s) + 1) + 1 = i - Len(s)
    BY <1>1
  <2>. QED BY <1>2, <2>1
<1>4. Spread(s, Len(s) + 1, new, t)
  BY <1>2, <1>3 DEF Spread
<1>. QED BY <1>2, <1>4 DEF t

\* Where the characters of s and of new are in t
LEMMA SpreadPlaces ==
    ASSUME NEW s \in Seq(Character), NEW new \in Seq(Character), NEW k \in 1..Len(s) + 1,
           NEW t, Spread(s, k, new, t)
    PROVE  /\ \A i \in DOMAIN t :
                  \/ \E m \in DOMAIN s : t[i] = s[m] /\ i = IF m < k THEN m ELSE m + Len(new)
                  \/ \E n \in DOMAIN new : t[i] = new[n] /\ i = n + k - 1
           /\ \A m \in DOMAIN s : \E i \in DOMAIN t :
                  t[i] = s[m] /\ i = IF m < k THEN m ELSE m + Len(new)
           /\ \A n \in DOMAIN new : \E i \in DOMAIN t : t[i] = new[n] /\ i = n + k - 1
<1>1. /\ Len(s) \in Nat /\ Len(new) \in Nat /\ k \in Int /\ 1 <= k /\ k <= Len(s) + 1
      /\ DOMAIN s = 1..Len(s) /\ DOMAIN new = 1..Len(new)
      /\ DOMAIN t = 1..Len(s) + Len(new)
  BY LenProperties DEF Spread
<1>2. ASSUME NEW i \in DOMAIN t
      PROVE  /\ i < k => i \in DOMAIN s /\ t[i] = s[i]
             /\ i >= k /\ i < k + Len(new) =>
                    i - k + 1 \in DOMAIN new /\ t[i] = new[i - k + 1] /\ i = i - k + 1 + k - 1
             /\ i >= k + Len(new) =>
                    /\ i - Len(new) \in DOMAIN s /\ i - Len(new) >= k /\ t[i] = s[i - Len(new)]
                    /\ i = i - Len(new) + Len(new)
  <2>1. t[i] = IF i < k THEN s[i]
               ELSE IF i < k + Len(new) THEN new[i - k + 1]
               ELSE s[i - Len(new)]
    BY DEF Spread
  <2>2. /\ i < k => i \in 1..Len(s)
        /\ i >= k /\ i < k + Len(new) => i - k + 1 \in 1..Len(new) /\ ~(i < k)
        /\ i >= k + Len(new) => /\ i - Len(new) \in 1..Len(s) /\ i - Len(new) >= k
                                /\ ~(i < k) /\ ~(i < k + Len(new))
    BY <1>1
  <2>3. i = i - k + 1 + k - 1 /\ i = i - Len(new) + Len(new)
    BY <1>1
  <2>. QED BY <1>1, <2>1, <2>2, <2>3
<1>3. ASSUME NEW i \in DOMAIN t
      PROVE  \/ \E m \in DOMAIN s : t[i] = s[m] /\ i = IF m < k THEN m ELSE m + Len(new)
             \/ \E n \in DOMAIN new : t[i] = new[n] /\ i = n + k - 1
  <2>1. i < k \/ (i >= k /\ i < k + Len(new)) \/ i >= k + Len(new)
    BY <1>1
  <2>2. CASE i < k
    BY <1>2, <2>2
  <2>3. CASE i >= k /\ i < k + Len(new)
    BY <1>2, <2>3
  <2>4. CASE i >= k + Len(new)
    <3>1. ~(i - Len(new) < k)
      BY <1>1, <2>4
    <3>. QED BY <1>2, <2>4, <3>1
  <2>. QED BY <2>1, <2>2, <2>3, <2>4
<1>4. ASSUME NEW m \in DOMAIN s
      PROVE  \E i \in DOMAIN t : t[i] = s[m] /\ i = IF m < k THEN m ELSE m + Len(new)
  <2>1. CASE m < k
    <3>1. m \in DOMAIN t
      BY <1>1
    <3>. QED BY <1>2, <2>1, <3>1
  <2>2. CASE ~(m < k)
    <3>1. m + Len(new) \in DOMAIN t /\ m + Len(new) >= k + Len(new)
          /\ m + Len(new) - Len(new) = m
      BY <1>1, <2>2
    <3>. QED BY <1>2, <2>2, <3>1
  <2>. QED BY <2>1, <2>2
<1>5. ASSUME NEW n \in DOMAIN new
      PROVE  \E i \in DOMAIN t : t[i] = new[n] /\ i = n + k - 1
  <2>1. n + k - 1 \in DOMAIN t /\ n + k - 1 >= k /\ n + k - 1 < k + Len(new)
        /\ (n + k - 1) - k + 1 = n
    BY <1>1
  <2>. QED BY <1>2, <2>1
<1>. QED BY <1>3, <1>4, <1>5

LEMMA SpreadSet ==
    ASSUME NEW s \in Seq(Character), NEW new \in Seq(Character), NEW k \in 1..Len(s) + 1,
           NEW t, Spread(s, k, new, t)
    PROVE  ToSet(t) = ToSet(s) \cup ToSet(new)
<1>1. /\ \A i \in DOMAIN t : \/ \E m \in DOMAIN s : t[i] = s[m]
                             \/ \E n \in DOMAIN new : t[i] = new[n]
      /\ \A m \in DOMAIN s : \E i \in DOMAIN t : t[i] = s[m]
      /\ \A n \in DOMAIN new : \E i \in DOMAIN t : t[i] = new[n]
  BY SpreadPlaces
<1>. QED BY <1>1 DEF ToSet

\* Characters put among others leave those unique that were, but for the identifiers shared.
LEMMA SpreadKeeps ==
    ASSUME NEW s \in Seq(Character), NEW new \in Seq(Character), NEW k \in 1..Len(s) + 1,
           NEW t, Spread(s, k, new, t), NEW peers, UniqueBut(s, peers), Unique(new),
           \A c \in ToSet(s) : \A d \in ToSet(new) : c.id = d.id => c.id.peerId \in peers
    PROVE  UniqueBut(t, peers)
<1> SUFFICES ASSUME NEW i \in DOMAIN t, NEW j \in DOMAIN t, t[i].id = t[j].id,
                    t[i].id.peerId \notin peers
             PROVE  i = j
  BY DEF UniqueBut
<1>1. /\ \A m, n \in DOMAIN s : s[m].id = s[n].id => m = n \/ s[m].id.peerId \in peers
      /\ \A m, n \in DOMAIN new : new[m].id = new[n].id => m = n
      /\ \A m \in DOMAIN s : \A n \in DOMAIN new :
             s[m].id = new[n].id => s[m].id.peerId \in peers
  BY DEF UniqueBut, Unique, ToSet
<1>2. \A h \in DOMAIN t :
          \/ \E m \in DOMAIN s : t[h] = s[m] /\ h = IF m < k THEN m ELSE m + Len(new)
          \/ \E n \in DOMAIN new : t[h] = new[n] /\ h = n + k - 1
  BY SpreadPlaces
<1>3. CASE \E m \in DOMAIN s : t[i] = s[m] /\ i = IF m < k THEN m ELSE m + Len(new)
  <2>1. PICK m \in DOMAIN s : t[i] = s[m] /\ i = IF m < k THEN m ELSE m + Len(new)
    BY <1>3
  <2>2. PICK n \in DOMAIN s : t[j] = s[n] /\ j = IF n < k THEN n ELSE n + Len(new)
    BY <1>1, <1>2, <2>1
  <2>3. m = n
    BY <1>1, <2>1, <2>2
  <2>. QED BY <2>1, <2>2, <2>3
<1>4. CASE \E n \in DOMAIN new : t[i] = new[n] /\ i = n + k - 1
  <2>1. PICK m \in DOMAIN new : t[i] = new[m] /\ i = m + k - 1
    BY <1>4
  <2>2. PICK n \in DOMAIN new : t[j] = new[n] /\ j = n + k - 1
    BY <1>1, <1>2, <2>1
  <2>3. m = n
    BY <1>1, <2>1, <2>2
  <2>. QED BY <2>1, <2>2, <2>3
<1>. QED BY <1>2, <1>3, <1>4

\* What is unique in the end was unique before, and apart from what was put there.
LEMMA SpreadWasUnique ==
    ASSUME NEW s \in Seq(Character), NEW new \in Seq(Character), NEW k \in 1..Len(s) + 1,
           NEW t, Spread(s, k, new, t), Unique(t)
    PROVE  Unique(s) /\ \A c \in ToSet(s) : \A d \in ToSet(new) : c.id # d.id
<1>1. /\ \A m \in DOMAIN s : \E i \in DOMAIN t :
             t[i] = s[m] /\ i = IF m < k THEN m ELSE m + Len(new)
      /\ \A n \in DOMAIN new : \E i \in DOMAIN t : t[i] = new[n] /\ i = n + k - 1
  BY SpreadPlaces
<1>2. /\ Len(s) \in Nat /\ Len(new) \in Nat /\ k \in Int
      /\ DOMAIN s = 1..Len(s) /\ DOMAIN new = 1..Len(new)
  BY LenProperties
<1>3. \A i, j \in DOMAIN t : t[i].id = t[j].id => i = j
  BY DEF Unique
<1>4. ASSUME NEW m \in DOMAIN s, NEW n \in DOMAIN s, s[m].id = s[n].id
      PROVE  m = n
  <2>1. (IF m < k THEN m ELSE m + Len(new)) = (IF n < k THEN n ELSE n + Len(new))
    BY <1>1, <1>3, <1>4
  <2>2. m \in Int /\ n \in Int
    BY <1>2
  <2>. QED BY <1>2, <2>1, <2>2
<1>5. ASSUME NEW m \in DOMAIN s, NEW n \in DOMAIN new, s[m].id = new[n].id
      PROVE  FALSE
  <2>1. (IF m < k THEN m ELSE m + Len(new)) = n + k - 1
    BY <1>1, <1>3, <1>5
  <2>2. m \in Int /\ n \in Int /\ 1 <= n /\ n <= Len(new)
    BY <1>2
  <2>. QED BY <1>2, <2>1, <2>2
<1>. QED BY <1>4, <1>5 DEF Unique, ToSet

----------------------------------------------------------------------------
(* What the operations do to a document *)

\* An operation gives identifiers no other of some operations gave, but those of some peers.
Fresh(op, known, peers) ==
    \A c \in Written(known) : \A d \in ToSet(CharactersOf(op.key[1], op.clock, op.content)) :
        c.id = d.id => c.id.peerId \in peers

LEMMA UndeletedFacts ==
    ASSUME NEW c \in Character
    PROVE  /\ Undeleted(c) \in Character /\ Undeleted(c).id = c.id
           /\ Undeleted(c).value = c.value
           /\ c.deleted = FALSE => Undeleted(c) = c
BY DEF Undeleted, Character

LEMMA WrittenGrows ==
    ASSUME NEW known, NEW more, known \subseteq more
    PROVE  Written(known) \subseteq Written(more)
BY DEF Written

LEMMA ClockedOperationsFresh ==
    ASSUME NEW known \in SUBSET Operation, NEW op \in Operation, NEW peers,
           \A o \in known : o.key # op.key,
           \A o \in known \cup {op} : o.key[1] \notin peers => o.clock = o.key[2] + 1
    PROVE  Fresh(op, known, peers)
<1> DEFINE new == CharactersOf(op.key[1], op.clock, op.content)
<1>1. /\ op.key[1] \in PeerIds /\ op.key[2] \in Nat /\ op.key = <<op.key[1], op.key[2]>>
      /\ op.clock \in Nat /\ op.content \in Seq(Letters)
  BY DEF Operation, Key
<1>2. \A d \in ToSet(new) : d.id.peerId = op.key[1] /\ d.id.clock = op.clock
  <2>1. op.key[1] \in PeerIds \cup {System}
    BY <1>1
  <2>2. Stamped(op.key[1], op.clock, new)
    BY <1>1, <2>1, TextCharacters
  <2>. QED BY <2>2 DEF Stamped
<1>3. \A c \in ToSet(CharactersOf(System, 0, InitialContent)) : c.id.peerId = System
  <2>1. InitialContent \in Seq(Letters) /\ 0 \in Nat /\ System \in PeerIds \cup {System}
    BY TextsAreSequences
  <2>2. Stamped(System, 0, CharactersOf(System, 0, InitialContent))
    BY <2>1, TextCharacters
  <2>. QED BY <2>2 DEF Stamped
<1>4. ASSUME NEW o \in known, NEW c \in ToSet(CharactersOf(o.key[1], o.clock, o.content))
      PROVE  c.id.peerId = op.key[1] /\ c.id.clock = op.clock => op.key[1] \in peers
  <2>1. /\ o.key[1] \in PeerIds /\ o.key[2] \in Nat /\ o.key = <<o.key[1], o.key[2]>>
        /\ o.clock \in Nat /\ o.content \in Seq(Letters)
    BY DEF Operation, Key
  <2>2. c.id.peerId = o.key[1] /\ c.id.clock = o.clock
    <3>1. o.key[1] \in PeerIds \cup {System}
      BY <2>1
    <3>2. Stamped(o.key[1], o.clock, CharactersOf(o.key[1], o.clock, o.content))
      BY <2>1, <3>1, TextCharacters
    <3>. QED BY <3>2 DEF Stamped
  <2>3. o.key[1] # op.key[1] \/ o.key[2] # op.key[2]
    BY <1>1, <2>1
  <2>4. o.key[1] = op.key[1] /\ op.key[1] \notin peers =>
            o.clock = o.key[2] + 1 /\ op.clock = op.key[2] + 1
    OBVIOUS
  <2>. QED BY <1>1, <2>1, <2>2, <2>3, <2>4
<1>5. System # op.key[1]
  BY <1>1, PeersAreNumbered
<1>. QED BY <1>2, <1>3, <1>4, <1>5 DEF Written, Fresh

LEMMA InsertKeeps ==
    ASSUME NEW known \in SUBSET Operation, NEW op \in Operation, op.type = "insert",
           NEW s, Holds(s, known), NEW k \in 1..Len(s) + 1, NEW t \in Seq(Character),
           Spread(s, k, CharactersOf(op.key[1], op.clock, op.content), t)
    PROVE  /\ Holds(t, known \cup {op})
           /\ \A peers : UniqueBut(s, peers) /\ Fresh(op, known, peers) => UniqueBut(t, peers)
           /\ (/\ Unique(s) => Buries(s, known)
               /\ op.ids = {}
               /\ \A id \in Erased(known) : \E c \in Written(known) : c.id = id)
              => (Unique(t) => Buries(t, known \cup {op}))
<1> DEFINE new == CharactersOf(op.key[1], op.clock, op.content)
<1>1. /\ op.key[1] \in PeerIds \cup {System} /\ op.clock \in Nat /\ op.content \in Seq(Letters)
  BY DEF Operation, Key
<1>2. NewCharacters(op.key[1], op.clock, op.content, new) /\ Unique(new)
      /\ Stamped(op.key[1], op.clock, new)
  BY <1>1, TextCharacters
<1>3. new \in Seq(Character) /\ Spread(s, k, new, t)
  BY <1>2 DEF NewCharacters
<1>4. s \in Seq(Character) /\ {Undeleted(c) : c \in ToSet(s)} = Written(known)
  BY DEF Holds
<1>5. \A c \in ToSet(s) : c \in Character
  BY <1>4, ElementOfSeq, LenProperties DEF ToSet
<1>6. \A d \in ToSet(new) : d \in Character /\ d.deleted = FALSE
  BY <1>2 DEF Stamped
<1>7. \A peers : Fresh(op, known, peers) =>
          \A c \in Written(known) : \A d \in ToSet(new) : c.id = d.id => c.id.peerId \in peers
  BY DEF Fresh
<1>8. Written(known \cup {op}) = Written(known) \cup ToSet(new)
  BY DEF Written
<1> HIDE DEF new
<1>9. \A c \in ToSet(s) : Undeleted(c) \in Written(known) /\ Undeleted(c).id = c.id
  BY <1>4, <1>5, UndeletedFacts
<1>10. ToSet(t) = ToSet(s) \cup ToSet(new)
  BY <1>3, <1>4, SpreadSet
<1>11. Holds(t, known \cup {op})
  <2>1. {Undeleted(c) : c \in ToSet(t)} = {Undeleted(c) : c \in ToSet(s)} \cup {Undeleted(c) : c \in ToSet(new)}
    BY <1>10
  <2>2. \A d \in ToSet(new) : Undeleted(d) = d
    BY <1>6, UndeletedFacts
  <2>3. {Undeleted(c) : c \in ToSet(new)} = ToSet(new)
    BY <2>2
  <2>. QED BY <1>4, <1>8, <2>1, <2>3 DEF Holds
<1>12. ASSUME NEW peers, UniqueBut(s, peers), Fresh(op, known, peers)
       PROVE  UniqueBut(t, peers)
  <2>1. \A c \in Written(known) : \A d \in ToSet(new) : c.id = d.id => c.id.peerId \in peers
    BY <1>7, <1>12
  <2>2. \A c \in ToSet(s) : \A d \in ToSet(new) : c.id = d.id => c.id.peerId \in peers
    BY <1>9, <2>1
  <2>. QED BY <1>2, <1>3, <1>4, <1>12, <2>2, SpreadKeeps
<1>13. ASSUME Unique(s) => Buries(s, known), op.ids = {}, Unique(t),
              \A id \in Erased(known) : \E c \in Written(known) : c.id = id
       PROVE  Buries(t, known \cup {op})
  <2>1. Erased(known \cup {op}) = Erased(known)
    BY <1>13 DEF Erased
  <2>2. Unique(s) /\ \A c \in ToSet(s) : \A d \in ToSet(new) : c.id # d.id
    BY <1>3, <1>4, <1>13, SpreadWasUnique
  <2>3. ASSUME NEW d \in ToSet(new), d.id \in Erased(known)
        PROVE  FALSE
    <3>1. PICK c \in Written(known) : c.id = d.id
      BY <1>13, <2>3
    <3>2. PICK x \in ToSet(s) : c = Undeleted(x)
      BY <1>4, <3>1
    <3>. QED BY <1>9, <2>2, <3>1, <3>2
  <2>. QED BY <1>6, <1>10, <1>13, <2>1, <2>2, <2>3 DEF Buries
<1>. QED BY <1>11, <1>12, <1>13 DEF new

LEMMA DeleteKeeps ==
    ASSUME NEW known \in SUBSET Operation, NEW op \in Operation, op.type = "delete",
           NEW s, Holds(s, known), NEW marks
    PROVE  /\ Holds(Marked(s, marks), known \cup {op})
           /\ \A peers : UniqueBut(s, peers) => UniqueBut(Marked(s, marks), peers)
           /\ Unique(Marked(s, marks)) => Unique(s)
           /\ (Buries(s, known) /\ \A i \in DOMAIN s : i \in marks <=> s[i].id \in op.ids)
              => Buries(Marked(s, marks), known \cup {op})
<1> DEFINE t == Marked(s, marks)
<1>1. s \in Seq(Character) /\ {Undeleted(c) : c \in ToSet(s)} = Written(known)
  BY DEF Holds
<1>2. Len(s) \in Nat /\ DOMAIN s = 1..Len(s) /\ \A i \in DOMAIN s : s[i] \in Character
  BY <1>1, ElementOfSeq, LenProperties
<1>3. DOMAIN t = DOMAIN s /\ \A i \in DOMAIN s : t[i] = [s[i] EXCEPT !.deleted = @ \/ i \in marks]
  BY DEF Marked
<1> HIDE DEF t
<1>4. \A i \in DOMAIN s :
          /\ t[i] \in Character /\ t[i].id = s[i].id /\ Undeleted(t[i]) = Undeleted(s[i])
          /\ t[i].deleted <=> s[i].deleted \/ i \in marks
  <2> TAKE i \in DOMAIN s
  <2>1. s[i] \in Character /\ t[i] = [s[i] EXCEPT !.deleted = s[i].deleted \/ i \in marks]
    BY <1>2, <1>3
  <2>. QED BY <2>1 DEF Character, Undeleted
<1>5. t \in Seq(Character)
  <2>1. t \in [1..Len(s) -> Character]
    BY <1>2, <1>3, <1>4 DEF t, Marked
  <2>. QED BY <1>2, <2>1, SeqDef
<1>6. (Unique(t) => Unique(s)) /\ \A peers : UniqueBut(s, peers) => UniqueBut(t, peers)
  <2>1. DOMAIN t = DOMAIN s /\ \A i \in DOMAIN s : t[i].id = s[i].id
    BY <1>3, <1>4
  <2>. QED BY <2>1 DEF Unique, UniqueBut
<1>7. {Undeleted(c) : c \in ToSet(t)} = {Undeleted(c) : c \in ToSet(s)}
  BY <1>3, <1>4 DEF ToSet
<1>8. Written(known \cup {op}) = Written(known)
  BY DEF Written
<1>9. ASSUME Buries(s, known), \A i \in DOMAIN s : i \in marks <=> s[i].id \in op.ids
      PROVE  Buries(t, known \cup {op})
  <2>1. Erased(known \cup {op}) = Erased(known) \cup op.ids
    BY DEF Erased
  <2>2. ASSUME NEW c \in ToSet(t)
        PROVE  c.deleted <=> c.id \in Erased(known \cup {op})
    <3>1. PICK i \in DOMAIN s : c = t[i]
      BY <1>3 DEF ToSet
    <3>2. s[i].deleted <=> s[i].id \in Erased(known)
      BY <1>9 DEF Buries, ToSet
    <3>. QED BY <1>4, <1>9, <2>1, <3>1, <3>2
  <2>. QED BY <2>2 DEF Buries
<1>10. Holds(t, known \cup {op})
  BY <1>1, <1>5, <1>7, <1>8 DEF Holds
<1>. QED BY <1>6, <1>9, <1>10 DEF t

\* Each identifier is found where it is, because it is there only once.
LEMMA FirstFoundMarks ==
    ASSUME NEW s \in Seq(Character), Unique(s), NEW ids, NEW i \in DOMAIN s
    PROVE  i \in FirstFound(s, ids) <=> s[i].id \in ids
<1>1. Len(s) \in Nat /\ DOMAIN s = 1..Len(s)
  BY LenProperties
<1>2. \A j \in 1..i - 1 : j \in DOMAIN s /\ j # i
  BY <1>1
<1>. QED BY <1>2 DEF FirstFound, Unique

LEMMA IndexInArray ==
    ASSUME NEW s \in Seq(Character), NEW position
    PROVE  CharArrayIndex(s, position) \in 1..Len(s) + 1
<1>1. Len(s) \in Nat /\ DOMAIN s = 1..Len(s)
  BY LenProperties
<1>2. \A i \in Live(s) : i \in 1..Len(s)
  BY <1>1 DEF Live
<1>. QED BY <1>1, <1>2 DEF CharArrayIndex

----------------------------------------------------------------------------
(* The operations that are made and applied *)

\* Over a causal network an operation that was applied deleted only what was written by
\* others that were: an insert is applied before any delete of its characters.
LEMMA ErasedWasWritten ==
    ASSUME AppliedSound, DeletesSound, Causal, NEW p \in PeerIds
    PROVE  \A id \in Erased(Known(p)) : \E c \in Written(Known(p)) : c.id = id
<1> SUFFICES ASSUME NEW id \in Erased(Known(p))
             PROVE  \E c \in Written(Known(p)) : c.id = id
  OBVIOUS
<1>1. PICK o \in ops : o.key \in applied[p] /\ id \in o.ids
  BY DEF Erased, Known
<1>2. PICK c \in Written({x \in ops : x.key \in o.after}) : c.id = id
  BY <1>1 DEF DeletesSound
<1>3. {x \in ops : x.key \in o.after} \subseteq Known(p)
  BY <1>1 DEF AppliedSound, Known
<1>4. c \in Written(Known(p))
  BY <1>2, <1>3, WrittenGrows
<1>. QED BY <1>2, <1>4

\* Peer p applies an operation that is new to it.
Applies(p, op) ==
    /\ op \in Operation /\ Known(p) \in SUBSET Operation /\ Fresh(op, Known(p), restarted)
    /\ op.type = "insert" => op.ids = {}
    /\ Known(p)' = Known(p) \cup {op}
    /\ \A r \in PeerIds : r # p => Known(r)' = Known(r)
    /\ restarted' = restarted

LEMMA KnownOperations ==
    ASSUME WellTyped, ClocksSound, NEW p \in PeerIds, NEW op \in Operation,
           op.key[1] \notin restarted => op.clock = op.key[2] + 1, op.key \notin applied[p]
    PROVE  Known(p) \in SUBSET Operation /\ Fresh(op, Known(p), restarted)
<1>1. Known(p) \in SUBSET Operation
  BY DEF Known, WellTyped
<1>2. \A o \in Known(p) : o.key # op.key
  BY DEF Known
<1>3. \A o \in Known(p) \cup {op} : o.key[1] \notin restarted => o.clock = o.key[2] + 1
  BY DEF Known, ClocksSound
<1>. QED BY <1>1, <1>2, <1>3, ClockedOperationsFresh

LEMMA IssueKeeps ==
    ASSUME IInv, NEW p \in PeerIds, NEW type \in {"insert", "delete"},
           NEW content \in Seq(Letters), NEW ids,
           \A id \in ids : \E c \in ToSet(characters[p]) : c.id = id,
           type = "insert" => ids = {}, Issue(p, type, content, ids)
    PROVE  /\ OperationsSound'
           /\ \E op : /\ Applies(p, op) /\ op.type = type /\ op.content = content /\ op.ids = ids
                      /\ op.key[1] = p /\ op.clock = peerClocks[p][p] + 1
<1> DEFINE op == [key |-> <<p, Cardinality(Made(p))>>, type |-> type, content |-> content,
                  ids |-> ids, clock |-> peerClocks[p][p] + 1, after |-> applied[p]]
<1>1. /\ ops' = ops \cup {op}
      /\ applied' = [applied EXCEPT ![p] = @ \cup {op.key}]
      /\ peerClocks' = [peerClocks EXCEPT ![p][p] = @ + 1]
      /\ restarted' = restarted
  BY DEF Issue
<1>2. /\ op.key = <<p, Cardinality(Made(p))>> /\ op.key[1] = p /\ op.key[2] = Cardinality(Made(p))
      /\ op.type = type /\ op.content = content /\ op.ids = ids
      /\ op.clock = peerClocks[p][p] + 1 /\ op.after = applied[p]
  OBVIOUS
<1>3. WellTyped /\ ClocksSound /\ AppliedSound /\ DeletesSound /\ DocumentsSound
  BY DEF IInv, OperationsSound
<1>4. /\ IsFiniteSet(Made(p)) /\ Cardinality(Made(p)) \in Nat
      /\ p \notin restarted => peerClocks[p][p] = Cardinality(Made(p))
      /\ peerClocks[p][p] \in Nat /\ Made(p) \subseteq ops
  <2>1. Made(p) \in SUBSET ops /\ IsFiniteSet(ops)
    BY <1>3 DEF Made, WellTyped
  <2>2. IsFiniteSet(Made(p))
    BY <2>1, FS_Subset
  <2>3. Cardinality(Made(p)) \in Nat
    BY <2>2, FS_CardinalityType
  <2>. QED BY <1>3, <2>1, <2>2, <2>3 DEF ClocksSound, WellTyped
<1>5. Keys \subseteq Key /\ applied[p] \subseteq Keys
  BY <1>3 DEF WellTyped, Keys, Operation
<1>6. op \in Operation
  <2>1. \A c \in ToSet(characters[p]) : c.id \in CharacterId
    <3>1. \A c \in ToSet(characters[p]) : c \in Character
      BY <1>3, ElementOfSeq, LenProperties DEF ToSet, DocumentsSound
    <3>. QED BY <3>1 DEF Character
  <2>2. ids \in SUBSET CharacterId
    BY <2>1
  <2>3. <<p, Cardinality(Made(p))>> \in Key /\ peerClocks[p][p] + 1 \in Nat
    BY <1>4 DEF Key
  <2>. QED BY <1>5, <2>2, <2>3 DEF Operation
<1> HIDE DEF op
<1>7. \A o \in ops : o.key # op.key
  <2> SUFFICES ASSUME NEW o \in ops, o.key = op.key
               PROVE  FALSE
    OBVIOUS
  <2>1. o.key[2] < Cardinality(Made(p))
    BY <1>2, <1>3 DEF ClocksSound
  <2>. QED BY <1>2, <1>4, <2>1
<1>8. op.key \notin Keys
  BY <1>7 DEF Keys
<1>9. Keys' = Keys \cup {op.key}
  BY <1>1 DEF Keys
<1>10. /\ applied'[p] = applied[p] \cup {op.key}
       /\ \A r \in PeerIds : r # p => applied'[r] = applied[r]
  BY <1>1, <1>3 DEF WellTyped
<1>11. /\ peerClocks'[p][p] = peerClocks[p][p] + 1
       /\ \A r \in PeerIds : r # p => peerClocks'[r][r] = peerClocks[r][r]
       /\ peerClocks' \in [PeerIds -> [PeerIds -> Nat]]
  BY <1>1, <1>3 DEF WellTyped
<1>12. WellTyped'
  <2>1. ops' \subseteq Operation /\ IsFiniteSet(ops')
    BY <1>1, <1>3, <1>6, FS_AddElement DEF WellTyped
  <2>2. applied' \in [PeerIds -> SUBSET Keys']
    BY <1>1, <1>3, <1>9 DEF WellTyped
  <2>. QED BY <1>1, <1>3, <1>11, <2>1, <2>2 DEF WellTyped
<1>13. ClocksSound'
  <2>1. \A o, r \in ops' : o.key = r.key => o = r
    BY <1>1, <1>3, <1>7 DEF ClocksSound
  <2>2. ASSUME NEW r \in PeerIds
        PROVE  Cardinality(Made(r)') = IF r = p THEN Cardinality(Made(p)) + 1
                                       ELSE Cardinality(Made(r))
    <3>1. CASE r = p
      <4>1. Made(p)' = Made(p) \cup {op} /\ op \notin Made(p)
        BY <1>1, <1>2, <1>4, <1>7 DEF Made
      <4>. QED BY <1>4, <3>1, <4>1, FS_AddElement
    <3>2. CASE r # p
      <4>1. Made(r)' = Made(r)
        BY <1>1, <1>2, <3>2 DEF Made
      <4>. QED BY <3>2, <4>1
    <3>. QED BY <3>1, <3>2
  <2>3. ASSUME NEW o \in ops'
        PROVE  /\ o.key[2] < Cardinality(Made(o.key[1])')
               /\ o.key[1] \notin restarted' => o.clock = o.key[2] + 1
    <3>1. CASE o = op
      <4>1. Cardinality(Made(p)') = Cardinality(Made(p)) + 1
        BY <2>2
      <4>. QED BY <1>1, <1>2, <1>4, <3>1, <4>1
    <3>2. CASE o \in ops
      <4>1. /\ o.key[2] < Cardinality(Made(o.key[1]))
            /\ o.key[1] \notin restarted => o.clock = o.key[2] + 1
        BY <1>3, <3>2 DEF ClocksSound
      <4>2. o.key[1] \in PeerIds /\ o.key[2] \in Nat
        BY <1>3, <3>2 DEF WellTyped, Operation, Key
      <4>3. Cardinality(Made(o.key[1])') = IF o.key[1] = p THEN Cardinality(Made(p)) + 1
                                           ELSE Cardinality(Made(o.key[1]))
        BY <2>2, <4>2
      <4>4. CASE o.key[1] = p
        BY <1>1, <1>4, <4>1, <4>2, <4>3, <4>4
      <4>5. CASE o.key[1] # p
        BY <1>1, <4>1, <4>3, <4>5
      <4>. QED BY <4>4, <4>5
    <3>. QED BY <1>1, <3>1, <3>2
  <2>4. ASSUME NEW r \in PeerIds, r \notin restarted
        PROVE  peerClocks'[r][r] = Cardinality(Made(r)')
    <3>1. peerClocks[r][r] = Cardinality(Made(r))
      BY <1>3, <2>4 DEF ClocksSound
    <3>. QED BY <1>11, <2>2, <3>1
  <2>5. \A r \in PeerIds \ restarted' : peerClocks'[r][r] = Cardinality(Made(r)')
    BY <1>1, <2>4
  <2>. QED BY <2>1, <2>3, <2>5 DEF ClocksSound, Made
<1>14. AppliedSound'
  <2>1. ASSUME NEW o \in ops'
        PROVE  /\ o.key[1] \notin restarted' => o.key \in applied'[o.key[1]]
               /\ o.after \subseteq Keys'
    <3>1. CASE o = op
      BY <1>2, <1>5, <1>9, <1>10, <3>1
    <3>2. CASE o \in ops
      <4>1. /\ o.key[1] \notin restarted => o.key \in applied[o.key[1]]
            /\ o.after \subseteq Keys /\ o.key[1] \in PeerIds
        BY <1>3, <3>2 DEF AppliedSound, WellTyped, Operation, Key
      <4>. QED BY <1>1, <1>9, <1>10, <4>1
    <3>. QED BY <1>1, <3>1, <3>2
  <2>2. ASSUME Causal, NEW r \in PeerIds, NEW o \in ops', o.key \in applied'[r]
        PROVE  o.after \subseteq applied'[r]
    <3>1. CASE o = op
      <4>1. r = p
        BY <1>3, <1>8, <1>10, <2>2, <3>1 DEF WellTyped
      <4>. QED BY <1>2, <1>10, <3>1, <4>1
    <3>2. CASE o \in ops
      <4>1. o.key \in applied[r]
        BY <1>7, <1>10, <2>2, <3>2
      <4>2. o.after \subseteq applied[r]
        BY <1>3, <2>2, <3>2, <4>1 DEF AppliedSound
      <4>. QED BY <1>10, <4>2
    <3>. QED BY <1>1, <3>1, <3>2
  <2>. QED BY <2>1, <2>2 DEF AppliedSound
<1>15. DeletesSound'
  <2>1. ASSUME NEW o \in ops'
        PROVE  o.type = "insert" => o.ids = {}
    BY <1>1, <1>2, <1>3 DEF DeletesSound
  <2>2. ASSUME NEW o \in ops', NEW id \in o.ids
        PROVE  \E c \in Written({x \in ops' : x.key \in o.after}) : c.id = id
    <3>1. CASE o = op
      <4>1. PICK c \in ToSet(characters[p]) : c.id = id
        BY <1>2, <3>1
      <4>2. /\ characters[p] \in Seq(Character)
            /\ {Undeleted(x) : x \in ToSet(characters[p])} = Written(Known(p))
        BY <1>3 DEF DocumentsSound, Holds
      <4>3. c \in Character
        BY <4>2, ElementOfSeq, LenProperties DEF ToSet
      <4>4. Undeleted(c) \in Written(Known(p)) /\ Undeleted(c).id = id
        BY <4>1, <4>2, <4>3, UndeletedFacts
      <4>5. Known(p) \subseteq {x \in ops' : x.key \in op.after}
        BY <1>1, <1>2 DEF Known
      <4>6. Undeleted(c) \in Written({x \in ops' : x.key \in op.after})
        BY <4>4, <4>5, WrittenGrows
      <4>. QED BY <3>1, <4>4, <4>6
    <3>2. CASE o \in ops
      <4>1. PICK c \in Written({x \in ops : x.key \in o.after}) : c.id = id
        BY <1>3, <3>2 DEF DeletesSound
      <4>2. {x \in ops : x.key \in o.after} \subseteq {x \in ops' : x.key \in o.after}
        BY <1>1
      <4>3. c \in Written({x \in ops' : x.key \in o.after})
        BY <4>1, <4>2, WrittenGrows
      <4>. QED BY <4>1, <4>3
    <3>. QED BY <1>1, <3>1, <3>2
  <2>. QED BY <2>1, <2>2 DEF DeletesSound, Written
<1>16. Applies(p, op)
  <2>1. Known(p) \in SUBSET Operation /\ Fresh(op, Known(p), restarted)
    <3>1. op.key[1] \notin restarted => op.clock = op.key[2] + 1
      BY <1>2, <1>4
    <3>2. op.key \notin applied[p]
      BY <1>5, <1>8
    <3>. QED BY <1>3, <1>6, <3>1, <3>2, KnownOperations
  <2>2. Known(p)' = Known(p) \cup {op}
    BY <1>1, <1>7, <1>10 DEF Known
  <2>3. \A r \in PeerIds : op.key \notin applied[r]
    BY <1>3, <1>8 DEF WellTyped
  <2>4. \A r \in PeerIds : r # p => Known(r)' = Known(r)
    BY <1>1, <1>10, <2>3 DEF Known
  <2>. QED BY <1>1, <1>2, <1>6, <2>1, <2>2, <2>4 DEF Applies
<1>17. OperationsSound'
  BY <1>12, <1>13, <1>14, <1>15 DEF OperationsSound
<1>. QED BY <1>2, <1>16, <1>17

LEMMA IntegrateKeeps ==
    ASSUME IInv, NEW p \in PeerIds, NEW op \in ops, IntegrateRemoteOperation(p, op)
    PROVE  OperationsSound' /\ Applies(p, op)
<1>1. WellTyped /\ ClocksSound /\ AppliedSound /\ DeletesSound
  BY DEF IInv, OperationsSound
<1>2. /\ op.key \notin applied[p] /\ (Causal => op.after \subseteq applied[p])
      /\ applied' = [applied EXCEPT ![p] = @ \cup {op.key}]
      /\ peerClocks' = [peerClocks EXCEPT
             ![p][op.key[1]] = IF @ > op.clock + 1 THEN @ ELSE op.clock + 1]
      /\ ops' = ops /\ restarted' = restarted
  <2>1. Delivered(p, op)
    BY DEF IntegrateRemoteOperation
  <2>2. op.key \notin applied[p] /\ (Causal => op.after \subseteq applied[p])
    BY <2>1 DEF Delivered
  <2>. QED BY <2>2 DEF IntegrateRemoteOperation
<1>3. /\ op \in Operation /\ op.key[1] \in PeerIds /\ op.clock \in Nat /\ op.key \in Keys
      /\ op.key[1] \notin restarted => op.clock = op.key[2] + 1
  BY <1>1 DEF WellTyped, ClocksSound, Operation, Key, Keys
<1>4. p \notin restarted => op.key[1] # p
  BY <1>1, <1>2 DEF AppliedSound
<1>5. /\ peerClocks' \in [PeerIds -> [PeerIds -> Nat]]
      /\ \A r \in PeerIds \ restarted : peerClocks'[r][r] = peerClocks[r][r]
  <2>1. peerClocks[p][op.key[1]] \in Nat /\ op.clock + 1 \in Nat
    BY <1>1, <1>3 DEF WellTyped
  <2>. QED BY <1>1, <1>2, <1>3, <1>4, <2>1 DEF WellTyped
<1>6. /\ applied'[p] = applied[p] \cup {op.key}
      /\ \A r \in PeerIds : r # p => applied'[r] = applied[r]
      /\ applied' \in [PeerIds -> SUBSET Keys]
  BY <1>1, <1>2, <1>3 DEF WellTyped
<1>7. Keys' = Keys /\ \A r \in PeerIds : Made(r)' = Made(r)
  BY <1>2 DEF Keys, Made
<1>8. WellTyped'
  BY <1>1, <1>2, <1>5, <1>6, <1>7 DEF WellTyped
<1>9. ClocksSound'
  <2>1. \A o \in ops : /\ o.key[2] < Cardinality(Made(o.key[1]))
                       /\ o.key[1] \notin restarted => o.clock = o.key[2] + 1
    BY <1>1 DEF ClocksSound
  <2>2. \A o \in ops : Made(o.key[1])' = Made(o.key[1])
    BY <1>2 DEF Made
  <2>3. \A r \in PeerIds \ restarted : peerClocks'[r][r] = Cardinality(Made(r)')
    BY <1>1, <1>5, <1>7 DEF ClocksSound
  <2>. QED BY <1>1, <1>2, <2>1, <2>2, <2>3 DEF ClocksSound, Made
<1>10. AppliedSound'
  <2>1. \A o \in ops : /\ o.key[1] \notin restarted => o.key \in applied'[o.key[1]]
                       /\ o.after \subseteq Keys
    <3> TAKE o \in ops
    <3>1. (o.key[1] \notin restarted => o.key \in applied[o.key[1]]) /\ o.after \subseteq Keys /\ o.key[1] \in PeerIds
      BY <1>1 DEF AppliedSound, WellTyped, Operation, Key
    <3>. QED BY <1>6, <3>1
  <2>2. ASSUME Causal, NEW r \in PeerIds, NEW o \in ops, o.key \in applied'[r]
        PROVE  o.after \subseteq applied'[r]
    <3>1. CASE o.key \in applied[r]
      <4>1. o.after \subseteq applied[r]
        BY <1>1, <2>2, <3>1 DEF AppliedSound
      <4>. QED BY <1>6, <4>1
    <3>2. CASE o.key \notin applied[r]
      <4>1. r = p /\ o.key = op.key
        BY <1>6, <2>2, <3>2
      <4>2. o = op
        BY <1>1, <4>1 DEF ClocksSound
      <4>. QED BY <1>2, <1>6, <2>2, <4>1, <4>2
    <3>. QED BY <3>1, <3>2
  <2>. QED BY <1>2, <1>7, <2>1, <2>2 DEF AppliedSound
<1>11. DeletesSound'
  BY <1>1, <1>2 DEF DeletesSound, Written
<1>12. Applies(p, op)
  <2>1. Known(p) \in SUBSET Operation /\ Fresh(op, Known(p), restarted)
    BY <1>1, <1>2, <1>3, KnownOperations
  <2>2. Known(p)' = Known(p) \cup {op}
    BY <1>1, <1>2, <1>6 DEF Known, ClocksSound
  <2>3. \A r \in PeerIds : r # p => Known(r)' = Known(r)
    BY <1>2, <1>6 DEF Known
  <2>4. op.type = "insert" => op.ids = {}
    BY <1>1 DEF DeletesSound
  <2>. QED BY <1>2, <1>3, <2>1, <2>2, <2>3, <2>4 DEF Applies
<1>. QED BY <1>8, <1>9, <1>10, <1>11, <1>12 DEF OperationsSound

\* What DocumentsSound says of the next state
LEMMA DocumentsThen ==
    ASSUME characters' \in [PeerIds -> Seq(Character)],
           \A r \in PeerIds :
               /\ Holds(characters'[r], Known(r)') /\ UniqueBut(characters'[r], restarted')
               /\ Causal /\ Unique(characters'[r]) => Buries(characters'[r], Known(r)')
    PROVE  DocumentsSound'
BY DEF DocumentsSound, Holds, UniqueBut, Unique, Buries, Written, Erased

\* A peer that takes a state has restarted if it had made an operation; its document is then
\* what the document of the other was.
LEMMA ImportKeeps ==
    ASSUME IInv, NEW p \in PeerIds, NEW q \in PeerIds, ImportState(p, q)
    PROVE  IInv'
<1>1. WellTyped /\ ClocksSound /\ AppliedSound /\ DeletesSound /\ DocumentsSound
  BY DEF IInv, OperationsSound
<1>2. /\ restarted' = restarted \cup (IF Made(p) = {} THEN {} ELSE {p})
      /\ characters' = [characters EXCEPT ![p] = characters[q]]
      /\ peerClocks' = [peerClocks EXCEPT ![p] = [peer \in PeerIds |-> 0]]
      /\ applied' = [applied EXCEPT ![p] = applied[q]]
      /\ ops' = ops
  BY DEF ImportState
<1>3. /\ restarted' \subseteq PeerIds /\ restarted \subseteq restarted'
      /\ p \notin restarted' => Made(p) = {}
  BY <1>1, <1>2 DEF WellTyped
<1>4. \A o \in ops : o.key[1] \in PeerIds /\ (o.key[1] \notin restarted' => o.key[1] # p)
  BY <1>1, <1>3 DEF WellTyped, Operation, Key, Made
<1>5. Keys' = Keys /\ \A r \in PeerIds : Made(r)' = Made(r)
  BY <1>2 DEF Keys, Made
<1>6. /\ applied'[p] = applied[q] /\ \A r \in PeerIds : r # p => applied'[r] = applied[r]
      /\ applied' \in [PeerIds -> SUBSET Keys]
  BY <1>1, <1>2 DEF WellTyped
<1>7. /\ peerClocks' \in [PeerIds -> [PeerIds -> Nat]] /\ peerClocks'[p][p] = 0
      /\ \A r \in PeerIds : r # p => peerClocks'[r][r] = peerClocks[r][r]
  BY <1>1, <1>2 DEF WellTyped
<1>8. WellTyped'
  BY <1>1, <1>2, <1>3, <1>5, <1>6, <1>7 DEF WellTyped
<1>9. ClocksSound'
  <2>1. \A o \in ops : /\ o.key[2] < Cardinality(Made(o.key[1]))
                       /\ o.key[1] \notin restarted' => o.clock = o.key[2] + 1
    BY <1>1, <1>3 DEF ClocksSound
  <2>2. \A o \in ops : Made(o.key[1])' = Made(o.key[1])
    BY <1>2 DEF Made
  <2>3. p \notin restarted' => Cardinality(Made(p)) = 0
    BY <1>3, FS_EmptySet
  <2>4. \A r \in PeerIds \ restarted' : peerClocks'[r][r] = Cardinality(Made(r)')
    BY <1>1, <1>3, <1>5, <1>7, <2>3 DEF ClocksSound
  <2>. QED BY <1>1, <1>2, <2>1, <2>2, <2>4 DEF ClocksSound, Made
<1>10. AppliedSound'
  <2>1. \A o \in ops : /\ o.key[1] \notin restarted' => o.key \in applied'[o.key[1]]
                       /\ o.after \subseteq Keys
    BY <1>1, <1>3, <1>4, <1>6 DEF AppliedSound
  <2>2. ASSUME Causal, NEW r \in PeerIds, NEW o \in ops, o.key \in applied'[r]
        PROVE  o.after \subseteq applied'[r]
    <3>1. PICK s \in PeerIds : applied'[r] = applied[s]
      BY <1>6
    <3>. QED BY <1>1, <2>2, <3>1 DEF AppliedSound
  <2>. QED BY <1>2, <1>5, <2>1, <2>2 DEF AppliedSound
<1>11. DeletesSound'
  BY <1>1, <1>2 DEF DeletesSound, Written
<1>12. DocumentsSound'
  <2>1. /\ characters' \in [PeerIds -> Seq(Character)] /\ characters'[p] = characters[q]
        /\ \A r \in PeerIds : r # p => characters'[r] = characters[r]
    BY <1>1, <1>2 DEF DocumentsSound
  <2>2. Known(p)' = Known(q) /\ \A r \in PeerIds : r # p => Known(r)' = Known(r)
    BY <1>2, <1>6 DEF Known
  <2>3. ASSUME NEW r \in PeerIds
        PROVE  /\ Holds(characters'[r], Known(r)') /\ UniqueBut(characters'[r], restarted')
               /\ Causal /\ Unique(characters'[r]) => Buries(characters'[r], Known(r)')
    <3>1. PICK s \in PeerIds : characters'[r] = characters[s] /\ Known(r)' = Known(s)
      BY <2>1, <2>2
    <3>2. /\ Holds(characters[s], Known(s)) /\ UniqueBut(characters[s], restarted)
          /\ Causal /\ Unique(characters[s]) => Buries(characters[s], Known(s))
      BY <1>1 DEF DocumentsSound
    <3>3. UniqueBut(characters[s], restarted')
      BY <1>3, <3>2 DEF UniqueBut
    <3>. QED BY <3>1, <3>2, <3>3
  <2>. QED BY <2>1, <2>3, DocumentsThen
<1>. QED BY <1>8, <1>9, <1>10, <1>11, <1>12 DEF IInv, OperationsSound

\* The document of a peer that applies an operation is the only one that changes.
LEMMA DocumentsKept ==
    ASSUME IInv, NEW p \in PeerIds, NEW op, Applies(p, op), NEW t,
           characters' = [characters EXCEPT ![p] = t],
           Holds(t, Known(p) \cup {op}), UniqueBut(t, restarted),
           Causal /\ Unique(t) => Buries(t, Known(p) \cup {op})
    PROVE  DocumentsSound'
<1>1. DocumentsSound
  BY DEF IInv
<1>2. t \in Seq(Character)
  BY DEF Holds
<1>3. /\ characters' \in [PeerIds -> Seq(Character)] /\ characters'[p] = t
      /\ \A r \in PeerIds : r # p => characters'[r] = characters[r]
  BY <1>1, <1>2 DEF DocumentsSound
<1>4. ASSUME NEW r \in PeerIds
      PROVE  /\ Holds(characters'[r], Known(r)') /\ UniqueBut(characters'[r], restarted')
             /\ Causal /\ Unique(characters'[r]) => Buries(characters'[r], Known(r)')
  <2>1. CASE r = p
    BY <1>3, <2>1 DEF Applies
  <2>2. CASE r # p
    <3>1. characters'[r] = characters[r] /\ Known(r)' = Known(r) /\ restarted' = restarted
      BY <1>3, <2>2 DEF Applies
    <3>2. /\ Holds(characters[r], Known(r)) /\ UniqueBut(characters[r], restarted)
          /\ Causal /\ Unique(characters[r]) => Buries(characters[r], Known(r))
      BY <1>1 DEF DocumentsSound
    <3>. QED BY <3>1, <3>2
  <2>. QED BY <2>1, <2>2
<1>. QED BY <1>3, <1>4, DocumentsThen

\* An insert anywhere in the array of its author or at the end of another's
LEMMA InsertApplied ==
    ASSUME IInv, NEW p \in PeerIds, NEW op, Applies(p, op), op.type = "insert",
           NEW k \in 1..Len(characters[p]) + 1, NEW t \in Seq(Character),
           Spread(characters[p], k, CharactersOf(op.key[1], op.clock, op.content), t)
    PROVE  /\ Holds(t, Known(p) \cup {op}) /\ UniqueBut(t, restarted)
           /\ Causal /\ Unique(t) => Buries(t, Known(p) \cup {op})
<1>1. /\ op \in Operation /\ Known(p) \in SUBSET Operation /\ Fresh(op, Known(p), restarted)
      /\ op.ids = {}
  BY DEF Applies
<1>2. /\ Holds(characters[p], Known(p)) /\ UniqueBut(characters[p], restarted)
      /\ Causal /\ Unique(characters[p]) => Buries(characters[p], Known(p))
  BY DEF IInv, DocumentsSound
<1>3. Causal => \A id \in Erased(Known(p)) : \E c \in Written(Known(p)) : c.id = id
  BY ErasedWasWritten DEF IInv, OperationsSound
<1>4. Holds(t, Known(p) \cup {op}) /\ UniqueBut(t, restarted)
  BY <1>1, <1>2, InsertKeeps
<1>5. ASSUME Causal, Unique(t)
      PROVE  Buries(t, Known(p) \cup {op})
  <2>1. Unique(characters[p]) => Buries(characters[p], Known(p))
    BY <1>2, <1>5
  <2>2. \A id \in Erased(Known(p)) : \E c \in Written(Known(p)) : c.id = id
    BY <1>3, <1>5
  <2>. QED BY <1>1, <1>2, <1>5, <2>1, <2>2, InsertKeeps
<1>. QED BY <1>4, <1>5

LEMMA DeleteApplied ==
    ASSUME IInv, NEW p \in PeerIds, NEW op, Applies(p, op), op.type = "delete", NEW marks,
           Unique(characters[p]) => \A i \in DOMAIN characters[p] :
                                        i \in marks <=> characters[p][i].id \in op.ids
    PROVE  /\ Holds(Marked(characters[p], marks), Known(p) \cup {op})
           /\ UniqueBut(Marked(characters[p], marks), restarted)
           /\ Causal /\ Unique(Marked(characters[p], marks)) =>
                  Buries(Marked(characters[p], marks), Known(p) \cup {op})
<1>1. op \in Operation /\ Known(p) \in SUBSET Operation
  BY DEF Applies
<1>2. /\ Holds(characters[p], Known(p)) /\ UniqueBut(characters[p], restarted)
      /\ Causal /\ Unique(characters[p]) => Buries(characters[p], Known(p))
  BY DEF IInv, DocumentsSound
<1>. QED BY <1>1, <1>2, DeleteKeeps

----------------------------------------------------------------------------
(* The invariant *)

LEMMA InitIInv == Init => IInv
<1> SUFFICES ASSUME Init
             PROVE  IInv
  OBVIOUS
<1> DEFINE s == CharactersOf(System, 0, InitialContent)
<1>1. /\ characters = [p \in PeerIds |-> s] /\ ops = {}
      /\ peerClocks = [p \in PeerIds |-> [q \in PeerIds |-> 0]]
      /\ applied = [p \in PeerIds |-> {}] /\ restarted = {}
  BY DEF Init
<1>2. InitialContent \in Seq(Letters) /\ 0 \in Nat /\ System \in PeerIds \cup {System}
  BY TextsAreSequences
<1>3. /\ NewCharacters(System, 0, InitialContent, s) /\ Unique(s)
      /\ Stamped(System, 0, s)
  BY <1>2, TextCharacters
<1>4. s \in Seq(Character)
  BY <1>3 DEF NewCharacters
<1>5. \A c \in ToSet(s) : c \in Character /\ c.deleted = FALSE
  BY <1>3 DEF Stamped
<1>6. Written({}) = ToSet(s) /\ Erased({}) = {}
  BY DEF Written, Erased
<1> HIDE DEF s
<1>7. Holds(s, {}) /\ Buries(s, {})
  <2>1. \A c \in ToSet(s) : Undeleted(c) = c
    BY <1>5, UndeletedFacts
  <2>2. {Undeleted(c) : c \in ToSet(s)} = ToSet(s)
    BY <2>1
  <2>3. Buries(s, {})
    BY <1>5, <1>6 DEF Buries
  <2>. QED BY <1>4, <1>6, <2>2, <2>3 DEF Holds
<1>8. \A p \in PeerIds : Known(p) = {} /\ Made(p) = {}
  BY <1>1 DEF Known, Made
<1>9. DocumentsSound
  <2>1. UniqueBut(s, restarted)
    BY <1>3 DEF Unique, UniqueBut
  <2>. QED BY <1>1, <1>4, <1>7, <1>8, <2>1 DEF DocumentsSound
<1>10. WellTyped
  BY <1>1, FS_EmptySet DEF WellTyped, Keys
<1>11. ClocksSound
  <2>1. \A p \in PeerIds : peerClocks[p][p] = 0 /\ Cardinality(Made(p)) = 0
    BY <1>1, <1>8, FS_EmptySet
  <2>. QED BY <1>1, <2>1 DEF ClocksSound
<1>12. AppliedSound /\ DeletesSound
  BY <1>1 DEF AppliedSound, DeletesSound
<1>. QED BY <1>9, <1>10, <1>11, <1>12 DEF IInv, OperationsSound

LEMMA ApplyInsertKeeps ==
    ASSUME IInv, NEW p \in PeerIds, NEW position, NEW text \in Texts,
           ApplyInsert(p, position, text)
    PROVE  IInv'
<1> DEFINE s == characters[p]
           new == CharactersOf(p, peerClocks[p][p] + 1, text)
           t == Spliced(s, CharArrayIndex(s, position), new)
<1>1. Issue(p, "insert", text, {}) /\ characters' = [characters EXCEPT ![p] = t]
  <2>1. characters \in [PeerIds -> Seq(Character)]
    BY DEF IInv, DocumentsSound
  <2>. QED BY <2>1 DEF ApplyInsert
<1>2. text \in Seq(Letters)
  BY TextsAreSequences
<1>3. /\ OperationsSound'
      /\ \E op : /\ Applies(p, op) /\ op.type = "insert" /\ op.content = text /\ op.ids = {}
                 /\ op.key[1] = p /\ op.clock = peerClocks[p][p] + 1
  BY <1>1, <1>2, IssueKeeps
<1>4. PICK op : /\ Applies(p, op) /\ op.type = "insert" /\ op.content = text
                /\ op.key[1] = p /\ op.clock = peerClocks[p][p] + 1
  BY <1>3
<1>5. s \in Seq(Character) /\ CharArrayIndex(s, position) \in 1..Len(s) + 1
  <2>1. s \in Seq(Character)
    BY DEF IInv, DocumentsSound
  <2>. QED BY <2>1, IndexInArray
<1>6. new = CharactersOf(op.key[1], op.clock, op.content) /\ new \in Seq(Character)
  <2>1. new = CharactersOf(op.key[1], op.clock, op.content)
    BY <1>4
  <2>2. op.key[1] \in PeerIds \cup {System} /\ op.clock \in Nat /\ op.content \in Seq(Letters)
    BY <1>4 DEF Applies, Operation, Key
  <2>3. NewCharacters(op.key[1], op.clock, op.content, CharactersOf(op.key[1], op.clock, op.content))
    BY <2>2, TextCharacters
  <2>. QED BY <2>1, <2>3 DEF NewCharacters
<1> HIDE DEF new
<1>7. t \in Seq(Character) /\ Spread(s, CharArrayIndex(s, position), new, t)
  BY <1>5, <1>6, SplicedSpreads
<1> HIDE DEF t
<1>8. Spread(s, CharArrayIndex(s, position), CharactersOf(op.key[1], op.clock, op.content), t)
  BY <1>6, <1>7
<1>9. /\ Holds(t, Known(p) \cup {op}) /\ UniqueBut(t, restarted)
      /\ Causal /\ Unique(t) => Buries(t, Known(p) \cup {op})
  BY <1>4, <1>5, <1>7, <1>8, InsertApplied
<1>10. DocumentsSound'
  BY <1>1, <1>4, <1>9, DocumentsKept
<1>. QED BY <1>3, <1>10 DEF IInv

LEMMA ApplyDeleteKeeps ==
    ASSUME IInv, NEW p \in PeerIds, NEW position, NEW length, ApplyDelete(p, position, length)
    PROVE  IInv'
<1> DEFINE s == characters[p]
           chosen == Chosen(s, position, length)
           ids == {s[i].id : i \in chosen}
<1>1. /\ Issue(p, "delete", <<>>, ids)
      /\ characters' = [characters EXCEPT ![p] = Marked(s, chosen)]
  <2>1. characters \in [PeerIds -> Seq(Character)]
    BY DEF IInv, DocumentsSound
  <2>. QED BY <2>1 DEF ApplyDelete
<1>2. chosen \subseteq DOMAIN s
  BY DEF Chosen, Live
<1>3. \A id \in ids : \E c \in ToSet(s) : c.id = id
  BY <1>2 DEF ToSet
<1>4. <<>> \in Seq(Letters)
  OBVIOUS
<1>5. s \in Seq(Character)
  BY DEF IInv, DocumentsSound
<1>6. Unique(s) => \A i \in DOMAIN s : i \in chosen <=> s[i].id \in ids
  BY <1>2, <1>5 DEF Unique
<1> HIDE DEF chosen, ids
<1>7. /\ OperationsSound'
      /\ \E op : /\ Applies(p, op) /\ op.type = "delete" /\ op.content = <<>> /\ op.ids = ids
                 /\ op.key[1] = p /\ op.clock = peerClocks[p][p] + 1
  <2>1. "delete" \in {"insert", "delete"} /\ "delete" # "insert"
    OBVIOUS
  <2>2. PICK content \in Seq(Letters) : content = <<>>
    BY <1>4
  <2>3. PICK type \in {"insert", "delete"} : type = "delete"
    OBVIOUS
  <2>4. Issue(p, type, content, ids)
    BY <1>1, <2>2, <2>3
  <2>5. type = "insert" => ids = {}
    BY <2>1, <2>3
  <2>6. /\ OperationsSound'
        /\ \E op : /\ Applies(p, op) /\ op.type = type /\ op.content = content /\ op.ids = ids
                   /\ op.key[1] = p /\ op.clock = peerClocks[p][p] + 1
    BY <1>3, <2>4, <2>5, IssueKeeps
  <2>. QED BY <2>2, <2>3, <2>6
<1>8. PICK op : Applies(p, op) /\ op.type = "delete" /\ op.ids = ids
  BY <1>7
<1>9. /\ Holds(Marked(s, chosen), Known(p) \cup {op})
      /\ UniqueBut(Marked(s, chosen), restarted)
      /\ Causal /\ Unique(Marked(s, chosen)) => Buries(Marked(s, chosen), Known(p) \cup {op})
  BY <1>6, <1>8, DeleteApplied
<1>10. DocumentsSound'
  BY <1>1, <1>8, <1>9, DocumentsKept
<1>. QED BY <1>7, <1>10 DEF IInv

LEMMA IntegrateRemoteOperationKeeps ==
    ASSUME IInv, NEW p \in PeerIds, NEW op \in ops, IntegrateRemoteOperation(p, op)
    PROVE  IInv'
<1> DEFINE s == characters[p]
           t == Integrated(s, op)
<1>1. OperationsSound' /\ Applies(p, op)
  BY IntegrateKeeps
<1>2. characters' = [characters EXCEPT ![p] = t]
  <2>1. characters \in [PeerIds -> Seq(Character)]
    BY DEF IInv, DocumentsSound
  <2>. QED BY <2>1 DEF IntegrateRemoteOperation
<1>3. s \in Seq(Character) /\ Len(s) \in Nat
  BY LenProperties DEF IInv, DocumentsSound, Holds
<1>4. op \in Operation /\ op.type \in {"insert", "delete"}
  BY <1>1 DEF Applies, Operation
<1>5. CASE op.type = "insert"
  <2> DEFINE new == CharactersOf(op.key[1], op.clock, op.content)
  <2>1. t = s \o new
    BY <1>5 DEF Integrated
  <2>2. op.key[1] \in PeerIds \cup {System} /\ op.clock \in Nat /\ op.content \in Seq(Letters)
    BY <1>4 DEF Operation, Key
  <2>3. NewCharacters(op.key[1], op.clock, op.content, new)
    BY <2>2, TextCharacters
  <2>4. new \in Seq(Character)
    BY <2>3 DEF NewCharacters
  <2>5. s \o new \in Seq(Character) /\ Spread(s, Len(s) + 1, new, s \o new)
    BY <1>3, <2>4, ConcatSpreads
  <2>6. Len(s) + 1 \in 1..Len(s) + 1
    BY <1>3
  <2>7. /\ Holds(s \o new, Known(p) \cup {op}) /\ UniqueBut(s \o new, restarted)
        /\ Causal /\ Unique(s \o new) => Buries(s \o new, Known(p) \cup {op})
    BY <1>1, <1>5, <2>5, <2>6, InsertApplied
  <2>8. DocumentsSound'
    BY <1>1, <1>2, <2>1, <2>7, DocumentsKept
  <2>. QED BY <1>1, <2>8 DEF IInv
<1>6. CASE op.type = "delete"
  <2> DEFINE found == FirstFound(s, op.ids)
  <2>1. t = Marked(s, found)
    BY <1>6 DEF Integrated
  <2>2. Unique(s) => \A i \in DOMAIN s : i \in found <=> s[i].id \in op.ids
    BY <1>3, FirstFoundMarks
  <2> HIDE DEF found
  <2>3. /\ Holds(Marked(s, found), Known(p) \cup {op})
        /\ UniqueBut(Marked(s, found), restarted)
        /\ Causal /\ Unique(Marked(s, found)) => Buries(Marked(s, found), Known(p) \cup {op})
    BY <1>1, <1>6, <2>2, DeleteApplied
  <2>4. DocumentsSound'
    BY <1>1, <1>2, <2>1, <2>3, DocumentsKept
  <2>. QED BY <1>1, <2>4 DEF IInv
<1>. QED BY <1>4, <1>5, <1>6

LEMMA NextIInv == IInv /\ [Next]_vars => IInv'
<1> SUFFICES ASSUME IInv, [Next]_vars
             PROVE  IInv'
  OBVIOUS
<1>1. CASE UNCHANGED vars
  <2>1. /\ characters' = characters /\ peerClocks' = peerClocks /\ ops' = ops
        /\ applied' = applied /\ restarted' = restarted
    BY <1>1 DEF vars
  <2>2. Keys' = Keys /\ \A p \in PeerIds : Known(p)' = Known(p) /\ Made(p)' = Made(p)
    BY <2>1 DEF Keys, Known, Made
  <2>3. WellTyped' /\ ClocksSound' /\ AppliedSound'
    BY <2>1, <2>2 DEF IInv, OperationsSound, WellTyped, ClocksSound, AppliedSound, Made
  <2>4. DeletesSound'
    BY <2>1 DEF IInv, OperationsSound, DeletesSound, Written
  <2>5. DocumentsSound'
    <3>1. \A p \in PeerIds :
              /\ Holds(characters[p], Known(p)) /\ UniqueBut(characters[p], restarted)
              /\ Causal /\ Unique(characters[p]) => Buries(characters[p], Known(p))
      BY DEF IInv, DocumentsSound
    <3>2. characters \in [PeerIds -> Seq(Character)]
      BY DEF IInv, DocumentsSound
    <3>. QED BY <2>1, <2>2, <3>1, <3>2, DocumentsThen
  <2>. QED BY <2>3, <2>4, <2>5 DEF IInv, OperationsSound
<1>2. ASSUME NEW p \in PeerIds, Edit(p)
      PROVE  IInv'
  BY <1>2, ApplyInsertKeeps, ApplyDeleteKeeps DEF Edit
<1>3. ASSUME NEW p \in PeerIds, NEW op \in ops, IntegrateRemoteOperation(p, op)
      PROVE  IInv'
  BY <1>3, IntegrateRemoteOperationKeeps
<1>4. ASSUME NEW p \in PeerIds, NEW q \in PeerIds, ImportState(p, q)
      PROVE  IInv'
  BY <1>4, ImportKeeps
<1>. QED BY <1>1, <1>2, <1>3, <1>4 DEF Next

\* No text is lost, whatever is delivered or imported when; over a causal network the
\* characters of a document with unique identifiers are deleted that an applied operation
\* deleted (applyInsert, applyDelete, integrateRemoteOperation, importState).
THEOREM Invariant == Spec => []IInv
<1>1. Init => IInv
  BY InitIInv
<1>2. IInv /\ [Next]_vars => IInv'
  BY NextIInv
<1>. QED BY <1>1, <1>2, PTL DEF Spec

----------------------------------------------------------------------------
(* The content is a function of the characters, not of their order *)

LEMMA IdentifiersOrdered ==
    ASSUME NEW a \in CharacterId, NEW b \in CharacterId, NEW c \in CharacterId
    PROVE  /\ ~EarlierId(a, a) /\ (EarlierId(a, b) \/ EarlierId(b, a) \/ a = b)
           /\ EarlierId(a, b) /\ EarlierId(b, c) => EarlierId(a, c)
<1>1. \A x \in CharacterId :
          /\ x.clock \in Int /\ x.peerId \in Int /\ x.position \in Int
          /\ x = [peerId |-> x.peerId, clock |-> x.clock, position |-> x.position]
  <2>1. PeerIds \cup {System} \subseteq Int /\ Nat \subseteq Int
    BY PeersAreNumbered
  <2> TAKE x \in CharacterId
  <2>2. x \in [peerId : PeerIds \cup {System}, clock : Nat, position : Nat]
    BY DEF CharacterId
  <2>3. /\ x.peerId \in PeerIds \cup {System} /\ x.clock \in Nat /\ x.position \in Nat
        /\ x = [peerId |-> x.peerId, clock |-> x.clock, position |-> x.position]
    BY <2>2
  <2>. QED BY <2>1, <2>3
<1>2. a.clock = b.clock /\ a.peerId = b.peerId /\ a.position = b.position => a = b
  BY <1>1
<1>. QED BY <1>1, <1>2 DEF EarlierId

\* How many identifiers of a set are before one
IdRank(K, x) == Cardinality({y \in K : EarlierId(y, x)})

\* Every number below the size of a set of identifiers is the rank of one of them, and of no
\* other.
Ranked(K) ==
    /\ \A x, y \in K : IdRank(K, x) = IdRank(K, y) => x = y
    /\ \A n \in 0..Cardinality(K) - 1 : \E x \in K : IdRank(K, x) = n

LEMMA IdentifiersRanked ==
    ASSUME NEW K \in SUBSET CharacterId, IsFiniteSet(K)
    PROVE  Ranked(K)
<1> DEFINE below(x) == {y \in K : EarlierId(y, x)}
           c == Cardinality(K)
<1>1. c \in Nat
  BY FS_CardinalityType
<1>2. \A x \in K : IsFiniteSet(below(x)) /\ Cardinality(below(x)) \in Nat
  BY FS_Subset, FS_CardinalityType
<1>3. ASSUME NEW x \in K, NEW T \in SUBSET K, below(x) \subseteq T, x \in T
      PROVE  Cardinality(below(x)) < Cardinality(T)
  <2>1. ~EarlierId(x, x)
    BY IdentifiersOrdered
  <2>2. below(x) \cup {x} \in SUBSET T /\ x \notin below(x)
    BY <1>3, <2>1
  <2>3. IsFiniteSet(T)
    BY FS_Subset
  <2>4. Cardinality(below(x) \cup {x}) = Cardinality(below(x)) + 1
    BY <1>2, <2>2, FS_AddElement
  <2>5. Cardinality(below(x) \cup {x}) <= Cardinality(T) /\ Cardinality(T) \in Nat
    BY <2>2, <2>3, FS_Subset, FS_CardinalityType
  <2>. QED BY <1>2, <2>4, <2>5
<1>4. \A x \in K : Cardinality(below(x)) \in 0..c - 1
  <2> TAKE x \in K
  <2>1. Cardinality(below(x)) < c
    BY <1>3
  <2>. QED BY <1>1, <1>2, <2>1
<1>5. ASSUME NEW x \in K, NEW y \in K, EarlierId(x, y)
      PROVE  Cardinality(below(x)) < Cardinality(below(y))
  <2>1. \A z \in K : EarlierId(z, x) => EarlierId(z, y)
    BY <1>5, IdentifiersOrdered
  <2>2. below(x) \subseteq below(y) /\ x \in below(y) /\ below(y) \in SUBSET K
    BY <1>5, <2>1
  <2>. QED BY <1>3, <2>2
<1>6. ASSUME NEW x \in K, NEW y \in K, Cardinality(below(x)) = Cardinality(below(y))
      PROVE  x = y
  <2>1. ~(Cardinality(below(x)) < Cardinality(below(y)))
        /\ ~(Cardinality(below(y)) < Cardinality(below(x)))
    BY <1>2, <1>6
  <2>2. ~EarlierId(x, y) /\ ~EarlierId(y, x)
    BY <1>5, <2>1
  <2>3. EarlierId(x, y) \/ EarlierId(y, x) \/ x = y
    BY IdentifiersOrdered
  <2>. QED BY <2>2, <2>3
<1>7. \A n \in 0..c - 1 : \E x \in K : Cardinality(below(x)) = n
  <2> DEFINE rank == [x \in K |-> Cardinality(below(x))]
  <2>1. rank \in Injection(K, 0..c - 1)
    <3>1. rank \in [K -> 0..c - 1]
      BY <1>4
    <3>2. \A x, y \in K : rank[x] = rank[y] => x = y
      BY <1>6
    <3>. QED BY <3>1, <3>2 DEF Injection, IsInjective
  <2>2. IsFiniteSet(0..c - 1) /\ Cardinality(0..c - 1) = c
    <3>1. 0 \in Int /\ c - 1 \in Int
      BY <1>1
    <3>2. /\ IsFiniteSet(0..c - 1)
          /\ Cardinality(0..c - 1) = IF 0 > c - 1 THEN 0 ELSE c - 1 - 0 + 1
      BY <3>1, FS_Interval
    <3>. QED BY <1>1, <3>2
  <2>3. rank \in Surjection(K, 0..c - 1)
    BY <2>1, <2>2, FS_Injection
  <2> SUFFICES ASSUME NEW n \in 0..c - 1
               PROVE  \E x \in K : Cardinality(below(x)) = n
    OBVIOUS
  <2>4. PICK x \in K : rank[x] = n
    BY <2>3 DEF Surjection
  <2>. QED BY <2>4
<1>. QED BY <1>6, <1>7 DEF Ranked, IdRank

\* The identifiers of some places of an array
IdsAt(chars, places) == {chars[i].id : i \in places}

LEMMA PlacesCounted ==
    ASSUME NEW s \in Seq(Character), Unique(s), NEW places \in SUBSET DOMAIN s
    PROVE  /\ IsFiniteSet(IdsAt(s, places)) /\ IdsAt(s, places) \in SUBSET CharacterId
           /\ Cardinality(IdsAt(s, places)) = Cardinality(places)
           /\ Cardinality(places) \in Nat
<1>1. /\ Len(s) \in Nat /\ DOMAIN s = 1..Len(s) /\ \A i \in DOMAIN s : s[i] \in Character
  BY LenProperties, ElementOfSeq
<1>2. IsFiniteSet(1..Len(s))
  BY <1>1, FS_Interval
<1>3. IsFiniteSet(places)
  BY <1>1, <1>2, FS_Subset
<1> DEFINE idAt == [i \in places |-> s[i].id]
<1>4. idAt \in Bijection(places, IdsAt(s, places))
  <2>1. idAt \in [places -> IdsAt(s, places)]
    BY DEF IdsAt
  <2>2. \A i, j \in places : idAt[i] = idAt[j] => i = j
    BY DEF Unique
  <2>3. \A x \in IdsAt(s, places) : \E i \in places : idAt[i] = x
    BY DEF IdsAt
  <2>. QED BY <2>1, <2>2, <2>3 DEF Bijection, Injection, Surjection, IsInjective
<1>5. ExistsBijection(places, IdsAt(s, places))
  BY <1>4 DEF ExistsBijection
<1>6. IsFiniteSet(IdsAt(s, places)) /\ Cardinality(IdsAt(s, places)) = Cardinality(places)
  BY <1>3, <1>5, FS_Bijection
<1>7. IdsAt(s, places) \in SUBSET CharacterId
  BY <1>1 DEF IdsAt, Character
<1>. QED BY <1>3, <1>6, <1>7, FS_CardinalityType

\* The place of a character in the sorted array is the rank of its identifier.
LEMMA SortedByIdentifier ==
    ASSUME NEW s \in Seq(Character), Unique(s), NEW i \in Live(s)
    PROVE  SortedBefore(s, i) = IdRank(IdsAt(s, Live(s)), s[i].id)
<1> DEFINE places == {j \in Live(s) : EarlierId(s[j].id, s[i].id)}
<1>1. Live(s) \subseteq DOMAIN s /\ DOMAIN s \subseteq Int
  BY LenProperties DEF Live
<1>2. \A j \in Live(s) : s[j].id = s[i].id => ~(j < i)
  BY <1>1 DEF Unique
<1>3. SortedBefore(s, i) = Cardinality(places)
  <2>1. {j \in Live(s) : \/ EarlierId(s[j].id, s[i].id)
                         \/ s[j].id = s[i].id /\ j < i} = places
    BY <1>2
  <2>. QED BY <2>1 DEF SortedBefore
<1>4. {y \in IdsAt(s, Live(s)) : EarlierId(y, s[i].id)} = IdsAt(s, places)
  BY DEF IdsAt
<1>5. Cardinality(IdsAt(s, places)) = Cardinality(places)
  BY <1>1, PlacesCounted
<1>. QED BY <1>3, <1>4, <1>5 DEF IdRank

\* Two arrays of the same characters, in whatever order, show the same content.
LEMMA SameContent ==
    ASSUME NEW s \in Seq(Character), NEW t \in Seq(Character), Unique(s), Unique(t),
           ToSet(s) = ToSet(t)
    PROVE  Content(s) = Content(t)
<1> DEFINE K == IdsAt(s, Live(s))
<1>1. Live(s) \in SUBSET DOMAIN s /\ Live(t) \in SUBSET DOMAIN t
  BY DEF Live
<1>2. IdsAt(t, Live(t)) = K
  <2>1. \A u \in {s, t} : IdsAt(u, Live(u)) = {c.id : c \in {x \in ToSet(u) : ~x.deleted}}
    BY DEF IdsAt, Live, ToSet
  <2>. QED BY <2>1
<1>3. /\ IsFiniteSet(K) /\ K \in SUBSET CharacterId
      /\ Cardinality(Live(s)) = Cardinality(K) /\ Cardinality(Live(t)) = Cardinality(K)
      /\ Cardinality(K) \in Nat
  <2>1. /\ IsFiniteSet(K) /\ K \in SUBSET CharacterId
        /\ Cardinality(K) = Cardinality(Live(s)) /\ Cardinality(Live(s)) \in Nat
    BY <1>1, PlacesCounted
  <2>2. Cardinality(IdsAt(t, Live(t))) = Cardinality(Live(t))
    BY <1>1, PlacesCounted
  <2>. QED BY <1>2, <2>1, <2>2
<1>4. Ranked(K)
  BY <1>3, IdentifiersRanked
<1>5. \A i \in Live(s) : SortedBefore(s, i) = IdRank(K, s[i].id)
  BY SortedByIdentifier
<1>6. \A i \in Live(t) : SortedBefore(t, i) = IdRank(K, t[i].id)
  BY <1>2, SortedByIdentifier
<1>7. /\ \A x \in K : \E i \in Live(s) : s[i].id = x
      /\ \A x \in K : \E i \in Live(t) : t[i].id = x
      /\ \A i \in Live(s) : s[i].id \in K
      /\ \A i \in Live(t) : t[i].id \in K
  BY <1>2 DEF IdsAt
<1> HIDE DEF K
<1>8. ASSUME NEW k \in 1..Cardinality(K)
      PROVE  s[CHOOSE i \in Live(s) : SortedBefore(s, i) = k - 1].value
             = t[CHOOSE i \in Live(t) : SortedBefore(t, i) = k - 1].value
  <2> DEFINE i == CHOOSE i \in Live(s) : SortedBefore(s, i) = k - 1
             j == CHOOSE j \in Live(t) : SortedBefore(t, j) = k - 1
  <2>1. k - 1 \in 0..Cardinality(K) - 1
    BY <1>3
  <2>2. PICK x \in K : IdRank(K, x) = k - 1
    BY <1>4, <2>1 DEF Ranked
  <2>3. i \in Live(s) /\ SortedBefore(s, i) = k - 1
    <3>1. \E m \in Live(s) : SortedBefore(s, m) = k - 1
      BY <1>5, <1>7, <2>2
    <3>. QED BY <3>1
  <2>4. j \in Live(t) /\ SortedBefore(t, j) = k - 1
    <3>1. \E m \in Live(t) : SortedBefore(t, m) = k - 1
      BY <1>6, <1>7, <2>2
    <3>. QED BY <3>1
  <2> HIDE DEF i, j
  <2>5. s[i].id = t[j].id
    <3>1. IdRank(K, s[i].id) = IdRank(K, t[j].id) /\ s[i].id \in K /\ t[j].id \in K
      BY <1>5, <1>6, <1>7, <2>3, <2>4
    <3>. QED BY <1>4, <3>1 DEF Ranked
  <2>6. s[i] \in ToSet(t)
    BY <1>1, <2>3 DEF ToSet
  <2>7. PICK m \in DOMAIN t : s[i] = t[m]
    BY <2>6 DEF ToSet
  <2>8. m = j
    BY <1>1, <2>4, <2>5, <2>7 DEF Unique
  <2>9. s[i].value = t[j].value
    BY <2>7, <2>8
  <2>. QED BY <2>9 DEF i, j
<1>. QED BY <1>3, <1>8 DEF Content

\* Peers that know the same operations hold the same characters, over a causal network.
LEMMA SameCharacters ==
    ASSUME NEW s, NEW t, NEW known, Holds(s, known), Holds(t, known),
           Buries(s, known), Buries(t, known)
    PROVE  ToSet(s) \subseteq ToSet(t)
<1> SUFFICES ASSUME NEW c \in ToSet(s)
             PROVE  c \in ToSet(t)
  OBVIOUS
<1>1. c \in Character /\ \A d \in ToSet(t) : d \in Character
  BY ElementOfSeq, LenProperties DEF Holds, ToSet
<1>2. Undeleted(c) \in {Undeleted(d) : d \in ToSet(t)}
  BY DEF Holds
<1>3. PICK d \in ToSet(t) : Undeleted(d) = Undeleted(c)
  BY <1>2
<1>4. d.id = c.id /\ d.value = c.value
  BY <1>1, <1>3, UndeletedFacts
<1>5. c.deleted <=> d.deleted
  BY <1>4 DEF Buries
<1>6. c = d
  BY <1>1, <1>4, <1>5 DEF Character
<1>. QED BY <1>6

----------------------------------------------------------------------------
(* Theorems *)

\* Every peer holds well-formed characters and knows only operations that were made.
THEOREM TypeCorrect == Spec => []TypeOK
<1>1. IInv => TypeOK
  <2> SUFFICES ASSUME IInv
               PROVE  TypeOK
    OBVIOUS
  <2>1. WellTyped /\ characters \in [PeerIds -> Seq(Character)]
    BY DEF IInv, OperationsSound, DocumentsSound
  <2>2. \A p \in PeerIds : \A i \in DOMAIN characters[p] : IsCharacter(characters[p][i])
    <3> TAKE p \in PeerIds
    <3> TAKE i \in DOMAIN characters[p]
    <3>1. characters[p][i] \in Character
      BY <2>1, ElementOfSeq, LenProperties
    <3>. QED BY <3>1 DEF Character, IsCharacter
  <2>. QED BY <2>1, <2>2 DEF TypeOK, WellTyped, Keys
<1>. QED BY <1>1, Invariant, PTL

\* A document holds what was written by the operations it comes from, all of it and nothing
\* else; and an identifier is in it twice only if its author, having made an operation,
\* imported a state, which takes its clock away: no import, restart or order of deliveries
\* makes the text of another peer ambiguous.
THEOREM NothingLost == Spec => []DocumentSound
<1>1. IInv => DocumentSound
  <2> SUFFICES ASSUME IInv
               PROVE  DocumentSound
    OBVIOUS
  <2>1. \A p \in PeerIds : Holds(characters[p], Known(p)) /\ UniqueBut(characters[p], restarted)
    BY DEF IInv, DocumentsSound
  <2>2. IdsUnique
    BY <2>1 DEF UniqueBut, IdsUnique
  <2>3. TextKept
    BY <2>1 DEF Holds, Undeleted, TextKept
  <2>. QED BY <2>2, <2>3 DEF DocumentSound
<1>. QED BY <1>1, Invariant, PTL

\* Over a network that respects causality, peers that applied the same operations, in
\* whatever order, show the same content and hold the same characters (crdtManager.ts:8-9;
\* rebuildContent sorts by identifier whatever order the array has), also with restarts as
\* long as no identifier is in their documents twice.
THEOREM Convergence ==
    ASSUME Causal
    PROVE  Spec => []Converged
<1>1. IInv => Converged
  <2> SUFFICES ASSUME IInv, NEW p \in PeerIds, NEW q \in PeerIds, applied[p] = applied[q],
                      Unique(characters[p]), Unique(characters[q])
               PROVE  /\ Content(characters[p]) = Content(characters[q])
                      /\ ToSet(characters[p]) = ToSet(characters[q])
    BY DEF Converged
  <2>1. Known(p) = Known(q)
    BY DEF Known
  <2>2. /\ Holds(characters[p], Known(p)) /\ Buries(characters[p], Known(p))
        /\ Holds(characters[q], Known(p)) /\ Buries(characters[q], Known(p))
    BY <2>1 DEF IInv, DocumentsSound
  <2>3. ToSet(characters[p]) = ToSet(characters[q])
    BY <2>2, SameCharacters
  <2>4. Content(characters[p]) = Content(characters[q])
    BY <2>2, <2>3, SameContent DEF Holds
  <2>. QED BY <2>3, <2>4
<1>. QED BY <1>1, Invariant, PTL

=============================================================================
