-------------------- MODULE OperationalTransform_proofs --------------------
(***************************************************************************)
(* Proofs about OperationalTransform, for any two peers, any initial text  *)
(* and any number of operations: versions count the histories and are      *)
(* their order, and whenever nothing is on its way both peers show one     *)
(* content, unless an operation fell inside the other's delete.            *)
(*                                                                         *)
(* With one operation of each peer on the way at most, the two are in one  *)
(* of four situations: level; one peer behind by an operation; an          *)
(* operation of each on its way, from the same text; and one of these two  *)
(* integrated.                                                             *)
(***************************************************************************)
EXTENDS OperationalTransform, SequenceTheorems, FiniteSetTheorems, TLAPS

Document == [version : Nat, content : Seq(Nat), operations : Seq(Operation)]

WellTyped ==
    /\ documents \in [PeerIds -> Document]
    /\ channel \in [PeerIds -> Seq(Operation \cup {Ack})]
    /\ outstanding \in SUBSET PeerIds
    /\ made \in 0..MaxOps
    /\ clashed \in BOOLEAN

\* The operations that exist, in the histories and on their way
Kept(docs) == UNION {ToSet(docs[p].operations) : p \in PeerIds}

Sent(chans) == UNION {ToSet(chans[p]) \ {Ack} : p \in PeerIds}

ExistingIn(docs, chans) == Kept(docs) \cup Sent(chans)

Existing == ExistingIn(documents, channel)

\* An operation is not in the history it is on its way to.
OnlyNewSent(docs, chans) ==
    \A p \in PeerIds : \A o \in ToSet(chans[p]) : o # Ack => ~HasOperation(docs[p], o)

\* An identifier is that of one operation, which keeps its version wherever it is.
IdsSound ==
    /\ \A o \in Existing : o.id < made
    /\ \A o, r \in Existing : o.id = r.id => o.version = r.version
    /\ OnlyNewSent(documents, channel)

\* The operation is the last of a history, and all before it have smaller versions.
Latest(doc, op) ==
    /\ op \in Operation
    /\ Len(doc.operations) > 0 /\ doc.operations[Len(doc.operations)] = op
    /\ \A i \in DOMAIN doc.operations : i # Len(doc.operations) =>
           doc.operations[i].version < op.version

\* The operation is one on a text of this length.
Fits(op, text) ==
    IF op.type = "insert" THEN op.position <= Len(text)
    ELSE op.position + Length(op) <= Len(text)

Level ==
    /\ \A p \in PeerIds :
           /\ channel[p] = IF p \in outstanding THEN <<Ack>> ELSE <<>>
           /\ documents[p].version <= made
    /\ \A p, q \in PeerIds :
           /\ documents[p].version = documents[q].version
           /\ clashed \/ documents[p].content = documents[q].content

\* The last operation of q is on its way to p.
Behind(p, q, op) ==
    /\ channel[q] = <<>> /\ q \in outstanding
    /\ channel[p] = IF p \in outstanding THEN <<Ack, op>> ELSE <<op>>
    /\ documents[p].version = op.version /\ documents[q].version = op.version + 1
    /\ documents[q].version <= made
    /\ op.peerId = q /\ Latest(documents[q], op)
    /\ clashed \/ /\ Fits(op, documents[p].content)
                  /\ documents[q].content = Edited(documents[p].content, op)

\* The operation a of p and b of q were made on one text.
Parallel(p, q, a, b) ==
    /\ p \in outstanding /\ q \in outstanding
    /\ a.peerId = p /\ b.peerId = q /\ a.version = b.version
    /\ documents[p].version = a.version + 1 /\ Latest(documents[p], a)
    /\ a.version + 2 <= made

\* Both are on their way.
Crossing(p, q, a, b) ==
    /\ channel[p] = <<b>> /\ channel[q] = <<a>>
    /\ Parallel(p, q, a, b)
    /\ documents[q].version = b.version + 1 /\ Latest(documents[q], b)
    /\ clashed \/ \E text \in Seq(Nat) :
                      /\ Fits(a, text) /\ documents[p].content = Edited(text, a)
                      /\ Fits(b, text) /\ documents[q].content = Edited(text, b)

\* q has integrated a already.
Crossed(p, q, a, b) ==
    /\ channel[p] = <<b, Ack>> /\ channel[q] = <<>>
    /\ Parallel(p, q, a, b)
    /\ b \in Operation /\ documents[q].version = b.version + 2
    /\ clashed \/ \E text \in Seq(Nat) :
                      /\ Fits(a, text) /\ documents[p].content = Edited(text, a)
                      /\ Fits(b, text)
                      /\ documents[q].content = Edited(Edited(text, b), Transformed(a, b))

Situations ==
    \/ Level
    \/ \E p, q \in PeerIds : p # q /\ \E op \in Operation : Behind(p, q, op)
    \/ \E p, q \in PeerIds : p # q /\ \E a, b \in Operation : Crossing(p, q, a, b)
    \/ \E p, q \in PeerIds : p # q /\ \E a, b \in Operation : Crossed(p, q, a, b)

IInv == WellTyped /\ HistorySound /\ IdsSound /\ Situations

----------------------------------------------------------------------------
(* Texts *)

\* The characters before a position
LEMMA Prefix ==
  ASSUME NEW text \in Seq(Nat), NEW n \in 0..Len(text)
  PROVE  /\ UpTo(text, n) \in Seq(Nat) /\ Len(UpTo(text, n)) = n
         /\ \A k \in 1..n : UpTo(text, n)[k] = text[k]
<1>1. UpTo(text, n) = SubSeq(text, 1, n)
  BY DEF UpTo
<1>2. \A k \in 1..n : text[k] \in Nat
  BY ElementOfSeq
<1>3. /\ SubSeq(text, 1, n) \in Seq(Nat)
      /\ Len(SubSeq(text, 1, n)) = IF 1 <= n THEN n - 1 + 1 ELSE 0
      /\ \A k \in 1..n - 1 + 1 : SubSeq(text, 1, n)[k] = text[1 + k - 1]
  BY <1>2, SubSeqProperties
<1>. QED BY <1>1, <1>3

\* The characters after a position, which may lie behind the end
LEMMA Suffix ==
  ASSUME NEW text \in Seq(Nat), NEW n \in Nat
  PROVE  /\ From(text, n) \in Seq(Nat)
         /\ Len(From(text, n)) = IF n <= Len(text) THEN Len(text) - n ELSE 0
         /\ \A k \in 1..Len(text) - n : From(text, n)[k] = text[n + k]
<1>1. Len(text) \in Nat /\ \A k \in n + 1..Len(text) : text[k] \in Nat
  BY ElementOfSeq
<1>2. /\ SubSeq(text, n + 1, Len(text)) \in Seq(Nat)
      /\ Len(SubSeq(text, n + 1, Len(text))) =
             IF n + 1 <= Len(text) THEN Len(text) - (n + 1) + 1 ELSE 0
      /\ \A k \in 1..Len(text) - (n + 1) + 1 :
             SubSeq(text, n + 1, Len(text))[k] = text[n + 1 + k - 1]
  BY <1>1, SubSeqProperties
<1>. QED BY <1>1, <1>2 DEF From

\* The text with something put in at a position, character by character
IsInserted(result, text, n, put) ==
    /\ result \in Seq(Nat) /\ Len(result) = Len(text) + Len(put)
    /\ \A k \in 1..Len(result) :
           result[k] = IF k <= n THEN text[k]
                       ELSE IF k <= n + Len(put) THEN put[k - n] ELSE text[k - Len(put)]

\* The text without some characters after a position
IsDeleted(result, text, n, count) ==
    /\ result \in Seq(Nat)
    /\ Len(result) = IF n + count <= Len(text) THEN Len(text) - count ELSE n
    /\ \A k \in 1..Len(result) : result[k] = IF k <= n THEN text[k] ELSE text[k + count]

LEMMA InsertedText ==
  ASSUME NEW text \in Seq(Nat), NEW n \in 0..Len(text), NEW put \in Seq(Nat)
  PROVE  IsInserted(UpTo(text, n) \o put \o From(text, n), text, n, put)
<1> DEFINE front == UpTo(text, n)
           back == From(text, n)
<1>1. /\ front \in Seq(Nat) /\ Len(front) = n
      /\ \A k \in 1..n : front[k] = text[k]
  BY Prefix
<1>2. /\ back \in Seq(Nat) /\ Len(back) = Len(text) - n
      /\ \A k \in 1..Len(text) - n : back[k] = text[n + k]
  BY Suffix
<1>. HIDE DEF front, back
<1>3. /\ front \o put \in Seq(Nat) /\ Len(front \o put) = n + Len(put)
      /\ \A k \in 1..n + Len(put) :
             (front \o put)[k] = IF k <= n THEN front[k] ELSE put[k - n]
  BY <1>1, ConcatProperties
<1>4. /\ (front \o put) \o back \in Seq(Nat)
      /\ Len((front \o put) \o back) = n + Len(put) + Len(back)
      /\ \A k \in 1..n + Len(put) + Len(back) :
             ((front \o put) \o back)[k] =
                 IF k <= n + Len(put) THEN (front \o put)[k] ELSE back[k - (n + Len(put))]
  <2>1. /\ (front \o put) \o back \in Seq(Nat)
        /\ Len((front \o put) \o back) = Len(front \o put) + Len(back)
        /\ \A k \in 1..Len(front \o put) + Len(back) :
               ((front \o put) \o back)[k] =
                   IF k <= Len(front \o put) THEN (front \o put)[k]
                   ELSE back[k - Len(front \o put)]
    BY <1>2, <1>3, ConcatProperties
  <2>. QED BY <2>1, <1>3
<1>5. Len(text) \in Nat /\ Len(put) \in Nat
  OBVIOUS
<1>6. Len((front \o put) \o back) = Len(text) + Len(put)
  BY <1>2, <1>4, <1>5
<1>7. ASSUME NEW k \in 1..Len(text) + Len(put)
      PROVE  ((front \o put) \o back)[k] =
                 IF k <= n THEN text[k]
                 ELSE IF k <= n + Len(put) THEN put[k - n] ELSE text[k - Len(put)]
  <2>1. CASE k <= n + Len(put)
    <3>1. ((front \o put) \o back)[k] = (front \o put)[k]
      BY <1>2, <1>4, <1>5, <2>1
    <3>. QED BY <1>1, <1>3, <1>5, <2>1, <3>1
  <2>2. CASE k > n + Len(put)
    <3>1. ((front \o put) \o back)[k] = back[k - (n + Len(put))]
      BY <1>2, <1>4, <1>5, <2>2
    <3>2. k - (n + Len(put)) \in 1..Len(text) - n
      BY <1>5, <2>2
    <3>3. back[k - (n + Len(put))] = text[n + (k - (n + Len(put)))]
      BY <1>2, <3>2
    <3>4. n + (k - (n + Len(put))) = k - Len(put) /\ ~(k <= n)
      BY <1>5, <2>2
    <3>5. ((front \o put) \o back)[k] = text[k - Len(put)]
      BY <3>1, <3>3, <3>4
    <3>. QED BY <1>5, <2>2, <3>4, <3>5
  <2>3. k <= n + Len(put) \/ k > n + Len(put)
    BY <1>5
  <2>. QED BY <2>1, <2>2, <2>3
<1>8. IsInserted((front \o put) \o back, text, n, put)
  BY <1>4, <1>6, <1>7 DEF IsInserted
<1>. QED BY <1>8 DEF front, back

LEMMA DeletedText ==
  ASSUME NEW text \in Seq(Nat), NEW n \in 0..Len(text), NEW count \in Nat
  PROVE  IsDeleted(UpTo(text, n) \o From(text, n + count), text, n, count)
<1> DEFINE front == UpTo(text, n)
           back == From(text, n + count)
<1>1. /\ front \in Seq(Nat) /\ Len(front) = n
      /\ \A k \in 1..n : front[k] = text[k]
  BY Prefix
<1>2. /\ back \in Seq(Nat)
      /\ Len(back) = IF n + count <= Len(text) THEN Len(text) - (n + count) ELSE 0
      /\ \A k \in 1..Len(text) - (n + count) : back[k] = text[n + count + k]
  <2>1. n + count \in Nat
    OBVIOUS
  <2>. QED BY <2>1, Suffix
<1>. HIDE DEF front, back
<1>3. /\ front \o back \in Seq(Nat) /\ Len(front \o back) = n + Len(back)
      /\ \A k \in 1..n + Len(back) :
             (front \o back)[k] = IF k <= n THEN front[k] ELSE back[k - n]
  BY <1>1, <1>2, ConcatProperties
<1>4. Len(text) \in Nat /\ Len(back) \in Nat
  BY <1>2
<1>5. Len(front \o back) = IF n + count <= Len(text) THEN Len(text) - count ELSE n
  BY <1>2, <1>3, <1>4
<1>6. ASSUME NEW k \in 1..Len(front \o back)
      PROVE  (front \o back)[k] = IF k <= n THEN text[k] ELSE text[k + count]
  <2>1. CASE k <= n
    BY <1>1, <1>3, <1>4, <2>1
  <2>2. CASE k > n
    <3>1. (front \o back)[k] = back[k - n]
      BY <1>3, <1>4, <2>2
    <3>2. k - n \in 1..Len(text) - (n + count)
      BY <1>2, <1>3, <1>4, <2>2
    <3>3. back[k - n] = text[n + count + (k - n)]
      BY <1>2, <3>2
    <3>. QED BY <1>3, <1>4, <2>2, <3>1, <3>3
  <2>. QED BY <1>3, <1>4, <2>1, <2>2
<1>7. IsDeleted(front \o back, text, n, count)
  BY <1>3, <1>5, <1>6 DEF IsDeleted
<1>. QED BY <1>7 DEF front, back

\* Two edits made on one text lead to one text in either order, when the second one allows
\* for the first.
LEMMA InsertInsert ==
  ASSUME NEW text, NEW u, NEW v, NEW A, NEW B, NEW AB, NEW BA, NEW i \in Nat, NEW j \in Nat,
         Len(text) \in Nat, Len(u) \in Nat, Len(v) \in Nat, i <= j, j <= Len(text),
         IsInserted(A, text, i, u), IsInserted(AB, A, j + Len(u), v),
         IsInserted(B, text, j, v), IsInserted(BA, B, i, u)
  PROVE  AB = BA
<1>1. /\ Len(A) = Len(text) + Len(u) /\ Len(B) = Len(text) + Len(v)
      /\ Len(AB) = Len(text) + Len(u) + Len(v)
      /\ Len(BA) = Len(text) + Len(v) + Len(u)
  BY DEF IsInserted
<1>2. Len(AB) = Len(BA)
  BY <1>1
<1>3. ASSUME NEW k \in 1..Len(AB) PROVE AB[k] = BA[k]
  <2>1. k \in Int /\ 1 <= k /\ k <= Len(text) + Len(u) + Len(v)
    BY <1>1
  <2>2. AB[k] = IF k <= j + Len(u) THEN A[k]
                ELSE IF k <= j + Len(u) + Len(v) THEN v[k - (j + Len(u))] ELSE A[k - Len(v)]
    BY DEF IsInserted
  <2>3. BA[k] = IF k <= i THEN B[k] ELSE IF k <= i + Len(u) THEN u[k - i] ELSE B[k - Len(u)]
    BY <1>2 DEF IsInserted
  <2>4. \A m \in 1..Len(text) + Len(u) : A[m] = IF m <= i THEN text[m]
                                    ELSE IF m <= i + Len(u) THEN u[m - i] ELSE text[m - Len(u)]
    BY <1>1 DEF IsInserted
  <2>5. \A m \in 1..Len(text) + Len(v) : B[m] = IF m <= j THEN text[m]
                                    ELSE IF m <= j + Len(v) THEN v[m - j] ELSE text[m - Len(v)]
    BY <1>1 DEF IsInserted
  <2>6. CASE k <= i
    BY <2>1, <2>2, <2>3, <2>4, <2>5, <2>6
  <2>7. CASE i < k /\ k <= i + Len(u)
    BY <2>1, <2>2, <2>3, <2>4, <2>5, <2>7
  <2>8. CASE i + Len(u) < k /\ k <= j + Len(u)
    <3>1. k - Len(u) \in 1..Len(text) + Len(v) /\ k - Len(u) <= j
      BY <2>1, <2>8
    <3>2. B[k - Len(u)] = text[k - Len(u)]
      BY <3>1, <2>5
    <3>. QED BY <2>1, <2>2, <2>3, <2>4, <2>8, <3>2
  <2>9. CASE j + Len(u) < k /\ k <= j + Len(u) + Len(v)
    <3>1. /\ k - Len(u) \in 1..Len(text) + Len(v) /\ j < k - Len(u)
          /\ k - Len(u) <= j + Len(v) /\ (k - Len(u)) - j = k - (j + Len(u))
      BY <2>1, <2>9
    <3>2. B[k - Len(u)] = v[k - (j + Len(u))]
      BY <3>1, <2>1, <2>5
    <3>. QED BY <2>1, <2>2, <2>3, <2>9, <3>2
  <2>10. CASE j + Len(u) + Len(v) < k
    <3>1. /\ k - Len(u) \in 1..Len(text) + Len(v)
          /\ ~(k - Len(u) <= j) /\ ~(k - Len(u) <= j + Len(v))
          /\ k - Len(v) \in 1..Len(text) + Len(u) /\ i + Len(u) < k - Len(v)
          /\ (k - Len(u)) - Len(v) = (k - Len(v)) - Len(u)
      BY <2>1, <2>10
    <3>2. B[k - Len(u)] = text[(k - Len(u)) - Len(v)]
      BY <3>1, <2>5
    <3>3. A[k - Len(v)] = text[(k - Len(v)) - Len(u)]
      BY <3>1, <2>1, <2>4
    <3>. QED BY <2>1, <2>2, <2>3, <2>10, <3>1, <3>2, <3>3
  <2>. QED BY <2>1, <2>6, <2>7, <2>8, <2>9, <2>10
<1>4. AB \in Seq(Nat) /\ BA \in Seq(Nat)
  BY DEF IsInserted
<1>. QED BY <1>2, <1>3, <1>4, SeqEqual

LEMMA InsertDeleteAfter ==
  ASSUME NEW text, NEW u, NEW A, NEW B, NEW AB, NEW BA,
         NEW i \in Nat, NEW j \in Nat, NEW n \in Nat,
         Len(text) \in Nat, Len(u) \in Nat, i <= j, j + n <= Len(text),
         IsInserted(A, text, i, u), IsDeleted(AB, A, j + Len(u), n),
         IsDeleted(B, text, j, n), IsInserted(BA, B, i, u)
  PROVE  AB = BA
<1>1. /\ Len(A) = Len(text) + Len(u) /\ Len(B) = Len(text) - n
      /\ Len(AB) = Len(text) + Len(u) - n /\ Len(BA) = Len(text) + Len(u) - n
  <2>1. Len(A) = Len(text) + Len(u)
    BY DEF IsInserted
  <2>2. Len(B) = Len(text) - n
    BY DEF IsDeleted
  <2>3. Len(AB) = Len(text) + Len(u) - n
    BY <2>1 DEF IsDeleted
  <2>4. Len(BA) = Len(text) + Len(u) - n
    BY <2>2 DEF IsInserted
  <2>. QED BY <2>1, <2>2, <2>3, <2>4
<1>2. Len(AB) = Len(BA)
  BY <1>1
<1>3. ASSUME NEW k \in 1..Len(AB) PROVE AB[k] = BA[k]
  <2>1. k \in Int /\ 1 <= k /\ k <= Len(text) + Len(u) - n
    BY <1>1
  <2>2. AB[k] = IF k <= j + Len(u) THEN A[k] ELSE A[k + n]
    BY DEF IsDeleted
  <2>3. BA[k] = IF k <= i THEN B[k] ELSE IF k <= i + Len(u) THEN u[k - i] ELSE B[k - Len(u)]
    BY <1>2 DEF IsInserted
  <2>4. \A m \in 1..Len(text) + Len(u) :
            A[m] = IF m <= i THEN text[m]
                   ELSE IF m <= i + Len(u) THEN u[m - i] ELSE text[m - Len(u)]
    BY <1>1 DEF IsInserted
  <2>5. \A m \in 1..Len(text) - n : B[m] = IF m <= j THEN text[m] ELSE text[m + n]
    BY <1>1 DEF IsDeleted
  <2>6. CASE k <= i
    <3>1. k \in 1..Len(text) + Len(u) /\ k \in 1..Len(text) - n /\ k <= j /\ k <= j + Len(u)
      BY <2>1, <2>6
    <3>. QED BY <2>2, <2>3, <2>4, <2>5, <2>6, <3>1
  <2>7. CASE i < k /\ k <= i + Len(u)
    <3>1. k \in 1..Len(text) + Len(u) /\ ~(k <= i) /\ k <= j + Len(u)
      BY <2>1, <2>7
    <3>. QED BY <2>2, <2>3, <2>4, <2>7, <3>1
  <2>8. CASE i + Len(u) < k /\ k <= j + Len(u)
    <3>1. /\ k - Len(u) \in 1..Len(text) - n /\ k - Len(u) <= j
          /\ k \in 1..Len(text) + Len(u) /\ ~(k <= i) /\ ~(k <= i + Len(u))
      BY <2>1, <2>8
    <3>2. B[k - Len(u)] = text[k - Len(u)]
      BY <3>1, <2>5
    <3>. QED BY <2>2, <2>3, <2>4, <2>8, <3>1, <3>2
  <2>9. CASE j + Len(u) < k
    <3>1. /\ k - Len(u) \in 1..Len(text) - n /\ ~(k - Len(u) <= j)
          /\ k + n \in 1..Len(text) + Len(u) /\ ~(k + n <= i) /\ ~(k + n <= i + Len(u))
          /\ (k - Len(u)) + n = (k + n) - Len(u)
      BY <2>1, <2>9
    <3>2. B[k - Len(u)] = text[(k - Len(u)) + n]
      BY <3>1, <2>5
    <3>3. A[k + n] = text[(k + n) - Len(u)]
      BY <3>1, <2>4
    <3>. QED BY <2>1, <2>2, <2>3, <2>9, <3>1, <3>2, <3>3
  <2>. QED BY <2>1, <2>6, <2>7, <2>8, <2>9
<1>4. AB \in Seq(Nat) /\ BA \in Seq(Nat)
  BY DEF IsInserted, IsDeleted
<1>. QED BY <1>2, <1>3, <1>4, SeqEqual

LEMMA InsertDeleteBefore ==
  ASSUME NEW text, NEW u, NEW A, NEW B, NEW AB, NEW BA,
         NEW i \in Nat, NEW j \in Nat, NEW n \in Nat,
         Len(text) \in Nat, Len(u) \in Nat, j + n <= i, i <= Len(text),
         IsInserted(A, text, i, u), IsDeleted(AB, A, j, n),
         IsDeleted(B, text, j, n), IsInserted(BA, B, i - n, u)
  PROVE  AB = BA
<1>1. /\ Len(A) = Len(text) + Len(u) /\ Len(B) = Len(text) - n
      /\ Len(AB) = Len(text) + Len(u) - n /\ Len(BA) = Len(text) + Len(u) - n
  <2>1. Len(A) = Len(text) + Len(u)
    BY DEF IsInserted
  <2>2. Len(B) = Len(text) - n
    BY DEF IsDeleted
  <2>3. Len(AB) = Len(text) + Len(u) - n
    BY <2>1 DEF IsDeleted
  <2>4. Len(BA) = Len(text) + Len(u) - n
    BY <2>2 DEF IsInserted
  <2>. QED BY <2>1, <2>2, <2>3, <2>4
<1>2. Len(AB) = Len(BA)
  BY <1>1
<1>3. ASSUME NEW k \in 1..Len(AB) PROVE AB[k] = BA[k]
  <2>1. k \in Int /\ 1 <= k /\ k <= Len(text) + Len(u) - n
    BY <1>1
  <2>2. AB[k] = IF k <= j THEN A[k] ELSE A[k + n]
    BY DEF IsDeleted
  <2>3. BA[k] = IF k <= i - n THEN B[k]
                ELSE IF k <= i - n + Len(u) THEN u[k - (i - n)] ELSE B[k - Len(u)]
    BY <1>2 DEF IsInserted
  <2>4. \A m \in 1..Len(text) + Len(u) :
            A[m] = IF m <= i THEN text[m]
                   ELSE IF m <= i + Len(u) THEN u[m - i] ELSE text[m - Len(u)]
    BY <1>1 DEF IsInserted
  <2>5. \A m \in 1..Len(text) - n : B[m] = IF m <= j THEN text[m] ELSE text[m + n]
    BY <1>1 DEF IsDeleted
  <2>6. CASE k <= j
    BY <2>1, <2>2, <2>3, <2>4, <2>5, <2>6
  <2>7. CASE j < k /\ k <= i - n
    <3>1. k + n \in 1..Len(text) + Len(u) /\ k + n <= i /\ k \in 1..Len(text) - n
      BY <2>1, <2>7
    <3>2. A[k + n] = text[k + n]
      BY <3>1, <2>4
    <3>. QED BY <2>1, <2>2, <2>3, <2>5, <2>7, <3>1, <3>2
  <2>8. CASE i - n < k /\ k <= i - n + Len(u)
    <3>1. /\ k + n \in 1..Len(text) + Len(u) /\ ~(k + n <= i) /\ k + n <= i + Len(u)
          /\ (k + n) - i = k - (i - n)
      BY <2>1, <2>8
    <3>2. A[k + n] = u[(k + n) - i]
      BY <3>1, <2>4
    <3>. QED BY <2>1, <2>2, <2>3, <2>8, <3>1, <3>2
  <2>9. CASE i - n + Len(u) < k
    <3>1. /\ k - Len(u) \in 1..Len(text) - n /\ ~(k - Len(u) <= j)
          /\ k + n \in 1..Len(text) + Len(u) /\ ~(k + n <= i) /\ ~(k + n <= i + Len(u))
          /\ (k - Len(u)) + n = (k + n) - Len(u)
      BY <2>1, <2>9
    <3>2. B[k - Len(u)] = text[(k - Len(u)) + n]
      BY <3>1, <2>5
    <3>3. A[k + n] = text[(k + n) - Len(u)]
      BY <3>1, <2>4
    <3>. QED BY <2>1, <2>2, <2>3, <2>9, <3>1, <3>2, <3>3
  <2>. QED BY <2>1, <2>6, <2>7, <2>8, <2>9
<1>4. AB \in Seq(Nat) /\ BA \in Seq(Nat)
  BY DEF IsInserted, IsDeleted
<1>. QED BY <1>2, <1>3, <1>4, SeqEqual

LEMMA DeleteDelete ==
  ASSUME NEW text, NEW A, NEW B, NEW AB, NEW BA,
         NEW i \in Nat, NEW j \in Nat, NEW m \in Nat, NEW n \in Nat,
         Len(text) \in Nat, i + m <= j, j + n <= Len(text),
         IsDeleted(A, text, i, m), IsDeleted(AB, A, j - m, n),
         IsDeleted(B, text, j, n), IsDeleted(BA, B, i, m)
  PROVE  AB = BA
<1>1. /\ Len(A) = Len(text) - m /\ Len(B) = Len(text) - n
      /\ Len(AB) = Len(text) - m - n /\ Len(BA) = Len(text) - m - n
  <2>1. Len(A) = Len(text) - m
    BY DEF IsDeleted
  <2>2. Len(B) = Len(text) - n
    BY DEF IsDeleted
  <2>3. Len(AB) = Len(text) - m - n
    BY <2>1 DEF IsDeleted
  <2>4. Len(BA) = Len(text) - m - n
    BY <2>2 DEF IsDeleted
  <2>. QED BY <2>1, <2>2, <2>3, <2>4
<1>2. Len(AB) = Len(BA)
  BY <1>1
<1>3. ASSUME NEW k \in 1..Len(AB) PROVE AB[k] = BA[k]
  <2>1. k \in Int /\ 1 <= k /\ k <= Len(text) - m - n
    BY <1>1
  <2>2. AB[k] = IF k <= j - m THEN A[k] ELSE A[k + n]
    BY DEF IsDeleted
  <2>3. BA[k] = IF k <= i THEN B[k] ELSE B[k + m]
    BY <1>2 DEF IsDeleted
  <2>4. \A t \in 1..Len(text) - m : A[t] = IF t <= i THEN text[t] ELSE text[t + m]
    BY <1>1 DEF IsDeleted
  <2>5. \A t \in 1..Len(text) - n : B[t] = IF t <= j THEN text[t] ELSE text[t + n]
    BY <1>1 DEF IsDeleted
  <2>6. CASE k <= i
    <3>1. k \in 1..Len(text) - m /\ k \in 1..Len(text) - n /\ k <= j - m /\ k <= j
      BY <2>1, <2>6
    <3>. QED BY <2>2, <2>3, <2>4, <2>5, <2>6, <3>1
  <2>7. CASE i < k /\ k <= j - m
    <3>1. k + m \in 1..Len(text) - n /\ k + m <= j /\ k \in 1..Len(text) - m
      BY <2>1, <2>7
    <3>2. B[k + m] = text[k + m]
      BY <3>1, <2>5
    <3>. QED BY <2>1, <2>2, <2>3, <2>4, <2>7, <3>1, <3>2
  <2>8. CASE j - m < k
    <3>1. /\ k + m \in 1..Len(text) - n /\ ~(k + m <= j)
          /\ k + n \in 1..Len(text) - m /\ ~(k + n <= i) /\ (k + m) + n = (k + n) + m
      BY <2>1, <2>8
    <3>2. B[k + m] = text[(k + m) + n]
      BY <3>1, <2>5
    <3>3. A[k + n] = text[(k + n) + m]
      BY <3>1, <2>4
    <3>. QED BY <2>1, <2>2, <2>3, <2>8, <3>1, <3>2, <3>3
  <2>. QED BY <2>1, <2>6, <2>7, <2>8
<1>4. AB \in Seq(Nat) /\ BA \in Seq(Nat)
  BY DEF IsDeleted
<1>. QED BY <1>2, <1>3, <1>4, SeqEqual

\* Two deletes from one position take away one after the other, to the end of the text
\* at most.
LEMMA DeleteSame ==
  ASSUME NEW text, NEW A, NEW B, NEW AB, NEW BA, NEW i \in Nat, NEW m \in Nat, NEW n \in Nat,
         Len(text) \in Nat, i + m <= Len(text), i + n <= Len(text),
         IsDeleted(A, text, i, m), IsDeleted(AB, A, i, n),
         IsDeleted(B, text, i, n), IsDeleted(BA, B, i, m)
  PROVE  AB = BA
<1>1. /\ Len(A) = Len(text) - m /\ Len(B) = Len(text) - n
      /\ Len(AB) = IF i + m + n <= Len(text) THEN Len(text) - m - n ELSE i
      /\ Len(BA) = IF i + m + n <= Len(text) THEN Len(text) - m - n ELSE i
  <2>1. Len(A) = Len(text) - m
    BY DEF IsDeleted
  <2>2. Len(B) = Len(text) - n
    BY DEF IsDeleted
  <2>3. Len(AB) = IF i + m + n <= Len(text) THEN Len(text) - m - n ELSE i
    BY <2>1 DEF IsDeleted
  <2>4. Len(BA) = IF i + m + n <= Len(text) THEN Len(text) - m - n ELSE i
    BY <2>2 DEF IsDeleted
  <2>. QED BY <2>1, <2>2, <2>3, <2>4
<1>2. Len(AB) = Len(BA)
  BY <1>1
<1>3. ASSUME NEW k \in 1..Len(AB) PROVE AB[k] = BA[k]
  <2>1. k \in Int /\ 1 <= k /\ (k <= i \/ k <= Len(text) - m - n)
    BY <1>1
  <2>2. AB[k] = IF k <= i THEN A[k] ELSE A[k + n]
    BY DEF IsDeleted
  <2>3. BA[k] = IF k <= i THEN B[k] ELSE B[k + m]
    BY <1>2 DEF IsDeleted
  <2>4. \A t \in 1..Len(text) - m : A[t] = IF t <= i THEN text[t] ELSE text[t + m]
    BY <1>1 DEF IsDeleted
  <2>5. \A t \in 1..Len(text) - n : B[t] = IF t <= i THEN text[t] ELSE text[t + n]
    BY <1>1 DEF IsDeleted
  <2>6. CASE k <= i
    <3>1. k \in 1..Len(text) - m /\ k \in 1..Len(text) - n
      BY <2>1, <2>6
    <3>. QED BY <2>2, <2>3, <2>4, <2>5, <2>6, <3>1
  <2>7. CASE ~(k <= i)
    <3>1. /\ k + m \in 1..Len(text) - n /\ ~(k + m <= i)
          /\ k + n \in 1..Len(text) - m /\ ~(k + n <= i) /\ (k + m) + n = (k + n) + m
      BY <2>1, <2>7
    <3>2. B[k + m] = text[(k + m) + n]
      BY <3>1, <2>5
    <3>3. A[k + n] = text[(k + n) + m]
      BY <3>1, <2>4
    <3>. QED BY <2>2, <2>3, <2>7, <3>1, <3>2, <3>3
  <2>. QED BY <2>6, <2>7
<1>4. AB \in Seq(Nat) /\ BA \in Seq(Nat)
  BY DEF IsDeleted
<1>. QED BY <1>2, <1>3, <1>4, SeqEqual

----------------------------------------------------------------------------
(* Operations *)

\* What transformOperations makes of the position
Shifted(op, ours) ==
    IF ours.type = "insert"
    THEN IF Moves(op, ours) THEN op.position + Len(ours.content) ELSE op.position
    ELSE IF ours.position >= op.position THEN op.position
         ELSE IF op.position < Length(ours) THEN 0 ELSE op.position - Length(ours)

LEMMA LengthType ==
  ASSUME NEW op \in Operation
  PROVE  Length(op) \in {1, 2}
BY DEF Operation, Length

LEMMA ShiftedType ==
  ASSUME NEW op \in Operation, NEW ours \in Operation
  PROVE  Shifted(op, ours) \in Nat
<1>1. /\ op.position \in Nat /\ ours.position \in Nat /\ ours.content \in Seq(Nat)
      /\ Len(ours.content) \in Nat
  BY DEF Operation
<1>. QED BY <1>1, LengthType DEF Shifted

\* Only the position is transformed.
LEMMA TransformedFields ==
  ASSUME NEW op \in Operation, NEW ours \in Operation
  PROVE  Transformed(op, ours) = [op EXCEPT !.position = Shifted(op, ours)]
BY DEF Transformed, Shifted

\* The operation at another position
LEMMA Moved ==
  ASSUME NEW op \in Operation, NEW n \in Nat
  PROVE  LET t == [op EXCEPT !.position = n]
         IN /\ t \in Operation /\ t.position = n
            /\ t.id = op.id /\ t.peerId = op.peerId /\ t.type = op.type
            /\ t.content = op.content /\ t.length = op.length /\ t.version = op.version
BY DEF Operation

LEMMA TransformedKeeps ==
  ASSUME NEW op \in Operation, NEW ours \in Operation
  PROVE  /\ Transformed(op, ours) \in Operation
         /\ Transformed(op, ours).id = op.id /\ Transformed(op, ours).version = op.version
<1>1. Transformed(op, ours) = [op EXCEPT !.position = Shifted(op, ours)]
  BY TransformedFields
<1>2. PICK n \in Nat : n = Shifted(op, ours)
  BY ShiftedType
<1>. QED BY <1>1, <1>2, Moved

LEMMA EditedType ==
  ASSUME NEW text \in Seq(Nat), NEW op \in Operation
  PROVE  Edited(text, op) \in Seq(Nat)
<1>1. /\ op.position \in Nat /\ op.content \in Seq(Nat) /\ Len(text) \in Nat
      /\ op.position + Length(op) \in Nat
  BY LengthType DEF Operation
<1>2. \A n \in Nat : From(text, n) \in Seq(Nat)
  BY Suffix
<1>3. UpTo(text, op.position) \in Seq(Nat)
  <2>1. CASE op.position < Len(text)
    BY <1>1, <2>1, Prefix
  <2>2. CASE ~(op.position < Len(text))
    <3>1. UpTo(text, op.position) = UpTo(text, Len(text))
      BY <1>1, <2>2 DEF UpTo
    <3>. QED BY <1>1, <3>1, Prefix
  <2>. QED BY <2>1, <2>2
<1>4. UpTo(text, op.position) \o op.content \in Seq(Nat)
  BY <1>1, <1>3, ConcatProperties
<1>5. UpTo(text, op.position) \o op.content \o From(text, op.position) \in Seq(Nat)
  BY <1>1, <1>2, <1>4, ConcatProperties
<1>6. UpTo(text, op.position) \o From(text, op.position + Length(op)) \in Seq(Nat)
  BY <1>1, <1>2, <1>3, ConcatProperties
<1>. QED BY <1>5, <1>6 DEF Edited

\* What an operation does to a text, character by character
LEMMA EditedText ==
  ASSUME NEW text \in Seq(Nat), NEW op \in Operation, op.position <= Len(text)
  PROVE  /\ op.type = "insert" =>
                IsInserted(Edited(text, op), text, op.position, op.content)
         /\ op.type = "delete" =>
                IsDeleted(Edited(text, op), text, op.position, Length(op))
<1>1. /\ op.position \in 0..Len(text) /\ op.content \in Seq(Nat) /\ Length(op) \in Nat
  <2>1. op.position \in Nat /\ op.content \in Seq(Nat)
    BY DEF Operation
  <2>2. Len(text) \in Nat /\ Length(op) \in {1, 2}
    BY LengthType
  <2>. QED BY <2>1, <2>2
<1>2. ASSUME op.type = "insert"
      PROVE  IsInserted(Edited(text, op), text, op.position, op.content)
  BY <1>1, <1>2, InsertedText DEF Edited
<1>3. ASSUME op.type = "delete"
      PROVE  IsDeleted(Edited(text, op), text, op.position, Length(op))
  BY <1>1, <1>3, DeletedText DEF Edited
<1>. QED BY <1>2, <1>3

\* Two operations made on one text lead to one text, whichever comes first, each
\* transformed over the other.
Diamond(text, a, b) ==
    Edited(Edited(text, a), Transformed(b, a)) = Edited(Edited(text, b), Transformed(a, b))

\* What the cases of the proof know of an operation and of the transformed one
Known(text, op, other) ==
    /\ op.position \in Nat /\ Shifted(op, other) \in Nat /\ Length(op) \in Nat \ {0}
    /\ op.content \in Seq(Nat) /\ op.peerId \in Nat
    /\ op.position <= Len(text)
    /\ op.type = "delete" => op.position + Length(op) <= Len(text)
    /\ Edited(text, op) \in Seq(Nat)
    /\ op.type = "insert" =>
           /\ IsInserted(Edited(text, op), text, op.position, op.content)
           /\ \A result \in Seq(Nat) : Shifted(op, other) <= Len(result) =>
                  IsInserted(Edited(result, Transformed(op, other)), result,
                             Shifted(op, other), op.content)
    /\ op.type = "delete" =>
           /\ IsDeleted(Edited(text, op), text, op.position, Length(op))
           /\ \A result \in Seq(Nat) : Shifted(op, other) <= Len(result) =>
                  IsDeleted(Edited(result, Transformed(op, other)), result,
                            Shifted(op, other), Length(op))

LEMMA KnownHolds ==
  ASSUME NEW text \in Seq(Nat), NEW op \in Operation, NEW other \in Operation, Fits(op, text)
  PROVE  Known(text, op, other)
<1>1. /\ op.position \in Nat /\ op.content \in Seq(Nat) /\ op.peerId \in PeerIds
      /\ op.type \in {"insert", "delete"}
  BY DEF Operation
<1>2. op.peerId \in Nat
  BY <1>1, TwoPeers
<1>3. Length(op) \in Nat \ {0} /\ Shifted(op, other) \in Nat
  BY LengthType, ShiftedType
<1>4. /\ op.position <= Len(text)
      /\ op.type = "delete" => op.position + Length(op) <= Len(text)
  <2>1. Len(text) \in Nat
    OBVIOUS
  <2>. QED BY <1>1, <1>3, <2>1 DEF Fits
<1>5. Edited(text, op) \in Seq(Nat)
  BY EditedType
<1>6. /\ op.type = "insert" => IsInserted(Edited(text, op), text, op.position, op.content)
      /\ op.type = "delete" => IsDeleted(Edited(text, op), text, op.position, Length(op))
  BY <1>4, EditedText
<1>7. /\ Transformed(op, other) \in Operation
      /\ Transformed(op, other).position = Shifted(op, other)
      /\ Transformed(op, other).type = op.type /\ Transformed(op, other).content = op.content
      /\ Length(Transformed(op, other)) = Length(op)
  <2>1. Transformed(op, other) = [op EXCEPT !.position = Shifted(op, other)]
    BY TransformedFields
  <2>. QED BY <2>1, <1>3, Moved DEF Length
<1>8. ASSUME NEW result \in Seq(Nat), Shifted(op, other) <= Len(result)
      PROVE  /\ op.type = "insert" =>
                    IsInserted(Edited(result, Transformed(op, other)), result,
                               Shifted(op, other), op.content)
             /\ op.type = "delete" =>
                    IsDeleted(Edited(result, Transformed(op, other)), result,
                              Shifted(op, other), Length(op))
  <2>1. PICK t \in Operation : t = Transformed(op, other)
    BY <1>7
  <2>2. t.position <= Len(result)
    BY <1>7, <1>8, <2>1
  <2>3. /\ t.type = "insert" => IsInserted(Edited(result, t), result, t.position, t.content)
        /\ t.type = "delete" => IsDeleted(Edited(result, t), result, t.position, Length(t))
    BY <2>2, EditedText
  <2>. QED BY <1>7, <2>1, <2>3
<1>. QED BY <1>2, <1>1, <1>3, <1>4, <1>5, <1>6, <1>8 DEF Known

\* a is an insert, before b if that is one.
LEMMA InsertFirst ==
  ASSUME NEW text \in Seq(Nat), NEW a \in Operation, NEW b \in Operation,
         Fits(a, text), Fits(b, text), a.type = "insert", ~Inside(a, b),
         b.type = "insert" =>
             \/ a.position < b.position
             \/ a.position = b.position /\ a.peerId > b.peerId
  PROVE  Diamond(text, a, b)
<1>1. Known(text, a, b) /\ Known(text, b, a)
  BY KnownHolds
<1> DEFINE A == Edited(text, a)
           B == Edited(text, b)
<1>2. /\ a.position \in Nat /\ b.position \in Nat /\ a.position <= Len(text)
      /\ b.position <= Len(text) /\ Len(text) \in Nat /\ Len(a.content) \in Nat
      /\ Len(b.content) \in Nat /\ Length(b) \in Nat \ {0}
      /\ a.peerId \in Nat /\ b.peerId \in Nat
      /\ A \in Seq(Nat) /\ B \in Seq(Nat) /\ Len(A) \in Nat /\ Len(B) \in Nat
  BY <1>1 DEF Known
<1>3. IsInserted(A, text, a.position, a.content)
  BY <1>1 DEF Known
<1>4. Len(A) = Len(text) + Len(a.content)
  BY <1>3 DEF IsInserted
<1>5. CASE b.type = "insert"
  <2>1. Shifted(b, a) = b.position + Len(a.content)
    BY <1>2, <1>5 DEF Shifted, Moves
  <2>2. Shifted(a, b) = a.position
    BY <1>2, <1>5 DEF Shifted, Moves
  <2>3. IsInserted(B, text, b.position, b.content)
    BY <1>1, <1>5 DEF Known
  <2>4. Len(B) = Len(text) + Len(b.content)
    BY <2>3 DEF IsInserted
  <2>5. IsInserted(Edited(A, Transformed(b, a)), A, b.position + Len(a.content), b.content)
    <3>1. b.position + Len(a.content) <= Len(A)
      BY <1>2, <1>4
    <3>. QED BY <1>1, <1>2, <1>5, <2>1, <3>1 DEF Known
  <2>6. IsInserted(Edited(B, Transformed(a, b)), B, a.position, a.content)
    <3>1. a.position <= Len(B)
      BY <1>2, <2>4
    <3>. QED BY <1>1, <1>2, <2>2, <3>1 DEF Known
  <2>7. a.position <= b.position
    BY <1>2, <1>5
  <2>8. Edited(A, Transformed(b, a)) = Edited(B, Transformed(a, b))
    BY <1>2, <1>3, <2>3, <2>5, <2>6, <2>7, InsertInsert
  <2>. QED BY <2>8 DEF Diamond
<1>6. CASE b.type = "delete"
  <2>1. b.position + Length(b) <= Len(text) /\ IsDeleted(B, text, b.position, Length(b))
    BY <1>1, <1>6 DEF Known
  <2>2. Len(B) = Len(text) - Length(b)
    BY <2>1 DEF IsDeleted
  <2>3. CASE a.position <= b.position
    <3>1. Shifted(b, a) = b.position + Len(a.content)
      BY <1>2, <1>6, <2>3 DEF Shifted, Moves
    <3>2. Shifted(a, b) = a.position
      BY <1>2, <1>6, <2>3 DEF Shifted, Moves
    <3>3. IsDeleted(Edited(A, Transformed(b, a)), A, b.position + Len(a.content), Length(b))
      <4>1. b.position + Len(a.content) <= Len(A)
        BY <1>2, <1>4
      <4>. QED BY <1>1, <1>2, <1>6, <3>1, <4>1 DEF Known
    <3>4. IsInserted(Edited(B, Transformed(a, b)), B, a.position, a.content)
      <4>1. a.position <= Len(B)
        BY <1>2, <2>1, <2>2, <2>3
      <4>. QED BY <1>1, <1>2, <3>2, <4>1 DEF Known
    <3>5. Edited(A, Transformed(b, a)) = Edited(B, Transformed(a, b))
      BY <1>2, <1>3, <2>1, <2>3, <3>3, <3>4, InsertDeleteAfter
    <3>. QED BY <3>5 DEF Diamond
  <2>4. CASE a.position > b.position
    <3>1. b.position + Length(b) <= a.position
      BY <1>2, <1>6, <2>4 DEF Inside
    <3>2. Shifted(b, a) = b.position
      BY <1>2, <1>6, <2>4 DEF Shifted, Moves
    <3>3. Shifted(a, b) = a.position - Length(b) /\ a.position - Length(b) \in Nat
      BY <1>2, <1>6, <2>4, <3>1 DEF Shifted
    <3>4. IsDeleted(Edited(A, Transformed(b, a)), A, b.position, Length(b))
      <4>1. b.position <= Len(A)
        BY <1>2, <1>4
      <4>. QED BY <1>1, <1>2, <1>6, <3>2, <4>1 DEF Known
    <3>5. IsInserted(Edited(B, Transformed(a, b)), B, a.position - Length(b), a.content)
      <4>1. a.position - Length(b) <= Len(B)
        BY <1>2, <2>2
      <4>. QED BY <1>1, <1>2, <3>3, <4>1 DEF Known
    <3>6. Edited(A, Transformed(b, a)) = Edited(B, Transformed(a, b))
      BY <1>2, <1>3, <2>1, <3>1, <3>4, <3>5, InsertDeleteBefore
    <3>. QED BY <3>6 DEF Diamond
  <2>5. a.position <= b.position \/ a.position > b.position
    BY <1>2
  <2>. QED BY <2>3, <2>4, <2>5
<1>7. b.type \in {"insert", "delete"}
  BY DEF Operation
<1>. QED BY <1>5, <1>6, <1>7

\* Two deletes, a not behind b
LEMMA DeleteFirst ==
  ASSUME NEW text \in Seq(Nat), NEW a \in Operation, NEW b \in Operation,
         Fits(a, text), Fits(b, text), a.type = "delete", b.type = "delete",
         ~Inside(b, a), a.position <= b.position
  PROVE  Diamond(text, a, b)
<1>1. Known(text, a, b) /\ Known(text, b, a)
  BY KnownHolds
<1> DEFINE A == Edited(text, a)
           B == Edited(text, b)
<1>2. /\ a.position \in Nat /\ b.position \in Nat /\ Len(text) \in Nat
      /\ Length(a) \in Nat \ {0} /\ Length(b) \in Nat \ {0}
      /\ a.position + Length(a) <= Len(text) /\ b.position + Length(b) <= Len(text)
      /\ A \in Seq(Nat) /\ B \in Seq(Nat) /\ Len(A) \in Nat /\ Len(B) \in Nat
  BY <1>1 DEF Known
<1>3. IsDeleted(A, text, a.position, Length(a)) /\ IsDeleted(B, text, b.position, Length(b))
  BY <1>1 DEF Known
<1>4. Len(A) = Len(text) - Length(a) /\ Len(B) = Len(text) - Length(b)
  BY <1>2, <1>3 DEF IsDeleted
<1>5. Shifted(a, b) = a.position
  BY <1>2 DEF Shifted
<1>6. IsDeleted(Edited(B, Transformed(a, b)), B, a.position, Length(a))
  <2>1. a.position <= Len(B)
    BY <1>2, <1>4
  <2>. QED BY <1>1, <1>2, <1>5, <2>1 DEF Known
<1>7. CASE a.position = b.position
  <2>1. Shifted(b, a) = a.position
    BY <1>2, <1>7 DEF Shifted
  <2>2. IsDeleted(Edited(A, Transformed(b, a)), A, a.position, Length(b))
    <3>1. a.position <= Len(A)
      BY <1>2, <1>4
    <3>. QED BY <1>1, <1>2, <2>1, <3>1 DEF Known
  <2>3. IsDeleted(B, text, a.position, Length(b)) /\ a.position + Length(b) <= Len(text)
    BY <1>2, <1>3, <1>7
  <2>4. Edited(A, Transformed(b, a)) = Edited(B, Transformed(a, b))
    BY <1>2, <1>3, <1>6, <2>2, <2>3, DeleteSame
  <2>. QED BY <2>4 DEF Diamond
<1>8. CASE a.position < b.position
  <2>1. a.position + Length(a) <= b.position
    BY <1>2, <1>8 DEF Inside
  <2>2. Shifted(b, a) = b.position - Length(a) /\ b.position - Length(a) \in Nat
    BY <1>2, <1>8, <2>1 DEF Shifted
  <2>3. IsDeleted(Edited(A, Transformed(b, a)), A, b.position - Length(a), Length(b))
    <3>1. b.position - Length(a) <= Len(A)
      BY <1>2, <1>4
    <3>. QED BY <1>1, <1>2, <2>2, <3>1 DEF Known
  <2>4. Edited(A, Transformed(b, a)) = Edited(B, Transformed(a, b))
    BY <1>2, <1>3, <1>6, <2>1, <2>3, DeleteDelete
  <2>. QED BY <2>4 DEF Diamond
<1>. QED BY <1>2, <1>7, <1>8

\* transformOperations (operationalTransform.ts:154) is right for any two operations of
\* different peers on any text, neither of which falls strictly inside what the other one
\* deletes: whichever comes first, the text is the same.
THEOREM TransformationConverges ==
  ASSUME NEW text \in Seq(Nat), NEW a \in Operation, NEW b \in Operation,
         Fits(a, text), Fits(b, text), a.peerId # b.peerId, ~Inside(a, b), ~Inside(b, a)
  PROVE  Diamond(text, a, b)
<1>1. /\ a.type \in {"insert", "delete"} /\ b.type \in {"insert", "delete"}
      /\ a.position \in Nat /\ b.position \in Nat
      /\ a.peerId \in PeerIds /\ b.peerId \in PeerIds
  BY DEF Operation
<1>2. a.peerId \in Nat /\ b.peerId \in Nat
  BY <1>1, TwoPeers
<1>3. Diamond(text, b, a) => Diamond(text, a, b)
  BY DEF Diamond
<1>4. CASE a.type = "insert" /\ b.type = "insert"
  <2>1. CASE \/ a.position < b.position
             \/ a.position = b.position /\ a.peerId > b.peerId
    BY <1>4, <2>1, InsertFirst
  <2>2. CASE \/ b.position < a.position
             \/ b.position = a.position /\ b.peerId > a.peerId
    BY <1>3, <1>4, <2>2, InsertFirst
  <2>. QED BY <1>1, <1>2, <2>1, <2>2
<1>5. CASE a.type = "insert" /\ b.type = "delete"
  BY <1>5, InsertFirst
<1>6. CASE a.type = "delete" /\ b.type = "insert"
  BY <1>3, <1>6, InsertFirst
<1>7. CASE a.type = "delete" /\ b.type = "delete"
  <2>1. CASE a.position <= b.position
    BY <1>7, <2>1, DeleteFirst
  <2>2. CASE b.position <= a.position
    BY <1>3, <1>7, <2>2, DeleteFirst
  <2>. QED BY <1>1, <2>1, <2>2
<1>. QED BY <1>1, <1>4, <1>5, <1>6, <1>7

----------------------------------------------------------------------------
(* The operations one is transformed over *)

LEMMA FoldNone ==
  ASSUME NEW op, NEW ours, DOMAIN ours = {}
  PROVE  FoldLeft(Transformed, op, ours) = op
<1> DEFINE body(g) == [t \in SUBSET {} |->
                          IF t = {} THEN op ELSE Transformed(g[t \ {Max(t)}], ours[Max(t)])]
           iter == CHOOSE g : g = body(g)
<1>1. FoldLeft(Transformed, op, ours) = iter[{}]
  BY DEF FoldLeft, MapThenFoldSet
<1>2. \E g : g = body(g)
  <2>1. [t \in SUBSET {} |-> op] = body([t \in SUBSET {} |-> op])
    OBVIOUS
  <2>. QED BY <2>1
<1>3. iter = body(iter)
  BY <1>2
<1>. HIDE DEF iter
<1>4. iter[{}] = op
  BY <1>3
<1>. QED BY <1>1, <1>4

LEMMA FoldOne ==
  ASSUME NEW op, NEW ours, DOMAIN ours = {1}
  PROVE  FoldLeft(Transformed, op, ours) = Transformed(op, ours[1])
<1> DEFINE body(g) == [t \in SUBSET {1} |->
                          IF t = {} THEN op ELSE Transformed(g[t \ {Max(t)}], ours[Max(t)])]
           iter == CHOOSE g : g = body(g)
           result == [t \in SUBSET {1} |-> IF t = {} THEN op ELSE Transformed(op, ours[1])]
<1>1. FoldLeft(Transformed, op, ours) = iter[{1}]
  BY DEF FoldLeft, MapThenFoldSet
<1>2. Max({1}) = 1
  BY DEF Max
<1>3. \E g : g = body(g)
  <2>1. ASSUME NEW t \in SUBSET {1} PROVE result[t] = body(result)[t]
    <3>1. CASE t = {}
      BY <3>1
    <3>2. CASE t = {1}
      <4>1. t \ {Max(t)} = {}
        BY <1>2, <3>2
      <4>. QED BY <1>2, <3>2, <4>1
    <3>. QED BY <3>1, <3>2
  <2>2. result = body(result)
    BY <2>1
  <2>. QED BY <2>2
<1>4. iter = body(iter)
  BY <1>3
<1>. HIDE DEF iter
<1>5. iter[{}] = op
  BY <1>4
<1>6. iter[{1}] = Transformed(op, ours[1])
  BY <1>2, <1>4, <1>5
<1>. QED BY <1>1, <1>6

LEMMA FilteredNone ==
  ASSUME NEW s
  PROVE  DOMAIN Filtered(s, {}) = {}
<1>1. Cardinality({}) = 0
  BY FS_EmptySet
<1>. QED BY <1>1 DEF Filtered

LEMMA FilteredOne ==
  ASSUME NEW s, NEW i \in Nat
  PROVE  DOMAIN Filtered(s, {i}) = {1} /\ Filtered(s, {i})[1] = s[i]
<1>1. Cardinality({}) = 0 /\ Cardinality({i}) = 1
  BY FS_EmptySet, FS_Singleton
<1>2. {j \in {i} : j < i} = {}
  OBVIOUS
<1>3. Nth({i}, 1) = i
  BY <1>1, <1>2 DEF Nth
<1>4. 1..Cardinality({i}) = {1}
  BY <1>1
<1>. QED BY <1>3, <1>4 DEF Filtered

LEMMA History ==
  ASSUME NEW doc \in Document
  PROVE  /\ doc.operations \in Seq(Operation) /\ doc.content \in Seq(Nat)
         /\ doc.version \in Nat /\ Len(doc.operations) \in Nat
         /\ DOMAIN doc.operations = 1..Len(doc.operations)
         /\ \A i \in DOMAIN doc.operations : /\ doc.operations[i] \in Operation
                                            /\ doc.operations[i].version \in Nat
<1>1. /\ doc.operations \in Seq(Operation) /\ doc.content \in Seq(Nat)
      /\ doc.version \in Nat
  BY DEF Document
<1>2. Len(doc.operations) \in Nat /\ DOMAIN doc.operations = 1..Len(doc.operations)
  BY <1>1, LenProperties
<1>3. \A i \in DOMAIN doc.operations : doc.operations[i] \in Operation
  BY <1>1, <1>2, ElementOfSeq
<1>4. \A op \in Operation : op.version \in Nat
  BY MaxOpsIsNat DEF Operation
<1>. QED BY <1>1, <1>2, <1>3, <1>4

\* What an operation becomes when it meets no operation it was made without
LEMMA MeetsNone ==
  ASSUME NEW doc \in Document, NEW op \in Operation,
         \A i \in DOMAIN doc.operations : doc.operations[i].version < op.version
  PROVE  TransformedOver(Concurrent(doc, op), op) = op /\ ~Clash(Concurrent(doc, op), op)
<1>1. op.version \in Nat /\ op.position \in Nat
  BY MaxOpsIsNat DEF Operation
<1>2. \A i \in DOMAIN doc.operations : doc.operations[i].version \in Nat
  BY History
<1>3. {i \in DOMAIN doc.operations : doc.operations[i].version >= op.version} = {}
  BY <1>1, <1>2
<1>4. DOMAIN Concurrent(doc, op) = {}
  BY <1>3, FilteredNone DEF Concurrent
<1>5. FoldLeft(Transformed, op, Concurrent(doc, op)) = op
  BY <1>4, FoldNone
<1>6. TransformedOver(Concurrent(doc, op), op) = op
  BY <1>5 DEF TransformedOver, Operation
<1>. QED BY <1>4, <1>6 DEF Clash

\* What an operation becomes when it meets the last operation of the history
LEMMA MeetsLatest ==
  ASSUME NEW doc \in Document, NEW op \in Operation, NEW ours \in Operation,
         Latest(doc, ours), ours.version = op.version
  PROVE  /\ TransformedOver(Concurrent(doc, op), op) = Transformed(op, ours)
         /\ Clash(Concurrent(doc, op), op) <=> Inside(ours, op) \/ Inside(op, ours)
<1> DEFINE last == Len(doc.operations)
<1>1. op.version \in Nat /\ op.position \in Nat
  BY MaxOpsIsNat DEF Operation
<1>2. /\ \A i \in DOMAIN doc.operations : doc.operations[i].version \in Nat
      /\ last \in Nat /\ DOMAIN doc.operations = 1..last
  BY History
<1>3. last \in DOMAIN doc.operations /\ doc.operations[last] = ours
  BY <1>2 DEF Latest
<1>4. \A i \in DOMAIN doc.operations : i # last => doc.operations[i].version < op.version
  BY DEF Latest
<1>5. {i \in DOMAIN doc.operations : doc.operations[i].version >= op.version} = {last}
  <2>1. ASSUME NEW i \in DOMAIN doc.operations, doc.operations[i].version >= op.version
        PROVE  i = last
    BY <1>1, <1>2, <1>4, <2>1
  <2>2. doc.operations[last].version >= op.version
    BY <1>1, <1>3
  <2>. QED BY <1>3, <2>1, <2>2
<1>6. /\ DOMAIN Concurrent(doc, op) = {1} /\ Concurrent(doc, op)[1] = ours
  <2>1. Concurrent(doc, op) = Filtered(doc.operations, {last})
    BY <1>5 DEF Concurrent
  <2>. QED BY <1>2, <1>3, <2>1, FilteredOne
<1>7. FoldLeft(Transformed, op, Concurrent(doc, op)) = Transformed(op, ours)
  BY <1>6, FoldOne
<1>8. TransformedOver(Concurrent(doc, op), op) = Transformed(op, ours)
  <2>1. Transformed(op, ours) = [op EXCEPT !.position = Shifted(op, ours)]
    BY TransformedFields
  <2>2. Transformed(op, ours).position = Shifted(op, ours)
    BY <2>1, ShiftedType, Moved
  <2>3. TransformedOver(Concurrent(doc, op), op) =
            [op EXCEPT !.position = Transformed(op, ours).position]
    BY <1>7 DEF TransformedOver
  <2>. QED BY <2>1, <2>2, <2>3
<1>9. Clash(Concurrent(doc, op), op) <=> Inside(ours, op) \/ Inside(op, ours)
  BY <1>6 DEF Clash
<1>. QED BY <1>8, <1>9

----------------------------------------------------------------------------
(* Peers, histories and channels *)

LEMMA Peers ==
  ASSUME NEW p \in PeerIds
  PROVE  /\ Other(p) \in PeerIds /\ Other(p) # p /\ PeerIds = {p, Other(p)}
         /\ \A q \in PeerIds : q # p => q = Other(p)
<1>1. IsFiniteSet(PeerIds \ {p}) /\ Cardinality(PeerIds \ {p}) = 1
  BY TwoPeers, FS_RemoveElement
<1>2. PICK q : PeerIds \ {p} = {q}
  BY <1>1, FS_Singleton
<1>3. q \in PeerIds /\ q # p /\ \A r \in PeerIds : r # p => r = q
  BY <1>2
<1>4. Other(p) = q
  BY <1>3 DEF Other
<1>. QED BY <1>3, <1>4

LEMMA ExistingMembers ==
  ASSUME NEW docs, NEW chans, NEW o
  PROVE  o \in ExistingIn(docs, chans) <=>
             \E p \in PeerIds : \/ o \in ToSet(docs[p].operations)
                                \/ o \in ToSet(chans[p]) /\ o # Ack
<1>1. o \in Kept(docs) <=> \E p \in PeerIds : o \in ToSet(docs[p].operations)
  BY DEF Kept
<1>2. o \in Sent(chans) <=> \E p \in PeerIds : o \in ToSet(chans[p]) /\ o # Ack
  BY DEF Sent
<1>. QED BY <1>1, <1>2 DEF ExistingIn

LEMMA AppendedSet ==
  ASSUME NEW S, NEW s \in Seq(S), NEW x \in S
  PROVE  \A o : o \in ToSet(Append(s, x)) <=> o \in ToSet(s) \/ o = x
<1>1. /\ Append(s, x) \in Seq(S) /\ Len(Append(s, x)) = Len(s) + 1
      /\ \A i \in 1..Len(s) : Append(s, x)[i] = s[i]
      /\ Append(s, x)[Len(s) + 1] = x
  BY AppendProperties
<1>2. DOMAIN Append(s, x) = 1..Len(s) + 1 /\ DOMAIN s = 1..Len(s) /\ Len(s) \in Nat
  BY <1>1
<1>3. ASSUME NEW o PROVE o \in ToSet(Append(s, x)) <=> o \in ToSet(s) \/ o = x
  <2>1. o \in ToSet(Append(s, x)) <=> \E i \in 1..Len(s) + 1 : o = Append(s, x)[i]
    BY <1>2 DEF ToSet
  <2>2. o \in ToSet(s) <=> \E i \in 1..Len(s) : o = s[i]
    BY <1>2 DEF ToSet
  <2>. QED BY <1>1, <1>2, <2>1, <2>2
<1>. QED BY <1>3

LEMMA TailSet ==
  ASSUME NEW S, NEW s \in Seq(S), s # <<>>
  PROVE  \A o : o \in ToSet(Tail(s)) => o \in ToSet(s)
<1>1. /\ Len(Tail(s)) = Len(s) - 1 /\ Tail(s) \in Seq(S)
      /\ \A i \in 1..Len(Tail(s)) : Tail(s)[i] = s[i + 1]
  BY HeadTailProperties
<1>2. DOMAIN Tail(s) = 1..Len(s) - 1 /\ DOMAIN s = 1..Len(s) /\ Len(s) \in Nat
  BY <1>1
<1>3. ASSUME NEW o, o \in ToSet(Tail(s)) PROVE o \in ToSet(s)
  <2>1. PICK i \in 1..Len(s) - 1 : o = Tail(s)[i]
    BY <1>2, <1>3 DEF ToSet
  <2>2. i + 1 \in DOMAIN s /\ o = s[i + 1]
    BY <1>1, <1>2, <2>1
  <2>. QED BY <2>2 DEF ToSet
<1>. QED BY <1>3

\* What HistorySound says of one document
SoundHistory(doc) ==
    /\ doc.version = Len(doc.operations)
    /\ \A i, j \in DOMAIN doc.operations :
           i < j => /\ doc.operations[i].version <= doc.operations[j].version
                    /\ doc.operations[i].id # doc.operations[j].id
    /\ \A i \in DOMAIN doc.operations : doc.operations[i].version < doc.version

\* The document with one more operation
Extended(doc, text, op) ==
    [version |-> doc.version + 1, content |-> text, operations |-> Append(doc.operations, op)]

LEMMA ExtendedHistory ==
  ASSUME NEW doc \in Document, NEW op \in Operation, NEW text \in Seq(Nat), SoundHistory(doc),
         op.version <= doc.version, ~HasOperation(doc, op),
         \A i \in DOMAIN doc.operations : doc.operations[i].version <= op.version
  PROVE  /\ Extended(doc, text, op) \in Document
         /\ SoundHistory(Extended(doc, text, op))
         /\ \A o : o \in ToSet(Extended(doc, text, op).operations) <=>
                       o \in ToSet(doc.operations) \/ o = op
         /\ \A o : HasOperation(Extended(doc, text, op), o) <=>
                       HasOperation(doc, o) \/ o.id = op.id
<1> DEFINE new == Extended(doc, text, op)
           last == Len(doc.operations) + 1
<1>1. /\ doc.operations \in Seq(Operation) /\ doc.version \in Nat
      /\ Len(doc.operations) \in Nat /\ DOMAIN doc.operations = 1..Len(doc.operations)
      /\ \A i \in DOMAIN doc.operations : doc.operations[i].version \in Nat
  BY History
<1>2. op.version \in Nat
  BY MaxOpsIsNat DEF Operation
<1>3. /\ Append(doc.operations, op) \in Seq(Operation)
      /\ Len(Append(doc.operations, op)) = last
      /\ \A i \in 1..Len(doc.operations) : Append(doc.operations, op)[i] = doc.operations[i]
      /\ Append(doc.operations, op)[last] = op
  BY <1>1, AppendProperties
<1>4. /\ new.version = doc.version + 1 /\ new.content = text
      /\ new.operations = Append(doc.operations, op)
  BY DEF Extended
<1>5. new \in Document
  BY <1>1, <1>3 DEF Extended, Document
<1>6. /\ DOMAIN new.operations = 1..last
      /\ \A i \in 1..last : \/ i \in DOMAIN doc.operations
                            \/ i = last
      /\ \A i \in DOMAIN doc.operations : new.operations[i] = doc.operations[i]
      /\ new.operations[last] = op
      /\ Len(new.operations) = last
  BY <1>1, <1>3, <1>4
<1>. HIDE DEF new
<1>7. \A o : o \in ToSet(new.operations) <=> o \in ToSet(doc.operations) \/ o = op
  <2>1. ToSet(new.operations) = {new.operations[i] : i \in 1..last}
    BY <1>6 DEF ToSet
  <2>2. ToSet(doc.operations) = {doc.operations[i] : i \in DOMAIN doc.operations}
    BY DEF ToSet
  <2>3. last \in 1..last /\ \A i \in DOMAIN doc.operations : i \in 1..last
    BY <1>1
  <2>4. ASSUME NEW o PROVE o \in ToSet(new.operations) <=> o \in ToSet(doc.operations) \/ o = op
    <3>1. o \in ToSet(new.operations) <=> \E i \in 1..last : o = new.operations[i]
      BY <2>1
    <3>2. o \in ToSet(doc.operations) <=> \E i \in DOMAIN doc.operations : o = doc.operations[i]
      BY <2>2
    <3>. QED BY <1>6, <2>3, <3>1, <3>2
  <2>. QED BY <2>4
<1>8. \A o : HasOperation(new, o) <=> HasOperation(doc, o) \/ o.id = op.id
  <2>1. last \in 1..last /\ \A i \in DOMAIN doc.operations : i \in 1..last
    BY <1>1
  <2>2. ASSUME NEW o PROVE HasOperation(new, o) <=> HasOperation(doc, o) \/ o.id = op.id
    <3>1. HasOperation(new, o) <=> \E i \in 1..last : new.operations[i].id = o.id
      BY <1>6 DEF HasOperation
    <3>2. HasOperation(doc, o) <=> \E i \in DOMAIN doc.operations : doc.operations[i].id = o.id
      BY DEF HasOperation
    <3>. QED BY <1>6, <2>1, <3>1, <3>2
  <2>. QED BY <2>2
<1>9. SoundHistory(new)
  <2>1. new.version = Len(new.operations)
    BY <1>1, <1>4, <1>6 DEF SoundHistory
  <2>2. ASSUME NEW i \in DOMAIN new.operations, NEW j \in DOMAIN new.operations, i < j
        PROVE  /\ new.operations[i].version <= new.operations[j].version
               /\ new.operations[i].id # new.operations[j].id
    <3>1. i \in DOMAIN doc.operations
      BY <1>1, <1>6, <2>2
    <3>2. CASE j \in DOMAIN doc.operations
      BY <1>6, <2>2, <3>1, <3>2 DEF SoundHistory
    <3>3. CASE j = last
      <4>1. doc.operations[i].id # op.id /\ doc.operations[i].version <= op.version
        BY <3>1 DEF HasOperation
      <4>. QED BY <1>6, <3>1, <3>3, <4>1
    <3>. QED BY <1>6, <3>2, <3>3
  <2>3. ASSUME NEW i \in DOMAIN new.operations PROVE new.operations[i].version < new.version
    <3>1. CASE i \in DOMAIN doc.operations
      <4>1. doc.operations[i].version \in Nat /\ doc.operations[i].version < doc.version
        BY <1>1, <3>1 DEF SoundHistory
      <4>. QED BY <1>1, <1>4, <1>6, <3>1, <4>1
    <3>2. CASE i = last
      BY <1>1, <1>2, <1>4, <1>6, <3>2
    <3>. QED BY <1>6, <3>1, <3>2
  <2>. QED BY <2>1, <2>2, <2>3 DEF SoundHistory
<1>. QED BY <1>5, <1>7, <1>8, <1>9 DEF new

LEMMA ExtendedLatest ==
  ASSUME NEW doc \in Document, NEW op \in Operation, NEW text,
         \A i \in DOMAIN doc.operations : doc.operations[i].version < op.version
  PROVE  Latest(Extended(doc, text, op), op)
<1>1. /\ doc.operations \in Seq(Operation) /\ Len(doc.operations) \in Nat
      /\ DOMAIN doc.operations = 1..Len(doc.operations)
  BY History
<1>2. /\ Append(doc.operations, op) \in Seq(Operation)
      /\ Len(Append(doc.operations, op)) = Len(doc.operations) + 1
      /\ \A i \in 1..Len(doc.operations) : Append(doc.operations, op)[i] = doc.operations[i]
      /\ Append(doc.operations, op)[Len(doc.operations) + 1] = op
  BY <1>1, AppendProperties
<1>3. Extended(doc, text, op).operations = Append(doc.operations, op)
  BY DEF Extended
<1>. QED BY <1>1, <1>2, <1>3 DEF Latest

LEMMA IntegratedExtends ==
  ASSUME NEW doc \in Document, NEW op \in Operation, NEW t \in Operation,
         t = TransformedOver(Concurrent(doc, op), op)
  PROVE  Integrated(doc, op) = Extended(doc, Edited(doc.content, t), t)
<1>1. Integrated(doc, op) = [doc EXCEPT !.content = Edited(doc.content, t),
                                        !.operations = Append(doc.operations, t),
                                        !.version = doc.version + 1]
  BY DEF Integrated
<1>. QED BY <1>1 DEF Extended, Document

LEMMA AppendTwo ==
  ASSUME NEW x, NEW y
  PROVE  Append(<<x>>, y) = <<x, y>>
<1> DEFINE S == {x, y}
<1>1. /\ <<x>> \in Seq(S) /\ Len(<<x>>) = 1 /\ <<x>>[1] = x
      /\ <<x, y>> \in Seq(S) /\ Len(<<x, y>>) = 2 /\ <<x, y>>[1] = x /\ <<x, y>>[2] = y
  OBVIOUS
<1>2. y \in S
  OBVIOUS
<1>. HIDE DEF S
<1>3. PICK s \in Seq(S) : s = <<x>>
  BY <1>1
<1>4. /\ Append(s, y) \in Seq(S) /\ Len(Append(s, y)) = Len(s) + 1
      /\ \A i \in 1..Len(s) : Append(s, y)[i] = s[i]
      /\ Append(s, y)[Len(s) + 1] = y
  BY <1>2, AppendProperties
<1>5. /\ Append(<<x>>, y) \in Seq(S) /\ Len(Append(<<x>>, y)) = 2
      /\ Append(<<x>>, y)[1] = x /\ Append(<<x>>, y)[2] = y
  BY <1>1, <1>3, <1>4
<1>6. \A i \in 1..2 : Append(<<x>>, y)[i] = <<x, y>>[i]
  BY <1>1, <1>5
<1>. QED BY <1>1, <1>5, <1>6, SeqEqual

\* The messages this protocol ever has on a channel
LEMMA Messages ==
  ASSUME NEW x, NEW y
  PROVE  /\ <<x>> # <<>> /\ Head(<<x>>) = x /\ Tail(<<x>>) = <<>>
         /\ <<x, y>> # <<>> /\ Head(<<x, y>>) = x /\ Tail(<<x, y>>) = <<y>>
         /\ Append(<<>>, x) = <<x>> /\ Append(<<x>>, y) = <<x, y>>
         /\ ToSet(<<>>) = {} /\ ToSet(<<x>>) = {x} /\ ToSet(<<x, y>>) = {x, y}
<1>1. ToSet(<<>>) = {} /\ ToSet(<<x>>) = {x} /\ ToSet(<<x, y>>) = {x, y}
  BY DEF ToSet
<1>2. Append(<<x>>, y) = <<x, y>>
  BY AppendTwo
<1>3. /\ <<x>> # <<>> /\ Head(<<x>>) = x /\ Tail(<<x>>) = <<>>
      /\ <<x, y>> # <<>> /\ Head(<<x, y>>) = x /\ Tail(<<x, y>>) = <<y>>
      /\ Append(<<>>, x) = <<x>>
  OBVIOUS
<1>. QED BY <1>1, <1>2, <1>3

----------------------------------------------------------------------------
(* The situations *)

LEMMA SituationOf ==
  ASSUME Situations, NEW p \in PeerIds, NEW q \in PeerIds, p # q
  PROVE  \/ Level
         \/ \E op \in Operation : Behind(p, q, op) \/ Behind(q, p, op)
         \/ \E a, b \in Operation :
                Crossing(p, q, a, b) \/ Crossed(p, q, a, b) \/ Crossed(q, p, a, b)
<1>1. \A r, s \in PeerIds : r # s => (r = p /\ s = q) \/ (r = q /\ s = p)
  BY Peers
<1>2. \A a, b \in Operation : Crossing(q, p, a, b) => Crossing(p, q, b, a)
  <2>1. ASSUME NEW a \in Operation, NEW b \in Operation, Crossing(q, p, a, b)
        PROVE  Parallel(p, q, b, a) /\ Latest(documents[q], a)
               /\ documents[q].version = a.version + 1
    BY <2>1 DEF Crossing, Parallel
  <2>2. ASSUME NEW a \in Operation, NEW b \in Operation, Crossing(q, p, a, b)
        PROVE  Crossing(p, q, b, a)
    BY <2>1, <2>2 DEF Crossing
  <2>. QED BY <2>2
<1>. QED BY <1>1, <1>2 DEF Situations

LEMMA ExistingTyped ==
  ASSUME WellTyped, NEW o \in Existing
  PROVE  o \in Operation
<1>1. PICK p \in PeerIds : \/ o \in ToSet(documents[p].operations)
                           \/ o \in ToSet(channel[p]) /\ o # Ack
  BY ExistingMembers DEF Existing
<1>2. CASE o \in ToSet(documents[p].operations)
  <2>1. documents[p] \in Document
    BY DEF WellTyped
  <2>. QED BY <1>2, <2>1, History DEF ToSet
<1>3. CASE o \in ToSet(channel[p]) /\ o # Ack
  <2>1. channel[p] \in Seq(Operation \cup {Ack})
    BY DEF WellTyped
  <2>2. \A i \in DOMAIN channel[p] : channel[p][i] \in Operation \cup {Ack}
    BY <2>1, ElementOfSeq
  <2>. QED BY <1>3, <2>2 DEF ToSet
<1>. QED BY <1>1, <1>2, <1>3

LEMMA VersionsBound ==
  ASSUME WellTyped, Situations, NEW p \in PeerIds
  PROVE  documents[p].version \in Nat /\ documents[p].version <= made
<1> DEFINE q == Other(p)
<1>1. q \in PeerIds /\ p # q
  BY Peers
<1>2. /\ documents[p].version \in Nat /\ documents[q].version \in Nat /\ made \in Nat
      /\ \A op \in Operation : op.version \in Nat
  <2>1. documents[p] \in Document /\ documents[q] \in Document
    BY <1>1 DEF WellTyped
  <2>. QED BY <2>1, MaxOpsIsNat DEF Document, WellTyped, Operation
<1>3. CASE Level
  BY <1>2, <1>3 DEF Level
<1>. HIDE DEF q
<1>4. ASSUME NEW op \in Operation, Behind(p, q, op) \/ Behind(q, p, op)
      PROVE  documents[p].version <= made
  BY <1>2, <1>4 DEF Behind
<1>5. ASSUME NEW a \in Operation, NEW b \in Operation,
             Crossing(p, q, a, b) \/ Crossed(p, q, a, b) \/ Crossed(q, p, a, b)
      PROVE  documents[p].version <= made
  <2>1. a.version \in Nat /\ b.version \in Nat
    BY <1>2
  <2>. QED BY <1>2, <1>5, <2>1 DEF Crossing, Crossed, Parallel
<1>. QED BY <1>1, <1>2, <1>3, <1>4, <1>5, SituationOf

----------------------------------------------------------------------------
(* Making an operation *)

\* What applyLocalOperation does with the operation it makes
Made(p, q, op) ==
    /\ op.id = made /\ op.peerId = p /\ op.version = documents[p].version
    /\ Fits(op, documents[p].content)
    /\ made < MaxOps /\ made' = made + 1
    /\ p \notin outstanding /\ outstanding' = outstanding \cup {p}
    /\ documents' = [documents EXCEPT ![p] =
           Extended(documents[p], Edited(documents[p].content, op), op)]
    /\ channel' = [channel EXCEPT ![q] = Append(channel[q], op)]
    /\ clashed' = clashed

LEMMA LocalOperation ==
  ASSUME IInv, NEW p \in PeerIds, NEW position \in Nat, NEW content \in Seq(Nat),
         NEW type \in {"insert", "delete"}, NEW length \in {0, 2},
         ApplyLocalOperation(p, type, position, content, length),
         IF type = "insert" THEN position <= Len(documents[p].content)
         ELSE position + (IF length = 0 THEN 1 ELSE length) <= Len(documents[p].content)
  PROVE  \E op \in Operation : Made(p, Other(p), op)
<1> DEFINE op == [id |-> made, peerId |-> p, type |-> type, position |-> position,
                  content |-> content, length |-> length, version |-> documents[p].version]
<1>1. documents[p].version \in Nat /\ documents[p].version <= made /\ made \in 0..MaxOps
  BY VersionsBound DEF IInv, WellTyped
<1>2. op \in Operation
  <2>1. made \in 0..MaxOps /\ documents[p].version \in 0..MaxOps
    BY <1>1, MaxOpsIsNat
  <2>. QED BY <2>1 DEF Operation
<1>3. Fits(op, documents[p].content)
  BY DEF Fits, Length
<1>4. /\ made < MaxOps /\ made' = made + 1
      /\ p \notin outstanding /\ outstanding' = outstanding \cup {p}
      /\ documents' = [documents EXCEPT ![p] =
             Extended(documents[p], Edited(documents[p].content, op), op)]
      /\ channel' = [channel EXCEPT ![Other(p)] = Append(channel[Other(p)], op)]
      /\ clashed' = clashed
  BY DEF ApplyLocalOperation, Extended
<1>5. op.id = made /\ op.peerId = p /\ op.version = documents[p].version
  OBVIOUS
<1>6. Made(p, Other(p), op)
  BY <1>3, <1>4, <1>5 DEF Made
<1>. QED BY <1>2, <1>6

LEMMA EditMakes ==
  ASSUME IInv, NEW p \in PeerIds, Edit(p)
  PROVE  \E op \in Operation : Made(p, Other(p), op)
<1>1. documents[p].content \in Seq(Nat) /\ Len(documents[p].content) \in Nat
  <2>1. documents[p] \in Document
    BY DEF IInv, WellTyped
  <2>. QED BY <2>1 DEF Document
<1>2. p \in Nat /\ <<p>> \in Seq(Nat) /\ <<p, p>> \in Seq(Nat) /\ <<>> \in Seq(Nat)
  BY TwoPeers
<1>3. ASSUME NEW position \in 0..Len(documents[p].content), NEW text \in {<<p>>, <<p, p>>},
             ApplyLocalOperation(p, "insert", position, text, 0)
      PROVE  \E op \in Operation : Made(p, Other(p), op)
  <2>1. position \in Nat /\ position <= Len(documents[p].content) /\ text \in Seq(Nat)
    <3>1. text \in Seq(Nat)
      BY <1>2
    <3>. QED BY <1>1, <3>1
  <2>2. PICK type \in {"insert", "delete"}, length \in {0, 2} : type = "insert" /\ length = 0
    OBVIOUS
  <2>3. ApplyLocalOperation(p, type, position, text, length)
    BY <1>3, <2>2
  <2>4. type = "insert"
    BY <2>2
  <2>. QED BY <2>1, <2>3, <2>4, LocalOperation
<1>4. ASSUME NEW position \in 0..Len(documents[p].content) - 1, NEW n \in {0, 2},
             position + n <= Len(documents[p].content),
             ApplyLocalOperation(p, "delete", position, <<>>, n)
      PROVE  \E op \in Operation : Made(p, Other(p), op)
  <2>1. position \in Nat /\ position + (IF n = 0 THEN 1 ELSE n) <= Len(documents[p].content)
    BY <1>1, <1>4
  <2>2. PICK type \in {"insert", "delete"}, text \in Seq(Nat) : type = "delete" /\ text = <<>>
    BY <1>2
  <2>3. ApplyLocalOperation(p, type, position, text, n)
    BY <1>4, <2>2
  <2>4. type # "insert"
    BY <2>2
  <2>. QED BY <2>1, <2>3, <2>4, LocalOperation
<1>. QED BY <1>3, <1>4 DEF Edit

LEMMA MadeDocuments ==
  ASSUME IInv, NEW p \in PeerIds, NEW q \in PeerIds, p # q, NEW op \in Operation,
         Made(p, q, op)
  PROVE  /\ documents[p] \in Document /\ documents[q] \in Document
         /\ Edited(documents[p].content, op) \in Seq(Nat)
         /\ documents'[p] = Extended(documents[p], Edited(documents[p].content, op), op)
         /\ documents'[p].version = documents[p].version + 1
         /\ documents'[p].content = Edited(documents[p].content, op)
         /\ documents'[q] = documents[q]
         /\ channel'[p] = channel[p] /\ channel'[q] = Append(channel[q], op)
         /\ ~HasOperation(documents[p], op) /\ ~HasOperation(documents[q], op)
         /\ \A i \in DOMAIN documents[p].operations :
                documents[p].operations[i].version < op.version
<1>1. /\ documents \in [PeerIds -> Document] /\ channel \in [PeerIds -> Seq(Operation \cup {Ack})]
      /\ documents[p] \in Document /\ documents[q] \in Document
  BY DEF IInv, WellTyped
<1>2. Edited(documents[p].content, op) \in Seq(Nat)
  BY <1>1, EditedType, History
<1>3. /\ documents'[p] = Extended(documents[p], Edited(documents[p].content, op), op)
      /\ documents'[q] = documents[q]
      /\ channel'[p] = channel[p] /\ channel'[q] = Append(channel[q], op)
  BY <1>1 DEF Made
<1>4. /\ documents'[p].version = documents[p].version + 1
      /\ documents'[p].content = Edited(documents[p].content, op)
  BY <1>3 DEF Extended
<1>5. \A r \in PeerIds : ~HasOperation(documents[r], op)
  <2>1. ASSUME NEW r \in PeerIds, NEW i \in DOMAIN documents[r].operations
        PROVE  documents[r].operations[i].id # op.id
    <3>1. documents[r].operations[i] \in ToSet(documents[r].operations)
      BY DEF ToSet
    <3>2. documents[r].operations[i] \in Existing
      BY <3>1, ExistingMembers DEF Existing
    <3>3. documents[r].operations[i].id < made
      BY <3>2 DEF IInv, IdsSound
    <3>4. op.id = made /\ made \in Nat
      BY DEF Made, IInv, WellTyped
    <3>. QED BY <3>3, <3>4
  <2>. QED BY <2>1 DEF HasOperation
<1>6. \A i \in DOMAIN documents[p].operations :
          documents[p].operations[i].version < op.version
  BY DEF IInv, HistorySound, Made
<1>. QED BY <1>1, <1>2, <1>3, <1>4, <1>5, <1>6

LEMMA MadeSituation ==
  ASSUME IInv, NEW p \in PeerIds, NEW q \in PeerIds, p # q, NEW op \in Operation,
         Made(p, q, op)
  PROVE  Situations'
<1>1. /\ documents[p] \in Document /\ documents[q] \in Document
      /\ documents'[p] = Extended(documents[p], Edited(documents[p].content, op), op)
      /\ documents'[p].version = documents[p].version + 1
      /\ documents'[p].content = Edited(documents[p].content, op)
      /\ documents'[q] = documents[q]
      /\ channel'[p] = channel[p] /\ channel'[q] = Append(channel[q], op)
  BY MadeDocuments
<1>2. Latest(documents'[p], op)
  <2>1. \A i \in DOMAIN documents[p].operations :
            documents[p].operations[i].version < op.version
    BY MadeDocuments
  <2>. QED BY <1>1, <2>1, ExtendedLatest
<1>3. /\ p \notin outstanding /\ p \in outstanding'
      /\ (q \in outstanding <=> q \in outstanding')
      /\ op.peerId = p /\ op.version = documents[p].version
      /\ Fits(op, documents[p].content) /\ made' = made + 1 /\ clashed' = clashed
  BY DEF Made
<1>4. /\ documents[p].version \in Nat /\ documents[q].version \in Nat /\ made \in Nat
      /\ documents[p].version <= made /\ documents[q].version <= made
      /\ op.version \in Nat
  BY <1>3, VersionsBound DEF IInv, WellTyped
<1>5. CASE Level
  <2>1. /\ channel[p] = <<>> /\ channel[q] = IF q \in outstanding THEN <<Ack>> ELSE <<>>
        /\ documents[p].version = documents[q].version
        /\ clashed \/ documents[p].content = documents[q].content
    BY <1>3, <1>5 DEF Level
  <2>2. channel'[q] = IF q \in outstanding' THEN <<Ack, op>> ELSE <<op>>
    BY <1>1, <1>3, <2>1, Messages
  <2>3. Behind(q, p, op)'
    BY <1>1, <1>2, <1>3, <1>4, <2>1, <2>2 DEF Behind
  <2>. QED BY <2>3 DEF Situations
<1>6. ASSUME NEW b \in Operation, Behind(p, q, b) PROVE Situations'
  <2>1. /\ channel[p] = <<b>> /\ channel[q] = <<>> /\ q \in outstanding
        /\ documents[p].version = b.version /\ documents[q].version = b.version + 1
        /\ b.peerId = q /\ Latest(documents[q], b)
        /\ clashed \/ /\ Fits(b, documents[p].content)
                      /\ documents[q].content = Edited(documents[p].content, b)
    BY <1>3, <1>6 DEF Behind
  <2>2. channel'[p] = <<b>> /\ channel'[q] = <<op>>
    BY <1>1, <2>1, Messages
  <2>3. Parallel(p, q, op, b)'
    BY <1>1, <1>2, <1>3, <1>4, <2>1 DEF Parallel
  <2>4. documents[p].content \in Seq(Nat)
    BY <1>1, History
  <2>5. \/ clashed'
        \/ \E text \in Seq(Nat) :
               /\ Fits(op, text) /\ documents'[p].content = Edited(text, op)
               /\ Fits(b, text) /\ documents'[q].content = Edited(text, b)
    BY <1>1, <1>3, <2>1, <2>4
  <2>6. Crossing(p, q, op, b)'
    BY <1>1, <2>1, <2>2, <2>3, <2>5 DEF Crossing
  <2>. QED BY <2>6 DEF Situations
<1>7. ASSUME NEW b \in Operation, Behind(q, p, b) PROVE FALSE
  BY <1>3, <1>7 DEF Behind
<1>8. ASSUME NEW a \in Operation, NEW b \in Operation,
             Crossing(p, q, a, b) \/ Crossed(p, q, a, b) \/ Crossed(q, p, a, b)
      PROVE  FALSE
  BY <1>3, <1>8 DEF Crossing, Crossed, Parallel
<1>. QED BY <1>5, <1>6, <1>7, <1>8, SituationOf DEF IInv

LEMMA MadeTyped ==
  ASSUME IInv, NEW p \in PeerIds, NEW q \in PeerIds, p # q, NEW op \in Operation,
         Made(p, q, op)
  PROVE  WellTyped' /\ HistorySound'
<1> DEFINE new == Extended(documents[p], Edited(documents[p].content, op), op)
<1>1. /\ documents[p] \in Document /\ documents[q] \in Document
      /\ Edited(documents[p].content, op) \in Seq(Nat) /\ ~HasOperation(documents[p], op)
      /\ \A i \in DOMAIN documents[p].operations :
             documents[p].operations[i].version < op.version
      /\ documents'[p] = new
  BY MadeDocuments
<1>2. SoundHistory(documents[p]) /\ SoundHistory(documents[q])
  BY DEF IInv, HistorySound, SoundHistory
<1>3. op.version = documents[p].version /\ documents[p].version \in Nat
  BY <1>1, History DEF Made
<1>4. \A i \in DOMAIN documents[p].operations :
          documents[p].operations[i].version <= op.version
  BY <1>1, <1>3, History
<1>5. op.version <= documents[p].version
  BY <1>3
<1>6. new \in Document /\ SoundHistory(new)
  BY <1>1, <1>2, <1>4, <1>5, ExtendedHistory
<1>. HIDE DEF new
<1>7. documents' = [documents EXCEPT ![p] = new]
  BY DEF Made, new
<1>8. WellTyped'
  <2>1. documents' \in [PeerIds -> Document]
    BY <1>6, <1>7 DEF IInv, WellTyped
  <2>2. channel' \in [PeerIds -> Seq(Operation \cup {Ack})]
    <3>1. channel \in [PeerIds -> Seq(Operation \cup {Ack})]
      BY DEF IInv, WellTyped
    <3>2. channel[q] \in Seq(Operation \cup {Ack}) /\ op \in Operation \cup {Ack}
      BY <3>1
    <3>3. Append(channel[q], op) \in Seq(Operation \cup {Ack})
      BY <3>2, AppendProperties
    <3>. QED BY <3>1, <3>3 DEF Made
  <2>3. outstanding' \in SUBSET PeerIds /\ clashed' \in BOOLEAN
    BY DEF IInv, WellTyped, Made
  <2>4. made' \in 0..MaxOps
    BY MaxOpsIsNat DEF IInv, WellTyped, Made
  <2>. QED BY <2>1, <2>2, <2>3, <2>4 DEF WellTyped
<1>9. \A r \in PeerIds : SoundHistory(documents'[r])
  BY <1>2, <1>6, <1>7, Peers DEF IInv, WellTyped
<1>10. HistorySound'
  BY <1>9 DEF HistorySound, SoundHistory
<1>. QED BY <1>8, <1>10

LEMMA MadeIds ==
  ASSUME IInv, NEW p \in PeerIds, NEW q \in PeerIds, p # q, NEW op \in Operation,
         Made(p, q, op)
  PROVE  IdsSound'
<1>1. /\ documents[p] \in Document /\ documents[q] \in Document
      /\ Edited(documents[p].content, op) \in Seq(Nat)
      /\ documents'[p] = Extended(documents[p], Edited(documents[p].content, op), op)
      /\ documents'[q] = documents[q]
      /\ channel'[p] = channel[p] /\ channel'[q] = Append(channel[q], op)
      /\ ~HasOperation(documents[p], op) /\ ~HasOperation(documents[q], op)
      /\ \A i \in DOMAIN documents[p].operations :
             documents[p].operations[i].version < op.version
  BY MadeDocuments
<1>2. /\ \A o : o \in ToSet(documents'[p].operations) <=>
                    o \in ToSet(documents[p].operations) \/ o = op
      /\ \A o : HasOperation(documents'[p], o) <=>
                    HasOperation(documents[p], o) \/ o.id = op.id
  <2>1. SoundHistory(documents[p])
    BY DEF IInv, HistorySound, SoundHistory
  <2>2. op.version <= documents[p].version
    BY <1>1, History DEF Made
  <2>3. \A i \in DOMAIN documents[p].operations :
            documents[p].operations[i].version <= op.version
    <3>1. op.version \in Nat
      BY MaxOpsIsNat DEF Operation
    <3>. QED BY <1>1, <3>1, History
  <2>4. PICK text \in Seq(Nat) : documents'[p] = Extended(documents[p], text, op)
    BY <1>1
  <2>5. /\ \A o : o \in ToSet(Extended(documents[p], text, op).operations) <=>
                      o \in ToSet(documents[p].operations) \/ o = op
        /\ \A o : HasOperation(Extended(documents[p], text, op), o) <=>
                      HasOperation(documents[p], o) \/ o.id = op.id
    BY <1>1, <2>1, <2>2, <2>3, ExtendedHistory
  <2>. QED BY <2>4, <2>5
<1>3. \A o : o \in ToSet(channel'[q]) <=> o \in ToSet(channel[q]) \/ o = op
  <2>1. channel[q] \in Seq(Operation \cup {Ack})
    BY DEF IInv, WellTyped
  <2>. QED BY <1>1, <2>1, AppendedSet
<1>4. ASSUME NEW o PROVE o \in Existing' => o \in Existing \/ o = op
  <2>1. o \in Existing' <=>
            \E r \in PeerIds : \/ o \in ToSet(documents'[r].operations)
                               \/ o \in ToSet(channel'[r]) /\ o # Ack
    BY ExistingMembers DEF Existing
  <2>2. o \in Existing <=>
            \E r \in PeerIds : \/ o \in ToSet(documents[r].operations)
                               \/ o \in ToSet(channel[r]) /\ o # Ack
    BY ExistingMembers DEF Existing
  <2>3. \A r \in PeerIds : r = p \/ r = q
    BY Peers
  <2>. QED BY <1>1, <1>2, <1>3, <2>1, <2>2, <2>3
<1>5. /\ op.id = made /\ made' = made + 1 /\ made \in Nat
      /\ \A o \in Existing : o.id < made
      /\ \A o, r \in Existing : o.id = r.id => o.version = r.version
      /\ OnlyNewSent(documents, channel)
  BY DEF Made, IInv, IdsSound, WellTyped
<1>6. \A o \in Existing : o.id # op.id /\ o.id < made'
  <2>1. ASSUME NEW o \in Existing PROVE o.id \in Nat
    <3>1. o \in Operation
      BY <2>1, ExistingTyped DEF IInv
    <3>. QED BY <3>1, MaxOpsIsNat DEF Operation
  <2>. QED BY <1>5, <2>1
<1>7. \A o \in Existing' : o.id < made'
  BY <1>4, <1>5, <1>6
<1>8. \A o, r \in Existing' : o.id = r.id => o.version = r.version
  BY <1>4, <1>5, <1>6
<1>9. ASSUME NEW r \in PeerIds, NEW o \in ToSet(channel'[r]), o # Ack
      PROVE  ~HasOperation(documents'[r], o)
  <2>1. \A s \in PeerIds : \A x \in ToSet(channel[s]) :
            x # Ack => x \in Existing /\ ~HasOperation(documents[s], x)
    BY <1>5, ExistingMembers DEF OnlyNewSent, Existing
  <2>2. CASE r = p
    BY <1>1, <1>2, <1>6, <1>9, <2>1, <2>2
  <2>3. CASE r = q
    BY <1>1, <1>3, <1>9, <2>1, <2>3
  <2>. QED BY <2>2, <2>3, Peers
<1>10. OnlyNewSent(documents', channel')
  BY <1>9 DEF OnlyNewSent
<1>. QED BY <1>7, <1>8, <1>10 DEF IdsSound

----------------------------------------------------------------------------
(* Integrating an operation *)

\* What applyRemoteOperation does with an operation that becomes t
Taken(p, q, op, t) ==
    /\ op \in ToSet(channel[p]) /\ channel[p] # <<>> /\ op # Ack
    /\ ~HasOperation(documents[p], op)
    /\ t.id = op.id /\ t.version = op.version
    /\ op.version <= documents[p].version
    /\ \A i \in DOMAIN documents[p].operations :
           documents[p].operations[i].version <= op.version
    /\ \A o \in ToSet(Tail(channel[p])) : o = Ack
    /\ documents' = [documents EXCEPT ![p] =
           Extended(documents[p], Edited(documents[p].content, t), t)]
    /\ channel' = [channel EXCEPT ![p] = Tail(channel[p]), ![q] = Append(channel[q], Ack)]
    /\ outstanding' = outstanding /\ made' = made
    /\ clashed' \in BOOLEAN

LEMMA RemoteOperation ==
  ASSUME IInv, NEW p \in PeerIds, NEW q \in PeerIds, p # q, ApplyRemoteOperation(p),
         NEW op, op = Head(channel[p])
  PROVE  /\ op \in Operation /\ op # Ack /\ op \in ToSet(channel[p]) /\ channel[p] # <<>>
         /\ ~HasOperation(documents[p], op)
         /\ documents[p] \in Document /\ documents[q] \in Document
         /\ documents' = [documents EXCEPT ![p] = Integrated(documents[p], op)]
         /\ documents'[p] = Integrated(documents[p], op) /\ documents'[q] = documents[q]
         /\ channel' = [channel EXCEPT ![p] = Tail(channel[p]), ![q] = Append(channel[q], Ack)]
         /\ channel'[p] = Tail(channel[p]) /\ channel'[q] = Append(channel[q], Ack)
         /\ outstanding' = outstanding /\ made' = made
         /\ clashed' = (clashed \/ Clash(Concurrent(documents[p], op), op))
<1>1. /\ documents \in [PeerIds -> Document] /\ channel \in [PeerIds -> Seq(Operation \cup {Ack})]
      /\ documents[p] \in Document /\ documents[q] \in Document
      /\ channel[p] \in Seq(Operation \cup {Ack})
  BY DEF IInv, WellTyped
<1>2. channel[p] # <<>> /\ op # Ack
  BY DEF ApplyRemoteOperation
<1>3. op \in Operation \cup {Ack} /\ op \in ToSet(channel[p])
  <2>1. Len(channel[p]) \in Nat /\ Len(channel[p]) > 0 /\ DOMAIN channel[p] = 1..Len(channel[p])
    BY <1>1, <1>2, EmptySeq
  <2>2. op = channel[p][1] /\ 1 \in DOMAIN channel[p]
    BY <1>1, <1>2, <2>1
  <2>3. op \in ToSet(channel[p])
    BY <2>2 DEF ToSet
  <2>. QED BY <1>1, <2>1, <2>2, <2>3, ElementOfSeq
<1>4. ~HasOperation(documents[p], op)
  BY <1>2, <1>3 DEF IInv, IdsSound, OnlyNewSent
<1>5. Applied(documents[p], op) = Integrated(documents[p], op)
  BY <1>4 DEF Applied
<1>6. documents' = [documents EXCEPT ![p] = Integrated(documents[p], op)]
  BY <1>5 DEF ApplyRemoteOperation
<1>7. channel' = [channel EXCEPT ![p] = Tail(channel[p]), ![q] = Append(channel[q], Ack)]
  <2>1. Other(p) = q
    BY Peers
  <2>. QED BY <1>1, <2>1 DEF ApplyRemoteOperation
<1>8. /\ outstanding' = outstanding /\ made' = made
      /\ clashed' = (clashed \/ Clash(Concurrent(documents[p], op), op))
  BY DEF ApplyRemoteOperation
<1>9. /\ documents'[p] = Integrated(documents[p], op) /\ documents'[q] = documents[q]
      /\ channel'[p] = Tail(channel[p]) /\ channel'[q] = Append(channel[q], Ack)
  BY <1>1, <1>6, <1>7
<1>. QED BY <1>1, <1>2, <1>3, <1>4, <1>6, <1>7, <1>8, <1>9

LEMMA RemoteBehind ==
  ASSUME IInv, NEW p \in PeerIds, NEW q \in PeerIds, p # q, ApplyRemoteOperation(p),
         NEW op \in Operation, Behind(p, q, op)
  PROVE  Taken(p, q, op, op) /\ Situations'
<1>1. channel[p] = <<op>> /\ p \notin outstanding
  <2>1. channel[p] # <<>> /\ Head(channel[p]) # Ack
    BY DEF ApplyRemoteOperation
  <2>. QED BY <2>1, Messages DEF Behind
<1>2. op = Head(channel[p]) /\ Tail(channel[p]) = <<>>
  BY <1>1, Messages
<1>3. /\ op # Ack /\ op \in ToSet(channel[p]) /\ channel[p] # <<>>
      /\ ~HasOperation(documents[p], op)
      /\ documents[p] \in Document /\ documents[q] \in Document
      /\ documents' = [documents EXCEPT ![p] = Integrated(documents[p], op)]
      /\ documents'[p] = Integrated(documents[p], op) /\ documents'[q] = documents[q]
      /\ channel' = [channel EXCEPT ![p] = Tail(channel[p]), ![q] = Append(channel[q], Ack)]
      /\ channel'[p] = Tail(channel[p]) /\ channel'[q] = Append(channel[q], Ack)
      /\ outstanding' = outstanding /\ made' = made
      /\ clashed' = (clashed \/ Clash(Concurrent(documents[p], op), op))
  BY <1>2, RemoteOperation
<1>4. /\ channel[q] = <<>> /\ q \in outstanding
      /\ documents[p].version = op.version /\ documents[q].version = op.version + 1
      /\ documents[q].version <= made
      /\ clashed \/ documents[q].content = Edited(documents[p].content, op)
  BY DEF Behind
<1>5. \A i \in DOMAIN documents[p].operations :
          documents[p].operations[i].version < op.version
  BY <1>4 DEF IInv, HistorySound
<1>6. /\ TransformedOver(Concurrent(documents[p], op), op) = op
      /\ ~Clash(Concurrent(documents[p], op), op)
  BY <1>3, <1>5, MeetsNone
<1>7. Integrated(documents[p], op) =
          Extended(documents[p], Edited(documents[p].content, op), op)
  BY <1>3, <1>6, IntegratedExtends
<1>8. op.version \in Nat
  BY MaxOpsIsNat DEF Operation
<1>9. Taken(p, q, op, op)
  <2>1. \A i \in DOMAIN documents[p].operations :
            documents[p].operations[i].version <= op.version
    BY <1>3, <1>5, <1>8, History
  <2>2. op.version <= documents[p].version
    BY <1>4, <1>8
  <2>3. clashed' \in BOOLEAN
    BY <1>3
  <2>4. \A o \in ToSet(Tail(channel[p])) : o = Ack
    BY <1>2, Messages
  <2>. QED BY <1>3, <1>7, <2>1, <2>2, <2>3, <2>4 DEF Taken
<1>10. /\ documents'[p].version = op.version + 1
       /\ documents'[p].content = Edited(documents[p].content, op)
  BY <1>3, <1>4, <1>7 DEF Extended
<1>11. channel'[p] = <<>> /\ channel'[q] = <<Ack>>
  BY <1>2, <1>3, <1>4, Messages
<1>12. clashed' <=> clashed
  BY <1>3, <1>6
<1>13. Level'
  <2>1. /\ channel'[p] = IF p \in outstanding' THEN <<Ack>> ELSE <<>>
        /\ channel'[q] = IF q \in outstanding' THEN <<Ack>> ELSE <<>>
    BY <1>1, <1>3, <1>4, <1>11
  <2>2. documents'[p].version <= made' /\ documents'[q].version <= made'
    BY <1>3, <1>4, <1>10
  <2>3. /\ documents'[p].version = documents'[q].version
        /\ clashed' \/ documents'[p].content = documents'[q].content
    BY <1>3, <1>4, <1>10, <1>12
  <2>4. \A r \in PeerIds : r = p \/ r = q
    BY Peers
  <2>. QED BY <2>1, <2>2, <2>3, <2>4 DEF Level
<1>. QED BY <1>9, <1>13 DEF Situations

\* The operation b of the other peer meets a, the last of the history.
LEMMA RemoteMeetsOne ==
  ASSUME IInv, NEW p \in PeerIds, NEW q \in PeerIds, p # q, ApplyRemoteOperation(p),
         NEW a \in Operation, NEW b \in Operation, Parallel(p, q, a, b),
         b = Head(channel[p]), \A o \in ToSet(Tail(channel[p])) : o = Ack
  PROVE  /\ Taken(p, q, b, Transformed(b, a))
         /\ documents[p] \in Document /\ documents[q] \in Document
         /\ documents'[p].version = a.version + 2
         /\ documents'[p].content = Edited(documents[p].content, Transformed(b, a))
         /\ documents'[q] = documents[q]
         /\ channel'[p] = Tail(channel[p]) /\ channel'[q] = Append(channel[q], Ack)
         /\ outstanding' = outstanding /\ made' = made
         /\ clashed' <=> clashed \/ Inside(a, b) \/ Inside(b, a)
<1>1. /\ b # Ack /\ b \in ToSet(channel[p]) /\ channel[p] # <<>>
      /\ ~HasOperation(documents[p], b)
      /\ documents[p] \in Document /\ documents[q] \in Document
      /\ documents' = [documents EXCEPT ![p] = Integrated(documents[p], b)]
      /\ documents'[p] = Integrated(documents[p], b) /\ documents'[q] = documents[q]
      /\ channel' = [channel EXCEPT ![p] = Tail(channel[p]), ![q] = Append(channel[q], Ack)]
      /\ channel'[p] = Tail(channel[p]) /\ channel'[q] = Append(channel[q], Ack)
      /\ outstanding' = outstanding /\ made' = made
      /\ clashed' = (clashed \/ Clash(Concurrent(documents[p], b), b))
  BY RemoteOperation
<1>2. /\ a.version = b.version /\ documents[p].version = a.version + 1
      /\ Latest(documents[p], a)
  BY DEF Parallel
<1>3. /\ TransformedOver(Concurrent(documents[p], b), b) = Transformed(b, a)
      /\ Clash(Concurrent(documents[p], b), b) <=> Inside(a, b) \/ Inside(b, a)
  BY <1>1, <1>2, MeetsLatest
<1>4. /\ Transformed(b, a) \in Operation /\ Transformed(b, a).id = b.id
      /\ Transformed(b, a).version = b.version
  BY TransformedKeeps
<1>5. PICK t \in Operation : t = Transformed(b, a)
  BY <1>4
<1>6. Integrated(documents[p], b) = Extended(documents[p], Edited(documents[p].content, t), t)
  BY <1>1, <1>3, <1>5, IntegratedExtends
<1>7. a.version \in Nat /\ b.version \in Nat
  BY MaxOpsIsNat DEF Operation
<1>8. \A i \in DOMAIN documents[p].operations :
          documents[p].operations[i].version <= b.version
  <2>1. ASSUME NEW i \in DOMAIN documents[p].operations
        PROVE  documents[p].operations[i].version <= b.version
    <3>1. documents[p].operations[i].version \in Nat
      BY <1>1, History
    <3>2. CASE i = Len(documents[p].operations)
      BY <1>2, <1>7, <3>2 DEF Latest
    <3>3. CASE i # Len(documents[p].operations)
      BY <1>2, <1>7, <3>1, <3>3 DEF Latest
    <3>. QED BY <3>2, <3>3
  <2>. QED BY <2>1
<1>9. Taken(p, q, b, t)
  <2>1. b.version <= documents[p].version
    BY <1>2, <1>7
  <2>2. clashed' \in BOOLEAN
    BY <1>1
  <2>. QED BY <1>1, <1>4, <1>5, <1>6, <1>8, <2>1, <2>2 DEF Taken
<1>10. /\ documents'[p].version = a.version + 2
       /\ documents'[p].content = Edited(documents[p].content, t)
  <2>1. documents'[p].version = documents[p].version + 1
    BY <1>1, <1>6 DEF Extended
  <2>2. documents'[p].content = Edited(documents[p].content, t)
    BY <1>1, <1>6 DEF Extended
  <2>. QED BY <1>2, <1>7, <2>1, <2>2
<1>11. clashed' <=> clashed \/ Inside(a, b) \/ Inside(b, a)
  BY <1>1, <1>3
<1>. QED BY <1>1, <1>5, <1>9, <1>10, <1>11

LEMMA RemoteCrossing ==
  ASSUME IInv, NEW p \in PeerIds, NEW q \in PeerIds, p # q, ApplyRemoteOperation(p),
         NEW a \in Operation, NEW b \in Operation, Crossing(p, q, a, b)
  PROVE  Taken(p, q, b, Transformed(b, a)) /\ Situations'
<1>1. /\ channel[p] = <<b>> /\ channel[q] = <<a>> /\ Parallel(p, q, a, b)
      /\ documents[q].version = b.version + 1 /\ Latest(documents[q], b)
      /\ clashed \/ \E text \in Seq(Nat) :
                        /\ Fits(a, text) /\ documents[p].content = Edited(text, a)
                        /\ Fits(b, text) /\ documents[q].content = Edited(text, b)
  BY DEF Crossing
<1>2. b = Head(channel[p]) /\ Tail(channel[p]) = <<>>
  BY <1>1, Messages
<1>3. \A o \in ToSet(Tail(channel[p])) : o = Ack
  BY <1>2, Messages
<1>4. /\ Taken(p, q, b, Transformed(b, a))
      /\ documents'[p].version = a.version + 2
      /\ documents'[p].content = Edited(documents[p].content, Transformed(b, a))
      /\ documents'[q] = documents[q]
      /\ channel'[p] = Tail(channel[p]) /\ channel'[q] = Append(channel[q], Ack)
      /\ outstanding' = outstanding /\ made' = made
      /\ clashed' <=> clashed \/ Inside(a, b) \/ Inside(b, a)
  BY <1>1, <1>2, <1>3, RemoteMeetsOne
<1>5. channel'[q] = <<a, Ack>> /\ channel'[p] = <<>>
  <2>1. Append(<<a>>, Ack) = <<a, Ack>>
    BY Messages
  <2>. QED BY <1>1, <1>2, <1>4, <2>1
<1>6. Parallel(q, p, b, a)'
  BY <1>1, <1>4 DEF Parallel
<1>7. \/ clashed'
      \/ \E text \in Seq(Nat) :
             /\ Fits(b, text) /\ documents'[q].content = Edited(text, b)
             /\ Fits(a, text)
             /\ documents'[p].content = Edited(Edited(text, a), Transformed(b, a))
  BY <1>1, <1>4
<1>8. Crossed(q, p, b, a)'
  BY <1>4, <1>5, <1>6, <1>7 DEF Crossed
<1>. QED BY <1>4, <1>8 DEF Situations

LEMMA RemoteCrossed ==
  ASSUME IInv, NEW p \in PeerIds, NEW q \in PeerIds, p # q, ApplyRemoteOperation(p),
         NEW a \in Operation, NEW b \in Operation, Crossed(p, q, a, b)
  PROVE  Taken(p, q, b, Transformed(b, a)) /\ Situations'
<1>1. /\ channel[p] = <<b, Ack>> /\ channel[q] = <<>> /\ Parallel(p, q, a, b)
      /\ documents[q].version = b.version + 2
      /\ clashed \/ \E text \in Seq(Nat) :
                        /\ Fits(a, text) /\ documents[p].content = Edited(text, a)
                        /\ Fits(b, text)
                        /\ documents[q].content = Edited(Edited(text, b), Transformed(a, b))
  BY DEF Crossed
<1>2. b = Head(channel[p]) /\ Tail(channel[p]) = <<Ack>>
  BY <1>1, Messages
<1>3. \A o \in ToSet(Tail(channel[p])) : o = Ack
  BY <1>2, Messages
<1>4. /\ Taken(p, q, b, Transformed(b, a))
      /\ documents'[p].version = a.version + 2
      /\ documents'[p].content = Edited(documents[p].content, Transformed(b, a))
      /\ documents'[q] = documents[q]
      /\ channel'[p] = Tail(channel[p]) /\ channel'[q] = Append(channel[q], Ack)
      /\ outstanding' = outstanding /\ made' = made
      /\ clashed' <=> clashed \/ Inside(a, b) \/ Inside(b, a)
  BY <1>1, <1>2, <1>3, RemoteMeetsOne
<1>5. channel'[q] = <<Ack>> /\ channel'[p] = <<Ack>>
  BY <1>1, <1>2, <1>4, Messages
<1>6. /\ a.version = b.version /\ a.version + 2 <= made
      /\ p \in outstanding' /\ q \in outstanding'
      /\ a.peerId = p /\ b.peerId = q
  BY <1>1, <1>4 DEF Parallel
<1>7. clashed' \/ documents'[p].content = documents'[q].content
  <2>1. ASSUME ~clashed' PROVE documents'[p].content = documents'[q].content
    <3>1. ~clashed /\ ~Inside(a, b) /\ ~Inside(b, a)
      BY <1>4, <2>1
    <3>2. PICK text \in Seq(Nat) :
              /\ Fits(a, text) /\ documents[p].content = Edited(text, a)
              /\ Fits(b, text)
              /\ documents[q].content = Edited(Edited(text, b), Transformed(a, b))
      BY <1>1, <3>1
    <3>3. Diamond(text, a, b)
      BY <1>6, <3>1, <3>2, TransformationConverges
    <3>. QED BY <1>4, <3>2, <3>3 DEF Diamond
  <2>. QED BY <2>1
<1>8. Level'
  <2>1. \A r \in PeerIds : r = p \/ r = q
    BY Peers
  <2>. QED BY <1>1, <1>4, <1>5, <1>6, <1>7, <2>1 DEF Level
<1>. QED BY <1>4, <1>8 DEF Situations

LEMMA RemoteSituation ==
  ASSUME IInv, NEW p \in PeerIds, NEW q \in PeerIds, p # q, ApplyRemoteOperation(p)
  PROVE  Situations' /\ \E op, t \in Operation : Taken(p, q, op, t)
<1>1. channel[p] # <<>> /\ Head(channel[p]) # Ack
  BY DEF ApplyRemoteOperation
<1>2. CASE Level
  BY <1>1, <1>2, Messages DEF Level
<1>3. ASSUME NEW op \in Operation, Behind(p, q, op)
      PROVE  Situations' /\ \E o, t \in Operation : Taken(p, q, o, t)
  BY <1>3, RemoteBehind
<1>4. ASSUME NEW op \in Operation, Behind(q, p, op) PROVE FALSE
  BY <1>1, <1>4 DEF Behind
<1>5. ASSUME NEW a \in Operation, NEW b \in Operation,
             Crossing(p, q, a, b) \/ Crossed(p, q, a, b)
      PROVE  Situations' /\ \E o, t \in Operation : Taken(p, q, o, t)
  <2>1. Transformed(b, a) \in Operation
    BY TransformedKeeps
  <2>2. Taken(p, q, b, Transformed(b, a)) /\ Situations'
    BY <1>5, RemoteCrossing, RemoteCrossed
  <2>. QED BY <2>1, <2>2
<1>6. ASSUME NEW a \in Operation, NEW b \in Operation, Crossed(q, p, a, b) PROVE FALSE
  BY <1>1, <1>6 DEF Crossed
<1>. QED BY <1>2, <1>3, <1>4, <1>5, <1>6, SituationOf DEF IInv

LEMMA TakenTyped ==
  ASSUME IInv, NEW p \in PeerIds, NEW q \in PeerIds, p # q,
         NEW op \in Operation, NEW t \in Operation, Taken(p, q, op, t)
  PROVE  /\ WellTyped' /\ HistorySound'
         /\ documents'[q] = documents[q]
         /\ \A o : o \in ToSet(documents'[p].operations) <=>
                       o \in ToSet(documents[p].operations) \/ o = t
         /\ \A o : HasOperation(documents'[p], o) <=>
                       HasOperation(documents[p], o) \/ o.id = t.id
<1>1. /\ documents \in [PeerIds -> Document] /\ channel \in [PeerIds -> Seq(Operation \cup {Ack})]
      /\ documents[p] \in Document /\ documents[q] \in Document
  BY DEF IInv, WellTyped
<1>2. PICK text \in Seq(Nat) : text = Edited(documents[p].content, t)
  BY <1>1, EditedType, History
<1>3. documents' = [documents EXCEPT ![p] = Extended(documents[p], text, t)]
  BY <1>2 DEF Taken
<1>4. /\ ~HasOperation(documents[p], t)
      /\ t.version <= documents[p].version
      /\ \A i \in DOMAIN documents[p].operations :
             documents[p].operations[i].version <= t.version
  BY DEF Taken, HasOperation
<1>5. \A r \in PeerIds : SoundHistory(documents[r])
  BY DEF IInv, HistorySound, SoundHistory
<1>6. /\ Extended(documents[p], text, t) \in Document
      /\ SoundHistory(Extended(documents[p], text, t))
      /\ \A o : o \in ToSet(Extended(documents[p], text, t).operations) <=>
                    o \in ToSet(documents[p].operations) \/ o = t
      /\ \A o : HasOperation(Extended(documents[p], text, t), o) <=>
                    HasOperation(documents[p], o) \/ o.id = t.id
  BY <1>1, <1>4, <1>5, ExtendedHistory
<1>7. PICK new \in Document : new = Extended(documents[p], text, t)
  BY <1>6
<1>8. documents' = [documents EXCEPT ![p] = new] /\ SoundHistory(new)
  BY <1>3, <1>6, <1>7
<1>9. documents'[p] = new /\ \A r \in PeerIds : r # p => documents'[r] = documents[r]
  BY <1>1, <1>8
<1>10. WellTyped'
  <2>1. documents' \in [PeerIds -> Document]
    BY <1>1, <1>8
  <2>2. channel' \in [PeerIds -> Seq(Operation \cup {Ack})]
    <3>1. channel[p] \in Seq(Operation \cup {Ack}) /\ channel[q] \in Seq(Operation \cup {Ack})
      BY <1>1
    <3>2. Tail(channel[p]) \in Seq(Operation \cup {Ack})
      BY <3>1, HeadTailProperties DEF Taken
    <3>3. Ack \in Operation \cup {Ack}
      OBVIOUS
    <3>4. Append(channel[q], Ack) \in Seq(Operation \cup {Ack})
      BY <3>1, <3>3, AppendProperties
    <3>. QED BY <1>1, <3>2, <3>4 DEF Taken
  <2>. QED BY <2>1, <2>2 DEF IInv, WellTyped, Taken
<1>11. \A r \in PeerIds : SoundHistory(documents'[r])
  BY <1>5, <1>8, <1>9
<1>12. HistorySound'
  BY <1>11 DEF HistorySound, SoundHistory
<1>. QED BY <1>6, <1>7, <1>9, <1>10, <1>12

LEMMA TakenIds ==
  ASSUME IInv, NEW p \in PeerIds, NEW q \in PeerIds, p # q,
         NEW op \in Operation, NEW t \in Operation, Taken(p, q, op, t)
  PROVE  IdsSound'
<1>1. /\ documents'[q] = documents[q]
      /\ \A o : o \in ToSet(documents'[p].operations) <=>
                    o \in ToSet(documents[p].operations) \/ o = t
      /\ \A o : HasOperation(documents'[p], o) <=>
                    HasOperation(documents[p], o) \/ o.id = t.id
  BY TakenTyped
<1>2. /\ channel \in [PeerIds -> Seq(Operation \cup {Ack})]
      /\ channel[p] \in Seq(Operation \cup {Ack}) /\ channel[q] \in Seq(Operation \cup {Ack})
  BY DEF IInv, WellTyped
<1>3. channel'[p] = Tail(channel[p]) /\ channel'[q] = Append(channel[q], Ack)
  BY <1>2 DEF Taken
<1>4. \A o \in ToSet(channel'[p]) : o = Ack
  BY <1>3 DEF Taken
<1>5. \A o : o \in ToSet(channel'[q]) <=> o \in ToSet(channel[q]) \/ o = Ack
  <2>1. Ack \in Operation \cup {Ack}
    OBVIOUS
  <2>. QED BY <1>2, <1>3, <2>1, AppendedSet
<1>6. /\ op \in Existing /\ t.id = op.id /\ t.version = op.version
  BY ExistingMembers DEF Taken, Existing
<1>7. ASSUME NEW o \in Existing'
      PROVE  \E r \in Existing : r.id = o.id /\ r.version = o.version
  <2>1. PICK r \in PeerIds : \/ o \in ToSet(documents'[r].operations)
                             \/ o \in ToSet(channel'[r]) /\ o # Ack
    BY <1>7, ExistingMembers DEF Existing
  <2>2. \/ o = t
        \/ \E s \in PeerIds : \/ o \in ToSet(documents[s].operations)
                              \/ o \in ToSet(channel[s]) /\ o # Ack
    BY <1>1, <1>4, <1>5, <2>1, Peers
  <2>3. o = t \/ o \in Existing
    BY <2>2, ExistingMembers DEF Existing
  <2>. QED BY <1>6, <2>3
<1>8. made' = made
  BY DEF Taken
<1>9. /\ \A o \in Existing' : o.id < made'
      /\ \A o, r \in Existing' : o.id = r.id => o.version = r.version
  <2>1. \A o \in Existing' : o.id < made'
    BY <1>7, <1>8 DEF IInv, IdsSound
  <2>2. ASSUME NEW o \in Existing', NEW r \in Existing', o.id = r.id PROVE o.version = r.version
    <3>1. PICK x \in Existing : x.id = o.id /\ x.version = o.version
      BY <1>7
    <3>2. PICK y \in Existing : y.id = r.id /\ y.version = r.version
      BY <1>7
    <3>. QED BY <2>2, <3>1, <3>2 DEF IInv, IdsSound
  <2>. QED BY <2>1, <2>2
<1>10. ASSUME NEW r \in PeerIds, NEW o \in ToSet(channel'[r]), o # Ack
       PROVE  ~HasOperation(documents'[r], o)
  <2>1. r = q
    BY <1>4, <1>10, Peers
  <2>2. o \in ToSet(channel[q])
    BY <1>5, <1>10, <2>1
  <2>. QED BY <1>1, <1>10, <2>1, <2>2 DEF IInv, IdsSound, OnlyNewSent
<1>11. OnlyNewSent(documents', channel')
  BY <1>10 DEF OnlyNewSent
<1>. QED BY <1>9, <1>11 DEF IdsSound

----------------------------------------------------------------------------
(* The invariant *)

LEMMA Initially == Init => IInv
<1>. SUFFICES ASSUME Init PROVE IInv
  OBVIOUS
<1> DEFINE first == [version |-> 0, content |-> InitialContent, operations |-> <<>>]
<1>1. first \in Document
  <2>1. <<>> \in Seq(Operation)
    OBVIOUS
  <2>. QED BY <2>1, ContentIsText DEF Document
<1>2. \A p \in PeerIds : documents[p] = first /\ channel[p] = <<>>
  BY DEF Init
<1>3. first.version = 0 /\ first.operations = <<>> /\ first.content = InitialContent
  OBVIOUS
<1>4. WellTyped
  <2>1. documents \in [PeerIds -> Document]
    BY <1>1 DEF Init
  <2>2. channel \in [PeerIds -> Seq(Operation \cup {Ack})]
    BY DEF Init
  <2>3. outstanding = {} /\ made = 0 /\ clashed = FALSE
    BY DEF Init
  <2>4. made \in 0..MaxOps
    BY <2>3, MaxOpsIsNat
  <2>. QED BY <2>1, <2>2, <2>3, <2>4 DEF WellTyped
<1>. HIDE DEF first
<1>5. HistorySound
  BY <1>2, <1>3 DEF HistorySound
<1>6. \A o : o \notin Existing
  <2>1. ToSet(<<>>) = {}
    BY Messages
  <2>2. \A o : o \in Existing <=>
            \E p \in PeerIds : \/ o \in ToSet(documents[p].operations)
                               \/ o \in ToSet(channel[p]) /\ o # Ack
    BY ExistingMembers DEF Existing
  <2>. QED BY <1>2, <1>3, <2>1, <2>2
<1>7. OnlyNewSent(documents, channel)
  BY <1>2, Messages DEF OnlyNewSent
<1>8. IdsSound
  BY <1>6, <1>7 DEF IdsSound
<1>9. Level
  <2>1. outstanding = {} /\ made = 0
    BY DEF Init
  <2>. QED BY <1>2, <1>3, <2>1 DEF Level
<1>. QED BY <1>4, <1>5, <1>8, <1>9 DEF IInv, Situations

LEMMA EditStep ==
  ASSUME IInv, NEW p \in PeerIds, Edit(p)
  PROVE  IInv'
<1>1. PICK op \in Operation : Made(p, Other(p), op)
  BY EditMakes
<1>2. Other(p) \in PeerIds /\ p # Other(p)
  BY Peers
<1>. QED BY <1>1, <1>2, MadeTyped, MadeIds, MadeSituation DEF IInv

LEMMA ApplyRemoteOperationStep ==
  ASSUME IInv, NEW p \in PeerIds, ApplyRemoteOperation(p)
  PROVE  IInv'
<1>1. Other(p) \in PeerIds /\ p # Other(p)
  BY Peers
<1>2. Situations' /\ \E op, t \in Operation : Taken(p, Other(p), op, t)
  BY <1>1, RemoteSituation
<1>3. PICK op \in Operation, t \in Operation : Taken(p, Other(p), op, t)
  BY <1>2
<1>4. WellTyped' /\ HistorySound' /\ IdsSound'
  BY <1>1, <1>3, TakenTyped, TakenIds
<1>. QED BY <1>2, <1>4 DEF IInv

LEMMA AcknowledgedStep ==
  ASSUME IInv, NEW p \in PeerIds, Acknowledged(p)
  PROVE  IInv'
<1> DEFINE q == Other(p)
<1>1. q \in PeerIds /\ p # q /\ \A r \in PeerIds : r = p \/ r = q
  BY Peers
<1>. HIDE DEF q
<1>2. /\ channel \in [PeerIds -> Seq(Operation \cup {Ack})]
      /\ channel[p] \in Seq(Operation \cup {Ack}) /\ channel[p] # <<>> /\ Head(channel[p]) = Ack
      /\ channel' = [channel EXCEPT ![p] = Tail(channel[p])]
      /\ outstanding' = outstanding \ {p}
      /\ documents' = documents /\ made' = made /\ clashed' = clashed
  BY DEF IInv, WellTyped, Acknowledged
<1>3. channel'[p] = Tail(channel[p]) /\ channel'[q] = channel[q]
  BY <1>1, <1>2
<1>4. WellTyped'
  <2>1. Tail(channel[p]) \in Seq(Operation \cup {Ack})
    BY <1>2, HeadTailProperties
  <2>2. channel' \in [PeerIds -> Seq(Operation \cup {Ack})]
    BY <1>2, <2>1
  <2>. QED BY <1>2, <2>2 DEF IInv, WellTyped
<1>5. HistorySound'
  BY <1>2 DEF IInv, HistorySound
<1>6. \A r \in PeerIds : \A o : o \in ToSet(channel'[r]) => o \in ToSet(channel[r])
  <2>1. \A o : o \in ToSet(Tail(channel[p])) => o \in ToSet(channel[p])
    BY <1>2, TailSet
  <2>. QED BY <1>1, <1>3, <2>1
<1>7. IdsSound'
  <2>1. ASSUME NEW o, o \in Existing' PROVE o \in Existing
    BY <1>2, <1>6, <2>1, ExistingMembers DEF Existing
  <2>2. OnlyNewSent(documents', channel')
    BY <1>2, <1>6 DEF IInv, IdsSound, OnlyNewSent
  <2>. QED BY <1>2, <2>1, <2>2 DEF IInv, IdsSound
<1>8. Situations'
  <2>1. CASE Level
    <3>1. p \in outstanding /\ channel[p] = <<Ack>>
      BY <1>2, <2>1 DEF Level
    <3>2. channel'[p] = <<>> /\ p \notin outstanding'
      BY <1>2, <1>3, <3>1, Messages
    <3>3. channel'[q] = IF q \in outstanding' THEN <<Ack>> ELSE <<>>
      BY <1>1, <1>2, <1>3, <2>1 DEF Level
    <3>4. Level'
      BY <1>1, <1>2, <2>1, <3>2, <3>3 DEF Level
    <3>. QED BY <3>4 DEF Situations
  <2>2. ASSUME NEW op \in Operation, Behind(p, q, op) PROVE Situations'
    <3>1. op # Ack
      BY AckIsNoOperation
    <3>2. channel[p] = IF p \in outstanding THEN <<Ack, op>> ELSE <<op>>
      BY <2>2 DEF Behind
    <3>3. Head(<<op>>) = op
      OBVIOUS
    <3>4. channel[p] = <<Ack, op>>
      BY <1>2, <3>1, <3>2, <3>3
    <3>5. channel'[p] = <<op>> /\ p \notin outstanding' /\ (q \in outstanding => q \in outstanding')
      BY <1>1, <1>2, <1>3, <3>4, Messages
    <3>6. Behind(p, q, op)'
      BY <1>2, <1>3, <2>2, <3>5 DEF Behind
    <3>. QED BY <1>1, <3>6 DEF Situations
  <2>3. ASSUME NEW op \in Operation, Behind(q, p, op) PROVE FALSE
    BY <1>2, <2>3 DEF Behind
  <2>4. ASSUME NEW a \in Operation, NEW b \in Operation,
               Crossing(p, q, a, b) \/ Crossed(p, q, a, b) \/ Crossed(q, p, a, b)
        PROVE  FALSE
    <3>1. b # Ack /\ Head(<<b>>) = b /\ Head(<<b, Ack>>) = b
      BY AckIsNoOperation, Messages
    <3>2. channel[p] = <<b>> \/ channel[p] = <<b, Ack>> \/ channel[p] = <<>>
      BY <2>4 DEF Crossing, Crossed
    <3>. QED BY <1>2, <3>1, <3>2
  <2>. QED BY <1>1, <2>1, <2>2, <2>3, <2>4, SituationOf DEF IInv
<1>. QED BY <1>4, <1>5, <1>7, <1>8 DEF IInv

\* A repeated operation is dropped: its version is one that is passed.
LEMMA RedeliveredChangesNothing ==
  ASSUME IInv, NEW p \in PeerIds, Redelivered(p)
  PROVE  UNCHANGED vars
<1>1. PICK op \in ToSet(documents[Other(p)].operations) :
          /\ HasOperation(documents[p], op)
          /\ documents' = [documents EXCEPT ![p] = Applied(documents[p], op)]
  BY DEF Redelivered
<1>2. PICK i \in DOMAIN documents[p].operations : documents[p].operations[i].id = op.id
  BY <1>1 DEF HasOperation
<1>3. documents[p].operations[i] \in Existing /\ op \in Existing
  <2>1. documents[p].operations[i] \in ToSet(documents[p].operations)
    BY DEF ToSet
  <2>. QED BY <1>1, <2>1, Peers, ExistingMembers DEF Existing
<1>4. documents[p].operations[i].version = op.version
  BY <1>2, <1>3 DEF IInv, IdsSound
<1>5. op.version < documents[p].version
  BY <1>4 DEF IInv, HistorySound
<1>6. Applied(documents[p], op) = documents[p]
  BY <1>1, <1>5 DEF Applied
<1>7. documents' = documents
  <2>1. documents \in [PeerIds -> Document]
    BY DEF IInv, WellTyped
  <2>. QED BY <1>1, <1>6, <2>1
<1>. QED BY <1>7 DEF Redelivered, vars

LEMMA ImportStateStep ==
  ASSUME IInv, NEW p \in PeerIds, ImportState(p)
  PROVE  IInv'
<1> DEFINE q == Other(p)
<1>1. q \in PeerIds /\ p # q /\ \A r \in PeerIds : r = p \/ r = q
  BY Peers
<1>2. /\ documents \in [PeerIds -> Document] /\ documents[q] \in Document
      /\ documents' = [documents EXCEPT ![p] = documents[q]]
      /\ channel' = [r \in PeerIds |-> <<>>]
      /\ outstanding' = {} /\ clashed' = FALSE /\ made' = made
  BY <1>1 DEF IInv, WellTyped, ImportState
<1>. HIDE DEF q
<1>3. \A r \in PeerIds : documents'[r] = documents[q] /\ channel'[r] = <<>>
  BY <1>1, <1>2
<1>4. WellTyped'
  <2>1. documents' \in [PeerIds -> Document]
    BY <1>2
  <2>2. channel' \in [PeerIds -> Seq(Operation \cup {Ack})]
    BY <1>2
  <2>3. outstanding' \in SUBSET PeerIds
    BY <1>2
  <2>4. made' \in 0..MaxOps /\ clashed' \in BOOLEAN
    BY <1>2 DEF IInv, WellTyped
  <2>. QED BY <2>1, <2>2, <2>3, <2>4 DEF WellTyped
<1>5. HistorySound'
  BY <1>1, <1>3 DEF IInv, HistorySound
<1>6. IdsSound'
  <2>1. ASSUME NEW o, o \in Existing' PROVE o \in Existing
    <3>1. PICK r \in PeerIds : \/ o \in ToSet(documents'[r].operations)
                               \/ o \in ToSet(channel'[r]) /\ o # Ack
      BY <2>1, ExistingMembers DEF Existing
    <3>2. o \in ToSet(documents[q].operations)
      BY <1>3, <3>1, Messages
    <3>. QED BY <1>1, <3>2, ExistingMembers DEF Existing
  <2>2. OnlyNewSent(documents', channel')
    BY <1>3, Messages DEF OnlyNewSent
  <2>. QED BY <1>2, <2>1, <2>2 DEF IInv, IdsSound
<1>7. Level'
  <2>1. documents[q].version <= made
    BY <1>1, VersionsBound DEF IInv
  <2>. QED BY <1>2, <1>3, <2>1 DEF Level
<1>. QED BY <1>4, <1>5, <1>6, <1>7 DEF IInv, Situations

LEMMA Unchanged ==
  ASSUME IInv, UNCHANGED vars
  PROVE  IInv'
<1>1. /\ documents' = documents /\ channel' = channel /\ outstanding' = outstanding
      /\ made' = made /\ clashed' = clashed
  BY DEF vars
<1>2. WellTyped'
  BY <1>1 DEF IInv, WellTyped
<1>3. HistorySound'
  BY <1>1 DEF IInv, HistorySound
<1>4. IdsSound'
  BY <1>1 DEF IInv, IdsSound, Existing
<1>5. Situations'
  <2>1. Level => Level'
    BY <1>1 DEF Level
  <2>2. \A p, q \in PeerIds : \A op \in Operation : Behind(p, q, op) => Behind(p, q, op)'
    BY <1>1 DEF Behind
  <2>3. \A p, q \in PeerIds : \A a, b \in Operation : Crossing(p, q, a, b) => Crossing(p, q, a, b)'
    BY <1>1 DEF Crossing, Parallel
  <2>4. \A p, q \in PeerIds : \A a, b \in Operation : Crossed(p, q, a, b) => Crossed(p, q, a, b)'
    BY <1>1 DEF Crossed, Parallel
  <2>. QED BY <2>1, <2>2, <2>3, <2>4 DEF IInv, Situations
<1>. QED BY <1>2, <1>3, <1>4, <1>5 DEF IInv

LEMMA Step == IInv /\ [Next]_vars => IInv'
<1>. SUFFICES ASSUME IInv, [Next]_vars PROVE IInv'
  OBVIOUS
<1>1. ASSUME NEW p \in PeerIds, Edit(p) PROVE IInv'
  BY <1>1, EditStep
<1>2. ASSUME NEW p \in PeerIds, ApplyRemoteOperation(p) PROVE IInv'
  BY <1>2, ApplyRemoteOperationStep
<1>3. ASSUME NEW p \in PeerIds, Acknowledged(p) PROVE IInv'
  BY <1>3, AcknowledgedStep
<1>4. ASSUME NEW p \in PeerIds, Redelivered(p) PROVE IInv'
  BY <1>4, RedeliveredChangesNothing, Unchanged
<1>5. ASSUME NEW p \in PeerIds, ImportState(p) PROVE IInv'
  BY <1>5, ImportStateStep
<1>. QED BY <1>1, <1>2, <1>3, <1>4, <1>5, Unchanged DEF Next

----------------------------------------------------------------------------
(* Theorems *)

\* Of the two peers one is behind the other by an operation, or an operation of each has
\* crossed the other's, or they are level: applyRemoteOperation (operationalTransform.ts:105)
\* never meets more than one operation that the author of the remote one did not have.
THEOREM Invariant == Spec => []IInv
<1>. QED BY Initially, Step, PTL DEF Spec

\* Documents and messages stay well formed: transformOperations (operationalTransform.ts:154)
\* never makes a position negative, and no version passes the number of operations made.
THEOREM TypeCorrect == Spec => []TypeOK
<1>1. IInv => TypeOK
  <2>1. ASSUME IInv PROVE TypeOK
    <3>1. \A p \in PeerIds : documents[p].version \in 0..MaxOps
      <4>1. ASSUME NEW p \in PeerIds PROVE documents[p].version \in 0..MaxOps
        <5>1. documents[p].version \in Nat /\ documents[p].version <= made
          BY <2>1, VersionsBound DEF IInv
        <5>2. made \in 0..MaxOps
          BY <2>1 DEF IInv, WellTyped
        <5>. QED BY <5>1, <5>2, MaxOpsIsNat
      <4>. QED BY <4>1
    <3>2. documents \in [PeerIds -> [version : 0..MaxOps, content : Seq(Nat),
                                     operations : Seq(Operation)]]
      BY <2>1, <3>1 DEF IInv, WellTyped, Document
    <3>. QED BY <2>1, <3>2 DEF IInv, WellTyped, TypeOK
  <2>. QED BY <2>1
<1>. QED BY <1>1, Invariant, PTL

\* The version of a document is the length of its history, in which versions never decrease
\* and no operation stands twice, so that validateOrder (operationalTransform.ts:216) accepts
\* it and the versions tell which operations are concurrent.
THEOREM HistoryCounts == Spec => []HistorySound
<1>1. IInv => HistorySound
  BY DEF IInv
<1>. QED BY <1>1, Invariant, PTL

\* When nothing is on its way, both peers show one content at one version, unless an
\* operation has fallen strictly inside the range of a delete made at the same time: what
\* transformOperations (operationalTransform.ts:154) is for.
THEOREM Convergence == Spec => []Converged
<1>1. IInv => Converged
  <2>1. ASSUME IInv, Quiet, ~clashed, NEW p \in PeerIds, NEW q \in PeerIds
        PROVE  /\ documents[p].content = documents[q].content
               /\ documents[p].version = documents[q].version
    <3>1. Level
      <4>1. channel[p] = <<>> /\ channel[Other(p)] = <<>>
        BY <2>1, Peers DEF Quiet
      <4>2. Other(p) \in PeerIds /\ p # Other(p)
        BY Peers
      <4>3. ASSUME NEW op \in Operation PROVE ~Behind(p, Other(p), op) /\ ~Behind(Other(p), p, op)
        <5>1. <<op>> # <<>> /\ <<Ack, op>> # <<>>
          BY Messages
        <5>. QED BY <4>1, <5>1 DEF Behind
      <4>4. ASSUME NEW a \in Operation, NEW b \in Operation
            PROVE  /\ ~Crossing(p, Other(p), a, b) /\ ~Crossed(p, Other(p), a, b)
                   /\ ~Crossed(Other(p), p, a, b)
        <5>1. <<b>> # <<>> /\ <<b, Ack>> # <<>>
          BY Messages
        <5>. QED BY <4>1, <5>1 DEF Crossing, Crossed
      <4>. QED BY <2>1, <4>2, <4>3, <4>4, SituationOf DEF IInv
    <3>. QED BY <2>1, <3>1 DEF Level
  <2>. QED BY <2>1 DEF Converged
<1>. QED BY <1>1, Invariant, PTL

\* An operation that is delivered again after it was integrated changes nothing
\* (operationalTransform.ts:112), however far the document has moved on since.
THEOREM RepetitionHarmless ==
    Spec => [][\A p \in PeerIds : Redelivered(p) => UNCHANGED vars]_vars
<1>1. IInv /\ [Next]_vars => [\A p \in PeerIds : Redelivered(p) => UNCHANGED vars]_vars
  BY RedeliveredChangesNothing
<1>. QED BY <1>1, Invariant, PTL DEF Spec

=============================================================================
