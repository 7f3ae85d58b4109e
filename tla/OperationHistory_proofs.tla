---------------------- MODULE OperationHistory_proofs ----------------------
(***************************************************************************)
(* Proofs about OperationHistory, for any number of operations, any clock, *)
(* any retention and any limit of checkpoints: the history stays in order, *)
(* nothing leaves it unsaved without a reason, and a client that follows   *)
(* it never goes back.  Every entry anywhere, in the memory, in a backup,  *)
(* in an answer or in the hands of a client, is one the table has or had   *)
(* to get, and those are in one order of identifiers and of time.          *)
(***************************************************************************)
EXTENDS OperationHistory, SequenceTheorems, FiniteSetTheorems,
        WellFoundedInduction, TLAPS

\* The operations recorded, as rows that are in the table, on their way or given up
Known == rows \cup saves \cup unsaved

\* An operation recorded later has a greater number and no earlier time.
KnownInOrder ==
    /\ \A r \in Known : r.id <= recorded /\ r.timestamp <= now
    /\ \A q, r \in Known : /\ q.id = r.id => q = r
                           /\ q.id < r.id => q.timestamp <= r.timestamp

\* A history: entries or rows of what was recorded, in the order of time, none twice
History(s, from) ==
    /\ Rows(s) \subseteq from
    /\ InTimeOrder(s)
    /\ \A i, j \in DOMAIN s : s[i].id = s[j].id => i = j

HistoriesSound ==
    /\ History(operations, Known)
    /\ \A answer \in answers : History(answer, rows)
    /\ backup # Nothing => History(backup, Known)
    /\ cursor # Nothing => RowOf(cursor) \in Known

\* Times that do not decrease and are not later than some time
Ascending(cps, last) ==
    /\ \A i \in DOMAIN cps : cps[i] <= last
    /\ \A i, j \in DOMAIN cps : i < j => cps[i] <= cps[j]

IInv ==
    /\ TypeOK
    /\ IsFiniteSet(saves) /\ IsFiniteSet(rows)
    /\ KnownInOrder
    /\ HistoriesSound
    /\ Ascending(checkpoints, now)

----------------------------------------------------------------------------
(* Positions of an array *)

\* There is a first and a last one among some positions.
LEMMA FirstPosition ==
    ASSUME NEW K \in SUBSET Nat, K # {}
    PROVE  \E x \in K : \A y \in K : x <= y
<1>1. PICK x \in K : \A y \in K : <<y, x>> \notin OpToRel(<, Nat)
  BY NatLessThanWellFounded, WFMin
<1>2. \A y \in K : ~(y < x)
  BY <1>1 DEF OpToRel
<1>. QED BY <1>2

LEMMA LastPosition ==
    ASSUME NEW n \in Nat, NEW K \in SUBSET (1..n), K # {}
    PROVE  \E x \in K : \A y \in K : x >= y
<1> DEFINE fromEnd == {i \in 0..n : n - i \in K}
<1>1. fromEnd # {} /\ fromEnd \in SUBSET Nat
  <2>1. PICK k \in K : TRUE
    OBVIOUS
  <2>2. k \in 1..n
    OBVIOUS
  <2>3. n - k \in 0..n /\ n - (n - k) = k
    BY <2>2
  <2>4. n - k \in fromEnd
    BY <2>3
  <2>5. fromEnd \in SUBSET Nat
    OBVIOUS
  <2>. QED BY <2>4, <2>5
<1>2. PICK i \in fromEnd : \A j \in fromEnd : i <= j
  BY <1>1, FirstPosition
<1>3. \A y \in K : n - y \in fromEnd
  <2> TAKE y \in K
  <2>1. y \in 1..n /\ n - y \in 0..n /\ n - (n - y) = y
    OBVIOUS
  <2>. QED BY <2>1
<1>4. n - i \in K /\ \A y \in K : y <= n - i
  BY <1>2, <1>3
<1>. QED BY <1>4

LEMMA FinitePositions ==
    ASSUME NEW n \in Nat, NEW K \in SUBSET (1..n)
    PROVE  IsFiniteSet(K) /\ Cardinality(K) \in Nat
<1>1. IsFiniteSet(1..n)
  BY FS_Interval
<1>2. IsFiniteSet(K)
  BY <1>1, FS_Subset
<1>. QED BY <1>2, FS_CardinalityType

Rank(K, i) == Cardinality({j \in K : j < i})

\* A later position has a greater rank, and none the rank of the number of positions.
LEMMA RankGrows ==
    ASSUME NEW n \in Nat, NEW K \in SUBSET (1..n), NEW i \in K
    PROVE  /\ Rank(K, i) \in 0..Cardinality(K) - 1
           /\ \A j \in K : i < j => Rank(K, i) < Rank(K, j)
<1> DEFINE below(j) == {k \in K : k < j}
<1>1. IsFiniteSet(K) /\ Cardinality(K) \in Nat
  BY FinitePositions
<1>2. \A j \in K : IsFiniteSet(below(j)) /\ Cardinality(below(j)) \in Nat
  BY <1>1, FS_Subset, FS_CardinalityType
<1>3. ASSUME NEW T \in SUBSET K, below(i) \subseteq T, i \in T
      PROVE  Cardinality(below(i)) < Cardinality(T)
  <2>1. below(i) \cup {i} \in SUBSET T /\ i \notin below(i) /\ IsFiniteSet(T)
    <3>1. IsFiniteSet(T)
      BY <1>1, FS_Subset
    <3>2. ~(i < i)
      OBVIOUS
    <3>. QED BY <1>3, <3>1, <3>2
  <2>2. Cardinality(below(i) \cup {i}) = Cardinality(below(i)) + 1
    BY <1>2, <2>1, FS_AddElement
  <2>3. Cardinality(below(i) \cup {i}) <= Cardinality(T) /\ Cardinality(T) \in Nat
    BY <2>1, FS_Subset, FS_CardinalityType
  <2>. QED BY <1>2, <2>2, <2>3
<1>4. Cardinality(below(i)) < Cardinality(K)
  BY <1>3
<1>5. ASSUME NEW j \in K, i < j
      PROVE  Cardinality(below(i)) < Cardinality(below(j))
  <2>1. \A k \in K : k \in Int
    OBVIOUS
  <2>2. \A k \in K : k < i => k < j
    BY <1>5, <2>1
  <2>3. below(i) \subseteq below(j) /\ i \in below(j) /\ below(j) \in SUBSET K
    BY <1>5, <2>2
  <2>. QED BY <1>3, <2>3
<1>. QED BY <1>1, <1>2, <1>4, <1>5 DEF Rank

\* Array.filter keeps the chosen elements in their order.
KeptInOrder(s, K, t) ==
    /\ DOMAIN t = 1..Cardinality(K)
    /\ \A n \in DOMAIN t : Nth(K, n) \in K /\ t[n] = s[Nth(K, n)]
    /\ \A m, n \in DOMAIN t : m < n => Nth(K, m) < Nth(K, n)

LEMMA FilteredKeeps ==
    ASSUME NEW S, NEW s \in Seq(S), NEW K \in SUBSET DOMAIN s
    PROVE  Filtered(s, K) \in Seq(S) /\ KeptInOrder(s, K, Filtered(s, K))
<1> DEFINE c == Cardinality(K)
           rank == [i \in K |-> Rank(K, i) + 1]
<1>1. /\ Len(s) \in Nat /\ K \in SUBSET (1..Len(s)) /\ IsFiniteSet(K) /\ c \in Nat
      /\ \A i \in K : s[i] \in S
  <2>1. Len(s) \in Nat /\ DOMAIN s = 1..Len(s) /\ \A i \in 1..Len(s) : s[i] \in S
    BY LenProperties, ElementOfSeq
  <2>2. IsFiniteSet(K) /\ c \in Nat
    BY <2>1, FinitePositions
  <2>. QED BY <2>1, <2>2
<1>2. \A i \in K : /\ Rank(K, i) \in 0..c - 1
                   /\ \A j \in K : i < j => Rank(K, i) < Rank(K, j)
  BY <1>1, RankGrows
<1>3. rank \in Injection(K, 1..c)
  <2>1. rank \in [K -> 1..c]
    BY <1>1, <1>2
  <2>2. ASSUME NEW i \in K, NEW j \in K, rank[i] = rank[j]
        PROVE  i = j
    <3>1. Rank(K, i) = Rank(K, j) /\ Rank(K, i) \in Int /\ i \in Int /\ j \in Int
      BY <1>1, <1>2, <2>2
    <3>. QED BY <1>2, <3>1
  <2>. QED BY <2>1, <2>2 DEF Injection, IsInjective
<1>4. rank \in Surjection(K, 1..c)
  BY <1>1, <1>3, FS_Interval, FS_Injection
<1>5. \A n \in 1..c : \E i \in K : Rank(K, i) = n - 1
  <2> TAKE n \in 1..c
  <2>1. PICK i \in K : rank[i] = n
    BY <1>4 DEF Surjection
  <2>. QED BY <1>1, <1>2, <2>1
<1>6. \A n \in 1..c : Nth(K, n) \in K /\ Rank(K, Nth(K, n)) = n - 1
  BY <1>5 DEF Nth, Rank
<1>7. \A m, n \in 1..c : m < n => Nth(K, m) < Nth(K, n)
  <2> SUFFICES ASSUME NEW m \in 1..c, NEW n \in 1..c, m < n
               PROVE  Nth(K, m) < Nth(K, n)
    OBVIOUS
  <2>1. /\ Nth(K, m) \in K /\ Rank(K, Nth(K, m)) = m - 1
        /\ Nth(K, n) \in K /\ Rank(K, Nth(K, n)) = n - 1
    BY <1>6
  <2>2. ~(Nth(K, n) < Nth(K, m)) /\ Nth(K, n) # Nth(K, m)
    BY <1>1, <1>2, <2>1
  <2>. QED BY <1>1, <2>1, <2>2
<1>8. Filtered(s, K) \in [1..c -> S] /\ \A n \in 1..c : Filtered(s, K)[n] = s[Nth(K, n)]
  BY <1>1, <1>6 DEF Filtered
<1>9. Filtered(s, K) \in Seq(S)
  BY <1>1, <1>8, SeqDef
<1>. QED BY <1>6, <1>7, <1>8, <1>9 DEF KeptInOrder

----------------------------------------------------------------------------
(* Histories *)

LEMMA RowFacts ==
    /\ \A r \in Row : RowOf(r) = r /\ EntryOf(r) \in Entry /\ RowOf(EntryOf(r)) = r
                     /\ EntryOf(r).id = r.id /\ EntryOf(r).timestamp = r.timestamp
    /\ \A e \in Entry : RowOf(e) \in Row /\ RowOf(e).id = e.id
                       /\ RowOf(e).timestamp = e.timestamp
BY DEF Row, Entry, RowOf, EntryOf

LEMMA HistoryGrows ==
    ASSUME NEW s, NEW from, NEW more, History(s, from), from \subseteq more
    PROVE  History(s, more)
BY DEF History

LEMMA EmptyHistory == \A from : History(<<>>, from)
BY DEF History, Rows, InTimeOrder

\* recordOperation: what is appended is later than all there is.
LEMMA LongerHistory ==
    ASSUME NEW s \in Seq(Entry), NEW from, History(s, from), NEW e \in Entry,
           \A r \in from : r.id < e.id /\ r.timestamp <= e.timestamp
    PROVE  History(Append(s, e), from \cup {RowOf(e)})
<1> DEFINE t == Append(s, e)
<1>1. /\ Len(s) \in Nat /\ DOMAIN s = 1..Len(s) /\ DOMAIN t = 1..Len(s) + 1
      /\ t[Len(s) + 1] = e /\ \A i \in 1..Len(s) : t[i] = s[i]
  BY AppendProperties, LenProperties
<1>2. \A i \in 1..Len(s) : RowOf(s[i]) \in from /\ s[i] \in Entry
  BY <1>1, ElementOfSeq DEF History, Rows
<1>3. \A i \in 1..Len(s) : s[i].id < e.id /\ s[i].timestamp <= e.timestamp
  BY <1>2, RowFacts
<1>4. e.id \in Int /\ e.timestamp \in Int /\ \A i \in 1..Len(s) : s[i].id \in Int
  BY <1>2 DEF Entry
<1> HIDE DEF t
<1>5. Rows(t) \subseteq from \cup {RowOf(e)}
  <2> SUFFICES ASSUME NEW i \in DOMAIN t
               PROVE  RowOf(t[i]) \in from \cup {RowOf(e)}
    BY DEF Rows
  <2>1. CASE i = Len(s) + 1
    BY <1>1, <2>1
  <2>2. CASE i \in 1..Len(s)
    BY <1>1, <1>2, <2>2
  <2>. QED BY <1>1, <2>1, <2>2
<1>6. InTimeOrder(t)
  <2> SUFFICES ASSUME NEW i \in DOMAIN t, NEW j \in DOMAIN t, i < j
               PROVE  t[i].timestamp <= t[j].timestamp
    BY DEF InTimeOrder
  <2>1. i \in 1..Len(s) /\ j \in 1..Len(s) + 1
    BY <1>1
  <2>2. CASE j \in 1..Len(s)
    BY <1>1, <2>1, <2>2 DEF History, InTimeOrder
  <2>3. CASE j = Len(s) + 1
    BY <1>1, <1>3, <2>1, <2>3
  <2>. QED BY <1>1, <2>1, <2>2, <2>3
<1>7. \A i, j \in DOMAIN t : t[i].id = t[j].id => i = j
  <2> SUFFICES ASSUME NEW i \in DOMAIN t, NEW j \in DOMAIN t, t[i].id = t[j].id
               PROVE  i = j
    OBVIOUS
  <2>1. CASE i \in 1..Len(s) /\ j \in 1..Len(s)
    BY <1>1, <2>1 DEF History
  <2>2. CASE i = Len(s) + 1 /\ j \in 1..Len(s)
    BY <1>1, <1>3, <1>4, <2>2
  <2>3. CASE i \in 1..Len(s) /\ j = Len(s) + 1
    BY <1>1, <1>3, <1>4, <2>3
  <2>. QED BY <1>1, <2>1, <2>2, <2>3
<1>. QED BY <1>5, <1>6, <1>7 DEF History, t

\* pruneOldOperations: what is kept of a history is one.
LEMMA FilteredHistory ==
    ASSUME NEW s \in Seq(Entry), NEW from, History(s, from), NEW K \in SUBSET DOMAIN s
    PROVE  Filtered(s, K) \in Seq(Entry) /\ History(Filtered(s, K), from)
<1> DEFINE t == Filtered(s, K)
<1>1. t \in Seq(Entry) /\ KeptInOrder(s, K, t)
  BY FilteredKeeps
<1>2. DOMAIN s = 1..Len(s) /\ DOMAIN t = 1..Len(t) /\ Len(t) \in Nat /\ Len(s) \in Nat
  BY <1>1, LenProperties
<1> HIDE DEF t
<1>3. \A n \in DOMAIN t : Nth(K, n) \in DOMAIN s /\ t[n] = s[Nth(K, n)]
  BY <1>1 DEF KeptInOrder
<1>4. Rows(t) \subseteq from
  BY <1>3 DEF Rows, History
<1>5. InTimeOrder(t)
  <2> SUFFICES ASSUME NEW m \in DOMAIN t, NEW n \in DOMAIN t, m < n
               PROVE  t[m].timestamp <= t[n].timestamp
    BY DEF InTimeOrder
  <2>1. Nth(K, m) < Nth(K, n)
    BY <1>1 DEF KeptInOrder
  <2>. QED BY <1>3, <2>1 DEF History, InTimeOrder
<1>6. \A m, n \in DOMAIN t : t[m].id = t[n].id => m = n
  <2> SUFFICES ASSUME NEW m \in DOMAIN t, NEW n \in DOMAIN t, t[m].id = t[n].id
               PROVE  m = n
    OBVIOUS
  <2>1. Nth(K, m) = Nth(K, n) /\ Nth(K, m) \in Int
    BY <1>2, <1>3 DEF History
  <2>2. ~(m < n) /\ ~(n < m)
    BY <1>1, <2>1 DEF KeptInOrder
  <2>. QED BY <1>2, <2>2
<1>. QED BY <1>1, <1>4, <1>5, <1>6 DEF History, t

\* getOperations: the rows sorted by time are a history.
LEMMA SortedHistory ==
    ASSUME NEW rs \in SUBSET Row, IsFiniteSet(rs), \A q, r \in rs : q.id = r.id => q = r,
           NEW s \in Sorted(rs)
    PROVE  s \in Seq(Row) /\ History(s, rs)
<1> DEFINE c == Cardinality(rs)
<1>1. c \in Nat
  BY FS_CardinalityType
<1>2. /\ s \in [1..c -> rs] /\ InTimeOrder(s)
      /\ \A i, j \in 1..c : i # j => s[i] # s[j]
  BY DEF Sorted, SetToSeqs
<1>3. s \in Seq(Row)
  BY <1>1, <1>2, SeqDef
<1>4. \A i \in DOMAIN s : s[i] \in rs /\ RowOf(s[i]) = s[i]
  BY <1>2, RowFacts
<1>5. Rows(s) \subseteq rs
  BY <1>4 DEF Rows
<1>6. \A i, j \in DOMAIN s : s[i].id = s[j].id => i = j
  BY <1>2
<1>. QED BY <1>2, <1>3, <1>5, <1>6 DEF History

\* loadFromDatabase: the entries made of rows are a history if the rows are.
LEMMA LoadedHistory ==
    ASSUME NEW from, NEW answer \in Seq(Row), History(answer, from)
    PROVE  Loaded(answer) \in Seq(Entry) /\ History(Loaded(answer), from)
<1> DEFINE t == [i \in DOMAIN answer |-> EntryOf(answer[i])]
<1>1. /\ Len(answer) \in Nat /\ DOMAIN answer = 1..Len(answer)
      /\ \A i \in DOMAIN answer : answer[i] \in Row
  BY LenProperties, ElementOfSeq
<1>2. /\ DOMAIN t = DOMAIN answer
      /\ \A i \in DOMAIN t : /\ t[i] \in Entry
                             /\ RowOf(t[i]) = RowOf(answer[i])
                             /\ t[i].id = answer[i].id /\ t[i].timestamp = answer[i].timestamp
  BY <1>1, RowFacts
<1>3. t \in [1..Len(answer) -> Entry]
  BY <1>1, <1>2
<1>4. t \in Seq(Entry)
  BY <1>1, <1>3, SeqDef
<1> HIDE DEF t
<1>5. Rows(t) \subseteq from
  BY <1>2 DEF Rows, History
<1>6. InTimeOrder(t)
  BY <1>2 DEF InTimeOrder, History
<1>7. \A i, j \in DOMAIN t : t[i].id = t[j].id => i = j
  BY <1>2 DEF History
<1>8. t \in Seq(Entry) /\ History(t, from)
  BY <1>4, <1>5, <1>6, <1>7 DEF History
<1>. QED BY <1>8 DEF Loaded, t

\* revertOperation: the flag is in no row and decides no order.
LEMMA RevertedHistory ==
    ASSUME NEW s \in Seq(Entry), NEW from, History(s, from), NEW k \in DOMAIN s
    PROVE  LET t == [s EXCEPT ![k].isReverted = TRUE]
           IN t \in Seq(Entry) /\ History(t, from)
<1> DEFINE t == [s EXCEPT ![k].isReverted = TRUE]
           e == [s[k] EXCEPT !.isReverted = TRUE]
<1>1. Len(s) \in Nat /\ DOMAIN s = 1..Len(s) /\ \A i \in DOMAIN s : s[i] \in Entry
  BY LenProperties, ElementOfSeq
<1>2. /\ e \in Entry /\ e.id = s[k].id /\ e.timestamp = s[k].timestamp
      /\ RowOf(e) = RowOf(s[k])
  BY <1>1 DEF Entry, RowOf
<1>3. t = [s EXCEPT ![k] = e]
  OBVIOUS
<1>4. /\ DOMAIN t = DOMAIN s
      /\ \A i \in DOMAIN t : t[i] = IF i = k THEN e ELSE s[i]
  BY <1>3
<1>5. t \in Seq(Entry)
  BY <1>1, <1>2, <1>3, ExceptSeq
<1> HIDE DEF t, e
<1>6. \A i \in DOMAIN t : /\ t[i].id = s[i].id /\ t[i].timestamp = s[i].timestamp
                          /\ RowOf(t[i]) = RowOf(s[i])
  BY <1>2, <1>4
<1>7. Rows(t) \subseteq from
  BY <1>4, <1>6 DEF Rows, History
<1>8. InTimeOrder(t)
  BY <1>4, <1>6 DEF InTimeOrder, History
<1>9. \A i, j \in DOMAIN t : t[i].id = t[j].id => i = j
  BY <1>4, <1>6 DEF History
<1>. QED BY <1>5, <1>7, <1>8, <1>9 DEF History, t

----------------------------------------------------------------------------
(* Checkpoints *)

\* createCheckpoint keeps the order and the limit.
LEMMA CheckpointAdded ==
    ASSUME NEW cps \in Seq(1..MaxTime), now \in 1..MaxTime, Ascending(cps, now),
           Len(cps) <= MAX_CHECKPOINTS
    PROVE  /\ WithCheckpoint(cps) \in Seq(1..MaxTime)
           /\ Len(WithCheckpoint(cps)) <= MAX_CHECKPOINTS
           /\ Ascending(WithCheckpoint(cps), now)
<1> DEFINE pushed == Append(cps, now)
           rest == Tail(pushed)
<1>1. /\ Len(cps) \in Nat /\ DOMAIN cps = 1..Len(cps)
      /\ \A i \in DOMAIN cps : cps[i] \in Int
      /\ MAX_CHECKPOINTS \in Nat \ {0} /\ MaxTime \in Nat /\ now \in Int
  BY LenProperties, ElementOfSeq, LimitsAreNat
<1>2. /\ pushed \in Seq(1..MaxTime) /\ pushed # <<>> /\ Len(pushed) = Len(cps) + 1
      /\ DOMAIN pushed = 1..Len(cps) + 1
      /\ pushed[Len(cps) + 1] = now
      /\ \A i \in 1..Len(cps) : pushed[i] = cps[i]
  BY AppendProperties, LenProperties
<1> HIDE DEF pushed
<1>3. Ascending(pushed, now)
  <2>1. \A i \in DOMAIN pushed : pushed[i] <= now
    <3> TAKE i \in DOMAIN pushed
    <3>. QED BY <1>1, <1>2 DEF Ascending
  <2>2. ASSUME NEW i \in DOMAIN pushed, NEW j \in DOMAIN pushed, i < j
        PROVE  pushed[i] <= pushed[j]
    <3>1. CASE j = Len(cps) + 1
      BY <1>1, <1>2, <2>1, <2>2, <3>1
    <3>2. CASE j \in 1..Len(cps)
      <4>1. i \in 1..Len(cps)
        BY <1>1, <1>2, <2>2, <3>2
      <4>. QED BY <1>1, <1>2, <2>2, <3>2, <4>1 DEF Ascending
    <3>. QED BY <1>1, <1>2, <3>1, <3>2
  <2>. QED BY <2>1, <2>2 DEF Ascending
<1>4. /\ rest \in Seq(1..MaxTime) /\ Len(rest) = Len(cps) /\ DOMAIN rest = 1..Len(cps)
      /\ \A i \in 1..Len(cps) : rest[i] = pushed[i + 1]
  <2>1. /\ rest \in Seq(1..MaxTime) /\ Len(rest) = Len(pushed) - 1
        /\ \A i \in 1..Len(rest) : rest[i] = pushed[i + 1]
    BY <1>2, HeadTailProperties
  <2>2. Len(rest) = Len(cps) /\ DOMAIN rest = 1..Len(rest)
    BY <1>1, <1>2, <2>1, LenProperties
  <2>. QED BY <2>1, <2>2
<1> HIDE DEF rest
<1>5. Ascending(rest, now)
  <2>1. \A i \in DOMAIN rest : i + 1 \in DOMAIN pushed /\ rest[i] = pushed[i + 1]
    BY <1>1, <1>2, <1>4
  <2>2. \A i \in DOMAIN rest : rest[i] <= now
    BY <1>3, <2>1 DEF Ascending
  <2>3. ASSUME NEW i \in DOMAIN rest, NEW j \in DOMAIN rest, i < j
        PROVE  rest[i] <= rest[j]
    <3>1. i + 1 < j + 1
      BY <1>1, <1>4, <2>3
    <3>. QED BY <1>3, <2>1, <3>1 DEF Ascending
  <2>. QED BY <2>2, <2>3 DEF Ascending
<1>6. WithCheckpoint(cps) = IF Len(pushed) > MAX_CHECKPOINTS THEN rest ELSE pushed
  BY DEF WithCheckpoint, pushed, rest
<1>7. CASE Len(pushed) > MAX_CHECKPOINTS
  BY <1>4, <1>5, <1>6, <1>7
<1>8. CASE ~(Len(pushed) > MAX_CHECKPOINTS)
  BY <1>1, <1>2, <1>3, <1>6, <1>8
<1>. QED BY <1>7, <1>8

\* getCheckpointBefore finds the latest, getCheckpointAfter the earliest.
LEMMA SearchesFind ==
    ASSUME checkpoints \in Seq(1..MaxTime), Ascending(checkpoints, now)
    PROVE  CheckpointsFound
<1>1. /\ Len(checkpoints) \in Nat /\ DOMAIN checkpoints = 1..Len(checkpoints)
      /\ \A i \in DOMAIN checkpoints : checkpoints[i] \in Int
  BY LenProperties, ElementOfSeq, LimitsAreNat
<1> SUFFICES ASSUME NEW t \in 0..MaxTime, NEW i \in DOMAIN checkpoints
             PROVE  /\ checkpoints[i] <= t =>
                           /\ CheckpointBefore(t) > 0
                           /\ checkpoints[i] <= checkpoints[CheckpointBefore(t)]
                    /\ checkpoints[i] > t =>
                           /\ CheckpointAfter(t) > 0
                           /\ checkpoints[i] >= checkpoints[CheckpointAfter(t)]
  BY DEF CheckpointsFound
<1>2. ASSUME checkpoints[i] <= t
      PROVE  /\ CheckpointBefore(t) > 0
             /\ checkpoints[i] <= checkpoints[CheckpointBefore(t)]
  <2> DEFINE K == {k \in 1..Len(checkpoints) : checkpoints[k] <= t}
  <2>1. i \in K /\ K \in SUBSET (1..Len(checkpoints))
    BY <1>1, <1>2
  <2>2. CheckpointBefore(t) = Max(K)
    BY <2>1 DEF CheckpointBefore, SelectLastInSeq
  <2>3. Max(K) \in K /\ \A k \in K : Max(K) >= k
    BY <1>1, <2>1, LastPosition DEF Max
  <2>4. Max(K) \in DOMAIN checkpoints /\ Max(K) >= i
    BY <1>1, <2>1, <2>3
  <2> HIDE DEF K
  <2>5. CASE i = Max(K)
    BY <1>1, <2>2, <2>4, <2>5
  <2>6. CASE i < Max(K)
    BY <1>1, <2>2, <2>4, <2>6 DEF Ascending
  <2>. QED BY <1>1, <2>4, <2>5, <2>6
<1>3. ASSUME checkpoints[i] > t
      PROVE  /\ CheckpointAfter(t) > 0
             /\ checkpoints[i] >= checkpoints[CheckpointAfter(t)]
  <2> DEFINE K == {k \in 1..Len(checkpoints) : checkpoints[k] > t}
  <2>1. i \in K /\ K \in SUBSET (1..Len(checkpoints)) /\ K \in SUBSET Nat
    BY <1>1, <1>3
  <2>2. CheckpointAfter(t) = Min(K)
    BY <2>1 DEF CheckpointAfter, SelectInSeq
  <2>3. Min(K) \in K /\ \A k \in K : Min(K) <= k
    BY <2>1, FirstPosition DEF Min
  <2>4. Min(K) \in DOMAIN checkpoints /\ Min(K) <= i
    BY <1>1, <2>1, <2>3
  <2> HIDE DEF K
  <2>5. CASE i = Min(K)
    BY <1>1, <2>2, <2>4, <2>5
  <2>6. CASE Min(K) < i
    BY <1>1, <2>2, <2>4, <2>6 DEF Ascending
  <2>. QED BY <1>1, <2>4, <2>5, <2>6
<1>. QED BY <1>2, <1>3

----------------------------------------------------------------------------
(* The invariant *)

LEMMA InitIInv == Init => IInv
<1> SUFFICES ASSUME Init PROVE IInv
  OBVIOUS
<1>1. TypeOK
  BY LimitsAreNat DEF Init, TypeOK
<1>2. IsFiniteSet(saves) /\ IsFiniteSet(rows)
  BY FS_EmptySet DEF Init
<1>3. KnownInOrder
  BY DEF Init, KnownInOrder, Known
<1>4. HistoriesSound
  BY EmptyHistory DEF Init, HistoriesSound
<1>5. Ascending(checkpoints, now)
  BY DEF Init, Ascending
<1>. QED BY <1>1, <1>2, <1>3, <1>4, <1>5 DEF IInv

\* The operation recorded is the last of all there are.
LEMMA RecordKeeps ==
    ASSUME IInv, RecordOperation
    PROVE  IInv'
<1> DEFINE op == [id |-> recorded + 1, timestamp |-> now, isRow |-> FALSE, isReverted |-> FALSE]
<1>1. /\ recorded < MaxOps /\ recorded' = recorded + 1
      /\ operations' = Append(operations, op)
      /\ Saved(RowOf(op))
      /\ UNCHANGED <<database, now, checkpoints, rows, answers, backup, cursor>>
  BY DEF RecordOperation
<1>2. /\ recorded \in 0..MaxOps /\ now \in 1..MaxTime /\ operations \in Seq(Entry)
      /\ saves \subseteq Row /\ unsaved \subseteq Row /\ rows \subseteq Row
      /\ MaxOps \in Nat /\ MaxTime \in Nat
  BY LimitsAreNat DEF IInv, TypeOK
<1>3. recorded + 1 \in 1..MaxOps
  BY <1>1, <1>2
<1>4. op \in Entry /\ RowOf(op) \in Row
  BY <1>2, <1>3 DEF Entry, Row, RowOf
<1>5. RowOf(op).id = recorded + 1 /\ RowOf(op).timestamp = now
  BY DEF RowOf
<1>6. /\ Known' = Known \cup {RowOf(op)}
      /\ saves' \subseteq saves \cup {RowOf(op)} /\ saves' \subseteq Row
      /\ unsaved' \subseteq Row
  BY <1>1, <1>2, <1>4 DEF Saved, Known
<1> HIDE DEF op
<1>7. Append(operations, op) \in Seq(Entry)
  BY <1>2, <1>4, AppendProperties
<1>8. TypeOK'
  BY <1>1, <1>2, <1>3, <1>6, <1>7 DEF IInv, TypeOK
<1>9. IsFiniteSet(saves') /\ IsFiniteSet(rows')
  <2>1. IsFiniteSet(saves \cup {RowOf(op)})
    BY FS_AddElement DEF IInv
  <2>. QED BY <1>1, <1>6, <2>1, FS_Subset DEF IInv
<1>10. \A r \in Known : /\ r.id \in Nat /\ r.timestamp \in Nat
                         /\ r.id < recorded + 1 /\ r.timestamp <= now
  <2> TAKE r \in Known
  <2>1. r \in Row /\ r.id <= recorded /\ r.timestamp <= now
    BY <1>2 DEF Known, IInv, KnownInOrder
  <2>. QED BY <1>2, <2>1 DEF Row
<1>11. KnownInOrder'
  <2>1. \A r \in Known' : r.id <= recorded' /\ r.timestamp <= now'
    <3> TAKE r \in Known'
    <3>1. CASE r = RowOf(op)
      BY <1>1, <1>2, <1>5, <3>1
    <3>2. CASE r \in Known
      BY <1>1, <1>2, <1>10, <3>2
    <3>. QED BY <1>6, <3>1, <3>2
  <2>2. ASSUME NEW q \in Known', NEW r \in Known'
        PROVE  /\ q.id = r.id => q = r
               /\ q.id < r.id => q.timestamp <= r.timestamp
    <3>1. CASE q \in Known /\ r \in Known
      BY <3>1 DEF IInv, KnownInOrder
    <3>2. CASE q = RowOf(op) /\ r \in Known
      BY <1>2, <1>5, <1>10, <3>2
    <3>3. CASE q \in Known /\ r = RowOf(op)
      BY <1>2, <1>5, <1>10, <3>3
    <3>4. CASE q = RowOf(op) /\ r = RowOf(op)
      BY <1>2, <1>5, <3>4
    <3>. QED BY <1>6, <3>1, <3>2, <3>3, <3>4
  <2>. QED BY <2>1, <2>2 DEF KnownInOrder
<1>12. HistoriesSound'
  <2>1. op.id = recorded + 1 /\ op.timestamp = now
    BY DEF op
  <2>2. History(Append(operations, op), Known \cup {RowOf(op)})
    BY <1>2, <1>4, <1>10, <2>1, LongerHistory DEF IInv, HistoriesSound
  <2>3. History(operations, Known)'
    BY <1>1, <1>6, <2>2
  <2>4. (\A answer \in answers : History(answer, rows))'
    BY <1>1 DEF IInv, HistoriesSound
  <2>5. (backup # Nothing => History(backup, Known))'
    BY <1>1, <1>6, HistoryGrows DEF IInv, HistoriesSound
  <2>6. (cursor # Nothing => RowOf(cursor) \in Known)'
    BY <1>1, <1>6 DEF IInv, HistoriesSound
  <2>. QED BY <2>3, <2>4, <2>5, <2>6 DEF HistoriesSound
<1>. QED BY <1>1, <1>8, <1>9, <1>11, <1>12 DEF IInv

\* Rows that go from one place to another stay known; the rest of the memory may be lost.
LEMMA TableMoves ==
    ASSUME IInv,
           saves' \subseteq saves, rows \subseteq rows', rows' \subseteq rows \cup saves,
           Known' = Known, unsaved' \subseteq Known,
           answers' \in {answers, {}},
           <<operations, checkpoints>>' \in {<<operations, checkpoints>>, <<<<>>, <<>>>>},
           UNCHANGED <<database, now, recorded, backup, cursor>>
    PROVE  IInv'
<1>1. Known \subseteq Row /\ rows' \subseteq Row /\ saves' \subseteq Row /\ unsaved' \subseteq Row
  BY DEF IInv, TypeOK, Known
<1>2. \/ operations' = operations /\ checkpoints' = checkpoints
      \/ operations' = <<>> /\ checkpoints' = <<>>
  OBVIOUS
<1>3. /\ operations' \in Seq(Entry)
      /\ checkpoints' \in Seq(1..MaxTime) /\ Len(checkpoints') <= MAX_CHECKPOINTS
      /\ Ascending(checkpoints', now)
  <2>1. /\ <<>> \in Seq(Entry) /\ <<>> \in Seq(1..MaxTime) /\ Len(<<>>) <= MAX_CHECKPOINTS
        /\ Ascending(<<>>, now)
    BY LimitsAreNat DEF Ascending
  <2>. QED BY <1>2, <2>1 DEF IInv, TypeOK
<1>4. TypeOK'
  BY <1>1, <1>3 DEF IInv, TypeOK
<1>5. IsFiniteSet(saves') /\ IsFiniteSet(rows')
  <2>1. IsFiniteSet(rows \cup saves)
    BY FS_Union DEF IInv
  <2>. QED BY <2>1, FS_Subset DEF IInv
<1>6. KnownInOrder'
  BY DEF IInv, KnownInOrder
<1>7. HistoriesSound'
  <2>1. History(operations, Known)'
    BY <1>2, EmptyHistory DEF IInv, HistoriesSound
  <2>2. ASSUME NEW answer \in answers'
        PROVE  History(answer, rows')
    BY HistoryGrows DEF IInv, HistoriesSound
  <2>3. (\A answer \in answers : History(answer, rows))'
    BY <2>2 DEF History, Rows, InTimeOrder
  <2>. QED BY <2>1, <2>3 DEF IInv, HistoriesSound
<1>. QED BY <1>3, <1>4, <1>5, <1>6, <1>7 DEF IInv

\* With the table as it is, it is enough that what changes stays a history.
LEMMA MemoryMoves ==
    ASSUME IInv, UNCHANGED <<database, recorded, table>>,
           now' \in 1..MaxTime, now <= now',
           operations' \in Seq(Entry), History(operations', Known),
           checkpoints' \in Seq(1..MaxTime), Len(checkpoints') <= MAX_CHECKPOINTS,
           Ascending(checkpoints', now'),
           answers' \subseteq Seq(Row), \A answer \in answers' : History(answer, rows),
           backup' \in Seq(Entry) \cup {Nothing},
           backup' # Nothing => History(backup', Known),
           cursor' \in Entry \cup {Nothing},
           cursor' # Nothing => RowOf(cursor') \in Known
    PROVE  IInv'
<1>1. Known' = Known
  BY DEF Known, table
<1>2. TypeOK'
  BY DEF IInv, TypeOK, table
<1>3. KnownInOrder'
  <2>1. ASSUME NEW r \in Known
        PROVE  r.id <= recorded /\ r.timestamp <= now'
    <3>1. r \in Row /\ r.id <= recorded /\ r.timestamp <= now /\ now \in 1..MaxTime
      BY DEF IInv, TypeOK, Known, KnownInOrder
    <3>. QED BY <3>1, LimitsAreNat DEF Row
  <2>. QED BY <1>1, <2>1 DEF IInv, KnownInOrder
<1>4. HistoriesSound'
  BY <1>1 DEF HistoriesSound, table
<1>. QED BY <1>2, <1>3, <1>4 DEF IInv, table

\* What a poll brings is an operation of the history, and none before the client's last.
LEMMA PollTakes ==
    ASSUME IInv, Poll
    PROVE  /\ cursor' \in Entry /\ RowOf(cursor') \in Known
           /\ cursor # Nothing => cursor'.timestamp >= cursor.timestamp
<1> DEFINE n == Len(operations)
           k == IndexOf(cursor)
           later == LaterThan(cursor.timestamp)
<1>1. /\ operations \in Seq(Entry) /\ n \in Nat /\ DOMAIN operations = 1..n
      /\ \A i \in 1..n : operations[i] \in Entry /\ RowOf(operations[i]) \in Known
      /\ \A i, j \in 1..n : i < j => operations[i].timestamp <= operations[j].timestamp
  <2>1. /\ operations \in Seq(Entry) /\ Rows(operations) \subseteq Known
        /\ InTimeOrder(operations)
    BY DEF IInv, TypeOK, HistoriesSound, History
  <2>2. n \in Nat /\ DOMAIN operations = 1..n /\ \A i \in 1..n : operations[i] \in Entry
    BY <2>1, LenProperties, ElementOfSeq
  <2>. QED BY <2>1, <2>2 DEF Rows, InTimeOrder
<1>2. \A e \in Entry : e.timestamp \in Int
  BY LimitsAreNat DEF Entry
<1>3. CASE cursor = Nothing
  <2>1. operations # <<>> /\ cursor' = operations[n]
    BY <1>3 DEF Poll, Last
  <2>2. n \in 1..n
    BY <1>1, <2>1, EmptySeq
  <2>. QED BY <1>1, <1>3, <2>1, <2>2
<1>4. ASSUME cursor # Nothing, k > 0
      PROVE  /\ cursor' \in Entry /\ RowOf(cursor') \in Known
             /\ cursor'.timestamp >= cursor.timestamp
  <2> DEFINE I == {i \in 1..n : /\ operations[i].id = cursor.id
                                /\ operations[i].isRow = cursor.isRow
                                /\ HasId(operations[i])}
             rest == SubSeq(operations, k + 1, n)
  <2>1. k = IF I # {} THEN Min(I) ELSE 0
    BY DEF IndexOf, SelectInSeq
  <2>2. I \in SUBSET Nat /\ I # {}
    BY <1>4, <2>1
  <2>3. k \in I
    BY <2>1, <2>2, FirstPosition DEF Min
  <2>4. k \in 1..n /\ operations[k].id = cursor.id
    BY <2>3
  <2> HIDE DEF I, k
  <2>5. rest # <<>> /\ cursor' = rest[Len(rest)]
    BY <1>4 DEF Poll, OperationsSince, Last, k
  <2>6. /\ rest \in Seq(Entry) /\ Len(rest) = IF k + 1 <= n THEN n - k ELSE 0
        /\ \A i \in 1..n - k : rest[i] = operations[k + i]
    <3>1. k + 1 \in Int /\ n \in Int /\ \A i \in k + 1..n : operations[i] \in Entry
      BY <1>1, <2>4
    <3>2. /\ rest \in Seq(Entry) /\ Len(rest) = IF k + 1 <= n THEN n - (k + 1) + 1 ELSE 0
          /\ \A i \in 1..n - (k + 1) + 1 : rest[i] = operations[k + 1 + i - 1]
      BY <3>1, SubSeqProperties
    <3>3. n - (k + 1) + 1 = n - k /\ \A i \in 1..n - k : k + 1 + i - 1 = k + i
      BY <1>1, <2>4
    <3>. QED BY <3>2, <3>3
  <2> HIDE DEF rest
  <2>7. Len(rest) # 0
    BY <2>5, <2>6, EmptySeq
  <2>8. k < n /\ Len(rest) = n - k /\ n - k \in 1..n - k /\ k + (n - k) = n
    <3>1. k \in Int /\ n \in Int
      BY <1>1, <2>4
    <3>2. k \in Int /\ n \in Int /\ k + 1 <= n
      BY <2>6, <2>7, <3>1
    <3>3. Len(rest) = n - k
      BY <2>6, <3>2
    <3>4. k < n /\ n - k \in 1..n - k /\ k + (n - k) = n
      BY <3>2
    <3>. QED BY <3>3, <3>4
  <2>9. cursor' = operations[n]
    BY <2>5, <2>6, <2>8
  <2>10. cursor \in Entry /\ RowOf(cursor) \in Known
    BY <1>4 DEF IInv, TypeOK, HistoriesSound
  <2>11. RowOf(operations[k]).id = RowOf(cursor).id
    BY <2>4 DEF RowOf
  <2>12. RowOf(operations[k]) = RowOf(cursor)
    BY <1>1, <2>4, <2>10, <2>11 DEF IInv, KnownInOrder
  <2>13. operations[k].timestamp = cursor.timestamp
    BY <2>12 DEF RowOf
  <2>. QED BY <1>1, <1>2, <2>4, <2>8, <2>9, <2>10, <2>13
<1>5. ASSUME cursor # Nothing, ~(k > 0)
      PROVE  /\ cursor' \in Entry /\ RowOf(cursor') \in Known
             /\ cursor'.timestamp >= cursor.timestamp
  <2> DEFINE t == Filtered(operations, later)
  <2>1. later \in SUBSET DOMAIN operations
    BY DEF LaterThan
  <2>2. t \in Seq(Entry) /\ KeptInOrder(operations, later, t)
    BY <1>1, <2>1, FilteredKeeps
  <2>3. t # <<>> /\ cursor' = t[Len(t)]
    BY <1>5 DEF Poll, OperationsSince, Last
  <2> HIDE DEF t
  <2>4. Len(t) \in DOMAIN t
    <3>1. Len(t) \in Nat \ {0} /\ DOMAIN t = 1..Len(t)
      BY <2>2, <2>3, EmptySeq, LenProperties
    <3>. QED BY <3>1
  <2>5. PICK i \in later : cursor' = operations[i]
    BY <2>2, <2>3, <2>4 DEF KeptInOrder
  <2>6. i \in 1..n /\ operations[i].timestamp > cursor.timestamp
    BY <1>1, <2>5 DEF LaterThan
  <2>7. cursor \in Entry
    BY <1>5 DEF IInv, TypeOK
  <2>. QED BY <1>1, <1>2, <2>5, <2>6, <2>7
<1>. QED BY <1>3, <1>4, <1>5

LEMMA NextIInv == IInv /\ [Next]_vars => IInv'
<1> SUFFICES ASSUME IInv, [Next]_vars PROVE IInv'
  OBVIOUS
<1>1. /\ now \in 1..MaxTime /\ operations \in Seq(Entry) /\ History(operations, Known)
      /\ checkpoints \in Seq(1..MaxTime) /\ Len(checkpoints) <= MAX_CHECKPOINTS
      /\ Ascending(checkpoints, now)
      /\ answers \subseteq Seq(Row) /\ \A answer \in answers : History(answer, rows)
      /\ backup \in Seq(Entry) \cup {Nothing}
      /\ backup # Nothing => History(backup, Known)
      /\ cursor \in Entry \cup {Nothing}
      /\ cursor # Nothing => RowOf(cursor) \in Known
      /\ rows \in SUBSET Row /\ IsFiniteSet(rows) /\ rows \subseteq Known
      /\ MaxTime \in Nat \ {0}
  BY LimitsAreNat DEF IInv, TypeOK, HistoriesSound, Known
<1>2. CASE RecordOperation
  BY <1>2, RecordKeeps
<1>3. ASSUME NEW row \in saves, SaveOperation(row)
      PROVE  IInv'
  <2>1. /\ saves' \subseteq saves /\ rows \subseteq rows' /\ rows' \subseteq rows \cup saves
        /\ Known' = Known /\ unsaved' \subseteq Known
    BY <1>3 DEF SaveOperation, Known
  <2>. QED BY <1>3, <2>1, TableMoves DEF SaveOperation, memory
<1>4. CASE LoadFromDatabase
  <2>1. PICK answer \in GetOperations : answer # <<>> /\ answers' = answers \cup {answer}
    BY <1>4 DEF LoadFromDatabase
  <2>2. answer \in Sorted(rows)
    BY <2>1 DEF GetOperations
  <2>3. \A q, r \in rows : q.id = r.id => q = r
    BY <1>1 DEF IInv, KnownInOrder
  <2>4. answer \in Seq(Row) /\ History(answer, rows)
    BY <1>1, <2>2, <2>3, SortedHistory
  <2>5. answers' \subseteq Seq(Row) /\ \A a \in answers' : History(a, rows)
    BY <1>1, <2>1, <2>4
  <2>. QED BY <1>1, <1>4, <2>5, MemoryMoves DEF LoadFromDatabase, memory, table
<1>5. ASSUME NEW answer \in answers, LoadFinished(answer)
      PROVE  IInv'
  <2>1. answer \in Seq(Row) /\ History(answer, Known)
    BY <1>1, HistoryGrows
  <2>2. operations' \in Seq(Entry) /\ History(operations', Known)
    BY <1>5, <2>1, LoadedHistory DEF LoadFinished
  <2>3. answers' \subseteq Seq(Row) /\ \A a \in answers' : History(a, rows)
    BY <1>1, <1>5 DEF LoadFinished
  <2>. QED BY <1>1, <1>5, <2>2, <2>3, MemoryMoves DEF LoadFinished, memory, table
<1>7. ASSUME NEW i \in DOMAIN operations, MarkReverted(i)
      PROVE  IInv'
  <2>1. operations' \in Seq(Entry) /\ History(operations', Known)
    BY <1>1, <1>7, RevertedHistory DEF MarkReverted
  <2>. QED BY <1>1, <1>7, <2>1, MemoryMoves DEF MarkReverted, memory, table
<1>8. CASE CreateCheckpoint
  <2>1. /\ checkpoints' \in Seq(1..MaxTime) /\ Len(checkpoints') <= MAX_CHECKPOINTS
        /\ Ascending(checkpoints', now)
    BY <1>1, <1>8, CheckpointAdded DEF CreateCheckpoint
  <2>. QED BY <1>1, <1>8, <2>1, MemoryMoves DEF CreateCheckpoint, memory, table
<1>9. CASE ExportOperations
  BY <1>1, <1>9, MemoryMoves DEF ExportOperations, memory, table
<1>10. CASE ImportOperations
  BY <1>1, <1>10, MemoryMoves DEF ImportOperations, memory, table
<1>11. CASE ClearRoom
  <2>1. /\ <<>> \in Seq(Entry) /\ <<>> \in Seq(1..MaxTime) /\ Len(<<>>) <= MAX_CHECKPOINTS
        /\ Ascending(<<>>, now)
    BY LimitsAreNat DEF Ascending
  <2>. QED BY <1>1, <1>11, <2>1, EmptyHistory, MemoryMoves DEF ClearRoom, memory, table
<1>12. CASE PruneOldOperations
  <2>1. operations' \in Seq(Entry) /\ History(operations', Known)
    BY <1>1, <1>12, FilteredHistory DEF PruneOldOperations, LaterThan
  <2>. QED BY <1>1, <1>12, <2>1, MemoryMoves DEF PruneOldOperations, memory, table
<1>13. CASE Poll
  <2>1. cursor' \in Entry /\ RowOf(cursor') \in Known
    BY <1>1, <1>13, PollTakes
  <2>. QED BY <1>1, <1>13, <2>1, MemoryMoves DEF Poll, memory, table
<1>14. CASE Crash
  <2>1. PICK made \in SUBSET saves : /\ rows' = rows \cup made
                                     /\ unsaved' = unsaved \cup (saves \ made)
    BY <1>14 DEF Crash
  <2>2. /\ saves' \subseteq saves /\ rows \subseteq rows' /\ rows' \subseteq rows \cup saves
        /\ Known' = Known /\ unsaved' \subseteq Known
    BY <1>14, <2>1 DEF Crash, Known
  <2>. QED BY <1>14, <2>2, TableMoves DEF Crash
<1>15. CASE Tick
  <2>1. now' \in 1..MaxTime /\ now <= now'
    BY <1>1, <1>15 DEF Tick
  <2>2. Ascending(checkpoints, now')
    <3>1. \A i \in DOMAIN checkpoints : checkpoints[i] \in Int
      BY <1>1, LenProperties, ElementOfSeq
    <3>. QED BY <1>1, <2>1, <3>1 DEF Ascending
  <2>. QED BY <1>1, <1>15, <2>1, <2>2, MemoryMoves DEF Tick, memory, table
<1>16. CASE UNCHANGED vars
  BY <1>1, <1>16, MemoryMoves DEF vars, memory, table
<1>. QED BY <1>2, <1>3, <1>4, <1>5, <1>7, <1>8, <1>9, <1>10, <1>11, <1>12, <1>13,
           <1>14, <1>15, <1>16 DEF Next

\* The invariant holds in every reachable state.
THEOREM Invariant == Spec => []IInv
<1>. QED BY InitIInv, NextIInv, PTL DEF Spec

\* Whatever is recorded, saved, loaded, restored, reverted, pruned or lost in a crash, the
\* state of the history manager and of its table is well formed.
THEOREM TypeCorrect == Spec => []TypeOK
<1>1. IInv => TypeOK
  BY DEF IInv
<1>. QED BY Invariant, <1>1, PTL

\* The array of a room is always in the order of time without a repetition, and the searches
\* for checkpoints find the right ones.
THEOREM HistoryInOrder == Spec => []InOrder
<1>1. IInv => InOrder
  <2> SUFFICES ASSUME IInv PROVE InOrder
    OBVIOUS
  <2>1. CheckpointsFound
    BY SearchesFind DEF IInv, TypeOK
  <2>2. InTimeOrder(operations) /\ NoOperationTwice
    BY DEF IInv, HistoriesSound, History, NoOperationTwice
  <2>. QED BY <2>1, <2>2 DEF InOrder
<1>. QED BY Invariant, <1>1, PTL

\* No entry leaves the memory of which the table does not know, or will not, unless its own
\* insert was not made.
THEOREM NothingForgotten == Spec => HistoryKept
<1>1. IInv /\ [Next]_vars =>
          [\A row \in Rows(operations) \ Rows(operations') :
               \/ ClearRoom \/ ImportOperations \/ PruneOldOperations
               \/ row \in saves \cup rows \cup unsaved]_vars
  BY DEF IInv, HistoriesSound, History, Known
<1>. QED BY Invariant, <1>1, PTL DEF Spec, HistoryKept

\* A client that follows the history never goes back in time: an operation has one time,
\* wherever it is found, so what stands behind it is not earlier.
THEOREM ClientsAdvance == Spec => PollsAdvance
<1>1. IInv /\ [Next]_vars =>
          [cursor # Nothing => cursor'.timestamp >= cursor.timestamp]_vars
  <2> SUFFICES ASSUME IInv, [Next]_vars, cursor # Nothing
               PROVE  cursor'.timestamp >= cursor.timestamp \/ UNCHANGED vars
    OBVIOUS
  <2>1. CASE Poll
    BY <2>1, PollTakes
  <2>2. CASE cursor' = cursor
    <3>1. cursor \in Entry
      BY DEF IInv, TypeOK
    <3>. QED BY <2>2, <3>1, LimitsAreNat DEF Entry
  <2>3. cursor' = cursor \/ Poll
    BY DEF Next, vars, RecordOperation, SaveOperation, LoadFromDatabase,
           LoadFinished, MarkReverted, CreateCheckpoint, ExportOperations, ImportOperations,
           ClearRoom, PruneOldOperations, Crash, Tick
  <2>. QED BY <2>1, <2>2, <2>3
<1>. QED BY Invariant, <1>1, PTL DEF Spec, PollsAdvance
=============================================================================
