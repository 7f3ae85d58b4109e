------------------------ MODULE TokenManager_proofs ------------------------
(***************************************************************************)
(* What TokenManager.tla states of the cache and the table, for every set  *)
(* of tokens and validations, every expiry and every TTL.                  *)
(***************************************************************************)
EXTENDS TokenManager, TLAPS

USE TokensHaveUsers, PositiveTimes

\* A partial table of ages, as the provers can use it.
LEMMA PartialAgesMembers ==
    ASSUME NEW f
    PROVE  f \in PartialAges <=> \E S \in SUBSET Tokens : f \in [S -> Age]
BY DEF PartialAges

\* Ages stay ages, grow and keep their order as time passes.
LEMMA OlderFacts ==
    /\ MaxAge \in Nat /\ TOKEN_EXPIRY + VALIDATION_CACHE_TTL < MaxAge
    /\ 0 \in Age
    /\ \A a \in Age : Older(a) \in Age
    /\ \A a, b \in Age : a <= b => Older(a) <= Older(b)
    /\ \A a, b \in Age : a <= TOKEN_EXPIRY + b => Older(a) <= TOKEN_EXPIRY + Older(b)
BY DEF MaxAge, Age, Older

\* Storing an age keeps the table one of ages.
LEMMA PutFacts ==
    ASSUME NEW f \in PartialAges, NEW t \in Tokens, NEW a \in Age
    PROVE  /\ Put(f, t, a) \in PartialAges
           /\ DOMAIN Put(f, t, a) = DOMAIN f \cup {t}
           /\ Put(f, t, a)[t] = a
           /\ \A s \in DOMAIN f : s # t => Put(f, t, a)[s] = f[s]
<1>1. PICK S \in SUBSET Tokens : f \in [S -> Age]
  BY PartialAgesMembers
<1>2. Put(f, t, a) \in [S \cup {t} -> Age]
  BY <1>1 DEF Put
<1>3. S \cup {t} \in SUBSET Tokens
  OBVIOUS
<1>. QED
  BY <1>1, <1>2, <1>3, PartialAgesMembers DEF Put

\* Dropping entries keeps the others as they are.
LEMMA WithoutFacts ==
    ASSUME NEW f \in PartialAges, NEW R
    PROVE  /\ Without(f, R) \in PartialAges
           /\ DOMAIN Without(f, R) \subseteq DOMAIN f
           /\ \A s \in DOMAIN Without(f, R) : Without(f, R)[s] = f[s]
<1>1. PICK S \in SUBSET Tokens : f \in [S -> Age]
  BY PartialAgesMembers
<1>2. Without(f, R) \in [S \ R -> Age]
  BY <1>1 DEF Without, Restrict
<1>3. S \ R \in SUBSET Tokens
  OBVIOUS
<1>. QED
  BY <1>1, <1>2, <1>3, PartialAgesMembers DEF Without, Restrict

\* Time changes the ages of a table and not its domain.
LEMMA AllOlderFacts ==
    ASSUME NEW f \in PartialAges
    PROVE  /\ AllOlder(f) \in PartialAges
           /\ DOMAIN AllOlder(f) = DOMAIN f
           /\ \A s \in DOMAIN f : AllOlder(f)[s] = Older(f[s])
<1>1. PICK S \in SUBSET Tokens : f \in [S -> Age]
  BY PartialAgesMembers
<1>2. AllOlder(f) \in [S -> Age]
  BY <1>1, OlderFacts DEF AllOlder
<1>. QED
  BY <1>1, <1>2, PartialAgesMembers DEF AllOlder

\* The empty table, and what membership says of any table.
LEMMA PartialAgesFacts ==
    /\ NoAges \in PartialAges
    /\ DOMAIN NoAges = {}
    /\ \A f \in PartialAges : DOMAIN f \subseteq Tokens /\ \A t \in DOMAIN f : f[t] \in Age
<1>1. NoAges \in [{} -> Age]
  BY DEF NoAges
<1>2. NoAges \in PartialAges
  BY <1>1, PartialAgesMembers
<1>3. ASSUME NEW f \in PartialAges
      PROVE  DOMAIN f \subseteq Tokens /\ \A t \in DOMAIN f : f[t] \in Age
  BY PartialAgesMembers
<1>. QED
  BY <1>2, <1>3 DEF NoAges

----------------------------------------------------------------------------
(* The inductive invariant *)

\* Rows and validations that await the table exist only with a database and for tokens that
\* were issued.
RowsSound ==
    \A t \in Tokens : auth_tokens[t] # "absent" => ready /\ t \in DOMAIN tokenAge

\* A validation under way began before its token expired.
CallsSound ==
    \A c \in Calls : calls[c] # Idle =>
        /\ calls[c].token \in DOMAIN tokenAge
        /\ tokenAge[calls[c].token] <= TOKEN_EXPIRY + calls[c].age

\* An entry of the cache belongs to a validation that began before its token expired.
CacheSound ==
    \A t \in DOMAIN validationCache :
        /\ t \in DOMAIN tokenAge
        /\ tokenAge[t] <= TOKEN_EXPIRY + validationCache[t]

\* A row that ceased to be valid never is again, and everything that may accept its token
\* began no later than the revocation.
RevokedSound ==
    \A t \in DOMAIN revokedAge :
        /\ ready /\ t \in DOMAIN tokenAge
        /\ auth_tokens[t] \notin {"valid", "saving"}
        /\ t \in DOMAIN validationCache => revokedAge[t] <= validationCache[t]
        /\ \A c \in Calls :
              calls[c].phase = "found" /\ calls[c].token = t => revokedAge[t] <= calls[c].age

IInv == TypeOK /\ RowsSound /\ CallsSound /\ CacheSound /\ RevokedSound

\* What the type of a validation under way says of its fields.
LEMMA CallFacts ==
    ASSUME TypeOK, NEW c \in Calls
    PROVE  /\ calls[c] # Idle => /\ calls[c].token \in Tokens
                                 /\ calls[c].age \in Age
                                 /\ calls[c].phase \in {"asked", "found"}
           /\ calls[c] = Idle => calls[c].phase = "idle"
BY DEF TypeOK, Call, Idle

\* Nothing is issued, cached or revoked at first.
LEMMA InitIInv == Init => IInv
<1>. SUFFICES ASSUME Init PROVE IInv
  OBVIOUS
<1>1. TypeOK
  BY PartialAgesFacts DEF Init, TypeOK
<1>2. RowsSound /\ CallsSound /\ CacheSound /\ RevokedSound
  BY PartialAgesFacts DEF Init, RowsSound, CallsSound, CacheSound, RevokedSound
<1>. QED
  BY <1>1, <1>2 DEF IInv

\* A row that is marked, whichever function marks it, keeps the invariant when the cache
\* stays and no validation starts or moves on.
LEMMA InvalidatedIInv ==
    ASSUME IInv, NEW t \in Tokens, RowInvalidated(t),
           UNCHANGED <<ready, tokenAge, validationCache, cleanupInterval, cleaning>>,
           calls' \in [Calls -> Call \cup {Idle}],
           \A c \in Calls : calls'[c] = calls[c] \/ calls'[c] = Idle
    PROVE  IInv'
<1>. USE DEF IInv
<1>0. ASSUME auth_tokens[t] = "valid"
      PROVE  /\ revokedAge' \in PartialAges
             /\ DOMAIN revokedAge' = DOMAIN revokedAge \cup {t}
             /\ revokedAge'[t] = 0
             /\ \A s \in DOMAIN revokedAge : s # t => revokedAge'[s] = revokedAge[s]
  <2>1. revokedAge' = Put(revokedAge, t, 0)
    BY <1>0 DEF RowInvalidated
  <2>2. revokedAge \in PartialAges /\ 0 \in Age
    BY OlderFacts DEF TypeOK
  <2>3. /\ Put(revokedAge, t, 0) \in PartialAges
        /\ DOMAIN Put(revokedAge, t, 0) = DOMAIN revokedAge \cup {t}
        /\ Put(revokedAge, t, 0)[t] = 0
        /\ \A s \in DOMAIN revokedAge : s # t => Put(revokedAge, t, 0)[s] = revokedAge[s]
    BY <2>2, PutFacts, Zenon
  <2>. QED
    BY <2>1, <2>3, Zenon
<1>a. auth_tokens[t] # "valid" => UNCHANGED revokedAge
  BY DEF RowInvalidated
<1>b. \A s \in Tokens : auth_tokens'[s] = auth_tokens[s] \/ (s = t /\ auth_tokens[s] = "valid" /\ auth_tokens'[s] = "invalid")
  BY DEF RowInvalidated, TypeOK
<1>1. TypeOK'
  BY <1>0, <1>a DEF TypeOK, RowInvalidated
<1>2. RowsSound'
  BY <1>b DEF RowsSound
<1>3. CallsSound'
  BY DEF CallsSound
<1>4. CacheSound'
  BY DEF CacheSound
<1>5. RevokedSound'
  <2>. SUFFICES ASSUME NEW s \in DOMAIN revokedAge'
                PROVE  /\ ready /\ s \in DOMAIN tokenAge
                       /\ auth_tokens'[s] \notin {"valid", "saving"}
                       /\ s \in DOMAIN validationCache => revokedAge'[s] <= validationCache[s]
                       /\ \A c \in Calls : calls'[c].phase = "found" /\ calls'[c].token = s
                                              => revokedAge'[s] <= calls'[c].age
    BY DEF RevokedSound
  <2>1. CASE s \in DOMAIN revokedAge /\ (auth_tokens[t] # "valid" \/ s # t)
    <3>1. revokedAge'[s] = revokedAge[s] /\ auth_tokens'[s] = auth_tokens[s]
      BY <2>1, <1>0, <1>a, <1>b, PartialAgesFacts DEF TypeOK
    <3>. QED
      BY <3>1, <2>1 DEF RevokedSound, Idle
  <2>2. CASE s = t /\ auth_tokens[t] = "valid"
    <3>1. revokedAge'[s] = 0 /\ auth_tokens'[s] = "invalid"
      BY <2>2, <1>0 DEF RowInvalidated, TypeOK
    <3>2. s \in DOMAIN validationCache => validationCache[s] \in Nat
      BY PartialAgesFacts, OlderFacts DEF TypeOK, Age
    <3>3. \A c \in Calls : calls'[c].phase = "found" => calls'[c].age \in Nat
      BY CallFacts, OlderFacts DEF Age, Idle
    <3>. QED
      BY <2>2, <3>1, <3>2, <3>3 DEF RowsSound
  <2>. QED
    BY <2>1, <2>2, <1>0, <1>a
<1>. QED
  BY <1>1, <1>2, <1>3, <1>4, <1>5

----------------------------------------------------------------------------
(* The steps *)

\* A new token has no row that counts, no entry and no validation.
LEMMA GenerateIInv == ASSUME IInv, NEW t \in Tokens, GenerateToken(t) PROVE IInv'
<1>. USE DEF IInv, GenerateToken
<1>1. /\ tokenAge' \in PartialAges
      /\ DOMAIN tokenAge' = DOMAIN tokenAge \cup {t}
      /\ \A s \in DOMAIN tokenAge : tokenAge'[s] = tokenAge[s]
  <2>1. tokenAge \in PartialAges /\ 0 \in Age
    BY OlderFacts DEF TypeOK
  <2>2. /\ Put(tokenAge, t, 0) \in PartialAges
        /\ DOMAIN Put(tokenAge, t, 0) = DOMAIN tokenAge \cup {t}
        /\ \A s \in DOMAIN tokenAge : s # t => Put(tokenAge, t, 0)[s] = tokenAge[s]
    BY <2>1, PutFacts, Zenon
  <2>. QED
    BY <2>2
<1>2. \A s \in Tokens : s # t => auth_tokens'[s] = auth_tokens[s]
  BY DEF TypeOK
<1>3. TypeOK'
  BY <1>1 DEF TypeOK
<1>4. RowsSound'
  BY <1>1, <1>2 DEF RowsSound, TypeOK
<1>5. CallsSound'
  BY <1>1 DEF CallsSound
<1>6. CacheSound'
  BY <1>1 DEF CacheSound
<1>7. RevokedSound'
  BY <1>1, <1>2, PartialAgesFacts DEF RevokedSound, TypeOK
<1>. QED
  BY <1>3, <1>4, <1>5, <1>6, <1>7

\* The row of a token being saved belongs to no revoked token.
LEMMA SaveIInv == ASSUME IInv, NEW t \in Tokens, SaveToken(t) PROVE IInv'
<1>. USE DEF IInv, SaveToken
<1>1. \A s \in Tokens : s # t => auth_tokens'[s] = auth_tokens[s]
  BY DEF TypeOK
<1>2. TypeOK'
  BY DEF TypeOK
<1>3. RowsSound'
  BY <1>1 DEF RowsSound
<1>4. CallsSound' /\ CacheSound'
  BY DEF CallsSound, CacheSound
<1>5. RevokedSound'
  BY <1>1, PartialAgesFacts DEF RevokedSound, TypeOK
<1>. QED
  BY <1>2, <1>3, <1>4, <1>5

\* A validation that begins does so before the expiry; without a database nothing is revoked.
LEMMA ValidateIInv ==
    ASSUME IInv, NEW c \in Calls, NEW t \in Tokens, ValidateToken(c, t) PROVE IInv'
<1>. USE DEF IInv, ValidateToken
<1>0. t \in DOMAIN tokenAge /\ tokenAge[t] \in Age /\ tokenAge[t] <= TOKEN_EXPIRY
  BY PartialAgesFacts, OlderFacts DEF Issued, Expired, TypeOK, Age
<1>1. CASE ready
  <2>1. calls' = [calls EXCEPT ![c] = [token |-> t, age |-> 0, phase |-> "asked"]]
        /\ UNCHANGED validationCache
    BY <1>1
  <2>2. \A d \in Calls : d # c => calls'[d] = calls[d]
    BY <2>1 DEF TypeOK
  <2>3. calls'[c] = [token |-> t, age |-> 0, phase |-> "asked"]
    BY <2>1 DEF TypeOK
  <2>4. TypeOK'
    BY <2>1, OlderFacts DEF TypeOK, Call
  <2>5. RowsSound' /\ CacheSound'
    BY <2>1 DEF RowsSound, CacheSound
  <2>6. CallsSound'
    BY <2>2, <2>3, <1>0 DEF CallsSound, Age
  <2>7. RevokedSound'
    BY <2>1, <2>2, <2>3 DEF RevokedSound
  <2>. QED
    BY <2>4, <2>5, <2>6, <2>7
<1>2. CASE ~ready
  <2>1. validationCache' = Put(validationCache, t, 0) /\ UNCHANGED calls
    BY <1>2
  <2>2. validationCache \in PartialAges /\ 0 \in Age
    BY OlderFacts DEF TypeOK
  <2>3. /\ validationCache' \in PartialAges
        /\ DOMAIN validationCache' = DOMAIN validationCache \cup {t}
        /\ validationCache'[t] = 0
        /\ \A s \in DOMAIN validationCache : s # t => validationCache'[s] = validationCache[s]
    <3>1. /\ Put(validationCache, t, 0) \in PartialAges
          /\ DOMAIN Put(validationCache, t, 0) = DOMAIN validationCache \cup {t}
          /\ Put(validationCache, t, 0)[t] = 0
          /\ \A s \in DOMAIN validationCache :
                s # t => Put(validationCache, t, 0)[s] = validationCache[s]
      BY <2>2, PutFacts, Zenon
    <3>. QED
      BY <2>1, <3>1, Zenon
  <2>4. TypeOK'
    BY <2>1, <2>3 DEF TypeOK
  <2>5. RowsSound' /\ CallsSound'
    BY <2>1 DEF RowsSound, CallsSound
  <2>6. CacheSound'
    BY <2>3, <1>0 DEF CacheSound, Age
  <2>7. RevokedSound'
    BY <1>2 DEF RevokedSound
  <2>. QED
    BY <2>4, <2>5, <2>6, <2>7
<1>. QED
  BY <1>1, <1>2

\* A select finds the row only of a token that is not revoked.
LEMMA AnswerIInv == ASSUME IInv, NEW c \in Calls, DatabaseAnswers(c) PROVE IInv'
<1>. USE DEF IInv, DatabaseAnswers
<1>0. calls[c] # Idle /\ calls[c].token \in Tokens /\ calls[c].age \in Age
  BY CallFacts
<1>1. \A d \in Calls : d # c => calls'[d] = calls[d]
  BY DEF TypeOK
<1>2. \/ calls'[c] = Idle
      \/ /\ auth_tokens[calls[c].token] = "valid"
         /\ calls'[c] = [calls[c] EXCEPT !.phase = "found"]
  BY DEF TypeOK
<1>3. calls[c] \in Call
  BY <1>0 DEF TypeOK
<1>4. calls'[c] \in Call \cup {Idle}
  BY <1>2, <1>3 DEF Call
<1>5. TypeOK'
  BY <1>4 DEF TypeOK
<1>6. RowsSound' /\ CacheSound'
  BY DEF RowsSound, CacheSound
<1>7. calls'[c] # Idle => calls'[c].token = calls[c].token /\ calls'[c].age = calls[c].age
  BY <1>2, <1>3 DEF Call
<1>8. CallsSound'
  BY <1>0, <1>1, <1>7 DEF CallsSound
<1>9. RevokedSound'
  BY <1>1, <1>2, <1>3, <1>7 DEF RevokedSound, Idle
<1>. QED
  BY <1>5, <1>6, <1>8, <1>9

\* The three ways a row is marked: by revokeToken and by both checks of the expiry.
LEMMA MarkIInv ==
    ASSUME IInv, NEW t \in Tokens, ValidateExpired(t) \/ RevokeToken(t) PROVE IInv'
<1>1. /\ RowInvalidated(t)
      /\ UNCHANGED <<ready, tokenAge, validationCache, calls, cleanupInterval, cleaning>>
  BY DEF ValidateExpired, RevokeToken
<1>2. calls' \in [Calls -> Call \cup {Idle}]
  BY <1>1 DEF IInv, TypeOK
<1>3. \A c \in Calls : calls'[c] = calls[c] \/ calls'[c] = Idle
  BY <1>1
<1>. QED
  BY <1>1, <1>2, <1>3, InvalidatedIInv

\* A validation that accepts makes an entry that is as old as the validation is.
LEMMA FinishIInv == ASSUME IInv, NEW c \in Calls, FinishValidation(c) PROVE IInv'
<1>. DEFINE t == calls[c].token
<1>0. /\ calls[c] # Idle /\ t \in Tokens /\ calls[c].age \in Age
      /\ calls[c].phase = "found"
  BY CallFacts DEF FinishValidation, IInv
<1>1. /\ calls' = [calls EXCEPT ![c] = Idle]
      /\ UNCHANGED <<ready, tokenAge, cleanupInterval, cleaning>>
  BY DEF FinishValidation
<1>2. /\ calls' \in [Calls -> Call \cup {Idle}]
      /\ \A d \in Calls : calls'[d] = calls[d] \/ calls'[d] = Idle
  BY <1>1 DEF IInv, TypeOK
<1>3. CASE Expired(t)
  <2>1. RowInvalidated(t) /\ UNCHANGED validationCache
    BY <1>3 DEF FinishValidation
  <2>. QED
    BY <1>0, <1>1, <1>2, <2>1, InvalidatedIInv
<1>4. CASE ~Expired(t)
  <2>. USE DEF IInv
  <2>1. validationCache' = Put(validationCache, t, calls[c].age)
        /\ UNCHANGED <<auth_tokens, revokedAge>>
    BY <1>4 DEF FinishValidation
  <2>2. validationCache \in PartialAges
    BY DEF TypeOK
  <2>3. /\ validationCache' \in PartialAges
        /\ DOMAIN validationCache' = DOMAIN validationCache \cup {t}
        /\ validationCache'[t] = calls[c].age
        /\ \A s \in DOMAIN validationCache : s # t => validationCache'[s] = validationCache[s]
    <3>1. /\ Put(validationCache, t, calls[c].age) \in PartialAges
          /\ DOMAIN Put(validationCache, t, calls[c].age) = DOMAIN validationCache \cup {t}
          /\ Put(validationCache, t, calls[c].age)[t] = calls[c].age
          /\ \A s \in DOMAIN validationCache :
                s # t => Put(validationCache, t, calls[c].age)[s] = validationCache[s]
      BY <1>0, <2>2, PutFacts, Zenon
    <3>. QED
      BY <2>1, <3>1, Zenon
  <2>4. TypeOK'
    BY <1>1, <1>2, <2>1, <2>3 DEF TypeOK
  <2>5. RowsSound' /\ CallsSound'
    BY <1>1, <1>2, <2>1 DEF RowsSound, CallsSound
  <2>6. CacheSound'
    <3>1. t \in DOMAIN tokenAge /\ tokenAge[t] <= TOKEN_EXPIRY + calls[c].age
      BY <1>0 DEF CallsSound
    <3>. HIDE DEF t
    <3>. QED
      BY <1>1, <2>3, <3>1 DEF CacheSound
  <2>7. RevokedSound'
    <3>. SUFFICES ASSUME NEW s \in DOMAIN revokedAge
                  PROVE  /\ ready /\ s \in DOMAIN tokenAge
                         /\ auth_tokens[s] \notin {"valid", "saving"}
                         /\ s \in DOMAIN validationCache' => revokedAge[s] <= validationCache'[s]
                         /\ \A d \in Calls : calls'[d].phase = "found" /\ calls'[d].token = s
                                                => revokedAge[s] <= calls'[d].age
      BY <1>1, <2>1 DEF RevokedSound
    <3>1. s = t => revokedAge[s] <= calls[c].age
      BY <1>0 DEF RevokedSound
    <3>2. \A d \in Calls : calls'[d].phase = "found" /\ calls'[d].token = s
                              => revokedAge[s] <= calls'[d].age
      BY <1>2 DEF RevokedSound, Idle
    <3>3. s \in DOMAIN validationCache /\ s # t => revokedAge[s] <= validationCache'[s]
      BY <2>3 DEF RevokedSound
    <3>. HIDE DEF t
    <3>. QED
      BY <2>3, <3>1, <3>2, <3>3 DEF RevokedSound
  <2>. QED
    BY <2>4, <2>5, <2>6, <2>7
<1>. QED
  BY <1>3, <1>4

\* Whatever is dropped from the cache, what is left in it is as it was.
LEMMA DropIInv ==
    ASSUME IInv, NEW f \in PartialAges, validationCache' = f,
           DOMAIN f \subseteq DOMAIN validationCache,
           \A s \in DOMAIN f : f[s] = validationCache[s],
           UNCHANGED <<ready, tokenAge, auth_tokens, calls, revokedAge>>,
           cleanupInterval' \in BOOLEAN, cleaning' \in BOOLEAN
    PROVE  IInv'
<1>. USE DEF IInv
<1>1. TypeOK'
  BY DEF TypeOK
<1>2. RowsSound' /\ CallsSound'
  BY DEF RowsSound, CallsSound
<1>3. CacheSound'
  BY DEF CacheSound
<1>4. RevokedSound'
  BY DEF RevokedSound
<1>. QED
  BY <1>1, <1>2, <1>3, <1>4

\* Clearing, cleaning and stopping drop entries.
LEMMA CacheStepsIInv ==
    ASSUME IInv, ClearValidationCache \/ CleanupCache \/ Shutdown PROVE IInv'
<1>0. /\ validationCache \in PartialAges
      /\ cleanupInterval \in BOOLEAN /\ cleaning \in BOOLEAN
  BY DEF IInv, TypeOK
<1>1. ASSUME NEW R, validationCache' = Without(validationCache, R),
             UNCHANGED <<ready, tokenAge, auth_tokens, calls, revokedAge>>,
             cleanupInterval' \in BOOLEAN, cleaning' \in BOOLEAN
      PROVE  IInv'
  <2>1. /\ Without(validationCache, R) \in PartialAges
        /\ DOMAIN Without(validationCache, R) \subseteq DOMAIN validationCache
        /\ \A s \in DOMAIN Without(validationCache, R) :
              Without(validationCache, R)[s] = validationCache[s]
    BY <1>0, WithoutFacts, Zenon
  <2>. QED
    BY <1>1, <2>1, DropIInv
<1>2. CASE ClearValidationCache
  <2>1. PICK u \in UserIds, more \in SUBSET Tokens :
          validationCache' = Without(validationCache, {t \in Tokens : TokenUser[t] = u} \cup more)
    BY <1>2 DEF ClearValidationCache
  <2>2. UNCHANGED <<ready, tokenAge, auth_tokens, calls, revokedAge>>
        /\ cleanupInterval' \in BOOLEAN /\ cleaning' \in BOOLEAN
    BY <1>0, <1>2 DEF ClearValidationCache
  <2>. QED
    BY <2>1, <2>2, <1>1
<1>3. CASE CleanupCache
  BY <1>0, <1>1, <1>3 DEF CleanupCache
<1>4. CASE Shutdown
  BY <1>0, <1>4, PartialAgesFacts, DropIInv DEF Shutdown
<1>. QED
  BY <1>2, <1>3, <1>4

\* The table's cleanup only deletes rows.
LEMMA CleanupRowsIInv == ASSUME IInv, CleanupRows PROVE IInv'
<1>. USE DEF IInv, CleanupRows
<1>1. \A t \in Tokens : auth_tokens'[t] \in {auth_tokens[t], "absent"}
  BY DEF TypeOK
<1>2. auth_tokens' \in [Tokens -> {"saving", "absent", "valid", "invalid"}]
  BY DEF TypeOK
<1>3. TypeOK'
  BY <1>2 DEF TypeOK
<1>4. RowsSound'
  BY <1>1 DEF RowsSound
<1>5. CallsSound' /\ CacheSound'
  BY DEF CallsSound, CacheSound
<1>6. RevokedSound'
  BY <1>1, PartialAgesFacts DEF RevokedSound, TypeOK
<1>. QED
  BY <1>3, <1>4, <1>5, <1>6

\* Everything grows old together.
LEMMA TickIInv == ASSUME IInv, Tick PROVE IInv'
<1>. USE DEF IInv
<1>0. /\ tokenAge \in PartialAges /\ validationCache \in PartialAges
      /\ revokedAge \in PartialAges
  BY DEF TypeOK
<1>1. /\ tokenAge' \in PartialAges /\ DOMAIN tokenAge' = DOMAIN tokenAge
      /\ \A s \in DOMAIN tokenAge : tokenAge'[s] = Older(tokenAge[s])
  <2>1. /\ AllOlder(tokenAge) \in PartialAges /\ DOMAIN AllOlder(tokenAge) = DOMAIN tokenAge
        /\ \A s \in DOMAIN tokenAge : AllOlder(tokenAge)[s] = Older(tokenAge[s])
    BY <1>0, AllOlderFacts, Zenon
  <2>. QED
    BY <2>1 DEF Tick
<1>2. /\ validationCache' \in PartialAges /\ DOMAIN validationCache' = DOMAIN validationCache
      /\ \A s \in DOMAIN validationCache : validationCache'[s] = Older(validationCache[s])
  <2>1. /\ AllOlder(validationCache) \in PartialAges
        /\ DOMAIN AllOlder(validationCache) = DOMAIN validationCache
        /\ \A s \in DOMAIN validationCache :
              AllOlder(validationCache)[s] = Older(validationCache[s])
    BY <1>0, AllOlderFacts, Zenon
  <2>. QED
    BY <2>1 DEF Tick
<1>3. /\ revokedAge' \in PartialAges /\ DOMAIN revokedAge' = DOMAIN revokedAge
      /\ \A s \in DOMAIN revokedAge : revokedAge'[s] = Older(revokedAge[s])
  <2>1. /\ AllOlder(revokedAge) \in PartialAges
        /\ DOMAIN AllOlder(revokedAge) = DOMAIN revokedAge
        /\ \A s \in DOMAIN revokedAge : AllOlder(revokedAge)[s] = Older(revokedAge[s])
    BY <1>0, AllOlderFacts, Zenon
  <2>. QED
    BY <2>1 DEF Tick
<1>4. ASSUME NEW c \in Calls
      PROVE  /\ calls[c] = Idle => calls'[c] = Idle
             /\ calls[c] # Idle => /\ calls'[c] \in Call
                                   /\ calls'[c].token = calls[c].token
                                   /\ calls'[c].phase = calls[c].phase
                                   /\ calls'[c].age = Older(calls[c].age)
                                   /\ calls[c].age \in Age
  <2>1. calls'[c] = IF calls[c] = Idle THEN Idle
                    ELSE [calls[c] EXCEPT !.age = Older(calls[c].age)]
    BY DEF Tick
  <2>2. CASE calls[c] # Idle
    <3>1. calls[c] \in Call
      BY <2>2 DEF TypeOK
    <3>2. calls[c].age \in Age /\ Older(calls[c].age) \in Age
      BY <3>1, OlderFacts DEF Call
    <3>. QED
      BY <2>1, <2>2, <3>1, <3>2 DEF Call
  <2>. QED
    BY <2>1, <2>2
<1>5. UNCHANGED <<ready, auth_tokens, cleanupInterval, cleaning>>
  BY DEF Tick
<1>6. TypeOK'
  <2>1. calls' \in [Calls -> Call \cup {Idle}]
    <3>1. calls' = [c \in Calls |->
                      IF calls[c] = Idle THEN Idle ELSE [calls[c] EXCEPT !.age = Older(@)]]
      BY DEF Tick
    <3>. QED
      BY <3>1, <1>4
  <2>. QED
    BY <1>1, <1>2, <1>3, <1>5, <2>1 DEF TypeOK
<1>7. RowsSound'
  BY <1>1, <1>5 DEF RowsSound
<1>8. CallsSound'
  BY <1>0, <1>1, <1>4, OlderFacts, PartialAgesFacts DEF CallsSound
<1>9. CacheSound'
  BY <1>0, <1>1, <1>2, OlderFacts, PartialAgesFacts DEF CacheSound
<1>10. RevokedSound'
  <2>. SUFFICES ASSUME NEW s \in DOMAIN revokedAge
                PROVE  /\ ready /\ s \in DOMAIN tokenAge
                       /\ auth_tokens[s] \notin {"valid", "saving"}
                       /\ s \in DOMAIN validationCache => revokedAge'[s] <= validationCache'[s]
                       /\ \A c \in Calls : calls'[c].phase = "found" /\ calls'[c].token = s
                                              => revokedAge'[s] <= calls'[c].age
    BY <1>1, <1>2, <1>3, <1>5 DEF RevokedSound
  <2>1. revokedAge[s] \in Age /\ revokedAge'[s] = Older(revokedAge[s])
    BY <1>0, <1>3, PartialAgesFacts
  <2>2. s \in DOMAIN validationCache => revokedAge'[s] <= validationCache'[s]
    BY <1>0, <1>2, <2>1, OlderFacts, PartialAgesFacts DEF RevokedSound
  <2>3. ASSUME NEW c \in Calls, calls'[c].phase = "found", calls'[c].token = s
        PROVE  revokedAge'[s] <= calls'[c].age
    <3>1. calls[c] # Idle
      BY <2>3, <1>4 DEF Idle
    <3>2. revokedAge[s] <= calls[c].age
      BY <2>3, <3>1, <1>4 DEF RevokedSound
    <3>. QED
      BY <2>1, <3>1, <3>2, <1>4, OlderFacts
  <2>. QED
    BY <2>2, <2>3 DEF RevokedSound
<1>. QED
  BY <1>6, <1>7, <1>8, <1>9, <1>10

\* Every step keeps the invariant.
LEMMA NextIInv == IInv /\ [Next]_vars => IInv'
<1>. SUFFICES ASSUME IInv, [Next]_vars PROVE IInv'
  OBVIOUS
<1>1. ASSUME NEW t \in Tokens, GenerateToken(t) PROVE IInv'
  BY <1>1, GenerateIInv
<1>2. ASSUME NEW t \in Tokens, SaveToken(t) PROVE IInv'
  BY <1>2, SaveIInv
<1>3. ASSUME NEW t \in Tokens, ValidateExpired(t) \/ RevokeToken(t) PROVE IInv'
  BY <1>3, MarkIInv
<1>4. ASSUME NEW c \in Calls, NEW t \in Tokens, ValidateToken(c, t) PROVE IInv'
  BY <1>4, ValidateIInv
<1>5. ASSUME NEW c \in Calls, DatabaseAnswers(c) PROVE IInv'
  BY <1>5, AnswerIInv
<1>6. ASSUME NEW c \in Calls, FinishValidation(c) PROVE IInv'
  BY <1>6, FinishIInv
<1>7. CASE ClearValidationCache \/ CleanupCache \/ Shutdown
  BY <1>7, CacheStepsIInv
<1>8. CASE CleanupRows
  BY <1>8, CleanupRowsIInv
<1>9. CASE Tick
  BY <1>9, TickIInv
<1>10. CASE UNCHANGED vars
  <2>. USE <1>10 DEF vars, IInv
  <2>1. TypeOK'
    BY DEF TypeOK
  <2>2. RowsSound' /\ CallsSound'
    BY DEF RowsSound, CallsSound
  <2>3. CacheSound' /\ RevokedSound'
    BY DEF CacheSound, RevokedSound
  <2>. QED
    BY <2>1, <2>2, <2>3
<1>. QED
  BY <1>1, <1>2, <1>3, <1>4, <1>5, <1>6, <1>7, <1>8, <1>9, <1>10 DEF Next

----------------------------------------------------------------------------
(* The theorems *)

\* The inductive invariant holds in every reachable state.
THEOREM Invariant == Spec => []IInv
<1>. QED
  BY InitIInv, NextIInv, PTL DEF Spec

\* The stores and the calls under way have their types.
THEOREM TypeCorrect == Spec => []TypeOK
<1>1. IInv => TypeOK
  BY DEF IInv
<1>. QED
  BY <1>1, Invariant, PTL

\* A revoked token is accepted from the cache for less than the TTL after its revocation,
\* and the validations under way accept it only if they began before.
THEOREM RevocationTakesEffect == Spec => []RevocationHonoured
<1>1. ASSUME IInv PROVE RevocationHonoured
  <2>1. \A t \in DOMAIN revokedAge : revokedAge[t] \in Int
    BY <1>1, PartialAgesFacts DEF IInv, TypeOK, Age
  <2>2. \A t \in DOMAIN validationCache : validationCache[t] \in Int
    BY <1>1, PartialAgesFacts DEF IInv, TypeOK, Age
  <2>. QED
    BY <1>1, <2>1, <2>2 DEF IInv, RevokedSound, RevocationHonoured, Hit
<1>. QED
  BY <1>1, Invariant, PTL

\* What the cache answers was validated by a call that began before the token expired, so
\* an expired token is accepted for less than the TTL.
THEOREM ExpiryTakesEffect == Spec => []ExpiryHonoured
<1>1. ASSUME IInv PROVE ExpiryHonoured
  <2>1. \A t \in DOMAIN tokenAge : tokenAge[t] \in Int
    BY <1>1, PartialAgesFacts DEF IInv, TypeOK, Age
  <2>2. \A t \in DOMAIN validationCache : validationCache[t] \in Int
    BY <1>1, PartialAgesFacts DEF IInv, TypeOK, Age
  <2>. QED
    BY <1>1, <2>1, <2>2 DEF IInv, CacheSound, ExpiryHonoured, Hit
<1>. QED
  BY <1>1, Invariant, PTL

\* The row of a live token is lost or marked only by its revocation.
THEOREM LiveRowsStay == Spec => LiveRowKept
<1>1. ASSUME IInv, Next PROVE LiveRowStep
  <2>. SUFFICES ASSUME NEW t \in DOMAIN tokenAge, auth_tokens[t] = "valid", ~Expired(t),
                       auth_tokens'[t] # "valid"
                PROVE  RevokeToken(t)
    BY DEF LiveRowStep
  <2>0. t \in Tokens /\ auth_tokens \in [Tokens -> {"saving", "absent", "valid", "invalid"}]
    BY <1>1, PartialAgesFacts DEF IInv, TypeOK
  <2>1. ASSUME NEW s \in Tokens, GenerateToken(s) PROVE FALSE
    BY <2>0, <2>1 DEF GenerateToken
  <2>2. ASSUME NEW s \in Tokens, SaveToken(s) PROVE FALSE
    BY <2>0, <2>2 DEF SaveToken
  <2>3. ASSUME NEW s \in Tokens, ValidateExpired(s) PROVE FALSE
    BY <2>0, <2>3 DEF ValidateExpired, RowInvalidated
  <2>4. ASSUME NEW s \in Tokens, RevokeToken(s) PROVE s = t
    BY <2>0, <2>4 DEF RevokeToken, RowInvalidated
  <2>5. ASSUME NEW c \in Calls, NEW s \in Tokens, ValidateToken(c, s) PROVE FALSE
    BY <2>5 DEF ValidateToken
  <2>6. ASSUME NEW c \in Calls, DatabaseAnswers(c) PROVE FALSE
    BY <2>6 DEF DatabaseAnswers
  <2>7. ASSUME NEW c \in Calls, FinishValidation(c) PROVE FALSE
    BY <2>0, <2>7 DEF FinishValidation, RowInvalidated
  <2>8. CASE ClearValidationCache \/ CleanupCache \/ Shutdown
    BY <2>8 DEF ClearValidationCache, CleanupCache, Shutdown
  <2>9. CASE CleanupRows
    BY <2>0, <2>9 DEF CleanupRows, ExpiredRows
  <2>10. CASE Tick
    BY <2>10 DEF Tick
  <2>. QED
    BY <1>1, <2>1, <2>2, <2>3, <2>4, <2>5, <2>6, <2>7, <2>8, <2>9, <2>10 DEF Next
<1>2. IInv /\ [Next]_vars => [LiveRowStep]_vars
  BY <1>1
<1>. QED
  BY <1>2, Invariant, PTL DEF Spec, LiveRowKept
=============================================================================
