---------------------------- MODULE TokenManager ----------------------------
(***************************************************************************)
(* tokenManager.ts over the auth_tokens table of supabaseDB.ts: tokens     *)
(* that outlive the process, and a cache of positive validations.          *)
(*                                                                         *)
(* A validation reads the clock, awaits a select and then fills the cache; *)
(* revocations, expiry, clears, the cleanup and other validations come     *)
(* between.  A query may fail at any time: the code takes a failed select  *)
(* for a refusal and goes on after a failed save, update or delete.        *)
(*                                                                         *)
(* All times are ages.  A token is presented as it was issued, with the    *)
(* user and the room it was made for: for another user or room it is       *)
(* refused before the cache or the table is touched.                       *)
(***************************************************************************)
EXTENDS Integers, Functions

CONSTANTS
    Tokens,
    UserIds,
    TokenUser,            \* the user of each token
    Calls,                \* validations that may be under way at the same time
    TOKEN_EXPIRY,         \* one hour
    VALIDATION_CACHE_TTL  \* 30 seconds

ASSUME TokensHaveUsers == TokenUser \in [Tokens -> UserIds]
ASSUME PositiveTimes == TOKEN_EXPIRY \in Nat \ {0} /\ VALIDATION_CACHE_TTL \in Nat \ {0}

VARIABLES
    ready,            \* supabaseDB.isReady(), decided when the process starts
    tokenAge,         \* the age of every token issued
    auth_tokens,      \* the row of each token: saving, absent, valid or invalid
    validationCache,  \* the age of each cached validation
    calls,            \* for each validation awaiting the database, its token, age and phase
    cleanupInterval,  \* is the cleanup timer running?
    cleaning,         \* has a cleanup deleted the rows and not yet looked at the cache?
    revokedAge        \* history: how long ago the row of a token ceased to be valid

vars == <<ready, tokenAge, auth_tokens, validationCache, calls, cleanupInterval, cleaning,
          revokedAge>>

\* Ages stop where no comparison of the code or of a property tells them apart any more.
MaxAge == TOKEN_EXPIRY + 2 * VALIDATION_CACHE_TTL + 1
Age == 0..MaxAge
Older(age) == IF age = MaxAge THEN age ELSE age + 1
AllOlder(ages) == [t \in DOMAIN ages |-> Older(ages[t])]
NoAges == [t \in {} |-> 0]
PartialAges == UNION {[S -> Age] : S \in SUBSET Tokens}

Put(ages, t, age) == [s \in DOMAIN ages \cup {t} |-> IF s = t THEN age ELSE ages[s]]
Without(ages, S) == Restrict(ages, DOMAIN ages \ S)

Idle == [phase |-> "idle"]
Call == [token : Tokens, age : Age, phase : {"asked", "found"}]

\* A token its caller has received
Issued(t) == t \in DOMAIN tokenAge /\ auth_tokens[t] # "saving"
Expired(t) == tokenAge[t] > TOKEN_EXPIRY

\* Would validateToken answer from the cache?
Hit(t) == t \in DOMAIN validationCache /\ validationCache[t] < VALIDATION_CACHE_TTL

----------------------------------------------------------------------------

Init ==
    /\ ready \in BOOLEAN
    /\ tokenAge = NoAges
    /\ auth_tokens = [t \in Tokens |-> "absent"]
    /\ validationCache = NoAges
    /\ calls = [c \in Calls |-> Idle]
    /\ cleanupInterval = TRUE
    /\ cleaning = FALSE
    /\ revokedAge = NoAges

\* Without a database the token is handed out at once
GenerateToken(t) ==
    /\ t \notin DOMAIN tokenAge
    /\ tokenAge' = Put(tokenAge, t, 0)
    /\ auth_tokens' = [auth_tokens EXCEPT ![t] = IF ready THEN "saving" ELSE "absent"]
    /\ UNCHANGED <<ready, validationCache, calls, cleanupInterval, cleaning, revokedAge>>

\* saveToken, whose failure the caller is not told
SaveToken(t) ==
    /\ auth_tokens[t] = "saving"
    /\ \E row \in {"valid", "absent"} : auth_tokens' = [auth_tokens EXCEPT ![t] = row]
    /\ UNCHANGED <<ready, tokenAge, validationCache, calls, cleanupInterval, cleaning,
                   revokedAge>>

\* invalidateToken, when the update succeeds
RowInvalidated(t) ==
    /\ auth_tokens' = [auth_tokens EXCEPT ![t] = IF @ = "valid" THEN "invalid" ELSE @]
    /\ revokedAge' = IF auth_tokens[t] = "valid" THEN Put(revokedAge, t, 0) ELSE revokedAge

\* Mutant: the expiry of the token is not looked at before the database is asked.
ValidateUnexpired(c, t) ==
    /\ Issued(t) /\ calls[c] = Idle
    /\ ~Hit(t)
    /\ IF ready
       THEN /\ calls' = [calls EXCEPT ![c] = [token |-> t, age |-> 0, phase |-> "asked"]]
            /\ UNCHANGED validationCache
       ELSE validationCache' = Put(validationCache, t, 0) /\ UNCHANGED calls
    /\ UNCHANGED <<ready, tokenAge, auth_tokens, cleanupInterval, cleaning, revokedAge>>

\* validateToken up to its select, or to its end when there is no database.  An answer from
\* the cache changes nothing.
ValidateToken(c, t) ==
    /\ Issued(t) /\ calls[c] = Idle
    /\ ~Hit(t) /\ ~Expired(t)
    /\ IF ready
       THEN /\ calls' = [calls EXCEPT ![c] = [token |-> t, age |-> 0, phase |-> "asked"]]
            /\ UNCHANGED validationCache
       ELSE validationCache' = Put(validationCache, t, 0) /\ UNCHANGED calls
    /\ UNCHANGED <<ready, tokenAge, auth_tokens, cleanupInterval, cleaning, revokedAge>>

\* validateToken of an expired token, which it marks
ValidateExpired(t) ==
    /\ Issued(t) /\ ready
    /\ ~Hit(t) /\ Expired(t)
    /\ RowInvalidated(t)
    /\ UNCHANGED <<ready, tokenAge, validationCache, calls, cleanupInterval, cleaning>>

\* The select of supabaseDB.validateToken: a failed one and a row that is not valid end the
\* call with a refusal
DatabaseAnswers(c) ==
    /\ calls[c].phase = "asked"
    /\ \/ calls' = [calls EXCEPT ![c] = Idle]
       \/ /\ auth_tokens[calls[c].token] = "valid"
          /\ calls' = [calls EXCEPT ![c].phase = "found"]
    /\ UNCHANGED <<ready, tokenAge, auth_tokens, validationCache, cleanupInterval, cleaning,
                   revokedAge>>

\* Mutant: the entry is stamped with the time it is made at.
FinishRestamped(c) ==
    LET t == calls[c].token
    IN /\ calls[c].phase = "found"
       /\ calls' = [calls EXCEPT ![c] = Idle]
       /\ IF Expired(t)
          THEN RowInvalidated(t) /\ UNCHANGED validationCache
          ELSE /\ validationCache' = Put(validationCache, t, 0)
               /\ UNCHANGED <<auth_tokens, revokedAge>>
       /\ UNCHANGED <<ready, tokenAge, cleanupInterval, cleaning>>

\* Mutant: the entry is stamped with the expiry of the token.
FinishStampedExpiry(c) ==
    LET t == calls[c].token
    IN /\ calls[c].phase = "found"
       /\ calls' = [calls EXCEPT ![c] = Idle]
       /\ IF Expired(t)
          THEN RowInvalidated(t) /\ UNCHANGED validationCache
          ELSE /\ validationCache' = Put(validationCache, t, tokenAge[t] - TOKEN_EXPIRY)
               /\ UNCHANGED <<auth_tokens, revokedAge>>
       /\ UNCHANGED <<ready, tokenAge, cleanupInterval, cleaning>>

\* The rest of both functions after the select found the row: the expiry is looked at again,
\* and the entry is stamped with the time the validation began at
FinishValidation(c) ==
    LET t == calls[c].token
    IN /\ calls[c].phase = "found"
       /\ calls' = [calls EXCEPT ![c] = Idle]
       /\ IF Expired(t)
          THEN RowInvalidated(t) /\ UNCHANGED validationCache
          ELSE /\ validationCache' = Put(validationCache, t, calls[c].age)
               /\ UNCHANGED <<auth_tokens, revokedAge>>
       /\ UNCHANGED <<ready, tokenAge, cleanupInterval, cleaning>>

\* revokeToken, when its update succeeds; it leaves the cache alone
RevokeToken(t) ==
    /\ Issued(t) /\ ready
    /\ RowInvalidated(t)
    /\ UNCHANGED <<ready, tokenAge, validationCache, calls, cleanupInterval, cleaning>>

\* clearValidationCache of one user, or of all.  A key that merely contains the user's name
\* goes too.
ClearValidationCache ==
    /\ \E u \in UserIds, more \in SUBSET Tokens :
          validationCache' = Without(validationCache, {t \in Tokens : TokenUser[t] = u} \cup more)
    /\ UNCHANGED <<ready, tokenAge, auth_tokens, calls, cleanupInterval, cleaning, revokedAge>>

\* Mutant: a token is deleted at the time it expires at.
ExpiredInclusive == {t \in DOMAIN tokenAge : tokenAge[t] >= TOKEN_EXPIRY}

\* The rows the table's cleanup deletes, if the delete succeeds
ExpiredRows == {t \in DOMAIN tokenAge : Expired(t)}

\* cleanupExpiredTokens up to the answer of the database.  The timer's calls do not overlap:
\* they are five minutes apart.
CleanupRows ==
    /\ cleanupInterval /\ ready /\ ~cleaning
    /\ cleaning' = TRUE
    /\ \/ UNCHANGED auth_tokens
       \/ auth_tokens' = [t \in Tokens |->
              IF t \in ExpiredRows /\ auth_tokens[t] # "saving"
              THEN "absent" ELSE auth_tokens[t]]
    /\ UNCHANGED <<ready, tokenAge, validationCache, calls, cleanupInterval, revokedAge>>

\* Mutant: an entry whose row is still there is kept.
StaleWithoutRow ==
    {t \in DOMAIN validationCache :
        validationCache[t] > 2 * VALIDATION_CACHE_TTL /\ auth_tokens[t] = "absent"}

StaleEntries == {t \in DOMAIN validationCache : validationCache[t] > 2 * VALIDATION_CACHE_TTL}

\* The rest of cleanupExpiredTokens
CleanupCache ==
    /\ cleaning
    /\ cleaning' = FALSE
    /\ validationCache' = Without(validationCache, StaleEntries)
    /\ UNCHANGED <<ready, tokenAge, auth_tokens, calls, cleanupInterval, revokedAge>>

Shutdown ==
    /\ cleanupInterval' = FALSE
    /\ validationCache' = NoAges
    /\ UNCHANGED <<ready, tokenAge, auth_tokens, calls, cleaning, revokedAge>>

Tick ==
    /\ tokenAge' = AllOlder(tokenAge)
    /\ validationCache' = AllOlder(validationCache)
    /\ revokedAge' = AllOlder(revokedAge)
    /\ calls' = [c \in Calls |->
           IF calls[c] = Idle THEN Idle ELSE [calls[c] EXCEPT !.age = Older(@)]]
    /\ UNCHANGED <<ready, auth_tokens, cleanupInterval, cleaning>>

Next ==
    \/ \E t \in Tokens :
          \/ GenerateToken(t) \/ SaveToken(t) \/ ValidateExpired(t) \/ RevokeToken(t)
          \/ \E c \in Calls : ValidateToken(c, t)
    \/ \E c \in Calls : DatabaseAnswers(c) \/ FinishValidation(c)
    \/ ClearValidationCache \/ CleanupRows \/ CleanupCache \/ Shutdown
    \/ Tick

Spec == Init /\ [][Next]_vars

\* The timer fires and the database answers
FairSpec == Spec /\ WF_vars(CleanupRows) /\ WF_vars(CleanupCache)

----------------------------------------------------------------------------
(* Properties *)

\* The shape of the two stores, the calls under way and the history.
TypeOK ==
    /\ ready \in BOOLEAN /\ cleanupInterval \in BOOLEAN /\ cleaning \in BOOLEAN
    /\ tokenAge \in PartialAges /\ validationCache \in PartialAges /\ revokedAge \in PartialAges
    /\ auth_tokens \in [Tokens -> {"saving", "absent", "valid", "invalid"}]
    /\ calls \in [Calls -> Call \cup {Idle}]

\* A revoked token is answered from the cache for less than VALIDATION_CACHE_TTL after its
\* revocation, whichever validations were under way, and a validation that is going to
\* accept it began no later than the revocation (tokenManager.ts:110, 169).
RevocationHonoured ==
    \A t \in DOMAIN revokedAge :
        /\ Hit(t) => revokedAge[t] < VALIDATION_CACHE_TTL
        /\ \A c \in Calls :
              calls[c].phase = "found" /\ calls[c].token = t => revokedAge[t] <= calls[c].age

\* What the cache answers was validated by a call that began before the token expired
\* (tokenManager.ts:108, 147, 169): an expired token is not refused at once, but it is
\* accepted for less than VALIDATION_CACHE_TTL.  This is about the tokens that were issued:
\* nothing but the table ties a token to its expiry (tokenManager.ts:300).
ExpiryHonoured ==
    \A t \in DOMAIN tokenAge : Hit(t) => tokenAge[t] <= TOKEN_EXPIRY + validationCache[t]

\* The row of a token that has not expired is lost or marked only by its revocation: the
\* validations, the cleanup and the table agree on the moment a token expires at.
LiveRowStep ==
    \A t \in DOMAIN tokenAge :
        auth_tokens[t] = "valid" /\ ~Expired(t) /\ auth_tokens'[t] # "valid" => RevokeToken(t)

LiveRowKept == [][LiveRowStep]_vars

LongStale(t) == t \in DOMAIN validationCache /\ validationCache[t] > 2 * VALIDATION_CACHE_TTL

\* With a database and the timer, no entry stays in the cache long after it went stale: a
\* token that is never presented again leaves nothing behind (tokenManager.ts:272).
StaleEntryReclaimed ==
    \A t \in Tokens :
        (ready /\ cleanupInterval /\ LongStale(t)) ~> (~cleanupInterval \/ ~LongStale(t))
=============================================================================
