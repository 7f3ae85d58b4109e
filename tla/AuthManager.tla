---------------------------- MODULE AuthManager ----------------------------
(***************************************************************************)
(* authManager.ts: the tokens that bind one user to one room.              *)
(*                                                                         *)
(* A token string is the base64 text of its own record, so a token is its  *)
(* record, and two tokens issued to the same user for the same room in the *)
(* same millisecond are one token.  issuedAt is kept as an age, which      *)
(* stops one past the expiry.  Nothing calls invalidateToken: a token      *)
(* leaves the map only when it is presented after its expiry.              *)
(* SignalingServer takes these operators as parts of its actions.          *)
(***************************************************************************)
EXTENDS Integers, FiniteSets

CONSTANTS
    RoomIds, UserIds,
    TOKEN_EXPIRY,     \* one hour
    MaxTokens         \* bound of the model: tokens in the map at any time

VARIABLE validTokens  \* Map<tokenStr, AuthToken>

TokenAge == 0..TOKEN_EXPIRY + 1
AuthToken == [userId : UserIds, roomId : RoomIds, age : TokenAge]

NewToken(u, r) == [userId |-> u, roomId |-> r, age |-> 0]
Expired(t) == t.age > TOKEN_EXPIRY
OlderToken(t) == [t EXCEPT !.age = IF @ > TOKEN_EXPIRY THEN @ ELSE @ + 1]

Init == validTokens = {}

GenerateToken(u, r) ==
    /\ Cardinality(validTokens \cup {NewToken(u, r)}) <= MaxTokens
    /\ validTokens' = validTokens \cup {NewToken(u, r)}

\* Mutant: the user of the token is not compared.
ValidForAnyUser(u, r, t) ==
    /\ t \in validTokens
    /\ ~Expired(t)
    /\ t.roomId = r

\* The answer of validateCredentials.  The signature is recomputed from the user and the
\* room that were just compared, so it agrees for every token the server issued itself.
Valid(u, r, t) ==
    /\ t \in validTokens
    /\ ~Expired(t)
    /\ t.userId = u
    /\ t.roomId = r

\* Mutant: a token presented by another user or for another room is dropped too.
DropsMismatched(u, r, t) ==
    validTokens' = IF Expired(t) \/ t.userId # u \/ t.roomId # r
                   THEN validTokens \ {t} ELSE validTokens

\* Its effect: a token found expired is deleted, a mismatch deletes nothing
ValidateCredentials(u, r, t) ==
    validTokens' = IF Expired(t) THEN validTokens \ {t} ELSE validTokens

Tick == validTokens' = {OlderToken(t) : t \in validTokens}
=============================================================================
