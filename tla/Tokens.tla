------------------------------- MODULE Tokens -------------------------------
(***************************************************************************)
(* Where spent and revoked tokens are remembered (services/auth.rs).       *)
(*                                                                         *)
(* A token is known by its family and its purpose: session_response and    *)
(* refresh_token put one access and one refresh token in a fresh family,   *)
(* create_mfa_challenge_token one challenge in a family of its own, so a   *)
(* record [family, type] stands for the jti.                               *)
(*                                                                         *)
(* Two stores remember.  PostgreSQL has the table token_revocations, a set *)
(* of rows that name a token.  Redis has the keys revoked_jti and          *)
(* revoked_family; a process uses it only when it could connect as it      *)
(* started (main.rs), which `attached` says, and any single call may fail. *)
(* Records outlive the tokens they are about, so neither is expired here.  *)
(***************************************************************************)
EXTENDS Integers, FiniteSets

VARIABLES
    attached,     \* this process connected to Redis when it started
    cache,        \* Redis: the tokens and the families it has keys for
    rows          \* token_revocations: the tokens the rows name

tokenVars == <<attached, cache, rows>>

Types == {"access", "refresh", "challenge"}

EmptyCache == [tokens |-> {}, families |-> {}]

TokensInit ==
    /\ attached \in BOOLEAN
    /\ cache = EmptyCache
    /\ rows = {}

(* Whether a call to Redis gets an answer: never without a connection, and *)
(* either way with one.                                                    *)
Answers == IF attached THEN BOOLEAN ELSE {FALSE}

(* is_revoked_in_db: a row for the jti is also a row for its family.       *)
RevokedInDb(token) == \E row \in rows : row.family = token.family

RevokedInCache(token) ==
    token \in cache.tokens \/ token.family \in cache.families

(* validate_token_with_anti_replay: Redis decides when it answers, the     *)
(* table only when it does not.                                            *)
Revoked(token, answered) ==
    IF answered THEN RevokedInCache(token) ELSE RevokedInDb(token)

(* Variant: the table is consulted only when Redis did not answer.         *)
FamilyRevokedInOneStore(token, answered) ==
    IF answered THEN token.family \in cache.families ELSE RevokedInDb(token)

(* is_family_revoked: an error from Redis reads as "no", and the table is  *)
(* always consulted.  The two reads are one step: records are only added,  *)
(* so finding neither is the same as finding neither at the first read.    *)
FamilyRevoked(token, answered) ==
    \/ answered /\ token.family \in cache.families
    \/ RevokedInDb(token)

(* Variant: whether the token was spent is read, not tested and set.       *)
ConsumedByReading(token, answered, first) ==
    /\ answered = attached
    /\ first
    /\ cache' = [cache EXCEPT !.tokens = IF attached THEN @ \union {token} ELSE @]
    /\ rows' = IF attached THEN rows ELSE rows \union {token}

(* consume_jti_once: SET .. NX in Redis, or an insert that a unique jti    *)
(* refuses.  With a connection the table is not a substitute: an error is  *)
(* returned to the caller, which is what `answered # attached` stands for. *)
ConsumeOnce(token, answered, first) ==
    /\ answered = attached
    /\ first = (token \notin IF attached THEN cache.tokens ELSE rows)
    /\ cache' = [cache EXCEPT !.tokens = IF attached THEN @ \union {token} ELSE @]
    /\ rows' = IF attached THEN rows ELSE rows \union {token}

(* revoke_token_jti and revoke_token_family, a call each.  Every caller    *)
(* throws their results away, so a failure leaves Redis as it was and      *)
(* nothing else.  A rotation does without the first: its jti was consumed. *)
RevokeInCache(token, jti, family) ==
    cache' = [tokens   |-> IF jti THEN cache.tokens \union {token} ELSE cache.tokens,
              families |-> IF family THEN cache.families \union {token.family}
                                     ELSE cache.families]

(* revoke_token_in_db: ON CONFLICT (jti) DO NOTHING.  Its callers throw    *)
(* its result away too; here the database always answers.                  *)
RevokeInDb(token) == rows' = rows \union {token}
=============================================================================
