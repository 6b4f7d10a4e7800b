---------------------------- MODULE SecondFactor ----------------------------
(***************************************************************************)
(* Requests of a signed-in user, and what they do to the second factor of  *)
(* the account (middleware/auth.rs, api/routes_mfa.rs,                     *)
(* services/mfa_service.rs).                                               *)
(*                                                                         *)
(* One account, and a set of requests in progress at once.  Every database *)
(* or Redis call of a handler is a step, and other requests may come       *)
(* between two of them.  An answered or refused request is Idle again.     *)
(* One recovery code stands for a batch: they are generated, deleted and   *)
(* shown together, and each is consumed on its own.                        *)
(***************************************************************************)
EXTENDS Tokens

CONSTANTS
    Requests,      \* the requests that may be in progress together
    MaxBatches,    \* bound: how many batches of recovery codes are generated
    Limit          \* failed attempts that lock a key (login_failure_limit, 5)

ASSUME SecondFactorAssumption ==
    MaxBatches \in Nat /\ Limit \in Nat \ {0} /\ IsFiniteSet(Requests)

VARIABLES
    account,    \* users, mfa_configurations and mfa_recovery_codes of the account
    batches,    \* how many batches of recovery codes were generated
    failures,   \* login_failures rows in the window, by key
    accepted,   \* history: how often each batch's code was accepted
    req         \* the requests

accountVars == <<account, batches, accepted>>

Batches == 1 .. MaxBatches
Keys == {"login", "mfa_login", "mfa_recovery"}

NoToken == [family |-> 0, type |-> "none"]

(* `memo` is what the handler read or generated for itself.  The last      *)
(* three fields are history: whether the account asked for a second factor *)
(* ever since the request arrived, and whether the request arrived after   *)
(* its family had been logged out, or after the account was deactivated.   *)
Idle == [op |-> "none", pc |-> "idle", token |-> NoToken, memo |-> 0,
         held |-> FALSE, late |-> FALSE, dead |-> FALSE]

(* An account is new, or already uses a second factor and has its codes.   *)
NewAccount ==
    [active |-> TRUE, mfa |-> FALSE, secret |-> FALSE, config |-> 0, codes |-> {}]

EnrolledAccount ==
    [active |-> TRUE, mfa |-> TRUE, secret |-> TRUE, config |-> 1, codes |-> {1}]

SecondFactorInit ==
    /\ \/ account = NewAccount /\ batches = 0
       \/ MaxBatches > 0 /\ account = EnrolledAccount /\ batches = 1
    /\ failures = [key \in Keys |-> 0]
    /\ accepted = [b \in Batches |-> 0]
    /\ req = [r \in Requests |-> Idle]

At(r, pc) == req[r].pc = pc
Goto(r, pc) == req' = [req EXCEPT ![r].pc = pc]
Answer(r) == req' = [req EXCEPT ![r] = Idle]

(* Which step follows a valid session, by handler.                         *)
AfterAuthentication ==
    [serve |-> "served", logout |-> "retire", delete |-> "delete",
     enroll |-> "enroll", activate |-> "secret", disable |-> "off",
     regenerate |-> "config", recover |-> "guard", mfa |-> "guard"]

Authenticated == DOMAIN AfterAuthentication

-----------------------------------------------------------------------------
(* AuthenticatedUser: the token must be an access token that is not        *)
(* revoked.  login_mfa does the same with a challenge.                     *)
ValidateToken(r) ==
    /\ At(r, "validate")
    /\ \E answered \in Answers :
         IF /\ req[r].token.type = IF req[r].op = "mfa" THEN "challenge" ELSE "access"
            /\ ~Revoked(req[r].token, answered)
           THEN Goto(r, "user")
           ELSE Answer(r)
    /\ UNCHANGED <<tokenVars, accountVars, failures>>

(* Variant: the claims are trusted and the account is not read again.      *)
UserByClaims(r) ==
    /\ At(r, "user")
    /\ req' = [req EXCEPT ![r].pc = AfterAuthentication[req[r].op],
                          ![r].memo = IF account.secret THEN 1 ELSE 0]
    /\ UNCHANGED <<tokenVars, accountVars, failures>>

(* The account is read again on every request: it must be active, and for  *)
(* a challenge must still ask for a second factor.  login_mfa keeps the    *)
(* secret it read.                                                         *)
ReadUser(r) ==
    /\ At(r, "user")
    /\ IF account.active /\ (req[r].op = "mfa" => account.mfa)
         THEN req' = [req EXCEPT ![r].pc = AfterAuthentication[req[r].op],
                                 ![r].memo = IF account.secret THEN 1 ELSE 0]
         ELSE Answer(r)
    /\ UNCHANGED <<tokenVars, accountVars, failures>>

(* get_session and every other handler that only needs the extractor.      *)
Serve(r) ==
    /\ At(r, "served")
    /\ Answer(r)
    /\ UNCHANGED <<tokenVars, accountVars, failures>>

(* delete_user.                                                            *)
DeleteUser(r) ==
    /\ At(r, "delete")
    /\ account' = [account EXCEPT !.active = FALSE]
    /\ Answer(r)
    /\ UNCHANGED <<tokenVars, batches, accepted, failures>>

-----------------------------------------------------------------------------
(* enroll_mfa: a new secret, whether or not one is in use.                 *)
Enroll(r) ==
    /\ At(r, "enroll")
    /\ account' = [account EXCEPT !.secret = TRUE]
    /\ Answer(r)
    /\ UNCHANGED <<tokenVars, batches, accepted, failures>>

(* activate_mfa reads the secret and checks the code against it ...        *)
ReadSecret(r) ==
    /\ At(r, "secret")
    /\ \/ account.secret /\ Goto(r, "enable")
       \/ Answer(r)
    /\ UNCHANGED <<tokenVars, accountVars, failures>>

(* ... turns the second factor on ...                                      *)
EnableMfa(r) ==
    /\ At(r, "enable")
    /\ account' = [account EXCEPT !.mfa = TRUE]
    /\ Goto(r, "configure")
    /\ UNCHANGED <<tokenVars, batches, accepted, failures>>

(* ... upserts a configuration, whose identity a conflict leaves as it was *)
(* while the handler goes on with the one it generated ...                 *)
Configure(r) ==
    /\ At(r, "configure") /\ batches < MaxBatches
    /\ batches' = batches + 1
    /\ account' = [account EXCEPT !.config = IF @ = 0 THEN batches' ELSE @]
    /\ req' = [req EXCEPT ![r].pc = "codes", ![r].memo = batches']
    /\ UNCHANGED <<tokenVars, accepted, failures>>

(* ... and stores the codes under it: persist_recovery_codes fails on the  *)
(* foreign key when no configuration has that identity.                    *)
PersistCodes(r) ==
    /\ At(r, "codes")
    /\ account' = IF account.config = req[r].memo
                    THEN [account EXCEPT !.codes = @ \union {req[r].memo}]
                    ELSE account
    /\ Answer(r)
    /\ UNCHANGED <<tokenVars, batches, accepted, failures>>

(* regenerate_codes, and disable_mfa once it is off, read the              *)
(* configuration ...                                                       *)
ReadConfig(r) ==
    /\ At(r, "config")
    /\ IF account.config # 0
         THEN req' = [req EXCEPT ![r].pc = "drop", ![r].memo = account.config]
         ELSE Answer(r)
    /\ UNCHANGED <<tokenVars, accountVars, failures>>

(* ... and delete its codes.                                               *)
DropCodes(r) ==
    /\ At(r, "drop")
    /\ account' = IF account.config = req[r].memo
                    THEN [account EXCEPT !.codes = {}]
                    ELSE account
    /\ Goto(r, IF req[r].op = "disable" THEN "wipe" ELSE "renew")
    /\ UNCHANGED <<tokenVars, batches, accepted, failures>>

(* regenerate_codes inserts the new ones, which the foreign key refuses    *)
(* when the configuration is gone.                                         *)
RenewCodes(r) ==
    /\ At(r, "renew") /\ batches < MaxBatches
    /\ batches' = batches + 1
    /\ account' = IF account.config = req[r].memo
                    THEN [account EXCEPT !.codes = @ \union {batches'}]
                    ELSE account
    /\ Answer(r)
    /\ UNCHANGED <<tokenVars, accepted, failures>>

(* disable_mfa turns it off.  No request can count any longer on having    *)
(* found it on since it arrived.                                           *)
TurnOff(r) ==
    /\ At(r, "off")
    /\ account' = [account EXCEPT !.mfa = FALSE, !.secret = FALSE]
    /\ req' = [q \in Requests |->
                 [req[q] EXCEPT !.held = FALSE, !.pc = IF q = r THEN "config" ELSE @]]
    /\ UNCHANGED <<tokenVars, batches, accepted, failures>>

(* It ends with the configuration it read, and what codes that has by now  *)
(* (ON DELETE CASCADE); one that came in its place stays.                  *)
WipeConfig(r) ==
    /\ At(r, "wipe")
    /\ account' = IF account.config = req[r].memo
                    THEN [account EXCEPT !.config = 0, !.codes = {}]
                    ELSE account
    /\ Answer(r)
    /\ UNCHANGED <<tokenVars, batches, accepted, failures>>

-----------------------------------------------------------------------------
LockoutKey(op) ==
    CASE op = "mfa"     -> "mfa_login"
      [] op = "recover" -> "mfa_recovery"
      [] op = "login"   -> "login"

(* Variant: the window may hold one failure more.                          *)
LockedAfterLimit(key) == failures[key] > Limit

(* check_login_lockout.                                                    *)
Locked(key) == failures[key] >= Limit

(* The lockout is read before the attempt is made.                         *)
CheckLockout(r) ==
    /\ At(r, "guard")
    /\ IF Locked(LockoutKey(req[r].op))
         THEN Answer(r)
         ELSE Goto(r, CASE req[r].op = "login"   -> "password"
                        [] req[r].op = "recover" -> "count"
                        [] req[r].op = "mfa"     -> "factor")
    /\ UNCHANGED <<tokenVars, accountVars, failures>>

(* use_recovery_code stops, and records nothing, when the account has no   *)
(* configuration or no code left.                                          *)
CountCodes(r) ==
    /\ At(r, "count")
    /\ IF account.codes # {} THEN Goto(r, "factor") ELSE Answer(r)
    /\ UNCHANGED <<tokenVars, accountVars, failures>>

(* Variant: a used code is not told from an unused one.                    *)
RedeemedAnyCode(b) == account.config # 0 /\ b <= batches

(* try_consume_recovery_code: one UPDATE .. WHERE used_at IS NULL under    *)
(* the configuration of the account.                                       *)
Redeemable(b) == account.config # 0 /\ b \in account.codes

(* A recovery code is presented, at login or to use_recovery_code.         *)
RedeemCode(r) ==
    /\ At(r, "factor") /\ req[r].op \in {"mfa", "recover"}
    /\ \E b \in Batches :
         /\ Redeemable(b)
         /\ account' = [account EXCEPT !.codes = @ \ {b}]
         /\ accepted' = [accepted EXCEPT ![b] = @ + 1]
    /\ Goto(r, "clear")
    /\ UNCHANGED <<tokenVars, batches, failures>>

(* The secret login_mfa read is the one a TOTP code is checked against.    *)
VerifyTotp(r) ==
    /\ At(r, "factor") /\ req[r].op = "mfa" /\ req[r].memo = 1
    /\ Goto(r, "clear")
    /\ UNCHANGED <<tokenVars, accountVars, failures>>

WrongFactor(r) ==
    /\ At(r, "factor")
    /\ Goto(r, "record")
    /\ UNCHANGED <<tokenVars, accountVars, failures>>

(* record_login_failure.                                                   *)
RecordFailure(r) ==
    /\ At(r, "record")
    /\ failures' = [failures EXCEPT ![LockoutKey(req[r].op)] = @ + 1]
    /\ Answer(r)
    /\ UNCHANGED <<tokenVars, accountVars>>

(* clear_login_failures.  use_recovery_code ends here.                     *)
ClearRecovery(r) ==
    /\ At(r, "clear") /\ req[r].op = "recover"
    /\ failures' = [failures EXCEPT !["mfa_recovery"] = 0]
    /\ Answer(r)
    /\ UNCHANGED <<tokenVars, accountVars>>

(* The window moves past the failures on record.                           *)
WindowPasses(key) ==
    /\ failures[key] > 0
    /\ failures' = [failures EXCEPT ![key] = 0]
    /\ UNCHANGED <<tokenVars, accountVars, req>>

SecondFactorNext ==
    \/ \E r \in Requests :
         \/ ValidateToken(r) \/ ReadUser(r) \/ Serve(r) \/ DeleteUser(r)
         \/ Enroll(r)
         \/ ReadSecret(r) \/ EnableMfa(r) \/ Configure(r) \/ PersistCodes(r)
         \/ ReadConfig(r) \/ DropCodes(r) \/ RenewCodes(r)
         \/ TurnOff(r) \/ WipeConfig(r)
         \/ CheckLockout(r) \/ CountCodes(r) \/ RedeemCode(r) \/ VerifyTotp(r)
         \/ WrongFactor(r) \/ RecordFailure(r) \/ ClearRecovery(r)
    \/ \E key \in Keys : WindowPasses(key)
=============================================================================
