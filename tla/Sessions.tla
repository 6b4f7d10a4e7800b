------------------------------ MODULE Sessions ------------------------------
(***************************************************************************)
(* How sessions begin, go on and end (api/routes_auth.rs): password login, *)
(* GitHub login through a one-time exchange code, the second factor,       *)
(* rotation of refresh tokens and logout, of one account in any number of  *)
(* browser tabs, while the backend may restart with or without Redis.      *)
(*                                                                         *)
(* A browser that has a token may present it to any handler at any time,   *)
(* more than once and long after it was replaced: tokens are never taken   *)
(* back.  `issued` is every family ever minted, in order, with what it was *)
(* minted for; a family's tokens are numbered by its place.                *)
(***************************************************************************)
EXTENDS SecondFactor, Sequences

CONSTANTS
    Workloads,     \* sets of handlers: a behaviour calls those of one set
    MaxFamilies,   \* bound: how many families are minted
    MaxCodes,      \* bound: how many exchange codes are made
    MaxRestarts    \* bound: how often the backend restarts

Handlers == Authenticated \union {"login", "exchange", "refresh"}

ASSUME SessionsAssumption ==
    /\ Workloads \subseteq SUBSET Handlers
    /\ MaxFamilies \in Nat /\ MaxCodes \in Nat /\ MaxRestarts \in Nat

VARIABLES
    workload,    \* the handlers that are called in this behaviour
    issued,      \* history: the families minted so far
    codes,       \* auth_exchange_codes: the codes not yet redeemed
    made,        \* how many exchange codes were made
    loggedOut,   \* history: families whose logout was answered
    restarts     \* how often the backend restarted

sessionVars == <<workload, issued, codes, made, loggedOut, restarts>>
vars == <<tokenVars, accountVars, failures, req, sessionVars>>

Init ==
    /\ TokensInit
    /\ SecondFactorInit
    /\ workload \in Workloads
    /\ issued = <<>>
    /\ codes = {}
    /\ made = 0
    /\ loggedOut = {}
    /\ restarts = 0

(* The tokens browsers hold: a challenge, or an access and a refresh token *)
(* that share their family.                                                *)
Held ==
    UNION {{[family |-> f, type |-> t] :
              t \in IF issued[f].kind = "challenge" THEN {"challenge"}
                                                    ELSE {"access", "refresh"}} :
           f \in DOMAIN issued}

Minting == {"login", "exchange", "mfa", "refresh"}
Generating == {"activate", "regenerate"}

(* The bounds leave room for what is in progress.                          *)
Room(op) ==
    /\ op \in Minting =>
         Len(issued) + Cardinality({q \in Requests : req[q].op \in Minting})
           < MaxFamilies
    /\ op \in Generating =>
         batches + Cardinality({q \in Requests : req[q].op \in Generating})
           < MaxBatches

Arrive(r, op, pc, token, memo) ==
    /\ At(r, "idle") /\ op \in workload /\ Room(op)
    /\ req' = [req EXCEPT ![r] =
                 [op |-> op, pc |-> pc, token |-> token, memo |-> memo,
                  held |-> account.mfa,
                  late |-> token.family \in loggedOut,
                  dead |-> ~account.active]]
    /\ UNCHANGED <<tokenVars, accountVars, failures, sessionVars>>

(* Any token may be presented to any handler that wants one.               *)
Present(r) ==
    \E token \in Held, op \in Authenticated \union {"refresh"} :
        Arrive(r, op, IF op = "refresh" THEN "family" ELSE "validate", token, 0)

SubmitPassword(r) == Arrive(r, "login", "guard", NoToken, 0)

SubmitCode(r) == \E n \in 1 .. made : Arrive(r, "exchange", "redeem", NoToken, n)

(* github_callback, once the state cookie matched and GitHub vouched for   *)
(* the identity: the account is found by github_id, and a one-time code is *)
(* stored.  Every failure before that redirects and changes no session.    *)
GithubCallback ==
    /\ "exchange" \in workload /\ made < MaxCodes
    /\ made' = made + 1
    /\ codes' = codes \union {made'}
    /\ UNCHANGED <<tokenVars, accountVars, failures, req, workload, issued, loggedOut, restarts>>

-----------------------------------------------------------------------------
(* session_response and create_mfa_challenge_token: a family of its own,   *)
(* and the request is answered.  `bare` records that no second factor was  *)
(* asked for although the account wanted one all along.                    *)
Mint(r, kind, of) ==
    /\ issued' = Append(issued,
         [kind |-> kind, by |-> req[r].op, of |-> of, late |-> req[r].late,
          redis |-> attached,
          bare |-> kind = "session" /\ req[r].op \in {"login", "exchange"} /\ req[r].held])
    /\ Answer(r)

(* An exchange code or a password is only a first factor.                  *)
FirstFactor(r, of) == Mint(r, IF account.mfa THEN "challenge" ELSE "session", of)

(* login looks the account up and verifies the password; an unknown or     *)
(* inactive account and a wrong password are failures to record.  The      *)
(* second factor is asked for if the row read here says so.                *)
CheckPassword(r) ==
    /\ At(r, "password")
    /\ \/ /\ account.active
          /\ req' = [req EXCEPT ![r].pc = "clear",
                                ![r].memo = IF account.mfa THEN 1 ELSE 0]
       \/ Goto(r, "record")
    /\ UNCHANGED <<tokenVars, accountVars, failures, sessionVars>>

(* It then clears the failures and answers.                                *)
FinishLogin(r) ==
    /\ At(r, "clear") /\ req[r].op = "login"
    /\ failures' = [failures EXCEPT !["login"] = 0]
    /\ Mint(r, IF req[r].memo = 1 THEN "challenge" ELSE "session", Len(issued) + 1)
    /\ UNCHANGED <<tokenVars, accountVars, workload, codes, made, loggedOut, restarts>>

(* Variant: the code is read, and whether its row was deleted is ignored.  *)
RedeemByReading(r) ==
    /\ At(r, "redeem")
    /\ Goto(r, "lookup")
    /\ codes' = codes \ {req[r].memo}
    /\ UNCHANGED <<tokenVars, accountVars, failures, workload, issued, made, loggedOut, restarts>>

(* exchange_token: DELETE .. RETURNING gives the code to one caller ...    *)
RedeemExchangeCode(r) ==
    /\ At(r, "redeem")
    /\ IF req[r].memo \in codes THEN Goto(r, "lookup") ELSE Answer(r)
    /\ codes' = codes \ {req[r].memo}
    /\ UNCHANGED <<tokenVars, accountVars, failures, workload, issued, made, loggedOut, restarts>>

(* ... who is then looked up, active or not.                               *)
FinishExchange(r) ==
    /\ At(r, "lookup")
    /\ FirstFactor(r, req[r].memo)
    /\ UNCHANGED <<tokenVars, accountVars, failures, workload, codes, made, loggedOut, restarts>>

(* login_mfa clears the failures once the factor verified ...              *)
ClearMfa(r) ==
    /\ At(r, "clear") /\ req[r].op = "mfa"
    /\ failures' = [failures EXCEPT !["mfa_login"] = 0]
    /\ Goto(r, "claim")
    /\ UNCHANGED <<tokenVars, accountVars, sessionVars>>

(* consume_refresh_token checks that its token is a refresh token of a     *)
(* family that is not revoked.                                             *)
CheckFamily(r) ==
    /\ At(r, "family")
    /\ \E answered \in Answers :
         IF req[r].token.type = "refresh" /\ ~FamilyRevoked(req[r].token, answered)
           THEN Goto(r, "claim")
           ELSE Answer(r)
    /\ UNCHANGED <<tokenVars, accountVars, failures, sessionVars>>

(* ... and like a rotation claims its token before it answers: the loser   *)
(* of a race, and whoever Redis gave no answer, is refused.                *)
Claim(r) ==
    /\ At(r, "claim")
    /\ \/ \E first \in BOOLEAN, answered \in Answers :
            /\ ConsumeOnce(req[r].token, answered, first)
            /\ IF first THEN Goto(r, "retire") ELSE Answer(r)
       \/ /\ attached
          /\ Answer(r)
          /\ UNCHANGED <<cache, rows>>
    /\ UNCHANGED <<attached, accountVars, failures, sessionVars>>

(* refresh_token, login_mfa and logout retire the family of their token,   *)
(* in Redis ...                                                            *)
RetireInCache(r) ==
    /\ At(r, "retire")
    /\ \E jti, family \in Answers : RevokeInCache(req[r].token, jti, family)
    /\ Goto(r, "settle")
    /\ UNCHANGED <<attached, rows, accountVars, failures, sessionVars>>

(* ... then in the table.  After that refresh_token and login_mfa mint a   *)
(* session and answer.                                                     *)
FinishRotation(r) ==
    /\ At(r, "settle") /\ req[r].op \in {"refresh", "mfa"}
    /\ RevokeInDb(req[r].token)
    /\ Mint(r, "session", req[r].token.family)
    /\ UNCHANGED <<attached, cache, accountVars, failures, workload, codes, made, loggedOut, restarts>>

FinishLogout(r) ==
    /\ At(r, "settle") /\ req[r].op = "logout"
    /\ RevokeInDb(req[r].token)
    /\ loggedOut' = loggedOut \union {req[r].token.family}
    /\ Answer(r)
    /\ UNCHANGED <<attached, cache, accountVars, failures, workload, issued, codes, made, restarts>>

(* The backend stops and starts again: what was in progress is lost, and   *)
(* whether it has Redis is decided anew.  Redis keeps its keys.            *)
Restart ==
    /\ restarts < MaxRestarts
    /\ restarts' = restarts + 1
    /\ attached' \in BOOLEAN
    /\ req' = [r \in Requests |-> Idle]
    /\ UNCHANGED <<cache, rows, accountVars, failures, workload, issued, codes, made, loggedOut>>

Next ==
    \/ SecondFactorNext /\ UNCHANGED sessionVars
    \/ \E r \in Requests :
         \/ Present(r) \/ SubmitPassword(r) \/ SubmitCode(r)
         \/ CheckPassword(r) \/ FinishLogin(r)
         \/ RedeemExchangeCode(r) \/ FinishExchange(r)
         \/ ClearMfa(r) \/ CheckFamily(r) \/ Claim(r)
         \/ RetireInCache(r) \/ FinishRotation(r) \/ FinishLogout(r)
    \/ GithubCallback
    \/ Restart

Spec == Init /\ [][Next]_vars

-----------------------------------------------------------------------------
TokenSet == [family : 1 .. MaxFamilies, type : Types]

TypeOK ==
    /\ workload \in Workloads
    /\ attached \in BOOLEAN
    /\ cache \in [tokens : SUBSET TokenSet, families : SUBSET (1 .. MaxFamilies)]
    /\ rows \subseteq TokenSet
    /\ account \in [active : BOOLEAN, mfa : BOOLEAN, secret : BOOLEAN,
                    config : 0 .. MaxBatches, codes : SUBSET Batches]
    /\ batches \in 0 .. MaxBatches
    /\ failures \in [Keys -> Nat]
    /\ accepted \in [Batches -> Nat]
    /\ \A r \in Requests :
         /\ DOMAIN req[r] = DOMAIN Idle
         /\ req[r].token \in TokenSet \union {NoToken}
    /\ issued \in Seq([kind : {"session", "challenge"}, by : Minting, of : Nat,
                       late : BOOLEAN, bare : BOOLEAN, redis : BOOLEAN])
    /\ codes \subseteq 1 .. made
    /\ made \in 0 .. MaxCodes
    /\ loggedOut \subseteq 1 .. MaxFamilies
    /\ restarts \in 0 .. MaxRestarts

(* A refresh token has one successor, an MFA challenge opens one session,  *)
(* an exchange code yields one answer and a recovery code is accepted      *)
(* once, however the requests that present them interleave and whichever   *)
(* calls to Redis fail (services/auth.rs:316-419, routes_mfa.rs:290-335).  *)
(* A challenge redeemed without Redis is only remembered in the table,     *)
(* which a process that has Redis does not read: it is single-use among    *)
(* processes that agree on having Redis.                                   *)
SpentOnce ==
    /\ \A f, g \in DOMAIN issued :
         /\ issued[f].by = issued[g].by /\ issued[f].of = issued[g].of
         /\ issued[f].by = "mfa" => issued[f].redis = issued[g].redis
         => f = g
    /\ \A b \in Batches : accepted[b] <= 1

(* No session begins without the second factor on an account that asked    *)
(* for one ever since the request arrived (routes_auth.rs:85-108, :680).   *)
SecondFactorAsked == \A f \in DOMAIN issued : ~issued[f].bare

(* What a single-use credential opens is opened once, and with every       *)
(* factor the account wants.                                               *)
SessionsAreEarned == SpentOnce /\ SecondFactorAsked

(* A refresh token presented after its session was logged out is never     *)
(* exchanged for a new session: not when Redis lost the revocation, nor    *)
(* after a restart with or without Redis (services/auth.rs:366-377).       *)
LoggedOutNeverRefreshes ==
    \A f \in DOMAIN issued : issued[f].by = "refresh" => ~issued[f].late

(* Steps a request reaches only as an authenticated user.                  *)
Admitted(r) ==
    req[r].op \in Authenticated /\ req[r].pc \notin {"validate", "user"}

(* No handler goes on for a request that arrived after the account was     *)
(* deactivated, whatever its token says (middleware/auth.rs:67-87).        *)
DeactivatedIsRefused == \A r \in Requests : Admitted(r) => ~req[r].dead

(* Logout and deactivation are final.                                      *)
EndedStaysEnded == LoggedOutNeverRefreshes /\ DeactivatedIsRefused

(* The lockout is checked before an attempt and recorded after it, so      *)
(* concurrent attempts may pass together: never more than one per request  *)
(* in progress beyond the limit (services/auth.rs:72-104).                 *)
GuessesAreBounded ==
    \A key \in Keys : failures[key] < Limit + Cardinality(Requests)

(* "Both stores are written so revocation survives a Redis failover in     *)
(* either direction" (routes_auth.rs, logout): a token presented after     *)
(* its session was logged out is refused.                                  *)
LoggedOutIsRefused == \A r \in Requests : Admitted(r) => ~req[r].late
=============================================================================
