--------------------------- MODULE SessionsProofs ---------------------------
(***************************************************************************)
(* That the end of a session is final, that its beginning is earned and    *)
(* that guesses are bounded, for any number of requests, restarts,         *)
(* sessions and calls to Redis that fail.                                  *)
(*                                                                         *)
(* The argument.  logout answers only after the table has a row for the    *)
(* family (Recorded), rows are never removed, and a rotation reads the     *)
(* table whatever Redis said: a refresh token that arrived after the       *)
(* logout therefore never leaves the first step (StoppedAtOnce).           *)
(* An account that was deactivated stays so, and every authenticated       *)
(* handler reads it after the request arrived.                             *)
(*                                                                         *)
(* A credential is spent before anything is minted for it, in a store that *)
(* never forgets and where only one request can have spent it (Redeeming,  *)
(* Looking), and its family is minted by that request alone: no other      *)
(* family stands in its way (Forestalls).  A rotation that lost the family *)
(* to another one before it claims its token will fail at the claim.       *)
(* An attempt that passed the lockout is either still trying or counted.   *)
(***************************************************************************)
EXTENDS Sessions, FiniteSetTheorems, TLAPS

Ops == {"serve", "logout", "delete", "enroll", "activate", "disable",
        "regenerate", "recover", "mfa"}

Steps == {"idle", "validate", "user", "served", "delete", "enroll", "secret",
          "enable", "configure", "codes", "config", "drop", "renew", "off",
          "wipe", "guard", "count", "factor", "record", "clear", "password",
          "redeem", "lookup", "family", "claim", "retire", "settle"}

Token == [family : Nat, type : Types \union {"none"}]

Request ==
    [op : Ops \union {"none", "login", "exchange", "refresh"}, pc : Steps,
     token : Token, memo : Nat, held : BOOLEAN, late : BOOLEAN, dead : BOOLEAN]

Family == [kind : {"session", "challenge"}, by : Ops \union {"none", "login", "exchange", "refresh"},
           of : Nat, late : BOOLEAN, redis : BOOLEAN, bare : BOOLEAN]

Account == [active : BOOLEAN, mfa : BOOLEAN, secret : BOOLEAN,
            config : Nat, codes : SUBSET Nat]

Shape ==
    /\ req \in [Requests -> Request]
    /\ account \in Account
    /\ batches \in Nat
    /\ made \in Nat
    /\ issued \in Seq(Family)
    /\ attached \in BOOLEAN

(* Which handlers the shared steps belong to.                              *)
StepsOf(r) ==
    /\ req[r].pc \in {"validate", "user"} => req[r].op \in Authenticated
    /\ req[r].pc = "guard" => req[r].op \in {"login", "recover", "mfa"}

Recorded == \A f \in loggedOut : \E row \in rows : row.family = f

StoppedAtOnce(r) ==
    req[r].op = "refresh" /\ req[r].late =>
        req[r].pc = "family" /\ req[r].token.family \in loggedOut

RefusedWhenDead(r) ==
    /\ req[r].dead => ~account.active
    /\ Admitted(r) => ~req[r].dead

Requested(r) == StepsOf(r) /\ StoppedAtOnce(r) /\ RefusedWhenDead(r)

IInv ==
    /\ Shape
    /\ Recorded
    /\ \A r \in Requests : Requested(r)
    /\ LoggedOutNeverRefreshes

USE DEF TokenSet

(* The handlers, as a plain set.                                           *)
LEMMA AuthenticatedOps ==
    Authenticated = Ops
BY DEF Authenticated, AfterAuthentication, Ops

LEMMA AfterAuthenticationSteps ==
    ASSUME NEW op \in Authenticated
    PROVE  /\ AfterAuthentication[op] \in Steps
           /\ AfterAuthentication[op] \notin {"validate", "user", "family"}
           /\ AfterAuthentication[op] = "guard" => op \in {"login", "recover", "mfa"}
<1>1. op \in Ops
    BY AuthenticatedOps
<1>2. /\ AfterAuthentication["serve"] = "served"
      /\ AfterAuthentication["logout"] = "retire"
      /\ AfterAuthentication["delete"] = "delete"
      /\ AfterAuthentication["enroll"] = "enroll"
      /\ AfterAuthentication["activate"] = "secret"
      /\ AfterAuthentication["disable"] = "off"
      /\ AfterAuthentication["regenerate"] = "config"
      /\ AfterAuthentication["recover"] = "guard"
      /\ AfterAuthentication["mfa"] = "guard"
    BY DEF AfterAuthentication
<1> QED BY <1>1, <1>2 DEF Ops, Steps

(* The invariant holds at the start.                                       *)
LEMMA InitIInv == Init => IInv
<1> SUFFICES ASSUME Init PROVE IInv
    OBVIOUS
<1>1. req = [r \in Requests |-> Idle]
    BY DEF Init, SecondFactorInit
<1>2. Shape
  <2>1. Idle \in Request
      BY DEF Idle, NoToken, Request, Token, Types, Ops, Steps
  <2>2. account \in Account
    <3>1. account = NewAccount \/ account = EnrolledAccount
        BY DEF Init, SecondFactorInit
    <3>2. 1 \in Nat /\ 0 \in Nat /\ {} \in SUBSET Nat /\ {1} \in SUBSET Nat
        OBVIOUS
    <3>3. NewAccount \in Account
        BY <3>2 DEF NewAccount, Account
    <3>4. EnrolledAccount \in Account
        BY <3>2 DEF EnrolledAccount, Account
    <3> QED BY <3>1, <3>3, <3>4
  <2> QED BY <1>1, <2>1, <2>2 DEF Init, TokensInit, SecondFactorInit, Shape
<1>3. Recorded
    BY DEF Init, Recorded
<1>4. \A r \in Requests : Requested(r)
    BY <1>1, AuthenticatedOps
       DEF Ops, Requested, StepsOf, StoppedAtOnce, RefusedWhenDead, Admitted, Idle
<1>5. LoggedOutNeverRefreshes
    BY DEF Init, LoggedOutNeverRefreshes
<1> QED BY <1>2, <1>3, <1>4, <1>5 DEF IInv

-----------------------------------------------------------------------------
(* What a step may do beside moving one request: rows are added, and the   *)
(* account is never activated again.                                       *)
Calm ==
    /\ account' \in Account
    /\ account'.active => account.active
    /\ rows \subseteq rows'
    /\ batches' \in Nat
    /\ made' \in Nat
    /\ attached' \in BOOLEAN
    /\ loggedOut \subseteq loggedOut'
    /\ Recorded'
    /\ issued' \in Seq(Family)
    /\ LoggedOutNeverRefreshes'

(* Most steps leave the history alone, and many the account too.           *)
LEMMA CalmHistory ==
    ASSUME IInv, account' \in Account, account'.active => account.active,
           rows \subseteq rows', batches' \in Nat, made' \in Nat, attached' \in BOOLEAN,
           UNCHANGED <<loggedOut, issued>>
    PROVE  Calm
  BY DEF IInv, Shape, Recorded, Calm, LoggedOutNeverRefreshes

LEMMA CalmAccount ==
    ASSUME IInv, rows \subseteq rows', batches' \in Nat, made' \in Nat, attached' \in BOOLEAN,
           UNCHANGED <<account, loggedOut, issued>>
    PROVE  Calm
  BY CalmHistory DEF IInv, Shape

LEMMA CalmNothing ==
    ASSUME IInv, UNCHANGED <<rows, batches, made, attached, account, loggedOut, issued>>
    PROVE  Calm
  BY CalmAccount DEF IInv, Shape

(* Moving one request keeps the invariant if it keeps that request's part. *)
LEMMA OneRequest ==
    ASSUME IInv, Calm, NEW r \in Requests, NEW q \in Request,
           req' = [req EXCEPT ![r] = q], Requested(r)'
    PROVE  IInv'
<1>1. Shape'
    BY DEF IInv, Shape, Calm
<1>2. Recorded'
    BY DEF Calm
<1>3. \A p \in Requests : Requested(p)'
  <2>1. ASSUME NEW p \in Requests, p # r PROVE Requested(p)'
    <3>1. req'[p] = req[p]
        BY <2>1 DEF IInv, Shape
    <3>2. Requested(p)
        BY <2>1 DEF IInv
    <3> QED BY <3>1, <3>2 DEF Requested, StepsOf, StoppedAtOnce, RefusedWhenDead, Admitted, Calm
  <2> QED BY <2>1
<1>4. LoggedOutNeverRefreshes'
    BY DEF Calm
<1> QED BY <1>1, <1>2, <1>3, <1>4 DEF IInv

(* An answered request is idle, of which nothing is required.              *)
LEMMA Answered ==
    ASSUME IInv, Calm, NEW r \in Requests, Answer(r)
    PROVE  IInv'
<1>1. Idle \in Request
    BY DEF Idle, NoToken, Request, Token, Types, Ops, Steps
<1>2. req' = [req EXCEPT ![r] = Idle]
    BY DEF Answer
<1>3. req'[r] = Idle
    BY <1>2 DEF IInv, Shape
<1>4. Requested(r)'
    BY <1>3, AuthenticatedOps
       DEF Requested, StepsOf, StoppedAtOnce, RefusedWhenDead, Admitted, Idle, Ops
<1> QED BY <1>1, <1>2, <1>4, OneRequest

(* Past its first step a request is neither late nor dead, and goes on     *)
(* with whatever it keeps in mind.                                         *)
LEMMA GoesOn ==
    ASSUME IInv, Calm, NEW r \in Requests, NEW pc \in Steps, NEW memo \in Nat,
           req' = [req EXCEPT ![r].pc = pc, ![r].memo = memo],
           req[r].pc \notin {"validate", "user", "family"},
           pc \notin {"validate", "user", "family", "guard"}
    PROVE  IInv'
<1> DEFINE q == [req[r] EXCEPT !.pc = pc, !.memo = memo]
<1>1. req[r] \in Request
    BY DEF IInv, Shape
<1>2. q \in Request
    BY <1>1 DEF Request
<1>3. req' = [req EXCEPT ![r] = q]
    BY DEF IInv, Shape
<1>4. /\ req'[r] = q
      /\ q.op = req[r].op /\ q.token = req[r].token /\ q.pc = pc
      /\ q.late = req[r].late /\ q.dead = req[r].dead
    BY <1>1, <1>3 DEF IInv, Shape, Request
<1>5. Requested(r)
    BY DEF IInv
<1>6. Requested(r)'
    BY <1>4, <1>5
       DEF Requested, StepsOf, StoppedAtOnce, RefusedWhenDead, Admitted, Calm
<1> QED BY <1>2, <1>3, <1>6, OneRequest

LEMMA MovesOn ==
    ASSUME IInv, Calm, NEW r \in Requests, NEW pc \in Steps, Goto(r, pc),
           req[r].pc \notin {"validate", "user", "family"},
           pc \notin {"validate", "user", "family", "guard"}
    PROVE  IInv'
<1>1. req[r] \in Request /\ req \in [Requests -> Request]
    BY DEF IInv, Shape
<1>2. req[r].memo \in Nat
    BY <1>1 DEF Request
<1>3. req' = [req EXCEPT ![r].pc = pc, ![r].memo = req[r].memo]
    BY <1>1 DEF Goto, Request
<1> QED BY <1>2, <1>3, GoesOn

LEMMA NothingMoves ==
    ASSUME IInv, Calm, req' = req
    PROVE  IInv'
<1>1. Shape'
    BY DEF IInv, Shape, Calm
<1>2. ASSUME NEW p \in Requests PROVE Requested(p)'
  <2>1. Requested(p)
      BY DEF IInv
  <2> QED BY <2>1 DEF Requested, StepsOf, StoppedAtOnce, RefusedWhenDead, Admitted, Calm
<1> QED BY <1>1, <1>2 DEF IInv, Calm

(* Minting ends a request and adds a family that no late rotation made.    *)
LEMMA Minted ==
    ASSUME IInv, NEW r \in Requests, NEW kind \in {"session", "challenge"}, NEW of \in Nat,
           Mint(r, kind, of), req[r].pc # "family",
           rows \subseteq rows', UNCHANGED <<account, batches, made, attached, loggedOut>>
    PROVE  IInv'
<1> DEFINE f == [kind |-> kind, by |-> req[r].op, of |-> of, late |-> req[r].late,
                 redis |-> attached,
                 bare |-> kind = "session" /\ req[r].op \in {"login", "exchange"} /\ req[r].held]
<1>1. req[r] \in Request
    BY DEF IInv, Shape
<1>2. f \in Family
  <2>1. (kind = "session" /\ req[r].op \in {"login", "exchange"} /\ req[r].held) \in BOOLEAN
      BY Zenon
  <2> QED BY <1>1, <2>1 DEF Family, Request, IInv, Shape
<1>3. issued' = Append(issued, f)
    BY DEF Mint
<1>4. issued' \in Seq(Family)
    BY <1>2, <1>3 DEF IInv, Shape
<1>5. f.by = "refresh" => ~f.late
  <2>1. Requested(r)
      BY DEF IInv
  <2> QED BY <2>1 DEF Requested, StoppedAtOnce
<1>6. LoggedOutNeverRefreshes'
  <2> SUFFICES ASSUME NEW i \in DOMAIN issued', issued'[i].by = "refresh"
               PROVE  ~issued'[i].late
      BY DEF LoggedOutNeverRefreshes
  <2> HIDE DEF f
  <2>1. issued \in Seq(Family) /\ LoggedOutNeverRefreshes
      BY DEF IInv, Shape
  <2>2. CASE i \in DOMAIN issued
    <3>1. issued'[i] = issued[i]
        BY <1>2, <1>3, <2>1, <2>2
    <3> QED BY <2>1, <2>2, <3>1 DEF LoggedOutNeverRefreshes
  <2>3. CASE i \notin DOMAIN issued
    <3>1. issued'[i] = f
        BY <1>2, <1>3, <2>1, <2>3
    <3> QED BY <1>5, <3>1
  <2> QED BY <2>2, <2>3
<1>7. Calm
    BY <1>4, <1>6 DEF IInv, Shape, Recorded, Calm
<1>8. Answer(r)
    BY DEF Mint
<1> QED BY <1>7, <1>8, Answered

-----------------------------------------------------------------------------
(* An arriving request is late only if its family was logged out, and dead *)
(* only if the account is.                                                 *)
LEMMA Arrives ==
    ASSUME IInv, NEW r \in Requests, NEW op \in Ops \union {"login", "exchange", "refresh"},
           NEW pc \in {"validate", "family", "guard", "redeem"}, NEW token \in Token, NEW memo \in Nat,
           op = "refresh" <=> pc = "family", op \in Ops <=> pc = "validate",
           pc = "guard" => op = "login",
           Arrive(r, op, pc, token, memo)
    PROVE  IInv'
<1> DEFINE q == [op |-> op, pc |-> pc, token |-> token, memo |-> memo,
                 held |-> account.mfa, late |-> token.family \in loggedOut,
                 dead |-> ~account.active]
<1>1. q \in Request
  <2>1. (token.family \in loggedOut) \in BOOLEAN
      OBVIOUS
  <2>2. (~account.active) \in BOOLEAN
      OBVIOUS
  <2>3. account.mfa \in BOOLEAN
      BY DEF IInv, Shape, Account
  <2> QED BY <2>1, <2>2, <2>3 DEF Request, Steps
<1>2. req' = [req EXCEPT ![r] = q]
    BY DEF Arrive
<1>3. Calm
    BY CalmNothing DEF Arrive, tokenVars, accountVars, sessionVars
<1>4. req'[r] = q
    BY <1>2 DEF IInv, Shape
<1>5. /\ account' = account /\ loggedOut' = loggedOut
    BY DEF Arrive, accountVars, sessionVars
<1>6. /\ req'[r].op = op /\ req'[r].pc = pc /\ req'[r].token = token
      /\ req'[r].late = (token.family \in loggedOut)
      /\ req'[r].dead = (~account.active)
  <2>1. q.op = op /\ q.pc = pc /\ q.token = token
      OBVIOUS
  <2>2. q.late = (token.family \in loggedOut)
      BY Zenon
  <2>3. q.dead = (~account.active)
      BY Zenon
  <2> HIDE DEF q
  <2> QED BY <1>4, <2>1, <2>2, <2>3
<1>7. Requested(r)'
  <2>1. StepsOf(r)'
      BY <1>6, AuthenticatedOps DEF StepsOf
  <2>2. StoppedAtOnce(r)'
      BY <1>5, <1>6 DEF StoppedAtOnce
  <2>3. RefusedWhenDead(r)'
      BY <1>5, <1>6, AuthenticatedOps DEF RefusedWhenDead, Admitted, Ops
  <2> QED BY <2>1, <2>2, <2>3 DEF Requested
<1> QED BY <1>1, <1>2, <1>3, <1>7, OneRequest

-----------------------------------------------------------------------------
(* Requests of a signed-in user.                                           *)
LEMMA AuthenticationStep ==
    ASSUME IInv, UNCHANGED sessionVars, NEW r \in Requests, ValidateToken(r) \/ ReadUser(r)
    PROVE  IInv'
<1>1. Calm
    BY CalmNothing DEF ValidateToken, ReadUser, tokenVars, accountVars, sessionVars
<1>2. req \in [Requests -> Request] /\ req[r] \in Request /\ Requested(r)
    BY DEF IInv, Shape
<1>3. CASE Answer(r)
    BY <1>1, <1>3, Answered
<1>4. CASE ValidateToken(r) /\ ~Answer(r)
  <2>1. req[r].pc = "validate" /\ Goto(r, "user")
      BY <1>4 DEF ValidateToken, At
  <2> DEFINE q == [req[r] EXCEPT !.pc = "user"]
  <2>2. q \in Request /\ req' = [req EXCEPT ![r] = q]
      BY <1>2, <2>1 DEF Goto, Request, Steps
  <2>3. req'[r].op = req[r].op /\ req'[r].pc = "user" /\ req'[r].dead = req[r].dead
      BY <1>2, <2>2 DEF Request
  <2>4. req[r].op \in Authenticated
      BY <1>2, <2>1 DEF Requested, StepsOf
  <2>5. Requested(r)'
      BY <1>1, <1>2, <2>3, <2>4, AuthenticatedOps
         DEF Requested, StepsOf, StoppedAtOnce, RefusedWhenDead, Admitted, Ops, Calm
  <2> QED BY <1>1, <2>2, <2>5, OneRequest
<1>5. CASE ReadUser(r) /\ ~Answer(r)
  <2> DEFINE pc == AfterAuthentication[req[r].op]
             memo == IF account.secret THEN 1 ELSE 0
             q == [req[r] EXCEPT !.pc = pc, !.memo = memo]
  <2>1. /\ req[r].pc = "user" /\ account.active
        /\ req' = [req EXCEPT ![r].pc = pc, ![r].memo = memo]
      BY <1>5 DEF ReadUser, At
  <2>2. req[r].op \in Authenticated
      BY <1>2, <2>1 DEF Requested, StepsOf
  <2>3. /\ pc \in Steps /\ pc \notin {"validate", "user", "family"}
        /\ pc = "guard" => req[r].op \in {"login", "recover", "mfa"}
      BY <2>2, AfterAuthenticationSteps
  <2>4. memo \in Nat
      OBVIOUS
  <2> HIDE DEF pc, memo
  <2>5. q \in Request
      BY <1>2, <2>3, <2>4 DEF Request
  <2>6. req' = [req EXCEPT ![r] = q]
      BY <1>2, <2>1
  <2>7. req'[r].op = req[r].op /\ req'[r].pc = pc /\ req'[r].dead = req[r].dead
      BY <1>2, <2>6 DEF Request
  <2>8. ~req[r].dead
      BY <1>2, <2>1 DEF Requested, RefusedWhenDead
  <2>9. Requested(r)'
      BY <2>2, <2>3, <2>7, <2>8, AuthenticatedOps
         DEF Requested, StepsOf, StoppedAtOnce, RefusedWhenDead, Admitted, Ops
  <2> QED BY <1>1, <2>5, <2>6, <2>9, OneRequest
<1> QED BY <1>3, <1>4, <1>5

(* The account with one of its fields replaced.                            *)
LEMMA AccountFields ==
    ASSUME NEW a \in Account
    PROVE  /\ [a EXCEPT !.active = FALSE] \in Account
           /\ ~[a EXCEPT !.active = FALSE].active
           /\ [a EXCEPT !.secret = TRUE] \in Account
           /\ [a EXCEPT !.secret = TRUE].active = a.active
           /\ [a EXCEPT !.mfa = TRUE] \in Account
           /\ [a EXCEPT !.mfa = TRUE].active = a.active
           /\ [a EXCEPT !.mfa = FALSE, !.secret = FALSE] \in Account
           /\ [a EXCEPT !.mfa = FALSE, !.secret = FALSE].active = a.active
  BY DEF Account

LEMMA AccountCodes ==
    ASSUME NEW a \in Account, NEW C \in SUBSET Nat
    PROVE  [a EXCEPT !.codes = C] \in Account /\ [a EXCEPT !.codes = C].active = a.active
  BY DEF Account

LEMMA AccountConfig ==
    ASSUME NEW a \in Account, NEW n \in Nat
    PROVE  /\ [a EXCEPT !.config = n] \in Account /\ [a EXCEPT !.config = n].active = a.active
           /\ [a EXCEPT !.config = n, !.codes = {}] \in Account
           /\ [a EXCEPT !.config = n, !.codes = {}].active = a.active
  BY DEF Account

LEMMA ManagementStep ==
    ASSUME IInv, UNCHANGED sessionVars, NEW r \in Requests,
           \/ Serve(r) \/ DeleteUser(r) \/ Enroll(r)
           \/ ReadSecret(r) \/ EnableMfa(r) \/ Configure(r) \/ PersistCodes(r)
           \/ ReadConfig(r) \/ DropCodes(r) \/ RenewCodes(r) \/ WipeConfig(r)
    PROVE  IInv'
<1>1. /\ account \in Account /\ account.codes \in SUBSET Nat /\ account.config \in Nat
      /\ batches \in Nat /\ req[r] \in Request /\ req[r].memo \in Nat
  <2>1. account \in Account /\ batches \in Nat /\ req[r] \in Request
      BY DEF IInv, Shape
  <2> QED BY <2>1 DEF Account, Request
<1>2. CASE Serve(r)
    BY <1>2, CalmNothing, Answered
       DEF Serve, tokenVars, accountVars, sessionVars
<1>3. CASE DeleteUser(r)
  <2>1. Calm
      BY <1>1, <1>3, AccountFields, CalmHistory
         DEF DeleteUser, tokenVars, sessionVars, IInv, Shape
  <2> QED BY <1>3, <2>1, Answered DEF DeleteUser
<1>4. CASE Enroll(r)
  <2>1. Calm
      BY <1>1, <1>4, AccountFields, CalmHistory
         DEF Enroll, tokenVars, sessionVars, IInv, Shape
  <2> QED BY <1>4, <2>1, Answered DEF Enroll
<1>5. CASE ReadSecret(r)
  <2>1. Calm
      BY <1>5, CalmNothing DEF ReadSecret, tokenVars, accountVars, sessionVars
  <2>2. CASE Answer(r)
      BY <2>1, <2>2, Answered
  <2>3. CASE Goto(r, "enable")
      BY <1>5, <2>1, <2>3, MovesOn DEF ReadSecret, At, Steps
  <2> QED BY <1>5, <2>2, <2>3 DEF ReadSecret
<1>6. CASE EnableMfa(r)
  <2>1. Calm
      BY <1>1, <1>6, AccountFields, CalmHistory
         DEF EnableMfa, tokenVars, sessionVars, IInv, Shape
  <2> QED BY <1>6, <2>1, MovesOn DEF EnableMfa, At, Steps
<1>7. CASE Configure(r)
  <2>1. batches' \in Nat
      BY <1>1, <1>7 DEF Configure
  <2>2. account' \in Account /\ account'.active = account.active
    <3>1. account' = [account EXCEPT !.config = IF account.config = 0 THEN batches' ELSE account.config]
        BY <1>1, <1>7 DEF Configure, Account
    <3>2. (IF account.config = 0 THEN batches' ELSE account.config) \in Nat
        BY <1>1, <2>1
    <3> QED BY <1>1, <3>1, <3>2, AccountConfig
  <2>3. Calm
      BY <1>7, <2>1, <2>2, CalmHistory DEF Configure, tokenVars, sessionVars, IInv, Shape
  <2> QED BY <1>7, <2>1, <2>3, GoesOn DEF Configure, At, Steps
<1>8. CASE PersistCodes(r)
  <2>1. account' \in Account /\ account'.active = account.active
    <3>1. account.codes \union {req[r].memo} \in SUBSET Nat
        BY <1>1
    <3>2. \/ account' = account
          \/ account' = [account EXCEPT !.codes = account.codes \union {req[r].memo}]
        BY <1>1, <1>8 DEF PersistCodes, Account
    <3>3. CASE account' = account
        BY <1>1, <3>3
    <3>4. CASE account' # account
        BY <1>1, <3>1, <3>2, <3>4, AccountCodes
    <3> QED BY <3>3, <3>4
  <2>2. Calm
      BY <1>8, <2>1, CalmHistory DEF PersistCodes, tokenVars, sessionVars, IInv, Shape
  <2> QED BY <1>8, <2>2, Answered DEF PersistCodes
<1>9. CASE ReadConfig(r)
  <2>1. Calm
      BY <1>9, CalmNothing DEF ReadConfig, tokenVars, accountVars, sessionVars
  <2>2. CASE Answer(r)
      BY <2>1, <2>2, Answered
  <2>3. CASE req' = [req EXCEPT ![r].pc = "drop", ![r].memo = account.config]
      BY <1>1, <1>9, <2>1, <2>3, GoesOn DEF ReadConfig, At, Steps
  <2> QED BY <1>9, <2>2, <2>3 DEF ReadConfig
<1>10. CASE DropCodes(r)
  <2>1. account' \in Account /\ account'.active = account.active
      BY <1>1, <1>10, AccountCodes DEF DropCodes
  <2>2. Calm
      BY <1>10, <2>1, CalmHistory DEF DropCodes, tokenVars, sessionVars, IInv, Shape
  <2>3. Goto(r, "wipe") \/ Goto(r, "renew")
      BY <1>10 DEF DropCodes
  <2> QED BY <1>10, <2>2, <2>3, MovesOn DEF DropCodes, At, Steps
<1>11. CASE RenewCodes(r)
  <2>1. batches' \in Nat
      BY <1>1, <1>11 DEF RenewCodes
  <2>2. account' \in Account /\ account'.active = account.active
    <3>1. account.codes \union {batches'} \in SUBSET Nat
        BY <1>1, <2>1
    <3>2. \/ account' = account
          \/ account' = [account EXCEPT !.codes = account.codes \union {batches'}]
        BY <1>1, <1>11 DEF RenewCodes, Account
    <3>3. CASE account' = account
        BY <1>1, <3>3
    <3>4. CASE account' # account
        BY <1>1, <3>1, <3>2, <3>4, AccountCodes
    <3> QED BY <3>3, <3>4
  <2>3. Calm
      BY <1>11, <2>1, <2>2, CalmHistory DEF RenewCodes, tokenVars, sessionVars, IInv, Shape
  <2> QED BY <1>11, <2>3, Answered DEF RenewCodes
<1>12. CASE WipeConfig(r)
  <2>1. account' \in Account /\ account'.active = account.active
      BY <1>1, <1>12, AccountConfig DEF WipeConfig
  <2>2. Calm
      BY <1>12, <2>1, CalmHistory DEF WipeConfig, tokenVars, sessionVars, IInv, Shape
  <2> QED BY <1>12, <2>2, Answered DEF WipeConfig
<1> QED BY <1>2, <1>3, <1>4, <1>5, <1>6, <1>7, <1>8, <1>9, <1>10, <1>11, <1>12

(* disable_mfa touches every request, but only their history of the second *)
(* factor.                                                                 *)
LEMMA TurnOffStep ==
    ASSUME IInv, UNCHANGED sessionVars, NEW r \in Requests, TurnOff(r)
    PROVE  IInv'
<1>1. Calm
    BY AccountFields, CalmHistory DEF TurnOff, tokenVars, sessionVars, IInv, Shape
<1>2. ASSUME NEW p \in Requests
      PROVE  /\ req'[p] \in Request /\ req'[p].op = req[p].op /\ req'[p].token = req[p].token
             /\ req'[p].pc = (IF p = r THEN "config" ELSE req[p].pc)
             /\ req'[p].late = req[p].late /\ req'[p].dead = req[p].dead
  <2>1. req'[p] = [req[p] EXCEPT !.held = FALSE, !.pc = IF p = r THEN "config" ELSE req[p].pc]
      BY DEF TurnOff, IInv, Shape, Request
  <2>2. req[p] \in Request
      BY DEF IInv, Shape
  <2>3. (IF p = r THEN "config" ELSE req[p].pc) \in Steps
      BY <2>2 DEF Request, Steps
  <2> QED BY <2>1, <2>2, <2>3 DEF Request
<1>3. Shape'
  <2>1. DOMAIN req' = Requests /\ req' = [p \in Requests |-> req'[p]]
      BY DEF TurnOff
  <2> QED BY <1>1, <1>2, <2>1 DEF IInv, Shape, Calm
<1>4. ASSUME NEW p \in Requests PROVE Requested(p)'
  <2>1. Requested(p) /\ Requested(r) /\ req[r].pc = "off"
      BY DEF IInv, TurnOff, At
  <2> QED BY <1>1, <1>2, <2>1
          DEF Requested, StepsOf, StoppedAtOnce, RefusedWhenDead, Admitted, Calm
<1> QED BY <1>1, <1>3, <1>4 DEF IInv, Calm

-----------------------------------------------------------------------------
(* The lockout and the second factor.                                      *)
LEMMA FactorStep ==
    ASSUME IInv, UNCHANGED sessionVars, NEW r \in Requests,
           \/ CheckLockout(r) \/ CountCodes(r) \/ RedeemCode(r) \/ VerifyTotp(r)
           \/ WrongFactor(r) \/ RecordFailure(r) \/ ClearRecovery(r)
    PROVE  IInv'
<1>1. account \in Account /\ account.codes \in SUBSET Nat /\ Requested(r)
    BY DEF IInv, Shape, Account
<1>2. CASE CheckLockout(r)
  <2>1. Calm
      BY <1>2, CalmNothing DEF CheckLockout, tokenVars, accountVars, sessionVars
  <2>2. req[r].op \in {"login", "recover", "mfa"} /\ req[r].pc = "guard"
      BY <1>1, <1>2 DEF CheckLockout, At, Requested, StepsOf
  <2>3. Answer(r) \/ Goto(r, "password") \/ Goto(r, "count") \/ Goto(r, "factor")
      BY <1>2, <2>2 DEF CheckLockout
  <2>4. CASE Answer(r)
      BY <2>1, <2>4, Answered
  <2>5. CASE Goto(r, "password")
      BY <2>1, <2>2, <2>5, MovesOn DEF Steps
  <2>6. CASE Goto(r, "count")
      BY <2>1, <2>2, <2>6, MovesOn DEF Steps
  <2>7. CASE Goto(r, "factor")
      BY <2>1, <2>2, <2>7, MovesOn DEF Steps
  <2> QED BY <2>3, <2>4, <2>5, <2>6, <2>7
<1>3. CASE CountCodes(r)
  <2>1. Calm
      BY <1>3, CalmNothing DEF CountCodes, tokenVars, accountVars, sessionVars
  <2>2. CASE Answer(r)
      BY <2>1, <2>2, Answered
  <2>3. CASE Goto(r, "factor")
      BY <1>3, <2>1, <2>3, MovesOn DEF CountCodes, At, Steps
  <2> QED BY <1>3, <2>2, <2>3 DEF CountCodes
<1>4. CASE RedeemCode(r)
  <2>1. PICK b \in Batches : account' = [account EXCEPT !.codes = account.codes \ {b}]
      BY <1>1, <1>4 DEF RedeemCode, Account
  <2>2. account.codes \ {b} \in SUBSET Nat
      BY <1>1
  <2>3. account' \in Account /\ account'.active = account.active
      BY <1>1, <2>1, <2>2, AccountCodes
  <2>4. Calm
      BY <1>4, <2>3, CalmHistory DEF RedeemCode, tokenVars, sessionVars, IInv, Shape
  <2> QED BY <1>4, <2>4, MovesOn DEF RedeemCode, At, Steps
<1>5. CASE VerifyTotp(r)
  <2>1. Calm
      BY <1>5, CalmNothing DEF VerifyTotp, tokenVars, accountVars, sessionVars
  <2> QED BY <1>5, <2>1, MovesOn DEF VerifyTotp, At, Steps
<1>6. CASE WrongFactor(r)
  <2>1. Calm
      BY <1>6, CalmNothing DEF WrongFactor, tokenVars, accountVars, sessionVars
  <2> QED BY <1>6, <2>1, MovesOn DEF WrongFactor, At, Steps
<1>7. CASE RecordFailure(r)
    BY <1>7, CalmNothing, Answered DEF RecordFailure, tokenVars, accountVars, sessionVars
<1>8. CASE ClearRecovery(r)
    BY <1>8, CalmNothing, Answered DEF ClearRecovery, tokenVars, accountVars, sessionVars
<1> QED BY <1>2, <1>3, <1>4, <1>5, <1>6, <1>7, <1>8

LEMMA SecondFactorStep ==
    IInv /\ SecondFactorNext /\ UNCHANGED sessionVars => IInv'
<1> SUFFICES ASSUME IInv, SecondFactorNext, UNCHANGED sessionVars PROVE IInv'
    OBVIOUS
<1>1. CASE \E key \in Keys : WindowPasses(key)
    BY <1>1, CalmNothing, NothingMoves
       DEF WindowPasses, tokenVars, accountVars, sessionVars
<1>2. ASSUME NEW r \in Requests, ValidateToken(r) \/ ReadUser(r) PROVE IInv'
    BY <1>2, AuthenticationStep
<1>3. ASSUME NEW r \in Requests,
             \/ Serve(r) \/ DeleteUser(r) \/ Enroll(r)
             \/ ReadSecret(r) \/ EnableMfa(r) \/ Configure(r) \/ PersistCodes(r)
             \/ ReadConfig(r) \/ DropCodes(r) \/ RenewCodes(r) \/ WipeConfig(r)
      PROVE  IInv'
    BY <1>3, ManagementStep
<1>4. ASSUME NEW r \in Requests, TurnOff(r) PROVE IInv'
    BY <1>4, TurnOffStep
<1>5. ASSUME NEW r \in Requests,
             \/ CheckLockout(r) \/ CountCodes(r) \/ RedeemCode(r) \/ VerifyTotp(r)
             \/ WrongFactor(r) \/ RecordFailure(r) \/ ClearRecovery(r)
      PROVE  IInv'
    BY <1>5, FactorStep
<1> QED BY <1>1, <1>2, <1>3, <1>4, <1>5 DEF SecondFactorNext

-----------------------------------------------------------------------------
(* A browser presents a token, a password or an exchange code.             *)
LEMMA ArrivalStep ==
    ASSUME IInv, NEW r \in Requests, Present(r) \/ SubmitPassword(r) \/ SubmitCode(r)
    PROVE  IInv'
<1>1. NoToken \in Token
    BY DEF NoToken, Token
<1>2. CASE Present(r)
  <2>1. PICK token \in Held, op \in Authenticated \union {"refresh"} :
          Arrive(r, op, IF op = "refresh" THEN "family" ELSE "validate", token, 0)
      BY <1>2 DEF Present
  <2>2. token \in Token
    <3>1. \E f \in DOMAIN issued, t \in Types : token = [family |-> f, type |-> t]
        BY <2>1 DEF Held, Types
    <3>2. DOMAIN issued \subseteq Nat
        BY DEF IInv, Shape
    <3> QED BY <3>1, <3>2 DEF Token
  <2>3. CASE op = "refresh"
      BY <2>1, <2>2, <2>3, Arrives DEF Ops
  <2>4. CASE op # "refresh"
    <3>1. op \in Ops
        BY <2>1, <2>4, AuthenticatedOps
    <3> QED BY <2>1, <2>2, <2>4, <3>1, Arrives
  <2> QED BY <2>3, <2>4
<1>3. CASE SubmitPassword(r)
    BY <1>1, <1>3, Arrives DEF SubmitPassword, Ops
<1>4. CASE SubmitCode(r)
  <2>1. PICK n \in 1 .. made : Arrive(r, "exchange", "redeem", NoToken, n)
      BY <1>4 DEF SubmitCode
  <2>2. n \in Nat
      BY DEF IInv, Shape
  <2> QED BY <1>1, <2>1, <2>2, Arrives DEF Ops
<1> QED BY <1>2, <1>3, <1>4

(* Login, exchange, rotation and logout.                                   *)
LEMMA SessionStep ==
    ASSUME IInv, NEW r \in Requests,
           \/ CheckPassword(r) \/ FinishLogin(r) \/ RedeemExchangeCode(r) \/ FinishExchange(r)
           \/ ClearMfa(r) \/ Claim(r) \/ RetireInCache(r) \/ FinishRotation(r)
    PROVE  IInv'
<1>1. req[r] \in Request /\ req[r].memo \in Nat /\ req[r].token.family \in Nat
  <2>1. req[r] \in Request
      BY DEF IInv, Shape
  <2> QED BY <2>1 DEF Request, Token
<1>2. CASE CheckPassword(r)
  <2>1. Calm
      BY <1>2, CalmNothing DEF CheckPassword, tokenVars, accountVars, sessionVars
  <2>2. CASE Goto(r, "record")
      BY <1>2, <2>1, <2>2, MovesOn DEF CheckPassword, At, Steps
  <2>3. CASE ~Goto(r, "record")
    <3>1. req' = [req EXCEPT ![r].pc = "clear", ![r].memo = IF account.mfa THEN 1 ELSE 0]
        BY <1>2, <2>3 DEF CheckPassword
    <3>2. (IF account.mfa THEN 1 ELSE 0) \in Nat
        OBVIOUS
    <3> QED BY <1>2, <2>1, <3>1, <3>2, GoesOn DEF CheckPassword, At, Steps
  <2> QED BY <2>2, <2>3
<1>3. CASE FinishLogin(r)
  <2>1. Len(issued) + 1 \in Nat
      BY DEF IInv, Shape
  <2>2. (IF req[r].memo = 1 THEN "challenge" ELSE "session") \in {"session", "challenge"}
      OBVIOUS
  <2> QED BY <1>3, <2>1, <2>2, Minted DEF FinishLogin, At, tokenVars, accountVars
<1>4. CASE RedeemExchangeCode(r)
  <2>1. Calm
      BY <1>4, CalmNothing DEF RedeemExchangeCode, tokenVars, accountVars, sessionVars
  <2>2. CASE Answer(r)
      BY <2>1, <2>2, Answered
  <2>3. CASE Goto(r, "lookup")
      BY <1>4, <2>1, <2>3, MovesOn DEF RedeemExchangeCode, At, Steps
  <2> QED BY <1>4, <2>2, <2>3 DEF RedeemExchangeCode
<1>5. CASE FinishExchange(r)
  <2>1. (IF account.mfa THEN "challenge" ELSE "session") \in {"session", "challenge"}
      OBVIOUS
  <2> QED BY <1>1, <1>5, <2>1, Minted DEF FinishExchange, FirstFactor, At, tokenVars, accountVars
<1>6. CASE ClearMfa(r)
  <2>1. Calm
      BY <1>6, CalmNothing DEF ClearMfa, tokenVars, accountVars, sessionVars
  <2> QED BY <1>6, <2>1, MovesOn DEF ClearMfa, At, Steps
<1>7. CASE Claim(r)
  <2>1. rows \subseteq rows'
      BY <1>7 DEF Claim, ConsumeOnce
  <2>2. Calm
      BY <1>7, <2>1, CalmAccount DEF Claim, accountVars, sessionVars, IInv, Shape
  <2>3. CASE Answer(r)
      BY <2>2, <2>3, Answered
  <2>4. CASE Goto(r, "retire")
      BY <1>7, <2>2, <2>4, MovesOn DEF Claim, At, Steps
  <2> QED BY <1>7, <2>3, <2>4 DEF Claim
<1>8. CASE RetireInCache(r)
  <2>1. Calm
      BY <1>8, CalmNothing DEF RetireInCache, accountVars, sessionVars
  <2> QED BY <1>8, <2>1, MovesOn DEF RetireInCache, At, Steps
<1>9. CASE FinishRotation(r)
    BY <1>1, <1>9, Minted DEF FinishRotation, RevokeInDb, At, accountVars
<1> QED BY <1>2, <1>3, <1>4, <1>5, <1>6, <1>7, <1>8, <1>9

(* The family check is where a late rotation stops: the table has a row    *)
(* for every family that was logged out.                                   *)
LEMMA FamilyStep ==
    ASSUME IInv, NEW r \in Requests, CheckFamily(r)
    PROVE  IInv'
<1>1. Calm
    BY CalmNothing DEF CheckFamily, tokenVars, accountVars, sessionVars
<1>2. CASE Answer(r)
    BY <1>1, <1>2, Answered
<1>3. CASE ~Answer(r)
  <2>1. Goto(r, "claim") /\ ~RevokedInDb(req[r].token)
      BY <1>3 DEF CheckFamily, FamilyRevoked
  <2>2. req[r].token.family \notin loggedOut
      BY <2>1 DEF IInv, Recorded, RevokedInDb
  <2>3. req[r] \in Request /\ req \in [Requests -> Request] /\ Requested(r)
      BY DEF IInv, Shape
  <2>4. ~(req[r].op = "refresh" /\ req[r].late)
      BY <2>2, <2>3 DEF Requested, StoppedAtOnce
  <2> DEFINE q == [req[r] EXCEPT !.pc = "claim"]
  <2>5. q \in Request /\ req' = [req EXCEPT ![r] = q]
      BY <2>1, <2>3 DEF Goto, Request, Steps
  <2>6. /\ req'[r].op = req[r].op /\ req'[r].pc = "claim"
        /\ req'[r].late = req[r].late /\ req'[r].dead = req[r].dead
      BY <2>3, <2>5 DEF Request
  <2>7. req[r].pc = "family"
      BY DEF CheckFamily, At
  <2>8. Requested(r)'
      BY <1>1, <2>3, <2>4, <2>6, <2>7
         DEF Requested, StepsOf, StoppedAtOnce, RefusedWhenDead, Admitted, Calm
  <2> QED BY <1>1, <2>5, <2>8, OneRequest
<1> QED BY <1>2, <1>3

(* logout is answered after its row is in the table.                       *)
LEMMA LogoutStep ==
    ASSUME IInv, NEW r \in Requests, FinishLogout(r)
    PROVE  IInv'
<1>1. Recorded'
  <2>1. req[r].token \in rows' /\ rows \subseteq rows'
      BY DEF FinishLogout, RevokeInDb
  <2>2. loggedOut' = loggedOut \union {req[r].token.family}
      BY DEF FinishLogout
  <2> QED BY <2>1, <2>2 DEF IInv, Recorded
<1>2. Calm
  <2>1. rows \subseteq rows' /\ loggedOut \subseteq loggedOut'
      BY DEF FinishLogout, RevokeInDb
  <2>2. UNCHANGED <<account, batches, made, attached, issued>>
      BY DEF FinishLogout, accountVars
  <2> QED BY <1>1, <2>1, <2>2 DEF IInv, Shape, Calm, LoggedOutNeverRefreshes
<1> QED BY <1>2, Answered DEF FinishLogout

LEMMA CallbackStep == IInv /\ GithubCallback => IInv'
<1> SUFFICES ASSUME IInv, GithubCallback PROVE IInv'
    OBVIOUS
<1>1. Calm
    BY CalmAccount DEF GithubCallback, tokenVars, accountVars, IInv, Shape
<1> QED BY <1>1, NothingMoves DEF GithubCallback

LEMMA RestartStep == IInv /\ Restart => IInv'
<1> SUFFICES ASSUME IInv, Restart PROVE IInv'
    OBVIOUS
<1>1. Calm
    BY CalmAccount DEF Restart, accountVars, IInv, Shape
<1>2. Idle \in Request
    BY DEF Idle, NoToken, Request, Token, Types, Ops, Steps
<1>3. req' = [r \in Requests |-> Idle]
    BY DEF Restart
<1>4. Shape'
    BY <1>1, <1>2, <1>3 DEF Shape, Calm
<1>5. \A r \in Requests : Requested(r)'
    BY <1>3, AuthenticatedOps
       DEF Ops, Requested, StepsOf, StoppedAtOnce, RefusedWhenDead, Admitted, Idle
<1> QED BY <1>1, <1>4, <1>5 DEF IInv, Calm

(* Every step keeps the invariant.                                         *)
LEMMA NextIInv == IInv /\ [Next]_vars => IInv'
<1> SUFFICES ASSUME IInv, [Next]_vars PROVE IInv'
    OBVIOUS
<1>1. CASE UNCHANGED vars
  <2>1. Calm /\ req' = req
      BY <1>1, CalmNothing DEF vars, tokenVars, accountVars, sessionVars
  <2> QED BY <2>1, NothingMoves
<1>2. CASE SecondFactorNext /\ UNCHANGED sessionVars
    BY <1>2, SecondFactorStep
<1>3. ASSUME NEW r \in Requests, Present(r) \/ SubmitPassword(r) \/ SubmitCode(r) PROVE IInv'
    BY <1>3, ArrivalStep
<1>4. ASSUME NEW r \in Requests,
             \/ CheckPassword(r) \/ FinishLogin(r) \/ RedeemExchangeCode(r) \/ FinishExchange(r)
             \/ ClearMfa(r) \/ Claim(r) \/ RetireInCache(r) \/ FinishRotation(r)
      PROVE  IInv'
    BY <1>4, SessionStep
<1>5. ASSUME NEW r \in Requests, CheckFamily(r) PROVE IInv'
    BY <1>5, FamilyStep
<1>6. ASSUME NEW r \in Requests, FinishLogout(r) PROVE IInv'
    BY <1>6, LogoutStep
<1>7. CASE GithubCallback
    BY <1>7, CallbackStep
<1>8. CASE Restart
    BY <1>8, RestartStep
<1> QED BY <1>1, <1>2, <1>3, <1>4, <1>5, <1>6, <1>7, <1>8 DEF Next

(* Logout and deactivation are final: a rotation that starts after its     *)
(* session was logged out mints nothing, and no handler goes on for a      *)
(* request that arrived after the account was deactivated, for any number  *)
(* of requests, restarts with or without Redis, and failing Redis calls    *)
(* (services/auth.rs:352-378 and 391-419, middleware/auth.rs:67-87).       *)
THEOREM EndingsAreFinal == Spec => []EndedStaysEnded
<1>1. IInv => EndedStaysEnded
    BY DEF IInv, Requested, RefusedWhenDead, EndedStaysEnded, DeactivatedIsRefused
<1> QED BY InitIInv, NextIInv, <1>1, PTL DEF Spec

-----------------------------------------------------------------------------
(* How a step moves the requests.                                          *)

(* The invariant so far, of which the rest makes use.                      *)
LEMMA Invariant == Spec => []IInv
BY InitIInv, NextIInv, PTL DEF Spec

(* Which handlers stop at which step.                                      *)
Placed(r) ==
    /\ req[r].pc = "password" => req[r].op = "login"
    /\ req[r].pc = "count" => req[r].op = "recover"
    /\ req[r].pc = "factor" => req[r].op \in {"recover", "mfa"}
    /\ req[r].pc \in {"record", "clear"} => req[r].op \in {"login", "recover", "mfa"}
    /\ req[r].pc \in {"redeem", "lookup"} => req[r].op = "exchange"
    /\ req[r].pc = "family" => req[r].op = "refresh"
    /\ req[r].pc = "claim" => req[r].op \in {"refresh", "mfa"}
    /\ req[r].pc \in {"retire", "settle"} => req[r].op \in {"refresh", "mfa", "logout"}

(* A request goes on, its handler, token and history unchanged.            *)
Moved(r, pc, memo) ==
    /\ \A p \in Requests \ {r} : req'[p] = req[p]
    /\ req'[r].op = req[r].op /\ req'[r].token = req[r].token /\ req'[r].held = req[r].held
    /\ req'[r].pc = pc /\ req'[r].memo = memo

(* The moves that neither pass the lockout nor claim anything.  Only a     *)
(* challenge is admitted at the second step of a login.                    *)
PlainEdge(q, to) ==
    \/ q.pc = "validate" /\ to = "user" /\ (q.op = "mfa" => q.token.type = "challenge")
    \/ q.pc = "user" /\ to \in {"served", "delete", "enroll", "secret", "off", "config", "guard"}
    \/ q.pc = "user" /\ to = "retire" /\ q.op = "logout"
    \/ <<q.pc, to>> \in {<<"secret", "enable">>, <<"enable", "configure">>, <<"config", "drop">>,
                         <<"drop", "renew">>, <<"drop", "wipe">>, <<"count", "factor">>, <<"factor", "clear">>,
                         <<"factor", "record">>, <<"password", "clear">>, <<"password", "record">>,
                         <<"retire", "settle">>}

(* What the handler keeps in mind: login, whether a second factor is asked *)
(* for.                                                                    *)
Minded(q, to, memo) ==
    \/ memo = q.memo /\ <<q.pc, to>> # <<"password", "clear">>
    \/ q.pc \in {"user", "config"}
    \/ q.pc = "password" /\ (account.mfa => memo = 1)

Arrived(r) ==
    /\ \A p \in Requests \ {r} : req'[p] = req[p]
    /\ req'[r].held = account.mfa
    /\ \/ req'[r].pc = "validate" /\ req'[r].op \in Authenticated
       \/ req'[r].pc = "family" /\ req'[r].op = "refresh"
       \/ req'[r].pc = "guard" /\ req'[r].op = "login"
       \/ req'[r].pc = "redeem" /\ req'[r].op = "exchange" /\ req'[r].memo \in 1 .. made

Emptied(r) == req'[r] = Idle /\ \A p \in Requests \ {r} : req'[p] = req[p]

Advanced(r) ==
    \E pc \in Steps, memo \in Nat :
        Moved(r, pc, memo) /\ PlainEdge(req[r], pc) /\ Minded(req[r], pc, memo)

(* The two forms in which the actions say so.                              *)
LEMMA GotoMoved ==
    ASSUME Shape, NEW r \in Requests, NEW pc, Goto(r, pc)
    PROVE  Moved(r, pc, req[r].memo) /\ req[r].memo \in Nat
<1>1. req[r] \in Request
    BY DEF Shape
<1> QED BY <1>1 DEF Shape, Goto, Moved, Request

LEMMA MemoMoved ==
    ASSUME Shape, NEW r \in Requests, NEW pc, NEW memo,
           req' = [req EXCEPT ![r].pc = pc, ![r].memo = memo]
    PROVE  Moved(r, pc, memo)
<1>1. req[r] \in Request
    BY DEF Shape
<1> QED BY <1>1 DEF Shape, Moved, Request

(* An answered request is idle again.                                      *)
LEMMA AnswerEmpties ==
    ASSUME Shape, NEW r \in Requests, Answer(r)
    PROVE  Emptied(r)
BY DEF Shape, Answer, Emptied

(* Whatever a browser presents starts at the first step of its handler.    *)
LEMMA ArrivalArrives ==
    ASSUME IInv, NEW r \in Requests, Present(r) \/ SubmitPassword(r) \/ SubmitCode(r)
    PROVE  Arrived(r)
<1>1. ASSUME NEW op, NEW pc, NEW token, NEW memo, Arrive(r, op, pc, token, memo)
      PROVE  /\ \A p \in Requests \ {r} : req'[p] = req[p]
             /\ req'[r].op = op /\ req'[r].pc = pc /\ req'[r].token = token /\ req'[r].memo = memo
             /\ req'[r].held = account.mfa
  <2> DEFINE q == [op |-> op, pc |-> pc, token |-> token, memo |-> memo,
                   held |-> account.mfa, late |-> token.family \in loggedOut,
                   dead |-> ~account.active]
  <2>1. req' = [req EXCEPT ![r] = q]
      BY <1>1 DEF Arrive
  <2>2. q.op = op /\ q.pc = pc /\ q.token = token /\ q.memo = memo /\ q.held = account.mfa
      OBVIOUS
  <2> HIDE DEF q
  <2> QED BY <2>1, <2>2 DEF IInv, Shape
<1>2. CASE Present(r)
  <2>1. PICK token \in Held, op \in Authenticated \union {"refresh"} :
          Arrive(r, op, IF op = "refresh" THEN "family" ELSE "validate", token, 0)
      BY <1>2 DEF Present
  <2>2. req'[r].op = op /\ req'[r].pc = (IF op = "refresh" THEN "family" ELSE "validate")
      BY <1>1, <2>1
  <2>3. op \in Authenticated => op # "refresh"
      BY AuthenticatedOps DEF Ops
  <2> QED BY <1>1, <2>1, <2>2, <2>3 DEF Arrived
<1>3. CASE SubmitPassword(r)
    BY <1>1, <1>3 DEF SubmitPassword, Arrived
<1>4. CASE SubmitCode(r)
    BY <1>1, <1>4 DEF SubmitCode, Arrived
<1> QED BY <1>2, <1>3, <1>4

(* Where a handler goes once its user is known.                            *)
LEMMA AfterAuthenticationEdges ==
    ASSUME NEW op \in Authenticated
    PROVE  \/ AfterAuthentication[op] \in {"served", "delete", "enroll", "secret", "off", "config", "guard"}
           \/ AfterAuthentication[op] = "retire" /\ op = "logout"
<1>1. op \in Ops
    BY AuthenticatedOps
<1>2. /\ AfterAuthentication["serve"] = "served"
      /\ AfterAuthentication["logout"] = "retire"
      /\ AfterAuthentication["delete"] = "delete"
      /\ AfterAuthentication["enroll"] = "enroll"
      /\ AfterAuthentication["activate"] = "secret"
      /\ AfterAuthentication["disable"] = "off"
      /\ AfterAuthentication["regenerate"] = "config"
      /\ AfterAuthentication["recover"] = "guard"
      /\ AfterAuthentication["mfa"] = "guard"
    BY DEF AfterAuthentication
<1> QED BY <1>1, <1>2 DEF Ops

(* Every action of a request, but for the lockout and the claims, answers  *)
(* it or moves it along a plain edge.                                      *)
LEMMA PlainAdvance ==
    ASSUME IInv, NEW r \in Requests,
           \/ ValidateToken(r) \/ ReadUser(r) \/ ReadSecret(r) \/ EnableMfa(r)
           \/ ReadConfig(r) \/ DropCodes(r) \/ CountCodes(r) \/ RedeemCode(r) \/ VerifyTotp(r)
           \/ WrongFactor(r) \/ CheckPassword(r) \/ RetireInCache(r)
    PROVE  Emptied(r) \/ Advanced(r)
<1>1. Shape /\ req[r] \in Request /\ account \in Account /\ Requested(r)
    BY DEF IInv, Shape
<1>2. ASSUME NEW pc \in Steps, Goto(r, pc), PlainEdge(req[r], pc),
             <<req[r].pc, pc>> # <<"password", "clear">>
      PROVE  Advanced(r)
    BY <1>1, <1>2, GotoMoved DEF Advanced, Minded
<1>3. ASSUME NEW pc \in Steps, NEW memo \in Nat,
             req' = [req EXCEPT ![r].pc = pc, ![r].memo = memo],
             PlainEdge(req[r], pc), Minded(req[r], pc, memo)
      PROVE  Advanced(r)
    BY <1>1, <1>3, MemoMoved DEF Advanced
<1>4. CASE Answer(r)
    BY <1>1, <1>4, AnswerEmpties
<1>5. CASE ValidateToken(r)
    BY <1>2, <1>4, <1>5 DEF ValidateToken, At, PlainEdge, Steps
<1>6. CASE ReadUser(r) /\ ~Answer(r)
  <2> DEFINE pc == AfterAuthentication[req[r].op]
             memo == IF account.secret THEN 1 ELSE 0
  <2>1. req[r].op \in Authenticated /\ req[r].pc = "user"
      BY <1>1, <1>6 DEF ReadUser, At, Requested, StepsOf
  <2>2. pc \in Steps
      BY <2>1, AfterAuthenticationSteps
  <2>3. memo \in Nat /\ req' = [req EXCEPT ![r].pc = pc, ![r].memo = memo]
      BY <1>6 DEF ReadUser
  <2>4. PlainEdge(req[r], pc)
      BY <2>1, AfterAuthenticationEdges DEF PlainEdge
  <2> HIDE DEF pc, memo
  <2> QED BY <1>3, <2>1, <2>2, <2>3, <2>4 DEF Minded
<1>7. CASE ReadSecret(r) \/ EnableMfa(r)
    BY <1>2, <1>4, <1>7 DEF ReadSecret, EnableMfa, At, PlainEdge, Steps
<1>8. CASE ReadConfig(r) /\ ~Answer(r)
  <2>1. req' = [req EXCEPT ![r].pc = "drop", ![r].memo = account.config] /\ account.config \in Nat
      BY <1>1, <1>8 DEF ReadConfig, Account
  <2> QED BY <1>3, <1>8, <2>1 DEF ReadConfig, At, PlainEdge, Minded, Steps
<1>9. CASE DropCodes(r) \/ CountCodes(r) \/ RedeemCode(r) \/ VerifyTotp(r) \/ WrongFactor(r)
    BY <1>2, <1>4, <1>9 DEF DropCodes, CountCodes, RedeemCode, VerifyTotp, WrongFactor, At, PlainEdge, Steps
<1>10. CASE CheckPassword(r)
  <2>1. CASE Goto(r, "record")
      BY <1>2, <1>10, <2>1 DEF CheckPassword, At, PlainEdge, Steps
  <2>2. CASE ~Goto(r, "record")
    <3> DEFINE memo == IF account.mfa THEN 1 ELSE 0
    <3>1. memo \in Nat /\ (account.mfa => memo = 1)
        OBVIOUS
    <3>2. req' = [req EXCEPT ![r].pc = "clear", ![r].memo = memo] /\ req[r].pc = "password"
        BY <1>10, <2>2 DEF CheckPassword, At
    <3> HIDE DEF memo
    <3>3. PlainEdge(req[r], "clear") /\ "clear" \in Steps
        BY <3>2 DEF PlainEdge, Steps
    <3>4. Minded(req[r], "clear", memo)
        BY <3>1, <3>2 DEF Minded
    <3> QED BY <1>3, <3>1, <3>2, <3>3, <3>4
  <2> QED BY <2>1, <2>2
<1>11. CASE RetireInCache(r)
    BY <1>2, <1>11 DEF RetireInCache, At, PlainEdge, Steps
<1> QED BY <1>4, <1>5, <1>6, <1>7, <1>8, <1>9, <1>10, <1>11

(* The moves that pass the lockout, number a batch or claim a credential.  *)
Special(r) ==
    \/ CheckLockout(r) \/ Configure(r) \/ ClearMfa(r)
    \/ RedeemExchangeCode(r) \/ CheckFamily(r) \/ Claim(r)

(* What becomes of the requests in a step.                                 *)
LEMMA RequestSteps ==
    ASSUME IInv, [Next]_vars
    PROVE  \/ UNCHANGED req
           \/ \E r \in Requests : Arrived(r) /\ UNCHANGED <<account, batches, accepted>>
           \/ \E r \in Requests : Emptied(r) \/ Advanced(r)
           \/ \E r \in Requests : TurnOff(r) \/ Special(r)
           \/ Restart
<1>1. Shape
    BY DEF IInv
<1>2. ASSUME NEW r \in Requests, Present(r) \/ SubmitPassword(r) \/ SubmitCode(r)
      PROVE  UNCHANGED <<account, batches, accepted>>
    BY <1>2 DEF Present, SubmitPassword, SubmitCode, Arrive, accountVars
<1>3. ASSUME NEW r \in Requests,
             \/ Serve(r) \/ DeleteUser(r) \/ Enroll(r) \/ PersistCodes(r) \/ RenewCodes(r)
             \/ WipeConfig(r) \/ RecordFailure(r) \/ ClearRecovery(r)
             \/ FinishLogin(r) \/ FinishExchange(r) \/ FinishRotation(r) \/ FinishLogout(r)
      PROVE  Emptied(r)
    BY <1>1, <1>3, AnswerEmpties
       DEF Serve, DeleteUser, Enroll, PersistCodes, RenewCodes, WipeConfig, RecordFailure, ClearRecovery,
           FinishLogin, FinishExchange, FirstFactor, FinishRotation, FinishLogout, Mint
<1>4. (\E key \in Keys : WindowPasses(key)) \/ GithubCallback \/ UNCHANGED vars => UNCHANGED req
    BY DEF WindowPasses, GithubCallback, vars
<1> QED BY <1>2, <1>3, <1>4, ArrivalArrives, PlainAdvance DEF Next, SecondFactorNext, Special

-----------------------------------------------------------------------------
(* What each of these moves took, unless it was answered instead.          *)
LEMMA SpecialMoves ==
    ASSUME IInv, NEW r \in Requests, Special(r)
    PROVE  \/ Emptied(r)
           \/ \E pc \in {"password", "count", "factor"} :
                CheckLockout(r) /\ Moved(r, pc, req[r].memo)
                /\ (pc = "password" <=> req[r].op = "login") /\ (pc = "count" <=> req[r].op = "recover")
           \/ Configure(r) /\ Moved(r, "codes", batches + 1)
           \/ ClearMfa(r) /\ Moved(r, "claim", req[r].memo)
           \/ RedeemExchangeCode(r) /\ Moved(r, "lookup", req[r].memo) /\ req[r].memo \in codes
           \/ CheckFamily(r) /\ Moved(r, "claim", req[r].memo)
              /\ req[r].token.type = "refresh" /\ ~RevokedInDb(req[r].token)
           \/ Claim(r) /\ Moved(r, "retire", req[r].memo)
              /\ req[r].token \notin (IF attached THEN cache.tokens ELSE rows)
<1>1. Shape /\ req[r] \in Request /\ Requested(r)
    BY DEF IInv, Shape
<1>2. CASE Answer(r)
    BY <1>1, <1>2, AnswerEmpties
<1>3. CASE CheckLockout(r) /\ ~Answer(r)
  <2>1. req[r].op \in {"login", "recover", "mfa"}
      BY <1>1, <1>3 DEF CheckLockout, At, Requested, StepsOf
  <2>2. CASE req[r].op = "login"
    <3>1. Goto(r, "password")
        BY <1>3, <2>2 DEF CheckLockout
    <3> QED BY <1>1, <1>3, <2>2, <3>1, GotoMoved
  <2>3. CASE req[r].op = "recover"
    <3>1. Goto(r, "count")
        BY <1>3, <2>3 DEF CheckLockout
    <3> QED BY <1>1, <1>3, <2>3, <3>1, GotoMoved
  <2>4. CASE req[r].op = "mfa"
    <3>1. Goto(r, "factor")
        BY <1>3, <2>4 DEF CheckLockout
    <3> QED BY <1>1, <1>3, <2>4, <3>1, GotoMoved
  <2> QED BY <2>1, <2>2, <2>3, <2>4
<1>4. CASE Configure(r)
  <2>1. req' = [req EXCEPT ![r].pc = "codes", ![r].memo = batches + 1]
      BY <1>4 DEF Configure
  <2> QED BY <1>1, <1>4, <2>1, MemoMoved
<1>5. CASE ClearMfa(r)
    BY <1>1, <1>5, GotoMoved DEF ClearMfa
<1>6. CASE RedeemExchangeCode(r) /\ ~Answer(r)
    BY <1>1, <1>6, GotoMoved DEF RedeemExchangeCode
<1>7. CASE CheckFamily(r) /\ ~Answer(r)
    BY <1>1, <1>7, GotoMoved DEF CheckFamily, FamilyRevoked
<1>8. CASE Claim(r) /\ ~Answer(r)
    BY <1>1, <1>8, GotoMoved DEF Claim, ConsumeOnce
<1> QED BY <1>2, <1>3, <1>4, <1>5, <1>6, <1>7, <1>8 DEF Special

-----------------------------------------------------------------------------
(* Requests stay where their handler goes.                                 *)
LEMMA PlacedNext ==
    ASSUME IInv, [Next]_vars, \A p \in Requests : Placed(p), NEW p \in Requests
    PROVE  Placed(p)'
<1>1. Placed(p)
    OBVIOUS
<1>2. CASE req'[p] = req[p]
    BY <1>1, <1>2 DEF Placed
<1>3. CASE req'[p] = Idle
    BY <1>3 DEF Placed, Idle
<1>4. CASE Arrived(p)
    BY <1>4 DEF Placed, Arrived
<1>5. CASE Advanced(p)
    BY <1>1, <1>5 DEF Placed, Advanced, Moved, PlainEdge
<1>6. CASE Special(p) /\ ~Emptied(p)
  <2>1. Requested(p) /\ ~Emptied(p)
      BY <1>6 DEF IInv
  <2>2. ASSUME NEW pc, NEW memo, Moved(p, pc, memo)
        PROVE  req'[p].pc = pc /\ req'[p].op = req[p].op
      BY <2>2 DEF Moved
  <2>3. ASSUME CheckLockout(p) PROVE req[p].op \in {"login", "recover", "mfa"}
      BY <2>1, <2>3 DEF CheckLockout, At, Requested, StepsOf
  <2>4. CASE CheckLockout(p)
      BY <1>1, <1>6, <2>2, <2>3, <2>4, SpecialMoves
         DEF Placed, CheckLockout, Configure, ClearMfa, RedeemExchangeCode, CheckFamily, Claim, At
  <2>5. CASE ~CheckLockout(p)
    <3>1. \/ Configure(p) /\ req'[p].pc = "codes"
          \/ ClearMfa(p) /\ req'[p].pc = "claim"
          \/ RedeemExchangeCode(p) /\ req'[p].pc = "lookup"
          \/ CheckFamily(p) /\ req'[p].pc = "claim"
          \/ Claim(p) /\ req'[p].pc = "retire"
        BY <1>6, <2>2, <2>5, SpecialMoves
    <3>2. req'[p].op = req[p].op
        BY <1>6, <2>2, SpecialMoves
    <3>3. \/ req'[p].pc = "codes"
          \/ req[p].op = "mfa" /\ req'[p].pc = "claim"
          \/ req[p].pc = "redeem" /\ req'[p].pc = "lookup"
          \/ req[p].pc = "family" /\ req'[p].pc = "claim"
          \/ req[p].pc = "claim" /\ req'[p].pc = "retire"
        BY <3>1 DEF ClearMfa, RedeemExchangeCode, CheckFamily, Claim, At
    <3> QED BY <1>1, <3>2, <3>3 DEF Placed
  <2> QED BY <2>4, <2>5
<1>7. CASE \E r \in Requests : TurnOff(r)
  <2>1. PICK r \in Requests : TurnOff(r)
      BY <1>7
  <2>2. req[p] \in Request
      BY DEF IInv, Shape
  <2>3. req'[p].op = req[p].op /\ req'[p].pc \in {req[p].pc, "config"}
      BY <2>1, <2>2 DEF TurnOff, Request
  <2> QED BY <1>1, <2>3 DEF Placed
<1>8. CASE Restart
    BY <1>3, <1>8 DEF Restart
<1>9. ASSUME NEW r \in Requests, Arrived(r) \/ Emptied(r) \/ Advanced(r) \/ Special(r), p # r
      PROVE  req'[p] = req[p]
    BY <1>9, SpecialMoves DEF Arrived, Emptied, Advanced, Moved
<1> QED BY <1>2, <1>3, <1>4, <1>5, <1>6, <1>7, <1>8, <1>9, RequestSteps DEF Emptied

-----------------------------------------------------------------------------
(* The requests past the lockout of a key that have not recorded a failure *)
(* and still may.                                                          *)
Trying(key) ==
    {r \in Requests : /\ req[r].pc \in {"password", "count", "factor", "record"}
                      /\ LockoutKey(req[r].op) = key}

Counted ==
    /\ failures \in [Keys -> Nat]
    /\ \A key \in Keys :
         failures[key] + Cardinality(Trying(key)) < Limit + Cardinality(Requests)


(* They are some of the requests.                                          *)
LEMMA TryingIsFinite ==
    ASSUME NEW key
    PROVE  /\ IsFiniteSet(Trying(key)) /\ Cardinality(Trying(key)) \in Nat
           /\ Cardinality(Trying(key)) <= Cardinality(Requests) /\ Cardinality(Requests) \in Nat
<1>1. Trying(key) \subseteq Requests
    BY DEF Trying
<1> QED BY <1>1, SecondFactorAssumption, FS_Subset, FS_CardinalityType

(* A request begins to try only by passing the lockout.                    *)
LEMMA TryingOnlyPastLockout ==
    ASSUME IInv, [Next]_vars, \A r \in Requests : Placed(r),
           NEW key \in Keys, NEW p \in Requests, p \in Trying(key)',
           ~(CheckLockout(p) /\ ~Emptied(p))
    PROVE  p \in Trying(key)
<1> DEFINE steps == {"password", "count", "factor", "record"}
<1>1. req'[p].pc \in steps /\ LockoutKey(req'[p].op) = key
    BY DEF Trying
<1>2. SUFFICES req[p].pc \in steps /\ req[p].op = req'[p].op
    BY <1>1 DEF Trying
<1>3. CASE req'[p] = req[p]
    BY <1>1, <1>3
<1>4. ~(req'[p] = Idle)
    BY <1>1 DEF Idle
<1>5. ~Arrived(p)
    BY <1>1 DEF Arrived
<1>6. CASE Advanced(p)
    BY <1>1, <1>6 DEF Advanced, Moved, PlainEdge
<1>7. ~Special(p)
  <2>1. ASSUME NEW pc, NEW memo, Moved(p, pc, memo)
        PROVE  req'[p].pc = pc
      BY <2>1 DEF Moved
  <2> QED BY <1>1, <1>4, <2>1, SpecialMoves DEF Emptied
<1>8. CASE \E r \in Requests : TurnOff(r)
  <2>1. PICK r \in Requests : TurnOff(r)
      BY <1>8
  <2>2. req[p] \in Request
      BY DEF IInv, Shape
  <2>3. req'[p].op = req[p].op /\ req'[p].pc \in {req[p].pc, "config"}
      BY <2>1, <2>2 DEF TurnOff, Request
  <2> QED BY <1>1, <2>3
<1>9. ~Restart
    BY <1>4 DEF Restart
<1>10. ASSUME NEW r \in Requests, Arrived(r) \/ Emptied(r) \/ Advanced(r) \/ Special(r), p # r
       PROVE  req'[p] = req[p]
    BY <1>10, SpecialMoves DEF Arrived, Emptied, Advanced, Moved
<1> QED BY <1>3, <1>4, <1>5, <1>6, <1>7, <1>8, <1>9, <1>10, RequestSteps DEF Emptied

(* Failures are counted one at a time, and otherwise forgotten.            *)
LEMMA FailureSteps ==
    ASSUME [Next]_vars, failures \in [Keys -> Nat]
    PROVE  \/ failures' \in [Keys -> Nat] /\ \A key \in Keys : failures'[key] <= failures[key]
           \/ \E r \in Requests : RecordFailure(r)
<1>1. ASSUME failures' = failures \/ \E key \in Keys : failures' = [failures EXCEPT ![key] = 0]
      PROVE  failures' \in [Keys -> Nat] /\ \A key \in Keys : failures'[key] <= failures[key]
    BY <1>1
<1>2. "login" \in Keys /\ "mfa_login" \in Keys /\ "mfa_recovery" \in Keys
    BY DEF Keys
<1>3. CASE UNCHANGED failures
    BY <1>1, <1>3
<1>4. CASE \E r \in Requests : FinishLogin(r) \/ ClearMfa(r) \/ ClearRecovery(r)
    BY <1>1, <1>2, <1>4 DEF FinishLogin, ClearMfa, ClearRecovery
<1>5. CASE \E key \in Keys : WindowPasses(key)
    BY <1>1, <1>5 DEF WindowPasses
<1>6. ASSUME NEW r \in Requests,
             \/ ValidateToken(r) \/ ReadUser(r) \/ Serve(r) \/ DeleteUser(r) \/ Enroll(r)
             \/ ReadSecret(r) \/ EnableMfa(r) \/ Configure(r) \/ PersistCodes(r)
             \/ ReadConfig(r) \/ DropCodes(r) \/ RenewCodes(r) \/ TurnOff(r) \/ WipeConfig(r)
             \/ CheckLockout(r) \/ CountCodes(r) \/ RedeemCode(r) \/ VerifyTotp(r) \/ WrongFactor(r)
      PROVE  UNCHANGED failures
    BY <1>6 DEF ValidateToken, ReadUser, Serve, DeleteUser, Enroll, ReadSecret, EnableMfa, Configure,
                PersistCodes, ReadConfig, DropCodes, RenewCodes, TurnOff, WipeConfig, CheckLockout,
                CountCodes, RedeemCode, VerifyTotp, WrongFactor
<1>7. ASSUME NEW r \in Requests,
             \/ Present(r) \/ SubmitPassword(r) \/ SubmitCode(r) \/ CheckPassword(r)
             \/ RedeemExchangeCode(r) \/ FinishExchange(r) \/ CheckFamily(r) \/ Claim(r)
             \/ RetireInCache(r) \/ FinishRotation(r) \/ FinishLogout(r)
      PROVE  UNCHANGED failures
    BY <1>7 DEF Present, SubmitPassword, SubmitCode, Arrive, CheckPassword, RedeemExchangeCode,
                FinishExchange, CheckFamily, Claim, RetireInCache, FinishRotation, FinishLogout
<1>8. GithubCallback \/ Restart \/ UNCHANGED vars => UNCHANGED failures
    BY DEF GithubCallback, Restart, vars
<1> QED BY <1>3, <1>4, <1>5, <1>6, <1>7, <1>8 DEF Next, SecondFactorNext

(* Passing the lockout needs a count below the limit, and a failure moves  *)
(* one request from those that try to those that are counted.              *)
LEMMA CountedNext ==
    ASSUME IInv, [Next]_vars, \A r \in Requests : Placed(r), Counted
    PROVE  Counted'
<1> DEFINE Tries(key) == Cardinality(Trying(key))
<1>1. failures \in [Keys -> Nat] /\ Limit \in Nat
    BY SecondFactorAssumption DEF Counted
<1>2. ASSUME NEW key \in Keys
      PROVE  /\ Tries(key) \in Nat /\ IsFiniteSet(Trying(key)) /\ Cardinality(Requests) \in Nat
             /\ Cardinality(Trying(key)') \in Nat /\ Cardinality(Trying(key)') <= Cardinality(Requests)
             /\ failures[key] + Tries(key) < Limit + Cardinality(Requests)
  <2>1. Trying(key)' \subseteq Requests
      BY DEF Trying
  <2> QED BY <1>2, <2>1, TryingIsFinite, SecondFactorAssumption, FS_Subset, FS_CardinalityType DEF Counted
<1>3. CASE \E r \in Requests : RecordFailure(r)
  <2>1. PICK r \in Requests : RecordFailure(r)
      BY <1>3
  <2>2. PICK k \in Keys : k = LockoutKey(req[r].op)
    <3>1. req[r].op \in {"login", "recover", "mfa"}
        BY <2>1 DEF RecordFailure, At, Placed
    <3> QED BY <3>1 DEF LockoutKey, Keys
  <2>3. /\ failures' = [failures EXCEPT ![k] = failures[k] + 1]
        /\ r \in Trying(k)
      BY <1>1, <2>1, <2>2 DEF RecordFailure, At, Trying
  <2>4. ASSUME NEW key \in Keys
        PROVE  Trying(key)' \subseteq Trying(key) \ {r}
    <3>1. ASSUME NEW p \in Trying(key)' PROVE p \in Trying(key) \ {r}
      <4>1. p \in Requests
          BY <3>1 DEF Trying
      <4>2. req'[r] = Idle
          BY <2>1 DEF RecordFailure, Answer, IInv, Shape
      <4>3. p # r
          BY <3>1, <4>2 DEF Trying, Idle
      <4>4. req'[p] = req[p]
          BY <2>1, <4>1, <4>3 DEF RecordFailure, Answer, IInv, Shape
      <4> QED BY <3>1, <4>1, <4>3, <4>4 DEF Trying
    <3> QED BY <3>1
  <2>5. ASSUME NEW key \in Keys
        PROVE  failures'[key] + Cardinality(Trying(key)') < Limit + Cardinality(Requests)
    <3>1. CASE key = k
      <4>1. Cardinality(Trying(k) \ {r}) = Tries(k) - 1 /\ IsFiniteSet(Trying(k) \ {r})
          BY <1>2, <2>3, FS_RemoveElement
      <4>2. Cardinality(Trying(k)') <= Tries(k) - 1
          BY <2>4, <4>1, FS_Subset
      <4>3. failures'[k] = failures[k] + 1
          BY <1>1, <2>3
      <4> HIDE DEF Tries
      <4> QED BY <1>1, <1>2, <3>1, <4>2, <4>3
    <3>2. CASE key # k
      <4>1. Cardinality(Trying(key)') <= Tries(key)
          BY <1>2, <2>4, FS_Subset
      <4>2. failures'[key] = failures[key]
          BY <1>1, <2>3, <3>2
      <4> HIDE DEF Tries
      <4> QED BY <1>1, <1>2, <4>1, <4>2
    <3> QED BY <3>1, <3>2
  <2>6. failures' \in [Keys -> Nat]
      BY <1>1, <2>3
  <2> QED BY <2>5, <2>6 DEF Counted
<1>4. CASE ~\E r \in Requests : RecordFailure(r)
  <2>1. failures' \in [Keys -> Nat] /\ \A key \in Keys : failures'[key] <= failures[key]
      BY <1>1, <1>4, FailureSteps
  <2>2. ASSUME NEW key \in Keys
        PROVE  failures'[key] + Cardinality(Trying(key)') < Limit + Cardinality(Requests)
    <3>1. CASE Trying(key)' \subseteq Trying(key)
      <4>1. Cardinality(Trying(key)') <= Tries(key)
          BY <1>2, <3>1, FS_Subset
      <4> HIDE DEF Tries
      <4> QED BY <1>1, <1>2, <2>1, <4>1
    <3>2. CASE ~(Trying(key)' \subseteq Trying(key))
      <4>1. PICK p \in Trying(key)' : p \notin Trying(key)
          BY <3>2
      <4>2. p \in Requests /\ LockoutKey(req'[p].op) = key
          BY <4>1 DEF Trying
      <4>3. CheckLockout(p) /\ ~Emptied(p)
          BY <4>1, <4>2, TryingOnlyPastLockout
      <4>4. ~Answer(p)
          BY <4>2, <4>3, AnswerEmpties DEF IInv
      <4>5. ~Locked(LockoutKey(req[p].op))
          BY <4>3, <4>4 DEF CheckLockout
      <4>6. req'[p].op = req[p].op
        <5>1. ASSUME NEW pc, Goto(p, pc) PROVE req'[p].op = req[p].op
            BY <4>2, <5>1, GotoMoved DEF Moved, IInv
        <5> QED BY <4>3, <4>4, <5>1 DEF CheckLockout
      <4>7. failures[key] < Limit
          BY <1>1, <4>2, <4>5, <4>6 DEF Locked
      <4> HIDE DEF Tries
      <4> QED BY <1>1, <1>2, <2>1, <4>7
    <3> QED BY <3>1, <3>2
  <2> QED BY <2>1, <2>2 DEF Counted
<1> QED BY <1>3, <1>4

-----------------------------------------------------------------------------
(* What a request has to show for the second factor.                       *)
Cautious(r) ==
    /\ req[r].held => account.mfa
    /\ req[r].op = "login" /\ req[r].pc = "clear" /\ req[r].held => req[r].memo = 1
    /\ req[r].op = "mfa" /\ req[r].pc # "validate" => req[r].token.type = "challenge"
    /\ req[r].op = "refresh" /\ req[r].pc # "family" => req[r].token.type = "refresh"


(* Only disable_mfa turns the second factor off.                           *)
LEMMA SecondFactorStays ==
    ASSUME IInv, [Next]_vars, account.mfa, ~account'.mfa
    PROVE  \E r \in Requests : TurnOff(r)
<1>1. account \in Account
    BY DEF IInv, Shape
<1>2. ASSUME account' = account PROVE FALSE
    BY <1>2
<1>3. ASSUME NEW codes_, account' = [account EXCEPT !.codes = codes_] PROVE FALSE
    BY <1>1, <1>3 DEF Account
<1>4. ASSUME NEW r \in Requests,
             \/ ValidateToken(r) \/ ReadUser(r) \/ Serve(r) \/ DeleteUser(r) \/ Enroll(r)
             \/ ReadSecret(r) \/ EnableMfa(r) \/ Configure(r)
             \/ ReadConfig(r) \/ WipeConfig(r)
             \/ CheckLockout(r) \/ CountCodes(r) \/ VerifyTotp(r) \/ WrongFactor(r)
             \/ RecordFailure(r) \/ ClearRecovery(r)
      PROVE  FALSE
    BY <1>1, <1>2, <1>4 DEF Account, ValidateToken, ReadUser, Serve, DeleteUser, Enroll, ReadSecret, EnableMfa, Configure,
                ReadConfig, WipeConfig, CheckLockout,
                CountCodes, VerifyTotp, WrongFactor, RecordFailure, ClearRecovery, accountVars
<1>5. ASSUME NEW r \in Requests, PersistCodes(r) \/ DropCodes(r) \/ RenewCodes(r) \/ RedeemCode(r)
      PROVE  FALSE
    BY <1>1, <1>2, <1>3, <1>5 DEF PersistCodes, DropCodes, RenewCodes, RedeemCode
<1>6. ASSUME NEW r \in Requests,
             \/ Present(r) \/ SubmitPassword(r) \/ SubmitCode(r) \/ CheckPassword(r) \/ FinishLogin(r) \/ ClearMfa(r)
             \/ RedeemExchangeCode(r) \/ FinishExchange(r) \/ CheckFamily(r) \/ Claim(r)
             \/ RetireInCache(r) \/ FinishRotation(r) \/ FinishLogout(r)
      PROVE  FALSE
    BY <1>2, <1>6 DEF Present, SubmitPassword, SubmitCode, Arrive, CheckPassword, FinishLogin, ClearMfa,
                RedeemExchangeCode, FinishExchange, CheckFamily, Claim, RetireInCache, FinishRotation,
                FinishLogout, accountVars
<1>7. GithubCallback \/ Restart \/ UNCHANGED vars \/ (\E key \in Keys : WindowPasses(key)) => FALSE
    BY <1>2 DEF GithubCallback, Restart, WindowPasses, vars, accountVars
<1> QED BY <1>4, <1>5, <1>6, <1>7 DEF Next, SecondFactorNext

(* A request that found the second factor on and was not told otherwise is *)
(* asked for it, and only the right kind of token gets past the first step.*)
LEMMA CautiousNext ==
    ASSUME IInv, [Next]_vars, NEW p \in Requests, Placed(p), Cautious(p)
    PROVE  Cautious(p)'
<1>1. account \in Account /\ req[p] \in Request
    BY DEF IInv, Shape
<1>2. CASE \E r \in Requests : TurnOff(r)
  <2>1. PICK r \in Requests : TurnOff(r)
      BY <1>2
  <2>2. /\ req'[p].op = req[p].op /\ req'[p].token = req[p].token /\ ~req'[p].held
        /\ req'[p].pc = req[p].pc \/ req[p].pc = "off"
      BY <1>1, <2>1 DEF TurnOff, At, Request
  <2> QED BY <2>2 DEF Cautious
<1>3. CASE ~\E r \in Requests : TurnOff(r)
  <2>1. account.mfa => account'.mfa
      BY <1>3, SecondFactorStays
  <2>2. CASE req'[p] = req[p]
      BY <2>1, <2>2 DEF Cautious
  <2>3. CASE req'[p] = Idle
      BY <2>3 DEF Cautious, Idle
  <2>4. CASE Arrived(p)
    <3>1. req'[p].held => account'.mfa
        BY <2>1, <2>4 DEF Arrived
    <3>2. req'[p].op = "mfa" => req'[p].pc = "validate"
        BY <2>4 DEF Arrived
    <3>3. req'[p].op = "refresh" => req'[p].pc = "family"
        BY <2>4, AuthenticatedOps DEF Arrived, Ops
    <3>4. req'[p].pc # "clear"
        BY <2>4 DEF Arrived
    <3> QED BY <3>1, <3>2, <3>3, <3>4 DEF Cautious
  <2>5. CASE Advanced(p)
    <3>1. PICK pc \in Steps, memo \in Nat :
            Moved(p, pc, memo) /\ PlainEdge(req[p], pc) /\ Minded(req[p], pc, memo)
        BY <2>5 DEF Advanced
    <3>2. /\ req'[p].op = req[p].op /\ req'[p].token = req[p].token /\ req'[p].held = req[p].held
          /\ req'[p].pc = pc /\ req'[p].memo = memo
        BY <3>1 DEF Moved
    <3>3. pc = "clear" /\ req[p].op = "login" => req[p].pc = "password"
        BY <3>1 DEF PlainEdge, Placed
    <3>4. pc = "clear" /\ req[p].op = "login" /\ req[p].held => memo = 1
      <4>1. req[p].held => account.mfa
          BY DEF Cautious
      <4> QED BY <3>1, <3>3, <4>1 DEF Minded
    <3>5. pc \notin {"validate", "family"} /\ req[p].pc # "family"
        BY <3>1 DEF PlainEdge
    <3>6. req[p].pc = "validate" /\ req[p].op = "mfa" => req[p].token.type = "challenge"
        BY <3>1 DEF PlainEdge
    <3> QED BY <2>1, <3>2, <3>4, <3>5, <3>6 DEF Cautious
  <2>6. CASE Special(p) /\ ~Emptied(p)
    <3>1. PICK pc \in Steps : (\E memo : Moved(p, pc, memo)) /\ pc \notin {"validate", "family", "clear"}
          /\ ((CheckFamily(p) /\ req[p].token.type = "refresh") \/ req[p].pc \notin {"validate", "family"})
        BY <2>6, SpecialMoves DEF Steps, CheckLockout, Configure, ClearMfa, RedeemExchangeCode, Claim, At
    <3>2. req'[p].op = req[p].op /\ req'[p].token = req[p].token /\ req'[p].held = req[p].held
          /\ req'[p].pc = pc
        BY <3>1 DEF Moved
    <3>3. CheckFamily(p) => req[p].op = "refresh"
        BY DEF CheckFamily, At, Placed
    <3> QED BY <2>1, <3>1, <3>2, <3>3 DEF Cautious
  <2>7. CASE Restart
      BY <2>3, <2>7 DEF Restart
  <2>8. ASSUME NEW r \in Requests, Arrived(r) \/ Emptied(r) \/ Advanced(r) \/ Special(r), p # r
        PROVE  req'[p] = req[p]
      BY <2>8, SpecialMoves DEF Arrived, Emptied, Advanced, Moved
  <2> QED BY <1>3, <2>2, <2>3, <2>4, <2>5, <2>6, <2>7, <2>8, RequestSteps DEF Emptied
<1> QED BY <1>2, <1>3

-----------------------------------------------------------------------------
(* A batch that was generated and not stored is not accepted, nor is one   *)
(* whose code is still in the table.                                       *)
Storing(r) == req[r].pc = "codes"

CodesUnspent ==
    /\ batches \in 0 .. MaxBatches
    /\ accepted \in [Batches -> {0, 1}]
    /\ account.codes \subseteq 1 .. batches
    /\ \A b \in account.codes : accepted[b] = 0
    /\ \A b \in Batches : b > batches => accepted[b] = 0
    /\ \A r \in Requests : Storing(r) =>
         /\ req[r].memo \in 1 .. batches
         /\ req[r].memo \notin account.codes
         /\ accepted[req[r].memo] = 0
    /\ \A p, q \in Requests : Storing(p) /\ Storing(q) /\ req[p].memo = req[q].memo => p = q


(* A request stores codes only after it numbered them.                     *)
LEMMA StoringAfterConfigure ==
    ASSUME IInv, [Next]_vars, NEW p \in Requests, Storing(p)', ~Configure(p)
    PROVE  Storing(p) /\ req'[p].memo = req[p].memo
<1>1. req'[p].pc = "codes" /\ req[p] \in Request
    BY DEF Storing, IInv, Shape
<1>2. CASE req'[p] = req[p]
    BY <1>2 DEF Storing
<1>3. req'[p] # Idle /\ ~Arrived(p)
    BY <1>1 DEF Idle, Arrived
<1>4. ~Advanced(p)
    BY <1>1 DEF Advanced, Moved, PlainEdge
<1>5. ~Special(p)
  <2>1. ASSUME NEW pc, NEW memo, Moved(p, pc, memo)
        PROVE  req'[p].pc = pc
      BY <2>1 DEF Moved
  <2> QED BY <1>1, <1>3, <2>1, SpecialMoves DEF Emptied
<1>6. CASE \E r \in Requests : TurnOff(r)
  <2>1. PICK r \in Requests : TurnOff(r)
      BY <1>6
  <2>2. req'[p].memo = req[p].memo /\ req'[p].pc \in {req[p].pc, "config"}
      BY <1>1, <2>1 DEF TurnOff, Request
  <2> QED BY <1>1, <2>2 DEF Storing
<1>7. ~Restart
    BY <1>3 DEF Restart
<1>8. ASSUME NEW r \in Requests, Arrived(r) \/ Emptied(r) \/ Advanced(r) \/ Special(r), p # r
      PROVE  req'[p] = req[p]
    BY <1>8, SpecialMoves DEF Arrived, Emptied, Advanced, Moved
<1> QED BY <1>2, <1>3, <1>4, <1>5, <1>6, <1>7, <1>8, RequestSteps DEF Emptied

(* Every other step at most drops codes.                                   *)
LEMMA CodeSteps ==
    ASSUME IInv, [Next]_vars,
           ~\E r \in Requests : Configure(r) \/ PersistCodes(r) \/ RenewCodes(r) \/ RedeemCode(r)
    PROVE  batches' = batches /\ accepted' = accepted /\ account'.codes \subseteq account.codes
<1>1. account \in Account
    BY DEF IInv, Shape
<1>2. ASSUME NEW r \in Requests,
             \/ ValidateToken(r) \/ ReadUser(r) \/ Serve(r) \/ DeleteUser(r) \/ Enroll(r)
             \/ ReadSecret(r) \/ EnableMfa(r) \/ ReadConfig(r) \/ DropCodes(r) \/ TurnOff(r) \/ WipeConfig(r)
      PROVE  batches' = batches /\ accepted' = accepted /\ account'.codes \subseteq account.codes
    BY <1>1, <1>2 DEF Account, ValidateToken, ReadUser, Serve, DeleteUser, Enroll, ReadSecret, EnableMfa,
                      ReadConfig, DropCodes, TurnOff, WipeConfig, accountVars
<1>3. ASSUME NEW r \in Requests,
             \/ CheckLockout(r) \/ CountCodes(r) \/ VerifyTotp(r) \/ WrongFactor(r)
             \/ RecordFailure(r) \/ ClearRecovery(r)
             \/ Present(r) \/ SubmitPassword(r) \/ SubmitCode(r) \/ CheckPassword(r) \/ FinishLogin(r) \/ ClearMfa(r)
             \/ RedeemExchangeCode(r) \/ FinishExchange(r) \/ CheckFamily(r) \/ Claim(r)
             \/ RetireInCache(r) \/ FinishRotation(r) \/ FinishLogout(r)
      PROVE  UNCHANGED accountVars
    BY <1>3 DEF CheckLockout, CountCodes, VerifyTotp, WrongFactor, RecordFailure, ClearRecovery,
                Present, SubmitPassword, SubmitCode, Arrive, CheckPassword, FinishLogin, ClearMfa,
                RedeemExchangeCode, FinishExchange, CheckFamily, Claim, RetireInCache, FinishRotation,
                FinishLogout
<1>4. GithubCallback \/ Restart \/ UNCHANGED vars \/ (\E key \in Keys : WindowPasses(key))
        => UNCHANGED accountVars
    BY DEF GithubCallback, Restart, WindowPasses, vars
<1>5. UNCHANGED accountVars => batches' = batches /\ accepted' = accepted /\ account'.codes \subseteq account.codes
    BY DEF accountVars
<1> QED BY <1>2, <1>3, <1>4, <1>5 DEF Next, SecondFactorNext

(* No step lets an accepted code be accepted again.                        *)
LEMMA CodesUnspentNext ==
    ASSUME IInv, [Next]_vars, CodesUnspent
    PROVE  CodesUnspent'
<1>1. /\ batches \in 0 .. MaxBatches /\ MaxBatches \in Nat /\ account \in Account
      /\ accepted \in [Batches -> {0, 1}] /\ account.codes \subseteq 1 .. batches
      /\ req \in [Requests -> Request]
    BY SecondFactorAssumption DEF CodesUnspent, IInv, Shape
<1>2. ASSUME NEW p \in Requests, Storing(p)
      PROVE  /\ req[p].memo \in 1 .. batches /\ req[p].memo \notin account.codes
             /\ accepted[req[p].memo] = 0
    BY <1>2 DEF CodesUnspent
<1>3. ASSUME NEW r \in Requests, PersistCodes(r) \/ RenewCodes(r) \/ RedeemCode(r), NEW p \in Requests, Storing(p)'
      PROVE  Storing(p) /\ req'[p].memo = req[p].memo
  <2>1. ~Configure(p)
      BY <1>1, <1>3 DEF PersistCodes, RenewCodes, RedeemCode, Configure, Answer, Goto, At, Request
  <2> QED BY <1>3, <2>1, StoringAfterConfigure
<1>4. CASE \E r \in Requests : PersistCodes(r)
  <2>1. PICK r \in Requests : PersistCodes(r)
      BY <1>4
  <2>2. /\ Storing(r) /\ batches' = batches /\ accepted' = accepted
        /\ account'.codes \subseteq account.codes \union {req[r].memo}
        /\ req'[r] = Idle
      BY <1>1, <2>1 DEF PersistCodes, At, Storing, Account, Answer
  <2>3. ASSUME NEW p \in Requests, Storing(p)'
        PROVE  p # r /\ Storing(p) /\ req'[p].memo = req[p].memo
      BY <1>3, <2>1, <2>2, <2>3 DEF Storing, Idle
  <2>4. \A p \in Requests : Storing(p)' => req[p].memo # req[r].memo
      BY <2>2, <2>3 DEF CodesUnspent
  <2> QED BY <1>1, <1>2, <2>2, <2>3, <2>4 DEF CodesUnspent
<1>5. CASE \E r \in Requests : RenewCodes(r)
  <2>1. PICK r \in Requests : RenewCodes(r)
      BY <1>5
  <2>2. /\ batches < MaxBatches /\ batches' = batches + 1 /\ accepted' = accepted
        /\ account'.codes \subseteq account.codes \union {batches + 1}
      BY <1>1, <2>1 DEF RenewCodes, Account
  <2>3. batches + 1 \in Batches /\ accepted[batches + 1] = 0
      BY <1>1, <2>2 DEF Batches, CodesUnspent
  <2>4. ASSUME NEW p \in Requests, Storing(p)'
        PROVE  Storing(p) /\ req'[p].memo = req[p].memo
      BY <1>3, <2>1, <2>4
  <2>5. batches' \in 0 .. MaxBatches /\ account'.codes \subseteq 1 .. batches'
      BY <1>1, <2>2
  <2>6. \A b \in account'.codes : accepted'[b] = 0
      BY <2>2, <2>3 DEF CodesUnspent
  <2>7. \A b \in Batches : b > batches' => accepted'[b] = 0
      BY <1>1, <2>2 DEF CodesUnspent, Batches
  <2>8. \A p \in Requests : Storing(p)' =>
          /\ req'[p].memo \in 1 .. batches' /\ req'[p].memo \notin account'.codes
          /\ accepted'[req'[p].memo] = 0
      BY <1>1, <1>2, <2>2, <2>4
  <2> QED BY <1>1, <2>2, <2>4, <2>5, <2>6, <2>7, <2>8 DEF CodesUnspent
<1>6. CASE \E r \in Requests : RedeemCode(r)
  <2>1. PICK r \in Requests : RedeemCode(r)
      BY <1>6
  <2>2. PICK b \in Batches : /\ b \in account.codes
                             /\ account' = [account EXCEPT !.codes = account.codes \ {b}]
                             /\ accepted' = [accepted EXCEPT ![b] = accepted[b] + 1]
      BY <1>1, <2>1 DEF RedeemCode, Redeemable, Account
  <2>3. account'.codes = account.codes \ {b} /\ batches' = batches
      BY <1>1, <2>1, <2>2 DEF RedeemCode, Account
  <2>4. accepted' = [accepted EXCEPT ![b] = 1] /\ b <= batches
    <3>1. accepted[b] = 0
        BY <2>2 DEF CodesUnspent
    <3>2. accepted[b] + 1 = 1
        BY <3>1
    <3>3. b \in 1 .. batches
        BY <1>1, <2>2
    <3>4. b <= batches
        BY <1>1, <3>3
    <3> QED BY <2>2, <3>2, <3>4
  <2>5. ASSUME NEW p \in Requests, Storing(p)'
        PROVE  Storing(p) /\ req'[p].memo = req[p].memo
      BY <1>3, <2>1, <2>5
  <2>6. \A c \in Batches : c # b => accepted'[c] = accepted[c]
      BY <1>1, <2>4
  <2>7. account'.codes \subseteq Batches
      BY <1>1, <2>3 DEF Batches
  <2>8. accepted' \in [Batches -> {0, 1}]
      BY <1>1, <2>4
  <2>9. \A c \in account'.codes : accepted'[c] = 0
      BY <2>3, <2>6, <2>7 DEF CodesUnspent
  <2>10. \A c \in Batches : c > batches' => accepted'[c] = 0
      BY <1>1, <2>3, <2>4, <2>6 DEF CodesUnspent, Batches
  <2>11. \A p \in Requests : Storing(p)' =>
          /\ req'[p].memo \in 1 .. batches' /\ req'[p].memo \notin account'.codes
          /\ accepted'[req'[p].memo] = 0
    <3>1. ASSUME NEW p \in Requests, Storing(p)'
          PROVE  /\ req[p].memo \in 1 .. batches /\ req[p].memo \notin account.codes
                 /\ accepted[req[p].memo] = 0 /\ req'[p].memo = req[p].memo
        BY <1>2, <2>5, <3>1
    <3>2. 1 .. batches \subseteq Batches
        BY <1>1 DEF Batches
    <3> QED BY <2>2, <2>3, <2>6, <3>1, <3>2
  <2> QED BY <1>1, <2>3, <2>5, <2>8, <2>9, <2>10, <2>11 DEF CodesUnspent
<1>7. CASE \E r \in Requests : Configure(r)
  <2>1. PICK r \in Requests : Configure(r)
      BY <1>7
  <2>2. /\ batches < MaxBatches /\ batches' = batches + 1 /\ accepted' = accepted
        /\ account'.codes = account.codes
        /\ req' = [req EXCEPT ![r].pc = "codes", ![r].memo = batches + 1]
      BY <1>1, <2>1 DEF Configure, Account
  <2>3. batches + 1 \in Batches /\ accepted[batches + 1] = 0 /\ batches + 1 \notin account.codes
      BY <1>1, <2>2 DEF Batches, CodesUnspent
  <2>4. req'[r].memo = batches + 1
      BY <1>1, <2>2 DEF Request
  <2>5. ASSUME NEW p \in Requests, p # r
        PROVE  req'[p] = req[p]
      BY <1>1, <2>2, <2>5
  <2>6. ASSUME NEW p \in Requests, p # r, Storing(p)'
        PROVE  /\ req'[p].memo \in 1 .. batches /\ req'[p].memo \notin account.codes
               /\ accepted[req'[p].memo] = 0 /\ Storing(p)
      BY <1>2, <2>5, <2>6 DEF Storing
  <2>7. batches' \in 0 .. MaxBatches /\ account'.codes \subseteq 1 .. batches'
      BY <1>1, <2>2
  <2>8. \A b \in Batches : b > batches' => accepted'[b] = 0
      BY <1>1, <2>2 DEF CodesUnspent, Batches
  <2>9. \A p \in Requests : Storing(p)' =>
          /\ req'[p].memo \in 1 .. batches' /\ req'[p].memo \notin account'.codes
          /\ accepted'[req'[p].memo] = 0
      BY <1>1, <2>2, <2>3, <2>4, <2>6
  <2>10. ASSUME NEW p \in Requests, NEW q \in Requests, Storing(p)', Storing(q)',
                req'[p].memo = req'[q].memo
         PROVE  p = q
    <3>1. p # r /\ q = r => FALSE
        BY <1>1, <2>4, <2>6, <2>10
    <3>2. q # r /\ p = r => FALSE
        BY <1>1, <2>4, <2>6, <2>10
    <3> QED BY <2>5, <2>6, <2>10, <3>1, <3>2 DEF CodesUnspent
  <2> QED BY <1>1, <2>2, <2>7, <2>8, <2>9, <2>10 DEF CodesUnspent
<1>8. CASE ~\E r \in Requests : Configure(r) \/ PersistCodes(r) \/ RenewCodes(r) \/ RedeemCode(r)
  <2>1. batches' = batches /\ accepted' = accepted /\ account'.codes \subseteq account.codes
      BY <1>8, CodeSteps
  <2>2. ASSUME NEW p \in Requests, Storing(p)'
        PROVE  Storing(p) /\ req'[p].memo = req[p].memo
      BY <1>8, <2>2, StoringAfterConfigure
  <2> QED BY <1>1, <1>2, <2>1, <2>2 DEF CodesUnspent
<1> QED BY <1>4, <1>5, <1>6, <1>7, <1>8

-----------------------------------------------------------------------------
(* The store this process remembers claimed tokens in.                     *)
Store == IF attached THEN cache.tokens ELSE rows

Looking(r) == req[r].pc = "lookup"
Claiming(r) == req[r].op = "refresh" /\ req[r].pc = "claim"
Redeeming(r) == req[r].op \in {"refresh", "mfa"} /\ req[r].pc \in {"retire", "settle"}

(* The credential that the n-th family was minted for is spent, in the     *)
(* store it was spent in, and no factor was left out.                      *)
Receipt(e, n) ==
    /\ e.by \in Minting /\ ~e.bare
    /\ e.by = "login" => e.of = n
    /\ e.by = "exchange" => e.of \in (1 .. made) \ codes
    /\ e.by = "refresh" => [family |-> e.of, type |-> "refresh"] \in rows
    /\ e.by = "mfa" => [family |-> e.of, type |-> "challenge"]
                         \in (IF e.redis THEN cache.tokens ELSE rows)

SameCredential(e, g) ==
    e.by = g.by /\ e.of = g.of /\ (e.by = "mfa" => e.redis = g.redis)

(* A family that was minted for what the request is about to be given:     *)
(* before it claims its token there may be one, if its claim will fail.    *)
Forestalls(e, r) ==
    \/ Looking(r) /\ e.by = "exchange" /\ e.of = req[r].memo
    \/ /\ Claiming(r) /\ e.by = "refresh" /\ e.of = req[r].token.family
       /\ req[r].token \notin Store
    \/ /\ Redeeming(r) /\ e.by = req[r].op /\ e.of = req[r].token.family
       /\ e.by = "mfa" => e.redis = attached

Entitled(r) ==
    /\ req[r].pc = "redeem" => req[r].memo \in 1 .. made
    /\ Looking(r) => req[r].memo \in (1 .. made) \ codes
    /\ Redeeming(r) => req[r].token \in Store
    /\ \A f \in DOMAIN issued : ~Forestalls(issued[f], r)

Apart(p, q) ==
    /\ Looking(p) /\ Looking(q) /\ req[p].memo = req[q].memo => p = q
    /\ Redeeming(p) /\ Redeeming(q) /\ req[p].token = req[q].token => p = q

Earned ==
    /\ cache \in [tokens : SUBSET Token, families : SUBSET Nat]
    /\ codes \subseteq 1 .. made
    /\ \A f \in DOMAIN issued : Receipt(issued[f], f)
    /\ \A f, g \in DOMAIN issued : SameCredential(issued[f], issued[g]) => f = g
    /\ \A r \in Requests : Entitled(r)
    /\ \A p, q \in Requests : Apart(p, q)

(* What most steps do: the stores grow, nothing is minted ...              *)
StoresGrow ==
    /\ UNCHANGED <<attached, issued, made>> /\ codes' \subseteq codes
    /\ cache' \in [tokens : SUBSET Token, families : SUBSET Nat]
    /\ cache.tokens \subseteq cache'.tokens /\ rows \subseteq rows'

(* ... and a request takes nothing that it had not taken before.           *)
Follows(p) ==
    /\ (req[p].pc = "redeem")' => req'[p].memo \in 1 .. made
    /\ Looking(p)' => Looking(p) /\ req'[p].memo = req[p].memo
    /\ Claiming(p)' => Claiming(p) /\ req'[p].token = req[p].token
    /\ Redeeming(p)' => Redeeming(p) /\ req'[p].token = req[p].token /\ req'[p].op = req[p].op

Taking(p) == ~Emptied(p) /\ (RedeemExchangeCode(p) \/ CheckFamily(p) \/ Claim(p))

(* A request that stays as it was, or was answered, takes nothing.         *)
LEMMA SameFollows ==
    ASSUME NEW p \in Requests, Entitled(p), req'[p] = req[p]
    PROVE  Follows(p)
BY DEF Follows, Entitled, Looking, Claiming, Redeeming

LEMMA IdleFollows ==
    ASSUME NEW p \in Requests, req'[p] = Idle
    PROVE  Follows(p)
BY DEF Follows, Idle, Looking, Claiming, Redeeming

(* Only three actions let a request take something.                        *)
LEMMA FollowsUnlessTaking ==
    ASSUME IInv, [Next]_vars, NEW p \in Requests, Placed(p), Entitled(p), ~Taking(p)
    PROVE  Follows(p)
<1>1. CASE req'[p] = req[p]
    BY <1>1, SameFollows
<1>2. CASE req'[p] = Idle
    BY <1>2, IdleFollows
<1>3. CASE Arrived(p)
    BY <1>3 DEF Arrived, Follows, Looking, Claiming, Redeeming
<1>4. CASE Advanced(p)
  <2>1. PICK pc \in Steps, memo \in Nat : Moved(p, pc, memo) /\ PlainEdge(req[p], pc)
      BY <1>4 DEF Advanced
  <2>2. req'[p].op = req[p].op /\ req'[p].token = req[p].token /\ req'[p].pc = pc
      BY <2>1 DEF Moved
  <2>3. pc \notin {"redeem", "lookup", "claim"}
      BY <2>1 DEF PlainEdge
  <2>4. pc \in {"retire", "settle"} /\ req[p].op \in {"refresh", "mfa"} => req[p].pc = "retire"
      BY <2>1 DEF PlainEdge
  <2> QED BY <2>2, <2>3, <2>4 DEF Follows, Looking, Claiming, Redeeming
<1>5. CASE Special(p) /\ ~Emptied(p)
  <2>1. ASSUME NEW pc, NEW memo, Moved(p, pc, memo)
        PROVE  req'[p].op = req[p].op /\ req'[p].pc = pc
      BY <2>1 DEF Moved
  <2>2. \/ \E pc \in {"password", "count", "factor"} : Moved(p, pc, req[p].memo)
        \/ Moved(p, "codes", batches + 1)
        \/ ClearMfa(p) /\ Moved(p, "claim", req[p].memo)
      BY <1>5, SpecialMoves DEF Taking
  <2>3. CASE \E pc \in {"password", "count", "factor"} : Moved(p, pc, req[p].memo)
      BY <2>1, <2>3 DEF Follows, Looking, Claiming, Redeeming
  <2>4. CASE Moved(p, "codes", batches + 1)
      BY <2>1, <2>4 DEF Follows, Looking, Claiming, Redeeming
  <2>5. CASE ClearMfa(p) /\ Moved(p, "claim", req[p].memo)
    <3>1. req'[p].op = "mfa" /\ req'[p].pc = "claim"
        BY <2>1, <2>5 DEF ClearMfa
    <3> QED BY <3>1 DEF Follows, Looking, Claiming, Redeeming
  <2> QED BY <2>2, <2>3, <2>4, <2>5
<1>6. CASE \E r \in Requests : TurnOff(r)
  <2>1. PICK r \in Requests : TurnOff(r)
      BY <1>6
  <2>2. req[p] \in Request
      BY DEF IInv, Shape
  <2>3. /\ req'[p].op = req[p].op /\ req'[p].memo = req[p].memo /\ req'[p].token = req[p].token
        /\ req'[p].pc \in {req[p].pc, "config"}
      BY <2>1, <2>2 DEF TurnOff, Request
  <2> QED BY <2>3 DEF Follows, Entitled, Looking, Claiming, Redeeming
<1>7. CASE Restart
    BY <1>2, <1>7 DEF Restart
<1>8. ASSUME NEW r \in Requests, Arrived(r) \/ Emptied(r) \/ Advanced(r) \/ Special(r), p # r
      PROVE  req'[p] = req[p]
    BY <1>8, SpecialMoves DEF Arrived, Emptied, Advanced, Moved
<1> QED BY <1>1, <1>2, <1>3, <1>4, <1>5, <1>6, <1>7, <1>8, RequestSteps DEF Emptied

(* The stores only grow, whatever calls to Redis fail.                     *)
LEMMA MostStoresGrow ==
    ASSUME IInv, [Next]_vars, cache \in [tokens : SUBSET Token, families : SUBSET Nat],
           ~\E r \in Requests : \/ RedeemExchangeCode(r) \/ FinishExchange(r)
                                \/ FinishLogin(r) \/ FinishRotation(r),
           ~GithubCallback, ~Restart
    PROVE  StoresGrow
<1>1. CASE UNCHANGED <<attached, issued, codes, made, cache, rows>>
    BY <1>1 DEF StoresGrow
<1>2. CASE \E key \in Keys : WindowPasses(key) /\ UNCHANGED sessionVars
    BY <1>1, <1>2 DEF WindowPasses, tokenVars, sessionVars
<1>3. CASE UNCHANGED vars
    BY <1>1, <1>3 DEF vars, tokenVars, sessionVars
<1>4. ASSUME NEW r \in Requests, UNCHANGED sessionVars,
             \/ ValidateToken(r) \/ ReadUser(r) \/ Serve(r) \/ DeleteUser(r) \/ Enroll(r)
             \/ ReadSecret(r) \/ EnableMfa(r) \/ Configure(r) \/ PersistCodes(r)
             \/ ReadConfig(r) \/ DropCodes(r) \/ RenewCodes(r) \/ TurnOff(r) \/ WipeConfig(r)
             \/ CheckLockout(r) \/ CountCodes(r) \/ RedeemCode(r) \/ VerifyTotp(r) \/ WrongFactor(r)
             \/ RecordFailure(r) \/ ClearRecovery(r)
      PROVE  StoresGrow
    BY <1>1, <1>4 DEF ValidateToken, ReadUser, Serve, DeleteUser, Enroll, ReadSecret, EnableMfa, Configure,
                PersistCodes, ReadConfig, DropCodes, RenewCodes, TurnOff, WipeConfig, CheckLockout,
                CountCodes, RedeemCode, VerifyTotp, WrongFactor, RecordFailure, ClearRecovery,
                tokenVars, sessionVars
<1>5. ASSUME NEW r \in Requests,
             \/ Present(r) \/ SubmitPassword(r) \/ SubmitCode(r) \/ CheckPassword(r)
             \/ ClearMfa(r) \/ CheckFamily(r)
      PROVE  StoresGrow
    BY <1>1, <1>5 DEF Present, SubmitPassword, SubmitCode, Arrive, CheckPassword, ClearMfa, CheckFamily,
                      tokenVars, sessionVars
<1>6. ASSUME NEW r \in Requests PROVE req[r].token \in Token /\ req[r].token.family \in Nat
  <2>1. req[r] \in Request
      BY DEF IInv, Shape
  <2> QED BY <2>1 DEF Request, Token
<1>7. ASSUME NEW r \in Requests, Claim(r) PROVE StoresGrow
  <2>1. UNCHANGED <<attached, issued, codes, made>>
      BY <1>7 DEF Claim, sessionVars
  <2>2. CASE UNCHANGED <<cache, rows>>
      BY <1>1, <2>1, <2>2
  <2>3. CASE ~UNCHANGED <<cache, rows>>
    <3>1. /\ cache' = [cache EXCEPT !.tokens = IF attached THEN cache.tokens \union {req[r].token} ELSE cache.tokens]
          /\ rows \subseteq rows'
        BY <1>7, <2>3 DEF Claim, ConsumeOnce
    <3>2. cache.tokens \union {req[r].token} \in SUBSET Token
        BY <1>6
    <3> QED BY <2>1, <3>1, <3>2 DEF StoresGrow
  <2> QED BY <2>2, <2>3
<1>8. ASSUME NEW r \in Requests, RetireInCache(r) PROVE StoresGrow
  <2>1. UNCHANGED <<attached, rows, issued, codes, made>>
      BY <1>8 DEF RetireInCache, sessionVars
  <2>2. PICK jti \in Answers, family \in Answers : RevokeInCache(req[r].token, jti, family)
      BY <1>8 DEF RetireInCache
  <2>3. /\ cache'.tokens \in {cache.tokens, cache.tokens \union {req[r].token}}
        /\ cache'.families \in {cache.families, cache.families \union {req[r].token.family}}
        /\ cache' = [tokens |-> cache'.tokens, families |-> cache'.families]
      BY <2>2 DEF RevokeInCache
  <2>4. cache'.tokens \in SUBSET Token /\ cache'.families \in SUBSET Nat /\ cache.tokens \subseteq cache'.tokens
      BY <1>6, <2>3
  <2> QED BY <2>1, <2>3, <2>4 DEF StoresGrow
<1>9. ASSUME NEW r \in Requests, FinishLogout(r) PROVE StoresGrow
    BY <1>9 DEF FinishLogout, RevokeInDb, StoresGrow
<1> QED BY <1>2, <1>3, <1>4, <1>5, <1>7, <1>8, <1>9 DEF Next, SecondFactorNext

(* Growing stores keep the receipts, and requests that take nothing what   *)
(* they are entitled to.                                                   *)
LEMMA GrowthKeepsReceipts ==
    ASSUME Earned, StoresGrow
    PROVE  /\ codes' \subseteq 1 .. made' /\ Store \subseteq Store'
           /\ \A f \in DOMAIN issued' : Receipt(issued[f], f)'
           /\ \A f, g \in DOMAIN issued' : SameCredential(issued'[f], issued'[g]) => f = g
<1>1. codes' \subseteq 1 .. made' /\ Store \subseteq Store'
    BY DEF Earned, StoresGrow, Store
<1>2. ASSUME NEW f \in DOMAIN issued' PROVE Receipt(issued[f], f)'
  <2>1. issued' = issued /\ Receipt(issued[f], f)
      BY DEF Earned, StoresGrow
  <2> QED BY <2>1 DEF Receipt, StoresGrow
<1>3. \A f, g \in DOMAIN issued' : SameCredential(issued'[f], issued'[g]) => f = g
    BY DEF Earned, StoresGrow
<1> QED BY <1>1, <1>2, <1>3

(* A request that takes nothing keeps what it is entitled to ...           *)
LEMMA GrowthKeepsEntitled ==
    ASSUME Earned, StoresGrow, NEW p \in Requests, Follows(p)
    PROVE  Entitled(p)'
<1>1. Entitled(p) /\ Store \subseteq Store' /\ issued' = issued /\ attached' = attached /\ made' = made
    BY GrowthKeepsReceipts DEF Earned, StoresGrow
<1>2. (req[p].pc = "redeem")' => req'[p].memo \in 1 .. made'
    BY <1>1 DEF Follows
<1>3. Looking(p)' => req'[p].memo \in (1 .. made') \ codes'
    BY <1>1 DEF Follows, Entitled, StoresGrow
<1>4. Redeeming(p)' => req'[p].token \in Store'
    BY <1>1 DEF Follows, Entitled
<1>5. ASSUME NEW f \in DOMAIN issued', Forestalls(issued[f], p)' PROVE FALSE
    BY <1>1, <1>5 DEF Forestalls, Follows, Entitled
<1> QED BY <1>2, <1>3, <1>4, <1>5 DEF Entitled

(* ... and shares it with nobody new.                                      *)
LEMMA GrowthKeepsApart ==
    ASSUME Earned, NEW p \in Requests, NEW q \in Requests, Follows(p), Follows(q)
    PROVE  Apart(p, q)'
<1>1. Apart(p, q)
    BY DEF Earned
<1> QED BY <1>1 DEF Apart, Follows

(* A step in which nobody takes anything.                                  *)
LEMMA QuietKeeps ==
    ASSUME Earned, StoresGrow, \A p \in Requests : Follows(p)
    PROVE  Earned'
BY GrowthKeepsReceipts, GrowthKeepsEntitled, GrowthKeepsApart DEF Earned, StoresGrow

(* One request takes what nobody else has.                                 *)
LEMMA TakingKeeps ==
    ASSUME Earned, StoresGrow, NEW r \in Requests, Entitled(r)',
           \A p \in Requests \ {r} : Follows(p) /\ Apart(p, r)' /\ Apart(r, p)'
    PROVE  Earned'
<1>1. \A p \in Requests : Entitled(p)'
    BY GrowthKeepsEntitled
<1>2. ASSUME NEW p \in Requests, NEW q \in Requests PROVE Apart(p, q)'
  <2>1. CASE p = r /\ q = r
      BY <2>1 DEF Apart
  <2> QED BY <2>1, GrowthKeepsApart
<1> QED BY <1>1, <1>2, GrowthKeepsReceipts DEF Earned, StoresGrow

(* DELETE .. RETURNING gives an exchange code to one request.              *)
LEMMA RedeemStep ==
    ASSUME IInv, [Next]_vars, NEW r \in Requests, RedeemExchangeCode(r), Earned,
           \A p \in Requests : Placed(p)
    PROVE  Earned'
<1>1. UNCHANGED <<attached, issued, made, cache, rows>> /\ codes' = codes \ {req[r].memo}
    BY DEF RedeemExchangeCode, tokenVars
<1>2. StoresGrow
    BY <1>1 DEF StoresGrow, Earned
<1>3. ASSUME NEW p \in Requests, p # r PROVE Follows(p)
  <2>1. req'[p] = req[p]
      BY <1>3 DEF RedeemExchangeCode, Goto, Answer, IInv, Shape
  <2> QED BY <2>1, SameFollows DEF Earned
<1>4. CASE Emptied(r)
    BY <1>2, <1>3, <1>4, IdleFollows, QuietKeeps DEF Emptied
<1>5. CASE ~Emptied(r)
  <2>1. Goto(r, "lookup") /\ req[r].memo \in codes
      BY <1>5, AnswerEmpties DEF RedeemExchangeCode, IInv
  <2>2. Moved(r, "lookup", req[r].memo)
      BY <2>1, GotoMoved DEF IInv
  <2>3. /\ req'[r].op = req[r].op /\ req'[r].pc = "lookup" /\ req'[r].memo = req[r].memo
      BY <2>2 DEF Moved
  <2>4. Entitled(r)'
    <3>1. ASSUME NEW f \in DOMAIN issued, Forestalls(issued[f], r)' PROVE FALSE
      <4>1. issued[f].by = "exchange" /\ issued[f].of = req[r].memo
          BY <1>1, <2>3, <3>1 DEF Forestalls, Looking, Claiming, Redeeming
      <4>2. Receipt(issued[f], f)
          BY <3>1 DEF Earned
      <4> QED BY <2>1, <4>1, <4>2 DEF Receipt
    <3>2. req[r].memo \in (1 .. made') \ codes'
        BY <1>1, <2>1 DEF Earned
    <3> QED BY <1>1, <2>3, <3>1, <3>2 DEF Entitled, Looking, Redeeming
  <2>5. ASSUME NEW p \in Requests, p # r PROVE Apart(p, r)' /\ Apart(r, p)'
    <3>1. Looking(p)' => req'[p].memo \notin codes
        BY <1>3, <2>5 DEF Follows, Earned, Entitled
    <3> QED BY <2>1, <2>3, <3>1 DEF Apart, Redeeming
  <2> QED BY <1>2, <1>3, <2>4, <2>5, TakingKeeps
<1> QED BY <1>4, <1>5

(* A rotation goes past the family check only if no rotation of its family *)
(* was answered: the table would have its row.                             *)
LEMMA CheckedKeeps ==
    ASSUME IInv, [Next]_vars, NEW r \in Requests, CheckFamily(r), Earned,
           \A p \in Requests : Placed(p)
    PROVE  Earned'
<1>1. UNCHANGED <<attached, issued, made, codes, cache, rows>>
    BY DEF CheckFamily, tokenVars, sessionVars
<1>2. StoresGrow
    BY <1>1 DEF StoresGrow, Earned
<1>3. ASSUME NEW p \in Requests, p # r PROVE Follows(p)
  <2>1. req'[p] = req[p]
      BY <1>3 DEF CheckFamily, Goto, Answer, IInv, Shape
  <2> QED BY <2>1, SameFollows DEF Earned
<1>4. CASE Emptied(r)
    BY <1>2, <1>3, <1>4, IdleFollows, QuietKeeps DEF Emptied
<1>5. CASE ~Emptied(r)
  <2>1. Goto(r, "claim") /\ ~RevokedInDb(req[r].token)
      BY <1>5, AnswerEmpties DEF CheckFamily, FamilyRevoked, IInv
  <2>2. Moved(r, "claim", req[r].memo)
      BY <2>1, GotoMoved DEF IInv
  <2>3. req'[r].op = req[r].op /\ req'[r].pc = "claim" /\ req'[r].token = req[r].token
      BY <2>2 DEF Moved
  <2>4. Entitled(r)'
    <3>1. ASSUME NEW f \in DOMAIN issued, Forestalls(issued[f], r)' PROVE FALSE
      <4>1. issued[f].by = "refresh" /\ issued[f].of = req[r].token.family
          BY <1>1, <2>3, <3>1 DEF Forestalls, Looking, Claiming, Redeeming
      <4>2. Receipt(issued[f], f)
          BY <3>1 DEF Earned
      <4>3. [family |-> issued[f].of, type |-> "refresh"] \in rows
          BY <4>1, <4>2 DEF Receipt
      <4>4. RevokedInDb(req[r].token)
          BY <4>1, <4>3 DEF RevokedInDb
      <4> QED BY <2>1, <4>4
    <3> QED BY <1>1, <2>3, <3>1 DEF Entitled, Looking, Redeeming
  <2>5. \A p \in Requests : Apart(p, r)' /\ Apart(r, p)'
      BY <2>3 DEF Apart, Redeeming, Looking
  <2> QED BY <1>2, <1>3, <2>4, <2>5, TakingKeeps
<1> QED BY <1>4, <1>5

(* A claim succeeds only for a token that the store does not remember.     *)
LEMMA ClaimKeeps ==
    ASSUME IInv, [Next]_vars, NEW r \in Requests, Claim(r), Earned,
           \A p \in Requests : Placed(p) /\ Cautious(p), StoresGrow
    PROVE  Earned'
<1>2. ASSUME NEW p \in Requests, p # r PROVE Follows(p)
  <2>1. req'[p] = req[p]
      BY <1>2 DEF Claim, Goto, Answer, IInv, Shape
  <2> QED BY <2>1, SameFollows DEF Earned
<1>3. CASE Emptied(r)
    BY <1>2, <1>3, IdleFollows, QuietKeeps DEF Emptied
<1>4. CASE ~Emptied(r)
  <2>1. PICK first \in BOOLEAN, answered \in Answers :
          /\ ConsumeOnce(req[r].token, answered, first)
          /\ IF first THEN Goto(r, "retire") ELSE Answer(r)
      BY <1>4, AnswerEmpties DEF Claim, IInv
  <2>2. first /\ Goto(r, "retire") /\ req[r].token \notin Store
      BY <1>4, <2>1, AnswerEmpties DEF ConsumeOnce, IInv, Store
  <2>3. req[r].token \in Store'
    <3>1. attached' = attached /\ cache \in [tokens : SUBSET Token, families : SUBSET Nat]
        BY DEF Claim, Earned
    <3> QED BY <2>1, <3>1 DEF ConsumeOnce, Store
  <2>4. Moved(r, "retire", req[r].memo)
      BY <2>2, GotoMoved DEF IInv
  <2>5. req'[r].op = req[r].op /\ req'[r].pc = "retire" /\ req'[r].token = req[r].token
      BY <2>4 DEF Moved
  <2>6. req[r].pc = "claim" /\ req[r].op \in {"refresh", "mfa"}
      BY DEF Claim, At, Placed
  <2>7. Entitled(r)'
    <3>1. ASSUME NEW f \in DOMAIN issued, Forestalls(issued[f], r)' PROVE FALSE
      <4>1. /\ issued[f].by = req[r].op /\ issued[f].of = req[r].token.family
            /\ issued[f].by = "mfa" => issued[f].redis = attached
          BY <2>5, <3>1 DEF Forestalls, Looking, Claiming, Redeeming, StoresGrow
      <4>2. Receipt(issued[f], f) /\ ~Forestalls(issued[f], r)
          BY <3>1 DEF Earned, Entitled
      <4>3. CASE req[r].op = "refresh"
          BY <2>2, <2>6, <4>1, <4>2, <4>3 DEF Forestalls, Claiming
      <4>4. CASE req[r].op = "mfa"
        <5>1. req[r].token = [family |-> req[r].token.family, type |-> "challenge"]
          <6>1. req[r].token.type = "challenge"
              BY <2>6, <4>4 DEF Cautious
          <6>2. req[r].token \in Token
              BY DEF IInv, Shape, Request
          <6> QED BY <6>1, <6>2 DEF Token
        <5>2. [family |-> issued[f].of, type |-> "challenge"] \in Store
            BY <4>1, <4>2, <4>4 DEF Receipt, Store
        <5> QED BY <2>2, <4>1, <5>1, <5>2
      <4> QED BY <2>6, <4>3, <4>4
    <3>2. issued' = issued
        BY DEF StoresGrow
    <3> QED BY <2>3, <2>5, <3>1, <3>2 DEF Entitled, Looking
  <2>8. ASSUME NEW p \in Requests, p # r PROVE Apart(p, r)' /\ Apart(r, p)'
    <3>1. Redeeming(p)' => req'[p].token \in Store
        BY <1>2, <2>8 DEF Follows, Earned, Entitled
    <3> QED BY <2>2, <2>5, <3>1 DEF Apart, Looking
  <2> QED BY <1>2, <2>7, <2>8, TakingKeeps
<1> QED BY <1>3, <1>4

-----------------------------------------------------------------------------
(* A family is minted for a credential nobody else was given a family for. *)
LEMMA MintKeeps ==
    ASSUME IInv, Earned, NEW r \in Requests, NEW e \in Family, NEW n \in Nat, n = Len(issued) + 1,
           issued' = Append(issued, e), Emptied(r),
           UNCHANGED <<attached, codes, made, cache>>, rows \subseteq rows',
           Receipt(e, n)',
           \A f \in DOMAIN issued : ~SameCredential(e, issued[f]),
           \A p \in Requests \ {r} : ~Forestalls(e, p)
    PROVE  Earned'
<1>1. ASSUME NEW f \in DOMAIN issued'
      PROVE  \/ f \in DOMAIN issued /\ issued'[f] = issued[f]
             \/ f = n /\ issued'[f] = e
  <2>1. issued \in Seq(Family)
      BY DEF IInv, Shape
  <2>2. CASE f \in DOMAIN issued
    <3>1. f \in 1 .. Len(issued)
        BY <2>1, <2>2
    <3>2. Append(issued, e)[f] = issued[f]
        BY <2>1, <3>1
    <3>3. issued'[f] = Append(issued, e)[f]
        BY Zenon
    <3> QED BY <2>2, <3>2, <3>3, Zenon
  <2>3. CASE f \notin DOMAIN issued
    <3>1. f = n
        BY <1>1, <2>1, <2>3
    <3>2. issued'[f] = e
        BY <1>1, <2>1, <2>3, <3>1
    <3> QED BY <3>1, <3>2
  <2> QED BY <2>2, <2>3
<1>2. Store \subseteq Store'
    BY DEF Store
<1>3. ASSUME NEW f \in DOMAIN issued' PROVE Receipt(issued[f], f)'
  <2>1. CASE f \in DOMAIN issued /\ issued'[f] = issued[f]
    <3>1. Receipt(issued[f], f)
        BY <2>1 DEF Earned
    <3> QED BY <2>1, <3>1 DEF Receipt
  <2>2. CASE f = n /\ issued'[f] = e
      BY <2>2 DEF Receipt
  <2> QED BY <1>1, <2>1, <2>2
<1>4. ASSUME NEW f \in DOMAIN issued', NEW g \in DOMAIN issued', SameCredential(issued'[f], issued'[g])
      PROVE  f = g
  <2>1. CASE f = n /\ g = n
      BY <2>1
  <2>2. CASE f # n /\ g # n
      BY <1>1, <1>4, <2>2 DEF Earned
  <2>3. CASE f = n /\ g # n
      BY <1>1, <1>4, <2>3
  <2>4. CASE f # n /\ g = n
      BY <1>1, <1>4, <2>4 DEF SameCredential
  <2> QED BY <2>1, <2>2, <2>3, <2>4
<1>5. ASSUME NEW p \in Requests PROVE Entitled(p)'
  <2>1. CASE p = r
      BY <2>1 DEF Emptied, Idle, Entitled, Forestalls, Looking, Claiming, Redeeming
  <2>2. CASE p # r
    <3>1. req'[p] = req[p] /\ Entitled(p)
        BY <2>2 DEF Emptied, Earned
    <3>2. ASSUME NEW f \in DOMAIN issued', Forestalls(issued[f], p)' PROVE FALSE
      <4>1. \/ f \in DOMAIN issued /\ Forestalls(issued[f], p)
            \/ Forestalls(e, p)
          BY <1>1, <1>2, <3>1, <3>2 DEF Forestalls, Looking, Claiming, Redeeming
      <4> QED BY <2>2, <3>1, <4>1 DEF Entitled
    <3> QED BY <1>2, <3>1, <3>2 DEF Entitled, Looking, Redeeming
  <2> QED BY <2>1, <2>2
<1>6. ASSUME NEW p \in Requests, NEW q \in Requests PROVE Apart(p, q)'
  <2>1. ASSUME NEW x \in Requests PROVE Follows(x)
    <3>1. req'[x] = req[x] \/ req'[x] = Idle
        BY DEF Emptied
    <3> QED BY <3>1, SameFollows, IdleFollows DEF Earned
  <2> QED BY <2>1, GrowthKeepsApart
<1> QED BY <1>3, <1>4, <1>5, <1>6 DEF Earned

(* The record that Mint appends.                                           *)
LEMMA MintedFamily ==
    ASSUME IInv, NEW r \in Requests, NEW kind \in {"session", "challenge"}, NEW of \in Nat, Mint(r, kind, of)
    PROVE  \E e \in Family :
              /\ issued' = Append(issued, e)
              /\ e.by = req[r].op /\ e.of = of /\ e.redis = attached
              /\ e.bare <=> kind = "session" /\ req[r].op \in {"login", "exchange"} /\ req[r].held
<1> DEFINE bare == kind = "session" /\ req[r].op \in {"login", "exchange"} /\ req[r].held
           e == [kind |-> kind, by |-> req[r].op, of |-> of, late |-> req[r].late,
                 redis |-> attached, bare |-> bare]
<1>1. req[r] \in Request /\ attached \in BOOLEAN
    BY DEF IInv, Shape
<1>2. bare \in BOOLEAN
    BY Zenon
<1>3. issued' = Append(issued, e)
    BY DEF Mint
<1> HIDE DEF bare
<1>4. e \in Family
    BY <1>1, <1>2 DEF Family, Request
<1>5. e.by = req[r].op /\ e.of = of /\ e.redis = attached /\ (e.bare <=> bare)
    BY <1>1, <1>2
<1> HIDE DEF e
<1> QED BY <1>3, <1>4, <1>5 DEF bare

(* login mints one family for each password, a challenge if it has to.     *)
LEMMA LoginKeeps ==
    ASSUME IInv, Earned, NEW r \in Requests, FinishLogin(r), Cautious(r)
    PROVE  Earned'
<1> DEFINE kind == IF req[r].memo = 1 THEN "challenge" ELSE "session"
<1>1. /\ Mint(r, kind, Len(issued) + 1) /\ req[r].op = "login" /\ req[r].pc = "clear"
      /\ UNCHANGED <<attached, codes, made, cache, rows>>
    BY DEF FinishLogin, At, tokenVars
<1>2. kind = "session" => ~req[r].held
    BY <1>1 DEF Cautious
<1>3. kind \in {"session", "challenge"} /\ Len(issued) \in Nat
    BY DEF IInv, Shape
<1> HIDE DEF kind
<1>4. PICK e \in Family :
        /\ issued' = Append(issued, e)
        /\ e.by = "login" /\ e.of = Len(issued) + 1 /\ ~e.bare
    BY <1>1, <1>2, <1>3, MintedFamily
<1>5. PICK n \in Nat : n = Len(issued) + 1
    BY <1>3
<1>6. Receipt(e, n)'
    BY <1>4, <1>5 DEF Receipt, Minting
<1>7. \A f \in DOMAIN issued : ~SameCredential(e, issued[f])
  <2>1. \A f \in DOMAIN issued : f # n
      BY <1>5 DEF IInv, Shape
  <2> QED BY <1>4, <1>5, <2>1 DEF SameCredential, Earned, Receipt
<1>8. \A p \in Requests : ~Forestalls(e, p)
    BY <1>4 DEF Forestalls, Redeeming
<1>9. Emptied(r)
    BY <1>1, AnswerEmpties DEF Mint, IInv
<1> QED BY <1>1, <1>4, <1>5, <1>6, <1>7, <1>8, <1>9, MintKeeps

(* The code a family is minted for was given to this request alone.        *)
LEMMA ExchangeKeeps ==
    ASSUME IInv, Earned, NEW r \in Requests, FinishExchange(r), Placed(r), Cautious(r)
    PROVE  Earned'
<1> DEFINE kind == IF account.mfa THEN "challenge" ELSE "session"
<1>1. /\ Mint(r, kind, req[r].memo) /\ req[r].op = "exchange" /\ Looking(r)
      /\ UNCHANGED <<attached, codes, made, cache, rows>>
    BY DEF FinishExchange, FirstFactor, At, tokenVars, Placed, Looking
<1>2. kind = "session" => ~req[r].held
    BY <1>1 DEF Cautious
<1>3. kind \in {"session", "challenge"} /\ Len(issued) \in Nat /\ req[r].memo \in Nat
    BY DEF IInv, Shape, Request
<1> HIDE DEF kind
<1>4. PICK e \in Family :
        /\ issued' = Append(issued, e)
        /\ e.by = "exchange" /\ e.of = req[r].memo /\ ~e.bare
    BY <1>1, <1>2, <1>3, MintedFamily
<1>5. PICK n \in Nat : n = Len(issued) + 1
    BY <1>3
<1>6. Entitled(r)
    BY DEF Earned
<1>7. Receipt(e, n)'
    BY <1>1, <1>4, <1>6 DEF Receipt, Minting, Entitled
<1>8. \A f \in DOMAIN issued : ~SameCredential(e, issued[f])
    BY <1>1, <1>4, <1>6 DEF SameCredential, Entitled, Forestalls
<1>9. ASSUME NEW p \in Requests, p # r, Forestalls(e, p) PROVE FALSE
  <2>1. Looking(p) /\ req[p].memo = req[r].memo
      BY <1>4, <1>9 DEF Forestalls, Redeeming
  <2>2. Apart(p, r)
      BY DEF Earned
  <2> QED BY <1>1, <1>9, <2>1, <2>2 DEF Apart
<1>10. Emptied(r)
    BY <1>1, AnswerEmpties DEF Mint, IInv
<1> QED BY <1>1, <1>4, <1>5, <1>7, <1>8, <1>9, <1>10, MintKeeps

(* What is claimed is a whole token.                                       *)
LEMMA ClaimedToken ==
    ASSUME IInv, NEW r \in Requests, Cautious(r)
    PROVE  /\ Claiming(r) \/ (Redeeming(r) /\ req[r].op = "refresh") =>
                req[r].token = [family |-> req[r].token.family, type |-> "refresh"]
           /\ Redeeming(r) /\ req[r].op = "mfa" =>
                req[r].token = [family |-> req[r].token.family, type |-> "challenge"]
<1>1. req[r].token \in Token
    BY DEF IInv, Shape, Request
<1>2. req[r].token = [family |-> req[r].token.family, type |-> req[r].token.type]
    BY <1>1 DEF Token
<1> QED BY <1>2 DEF Cautious, Claiming, Redeeming

(* The token a session is minted for was claimed by this request alone,    *)
(* and goes into the table before the answer.                              *)
LEMMA RotationKeeps ==
    ASSUME IInv, Earned, NEW r \in Requests, FinishRotation(r), \A p \in Requests : Cautious(p)
    PROVE  Earned'
<1>1. /\ Mint(r, "session", req[r].token.family) /\ req[r].op \in {"refresh", "mfa"} /\ Redeeming(r)
      /\ UNCHANGED <<attached, codes, made, cache>> /\ rows' = rows \union {req[r].token}
    BY DEF FinishRotation, At, RevokeInDb, Redeeming
<1>2. Len(issued) \in Nat /\ req[r].token.family \in Nat
    BY DEF IInv, Shape, Request, Token
<1>3. PICK e \in Family :
        /\ issued' = Append(issued, e)
        /\ e.by = req[r].op /\ e.of = req[r].token.family /\ e.redis = attached /\ ~e.bare
    BY <1>1, <1>2, MintedFamily
<1>4. PICK n \in Nat : n = Len(issued) + 1
    BY <1>2
<1>5. Entitled(r)
    BY DEF Earned
<1>6. Receipt(e, n)'
  <2>1. req[r].token \in rows' /\ (attached => req[r].token \in cache.tokens)
      BY <1>1, <1>5 DEF Entitled, Store
  <2>2. CASE req[r].op = "refresh"
    <3>1. req[r].token = [family |-> e.of, type |-> "refresh"]
        BY <1>1, <1>3, <2>2, ClaimedToken
    <3> QED BY <1>3, <2>1, <2>2, <3>1 DEF Receipt, Minting
  <2>3. CASE req[r].op = "mfa"
    <3>1. req[r].token = [family |-> e.of, type |-> "challenge"]
        BY <1>1, <1>3, <2>3, ClaimedToken
    <3> QED BY <1>1, <1>3, <2>1, <2>3, <3>1 DEF Receipt, Minting
  <2> QED BY <1>1, <2>2, <2>3
<1>7. \A f \in DOMAIN issued : ~SameCredential(e, issued[f])
    BY <1>1, <1>3, <1>5 DEF SameCredential, Entitled, Forestalls
<1>8. ASSUME NEW p \in Requests, p # r, Forestalls(e, p) PROVE FALSE
  <2>1. CASE Claiming(p) /\ e.by = "refresh" /\ e.of = req[p].token.family /\ req[p].token \notin Store
    <3>1. req[r].op = "refresh" /\ req[r].token.family = req[p].token.family
        BY <1>3, <2>1
    <3>2. req[p].token = [family |-> req[p].token.family, type |-> "refresh"]
        BY <2>1, ClaimedToken
    <3>3. req[r].token = [family |-> req[r].token.family, type |-> "refresh"]
        BY <1>1, <3>1, ClaimedToken
    <3> QED BY <1>1, <1>5, <2>1, <3>1, <3>2, <3>3 DEF Entitled
  <2>2. CASE Redeeming(p) /\ e.by = req[p].op /\ e.of = req[p].token.family
    <3>1. req[p].token = req[r].token
      <4>1. req[p].op = req[r].op /\ req[p].token.family = req[r].token.family
          BY <1>3, <2>2
      <4>2. CASE req[r].op = "refresh"
          BY <1>1, <2>2, <4>1, <4>2, ClaimedToken
      <4>3. CASE req[r].op = "mfa"
          BY <1>1, <2>2, <4>1, <4>3, ClaimedToken
      <4> QED BY <1>1, <4>2, <4>3
    <3>2. Apart(p, r)
        BY DEF Earned
    <3> QED BY <1>1, <1>8, <2>2, <3>1, <3>2 DEF Apart
  <2> QED BY <1>1, <1>3, <1>8, <2>1, <2>2 DEF Forestalls
<1>9. Emptied(r)
    BY <1>1, AnswerEmpties DEF Mint, IInv
<1> QED BY <1>1, <1>3, <1>4, <1>6, <1>7, <1>8, <1>9, MintKeeps

(* A new code is nobody's yet.                                             *)
LEMMA CallbackKeeps ==
    ASSUME IInv, Earned, GithubCallback
    PROVE  Earned'
<1>1. /\ UNCHANGED <<attached, cache, rows, req, issued>> /\ made' = made + 1 /\ made \in Nat
      /\ codes' = codes \union {made + 1}
    BY DEF GithubCallback, tokenVars, IInv, Shape
<1>2. codes' \subseteq 1 .. made'
    BY <1>1 DEF Earned
<1>3. \A x \in (1 .. made) \ codes : x \in (1 .. made') \ codes'
    BY <1>1
<1>4. \A x \in 1 .. made : x \in 1 .. made'
    BY <1>1
<1>5. ASSUME NEW f \in DOMAIN issued PROVE Receipt(issued[f], f)'
  <2>1. Receipt(issued[f], f)
      BY DEF Earned
  <2> QED BY <1>1, <1>3, <2>1 DEF Receipt
<1>6. ASSUME NEW p \in Requests PROVE Entitled(p)'
  <2>1. Entitled(p)
      BY DEF Earned
  <2> QED BY <1>1, <1>3, <1>4, <2>1 DEF Entitled, Forestalls, Looking, Claiming, Redeeming, Store
<1>7. ASSUME NEW p \in Requests, NEW q \in Requests PROVE Apart(p, q)'
  <2>1. Apart(p, q)
      BY DEF Earned
  <2> QED BY <1>1, <2>1 DEF Apart, Looking, Redeeming
<1> QED BY <1>1, <1>2, <1>5, <1>6, <1>7 DEF Earned

(* A restart loses the requests, and with them what they had taken.        *)
LEMMA RestartKeeps ==
    ASSUME Earned, Restart
    PROVE  Earned'
<1>1. UNCHANGED <<cache, rows, issued, codes, made>> /\ \A p \in Requests : req'[p] = Idle
    BY DEF Restart
<1>2. ASSUME NEW f \in DOMAIN issued PROVE Receipt(issued[f], f)'
  <2>1. Receipt(issued[f], f)
      BY DEF Earned
  <2> QED BY <1>1, <2>1 DEF Receipt
<1>3. ASSUME NEW p \in Requests PROVE Entitled(p)'
    BY <1>1, <1>3 DEF Entitled, Forestalls, Looking, Claiming, Redeeming, Idle
<1>4. ASSUME NEW p \in Requests, NEW q \in Requests PROVE Apart(p, q)'
    BY <1>1, <1>4 DEF Apart, Looking, Redeeming, Idle
<1> QED BY <1>1, <1>2, <1>3, <1>4 DEF Earned

(* No step mints a second family for one credential.                       *)
LEMMA EarnedNext ==
    ASSUME IInv, [Next]_vars, Earned, \A p \in Requests : Placed(p) /\ Cautious(p)
    PROVE  Earned'
<1>1. CASE \E r \in Requests : RedeemExchangeCode(r)
    BY <1>1, RedeemStep
<1>2. CASE \E r \in Requests : FinishExchange(r)
    BY <1>2, ExchangeKeeps
<1>3. CASE \E r \in Requests : FinishLogin(r)
    BY <1>3, LoginKeeps
<1>4. CASE \E r \in Requests : FinishRotation(r)
    BY <1>4, RotationKeeps
<1>5. CASE GithubCallback
    BY <1>5, CallbackKeeps
<1>6. CASE Restart
    BY <1>6, RestartKeeps
<1>7. CASE ~(\/ GithubCallback \/ Restart
             \/ \E r \in Requests : \/ RedeemExchangeCode(r) \/ FinishExchange(r)
                                    \/ FinishLogin(r) \/ FinishRotation(r))
  <2>1. StoresGrow
      BY <1>7, MostStoresGrow DEF Earned
  <2>2. CASE \E r \in Requests : CheckFamily(r)
      BY <2>2, CheckedKeeps
  <2>3. CASE \E r \in Requests : Claim(r)
      BY <2>1, <2>3, ClaimKeeps
  <2>4. CASE ~\E r \in Requests : CheckFamily(r) \/ Claim(r)
    <3>1. ASSUME NEW p \in Requests PROVE Follows(p)
      <4>1. ~Taking(p)
          BY <1>7, <2>4 DEF Taking
      <4> QED BY <4>1, FollowsUnlessTaking DEF Earned
    <3> QED BY <2>1, <3>1, QuietKeeps
  <2> QED BY <2>2, <2>3, <2>4
<1> QED BY <1>1, <1>2, <1>3, <1>4, <1>5, <1>6, <1>7

-----------------------------------------------------------------------------
(* The whole invariant.                                                    *)
Sound ==
    /\ IInv
    /\ \A r \in Requests : Placed(r) /\ Cautious(r)
    /\ Counted
    /\ CodesUnspent
    /\ Earned

(* It holds at the start, every step keeps it, and so it always holds.     *)
LEMMA SoundInit == Init => Sound
<1> SUFFICES ASSUME Init PROVE Sound
    OBVIOUS
<1>1. \A r \in Requests : req[r] = Idle
    BY DEF Init, SecondFactorInit
<1>2. \A r \in Requests : Placed(r) /\ Cautious(r)
    BY <1>1 DEF Placed, Cautious, Idle
<1>3. Counted
  <2>1. failures = [key \in Keys |-> 0]
      BY DEF Init, SecondFactorInit
  <2>2. ASSUME NEW key \in Keys PROVE Trying(key) = {}
      BY <1>1 DEF Trying, Idle
  <2>3. Cardinality({}) = 0 /\ Cardinality(Requests) \in Nat /\ Limit \in Nat \ {0}
      BY SecondFactorAssumption, FS_EmptySet, FS_CardinalityType
  <2>4. ASSUME NEW key \in Keys
        PROVE  failures[key] + Cardinality(Trying(key)) < Limit + Cardinality(Requests)
    <3>1. failures[key] = 0 /\ Cardinality(Trying(key)) = 0
        BY <2>1, <2>2, <2>3
    <3> QED BY <2>3, <3>1
  <2> QED BY <2>1, <2>4 DEF Counted
<1>4. CodesUnspent
  <2>1. accepted = [b \in Batches |-> 0] /\ MaxBatches \in Nat
      BY SecondFactorAssumption DEF Init, SecondFactorInit
  <2>2. batches \in 0 .. MaxBatches /\ account.codes \subseteq 1 .. batches
      BY <2>1 DEF Init, SecondFactorInit, NewAccount, EnrolledAccount
  <2>3. account.codes \subseteq Batches
      BY <2>1, <2>2 DEF Batches
  <2>4. \A r \in Requests : ~Storing(r)
      BY <1>1 DEF Storing, Idle
  <2> QED BY <2>1, <2>2, <2>3, <2>4 DEF CodesUnspent
<1>5. Earned
  <2>1. issued = <<>> /\ codes = {} /\ cache = EmptyCache
      BY DEF Init, TokensInit
  <2>2. cache \in [tokens : SUBSET Token, families : SUBSET Nat]
      BY <2>1 DEF EmptyCache
  <2>3. ASSUME NEW r \in Requests PROVE Entitled(r)
      BY <1>1, <2>1 DEF Entitled, Looking, Redeeming, Idle
  <2>4. ASSUME NEW p \in Requests, NEW q \in Requests PROVE Apart(p, q)
      BY <1>1 DEF Apart, Looking, Redeeming, Idle
  <2> QED BY <2>1, <2>2, <2>3, <2>4 DEF Earned
<1> QED BY <1>2, <1>3, <1>4, <1>5, InitIInv DEF Sound

LEMMA SoundNext == Sound /\ [Next]_vars => Sound'
<1> SUFFICES ASSUME Sound, [Next]_vars PROVE Sound'
    OBVIOUS
<1>1. IInv /\ (\A r \in Requests : Placed(r) /\ Cautious(r)) /\ Counted /\ CodesUnspent /\ Earned
    BY DEF Sound
<1>2. IInv'
    BY <1>1, NextIInv
<1>3. \A r \in Requests : Placed(r)' /\ Cautious(r)'
    BY <1>1, PlacedNext, CautiousNext
<1>4. Counted' /\ CodesUnspent' /\ Earned'
    BY <1>1, CountedNext, CodesUnspentNext, EarnedNext
<1> QED BY <1>2, <1>3, <1>4 DEF Sound

LEMMA AlwaysSound == Spec => []Sound
BY SoundInit, SoundNext, PTL DEF Spec

(* The lockout cannot be overrun by attempts that pass it together: for    *)
(* each of its keys never more failures are on record than the limit and   *)
(* one for each request in progress (services/auth.rs:72-104).             *)
THEOREM GuessesStayBounded == Spec => []GuessesAreBounded
<1>1. Sound => GuessesAreBounded
  <2> SUFFICES ASSUME Sound, NEW key \in Keys
               PROVE  failures[key] < Limit + Cardinality(Requests)
      BY DEF GuessesAreBounded
  <2> DEFINE tries == Cardinality(Trying(key))
             all == Cardinality(Requests)
  <2>1. failures[key] \in Nat /\ failures[key] + tries < Limit + all
      BY DEF Sound, Counted
  <2>2. tries \in Nat /\ all \in Nat /\ Limit \in Nat
      BY TryingIsFinite, SecondFactorAssumption
  <2> HIDE DEF tries, all
  <2>3. failures[key] < Limit + all
      BY <2>1, <2>2
  <2> QED BY <2>3 DEF all
<1> QED BY <1>1, AlwaysSound, PTL

(* What a single-use credential opens is opened once, and with every       *)
(* factor the account wants: for any number of requests and restarts, and  *)
(* whichever calls to Redis fail, a refresh token has one successor, a     *)
(* challenge one session among processes that agree on having Redis, an    *)
(* exchange code one answer, a recovery code is accepted once, and no      *)
(* session begins without the second factor the account asked for all      *)
(* along (services/auth.rs:316-419, routes_mfa.rs:290-335,                 *)
(* routes_auth.rs:85-108, :680).                                           *)
THEOREM CredentialsAreSpentOnce == Spec => []SessionsAreEarned
<1>1. Sound => SessionsAreEarned
  <2> SUFFICES ASSUME Sound PROVE SpentOnce /\ SecondFactorAsked
      BY DEF SessionsAreEarned
  <2>1. ASSUME NEW f \in DOMAIN issued, NEW g \in DOMAIN issued,
               issued[f].by = issued[g].by /\ issued[f].of = issued[g].of,
               issued[f].by = "mfa" => issued[f].redis = issued[g].redis
        PROVE  f = g
      BY <2>1 DEF Sound, Earned, SameCredential
  <2>2. ASSUME NEW b \in Batches PROVE accepted[b] <= 1
    <3>1. accepted[b] \in {0, 1}
        BY DEF Sound, CodesUnspent
    <3> QED BY <3>1
  <2>3. SecondFactorAsked
      BY DEF SecondFactorAsked, Sound, Earned, Receipt
  <2> QED BY <2>1, <2>2, <2>3 DEF SpentOnce
<1> QED BY <1>1, AlwaysSound, PTL
=============================================================================
