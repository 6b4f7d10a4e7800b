---------------------------- MODULE DeliveryProofs ----------------------------
(*****************************************************************************)
(* Theorems about Delivery, for any destinations, handlers and bounds. The    *)
(* safety properties follow from one inductive invariant: what the rows of a  *)
(* destination say (TableOK), and what a handler may rely on at the point it   *)
(* has reached (Local), although others run between its statements.           *)
(*****************************************************************************)
EXTENDS Delivery, TLAPS

Early == {"check", "reclaim", "latest", "precheck", "reclaimKey", "insert"}
Claiming == {"precheck", "reclaimKey", "insert"}

(* What handler state q knows of the table and of the provider.              *)
Local(q) ==
    /\ q.pc # "idle" => q.dest \in Dests /\ q.reply = "none"
    /\ q.pc \in Early => q.tries = 0 /\ q.outcome = "none"
    /\ q.pc = "send" => q.tries < MaxTries
    /\ q.pc \in Claiming => \A m \in 1 .. q.version - 1 : row[q.dest][m].status = "failed"
    /\ q.pc \in Owning => row[q.dest][q.version].status = "sending"
    /\ q.pc = "send" => ~held[q.dest]
    /\ q.pc = "record" => (held[q.dest] <=> q.outcome = "ok")
    /\ q.pc = "respond" =>
          IsSent(q.dest) /\ (q.outcome = "ok" => row[q.dest][q.version].status = "sent")
    /\ q.reply \in {"sent", "already_sent"} => q.dest \in Dests /\ IsSent(q.dest)
    /\ q.reply = "sent" /\ q.dest \notin Email => q.shown = "sent"

History(d) ==
    \A v \in Versions : row[d][v].status # "absent" => \A m \in 1 .. v - 1 : row[d][m].status = "failed"

TableOK(d) ==
    /\ History(d)
    /\ held[d] => \E v \in Versions : row[d][v].status \in {"sending", "sent"}
    /\ IsSent(d) => held[d]

DeliveryInv ==
    /\ TypeOK
    /\ \A r \in Requests : Local(req[r])
    /\ \A d \in Dests : TableOK(d)
    /\ OneSenderPerDestination

-------------------------------------------------------------------------------
(* In a history at most one version is open, and a version that is not the   *)
(* newest has failed.                                                        *)
LEMMA OneOpenVersion ==
    ASSUME TypeOK, NEW d \in Dests, TableOK(d),
           NEW v \in Versions, row[d][v].status = "sending"
    PROVE  ~IsSent(d)
<1> SUFFICES ASSUME NEW m \in Versions, row[d][m].status = "sent" PROVE FALSE
  BY DEF IsSent
<1>1. CASE m < v
  BY <1>1 DEF TableOK, History, Versions
<1>2. CASE v < m
  BY <1>2 DEF TableOK, History, Versions
<1> QED
  BY <1>1, <1>2, BoundAssumption DEF Versions

(* A version that is free although all earlier ones failed is the next one.  *)
LEMMA FreeVersion ==
    ASSUME TypeOK, NEW d \in Dests, TableOK(d), NEW v \in Versions,
           row[d][v].status = "absent",
           \A m \in 1 .. v - 1 : row[d][m].status = "failed"
    PROVE  /\ \A m \in Versions : row[d][m].status \notin {"sending", "sent"}
           /\ ~held[d]
           /\ ~IsSent(d)
<1>1. \A m \in Versions : row[d][m].status \notin {"sending", "sent"}
  <2> SUFFICES ASSUME NEW m \in Versions, row[d][m].status \in {"sending", "sent"} PROVE FALSE
    OBVIOUS
  <2>1. CASE m < v
    BY <2>1 DEF Versions
  <2>2. CASE v < m
    BY <2>2 DEF TableOK, History, Versions
  <2> QED
    BY <2>1, <2>2, BoundAssumption DEF Versions
<1> QED
  BY <1>1 DEF TableOK, IsSent

(* The reclaiming statement never takes effect: it names a column the table  *)
(* does not have.                                                            *)
LEMMA ReclaimIsRejected == ~ReclaimAccepted
BY DEF ReclaimAccepted, ReclaimSets, Columns

(* A step of one handler that touches neither the table nor the provider.    *)
LEMMA HandlerStep ==
    ASSUME DeliveryInv, NEW r \in Requests, UNCHANGED <<row, held>>,
           req' \in [Requests -> Handler],
           \A q \in Requests \ {r} : req'[q] = req[q],
           Local(req'[r]),
           req'[r].pc \in Owning => req[r].pc \in Owning /\ req'[r].dest = req[r].dest
    PROVE  DeliveryInv'
<1>1. TypeOK'
  BY DEF DeliveryInv, TypeOK
<1>2. \A q \in Requests : Local(req'[q])
  BY DEF DeliveryInv
<1>3. (\A q \in Requests : Local(req[q]))'
  BY <1>2 DEF Local, IsSent
<1>4. (\A d \in Dests : TableOK(d))'
  BY DEF DeliveryInv, TableOK, History, IsSent
<1>5. OneSenderPerDestination'
  BY DEF DeliveryInv, OneSenderPerDestination
<1> QED
  BY <1>1, <1>3, <1>4, <1>5 DEF DeliveryInv

(* The state of an idle handler is well typed.                               *)
LEMMA IdleIsAHandler == Idle \in Handler
<1>1. 1 \in Versions /\ 0 \in 0 .. MaxTries
  BY BoundAssumption DEF Versions
<1> QED
  BY <1>1 DEF Idle, Handler, Points

(* The end of a request.                                                     *)
LEMMA ReplyStep ==
    ASSUME DeliveryInv, NEW r \in Requests, UNCHANGED <<row, held>>,
           NEW reply \in {"sent", "already_sent", "error"},
           NEW shown \in {"none", "absent", "sending", "sent", "failed"},
           Reply(r, reply, shown),
           reply \in {"sent", "already_sent"} => req[r].dest \in Dests /\ IsSent(req[r].dest),
           reply = "sent" /\ req[r].dest \notin Email => shown = "sent"
    PROVE  DeliveryInv'
<1> DEFINE x == [Idle EXCEPT !.dest = req[r].dest, !.reply = reply, !.shown = shown]
<1>1. /\ x \in Handler
      /\ x.pc = "idle" /\ x.dest = req[r].dest /\ x.reply = reply /\ x.shown = shown
  <2>1. req[r].dest \in Dests \cup {NoDest}
    BY DEF DeliveryInv, TypeOK, Handler
  <2> QED
    BY <2>1, IdleIsAHandler DEF Idle, Handler
<1>2. req' = [req EXCEPT ![r] = x]
  BY DEF Reply
<1> HIDE DEF x
<1>3. /\ req' \in [Requests -> Handler]
      /\ req'[r] = x
      /\ \A q \in Requests \ {r} : req'[q] = req[q]
  BY <1>1, <1>2 DEF DeliveryInv, TypeOK
<1>4. Local(req'[r])
  BY <1>1, <1>3 DEF Local, Early, Claiming, Owning
<1> QED
  BY <1>1, <1>3, <1>4, HandlerStep DEF Owning

(* A handler that only moves on to another point.                            *)
LEMMA GotoStep ==
    ASSUME DeliveryInv, NEW r \in Requests, UNCHANGED <<row, held>>,
           NEW pc \in Points, Goto(r, pc), req[r].pc # "idle",
           Local([req[r] EXCEPT !.pc = pc]),
           pc \in Owning => req[r].pc \in Owning
    PROVE  DeliveryInv'
<1> DEFINE x == [req[r] EXCEPT !.pc = pc]
<1>1. x \in Handler /\ x.pc = pc /\ x.dest = req[r].dest /\ Local(x)
  BY DEF DeliveryInv, TypeOK, Handler
<1>2. req' = [req EXCEPT ![r] = x]
  BY DEF Goto, DeliveryInv, TypeOK
<1> HIDE DEF x
<1>3. /\ req' \in [Requests -> Handler]
      /\ req'[r] = x
      /\ \A q \in Requests \ {r} : req'[q] = req[q]
  BY <1>1, <1>2 DEF DeliveryInv, TypeOK
<1> QED
  BY <1>1, <1>3, HandlerStep

-------------------------------------------------------------------------------
(* No row, no handler at work and no message satisfy the invariant.          *)
THEOREM InitDelivery == Init => DeliveryInv
<1> SUFFICES ASSUME Init PROVE DeliveryInv
  OBVIOUS
<1>1. TypeOK
  BY IdleIsAHandler DEF Init, TypeOK, Row, NoRow
<1>2. \A r \in Requests : Local(req[r])
  BY DEF Init, Local, Idle, Early, Claiming, Owning
<1>3. \A d \in Dests : TableOK(d)
  BY DEF Init, TableOK, History, IsSent, NoRow
<1>4. OneSenderPerDestination
  BY DEF Init, OneSenderPerDestination, Idle, Owning
<1> QED
  BY <1>1, <1>2, <1>3, <1>4 DEF DeliveryInv

-------------------------------------------------------------------------------
(* The steps up to the claim.                                                *)

(* A request starts with a fresh local state.                                *)
LEMMA RequestKeepsInv ==
    ASSUME DeliveryInv, NEW r \in Requests, NEW d \in Dests, Request(r, d)
    PROVE  DeliveryInv'
<1> DEFINE x == [Idle EXCEPT !.pc = "check", !.dest = d]
<1>1. x \in Handler /\ Local(x) /\ x.pc = "check"
  BY IdleIsAHandler DEF Idle, Handler, Points, Local, Early, Claiming, Owning
<1>2. req' = [req EXCEPT ![r] = x]
  BY DEF Request
<1> HIDE DEF x
<1>3. /\ req' \in [Requests -> Handler]
      /\ req'[r] = x
      /\ \A q \in Requests \ {r} : req'[q] = req[q]
  BY <1>1, <1>2 DEF DeliveryInv, TypeOK
<1> QED
  BY <1>1, <1>3, HandlerStep DEF Request, Owning

(* The first look at the table: an answer, or on to the reclaiming statement. *)
LEMMA CheckSentKeepsInv ==
    ASSUME DeliveryInv, NEW r \in Requests, CheckSent(r)
    PROVE  DeliveryInv'
<1>1. /\ At(r, "check") /\ UNCHANGED <<row, held>> /\ Local(req[r])
      /\ req[r] \in Handler /\ req[r].dest \in Dests /\ req[r].reply = "none"
  BY DEF CheckSent, DeliveryInv, Local, At, TypeOK
<1>2. CASE IsSent(req[r].dest) /\ Goto(r, "respond")
  BY <1>1, <1>2, GotoStep DEF At, Local, Points, Owning, Early, Claiming, Handler
<1>3. CASE IsSent(req[r].dest) /\ Reply(r, "already_sent", "none")
  BY <1>1, <1>3, ReplyStep DEF At
<1>4. CASE Goto(r, "reclaim")
  BY <1>1, <1>4, GotoStep DEF At, Local, Points, Owning, Early, Claiming, Handler
<1> QED
  BY <1>2, <1>3, <1>4 DEF CheckSent

(* Both reclaiming statements are rejected, and the handler goes on.         *)
LEMMA ReclaimKeepsInv ==
    ASSUME DeliveryInv, NEW r \in Requests, Reclaim(r)
    PROVE  DeliveryInv'
<1>1. /\ UNCHANGED <<row, held>> /\ Local(req[r])
      /\ req[r] \in Handler /\ req[r].pc \in {"reclaim", "reclaimKey"}
  BY ReclaimIsRejected DEF Reclaim, DeliveryInv, TypeOK
<1>2. CASE At(r, "reclaim") /\ Goto(r, "latest")
  BY <1>1, <1>2, GotoStep DEF At, Local, Points, Owning, Early, Claiming, Handler
<1>3. CASE req[r].pc = "reclaimKey" /\ Goto(r, "insert")
  BY <1>1, <1>3, GotoStep DEF At, Local, Points, Owning, Early, Claiming, Handler
<1> QED
  BY <1>1, <1>2, <1>3 DEF Reclaim, At

(* The version after a failed newest one has only failures before it.        *)
LEMMA ReadLatestKeepsInv ==
    ASSUME DeliveryInv, NEW r \in Requests, ReadLatest(r)
    PROVE  DeliveryInv'
<1> DEFINE d == req[r].dest
<1>1. /\ req[r].pc = "latest" /\ UNCHANGED <<row, held>> /\ Local(req[r])
      /\ req[r] \in Handler /\ d \in Dests /\ req[r].reply = "none" /\ req[r].tries = 0
      /\ req[r].outcome = "none"
  BY DEF ReadLatest, DeliveryInv, Local, At, TypeOK, Early
<1>2. CASE Reply(r, "error", "none")
  BY <1>1, <1>2, ReplyStep
<1>3. ASSUME NEW v \in Versions,
             \A n \in Versions : Newest(d, n) => row[d][n].status \notin {"sent", "sending"},
             \A m \in Versions : row[d][m].status # "absent" <=> m < v,
             req' = [req EXCEPT ![r].version = v,
                                ![r].pc = IF d \in Email THEN "precheck" ELSE "reclaimKey"]
      PROVE  DeliveryInv'
  <2>1. \A m \in 1 .. v - 1 : row[d][m].status = "failed"
    <3>1. CASE v = 1
      BY <3>1
    <3>2. CASE v # 1
      <4>1. /\ v - 1 \in Versions /\ v \in Nat
            /\ \A m \in 1 .. v - 1 : m \in Versions /\ (m = v - 1 \/ m \in 1 .. (v - 1) - 1)
        BY <3>2, BoundAssumption DEF Versions
      <4>2. Newest(d, v - 1)
        BY <1>3, <4>1 DEF Newest, Versions
      <4>3. row[d][v - 1].status = "failed"
        <5>1. row[d][v - 1] \in Row
          BY <1>1, <4>1 DEF DeliveryInv, TypeOK
        <5> QED
          BY <1>3, <4>1, <4>2, <5>1 DEF Newest, Row
      <4>4. \A m \in 1 .. (v - 1) - 1 : row[d][m].status = "failed"
        BY <1>1, <4>1, <4>3 DEF DeliveryInv, TableOK, History
      <4> QED
        BY <4>1, <4>3, <4>4
    <3> QED
      BY <3>1, <3>2
  <2> DEFINE pc == IF d \in Email THEN "precheck" ELSE "reclaimKey"
             x == [req[r] EXCEPT !.version = v, !.pc = pc]
  <2>2. pc \in {"precheck", "reclaimKey"}
    OBVIOUS
  <2>3. x \in Handler
    BY <1>1, <2>2 DEF Handler, Points
  <2>4. /\ x.pc = pc /\ x.dest = d /\ x.version = v /\ x.tries = 0
        /\ x.reply = "none" /\ x.outcome = "none"
    BY <1>1 DEF Handler
  <2>5. req' = [req EXCEPT ![r] = x]
    BY <1>1, <1>3 DEF DeliveryInv, TypeOK
  <2> HIDE DEF x, pc
  <2>6. /\ req' \in [Requests -> Handler]
        /\ req'[r] = x
        /\ \A q \in Requests \ {r} : req'[q] = req[q]
    BY <2>3, <2>5 DEF DeliveryInv, TypeOK
  <2>7. Local(x)
    BY <1>1, <2>1, <2>2, <2>4 DEF Local, Owning
  <2> QED
    BY <1>1, <2>2, <2>4, <2>6, <2>7, HandlerStep DEF Owning
<1> QED
  BY <1>2, <1>3 DEF ReadLatest

(* The email handler may find its version delivered in the meantime.         *)
LEMMA PrecheckKeepsInv ==
    ASSUME DeliveryInv, NEW r \in Requests, Precheck(r)
    PROVE  DeliveryInv'
<1>1. /\ req[r].pc = "precheck" /\ UNCHANGED <<row, held>> /\ Local(req[r])
      /\ req[r] \in Handler /\ req[r].version \in Versions
  BY DEF Precheck, DeliveryInv, At, TypeOK, Handler
<1>2. CASE row[req[r].dest][req[r].version].status = "sent" /\ Goto(r, "respond")
  <2>1. IsSent(req[r].dest)
    BY <1>1, <1>2 DEF IsSent
  <2> QED
    BY <1>1, <1>2, <2>1, GotoStep DEF Local, Points, Owning, Early, Claiming, Handler
<1>3. CASE Goto(r, "reclaimKey")
  BY <1>1, <1>3, GotoStep DEF Local, Points, Owning, Early, Claiming, Handler
<1> QED
  BY <1>2, <1>3 DEF Precheck

-------------------------------------------------------------------------------
(* The claim, the provider call and the record of its outcome.               *)

(* A settled row is never changed and what an owner relies on is its own, so *)
(* a handler that does not move keeps what it knows.                         *)
LEMMA OthersKeepTheirs ==
    ASSUME DeliveryInv, NEW q \in Requests, req'[q] = req[q],
           \A d \in Dests, m \in Versions :
               row[d][m].status \in {"failed", "sent"} => row'[d][m].status = row[d][m].status,
           req[q].pc \in Owning =>
               /\ row'[req[q].dest][req[q].version].status = row[req[q].dest][req[q].version].status
               /\ held'[req[q].dest] = held[req[q].dest]
    PROVE  Local(req[q])'
<1>1. /\ Local(req[q]) /\ req[q] \in Handler /\ req[q].version \in Versions
      /\ \A m \in 1 .. req[q].version - 1 : m \in Versions
  BY BoundAssumption DEF DeliveryInv, TypeOK, Handler, Versions
<1>2. \A d \in Dests : IsSent(d) => IsSent(d)'
  BY DEF IsSent
<1>3. req[q].pc \in Claiming =>
          \A m \in 1 .. req[q].version - 1 : row'[req[q].dest][m].status = "failed"
  <2> SUFFICES ASSUME req[q].pc \in Claiming, NEW m \in 1 .. req[q].version - 1
               PROVE  row'[req[q].dest][m].status = "failed"
    OBVIOUS
  <2>1. m \in Versions /\ req[q].dest \in Dests /\ row[req[q].dest][m].status = "failed"
    BY <1>1 DEF Local, Claiming
  <2> QED
    BY <2>1
<1>4. req[q].pc = "respond" =>
          /\ IsSent(req[q].dest)'
          /\ req[q].outcome = "ok" => row'[req[q].dest][req[q].version].status = "sent"
  BY <1>1, <1>2 DEF Local
<1>5. req[q].pc \in Owning => row'[req[q].dest][req[q].version].status = "sending"
  BY <1>1 DEF Local
<1>6. /\ req[q].pc = "send" => ~held'[req[q].dest]
      /\ req[q].pc = "record" => (held'[req[q].dest] <=> req[q].outcome = "ok")
  BY <1>1 DEF Local, Owning
<1>7. /\ req[q].reply \in {"sent", "already_sent"} => req[q].dest \in Dests /\ IsSent(req[q].dest)'
  BY <1>1, <1>2 DEF Local
<1> QED
  BY <1>1, <1>3, <1>4, <1>5, <1>6, <1>7 DEF Local

(* The insert makes its handler the only owner of the destination.           *)
LEMMA InsertKeepsInv ==
    ASSUME DeliveryInv, NEW r \in Requests, Insert(r)
    PROVE  DeliveryInv'
<1> DEFINE d == req[r].dest
           v == req[r].version
<1>1. /\ req[r].pc = "insert" /\ held' = held /\ Local(req[r]) /\ TypeOK
      /\ req[r] \in Handler /\ d \in Dests /\ v \in Versions /\ TableOK(d)
  BY DEF Insert, DeliveryInv, At, TypeOK, Handler, Local
<1>2. CASE Reply(r, "error", "none") /\ UNCHANGED row
  BY <1>1, <1>2, ReplyStep
<1>3. ASSUME row[d][v].status = "absent",
             row' = [row EXCEPT ![d][v] = [status |-> "sending", stale |-> FALSE]],
             Goto(r, "send")
      PROVE  DeliveryInv'
  <2>1. /\ \A m \in 1 .. v - 1 : row[d][m].status = "failed"
        /\ \A m \in Versions : row[d][m].status \notin {"sending", "sent"}
        /\ ~held[d] /\ ~IsSent(d)
    BY <1>1, <1>3, FreeVersion DEF Local, Claiming
  <2>2. /\ row' \in [Dests -> [Versions -> Row]]
        /\ row'[d][v].status = "sending"
        /\ \A e \in Dests, m \in Versions : e # d \/ m # v => row'[e][m] = row[e][m]
    BY <1>1, <1>3 DEF TypeOK, Row
  <2> DEFINE x == [req[r] EXCEPT !.pc = "send"]
  <2>3. /\ x \in Handler /\ x.pc = "send" /\ x.dest = d /\ x.version = v
        /\ x.tries = req[r].tries /\ x.reply = req[r].reply /\ x.outcome = req[r].outcome
    BY <1>1 DEF Handler, Points, Owning
  <2>4. req' = [req EXCEPT ![r] = x]
    BY <1>1, <1>3 DEF Goto, TypeOK
  <2> HIDE DEF x
  <2>5. /\ req' \in [Requests -> Handler]
        /\ req'[r] = x
        /\ \A q \in Requests \ {r} : req'[q] = req[q]
    BY <1>1, <2>3, <2>4 DEF TypeOK
  <2>6. TypeOK'
    BY <1>1, <2>2, <2>5 DEF TypeOK
  <2>7. \A q \in Requests : req[q].pc \in Owning => req[q].dest # d
    BY <2>1 DEF DeliveryInv, TypeOK, Handler, Local
  <2>8. ASSUME NEW q \in Requests, q # r PROVE Local(req[q])'
    <3>1. req[q].pc \in Owning => req[q].dest \in Dests /\ req[q].version \in Versions
      BY DEF DeliveryInv, TypeOK, Handler, Local, Owning
    <3>2. \A e \in Dests, m \in Versions :
              row[e][m].status \in {"failed", "sent"} => row'[e][m].status = row[e][m].status
      BY <1>3, <2>2
    <3> QED
      BY <1>1, <2>2, <2>5, <2>7, <2>8, <3>1, <3>2, OthersKeepTheirs
  <2>9. Local(req[r])'
    BY <1>1, <2>1, <2>2, <2>3, <2>5, BoundAssumption DEF Local, Early, Claiming, Owning
  <2>10. ASSUME NEW e \in Dests PROVE TableOK(e)'
    <3>1. CASE e = d
      <4>1. History(e)'
        <5> SUFFICES ASSUME NEW w \in Versions, row'[d][w].status # "absent",
                            NEW m \in 1 .. w - 1
                     PROVE  row'[d][m].status = "failed"
          BY <3>1 DEF History
        <5>1. w \in Nat /\ v \in Nat /\ m \in Versions /\ m < w
          BY <1>1, BoundAssumption DEF Versions
        <5>2. CASE w = v
          BY <1>1, <2>1, <2>2, <5>1, <5>2
        <5>3. CASE w # v
          <6>1. row[d][w].status # "absent" /\ row[d][m].status = "failed"
            BY <1>1, <2>2, <5>3 DEF TableOK, History
          <6> QED
            BY <1>1, <1>3, <2>2, <5>1, <6>1
        <5> QED
          BY <5>2, <5>3
      <4>2. ~IsSent(e)'
        BY <2>1, <2>2, <3>1 DEF IsSent
      <4> QED
        BY <1>1, <2>2, <3>1, <4>1, <4>2 DEF TableOK
    <3>2. CASE e # d
      <4>1. TableOK(e) /\ row'[e] = row[e] /\ held' = held
        BY <1>1, <1>3, <3>2 DEF DeliveryInv, TypeOK
      <4> QED
        BY <4>1 DEF TableOK, History, IsSent
    <3> QED
      BY <3>1, <3>2
  <2>11. OneSenderPerDestination'
    BY <2>3, <2>5, <2>7 DEF DeliveryInv, OneSenderPerDestination, Owning
  <2> QED
    BY <2>6, <2>8, <2>9, <2>10, <2>11 DEF DeliveryInv
<1> QED
  BY <1>2, <1>3 DEF Insert

(* An owner is alone with its destination, whose row is in flight.           *)
LEMMA OwnerIsAlone ==
    ASSUME DeliveryInv, NEW r \in Requests, req[r].pc \in Owning
    PROVE  /\ req[r] \in Handler /\ req[r].dest \in Dests /\ req[r].version \in Versions
           /\ Local(req[r]) /\ TableOK(req[r].dest)
           /\ row[req[r].dest][req[r].version].status = "sending"
           /\ ~IsSent(req[r].dest)
           /\ \A q \in Requests \ {r} : req[q].pc \in Owning => req[q].dest # req[r].dest
<1>1. /\ req[r] \in Handler /\ req[r].dest \in Dests /\ req[r].version \in Versions
      /\ Local(req[r]) /\ row[req[r].dest][req[r].version].status = "sending"
  BY DEF DeliveryInv, TypeOK, Handler, Local, Owning
<1>2. TableOK(req[r].dest) /\ TypeOK
  BY <1>1 DEF DeliveryInv
<1>3. \A q \in Requests \ {r} : req[q].pc \in Owning => req[q].dest # req[r].dest
  BY DEF DeliveryInv, OneSenderPerDestination
<1> QED
  BY <1>1, <1>2, <1>3, OneOpenVersion

(* A step of an owner that may change what the provider holds for its        *)
(* destination, and leaves the table alone.                                  *)
LEMMA ProviderStep ==
    ASSUME DeliveryInv, NEW r \in Requests, req[r].pc \in Owning, UNCHANGED row,
           held' \in [Dests -> BOOLEAN],
           \A e \in Dests : e # req[r].dest => held'[e] = held[e],
           req' \in [Requests -> Handler],
           \A q \in Requests \ {r} : req'[q] = req[q],
           req'[r].dest = req[r].dest,
           Local(req[r])'
    PROVE  DeliveryInv'
<1>1. /\ req[r].dest \in Dests /\ req[r].version \in Versions /\ TableOK(req[r].dest)
      /\ row[req[r].dest][req[r].version].status = "sending"
      /\ ~IsSent(req[r].dest)
      /\ \A q \in Requests \ {r} : req[q].pc \in Owning => req[q].dest # req[r].dest
  BY OwnerIsAlone
<1>2. TypeOK'
  BY DEF DeliveryInv, TypeOK
<1>3. ASSUME NEW q \in Requests, q # r PROVE Local(req[q])'
  <2>1. req[q].pc \in Owning => req[q].dest \in Dests /\ req[q].dest # req[r].dest
    BY <1>1, <1>3, OwnerIsAlone
  <2> QED
    BY <1>3, <2>1, OthersKeepTheirs
<1>4. ASSUME NEW e \in Dests PROVE TableOK(e)'
  <2>1. TableOK(e) /\ History(e)' /\ (IsSent(e)' <=> IsSent(e))
    BY DEF DeliveryInv, TableOK, History, IsSent
  <2>2. CASE e = req[r].dest
    BY <1>1, <2>1, <2>2 DEF TableOK
  <2>3. CASE e # req[r].dest
    BY <2>1, <2>3 DEF TableOK
  <2> QED
    BY <2>2, <2>3
<1>5. OneSenderPerDestination'
  BY <1>1 DEF DeliveryInv, OneSenderPerDestination
<1> QED
  BY <1>2, <1>3, <1>4, <1>5 DEF DeliveryInv

(* A call may leave a message with the provider; no other handler is calling. *)
LEMMA CallKeepsInv ==
    ASSUME DeliveryInv, NEW r \in Requests, Call(r)
    PROVE  DeliveryInv'
<1>1. req[r].pc = "send" /\ req[r].pc \in Owning /\ row' = row
  BY DEF Call, At, Owning
<1>2. /\ req[r] \in Handler /\ req[r].dest \in Dests /\ Local(req[r]) /\ TypeOK
      /\ row[req[r].dest][req[r].version].status = "sending"
  BY <1>1, OwnerIsAlone DEF DeliveryInv
<1>3. /\ held' \in [Dests -> BOOLEAN]
      /\ \A e \in Dests : e # req[r].dest => held'[e] = held[e]
  BY <1>2 DEF Call, TypeOK
<1> DEFINE x == [req[r] EXCEPT !.pc = "answer", !.tries = @ + 1]
<1>4. req[r].tries + 1 \in 0 .. MaxTries
  BY <1>1, <1>2, BoundAssumption DEF Local, Handler
<1>5. x \in Handler
  BY <1>2, <1>4 DEF Handler, Points, Owning
<1>6. /\ x.pc = "answer" /\ x.dest = req[r].dest /\ x.version = req[r].version
      /\ x.reply = req[r].reply
  BY <1>2 DEF Handler
<1>7. req' = [req EXCEPT ![r] = x]
  BY <1>2 DEF Call, TypeOK
<1> HIDE DEF x
<1>8. /\ req' \in [Requests -> Handler]
      /\ req'[r] = x
      /\ \A q \in Requests \ {r} : req'[q] = req[q]
  BY <1>2, <1>5, <1>7 DEF TypeOK
<1>9. Local(req[r])'
  BY <1>1, <1>2, <1>6, <1>8 DEF Local, Early, Claiming, Owning
<1> QED
  BY <1>1, <1>3, <1>6, <1>8, <1>9, ProviderStep

(* An accepted call is remembered as such until it is recorded.              *)
LEMMA AnsweredOkKeepsInv ==
    ASSUME DeliveryInv, NEW r \in Requests, AnsweredOk(r)
    PROVE  DeliveryInv'
<1>1. /\ req[r].pc = "answer" /\ req[r].pc \in Owning /\ row' = row /\ held' = held
      /\ held[req[r].dest]
  BY DEF AnsweredOk, At, Owning
<1>2. /\ req[r] \in Handler /\ req[r].dest \in Dests /\ Local(req[r]) /\ TypeOK
      /\ row[req[r].dest][req[r].version].status = "sending"
  BY <1>1, OwnerIsAlone DEF DeliveryInv
<1> DEFINE x == [req[r] EXCEPT !.pc = "record", !.outcome = "ok"]
<1>5. x \in Handler
  BY <1>2 DEF Handler, Points, Owning
<1>6. /\ x.pc = "record" /\ x.dest = req[r].dest /\ x.version = req[r].version
      /\ x.reply = req[r].reply /\ x.outcome = "ok"
  BY <1>2 DEF Handler
<1>7. req' = [req EXCEPT ![r] = x]
  BY <1>2 DEF AnsweredOk, TypeOK
<1> HIDE DEF x
<1>8. /\ req' \in [Requests -> Handler]
      /\ req'[r] = x
      /\ \A q \in Requests \ {r} : req'[q] = req[q]
  BY <1>2, <1>5, <1>7 DEF TypeOK
<1>9. Local(req'[r])
  BY <1>1, <1>2, <1>6, <1>8 DEF Local, Early, Claiming, Owning
<1> QED
  BY <1>1, <1>6, <1>8, <1>9, HandlerStep

(* A failed call is repeated within the ceiling, or remembered as failed.    *)
LEMMA AnsweredErrorKeepsInv ==
    ASSUME DeliveryInv, NEW r \in Requests, AnsweredError(r)
    PROVE  DeliveryInv'
<1>1. req[r].pc = "answer" /\ req[r].pc \in Owning /\ row' = row
  BY DEF AnsweredError, At, Owning
<1>2. /\ req[r] \in Handler /\ req[r].dest \in Dests /\ Local(req[r]) /\ TypeOK
      /\ row[req[r].dest][req[r].version].status = "sending"
  BY <1>1, OwnerIsAlone DEF DeliveryInv
<1>3. /\ held' \in [Dests -> BOOLEAN]
      /\ \A e \in Dests : e # req[r].dest => held'[e] = held[e]
      /\ held'[req[r].dest] = FALSE
  BY <1>2 DEF AnsweredError, TypeOK
<1>4. CASE req[r].tries < MaxTries /\ Goto(r, "send")
  <2> DEFINE x == [req[r] EXCEPT !.pc = "send"]
  <2>1. x \in Handler
    BY <1>2 DEF Handler, Points, Owning
  <2>2. /\ x.pc = "send" /\ x.dest = req[r].dest /\ x.version = req[r].version
        /\ x.reply = req[r].reply /\ x.tries = req[r].tries
    BY <1>2 DEF Handler
  <2>3. req' = [req EXCEPT ![r] = x]
    BY <1>2, <1>4 DEF Goto, TypeOK
  <2> HIDE DEF x
  <2>4. /\ req' \in [Requests -> Handler]
        /\ req'[r] = x
        /\ \A q \in Requests \ {r} : req'[q] = req[q]
    BY <1>2, <2>1, <2>3 DEF TypeOK
  <2>5. Local(req[r])'
    BY <1>1, <1>2, <1>3, <1>4, <2>2, <2>4 DEF Local, Early, Claiming, Owning
  <2> QED
    BY <1>1, <1>3, <2>2, <2>4, <2>5, ProviderStep
<1>5. CASE req' = [req EXCEPT ![r].pc = "record", ![r].outcome = "failed"]
  <2> DEFINE x == [req[r] EXCEPT !.pc = "record", !.outcome = "failed"]
  <2>1. x \in Handler
    BY <1>2 DEF Handler, Points, Owning
  <2>2. /\ x.pc = "record" /\ x.dest = req[r].dest /\ x.version = req[r].version
        /\ x.reply = req[r].reply /\ x.outcome = "failed"
    BY <1>2 DEF Handler
  <2>3. req' = [req EXCEPT ![r] = x]
    BY <1>2, <1>5 DEF TypeOK
  <2> HIDE DEF x
  <2>4. /\ req' \in [Requests -> Handler]
        /\ req'[r] = x
        /\ \A q \in Requests \ {r} : req'[q] = req[q]
    BY <1>2, <2>1, <2>3 DEF TypeOK
  <2>5. Local(req[r])'
    BY <1>1, <1>2, <1>3, <2>2, <2>4 DEF Local, Early, Claiming, Owning
  <2> QED
    BY <1>1, <1>3, <2>2, <2>4, <2>5, ProviderStep
<1> QED
  BY <1>4, <1>5 DEF AnsweredError

(* The owner settles its row, as sent when the provider holds the message,    *)
(* and owns it no longer.                                                    *)
LEMMA SettleStep ==
    ASSUME DeliveryInv, NEW r \in Requests, req[r].pc \in Owning, UNCHANGED held,
           NEW status \in {"sent", "failed"},
           row' = [row EXCEPT ![req[r].dest][req[r].version] = [status |-> status, stale |-> FALSE]],
           status = "sent" <=> held[req[r].dest],
           req' \in [Requests -> Handler],
           \A q \in Requests \ {r} : req'[q] = req[q],
           req'[r].pc \notin Owning,
           Local(req[r])'
    PROVE  DeliveryInv'
<1>1. /\ req[r].dest \in Dests /\ req[r].version \in Versions /\ TableOK(req[r].dest)
      /\ row[req[r].dest][req[r].version].status = "sending"
      /\ ~IsSent(req[r].dest) /\ TypeOK
      /\ \A q \in Requests \ {r} : req[q].pc \in Owning => req[q].dest # req[r].dest
  BY OwnerIsAlone DEF DeliveryInv
<1>2. PICK d \in Dests, v \in Versions : d = req[r].dest /\ v = req[r].version
  BY <1>1
<1>3. /\ row' \in [Dests -> [Versions -> Row]]
      /\ row'[d][v].status = status
      /\ \A e \in Dests, m \in Versions : e # d \/ m # v => row'[e][m] = row[e][m]
  BY <1>1, <1>2 DEF TypeOK, Row
<1>4. TypeOK'
  BY <1>1, <1>3 DEF TypeOK
<1>5. ASSUME NEW q \in Requests, q # r PROVE Local(req[q])'
  <2>1. req[q].pc \in Owning => req[q].dest \in Dests /\ req[q].version \in Versions
    BY OwnerIsAlone
  <2>2. \A e \in Dests, m \in Versions :
            row[e][m].status \in {"failed", "sent"} => row'[e][m].status = row[e][m].status
    BY <1>1, <1>2, <1>3
  <2>3. req[q].pc \in Owning =>
            row'[req[q].dest][req[q].version].status = row[req[q].dest][req[q].version].status
    BY <1>1, <1>2, <1>3, <1>5, <2>1
  <2> QED
    BY <1>5, <2>2, <2>3, OthersKeepTheirs
<1>6. ASSUME NEW e \in Dests PROVE TableOK(e)'
  <2>1. CASE e = d
    <3>1. History(e)'
      <4> SUFFICES ASSUME NEW w \in Versions, row'[d][w].status # "absent",
                          NEW m \in 1 .. w - 1
                   PROVE  row'[d][m].status = "failed"
        BY <2>1 DEF History
      <4>1. m \in Versions /\ m < w
        BY BoundAssumption DEF Versions
      <4>2. row[d][w].status # "absent"
        BY <1>1, <1>2, <1>3
      <4>3. row[d][m].status = "failed"
        BY <1>1, <1>2, <4>2 DEF TableOK, History
      <4> QED
        BY <1>1, <1>2, <1>3, <4>1, <4>3
    <3>2. IsSent(e)' => held[d]
      BY <1>1, <1>2, <1>3, <2>1 DEF IsSent
    <3>3. held[d] => \E w \in Versions : row'[d][w].status \in {"sending", "sent"}
      BY <1>2, <1>3
    <3> QED
      BY <2>1, <3>1, <3>2, <3>3 DEF TableOK
  <2>2. CASE e # d
    <3>1. TableOK(e) /\ row'[e] = row[e] /\ held' = held
      BY <1>1, <1>2, <2>2 DEF DeliveryInv, TypeOK
    <3> QED
      BY <3>1 DEF TableOK, History, IsSent
  <2> QED
    BY <2>1, <2>2
<1>7. OneSenderPerDestination'
  BY DEF DeliveryInv, OneSenderPerDestination
<1> QED
  BY <1>4, <1>5, <1>6, <1>7 DEF DeliveryInv

(* What is recorded is what the provider said, and the trigger accepts it.   *)
LEMMA RecordKeepsInv ==
    ASSUME DeliveryInv, NEW r \in Requests, Record(r)
    PROVE  DeliveryInv'
<1>1. req[r].pc = "record" /\ req[r].pc \in Owning /\ held' = held
  BY DEF Record, At, Owning
<1>2. /\ req[r] \in Handler /\ req[r].dest \in Dests /\ req[r].version \in Versions
      /\ Local(req[r]) /\ TypeOK
      /\ row[req[r].dest][req[r].version].status = "sending"
      /\ held[req[r].dest] <=> req[r].outcome = "ok"
  BY <1>1, OwnerIsAlone DEF DeliveryInv, Local
<1>3. TransitionAllowed("sending", "sent") /\ TransitionAllowed("sending", "failed")
  BY DEF TransitionAllowed
<1>4. CASE req[r].outcome = "ok"
  <2>1. /\ row' = [row EXCEPT ![req[r].dest][req[r].version] = [status |-> "sent", stale |-> FALSE]]
        /\ Goto(r, "respond")
    BY <1>2, <1>3, <1>4 DEF Record
  <2> DEFINE x == [req[r] EXCEPT !.pc = "respond"]
  <2>2. x \in Handler
    BY <1>2 DEF Handler, Points
  <2>3. /\ x.pc = "respond" /\ x.dest = req[r].dest /\ x.version = req[r].version
        /\ x.reply = req[r].reply /\ x.outcome = "ok"
    BY <1>2, <1>4 DEF Handler
  <2>4. req' = [req EXCEPT ![r] = x]
    BY <1>2, <2>1 DEF Goto, TypeOK
  <2> HIDE DEF x
  <2>5. /\ req' \in [Requests -> Handler]
        /\ req'[r] = x
        /\ \A q \in Requests \ {r} : req'[q] = req[q]
    BY <1>2, <2>2, <2>4 DEF TypeOK
  <2>6. row'[req[r].dest][req[r].version].status = "sent"
    BY <1>2, <2>1 DEF TypeOK
  <2>7. \E w \in Versions : row'[req[r].dest][w].status = "sent"
    BY <1>2, <2>6
  <2>8. x.reply = "none"
    BY <1>1, <1>2, <2>3 DEF Local
  <2>9. Local(req[r])'
    BY <1>2, <2>3, <2>5, <2>6, <2>7, <2>8 DEF Local, IsSent, Early, Claiming, Owning
  <2> QED
    BY <1>1, <1>2, <1>4, <2>1, <2>3, <2>5, <2>9, SettleStep DEF Owning
<1>5. CASE req[r].outcome # "ok"
  <2>1. /\ row' = [row EXCEPT ![req[r].dest][req[r].version] = [status |-> "failed", stale |-> FALSE]]
        /\ Reply(r, "error", "none")
    BY <1>2, <1>3, <1>5 DEF Record
  <2> DEFINE x == [Idle EXCEPT !.dest = req[r].dest, !.reply = "error", !.shown = "none"]
  <2>2. x \in Handler /\ x.pc = "idle" /\ x.reply = "error"
    BY <1>2, IdleIsAHandler DEF Idle, Handler
  <2>3. req' = [req EXCEPT ![r] = x]
    BY <2>1 DEF Reply
  <2> HIDE DEF x
  <2>4. /\ req' \in [Requests -> Handler]
        /\ req'[r] = x
        /\ \A q \in Requests \ {r} : req'[q] = req[q]
    BY <1>2, <2>2, <2>3 DEF TypeOK
  <2>5. Local(req[r])'
    BY <2>2, <2>4 DEF Local, Early, Claiming, Owning
  <2> QED
    BY <1>1, <1>2, <1>5, <2>1, <2>2, <2>4, <2>5, SettleStep DEF Owning
<1> QED
  BY <1>4, <1>5

-------------------------------------------------------------------------------
(* The ends of a request, and the passing of time.                           *)

(* The final answer is given only when the destination has been delivered to. *)
LEMMA RespondKeepsInv ==
    ASSUME DeliveryInv, NEW r \in Requests, Respond(r)
    PROVE  DeliveryInv'
<1>1. /\ req[r].pc = "respond" /\ UNCHANGED <<row, held>> /\ Local(req[r])
      /\ req[r].dest \in Dests /\ req[r].version \in Versions /\ IsSent(req[r].dest)
      /\ TypeOK
  BY DEF Respond, At, DeliveryInv, Local, TypeOK, Handler
<1>2. PICK v \in Versions :
          /\ req[r].dest \notin Email => v = req[r].version
          /\ Reply(r, IF req[r].outcome = "ok" THEN "sent" ELSE "already_sent",
                   row[req[r].dest][v].status)
  <2>1. 1 \in Versions
    BY BoundAssumption DEF Versions
  <2> QED
    BY <1>1, <2>1 DEF Respond
<1>3. row[req[r].dest][v].status \in {"none", "absent", "sending", "sent", "failed"}
  BY <1>1 DEF TypeOK, Row
<1>4. CASE req[r].outcome = "ok"
  <2>1. row[req[r].dest][req[r].version].status = "sent"
    BY <1>1, <1>4 DEF Local
  <2> QED
    BY <1>1, <1>2, <1>3, <1>4, <2>1, ReplyStep
<1>5. CASE req[r].outcome # "ok"
  BY <1>1, <1>2, <1>3, <1>5, ReplyStep
<1> QED
  BY <1>4, <1>5

(* A dropped handler forgets what it knew; rows and messages remain.         *)
LEMMA DroppedKeepsInv ==
    ASSUME DeliveryInv, NEW r \in Requests, Dropped(r)
    PROVE  DeliveryInv'
<1>1. /\ req' = [req EXCEPT ![r] = Idle] /\ UNCHANGED <<row, held>>
  BY DEF Dropped
<1>2. Idle \in Handler /\ Local(Idle) /\ Idle.pc = "idle"
  BY IdleIsAHandler DEF Idle, Local, Early, Claiming, Owning
<1>3. /\ req' \in [Requests -> Handler]
      /\ req'[r] = Idle
      /\ \A q \in Requests \ {r} : req'[q] = req[q]
  BY <1>1, <1>2 DEF DeliveryInv, TypeOK
<1> QED
  BY <1>1, <1>2, <1>3, HandlerStep DEF Owning

(* The age of a row changes nothing anyone relies on.                        *)
LEMMA RowAgesKeepsInv ==
    ASSUME DeliveryInv, NEW d \in Dests, NEW v \in Versions, RowAges(d, v)
    PROVE  DeliveryInv'
<1>1. /\ row' = [row EXCEPT ![d][v].stale = TRUE] /\ UNCHANGED <<req, held>> /\ TypeOK
  BY DEF RowAges, DeliveryInv
<1> DEFINE x == [row[d][v] EXCEPT !.stale = TRUE]
           y == [row[d] EXCEPT ![v] = x]
<1>2. x \in Row /\ x.status = row[d][v].status
  <2>1. row[d][v] \in Row
    BY <1>1 DEF TypeOK
  <2> QED
    BY <2>1 DEF Row
<1>3. row' = [row EXCEPT ![d] = y]
  BY <1>1 DEF TypeOK
<1> HIDE DEF x
<1>4. /\ y \in [Versions -> Row]
      /\ \A m \in Versions : y[m].status = row[d][m].status
  BY <1>1, <1>2 DEF TypeOK
<1> HIDE DEF y
<1>5. row' \in [Dests -> [Versions -> Row]]
  BY <1>1, <1>3, <1>4 DEF TypeOK
<1>6. \A e \in Dests, m \in Versions : row'[e][m].status = row[e][m].status
  BY <1>1, <1>3, <1>4 DEF TypeOK
<1>7. TypeOK'
  BY <1>1, <1>5 DEF TypeOK
<1>8. ASSUME NEW q \in Requests PROVE Local(req[q])'
  <2>1. req[q].pc \in Owning => req[q].dest \in Dests /\ req[q].version \in Versions
    BY OwnerIsAlone
  <2> QED
    BY <1>1, <1>6, <2>1, OthersKeepTheirs
<1>9. ASSUME NEW e \in Dests PROVE TableOK(e)'
  <2>1. \A m \in Versions : row'[e][m].status = row[e][m].status
    BY <1>6
  <2>2. TableOK(e) /\ held' = held
    BY <1>1 DEF DeliveryInv
  <2>3. \A w \in Versions : \A m \in 1 .. w - 1 : m \in Versions
    BY BoundAssumption DEF Versions
  <2> QED
    BY <2>1, <2>2, <2>3 DEF TableOK, History, IsSent
<1>10. OneSenderPerDestination'
  BY <1>1 DEF DeliveryInv, OneSenderPerDestination
<1> QED
  BY <1>7, <1>8, <1>9, <1>10 DEF DeliveryInv

(* Every statement, provider answer and fault keeps the invariant.           *)
THEOREM StepDelivery == DeliveryInv /\ [Next]_vars => DeliveryInv'
<1> SUFFICES ASSUME DeliveryInv, [Next]_vars PROVE DeliveryInv'
  OBVIOUS
<1>1. ASSUME NEW r \in Requests, NEW d \in Dests, Request(r, d) PROVE DeliveryInv'
  BY <1>1, RequestKeepsInv
<1>2. ASSUME NEW r \in Requests, DatabaseError(r) PROVE DeliveryInv'
  BY <1>2, ReplyStep DEF DatabaseError
<1>3. ASSUME NEW d \in Dests, NEW v \in Versions, RowAges(d, v) PROVE DeliveryInv'
  BY <1>3, RowAgesKeepsInv
<1>4. ASSUME NEW r \in Requests,
             \/ CheckSent(r) \/ Reclaim(r) \/ ReadLatest(r) \/ Precheck(r) \/ Insert(r)
             \/ Call(r) \/ AnsweredOk(r) \/ AnsweredError(r) \/ Record(r) \/ Respond(r)
             \/ Dropped(r)
      PROVE  DeliveryInv'
  BY <1>4, CheckSentKeepsInv, ReclaimKeepsInv, ReadLatestKeepsInv, PrecheckKeepsInv,
     InsertKeepsInv, CallKeepsInv, AnsweredOkKeepsInv, AnsweredErrorKeepsInv,
     RecordKeepsInv, RespondKeepsInv, DroppedKeepsInv
<1>5. CASE UNCHANGED vars
  BY <1>5 DEF vars, DeliveryInv, TypeOK, Local, TableOK, History, IsSent, OneSenderPerDestination
<1> QED
  BY <1>1, <1>2, <1>3, <1>4, <1>5 DEF Next

(* The inductive invariant holds in every reachable state.                   *)
THEOREM DeliveryInvariant == Spec => []DeliveryInv
BY InitDelivery, StepDelivery, PTL DEF Spec

-------------------------------------------------------------------------------
(* The rows, the handlers and the provider's answers keep their types; in     *)
(* particular no handler calls the provider more than MaxTries times.        *)
THEOREM DeliveryTypeCorrect == Spec => []TypeOK
<1>1. DeliveryInv => TypeOK
  BY DEF DeliveryInv
<1> QED
  BY <1>1, DeliveryInvariant, PTL

(* The versions of a destination are one history, although a version is read  *)
(* two statements before it is claimed.                                      *)
THEOREM DeliveriesAreAHistory == Spec => []VersionsAreAHistory
<1>1. DeliveryInv => VersionsAreAHistory
  BY DEF DeliveryInv, TableOK, History, VersionsAreAHistory
<1> QED
  BY <1>1, DeliveryInvariant, PTL

(* For every number of concurrent requests, one of them talks to the provider *)
(* about a destination.                                                      *)
THEOREM SendersAreAlone == Spec => []OneSenderPerDestination
<1>1. DeliveryInv => OneSenderPerDestination
  BY DEF DeliveryInv
<1> QED
  BY <1>1, DeliveryInvariant, PTL

(* No call is made for a destination whose message the provider already holds *)
(* without its sender having been told of a failure, whoever died meanwhile. *)
THEOREM MessagesAreNotRepeated == Spec => []NeverSentAgain
<1>1. DeliveryInv => NeverSentAgain
  BY DEF DeliveryInv, Local, NeverSentAgain, At
<1> QED
  BY <1>1, DeliveryInvariant, PTL

(* A user told that a report was sent has a delivered row and a message with  *)
(* the provider.                                                             *)
THEOREM RepliesAreTrue == Spec => []ReplyIsTrue
<1>1. DeliveryInv => ReplyIsTrue
  BY DEF DeliveryInv, Local, TableOK, ReplyIsTrue
<1> QED
  BY <1>1, DeliveryInvariant, PTL
===============================================================================
