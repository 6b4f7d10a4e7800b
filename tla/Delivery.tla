------------------------------- MODULE Delivery -------------------------------
(*****************************************************************************)
(* The delivery of a finalized report on one channel: the request handlers,   *)
(* the rows of audit_deliveries they claim and settle, the reclaiming of rows *)
(* whose sender died, and the provider's answers. An action is one database   *)
(* statement or one half of a provider call, so a handler may be dropped (its *)
(* process dies, its client disconnects) between any two of them.             *)
(*****************************************************************************)
EXTENDS Naturals

CONSTANTS
    Dests,       \* (execution, channel, destination) of finalized executions
    Email,       \* the destinations served by the email handler
    Requests,    \* handler invocations that may run at the same time
    NoDest,      \* the destination of an idle handler
    MaxVersion,  \* bound: delivery attempts per destination
    MaxTries     \* provider calls per delivery, first one included

ASSUME DestAssumption == Email \subseteq Dests /\ NoDest \notin Dests
ASSUME BoundAssumption == MaxVersion \in Nat \ {0} /\ MaxTries \in Nat \ {0}

Versions == 1 .. MaxVersion

(* The points between two statements of a handler. From the insert to the     *)
(* recording of the outcome it owns the row it inserted.                      *)
Owning == {"send", "answer", "record"}
Points == {"idle", "check", "reclaim", "latest", "precheck", "reclaimKey", "insert", "respond"}
              \cup Owning

VARIABLES
    row,   \* audit_deliveries: [status, stale] per destination and version
    req,   \* local state of each handler, and its last reply
    held   \* per destination: the provider has taken a message and its sender
           \* has not been told that the call failed

vars == <<row, req, held>>

Row == [status: {"absent", "sending", "sent", "failed"}, stale: BOOLEAN]
Handler == [pc: Points, dest: Dests \cup {NoDest}, version: Versions, tries: 0 .. MaxTries,
            outcome: {"none", "ok", "failed"},
            reply: {"none", "sent", "already_sent", "error"},
            shown: {"none", "absent", "sending", "sent", "failed"}]

TypeOK ==
    /\ row \in [Dests -> [Versions -> Row]]
    /\ req \in [Requests -> Handler]
    /\ held \in [Dests -> BOOLEAN]

NoRow == [status |-> "absent", stale |-> FALSE]
Idle == [pc |-> "idle", dest |-> NoDest, version |-> 1, tries |-> 0, outcome |-> "none",
         reply |-> "none", shown |-> "none"]

Init ==
    /\ row = [d \in Dests |-> [v \in Versions |-> NoRow]]
    /\ req = [r \in Requests |-> Idle]
    /\ held = [d \in Dests |-> FALSE]

-------------------------------------------------------------------------------
At(r, pc) == req[r].pc = pc
Goto(r, pc) == req' = [req EXCEPT ![r].pc = pc]

(* The handler returns; its reply, with the row it shows, is kept. *)
Reply(r, reply, shown) ==
    req' = [req EXCEPT ![r] = [Idle EXCEPT !.dest = req[r].dest, !.reply = reply, !.shown = shown]]

IsSent(d) == \E v \in Versions : row[d][v].status = "sent"
Newest(d, v) == /\ row[d][v].status # "absent"
                /\ \A m \in Versions : m > v => row[d][m].status = "absent"

(* Which status changes the table's triggers let through. *)
TransitionAllowed(old, new) ==
    \/ old = new /\ old # "sent"
    \/ old = "sending" /\ new \in {"sent", "failed"}

(* Variant: the reclaiming statement as the table would accept it. *)
ReclaimSetsRepaired == {"status", "failure_class", "completed_at"}
(* What the reclaiming statement sets, and what the table holds. *)
ReclaimSets == {"status", "failure_class", "failure_reason"}
Columns == {"execution_id", "channel", "destination_ref", "delivery_version", "status",
            "attempts", "provider_message_id", "failure_class", "created_at", "completed_at"}
(* The statement must name known columns, and a terminal row must carry its  *)
(* completion time.                                                          *)
ReclaimAccepted == ReclaimSets \subseteq Columns /\ "completed_at" \in ReclaimSets

-------------------------------------------------------------------------------
(* The handler, up to the claim.                                             *)

(* Ownership is checked and the finalized content loaded before the first    *)
(* read of the table; a request that fails there leaves no trace.            *)
Request(r, d) ==
    /\ At(r, "idle")
    /\ req' = [req EXCEPT ![r] = [Idle EXCEPT !.pc = "check", !.dest = d]]
    /\ UNCHANGED <<row, held>>

CheckSent(r) ==
    LET d == req[r].dest IN
    /\ At(r, "check")
    /\ \/ /\ IsSent(d)
          /\ IF d \in Email THEN Goto(r, "respond") ELSE Reply(r, "already_sent", "none")
       \/ ~IsSent(d) /\ Goto(r, "reclaim")
    /\ UNCHANGED <<row, held>>

(* The reclaiming statement, its error discarded: first over every version   *)
(* of the destination, later over the one about to be claimed.               *)
Reclaim(r) ==
    LET d == req[r].dest
        scope == IF At(r, "reclaim") THEN Versions ELSE {req[r].version} IN
    /\ req[r].pc \in {"reclaim", "reclaimKey"}
    /\ row' = IF ReclaimAccepted
              THEN [row EXCEPT ![d] = [v \in Versions |->
                       IF v \in scope /\ @[v].status = "sending" /\ @[v].stale
                       THEN [@[v] EXCEPT !.status = "failed"] ELSE @[v]]]
              ELSE row
    /\ Goto(r, IF At(r, "reclaim") THEN "latest" ELSE "insert")
    /\ UNCHANGED held

(* Variant: only a delivered version stops a new one.                        *)
ReadLatestIgnoringSending(r) ==
    LET d == req[r].dest IN
    /\ At(r, "latest")
    /\ \/ /\ IsSent(d)
          /\ Reply(r, "error", "none")
       \/ \E v \in Versions :
             /\ \A m \in Versions : row[d][m].status # "absent" <=> m < v
             /\ ~IsSent(d)
             /\ req' = [req EXCEPT ![r].version = v,
                                   ![r].pc = IF d \in Email THEN "precheck" ELSE "reclaimKey"]
    /\ UNCHANGED <<row, held>>

(* resolve_delivery_version: the first version, or the one after a failure.  *)
ReadLatest(r) ==
    LET d == req[r].dest
        open == \E v \in Versions : Newest(d, v) /\ row[d][v].status \in {"sent", "sending"} IN
    /\ At(r, "latest")
    /\ \/ open /\ Reply(r, "error", "none")
       \/ \E v \in Versions :
             /\ ~open
             /\ \A m \in Versions : row[d][m].status # "absent" <=> m < v
             /\ req' = [req EXCEPT ![r].version = v,
                                   ![r].pc = IF d \in Email THEN "precheck" ELSE "reclaimKey"]
    /\ UNCHANGED <<row, held>>

(* The email handler looks once more at the version it is about to claim. *)
Precheck(r) ==
    /\ At(r, "precheck")
    /\ Goto(r, IF row[req[r].dest][req[r].version].status = "sent" THEN "respond" ELSE "reclaimKey")
    /\ UNCHANGED <<row, held>>

(* Variant: a conflicting insert takes the row over unless it was delivered. *)
InsertOrTakeOver(r) ==
    LET d == req[r].dest
        v == req[r].version IN
    /\ At(r, "insert")
    /\ \/ /\ row[d][v].status # "sent"
          /\ row' = [row EXCEPT ![d][v].status = "sending"]
          /\ Goto(r, "send")
       \/ /\ row[d][v].status = "sent"
          /\ Reply(r, "error", "none")
          /\ UNCHANGED row
    /\ UNCHANGED held

(* claim_delivery: the insert is the claim; whoever finds the key taken is   *)
(* refused, whatever the state of the row.                                   *)
Insert(r) ==
    LET d == req[r].dest
        v == req[r].version IN
    /\ At(r, "insert")
    /\ \/ /\ row[d][v].status = "absent"
          /\ row' = [row EXCEPT ![d][v] = [status |-> "sending", stale |-> FALSE]]
          /\ Goto(r, "send")
       \/ /\ row[d][v].status # "absent"
          /\ Reply(r, "error", "none")
          /\ UNCHANGED row
    /\ UNCHANGED held

-------------------------------------------------------------------------------
(* The provider call and the record of its outcome.                          *)

(* The message reaches the provider, which takes it or does not. *)
Call(r) ==
    LET d == req[r].dest IN
    /\ At(r, "send")
    /\ req' = [req EXCEPT ![r].pc = "answer", ![r].tries = @ + 1]
    /\ \E taken \in BOOLEAN : held' = [held EXCEPT ![d] = taken]
    /\ UNCHANGED row

AnsweredOk(r) ==
    /\ At(r, "answer")
    /\ held[req[r].dest]
    /\ req' = [req EXCEPT ![r].pc = "record", ![r].outcome = "ok"]
    /\ UNCHANGED <<row, held>>

(* An error, a timeout or an unreadable answer, whether or not the message    *)
(* was taken; the two transient classes are tried again within the call.      *)
AnsweredError(r) ==
    /\ At(r, "answer")
    /\ held' = [held EXCEPT ![req[r].dest] = FALSE]
    /\ \/ req[r].tries < MaxTries /\ Goto(r, "send")
       \/ req' = [req EXCEPT ![r].pc = "record", ![r].outcome = "failed"]
    /\ UNCHANGED row

(* Variant: whatever the provider said, the delivery is recorded as sent.    *)
RecordAlwaysSent(r) ==
    LET d == req[r].dest
        v == req[r].version IN
    /\ At(r, "record")
    /\ row' = [row EXCEPT ![d][v] = [status |-> "sent", stale |-> FALSE]]
    /\ Goto(r, "respond")
    /\ UNCHANGED held

(* finish_delivery; the trigger may refuse the change, and the request fails. *)
Record(r) ==
    LET d == req[r].dest
        v == req[r].version
        status == IF req[r].outcome = "ok" THEN "sent" ELSE "failed" IN
    /\ At(r, "record")
    /\ \/ /\ TransitionAllowed(row[d][v].status, status)
          /\ row' = [row EXCEPT ![d][v] = [status |-> status, stale |-> FALSE]]
          /\ IF status = "sent" THEN Goto(r, "respond") ELSE Reply(r, "error", "none")
       \/ /\ ~TransitionAllowed(row[d][v].status, status)
          /\ Reply(r, "error", "none")
          /\ UNCHANGED row
    /\ UNCHANGED held

(* The answer to the user. The email handler shows the row of version 1, the *)
(* telegram handler the row it delivered.                                    *)
Respond(r) ==
    LET d == req[r].dest
        v == IF d \in Email THEN 1 ELSE req[r].version IN
    /\ At(r, "respond")
    /\ Reply(r, IF req[r].outcome = "ok" THEN "sent" ELSE "already_sent", row[d][v].status)
    /\ UNCHANGED <<row, held>>

-------------------------------------------------------------------------------
(* A database error ends the request, a dropped handler does not even reply; *)
(* neither undoes what it had written or sent.                               *)
DatabaseError(r) ==
    /\ req[r].pc \in {"check", "latest", "precheck", "insert", "record", "respond"}
    /\ Reply(r, "error", "none")
    /\ UNCHANGED <<row, held>>

Dropped(r) ==
    /\ ~At(r, "idle")
    /\ req' = [req EXCEPT ![r] = Idle]
    /\ UNCHANGED <<row, held>>

(* Five minutes pass after the insert. *)
RowAges(d, v) ==
    /\ row[d][v].status = "sending"
    /\ ~row[d][v].stale
    /\ row' = [row EXCEPT ![d][v].stale = TRUE]
    /\ UNCHANGED <<req, held>>

Next ==
    \/ \E r \in Requests, d \in Dests : Request(r, d)
    \/ \E r \in Requests :
          \/ CheckSent(r) \/ Reclaim(r) \/ ReadLatest(r) \/ Precheck(r) \/ Insert(r)
          \/ Call(r) \/ AnsweredOk(r) \/ AnsweredError(r) \/ Record(r) \/ Respond(r)
          \/ DatabaseError(r) \/ Dropped(r)
    \/ \E d \in Dests, v \in Versions : RowAges(d, v)

Spec == Init /\ [][Next]_vars

-------------------------------------------------------------------------------
(* The versions of a destination are one history: only the newest may be in  *)
(* flight or delivered, so at most one version is ever delivered. Nothing in *)
(* the table says so across versions: the key covers one version, and the    *)
(* version is read two statements before it is claimed.                      *)
VersionsAreAHistory ==
    \A d \in Dests, v \in Versions :
        row[d][v].status # "absent" => \A m \in 1 .. v - 1 : row[d][m].status = "failed"

(* Two handlers never talk to the provider for one destination at once. *)
OneSenderPerDestination ==
    \A q, r \in Requests :
        /\ {req[q].pc, req[r].pc} \subseteq Owning
        /\ req[q].dest = req[r].dest
        => q = r

(* A handler calls the provider only while the provider holds no message for *)
(* the destination that its sender was not told had failed: a crash between  *)
(* the acceptance and its recording never leads to a second message.         *)
NeverSentAgain ==
    \A r \in Requests : At(r, "send") => ~held[req[r].dest]

(* A user told "sent" or "already_sent" has a delivered row and a message    *)
(* with the provider; the telegram handler shows that row.                   *)
ReplyIsTrue ==
    \A r \in Requests :
        /\ req[r].reply \in {"sent", "already_sent"} => IsSent(req[r].dest) /\ held[req[r].dest]
        /\ req[r].reply = "sent" /\ req[r].dest \notin Email => req[r].shown = "sent"

(* What delivery.rs says of stale rows: reading the version to claim has      *)
(* returned every row left behind to "failed", so that a retry may proceed.   *)
(* Reclaim, whose update the table always rejects, does not keep it.         *)
StaleSendingIsReclaimed ==
    [][\A r \in Requests :
          At(r, "reclaim") /\ Reclaim(r)
             => \A v \in Versions :
                   ~(row'[req[r].dest][v].status = "sending" /\ row'[req[r].dest][v].stale)]_vars
===============================================================================
