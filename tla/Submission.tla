------------------------------ MODULE Submission ------------------------------
(*****************************************************************************)
(* How audit jobs come to exist: users submit them and GitHub's webhooks turn *)
(* pushes into them, both through create_audit_job_attributed, whose per-user *)
(* advisory lock makes the count of live jobs and the insert one step.        *)
(* Deliveries may be repeated, raced and replayed with other bytes, and a     *)
(* handler may die anywhere. What a worker does to a job is AuditLifecycle's; *)
(* here a job is live or decided.                                            *)
(*****************************************************************************)
EXTENDS Integers, FiniteSets

CONSTANTS
    Users,          \* Fire Crow accounts
    Installations,  \* installation ids of the GitHub App
    Heads,          \* commits a push names
    Payloads,       \* the bodies GitHub may sign, each with the event it is sent as
    Deliveries,     \* delivery ids
    Handlers,       \* requests that may run at the same time
    Jobs,           \* ids of audit_jobs; bounds how many are ever created
    MaxActive,      \* max_active_jobs_per_user
    NoUser, NoHead, NoDelivery, NoPayload, NoJob, NoHandler

Events == {"push", "created", "deleted", "suspend", "unsuspend", "ping", "other"}

ASSUME SubmissionAssumption ==
    /\ Payloads \subseteq [event: Events, installation: Installations,
                           sender: Users \cup {NoUser}, head: Heads \cup {NoHead}]
    /\ IsFiniteSet(Jobs)
    /\ MaxActive \in Nat \ {0}
    /\ NoUser \notin Users /\ NoDelivery \notin Deliveries /\ NoPayload \notin Payloads
    /\ NoJob \notin Jobs /\ NoHandler \notin Handlers

VARIABLES
    job,           \* audit_jobs
    delivery,      \* github_webhook_deliveries
    installation,  \* github_installations
    lock,          \* pg_advisory_xact_lock(user): its holder
    req            \* local state of each handler

vars == <<job, delivery, installation, lock, req>>

Points == {"idle", "replay", "event", "authorize", "existing",
           "lock", "count", "insert", "refetch", "mark"}

Job == [status: {"absent", "live", "decided"},
        revived: BOOLEAN,  \* history: live again without having been admitted again
        user: Users \cup {NoUser}, delivery: Deliveries \cup {NoDelivery},
        payload: Payloads \cup {NoPayload}]

Delivery == [outcome: {"unseen", "pending", "processed", "ignored"},
             payload: Payloads \cup {NoPayload}]

Installation == [owner: Users \cup {NoUser}, suspended: BOOLEAN]

Handler == [at: Points, user: Users \cup {NoUser}, delivery: Deliveries \cup {NoDelivery},
            payload: Payloads \cup {NoPayload}, job: Jobs \cup {NoJob},
            outcome: {"processed", "ignored"}]

TypeOK ==
    /\ job \in [Jobs -> Job]
    /\ delivery \in [Deliveries -> Delivery]
    /\ installation \in [Installations -> Installation]
    /\ \A i \in Installations : installation[i].owner = NoUser => ~installation[i].suspended
    /\ lock \in [Users -> Handlers \cup {NoHandler}]
    /\ req \in [Handlers -> Handler]

NoRow == [owner |-> NoUser, suspended |-> FALSE]

Idle == [at |-> "idle", user |-> NoUser, delivery |-> NoDelivery,
         payload |-> NoPayload, job |-> NoJob, outcome |-> "processed"]

Init ==
    /\ job = [j \in Jobs |-> [status |-> "absent", revived |-> FALSE, user |-> NoUser,
                              delivery |-> NoDelivery, payload |-> NoPayload]]
    /\ delivery = [d \in Deliveries |-> [outcome |-> "unseen", payload |-> NoPayload]]
    /\ installation = [i \in Installations |-> NoRow]
    /\ lock = [u \in Users |-> NoHandler]
    /\ req = [h \in Handlers |-> Idle]

-------------------------------------------------------------------------------
At(h, p) == req[h].at = p
Goto(h, p) == req' = [req EXCEPT ![h].at = p]
Finish(h) == req' = [req EXCEPT ![h] = Idle]
MarkAs(h, outcome) == req' = [req EXCEPT ![h].at = "mark", ![h].outcome = outcome]

(* The installation row a handler's payload names; known and not suspended.  *)
Row(h) == installation[req[h].payload.installation]
Usable(row) == row.owner # NoUser /\ ~row.suspended

JobsOf(d) == {j \in Jobs : job[j].delivery = d}
LiveOf(u) == {j \in Jobs : job[j].user = u /\ job[j].status = "live"}

(* The transaction ends, by commit, rollback or loss of its connection.      *)
Release(h) == lock' = [u \in Users |-> IF lock[u] = h THEN NoHandler ELSE lock[u]]

-------------------------------------------------------------------------------
(* submit_audit: a signed-in user's request goes to the gate directly.       *)
Submit(h, u) ==
    /\ At(h, "idle")
    /\ req' = [req EXCEPT ![h] = [Idle EXCEPT !.at = "lock", !.user = u]]
    /\ UNCHANGED <<job, delivery, installation, lock>>

Receives(h, d, p, at) ==
    req' = [req EXCEPT ![h] = [Idle EXCEPT !.at = at, !.delivery = d, !.payload = p]]

(* Variant: the first sight of a delivery closes it.                         *)
ReceiveProcessed(h, d, p) ==
    /\ At(h, "idle")
    /\ IF delivery[d].outcome = "unseen"
       THEN /\ delivery' = [delivery EXCEPT ![d] = [outcome |-> "processed", payload |-> p]]
            /\ Receives(h, d, p, "event")
       ELSE Receives(h, d, p, "replay") /\ UNCHANGED delivery
    /\ UNCHANGED <<job, installation, lock>>

(* A delivery with a valid signature: record_webhook_delivery inserts it     *)
(* unless its id has been seen.                                              *)
Receive(h, d, p) ==
    /\ At(h, "idle")
    /\ IF delivery[d].outcome = "unseen"
       THEN /\ delivery' = [delivery EXCEPT ![d] = [outcome |-> "pending", payload |-> p]]
            /\ Receives(h, d, p, "event")
       ELSE Receives(h, d, p, "replay") /\ UNCHANGED delivery
    /\ UNCHANGED <<job, installation, lock>>

(* Variant: a repeated id is taken at its word, whatever the bytes.          *)
ReplayAnyBody(h) ==
    /\ At(h, "replay")
    /\ IF delivery[req[h].delivery].outcome = "pending" THEN Goto(h, "event") ELSE Finish(h)
    /\ UNCHANGED <<job, delivery, installation, lock>>

(* A repeated id: other bytes are a conflict, a closed delivery a duplicate, *)
(* and a pending one is handled again. Only the hash of the bytes is         *)
(* compared, not the event's name; equal payloads stand for equal bytes,     *)
(* since GitHub sends a body under one name.                                 *)
Replay(h) ==
    /\ At(h, "replay")
    /\ IF /\ delivery[req[h].delivery].payload = req[h].payload
          /\ delivery[req[h].delivery].outcome = "pending"
       THEN Goto(h, "event")
       ELSE Finish(h)
    /\ UNCHANGED <<job, delivery, installation, lock>>

-------------------------------------------------------------------------------
(* Events that change nothing: a ping is processed, the rest is ignored.     *)
Acknowledge(h) ==
    /\ At(h, "event") /\ req[h].payload.event \in {"ping", "other"}
    /\ MarkAs(h, IF req[h].payload.event = "ping" THEN "processed" ELSE "ignored")
    /\ UNCHANGED <<job, delivery, installation, lock>>

SetRow(h, row) == installation' = [installation EXCEPT ![req[h].payload.installation] = row]

(* register_installation: an upsert that leaves the suspension as it is.     *)
Register(h) ==
    /\ At(h, "event") /\ req[h].payload.event = "created"
    /\ IF req[h].payload.sender = NoUser
       THEN MarkAs(h, "ignored") /\ UNCHANGED installation
       ELSE /\ SetRow(h, [Row(h) EXCEPT !.owner = req[h].payload.sender])
            /\ MarkAs(h, "processed")
    /\ UNCHANGED <<job, delivery, lock>>

(* remove_installation: the row is deleted.                                  *)
Remove(h) ==
    /\ At(h, "event") /\ req[h].payload.event = "deleted"
    /\ SetRow(h, NoRow)
    /\ MarkAs(h, "processed")
    /\ UNCHANGED <<job, delivery, lock>>

(* set_installation_suspended: an update, so an unknown id stays unknown.    *)
Suspend(h) ==
    /\ At(h, "event") /\ req[h].payload.event \in {"suspend", "unsuspend"}
    /\ IF Row(h).owner = NoUser
       THEN UNCHANGED installation
       ELSE SetRow(h, [Row(h) EXCEPT !.suspended = (req[h].payload.event = "suspend")])
    /\ MarkAs(h, "processed")
    /\ UNCHANGED <<job, delivery, lock>>

-------------------------------------------------------------------------------
(* handle_push_event, for a payload that names a commit and a repository (it *)
(* is ignored like "other" if it does not): get_installation, whose owner is *)
(* the user the job will belong to.                                          *)
Push(h) ==
    /\ At(h, "event") /\ req[h].payload.event = "push"
    /\ IF Usable(Row(h))
       THEN req' = [req EXCEPT ![h].at = "authorize", ![h].user = Row(h).owner]
       ELSE MarkAs(h, "ignored")
    /\ UNCHANGED <<job, delivery, installation, lock>>

(* authorize_installation_repo reads the row again before it asks GitHub,    *)
(* which grants a token and shows the repository, or refuses for good. That  *)
(* GitHub cannot answer is an error, see Failed.                             *)
Authorize(h) ==
    /\ At(h, "authorize")
    /\ \/ Usable(Row(h)) /\ Row(h).owner = req[h].user /\ Goto(h, "existing")
       \/ MarkAs(h, "ignored")
    /\ UNCHANGED <<job, delivery, installation, lock>>

-------------------------------------------------------------------------------
Found(h) ==
    \E j \in JobsOf(req[h].delivery) :
        req' = [req EXCEPT ![h].at = "mark", ![h].outcome = "processed", ![h].job = j]

(* A redelivery finds its job before any gate.                               *)
Existing(h) ==
    /\ At(h, "existing")
    /\ IF JobsOf(req[h].delivery) # {} THEN Found(h) ELSE Goto(h, "lock")
    /\ UNCHANGED <<job, delivery, installation, lock>>

(* Variant: the gate is not serialized.                                      *)
LockNothing(h) ==
    /\ At(h, "lock")
    /\ Goto(h, "count")
    /\ UNCHANGED <<job, delivery, installation, lock>>

Lock(h) ==
    /\ At(h, "lock")
    /\ lock[req[h].user] = NoHandler
    /\ lock' = [lock EXCEPT ![req[h].user] = h]
    /\ Goto(h, "count")
    /\ UNCHANGED <<job, delivery, installation>>

(* Too many live jobs are a conflict: nothing is written, and a delivery     *)
(* stays pending.                                                            *)
Count(h) ==
    /\ At(h, "count")
    /\ IF Cardinality(LiveOf(req[h].user)) >= MaxActive
       THEN Finish(h) /\ Release(h)
       ELSE Goto(h, "insert") /\ UNCHANGED lock
    /\ UNCHANGED <<job, delivery, installation>>

NewJob(h) == [status |-> "live", revived |-> FALSE, user |-> req[h].user,
              delivery |-> req[h].delivery, payload |-> req[h].payload]

(* A user is answered at once; a delivery is marked first.                   *)
Created(h, j) ==
    IF req[h].delivery = NoDelivery
    THEN Finish(h)
    ELSE req' = [req EXCEPT ![h].at = "mark", ![h].outcome = "processed", ![h].job = j]

(* Variant: the insert has no conflict clause.                               *)
InsertAlways(h) ==
    /\ At(h, "insert")
    /\ \E j \in Jobs :
          /\ job[j].status = "absent"
          /\ job' = [job EXCEPT ![j] = NewJob(h)]
          /\ Created(h, j)
    /\ Release(h)
    /\ UNCHANGED <<delivery, installation>>

(* INSERT ... ON CONFLICT (webhook_delivery_id) DO NOTHING, and the commit.  *)
Insert(h) ==
    /\ At(h, "insert")
    /\ IF req[h].delivery # NoDelivery /\ JobsOf(req[h].delivery) # {}
       THEN Goto(h, "refetch") /\ UNCHANGED job
       ELSE \E j \in Jobs :
              /\ job[j].status = "absent"
              /\ job' = [job EXCEPT ![j] = NewJob(h)]
              /\ Created(h, j)
    /\ Release(h)
    /\ UNCHANGED <<delivery, installation>>

(* Variant: a zero-row insert answers with the id that was not inserted.     *)
RefetchNothing(h) ==
    /\ At(h, "refetch")
    /\ MarkAs(h, "processed")
    /\ UNCHANGED <<job, delivery, installation, lock>>

(* A zero-row insert: the job the other handler wrote.                       *)
Refetch(h) ==
    /\ At(h, "refetch")
    /\ Found(h)
    /\ UNCHANGED <<job, delivery, installation, lock>>

-------------------------------------------------------------------------------
(* mark_webhook_outcome closes a delivery that is still open, and the        *)
(* handler answers.                                                          *)
Mark(h) ==
    /\ At(h, "mark")
    /\ delivery' = [delivery EXCEPT ![req[h].delivery].outcome =
                       IF @ = "pending" THEN req[h].outcome ELSE @]
    /\ Finish(h)
    /\ UNCHANGED <<job, installation, lock>>

(* A database error, a transient error of GitHub's or a dropped handler: an  *)
(* open transaction is rolled back and a delivery stays pending.             *)
Failed(h) ==
    /\ ~At(h, "idle")
    /\ Finish(h)
    /\ Release(h)
    /\ UNCHANGED <<job, delivery, installation>>

-------------------------------------------------------------------------------
(* A worker, the reaper or the sweep decides a live job.                     *)
Decide(j) ==
    /\ job[j].status = "live"
    /\ job' = [job EXCEPT ![j].status = "decided", ![j].revived = FALSE]
    /\ UNCHANGED <<delivery, installation, lock, req>>

(* retry_job makes a decided job live again; it does not pass the gate. A    *)
(* completed job, which it refuses, is a decided one nobody retries.         *)
Revive(j) ==
    /\ job[j].status = "decided"
    /\ job' = [job EXCEPT ![j].status = "live", ![j].revived = TRUE]
    /\ UNCHANGED <<delivery, installation, lock, req>>

HandlerStep(h) ==
    \/ Replay(h) \/ Acknowledge(h) \/ Register(h) \/ Remove(h) \/ Suspend(h)
    \/ Push(h) \/ Authorize(h) \/ Existing(h)
    \/ Lock(h) \/ Count(h) \/ Insert(h) \/ Refetch(h)
    \/ Mark(h) \/ Failed(h)

Next ==
    \/ \E h \in Handlers, u \in Users : Submit(h, u)
    \/ \E h \in Handlers, d \in Deliveries, p \in Payloads : Receive(h, d, p)
    \/ \E h \in Handlers : HandlerStep(h)
    \/ \E j \in Jobs : Decide(j) \/ Revive(j)

Spec == Init /\ [][Next]_vars

-------------------------------------------------------------------------------
(* However requests and deliveries race, the gate never admits more live     *)
(* jobs of a user than its cap: what counts are jobs it let in, not those    *)
(* that became live again by another way.                                    *)
AdmittedWithinCap ==
    \A u \in Users : Cardinality({j \in LiveOf(u) : ~job[j].revived}) <= MaxActive

(* One delivery makes at most one job, redelivered or raced as it may be,    *)
(* and by however many owners.                                               *)
OneJobPerDelivery == \A d \in Deliveries : Cardinality(JobsOf(d)) <= 1

(* A push is closed as processed only when its job exists: a crash after the *)
(* delivery was recorded never turns into a silently dropped audit.          *)
ProcessedHasItsJob ==
    \A d \in Deliveries :
        delivery[d].outcome = "processed" /\ delivery[d].payload.event = "push" => JobsOf(d) # {}

(* A delivery's job is of the bytes first recorded under its id, whoever     *)
(* replays that id with other bytes.                                         *)
JobIsOfTheRecordedPayload ==
    \A j \in Jobs : job[j].delivery # NoDelivery =>
        job[j].payload = delivery[job[j].delivery].payload

(* What a handler is about to answer for a push names a job of its delivery, *)
(* the loser of a race included.                                             *)
ReplyNamesItsJob ==
    \A h \in Handlers :
        At(h, "mark") /\ req[h].payload.event = "push" /\ req[h].outcome = "processed" =>
            req[h].job \in JobsOf(req[h].delivery)

(* A user's live jobs never exceed the cap, whatever made them live. A retry, *)
(* which does not pass the gate, breaks it.                                  *)
LiveWithinCap == \A u \in Users : Cardinality(LiveOf(u)) <= MaxActive
===============================================================================
