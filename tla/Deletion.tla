------------------------------- MODULE Deletion -------------------------------
(*****************************************************************************)
(* The deletion of an account: a request with a deadline, its cancellation,   *)
(* and the housekeeping loops that remind, delete and notify. A loop works    *)
(* through lists it has read, one statement at a time, while users cancel,    *)
(* deadlines pass and other loops do the same; it may stop between any two    *)
(* statements, and nothing it wrote is undone.                               *)
(*****************************************************************************)
EXTENDS Naturals, FiniteSets

CONSTANTS
    Users,      \* accounts
    Requests,   \* ids of account_deletion_requests; bounds how many are made
    Loops,      \* housekeeping loops, one per server process
    NoUser, NoRequest,
    MaxFaults   \* bound: database errors and crashes per run

ASSUME DeletionAssumption ==
    /\ NoUser \notin Users /\ NoRequest \notin Requests
    /\ IsFiniteSet(Loops)
    /\ MaxFaults \in Nat

VARIABLES
    request,   \* account_deletion_requests
    deleted,   \* users.deleted_at is set
    loop,      \* local state of each loop
    told,      \* history: completion messages sent per request
    late,      \* history: reminders sent per request after it was decided
    torn,      \* history: requests whose loop stopped before the account
    faults

vars == <<request, deleted, loop, told, late, torn, faults>>

Request == [status: {"absent", "requested", "cancelled", "deleted"},
            user: Users \cup {NoUser}, overdue: BOOLEAN,
            reminded: BOOLEAN]  \* within the reminder interval

Loop == [at: {"idle", "delete", "account", "notify", "remind", "record"},
         due: SUBSET Requests,     \* read, and not yet gone through
         fresh: SUBSET Requests,   \* at the tick: deadline ahead, no recent reminder
         current: Requests \cup {NoRequest}]

TypeOK ==
    /\ request \in [Requests -> Request]
    /\ \A q \in Requests : request[q].status # "absent" => request[q].user \in Users
    /\ deleted \in [Users -> BOOLEAN]
    /\ loop \in [Loops -> Loop]
    /\ \A w \in Loops : loop[w].at \in {"account", "notify", "record"} => loop[w].current \in Requests
    /\ told \in [Requests -> Nat]
    /\ late \in [Requests -> Nat]
    /\ torn \subseteq Requests
    /\ faults \in 0 .. MaxFaults

NoRow == [status |-> "absent", user |-> NoUser, overdue |-> FALSE, reminded |-> FALSE]
Idle == [at |-> "idle", due |-> {}, fresh |-> {}, current |-> NoRequest]

Init ==
    /\ request = [q \in Requests |-> NoRow]
    /\ deleted = [u \in Users |-> FALSE]
    /\ loop = [w \in Loops |-> Idle]
    /\ told = [q \in Requests |-> 0]
    /\ late = [q \in Requests |-> 0]
    /\ torn = {}
    /\ faults = 0

-------------------------------------------------------------------------------
Pending(q) == request[q].status = "requested"
At(w, p) == loop[w].at = p
Goto(w, p) == loop' = [loop EXCEPT ![w].at = p]
OnlyLoop == UNCHANGED <<request, deleted, told, late, torn, faults>>

(* request_deletion: every call makes a row, an earlier request of the same  *)
(* account and a deleted account notwithstanding.                            *)
RequestDeletion(u) ==
    /\ \E q \in Requests :
          /\ request[q].status = "absent"
          /\ request' = [request EXCEPT ![q] = [NoRow EXCEPT !.status = "requested", !.user = u]]
    /\ UNCHANGED <<deleted, loop, told, late, torn, faults>>

(* cancel_deletion, by the account's user with the token of the request. The *)
(* deadline is not read: what no loop has decided may still be cancelled.    *)
Cancel(q) ==
    /\ Pending(q)
    /\ request' = [request EXCEPT ![q].status = "cancelled"]
    /\ UNCHANGED <<deleted, loop, told, late, torn, faults>>

(* Time: the deadline, and the reminder interval.                            *)
DeadlinePasses(q) ==
    /\ request[q].status # "absent" /\ ~request[q].overdue
    /\ request' = [request EXCEPT ![q].overdue = TRUE]
    /\ UNCHANGED <<deleted, loop, told, late, torn, faults>>

ReminderAges(q) ==
    /\ request[q].reminded
    /\ request' = [request EXCEPT ![q].reminded = FALSE]
    /\ UNCHANGED <<deleted, loop, told, late, torn, faults>>

-------------------------------------------------------------------------------
Fresh == {q \in Requests : ~request[q].overdue /\ ~request[q].reminded}

(* Variant: the list of requests to delete ignores the deadline.             *)
TickAnyPending(w) ==
    /\ At(w, "idle")
    /\ loop' = [loop EXCEPT ![w] = [at |-> "delete", due |-> {q \in Requests : Pending(q)},
                                    fresh |-> Fresh, current |-> NoRequest]]
    /\ OnlyLoop

(* process() reads the clock and the overdue requests.                       *)
Tick(w) ==
    /\ At(w, "idle")
    /\ loop' = [loop EXCEPT ![w] =
          [at |-> "delete", due |-> {q \in Requests : Pending(q) /\ request[q].overdue},
           fresh |-> Fresh, current |-> NoRequest]]
    /\ OnlyLoop

Takes(w, q, at) ==
    loop' = [loop EXCEPT ![w].at = at, ![w].due = @ \ {q}, ![w].current = q]

(* Variants: the update has no guard on the status; its row count is not      *)
(* read; an overdue request is passed over.                                  *)
DeleteRegardless(w) ==
    /\ At(w, "delete")
    /\ \E q \in loop[w].due :
          /\ request' = [request EXCEPT ![q].status = "deleted"]
          /\ Takes(w, q, "account")
    /\ UNCHANGED <<deleted, told, late, torn, faults>>
DeleteUncounted(w) ==
    /\ At(w, "delete")
    /\ \E q \in loop[w].due :
          /\ request' = [request EXCEPT ![q].status = IF Pending(q) THEN "deleted" ELSE @]
          /\ Takes(w, q, "account")
    /\ UNCHANGED <<deleted, told, late, torn, faults>>
DeleteOfDeletedSkipped(w) ==
    /\ At(w, "delete")
    /\ \E q \in loop[w].due :
          IF Pending(q) /\ ~deleted[request[q].user]
          THEN /\ request' = [request EXCEPT ![q].status = "deleted"]
               /\ Takes(w, q, "account")
          ELSE Takes(w, q, "delete") /\ UNCHANGED request
    /\ UNCHANGED <<deleted, told, late, torn, faults>>

(* The transition to "deleted", guarded by the row's own status: a request   *)
(* that was cancelled or taken meanwhile is passed over.                     *)
Delete(w) ==
    /\ At(w, "delete")
    /\ \E q \in loop[w].due :
          IF Pending(q)
          THEN /\ request' = [request EXCEPT ![q].status = "deleted"]
               /\ Takes(w, q, "account")
          ELSE Takes(w, q, "delete") /\ UNCHANGED request
    /\ UNCHANGED <<deleted, told, late, torn, faults>>

(* Variant: the account is left alone.                                       *)
MarkNothing(w) ==
    /\ At(w, "account")
    /\ Goto(w, "notify")
    /\ OnlyLoop

(* users.deleted_at, unless it is set already.                               *)
MarkAccount(w) ==
    /\ At(w, "account")
    /\ deleted' = [deleted EXCEPT ![request[loop[w].current].user] = TRUE]
    /\ Goto(w, "notify")
    /\ UNCHANGED <<request, told, late, torn, faults>>

(* The account's user_sessions are revoked, its address read and the final   *)
(* message sent; whether the provider takes it is not looked at.             *)
Notify(w) ==
    /\ At(w, "notify")
    /\ told' = [told EXCEPT ![loop[w].current] = @ + 1]
    /\ Goto(w, "delete")
    /\ UNCHANGED <<request, deleted, late, torn, faults>>

-------------------------------------------------------------------------------
(* Once the first list is done the second is read, by the same clock.        *)
SelectReminders(w) ==
    /\ At(w, "delete") /\ loop[w].due = {}
    /\ loop' = [loop EXCEPT ![w].at = "remind",
                            ![w].due = {q \in loop[w].fresh :
                                           Pending(q) /\ ~request[q].reminded},
                            ![w].fresh = {}]
    /\ OnlyLoop

(* The reminder is sent to whom the list names, decided since or not.        *)
Remind(w) ==
    /\ At(w, "remind")
    /\ \E q \in loop[w].due :
          /\ late' = IF Pending(q) THEN late ELSE [late EXCEPT ![q] = @ + 1]
          /\ Takes(w, q, "record")
    /\ UNCHANGED <<request, deleted, told, torn, faults>>

(* last_reminder_sent, by the id of the request alone.                       *)
RecordReminder(w) ==
    /\ At(w, "record")
    /\ request' = [request EXCEPT ![loop[w].current].reminded = TRUE]
    /\ Goto(w, "remind")
    /\ UNCHANGED <<deleted, told, late, torn, faults>>

Finish(w) ==
    /\ At(w, "remind") /\ loop[w].due = {}
    /\ loop' = [loop EXCEPT ![w] = Idle]
    /\ OnlyLoop

(* A database error makes process() return, a crash restarts the loop: the   *)
(* lists are forgotten and the next tick reads new ones.                     *)
Failed(w) ==
    /\ ~At(w, "idle") /\ faults < MaxFaults
    /\ faults' = faults + 1
    /\ torn' = IF At(w, "account") THEN torn \cup {loop[w].current} ELSE torn
    /\ loop' = [loop EXCEPT ![w] = Idle]
    /\ UNCHANGED <<request, deleted, told, late>>

Step(w) ==
    \/ Tick(w) \/ Delete(w) \/ MarkAccount(w) \/ Notify(w)
    \/ SelectReminders(w) \/ Remind(w) \/ RecordReminder(w) \/ Finish(w)

Next ==
    \/ \E u \in Users : RequestDeletion(u)
    \/ \E q \in Requests : Cancel(q) \/ DeadlinePasses(q) \/ ReminderAges(q)
    \/ \E w \in Loops : Step(w) \/ Failed(w)

Spec == Init /\ [][Next]_vars

(* A loop that has not crashed ticks on its interval and executes its next   *)
(* statement; users, the clock and faults are not forced.                    *)
FairSpec == Spec /\ \A w \in Loops : WF_vars(Step(w))

-------------------------------------------------------------------------------
(* A decided request stays decided: one that was cancelled, even while a loop *)
(* holds it on its list, is never deleted, and one that was deleted is not   *)
(* cancelled by a late click or reopened by a late reminder.                 *)
DecidedIsFinal ==
    [][\A q \in Requests :
          request[q].status \in {"cancelled", "deleted"} =>
              request'[q].status = request[q].status]_vars

(* An account is marked deleted only for a request of its own whose deadline *)
(* has passed and that nobody cancelled.                                     *)
DeletedForCause ==
    \A u \in Users : deleted[u] =>
        \E q \in Requests :
            request[q].user = u /\ request[q].status = "deleted" /\ request[q].overdue

(* However many loops have a request on their list, its completion is        *)
(* announced at most once, and only after the account is marked.             *)
CompletionToldOnce ==
    \A q \in Requests :
        told[q] <= 1 /\ (told[q] = 1 => request[q].status = "deleted" /\ deleted[request[q].user])

(* A deleted request has reached its account, or the one loop that took it    *)
(* is about to mark it, or that loop stopped just there. Nothing looks for   *)
(* the requests of the last kind again.                                      *)
DeletionIsCarriedOut ==
    \A q \in Requests : request[q].status = "deleted" =>
        \/ deleted[request[q].user]
        \/ \E w \in Loops : At(w, "account") /\ loop[w].current = q
        \/ q \in torn

(* After a request is decided each loop sends at most the one reminder its   *)
(* list still names; none is sent for a list read later.                     *)
LateRemindersAreBounded == \A q \in Requests : late[q] <= Cardinality(Loops)

(* A request whose deadline has passed is eventually deleted or cancelled,   *)
(* whatever loop stops while it is on its list.                              *)
DueIsDecided == \A q \in Requests : Pending(q) /\ request[q].overdue ~> ~Pending(q)
===============================================================================
