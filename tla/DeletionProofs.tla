---------------------------- MODULE DeletionProofs ----------------------------
(*****************************************************************************)
(* Theorems about Deletion, for any accounts and requests, any finite number  *)
(* of loops and any number of faults.                                        *)
(*****************************************************************************)
EXTENDS Deletion, FiniteSetTheorems, TLAPS

AtWork(w) == loop[w].at \in {"account", "notify"}

(* What a list names exists, and until the second list is read its deadline  *)
(* has passed.                                                               *)
ListsKnown ==
    \A w \in Loops, q \in Requests : q \in loop[w].due =>
        /\ request[q].status # "absent"
        /\ loop[w].at \in {"delete", "account", "notify"} => request[q].overdue

(* A loop at work on a request has deleted it and not yet announced that, and *)
(* is the only one at work on it.                                            *)
WorkKnown ==
    \A w \in Loops : AtWork(w) =>
        LET q == loop[w].current IN
        /\ request[q].status = "deleted"
        /\ told[q] = 0
        /\ loop[w].at = "notify" => deleted[request[q].user]
AloneAtWork ==
    \A v, w \in Loops : AtWork(v) /\ AtWork(w) /\ loop[v].current = loop[w].current => v = w

DeletedWasDue == \A q \in Requests : request[q].status = "deleted" => request[q].overdue

DeletionInv ==
    /\ TypeOK
    /\ ListsKnown
    /\ WorkKnown
    /\ AloneAtWork
    /\ DeletedWasDue
    /\ DeletedForCause
    /\ CompletionToldOnce
    /\ DeletionIsCarriedOut

LEMMA InitDeletion == Init => DeletionInv
  BY DeletionAssumption
  DEF Init, DeletionInv, TypeOK, Request, Loop, NoRow, Idle, ListsKnown, WorkKnown, AloneAtWork,
      AtWork, DeletedWasDue, DeletedForCause, CompletionToldOnce, DeletionIsCarriedOut

(* The types of the two tables of records.                                   *)
RowsTyped ==
    /\ request \in [Requests -> Request]
    /\ \A q \in Requests : request[q].status # "absent" => request[q].user \in Users
LoopsTyped ==
    /\ loop \in [Loops -> Loop]
    /\ \A w \in Loops : loop[w].at \in {"account", "notify", "record"} => loop[w].current \in Requests

(* A row with one of its fields replaced.                                    *)
LEMMA RowFields ==
    ASSUME NEW r \in Request
    PROVE  /\ [r EXCEPT !.overdue = TRUE] \in Request
           /\ [r EXCEPT !.reminded = TRUE] \in Request
           /\ [r EXCEPT !.reminded = FALSE] \in Request
           /\ [r EXCEPT !.status = "cancelled"] \in Request
           /\ [r EXCEPT !.status = "deleted"] \in Request
           /\ [r EXCEPT !.overdue = TRUE].user = r.user
           /\ [r EXCEPT !.reminded = TRUE].user = r.user
           /\ [r EXCEPT !.reminded = FALSE].user = r.user
           /\ [r EXCEPT !.status = "cancelled"].user = r.user
           /\ [r EXCEPT !.status = "deleted"].user = r.user
           /\ [r EXCEPT !.overdue = TRUE].status = r.status
           /\ [r EXCEPT !.reminded = TRUE].status = r.status
           /\ [r EXCEPT !.reminded = FALSE].status = r.status
  BY DEF Request

LEMMA RowStep ==
    ASSUME RowsTyped, NEW q \in Requests, NEW r \in Request,
           r.status # "absent" => r.user \in Users,
           request' = [request EXCEPT ![q] = r]
    PROVE  RowsTyped'
  BY DEF RowsTyped

LEMMA LoopStep ==
    ASSUME LoopsTyped, NEW w \in Loops, NEW l \in Loop,
           l.at \in {"account", "notify", "record"} => l.current \in Requests,
           loop' = [loop EXCEPT ![w] = l]
    PROVE  LoopsTyped'
  BY DEF LoopsTyped

LEMMA RowsStayTyped == RowsTyped /\ LoopsTyped /\ [Next]_vars => RowsTyped'
<1> SUFFICES ASSUME RowsTyped, LoopsTyped, [Next]_vars PROVE RowsTyped'
  OBVIOUS
<1>1. ASSUME NEW u \in Users, RequestDeletion(u) PROVE RowsTyped'
  <2> DEFINE r == [NoRow EXCEPT !.status = "requested", !.user = u]
  <2>1. PICK q \in Requests : request' = [request EXCEPT ![q] = r]
    BY <1>1 DEF RequestDeletion
  <2>2. r \in Request /\ r.user = u
    BY DEF NoRow, Request
  <2> HIDE DEF r
  <2> QED
    BY <2>1, <2>2, RowStep
<1>2. ASSUME NEW q \in Requests, Cancel(q) PROVE RowsTyped'
  BY <1>2, RowFields, RowStep DEF Cancel, Pending, RowsTyped
<1>3. ASSUME NEW q \in Requests, DeadlinePasses(q) PROVE RowsTyped'
  BY <1>3, RowFields, RowStep DEF DeadlinePasses, RowsTyped
<1>4. ASSUME NEW q \in Requests, ReminderAges(q) PROVE RowsTyped'
  BY <1>4, RowFields, RowStep DEF ReminderAges, RowsTyped
<1>5. ASSUME NEW w \in Loops, Delete(w) PROVE RowsTyped'
  <2>1. PICK q \in loop[w].due :
            IF Pending(q) THEN request' = [request EXCEPT ![q].status = "deleted"]
                          ELSE UNCHANGED request
    BY <1>5 DEF Delete
  <2>2. q \in Requests
    BY <2>1 DEF LoopsTyped, Loop
  <2>3. CASE Pending(q)
    BY <2>1, <2>2, <2>3, RowFields, RowStep DEF Pending, RowsTyped
  <2>4. CASE ~Pending(q)
    BY <2>1, <2>4 DEF RowsTyped
  <2> QED
    BY <2>3, <2>4
<1>6. ASSUME NEW w \in Loops, RecordReminder(w) PROVE RowsTyped'
  <2>1. loop[w].current \in Requests
    BY <1>6 DEF RecordReminder, At, LoopsTyped
  <2> DEFINE q == loop[w].current
             r == [request[q] EXCEPT !.reminded = TRUE]
  <2>2. request' = [request EXCEPT ![q] = r]
    BY <1>6 DEF RecordReminder
  <2> HIDE DEF q
  <2>3. request[q] \in Request /\ (request[q].status # "absent" => request[q].user \in Users)
    BY <2>1 DEF RowsTyped, q
  <2>4. r \in Request /\ r.status = request[q].status /\ r.user = request[q].user
    BY <2>3, RowFields
  <2> HIDE DEF r
  <2> QED
    BY <2>1, <2>2, <2>3, <2>4, RowStep DEF q
<1>7. CASE UNCHANGED request
  BY <1>7 DEF RowsTyped
<1>8. \/ \E u \in Users : RequestDeletion(u)
      \/ \E q \in Requests : Cancel(q) \/ DeadlinePasses(q) \/ ReminderAges(q)
      \/ \E w \in Loops : Delete(w) \/ RecordReminder(w)
      \/ UNCHANGED request
  BY DEF Next, Step, Failed, Tick, MarkAccount, Notify, SelectReminders, Remind, Finish,
         OnlyLoop, vars
<1> QED
  BY <1>1, <1>2, <1>3, <1>4, <1>5, <1>6, <1>7, <1>8

LEMMA LoopsStayTyped == LoopsTyped /\ [Next]_vars => LoopsTyped'
<1> SUFFICES ASSUME LoopsTyped, [Next]_vars PROVE LoopsTyped'
  OBVIOUS
<1>1. ASSUME NEW w \in Loops, Step(w) PROVE LoopsTyped'
  <2>0. loop[w] \in Loop
    BY DEF LoopsTyped
  <2>1. CASE Tick(w)
    <3>1. \A D \in SUBSET Requests, F \in SUBSET Requests :
              [at |-> "delete", due |-> D, fresh |-> F, current |-> NoRequest] \in Loop
      BY DEF Loop
    <3> QED
      BY <2>1, <3>1, LoopStep DEF Tick, Fresh
  <2>2. CASE Delete(w) \/ Remind(w)
    <3>1. PICK q \in loop[w].due, p \in {"delete", "account", "record"} : Takes(w, q, p)
      BY <2>2 DEF Delete, Remind
    <3>2. q \in Requests
      BY <2>0, <3>1 DEF Loop
    <3> DEFINE l == [loop[w] EXCEPT !.at = p, !.due = @ \ {q}, !.current = q]
    <3>3. l \in Loop /\ l.current = q
      BY <2>0, <3>2 DEF Loop
    <3>4. loop' = [loop EXCEPT ![w] = l]
      BY <3>1 DEF Takes
    <3> HIDE DEF l
    <3> QED
      BY <3>2, <3>3, <3>4, LoopStep
  <2>3. CASE MarkAccount(w) \/ Notify(w) \/ RecordReminder(w)
    <3>1. loop[w].current \in Requests
      BY <2>3 DEF MarkAccount, Notify, RecordReminder, At, LoopsTyped
    <3>2. PICK p \in {"notify", "delete", "remind"} : Goto(w, p)
      BY <2>3 DEF MarkAccount, Notify, RecordReminder
    <3> DEFINE l == [loop[w] EXCEPT !.at = p]
    <3>3. l \in Loop /\ l.current = loop[w].current
      BY <2>0 DEF Loop
    <3>4. loop' = [loop EXCEPT ![w] = l]
      BY <3>2 DEF Goto
    <3> HIDE DEF l
    <3> QED
      BY <3>1, <3>3, <3>4, LoopStep
  <2>4. CASE SelectReminders(w)
    <3> DEFINE D == {q \in loop[w].fresh : Pending(q) /\ ~request[q].reminded}
               l == [loop[w] EXCEPT !.at = "remind", !.due = D, !.fresh = {}]
    <3>1. D \in SUBSET Requests
      BY <2>0 DEF Loop
    <3>2. loop' = [loop EXCEPT ![w] = l]
      BY <2>4 DEF SelectReminders
    <3> HIDE DEF D
    <3>3. l \in Loop /\ l.at = "remind"
      BY <2>0, <3>1 DEF Loop
    <3> HIDE DEF l
    <3> QED
      BY <3>2, <3>3, LoopStep
  <2>5. CASE Finish(w)
    <3>1. Idle \in Loop /\ Idle.at = "idle"
      BY DEF Idle, Loop
    <3> QED
      BY <2>5, <3>1, LoopStep DEF Finish
  <2> QED
    BY <1>1, <2>1, <2>2, <2>3, <2>4, <2>5 DEF Step
<1>2. ASSUME NEW w \in Loops, Failed(w) PROVE LoopsTyped'
  <2>1. Idle \in Loop /\ Idle.at = "idle"
    BY DEF Idle, Loop
  <2> QED
    BY <1>2, <2>1, LoopStep DEF Failed
<1>3. CASE UNCHANGED loop
  BY <1>3 DEF LoopsTyped
<1>4. (\E w \in Loops : Step(w) \/ Failed(w)) \/ UNCHANGED loop
  BY DEF Next, RequestDeletion, Cancel, DeadlinePasses, ReminderAges, vars
<1> QED
  BY <1>1, <1>2, <1>3, <1>4

LEMMA TypeKept == TypeOK /\ [Next]_vars => TypeOK'
<1> SUFFICES ASSUME TypeOK, [Next]_vars PROVE TypeOK'
  OBVIOUS
<1>1. RowsTyped /\ LoopsTyped
  BY DEF TypeOK, RowsTyped, LoopsTyped
<1>2. RowsTyped' /\ LoopsTyped'
  BY <1>1, RowsStayTyped, LoopsStayTyped
<1>3. ASSUME NEW w \in Loops, Step(w) \/ Failed(w)
      PROVE  /\ deleted' \in [Users -> BOOLEAN]
             /\ told' \in [Requests -> Nat]
             /\ late' \in [Requests -> Nat]
             /\ torn' \subseteq Requests
             /\ faults' \in 0 .. MaxFaults
  <2>1. loop[w].at \in {"account", "notify", "record"} => loop[w].current \in Requests
    BY DEF TypeOK
  <2>2. CASE MarkAccount(w)
    BY <2>2 DEF MarkAccount, TypeOK
  <2>3. CASE Notify(w)
    BY <2>1, <2>3 DEF Notify, At, TypeOK
  <2>4. CASE Remind(w)
    <3>1. \A q \in loop[w].due : q \in Requests
      BY DEF TypeOK, Loop
    <3> QED
      BY <2>4, <3>1 DEF Remind, TypeOK
  <2>5. CASE Failed(w)
    BY <2>1, <2>5, DeletionAssumption DEF Failed, At, TypeOK
  <2>6. CASE UNCHANGED <<deleted, told, late, torn, faults>>
    BY <2>6 DEF TypeOK
  <2> QED
    BY <1>3, <2>2, <2>3, <2>4, <2>5, <2>6
    DEF Step, Tick, Delete, SelectReminders, RecordReminder, Finish, OnlyLoop
<1>4. (\E w \in Loops : Step(w) \/ Failed(w)) \/ UNCHANGED <<deleted, told, late, torn, faults>>
  BY DEF Next, RequestDeletion, Cancel, DeadlinePasses, ReminderAges, vars
<1> QED
  BY <1>2, <1>3, <1>4 DEF TypeOK, RowsTyped, LoopsTyped

(* A row keeps its user and its passed deadline for ever, and what has been  *)
(* decided stays decided.                                                    *)
RowsKept ==
    \A q \in Requests : request[q].status # "absent" =>
        /\ request'[q].status # "absent"
        /\ request'[q].user = request[q].user
        /\ request[q].overdue => request'[q].overdue
        /\ request[q].status \in {"cancelled", "deleted"} => request'[q].status = request[q].status

LEMMA RowsAreKept == TypeOK /\ [Next]_vars => RowsKept
<1> SUFFICES ASSUME TypeOK, [Next]_vars PROVE RowsKept
  OBVIOUS
<1> USE DEF RowsKept, TypeOK, Request, Loop, Pending
<1>1. ASSUME NEW u \in Users, RequestDeletion(u) PROVE RowsKept
  BY <1>1 DEF RequestDeletion
<1>2. ASSUME NEW q \in Requests, Cancel(q) \/ DeadlinePasses(q) \/ ReminderAges(q) PROVE RowsKept
  <2>1. CASE Cancel(q)
    BY <2>1 DEF Cancel
  <2>2. CASE DeadlinePasses(q)
    BY <2>2 DEF DeadlinePasses
  <2>3. CASE ReminderAges(q)
    BY <2>3 DEF ReminderAges
  <2> QED
    BY <1>2, <2>1, <2>2, <2>3
<1>3. ASSUME NEW w \in Loops, Delete(w) PROVE RowsKept
  <2>1. PICK q \in loop[w].due :
            IF Pending(q) THEN request' = [request EXCEPT ![q].status = "deleted"]
                          ELSE UNCHANGED request
    BY <1>3 DEF Delete
  <2> QED
    BY <2>1
<1>4. ASSUME NEW w \in Loops, RecordReminder(w) PROVE RowsKept
  <2>1. loop[w].current \in Requests
    BY <1>4 DEF RecordReminder, At
  <2>2. \A q \in Requests : /\ request'[q].status = request[q].status
                           /\ request'[q].user = request[q].user
                           /\ request'[q].overdue = request[q].overdue
    BY <1>4, <2>1 DEF RecordReminder
  <2> QED
    BY <2>2
<1>5. CASE UNCHANGED request
  BY <1>5
<1>6. CASE \E q \in Requests : Cancel(q) \/ DeadlinePasses(q) \/ ReminderAges(q)
  BY <1>2, <1>6
<1>7. CASE \E w \in Loops : Delete(w) \/ RecordReminder(w)
  BY <1>3, <1>4, <1>7
<1>8. CASE \E u \in Users : RequestDeletion(u)
  BY <1>1, <1>8
<1> QED
  BY <1>5, <1>6, <1>7, <1>8
  DEF Next, Step, Failed, Tick, MarkAccount, Notify, SelectReminders, Remind, Finish, OnlyLoop, vars

-------------------------------------------------------------------------------
(* What a step may do to the state of loop w.                                *)
Starts(w) ==
    /\ loop[w].at = "idle" /\ loop'[w].at = "delete"
    /\ loop'[w].due = {q \in Requests : Pending(q) /\ request[q].overdue}
TakesOne(w) ==
    \E q \in loop[w].due :
        /\ loop'[w].due = loop[w].due \ {q}
        /\ loop'[w].current = q
        /\ \/ loop[w].at = "delete" /\ loop'[w].at \in {"delete", "account"}
           \/ loop[w].at = "remind" /\ loop'[w].at = "record"
MovesOn(w) ==
    /\ loop'[w].due = loop[w].due
    /\ loop'[w].current = loop[w].current
    /\ \/ loop[w].at = "account" /\ loop'[w].at = "notify"
       \/ loop[w].at = "notify" /\ loop'[w].at = "delete"
       \/ loop[w].at = "record" /\ loop'[w].at = "remind"
Selects(w) ==
    /\ loop[w].at = "delete" /\ loop'[w].at = "remind"
    /\ \A q \in loop'[w].due : q \in Requests /\ Pending(q)
Stops(w) == loop'[w] = Idle

Moves(w) ==
    /\ Starts(w) \/ TakesOne(w) \/ MovesOn(w) \/ Selects(w) \/ Stops(w)
    /\ \A v \in Loops : v # w => loop'[v] = loop[v]

LEMMA OneLoopMoves == TypeOK /\ [Next]_vars => UNCHANGED loop \/ \E w \in Loops : Moves(w)
<1> SUFFICES ASSUME TypeOK, [Next]_vars, ~UNCHANGED loop PROVE \E w \in Loops : Moves(w)
  OBVIOUS
<1>0. PICK w \in Loops : Step(w) \/ Failed(w)
  BY DEF Next, RequestDeletion, Cancel, DeadlinePasses, ReminderAges, vars
<1>t. loop \in [Loops -> Loop]
  BY DEF TypeOK
<1> USE DEF Moves
<1>1. CASE Tick(w)
  BY <1>t, <1>1 DEF Tick, Starts, At
<1>2. CASE Delete(w) \/ Remind(w)
  <2>1. PICK q \in loop[w].due, p \in {"delete", "account", "record"} :
            /\ Takes(w, q, p)
            /\ \/ loop[w].at = "delete" /\ p \in {"delete", "account"}
               \/ loop[w].at = "remind" /\ p = "record"
    BY <1>2 DEF Delete, Remind, At
  <2>2. /\ loop'[w].at = p
        /\ loop'[w].due = loop[w].due \ {q}
        /\ loop'[w].current = q
        /\ \A v \in Loops : v # w => loop'[v] = loop[v]
    BY <1>t, <2>1 DEF Takes, Loop
  <2> QED
    BY <2>1, <2>2 DEF TakesOne
<1>3. CASE MarkAccount(w) \/ Notify(w) \/ RecordReminder(w)
  <2>1. PICK p \in {"notify", "delete", "remind"} :
            /\ Goto(w, p)
            /\ \/ loop[w].at = "account" /\ p = "notify"
               \/ loop[w].at = "notify" /\ p = "delete"
               \/ loop[w].at = "record" /\ p = "remind"
    BY <1>3 DEF MarkAccount, Notify, RecordReminder, At
  <2>2. /\ loop'[w].at = p
        /\ loop'[w].due = loop[w].due
        /\ loop'[w].current = loop[w].current
        /\ \A v \in Loops : v # w => loop'[v] = loop[v]
    BY <1>t, <2>1 DEF Goto, Loop
  <2> QED
    BY <2>1, <2>2 DEF MovesOn
<1>4. CASE SelectReminders(w)
  <2> DEFINE D == {q \in loop[w].fresh : Pending(q) /\ ~request[q].reminded}
  <2>1. loop' = [loop EXCEPT ![w].at = "remind", ![w].due = D, ![w].fresh = {}]
    BY <1>4 DEF SelectReminders
  <2>2. loop[w].at = "delete"
    BY <1>4 DEF SelectReminders, At
  <2>3. \A q \in D : q \in Requests /\ Pending(q)
    BY <1>t DEF Loop
  <2> HIDE DEF D
  <2>4. /\ loop'[w].at = "remind"
        /\ loop'[w].due = D
        /\ \A v \in Loops : v # w => loop'[v] = loop[v]
    BY <1>t, <2>1 DEF Loop
  <2> QED
    BY <2>2, <2>3, <2>4 DEF Selects
<1>5. CASE Finish(w) \/ Failed(w)
  BY <1>t, <1>5 DEF Finish, Failed, Stops
<1> QED
  BY <1>0, <1>1, <1>2, <1>3, <1>4, <1>5 DEF Step

-------------------------------------------------------------------------------
(* One lemma per conjunct of the invariant.                                  *)

LEMMA ListsStayKnown ==
    ASSUME DeletionInv, [Next]_vars, TypeOK', RowsKept PROVE ListsKnown'
<1>1. ASSUME NEW w \in Loops, NEW q \in Requests, q \in loop'[w].due
      PROVE  /\ request[q].status # "absent"
             /\ loop'[w].at \in {"delete", "account", "notify"} => request[q].overdue
  <2>1. CASE loop'[w] = loop[w]
    BY <1>1, <2>1 DEF DeletionInv, ListsKnown
  <2>2. CASE Starts(w) \/ TakesOne(w) \/ MovesOn(w) \/ Selects(w) \/ Stops(w)
    BY <1>1, <2>2
    DEF DeletionInv, ListsKnown, Starts, TakesOne, MovesOn, Selects, Stops, Idle, Pending
  <2> QED
    BY <2>1, <2>2, OneLoopMoves DEF Moves, DeletionInv
<1> QED
  BY <1>1 DEF ListsKnown, RowsKept

LEMMA DeletedStaysDue ==
    ASSUME DeletionInv, [Next]_vars, TypeOK', RowsKept PROVE DeletedWasDue'
<1>1. ASSUME NEW q \in Requests, request'[q].status = "deleted", request[q].status # "deleted"
      PROVE  request[q].overdue /\ request[q].status # "absent"
  <2>1. PICK w \in Loops : Delete(w)
    <3>1. ASSUME NEW p \in Requests, Cancel(p) \/ DeadlinePasses(p) \/ ReminderAges(p)
          PROVE  request'[q].status # "deleted" \/ request[q].status = "deleted"
      BY <3>1 DEF Cancel, DeadlinePasses, ReminderAges, DeletionInv, TypeOK, Request
    <3>2. ASSUME NEW u \in Users, RequestDeletion(u)
          PROVE  request'[q].status # "deleted" \/ request[q].status = "deleted"
      BY <3>2 DEF RequestDeletion, NoRow, DeletionInv, TypeOK, Request
    <3>3. ASSUME NEW w \in Loops, RecordReminder(w)
          PROVE  request'[q].status # "deleted" \/ request[q].status = "deleted"
      BY <3>3 DEF RecordReminder, DeletionInv, TypeOK, Request
    <3> QED
      BY <1>1, <3>1, <3>2, <3>3
      DEF Next, Step, Failed, Tick, MarkAccount, Notify, SelectReminders, Remind, Finish,
          OnlyLoop, vars
  <2>2. PICK p \in loop[w].due :
            IF Pending(p) THEN request' = [request EXCEPT ![p].status = "deleted"]
                          ELSE UNCHANGED request
    BY <2>1 DEF Delete
  <2>3. p = q /\ Pending(q)
    BY <1>1, <2>2 DEF DeletionInv, TypeOK, Request
  <2>4. loop[w].at = "delete"
    BY <2>1 DEF Delete, At
  <2> QED
    BY <2>2, <2>3, <2>4 DEF DeletionInv, ListsKnown, Pending
<1> QED
  BY <1>1 DEF DeletedWasDue, RowsKept, DeletionInv

(* The conjuncts that relate loops, requests and accounts.                   *)
Agreement ==
    WorkKnown /\ AloneAtWork /\ DeletedForCause /\ CompletionToldOnce /\ DeletionIsCarriedOut

(* A step that deletes nothing, marks nothing and announces nothing, in which *)
(* a loop about to mark an account stays there or is recorded as torn.       *)
LEMMA QuietStep ==
    ASSUME DeletionInv, RowsKept, TypeOK', UNCHANGED <<deleted, told>>, torn \subseteq torn',
           \A q \in Requests : request'[q].status = "deleted" => request[q].status = "deleted",
           \A w \in Loops : AtWork(w)' => loop'[w] = loop[w],
           \A w \in Loops : loop[w].at = "account" =>
               loop'[w] = loop[w] \/ loop[w].current \in torn'
    PROVE  Agreement'
<1> USE DEF DeletionInv, TypeOK, RowsKept
<1>1. WorkKnown'
  BY DEF WorkKnown, AtWork
<1>2. AloneAtWork'
  BY DEF AloneAtWork, AtWork
<1>3. DeletedForCause'
  BY DEF DeletedForCause
<1>4. CompletionToldOnce'
  BY DEF CompletionToldOnce
<1>5. DeletionIsCarriedOut'
  BY DEF DeletionIsCarriedOut, At
<1> QED
  BY <1>1, <1>2, <1>3, <1>4, <1>5 DEF Agreement

LEMMA DeleteStep ==
    ASSUME DeletionInv, RowsKept, TypeOK', NEW w \in Loops, Delete(w)
    PROVE  Agreement'
<1>1. PICK q \in loop[w].due :
          IF Pending(q)
          THEN /\ request' = [request EXCEPT ![q].status = "deleted"]
               /\ Takes(w, q, "account")
          ELSE Takes(w, q, "delete") /\ UNCHANGED request
  BY DEF Delete
<1>2. UNCHANGED <<deleted, told, late, torn, faults>>
  BY DEF Delete
<1>3. q \in Requests /\ loop[w] \in Loop /\ loop[w].at = "delete"
  BY <1>1 DEF Delete, At, DeletionInv, TypeOK, Loop
<1>4. \A v \in Loops : v # w => loop'[v] = loop[v]
  BY <1>1 DEF Takes, DeletionInv, TypeOK
<1>5. CASE ~Pending(q)
  <2>1. loop'[w].at = "delete"
    BY <1>1, <1>3, <1>5 DEF Takes, DeletionInv, TypeOK, Loop
  <2> QED
    BY <1>1, <1>2, <1>3, <1>4, <1>5, <2>1, QuietStep DEF AtWork
<1>6. CASE Pending(q)
  <2>3. told[q] = 0 /\ request[q].status = "requested"
    <3>1. request[q].status = "requested"
      BY <1>6 DEF Pending
    <3>2. told[q] \in Nat
      BY <1>3 DEF DeletionInv, TypeOK
    <3>3. told[q] <= 1 /\ told[q] # 1
      BY <1>3, <3>1 DEF DeletionInv, CompletionToldOnce
    <3> QED
      BY <3>1, <3>2, <3>3
  <2> USE DEF DeletionInv, TypeOK, RowsKept
  <2>1. loop'[w].at = "account" /\ loop'[w].current = q
    BY <1>1, <1>3, <1>6 DEF Takes, Loop
  <2>2. /\ request'[q].status = "deleted" /\ request'[q].user = request[q].user
        /\ \A p \in Requests : p # q => request'[p] = request[p]
    BY <1>1, <1>3, <1>6 DEF Request
  <2>4. \A v \in Loops : AtWork(v) => loop[v].current # q
    BY <2>3 DEF WorkKnown
  <2>5. ~AtWork(w)
    BY <1>3 DEF AtWork
  <2>6. WorkKnown'
    BY <1>2, <1>3, <1>4, <2>1, <2>2, <2>3 DEF WorkKnown, AtWork
  <2>7. AloneAtWork'
    BY <1>4, <2>1, <2>4, <2>5 DEF AloneAtWork, AtWork
  <2>8. DeletedForCause'
    BY <1>2 DEF DeletedForCause
  <2>9. CompletionToldOnce'
    BY <1>2, <1>3, <2>2, <2>3 DEF CompletionToldOnce
  <2>10. DeletionIsCarriedOut'
    <3>1. ASSUME NEW p \in Requests, request'[p].status = "deleted", p # q
          PROVE  \/ deleted'[request'[p].user]
                 \/ \E v \in Loops : At(v, "account")' /\ loop'[v].current = p
                 \/ p \in torn'
      <4>1. request[p].status = "deleted" /\ request'[p].user = request[p].user
        BY <2>2, <3>1
      <4> QED
        BY <1>2, <1>3, <1>4, <3>1, <4>1 DEF DeletionIsCarriedOut, At
    <3> QED
      BY <2>1, <3>1 DEF DeletionIsCarriedOut, At
  <2> QED
    BY <2>6, <2>7, <2>8, <2>9, <2>10 DEF Agreement
<1> QED
  BY <1>5, <1>6

LEMMA MarkAccountStep ==
    ASSUME DeletionInv, RowsKept, TypeOK', NEW w \in Loops, MarkAccount(w)
    PROVE  Agreement'
<1> DEFINE q == loop[w].current
           u == request[q].user
<1>1. /\ loop[w] \in Loop /\ loop[w].at = "account" /\ q \in Requests /\ u \in Users
      /\ request[q].status = "deleted" /\ request[q].overdue
  BY DEF MarkAccount, At, DeletionInv, TypeOK, WorkKnown, AtWork, DeletedWasDue
<1>2. /\ deleted' = [deleted EXCEPT ![u] = TRUE]
      /\ UNCHANGED <<request, told, late, torn>>
  BY DEF MarkAccount
<1>3. /\ loop'[w].at = "notify" /\ loop'[w].current = q
      /\ \A v \in Loops : v # w => loop'[v] = loop[v]
  BY <1>1 DEF MarkAccount, Goto, DeletionInv, TypeOK, Loop
<1>4. AtWork(w)
  BY <1>1 DEF AtWork
<1>5. \A x \in Users : deleted'[x] <=> (deleted[x] \/ x = u)
  BY <1>1, <1>2 DEF DeletionInv, TypeOK
<1> HIDE DEF q, u
<1> USE DEF DeletionInv, TypeOK
<1>u. u = request[q].user /\ q = loop[w].current
  BY DEF u, q
<1>6. WorkKnown'
  BY <1>1, <1>2, <1>3, <1>4, <1>5, <1>u DEF WorkKnown, AtWork
<1>7. AloneAtWork'
  BY <1>3, <1>4, <1>u DEF AloneAtWork, AtWork
<1>8. DeletedForCause'
  BY <1>1, <1>2, <1>5, <1>u DEF DeletedForCause
<1>9. CompletionToldOnce'
  BY <1>2, <1>5 DEF CompletionToldOnce
<1>10. DeletionIsCarriedOut'
  <2>1. ASSUME NEW p \in Requests, request[p].status = "deleted"
        PROVE  \/ deleted'[request[p].user]
               \/ \E v \in Loops : At(v, "account")' /\ loop'[v].current = p
               \/ p \in torn
    <3>1. request[p].user \in Users
      BY <2>1
    <3>2. CASE deleted[request[p].user] \/ p \in torn
      BY <1>5, <3>1, <3>2
    <3>3. CASE \E v \in Loops : At(v, "account") /\ loop[v].current = p
      BY <1>3, <1>5, <1>u, <3>1, <3>3 DEF At
    <3> QED
      BY <2>1, <3>2, <3>3 DEF DeletionIsCarriedOut
  <2> QED
    BY <1>2, <2>1 DEF DeletionIsCarriedOut
<1> QED
  BY <1>6, <1>7, <1>8, <1>9, <1>10 DEF Agreement

LEMMA NotifyStep ==
    ASSUME DeletionInv, RowsKept, TypeOK', NEW w \in Loops, Notify(w)
    PROVE  Agreement'
<1> DEFINE q == loop[w].current
<1>1. /\ loop[w] \in Loop /\ loop[w].at = "notify" /\ q \in Requests
      /\ request[q].status = "deleted" /\ told[q] = 0 /\ deleted[request[q].user]
  BY DEF Notify, At, DeletionInv, TypeOK, WorkKnown, AtWork
<1>2. /\ told' = [told EXCEPT ![q] = @ + 1]
      /\ UNCHANGED <<request, deleted, late, torn>>
  BY DEF Notify
<1>3. /\ loop'[w].at = "delete"
      /\ \A v \in Loops : v # w => loop'[v] = loop[v]
  BY <1>1 DEF Notify, Goto, DeletionInv, TypeOK, Loop
<1>4. AtWork(w)
  BY <1>1 DEF AtWork
<1>5. told'[q] = 1 /\ \A p \in Requests : p # q => told'[p] = told[p]
  BY <1>1, <1>2 DEF DeletionInv, TypeOK
<1> HIDE DEF q
<1> USE DEF DeletionInv, TypeOK
<1>u. q = loop[w].current
  BY DEF q
<1>6. WorkKnown'
  <2>1. ASSUME NEW v \in Loops, AtWork(v)'
        PROVE  v # w /\ AtWork(v) /\ loop[v].current # q /\ loop'[v] = loop[v]
                 /\ loop[v].current \in Requests
    BY <1>3, <1>4, <1>u, <2>1 DEF AtWork, AloneAtWork
  <2> QED
    BY <1>2, <1>5, <2>1 DEF WorkKnown
<1>7. AloneAtWork'
  BY <1>3 DEF AloneAtWork, AtWork
<1>8. DeletedForCause'
  BY <1>2 DEF DeletedForCause
<1>9. CompletionToldOnce'
  BY <1>1, <1>2, <1>5 DEF CompletionToldOnce
<1>10. DeletionIsCarriedOut'
  BY <1>1, <1>2, <1>3 DEF DeletionIsCarriedOut, At
<1> QED
  BY <1>6, <1>7, <1>8, <1>9, <1>10 DEF Agreement

LEMMA AgreementKept ==
    ASSUME DeletionInv, [Next]_vars, TypeOK', RowsKept PROVE Agreement'
<1>1. ASSUME NEW w \in Loops, Step(w) \/ Failed(w), ~Delete(w), ~MarkAccount(w), ~Notify(w)
      PROVE  Agreement'
  <2>1. UNCHANGED <<deleted, told>> /\ torn \subseteq torn'
    BY <1>1 DEF Step, Failed, Tick, SelectReminders, Remind, RecordReminder, Finish, OnlyLoop
  <2>2. \A q \in Requests : request'[q].status = "deleted" => request[q].status = "deleted"
    <3>1. CASE RecordReminder(w)
      BY <3>1 DEF RecordReminder, DeletionInv, TypeOK, Request
    <3>2. CASE UNCHANGED request
      BY <3>2
    <3> QED
      BY <1>1, <3>1, <3>2 DEF Step, Failed, Tick, SelectReminders, Remind, Finish, OnlyLoop
  <2>3. \A v \in Loops : AtWork(v)' => loop'[v] = loop[v]
    <3>0. loop \in [Loops -> Loop]
      BY DEF DeletionInv, TypeOK
    <3>1. CASE Tick(w)
      BY <3>0, <3>1 DEF Tick, AtWork
    <3>2. CASE SelectReminders(w)
      <4>1. loop'[w].at = "remind" /\ \A v \in Loops : v # w => loop'[v] = loop[v]
        BY <3>0, <3>2 DEF SelectReminders, Loop
      <4> QED
        BY <4>1 DEF AtWork
    <3>3. CASE Remind(w)
      <4>1. loop'[w].at = "record" /\ \A v \in Loops : v # w => loop'[v] = loop[v]
        BY <3>0, <3>3 DEF Remind, Takes, Loop
      <4> QED
        BY <4>1 DEF AtWork
    <3>4. CASE RecordReminder(w)
      BY <3>0, <3>4 DEF RecordReminder, Goto, AtWork, Loop
    <3>5. CASE Finish(w) \/ Failed(w)
      BY <3>0, <3>5 DEF Finish, Failed, Idle, AtWork
    <3> QED
      BY <1>1, <3>1, <3>2, <3>3, <3>4, <3>5 DEF Step
  <2>4. \A v \in Loops : loop[v].at = "account" =>
            loop'[v] = loop[v] \/ loop[v].current \in torn'
    BY <1>1 DEF Step, Failed, Tick, SelectReminders, Remind, RecordReminder, Finish, Takes, Goto,
                At, DeletionInv, TypeOK
  <2> QED
    BY <2>1, <2>2, <2>3, <2>4, QuietStep
<1>2. CASE /\ UNCHANGED <<deleted, told, torn, loop>>
           /\ \/ \E u \in Users : RequestDeletion(u)
              \/ \E q \in Requests : Cancel(q) \/ DeadlinePasses(q) \/ ReminderAges(q)
              \/ UNCHANGED request
  <2>1. \A q \in Requests : request'[q].status = "deleted" => request[q].status = "deleted"
    <3>1. CASE \E u \in Users : RequestDeletion(u)
      BY <3>1 DEF RequestDeletion, NoRow, DeletionInv, TypeOK, Request
    <3>2. CASE \E q \in Requests : Cancel(q) \/ DeadlinePasses(q) \/ ReminderAges(q)
      BY <3>2 DEF Cancel, DeadlinePasses, ReminderAges, DeletionInv, TypeOK, Request
    <3> QED
      BY <1>2, <3>1, <3>2
  <2> QED
    BY <1>2, <2>1, QuietStep DEF AtWork
<1> QED
  BY <1>1, <1>2, DeleteStep, MarkAccountStep, NotifyStep
  DEF Next, Step, RequestDeletion, Cancel, DeadlinePasses, ReminderAges, vars

THEOREM DeletionInvariant == Spec => []DeletionInv
<1>1. Init => DeletionInv
  BY InitDeletion
<1>2. DeletionInv /\ [Next]_vars => DeletionInv'
  <2> SUFFICES ASSUME DeletionInv, [Next]_vars PROVE DeletionInv'
    OBVIOUS
  <2>1. TypeOK' /\ RowsKept
    BY TypeKept, RowsAreKept DEF DeletionInv
  <2>2. ListsKnown' /\ DeletedWasDue' /\ Agreement'
    BY <2>1, ListsStayKnown, DeletedStaysDue, AgreementKept
  <2> QED
    BY <2>1, <2>2 DEF DeletionInv, Agreement
<1> QED
  BY <1>1, <1>2, PTL DEF Spec

(* Tables, lists and counters keep their types: deletion_lifecycle.rs.       *)
THEOREM DeletionTypeCorrect == Spec => []TypeOK
  BY DeletionInvariant, PTL DEF DeletionInv

(* No account is marked deleted but for an overdue, uncancelled request of   *)
(* its own.                                                                  *)
THEOREM AccountsAreDeletedForCause == Spec => []DeletedForCause
  BY DeletionInvariant, PTL DEF DeletionInv

(* Any number of loops announces a deletion at most once.                    *)
THEOREM CompletionsAreToldOnce == Spec => []CompletionToldOnce
  BY DeletionInvariant, PTL DEF DeletionInv

(* A deleted request's account is marked unless its loop stopped before it.  *)
THEOREM DeletionsAreCarriedOut == Spec => []DeletionIsCarriedOut
  BY DeletionInvariant, PTL DEF DeletionInv

(* Cancelled requests are never processed and deleted ones never revived.    *)
THEOREM DecisionsAreFinal == Spec => DecidedIsFinal
<1>1. TypeOK /\ [Next]_vars =>
          [\A q \in Requests :
              request[q].status \in {"cancelled", "deleted"} =>
                  request'[q].status = request[q].status]_vars
  BY RowsAreKept DEF RowsKept
<1> QED
  BY <1>1, DeletionTypeCorrect, PTL DEF Spec, DecidedIsFinal

-------------------------------------------------------------------------------
(* Late reminders. The loops that may still remind a request without reading *)
(* a new list:                                                               *)
MayRemind(q) == {w \in Loops : loop[w].at \in {"remind", "record"} /\ q \in loop[w].due}

LateCounted ==
    \A q \in Requests :
        IF request[q].status \in {"cancelled", "deleted"}
        THEN late[q] + Cardinality(MayRemind(q)) <= Cardinality(Loops)
        ELSE late[q] = 0

LEMMA RemindersCounted ==
    ASSUME NEW q
    PROVE  /\ IsFiniteSet(MayRemind(q))
           /\ Cardinality(MayRemind(q)) \in Nat /\ Cardinality(Loops) \in Nat
           /\ Cardinality(MayRemind(q)) <= Cardinality(Loops)
<1>1. MayRemind(q) \subseteq Loops /\ IsFiniteSet(Loops)
  BY DeletionAssumption DEF MayRemind
<1> QED
  BY <1>1, FS_Subset, FS_CardinalityType

LEMMA LateStaysCounted ==
    ASSUME DeletionInv, LateCounted, [Next]_vars, DeletionInv', RowsKept PROVE LateCounted'
<1> SUFFICES ASSUME NEW q \in Requests
             PROVE  IF request'[q].status \in {"cancelled", "deleted"}
                    THEN late'[q] + Cardinality(MayRemind(q)') <= Cardinality(Loops)
                    ELSE late'[q] = 0
  BY DEF LateCounted
<1> DEFINE decided == request[q].status \in {"cancelled", "deleted"}
           decided1 == request'[q].status \in {"cancelled", "deleted"}
<1>1. decided => decided1
  BY DEF RowsKept
<1>2. late \in [Requests -> Nat] /\ late' \in [Requests -> Nat]
  BY DEF DeletionInv, TypeOK
<1>3. IsFiniteSet(MayRemind(q)) /\ Cardinality(MayRemind(q)) \in Nat /\ Cardinality(Loops) \in Nat
  BY RemindersCounted
<1>4. Cardinality(MayRemind(q)') \in Nat /\ Cardinality(MayRemind(q)') <= Cardinality(Loops)
  <2>1. MayRemind(q)' \subseteq Loops /\ IsFiniteSet(Loops)
    BY DeletionAssumption DEF MayRemind
  <2> QED
    BY <2>1, FS_Subset, FS_CardinalityType
<1>5. decided => MayRemind(q)' \subseteq MayRemind(q)
  <2>1. ASSUME decided, NEW w \in MayRemind(q)' PROVE w \in MayRemind(q)
    <3>1. w \in Loops /\ loop'[w].at \in {"remind", "record"} /\ q \in loop'[w].due
      BY <2>1 DEF MayRemind
    <3>2. CASE loop'[w] = loop[w]
      BY <3>1, <3>2 DEF MayRemind
    <3>3. CASE Starts(w) \/ TakesOne(w) \/ MovesOn(w) \/ Selects(w) \/ Stops(w)
      BY <2>1, <3>1, <3>3
      DEF MayRemind, Starts, TakesOne, MovesOn, Selects, Stops, Idle, Pending
    <3> QED
      BY <3>1, <3>2, <3>3, OneLoopMoves DEF Moves, DeletionInv
  <2> QED
    BY <2>1
<1>6. CASE late'[q] = late[q]
  <2>1. CASE decided
    <3>1. Cardinality(MayRemind(q)') <= Cardinality(MayRemind(q))
      BY <1>3, <1>5, <2>1, FS_Subset
    <3> QED
      BY <1>1, <1>2, <1>3, <1>4, <1>6, <2>1, <3>1 DEF LateCounted
  <2>2. CASE ~decided
    BY <1>2, <1>4, <1>6, <2>2 DEF LateCounted
  <2> QED
    BY <2>1, <2>2
<1>7. CASE late'[q] # late[q]
  <2>1. PICK w \in Loops : Remind(w)
    BY <1>7 DEF Next, Step, RequestDeletion, Cancel, DeadlinePasses, ReminderAges, Failed, Tick,
                Delete, MarkAccount, Notify, SelectReminders, RecordReminder, Finish, OnlyLoop, vars
  <2>2. PICK p \in loop[w].due :
            /\ late' = IF Pending(p) THEN late ELSE [late EXCEPT ![p] = @ + 1]
            /\ Takes(w, p, "record")
    BY <2>1 DEF Remind
  <2>3. p = q /\ ~Pending(q) /\ late'[q] = late[q] + 1
    BY <1>2, <1>7, <2>2
  <2>4. request[q].status \in {"absent", "requested", "cancelled", "deleted"}
    BY DEF DeletionInv, TypeOK, Request
  <2>5. decided /\ UNCHANGED request
    BY <2>1, <2>2, <2>3, <2>4 DEF DeletionInv, ListsKnown, Pending, Remind
  <2>6. w \in MayRemind(q)
    BY <2>1, <2>2, <2>3 DEF MayRemind, Remind, At
  <2>7. w \notin MayRemind(q)'
    BY <2>2, <2>3 DEF MayRemind, Takes, DeletionInv, TypeOK, Loop
  <2>8. MayRemind(q)' \subseteq MayRemind(q) \ {w}
    BY <1>5, <2>5, <2>7
  <2>9. /\ IsFiniteSet(MayRemind(q) \ {w})
        /\ Cardinality(MayRemind(q) \ {w}) = Cardinality(MayRemind(q)) - 1
    BY <1>3, <2>6, FS_RemoveElement
  <2>10. Cardinality(MayRemind(q)') <= Cardinality(MayRemind(q)) - 1
    BY <2>8, <2>9, FS_Subset
  <2>11. late[q] + Cardinality(MayRemind(q)) <= Cardinality(Loops)
    BY <2>5 DEF LateCounted
  <2> QED
    BY <1>2, <1>3, <1>4, <2>3, <2>5, <2>10, <2>11
<1> QED
  BY <1>6, <1>7

(* A decided request is reminded at most once more by each loop.             *)
THEOREM LateRemindersAreFew == Spec => []LateRemindersAreBounded
<1>1. Init => LateCounted
  BY DEF Init, LateCounted, NoRow
<1>2. DeletionInv /\ LateCounted /\ [Next]_vars /\ DeletionInv' => LateCounted'
  BY LateStaysCounted, RowsAreKept DEF DeletionInv
<1>3. DeletionInv /\ LateCounted => LateRemindersAreBounded
  <2> SUFFICES ASSUME DeletionInv, LateCounted, NEW q \in Requests
               PROVE  late[q] <= Cardinality(Loops)
    BY DEF LateRemindersAreBounded
  <2>1. late[q] \in Nat
    BY DEF DeletionInv, TypeOK
  <2> QED
    BY <2>1, RemindersCounted DEF LateCounted
<1> QED
  BY <1>1, <1>2, <1>3, DeletionInvariant, PTL DEF Spec
===============================================================================
