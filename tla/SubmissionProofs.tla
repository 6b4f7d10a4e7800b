---------------------------- MODULE SubmissionProofs ----------------------------
(*****************************************************************************)
(* Theorems about Submission, for any users, deliveries, bodies, handlers and *)
(* cap, and any finite number of jobs.                                       *)
(*****************************************************************************)
EXTENDS Submission, FiniteSetTheorems, TLAPS

(* The live jobs of a user that the gate let in.                             *)
Admitted(u) == {j \in LiveOf(u) : ~job[j].revived}

(* What a handler x, the state of h, knows at each point about the tables:    *)
(* the delivery it works on is recorded with its own bytes; before the insert *)
(* it alone may add a job of its user, and has counted fewer than the cap;    *)
(* after it, the job of its delivery exists.                                 *)
Knows(h, x) ==
    /\ x.at \in {"replay", "event", "authorize", "existing", "refetch", "mark"}
          => x.delivery \in Deliveries
    /\ x.at \notin {"idle", "replay"} /\ x.delivery \in Deliveries
          => /\ x.payload \in Payloads
             /\ delivery[x.delivery].payload = x.payload
             /\ delivery[x.delivery].outcome # "unseen"
    /\ x.at = "replay" => x.payload \in Payloads /\ delivery[x.delivery].outcome # "unseen"
    /\ x.at \in {"authorize", "existing", "lock", "count", "insert", "refetch"}
          /\ x.delivery \in Deliveries => x.payload.event = "push"
    /\ x.delivery = NoDelivery => x.payload = NoPayload
    /\ x.at \in {"authorize", "existing", "lock", "count", "insert"} => x.user \in Users
    /\ x.at \in {"count", "insert"} => lock[x.user] = h
    /\ x.at = "insert" => Cardinality(Admitted(x.user)) < MaxActive
    /\ x.at = "refetch" => JobsOf(x.delivery) # {}
    /\ x.at = "mark" /\ x.payload.event = "push" /\ x.outcome = "processed"
          => x.job \in JobsOf(x.delivery)

(* The rows: what has no status has no delivery, a delivery names one job and *)
(* has been recorded, and only what has been recorded has bytes.             *)
TablesOK ==
    /\ \A j \in Jobs : job[j].status = "absent" => job[j].delivery = NoDelivery
    /\ \A j \in Jobs : job[j].delivery # NoDelivery => delivery[job[j].delivery].outcome # "unseen"
    /\ \A i, j \in Jobs : job[i].delivery = job[j].delivery /\ job[i].delivery # NoDelivery => i = j

SubmissionInv ==
    /\ TypeOK
    /\ TablesOK
    /\ AdmittedWithinCap
    /\ ProcessedHasItsJob
    /\ JobIsOfTheRecordedPayload
    /\ \A h \in Handlers : Knows(h, req[h])

(* The sets counted are subsets of the finite set of jobs.                   *)
LEMMA CountedSetsAreFinite ==
    ASSUME NEW u PROVE IsFiniteSet(Admitted(u)) /\ Cardinality(Admitted(u)) \in Nat
<1>1. Admitted(u) \subseteq Jobs
  BY DEF Admitted, LiveOf
<1>2. IsFiniteSet(Jobs)
  BY SubmissionAssumption
<1> QED
  BY <1>1, <1>2, FS_Subset, FS_CardinalityType

(* What a handler knows survives steps of others that only close deliveries,  *)
(* add jobs, leave its locks alone and admit nothing it has not counted.     *)
LEMMA KnowledgeIsKept ==
    ASSUME NEW g \in Handlers, NEW x \in Handler, Knows(g, x),
           \A d \in Deliveries : delivery[d].outcome # "unseen" =>
               delivery'[d].outcome # "unseen" /\ delivery'[d].payload = delivery[d].payload,
           \A d \in Deliveries : JobsOf(d) \subseteq JobsOf(d)',
           \A u \in Users : lock[u] = g => lock'[u] = g,
           x.at = "insert" => Cardinality(Admitted(x.user))' < MaxActive
    PROVE  Knows(g, x)'
<1>1. x.job \in JobsOf(x.delivery) /\ x.delivery \in Deliveries => x.job \in JobsOf(x.delivery)'
  OBVIOUS
<1>2. JobsOf(x.delivery) # {} /\ x.delivery \in Deliveries => (JobsOf(x.delivery) # {})'
  OBVIOUS
<1> QED
  BY <1>1, <1>2 DEF Knows

(* A step of handler h that writes neither jobs nor deliveries and takes or   *)
(* gives back no lock of another handler.                                    *)
LEMMA HandlerOnlyStep ==
    ASSUME SubmissionInv, NEW h \in Handlers, NEW x \in Handler,
           UNCHANGED <<job, delivery>>,
           installation' \in [Installations -> Installation],
           \A i \in Installations : installation'[i].owner = NoUser => ~installation'[i].suspended,
           lock' \in [Users -> Handlers \cup {NoHandler}],
           \A u \in Users, g \in Handlers \ {h} : lock[u] = g => lock'[u] = g,
           req' = [req EXCEPT ![h] = x], Knows(h, x)'
    PROVE  SubmissionInv'
<1>1. /\ req' \in [Handlers -> Handler]
      /\ req'[h] = x
      /\ \A g \in Handlers \ {h} : req'[g] = req[g]
  BY DEF SubmissionInv, TypeOK
<1>2. TypeOK'
  BY <1>1 DEF SubmissionInv, TypeOK
<1>3. TablesOK' /\ AdmittedWithinCap' /\ ProcessedHasItsJob' /\ JobIsOfTheRecordedPayload'
  BY DEF SubmissionInv, TablesOK, AdmittedWithinCap, ProcessedHasItsJob,
         JobIsOfTheRecordedPayload, LiveOf, JobsOf
<1>4. ASSUME NEW g \in Handlers PROVE Knows(g, req[g])'
  <2>1. CASE g = h
    BY <2>1, <1>1
  <2>2. CASE g # h
    <3>1. req'[g] = req[g] /\ Knows(g, req[g]) /\ req[g] \in Handler
      BY <2>2, <1>1 DEF SubmissionInv, TypeOK
    <3>2. \A u \in Users : lock[u] = g => lock'[u] = g
      BY <2>2
    <3>3. \A d : JobsOf(d)' = JobsOf(d)
      BY DEF JobsOf
    <3>4. Cardinality(Admitted(req[g].user))' = Cardinality(Admitted(req[g].user))
      BY <3>1 DEF Admitted, LiveOf
    <3>5. req[g].at = "insert" => Cardinality(Admitted(req[g].user))' < MaxActive
      BY <3>1, <3>4 DEF Knows
    <3>6. Knows(g, req[g]) => (\A y : y = req[g] => Knows(g, y)')
      BY <3>1, <3>2, <3>3, <3>5, KnowledgeIsKept
    <3> QED
      BY <3>1, <3>6
  <2> QED
    BY <2>1, <2>2
<1> QED
  BY <1>2, <1>3, <1>4 DEF SubmissionInv

(* An idle handler knows nothing.                                            *)
LEMMA IdleKnows == ASSUME NEW h \in Handlers PROVE Idle \in Handler /\ Knows(h, Idle) /\ Knows(h, Idle)'
<1>1. Idle \in Handler
  BY DEF Idle, Handler, Points
<1>2. Idle.delivery \notin Deliveries
  BY SubmissionAssumption DEF Idle
<1> QED
  BY <1>1, <1>2 DEF Idle, Knows

(* The end of a handler's transaction takes nobody else's lock.              *)
LEMMA ReleaseKeepsOthers ==
    ASSUME SubmissionInv, NEW h \in Handlers, Release(h)
    PROVE  /\ lock' \in [Users -> Handlers \cup {NoHandler}]
           /\ \A u \in Users, g \in Handlers \ {h} : lock[u] = g => lock'[u] = g
BY DEF SubmissionInv, TypeOK, Release

(* A handler that answers or dies, with or without a transaction to end.     *)
LEMMA FinishStep ==
    ASSUME SubmissionInv, NEW h \in Handlers, Finish(h), UNCHANGED <<job, delivery, installation>>,
           Release(h) \/ UNCHANGED lock
    PROVE  SubmissionInv'
<1>1. lock' \in [Users -> Handlers \cup {NoHandler}]
  BY ReleaseKeepsOthers DEF SubmissionInv, TypeOK
<1>2. \A u \in Users, g \in Handlers \ {h} : lock[u] = g => lock'[u] = g
  BY ReleaseKeepsOthers
<1>3. installation' \in [Installations -> Installation]
  BY DEF SubmissionInv, TypeOK
<1>4. \A i \in Installations : installation'[i].owner = NoUser => ~installation'[i].suspended
  BY DEF SubmissionInv, TypeOK
<1> QED
  BY <1>1, <1>2, <1>3, <1>4, IdleKnows, HandlerOnlyStep DEF Finish

(* A handler that only moves on to a point whose knowledge it has.           *)
LEMMA GotoStep ==
    ASSUME SubmissionInv, NEW h \in Handlers, NEW p \in Points, Goto(h, p),
           UNCHANGED <<job, delivery, installation>>,
           lock' \in [Users -> Handlers \cup {NoHandler}],
           \A u \in Users, g \in Handlers \ {h} : lock[u] = g => lock'[u] = g,
           \A x \in Handler : x = [req[h] EXCEPT !.at = p] => Knows(h, x)'
    PROVE  SubmissionInv'
<1>1. req[h] \in Handler
  BY DEF SubmissionInv, TypeOK
<1>2. [req[h] EXCEPT !.at = p] \in Handler
  BY <1>1 DEF Handler
<1>3. PICK x \in Handler : x = [req[h] EXCEPT !.at = p]
  BY <1>2
<1>4. Knows(h, x)' /\ req' = [req EXCEPT ![h] = x]
  BY <1>1, <1>3 DEF Goto
<1>5. installation' \in [Installations -> Installation]
  BY DEF SubmissionInv, TypeOK
<1>6. \A i \in Installations : installation'[i].owner = NoUser => ~installation'[i].suspended
  BY DEF SubmissionInv, TypeOK
<1> QED
  BY <1>3, <1>4, <1>5, <1>6, HandlerOnlyStep

(* An outcome decided without a job: for an event other than a push, or a    *)
(* push that is ignored.                                                     *)
LEMMA MarkAsStep ==
    ASSUME SubmissionInv, NEW h \in Handlers, NEW o \in {"processed", "ignored"}, MarkAs(h, o),
           At(h, "event") \/ At(h, "authorize"),
           o = "ignored" \/ req[h].payload.event # "push",
           UNCHANGED <<job, delivery, lock>>,
           installation' \in [Installations -> Installation],
           \A i \in Installations : installation'[i].owner = NoUser => ~installation'[i].suspended
    PROVE  SubmissionInv'
<1>1. req[h] \in Handler /\ Knows(h, req[h]) /\ lock \in [Users -> Handlers \cup {NoHandler}]
  BY DEF SubmissionInv, TypeOK
<1>2. [req[h] EXCEPT !.at = "mark", !.outcome = o] \in Handler
  BY <1>1 DEF Handler, Points
<1>3. PICK x \in Handler : x = [req[h] EXCEPT !.at = "mark", !.outcome = o]
  BY <1>2
<1>4. req' = [req EXCEPT ![h] = x]
  BY <1>1, <1>3 DEF MarkAs
<1>5. /\ x.at = "mark" /\ x.outcome = o /\ x.payload = req[h].payload
      /\ x.delivery = req[h].delivery /\ x.user = req[h].user
  BY <1>1, <1>3 DEF Handler
<1>6. Knows(h, x)'
  BY <1>1, <1>5 DEF Knows, At
<1> QED
  BY <1>1, <1>4, <1>6, HandlerOnlyStep

(* A handler that found its delivery's job.                                  *)
LEMMA FoundStep ==
    ASSUME SubmissionInv, NEW h \in Handlers, Found(h), At(h, "existing") \/ At(h, "refetch"),
           UNCHANGED <<job, delivery, installation, lock>>
    PROVE  SubmissionInv'
<1>1. /\ req[h] \in Handler /\ Knows(h, req[h]) /\ lock \in [Users -> Handlers \cup {NoHandler}]
      /\ installation \in [Installations -> Installation]
      /\ \A i \in Installations : installation[i].owner = NoUser => ~installation[i].suspended
  BY DEF SubmissionInv, TypeOK
<1>2. PICK j \in JobsOf(req[h].delivery) :
        req' = [req EXCEPT ![h].at = "mark", ![h].outcome = "processed", ![h].job = j]
  BY DEF Found
<1>3. [req[h] EXCEPT !.at = "mark", !.outcome = "processed", !.job = j] \in Handler
  BY <1>1, <1>2 DEF Handler, Points, JobsOf
<1>4. PICK x \in Handler : x = [req[h] EXCEPT !.at = "mark", !.outcome = "processed", !.job = j]
  BY <1>3
<1>5. req' = [req EXCEPT ![h] = x]
  BY <1>1, <1>2, <1>4
<1>6. /\ x.at = "mark" /\ x.payload = req[h].payload /\ x.job = j
      /\ x.delivery = req[h].delivery /\ x.user = req[h].user
  BY <1>1, <1>4 DEF Handler
<1>7. Knows(h, x)'
  BY <1>1, <1>2, <1>6 DEF Knows, At, JobsOf
<1> QED
  BY <1>1, <1>5, <1>7, HandlerOnlyStep

(* A submission carries no delivery, and its user is known.                  *)
LEMMA SubmitStep == ASSUME SubmissionInv, NEW h \in Handlers, NEW u \in Users, Submit(h, u)
                    PROVE  SubmissionInv'
<1>1. [Idle EXCEPT !.at = "lock", !.user = u] \in Handler
  BY DEF Idle, Handler, Points
<1>2. PICK x \in Handler : x = [Idle EXCEPT !.at = "lock", !.user = u]
  BY <1>1
<1>3. x.at = "lock" /\ x.user = u /\ x.delivery = NoDelivery /\ x.payload = NoPayload
  BY <1>2 DEF Idle
<1>4. Knows(h, x)'
  BY <1>3, SubmissionAssumption DEF Knows
<1>5. /\ UNCHANGED <<job, delivery, installation, lock>>
      /\ req' = [req EXCEPT ![h] = x]
      /\ lock \in [Users -> Handlers \cup {NoHandler}]
      /\ installation \in [Installations -> Installation]
      /\ \A i \in Installations : installation[i].owner = NoUser => ~installation[i].suspended
  BY <1>2 DEF Submit, SubmissionInv, TypeOK
<1> QED
  BY <1>4, <1>5, HandlerOnlyStep

(* The first sight of a delivery records its bytes; a repeated id records    *)
(* nothing.                                                                  *)
LEMMA ReceiveStep ==
    ASSUME SubmissionInv, NEW h \in Handlers, NEW d \in Deliveries, NEW p \in Payloads, Receive(h, d, p)
    PROVE  SubmissionInv'
<1>1. \A a \in Points : [Idle EXCEPT !.at = a, !.delivery = d, !.payload = p] \in Handler
  BY DEF Idle, Handler
<1>2. /\ job' = job /\ lock' = lock /\ installation' = installation
      /\ lock \in [Users -> Handlers \cup {NoHandler}]
      /\ installation \in [Installations -> Installation]
      /\ \A i \in Installations : installation[i].owner = NoUser => ~installation[i].suspended
      /\ delivery \in [Deliveries -> Delivery] /\ job \in [Jobs -> Job]
      /\ req \in [Handlers -> Handler] /\ d # NoDelivery
  BY SubmissionAssumption DEF Receive, SubmissionInv, TypeOK
<1>3. CASE delivery[d].outcome # "unseen"
  <2>1. PICK x \in Handler : x = [Idle EXCEPT !.at = "replay", !.delivery = d, !.payload = p]
    BY <1>1 DEF Points
  <2>2. x.at = "replay" /\ x.delivery = d /\ x.payload = p
    BY <2>1 DEF Idle
  <2>3. delivery' = delivery /\ req' = [req EXCEPT ![h] = x]
    BY <1>3, <2>1 DEF Receive, Receives
  <2>4. Knows(h, x)'
    BY <1>2, <1>3, <2>2, <2>3 DEF Knows
  <2> QED
    BY <1>2, <2>3, <2>4, HandlerOnlyStep
<1>4. CASE delivery[d].outcome = "unseen"
  <2>1. PICK x \in Handler : x = [Idle EXCEPT !.at = "event", !.delivery = d, !.payload = p]
    BY <1>1 DEF Points
  <2>2. x.at = "event" /\ x.delivery = d /\ x.payload = p
    BY <2>1 DEF Idle
  <2>3. /\ delivery' = [delivery EXCEPT ![d] = [outcome |-> "pending", payload |-> p]]
        /\ req' = [req EXCEPT ![h] = x]
    BY <1>4, <2>1 DEF Receive, Receives
  <2>4. /\ delivery' \in [Deliveries -> Delivery]
        /\ delivery'[d].outcome = "pending" /\ delivery'[d].payload = p
        /\ \A e \in Deliveries \ {d} : delivery'[e] = delivery[e]
    BY <1>2, <2>3 DEF Delivery
  <2>5. /\ req' \in [Handlers -> Handler]
        /\ req'[h] = x
        /\ \A g \in Handlers \ {h} : req'[g] = req[g]
    BY <1>2, <2>3
  <2>6. TypeOK'
    BY <1>2, <2>4, <2>5 DEF TypeOK
  <2>7. \A j \in Jobs : job[j].delivery # d
    BY <1>2, <1>4 DEF SubmissionInv, TablesOK
  <2>8. \A j \in Jobs : job[j].delivery \in Deliveries \cup {NoDelivery}
    BY <1>2 DEF Job
  <2>9. TablesOK' /\ JobIsOfTheRecordedPayload'
    BY <1>2, <2>4, <2>7, <2>8 DEF SubmissionInv, TablesOK, JobIsOfTheRecordedPayload
  <2>10. AdmittedWithinCap'
    BY <1>2 DEF SubmissionInv, AdmittedWithinCap, LiveOf
  <2>11. ProcessedHasItsJob'
    BY <1>2, <2>4 DEF SubmissionInv, ProcessedHasItsJob, JobsOf
  <2>12. Knows(h, x)'
    BY <2>2, <2>4, <1>2 DEF Knows
  <2>13. ASSUME NEW g \in Handlers \ {h} PROVE Knows(g, req[g])'
    <3>1. req'[g] = req[g] /\ Knows(g, req[g]) /\ req[g] \in Handler
      BY <2>5, <1>2 DEF SubmissionInv
    <3>2. \A e \in Deliveries : delivery[e].outcome # "unseen" =>
             delivery'[e].outcome # "unseen" /\ delivery'[e].payload = delivery[e].payload
      BY <1>4, <2>4
    <3>3. \A e : JobsOf(e)' = JobsOf(e)
      BY <1>2 DEF JobsOf
    <3>4. Cardinality(Admitted(req[g].user))' = Cardinality(Admitted(req[g].user))
      BY <3>1, <1>2 DEF Admitted, LiveOf
    <3>5. req[g].at = "insert" => Cardinality(Admitted(req[g].user))' < MaxActive
      BY <3>1, <3>4 DEF Knows
    <3>6. Knows(g, req[g]) => (\A y : y = req[g] => Knows(g, y)')
      BY <3>1, <3>2, <3>3, <3>5, <1>2, KnowledgeIsKept
    <3> QED
      BY <3>1, <3>6
  <2> QED
    BY <2>5, <2>6, <2>9, <2>10, <2>11, <2>12, <2>13 DEF SubmissionInv
<1> QED
  BY <1>3, <1>4

(* A repeated id goes on only with its own bytes.                            *)
LEMMA ReplayStep == ASSUME SubmissionInv, NEW h \in Handlers, Replay(h) PROVE SubmissionInv'
<1>1. /\ UNCHANGED <<job, delivery, installation, lock>> /\ At(h, "replay")
      /\ req[h] \in Handler /\ Knows(h, req[h]) /\ lock \in [Users -> Handlers \cup {NoHandler}]
  BY DEF Replay, SubmissionInv, TypeOK
<1>2. CASE delivery[req[h].delivery].payload = req[h].payload /\ Goto(h, "event")
  <2>1. ASSUME NEW x \in Handler, x = [req[h] EXCEPT !.at = "event"] PROVE Knows(h, x)'
    <3>1. x.at = "event" /\ x.payload = req[h].payload /\ x.delivery = req[h].delivery
      BY <2>1, <1>1 DEF Handler
    <3> QED
      BY <1>1, <1>2, <3>1 DEF Knows, At
  <2> QED
    BY <1>1, <1>2, <2>1, GotoStep DEF Points
<1>3. CASE Finish(h)
  BY <1>1, <1>3, FinishStep
<1> QED
  BY <1>2, <1>3 DEF Replay

(* Events that change nothing.                                               *)
LEMMA AcknowledgeStep == ASSUME SubmissionInv, NEW h \in Handlers, Acknowledge(h) PROVE SubmissionInv'
<1>1. /\ installation' \in [Installations -> Installation]
      /\ \A i \in Installations : installation'[i].owner = NoUser => ~installation'[i].suspended
      /\ UNCHANGED <<job, delivery, lock>> /\ At(h, "event") /\ req[h].payload.event # "push"
  BY DEF Acknowledge, SubmissionInv, TypeOK
<1>2. PICK o \in {"processed", "ignored"} : MarkAs(h, o)
  BY DEF Acknowledge
<1> QED
  BY <1>1, <1>2, MarkAsStep

(* The installation a body names, and its row.                               *)
LEMMA RowOfTheBody ==
    ASSUME SubmissionInv, NEW h \in Handlers, At(h, "event")
    PROVE  /\ req[h].payload \in Payloads /\ req[h].payload.installation \in Installations
           /\ req[h].payload.sender \in Users \cup {NoUser} /\ Row(h) \in Installation
<1>1. Knows(h, req[h]) /\ installation \in [Installations -> Installation]
  BY DEF SubmissionInv, TypeOK
<1>2. req[h].payload \in Payloads
  BY <1>1 DEF Knows, At
<1>3. req[h].payload.installation \in Installations /\ req[h].payload.sender \in Users \cup {NoUser}
  BY <1>2, SubmissionAssumption
<1> QED
  BY <1>1, <1>2, <1>3 DEF Row

(* Each installation event leaves a well-formed row.                         *)
LEMMA InstallationStep ==
    ASSUME SubmissionInv, NEW h \in Handlers, Register(h) \/ Remove(h) \/ Suspend(h)
    PROVE  SubmissionInv'
<1>1. At(h, "event") /\ UNCHANGED <<job, delivery, lock>> /\ req[h].payload.event # "push"
  BY DEF Register, Remove, Suspend
<1>2. PICK o \in {"processed", "ignored"} : MarkAs(h, o)
  BY DEF Register, Remove, Suspend
<1> DEFINE OK(r) == r \in Installation /\ (r.owner = NoUser => ~r.suspended)
<1>3. /\ installation \in [Installations -> Installation]
      /\ \A i \in Installations : OK(installation[i])
  BY DEF SubmissionInv, TypeOK
<1>4. \/ installation' = installation
      \/ \E r : OK(r) /\ SetRow(h, r)
  <2>1. CASE Register(h)
    <3>1. req[h].payload.sender # NoUser => OK([Row(h) EXCEPT !.owner = req[h].payload.sender])
      BY <1>1, RowOfTheBody DEF Installation
    <3> QED
      BY <2>1, <3>1 DEF Register
  <2>2. CASE Remove(h)
    <3>1. OK(NoRow)
      BY DEF NoRow, Installation
    <3> QED
      BY <2>2, <3>1 DEF Remove
  <2>3. CASE Suspend(h)
    <3>1. Row(h).owner # NoUser =>
            OK([Row(h) EXCEPT !.suspended = (req[h].payload.event = "suspend")])
      BY <1>1, RowOfTheBody DEF Installation
    <3> QED
      BY <2>3, <3>1 DEF Suspend
  <2> QED
    BY <2>1, <2>2, <2>3
<1>5. /\ installation' \in [Installations -> Installation]
      /\ \A i \in Installations : OK(installation'[i])
  BY <1>1, <1>3, <1>4, RowOfTheBody DEF SetRow
<1> QED
  BY <1>1, <1>2, <1>5, MarkAsStep

(* The owner read first is the user the handler works for.                   *)
LEMMA PushStep == ASSUME SubmissionInv, NEW h \in Handlers, Push(h) PROVE SubmissionInv'
<1>1. /\ req[h] \in Handler /\ Knows(h, req[h]) /\ lock \in [Users -> Handlers \cup {NoHandler}]
      /\ installation' \in [Installations -> Installation]
      /\ \A i \in Installations : installation'[i].owner = NoUser => ~installation'[i].suspended
      /\ At(h, "event") /\ UNCHANGED <<job, delivery, installation, lock>>
      /\ req[h].payload.event = "push"
  BY DEF Push, SubmissionInv, TypeOK
<1>2. CASE MarkAs(h, "ignored")
  BY <1>1, <1>2, MarkAsStep
<1>3. CASE Usable(Row(h)) /\ req' = [req EXCEPT ![h].at = "authorize", ![h].user = Row(h).owner]
  <2>1. Row(h).owner \in Users
    BY <1>1, <1>3, RowOfTheBody DEF Usable, Installation
  <2>2. [req[h] EXCEPT !.at = "authorize", !.user = Row(h).owner] \in Handler
    BY <1>1, <2>1 DEF Handler, Points
  <2>3. PICK x \in Handler : x = [req[h] EXCEPT !.at = "authorize", !.user = Row(h).owner]
    BY <2>2
  <2>4. req' = [req EXCEPT ![h] = x]
    BY <1>1, <1>3, <2>3
  <2>5. /\ x.at = "authorize" /\ x.user \in Users /\ x.payload = req[h].payload
        /\ x.delivery = req[h].delivery
    BY <1>1, <2>1, <2>3 DEF Handler
  <2>6. Knows(h, x)'
    BY <1>1, <2>5 DEF Knows, At
  <2> QED
    BY <1>1, <2>4, <2>6, HandlerOnlyStep
<1> QED
  BY <1>2, <1>3 DEF Push

(* The row read again still names the user, or the push is ignored.          *)
LEMMA AuthorizeStep == ASSUME SubmissionInv, NEW h \in Handlers, Authorize(h) PROVE SubmissionInv'
<1>1. /\ req[h] \in Handler /\ Knows(h, req[h]) /\ lock \in [Users -> Handlers \cup {NoHandler}]
      /\ installation' \in [Installations -> Installation]
      /\ \A i \in Installations : installation'[i].owner = NoUser => ~installation'[i].suspended
      /\ At(h, "authorize") /\ UNCHANGED <<job, delivery, installation, lock>>
  BY DEF Authorize, SubmissionInv, TypeOK
<1>2. CASE MarkAs(h, "ignored")
  BY <1>1, <1>2, MarkAsStep
<1>3. CASE Goto(h, "existing")
  <2>1. ASSUME NEW x \in Handler, x = [req[h] EXCEPT !.at = "existing"] PROVE Knows(h, x)'
    <3>1. /\ x.at = "existing" /\ x.payload = req[h].payload /\ x.delivery = req[h].delivery
          /\ x.user = req[h].user
      BY <2>1, <1>1 DEF Handler
    <3> QED
      BY <1>1, <3>1 DEF Knows, At
  <2> QED
    BY <1>1, <1>3, <2>1, GotoStep DEF Points
<1> QED
  BY <1>2, <1>3 DEF Authorize

(* A redelivery that finds its job answers with it.                          *)
LEMMA ExistingStep == ASSUME SubmissionInv, NEW h \in Handlers, Existing(h) PROVE SubmissionInv'
<1>1. /\ req[h] \in Handler /\ Knows(h, req[h]) /\ lock \in [Users -> Handlers \cup {NoHandler}]
      /\ At(h, "existing") /\ UNCHANGED <<job, delivery, installation, lock>>
  BY DEF Existing, SubmissionInv, TypeOK
<1>2. CASE Found(h)
  BY <1>1, <1>2, FoundStep
<1>3. CASE Goto(h, "lock")
  <2>1. ASSUME NEW x \in Handler, x = [req[h] EXCEPT !.at = "lock"] PROVE Knows(h, x)'
    <3>1. /\ x.at = "lock" /\ x.payload = req[h].payload /\ x.delivery = req[h].delivery
          /\ x.user = req[h].user
      BY <2>1, <1>1 DEF Handler
    <3> QED
      BY <1>1, <3>1 DEF Knows, At
  <2> QED
    BY <1>1, <1>3, <2>1, GotoStep DEF Points
<1> QED
  BY <1>2, <1>3 DEF Existing

(* The lock was free: no handler loses it.                                   *)
LEMMA LockStep == ASSUME SubmissionInv, NEW h \in Handlers, Lock(h) PROVE SubmissionInv'
<1>1. /\ req[h] \in Handler /\ Knows(h, req[h]) /\ lock \in [Users -> Handlers \cup {NoHandler}]
      /\ At(h, "lock") /\ UNCHANGED <<job, delivery, installation>> /\ Goto(h, "count")
      /\ lock[req[h].user] = NoHandler /\ lock' = [lock EXCEPT ![req[h].user] = h]
  BY DEF Lock, SubmissionInv, TypeOK
<1>2. req[h].user \in Users
  BY <1>1 DEF Knows, At
<1>3. /\ lock' \in [Users -> Handlers \cup {NoHandler}]
      /\ lock'[req[h].user] = h
      /\ \A u \in Users, g \in Handlers \ {h} : lock[u] = g => lock'[u] = g
  BY <1>1, <1>2, SubmissionAssumption
<1>4. ASSUME NEW x \in Handler, x = [req[h] EXCEPT !.at = "count"] PROVE Knows(h, x)'
  <2>1. /\ x.at = "count" /\ x.payload = req[h].payload /\ x.delivery = req[h].delivery
        /\ x.user = req[h].user
    BY <1>1, <1>4 DEF Handler
  <2> QED
    BY <1>1, <1>3, <2>1 DEF Knows, At
<1> QED
  BY <1>1, <1>3, <1>4, GotoStep DEF Points

(* What the gate admits next leaves the admitted below the cap.              *)
LEMMA CountStep == ASSUME SubmissionInv, NEW h \in Handlers, Count(h) PROVE SubmissionInv'
<1>1. /\ req[h] \in Handler /\ Knows(h, req[h]) /\ lock \in [Users -> Handlers \cup {NoHandler}]
      /\ At(h, "count") /\ UNCHANGED <<job, delivery, installation>>
  BY DEF Count, SubmissionInv, TypeOK
<1> DEFINE u == req[h].user
<1>2. CASE Cardinality(LiveOf(u)) >= MaxActive
  BY <1>1, <1>2, FinishStep DEF Count
<1>3. CASE ~(Cardinality(LiveOf(u)) >= MaxActive)
  <2>1. Goto(h, "insert") /\ UNCHANGED lock
    BY <1>3 DEF Count
  <2>2. IsFiniteSet(LiveOf(u)) /\ Admitted(u) \subseteq LiveOf(u)
    <3>1. LiveOf(u) \subseteq Jobs /\ Admitted(u) \subseteq LiveOf(u)
      BY DEF LiveOf, Admitted
    <3>2. IsFiniteSet(Jobs)
      BY SubmissionAssumption
    <3> QED
      BY <3>1, <3>2, FS_Subset
  <2>3. /\ Cardinality(Admitted(u)) \in Nat /\ Cardinality(LiveOf(u)) \in Nat
        /\ Cardinality(Admitted(u)) <= Cardinality(LiveOf(u))
    BY <2>2, CountedSetsAreFinite, FS_Subset, FS_CardinalityType
  <2>4. MaxActive \in Nat
    BY SubmissionAssumption
  <2>5. Cardinality(Admitted(u)) < MaxActive
    BY <1>3, <2>3, <2>4
  <2>6. ASSUME NEW x \in Handler, x = [req[h] EXCEPT !.at = "insert"] PROVE Knows(h, x)'
    <3>1. /\ x.at = "insert" /\ x.payload = req[h].payload /\ x.delivery = req[h].delivery
          /\ x.user = u
      BY <2>6, <1>1 DEF Handler
    <3>2. Admitted(x.user)' = Admitted(u)
      BY <1>1, <3>1 DEF Admitted, LiveOf
    <3>3. (Cardinality(Admitted(x.user)) < MaxActive)'
      BY <3>2, <2>5
    <3> QED
      BY <1>1, <2>1, <3>1, <3>3 DEF Knows, At
  <2> QED
    BY <1>1, <2>1, <2>6, GotoStep DEF Points
<1> QED
  BY <1>2, <1>3

(* The loser of the insert answers with the winner's job.                    *)
LEMMA RefetchStep == ASSUME SubmissionInv, NEW h \in Handlers, Refetch(h) PROVE SubmissionInv'
BY FoundStep DEF Refetch

(* A handler that dies gives back its lock and nothing else.                 *)
LEMMA FailedStep == ASSUME SubmissionInv, NEW h \in Handlers, Failed(h) PROVE SubmissionInv'
BY FinishStep DEF Failed

(* The new job is the first of its delivery and is counted against its user  *)
(* while nobody else can insert for that user.                               *)
LEMMA InsertStep == ASSUME SubmissionInv, NEW h \in Handlers, Insert(h) PROVE SubmissionInv'
<1>1. /\ req[h] \in Handler /\ Knows(h, req[h]) /\ lock \in [Users -> Handlers \cup {NoHandler}]
      /\ req \in [Handlers -> Handler] /\ job \in [Jobs -> Job] /\ delivery \in [Deliveries -> Delivery]
      /\ At(h, "insert") /\ UNCHANGED <<delivery, installation>> /\ Release(h)
  BY DEF Insert, SubmissionInv, TypeOK
<1>2. /\ lock' \in [Users -> Handlers \cup {NoHandler}]
      /\ \A u \in Users, g \in Handlers \ {h} : lock[u] = g => lock'[u] = g
  BY <1>1, ReleaseKeepsOthers
<1>3. CASE req[h].delivery # NoDelivery /\ JobsOf(req[h].delivery) # {}
  <2>1. Goto(h, "refetch") /\ UNCHANGED job
    BY <1>3 DEF Insert
  <2>2. ASSUME NEW x \in Handler, x = [req[h] EXCEPT !.at = "refetch"] PROVE Knows(h, x)'
    <3>1. /\ x.at = "refetch" /\ x.payload = req[h].payload /\ x.delivery = req[h].delivery
          /\ x.user = req[h].user /\ x.delivery \in Deliveries
      BY <2>2, <1>1, <1>3 DEF Handler
    <3>2. (JobsOf(x.delivery) # {})'
      BY <1>3, <2>1, <3>1 DEF JobsOf
    <3> QED
      BY <1>1, <3>1, <3>2 DEF Knows, At
  <2> QED
    BY <1>1, <1>2, <2>1, <2>2, GotoStep DEF Points
<1>4. CASE ~(req[h].delivery # NoDelivery /\ JobsOf(req[h].delivery) # {})
  <2>1. PICK j \in Jobs : /\ job[j].status = "absent"
                          /\ job' = [job EXCEPT ![j] = NewJob(h)]
                          /\ Created(h, j)
    BY <1>4 DEF Insert
  <2>2. PICK u \in Users : u = req[h].user
    BY <1>1 DEF Knows, At
  <2>3. PICK d \in Deliveries \cup {NoDelivery} : d = req[h].delivery
    BY <1>1 DEF Handler
  <2>4. PICK p \in Payloads \cup {NoPayload} : p = req[h].payload
    BY <1>1 DEF Handler
  <2>5. /\ lock[u] = h /\ Cardinality(Admitted(u)) < MaxActive
        /\ d \in Deliveries => /\ p \in Payloads /\ delivery[d].payload = p
                               /\ delivery[d].outcome # "unseen"
    BY <1>1, <2>2, <2>3, <2>4 DEF Knows, At
  <2>6. /\ job' \in [Jobs -> Job]
        /\ job'[j].status = "live" /\ ~job'[j].revived /\ job'[j].user = u
        /\ job'[j].delivery = d /\ job'[j].payload = p
        /\ \A k \in Jobs \ {j} : job'[k] = job[k]
    BY <1>1, <2>1, <2>2, <2>3, <2>4 DEF NewJob, Job
  <2>7. job[j].delivery = NoDelivery
    BY <2>1 DEF SubmissionInv, TablesOK
  <2>8. d # NoDelivery => \A k \in Jobs : job[k].delivery # d
    BY <1>4, <2>3 DEF JobsOf
  <2>9. TablesOK'
    BY <1>1, <2>5, <2>6, <2>7, <2>8 DEF SubmissionInv, TablesOK
  <2>10. JobIsOfTheRecordedPayload'
    BY <1>1, <2>5, <2>6 DEF SubmissionInv, JobIsOfTheRecordedPayload
  <2>11. \A e \in Deliveries : JobsOf(e) \subseteq JobsOf(e)'
    BY <2>6, <2>7, SubmissionAssumption DEF JobsOf
  <2>12. ProcessedHasItsJob'
    BY <1>1, <2>11 DEF SubmissionInv, ProcessedHasItsJob
  <2>13. /\ Admitted(u)' = Admitted(u) \cup {j}
         /\ \A v \in Users \ {u} : Admitted(v)' = Admitted(v)
    BY <2>1, <2>6 DEF Admitted, LiveOf
  <2>14. AdmittedWithinCap'
    <3>1. Cardinality(Admitted(u) \cup {j}) <= Cardinality(Admitted(u)) + 1
      <4>1. IsFiniteSet(Admitted(u)) /\ Cardinality(Admitted(u)) \in Nat
        BY CountedSetsAreFinite
      <4>2. \/ Cardinality(Admitted(u) \cup {j}) = Cardinality(Admitted(u))
            \/ Cardinality(Admitted(u) \cup {j}) = Cardinality(Admitted(u)) + 1
        BY <4>1, FS_AddElement, Zenon
      <4> QED
        BY <4>1, <4>2
    <3>2. IsFiniteSet(Admitted(u) \cup {j})
      BY CountedSetsAreFinite, FS_AddElement
    <3>3. Cardinality(Admitted(u) \cup {j}) \in Nat
      BY <3>2, FS_CardinalityType
    <3>4. Cardinality(Admitted(u) \cup {j}) <= MaxActive
      BY <2>5, <3>1, <3>3, CountedSetsAreFinite, SubmissionAssumption
    <3>5. \A v \in Users : (Cardinality(Admitted(v)) <= MaxActive)'
      <4>1. (Cardinality(Admitted(u)) <= MaxActive)'
        BY <3>4, <2>13
      <4>2. ASSUME NEW v \in Users \ {u} PROVE (Cardinality(Admitted(v)) <= MaxActive)'
        <5>1. Admitted(v)' = Admitted(v)
          BY <2>13
        <5>2. Cardinality(Admitted(v)) <= MaxActive
          BY DEF SubmissionInv, AdmittedWithinCap, Admitted
        <5> QED
          BY <5>1, <5>2
      <4> QED
        BY <4>1, <4>2
    <3> QED
      BY <3>5 DEF AdmittedWithinCap, Admitted
  <2>15. PICK x \in Handler : req' = [req EXCEPT ![h] = x] /\ Knows(h, x)'
    <3>1. CASE d = NoDelivery
      BY <2>1, <2>3, <3>1, IdleKnows DEF Created, Finish
    <3>2. CASE d # NoDelivery
      <4>1. [req[h] EXCEPT !.at = "mark", !.outcome = "processed", !.job = j] \in Handler
        BY <1>1 DEF Handler, Points
      <4>2. PICK x \in Handler : x = [req[h] EXCEPT !.at = "mark", !.outcome = "processed", !.job = j]
        BY <4>1
      <4>3. req' = [req EXCEPT ![h] = x]
        BY <1>1, <2>1, <2>3, <3>2, <4>2 DEF Created
      <4>4. x.at = "mark" /\ x.delivery = d /\ x.payload = p /\ x.job = j
        BY <1>1, <2>3, <2>4, <4>2 DEF Handler
      <4>5. (j \in JobsOf(d))'
        BY <2>6 DEF JobsOf
      <4>6. Knows(h, x)'
        BY <1>1, <2>5, <3>2, <4>4, <4>5 DEF Knows
      <4> QED
        BY <4>3, <4>6
    <3> QED
      BY <3>1, <3>2
  <2>16. /\ req' \in [Handlers -> Handler]
         /\ req'[h] = x
         /\ \A g \in Handlers \ {h} : req'[g] = req[g]
    BY <1>1, <2>15
  <2>17. TypeOK'
    BY <1>1, <1>2, <2>6, <2>16 DEF SubmissionInv, TypeOK
  <2>18. ASSUME NEW g \in Handlers \ {h} PROVE Knows(g, req[g])'
    <3>1. req'[g] = req[g] /\ Knows(g, req[g]) /\ req[g] \in Handler
      BY <1>1, <2>16 DEF SubmissionInv
    <3>2. ASSUME req[g].at = "insert" PROVE Cardinality(Admitted(req[g].user))' < MaxActive
      <4>1. /\ req[g].user \in Users /\ lock[req[g].user] = g
            /\ Cardinality(Admitted(req[g].user)) < MaxActive
        BY <3>1, <3>2 DEF Knows
      <4>2. PICK v \in Users \ {u} : v = req[g].user
        BY <2>5, <4>1
      <4>3. (Admitted(v)' = Admitted(v)) /\ Cardinality(Admitted(v)) < MaxActive
        BY <2>13, <4>1, <4>2
      <4>4. Cardinality(Admitted(v))' < MaxActive
        BY <4>3
      <4>5. v = req'[g].user
        BY <4>2, <3>1
      <4> QED
        BY <4>4, <4>5
    <3>3. Knows(g, req[g]) => (\A y : y = req[g] => Knows(g, y)')
      <4>1. ASSUME NEW y \in Handler, y = req[g] PROVE y.at = "insert" => Cardinality(Admitted(y.user))' < MaxActive
        <5>1. y = req'[g]
          BY <3>1, <4>1
        <5> QED
          BY <3>2, <5>1, <4>1
      <4> QED
        BY <1>1, <1>2, <2>11, <3>1, <4>1, KnowledgeIsKept
    <3> QED
      BY <3>1, <3>3
  <2> QED
    BY <2>9, <2>10, <2>12, <2>14, <2>15, <2>16, <2>17, <2>18 DEF SubmissionInv
<1> QED
  BY <1>3, <1>4

(* A push is closed as processed by a handler that holds its job.            *)
LEMMA MarkStep == ASSUME SubmissionInv, NEW h \in Handlers, Mark(h) PROVE SubmissionInv'
<1>1. /\ req[h] \in Handler /\ Knows(h, req[h])
      /\ lock \in [Users -> Handlers \cup {NoHandler}] /\ req \in [Handlers -> Handler]
      /\ job \in [Jobs -> Job] /\ delivery \in [Deliveries -> Delivery]
      /\ At(h, "mark") /\ UNCHANGED <<job, installation, lock>>
  BY DEF Mark, SubmissionInv, TypeOK
<1>2. PICK d \in Deliveries : d = req[h].delivery
  BY <1>1 DEF Knows, At
<1>3. /\ req[h].outcome \in {"processed", "ignored"}
      /\ delivery[d].payload = req[h].payload /\ delivery[d].outcome # "unseen"
      /\ req[h].payload.event = "push" /\ req[h].outcome = "processed" => JobsOf(d) # {}
  BY <1>1, <1>2 DEF Knows, At, Handler
<1>4. delivery' = [delivery EXCEPT ![d].outcome = IF @ = "pending" THEN req[h].outcome ELSE @]
  BY <1>2 DEF Mark
<1>5. /\ delivery' \in [Deliveries -> Delivery]
      /\ delivery'[d].payload = delivery[d].payload
      /\ delivery'[d].outcome \in {delivery[d].outcome, req[h].outcome}
      /\ \A e \in Deliveries \ {d} : delivery'[e] = delivery[e]
  BY <1>1, <1>3, <1>4 DEF Delivery
<1>6. \A e \in Deliveries : /\ delivery'[e].payload = delivery[e].payload
                            /\ delivery[e].outcome # "unseen" => delivery'[e].outcome # "unseen"
  BY <1>3, <1>5
<1>7. \A j \in Jobs : job[j].delivery \in Deliveries \cup {NoDelivery}
  BY <1>1 DEF Job
<1>8. TablesOK' /\ JobIsOfTheRecordedPayload' /\ AdmittedWithinCap'
  BY <1>1, <1>6, <1>7 DEF SubmissionInv, TablesOK, JobIsOfTheRecordedPayload, AdmittedWithinCap, LiveOf
<1>9. \A e : JobsOf(e)' = JobsOf(e)
  BY <1>1 DEF JobsOf
<1>10. ProcessedHasItsJob'
  BY <1>3, <1>5, <1>9 DEF SubmissionInv, ProcessedHasItsJob
<1>11. /\ req' \in [Handlers -> Handler]
       /\ req'[h] = Idle
       /\ \A g \in Handlers \ {h} : req'[g] = req[g]
  BY <1>1, IdleKnows DEF Mark, Finish
<1>12. TypeOK'
  BY <1>1, <1>5, <1>11 DEF SubmissionInv, TypeOK
<1>13. Knows(h, req[h])'
  BY <1>11, IdleKnows
<1>14. ASSUME NEW g \in Handlers \ {h} PROVE Knows(g, req[g])'
  <2>1. req'[g] = req[g] /\ Knows(g, req[g]) /\ req[g] \in Handler
    BY <1>1, <1>11 DEF SubmissionInv
  <2>2. Cardinality(Admitted(req[g].user))' = Cardinality(Admitted(req[g].user))
    BY <2>1, <1>1 DEF Admitted, LiveOf
  <2>3. req[g].at = "insert" => Cardinality(Admitted(req[g].user))' < MaxActive
    BY <2>1, <2>2 DEF Knows
  <2>4. Knows(g, req[g]) => (\A y : y = req[g] => Knows(g, y)')
    BY <1>1, <1>6, <1>9, <2>1, <2>3, KnowledgeIsKept
  <2> QED
    BY <2>1, <2>4
<1> QED
  BY <1>8, <1>10, <1>11, <1>12, <1>13, <1>14 DEF SubmissionInv

(* Deciding a job or making a decided one live again admits nothing.         *)
LEMMA JobStep ==
    ASSUME SubmissionInv, NEW j \in Jobs, Decide(j) \/ Revive(j)
    PROVE  SubmissionInv'
<1>1. /\ job \in [Jobs -> Job] /\ req \in [Handlers -> Handler]
      /\ UNCHANGED <<delivery, installation, lock, req>> /\ job[j].status # "absent"
  BY DEF Decide, Revive, SubmissionInv, TypeOK
<1>2. /\ job' \in [Jobs -> Job]
      /\ job'[j].status # "absent"
      /\ job'[j].status = "live" => job'[j].revived
      /\ job'[j].user = job[j].user /\ job'[j].delivery = job[j].delivery
      /\ job'[j].payload = job[j].payload
      /\ \A k \in Jobs \ {j} : job'[k] = job[k]
  BY <1>1 DEF Decide, Revive, Job
<1>3. \A k \in Jobs : /\ job'[k].delivery = job[k].delivery /\ job'[k].payload = job[k].payload
                      /\ job'[k].user = job[k].user
                      /\ job'[k].status = "absent" => job[k].status = "absent"
                      /\ job'[k].status = "live" /\ ~job'[k].revived =>
                            job[k].status = "live" /\ ~job[k].revived
  BY <1>1, <1>2 DEF Decide, Revive
<1>4. \A e : JobsOf(e)' = JobsOf(e)
  BY <1>3 DEF JobsOf
<1>5. TypeOK'
  BY <1>1, <1>2 DEF SubmissionInv, TypeOK
<1>6. TablesOK' /\ JobIsOfTheRecordedPayload' /\ ProcessedHasItsJob'
  BY <1>1, <1>3, <1>4 DEF SubmissionInv, TablesOK, JobIsOfTheRecordedPayload, ProcessedHasItsJob
<1>7. ASSUME NEW u PROVE Cardinality(Admitted(u)') \in Nat /\ Cardinality(Admitted(u)') <= Cardinality(Admitted(u))
  <2>1. Admitted(u)' \subseteq Admitted(u)
    BY <1>3 DEF Admitted, LiveOf
  <2>2. IsFiniteSet(Admitted(u))
    BY CountedSetsAreFinite
  <2> QED
    BY <2>1, <2>2, FS_Subset, FS_CardinalityType
<1>8. AdmittedWithinCap'
  <2>1. ASSUME NEW u \in Users PROVE (Cardinality(Admitted(u)) <= MaxActive)'
    <3>1. Cardinality(Admitted(u)) <= MaxActive
      BY DEF SubmissionInv, AdmittedWithinCap, Admitted
    <3> QED
      BY <3>1, <1>7, CountedSetsAreFinite, SubmissionAssumption
  <2> QED
    BY <2>1 DEF AdmittedWithinCap, Admitted
<1>9. ASSUME NEW g \in Handlers PROVE Knows(g, req[g])'
  <2>1. req'[g] = req[g] /\ Knows(g, req[g]) /\ req[g] \in Handler
    BY <1>1 DEF SubmissionInv
  <2>2. ASSUME NEW y \in Handler, y = req[g], y.at = "insert"
        PROVE  (Cardinality(Admitted(y.user)) < MaxActive)'
    <3>1. Cardinality(Admitted(y.user)) < MaxActive
      BY <2>1, <2>2 DEF Knows
    <3> QED
      BY <3>1, <1>7, CountedSetsAreFinite, SubmissionAssumption
  <2>3. Knows(g, req[g]) => (\A y : y = req[g] => Knows(g, y)')
    BY <1>1, <1>4, <2>1, <2>2, KnowledgeIsKept
  <2> QED
    BY <2>1, <2>3
<1> QED
  BY <1>5, <1>6, <1>8, <1>9 DEF SubmissionInv

(* Initially nothing has been counted, recorded or admitted.                 *)
LEMMA InitOK == Init => SubmissionInv
<1> SUFFICES ASSUME Init PROVE SubmissionInv
  OBVIOUS
<1>1. TypeOK
  BY DEF Init, TypeOK, Job, Delivery, Installation, NoRow, Handler, Idle, Points
<1>2. TablesOK /\ ProcessedHasItsJob /\ JobIsOfTheRecordedPayload
  BY DEF Init, TablesOK, ProcessedHasItsJob, JobIsOfTheRecordedPayload
<1>3. AdmittedWithinCap
  <2>1. ASSUME NEW u \in Users PROVE Cardinality(Admitted(u)) <= MaxActive
    <3>1. Admitted(u) = {}
      BY DEF Init, Admitted, LiveOf
    <3> QED
      BY <3>1, FS_EmptySet, SubmissionAssumption
  <2> QED
    BY <2>1 DEF AdmittedWithinCap, Admitted
<1>4. ASSUME NEW h \in Handlers PROVE Knows(h, req[h])
  BY IdleKnows DEF Init
<1> QED
  BY <1>1, <1>2, <1>3, <1>4 DEF SubmissionInv

(* Every step keeps the invariant, one lemma per action.                     *)
LEMMA NextOK == SubmissionInv /\ [Next]_vars => SubmissionInv'
<1> SUFFICES ASSUME SubmissionInv, [Next]_vars PROVE SubmissionInv'
  OBVIOUS
<1>1. CASE \E h \in Handlers, u \in Users : Submit(h, u)
  BY <1>1, SubmitStep
<1>2. CASE \E h \in Handlers, d \in Deliveries, p \in Payloads : Receive(h, d, p)
  BY <1>2, ReceiveStep
<1>3. ASSUME NEW h \in Handlers, HandlerStep(h) PROVE SubmissionInv'
  BY <1>3, ReplayStep, AcknowledgeStep, InstallationStep, PushStep, AuthorizeStep, ExistingStep,
     LockStep, CountStep, InsertStep, RefetchStep, MarkStep, FailedStep DEF HandlerStep
<1>4. CASE \E j \in Jobs : Decide(j) \/ Revive(j)
  BY <1>4, JobStep
<1>5. CASE UNCHANGED vars
  <2>1. UNCHANGED <<job, delivery, installation, lock, req>>
    BY <1>5 DEF vars
  <2>2. TypeOK' /\ TablesOK' /\ ProcessedHasItsJob' /\ JobIsOfTheRecordedPayload' /\ AdmittedWithinCap'
    BY <2>1 DEF SubmissionInv, TypeOK, TablesOK, ProcessedHasItsJob, JobIsOfTheRecordedPayload,
                AdmittedWithinCap, JobsOf, LiveOf
  <2>3. ASSUME NEW g \in Handlers PROVE Knows(g, req[g])'
    <3>1. Knows(g, req[g])
      BY DEF SubmissionInv
    <3> QED
      BY <2>1, <3>1 DEF Knows, JobsOf, Admitted, LiveOf
  <2> QED
    BY <2>2, <2>3 DEF SubmissionInv
<1> QED
  BY <1>1, <1>2, <1>3, <1>4, <1>5 DEF Next

(* The invariant holds in every behaviour.                                   *)
THEOREM SubmissionInvariant == Spec => []SubmissionInv
BY InitOK, NextOK, PTL DEF Spec

(* Tables, locks and handlers keep their types; a row that does not exist is *)
(* not suspended.                                                            *)
THEOREM SubmissionTypeCorrect == Spec => []TypeOK
<1>1. SubmissionInv => TypeOK
  BY DEF SubmissionInv
<1> QED
  BY <1>1, SubmissionInvariant, PTL

(* The gate of create_audit_job_attributed holds for any number of requests,  *)
(* deliveries and users: what it admits never exceeds the cap.               *)
THEOREM GateHolds == Spec => []AdmittedWithinCap
<1>1. SubmissionInv => AdmittedWithinCap
  BY DEF SubmissionInv
<1> QED
  BY <1>1, SubmissionInvariant, PTL

(* A delivery makes at most one job, even when handlers of two owners, who    *)
(* take different locks, work on it.                                         *)
THEOREM DeliveriesMakeOneJob == Spec => []OneJobPerDelivery
<1>1. ASSUME SubmissionInv, NEW d \in Deliveries PROVE Cardinality(JobsOf(d)) <= 1
  <2>1. CASE JobsOf(d) = {}
    BY <2>1, FS_EmptySet
  <2>2. CASE JobsOf(d) # {}
    <3>1. PICK j \in JobsOf(d) : TRUE
      BY <2>2
    <3>2. JobsOf(d) = {j}
      BY <1>1, <3>1, SubmissionAssumption DEF JobsOf, SubmissionInv, TablesOK
    <3>3. Cardinality({j}) = 1
      BY FS_Singleton, Zenon
    <3> QED
      BY <3>2, <3>3
  <2> QED
    BY <2>1, <2>2
<1>2. SubmissionInv => OneJobPerDelivery
  BY <1>1 DEF OneJobPerDelivery
<1> QED
  BY <1>2, SubmissionInvariant, PTL

(* mark_webhook_outcome never closes a push as processed without its job.    *)
THEOREM ProcessedPushesHaveJobs == Spec => []ProcessedHasItsJob
<1>1. SubmissionInv => ProcessedHasItsJob
  BY DEF SubmissionInv
<1> QED
  BY <1>1, SubmissionInvariant, PTL

(* record_webhook_delivery binds an id to its bytes: no replay with others   *)
(* makes a job.                                                              *)
THEOREM JobsAreOfRecordedPayloads == Spec => []JobIsOfTheRecordedPayload
<1>1. SubmissionInv => JobIsOfTheRecordedPayload
  BY DEF SubmissionInv
<1> QED
  BY <1>1, SubmissionInvariant, PTL

(* What github_webhook answers for a push names the delivery's job.          *)
THEOREM RepliesNameTheirJobs == Spec => []ReplyNamesItsJob
<1>1. SubmissionInv => ReplyNamesItsJob
  BY DEF SubmissionInv, ReplyNamesItsJob, Knows, At
<1> QED
  BY <1>1, SubmissionInvariant, PTL
================================================================================
