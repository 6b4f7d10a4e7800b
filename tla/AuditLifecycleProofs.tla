------------------------- MODULE AuditLifecycleProofs -------------------------
(*****************************************************************************)
(* Proofs, for any number of jobs, workers, attempts and faults, of the       *)
(* safety properties of AuditLifecycle.                                      *)
(*                                                                            *)
(* Types, leases, evidence and verdicts need no assumption on timing: they    *)
(* hold whether or not workers stall and however many sweeps overlap. That a  *)
(* job and its attempt end together, and that the lifecycle implements        *)
(* AuditLedger, are proved for a prompt environment.                         *)
(*                                                                            *)
(* A proof that a step preserves an invariant follows the variable the        *)
(* invariant reads: the first lemmas say which actions write the job table,   *)
(* the attempt table and a worker, and every later proof has a case for each. *)
(*****************************************************************************)
EXTENDS AuditLifecycle, TLAPS

-------------------------------------------------------------------------------
(* Which actions write which variable.                                       *)

(* Only these actions can write a job.                                       *)
LEMMA JobSteps ==
  ASSUME [Next]_vars
  PROVE  \/ UNCHANGED job
         \/ \E w \in Workers : \/ Claim(w) \/ ClaimForExecution(w) \/ Reopen(w) \/ Launch(w)
                               \/ FailUnowned(w) \/ FetchDone(w) \/ Finalize(w)
         \/ \E j \in Jobs : StartAges(j) \/ Cancel(j) \/ RetryCommit(j)
         \/ \E j \in Jobs, n \in Attempts : Reap(j, n)
         \/ \E s \in Sweepers, j \in Jobs : SweepFail(s, j)
<1>1. ASSUME NEW w \in Workers, Work(w)
      PROVE  \/ UNCHANGED job
             \/ Claim(w) \/ ClaimForExecution(w) \/ Reopen(w) \/ Launch(w)
             \/ FailUnowned(w) \/ FetchDone(w) \/ Finalize(w)
  BY <1>1 DEF Work, OnlyWorker, Admit, CheckRunning, ReadStatus, OpenExecution, OpenConflict, StartPhase,
      BindSnapshot, ScanDone, NormalizeDone, ComputeDone, DeliverDone, PhaseFails, Reported
<1>2. ASSUME NEW w \in Workers, Disturb(w) PROVE UNCHANGED job
  BY <1>2 DEF Disturb, OnlyWorker, BudgetExpires, Crash, DatabaseError, OuterTimeout
<1> QED
  BY <1>1, <1>2 DEF Next, vars, RetryRead, RetryCount, HeartbeatAges, SweepScan

(* Only these actions can write an attempt.                                  *)
LEMMA ExecSteps ==
  ASSUME [Next]_vars
  PROVE  \/ UNCHANGED exec
         \/ \E w \in Workers : \/ OpenExecution(w) \/ StartPhase(w) \/ BindSnapshot(w)
                               \/ ScanDone(w) \/ Finalize(w)
         \/ \E j \in Jobs, n \in Attempts : HeartbeatAges(j, n) \/ Reap(j, n)
<1>1. ASSUME NEW w \in Workers, Work(w)
      PROVE  \/ UNCHANGED exec
             \/ OpenExecution(w) \/ StartPhase(w) \/ BindSnapshot(w) \/ ScanDone(w) \/ Finalize(w)
  BY <1>1 DEF Work, OnlyWorker, Claim, Admit, ClaimForExecution, CheckRunning, ReadStatus, Reopen, Launch,
      OpenConflict, FailUnowned, FetchDone, NormalizeDone, ComputeDone, DeliverDone, PhaseFails, Reported
<1>2. ASSUME NEW w \in Workers, Disturb(w) PROVE UNCHANGED exec
  BY <1>2 DEF Disturb, OnlyWorker, BudgetExpires, Crash, DatabaseError, OuterTimeout
<1> QED
  BY <1>1, <1>2 DEF Next, vars, StartAges, Cancel, RetryRead, RetryCount, RetryCommit, SweepScan, SweepFail

(* A worker changes by its own work or by a fault.                           *)
LEMMA WorkerSteps ==
  ASSUME [Next]_vars
  PROVE  UNCHANGED worker \/ \E w \in Workers : Work(w) \/ Disturb(w)
BY DEF Next, vars, StartAges, Cancel, RetryRead, RetryCount, RetryCommit, HeartbeatAges, Reap, SweepScan, SweepFail

-------------------------------------------------------------------------------
(* What each worker knows, and the shape of its local state.                 *)

(* A worker has an attempt from its insert to its verdict and none before;   *)
(* its tree is known once the fetch is over and its coverage once the scan is;*)
(* a completed or partial outcome is decided from the coverage and goes       *)
(* straight to finalization.                                                 *)
Coherent(r) ==
    /\ r.pc # "idle" => r.job \in Jobs
    /\ r.pc \in PreLease \cup {"idle"} => r.attempt = 0
    /\ r.pc \in InPipeline \cup {"finalize"} => r.attempt # 0
    /\ r.attempt = 0 => r.phase = "fetch" /\ r.coverage = "none"
    /\ r.pc = "bind" \/ r.phase # "fetch" \/ r.coverage # "none" => r.tree \in Commits
    /\ r.pc \in InPipeline /\ r.phase = "fetch" => r.coverage = "none"
    /\ r.phase \in {"normalize", "score", "report", "deliver"} => r.coverage # "none"
    /\ r.outcome = "completed" => r.pc = "finalize" /\ r.coverage = "complete"
    /\ r.outcome = "partial" => r.pc = "finalize" /\ r.coverage = "partial"

WorkersCoherent == worker \in [Workers -> WorkerState] /\ \A w \in Workers : Coherent(worker[w])

(* Past the binding of its snapshot a worker never changes the tree it reads. *)
PastBind(r) == r.phase # "fetch" \/ r.coverage # "none"

(* A step of w that gives it no lease it did not have, and one that does. *)
Moves(w) ==
    \E r \in WorkerState :
        /\ Coherent(r)
        /\ r.attempt # 0 => r.attempt = worker[w].attempt /\ r.job = worker[w].job
        /\ r.attempt # 0 /\ PastBind(r)
             => r.tree = worker[w].tree /\ (PastBind(worker[w]) \/ BindSnapshot(w))
        /\ worker' = [worker EXCEPT ![w] = r]

Opens(w) ==
    /\ OpenExecution(w)
    /\ \E r \in WorkerState : Coherent(r) /\ worker' = [worker EXCEPT ![w] = r]

(* A worker's own move disturbs no other worker.                             *)
LEMMA MovesKeepsCoherent ==
  ASSUME WorkersCoherent, NEW w \in Workers, Moves(w) \/ Opens(w)
  PROVE  WorkersCoherent'
BY DEF WorkersCoherent, Moves, Opens

(* The groups of program points do not overlap.                              *)
LEMMA PointSets ==
  /\ PreLease \subseteq Points /\ InPipeline \subseteq Points
  /\ PreLease \cap (InPipeline \cup {"idle", "finalize", "reported", "refused"}) = {}
  /\ InPipeline \cap {"idle", "finalize", "reported", "refused"} = {}
  /\ {"idle", "finalize", "reported", "refused"} \subseteq Points
BY DEF Points, PreLease, InPipeline

(* A worker that gives up its job is idle and holds nothing.                 *)
LEMMA IdleMoves ==
  ASSUME WorkersCoherent, NEW w \in Workers, GoIdle(w)
  PROVE  Moves(w)
<1>1. IdleWorker \in WorkerState
  BY PointSets DEF IdleWorker, WorkerState, Phases, PhaseAfter
<1>2. Coherent(IdleWorker)
  BY PointSets DEF Coherent, IdleWorker
<1> QED
  BY <1>1, <1>2 DEF GoIdle, Moves, IdleWorker

(* A worker past its finalization keeps job and attempt until it reports.    *)
LEMMA KeepMoves ==
  ASSUME WorkersCoherent, NEW w \in Workers, worker[w].pc # "idle",
         NEW pc \in {"reported", "refused"}, worker' = [worker EXCEPT ![w] = Keep(w, pc)]
  PROVE  Moves(w)
<1>1. worker[w] \in WorkerState /\ Coherent(worker[w])
  BY DEF WorkersCoherent
<1>2. Keep(w, pc) \in WorkerState
  BY <1>1, PointSets DEF Keep, IdleWorker, WorkerState, Phases, PhaseAfter
<1>3. Coherent(Keep(w, pc))
  BY <1>1, PointSets DEF Keep, IdleWorker, Coherent
<1>4. /\ Keep(w, pc).attempt = worker[w].attempt /\ Keep(w, pc).job = worker[w].job
      /\ ~PastBind(Keep(w, pc))
  BY DEF Keep, IdleWorker, PastBind
<1> QED
  BY <1>2, <1>3, <1>4 DEF Moves

(* A phase that fails or sees the cancellation sends its worker to finalize. *)
LEMMA AbortMoves ==
  ASSUME WorkersCoherent, NEW w \in Workers, worker[w].pc \in InPipeline,
         NEW outcome \in {"failed", "cancelled"}, Abort(w, outcome)
  PROVE  Moves(w)
<1>1. worker[w] \in WorkerState /\ Coherent(worker[w])
  BY DEF WorkersCoherent
<1> DEFINE r == [Keep(w, "finalize") EXCEPT !.outcome = outcome]
<1>2. r \in WorkerState
  BY <1>1, PointSets DEF Keep, IdleWorker, WorkerState, Phases, PhaseAfter
<1>3. Coherent(r)
  BY <1>1, PointSets DEF Keep, IdleWorker, Coherent, WorkerState
<1>4. r.attempt = worker[w].attempt /\ r.job = worker[w].job /\ ~PastBind(r)
  BY DEF Keep, IdleWorker, PastBind
<1> QED
  BY <1>2, <1>3, <1>4 DEF Moves, Abort

(* From one point before the lease to the next, or to the refusal. *)
LEMMA GotoMoves ==
  ASSUME WorkersCoherent, NEW w \in Workers, worker[w].pc \in PreLease,
         NEW pc \in PreLease \cup {"refused"}, Goto(w, pc)
  PROVE  Moves(w)
<1>1. worker[w] \in WorkerState /\ Coherent(worker[w])
  BY DEF WorkersCoherent
<1> DEFINE r == [worker[w] EXCEPT !.pc = pc]
<1>2. r \in WorkerState
  BY <1>1, PointSets DEF WorkerState
<1>3. pc # "bind"
  BY DEF PreLease
<1>4. Coherent(r)
  BY <1>1, <1>3, PointSets DEF Coherent, WorkerState
<1>5. r.attempt = 0
  BY <1>1 DEF WorkerState, Coherent
<1> QED
  BY <1>2, <1>4, <1>5 DEF Moves, Goto

(* Out of a phase: the tree is chosen, the coverage learnt, the verdict made. *)
LEMMA FetchMoves ==
  ASSUME WorkersCoherent, NEW w \in Workers, FetchDone(w)
  PROVE  Moves(w)
<1>1. worker[w] \in WorkerState /\ Coherent(worker[w]) /\ worker[w].pc = "phase" /\ worker[w].phase = "fetch"
  BY DEF WorkersCoherent, FetchDone, InPhase, At
<1>2. PICK c \in Commits : worker' = [worker EXCEPT ![w].pc = "bind", ![w].tree = c]
  BY DEF FetchDone
<1> DEFINE r == [worker[w] EXCEPT !.pc = "bind", !.tree = c]
<1>3. {"bind", "phase"} \subseteq InPipeline
  BY DEF InPipeline
<1>4. r \in WorkerState
  BY <1>1, <1>3, PointSets DEF WorkerState
<1>5. Coherent(r)
  BY <1>1, <1>3, PointSets DEF Coherent, WorkerState
<1>6. r.attempt = worker[w].attempt /\ r.job = worker[w].job /\ ~PastBind(r)
  BY <1>1, <1>3 DEF WorkerState, Coherent, PastBind
<1> QED
  BY <1>2, <1>4, <1>5, <1>6 DEF Moves

(* A finished phase keeps the worker's job, attempt and tree.                *)
LEMMA NextStepMoves ==
  ASSUME WorkersCoherent, NEW w \in Workers, worker[w].pc \in InPipeline,
         NEW p \in Phases \ {"deliver"}, NEW coverage \in {"none", "partial", "complete"},
         coverage = "none" => p = "fetch", worker[w].tree \in Commits,
         PastBind(worker[w]) \/ BindSnapshot(w),
         NextStep(w, p, coverage)
  PROVE  Moves(w)
<1>1. worker[w] \in WorkerState /\ Coherent(worker[w])
  BY DEF WorkersCoherent
<1> DEFINE r == [worker[w] EXCEPT !.pc = "step", !.phase = PhaseAfter[p], !.coverage = coverage]
<1>2. "step" \in InPipeline /\ PhaseAfter[p] \in Phases /\ PhaseAfter[p] # "fetch"
  BY DEF InPipeline, Phases, PhaseAfter
<1>3. p = "fetch" => PhaseAfter[p] = "scan"
  BY DEF PhaseAfter
<1>4. r \in WorkerState
  BY <1>1, <1>2, PointSets DEF WorkerState
<1>5. Coherent(r)
  BY <1>1, <1>2, <1>3, PointSets DEF Coherent, WorkerState
<1>6. r.attempt = worker[w].attempt /\ r.job = worker[w].job /\ r.tree = worker[w].tree
  BY <1>1 DEF WorkerState
<1> QED
  BY <1>4, <1>5, <1>6 DEF Moves, NextStep

(* So does the last phase, after which the worker finalizes.                 *)
LEMMA DeliverMoves ==
  ASSUME WorkersCoherent, NEW w \in Workers, DeliverDone(w)
  PROVE  Moves(w)
<1> DEFINE outcome == IF worker[w].coverage = "complete" THEN "completed" ELSE "partial"
           r == [worker[w] EXCEPT !.pc = "finalize", !.phase = "fetch", !.outcome = outcome]
<1>1. worker[w] \in WorkerState /\ Coherent(worker[w])
  BY DEF WorkersCoherent
<1>2. /\ worker[w].pc = "phase" /\ worker[w].phase = "deliver"
      /\ worker' = [worker EXCEPT ![w].pc = "finalize", ![w].phase = "fetch", ![w].outcome = outcome]
  BY DEF DeliverDone, Deliver, InPhase, At
<1>3. "phase" \in InPipeline /\ "fetch" \in Phases
  BY DEF InPipeline, Phases, PhaseAfter
<1>4. r \in WorkerState
  BY <1>1, <1>3, PointSets DEF WorkerState
<1>5. worker[w].coverage \in {"partial", "complete"}
  BY <1>1, <1>2 DEF Coherent, WorkerState
<1>6. Coherent(r)
  BY <1>1, <1>2, <1>3, <1>5, PointSets DEF Coherent, WorkerState
<1>7. /\ r.attempt = worker[w].attempt /\ r.job = worker[w].job /\ r.tree = worker[w].tree
      /\ PastBind(worker[w])
  BY <1>1, <1>2 DEF WorkerState, PastBind
<1> QED
  BY <1>2, <1>4, <1>6, <1>7 DEF Moves

(* A claim starts with no attempt, tree or evidence.                         *)
LEMMA ClaimMoves ==
  ASSUME WorkersCoherent, NEW w \in Workers, Claim(w)
  PROVE  Moves(w)
<1>1. worker[w] \in WorkerState /\ Coherent(worker[w]) /\ worker[w].pc = "idle"
  BY DEF WorkersCoherent, Claim, At
<1>2. PICK j \in Jobs : worker' = [worker EXCEPT ![w].pc = "claimed", ![w].job = j]
  BY DEF Claim
<1> DEFINE r == [worker[w] EXCEPT !.pc = "claimed", !.job = j]
<1>3. "claimed" \in PreLease
  BY DEF PreLease
<1>4. r \in WorkerState
  BY <1>1, <1>3, PointSets DEF WorkerState
<1>5. Coherent(r)
  BY <1>1, <1>3, PointSets DEF Coherent, WorkerState
<1>6. r.attempt = 0
  BY <1>1 DEF Coherent, WorkerState
<1> QED
  BY <1>2, <1>4, <1>5, <1>6 DEF Moves

(* Opening an execution gives the worker the number of the row it inserted.  *)
LEMMA OpenMoves ==
  ASSUME WorkersCoherent, BoundsAssumption, NEW w \in Workers, OpenExecution(w)
  PROVE  Opens(w)
<1>1. worker[w] \in WorkerState /\ Coherent(worker[w]) /\ worker[w].pc = "open"
  BY DEF WorkersCoherent, OpenExecution, At
<1>2. PICK n \in Attempts : worker' = [worker EXCEPT ![w].pc = "step", ![w].attempt = n]
  BY DEF OpenExecution
<1> DEFINE r == [worker[w] EXCEPT !.pc = "step", !.attempt = n]
<1>3. "open" \in PreLease /\ "step" \in InPipeline /\ n # 0
  BY DEF PreLease, InPipeline, Attempts
<1>4. r \in WorkerState
  BY <1>1, <1>3, PointSets DEF WorkerState
<1>5. Coherent(r)
  BY <1>1, <1>3, PointSets DEF Coherent, WorkerState
<1> QED
  BY <1>2, <1>4, <1>5 DEF Opens

(* A cancellation, or the phase itself. *)
LEMMA StartPhaseMoves ==
  ASSUME WorkersCoherent, NEW w \in Workers, worker[w].pc = "step", Goto(w, "phase")
  PROVE  Moves(w)
<1>1. worker[w] \in WorkerState /\ Coherent(worker[w])
  BY DEF WorkersCoherent
<1> DEFINE r == [worker[w] EXCEPT !.pc = "phase"]
<1>2. {"step", "phase"} \subseteq InPipeline
  BY DEF InPipeline
<1>3. r \in WorkerState
  BY <1>1, <1>2, PointSets DEF WorkerState
<1>4. Coherent(r)
  BY <1>1, <1>2, PointSets DEF Coherent, WorkerState
<1>5. /\ r.attempt = worker[w].attempt /\ r.job = worker[w].job /\ r.tree = worker[w].tree
      /\ PastBind(r) <=> PastBind(worker[w])
  BY <1>1 DEF WorkerState, PastBind
<1> QED
  BY <1>3, <1>4, <1>5 DEF Moves, Goto

(* Every action of a worker is such a move.                                  *)
LEMMA WorkMoves ==
  ASSUME WorkersCoherent, NEW w \in Workers, Work(w)
  PROVE  Moves(w) \/ Opens(w)
<1>1. CASE Claim(w)
  BY <1>1, ClaimMoves
<1>2. CASE Admit(w) \/ FailUnowned(w) \/ Reported(w)
  <2>1. GoIdle(w) \/ (worker[w].pc = "claimed" /\ Goto(w, "admitted"))
    BY <1>2 DEF Admit, FailUnowned, Reported, At
  <2> QED
    BY <2>1, IdleMoves, GotoMoves DEF PreLease
<1>3. CASE \/ ClaimForExecution(w) \/ CheckRunning(w) \/ ReadStatus(w)
           \/ Reopen(w) \/ Launch(w) \/ OpenConflict(w)
  <2>1. worker[w].pc \in PreLease /\ \E pc \in PreLease \cup {"refused"} : Goto(w, pc)
    BY <1>3 DEF ClaimForExecution, CheckRunning, ReadStatus, Reopen, Launch, OpenConflict, At, PreLease
  <2> QED
    BY <2>1, GotoMoves
<1>4. CASE OpenExecution(w)
  BY <1>4, OpenMoves, BoundsAssumption
<1>5. CASE StartPhase(w)
  <2>1. worker[w].pc = "step" /\ (Abort(w, "cancelled") \/ Goto(w, "phase"))
    BY <1>5 DEF StartPhase, At
  <2> QED
    BY <2>1, AbortMoves, StartPhaseMoves DEF InPipeline
<1>6. CASE FetchDone(w)
  BY <1>6, FetchMoves
<1>7. CASE BindSnapshot(w)
  <2>1. worker[w].pc \in InPipeline /\ (Abort(w, "failed") \/ NextStep(w, "fetch", "none"))
    BY <1>7 DEF BindSnapshot, At, InPipeline
  <2>3. worker[w].tree \in Commits
    BY <1>7 DEF BindSnapshot, At, WorkersCoherent, Coherent
  <2>2. "fetch" \in Phases \ {"deliver"}
    BY DEF Phases, PhaseAfter
  <2> QED
    BY <1>7, <2>1, <2>2, <2>3, AbortMoves, NextStepMoves
<1>8. CASE ScanDone(w) \/ NormalizeDone(w) \/ ComputeDone(w)
  <2>1. worker[w].pc \in InPipeline
    BY <1>8 DEF ScanDone, NormalizeDone, ComputeDone, InPhase, At, InPipeline
  <2>2. worker[w] \in WorkerState /\ Coherent(worker[w])
    BY DEF WorkersCoherent
  <2>3. \E p \in {"scan", "normalize", "score", "report"}, coverage \in {"partial", "complete"} :
           NextStep(w, p, coverage)
    <3>1. CASE ScanDone(w)
      BY <3>1 DEF ScanDone
    <3>2. CASE NormalizeDone(w)
      <4>1. worker[w].coverage \in {"partial", "complete"}
        BY <3>2, <2>2 DEF NormalizeDone, InPhase, Coherent, WorkerState
      <4> QED
        BY <3>2, <4>1 DEF NormalizeDone
    <3>3. CASE ComputeDone(w)
      <4>1. worker[w].coverage \in {"partial", "complete"}
        BY <3>3, <2>2 DEF ComputeDone, InPhase, Coherent, WorkerState
      <4> QED
        BY <3>3, <4>1 DEF ComputeDone
    <3> QED
      BY <1>8, <3>1, <3>2, <3>3
  <2>4. {"scan", "normalize", "score", "report"} \subseteq Phases \ {"deliver"}
    BY DEF Phases, PhaseAfter
  <2>5. worker[w].phase # "fetch"
    BY <1>8 DEF ScanDone, NormalizeDone, ComputeDone, InPhase
  <2> QED
    BY <2>1, <2>2, <2>3, <2>4, <2>5, NextStepMoves DEF Coherent, PastBind
<1>9. CASE DeliverDone(w)
  BY <1>9, DeliverMoves
<1>10. CASE PhaseFails(w)
  <2>1. worker[w].pc \in InPipeline /\ (Abort(w, "failed") \/ Abort(w, "cancelled"))
    BY <1>10 DEF PhaseFails, InPhase, At, InPipeline
  <2> QED
    BY <2>1, AbortMoves
<1>11. CASE Finalize(w)
  <2>1. worker[w].pc = "finalize" /\ worker' = [worker EXCEPT ![w] = Keep(w, "reported")]
    BY <1>11 DEF Finalize, At
  <2> QED
    BY <2>1, KeepMoves
<1> QED
  BY <1>1, <1>2, <1>3, <1>4, <1>5, <1>6, <1>7, <1>8, <1>9, <1>10, <1>11 DEF Work

(* Every fault of a worker is such a move.                                   *)
LEMMA DisturbMoves ==
  ASSUME WorkersCoherent, NEW w \in Workers, Disturb(w)
  PROVE  Moves(w)
<1>1. CASE BudgetExpires(w)
  BY <1>1, AbortMoves DEF BudgetExpires
<1>2. CASE Crash(w)
  BY <1>2, IdleMoves DEF Crash
<1>3. CASE OuterTimeout(w)
  <2>1. worker[w].pc # "idle" /\ worker' = [worker EXCEPT ![w] = Keep(w, "refused")]
    BY <1>3 DEF OuterTimeout, PreLease
  <2> QED
    BY <2>1, KeepMoves
<1>4. CASE DatabaseError(w)
  <2>1. \/ GoIdle(w)
        \/ worker[w].pc \in PreLease /\ \E pc \in PreLease \cup {"refused"} : Goto(w, pc)
        \/ worker[w].pc = "step" /\ Goto(w, "phase")
        \/ worker[w].pc = "finalize" /\ worker' = [worker EXCEPT ![w] = Keep(w, "reported")]
    BY <1>4 DEF DatabaseError, At, PreLease
  <2> QED
    BY <2>1, IdleMoves, GotoMoves, StartPhaseMoves, KeepMoves
<1> QED
  BY <1>1, <1>2, <1>3, <1>4 DEF Disturb

(* The local states of the workers stay coherent.                            *)
LEMMA WorkersCoherentNext ==
  ASSUME WorkersCoherent, [Next]_vars
  PROVE  WorkersCoherent'
<1>1. CASE UNCHANGED worker
  BY <1>1 DEF WorkersCoherent
<1>2. CASE \E w \in Workers : Work(w) \/ Disturb(w)
  BY <1>2, WorkMoves, DisturbMoves, MovesKeepsCoherent
<1> QED
  BY <1>1, <1>2, WorkerSteps

-------------------------------------------------------------------------------
(* The attempt table: an insert, or one row of a running attempt rewritten,   *)
(* by a heartbeat or the reaper, by its snapshot's binding, or by its verdict.*)

ExecTyped == exec \in [Jobs -> [Attempts -> ExecRow]]
JobTyped == job \in [Jobs -> JobRow]

Inserts(j, n) ==
    /\ ~HasRunning(j)
    /\ IsNextAttempt(j, n)
    /\ exec' = [exec EXCEPT ![j][n] = [AbsentExec EXCEPT !.status = "running"]]

Rewrites(j, n, row) ==
    /\ IsRunning(j, n)
    /\ row.status # "absent"
    /\ exec' = [exec EXCEPT ![j][n] = row]

Touches(j, n) ==
    \E row \in ExecRow :
        /\ Rewrites(j, n, row)
        /\ row.status \in {"running", "failed"}
        /\ row.commit = exec[j][n].commit
        /\ row.evidence = exec[j][n].evidence

Binds(w, j, n) ==
    \E row \in ExecRow :
        /\ Rewrites(j, n, row)
        /\ row.status = "running"
        /\ row.commit = worker[w].tree
        /\ row.evidence = exec[j][n].evidence

ClosesAttempt(w, j, n, verdict) ==
    \E row \in ExecRow :
        /\ Rewrites(j, n, row)
        /\ row.status = verdict
        /\ row.commit = exec[j][n].commit
        /\ row.evidence = EvidenceOf(w)

VerdictOf(w) == Verdict(worker[w].job, worker[w].outcome)

(* A worker that is not idle has a job.                                      *)
LEMMA BusyJob ==
  ASSUME WorkersCoherent, NEW w \in Workers, worker[w].pc # "idle"
  PROVE  worker[w].job \in Jobs
BY DEF WorkersCoherent, Coherent

(* The attempt a worker in the pipeline acts on is one of the table's rows. *)
LEMMA HolderRow ==
  ASSUME WorkersCoherent, NEW w \in Workers, worker[w].pc \in InPipeline \cup {"finalize"}
  PROVE  worker[w].job \in Jobs /\ worker[w].attempt \in Attempts
<1>1. worker[w] \in WorkerState /\ Coherent(worker[w])
  BY DEF WorkersCoherent
<1> QED
  BY <1>1, PointSets DEF Coherent, WorkerState

(* A heartbeat touches a running row, or nothing.                            *)
LEMMA HeartbeatShape ==
  ASSUME ExecTyped, NEW j \in Jobs, NEW n \in Attempts, Heartbeat(j, n)
  PROVE  UNCHANGED exec \/ Touches(j, n)
<1> DEFINE row == [exec[j][n] EXCEPT !.stale = FALSE]
<1>1. exec[j][n] \in ExecRow
  BY DEF ExecTyped
<1>2. /\ row \in ExecRow /\ row.status = exec[j][n].status
      /\ row.commit = exec[j][n].commit /\ row.evidence = exec[j][n].evidence
  BY <1>1 DEF ExecRow
<1>3. CASE IsRunning(j, n)
  <2>1. exec' = [exec EXCEPT ![j][n] = row]
    BY <1>3 DEF Heartbeat
  <2> HIDE DEF row
  <2> QED
    BY <1>2, <1>3, <2>1 DEF Touches, Rewrites, IsRunning
<1>4. CASE ~IsRunning(j, n)
  BY <1>4 DEF Heartbeat
<1> QED
  BY <1>3, <1>4

(* A heartbeat that ages is the only change.                                 *)
LEMMA AgesShape ==
  ASSUME ExecTyped, NEW j \in Jobs, NEW n \in Attempts, HeartbeatAges(j, n)
  PROVE  Touches(j, n)
<1> DEFINE row == [exec[j][n] EXCEPT !.stale = TRUE]
<1>1. exec[j][n] \in ExecRow /\ IsRunning(j, n)
  BY DEF ExecTyped, HeartbeatAges
<1>2. /\ row \in ExecRow /\ row.status = exec[j][n].status
      /\ row.commit = exec[j][n].commit /\ row.evidence = exec[j][n].evidence
  BY <1>1 DEF ExecRow
<1>3. exec' = [exec EXCEPT ![j][n] = row]
  BY DEF HeartbeatAges
<1> HIDE DEF row
<1> QED
  BY <1>1, <1>2, <1>3 DEF Touches, Rewrites, IsRunning

(* Reaping closes a running attempt and leaves its evidence.                 *)
LEMMA ReapShape ==
  ASSUME ExecTyped, NEW j \in Jobs, NEW n \in Attempts, Reap(j, n)
  PROVE  Touches(j, n)
<1> DEFINE row == [exec[j][n] EXCEPT !.status = "failed", !.stale = FALSE]
<1>1. exec[j][n] \in ExecRow /\ IsRunning(j, n)
  BY DEF ExecTyped, Reap
<1>2. /\ row \in ExecRow /\ row.status = "failed"
      /\ row.commit = exec[j][n].commit /\ row.evidence = exec[j][n].evidence
  BY <1>1 DEF ExecRow, Terminal
<1>3. exec' = [exec EXCEPT ![j][n] = row]
  BY DEF Reap
<1> HIDE DEF row
<1> QED
  BY <1>1, <1>2, <1>3 DEF Touches, Rewrites

(* Binding writes the worker's tree to its running row, or fails the attempt. *)
LEMMA BindShape ==
  ASSUME ExecTyped, WorkersCoherent, NEW w \in Workers, BindSnapshot(w)
  PROVE  /\ worker[w].job \in Jobs /\ worker[w].attempt \in Attempts
         /\ \/ UNCHANGED exec /\ Abort(w, "failed")
            \/ Binds(w, worker[w].job, worker[w].attempt) /\ NextStep(w, "fetch", "none")
<1> DEFINE j == worker[w].job
           n == worker[w].attempt
           row == [exec[j][n] EXCEPT !.commit = worker[w].tree]
<1>1. j \in Jobs /\ n \in Attempts
  BY HolderRow DEF BindSnapshot, At, InPipeline
<1>2. exec[j][n] \in ExecRow /\ worker[w].tree \in Commits \cup {NoCommit}
  BY <1>1 DEF ExecTyped, WorkersCoherent, WorkerState
<1>3. /\ row \in ExecRow /\ row.status = exec[j][n].status
      /\ row.commit = worker[w].tree /\ row.evidence = exec[j][n].evidence
  BY <1>2 DEF ExecRow
<1>4. \/ UNCHANGED exec /\ Abort(w, "failed")
      \/ /\ IsRunning(j, n) /\ NextStep(w, "fetch", "none")
         /\ exec' = [exec EXCEPT ![j][n] = row]
  BY DEF BindSnapshot
<1> HIDE DEF row
<1> QED
  BY <1>1, <1>3, <1>4 DEF Binds, Rewrites, IsRunning

(* Whatever the worker has seen, its verdict is terminal.                    *)
LEMMA VerdictIsTerminal ==
  ASSUME WorkersCoherent, NEW w \in Workers
  PROVE  VerdictOf(w) \in {"completed", "partial", "failed", "cancelled"}
<1>1. worker[w] \in WorkerState
  BY DEF WorkersCoherent
<1> QED
  BY <1>1 DEF VerdictOf, Verdict, WorkerState

(* Closing an attempt rewrites one running row with verdict and evidence.    *)
LEMMA AttemptRow ==
  ASSUME ExecTyped, WorkersCoherent, NEW w \in Workers, NEW j \in Jobs, NEW n \in Attempts,
         NEW verdict \in Terminal, IsRunning(j, n), CloseAttempt(w, j, n, verdict)
  PROVE  ClosesAttempt(w, j, n, verdict)
<1> DEFINE row == [exec[j][n] EXCEPT !.status = verdict, !.stale = FALSE, !.evidence = EvidenceOf(w)]
<1>1. exec[j][n] \in ExecRow /\ worker[w] \in WorkerState
  BY DEF ExecTyped, WorkersCoherent
<1>2. EvidenceOf(w) \in {"none", "partial", "complete"} /\ verdict # "absent"
  BY <1>1 DEF EvidenceOf, WorkerState, Terminal
<1>3. /\ row \in ExecRow /\ row.status = verdict /\ row.evidence = EvidenceOf(w)
      /\ row.commit = exec[j][n].commit
  BY <1>1, <1>2 DEF ExecRow
<1>4. exec' = [exec EXCEPT ![j][n] = row]
  BY DEF CloseAttempt
<1> HIDE DEF row
<1> QED
  BY <1>2, <1>3, <1>4 DEF ClosesAttempt, Rewrites

(* Finalizing closes the worker's own attempt, or changes neither table.     *)
LEMMA FinalizeShape ==
  ASSUME ExecTyped, WorkersCoherent, NEW w \in Workers, Finalize(w)
  PROVE  /\ worker[w].job \in Jobs /\ worker[w].attempt \in Attempts
         /\ \/ UNCHANGED <<job, exec>>
            \/ /\ CloseAttempt(w, worker[w].job, worker[w].attempt, VerdictOf(w))
               /\ ClosesAttempt(w, worker[w].job, worker[w].attempt, VerdictOf(w))
<1>1. worker[w].job \in Jobs /\ worker[w].attempt \in Attempts
  BY HolderRow DEF Finalize, At
<1>2. VerdictOf(w) \in Terminal
  BY VerdictIsTerminal DEF Terminal
<1>3. \/ UNCHANGED <<job, exec>>
      \/ /\ IsRunning(worker[w].job, worker[w].attempt)
         /\ CloseAttempt(w, worker[w].job, worker[w].attempt, VerdictOf(w))
  BY DEF Finalize, VerdictOf
<1> QED
  BY <1>1, <1>2, <1>3, AttemptRow

(* Opening an execution inserts the next attempt of the worker's job.        *)
LEMMA OpenInserts ==
  ASSUME WorkersCoherent, NEW w \in Workers, OpenExecution(w)
  PROVE  \E n \in Attempts :
            /\ worker[w].job \in Jobs
            /\ worker' = [worker EXCEPT ![w].pc = "step", ![w].attempt = n]
            /\ Inserts(worker[w].job, n)
<1>1. worker[w].job \in Jobs
  BY BusyJob DEF OpenExecution, At
<1> QED
  BY <1>1 DEF OpenExecution, Inserts

(* Every step leaves the attempts alone, inserts one, binds one or closes one. *)
LEMMA ExecShape ==
  ASSUME ExecTyped, WorkersCoherent, [Next]_vars
  PROVE  \/ UNCHANGED exec
         \/ \E w \in Workers : OpenExecution(w) \/ BindSnapshot(w) \/ Finalize(w)
         \/ \E j \in Jobs, n \in Attempts : Touches(j, n)
<1>1. ASSUME NEW w \in Workers, StartPhase(w) \/ ScanDone(w)
      PROVE  UNCHANGED exec \/ \E j \in Jobs, n \in Attempts : Touches(j, n)
  <2>1. worker[w].pc \in InPipeline
    BY <1>1 DEF StartPhase, ScanDone, InPhase, At, InPipeline
  <2>2. UNCHANGED exec \/ Heartbeat(worker[w].job, worker[w].attempt)
    BY <1>1 DEF StartPhase, ScanDone
  <2> QED
    BY <2>1, <2>2, HolderRow, HeartbeatShape
<1> QED
  BY <1>1, AgesShape, ReapShape, ExecSteps

(* The coarser view: which rows change at all. *)
LEMMA ExecRows ==
  ASSUME ExecTyped, WorkersCoherent, [Next]_vars
  PROVE  \/ UNCHANGED exec
         \/ \E j \in Jobs, n \in Attempts : Inserts(j, n) \/ \E row \in ExecRow : Rewrites(j, n, row)
<1>1. ASSUME NEW w \in Workers, OpenExecution(w) \/ BindSnapshot(w) \/ Finalize(w)
      PROVE  \/ UNCHANGED exec
             \/ \E j \in Jobs, n \in Attempts : Inserts(j, n) \/ \E row \in ExecRow : Rewrites(j, n, row)
  BY <1>1, OpenInserts, BindShape, FinalizeShape DEF Binds, ClosesAttempt
<1> QED
  BY <1>1, ExecShape DEF Touches

-------------------------------------------------------------------------------
(* The job table: apart from finalization, a step rewrites the row of one job *)
(* without scoring it, and moves it to no status but a live one or "failed".  *)

Administers(j, row) ==
    /\ row.score = job[j].score
    /\ row.status # job[j].status
         => row.status \in {"queued", "running", "failed"} /\ job[j].status # "completed"
    /\ job' = [job EXCEPT ![j] = row]

Administered == \E j \in Jobs : \E row \in JobRow : Administers(j, row)

(* Claiming changes a job that has no verdict yet.                           *)
LEMMA ClaimAdministers ==
  ASSUME JobTyped, NEW j \in Jobs, job[j].status = "queued",
         job' = [job EXCEPT ![j].status = "running", ![j].started = "fresh"]
  PROVE  Administered
<1> DEFINE row == [job[j] EXCEPT !.status = "running", !.started = "fresh"]
<1>1. job[j] \in JobRow
  BY DEF JobTyped
<1>2. row \in JobRow /\ row.score = job[j].score /\ row.status = "running"
  BY <1>1 DEF JobRow, Live
<1>3. job' = [job EXCEPT ![j] = row]
  OBVIOUS
<1> QED
  BY <1>2, <1>3 DEF Administers, Administered

(* A status written outside a finalization never overwrites a completed one. *)
LEMMA StatusAdministers ==
  ASSUME JobTyped, NEW j \in Jobs, NEW s \in {"queued", "running", "failed"},
         job[j].status # "completed", job' = [job EXCEPT ![j].status = s]
  PROVE  Administered
<1> DEFINE row == [job[j] EXCEPT !.status = s]
<1>1. job[j] \in JobRow
  BY DEF JobTyped
<1>2. row \in JobRow /\ row.score = job[j].score /\ row.status = s
  BY <1>1 DEF JobRow, Live, Terminal
<1>3. job' = [job EXCEPT ![j] = row]
  OBVIOUS
<1> QED
  BY <1>2, <1>3 DEF Administers, Administered

(* Launching a job, or failing to, is such a change.                         *)
LEMMA LaunchAdministers ==
  ASSUME JobTyped, WorkersCoherent, NEW w \in Workers, Launch(w)
  PROVE  UNCHANGED job \/ Administered
<1> DEFINE j == worker[w].job
           row == [job[j] EXCEPT !.status = "running", !.started = IF @ = "never" THEN "fresh" ELSE @]
<1>1. j \in Jobs /\ job[j] \in JobRow
  BY BusyJob DEF JobTyped, Launch, At
<1>2. row \in JobRow /\ row.score = job[j].score /\ row.status = "running"
  BY <1>1 DEF JobRow, Live
<1>3. UNCHANGED job \/ (job[j].status = "queued" /\ job' = [job EXCEPT ![j] = row])
  BY <1>1 DEF Launch
<1> QED
  BY <1>1, <1>2, <1>3 DEF Administers, Administered

(* A field the verdict does not depend on. *)
LEMMA FieldAdministers ==
  ASSUME JobTyped, NEW j \in Jobs,
         \/ \E c \in Commits : job' = [job EXCEPT ![j].commit = c]
         \/ \E t \in {"never", "fresh", "old"} : job' = [job EXCEPT ![j].started = t]
         \/ \E b \in BOOLEAN : job' = [job EXCEPT ![j].cancel = b]
  PROVE  Administered
<1>1. job[j] \in JobRow
  BY DEF JobTyped
<1>2. ASSUME NEW c \in Commits, job' = [job EXCEPT ![j].commit = c] PROVE Administered
  <2> DEFINE row == [job[j] EXCEPT !.commit = c]
  <2>1. row \in JobRow /\ row.score = job[j].score /\ row.status = job[j].status
    BY <1>1 DEF JobRow
  <2> QED
    BY <2>1, <1>2 DEF Administers, Administered
<1>3. ASSUME NEW t \in {"never", "fresh", "old"}, job' = [job EXCEPT ![j].started = t] PROVE Administered
  <2> DEFINE row == [job[j] EXCEPT !.started = t]
  <2>1. row \in JobRow /\ row.score = job[j].score /\ row.status = job[j].status
    BY <1>1 DEF JobRow
  <2> QED
    BY <2>1, <1>3 DEF Administers, Administered
<1>4. ASSUME NEW b \in BOOLEAN, job' = [job EXCEPT ![j].cancel = b] PROVE Administered
  <2> DEFINE row == [job[j] EXCEPT !.cancel = b]
  <2>1. row \in JobRow /\ row.score = job[j].score /\ row.status = job[j].status
    BY <1>1 DEF JobRow
  <2> QED
    BY <2>1, <1>4 DEF Administers, Administered
<1> QED
  BY <1>2, <1>3, <1>4

(* So is the requeueing of a failed or partial job.                          *)
LEMMA RetryAdministers ==
  ASSUME JobTyped, NEW j \in Jobs, RetryCommit(j)
  PROVE  UNCHANGED job \/ Administered
<1> DEFINE row == [job[j] EXCEPT !.status = "queued", !.cancel = FALSE]
<1>1. job[j] \in JobRow
  BY DEF JobTyped
<1>2. row \in JobRow /\ row.score = job[j].score /\ row.status = "queued"
  BY <1>1 DEF JobRow, Live
<1>3. UNCHANGED job \/ (job[j].status # "completed" /\ job' = [job EXCEPT ![j] = row])
  BY DEF RetryCommit, Retryable
<1> QED
  BY <1>2, <1>3 DEF Administers, Administered

(* So is the failing of the job of a reaped attempt.                         *)
LEMMA ReapAdministers ==
  ASSUME JobTyped, NEW j \in Jobs, NEW n \in Attempts, Reap(j, n)
  PROVE  Administered
<1> DEFINE s == IF job[j].status = "running" /\ ~\E m \in Attempts \ {n} : IsRunning(j, m)
                THEN "queued" ELSE job[j].status
           row == [job[j] EXCEPT !.cancel = FALSE, !.status = s]
<1>1. job[j] \in JobRow
  BY DEF JobTyped
<1>2. s \in Live \cup Terminal /\ (s # job[j].status => s = "queued" /\ job[j].status = "running")
  BY <1>1 DEF JobRow, Live
<1>3. row \in JobRow /\ row.score = job[j].score /\ row.status = s
  <2> HIDE DEF s
  <2> QED
    BY <1>1, <1>2 DEF JobRow
<1>4. job' = [job EXCEPT ![j] = row]
  BY DEF Reap
<1> QED
  <2> HIDE DEF row, s
  <2> QED
    BY <1>2, <1>3, <1>4 DEF Administers, Administered

(* A job changes by administration or by a finalization.                     *)
LEMMA JobShape ==
  ASSUME JobTyped, WorkersCoherent, [Next]_vars
  PROVE  UNCHANGED job \/ Administered \/ \E w \in Workers : Finalize(w)
<1>1. ASSUME NEW w \in Workers, Claim(w) PROVE Administered
  BY <1>1, ClaimAdministers DEF Claim
<1>2. ASSUME NEW w \in Workers, ClaimForExecution(w) PROVE UNCHANGED job \/ Administered
  BY <1>2, BusyJob, ClaimAdministers DEF ClaimForExecution, At
<1>3. ASSUME NEW w \in Workers, Reopen(w) PROVE UNCHANGED job \/ Administered
  <2>1. worker[w].job \in Jobs
    BY <1>3, BusyJob DEF Reopen, At
  <2>2. LifecycleGuard(job[worker[w].job].status, "queued") => job[worker[w].job].status # "completed"
    BY DEF LifecycleGuard, Retryable
  <2> QED
    BY <1>3, <2>1, <2>2, StatusAdministers DEF Reopen
<1>4. ASSUME NEW w \in Workers, FailUnowned(w) PROVE UNCHANGED job \/ Administered
  <2>1. worker[w].job \in Jobs
    BY <1>4, BusyJob DEF FailUnowned, At
  <2> QED
    BY <1>4, <2>1, StatusAdministers DEF FailUnowned, Live
<1>5. ASSUME NEW w \in Workers, FetchDone(w) PROVE Administered
  <2>1. worker[w].job \in Jobs
    BY <1>5, BusyJob DEF FetchDone, InPhase, At
  <2> QED
    BY <1>5, <2>1, FieldAdministers DEF FetchDone
<1>6. ASSUME NEW j \in Jobs, StartAges(j) \/ Cancel(j) PROVE Administered
  BY <1>6, FieldAdministers DEF StartAges, Cancel
<1>7. ASSUME NEW s \in Sweepers, NEW j \in Jobs, SweepFail(s, j) PROVE UNCHANGED job \/ Administered
  BY <1>7, StatusAdministers DEF SweepFail
<1> QED
  BY <1>1, <1>2, <1>3, <1>4, <1>5, <1>6, <1>7, LaunchAdministers, RetryAdministers, ReapAdministers, JobSteps

-------------------------------------------------------------------------------
(* Types.                                                                    *)

(* The attempts keep their type.                                             *)
LEMMA ExecTypeNext ==
  ASSUME ExecTyped, WorkersCoherent, [Next]_vars
  PROVE  ExecTyped'
<1>1. ASSUME NEW j \in Jobs, NEW n \in Attempts, NEW row \in ExecRow, exec' = [exec EXCEPT ![j][n] = row]
      PROVE  ExecTyped'
  BY <1>1 DEF ExecTyped
<1>2. [AbsentExec EXCEPT !.status = "running"] \in ExecRow
  BY DEF AbsentExec, ExecRow
<1>3. ASSUME NEW j \in Jobs, NEW n \in Attempts, Inserts(j, n) PROVE ExecTyped'
  BY <1>1, <1>2, <1>3 DEF Inserts
<1>4. ASSUME NEW j \in Jobs, NEW n \in Attempts, NEW row \in ExecRow, Rewrites(j, n, row) PROVE ExecTyped'
  BY <1>1, <1>4 DEF Rewrites
<1>5. UNCHANGED exec => ExecTyped'
  BY DEF ExecTyped
<1> QED
  BY <1>3, <1>4, <1>5, ExecRows

(* The transaction of a finalization that commits, as two row updates. *)
ClosesJob(w, j, verdict) ==
    \E row \in JobRow :
        /\ row.cancel = FALSE
        /\ job[j].status = "completed" => row.status = "completed" /\ row.score = job[j].score
        /\ job[j].status # "completed"
             => /\ row.status = verdict
                /\ row.score = (verdict = "completed" /\ worker[w].coverage = "complete")
        /\ job' = [job EXCEPT ![j] = row]

(* Closing an attempt gives its verdict to the job.                          *)
LEMMA JobVerdictRow ==
  ASSUME JobTyped, NEW w \in Workers, NEW j \in Jobs, NEW n \in Attempts,
         NEW verdict \in Terminal, CloseAttempt(w, j, n, verdict)
  PROVE  ClosesJob(w, j, verdict)
<1> DEFINE scored == (verdict = "completed" /\ worker[w].coverage = "complete")
           kept == [job[j] EXCEPT !.cancel = FALSE]
           decided == [job[j] EXCEPT !.cancel = FALSE, !.status = verdict, !.score = scored]
<1>1. job[j] \in JobRow
  BY DEF JobTyped
<1>2. job' = [job EXCEPT ![j] = IF job[j].status = "completed" THEN kept ELSE decided]
  BY DEF CloseAttempt
<1>3. CASE job[j].status = "completed"
  <2>1. kept \in JobRow /\ kept.cancel = FALSE /\ kept.status = "completed" /\ kept.score = job[j].score
    BY <1>1, <1>3 DEF JobRow
  <2>2. job' = [job EXCEPT ![j] = kept]
    BY <1>2, <1>3
  <2> HIDE DEF kept
  <2> QED
    BY <2>1, <2>2, <1>3 DEF ClosesJob
<1>4. CASE job[j].status # "completed"
  <2>1. scored \in BOOLEAN
    OBVIOUS
  <2>2. decided \in JobRow /\ decided.cancel = FALSE /\ decided.status = verdict /\ decided.score = scored
    <3> HIDE DEF scored
    <3> QED
      BY <1>1, <2>1 DEF JobRow
  <2>3. job' = [job EXCEPT ![j] = decided]
    BY <1>2, <1>4
  <2> HIDE DEF decided
  <2> QED
    BY <2>2, <2>3, <1>4 DEF ClosesJob
<1> QED
  BY <1>3, <1>4

(* A finalization that takes effect writes attempt and job together.         *)
LEMMA FinalizeRows ==
  ASSUME JobTyped, ExecTyped, WorkersCoherent, NEW w \in Workers, Finalize(w)
  PROVE  /\ worker[w].job \in Jobs /\ worker[w].attempt \in Attempts
         /\ \/ UNCHANGED <<job, exec>>
            \/ /\ ClosesAttempt(w, worker[w].job, worker[w].attempt, VerdictOf(w))
               /\ ClosesJob(w, worker[w].job, VerdictOf(w))
<1>1. VerdictOf(w) \in Terminal
  BY VerdictIsTerminal DEF Terminal
<1> QED
  BY <1>1, FinalizeShape, JobVerdictRow

(* The jobs keep their type.                                                 *)
LEMMA JobTypeNext ==
  ASSUME JobTyped, ExecTyped, WorkersCoherent, [Next]_vars
  PROVE  JobTyped'
<1>1. ASSUME NEW j \in Jobs, NEW row \in JobRow, job' = [job EXCEPT ![j] = row]
      PROVE  JobTyped'
  BY <1>1 DEF JobTyped
<1>2. ASSUME NEW w \in Workers, Finalize(w) PROVE JobTyped'
  <2>1. UNCHANGED job \/ \E j \in Jobs, row \in JobRow : job' = [job EXCEPT ![j] = row]
    BY <1>2, FinalizeRows DEF ClosesJob
  <2> QED
    BY <2>1, <1>1 DEF JobTyped
<1>3. Administered => JobTyped'
  BY <1>1 DEF Administered, Administers
<1>4. UNCHANGED job => JobTyped'
  BY DEF JobTyped
<1> QED
  BY <1>2, <1>3, <1>4, JobShape

(* The sweeps in progress keep their type.                                   *)
LEMMA SweepTypeNext ==
  ASSUME swept \in [Sweepers -> SUBSET Jobs], [Next]_vars
  PROVE  swept' \in [Sweepers -> SUBSET Jobs]
<1>1. ASSUME NEW w \in Workers, Work(w) \/ Disturb(w) PROVE UNCHANGED swept
  <2>1. Work(w) => UNCHANGED swept
    BY DEF Work, OnlyWorker, Claim, Admit, ClaimForExecution, CheckRunning, ReadStatus, Reopen, Launch,
        OpenExecution, OpenConflict, FailUnowned, StartPhase, FetchDone, BindSnapshot, ScanDone,
        NormalizeDone, ComputeDone, DeliverDone, PhaseFails, Finalize, Reported
  <2>2. Disturb(w) => UNCHANGED swept
    BY DEF Disturb, OnlyWorker, BudgetExpires, Crash, DatabaseError, OuterTimeout
  <2> QED
    BY <1>1, <2>1, <2>2
<1>2. \/ UNCHANGED swept
      \/ \E s \in Sweepers : SweepScan(s)
      \/ \E s \in Sweepers, j \in Jobs : SweepFail(s, j)
  BY <1>1 DEF Next, vars, StartAges, Cancel, RetryRead, RetryCount, RetryCommit, HeartbeatAges, Reap
<1>3. ASSUME NEW s \in Sweepers, SweepScan(s) PROVE swept' \in [Sweepers -> SUBSET Jobs]
  BY <1>3 DEF SweepScan
<1>4. ASSUME NEW s \in Sweepers, NEW j \in Jobs, SweepFail(s, j) PROVE swept' \in [Sweepers -> SUBSET Jobs]
  BY <1>4 DEF SweepFail
<1> QED
  BY <1>2, <1>3, <1>4

(* The retries in progress keep their type and bound.                        *)
LEMMA RetryTypeNext ==
  ASSUME retry \in [Jobs -> {"none", "read", "checked"}], retries \in 0 .. MaxRetries,
         BoundsAssumption, [Next]_vars
  PROVE  retry' \in [Jobs -> {"none", "read", "checked"}] /\ retries' \in 0 .. MaxRetries
<1>1. ASSUME NEW w \in Workers, Work(w) \/ Disturb(w) PROVE UNCHANGED <<retry, retries>>
  <2>1. Work(w) => UNCHANGED <<retry, retries>>
    BY DEF Work, OnlyWorker, Claim, Admit, ClaimForExecution, CheckRunning, ReadStatus, Reopen, Launch,
        OpenExecution, OpenConflict, FailUnowned, StartPhase, FetchDone, BindSnapshot, ScanDone,
        NormalizeDone, ComputeDone, DeliverDone, PhaseFails, Finalize, Reported
  <2>2. Disturb(w) => UNCHANGED <<retry, retries>>
    BY DEF Disturb, OnlyWorker, BudgetExpires, Crash, DatabaseError, OuterTimeout
  <2> QED
    BY <1>1, <2>1, <2>2
<1>2. \/ UNCHANGED <<retry, retries>>
      \/ \E j \in Jobs : RetryRead(j) \/ RetryCount(j) \/ RetryCommit(j)
  BY <1>1 DEF Next, vars, StartAges, Cancel, HeartbeatAges, Reap, SweepScan, SweepFail
<1>3. ASSUME NEW j \in Jobs, RetryRead(j)
      PROVE  retry' \in [Jobs -> {"none", "read", "checked"}] /\ retries' \in 0 .. MaxRetries
  BY <1>3 DEF RetryRead, BoundsAssumption
<1>4. ASSUME NEW j \in Jobs, RetryCount(j) \/ RetryCommit(j)
      PROVE  retry' \in [Jobs -> {"none", "read", "checked"}] /\ retries' \in 0 .. MaxRetries
  BY <1>4 DEF RetryCount, RetryCommit
<1> QED
  BY <1>2, <1>3, <1>4

(* The count of faults keeps its bound.                                      *)
LEMMA FaultTypeNext ==
  ASSUME faults \in 0 .. MaxFaults, BoundsAssumption, [Next]_vars
  PROVE  faults' \in 0 .. MaxFaults
<1>1. ASSUME NEW w \in Workers, Work(w) PROVE UNCHANGED faults
  BY <1>1 DEF Work, OnlyWorker, Claim, Admit, ClaimForExecution, CheckRunning, ReadStatus, Reopen, Launch,
      OpenExecution, OpenConflict, FailUnowned, StartPhase, FetchDone, BindSnapshot, ScanDone,
      NormalizeDone, ComputeDone, DeliverDone, PhaseFails, Finalize, Reported
<1>2. ASSUME NEW w \in Workers, Disturb(w) PROVE UNCHANGED faults \/ Fault
  BY <1>2 DEF Disturb, OnlyWorker, BudgetExpires, Crash, DatabaseError, OuterTimeout
<1>3. UNCHANGED faults \/ Fault
  BY <1>1, <1>2 DEF Next, vars, StartAges, Cancel, RetryRead, RetryCount, RetryCommit, HeartbeatAges, Reap,
      SweepScan, SweepFail
<1> QED
  BY <1>3 DEF Fault, BoundsAssumption

(* The initial state is well typed.                                          *)
LEMMA InitTyped ==
  ASSUME Init, BoundsAssumption
  PROVE  TypeOK /\ WorkersCoherent
<1>1. JobTyped
  BY DEF Init, JobTyped, JobRow, QueuedJob, Live
<1>2. ExecTyped
  BY DEF Init, ExecTyped, ExecRow, AbsentExec
<1>3. IdleWorker \in WorkerState /\ Coherent(IdleWorker)
  BY PointSets DEF IdleWorker, WorkerState, Phases, PhaseAfter, Coherent
<1>4. WorkersCoherent
  BY <1>3 DEF Init, WorkersCoherent
<1> QED
  BY <1>1, <1>2, <1>4 DEF Init, TypeOK, JobTyped, ExecTyped, WorkersCoherent, BoundsAssumption

(* Every step keeps types and coherence.                                     *)
LEMMA TypedNext ==
  ASSUME TypeOK, WorkersCoherent, BoundsAssumption, [Next]_vars
  PROVE  TypeOK' /\ WorkersCoherent'
<1>1. JobTyped /\ ExecTyped
  BY DEF TypeOK, JobTyped, ExecTyped
<1>2. /\ swept \in [Sweepers -> SUBSET Jobs] /\ faults \in 0 .. MaxFaults
      /\ retry \in [Jobs -> {"none", "read", "checked"}] /\ retries \in 0 .. MaxRetries
  BY DEF TypeOK
<1>3. JobTyped' /\ ExecTyped' /\ WorkersCoherent'
  BY <1>1, JobTypeNext, ExecTypeNext, WorkersCoherentNext
<1>4. swept' \in [Sweepers -> SUBSET Jobs] /\ faults' \in 0 .. MaxFaults
  BY <1>2, SweepTypeNext, FaultTypeNext
<1>5. retry' \in [Jobs -> {"none", "read", "checked"}] /\ retries' \in 0 .. MaxRetries
  BY <1>2, RetryTypeNext
<1> QED
  BY <1>3, <1>4, <1>5 DEF TypeOK, JobTyped, ExecTyped, WorkersCoherent

(* Every row and every worker stays a value the schema and the code allow,   *)
(* and what a worker believes about its lease, coverage and outcome is       *)
(* coherent with the point of execute_audit_job it has reached.              *)
THEOREM TypeCorrect == Spec => []TypeOK /\ []WorkersCoherent
<1>1. Init => TypeOK /\ WorkersCoherent
  BY InitTyped, BoundsAssumption
<1>2. TypeOK /\ WorkersCoherent /\ [Next]_vars => TypeOK' /\ WorkersCoherent'
  BY TypedNext, BoundsAssumption
<1> QED
  BY <1>1, <1>2, PTL DEF Spec

-------------------------------------------------------------------------------
(* Leases. LeaseExclusive is not inductive by itself: a new attempt is nobody *)
(* else's because every lease is on a row that exists, and its number is of a *)
(* row that does not.                                                        *)

NewestRuns ==
    \A j \in Jobs, n \in Attempts :
        IsRunning(j, n) => \A m \in Attempts : m > n => exec[j][m].status = "absent"

LeasesOpened ==
    \A w \in Workers : worker[w].attempt # 0
        => /\ worker[w].job \in Jobs /\ worker[w].attempt \in Attempts
           /\ exec[worker[w].job][worker[w].attempt].status # "absent"

LeasesDistinct ==
    \A v, w \in Workers :
        worker[v].attempt # 0 /\ worker[v].attempt = worker[w].attempt /\ worker[v].job = worker[w].job
            => v = w

LeaseInv == NewestRuns /\ LeasesOpened /\ LeasesDistinct

(* What an insert does to the rows of its job.                               *)
LEMMA InsertedRow ==
  ASSUME ExecTyped, NEW j \in Jobs, NEW n \in Attempts, Inserts(j, n)
  PROVE  /\ exec[j][n].status = "absent" /\ exec'[j][n].status = "running"
         /\ \A m \in Attempts : m > n => exec[j][m].status = "absent"
         /\ \A m \in Attempts \ {n} : exec'[j][m] = exec[j][m]
         /\ \A i \in Jobs \ {j} : exec'[i] = exec[i]
<1>1. exec' = [exec EXCEPT ![j][n] = [AbsentExec EXCEPT !.status = "running"]]
  BY DEF Inserts
<1>2. [AbsentExec EXCEPT !.status = "running"].status = "running"
  BY DEF AbsentExec
<1>3. \A m \in Attempts : exec[j][m].status # "absent" <=> m < n
  BY DEF Inserts, IsNextAttempt
<1>4. \A m \in Attempts : m >= n => exec[j][m].status = "absent"
  BY <1>3, BoundsAssumption DEF Attempts, BoundsAssumption
<1>5. exec[j][n].status = "absent" /\ \A m \in Attempts : m > n => exec[j][m].status = "absent"
  BY <1>4, BoundsAssumption DEF Attempts, BoundsAssumption
<1> HIDE DEF Inserts
<1> QED
  BY <1>1, <1>2, <1>5 DEF ExecTyped

(* What a rewrite of a running row does to the rows of its job.              *)
LEMMA RewrittenRow ==
  ASSUME ExecTyped, NEW j \in Jobs, NEW n \in Attempts, NEW row \in ExecRow, Rewrites(j, n, row)
  PROVE  /\ IsRunning(j, n) /\ exec'[j][n] = row /\ row.status # "absent"
         /\ \A m \in Attempts \ {n} : exec'[j][m] = exec[j][m]
         /\ \A i \in Jobs \ {j} : exec'[i] = exec[i]
BY DEF Rewrites, ExecTyped

(* Only the newest attempt of a job may run: inserts wait for the end of it. *)
LEMMA NewestRunsNext ==
  ASSUME ExecTyped, WorkersCoherent, NewestRuns, [Next]_vars
  PROVE  NewestRuns'
<1>1. CASE UNCHANGED exec
  BY <1>1 DEF NewestRuns, IsRunning
<1>2. ASSUME NEW j \in Jobs, NEW n \in Attempts, Inserts(j, n)
      PROVE  NewestRuns'
  <2>1. ~HasRunning(j)
    BY <1>2 DEF Inserts
  <2>2. \A m \in Attempts \ {n} : exec'[j][m].status # "running"
    BY <1>2, <2>1, InsertedRow DEF HasRunning, IsRunning
  <2>3. \A m \in Attempts : m > n => exec'[j][m].status = "absent"
    BY <1>2, InsertedRow, BoundsAssumption DEF Attempts, BoundsAssumption
  <2> QED
    BY <1>2, <2>2, <2>3, InsertedRow DEF NewestRuns, IsRunning
<1>3. ASSUME NEW j \in Jobs, NEW n \in Attempts, NEW row \in ExecRow, Rewrites(j, n, row)
      PROVE  NewestRuns'
  <2>1. \A m \in Attempts : m > n => exec'[j][m].status = "absent"
    BY <1>3, RewrittenRow, BoundsAssumption DEF NewestRuns, Attempts, BoundsAssumption
  <2>2. \A m \in Attempts \ {n} : ~(exec'[j][m].status = "running" /\ n > m)
    BY <1>3, RewrittenRow DEF NewestRuns, IsRunning
  <2>3. \A m \in Attempts \ {n} : exec'[j][m].status = "running" => m > n
    BY <2>2, BoundsAssumption DEF Attempts, BoundsAssumption
  <2>4. \A m \in Attempts \ {n} : exec'[j][m].status # "running"
    BY <2>1, <2>3
  <2> QED
    BY <1>3, <2>1, <2>4, RewrittenRow DEF NewestRuns, IsRunning
<1> QED
  BY <1>1, <1>2, <1>3, ExecRows

(* A row once inserted stays.                                                *)
LEMMA RowsStay ==
  ASSUME ExecTyped, WorkersCoherent, [Next]_vars, NEW j \in Jobs, NEW n \in Attempts,
         exec[j][n].status # "absent"
  PROVE  exec'[j][n].status # "absent"
<1>1. ASSUME NEW i \in Jobs, NEW m \in Attempts, Inserts(i, m)
      PROVE  exec'[j][n].status # "absent"
  BY <1>1, InsertedRow
<1>2. ASSUME NEW i \in Jobs, NEW m \in Attempts, NEW row \in ExecRow, Rewrites(i, m, row)
      PROVE  exec'[j][n].status # "absent"
  BY <1>2, RewrittenRow
<1> QED
  BY <1>1, <1>2, ExecRows

(* A lease is for a row that exists, and no two workers hold the same one.   *)
LEMMA LeasesNext ==
  ASSUME ExecTyped, WorkersCoherent, LeasesOpened, LeasesDistinct, [Next]_vars
  PROVE  LeasesOpened' /\ LeasesDistinct'
<1>1. CASE UNCHANGED worker
  BY <1>1, RowsStay DEF LeasesOpened, LeasesDistinct
<1>2. ASSUME NEW w \in Workers, Moves(w) PROVE LeasesOpened' /\ LeasesDistinct'
  <2>1. PICK r \in WorkerState :
          /\ r.attempt # 0 => r.attempt = worker[w].attempt /\ r.job = worker[w].job
          /\ worker' = [worker EXCEPT ![w] = r]
    BY <1>2 DEF Moves
  <2>2. worker'[w] = r /\ \A v \in Workers \ {w} : worker'[v] = worker[v]
    BY <2>1 DEF WorkersCoherent
  <2>3. \A v \in Workers : worker'[v].attempt # 0
          => worker'[v].attempt = worker[v].attempt /\ worker'[v].job = worker[v].job
    BY <2>1, <2>2
  <2>4. LeasesOpened'
    BY <2>3, RowsStay DEF LeasesOpened
  <2>5. LeasesDistinct'
    BY <2>3 DEF LeasesDistinct
  <2> QED
    BY <2>4, <2>5
<1>3. ASSUME NEW w \in Workers, OpenExecution(w) PROVE LeasesOpened' /\ LeasesDistinct'
  <2>1. PICK n \in Attempts :
          /\ worker[w].job \in Jobs
          /\ worker' = [worker EXCEPT ![w].pc = "step", ![w].attempt = n]
          /\ Inserts(worker[w].job, n)
    BY <1>3, OpenInserts
  <2>2. /\ worker'[w].attempt = n /\ worker'[w].job = worker[w].job
        /\ \A v \in Workers \ {w} : worker'[v] = worker[v]
    BY <2>1 DEF WorkersCoherent, WorkerState
  <2>3. exec[worker[w].job][n].status = "absent" /\ exec'[worker[w].job][n].status = "running"
    BY <2>1, InsertedRow
  <2>4. \A v \in Workers : ~(worker[v].attempt # 0 /\ worker[v].attempt = n /\ worker[v].job = worker[w].job)
    BY <2>3 DEF LeasesOpened
  <2>5. LeasesOpened'
    BY <2>1, <2>2, <2>3, RowsStay DEF LeasesOpened
  <2>6. LeasesDistinct'
    BY <2>2, <2>4 DEF LeasesDistinct
  <2> QED
    BY <2>5, <2>6
<1> QED
  BY <1>1, <1>2, <1>3, WorkerSteps, WorkMoves, DisturbMoves DEF Opens

(* Leases are exclusive, whatever workers crash, stall or are reaped, and the *)
(* running attempt of a job is its newest.                                   *)
THEOREM LeasesAreExclusive == Spec => []LeaseExclusive
<1>1. Init => LeaseInv
  BY DEF Init, LeaseInv, NewestRuns, LeasesOpened, LeasesDistinct, IsRunning, AbsentExec, IdleWorker
<1>2. TypeOK /\ WorkersCoherent /\ LeaseInv /\ [Next]_vars => LeaseInv'
  <2>1. TypeOK => ExecTyped
    BY DEF TypeOK, ExecTyped
  <2> QED
    BY <2>1, NewestRunsNext, LeasesNext DEF LeaseInv
<1>3. LeaseInv => LeaseExclusive
  <2>1. 0 \notin Attempts
    BY BoundsAssumption DEF Attempts, BoundsAssumption
  <2> QED
    BY <2>1 DEF LeaseInv, NewestRuns, LeasesDistinct, LeaseExclusive, Holds
<1> QED
  BY <1>1, <1>2, <1>3, TypeCorrect, PTL DEF Spec

(* A closed attempt is never rewritten: not by a zombie's finalization, bind  *)
(* or heartbeat, not by the reaper, not by a second attempt's insert.        *)
THEOREM ClosedAttemptsAreFrozen == Spec => AttemptFrozen
<1>1. TypeOK /\ WorkersCoherent /\ [Next]_vars
        => [\A j \in Jobs, n \in Attempts : exec[j][n].status \in Terminal => exec'[j][n] = exec[j][n]]_vars
  <2> SUFFICES ASSUME TypeOK, WorkersCoherent, [Next]_vars, NEW j \in Jobs, NEW n \in Attempts,
                      exec[j][n].status \in Terminal
               PROVE  exec'[j][n] = exec[j][n]
    OBVIOUS
  <2>1. ExecTyped /\ exec[j][n].status \notin {"absent", "running"}
    BY DEF TypeOK, ExecTyped, Terminal
  <2>2. ASSUME NEW i \in Jobs, NEW m \in Attempts, Inserts(i, m) PROVE exec'[j][n] = exec[j][n]
    BY <2>1, <2>2, InsertedRow
  <2>3. ASSUME NEW i \in Jobs, NEW m \in Attempts, NEW row \in ExecRow, Rewrites(i, m, row)
        PROVE  exec'[j][n] = exec[j][n]
    BY <2>1, <2>3, RewrittenRow DEF IsRunning
  <2> QED
    BY <2>1, <2>2, <2>3, ExecRows
<1> QED
  BY <1>1, TypeCorrect, PTL DEF Spec, AttemptFrozen

-------------------------------------------------------------------------------
(* Evidence: what an attempt has published is what its verdict says.         *)

(* A worker that has bound its snapshot still reads the tree its attempt, if  *)
(* it still runs, is bound to. Leases are exclusive, so nobody else rebinds. *)
BoundToTree ==
    \A w \in Workers :
        /\ worker[w].attempt # 0 /\ PastBind(worker[w])
        /\ IsRunning(worker[w].job, worker[w].attempt)
        => exec[worker[w].job][worker[w].attempt].commit = worker[w].tree

(* A worker past its binding had the same attempt and tree before the step.  *)
LEMMA HolderNext ==
  ASSUME WorkersCoherent, [Next]_vars, NEW v \in Workers, worker'[v].attempt # 0, PastBind(worker'[v])
  PROVE  /\ worker'[v].attempt = worker[v].attempt /\ worker'[v].job = worker[v].job
         /\ worker'[v].tree = worker[v].tree
         /\ PastBind(worker[v]) \/ BindSnapshot(v)
<1>1. CASE UNCHANGED worker
  BY <1>1
<1>2. ASSUME NEW w \in Workers, Moves(w), w # v PROVE worker'[v] = worker[v]
  BY <1>2 DEF Moves, WorkersCoherent
<1>3. ASSUME NEW w \in Workers, OpenExecution(w), w # v PROVE worker'[v] = worker[v]
  BY <1>3 DEF OpenExecution, WorkersCoherent
<1>4. CASE Moves(v)
  <2>1. PICK r \in WorkerState :
          /\ r.attempt # 0 => r.attempt = worker[v].attempt /\ r.job = worker[v].job
          /\ r.attempt # 0 /\ PastBind(r)
               => r.tree = worker[v].tree /\ (PastBind(worker[v]) \/ BindSnapshot(v))
          /\ worker' = [worker EXCEPT ![v] = r]
    BY <1>4 DEF Moves
  <2>2. worker'[v] = r
    BY <2>1 DEF WorkersCoherent
  <2> QED
    BY <2>1, <2>2
<1>5. CASE OpenExecution(v)
  <2>1. PICK n \in Attempts : worker' = [worker EXCEPT ![v].pc = "step", ![v].attempt = n]
    BY <1>5, OpenInserts
  <2>2. worker[v] \in WorkerState /\ Coherent(worker[v]) /\ worker[v].pc \in PreLease
    BY <1>5 DEF WorkersCoherent, OpenExecution, At, PreLease
  <2>3. worker[v].phase = "fetch" /\ worker[v].coverage = "none"
    BY <2>2 DEF Coherent
  <2>4. worker'[v].phase = worker[v].phase /\ worker'[v].coverage = worker[v].coverage
    BY <2>1, <2>2 DEF WorkersCoherent, WorkerState
  <2> QED
    BY <2>3, <2>4 DEF PastBind
<1> QED
  BY <1>1, <1>2, <1>3, <1>4, <1>5, WorkerSteps, WorkMoves, DisturbMoves DEF Opens

(* The commit of a held running attempt stays that of its worker's tree.     *)
LEMMA BoundToTreeNext ==
  ASSUME ExecTyped, WorkersCoherent, LeasesOpened, LeasesDistinct, BoundToTree, [Next]_vars
  PROVE  BoundToTree'
<1> SUFFICES ASSUME NEW v \in Workers, worker'[v].attempt # 0, PastBind(worker'[v]),
                    exec'[worker'[v].job][worker'[v].attempt].status = "running"
             PROVE  exec'[worker'[v].job][worker'[v].attempt].commit = worker'[v].tree
  BY DEF BoundToTree, IsRunning
<1> DEFINE j == worker[v].job
           n == worker[v].attempt
<1>1. /\ worker'[v].attempt = n /\ worker'[v].job = j /\ worker'[v].tree = worker[v].tree
      /\ PastBind(worker[v]) \/ BindSnapshot(v)
  BY HolderNext
<1>2. n # 0 /\ j \in Jobs /\ n \in Attempts /\ exec[j][n].status # "absent"
  BY <1>1 DEF LeasesOpened
<1> SUFFICES exec'[j][n].commit = worker[v].tree
  BY <1>1
<1>3. exec'[j][n].status = "running"
  BY <1>1
<1>4. CASE BindSnapshot(v)
  <2>1. ~Abort(v, "failed")
    <3> SUFFICES ASSUME Abort(v, "failed") PROVE FALSE
      OBVIOUS
    <3>1. worker'[v] = [Keep(v, "finalize") EXCEPT !.outcome = "failed"]
      BY DEF Abort, WorkersCoherent
    <3>2. ~PastBind([Keep(v, "finalize") EXCEPT !.outcome = "failed"])
      BY DEF PastBind, Keep, IdleWorker
    <3> QED
      BY <3>1, <3>2
  <2>2. Binds(v, j, n)
    BY <1>4, <2>1, BindShape
  <2> QED
    BY <1>2, <2>2, RewrittenRow DEF Binds
<1>5. CASE PastBind(worker[v]) /\ ~BindSnapshot(v)
  <2>1. exec[j][n].status = "running" => exec[j][n].commit = worker[v].tree
    BY <1>2, <1>5 DEF BoundToTree, IsRunning
  <2>2. CASE UNCHANGED exec
    BY <1>3, <2>1, <2>2
  <2>3. ASSUME NEW w \in Workers, OpenExecution(w) PROVE exec'[j][n] = exec[j][n]
    <3>1. PICK m \in Attempts : worker[w].job \in Jobs /\ Inserts(worker[w].job, m)
      BY <2>3, OpenInserts
    <3>2. exec[worker[w].job][m].status = "absent"
      BY <3>1, InsertedRow
    <3> QED
      BY <1>2, <3>1, <3>2, InsertedRow
  <2>4. ASSUME NEW w \in Workers, BindSnapshot(w) PROVE exec'[j][n] = exec[j][n]
    <3>1. w # v /\ worker[w].attempt \in Attempts /\ worker[w].job \in Jobs
      BY <1>5, <2>4, BindShape
    <3>2. ~(worker[w].job = j /\ worker[w].attempt = n)
      BY <1>2, <3>1 DEF LeasesDistinct
    <3> QED
      BY <1>2, <2>4, <3>1, <3>2, BindShape, RewrittenRow DEF Binds
  <2>5. ASSUME NEW w \in Workers, Finalize(w) PROVE exec'[j][n] = exec[j][n]
    <3>1. VerdictOf(w) # "running"
      BY VerdictIsTerminal
    <3> QED
      BY <1>2, <1>3, <2>5, <3>1, FinalizeShape, RewrittenRow DEF ClosesAttempt
  <2>6. ASSUME NEW i \in Jobs, NEW m \in Attempts, Touches(i, m)
        PROVE  \/ exec'[j][n] = exec[j][n]
               \/ exec[j][n].status = "running" /\ exec'[j][n].commit = exec[j][n].commit
    BY <1>2, <2>6, RewrittenRow DEF Touches, IsRunning
  <2> QED
    BY <1>3, <2>1, <2>2, <2>3, <2>4, <2>5, <2>6, ExecShape
<1> QED
  BY <1>1, <1>4, <1>5

-------------------------------------------------------------------------------
(* What a finalization publishes.                                            *)

(* A verdict, the evidence stored with it and a pending cancellation agree.  *)
LEMMA OutcomeEvidence ==
  ASSUME WorkersCoherent, NEW w \in Workers
  PROVE  /\ VerdictOf(w) = "completed" => EvidenceOf(w) = "complete" /\ worker[w].coverage = "complete"
         /\ VerdictOf(w) = "partial" => EvidenceOf(w) = "partial"
         /\ VerdictOf(w) = "failed" => EvidenceOf(w) = "none"
         /\ job[worker[w].job].cancel => VerdictOf(w) = "cancelled"
<1>1. worker[w] \in WorkerState /\ Coherent(worker[w])
  BY DEF WorkersCoherent
<1> QED
  BY <1>1 DEF VerdictOf, Verdict, EvidenceOf, Coherent, WorkerState

(* What a finalization publishes was read from the commit its attempt is bound to. *)
LEMMA PublishedTree ==
  ASSUME WorkersCoherent, BoundToTree, NEW w \in Workers, worker[w].pc = "finalize",
         IsRunning(worker[w].job, worker[w].attempt), EvidenceOf(w) # "none"
  PROVE  /\ exec[worker[w].job][worker[w].attempt].commit = worker[w].tree
         /\ worker[w].tree \in Commits
<1>1. worker[w] \in WorkerState /\ Coherent(worker[w])
  BY DEF WorkersCoherent
<1>2. worker[w].coverage # "none"
  BY DEF EvidenceOf
<1> QED
  BY <1>1, <1>2 DEF Coherent, BoundToTree, PastBind

RowPublishes(e) ==
    /\ e.status = "completed" => e.evidence = "complete"
    /\ e.status = "partial" => e.evidence = "partial"
    /\ e.status \in {"absent", "running", "failed"} => e.evidence = "none"
    /\ e.evidence # "none" => e.commit # NoCommit

(* A verdict and the evidence stored with it stay in agreement.              *)
LEMMA EvidenceNext ==
  ASSUME ExecTyped, WorkersCoherent, BoundToTree, EvidenceMatchesVerdict, [Next]_vars
  PROVE  EvidenceMatchesVerdict'
<1>1. \A j \in Jobs, n \in Attempts : RowPublishes(exec[j][n])
  BY DEF EvidenceMatchesVerdict, RowPublishes
<1> SUFFICES ASSUME NEW j \in Jobs, NEW n \in Attempts PROVE RowPublishes(exec'[j][n])
  BY DEF EvidenceMatchesVerdict, RowPublishes
<1>2. ASSUME NEW w \in Workers, OpenExecution(w) PROVE RowPublishes(exec'[j][n])
  <2>1. PICK m \in Attempts : worker[w].job \in Jobs /\ Inserts(worker[w].job, m)
    BY <1>2, OpenInserts
  <2>2. RowPublishes([AbsentExec EXCEPT !.status = "running"])
    BY DEF RowPublishes, AbsentExec
  <2>3. exec'[j][n] = exec[j][n] \/ exec'[j][n] = [AbsentExec EXCEPT !.status = "running"]
    BY <2>1 DEF Inserts, ExecTyped
  <2> QED
    BY <1>1, <2>2, <2>3
<1>3. ASSUME NEW w \in Workers, BindSnapshot(w) PROVE RowPublishes(exec'[j][n])
  <2>1. CASE UNCHANGED exec
    BY <1>1, <2>1
  <2>2. CASE Binds(w, worker[w].job, worker[w].attempt)
    BY <1>1, <1>3, <2>2, BindShape, RewrittenRow DEF Binds, RowPublishes, IsRunning
  <2> QED
    BY <1>3, <2>1, <2>2, BindShape
<1>4. ASSUME NEW w \in Workers, Finalize(w) PROVE RowPublishes(exec'[j][n])
  <2>1. CASE UNCHANGED exec
    BY <1>1, <2>1
  <2>2. CASE ClosesAttempt(w, worker[w].job, worker[w].attempt, VerdictOf(w))
    <3>1. PICK row \in ExecRow :
            /\ Rewrites(worker[w].job, worker[w].attempt, row)
            /\ row.status = VerdictOf(w)
            /\ row.commit = exec[worker[w].job][worker[w].attempt].commit
            /\ row.evidence = EvidenceOf(w)
      BY <2>2 DEF ClosesAttempt
    <3>2. worker[w].pc = "finalize" /\ IsRunning(worker[w].job, worker[w].attempt)
      BY <1>4, <3>1 DEF Finalize, At, Rewrites
    <3>3. row.evidence # "none" => row.commit # NoCommit
      BY <3>1, <3>2, PublishedTree, NullAssumption DEF NullAssumption
    <3>4. VerdictOf(w) \notin {"absent", "running"}
      BY VerdictIsTerminal
    <3>5. RowPublishes(row)
      BY <3>1, <3>3, <3>4, OutcomeEvidence DEF RowPublishes
    <3> QED
      BY <1>1, <1>4, <3>1, <3>5, FinalizeShape, RewrittenRow
  <2> QED
    BY <1>4, <2>1, <2>2, FinalizeShape
<1>5. ASSUME NEW i \in Jobs, NEW m \in Attempts, Touches(i, m) PROVE RowPublishes(exec'[j][n])
  BY <1>1, <1>5, RewrittenRow DEF Touches, RowPublishes, IsRunning
<1>6. CASE UNCHANGED exec
  BY <1>1, <1>6
<1> QED
  BY <1>2, <1>3, <1>4, <1>5, <1>6, ExecShape

-------------------------------------------------------------------------------
(* The invariant the theorems below share.                                   *)

EvidenceInv == LeaseInv /\ BoundToTree /\ EvidenceMatchesVerdict

(* The strengthened invariant holds in every reachable state.                *)
LEMMA EvidenceInvariant == Spec => []EvidenceInv
<1>1. Init => EvidenceInv
  BY DEF Init, EvidenceInv, LeaseInv, NewestRuns, LeasesOpened, LeasesDistinct, BoundToTree,
      EvidenceMatchesVerdict, IsRunning, AbsentExec, IdleWorker
<1>2. TypeOK /\ WorkersCoherent /\ EvidenceInv /\ [Next]_vars => EvidenceInv'
  <2>1. TypeOK => ExecTyped
    BY DEF TypeOK, ExecTyped
  <2> QED
    BY <2>1, NewestRunsNext, LeasesNext, BoundToTreeNext, EvidenceNext DEF EvidenceInv, LeaseInv
<1> QED
  BY <1>1, <1>2, TypeCorrect, PTL DEF Spec

(* Every attempt's published evidence is what its verdict claims, and it is   *)
(* of a bound tree: the finalization transaction is a single commit point.   *)
THEOREM EvidenceIsSound == Spec => []EvidenceMatchesVerdict
<1>1. EvidenceInv => EvidenceMatchesVerdict
  BY DEF EvidenceInv
<1> QED
  BY <1>1, EvidenceInvariant, PTL

(* Only the holder of an attempt publishes its evidence, and of the tree the  *)
(* attempt is bound to.                                                      *)
THEOREM PublishedEvidenceIsOfTheBoundTree == Spec => EvidenceIsOfTheBoundTree
<1>1. TypeOK /\ WorkersCoherent /\ EvidenceInv /\ [Next]_vars
        => [\A j \in Jobs, n \in Attempts :
              exec'[j][n].evidence # exec[j][n].evidence
                => \E w \in Workers : Holds(w, j, n) /\ worker[w].tree = exec'[j][n].commit]_vars
  <2> SUFFICES ASSUME TypeOK, WorkersCoherent, EvidenceInv, [Next]_vars,
                      NEW j \in Jobs, NEW n \in Attempts,
                      exec'[j][n].evidence # exec[j][n].evidence
               PROVE  \E w \in Workers : Holds(w, j, n) /\ worker[w].tree = exec'[j][n].commit
    OBVIOUS
  <2>1. ExecTyped /\ BoundToTree /\ EvidenceMatchesVerdict
    BY DEF TypeOK, ExecTyped, EvidenceInv
  <2>2. ASSUME NEW w \in Workers, OpenExecution(w) PROVE exec'[j][n].evidence = exec[j][n].evidence
    <3>1. PICK m \in Attempts : worker[w].job \in Jobs /\ Inserts(worker[w].job, m)
      BY <2>2, OpenInserts
    <3>2. exec[worker[w].job][m].evidence = "none"
      BY <2>1, <3>1, InsertedRow DEF EvidenceMatchesVerdict
    <3>3. [AbsentExec EXCEPT !.status = "running"].evidence = "none"
      BY DEF AbsentExec
    <3> QED
      BY <2>1, <3>1, <3>2, <3>3 DEF Inserts, ExecTyped
  <2>3. ASSUME NEW w \in Workers, BindSnapshot(w) PROVE exec'[j][n].evidence = exec[j][n].evidence
    BY <2>1, <2>3, BindShape, RewrittenRow DEF Binds
  <2>4. ASSUME NEW i \in Jobs, NEW m \in Attempts, Touches(i, m)
        PROVE  exec'[j][n].evidence = exec[j][n].evidence
    BY <2>1, <2>4, RewrittenRow DEF Touches
  <2>5. PICK w \in Workers : Finalize(w)
    BY <2>1, <2>2, <2>3, <2>4, ExecShape
  <2>6. PICK row \in ExecRow :
          /\ Rewrites(worker[w].job, worker[w].attempt, row)
          /\ row.commit = exec[worker[w].job][worker[w].attempt].commit
          /\ row.evidence = EvidenceOf(w)
    BY <2>1, <2>5, FinalizeShape DEF ClosesAttempt
  <2>7. worker[w].job = j /\ worker[w].attempt = n /\ exec'[j][n] = row /\ IsRunning(j, n)
    BY <2>1, <2>5, <2>6, FinalizeShape, RewrittenRow
  <2>8. exec[j][n].evidence = "none"
    BY <2>1, <2>7 DEF EvidenceMatchesVerdict, IsRunning
  <2>9. row.commit = worker[w].tree
    BY <2>1, <2>5, <2>6, <2>7, <2>8, PublishedTree DEF Finalize, At
  <2> QED
    BY <2>7, <2>9 DEF Holds
<1> QED
  BY <1>1, TypeCorrect, EvidenceInvariant, PTL DEF Spec, EvidenceIsOfTheBoundTree

-------------------------------------------------------------------------------
(* The job row and the attempt rows in one step.                             *)

(* A step closes an attempt only by reaping it or by finalizing it. *)
LEMMA ClosingSteps ==
  ASSUME TypeOK, WorkersCoherent, [Next]_vars, NEW j \in Jobs, NEW n \in Attempts,
         IsRunning(j, n), exec'[j][n].status # "running"
  PROVE  \/ Reap(j, n) /\ exec'[j][n].status = "failed"
         \/ \E w \in Workers :
               /\ Finalize(w) /\ Holds(w, j, n) /\ exec'[j][n].status = VerdictOf(w)
               /\ ClosesJob(w, j, VerdictOf(w))
<1>1. ExecTyped /\ JobTyped
  BY DEF TypeOK, ExecTyped, JobTyped
<1>2. exec' # exec
  BY DEF IsRunning
<1>3. ASSUME NEW w \in Workers, OpenExecution(w) PROVE FALSE
  <2>1. PICK m \in Attempts : worker[w].job \in Jobs /\ Inserts(worker[w].job, m)
    BY <1>3, OpenInserts
  <2> QED
    BY <1>1, <2>1, InsertedRow DEF IsRunning
<1>4. ASSUME NEW w \in Workers, BindSnapshot(w) PROVE FALSE
  BY <1>1, <1>2, <1>4, BindShape, RewrittenRow DEF Binds, IsRunning
<1>5. ASSUME NEW w \in Workers, StartPhase(w) \/ ScanDone(w) PROVE FALSE
  <2>1. worker[w].pc \in InPipeline
    BY <1>5 DEF StartPhase, ScanDone, InPhase, At, InPipeline
  <2>2. worker[w].job \in Jobs /\ worker[w].attempt \in Attempts
    BY <2>1, HolderRow
  <2>3. UNCHANGED exec \/ Heartbeat(worker[w].job, worker[w].attempt)
    BY <1>5 DEF StartPhase, ScanDone
  <2>4. \A i \in Jobs, m \in Attempts : exec'[i][m].status = exec[i][m].status
    <3> DEFINE row == [exec[worker[w].job][worker[w].attempt] EXCEPT !.stale = FALSE]
    <3>1. exec[worker[w].job][worker[w].attempt] \in ExecRow
      BY <1>1, <2>2 DEF ExecTyped
    <3>2. row.status = exec[worker[w].job][worker[w].attempt].status
      BY <3>1 DEF ExecRow
    <3>3. UNCHANGED exec \/ exec' = [exec EXCEPT ![worker[w].job][worker[w].attempt] = row]
      BY <2>3 DEF Heartbeat
    <3> HIDE DEF row
    <3> QED
      BY <1>1, <2>2, <3>2, <3>3 DEF ExecTyped
  <2> QED
    BY <2>4 DEF IsRunning
<1>6. ASSUME NEW i \in Jobs, NEW m \in Attempts, HeartbeatAges(i, m) PROVE FALSE
  <2>1. \A k \in Jobs, l \in Attempts : exec'[k][l].status = exec[k][l].status
    BY <1>1, <1>6 DEF HeartbeatAges, ExecTyped, ExecRow
  <2> QED
    BY <2>1 DEF IsRunning
<1>7. ASSUME NEW i \in Jobs, NEW m \in Attempts, Reap(i, m)
      PROVE  Reap(j, n) /\ exec'[j][n].status = "failed"
  <2>1. Touches(i, m)
    BY <1>1, <1>7, ReapShape
  <2>2. i = j /\ m = n /\ exec'[j][n].status = "failed"
    BY <1>1, <2>1, RewrittenRow DEF Touches, IsRunning
  <2> QED
    BY <1>7, <2>2
<1>8. ASSUME NEW w \in Workers, Finalize(w)
      PROVE  /\ Holds(w, j, n) /\ exec'[j][n].status = VerdictOf(w)
             /\ ClosesJob(w, j, VerdictOf(w))
  <2>1. /\ worker[w].job \in Jobs /\ worker[w].attempt \in Attempts
        /\ ClosesAttempt(w, worker[w].job, worker[w].attempt, VerdictOf(w))
        /\ ClosesJob(w, worker[w].job, VerdictOf(w))
    BY <1>1, <1>2, <1>8, FinalizeRows
  <2>2. worker[w].job = j /\ worker[w].attempt = n /\ exec'[j][n].status = VerdictOf(w)
    BY <1>1, <2>1, RewrittenRow DEF ClosesAttempt, IsRunning
  <2> QED
    BY <2>1, <2>2 DEF Holds
<1> QED
  BY <1>2, <1>3, <1>4, <1>5, <1>6, <1>7, <1>8, ExecSteps

(* A cancellation that is pending when an attempt closes is honoured and      *)
(* consumed, by the verdict or by the reaper.                                *)
THEOREM CancellationsAreDecided == Spec => CancellationIsDecided
<1>1. TypeOK /\ WorkersCoherent /\ [Next]_vars
        => [\A j \in Jobs, n \in Attempts :
              IsRunning(j, n) /\ exec'[j][n].status # "running"
                => /\ job[j].cancel => exec'[j][n].status \notin {"completed", "partial"}
                   /\ ~job'[j].cancel]_vars
  <2> SUFFICES ASSUME TypeOK, WorkersCoherent, [Next]_vars, NEW j \in Jobs, NEW n \in Attempts,
                      IsRunning(j, n), exec'[j][n].status # "running"
               PROVE  /\ job[j].cancel => exec'[j][n].status \notin {"completed", "partial"}
                      /\ ~job'[j].cancel
    OBVIOUS
  <2>1. JobTyped
    BY DEF TypeOK, JobTyped
  <2>2. CASE Reap(j, n) /\ exec'[j][n].status = "failed"
    <3>1. job'[j].cancel = FALSE
      BY <2>1, <2>2 DEF Reap, JobTyped, JobRow
    <3> QED
      BY <2>2, <3>1
  <2>3. CASE \E w \in Workers :
               /\ Finalize(w) /\ Holds(w, j, n) /\ exec'[j][n].status = VerdictOf(w)
               /\ ClosesJob(w, j, VerdictOf(w))
    <3>1. PICK w \in Workers :
               Holds(w, j, n) /\ exec'[j][n].status = VerdictOf(w) /\ ClosesJob(w, j, VerdictOf(w))
      BY <2>3
    <3>2. job[j].cancel => VerdictOf(w) = "cancelled"
      BY <3>1, OutcomeEvidence DEF Holds
    <3>3. job'[j].cancel = FALSE
      BY <2>1, <3>1 DEF ClosesJob, JobTyped
    <3> QED
      BY <3>1, <3>2, <3>3
  <2> QED
    BY <2>2, <2>3, ClosingSteps
<1> QED
  BY <1>1, TypeCorrect, PTL DEF Spec, CancellationIsDecided

(* No endpoint, sweep, reaper or stale worker gives a job a verdict of its    *)
(* own: such a status comes with the attempt that ends with it.              *)
THEOREM VerdictsComeFromAttempts == Spec => VerdictComesFromAnAttempt
<1>1. TypeOK /\ WorkersCoherent /\ [Next]_vars
        => [\A j \in Jobs :
              /\ job'[j].status # job[j].status
              /\ job'[j].status \in {"completed", "partial", "cancelled"}
              => \E n \in Attempts : IsRunning(j, n) /\ exec'[j][n].status = job'[j].status]_vars
  <2> SUFFICES ASSUME TypeOK, WorkersCoherent, [Next]_vars, NEW j \in Jobs,
                      job'[j].status # job[j].status,
                      job'[j].status \in {"completed", "partial", "cancelled"}
               PROVE  \E n \in Attempts : IsRunning(j, n) /\ exec'[j][n].status = job'[j].status
    OBVIOUS
  <2>1. ExecTyped /\ JobTyped
    BY DEF TypeOK, ExecTyped, JobTyped
  <2>2. ~Administered
    BY <2>1 DEF Administered, Administers, JobTyped
  <2>3. PICK w \in Workers : Finalize(w)
    BY <2>1, <2>2, JobShape
  <2>4. /\ worker[w].job \in Jobs /\ worker[w].attempt \in Attempts
        /\ ClosesAttempt(w, worker[w].job, worker[w].attempt, VerdictOf(w))
        /\ ClosesJob(w, worker[w].job, VerdictOf(w))
    BY <2>1, <2>3, FinalizeRows
  <2>5. worker[w].job = j /\ job'[j].status = VerdictOf(w)
    BY <2>1, <2>4 DEF ClosesJob, JobTyped
  <2>6. /\ IsRunning(j, worker[w].attempt)
        /\ exec'[j][worker[w].attempt].status = VerdictOf(w)
    BY <2>1, <2>4, <2>5, RewrittenRow DEF ClosesAttempt
  <2> QED
    BY <2>4, <2>5, <2>6
<1> QED
  BY <1>1, TypeCorrect, PTL DEF Spec, VerdictComesFromAnAttempt

(* A completed attempt stays completed, and became so together with its job. *)
LEMMA CompletedRowsNext ==
  ASSUME TypeOK, WorkersCoherent, [Next]_vars, NEW j \in Jobs, NEW n \in Attempts
  PROVE  /\ exec[j][n].status = "completed" => exec'[j][n].status = "completed"
         /\ exec'[j][n].status = "completed" /\ exec[j][n].status # "completed"
              => \E w \in Workers : /\ Finalize(w) /\ Holds(w, j, n)
                                    /\ VerdictOf(w) = "completed" /\ ClosesJob(w, j, "completed")
<1>1. ExecTyped
  BY DEF TypeOK, ExecTyped
<1>2. exec'[j][n] # exec[j][n] => IsRunning(j, n) \/ exec'[j][n].status = "running"
  <2>1. ASSUME NEW i \in Jobs, NEW m \in Attempts, Inserts(i, m)
        PROVE  exec'[j][n] # exec[j][n] => exec'[j][n].status = "running"
    BY <1>1, <2>1, InsertedRow
  <2>2. ASSUME NEW i \in Jobs, NEW m \in Attempts, NEW row \in ExecRow, Rewrites(i, m, row)
        PROVE  exec'[j][n] # exec[j][n] => IsRunning(j, n)
    BY <1>1, <2>2, RewrittenRow
  <2> QED
    BY <1>1, <2>1, <2>2, ExecRows
<1>3. exec[j][n].status = "completed" => exec'[j][n] = exec[j][n]
  <2>1. ASSUME NEW i \in Jobs, NEW m \in Attempts, Inserts(i, m), exec[j][n].status = "completed"
        PROVE  exec'[j][n] = exec[j][n]
    BY <1>1, <2>1, InsertedRow
  <2>2. ASSUME NEW i \in Jobs, NEW m \in Attempts, NEW row \in ExecRow, Rewrites(i, m, row),
               exec[j][n].status = "completed"
        PROVE  exec'[j][n] = exec[j][n]
    BY <1>1, <2>2, RewrittenRow DEF IsRunning
  <2> QED
    BY <1>1, <2>1, <2>2, ExecRows
<1>4. ASSUME exec'[j][n].status = "completed", exec[j][n].status # "completed"
      PROVE  \E w \in Workers : /\ Finalize(w) /\ Holds(w, j, n)
                                /\ VerdictOf(w) = "completed" /\ ClosesJob(w, j, "completed")
  <2>1. IsRunning(j, n) /\ exec'[j][n].status # "running"
    BY <1>2, <1>4
  <2>2. PICK w \in Workers :
          /\ Finalize(w) /\ Holds(w, j, n) /\ exec'[j][n].status = VerdictOf(w)
          /\ ClosesJob(w, j, VerdictOf(w))
    BY <1>4, <2>1, ClosingSteps
  <2>3. VerdictOf(w) = "completed"
    BY <1>4, <2>2
  <2> QED
    BY <2>2, <2>3
<1> QED
  BY <1>3, <1>4

(* A completed job keeps the completed attempt that made it so.              *)
LEMMA CompletedAgreesNext ==
  ASSUME TypeOK, WorkersCoherent, CompletedAgrees, [Next]_vars
  PROVE  CompletedAgrees'
<1> SUFFICES ASSUME NEW j \in Jobs
             PROVE  /\ job'[j].status = "completed" <=> \E n \in Attempts : exec'[j][n].status = "completed"
                    /\ job'[j].score <=> job'[j].status = "completed"
  BY DEF CompletedAgrees
<1>1. ExecTyped /\ JobTyped
  BY DEF TypeOK, ExecTyped, JobTyped
<1>2. /\ job[j].status = "completed" <=> \E n \in Attempts : exec[j][n].status = "completed"
      /\ job[j].score <=> job[j].status = "completed"
  BY DEF CompletedAgrees
<1>3. CASE \E n \in Attempts : exec'[j][n].status = "completed" /\ exec[j][n].status # "completed"
  <2>1. PICK n \in Attempts : exec'[j][n].status = "completed" /\ exec[j][n].status # "completed"
    BY <1>3
  <2>2. PICK w \in Workers : VerdictOf(w) = "completed" /\ ClosesJob(w, j, "completed")
    BY <2>1, CompletedRowsNext
  <2>3. worker[w].coverage = "complete"
    BY <2>2, OutcomeEvidence
  <2>4. CASE job[j].status = "completed"
    <3>1. job'[j].status = "completed" /\ job'[j].score = job[j].score
      BY <1>1, <2>2, <2>4 DEF ClosesJob, JobTyped
    <3> QED
      BY <1>2, <2>1, <2>4, <3>1
  <2>5. CASE job[j].status # "completed"
    <3>1. job'[j].status = "completed" /\ job'[j].score
      BY <1>1, <2>2, <2>3, <2>5 DEF ClosesJob, JobTyped
    <3> QED
      BY <2>1, <3>1
  <2> QED
    BY <2>4, <2>5
<1>4. CASE \A n \in Attempts : exec'[j][n].status = "completed" <=> exec[j][n].status = "completed"
  <2> SUFFICES /\ job'[j].status = "completed" <=> job[j].status = "completed"
               /\ job'[j].score = job[j].score
    BY <1>2, <1>4
  <2>1. CASE UNCHANGED job
    BY <2>1
  <2>2. CASE Administered
    BY <1>1, <2>2 DEF Administered, Administers, JobTyped
  <2>3. ASSUME NEW w \in Workers, Finalize(w)
        PROVE  /\ job'[j].status = "completed" <=> job[j].status = "completed"
               /\ job'[j].score = job[j].score
    <3>1. /\ worker[w].job \in Jobs /\ worker[w].attempt \in Attempts
          /\ \/ UNCHANGED <<job, exec>>
             \/ /\ ClosesAttempt(w, worker[w].job, worker[w].attempt, VerdictOf(w))
                /\ ClosesJob(w, worker[w].job, VerdictOf(w))
      BY <1>1, <2>3, FinalizeRows
    <3>2. CASE UNCHANGED <<job, exec>>
      BY <3>2
    <3>3. CASE worker[w].job # j
      BY <1>1, <3>1, <3>3 DEF ClosesJob, JobTyped
    <3>4. CASE /\ worker[w].job = j
               /\ ClosesAttempt(w, j, worker[w].attempt, VerdictOf(w))
               /\ ClosesJob(w, j, VerdictOf(w))
      <4>1. /\ exec[j][worker[w].attempt].status = "running"
            /\ exec'[j][worker[w].attempt].status = VerdictOf(w)
        BY <1>1, <3>1, <3>4, RewrittenRow DEF ClosesAttempt, IsRunning
      <4>2. VerdictOf(w) # "completed"
        BY <1>4, <3>1, <4>1
      <4>3. job[j].status # "completed" => job'[j].status = VerdictOf(w) /\ job'[j].score = FALSE
        BY <1>1, <3>4, <4>2 DEF ClosesJob, JobTyped
      <4>4. job[j].status = "completed" => job'[j].status = "completed" /\ job'[j].score = job[j].score
        BY <1>1, <3>4 DEF ClosesJob, JobTyped
      <4>5. job[j].score \in BOOLEAN
        BY <1>1 DEF JobTyped, JobRow
      <4> QED
        BY <1>2, <4>2, <4>3, <4>4, <4>5
    <3> QED
      BY <3>1, <3>2, <3>3, <3>4
  <2> QED
    BY <1>1, <2>1, <2>2, <2>3, JobShape
<1> QED
  BY <1>3, <1>4, CompletedRowsNext

(* A job is completed, and scored, exactly when one of its attempts is: the   *)
(* two updates of the finalization transaction never come apart.             *)
THEOREM CompletionAgrees == Spec => []CompletedAgrees
<1>1. Init => CompletedAgrees
  BY DEF Init, CompletedAgrees, QueuedJob, AbsentExec
<1>2. TypeOK /\ WorkersCoherent /\ CompletedAgrees /\ [Next]_vars => CompletedAgrees'
  BY CompletedAgreesNext
<1> QED
  BY <1>1, <1>2, TypeCorrect, PTL DEF Spec

-------------------------------------------------------------------------------
(* A prompt environment: no worker stalls past the cutoff and sweeps do not   *)
(* overlap. Then a job belongs to one actor at a time: to the one worker      *)
(* between its claim and its lease, to the attempt that runs, or to the sweep *)
(* that found it stuck.                                                      *)

(* A worker that has claimed a job and not yet opened or given up its attempt. *)
Engaged(w) == worker[w].pc \in PreLease \cup {"refused"}

Unopened(j) == job[j].status = "running" /\ ~HasRunning(j)

EngagedAlone ==
    \A w \in Workers : Engaged(w) =>
        /\ Unopened(worker[w].job) /\ job[worker[w].job].started = "fresh"
        /\ worker[w].pc # "reopen"
        /\ \A v \in Workers : Engaged(v) /\ worker[v].job = worker[w].job => v = w

SweptIdle == \A s \in Sweepers : \A j \in swept[s] : Unopened(j) /\ job[j].started # "fresh"

RunsTogether == \A j \in Jobs : HasRunning(j) => job[j].status = "running"

OneOwner == EngagedAlone /\ SweptIdle /\ RunsTogether

(* What a step leaves as it was of a job: its status, its start, and of each  *)
(* attempt the status and the evidence.                                      *)
Untouched(j) ==
    /\ job'[j].status = job[j].status
    /\ job'[j].started = job[j].started
    /\ \A n \in Attempts : /\ exec'[j][n].status = exec[j][n].status
                           /\ exec'[j][n].evidence = exec[j][n].evidence

NobodyEngages ==
    \A w \in Workers : Engaged(w)' =>
        Engaged(w) /\ worker'[w].job = worker[w].job /\ worker'[w].pc # "reopen"

(* A step that changes no job, and one that decides what its owner does of k. *)
Quiet == NobodyEngages /\ UNCHANGED swept /\ \A j \in Jobs : Untouched(j)

Decides(k) ==
    /\ NobodyEngages
    /\ \A s \in Sweepers : swept'[s] = swept[s] \ {k}
    /\ \A j \in Jobs \ {k} : Untouched(j)
    /\ \A w \in Workers : ~(Engaged(w)' /\ worker[w].job = k)
    /\ (\E n \in Attempts : exec'[k][n].status = "running") => job'[k].status = "running"

(* Whatever the step leaves alone keeps its owner. *)
LEMMA QuietKeepsOwner ==
  ASSUME TypeOK, WorkersCoherent, OneOwner, Quiet
  PROVE  OneOwner'
<1>1. \A j \in Jobs : (HasRunning(j)' <=> HasRunning(j)) /\ (Unopened(j)' <=> Unopened(j))
  BY DEF Quiet, Untouched, HasRunning, IsRunning, Unopened
<1>2. \A w \in Workers : Engaged(w) => worker[w].job \in Jobs
  BY DEF WorkersCoherent, Coherent, Engaged, PreLease
<1>3. EngagedAlone'
  BY <1>1, <1>2 DEF OneOwner, EngagedAlone, Quiet, Untouched, NobodyEngages
<1>4. SweptIdle'
  BY <1>1 DEF OneOwner, SweptIdle, Quiet, Untouched, TypeOK
<1>5. RunsTogether'
  BY <1>1 DEF OneOwner, RunsTogether, Quiet, Untouched
<1> QED
  BY <1>3, <1>4, <1>5 DEF OneOwner

(* A decided job has no owner but, if it was opened, its running attempt. *)
LEMMA DecidingKeepsOwner ==
  ASSUME TypeOK, WorkersCoherent, OneOwner, NEW k \in Jobs, Decides(k)
  PROVE  OneOwner'
<1>1. \A j \in Jobs \ {k} : (HasRunning(j)' <=> HasRunning(j)) /\ (Unopened(j)' <=> Unopened(j))
  BY DEF Decides, Untouched, HasRunning, IsRunning, Unopened
<1>2. \A w \in Workers : Engaged(w)' => worker[w].job \in Jobs \ {k}
  BY DEF WorkersCoherent, Coherent, Engaged, PreLease, Decides, NobodyEngages
<1>3. EngagedAlone'
  BY <1>1, <1>2 DEF OneOwner, EngagedAlone, Decides, Untouched, NobodyEngages
<1>4. SweptIdle'
  BY <1>1 DEF OneOwner, SweptIdle, Decides, Untouched, TypeOK
<1>5. RunsTogether'
  BY <1>1 DEF OneOwner, RunsTogether, Decides, Untouched, HasRunning, IsRunning
<1> QED
  BY <1>3, <1>4, <1>5 DEF OneOwner

(* A claim takes a queued job, which has no owner. *)
LEMMA ClaimKeepsOwner ==
  ASSUME TypeOK, WorkersCoherent, OneOwner, NEW w \in Workers, Claim(w)
  PROVE  OneOwner'
<1>1. PICK k \in Jobs :
        /\ job[k].status = "queued"
        /\ job' = [job EXCEPT ![k].status = "running", ![k].started = "fresh"]
        /\ worker' = [worker EXCEPT ![w].pc = "claimed", ![w].job = k]
  BY DEF Claim
<1>2. UNCHANGED <<exec, swept>>
  BY DEF Claim
<1>3. /\ job'[k].status = "running" /\ job'[k].started = "fresh"
      /\ \A j \in Jobs \ {k} : job'[j] = job[j]
  BY <1>1 DEF TypeOK, JobRow
<1>4. /\ worker'[w].job = k /\ worker'[w].pc = "claimed"
      /\ \A v \in Workers \ {w} : worker'[v] = worker[v]
  BY <1>1 DEF WorkersCoherent, WorkerState
<1>5. \A j \in Jobs : HasRunning(j)' <=> HasRunning(j)
  BY <1>2 DEF HasRunning, IsRunning
<1>6. ~HasRunning(k) /\ \A v \in Workers : ~(Engaged(v) /\ worker[v].job = k)
  BY <1>1 DEF OneOwner, RunsTogether, EngagedAlone, Unopened
<1>7. \A j \in Jobs : Unopened(j) \/ j = k => Unopened(j)'
  BY <1>3, <1>5, <1>6 DEF Unopened
<1>8. \A v \in Workers : Engaged(v) => worker[v].job \in Jobs
  BY DEF WorkersCoherent, Coherent, Engaged, PreLease
<1>9. EngagedAlone'
  BY <1>3, <1>4, <1>6, <1>7, <1>8 DEF OneOwner, EngagedAlone, Engaged
<1>10. SweptIdle'
  <2>1. \A s \in Sweepers : swept[s] \subseteq Jobs /\ k \notin swept[s]
    BY <1>1 DEF OneOwner, SweptIdle, Unopened, TypeOK
  <2> QED
    BY <2>1, <1>2, <1>3, <1>7 DEF OneOwner, SweptIdle
<1>11. RunsTogether'
  BY <1>3, <1>5, <1>6 DEF OneOwner, RunsTogether
<1> QED
  BY <1>9, <1>10, <1>11 DEF OneOwner

(* A start ages only once the worker that claimed the job has its lease. *)
LEMMA AgingKeepsOwner ==
  ASSUME Prompt, TypeOK, WorkersCoherent, OneOwner, NEW k \in Jobs, StartAges(k)
  PROVE  OneOwner'
<1>1. \A v \in Workers : Engaged(v) => worker[v].job \in Jobs \ {k}
  BY DEF WorkersCoherent, Coherent, Engaged, PreLease, StartAges, Prompt
<1>2. /\ UNCHANGED <<exec, worker, swept>>
      /\ job'[k].started = "old" /\ job'[k].status = job[k].status
      /\ \A j \in Jobs \ {k} : job'[j] = job[j]
  BY DEF StartAges, TypeOK, JobRow
<1>3. \A j \in Jobs : (HasRunning(j)' <=> HasRunning(j)) /\ (Unopened(j)' <=> Unopened(j))
  BY <1>2 DEF HasRunning, IsRunning, Unopened
<1>4. EngagedAlone'
  BY <1>1, <1>2, <1>3 DEF OneOwner, EngagedAlone, Engaged
<1>5. SweptIdle'
  BY <1>2, <1>3 DEF OneOwner, SweptIdle, TypeOK
<1>6. RunsTogether'
  BY <1>2, <1>3 DEF OneOwner, RunsTogether
<1> QED
  BY <1>4, <1>5, <1>6 DEF OneOwner

(* A sweep lists only jobs that nobody has opened and whose claim is old. *)
LEMMA ScanKeepsOwner ==
  ASSUME TypeOK, OneOwner, NEW s \in Sweepers, SweepScan(s)
  PROVE  OneOwner'
<1>1. UNCHANGED <<job, exec, worker>>
  BY DEF SweepScan
<1>2. \A j \in Jobs : (HasRunning(j)' <=> HasRunning(j)) /\ (Unopened(j)' <=> Unopened(j))
  BY <1>1 DEF HasRunning, IsRunning, Unopened
<1>3. \A t \in Sweepers : swept'[t] \subseteq Jobs /\ \A j \in swept'[t] : j \in swept[t] \/ Stuck(j)
  BY DEF SweepScan, TypeOK
<1>4. SweptIdle'
  BY <1>1, <1>2, <1>3 DEF OneOwner, SweptIdle, Stuck, Unopened
<1>5. EngagedAlone' /\ RunsTogether'
  BY <1>1 DEF OneOwner, EngagedAlone, RunsTogether, Unopened, HasRunning, IsRunning, Engaged
<1> QED
  BY <1>4, <1>5 DEF OneOwner

-------------------------------------------------------------------------------
(* Each step of a prompt environment is of one of these kinds.               *)

(* A worker that leaves the claim behind, or was past it already. *)
Released(w) == ~Engaged(w)' /\ \A v \in Workers \ {w} : worker'[v] = worker[v]

(* A release makes nobody else engaged.                                       *)
LEMMA ReleasedEngagesNobody ==
  ASSUME EngagedAlone, NEW w \in Workers, Released(w)
  PROVE  NobodyEngages
BY DEF Released, NobodyEngages, EngagedAlone, Engaged

(* A worker moved to a point outside the claim is released. *)
LEMMA SetReleases ==
  ASSUME WorkersCoherent, NEW w \in Workers, NEW r, worker' = [worker EXCEPT ![w] = r],
         r.pc \in {"idle", "phase", "finalize", "step", "bind", "reported"}
  PROVE  Released(w)
BY DEF WorkersCoherent, Released, Engaged, PreLease

(* Every move of a worker to such a point is a release.                       *)
LEMMA MoveReleases ==
  ASSUME WorkersCoherent, NEW w \in Workers,
         \/ GoIdle(w) \/ Goto(w, "phase")
         \/ \E outcome \in {"failed", "cancelled"} : Abort(w, outcome)
         \/ \E outcome \in {"completed", "partial"} : Deliver(w, outcome)
         \/ \E p \in Phases, coverage \in {"none", "partial", "complete"} : NextStep(w, p, coverage)
         \/ \E n \in Attempts : worker' = [worker EXCEPT ![w].pc = "step", ![w].attempt = n]
         \/ \E c \in Commits : worker' = [worker EXCEPT ![w].pc = "bind", ![w].tree = c]
         \/ worker' = [worker EXCEPT ![w] = Keep(w, "reported")]
  PROVE  Released(w)
<1>1. worker[w] \in WorkerState
  BY DEF WorkersCoherent
<1>2. CASE GoIdle(w)
  BY <1>2, SetReleases DEF GoIdle, IdleWorker
<1>3. CASE Goto(w, "phase")
  <2>1. worker' = [worker EXCEPT ![w] = [worker[w] EXCEPT !.pc = "phase"]]
    BY <1>3 DEF Goto
  <2> QED
    BY <1>1, <2>1, SetReleases DEF WorkerState
<1>4. ASSUME NEW outcome \in {"failed", "cancelled"}, Abort(w, outcome) PROVE Released(w)
  <2>1. [Keep(w, "finalize") EXCEPT !.outcome = outcome].pc = "finalize"
    BY DEF Keep, IdleWorker
  <2> QED
    BY <1>4, <2>1, SetReleases DEF Abort
<1>5. ASSUME NEW outcome \in {"completed", "partial"}, Deliver(w, outcome) PROVE Released(w)
  <2> DEFINE r == [worker[w] EXCEPT !.pc = "finalize", !.phase = "fetch", !.outcome = outcome]
  <2>1. worker' = [worker EXCEPT ![w] = r] /\ r.pc = "finalize"
    BY <1>1, <1>5 DEF Deliver, WorkerState
  <2> QED
    BY <2>1, SetReleases
<1>6. ASSUME NEW p \in Phases, NEW coverage \in {"none", "partial", "complete"}, NextStep(w, p, coverage)
      PROVE  Released(w)
  <2> DEFINE r == [worker[w] EXCEPT !.pc = "step", !.phase = PhaseAfter[p], !.coverage = coverage]
  <2>1. worker' = [worker EXCEPT ![w] = r] /\ r.pc = "step"
    BY <1>1, <1>6 DEF NextStep, WorkerState
  <2> QED
    BY <2>1, SetReleases
<1>7. ASSUME NEW n \in Attempts, worker' = [worker EXCEPT ![w].pc = "step", ![w].attempt = n]
      PROVE  Released(w)
  <2> DEFINE r == [worker[w] EXCEPT !.pc = "step", !.attempt = n]
  <2>1. worker' = [worker EXCEPT ![w] = r] /\ r.pc = "step"
    BY <1>1, <1>7 DEF WorkerState
  <2> QED
    BY <2>1, SetReleases
<1>8. ASSUME NEW c \in Commits, worker' = [worker EXCEPT ![w].pc = "bind", ![w].tree = c]
      PROVE  Released(w)
  <2> DEFINE r == [worker[w] EXCEPT !.pc = "bind", !.tree = c]
  <2>1. worker' = [worker EXCEPT ![w] = r] /\ r.pc = "bind"
    BY <1>1, <1>8 DEF WorkerState
  <2> QED
    BY <2>1, SetReleases
<1>9. CASE worker' = [worker EXCEPT ![w] = Keep(w, "reported")]
  <2>1. Keep(w, "reported").pc = "reported"
    BY DEF Keep, IdleWorker
  <2> QED
    BY <1>9, <2>1, SetReleases
<1> QED
  BY <1>2, <1>3, <1>4, <1>5, <1>6, <1>7, <1>8, <1>9

(* A worker that goes on towards its lease, still alone on its job. *)
LEMMA EngagedGoesOn ==
  ASSUME WorkersCoherent, EngagedAlone, NEW w \in Workers, Engaged(w),
         NEW pc \in Points \ {"reopen"}, Goto(w, pc)
  PROVE  NobodyEngages
<1>1. worker[w] \in WorkerState
  BY DEF WorkersCoherent
<1>2. /\ worker'[w].job = worker[w].job /\ worker'[w].pc = pc
      /\ \A v \in Workers \ {w} : worker'[v] = worker[v]
  BY <1>1 DEF WorkersCoherent, WorkerState, Goto
<1> QED
  BY <1>2 DEF NobodyEngages, EngagedAlone, Engaged

(* Tables no step touched, or whose heartbeats and requests alone it touched. *)
LEMMA SameTables ==
  ASSUME UNCHANGED <<job, exec>>
  PROVE  \A j \in Jobs : Untouched(j)
BY DEF Untouched

(* A heartbeat, or its aging, changes neither status nor evidence.            *)
LEMMA HeartbeatTouchesNothing ==
  ASSUME ExecTyped, NEW j \in Jobs, NEW n \in Attempts, Heartbeat(j, n) \/ HeartbeatAges(j, n)
  PROVE  \A i \in Jobs, m \in Attempts : /\ exec'[i][m].status = exec[i][m].status
                                         /\ exec'[i][m].evidence = exec[i][m].evidence
<1>1. exec[j][n] \in ExecRow
  BY DEF ExecTyped
<1>2. ASSUME NEW stale \in BOOLEAN, exec' = [exec EXCEPT ![j][n].stale = stale]
      PROVE  \A i \in Jobs, m \in Attempts : /\ exec'[i][m].status = exec[i][m].status
                                            /\ exec'[i][m].evidence = exec[i][m].evidence
  <2> DEFINE row == [exec[j][n] EXCEPT !.stale = stale]
  <2>1. row.status = exec[j][n].status /\ row.evidence = exec[j][n].evidence
    BY <1>1 DEF ExecRow
  <2>2. exec' = [exec EXCEPT ![j][n] = row]
    BY <1>2
  <2> HIDE DEF row
  <2> QED
    BY <2>1, <2>2 DEF ExecTyped
<1> QED
  BY <1>2 DEF Heartbeat, HeartbeatAges

(* From the claim to the insert the job's row is as the claim left it, so the *)
(* admission, the re-claim and the launch change nothing.                    *)
LEMMA ClaimIsQuiet ==
  ASSUME TypeOK, WorkersCoherent, OneOwner, NEW w \in Workers,
         \/ Admit(w) \/ ClaimForExecution(w) \/ CheckRunning(w) \/ ReadStatus(w)
         \/ Reopen(w) \/ Launch(w) \/ OpenConflict(w)
  PROVE  Quiet
<1>1. EngagedAlone /\ Engaged(w)
  BY DEF OneOwner, Engaged, PreLease, Admit, ClaimForExecution, CheckRunning, ReadStatus, Reopen, Launch,
      OpenConflict, At
<1>2. job[worker[w].job].status = "running" /\ worker[w].pc # "reopen"
  BY <1>1 DEF EngagedAlone, Unopened
<1>3. UNCHANGED <<job, exec, swept>>
  BY <1>2 DEF Admit, ClaimForExecution, CheckRunning, ReadStatus, Reopen, Launch, OpenConflict, OnlyWorker, At
<1>4. \E pc \in {"admitted", "begin", "refused", "status", "launch", "open"} : Goto(w, pc)
  BY <1>2 DEF Admit, ClaimForExecution, CheckRunning, ReadStatus, Reopen, Launch, OpenConflict, At,
      Terminal, Retryable
<1>5. {"admitted", "begin", "refused", "status", "launch", "open"} \subseteq Points \ {"reopen"}
  BY DEF Points, PreLease
<1> QED
  BY <1>1, <1>3, <1>4, <1>5, EngagedGoesOn, SameTables DEF Quiet

(* The pipeline writes the job's commit, the attempt's commit and heartbeats. *)
LEMMA PipelineIsQuiet ==
  ASSUME TypeOK, WorkersCoherent, OneOwner, NEW w \in Workers,
         \/ StartPhase(w) \/ FetchDone(w) \/ BindSnapshot(w) \/ ScanDone(w)
         \/ NormalizeDone(w) \/ ComputeDone(w) \/ DeliverDone(w) \/ PhaseFails(w) \/ Reported(w)
  PROVE  Quiet
<1>1. ExecTyped /\ JobTyped /\ EngagedAlone
  BY DEF TypeOK, ExecTyped, JobTyped, OneOwner
<1>2. UNCHANGED swept
  BY DEF StartPhase, FetchDone, BindSnapshot, ScanDone, NormalizeDone, ComputeDone, DeliverDone, PhaseFails,
      Reported, OnlyWorker
<1>3. worker[w] \in WorkerState
  BY DEF WorkersCoherent
<1>4. Released(w)
  <2>1. CASE StartPhase(w)
    BY <2>1, MoveReleases DEF StartPhase
  <2>2. CASE FetchDone(w)
    BY <2>2, MoveReleases DEF FetchDone
  <2>3. CASE BindSnapshot(w)
    <3>1. "fetch" \in Phases
      BY DEF Phases, PhaseAfter
    <3> QED
      BY <2>3, <3>1, MoveReleases DEF BindSnapshot
  <2>4. CASE ScanDone(w) \/ NormalizeDone(w) \/ ComputeDone(w)
    <3>1. {"scan", "normalize", "score", "report"} \subseteq Phases
      BY DEF Phases, PhaseAfter
    <3>2. \E p \in Phases, coverage \in {"none", "partial", "complete"} : NextStep(w, p, coverage)
      BY <1>3, <2>4, <3>1 DEF ScanDone, NormalizeDone, ComputeDone, WorkerState
    <3> QED
      BY <3>2, MoveReleases
  <2>5. CASE DeliverDone(w)
    BY <2>5, MoveReleases DEF DeliverDone
  <2>6. CASE PhaseFails(w)
    BY <2>6, MoveReleases DEF PhaseFails
  <2>7. CASE Reported(w)
    BY <2>7, MoveReleases DEF Reported
  <2> QED
    BY <2>1, <2>2, <2>3, <2>4, <2>5, <2>6, <2>7
<1>5. \A j \in Jobs : Untouched(j)
  <2>1. CASE StartPhase(w) \/ ScanDone(w)
    <3>1. worker[w].job \in Jobs /\ worker[w].attempt \in Attempts
      BY <2>1, HolderRow DEF StartPhase, ScanDone, InPhase, At, InPipeline
    <3>2. UNCHANGED job /\ (UNCHANGED exec \/ Heartbeat(worker[w].job, worker[w].attempt))
      BY <2>1 DEF StartPhase, ScanDone
    <3> QED
      BY <1>1, <3>1, <3>2, HeartbeatTouchesNothing DEF Untouched
  <2>2. CASE FetchDone(w)
    <3>1. PICK c \in Commits : UNCHANGED exec /\ job' = [job EXCEPT ![worker[w].job].commit = c]
      BY <2>2 DEF FetchDone
    <3> QED
      BY <1>1, <3>1 DEF Untouched, JobTyped, JobRow
  <2>3. CASE BindSnapshot(w)
    <3>1. UNCHANGED job
      BY <2>3 DEF BindSnapshot
    <3>2. CASE UNCHANGED exec
      BY <3>1, <3>2, SameTables
    <3>3. CASE Binds(w, worker[w].job, worker[w].attempt)
      <4>1. PICK row \in ExecRow :
              /\ Rewrites(worker[w].job, worker[w].attempt, row)
              /\ row.status = "running"
              /\ row.evidence = exec[worker[w].job][worker[w].attempt].evidence
        BY <3>3 DEF Binds
      <4> QED
        BY <1>1, <2>3, <3>1, <4>1, BindShape, RewrittenRow DEF Untouched, IsRunning
    <3> QED
      BY <1>1, <2>3, <3>2, <3>3, BindShape
  <2>4. CASE NormalizeDone(w) \/ ComputeDone(w) \/ DeliverDone(w) \/ PhaseFails(w) \/ Reported(w)
    BY <2>4, SameTables DEF NormalizeDone, ComputeDone, DeliverDone, PhaseFails, Reported, OnlyWorker
  <2> QED
    BY <2>1, <2>2, <2>3, <2>4
<1> QED
  BY <1>1, <1>2, <1>4, <1>5, ReleasedEngagesNobody DEF Quiet

(* A fault touches no table; without stalls the outer timeout cannot strike. *)
LEMMA DisturbIsQuiet ==
  ASSUME Prompt, TypeOK, WorkersCoherent, OneOwner, NEW w \in Workers, Disturb(w)
  PROVE  Quiet
<1>1. EngagedAlone /\ UNCHANGED <<job, exec, swept>>
  BY DEF OneOwner, Disturb, BudgetExpires, Crash, DatabaseError, OuterTimeout, OnlyWorker
<1>2. CASE BudgetExpires(w) \/ Crash(w)
  BY <1>1, <1>2, MoveReleases, ReleasedEngagesNobody, SameTables DEF Quiet, BudgetExpires, Crash
<1>3. CASE DatabaseError(w)
  <2>1. CASE \/ GoIdle(w) \/ Goto(w, "phase") \/ worker' = [worker EXCEPT ![w] = Keep(w, "reported")]
    BY <1>1, <2>1, MoveReleases, ReleasedEngagesNobody, SameTables DEF Quiet
  <2>2. CASE worker[w].pc \in PreLease /\ \E pc \in {"begin", "refused", "open"} : Goto(w, pc)
    <3>1. {"begin", "refused", "open"} \subseteq Points \ {"reopen"}
      BY DEF Points, PreLease
    <3> QED
      BY <1>1, <2>2, <3>1, EngagedGoesOn, SameTables DEF Quiet, Engaged
  <2> QED
    BY <1>3, <2>1, <2>2 DEF DatabaseError, At, PreLease
<1> QED
  BY <1>2, <1>3 DEF Disturb, OuterTimeout, Prompt

(* A cancellation, the first steps of a retry and an aging heartbeat decide nothing. *)
LEMMA RequestIsQuiet ==
  ASSUME TypeOK, WorkersCoherent, OneOwner, NEW j \in Jobs,
         \/ Cancel(j) \/ RetryRead(j) \/ RetryCount(j) \/ \E n \in Attempts : HeartbeatAges(j, n)
  PROVE  Quiet
<1>1. ExecTyped /\ JobTyped
  BY DEF TypeOK, ExecTyped, JobTyped
<1>2. NobodyEngages /\ UNCHANGED swept
  BY DEF Cancel, RetryRead, RetryCount, HeartbeatAges, NobodyEngages, Engaged, OneOwner, EngagedAlone
<1>3. \A i \in Jobs : Untouched(i)
  <2>1. CASE Cancel(j)
    BY <1>1, <2>1 DEF Cancel, Untouched, JobTyped, JobRow
  <2>2. CASE RetryRead(j) \/ RetryCount(j)
    BY <2>2, SameTables DEF RetryRead, RetryCount
  <2>3. CASE \E n \in Attempts : HeartbeatAges(j, n)
    BY <1>1, <2>3, HeartbeatTouchesNothing DEF HeartbeatAges, Untouched
  <2> QED
    BY <2>1, <2>2, <2>3
<1> QED
  BY <1>2, <1>3 DEF Quiet

-------------------------------------------------------------------------------
(* The steps that decide what becomes of a job.                              *)

(* At most one attempt of a job runs at a time.                               *)
LEMMA OneAttemptRuns ==
  ASSUME NewestRuns, NEW j \in Jobs, NEW n \in Attempts, NEW m \in Attempts, IsRunning(j, n), IsRunning(j, m)
  PROVE  m = n
<1>1. ~(m > n) /\ ~(n > m)
  BY DEF NewestRuns, IsRunning
<1> QED
  BY <1>1, BoundsAssumption DEF Attempts, BoundsAssumption

(* A job with a running attempt, or with a worker about to open one, is on   *)
(* no sweep's list; and no worker is engaged on a job that has an attempt.   *)
LEMMA OwnersExclude ==
  ASSUME OneOwner, NEW k \in Jobs
  PROVE  /\ HasRunning(k) \/ (\E w \in Workers : Engaged(w) /\ worker[w].job = k) \/ job[k].status # "running"
              => \A s \in Sweepers : k \notin swept[s]
         /\ HasRunning(k) \/ (\E s \in Sweepers : k \in swept[s]) \/ job[k].status # "running"
              => \A w \in Workers : ~(Engaged(w) /\ worker[w].job = k)
BY DEF OneOwner, EngagedAlone, SweptIdle, Unopened

(* The insert turns the worker's claim into a running attempt.                *)
LEMMA OpenDecides ==
  ASSUME TypeOK, WorkersCoherent, OneOwner, NEW w \in Workers, OpenExecution(w)
  PROVE  worker[w].job \in Jobs /\ Decides(worker[w].job) /\ job[worker[w].job].status = "running"
<1> DEFINE k == worker[w].job
<1>1. EngagedAlone /\ Engaged(w) /\ ExecTyped
  BY DEF OneOwner, Engaged, PreLease, OpenExecution, At, TypeOK, ExecTyped
<1>2. PICK n \in Attempts :
        /\ k \in Jobs /\ Inserts(k, n)
        /\ worker' = [worker EXCEPT ![w].pc = "step", ![w].attempt = n]
  BY OpenInserts
<1>3. job[k].status = "running" /\ UNCHANGED <<job, swept>>
  BY <1>1 DEF EngagedAlone, Unopened, OpenExecution
<1>4. Released(w) /\ NobodyEngages
  BY <1>1, <1>2, MoveReleases, ReleasedEngagesNobody
<1>5. \A v \in Workers : ~(Engaged(v)' /\ worker[v].job = k)
  BY <1>1, <1>4 DEF EngagedAlone, NobodyEngages, Released
<1>6. \A j \in Jobs \ {k} : Untouched(j)
  BY <1>1, <1>2, <1>3, InsertedRow DEF Untouched
<1>7. \A s \in Sweepers : swept'[s] = swept[s] \ {k}
  BY <1>1, <1>2, <1>3, OwnersExclude
<1> QED
  BY <1>2, <1>3, <1>4, <1>5, <1>6, <1>7 DEF Decides

(* A refused worker fails the job it alone is engaged on.                     *)
LEMMA FailDecides ==
  ASSUME TypeOK, WorkersCoherent, OneOwner, NEW w \in Workers, FailUnowned(w)
  PROVE  /\ worker[w].job \in Jobs /\ Decides(worker[w].job) /\ Unopened(worker[w].job)
         /\ UNCHANGED exec /\ job' = [job EXCEPT ![worker[w].job].status = "failed"]
<1> DEFINE k == worker[w].job
<1>1. EngagedAlone /\ Engaged(w) /\ JobTyped /\ k \in Jobs
  BY BusyJob DEF OneOwner, Engaged, FailUnowned, At, TypeOK, JobTyped
<1>2. Unopened(k)
  BY <1>1 DEF EngagedAlone
<1>3. UNCHANGED <<exec, swept>> /\ job' = [job EXCEPT ![k].status = "failed"]
  BY <1>2 DEF FailUnowned, Unopened, Live
<1>4. Released(w) /\ NobodyEngages
  BY <1>1, MoveReleases, ReleasedEngagesNobody DEF FailUnowned
<1>5. \A v \in Workers : ~(Engaged(v)' /\ worker[v].job = k)
  BY <1>1, <1>4 DEF EngagedAlone, NobodyEngages, Released
<1>6. \A j \in Jobs \ {k} : Untouched(j)
  BY <1>1, <1>3 DEF Untouched, JobTyped
<1>7. \A s \in Sweepers : swept'[s] = swept[s] \ {k}
  BY <1>1, <1>3, OwnersExclude
<1>8. \A m \in Attempts : exec'[k][m].status # "running"
  BY <1>2, <1>3 DEF Unopened, HasRunning, IsRunning
<1> QED
  BY <1>1, <1>2, <1>3, <1>4, <1>5, <1>6, <1>7, <1>8 DEF Decides

(* A finalization is refused, or ends the only running attempt of its job. *)
LEMMA FinalizeDecides ==
  ASSUME TypeOK, WorkersCoherent, NewestRuns, OneOwner, NEW w \in Workers, Finalize(w)
  PROVE  \/ Quiet
         \/ /\ worker[w].job \in Jobs /\ worker[w].attempt \in Attempts /\ Decides(worker[w].job)
            /\ ClosesAttempt(w, worker[w].job, worker[w].attempt, VerdictOf(w))
            /\ job'[worker[w].job].status = VerdictOf(w)
<1> DEFINE k == worker[w].job
           n == worker[w].attempt
<1>1. EngagedAlone /\ ExecTyped /\ JobTyped
  BY DEF OneOwner, TypeOK, ExecTyped, JobTyped
<1>2. /\ k \in Jobs /\ n \in Attempts
      /\ \/ UNCHANGED <<job, exec>>
         \/ ClosesAttempt(w, k, n, VerdictOf(w)) /\ ClosesJob(w, k, VerdictOf(w))
  BY <1>1, FinalizeRows
<1>3. Released(w) /\ NobodyEngages /\ UNCHANGED swept
  BY <1>1, MoveReleases, ReleasedEngagesNobody DEF Finalize
<1>4. CASE UNCHANGED <<job, exec>>
  BY <1>3, <1>4, SameTables DEF Quiet
<1>5. CASE ClosesAttempt(w, k, n, VerdictOf(w)) /\ ClosesJob(w, k, VerdictOf(w))
  <2>1. PICK row \in ExecRow : Rewrites(k, n, row) /\ row.status = VerdictOf(w)
    BY <1>5 DEF ClosesAttempt
  <2>2. IsRunning(k, n) /\ HasRunning(k) /\ job[k].status = "running"
    BY <1>2, <2>1 DEF Rewrites, HasRunning, OneOwner, RunsTogether
  <2>3. job'[k].status = VerdictOf(w) /\ \A j \in Jobs \ {k} : job'[j] = job[j]
    BY <1>1, <1>2, <1>5, <2>2 DEF ClosesJob, JobTyped
  <2>4. /\ exec'[k][n].status = VerdictOf(w) /\ VerdictOf(w) # "running"
        /\ \A m \in Attempts \ {n} : exec'[k][m] = exec[k][m]
        /\ \A j \in Jobs \ {k} : exec'[j] = exec[j]
    BY <1>1, <1>2, <2>1, RewrittenRow, VerdictIsTerminal
  <2>5. \A m \in Attempts : exec'[k][m].status # "running"
    BY <1>2, <2>2, <2>4, OneAttemptRuns DEF HasRunning, IsRunning
  <2>6. \A j \in Jobs \ {k} : Untouched(j)
    BY <2>3, <2>4 DEF Untouched
  <2>7. \A v \in Workers : ~(Engaged(v)' /\ worker[v].job = k)
    BY <1>2, <1>3, <2>2, OwnersExclude DEF NobodyEngages
  <2>8. \A s \in Sweepers : swept'[s] = swept[s] \ {k}
    BY <1>2, <1>3, <2>2, OwnersExclude
  <2> QED
    BY <1>2, <1>3, <1>5, <2>3, <2>5, <2>6, <2>7, <2>8 DEF Decides
<1> QED
  BY <1>2, <1>4, <1>5

(* Reaping ends the only running attempt of a job and queues the job again. *)
LEMMA ReapDecides ==
  ASSUME TypeOK, WorkersCoherent, NewestRuns, OneOwner, NEW k \in Jobs, NEW n \in Attempts, Reap(k, n)
  PROVE  /\ Decides(k) /\ IsRunning(k, n)
         /\ exec'[k][n].status = "failed" /\ exec'[k][n].evidence = exec[k][n].evidence
         /\ \A m \in Attempts \ {n} : exec'[k][m] = exec[k][m]
         /\ job[k].status = "running" /\ job'[k].status = "queued"
<1>1. EngagedAlone /\ ExecTyped /\ JobTyped
  BY DEF OneOwner, TypeOK, ExecTyped, JobTyped
<1>2. IsRunning(k, n) /\ HasRunning(k) /\ job[k].status = "running"
  BY DEF Reap, HasRunning, OneOwner, RunsTogether
<1>3. ~\E m \in Attempts \ {n} : IsRunning(k, m)
  BY <1>2, OneAttemptRuns
<1>4. job' = [job EXCEPT ![k].cancel = FALSE, ![k].status = "queued"]
  BY <1>2, <1>3 DEF Reap
<1>5. job'[k].status = "queued" /\ \A j \in Jobs \ {k} : job'[j] = job[j]
  BY <1>1, <1>4 DEF JobTyped, JobRow
<1>6. PICK row \in ExecRow : /\ Rewrites(k, n, row) /\ row.evidence = exec[k][n].evidence
                             /\ row.status = "failed"
  <2> DEFINE row == [exec[k][n] EXCEPT !.status = "failed", !.stale = FALSE]
  <2>1. exec[k][n] \in ExecRow
    BY <1>1 DEF ExecTyped
  <2>2. row \in ExecRow /\ row.status = "failed" /\ row.evidence = exec[k][n].evidence
    BY <2>1 DEF ExecRow, Terminal
  <2>3. exec' = [exec EXCEPT ![k][n] = row]
    BY DEF Reap
  <2> HIDE DEF row
  <2> QED
    BY <1>2, <2>2, <2>3 DEF Rewrites
<1>7. /\ exec'[k][n].status = "failed" /\ exec'[k][n].evidence = exec[k][n].evidence
      /\ \A m \in Attempts \ {n} : exec'[k][m] = exec[k][m]
      /\ \A j \in Jobs \ {k} : exec'[j] = exec[j]
  BY <1>1, <1>6, RewrittenRow
<1>8. \A m \in Attempts : exec'[k][m].status # "running"
  BY <1>3, <1>7 DEF HasRunning, IsRunning
<1>9. UNCHANGED <<worker, swept>> /\ NobodyEngages
  BY <1>1 DEF Reap, NobodyEngages, EngagedAlone, Engaged
<1>10. \A j \in Jobs \ {k} : Untouched(j)
  BY <1>5, <1>7 DEF Untouched
<1>11. \A v \in Workers : ~(Engaged(v)' /\ worker[v].job = k)
  BY <1>2, <1>9, OwnersExclude DEF NobodyEngages
<1>12. \A s \in Sweepers : swept'[s] = swept[s] \ {k}
  BY <1>2, <1>9, OwnersExclude
<1> QED
  BY <1>2, <1>5, <1>7, <1>8, <1>9, <1>10, <1>11, <1>12 DEF Decides

(* The only sweep fails a job that it still finds unopened. *)
LEMMA SweepDecides ==
  ASSUME Prompt, TypeOK, WorkersCoherent, OneOwner, NEW s \in Sweepers, NEW k \in Jobs, SweepFail(s, k)
  PROVE  Decides(k) /\ Unopened(k) /\ UNCHANGED exec /\ job' = [job EXCEPT ![k].status = "failed"]
<1>1. EngagedAlone /\ JobTyped
  BY DEF OneOwner, TypeOK, JobTyped
<1>2. Unopened(k)
  BY DEF SweepFail, OneOwner, SweptIdle
<1>3. UNCHANGED <<exec, worker>> /\ job' = [job EXCEPT ![k].status = "failed"]
  BY <1>2 DEF SweepFail, Unopened
<1>4. \A t \in Sweepers : swept'[t] = swept[t] \ {k}
  BY DEF SweepFail, Prompt, TypeOK
<1>5. NobodyEngages
  BY <1>1, <1>3 DEF NobodyEngages, EngagedAlone, Engaged
<1>6. \A j \in Jobs \ {k} : Untouched(j)
  BY <1>1, <1>3 DEF Untouched, JobTyped
<1>7. \A v \in Workers : ~(Engaged(v)' /\ worker[v].job = k)
  BY <1>5, OwnersExclude DEF NobodyEngages, SweepFail
<1>8. \A m \in Attempts : exec'[k][m].status # "running"
  BY <1>2, <1>3 DEF Unopened, HasRunning, IsRunning
<1> QED
  BY <1>2, <1>3, <1>4, <1>5, <1>6, <1>7, <1>8 DEF Decides

(* A retry queues a decided job, or finds it live and changes nothing. *)
LEMMA RetryDecides ==
  ASSUME TypeOK, WorkersCoherent, OneOwner, NEW k \in Jobs, RetryCommit(k)
  PROVE  \/ Quiet
         \/ /\ Decides(k) /\ job[k].status \in Retryable /\ ~HasRunning(k)
            /\ UNCHANGED exec /\ job'[k].status = "queued"
<1>1. EngagedAlone /\ JobTyped
  BY DEF OneOwner, TypeOK, JobTyped
<1>2. UNCHANGED <<exec, worker, swept>> /\ NobodyEngages
  BY <1>1 DEF RetryCommit, NobodyEngages, EngagedAlone, Engaged
<1>3. CASE UNCHANGED job
  BY <1>2, <1>3, SameTables DEF Quiet
<1>4. CASE /\ job[k].status \in Retryable
           /\ job' = [job EXCEPT ![k].status = "queued", ![k].cancel = FALSE]
  <2>1. job[k].status # "running" /\ ~HasRunning(k)
    BY <1>4 DEF OneOwner, RunsTogether, Retryable, Terminal
  <2>2. job'[k].status = "queued" /\ \A j \in Jobs \ {k} : job'[j] = job[j]
    BY <1>1, <1>4 DEF JobTyped, JobRow
  <2>3. \A m \in Attempts : exec'[k][m].status # "running"
    BY <1>2, <2>1 DEF HasRunning, IsRunning
  <2>4. \A v \in Workers : ~(Engaged(v)' /\ worker[v].job = k)
    BY <1>2, <2>1, OwnersExclude DEF NobodyEngages
  <2>5. \A s \in Sweepers : swept'[s] = swept[s] \ {k}
    BY <1>2, <2>1, OwnersExclude
  <2> QED
    BY <1>2, <1>4, <2>1, <2>2, <2>3, <2>4, <2>5 DEF Decides, Untouched
<1> QED
  BY <1>3, <1>4 DEF RetryCommit

(* The kinds of steps together: what the next two theorems go through. *)
LEMMA PromptSteps ==
  ASSUME Prompt, TypeOK, WorkersCoherent, NewestRuns, OneOwner, [Next]_vars
  PROVE  \/ Quiet
         \/ \E w \in Workers : Claim(w) \/ OpenExecution(w) \/ FailUnowned(w) \/ (Finalize(w) /\ ~Quiet)
         \/ \E k \in Jobs : StartAges(k) \/ (RetryCommit(k) /\ ~Quiet) \/ \E n \in Attempts : Reap(k, n)
         \/ \E s \in Sweepers : SweepScan(s) \/ \E k \in Jobs : SweepFail(s, k)
<1>1. ASSUME NEW w \in Workers, Work(w)
      PROVE  Quiet \/ Claim(w) \/ OpenExecution(w) \/ FailUnowned(w) \/ Finalize(w)
  BY <1>1, ClaimIsQuiet, PipelineIsQuiet DEF Work
<1>2. UNCHANGED vars => Quiet
  BY SameTables DEF vars, Quiet, NobodyEngages, OneOwner, EngagedAlone, Engaged
<1> QED
  BY <1>1, <1>2, DisturbIsQuiet, RequestIsQuiet DEF Next

(* Every step of a prompt environment keeps one owner per job.                *)
LEMMA OneOwnerNext ==
  ASSUME Prompt, TypeOK, WorkersCoherent, NewestRuns, OneOwner, [Next]_vars
  PROVE  OneOwner'
<1>1. ASSUME NEW w \in Workers, Claim(w) \/ OpenExecution(w) \/ FailUnowned(w) \/ (Finalize(w) /\ ~Quiet)
      PROVE  OneOwner'
  <2>1. CASE Claim(w)
    BY <2>1, ClaimKeepsOwner
  <2>2. CASE OpenExecution(w) \/ FailUnowned(w) \/ (Finalize(w) /\ ~Quiet)
    <3>1. \E k \in Jobs : Decides(k)
      BY <2>2, OpenDecides, FailDecides, FinalizeDecides
    <3> QED
      BY <3>1, DecidingKeepsOwner
  <2> QED
    BY <1>1, <2>1, <2>2
<1>2. ASSUME NEW k \in Jobs, StartAges(k) \/ (RetryCommit(k) /\ ~Quiet) \/ \E n \in Attempts : Reap(k, n)
      PROVE  OneOwner'
  BY <1>2, AgingKeepsOwner, RetryDecides, ReapDecides, DecidingKeepsOwner
<1>3. ASSUME NEW s \in Sweepers, SweepScan(s) \/ \E k \in Jobs : SweepFail(s, k)
      PROVE  OneOwner'
  BY <1>3, ScanKeepsOwner, SweepDecides, DecidingKeepsOwner
<1> QED
  BY <1>1, <1>2, <1>3, PromptSteps, QuietKeepsOwner

(* In a prompt environment every job has one owner in every reachable state.  *)
LEMMA OneOwnerInvariant ==
  ASSUME Prompt
  PROVE  Spec => []OneOwner
<1>1. Init => OneOwner
  BY DEF Init, OneOwner, EngagedAlone, SweptIdle, RunsTogether, HasRunning, IsRunning, Engaged, PreLease,
      IdleWorker, AbsentExec
<1>2. EvidenceInv => NewestRuns
  BY DEF EvidenceInv, LeaseInv
<1>3. TypeOK /\ WorkersCoherent /\ NewestRuns /\ OneOwner /\ [Next]_vars => OneOwner'
  BY OneOwnerNext
<1> QED
  BY <1>1, <1>2, <1>3, TypeCorrect, EvidenceInvariant, PTL DEF Spec

(* A job that is terminal has no attempt in progress: neither the sweep, which *)
(* re-checks nothing but the status, nor a refused worker's                  *)
(* fail_job_if_unowned ends a job over an attempt that runs, as long as no    *)
(* worker stalls between its claim and its insert and sweeps do not overlap. *)
THEOREM JobsAndAttemptsEndTogether ==
  ASSUME Prompt
  PROVE  Spec => []JobAndAttemptEndTogether
<1>1. OneOwner => JobAndAttemptEndTogether
  BY DEF OneOwner, RunsTogether, JobAndAttemptEndTogether, Terminal
<1> QED
  BY <1>1, OneOwnerInvariant, PTL

-------------------------------------------------------------------------------
(* The refinement. The ledger reads of an attempt its status and evidence and *)
(* of a job only the verdict, so the quiet steps, the claim, the aging of a   *)
(* start and the sweep's selection are stutters.                             *)

Recorded == [j \in Jobs |-> [n \in Attempts |->
                [status |-> exec[j][n].status, evidence |-> exec[j][n].evidence]]]
Decision == [j \in Jobs |-> IF job[j].status \in Live THEN "pending" ELSE job[j].status]

(* A step that keeps statuses, evidence and liveness is invisible in the ledger. *)
LEMMA LedgerStutters ==
  ASSUME UNCHANGED exec \/ \A j \in Jobs, n \in Attempts : /\ exec'[j][n].status = exec[j][n].status
                                                           /\ exec'[j][n].evidence = exec[j][n].evidence,
         \A j \in Jobs : job'[j].status = job[j].status \/ {job[j].status, job'[j].status} \subseteq Live
  PROVE  UNCHANGED Ledger!vars
<1>1. Recorded' = Recorded
  BY DEF Recorded
<1>2. Decision' = Decision
  BY DEF Decision
<1> QED
  BY <1>1, <1>2 DEF Ledger!vars, Recorded, Decision

(* One attempt's row of the ledger changes with one row of the table. *)
LEMMA RecordedRow ==
  ASSUME NEW k \in Jobs, NEW n \in Attempts,
         \A m \in Attempts \ {n} : exec'[k][m] = exec[k][m],
         \A j \in Jobs \ {k} : exec'[j] = exec[j]
  PROVE  Recorded' = [Recorded EXCEPT ![k][n] =
            [status |-> exec'[k][n].status, evidence |-> exec'[k][n].evidence]]
<1> DEFINE row == [status |-> exec'[k][n].status, evidence |-> exec'[k][n].evidence]
           rows(j) == [m \in Attempts |-> [status |-> exec[j][m].status, evidence |-> exec[j][m].evidence]]
           rows2(j) == [m \in Attempts |-> [status |-> exec'[j][m].status, evidence |-> exec'[j][m].evidence]]
<1>1. Recorded = [j \in Jobs |-> rows(j)] /\ Recorded' = [j \in Jobs |-> rows2(j)]
  BY DEF Recorded
<1>2. \A j \in Jobs \ {k} : rows2(j) = rows(j)
  OBVIOUS
<1>3. rows2(k) = [rows(k) EXCEPT ![n] = row]
  OBVIOUS
<1> HIDE DEF row, rows, rows2
<1>4. Recorded' = [Recorded EXCEPT ![k] = rows2(k)]
  BY <1>1, <1>2
<1> QED
  BY <1>1, <1>3, <1>4 DEF row

(* The verdict of one job changes with the status of that job.                *)
LEMMA DecisionOf ==
  ASSUME NEW k \in Jobs, \A j \in Jobs \ {k} : job'[j].status = job[j].status
  PROVE  Decision' = [Decision EXCEPT ![k] = IF job'[k].status \in Live THEN "pending" ELSE job'[k].status]
<1> DEFINE v(j) == IF job[j].status \in Live THEN "pending" ELSE job[j].status
           v2(j) == IF job'[j].status \in Live THEN "pending" ELSE job'[j].status
<1>1. Decision = [j \in Jobs |-> v(j)] /\ Decision' = [j \in Jobs |-> v2(j)]
  BY DEF Decision, Live
<1>2. \A j \in Jobs \ {k} : v2(j) = v(j)
  OBVIOUS
<1>3. Decision' = [Decision EXCEPT ![k] = v2(k)]
  <2> HIDE DEF v, v2
  <2> QED
    BY <1>1, <1>2
<1> QED
  BY <1>3

(* What the ledger reads of a job, in terms of the two tables.                *)
LEMMA LedgerReading ==
  ASSUME NEW k \in Jobs
  PROVE  /\ Ledger!InProgress(k) <=> HasRunning(k)
         /\ job[k].status \in Live => Decision[k] = "pending"
         /\ job[k].status \notin Live => Decision[k] = job[k].status
<1>1. Ledger!Attempts = Attempts
  BY DEF Ledger!Attempts, Attempts
<1>2. \A n \in Attempts : Recorded[k][n].status = exec[k][n].status
  BY DEF Recorded
<1> QED
  BY <1>1, <1>2 DEF Ledger!InProgress, HasRunning, IsRunning, Decision, Recorded

(* A worker's insert opens an attempt of a pending job in the ledger.         *)
LEMMA OpenIsOpen ==
  ASSUME TypeOK, WorkersCoherent, EvidenceMatchesVerdict, OneOwner, NEW w \in Workers, OpenExecution(w)
  PROVE  Ledger!Next
<1>0. PICK k \in Jobs : k = worker[w].job
  BY OpenInserts
<1>1. ExecTyped /\ JobTyped
  BY DEF TypeOK, ExecTyped, JobTyped
<1>2. PICK n \in Attempts : Inserts(k, n)
  BY <1>0, OpenInserts
<1>3. job[k].status = "running" /\ UNCHANGED job
  BY <1>0, OpenDecides DEF OpenExecution
<1>4. exec[k][n].evidence = "none" /\ exec'[k][n].evidence = "none"
  <2>1. exec'[k][n] = [AbsentExec EXCEPT !.status = "running"]
    BY <1>1, <1>2 DEF Inserts, ExecTyped
  <2> QED
    BY <1>1, <1>2, <2>1, InsertedRow DEF EvidenceMatchesVerdict, AbsentExec
<1>5. Recorded' = [Recorded EXCEPT ![k][n] = [status |-> "running", evidence |-> "none"]]
  BY <1>1, <1>2, <1>4, InsertedRow, RecordedRow
<1>6. Recorded' = [Recorded EXCEPT ![k][n].status = "running"]
  BY <1>1, <1>2, <1>4, <1>5 DEF Recorded
<1>7. Decision' = Decision /\ Decision[k] = "pending" /\ ~Ledger!InProgress(k)
  BY <1>2, <1>3, LedgerReading DEF Decision, Live, Inserts
<1>8. \A m \in Attempts : Recorded[k][m].status # "absent" <=> m < n
  BY <1>2 DEF Recorded, Inserts, IsNextAttempt
<1>9. Ledger!Attempts = Attempts
  BY DEF Ledger!Attempts, Attempts
<1>10. Ledger!Open(k, n)
  BY <1>6, <1>7, <1>8, <1>9 DEF Ledger!Open, Recorded, Decision
<1> QED
  BY <1>2, <1>9, <1>10 DEF Ledger!Next

(* An attempt that ends with verdict s and evidence e, which the ledger lets  *)
(* it publish, and takes its job to the same verdict or, reaped, back to the  *)
(* queue.                                                                    *)
LEMMA EndIsClose ==
  ASSUME NEW k \in Jobs, NEW n \in Attempts, NEW s \in Terminal, IsRunning(k, n), Decides(k),
         exec'[k][n].status = s, exec'[k][n].evidence \in Ledger!Publishes(s),
         \A m \in Attempts \ {n} : exec'[k][m] = exec[k][m],
         \A j \in Jobs \ {k} : exec'[j] = exec[j],
         \/ job'[k].status = s
         \/ s = "failed" /\ job[k].status \in Live /\ job'[k].status \in Live
  PROVE  Ledger!Next
<1> DEFINE e == exec'[k][n].evidence
<1>1. Recorded' = [Recorded EXCEPT ![k][n] = [status |-> s, evidence |-> e]]
  BY RecordedRow
<1>2. \A j \in Jobs \ {k} : job'[j].status = job[j].status
  BY DEF Decides, Untouched
<1>3. \/ Decision' = [Decision EXCEPT ![k] = s]
      \/ s = "failed" /\ Decision' = Decision
  <2>1. CASE job'[k].status = s
    <3>1. s \notin Live
      BY DEF Live, Terminal
    <3> QED
      BY <1>2, <2>1, <3>1, DecisionOf
  <2>2. CASE s = "failed" /\ job[k].status \in Live /\ job'[k].status \in Live
    <3>1. Decision' = Decision
      BY <1>2, <2>2 DEF Decision
    <3> QED
      BY <2>2, <3>1
  <2> QED
    BY <2>1, <2>2
<1>4. Recorded[k][n].status = "running"
  BY DEF Recorded, IsRunning
<1>5. Ledger!Close(k, n, s)
  <2> HIDE DEF e
  <2>1. e \in Ledger!Publishes(s)
    BY DEF e
  <2> QED
    BY <1>1, <1>3, <1>4, <2>1 DEF Ledger!Close, Recorded, Decision
<1>6. Ledger!Attempts = Attempts /\ Ledger!Terminal = Terminal
  BY DEF Ledger!Attempts, Attempts, Ledger!Terminal, Terminal
<1> QED
  BY <1>5, <1>6 DEF Ledger!Next

(* A finalization that commits closes the attempt with what it may publish.   *)
LEMMA FinalizeIsClose ==
  ASSUME TypeOK, WorkersCoherent, NewestRuns, OneOwner, NEW w \in Workers, Finalize(w), ~Quiet
  PROVE  Ledger!Next
<1>1. ExecTyped /\ worker[w] \in WorkerState
  BY DEF TypeOK, ExecTyped, WorkersCoherent
<1>2. PICK k \in Jobs, n \in Attempts :
        /\ k = worker[w].job /\ n = worker[w].attempt /\ Decides(k)
        /\ ClosesAttempt(w, k, n, VerdictOf(w)) /\ job'[k].status = VerdictOf(w)
  BY FinalizeDecides
<1>3. PICK row \in ExecRow :
        Rewrites(k, n, row) /\ row.status = VerdictOf(w) /\ row.evidence = EvidenceOf(w)
  BY <1>2 DEF ClosesAttempt
<1>4. PICK s \in Terminal : s = VerdictOf(w)
  BY VerdictIsTerminal DEF Terminal
<1>5. EvidenceOf(w) \in Ledger!Publishes(s)
  <2>1. s \in {"completed", "partial", "failed", "cancelled"}
    BY <1>4, VerdictIsTerminal
  <2>2. EvidenceOf(w) \in {"none", "partial", "complete"}
    BY <1>1 DEF EvidenceOf, WorkerState
  <2> QED
    BY <1>4, <2>1, <2>2, OutcomeEvidence DEF Ledger!Publishes
<1> QED
  BY <1>1, <1>2, <1>3, <1>4, <1>5, RewrittenRow, EndIsClose

(* Reaping closes the attempt as failed and leaves the job pending.           *)
LEMMA ReapIsClose ==
  ASSUME TypeOK, WorkersCoherent, NewestRuns, EvidenceMatchesVerdict, OneOwner,
         NEW k \in Jobs, NEW n \in Attempts, Reap(k, n)
  PROVE  Ledger!Next
<1>1. /\ Decides(k) /\ IsRunning(k, n)
      /\ exec'[k][n].status = "failed" /\ exec'[k][n].evidence = exec[k][n].evidence
      /\ \A m \in Attempts \ {n} : exec'[k][m] = exec[k][m]
      /\ job[k].status = "running" /\ job'[k].status = "queued"
  BY ReapDecides
<1>2. exec[k][n].evidence = "none"
  BY <1>1 DEF EvidenceMatchesVerdict, IsRunning
<1>3. \A j \in Jobs \ {k} : exec'[j] = exec[j]
  BY DEF Reap, TypeOK
<1>4. "failed" \in Terminal /\ {"running", "queued"} \subseteq Live /\ Ledger!Publishes("failed") = {"none"}
  BY DEF Terminal, Live, Ledger!Publishes
<1> QED
  BY <1>1, <1>2, <1>3, <1>4, EndIsClose

(* Failing a job nobody has opened gives it up; a retry takes it up again. *)
LEMMA FailIsGiveUp ==
  ASSUME TypeOK, NEW k \in Jobs, Unopened(k), UNCHANGED exec, job' = [job EXCEPT ![k].status = "failed"]
  PROVE  Ledger!Next
<1>1. job'[k].status = "failed" /\ \A j \in Jobs \ {k} : job'[j] = job[j]
  BY DEF TypeOK, JobRow
<1>2. Decision[k] = "pending" /\ ~Ledger!InProgress(k)
  BY LedgerReading DEF Unopened, Live
<1>3. Decision' = [Decision EXCEPT ![k] = "failed"] /\ Recorded' = Recorded
  BY <1>1, DecisionOf DEF Live, Recorded
<1>4. Ledger!GiveUp(k)
  BY <1>2, <1>3 DEF Ledger!GiveUp, Recorded, Decision
<1> QED
  BY <1>4 DEF Ledger!Next

(* A retry takes a decided job up again.                                      *)
LEMMA RetryIsRetry ==
  ASSUME NEW k \in Jobs, Decides(k), job[k].status \in Retryable, ~HasRunning(k), UNCHANGED exec,
         job'[k].status = "queued"
  PROVE  Ledger!Next
<1>1. Decision[k] = job[k].status /\ ~Ledger!InProgress(k)
  BY LedgerReading DEF Retryable, Terminal, Live
<1>2. Decision' = [Decision EXCEPT ![k] = "pending"] /\ Recorded' = Recorded
  BY DecisionOf DEF Decides, Untouched, Live, Recorded
<1>3. Ledger!Retry(k)
  BY <1>1, <1>2 DEF Ledger!Retry, Ledger!Terminal, Retryable, Terminal, Recorded, Decision
<1> QED
  BY <1>3 DEF Ledger!Next

(* Every step of a prompt environment is a step of the ledger or a stutter.   *)
LEMMA LedgerSteps ==
  ASSUME Prompt, TypeOK, WorkersCoherent, EvidenceInv, OneOwner, [Next]_vars
  PROVE  [Ledger!Next]_Ledger!vars
<1>1. NewestRuns /\ EvidenceMatchesVerdict /\ JobTyped
  BY DEF EvidenceInv, LeaseInv, TypeOK, JobTyped
<1>2. Quiet => UNCHANGED Ledger!vars
  BY LedgerStutters DEF Quiet, Untouched
<1>3. ASSUME NEW w \in Workers, Claim(w) PROVE UNCHANGED Ledger!vars
  <2>1. PICK k \in Jobs :
          /\ job[k].status = "queued" /\ UNCHANGED exec
          /\ job' = [job EXCEPT ![k].status = "running", ![k].started = "fresh"]
    BY <1>3 DEF Claim
  <2>2. \A j \in Jobs : job'[j].status = job[j].status \/ {job[j].status, job'[j].status} \subseteq Live
    BY <1>1, <2>1 DEF JobTyped, JobRow, Live
  <2> QED
    BY <2>1, <2>2, LedgerStutters
<1>4. ASSUME NEW k \in Jobs, StartAges(k) PROVE UNCHANGED Ledger!vars
  <2>1. \A j \in Jobs : job'[j].status = job[j].status
    BY <1>1, <1>4 DEF StartAges, JobTyped, JobRow
  <2> QED
    BY <1>4, <2>1, LedgerStutters DEF StartAges
<1>5. ASSUME NEW s \in Sweepers, SweepScan(s) PROVE UNCHANGED Ledger!vars
  BY <1>5, LedgerStutters DEF SweepScan
<1>6. ASSUME NEW w \in Workers, FailUnowned(w) PROVE Ledger!Next
  <2>1. PICK k \in Jobs : /\ k = worker[w].job /\ Unopened(k)
                          /\ UNCHANGED exec /\ job' = [job EXCEPT ![k].status = "failed"]
    BY <1>6, FailDecides
  <2> QED
    BY <2>1, FailIsGiveUp
<1>7. ASSUME NEW s \in Sweepers, NEW k \in Jobs, SweepFail(s, k) PROVE Ledger!Next
  BY <1>7, SweepDecides, FailIsGiveUp
<1>8. ASSUME NEW k \in Jobs, RetryCommit(k), ~Quiet PROVE Ledger!Next
  BY <1>8, RetryDecides, RetryIsRetry
<1> QED
  BY <1>1, <1>2, <1>3, <1>4, <1>5, <1>6, <1>7, <1>8, OpenIsOpen, FinalizeIsClose, ReapIsClose, PromptSteps

(* The worker loop, the finalization transaction, the reaper, the sweep and   *)
(* the retry endpoint together keep what AuditLedger promises a reader of the *)
(* two tables, whatever crashes and database errors occur.                   *)
THEOREM LifecycleImplementsLedger ==
  ASSUME Prompt
  PROVE  Spec => ImplementsLedger
<1>1. Init => Ledger!Init
  BY DEF Init, Ledger!Init, QueuedJob, AbsentExec, Live, Attempts, Ledger!Attempts
<1>2. TypeOK /\ WorkersCoherent /\ EvidenceInv /\ OneOwner /\ [Next]_vars => [Ledger!Next]_Ledger!vars
  BY LedgerSteps
<1> QED
  BY <1>1, <1>2, TypeCorrect, EvidenceInvariant, OneOwnerInvariant, PTL DEF Spec, ImplementsLedger, Ledger!Spec
===============================================================================
