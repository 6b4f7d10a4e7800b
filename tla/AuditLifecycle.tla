---------------------------- MODULE AuditLifecycle ----------------------------
(*****************************************************************************)
(* One audit job from the queue to its verdict: the worker loop, the lease    *)
(* an attempt runs under, the phases of the pipeline, the single transaction  *)
(* that finalizes an attempt, the reaper, the zombie sweep, and the cancel    *)
(* and retry endpoints.                                                       *)
(*                                                                            *)
(* An action is one database statement or one database transaction together   *)
(* with the local code around it, so every interleaving that two workers, the *)
(* housekeeping loop and the API can produce between statements is a          *)
(* behaviour. The owner token of an attempt is generated with its row and     *)
(* never rewritten, so a lease is the attempt number a worker opened.         *)
(*****************************************************************************)
EXTENDS Naturals, FiniteSets

CONSTANTS
    Jobs,         \* audit jobs, all of them already submitted
    Workers,      \* worker loops, of one process or of several
    Sweepers,     \* concurrent runs of HousekeepingService::run
    Commits,      \* trees the branch head may resolve to
    NoCommit,     \* NULL in a commit_sha column
    NoJob,        \* an idle worker's job
    SlowPhases,   \* phases that may last longer than the stale cutoff
    Stalls,       \* whether a worker may be suspended past the stale cutoff
    MaxAttempts,  \* bound: attempts per job
    MaxRetries,   \* bound: retry requests accepted per run
    MaxFaults     \* bound: crashes and database errors per run

ASSUME BoundsAssumption ==
    /\ MaxAttempts \in Nat
    /\ MaxRetries \in Nat
    /\ MaxFaults \in Nat
ASSUME StallsAssumption == Stalls \in BOOLEAN
ASSUME NullAssumption == NoCommit \notin Commits /\ NoJob \notin Jobs

Attempts == 1 .. MaxAttempts

(* The pipeline's phases in order; the phase after "deliver" is the verdict. *)
PhaseAfter == [fetch |-> "scan", scan |-> "normalize", normalize |-> "score",
               score |-> "report", report |-> "deliver", deliver |-> "verdict"]
Phases == DOMAIN PhaseAfter

(* Definitions called "Variant: ..." are not part of the specification: each  *)
(* is the next definition with a plausible defect, which a property detects. *)

Terminal  == {"completed", "partial", "failed", "cancelled", "engine_unavailable"}
(* Variant: a completed job may be retried. *)
RetryableIfTerminal == Terminal
Retryable == Terminal \ {"completed"}
Live      == {"queued", "running"}

(* The code points between two database statements of a worker. The first    *)
(* seven come before the worker has a lease.                                 *)
PreLease == {"claimed", "admitted", "begin", "status", "reopen", "launch", "open"}
InPipeline == {"step", "phase", "bind"}
Points == {"idle", "finalize", "reported", "refused"} \cup PreLease \cup InPipeline

VARIABLES
    job,       \* audit_jobs: [status, started, cancel, commit, score]
    exec,      \* audit_executions: [status, commit, stale, evidence] per attempt
    worker,    \* local state of each worker loop
    swept,     \* jobs a sweep has selected and not yet written
    retry,     \* how far the retry request of each job has come
    faults, retries

vars == <<job, exec, worker, swept, retry, faults, retries>>

JobRow == [status: Live \cup Terminal, started: {"never", "fresh", "old"},
           cancel: BOOLEAN, commit: Commits \cup {NoCommit}, score: BOOLEAN]

ExecRow == [status: {"absent", "running"} \cup Terminal, commit: Commits \cup {NoCommit},
            stale: BOOLEAN, evidence: {"none", "partial", "complete"}]

WorkerState == [pc: Points, job: Jobs \cup {NoJob}, attempt: Attempts \cup {0},
                phase: Phases, tree: Commits \cup {NoCommit},
                coverage: {"none", "partial", "complete"},
                outcome: {"completed", "partial", "failed", "cancelled"}]

TypeOK ==
    /\ job \in [Jobs -> JobRow]
    /\ exec \in [Jobs -> [Attempts -> ExecRow]]
    /\ worker \in [Workers -> WorkerState]
    /\ swept \in [Sweepers -> SUBSET Jobs]
    /\ retry \in [Jobs -> {"none", "read", "checked"}]
    /\ faults \in 0 .. MaxFaults
    /\ retries \in 0 .. MaxRetries

QueuedJob == [status |-> "queued", started |-> "never", cancel |-> FALSE,
              commit |-> NoCommit, score |-> FALSE]
AbsentExec == [status |-> "absent", commit |-> NoCommit, stale |-> FALSE, evidence |-> "none"]
IdleWorker == [pc |-> "idle", job |-> NoJob, attempt |-> 0, phase |-> "fetch",
               tree |-> NoCommit, coverage |-> "none", outcome |-> "failed"]

Init ==
    /\ job = [j \in Jobs |-> QueuedJob]
    /\ exec = [j \in Jobs |-> [n \in Attempts |-> AbsentExec]]
    /\ worker = [w \in Workers |-> IdleWorker]
    /\ swept = [s \in Sweepers |-> {}]
    /\ retry = [j \in Jobs |-> "none"]
    /\ faults = 0
    /\ retries = 0

-------------------------------------------------------------------------------
(* Helpers over the two tables.                                              *)

IsRunning(j, n) == exec[j][n].status = "running"
HasRunning(j) == \E n \in Attempts : IsRunning(j, n)

(* Variant: the number of a closed attempt is used again. *)
LowestNumberNotRunning(j, n) == ~IsRunning(j, n) /\ \A m \in 1 .. n - 1 : IsRunning(j, m)
(* n is COALESCE(MAX(attempt_number), 0) + 1. *)
IsNextAttempt(j, n) == \A m \in Attempts : exec[j][m].status # "absent" <=> m < n

(* The audit_jobs trigger: which status updates the database accepts. *)
LifecycleGuard(old, new) ==
    \/ new = old
    \/ old = "queued" /\ new \in {"running", "failed", "cancelled"}
    \/ old = "running" /\ new \in Terminal \cup {"queued"}
    \/ old \in Retryable /\ new = "queued"

Holds(w, j, n) == worker[w].job = j /\ worker[w].attempt = n

At(w, pc) == worker[w].pc = pc
Goto(w, pc) == worker' = [worker EXCEPT ![w].pc = pc]
Keep(w, pc) == [IdleWorker EXCEPT !.pc = pc, !.job = worker[w].job, !.attempt = worker[w].attempt]

(* A completed or partial finalization carries the run's result; a failed or *)
(* cancelled one carries only its reason.                                    *)
Deliver(w, outcome) ==
    worker' = [worker EXCEPT ![w].pc = "finalize", ![w].phase = "fetch", ![w].outcome = outcome]
Abort(w, outcome) ==
    worker' = [worker EXCEPT ![w] = [Keep(w, "finalize") EXCEPT !.outcome = outcome]]
GoIdle(w) == worker' = [worker EXCEPT ![w] = IdleWorker]

(* The guarded heartbeat: only the row of a running attempt is touched. *)
Heartbeat(j, n) ==
    exec' = IF IsRunning(j, n) THEN [exec EXCEPT ![j][n].stale = FALSE] ELSE exec

Fault == faults < MaxFaults /\ faults' = faults + 1

OnlyWorker == UNCHANGED <<job, exec, swept, retry, faults, retries>>

-------------------------------------------------------------------------------
(* The worker loop up to the lease.                                          *)

(* SKIP LOCKED passes over a row another statement has locked, so any queued *)
(* job may be the one claimed.                                               *)
Claim(w) ==
    /\ At(w, "idle")
    /\ \E j \in Jobs :
          /\ job[j].status = "queued"
          /\ \E n \in Attempts : exec[j][n].status = "absent"
          /\ job' = [job EXCEPT ![j].status = "running", ![j].started = "fresh"]
          /\ worker' = [worker EXCEPT ![w].pc = "claimed", ![w].job = j]
    /\ UNCHANGED <<exec, swept, retry, faults, retries>>

(* may_execute_job: a terminal job is skipped. *)
Admit(w) ==
    /\ At(w, "claimed")
    /\ IF job[worker[w].job].status \in Terminal THEN GoIdle(w) ELSE Goto(w, "admitted")
    /\ OnlyWorker

(* claim_job_for_execution, its result discarded. *)
ClaimForExecution(w) ==
    LET j == worker[w].job IN
    /\ At(w, "admitted")
    /\ job' = IF job[j].status = "queued"
              THEN [job EXCEPT ![j].status = "running", ![j].started = "fresh"]
              ELSE job
    /\ Goto(w, "begin")
    /\ UNCHANGED <<exec, swept, retry, faults, retries>>

(* begin_execution, statement by statement. *)
CheckRunning(w) ==
    /\ At(w, "begin")
    /\ Goto(w, IF HasRunning(worker[w].job) THEN "refused" ELSE "status")
    /\ OnlyWorker

ReadStatus(w) ==
    /\ At(w, "status")
    /\ Goto(w, IF job[worker[w].job].status \in Retryable THEN "reopen" ELSE "launch")
    /\ OnlyWorker

(* The update names the job by id only: whatever status it has by now moves  *)
(* to queued if the trigger lets it.                                         *)
Reopen(w) ==
    LET j == worker[w].job IN
    /\ At(w, "reopen")
    /\ \/ /\ LifecycleGuard(job[j].status, "queued")
          /\ job' = [job EXCEPT ![j].status = "queued"]
          /\ Goto(w, "launch")
       \/ /\ ~LifecycleGuard(job[j].status, "queued")
          /\ Goto(w, "refused")
          /\ UNCHANGED job
    /\ UNCHANGED <<exec, swept, retry, faults, retries>>

Launch(w) ==
    LET j == worker[w].job IN
    /\ At(w, "launch")
    /\ job' = IF job[j].status = "queued"
              THEN [job EXCEPT ![j].status = "running",
                               ![j].started = IF @ = "never" THEN "fresh" ELSE @]
              ELSE job
    /\ Goto(w, "open")
    /\ UNCHANGED <<exec, swept, retry, faults, retries>>

(* The insert, under the unique index on running attempts. A conflict on the *)
(* attempt number is recomputed at once and is not a step of its own.        *)
OpenExecution(w) ==
    LET j == worker[w].job IN
    /\ At(w, "open")
    /\ ~HasRunning(j)
    /\ \E n \in Attempts :
          /\ IsNextAttempt(j, n)
          /\ exec' = [exec EXCEPT ![j][n] = [AbsentExec EXCEPT !.status = "running"]]
          /\ worker' = [worker EXCEPT ![w].pc = "step", ![w].attempt = n]
    /\ UNCHANGED <<job, swept, retry, faults, retries>>

OpenConflict(w) ==
    /\ At(w, "open")
    /\ HasRunning(worker[w].job)
    /\ Goto(w, "refused")
    /\ OnlyWorker

(* fail_job_if_unowned: one guarded statement. *)
FailUnowned(w) ==
    LET j == worker[w].job IN
    /\ At(w, "refused")
    /\ job' = IF job[j].status \in Live /\ ~HasRunning(j)
              THEN [job EXCEPT ![j].status = "failed"]
              ELSE job
    /\ GoIdle(w)
    /\ UNCHANGED <<exec, swept, retry, faults, retries>>

-------------------------------------------------------------------------------
(* The pipeline.                                                             *)

(* The step! macro before a phase: cancellation check, then heartbeat. *)
StartPhase(w) ==
    LET j == worker[w].job IN
    /\ At(w, "step")
    /\ \/ /\ job[j].cancel
          /\ Abort(w, "cancelled")
          /\ UNCHANGED exec
       \/ /\ ~job[j].cancel
          /\ Heartbeat(j, worker[w].attempt)
          /\ Goto(w, "phase")
    /\ UNCHANGED <<job, swept, retry, faults, retries>>

InPhase(w, p) == At(w, "phase") /\ worker[w].phase = p
NextStep(w, p, coverage) ==
    worker' = [worker EXCEPT ![w].pc = "step", ![w].phase = PhaseAfter[p],
                             ![w].coverage = coverage]

(* The fetch resolves the branch head and pins it on the job row, by id only. *)
FetchDone(w) ==
    /\ InPhase(w, "fetch")
    /\ \E c \in Commits :
          /\ job' = [job EXCEPT ![worker[w].job].commit = c]
          /\ worker' = [worker EXCEPT ![w].pc = "bind", ![w].tree = c]
    /\ UNCHANGED <<exec, swept, retry, faults, retries>>

(* Variant: the attempt, closed or not, is bound to what the job row names. *)
BindSnapshotOfJob(w) ==
    /\ At(w, "bind")
    /\ exec' = [exec EXCEPT ![worker[w].job][worker[w].attempt].commit = job[worker[w].job].commit]
    /\ NextStep(w, "fetch", "none")
    /\ UNCHANGED <<job, swept, retry, faults, retries>>

(* bind_snapshot: refused by the freeze triggers once the attempt is closed. *)
BindSnapshot(w) ==
    LET j == worker[w].job
        n == worker[w].attempt IN
    /\ At(w, "bind")
    /\ \/ /\ IsRunning(j, n)
          /\ exec[j][n].commit \in {NoCommit, worker[w].tree}
          /\ exec' = [exec EXCEPT ![j][n].commit = worker[w].tree]
          /\ NextStep(w, "fetch", "none")
       \/ /\ ~(IsRunning(j, n) /\ exec[j][n].commit \in {NoCommit, worker[w].tree})
          /\ Abort(w, "failed")
          /\ UNCHANGED exec
    /\ UNCHANGED <<job, swept, retry, faults, retries>>

(* The scan heartbeats once, after the last scanner has returned. *)
ScanDone(w) ==
    /\ InPhase(w, "scan")
    /\ Heartbeat(worker[w].job, worker[w].attempt)
    /\ \E coverage \in {"partial", "complete"} : NextStep(w, "scan", coverage)
    /\ UNCHANGED <<job, swept, retry, faults, retries>>

(* A finding that fails evidence validation makes the coverage incomplete. *)
NormalizeDone(w) ==
    /\ InPhase(w, "normalize")
    /\ \E coverage \in {"partial", worker[w].coverage} : NextStep(w, "normalize", coverage)
    /\ OnlyWorker

(* Score and report only compute; nothing is written before finalization. *)
ComputeDone(w) ==
    /\ \E p \in {"score", "report"} :
          /\ InPhase(w, p)
          /\ NextStep(w, p, worker[w].coverage)
    /\ OnlyWorker

(* Variant: the verdict ignores the coverage. *)
DeliverDoneAlwaysCompleted(w) == InPhase(w, "deliver") /\ Deliver(w, "completed") /\ OnlyWorker

DeliverDone(w) ==
    /\ InPhase(w, "deliver")
    /\ Deliver(w, IF worker[w].coverage = "complete" THEN "completed" ELSE "partial")
    /\ OnlyWorker

(* A phase that returns an error, an aborted fetch or scan included. *)
PhaseFails(w) ==
    /\ \E p \in {"fetch", "scan", "report"} : InPhase(w, p)
    /\ Abort(w, IF job[worker[w].job].cancel THEN "cancelled" ELSE "failed")
    /\ OnlyWorker

(* The budget inside the lease scope. *)
BudgetExpires(w) ==
    /\ worker[w].pc \in InPipeline
    /\ Abort(w, "failed")
    /\ OnlyWorker

-------------------------------------------------------------------------------
(* Finalization.                                                             *)

(* Variant: a pending cancellation is not read. *)
VerdictUncancelled(j, outcome) == outcome
Verdict(j, outcome) == IF job[j].cancel THEN "cancelled" ELSE outcome

(* Findings, report and canonical document that an outcome carries. *)
EvidenceOf(w) ==
    IF worker[w].outcome \in {"completed", "partial"} THEN worker[w].coverage ELSE "none"

CloseAttempt(w, j, n, verdict) ==
    /\ exec' = [exec EXCEPT ![j][n] = [@ EXCEPT !.status = verdict, !.stale = FALSE,
                                                !.evidence = EvidenceOf(w)]]
    /\ job' = [job EXCEPT ![j] =
          IF @.status = "completed"
          THEN [@ EXCEPT !.cancel = FALSE]
          ELSE [@ EXCEPT !.cancel = FALSE, !.status = verdict,
                         !.score = (verdict = "completed" /\ worker[w].coverage = "complete")]]

(* finalize_execution: one transaction under the row locks of the attempt    *)
(* and of the job. It is refused when the attempt is closed, and rolls back  *)
(* when the job's trigger rejects the verdict.                               *)
Finalize(w) ==
    LET j == worker[w].job
        n == worker[w].attempt
        verdict == Verdict(j, worker[w].outcome)
        commits == /\ IsRunning(j, n)
                   /\ job[j].status = "completed" \/ LifecycleGuard(job[j].status, verdict) IN
    /\ At(w, "finalize")
    /\ \/ commits /\ CloseAttempt(w, j, n, verdict)
       \/ ~commits /\ UNCHANGED <<job, exec>>
    /\ worker' = [worker EXCEPT ![w] = Keep(w, "reported")]
    /\ UNCHANGED <<swept, retry, faults, retries>>

(* The broadcast and the GitHub check change nothing modelled here. *)
Reported(w) ==
    /\ At(w, "reported")
    /\ GoIdle(w)
    /\ OnlyWorker

-------------------------------------------------------------------------------
(* Faults, each one counted against MaxFaults.                               *)

(* The process dies, and with it everything the worker knew. *)
Crash(w) ==
    /\ ~At(w, "idle")
    /\ Fault
    /\ GoIdle(w)
    /\ UNCHANGED <<job, exec, swept, retry, retries>>

(* A database error: read as "already finalized" by the admission check,     *)
(* returned by begin_execution, discarded by the best-effort statements,     *)
(* rolled back and logged by finalization.                                   *)
DatabaseError(w) ==
    /\ Fault
    /\ \/ worker[w].pc \in {"claimed", "refused"} /\ GoIdle(w)
       \/ At(w, "admitted") /\ Goto(w, "begin")
       \/ worker[w].pc \in {"begin", "status", "reopen", "open"} /\ Goto(w, "refused")
       \/ At(w, "launch") /\ Goto(w, "open")
       \/ At(w, "step") /\ Goto(w, "phase")
       \/ At(w, "finalize") /\ worker' = [worker EXCEPT ![w] = Keep(w, "reported")]
    /\ UNCHANGED <<job, exec, swept, retry, retries>>

(* The outer guard of run_audit_job drops the whole execution future. The    *)
(* inner budget leaves it a minute, so only a stalled worker meets it.       *)
OuterTimeout(w) ==
    /\ Stalls
    /\ Fault
    /\ worker[w].pc \in {"finalize", "reported"} \cup PreLease
    /\ worker' = [worker EXCEPT ![w] = Keep(w, "refused")]
    /\ UNCHANGED <<job, exec, swept, retry, retries>>

-------------------------------------------------------------------------------
(* Time: a timestamp passes the five-minute cutoff.                          *)

StartAges(j) ==
    /\ job[j].started = "fresh"
    /\ Stalls \/ \A w \in Workers : worker[w].job = j => worker[w].pc \notin PreLease \cup {"refused"}
    /\ job' = [job EXCEPT ![j].started = "old"]
    /\ UNCHANGED <<exec, worker, swept, retry, faults, retries>>

HeartbeatAges(j, n) ==
    /\ IsRunning(j, n)
    /\ ~exec[j][n].stale
    /\ \A w \in Workers :
          Holds(w, j, n) => Stalls \/ (At(w, "phase") /\ worker[w].phase \in SlowPhases)
    /\ exec' = [exec EXCEPT ![j][n].stale = TRUE]
    /\ UNCHANGED <<job, worker, swept, retry, faults, retries>>

-------------------------------------------------------------------------------
(* The reaper, the sweep and the API.                                        *)

(* Variant: a cancelled attempt is left to its owner. *)
ReapSparesCancelled(j, n) ==
    /\ IsRunning(j, n) /\ exec[j][n].stale /\ ~job[j].cancel
    /\ exec' = [exec EXCEPT ![j][n].status = "failed", ![j][n].stale = FALSE]
    /\ job' = [job EXCEPT ![j].status = IF @ = "running" THEN "queued" ELSE @]
    /\ UNCHANGED <<worker, swept, retry, faults, retries>>

(* reap_abandoned_execution: one transaction that re-checks staleness under  *)
(* the row lock; called by the reaper loop and by the sweep.                 *)
Reap(j, n) ==
    /\ IsRunning(j, n)
    /\ exec[j][n].stale
    /\ exec' = [exec EXCEPT ![j][n].status = "failed", ![j][n].stale = FALSE]
    /\ job' = [job EXCEPT
          ![j].cancel = FALSE,
          ![j].status = IF @ = "running" /\ ~\E m \in Attempts \ {n} : IsRunning(j, m)
                        THEN "queued" ELSE @]
    /\ UNCHANGED <<worker, swept, retry, faults, retries>>

(* Variants: a live attempt does not spare its job; only a missing start is   *)
(* read as stuck.                                                            *)
StuckDespiteAttempt(j) == job[j].status = "running" /\ job[j].started \in {"never", "old"}
StuckIfNeverStarted(j) == job[j].status = "running" /\ job[j].started = "never" /\ ~HasRunning(j)

(* sweep_zombie_jobs, second half: select the stuck jobs, then fail them one *)
(* by one, guarded by the job's status alone.                                *)
Stuck(j) == job[j].status = "running" /\ job[j].started \in {"never", "old"} /\ ~HasRunning(j)

SweepScan(s) ==
    /\ swept[s] = {}
    /\ swept' = [swept EXCEPT ![s] = {j \in Jobs : Stuck(j)}]
    /\ UNCHANGED <<job, exec, worker, retry, faults, retries>>

SweepFail(s, j) ==
    /\ j \in swept[s]
    /\ swept' = [swept EXCEPT ![s] = @ \ {j}]
    /\ job' = IF job[j].status = "running" THEN [job EXCEPT ![j].status = "failed"] ELSE job
    /\ UNCHANGED <<exec, worker, retry, faults, retries>>

(* Variant: the endpoint writes the verdict itself. *)
CancelAtOnce(j) ==
    /\ job[j].status \in Live
    /\ job' = [job EXCEPT ![j].status = "cancelled"]
    /\ UNCHANGED <<exec, worker, swept, retry, faults, retries>>

(* cancel_job records a request; it never writes a status. *)
Cancel(j) ==
    /\ job[j].status \in Live
    /\ job' = [job EXCEPT ![j].cancel = TRUE]
    /\ UNCHANGED <<exec, worker, swept, retry, faults, retries>>

(* retry_job: read the status, count the live attempts, update. A request     *)
(* that any of the three refuses is over.                                    *)
RetryRead(j) ==
    /\ retries < MaxRetries
    /\ retry[j] = "none"
    /\ job[j].status \in Retryable
    /\ retry' = [retry EXCEPT ![j] = "read"]
    /\ retries' = retries + 1
    /\ UNCHANGED <<job, exec, worker, swept, faults>>

RetryCount(j) ==
    /\ retry[j] = "read"
    /\ retry' = [retry EXCEPT ![j] = IF HasRunning(j) THEN "none" ELSE "checked"]
    /\ UNCHANGED <<job, exec, worker, swept, faults, retries>>

RetryCommit(j) ==
    /\ retry[j] = "checked"
    /\ retry' = [retry EXCEPT ![j] = "none"]
    /\ job' = IF job[j].status \in Retryable
              THEN [job EXCEPT ![j].status = "queued", ![j].cancel = FALSE]
              ELSE job
    /\ UNCHANGED <<exec, worker, swept, faults, retries>>

-------------------------------------------------------------------------------
Work(w) ==
    \/ Claim(w) \/ Admit(w) \/ ClaimForExecution(w)
    \/ CheckRunning(w) \/ ReadStatus(w) \/ Reopen(w) \/ Launch(w)
    \/ OpenExecution(w) \/ OpenConflict(w) \/ FailUnowned(w)
    \/ StartPhase(w) \/ FetchDone(w) \/ BindSnapshot(w) \/ ScanDone(w)
    \/ NormalizeDone(w) \/ ComputeDone(w) \/ DeliverDone(w) \/ PhaseFails(w)
    \/ Finalize(w) \/ Reported(w)

Disturb(w) == BudgetExpires(w) \/ Crash(w) \/ DatabaseError(w) \/ OuterTimeout(w)

Next ==
    \/ \E w \in Workers : Work(w) \/ Disturb(w)
    \/ \E j \in Jobs : StartAges(j) \/ Cancel(j) \/ RetryRead(j) \/ RetryCount(j) \/ RetryCommit(j)
    \/ \E j \in Jobs, n \in Attempts : HeartbeatAges(j, n) \/ Reap(j, n)
    \/ \E s \in Sweepers : SweepScan(s)
    \/ \E s \in Sweepers, j \in Jobs : SweepFail(s, j)

Spec == Init /\ [][Next]_vars

(* A worker loop that has not crashed keeps executing, time passes, and the  *)
(* reaper and housekeeping tasks run on their intervals. Requests from users *)
(* and faults are never forced.                                              *)
Fairness ==
    /\ \A w \in Workers : WF_vars(Work(w))
    /\ \A j \in Jobs : WF_vars(StartAges(j)) /\ WF_vars(RetryCount(j) \/ RetryCommit(j))
    /\ \A j \in Jobs, n \in Attempts : WF_vars(HeartbeatAges(j, n)) /\ WF_vars(Reap(j, n))
    /\ \A s \in Sweepers : WF_vars(SweepScan(s))
    /\ \A s \in Sweepers, j \in Jobs : WF_vars(SweepFail(s, j))

FairSpec == Spec /\ Fairness

-------------------------------------------------------------------------------
(* Properties of every behaviour.                                            *)

(* No two workers ever act for the same attempt, and the attempt that runs   *)
(* is the newest one of its job: what begin_execution's read, its numbering  *)
(* and the unique index on running attempts give together.                   *)
LeaseExclusive ==
    \A j \in Jobs, n \in Attempts :
        /\ \A v, w \in Workers : Holds(v, j, n) /\ Holds(w, j, n) => v = w
        /\ IsRunning(j, n) => \A m \in Attempts : m > n => exec[j][m].status = "absent"

(* What an attempt left behind is what its verdict says: a completed one has *)
(* complete coverage of a bound tree, a partial one partial coverage of one, *)
(* and an attempt that runs or failed has published nothing. This is the     *)
(* single commit point finalize_execution is written to be.                  *)
EvidenceMatchesVerdict ==
    \A j \in Jobs, n \in Attempts :
        LET e == exec[j][n] IN
        /\ e.status = "completed" => e.evidence = "complete"
        /\ e.status = "partial" => e.evidence = "partial"
        /\ e.status \in {"absent", "running", "failed"} => e.evidence = "none"
        /\ e.evidence # "none" => e.commit # NoCommit

(* A job is completed exactly when one of its attempts is, and carries a     *)
(* score exactly then. The two tables are written by one transaction, whose  *)
(* job update the lifecycle trigger may reject.                              *)
CompletedAgrees ==
    \A j \in Jobs :
        /\ job[j].status = "completed" <=> \E n \in Attempts : exec[j][n].status = "completed"
        /\ job[j].score <=> job[j].status = "completed"

(* Once closed, an attempt's row never changes again, whoever still believes *)
(* to hold it: the freeze triggers and the guards on the running status.     *)
AttemptFrozen ==
    [][\A j \in Jobs, n \in Attempts :
          exec[j][n].status \in Terminal => exec'[j][n] = exec[j][n]]_vars

(* Evidence is published only by the worker that holds the attempt, and of   *)
(* the tree the attempt is bound to, whatever tree the job row names by then.*)
EvidenceIsOfTheBoundTree ==
    [][\A j \in Jobs, n \in Attempts :
          exec'[j][n].evidence # exec[j][n].evidence
             => \E w \in Workers : Holds(w, j, n) /\ worker[w].tree = exec'[j][n].commit]_vars

(* A job becomes completed, partial or cancelled only in the step that       *)
(* closes one of its running attempts with that verdict: no endpoint, sweep  *)
(* or stale worker writes such a status on its own.                          *)
VerdictComesFromAnAttempt ==
    [][\A j \in Jobs :
          /\ job'[j].status # job[j].status
          /\ job'[j].status \in {"completed", "partial", "cancelled"}
          => \E n \in Attempts : IsRunning(j, n) /\ exec'[j][n].status = job'[j].status]_vars

(* A cancellation that is pending when an attempt is closed is honoured and  *)
(* consumed: the attempt is not completed or partial, and the request does   *)
(* not survive to poison the next attempt.                                   *)
CancellationIsDecided ==
    [][\A j \in Jobs, n \in Attempts :
          IsRunning(j, n) /\ exec'[j][n].status # "running"
             => /\ job[j].cancel => exec'[j][n].status \notin {"completed", "partial"}
                /\ ~job'[j].cancel]_vars

-------------------------------------------------------------------------------
(* Properties of restricted environments.                                    *)

(* No worker is suspended past the stale cutoff and no two sweeps overlap. *)
Prompt == ~Stalls /\ \A s, t \in Sweepers : s = t

(* A job that is terminal has no attempt in progress. Holds in a prompt       *)
(* environment: a worker that stalls between its claim and its lease opens an *)
(* attempt of a job the sweep has failed, and a second sweep with an older    *)
(* list fails a job that has been retried and opened in the meantime.        *)
JobAndAttemptEndTogether ==
    \A j \in Jobs : job[j].status \in Terminal => ~HasRunning(j)

(* The two tables, read as a record of attempts and a verdict, behave as     *)
(* AuditLedger promises: no attempt opens on a decided job, every verdict    *)
(* but a give-up comes with the attempt that ends there, and a completed     *)
(* audit is never reopened. Holds in a prompt environment as well.           *)
Ledger == INSTANCE AuditLedger WITH
    attempt <- [j \in Jobs |-> [n \in Attempts |->
                  [status |-> exec[j][n].status, evidence |-> exec[j][n].evidence]]],
    verdict <- [j \in Jobs |-> IF job[j].status \in Live THEN "pending" ELSE job[j].status]
ImplementsLedger == Ledger!Spec

(* The commit a completed job names is the tree its evidence is of. Holds     *)
(* only while no worker stalls: FetchDone pins by the job's id alone, so a   *)
(* reaped worker relabels a job that another attempt completes.              *)
CompletedJobNamesItsSnapshot ==
    \A j \in Jobs, n \in Attempts :
        exec[j][n].status = "completed" => job[j].commit = exec[j][n].commit

(* An attempt is closed over a worker's head only if that worker is gone.    *)
LiveWorkerNeverReaped ==
    [][\A j \in Jobs, n \in Attempts :
          Reap(j, n) => ~\E w \in Workers : Holds(w, j, n)]_vars

(* Every submitted job is eventually decided, whatever crashes: the reaper   *)
(* requeues what a dead worker held and the sweep fails what nobody opened.  *)
EveryJobEnds == \A j \in Jobs : job[j].status \in Live ~> job[j].status \in Terminal

(* An attempt no worker holds any longer is eventually closed.               *)
AbandonedAttemptCloses ==
    \A j \in Jobs, n \in Attempts :
        IsRunning(j, n) /\ (\A w \in Workers : ~Holds(w, j, n)) ~> ~IsRunning(j, n)
===============================================================================
