# Verification of Fire Crow

Fire Crow audits repositories. A user, or a GitHub push, submits a job; a worker
fetches the tree, runs scanners in containers, normalizes and scores what they
report, and writes the findings, a report and a canonical document in one
transaction. A finalized audit can then be narrated by a language model and
delivered by email or Telegram. This directory holds TLA+ models of the parts of
that program whose correctness depends on the order of steps taken by several
actors, TLC configurations that check them on small instances, and TLAPS proofs
of what can be proved for every instance. Paths below are relative to the
repository root; `orchestrator/`, `api/`, `services/`, `workers/` stand for the
directories of `backend/src/`.

## 1. Reading order

| file | what it is |
|---|---|
| `AuditLifecycle.tla` | the audit job, its attempts, the workers, the reaper, the sweep, cancel and retry |
| `AuditLedger.tla` | the abstract specification that a reader of the two audit tables may rely on |
| `MCAuditLifecycle.tla`, `Audit*.cfg` | instances for TLC |
| `AuditLifecycleProofs.tla` | lease exclusion, frozen attempts, evidence and verdicts; for a prompt environment, the agreement of the two tables and the refinement of `AuditLedger` |
| `Submission.tla`, `MCSubmission.tla`, `SubmissionSafety.cfg` | the gate jobs are created through, and the GitHub webhooks |
| `SubmissionProofs.tla` | the gate holds, one delivery makes one job |
| `Delivery.tla`, `MCDelivery.tla`, `DeliverySafety.cfg` | email and Telegram delivery of a finalized report |
| `DeliveryProofs.tla` | one sender at a time, no message repeated, true replies |
| `Narrative.tla`, `MCNarrative.tla`, `NarrativeSafety.cfg` | racing requests for the narrative of an execution |
| `Deletion.tla`, `MCDeletion.tla`, `DeletionFair.cfg` | deletion requests, and the loops that remind, delete and notify |
| `DeletionProofs.tla` | accounts are deleted for cause, told once, and late reminders are few |
| `Reports.tla` | classification, coverage, score, canonical document and report state, as operators |
| `Sandbox.tla` | one scanner run: child, container, capped streams, deadline, cancellation |
| `ScanPipeline.tla`, `MCScanPipeline.tla`, `PipelineSafety.cfg` | the phases of an attempt after the fetch, over the other two |
| `ReportProofs.tla` | of `ScanPipeline`: cancellation wins, nothing survives, the published parts agree, clean is earned; of `Narrative`: every reply is the one stored text |
| `Fetch.tla`, `MCFetch.tla`, `FetchSafety.cfg` | the fetch phase: commit, download, extraction, snapshot |
| `FetchProofs.tla` | no ceiling is passed, failures leave nothing, the tree is that of one commit, cancellation stops the fetch |
| `Channel.tla` | the sandbox's requests to the Docker daemon and the authorization plugin between them |
| `Egress.tla` | the egress proxy of the scanners' network |
| `Containment.tla`, `MCContainment.tla`, `ContainmentSafety.cfg` | the two composed: the boundary around the scanners |
| `ContainmentProofs.tla` | the boundary holds for the runs and in all that the plugin judges, nobody else's container is touched, a run can be removed |
| `Tokens.tla` | spent and revoked tokens in Redis and in PostgreSQL |
| `SecondFactor.tla` | requests of a signed-in user, the second factor, the lockout |
| `Sessions.tla`, `MCSessions.tla`, `Sessions*.cfg` | how sessions begin, rotate and end, over the other two |
| `SessionsProofs.tla` | logout and deactivation are final, credentials are spent once, guesses are few |

Every component has the same layout: the module declares the bounds as CONSTANTS
and is free of model values; the `MC` module names small sets and the symmetry;
a `.cfg` picks among them. A definition preceded by "Variant:" is not part of a
specification. It is the definition below it with one plausible defect; replacing
the one by the other must break the property `PROJECT.json` pairs it with, which
shows that the property can fail.

## 2. Inventory

| component | state | operations | status |
|---|---|---|---|
| Audit lifecycle | `audit_jobs`, `audit_executions`, worker-local state | claim, begin, heartbeat, bind, finalize, reap, sweep, cancel, retry | modelled |
| Submission and webhooks | `audit_jobs`, `github_webhook_deliveries`, `github_installations`, an advisory lock per user | submit, record a delivery, install/suspend/remove, push, mark | modelled |
| Delivery | `audit_deliveries`, the provider | resolve version, claim, call, record, reclaim | modelled |
| AI narrative | `ai_narratives`, the model provider | load, generate, validate, persist, reload | modelled |
| Sessions, authentication, MFA | `users`, `mfa_*`, `auth_exchange_codes`, `login_failures`, `token_revocations`, the Redis revocation keys | login, GitHub callback, exchange, refresh, logout, enrolment, activation, disabling, recovery codes, deactivation | modelled in part |
| Account deletion | `account_deletion_requests`, `users.deleted_at` | request, cancel, remind, process | modelled |
| Canonical document, score, report | none (pure) | classify, normalize, coverage, score, document, report state | modelled in part: no texts, no correlations |
| Scanners and sandbox | containers, streams, scanner results | run, stop, classify, the phases up to finalization | modelled in part: no command lines, no parsing |
| Repository fetch | a temporary directory | resolve, download, extract within bounds, snapshot, clean up | modelled |
| Progress events (SSE) | a broadcast channel per job | subscribe, send, lag | not modelled |
| Rate limiting, CSRF, middleware | a bucket per key | allow or refuse | not modelled |
| Tenants, IAM, PAM, SSO | role tables | single statements | not modelled |
| Payments | an external provider | a thin client | not modelled |
| Egress policy and proxy | connections, the resolver | accept, judge the name, resolve, judge the addresses, connect | modelled |
| Docker authorization plugin | the identifiers of created containers, in memory | judge a request, note a response, restart | modelled |
| Storage, configuration, startup, logging | files, environment | I/O and wiring | not modelled |
| Frontend | user interface | none of the protocol's state | not modelled |

### How the parts interact

- **Everything meets in PostgreSQL.** Workers, the reaper loop, the housekeeping
  loop and the HTTP handlers share no memory that matters; they exchange rows.
  What a statement or a transaction does is atomic, what two of them do is not.
  This is why an action of a model is one statement or one transaction.
- **Submission -> lifecycle.** Submission inserts a `queued` row; a worker claims it
  with `FOR UPDATE SKIP LOCKED`. Retry sends a decided job back to the queue
  without passing the gate of submission.
- **Pipeline -> lifecycle.** `ScanPipeline` is what happens inside an attempt between
  the fetch and finalization. It ends in an outcome and, for a published audit, the
  coverage: the two things `AuditLifecycle` lets its scan phase choose freely. It
  reads one thing of the lifecycle, the cancellation request.
- **Fetch -> lifecycle.** `Fetch` is the phase before it: it ends in a tree with the
  commit the lifecycle binds, or in an error. A poller copies the cancellation request
  into the flag it consults.
- **Sandbox -> plugin -> daemon.** Every request of a run's docker client, and of
  anybody else on the socket, passes the plugin. `Sandbox` is one run seen from the
  client; `Channel` is the same run seen from the channel.
- **Containers -> egress proxy.** Only a container on the internal network reaches the
  proxy, and only the dependency scanner is put there.
- **Sessions -> everything with a user.** The extractor of `middleware/auth.rs` is the
  beginning of every handler of a signed-in user; `SecondFactor` has it once.
- **Lifecycle -> delivery, narrative.** Both read executions only once they are
  terminal, and the freeze triggers keep what they read from changing:
  `AttemptFrozen` and `EvidenceMatchesVerdict` are what the two consumers rely
  on, so `Delivery` and `Narrative` start from finalized executions.
- **Workers <-> reaper <-> sweep.** A worker proves it is alive by heartbeats on its
  attempt. The reaper closes attempts whose heartbeat is older than five minutes
  and requeues the job; the sweep fails jobs that run without an attempt.
- **Housekeeping.** One task of each server process runs the sweep and the
  pruning of `HousekeepingService::run`, then the deletion lifecycle, on an
  interval; an error of either is logged (`workers/mod.rs:479-510`).

### Behaviours that are hard, and what makes each part correct

*Audit lifecycle.* A worker executes some ten statements between claiming a job
and owning an attempt, and any other actor may act between two of them. A worker
whose attempt was reaped does not know and goes on writing. The process may die
anywhere. Correct means: one worker per attempt; a closed attempt never changes;
a verdict and its evidence appear together; a cancellation is honoured or
consumed; and every job is decided.

*Submission.* GitHub repeats deliveries; a handler may die between the job's
insert and the acknowledgement; the same delivery may be handled twice at once,
under two owners of one installation. Correct means: one job per delivery, no
push acknowledged without its job, and never more admitted live jobs than the cap.

*Delivery.* A message cannot be unsent, the provider call is outside every
transaction, and a timeout leaves it unknown whether a message was taken.
Correct means: one sender per destination, a history of versions of which only
the newest is open, and no second message after one that is held to have arrived.

*Narrative.* No transaction spans the model call. Correct means: whoever asks, and
whenever, gets the same text.

*Sessions.* Exchange codes, refresh tokens, challenges and recovery codes may be used
once although requests race; revocations are written to two stores and read from one;
Redis may be away, may fail at a call, and may come and go with a restart; the account
may change between two statements of a handler. Correct means: one use each, no login
without the factors the account asked for, and an end that is final.

*Fetch.* The archive's headers are input, the branch moves, every read may fail and the
future may be dropped. Correct means: the tree is that of one commit, no ceiling is
passed even for a moment, and nothing is left behind.

*Boundary.* The plugin reads a body that the daemon will read again, forgets its
registry when it restarts, and sees requests that are not the sandbox's; a resolver
changes its answers. Correct means: a run's container is confined and can be removed,
what others create is confined in all that the plugin judges, nobody else's container
is touched, and what leaves the network goes where it may.

*Deletion.* A user may cancel while a loop is processing a list it has read; each
request is processed by several statements, and the process may stop between two
of them. Correct means: a decision is final, an account is deleted only for a
request nobody cancelled in time, its owner is told once, and a due request is
not left undecided.

*Scanners and sandbox.* The docker client, the container behind it, two stream
readers, the deadline and the user proceed independently, and the loop sees their
events in any order; a kill may reach the client and not the container. Correct
means: a cancellation wins over a late result, nothing outlives its run unless
something failed, and an output that could not be used is never a clean scan.

*Canonical document and report.* Status, coverage, score, rows, document and
report state are computed in different places from different inputs. Correct
means that they agree, and that "no findings" is said only where every tool
delivered a report that names none.

`PROJECT.json` lists every hazard at the line where it bites, with the property
that would catch it, or the reason why none does.

## 3. The models

### 3.1 `AuditLifecycle`

| variable | code |
|---|---|
| `job[j]` | a row of `audit_jobs`: status, `started_at` relative to the cutoff, `cancel_requested_at`, `commit_sha`, whether a score is present |
| `exec[j][n]` | a row of `audit_executions`: status, bound commit, whether its heartbeat is older than the cutoff, whether the run's coverage was complete (`state.coverage_complete`) when it published |
| `worker[w]` | the local variables of a worker between two statements |
| `swept[s]` | the list a run of `sweep_zombie_jobs` has read and is working through |
| `retry[j]` | how far the `retry_job` handler has come |

`Claim` is `claim_next_job`; `Admit` is `may_execute_job`; `ClaimForExecution` the
claim inside `run_audit_job`; `CheckRunning`, `ReadStatus`, `Reopen`, `Launch`,
`OpenExecution` and `OpenConflict` are the statements of `begin_execution` in their
order; `FailUnowned` is `fail_job_if_unowned`. `StartPhase` is the `step!` macro (the
cancellation check, then the heartbeat), each `...Done` action one phase, and
`Finalize` the transaction of `finalize_execution`. `Reap`, `SweepScan`/`SweepFail`,
`Cancel` and `RetryRead`/`RetryCount`/`RetryCommit` are the reaper, the sweep and the
two endpoints. `LifecycleGuard` is the trigger of
`20260901001300_audit_jobs_lifecycle_guard.sql`.

Faults are explicit: `Crash` (the process dies), `DatabaseError` (each statement's
error path, which differs: admission reads an error as "already finalized", launch
discards it, finalization rolls back), `BudgetExpires` and `OuterTimeout` (the two
timeouts). Time is two facts: `StartAges` and `HeartbeatAges` say that a timestamp
passed the five-minute cutoff. `SlowPhases` names the phases that may outlast the
cutoff while their worker lives, `Stalls` says whether a worker may be suspended
that long anywhere.

Abstracted: the contents of findings and reports (an attempt keeps only the
coverage it published), phase rows, progress broadcasts, Check Runs, and the
retry of an insert that lost a race on the attempt number, which recomputes at
once.

`AuditLedger` is what a reader may rely on: attempts open one at a time on a
pending job, close once with evidence that fits their status, and give the job
its verdict in the same step; a completed job is final. `Ledger` in
`AuditLifecycle` is the refinement mapping.

### 3.2 `Submission`

`job`, `delivery` and `installation` are the three tables, `lock[u]` the holder of the
transaction-scoped advisory lock of user `u`, `req[h]` the local state of a
handler. `Submit` and `Receive` start a handler; `Replay` is the branch for an id seen
before; `Acknowledge`, `Register`, `Remove`, `Suspend`, `Push` are the branches of the
event dispatch; `Authorize` is `authorize_installation_repo` reduced to its verdict
(and its own re-read of the row); `Existing`, `Lock`, `Count`, `Insert`, `Refetch` are
the statements of `create_audit_job_attributed`; `Mark` is `mark_webhook_outcome`.
`Failed` is a database error or a dropped handler at any point: the transaction's
lock is released, nothing else is undone. Signature checks, payload parsing,
GitHub's token exchange and the repository's validation are reduced to accepted or
refused. The retention of old delivery rows is not modelled: a row outlives the
period in which GitHub redelivers. A repeated delivery is compared by the hash of its
body alone, as in the code (`services/github_app.rs:581`); that a body comes under one
event name is assumed of GitHub.

### 3.3 `Delivery`

`row[d][v]` is version `v` of a destination's row in `audit_deliveries`, `req[r]` a
handler, `held[d]` a history variable: the provider has taken a message and the
sender has not been told otherwise. `CheckSent`, `Reclaim`, `ReadLatest`, `Precheck`,
`Insert` are the statements before the provider call, `Call` and the two `Answered`
actions the call and its retries, `Record` is `finish_delivery` under the table's
triggers, `Respond` the reply. `ReclaimAccepted` computes from the columns that the
reclaiming statement names whether PostgreSQL accepts it.

### 3.4 `Narrative`

`execution`, `narrative` and `req` are the state; `told` collects every reply ever
given. The provider, the prompt and the validator are reduced to "an accepted
text, or an error".

### 3.5 `Deletion`

`request[q]` is a row of `account_deletion_requests`: its status, its account,
whether the deadline has passed (`overdue`) and whether a reminder was sent within
the reminder interval (`reminded`). `deleted[u]` is `users.deleted_at`. `loop[w]` is
where a run of `deletion_lifecycle::process` stands: `Tick` reads the clock and the
due requests, `Delete` takes one by the guarded update, `MarkAccount` writes
`users`, `Notify` revokes the account's sessions and sends the final message;
`SelectReminders`, `Remind`, `RecordReminder` are the second half. `Failed` ends a
run anywhere: nothing is undone, and the next tick reads new lists.
`RequestDeletion` and `Cancel` are the endpoints; `DeadlinePasses` and
`ReminderAges` are time. `told`, `late` and `torn` are history variables.

Abstracted: tokens, addresses and texts; the mail provider's answer, which the
code does not look at; and `user_sessions`, a table no other code reads.

### 3.6 `Reports`, `Sandbox`, `ScanPipeline`

`Reports` has no state. A finding is a canonical identity, its tool and a storage
row; `Invalid` is the identity of a finding that evidence validation refuses.
`Classify` is what the three scanner modules make of an artifact and an exit,
`Gathered` and `Coverage` are `aggregate_scan_results` and
`derive_coverage_state`, `Kept` the validation and deduplication of
`normalize_findings_for_persist`, `Score` the score in tenths of a point, `Document`
and `State` the canonical document and the state its report announces.

| variable | code |
|---|---|
| `native` | `SCANNER_EXECUTION_MODE` |
| `at`, `tool` | where the caller of `execute` stands, and for which scanner |
| `process[t]` | the tool itself, in its container or not |
| `client` | the child process of `tokio::process`: the docker client, or the tool |
| `pipe[s]`, `seen[s]` | what the capped reader of a stream has come to, and what the `select!` loop has taken of it |
| `exit`, `stop` | the exit status the loop has taken, and why it ended |
| `wrote[t]` | the report the tool wrote (forgotten once unused) |
| `flag`, `requested` | the flag the scan phase polls, and the column it copies |
| `phase`, `result`, `raw`, `findings`, `complete`, `score`, `document`, `outcome` | the state of the pipeline after each phase |

`Start` and `Refuse` are the beginning of a run; `ToolEnds`, `ClientLost`, `ReadAll`,
`PassesCap`, `ReadFails` happen outside the loop; `SeeExit`, `SeeStream`, `Deadline`,
`SeeCancel`, `WaitFails` are the arms of the `select!`, with `Decide` the order in
which the loop looks at what it has; `Terminate` is `terminate` with the removal of
the container. In native mode the report is a file, so there is no stdout to wait
for, and a file may be oversized. `Skip`, `Run`, `Return` are `execute`; the other
actions of `ScanPipeline` are the `step!` phases, each with its cancellation check
(`StopAtRequest`, `ReadsNoRequest`) and its error path.

Faults, `MaxFaults` in all: a refused start, a lost client, a failed reader, a
failed wait, a failed removal, a cancellation check or a ledger write that the
database fails, and the time budget. A deadline, a cap and a cancellation are not
faults: they happen at will. `cut` is a history variable: the tools whose result was
used although the loop never took all of their stdout.

Abstracted: command lines (the sandbox's policy is in `Channel`), the parsing of each schema (a report
is well formed, or wrong in one of the ways the code tells apart), which of the
validation's checks refuses a finding, correlations, and the rendering.

### 3.7 `Fetch`

| variable | code |
|---|---|
| `repo`, `head` | GitHub: the archive of each commit, and where the branch is |
| `request` | the URL, branch and commit of the job |
| `stage`, `outcome` | where `fetch_repo_with_cancel` stands, and what it returned |
| `cancel` | the flag its poller sets (`orchestrator/mod.rs:484-494`) |
| `received` | bytes in `out` of `read_bounded` |
| `next`, `left`, `target`, `charged`, `entries`, `pending` | the locals of `extract_tarball_with_cancel`: the member, what is left of its body, where it goes, `total`, `file_count`, `pending_name` |
| `files`, `dirs` | the private directory on disk |
| `snap` | the snapshot recorded |

`Start`, `Access`, `ResolveHead`, `Download` are the requests with their checks,
`ReadBounded` a chunk of the body, `NextMember` a header, `StreamChunk` a chunk of a
member, `EndMember` what follows its last byte, `Snapshot` the walk. `Return` is every
early return: the guard is dropped and the directory goes. `HttpFails` and `Refused` are
errors of a request, `Dropped` a caller that stops waiting at an await; extraction has
no await. Bytes are counted, not kept: a file is its size, a path its components.
`TreeOf` reads a commit's tree off its archive as a whole, without the state machine;
`TreeIsTheCommit` compares the two.

Assumed of the constants: an archive is a sequence of members that have a type, a name
and a size, with two lengths; a commit that is asked for exists or is malformed.

### 3.8 `Channel`, `Egress`, `Containment`

`container` and `pulled` are the daemon's, `registry` and `up` the plugin's, `step[r]`
is where a run of the backend is and `spec[r]` what it was asked for. `Ask` is the
sandbox's validation and policy; `Create`, `Pull`, `Observe`, `Address` are the requests
of `docker run`, in order, each decided by `Decide`; `Terminate` and `ForceRemove` are the
timeout's path. `Other` is any further request on the socket. `CreatePolicy` has a named
part per group of rules of `create_policy`. A field of a body has the values the rules
tell apart, among them absent, of another type, and where the daemon does not look.

The plugin takes the fields it knows out of a body by their exact names and has no list
of the fields a body may have. So a body has one more field, `unread`: what it asks for
where the plugin does not look, be it a field the plugin does not know or a spelling of a
known one that only the daemon accepts. `Reach` is what the daemon makes of a body,
written from the daemon's documented defaults and not from the plugin; its second argument
is what the daemon finds in the fields left alone. `Confined` is the boundary in these
terms, and `Contained` claims it twice: for the runs of the sandbox with everything the
daemon reads, since the command line fills no such field (`docker_argv`); for a container
that another request created only as far as the fields go that the plugin looks at.
`DeniedByDefault` is the claim without that restriction, which the comment at the head of
`lib.rs` makes and the code does not keep (section 4).

In `Egress`, `dns` is what the resolver answers now and `conn[c]` a connection: `Accept`,
`ReadHead`, `Resolve`, `Connect`, `Closes` are the statements of `serve_connection`.
`Containment` composes them: a container that runs on the internal network opens
connections, and the dependency scanner is asked for only with a proxy to use.

Assumed of the constants: the runs and the foreign containers have different identifiers;
an answer of the resolver is a sequence of addresses; and, for `RunsCanBeRemoved` only, the
backend's certificate is one the plugin accepts (`docker-compose.yml:63`).

The daemon, the resolver and what a container does inside are external. The plugin's
decision log and the bytes of a tunnel are left out. The modelled daemon has no images but
those pulled over the channel, which are approved, so `unread` cannot ask for another one; a
host with further images is not modelled. Among the addresses, "public6" includes those that
a translating gateway (NAT64, 6to4) would pass on to an IPv4 address:
`egress_policy.rs:86-105` lets them through, no gateway is modelled, and `EgressIsApproved`
says nothing of what lies behind one. Two connections never meet in the proxy but in the
count of permits.

### 3.9 `Tokens`, `SecondFactor`, `Sessions`

| variable | code |
|---|---|
| `attached` | whether this process connected to Redis when it started |
| `cache`, `rows` | the Redis keys `revoked_jti` and `revoked_family`; `token_revocations` |
| `account` | `users`, `mfa_configurations` and `mfa_recovery_codes` of one account |
| `failures` | `login_failures` in the window, per key |
| `codes` | `auth_exchange_codes` |
| `req[r]` | a handler between two statements |
| `issued`, `loggedOut`, `accepted`, and `held`, `late`, `dead` of a request | history |

A token is its family and its type, which determine its jti. Every call to the database
or to Redis is an action; `Answers` are the outcomes a call to Redis may have. Any token
ever issued may be presented to any handler at any time. `Restart` drops the requests in
progress and decides anew whether there is Redis.

Assumed: the database answers. Its errors end a handler with an error, except in
`revoke_token_in_db`, whose result every caller throws away: a logout that fails in both
stores is answered as one that succeeded, and no property could survive that.

`disable_mfa` is four statements (`TurnOff`, `ReadConfig`, `DropCodes`, `WipeConfig`),
between which the account may change; the errors that its two deletions discard fall under
the assumption, too.

Abstracted: passwords and TOTP codes are right or wrong, cookies and the OAuth state are
in order, tokens do not expire, and one recovery code stands for its batch.

## 4. What is checked

| run | instance | distinct states | shows |
|---|---|---|---|
| `audit_safety` | 1 job, 2 workers, 1 sweep, 2 commits, 2 attempts, 1 retry, 1 fault; workers may stall, the scan may be slow | 2,388,670 | the invariants and action properties that hold in *every* environment |
| `audit_prompt` | the same with 3 attempts, nobody stalls, no slow phase; `FairSpec` | 108,630 | table agreement, `ImplementsLedger`, and liveness |
| `audit_live_reap` | no fault, no stall, a slow scan | violation | a live worker's attempt is reaped |
| `submission` | 2 users, 1 installation, 2 commits, 9 bodies, 2 delivery ids, 2 handlers, 2 jobs, cap 1 | 1.34 million | the gate, idempotence, acknowledgement |
| `delivery` | 1 mail and 1 chat destination, 3 handlers, 3 versions, 2 tries | 1.1 million | sender exclusion, no repetition, true replies |
| `narrative` | 2 executions, 3 handlers, 2 texts | 3716 | one text for everybody |
| `deletion` | 1 account, 2 requests, 2 loops, 1 fault; `FairSpec` | 294,226 | decisions are final, told once and reached |
| `pipeline` | 1 identity, 3 possible lists, 1 fault; container and native, with and without a proxy | 2,082,581 | cancellation wins, clean is earned, the published parts agree, nothing survives |
| `fetch` | 2 commits, 17 archives, 9 requests, 1 push; ceilings of 2 to 7 units | 323,442 | one commit's tree, bounds, cleanup, cancellation |
| `containment` | 1 run, 1 foreign container, 13 specs, some 70 other requests, 2 of them sent, 1 restart, 1 connection, 5 resolver answers | 353,746 | the boundary holds, removal works, nobody else is touched |
| `sessions` | 2 requests, 3 families, 2 batches of codes, 1 exchange code, 1 restart, lockout at 1, 7 sets of handlers | 1,192,172 | single use, finality, bounded guessing |
| `session_failover` | the same | violation | an access token outlives its logout |

### Why these bounds

*One job* in the audit runs: no statement of the lifecycle reads another job's
rows; jobs meet only in the claim, which takes any queued one. *Two workers* are
needed for every race of the worker loop (one that lost its lease, one that
succeeded it); a third can only repeat the part of the loser. *Two attempts* in
`audit_safety` give one reaped and one successor, *three* in `audit_prompt` give an
attempt after a retry as well. *Two commits* are what a moved branch needs. *One
fault* composes with stalls, slow phases, a retry and any number of cancellations;
more faults multiply the states, and the proofs do without the bound.
*Two handlers* in `submission` are both ends of each race; two ids, two heads and
two users give a replay with other bytes, a change of owner between deliveries,
and two locks. A cap of 1 with two jobs is the smallest that can be exceeded.
*Three handlers* in `delivery` allow a dead one, a sender and a competitor; three
versions allow a failure, a second failure and an open row.
*One account* in `deletion`: a request names its account and no statement relates
two accounts. Two accounts (`TwoUsers`) give 1.17 million states and no error, and
the theorems hold for any number. Two loops are two server processes; two
requests let one be cancelled while the other is processed.
In `pipeline`, the lists are nothing, one finding reported twice (which must be
deduplicated) and one that is refused; three tools take them independently, so
every mixture occurs. A second identity only adds findings. One fault composes with
a deadline, a cap and a cancellation at any point of any run; the fault counts in
`NothingSurvives` the containers that were abandoned. The run ends when the
attempt does, so deadlock is not checked there.
In `fetch`, the archives are a legal tree, one for each way of naming, replacing or
nesting members, and one for each ceiling; each ceiling is reached, exceeded by one and
passed by one kind of member only. Two commits with different archives are what a moved
branch needs. A third file adds nothing: ceilings are sums.
In `containment`, one run meets two further requests, enough for a stranger's create and
start, or for a create and whatever follows it; every request and body differs from a
legal one in one respect, so each rule decides alone. Two bodies ask for
more where the plugin does not look: for one aspect of `Reach`, and for all. One restart can fall between any
two requests. One connection, because two do not interact.
In `sessions`, two requests are both ends of each race; three families are a session, its
successor and one more, or a challenge, its session and another login. A behaviour calls
the handlers of one set of `MCWorkloads`, each the set one hazard is about: all of them
together would exceed the time of a run, and the theorems are proved for all together.
A limit of one makes the lockout a matter of two requests.
A handler that finds `MaxVersion` failed waits there until it is dropped: the bound
stops it, not the code.

### Fairness

Two runs assume any; the others check safety only. In `audit_prompt`, `WF(Work(w))`: a worker loop that has not crashed
executes its next statement (tokio schedules it; every await has a timeout).
`WF(Reap)`, `WF(SweepScan)`, `WF(SweepFail)`: the reaper loop and the housekeeping loop
run on intervals (`workers/mod.rs`) and catch their errors. `WF(StartAges)`,
`WF(HeartbeatAges)`: time passes. `WF(RetryCount \/ RetryCommit)`: a started request
runs to its end. User requests, faults, and the choice among the outcomes of a
phase are never forced. In `deletion`, `WF(Step(w))`: a loop ticks on its interval
and executes its next statement; a loop that stopped ticks again after its restart.
Users, the clock and faults are not forced: `DueIsDecided` starts from a deadline
that has passed. Strong fairness is not used.

Under it `EveryJobEnds` and `AbandonedAttemptCloses` hold. The number of attempts is
bounded there: the code has no such bound, and a job that kills its worker each
time is requeued for ever (listed as a hazard without a property).

### What the runs found

Two runs state what a comment says and show that the code does otherwise;
`PROJECT.json` "findings" quotes the lines.

1. *Live workers are reaped* (`audit_live_reap`). The scan heartbeats once, after the
   last scanner; three scanner timeouts add up to 1200 s against a cutoff of 300 s.
2. *A revocation that Redis missed is not seen* (`session_failover`). Logout throws away
   the results of its writes to Redis, and the extractor asks the table only when the
   lookup in Redis fails.

Properties stated in the modules that do not hold, each named for a comment of the code.
TLC refutes them when they are added to the configuration of their component:

- `CompletedJobNamesItsSnapshot`, with stalls or a slow fetch. The commit is pinned on the
  job row by id alone (`orchestrator/mod.rs:519`), before `bind_snapshot` can refuse a worker that
  lost its lease, although the migration says a change "cannot silently relabel" an audit.
- `StaleSendingIsReclaimed`. The statement that reclaims stale deliveries
  (`orchestrator/delivery.rs:182-187`) sets a column the table does not have; its error is
  discarded, and the destination answers with a conflict for ever.
- `LiveWithinCap`. A retry (`api/routes_audit.rs:400`) does not count the live jobs.
- `CappedNeverSucceeds`. The sandbox's loop (`services/sandbox.rs:1146`) asks first whether
  the exit and both streams have settled, and a stream that hit its cap has: a run whose
  last event is the overflow returns as finished, with that stream empty. `native_exec.rs:389`
  has the same order.
- `WithinCeilingsIsNotTooLarge`. A file is charged by its header (`agents/fetch.rs:1060`) and
  once more by `stream_exact` (`:952`), so about half of `MAX_TOTAL_BYTES` is usable.
- `ApprovedRunsAreAllowed`. semgrep asks for a scratch directory at `/tmp`, and the plugin
  denies every one that is not under `/work` (`docker-authz-plugin/src/lib.rs:798`).
- `DeniedByDefault`. "Deny-by-default: anything not explicitly allowed is denied"
  (`docker-authz-plugin/src/lib.rs:5-7`; `docs/security/threat-model.md:62` calls the plugin
  "the content boundary"). `create_policy` (`:528-852`) compares the fields it knows, and
  whatever else a body says reaches the daemon, as does a known field in a spelling that
  only the daemon accepts. The sandbox's own requests say nothing there, so its runs are
  confined all the same; for other clients of the channel the promise holds as far as the
  fields go that the plugin looks at, which is what `BoundaryHolds` claims.

Observed while modelling, without a run of their own:

- `JobAndAttemptEndTogether` holds only in a prompt environment (`Prompt`): no worker is
  suspended past the cutoff, and no two sweeps overlap. With `Stalls` a
  sweep that selected a job before its attempt was opened fails the job under a
  running attempt (`services/housekeeping.rs:113`), whose `completed` verdict the
  job's trigger then rejects: the finalization rolls back
  (`orchestrator/execution.rs:834-835`) and the work is lost. The same happens
  with two server processes and no stall: a sweep may still hold the job on the list it
  read before another sweep failed it, and fail it again after a user retried it and a
  new worker opened an attempt. Therefore this property and the refinement are
  part of `audit_prompt`, and proved under `Prompt`. Slow phases do no harm.
- `NeverSentAgain` rests on the rejected reclaiming statement. Repairing the reclaiming statement alone
  would let a second handler send while the first may have succeeded; the variant
  `ReclaimSetsRepaired` shows it. A repair needs a reconciliation with the provider.
- The email handler shows the row of version 1 (`api/routes_audit.rs:752-760`), so
  after a failed first delivery a successful one is answered with the failed row's
  status. `ReplyIsTrue` therefore speaks of the shown row only for Telegram.
- A call that timed out is recorded as failed though the provider may have taken
  the message, so a later request may send it again. `held` is cleared in that
  case: `NeverSentAgain` is about messages the sender was not told had failed.
- The resend webhook (`api/routes_auth.rs:389-452`) updates rows by
  `provider_message_id` that are neither sent nor failed. That column is written
  only by `finish_delivery`, together with the final status, so no row ever matches
  and the provider's later events change nothing.
- A cancellation of an attempt that the reaper closes first is consumed by the
  reaper, and the requeued job goes on (`api/routes_audit.rs:333` answers that the
  request is recorded).
- A redelivery that raced its first attempt may be refused with "too many audits"
  because of the job that attempt created (`api/routes_audit.rs:161-163`). The job
  exists and the first handler closes the delivery, so nothing is lost.
- A loop that stops between the update of the request and the update of `users`
  (`services/deletion_lifecycle.rs:120-140`) leaves a request that says "deleted"
  for an account that is not marked, and no later tick selects it. The model keeps
  these requests in `torn`; `DeletionIsCarriedOut` says that they are the only ones.
- A request cancelled after a loop has read its list of reminders may still get
  one reminder from that loop. The interval between reminders is kept only by the
  statement after the sending, so a crash or a second process may shorten it.
- One account may have several requests, and cancelling one does not stop another.
- `users.deleted_at` and `user_sessions` are written here and read by nothing else
  in the repository.
- A late or repeated `installation created` event brings a removed installation
  back (`services/github_app.rs:145`). GitHub refuses tokens for it.
- When every finding of three successful scanners is refused, the report announces
  `SUCCESS_CLEAN`, "completed and reported no findings"
  (`backend/src/schemas/report.rs:33-34`), though the audit is only partial and its document
  counts the refused ones. `DocumentsAgree` therefore relates the announced state to the coverage
  of the scanners, not to the status of the audit.
- A run that ends without `terminate` (a failed wait, the time budget) drops the docker
  client, and with it nothing but the client: the container runs until its tool
  ends (the comment at `services/sandbox.rs:1084-1085` expects otherwise).
  `NothingSurvives` counts one such container per fault.
- Detections that the semgrep adapter rejects leave the coverage complete and
  add a limitation; the comment beside them (`backend/src/agents/scanner.rs:1011`) speaks of partial
  coverage.
- A second activation of MFA (`api/routes_mfa.rs:68-81`) keeps the identity of the existing
  configuration and stores its codes under a new one: the foreign key refuses them after the
  factor was enabled. Activation and disabling in parallel can leave a factor that is on
  without a secret or codes; the owner can then not log in.
- Enrolling again replaces the secret of an account whose factor is on, before anything is
  verified against the new one.
- A challenge redeemed without Redis is remembered in the table only, and a process with
  Redis does not look there: `SpentOnce` is stated among processes that agree on Redis.
- A process that is killed during a fetch leaves its directory, which nothing removes.

## 5. What is proved

`tlapm` checks every theorem for all values of the constants that satisfy the named
assumptions: any number of workers, jobs, attempts, faults, handlers and versions.
PTL combines the three facts of each invariance proof; the rest is SMT and Zenon.

| module | inductive invariant | why it is needed | theorems |
|---|---|---|---|
| `AuditLifecycleProofs` | `TypeOK` and `WorkersCoherent` | which local fields a worker has at which point | `TypeCorrect` |
| | `LeaseInv`: `NewestRuns`, `LeasesOpened`, `LeasesDistinct` | exclusion follows from "a held number was opened, is held once, and the running one is the newest"; no conjunct is inductive alone | `LeasesAreExclusive`, `ClosedAttemptsAreFrozen` |
| | `EvidenceInv`: `LeaseInv`, `BoundToTree`, `EvidenceMatchesVerdict` | a worker that still holds a running attempt and has passed the fetch has bound it to its own tree; a published coverage is of that tree | `EvidenceIsSound`, `PublishedEvidenceIsOfTheBoundTree`, `CancellationsAreDecided`, `VerdictsComeFromAttempts`, `CompletionAgrees` |
| | `OneOwner`: `EngagedAlone`, `SweptIdle`, `RunsTogether` | under `Prompt`: a worker between its claim and its attempt is the only one on that job, which has no running attempt and a fresh start; so whatever is on a sweep's list, stale and unopened, is nobody's | `JobsAndAttemptsEndTogether`, `LifecycleImplementsLedger` |
| `DeliveryProofs` | `DeliveryInv`: `TypeOK`, `Local(q)`, `TableOK(d)`, `OneSenderPerDestination` | what a handler knows of the row it is about to claim, and that an owner's row is the newest and open | `DeliveryTypeCorrect`, `DeliveriesAreAHistory`, `SendersAreAlone`, `MessagesAreNotRepeated`, `RepliesAreTrue` |
| `SubmissionProofs` | `SubmissionInv`: `TypeOK`, `TablesOK`, `AdmittedWithinCap`, `ProcessedHasItsJob`, `JobIsOfTheRecordedPayload`, `Knows(h, x)` | a handler past the count holds its user's lock and has counted fewer than the cap; one at the mark has its job | `SubmissionTypeCorrect`, `GateHolds`, `DeliveriesMakeOneJob`, `ProcessedPushesHaveJobs`, `JobsAreOfRecordedPayloads`, `RepliesNameTheirJobs` |
| `DeletionProofs` | `DeletionInv`: `TypeOK`, `ListsKnown`, `WorkKnown`, `AloneAtWork`, `DeletedWasDue`, and the three invariants of the run | a request on a list was due when read; a loop at work holds a deleted request nobody else holds and nobody was told of | `DeletionTypeCorrect`, `AccountsAreDeletedForCause`, `CompletionsAreToldOnce`, `DeletionsAreCarriedOut`, `DecisionsAreFinal` |
| | `LateCounted` | the late reminders of a request and the loops that may still send one are together at most the loops there are | `LateRemindersAreFew` |
| `ReportProofs` | `TypesInv`: `TypeOK`, `ResultsFine`, `SetsFinite` | scores and documents count finite sets, and a result names findings of its own tool only | `PipelineTypeCorrect` |
| | `Story`: `Aggregated`, `Unnormalized`, `Normalized`, `Scored`, `Documented`, `Concluded` | each phase rests on what the one before computed, so at the end every part is a function of the results | `CancellationsWin`, `PublishedPartsAgree` |
| | `LooseCounted`, `ExitOfTheGone` | a running tool whose child nobody holds got loose by a fault, one each | `ScannersDoNotSurvive` |
| | `Turns`, `SeenIsTrue`, `MissingIsBad`, `UsedOnly` | a run is of the tool whose turn it is, the loop has seen what happened, and so a used result is of the report the tool wrote | `CleanResultsAreEarned` |
| | `NarrativeInv`: `NarrativeTypeOK`, `EveryoneIsToldTheSame`, `Knows(q)` | a handler at "reload" has seen a narrative stored | `ToldTheSame`, `ReloadsSucceed`, `NarrativesAreFinal` |
| `SessionsProofs` | `IInv`: `Shape`, `Recorded`, `Requested(r)`, `LoggedOutNeverRefreshes` | a logout is answered only after the table has its row, rows stay, and a rotation reads the table whatever Redis said, so a late refresh never leaves its first step; a request of a deactivated account never passes the extractor | `EndingsAreFinal` |
| | `Sound`: `IInv`, `Placed(r)`, `Cautious(r)`, `Counted`, `CodesUnspent`, `Earned` | every session has a receipt for the credential it was minted from, no two share one, and a request that claimed a token or a code is the only one and left its mark where its process looks (`Earned`); a code in the table was never accepted (`CodesUnspent`); the failures recorded and the requests past the lockout are together fewer than the limit and the requests there are (`Counted`) | `CredentialsAreSpentOnce`, `GuessesStayBounded` |
| `ContainmentProofs` | `ChannelInv`: `Tables`, `Registered`, `Judged(r)`, `Built(r)`, `StrayBuilt` | a run's container is the image of a spec the policy accepted and the plugin re-read, with nothing in a field the plugin does not read; what is in the registry was created over the channel | `NobodyElseIsTouched`, `RunsCanBeRemoved` |
| | `EgressInv`, `Origins` | a connection carries the name, port and addresses that were judged, and whoever opened it was on the network | `BoundaryAlwaysHolds` |
| `FetchProofs` | `FetchInv`: `Shape`, `Chosen`, `Fresh`, `Budget`, `Inside`, `Extracted`, `Recorded` | after each member the disk is the tree of the members read so far, less what is left of the current one (`Extracted`), and every byte and entry on it was charged (`Budget`) | `TreeOfOneCommit`, `CeilingsHold`, `FailuresLeaveNothing`, `CancelIsObeyed` |

`CompletionAgrees` uses only that a completed job's trigger lets nothing else through
and that the two rows are written by one transaction. `GateHolds` needs `Jobs` to be
finite, for cardinalities; it cites the library's theorems about finite sets, and
so does `LateRemindersAreFew`. `CleanResultsAreEarned` needs that of several rows with
one identity one is the first; that natural numbers are well founded is cited from
the library. The theorems of `ReportProofs` are for any reports that list
finitely many findings.

The type invariants, `CompletedAgrees`, `ReloadFindsIt` and `LateRemindersAreBounded` are
proved and no longer run: their theorems say more than an instance could.

`JobsAndAttemptsEndTogether` and `LifecycleImplementsLedger` assume `Prompt`, which the
instance of `audit_prompt` satisfies: with several sweepers or stalls they are false (section
4). The refinement is proved as its definition says: the initial states are the ledger's, and
every step is a step of the ledger or a stutter; `Reap` and `Finalize` close an attempt and
decide its job, the statements of the workers between them stutter.

Two operators of `Fetch` are folds over data: the bytes on disk are a sum over the files, and
the place of a name is built component by component. `FetchProofs` shows that such a fold
over the subsets of a finite set exists, by constructing it for ever larger subsets, and
what it computes by a smallest counterexample. The library's lemmas on well-founded
relations are cited; its induction theorems, which take an operator, are not needed.
`TreeIsTheCommit` compares what the state machine leaves with `TreeOf`, which reads the
archive as a whole: the lemmas `FileAdded`, `FolderAdded`, `NothingAdded` and `PendingNext`
say how `TreeOf` of one member more differs.

Every safety property that a run checks and that holds is the subject of a theorem. Only
model-checked are the liveness properties, because fairness and ENABLED are out of the
prover's reach: `EveryJobEnds`, `AbandonedAttemptCloses` and `DueIsDecided`. No proved module
has a recursive operator.

## 6. What is left

- Token expiry and records that expire with it, the lockout per address and the
  administrator's forced enrolment.

### Not modelled

Progress events are a snapshot followed by a lossy broadcast; a client that lags reloads,
and nothing else reads the channel. Rate limiting, CSRF and the other middleware decide on
one request and one key. Tenants, IAM, PAM and SSO are single statements on role tables.
Payments are a client of an external provider. Storage, configuration, startup and logging
are I/O and parsing. The frontend keeps none of the protocol's state.
