----------------------------- MODULE ScanPipeline -----------------------------
(*****************************************************************************)
(* The phases of one attempt after the fetch: three scanners in turn, each a  *)
(* run of Sandbox, then normalize, score, report and deliver, over one state  *)
(* that ends in the outcome handed to finalization. A user may cancel at any  *)
(* time, the attempt's time budget may run out, and the database may fail.    *)
(*****************************************************************************)
EXTENDS Sandbox

VARIABLES
    proxied,     \* an egress proxy is configured for osv; fixed
    requested,   \* audit_jobs.cancel_requested
    phase,
    result,      \* each scanner's ScannerResult
    raw,         \* aggregated_findings
    findings,    \* state.findings
    complete,    \* state.coverage_complete
    score,       \* state.security_score
    document,    \* the canonical document and its report
    outcome,
    cut          \* history: usable runs whose stdout was not read to its end

stateVars == <<raw, findings, complete, score, document>>
vars == <<sandboxVars, proxied, requested, phase, result, stateVars, outcome, cut>>

Phases == {"scan", "normalize", "score", "report", "deliver", "over"}

TypeOK ==
    /\ SandboxTypeOK
    /\ proxied \in BOOLEAN
    /\ requested \in BOOLEAN
    /\ phase \in Phases
    /\ result \in [Tools -> Result]
    /\ raw \subseteq Finding
    /\ findings \subseteq Finding
    /\ complete \in BOOLEAN
    /\ score \in {NoScore} \cup 0 .. 90
    /\ DOMAIN document = DOMAIN NoDocument
    /\ outcome \in {"none", "ok", "partial", "failed", "cancelled"}
    /\ cut \subseteq Tools

Init ==
    /\ SandboxInit
    /\ proxied \in BOOLEAN
    /\ requested = FALSE
    /\ phase = "scan"
    /\ result = [t \in Tools |-> Without("none")]
    /\ raw = {}
    /\ findings = {}
    /\ complete = FALSE
    /\ score = NoScore
    /\ document = NoDocument
    /\ outcome = "none"
    /\ cut = {}

-------------------------------------------------------------------------------
(* Cancellation. The request is a column; the flag is what the poller of the  *)
(* scan phase has copied of it.                                               *)

RequestCancel ==
    /\ ~requested
    /\ phase # "over"
    /\ requested' = TRUE
    /\ UNCHANGED <<sandboxVars, proxied, phase, result, stateVars, outcome, cut>>

Poll ==
    /\ requested /\ ~flag /\ phase = "scan"
    /\ flag' = TRUE
    /\ UNCHANGED <<native, at, tool, process, client, pipe, seen, exit, stop, wrote,
                   faults, proxied, requested, phase, result, stateVars, outcome, cut>>

-------------------------------------------------------------------------------
(* scan: gitleaks, osv, semgrep.                                              *)

Done(t) == result[t].outcome # "none"

Turn(t) ==
    CASE t = "gitleaks" -> ~Done(t)
      [] t = "osv"      -> Done("gitleaks") /\ ~Done(t)
      [] t = "semgrep"  -> Done("osv") /\ ~Done(t)

Calls(t) == phase = "scan" /\ at = "idle" /\ Turn(t)

Record(t, r) == result' = [result EXCEPT ![t] = r]

\* Before any work: a cancelled scan does not start, osv not without a proxy.
Skip(t) ==
    /\ Calls(t)
    /\ \/ flag /\ Record(t, Without("cancelled"))
       \/ ~flag /\ t = "osv" /\ ~proxied /\ Record(t, Without("failed"))
    /\ UNCHANGED <<sandboxVars, proxied, requested, phase, stateVars, outcome, cut>>

Run(t) ==
    /\ Calls(t) /\ ~flag /\ (t = "osv" => proxied)
    /\ Start(t) \/ Refuse(t)
    /\ UNCHANGED <<proxied, requested, phase, result, stateVars, outcome, cut>>

\* `execute` returns: the run's locals go, and what the tool wrote is remembered
\* only where it was used.
Recorded(r) ==
    LET usable == r.outcome = "success"
        whole  == pipe["stdout"] = "whole"
    IN
    /\ phase = "scan" /\ at = "returned"
    /\ Record(tool, r)
    /\ at' = "idle" /\ tool' = NoTool
    /\ client' = "none" /\ exit' = "none" /\ stop' = "none"
    /\ pipe' = Unread /\ seen' = Unread
    /\ wrote' = IF usable /\ whole THEN wrote ELSE [wrote EXCEPT ![tool] = NoReport]
    /\ cut' = IF usable /\ ~whole THEN cut \cup {tool} ELSE cut
    /\ UNCHANGED <<native, process, flag, faults, proxied, requested, phase, stateVars,
                   outcome>>

\* Variant: Return without the second look at the flag.
ReturnUnchecked == Recorded(Judged)

\* A cancellation that came during the run wins over whatever it returned.
Return == Recorded(IF flag THEN Without("cancelled") ELSE Judged)

-------------------------------------------------------------------------------
(* Each phase starts with a look at the request; a look that fails counts as  *)
(* no request. A phase that fails after a request ends as cancelled.          *)

ReadsRequest == requested /\ UNCHANGED faults
ReadsNoRequest == IF requested THEN Fault ELSE UNCHANGED faults

Ends(how) == phase' = "over" /\ outcome' = how

EndsInError ==
    \/ ReadsRequest /\ Ends("cancelled")
    \/ ReadsNoRequest /\ Ends("failed")

NotState == <<native, at, tool, process, client, pipe, seen, exit, stop, wrote, flag,
              proxied, requested, result, cut>>

Aggregate ==
    /\ phase = "scan" /\ Done("semgrep")
    /\ raw' = Gathered(result)
    /\ findings' = Gathered(result)
    /\ complete' = (Coverage(result) = "complete")
    /\ IF Analyzed(result) = {} \/ \E t \in Tools : result[t].outcome = "cancelled"
       THEN EndsInError
       ELSE phase' = "normalize" /\ UNCHANGED <<outcome, faults>>
    /\ UNCHANGED <<NotState, score, document>>

StopAtRequest ==
    /\ phase \in {"normalize", "score", "report", "deliver"}
    /\ ReadsRequest
    /\ Ends("cancelled")
    /\ UNCHANGED <<NotState, stateVars>>

Enter(p) == phase = p /\ ReadsNoRequest

Normalize ==
    /\ Enter("normalize")
    /\ findings' = Kept(findings)
    /\ complete' = (complete /\ Refused(findings) = {})
    /\ phase' = "score"
    /\ UNCHANGED <<NotState, raw, score, document, outcome>>

\* Variant: ScorePhase, from whether any scanner analyzed the tree.
ScoreAnyAnalysis ==
    /\ Enter("score")
    /\ score' = Score(Analyzed(result) # {}, Cardinality(findings))
    /\ phase' = "report"
    /\ UNCHANGED <<NotState, raw, findings, complete, document, outcome>>

ScorePhase ==
    /\ Enter("score")
    /\ score' = Score(complete, Cardinality(findings))
    /\ phase' = "report"
    /\ UNCHANGED <<NotState, raw, findings, complete, document, outcome>>

\* The canonical document refuses a score its own coverage does not carry.
ReportPhase ==
    /\ Enter("report")
    /\ IF Coverage(result) # "complete" /\ score # NoScore
       THEN Ends("failed") /\ UNCHANGED document
       ELSE /\ document' = Document(result, raw, score)
            /\ phase' = "deliver"
            /\ UNCHANGED outcome
    /\ UNCHANGED <<NotState, raw, findings, complete, score>>

Deliver ==
    /\ Enter("deliver")
    /\ Ends(IF complete THEN "ok" ELSE "partial")
    /\ UNCHANGED <<NotState, stateVars>>

\* A phase's ledger row cannot be written.
PhaseFails ==
    /\ phase # "over" /\ at = "idle"
    /\ phase = "scan" => Turn("gitleaks") \/ Done("semgrep")
    /\ Fault
    /\ Ends("failed") \/ (requested /\ Ends("cancelled"))
    /\ UNCHANGED <<NotState, stateVars>>

\* The time budget runs out: the pipeline's future is dropped where it stands.
BudgetExpires ==
    /\ phase # "over" /\ Fault
    /\ Ends("failed")
    /\ at' = "idle" /\ tool' = NoTool
    /\ IF at \in {"loop", "terminate"} THEN Dropped ELSE UNCHANGED <<process, client>>
    /\ UNCHANGED <<native, pipe, seen, exit, stop, wrote, flag, proxied,
                   requested, result, stateVars, cut>>

-------------------------------------------------------------------------------

InSandbox ==
    SandboxStep /\ UNCHANGED <<proxied, requested, phase, result, stateVars, outcome, cut>>

Next ==
    \/ RequestCancel \/ Poll
    \/ \E t \in Tools : Skip(t) \/ Run(t)
    \/ InSandbox
    \/ Return \/ Aggregate \/ StopAtRequest
    \/ Normalize \/ ScorePhase \/ ReportPhase \/ Deliver
    \/ PhaseFails \/ BudgetExpires

Spec == Init /\ [][Next]_vars

-------------------------------------------------------------------------------
(* What finalization is given (it stores nothing of an attempt that failed or *)
(* was cancelled before its report).                                          *)

Final ==
    CASE outcome \in {"ok", "partial"} ->
            [status   |-> IF outcome = "ok" THEN "completed" ELSE "partial",
             findings |-> findings,
             runs     |-> [t \in Tools |-> RunStatus(result[t])],
             complete |-> outcome = "ok" /\ complete,
             score    |-> IF outcome = "ok" THEN score ELSE NoScore,
             document |-> document]
      [] OTHER ->
            [status   |-> outcome,
             findings |-> {},
             runs     |-> [t \in {} |-> "none"],
             complete |-> FALSE,
             score    |-> NoScore,
             document |-> NoDocument]

-------------------------------------------------------------------------------
(* Properties.                                                                *)

\* Once the flag is up, whatever a scanner returns is recorded as cancelled,
\* and an attempt with a cancelled scanner publishes nothing (execute's two
\* looks at the flag, the scan phase's error).
CancelWins ==
    [][/\ \A t \in Tools :
            flag /\ result'[t] # result[t] => result'[t].outcome = "cancelled"
       /\ outcome' # outcome /\ outcome' \in {"ok", "partial"} =>
            \A t \in Tools : result[t].outcome # "cancelled"]_vars

Named(t) == {f.identity : f \in wrote[t].lists}
Published(t) == {f.identity : f \in {g \in Final.findings : g.tool = t}}
\* A completed audit was earned: every tool left a report of its own (gitleaks
\* perhaps an empty one), and what it names is published, all of it and nothing
\* else, unless its stdout was not read to the end. A partial one publishes what
\* its successful tools named but for the refusals (the classifiers,
\* aggregate_scan_results, normalize_findings_for_persist).
CleanIsEarned ==
    \A t \in Tools \ cut :
        /\ Final.status = "completed" =>
            /\ wrote[t].form = "report" \/ (t = "gitleaks" /\ wrote[t].form = "empty")
            /\ Published(t) = Named(t)
        /\ Final.status = "partial" => Published(t) = Named(t) \ {Invalid}

\* The parts of what is published tell one story: status, coverage, score,
\* persisted rows, document, report state and scanner rows are computed in
\* different places from different inputs, and agree (the step! phases,
\* canonical_audit, derive_coverage_state, scanner_run_records).
DocumentsAgree ==
    Final.status \in {"completed", "partial"} =>
        LET d == Final.document IN
        /\ (Final.score # NoScore) <=> Final.status = "completed"
        /\ d.score = Final.score
        /\ d.findings = Final.findings
        /\ Final.status = "completed" <=> d.coverage = "complete" /\ d.invalid = 0
        /\ d.coverage = "complete" <=> d.state \in {"SUCCESS_CLEAN", "SUCCESS_FINDINGS"}
        /\ d.coverage # "complete" => d.limited
        /\ \A t \in Tools :
            /\ Final.runs[t] = "failed" <=> result[t].outcome # "success"
            /\ Final.runs[t] = "success_clean" => \A f \in d.findings : f.tool # t

Survivors == {t \in Tools : process[t] = "running" /\ tool # t}

\* No scanner outlives its run, but for one per fault: a lost or dropped client,
\* a failed wait, a failed removal (terminate, --rm, kill_on_drop).
NothingSurvives == Cardinality(Survivors) <= faults

\* A run that hit an output cap is never a success (SandboxManager::run:
\* "Never returns success for a run that hit an output cap"). Decide breaks it: a
\* capped reader that settles last is taken for one that reached the end.
CappedNeverSucceeds ==
    at = "returned" /\ (\E s \in Streams : pipe[s] = "exceeded") =>
        Judged.outcome # "success"
===============================================================================
