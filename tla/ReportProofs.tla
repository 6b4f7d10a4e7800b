----------------------------- MODULE ReportProofs -----------------------------
(*****************************************************************************)
(* Theorems about a report: how ScanPipeline makes it, for any identities,    *)
(* any finite reports of the tools and any number of faults; and the one      *)
(* narrative that Narrative tells of it, for any executions, requests and     *)
(* texts. The narrative is at the end, and needs nothing of what precedes it. *)
(*****************************************************************************)
EXTENDS ScanPipeline, Narrative, FiniteSetTheorems, WellFoundedInduction, TLAPS

Late == {"normalize", "score", "report", "deliver"}

-------------------------------------------------------------------------------
(* The operators of Reports.                                                  *)

\* A result names findings of its own tool only, finitely many, and none unless
\* it is a success.
Fine(t, r) ==
    /\ r \in Result
    /\ IsFiniteSet(r.findings)
    /\ \A f \in r.findings : f.tool = t
    /\ r.outcome # "success" => r.findings = {}

\* The fields of a report have their types, and what it lists is finite
\* (Reports: Report).
LEMMA ReportFields ==
    ASSUME NEW r \in Report
    PROVE  /\ r.form \in Form
           /\ r.lists \subseteq [identity : Identities \cup {Invalid}, row : Nat]
           /\ IsFiniteSet(r.lists)
           /\ r.rejected \in BOOLEAN
BY ReportsAssumption, FS_EmptySet DEF Report

\* What a tool may leave is a report (Reports: Writable).
LEMMA WritableIsReport ==
    ASSUME NEW t \in Tools, NEW n \in BOOLEAN, NEW r \in Writable(t, n)
    PROVE  r \in Report
<1>1. CASE r \in [form : {"report"}, lists : Lists,
                  rejected : IF t = "semgrep" THEN BOOLEAN ELSE {FALSE}]
    BY <1>1 DEF Report, Form
<1>2. CASE \E form \in Form : r = Blank(form)
    BY <1>2 DEF Report, Blank
<1>. QED  BY <1>1, <1>2 DEF Writable, Form

\* Nothing listed is a report too (Reports: Blank).
LEMMA BlankIsReport ==
    ASSUME NEW form \in Form
    PROVE  Blank(form) \in Report
BY DEF Blank, Report

\* A result without findings is fine (Reports: Without).
LEMMA WithoutIsFine ==
    ASSUME NEW t \in Tools, NEW o \in Outcome \ {"success"}
    PROVE  Fine(t, Without(o)) /\ Without(o).outcome = o
BY FS_EmptySet DEF Fine, Without, Result, Outcome

\* A success made of a report is fine (Reports: Success).
LEMMA SuccessIsFine ==
    ASSUME NEW t \in Tools, NEW r \in Report
    PROVE  Fine(t, Success(t, r))
<1> DEFINE named(f) == [tool |-> t, identity |-> f.identity, row |-> f.row]
           img == {named(f) : f \in r.lists}
           g == [f \in r.lists |-> named(f)]
<1>1. g \in Surjection(r.lists, img)
    BY DEF Surjection
<1>2. IsFiniteSet(img)
  <2>. HIDE DEF g, img
  <2>. QED  BY <1>1, ReportFields, FS_Surjection
<1>3. img \subseteq Finding /\ \A f \in img : f.tool = t
    BY ReportFields DEF Finding
<1>4. Success(t, r) = [outcome |-> "success", findings |-> img, rejected |-> r.rejected]
    BY DEF Success
<1>. HIDE DEF img
<1>. QED  BY <1>2, <1>3, <1>4, ReportFields DEF Fine, Result, Outcome

\* The classifier's result is fine and is an outcome (Reports: Classify).
LEMMA ClassifyIsFine ==
    ASSUME NEW t \in Tools, NEW r \in Report, NEW exit0
    PROVE  Fine(t, Classify(t, r, exit0)) /\ Classify(t, r, exit0).outcome # "none"
<1>1. "failed" \in Outcome \ {"success"} /\ "no_files_analyzed" \in Outcome \ {"success"}
    BY DEF Outcome
<1>2. Success(t, r).outcome = "success"
    BY DEF Success
<1>3. Without("failed").outcome # "none" /\ Without("no_files_analyzed").outcome # "none"
    BY DEF Without
<1>4. CASE r.form = "report" \/ (r.form \in NoBytes /\ t = "gitleaks" /\ exit0 = "ok")
    BY <1>2, <1>4, SuccessIsFine DEF Classify
<1>5. CASE ~(r.form = "report" \/ (r.form \in NoBytes /\ t = "gitleaks" /\ exit0 = "ok"))
    BY <1>1, <1>3, <1>5, WithoutIsFine DEF Classify
<1>. QED  BY <1>4, <1>5

\* A run that returned has a fine result (Sandbox: Judged).
LEMMA JudgedIsFine ==
    ASSUME SandboxTypeOK, at = "returned"
    PROVE  Fine(tool, Judged) /\ Judged.outcome # "none"
<1>1. tool \in Tools /\ wrote[tool] \in Report
    BY DEF SandboxTypeOK
<1>2. NoReport \in Report
    BY BlankIsReport DEF NoReport, Form
<1>3. Stdout \in Report
    BY <1>1, <1>2 DEF Stdout
<1>4. /\ "failed" \in Outcome \ {"success"}
      /\ "timeout" \in Outcome \ {"success"}
      /\ "cancelled" \in Outcome \ {"success"}
    BY DEF Outcome
<1>5. /\ Without("failed").outcome # "none"
      /\ Without("timeout").outcome # "none"
      /\ Without("cancelled").outcome # "none"
    BY DEF Without
<1>6. CASE stop = "finished"
    BY <1>1, <1>3, <1>6, ClassifyIsFine DEF Judged
<1>7. CASE stop # "finished"
    BY <1>1, <1>4, <1>5, <1>7, WithoutIsFine DEF Judged
<1>. QED  BY <1>6, <1>7

\* What is gathered from fine results are findings, finitely many
\* (aggregate_scan_results).
LEMMA GatheredIsFinite ==
    ASSUME NEW res \in [Tools -> Result], \A t \in Tools : Fine(t, res[t])
    PROVE  Gathered(res) \subseteq Finding /\ IsFiniteSet(Gathered(res))
<1> DEFINE all == res["gitleaks"].findings \cup res["osv"].findings
                      \cup res["semgrep"].findings
<1>1. IsFiniteSet(all)
    BY FS_Union, Zenon DEF Tools, Fine
<1>2. Gathered(res) \subseteq all
    BY DEF Gathered, Analyzed, Tools
<1>3. all \subseteq Finding
    BY DEF Fine, Result, Tools
<1>. HIDE DEF all
<1>. QED  BY <1>1, <1>2, <1>3, FS_Subset

\* Normalization only drops findings (normalize_findings_for_persist).
LEMMA KeptIsFinite ==
    ASSUME NEW S \in SUBSET Finding, IsFiniteSet(S)
    PROVE  /\ Kept(S) \subseteq S /\ IsFiniteSet(Kept(S))
           /\ Refused(S) \subseteq S /\ IsFiniteSet(Refused(S))
<1>1. Kept(S) \subseteq S /\ Refused(S) \subseteq S
    BY DEF Kept, Refused
<1>. QED  BY <1>1, FS_Subset

\* The score of a complete audit is from zero to nine points, and there is none
\* of any other (score).
LEMMA ScoreInRange ==
    ASSUME NEW c \in BOOLEAN, NEW n \in Nat
    PROVE  /\ c => Score(c, n) \in 0 .. 90
           /\ ~c => Score(c, n) = NoScore
<1>1. ~c => Score(c, n) = NoScore
    BY DEF Score
<1>2. CASE c
  <2>1. 100 - 15 * n \in Int /\ 100 - 15 * n <= 100
      OBVIOUS
  <2>. QED  BY <1>2, <2>1 DEF Score
<1>. QED  BY <1>1, <1>2

-------------------------------------------------------------------------------
(* Types. Finiteness is what the cardinalities of the score and of the        *)
(* document rest on.                                                          *)

ResultsFine == \A t \in Tools : Fine(t, result[t])

SetsFinite == IsFiniteSet(raw) /\ IsFiniteSet(findings)

TypesInv == TypeOK /\ ResultsFine /\ SetsFinite

\* A fault leaves the count of faults within its bound (Sandbox: Fault).
LEMMA FaultType ==
    ASSUME SandboxTypeOK, Fault
    PROVE  faults' \in 0 .. MaxFaults
BY SandboxAssumption DEF SandboxTypeOK, Fault

\* The end of the child in any way leaves a child and a process (kill_on_drop).
LEMMA DroppedType ==
    ASSUME SandboxTypeOK, Dropped
    PROVE  /\ process' \in [Tools -> {"none", "running", "gone"}]
           /\ client' \in {"none", "running", "ok", "bad"}
BY DEF SandboxTypeOK, Dropped

\* The loop and what runs beside it keep the sandbox's types (run).
LEMMA SandboxStepType ==
    ASSUME SandboxTypeOK, SandboxStep
    PROVE  SandboxTypeOK'
<1>1. ASSUME NEW t \in Tools, ToolEnds(t) PROVE SandboxTypeOK'
  <2>1. native \in BOOLEAN
      BY DEF SandboxTypeOK
  <2>. QED  BY <1>1, <2>1, WritableIsReport DEF ToolEnds, SandboxTypeOK
<1>2. CASE ClientLost
  <2>1. tool \in Tools
      BY <1>2 DEF SandboxTypeOK, ClientLost, Attached
  <2>2. Blank("missing") \in Report /\ Blank("garbled") \in Report
      BY BlankIsReport DEF Form
  <2>. QED  BY <1>2, <2>1, <2>2, FaultType DEF ClientLost, SandboxTypeOK
<1>3. ASSUME NEW s \in Streams, ReadAll(s) PROVE SandboxTypeOK'
    BY <1>3 DEF ReadAll, Reads, SandboxTypeOK, Reading
<1>4. ASSUME NEW s \in Streams, PassesCap(s) PROVE SandboxTypeOK'
    BY <1>4 DEF PassesCap, Reads, SandboxTypeOK, Reading
<1>5. ASSUME NEW s \in Streams, ReadFails(s) PROVE SandboxTypeOK'
    BY <1>5, FaultType DEF ReadFails, Reads, SandboxTypeOK, Reading
<1>6. ASSUME NEW s \in Streams, SeeStream(s) PROVE SandboxTypeOK'
  <2>1. seen' \in [Streams -> Reading]
      BY <1>6 DEF SeeStream, SandboxTypeOK
  <2>. QED  BY <1>6, <2>1 DEF SeeStream, Decide, Wrong, SandboxTypeOK
<1>7. CASE SeeExit
    BY <1>7 DEF SeeExit, Decide, Wrong, SandboxTypeOK
<1>8. CASE Deadline \/ SeeCancel
    BY <1>8 DEF Deadline, SeeCancel, Leave, SandboxTypeOK
<1>9. CASE WaitFails
    BY <1>9, FaultType, DroppedType DEF WaitFails, SandboxTypeOK
<1>10. CASE Terminate
    BY <1>10, FaultType DEF Terminate, SandboxTypeOK
<1>. QED  BY <1>1, <1>2, <1>3, <1>4, <1>5, <1>6, <1>7, <1>8, <1>9, <1>10 DEF SandboxStep

\* The return of a run keeps the types (execute).
LEMMA RecordedType ==
    ASSUME TypesInv, NEW r, Recorded(r), Fine(tool, r)
    PROVE  TypesInv'
<1>1. tool \in Tools
    BY DEF TypesInv, TypeOK, SandboxTypeOK, Recorded
<1>2. NoReport \in Report
    BY BlankIsReport DEF NoReport, Form
<1>3. Unread' \in [Streams -> Reading] /\ Unread \in [Streams -> Reading]
    BY DEF Unread, Reading
<1>4. SandboxTypeOK'
    BY <1>1, <1>2, <1>3 DEF TypesInv, TypeOK, SandboxTypeOK, Recorded
<1>5. result' \in [Tools -> Result] /\ ResultsFine'
    BY <1>1 DEF TypesInv, TypeOK, ResultsFine, Recorded, Record, Fine
<1>6. cut' \subseteq Tools
    BY <1>1 DEF TypesInv, TypeOK, Recorded
<1>. QED  BY <1>4, <1>5, <1>6 DEF TypesInv, TypeOK, SetsFinite, Recorded, stateVars

\* What is returned is fine, cancelled or not (execute).
LEMMA ReturnIsFine ==
    ASSUME TypesInv, Return
    PROVE  \E r : Recorded(r) /\ Fine(tool, r) /\ r.outcome # "none"
                  /\ (flag => r.outcome = "cancelled") /\ (~flag => r = Judged)
<1>1. SandboxTypeOK /\ at = "returned" /\ tool \in Tools
    BY DEF TypesInv, TypeOK, SandboxTypeOK, Return, Recorded
<1>2. "cancelled" \in Outcome \ {"success"}
    BY DEF Outcome
<1>3. CASE flag
    BY <1>1, <1>2, <1>3, WithoutIsFine DEF Return
<1>4. CASE ~flag
    BY <1>1, <1>4, JudgedIsFine DEF Return
<1>. QED  BY <1>3, <1>4

LEMMA TypesInit == Init => TypesInv
<1> SUFFICES ASSUME Init PROVE TypesInv
    OBVIOUS
<1>1. "none" \in Outcome \ {"success"}
    BY DEF Outcome
<1>2. \A t \in Tools : Fine(t, Without("none"))
    BY <1>1, WithoutIsFine
<1>3. ResultsFine /\ result \in [Tools -> Result]
    BY <1>2 DEF Init, ResultsFine, Fine
<1>4. NoReport \in Report
    BY BlankIsReport DEF NoReport, Form
<1>5. Unread \in [Streams -> Reading]
    BY DEF Unread, Reading
<1>6. SandboxTypeOK
  <2>1. native \in BOOLEAN /\ flag \in BOOLEAN
      BY DEF Init, SandboxInit
  <2>2. tool \in Tools \cup {NoTool} /\ at = "idle" /\ faults \in 0 .. MaxFaults
      BY SandboxAssumption DEF Init, SandboxInit
  <2>3. /\ process \in [Tools -> {"none", "running", "gone"}]
        /\ wrote \in [Tools -> Report]
      BY <1>4 DEF Init, SandboxInit
  <2>. QED
      BY <1>5, <2>1, <2>2, <2>3 DEF Init, SandboxInit, SandboxTypeOK
<1>. QED
    BY <1>3, <1>6, FS_EmptySet DEF Init, TypesInv, TypeOK, SetsFinite, Phases

LEMMA TypesStep == TypesInv /\ [Next]_vars => TypesInv'
<1> SUFFICES ASSUME TypesInv, [Next]_vars PROVE TypesInv'
    OBVIOUS
<1>. USE DEF TypesInv
<1>1. CASE RequestCancel \/ Poll \/ UNCHANGED vars
  <2>1. SandboxTypeOK'
    <3>1. native' \in BOOLEAN /\ flag' \in BOOLEAN
        BY <1>1 DEF RequestCancel, Poll, vars, sandboxVars, TypeOK, SandboxTypeOK
    <3>. QED
        BY <1>1, <3>1 DEF RequestCancel, Poll, vars, sandboxVars, TypeOK, SandboxTypeOK
  <2>2. ResultsFine' /\ SetsFinite'
      BY <1>1 DEF RequestCancel, Poll, vars, stateVars, ResultsFine, SetsFinite
  <2>. QED
      BY <1>1, <2>1, <2>2 DEF RequestCancel, Poll, vars, stateVars, TypeOK
<1>2. ASSUME NEW t \in Tools, Skip(t) PROVE TypesInv'
  <2>1. "failed" \in Outcome \ {"success"} /\ "cancelled" \in Outcome \ {"success"}
      BY DEF Outcome
  <2>2. PICK r : Fine(t, r) /\ Record(t, r)
      BY <1>2, <2>1, WithoutIsFine DEF Skip
  <2>3. result' \in [Tools -> Result] /\ ResultsFine'
      BY <2>2 DEF Record, TypeOK, ResultsFine, Fine
  <2>. QED
      BY <1>2, <2>3 DEF Skip, sandboxVars, stateVars, TypeOK, SandboxTypeOK, SetsFinite
<1>3. ASSUME NEW t \in Tools, Run(t) PROVE TypesInv'
  <2>1. Unread \in [Streams -> Reading]
      BY DEF Unread, Reading
  <2>2. SandboxTypeOK'
      BY <1>3, <2>1, FaultType DEF Run, Start, Refuse, TypeOK, SandboxTypeOK
  <2>. QED  BY <1>3, <2>2 DEF Run, stateVars, TypeOK, ResultsFine, SetsFinite
<1>4. CASE InSandbox
  <2>1. SandboxTypeOK'
      BY <1>4, SandboxStepType DEF InSandbox, TypeOK
  <2>. QED  BY <1>4, <2>1 DEF InSandbox, stateVars, TypeOK, ResultsFine, SetsFinite
<1>5. CASE Return
    BY <1>5, ReturnIsFine, RecordedType
<1>6. faults' \in 0 .. MaxFaults /\ UNCHANGED NotState => SandboxTypeOK' /\ ResultsFine'
    BY DEF NotState, TypeOK, SandboxTypeOK, ResultsFine
<1>7. /\ ReadsRequest => faults' \in 0 .. MaxFaults
      /\ ReadsNoRequest => faults' \in 0 .. MaxFaults
      /\ EndsInError => faults' \in 0 .. MaxFaults
      /\ \A p \in Phases : Enter(p) => faults' \in 0 .. MaxFaults
    BY FaultType DEF ReadsRequest, ReadsNoRequest, EndsInError, Enter, TypeOK, SandboxTypeOK
<1>8. CASE Aggregate
  <2>1. faults' \in 0 .. MaxFaults
      BY <1>7, <1>8 DEF Aggregate, TypeOK, SandboxTypeOK
  <2>2. Gathered(result) \subseteq Finding /\ IsFiniteSet(Gathered(result))
      BY GatheredIsFinite DEF TypeOK, ResultsFine
  <2>3. phase' \in Phases /\ outcome' \in {"none", "ok", "partial", "failed", "cancelled"}
      BY <1>8 DEF Aggregate, EndsInError, Ends, Phases, TypeOK
  <2>. QED
      BY <1>6, <1>8, <2>1, <2>2, <2>3 DEF Aggregate, NotState, TypeOK, SetsFinite
<1>9. CASE StopAtRequest
    BY <1>6, <1>7, <1>9 DEF StopAtRequest, Ends, NotState, stateVars, TypeOK, SetsFinite, Phases
<1>10. CASE Normalize
  <2>1. Kept(findings) \subseteq Finding /\ IsFiniteSet(Kept(findings))
      BY KeptIsFinite DEF TypeOK, SetsFinite
  <2>. QED
      BY <1>6, <1>7, <1>10, <2>1 DEF Normalize, NotState, TypeOK, SetsFinite, Phases
<1>11. CASE ScorePhase
  <2>1. Cardinality(findings) \in Nat
      BY FS_CardinalityType DEF SetsFinite
  <2>2. score' \in {NoScore} \cup 0 .. 90
      BY <1>11, <2>1, ScoreInRange DEF ScorePhase, TypeOK
  <2>. QED
      BY <1>6, <1>7, <1>11, <2>2 DEF ScorePhase, NotState, TypeOK, SetsFinite, Phases
<1>12. CASE ReportPhase
  <2>1. DOMAIN document' = DOMAIN NoDocument
      BY <1>12 DEF ReportPhase, Document, NoDocument, TypeOK
  <2>. QED
      BY <1>6, <1>7, <1>12, <2>1
      DEF ReportPhase, Ends, NotState, TypeOK, SetsFinite, Phases
<1>13. CASE Deliver
    BY <1>6, <1>7, <1>13 DEF Deliver, Ends, NotState, stateVars, TypeOK, SetsFinite, Phases
<1>14. CASE PhaseFails
  <2>1. faults' \in 0 .. MaxFaults
      BY <1>14, FaultType DEF PhaseFails, TypeOK
  <2>. QED
      BY <1>6, <1>14, <2>1
      DEF PhaseFails, Ends, NotState, stateVars, TypeOK, SetsFinite, Phases
<1>15. CASE BudgetExpires
  <2>1. SandboxTypeOK'
      BY <1>15, FaultType, DroppedType DEF BudgetExpires, TypeOK, SandboxTypeOK
  <2>. QED
      BY <1>15, <2>1
      DEF BudgetExpires, Ends, stateVars, TypeOK, ResultsFine, SetsFinite, Phases
<1>. QED
    BY <1>1, <1>2, <1>3, <1>4, <1>5, <1>8, <1>9, <1>10, <1>11, <1>12, <1>13, <1>14, <1>15
    DEF Next

LEMMA TypesAlways == Spec => []TypesInv
BY TypesInit, TypesStep, PTL DEF Spec

\* Every variable of an attempt keeps its type; in particular every score is
\* absent or between zero and nine points (state, ScannerResult).
THEOREM PipelineTypeCorrect == Spec => []TypeOK
<1>1. TypesInv => TypeOK
    BY DEF TypesInv
<1>. QED  BY <1>1, TypesAlways, PTL

-------------------------------------------------------------------------------
(* The story. Each phase leaves what the earlier ones computed, so that at    *)
(* its end every part of what is published is known from the results.         *)

Publishes == outcome \in {"ok", "partial"}

Past(phases) == phase \in phases \/ Publishes

NoneCancelled == \A t \in Tools : result[t].outcome # "cancelled"

Aggregated == Past(Late) => raw = Gathered(result) /\ NoneCancelled

Unnormalized ==
    phase = "normalize" =>
        findings = raw /\ (complete <=> Coverage(result) = "complete")

Normalized ==
    Past({"score", "report", "deliver"}) =>
        /\ findings = Kept(raw)
        /\ complete <=> Coverage(result) = "complete" /\ Refused(raw) = {}

Scored ==
    Past({"report", "deliver"}) => score = Score(complete, Cardinality(findings))

Documented == Past({"deliver"}) => document = Document(result, raw, score)

Concluded ==
    /\ Publishes => phase = "over"
    /\ outcome = "ok" => complete
    /\ outcome = "partial" => ~complete

Story == Aggregated /\ Unnormalized /\ Normalized /\ Scored /\ Documented /\ Concluded

StoryVars == <<phase, result, stateVars, outcome>>

LEMMA StoryInit == Init => Story
BY DEF Init, Story, Aggregated, Unnormalized, Normalized, Scored, Documented, Concluded,
       Past, Publishes, Late

\* What is left alone stays true.
LEMMA StoryUnchanged ==
    ASSUME Story, UNCHANGED StoryVars
    PROVE  Story'
BY DEF Story, StoryVars, stateVars, Aggregated, Unnormalized, Normalized, Scored,
       Documented, Concluded, Past, Publishes, NoneCancelled

\* A scan still going on has no story to keep.
LEMMA StoryInScan ==
    ASSUME Story, phase = "scan", UNCHANGED <<phase, outcome>>
    PROVE  Story'
BY DEF Story, Aggregated, Unnormalized, Normalized, Scored, Documented, Concluded, Past,
       Publishes, Late

\* An attempt that fails or is cancelled publishes nothing.
LEMMA StoryEnds ==
    ASSUME NEW how \in {"failed", "cancelled"}, Ends(how)
    PROVE  Story'
BY DEF Ends, Story, Aggregated, Unnormalized, Normalized, Scored, Documented, Concluded,
       Past, Publishes, Late

LEMMA StoryStep == Story /\ [Next]_vars => Story'
<1> SUFFICES ASSUME Story, [Next]_vars PROVE Story'
    OBVIOUS
<1>1. CASE RequestCancel \/ Poll \/ InSandbox \/ UNCHANGED vars
    BY <1>1, StoryUnchanged DEF RequestCancel, Poll, InSandbox, vars, StoryVars
<1>2. CASE \E t \in Tools : Skip(t) \/ Run(t)
    BY <1>2, StoryInScan DEF Skip, Run, Calls
<1>3. CASE Return
    BY <1>3, StoryInScan DEF Return, Recorded
<1>4. CASE Aggregate
  <2>1. CASE EndsInError
      BY <2>1, StoryEnds DEF EndsInError
  <2>2. CASE /\ ~(Analyzed(result) = {} \/ \E t \in Tools : result[t].outcome = "cancelled")
             /\ phase' = "normalize" /\ UNCHANGED outcome
    <3>1. ~Publishes /\ UNCHANGED result
        BY <1>4 DEF Story, Concluded, Aggregate, NotState
    <3>2. Aggregated' /\ Unnormalized'
        BY <1>4, <2>2, <3>1
        DEF Aggregate, Aggregated, Unnormalized, NoneCancelled, Publishes
    <3>. QED
        BY <2>2, <3>1, <3>2
        DEF Story, Normalized, Scored, Documented, Concluded, Past, Publishes
  <2>. QED  BY <1>4, <2>1, <2>2 DEF Aggregate
<1>5. CASE StopAtRequest
    BY <1>5, StoryEnds DEF StopAtRequest
<1>6. CASE Normalize
  <2>1. /\ phase = "normalize" /\ phase' = "score"
        /\ UNCHANGED <<result, raw, outcome>> /\ ~Publishes
      BY <1>6 DEF Normalize, Enter, NotState, Story, Concluded
  <2>2. Aggregated'
      BY <2>1 DEF Story, Aggregated, Past, Late, NoneCancelled, Publishes
  <2>3. Normalized'
      BY <1>6, <2>1 DEF Normalize, Story, Unnormalized, Normalized
  <2>. QED
      BY <2>1, <2>2, <2>3
      DEF Story, Unnormalized, Scored, Documented, Concluded, Past, Publishes
<1>7. CASE ScorePhase
  <2>1. /\ phase = "score" /\ phase' = "report"
        /\ UNCHANGED <<result, raw, findings, complete, outcome>> /\ ~Publishes
        /\ score' = Score(complete, Cardinality(findings))
      BY <1>7 DEF ScorePhase, Enter, NotState, Story, Concluded
  <2>2. Aggregated' /\ Normalized'
      BY <2>1 DEF Story, Aggregated, Normalized, Past, Late, NoneCancelled, Publishes
  <2>. QED
      BY <2>1, <2>2
      DEF Story, Unnormalized, Scored, Documented, Concluded, Past, Publishes
<1>8. CASE ReportPhase
  <2>1. CASE Ends("failed")
      BY <2>1, StoryEnds
  <2>2. CASE /\ document' = Document(result, raw, score)
             /\ phase' = "deliver" /\ UNCHANGED outcome
    <3>1. /\ phase = "report" /\ ~Publishes
          /\ UNCHANGED <<result, raw, findings, complete, score>>
        BY <1>8 DEF ReportPhase, Enter, NotState, Story, Concluded
    <3>2. Aggregated' /\ Normalized' /\ Scored'
        BY <2>2, <3>1
        DEF Story, Aggregated, Normalized, Scored, Past, Late, NoneCancelled, Publishes
    <3>. QED
        BY <2>2, <3>1, <3>2
        DEF Story, Unnormalized, Documented, Concluded, Publishes
  <2>. QED  BY <1>8, <2>1, <2>2 DEF ReportPhase
<1>9. CASE Deliver
  <2>1. /\ phase = "deliver" /\ phase' = "over" /\ UNCHANGED <<result, stateVars>>
        /\ outcome' = IF complete THEN "ok" ELSE "partial"
      BY <1>9 DEF Deliver, Enter, Ends, NotState
  <2>2. Concluded'
      BY <2>1 DEF Concluded, Publishes, stateVars
  <2>3. Aggregated' /\ Normalized' /\ Scored' /\ Documented'
      BY <2>1
      DEF Story, Aggregated, Normalized, Scored, Documented, Past, Late, NoneCancelled,
          stateVars
  <2>. QED  BY <2>1, <2>2, <2>3 DEF Story, Unnormalized
<1>10. CASE PhaseFails \/ BudgetExpires
    BY <1>10, StoryEnds DEF PhaseFails, BudgetExpires
<1>. QED
    BY <1>1, <1>2, <1>3, <1>4, <1>5, <1>6, <1>7, <1>8, <1>9, <1>10 DEF Next

LEMMA StoryAlways == Spec => []Story
BY StoryInit, StoryStep, PTL DEF Spec

\* A cancellation wins over whatever a scanner returns, and an attempt with a
\* cancelled scanner publishes nothing (execute, the scan phase's error).
THEOREM CancellationsWin == Spec => CancelWins
<1> DEFINE Wins ==
        /\ \A t \in Tools :
             flag /\ result'[t] # result[t] => result'[t].outcome = "cancelled"
        /\ outcome' # outcome /\ outcome' \in {"ok", "partial"} =>
             \A t \in Tools : result[t].outcome # "cancelled"
<1>1. TypesInv /\ Story /\ [Next]_vars => [Wins]_vars
  <2> SUFFICES ASSUME TypesInv, Story, Next PROVE Wins
      OBVIOUS
  <2>1. ASSUME NEW t \in Tools, flag, result'[t] # result[t]
        PROVE  result'[t].outcome = "cancelled"
    <3>1. CASE Return
      <4>1. PICK r : Recorded(r) /\ r.outcome = "cancelled"
          BY <2>1, <3>1, ReturnIsFine
      <4>. QED  BY <2>1, <4>1 DEF Recorded, Record, TypesInv, TypeOK
    <3>2. ASSUME NEW u \in Tools, Skip(u) PROVE result'[t].outcome = "cancelled"
      <4>1. Record(u, Without("cancelled"))
          BY <2>1, <3>2 DEF Skip
      <4>. QED  BY <2>1, <4>1 DEF Record, Without, TypesInv, TypeOK
    <3>3. CASE UNCHANGED result
        BY <2>1, <3>3
    <3>. QED
        BY <3>1, <3>2, <3>3
        DEF Next, RequestCancel, Poll, Run, InSandbox, Aggregate, StopAtRequest, Normalize,
            ScorePhase, ReportPhase, Deliver, PhaseFails, BudgetExpires, NotState
  <2>2. ASSUME outcome' # outcome, outcome' \in {"ok", "partial"}
        PROVE  NoneCancelled
    <3>1. phase = "deliver"
        BY <2>2
        DEF Next, RequestCancel, Poll, Skip, Run, InSandbox, Return, Recorded, Aggregate,
            EndsInError, StopAtRequest, Normalize, ScorePhase, ReportPhase, Deliver, Enter,
            PhaseFails, BudgetExpires, Ends
    <3>. QED  BY <3>1 DEF Story, Aggregated, Past, Late
  <2>. QED  BY <2>1, <2>2 DEF NoneCancelled
<1>. QED  BY <1>1, TypesAlways, StoryAlways, PTL DEF Spec, CancelWins

\* The parts of what is published tell one story: status, coverage, score, rows,
\* document, announced state and scanner rows agree (canonical_audit,
\* derive_coverage_state, scanner_run_records).
THEOREM PublishedPartsAgree == Spec => []DocumentsAgree
<1>1. TypesInv /\ Story => DocumentsAgree
  <2> SUFFICES ASSUME TypesInv, Story, Final.status \in {"completed", "partial"}
               PROVE  DocumentsAgree
      BY DEF DocumentsAgree
  <2> DEFINE whole == Coverage(result) = "complete"
             d == Document(result, raw, score)
  <2>1. Publishes /\ (Final.status = "completed" <=> outcome = "ok")
      BY DEF Final, Publishes, TypesInv, TypeOK
  <2>2. /\ Final.document = document /\ Final.findings = findings
        /\ Final.runs = [t \in Tools |-> RunStatus(result[t])]
        /\ Final.score = IF outcome = "ok" THEN score ELSE NoScore
      BY <2>1 DEF Final, Publishes
  <2>3. /\ document = d /\ findings = Kept(raw) /\ raw = Gathered(result)
        /\ complete <=> whole /\ Refused(raw) = {}
        /\ score = Score(complete, Cardinality(findings))
        /\ outcome = "ok" <=> complete
        /\ NoneCancelled
      BY <2>1
      DEF Story, Aggregated, Normalized, Scored, Documented, Concluded, Past, Publishes
  <2>4. complete \in BOOLEAN /\ Cardinality(findings) \in Nat
      BY FS_CardinalityType DEF TypesInv, TypeOK, SetsFinite
  <2>5. (complete => score \in 0 .. 90) /\ (~complete => score = NoScore)
      BY <2>3, <2>4, ScoreInRange
  <2>6. Final.score # NoScore <=> Final.status = "completed"
      BY <2>1, <2>2, <2>3, <2>5 DEF NoScore
  <2>7. d.score = Final.score
      BY <2>2, <2>3, <2>5 DEF Document
  <2>8. Final.status = "completed" <=> d.coverage = "complete" /\ d.invalid = 0
    <3>1. IsFiniteSet(Refused(raw))
        BY KeptIsFinite DEF TypesInv, TypeOK, SetsFinite
    <3>2. Cardinality(Refused(raw)) = 0 <=> Refused(raw) = {}
        BY <3>1, FS_EmptySet
    <3>. QED  BY <2>1, <2>3, <3>2 DEF Document
  <2>9. whole <=> \A t \in Tools : result[t].outcome = "success"
      BY DEF Coverage, Analyzed, Tools
  <2>10. whole <=> d.state \in {"SUCCESS_CLEAN", "SUCCESS_FINDINGS"}
      BY <2>3, <2>9 DEF Document, State, Analyzed, NoneCancelled
  <2>11. ~whole => d.limited
      BY DEF Document
  <2>12. ASSUME NEW t \in Tools
         PROVE  /\ Final.runs[t] = "failed" <=> result[t].outcome # "success"
                /\ Final.runs[t] = "success_clean" => \A f \in d.findings : f.tool # t
    <3>1. Final.runs[t] = RunStatus(result[t])
        BY <2>2
    <3>2. ASSUME result[t].findings = {}, NEW f \in Kept(raw) PROVE f.tool # t
        BY <2>3, <3>2 DEF Kept, Gathered, Analyzed, TypesInv, ResultsFine, Fine
    <3>. QED  BY <3>1, <3>2 DEF RunStatus, Document
  <2>13. d.coverage = Coverage(result) /\ d.findings = Kept(raw)
      BY DEF Document
  <2>. HIDE DEF d
  <2>. QED
      BY <2>2, <2>3, <2>6, <2>7, <2>8, <2>10, <2>11, <2>12, <2>13 DEF DocumentsAgree
<1>. QED  BY <1>1, TypesAlways, StoryAlways, PTL

-------------------------------------------------------------------------------
(* What survives. A running tool is loose when nobody holds a child of it:    *)
(* then nothing but its own end stops it. Each one got loose by a fault.      *)

Loose == {t \in Tools : process[t] = "running" /\ ~Attached(t)}

LooseCounted == Cardinality(Loose) <= faults

\* An exit that was seen is of a child that is gone.
ExitOfTheGone == exit # "none" => client # "running"

LEMMA ToolsAreFinite == IsFiniteSet(Tools)
<1>1. Tools = ({"gitleaks"} \cup {"osv"}) \cup {"semgrep"}
    BY DEF Tools
<1>. QED  BY <1>1, FS_Singleton, FS_AddElement

\* No step without a fault lets a tool loose.
LEMMA LooseOnlyShrinks ==
    ASSUME LooseCounted, SandboxTypeOK, Loose' \subseteq Loose,
           UNCHANGED faults \/ Fault
    PROVE  LooseCounted'
<1>1. IsFiniteSet(Loose)
    BY ToolsAreFinite, FS_Subset DEF Loose
<1>2. /\ Cardinality(Loose') <= Cardinality(Loose)
      /\ Cardinality(Loose) \in Nat /\ Cardinality(Loose') \in Nat
    BY <1>1, FS_Subset, FS_CardinalityType
<1>. QED  BY <1>2 DEF LooseCounted, Fault, SandboxTypeOK

\* A fault lets at most one loose.
LEMMA FaultLetsOneLoose ==
    ASSUME LooseCounted, SandboxTypeOK, NEW x, Loose' \subseteq Loose \cup {x}, Fault
    PROVE  LooseCounted'
<1>1. IsFiniteSet(Loose)
    BY ToolsAreFinite, FS_Subset DEF Loose
<1>2. IsFiniteSet(Loose \cup {x}) /\ Cardinality(Loose \cup {x}) <= Cardinality(Loose) + 1
  <2>1. /\ IsFiniteSet(Loose \cup {x})
        /\ Cardinality(Loose \cup {x}) =
               IF x \in Loose THEN Cardinality(Loose) ELSE Cardinality(Loose) + 1
      BY <1>1, FS_AddElement, Zenon
  <2>2. Cardinality(Loose) \in Nat
      BY <1>1, FS_CardinalityType
  <2>. QED  BY <2>1, <2>2
<1>3. /\ Cardinality(Loose') <= Cardinality(Loose \cup {x})
      /\ Cardinality(Loose) \in Nat /\ Cardinality(Loose') \in Nat
      /\ Cardinality(Loose \cup {x}) \in Nat
    BY <1>1, <1>2, FS_Subset, FS_CardinalityType
<1>. QED  BY <1>2, <1>3 DEF LooseCounted, Fault, SandboxTypeOK

\* The loop, and what runs beside it, let a tool loose only by a fault (run).
LEMMA SandboxStepLoose ==
    ASSUME SandboxTypeOK, ExitOfTheGone, LooseCounted, SandboxStep
    PROVE  LooseCounted'
<1>1. ASSUME NEW t \in Tools, ToolEnds(t) PROVE LooseCounted'
  <2>1. Loose' \subseteq Loose /\ UNCHANGED faults
      BY <1>1 DEF ToolEnds, Loose, Attached, SandboxTypeOK
  <2>. QED  BY <2>1, LooseOnlyShrinks
<1>2. CASE ClientLost
  <2>1. Loose' \subseteq Loose \cup {tool}
      BY <1>2 DEF ClientLost, Loose, Attached
  <2>. QED  BY <1>2, <2>1, FaultLetsOneLoose DEF ClientLost
<1>3. CASE \E s \in Streams : ReadAll(s) \/ PassesCap(s) \/ ReadFails(s)
  <2>1. Loose' \subseteq Loose /\ (UNCHANGED faults \/ Fault)
      BY <1>3 DEF ReadAll, PassesCap, ReadFails, Reads, Loose, Attached
  <2>. QED  BY <2>1, LooseOnlyShrinks
<1>4. ASSUME NEW s \in Streams, SeeStream(s) PROVE LooseCounted'
  <2>1. Loose' \subseteq Loose /\ UNCHANGED faults
      BY <1>4 DEF SeeStream, Decide, Loose, Attached, ExitOfTheGone
  <2>. QED  BY <2>1, LooseOnlyShrinks
<1>5. CASE SeeExit
  <2>1. Loose' \subseteq Loose /\ UNCHANGED faults
      BY <1>5 DEF SeeExit, Loose, Attached
  <2>. QED  BY <2>1, LooseOnlyShrinks
<1>6. CASE Deadline \/ SeeCancel
  <2>1. Loose' \subseteq Loose /\ UNCHANGED faults
      BY <1>6 DEF Deadline, SeeCancel, Leave, Loose, Attached
  <2>. QED  BY <2>1, LooseOnlyShrinks
<1>7. CASE WaitFails
  <2>1. Loose' \subseteq Loose \cup {tool}
      BY <1>7 DEF WaitFails, Dropped, Loose, Attached
  <2>. QED  BY <1>7, <2>1, FaultLetsOneLoose DEF WaitFails
<1>8. CASE Terminate
  <2>1. CASE process' = [process EXCEPT ![tool] = "gone"] /\ UNCHANGED faults
    <3>1. Loose' \subseteq Loose
        BY <1>8, <2>1 DEF Terminate, Loose, Attached, SandboxTypeOK
    <3>. QED  BY <2>1, <3>1, LooseOnlyShrinks
  <2>2. CASE Fault /\ UNCHANGED process
    <3>1. Loose' \subseteq Loose \cup {tool}
        BY <1>8, <2>2 DEF Terminate, Loose, Attached
    <3>. QED  BY <2>2, <3>1, FaultLetsOneLoose
  <2>. QED  BY <1>8, <2>1, <2>2 DEF Terminate
<1>. QED  BY <1>1, <1>2, <1>3, <1>4, <1>5, <1>6, <1>7, <1>8 DEF SandboxStep

LEMMA ExitStep == SandboxTypeOK /\ ExitOfTheGone /\ [Next]_vars => ExitOfTheGone'
<1> SUFFICES ASSUME SandboxTypeOK, ExitOfTheGone, [Next]_vars PROVE ExitOfTheGone'
    OBVIOUS
<1>. USE DEF ExitOfTheGone
<1>1. CASE InSandbox
  <2>1. CASE SeeExit
      BY <2>1 DEF SeeExit
  <2>2. CASE ~SeeExit
      BY <1>1, <2>2
      DEF InSandbox, SandboxStep, ToolEnds, ClientLost, ReadAll, PassesCap, ReadFails, Reads,
          SeeStream, Deadline, SeeCancel, Leave, WaitFails, Dropped, Terminate, Attached
  <2>. QED  BY <2>1, <2>2
<1>2. CASE \E t \in Tools : Skip(t) \/ Run(t)
    BY <1>2 DEF Skip, Run, Start, Refuse, sandboxVars
<1>3. CASE Return
    BY <1>3 DEF Return, Recorded
<1>4. CASE BudgetExpires
    BY <1>4 DEF BudgetExpires, Dropped
<1>5. CASE UNCHANGED <<exit, client>>
    BY <1>5
<1>. QED
    BY <1>1, <1>2, <1>3, <1>4, <1>5
    DEF Next, RequestCancel, Poll, Aggregate, StopAtRequest, Normalize, ScorePhase,
        ReportPhase, Deliver, PhaseFails, NotState, vars, sandboxVars

LEMMA LooseStep ==
    SandboxTypeOK /\ ExitOfTheGone /\ LooseCounted /\ [Next]_vars => LooseCounted'
<1> SUFFICES ASSUME SandboxTypeOK, ExitOfTheGone, LooseCounted, [Next]_vars
             PROVE  LooseCounted'
    OBVIOUS
<1>1. CASE InSandbox
    BY <1>1, SandboxStepLoose DEF InSandbox
<1>2. ASSUME NEW t \in Tools, Run(t) PROVE LooseCounted'
  <2>1. CASE Start(t)
    <3>1. Loose' \subseteq Loose
        BY <2>1 DEF Start, Loose, Attached, SandboxTypeOK
    <3>. QED  BY <2>1, <3>1, LooseOnlyShrinks DEF Start
  <2>2. CASE Refuse(t)
    <3>1. Loose' \subseteq Loose
        BY <2>2 DEF Refuse, Loose, Attached
    <3>. QED  BY <2>2, <3>1, LooseOnlyShrinks DEF Refuse
  <2>. QED  BY <1>2, <2>1, <2>2 DEF Run
<1>3. CASE Return
  <2>1. Loose' \subseteq Loose /\ UNCHANGED faults
      BY <1>3 DEF Return, Recorded, Loose, Attached
  <2>. QED  BY <2>1, LooseOnlyShrinks
<1>4. CASE BudgetExpires
  <2>1. Loose' \subseteq Loose \cup {tool}
    <3>1. \A u \in Tools \ {tool} : process'[u] = "running" => process[u] = "running"
        BY <1>4 DEF BudgetExpires, Dropped, SandboxTypeOK
    <3>. QED  BY <3>1 DEF Loose, Attached
  <2>. QED  BY <1>4, <2>1, FaultLetsOneLoose DEF BudgetExpires
<1>5. CASE UNCHANGED <<process, tool, at, client>> /\ (UNCHANGED faults \/ Fault)
  <2>1. Loose' \subseteq Loose
      BY <1>5 DEF Loose, Attached
  <2>. QED  BY <1>5, <2>1, LooseOnlyShrinks
<1>. QED
    BY <1>1, <1>2, <1>3, <1>4, <1>5
    DEF Next, RequestCancel, Poll, Skip, Aggregate, StopAtRequest, Normalize, ScorePhase,
        ReportPhase, Deliver, PhaseFails, EndsInError, ReadsRequest, ReadsNoRequest, Enter,
        NotState, vars, sandboxVars

\* No scanner outlives its run, but for one per fault (terminate, --rm,
\* kill_on_drop).
THEOREM ScannersDoNotSurvive == Spec => []NothingSurvives
<1>1. Init => ExitOfTheGone /\ LooseCounted
  <2> SUFFICES ASSUME Init PROVE ExitOfTheGone /\ LooseCounted
      OBVIOUS
  <2>1. Loose = {}
      BY DEF Init, SandboxInit, Loose
  <2>. QED  BY <2>1, FS_EmptySet DEF Init, SandboxInit, ExitOfTheGone, LooseCounted
<1>2. TypesInv => SandboxTypeOK
    BY DEF TypesInv, TypeOK
<1>3. SandboxTypeOK /\ LooseCounted => NothingSurvives
  <2> SUFFICES ASSUME SandboxTypeOK, LooseCounted PROVE NothingSurvives
      OBVIOUS
  <2>1. Survivors \subseteq Loose
      BY DEF Survivors, Loose, Attached
  <2>2. IsFiniteSet(Loose)
      BY ToolsAreFinite, FS_Subset DEF Loose
  <2>3. /\ Cardinality(Survivors) <= Cardinality(Loose)
        /\ Cardinality(Loose) \in Nat /\ Cardinality(Survivors) \in Nat
      BY <2>1, <2>2, FS_Subset, FS_CardinalityType
  <2>. QED  BY <2>3 DEF LooseCounted, NothingSurvives, SandboxTypeOK
<1>. QED  BY <1>1, <1>2, <1>3, TypesAlways, ExitStep, LooseStep, PTL DEF Spec

-------------------------------------------------------------------------------
(* Where a clean result comes from. The scanners take their turns, a run is   *)
(* of the tool whose turn it is, and what the loop has seen is what happened; *)
(* so a result that is used is of the report its tool wrote.                  *)

Turns ==
    /\ Done("osv") => Done("gitleaks")
    /\ Done("semgrep") => Done("osv")
    /\ at # "idle" => phase = "scan" /\ Turn(tool)
    /\ at = "idle" => tool = NoTool
    /\ Past(Late) => \A t \in Tools : Done(t)

SeenIsTrue ==
    /\ \A s \in Streams : seen[s] # "reading" => pipe[s] = seen[s]
    /\ stop = "finished" => \A s \in Streams : seen[s] # "reading"

\* A tool that wrote nothing for an error is not seen to have exited well.
MissingIsBad ==
    at # "idle" /\ wrote[tool].form = "missing" => client = "bad" /\ exit # "ok"

IsOfReport(t) ==
    /\ result[t] = Success(t, wrote[t])
    /\ wrote[t].form = "report" \/ (t = "gitleaks" /\ wrote[t].form = "empty")

Used(t) ==
    /\ Done(t) /\ result[t].outcome # "success" => wrote[t] = NoReport
    /\ phase = "scan" /\ ~Done(t) /\ tool # t => wrote[t] = NoReport
    /\ t \notin cut /\ result[t].outcome = "success" => IsOfReport(t)

UsedOnly == \A t \in Tools : Used(t)

\* A run leaves the caller where it is, and writes only its own tool's report,
\* while that tool runs (run).
LEMMA SandboxStepLeaves ==
    ASSUME SandboxTypeOK, SandboxStep
    PROVE  /\ UNCHANGED tool /\ (at' = "idle" <=> at = "idle")
           /\ \A t \in Tools : t # tool => wrote'[t] = wrote[t]
           /\ wrote' # wrote => at # "idle"
<1>1. CASE \E t \in Tools : ToolEnds(t)
    BY <1>1 DEF ToolEnds, Attached, SandboxTypeOK
<1>2. CASE ClientLost
    BY <1>2 DEF ClientLost, Attached, SandboxTypeOK
<1>3. CASE UNCHANGED wrote
    BY <1>3
    DEF SandboxStep, ToolEnds, ClientLost, ReadAll, PassesCap, ReadFails, Reads, SeeStream,
        SeeExit, Decide, Deadline, SeeCancel, Leave, WaitFails, Terminate, Attached
<1>. QED
    BY <1>1, <1>2, <1>3
    DEF SandboxStep, ReadAll, PassesCap, ReadFails, Reads, SeeStream,
        SeeExit, Deadline, SeeCancel, Leave, WaitFails, Terminate

\* The phases after the scan leave the caller, the results and the reports.
LEMMA LaterSteps ==
    ASSUME Aggregate \/ StopAtRequest \/ Normalize \/ ScorePhase \/ ReportPhase \/ Deliver
               \/ PhaseFails
    PROVE  /\ UNCHANGED <<at, tool, client, pipe, seen, exit, stop, wrote, result, cut>>
           /\ phase' # "scan"
BY DEF Aggregate, StopAtRequest, Normalize, ScorePhase, ReportPhase, Deliver, PhaseFails,
       EndsInError, Ends, NotState

LEMMA TurnsStep == TypesInv /\ Turns /\ [Next]_vars => Turns'
<1> SUFFICES ASSUME TypesInv, Turns, [Next]_vars PROVE Turns'
    OBVIOUS
<1>. USE DEF Turns
<1>0. SandboxTypeOK
    BY DEF TypesInv, TypeOK
<1>1. CASE RequestCancel \/ Poll \/ UNCHANGED vars
    BY <1>1
    DEF RequestCancel, Poll, vars, sandboxVars, Past, Publishes, Turn, Done
<1>2. ASSUME NEW t \in Tools, Skip(t) PROVE Turns'
  <2>1. result' = [result EXCEPT ![t] = result'[t]] /\ Done(t)'
      BY <1>2 DEF Skip, Record, Without, Done, TypesInv, TypeOK
  <2>2. at = "idle" /\ phase = "scan" /\ Turn(t)
        /\ UNCHANGED <<at, tool, phase, outcome>>
      BY <1>2 DEF Skip, Calls, sandboxVars
  <2>3. Done("osv")' => Done("gitleaks")'
      BY <2>1, <2>2 DEF Turn, Done, TypesInv, TypeOK, Tools
  <2>4. Done("semgrep")' => Done("osv")'
      BY <2>1, <2>2 DEF Turn, Done, TypesInv, TypeOK, Tools
  <2>5. Past(Late)' => \A u \in Tools : Done(u)'
      BY <2>1, <2>2 DEF Past, Late, Publishes, Done, TypesInv, TypeOK
  <2>. QED  BY <2>2, <2>3, <2>4, <2>5
<1>3. ASSUME NEW t \in Tools, Run(t) PROVE Turns'
    BY <1>3 DEF Run, Calls, Start, Refuse, Past, Publishes, Turn, Done
<1>4. CASE InSandbox
  <2>1. UNCHANGED <<tool, phase, outcome, result>> /\ (at' = "idle" <=> at = "idle")
      BY <1>0, <1>4, SandboxStepLeaves DEF InSandbox
  <2>. QED  BY <2>1 DEF Past, Publishes, Turn, Done
<1>5. CASE Return
  <2>1. PICK r : Recorded(r) /\ r.outcome # "none"
      BY <1>5, ReturnIsFine
  <2>2. /\ phase = "scan" /\ Turn(tool) /\ tool \in Tools
        /\ at' = "idle" /\ tool' = NoTool /\ UNCHANGED <<phase, outcome>>
        /\ result' = [result EXCEPT ![tool] = r]
      BY <1>0, <2>1 DEF Recorded, Record, SandboxTypeOK
  <2>3. Done("osv")' => Done("gitleaks")'
      BY <2>1, <2>2 DEF Turn, Done, TypesInv, TypeOK, Tools
  <2>4. Done("semgrep")' => Done("osv")'
      BY <2>1, <2>2 DEF Turn, Done, TypesInv, TypeOK, Tools
  <2>5. Past(Late)' => \A u \in Tools : Done(u)'
      BY <2>1, <2>2 DEF Past, Late, Publishes, Done, TypesInv, TypeOK
  <2>. QED  BY <2>2, <2>3, <2>4, <2>5
<1>6. CASE Aggregate
  <2>1. (\A t \in Tools : Done(t)) /\ at = "idle" /\ tool = NoTool
      BY <1>0, <1>6 DEF Aggregate, Turn, Tools, SandboxTypeOK
  <2>. QED  BY <1>6, <2>1, LaterSteps DEF Done
<1>7. CASE StopAtRequest \/ Normalize \/ ScorePhase \/ ReportPhase \/ Deliver \/ PhaseFails
  <2>1. Past(Late)' => Past(Late)
      BY <1>7
      DEF StopAtRequest, Normalize, ScorePhase, ReportPhase, Deliver, PhaseFails, Enter,
          Ends, Past, Late, Publishes
  <2>2. at = "idle"
      BY <1>7
      DEF StopAtRequest, Normalize, ScorePhase, ReportPhase, Deliver, PhaseFails, Enter
  <2>. QED  BY <1>7, <2>1, <2>2, LaterSteps DEF Done
<1>8. CASE BudgetExpires
    BY <1>8 DEF BudgetExpires, Ends, Past, Late, Publishes, Done
<1>. QED  BY <1>1, <1>2, <1>3, <1>4, <1>5, <1>6, <1>7, <1>8 DEF Next

LEMMA SeenStep == SandboxTypeOK /\ SeenIsTrue /\ [Next]_vars => SeenIsTrue'
<1> SUFFICES ASSUME SandboxTypeOK, SeenIsTrue, [Next]_vars PROVE SeenIsTrue'
    OBVIOUS
<1>. USE DEF SeenIsTrue
<1>1. CASE UNCHANGED <<pipe, seen>> /\ (stop' = "finished" => stop = "finished")
    BY <1>1
<1>2. CASE InSandbox
  <2>1. ASSUME NEW s \in Streams, ReadAll(s) \/ PassesCap(s) \/ ReadFails(s)
        PROVE  SeenIsTrue'
      BY <2>1 DEF ReadAll, PassesCap, ReadFails, Reads, SandboxTypeOK
  <2>2. ASSUME NEW s \in Streams, SeeStream(s) PROVE SeenIsTrue'
    <3>1. \A u \in Streams : seen'[u] # "reading" => pipe'[u] = seen'[u]
        BY <2>2 DEF SeeStream, SandboxTypeOK
    <3>2. stop' = "finished" => \A u \in Streams : seen'[u] # "reading"
        BY <2>2 DEF SeeStream, Decide, Wrong, SandboxTypeOK
    <3>. QED  BY <3>1, <3>2
  <2>3. CASE SeeExit
      BY <2>3 DEF SeeExit, Decide, Wrong
  <2>4. CASE Deadline \/ SeeCancel \/ WaitFails
      BY <2>4 DEF Deadline, SeeCancel, Leave, WaitFails
  <2>5. CASE Terminate \/ ClientLost \/ \E t \in Tools : ToolEnds(t)
      BY <2>5 DEF Terminate, ClientLost, ToolEnds
  <2>. QED  BY <1>2, <2>1, <2>2, <2>3, <2>4, <2>5 DEF InSandbox, SandboxStep
<1>3. ASSUME NEW t \in Tools, Start(t) PROVE SeenIsTrue'
    BY <1>3 DEF Start
<1>4. CASE Return
    BY <1>4 DEF Return, Recorded
<1>. QED
    BY <1>1, <1>2, <1>3, <1>4, LaterSteps
    DEF Next, RequestCancel, Poll, Skip, Run, Refuse, BudgetExpires, vars, sandboxVars

\* What a run starts from: nothing of the tool's is held yet (execute).
LEMMA RunStartsEmpty ==
    ASSUME Turns, UsedOnly, SandboxTypeOK, NEW t \in Tools, Calls(t)
    PROVE  tool = NoTool /\ wrote[t] = NoReport /\ wrote[t].form = "empty"
<1>1. tool = NoTool /\ phase = "scan" /\ ~Done(t)
    BY DEF Calls, Turns, Turn, Tools
<1>2. tool # t
    BY <1>1, SandboxAssumption
<1>3. wrote[t] = NoReport
    BY <1>1, <1>2 DEF UsedOnly, Used
<1>. QED  BY <1>1, <1>3 DEF NoReport, Blank

LEMMA MissingStep ==
    /\ TypesInv /\ Turns /\ UsedOnly /\ ExitOfTheGone /\ MissingIsBad
    /\ [Next]_vars
    => MissingIsBad'
<1> SUFFICES ASSUME TypesInv, Turns, UsedOnly, ExitOfTheGone, MissingIsBad, [Next]_vars
             PROVE  MissingIsBad'
    OBVIOUS
<1>. USE DEF MissingIsBad
<1>0. SandboxTypeOK
    BY DEF TypesInv, TypeOK
<1>1. CASE UNCHANGED <<at, tool, wrote, client, exit>>
    BY <1>1
<1>2. ASSUME NEW t \in Tools, Run(t) PROVE MissingIsBad'
    BY <1>0, <1>2, RunStartsEmpty DEF Run, Start, Refuse
<1>3. CASE InSandbox
  <2>1. ASSUME NEW t \in Tools, ToolEnds(t) PROVE MissingIsBad'
    <3>1. CASE Attached(t)
      <4>1. /\ UNCHANGED <<at, tool, exit>> /\ t = tool /\ exit = "none"
            /\ wrote'[t].form = "missing" => client' = "bad"
          BY <1>0, <2>1, <3>1
          DEF ToolEnds, Attached, ExitOfTheGone, SandboxTypeOK
      <4>. QED  BY <4>1
    <3>2. CASE ~Attached(t)
        BY <2>1, <3>2 DEF ToolEnds
    <3>. QED  BY <3>1, <3>2
  <2>2. CASE ClientLost
      BY <2>2 DEF ClientLost, Attached, ExitOfTheGone
  <2>3. CASE \E s \in Streams : ReadAll(s) \/ PassesCap(s) \/ ReadFails(s)
      BY <2>3 DEF ReadAll, PassesCap, ReadFails, Reads
  <2>4. CASE \E s \in Streams : SeeStream(s)
      BY <2>4 DEF SeeStream
  <2>5. CASE SeeExit
      BY <2>5 DEF SeeExit
  <2>6. CASE Deadline \/ SeeCancel
      BY <2>6 DEF Deadline, SeeCancel, Leave
  <2>7. CASE WaitFails
      BY <2>7 DEF WaitFails, Dropped
  <2>8. CASE Terminate
      BY <2>8 DEF Terminate
  <2>. QED
      BY <1>3, <2>1, <2>2, <2>3, <2>4, <2>5, <2>6, <2>7, <2>8 DEF InSandbox, SandboxStep
<1>4. CASE Return
    BY <1>4 DEF Return, Recorded
<1>5. CASE BudgetExpires
    BY <1>5 DEF BudgetExpires
<1>. QED
    BY <1>1, <1>2, <1>3, <1>4, <1>5, LaterSteps
    DEF Next, RequestCancel, Poll, Skip, vars, sandboxVars

\* A success of which the loop has taken the whole stdout is of the report the
\* tool wrote (Classify, Judged).
LEMMA SuccessIsOfReport ==
    ASSUME SandboxTypeOK, SeenIsTrue, MissingIsBad, at = "returned",
           Judged.outcome = "success", pipe["stdout"] = "whole"
    PROVE  /\ Judged = Success(tool, wrote[tool])
           /\ wrote[tool].form = "report"
                \/ (tool = "gitleaks" /\ wrote[tool].form = "empty")
<1>1. \A o : Without(o).outcome = o
    BY DEF Without
<1>2. stop = "finished" /\ Judged = Classify(tool, Stdout, exit)
    BY <1>1 DEF Judged
<1>3. Stdout = wrote[tool]
    BY <1>2 DEF SeenIsTrue, Stdout, Streams
<1>4. \/ wrote[tool].form = "report"
      \/ wrote[tool].form \in NoBytes /\ tool = "gitleaks" /\ exit = "ok"
    BY <1>1, <1>2, <1>3 DEF Classify
<1>5. Judged = Success(tool, wrote[tool])
    BY <1>2, <1>3, <1>4 DEF Classify
<1>. QED  BY <1>4, <1>5 DEF MissingIsBad, NoBytes

LEMMA UsedStep ==
    /\ TypesInv /\ Turns /\ SeenIsTrue /\ MissingIsBad /\ UsedOnly
    /\ [Next]_vars
    => UsedOnly'
<1> SUFFICES ASSUME TypesInv, Turns, SeenIsTrue, MissingIsBad, UsedOnly, [Next]_vars,
                    NEW t \in Tools
             PROVE  Used(t)'
    BY DEF UsedOnly
<1>0. SandboxTypeOK /\ Used(t)
    BY DEF TypesInv, TypeOK, UsedOnly
<1>. USE DEF Used, IsOfReport
<1>1. CASE UNCHANGED <<tool, wrote, result, cut>> /\ (phase' = "scan" => phase = "scan")
    BY <1>0, <1>1 DEF Done
<1>2. ASSUME NEW u \in Tools, Skip(u) PROVE Used(t)'
  <2>1. CASE u = t
    <3>1. wrote[t] = NoReport /\ UNCHANGED wrote
        BY <1>0, <1>2, <2>1, RunStartsEmpty DEF Skip, sandboxVars
    <3>2. Done(t)' /\ result'[t].outcome # "success"
        BY <1>2, <2>1 DEF Skip, Record, Without, Done, TypesInv, TypeOK
    <3>. QED  BY <3>1, <3>2
  <2>2. CASE u # t
      BY <1>0, <1>2, <2>2 DEF Skip, Record, Done, sandboxVars, TypesInv, TypeOK
  <2>. QED  BY <2>1, <2>2
<1>3. ASSUME NEW u \in Tools, Run(u) PROVE Used(t)'
  <2>1. tool = NoTool /\ tool # t
      BY <1>0, <1>3, RunStartsEmpty, SandboxAssumption DEF Run
  <2>. QED  BY <1>0, <1>3, <2>1 DEF Run, Start, Refuse, Done
<1>4. CASE InSandbox
  <2>1. UNCHANGED <<tool, phase, result, cut>>
      BY <1>0, <1>4, SandboxStepLeaves DEF InSandbox
  <2>2. CASE wrote'[t] = wrote[t]
      BY <1>0, <2>1, <2>2 DEF Done
  <2>3. CASE wrote'[t] # wrote[t]
    <3>1. t = tool /\ at # "idle"
        BY <1>0, <1>4, <2>3, SandboxStepLeaves DEF InSandbox
    <3>2. ~Done(t)
        BY <1>0, <3>1 DEF Turns, Turn, SandboxTypeOK, Tools
    <3>. QED  BY <2>1, <3>1, <3>2 DEF Done
  <2>. QED  BY <2>2, <2>3
<1>5. CASE Return
  <2>1. PICK r : Recorded(r) /\ (flag => r.outcome = "cancelled") /\ (~flag => r = Judged)
                 /\ r.outcome # "none"
      BY <1>5, ReturnIsFine
  <2>2. /\ tool \in Tools /\ at = "returned" /\ UNCHANGED phase
        /\ result' = [result EXCEPT ![tool] = r]
      BY <1>0, <2>1 DEF Recorded, Record, SandboxTypeOK
  <2>3. CASE tool # t
    <3>1. result'[t] = result[t] /\ wrote'[t] = wrote[t] /\ (t \in cut' <=> t \in cut)
        BY <1>0, <2>1, <2>2, <2>3 DEF Recorded, SandboxTypeOK
    <3>. QED  BY <1>0, <2>2, <2>3, <3>1 DEF Done
  <2>4. CASE tool = t
    <3>1. result'[t] = r /\ Done(t)'
        BY <2>1, <2>2, <2>4 DEF Done, TypesInv, TypeOK
    <3>2. CASE r.outcome # "success"
        BY <1>0, <2>1, <2>4, <3>1, <3>2 DEF Recorded, SandboxTypeOK
    <3>3. CASE r.outcome = "success" /\ pipe["stdout"] = "whole"
      <4>1. r = Judged /\ wrote' = wrote
          BY <2>1, <3>3 DEF Recorded
      <4>. QED  BY <1>0, <2>2, <2>4, <3>1, <3>3, <4>1, SuccessIsOfReport
    <3>4. CASE r.outcome = "success" /\ pipe["stdout"] # "whole"
      <4>1. t \in cut'
          BY <2>1, <2>4, <3>4 DEF Recorded
      <4>. QED  BY <3>1, <3>4, <4>1
    <3>. QED  BY <3>2, <3>3, <3>4
  <2>. QED  BY <2>3, <2>4
<1>6. CASE BudgetExpires
    BY <1>0, <1>6 DEF BudgetExpires, Ends, Done
<1>7. CASE RequestCancel \/ Poll \/ UNCHANGED vars
    BY <1>1, <1>7 DEF RequestCancel, Poll, vars, sandboxVars
<1>. QED
    BY <1>1, <1>2, <1>3, <1>4, <1>5, <1>6, <1>7, LaterSteps DEF Next

-------------------------------------------------------------------------------
(* What is published of a tool is what its result names.                      *)

\* The order of storage ids, as a relation.
Below == {p \in Nat \X Nat : p[1] < p[2]}

\* Of any rows there is a first (the smallest storage id).
LEMMA FirstRow ==
    ASSUME NEW S \in SUBSET Nat, S # {}
    PROVE  \E m \in S : \A n \in S : m <= n
<1>1. IsWellFoundedOn(Below, Nat)
    BY NatLessThanWellFounded DEF OpToRel, Below
<1>2. PICK m \in S : \A n \in S : <<n, m>> \notin Below
    BY <1>1, WFMin, Zenon
<1>3. \A n \in S : ~(n < m)
    BY <1>2 DEF Below
<1>. QED  BY <1>3

\* Deduplication loses no identity but the refused one
\* (normalize_findings_for_persist).
LEMMA KeptKeepsIdentities ==
    ASSUME NEW S \in SUBSET Finding, NEW t \in Tools
    PROVE  {f.identity : f \in {g \in Kept(S) : g.tool = t}}
               = {f.identity : f \in {g \in S : g.tool = t}} \ {Invalid}
<1>1. ASSUME NEW f \in S, f.tool = t, f.identity # Invalid
      PROVE  \E g \in Kept(S) : g.tool = t /\ g.identity = f.identity
  <2> DEFINE same == {g \in S : g.tool = t /\ g.identity = f.identity}
             rows == {g.row : g \in same}
  <2>1. rows \in SUBSET Nat /\ rows # {}
      BY <1>1 DEF Finding
  <2>2. PICK m \in rows : \A n \in rows : m <= n
    <3>. HIDE DEF rows
    <3>. QED  BY <2>1, FirstRow
  <2>3. PICK g \in same : g.row = m
      OBVIOUS
  <2>4. Representative(g, S)
      BY <2>2, <2>3 DEF Representative
  <2>. QED  BY <1>1, <2>3, <2>4 DEF Kept, Refused
<1>. QED  BY <1>1 DEF Kept, Refused

\* What is gathered of a tool is what its successful result names
\* (aggregate_scan_results).
LEMMA GatheredOfTool ==
    ASSUME ResultsFine, NEW t \in Tools
    PROVE  {g \in Gathered(result) : g.tool = t}
               = IF result[t].outcome = "success" THEN result[t].findings ELSE {}
<1>1. \A u \in Tools : \A f \in result[u].findings : f.tool = u
    BY DEF ResultsFine, Fine
<1>2. CASE result[t].outcome = "success"
    BY <1>1, <1>2 DEF Gathered, Analyzed
<1>3. CASE result[t].outcome # "success"
    BY <1>1, <1>3 DEF Gathered, Analyzed
<1>. QED  BY <1>2, <1>3

\* A success names what its report lists (Success).
LEMMA SuccessNames ==
    ASSUME NEW t \in Tools, NEW r
    PROVE  {f.identity : f \in Success(t, r).findings} = {f.identity : f \in r.lists}
<1> DEFINE named(f) == [tool |-> t, identity |-> f.identity, row |-> f.row]
<1>1. Success(t, r).findings = {named(f) : f \in r.lists}
    BY DEF Success
<1>2. \A f \in r.lists : named(f).identity = f.identity
    OBVIOUS
<1>. HIDE DEF named
<1>. QED  BY <1>1, <1>2

\* A completed audit was earned: every tool left a report of its own, and what is
\* published is what the reports name; a partial one publishes what its
\* successful tools named but for the refusals (the classifiers,
\* aggregate_scan_results, normalize_findings_for_persist).
THEOREM CleanResultsAreEarned == Spec => []CleanIsEarned
<1>1. Init => Turns /\ SeenIsTrue /\ MissingIsBad /\ UsedOnly /\ ExitOfTheGone
  <2> SUFFICES ASSUME Init
               PROVE  Turns /\ SeenIsTrue /\ MissingIsBad /\ UsedOnly /\ ExitOfTheGone
      OBVIOUS
  <2>1. \A t \in Tools : ~Done(t) /\ wrote[t] = NoReport
                         /\ result[t].outcome # "success"
      BY DEF Init, SandboxInit, Done, Without
  <2>2. Turns
      BY <2>1 DEF Init, SandboxInit, Turns, Past, Late, Publishes, Tools
  <2>3. SeenIsTrue /\ MissingIsBad /\ ExitOfTheGone
      BY DEF Init, SandboxInit, SeenIsTrue, MissingIsBad, ExitOfTheGone
  <2>. QED  BY <2>1, <2>2, <2>3 DEF UsedOnly, Used
<1>2. TypesInv => SandboxTypeOK
    BY DEF TypesInv, TypeOK
<1>3. TypesInv /\ Story /\ Turns /\ UsedOnly => CleanIsEarned
  <2> SUFFICES ASSUME TypesInv, Story, Turns, UsedOnly, NEW t \in Tools \ cut
               PROVE  /\ Final.status = "completed" =>
                          /\ wrote[t].form = "report"
                               \/ (t = "gitleaks" /\ wrote[t].form = "empty")
                          /\ Published(t) = Named(t)
                      /\ Final.status = "partial" => Published(t) = Named(t) \ {Invalid}
      BY DEF CleanIsEarned
  <2>1. CASE Publishes
    <3>1. /\ findings = Kept(Gathered(result)) /\ Final.findings = findings
          /\ Final.status = IF outcome = "ok" THEN "completed" ELSE "partial"
          /\ outcome = "ok" => Analyzed(result) = Tools /\ Refused(Gathered(result)) = {}
          /\ Done(t)
        BY <2>1
        DEF Story, Aggregated, Normalized, Concluded, Past, Publishes, Turns, Final,
            Coverage, Analyzed, Tools
    <3>2. Gathered(result) \in SUBSET Finding
        BY GatheredIsFinite DEF TypesInv, TypeOK, ResultsFine
    <3>3. Published(t) = {f.identity : f \in {g \in Gathered(result) : g.tool = t}}
                             \ {Invalid}
        BY <3>1, <3>2, KeptKeepsIdentities DEF Published
    <3>4. CASE result[t].outcome = "success"
      <4>1. IsOfReport(t)
          BY <3>4 DEF UsedOnly, Used
      <4>2. Named(t) = {f.identity : f \in {g \in Gathered(result) : g.tool = t}}
          BY <3>4, <4>1, GatheredOfTool, SuccessNames DEF TypesInv, IsOfReport, Named
      <4>3. outcome = "ok" => Invalid \notin Named(t)
          BY <3>1, <4>2 DEF Refused
      <4>. QED  BY <3>1, <3>3, <4>1, <4>2, <4>3 DEF IsOfReport
    <3>5. CASE result[t].outcome # "success"
      <4>1. outcome # "ok"
          BY <3>1, <3>5 DEF Analyzed
      <4>2. Named(t) = {}
          BY <3>1, <3>5 DEF UsedOnly, Used, Named, NoReport, Blank
      <4>3. Published(t) = {}
          BY <3>3, <3>5, GatheredOfTool DEF TypesInv
      <4>. QED  BY <3>1, <4>1, <4>2, <4>3
    <3>. QED  BY <3>4, <3>5
  <2>2. CASE ~Publishes
      BY <2>2 DEF Final, Publishes, TypesInv, TypeOK
  <2>. QED  BY <2>1, <2>2
<1>. QED
    BY <1>1, <1>2, <1>3, TypesAlways, StoryAlways, TurnsStep, SeenStep, MissingStep, UsedStep,
       ExitStep, PTL DEF Spec

-------------------------------------------------------------------------------
(* The narrative.                                                             *)

(* Past the look at the report a handler knows that its execution is closed   *)
(* with one, before the insert that it holds an accepted text, and after it   *)
(* that some text is stored.                                                 *)
Knows(q) ==
    /\ q.pc # "idle" => q.exec \in Executions
    /\ q.pc \in {"load", "generate", "persist", "reload"} => execution[q.exec] = "reported"
    /\ q.pc = "persist" => q.text \in Texts
    /\ q.pc = "reload" => narrative[q.exec] # NoText

NarrativeInv ==
    /\ NarrativeTypeOK
    /\ EveryoneIsToldTheSame
    /\ \A r \in Requests : Knows(req[r])

(* A step of one handler that leaves what is stored and told alone.          *)
LEMMA QuietStep ==
    ASSUME NarrativeInv, NEW r \in Requests, NEW x \in Handler,
           UNCHANGED <<execution, narrative, told>>,
           req' = [req EXCEPT ![r] = x], Knows(x)
    PROVE  NarrativeInv'
<1>1. /\ req' \in [Requests -> Handler]
      /\ req'[r] = x
      /\ \A q \in Requests \ {r} : req'[q] = req[q]
  BY DEF NarrativeInv, NarrativeTypeOK
<1>2. NarrativeTypeOK' /\ EveryoneIsToldTheSame'
  BY <1>1 DEF NarrativeInv, NarrativeTypeOK, EveryoneIsToldTheSame
<1>3. ASSUME NEW q \in Requests PROVE Knows(req[q])'
  BY <1>1 DEF NarrativeInv, Knows
<1> QED
  BY <1>2, <1>3 DEF NarrativeInv

(* A handler that only moves on to another point.                            *)
LEMMA MoveStep ==
    ASSUME NarrativeInv, NEW r \in Requests, NEW pc \in Points,
           UNCHANGED <<execution, narrative, told>>,
           Goto(r, pc), Knows([req[r] EXCEPT !.pc = pc])
    PROVE  NarrativeInv'
<1> DEFINE x == [req[r] EXCEPT !.pc = pc]
<1>1. x \in Handler
  BY DEF NarrativeInv, NarrativeTypeOK, Handler
<1>2. req' = [req EXCEPT ![r] = x]
  BY DEF Goto, NarrativeInv, NarrativeTypeOK
<1>3. Knows(x)
  OBVIOUS
<1> HIDE DEF x
<1> QED
  BY <1>1, <1>2, <1>3, QuietStep

(* An idle handler is well typed and knows nothing.                          *)
LEMMA IdleKnows == Idle \in Handler /\ Knows(Idle)
BY DEF Idle, Handler, Points, Knows

(* A handler that gives up or replies without having told anything.          *)
LEMMA FinishStep ==
    ASSUME NarrativeInv, NEW r \in Requests, UNCHANGED <<execution, narrative, told>>, Finish(r)
    PROVE  NarrativeInv'
BY IdleKnows, QuietStep DEF Finish

(* A reply with the stored text.                                             *)
LEMMA TellStep ==
    ASSUME NarrativeInv, NEW r \in Requests, UNCHANGED <<execution, narrative>>, Tell(r),
           req[r].exec \in Executions, narrative[req[r].exec] # NoText
    PROVE  NarrativeInv'
<1>1. PICK e \in Executions : e = req[r].exec
  OBVIOUS
<1>2. narrative[e] \in Texts
  BY <1>1 DEF NarrativeInv, NarrativeTypeOK
<1>3. told' = told \cup {<<e, narrative[e]>>} /\ req' = [req EXCEPT ![r] = Idle]
  BY <1>1 DEF Tell, Finish
<1>4. /\ req' \in [Requests -> Handler]
      /\ req'[r] = Idle
      /\ \A q \in Requests \ {r} : req'[q] = req[q]
  BY <1>3, IdleKnows DEF NarrativeInv, NarrativeTypeOK
<1>5. NarrativeTypeOK'
  BY <1>2, <1>3, <1>4 DEF NarrativeInv, NarrativeTypeOK
<1>6. EveryoneIsToldTheSame'
  BY <1>2, <1>3 DEF NarrativeInv, EveryoneIsToldTheSame
<1>7. ASSUME NEW q \in Requests PROVE Knows(req[q])'
  BY <1>4, IdleKnows DEF NarrativeInv, Knows
<1> QED
  BY <1>5, <1>6, <1>7 DEF NarrativeInv

(* An insert that goes in stores the handler's text; one that meets a stored  *)
(* text leaves it.                                                           *)
LEMMA PersistStep ==
    ASSUME NarrativeInv, NEW r \in Requests, Persist(r)
    PROVE  NarrativeInv'
<1>1. PICK e \in Executions : e = req[r].exec
  BY DEF Persist, At, NarrativeInv, Knows
<1>2. /\ execution[e] = "reported" /\ req[r].text \in Texts /\ req[r].pc = "persist"
      /\ req[r] \in Handler /\ NarrativeTypeOK /\ execution' = execution /\ told' = told
  BY <1>1 DEF Persist, At, NarrativeInv, Knows, NarrativeTypeOK
<1>3. /\ narrative' = [narrative EXCEPT ![e] = IF @ = NoText THEN req[r].text ELSE @]
      /\ Goto(r, "reload")
  BY <1>1, <1>2 DEF Persist
<1>4. /\ narrative' \in [Executions -> Texts \cup {NoText}]
      /\ narrative'[e] # NoText
      /\ \A f \in Executions : narrative[f] # NoText => narrative'[f] = narrative[f]
  BY <1>2, <1>3, NullAssumption DEF NarrativeTypeOK
<1> DEFINE x == [req[r] EXCEPT !.pc = "reload"]
<1>5. x \in Handler /\ x.pc = "reload" /\ x.exec = e
  BY <1>1, <1>2 DEF Handler, Points
<1>6. req' = [req EXCEPT ![r] = x]
  BY <1>2, <1>3 DEF Goto, NarrativeTypeOK
<1> HIDE DEF x
<1>7. /\ req' \in [Requests -> Handler]
      /\ req'[r] = x
      /\ \A q \in Requests \ {r} : req'[q] = req[q]
  BY <1>2, <1>5, <1>6 DEF NarrativeTypeOK
<1>8. NarrativeTypeOK'
  BY <1>2, <1>4, <1>7 DEF NarrativeTypeOK
<1>9. EveryoneIsToldTheSame'
  BY <1>2, <1>4, NullAssumption DEF NarrativeInv, EveryoneIsToldTheSame
<1>10. ASSUME NEW q \in Requests PROVE Knows(req[q])'
  <2>1. CASE q = r
    BY <1>2, <1>4, <1>5, <1>7, <2>1 DEF Knows
  <2>2. CASE q # r
    BY <1>2, <1>4, <1>7, <2>2 DEF NarrativeInv, Knows
  <2> QED
    BY <2>1, <2>2
<1> QED
  BY <1>8, <1>9, <1>10 DEF NarrativeInv

(* Nothing is stored or told at first.                                       *)
THEOREM InitNarrative == NarrativeInit => NarrativeInv
BY IdleKnows DEF NarrativeInit, NarrativeInv, NarrativeTypeOK, EveryoneIsToldTheSame, Knows, Idle

(* Closing executions, requests and faults keep the invariant.               *)
THEOREM StepNarrative == NarrativeInv /\ [NarrativeNext]_narrativeVars => NarrativeInv'
<1> SUFFICES ASSUME NarrativeInv, [NarrativeNext]_narrativeVars PROVE NarrativeInv'
  OBVIOUS
<1>1. ASSUME NEW e \in Executions, Close(e) PROVE NarrativeInv'
  <2>1. /\ execution' \in [Executions -> {"running", "reported", "unreported"}]
        /\ \A f \in Executions : execution[f] = "reported" => execution'[f] = "reported"
    BY <1>1 DEF Close, NarrativeInv, NarrativeTypeOK
  <2>2. UNCHANGED <<narrative, req, told>>
    BY <1>1 DEF Close
  <2>3. NarrativeTypeOK' /\ EveryoneIsToldTheSame'
    BY <2>1, <2>2 DEF NarrativeInv, NarrativeTypeOK, EveryoneIsToldTheSame
  <2>4. ASSUME NEW r \in Requests PROVE Knows(req[r])'
    BY <2>1, <2>2 DEF NarrativeInv, Knows
  <2> QED
    BY <2>3, <2>4 DEF NarrativeInv
<1>2. ASSUME NEW r \in Requests, NEW e \in Executions, Request(r, e) PROVE NarrativeInv'
  <2> DEFINE x == [Idle EXCEPT !.pc = "report", !.exec = e]
  <2>1. x \in Handler /\ Knows(x)
    BY DEF Idle, Handler, Points, Knows
  <2>2. req' = [req EXCEPT ![r] = x] /\ UNCHANGED <<execution, narrative, told>>
    BY <1>2 DEF Request
  <2> HIDE DEF x
  <2> QED
    BY <2>1, <2>2, QuietStep
<1>3. ASSUME NEW r \in Requests, LoadReport(r) PROVE NarrativeInv'
  <2>1. /\ req[r] \in Handler /\ Knows(req[r]) /\ req[r].pc = "report"
        /\ UNCHANGED <<execution, narrative, told>>
    BY <1>3 DEF LoadReport, At, NarrativeInv, NarrativeTypeOK
  <2>2. CASE execution[req[r].exec] = "reported" /\ Goto(r, "load")
    BY <2>1, <2>2, MoveStep DEF Points, Handler, Knows
  <2> QED
    BY <1>3, <2>1, <2>2, FinishStep DEF LoadReport
<1>4. ASSUME NEW r \in Requests, LoadExisting(r) PROVE NarrativeInv'
  <2>1. /\ req[r] \in Handler /\ Knows(req[r]) /\ req[r].pc = "load"
        /\ UNCHANGED <<execution, narrative>>
    BY <1>4 DEF LoadExisting, At, NarrativeInv, NarrativeTypeOK
  <2>2. CASE Goto(r, "generate") /\ UNCHANGED told
    BY <2>1, <2>2, MoveStep DEF Points, Handler, Knows
  <2> QED
    BY <1>4, <2>1, <2>2, TellStep DEF LoadExisting, Knows
<1>5. ASSUME NEW r \in Requests, Generate(r) PROVE NarrativeInv'
  <2>1. /\ req[r] \in Handler /\ Knows(req[r]) /\ req[r].pc = "generate"
        /\ UNCHANGED <<execution, narrative, told>>
    BY <1>5 DEF Generate, At, NarrativeInv, NarrativeTypeOK
  <2>2. ASSUME NEW t \in Texts, req' = [req EXCEPT ![r].pc = "persist", ![r].text = t]
        PROVE  NarrativeInv'
    <3> DEFINE x == [req[r] EXCEPT !.pc = "persist", !.text = t]
    <3>1. x \in Handler /\ Knows(x)
      BY <2>1 DEF Handler, Points, Knows
    <3>2. req' = [req EXCEPT ![r] = x]
      BY <2>2 DEF NarrativeInv, NarrativeTypeOK
    <3> HIDE DEF x
    <3> QED
      BY <2>1, <3>1, <3>2, QuietStep
  <2> QED
    BY <1>5, <2>1, <2>2, FinishStep DEF Generate
<1>6. ASSUME NEW r \in Requests, Persist(r) PROVE NarrativeInv'
  BY <1>6, PersistStep
<1>7. ASSUME NEW r \in Requests, Reload(r) PROVE NarrativeInv'
  BY <1>7, TellStep, FinishStep DEF Reload, At, NarrativeInv, Knows
<1>8. ASSUME NEW r \in Requests, Abandoned(r) PROVE NarrativeInv'
  BY <1>8, FinishStep DEF Abandoned
<1>9. CASE UNCHANGED narrativeVars
  BY <1>9 DEF narrativeVars, NarrativeInv, NarrativeTypeOK, EveryoneIsToldTheSame, Knows
<1> QED
  BY <1>1, <1>2, <1>3, <1>4, <1>5, <1>6, <1>7, <1>8, <1>9 DEF NarrativeNext

(* The inductive invariant holds in every reachable state.                   *)
THEOREM NarrativeInvariant == NarrativeSpec => []NarrativeInv
BY InitNarrative, StepNarrative, PTL DEF NarrativeSpec

-------------------------------------------------------------------------------
(* Whoever is told a narrative of an execution, the winner and the losers of  *)
(* a race and every later reader, is told the stored one.                    *)
THEOREM ToldTheSame == NarrativeSpec => []EveryoneIsToldTheSame
<1>1. NarrativeInv => EveryoneIsToldTheSame
  BY DEF NarrativeInv
<1> QED
  BY <1>1, NarrativeInvariant, PTL

(* A handler past its insert always finds a narrative: the "missing after     *)
(* persistence" error is never taken.                                        *)
THEOREM ReloadsSucceed == NarrativeSpec => []ReloadFindsIt
<1>1. NarrativeInv => ReloadFindsIt
  BY DEF NarrativeInv, Knows, ReloadFindsIt, At
<1> QED
  BY <1>1, NarrativeInvariant, PTL

(* A stored narrative is never rewritten, and none is stored for an execution *)
(* that has no report.                                                       *)
THEOREM NarrativesAreFinal == NarrativeSpec => NarrativeIsFinal
<1>1. ASSUME NarrativeInv, [NarrativeNext]_narrativeVars,
             NEW e \in Executions, narrative'[e] # narrative[e]
      PROVE  narrative[e] = NoText /\ execution[e] = "reported"
  <2>1. PICK r \in Requests : Persist(r)
    BY <1>1 DEF NarrativeNext, narrativeVars, Close, Request, LoadReport, LoadExisting, Generate,
                Reload, Abandoned
  <2>2. NarrativeTypeOK /\ execution[req[r].exec] = "reported"
    BY <1>1, <2>1 DEF NarrativeInv, Persist
  <2>3. narrative' = [narrative EXCEPT ![req[r].exec] = IF @ = NoText THEN req[r].text ELSE @]
    BY <2>1, <2>2 DEF Persist
  <2> QED
    BY <1>1, <2>2, <2>3 DEF NarrativeTypeOK
<1>2. NarrativeInv /\ [NarrativeNext]_narrativeVars
         => [\A e \in Executions :
                narrative'[e] # narrative[e] =>
                    narrative[e] = NoText /\ execution[e] = "reported"]_narrativeVars
  BY <1>1
<1> QED
  BY <1>2, NarrativeInvariant, PTL DEF NarrativeSpec, NarrativeIsFinal
===============================================================================
