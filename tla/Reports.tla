-------------------------------- MODULE Reports --------------------------------
(*****************************************************************************)
(* From what a tool printed to what an audit publishes: the classification of *)
(* a run, the normalization of its findings, the coverage, the score, the     *)
(* canonical document and the state its report announces. Pure definitions;  *)
(* findings are named by their canonical identity, and a finding that fails   *)
(* evidence validation is one whose identity is Invalid.                      *)
(*****************************************************************************)
EXTENDS Integers, FiniteSets

CONSTANTS
    Identities,  \* canonical identities a tool can report
    Invalid,     \* stands for the identity of a finding that is refused
    Lists        \* what a report may list: sets of [identity, row] records

ASSUME ReportsAssumption ==
    /\ Invalid \notin Identities
    /\ \A L \in Lists :
        /\ L \subseteq [identity : Identities \cup {Invalid}, row : Nat]
        /\ IsFiniteSet(L)

Tools == {"gitleaks", "osv", "semgrep"}

Finding == [tool : Tools, identity : Identities \cup {Invalid}, row : Nat]

-------------------------------------------------------------------------------
(* What a run leaves for the classifier, and the result made of it.           *)

\* No bytes are empty when the tool exited well and missing when it did not.
Form == {"report", "empty", "missing", "garbled", "errors", "nofiles", "oversized"}

Report == [form : Form, lists : Lists \cup {{}}, rejected : BOOLEAN]

Blank(form) == [form |-> form, lists |-> {}, rejected |-> FALSE]

\* Only semgrep's schema has errors, analyzed paths and locations to refuse;
\* only a report file has a size.
Writable(t, native) ==
    [form : {"report"}, lists : Lists,
     rejected : IF t = "semgrep" THEN BOOLEAN ELSE {FALSE}]
        \cup {Blank(form) : form \in {"empty", "missing", "garbled"}
                \cup (IF t = "semgrep" THEN {"errors", "nofiles"} ELSE {})
                \cup (IF native THEN {"oversized"} ELSE {})}

Outcome == {"none", "success", "failed", "no_files_analyzed", "timeout", "cancelled"}

Result == [outcome : Outcome, findings : SUBSET Finding, rejected : BOOLEAN]

Without(outcome) == [outcome |-> outcome, findings |-> {}, rejected |-> FALSE]

Success(t, report) ==
    [outcome |-> "success",
     findings |-> {[tool |-> t, identity |-> f.identity, row |-> f.row] :
                      f \in report.lists},
     rejected |-> report.rejected]

NoBytes == {"empty", "missing"}

\* Variant: Classify without its condition on the exit.
ClassifyNoBytesAsClean(t, report, exit) ==
    IF report.form = "report" \/ (report.form \in NoBytes /\ t = "gitleaks")
    THEN Success(t, report)
    ELSE Without(IF report.form = "nofiles" THEN "no_files_analyzed" ELSE "failed")

\* The artifact decides, not the exit code; gitleaks alone takes no bytes for
\* no findings, when it exited well.
Classify(t, report, exit) ==
    IF \/ report.form = "report"
       \/ report.form \in NoBytes /\ t = "gitleaks" /\ exit = "ok"
    THEN Success(t, report)
    ELSE Without(IF report.form = "nofiles" THEN "no_files_analyzed" ELSE "failed")

-------------------------------------------------------------------------------
(* The document. results is a function from Tools to Result.                  *)

Analyzed(results) == {t \in Tools : results[t].outcome = "success"}

Gathered(results) == UNION {results[t].findings : t \in Analyzed(results)}

Refused(findings) == {f \in findings : f.identity = Invalid}

\* Of the rows with one identity, the one with the smallest storage id.
Representative(f, findings) ==
    \A g \in findings : g.tool = f.tool /\ g.identity = f.identity => f.row <= g.row

Kept(findings) == {f \in findings \ Refused(findings) : Representative(f, findings)}

Coverage(results) ==
    CASE Analyzed(results) = Tools -> "complete"
      [] Analyzed(results) = {}    -> "absent"
      [] OTHER                     -> "partial"

NoScore == -1

\* Tenths of a point.
Score(complete, count) ==
    LET penalized == 100 - 15 * count
    IN  IF ~complete THEN NoScore
        ELSE CASE penalized < 0  -> 0
               [] penalized > 90 -> 90
               [] OTHER          -> penalized

State(results, kept) ==
    LET some(outcome) == \E t \in Tools : results[t].outcome = outcome
        unsuccessful  == Tools \ Analyzed(results)
    IN  IF some("cancelled") THEN "CANCELLED"
        ELSE IF some("timeout") THEN "TIMEOUT"
        ELSE IF unsuccessful = {}
             THEN IF kept = {} THEN "SUCCESS_CLEAN" ELSE "SUCCESS_FINDINGS"
        ELSE IF \A t \in unsuccessful : results[t].outcome = "no_files_analyzed"
             THEN "NO_FILES_ANALYZED"
        ELSE "FAILED"

Document(results, findings, score) ==
    [coverage |-> Coverage(results),
     findings |-> Kept(findings),
     invalid  |-> Cardinality(Refused(findings)),
     limited  |-> Coverage(results) # "complete" \/ \E t \in Tools : results[t].rejected,
     score    |-> IF Coverage(results) = "complete" THEN score ELSE NoScore,
     state    |-> State(results, Kept(findings))]

NoDocument ==
    [coverage |-> "absent", findings |-> {}, invalid |-> 0, limited |-> FALSE,
     score |-> NoScore, state |-> "none"]

\* The row of scanner_runs persisted for a result.
RunStatus(result) ==
    IF result.outcome # "success" THEN "failed"
    ELSE IF result.findings = {} THEN "success_clean" ELSE "success_findings"
===============================================================================
