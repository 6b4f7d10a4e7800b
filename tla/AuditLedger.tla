----------------------------- MODULE AuditLedger ------------------------------
(*****************************************************************************)
(* What the audit lifecycle promises to a reader of its two tables: a job is  *)
(* a record of attempts that are opened one at a time and closed once, and a  *)
(* verdict that follows from them. A completed job is final; any other verdict *)
(* may be reopened by a retry. Workers, leases, heartbeats, sweeps and faults *)
(* do not appear.                                                            *)
(*****************************************************************************)
EXTENDS Naturals

CONSTANTS Jobs, MaxAttempts

Attempts == 1 .. MaxAttempts
Terminal == {"completed", "partial", "failed", "cancelled", "engine_unavailable"}

VARIABLES
    attempt,  \* per job and number: [status, evidence]
    verdict   \* per job: "pending", or how the audit ended

vars == <<attempt, verdict>>

Init ==
    /\ attempt = [j \in Jobs |-> [n \in Attempts |-> [status |-> "absent", evidence |-> "none"]]]
    /\ verdict = [j \in Jobs |-> "pending"]

InProgress(j) == \E n \in Attempts : attempt[j][n].status = "running"

(* Attempts are numbered densely and only a pending job gains one. *)
Open(j, n) ==
    /\ verdict[j] = "pending"
    /\ ~InProgress(j)
    /\ \A m \in Attempts : attempt[j][m].status # "absent" <=> m < n
    /\ attempt' = [attempt EXCEPT ![j][n].status = "running"]
    /\ UNCHANGED verdict

(* What an attempt that ends with status s may publish. *)
Publishes(s) ==
    CASE s = "completed" -> {"complete"}
      [] s = "partial"   -> {"partial"}
      [] s = "cancelled" -> {"none", "partial", "complete"}
      [] OTHER           -> {"none"}

(* Closing an attempt gives the job its verdict in the same step; only an    *)
(* attempt that failed may leave the job pending, for another attempt.       *)
Close(j, n, s) ==
    /\ attempt[j][n].status = "running"
    /\ \E e \in Publishes(s) :
          attempt' = [attempt EXCEPT ![j][n] = [status |-> s, evidence |-> e]]
    /\ \/ verdict' = [verdict EXCEPT ![j] = s]
       \/ s = "failed" /\ UNCHANGED verdict

(* A job that no attempt is working on may be given up or, later, retried. *)
GiveUp(j) ==
    /\ verdict[j] = "pending"
    /\ ~InProgress(j)
    /\ verdict' = [verdict EXCEPT ![j] = "failed"]
    /\ UNCHANGED attempt

Retry(j) ==
    /\ verdict[j] \in Terminal \ {"completed"}
    /\ ~InProgress(j)
    /\ verdict' = [verdict EXCEPT ![j] = "pending"]
    /\ UNCHANGED attempt

Next ==
    \E j \in Jobs :
        \/ \E n \in Attempts : Open(j, n) \/ \E s \in Terminal : Close(j, n, s)
        \/ GiveUp(j) \/ Retry(j)

Spec == Init /\ [][Next]_vars
===============================================================================
