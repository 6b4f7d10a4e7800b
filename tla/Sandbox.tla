-------------------------------- MODULE Sandbox --------------------------------
(*****************************************************************************)
(* One scanner run at a time: the process (in a container, behind a docker    *)
(* client, or native), a capped reader per output stream, and the loop that   *)
(* waits for the exit, the readers, the deadline or a cancellation and then   *)
(* decides how the run stopped. The parts proceed independently: what has     *)
(* happened and what the loop has seen are separate state.                    *)
(*****************************************************************************)
EXTENDS Reports

CONSTANTS
    NoTool,
    MaxFaults  \* bound: failures of the daemon, the pipes and the database

ASSUME SandboxAssumption == NoTool \notin Tools /\ MaxFaults \in Nat

VARIABLES
    native,     \* SCANNER_EXECUTION_MODE; fixed
    at,         \* where the caller is in its run
    tool,       \* whose run it is
    process,    \* each tool's processes, wherever they run
    client,     \* the child: the docker client, or in native mode the tool
    pipe,       \* what each stream's reader has come to
    seen,       \* what of it the loop has taken
    exit,       \* the exit status the loop has taken
    stop,       \* why the loop ended
    wrote,      \* what each tool put in its report
    flag,       \* the cancellation flag the loop polls
    faults

sandboxVars == <<native, at, tool, process, client, pipe, seen, exit, stop,
                 wrote, flag, faults>>

Streams == {"stdout", "stderr"}
Reading == {"reading", "whole", "exceeded", "failed"}
NoReport == Blank("empty")

SandboxTypeOK ==
    /\ native \in BOOLEAN
    /\ at \in {"idle", "loop", "terminate", "returned"}
    /\ tool \in Tools \cup {NoTool}
    /\ at # "idle" => tool \in Tools
    /\ process \in [Tools -> {"none", "running", "gone"}]
    /\ client \in {"none", "running", "ok", "bad"}
    /\ pipe \in [Streams -> Reading]
    /\ seen \in [Streams -> Reading]
    /\ exit \in {"none", "ok", "bad"}
    /\ stop \in {"none", "finished", "exceeded", "failed", "timeout", "cancelled", "refused"}
    /\ wrote \in [Tools -> Report]
    /\ flag \in BOOLEAN
    /\ faults \in 0 .. MaxFaults

\* A native tool writes its report to a file: there is no stdout to read.
Unread == [s \in Streams |-> IF native /\ s = "stdout" THEN "whole" ELSE "reading"]

SandboxInit ==
    /\ native \in BOOLEAN
    /\ at = "idle"
    /\ tool = NoTool
    /\ process = [t \in Tools |-> "none"]
    /\ client = "none"
    /\ pipe = Unread
    /\ seen = Unread
    /\ exit = "none"
    /\ stop = "none"
    /\ wrote = [t \in Tools |-> NoReport]
    /\ flag = FALSE
    /\ faults = 0

Fault == faults < MaxFaults /\ faults' = faults + 1

-------------------------------------------------------------------------------
(* The caller starts a run, or is refused one: by the policy checks, the      *)
(* docker client's version, or the spawn.                                     *)

Start(t) ==
    /\ at = "idle"
    /\ tool' = t /\ at' = "loop"
    /\ process' = [process EXCEPT ![t] = "running"]
    /\ client' = "running"
    /\ pipe' = Unread /\ seen' = Unread
    /\ exit' = "none" /\ stop' = "none"
    /\ UNCHANGED <<native, wrote, flag, faults>>

Refuse(t) ==
    /\ at = "idle"
    /\ Fault
    /\ tool' = t /\ at' = "returned" /\ stop' = "refused"
    /\ UNCHANGED <<native, process, client, pipe, seen, exit, wrote, flag>>

-------------------------------------------------------------------------------
(* The child and its streams. A container whose client is gone runs on, and   *)
(* is removed when it ends (--rm).                                            *)

Attached(t) == tool = t /\ at \in {"loop", "terminate"} /\ client = "running"

ToolEnds(t) ==
    /\ process[t] = "running"
    /\ process' = [process EXCEPT ![t] = "gone"]
    /\ IF Attached(t)
       THEN \E r \in Writable(t, native), status \in {"ok", "bad"} :
               /\ r.form = "empty" => status = "ok"
               /\ r.form = "missing" => status = "bad"
               /\ wrote' = [wrote EXCEPT ![t] = r]
               /\ client' = status
       ELSE UNCHANGED <<wrote, client>>
    /\ UNCHANGED <<native, at, tool, pipe, seen, exit, stop, flag, faults>>

\* The docker client dies before the container does: its output is cut short.
ClientLost ==
    /\ ~native /\ Attached(tool) /\ Fault
    /\ client' = "bad"
    /\ \E form \in {"missing", "garbled"} : wrote' = [wrote EXCEPT ![tool] = Blank(form)]
    /\ UNCHANGED <<native, at, tool, process, pipe, seen, exit, stop, flag>>

Reads(s, outcome) ==
    /\ at = "loop" /\ pipe[s] = "reading"
    /\ pipe' = [pipe EXCEPT ![s] = outcome]
    /\ UNCHANGED <<native, at, tool, process, client, seen, exit, stop, wrote, flag>>

ReadAll(s) == client # "running" /\ Reads(s, "whole") /\ UNCHANGED faults

PassesCap(s) == Reads(s, "exceeded") /\ UNCHANGED faults

ReadFails(s) == Reads(s, "failed") /\ Fault

-------------------------------------------------------------------------------
(* The loop. After each event it asks first whether everything has settled,   *)
(* and only then whether a stream went wrong.                                 *)

Wrong(streams) == {s \in Streams : streams[s] \in {"exceeded", "failed"}}

Decide(status, streams) ==
    LET settled == status # "none" /\ \A s \in Streams : streams[s] # "reading"
    IN  \/ settled /\ stop' = "finished" /\ at' = "returned"
        \/ \E s \in Wrong(streams) : ~settled /\ stop' = streams[s] /\ at' = "terminate"
        \/ ~settled /\ Wrong(streams) = {} /\ UNCHANGED <<stop, at>>

SeeExit ==
    /\ at = "loop" /\ exit = "none" /\ client \in {"ok", "bad"}
    /\ exit' = client
    /\ Decide(client, seen)
    /\ UNCHANGED <<native, tool, process, client, pipe, seen, wrote, flag, faults>>

SeeStream(s) ==
    /\ at = "loop" /\ seen[s] = "reading" /\ pipe[s] # "reading"
    /\ seen' = [seen EXCEPT ![s] = pipe[s]]
    /\ Decide(exit, seen')
    /\ UNCHANGED <<native, tool, process, client, pipe, exit, wrote, flag, faults>>

Leave(why) ==
    /\ at = "loop"
    /\ stop' = why /\ at' = "terminate"
    /\ UNCHANGED <<native, tool, process, client, pipe, seen, exit, wrote, flag, faults>>

Deadline == Leave("timeout")
SeeCancel == flag /\ Leave("cancelled")

\* The child is dropped, which kills it and, behind a docker client, only the
\* client.
Dropped ==
    /\ process' = IF native /\ process[tool] = "running"
                  THEN [process EXCEPT ![tool] = "gone"] ELSE process
    /\ client' = IF client = "running" THEN "bad" ELSE client

WaitFails ==
    /\ at = "loop" /\ exit = "none" /\ Fault
    /\ Dropped
    /\ stop' = "failed" /\ at' = "returned"
    /\ UNCHANGED <<native, tool, pipe, seen, exit, wrote, flag>>

\* Variant: terminate, without the removal of the container.
TerminateClientOnly ==
    /\ at = "terminate"
    /\ at' = "returned"
    /\ Dropped
    /\ UNCHANGED <<native, tool, pipe, seen, exit, stop, wrote, flag, faults>>

\* Kill and reap the child, then remove the container by name; whether the
\* removal worked is not looked at.
Terminate ==
    /\ at = "terminate"
    /\ at' = "returned"
    /\ client' = IF client = "running" THEN "bad" ELSE client
    /\ \/ process' = [process EXCEPT ![tool] = "gone"] /\ UNCHANGED faults
       \/ ~native /\ process[tool] = "running" /\ Fault /\ UNCHANGED process
    /\ UNCHANGED <<native, tool, pipe, seen, exit, stop, wrote, flag>>

-------------------------------------------------------------------------------

SandboxStep ==
    \/ \E t \in Tools : ToolEnds(t)
    \/ ClientLost
    \/ \E s \in Streams : ReadAll(s) \/ PassesCap(s) \/ ReadFails(s) \/ SeeStream(s)
    \/ SeeExit \/ Deadline \/ SeeCancel \/ WaitFails
    \/ Terminate

\* What `execute` makes of the run that just returned, unless it was cancelled.
\* Bytes of a stream that went wrong were never handed over.
Stdout == IF seen["stdout"] = "whole" THEN wrote[tool] ELSE NoReport

Judged ==
    CASE stop = "finished"  -> Classify(tool, Stdout, exit)
      [] stop = "timeout"   -> Without("timeout")
      [] stop = "cancelled" -> Without("cancelled")
      [] OTHER              -> Without("failed")
===============================================================================
