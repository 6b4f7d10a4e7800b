------------------------------ MODULE Narrative -------------------------------
(*****************************************************************************)
(* The optional narrative of a finalized execution: concurrent requests that  *)
(* each look for one, ask the model, validate what it says and insert it,     *)
(* with the table's unique index and freeze triggers as the only arbiter. No  *)
(* transaction spans the call to the model.                                   *)
(*****************************************************************************)
CONSTANTS
    Executions,  \* attempts of audit jobs
    Requests,    \* handler invocations that may run at the same time
    Texts,       \* narratives the validator accepts
    NoText,      \* no narrative
    NoExec       \* an idle handler's execution

ASSUME NullAssumption == NoText \notin Texts /\ NoExec \notin Executions

VARIABLES
    execution,  \* "running", or closed with or without a deterministic report
    narrative,  \* ai_narratives: at most one text per execution
    req,        \* local state of each handler, and its last reply
    told        \* every (execution, text) some handler has replied with

narrativeVars == <<execution, narrative, req, told>>

Points == {"idle", "report", "load", "generate", "persist", "reload"}

Handler == [pc: Points, exec: Executions \cup {NoExec}, text: Texts \cup {NoText}]

NarrativeTypeOK ==
    /\ execution \in [Executions -> {"running", "reported", "unreported"}]
    /\ narrative \in [Executions -> Texts \cup {NoText}]
    /\ req \in [Requests -> Handler]
    /\ told \subseteq Executions \X Texts

Idle == [pc |-> "idle", exec |-> NoExec, text |-> NoText]

NarrativeInit ==
    /\ execution = [e \in Executions |-> "running"]
    /\ narrative = [e \in Executions |-> NoText]
    /\ req = [r \in Requests |-> Idle]
    /\ told = {}

-------------------------------------------------------------------------------
At(r, pc) == req[r].pc = pc
Goto(r, pc) == req' = [req EXCEPT ![r].pc = pc]
Finish(r) == req' = [req EXCEPT ![r] = Idle]

(* The execution becomes terminal, in the transaction that inserts its report *)
(* if it has one.                                                            *)
Close(e) ==
    /\ execution[e] = "running"
    /\ \E s \in {"reported", "unreported"} : execution' = [execution EXCEPT ![e] = s]
    /\ UNCHANGED <<narrative, req, told>>

Request(r, e) ==
    /\ At(r, "idle")
    /\ req' = [req EXCEPT ![r] = [Idle EXCEPT !.pc = "report", !.exec = e]]
    /\ UNCHANGED <<execution, narrative, told>>

(* deterministic_report: a running execution is a conflict, and one without  *)
(* a report is not found.                                                    *)
LoadReport(r) ==
    /\ At(r, "report")
    /\ IF execution[req[r].exec] = "reported" THEN Goto(r, "load") ELSE Finish(r)
    /\ UNCHANGED <<execution, narrative, told>>

(* Either load of the narrative: an existing one is the reply.               *)
Tell(r) ==
    /\ told' = told \cup {<<req[r].exec, narrative[req[r].exec]>>}
    /\ Finish(r)

LoadExisting(r) ==
    /\ At(r, "load")
    /\ \/ narrative[req[r].exec] # NoText /\ Tell(r)
       \/ narrative[req[r].exec] = NoText /\ Goto(r, "generate") /\ UNCHANGED told
    /\ UNCHANGED <<execution, narrative>>

(* The model's answer passes the validator, or the request fails: a timeout, *)
(* a provider error, an oversized or a rejected document are all the same.   *)
Generate(r) ==
    /\ At(r, "generate")
    /\ \/ \E t \in Texts : req' = [req EXCEPT ![r].pc = "persist", ![r].text = t]
       \/ Finish(r)
    /\ UNCHANGED <<execution, narrative, told>>

(* Variants: the insert overwrites; the loser of a race keeps its own text.   *)
PersistOverwrites(r) ==
    /\ At(r, "persist")
    /\ narrative' = [narrative EXCEPT ![req[r].exec] = req[r].text]
    /\ Goto(r, "reload")
    /\ UNCHANGED <<execution, told>>
PersistAndTell(r) ==
    /\ At(r, "persist")
    /\ narrative' = [narrative EXCEPT ![req[r].exec] = IF @ = NoText THEN req[r].text ELSE @]
    /\ told' = told \cup {<<req[r].exec, req[r].text>>}
    /\ Finish(r)
    /\ UNCHANGED execution

(* persist_ai_narrative: the report is required once more, by the function    *)
(* and by the table's trigger; the unique index refuses a second text, and    *)
(* only that refusal is passed over.                                         *)
Persist(r) ==
    LET e == req[r].exec IN
    /\ At(r, "persist")
    /\ IF execution[e] = "reported"
       THEN /\ narrative' = [narrative EXCEPT ![e] = IF @ = NoText THEN req[r].text ELSE @]
            /\ Goto(r, "reload")
       ELSE Finish(r) /\ UNCHANGED narrative
    /\ UNCHANGED <<execution, told>>

(* The reload; a missing narrative would be an internal error. *)
Reload(r) ==
    /\ At(r, "reload")
    /\ IF narrative[req[r].exec] # NoText THEN Tell(r) ELSE Finish(r) /\ UNCHANGED told
    /\ UNCHANGED <<execution, narrative>>

(* A database error or a dropped handler; nothing written is undone. *)
Abandoned(r) ==
    /\ ~At(r, "idle")
    /\ Finish(r)
    /\ UNCHANGED <<execution, narrative, told>>

NarrativeNext ==
    \/ \E e \in Executions : Close(e)
    \/ \E r \in Requests, e \in Executions : Request(r, e)
    \/ \E r \in Requests :
          LoadReport(r) \/ LoadExisting(r) \/ Generate(r) \/ Persist(r) \/ Reload(r) \/ Abandoned(r)

NarrativeSpec == NarrativeInit /\ [][NarrativeNext]_narrativeVars

-------------------------------------------------------------------------------
(* Everyone who is ever told a narrative of an execution is told the stored   *)
(* one, the loser of a race included.                                        *)
EveryoneIsToldTheSame == \A e \in Executions, t \in Texts : <<e, t>> \in told => narrative[e] = t

(* A narrative explains a finalized report, and is never rewritten. *)
NarrativeIsFinal ==
    [][\A e \in Executions :
          narrative'[e] # narrative[e] =>
              narrative[e] = NoText /\ execution[e] = "reported"]_narrativeVars

(* A request whose insert succeeded or was refused as a duplicate finds a     *)
(* narrative to return: no other error of the insert is taken for a race.    *)
ReloadFindsIt == \A r \in Requests : At(r, "reload") => narrative[req[r].exec] # NoText
===============================================================================
