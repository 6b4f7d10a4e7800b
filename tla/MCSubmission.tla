----------------------------- MODULE MCSubmission -----------------------------
(* Instances of Submission for TLC.                                           *)
EXTENDS Submission, TLC

CONSTANTS u1, u2, i1, s1, s2, d1, d2, h1, h2, j1, j2

OneUser == {u1}
TwoUsers == {u1, u2}
OneInstallation == {i1}
TwoHeads == {s1, s2}
TwoDeliveries == {d1, d2}
TwoHandlers == {h1, h2}
TwoJobs == {j1, j2}

Body(event, sender, head) ==
    [event |-> event, installation |-> i1, sender |-> sender, head |-> head]

(* Two pushes, an installation by either user or by nobody's account, and    *)
(* one body of each other event.                                             *)
Bodies ==
    {Body("push", NoUser, s) : s \in Heads}
    \cup {Body("created", u, NoHead) : u \in Users \cup {NoUser}}
    \cup {Body(e, NoUser, NoHead) : e \in {"deleted", "suspend", "unsuspend", "ping", "other"}}

Interchangeable ==
    Permutations(Handlers) \cup Permutations(Jobs) \cup Permutations(Deliveries)
    \cup Permutations(Users) \cup Permutations(Heads)
===============================================================================
