--------------------------- MODULE MCAuditLifecycle ---------------------------
(* Instances of AuditLifecycle for TLC.                                       *)
EXTENDS AuditLifecycle, TLC

CONSTANTS j1, j2, w1, w2, s1, s2, c1, c2

OneJob == {j1}
TwoJobs == {j1, j2}
TwoWorkers == {w1, w2}
OneSweeper == {s1}
TwoSweepers == {s1, s2}
OneCommit == {c1}
TwoCommits == {c1, c2}
NoPhase == {}
ScanIsSlow == {"scan"}
FetchIsSlow == {"fetch"}

(* Jobs, workers, sweepers and commits are each interchangeable.              *)
Interchangeable ==
    Permutations(Jobs) \cup Permutations(Workers) \cup Permutations(Sweepers) \cup Permutations(Commits)
===============================================================================
