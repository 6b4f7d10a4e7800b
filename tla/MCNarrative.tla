----------------------------- MODULE MCNarrative ------------------------------
(* Instances of Narrative for TLC.                                            *)
EXTENDS Narrative, TLC

CONSTANTS e1, e2, r1, r2, r3, t1, t2

TwoExecutions == {e1, e2}
ThreeRequests == {r1, r2, r3}
TwoTexts == {t1, t2}

Interchangeable == Permutations(Requests) \cup Permutations(Executions) \cup Permutations(Texts)
===============================================================================
