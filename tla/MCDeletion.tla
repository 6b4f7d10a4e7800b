------------------------------ MODULE MCDeletion ------------------------------
(* Instances of Deletion for TLC.                                             *)
EXTENDS Deletion, TLC

CONSTANTS u1, u2, q1, q2, w1, w2

OneUser == {u1}
TwoUsers == {u1, u2}
TwoRequests == {q1, q2}
TwoLoops == {w1, w2}
===============================================================================
