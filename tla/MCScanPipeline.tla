---------------------------- MODULE MCScanPipeline ----------------------------
(* Instances of ScanPipeline for TLC.                                         *)
EXTENDS ScanPipeline, TLC

CONSTANT i1

Listed(i, n) == [identity |-> i, row |-> n]

OneIdentity == {i1}

\* Nothing; one finding twice; one that is refused.
SomeLists == {{}, {Listed(i1, 1), Listed(i1, 2)}, {Listed(Invalid, 1)}}
===============================================================================
