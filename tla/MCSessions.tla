----------------------------- MODULE MCSessions -----------------------------
(***************************************************************************)
(* A small instance of Sessions for TLC.  The requests are interchangeable.*)
(***************************************************************************)
EXTENDS Sessions, TLC

CONSTANTS r1, r2

(* Each set holds the handlers whose races one hazard is about: rotation   *)
(* against logout and against deactivation, the second factor at login     *)
(* against each way of changing it, recovery codes used twice, and setting *)
(* the second factor up while a first factor is being checked.             *)
MCWorkloads ==
    {{"exchange", "refresh", "logout"},
     {"login", "refresh", "delete", "serve"},
     {"login", "mfa", "regenerate"},
     {"login", "mfa", "activate"},
     {"login", "mfa", "disable"},
     {"exchange", "mfa", "recover", "disable"},
     {"exchange", "enroll", "activate", "disable"}}

MCRequests == {r1, r2}
RequestSymmetry == Permutations(MCRequests)
=============================================================================
