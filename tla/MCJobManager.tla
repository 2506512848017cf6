---------------------------- MODULE MCJobManager ----------------------------
(* Two tasks, and two connections of the first.                             *)
EXTENDS JobManagerLocks, TLC

CONSTANTS t1, t2, c1, c2

MCTaskOf == c1 :> t1 @@ c2 :> t1

=============================================================================
