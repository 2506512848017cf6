------------------------------ MODULE MCBackup ------------------------------
(* Instances of Backup: one task, and three or two of its connections.      *)
EXTENDS BackupDelivery, TLC

CONSTANTS t1, c1, c2, c3

OneTask == c1 :> t1 @@ c2 :> t1 @@ c3 :> t1

SmallTask == c1 :> t1 @@ c2 :> t1

Symmetry == Permutations({c1, c2, c3})

=============================================================================
