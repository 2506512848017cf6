---------------------------- MODULE MCRetention ----------------------------
(* Two runs of the job "a".  Each sends one file, under a name of its own   *)
(* (Fresh), or both under the same name (Reused), as the example command of *)
(* the repository's README.md does.                                         *)
EXTENDS Retention, Sequences, TLC

CONSTANTS r1, r2

MCJobOf == [r \in Runs |-> "a"]

MCPathOf == [j \in Jobs |-> [n \in Names |-> "ns/" \o n]]

MCWithGz == [p \in Joined |-> p \o ".gz"]

MCPaths == Joined \cup {MCWithGz[p] : p \in Joined}

MCMaxAge == [j \in Jobs |-> 1]

Fresh == [r \in Runs |-> IF r = r1 THEN {"d1"} ELSE {"e1"}]

Reused == [r \in Runs |-> {"main"}]

=============================================================================
