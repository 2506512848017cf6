--------------------------- MODULE JobManagerUse ---------------------------
(***************************************************************************)
(* What StorageJobManager promises its callers: each method happens at     *)
(* once.  A job run calls AddJob, RemoveJob and WaitJob; a connection      *)
(* handler calls GetJob and, if the task is there, AddConnection and       *)
(* RemoveConnection.                                                       *)
(***************************************************************************)
EXTENDS StorageJobManager

CONSTANTS
    Conns,          \* connections
    TaskOf          \* the task of a connection

VARIABLES
    run,            \* how far the run of a task has come
    conn            \* how far the handler of a connection has come

vars == <<managerVars, run, conn>>

Init ==
    /\ ManagerInit
    /\ run = [t \in TaskIds |-> "new"]
    /\ conn = [c \in Conns |-> "new"]

RunStep(t, from, to) ==
    /\ run[t] = from
    /\ run' = [run EXCEPT ![t] = to]
    /\ UNCHANGED conn

ConnStep(c, from, to) ==
    /\ conn[c] = from
    /\ conn' = [conn EXCEPT ![c] = to]
    /\ UNCHANGED run

Run(t) ==
    \/ RunStep(t, "new", "added") /\ AddJob(t)
    \/ RunStep(t, "added", "removed") /\ RemoveJob(t)
    \/ RunStep(t, "removed", "waited") /\ JobDone(t) /\ UNCHANGED managerVars

Handle(c) ==
    \/ /\ ConnStep(c, "new", IF GetJob(TaskOf[c]) THEN "found" ELSE "refused")
       /\ UNCHANGED managerVars
    \/ ConnStep(c, "found", "registered") /\ AddConnection(TaskOf[c])
    \/ ConnStep(c, "registered", "gone") /\ RemoveConnection(TaskOf[c])

Next == (\E t \in TaskIds : Run(t)) \/ (\E c \in Conns : Handle(c))

Spec == Init /\ [][Next]_vars

=============================================================================
