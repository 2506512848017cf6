------------------------- MODULE StorageJobManager -------------------------
(***************************************************************************)
(* The registry of the storage server: which tasks are running             *)
(* (currentJobs) and how many connection handlers work for each of them    *)
(* (jobConnectionCount).  Every method is one critical section, so it is   *)
(* one atomic operation here:                                              *)
(*   - AddJob, RemoveJob and GetJob hold jobMu;                            *)
(*   - AddConnection and JobConnectionCount hold connMu;                   *)
(*   - RemoveConnection holds connMu throughout and calls GetJob inside;   *)
(*     it takes effect at that GetJob, since nobody can read the counter   *)
(*     between the decrement and the unlock.                               *)
(*                                                                         *)
(* The Go map currentJobs is represented by its set of keys: the record    *)
(* stored under a key never changes between AddJob and RemoveJob.          *)
(***************************************************************************)
EXTENDS Integers

CONSTANT TaskIds        \* the ids of the task runs (uuids, never reused)

VARIABLES
    currentJobs,        \* keys of the map currentJobs
    jobConnectionCount  \* the map jobConnectionCount: a partial function

managerVars == <<currentJobs, jobConnectionCount>>

ManagerInit ==
    /\ currentJobs = {}
    /\ jobConnectionCount = [id \in {} |-> 0]

ManagerTypeOK ==
    /\ currentJobs \subseteq TaskIds
    /\ DOMAIN jobConnectionCount \subseteq TaskIds
    /\ jobConnectionCount \in [DOMAIN jobConnectionCount -> Int]

-----------------------------------------------------------------------------
GetJob(id) == id \in currentJobs

JobConnectionCount(id) ==
    IF id \in DOMAIN jobConnectionCount THEN jobConnectionCount[id] ELSE 0

\* Slips a change to WaitJob could make: wait for the wrong count, or for
\* the job to be removed only.
JobDoneIgnoringConnections(id) == ~GetJob(id)

JobDoneNegativeCount(id) == ~GetJob(id) /\ JobConnectionCount(id) < 0

\* The condition on which WaitJob returns; until it holds, WaitJob sleeps
\* and looks again.  The two reads take two different locks, but a removed
\* task is never added again, so GetJob's answer is stable once it is "no".
JobDone(id) == ~GetJob(id) /\ JobConnectionCount(id) <= 0

AddJob(id) ==
    /\ currentJobs' = currentJobs \cup {id}
    /\ UNCHANGED jobConnectionCount

RemoveJob(id) ==
    /\ currentJobs' = currentJobs \ {id}
    /\ UNCHANGED jobConnectionCount

AddConnection(id) ==
    /\ jobConnectionCount' =
         [t \in DOMAIN jobConnectionCount \cup {id} |->
            IF t = id THEN JobConnectionCount(id) + 1
                      ELSE jobConnectionCount[t]]
    /\ UNCHANGED currentJobs

\* The entry is deleted only here, and only if the task is already gone.
RemoveConnection(id) ==
    LET left == JobConnectionCount(id) - 1
        keep == DOMAIN jobConnectionCount \
                  (IF ~GetJob(id) /\ left <= 0 THEN {id} ELSE {})
    IN  /\ jobConnectionCount' =
             [t \in keep |-> IF t = id THEN left ELSE jobConnectionCount[t]]
        /\ UNCHANGED currentJobs

=============================================================================
