-------------------------- MODULE JobManagerLocks --------------------------
(***************************************************************************)
(* StorageJobManager as it is written: two maps, each behind a             *)
(* sync.RWMutex, used by the goroutines of job runs and of connection      *)
(* handlers.  A goroutine is in one method (op), at one place of it (at):  *)
(*                                                                         *)
(*   lock     about to call Lock or RLock                                  *)
(*   wait     announced to the mutex, not yet let in                       *)
(*   body     about to access the map                                      *)
(*   unlock   about to release the mutex and return                        *)
(*                                                                         *)
(* RemoveConnection calls GetJob inside, holding connMu, and then deletes  *)
(* the entry (at = "delete").  WaitJob alternates GetJob and               *)
(* JobConnectionCount.                                                     *)
(***************************************************************************)
EXTENDS Integers, FiniteSets

CONSTANTS TaskIds, Conns, TaskOf, Nobody

ASSUME LocksAssumption ==
    /\ TaskOf \in [Conns -> TaskIds]
    /\ TaskIds \cap Conns = {}
    /\ Nobody \notin TaskIds \cup Conns

Threads == TaskIds \cup Conns
Mutexes == {"jobMu", "connMu"}

VARIABLES
    currentJobs, jobConnectionCount,    \* the two maps
    writer,         \* the goroutine that has announced Lock on a mutex
    readers,        \* the goroutines that hold it for reading
    waiting,        \* the goroutines in RLock that an announced Lock keeps out
    op, at,         \* where a goroutine is
    answer          \* what the last GetJob or JobConnectionCount told it

mapVars == <<currentJobs, jobConnectionCount>>
lockVars == <<writer, readers, waiting>>
vars == <<mapVars, lockVars, op, at, answer>>

\* A slip: AddConnection takes the mutex for reading.
WriteOpsShared == {"AddJob", "RemoveJob", "RemoveConnection"}

WriteOps == {"AddJob", "RemoveJob", "AddConnection", "RemoveConnection"}
ReadOps  == {"GetJob", "GetJobInside", "JobConnectionCount"}

\* A goroutine that makes no more calls.
Over == {"done", "refused"}

Exclusive(p) == op[p] \in WriteOps

\* A slip: one mutex guards both maps, though RemoveConnection calls GetJob.
MutexForBoth(p) == IF op[p] \in {"AddJob", "RemoveJob", "GetJob"}
                   THEN "jobMu" ELSE "connMu"

Mutex(p) == IF op[p] \in {"AddJob", "RemoveJob", "GetJob", "GetJobInside"}
            THEN "jobMu" ELSE "connMu"

Init ==
    /\ currentJobs = {}
    /\ jobConnectionCount = [t \in {} |-> 0]
    /\ writer = [m \in Mutexes |-> Nobody]
    /\ readers = [m \in Mutexes |-> {}]
    /\ waiting = [m \in Mutexes |-> {}]
    /\ op = [p \in Threads |-> IF p \in TaskIds THEN "AddJob" ELSE "GetJob"]
    /\ at = [p \in Threads |-> "lock"]
    /\ answer = [p \in Threads |-> FALSE]

Go(p, place) == at' = [at EXCEPT ![p] = place]

Call(p, method) ==
    /\ op' = [op EXCEPT ![p] = method]
    /\ at' = [at EXCEPT ![p] = "lock"]

-----------------------------------------------------------------------------
(* sync.RWMutex: a Lock that has been announced keeps new readers out and  *)
(* waits for those that are in; Unlock lets the waiting readers in.        *)

Lock(p) ==
    /\ at[p] = "lock" /\ Exclusive(p)
    /\ writer[Mutex(p)] = Nobody
    /\ writer' = [writer EXCEPT ![Mutex(p)] = p]
    /\ Go(p, "wait")
    /\ UNCHANGED <<mapVars, readers, waiting, op, answer>>

LockGranted(p) ==
    /\ at[p] = "wait" /\ Exclusive(p)
    /\ readers[Mutex(p)] = {}
    /\ Go(p, "body")
    /\ UNCHANGED <<mapVars, lockVars, op, answer>>

RLock(p) ==
    /\ at[p] = "lock" /\ op[p] \notin Over /\ ~Exclusive(p)
    /\ IF writer[Mutex(p)] = Nobody
       THEN /\ readers' = [readers EXCEPT ![Mutex(p)] = @ \cup {p}]
            /\ UNCHANGED waiting
       ELSE /\ waiting' = [waiting EXCEPT ![Mutex(p)] = @ \cup {p}]
            /\ UNCHANGED readers
    /\ Go(p, "wait")
    /\ UNCHANGED <<mapVars, writer, op, answer>>

RLockGranted(p) ==
    /\ at[p] = "wait" /\ ~Exclusive(p)
    /\ p \in readers[Mutex(p)]
    /\ Go(p, "body")
    /\ UNCHANGED <<mapVars, lockVars, op, answer>>

\* The deferred Unlock or RUnlock.
Unlock(p) ==
    IF Exclusive(p)
    THEN /\ writer' = [writer EXCEPT ![Mutex(p)] = Nobody]
         /\ readers' = [readers EXCEPT ![Mutex(p)] = waiting[Mutex(p)]]
         /\ waiting' = [waiting EXCEPT ![Mutex(p)] = {}]
    ELSE /\ readers' = [readers EXCEPT ![Mutex(p)] = @ \ {p}]
         /\ UNCHANGED <<writer, waiting>>

-----------------------------------------------------------------------------
(* The methods                                                             *)

Count(t) == IF t \in DOMAIN jobConnectionCount THEN jobConnectionCount[t] ELSE 0

SetCount(t, n) ==
    jobConnectionCount' =
        [u \in DOMAIN jobConnectionCount \cup {t} |->
            IF u = t THEN n ELSE jobConnectionCount[u]]

In(p, method) == op[p] = method /\ at[p] = "body"

AddJobBody(t) ==
    /\ In(t, "AddJob")
    /\ currentJobs' = currentJobs \cup {t}
    /\ Go(t, "unlock")
    /\ UNCHANGED <<jobConnectionCount, lockVars, op, answer>>

RemoveJobBody(t) ==
    /\ In(t, "RemoveJob")
    /\ currentJobs' = currentJobs \ {t}
    /\ Go(t, "unlock")
    /\ UNCHANGED <<jobConnectionCount, lockVars, op, answer>>

GetJobBody(p, t) ==
    /\ In(p, "GetJob") \/ In(p, "GetJobInside")
    /\ answer' = [answer EXCEPT ![p] = t \in currentJobs]
    /\ Go(p, "unlock")
    /\ UNCHANGED <<mapVars, lockVars, op>>

\* A slip: WaitJob goes on while the count is zero.
JobConnectionCountBodyZero(t) ==
    /\ In(t, "JobConnectionCount")
    /\ answer' = [answer EXCEPT ![t] = Count(t) >= 0]
    /\ Go(t, "unlock")
    /\ UNCHANGED <<mapVars, lockVars, op>>

JobConnectionCountBody(t) ==
    /\ In(t, "JobConnectionCount")
    /\ answer' = [answer EXCEPT ![t] = Count(t) > 0]
    /\ Go(t, "unlock")
    /\ UNCHANGED <<mapVars, lockVars, op>>

AddConnectionBody(c) ==
    /\ In(c, "AddConnection")
    /\ SetCount(TaskOf[c], Count(TaskOf[c]) + 1)
    /\ Go(c, "unlock")
    /\ UNCHANGED <<currentJobs, lockVars, op, answer>>

\* The first half: up to the call of GetJob.
RemoveConnectionBody(c) ==
    /\ In(c, "RemoveConnection")
    /\ IF TaskOf[c] \in DOMAIN jobConnectionCount
       THEN /\ SetCount(TaskOf[c], Count(TaskOf[c]) - 1)
            /\ Call(c, "GetJobInside")
       ELSE Go(c, "unlock") /\ UNCHANGED <<jobConnectionCount, op>>
    /\ UNCHANGED <<currentJobs, lockVars, answer>>

\* A slip: the entry is deleted with the job, whatever the count.
DeleteEntryWithJob(c) ==
    /\ op[c] = "RemoveConnection" /\ at[c] = "delete"
    /\ jobConnectionCount' =
         [t \in DOMAIN jobConnectionCount \ IF ~answer[c] THEN {TaskOf[c]} ELSE {}
            |-> jobConnectionCount[t]]
    /\ Go(c, "unlock")
    /\ UNCHANGED <<currentJobs, lockVars, op, answer>>

\* The entries that the rest of RemoveConnection deletes.
Doomed(c) == IF ~answer[c] /\ Count(TaskOf[c]) <= 0 THEN {TaskOf[c]} ELSE {}

DeleteEntry(c) ==
    /\ op[c] = "RemoveConnection" /\ at[c] = "delete"
    /\ jobConnectionCount' =
         [t \in DOMAIN jobConnectionCount \ Doomed(c) |-> jobConnectionCount[t]]
    /\ Go(c, "unlock")
    /\ UNCHANGED <<currentJobs, lockVars, op, answer>>

-----------------------------------------------------------------------------
(* The callers                                                             *)

\* What a run calls next; WaitJob sleeps and starts again while the job is
\* there or has connections.
AfterRun(t) ==
    CASE op[t] = "AddJob"    -> "RemoveJob"
      [] op[t] = "RemoveJob" -> "GetJob"
      [] op[t] = "GetJob"    -> IF answer[t] THEN "GetJob"
                                             ELSE "JobConnectionCount"
      [] op[t] = "JobConnectionCount" -> IF answer[t] THEN "GetJob" ELSE "done"

AfterHandle(c) ==
    CASE op[c] = "GetJob" -> IF answer[c] THEN "AddConnection" ELSE "refused"
      [] op[c] = "AddConnection"    -> "RemoveConnection"
      [] op[c] = "RemoveConnection" -> "done"

\* A slip: AddConnection returns without Unlock.
ReturnHolding(p) ==
    /\ at[p] = "unlock"
    /\ IF op[p] = "AddConnection" THEN UNCHANGED lockVars ELSE Unlock(p)
    /\ IF op[p] = "GetJobInside"
       THEN op' = [op EXCEPT ![p] = "RemoveConnection"] /\ Go(p, "delete")
       ELSE Call(p, IF p \in TaskIds THEN AfterRun(p) ELSE AfterHandle(p))
    /\ UNCHANGED <<mapVars, answer>>

Return(p) ==
    /\ at[p] = "unlock"
    /\ Unlock(p)
    /\ IF op[p] = "GetJobInside"
       THEN op' = [op EXCEPT ![p] = "RemoveConnection"] /\ Go(p, "delete")
       ELSE Call(p, IF p \in TaskIds THEN AfterRun(p) ELSE AfterHandle(p))
    /\ UNCHANGED <<mapVars, answer>>

Step(p) ==
    \/ Lock(p) \/ LockGranted(p) \/ RLock(p) \/ RLockGranted(p) \/ Return(p)

Run(t) ==
    \/ Step(t) \/ AddJobBody(t) \/ RemoveJobBody(t) \/ GetJobBody(t, t)
    \/ JobConnectionCountBody(t)

Handle(c) ==
    \/ Step(c) \/ GetJobBody(c, TaskOf[c]) \/ AddConnectionBody(c)
    \/ RemoveConnectionBody(c) \/ DeleteEntry(c)

Finished == \A p \in Threads : op[p] \in Over

Next ==
    \/ \E t \in TaskIds : Run(t)
    \/ \E c \in Conns : Handle(c)
    \/ Finished /\ UNCHANGED vars

Spec == Init /\ [][Next]_vars

\* The Go scheduler runs every goroutine that can run.
FairSpec ==
    /\ Spec
    /\ \A t \in TaskIds : WF_vars(Run(t))
    /\ \A c \in Conns : WF_vars(Handle(c))

-----------------------------------------------------------------------------
(* Properties                                                              *)

TypeOK ==
    /\ currentJobs \subseteq TaskIds
    /\ DOMAIN jobConnectionCount \subseteq TaskIds
    /\ jobConnectionCount \in [DOMAIN jobConnectionCount -> Int]
    /\ writer \in [Mutexes -> Threads \cup {Nobody}]
    /\ readers \in [Mutexes -> SUBSET Threads]
    /\ waiting \in [Mutexes -> SUBSET Threads]
    /\ op \in [Threads -> WriteOps \cup ReadOps \cup Over]
    /\ at \in [Threads -> {"lock", "wait", "body", "delete", "unlock"}]
    /\ answer \in [Threads -> BOOLEAN]

Uses(p, m) == at[p] \in {"body", "delete"} /\ Mutex(p) = m
Writes(p) == op[p] \in {"AddJob", "RemoveJob", "AddConnection", "RemoveConnection"}

\* No goroutine is about to write to a map that another is about to access:
\* Go ends a process that does that to a map.  (jobMu, connMu)
NoDataRace ==
    \A p, q \in Threads : \A m \in Mutexes :
        p # q /\ Uses(p, m) /\ Uses(q, m) => ~Writes(p)

\* p is neither finished nor kept waiting for a mutex.
CanStep(p) ==
    \/ /\ at[p] = "lock" /\ op[p] \notin Over
       /\ Exclusive(p) => writer[Mutex(p)] = Nobody
    \/ /\ at[p] = "wait"
       /\ IF Exclusive(p) THEN readers[Mutex(p)] = {} ELSE p \in readers[Mutex(p)]
    \/ at[p] \in {"body", "delete", "unlock"}

\* The goroutines never all wait for each other, though RemoveConnection
\* waits for jobMu while it holds connMu, and an announced Lock keeps even
\* readers out: as long as one has calls to make, one of them can go on.
\* (jobMu, connMu, RemoveConnection)
NoDeadlock == Finished \/ \E p \in Threads : CanStep(p)

\* Every call returns, though RemoveConnection waits for jobMu while it
\* holds connMu, and WaitJob returns once the connections have gone.
\* (every method)
CallsReturn == \A p \in Threads : <>(op[p] \in Over)

-----------------------------------------------------------------------------
(* The inductive invariant                                                 *)

\* Which methods a goroutine calls, and where it can be in them.
CallInv ==
    /\ \A t \in TaskIds : op[t] \in {"AddJob", "RemoveJob", "GetJob",
                                     "JobConnectionCount", "done"}
    /\ \A c \in Conns : op[c] \in {"GetJob", "AddConnection", "GetJobInside",
                                   "RemoveConnection", "refused", "done"}
    /\ \A p \in Threads : at[p] = "delete" => op[p] = "RemoveConnection"
    /\ \A p \in Threads : op[p] \in Over => at[p] = "lock"

\* p has announced a Lock of m, and has not called Unlock.
Announced(p, m) ==
    \/ Exclusive(p) /\ Mutex(p) = m /\ at[p] # "lock"
    \/ op[p] = "GetJobInside" /\ m = "connMu"

\* p has been let in for writing.
Inside(p, m) ==
    \/ Exclusive(p) /\ Mutex(p) = m /\ at[p] \notin {"lock", "wait"}
    \/ op[p] = "GetJobInside" /\ m = "connMu"

\* A mutex has one writer, and no reader once the writer is in.
LockInv ==
    \A p \in Threads : \A m \in Mutexes :
        /\ Announced(p, m) => writer[m] = p
        /\ Inside(p, m) => readers[m] = {}
        /\ op[p] \in ReadOps /\ Mutex(p) = m /\ at[p] \in {"body", "unlock"}
             => p \in readers[m]
        /\ p \in waiting[m] => /\ op[p] \in ReadOps /\ Mutex(p) = m /\ at[p] = "wait"
                               /\ p \notin readers[m]
        /\ p \in readers[m] => op[p] \in ReadOps /\ Mutex(p) = m /\ at[p] # "lock"

\* A mutex is held by who announced it; a reader that waits is either let in
\* already or kept out by somebody.  (NoDeadlock rests on this.)
QueueInv ==
    \A m \in Mutexes :
        /\ writer[m] # Nobody => Announced(writer[m], m)
        /\ \A p \in Threads :
             op[p] \in ReadOps /\ Mutex(p) = m /\ at[p] = "wait"
               => p \in readers[m] \cup waiting[m]
        /\ waiting[m] # {} => writer[m] # Nobody

\* A job is in the map from the body of AddJob to that of RemoveJob.
RegistryInv ==
    \A t \in TaskIds :
        t \in currentJobs <=> \/ op[t] = "AddJob" /\ at[t] = "unlock"
                              \/ op[t] = "RemoveJob" /\ at[t] # "unlock"

IInv == TypeOK /\ CallInv /\ LockInv /\ RegistryInv

-----------------------------------------------------------------------------
(* The methods, each at the moment it takes effect                         *)

\* c has decremented its count, and GetJob has not yet answered.
Undecided(c) == op[c] = "GetJobInside" /\ at[c] # "unlock"

\* GetJob has answered, and the entry is still there.
Deciding(c) ==
    \/ op[c] = "GetJobInside" /\ at[c] = "unlock"
    \/ op[c] = "RemoveConnection" /\ at[c] = "delete"

\* RemoveConnection takes effect when the GetJob in it looks: until then
\* the decrement has not happened, and from then on the deletion has.
Pending(t) == \E c \in Conns : TaskOf[c] = t /\ Undecided(c)

Gone == UNION {Doomed(c) : c \in {d \in Conns : Deciding(d)}}

EffectiveCount ==
    [t \in DOMAIN jobConnectionCount \ Gone |->
        jobConnectionCount[t] + IF Pending(t) THEN 1 ELSE 0]

RunOf(t) ==
    CASE op[t] = "AddJob" /\ at[t] # "unlock"                     -> "new"
      [] op[t] = "AddJob" /\ at[t] = "unlock"                     -> "added"
      [] op[t] = "RemoveJob" /\ at[t] # "unlock"                  -> "added"
      [] op[t] = "RemoveJob" /\ at[t] = "unlock"                  -> "removed"
      [] op[t] = "JobConnectionCount" /\ at[t] = "unlock" /\ ~answer[t] -> "waited"
      [] op[t] = "done"                                           -> "waited"
      [] OTHER                                                    -> "removed"

ConnOf(c) ==
    CASE op[c] = "GetJob" /\ at[c] # "unlock"                  -> "new"
      [] op[c] = "GetJob" /\ at[c] = "unlock"
           -> IF answer[c] THEN "found" ELSE "refused"
      [] op[c] = "AddConnection" /\ at[c] # "unlock"           -> "found"
      [] op[c] = "AddConnection" /\ at[c] = "unlock"           -> "registered"
      [] op[c] = "RemoveConnection" /\ at[c] \in {"lock", "wait", "body"} -> "registered"
      [] Undecided(c)                                          -> "registered"
      [] op[c] = "refused"                                     -> "refused"
      [] OTHER                                                 -> "gone"

Runs == [t \in TaskIds |-> RunOf(t)]
Handlers == [c \in Conns |-> ConnOf(c)]

Use == INSTANCE JobManagerUse WITH
    jobConnectionCount <- EffectiveCount,
    run <- Runs,
    conn <- Handlers

\* To its callers each method happens at once, somewhere between its call
\* and its return: RemoveConnection acts on what GetJob told it after GetJob
\* has unlocked jobMu, and WaitJob reads the two maps under two locks, one
\* after the other.
ImplementsUse == Use!Spec

=============================================================================
