-------------------------- MODULE JobManagerProofs --------------------------
(***************************************************************************)
(* Proofs about JobManagerLocks: for any tasks and connections the two     *)
(* mutexes keep the maps free of data races, and each method appears to    *)
(* its callers to happen at once.                                          *)
(***************************************************************************)
EXTENDS JobManagerLocks, TLAPS

-----------------------------------------------------------------------------
(* The mutexes                                                             *)

LEMMA InitIInv == Init => IInv
BY LocksAssumption
   DEF Init, IInv, TypeOK, CallInv, LockInv, RegistryInv, Announced, Inside,
       Exclusive, Mutex, Mutexes, Threads, WriteOps, ReadOps, Over

LEMMA MutexOf == \A p : Mutex(p) \in Mutexes
BY DEF Mutex, Mutexes

\* The conjuncts of LockInv for one goroutine and one mutex.
LockInvFor(p, m) ==
    /\ Announced(p, m) => writer[m] = p
    /\ Inside(p, m) => readers[m] = {}
    /\ op[p] \in ReadOps /\ Mutex(p) = m /\ at[p] \in {"body", "unlock"}
         => p \in readers[m]
    /\ p \in waiting[m] => /\ op[p] \in ReadOps /\ Mutex(p) = m /\ at[p] = "wait"
                           /\ p \notin readers[m]
    /\ p \in readers[m] => op[p] \in ReadOps /\ Mutex(p) = m /\ at[p] # "lock"

LEMMA LockInvIs ==
    /\ LockInv = \A p \in Threads : \A m \in Mutexes : LockInvFor(p, m)
    /\ LockInv' = \A p \in Threads : \A m \in Mutexes : LockInvFor(p, m)'
BY DEF LockInv, LockInvFor

\* Nothing changes for a goroutine that stays where it is.
LEMMA StaysLockInv ==
    ASSUME NEW q, NEW m, LockInvFor(q, m), op'[q] = op[q], at'[q] = at[q],
           writer' = writer, readers' = readers, waiting' = waiting
    PROVE  LockInvFor(q, m)'
<1>1. /\ Announced(q, m)' = Announced(q, m) /\ Inside(q, m)' = Inside(q, m)
      /\ Mutex(q)' = Mutex(q)
  BY DEF Announced, Inside, Exclusive, Mutex
<1> QED BY <1>1 DEF LockInvFor

\* The steps that move one goroutine without touching a mutex, from where it
\* has been let in to where it still is.
LEMMA BodyLockInv ==
    ASSUME NEW p \in Threads, IInv, UNCHANGED lockVars,
           op' = [op EXCEPT ![p] = op'[p]], at' = [at EXCEPT ![p] = at'[p]],
           at[p] \in {"body", "delete"},
           \/ op'[p] = op[p] /\ at'[p] = "unlock"
           \/ op[p] = "RemoveConnection" /\ op'[p] = "GetJobInside" /\ at'[p] = "lock"
    PROVE  LockInv'
<1> SUFFICES ASSUME NEW q \in Threads, NEW m \in Mutexes PROVE LockInvFor(q, m)'
  BY LockInvIs
<1>1. LockInvFor(q, m) /\ writer' = writer /\ readers' = readers /\ waiting' = waiting
  BY LockInvIs DEF IInv, lockVars
<1>2. CASE q # p
  <2>1. op'[q] = op[q] /\ at'[q] = at[q]
    BY <1>2 DEF IInv, TypeOK
  <2> QED BY <1>1, <2>1, StaysLockInv
<1>3. CASE q = p /\ op'[p] = op[p] /\ at'[p] = "unlock"
  <2>1. at[p] = "body" \/ op[p] \notin ReadOps
    BY DEF IInv, CallInv, ReadOps
  <2> QED
    BY <1>1, <1>3, <2>1 DEF LockInvFor, Announced, Inside, Exclusive, Mutex
<1>4. CASE q = p /\ op[p] = "RemoveConnection" /\ op'[p] = "GetJobInside" /\ at'[p] = "lock"
  <2>1. m = "connMu" => writer[m] = p /\ readers[m] = {}
    BY <1>1, <1>4 DEF LockInvFor, Announced, Inside, Exclusive, Mutex, WriteOps
  <2>2. p \notin waiting[m] /\ p \notin readers[m]
    BY <1>1, <1>4 DEF LockInvFor, Announced, Inside, Exclusive, Mutex, ReadOps
  <2> QED
    BY <1>1, <1>4, <2>1, <2>2 DEF LockInvFor, Announced, Inside, Exclusive, Mutex, WriteOps, ReadOps
<1> QED BY <1>2, <1>3, <1>4

LEMMA LockStepLockInv ==
    ASSUME NEW p \in Threads, IInv, Lock(p) \/ LockGranted(p) PROVE LockInv'
<1> SUFFICES ASSUME NEW q \in Threads, NEW m \in Mutexes PROVE LockInvFor(q, m)'
  BY LockInvIs
<1> USE DEF IInv, TypeOK
<1>1. LockInvFor(q, m) /\ Mutex(p) \in Mutexes
  BY LockInvIs, MutexOf
<1>2. UNCHANGED <<readers, waiting, op>> /\ Exclusive(p)
  BY DEF Lock, LockGranted, lockVars
<1>3. \A r \in Threads : r # p => at'[r] = at[r]
  BY DEF Lock, LockGranted, Go
<1>4. CASE Lock(p)
  <2>1. /\ at[p] = "lock" /\ at'[p] = "wait" /\ writer[Mutex(p)] = Nobody
        /\ writer' = [writer EXCEPT ![Mutex(p)] = p]
    BY <1>4 DEF Lock, Go
  <2>2. q # p => ~Announced(q, Mutex(p))
    BY <1>1, <2>1, LockInvIs, LocksAssumption DEF LockInvFor, Threads
  <2> QED
    BY <1>1, <1>2, <1>3, <2>1, <2>2
       DEF LockInvFor, Announced, Inside, Exclusive, Mutex, WriteOps, ReadOps
<1>5. CASE LockGranted(p)
  <2>1. /\ at[p] = "wait" /\ at'[p] = "body" /\ readers[Mutex(p)] = {}
        /\ UNCHANGED writer
    BY <1>5 DEF LockGranted, Go, lockVars
  <2> QED
    BY <1>1, <1>2, <1>3, <2>1
       DEF LockInvFor, Announced, Inside, Exclusive, Mutex, WriteOps, ReadOps
<1> QED BY <1>4, <1>5

LEMMA RLockStepLockInv ==
    ASSUME NEW p \in Threads, IInv, RLock(p) \/ RLockGranted(p) PROVE LockInv'
<1> SUFFICES ASSUME NEW q \in Threads, NEW m \in Mutexes PROVE LockInvFor(q, m)'
  BY LockInvIs
<1> USE DEF IInv, TypeOK
<1>1. LockInvFor(q, m) /\ LockInvFor(p, m) /\ Mutex(p) \in Mutexes
  BY LockInvIs, MutexOf
<1>2. UNCHANGED <<writer, op>> /\ op[p] \in ReadOps
  BY DEF RLock, RLockGranted, lockVars, Exclusive, CallInv, WriteOps, ReadOps, Over
<1>3. \A r \in Threads : r # p => at'[r] = at[r]
  BY DEF RLock, RLockGranted, Go
<1>4. CASE RLock(p)
  <2>1. at[p] = "lock" /\ at'[p] = "wait"
    BY <1>4 DEF RLock, Go
  <2>2. CASE writer[Mutex(p)] = Nobody
    <3>1. /\ readers' = [readers EXCEPT ![Mutex(p)] = @ \cup {p}]
          /\ UNCHANGED waiting
      BY <1>4, <2>2 DEF RLock
    <3>2. m = Mutex(p) => ~Announced(q, m)
      BY <1>1, <2>2, LocksAssumption DEF LockInvFor, Threads
    <3> QED
      BY <1>1, <1>2, <1>3, <2>1, <3>1, <3>2
         DEF LockInvFor, Announced, Inside, Exclusive, Mutex, WriteOps, ReadOps
  <2>3. CASE writer[Mutex(p)] # Nobody
    <3>1. /\ waiting' = [waiting EXCEPT ![Mutex(p)] = @ \cup {p}]
          /\ UNCHANGED readers
      BY <1>4, <2>3 DEF RLock
    <3>2. CASE q # p
      BY <1>1, <1>2, <1>3, <3>1, <3>2
         DEF LockInvFor, Announced, Inside, Exclusive, Mutex
    <3>3. CASE q = p
      <4>1. /\ Mutex(p)' = Mutex(p) /\ ~Exclusive(p)' /\ op'[p] \in ReadOps
            /\ (p \in waiting'[m] => m = Mutex(p)) /\ p \notin readers'[m]
        BY <1>1, <1>2, <2>1, <3>1
           DEF LockInvFor, Exclusive, Mutex, WriteOps, ReadOps
      <4> QED
        BY <1>1, <1>2, <2>1, <3>1, <3>3, <4>1
           DEF LockInvFor, Announced, Inside
    <3> QED BY <3>2, <3>3
  <2> QED BY <2>2, <2>3
<1>5. CASE RLockGranted(p)
  <2>1. /\ at[p] = "wait" /\ at'[p] = "body" /\ p \in readers[Mutex(p)]
        /\ UNCHANGED <<readers, waiting>>
    BY <1>5 DEF RLockGranted, Go, lockVars
  <2>2. CASE q # p
    <3>1. at'[q] = at[q] /\ op'[q] = op[q]
      BY <1>2, <1>3, <2>2
    <3> QED BY <1>1, <1>2, <2>1, <3>1, StaysLockInv
  <2>3. CASE q = p
    <3>1. ~Exclusive(p) /\ ~Exclusive(p)' /\ Mutex(p)' = Mutex(p) /\ op'[p] = op[p]
      BY <1>2 DEF Exclusive, Mutex, WriteOps, ReadOps
    <3>2. /\ Announced(p, m)' = Announced(p, m) /\ Inside(p, m)' = Inside(p, m)
      BY <1>2, <3>1 DEF Announced, Inside
    <3>3. p \notin waiting[m]
      BY <1>1, <2>1 DEF LockInvFor
    <3> QED BY <1>1, <1>2, <2>1, <2>3, <3>1, <3>2, <3>3 DEF LockInvFor
  <2> QED BY <2>2, <2>3
<1> QED BY <1>4, <1>5

LEMMA ReturnLockInv ==
    ASSUME NEW p \in Threads, IInv, Return(p) PROVE LockInv'
<1> SUFFICES ASSUME NEW q \in Threads, NEW m \in Mutexes PROVE LockInvFor(q, m)'
  BY LockInvIs
<1> USE DEF IInv, TypeOK
<1>1. /\ LockInvFor(q, m) /\ LockInvFor(p, m) /\ LockInvFor(p, Mutex(p))
      /\ LockInvFor(q, Mutex(p)) /\ Mutex(p) \in Mutexes
  BY LockInvIs, MutexOf
<1>2. at[p] = "unlock" /\ op[p] \in WriteOps \cup ReadOps
  BY DEF Return, CallInv
<1>3. q # p => op'[q] = op[q] /\ at'[q] = at[q]
  BY DEF Return, Call, Go
<1>4. \/ op[p] # "GetJobInside" /\ at'[p] = "lock" /\ op'[p] # "GetJobInside"
      \/ op[p] = "GetJobInside" /\ op'[p] = "RemoveConnection" /\ at'[p] = "delete"
  <2>1. CASE op[p] = "GetJobInside"
    BY <2>1 DEF Return, Go
  <2>2. CASE op[p] # "GetJobInside" /\ p \in TaskIds
    <3>1. AfterRun(p) # "GetJobInside"
      BY <2>2 DEF AfterRun, CallInv, Return, Over
    <3> QED BY <2>2, <3>1 DEF Return, Call
  <2>3. CASE op[p] # "GetJobInside" /\ p \notin TaskIds
    <3>1. AfterHandle(p) # "GetJobInside"
      BY <1>2, <2>3 DEF AfterHandle, CallInv, Threads, WriteOps, ReadOps
    <3> QED BY <2>3, <3>1 DEF Return, Call
  <2> QED BY <2>1, <2>2, <2>3
<1>5. CASE Exclusive(p)
  <2>1. /\ writer' = [writer EXCEPT ![Mutex(p)] = Nobody]
        /\ readers' = [readers EXCEPT ![Mutex(p)] = waiting[Mutex(p)]]
        /\ waiting' = [waiting EXCEPT ![Mutex(p)] = {}]
    BY <1>5 DEF Return, Unlock
  <2>2. writer[Mutex(p)] = p /\ readers[Mutex(p)] = {}
    BY <1>1, <1>2, <1>5 DEF LockInvFor, Announced, Inside
  <2>3. op[p] \notin ReadOps /\ op[p] # "GetJobInside"
    BY <1>5 DEF Exclusive, WriteOps, ReadOps
  <2>4. CASE q # p
    <3>1. /\ Announced(q, m)' = Announced(q, m) /\ Inside(q, m)' = Inside(q, m)
          /\ Mutex(q)' = Mutex(q) /\ op'[q] = op[q] /\ at'[q] = at[q]
      BY <1>3, <2>4 DEF Announced, Inside, Exclusive, Mutex
    <3>2. CASE m = Mutex(p)
      <4>1. ~Announced(q, m) /\ ~Inside(q, m)
        BY <1>1, <2>2, <2>4, <3>2 DEF LockInvFor, Announced, Inside
      <4>2. readers'[m] = waiting[m] /\ waiting'[m] = {} /\ q \notin readers[m]
        BY <2>1, <2>2, <3>2
      <4> QED BY <1>1, <3>1, <4>1, <4>2 DEF LockInvFor
    <3>3. CASE m # Mutex(p)
      <4>1. writer'[m] = writer[m] /\ readers'[m] = readers[m] /\ waiting'[m] = waiting[m]
        BY <2>1, <3>3
      <4> QED BY <1>1, <3>1, <4>1 DEF LockInvFor
    <3> QED BY <3>2, <3>3
  <2>5. CASE q = p
    <3>1. ~Announced(p, m)' /\ ~Inside(p, m)'
      BY <1>4, <2>3 DEF Announced, Inside
    <3>2. p \notin waiting[m] /\ p \notin readers[m] /\ p \notin waiting[Mutex(p)]
      BY <1>1, <2>3 DEF LockInvFor
    <3>3. p \notin waiting'[m] /\ p \notin readers'[m]
      BY <2>1, <3>2
    <3>4. at'[p] = "lock"
      BY <1>4, <2>3
    <3> QED BY <2>5, <3>1, <3>3, <3>4 DEF LockInvFor
  <2> QED BY <2>4, <2>5
<1>6. CASE ~Exclusive(p)
  <2>1. /\ writer' = writer /\ waiting' = waiting
        /\ readers' = [readers EXCEPT ![Mutex(p)] = @ \ {p}]
    BY <1>6 DEF Return, Unlock
  <2>2. op[p] \in ReadOps
    BY <1>2, <1>6 DEF Exclusive
  <2>3. CASE q # p
    <3>1. /\ Announced(q, m)' = Announced(q, m) /\ Inside(q, m)' = Inside(q, m)
          /\ Mutex(q)' = Mutex(q) /\ op'[q] = op[q] /\ at'[q] = at[q]
      BY <1>3, <2>3 DEF Announced, Inside, Exclusive, Mutex
    <3>2. readers'[m] \subseteq readers[m] /\ (q \in readers[m] => q \in readers'[m])
      BY <1>1, <2>1, <2>3
    <3> QED BY <1>1, <2>1, <3>1, <3>2 DEF LockInvFor
  <2>4. CASE q = p
    <3>1. p \notin waiting[m] /\ p \notin readers'[m]
      BY <1>1, <1>2, <2>1 DEF LockInvFor
    <3>2. CASE op[p] = "GetJobInside"
      <4>1. op'[p] = "RemoveConnection" /\ at'[p] = "delete"
        BY <1>4, <3>2
      <4>2. Mutex(p) = "jobMu" /\ Mutex(p)' = "connMu"
        BY <3>2, <4>1 DEF Mutex
      <4>3. m = "connMu" => writer[m] = p /\ readers[m] = {} /\ readers'[m] = readers[m]
        BY <1>1, <2>1, <3>2, <4>2 DEF LockInvFor, Announced, Inside
      <4>4. (Announced(p, m)' => m = "connMu") /\ (Inside(p, m)' => m = "connMu")
        BY <4>1, <4>2 DEF Announced, Inside
      <4>5. op'[p] \notin ReadOps
        BY <4>1 DEF ReadOps
      <4> QED BY <2>1, <2>4, <3>1, <4>3, <4>4, <4>5 DEF LockInvFor
    <3>3. CASE op[p] # "GetJobInside"
      <4>1. ~Announced(p, m)' /\ ~Inside(p, m)' /\ at'[p] = "lock"
        BY <1>4, <3>3 DEF Announced, Inside
      <4> QED BY <2>1, <2>4, <3>1, <4>1 DEF LockInvFor
    <3> QED BY <3>2, <3>3
  <2> QED BY <2>3, <2>4
<1> QED BY <1>5, <1>6

-----------------------------------------------------------------------------
(* The inductive invariant                                                 *)

LEMMA AfterRunIs ==
    ASSUME NEW t \in TaskIds, IInv, at[t] = "unlock"
    PROVE  /\ AfterRun(t) \in {"RemoveJob", "GetJob", "JobConnectionCount", "done"}
           /\ op[t] = "AddJob" <=> AfterRun(t) = "RemoveJob"
BY DEF AfterRun, IInv, CallInv, Over, Threads

LEMMA AfterHandleIs ==
    ASSUME NEW c \in Conns, IInv, at[c] = "unlock", op[c] # "GetJobInside"
    PROVE  AfterHandle(c) \in {"AddConnection", "refused", "RemoveConnection", "done"}
BY DEF AfterHandle, IInv, CallInv, Over, Threads

LEMMA StepIInv ==
    ASSUME NEW p \in Threads, IInv, Step(p) PROVE IInv'
<1>1. LockInv'
  BY LockStepLockInv, RLockStepLockInv, ReturnLockInv DEF Step
<1>2. TypeOK /\ CallInv /\ RegistryInv /\ Mutex(p) \in Mutexes
  BY MutexOf DEF IInv
<1>3. /\ TaskIds \cap Conns = {} /\ p \in TaskIds \cup Conns
  BY LocksAssumption DEF Threads
<1>4. CASE Lock(p) \/ LockGranted(p) \/ RLock(p) \/ RLockGranted(p)
  <2>1. /\ op' = op /\ currentJobs' = currentJobs /\ answer' = answer
        /\ jobConnectionCount' = jobConnectionCount
    BY <1>4 DEF Lock, LockGranted, RLock, RLockGranted, mapVars
  <2>2. \/ at[p] = "lock" /\ at' = [at EXCEPT ![p] = "wait"]
        \/ at[p] = "wait" /\ at' = [at EXCEPT ![p] = "body"]
    BY <1>4 DEF Lock, LockGranted, RLock, RLockGranted, Go
  <2>3. op[p] \notin Over
    BY <1>2, <1>4
       DEF Lock, LockGranted, RLock, RLockGranted, Exclusive, WriteOps, Over, CallInv
  <2>4. /\ writer' \in [Mutexes -> Threads \cup {Nobody}]
        /\ readers' \in [Mutexes -> SUBSET Threads]
        /\ waiting' \in [Mutexes -> SUBSET Threads]
    BY <1>2, <1>4 DEF Lock, LockGranted, RLock, RLockGranted, lockVars, TypeOK
  <2>5. TypeOK'
    BY <1>2, <2>1, <2>2, <2>4 DEF TypeOK
  <2>6. CallInv'
    BY <1>2, <2>1, <2>2, <2>3 DEF CallInv, TypeOK
  <2>7. RegistryInv'
    BY <1>2, <2>1, <2>2 DEF RegistryInv, TypeOK, Threads
  <2> QED BY <1>1, <2>5, <2>6, <2>7 DEF IInv
<1>5. CASE Return(p)
  <2>1. /\ currentJobs' = currentJobs /\ answer' = answer /\ at[p] = "unlock"
        /\ jobConnectionCount' = jobConnectionCount /\ op[p] \notin Over
    BY <1>2, <1>5 DEF Return, mapVars, CallInv
  <2>2. /\ writer' \in [Mutexes -> Threads \cup {Nobody}]
        /\ readers' \in [Mutexes -> SUBSET Threads]
        /\ waiting' \in [Mutexes -> SUBSET Threads]
    BY <1>2, <1>5 DEF Return, Unlock, TypeOK
  <2>3. PICK m, place : op' = [op EXCEPT ![p] = m] /\ at' = [at EXCEPT ![p] = place]
    BY <1>5 DEF Return, Call, Go
  <2>4. \/ /\ op[p] = "GetJobInside" /\ m = "RemoveConnection" /\ place = "delete"
           /\ p \in Conns
        \/ /\ op[p] # "GetJobInside" /\ place = "lock" /\ p \in TaskIds
           /\ m \in {"RemoveJob", "GetJob", "JobConnectionCount", "done"}
           /\ op[p] = "AddJob" <=> m = "RemoveJob"
        \/ /\ op[p] # "GetJobInside" /\ place = "lock" /\ p \in Conns
           /\ m \in {"AddConnection", "refused", "RemoveConnection", "done"}
    <3>1. op'[p] = m /\ at'[p] = place
      BY <1>2, <2>3 DEF TypeOK
    <3>2. CASE op[p] = "GetJobInside"
      <4>1. op'[p] = "RemoveConnection" /\ at'[p] = "delete"
        BY <1>2, <1>5, <3>2 DEF Return, Go, TypeOK
      <4>2. p \in Conns
        BY <1>2, <1>3, <3>2 DEF CallInv
      <4> QED BY <3>1, <3>2, <4>1, <4>2
    <3>3. CASE op[p] # "GetJobInside" /\ p \in TaskIds
      <4>1. op'[p] = AfterRun(p) /\ at'[p] = "lock"
        BY <1>2, <1>5, <3>3 DEF Return, Call, TypeOK
      <4> QED BY <2>1, <3>1, <3>3, <4>1, AfterRunIs
    <3>4. CASE op[p] # "GetJobInside" /\ p \notin TaskIds
      <4>1. op'[p] = AfterHandle(p) /\ at'[p] = "lock"
        BY <1>2, <1>5, <3>4 DEF Return, Call, TypeOK
      <4> QED BY <1>3, <2>1, <3>1, <3>4, <4>1, AfterHandleIs
    <3> QED BY <3>2, <3>3, <3>4
  <2>5. TypeOK'
    <3>1. m \in WriteOps \cup ReadOps \cup Over /\ place \in {"lock", "delete"}
      BY <2>4 DEF WriteOps, ReadOps, Over
    <3> QED BY <1>2, <2>1, <2>2, <2>3, <3>1 DEF TypeOK
  <2>6. CallInv'
    BY <1>2, <1>3, <2>3, <2>4 DEF CallInv, TypeOK, Threads, Over
  <2>7. RegistryInv'
    BY <1>2, <1>3, <2>1, <2>3, <2>4 DEF RegistryInv, TypeOK, Threads
  <2> QED BY <1>1, <2>5, <2>6, <2>7 DEF IInv
<1> QED BY <1>4, <1>5 DEF Step

\* The parts of TypeOK about data.
DataOK ==
    /\ answer \in [Threads -> BOOLEAN]
    /\ jobConnectionCount \in [DOMAIN jobConnectionCount -> Int]
    /\ DOMAIN jobConnectionCount \subseteq TaskIds

\* What the steps that end a method do to currentJobs.
JobsStep(p) ==
    \/ op[p] = "AddJob" /\ p \in TaskIds /\ currentJobs' = currentJobs \cup {p}
    \/ op[p] = "RemoveJob" /\ p \in TaskIds /\ currentJobs' = currentJobs \ {p}
    \/ op[p] \notin {"AddJob", "RemoveJob"} /\ currentJobs' = currentJobs

\* The steps in a method that change at most one map, and end it.
LEMMA EndBodyIInv ==
    ASSUME NEW p \in Threads, IInv, UNCHANGED lockVars, op' = op,
           at' = [at EXCEPT ![p] = "unlock"],
           at[p] = "body" \/ (op[p] = "RemoveConnection" /\ at[p] = "delete"),
           op[p] \notin Over, DataOK', JobsStep(p)
    PROVE  IInv'
<1>1. TypeOK /\ CallInv /\ RegistryInv
  BY DEF IInv
<1>2. at'[p] = "unlock"
  BY <1>1 DEF TypeOK
<1>3. LockInv'
  BY <1>1, <1>2, BodyLockInv DEF TypeOK
<1>4. TypeOK'
  BY <1>1, <1>2 DEF TypeOK, lockVars, DataOK, JobsStep
<1>5. CallInv'
  BY <1>1, <1>2 DEF CallInv, TypeOK
<1>6. RegistryInv'
  BY <1>1, <1>2 DEF RegistryInv, TypeOK, Threads, JobsStep
<1> QED BY <1>3, <1>4, <1>5, <1>6 DEF IInv

LEMMA SetCountType ==
    ASSUME NEW t \in TaskIds, TypeOK, NEW n \in Int, SetCount(t, n)
    PROVE  /\ jobConnectionCount' \in [DOMAIN jobConnectionCount' -> Int]
           /\ DOMAIN jobConnectionCount' \subseteq TaskIds
BY DEF SetCount, TypeOK

LEMMA CountType ==
    ASSUME TypeOK, NEW t PROVE Count(t) \in Int
BY DEF Count, TypeOK

LEMMA RunIInv ==
    ASSUME NEW t \in TaskIds, IInv, Run(t) PROVE IInv'
<1> t \in Threads
  BY DEF Threads
<1>1. TypeOK
  BY DEF IInv
<1>2. CASE Step(t)
  BY <1>2, StepIInv
<1>3. CASE AddJobBody(t)
  <2>2. /\ UNCHANGED lockVars /\ op' = op /\ at' = [at EXCEPT ![t] = "unlock"]
        /\ at[t] = "body"
        /\ op[t] = "AddJob" /\ currentJobs' = currentJobs \cup {t}
    BY <1>3 DEF AddJobBody, In, Go, mapVars
  <2>3. op[t] \notin Over
    BY <2>2 DEF Over
  <2>4. answer' = answer /\ jobConnectionCount' = jobConnectionCount
    BY <1>3 DEF AddJobBody
  <2>5. DataOK'
    BY <1>1, <2>2, <2>4 DEF DataOK, TypeOK
  <2>6. JobsStep(t)
    BY <2>2 DEF JobsStep
  <2> QED BY <2>2, <2>3, <2>5, <2>6, EndBodyIInv
<1>4. CASE RemoveJobBody(t)
  <2>2. /\ UNCHANGED lockVars /\ op' = op /\ at' = [at EXCEPT ![t] = "unlock"]
        /\ at[t] = "body"
        /\ op[t] = "RemoveJob" /\ currentJobs' = currentJobs \ {t}
    BY <1>4 DEF RemoveJobBody, In, Go, mapVars
  <2>3. op[t] \notin Over
    BY <2>2 DEF Over
  <2>4. answer' = answer /\ jobConnectionCount' = jobConnectionCount
    BY <1>4 DEF RemoveJobBody
  <2>5. DataOK'
    BY <1>1, <2>2, <2>4 DEF DataOK, TypeOK
  <2>6. JobsStep(t)
    BY <2>2 DEF JobsStep
  <2> QED BY <2>2, <2>3, <2>5, <2>6, EndBodyIInv
<1>5. CASE GetJobBody(t, t)
  <2>1. answer' \in [Threads -> BOOLEAN]
    BY <1>1, <1>5 DEF GetJobBody, TypeOK
  <2>2. /\ UNCHANGED lockVars /\ op' = op /\ at' = [at EXCEPT ![t] = "unlock"]
        /\ at[t] = "body"
        /\ op[t] \in {"GetJob", "GetJobInside"} /\ currentJobs' = currentJobs
    BY <1>5 DEF GetJobBody, In, Go, mapVars
  <2>3. op[t] \notin Over
    BY <2>2 DEF Over
  <2>4. jobConnectionCount' = jobConnectionCount
    BY <1>5 DEF GetJobBody, mapVars
  <2>5. DataOK'
    BY <1>1, <2>1, <2>2, <2>4 DEF DataOK, TypeOK
  <2>6. JobsStep(t)
    BY <2>2 DEF JobsStep
  <2> QED BY <2>2, <2>3, <2>5, <2>6, EndBodyIInv
<1>6. CASE JobConnectionCountBody(t)
  <2>1. answer' \in [Threads -> BOOLEAN]
    BY <1>1, <1>6 DEF JobConnectionCountBody, TypeOK
  <2>2. /\ UNCHANGED lockVars /\ op' = op /\ at' = [at EXCEPT ![t] = "unlock"]
        /\ at[t] = "body"
        /\ op[t] = "JobConnectionCount" /\ currentJobs' = currentJobs
    BY <1>6 DEF JobConnectionCountBody, In, Go, mapVars
  <2>3. op[t] \notin Over
    BY <2>2 DEF Over
  <2>4. jobConnectionCount' = jobConnectionCount
    BY <1>6 DEF JobConnectionCountBody, mapVars
  <2>5. DataOK'
    BY <1>1, <2>1, <2>2, <2>4 DEF DataOK, TypeOK
  <2>6. JobsStep(t)
    BY <2>2 DEF JobsStep
  <2> QED BY <2>2, <2>3, <2>5, <2>6, EndBodyIInv
<1> QED BY <1>2, <1>3, <1>4, <1>5, <1>6 DEF Run

LEMMA HandleIInv ==
    ASSUME NEW c \in Conns, IInv, Handle(c) PROVE IInv'
<1> c \in Threads /\ TaskOf[c] \in TaskIds
  BY LocksAssumption DEF Threads
<1>1. TypeOK /\ CallInv /\ RegistryInv
  BY DEF IInv
<1>2. CASE Step(c)
  BY <1>2, StepIInv
<1>3. CASE GetJobBody(c, TaskOf[c])
  <2>1. answer' \in [Threads -> BOOLEAN]
    BY <1>1, <1>3 DEF GetJobBody, TypeOK
  <2>2. /\ UNCHANGED lockVars /\ op' = op /\ at' = [at EXCEPT ![c] = "unlock"]
        /\ at[c] = "body"
        /\ op[c] \in {"GetJob", "GetJobInside"} /\ currentJobs' = currentJobs
    BY <1>3 DEF GetJobBody, In, Go, mapVars
  <2>3. op[c] \notin Over
    BY <2>2 DEF Over
  <2>4. jobConnectionCount' = jobConnectionCount
    BY <1>3 DEF GetJobBody, mapVars
  <2>5. DataOK'
    BY <1>1, <2>1, <2>2, <2>4 DEF DataOK, TypeOK
  <2>6. JobsStep(c)
    BY <2>2 DEF JobsStep
  <2> QED BY <2>2, <2>3, <2>5, <2>6, EndBodyIInv
<1>4. CASE AddConnectionBody(c)
  <2>1. /\ jobConnectionCount' \in [DOMAIN jobConnectionCount' -> Int]
        /\ DOMAIN jobConnectionCount' \subseteq TaskIds
    BY <1>1, <1>4, SetCountType, CountType DEF AddConnectionBody
  <2>2. /\ UNCHANGED lockVars /\ op' = op /\ at' = [at EXCEPT ![c] = "unlock"]
        /\ at[c] = "body"
        /\ op[c] = "AddConnection" /\ currentJobs' = currentJobs /\ answer' = answer
    BY <1>4 DEF AddConnectionBody, In, Go, mapVars
  <2>3. op[c] \notin Over
    BY <2>2 DEF Over
  <2>5. DataOK'
    BY <1>1, <2>1, <2>2 DEF DataOK, TypeOK
  <2>6. JobsStep(c)
    BY <2>2 DEF JobsStep
  <2> QED BY <2>2, <2>3, <2>5, <2>6, EndBodyIInv
<1>5. CASE RemoveConnectionBody(c) /\ TaskOf[c] \in DOMAIN jobConnectionCount
  <2>1. /\ jobConnectionCount' \in [DOMAIN jobConnectionCount' -> Int]
        /\ DOMAIN jobConnectionCount' \subseteq TaskIds
    BY <1>1, <1>5, SetCountType, CountType DEF RemoveConnectionBody
  <2>2. /\ op[c] = "RemoveConnection" /\ at[c] = "body"
        /\ op' = [op EXCEPT ![c] = "GetJobInside"] /\ at' = [at EXCEPT ![c] = "lock"]
        /\ currentJobs' = currentJobs /\ answer' = answer /\ lockVars' = lockVars
    BY <1>5 DEF RemoveConnectionBody, In, Call
  <2>3. op'[c] = "GetJobInside" /\ at'[c] = "lock"
    BY <1>1, <2>2 DEF TypeOK
  <2>4. LockInv'
    BY <2>2, <2>3, BodyLockInv
  <2>5. TypeOK'
    BY <1>1, <2>1, <2>2 DEF TypeOK, lockVars, ReadOps
  <2>6. CallInv'
    BY <1>1, <2>2, LocksAssumption DEF CallInv, TypeOK, Over, Threads
  <2>7. RegistryInv'
    BY <1>1, <2>2, LocksAssumption DEF RegistryInv, TypeOK, Threads
  <2> QED BY <2>4, <2>5, <2>6, <2>7 DEF IInv
<1>6. CASE RemoveConnectionBody(c) /\ TaskOf[c] \notin DOMAIN jobConnectionCount
  <2>2. /\ UNCHANGED lockVars /\ op' = op /\ at' = [at EXCEPT ![c] = "unlock"]
        /\ at[c] = "body"
        /\ op[c] = "RemoveConnection" /\ currentJobs' = currentJobs /\ answer' = answer
    BY <1>6 DEF RemoveConnectionBody, In, Go, mapVars
  <2>3. op[c] \notin Over
    BY <2>2 DEF Over
  <2>4. jobConnectionCount' = jobConnectionCount
    BY <1>6 DEF RemoveConnectionBody
  <2>5. DataOK'
    BY <1>1, <2>2, <2>4 DEF DataOK, TypeOK
  <2>6. JobsStep(c)
    BY <2>2 DEF JobsStep
  <2> QED BY <2>2, <2>3, <2>5, <2>6, EndBodyIInv
<1>7. CASE DeleteEntry(c)
  <2>1. /\ jobConnectionCount' \in [DOMAIN jobConnectionCount' -> Int]
        /\ DOMAIN jobConnectionCount' \subseteq TaskIds
    BY <1>1, <1>7 DEF DeleteEntry, TypeOK
  <2>2. /\ UNCHANGED lockVars /\ op' = op /\ at' = [at EXCEPT ![c] = "unlock"]
        /\ at[c] = "delete"
        /\ op[c] = "RemoveConnection" /\ currentJobs' = currentJobs /\ answer' = answer
    BY <1>7 DEF DeleteEntry, In, Go, mapVars
  <2>3. op[c] \notin Over
    BY <2>2 DEF Over
  <2>5. DataOK'
    BY <1>1, <2>1, <2>2 DEF DataOK, TypeOK
  <2>6. JobsStep(c)
    BY <2>2 DEF JobsStep
  <2> QED BY <2>2, <2>3, <2>5, <2>6, EndBodyIInv
<1> QED BY <1>2, <1>3, <1>4, <1>5, <1>6, <1>7 DEF Handle

LEMMA StutterIInv == ASSUME IInv, UNCHANGED vars PROVE IInv'
BY DEF IInv, TypeOK, CallInv, LockInv, RegistryInv, vars, mapVars, lockVars,
       Announced, Inside, Exclusive, Mutex

LEMMA NextIInv == IInv /\ [Next]_vars => IInv'
BY RunIInv, HandleIInv, StutterIInv DEF Next

\* Type correctness, and what the mutexes and the registry keep true between
\* any two steps of any number of runs and connection handlers.
\* (storage_jobmanager.go)
THEOREM LocksInvariant == Spec => []IInv
<1>1. Init => IInv
  BY InitIInv
<1>2. IInv /\ [Next]_vars => IInv'
  BY NextIInv
<1> QED BY <1>1, <1>2, PTL DEF Spec

-----------------------------------------------------------------------------
(* Data races                                                              *)

LEMMA IInvNoDataRace == IInv => NoDataRace
<1> SUFFICES ASSUME IInv, NEW p \in Threads, NEW q \in Threads, NEW m \in Mutexes,
                    p # q, Uses(p, m), Uses(q, m), Writes(p)
             PROVE  FALSE
  BY DEF NoDataRace
<1>1. LockInvFor(p, m) /\ LockInvFor(q, m) /\ CallInv /\ TypeOK
  BY LockInvIs DEF IInv
<1>2. Inside(p, m) /\ Announced(p, m)
  BY DEF Uses, Writes, Inside, Announced, Exclusive, WriteOps
<1>3. op[q] \in WriteOps \cup ReadOps
  BY <1>1 DEF CallInv, TypeOK, Uses
<1>4. CASE op[q] \in WriteOps
  BY <1>1, <1>2, <1>4 DEF LockInvFor, Announced, Uses, Exclusive
<1>5. CASE op[q] \in ReadOps
  <2>1. at[q] = "body"
    BY <1>1, <1>5 DEF Uses, CallInv, ReadOps
  <2> QED BY <1>1, <1>2, <1>5, <2>1 DEF LockInvFor, Uses
<1> QED BY <1>3, <1>4, <1>5

\* No goroutine writes to a map of the manager while another is in it, for
\* any number of runs and connections.  (jobMu, connMu)
THEOREM MapsAreGuarded == Spec => []NoDataRace
BY LocksInvariant, IInvNoDataRace, PTL

-----------------------------------------------------------------------------
(* Each method appears to happen at once                                   *)

\* c is in the last part of RemoveConnection, or in the GetJob inside.
Busy(c) == Undecided(c) \/ Deciding(c)

\* The entry whose deletion is being decided is there.
EntryInv == \A c \in Conns : Undecided(c) => TaskOf[c] \in DOMAIN jobConnectionCount

LEMMA BusyIsInside ==
    ASSUME NEW c \in Conns, IInv, Busy(c)
    PROVE  c \in Threads /\ writer["connMu"] = c /\ readers["connMu"] = {}
<1>1. c \in Threads /\ "connMu" \in Mutexes
  BY DEF Threads, Mutexes
<1>2. LockInvFor(c, "connMu")
  BY <1>1, LockInvIs DEF IInv
<1>3. Announced(c, "connMu") /\ Inside(c, "connMu")
  BY DEF Busy, Undecided, Deciding, Announced, Inside, Exclusive, Mutex, WriteOps
<1> QED BY <1>1, <1>2, <1>3 DEF LockInvFor

\* There is one mutex, so there is at most one of them.
LEMMA BusyAlone ==
    ASSUME NEW c \in Conns, NEW d \in Conns, IInv, Busy(c), Busy(d) PROVE c = d
BY BusyIsInside

\* Nobody else is in a method that holds connMu.
LEMMA BodyNotBusy ==
    ASSUME NEW p \in Threads, IInv, at[p] = "body",
           op[p] \in {"AddConnection", "RemoveConnection", "JobConnectionCount"},
           NEW c \in Conns
    PROVE  ~Busy(c)
<1> SUFFICES ASSUME Busy(c) PROVE FALSE
  OBVIOUS
<1>1. writer["connMu"] = c /\ readers["connMu"] = {}
  BY BusyIsInside
<1>2. LockInvFor(p, "connMu") /\ Mutex(p) = "connMu"
  BY LockInvIs DEF IInv, Mutex, Mutexes
<1>3. CASE op[p] = "JobConnectionCount"
  BY <1>1, <1>2, <1>3 DEF LockInvFor, ReadOps
<1>4. CASE op[p] # "JobConnectionCount"
  <2>1. writer["connMu"] = p
    BY <1>2, <1>4 DEF LockInvFor, Announced, Exclusive, WriteOps
  <2> QED BY <1>1, <1>4, <2>1 DEF Busy, Undecided, Deciding
<1> QED BY <1>3, <1>4

\* Where a Return takes the goroutine.
LEMMA ReturnIs ==
    ASSUME NEW p \in Threads, IInv, Return(p)
    PROVE  /\ at[p] = "unlock" /\ UNCHANGED <<mapVars, answer>>
           /\ \A q \in Threads : q # p => op'[q] = op[q] /\ at'[q] = at[q]
           /\ \/ /\ op[p] = "GetJobInside" /\ p \in Conns
                 /\ op'[p] = "RemoveConnection" /\ at'[p] = "delete"
              \/ /\ op[p] # "GetJobInside" /\ p \in TaskIds
                 /\ op'[p] = AfterRun(p) /\ at'[p] = "lock"
              \/ /\ op[p] # "GetJobInside" /\ p \in Conns
                 /\ op'[p] = AfterHandle(p) /\ at'[p] = "lock"
<1>1. TypeOK /\ CallInv
  BY DEF IInv
<1>2. at[p] = "unlock" /\ UNCHANGED <<mapVars, answer>>
  BY DEF Return
<1>3. CASE op[p] = "GetJobInside"
  <2>1. op' = [op EXCEPT ![p] = "RemoveConnection"] /\ at' = [at EXCEPT ![p] = "delete"]
    BY <1>3 DEF Return, Go
  <2>2. p \in Conns
    BY <1>1, <1>3 DEF CallInv, Threads
  <2> QED BY <1>1, <1>2, <1>3, <2>1, <2>2 DEF TypeOK
<1>4. CASE op[p] # "GetJobInside" /\ p \in TaskIds
  <2>1. op' = [op EXCEPT ![p] = AfterRun(p)] /\ at' = [at EXCEPT ![p] = "lock"]
    BY <1>4 DEF Return, Call
  <2> QED BY <1>1, <1>2, <1>4, <2>1 DEF TypeOK
<1>5. CASE op[p] # "GetJobInside" /\ p \notin TaskIds
  <2>1. op' = [op EXCEPT ![p] = AfterHandle(p)] /\ at' = [at EXCEPT ![p] = "lock"]
    BY <1>5 DEF Return, Call
  <2> QED BY <1>1, <1>2, <1>5, <2>1 DEF TypeOK, Threads
<1> QED BY <1>3, <1>4, <1>5

\* A step of the mutexes leaves everything but writer, readers, waiting and
\* the place of the goroutine alone.
LockStep(p) == Lock(p) \/ LockGranted(p) \/ RLock(p) \/ RLockGranted(p)

LEMMA LockStepIs ==
    ASSUME NEW p \in Threads, IInv, LockStep(p)
    PROVE  /\ op' = op /\ UNCHANGED <<mapVars, answer>>
           /\ \A q \in Threads : q # p => at'[q] = at[q]
           /\ at[p] \in {"lock", "wait"} /\ at'[p] \in {"wait", "body"}
<1>1. TypeOK
  BY DEF IInv
<1>2. op' = op /\ UNCHANGED <<mapVars, answer>>
  BY DEF LockStep, Lock, LockGranted, RLock, RLockGranted
<1>3. \/ at[p] = "lock" /\ at' = [at EXCEPT ![p] = "wait"]
      \/ at[p] = "wait" /\ at' = [at EXCEPT ![p] = "body"]
  BY DEF LockStep, Lock, LockGranted, RLock, RLockGranted, Go
<1> QED BY <1>1, <1>2, <1>3 DEF TypeOK

LEMMA ReturnNotUndecided ==
    ASSUME NEW p \in Threads, IInv, Return(p) PROVE ~Undecided(p)'
<1>1. \/ op'[p] = "RemoveConnection"
      \/ p \in TaskIds /\ op'[p] = AfterRun(p) /\ at[p] = "unlock"
      \/ /\ p \in Conns /\ op'[p] = AfterHandle(p) /\ at[p] = "unlock"
         /\ op[p] # "GetJobInside"
  BY ReturnIs
<1>2. op'[p] # "GetJobInside"
  BY <1>1, AfterRunIs, AfterHandleIs
<1> QED BY <1>2 DEF Undecided

LEMMA RunEntryInv ==
    ASSUME NEW t \in TaskIds, IInv, EntryInv, Run(t) PROVE EntryInv'
<1>1. t \in Threads /\ \A c \in Conns : c \in Threads /\ c # t
  BY LocksAssumption DEF Threads
<1>2. \A c \in Conns : op'[c] = op[c] /\ at'[c] = at[c]
  <2>1. CASE LockStep(t)
    BY <1>1, <2>1, LockStepIs
  <2>2. CASE Return(t)
    BY <1>1, <2>2, ReturnIs
  <2>3. CASE AddJobBody(t) \/ RemoveJobBody(t) \/ GetJobBody(t, t) \/ JobConnectionCountBody(t)
    BY <1>1, <2>3
       DEF AddJobBody, RemoveJobBody, GetJobBody, JobConnectionCountBody, Go, IInv, TypeOK
  <2> QED BY <2>1, <2>2, <2>3 DEF Run, Step, LockStep
<1>3. jobConnectionCount' = jobConnectionCount
  <2>1. CASE LockStep(t)
    BY <1>1, <2>1, LockStepIs DEF mapVars
  <2>2. CASE Return(t)
    BY <2>2 DEF Return, mapVars
  <2>3. CASE AddJobBody(t) \/ RemoveJobBody(t) \/ GetJobBody(t, t) \/ JobConnectionCountBody(t)
    BY <2>3
       DEF AddJobBody, RemoveJobBody, GetJobBody, JobConnectionCountBody, mapVars
  <2> QED BY <2>1, <2>2, <2>3 DEF Run, Step, LockStep
<1> QED BY <1>2, <1>3 DEF EntryInv, Undecided

\* The parts of a handler's step other than the mutexes.
HandleBody(c) ==
    \/ GetJobBody(c, TaskOf[c]) \/ AddConnectionBody(c)
    \/ RemoveConnectionBody(c) \/ DeleteEntry(c)

LEMMA HandleBodyOthers ==
    ASSUME NEW c \in Conns, IInv, HandleBody(c)
    PROVE  \A q \in Threads : q # c => op'[q] = op[q] /\ at'[q] = at[q] /\ answer'[q] = answer[q]
<1>1. TypeOK /\ c \in Threads
  BY DEF IInv, Threads
<1>2. CASE GetJobBody(c, TaskOf[c])
  BY <1>1, <1>2 DEF GetJobBody, Go, TypeOK
<1>3. CASE AddConnectionBody(c) \/ DeleteEntry(c)
  BY <1>1, <1>3 DEF AddConnectionBody, DeleteEntry, Go, TypeOK
<1>4. CASE RemoveConnectionBody(c)
  <2>1. /\ answer' = answer
        /\ op' = op \/ op' = [op EXCEPT ![c] = "GetJobInside"]
        /\ at' = [at EXCEPT ![c] = "lock"] \/ at' = [at EXCEPT ![c] = "unlock"]
    BY <1>4 DEF RemoveConnectionBody, Go, Call
  <2> QED BY <1>1, <2>1 DEF TypeOK
<1> QED BY <1>2, <1>3, <1>4 DEF HandleBody

LEMMA HandleEntryInv ==
    ASSUME NEW c \in Conns, IInv, EntryInv, Handle(c) PROVE EntryInv'
<1> SUFFICES ASSUME NEW d \in Conns, Undecided(d)'
             PROVE  TaskOf[d] \in DOMAIN jobConnectionCount'
  BY DEF EntryInv
<1>1. c \in Threads /\ d \in Threads /\ TypeOK
  BY DEF Threads, IInv
<1>2. CASE LockStep(c)
  <2>1. op' = op /\ jobConnectionCount' = jobConnectionCount
    BY <1>1, <1>2, LockStepIs DEF mapVars
  <2>2. at[c] # "unlock" /\ (d # c => at'[d] = at[d])
    BY <1>1, <1>2, LockStepIs
  <2> QED BY <2>1, <2>2 DEF EntryInv, Undecided
<1>3. CASE Return(c)
  <2>1. d # c
    BY <1>1, <1>3, ReturnNotUndecided
  <2>2. op'[d] = op[d] /\ at'[d] = at[d] /\ jobConnectionCount' = jobConnectionCount
    BY <1>1, <1>3, <2>1, ReturnIs DEF mapVars
  <2> QED BY <2>2 DEF EntryInv, Undecided
<1>4. CASE HandleBody(c) /\ d # c
  <2>1. op'[d] = op[d] /\ at'[d] = at[d]
    BY <1>1, <1>4, HandleBodyOthers
  <2>2. Undecided(d) /\ Busy(d) /\ TaskOf[d] \in DOMAIN jobConnectionCount
    BY <2>1 DEF EntryInv, Undecided, Busy
  <2>3. CASE GetJobBody(c, TaskOf[c])
    BY <2>2, <2>3 DEF GetJobBody, mapVars
  <2>4. CASE AddConnectionBody(c)
    BY <2>2, <2>4 DEF AddConnectionBody, SetCount
  <2>5. CASE RemoveConnectionBody(c)
    BY <2>2, <2>5 DEF RemoveConnectionBody, SetCount
  <2>6. CASE DeleteEntry(c)
    <3>1. Busy(c)
      BY <2>6 DEF DeleteEntry, Busy, Deciding
    <3> QED BY <1>4, <2>2, <3>1, BusyAlone
  <2> QED BY <1>4, <2>3, <2>4, <2>5, <2>6 DEF HandleBody
<1>5. CASE HandleBody(c) /\ d = c
  <2>1. CASE GetJobBody(c, TaskOf[c]) \/ AddConnectionBody(c) \/ DeleteEntry(c)
    <3>1. at' = [at EXCEPT ![c] = "unlock"]
      BY <2>1 DEF GetJobBody, AddConnectionBody, DeleteEntry, Go
    <3> QED BY <1>1, <1>5, <3>1 DEF Undecided, TypeOK
  <2>2. CASE RemoveConnectionBody(c) /\ TaskOf[c] \in DOMAIN jobConnectionCount
    BY <1>5, <2>2 DEF RemoveConnectionBody, SetCount
  <2>3. CASE RemoveConnectionBody(c) /\ TaskOf[c] \notin DOMAIN jobConnectionCount
    <3>1. at' = [at EXCEPT ![c] = "unlock"]
      BY <2>3 DEF RemoveConnectionBody, Go
    <3> QED BY <1>1, <1>5, <3>1 DEF Undecided, TypeOK
  <2> QED BY <1>5, <2>1, <2>2, <2>3 DEF HandleBody
<1> QED BY <1>2, <1>3, <1>4, <1>5 DEF Handle, Step, LockStep, HandleBody

LEMMA EntryInvariant == Spec => []EntryInv
<1>1. Init => EntryInv
  BY LocksAssumption DEF Init, EntryInv, Undecided, Threads
<1>2. EntryInv /\ UNCHANGED vars => EntryInv'
  BY DEF EntryInv, Undecided, vars, mapVars
<1>3. IInv /\ EntryInv /\ [Next]_vars => EntryInv'
  BY <1>2, RunEntryInv, HandleEntryInv DEF Next
<1> QED BY <1>1, <1>3, LocksInvariant, PTL DEF Spec

LEMMA SameCount ==
    ASSUME jobConnectionCount' = jobConnectionCount,
           \A c \in Conns : /\ Undecided(c)' = Undecided(c)
                            /\ Deciding(c)' = Deciding(c)
                            /\ Deciding(c) => answer'[c] = answer[c]
    PROVE  EffectiveCount' = EffectiveCount
<1>1. \A t : Pending(t)' = Pending(t)
  BY DEF Pending
<1>2. \A c \in Conns : Deciding(c) => Doomed(c)' = Doomed(c)
  BY DEF Doomed, Count
<1>3. Gone' = Gone
  BY <1>2 DEF Gone
<1> QED BY <1>1, <1>3 DEF EffectiveCount

\* With nobody in RemoveConnection's last part the count is the map's.
LEMMA QuietCount ==
    ASSUME TypeOK, \A c \in Conns : ~Busy(c)
    PROVE  EffectiveCount = jobConnectionCount
<1>1. \A t : ~Pending(t)
  BY DEF Pending, Busy
<1>2. Gone = {}
  BY DEF Gone, Busy
<1> QED BY <1>1, <1>2 DEF EffectiveCount, TypeOK

LEMMA QuietCountNext ==
    ASSUME TypeOK', \A c \in Conns : ~Busy(c)'
    PROVE  EffectiveCount' = jobConnectionCount'
<1>1. \A t : ~Pending(t)'
  BY DEF Pending, Busy
<1>2. Gone' = {}
  BY DEF Gone, Busy
<1> QED BY <1>1, <1>2 DEF EffectiveCount, TypeOK

\* A step of a run of a job is invisible, or a step of that run.
LEMMA RunMapped ==
    ASSUME NEW t \in TaskIds, IInv, Run(t)
    PROVE  Use!Next \/ UNCHANGED Use!vars
<1> DEFINE Same(u) == op'[u] = op[u] /\ at'[u] = at[u] /\ answer'[u] = answer[u]
<1>1. t \in Threads /\ TypeOK /\ CallInv /\ RegistryInv
  BY DEF Threads, IInv
<1>2. /\ jobConnectionCount' = jobConnectionCount
      /\ \A q \in Threads : q # t => Same(q)
  <2>1. CASE LockStep(t)
    BY <1>1, <2>1, LockStepIs DEF mapVars
  <2>2. CASE Return(t)
    BY <1>1, <2>2, ReturnIs DEF mapVars
  <2>3. CASE AddJobBody(t) \/ RemoveJobBody(t) \/ GetJobBody(t, t) \/ JobConnectionCountBody(t)
    BY <1>1, <2>3
       DEF AddJobBody, RemoveJobBody, GetJobBody, JobConnectionCountBody, mapVars, Go, TypeOK
  <2> QED BY <2>1, <2>2, <2>3 DEF Run, Step, LockStep
<1>3. \A c \in Conns : Same(c)
  BY <1>2, LocksAssumption DEF Threads
<1>4. \A c \in Conns : /\ Undecided(c)' = Undecided(c) /\ Deciding(c)' = Deciding(c)
                       /\ ConnOf(c)' = ConnOf(c)
  BY <1>3 DEF Undecided, Deciding, ConnOf
<1>5. EffectiveCount' = EffectiveCount /\ Handlers' = Handlers
  <2>1. EffectiveCount' = EffectiveCount
    BY <1>2, <1>3, <1>4, SameCount
  <2> QED BY <1>4, <2>1 DEF Handlers
<1>6. \A u \in TaskIds : u # t => RunOf(u)' = RunOf(u)
  BY <1>2 DEF RunOf, Threads
<1>7. Runs' = [Runs EXCEPT ![t] = RunOf(t)']
  BY <1>6 DEF Runs
<1>8. Runs[t] = RunOf(t)
  BY DEF Runs
<1>9. ASSUME RunOf(t)' = RunOf(t), currentJobs' = currentJobs
      PROVE  UNCHANGED Use!vars
  <2>1. Runs' = Runs
    BY <1>6, <1>9 DEF Runs
  <2> QED BY <1>5, <1>9, <2>1 DEF Use!vars, Use!managerVars
<1>10. CASE LockStep(t)
  <2>1. RunOf(t)' = RunOf(t)
    BY <1>1, <1>10, LockStepIs DEF RunOf
  <2>2. currentJobs' = currentJobs
    BY <1>1, <1>10, LockStepIs DEF mapVars
  <2> QED BY <1>9, <2>1, <2>2
<1>11. CASE Return(t)
  <2>1. op'[t] = AfterRun(t) /\ at'[t] = "lock" /\ at[t] = "unlock"
    BY <1>1, <1>11, ReturnIs, LocksAssumption
  <2>2. /\ op[t] \in {"AddJob", "RemoveJob", "GetJob", "JobConnectionCount"}
        /\ answer'[t] = answer[t] /\ currentJobs' = currentJobs
    BY <1>1, <1>11, <2>1 DEF CallInv, Return, mapVars, Over
  <2>3. RunOf(t)' = RunOf(t)
    BY <2>1, <2>2 DEF RunOf, AfterRun
  <2> QED BY <1>9, <2>2, <2>3
<1>12. CASE AddJobBody(t)
  <2>1. /\ op[t] = "AddJob" /\ at[t] = "body" /\ op'[t] = "AddJob" /\ at'[t] = "unlock"
        /\ currentJobs' = currentJobs \cup {t}
    BY <1>1, <1>12 DEF AddJobBody, In, Go, TypeOK
  <2>2. RunOf(t) = "new" /\ RunOf(t)' = "added"
    BY <2>1 DEF RunOf
  <2> QED
    BY <1>5, <1>7, <1>8, <2>1, <2>2 DEF Use!Next, Use!Run, Use!RunStep, Use!AddJob
<1>13. CASE RemoveJobBody(t)
  <2>1. /\ op[t] = "RemoveJob" /\ at[t] = "body" /\ op'[t] = "RemoveJob"
        /\ at'[t] = "unlock" /\ currentJobs' = currentJobs \ {t}
    BY <1>1, <1>13 DEF RemoveJobBody, In, Go, TypeOK
  <2>2. RunOf(t) = "added" /\ RunOf(t)' = "removed"
    BY <2>1 DEF RunOf
  <2> QED
    BY <1>5, <1>7, <1>8, <2>1, <2>2 DEF Use!Next, Use!Run, Use!RunStep, Use!RemoveJob
<1>14. CASE GetJobBody(t, t)
  <2>1. /\ op[t] = "GetJob" /\ op'[t] = "GetJob" /\ at[t] = "body" /\ at'[t] = "unlock"
        /\ currentJobs' = currentJobs
    BY <1>1, <1>14 DEF GetJobBody, In, Go, TypeOK, CallInv, mapVars
  <2>2. RunOf(t)' = RunOf(t)
    BY <2>1 DEF RunOf
  <2> QED BY <1>9, <2>1, <2>2
<1>15. CASE JobConnectionCountBody(t)
  <2>1. /\ op[t] = "JobConnectionCount" /\ op'[t] = "JobConnectionCount"
        /\ at[t] = "body" /\ at'[t] = "unlock" /\ currentJobs' = currentJobs
        /\ answer'[t] = (Count(t) > 0)
    BY <1>1, <1>15 DEF JobConnectionCountBody, In, Go, TypeOK, mapVars
  <2>2. CASE Count(t) > 0
    <3>1. RunOf(t)' = RunOf(t)
      BY <2>1, <2>2 DEF RunOf
    <3> QED BY <1>9, <2>1, <3>1
  <2>3. CASE ~(Count(t) > 0)
    <3>1. RunOf(t) = "removed" /\ RunOf(t)' = "waited"
      BY <2>1, <2>3 DEF RunOf
    <3>2. t \notin currentJobs
      BY <1>1, <2>1 DEF RegistryInv
    <3>3. EffectiveCount = jobConnectionCount
      BY <1>1, <2>1, BodyNotBusy, QuietCount
    <3>4. Use!JobConnectionCount(t) = Count(t) /\ Count(t) \in Int
      BY <1>1, <3>3, CountType DEF Use!JobConnectionCount, Count
    <3>5. Use!JobDone(t)
      BY <2>3, <3>2, <3>4 DEF Use!JobDone, Use!GetJob
    <3> QED
      BY <1>5, <1>7, <1>8, <2>1, <3>1, <3>5
         DEF Use!Next, Use!Run, Use!RunStep, Use!managerVars
  <2> QED BY <2>2, <2>3
<1> QED
  BY <1>10, <1>11, <1>12, <1>13, <1>14, <1>15 DEF Run, Step, LockStep

LEMMA AnswerGiven ==
    ASSUME NEW c \in Conns, IInv, GetJobBody(c, TaskOf[c])
    PROVE  /\ c \in Threads /\ at[c] = "body" /\ at'[c] = "unlock" /\ op'[c] = op[c]
           /\ op[c] \in {"GetJob", "GetJobInside"} /\ UNCHANGED mapVars
           /\ answer'[c] = (TaskOf[c] \in currentJobs)
BY DEF GetJobBody, In, Go, IInv, TypeOK, Threads

\* RemoveConnection, at the moment the GetJob in it looks.
LEMMA Removes ==
    ASSUME NEW c \in Conns, IInv, EntryInv, op[c] = "GetJobInside",
           GetJobBody(c, TaskOf[c])
    PROVE  Use!RemoveConnection(TaskOf[c])
<1> DEFINE id == TaskOf[c]
           left == jobConnectionCount[id]
           drop == IF ~(id \in currentJobs) /\ left <= 0 THEN {id} ELSE {}
<1>1. TypeOK /\ id \in TaskIds
  BY LocksAssumption DEF IInv
<1>2. /\ at[c] = "body" /\ at'[c] = "unlock" /\ op'[c] = "GetJobInside"
      /\ jobConnectionCount' = jobConnectionCount /\ currentJobs' = currentJobs
      /\ answer'[c] = (id \in currentJobs)
  BY AnswerGiven DEF mapVars
<1>3. Undecided(c) /\ Busy(c) /\ ~Undecided(c)' /\ Deciding(c)' /\ ~Deciding(c)
  BY <1>2 DEF Undecided, Busy, Deciding
<1>4. id \in DOMAIN jobConnectionCount /\ left \in Int
  BY <1>1, <1>3 DEF EntryInv, TypeOK
<1>5. \A d \in Conns : d # c => /\ ~Busy(d)
                                /\ op'[d] = op[d] /\ at'[d] = at[d]
  BY <1>3, BusyAlone, HandleBodyOthers DEF HandleBody, Threads
<1>6. \A d \in Conns : d # c => /\ ~Undecided(d) /\ ~Deciding(d)
                                /\ ~Undecided(d)' /\ ~Deciding(d)'
  BY <1>5 DEF Undecided, Deciding, Busy
<1>7. Gone = {} /\ \A t : Pending(t) <=> t = id
  BY <1>3, <1>6 DEF Gone, Pending
<1>8. EffectiveCount = [t \in DOMAIN jobConnectionCount |->
                          jobConnectionCount[t] + IF t = id THEN 1 ELSE 0]
  BY <1>7 DEF EffectiveCount
<1>9. Gone' = drop /\ \A t : ~Pending(t)'
  <2>1. Doomed(c)' = drop
    BY <1>2, <1>4 DEF Doomed, Count
  <2>2. Gone' = Doomed(c)'
    BY <1>3, <1>6 DEF Gone
  <2> QED BY <1>3, <1>6, <2>1, <2>2 DEF Pending
<1>10. EffectiveCount' = [t \in DOMAIN jobConnectionCount \ drop |-> jobConnectionCount[t]]
  <2>1. \A t \in DOMAIN jobConnectionCount : jobConnectionCount[t] + 0 = jobConnectionCount[t]
    BY <1>1 DEF TypeOK
  <2> QED BY <1>2, <1>9, <2>1 DEF EffectiveCount
<1>11. /\ DOMAIN EffectiveCount = DOMAIN jobConnectionCount
       /\ Use!JobConnectionCount(id) - 1 = left
       /\ \A t \in DOMAIN jobConnectionCount :
            t # id => EffectiveCount[t] = jobConnectionCount[t]
  BY <1>1, <1>4, <1>8 DEF TypeOK, Use!JobConnectionCount
<1>12. EffectiveCount' = [t \in DOMAIN EffectiveCount \ drop |->
                            IF t = id THEN left ELSE EffectiveCount[t]]
  BY <1>10, <1>11
<1> QED
  BY <1>2, <1>11, <1>12 DEF Use!RemoveConnection, Use!GetJob

\* A step of a connection handler is invisible, or a step of that handler.
LEMMA HandleMapped ==
    ASSUME NEW c \in Conns, IInv, EntryInv, Handle(c), TypeOK'
    PROVE  Use!Next \/ UNCHANGED Use!vars
<1> DEFINE id == TaskOf[c]
<1>1. c \in Threads /\ TypeOK /\ CallInv /\ id \in TaskIds
  BY LocksAssumption DEF Threads, IInv
<1>2. \A q \in Threads : q # c => op'[q] = op[q] /\ at'[q] = at[q] /\ answer'[q] = answer[q]
  <2>1. CASE LockStep(c)
    BY <1>1, <2>1, LockStepIs
  <2>2. CASE Return(c)
    BY <1>1, <2>2, ReturnIs
  <2> QED BY <2>1, <2>2, HandleBodyOthers DEF Handle, Step, LockStep, HandleBody
<1>3. Runs' = Runs
  <2>1. \A t \in TaskIds : op'[t] = op[t] /\ at'[t] = at[t] /\ answer'[t] = answer[t]
    BY <1>2, LocksAssumption DEF Threads
  <2>2. \A t \in TaskIds : RunOf(t)' = RunOf(t)
    BY <2>1 DEF RunOf
  <2> QED BY <2>2 DEF Runs
<1>4. \A d \in Conns : d # c => /\ Undecided(d)' = Undecided(d) /\ Deciding(d)' = Deciding(d)
                                /\ ConnOf(d)' = ConnOf(d) /\ answer'[d] = answer[d]
  BY <1>2 DEF Undecided, Deciding, ConnOf, Threads
<1>5. Handlers' = [Handlers EXCEPT ![c] = ConnOf(c)'] /\ Handlers[c] = ConnOf(c)
  BY <1>4 DEF Handlers
<1>6. ASSUME jobConnectionCount' = jobConnectionCount, Undecided(c)' = Undecided(c),
             Deciding(c)' = Deciding(c), Deciding(c) => answer'[c] = answer[c]
      PROVE  EffectiveCount' = EffectiveCount
  <2>1. \A d \in Conns : /\ Undecided(d)' = Undecided(d)
                         /\ Deciding(d)' = Deciding(d)
                         /\ Deciding(d) => answer'[d] = answer[d]
    BY <1>4, <1>6
  <2> QED BY <1>6, <2>1, SameCount
<1>7. ASSUME ConnOf(c)' = ConnOf(c), currentJobs' = currentJobs,
             EffectiveCount' = EffectiveCount
      PROVE  UNCHANGED Use!vars
  <2>1. Handlers' = Handlers
    BY <1>4, <1>7 DEF Handlers
  <2> QED BY <1>3, <1>7, <2>1 DEF Use!vars, Use!managerVars
<1>8. CASE LockStep(c)
  <2>1. /\ op' = op /\ currentJobs' = currentJobs /\ answer' = answer
        /\ jobConnectionCount' = jobConnectionCount
        /\ at[c] \in {"lock", "wait"} /\ at'[c] \in {"wait", "body"}
    BY <1>1, <1>8, LockStepIs DEF mapVars
  <2>2. Undecided(c)' = Undecided(c) /\ Deciding(c)' = Deciding(c)
    BY <2>1 DEF Undecided, Deciding
  <2>3. ConnOf(c)' = ConnOf(c)
    BY <2>1, <2>2 DEF ConnOf
  <2> QED BY <1>6, <1>7, <2>1, <2>2, <2>3
<1>9. CASE Return(c)
  <2>1. /\ currentJobs' = currentJobs /\ jobConnectionCount' = jobConnectionCount
        /\ answer'[c] = answer[c] /\ at[c] = "unlock" /\ op[c] \notin Over
        /\ \/ /\ op[c] = "GetJobInside" /\ op'[c] = "RemoveConnection"
              /\ at'[c] = "delete"
           \/ /\ op[c] # "GetJobInside" /\ op'[c] = AfterHandle(c) /\ at'[c] = "lock"
    BY <1>1, <1>9, ReturnIs, LocksAssumption DEF mapVars, CallInv
  <2>2. CASE op[c] = "GetJobInside"
    <3>1. Undecided(c)' = Undecided(c) /\ Deciding(c)' = Deciding(c)
      BY <2>1, <2>2 DEF Undecided, Deciding
    <3>2. ConnOf(c)' = ConnOf(c)
      BY <2>1, <2>2 DEF ConnOf, Undecided
    <3> QED BY <1>6, <1>7, <2>1, <3>1, <3>2
  <2>3. CASE op[c] # "GetJobInside"
    <3>1. op[c] \in {"GetJob", "AddConnection", "RemoveConnection"}
      BY <1>1, <2>1, <2>3 DEF CallInv, Over
    <3>2. op'[c] = AfterHandle(c) /\ at'[c] = "lock"
      BY <2>1, <2>3
    <3>3. op'[c] # "GetJobInside"
      BY <2>1, <2>3, <3>2, AfterHandleIs
    <3>4. Undecided(c)' = Undecided(c) /\ Deciding(c)' = Deciding(c)
      BY <2>1, <2>3, <3>2, <3>3 DEF Undecided, Deciding
    <3>5. ConnOf(c)' = ConnOf(c)
      BY <2>1, <3>1, <3>2 DEF ConnOf, Undecided, AfterHandle
    <3> QED BY <1>6, <1>7, <2>1, <3>4, <3>5
  <2> QED BY <2>2, <2>3
<1>10. CASE GetJobBody(c, id) /\ op[c] = "GetJob"
  <2>1. /\ at[c] = "body" /\ at'[c] = "unlock" /\ op'[c] = "GetJob"
        /\ currentJobs' = currentJobs /\ jobConnectionCount' = jobConnectionCount
        /\ answer'[c] = (id \in currentJobs)
    BY <1>10, AnswerGiven DEF mapVars
  <2>2. /\ Undecided(c)' = Undecided(c) /\ Deciding(c)' = Deciding(c)
        /\ ~Undecided(c) /\ ~Deciding(c)
    BY <1>10, <2>1 DEF Undecided, Deciding
  <2>3. EffectiveCount' = EffectiveCount
    BY <1>6, <2>1, <2>2
  <2>4. ConnOf(c) = "new" /\ ConnOf(c)' = (IF id \in currentJobs THEN "found" ELSE "refused")
    BY <1>10, <2>1 DEF ConnOf, Undecided
  <2>5. Use!Handle(c)
    BY <1>3, <1>5, <2>1, <2>3, <2>4
       DEF Use!Handle, Use!ConnStep, Use!GetJob, Use!managerVars
  <2> QED BY <2>5 DEF Use!Next
<1>11. CASE GetJobBody(c, id) /\ op[c] = "GetJobInside"
  <2>1. at[c] = "body" /\ at'[c] = "unlock" /\ op'[c] = "GetJobInside"
    BY <1>11, AnswerGiven
  <2>2. ConnOf(c) = "registered" /\ ConnOf(c)' = "gone"
    BY <1>11, <2>1 DEF ConnOf, Undecided
  <2>3. Use!RemoveConnection(id)
    BY <1>11, Removes
  <2>4. Use!Handle(c)
    BY <1>3, <1>5, <2>2, <2>3 DEF Use!Handle, Use!ConnStep
  <2> QED BY <2>4 DEF Use!Next
<1>12. CASE AddConnectionBody(c)
  <2>1. /\ op[c] = "AddConnection" /\ at[c] = "body" /\ op'[c] = "AddConnection"
        /\ at'[c] = "unlock" /\ currentJobs' = currentJobs
        /\ SetCount(id, Count(id) + 1)
    BY <1>1, <1>12 DEF AddConnectionBody, In, Go, TypeOK
  <2>2. \A d \in Conns : ~Busy(d)
    BY <1>1, <2>1, BodyNotBusy
  <2>3. \A d \in Conns : ~Busy(d)'
    BY <1>4, <2>1, <2>2 DEF Busy, Undecided, Deciding
  <2>4. EffectiveCount = jobConnectionCount /\ EffectiveCount' = jobConnectionCount'
    BY <1>1, <2>2, <2>3, QuietCount, QuietCountNext
  <2>5. Use!AddConnection(id)
    BY <2>1, <2>4 DEF Use!AddConnection, Use!JobConnectionCount, SetCount, Count
  <2>6. ConnOf(c) = "found" /\ ConnOf(c)' = "registered"
    BY <2>1 DEF ConnOf, Undecided
  <2>7. Use!Handle(c)
    BY <1>3, <1>5, <2>5, <2>6 DEF Use!Handle, Use!ConnStep
  <2> QED BY <2>7 DEF Use!Next
<1>13. CASE RemoveConnectionBody(c) /\ id \in DOMAIN jobConnectionCount
  <2>1. /\ op[c] = "RemoveConnection" /\ at[c] = "body" /\ op'[c] = "GetJobInside"
        /\ at'[c] = "lock" /\ currentJobs' = currentJobs
        /\ SetCount(id, Count(id) - 1)
    BY <1>1, <1>13 DEF RemoveConnectionBody, In, Call, TypeOK
  <2>2. \A d \in Conns : ~Busy(d)
    BY <1>1, <2>1, BodyNotBusy
  <2>3. EffectiveCount = jobConnectionCount
    BY <1>1, <2>2, QuietCount
  <2>4. Undecided(c)' /\ ~Deciding(c)'
    BY <2>1 DEF Undecided, Deciding
  <2>5. \A d \in Conns : d # c => ~Undecided(d)' /\ ~Deciding(d)'
    BY <1>4, <2>2 DEF Busy
  <2>6. Gone' = {} /\ \A t : Pending(t)' <=> t = id
    BY <2>4, <2>5 DEF Gone, Pending
  <2>7. jobConnectionCount' = [t \in DOMAIN jobConnectionCount |->
                                 IF t = id THEN jobConnectionCount[id] - 1
                                           ELSE jobConnectionCount[t]]
    BY <1>13, <2>1 DEF SetCount, Count
  <2>8. EffectiveCount' = [t \in DOMAIN jobConnectionCount |-> jobConnectionCount[t]]
    <3>1. \A t \in DOMAIN jobConnectionCount : jobConnectionCount[t] \in Int
      BY <1>1 DEF TypeOK
    <3> QED BY <2>6, <2>7, <3>1 DEF EffectiveCount
  <2>9. EffectiveCount' = EffectiveCount
    BY <1>1, <2>3, <2>8 DEF TypeOK
  <2>10. ConnOf(c)' = ConnOf(c)
    BY <2>1, <2>4 DEF ConnOf
  <2> QED BY <1>7, <2>1, <2>9, <2>10
<1>14. CASE RemoveConnectionBody(c) /\ id \notin DOMAIN jobConnectionCount
  <2>1. /\ op[c] = "RemoveConnection" /\ at[c] = "body" /\ op'[c] = "RemoveConnection"
        /\ at'[c] = "unlock" /\ currentJobs' = currentJobs
        /\ jobConnectionCount' = jobConnectionCount
    BY <1>1, <1>14 DEF RemoveConnectionBody, In, Go, TypeOK
  <2>2. /\ Undecided(c)' = Undecided(c) /\ Deciding(c)' = Deciding(c)
        /\ ~Undecided(c) /\ ~Deciding(c)
    BY <2>1 DEF Undecided, Deciding
  <2>3. EffectiveCount' = EffectiveCount /\ EffectiveCount = jobConnectionCount
    <3>1. \A d \in Conns : ~Busy(d)
      BY <1>1, <2>1, BodyNotBusy
    <3>2. EffectiveCount = jobConnectionCount
      BY <1>1, <3>1, QuietCount
    <3> QED BY <1>6, <2>1, <2>2, <3>2
  <2>4. Use!RemoveConnection(id)
    <3> DEFINE left == Use!JobConnectionCount(id) - 1
               keep == DOMAIN EffectiveCount \
                         (IF ~Use!GetJob(id) /\ left <= 0 THEN {id} ELSE {})
    <3>1. keep = DOMAIN jobConnectionCount
      BY <1>14, <2>3
    <3>2. jobConnectionCount = [t \in DOMAIN jobConnectionCount |-> jobConnectionCount[t]]
      BY <1>1 DEF TypeOK
    <3> HIDE DEF left, keep
    <3>3. jobConnectionCount = [t \in keep |-> IF t = id THEN left ELSE jobConnectionCount[t]]
      BY <1>14, <3>1, <3>2
    <3>4. EffectiveCount' = [t \in keep |-> IF t = id THEN left ELSE EffectiveCount[t]]
      BY <2>1, <2>3, <3>3
    <3> USE DEF left, keep
    <3> QED BY <2>1, <3>4 DEF Use!RemoveConnection
  <2>5. ConnOf(c) = "registered" /\ ConnOf(c)' = "gone"
    BY <2>1, <2>2 DEF ConnOf
  <2>6. Use!Handle(c)
    BY <1>3, <1>5, <2>4, <2>5 DEF Use!Handle, Use!ConnStep
  <2> QED BY <2>6 DEF Use!Next
<1>15. CASE DeleteEntry(c)
  <2>1. /\ op[c] = "RemoveConnection" /\ at[c] = "delete" /\ op'[c] = "RemoveConnection"
        /\ at'[c] = "unlock" /\ currentJobs' = currentJobs
        /\ jobConnectionCount' =
             [t \in DOMAIN jobConnectionCount \ Doomed(c) |-> jobConnectionCount[t]]
    BY <1>1, <1>15 DEF DeleteEntry, Go, TypeOK
  <2>2. Deciding(c) /\ Busy(c) /\ ~Undecided(c) /\ ~Busy(c)'
    BY <2>1 DEF Busy, Deciding, Undecided
  <2>3. \A d \in Conns : d # c => ~Undecided(d) /\ ~Deciding(d)
    BY <2>2, BusyAlone DEF Busy
  <2>4. \A d \in Conns : ~Busy(d)'
    BY <1>4, <2>2, <2>3 DEF Busy
  <2>5. EffectiveCount' = jobConnectionCount'
    BY <2>4, QuietCountNext
  <2>6. Gone = Doomed(c) /\ \A t : ~Pending(t)
    BY <2>2, <2>3 DEF Gone, Pending
  <2>7. \A t \in DOMAIN jobConnectionCount : jobConnectionCount[t] + 0 = jobConnectionCount[t]
    BY <1>1 DEF TypeOK
  <2>8. EffectiveCount' = EffectiveCount
    BY <2>1, <2>5, <2>6, <2>7 DEF EffectiveCount
  <2>9. ConnOf(c)' = ConnOf(c)
    BY <2>1 DEF ConnOf, Undecided
  <2> QED BY <1>7, <2>1, <2>8, <2>9
<1>16. GetJobBody(c, id) => op[c] \in {"GetJob", "GetJobInside"}
  BY AnswerGiven
<1> QED
  BY <1>8, <1>9, <1>10, <1>11, <1>12, <1>13, <1>14, <1>15, <1>16
     DEF Handle, Step, LockStep

LEMMA StutterMapped == UNCHANGED vars => UNCHANGED Use!vars
<1> SUFFICES ASSUME UNCHANGED vars PROVE UNCHANGED Use!vars
  OBVIOUS
<1>1. /\ op' = op /\ at' = at /\ answer' = answer /\ currentJobs' = currentJobs
      /\ jobConnectionCount' = jobConnectionCount
  BY DEF vars, mapVars
<1>2. /\ \A t \in TaskIds : RunOf(t)' = RunOf(t)
      /\ \A c \in Conns : /\ ConnOf(c)' = ConnOf(c) /\ Undecided(c)' = Undecided(c)
                          /\ Deciding(c)' = Deciding(c)
  BY <1>1 DEF RunOf, ConnOf, Undecided, Deciding
<1>3. EffectiveCount' = EffectiveCount
  BY <1>1, <1>2, SameCount
<1> QED BY <1>1, <1>2, <1>3 DEF Use!vars, Use!managerVars, Runs, Handlers

LEMMA InitMapped == Init => Use!Init
<1> SUFFICES ASSUME Init PROVE Use!Init
  OBVIOUS
<1>1. IInv /\ TypeOK
  BY InitIInv DEF IInv
<1>2. /\ \A t \in TaskIds : op[t] = "AddJob" /\ at[t] = "lock"
      /\ \A c \in Conns : op[c] = "GetJob" /\ at[c] = "lock"
  BY LocksAssumption DEF Init, Threads
<1>3. \A c \in Conns : ~Busy(c)
  BY <1>2 DEF Busy, Undecided, Deciding
<1>4. EffectiveCount = jobConnectionCount
  BY <1>1, <1>3, QuietCount
<1>5. Runs = [t \in TaskIds |-> "new"] /\ Handlers = [c \in Conns |-> "new"]
  BY <1>2 DEF Runs, Handlers, RunOf, ConnOf, Undecided
<1> QED BY <1>4, <1>5 DEF Init, Use!Init, Use!ManagerInit

\* The manager with its two mutexes, and its callers, do what the manager
\* whose methods happen at once would do, whatever the tasks and connections:
\* the nested GetJob and the two reads of WaitJob cannot be told apart from
\* atomic ones.  (AddJob, RemoveJob, GetJob, AddConnection, RemoveConnection,
\* WaitJob)
THEOREM LocksImplementUse == Spec => ImplementsUse
<1>1. IInv /\ IInv' /\ EntryInv /\ [Next]_vars => [Use!Next]_(Use!vars)
  <2> SUFFICES ASSUME IInv, IInv', EntryInv, [Next]_vars
               PROVE  Use!Next \/ UNCHANGED Use!vars
    OBVIOUS
  <2>1. TypeOK'
    BY DEF IInv
  <2> QED BY <2>1, RunMapped, HandleMapped, StutterMapped DEF Next
<1> QED
  BY <1>1, InitMapped, LocksInvariant, EntryInvariant, PTL
     DEF Spec, ImplementsUse, Use!Spec

-----------------------------------------------------------------------------
(* The goroutines do not all wait for each other                           *)

\* A step in a method that touches no mutex.
BodyStep(p) ==
    /\ UNCHANGED lockVars /\ at[p] \in {"body", "delete"}
    /\ \A q \in Threads : q # p => op'[q] = op[q] /\ at'[q] = at[q]
    /\ \/ op'[p] = op[p] /\ at'[p] = "unlock"
       \/ op[p] = "RemoveConnection" /\ op'[p] = "GetJobInside" /\ at'[p] = "lock"

LEMMA RunIs ==
    ASSUME NEW t \in TaskIds, IInv, Run(t) PROVE Step(t) \/ BodyStep(t)
<1>1. t \in Threads /\ TypeOK
  BY DEF Threads, IInv
<1>2. CASE AddJobBody(t) \/ RemoveJobBody(t) \/ GetJobBody(t, t) \/ JobConnectionCountBody(t)
  <2>1. /\ UNCHANGED lockVars /\ op' = op /\ at' = [at EXCEPT ![t] = "unlock"]
        /\ at[t] = "body"
    BY <1>2 DEF AddJobBody, RemoveJobBody, GetJobBody, JobConnectionCountBody, In, Go
  <2> QED BY <1>1, <2>1 DEF BodyStep, TypeOK
<1> QED BY <1>2 DEF Run

LEMMA HandleIs ==
    ASSUME NEW c \in Conns, IInv, Handle(c) PROVE Step(c) \/ BodyStep(c)
<1>1. c \in Threads /\ TypeOK
  BY DEF Threads, IInv
<1>2. CASE GetJobBody(c, TaskOf[c]) \/ AddConnectionBody(c)
  <2>1. /\ UNCHANGED lockVars /\ op' = op /\ at' = [at EXCEPT ![c] = "unlock"]
        /\ at[c] = "body"
    BY <1>2 DEF GetJobBody, AddConnectionBody, In, Go
  <2> QED BY <1>1, <2>1 DEF BodyStep, TypeOK
<1>3. CASE RemoveConnectionBody(c)
  <2>1. /\ UNCHANGED lockVars /\ at[c] = "body" /\ op[c] = "RemoveConnection"
        /\ \/ op' = [op EXCEPT ![c] = "GetJobInside"] /\ at' = [at EXCEPT ![c] = "lock"]
           \/ op' = op /\ at' = [at EXCEPT ![c] = "unlock"]
    BY <1>3 DEF RemoveConnectionBody, In, Go, Call
  <2> QED BY <1>1, <2>1 DEF BodyStep, TypeOK
<1>4. CASE DeleteEntry(c)
  <2>1. /\ UNCHANGED lockVars /\ op' = op /\ at' = [at EXCEPT ![c] = "unlock"]
        /\ at[c] = "delete"
    BY <1>4 DEF DeleteEntry, Go
  <2> QED BY <1>1, <2>1 DEF BodyStep, TypeOK
<1> QED BY <1>2, <1>3, <1>4 DEF Handle

\* The conjuncts of QueueInv for one mutex.
HeldByAnnouncer(m) == writer[m] # Nobody => Announced(writer[m], m)

WaitsToRead(p, m) == op[p] \in ReadOps /\ Mutex(p) = m /\ at[p] = "wait"

ReadersQueued(m) ==
    \A p \in Threads : WaitsToRead(p, m) => p \in readers[m] \cup waiting[m]

KeptOutBySomebody(m) == waiting[m] # {} => writer[m] # Nobody

LEMMA QueueInvIs ==
    /\ QueueInv = \A m \in Mutexes :
                    HeldByAnnouncer(m) /\ ReadersQueued(m) /\ KeptOutBySomebody(m)
    /\ QueueInv' = \A m \in Mutexes :
                    /\ HeldByAnnouncer(m)' /\ ReadersQueued(m)'
                    /\ KeptOutBySomebody(m)'
BY DEF QueueInv, HeldByAnnouncer, ReadersQueued, WaitsToRead, KeptOutBySomebody

LEMMA InitQueueInv == Init => QueueInv
BY DEF Init, QueueInv, Mutexes

\* What a goroutine that does not move has announced and waits for.
LEMMA SameQueue ==
    ASSUME NEW q, NEW m, op'[q] = op[q], at'[q] = at[q]
    PROVE  /\ Announced(q, m)' = Announced(q, m)
           /\ WaitsToRead(q, m)' = WaitsToRead(q, m)
BY DEF Announced, Exclusive, Mutex, WaitsToRead

LEMMA BodyQueueInv ==
    ASSUME NEW p \in Threads, IInv, QueueInv, BodyStep(p) PROVE QueueInv'
<1> SUFFICES ASSUME NEW m \in Mutexes
             PROVE  HeldByAnnouncer(m)' /\ ReadersQueued(m)' /\ KeptOutBySomebody(m)'
  BY QueueInvIs
<1>1. /\ HeldByAnnouncer(m) /\ ReadersQueued(m) /\ KeptOutBySomebody(m)
      /\ writer[m] \in Threads \cup {Nobody}
  BY QueueInvIs DEF IInv, TypeOK
<1>2. /\ writer' = writer /\ readers' = readers /\ waiting' = waiting
      /\ \A q \in Threads : q # p => op'[q] = op[q] /\ at'[q] = at[q]
  BY DEF BodyStep, lockVars
<1>3. Announced(p, m) => Announced(p, m)'
  BY DEF BodyStep, Announced, Exclusive, Mutex
<1>4. ~WaitsToRead(p, m)'
  BY DEF BodyStep, WaitsToRead
<1>5. HeldByAnnouncer(m)'
  BY <1>1, <1>2, <1>3, SameQueue DEF HeldByAnnouncer
<1>6. ReadersQueued(m)'
  BY <1>1, <1>2, <1>4, SameQueue DEF ReadersQueued
<1> QED BY <1>1, <1>2, <1>5, <1>6 DEF KeptOutBySomebody

LEMMA LockStepQueueInv ==
    ASSUME NEW p \in Threads, IInv, QueueInv, LockStep(p) PROVE QueueInv'
<1> SUFFICES ASSUME NEW m \in Mutexes
             PROVE  HeldByAnnouncer(m)' /\ ReadersQueued(m)' /\ KeptOutBySomebody(m)'
  BY QueueInvIs
<1>1. /\ HeldByAnnouncer(m) /\ ReadersQueued(m) /\ KeptOutBySomebody(m)
      /\ TypeOK /\ writer[m] \in Threads \cup {Nobody} /\ Mutex(p) \in Mutexes
  BY QueueInvIs, MutexOf DEF IInv, TypeOK
<1>2. op' = op /\ \A q \in Threads : q # p => at'[q] = at[q]
  BY LockStepIs
<1>3. \A q \in Threads : Mutex(q)' = Mutex(q) /\ Exclusive(q)' = Exclusive(q)
  BY <1>2 DEF Mutex, Exclusive
<1>4. Announced(p, m) => Announced(p, m)'
  BY <1>2, <1>3, LockStepIs DEF Announced
<1>5. \A q \in Threads : Announced(q, m) => Announced(q, m)'
  BY <1>2, <1>4, SameQueue
<1>6. \A q \in Threads : q # p => WaitsToRead(q, m)' = WaitsToRead(q, m)
  BY <1>2, SameQueue
<1>7. CASE Lock(p)
  <2>1. /\ Exclusive(p) /\ writer' = [writer EXCEPT ![Mutex(p)] = p]
        /\ readers' = readers /\ waiting' = waiting
        /\ writer[Mutex(p)] = Nobody /\ at'[p] = "wait"
    BY <1>1, <1>7 DEF Lock, Go, TypeOK
  <2>2. ~WaitsToRead(p, m)'
    BY <1>2, <2>1 DEF WaitsToRead, Exclusive, WriteOps, ReadOps
  <2>3. ReadersQueued(m)'
    BY <1>1, <1>6, <2>1, <2>2 DEF ReadersQueued
  <2>4. CASE m = Mutex(p)
    <3>1. writer'[m] = p /\ p # Nobody
      BY <1>1, <2>1, <2>4, LocksAssumption DEF TypeOK, Threads
    <3>2. Announced(p, m)'
      BY <1>3, <2>1, <2>4 DEF Announced
    <3> QED BY <2>3, <3>1, <3>2 DEF HeldByAnnouncer, KeptOutBySomebody
  <2>5. CASE m # Mutex(p)
    <3>1. writer'[m] = writer[m]
      BY <2>1, <2>5
    <3> QED BY <1>1, <1>5, <2>1, <2>3, <3>1 DEF HeldByAnnouncer, KeptOutBySomebody
  <2> QED BY <2>4, <2>5
<1>8. CASE LockGranted(p) \/ RLockGranted(p)
  <2>1. /\ writer' = writer /\ readers' = readers /\ waiting' = waiting
        /\ at'[p] = "body"
    BY <1>1, <1>8 DEF LockGranted, RLockGranted, Go, TypeOK, lockVars
  <2>2. ~WaitsToRead(p, m)'
    BY <2>1 DEF WaitsToRead
  <2>3. ReadersQueued(m)'
    BY <1>1, <1>6, <2>1, <2>2 DEF ReadersQueued
  <2> QED BY <1>1, <1>5, <2>1, <2>3 DEF HeldByAnnouncer, KeptOutBySomebody
<1>9. CASE RLock(p)
  <2>1. /\ writer' = writer
        /\ \/ /\ writer[Mutex(p)] = Nobody /\ waiting' = waiting
              /\ readers' = [readers EXCEPT ![Mutex(p)] = @ \cup {p}]
           \/ /\ writer[Mutex(p)] # Nobody /\ readers' = readers
              /\ waiting' = [waiting EXCEPT ![Mutex(p)] = @ \cup {p}]
    BY <1>9 DEF RLock
  <2>2. HeldByAnnouncer(m)'
    BY <1>1, <1>5, <2>1 DEF HeldByAnnouncer
  <2>3. KeptOutBySomebody(m)'
    BY <1>1, <2>1 DEF KeptOutBySomebody, TypeOK
  <2>4. /\ readers[m] \cup waiting[m] \subseteq readers'[m] \cup waiting'[m]
        /\ m = Mutex(p) => p \in readers'[m] \cup waiting'[m]
    BY <1>1, <2>1 DEF TypeOK
  <2>5. WaitsToRead(p, m)' => m = Mutex(p)
    BY <1>3 DEF WaitsToRead
  <2>6. ReadersQueued(m)'
    BY <1>1, <1>6, <2>4, <2>5 DEF ReadersQueued
  <2> QED BY <2>2, <2>3, <2>6
<1> QED BY <1>7, <1>8, <1>9 DEF LockStep

LEMMA ReturnQueueInv ==
    ASSUME NEW p \in Threads, IInv, QueueInv, Return(p) PROVE QueueInv'
<1> SUFFICES ASSUME NEW m \in Mutexes
             PROVE  HeldByAnnouncer(m)' /\ ReadersQueued(m)' /\ KeptOutBySomebody(m)'
  BY QueueInvIs
<1>1. /\ HeldByAnnouncer(m) /\ ReadersQueued(m) /\ KeptOutBySomebody(m)
      /\ TypeOK /\ writer[m] \in Threads \cup {Nobody} /\ Mutex(p) \in Mutexes
      /\ at[p] = "unlock"
  BY QueueInvIs, MutexOf DEF IInv, TypeOK, Return
<1>2. /\ \A q \in Threads : q # p => op'[q] = op[q] /\ at'[q] = at[q]
      /\ at'[p] \in {"lock", "delete"}
  BY ReturnIs
<1>3. /\ \A q \in Threads : q # p => Announced(q, m)' = Announced(q, m)
      /\ \A q \in Threads : WaitsToRead(q, m)' => WaitsToRead(q, m) /\ q # p
  <2>1. ~WaitsToRead(p, m)'
    BY <1>2 DEF WaitsToRead
  <2> QED BY <1>2, <2>1, SameQueue
<1>4. CASE Exclusive(p)
  <2>1. /\ writer' = [writer EXCEPT ![Mutex(p)] = Nobody]
        /\ readers' = [readers EXCEPT ![Mutex(p)] = waiting[Mutex(p)]]
        /\ waiting' = [waiting EXCEPT ![Mutex(p)] = {}]
    BY <1>4 DEF Return, Unlock
  <2>2. CASE m = Mutex(p)
    <3>1. Inside(p, m)
      BY <1>1, <1>4, <2>2 DEF Inside
    <3>2. readers[m] = {}
      BY <3>1, LockInvIs DEF IInv, LockInvFor
    <3>3. writer'[m] = Nobody /\ readers'[m] = waiting[m] /\ waiting'[m] = {}
      BY <1>1, <2>1, <2>2 DEF TypeOK
    <3> QED
      BY <1>1, <1>3, <3>2, <3>3 DEF HeldByAnnouncer, ReadersQueued, KeptOutBySomebody
  <2>3. CASE m # Mutex(p)
    <3>1. writer'[m] = writer[m] /\ readers'[m] = readers[m] /\ waiting'[m] = waiting[m]
      BY <2>1, <2>3
    <3>2. ~Announced(p, m)
      BY <1>4, <2>3 DEF Announced, Exclusive, WriteOps
    <3> QED
      BY <1>1, <1>3, <3>1, <3>2 DEF HeldByAnnouncer, ReadersQueued, KeptOutBySomebody
  <2> QED BY <2>2, <2>3
<1>5. CASE ~Exclusive(p)
  <2>1. /\ writer' = writer /\ waiting' = waiting
        /\ readers' = [readers EXCEPT ![Mutex(p)] = @ \ {p}]
    BY <1>5 DEF Return, Unlock
  <2>2. Announced(p, m) => Announced(p, m)'
    <3>1. Announced(p, m) => op[p] = "GetJobInside" /\ m = "connMu"
      BY <1>5 DEF Announced
    <3>2. op[p] = "GetJobInside" => op'[p] = "RemoveConnection" /\ at'[p] = "delete"
      BY ReturnIs
    <3> QED BY <3>1, <3>2 DEF Announced, Exclusive, Mutex, WriteOps
  <2>3. HeldByAnnouncer(m)'
    BY <1>1, <1>3, <2>1, <2>2 DEF HeldByAnnouncer
  <2>4. \A q \in Threads : q # p /\ q \in readers[m] => q \in readers'[m]
    BY <1>1, <2>1 DEF TypeOK
  <2>5. ReadersQueued(m)'
    BY <1>1, <1>3, <2>1, <2>4 DEF ReadersQueued
  <2> QED BY <1>1, <2>1, <2>3, <2>5 DEF KeptOutBySomebody
<1> QED BY <1>4, <1>5

LEMMA StutterQueueInv == ASSUME IInv, QueueInv, UNCHANGED vars PROVE QueueInv'
BY DEF QueueInv, vars, lockVars, Announced, Exclusive, Mutex

\* A mutex is never left announced by nobody, and a waiting reader is never
\* forgotten: Unlock lets in whom an announced Lock kept out, and the mutex
\* that RemoveConnection holds while it calls GetJob stays its own.
\* (jobMu, connMu)
THEOREM NobodyForgotten == Spec => []QueueInv
<1>1. IInv /\ QueueInv /\ [Next]_vars => QueueInv'
  <2>1. ASSUME IInv, QueueInv, NEW p \in Threads, Step(p) PROVE QueueInv'
    BY <2>1, LockStepQueueInv, ReturnQueueInv DEF Step, LockStep
  <2>2. ASSUME IInv, QueueInv, NEW t \in TaskIds, Run(t) PROVE QueueInv'
    BY <2>1, <2>2, RunIs, BodyQueueInv DEF Threads
  <2>3. ASSUME IInv, QueueInv, NEW c \in Conns, Handle(c) PROVE QueueInv'
    BY <2>1, <2>3, HandleIs, BodyQueueInv DEF Threads
  <2> QED BY <2>2, <2>3, StutterQueueInv DEF Next
<1> QED BY <1>1, InitQueueInv, LocksInvariant, PTL DEF Spec

LEMMA SomebodyCanStep == IInv /\ QueueInv => NoDeadlock
<1> SUFFICES ASSUME IInv, QueueInv, ~Finished, \A p \in Threads : ~CanStep(p)
             PROVE  FALSE
  BY DEF NoDeadlock
<1>1. TypeOK /\ CallInv
  BY DEF IInv
<1>2. \A p \in Threads : at[p] \in {"lock", "wait"}
  BY <1>1 DEF TypeOK, CanStep
<1>3. \A m \in Mutexes : readers[m] = {}
  <2> SUFFICES ASSUME NEW m \in Mutexes, NEW p \in readers[m] PROVE FALSE
    OBVIOUS
  <2>1. p \in Threads
    BY <1>1 DEF TypeOK
  <2>2. op[p] \in ReadOps /\ Mutex(p) = m /\ at[p] = "wait"
    BY <1>2, <2>1, LockInvIs DEF IInv, LockInvFor
  <2>3. ~Exclusive(p)
    BY <2>2 DEF Exclusive, WriteOps, ReadOps
  <2> QED BY <2>1, <2>2, <2>3 DEF CanStep
<1>4. ASSUME NEW p \in Threads, at[p] = "wait"
      PROVE  ~Exclusive(p) /\ writer[Mutex(p)] # Nobody
  <2>1. ~Exclusive(p)
    BY <1>3, <1>4, MutexOf DEF CanStep
  <2>2. op[p] \in ReadOps
    BY <1>1, <1>4, <2>1 DEF TypeOK, CallInv, Exclusive
  <2>3. p \in waiting[Mutex(p)]
    BY <1>3, <1>4, <2>2, MutexOf DEF QueueInv
  <2> QED BY <2>1, <2>3, MutexOf DEF QueueInv
<1>5. writer["jobMu"] = Nobody
  <2> SUFFICES ASSUME writer["jobMu"] # Nobody PROVE FALSE
    OBVIOUS
  <2> DEFINE w == writer["jobMu"]
  <2>1. w \in Threads /\ Announced(w, "jobMu")
    BY <1>1 DEF TypeOK, QueueInv, Mutexes
  <2> QED BY <1>2, <1>4, <2>1 DEF Announced
<1>6. writer["connMu"] = Nobody
  <2> SUFFICES ASSUME writer["connMu"] # Nobody PROVE FALSE
    OBVIOUS
  <2> DEFINE w == writer["connMu"]
  <2>1. w \in Threads /\ Announced(w, "connMu")
    BY <1>1 DEF TypeOK, QueueInv, Mutexes
  <2>2. op[w] = "GetJobInside"
    BY <1>2, <1>4, <2>1 DEF Announced
  <2>3. ~Exclusive(w) /\ op[w] \notin Over /\ Mutex(w) = "jobMu"
    BY <2>2 DEF Exclusive, WriteOps, Over, Mutex
  <2>4. at[w] = "wait"
    BY <1>2, <2>1, <2>3 DEF CanStep
  <2> QED BY <1>4, <1>5, <2>1, <2>3, <2>4
<1>7. \A p : writer[Mutex(p)] = Nobody
  BY <1>5, <1>6 DEF Mutex
<1>8. PICK p \in Threads : op[p] \notin Over
  BY DEF Finished
<1>9. at[p] = "lock"
  BY <1>2, <1>4, <1>7
<1> QED BY <1>7, <1>8, <1>9 DEF CanStep

\* Whatever the tasks and the connections, as long as one goroutine has calls
\* to make some goroutine can go on: the mutex that RemoveConnection takes
\* inside another is never held by somebody who wants the other one.
\* (RemoveConnection, GetJob)
THEOREM SomebodyGoesOn == Spec => []NoDeadlock
BY LocksInvariant, NobodyForgotten, SomebodyCanStep, PTL

=============================================================================
