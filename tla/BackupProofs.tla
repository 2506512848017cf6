---------------------------- MODULE BackupProofs ----------------------------
(***************************************************************************)
(* The invariants of Backup, proved for any number of tasks and            *)
(* connections and any capacity of the channel.  IInv is inductive: every  *)
(* conjunct has a lemma that says a step from IInv preserves it, with one  *)
(* proof step for every action that can disturb it.                        *)
(***************************************************************************)
EXTENDS Backup, SequenceTheorems, FiniteSetTheorems, TLAPS

-----------------------------------------------------------------------------
(* Type correctness                                                        *)

\* What the encoder may see of metadata.Files is a sequence of files, one
\* of them possibly zeroed.
LEMMA SeenFilesType ==
    ASSUME NEW t \in TaskIds, files \in [TaskIds -> Seq(Conns)],
           NEW seen \in SeenFiles(t)
    PROVE  seen \in Seq(Conns \cup {NoFile})
<1> DEFINE S == Conns \cup {NoFile}
           s == files[t]
           n == Len(s)
<1>1. s \in Seq(Conns) /\ s \in Seq(S)
  BY SeqMonotonic
<1>2. n \in Nat /\ \A i \in 1..n : s[i] \in S
  BY <1>1, LenProperties, ElementOfSeq
<1>3. CASE seen = s
  BY <1>1, <1>3
<1>4. CASE n > 0 /\ seen = SubSeq(s, 1, n - 1)
  <2>1. 1 \in Int /\ n - 1 \in Int /\ \A i \in 1..(n - 1) : s[i] \in S
    BY <1>2
  <2> QED  BY <1>4, <2>1, SubSeqProperties
<1>5. CASE n > 0 /\ seen = [s EXCEPT ![n] = NoFile]
  <2>1. n \in 1..n /\ NoFile \in S
    BY <1>2, <1>5
  <2> QED  BY <1>1, <1>5, <2>1, ExceptSeq
<1> QED
  BY <1>3, <1>4, <1>5 DEF SeenFiles

LEMMA InitTypeOK == Init => TypeOK
<1> SUFFICES ASSUME Init PROVE TypeOK
  OBVIOUS
<1>1. <<>> \in Seq(Conns) /\ Len(<<>>) = 0 /\ <<>> \in Seq(Conns \cup {NoFile})
  BY EmptySeq
<1>2. ManagerTypeOK
  BY DEF Init, StorageInit, ManagerInit, ManagerTypeOK
<1>3. StorageTypeOK
  <2>1. \A t \in TaskIds : fileAddChan[t] = <<>>
    BY DEF Init, StorageInit
  <2>2. \A t \in TaskIds : Len(fileAddChan[t]) <= ChanCap
    <3> TAKE t \in TaskIds
    <3>1. fileAddChan[t] = <<>>
      BY <2>1
    <3> QED
      BY <1>1, <3>1, StorageAssumption DEF StorageAssumption
  <2>3. fileAddChan \in [TaskIds -> Seq(Conns)]
    BY <1>1 DEF Init, StorageInit
  <2>4. /\ client \in [Conns -> ClientState]
        /\ conn \in [Conns -> ConnState]
        /\ disk \in [Conns -> {"absent", "short", "complete"}]
    BY DEF Init, StorageInit, ClientState, ConnState, Registered
  <2> QED
    BY <1>2, <2>2, <2>3, <2>4 DEF Init, StorageInit, StorageTypeOK
<1>4. JobTypeOK
  BY <1>1 DEF Init, JobInit, JobTypeOK, RunState, SavedRecord
<1> QED
  BY <1>3, <1>4 DEF TypeOK

LEMMA NextTypeOK == TypeOK /\ [Next]_vars => TypeOK'
<1> SUFFICES ASSUME TypeOK, [Next]_vars PROVE TypeOK'
  OBVIOUS
<1> USE DEF TypeOK, StorageTypeOK, JobTypeOK, ManagerTypeOK
<1>a. TaskOf \in [Conns -> TaskIds] /\ ChanCap \in Nat
  BY StorageAssumption DEF StorageAssumption
<1>1. CASE UNCHANGED vars
  BY <1>1 DEF vars, managerVars, storageVars, jobVars
<1>2. CASE AcceptError /\ UNCHANGED jobVars
  BY <1>2 DEF AcceptError, managerVars, jobVars
<1>3. ASSUME NEW t \in TaskIds, RunStep(t) PROVE TypeOK'
  <2> USE DEF managerVars, storageVars, RunState
  <2>1. CASE GetScriptFails(t)
    BY <2>1 DEF GetScriptFails
  <2>2. CASE Start(t)
    BY <2>2 DEF Start, AddJob
  <2>3. CASE RemoveFromStorage(t)
    BY <2>3 DEF RemoveFromStorage, RemoveJob
  <2>4. CASE WaitJob(t)
    BY <2>4 DEF WaitJob
  <2>5. CASE CloseChan(t)
    BY <2>5 DEF CloseChan
  <2>6. CASE SaveCreates(t)
    <3>1. /\ saved[t] \in SavedRecord
          /\ [saved[t] EXCEPT !.state = "partial"] \in SavedRecord
      BY DEF SavedRecord
    <3>2. saved' \in [TaskIds -> SavedRecord]
      BY <2>6, <3>1 DEF SaveCreates
    <3> QED
      BY <2>6, <3>2 DEF SaveCreates
  <2>7. CASE SaveWrites(t)
    <3>1. \A seen \in SeenFiles(t) :
             [state |-> "written", files |-> seen] \in SavedRecord
      BY SeenFilesType DEF SavedRecord
    <3>2. saved' \in [TaskIds -> SavedRecord]
      BY <2>7, <3>1 DEF SaveWrites
    <3> QED
      BY <2>7, <3>2 DEF SaveWrites
  <2>8. CASE Receive(t)
    <3>1. fileAddChan[t] \in Seq(Conns) /\ fileAddChan[t] # <<>>
      BY <2>8 DEF Receive
    <3>2. /\ Head(fileAddChan[t]) \in Conns
          /\ Tail(fileAddChan[t]) \in Seq(Conns)
          /\ Len(Tail(fileAddChan[t])) = Len(fileAddChan[t]) - 1
      BY <3>1, HeadTailProperties
    <3>3. files' \in [TaskIds -> Seq(Conns)]
      BY <2>8, <3>2 DEF Receive
    <3>4. fileAddChan' \in [TaskIds -> Seq(Conns)]
      BY <2>8, <3>2 DEF Receive
    <3>5. ASSUME NEW u \in TaskIds PROVE Len(fileAddChan'[u]) <= ChanCap
      <4>1. Len(fileAddChan[u]) \in Nat /\ Len(fileAddChan[u]) <= ChanCap
        BY LenProperties
      <4> QED
        BY <1>a, <2>8, <3>2, <4>1 DEF Receive
    <3> QED
      BY <2>8, <3>3, <3>4, <3>5 DEF Receive
  <2>9. CASE Added(t)
    BY <2>9 DEF Added
  <2>10. CASE UpdaterStops(t)
    BY <2>10 DEF UpdaterStops
  <2>11. CASE ScriptSucceeds(t)
    BY <2>11 DEF ScriptSucceeds
  <2>12. CASE ScriptFails(t)
    BY <2>12 DEF ScriptFails
  <2> QED
    BY <1>3, <2>1, <2>2, <2>3, <2>4, <2>5, <2>6, <2>7, <2>8, <2>9, <2>10,
       <2>11, <2>12 DEF RunStep, RunJob, Updater
<1>4. ASSUME NEW c \in Conns, ConnStep(c) PROVE TypeOK'
  <2> USE DEF managerVars, jobVars, ConnState, Registered
  <2>1. CASE Accept(c) /\ UNCHANGED jobVars
    BY <2>1 DEF Accept
  <2>2. CASE LookupJob(c) /\ UNCHANGED jobVars
    BY <2>2 DEF LookupJob
  <2>3. CASE ReadTaskIdFails(c) /\ UNCHANGED jobVars
    BY <2>3 DEF ReadTaskIdFails
  <2>4. CASE Register(c) /\ UNCHANGED jobVars
    BY <1>a, <2>4 DEF Register, AddConnection, JobConnectionCount
  <2>5. CASE NoFilename(c) /\ UNCHANGED jobVars
    BY <2>5 DEF NoFilename
  <2>6. CASE OpenFile(c) /\ UNCHANGED jobVars
    BY <2>6 DEF OpenFile
  <2>7. CASE ReadContentFails(c) /\ UNCHANGED jobVars
    BY <2>7 DEF ReadContentFails
  <2>8. CASE ReceiveContent(c) /\ UNCHANGED jobVars
    BY <2>8 DEF ReceiveContent
  <2>9. CASE SendMetadata(c) /\ UNCHANGED jobVars
    <3> DEFINE t == TaskOf[c]
    <3>1. t \in TaskIds /\ fileAddChan[t] \in Seq(Conns)
      BY <1>a
    <3>2. fileAddChan' \in [TaskIds -> Seq(Conns)]
      BY <2>9, <3>1 DEF SendMetadata
    <3>3. ASSUME NEW u \in TaskIds PROVE Len(fileAddChan'[u]) <= ChanCap
      BY <1>a, <2>9, <3>1, LenProperties DEF SendMetadata
    <3>4. conn' \in [Conns -> ConnState]
      BY <2>9 DEF SendMetadata
    <3> QED
      BY <2>9, <3>2, <3>3, <3>4 DEF SendMetadata
  <2>10. CASE SendPanics(c) /\ UNCHANGED jobVars
    BY <2>10 DEF SendPanics
  <2>11. CASE Leave(c) /\ UNCHANGED jobVars
    <3>1. ManagerTypeOK'
      BY <1>a, <2>11 DEF Leave, RemoveConnection, JobConnectionCount
    <3> QED
      BY <2>11, <3>1 DEF Leave
  <2>12. CASE Dial(c) \/ Script(c) \/ LoseConnection(c)
    BY <2>12 DEF Dial, Script, SendHeader, SendContent, BreakConnection, LoseConnection,
       ClientStep, ClientState
  <2> QED
    BY <1>4, <2>1, <2>2, <2>3, <2>4, <2>5, <2>6, <2>7, <2>8, <2>9, <2>10,
       <2>11, <2>12 DEF ConnStep, ServeStep, HandleConnection
<1> QED
  BY <1>1, <1>2, <1>3, <1>4 DEF Next, Step

\* Every variable keeps its type; no channel ever holds more than ChanCap.
THEOREM TypeCorrect == Spec => []TypeOK
<1>1. Init => TypeOK
  BY InitTypeOK
<1>2. TypeOK /\ [Next]_vars => TypeOK'
  BY NextTypeOK
<1> QED
  BY <1>1, <1>2, PTL DEF Spec

-----------------------------------------------------------------------------
(* What the two kinds of steps leave alone                                 *)

\* The storage and the clients never touch the runs, the set of running
\* tasks or the closing of a channel.
LEMMA ConnStepFrame ==
    ASSUME NEW c \in Conns, ConnStep(c)
    PROVE  UNCHANGED <<currentJobs, chanClosed, run, success, updater, files,
                       saved>>
<1> USE DEF managerVars, jobVars
<1>1. CASE (Accept(c) \/ HandleConnection(c)) /\ UNCHANGED jobVars
  BY <1>1 DEF Accept, HandleConnection, LookupJob, ReadTaskIdFails, Register,
     AddConnection, NoFilename, OpenFile, ReadContentFails, ReceiveContent,
     SendMetadata, SendPanics, Leave, RemoveConnection
<1>2. CASE Dial(c) \/ Script(c) \/ LoseConnection(c)
  BY <1>2 DEF Dial, Script, SendHeader, SendContent, BreakConnection, LoseConnection,
     ClientStep
<1> QED
  BY <1>1, <1>2 DEF ConnStep, ServeStep

\* The runs and their updaters never touch a handler, a client, the count
\* of the connections or the registration history.
LEMMA RunStepFrame ==
    ASSUME NEW t \in TaskIds, RunStep(t)
    PROVE  UNCHANGED <<jobConnectionCount, client, conn, panicked, late>>
BY DEF RunStep, RunJob, GetScriptFails, Start, AddJob, RemoveFromStorage,
   RemoveJob, WaitJob, CloseChan, SaveCreates, SaveWrites, Updater, Receive,
   Added, UpdaterStops, ScriptSucceeds, ScriptFails, managerVars, storageVars

-----------------------------------------------------------------------------
(* The registry and the runs                                               *)

LEMMA NextRunAgreesWithRegistry ==
    TypeOK /\ RunAgreesWithRegistry /\ [Next]_vars => RunAgreesWithRegistry'
<1> SUFFICES ASSUME TypeOK, RunAgreesWithRegistry, [Next]_vars
             PROVE  RunAgreesWithRegistry'
  OBVIOUS
<1> USE DEF RunAgreesWithRegistry
<1>1. CASE UNCHANGED vars
  BY <1>1 DEF vars, managerVars, storageVars, jobVars
<1>2. CASE AcceptError /\ UNCHANGED jobVars
  BY <1>2 DEF AcceptError, managerVars, jobVars
<1>3. ASSUME NEW c \in Conns, ConnStep(c) PROVE RunAgreesWithRegistry'
  BY <1>3, ConnStepFrame
<1>4. ASSUME NEW t \in TaskIds, RunStep(t) PROVE RunAgreesWithRegistry'
  <2> USE DEF managerVars, storageVars
  <2>1. /\ run \in [TaskIds -> RunState]
        /\ updater \in [TaskIds -> {"none", "running", "adding", "stopped"}]
        /\ chanClosed \in [TaskIds -> BOOLEAN]
    BY DEF TypeOK, StorageTypeOK, JobTypeOK
  <2>2. CASE GetScriptFails(t)
    BY <2>1, <2>2 DEF GetScriptFails
  <2>3. CASE Start(t)
    BY <2>1, <2>3 DEF Start, AddJob
  <2>4. CASE RemoveFromStorage(t)
    BY <2>1, <2>4 DEF RemoveFromStorage, RemoveJob
  <2>5. CASE WaitJob(t)
    BY <2>1, <2>5 DEF WaitJob
  <2>6. CASE CloseChan(t)
    BY <2>1, <2>6 DEF CloseChan
  <2>7. CASE SaveCreates(t) \/ SaveWrites(t)
    BY <2>1, <2>7 DEF SaveCreates, SaveWrites
  <2>8. CASE Updater(t)
    BY <2>1, <2>8 DEF Updater, Receive, Added, UpdaterStops
  <2>9. CASE ScriptSucceeds(t) \/ ScriptFails(t)
    BY <2>1, <2>9 DEF ScriptSucceeds, ScriptFails
  <2> QED
    BY <1>4, <2>2, <2>3, <2>4, <2>5, <2>6, <2>7, <2>8, <2>9
       DEF RunStep, RunJob
<1> QED
  BY <1>1, <1>2, <1>3, <1>4 DEF Next, Step

LEMMA NextConnectedAfterStart ==
    TypeOK /\ ConnectedAfterStart /\ [Next]_vars => ConnectedAfterStart'
<1> SUFFICES ASSUME TypeOK, ConnectedAfterStart, [Next]_vars
             PROVE  ConnectedAfterStart'
  OBVIOUS
<1> USE DEF ConnectedAfterStart
<1>a. /\ client \in [Conns -> ClientState]
      /\ conn \in [Conns -> ConnState]
      /\ updater \in [TaskIds -> {"none", "running", "adding", "stopped"}]
      /\ TaskOf \in [Conns -> TaskIds]
  BY StorageAssumption
     DEF StorageAssumption, TypeOK, StorageTypeOK, JobTypeOK
<1>1. CASE UNCHANGED vars
  BY <1>1 DEF vars, storageVars, jobVars
<1>2. CASE AcceptError /\ UNCHANGED jobVars
  BY <1>2 DEF AcceptError, jobVars
<1>3. ASSUME NEW t \in TaskIds, RunStep(t) PROVE ConnectedAfterStart'
  <2>1. client' = client /\ conn' = conn
    BY <1>3, RunStepFrame
  <2>2. \A u \in TaskIds : updater[u] # "none" => updater'[u] # "none"
    BY <1>a, <1>3 DEF RunStep, RunJob, GetScriptFails, Start,
       RemoveFromStorage, WaitJob, CloseChan, SaveCreates, SaveWrites,
       Updater, Receive, Added, UpdaterStops, ScriptSucceeds, ScriptFails
  <2> QED
    BY <1>a, <2>1, <2>2
<1>4. ASSUME NEW c \in Conns, ConnStep(c) PROVE ConnectedAfterStart'
  <2>1. updater' = updater
    BY <1>4, ConnStepFrame
  <2>2. CASE Accept(c)
    BY <1>a, <2>1, <2>2 DEF Accept
  <2>3. CASE HandleConnection(c)
    <3>1. client' = client /\ conn[c] # "none"
      BY <2>3 DEF HandleConnection, LookupJob, ReadTaskIdFails, Register,
         NoFilename, OpenFile, ReadContentFails, ReceiveContent, SendMetadata,
         SendPanics, Leave
    <3>2. \A d \in Conns \ {c} : conn'[d] = conn[d]
      BY <1>a, <2>3 DEF HandleConnection, LookupJob, ReadTaskIdFails, Register,
         NoFilename, OpenFile, ReadContentFails, ReceiveContent, SendMetadata,
         SendPanics, Leave
    <3> QED
      BY <2>1, <3>1, <3>2
  <2>4. CASE Dial(c)
    BY <1>a, <2>1, <2>4 DEF Dial, ScriptAlive, ClientStep
  <2>5. CASE Script(c) \/ LoseConnection(c)
    BY <1>a, <2>1, <2>5 DEF Script, SendHeader, SendContent, BreakConnection,
       LoseConnection, ClientStep
  <2> QED
    BY <1>4, <2>2, <2>3, <2>4, <2>5 DEF ConnStep, ServeStep
<1> QED
  BY <1>1, <1>2, <1>3, <1>4 DEF Next, Step

-----------------------------------------------------------------------------
(* The connection count                                                    *)

LEMMA HandlersFinite ==
    ASSUME NEW t \in TaskIds
    PROVE  IsFiniteSet(Handlers(t)) /\ Cardinality(Handlers(t)) \in Nat
<1>1. IsFiniteSet(Conns) /\ Handlers(t) \in SUBSET Conns
  BY StorageAssumption DEF StorageAssumption, Handlers
<1> QED
  BY <1>1, FS_Subset, FS_CardinalityType

\* Only AddConnection and RemoveConnection change who is registered.
LEMMA HandlersFrame ==
    ASSUME TypeOK, NEW c \in Conns, ConnStep(c), ~Register(c), ~Leave(c)
    PROVE  /\ jobConnectionCount' = jobConnectionCount
           /\ \A t \in TaskIds : Handlers(t)' = Handlers(t)
<1>1. conn \in [Conns -> ConnState]
  BY DEF TypeOK, StorageTypeOK
<1>2. /\ jobConnectionCount' = jobConnectionCount
      /\ \A d \in Conns : conn'[d] \in Registered <=> conn[d] \in Registered
  <2> USE DEF managerVars, Registered
  <2>1. CASE Accept(c)
    BY <1>1, <2>1 DEF Accept
  <2>2. CASE HandleConnection(c)
    BY <1>1, <2>2 DEF HandleConnection, LookupJob, ReadTaskIdFails,
       NoFilename, OpenFile, ReadContentFails, ReceiveContent, SendMetadata,
       SendPanics
  <2>3. CASE Dial(c) \/ Script(c) \/ LoseConnection(c)
    BY <2>3 DEF Dial, Script, SendHeader, SendContent, BreakConnection,
       LoseConnection, ClientStep
  <2> QED
    BY <2>1, <2>2, <2>3 DEF ConnStep, ServeStep
<1> QED
  BY <1>2 DEF Handlers

\* A registration adds the handler to its task's, and to no other's.
LEMMA RegisterHandlers ==
    ASSUME TypeOK, NEW c \in Conns, Register(c)
    PROVE  /\ c \notin Handlers(TaskOf[c])
           /\ Handlers(TaskOf[c])' = Handlers(TaskOf[c]) \cup {c}
           /\ \A t \in TaskIds \ {TaskOf[c]} : Handlers(t)' = Handlers(t)
BY DEF TypeOK, StorageTypeOK, Register, Handlers, Registered

LEMMA LeaveHandlers ==
    ASSUME TypeOK, NEW c \in Conns, Leave(c)
    PROVE  /\ c \in Handlers(TaskOf[c])
           /\ Handlers(TaskOf[c])' = Handlers(TaskOf[c]) \ {c}
           /\ \A t \in TaskIds \ {TaskOf[c]} : Handlers(t)' = Handlers(t)
BY DEF TypeOK, StorageTypeOK, Leave, Handlers, Registered

LEMMA NextConnectionCountExact ==
    TypeOK /\ ConnectionCountExact /\ [Next]_vars => ConnectionCountExact'
<1> SUFFICES ASSUME TypeOK, ConnectionCountExact, [Next]_vars,
                    NEW t \in TaskIds
             PROVE  (JobConnectionCount(t) = Cardinality(Handlers(t)))'
  BY DEF ConnectionCountExact
<1>a. JobConnectionCount(t) = Cardinality(Handlers(t))
  BY DEF ConnectionCountExact
<1>b. /\ DOMAIN jobConnectionCount \subseteq TaskIds
      /\ jobConnectionCount \in [DOMAIN jobConnectionCount -> Int]
      /\ TaskOf \in [Conns -> TaskIds]
  BY StorageAssumption
     DEF StorageAssumption, TypeOK, StorageTypeOK, ManagerTypeOK
<1>1. ASSUME jobConnectionCount' = jobConnectionCount,
             Handlers(t)' = Handlers(t)
      PROVE  (JobConnectionCount(t) = Cardinality(Handlers(t)))'
  BY <1>a, <1>1 DEF JobConnectionCount
<1>2. CASE UNCHANGED vars
  BY <1>1, <1>2 DEF vars, managerVars, storageVars, Handlers
<1>3. CASE AcceptError
  BY <1>1, <1>3 DEF AcceptError, managerVars, Handlers
<1>4. ASSUME NEW u \in TaskIds, RunStep(u)
      PROVE  (JobConnectionCount(t) = Cardinality(Handlers(t)))'
  BY <1>1, <1>4, RunStepFrame DEF Handlers
<1>5. ASSUME NEW c \in Conns, ConnStep(c)
      PROVE  (JobConnectionCount(t) = Cardinality(Handlers(t)))'
  <2>1. CASE ~Register(c) /\ ~Leave(c)
    BY <1>1, <1>5, <2>1, HandlersFrame
  <2>2. CASE Register(c)
    <3>1. CASE t = TaskOf[c]
      <4>1. JobConnectionCount(t)' = JobConnectionCount(t) + 1
        BY <2>2, <3>1 DEF Register, AddConnection, JobConnectionCount
      <4>2. Cardinality(Handlers(t)') = Cardinality(Handlers(t)) + 1
        BY <2>2, <3>1, RegisterHandlers, HandlersFinite, FS_AddElement
      <4> QED
        BY <1>a, <4>1, <4>2
    <3>2. CASE t # TaskOf[c]
      <4>1. JobConnectionCount(t)' = JobConnectionCount(t)
        BY <2>2, <3>2 DEF Register, AddConnection, JobConnectionCount
      <4> QED
        BY <1>a, <2>2, <3>2, <4>1, RegisterHandlers
    <3> QED
      BY <3>1, <3>2
  <2>3. CASE Leave(c)
    <3>1. CASE t = TaskOf[c]
      <4>1. Cardinality(Handlers(t)') = Cardinality(Handlers(t)) - 1
        BY <2>3, <3>1, LeaveHandlers, HandlersFinite, FS_RemoveElement
      <4>2. Cardinality(Handlers(t)') \in Nat
        <5>1. IsFiniteSet(Handlers(t) \ {c})
          BY HandlersFinite, FS_RemoveElement
        <5> QED
          BY <2>3, <3>1, <5>1, LeaveHandlers, FS_CardinalityType
      <4>3. t \in DOMAIN jobConnectionCount /\ jobConnectionCount[t] > 0
        BY <1>a, <4>1, <4>2, HandlersFinite DEF JobConnectionCount
      <4>4. JobConnectionCount(t)' = JobConnectionCount(t) - 1
        BY <1>a, <1>b, <2>3, <3>1, <4>3
           DEF Leave, RemoveConnection, JobConnectionCount
      <4> QED
        BY <1>a, <4>1, <4>4
    <3>2. CASE t # TaskOf[c]
      <4>1. JobConnectionCount(t)' = JobConnectionCount(t)
        BY <2>3, <3>2 DEF Leave, RemoveConnection, JobConnectionCount
      <4> QED
        BY <1>a, <2>3, <3>2, <4>1, LeaveHandlers
    <3> QED
      BY <3>1, <3>2
  <2> QED
    BY <2>1, <2>2, <2>3
<1> QED
  BY <1>2, <1>3, <1>4, <1>5 DEF Next, Step

-----------------------------------------------------------------------------
(* What WaitJob guarantees                                                 *)

LEMMA NextOnlyLateHandlersAfterWait ==
    /\ TypeOK /\ RunAgreesWithRegistry /\ ConnectionCountExact
    /\ OnlyLateHandlersAfterWait
    /\ [Next]_vars
    => OnlyLateHandlersAfterWait'
<1> SUFFICES ASSUME TypeOK, RunAgreesWithRegistry, ConnectionCountExact,
                    OnlyLateHandlersAfterWait, [Next]_vars,
                    NEW t \in TaskIds, Waited(t)'
             PROVE  Handlers(t)' \subseteq late'
  BY DEF OnlyLateHandlersAfterWait
<1>a. /\ run \in [TaskIds -> RunState]
      /\ chanClosed \in [TaskIds -> BOOLEAN]
      /\ TaskOf \in [Conns -> TaskIds]
  BY StorageAssumption
     DEF StorageAssumption, TypeOK, StorageTypeOK, JobTypeOK
<1>b. Waited(t) => Handlers(t) \subseteq late
  BY DEF OnlyLateHandlersAfterWait
<1>1. CASE UNCHANGED vars
  BY <1>b, <1>1 DEF vars, storageVars, jobVars, Waited, Handlers
<1>2. CASE AcceptError /\ UNCHANGED jobVars
  BY <1>b, <1>2 DEF AcceptError, jobVars, Waited, Handlers
<1>3. ASSUME NEW u \in TaskIds, RunStep(u)
      PROVE  Handlers(t)' \subseteq late'
  <2>1. Handlers(t)' = Handlers(t) /\ late' = late
    BY <1>3, RunStepFrame DEF Handlers
  <2>2. CASE WaitJob(t)
    \* Here the count WaitJob read tells that there are no handlers.
    <3>1. JobConnectionCount(t) <= 0
      BY <2>2 DEF WaitJob, JobDone
    <3>2. Cardinality(Handlers(t)) = 0
      BY <3>1, HandlersFinite DEF ConnectionCountExact
    <3>3. Handlers(t) = {}
      BY <3>2, HandlersFinite, FS_EmptySet
    <3> QED
      BY <2>1, <3>3
  <2>3. CASE ~WaitJob(t)
    <3>1. Waited(t)
      BY <1>a, <1>3, <2>3 DEF Waited, RunStep, RunJob, GetScriptFails, Start,
         RemoveFromStorage, WaitJob, CloseChan, SaveCreates, SaveWrites,
         Updater, Receive, Added, UpdaterStops, ScriptSucceeds, ScriptFails,
         storageVars
    <3> QED
      BY <1>b, <2>1, <3>1
  <2> QED
    BY <2>2, <2>3
<1>4. ASSUME NEW c \in Conns, ConnStep(c)
      PROVE  Handlers(t)' \subseteq late'
  <2>1. Waited(t) /\ Handlers(t) \subseteq late
    BY <1>b, <1>4, ConnStepFrame DEF Waited
  <2>2. late \subseteq late'
    BY <1>4 DEF ConnStep, ServeStep, Accept, HandleConnection, LookupJob,
       ReadTaskIdFails, Register, NoFilename, OpenFile, ReadContentFails,
       ReceiveContent, SendMetadata, SendPanics, Leave, Dial, Script,
       SendHeader, SendContent, BreakConnection, LoseConnection, ClientStep
  <2>3. CASE ~Register(c) /\ ~Leave(c)
    BY <1>4, <2>1, <2>2, <2>3, HandlersFrame
  <2>4. CASE Register(c)
    \* The run is past RemoveJob, so a handler of t that registers now is late.
    <3>1. t \notin currentJobs
      BY <2>1 DEF Waited, RunAgreesWithRegistry
    <3>2. t = TaskOf[c] => c \in late'
      BY <2>4, <3>1 DEF Register, GetJob
    <3> QED
      BY <1>a, <2>1, <2>2, <2>4, <3>2, RegisterHandlers
  <2>5. CASE Leave(c)
    BY <1>a, <2>1, <2>2, <2>5, LeaveHandlers
  <2> QED
    BY <2>3, <2>4, <2>5
<1> QED
  BY <1>1, <1>2, <1>3, <1>4 DEF Next, Step

\* Once a handler has panicked no step is possible, and the step in which it
\* does so is taken by a registered handler of a task that was waited for.
LEMMA NextPanicOnlyFromLateHandler ==
    /\ TypeOK /\ OnlyLateHandlersAfterWait /\ PanicOnlyFromLateHandler
    /\ [Next]_vars
    => PanicOnlyFromLateHandler'
<1> SUFFICES ASSUME TypeOK, OnlyLateHandlersAfterWait,
                    PanicOnlyFromLateHandler, [Next]_vars, panicked'
             PROVE  PanicOnlyFromLateHandler'
  BY DEF PanicOnlyFromLateHandler
<1>1. CASE UNCHANGED vars
  BY <1>1 DEF vars, storageVars, PanicOnlyFromLateHandler
<1>2. CASE ~panicked /\ Step
  <2>1. PICK c \in Conns : SendPanics(c)
    <3>1. ~(AcceptError /\ UNCHANGED jobVars)
      BY <1>2 DEF AcceptError
    <3>2. \A t \in TaskIds : ~RunStep(t)
      BY <1>2, RunStepFrame
    <3>3. PICK c \in Conns : ConnStep(c)
      BY <1>2, <3>1, <3>2 DEF Step
    <3>4. SendPanics(c)
      BY <1>2, <3>3 DEF ConnStep, ServeStep, Accept, HandleConnection,
         LookupJob, ReadTaskIdFails, Register, NoFilename, OpenFile,
         ReadContentFails, ReceiveContent, SendMetadata, Leave, Dial, Script,
         SendHeader, SendContent, BreakConnection, LoseConnection, ClientStep
    <3> QED
      BY <3>4
  <2>2. conn[c] = "sending" /\ chanClosed[TaskOf[c]]
    BY <2>1 DEF SendPanics
  <2>3. TaskOf[c] \in TaskIds /\ c \in Handlers(TaskOf[c])
    BY <2>2, StorageAssumption
       DEF StorageAssumption, Handlers, Registered
  <2>4. c \in late
    BY <2>2, <2>3 DEF OnlyLateHandlersAfterWait, Waited
  <2> QED
    BY <2>1, <2>2, <2>4 DEF SendPanics, PanicOnlyFromLateHandler
<1> QED
  BY <1>1, <1>2 DEF Next

-----------------------------------------------------------------------------
(* Refusals                                                                *)

LEMMA NextRefusedOnlyAfterScript ==
    /\ TypeOK /\ RunAgreesWithRegistry /\ ConnectedAfterStart
    /\ RefusedOnlyAfterScript
    /\ [Next]_vars
    => RefusedOnlyAfterScript'
<1> SUFFICES ASSUME TypeOK, RunAgreesWithRegistry, ConnectedAfterStart,
                    RefusedOnlyAfterScript, [Next]_vars,
                    NEW d \in Conns, conn'[d] = "refused"
             PROVE  run'[TaskOf[d]] \notin {"idle", "executing"}
  BY DEF RefusedOnlyAfterScript
<1>a. /\ conn \in [Conns -> ConnState]
      /\ run \in [TaskIds -> RunState]
      /\ TaskOf[d] \in TaskIds
  BY StorageAssumption
     DEF StorageAssumption, TypeOK, StorageTypeOK, JobTypeOK
<1>b. conn[d] = "refused" => run[TaskOf[d]] \notin {"idle", "executing"}
  BY DEF RefusedOnlyAfterScript
<1>1. CASE UNCHANGED vars
  BY <1>b, <1>1 DEF vars, storageVars, jobVars
<1>2. CASE AcceptError /\ UNCHANGED jobVars
  BY <1>b, <1>2 DEF AcceptError, jobVars
<1>3. ASSUME NEW t \in TaskIds, RunStep(t)
      PROVE  run'[TaskOf[d]] \notin {"idle", "executing"}
  <2>1. conn' = conn
    BY <1>3, RunStepFrame
  <2>2. run[TaskOf[d]] \notin {"idle", "executing"}
    BY <1>b, <2>1
  <2> QED
    BY <1>a, <1>3, <2>2 DEF RunStep, RunJob, GetScriptFails, Start,
       RemoveFromStorage, WaitJob, CloseChan, SaveCreates, SaveWrites,
       Updater, Receive, Added, UpdaterStops, ScriptSucceeds, ScriptFails
<1>4. ASSUME NEW c \in Conns, ConnStep(c)
      PROVE  run'[TaskOf[d]] \notin {"idle", "executing"}
  <2>1. run' = run
    BY <1>4, ConnStepFrame
  <2>2. CASE conn[d] = "refused"
    BY <1>b, <2>1, <2>2
  <2>3. CASE conn[d] # "refused"
    <3>1. c = d /\ LookupJob(d) /\ ~GetJob(TaskOf[d])
      BY <1>a, <1>4, <2>3 DEF ConnStep, ServeStep, Accept, HandleConnection,
         LookupJob, ReadTaskIdFails, Register, NoFilename, OpenFile,
         ReadContentFails, ReceiveContent, SendMetadata, SendPanics, Leave,
         Dial, Script, SendHeader, SendContent, BreakConnection, LoseConnection,
         ClientStep
    <3>2. run[TaskOf[d]] # "executing"
      BY <1>a, <3>1 DEF GetJob, RunAgreesWithRegistry
    <3>3. client[d] # "idle"
      BY <3>1 DEF LookupJob, ConnectedAfterStart
    <3>4. run[TaskOf[d]] # "idle"
      BY <1>a, <3>3 DEF ConnectedAfterStart, RunAgreesWithRegistry
    <3> QED
      BY <2>1, <3>2, <3>4
  <2> QED
    BY <2>2, <2>3
<1> QED
  BY <1>1, <1>2, <1>3, <1>4 DEF Next, Step

-----------------------------------------------------------------------------
(* The theorems                                                            *)

LEMMA InitIInv == Init => IInv
<1> SUFFICES ASSUME Init PROVE IInv
  OBVIOUS
<1>1. TypeOK
  BY InitTypeOK
<1>2. /\ currentJobs = {} /\ jobConnectionCount = [id \in {} |-> 0]
      /\ \A c \in Conns : client[c] = "idle" /\ conn[c] = "none"
      /\ \A t \in TaskIds : /\ run[t] = "idle" /\ updater[t] = "none"
                             /\ chanClosed[t] = FALSE
      /\ panicked = FALSE
  BY DEF Init, StorageInit, ManagerInit, JobInit
<1>3. \A t \in TaskIds : Handlers(t) = {}
  BY <1>2 DEF Handlers, Registered
<1>4. ConnectionCountExact
  BY <1>2, <1>3, FS_EmptySet DEF ConnectionCountExact, JobConnectionCount
<1>5. RunAgreesWithRegistry /\ ConnectedAfterStart
  BY <1>2 DEF RunAgreesWithRegistry, ConnectedAfterStart
<1>6. /\ OnlyLateHandlersAfterWait
      /\ PanicOnlyFromLateHandler
      /\ RefusedOnlyAfterScript
  BY <1>2, <1>3 DEF OnlyLateHandlersAfterWait, Waited,
     PanicOnlyFromLateHandler, RefusedOnlyAfterScript
<1> QED
  BY <1>1, <1>4, <1>5, <1>6 DEF IInv

\* The invariant is inductive, and so it holds in every reachable state.
THEOREM InductiveInvariant == Spec => []IInv
<1>1. Init => IInv
  BY InitIInv
<1>2. IInv /\ [Next]_vars => IInv'
  BY NextTypeOK, NextRunAgreesWithRegistry, NextConnectedAfterStart,
     NextConnectionCountExact, NextOnlyLateHandlersAfterWait,
     NextPanicOnlyFromLateHandler, NextRefusedOnlyAfterScript DEF IInv
<1> QED
  BY <1>1, <1>2, PTL DEF Spec

\* The number WaitJob reads is the number of registered handlers, however
\* the handlers of one task interleave with each other and with RemoveJob.
THEOREM CountExact == Spec => []ConnectionCountExact
<1>1. IInv => ConnectionCountExact
  BY DEF IInv
<1> QED
  BY <1>1, InductiveInvariant, PTL

\* After WaitJob the only handlers left are those that looked their task up
\* before RemoveJob and registered after it.
THEOREM WaitJobGuarantee == Spec => []OnlyLateHandlersAfterWait
<1>1. IInv => OnlyLateHandlersAfterWait
  BY DEF IInv
<1> QED
  BY <1>1, InductiveInvariant, PTL

\* The window between GetJob and AddConnection is the only cause of a send
\* on a closed channel.
THEOREM PanicCause == Spec => []PanicOnlyFromLateHandler
<1>1. IInv => PanicOnlyFromLateHandler
  BY DEF IInv
<1> QED
  BY <1>1, InductiveInvariant, PTL

\* No connection is refused while the script of its task runs.
THEOREM NoRefusalDuringScript == Spec => []RefusedOnlyAfterScript
<1>1. IInv => RefusedOnlyAfterScript
  BY DEF IInv
<1> QED
  BY <1>1, InductiveInvariant, PTL

-----------------------------------------------------------------------------
(* Whoever waits, waits for somebody                                       *)

\* Only the send of a handler puts something in a channel.
LEMMA ChannelFrame ==
    ASSUME NEW c \in Conns, ConnStep(c)
    PROVE  \/ fileAddChan' = fileAddChan
           \/ /\ conn[c] = "sending" /\ ~chanClosed[TaskOf[c]]
              /\ fileAddChan' = [fileAddChan EXCEPT ![TaskOf[c]] = Append(@, c)]
BY DEF ConnStep, ServeStep, Accept, HandleConnection, LookupJob,
   ReadTaskIdFails, Register, NoFilename, OpenFile, ReadContentFails,
   ReceiveContent, SendMetadata, SendPanics, Leave, Dial, Script, SendHeader,
   SendContent, BreakConnection, LoseConnection, ClientStep

LEMMA NextChannelDrained ==
    /\ TypeOK /\ RunAgreesWithRegistry /\ ConnectedAfterStart /\ ChannelDrained
    /\ [Next]_vars
    => ChannelDrained'
<1> SUFFICES ASSUME TypeOK, RunAgreesWithRegistry, ConnectedAfterStart,
                    ChannelDrained, [Next]_vars, NEW t \in TaskIds
             PROVE  /\ updater'[t] = "stopped" => chanClosed'[t]
                    /\ updater'[t] \in {"none", "stopped"} => fileAddChan'[t] = <<>>
  BY DEF ChannelDrained
<1>a. /\ updater[t] = "stopped" => chanClosed[t]
      /\ updater[t] \in {"none", "stopped"} => fileAddChan[t] = <<>>
  BY DEF ChannelDrained
<1>b. /\ updater \in [TaskIds -> {"none", "running", "adding", "stopped"}]
      /\ chanClosed \in [TaskIds -> BOOLEAN]
      /\ fileAddChan \in [TaskIds -> Seq(Conns)]
  BY DEF TypeOK, StorageTypeOK, JobTypeOK
<1>1. CASE UNCHANGED vars
  BY <1>a, <1>1 DEF vars, storageVars, jobVars
<1>2. CASE AcceptError /\ UNCHANGED jobVars
  BY <1>a, <1>2 DEF AcceptError, jobVars
<1>3. ASSUME NEW u \in TaskIds, RunStep(u)
      PROVE  /\ updater'[t] = "stopped" => chanClosed'[t]
             /\ updater'[t] \in {"none", "stopped"} => fileAddChan'[t] = <<>>
  <2> USE DEF managerVars, storageVars
  <2>1. CASE Receive(u)
    BY <1>a, <1>b, <2>1 DEF Receive
  <2>2. CASE UpdaterStops(u)
    BY <1>a, <1>b, <2>2 DEF UpdaterStops
  <2>3. CASE Start(u)
    BY <1>a, <1>b, <2>3 DEF Start
  <2>4. CASE CloseChan(u)
    BY <1>a, <1>b, <2>4 DEF CloseChan
  <2>5. CASE Added(u)
    BY <1>a, <1>b, <2>5 DEF Added
  <2>6. CASE ~(\/ Receive(u) \/ UpdaterStops(u) \/ Start(u) \/ CloseChan(u)
               \/ Added(u))
    <3>1. updater' = updater /\ fileAddChan' = fileAddChan /\ chanClosed' = chanClosed
      BY <1>3, <2>6 DEF RunStep, RunJob, GetScriptFails, RemoveFromStorage,
         WaitJob, SaveCreates, SaveWrites, Updater, ScriptSucceeds, ScriptFails
    <3> QED BY <1>a, <3>1
  <2> QED BY <2>1, <2>2, <2>3, <2>4, <2>5, <2>6
<1>4. ASSUME NEW c \in Conns, ConnStep(c)
      PROVE  /\ updater'[t] = "stopped" => chanClosed'[t]
             /\ updater'[t] \in {"none", "stopped"} => fileAddChan'[t] = <<>>
  <2>1. updater' = updater /\ chanClosed' = chanClosed
    BY <1>4, ConnStepFrame
  <2>2. CASE fileAddChan' = fileAddChan
    BY <1>a, <2>1, <2>2
  <2>3. CASE /\ conn[c] = "sending" /\ ~chanClosed[TaskOf[c]]
             /\ fileAddChan' = [fileAddChan EXCEPT ![TaskOf[c]] = Append(@, c)]
    <3>1. updater[TaskOf[c]] # "none"
      BY <2>3 DEF ConnectedAfterStart
    <3>2. t = TaskOf[c] => updater[t] \notin {"none", "stopped"}
      BY <1>a, <2>3, <3>1
    <3>3. t # TaskOf[c] => fileAddChan'[t] = fileAddChan[t]
      BY <1>b, <2>3
    <3> QED BY <1>a, <2>1, <3>2, <3>3
  <2> QED BY <1>4, <2>2, <2>3, ChannelFrame
<1> QED
  BY <1>1, <1>2, <1>3, <1>4 DEF Next, Step

LEMMA InitChannelDrained == Init => ChannelDrained
BY DEF Init, StorageInit, JobInit, ChannelDrained

LEMMA WakersAreThere == IInv /\ ChannelDrained => WaitersHaveWakers
<1> SUFFICES ASSUME IInv, ChannelDrained, NEW t \in TaskIds
             PROVE  /\ run[t] = "waiting" /\ ~JobDone(t) => Handlers(t) # {}
                    /\ fileAddChan[t] # <<>> => Receiving(t)
                    /\ \A c \in ConnsOf(t) :
                         conn[c] = "sending" /\ ~chanClosed[t] => Receiving(t)
  BY DEF WaitersHaveWakers
<1>1. updater[t] \in {"none", "running", "adding", "stopped"}
  BY DEF IInv, TypeOK, JobTypeOK
<1>2. ASSUME run[t] = "waiting", ~JobDone(t) PROVE Handlers(t) # {}
  <2>1. ~GetJob(t)
    BY <1>2 DEF IInv, RunAgreesWithRegistry, GetJob
  <2>2. JobConnectionCount(t) = Cardinality(Handlers(t))
    BY DEF IInv, ConnectionCountExact
  <2>3. ~(Cardinality(Handlers(t)) <= 0)
    BY <1>2, <2>1, <2>2 DEF JobDone
  <2> QED BY <2>3, FS_EmptySet
<1>3. ASSUME NEW c \in ConnsOf(t), conn[c] = "sending", ~chanClosed[t]
      PROVE  Receiving(t)
  <2>1. updater[t] # "none"
    BY <1>3 DEF IInv, ConnectedAfterStart, ConnsOf
  <2> QED BY <1>1, <1>3, <2>1 DEF ChannelDrained, Receiving
<1> QED BY <1>1, <1>2, <1>3 DEF ChannelDrained, Receiving

\* Whatever the tasks, the connections and the capacity of the channel, no
\* run waits in WaitJob for a connection that is not there, and no handler
\* sends to an updater that has gone.  (WaitJob, FileAddChan, the updater)
THEOREM NobodyWaitsInVain == Spec => []WaitersHaveWakers
<1>1. IInv /\ ChannelDrained /\ [Next]_vars => ChannelDrained'
  BY NextChannelDrained DEF IInv
<1> QED
  BY <1>1, InitChannelDrained, InductiveInvariant, WakersAreThere, PTL DEF Spec

=============================================================================
