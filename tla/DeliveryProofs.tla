--------------------------- MODULE DeliveryProofs ---------------------------
(***************************************************************************)
(* Backup implements Delivery, for any number of tasks and connections:    *)
(* the initial state corresponds to an initial state, and every step to a  *)
(* step of the gate, a step of one connection, or no step at all.          *)
(***************************************************************************)
EXTENDS BackupDelivery, MetadataProofs

AGate == [t \in TaskIds |-> GateOf(t)]
AStatus == [c \in Conns |-> StatusOf(c)]

-----------------------------------------------------------------------------
(* How the abstract state moves                                            *)

LEMMA ConcatElements ==
    ASSUME NEW S, NEW s \in Seq(S), NEW u \in Seq(S)
    PROVE  /\ Elements(s) \subseteq Elements(s \o u)
           /\ u # <<>> => Head(u) \in Elements(s \o u)
<1> DEFINE w == s \o u
<1>1. /\ Len(s) \in Nat /\ Len(u) \in Nat
      /\ Len(w) = Len(s) + Len(u)
      /\ \A i \in 1..(Len(s) + Len(u)) :
           w[i] = IF i <= Len(s) THEN s[i] ELSE u[i - Len(s)]
  BY ConcatProperties, LenProperties
<1> HIDE DEF w
<1>2. ASSUME NEW i \in 1..Len(s) PROVE s[i] \in Elements(w)
  <2>1. i \in 1..Len(w) /\ w[i] = s[i]
    BY <1>1
  <2> QED
    BY <2>1 DEF Elements
<1>3. ASSUME u # <<>> PROVE Head(u) \in Elements(w)
  <2>1. Len(u) > 0
    BY <1>1, <1>3, EmptySeq
  <2>2. Len(s) + 1 \in 1..Len(w) /\ w[Len(s) + 1] = u[1]
    BY <1>1, <2>1
  <2>3. Head(u) = u[1]
    OBVIOUS
  <2> QED
    BY <2>2, <2>3 DEF Elements
<1>4. Elements(s) \subseteq Elements(w)
  BY <1>2 DEF Elements
<1> QED
  BY <1>3, <1>4 DEF w

LEMMA AppendElements ==
    ASSUME NEW S, NEW s \in Seq(S), NEW e \in S
    PROVE  Elements(Append(s, e)) = Elements(s) \cup {e}
<1> DEFINE w == Append(s, e)
           n == Len(s)
<1>1. /\ n \in Nat /\ Len(w) = n + 1 /\ w[n + 1] = e
      /\ \A i \in 1..n : w[i] = s[i]
  BY AppendProperties, LenProperties
<1>2. 1..(n + 1) = (1..n) \cup {n + 1}
  BY <1>1
<1> HIDE DEF w
<1>3. Elements(w) = Elements(s) \cup {e}
  BY <1>1, <1>2 DEF Elements
<1> QED
  BY <1>3 DEF w

\* What stands in a task's metadata.Files has been sent, and so has the
\* oldest element of its channel.
LEMMA PipelineIsSent ==
    ASSUME TypeOK, MetadataConserved, NEW t \in TaskIds
    PROVE  /\ Elements(files[t]) \subseteq Sent(t)
           /\ fileAddChan[t] # <<>> => Head(fileAddChan[t]) \in Sent(t)
<1>1. files[t] \in Seq(Conns) /\ fileAddChan[t] \in Seq(Conns)
  BY DEF TypeOK, StorageTypeOK, JobTypeOK
<1>2. Elements(files[t] \o fileAddChan[t]) = Sent(t)
  BY DEF MetadataConserved, Pipeline
<1>3. \A s, u \in Seq(Conns) :
         /\ Elements(s) \subseteq Elements(s \o u)
         /\ u # <<>> => Head(u) \in Elements(s \o u)
  BY ConcatElements
<1> QED
  BY <1>1, <1>2, <1>3

LEMMA CollectedIsSent ==
    ASSUME TypeOK, MetadataConserved, NEW c \in Collected
    PROVE  c \in Conns /\ c \in Sent(TaskOf[c])
<1>1. c \in Conns /\ TaskOf[c] \in TaskIds /\ c \in Elements(files[TaskOf[c]])
  BY StorageAssumption DEF Collected, StorageAssumption
<1> QED
  BY <1>1, PipelineIsSent

\* No step of a connection moves a gate, and it moves no other connection.
LEMMA ConnStepMoves ==
    ASSUME TypeOK, NEW c \in Conns, ConnStep(c)
    PROVE  /\ AGate' = AGate
           /\ Collected' = Collected
           /\ AStatus' = [AStatus EXCEPT ![c] = StatusOf(c)']
<1>1. UNCHANGED <<currentJobs, chanClosed, run, updater, files>>
  BY ConnStepFrame
<1>2. AGate' = AGate
  BY <1>1 DEF AGate, GateOf, GetJob
<1>3. Collected' = Collected
  BY <1>1 DEF Collected
<1>4. \A d \in Conns \ {c} : conn'[d] = conn[d]
  BY DEF TypeOK, StorageTypeOK, ConnStep, ServeStep, Accept, HandleConnection,
     LookupJob, ReadTaskIdFails, Register, NoFilename, OpenFile,
     ReadContentFails, ReceiveContent, SendMetadata, SendPanics, Leave, Dial,
     Script, SendHeader, SendContent, BreakConnection, LoseConnection,
     ClientStep
<1>5. \A d \in Conns \ {c} : StatusOf(d)' = StatusOf(d)
  BY <1>3, <1>4 DEF StatusOf
<1> QED
  BY <1>2, <1>3, <1>5 DEF AStatus

\* No step of a run but Receive moves a connection, and it moves no gate but
\* its own.
LEMMA RunStepMoves ==
    ASSUME TypeOK, NEW t \in TaskIds, RunStep(t)
    PROVE  /\ AGate' = [AGate EXCEPT ![t] = GateOf(t)']
           /\ ~Receive(t) => AStatus' = AStatus
<1>1. \A u \in TaskIds \ {t} :
         /\ updater'[u] = updater[u] /\ run'[u] = run[u]
         /\ chanClosed'[u] = chanClosed[u]
         /\ u \in currentJobs' <=> u \in currentJobs
  BY DEF TypeOK, StorageTypeOK, JobTypeOK, RunStep, RunJob, GetScriptFails,
     Start, AddJob, RemoveFromStorage, RemoveJob, WaitJob, CloseChan,
     SaveCreates, SaveWrites, Updater, Receive, Added, UpdaterStops,
     ScriptSucceeds, ScriptFails, managerVars, storageVars
<1>2. \A u \in TaskIds \ {t} : GateOf(u)' = GateOf(u)
  BY <1>1 DEF GateOf, GetJob
<1>3. ASSUME ~Receive(t) PROVE AStatus' = AStatus
  <2>1. conn' = conn
    BY RunStepFrame
  <2>2. files' = files
    BY <1>3 DEF RunStep, RunJob, GetScriptFails, Start, RemoveFromStorage,
       WaitJob, CloseChan, SaveCreates, SaveWrites, Updater, Added,
       UpdaterStops, ScriptSucceeds, ScriptFails
  <2> QED
    BY <2>1, <2>2 DEF AStatus, StatusOf, Collected
<1> QED
  BY <1>2, <1>3 DEF AGate

-----------------------------------------------------------------------------
(* The steps of a connection                                               *)

\* A connection that moves from one status to another is a Pass of Delivery.
LEMMA ConnStepPass ==
    ASSUME TypeOK, NEW c \in Conns, ConnStep(c), panicked' = panicked
    PROVE  /\ AStatus[c] = StatusOf(c) /\ AGate[TaskOf[c]] = GateOf(TaskOf[c])
           /\ Abstract!Pass(c, StatusOf(c), StatusOf(c)')
           /\ StatusOf(c)' = StatusOf(c) => UNCHANGED Abstract!vars
<1>1. TaskOf[c] \in TaskIds
  BY StorageAssumption DEF StorageAssumption
<1>2. AGate' = AGate /\ AStatus' = [AStatus EXCEPT ![c] = StatusOf(c)']
  BY ConnStepMoves
<1>3. AStatus[c] = StatusOf(c) /\ AGate[TaskOf[c]] = GateOf(TaskOf[c])
  BY <1>1 DEF AStatus, AGate
<1>4. StatusOf(c)' = StatusOf(c) => AStatus' = AStatus
  BY <1>2 DEF AStatus
<1> QED
  BY <1>2, <1>3, <1>4 DEF Abstract!Pass, Abstract!vars, AStatus, AGate

LEMMA HandleConnectionSimulated ==
    ASSUME IInv, MetadataConserved, ~panicked, NEW c \in Conns,
           ServeStep(c)
    PROVE  Abstract!Next \/ UNCHANGED Abstract!vars
<1> DEFINE t == TaskOf[c]
<1>a. /\ TypeOK /\ t \in TaskIds /\ conn \in [Conns -> ConnState]
      /\ ConnStep(c)
  BY StorageAssumption
     DEF StorageAssumption, IInv, TypeOK, StorageTypeOK, ConnStep
<1>b. Collected' = Collected
  BY <1>a, ConnStepMoves
<1>c. ASSUME panicked' = panicked
      PROVE  /\ AStatus[c] = StatusOf(c) /\ AGate[t] = GateOf(t)
             /\ Abstract!Pass(c, StatusOf(c), StatusOf(c)')
             /\ StatusOf(c)' = StatusOf(c) => UNCHANGED Abstract!vars
  BY <1>a, <1>c, ConnStepPass
<1>d. c \in Collected => conn[c] \in {"sent", "gone"}
  BY <1>a, CollectedIsSent DEF Sent
<1>1. CASE Accept(c)
  BY <1>a, <1>c, <1>1 DEF Accept, StatusOf
<1>2. CASE LookupJob(c)
  <2>1. StatusOf(c) = "outside" /\ panicked' = panicked
    BY <1>2 DEF LookupJob, StatusOf
  <2>a. updater[t] # "none"
    BY <1>2 DEF LookupJob, HeaderSent, IInv, ConnectedAfterStart
  <2>2. CASE GetJob(t)
    <3>1. StatusOf(c)' = "admitted"
      BY <1>a, <1>2, <2>2 DEF LookupJob, StatusOf
    <3>2. GateOf(t) = "open"
      BY <2>2, <2>a DEF GateOf, GetJob
    <3>3. Abstract!Admit(c)
      BY <1>c, <2>1, <3>1, <3>2 DEF Abstract!Admit, AGate
    <3> QED
      BY <3>3 DEF Abstract!Next
  <2>3. CASE ~GetJob(t)
    <3>1. StatusOf(c)' = "refused"
      BY <1>a, <1>2, <2>3 DEF LookupJob, StatusOf
    <3>2. GateOf(t) \notin {"new", "open"}
      BY <2>3, <2>a DEF GateOf, GetJob
    <3>3. Abstract!Refuse(c)
      BY <1>c, <2>1, <3>1, <3>2 DEF Abstract!Refuse, AGate
    <3> QED
      BY <3>3 DEF Abstract!Next
  <2> QED
    BY <2>2, <2>3
<1>3. CASE ReadTaskIdFails(c)
  <2>1. /\ StatusOf(c) = "outside" /\ StatusOf(c)' = "failed"
        /\ panicked' = panicked
    BY <1>a, <1>3 DEF ReadTaskIdFails, StatusOf
  <2>2. Abstract!Fail(c)
    BY <1>c, <2>1 DEF Abstract!Fail
  <2> QED
    BY <2>2 DEF Abstract!Next
<1>4. CASE Register(c)
  <2>1. /\ StatusOf(c) = "admitted" /\ StatusOf(c)' = "inside"
        /\ panicked' = panicked
    BY <1>a, <1>4 DEF Register, StatusOf
  <2>2. Abstract!Enter(c)
    BY <1>c, <2>1 DEF Abstract!Enter
  <2> QED
    BY <2>2 DEF Abstract!Next
<1>5. CASE NoFilename(c) \/ ReadContentFails(c)
  <2>1. /\ StatusOf(c) = "inside" /\ StatusOf(c)' = "failed"
        /\ panicked' = panicked
    BY <1>a, <1>5 DEF NoFilename, ReadContentFails, StatusOf
  <2>2. Abstract!Fail(c)
    BY <1>c, <2>1 DEF Abstract!Fail
  <2> QED
    BY <2>2 DEF Abstract!Next
<1>6. CASE OpenFile(c)
  <2>1. StatusOf(c) = "inside" /\ panicked' = panicked
    BY <1>6 DEF OpenFile, StatusOf
  <2>2. CASE conn'[c] = "receiving"
    BY <1>c, <2>1, <2>2 DEF StatusOf
  <2>3. CASE conn'[c] = "aborted"
    <3>1. StatusOf(c)' = "failed"
      BY <2>3 DEF StatusOf
    <3>2. Abstract!Fail(c)
      BY <1>c, <2>1, <3>1 DEF Abstract!Fail
    <3> QED
      BY <3>2 DEF Abstract!Next
  <2> QED
    BY <1>a, <1>6, <2>2, <2>3 DEF OpenFile
<1>7. CASE ReceiveContent(c)
  BY <1>a, <1>c, <1>7 DEF ReceiveContent, StatusOf
<1>8. CASE SendMetadata(c)
  <2>1. /\ StatusOf(c) = "inside" /\ StatusOf(c)' = "delivered"
        /\ panicked' = panicked
    BY <1>a, <1>b, <1>d, <1>8 DEF SendMetadata, StatusOf
  <2>2. GateOf(t) # "closed"
    BY <1>8 DEF SendMetadata, GateOf
  <2>3. Abstract!Deliver(c)
    BY <1>c, <2>1, <2>2 DEF Abstract!Deliver, AGate
  <2> QED
    BY <2>3 DEF Abstract!Next
<1>9. CASE SendPanics(c)
  <2>1. conn[c] = "sending" /\ chanClosed[t]
    BY <1>9 DEF SendPanics
  <2>2. StatusOf(c) = "inside" /\ StatusOf(c)' = StatusOf(c)
    BY <1>9, <2>1 DEF SendPanics, StatusOf
  <2>3. GateOf(t) = "closed"
    <3>1. ~GetJob(t)
      BY <1>a, <2>1 DEF IInv, RunAgreesWithRegistry, GetJob
    <3>2. updater[t] # "none"
      BY <1>a, <2>1 DEF IInv, ConnectedAfterStart
    <3> QED
      BY <2>1, <3>1, <3>2 DEF GateOf, GetJob
  <2>4. UNCHANGED <<AGate, AStatus>>
    BY <1>a, <2>2, ConnStepMoves DEF AStatus
  <2>5. Abstract!Crash(c)
    BY <1>a, <1>9, <2>2, <2>3, <2>4 DEF Abstract!Crash, SendPanics, AGate,
       AStatus
  <2> QED
    BY <2>5 DEF Abstract!Next
<1>10. CASE Leave(c)
  <2>1. StatusOf(c)' = StatusOf(c) /\ panicked' = panicked
    BY <1>a, <1>b, <1>10 DEF Leave, StatusOf
  <2> QED
    BY <1>c, <2>1
<1> QED
  BY <1>1, <1>2, <1>3, <1>4, <1>5, <1>6, <1>7, <1>8, <1>9, <1>10
     DEF ServeStep, HandleConnection

-----------------------------------------------------------------------------
(* The steps of a run                                                      *)

\* A gate that moves from one state to another is a Turn of Delivery.
LEMMA RunStepTurn ==
    ASSUME TypeOK, NEW t \in TaskIds, RunStep(t), ~Receive(t)
    PROVE  /\ Abstract!Turn(t, GateOf(t), GateOf(t)')
           /\ GateOf(t)' = GateOf(t) => UNCHANGED Abstract!vars
<1>1. AGate' = [AGate EXCEPT ![t] = GateOf(t)'] /\ AStatus' = AStatus
  BY RunStepMoves
<1>2. AGate[t] = GateOf(t)
  BY DEF AGate
<1>3. panicked' = panicked
  BY RunStepFrame
<1>4. GateOf(t)' = GateOf(t) => AGate' = AGate
  BY <1>1 DEF AGate
<1> QED
  BY <1>1, <1>2, <1>3, <1>4 DEF Abstract!Turn, Abstract!vars, AGate, AStatus

\* The updater collects what stands first in the channel.
LEMMA ReceiveSimulated ==
    ASSUME IInv, MetadataConserved, ~panicked, NEW t \in TaskIds, Receive(t)
    PROVE  Abstract!Next \/ UNCHANGED Abstract!vars
<1>a. /\ TypeOK /\ RunStep(t)
      /\ files[t] \in Seq(Conns) /\ fileAddChan[t] \in Seq(Conns)
  BY DEF IInv, TypeOK, StorageTypeOK, JobTypeOK, RunStep, Updater
<1>1. PICK c \in Conns : /\ c = Head(fileAddChan[t])
                         /\ TaskOf[c] = t /\ conn[c] \in {"sent", "gone"}
  BY <1>a, PipelineIsSent DEF Receive, Sent, ConnsOf
<1>2. Collected' = Collected \cup {c}
  <2>1. files' = [files EXCEPT ![t] = Append(@, c)]
    BY <1>1 DEF Receive
  <2>2. Elements(files'[t]) = Elements(files[t]) \cup {c}
    BY <1>a, <1>1, <2>1, AppendElements DEF TypeOK, JobTypeOK
  <2>3. \A u \in TaskIds \ {t} : files'[u] = files[u]
    BY <1>a, <2>1 DEF TypeOK, JobTypeOK
  <2>4. \A d \in Conns : TaskOf[d] \in TaskIds
    BY StorageAssumption DEF StorageAssumption
  <2>5. ASSUME NEW d \in Conns
        PROVE  d \in Elements(files'[TaskOf[d]])
                 <=> d \in Elements(files[TaskOf[d]]) \/ d = c
    BY <1>1, <2>2, <2>3, <2>4
  <2>6. Collected' = {d \in Conns : d \in Elements(files'[TaskOf[d]])}
    BY DEF Collected, Elements
  <2> QED
    BY <1>1, <2>5, <2>6 DEF Collected
<1>3. AStatus' = [AStatus EXCEPT ![c] = StatusOf(c)']
  <2>1. conn' = conn
    BY <1>a, RunStepFrame
  <2>2. \A d \in Conns \ {c} : StatusOf(d)' = StatusOf(d)
    BY <1>2, <2>1 DEF StatusOf
  <2> QED
    BY <2>2 DEF AStatus
<1>4. StatusOf(c)' = "collected"
  <2>1. conn' = conn
    BY <1>a, RunStepFrame
  <2> QED
    BY <1>1, <1>2, <2>1 DEF StatusOf
<1>5. AGate' = AGate /\ panicked' = panicked
  <2>1. panicked' = panicked
    BY <1>a, RunStepFrame
  <2>2. AGate' = [AGate EXCEPT ![t] = GateOf(t)']
    BY <1>a, RunStepMoves
  <2>3. GateOf(t)' = GateOf(t)
    BY <1>a DEF Receive, GateOf, GetJob, managerVars, TypeOK, JobTypeOK
  <2> QED
    BY <2>1, <2>2, <2>3 DEF AGate
<1>6. CASE StatusOf(c) = "collected"
  <2>1. AStatus' = AStatus
    BY <1>3, <1>4, <1>6 DEF AStatus
  <2> QED
    BY <1>5, <2>1 DEF Abstract!vars, AStatus, AGate
<1>7. CASE StatusOf(c) = "delivered"
  <2>1. Abstract!Collect(c)
    BY <1>1, <1>3, <1>4, <1>5, <1>7
       DEF Abstract!Collect, Abstract!Pass, AStatus, AGate
  <2> QED
    BY <1>1, <2>1 DEF Abstract!Next
<1> QED
  BY <1>1, <1>6, <1>7 DEF StatusOf

\* WaitJob returns at a moment when nobody is inside.
LEMMA WaitJobSettles ==
    ASSUME IInv, NEW t \in TaskIds, WaitJob(t)
    PROVE  Abstract!Inside(t) = {}
<1>1. JobConnectionCount(t) <= 0
  BY DEF WaitJob, JobDone
<1>2. Cardinality(Handlers(t)) = 0
  BY <1>1, HandlersFinite DEF IInv, ConnectionCountExact
<1>3. Handlers(t) = {}
  BY <1>2, HandlersFinite, FS_EmptySet
<1>4. ASSUME NEW c \in Conns, StatusOf(c) = "inside"
      PROVE  conn[c] \in Registered
  <2>1. conn[c] \in ConnState
    BY DEF IInv, TypeOK, StorageTypeOK
  <2> QED
    BY <1>4, <2>1 DEF StatusOf, ConnState, Registered
<1> QED
  BY <1>3, <1>4 DEF Abstract!Inside, Handlers

LEMMA RunStepSimulated ==
    ASSUME IInv, MetadataConserved, ~panicked, NEW t \in TaskIds, RunStep(t)
    PROVE  Abstract!Next \/ UNCHANGED Abstract!vars
<1>a. /\ TypeOK
      /\ run \in [TaskIds -> RunState]
      /\ updater \in [TaskIds -> {"none", "running", "adding", "stopped"}]
      /\ chanClosed \in [TaskIds -> BOOLEAN]
  BY DEF IInv, TypeOK, StorageTypeOK, JobTypeOK
<1>b. /\ t \in currentJobs <=> run[t] \in {"executing", "exec_ok", "exec_err"}
      /\ chanClosed[t] => run[t] \in {"returned", "created", "ended"}
      /\ updater[t] # "none" => run[t] # "idle"
  BY DEF IInv, RunAgreesWithRegistry
<1>c. ASSUME ~Receive(t)
      PROVE  /\ Abstract!Turn(t, GateOf(t), GateOf(t)')
             /\ GateOf(t)' = GateOf(t) => UNCHANGED Abstract!vars
  BY <1>a, <1>c, RunStepTurn
<1>1. CASE Receive(t)
  BY <1>1, ReceiveSimulated
<1>2. CASE Start(t)
  <2>1. GateOf(t) = "new" /\ GateOf(t)' = "open" /\ ~Receive(t)
    BY <1>a, <1>b, <1>2 DEF Start, AddJob, Receive, GateOf, GetJob
  <2>2. Abstract!Announce(t)
    BY <1>c, <2>1 DEF Abstract!Announce
  <2> QED
    BY <2>2 DEF Abstract!Next
<1>3. CASE RemoveFromStorage(t)
  <2>a. ~Receive(t)
    BY <1>a, <1>3 DEF RemoveFromStorage, Receive
  <2>1. CASE updater[t] = "none"
    BY <1>c, <1>3, <2>a, <2>1 DEF RemoveFromStorage, RemoveJob, GateOf,
       GetJob, storageVars
  <2>2. CASE updater[t] # "none"
    <3>1. GateOf(t) = "open" /\ GateOf(t)' = "withdrawn"
      BY <1>a, <1>b, <1>3, <2>2
         DEF RemoveFromStorage, RemoveJob, GateOf, GetJob, storageVars
    <3>2. Abstract!Withdraw(t)
      BY <1>c, <2>a, <3>1 DEF Abstract!Withdraw
    <3> QED
      BY <3>2 DEF Abstract!Next
  <2> QED
    BY <2>1, <2>2
<1>4. CASE WaitJob(t)
  <2>a. ~Receive(t)
    BY <1>a, <1>4 DEF WaitJob, Receive
  <2>1. CASE updater[t] = "none"
    BY <1>c, <1>4, <2>a, <2>1 DEF WaitJob, GateOf, GetJob, managerVars,
       storageVars
  <2>2. CASE updater[t] # "none"
    <3>1. GateOf(t) = "withdrawn" /\ GateOf(t)' = "settled"
      BY <1>a, <1>b, <1>4, <2>2
         DEF WaitJob, GateOf, GetJob, managerVars, storageVars
    <3>2. Abstract!Settle(t)
      BY <1>c, <1>4, <2>a, <3>1, WaitJobSettles DEF Abstract!Settle
    <3> QED
      BY <3>2 DEF Abstract!Next
  <2> QED
    BY <2>1, <2>2
<1>5. CASE CloseChan(t)
  <2>a. ~Receive(t)
    BY <1>a, <1>5 DEF CloseChan, Receive
  <2>1. CASE updater[t] = "none"
    BY <1>c, <1>5, <2>a, <2>1 DEF CloseChan, GateOf, GetJob, managerVars
  <2>2. CASE updater[t] # "none"
    <3>1. GateOf(t) = "settled" /\ GateOf(t)' = "closed"
      BY <1>a, <1>b, <1>5, <2>2 DEF CloseChan, GateOf, GetJob, managerVars
    <3>2. Abstract!Close(t)
      BY <1>c, <2>a, <3>1 DEF Abstract!Close
    <3> QED
      BY <3>2 DEF Abstract!Next
  <2> QED
    BY <2>1, <2>2
<1>6. CASE GetScriptFails(t) \/ SaveCreates(t) \/ SaveWrites(t)
  <2>1. GateOf(t)' = GateOf(t) /\ ~Receive(t)
    BY <1>a, <1>b, <1>6 DEF GetScriptFails, SaveCreates, SaveWrites, Receive,
       GateOf, GetJob, managerVars, storageVars
  <2> QED
    BY <1>c, <2>1
<1>7. CASE Added(t) \/ UpdaterStops(t)
  <2>1. GateOf(t)' = GateOf(t) /\ ~Receive(t)
    BY <1>a, <1>7 DEF Added, UpdaterStops, Receive, GateOf, GetJob,
       managerVars, storageVars
  <2> QED
    BY <1>c, <2>1
<1>8. CASE ScriptSucceeds(t) \/ ScriptFails(t)
  <2>1. GateOf(t)' = GateOf(t) /\ ~Receive(t)
    BY <1>a, <1>b, <1>8 DEF ScriptSucceeds, ScriptFails, Receive, GateOf,
       GetJob, managerVars, storageVars
  <2> QED
    BY <1>c, <2>1
<1> QED
  BY <1>1, <1>2, <1>3, <1>4, <1>5, <1>6, <1>7, <1>8
     DEF RunStep, RunJob, Updater

-----------------------------------------------------------------------------
(* The theorem                                                             *)

LEMMA InitSimulated == Init => Abstract!Init
<1> SUFFICES ASSUME Init PROVE Abstract!Init
  OBVIOUS
<1>1. \A t \in TaskIds : GateOf(t) = "new"
  BY DEF Init, JobInit, GateOf
<1>2. \A c \in Conns : StatusOf(c) = "outside"
  BY DEF Init, StorageInit, StatusOf
<1>3. panicked = FALSE
  BY DEF Init, StorageInit
<1> QED
  BY <1>1, <1>2, <1>3 DEF Abstract!Init

LEMMA NextSimulated ==
    IInv /\ MetadataConserved /\ [Next]_vars => [Abstract!Next]_(Abstract!vars)
<1> SUFFICES ASSUME IInv, MetadataConserved, [Next]_vars
             PROVE  Abstract!Next \/ UNCHANGED Abstract!vars
  OBVIOUS
<1>1. ASSUME UNCHANGED vars PROVE UNCHANGED Abstract!vars
  BY <1>1 DEF vars, managerVars, storageVars, jobVars, Abstract!vars, GateOf,
     GetJob, StatusOf, Collected
<1>2. ASSUME AcceptError, UNCHANGED jobVars PROVE UNCHANGED Abstract!vars
  BY <1>2 DEF AcceptError, managerVars, jobVars, Abstract!vars, GateOf,
     GetJob, StatusOf, Collected
<1>3. ASSUME ~panicked, NEW t \in TaskIds, RunStep(t)
      PROVE  Abstract!Next \/ UNCHANGED Abstract!vars
  BY <1>3, RunStepSimulated
<1>4. ASSUME ~panicked, NEW c \in Conns, ServeStep(c)
      PROVE  Abstract!Next \/ UNCHANGED Abstract!vars
  BY <1>4, HandleConnectionSimulated
<1>5. ASSUME NEW c \in Conns, Dial(c) \/ Script(c) \/ LoseConnection(c)
      PROVE  UNCHANGED Abstract!vars
  <2>1. UNCHANGED <<managerVars, conn, chanClosed, panicked, jobVars>>
    BY <1>5 DEF Dial, Script, SendHeader, SendContent, BreakConnection,
       LoseConnection, ClientStep
  <2> QED
    BY <2>1 DEF managerVars, jobVars, Abstract!vars, GateOf, StatusOf,
       Collected
<1> QED
  BY <1>1, <1>2, <1>3, <1>4, <1>5 DEF Next, Step, ConnStep

\* Counts, lookups, channels and goroutines together behave like a gate that
\* is settled only while nobody is inside.
THEOREM BackupImplementsDelivery == Spec => ImplementsDelivery
<1>1. Init => Abstract!Init
  BY InitSimulated
<1>2. IInv /\ MetadataConserved /\ [Next]_vars
        => [Abstract!Next]_(Abstract!vars)
  BY NextSimulated
<1> QED
  BY <1>1, <1>2, InductiveInvariant, MetadataKept, PTL
     DEF Spec, ImplementsDelivery, Abstract!Spec

-----------------------------------------------------------------------------
(* The two ends of each connection                                         *)

ASame == UNCHANGED Ends!vars

\* The step of one connection moves that connection, and one end of it.
LEMMA ClientEndMoves ==
    ASSUME NEW c \in Conns, NEW a, NEW b, client \in [Conns -> ClientState],
           ClientOf(c) = a, client' = [client EXCEPT ![c] = b],
           b \notin {"idle", "dropped"}, conn' = conn
    PROVE  Ends!ClientGoes(c, a, b)
<1>1. ClientOf(c)' = b /\ \A d \in Conns \ {c} : ClientOf(d)' = ClientOf(d)
  BY DEF ClientOf
<1>2. \A d \in Conns : HandlerOf(d)' = HandlerOf(d)
  BY DEF HandlerOf
<1> QED BY <1>1, <1>2 DEF Ends!ClientGoes

LEMMA HandlerEndMoves ==
    ASSUME NEW c \in Conns, NEW s, conn \in [Conns -> ConnState],
           conn' = [conn EXCEPT ![c] = s], client' = client
    PROVE  /\ [d \in Conns |-> ClientOf(d)][c] = ClientOf(c)
           /\ Ends!HandlerGoes(c, HandlerOf(c), HandlerOf(c)')
           /\ HandlerOf(c)' = HandlerOf(c) => ASame
<1>1. /\ \A d \in Conns \ {c} : HandlerOf(d)' = HandlerOf(d)
      /\ \A d \in Conns : ClientOf(d)' = ClientOf(d)
  BY DEF HandlerOf, ClientOf
<1> QED BY <1>1 DEF Ends!HandlerGoes, ASame, Ends!vars

LEMMA ClientEndMapped ==
    ASSUME TypeOK, NEW c \in Conns, Dial(c) \/ Script(c) \/ LoseConnection(c)
    PROVE  Ends!Next \/ ASame
<1>1. client \in [Conns -> ClientState] /\ conn' = conn
  BY DEF TypeOK, StorageTypeOK, Dial, Script, SendHeader, SendContent,
         BreakConnection, LoseConnection, ClientStep
<1>2. CASE Dial(c)
  <2>1. client[c] = "idle" /\ client' = [client EXCEPT ![c] = "connected"]
    BY <1>2 DEF Dial, ClientStep
  <2>2. \A d \in Conns : ClientOf(d)' = ClientOf(d) /\ HandlerOf(d)' = HandlerOf(d)
    BY <1>1, <2>1 DEF ClientOf, HandlerOf
  <2> QED BY <2>2 DEF ASame, Ends!vars
<1>3. CASE SendHeader(c)
  <2>1. client[c] = "connected" /\ client' = [client EXCEPT ![c] = "headed"]
    BY <1>3 DEF SendHeader, ClientStep
  <2>2. ClientOf(c) = "connected"
    BY <2>1 DEF ClientOf
  <2>3. Ends!SendId(c)
    BY <1>1, <2>1, <2>2, ClientEndMoves DEF Ends!SendId
  <2> QED BY <2>3 DEF Ends!Next
<1>4. CASE SendContent(c)
  <2>1. client[c] = "headed" /\ client' = [client EXCEPT ![c] = "eof"]
    BY <1>4 DEF SendContent, ClientStep
  <2>2. ClientOf(c) = "headed"
    BY <2>1 DEF ClientOf
  <2>3. Ends!End(c)
    BY <1>1, <2>1, <2>2, ClientEndMoves DEF Ends!End
  <2> QED BY <2>3 DEF Ends!Next
<1>5. CASE BreakConnection(c)
  <2>1. \/ client[c] = "connected" /\ client' = [client EXCEPT ![c] = "lost"]
        \/ client[c] = "headed" /\ client' = [client EXCEPT ![c] = "reset"]
    BY <1>5 DEF BreakConnection, ClientStep
  <2>2. ClientOf(c) = client[c]
    BY <2>1 DEF ClientOf
  <2>3. Ends!Break(c)
    BY <1>1, <2>1, <2>2, ClientEndMoves DEF Ends!Break
  <2> QED BY <2>3 DEF Ends!Next
<1>6. CASE LoseConnection(c)
  <2>1. client[c] = "eof" /\ client' = [client EXCEPT ![c] = "dropped"]
    BY <1>6 DEF LoseConnection, ClientStep
  <2>2. /\ ClientOf(c) = "eof" /\ ClientOf(c)' = "reset"
        /\ \A d \in Conns \ {c} : ClientOf(d)' = ClientOf(d)
        /\ \A d \in Conns : HandlerOf(d)' = HandlerOf(d)
    BY <1>1, <2>1 DEF ClientOf, HandlerOf
  <2>3. Ends!Break(c)
    BY <2>2 DEF Ends!Break, Ends!ClientGoes
  <2> QED BY <2>3 DEF Ends!Next
<1> QED BY <1>2, <1>3, <1>4, <1>5, <1>6 DEF Script

LEMMA HandlerEndMapped ==
    ASSUME TypeOK, NEW c \in Conns, Accept(c) \/ HandleConnection(c)
    PROVE  Ends!Next \/ ASame
<1>1. conn \in [Conns -> ConnState] /\ client' = client
  BY DEF TypeOK, StorageTypeOK, Accept, HandleConnection, LookupJob,
         ReadTaskIdFails, Register, NoFilename, OpenFile, ReadContentFails,
         ReceiveContent, SendMetadata, SendPanics, Leave
<1>2. ASSUME NEW s, conn' = [conn EXCEPT ![c] = s]
      PROVE  /\ conn'[c] = s
             /\ [d \in Conns |-> ClientOf(d)][c] = ClientOf(c)
             /\ Ends!HandlerGoes(c, HandlerOf(c), HandlerOf(c)')
             /\ HandlerOf(c)' = HandlerOf(c) => ASame
  BY <1>1, <1>2, HandlerEndMoves
<1>3. CASE Accept(c) \/ Register(c) \/ SendMetadata(c) \/ Leave(c)
  <2>1. PICK s : /\ conn' = [conn EXCEPT ![c] = s]
                 /\ \/ conn[c] = "none" /\ s = "task_id"
                    \/ conn[c] = "found" /\ s = "filename"
                    \/ conn[c] = "sending" /\ s = "sent"
                    \/ conn[c] = "sent" /\ s = "gone"
                    \/ conn[c] = "aborted" /\ s = "failed"
    BY <1>1, <1>3 DEF Accept, Register, SendMetadata, Leave
  <2>2. HandlerOf(c)' = HandlerOf(c)
    BY <1>2, <2>1 DEF HandlerOf
  <2> QED BY <1>2, <2>1, <2>2
<1>4. CASE LookupJob(c)
  <2>1. PICK s : /\ conn' = [conn EXCEPT ![c] = s] /\ s \in {"found", "refused"}
                 /\ conn[c] = "task_id" /\ client[c] \in HeaderSent
    BY <1>4 DEF LookupJob
  <2>2. /\ HandlerOf(c) = "task_id" /\ HandlerOf(c)' \in {"filename", "gaveup"}
        /\ ClientOf(c) \in {"headed", "eof", "reset"}
    BY <1>2, <2>1 DEF HandlerOf, ClientOf, HeaderSent
  <2>3. Ends!Admit(c) \/ Ends!GiveUp(c)
    BY <1>2, <2>1, <2>2 DEF Ends!Admit, Ends!GiveUp
  <2> QED BY <2>3 DEF Ends!Next
<1>5. CASE ReadTaskIdFails(c)
  <2>1. /\ conn' = [conn EXCEPT ![c] = "failed"] /\ conn[c] = "task_id"
        /\ client[c] \in {"lost", "reset", "dropped"}
    BY <1>5 DEF ReadTaskIdFails, Broken
  <2>2. /\ HandlerOf(c) = "task_id" /\ HandlerOf(c)' = "gaveup"
        /\ ClientOf(c) # "connected"
    BY <1>2, <2>1 DEF HandlerOf, ClientOf
  <2>3. Ends!GiveUp(c)
    BY <1>2, <2>1, <2>2 DEF Ends!GiveUp
  <2> QED BY <2>3 DEF Ends!Next
<1>6. CASE NoFilename(c) \/ OpenFile(c) \/ ReadContentFails(c)
  <2>1. PICK s : /\ conn' = [conn EXCEPT ![c] = s]
                 /\ \/ conn[c] = "filename" /\ s \in {"aborted", "receiving"}
                    \/ conn[c] = "receiving" /\ s = "aborted"
    BY <1>6 DEF NoFilename, OpenFile, ReadContentFails
  <2>2. \/ HandlerOf(c) = "filename" /\ HandlerOf(c)' \in {"receiving", "gaveup"}
        \/ HandlerOf(c) = "receiving" /\ HandlerOf(c)' = "gaveup"
    BY <1>2, <2>1 DEF HandlerOf
  <2>3. Ends!Open(c) \/ Ends!GiveUp(c)
    BY <1>2, <2>1, <2>2 DEF Ends!Open, Ends!GiveUp
  <2> QED BY <2>3 DEF Ends!Next
<1>7. CASE ReceiveContent(c)
  <2>1. /\ conn' = [conn EXCEPT ![c] = "sending"] /\ conn[c] = "receiving"
        /\ client[c] = "eof"
    BY <1>7 DEF ReceiveContent
  <2>2. /\ HandlerOf(c) = "receiving" /\ HandlerOf(c)' = "received"
        /\ ClientOf(c) = "eof"
    BY <1>2, <2>1 DEF HandlerOf, ClientOf
  <2>3. Ends!Finish(c)
    BY <1>2, <2>1, <2>2 DEF Ends!Finish
  <2> QED BY <2>3 DEF Ends!Next
<1>8. CASE SendPanics(c)
  BY <1>8 DEF SendPanics, ASame, Ends!vars, ClientOf, HandlerOf
<1> QED
  BY <1>3, <1>4, <1>5, <1>6, <1>7, <1>8 DEF HandleConnection

LEMMA InitConnections == Init => Ends!Init
BY DEF Init, StorageInit, Ends!Init, ClientOf, HandlerOf

\* Whatever the runs and the other connections do, every connection of Backup
\* is one of Connections, as that of Wire is.  (HandleConnection, _send_file)
THEOREM BackupKeepsConnections == Spec => ImplementsConnections
<1>1. TypeOK /\ [Next]_vars => [Ends!Next]_(Ends!vars)
  <2> SUFFICES ASSUME TypeOK, [Next]_vars PROVE Ends!Next \/ ASame
    BY DEF ASame
  <2>1. ASSUME client' = client, conn' = conn PROVE ASame
    BY <2>1 DEF ASame, Ends!vars, ClientOf, HandlerOf
  <2>2. CASE UNCHANGED vars
    BY <2>1, <2>2 DEF vars, storageVars
  <2>3. CASE AcceptError
    BY <2>1, <2>3 DEF AcceptError
  <2>4. ASSUME NEW t \in TaskIds, RunStep(t) PROVE ASame
    BY <2>1, <2>4, RunStepFrame
  <2>5. ASSUME NEW c \in Conns, ConnStep(c) PROVE Ends!Next \/ ASame
    BY <2>5, ClientEndMapped, HandlerEndMapped DEF ConnStep, ServeStep
  <2> QED BY <2>2, <2>3, <2>4, <2>5 DEF Next, Step
<1>2. Spec => Ends!Init /\ [][Ends!Next]_(Ends!vars)
  BY <1>1, InitConnections, TypeCorrect, PTL DEF Spec
<1> QED
  BY <1>2 DEF ImplementsConnections, Ends!Spec

=============================================================================
