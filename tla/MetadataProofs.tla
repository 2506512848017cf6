--------------------------- MODULE MetadataProofs ---------------------------
(***************************************************************************)
(* What happens to the metadata of a file after its handler has sent it,   *)
(* proved for any number of tasks and connections: it is neither lost nor  *)
(* duplicated on its way to the run, and the saved record of a successful  *)
(* run misses no more than a full channel and one file.                    *)
(***************************************************************************)
EXTENDS BackupProofs

-----------------------------------------------------------------------------
(* Sequences                                                               *)

\* Moving the first element of one sequence to the end of the other leaves
\* their concatenation as it is.
LEMMA MoveHead ==
    ASSUME NEW S, NEW s \in Seq(S), NEW u \in Seq(S), u # <<>>
    PROVE  Append(s, Head(u)) \o Tail(u) = s \o u
<1> DEFINE e == Head(u)
           left == Append(s, e) \o Tail(u)
           right == s \o u
<1>1. e \in S /\ Tail(u) \in Seq(S) /\ Len(Tail(u)) = Len(u) - 1
  BY HeadTailProperties
<1>2. /\ Append(s, e) \in Seq(S)
      /\ Len(Append(s, e)) = Len(s) + 1
      /\ \A i \in 1..Len(s) : Append(s, e)[i] = s[i]
      /\ Append(s, e)[Len(s) + 1] = e
  BY <1>1, AppendProperties
<1>3. /\ left \in Seq(S) /\ right \in Seq(S)
      /\ Len(s) \in Nat /\ Len(u) \in Nat \ {0}
      /\ Len(left) = Len(s) + Len(u) /\ Len(right) = Len(s) + Len(u)
  BY <1>1, <1>2, ConcatProperties, LenProperties, EmptySeq
<1>4. ASSUME NEW i \in 1..(Len(s) + Len(u)) PROVE left[i] = right[i]
  <2>1. left[i] = IF i <= Len(s) + 1 THEN Append(s, e)[i]
                                     ELSE Tail(u)[i - (Len(s) + 1)]
    BY <1>1, <1>2, <1>3, ConcatProperties
  <2>2. right[i] = IF i <= Len(s) THEN s[i] ELSE u[i - Len(s)]
    BY <1>3, ConcatProperties
  <2>3. CASE i <= Len(s)
    BY <1>2, <1>3, <2>1, <2>2, <2>3
  <2>4. CASE i = Len(s) + 1
    <3>1. right[i] = u[1] /\ left[i] = e
      BY <1>2, <1>3, <2>1, <2>2, <2>4
    <3> QED
      BY <3>1
  <2>5. CASE i > Len(s) + 1
    <3>1. i - (Len(s) + 1) \in 1..Len(Tail(u))
      BY <1>1, <1>3, <2>5
    <3>2. Tail(u)[i - (Len(s) + 1)] = u[i - (Len(s) + 1) + 1]
      BY <3>1, HeadTailProperties
    <3>3. i - (Len(s) + 1) + 1 = i - Len(s)
      BY <1>3
    <3> QED
      BY <1>3, <2>1, <2>2, <2>5, <3>2, <3>3
  <2> QED
    BY <1>3, <2>3, <2>4, <2>5
<1> QED
  BY <1>3, <1>4, SeqEqual

\* An element appended on the right is the one new element of the whole.
LEMMA AppendRight ==
    ASSUME NEW S, NEW s \in Seq(S), NEW u \in Seq(S), NEW e \in S
    PROVE  /\ Len(s \o Append(u, e)) = Len(s \o u) + 1
           /\ Elements(s \o Append(u, e)) = Elements(s \o u) \cup {e}
<1> DEFINE old == s \o u
           new == s \o Append(u, e)
           n == Len(s) + Len(u)
<1>1. /\ Append(u, e) \in Seq(S)
      /\ Len(Append(u, e)) = Len(u) + 1
      /\ \A i \in 1..Len(u) : Append(u, e)[i] = u[i]
      /\ Append(u, e)[Len(u) + 1] = e
  BY AppendProperties
<1>2. Len(s) \in Nat /\ Len(u) \in Nat /\ Len(old) = n /\ Len(new) = n + 1
  BY <1>1, ConcatProperties, LenProperties
<1>3. ASSUME NEW i \in 1..n PROVE new[i] = old[i]
  <2>1. old[i] = IF i <= Len(s) THEN s[i] ELSE u[i - Len(s)]
    BY ConcatProperties
  <2>2. new[i] = IF i <= Len(s) THEN s[i] ELSE Append(u, e)[i - Len(s)]
    BY <1>1, <1>2, ConcatProperties
  <2> QED
    BY <1>1, <1>2, <2>1, <2>2
<1>4. new[n + 1] = e
  <2>1. new[n + 1] = IF n + 1 <= Len(s) THEN s[n + 1]
                                        ELSE Append(u, e)[n + 1 - Len(s)]
    BY <1>1, <1>2, ConcatProperties
  <2> QED
    BY <1>1, <1>2, <2>1
<1>5. {new[i] : i \in 1..(n + 1)} = {old[i] : i \in 1..n} \cup {e}
  <2>1. 1..(n + 1) = (1..n) \cup {n + 1}
    BY <1>2
  <2> HIDE DEF n, old, new
  <2> QED
    BY <1>3, <1>4, <2>1
<1> QED
  BY <1>2, <1>5 DEF Elements

-----------------------------------------------------------------------------
(* From the handler to metadata.Files                                      *)

\* Only the send puts a connection among those that have sent, and only the
\* send changes a channel.
LEMMA SentFrame ==
    ASSUME TypeOK, NEW c \in Conns, ConnStep(c), ~SendMetadata(c)
    PROVE  /\ fileAddChan' = fileAddChan
           /\ \A t \in TaskIds : Sent(t)' = Sent(t)
<1>1. conn \in [Conns -> ConnState]
  BY DEF TypeOK, StorageTypeOK
<1>2. /\ fileAddChan' = fileAddChan
      /\ \A d \in Conns :
           conn'[d] \in {"sent", "gone"} <=> conn[d] \in {"sent", "gone"}
  <2>1. CASE Accept(c)
    BY <1>1, <2>1 DEF Accept
  <2>2. CASE HandleConnection(c)
    BY <1>1, <2>2 DEF HandleConnection, LookupJob, ReadTaskIdFails, Register,
       NoFilename, OpenFile, ReadContentFails, ReceiveContent, SendPanics,
       Leave
  <2>3. CASE Dial(c) \/ Script(c) \/ LoseConnection(c)
    BY <2>3 DEF Dial, Script, SendHeader, SendContent, BreakConnection, LoseConnection,
       ClientStep
  <2> QED
    BY <2>1, <2>2, <2>3 DEF ConnStep, ServeStep
<1> QED
  BY <1>2 DEF Sent, ConnsOf

LEMMA SendMetadataSent ==
    ASSUME TypeOK, NEW c \in Conns, SendMetadata(c)
    PROVE  /\ c \notin Sent(TaskOf[c])
           /\ Sent(TaskOf[c])' = Sent(TaskOf[c]) \cup {c}
           /\ \A t \in TaskIds \ {TaskOf[c]} :
                Sent(t)' = Sent(t) /\ fileAddChan'[t] = fileAddChan[t]
           /\ fileAddChan'[TaskOf[c]] = Append(fileAddChan[TaskOf[c]], c)
BY StorageAssumption
   DEF StorageAssumption, TypeOK, StorageTypeOK, SendMetadata, Sent, ConnsOf

LEMMA SentFinite ==
    ASSUME NEW t \in TaskIds
    PROVE  IsFiniteSet(Sent(t)) /\ Cardinality(Sent(t)) \in Nat
<1>1. IsFiniteSet(Conns) /\ Sent(t) \in SUBSET Conns
  BY StorageAssumption DEF StorageAssumption, Sent, ConnsOf
<1> QED
  BY <1>1, FS_Subset, FS_CardinalityType

LEMMA InitMetadataConserved == Init => MetadataConserved
<1> SUFFICES ASSUME Init, NEW t \in TaskIds
             PROVE  /\ Elements(Pipeline(t)) = Sent(t)
                    /\ Len(Pipeline(t)) = Cardinality(Sent(t))
  BY DEF MetadataConserved
<1>1. files[t] = <<>> /\ fileAddChan[t] = <<>> /\ Sent(t) = {}
  BY DEF Init, StorageInit, JobInit, Sent, ConnsOf
<1>2. Pipeline(t) = <<>> /\ Len(Pipeline(t)) = 0
  BY <1>1, EmptySeq, ConcatEmptySeq DEF Pipeline
<1> QED
  BY <1>1, <1>2, FS_EmptySet DEF Elements

LEMMA NextMetadataConserved ==
    TypeOK /\ MetadataConserved /\ [Next]_vars => MetadataConserved'
<1> SUFFICES ASSUME TypeOK, MetadataConserved, [Next]_vars, NEW t \in TaskIds
             PROVE  /\ Elements(Pipeline(t))' = Sent(t)'
                    /\ Len(Pipeline(t)') = Cardinality(Sent(t)')
  BY DEF MetadataConserved
<1> DEFINE Conserved ==
             /\ Elements(Pipeline(t))' = Sent(t)'
             /\ Len(Pipeline(t)') = Cardinality(Sent(t)')
<1>a. /\ Elements(Pipeline(t)) = Sent(t)
      /\ Len(Pipeline(t)) = Cardinality(Sent(t))
  BY DEF MetadataConserved
<1>b. files[t] \in Seq(Conns) /\ fileAddChan[t] \in Seq(Conns)
  BY DEF TypeOK, StorageTypeOK, JobTypeOK
<1>1. ASSUME Pipeline(t)' = Pipeline(t), Sent(t)' = Sent(t)
      PROVE  Conserved
  BY <1>a, <1>1
<1>2. CASE UNCHANGED vars
  BY <1>1, <1>2 DEF vars, storageVars, jobVars, Pipeline, Sent, ConnsOf
<1>3. CASE AcceptError /\ UNCHANGED jobVars
  BY <1>1, <1>3 DEF AcceptError, jobVars, Pipeline, Sent, ConnsOf
<1>4. ASSUME NEW u \in TaskIds, RunStep(u) PROVE Conserved
  <2>1. Sent(t)' = Sent(t)
    BY <1>4, RunStepFrame DEF Sent, ConnsOf
  <2>2. CASE Receive(t)
    <3>1. Pipeline(t)' = Append(files[t], Head(fileAddChan[t]))
                           \o Tail(fileAddChan[t])
      BY <2>2 DEF Receive, Pipeline, TypeOK, StorageTypeOK, JobTypeOK
    <3>2. Pipeline(t)' = Pipeline(t)
      BY <1>b, <2>2, <3>1, MoveHead DEF Receive, Pipeline
    <3> QED
      BY <1>1, <2>1, <3>2
  <2>3. CASE ~Receive(t)
    <3>1. files'[t] = files[t] /\ fileAddChan'[t] = fileAddChan[t]
      BY <1>4, <2>3 DEF RunStep, RunJob, GetScriptFails, Start,
         RemoveFromStorage, WaitJob, CloseChan, SaveCreates, SaveWrites,
         Updater, Receive, Added, UpdaterStops, ScriptSucceeds, ScriptFails,
         storageVars, TypeOK, StorageTypeOK, JobTypeOK
    <3> QED
      BY <1>1, <2>1, <3>1 DEF Pipeline
  <2> QED
    BY <2>2, <2>3
<1>5. ASSUME NEW c \in Conns, ConnStep(c) PROVE Conserved
  <2>1. files' = files
    BY <1>5, ConnStepFrame
  <2>2. CASE ~SendMetadata(c)
    BY <1>1, <1>5, <2>1, <2>2, SentFrame DEF Pipeline
  <2>3. CASE SendMetadata(c) /\ TaskOf[c] # t
    BY <1>1, <2>1, <2>3, SendMetadataSent DEF Pipeline
  <2>4. CASE SendMetadata(c) /\ TaskOf[c] = t
    <3>1. Pipeline(t)' = files[t] \o Append(fileAddChan[t], c)
      BY <2>1, <2>4, SendMetadataSent DEF Pipeline
    <3>2. /\ Len(Pipeline(t)') = Len(Pipeline(t)) + 1
          /\ Elements(Pipeline(t))' = Elements(Pipeline(t)) \cup {c}
      <4>1. Elements(Pipeline(t))' = Elements(Pipeline(t)')
        BY DEF Elements
      <4>2. \A s, u \in Seq(Conns) :
              /\ Len(s \o Append(u, c)) = Len(s \o u) + 1
              /\ Elements(s \o Append(u, c)) = Elements(s \o u) \cup {c}
        BY AppendRight
      <4>3. Pipeline(t) = files[t] \o fileAddChan[t]
        BY DEF Pipeline
      <4> QED
        BY <1>b, <3>1, <4>1, <4>2, <4>3
    <3>3. Sent(t)' = Sent(t) \cup {c} /\ c \notin Sent(t)
      BY <2>4, SendMetadataSent
    <3>4. Cardinality(Sent(t)') = Cardinality(Sent(t)) + 1
      BY <3>3, SentFinite, FS_AddElement
    <3> QED
      BY <1>a, <3>2, <3>3, <3>4
  <2> QED
    BY <2>2, <2>3, <2>4
<1> QED
  BY <1>2, <1>3, <1>4, <1>5 DEF Next, Step

\* What the handlers of a task have sent is, without loss or duplicate, what
\* its run has collected and what is still in its channel.
THEOREM MetadataKept == Spec => []MetadataConserved
<1>1. Init => MetadataConserved
  BY InitMetadataConserved
<1>2. TypeOK /\ MetadataConserved /\ [Next]_vars => MetadataConserved'
  BY NextMetadataConserved
<1> QED
  BY <1>1, <1>2, TypeCorrect, PTL DEF Spec

-----------------------------------------------------------------------------
(* What the saved record can miss                                          *)

LEMMA NextRecordAfterClose ==
    TypeOK /\ RecordAfterClose /\ [Next]_vars => RecordAfterClose'
<1> SUFFICES ASSUME TypeOK, RecordAfterClose, [Next]_vars
             PROVE  RecordAfterClose'
  OBVIOUS
<1> USE DEF RecordAfterClose
<1>a. /\ run \in [TaskIds -> RunState]
      /\ success \in [TaskIds -> BOOLEAN]
      /\ saved \in [TaskIds -> SavedRecord]
      /\ chanClosed \in [TaskIds -> BOOLEAN]
  BY DEF TypeOK, StorageTypeOK, JobTypeOK
<1>1. CASE UNCHANGED vars
  BY <1>1 DEF vars, storageVars, jobVars
<1>2. CASE AcceptError /\ UNCHANGED jobVars
  BY <1>2 DEF AcceptError, jobVars
<1>3. ASSUME NEW c \in Conns, ConnStep(c) PROVE RecordAfterClose'
  BY <1>3, ConnStepFrame
<1>4. ASSUME NEW t \in TaskIds, RunStep(t) PROVE RecordAfterClose'
  <2> USE DEF storageVars
  <2>1. CASE GetScriptFails(t) \/ Start(t) \/ WaitJob(t)
    BY <1>a, <2>1 DEF GetScriptFails, Start, WaitJob
  <2>2. CASE RemoveFromStorage(t)
    BY <1>a, <2>2 DEF RemoveFromStorage
  <2>3. CASE CloseChan(t)
    BY <1>a, <2>3 DEF CloseChan
  <2>4. CASE SaveCreates(t)
    <3>1. \A u \in TaskIds : saved'[u].state = "written"
                               => saved[u].state = "written"
      BY <1>a, <2>4 DEF SaveCreates, SavedRecord
    <3> QED
      BY <1>a, <2>4, <3>1 DEF SaveCreates
  <2>5. CASE SaveWrites(t)
    <3>1. \A u \in TaskIds \ {t} : saved'[u] = saved[u]
      BY <1>a, <2>5 DEF SaveWrites
    <3> QED
      BY <1>a, <2>5, <3>1 DEF SaveWrites
  <2>6. CASE Updater(t)
    BY <2>6 DEF Updater, Receive, Added, UpdaterStops
  <2>7. CASE ScriptSucceeds(t) \/ ScriptFails(t)
    BY <1>a, <2>7 DEF ScriptSucceeds, ScriptFails
  <2> QED
    BY <1>4, <2>1, <2>2, <2>3, <2>4, <2>5, <2>6, <2>7 DEF RunStep, RunJob
<1> QED
  BY <1>1, <1>2, <1>3, <1>4 DEF Next, Step

\* The encoder misses at most the append that is in flight.
LEMMA SeenLength ==
    ASSUME TypeOK, NEW t \in TaskIds, NEW seen \in SeenFiles(t)
    PROVE  Len(seen) \in Nat /\ Len(files[t]) <= Len(seen) + 1
<1> DEFINE s == files[t]
           n == Len(s)
<1>1. s \in Seq(Conns) /\ n \in Nat
  BY LenProperties DEF TypeOK, JobTypeOK
<1>2. CASE seen = s
  BY <1>1, <1>2
<1>3. CASE n > 0 /\ seen = SubSeq(s, 1, n - 1)
  <2>1. 1 \in Int /\ n - 1 \in Int /\ \A i \in 1..(n - 1) : s[i] \in Conns
    BY <1>1, ElementOfSeq
  <2>2. Len(seen) = n - 1
    BY <1>1, <1>3, <2>1, SubSeqProperties
  <2> QED
    BY <1>1, <1>3, <2>2
<1>4. CASE n > 0 /\ seen = [s EXCEPT ![n] = NoFile]
  <2>1. s \in Seq(Conns \cup {NoFile})
    BY <1>1, SeqMonotonic
  <2>2. seen \in Seq(Conns \cup {NoFile}) /\ Len(seen) = n
    BY <1>1, <1>4, <2>1, ExceptSeq
  <2> QED
    BY <1>1, <2>2
<1> QED
  BY <1>2, <1>3, <1>4 DEF SeenFiles

\* While a successful run has its record written, nothing is sent for it;
\* the step that writes it sees the pipeline, of which the channel holds at
\* most ChanCap.
LEMMA NextLossBounded ==
    /\ TypeOK /\ RecordAfterClose /\ MetadataConserved /\ LossBounded
    /\ [Next]_vars
    => LossBounded'
<1> SUFFICES ASSUME TypeOK, RecordAfterClose, MetadataConserved, LossBounded,
                    [Next]_vars, NEW t \in TaskIds,
                    success'[t], saved'[t].state = "written"
             PROVE  Cardinality(Sent(t)') <= Len(saved'[t].files) + ChanCap + 1
  BY DEF LossBounded
<1> DEFINE Bounded ==
             Cardinality(Sent(t)') <= Len(saved'[t].files) + ChanCap + 1
<1>a. /\ run \in [TaskIds -> RunState]
      /\ success \in [TaskIds -> BOOLEAN]
      /\ saved \in [TaskIds -> SavedRecord]
      /\ TaskOf \in [Conns -> TaskIds] /\ ChanCap \in Nat
  BY StorageAssumption DEF StorageAssumption, TypeOK, JobTypeOK
<1>1. ASSUME success[t], saved'[t] = saved[t], Sent(t)' = Sent(t)
      PROVE  Bounded
  BY <1>1 DEF LossBounded
<1>2. CASE UNCHANGED vars
  BY <1>1, <1>2 DEF vars, storageVars, jobVars, Sent, ConnsOf
<1>3. CASE AcceptError /\ UNCHANGED jobVars
  BY <1>1, <1>3 DEF AcceptError, jobVars, Sent, ConnsOf
<1>4. ASSUME NEW c \in Conns, ConnStep(c) PROVE Bounded
  <2>1. success[t] /\ saved'[t] = saved[t]
    BY <1>4, ConnStepFrame
  <2>2. chanClosed[t]
    BY <2>1 DEF RecordAfterClose
  <2>3. CASE ~SendMetadata(c)
    BY <1>1, <1>4, <2>1, <2>3, SentFrame
  <2>4. CASE SendMetadata(c)
    <3>1. TaskOf[c] # t
      BY <2>2, <2>4 DEF SendMetadata
    <3> QED
      BY <1>1, <2>1, <2>4, <3>1, SendMetadataSent
  <2> QED
    BY <2>3, <2>4
<1>5. ASSUME NEW u \in TaskIds, RunStep(u) PROVE Bounded
  <2>1. Sent(t)' = Sent(t)
    BY <1>5, RunStepFrame DEF Sent, ConnsOf
  <2>2. CASE u = t /\ SaveWrites(t) /\ saved' # saved
    <3>1. PICK seen \in SeenFiles(t) : saved'[t].files = seen
      BY <1>a, <2>2 DEF SaveWrites
    <3>2. Len(seen) \in Nat /\ Len(files[t]) <= Len(seen) + 1
      BY SeenLength
    <3>3. /\ files[t] \in Seq(Conns) /\ fileAddChan[t] \in Seq(Conns)
          /\ Len(fileAddChan[t]) <= ChanCap
      BY DEF TypeOK, StorageTypeOK, JobTypeOK
    <3>4. Len(Pipeline(t)) = Len(files[t]) + Len(fileAddChan[t])
      BY <3>3, ConcatProperties DEF Pipeline
    <3>5. Cardinality(Sent(t)) = Len(files[t]) + Len(fileAddChan[t])
      BY <3>4 DEF MetadataConserved
    <3>6. /\ Len(files[t]) \in Nat /\ Len(fileAddChan[t]) \in Nat
          /\ ChanCap \in Nat /\ Len(fileAddChan[t]) <= ChanCap
      BY <1>a, <3>3, LenProperties
    <3>7. Len(files[t]) + Len(fileAddChan[t]) <= Len(seen) + ChanCap + 1
      <4>1. \A a, b, m, n \in Nat : a <= b + 1 /\ m <= n => a + m <= b + n + 1
        OBVIOUS
      <4> QED
        BY <3>2, <3>6, <4>1, Zenon
    <3> QED
      BY <2>1, <3>1, <3>5, <3>7
  <2>3. CASE ~(u = t /\ SaveWrites(t) /\ saved' # saved)
    \* A record that is already written stays, and so does its success.
    <3>1. saved'[t] = saved[t]
      <4>1. CASE SaveCreates(u)
        <5>1. u = t => saved'[t].state = "partial" \/ saved' = saved
          BY <1>a, <4>1 DEF SaveCreates, SavedRecord
        <5> QED
          BY <1>a, <4>1, <5>1 DEF SaveCreates
      <4>2. CASE SaveWrites(u)
        BY <1>a, <2>3, <4>2 DEF SaveWrites
      <4>3. CASE ~SaveCreates(u) /\ ~SaveWrites(u)
        BY <1>5, <4>3 DEF RunStep, RunJob, GetScriptFails, Start,
           RemoveFromStorage, WaitJob, CloseChan, Updater, Receive, Added,
           UpdaterStops, ScriptSucceeds, ScriptFails
      <4> QED
        BY <4>1, <4>2, <4>3
    <3>2. run[t] = "ended"
      BY <3>1 DEF RecordAfterClose
    <3>3. success[t]
      BY <1>a, <1>5, <3>2 DEF RunStep, RunJob, GetScriptFails, Start,
         RemoveFromStorage, WaitJob, CloseChan, SaveCreates, SaveWrites,
         Updater, Receive, Added, UpdaterStops, ScriptSucceeds, ScriptFails
    <3> QED
      BY <1>1, <2>1, <3>1, <3>3
  <2> QED
    BY <2>2, <2>3
<1> QED
  BY <1>2, <1>3, <1>4, <1>5 DEF Next, Step

\* The record of a successful run misses at most a full channel and the file
\* that the updater is adding.
THEOREM LossIsBounded == Spec => []LossBounded
<1>1. Init => RecordAfterClose /\ LossBounded
  BY DEF Init, JobInit, RecordAfterClose, LossBounded
<1>2. TypeOK /\ RecordAfterClose /\ [Next]_vars => RecordAfterClose'
  BY NextRecordAfterClose
<1>3. /\ TypeOK /\ RecordAfterClose /\ MetadataConserved /\ LossBounded
      /\ [Next]_vars
      => LossBounded'
  BY NextLossBounded
<1> QED
  BY <1>1, <1>2, <1>3, TypeCorrect, MetadataKept, PTL DEF Spec

=============================================================================
