-------------------------- MODULE RetentionProofs --------------------------
(***************************************************************************)
(* What CleanupExpired may remove, and what it may not leave behind, for   *)
(* any number of runs, jobs and names and however often the process stops. *)
(* RemovalInv is the common part of the two invariants.                    *)
(***************************************************************************)
EXTENDS Retention, TLAPS

-----------------------------------------------------------------------------
(* Type correctness                                                        *)

LEMMA PathsOf ==
    ASSUME NEW r \in Runs, NEW n \in Names
    PROVE  SavePath(r, n) \in Paths /\ RemovePath(r, n) \in Paths
<1>1. JobOf[r] \in Jobs
  BY RetentionAssumption DEF RetentionAssumption
<1>2. RemovePath(r, n) \in Paths /\ RemovePath(r, n) \in Joined
  BY <1>1, RetentionAssumption DEF RetentionAssumption, RemovePath, Joined
<1>3. WithGz[RemovePath(r, n)] \in Paths
  BY <1>2, RetentionAssumption DEF RetentionAssumption
<1> QED
  BY <1>2, <1>3 DEF SavePath

LEMMA InitTypeOK == Init => TypeOK
BY RetentionAssumption DEF RetentionAssumption, Init, TypeOK

LEMMA NextTypeOK == TypeOK /\ [Next]_vars => TypeOK'
<1> SUFFICES ASSUME TypeOK, [Next]_vars PROVE TypeOK'
  OBVIOUS
<1> USE DEF TypeOK, runVars, diskVars, roundVars
<1>a. /\ JobOf \in [Runs -> Jobs] /\ NamesOf \in [Runs -> SUBSET Names]
      /\ None \notin Runs /\ MaxTime \in Nat /\ MaxStops \in Nat
  BY RetentionAssumption DEF RetentionAssumption
<1>1. CASE UNCHANGED vars
  BY <1>1 DEF vars
<1>2. CASE Tick
  BY <1>a, <1>2 DEF Tick
<1>3. CASE Stop
  BY <1>a, <1>3 DEF Stop
<1>4. ASSUME NEW r \in Runs, Run(r) PROVE TypeOK'
  <2>1. CASE Begin(r)
    BY <1>a, <2>1 DEF Begin
  <2>2. CASE CreateFile(r)
    <3>1. PICK n \in NamesOf[r] :
            /\ data' = [data EXCEPT ![SavePath(r, n)] = <<r, n>>]
            /\ stored' = [stored EXCEPT ![r] = @ \cup {n}]
      BY <2>2 DEF CreateFile
    <3>2. n \in Names /\ <<r, n>> \in Runs \X Names
      BY <1>a
    <3>3. data' \in [Paths -> (Runs \X Names) \cup {None}]
      BY <3>1, <3>2
    <3>4. stored' \in [Runs -> SUBSET Names]
      BY <3>1, <3>2
    <3> QED
      BY <2>2, <3>3, <3>4 DEF CreateFile
  <2>6. CASE ListFile(r)
    BY <2>6 DEF ListFile
  <2>3. CASE Return(r)
    BY <2>3 DEF Return
  <2>4. CASE CreateRecord(r)
    BY <2>4 DEF CreateRecord
  <2>5. CASE WriteRecord(r)
    BY <2>5 DEF WriteRecord
  <2> QED
    BY <1>4, <2>1, <2>2, <2>3, <2>4, <2>5, <2>6 DEF Run
<1>5. CASE Cleanup
  <2>1. CASE StartRound
    BY <2>1 DEF StartRound
  <2>2. CASE EndWalk
    BY <2>2 DEF EndWalk
  <2>11. CASE WalkFails
    BY <1>a, <2>11 DEF WalkFails
  <2>3. CASE EndMove
    BY <1>a, <2>3 DEF EndMove
  <2>4. CASE EndRound
    BY <2>4 DEF EndRound
  <2>5. ASSUME NEW r \in Runs, Visit(r) PROVE TypeOK'
    BY <2>5 DEF Visit
  <2>6. ASSUME NEW r \in Runs, MoveCorrupted(r) PROVE TypeOK'
    BY <2>6 DEF MoveCorrupted
  <2>7. ASSUME NEW r \in Runs, Review(r) PROVE TypeOK'
    BY <2>7 DEF Review
  <2>8. ASSUME NEW j \in Jobs, JudgeJob(j) PROVE TypeOK'
    BY <2>8 DEF JudgeJob, LoadedOf
  <2>9. CASE RemoveFile
    BY <2>9 DEF RemoveFile
  <2>10. CASE RemoveRecord
    BY <2>10 DEF RemoveRecord
  <2> QED
    BY <1>5, <2>1, <2>2, <2>3, <2>4, <2>5, <2>6, <2>7, <2>8, <2>9, <2>10, <2>11
       DEF Cleanup
<1> QED
  BY <1>1, <1>2, <1>3, <1>4, <1>5 DEF Next

-----------------------------------------------------------------------------
(* The common part                                                         *)

LEMMA NextRemovalInv == TypeOK /\ RemovalInv /\ [Next]_vars => RemovalInv'
<1> SUFFICES ASSUME TypeOK, RemovalInv, [Next]_vars PROVE RemovalInv'
  OBVIOUS
<1> USE DEF TypeOK, RemovalInv, Ended, Expired, ExpireTime, runVars, diskVars,
        roundVars
<1>a. /\ JobOf \in [Runs -> Jobs] /\ MaxAge \in [Jobs -> Nat]
      /\ None \notin Runs
  BY RetentionAssumption DEF RetentionAssumption
<1>1. CASE UNCHANGED vars
  BY <1>1 DEF vars
<1>2. CASE Tick
  BY <1>a, <1>2 DEF Tick
<1>3. CASE Stop
  BY <1>3 DEF Stop
<1>4. ASSUME NEW r \in Runs, Run(r) PROVE RemovalInv'
  <2>1. CASE Begin(r)
    <3>1. r # removing
      BY <1>a, <2>1 DEF Begin
    <3> QED
      BY <1>a, <2>1, <3>1 DEF Begin
  <2>2. CASE CreateFile(r)
    BY <2>2 DEF CreateFile
  <2>6. CASE ListFile(r)
    <3>1. r # removing
      BY <1>a, <2>6 DEF ListFile
    <3> QED
      BY <1>a, <2>6, <3>1 DEF ListFile
  <2>3. CASE Return(r)
    BY <2>3 DEF Return
  <2>4. CASE CreateRecord(r)
    BY <2>4 DEF CreateRecord
  <2>5. CASE WriteRecord(r)
    BY <2>5 DEF WriteRecord
  <2> QED
    BY <1>4, <2>1, <2>2, <2>3, <2>4, <2>5, <2>6 DEF Run
<1>5. CASE Cleanup
  <2>1. CASE StartRound \/ EndWalk \/ WalkFails \/ EndMove \/ EndRound
    BY <2>1 DEF StartRound, EndWalk, WalkFails, EndMove, EndRound
  <2>2. ASSUME NEW r \in Runs, Visit(r) \/ MoveCorrupted(r) PROVE RemovalInv'
    BY <2>2 DEF Visit, MoveCorrupted
  <2>3. ASSUME NEW r \in Runs, Review(r) PROVE RemovalInv'
    BY <1>a, <2>3 DEF Review
  <2>4. ASSUME NEW j \in Jobs, JudgeJob(j) PROVE RemovalInv'
    BY <2>4 DEF JudgeJob
  <2>5. CASE RemoveFile
    BY <2>5 DEF RemoveFile
  <2>6. CASE RemoveRecord
    BY <2>6 DEF RemoveRecord
  <2> QED
    BY <1>5, <2>1, <2>2, <2>3, <2>4, <2>5, <2>6 DEF Cleanup
<1> QED
  BY <1>1, <1>2, <1>3, <1>4, <1>5 DEF Next

-----------------------------------------------------------------------------
(* Listed files are kept until they expire                                 *)

LEMMA NextMissingOnlyIfExpired ==
    ASSUME FreshPaths
    PROVE  TypeOK /\ RemovalInv /\ MissingOnlyIfExpired /\ [Next]_vars
           => MissingOnlyIfExpired'
<1> SUFFICES ASSUME TypeOK, RemovalInv, MissingOnlyIfExpired, [Next]_vars,
                    NEW q \in Runs, NEW m \in stored'[q],
                    data'[SavePath(q, m)] # <<q, m>>
             PROVE  Ended(q)' /\ Expired(q)'
  BY DEF MissingOnlyIfExpired, SavePath, RemovePath
<1> USE DEF TypeOK, Ended, Expired, ExpireTime, runVars, diskVars, roundVars
<1>a. /\ JobOf \in [Runs -> Jobs] /\ NamesOf \in [Runs -> SUBSET Names]
      /\ MaxAge \in [Jobs -> Nat] /\ None \notin Runs
  BY RetentionAssumption DEF RetentionAssumption
<1>b. m \in stored[q] /\ data[SavePath(q, m)] # <<q, m>>
      => Ended(q) /\ now >= start[q] + MaxAge[JobOf[q]]
  BY DEF MissingOnlyIfExpired
<1>1. CASE UNCHANGED vars
  BY <1>b, <1>1 DEF vars
<1>2. CASE Tick
  BY <1>a, <1>b, <1>2 DEF Tick
<1>3. CASE Stop
  BY <1>b, <1>3 DEF Stop
<1>4. ASSUME NEW r \in Runs, Run(r) PROVE Ended(q)' /\ Expired(q)'
  <2>1. CASE CreateFile(r)
    <3>1. PICK n \in NamesOf[r] \ stored[r] :
            /\ data' = [data EXCEPT ![SavePath(r, n)] = <<r, n>>]
            /\ stored' = [stored EXCEPT ![r] = @ \cup {n}]
      BY <2>1 DEF CreateFile
    <3>2. UNCHANGED <<now, start, phase>>
      BY <2>1 DEF CreateFile
    <3>3. n \in Names /\ SavePath(r, n) \in Paths
      BY <1>a, PathsOf
    \* The file is not the one that is missing, so it is somewhere else.
    <3>4. <<r, n>> # <<q, m>>
      BY <3>1, <3>3
    <3>5. m \in stored[q] /\ m \in NamesOf[q] /\ m \in Names
      BY <1>a, <3>1, <3>4 DEF RemovalInv
    <3>6. SavePath(r, n) # SavePath(q, m)
      BY <3>1, <3>4, <3>5 DEF FreshPaths
    <3>7. data[SavePath(q, m)] # <<q, m>>
      BY <3>1, <3>5, <3>6, PathsOf
    <3> QED
      BY <1>b, <3>2, <3>5, <3>7
  <2>3. CASE Begin(r)
    <3>1. stored' = stored /\ data' = data /\ now' = now
      BY <2>3 DEF Begin
    <3>2. Ended(q) /\ now >= start[q] + MaxAge[JobOf[q]]
      BY <1>b, <3>1
    <3>3. r # q
      BY <2>3, <3>2 DEF Begin
    <3> QED
      BY <2>3, <3>1, <3>2, <3>3 DEF Begin
  <2>4. CASE ListFile(r) \/ Return(r) \/ CreateRecord(r) \/ WriteRecord(r)
    <3>1. stored' = stored /\ data' = data /\ now' = now /\ start' = start
      BY <2>4 DEF ListFile, Return, CreateRecord, WriteRecord
    <3>2. Ended(q) /\ now >= start[q] + MaxAge[JobOf[q]]
      BY <1>b, <3>1
    <3>3. Ended(q)'
      BY <2>4, <3>2 DEF ListFile, Return, CreateRecord, WriteRecord
    <3> QED
      BY <3>1, <3>2, <3>3
  <2> QED
    BY <1>4, <2>1, <2>3, <2>4 DEF Run
<1>5. CASE Cleanup
  <2>1. UNCHANGED <<now, runVars>>
    BY <1>5 DEF Cleanup, StartRound, EndWalk, WalkFails, EndMove, EndRound, Visit,
       MoveCorrupted, Review, JudgeJob, RemoveFile, RemoveRecord
  <2>2. CASE data' = data
    BY <1>b, <2>1, <2>2
  <2>3. CASE data' # data
    <3>1. PICK n \in filesLeft :
            /\ removing # None
            /\ data' = [data EXCEPT ![RemovePath(removing, n)] = None]
      BY <1>5, <2>3 DEF Cleanup, StartRound, EndWalk, WalkFails, EndMove, EndRound,
         Visit, MoveCorrupted, Review, JudgeJob, RemoveFile, RemoveRecord
    <3>2. /\ removing \in Runs /\ Expired(removing)
          /\ Ended(removing)
          /\ n \in NamesOf[removing]
      BY <1>a, <3>1 DEF RemovalInv
    <3>3. CASE removing = q
      BY <2>1, <3>2, <3>3
    <3>4. CASE removing # q
      <4>1. m \in stored[q] /\ m \in NamesOf[q] /\ m \in Names
        BY <1>a, <2>1 DEF RemovalInv
      <4>2. SavePath(q, m) # RemovePath(removing, n)
        BY <3>2, <3>4, <4>1 DEF FreshPaths
      <4>3. data[SavePath(q, m)] # <<q, m>>
        BY <1>a, <3>1, <4>1, <4>2, PathsOf
      <4> QED
        BY <1>b, <2>1, <4>1, <4>3
    <3> QED
      BY <3>3, <3>4
  <2> QED
    BY <2>2, <2>3
<1> QED
  BY <1>1, <1>2, <1>3, <1>4, <1>5 DEF Next

LEMMA KeptInvariant ==
    ASSUME FreshPaths
    PROVE  Spec => [](TypeOK /\ RemovalInv /\ MissingOnlyIfExpired)
<1> DEFINE Inv == TypeOK /\ RemovalInv /\ MissingOnlyIfExpired
<1>1. Init => Inv
  BY InitTypeOK DEF Init, RemovalInv, MissingOnlyIfExpired
<1>2. Inv /\ [Next]_vars => Inv'
  BY NextTypeOK, NextRemovalInv, NextMissingOnlyIfExpired
<1> QED
  BY <1>1, <1>2, PTL DEF Spec

\* If every file that is sent has a path of its own, a file that unexpired
\* metadata lists is on the disk, with the content that its run sent under
\* that name.
THEOREM FilesKept ==
    ASSUME FreshPaths
    PROVE  Spec => []ListedFilesKept
<1>1. RemovalInv /\ MissingOnlyIfExpired => ListedFilesKept
  BY DEF RemovalInv, MissingOnlyIfExpired, ListedFilesKept
<1> QED
  BY <1>1, KeptInvariant, PTL

-----------------------------------------------------------------------------
(* Removed metadata leaves no file behind                                  *)

LEMMA NextRemoved ==
    ASSUME GzipJobs = {}
    PROVE  TypeOK /\ RemovalInv /\ RemovedSoFar /\ NoOrphans /\ [Next]_vars
           => RemovedSoFar' /\ NoOrphans'
<1> SUFFICES ASSUME TypeOK, RemovalInv, RemovedSoFar, NoOrphans, [Next]_vars
             PROVE  RemovedSoFar' /\ NoOrphans'
  OBVIOUS
<1> USE DEF TypeOK, RemovedSoFar, NoOrphans, runVars, diskVars, roundVars
<1>a. /\ NamesOf \in [Runs -> SUBSET Names] /\ None \notin Runs
      /\ None \notin Runs \X Names
  BY RetentionAssumption DEF RetentionAssumption
<1>b. \A r \in Runs : \A n \in Names : RemovePath(r, n) = SavePath(r, n)
  <2> SUFFICES ASSUME NEW r \in Runs
               PROVE  (JobOf[r] \in GzipJobs) = FALSE
    BY DEF SavePath, RemovePath
  <2> QED
    OBVIOUS
<1>1. CASE UNCHANGED vars
  BY <1>1 DEF vars, SavePath, RemovePath
<1>2. CASE Tick
  BY <1>2 DEF Tick, SavePath, RemovePath
<1>3. CASE Stop
  BY <1>3 DEF Stop, SavePath, RemovePath
<1>4. ASSUME NEW r \in Runs, Run(r) PROVE RemovedSoFar' /\ NoOrphans'
  <2>1. CASE CreateFile(r)
    \* Only a file that is not listed can still be created.
    <3>1. PICK n \in NamesOf[r] \ stored[r] :
            data' = [data EXCEPT ![SavePath(r, n)] = <<r, n>>]
      BY <2>1 DEF CreateFile
    <3>2. \A q \in Runs : \A m \in listed[q] : <<r, n>> # <<q, m>>
      BY <3>1 DEF RemovalInv
    <3>3. \A q \in Runs : \A m \in listed[q] : \A p \in Paths :
            data[p] # <<q, m>> => data'[p] # <<q, m>>
      BY <3>1, <3>2
    <3>4. UNCHANGED <<listed, place, removing, filesLeft>>
      BY <2>1 DEF CreateFile
    <3>5. removing # None => removing \in Runs
      OBVIOUS
    <3>6. \A q \in Runs : \A m \in listed[q] :
            data[SavePath(q, m)] # <<q, m>> => data'[SavePath(q, m)] # <<q, m>>
      BY <3>3, PathsOf
    <3> QED
      BY <3>4, <3>5, <3>6 DEF SavePath, RemovePath
  <2>2. CASE ListFile(r)
    \* A run that is being removed, or has been, has ended.
    <3>1. phase[r] \in {"running", "saving", "writing"}
      BY <2>2 DEF ListFile
    <3>2. removing # r /\ place[r] # "removed"
      BY <1>a, <3>1 DEF RemovalInv, Ended
    <3>3. \A q \in Runs \ {r} : listed'[q] = listed[q]
      BY <2>2 DEF ListFile
    <3>4. UNCHANGED <<data, place, removing, filesLeft>>
      BY <2>2 DEF ListFile
    <3> QED
      BY <1>a, <3>2, <3>3, <3>4 DEF SavePath, RemovePath
  <2>3. CASE ~CreateFile(r) /\ ~ListFile(r)
    <3>1. /\ data' = data /\ listed' = listed /\ removing' = removing
          /\ filesLeft' = filesLeft
          /\ \A q \in Runs : place'[q] = "removed" => place[q] = "removed"
      BY <1>4, <2>3 DEF Run, Begin, Return, CreateRecord, WriteRecord
    <3> QED
      BY <3>1 DEF SavePath, RemovePath
  <2> QED
    BY <2>1, <2>2, <2>3
<1>5. CASE Cleanup
  <2>1. CASE RemoveFile
    <3>1. PICK n \in filesLeft :
            /\ removing # None /\ filesLeft' = filesLeft \ {n}
            /\ \/ data' = [data EXCEPT ![RemovePath(removing, n)] = None]
               \/ removing \in FaultyRuns /\ data' = data
      BY <2>1 DEF RemoveFile
    <3>2. \A q \in Runs : \A m \in listed[q] : None # <<q, m>>
      BY <1>a
    <3>3. \A q \in Runs : \A m \in listed[q] : \A p \in Paths :
            data[p] # <<q, m>> => data'[p] # <<q, m>>
      BY <3>1, <3>2
    <3>4. \A q \in Runs : \A m \in listed[q] :
            data[SavePath(q, m)] # <<q, m>> => data'[SavePath(q, m)] # <<q, m>>
      BY <3>3, PathsOf
    <3>5. removing \in Runs /\ n \in Names /\ n \in listed[removing]
      BY <1>a, <3>1 DEF RemovalInv
    <3>6. removing \notin FaultyRuns
          => data'[SavePath(removing, n)] # <<removing, n>>
      <4>1. SavePath(removing, n) = RemovePath(removing, n)
        BY <1>b, <3>5
      <4>2. removing \notin FaultyRuns => data'[SavePath(removing, n)] = None
        BY <3>1, <3>5, <4>1, PathsOf
      <4> QED BY <3>2, <3>5, <4>2
    <3>7. UNCHANGED <<listed, place, removing>>
      BY <2>1 DEF RemoveFile
    <3> QED
      BY <3>1, <3>4, <3>5, <3>6, <3>7 DEF SavePath, RemovePath
  <2>2. CASE RemoveRecord
    BY <1>a, <2>2 DEF RemoveRecord, SavePath, RemovePath
  <2>3. CASE ~RemoveFile /\ ~RemoveRecord /\ ~WalkFails
    <3>1. data' = data /\ listed' = listed
      BY <1>5, <2>3 DEF Cleanup, StartRound, EndWalk, EndMove, EndRound,
         Visit, MoveCorrupted, Review, JudgeJob
    <3>2. \A q \in Runs : place'[q] = "removed" => place[q] = "removed"
      BY <1>5, <2>3 DEF Cleanup, StartRound, EndWalk, EndMove, EndRound,
         Visit, MoveCorrupted, Review, JudgeJob
    <3>3. \/ removing' = removing /\ filesLeft' = filesLeft
          \/ removing' \in Runs /\ filesLeft' = listed[removing']
      BY <1>5, <2>3 DEF Cleanup, StartRound, EndWalk, EndMove, EndRound,
         Visit, MoveCorrupted, Review, JudgeJob
    <3> QED
      BY <3>1, <3>2, <3>3 DEF SavePath, RemovePath
  <2>4. CASE WalkFails
    BY <2>4 DEF WalkFails, SavePath, RemovePath
  <2> QED
    BY <2>1, <2>2, <2>3, <2>4
<1> QED
  BY <1>1, <1>2, <1>3, <1>4, <1>5 DEF Next

\* Without gzip, metadata is removed only when every file it lists is gone,
\* for every run on whose files os.Remove works.
THEOREM NothingOrphaned ==
    ASSUME GzipJobs = {}
    PROVE  Spec => []NoOrphans
<1> DEFINE Inv == TypeOK /\ RemovalInv /\ RemovedSoFar /\ NoOrphans
<1>1. Init => Inv
  BY InitTypeOK DEF Init, RemovalInv, RemovedSoFar, NoOrphans
<1>2. Inv /\ [Next]_vars => Inv'
  BY NextTypeOK, NextRemovalInv, NextRemoved
<1>3. Inv => NoOrphans
  OBVIOUS
<1> QED
  BY <1>1, <1>2, <1>3, PTL DEF Spec

-----------------------------------------------------------------------------
(* The newest run decides                                                  *)

\* A run that was loaded has ended: nothing about it changes any more.
LEMMA LoadedStays ==
    ASSUME TypeOK, RemovalInv, [Next]_vars, NEW q \in Runs, whole[q]
    PROVE  whole'[q] /\ start'[q] = start[q] /\ success'[q] = success[q]
<1> USE DEF TypeOK, runVars, diskVars, roundVars
<1>0. phase[q] \in {"ended", "over"}
  BY DEF RemovalInv, Ended
<1>1. CASE UNCHANGED vars
  BY <1>1 DEF vars
<1>2. CASE Tick \/ Stop
  BY <1>2 DEF Tick, Stop
<1>3. ASSUME NEW r \in Runs, Run(r)
      PROVE  whole'[q] /\ start'[q] = start[q] /\ success'[q] = success[q]
  BY <1>0, <1>3 DEF Run, Begin, CreateFile, ListFile, Return, CreateRecord, WriteRecord
<1>4. CASE Cleanup
  BY <1>4 DEF Cleanup, StartRound, EndWalk, WalkFails, EndMove, EndRound, Visit,
     MoveCorrupted, Review, JudgeJob, RemoveFile, RemoveRecord
<1> QED BY <1>1, <1>2, <1>3, <1>4 DEF Next

LEMMA NextWalkInv ==
    TypeOK /\ RemovalInv /\ WalkInv /\ [Next]_vars => WalkInv'
<1> SUFFICES ASSUME TypeOK, RemovalInv, WalkInv, [Next]_vars PROVE WalkInv'
  OBVIOUS
<1>1. before' \subseteq before => \A q \in before' : whole'[q]
  BY LoadedStays DEF WalkInv, TypeOK
<1>2. CASE UNCHANGED roundVars
  BY <1>1, <1>2 DEF WalkInv, roundVars
<1>3. CASE Stop \/ WalkFails \/ EndRound
  BY <1>3 DEF WalkInv, Stop, WalkFails, EndRound
<1>4. CASE StartRound
  BY <1>4 DEF WalkInv, StartRound, Recorded, diskVars, TypeOK
<1>5. ASSUME NEW r \in Runs, Visit(r) PROVE WalkInv'
  BY <1>1, <1>5 DEF WalkInv, Visit
<1>6. CASE EndWalk
  BY <1>1, <1>6 DEF WalkInv, EndWalk
<1>7. ASSUME NEW r \in Runs, MoveCorrupted(r) \/ Review(r) PROVE WalkInv'
  BY <1>1, <1>7 DEF WalkInv, MoveCorrupted, Review
<1>8. CASE EndMove
  BY <1>1, <1>8 DEF WalkInv, EndMove
<1>9. ASSUME NEW j \in Jobs, JudgeJob(j) PROVE WalkInv'
  BY <1>1, <1>9 DEF WalkInv, JudgeJob
<1>10. CASE RemoveFile \/ RemoveRecord
  BY <1>1, <1>10 DEF WalkInv, RemoveFile, RemoveRecord
<1>11. (UNCHANGED vars \/ Tick \/ \E r \in Runs : Run(r)) => UNCHANGED roundVars
  BY DEF vars, Tick, Run, Begin, CreateFile, ListFile, Return, CreateRecord,
         WriteRecord
<1> QED
  BY <1>2, <1>3, <1>4, <1>5, <1>6, <1>7, <1>8, <1>9, <1>10, <1>11 DEF Next, Cleanup

LEMMA NextJudgedInv ==
    TypeOK /\ RemovalInv /\ JudgedInv /\ [Next]_vars => JudgedInv'
<1> SUFFICES ASSUME TypeOK, RemovalInv, JudgedInv, [Next]_vars PROVE JudgedInv'
  OBVIOUS
<1>1. \A q \in loaded : /\ q \in Runs /\ whole[q]
                        /\ start'[q] = start[q] /\ success'[q] = success[q]
  BY LoadedStays DEF TypeOK, RemovalInv
<1>2. ASSUME loaded' = loaded, round' = round, reviewing' \subseteq reviewing
      PROVE  JudgedInv'
  BY <1>1, <1>2 DEF JudgedInv, LoadedOf
<1>3. CASE UNCHANGED roundVars
  BY <1>2, <1>3 DEF roundVars
<1>4. CASE Stop \/ EndRound
  BY <1>4 DEF JudgedInv, Stop, EndRound
<1>5. CASE StartRound \/ EndWalk \/ WalkFails \/ EndMove
  BY <1>5 DEF JudgedInv, StartRound, EndWalk, WalkFails, EndMove
<1>6. ASSUME NEW r \in Runs, Visit(r) PROVE JudgedInv'
  BY <1>6 DEF JudgedInv, Visit
<1>7. ASSUME NEW r \in Runs, MoveCorrupted(r) \/ Review(r) PROVE JudgedInv'
  BY <1>2, <1>7 DEF MoveCorrupted, Review
<1>8. ASSUME NEW j \in Jobs, JudgeJob(j) PROVE JudgedInv'
  <2>1. PICK last \in LastOf(j) :
          /\ reviewing' = IF success[last] THEN LoadedOf(j) ELSE {}
          /\ loaded' = loaded /\ round = "jobs" /\ round' = "jobs"
    BY <1>8 DEF JudgeJob
  <2>2. /\ last \in loaded /\ JobOf[last] = j
        /\ \A q \in LoadedOf(j) : start[q] <= start[last]
    BY DEF LastOf, LoadedOf
  <2>3. \A q \in LoadedOf(j) : start'[q] <= start'[last]
    BY <1>1, <2>2 DEF LoadedOf
  <2>4. LoadedOf(j)' = LoadedOf(j)
    BY <2>1 DEF LoadedOf
  <2>5. CASE success[last]
    BY <1>1, <2>1, <2>2, <2>3, <2>4, <2>5 DEF JudgedInv, LoadedOf
  <2>6. CASE ~success[last]
    BY <2>1, <2>6 DEF JudgedInv
  <2> QED BY <2>5, <2>6
<1>9. CASE RemoveFile \/ RemoveRecord
  BY <1>2, <1>9 DEF RemoveFile, RemoveRecord
<1>10. (UNCHANGED vars \/ Tick \/ \E r \in Runs : Run(r)) => UNCHANGED roundVars
  BY DEF vars, Tick, Run, Begin, CreateFile, ListFile, Return, CreateRecord,
         WriteRecord
<1> QED
  BY <1>3, <1>4, <1>5, <1>6, <1>7, <1>8, <1>9, <1>10 DEF Next, Cleanup

\* A job is cleaned only on the word of a successful run that is at least as
\* new as every run that was recorded when the round began and that it could
\* load, however runs, rounds and stops interleave.
THEOREM NewestRunDecides == Spec => []DecidedByNewestRun
<1> DEFINE Inv == TypeOK /\ RemovalInv /\ WalkInv /\ JudgedInv
<1>1. Init => Inv
  BY InitTypeOK DEF Init, RemovalInv, WalkInv, JudgedInv
<1>2. Inv /\ [Next]_vars => Inv'
  BY NextTypeOK, NextRemovalInv, NextWalkInv, NextJudgedInv
<1>3. Inv => DecidedByNewestRun
  <2> SUFFICES ASSUME Inv, removing # None PROVE DecidedByNewestRun
    BY DEF DecidedByNewestRun
  <2>1. removing \in reviewing /\ reviewing # {}
    BY DEF TypeOK
  <2>2. PICK s \in loaded : /\ success[s] /\ reviewing \subseteq LoadedOf(JobOf[s])
                            /\ \A q \in LoadedOf(JobOf[s]) : start[q] <= start[s]
    BY <2>1 DEF JudgedInv
  <2>3. JobOf[removing] = JobOf[s] /\ s \in LoadedOf(JobOf[removing])
    BY <2>1, <2>2 DEF LoadedOf
  <2>4. before \ unread \subseteq loaded
    BY <2>1 DEF WalkInv, JudgedInv
  <2> QED BY <2>2, <2>3, <2>4 DEF DecidedByNewestRun, LoadedOf
<1> QED
  BY <1>1, <1>2, <1>3, PTL DEF Spec

-----------------------------------------------------------------------------
(* Records go one way                                                      *)

LEMMA NextFilingInv == TypeOK /\ RemovalInv /\ FilingInv /\ [Next]_vars => FilingInv'
<1> SUFFICES ASSUME TypeOK, RemovalInv, FilingInv, [Next]_vars PROVE FilingInv'
  OBVIOUS
<1> USE DEF TypeOK, FilingInv, runVars, diskVars, roundVars
<1>a. JobOf \in [Runs -> Jobs] /\ None \notin Runs
  BY RetentionAssumption DEF RetentionAssumption
<1>1. CASE UNCHANGED vars
  BY <1>1 DEF vars
<1>2. CASE Tick
  BY <1>2 DEF Tick
<1>3. CASE Stop
  BY <1>3 DEF Stop
<1>4. ASSUME NEW r \in Runs, Run(r) PROVE FilingInv'
  <2>1. CASE Begin(r)
    BY <2>1 DEF Begin
  <2>2. CASE CreateFile(r) \/ ListFile(r)
    BY <2>2 DEF CreateFile, ListFile
  <2>3. CASE Return(r)
    BY <2>3 DEF Return
  <2>4. CASE CreateRecord(r)
    \* A run that is about to save is nowhere in the round.
    <3>1. /\ phase[r] = "saving" /\ place[r] = "none"
          /\ UNCHANGED roundVars
          /\ phase' \in {[phase EXCEPT ![r] = "writing"], [phase EXCEPT ![r] = "ended"]}
          /\ place' \in {place, [place EXCEPT ![r] = "metadata"]}
          /\ phase'[r] = "writing" => place'[r] = "metadata"
      BY <2>4 DEF CreateRecord
    <3>2. \A q \in Runs : place[q] = "metadata" => place'[q] = "metadata"
      BY <3>1
    <3> QED
      BY <3>1, <3>2
  <2>5. CASE WriteRecord(r)
    BY <2>5 DEF WriteRecord
  <2> QED
    BY <1>4, <2>1, <2>2, <2>3, <2>4, <2>5 DEF Run
<1>5. CASE Cleanup
  <2>1. CASE StartRound \/ EndWalk \/ WalkFails \/ EndRound
    BY <2>1 DEF StartRound, EndWalk, WalkFails, EndRound
  <2>2. ASSUME NEW r \in Runs, Visit(r) PROVE FilingInv'
    BY <2>2 DEF Visit
  <2>3. ASSUME NEW r \in Runs, MoveCorrupted(r) PROVE FilingInv'
    BY <2>3 DEF MoveCorrupted
  <2>4. CASE EndMove
    BY <1>a, <2>4 DEF EndMove
  <2>5. ASSUME NEW j \in Jobs, JudgeJob(j) PROVE FilingInv'
    BY <2>5 DEF JudgeJob, LoadedOf
  <2>6. ASSUME NEW r \in Runs, Review(r) PROVE FilingInv'
    BY <2>6 DEF Review
  <2>7. CASE RemoveFile
    BY <2>7 DEF RemoveFile
  <2>8. CASE RemoveRecord
    BY <1>a, <2>8 DEF RemoveRecord
  <2> QED
    BY <1>5, <2>1, <2>2, <2>3, <2>4, <2>5, <2>6, <2>7, <2>8 DEF Cleanup
<1> QED
  BY <1>1, <1>2, <1>3, <1>4, <1>5 DEF Next

LEMMA NextSoughtSoFar ==
    TypeOK /\ RemovalInv /\ SoughtSoFar /\ [Next]_vars => SoughtSoFar'
<1> SUFFICES ASSUME TypeOK, RemovalInv, SoughtSoFar, [Next]_vars PROVE SoughtSoFar'
  OBVIOUS
<1> USE DEF TypeOK, SoughtSoFar, runVars, diskVars, roundVars
<1>a. /\ NamesOf \in [Runs -> SUBSET Names] /\ None \notin Runs
      /\ None \notin Runs \X Names
  BY RetentionAssumption DEF RetentionAssumption
<1>1. CASE UNCHANGED vars
  BY <1>1 DEF vars, RemovePath
<1>2. CASE Tick
  BY <1>2 DEF Tick, RemovePath
<1>3. CASE Stop \/ WalkFails
  BY <1>3 DEF Stop, WalkFails
<1>4. ASSUME NEW r \in Runs, Run(r) PROVE SoughtSoFar'
  <2>1. CASE CreateFile(r)
    <3>1. PICK n \in NamesOf[r] \ stored[r] :
            data' = [data EXCEPT ![SavePath(r, n)] = <<r, n>>]
      BY <2>1 DEF CreateFile
    <3>2. \A q \in Runs : \A m \in listed[q] : <<r, n>> # <<q, m>>
      BY <3>1 DEF RemovalInv
    <3>3. \A q \in Runs : \A m \in listed[q] : \A p \in Paths :
            data[p] # <<q, m>> => data'[p] # <<q, m>>
      BY <3>1, <3>2
    <3>4. UNCHANGED <<listed, removing, filesLeft>>
      BY <2>1 DEF CreateFile
    <3>5. removing # None => removing \in Runs
      OBVIOUS
    <3>6. \A q \in Runs : \A m \in listed[q] :
            data[RemovePath(q, m)] # <<q, m>> => data'[RemovePath(q, m)] # <<q, m>>
      BY <3>3, PathsOf
    <3> QED
      BY <3>4, <3>5, <3>6 DEF RemovePath
  <2>2. CASE ListFile(r)
    <3>1. phase[r] \in {"running", "saving", "writing"}
      BY <2>2 DEF ListFile
    <3>2. removing # r
      BY <1>a, <3>1 DEF RemovalInv, Ended
    <3>3. \A q \in Runs \ {r} : listed'[q] = listed[q]
      BY <2>2 DEF ListFile
    <3>4. UNCHANGED <<data, removing, filesLeft>>
      BY <2>2 DEF ListFile
    <3> QED
      BY <1>a, <3>2, <3>3, <3>4 DEF RemovePath
  <2>3. CASE ~CreateFile(r) /\ ~ListFile(r)
    <3>1. /\ data' = data /\ listed' = listed /\ removing' = removing
          /\ filesLeft' = filesLeft
      BY <1>4, <2>3 DEF Run, Begin, Return, CreateRecord, WriteRecord
    <3> QED
      BY <3>1 DEF RemovePath
  <2> QED
    BY <2>1, <2>2, <2>3
<1>5. CASE RemoveFile
  <2>1. PICK n \in filesLeft :
          /\ removing # None /\ filesLeft' = filesLeft \ {n}
          /\ \/ data' = [data EXCEPT ![RemovePath(removing, n)] = None]
             \/ removing \in FaultyRuns /\ data' = data
    BY <1>5 DEF RemoveFile
  <2>2. \A q \in Runs : \A m \in listed[q] : None # <<q, m>>
    BY <1>a
  <2>3. \A q \in Runs : \A m \in listed[q] :
          data[RemovePath(q, m)] # <<q, m>> => data'[RemovePath(q, m)] # <<q, m>>
    <3>1. \A q \in Runs : \A m \in listed[q] : \A p \in Paths :
            data[p] # <<q, m>> => data'[p] # <<q, m>>
      BY <2>1, <2>2
    <3> QED BY <3>1, PathsOf
  <2>4. removing \in Runs /\ n \in Names /\ n \in listed[removing]
    BY <1>a, <2>1 DEF RemovalInv
  <2>5. removing \notin FaultyRuns
        => data'[RemovePath(removing, n)] # <<removing, n>>
    <3>1. removing \notin FaultyRuns => data'[RemovePath(removing, n)] = None
      BY <2>1, <2>4, PathsOf
    <3> QED BY <2>2, <2>4, <3>1
  <2>6. removing' = removing /\ listed' = listed
    BY <1>5 DEF RemoveFile
  <2> QED
    BY <2>1, <2>3, <2>4, <2>5, <2>6 DEF RemovePath
<1>6. CASE Cleanup /\ ~RemoveFile /\ ~WalkFails
  <2>1. data' = data /\ listed' = listed
    BY <1>6 DEF Cleanup, StartRound, EndWalk, EndMove, EndRound, Visit,
       MoveCorrupted, Review, JudgeJob, RemoveRecord
  <2>2. \/ removing' = removing /\ filesLeft' = filesLeft
        \/ removing' \in Runs /\ filesLeft' = listed[removing']
        \/ removing' = None
    BY <1>6 DEF Cleanup, StartRound, EndWalk, EndMove, EndRound, Visit,
       MoveCorrupted, Review, JudgeJob, RemoveRecord
  <2> QED
    BY <2>1, <2>2 DEF RemovePath
<1> QED
  BY <1>1, <1>2, <1>3, <1>4, <1>5, <1>6 DEF Next

\* All of it is one inductive invariant, if every file has a path of its own
\* and no job gzips.
THEOREM RetentionInvariant ==
    ASSUME FreshPaths, GzipJobs = {}
    PROVE  Spec => []IInv
<1>1. Init => IInv
  BY InitTypeOK
     DEF Init, IInv, RemovalInv, WalkInv, JudgedInv, MissingOnlyIfExpired,
         RemovedSoFar, SoughtSoFar, FilingInv, NoOrphans
<1>2. IInv /\ [Next]_vars => IInv'
  BY NextTypeOK, NextRemovalInv, NextWalkInv, NextJudgedInv,
     NextMissingOnlyIfExpired, NextRemoved, NextSoughtSoFar, NextFilingInv DEF IInv
<1> QED
  BY <1>1, <1>2, PTL DEF Spec

-----------------------------------------------------------------------------
(* The cleanup keeps to the archive                                        *)

\* The run that is being removed is due, for its whole removal.
LEMMA RemovingIsDue ==
    ASSUME TypeOK, RemovalInv, JudgedInv, FilingInv, removing # None
    PROVE  removing \in Runs /\ Kept!Due(removing)
<1>1. removing \in reviewing /\ removing \in loaded /\ removing \in Runs
  BY DEF TypeOK
<1>2. place[removing] = "metadata" /\ whole[removing]
  BY <1>1 DEF FilingInv, RemovalInv
<1>3. now >= start[removing] + MaxAge[JobOf[removing]]
  BY DEF RemovalInv, Expired, ExpireTime
<1>4. PICK s \in loaded : /\ success[s] /\ reviewing \subseteq LoadedOf(JobOf[s])
                          /\ \A q \in LoadedOf(JobOf[s]) : start[q] <= start[s]
  BY <1>1 DEF JudgedInv
<1>5. /\ s \in Runs /\ whole[s] /\ JobOf[s] = JobOf[removing]
      /\ start[removing] <= start[s]
  BY <1>1, <1>4 DEF TypeOK, RemovalInv, LoadedOf
<1> QED
  BY <1>1, <1>2, <1>3, <1>4, <1>5
     DEF Kept!Due, Kept!InDirectory, Kept!Expired, Kept!Vouched

LEMMA RunKept ==
    ASSUME TypeOK, RemovalInv, FilingInv, NEW r \in Runs, Run(r)
    PROVE  [Kept!Next]_(Kept!vars)
<1> DEFINE Stages == [q \in Runs |-> Stage(q)]
           Saved == [q \in Runs |-> [m \in Names |-> SavePath(q, m)]]
<1> USE DEF TypeOK, Stage, runVars, diskVars
<1>1. CASE Begin(r)
  <2>1. Stages[r] = "idle" /\ Stages' = [Stages EXCEPT ![r] = "working"]
    BY <1>1 DEF Begin
  <2>2. Kept!Begin(r)
    BY <1>1, <2>1 DEF Begin, Kept!Begin, Kept!recordVars
  <2> QED BY <2>2 DEF Kept!Next
<1>2. CASE CreateFile(r)
  <2>1. PICK n \in NamesOf[r] \ stored[r] :
          data' = [data EXCEPT ![SavePath(r, n)] = <<r, n>>]
    BY <1>2 DEF CreateFile
  <2>2. n \in Names /\ n \notin listed[r]
    BY RetentionAssumption DEF RetentionAssumption, RemovalInv
  <2>3. Saved[r][n] = SavePath(r, n)
    BY <2>2
  <2>4. Stages[r] \in {"working", "ended"} /\ Stages' = Stages
    BY <1>2 DEF CreateFile
  <2>5. Kept!Store(r, n)
    BY <1>2, <2>1, <2>2, <2>3, <2>4
       DEF CreateFile, Kept!Store, Kept!runVars, Kept!recordVars
  <2> QED BY <2>2, <2>5 DEF Kept!Next
<1>6. CASE ListFile(r)
  <2>1. PICK n \in stored[r] \ listed[r] :
          listed' = [listed EXCEPT ![r] = @ \cup {n}]
    BY <1>6 DEF ListFile
  <2>2. Stages[r] = "working" /\ Stages' = Stages
    BY <1>6 DEF ListFile
  <2>3. n \in Names
    OBVIOUS
  <2>4. Kept!List(r, n)
    BY <1>6, <2>1, <2>2 DEF ListFile, Kept!List, Kept!recordVars
  <2> QED BY <2>3, <2>4 DEF Kept!Next
<1>3. CASE Return(r)
  <2>1. Stages[r] = "working" /\ Stages' = Stages
    BY <1>3 DEF Return
  <2>2. Kept!Decide(r)
    BY <1>3, <2>1 DEF Return, Kept!Decide, Kept!recordVars
  <2> QED BY <2>2 DEF Kept!Next
<1>4. CASE CreateRecord(r)
  <2>1. Stages[r] = "working" /\ place[r] = "none"
    BY <1>4 DEF CreateRecord, FilingInv
  <2>2. CASE place' = [place EXCEPT ![r] = "metadata"] /\ phase'[r] = "writing"
    <3>1. Stages' = Stages
      BY <1>4, <2>2 DEF CreateRecord
    <3>2. Kept!OpenRecord(r)
      BY <1>4, <2>1, <2>2, <3>1 DEF CreateRecord, Kept!OpenRecord, Kept!runVars
    <3> QED BY <3>2 DEF Kept!Next
  <2>3. CASE place' = place /\ phase' = [phase EXCEPT ![r] = "ended"]
    <3>1. Stages' = [Stages EXCEPT ![r] = "ended"]
      BY <2>3
    <3>2. Kept!End(r)
      BY <1>4, <2>1, <2>3, <3>1 DEF CreateRecord, Kept!End
    <3> QED BY <3>2 DEF Kept!Next
  <2> QED BY <1>4, <2>2, <2>3 DEF CreateRecord
<1>5. CASE WriteRecord(r)
  <2>1. Stages[r] = "working" /\ Stages' = [Stages EXCEPT ![r] = "ended"]
    BY <1>5 DEF WriteRecord
  <2>2. place[r] # "none" /\ whole[r] = FALSE
    BY <1>5 DEF WriteRecord, FilingInv, RemovalInv, Ended
  <2>3. whole' = whole \/ whole' = [whole EXCEPT ![r] = TRUE]
    <3>1. PICK complete \in BOOLEAN : whole' = [whole EXCEPT ![r] = complete]
      BY <1>5 DEF WriteRecord
    <3>2. CASE complete = FALSE
      BY <2>2, <3>1, <3>2
    <3> QED BY <3>1, <3>2
  <2>4. Kept!End(r)
    BY <1>5, <2>1, <2>2, <2>3 DEF WriteRecord, Kept!End
  <2> QED BY <2>4 DEF Kept!Next
<1> QED
  BY <1>1, <1>2, <1>3, <1>4, <1>5, <1>6 DEF Run

LEMMA CleanupKept ==
    ASSUME TypeOK, RemovalInv, JudgedInv, SoughtSoFar, FilingInv, Cleanup
    PROVE  [Kept!Next]_(Kept!vars)
<1> DEFINE Sought == [q \in Runs |-> [m \in Names |-> RemovePath(q, m)]]
<1> USE DEF runVars, diskVars
<1>0. now' = now /\ UNCHANGED runVars
  BY DEF Cleanup, StartRound, EndWalk, WalkFails, EndMove, EndRound, Visit,
     MoveCorrupted, Review, JudgeJob, RemoveFile, RemoveRecord
<1>1. [r \in Runs |-> Stage(r)]' = [r \in Runs |-> Stage(r)]
  BY <1>0 DEF Stage
<1>2. UNCHANGED diskVars => UNCHANGED Kept!vars
  BY <1>0, <1>1 DEF Kept!vars, Kept!runVars, Kept!recordVars
<1>3. CASE \E r \in Runs : MoveCorrupted(r)
  <2>1. PICK r \in Runs : MoveCorrupted(r)
    BY <1>3
  <2>2. CASE place' = place
    BY <1>2, <2>1, <2>2 DEF MoveCorrupted
  <2>3. CASE place' = [place EXCEPT ![r] = "corrupted"]
    <3>1. place[r] = "metadata"
      BY <2>1 DEF MoveCorrupted, FilingInv
    <3>2. Kept!Quarantine(r)
      BY <1>0, <1>1, <2>1, <2>3, <3>1
         DEF MoveCorrupted, Kept!Quarantine, Kept!InDirectory, Kept!runVars
    <3> QED BY <3>2 DEF Kept!Next
  <2> QED BY <2>1, <2>2, <2>3 DEF MoveCorrupted
<1>4. CASE RemoveFile
  <2>1. PICK n \in filesLeft :
          \/ data' = [data EXCEPT ![RemovePath(removing, n)] = None]
          \/ data' = data
    BY <1>4 DEF RemoveFile
  <2>2. removing # None /\ removing \in Runs /\ Kept!Due(removing)
    BY <1>4, RemovingIsDue DEF RemoveFile
  <2>3. n \in listed[removing] /\ n \in Names
    BY <2>2 DEF RemovalInv, TypeOK
  <2>4. Sought[removing][n] = RemovePath(removing, n)
    BY <2>2, <2>3
  <2>5. CASE data' = data
    BY <1>2, <1>4, <2>5 DEF RemoveFile
  <2>6. CASE data' = [data EXCEPT ![RemovePath(removing, n)] = None]
    <3>1. Kept!Discard(removing, n)
      BY <1>0, <1>1, <1>4, <2>2, <2>3, <2>4, <2>6
         DEF RemoveFile, Kept!Discard, Kept!runVars, Kept!recordVars
    <3> QED BY <2>2, <2>3, <3>1 DEF Kept!Next
  <2> QED BY <2>1, <2>5, <2>6
<1>5. CASE RemoveRecord
  <2>1. removing # None /\ removing \in Runs /\ Kept!Due(removing)
    BY <1>5, RemovingIsDue DEF RemoveRecord
  <2>2. CASE place' = place
    BY <1>2, <1>5, <2>2 DEF RemoveRecord
  <2>3. CASE place' = [place EXCEPT ![removing] = "removed"]
    <3>1. ASSUME removing \notin FaultyRuns, NEW n \in listed[removing]
          PROVE  data[Sought[removing][n]] # <<removing, n>>
      <4>1. n \in Names
        BY <2>1 DEF TypeOK
      <4>2. Sought[removing][n] = RemovePath(removing, n)
        BY <2>1, <4>1
      <4> QED
        BY <1>5, <2>1, <3>1, <4>2 DEF RemoveRecord, SoughtSoFar
    <3>2. Kept!Forget(removing)
      BY <1>0, <1>1, <1>5, <2>1, <2>3, <3>1
         DEF RemoveRecord, Kept!Forget, Kept!runVars
    <3> QED BY <2>1, <3>2 DEF Kept!Next
  <2> QED BY <1>5, <2>2, <2>3 DEF RemoveRecord
<1>6. CASE /\ ~RemoveFile /\ ~RemoveRecord
           /\ ~\E r \in Runs : MoveCorrupted(r)
  <2>1. UNCHANGED diskVars
    BY <1>6 DEF Cleanup, StartRound, EndWalk, WalkFails, EndMove, EndRound,
       Visit, Review, JudgeJob
  <2> QED BY <1>2, <2>1
<1> QED
  BY <1>3, <1>4, <1>5, <1>6

LEMMA StepKept ==
    TypeOK /\ RemovalInv /\ JudgedInv /\ SoughtSoFar /\ FilingInv /\ [Next]_vars
    => [Kept!Next]_(Kept!vars)
<1> SUFFICES ASSUME TypeOK, RemovalInv, JudgedInv, SoughtSoFar, FilingInv,
                    [Next]_vars
             PROVE  [Kept!Next]_(Kept!vars)
  OBVIOUS
<1> DEFINE Stages == [q \in Runs |-> Stage(q)]
<1> USE DEF runVars, diskVars
<1>1. CASE UNCHANGED vars
  <2>1. Stages' = Stages
    BY <1>1 DEF vars, Stage
  <2> QED
    BY <1>1, <2>1 DEF vars, Kept!vars, Kept!runVars, Kept!recordVars
<1>2. CASE Tick
  <2>1. Stages' = Stages
    BY <1>2 DEF Tick, Stage
  <2>2. Kept!Tick
    BY <1>2, <2>1 DEF Tick, Kept!Tick, Kept!runVars, Kept!recordVars
  <2> QED BY <2>2 DEF Kept!Next
<1>3. CASE Stop
  <2>1. Stages' = [r \in Runs |-> CASE Stages[r] = "working" -> "lost"
                                    [] Stages[r] = "ended"   -> "over"
                                    [] OTHER                 -> Stages[r]]
    BY <1>3 DEF Stop, Stage, TypeOK
  <2>2. Kept!Stop
    BY <1>3, <2>1 DEF Stop, Kept!Stop, Kept!recordVars
  <2> QED BY <2>2 DEF Kept!Next
<1> QED
  BY <1>1, <1>2, <1>3, RunKept, CleanupKept DEF Next

\* Whatever the names and whether or not a job gzips: every behaviour of the
\* runs, of handlers that outlive their run, of the cleanup and of the stops
\* is one that the archive allows.
THEOREM CleanupKeepsArchive == Spec => ImplementsArchive
<1> DEFINE Inv == TypeOK /\ RemovalInv /\ JudgedInv /\ SoughtSoFar /\ FilingInv
<1>1. Init => Inv
  BY InitTypeOK DEF Init, RemovalInv, JudgedInv, SoughtSoFar, FilingInv
<1>2. Inv /\ [Next]_vars => Inv'
  BY NextTypeOK, NextRemovalInv, NextJudgedInv, NextSoughtSoFar, NextFilingInv
<1>3. Init => Kept!Init
  BY DEF Init, Kept!Init, Stage
<1>4. Spec => Kept!Init /\ [][Kept!Next]_(Kept!vars)
  BY <1>1, <1>2, <1>3, StepKept, PTL DEF Spec
<1> QED
  BY <1>4 DEF ImplementsArchive, Kept!Spec

=============================================================================
