----------------------------- MODULE Retention -----------------------------
(***************************************************************************)
(* What is on the disk over the life of many job runs: the data files      *)
(* under storage_dir, the metadata files under metadata_dir, and the       *)
(* cleanup loop of bakapy-scheduler (CleanupExpired, once a minute), which *)
(* works while runs start, store files and save their metadata.  The       *)
(* process may stop between any two steps and is then started again.       *)
(*                                                                         *)
(* How a file gets from a script to the disk and into the metadata is the  *)
(* subject of Backup; here a handler creates it and the updater lists it.  *)
(* Handlers may go on after their run has ended: a failed run waits for    *)
(* none of them, a successful one overlooks those that register late.      *)
(***************************************************************************)
EXTENDS Integers, FiniteSets

CONSTANTS
    Runs,           \* job runs, that is task ids
    Jobs,           \* job names
    JobOf,          \* the job of a run
    GzipJobs,       \* the jobs with gzip: true
    Names,          \* file names
    NamesOf,        \* the names that the script of a run sends
    Paths,          \* paths of data files
    PathOf,         \* PathOf[j][n]: path.Join of the storage directory, the
                    \* namespace of job j and the name n, without its dots
    WithGz,         \* a path with ".gz" appended
    MaxAge,         \* JobConfig.MaxAge of a job
    None,           \* no run
    FaultyRuns,     \* the runs on whose files os.Remove and os.Rename may
                    \* fail, and on whose metadata ioutil.ReadFile may
    MaxTime,        \* bound on the clock
    MaxStops        \* bound on how often the process stops or a walk fails

\* What path.Join makes of the names.
Joined == {PathOf[j][n] : j \in Jobs, n \in Names}

ASSUME RetentionAssumption ==
    /\ JobOf \in [Runs -> Jobs]
    /\ PathOf \in [Jobs -> [Names -> Paths]]
    /\ WithGz \in [Joined -> Paths]
    /\ NamesOf \in [Runs -> SUBSET Names]
    /\ MaxAge \in [Jobs -> Nat]
    /\ GzipJobs \subseteq Jobs
    /\ None \notin Runs \cup (Runs \X Names)
    /\ FaultyRuns \subseteq Runs
    /\ MaxTime \in Nat /\ MaxStops \in Nat

VARIABLES
    now,            \* time.Now(), in the unit of Unix(): seconds
    stops,          \* how often the process has stopped or a walk has failed
    phase,          \* where RunJob of a run is
    start,          \* metadata.StartTime
    success,        \* metadata.Success
    stored,         \* the names that a handler has created the file of
    listed,         \* the names in metadata.Files, as far as Save sees them
    data,           \* path -> the run and the name it was created for last,
                    \* or None
    place,          \* where the metadata file of a run is
    whole,          \* has it been written completely?
    round,          \* where CleanupExpired is
    toVisit,        \* the files filepath.Walk has still to visit
    loaded,         \* jobMetadataList: the runs whose metadata was loaded
    corrupted,      \* corrupted: the runs whose metadata was not
    jobsLeft,       \* the jobs the outer loop has still to look at
    reviewing,      \* the runs the inner loop has still to look at
    removing,       \* the run it is removing, or None
    filesLeft,      \* the names of that run still to be removed
    before,         \* history: the runs recorded when the round began
    unread          \* history: those it could not load the metadata of

runVars == <<phase, start, success, stored, listed>>
diskVars == <<data, place, whole>>
roundVars == <<round, toVisit, loaded, corrupted, jobsLeft, reviewing,
               removing, filesLeft, before, unread>>
vars == <<now, stops, runVars, diskVars, roundVars>>

\* CleanupExpired takes the name from the metadata, where it has no suffix.
RemovePath(r, n) == PathOf[JobOf[r]][n]

\* HandleConnection saves under a name that ends in .gz if the job says so.
SavePath(r, n) == IF JobOf[r] \in GzipJobs THEN WithGz[RemovePath(r, n)]
                                           ELSE RemovePath(r, n)

ExpireTime(r) == start[r] + MaxAge[JobOf[r]]
Expired(r) == now >= ExpireTime(r)
Recorded(r) == place[r] = "metadata" /\ whole[r]
LoadedOf(j) == {r \in loaded : JobOf[r] = j}

Init ==
    /\ now = 0 /\ stops = 0
    /\ phase = [r \in Runs |-> "idle"]
    /\ start = [r \in Runs |-> 0]
    /\ success = [r \in Runs |-> FALSE]
    /\ stored = [r \in Runs |-> {}]
    /\ listed = [r \in Runs |-> {}]
    /\ data = [p \in Paths |-> None]
    /\ place = [r \in Runs |-> "none"]
    /\ whole = [r \in Runs |-> FALSE]
    /\ round = "idle"
    /\ toVisit = {} /\ loaded = {} /\ corrupted = {}
    /\ jobsLeft = {} /\ reviewing = {} /\ removing = None /\ filesLeft = {}
    /\ before = {} /\ unread = {}

-----------------------------------------------------------------------------
(* A job run, as the disk sees it                                          *)

Begin(r) ==
    /\ phase[r] = "idle"
    /\ phase' = [phase EXCEPT ![r] = "running"]
    /\ start' = [start EXCEPT ![r] = now]
    /\ UNCHANGED <<now, stops, success, stored, listed, diskVars, roundVars>>

\* A handler creates the file of a name, as long as the process of the run
\* is there.  os.Create truncates what another file has left at the path.
CreateFile(r) ==
    /\ phase[r] \in {"running", "saving", "writing", "ended"}
    /\ \E n \in NamesOf[r] \ stored[r] :
         /\ stored' = [stored EXCEPT ![r] = @ \cup {n}]
         /\ data' = [data EXCEPT ![SavePath(r, n)] = <<r, n>>]
    /\ UNCHANGED <<now, stops, phase, start, success, listed, place, whole,
                   roundVars>>

\* The updater adds a file that has been received.  What it adds after Save
\* has encoded the metadata no record has.
ListFile(r) ==
    /\ phase[r] \in {"running", "saving", "writing"}
    /\ \E n \in stored[r] \ listed[r] :
         listed' = [listed EXCEPT ![r] = @ \cup {n}]
    /\ UNCHANGED <<now, stops, phase, start, success, stored, diskVars,
                   roundVars>>

Return(r) ==
    /\ phase[r] = "running"
    /\ phase' = [phase EXCEPT ![r] = "saving"]
    /\ \E ok \in BOOLEAN : success' = [success EXCEPT ![r] = ok]
    /\ UNCHANGED <<now, stops, start, stored, listed, diskVars, roundVars>>

\* Save: os.Create, and only then the content.
CreateRecord(r) ==
    /\ phase[r] = "saving"
    /\ \/ /\ place' = [place EXCEPT ![r] = "metadata"]
          /\ phase' = [phase EXCEPT ![r] = "writing"]
       \/ /\ phase' = [phase EXCEPT ![r] = "ended"]
          /\ UNCHANGED place
    /\ UNCHANGED <<now, stops, start, success, stored, listed, data, whole,
                   roundVars>>

\* The descriptor stays valid if the file has been renamed meanwhile.
WriteRecord(r) ==
    /\ phase[r] = "writing"
    /\ \E complete \in BOOLEAN : whole' = [whole EXCEPT ![r] = complete]
    /\ phase' = [phase EXCEPT ![r] = "ended"]
    /\ UNCHANGED <<now, stops, start, success, stored, listed, data, place,
                   roundVars>>

Run(r) ==
    \/ Begin(r) \/ CreateFile(r) \/ ListFile(r) \/ Return(r)
    \/ CreateRecord(r) \/ WriteRecord(r)

-----------------------------------------------------------------------------
(* CleanupExpired                                                          *)

\* filepath.Walk reads the names in the directory once, before it visits.
StartRound ==
    /\ round = "idle"
    /\ round' = "walk"
    /\ toVisit' = {r \in Runs : place[r] = "metadata"}
    /\ before' = {r \in Runs : Recorded(r)}
    /\ UNCHANGED <<now, stops, runVars, diskVars, loaded, corrupted, jobsLeft,
                   reviewing, removing, filesLeft, unread>>

\* Metadata that cannot be read is taken for corrupted, like metadata that
\* cannot be decoded.
Visit(r) ==
    /\ round = "walk"
    /\ r \in toVisit
    /\ toVisit' = toVisit \ {r}
    /\ \/ /\ whole[r]
          /\ loaded' = loaded \cup {r}
          /\ UNCHANGED <<corrupted, unread>>
       \/ /\ ~whole[r] \/ r \in FaultyRuns
          /\ corrupted' = corrupted \cup {r}
          /\ unread' = unread \cup {r}
          /\ UNCHANGED loaded
    /\ UNCHANGED <<now, stops, runVars, diskVars, round, jobsLeft, reviewing,
                   removing, filesLeft, before>>

\* An error in the walk ends the round, whatever job it was about.
WalkFails ==
    /\ round = "walk"
    /\ stops < MaxStops
    /\ stops' = stops + 1
    /\ round' = "idle"
    /\ toVisit' = {} /\ loaded' = {} /\ corrupted' = {}
    /\ jobsLeft' = {} /\ reviewing' = {} /\ removing' = None
    /\ filesLeft' = {} /\ before' = {} /\ unread' = {}
    /\ UNCHANGED <<now, runVars, diskVars>>

EndWalk ==
    /\ round = "walk"
    /\ toVisit = {}
    /\ round' = "move"
    /\ UNCHANGED <<now, stops, runVars, diskVars, toVisit, loaded, corrupted,
                   jobsLeft, reviewing, removing, filesLeft, before, unread>>

MoveCorrupted(r) ==
    /\ round = "move"
    /\ r \in corrupted
    /\ corrupted' = corrupted \ {r}
    /\ \/ place' = [place EXCEPT ![r] = "corrupted"]
       \/ r \in FaultyRuns /\ UNCHANGED place
    /\ UNCHANGED <<now, stops, runVars, data, whole, round, toVisit, loaded,
                   jobsLeft, reviewing, removing, filesLeft, before, unread>>

EndMove ==
    /\ round = "move"
    /\ corrupted = {}
    /\ round' = "jobs"
    /\ jobsLeft' = {JobOf[r] : r \in loaded}
    /\ UNCHANGED <<now, stops, runVars, diskVars, toVisit, loaded, corrupted,
                   reviewing, removing, filesLeft, before, unread>>

\* The runs that sort.Sort may put last: Less compares whole seconds and
\* the sort is not stable.
LastOf(j) == {r \in LoadedOf(j) : \A q \in LoadedOf(j) : start[q] <= start[r]}

\* A slip: the list is sorted in the opposite order.
FirstOf(j) == {r \in LoadedOf(j) : \A q \in LoadedOf(j) : start[r] <= start[q]}

JudgeJobByFirst(j) ==
    /\ round = "jobs" /\ reviewing = {}
    /\ j \in jobsLeft
    /\ jobsLeft' = jobsLeft \ {j}
    /\ \E last \in FirstOf(j) :
         reviewing' = IF success[last] THEN LoadedOf(j) ELSE {}
    /\ UNCHANGED <<now, stops, runVars, diskVars, round, toVisit, loaded,
                   corrupted, removing, filesLeft, before, unread>>

\* The job is skipped if its last run failed.
JudgeJob(j) ==
    /\ round = "jobs" /\ reviewing = {}
    /\ j \in jobsLeft
    /\ jobsLeft' = jobsLeft \ {j}
    /\ \E last \in LastOf(j) :
         reviewing' = IF success[last] THEN LoadedOf(j) ELSE {}
    /\ UNCHANGED <<now, stops, runVars, diskVars, round, toVisit, loaded,
                   corrupted, removing, filesLeft, before, unread>>

\* The inner loop goes through the runs of the job in ascending order.
FirstReviewed(r) == \A q \in reviewing : start[r] <= start[q]

\* A slip: the run is kept one second too short.
ReviewTooEarly(r) ==
    /\ round = "jobs" /\ removing = None
    /\ r \in reviewing /\ FirstReviewed(r)
    /\ IF now + 1 >= ExpireTime(r)
       THEN /\ removing' = r
            /\ filesLeft' = listed[r]
            /\ UNCHANGED reviewing
       ELSE /\ reviewing' = reviewing \ {r}
            /\ UNCHANGED <<removing, filesLeft>>
    /\ UNCHANGED <<now, stops, runVars, diskVars, round, toVisit, loaded,
                   corrupted, jobsLeft, before, unread>>

Review(r) ==
    /\ round = "jobs" /\ removing = None
    /\ r \in reviewing /\ FirstReviewed(r)
    /\ IF Expired(r)
       THEN /\ removing' = r
            /\ filesLeft' = listed[r]
            /\ UNCHANGED reviewing
       ELSE /\ reviewing' = reviewing \ {r}
            /\ UNCHANGED <<removing, filesLeft>>
    /\ UNCHANGED <<now, stops, runVars, diskVars, round, toVisit, loaded,
                   corrupted, jobsLeft, before, unread>>

RemoveFile ==
    /\ removing # None
    /\ \E n \in filesLeft :
         /\ filesLeft' = filesLeft \ {n}
         /\ \/ data' = [data EXCEPT ![RemovePath(removing, n)] = None]
            \/ removing \in FaultyRuns /\ UNCHANGED data
    /\ UNCHANGED <<now, stops, runVars, place, whole, round, toVisit, loaded,
                   corrupted, jobsLeft, reviewing, removing, before, unread>>

\* A slip: the metadata file is removed before the data files.
RemoveRecordFirst ==
    /\ removing # None
    /\ place' = [place EXCEPT ![removing] = "removed"]
    /\ IF filesLeft = {}
       THEN reviewing' = reviewing \ {removing} /\ removing' = None
       ELSE UNCHANGED <<reviewing, removing>>
    /\ UNCHANGED <<now, stops, runVars, data, whole, round, toVisit, loaded,
                   corrupted, jobsLeft, filesLeft, before, unread>>

\* A slip: the cursor of the inner loop is not moved on.
RemoveRecordAgain ==
    /\ removing # None
    /\ filesLeft = {}
    /\ place' = [place EXCEPT ![removing] = "removed"]
    /\ reviewing' = reviewing \ {removing}
    /\ UNCHANGED <<now, stops, runVars, data, whole, round, toVisit, loaded,
                   corrupted, jobsLeft, removing, filesLeft, before, unread>>

\* After all its files, whether or not they could be removed.
RemoveRecord ==
    /\ removing # None
    /\ filesLeft = {}
    /\ \/ place' = [place EXCEPT ![removing] = "removed"]
       \/ removing \in FaultyRuns /\ UNCHANGED place
    /\ reviewing' = reviewing \ {removing}
    /\ removing' = None
    /\ UNCHANGED <<now, stops, runVars, data, whole, round, toVisit, loaded,
                   corrupted, jobsLeft, filesLeft, before, unread>>

EndRound ==
    /\ round = "jobs" /\ jobsLeft = {} /\ reviewing = {}
    /\ round' = "idle"
    /\ loaded' = {} /\ before' = {} /\ unread' = {}
    /\ UNCHANGED <<now, stops, runVars, diskVars, toVisit, corrupted, jobsLeft,
                   reviewing, removing, filesLeft>>

Cleanup ==
    \/ StartRound \/ WalkFails \/ EndWalk \/ EndMove \/ EndRound
    \/ \E r \in Runs : Visit(r) \/ MoveCorrupted(r) \/ Review(r)
    \/ \E j \in Jobs : JudgeJob(j)
    \/ RemoveFile \/ RemoveRecord

-----------------------------------------------------------------------------
(* The clock, and the end and restart of the process                       *)

Tick ==
    /\ now < MaxTime
    /\ now' = now + 1
    /\ UNCHANGED <<stops, runVars, diskVars, roundVars>>

\* Runs in progress are lost: nothing is written down about them before
\* Save.  With the process go the handlers that are left of runs that have
\* ended.  What is on the disk stays.
Stop ==
    /\ stops < MaxStops
    /\ stops' = stops + 1
    /\ phase' = [r \in Runs |->
                   CASE phase[r] \in {"running", "saving", "writing"} -> "lost"
                     [] phase[r] = "ended"                           -> "over"
                     [] OTHER                                        -> phase[r]]
    /\ round' = "idle"
    /\ toVisit' = {} /\ loaded' = {} /\ corrupted' = {}
    /\ jobsLeft' = {} /\ reviewing' = {} /\ removing' = None
    /\ filesLeft' = {} /\ before' = {} /\ unread' = {}
    /\ UNCHANGED <<now, start, success, stored, listed, diskVars>>

Next == Tick \/ Stop \/ Cleanup \/ \E r \in Runs : Run(r)

Spec == Init /\ [][Next]_vars

\* The main goroutine of the scheduler never stops calling CleanupExpired.
FairSpec == Spec /\ WF_vars(Cleanup)

-----------------------------------------------------------------------------
(* Properties                                                              *)

TypeOK ==
    /\ now \in 0..MaxTime /\ stops \in 0..MaxStops
    /\ phase \in [Runs -> {"idle", "running", "saving", "writing", "ended",
                           "lost", "over"}]
    /\ start \in [Runs -> 0..MaxTime]
    /\ success \in [Runs -> BOOLEAN]
    /\ stored \in [Runs -> SUBSET Names] /\ listed \in [Runs -> SUBSET Names]
    /\ data \in [Paths -> (Runs \X Names) \cup {None}]
    /\ place \in [Runs -> {"none", "metadata", "corrupted", "removed"}]
    /\ whole \in [Runs -> BOOLEAN]
    /\ round \in {"idle", "walk", "move", "jobs"}
    /\ toVisit \subseteq Runs /\ loaded \subseteq Runs
    /\ corrupted \subseteq Runs /\ before \subseteq Runs /\ unread \subseteq Runs
    /\ reviewing \subseteq loaded /\ removing \in reviewing \cup {None}
    /\ jobsLeft \subseteq Jobs /\ filesLeft \subseteq Names

\* No two files that are sent have one path, and none is saved where the
\* cleanup looks for a file of another run.  Different names are not enough:
\* with gzip "x" is saved where another job saves "x.gz", and a namespace
\* may end where the name of another job begins.
FreshPaths ==
    \A r, q \in Runs : \A n \in NamesOf[r], m \in NamesOf[q] :
        /\ <<r, n>> # <<q, m>> => SavePath(r, n) # SavePath(q, m)
        /\ r # q => SavePath(r, n) # RemovePath(q, m)

\* The files that the metadata of a run lists are the ones the run sent and
\* stay on the disk until the metadata expires ("This job files will be
\* saved next $max_age_days days", jobs.conf.ex.yaml), across restarts and
\* whatever else runs, late handlers included.  The code keeps this only
\* given FreshPaths.  (CleanupExpired, HandleConnection)
ListedFilesKept ==
    \A r \in Runs : Recorded(r) /\ ~Expired(r) =>
        \A n \in listed[r] : data[SavePath(r, n)] = <<r, n>>

\* When the metadata of a run has been removed, so have the files it listed,
\* and no handler that is late brings one of them back: nothing else would
\* ever remove them.  The code keeps this only for jobs without gzip, and
\* for runs on whose files os.Remove does not fail.  (CleanupExpired)
NoOrphans ==
    \A r \in Runs \ FaultyRuns : place[r] = "removed" =>
        \A n \in listed[r] : data[SavePath(r, n)] # <<r, n>>

\* A job is cleaned only on the word of a successful run that is at least as
\* new as every run that was recorded when the round began and whose
\* metadata the round could load.  What it could not load does not count,
\* be it the failed last run: it has gone to _corrupted.  (CleanupExpired:
\* walk, sort, Success)
DecidedByNewestRun ==
    removing # None =>
        \E s \in LoadedOf(JobOf[removing]) :
            /\ success[s]
            /\ \A q \in before \ unread :
                 JobOf[q] = JobOf[removing] => start[q] <= start[s]

\* The last recorded run of the job, as of now, failed.
LastFailed(j) ==
    \E q \in Runs :
        /\ Recorded(q) /\ JobOf[q] = j /\ ~success[q]
        /\ \A s \in Runs : Recorded(s) /\ JobOf[s] = j => start[s] <= start[q]

\* Expired metadata leaves metadata_dir in the end, unless the last run of
\* its job failed, or its own files cannot be removed, or round after round
\* cannot load some metadata of the job (an earlier run then has the word);
\* the files of other runs do not keep it back.  It may leave as corrupted:
\* see OnlyCorruptMoved.  (the cleanup loop of bakapy-scheduler)
ExpiredRemoved ==
    \A r \in Runs \ FaultyRuns : Recorded(r) /\ Expired(r) ~>
        \/ place[r] # "metadata"
        \/ LastFailed(JobOf[r])
        \/ \E q \in unread : JobOf[q] = JobOf[r]

-----------------------------------------------------------------------------
(* The inductive invariant                                                 *)

\* Run has returned and Save, too; handlers may be left.
Ended(r) == phase[r] \in {"ended", "over"}

\* A run is loaded only after its metadata was written, so it has ended; a
\* file it stored is missing only if the run ended and has expired; and the
\* files of the run being removed that are no longer left are gone.
RemovalInv ==
    /\ \A r \in Runs :
         /\ listed[r] \subseteq stored[r] /\ stored[r] \subseteq NamesOf[r]
         /\ whole[r] \/ place[r] = "removed" => Ended(r)
    /\ \A r \in loaded : whole[r]
    /\ removing # None => Expired(removing) /\ filesLeft \subseteq listed[removing]
    /\ removing = None => filesLeft = {}

MissingOnlyIfExpired ==
    \A r \in Runs : \A n \in stored[r] :
        data[SavePath(r, n)] # <<r, n>> => Ended(r) /\ Expired(r)

RemovedSoFar ==
    removing \notin FaultyRuns \cup {None} =>
        \A n \in listed[removing] \ filesLeft :
            data[SavePath(removing, n)] # <<removing, n>>

\* A file that is no longer left is not where the cleanup looks for it,
\* whether or not it was saved there.
SoughtSoFar ==
    removing \notin FaultyRuns \cup {None} =>
        \A n \in listed[removing] \ filesLeft :
            data[RemovePath(removing, n)] # <<removing, n>>

\* A record is opened once, by its run, and is in metadata_dir as long as the
\* round has something to do with it.
FilingInv ==
    /\ \A r \in Runs :
         /\ phase[r] \in {"idle", "running", "saving"} => place[r] = "none"
         /\ phase[r] = "writing" => place[r] # "none"
    /\ \A r \in toVisit \cup corrupted : place[r] = "metadata" /\ r \notin loaded
    /\ toVisit \cap corrupted = {}
    /\ round \in {"walk", "move"} => \A r \in loaded : place[r] = "metadata"
    /\ \A r \in loaded : JobOf[r] \in jobsLeft => place[r] = "metadata"
    /\ \A r \in reviewing : place[r] = "metadata" /\ JobOf[r] \notin jobsLeft
    /\ round # "walk" => toVisit = {}
    /\ round \in {"idle", "jobs"} => corrupted = {}
    /\ round # "jobs" => jobsLeft = {} /\ reviewing = {}
    /\ round = "idle" => loaded = {}

\* What was recorded when the round began stays complete, and is visited and
\* loaded unless it could not be read.
WalkInv ==
    /\ \A q \in before : whole[q]
    /\ round = "walk" => before \subseteq toVisit \cup loaded \cup unread
    /\ round \in {"move", "jobs"} => before \subseteq loaded \cup unread
    /\ loaded \cap unread = {} /\ toVisit \cap (loaded \cup unread) = {}
    /\ round = "idle" => loaded = {} /\ unread = {}

\* The runs under review are those of one job, whose last run succeeded.
JudgedInv ==
    reviewing # {} =>
        /\ round = "jobs"
        /\ \E s \in loaded :
             /\ success[s]
             /\ reviewing \subseteq LoadedOf(JobOf[s])
             /\ \A q \in LoadedOf(JobOf[s]) : start[q] <= start[s]

IInv ==
    /\ TypeOK
    /\ RemovalInv
    /\ WalkInv
    /\ JudgedInv
    /\ MissingOnlyIfExpired
    /\ RemovedSoFar
    /\ SoughtSoFar
    /\ FilingInv
    /\ NoOrphans

-----------------------------------------------------------------------------
(* What the cleanup promises                                               *)

Stage(r) == IF phase[r] \in {"running", "saving", "writing"} THEN "working"
                                                             ELSE phase[r]

Kept == INSTANCE Archive WITH
    phase    <- [r \in Runs |-> Stage(r)],
    SavedAt  <- [r \in Runs |-> [n \in Names |-> SavePath(r, n)]],
    SoughtAt <- [r \in Runs |-> [n \in Names |-> RemovePath(r, n)]],
    Lifetime <- [r \in Runs |-> MaxAge[JobOf[r]]]

\* However rounds, runs and stops interleave, a record goes one way and a
\* file is removed only for a record that is there, complete, expired and
\* vouched for; a round that ends in the middle has done nothing else.
\* (CleanupExpired, Save, HandleConnection)
ImplementsArchive == Kept!Spec

-----------------------------------------------------------------------------
(* What the repository says and the code does not keep                     *)

\* Only metadata that cannot be read is moved to the _corrupted directory
\* (TestStorage_CleanupExpired).
OnlyCorruptMoved ==
    \A r \in Runs : place[r] = "corrupted" => ~whole[r]

=============================================================================
