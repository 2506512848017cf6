-------------------------------- MODULE Job --------------------------------
(***************************************************************************)
(* A job run: the goroutine of RunJob (Job.Run followed by                 *)
(* JobMetadata.Save), its updater goroutine, which moves file metadata     *)
(* from FileAddChan into the run's JobMetadata, and the script it executes *)
(* with the _send_file function of JOB_TEMPLATE.                           *)
(*                                                                         *)
(*   idle -> executing -> exec_ok  -> waiting -> closing -> returned       *)
(*                     -> exec_err ----------------------->                *)
(*   returned -> created -> ended                                          *)
(***************************************************************************)
EXTENDS Storage

CONSTANT NoFile     \* a zeroed JobMetadataFile, read before it was written

ASSUME NoFileAssumption == NoFile \notin Conns

VARIABLES
    run,        \* where the goroutine of RunJob is
    success,    \* metadata.Success
    updater,    \* the updater goroutine
    files,      \* metadata.Files
    saved       \* the metadata file of the run

jobVars == <<run, success, updater, files, saved>>

RunState == {"idle", "executing", "exec_ok", "exec_err", "waiting",
             "closing", "returned", "created", "ended"}

\* "partial" is a metadata file that was created and not completely written.
SavedRecord == [state : {"absent", "partial", "written"},
                files : Seq(Conns \cup {NoFile})]

JobInit ==
    /\ run = [t \in TaskIds |-> "idle"]
    /\ success = [t \in TaskIds |-> FALSE]
    /\ updater = [t \in TaskIds |-> "none"]
    /\ files = [t \in TaskIds |-> <<>>]
    /\ saved = [t \in TaskIds |-> [state |-> "absent", files |-> <<>>]]

JobTypeOK ==
    /\ run \in [TaskIds -> RunState]
    /\ success \in [TaskIds -> BOOLEAN]
    /\ updater \in [TaskIds -> {"none", "running", "adding", "stopped"}]
    /\ files \in [TaskIds -> Seq(Conns)]
    /\ saved \in [TaskIds -> SavedRecord]

ConnsOf(t) == {c \in Conns : TaskOf[c] = t}

-----------------------------------------------------------------------------
(* Job.Run                                                                 *)

\* The command file cannot be read: no AddJob, no updater, no script.
GetScriptFails(t) ==
    /\ run[t] = "idle"
    /\ run' = [run EXCEPT ![t] = "returned"]
    /\ UNCHANGED <<managerVars, storageVars, success, updater, files,
                   saved>>

\* A slip: the task is announced to the storage only when the script ends.
StartWithoutAddJob(t) ==
    /\ run[t] = "idle"
    /\ run' = [run EXCEPT ![t] = "executing"]
    /\ updater' = [updater EXCEPT ![t] = "running"]
    /\ UNCHANGED <<managerVars, storageVars, success, files, saved>>

\* AddJob, then the updater, then the script.
Start(t) ==
    /\ run[t] = "idle"
    /\ AddJob(t)
    /\ run' = [run EXCEPT ![t] = "executing"]
    /\ updater' = [updater EXCEPT ![t] = "running"]
    /\ UNCHANGED <<storageVars, success, files, saved>>

\* executor.Execute returns.  set -e makes the exit status 0 only if every
\* _send_file wrote all it had and closed its descriptor; whether the bytes
\* have arrived it cannot know.
ScriptSucceeds(t) ==
    /\ run[t] = "executing"
    /\ \A c \in ConnsOf(t) : client[c] \in {"idle", "eof", "dropped"}
    /\ run' = [run EXCEPT ![t] = "exec_ok"]
    /\ UNCHANGED <<managerVars, storageVars, success, updater, files,
                   saved>>

\* A non-zero exit, a lost ssh connection, or no bash or ssh to start.
ScriptFails(t) ==
    /\ run[t] = "executing"
    /\ run' = [run EXCEPT ![t] = "exec_err"]
    /\ UNCHANGED <<managerVars, storageVars, success, updater, files,
                   saved>>

\* A slip: RemoveJob comes after the return of a failed run.
RemoveFromStorageLate(t) ==
    /\ run[t] \in {"exec_ok", "exec_err"}
    /\ IF run[t] = "exec_ok" THEN RemoveJob(t) ELSE UNCHANGED managerVars
    /\ success' = [success EXCEPT ![t] = run[t] = "exec_ok"]
    /\ run' = [run EXCEPT ![t] = IF @ = "exec_ok" THEN "waiting"
                                                  ELSE "returned"]
    /\ UNCHANGED <<storageVars, updater, files, saved>>

\* RemoveJob, and the branch on the error of Execute: a failed run returns
\* at once, without WaitJob and without closing the channel.
RemoveFromStorage(t) ==
    /\ run[t] \in {"exec_ok", "exec_err"}
    /\ RemoveJob(t)
    /\ success' = [success EXCEPT ![t] = run[t] = "exec_ok"]
    /\ run' = [run EXCEPT ![t] = IF @ = "exec_ok" THEN "waiting"
                                                  ELSE "returned"]
    /\ UNCHANGED <<storageVars, updater, files, saved>>

WaitJob(t) ==
    /\ run[t] = "waiting"
    /\ JobDone(t)
    /\ run' = [run EXCEPT ![t] = "closing"]
    /\ UNCHANGED <<managerVars, storageVars, success, updater, files,
                   saved>>

CloseChan(t) ==
    /\ run[t] = "closing"
    /\ chanClosed' = [chanClosed EXCEPT ![t] = TRUE]
    /\ run' = [run EXCEPT ![t] = "returned"]
    /\ UNCHANGED <<managerVars, serving, client, conn, disk, fileAddChan,
                   panicked, late, success, updater, files, saved>>

-----------------------------------------------------------------------------
(* The updater: for fileMeta := range fileAddChan                          *)

\* From here to Added the two assignments, to metadata.Files and to
\* metadata.TotalSize, are in flight: a reader that does not synchronise
\* with the updater (SaveWrites) may see neither, one or both.
Receive(t) ==
    /\ updater[t] = "running"
    /\ fileAddChan[t] # <<>>
    /\ files' = [files EXCEPT ![t] = Append(@, Head(fileAddChan[t]))]
    /\ fileAddChan' = [fileAddChan EXCEPT ![t] = Tail(@)]
    /\ updater' = [updater EXCEPT ![t] = "adding"]
    /\ UNCHANGED <<managerVars, serving, client, conn, disk, chanClosed,
                   panicked, late, run, success, saved>>

Added(t) ==
    /\ updater[t] = "adding"
    /\ updater' = [updater EXCEPT ![t] = "running"]
    /\ UNCHANGED <<managerVars, storageVars, run, success, files, saved>>

\* A slip: the updater of a failed run is stopped with its run.
UpdaterStopsWithRun(t) ==
    /\ updater[t] = "running"
    /\ \/ chanClosed[t] /\ fileAddChan[t] = <<>>
       \/ run[t] = "ended" /\ ~success[t]
    /\ updater' = [updater EXCEPT ![t] = "stopped"]
    /\ UNCHANGED <<managerVars, storageVars, run, success, files, saved>>

\* A slip: the updater leaves the loop only if its run has failed.
UpdaterStopsIfFailed(t) ==
    /\ updater[t] = "running"
    /\ chanClosed[t] /\ ~success[t]
    /\ fileAddChan[t] = <<>>
    /\ updater' = [updater EXCEPT ![t] = "stopped"]
    /\ UNCHANGED <<managerVars, storageVars, run, success, files, saved>>

\* The range loop ends when the channel is closed and drained.
UpdaterStops(t) ==
    /\ updater[t] = "running"
    /\ chanClosed[t]
    /\ fileAddChan[t] = <<>>
    /\ updater' = [updater EXCEPT ![t] = "stopped"]
    /\ UNCHANGED <<managerVars, storageVars, run, success, files, saved>>

Updater(t) == Receive(t) \/ Added(t) \/ UpdaterStops(t)

-----------------------------------------------------------------------------
(* RunJob: metadata.Save.  Nothing orders the encoder's reads with the     *)
(* updater's writes, which go on after the run has returned.               *)

SaveCreates(t) ==
    /\ run[t] = "returned"
    /\ \/ /\ saved' = [saved EXCEPT ![t].state = "partial"]
          /\ run' = [run EXCEPT ![t] = "created"]
       \/ /\ UNCHANGED saved
          /\ run' = [run EXCEPT ![t] = "ended"]
    /\ UNCHANGED <<managerVars, storageVars, success, updater, files>>

\* What a racing read of metadata.Files returns: the append that is in
\* flight may be visible, invisible, or visible in the length of the slice
\* and not yet in its last element.
SeenFiles(t) ==
    LET n == Len(files[t])
    IN  {files[t]} \cup
        IF updater[t] = "adding" /\ n > 0
        THEN {SubSeq(files[t], 1, n - 1), [files[t] EXCEPT ![n] = NoFile]}
        ELSE {}

\* A write error leaves the file truncated; RunJob only logs it.
SaveWrites(t) ==
    /\ run[t] = "created"
    /\ \/ \E seen \in SeenFiles(t) :
            saved' = [saved EXCEPT ![t] = [state |-> "written", files |-> seen]]
       \/ UNCHANGED saved
    /\ run' = [run EXCEPT ![t] = "ended"]
    /\ UNCHANGED <<managerVars, storageVars, success, updater, files>>

\* The steps of the run's own goroutine, its script excepted.
RunJob(t) ==
    \/ GetScriptFails(t) \/ Start(t) \/ RemoveFromStorage(t) \/ WaitJob(t)
    \/ CloseChan(t) \/ SaveCreates(t) \/ SaveWrites(t)

-----------------------------------------------------------------------------
(* The script: _send_file.                                                 *)

\* A run that failed may leave its script alive on the remote host: losing
\* the ssh connection does not end it.
ScriptAlive(t) ==
    /\ updater[t] # "none"
    /\ run[t] # "exec_ok"
    /\ ~success[t]

ClientStep(c, from, to) ==
    /\ client[c] = from
    /\ client' = [client EXCEPT ![c] = to]
    /\ UNCHANGED <<managerVars, serving, conn, disk, fileAddChan, chanClosed,
                   panicked, late, jobVars>>

\* exec 3<>/dev/tcp/...: the kernel completes it, whether or not the server
\* ever accepts.
Dial(c) == ScriptAlive(TaskOf[c]) /\ ClientStep(c, "idle", "connected")

\* echo -n of the task id, the length of the name and the name
SendHeader(c) == ClientStep(c, "connected", "headed")

\* cat and the close.  An end of file in the middle of the content looks
\* the same to the server: the protocol sends no length.
SendContent(c) == ClientStep(c, "headed", "eof")

\* The connection breaks before or after the header went out.
BreakConnection(c) ==
    \/ ClientStep(c, "connected", "lost")
    \/ ClientStep(c, "headed", "reset")

Script(c) == SendHeader(c) \/ SendContent(c) \/ BreakConnection(c)

\* The connection is lost after the close, with bytes that are still on their
\* way.  Once the handler has read the end of the stream it does not matter.
LoseConnection(c) ==
    /\ conn[c] \in {"none", "task_id", "found", "filename", "receiving"}
    /\ ClientStep(c, "eof", "dropped")

=============================================================================
