------------------------------ MODULE Storage ------------------------------
(***************************************************************************)
(* The storage server: the accept loop (Serve) and one handler goroutine   *)
(* per connection (HandleConnection over StorageConn).  A connection       *)
(* carries one file of one task.  The handler                              *)
(*                                                                         *)
(*   reads the task id, looks the task up      task_id -> found / refused  *)
(*   registers itself with AddConnection       found -> filename           *)
(*   reads the name, opens the file            filename -> receiving       *)
(*   copies the content until EOF              receiving -> sending        *)
(*   sends the file's metadata to the job run  sending -> sent             *)
(*   (deferred) calls RemoveConnection         sent -> gone                *)
(*                                             aborted -> failed           *)
(*                                                                         *)
(* These are also the states of StorageConn.State: the handler calls its   *)
(* three readers once each, in the order the state machine demands.        *)
(***************************************************************************)
EXTENDS StorageJobManager, Sequences, FiniteSets

CONSTANTS
    Conns,          \* connections, that is calls of _send_file
    TaskOf,         \* the task id a connection sends
    LegacyConns,    \* connections that may name the file JOB_FINISH
    ChanCap         \* capacity of a task's FileAddChan

ASSUME StorageAssumption ==
    /\ IsFiniteSet(Conns)
    /\ TaskOf \in [Conns -> TaskIds]
    /\ LegacyConns \subseteq Conns
    /\ ChanCap \in Nat \ {0}

VARIABLES
    serving,        \* is the accept loop still running?
    client,         \* the remote end of each connection
    conn,           \* the handler of each connection
    disk,           \* the file of each connection on the server's disk
    fileAddChan,    \* FileAddChan of each task: a bounded FIFO of connections
    chanClosed,     \* has the task's FileAddChan been closed?
    panicked,       \* has a handler sent on a closed channel?
    late            \* history: handlers that registered after RemoveJob

storageVars ==
    <<serving, client, conn, disk, fileAddChan, chanClosed, panicked, late>>

\* "dropped" is a connection that was lost after the script had closed it.
ClientState == {"idle", "connected", "headed", "eof", "lost", "reset", "dropped"}
HeaderSent  == {"headed", "eof", "reset", "dropped"}
Broken      == {"lost", "reset", "dropped"}

Registered == {"filename", "receiving", "sending", "sent", "aborted"}
ConnState  == Registered \cup
              {"none", "task_id", "found", "gone", "failed", "refused"}

StorageInit ==
    /\ ManagerInit
    /\ serving = TRUE
    /\ client = [c \in Conns |-> "idle"]
    /\ conn = [c \in Conns |-> "none"]
    /\ disk = [c \in Conns |-> "absent"]
    /\ fileAddChan = [t \in TaskIds |-> <<>>]
    /\ chanClosed = [t \in TaskIds |-> FALSE]
    /\ panicked = FALSE
    /\ late = {}

StorageTypeOK ==
    /\ ManagerTypeOK
    /\ serving \in BOOLEAN
    /\ client \in [Conns -> ClientState]
    /\ conn \in [Conns -> ConnState]
    /\ disk \in [Conns -> {"absent", "short", "complete"}]
    /\ fileAddChan \in [TaskIds -> Seq(Conns)]
    /\ \A t \in TaskIds : Len(fileAddChan[t]) <= ChanCap
    /\ chanClosed \in [TaskIds -> BOOLEAN]
    /\ panicked \in BOOLEAN
    /\ late \subseteq Conns

\* The handlers that AddConnection has counted for task t and that
\* RemoveConnection has not yet uncounted.
Handlers(t) == {c \in Conns : TaskOf[c] = t /\ conn[c] \in Registered}

-----------------------------------------------------------------------------
(* Serve                                                                   *)

Accept(c) ==
    /\ serving
    /\ client[c] # "idle"
    /\ conn[c] = "none"
    /\ conn' = [conn EXCEPT ![c] = "task_id"]
    /\ UNCHANGED <<managerVars, serving, client, disk, fileAddChan,
                   chanClosed, panicked, late>>

\* The loop returns on the first accept error; nothing restarts it.
AcceptError ==
    /\ serving
    /\ serving' = FALSE
    /\ UNCHANGED <<managerVars, client, conn, disk, fileAddChan, chanClosed,
                   panicked, late>>

-----------------------------------------------------------------------------
(* HandleConnection                                                        *)

\* ReadTaskId and GetJob.  The handler keeps what GetJob returned: the
\* lookup and the registration below are two critical sections.
LookupJob(c) ==
    /\ conn[c] = "task_id"
    /\ client[c] \in HeaderSent
    /\ conn' = [conn EXCEPT ![c] = IF GetJob(TaskOf[c]) THEN "found"
                                                        ELSE "refused"]
    /\ UNCHANGED <<managerVars, serving, client, disk, fileAddChan,
                   chanClosed, panicked, late>>

ReadTaskIdFails(c) ==
    /\ conn[c] = "task_id"
    /\ client[c] \in Broken
    /\ conn' = [conn EXCEPT ![c] = "failed"]
    /\ UNCHANGED <<managerVars, serving, client, disk, fileAddChan,
                   chanClosed, panicked, late>>

Register(c) ==
    /\ conn[c] = "found"
    /\ AddConnection(TaskOf[c])
    /\ conn' = [conn EXCEPT ![c] = "filename"]
    /\ late' = IF GetJob(TaskOf[c]) THEN late ELSE late \cup {c}
    /\ UNCHANGED <<serving, client, disk, fileAddChan, chanClosed, panicked>>

\* The name cannot be read, or it is the obsolete JOB_FINISH.
NoFilename(c) ==
    /\ conn[c] = "filename"
    /\ client[c] \in Broken \/ c \in LegacyConns
    /\ conn' = [conn EXCEPT ![c] = "aborted"]
    /\ UNCHANGED <<managerVars, serving, client, disk, fileAddChan,
                   chanClosed, panicked, late>>

\* MkdirAll and Create: the file exists, empty, or the handler gives up.
OpenFile(c) ==
    /\ conn[c] = "filename"
    /\ \/ /\ conn' = [conn EXCEPT ![c] = "receiving"]
          /\ disk' = [disk EXCEPT ![c] = "short"]
       \/ /\ conn' = [conn EXCEPT ![c] = "aborted"]
          /\ UNCHANGED disk
    /\ UNCHANGED <<managerVars, serving, client, fileAddChan, chanClosed,
                   panicked, late>>

\* ReadContent returned an error: the connection broke, or a write to the
\* disk failed while copying.  The file stays as it is.
ReadContentFails(c) ==
    /\ conn[c] = "receiving"
    /\ conn' = [conn EXCEPT ![c] = "aborted"]
    /\ UNCHANGED <<managerVars, serving, client, disk, fileAddChan,
                   chanClosed, panicked, late>>

\* A slip: an error of ReadContent is taken for the end of the file.
ReceiveContentAnyway(c) ==
    /\ conn[c] = "receiving"
    /\ client[c] \in {"eof", "reset", "dropped"}
    /\ \E state \in {"short", "complete"} : disk' = [disk EXCEPT ![c] = state]
    /\ conn' = [conn EXCEPT ![c] = "sending"]
    /\ UNCHANGED <<managerVars, serving, client, fileAddChan, chanClosed,
                   panicked, late>>

\* ReadContent returned at EOF; Flush and the Closes follow, with their
\* errors ignored, so the last writes may be missing on the disk.
ReceiveContent(c) ==
    /\ conn[c] = "receiving"
    /\ client[c] = "eof"
    /\ \E state \in {"short", "complete"} : disk' = [disk EXCEPT ![c] = state]
    /\ conn' = [conn EXCEPT ![c] = "sending"]
    /\ UNCHANGED <<managerVars, serving, client, fileAddChan, chanClosed,
                   panicked, late>>

\* A slip: the send is made non-blocking, dropping what does not fit.
SendMetadataOrDrop(c) ==
    LET t == TaskOf[c]
    IN  /\ conn[c] = "sending"
        /\ ~chanClosed[t]
        /\ fileAddChan' = IF Len(fileAddChan[t]) < ChanCap
                          THEN [fileAddChan EXCEPT ![t] = Append(@, c)]
                          ELSE fileAddChan
        /\ conn' = [conn EXCEPT ![c] = "sent"]
        /\ UNCHANGED <<managerVars, serving, client, disk, chanClosed,
                       panicked, late>>

\* A slip: the channel has one slot more than it was made with.
SendMetadataOverflow(c) ==
    LET t == TaskOf[c]
    IN  /\ conn[c] = "sending"
        /\ ~chanClosed[t]
        /\ Len(fileAddChan[t]) <= ChanCap
        /\ fileAddChan' = [fileAddChan EXCEPT ![t] = Append(@, c)]
        /\ conn' = [conn EXCEPT ![c] = "sent"]
        /\ UNCHANGED <<managerVars, serving, client, disk, chanClosed,
                       panicked, late>>

\* The channel operation FileAddChan <- fileMeta blocks while the channel
\* is full; on a closed channel it panics, and an unrecovered panic in any
\* goroutine ends the whole process.
SendMetadata(c) ==
    LET t == TaskOf[c]
    IN  /\ conn[c] = "sending"
        /\ ~chanClosed[t]
        /\ Len(fileAddChan[t]) < ChanCap
        /\ fileAddChan' = [fileAddChan EXCEPT ![t] = Append(@, c)]
        /\ conn' = [conn EXCEPT ![c] = "sent"]
        /\ UNCHANGED <<managerVars, serving, client, disk, chanClosed,
                       panicked, late>>

SendPanics(c) ==
    /\ conn[c] = "sending"
    /\ chanClosed[TaskOf[c]]
    /\ panicked' = TRUE
    /\ UNCHANGED <<managerVars, serving, client, conn, disk, fileAddChan,
                   chanClosed, late>>

\* A slip: RemoveConnection is called at the end, not deferred, so the
\* early returns skip it.
LeaveWithoutDefer(c) ==
    /\ conn[c] \in {"sent", "aborted"}
    /\ IF conn[c] = "sent" THEN RemoveConnection(TaskOf[c])
                           ELSE UNCHANGED managerVars
    /\ conn' = [conn EXCEPT ![c] = IF @ = "sent" THEN "gone" ELSE "failed"]
    /\ UNCHANGED <<serving, client, disk, fileAddChan, chanClosed, panicked,
                   late>>

\* The deferred RemoveConnection, on every way out.
Leave(c) ==
    /\ conn[c] \in {"sent", "aborted"}
    /\ RemoveConnection(TaskOf[c])
    /\ conn' = [conn EXCEPT ![c] = IF @ = "sent" THEN "gone" ELSE "failed"]
    /\ UNCHANGED <<serving, client, disk, fileAddChan, chanClosed, panicked,
                   late>>

HandleConnection(c) ==
    \/ LookupJob(c) \/ ReadTaskIdFails(c) \/ Register(c) \/ NoFilename(c)
    \/ OpenFile(c) \/ ReadContentFails(c) \/ ReceiveContent(c)
    \/ SendMetadata(c) \/ SendPanics(c) \/ Leave(c)

=============================================================================
