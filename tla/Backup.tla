------------------------------- MODULE Backup -------------------------------
(***************************************************************************)
(* One server process: job runs, their scripts and updaters, the accept    *)
(* loop and the connection handlers, interleaved.  The process ends when a *)
(* handler panics; nothing restarts it (the upstart job has no respawn).   *)
(***************************************************************************)
EXTENDS Job

vars == <<managerVars, storageVars, jobVars>>

Init == StorageInit /\ JobInit

RunStep(t) ==
    RunJob(t) \/ Updater(t) \/ ScriptSucceeds(t) \/ ScriptFails(t)

ServeStep(c) == (Accept(c) \/ HandleConnection(c)) /\ UNCHANGED jobVars

ConnStep(c) == ServeStep(c) \/ Dial(c) \/ Script(c) \/ LoseConnection(c)

Step ==
    \/ AcceptError /\ UNCHANGED jobVars
    \/ \E t \in TaskIds : RunStep(t)
    \/ \E c \in Conns : ConnStep(c)

\* Nothing is left to do: every run has ended, and every connection has
\* been served, was never opened, or waits for an accept loop that is gone.
Finished ==
    \/ panicked
    \/ /\ \A t \in TaskIds : run[t] = "ended"
       /\ \A t \in TaskIds :
            \/ updater[t] \in {"none", "stopped"}
            \/ /\ updater[t] = "running"
               /\ ~chanClosed[t]
               /\ fileAddChan[t] = <<>>
       /\ \A c \in Conns :
            \/ conn[c] \in {"gone", "failed", "refused"}
            \/ conn[c] = "none" /\ (client[c] = "idle" \/ ~serving)

Next ==
    \/ ~panicked /\ Step
    \/ Finished /\ UNCHANGED vars

Spec == Init /\ [][Next]_vars

\* The Go scheduler runs every goroutine that can run.
ServerFairness ==
    /\ \A c \in Conns : WF_vars(~panicked /\ ServeStep(c))
    /\ \A t \in TaskIds : WF_vars(~panicked /\ RunJob(t))
    /\ \A t \in TaskIds : WF_vars(~panicked /\ Updater(t))

\* An assumption about the hosts, and not of the code: scripts terminate, and
\* a client that has connected sends all it has or loses its connection so
\* that the server's kernel learns of it.  A client that stalls, or vanishes
\* as in Wire, is waited for without end.
ScriptFairness ==
    /\ \A t \in TaskIds :
         WF_vars(~panicked /\ (ScriptSucceeds(t) \/ ScriptFails(t)))
    /\ \A c \in Conns : WF_vars(~panicked /\ Script(c))

FairSpec == Spec /\ ServerFairness /\ ScriptFairness

-----------------------------------------------------------------------------
(* Safety                                                                  *)

TypeOK == StorageTypeOK /\ JobTypeOK

\* The count WaitJob reads is the number of handlers between AddConnection
\* and the deferred RemoveConnection; a missing entry counts 0.
\* (storage_jobmanager.go, HandleConnection)
ConnectionCountExact ==
    \A t \in TaskIds : JobConnectionCount(t) = Cardinality(Handlers(t))

\* What WaitJob guarantees: once it has returned, the only handlers that may
\* still work for the task are those that looked the task up before
\* RemoveJob and registered after it.  (Job.Run, WaitJob, HandleConnection)
Waited(t) == run[t] = "closing" \/ chanClosed[t]

OnlyLateHandlersAfterWait ==
    \A t \in TaskIds : Waited(t) => Handlers(t) \subseteq late

\* A send on a closed channel is always the send of such a late handler.
\* (HandleConnection's last statement, Job.Run's close)
PanicOnlyFromLateHandler ==
    panicked => \E c \in late : /\ conn[c] = "sending"
                                /\ chanClosed[TaskOf[c]]

\* The connections of task t whose metadata the storage has sent.
Sent(t) == {c \in ConnsOf(t) : conn[c] \in {"sent", "gone"}}

Elements(seq) == {seq[i] : i \in 1..Len(seq)}

\* What the updater has collected for task t, and what it still will.
Pipeline(t) == files[t] \o fileAddChan[t]

\* File metadata is neither lost nor duplicated between the handler that
\* sent it and metadata.Files.  (FileAddChan, the updater)
MetadataConserved ==
    \A t \in TaskIds :
        /\ Elements(Pipeline(t)) = Sent(t)
        /\ Len(Pipeline(t)) = Cardinality(Sent(t))

\* The storage turns a connection away only after the script of its task
\* has ended: a running script never finds its task unknown.
\* (order of AddJob, Execute and RemoveJob in Job.Run)
RefusedOnlyAfterScript ==
    \A c \in Conns :
        conn[c] = "refused" => run[TaskOf[c]] \notin {"idle", "executing"}

\* Job.Run does not wait for the updater after it closed the channel.  What
\* the saved record of a successful run can miss because of that is at most
\* a full channel and the file the updater is adding.
\* (Job.Run's close and return, the updater, Save)
LossBounded ==
    \A t \in TaskIds :
        success[t] /\ saved[t].state = "written" =>
            Cardinality(Sent(t)) <= Len(saved[t].files) + ChanCap + 1

\* The updater of task t is there to receive.
Receiving(t) == updater[t] \in {"running", "adding"}

\* Whoever waits, waits for somebody.  A run in WaitJob that may not return
\* yet has a handler that is going to call RemoveConnection; and what is in
\* a channel, or is about to be sent on one that is open, has an updater to
\* take it, though a failed run returns without a word to its updater.
\* (WaitJob, FileAddChan, the updater; RunEnds and ConnectionEnds rest on it)
WaitersHaveWakers ==
    \A t \in TaskIds :
        /\ run[t] = "waiting" /\ ~JobDone(t) => Handlers(t) # {}
        /\ fileAddChan[t] # <<>> => Receiving(t)
        /\ \A c \in ConnsOf(t) :
             conn[c] = "sending" /\ ~chanClosed[t] => Receiving(t)

-----------------------------------------------------------------------------
(* The inductive invariant                                                 *)

\* A task is in currentJobs exactly while its script runs or has just
\* ended; its channel is closed only by the run that is about to return.
RunAgreesWithRegistry ==
    \A t \in TaskIds :
        /\ t \in currentJobs <=> run[t] \in {"executing", "exec_ok", "exec_err"}
        /\ chanClosed[t] => run[t] \in {"returned", "created", "ended"}
        /\ updater[t] # "none" => run[t] # "idle"

\* Nobody connects for a task that has not been started.
ConnectedAfterStart ==
    \A c \in Conns :
        /\ client[c] # "idle" => updater[TaskOf[c]] # "none"
        /\ conn[c] # "none" => client[c] # "idle"

\* The updater leaves nothing behind, and leaves only a closed channel.
\* (WaitersHaveWakers rests on this.)
ChannelDrained ==
    \A t \in TaskIds :
        /\ updater[t] = "stopped" => chanClosed[t]
        /\ updater[t] \in {"none", "stopped"} => fileAddChan[t] = <<>>

\* When a successful run comes to write its record its channel is closed,
\* so nothing more is sent.  (LossBounded rests on this.)
RecordAfterClose ==
    \A t \in TaskIds :
        /\ success[t] => run[t] \in {"waiting", "closing", "returned",
                                    "created", "ended"}
        /\ success[t] /\ run[t] \in {"returned", "created", "ended"}
             => chanClosed[t]
        /\ saved[t].state = "written" => run[t] = "ended"

\* The safety properties and what makes them inductive.
IInv ==
    /\ TypeOK
    /\ RunAgreesWithRegistry
    /\ ConnectedAfterStart
    /\ ConnectionCountExact
    /\ OnlyLateHandlersAfterWait
    /\ PanicOnlyFromLateHandler
    /\ RefusedOnlyAfterScript

-----------------------------------------------------------------------------
(* Liveness                                                                *)

\* Every run that started ends, unless the process panicked: WaitJob
\* returns and no handler is blocked on a full channel for ever.
RunEnds ==
    \A t \in TaskIds : run[t] # "idle" ~> (run[t] = "ended" \/ panicked)

\* The updater of a successful run ends: it drains the closed channel.
UpdaterEnds ==
    \A t \in TaskIds : chanClosed[t] ~> (updater[t] = "stopped" \/ panicked)

\* Every handler ends, also that of a run which failed and returned without
\* waiting for it: it is never stuck on a full channel, because the updater
\* of a failed run goes on receiving.
ConnectionEnds ==
    \A c \in Conns :
        conn[c] # "none" ~>
            (conn[c] \in {"gone", "failed", "refused"} \/ panicked)

-----------------------------------------------------------------------------
(* What the repository says and the code does not keep                     *)

\* job.go waits for the storage before it closes the channel (the log
\* message "waiting storage"), so that no handler can send on it any more.
NoSendOnClosedChannel == ~panicked

\* A successful run's metadata lists every file that its script has sent to
\* its end over a connection that the storage accepted and has finished with,
\* the disk's and the network's errors apart: a command backs up by calling
\* _send_file (README), and whatever reached the job before it ended is in
\* the metadata (TestJob_Run_MetadataFilesAdded).
SuccessListsSentFiles ==
    \A t \in TaskIds :
        success[t] /\ saved[t].state = "written" =>
            \A c \in ConnsOf(t) :
                client[c] = "eof" /\ conn[c] \in {"refused", "gone"} =>
                    \E i \in DOMAIN saved[t].files : saved[t].files[i] = c

=============================================================================
