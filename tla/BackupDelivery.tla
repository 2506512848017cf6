--------------------------- MODULE BackupDelivery ---------------------------
(***************************************************************************)
(* Backup implements Delivery: the state a task's gate and a connection    *)
(* are in, read off the goroutines, the registry and the channels.  And    *)
(* its connections are Connections, as those of Wire are.                  *)
(***************************************************************************)
EXTENDS Backup

\* A run that never started a script (GetScriptFails) was never announced.
GateOf(t) ==
    IF updater[t] = "none" THEN "new"
    ELSE IF t \in currentJobs THEN "open"
    ELSE IF chanClosed[t] THEN "closed"
    ELSE IF run[t] = "closing" THEN "settled"
    ELSE "withdrawn"

\* The connections whose metadata the updater has moved to its run.
Collected == {c \in Conns : c \in Elements(files[TaskOf[c]])}

StatusOf(c) ==
    CASE conn[c] \in {"none", "task_id"}                    -> "outside"
      [] conn[c] = "refused"                                -> "refused"
      [] conn[c] = "found"                                  -> "admitted"
      [] conn[c] \in {"filename", "receiving", "sending"}   -> "inside"
      [] conn[c] \in {"aborted", "failed"}                  -> "failed"
      [] conn[c] \in {"sent", "gone"} /\ c \in Collected    -> "collected"
      [] conn[c] \in {"sent", "gone"} /\ c \notin Collected -> "delivered"

Abstract == INSTANCE Delivery WITH
    gate    <- [t \in TaskIds |-> GateOf(t)],
    status  <- [c \in Conns |-> StatusOf(c)],
    crashed <- panicked

\* The server keeps what Delivery promises: the count that WaitJob polls, the
\* two lookups and the channel together behave like a gate that is settled
\* only while nobody is inside, what a handler delivered stays delivered, and
\* only a handler that is late for its gate ends the process.  (Job.Run,
\* HandleConnection, StorageJobManager)
ImplementsDelivery == Abstract!Spec

-----------------------------------------------------------------------------
(* The two ends of each connection                                         *)

\* A connection that was not dialled yet has said nothing; lost is lost,
\* before the close or after.
ClientOf(c) == CASE client[c] = "idle"    -> "connected"
                 [] client[c] = "dropped" -> "reset"
                 [] OTHER                 -> client[c]

HandlerOf(c) ==
    CASE conn[c] \in {"none", "task_id"}              -> "task_id"
      [] conn[c] \in {"found", "filename"}            -> "filename"
      [] conn[c] = "receiving"                        -> "receiving"
      [] conn[c] \in {"sending", "sent", "gone"}      -> "received"
      [] conn[c] \in {"refused", "aborted", "failed"} -> "gaveup"

Ends == INSTANCE Connections WITH
    client  <- [c \in Conns |-> ClientOf(c)],
    handler <- [c \in Conns |-> HandlerOf(c)]

\* Among the runs, their updaters and each other the handlers keep to what a
\* connection is: nothing a run does moves an end of it, and the handler
\* passes on the metadata of no file but one whose client ended in order.
\* (HandleConnection, _send_file)
ImplementsConnections == Ends!Spec

=============================================================================
