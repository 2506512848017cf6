---------------------------- MODULE Connections ----------------------------
(***************************************************************************)
(* What a connection is to those at its two ends, whatever is in between:  *)
(* the script sends a task id, a name and a content and ends the stream;   *)
(* the handler admits the connection to its task, opens a file and         *)
(* receives the content, or gives up.  Neither end waits for the other but *)
(* in the two places below that look at client.                            *)
(*                                                                         *)
(* Wire has this connection in bytes, Backup in whole headers and whole    *)
(* contents, among the job runs.  Both implement it, so the steps that     *)
(* Backup takes for one are those that the bytes can take.                 *)
(***************************************************************************)

CONSTANT Conns

VARIABLES
    client,     \* connected -> headed -> eof; lost before the task id
                \* arrived, reset after, be it after the end
    handler     \* task_id -> filename -> receiving -> received; gaveup

vars == <<client, handler>>

Init ==
    /\ client = [c \in Conns |-> "connected"]
    /\ handler = [c \in Conns |-> "task_id"]

ClientGoes(c, from, to) ==
    /\ client[c] = from
    /\ client' = [client EXCEPT ![c] = to]
    /\ UNCHANGED handler

HandlerGoes(c, from, to) ==
    /\ handler[c] = from
    /\ handler' = [handler EXCEPT ![c] = to]
    /\ UNCHANGED client

SendId(c) == ClientGoes(c, "connected", "headed")

End(c) == ClientGoes(c, "headed", "eof")

\* A connection can be lost until the end of the stream has been read, so
\* also after the script has ended it.
Break(c) ==
    \/ ClientGoes(c, "connected", "lost")
    \/ ClientGoes(c, "headed", "reset")
    \/ ClientGoes(c, "eof", "reset")

\* Nobody is admitted who has not said to which task.
Admit(c) ==
    /\ client[c] \in {"headed", "eof", "reset"}
    /\ HandlerGoes(c, "task_id", "filename")

Open(c) == HandlerGoes(c, "filename", "receiving")

\* A file is received only from a client that ended its stream in order, and
\* not before the name was out.
Finish(c) ==
    /\ client[c] = "eof"
    /\ HandlerGoes(c, "receiving", "received")

\* A client that has said nothing yet is waited for; later the server may
\* give up on its own account.
GiveUp(c) ==
    \/ client[c] # "connected" /\ HandlerGoes(c, "task_id", "gaveup")
    \/ HandlerGoes(c, "filename", "gaveup")
    \/ HandlerGoes(c, "receiving", "gaveup")

Next ==
    \E c \in Conns :
        \/ SendId(c) \/ End(c) \/ Break(c)
        \/ Admit(c) \/ Open(c) \/ Finish(c) \/ GiveUp(c)

Spec == Init /\ [][Next]_vars

=============================================================================
