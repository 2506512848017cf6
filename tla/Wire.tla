-------------------------------- MODULE Wire --------------------------------
(***************************************************************************)
(* One connection, byte by byte: _send_file of JOB_TEMPLATE writes the     *)
(* task id, the length of the name, the name and the content, and          *)
(* StorageConn takes them apart.  TCP keeps the order of the bytes and not *)
(* the cuts between them, so a byte is its position in the stream:         *)
(*                                                                         *)
(*   | task id | length of the name | name       | content      |         *)
(*     IdLen     Width(file.chars)    file.bytes   file.content            *)
(*                                                                         *)
(* Backup takes the header and the content each as one step; here are the  *)
(* steps in between.                                                       *)
(***************************************************************************)
EXTENDS Integers

CONSTANTS
    IdLen,      \* STORAGE_TASK_ID_LEN
    LenLen,     \* STORAGE_FILENAME_LEN_LEN
    Base,       \* the base that lengths are written in: 10
    Files       \* the files a script may send

\* The lengths that LenLen digits can hold.
Limit == Base ^ LenLen

ASSUME WireAssumption ==
    /\ IdLen \in Nat \ {0} /\ LenLen \in Nat /\ Base \in Nat \ {0, 1}
    /\ Limit \in Nat \ {0}
    /\ Files \subseteq [chars : Nat, bytes : Nat, content : Nat]
    /\ \A f \in Files : f.chars < Limit * Base

VARIABLES
    file,       \* what is being sent
    written,    \* how many bytes the script has written
    client,     \* its end of the connection
    received,   \* how many bytes the handler has read
    state,      \* StorageConn.State, and how the handler ended
    nameLen,    \* filenameLen, or -1 before it is known
    nameEnd,    \* how far ReadFilename read
    stored      \* how many bytes ReadContent has written

clientVars == <<file, written, client>>
serverVars == <<received, state, nameLen, nameEnd, stored>>
vars == <<clientVars, serverVars>>

Init ==
    /\ file \in Files
    /\ written = 0 /\ client = "sending"
    /\ received = 0 /\ state = "WAIT_TASK_ID"
    /\ nameLen = -1 /\ nameEnd = 0 /\ stored = 0

\* How a handler ends: with the file, or without it.
Over == {"END", "failed", "unsaved"}

-----------------------------------------------------------------------------
(* _send_file                                                              *)

\* printf "%04d" ${#name}: ${#name} counts characters (file.chars), and a
\* length that needs a digit more gets it.
Width(n) == IF n < Limit THEN LenLen ELSE LenLen + 1

\* The name is not quoted on its way through echo, which writes file.bytes
\* bytes: more than the characters if some take two bytes, fewer if the
\* shell has taken out white space.
Total == IdLen + Width(file.chars) + file.bytes + file.content

Write ==
    /\ client = "sending"
    /\ \E n \in written + 1 .. Total : written' = n
    /\ UNCHANGED <<file, client, serverVars>>

\* exec 3>&-, or the end of the script for whatever reason: the kernel ends
\* the stream in order after the bytes that were written.
Close ==
    /\ client = "sending"
    /\ client' = "closed"
    /\ UNCHANGED <<file, written, serverVars>>

\* Until the handler has read the end of the stream the connection can be
\* lost, also after the script has closed it: what was written may still be
\* on its way, and how much of it arrives is open.
CanBeLost ==
    \/ client = "sending"
    \/ client = "closed" /\ state \notin Over

\* The server's kernel is told, and a read that has to wait returns an error.
Break ==
    /\ CanBeLost
    /\ client' = "broken"
    /\ UNCHANGED <<file, written, serverVars>>

\* The host or the network is gone without a trace.  A handler only reads,
\* with no deadline and no keepalive, so it never learns of it.
Vanish ==
    /\ CanBeLost
    /\ client' = "vanished"
    /\ UNCHANGED <<file, written, serverVars>>

-----------------------------------------------------------------------------
(* StorageConn                                                             *)

NameStart == IdLen + LenLen

\* Where the field that is being read ends.
FieldEnd ==
    IF state = "WAIT_TASK_ID" THEN IdLen
    ELSE NameStart + IF nameLen = -1 THEN 0 ELSE nameLen

InHeader == state \in {"WAIT_TASK_ID", "WAIT_FILENAME"}

\* One Read of io.ReadFull: it returns what is there, up to what is wanted.
ReadHeader ==
    /\ InHeader
    /\ \E n \in received + 1 .. written : n <= FieldEnd /\ received' = n
    /\ UNCHANGED <<clientVars, state, nameLen, nameEnd, stored>>

ReadTaskId ==
    /\ state = "WAIT_TASK_ID" /\ received = FieldEnd
    /\ state' = "WAIT_FILENAME"
    /\ UNCHANGED <<clientVars, received, nameLen, nameEnd, stored>>

\* GetJob does not know the task: Backup says when.
Refuse ==
    /\ state = "WAIT_FILENAME" /\ nameLen = -1 /\ received = IdLen
    /\ state' = "unsaved"
    /\ UNCHANGED <<clientVars, received, nameLen, nameEnd, stored>>

\* ParseInt of the first LenLen digits.
Parsed(n) == IF n < Limit THEN n ELSE n \div Base

ReadLength ==
    /\ state = "WAIT_FILENAME" /\ nameLen = -1 /\ received = FieldEnd
    /\ nameLen' = Parsed(file.chars)
    /\ UNCHANGED <<clientVars, received, state, nameEnd, stored>>

\* A slip: Read instead of io.ReadFull, which may return a part of the name.
ReadFilenameShort ==
    /\ state = "WAIT_FILENAME" /\ nameLen # -1
    /\ received > NameStart
    /\ state' = "WAIT_DATA"
    /\ nameEnd' = received
    /\ UNCHANGED <<clientVars, received, nameLen, stored>>

ReadFilename ==
    /\ state = "WAIT_FILENAME" /\ nameLen # -1 /\ received = FieldEnd
    /\ state' = "WAIT_DATA"
    /\ nameEnd' = received
    /\ UNCHANGED <<clientVars, received, nameLen, stored>>

\* A slip: a read that finds the end of the stream is tried again.
HeaderRetries ==
    /\ InHeader /\ received < FieldEnd
    /\ \/ client = "closed" /\ received = written
       \/ client = "broken"
    /\ UNCHANGED vars

\* A slip: an end of the stream reported along with bytes is an error.
HeaderFailsEarly ==
    /\ InHeader /\ received < FieldEnd
    /\ client \in {"closed", "broken"}
    /\ state' = "failed"
    /\ UNCHANGED <<clientVars, received, nameLen, nameEnd, stored>>

\* ReadFull fails at the end of the stream, and when the connection breaks.
HeaderFails ==
    /\ InHeader /\ received < FieldEnd
    /\ \/ client = "closed" /\ received = written
       \/ client = "broken"
    /\ state' = "failed"
    /\ UNCHANGED <<clientVars, received, nameLen, nameEnd, stored>>

\* HandleConnection opens the file and calls ReadContent, unless the name is
\* JOB_FINISH or the file or its directory cannot be created.
OpenFile ==
    /\ state = "WAIT_DATA"
    /\ state' \in {"RECEIVING", "unsaved"}
    /\ UNCHANGED <<clientVars, received, nameLen, nameEnd, stored>>

\* A slip: what io.Copy has buffered before an end is counted, not stored.
CopyForgetting ==
    /\ state = "RECEIVING"
    /\ \E n \in received + 1 .. written :
         /\ received' = n
         /\ stored' \in {stored, stored + (n - received)}
    /\ UNCHANGED <<clientVars, state, nameLen, nameEnd>>

\* One round of io.Copy.
Copy ==
    /\ state = "RECEIVING"
    /\ \E n \in received + 1 .. written :
         /\ received' = n
         /\ stored' = stored + (n - received)
    /\ UNCHANGED <<clientVars, state, nameLen, nameEnd>>

\* io.Copy returns an error: of the connection, or of the disk when there is
\* something to write.
CopyFails ==
    /\ state = "RECEIVING"
    /\ \/ client = "broken" /\ state' = "failed"
       \/ received < written /\ state' = "unsaved"
    /\ UNCHANGED <<clientVars, received, nameLen, nameEnd, stored>>

\* A slip: every error of Read is taken for the end of the file.
CopyEndsOnError ==
    /\ state = "RECEIVING"
    /\ client \in {"closed", "broken"} /\ received = written
    /\ state' = "END"
    /\ UNCHANGED <<clientVars, received, nameLen, nameEnd, stored>>

\* The end of the stream is the end of the file.
CopyEnds ==
    /\ state = "RECEIVING"
    /\ client = "closed" /\ received = written
    /\ state' = "END"
    /\ UNCHANGED <<clientVars, received, nameLen, nameEnd, stored>>

Serve ==
    \/ ReadHeader \/ ReadTaskId \/ Refuse \/ ReadLength \/ ReadFilename
    \/ HeaderFails
    \/ OpenFile \/ Copy \/ CopyFails \/ CopyEnds

\* The handler has ended, or waits for a client that is gone.
Finished == client # "sending" /\ (state \in Over \/ client = "vanished")

Next ==
    \/ Write \/ Close \/ Break \/ Vanish
    \/ Serve
    \/ Finished /\ UNCHANGED vars

Spec == Init /\ [][Next]_vars

\* The handler's goroutine is run.  Nothing is assumed of the client, and
\* nothing that is under way from a client that has vanished need arrive.
FairSpec == Spec /\ WF_vars(client # "vanished" /\ Serve)

-----------------------------------------------------------------------------
(* Properties                                                              *)

TypeOK ==
    /\ file \in Files
    /\ written \in 0 .. Total
    /\ client \in {"sending", "closed", "broken", "vanished"}
    /\ received \in 0 .. written
    /\ state \in {"WAIT_TASK_ID", "WAIT_FILENAME", "WAIT_DATA", "RECEIVING"}
                 \cup Over
    /\ nameLen \in Nat \cup {-1}
    /\ nameEnd \in Nat /\ stored \in Nat

\* The names whose length in characters, as the shell counts them, fits the
\* field and is the number of bytes that are sent.
Fits == file.chars = file.bytes /\ file.chars < Limit

\* The handler takes the name for what the script sent as the name exactly
\* if the name fits, however the bytes are cut into reads; every other name
\* is mistaken for another.  (_send_file, ReadFilename)
NameTaken == state \in {"WAIT_DATA", "RECEIVING", "END"}

NameIntact ==
    NameTaken =>
        (Fits <=> /\ NameStart = IdLen + Width(file.chars)
                  /\ nameEnd = IdLen + Width(file.chars) + file.bytes)

\* A connection that ends well has stored all that was written after the
\* name, once, and was ended in order by the client; of a file that fits and
\* was sent to its end that is the content.  (ReadContent)
StoredIsSent ==
    state = "END" =>
        /\ client = "closed"
        /\ nameEnd + stored = written
        /\ Fits /\ written = Total => stored = file.content

\* A handler ends once its client has closed or the server's kernel has
\* learnt that the connection is lost, wherever in the protocol that was.  It
\* waits, for ever if need be, as long as the client stays and for one that
\* has vanished: no read has a deadline.
\* (ReadTaskId, ReadFilename, ReadContent)
HandlerEnds ==
    client \in {"closed", "broken"} ~> state \in Over \/ client = "vanished"

\* What was sent to its end and closed in order is received to its end, unless
\* the server refuses it or cannot save it, or the connection is lost before
\* the last bytes have arrived: the script does not learn of that.
\* (HandleConnection)
SentIsStored ==
    client = "closed" /\ written = Total /\ Fits
        ~> state \in {"END", "unsaved"} \/ client \in {"broken", "vanished"}

-----------------------------------------------------------------------------
(* The inductive invariant                                                 *)

\* What has been read when a field is being read, and what was read of it.
PositionInv ==
    /\ state = "WAIT_TASK_ID" => received <= IdLen
    /\ state = "WAIT_FILENAME" => IdLen <= received /\ received <= FieldEnd
    /\ nameLen \in {-1, Parsed(file.chars)}
    /\ nameLen # -1 /\ state = "WAIT_FILENAME" => NameStart <= received
    /\ state = "WAIT_TASK_ID" => nameLen = -1
    /\ InHeader => stored = 0
    /\ NameTaken =>
         /\ nameLen # -1 /\ nameEnd = NameStart + nameLen
         /\ nameEnd + stored = received
    /\ state = "END" => client = "closed" /\ received = written

IInv == TypeOK /\ PositionInv

-----------------------------------------------------------------------------
(* The connection as Backup takes it                                       *)

\* A client that closes before its name is out is one that has broken off:
\* the handler cannot tell them apart.  Nor does it matter here whether the
\* handler learns that the connection is lost.
ClientOf ==
    CASE written < IdLen /\ client = "sending"  -> "connected"
      [] written < IdLen /\ client # "sending"  -> "lost"
      [] written >= IdLen /\ client = "sending" -> "headed"
      [] /\ written >= IdLen /\ client = "closed"
         /\ written >= NameStart + Parsed(file.chars) -> "eof"
      [] OTHER                                  -> "reset"

\* GetJob may still refuse a task whose id has been read.
Admitting ==
    \/ state = "WAIT_TASK_ID"
    \/ state = "WAIT_FILENAME" /\ nameLen = -1 /\ received = IdLen

HandlerOf ==
    CASE Admitting                                  -> "task_id"
      [] state = "WAIT_FILENAME" /\ ~Admitting      -> "filename"
      [] state = "WAIT_DATA"                        -> "filename"
      [] state = "RECEIVING"                        -> "receiving"
      [] state = "END"                              -> "received"
      [] state \in {"failed", "unsaved"}            -> "gaveup"

It == "it"

Connection == INSTANCE Connections WITH
    Conns   <- {It},
    client  <- [c \in {It} |-> ClientOf],
    handler <- [c \in {It} |-> HandlerOf]

\* However the stream is cut, and wherever it ends, the two ends go through
\* the stages of Connections in their order: no task is admitted before its
\* id is there, and no file is received whose name was cut off or whose
\* stream broke.
\* (_send_file, ReadTaskId, ReadFilename, ReadContent)
ImplementsConnection == Connection!Spec

=============================================================================
