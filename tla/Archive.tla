------------------------------ MODULE Archive ------------------------------
(***************************************************************************)
(* What the storage and its cleanup promise about the files of job runs    *)
(* and about the records (metadata files) that list them.  There is no     *)
(* cleanup round here, only what may happen to one file or one record at a *)
(* time: a run touches nothing but its own, and once it has ended nothing  *)
(* that its record lists, though handlers of it may go on and leave files  *)
(* that no record lists until the process stops; a record goes from the    *)
(* metadata directory to _corrupted or is removed, once; and nothing is    *)
(* removed but what a record that has expired asks for, on the word of a   *)
(* successful run.                                                         *)
(***************************************************************************)
EXTENDS Integers

CONSTANTS
    Runs,           \* job runs
    JobOf,          \* the job of a run
    Names,          \* file names
    Paths,          \* places on the disk
    SavedAt,        \* SavedAt[r][n]: the place where r saves its n
    SoughtAt,       \* SoughtAt[r][n]: the place where the cleanup looks
    Lifetime,       \* how long the files of a run are kept
    FaultyRuns,     \* the runs whose files cannot always be removed
    None            \* no run

VARIABLES
    now,            \* the time
    phase,          \* idle -> working -> ended; lost or over when the
                    \* process has stopped
    start, success, listed,     \* what the record of a run says
    data,           \* the run and name whose file is at a place, or None
    place, whole    \* where a record is, and is it complete?

runVars == <<phase, start, success, listed>>
recordVars == <<place, whole>>
vars == <<now, runVars, data, recordVars>>

Init ==
    /\ now = 0
    /\ phase = [r \in Runs |-> "idle"]
    /\ start = [r \in Runs |-> 0]
    /\ success = [r \in Runs |-> FALSE]
    /\ listed = [r \in Runs |-> {}]
    /\ data = [p \in Paths |-> None]
    /\ place = [r \in Runs |-> "none"]
    /\ whole = [r \in Runs |-> FALSE]

Tick ==
    /\ now' = now + 1
    /\ UNCHANGED <<runVars, data, recordVars>>

-----------------------------------------------------------------------------
(* A run                                                                   *)

Begin(r) ==
    /\ phase[r] = "idle"
    /\ phase' = [phase EXCEPT ![r] = "working"]
    /\ start' = [start EXCEPT ![r] = now]
    /\ UNCHANGED <<now, success, listed, data, recordVars>>

\* A file comes to its place once a run has begun and before it is listed.
Store(r, n) ==
    /\ phase[r] \in {"working", "ended"}
    /\ n \notin listed[r]
    /\ data' = [data EXCEPT ![SavedAt[r][n]] = <<r, n>>]
    /\ UNCHANGED <<now, runVars, recordVars>>

List(r, n) ==
    /\ phase[r] = "working"
    /\ listed' = [listed EXCEPT ![r] = @ \cup {n}]
    /\ UNCHANGED <<now, phase, start, success, data, recordVars>>

Decide(r) ==
    /\ phase[r] = "working"
    /\ \E ok \in BOOLEAN : success' = [success EXCEPT ![r] = ok]
    /\ UNCHANGED <<now, phase, start, listed, data, recordVars>>

OpenRecord(r) ==
    /\ phase[r] = "working" /\ place[r] = "none"
    /\ place' = [place EXCEPT ![r] = "metadata"]
    /\ UNCHANGED <<now, runVars, data, whole>>

\* The record is complete, or it never will be.
End(r) ==
    /\ phase[r] = "working"
    /\ phase' = [phase EXCEPT ![r] = "ended"]
    /\ \/ UNCHANGED whole
       \/ place[r] # "none" /\ whole' = [whole EXCEPT ![r] = TRUE]
    /\ UNCHANGED <<now, start, success, listed, data, place>>

\* The end of the process: what is under way stays as it is.
Stop ==
    /\ phase' = [r \in Runs |-> CASE phase[r] = "working" -> "lost"
                                 [] phase[r] = "ended"   -> "over"
                                 [] OTHER                -> phase[r]]
    /\ UNCHANGED <<now, start, success, listed, data, recordVars>>

-----------------------------------------------------------------------------
(* The cleanup                                                             *)

InDirectory(r) == place[r] = "metadata"

Expired(r) == now >= start[r] + Lifetime[r]

\* A run of the same job, as new or newer, has been recorded as successful.
Vouched(r) ==
    \E s \in Runs :
        /\ JobOf[s] = JobOf[r] /\ whole[s] /\ success[s]
        /\ start[r] <= start[s]

Due(r) == InDirectory(r) /\ whole[r] /\ Expired(r) /\ Vouched(r)

Quarantine(r) ==
    /\ InDirectory(r)
    /\ place' = [place EXCEPT ![r] = "corrupted"]
    /\ UNCHANGED <<now, runVars, data, whole>>

Discard(r, n) ==
    /\ Due(r) /\ n \in listed[r]
    /\ data' = [data EXCEPT ![SoughtAt[r][n]] = None]
    /\ UNCHANGED <<now, runVars, recordVars>>

\* Last of all, and not while a file that it lists is where it was sought.
Forget(r) ==
    /\ Due(r)
    /\ r \notin FaultyRuns => \A n \in listed[r] : data[SoughtAt[r][n]] # <<r, n>>
    /\ place' = [place EXCEPT ![r] = "removed"]
    /\ UNCHANGED <<now, runVars, data, whole>>

Next ==
    \/ Tick \/ Stop
    \/ \E r \in Runs :
         \/ Begin(r) \/ Decide(r) \/ OpenRecord(r) \/ End(r)
         \/ Quarantine(r) \/ Forget(r)
         \/ \E n \in Names : Store(r, n) \/ List(r, n) \/ Discard(r, n)

Spec == Init /\ [][Next]_vars

=============================================================================
