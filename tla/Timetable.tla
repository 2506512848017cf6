----------------------------- MODULE Timetable -----------------------------
(***************************************************************************)
(* What cron promises about the runs of the jobs, without timers, entries  *)
(* or a loop: from the moment it starts, the activations of all jobs are   *)
(* worked off one time after the other, each with all the jobs it is for,  *)
(* none before its time.                                                   *)
(***************************************************************************)
EXTENDS Integers

CONSTANTS
    Jobs,       \* job names
    Horizon     \* the last time that matters

VARIABLES
    clock,      \* the wall clock
    running,    \* has cron started?
    schedules,  \* the activations of each job, known once it has
    from,       \* when it started
    launched    \* the activations for which a job was run

vars == <<clock, running, schedules, from, launched>>

Init ==
    /\ clock = 0 /\ running = FALSE /\ from = 0
    /\ schedules = [j \in Jobs |-> {}]
    /\ launched = [j \in Jobs |-> {}]

Tick ==
    /\ clock' = clock + 1
    /\ UNCHANGED <<running, schedules, from, launched>>

\* What is in the past when cron starts is nobody's business any more.
Start ==
    /\ ~running /\ running' = TRUE
    /\ schedules' \in [Jobs -> SUBSET (0..Horizon)]
    /\ from' = clock
    /\ UNCHANGED <<clock, launched>>

\* The jobs that are still to be run for time a.
Waiting(a) == {j \in Jobs : a \in schedules[j] /\ a > from /\ a \notin launched[j]}

Pending == {a \in 0..Horizon : Waiting(a) # {}}

\* All that waits for the earliest time is run at once.
Launch ==
    /\ running
    /\ \E a \in Pending :
         /\ a <= clock
         /\ \A b \in Pending : a <= b
         /\ launched' = [j \in Jobs |-> launched[j] \cup
                                        IF j \in Waiting(a) THEN {a} ELSE {}]
    /\ UNCHANGED <<clock, running, schedules, from>>

Next == Tick \/ Start \/ Launch

Spec == Init /\ [][Next]_vars

=============================================================================
