----------------------------- MODULE Scheduler -----------------------------
(***************************************************************************)
(* bakapy-scheduler up to its cleanup loop, and the run loop of cron.      *)
(*                                                                         *)
(* main reads the configuration, gives every enabled job to cron, starts   *)
(* the storage and then cron, or leaves early: rejected (a configuration   *)
(* error), tested (-test), crashed (the address to listen on is taken).    *)
(* cron's goroutine keeps, for each entry, the time of its next            *)
(* activation; it arms a timer for the earliest, and when the timer fires  *)
(* it starts every entry that was due at that time in a goroutine of its   *)
(* own.  The wall clock never goes back.                                   *)
(***************************************************************************)
EXTENDS Configuration, FiniteSets, FiniteSetsExt

CONSTANTS
    MainFiles,      \* the contents the main file may have
    Includes,       \* the sequences of files that include_jobs may match
    Horizon,        \* Next looks for an activation up to this time
    Calendar,       \* the second, minute, hour, day, month, weekday of a time
    MaxLag,         \* bound on how long a due timer or a busy cron waits
    MaxTime         \* bound on the clock

IsFile(f) == \E names \in SUBSET Jobs : f \in [names -> Definition]

ASSUME SchedulerAssumption ==
    /\ \A f \in MainFiles : IsFile(f)
    /\ \A fs \in Includes :
         /\ Len(fs) \in Nat /\ DOMAIN fs = 1..Len(fs)
         /\ \A i \in DOMAIN fs : IsFile(fs[i])
    /\ Horizon \in Nat /\ MaxLag \in Nat /\ MaxTime \in Nat
    /\ Calendar \in [0..Horizon -> [Fields -> Nat]]

VARIABLES
    main,           \* where main() is
    mainFile, includes,     \* what the files on the disk say
    testOnly,       \* the flag -test
    parsed,         \* how many of the included files have been read
    jobs,           \* cfg.Jobs
    jobDefines,     \* the names that the included files have defined
    listening,      \* is the storage listening?
    entries,        \* the jobs that cron knows, with their schedules
    clock,          \* the wall clock
    cron,           \* where cron's goroutine is
    now,            \* the variable now of its loop
    next,           \* the time of the next activation of an entry
    effective,      \* the activation that the timer is for
    deadline,       \* when the timer fires
    started,        \* history: when cron worked out the first activations
    launched        \* history: the activations for which a job was run

configVars == <<mainFile, includes, testOnly>>
parseVars == <<parsed, jobs, jobDefines>>
timerVars == <<now, next, effective, deadline, started, launched>>
vars == <<main, configVars, parseVars, listening, entries, clock, cron,
          timerVars>>

\* The zero time, which sorts last: no activation is found.
Zero == Horizon + 1

Init ==
    /\ main = "parse"
    /\ mainFile \in MainFiles /\ includes \in Includes
    /\ testOnly \in BOOLEAN
    /\ parsed = 0 /\ jobs = mainFile /\ jobDefines = {}
    /\ listening = FALSE /\ entries = <<>>
    /\ clock = 0 /\ cron = "off"
    /\ now = 0 /\ effective = 0 /\ deadline = 0 /\ started = 0
    /\ next = [j \in Jobs |-> Zero]
    /\ launched = [j \in Jobs |-> {}]

-----------------------------------------------------------------------------
(* main: ParseConfig                                                       *)

\* A file cannot be read, is not YAML, or include_jobs is no pattern.
ReadFails ==
    /\ main = "parse"
    /\ main' = "rejected"
    /\ UNCHANGED <<configVars, parseVars, listening, entries, clock, cron,
                   timerVars>>

Merged(file) ==
    [j \in DOMAIN jobs \cup DOMAIN file |->
        IF j \in DOMAIN file THEN file[j] ELSE jobs[j]]

\* A slip: the names of a file are not kept for the next one.
IncludeFileForgetting ==
    /\ main = "parse" /\ parsed < Len(includes)
    /\ parsed' = parsed + 1
    /\ jobs' = Merged(includes[parsed + 1])
    /\ UNCHANGED <<main, jobDefines, configVars, listening, entries, clock,
                   cron, timerVars>>

\* A name that two included files define is an error; a name that the main
\* file defines as well is not, and loses that definition.
IncludeFile ==
    /\ main = "parse" /\ parsed < Len(includes)
    /\ LET file == includes[parsed + 1]
       IN  IF DOMAIN file \cap jobDefines # {}
           THEN main' = "rejected" /\ UNCHANGED parseVars
           ELSE /\ parsed' = parsed + 1
                /\ jobs' = Merged(file)
                /\ jobDefines' = jobDefines \cup DOMAIN file
                /\ UNCHANGED main
    /\ UNCHANGED <<configVars, listening, entries, clock, cron, timerVars>>

Sanitize ==
    /\ main = "parse" /\ parsed = Len(includes)
    /\ IF \E j \in DOMAIN jobs : BothAges(jobs[j])
       THEN main' = "rejected" /\ UNCHANGED jobs
       ELSE /\ main' = "entries"
            /\ jobs' = [j \in DOMAIN jobs |-> Sanitized(jobs[j])]
    /\ UNCHANGED <<parsed, jobDefines, configVars, listening, entries, clock,
                   cron, timerVars>>

-----------------------------------------------------------------------------
(* main: entries, storage and cron                                         *)

AddFunc(job) == ~job.disabled /\ Parses(SchedulerString(job.runAt))

\* The error of AddFunc is dropped, and the job with it.
AddEntries ==
    /\ main = "entries"
    /\ entries' = [j \in {k \in DOMAIN jobs : AddFunc(jobs[k])} |->
                     CronFields(SchedulerString(jobs[j].runAt))]
    /\ main' = IF testOnly THEN "tested" ELSE "listen"
    /\ UNCHANGED <<configVars, parseVars, listening, clock, cron, timerVars>>

\* storage.Start: Listen panics if it cannot have the address.
Listen ==
    /\ main = "listen"
    /\ \/ main' = "start" /\ listening' = TRUE
       \/ main' = "crashed" /\ UNCHANGED listening
    /\ UNCHANGED <<configVars, parseVars, entries, clock, cron, timerVars>>

\* A slip: the storage is started after cron.
StartCronFirst ==
    /\ main = "listen" /\ cron = "off"
    /\ cron' = "new"
    /\ UNCHANGED <<main, configVars, parseVars, listening, entries, clock,
                   timerVars>>

StartCron ==
    /\ main = "start"
    /\ main' = "cleanup" /\ cron' = "new"
    /\ UNCHANGED <<configVars, parseVars, listening, entries, clock, timerVars>>

Main ==
    \/ ReadFails \/ IncludeFile \/ Sanitize \/ AddEntries \/ Listen
    \/ StartCron

-----------------------------------------------------------------------------
(* The schedule of a job                                                   *)

\* Does a schedule hold at time t?  The day and the weekday must both match
\* if one of them has a star, be it one with a step, otherwise one of them
\* is enough.
Matches(schedule, t) ==
    LET Match(i) == Covers(schedule[i], i, Calendar[t][i])
    IN  /\ \A i \in {1, 2, 3, 5} : Match(i)
        /\ IF schedule[4].star \/ schedule[6].star
           THEN Match(4) /\ Match(6)
           ELSE Match(4) \/ Match(6)

Activations(j) == {t \in 0..Horizon : Matches(entries[j], t)}

Scheduled == DOMAIN entries

Upcoming(j, t) == {a \in Activations(j) : a > t} \cup {Zero}

\* Schedule.Next: the first activation after time t.
NextTime(j, t) == Min(Upcoming(j, t))

-----------------------------------------------------------------------------
(* cron.run                                                                *)

FirstTimes ==
    /\ cron = "new"
    /\ cron' = "arm"
    /\ now' = clock /\ started' = clock
    /\ next' = [j \in Jobs |-> IF j \in Scheduled THEN NextTime(j, clock) ELSE Zero]
    /\ UNCHANGED <<main, configVars, parseVars, listening, entries, clock,
                   effective, deadline, launched>>

Times == {next[j] : j \in Jobs} \cup {Zero}

\* A slip: the time to wait is rounded down.
ArmShort ==
    /\ cron = "arm"
    /\ cron' = "asleep"
    /\ effective' = Min(Times)
    /\ deadline' = clock + (IF Min(Times) > now THEN Min(Times) - now - 1 ELSE 0)
    /\ UNCHANGED <<main, configVars, parseVars, listening, entries, clock, now,
                   next, started, launched>>

\* A slip: an activation that is due when the loop comes round is skipped.
ArmSkipping ==
    /\ cron = "arm"
    /\ cron' = "asleep"
    /\ effective' = Min({t \in Times : t > clock} \cup {Zero})
    /\ deadline' = effective'
    /\ UNCHANGED <<main, configVars, parseVars, listening, entries, clock, now,
                   next, started, launched>>

\* time.After(effective.Sub(now)).  now is older than the clock, so the
\* timer may be late but is not early; a negative duration fires at once.
Arm ==
    /\ cron = "arm"
    /\ cron' = "asleep"
    /\ effective' = Min(Times)
    /\ deadline' = clock + (IF Min(Times) > now THEN Min(Times) - now ELSE 0)
    /\ UNCHANGED <<main, configVars, parseVars, listening, entries, clock, now,
                   next, started, launched>>

Due == {j \in Scheduled : next[j] = effective}

\* A slip: the next activation is sought after the time of the firing.
LaunchFromNow(js) ==
    /\ launched' = [j \in Jobs |-> launched[j] \cup
                                   IF j \in js THEN {effective} ELSE {}]
    /\ next' = [j \in Jobs |-> IF j \in js THEN NextTime(j, clock) ELSE next[j]]

\* The entries are run, even if an earlier run of them has not ended, and
\* their next activations are counted from the one that was due.
Launch(js) ==
    /\ launched' = [j \in Jobs |-> launched[j] \cup
                                   IF j \in js THEN {effective} ELSE {}]
    /\ next' = [j \in Jobs |-> IF j \in js THEN NextTime(j, effective)
                                           ELSE next[j]]

\* The timer sent the time at which it fired, maybe some time ago.
Wake ==
    /\ cron = "asleep" /\ clock >= deadline
    /\ cron' = "arm"
    /\ now' \in deadline..clock
    /\ UNCHANGED <<main, configVars, parseVars, listening, entries, clock,
                   effective, deadline, started>>

\* A slip: the zero time is taken for a time.
FireZero == Wake /\ Launch(Due)

\* A slip: only the entry at the head of the list is run and moved on.
FireOne == Wake /\ effective # Zero /\ \E j \in Due : Launch({j})

\* While no entry has a next activation the timer is set for ten years
\* ahead, beyond the clock of the model.
Fire == Wake /\ effective # Zero /\ Launch(Due)

Run == FirstTimes \/ Arm \/ Fire

-----------------------------------------------------------------------------
(* The clock                                                               *)

\* Since when a due timer, or cron itself, has been waiting for its turn.
WaitingSince == IF cron = "arm" THEN now ELSE deadline

Tick ==
    /\ clock < MaxTime
    /\ cron \in {"arm", "asleep"} => clock - WaitingSince < MaxLag
    /\ clock' = clock + 1
    /\ UNCHANGED <<main, configVars, parseVars, listening, entries, cron,
                   timerVars>>

Next == Main \/ Run \/ Tick

Spec == Init /\ [][Next]_vars

\* Time passes, and the Go scheduler runs cron's goroutine.
FairSpec == Spec /\ WF_vars(Tick) /\ WF_vars(Run)

-----------------------------------------------------------------------------
(* Properties                                                              *)

ConfigTypeOK ==
    /\ main \in {"parse", "rejected", "entries", "tested", "listen",
                 "crashed", "start", "cleanup"}
    /\ mainFile \in MainFiles /\ includes \in Includes /\ testOnly \in BOOLEAN
    /\ parsed \in 0..Len(includes)
    /\ IsFile(jobs) /\ jobDefines \subseteq Jobs
    /\ listening \in BOOLEAN

CronTypeOK ==
    /\ Scheduled \subseteq Jobs
    /\ cron \in {"off", "new", "arm", "asleep"}
    /\ clock \in 0..MaxTime
    /\ now \in 0..clock /\ started \in 0..clock
    /\ next \in [Jobs -> 0..Zero]
    /\ effective \in 0..Zero /\ deadline \in Nat
    /\ launched \in [Jobs -> SUBSET (0..Horizon)]

TypeOK == ConfigTypeOK /\ CronTypeOK

Ticking == cron \in {"arm", "asleep"}

\* Every activation of an entry since cron started, up to the one it waits
\* for, has led to a run, and no other time has: however late the timer
\* fires, and whatever else is due, none is skipped.  (cron.run)
NoActivationSkipped ==
    Ticking => \A j \in Scheduled :
        launched[j] = {a \in Activations(j) : started < a /\ a < next[j]}

\* A job is run before its time neither when the clock and the variable now
\* of the loop have drifted apart nor otherwise.  (cron.run)
NeverEarly == \A j \in Jobs : \A a \in launched[j] : a <= clock

\* The runs of all jobs are started in the order of their activations, those
\* of the same time together.  (cron.run)
LaunchedInOrder ==
    \A j, k \in Jobs : \A a \in launched[j] : a < next[k]

\* No job is run before the storage listens for its files.  (main)
ListensBeforeRuns == \A j \in Jobs : launched[j] # {} => listening

\* The included files that define job j, and what the files say of it.
IncludedIn(j) == {i \in DOMAIN includes : j \in DOMAIN includes[i]}
Written(j) == IF IncludedIn(j) = {} THEN mainFile[j]
              ELSE includes[CHOOSE i \in IncludedIn(j) : TRUE][j]

\* When a configuration has been accepted, a job that an included file
\* defines is defined in that file alone and as it says there, the others
\* as the main file says; its MaxAge is the age it asks for, given in one
\* way only and kept exactly if it fits in a time.Duration.
\* (ParseConfig, Sanitize)
JobsAsWritten ==
    main \notin {"parse", "rejected"} => \A j \in DOMAIN jobs :
        /\ \A i, k \in IncludedIn(j) : i = k
        /\ jobs[j] = [Written(j) EXCEPT !.maxAge = jobs[j].maxAge]
        /\ ~BothAges(Written(j))
        /\ Fits(AgeOf(Written(j))) => jobs[j].maxAge = AgeOf(Written(j))

\* Every activation within the horizon leads to a run.  (cron.run)
ActivationLaunched ==
    \A j \in Jobs : \A a \in 0..Horizon :
        Ticking /\ j \in Scheduled /\ a \in Activations(j) /\ a > started
            ~> a \in launched[j]

-----------------------------------------------------------------------------
(* cron keeps a timetable                                                  *)

\* The activations that cron knows of once it has worked out the first ones.
Published == [j \in Jobs |-> IF Ticking /\ j \in Scheduled THEN Activations(j)
                                                         ELSE {}]

T == INSTANCE Timetable WITH running <- Ticking, schedules <- Published,
                             from <- started

\* The loop of cron does what a timetable promises: the activations of all
\* jobs are worked off in the order of their times, each for all its jobs at
\* once, none before its time and none left out.  (cron.run)
ImplementsTimetable == T!Spec

-----------------------------------------------------------------------------
(* The inductive invariant                                                 *)

\* The job names that the files read so far define, and no others, are in
\* jobDefines, each with one file; the rest of jobs is the main file's.
ParsedSoFar ==
    main = "parse" =>
        /\ \A i \in 1..parsed : \A j \in DOMAIN includes[i] :
             /\ j \in jobDefines
             /\ jobs[j] = includes[i][j]
             /\ \A k \in 1..parsed : j \in DOMAIN includes[k] => k = i
        /\ jobDefines = UNION {DOMAIN includes[i] : i \in 1..parsed}
        /\ DOMAIN jobs = DOMAIN mainFile \cup jobDefines
        /\ \A j \in DOMAIN jobs \ jobDefines : jobs[j] = mainFile[j]

\* cron is started by main once the storage listens, and from then on main
\* changes nothing it uses.
CronAfterStart ==
    /\ cron # "off" => main = "cleanup" /\ listening
    /\ main \in {"start", "cleanup"} => listening
    /\ ~Ticking => \A j \in Jobs : launched[j] = {} /\ next[j] = Zero

\* The activation an entry waits for is one of its own, and no earlier than
\* the one the timer is set for, which is never due before it fires.
Waits ==
    Ticking =>
        /\ \A j \in Scheduled :
             next[j] \in {a \in Activations(j) : a > started} \cup {Zero}
        /\ \A j \in Jobs \ Scheduled : next[j] = Zero /\ launched[j] = {}
        /\ cron = "asleep" =>
             /\ effective <= deadline
             /\ \A j \in Jobs : effective <= next[j]

CronInv ==
    /\ CronTypeOK
    /\ CronAfterStart
    /\ Waits
    /\ NoActivationSkipped
    /\ NeverEarly
    /\ LaunchedInOrder

ConfigInv == ConfigTypeOK /\ ParsedSoFar /\ JobsAsWritten

IInv == ConfigInv /\ CronInv

-----------------------------------------------------------------------------
(* What the repository says and the code does not keep                     *)

\* Every field of run_at that is given is the field cron goes by
\* ("Cron-like run specification", jobs.conf.ex.yaml).
ScheduledAsConfigured ==
    \A j \in Scheduled : \A i \in Fields :
        jobs[j].runAt[i] # Blank =>
            entries[j][i] = jobs[j].runAt[i]

=============================================================================
