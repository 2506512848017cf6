-------------------------- MODULE SchedulerProofs --------------------------
(***************************************************************************)
(* Proofs about Scheduler: for any jobs, files and calendar, however late  *)
(* the timers fire, the accepted configuration is the one the files        *)
(* describe and cron skips no activation.                                  *)
(***************************************************************************)
EXTENDS Scheduler, NaturalsInduction, WellFoundedInduction, TLAPS

-----------------------------------------------------------------------------
(* The first activation after a time                                       *)

\* A set of natural numbers that is not empty has a least element, and that
\* is what Min returns.
LEMMA MinIsLeast ==
    ASSUME NEW S, S \subseteq Nat, S # {}
    PROVE  Min(S) \in S /\ \A y \in S : Min(S) <= y
<1>1. IsWellFoundedOn(OpToRel(<, Nat), Nat)
  BY NatLessThanWellFounded
<1>2. PICK x \in S : \A y \in S : <<y, x>> \notin OpToRel(<, Nat)
  BY <1>1, WFMin
<1>3. ASSUME NEW y \in S
      PROVE  x <= y
  <2>1. <<y, x>> \in Nat \X Nat
    OBVIOUS
  <2>2. ~(y < x)
    BY <1>2, <2>1 DEF OpToRel
  <2> QED BY <2>2
<1> QED BY <1>3 DEF Min

\* NextTime is the first activation after t: it lies after t, and no
\* activation lies in between.
LEMMA NextTimeIsFirst ==
    ASSUME NEW j, NEW t \in Nat
    PROVE  /\ NextTime(j, t) \in {a \in Activations(j) : a > t} \cup {Zero}
           /\ \A a \in Activations(j) : a > t => NextTime(j, t) <= a
           /\ NextTime(j, t) \in 0..Zero
<1>1. Activations(j) \subseteq 0..Horizon /\ Zero \in Nat /\ Horizon \in Nat
      /\ Zero = Horizon + 1
  BY SchedulerAssumption DEF Activations, Zero
<1>2. Upcoming(j, t) \subseteq Nat /\ Upcoming(j, t) # {}
  BY <1>1 DEF Upcoming
<1>3. /\ NextTime(j, t) \in Upcoming(j, t)
      /\ \A y \in Upcoming(j, t) : NextTime(j, t) <= y
  BY <1>2, MinIsLeast DEF NextTime
<1> QED BY <1>1, <1>3 DEF Upcoming

-----------------------------------------------------------------------------
(* cron                                                                    *)

LEMMA InitCronInv == Init => CronInv
BY SchedulerAssumption
   DEF Init, CronInv, CronTypeOK, CronAfterStart, Waits, NoActivationSkipped,
       NeverEarly, LaunchedInOrder, Ticking, Zero, Scheduled

\* The steps that leave cron's variables and what it uses alone.
LEMMA ConfigStep ==
    ASSUME CronInv, UNCHANGED <<clock, cron, timerVars>>,
           cron # "off" => UNCHANGED <<main, listening, entries>>,
           main' \in {"start", "cleanup"} => listening', Scheduled' \subseteq Jobs
    PROVE  CronInv'
<1> USE DEF timerVars
<1>1. CronTypeOK' /\ CronAfterStart' /\ NeverEarly' /\ LaunchedInOrder'
  BY DEF CronInv, CronTypeOK, CronAfterStart, NeverEarly, LaunchedInOrder,
         Ticking, Zero
<1>2. CASE cron \in {"off", "new"}
  BY <1>1, <1>2 DEF CronInv, CronTypeOK, Waits, NoActivationSkipped, Ticking
<1>3. CASE cron \notin {"off", "new"}
  <2>1. UNCHANGED entries
    BY <1>3
  <2>2. Scheduled' = Scheduled /\ \A j : Activations(j)' = Activations(j)
    BY <2>1 DEF Scheduled, Activations, Matches
  <2>3. Waits'
    BY <2>2 DEF CronInv, Waits, Ticking, Zero
  <2>4. NoActivationSkipped'
    BY <2>2 DEF CronInv, NoActivationSkipped, Ticking
  <2> QED BY <1>1, <2>3, <2>4 DEF CronInv
<1> QED BY <1>2, <1>3

LEMMA FirstTimesCronInv == CronInv /\ FirstTimes => CronInv'
<1> SUFFICES ASSUME CronInv, FirstTimes PROVE CronInv'
  OBVIOUS
<1> USE DEF CronInv, Ticking
<1>a. /\ Zero \in Nat /\ Horizon \in Nat /\ Zero = Horizon + 1
      /\ clock \in Nat /\ MaxTime \in Nat /\ Scheduled \subseteq Jobs
  BY SchedulerAssumption DEF Zero, CronTypeOK
<1>b. /\ cron = "new" /\ cron' = "arm" /\ now' = clock /\ started' = clock
      /\ UNCHANGED <<main, listening, entries, clock, effective, deadline,
                     launched>>
      /\ next' = [j \in Jobs |-> IF j \in Scheduled THEN NextTime(j, clock)
                                                    ELSE Zero]
  BY DEF FirstTimes
<1>c. Scheduled' = Scheduled /\ \A j : Activations(j)' = Activations(j)
  BY <1>b DEF Scheduled, Activations, Matches
<1>d. \A j \in Jobs : launched[j] = {}
  BY <1>b DEF CronAfterStart
<1>e. \A j \in Jobs : next'[j] \in 0..Zero
  BY <1>a, <1>b, NextTimeIsFirst
<1>1. CronTypeOK'
  BY <1>a, <1>b, <1>c, <1>e DEF CronTypeOK
<1>2. CronAfterStart'
  BY <1>b DEF CronAfterStart
<1>3. Waits'
  <2>1. ASSUME NEW j \in Scheduled
        PROVE  next'[j] \in {a \in Activations(j) : a > clock} \cup {Zero}
    BY <1>a, <1>b, <2>1, NextTimeIsFirst
  <2> QED
    BY <1>a, <1>b, <1>c, <1>d, <2>1 DEF Waits, Zero
<1>4. NoActivationSkipped'
  <2> SUFFICES ASSUME NEW j \in Scheduled
               PROVE  launched'[j] = {a \in Activations(j)' :
                                        started' < a /\ a < next'[j]}
    BY <1>c DEF NoActivationSkipped
  <2>1. \A a \in Activations(j) : a > clock => next'[j] <= a
    BY <1>a, <1>b, NextTimeIsFirst
  <2>2. Activations(j) \subseteq Nat /\ next'[j] \in Nat
    BY <1>a, <1>e DEF Activations
  <2> QED
    BY <1>a, <1>b, <1>c, <1>d, <2>1, <2>2
<1>5. NeverEarly' /\ LaunchedInOrder'
  BY <1>b, <1>d DEF NeverEarly, LaunchedInOrder
<1> QED
  BY <1>1, <1>2, <1>3, <1>4, <1>5

\* Arm takes the earliest of the next activations.
LEMMA EarliestOfAll ==
    ASSUME CronTypeOK
    PROVE  /\ Min(Times) \in Times /\ Min(Times) \in 0..Zero
           /\ \A j \in Jobs : Min(Times) <= next[j]
<1>1. Zero \in Nat
  BY SchedulerAssumption DEF Zero
<1>2. Times \subseteq 0..Zero /\ Times \subseteq Nat /\ Times # {}
  BY <1>1 DEF Times, CronTypeOK
<1>3. Min(Times) \in Times /\ \A y \in Times : Min(Times) <= y
  BY <1>1, <1>2, MinIsLeast
<1> QED BY <1>2, <1>3 DEF Times

LEMMA ArmCronInv == CronInv /\ Arm => CronInv'
<1> SUFFICES ASSUME CronInv, Arm PROVE CronInv'
  OBVIOUS
<1> USE DEF CronInv, Ticking
<1>a. /\ Zero \in Nat /\ clock \in Nat /\ now \in 0..clock
      /\ Min(Times) \in 0..Zero /\ \A j \in Jobs : Min(Times) <= next[j]
  BY SchedulerAssumption, EarliestOfAll DEF Zero, CronTypeOK
<1>b. /\ cron = "arm" /\ cron' = "asleep" /\ effective' = Min(Times)
      /\ deadline' = clock + (IF Min(Times) > now THEN Min(Times) - now ELSE 0)
      /\ UNCHANGED <<main, listening, entries, clock, now, next, started,
                     launched>>
  BY DEF Arm
<1>c. Scheduled' = Scheduled /\ \A j : Activations(j)' = Activations(j)
  BY <1>b DEF Scheduled, Activations, Matches
<1>d. deadline' \in Nat /\ effective' <= deadline'
  BY <1>a, <1>b
<1>1. CronTypeOK'
  BY <1>a, <1>b, <1>c, <1>d DEF CronTypeOK, Zero
<1>2. CronAfterStart' /\ NeverEarly' /\ LaunchedInOrder'
  BY <1>b DEF CronAfterStart, NeverEarly, LaunchedInOrder
<1>3. Waits'
  BY <1>a, <1>b, <1>c, <1>d DEF Waits, Zero
<1>4. NoActivationSkipped'
  BY <1>b, <1>c DEF NoActivationSkipped
<1> QED
  BY <1>1, <1>2, <1>3, <1>4

LEMMA FireCronInv == CronInv /\ Fire => CronInv'
<1> SUFFICES ASSUME CronInv, Fire PROVE CronInv'
  OBVIOUS
<1> USE DEF CronInv, Ticking
<1>a. /\ Zero \in Nat /\ Horizon \in Nat /\ Zero = Horizon + 1
      /\ clock \in Nat /\ now \in 0..clock /\ started \in 0..clock
      /\ deadline \in Nat /\ effective \in 0..Zero /\ Scheduled \subseteq Jobs
      /\ \A j \in Jobs : next[j] \in 0..Zero
  BY SchedulerAssumption DEF Zero, CronTypeOK
<1>b. /\ cron = "asleep" /\ cron' = "arm" /\ clock >= deadline
      /\ effective # Zero /\ now' \in deadline..clock
      /\ launched' = [j \in Jobs |-> launched[j] \cup
                                     IF j \in Due THEN {effective} ELSE {}]
      /\ next' = [j \in Jobs |-> IF j \in Due THEN NextTime(j, effective)
                                              ELSE next[j]]
      /\ UNCHANGED <<main, listening, entries, clock, effective, deadline,
                     started>>
  BY DEF Fire, Wake, Launch
<1>c. Scheduled' = Scheduled /\ \A j : Activations(j)' = Activations(j)
  BY <1>b DEF Scheduled, Activations, Matches
<1>d. /\ \A j \in Jobs : effective <= next[j]
      /\ effective <= deadline
      /\ \A j \in Scheduled :
           next[j] \in {a \in Activations(j) : a > started} \cup {Zero}
      /\ \A j \in Jobs \ Scheduled : next[j] = Zero /\ launched[j] = {}
  BY <1>b DEF Waits
<1>e. \A j \in Due : j \in Scheduled /\ j \in Jobs /\ next[j] = effective
  BY <1>a DEF Due
<1>f. \A j \in Jobs : next'[j] \in 0..Zero /\ effective < next'[j]
  <2>1. ASSUME NEW j \in Jobs, j \in Due
        PROVE  next'[j] \in 0..Zero /\ effective < next'[j]
    <3>1. /\ next'[j] \in {a \in Activations(j) : a > effective} \cup {Zero}
          /\ next'[j] \in 0..Zero
      BY <1>a, <1>b, <2>1, NextTimeIsFirst
    <3> QED BY <1>a, <1>b, <3>1
  <2>2. ASSUME NEW j \in Jobs, j \notin Due
        PROVE  next'[j] \in 0..Zero /\ effective < next'[j]
    <3>1. next[j] # effective
      BY <1>b, <1>d, <2>2 DEF Due
    <3> QED BY <1>a, <1>b, <1>d, <2>2, <3>1
  <2> QED BY <2>1, <2>2
<1>g. \A j \in Jobs : launched'[j] \subseteq 0..Horizon
  BY <1>a, <1>b DEF CronTypeOK
<1>1. CronTypeOK'
  BY <1>a, <1>b, <1>c, <1>f, <1>g DEF CronTypeOK, Zero
<1>2. CronAfterStart'
  BY <1>b DEF CronAfterStart
<1>3. Waits'
  <2>1. ASSUME NEW j \in Scheduled
        PROVE  next'[j] \in {a \in Activations(j) : a > started} \cup {Zero}
    <3>1. CASE j \in Due
      <4>1. next'[j] \in {a \in Activations(j) : a > effective} \cup {Zero}
        BY <1>a, <1>b, <3>1, NextTimeIsFirst
      <4>2. effective > started
        BY <1>a, <1>b, <1>d, <1>e, <3>1
      <4>3. Activations(j) \subseteq Nat
        BY <1>a DEF Activations
      <4> QED BY <1>a, <4>1, <4>2, <4>3
    <3>2. CASE j \notin Due
      BY <1>a, <1>b, <1>d, <3>2
    <3> QED BY <3>1, <3>2
  <2>2. ASSUME NEW j \in Jobs \ Scheduled
        PROVE  next'[j] = Zero /\ launched'[j] = {}
    BY <1>b, <1>d, <1>e, <2>2
  <2> QED
    BY <1>b, <1>c, <2>1, <2>2 DEF Waits, Zero
<1>4. NoActivationSkipped'
  <2> SUFFICES ASSUME NEW j \in Scheduled
               PROVE  launched'[j] = {a \in Activations(j) :
                                        started < a /\ a < next'[j]}
    BY <1>b, <1>c DEF NoActivationSkipped
  <2>1. launched[j] = {a \in Activations(j) : started < a /\ a < next[j]}
    BY <1>b DEF NoActivationSkipped
  <2>2. Activations(j) \subseteq Nat /\ j \in Jobs
    BY <1>a DEF Activations
  <2>3. CASE j \in Due
    <3>1. /\ \A a \in Activations(j) : a > effective => next'[j] <= a
          /\ effective < next'[j] /\ next'[j] \in Nat
      BY <1>a, <1>b, <1>f, <2>2, <2>3, NextTimeIsFirst
    <3>2. effective \in Activations(j) /\ started < effective
      BY <1>a, <1>b, <1>d, <1>e, <2>3
    <3>3. launched'[j] = {a \in Activations(j) : started < a /\ a < effective}
                           \cup {effective}
      BY <1>b, <1>e, <2>1, <2>2, <2>3
    <3> QED BY <1>a, <2>2, <3>1, <3>2, <3>3
  <2>4. CASE j \notin Due
    BY <1>b, <2>1, <2>2, <2>4
  <2> QED BY <2>3, <2>4
<1>5. NeverEarly'
  BY <1>a, <1>b, <1>d DEF NeverEarly
<1>6. LaunchedInOrder'
  <2> SUFFICES ASSUME NEW j \in Jobs, NEW k \in Jobs, NEW a \in launched'[j]
               PROVE  a < next'[k]
    BY DEF LaunchedInOrder
  <2>1. CASE a \in launched[j]
    <3>1. a \in Nat /\ a < next[k]
      BY <1>a, <2>1 DEF LaunchedInOrder, CronTypeOK
    <3>2. next[k] <= next'[k]
      BY <1>a, <1>b, <1>e, <1>f
    <3> QED BY <1>a, <1>f, <3>1, <3>2
  <2>2. CASE a \notin launched[j]
    BY <1>b, <1>f, <2>2
  <2> QED BY <2>1, <2>2
<1> QED
  BY <1>1, <1>2, <1>3, <1>4, <1>5, <1>6

LEMMA TickCronInv == CronInv /\ Tick => CronInv'
<1> SUFFICES ASSUME CronInv, Tick PROVE CronInv'
  OBVIOUS
<1> USE DEF CronInv, Ticking, timerVars
<1>a. /\ clock \in 0..MaxTime /\ clock < MaxTime /\ clock' = clock + 1
      /\ MaxTime \in Nat
      /\ UNCHANGED <<main, listening, entries, cron, now, next, effective,
                     deadline, started, launched>>
  BY SchedulerAssumption DEF Tick, CronTypeOK
<1>b. Scheduled' = Scheduled /\ \A j : Activations(j)' = Activations(j)
  BY <1>a DEF Scheduled, Activations, Matches
<1>1. CronTypeOK'
  BY <1>a, <1>b DEF CronTypeOK, Zero
<1>2. CronAfterStart' /\ LaunchedInOrder'
  BY <1>a DEF CronAfterStart, LaunchedInOrder, Zero
<1>3. Waits'
  BY <1>a, <1>b DEF Waits, Zero
<1>4. NoActivationSkipped'
  BY <1>a, <1>b DEF NoActivationSkipped
<1>5. NeverEarly'
  <2> SUFFICES ASSUME NEW j \in Jobs, NEW a \in launched[j]
               PROVE  a <= clock + 1
    BY <1>a DEF NeverEarly
  <2> Horizon \in Nat /\ a \in 0..Horizon /\ a <= clock
    BY SchedulerAssumption DEF CronTypeOK, NeverEarly
  <2> QED BY <1>a
<1> QED
  BY <1>1, <1>2, <1>3, <1>4, <1>5

-----------------------------------------------------------------------------
(* ParseConfig                                                             *)

LEMMA WrappedFits ==
    ASSUME NEW n \in Int
    PROVE  Wrapped(n) \in Int /\ (Fits(n) => Wrapped(n) = n)
<1>1. Limit \in Nat /\ Limit > 0
  BY ConfigurationAssumption
<1>2. 2 * Limit \in Nat /\ 2 * Limit > 0 /\ n + Limit \in Int
  BY <1>1
<1>3. \A m \in Nat, x \in Int : m > 0 => x % m \in Int
  OBVIOUS
<1>4. \A m \in Nat, x \in Int : m > 0 /\ 0 <= x /\ x < m => x % m = x
  OBVIOUS
<1>5. ((n + Limit) % (2 * Limit)) \in Int
  BY <1>2, <1>3
<1>6. ASSUME Fits(n) PROVE (n + Limit) % (2 * Limit) = n + Limit
  <2>1. 0 <= n + Limit /\ n + Limit < 2 * Limit
    BY <1>1, <1>6 DEF Fits
  <2> QED BY <1>2, <1>4, <2>1
<1> QED BY <1>1, <1>5, <1>6 DEF Wrapped

LEMMA SanitizedJob ==
    ASSUME NEW job \in Definition
    PROVE  /\ Sanitized(job) \in Definition
           /\ Sanitized(job) = [job EXCEPT !.maxAge = Sanitized(job).maxAge]
           /\ Fits(AgeOf(job)) => Sanitized(job).maxAge = AgeOf(job)
<1>1. job.maxAgeDays * Day \in Int
  BY ConfigurationAssumption DEF Definition
<1>2. /\ Wrapped(job.maxAgeDays * Day) \in Int
      /\ Fits(job.maxAgeDays * Day)
           => Wrapped(job.maxAgeDays * Day) = job.maxAgeDays * Day
  BY <1>1, WrappedFits
<1> QED BY <1>2 DEF Sanitized, Definition, AgeOf

LEMMA FilesAre ==
    ASSUME ConfigTypeOK
    PROVE  /\ Len(includes) \in Nat /\ DOMAIN includes = 1..Len(includes)
           /\ \A i \in DOMAIN includes : IsFile(includes[i])
           /\ IsFile(mainFile) /\ parsed \in 0..Len(includes)
BY SchedulerAssumption DEF ConfigTypeOK

LEMMA InitConfigInv == Init => ConfigInv
<1> SUFFICES ASSUME Init PROVE ConfigInv
  OBVIOUS
<1>1. ConfigTypeOK
  <2>1. /\ mainFile \in MainFiles /\ includes \in Includes
        /\ parsed = 0 /\ jobs = mainFile
    BY DEF Init
  <2>2. IsFile(jobs) /\ Len(includes) \in Nat
    BY <2>1, SchedulerAssumption
  <2>3. parsed \in 0..Len(includes)
    BY <2>1, <2>2
  <2>4. /\ main = "parse" /\ testOnly \in BOOLEAN /\ jobDefines = {}
        /\ listening = FALSE
    BY DEF Init
  <2> QED BY <2>1, <2>2, <2>3, <2>4 DEF ConfigTypeOK
<1>2. ParsedSoFar /\ JobsAsWritten
  BY DEF Init, ParsedSoFar, JobsAsWritten
<1> QED BY <1>1, <1>2 DEF ConfigInv

\* The steps after ParseConfig leave the configuration alone.
LEMMA AcceptedStep ==
    ASSUME ConfigInv, UNCHANGED <<configVars, parseVars>>,
           main \notin {"parse", "rejected"} \/ main' \in {"rejected", main},
           main' # "parse" \/ main = "parse",
           main' \in {"rejected", "tested", "listen", "crashed", "start",
                      "cleanup", main},
           listening' \in BOOLEAN
    PROVE  ConfigInv'
<1> USE DEF configVars, parseVars
<1>1. ConfigTypeOK'
  BY DEF ConfigInv, ConfigTypeOK
<1>2. ParsedSoFar'
  BY DEF ConfigInv, ParsedSoFar
<1>3. \A j : IncludedIn(j)' = IncludedIn(j) /\ Written(j)' = Written(j)
  BY DEF IncludedIn, Written
<1>4. JobsAsWritten'
  BY <1>3 DEF ConfigInv, JobsAsWritten
<1> QED BY <1>1, <1>2, <1>4 DEF ConfigInv

LEMMA IncludeFileConfigInv == ConfigInv /\ IncludeFile => ConfigInv'
<1> SUFFICES ASSUME ConfigInv, IncludeFile PROVE ConfigInv'
  OBVIOUS
<1> USE DEF ConfigInv
<1> DEFINE file == includes[parsed + 1]
<1>a. /\ main = "parse" /\ parsed < Len(includes) /\ UNCHANGED configVars
      /\ UNCHANGED listening
  BY DEF IncludeFile
<1>b. /\ Len(includes) \in Nat /\ DOMAIN includes = 1..Len(includes)
      /\ \A i \in DOMAIN includes : IsFile(includes[i])
      /\ parsed \in 0..Len(includes)
  BY FilesAre
<1>1. CASE DOMAIN file \cap jobDefines # {}
  <2>1. main' = "rejected" /\ UNCHANGED parseVars
    BY <1>1 DEF IncludeFile
  <2> QED BY <1>a, <2>1, AcceptedStep DEF ConfigTypeOK
<1>2. CASE DOMAIN file \cap jobDefines = {}
  <2>1. /\ parsed' = parsed + 1 /\ jobs' = Merged(file)
        /\ jobDefines' = jobDefines \cup DOMAIN file /\ main' = main
    BY <1>2 DEF IncludeFile
  <2>2. IsFile(file) /\ parsed + 1 \in DOMAIN includes
    BY <1>a, <1>b
  <2>3. IsFile(Merged(file)) /\ DOMAIN file \subseteq Jobs
    <3>1. PICK n \in SUBSET Jobs : file \in [n -> Definition]
      BY <2>2 DEF IsFile
    <3>2. PICK m \in SUBSET Jobs : jobs \in [m -> Definition]
      BY DEF IsFile, ConfigTypeOK
    <3>3. m \cup n \in SUBSET Jobs /\ Merged(file) \in [m \cup n -> Definition]
      BY <3>1, <3>2 DEF Merged
    <3> QED BY <3>1, <3>3 DEF IsFile
  <2>4. ConfigTypeOK'
    BY <1>a, <1>b, <2>1, <2>3 DEF ConfigTypeOK, configVars
  <2>5. ParsedSoFar'
    <3>1. \A i \in 1..parsed' : i \in 1..parsed \/ i = parsed + 1
      BY <1>b, <2>1
    <3>2. UNCHANGED <<includes, mainFile>> /\ 1..parsed \subseteq 1..parsed'
      BY <1>a, <1>b, <2>1 DEF configVars
    <3>3. /\ DOMAIN jobs' = DOMAIN jobs \cup DOMAIN file
          /\ \A j \in DOMAIN file : jobs'[j] = file[j]
          /\ \A j \in DOMAIN jobs \ DOMAIN file : jobs'[j] = jobs[j]
      BY <2>1 DEF Merged
    <3>4. /\ \A i \in 1..parsed : \A j \in DOMAIN includes[i] :
               /\ j \in jobDefines /\ jobs[j] = includes[i][j]
               /\ \A k \in 1..parsed : j \in DOMAIN includes[k] => k = i
          /\ jobDefines = UNION {DOMAIN includes[i] : i \in 1..parsed}
          /\ DOMAIN jobs = DOMAIN mainFile \cup jobDefines
          /\ \A j \in DOMAIN jobs \ jobDefines : jobs[j] = mainFile[j]
      BY <1>a DEF ParsedSoFar
    <3>5. ASSUME NEW i \in 1..parsed', NEW j \in DOMAIN includes[i]
          PROVE  /\ j \in jobDefines' /\ jobs'[j] = includes[i][j]
                 /\ \A k \in 1..parsed' : j \in DOMAIN includes[k] => k = i
      <4>1. CASE i = parsed + 1
        <5>1. \A k \in 1..parsed : j \notin DOMAIN includes[k]
          BY <1>2, <3>4, <4>1
        <5> QED BY <2>1, <3>1, <3>3, <4>1, <5>1
      <4>2. CASE i \in 1..parsed
        <5>1. j \in jobDefines /\ j \notin DOMAIN file /\ j \in DOMAIN jobs
          BY <1>2, <3>4, <4>2
        <5> QED BY <2>1, <3>1, <3>3, <3>4, <4>2, <5>1
      <4> QED BY <3>1, <4>1, <4>2
    <3>6. jobDefines' = UNION {DOMAIN includes[i] : i \in 1..parsed'}
      BY <1>b, <2>1, <3>1, <3>2, <3>4
    <3>7. /\ DOMAIN jobs' = DOMAIN mainFile \cup jobDefines'
          /\ \A j \in DOMAIN jobs' \ jobDefines' : jobs'[j] = mainFile[j]
      BY <2>1, <3>3, <3>4
    <3> QED BY <3>2, <3>5, <3>6, <3>7 DEF ParsedSoFar
  <2>6. JobsAsWritten'
    BY <1>a, <2>1 DEF JobsAsWritten
  <2> QED BY <2>4, <2>5, <2>6
<1> QED BY <1>1, <1>2

LEMMA SanitizeConfigInv == ConfigInv /\ Sanitize => ConfigInv'
<1> SUFFICES ASSUME ConfigInv, Sanitize PROVE ConfigInv'
  OBVIOUS
<1> USE DEF ConfigInv
<1>a. /\ main = "parse" /\ parsed = Len(includes) /\ UNCHANGED configVars
      /\ UNCHANGED <<parsed, jobDefines, listening>>
  BY DEF Sanitize
<1>1. CASE \E j \in DOMAIN jobs : BothAges(jobs[j])
  <2>1. main' = "rejected" /\ UNCHANGED jobs
    BY <1>1 DEF Sanitize
  <2> QED BY <1>a, <2>1, AcceptedStep DEF ConfigTypeOK, parseVars
<1>2. CASE ~ \E j \in DOMAIN jobs : BothAges(jobs[j])
  <2>1. /\ main' = "entries"
        /\ jobs' = [j \in DOMAIN jobs |-> Sanitized(jobs[j])]
    BY <1>2 DEF Sanitize
  <2>2. PICK n \in SUBSET Jobs : jobs \in [n -> Definition]
    BY DEF IsFile, ConfigTypeOK
  <2>3. jobs' \in [n -> Definition]
    BY <2>1, <2>2, SanitizedJob
  <2>4. ConfigTypeOK'
    BY <1>a, <2>1, <2>2, <2>3 DEF ConfigTypeOK, IsFile, configVars
  <2>5. ParsedSoFar'
    BY <2>1 DEF ParsedSoFar
  <2>6. ASSUME NEW j \in DOMAIN jobs
        PROVE  jobs[j] = Written(j) /\ \A i, k \in IncludedIn(j) : i = k
    <3>1. DOMAIN includes = 1..parsed
      BY <1>a, FilesAre
    <3>2. \A i \in IncludedIn(j) :
            /\ jobs[j] = includes[i][j]
            /\ \A k \in IncludedIn(j) : k = i
      BY <1>a, <3>1 DEF ParsedSoFar, IncludedIn
    <3>3. IncludedIn(j) = {} => jobs[j] = mainFile[j]
      BY <1>a, <3>1 DEF ParsedSoFar, IncludedIn
    <3> QED BY <3>2, <3>3 DEF Written
  <2>7. \A j : IncludedIn(j)' = IncludedIn(j) /\ Written(j)' = Written(j)
    BY <1>a DEF IncludedIn, Written, configVars
  <2>8. JobsAsWritten'
    <3> SUFFICES ASSUME NEW j \in DOMAIN jobs
                 PROVE  /\ \A i, k \in IncludedIn(j) : i = k
                        /\ jobs'[j] = [Written(j) EXCEPT !.maxAge = jobs'[j].maxAge]
                        /\ ~BothAges(Written(j))
                        /\ Fits(AgeOf(Written(j))) =>
                             jobs'[j].maxAge = AgeOf(Written(j))
      BY <2>1, <2>7 DEF JobsAsWritten
    <3>1. jobs[j] \in Definition /\ jobs'[j] = Sanitized(jobs[j])
      BY <2>1, <2>2
    <3>2. /\ Sanitized(jobs[j]) = [jobs[j] EXCEPT !.maxAge = Sanitized(jobs[j]).maxAge]
          /\ Fits(AgeOf(jobs[j])) => Sanitized(jobs[j]).maxAge = AgeOf(jobs[j])
      BY <3>1, SanitizedJob
    <3> QED BY <1>2, <2>6, <3>1, <3>2
  <2> QED BY <2>4, <2>5, <2>8
<1> QED BY <1>1, <1>2

-----------------------------------------------------------------------------
(* The theorems                                                            *)

LEMMA InitIInv == Init => IInv
BY InitConfigInv, InitCronInv DEF IInv

\* AddEntries is the only step of main that hands something to cron, before
\* cron is started.
LEMMA MainIInv == IInv /\ Main => IInv'
<1> SUFFICES ASSUME IInv, Main PROVE IInv'
  OBVIOUS
<1> USE DEF IInv
<1>a. Scheduled \subseteq Jobs /\ listening \in BOOLEAN
      /\ (cron # "off" => main = "cleanup")
      /\ (main \in {"start", "cleanup"} => listening)
  BY DEF ConfigInv, ConfigTypeOK, CronInv, CronTypeOK, CronAfterStart
<1>1. CASE ReadFails
  <2>1. ConfigInv'
    BY <1>a, <1>1, AcceptedStep DEF ReadFails
  <2>2. CronInv'
    BY <1>a, <1>1, ConfigStep DEF ReadFails, Scheduled
  <2> QED BY <2>1, <2>2
<1>2. CASE IncludeFile
  <2>1. ConfigInv'
    BY <1>2, IncludeFileConfigInv
  <2>2. /\ UNCHANGED <<clock, cron, timerVars, entries>>
        /\ main = "parse" /\ main' \in {"parse", "rejected"}
    BY <1>2 DEF IncludeFile
  <2>3. CronInv'
    BY <1>a, <2>2, ConfigStep DEF Scheduled
  <2> QED BY <2>1, <2>3
<1>3. CASE Sanitize
  <2>1. ConfigInv'
    BY <1>3, SanitizeConfigInv
  <2>2. /\ UNCHANGED <<clock, cron, timerVars, entries>>
        /\ main = "parse" /\ main' \in {"entries", "rejected"}
    BY <1>3 DEF Sanitize
  <2>3. CronInv'
    BY <1>a, <2>2, ConfigStep DEF Scheduled
  <2> QED BY <2>1, <2>3
<1>4. CASE AddEntries
  <2>1. /\ UNCHANGED <<clock, cron, timerVars, listening, configVars, parseVars>>
        /\ main = "entries" /\ main' \in {"tested", "listen"}
        /\ DOMAIN entries' \subseteq DOMAIN jobs
    BY <1>4 DEF AddEntries
  <2>2. ConfigInv'
    BY <1>a, <2>1, AcceptedStep
  <2>3. DOMAIN jobs \subseteq Jobs
    BY DEF ConfigInv, ConfigTypeOK, IsFile
  <2>4. Scheduled' \subseteq Jobs
    BY <2>1, <2>3 DEF Scheduled
  <2>5. CronInv'
    BY <1>a, <2>1, <2>4, ConfigStep
  <2> QED BY <2>2, <2>5
<1>5. CASE Listen
  <2>1. /\ UNCHANGED <<clock, cron, timerVars, entries, configVars, parseVars>>
        /\ main = "listen" /\ main' \in {"start", "crashed"}
        /\ listening' \in BOOLEAN /\ (main' = "start" => listening')
    BY <1>a, <1>5 DEF Listen
  <2>2. ConfigInv'
    BY <2>1, AcceptedStep
  <2>3. CronInv'
    BY <1>a, <2>1, ConfigStep DEF Scheduled
  <2> QED BY <2>2, <2>3
<1>6. CASE StartCron
  <2>1. /\ main = "start" /\ main' = "cleanup" /\ cron' = "new"
        /\ UNCHANGED <<configVars, parseVars, listening, entries, clock>>
        /\ UNCHANGED timerVars
    BY <1>6 DEF StartCron
  <2>2. ConfigInv'
    BY <1>a, <2>1, AcceptedStep
  <2>3. cron = "off" /\ listening
    BY <1>a, <2>1 DEF CronInv, CronTypeOK
  <2>4. CronTypeOK' /\ CronAfterStart'
    BY <2>1, <2>3
       DEF CronInv, CronTypeOK, CronAfterStart, Ticking, timerVars, Zero,
           Scheduled
  <2>5. Waits' /\ NoActivationSkipped'
    BY <2>1 DEF Waits, NoActivationSkipped, Ticking
  <2>6. NeverEarly' /\ LaunchedInOrder'
    BY <2>1 DEF CronInv, NeverEarly, LaunchedInOrder, timerVars
  <2> QED BY <2>2, <2>4, <2>5, <2>6 DEF CronInv
<1> QED
  BY <1>1, <1>2, <1>3, <1>4, <1>5, <1>6 DEF Main

LEMMA NextIInv == IInv /\ [Next]_vars => IInv'
<1> SUFFICES ASSUME IInv, [Next]_vars PROVE IInv'
  OBVIOUS
<1> USE DEF IInv
<1>1. CASE Main
  BY <1>1, MainIInv
<1>2. CASE Run \/ Tick
  <2>1. UNCHANGED <<main, configVars, parseVars, listening>>
    BY <1>2 DEF Run, FirstTimes, Arm, Fire, Wake, Tick
  <2>2. ConfigInv'
    BY <2>1, AcceptedStep DEF ConfigInv, ConfigTypeOK
  <2>3. CronInv'
    BY <1>2, FirstTimesCronInv, ArmCronInv, FireCronInv, TickCronInv DEF Run
  <2> QED BY <2>2, <2>3
<1>3. CASE UNCHANGED vars
  <2>1. UNCHANGED <<main, configVars, parseVars, listening, entries, clock,
                    cron, timerVars>>
    BY <1>3 DEF vars
  <2>2. ConfigInv'
    BY <2>1, AcceptedStep DEF ConfigInv, ConfigTypeOK
  <2>3. CronInv'
    BY <2>1, ConfigStep DEF CronInv, CronTypeOK, CronAfterStart, Scheduled
  <2> QED BY <2>2, <2>3
<1> QED
  BY <1>1, <1>2, <1>3 DEF Next

\* The inductive invariant holds in every reachable state.
THEOREM SchedulerInvariant == Spec => []IInv
BY InitIInv, NextIInv, PTL DEF Spec

\* cron runs a job for every activation of its schedule, once the activation
\* is due and in the order of the activations, however late it is itself.
\* (cron.run)
THEOREM EveryActivationRuns ==
    Spec => [](NoActivationSkipped /\ NeverEarly /\ LaunchedInOrder)
<1>1. IInv => NoActivationSkipped /\ NeverEarly /\ LaunchedInOrder
  BY DEF IInv, CronInv
<1> QED BY <1>1, SchedulerInvariant, PTL

\* No job is run before its time, whatever the drift between the clock and
\* the variable now.  (cron.run)
THEOREM NoneTooEarly == Spec => []NeverEarly
BY EveryActivationRuns, PTL

\* A job is run for a time only when nothing waits for an earlier one.
\* (cron.run)
THEOREM InOrderOfTime == Spec => []LaunchedInOrder
BY EveryActivationRuns, PTL

\* An accepted configuration gives every job the definition of the one file
\* that counts.  (ParseConfig, Sanitize)
THEOREM AcceptedAsWritten == Spec => []JobsAsWritten
<1>1. IInv => JobsAsWritten
  BY DEF IInv, ConfigInv
<1> QED BY <1>1, SchedulerInvariant, PTL

\* A job runs only on a server that listens.  (main)
THEOREM ListensFirst == Spec => []ListensBeforeRuns
<1>1. IInv => ListensBeforeRuns
  BY DEF IInv, CronInv, CronTypeOK, CronAfterStart, ListensBeforeRuns, Ticking
<1> QED BY <1>1, SchedulerInvariant, PTL

-----------------------------------------------------------------------------
(* cron keeps a timetable                                                  *)

\* A step that does not start cron leaves its timetable as it was.
LEMMA SameTimetable ==
    ASSUME CronInv, Ticking' <=> Ticking,
           Ticking => UNCHANGED entries
    PROVE  Published' = Published
<1>1. CASE Ticking
  <2>1. Scheduled' = Scheduled /\ \A j : Activations(j)' = Activations(j)
    BY <1>1 DEF Scheduled, Activations, Matches
  <2> QED BY <1>1, <2>1 DEF Published
<1>2. CASE ~Ticking
  BY <1>2 DEF Published
<1> QED BY <1>1, <1>2

\* What cron has still to do for job j are its activations from next[j] on.
LEMMA WaitingFor ==
    ASSUME CronInv, Ticking, NEW j \in Jobs, NEW a \in 0..Horizon
    PROVE  j \in T!Waiting(a) <=>
             j \in Scheduled /\ a \in Activations(j) /\ a >= next[j]
<1>1. /\ a \in Nat /\ started \in Nat /\ next[j] \in Nat
      /\ Zero = Horizon + 1 /\ Horizon \in Nat
  BY SchedulerAssumption DEF CronInv, CronTypeOK, Zero
<1>2. CASE j \in Scheduled
  <2>1. /\ launched[j] = {b \in Activations(j) : started < b /\ b < next[j]}
        /\ next[j] = Zero \/ next[j] > started
    BY <1>1, <1>2 DEF CronInv, NoActivationSkipped, Waits
  <2>2. Published[j] = Activations(j)
    BY <1>2 DEF Published
  <2>3. j \in T!Waiting(a) <=>
          a \in Activations(j) /\ a > started /\ a \notin launched[j]
    BY <2>2 DEF T!Waiting
  <2> QED BY <1>1, <1>2, <2>1, <2>3
<1>3. CASE j \notin Scheduled
  BY <1>3 DEF T!Waiting, Published
<1> QED BY <1>2, <1>3

\* The timer that fires is for the earliest time that is waited for, and the
\* entries that are due are all that wait for it.
LEMMA FireLaunches == CronInv /\ Fire => [T!Launch]_(T!vars)
<1> SUFFICES ASSUME CronInv, Fire PROVE [T!Launch]_(T!vars)
  OBVIOUS
<1>a. /\ cron = "asleep" /\ cron' = "arm" /\ clock >= deadline
      /\ effective # Zero
      /\ launched' = [j \in Jobs |-> launched[j] \cup
                                     IF j \in Due THEN {effective} ELSE {}]
      /\ UNCHANGED <<entries, clock, started>>
  BY DEF Fire, Wake, Launch
<1>b. /\ Zero \in Nat /\ Horizon \in Nat /\ Zero = Horizon + 1
      /\ clock \in Nat /\ effective \in 0..Zero /\ deadline \in Nat
      /\ Scheduled \subseteq Jobs /\ \A j \in Jobs : next[j] \in 0..Zero
  BY SchedulerAssumption DEF CronInv, CronTypeOK, Zero
<1>c. Ticking /\ Ticking'
  BY <1>a DEF Ticking
<1>d. /\ effective <= deadline /\ \A j \in Jobs : effective <= next[j]
      /\ \A j \in Scheduled : next[j] \in Activations(j) \cup {Zero}
      /\ \A j \in Jobs \ Scheduled : next[j] = Zero
  BY <1>a, <1>c DEF CronInv, Waits
<1>1. Published' = Published
  BY <1>a, <1>c, SameTimetable
<1>2. effective \in 0..Horizon
  BY <1>a, <1>b
<1>3. T!Waiting(effective) = Due
  <2>1. ASSUME NEW j \in Jobs PROVE j \in T!Waiting(effective) <=> j \in Due
    <3>1. j \in T!Waiting(effective) <=>
            j \in Scheduled /\ effective \in Activations(j) /\ effective >= next[j]
      BY <1>2, <1>c, WaitingFor
    <3> QED BY <1>a, <1>b, <1>d, <3>1 DEF Due
  <2>2. T!Waiting(effective) \subseteq Jobs /\ Due \subseteq Jobs
    BY <1>b DEF T!Waiting, Due
  <2> QED BY <2>1, <2>2
<1>4. ASSUME NEW b \in T!Pending PROVE effective <= b
  <2>1. b \in 0..Horizon /\ T!Waiting(b) # {}
    BY DEF T!Pending
  <2>2. PICK j \in Jobs : j \in T!Waiting(b)
    BY <2>1 DEF T!Waiting
  <2>3. b >= next[j]
    BY <1>c, <2>1, <2>2, WaitingFor
  <2> QED BY <1>b, <1>d, <2>1, <2>3
<1>5. CASE Due = {}
  <2>1. launched' = launched
    BY <1>a, <1>5 DEF CronInv, CronTypeOK
  <2> QED BY <1>a, <1>c, <1>1, <2>1 DEF T!vars
<1>6. CASE Due # {}
  <2>1. effective \in T!Pending
    BY <1>2, <1>3, <1>6 DEF T!Pending
  <2>2. effective <= clock
    BY <1>a, <1>b, <1>d
  <2> QED BY <1>a, <1>c, <1>1, <1>3, <1>4, <2>1, <2>2 DEF T!Launch
<1> QED BY <1>5, <1>6

LEMMA InitTimetable == Init => T!Init
<1> SUFFICES ASSUME Init PROVE T!Init
  OBVIOUS
<1>1. Ticking = FALSE
  BY DEF Init, Ticking
<1>2. Published = [j \in Jobs |-> {}]
  BY <1>1 DEF Published
<1> QED BY <1>1, <1>2 DEF Init, T!Init

LEMMA NextTimetable == IInv /\ [Next]_vars => [T!Next]_(T!vars)
<1> SUFFICES ASSUME IInv, [Next]_vars PROVE [T!Next]_(T!vars)
  OBVIOUS
<1> USE DEF IInv, timerVars
<1>1. CASE Main
  <2>1. /\ UNCHANGED <<clock, started, launched>>
        /\ cron' = cron \/ (cron = "off" /\ cron' = "new")
        /\ Ticking => UNCHANGED entries
    <3>1. Ticking => main = "cleanup"
      BY DEF CronInv, CronAfterStart, Ticking
    <3>2. main = "start" => cron = "off"
      BY DEF CronInv, CronAfterStart, CronTypeOK
    <3> QED BY <1>1, <3>1, <3>2
            DEF Main, ReadFails, IncludeFile, Sanitize, AddEntries, Listen,
                StartCron
  <2>2. Ticking' = Ticking
    BY <2>1 DEF Ticking
  <2> QED BY <2>1, <2>2, SameTimetable DEF T!vars
<1>2. CASE FirstTimes
  <2>1. /\ Ticking = FALSE /\ Ticking' = TRUE /\ started' = clock
        /\ UNCHANGED <<clock, launched>>
    BY <1>2 DEF FirstTimes, Ticking
  <2>2. Published' \in [Jobs -> SUBSET (0..Horizon)]
    BY DEF Published, Activations
  <2> QED BY <2>1, <2>2 DEF T!Next, T!Start
<1>3. CASE Arm
  <2>1. /\ Ticking = TRUE /\ Ticking' = TRUE
        /\ UNCHANGED <<clock, started, launched, entries>>
    BY <1>3 DEF Arm, Ticking
  <2> QED BY <2>1, SameTimetable DEF T!vars
<1>4. CASE Fire
  BY <1>4, FireLaunches DEF T!Next
<1>5. CASE Tick
  <2>1. /\ Ticking' = Ticking /\ clock' = clock + 1
        /\ UNCHANGED <<started, launched, entries>>
    BY <1>5 DEF Tick, Ticking
  <2> QED BY <2>1, SameTimetable DEF T!Next, T!Tick
<1>6. CASE UNCHANGED vars
  <2>1. Ticking' = Ticking /\ UNCHANGED <<clock, started, launched, entries>>
    BY <1>6 DEF vars, Ticking
  <2> QED BY <2>1, SameTimetable DEF T!vars
<1> QED
  BY <1>1, <1>2, <1>3, <1>4, <1>5, <1>6 DEF Next, Run

\* The loop of cron does what a timetable promises.  (cron.run)
THEOREM CronKeepsTimetable == Spec => ImplementsTimetable
<1>1. Spec => T!Init /\ [][T!Next]_(T!vars)
  BY InitTimetable, NextTimetable, SchedulerInvariant, PTL DEF Spec
<1> QED BY <1>1 DEF ImplementsTimetable, T!Spec

=============================================================================
