--------------------------- MODULE Configuration ---------------------------
(***************************************************************************)
(* The configuration of bakapy-scheduler: ParseConfig reads the main file  *)
(* and then, one by one, the files that include_jobs matches; Sanitize     *)
(* fills in MaxAge; SchedulerString turns run_at into the line that        *)
(* cron.Parse reads.                                                       *)
(*                                                                         *)
(* A file is a function from the names of the jobs it defines to their     *)
(* definitions.  A field of run_at is Blank (left out, or empty), Garbage  *)
(* (no number), or a word: the numbers it lists, and a star with a step    *)
(* (the plain * has the step 1) if there is one.                           *)
(***************************************************************************)
EXTENDS Integers, Sequences

CONSTANTS
    Jobs,           \* job names
    Blank, Garbage,
    Bounds,         \* the range cron allows in each field
    Day,            \* time.Hour * 24
    Limit           \* 2^63: one more than the longest time.Duration

\* second, minute, hour, day, month, weekday
Fields == 1..6

ASSUME ConfigurationAssumption ==
    /\ Blank # Garbage
    /\ Bounds \in [Fields -> [min : Nat, max : Nat]]
    /\ Day \in Nat /\ Limit \in Nat \ {0}

Word == [star : BOOLEAN, step : Nat \ {0}, listed : SUBSET Nat]

Every(step) == [star |-> TRUE, step |-> step, listed |-> {}]

Star == Every(1)

Only(numbers) == [star |-> FALSE, step |-> 1, listed |-> numbers]

Token == {Blank, Garbage} \cup Word

Definition ==
    [disabled : BOOLEAN, maxAgeDays : Int, maxAge : Int,
     runAt : [Fields -> Token]]

\* An int64 keeps the lowest 64 bits of a product.
Wrapped(n) == ((n + Limit) % (2 * Limit)) - Limit

-----------------------------------------------------------------------------
(* SchedulerString and cron.Parse                                          *)

\* The words of the line: a second that is left out is 0, any other field
\* that is left out leaves no word behind.
SchedulerString(runAt) ==
    SelectSeq([runAt EXCEPT ![1] = IF @ = Blank THEN Only({0}) ELSE @],
              LAMBDA field : field # Blank)

\* cron takes five words for a line without the weekday.
CronFields(words) == IF Len(words) = 5 THEN Append(words, Star) ELSE words

\* Is n one of the numbers that a word stands for as the field i?
Covers(word, i, n) ==
    \/ word.star /\ (n - Bounds[i].min) % word.step = 0
    \/ n \in word.listed

Parses(words) ==
    /\ Len(words) \in {5, 6}
    /\ \A i \in Fields :
         LET field == CronFields(words)[i]
         IN  /\ field # Garbage
             /\ field.listed \subseteq Bounds[i].min .. Bounds[i].max

-----------------------------------------------------------------------------
(* Sanitize                                                                *)

BothAges(job) == job.maxAgeDays # 0 /\ job.maxAge # 0

Sanitized(job) ==
    [job EXCEPT !.maxAge =
        IF job.maxAgeDays # 0 THEN Wrapped(job.maxAgeDays * Day) ELSE @]

\* The age a job asks for.
AgeOf(job) == IF job.maxAgeDays # 0 THEN job.maxAgeDays * Day ELSE job.maxAge

Fits(n) == -Limit <= n /\ n < Limit

=============================================================================
