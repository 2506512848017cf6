---------------------------- MODULE MCScheduler ----------------------------
(* Two jobs and a toy calendar: minutes of two seconds, days of two minutes *)
(* (the hour is always 0).  The jobs are run every other second, every      *)
(* minute, on some days (odd ones that are Sundays, or either of two), or   *)
(* not at all: disabled, with a bad run_at, with two ages.                  *)
EXTENDS Scheduler, TLC

CONSTANTS a, b

MCBounds == [i \in Fields |-> [min |-> IF i \in {4, 5} THEN 1 ELSE 0, max |-> 3]]

MCCalendar ==
    [t \in 0..Horizon |->
        <<t % 2, (t \div 2) % 2, 0, 1 + t \div 4, 1, t \div 4>>]

RunAt(second, minute, hour) == <<second, minute, hour, Star, Star, Star>>

Job(runAt, days, age) ==
    [disabled |-> FALSE, maxAgeDays |-> days, maxAge |-> age, runAt |-> runAt]

EverySecond == Job(RunAt(Star, Star, Star), 1, 0)
EvenSeconds == Job(RunAt(Blank, Star, Star), 0, 5)
EveryDay == Job(RunAt(Only({1}), Only({0, 1}), Only({0})), 2, 0)
EitherDay == Job(<<Only({0}), Only({1}), Star, Only({2}), Star, Only({0})>>, 3, 0)
OddSundays == Job(<<Only({1}), Star, Star, Every(2), Star, Only({0})>>, 2, 0)
Never == Job(RunAt(Only({0}), Only({0}), Only({2})), 0, 0)
NoMinute == Job(RunAt(Only({0}), Blank, Only({0})), 0, 0)
NoTime == Job(RunAt(Only({0}), Blank, Blank), 0, 0)
BadRunAt == Job(RunAt(Only({0}), Garbage, Only({0})), 0, 0)
Disabled == [EverySecond EXCEPT !.disabled = TRUE]
TwoAges == Job(RunAt(Only({0}), Star, Star), 1, 1)

MCMainFiles ==
    {a :> EverySecond @@ b :> EitherDay, a :> EvenSeconds @@ b :> EveryDay,
     a :> Never @@ b :> NoMinute, a :> Disabled, b :> NoTime}

MCIncludes ==
    {<<>>, <<a :> OddSundays>>, <<b :> Disabled, a :> EvenSeconds>>,
     <<b :> EveryDay, b :> EverySecond>>, <<a :> BadRunAt>>, <<a :> TwoAges>>}

=============================================================================
