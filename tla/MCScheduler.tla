---------------------------- MODULE MCScheduler -----------------------------
(* Three credentials, one of which the cache may not hold; resets that fall *)
(* on and between whole seconds (Second = 2 ticks) and one that lies beyond *)
(* MaxDuration.                                                             *)
EXTENDS Scheduler

Window(percent, reset) == [valid |-> TRUE, percent |-> percent, resetAt |-> reset]
Missing == [valid |-> FALSE, percent |-> 0, resetAt |-> NoTime]

FiveHourChoices == {Missing, Window(0, 4), Window(1, NoTime), Window(1, 4), Window(1, 7)}
WeeklyChoices == {Missing, Window(1, 6)}
FarWeekly == Window(2, 40)
FableChoices == {Missing, Window(1, 5)}

Batch(five, week, fable) ==
    [s \in Slots |-> CASE s = "five_hour" -> five
                       [] s = "weekly" -> week
                       [] s = "fable_weekly" -> fable
                       [] OTHER -> Missing]

RichBatches == {Batch(f, w, m) : f \in FiveHourChoices, w \in WeeklyChoices, m \in FableChoices}
PlainBatches == {Batch(f, Missing, Missing) : f \in FiveHourChoices}

MCFleets ==
    {[id \in {} |-> Missing]}
    \cup [{1} -> RichBatches \cup {Batch(Window(0, 4), FarWeekly, Missing)}]
    \cup {[id \in {1, 2} |-> IF id = 1 THEN a ELSE b] : a \in RichBatches, b \in PlainBatches}

Cand(id, priority, weight, claude) ==
    [id |-> id, priority |-> priority, weight |-> weight, claude |-> claude]

MCCandidateLists ==
    {<<>>,
     <<Cand(1, 0, NoWeight, TRUE)>>,
     <<Cand(1, 0, NoWeight, TRUE), Cand(2, 0, 1, TRUE)>>,
     <<Cand(2, 0, 1, TRUE), Cand(1, 0, NoWeight, TRUE)>>,
     <<Cand(1, 0, 0, TRUE), Cand(2, 0, NoWeight, TRUE)>>,
     <<Cand(1, 0, 3, TRUE), Cand(2, 1, 0, TRUE)>>,
     <<Cand(3, 5, 5, FALSE), Cand(2, 0, 0, TRUE), Cand(1, 0, 0, TRUE)>>,
     <<Cand(3, 0, 0, TRUE), Cand(1, 0, 2, TRUE)>>,
     <<Cand(3, 1, 1, FALSE)>>}
=============================================================================
