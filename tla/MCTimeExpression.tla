--------------------------- MODULE MCTimeExpression ---------------------------
(***************************************************************************)
(* Phrases of every kind, at four times of the days on which months of 28, *)
(* 30 and 31 days, weeks and years begin and end.                          *)
(***************************************************************************)
EXTENDS TimeExpression

MCMonthLength == <<31, 28, 31, 30, 31, 30, 31, 31, 30, 31, 30, 31>>

\* The end of January and the weeks around it, of February, of September and
\* of the year.
MCNows == {d * DayMinutes + m : d \in (20..34) \cup (57..61) \cup (269..274) \cup (363..366),
                                m \in {10, At(10, 0), At(15, 20), At(23, 59)}}

Simple == {"today", "tomorrow", "day_after_tomorrow", "fortnight", "weekend", "next_week",
           "this_week", "next_month"}
Dates ==
  [kind : Simple] \cup
  [kind : {"week_from"}, weekday : {1, 5}] \cup
  [kind : {"in_days"}, n : {3}] \cup [kind : {"in_weeks"}, n : {1}] \cup
  [kind : {"in_months"}, n : {1}] \cup
  [kind : {"month_day"}, month : {2, 10}, n : {1, 28}] \cup
  [kind : {"nth"}, n : {1, 3, 28, 30, 31}] \cup
  [kind : {"weekday"}, weekday : {0, 1, 5}, next : BOOLEAN]

NoDate == [kind |-> "none"]
NoTime == [kind |-> "none"]
Said(hour, minute, meridiem, relations) ==
  [kind : {"clock"}, hour : {hour}, minute : {minute}, meridiem : {meridiem},
   relation : relations, quarterTo : {FALSE}]
Times ==
  Said(3, 0, "none", Relations) \cup Said(10, 30, "none", Relations) \cup
  Said(11, 0, "pm", {"at", "around"}) \cup Said(9, 0, "am", {"at"}) \cup
  Said(12, 0, "pm", {"at"}) \cup
  {[kind |-> "clock", hour |-> 7, minute |-> 0, meridiem |-> "none", relation |-> "at",
    quarterTo |-> TRUE]} \cup
  [kind : {"part"}, part : Parts]

\* Those that end on the day they begin on.
EarlyTimes == {t \in Times : t.kind = "clock" => t.hour # 11}

MCPhrases ==
  [date : Dates, time : {NoTime}] \cup [date : {NoDate}, time : Times \cup {NoTime}] \cup
  [date : {[kind |-> "today"], [kind |-> "weekday", weekday |-> 5, next |-> FALSE]},
   time : Times] \cup
  [date : [kind : {"this_week", "next_month"}], time : EarlyTimes]

\* The phrases are such as the theorems of TimeExpressionProofs are about.
ASSUME MCPhrasesAssumption == DatesExist /\ HoursWithinTheDay
=============================================================================
