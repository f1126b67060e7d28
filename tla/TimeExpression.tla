---------------------------- MODULE TimeExpression ----------------------------
(***************************************************************************)
(* packages/core/src/time/resolveExpression.ts: the window of instants that *)
(* a caller's words for a time stand for, and how it moves as time passes. *)
(*                                                                         *)
(* A phrase is what the patterns of parseDateAnchor and parseClock can find *)
(* in a sentence: words for a date, words for a time of day, or both.  The *)
(* patterns themselves are not modelled; a sentence that holds two dates   *)
(* is the phrase of the pattern tried first.                               *)
(*                                                                         *)
(* Instants are minutes of the salon's wall clock from the midnight that   *)
(* begins 1 January of some year; every year has the months of MonthLength. *)
(***************************************************************************)
EXTENDS Integers, FiniteSets

CONSTANTS
  MonthLength,   \* month -> its number of days
  FirstWeekday,  \* the weekday of day 0; 0 is Sunday
  Phrases,       \* the phrases callers use
  Nows           \* the instants at which one may be resolved

Months == DOMAIN MonthLength

ASSUME CalendarFacts ==
  /\ Months = 1..12 /\ \A m \in Months : MonthLength[m] \in 28..31
  /\ FirstWeekday \in 0..6
  /\ Nows \subseteq Nat

\* The words for a date, and those for a time of day.
Date ==
  [kind : {"none", "today", "tomorrow", "day_after_tomorrow", "fortnight", "weekend",
           "next_week", "this_week", "next_month"}] \cup
  [kind : {"week_from"}, weekday : 0..6] \cup
  [kind : {"in_days", "in_weeks", "in_months"}, n : Nat] \cup
  [kind : {"month_day"}, month : Months, n : 1..31] \cup
  [kind : {"nth"}, n : 1..31] \cup
  [kind : {"weekday"}, weekday : 0..6, next : BOOLEAN]

Parts     == {"morning", "early", "lunchtime", "noon", "afternoon", "evening", "late"}
Relations == {"at", "after", "before", "around"}
\* An hour past twelve is said on its own; so is the one that it is a quarter to.
Clock(hours, meridiems, quarters) ==
  [kind : {"clock"}, hour : hours, minute : 0..59, meridiem : meridiems,
   relation : Relations, quarterTo : quarters]
Time ==
  [kind : {"none"}] \cup [kind : {"part"}, part : Parts] \cup
  Clock(0..12, {"am", "pm"}, {FALSE}) \cup Clock(0..23, {"none"}, BOOLEAN)

ASSUME PhrasesAssumption == Phrases \subseteq [date : Date, time : Time]

VARIABLES
  phrase,  \* what the caller says, again and again
  now,     \* options.now
  answer   \* the window it resolved to

vars == <<phrase, now, answer>>

-----------------------------------------------------------------------------
(* The calendar (luxon's DateTime, whole days) *)

DayMinutes == 24 * 60
At(h, m)   == h * 60 + m
DayOf(t)   == t \div DayMinutes

Weekday(d) == (d + FirstWeekday) % 7
\* startOf('week'): the Monday of the week of day d.
Monday(d)  == d - ((Weekday(d) + 6) % 7)

\* Days of a year before its month m begins.
DaysBefore[m \in 1..13] == IF m = 1 THEN 0 ELSE DaysBefore[m - 1] + MonthLength[m - 1]
YearLength == DaysBefore[13]

YearOf(d)     == d \div YearLength
MonthOf(d)    == CHOOSE m \in Months : d % YearLength \in DaysBefore[m]..(DaysBefore[m + 1] - 1)
DayInMonth(d) == (d % YearLength) - DaysBefore[MonthOf(d)] + 1

\* Day n of month m of year y; set({ day }) lets a day the month lacks run over
\* into the next.
DateAt(y, m, n) == y * YearLength + DaysBefore[m] + n - 1
MonthsOn(d, n)  == [year |-> YearOf(d) + (MonthOf(d) - 1 + n) \div 12,
                    month |-> ((MonthOf(d) - 1 + n) % 12) + 1]

\* plus({ months }): the same day, or the month's last.
PlusMonths(d, n) ==
  LET to   == MonthsOn(d, n)
      last == MonthLength[to.month]
  IN  DateAt(to.year, to.month, IF DayInMonth(d) < last THEN DayInMonth(d) ELSE last)

-----------------------------------------------------------------------------
(* Dates *)

\* nextWeekday: the first day after today (or from today) on weekday w.
NextWeekday(today, w, includeToday) ==
  CHOOSE d \in (IF includeToday THEN today ELSE today + 1)..(today + 7) :
    /\ Weekday(d) = w
    /\ \A e \in (IF includeToday THEN today ELSE today + 1)..(d - 1) : Weekday(e) # w

\* Mutant of NamedWeekday: "next" always adds a week.
NamedWeekdayPlusWeek(today, w, next) ==
  NextWeekday(today, w, FALSE) + (IF next THEN 7 ELSE 0)

\* "friday", "this friday", and "next friday" of the following calendar week.
NamedWeekday(today, w, next) ==
  LET d == NextWeekday(today, w, FALSE)
  IN  IF next /\ d < Monday(today + 7) THEN d + 7 ELSE d

\* resolveMonthDay: this year's date, or next year's once it has passed.
MonthDay(today, m, n) ==
  LET d == DateAt(YearOf(today), m, n)
  IN  IF d < today THEN DateAt(YearOf(today) + 1, m, n) ELSE d

\* "the 3rd": this month's, or next month's once it has passed.
TheNth(today, n) ==
  LET d    == DateAt(YearOf(today), MonthOf(today), n)
      next == MonthsOn(PlusMonths(today, 1), 0)
  IN  IF d < today THEN DateAt(next.year, next.month, n) ELSE d

Span(a, b) == [first |-> a, last |-> b, spans |-> TRUE]
Day(d)     == [first |-> d, last |-> d, spans |-> FALSE]

\* parseDateAnchor: the days that words for a date stand for.
Dated(date, today) ==
  CASE date.kind = "today"              -> Day(today)
    [] date.kind = "tomorrow"           -> Day(today + 1)
    [] date.kind = "day_after_tomorrow" -> Day(today + 2)
    [] date.kind = "week_from"          -> Day(NextWeekday(today, date.weekday, FALSE) + 7)
    [] date.kind = "in_days"            -> Day(today + date.n)
    [] date.kind = "in_weeks"           -> Span(today + 7 * date.n, today + 7 * date.n + 2)
    [] date.kind = "in_months"          -> LET d == PlusMonths(today, date.n) IN Span(d, d + 6)
    [] date.kind = "fortnight"          -> Span(today + 14, today + 16)
    [] date.kind = "weekend"            -> LET d == NextWeekday(today, 6, TRUE) IN Span(d, d + 1)
    [] date.kind = "next_week"          -> Span(Monday(today + 7), Monday(today + 7) + 6)
    [] date.kind = "this_week"          -> Span(today, Monday(today) + 6)
    [] date.kind = "next_month"         ->
         LET to == MonthsOn(PlusMonths(today, 1), 0)
         IN  Span(DateAt(to.year, to.month, 1), DateAt(to.year, to.month, MonthLength[to.month]))
    [] date.kind = "month_day"          -> Day(MonthDay(today, date.month, date.n))
    [] date.kind = "nth"                -> Day(TheNth(today, date.n))
    [] date.kind = "weekday"            -> Day(NamedWeekday(today, date.weekday, date.next))

-----------------------------------------------------------------------------
(* Times of day *)

\* DAY_PARTS.
DayParts == [morning   |-> <<At(6, 0), At(12, 0)>>,   early     |-> <<At(6, 0), At(10, 0)>>,
             lunchtime |-> <<At(11, 30), At(14, 0)>>, noon      |-> <<At(11, 30), At(13, 0)>>,
             afternoon |-> <<At(12, 0), At(17, 0)>>,  evening   |-> <<At(17, 0), At(22, 0)>>,
             late      |-> <<At(16, 0), At(22, 0)>>]

\* Mutant of To24Hour: a bare hour is one before noon.
To24HourBare(hour, meridiem) ==
  IF meridiem = "pm" THEN (hour % 12) + 12 ELSE hour % 12

\* to24Hour: a bare hour from one to six is in the afternoon.
To24Hour(hour, meridiem) ==
  CASE meridiem = "am" -> hour % 12
    [] meridiem = "pm" -> (hour % 12) + 12
    [] OTHER           -> IF hour \in 1..6 THEN hour + 12 ELSE hour

\* parseClock: the minute of the day; "quarter to" counts back from the hour.
ClockTime(time) ==
  LET h == To24Hour(time.hour, time.meridiem)
  IN  IF time.quarterTo THEN At((h + 23) % 24, 45) ELSE At(h, time.minute)

\* parseTimeAnchor.  Around and at are added up on the clock face: near midnight
\* the end comes before the start.
TimeAnchor(time) ==
  IF time.kind = "part" THEN DayParts[time.part]
  ELSE LET at == ClockTime(time) IN
       CASE time.relation = "after"  -> <<at, At(23, 59)>>
         [] time.relation = "before" -> <<0, at>>
         [] time.relation = "around" -> <<(at - 60) % DayMinutes, (at + 60) % DayMinutes>>
         [] time.relation = "at"     -> <<at, (at + 90) % DayMinutes>>

Precise(time) == time.kind = "clock" /\ time.relation = "at"

FullDay == <<0, At(23, 59)>>

-----------------------------------------------------------------------------
(* The resolver *)

Nothing == [from |-> 0, to |-> 0, broad |-> FALSE]

\* A time with no date: today, or tomorrow once its window of today is over.
SoonestDay(window, t) == Day(IF DayOf(t) * DayMinutes + window[2] <= t THEN DayOf(t) + 1 ELSE DayOf(t))

\* Mutant of Resolve: what is over of a window that has begun is not cut off.
ResolveUncut(p, t) ==
  LET timed  == p.time.kind # "none"
      window == IF timed THEN TimeAnchor(p.time) ELSE FullDay
      days   == IF p.date.kind = "none" THEN SoonestDay(window, t) ELSE Dated(p.date, DayOf(t))
      from   == days.first * DayMinutes + window[1]
      to     == days.last * DayMinutes + window[2]
  IN  IF (p.date.kind = "none" /\ ~timed) \/ to <= from THEN Nothing
      ELSE [from |-> from, to |-> to, broad |-> days.spans \/ ~timed \/ ~Precise(p.time)]

\* resolveTimeExpression: the window that phrase p stands for at instant t, or
\* Nothing if it holds no date and no time, or is over.
Resolve(p, t) ==
  LET timed  == p.time.kind # "none"
      window == IF timed THEN TimeAnchor(p.time) ELSE FullDay
      days   == IF p.date.kind = "none" THEN SoonestDay(window, t) ELSE Dated(p.date, DayOf(t))
      begins == days.first * DayMinutes + window[1]
      from   == IF begins < t THEN t ELSE begins
      to     == days.last * DayMinutes + window[2]
  IN  IF (p.date.kind = "none" /\ ~timed) \/ to <= from THEN Nothing
      ELSE [from |-> from, to |-> to, broad |-> days.spans \/ ~timed \/ ~Precise(p.time)]

-----------------------------------------------------------------------------
(* The specification: the phrase is resolved at one instant after another. *)

Init == phrase \in Phrases /\ now \in Nows /\ answer = Resolve(phrase, now)

\* GET /v1/resolve-time, or an availability query, with the clock further on.
AskLater == \E t \in Nows : /\ t > now
                          /\ now' = t /\ answer' = Resolve(phrase, t)
                          /\ UNCHANGED phrase

Next == AskLater

Spec == Init /\ [][Next]_vars

-----------------------------------------------------------------------------
(* Properties *)

Found == answer # Nothing
Today == DayOf(now)
First == DayOf(answer.from)
Last  == DayOf(answer.to)

\* d is the soonest day from a on that P holds of.
Soonest(d, a, P(_)) == d >= a /\ P(d) /\ \A e \in a..(d - 1) : ~P(e)

\* Callers name days of the calendar; of others "30 February" is taken as 2 March.
DatesExist ==
  \A p \in Phrases : p.date.kind = "month_day" => p.date.n <= MonthLength[p.date.month]

\* The days of the window are those the words mean, said in terms of the
\* calendar and not of how they are computed: a weekday is the coming one, the
\* next one is in the next week from Monday, a date is the soonest on or after
\* today, a week or a month is all of it, and a month from now is in the next
\* month, on the same day if that has one.  (Of "the 29th" to "the 31st" nothing is
\* said: a month that lacks the day sends the code on into the next.)
NamedDayIsMeant ==
  LET date == phrase.date
      IsWeekday(d)  == Weekday(d) = date.weekday
      IsNth(d)      == DayInMonth(d) = date.n
      IsDate(d)     == MonthOf(d) = date.month /\ DayInMonth(d) = date.n
      IsSaturday(d) == Weekday(d) = 6
      InNextMonth(d) == MonthOf(d) = (MonthOf(Today) % 12) + 1
  IN
  Found =>
    /\ date.kind = "weekday" /\ ~date.next => Soonest(First, Today + 1, IsWeekday)
    /\ date.kind = "weekday" /\ date.next => IsWeekday(First) /\ Monday(First) = Monday(Today) + 7
    /\ date.kind = "week_from" => Soonest(First - 7, Today + 1, IsWeekday)
    /\ date.kind = "nth" /\ date.n <= 28 => Soonest(First, Today, IsNth)
    /\ date.kind = "month_day" => Soonest(First, Today, IsDate)
    /\ date.kind = "weekend" => Soonest(First, Today, IsSaturday) /\ Last = First + 1
    /\ date.kind = "next_week" => First = Monday(Today) + 7 /\ Weekday(Last) = 0 /\ Last = First + 6
    /\ date.kind = "this_week" => First = Today /\ Weekday(Last) = 0 /\ Last < Today + 7
    /\ date.kind = "next_month" =>
         Soonest(First, Today, InNextMonth) /\ InNextMonth(Last) /\ ~InNextMonth(Last + 1)
    /\ date.kind = "in_months" /\ date.n = 1 =>
         /\ InNextMonth(First)
         /\ DayInMonth(First) = DayInMonth(Today) \/ ~InNextMonth(First + 1)

\* Words for several days.
Spanning == {"in_weeks", "in_months", "fortnight", "weekend", "next_week", "this_week", "next_month"}

\* The hours said of several days lie within a day: of "this week at 11pm" the end
\* comes before the start, and the window ends half an hour into its last day.
HoursWithinTheDay ==
  \A p \in Phrases :
    p.date.kind \in Spanning /\ p.time.kind = "clock" =>
      /\ p.time.relation = "at" => ClockTime(p.time) + 90 < DayMinutes
      /\ p.time.relation = "around" =>
           60 <= ClockTime(p.time) /\ ClockTime(p.time) + 60 < DayMinutes

\* The hours are the ones said, of each day of the window: the hand of the clock
\* is where it was said to be, after noon if pm was said or, of a bare hour, at
\* twelve and from one to six, and nothing is offered on the other side of it.
TimeOfDayIsMeant ==
  LET time   == phrase.time
      starts == answer.from % DayMinutes
      ends   == answer.to % DayMinutes
      pm     == time.meridiem = "pm" \/ (time.meridiem = "none" /\ time.hour \in (1..6) \cup {12})
      said   == At((IF time.hour = 12 THEN 0 ELSE time.hour) + (IF pm THEN 12 ELSE 0), time.minute)
  IN
  Found /\ time.kind = "clock" /\ ~time.quarterTo =>
    /\ time.relation = "before" => ends = said
    /\ time.relation = "after"  => starts >= said
    /\ time.relation = "at"     => starts >= said /\ ends = said + 90
    /\ time.relation = "around" => starts >= said - 60 /\ ends = said + 60

\* Time is never offered twice: a caller who says the same words later is not
\* taken back to a window that begins or ends earlier, and no window has begun
\* before the words were said.
NeverTakenBack ==
  [][Found /\ answer' # Nothing =>
       answer.from <= answer'.from /\ answer.to <= answer'.to /\ now' <= answer'.from]_vars
=============================================================================
