---------------------------- MODULE BookingPolicy ----------------------------
(***************************************************************************)
(* The pure rules of packages/core/src/policy.ts: which windows a salon    *)
(* and a stylist are open in, which range a booking blocks, why a booking  *)
(* is refused, and when a late change costs a fee.  Every write path of    *)
(* the API evaluates these operators; none of them has state.              *)
(*                                                                         *)
(* Time is counted in whole hours from an arbitrary midnight.  A day is    *)
(* DayLength hours and the salon's wall clock is the instant itself, so    *)
(* time-zone arithmetic is not modelled here.                              *)
(***************************************************************************)
EXTENDS Integers, FiniteSets

CONSTANTS
  Services,     \* ids of the catalogue's services
  Staff,        \* ids of the salon's stylists
  ServiceDef,   \* service -> [duration, before, after, active]
  StaffDef,     \* stylist -> [active, skills, shifts]; empty skills = every
                \* service, shifts a partial function from weekday to Window
  WeeklyHours,  \* weekday -> set of Windows ({} = closed that weekday)
  Overrides,    \* closed_dates: a partial function from day to set of Windows
  Policy,       \* [minLead, maxAdvance, noticeWindow, lateFee, maxActive,
                \*  allowDoubleBooking]
  DayLength,    \* hours in a day
  WeekLength    \* days in a week

\* A range of instants, or of hours within one day.
Window == [start : Int, end : Int]

ASSUME CalendarAssumption ==
  /\ DayLength \in Nat \ {0}
  /\ WeekLength \in Nat \ {0}
  /\ WeeklyHours \in [0..(WeekLength - 1) -> SUBSET Window]
  /\ DOMAIN Overrides \subseteq Int
  /\ \A d \in DOMAIN Overrides : Overrides[d] \subseteq Window

ASSUME CatalogueAssumption ==
  /\ ServiceDef \in [Services -> [duration : Nat \ {0}, before : Nat,
                                  after : Nat, active : BOOLEAN]]
  /\ \A s \in Staff :
       /\ StaffDef[s].active \in BOOLEAN
       /\ StaffDef[s].skills \subseteq Services
       /\ DOMAIN StaffDef[s].shifts \subseteq 0..(WeekLength - 1)
       /\ \A w \in DOMAIN StaffDef[s].shifts : StaffDef[s].shifts[w] \in Window
  /\ Policy \in [minLead : Nat, maxAdvance : Nat, noticeWindow : Nat,
                 lateFee : Nat, maxActive : Nat \ {0},
                 allowDoubleBooking : BOOLEAN]

-----------------------------------------------------------------------------
(* Calendar *)

DayOf(t)   == t \div DayLength
Weekday(d) == d % WeekLength

\* localToInstant: an hour-of-day window of day d as a range of instants.
OnDay(d, w) == [start |-> d * DayLength + w.start, end |-> d * DayLength + w.end]

\* openIntervalsForDate: a closed-date row replaces the weekly rule entirely.
OpenIntervals(d) ==
  LET hours == IF d \in DOMAIN Overrides THEN Overrides[d] ELSE WeeklyHours[Weekday(d)]
  IN  {OnDay(d, w) : w \in hours}

\* intersectIntervals: the non-empty pairwise intersections.
Intersections(A, B) ==
  {w \in {[start |-> IF x.start > y.start THEN x.start ELSE y.start,
           end   |-> IF x.end < y.end THEN x.end ELSE y.end] : x \in A, y \in B} :
     w.start < w.end}

\* staffIntervalsForDate: no shift rows means the salon's own hours.
StaffIntervals(d, s) ==
  LET shifts == StaffDef[s].shifts
  IN  IF DOMAIN shifts = {} THEN OpenIntervals(d)
      ELSE IF Weekday(d) \notin DOMAIN shifts THEN {}
      ELSE Intersections(OpenIntervals(d), {OnDay(d, shifts[Weekday(d)])})

Fits(start, end, windows) == \E w \in windows : w.start <= start /\ end <= w.end

-----------------------------------------------------------------------------
(* Ranges *)

EndOf(start, svc)      == start + ServiceDef[svc].duration
BlockStart(start, svc) == start - ServiceDef[svc].before
BlockEnd(start, svc)   == EndOf(start, svc) + ServiceDef[svc].after

\* overlaps: half-open ranges [s1, e1) and [s2, e2) share an instant.
Overlaps(s1, e1, s2, e2) == s1 < e2 /\ s2 < e1

-----------------------------------------------------------------------------
(* Refusals *)

CanPerform(s, svc) == StaffDef[s].skills = {} \/ svc \in StaffDef[s].skills

Works(s, start, svc) ==
  Fits(start, EndOf(start, svc), StaffIntervals(DayOf(start), s))

\* validateBookingWindow, in the order the code tries its reasons.
WindowViolation(start, svc, now) ==
  LET windows == OpenIntervals(DayOf(start)) IN
  IF ~ServiceDef[svc].active                          THEN "SERVICE_INACTIVE"
  ELSE IF start <= now                                THEN "BOOKING_IN_PAST"
  ELSE IF start < now + Policy.minLead                THEN "LEAD_TIME_TOO_SHORT"
  ELSE IF start > now + Policy.maxAdvance * DayLength THEN "TOO_FAR_IN_ADVANCE"
  ELSE IF windows = {}                                THEN "SALON_CLOSED_ON_DATE"
  ELSE IF ~Fits(start, EndOf(start, svc), windows)    THEN "OUTSIDE_BUSINESS_HOURS"
  ELSE "none"

\* validateStaffForBooking.
StaffViolation(s, start, svc) ==
  IF ~StaffDef[s].active         THEN "STAFF_NOT_WORKING"
  ELSE IF ~CanPerform(s, svc)    THEN "STAFF_CANNOT_PERFORM_SERVICE"
  ELSE IF ~Works(s, start, svc)  THEN "STAFF_NOT_WORKING"
  ELSE "none"

\* assessCancellation: the fee a change made at now costs, 0 when none applies.
LateFee(start, now) ==
  IF start - now < Policy.noticeWindow THEN Policy.lateFee ELSE 0
=============================================================================
