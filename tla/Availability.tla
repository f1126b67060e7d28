----------------------------- MODULE Availability -----------------------------
(***************************************************************************)
(* What GET /v1/availability answers, and what a refused booking offers    *)
(* instead: packages/core/src/availability.ts run on the diary.            *)
(*                                                                         *)
(* An enquiry reads the salon's settings, its stylists and the rows that   *)
(* block them around the window, and computes from that one reading the    *)
(* times that are open.  It changes nothing, so an answer is an operator   *)
(* on the state.  Starts are whole hours; the engine's grid is every Grid  *)
(* hours of the wall clock.                                                *)
(***************************************************************************)
EXTENDS Diary

CONSTANTS
  Grid,            \* slotGranularityMinutes
  MaxDaysScanned,  \* MAX_DAYS_SCANNED: days a search looks at
  WideLimit,       \* starts the search for alternatives keeps (400)
  AlternativeCount,\* alternatives offered (3)
  LookBack,        \* days the search for alternatives goes back (2)
  LookAhead,       \* ... and ahead (10)
  BusyBack,        \* days before a window whose rows are read (3)
  BusyAhead,       \* ... and after it (12)
  Enquiries        \* the enquiries a client may make

ASSUME AvailabilityAssumption ==
  /\ Grid \in Nat \ {0} /\ DayLength % Grid = 0
  /\ MaxDaysScanned \in Nat /\ {WideLimit, AlternativeCount} \subseteq Nat \ {0}
  /\ {LookBack, LookAhead, BusyBack, BusyAhead} \subseteq Nat

\* An enquiry whose window is known: given, or resolved from a time expression.
Enquiry == [svc : Services, staff : Staff \cup {Anyone}, from : Nat, to : Nat,
            limit : Nat \ {0}, alternatives : BOOLEAN]

ASSUME EnquiriesAssumption == Enquiries \subseteq Enquiry

\* A start offered with a stylist.
Slot == [start : Nat, staff : Staff]

-----------------------------------------------------------------------------
(* The engine *)

Later(a, b)   == IF a > b THEN a ELSE b
Earlier(a, b) == IF a < b THEN a ELSE b

\* The first n elements of S, Before being a strict order on it.
FirstOf(n, S, Before(_, _)) == {t \in S : Cardinality({u \in S : Before(u, t)}) < n}

Sooner(a, b) == a < b

EligibleStaff(svc, staff) ==
  {s \in ActiveStaff : CanPerform(s, svc) /\ staff \in {Anyone, s}}

\* The instants a search considers: the window, cut to the notice and the
\* furthest day the salon books, and to MaxDaysScanned days.
Searched(q, now) ==
  LET lo == Later(q.from, now + Policy.minLead)
      hi == Earlier(q.to, now + Policy.maxAdvance * DayLength)
  IN  {t \in lo..(hi - 1) : DayOf(t) - DayOf(lo) < MaxDaysScanned}

\* candidateStarts: the wall-clock grid of day d inside shift w.
CandidateStarts(d, w) ==
  {t \in Later(w.start, d * DayLength)..(Earlier(w.end, (d + 1) * DayLength) - 1) :
     (t - d * DayLength) % Grid = 0}

\* Mutant of Open: an appointment may not end with the shift.
OpenBeforeClose(t, s, svc, busy) ==
  /\ \E w \in StaffIntervals(DayOf(t), s) :
       t \in CandidateStarts(DayOf(t), w) /\ EndOf(t, svc) < w.end
  /\ Free(s, t, svc, busy)

\* Stylist s can take t: in one of the day's shifts to its end, and clear,
\* buffers included, of what was read as busy.
Open(t, s, svc, busy) ==
  /\ \E w \in StaffIntervals(DayOf(t), s) :
       t \in CandidateStarts(DayOf(t), w) /\ EndOf(t, svc) <= w.end
  /\ Free(s, t, svc, busy)

FreeAt(t, q, busy) == {s \in EligibleStaff(q.svc, q.staff) : Open(t, s, q.svc, busy)}

\* computeAvailability, the starts: one per time, earliest first, to the limit.
Starts(q, busy, now) ==
  FirstOf(q.limit, {t \in Searched(q, now) : FreeAt(t, q, busy) # {}}, Sooner)

\* Each start is offered with a least-loaded stylist.  The code breaks ties by
\* the order of the list; the model keeps every stylist it could be.
Offered(starts, q, busy) ==
  {x \in [start : starts, staff : Staff] :
     x.staff \in LeastLoaded(FreeAt(x.start, q, busy), busy)}

\* How far t is from the time asked for; equals go by time.
Distance(t, q) == IF t < q.from THEN q.from - t ELSE t - q.from

Outside(q, starts) == {t \in starts : t < q.from \/ t >= q.to}

\* findAlternatives, the search: wider than the window, and not in it.
Wider(q, busy, now) ==
  Outside(q, Starts([q EXCEPT !.from  = Later(q.from - LookBack * DayLength, now),
                              !.to    = q.to + LookAhead * DayLength,
                              !.limit = WideLimit], busy, now))

\* findAlternatives, the choice: the nearest time of each of the nearest days,
\* then the nearest of the rest.
Picked(q, starts) ==
  LET Nearer(a, b) == \/ Distance(a, q) < Distance(b, q)
                      \/ Distance(a, q) = Distance(b, q) /\ a < b
      firsts  == {t \in starts : \A u \in starts : DayOf(u) = DayOf(t) => ~Nearer(u, t)}
      perDay  == FirstOf(AlternativeCount, firsts, Nearer)
  IN  perDay \cup FirstOf(AlternativeCount - Cardinality(perDay), starts \ perDay, Nearer)

Alternatives(q, busy, now) == Picked(q, Wider(q, busy, now))

-----------------------------------------------------------------------------
(* The service *)

\* loadBusyBlocks over [lo, hi).
BusyBetween(lo, hi) ==
  {i \in DOMAIN rows : /\ Blocks(rows[i])
                       /\ BlockStart(rows[i].start, rows[i].svc) < hi
                       /\ BlockEnd(rows[i].start, rows[i].svc) >= lo}

\* getAvailability's refusals, in its order.
EnquiryViolation(q) ==
  IF ~ServiceDef[q.svc].active                            THEN "SERVICE_INACTIVE"
  ELSE IF q.staff # Anyone /\ q.staff \notin ActiveStaff  THEN "STAFF_NOT_FOUND"
  ELSE "none"

\* explainEmptyWindow: what the caller is told of a window with nothing in it.
Reason(q, alternatives) ==
  LET d == DayOf(q.from) IN
  IF d \in DOMAIN Overrides /\ Overrides[d] = {}              THEN "closed_date"
  ELSE IF WeeklyHours[Weekday(d)] = {} /\ DayOf(q.to) = d     THEN "closed_weekday"
  ELSE IF alternatives # {}                                   THEN "full_others_near"
  ELSE "full"

\* Mutant of Answered: only the rows around the requested window are read.
AnsweredFromWindow(q, now) ==
  LET busy   == BusyBetween(q.from, q.to)
      starts == Starts(q, busy, now)
      others == IF starts = {} /\ q.alternatives THEN Alternatives(q, busy, now) ELSE {}
  IN  [slots        |-> Offered(starts, q, busy),
       alternatives |-> Offered(others, q, busy),
       reason       |-> IF starts # {} THEN "none" ELSE Reason(q, others)]

\* getAvailability: alternatives only when the window has nothing.
Answered(q, now) ==
  LET busy   == BusyBetween(q.from - BusyBack * DayLength, q.to + BusyAhead * DayLength)
      starts == Starts(q, busy, now)
      others == IF starts = {} /\ q.alternatives THEN Alternatives(q, busy, now) ELSE {}
  IN  [slots        |-> Offered(starts, q, busy),
       alternatives |-> Offered(others, q, busy),
       reason       |-> IF starts # {} THEN "none" ELSE Reason(q, others)]

\* The refusals a booking answers with alternatives.
Recoverable == {"SLOT_UNAVAILABLE", "OUTSIDE_BUSINESS_HOURS", "SALON_CLOSED_ON_DATE",
                "STAFF_NOT_WORKING", "NO_STAFF_AVAILABLE", "LEAD_TIME_TOO_SHORT",
                "TOO_FAR_IN_ADVANCE", "BOOKING_IN_PAST"}

\* enrichSlotConflict: what a booking of svc at start that is refused with a
\* recoverable code offers instead.  Whoever was asked for, anyone is offered.
InsteadOf(start, svc, now) ==
  LET q    == [svc |-> svc, staff |-> Anyone, from |-> start, to |-> EndOf(start, svc),
               limit |-> 20, alternatives |-> TRUE]
      busy == BusyBetween(start - BusyBack * DayLength, start + BusyAhead * DayLength)
  IN  Offered(Alternatives(q, busy, now), q, busy)

-----------------------------------------------------------------------------
(* Properties *)

\* What POST /v1/appointments decides of a start and a named stylist before it
\* writes, on its own reading of the rows.
Bookable(t, s, svc, now) ==
  /\ WindowViolation(t, svc, now) = "none"
  /\ NamedStaffViolation(s, t, svc, Busy(t, svc, {}), FALSE) = "none"

\* The starts on the grid in [lo, hi) that a booking would be accepted for, with
\* a stylist the caller would have; in a search for alternatives, the second.
BookableIn(q, lo, hi) ==
  {t \in lo..(hi - 1) :
     /\ t % Grid = 0 /\ t < clock + Policy.maxAdvance * DayLength
     /\ \E s \in EligibleStaff(q.svc, q.staff) : Bookable(t, s, q.svc, clock)}
Around(q) == BookableIn(q, q.from - LookBack * DayLength, q.to + LookAhead * DayLength)

Asked == {q \in Enquiries : EnquiryViolation(q) = "none"}

\* Whatever is offered can be booked: a booking of any slot or alternative, made
\* at once with the stylist offered, passes the rules and the reading of the
\* diary that POST /v1/appointments makes for itself, in every state of the
\* diary, between any two steps of other requests.  "Nothing here re-implements
\* a scheduling rule": this is that availability and booking agree.
OffersAreBookable ==
  /\ \A q \in Asked :
       LET a == Answered(q, clock) IN
       \A x \in a.slots \cup a.alternatives : Bookable(x.start, x.staff, q.svc, clock)
  /\ \A q \in Asked : \A x \in InsteadOf(q.from, q.svc, clock) :
       Bookable(x.start, x.staff, q.svc, clock)

\* What a booking would be accepted for, is offered: a start on the grid that a
\* stylist the caller would have can take is among the slots, unless the limit
\* was reached by earlier ones; and if nothing at all is offered there is no
\* such start in the whole range of the search.
NothingIsHidden ==
  \A q \in Asked :
    LET a       == Answered(q, clock)
        offered == {x.start : x \in a.slots}
    IN  /\ \A t \in BookableIn(q, q.from, q.to) \ offered :
             /\ Cardinality(offered) = q.limit
             /\ \A u \in offered : u < t
        /\ a.slots \cup a.alternatives = {} /\ q.alternatives => Around(q) = {}
=============================================================================
