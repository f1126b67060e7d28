-------------------------- MODULE AvailabilityProofs --------------------------
(***************************************************************************)
(* Availability and booking agree: whatever the first offers, the second   *)
(* accepts, and whatever the second would accept, the first offers, in     *)
(* every state of every diary.  They are two pieces of code that read the  *)
(* same tables through different windows; the assumptions say what they    *)
(* owe that to.                                                            *)
(***************************************************************************)
EXTENDS Availability, DiaryProofs, FiniteSetTheorems

\* A booking must be made some time ahead.  (With no notice at all the present
\* instant is offered, and refused as BOOKING_IN_PAST.)
Notice == Policy.minLead > 0

\* The rows that are read reach as far beyond the search as a service does, its
\* buffers included: in the code one day before it and two after.
ReadingCoversSearch ==
  \A v \in Services :
    /\ ServiceDef[v].before <= BusyBack * DayLength - LookBack * DayLength
    /\ 2 * ServiceDef[v].duration + ServiceDef[v].after
         <= BusyAhead * DayLength - LookAhead * DayLength

\* A search looks at as many days as the salon books ahead (in the code 120, and
\* a salon books 45 or 90 ahead), or as any window asked for is wide, with the days
\* that the search for alternatives adds.
ScanCoversSearch ==
  \/ Policy.maxAdvance < MaxDaysScanned
  \/ \A q \in Enquiries :
       (q.to + LookAhead * DayLength) - (q.from - LookBack * DayLength)
         <= (MaxDaysScanned - 1) * DayLength

-----------------------------------------------------------------------------
(* Hours *)

LEMMA ServiceTypes ==
  ASSUME NEW v \in Services
  PROVE  /\ ServiceDef[v].duration \in Nat \ {0}
         /\ ServiceDef[v].before \in Nat
         /\ ServiceDef[v].after \in Nat
  BY CatalogueAssumption

\* The salon's hours on a day are ranges of instants.
LEMMA OpenIntervalsType ==
  ASSUME NEW d \in Int
  PROVE  \A w \in OpenIntervals(d) : w.start \in Int /\ w.end \in Int
  <1>1. Weekday(d) \in 0..(WeekLength - 1)
    BY CalendarAssumption DEF Weekday
  <1> DEFINE hours == IF d \in DOMAIN Overrides THEN Overrides[d] ELSE WeeklyHours[Weekday(d)]
  <1>2. hours \subseteq Window
    BY <1>1, CalendarAssumption
  <1>3. OpenIntervals(d) = {OnDay(d, w) : w \in hours}
    BY DEF OpenIntervals
  <1> HIDE DEF hours
  <1>4. \A w \in hours : w.start \in Int /\ w.end \in Int
    BY <1>2 DEF Window
  <1>5. d * DayLength \in Int
    BY CalendarAssumption
  <1>6. QED
    BY <1>3, <1>4, <1>5 DEF OnDay

\* A shift on a day is a range of instants within the salon's hours.
LEMMA ShiftsAreOpen ==
  ASSUME NEW d \in Int, NEW s \in Staff, NEW w \in StaffIntervals(d, s)
  PROVE  /\ w.start \in Int /\ w.end \in Int
         /\ \E x \in OpenIntervals(d) :
              x.start \in Int /\ x.end \in Int /\ x.start <= w.start /\ w.end <= x.end
  <1> DEFINE shifts == StaffDef[s].shifts
  <1>1. CASE DOMAIN shifts = {}
    BY <1>1, OpenIntervalsType DEF StaffIntervals
  <1>2. CASE DOMAIN shifts # {} /\ Weekday(d) \notin DOMAIN shifts
    BY <1>2 DEF StaffIntervals
  <1>3. CASE DOMAIN shifts # {} /\ Weekday(d) \in DOMAIN shifts
    <2> DEFINE shift == OnDay(d, shifts[Weekday(d)])
    <2>1. StaffIntervals(d, s) = Intersections(OpenIntervals(d), {shift})
      BY <1>3 DEF StaffIntervals
    <2>2. shift.start \in Int /\ shift.end \in Int
      <3>1. shifts[Weekday(d)].start \in Int /\ shifts[Weekday(d)].end \in Int
        BY <1>3, CatalogueAssumption DEF Window
      <3>2. d * DayLength \in Int
        BY CalendarAssumption
      <3>3. QED
        BY <3>1, <3>2 DEF OnDay
    <2> HIDE DEF shift
    <2>3. PICK x \in OpenIntervals(d) :
            /\ w.start = (IF x.start > shift.start THEN x.start ELSE shift.start)
            /\ w.end = (IF x.end < shift.end THEN x.end ELSE shift.end)
      BY <2>1 DEF Intersections
    <2>4. x.start \in Int /\ x.end \in Int
      BY OpenIntervalsType
    <2>5. QED
      BY <2>2, <2>3, <2>4
  <1>4. QED
    BY <1>1, <1>2, <1>3

-----------------------------------------------------------------------------
(* What was read *)

\* Whoever is clear of what was read of [lo, hi) is clear of all, from an
\* instant whose blocked range lies in [lo, hi].
LEMMA ReadingSuffices ==
  ASSUME TypeOK, NEW lo \in Int, NEW hi \in Int,
         NEW t \in Int, NEW v \in Services, NEW s,
         lo <= BlockStart(t, v), BlockEnd(t, v) <= hi,
         Free(s, t, v, BusyBetween(lo, hi))
  PROVE  Free(s, t, v, Busy(t, v, {}))
  <1> SUFFICES ASSUME NEW i \in Busy(t, v, {}),
                      Clash(rows[i], [staff |-> s, start |-> t, svc |-> v])
               PROVE  FALSE
    BY DEF Free
  <1>1. i \in DOMAIN rows /\ Blocks(rows[i]) /\ rows[i] \in Row
    BY DEF Busy, TypeOK
  <1> DEFINE from == BlockStart(rows[i].start, rows[i].svc)
             to   == BlockEnd(rows[i].start, rows[i].svc)
  <1>2. from \in Int /\ to \in Int /\ BlockStart(t, v) \in Int /\ BlockEnd(t, v) \in Int
    <2>1. rows[i].start \in Int /\ rows[i].svc \in Services
      BY <1>1 DEF Row
    <2>2. QED
      BY <2>1, ServiceTypes DEF BlockStart, BlockEnd, EndOf
  <1>3. from < BlockEnd(t, v) /\ BlockStart(t, v) < to
    BY DEF Clash, Overlaps
  <1> HIDE DEF from, to
  <1>4. from < hi /\ to >= lo
    BY <1>2, <1>3
  <1>5. i \in BusyBetween(lo, hi)
    BY <1>1, <1>4 DEF BusyBetween, from, to
  <1>6. QED
    BY <1>5 DEF Free

\* A stylist that the engine finds open at a time it searched can be booked.
LEMMA OpenIsBookable ==
  ASSUME TypeOK, NEW lo \in Int, NEW hi \in Int, NEW now \in Nat,
         NEW t \in Int, NEW v \in Services, NEW s \in ActiveStaff,
         now < t, now + Policy.minLead <= t, t < now + Policy.maxAdvance * DayLength,
         ServiceDef[v].active, CanPerform(s, v),
         lo <= BlockStart(t, v), BlockEnd(t, v) <= hi,
         Open(t, s, v, BusyBetween(lo, hi))
  PROVE  Bookable(t, s, v, now)
  <1>1. s \in Staff /\ StaffDef[s].active
    BY DEF ActiveStaff
  <1>2. DayOf(t) \in Int /\ EndOf(t, v) \in Int
    BY ServiceTypes, CalendarAssumption DEF DayOf, EndOf
  <1>3. PICK w \in StaffIntervals(DayOf(t), s) :
          t \in CandidateStarts(DayOf(t), w) /\ EndOf(t, v) <= w.end
    BY DEF Open
  <1>4. PICK x \in OpenIntervals(DayOf(t)) :
          /\ w.start \in Int /\ w.end \in Int /\ x.start \in Int /\ x.end \in Int
          /\ x.start <= w.start /\ w.end <= x.end
    BY <1>1, <1>2, ShiftsAreOpen
  <1> DEFINE midnight == DayOf(t) * DayLength
  <1>5. w.start <= t
    <2>1. midnight \in Int
      BY <1>2, CalendarAssumption
    <2>2. t >= Later(w.start, midnight)
      BY <1>3 DEF CandidateStarts
    <2> HIDE DEF midnight
    <2>3. QED
      BY <1>4, <2>1, <2>2 DEF Later
  <1>6. /\ Fits(t, EndOf(t, v), StaffIntervals(DayOf(t), s))
        /\ Fits(t, EndOf(t, v), OpenIntervals(DayOf(t)))
    BY <1>2, <1>3, <1>4, <1>5 DEF Fits
  <1>7. Free(s, t, v, Busy(t, v, {}))
    BY ReadingSuffices DEF Open
  <1>8. NamedStaffViolation(s, t, v, Busy(t, v, {}), FALSE) = "none"
    BY <1>1, <1>6, <1>7 DEF NamedStaffViolation, StaffViolation, Works
  <1>9. WindowViolation(t, v, now) = "none"
    <2>1. OpenIntervals(DayOf(t)) # {}
      BY <1>4
    <2>2. ~(t <= now) /\ ~(t < now + Policy.minLead) /\ ~(t > now + Policy.maxAdvance * DayLength)
      <3>1. now + Policy.minLead \in Int /\ now + Policy.maxAdvance * DayLength \in Int
        <4>1. Policy.minLead \in Nat /\ Policy.maxAdvance \in Nat
          BY CatalogueAssumption
        <4>2. DayLength \in Nat
          BY CalendarAssumption
        <4>3. Policy.maxAdvance * DayLength \in Nat
          BY <4>1, <4>2
        <4>4. QED
          BY <4>1, <4>3
      <3>2. QED
        BY <3>1
    <2>3. QED
      BY <1>6, <2>1, <2>2 DEF WindowViolation
  <1>10. QED
    BY <1>8, <1>9 DEF Bookable

-----------------------------------------------------------------------------
(* What is offered *)

\* What the engine offers for q, having read [lo, hi), is bookable, if the
\* blocked ranges of all it searched are in [lo, hi].
LEMMA OfferIsBookable ==
  ASSUME TypeOK, Notice, NEW lo \in Int, NEW hi \in Int, NEW now \in Nat,
         NEW q, q.svc \in Services, ServiceDef[q.svc].active,
         NEW starts,
         \A t \in starts :
           /\ t \in Int /\ now + Policy.minLead <= t
           /\ t < now + Policy.maxAdvance * DayLength
           /\ lo <= BlockStart(t, q.svc) /\ BlockEnd(t, q.svc) <= hi,
         NEW x \in Offered(starts, q, BusyBetween(lo, hi))
  PROVE  Bookable(x.start, x.staff, q.svc, now)
  <1>1. x.start \in starts /\ x.staff \in FreeAt(x.start, q, BusyBetween(lo, hi))
    BY DEF Offered, LeastLoaded
  <1>2. /\ x.staff \in ActiveStaff /\ CanPerform(x.staff, q.svc)
        /\ Open(x.start, x.staff, q.svc, BusyBetween(lo, hi))
    BY <1>1 DEF FreeAt, EligibleStaff
  <1>3. x.start \in Int /\ now < x.start
    BY <1>1, CatalogueAssumption DEF Notice
  <1>4. QED
    BY <1>1, <1>2, <1>3, OpenIsBookable

\* The starts found for q at now are in its window, far enough ahead and not too
\* far.
LEMMA StartsAreSearched ==
  ASSUME NEW q, q.from \in Int, q.to \in Int, NEW busy, NEW now \in Nat,
         NEW t \in Starts(q, busy, now)
  PROVE  /\ t \in Int
         /\ now + Policy.minLead <= t /\ t < now + Policy.maxAdvance * DayLength
         /\ q.from <= t /\ t < q.to
  <1> DEFINE soonest  == now + Policy.minLead
             furthest == now + Policy.maxAdvance * DayLength
  <1>1. soonest \in Int /\ furthest \in Int
    BY CatalogueAssumption, CalendarAssumption
  <1>2. t \in Later(q.from, soonest)..(Earlier(q.to, furthest) - 1)
    BY DEF Starts, FirstOf, Searched
  <1> HIDE DEF soonest, furthest
  <1>3. t \in Int /\ soonest <= t /\ t < furthest /\ q.from <= t /\ t < q.to
    BY <1>1, <1>2 DEF Later, Earlier
  <1>4. QED
    BY <1>3 DEF soonest, furthest

\* The alternatives to q are starts of a wider window.
LEMMA AlternativesAreStarts ==
  ASSUME NEW q \in Enquiry, NEW busy, NEW now \in Nat,
         NEW t \in Alternatives(q, busy, now)
  PROVE  /\ t \in Int
         /\ now + Policy.minLead <= t /\ t < now + Policy.maxAdvance * DayLength
         /\ q.from - LookBack * DayLength <= t /\ t < q.to + LookAhead * DayLength
  <1> DEFINE earliest == q.from - LookBack * DayLength
             latest   == q.to + LookAhead * DayLength
             wide     == [q EXCEPT !.from = Later(earliest, now), !.to = latest,
                                   !.limit = WideLimit]
  <1>1. earliest \in Int /\ latest \in Int
    <2>1. q.from \in Int /\ q.to \in Int
      BY DEF Enquiry
    <2>2. LookBack \in Int /\ LookAhead \in Int /\ DayLength \in Int
      BY AvailabilityAssumption, CalendarAssumption
    <2>3. LookBack * DayLength \in Int /\ LookAhead * DayLength \in Int
      BY <2>2
    <2>4. QED
      BY <2>1, <2>3
  <1>2. t \in Starts(wide, busy, now)
    BY DEF Alternatives, Picked, FirstOf, Wider, Outside
  <1> HIDE DEF earliest, latest
  <1>3. wide.from = Later(earliest, now) /\ wide.to = latest
    BY DEF Enquiry
  <1>4. wide.from \in Int /\ wide.from >= earliest
    BY <1>1, <1>3 DEF Later
  <1> HIDE DEF wide
  <1>5. /\ t \in Int
        /\ now + Policy.minLead <= t /\ t < now + Policy.maxAdvance * DayLength
        /\ wide.from <= t /\ t < latest
    BY <1>1, <1>2, <1>3, <1>4, StartsAreSearched
  <1>6. earliest <= t
    BY <1>1, <1>4, <1>5
  <1>7. QED
    BY <1>5, <1>6 DEF earliest, latest

\* The blocked range of a service that begins in the search around [from, to) is
\* in what is read around it, from no earlier and to at most one service later.
LEMMA SearchIsRead ==
  ASSUME ReadingCoversSearch, NEW v \in Services, NEW t \in Int,
         NEW from \in Int, NEW to \in Int, NEW last \in Int,
         from - LookBack * DayLength <= t, t < to + LookAhead * DayLength,
         to <= last + ServiceDef[v].duration
  PROVE  /\ from - BusyBack * DayLength \in Int
         /\ last + BusyAhead * DayLength \in Int
         /\ from - BusyBack * DayLength <= BlockStart(t, v)
         /\ BlockEnd(t, v) <= last + BusyAhead * DayLength
  <1> DEFINE back == LookBack * DayLength   ahead == LookAhead * DayLength
             Back == BusyBack * DayLength   Ahead == BusyAhead * DayLength
  <1>1. back \in Int /\ ahead \in Int /\ Back \in Int /\ Ahead \in Int
    <2>1. LookBack \in Nat /\ LookAhead \in Nat /\ BusyBack \in Nat /\ BusyAhead \in Nat
      BY AvailabilityAssumption
    <2>2. DayLength \in Nat
      BY CalendarAssumption
    <2>3. \A x, y \in Nat : x * y \in Int
      OBVIOUS
    <2>4. QED
      BY <2>1, <2>2, <2>3
  <1>2. /\ ServiceDef[v].before <= Back - back
        /\ 2 * ServiceDef[v].duration + ServiceDef[v].after <= Ahead - ahead
    BY DEF ReadingCoversSearch
  <1> HIDE DEF back, ahead, Back, Ahead
  <1>3. from - back <= t /\ t < to + ahead
    BY DEF back, ahead
  <1>4. from - Back <= BlockStart(t, v)
    BY <1>1, <1>2, <1>3, ServiceTypes DEF BlockStart
  <1>5. BlockEnd(t, v) <= last + Ahead
    BY <1>1, <1>2, <1>3, ServiceTypes DEF BlockEnd, EndOf
  <1>6. QED
    BY <1>1, <1>4, <1>5 DEF Back, Ahead

\* The slots and the alternatives of an answer.
LEMMA AnswersAreBookable ==
  ASSUME TypeOK, Notice, ReadingCoversSearch, NEW q \in Asked
  PROVE  \A x \in Answered(q, clock).slots \cup Answered(q, clock).alternatives :
           Bookable(x.start, x.staff, q.svc, clock)
  <1>1. /\ q \in Enquiry /\ q.svc \in Services /\ q.from \in Int /\ q.to \in Int
        /\ ServiceDef[q.svc].active /\ clock \in Nat
    BY EnquiriesAssumption DEF Asked, EnquiryViolation, Enquiry, TypeOK
  <1> DEFINE lo     == q.from - BusyBack * DayLength
             hi     == q.to + BusyAhead * DayLength
             busy   == BusyBetween(lo, hi)
             starts == Starts(q, busy, clock)
             others == IF starts = {} /\ q.alternatives THEN Alternatives(q, busy, clock)
                       ELSE {}
  <1>2. /\ Answered(q, clock).slots = Offered(starts, q, busy)
        /\ Answered(q, clock).alternatives = Offered(others, q, busy)
    BY DEF Answered
  <1>3. q.to <= q.to + ServiceDef[q.svc].duration
    BY <1>1, ServiceTypes
  <1>4. LookBack * DayLength \in Nat /\ LookAhead * DayLength \in Nat
    BY AvailabilityAssumption, CalendarAssumption
  <1>5. \A t \in starts \cup others :
          /\ t \in Int
          /\ clock + Policy.minLead <= t /\ t < clock + Policy.maxAdvance * DayLength
          /\ q.from - LookBack * DayLength <= t /\ t < q.to + LookAhead * DayLength
    <2>1. \A t \in starts :
            /\ t \in Int
            /\ clock + Policy.minLead <= t /\ t < clock + Policy.maxAdvance * DayLength
            /\ q.from <= t /\ t < q.to
      BY <1>1, StartsAreSearched
    <2>2. \A t \in starts :
            q.from - LookBack * DayLength <= t /\ t < q.to + LookAhead * DayLength
      <3> DEFINE back == LookBack * DayLength   ahead == LookAhead * DayLength
      <3> HIDE DEF back, ahead
      <3>1. \A t \in starts : q.from - back <= t /\ t < q.to + ahead
        BY <1>1, <1>4, <2>1 DEF back, ahead
      <3>2. QED
        BY <3>1 DEF back, ahead
    <2>3. \A t \in others :
            /\ t \in Int
            /\ clock + Policy.minLead <= t /\ t < clock + Policy.maxAdvance * DayLength
            /\ q.from - LookBack * DayLength <= t /\ t < q.to + LookAhead * DayLength
      BY <1>1, AlternativesAreStarts
    <2> HIDE DEF starts, others
    <2>4. QED
      BY <2>1, <2>2, <2>3
  <1> HIDE DEF starts, others
  <1>6. \A t \in starts \cup others :
          lo \in Int /\ hi \in Int /\ lo <= BlockStart(t, q.svc) /\ BlockEnd(t, q.svc) <= hi
    BY <1>1, <1>3, <1>5, SearchIsRead
  <1>7. CASE starts \cup others = {}
    BY <1>2, <1>7 DEF Offered
  <1>8. CASE starts \cup others # {}
    <2>1. lo \in Int /\ hi \in Int
      BY <1>6, <1>8
    <2> HIDE DEF lo, hi
    <2>2. \A x \in Offered(starts, q, busy) : Bookable(x.start, x.staff, q.svc, clock)
      BY <1>1, <1>5, <1>6, <2>1, OfferIsBookable
    <2>3. \A x \in Offered(others, q, busy) : Bookable(x.start, x.staff, q.svc, clock)
      BY <1>1, <1>5, <1>6, <2>1, OfferIsBookable
    <2>4. QED
      BY <1>2, <2>2, <2>3
  <1>9. QED
    BY <1>7, <1>8

\* What a refused booking of the same service at the same time offers instead.
LEMMA InsteadIsBookable ==
  ASSUME TypeOK, Notice, ReadingCoversSearch, Anyone \notin Staff, NEW q \in Asked
  PROVE  \A x \in InsteadOf(q.from, q.svc, clock) : Bookable(x.start, x.staff, q.svc, clock)
  <1>1. /\ q.svc \in Services /\ q.from \in Nat /\ ServiceDef[q.svc].active /\ clock \in Nat
    BY EnquiriesAssumption DEF Asked, EnquiryViolation, Enquiry, TypeOK
  <1> DEFINE w      == [svc |-> q.svc, staff |-> Anyone, from |-> q.from,
                        to |-> EndOf(q.from, q.svc), limit |-> 20, alternatives |-> TRUE]
             lo     == q.from - BusyBack * DayLength
             hi     == q.from + BusyAhead * DayLength
             others == Alternatives(w, BusyBetween(lo, hi), clock)
  <1>2. InsteadOf(q.from, q.svc, clock) = Offered(others, w, BusyBetween(lo, hi))
    BY DEF InsteadOf
  <1>3. EndOf(q.from, q.svc) = q.from + ServiceDef[q.svc].duration
    BY DEF EndOf
  <1>4. w \in Enquiry /\ w.from = q.from /\ w.to = EndOf(q.from, q.svc) /\ w.svc = q.svc
    BY <1>1, <1>3, ServiceTypes DEF Enquiry
  <1> HIDE DEF w
  <1>5. \A t \in others :
          /\ t \in Int
          /\ clock + Policy.minLead <= t /\ t < clock + Policy.maxAdvance * DayLength
          /\ q.from - LookBack * DayLength <= t
          /\ t < EndOf(q.from, q.svc) + LookAhead * DayLength
    BY <1>1, <1>4, AlternativesAreStarts
  <1> HIDE DEF others
  <1>6. /\ EndOf(q.from, q.svc) \in Int /\ q.from \in Int
        /\ EndOf(q.from, q.svc) <= q.from + ServiceDef[q.svc].duration
    BY <1>1, <1>3, ServiceTypes
  <1>7. \A t \in others :
          lo \in Int /\ hi \in Int /\ lo <= BlockStart(t, q.svc) /\ BlockEnd(t, q.svc) <= hi
    BY <1>1, <1>5, <1>6, SearchIsRead
  <1>8. CASE others = {}
    BY <1>2, <1>8 DEF Offered
  <1>9. CASE others # {}
    <2>1. lo \in Int /\ hi \in Int
      BY <1>7, <1>9
    <2> HIDE DEF lo, hi
    <2>2. \A x \in Offered(others, w, BusyBetween(lo, hi)) :
            Bookable(x.start, x.staff, w.svc, clock)
      BY <1>1, <1>4, <1>5, <1>7, <2>1, OfferIsBookable
    <2>3. QED
      BY <1>2, <1>4, <2>2
  <1>10. QED
    BY <1>8, <1>9

\* "Nothing here re-implements a scheduling rule": whatever GET /v1/availability
\* offers, and whatever a refused booking offers instead, POST /v1/appointments
\* accepts if it comes before the diary changes, in every state that any requests,
\* failures and crashes bring the diary to.
THEOREM OffersCanBeBooked ==
  ASSUME Notice, ReadingCoversSearch
  PROVE  Spec => []OffersAreBookable
  <1>1. TypeOK => OffersAreBookable
    BY AnswersAreBookable, InsteadIsBookable, DiaryAssumption DEF OffersAreBookable
  <1>2. QED
    BY <1>1, TypeCorrect, PTL

-----------------------------------------------------------------------------
(* Numbers *)

\* The multiples of g are what leaves nothing over.
LEMMA Multiples ==
  ASSUME NEW g \in Nat \ {0}, NEW t \in Int
  PROVE  t % g = 0 <=> \E k \in Int : t = k * g
  <1>1. /\ t = g * (t \div g) + (t % g)
        /\ t \div g \in Int /\ t % g \in 0..(g - 1)
    OBVIOUS
  <1>2. t % g = 0 => \E k \in Int : t = k * g
    BY <1>1
  <1>3. ASSUME NEW k \in Int, t = k * g
        PROVE  t % g = 0
    <2> DEFINE j == k - t \div g
    <2>1. j \in Int /\ g * j = t % g
      BY <1>1, <1>3
    <2> HIDE DEF j
    <2>2. j >= 1 => g * j >= g
      BY <2>1
    <2>3. j <= -1 => g * j <= -g
      BY <2>1
    <2>4. j = 0 => g * j = 0
      BY <2>1
    <2>5. QED
      BY <1>1, <2>1, <2>2, <2>3, <2>4
  <1>4. QED
    BY <1>2, <1>3

\* An instant less than n days later falls at most n days later.
LEMMA DaysBetween ==
  ASSUME NEW t \in Int, NEW u \in Int, NEW n \in Nat, t < u + n * DayLength
  PROVE  DayOf(t) \in Int /\ DayOf(u) \in Int /\ DayOf(t) - DayOf(u) <= n
  <1> DEFINE a == t \div DayLength
             b == u \div DayLength
  <1>1. DayLength \in Nat \ {0}
    BY CalendarAssumption
  <1>2. /\ t = DayLength * a + (t % DayLength) /\ t % DayLength \in 0..(DayLength - 1)
        /\ u = DayLength * b + (u % DayLength) /\ u % DayLength \in 0..(DayLength - 1)
        /\ a \in Int /\ b \in Int
    BY <1>1
  <1> HIDE DEF a, b
  <1>3. ASSUME a - b >= n + 1
        PROVE  FALSE
    <2>1. DayLength * (a - b) >= DayLength * (n + 1)
      BY <1>1, <1>2, <1>3
    <2>2. /\ DayLength * (a - b) = DayLength * a - DayLength * b
          /\ DayLength * (n + 1) = n * DayLength + DayLength
      BY <1>1, <1>2
    <2>3. QED
      BY <1>1, <1>2, <2>1, <2>2
  <1>4. QED
    BY <1>2, <1>3 DEF DayOf, a, b

\* Any natural numbers have a least one.
LEMMA LeastNatural ==
  ASSUME NEW S, S \subseteq Nat, S # {}
  PROVE  \E m \in S : \A n \in S : m <= n
  <1> DEFINE upTo == {0..n : n \in S}
  <1>1. upTo \subseteq FiniteSubsetsOf(Nat) /\ upTo # {}
    <2>1. \A n \in S : IsFiniteSet(0..n) /\ 0..n \subseteq Nat
      BY FS_Interval
    <2>2. QED
      BY <2>1 DEF FiniteSubsetsOf
  <1>2. \E x \in upTo : \A y \in upTo : <<y, x>> \notin StrictSubsetOrdering(Nat)
    BY <1>1, FS_StrictSubsetOrderingWellFounded, WFMin
  <1>3. PICK m \in S : \A n \in S : <<0..n, 0..m>> \notin StrictSubsetOrdering(Nat)
    BY <1>2
  <1>4. ASSUME NEW n \in S, n < m
        PROVE  FALSE
    <2>1. /\ 0..n \subseteq 0..m /\ m \in 0..m /\ m \notin 0..n
          /\ 0..n \subseteq Nat /\ 0..m \subseteq Nat
      BY <1>4
    <2>2. <<0..n, 0..m>> \in StrictSubsetOrdering(Nat)
      BY <2>1 DEF StrictSubsetOrdering
    <2>3. QED
      BY <1>3, <2>2
  <1>5. QED
    BY <1>4

-----------------------------------------------------------------------------
(* The earliest *)

\* The times of S before t, and the n earliest times.
Before(S, t)   == {u \in S : u < t}
Earliest(n, S) == {t \in S : Cardinality(Before(S, t)) < n}

LEMMA FirstOfIsEarliest ==
  ASSUME NEW n, NEW S
  PROVE  FirstOf(n, S, Sooner) = Earliest(n, S)
  BY DEF FirstOf, Sooner, Earliest, Before

\* More times are before a later time.
LEMMA BeforeGrows ==
  ASSUME NEW S, IsFiniteSet(S), S \subseteq Int, NEW t \in S, NEW u \in S
  PROVE  /\ Cardinality(Before(S, t)) \in Nat
         /\ Cardinality(Before(S, t)) <= Cardinality(S)
         /\ t <= u => Cardinality(Before(S, t)) <= Cardinality(Before(S, u))
         /\ t < u => Cardinality(Before(S, t)) < Cardinality(Before(S, u))
  <1>1. /\ IsFiniteSet(Before(S, t)) /\ IsFiniteSet(Before(S, u))
        /\ Cardinality(Before(S, t)) <= Cardinality(S)
    BY FS_Subset DEF Before
  <1>2. Cardinality(Before(S, t)) \in Nat /\ Cardinality(Before(S, u)) \in Nat
    BY <1>1, FS_CardinalityType
  <1>3. t <= u => Before(S, t) \subseteq Before(S, u)
    <2>1. \A x \in Int : x < t /\ t <= u => x < u
      BY t \in Int, u \in Int
    <2>2. QED
      BY <2>1 DEF Before
  <1>4. t <= u => /\ Cardinality(Before(S, t)) <= Cardinality(Before(S, u))
                  /\ Cardinality(Before(S, t)) = Cardinality(Before(S, u))
                       => Before(S, t) = Before(S, u)
    BY <1>1, <1>3, FS_Subset
  <1>5. t < u => t \in Before(S, u) /\ t \notin Before(S, t)
    BY DEF Before
  <1>6. QED
    BY <1>1, <1>2, <1>4, <1>5

\* A set of finitely many times has an earliest, and so have its subsets.
LEMMA OneIsEarliest ==
  ASSUME NEW S, IsFiniteSet(S), S \subseteq Int, NEW T, T \subseteq S, T # {}
  PROVE  \E m \in T : \A t \in T : m <= t
  <1> DEFINE ranks == {Cardinality(Before(S, t)) : t \in T}
  <1>1. ranks \subseteq Nat /\ ranks # {}
    BY BeforeGrows
  <1>2. PICK k \in ranks : \A n \in ranks : k <= n
    BY <1>1, LeastNatural
  <1>3. PICK m \in T : k = Cardinality(Before(S, m))
    OBVIOUS
  <1>4. ASSUME NEW t \in T, t < m
        PROVE  FALSE
    <2>1. Cardinality(Before(S, t)) < Cardinality(Before(S, m))
      BY <1>4, BeforeGrows
    <2>2. Cardinality(Before(S, m)) <= Cardinality(Before(S, t))
      BY <1>2, <1>3
    <2>3. Cardinality(Before(S, t)) \in Nat /\ Cardinality(Before(S, m)) \in Nat
      BY BeforeGrows
    <2>4. QED
      BY <2>1, <2>2, <2>3
  <1>5. QED
    BY <1>4

\* The n earliest of at least n times are n.  (Take the least n for which they
\* are not: the earliest of the other times is the one that makes them n.)
LEMMA EarliestAreThatMany ==
  ASSUME NEW S, IsFiniteSet(S), S \subseteq Int, NEW n \in Nat, n <= Cardinality(S)
  PROVE  Cardinality(Earliest(n, S)) = n
  <1> DEFINE wrong == {k \in Nat : k <= Cardinality(S) /\ Cardinality(Earliest(k, S)) # k}
  <1>1. SUFFICES ASSUME wrong # {}
                 PROVE  FALSE
    OBVIOUS
  <1>2. PICK k \in wrong : \A j \in wrong : k <= j
    <2>1. wrong \subseteq Nat
      OBVIOUS
    <2> HIDE DEF wrong
    <2>2. QED
      BY <1>1, <2>1, LeastNatural
  <1>3. Cardinality(S) \in Nat
    BY FS_CardinalityType
  <1>4. k # 0
    <2>1. Earliest(0, S) = {}
      <3>1. \A t \in S : ~(Cardinality(Before(S, t)) < 0)
        <4>1. \A t \in S : Cardinality(Before(S, t)) \in Nat
          BY BeforeGrows
        <4>2. QED
          BY <4>1
      <3>2. QED
        BY <3>1 DEF Earliest
    <2>2. QED
      BY <2>1, FS_EmptySet
  <1>5. Cardinality(Earliest(k - 1, S)) = k - 1
    <2>1. k - 1 \in Nat /\ k - 1 <= Cardinality(S) /\ ~(k <= k - 1)
      BY <1>3, <1>4
    <2>2. QED
      BY <1>2, <2>1
  <1> DEFINE F    == Earliest(k - 1, S)
             rest == S \ F
  <1>6. k \in Nat /\ k <= Cardinality(S) /\ Cardinality(Earliest(k, S)) # k
    OBVIOUS
  <1> HIDE DEF wrong
  <1>7. F \subseteq S /\ IsFiniteSet(F)
    BY FS_Subset DEF Earliest
  <1>8. rest # {}
    <2>1. F # S
      BY <1>3, <1>5, <1>6
    <2>2. QED
      BY <1>7, <2>1
  <1>9. PICK m \in rest : \A t \in rest : m <= t
    BY <1>8, OneIsEarliest
  <1>10. Before(S, m) = F
    <2>1. ASSUME NEW t \in F
          PROVE  t < m
      <3>1. Cardinality(Before(S, t)) < k - 1 /\ ~(Cardinality(Before(S, m)) < k - 1)
        BY <1>9 DEF Earliest
      <3>2. Cardinality(Before(S, t)) \in Nat /\ Cardinality(Before(S, m)) \in Nat
        BY <1>7, BeforeGrows
      <3>3. m <= t => Cardinality(Before(S, m)) <= Cardinality(Before(S, t))
        BY <1>7, BeforeGrows
      <3>4. ~(m <= t)
        BY <1>6, <3>1, <3>2, <3>3
      <3>5. m \in Int /\ t \in Int
        BY <1>7
      <3>6. QED
        BY <3>4, <3>5
    <2>2. ASSUME NEW t \in S, t < m
          PROVE  t \in F
      BY <1>9, <2>2
    <2> HIDE DEF F
    <2>3. QED
      BY <1>7, <2>1, <2>2 DEF Before
  <1>11. Earliest(k, S) = F \cup {m}
    <2>1. ASSUME NEW t \in F
          PROVE  t \in Earliest(k, S)
      <3>1. t \in S /\ Cardinality(Before(S, t)) < k - 1 /\ Cardinality(Before(S, t)) \in Nat
        BY BeforeGrows DEF Earliest
      <3>2. QED
        BY <1>6, <3>1 DEF Earliest
    <2>2. m \in Earliest(k, S)
      BY <1>5, <1>6, <1>10 DEF Earliest
    <2>3. ASSUME NEW t \in Earliest(k, S), t \in rest, t # m
          PROVE  FALSE
      <3>1. m < t
        BY <1>9, <2>3
      <3>2. Cardinality(Before(S, t)) < k /\ Cardinality(Before(S, t)) \in Nat
        BY <2>3, BeforeGrows DEF Earliest
      <3>3. Cardinality(Before(S, m)) < Cardinality(Before(S, t))
        BY <2>3, <3>1, BeforeGrows
      <3> HIDE DEF F, rest
      <3>4. QED
        BY <1>5, <1>6, <1>10, <3>2, <3>3 DEF F
    <2>4. Earliest(k, S) \subseteq S
      BY DEF Earliest
    <2> HIDE DEF F
    <2>5. QED
      BY <2>1, <2>2, <2>3, <2>4
  <1>12. Cardinality(F \cup {m}) = k
    <2>1. m \notin F
      OBVIOUS
    <2> HIDE DEF F
    <2>2. Cardinality(F \cup {m}) = Cardinality(F) + 1
      BY <1>7, <2>1, FS_AddElement
    <2>3. QED
      BY <1>5, <1>6, <2>2 DEF F
  <1>13. QED
    BY <1>6, <1>11, <1>12

\* A time is not among the n earliest only if they are n, and all before it.
LEMMA LeftOutIsLater ==
  ASSUME NEW S, IsFiniteSet(S), S \subseteq Int, NEW n \in Nat,
         NEW t \in S, t \notin Earliest(n, S)
  PROVE  /\ Cardinality(Earliest(n, S)) = n
         /\ \A u \in Earliest(n, S) : u < t
  <1>1. Cardinality(Before(S, t)) \in Nat /\ ~(Cardinality(Before(S, t)) < n)
    BY BeforeGrows DEF Earliest
  <1>2. n <= Cardinality(S)
    <2>1. Cardinality(Before(S, t)) <= Cardinality(S) /\ Cardinality(S) \in Nat
      BY BeforeGrows, FS_CardinalityType
    <2>2. QED
      BY <1>1, <2>1
  <1>3. ASSUME NEW u \in Earliest(n, S)
        PROVE  u < t
    <2>1. u \in S /\ Cardinality(Before(S, u)) < n /\ Cardinality(Before(S, u)) \in Nat
      BY BeforeGrows DEF Earliest
    <2>2. t <= u => Cardinality(Before(S, t)) <= Cardinality(Before(S, u))
      BY <2>1, BeforeGrows
    <2>3. t \in Int /\ u \in Int /\ ~(t <= u)
      BY <1>1, <2>1, <2>2
    <2>4. QED
      BY <2>3
  <1>4. QED
    BY <1>2, <1>3, EarliestAreThatMany

-----------------------------------------------------------------------------
(* Somebody is named *)

\* The table holds finitely many rows: a step adds one at most.
FiniteTable == IsFiniteSet(DOMAIN rows)

LEMMA TableGrowsByOne ==
  ASSUME [Next]_vars
  PROVE  DOMAIN rows' = DOMAIN rows \/ \E r \in Requests : DOMAIN rows' = DOMAIN rows \cup {r}
  <1>1. CASE UNCHANGED vars
    BY <1>1 DEF vars
  <1>2. CASE \E r \in Requests : Receive(r) \/ StatementFails(r)
    BY <1>2 DEF Receive, StatementFails
  <1>3. CASE Crash \/ Tick \/ Quiesced
    BY <1>3 DEF Crash, Tick, Quiesced, vars
  <1>4. ASSUME NEW r \in Requests, Step(r)
        PROVE  DOMAIN rows' = DOMAIN rows \/ DOMAIN rows' = DOMAIN rows \cup {r}
    <2>1. CASE PickStaff(r) \/ ResolveCustomer(r) \/ CheckCap(r)
      BY <2>1 DEF PickStaff, ResolveCustomer, CheckCap, Refuse
    <2>2. CASE InsertBooking(r)
      BY <2>2 DEF InsertBooking, Inserted, Refuse
    <2>3. CASE ReadToCancel(r) \/ ReadToMove(r)
      BY <2>3 DEF ReadToCancel, ReadToMove, Refuse
    <2>4. CASE CancelRow(r)
      BY <2>4 DEF CancelRow
    <2>5. CASE ReleaseOld(r) \/ TakeNew(r) \/ ReadBack(r)
      BY <2>5 DEF ReleaseOld, TakeNew, ReadBack, Refuse
    <2>6. CASE LinkAndCommit(r)
      BY <2>6 DEF LinkAndCommit, Inserted
    <2>7. CASE MarkStatus(r)
      BY <2>7 DEF MarkStatus, Refuse
    <2>8. QED
      BY <1>4, <2>1, <2>2, <2>3, <2>4, <2>5, <2>6, <2>7 DEF Step
  <1>5. QED
    BY <1>1, <1>2, <1>3, <1>4 DEF Next

LEMMA TableIsFinite == Spec => []FiniteTable
  <1>1. Init => FiniteTable
    BY FS_EmptySet DEF Init, FiniteTable
  <1>2. FiniteTable /\ [Next]_vars => FiniteTable'
    BY TableGrowsByOne, FS_AddElement DEF FiniteTable
  <1>3. QED
    BY <1>1, <1>2, PTL DEF Spec

\* Of any stylists one is least loaded.
LEMMA SomeoneIsLeastLoaded ==
  ASSUME FiniteTable, NEW busy, busy \subseteq DOMAIN rows, NEW S, S # {}
  PROVE  LeastLoaded(S, busy) # {}
  <1> DEFINE loads == {Load(s, busy) : s \in S}
  <1>1. \A s \in S : Load(s, busy) \in Nat
    <2>1. ASSUME NEW s \in S
          PROVE  IsFiniteSet({i \in busy : rows[i].staff = s})
      BY FS_Subset DEF FiniteTable
    <2>2. QED
      BY <2>1, FS_CardinalityType DEF Load
  <1>2. PICK k \in loads : \A n \in loads : k <= n
    <2>1. loads \subseteq Nat /\ loads # {}
      BY <1>1
    <2> HIDE DEF loads
    <2>2. QED
      BY <2>1, LeastNatural
  <1>3. PICK s \in S : k = Load(s, busy)
    OBVIOUS
  <1>4. s \in LeastLoaded(S, busy)
    BY <1>2, <1>3 DEF LeastLoaded
  <1>5. QED
    BY <1>4

\* Every start found is offered.
LEMMA OfferedStarts ==
  ASSUME FiniteTable, NEW busy, busy \subseteq DOMAIN rows, NEW q, NEW starts,
         \A t \in starts : FreeAt(t, q, busy) # {}
  PROVE  {x.start : x \in Offered(starts, q, busy)} = starts
  <1>1. ASSUME NEW t \in starts
        PROVE  \E x \in Offered(starts, q, busy) : x.start = t
    <2>1. PICK s : s \in LeastLoaded(FreeAt(t, q, busy), busy)
      BY SomeoneIsLeastLoaded
    <2>2. s \in Staff
      BY <2>1 DEF LeastLoaded, FreeAt, EligibleStaff, ActiveStaff
    <2> DEFINE x == [start |-> t, staff |-> s]
    <2>3. x \in [start : starts, staff : Staff] /\ x.start = t /\ x.staff = s
      BY <2>2
    <2>4. x \in Offered(starts, q, busy)
      BY <2>1, <2>3 DEF Offered
    <2>5. QED
      BY <2>3, <2>4
  <1>2. \A x \in Offered(starts, q, busy) : x.start \in starts
    BY DEF Offered
  <1>3. QED
    BY <1>1, <1>2

\* Some alternative is picked when there is one: the nearest of all, the earlier
\* of two, is the first of its day and no other comes before it.
LEMMA SomeIsPicked ==
  ASSUME NEW q, q.from \in Int, NEW starts, starts \subseteq Int, starts # {}
  PROVE  Picked(q, starts) # {}
  <1> DEFINE Rank(t) == 2 * Distance(t, q) + (IF t < q.from THEN 0 ELSE 1)
             Nearer(a, b) == \/ Distance(a, q) < Distance(b, q)
                             \/ Distance(a, q) = Distance(b, q) /\ a < b
             ranks == {Rank(t) : t \in starts}
  <1>1. \A a, b \in Int : Rank(a) \in Nat /\ (Nearer(a, b) => Rank(a) < Rank(b))
    BY DEF Distance
  <1> HIDE DEF Rank
  <1>2. PICK k \in ranks : \A n \in ranks : k <= n
    <2>1. ranks \subseteq Nat /\ ranks # {}
      BY <1>1
    <2> HIDE DEF ranks
    <2>2. QED
      BY <2>1, LeastNatural
  <1>3. PICK m \in starts : k = Rank(m)
    OBVIOUS
  <1>4. \A u \in starts : ~Nearer(u, m)
    <2>1. \A u \in starts : Rank(m) <= Rank(u) /\ Rank(m) \in Nat /\ Rank(u) \in Nat
      BY <1>1, <1>2, <1>3
    <2>2. \A u \in starts : ~(Rank(u) < Rank(m))
      BY <2>1
    <2> HIDE DEF Nearer
    <2>3. \A u \in starts : Nearer(u, m) => Rank(u) < Rank(m)
      BY <1>1
    <2>4. QED
      BY <2>2, <2>3
  <1> DEFINE firsts == {t \in starts : \A u \in starts : DayOf(u) = DayOf(t) => ~Nearer(u, t)}
  <1>5. m \in firsts
    BY <1>4
  <1>6. {u \in firsts : Nearer(u, m)} = {}
    BY <1>4
  <1>7. Cardinality({u \in firsts : Nearer(u, m)}) < AlternativeCount
    BY <1>6, FS_EmptySet, AvailabilityAssumption
  <1>8. m \in Picked(q, starts)
    BY <1>5, <1>7 DEF Picked, FirstOf
  <1>9. QED
    BY <1>8

-----------------------------------------------------------------------------
(* What is bookable is found *)

\* A stylist whom a booking at t would be accepted for is open at t, in any
\* reading of the table.
LEMMA BookableIsOpen ==
  ASSUME NEW lo, NEW hi, NEW now \in Nat,
         NEW v \in Services, NEW s \in Staff, NEW t \in Int, t % Grid = 0,
         Bookable(t, s, v, now), TypeOK
  PROVE  /\ now < t /\ now + Policy.minLead <= t
         /\ Open(t, s, v, BusyBetween(lo, hi))
  <1>1. /\ WindowViolation(t, v, now) = "none"
        /\ NamedStaffViolation(s, t, v, Busy(t, v, {}), FALSE) = "none"
    BY DEF Bookable
  <1>2. ~(t <= now) /\ ~(t < now + Policy.minLead)
    BY <1>1 DEF WindowViolation
  <1>3. now < t /\ now + Policy.minLead <= t
    BY <1>2, CatalogueAssumption
  <1>4. StaffViolation(s, t, v) = "none" /\ Free(s, t, v, Busy(t, v, {}))
    BY <1>1 DEF NamedStaffViolation
  <1>5. PICK w \in StaffIntervals(DayOf(t), s) : w.start <= t /\ EndOf(t, v) <= w.end
    BY <1>4 DEF StaffViolation, Works, Fits
  <1> DEFINE d == DayOf(t)
  <1>6. /\ d \in Int /\ DayLength \in Nat \ {0}
        /\ d * DayLength \in Int /\ (d + 1) * DayLength \in Int
        /\ d * DayLength <= t /\ t < (d + 1) * DayLength
    <2>1. DayLength \in Nat \ {0}
      BY CalendarAssumption
    <2>2. d \in Int /\ t = DayLength * d + (t % DayLength) /\ t % DayLength \in 0..(DayLength - 1)
      BY <2>1 DEF DayOf
    <2> HIDE DEF d
    <2>3. (d + 1) * DayLength = DayLength * d + DayLength /\ d * DayLength = DayLength * d
      BY <2>1, <2>2
    <2>4. DayLength * d \in Int
      BY <2>1, <2>2
    <2>5. QED
      BY <2>1, <2>2, <2>3, <2>4
  <1>7. w.start \in Int /\ w.end \in Int
    BY <1>6, ShiftsAreOpen
  <1>8. (t - d * DayLength) % Grid = 0
    <2>1. Grid \in Nat \ {0} /\ DayLength % Grid = 0
      BY AvailabilityAssumption
    <2> HIDE DEF d
    <2>2. PICK j \in Int : t = j * Grid
      BY <2>1, Multiples
    <2>3. PICK k \in Int : DayLength = k * Grid
      <3>1. DayLength \in Int
        BY <1>6
      <3>2. QED
        BY <2>1, <3>1, Multiples
    <2>4. t - d * DayLength = (j - d * k) * Grid /\ j - d * k \in Int
      BY <1>6, <2>1, <2>2, <2>3
    <2>5. t - d * DayLength \in Int
      BY <1>6
    <2>6. QED
      BY <2>1, <2>4, <2>5, Multiples
  <1>9. t < w.end
    BY <1>5, <1>7, ServiceTypes DEF EndOf
  <1>10. t \in CandidateStarts(d, w)
    <2> HIDE DEF d
    <2>1. t \in Later(w.start, d * DayLength)..(Earlier(w.end, (d + 1) * DayLength) - 1)
      BY <1>5, <1>6, <1>7, <1>9 DEF Later, Earlier
    <2>2. QED
      BY <1>8, <2>1 DEF CandidateStarts
  <1>11. Free(s, t, v, BusyBetween(lo, hi))
    <2> SUFFICES ASSUME NEW i \in BusyBetween(lo, hi),
                        Clash(rows[i], [staff |-> s, start |-> t, svc |-> v])
                 PROVE  FALSE
      BY DEF Free
    <2>1. i \in DOMAIN rows /\ Blocks(rows[i]) /\ rows[i] \in Row
      BY DEF BusyBetween, TypeOK
    <2> DEFINE from == BlockStart(rows[i].start, rows[i].svc)
               to   == BlockEnd(rows[i].start, rows[i].svc)
    <2>2. from \in Int /\ to \in Int /\ BlockStart(t, v) \in Int /\ BlockEnd(t, v) \in Int
      <3>1. rows[i].start \in Int /\ rows[i].svc \in Services
        BY <2>1 DEF Row
      <3>2. QED
        BY <3>1, ServiceTypes DEF BlockStart, BlockEnd, EndOf
    <2>3. from < BlockEnd(t, v) /\ BlockStart(t, v) < to
      BY DEF Clash, Overlaps
    <2> HIDE DEF from, to
    <2>4. from < BlockEnd(t, v) + DayLength /\ to >= BlockStart(t, v) - DayLength
      BY <1>6, <2>2, <2>3
    <2>5. i \in Busy(t, v, {})
      BY <2>1, <2>4 DEF Busy, from, to
    <2>6. QED
      BY <1>4, <2>5 DEF Free
  <1>12. QED
    BY <1>3, <1>5, <1>10, <1>11 DEF Open

-----------------------------------------------------------------------------
(* Nothing is hidden *)

\* The search for the starts of a window, when MaxDaysScanned covers the window
\* or all that can be booked, looks at every instant of it that can be booked.
LEMMA SearchedIsAll ==
  ASSUME NEW q, q.from \in Int, q.to \in Int, NEW now \in Nat,
         \/ Policy.maxAdvance < MaxDaysScanned
         \/ q.to - q.from <= (MaxDaysScanned - 1) * DayLength,
         NEW t \in Int, q.from <= t, t < q.to,
         now + Policy.minLead <= t, t < now + Policy.maxAdvance * DayLength
  PROVE  t \in Searched(q, now)
  <1> DEFINE soonest  == now + Policy.minLead
             furthest == now + Policy.maxAdvance * DayLength
             lo       == Later(q.from, soonest)
  <1>1. /\ Policy.minLead \in Nat /\ Policy.maxAdvance \in Nat /\ DayLength \in Nat \ {0}
        /\ MaxDaysScanned \in Nat
    BY CatalogueAssumption, CalendarAssumption, AvailabilityAssumption
  <1>2. soonest \in Int /\ furthest \in Int /\ now <= soonest
    BY <1>1
  <1>3. lo \in Int /\ q.from <= lo /\ soonest <= lo /\ lo <= t
    <2> HIDE DEF soonest
    <2>1. soonest <= t
      BY DEF soonest
    <2>2. QED
      BY <1>2, <2>1 DEF Later
  <1>4. t \in lo..(Earlier(q.to, furthest) - 1)
    <2> HIDE DEF lo, furthest
    <2>1. t < furthest
      BY DEF furthest
    <2>2. QED
      BY <1>2, <1>3, <2>1 DEF Earlier
  <1>5. DayOf(t) - DayOf(lo) < MaxDaysScanned
    <2> HIDE DEF lo
    <2>1. MaxDaysScanned > 0 /\ t < lo + (MaxDaysScanned - 1) * DayLength
      <3>1. CASE Policy.maxAdvance < MaxDaysScanned
        <4> DEFINE m == MaxDaysScanned - 1
        <4>1. m \in Nat /\ Policy.maxAdvance <= m
          BY <1>1, <3>1
        <4> HIDE DEF m
        <4>2. Policy.maxAdvance * DayLength <= m * DayLength
          BY <1>1, <4>1
        <4>3. Policy.maxAdvance * DayLength \in Int /\ m * DayLength \in Int
          BY <1>1, <4>1
        <4>4. t < now + Policy.maxAdvance * DayLength /\ now <= lo
          BY <1>2, <1>3
        <4>5. t < lo + m * DayLength
          BY <1>3, <4>2, <4>3, <4>4
        <4>6. QED
          BY <1>1, <4>1, <4>5 DEF m
      <3>2. CASE q.to - q.from <= (MaxDaysScanned - 1) * DayLength
        <4> DEFINE m == MaxDaysScanned - 1
                   span == m * DayLength
        <4>1. m \in Int /\ span \in Int
          BY <1>1
        <4>2. q.to - q.from <= span
          BY <3>2
        <4> HIDE DEF span
        <4>3. t < lo + span /\ span > 0
          BY <1>3, <4>1, <4>2
        <4>4. m > 0
          <5> HIDE DEF m
          <5>1. m <= 0 => m * DayLength <= 0
            BY <1>1, <4>1
          <5>2. QED
            BY <4>1, <4>3, <5>1 DEF span
        <4>5. QED
          BY <1>1, <4>3, <4>4 DEF span
      <3>3. QED
        BY <3>1, <3>2
    <2> DEFINE m == MaxDaysScanned - 1
    <2>2. m \in Nat
      BY <1>1, <2>1
    <2>3. DayOf(t) \in Int /\ DayOf(lo) \in Int /\ DayOf(t) - DayOf(lo) <= m
      <3>1. t < lo + m * DayLength
        BY <2>1
      <3> HIDE DEF m
      <3>2. QED
        BY <1>3, <2>2, <3>1, DaysBetween
    <2>4. QED
      BY <1>1, <2>3
  <1>6. QED
    BY <1>4, <1>5 DEF Searched

\* The starts a search chooses from.
Found(q, busy, now) == {t \in Searched(q, now) : FreeAt(t, q, busy) # {}}

LEMMA FoundAreTimes ==
  ASSUME NEW q, q.from \in Int, q.to \in Int, NEW busy, NEW now \in Nat
  PROVE  /\ Found(q, busy, now) \subseteq Int /\ IsFiniteSet(Found(q, busy, now))
         /\ Starts(q, busy, now) = Earliest(q.limit, Found(q, busy, now))
         /\ \A t \in Found(q, busy, now) :
              /\ now + Policy.minLead <= t /\ t < now + Policy.maxAdvance * DayLength
              /\ q.from <= t /\ t < q.to
  <1> DEFINE soonest  == now + Policy.minLead
             furthest == now + Policy.maxAdvance * DayLength
             lo       == Later(q.from, soonest)
             hi       == Earlier(q.to, furthest)
  <1>1. soonest \in Int /\ furthest \in Int
    BY CatalogueAssumption, CalendarAssumption
  <1>2. lo \in Int /\ hi \in Int /\ soonest <= lo /\ q.from <= lo /\ hi <= furthest /\ hi <= q.to
    <2> HIDE DEF soonest, furthest
    <2>1. QED
      BY <1>1 DEF Later, Earlier
  <1>3. Found(q, busy, now) \subseteq lo..(hi - 1)
    BY DEF Found, Searched
  <1> HIDE DEF lo, hi
  <1>4. Found(q, busy, now) \subseteq Int /\ IsFiniteSet(Found(q, busy, now))
    <2>1. hi - 1 \in Int
      BY <1>2
    <2>2. IsFiniteSet(lo..(hi - 1)) /\ lo..(hi - 1) \subseteq Int
      BY <1>2, <2>1, FS_Interval
    <2>3. QED
      BY <1>3, <2>2, FS_Subset
  <1>5. \A t \in Found(q, busy, now) : soonest <= t /\ t < furthest /\ q.from <= t /\ t < q.to
    <2> HIDE DEF soonest, furthest
    <2>1. QED
      BY <1>1, <1>2, <1>3
  <1>6. Starts(q, busy, now) = Earliest(q.limit, Found(q, busy, now))
    BY FirstOfIsEarliest DEF Starts, Found
  <1>7. QED
    BY <1>4, <1>5, <1>6

\* Something is among the n earliest if there is anything.
LEMMA SomeIsEarliest ==
  ASSUME NEW S, IsFiniteSet(S), S \subseteq Int, S # {}, NEW n \in Nat \ {0}
  PROVE  Earliest(n, S) # {}
  <1>1. PICK t \in S : TRUE
    OBVIOUS
  <1>2. SUFFICES ASSUME Earliest(n, S) = {}
                 PROVE  FALSE
    OBVIOUS
  <1>3. Cardinality(Earliest(n, S)) = n
    BY <1>1, <1>2, LeftOutIsLater
  <1>4. QED
    BY <1>2, <1>3, FS_EmptySet

\* What a booking would be accepted for, in a window that the search covers, is
\* found.
LEMMA BookableIsFound ==
  ASSUME TypeOK, NEW q, q.from \in Int, q.to \in Int, q.svc \in Services,
         \/ Policy.maxAdvance < MaxDaysScanned
         \/ q.to - q.from <= (MaxDaysScanned - 1) * DayLength,
         NEW lo, NEW hi, NEW t \in BookableIn(q, q.from, q.to)
  PROVE  t \in Found(q, BusyBetween(lo, hi), clock)
  <1>1. /\ t \in q.from..(q.to - 1) /\ t % Grid = 0
        /\ t < clock + Policy.maxAdvance * DayLength
        /\ clock \in Nat
    BY DEF BookableIn, TypeOK
  <1>2. PICK s \in EligibleStaff(q.svc, q.staff) : Bookable(t, s, q.svc, clock)
    BY DEF BookableIn
  <1>3. s \in Staff
    BY DEF EligibleStaff, ActiveStaff
  <1>4. t \in Int /\ q.from <= t /\ t < q.to
    BY <1>1
  <1>5. /\ clock + Policy.minLead <= t
        /\ Open(t, s, q.svc, BusyBetween(lo, hi))
    BY <1>1, <1>2, <1>3, <1>4, BookableIsOpen
  <1>6. t \in Searched(q, clock)
    BY <1>1, <1>4, <1>5, SearchedIsAll
  <1>7. s \in FreeAt(t, q, BusyBetween(lo, hi))
    BY <1>2, <1>5 DEF FreeAt
  <1>8. QED
    BY <1>6, <1>7 DEF Found

\* If an enquiry finds nothing and picks no alternative, its wider search finds
\* nothing either.
LEMMA NothingWider ==
  ASSUME ScanCoversSearch, NEW q \in Enquiry, q \in Enquiries, NEW busy, NEW now \in Nat,
         Starts(q, busy, now) = {}, Alternatives(q, busy, now) = {},
         NEW w, w = [q EXCEPT !.from  = Later(q.from - LookBack * DayLength, now),
                              !.to    = q.to + LookAhead * DayLength,
                              !.limit = WideLimit]
  PROVE  Found(w, busy, now) = {}
  <1> DEFINE earliest == q.from - LookBack * DayLength
             latest   == q.to + LookAhead * DayLength
  <1>1. /\ earliest \in Int /\ latest \in Int /\ q.from \in Int /\ q.to \in Int
        /\ q.limit \in Nat \ {0}
        /\ WideLimit \in Nat \ {0}
        /\ earliest <= q.from /\ q.to <= latest
    <2>1. LookBack * DayLength \in Nat /\ LookAhead * DayLength \in Nat
      BY AvailabilityAssumption, CalendarAssumption
    <2>2. WideLimit \in Nat \ {0}
      BY AvailabilityAssumption
    <2> HIDE DEF earliest, latest
    <2>3. q.from \in Nat /\ q.to \in Nat /\ q.limit \in Nat \ {0}
      BY DEF Enquiry
    <2>4. QED
      BY <2>1, <2>2, <2>3 DEF earliest, latest
  <1>2. /\ w.from = Later(earliest, now) /\ w.to = latest /\ w.limit = WideLimit
        /\ w.svc = q.svc /\ w.staff = q.staff
    BY DEF Enquiry
  <1>3. w.from \in Int /\ w.to \in Int
    <2> HIDE DEF earliest, latest
    <2>1. QED
      BY <1>1, <1>2 DEF Later
  <1> HIDE DEF earliest, latest
  <1> DEFINE found == Found(w, busy, now)
  <1>4. /\ found \subseteq Int /\ IsFiniteSet(found)
        /\ Starts(w, busy, now) = Earliest(WideLimit, found)
        /\ \A t \in found : now + Policy.minLead <= t /\ t < now + Policy.maxAdvance * DayLength
    BY <1>2, <1>3, FoundAreTimes
  <1>5. SUFFICES ASSUME found # {}
                 PROVE  FALSE
    OBVIOUS
  <1>6. PICK u \in Starts(w, busy, now) : u \in found /\ u \in Int
    <2> HIDE DEF found
    <2>1. Earliest(WideLimit, found) # {}
      BY <1>1, <1>4, <1>5, SomeIsEarliest
    <2>2. QED
      BY <1>4, <2>1 DEF Earliest
  <1>7. u < q.from \/ u >= q.to
    <2> SUFFICES ASSUME q.from <= u, u < q.to
                 PROVE  FALSE
      BY <1>1, <1>6
    <2>1. now + Policy.minLead <= u /\ u < now + Policy.maxAdvance * DayLength
      BY <1>4, <1>6
    <2>2. FreeAt(u, q, busy) # {}
      BY <1>2, <1>6 DEF Found, FreeAt
    <2>3. \/ Policy.maxAdvance < MaxDaysScanned
          \/ q.to - q.from <= (MaxDaysScanned - 1) * DayLength
      <3>1. CASE Policy.maxAdvance < MaxDaysScanned
        BY <3>1
      <3>2. CASE latest - earliest <= (MaxDaysScanned - 1) * DayLength
        <4>1. (MaxDaysScanned - 1) * DayLength \in Int
          BY AvailabilityAssumption, CalendarAssumption
        <4>2. QED
          BY <1>1, <3>2, <4>1
      <3>3. QED
        BY <3>1, <3>2 DEF ScanCoversSearch, earliest, latest
    <2>4. u \in Searched(q, now)
      BY <1>1, <1>6, <2>1, <2>3, SearchedIsAll
    <2>5. u \in Found(q, busy, now)
      BY <2>2, <2>4 DEF Found
    <2>6. QED
      BY <1>1, <2>5, FoundAreTimes, SomeIsEarliest
  <1>8. Wider(q, busy, now) # {} /\ Wider(q, busy, now) \subseteq Int
    <2>1. Wider(q, busy, now) = Outside(q, Starts(w, busy, now))
      BY DEF Wider
    <2>2. Starts(w, busy, now) \subseteq Int
      BY <1>4 DEF Earliest
    <2>3. QED
      BY <1>6, <1>7, <2>1, <2>2 DEF Outside
  <1>9. QED
    BY <1>1, <1>8, SomeIsPicked DEF Alternatives

\* Neither the slots of an answer nor an answer of nothing hide anything.
LEMMA AnswerHidesNothing ==
  ASSUME TypeOK, FiniteTable, ScanCoversSearch, NEW q \in Asked
  PROVE  LET a       == Answered(q, clock)
             offered == {x.start : x \in a.slots}
         IN  /\ \A t \in BookableIn(q, q.from, q.to) \ offered :
                  /\ Cardinality(offered) = q.limit
                  /\ \A u \in offered : u < t
             /\ a.slots \cup a.alternatives = {} /\ q.alternatives => Around(q) = {}
  <1>1. /\ q \in Enquiry /\ q \in Enquiries /\ q.svc \in Services
        /\ q.from \in Int /\ q.to \in Int /\ q.limit \in Nat \ {0} /\ clock \in Nat
    BY EnquiriesAssumption DEF Asked, Enquiry, TypeOK
  <1> DEFINE from   == q.from - BusyBack * DayLength
             to     == q.to + BusyAhead * DayLength
             busy   == BusyBetween(from, to)
             starts == Starts(q, busy, clock)
             others == IF starts = {} /\ q.alternatives THEN Alternatives(q, busy, clock)
                       ELSE {}
             a      == Answered(q, clock)
             earliest == q.from - LookBack * DayLength
             latest   == q.to + LookAhead * DayLength
             w      == [q EXCEPT !.from = Later(earliest, clock), !.to = latest,
                                 !.limit = WideLimit]
  <1>2. a.slots = Offered(starts, q, busy) /\ a.alternatives = Offered(others, q, busy)
    BY DEF Answered
  <1>3. busy \subseteq DOMAIN rows
    BY DEF BusyBetween
  <1>4. /\ earliest \in Int /\ latest \in Int
        /\ earliest <= q.from /\ q.to <= latest
    <2>1. LookBack * DayLength \in Nat /\ LookAhead * DayLength \in Nat
      BY AvailabilityAssumption, CalendarAssumption
    <2>2. QED
      BY <1>1, <2>1
  <1>5. /\ w.from = Later(earliest, clock) /\ w.to = latest /\ w.limit = WideLimit
        /\ w.svc = q.svc /\ w.staff = q.staff
    BY <1>1 DEF Enquiry
  <1>6. w.from \in Int /\ earliest <= w.from /\ clock <= w.from
                       /\ (w.from = earliest \/ w.from = clock)
    <2> HIDE DEF earliest, w
    <2>1. QED
      BY <1>1, <1>4, <1>5 DEF Later
  <1>7. /\ \/ Policy.maxAdvance < MaxDaysScanned
           \/ q.to - q.from <= (MaxDaysScanned - 1) * DayLength
        /\ \/ Policy.maxAdvance < MaxDaysScanned
           \/ w.to - w.from <= (MaxDaysScanned - 1) * DayLength
    <2>1. CASE Policy.maxAdvance < MaxDaysScanned
      BY <2>1
    <2>2. CASE latest - earliest <= (MaxDaysScanned - 1) * DayLength
      <3>1. (MaxDaysScanned - 1) * DayLength \in Int
        BY AvailabilityAssumption, CalendarAssumption
      <3> HIDE DEF earliest, latest, w
      <3>2. QED
        BY <1>1, <1>4, <1>5, <1>6, <2>2, <3>1
    <2>3. QED
      BY <1>1, <2>1, <2>2 DEF ScanCoversSearch
  <1>8. \A t \in starts : FreeAt(t, q, busy) # {}
    BY DEF Starts, FirstOf
  <1>9. {x.start : x \in a.slots} = starts
    <2> HIDE DEF starts, busy, others, a
    <2>1. QED
      BY <1>2, <1>3, <1>8, OfferedStarts
  <1>10. starts = Earliest(q.limit, Found(q, busy, clock))
    BY <1>1, FoundAreTimes
  <1>11. ASSUME NEW t \in BookableIn(q, q.from, q.to), t \notin starts
         PROVE  Cardinality(starts) = q.limit /\ \A u \in starts : u < t
    <2>1. t \in Found(q, busy, clock)
      <3> HIDE DEF w
      <3>1. QED
        BY <1>1, <1>7, BookableIsFound
    <2> HIDE DEF starts, busy, w, others, a
    <2>2. Found(q, busy, clock) \subseteq Int /\ IsFiniteSet(Found(q, busy, clock))
      BY <1>1, FoundAreTimes
    <2>3. QED
      BY <1>1, <1>10, <1>11, <2>1, <2>2, LeftOutIsLater
  <1>12. ASSUME a.slots \cup a.alternatives = {}, q.alternatives, Around(q) # {}
         PROVE  FALSE
    <2>1. starts = {}
      BY <1>9, <1>12
    <2>2. others = Alternatives(q, busy, clock)
      BY <1>12, <2>1
    <2>3. \A t \in others : FreeAt(t, q, busy) # {}
      <3>1. others \subseteq Starts(w, busy, clock)
        BY <2>2 DEF Alternatives, Picked, FirstOf, Wider, Outside
      <3>2. \A t \in Starts(w, busy, clock) : FreeAt(t, w, busy) # {}
        BY DEF Starts, FirstOf
      <3> HIDE DEF w, others, starts, busy
      <3>3. QED
        BY <1>5, <3>1, <3>2 DEF FreeAt
    <2>4. others = {}
      <3> HIDE DEF starts, busy, others, a, w
      <3>1. {x.start : x \in Offered(others, q, busy)} = others
        BY <1>3, <2>3, OfferedStarts
      <3>2. QED
        BY <1>2, <1>12, <3>1
    <2>5. Found(w, busy, clock) = {}
      <3> HIDE DEF starts, busy, others, a
      <3>1. QED
        BY <1>1, <2>1, <2>2, <2>4, NothingWider DEF starts
    <2>6. PICK t \in Around(q) : TRUE
      BY <1>12
    <2>7. t \in BookableIn(w, w.from, w.to)
      <3>1. /\ t \in earliest..(latest - 1) /\ t % Grid = 0
            /\ t < clock + Policy.maxAdvance * DayLength
        BY <2>6 DEF Around, BookableIn
      <3>2. PICK s \in EligibleStaff(q.svc, q.staff) : Bookable(t, s, q.svc, clock)
        BY <2>6 DEF Around, BookableIn
      <3> HIDE DEF earliest, latest, w, starts, busy, others, a
      <3>3. t \in Int /\ s \in Staff
        BY <3>1, <1>4 DEF EligibleStaff, ActiveStaff
      <3>4. clock < t
        BY <1>1, <3>1, <3>2, <3>3, BookableIsOpen
      <3>5. t \in w.from..(w.to - 1)
        BY <1>1, <1>4, <1>5, <1>6, <3>1, <3>3, <3>4
      <3>6. QED
        BY <1>5, <3>1, <3>2, <3>5 DEF BookableIn
    <2>8. w.to \in Int /\ w.svc \in Services
      BY <1>1, <1>4, <1>5
    <2> HIDE DEF w, starts, others, a, earliest, latest
    <2>9. t \in Found(w, busy, clock)
      BY <1>6, <1>7, <2>7, <2>8, BookableIsFound
    <2>10. QED
      BY <2>5, <2>9
  <1> HIDE DEF starts, busy, others, w, earliest, latest
  <1>13. QED
    BY <1>9, <1>11, <1>12

\* What POST /v1/appointments would accept, GET /v1/availability offers: a start on
\* the grid that a stylist the caller would have can take is among the slots, or
\* the limit is reached by earlier ones; and an enquiry that is answered with
\* nothing at all has no such start in the whole range of the wider search, in
\* every state that any requests, failures and crashes bring the diary to.
THEOREM NothingBookableIsHidden ==
  ASSUME ScanCoversSearch
  PROVE  Spec => []NothingIsHidden
  <1>1. TypeOK /\ FiniteTable => NothingIsHidden
    BY AnswerHidesNothing DEF NothingIsHidden
  <1>2. QED
    BY <1>1, TypeCorrect, TableIsFinite, PTL
=============================================================================
