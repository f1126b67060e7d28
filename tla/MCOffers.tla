------------------------------- MODULE MCOffers -------------------------------
(***************************************************************************)
(* A salon for model-checking Availability on a diary that is being        *)
(* written: days of six hours, the grid every two, opening hours that      *)
(* begin and end off the grid on every other day, one closed date.         *)
(***************************************************************************)
EXTENDS Availability, TLC

CONSTANTS r1, r2, r3, ann, bob, cut, colour, perm, alice

MCRequests == {r1, r2, r3}
MCServices == {cut, colour, perm}
MCServiceDef ==
  (cut    :> [duration |-> 1, before |-> 0, after |-> 0, active |-> TRUE]) @@
  (colour :> [duration |-> 1, before |-> 0, after |-> 1, active |-> TRUE]) @@
  (perm   :> [duration |-> 1, before |-> 0, after |-> 0, active |-> FALSE])
MCStaff == {ann, bob}
\* ann does everything and works the salon's hours; bob cuts, on even days from
\* hour 3.
MCStaffDef ==
  (ann :> [active |-> TRUE, skills |-> {}, shifts |-> [d \in {} |-> 0]]) @@
  (bob :> [active |-> TRUE, skills |-> {cut},
           shifts |-> (0 :> [start |-> 3, end |-> 6])])
MCCustomers == {alice}
NoCustomers == {}
MCWeeklyHours == (0 :> {[start |-> 0, end |-> 6]}) @@ (1 :> {[start |-> 1, end |-> 5]})
\* Day 2 is closed, whatever the week says.
MCOverrides == 2 :> {}
MCPolicy ==
  [minLead |-> 1, maxAdvance |-> 3, noticeWindow |-> 3, lateFee |-> 5,
   maxActive |-> 5, allowDoubleBooking |-> TRUE]

\* Two moves of one booking, another, a buffer and a cancellation, contending
\* for few hours.
MCInputs ==
  [kind : {"book"}, cust : MCCustomers, byId : {FALSE}, start : {2}, svc : {cut},
   staff : {ann}, overbook : {FALSE}, scope : {TRUE}] \cup
  [kind : {"book"}, cust : MCCustomers, byId : {FALSE}, start : {3}, svc : {colour},
   staff : {Anyone}, overbook : {FALSE}, scope : {TRUE}] \cup
  [kind : {"cancel"}, appt : {r1}, ack : {TRUE}] \cup
  [kind : {"move"}, appt : {r1}, start : {4}, svc : {None}, staff : {ann}, ack : {TRUE}]

AskFor(v, s, from, to, n) ==
  [svc |-> v, staff |-> s, from |-> from, to |-> to, limit |-> n, alternatives |-> TRUE]

\* Windows within a day, over several, on the closed date, and past the last
\* day that can be booked.
MCEnquiries ==
  {AskFor(cut, Anyone, 0, 11, 4), AskFor(cut, Anyone, 0, 5, 1), AskFor(cut, bob, 2, 4, 4),
   AskFor(colour, Anyone, 4, 5, 4), AskFor(colour, ann, 12, 18, 4),
   AskFor(cut, Anyone, 16, 24, 4), AskFor(perm, Anyone, 0, 5, 4)}
=============================================================================
