------------------------------- MODULE MCDiary -------------------------------
(***************************************************************************)
(* Small salons for model-checking Diary: two days of four hours, open     *)
(* hours 0..3, a cut without buffers and a colour of two hours, two        *)
(* stylists of whom only one colours.                                      *)
(***************************************************************************)
EXTENDS Diary, TLC

CONSTANTS r1, r2, r3, ann, bob, cut, colour, alice, carol

MCServices == {cut, colour}
MCServiceDef ==
  (cut    :> [duration |-> 1, before |-> 0, after |-> 0, active |-> TRUE]) @@
  (colour :> [duration |-> 1, before |-> 0, after |-> 1, active |-> TRUE])
MCStaff == {ann, bob}
\* ann does everything and works the salon's hours; bob cuts, from hour 2.
MCStaffDef ==
  (ann :> [active |-> TRUE, skills |-> {}, shifts |-> [d \in {} |-> 0]]) @@
  (bob :> [active |-> TRUE, skills |-> {cut},
           shifts |-> (0 :> [start |-> 2, end |-> 4])])
MCCustomers == {alice, carol}
OnFile == {carol}
MCRequests3 == {r1, r2, r3}

MCWeeklyHours == (0 :> {[start |-> 0, end |-> 4]}) @@ (1 :> {})
MCOverrides == [d \in {} |-> {}]

RoomyPolicy ==
  [minLead |-> 1, maxAdvance |-> 1, noticeWindow |-> 3, lateFee |-> 5,
   maxActive |-> 5, allowDoubleBooking |-> TRUE]

Books(who, starts, service) ==
  [kind : {"book"}, cust : {who}, byId : {FALSE}, start : starts, svc : {service},
   staff : {Anyone}, overbook : {FALSE}, scope : {TRUE}]
Overbooks(who, starts, service) ==
  [kind : {"book"}, cust : {who}, byId : {TRUE}, start : starts, svc : {service},
   staff : {Anyone}, overbook : {TRUE}, scope : BOOLEAN]
Moves(starts, services) ==
  [kind : {"move"}, appt : Requests, start : starts, svc : services,
   staff : {Anyone}, ack : BOOLEAN]
Cancels == [kind : {"cancel"}, appt : Requests, ack : BOOLEAN]
Marks   == [kind : {"mark"}, appt : Requests, status : {"completed"}]

\* Racing changes to a few slots: a colour at 1 runs into a cut at 2 with its
\* buffer only; bob does not colour and works from 2; carol, booked by her
\* record's id, is overbooked with the scope only; what is changed late is
\* charged.
ChangeInputs ==
  Books(alice, {2}, cut) \cup Books(alice, {1}, colour) \cup
  Overbooks(carol, {1}, cut) \cup Moves({2}, {None, colour}) \cup Cancels \cup Marks

RequestSymmetry == Permutations(Requests)
=============================================================================
