-------------------------------- MODULE Diary --------------------------------
(***************************************************************************)
(* The salon's diary: the appointments table and the write requests of     *)
(* apps/api that run against it concurrently.                              *)
(*                                                                         *)
(* A request is a sequence of steps separated by the code's awaits; other  *)
(* requests, the clock, a failed statement or a server crash may come      *)
(* between any two.  Postgres runs at READ COMMITTED: a read sees the rows *)
(* committed so far; a single statement is atomic; the three statements of *)
(* a reschedule are one transaction, whose row lock and uncommitted insert *)
(* other statements wait for.  The exclusion constraint                    *)
(* appointments_no_overlap is checked by the statement that writes.        *)
(***************************************************************************)
EXTENDS BookingPolicy

CONSTANTS
  Requests,        \* ids of the write requests; a row bears the id of the
                   \* request that inserted it
  Customers,       \* phone numbers
  KnownCustomers,  \* the customers on file before the first request
  Inputs,          \* the validated inputs a client may send
  MaxInFlight,     \* bound: requests being served at the same time
  Horizon,         \* bound: the last instant of the clock
  Anyone,          \* no staffId: let the engine pick
  None             \* SQL null

BookInput   == [kind : {"book"}, cust : Customers, byId : BOOLEAN,
                start : Nat, svc : Services, staff : Staff \cup {Anyone},
                overbook : BOOLEAN, scope : BOOLEAN]
CancelInput == [kind : {"cancel"}, appt : Requests, ack : BOOLEAN]
MoveInput   == [kind : {"move"}, appt : Requests, start : Nat,
                svc : Services \cup {None}, staff : Staff \cup {Anyone},
                ack : BOOLEAN]
MarkInput   == [kind : {"mark"}, appt : Requests,
                status : {"completed", "no_show"}]

ASSUME DiaryAssumption ==
  /\ Inputs \subseteq BookInput \cup CancelInput \cup MoveInput \cup MarkInput
  /\ KnownCustomers \subseteq Customers
  /\ Anyone \notin Staff
  /\ None \notin Requests \cup Services \cup Customers
  /\ MaxInFlight \in Nat \ {0}
  /\ Horizon \in Nat

VARIABLES
  rows,       \* appointments: the committed rows, a partial function on Requests
  customers,  \* customers: the phone numbers that have a record
  req,        \* the requests received so far, a partial function on Requests
  clock       \* the current time

vars == <<rows, customers, req, clock>>

Statuses == {"booked", "cancelled", "completed", "no_show", "rescheduled"}

Row == [status : Statuses, cust : Customers, staff : Staff, start : Nat,
        svc : Services, overbooked : BOOLEAN, fee : Nat,
        from : Requests \cup {None}, to : Requests \cup {None}]

Stages == {"staffing", "customer", "counting", "inserting", "reading",
           "cancelling", "releasing", "taking", "linking", "marking",
           "reading_back", "done"}

\* The codes a refused request is answered with: every 4xx of schedulingService.
Refusals == {"SERVICE_INACTIVE", "BOOKING_IN_PAST", "LEAD_TIME_TOO_SHORT",
             "TOO_FAR_IN_ADVANCE", "SALON_CLOSED_ON_DATE",
             "OUTSIDE_BUSINESS_HOURS", "STAFF_NOT_FOUND", "STAFF_NOT_WORKING",
             "STAFF_CANNOT_PERFORM_SERVICE", "SLOT_UNAVAILABLE",
             "NO_STAFF_AVAILABLE", "CUSTOMER_NOT_FOUND",
             "MAX_ACTIVE_APPOINTMENTS_REACHED", "FORBIDDEN_SCOPE",
             "OVERBOOKING_NOT_ALLOWED", "APPOINTMENT_NOT_FOUND",
             "APPOINTMENT_NOT_MODIFIABLE", "CANCELLATION_WINDOW_PASSED"}

\* "none" while in flight; "FAILED" is a 5xx, or no answer from a dead server.
Replies == Refusals \cup {"none", "OK", "FAILED"}

\* What a running handler holds in its local variables.
Request == [in : Inputs, stage : Stages, now : Nat, reply : Replies,
            staff : Staff \cup {Anyone}, svc : Services \cup {None},
            cust : Customers \cup {None}, fee : Nat]

-----------------------------------------------------------------------------
(* The table *)

\* The predicate of appointments_no_overlap, and of loadBusyBlocks.
Blocks(row) == row.status \in {"booked", "completed"} /\ ~row.overbooked

\* Two rows of one stylist whose blocked ranges overlap.
Clash(m, n) ==
  /\ m.staff = n.staff
  /\ Overlaps(BlockStart(m.start, m.svc), BlockEnd(m.start, m.svc),
              BlockStart(n.start, n.svc), BlockEnd(n.start, n.svc))

Inserted(id, row) == [i \in DOMAIN rows \cup {id} |-> IF i = id THEN row ELSE rows[i]]

\* The row request r inserts: a booking, or the new half of a reschedule.
NewRow(r) ==
  LET moving == req[r].in.kind = "move" IN
  [status |-> "booked", cust |-> req[r].cust, staff |-> req[r].staff,
   start |-> req[r].in.start, svc |-> req[r].svc, fee |-> req[r].fee,
   overbooked |-> ~moving /\ req[r].in.overbook,
   from |-> IF moving THEN req[r].in.appt ELSE None, to |-> None]

\* The reschedules that hold the row lock of the appointment they move.
Movers == {q \in DOMAIN req : req[q].stage \in {"taking", "linking"}}

Locked(a) == \E q \in Movers : req[q].in.appt = a

\* Mutant of Against: the constraint compares the service times instead of the
\* blocked ranges.
AgainstServiceTime(n, own) ==
  {i \in DOMAIN rows \ own :
     /\ Blocks(n) /\ Blocks(rows[i]) /\ rows[i].staff = n.staff
     /\ Overlaps(rows[i].start, EndOf(rows[i].start, rows[i].svc),
                 n.start, EndOf(n.start, n.svc))}

\* Committed rows, other than own, that the constraint sets against row n.
Against(n, own) ==
  {i \in DOMAIN rows \ own : Blocks(n) /\ Blocks(rows[i]) /\ Clash(rows[i], n)}

\* Mutant of Pending: the check is a SELECT, blind to uncommitted inserts.
PendingUnseen(n, r) == {}

\* Uncommitted rows of other transactions that it sets against n.
Pending(n, r) ==
  {q \in Movers \ {r} : req[q].stage = "linking" /\ Blocks(n) /\ Clash(NewRow(q), n)}

\* The write of n succeeds, or fails with 23P01; otherwise it waits for a
\* transaction that has yet to commit or roll back.
Admits(n, own, r) == Against(n, own) = {} /\ Pending(n, r) = {}
Excludes(n, own)  == \E i \in Against(n, own) : ~Locked(i)

-----------------------------------------------------------------------------
(* Helpers of the handlers *)

InFlight == {r \in DOMAIN req : req[r].stage # "done"}

At(r, stage) == r \in DOMAIN req /\ req[r].stage = stage

Goto(r, stage) == req' = [req EXCEPT ![r].stage = stage]

\* A handler that has returned: its locals are gone.
Returned(in, code) == [in |-> in, stage |-> "done", reply |-> code, now |-> 0,
                       staff |-> Anyone, svc |-> None, cust |-> None, fee |-> 0]

Answer(r, code) == req' = [req EXCEPT ![r] = Returned(req[r].in, code)]

Refuse(r, code) == Answer(r, code) /\ UNCHANGED <<rows, customers, clock>>

\* assertModifiable.
NotModifiable(a, now) == rows[a].status # "booked" \/ rows[a].start <= now

\* The first reason a cancellation, or a reschedule, of the row read is refused.
CancelViolation(in, now) ==
  IF in.appt \notin DOMAIN rows        THEN "APPOINTMENT_NOT_FOUND"
  ELSE IF NotModifiable(in.appt, now)  THEN "APPOINTMENT_NOT_MODIFIABLE"
  ELSE IF LateFee(rows[in.appt].start, now) > 0 /\ ~in.ack
                                       THEN "CANCELLATION_WINDOW_PASSED"
  ELSE "none"

MovedService(in) == IF in.svc = None THEN rows[in.appt].svc ELSE in.svc

\* Mutant of MoveViolation: moving late is free of the fee question.
MoveViolationNoFee(in, now) ==
  IF in.appt \notin DOMAIN rows        THEN "APPOINTMENT_NOT_FOUND"
  ELSE IF NotModifiable(in.appt, now)  THEN "APPOINTMENT_NOT_MODIFIABLE"
  ELSE WindowViolation(in.start, MovedService(in), now)

MoveViolation(in, now) ==
  IF in.appt \notin DOMAIN rows        THEN "APPOINTMENT_NOT_FOUND"
  ELSE IF NotModifiable(in.appt, now)  THEN "APPOINTMENT_NOT_MODIFIABLE"
  ELSE LET window == WindowViolation(in.start, MovedService(in), now)
       IN  IF window # "none" THEN window ELSE CancelViolation(in, now)

\* loadBusyBlocks: what blocks within a day of the wanted range.
Busy(start, svc, except) ==
  {i \in DOMAIN rows \ except :
     /\ Blocks(rows[i])
     /\ BlockStart(rows[i].start, rows[i].svc) < BlockEnd(start, svc) + DayLength
     /\ BlockEnd(rows[i].start, rows[i].svc) >= BlockStart(start, svc) - DayLength}

\* resolveStaff, on the rows busy at the time of the read.
Free(s, start, svc, busy) ==
  ~\E i \in busy : Clash(rows[i], [staff |-> s, start |-> start, svc |-> svc])

ActiveStaff == {s \in Staff : StaffDef[s].active}

Rostered(start, svc) ==
  {s \in ActiveStaff : CanPerform(s, svc) /\ Works(s, start, svc)}

\* Mutant of Candidates: "anyone" ignores who is on shift.
CandidatesOffShift(start, svc, busy, overbook) ==
  {s \in ActiveStaff : CanPerform(s, svc) /\ (overbook \/ Free(s, start, svc, busy))}

Candidates(start, svc, busy, overbook) ==
  {s \in Rostered(start, svc) : overbook \/ Free(s, start, svc, busy)}

Load(s, busy) == Cardinality({i \in busy : rows[i].staff = s})

\* Ties are broken by name in the code; the model leaves them open.
LeastLoaded(S, busy) == {s \in S : \A t \in S : Load(s, busy) <= Load(t, busy)}

NamedStaffViolation(s, start, svc, busy, overbook) ==
  IF s \notin ActiveStaff                             THEN "STAFF_NOT_FOUND"
  ELSE IF StaffViolation(s, start, svc) # "none"      THEN StaffViolation(s, start, svc)
  ELSE IF ~overbook /\ ~Free(s, start, svc, busy)     THEN "SLOT_UNAVAILABLE"
  ELSE "none"

-----------------------------------------------------------------------------
(* Requests: one action per step between two awaits *)

\* The part of a handler up to its first read of the appointments table:
\* loadSetup, now, and for a booking the service and validateBookingWindow.
Receive(r) ==
  /\ r \notin DOMAIN req
  /\ Cardinality(InFlight) < MaxInFlight
  /\ \E in \in Inputs :
       LET first   == CASE in.kind = "book"              -> "staffing"
                        [] in.kind \in {"cancel", "move"} -> "reading"
                        [] in.kind = "mark"              -> "marking"
           refusal == IF in.kind = "book" THEN WindowViolation(in.start, in.svc, clock)
                      ELSE "none"
           received == IF refusal # "none" THEN Returned(in, refusal)
                       ELSE [in |-> in, stage |-> first, reply |-> "none",
                             now |-> clock, staff |-> Anyone, cust |-> None,
                             svc |-> IF in.kind = "book" THEN in.svc ELSE None,
                             fee |-> 0]
       IN  req' = [q \in DOMAIN req \cup {r} |-> IF q = r THEN received ELSE req[q]]
  /\ UNCHANGED <<rows, customers, clock>>

\* Read the busy blocks and resolve a concrete stylist (bookings and moves).
PickStaff(r) ==
  /\ At(r, "staffing")
  /\ LET in       == req[r].in
         svc      == req[r].svc
         moving   == in.kind = "move"
         overbook == ~moving /\ in.overbook
         busy     == Busy(in.start, svc, IF moving THEN {in.appt} ELSE {})
         found    == Candidates(in.start, svc, busy, overbook)
         refusal  == IF in.staff # Anyone
                     THEN NamedStaffViolation(in.staff, in.start, svc, busy, overbook)
                     ELSE IF found # {} THEN "none"
                     ELSE IF Rostered(in.start, svc) # {} THEN "SLOT_UNAVAILABLE"
                     ELSE "NO_STAFF_AVAILABLE"
         picks    == IF in.staff # Anyone THEN {in.staff} ELSE LeastLoaded(found, busy)
     IN  \/ /\ refusal # "none"
            /\ Refuse(r, refusal)
         \/ /\ refusal = "none"
            /\ \E s \in picks :
                 req' = [req EXCEPT ![r].staff = s,
                                    ![r].stage = IF moving THEN "releasing" ELSE "customer"]
            /\ UNCHANGED <<rows, customers, clock>>

\* resolveCustomer: committed at once, on its own.
ResolveCustomer(r) ==
  /\ At(r, "customer")
  /\ LET c == req[r].in.cust IN
     \/ /\ req[r].in.byId /\ c \notin customers
        /\ Refuse(r, "CUSTOMER_NOT_FOUND")
     \/ /\ req[r].in.byId => c \in customers
        /\ customers' = customers \cup {c}
        /\ req' = [req EXCEPT ![r].cust = c, ![r].stage = "counting"]
        /\ UNCHANGED <<rows, clock>>

\* countActiveForCustomer.
Active(c) ==
  {i \in DOMAIN rows : rows[i].cust = c /\ rows[i].status = "booked" /\ rows[i].start >= clock}

\* The per-customer cap, then the overbooking rules.
CheckCap(r) ==
  /\ At(r, "counting")
  /\ LET in == req[r].in
         refusal == IF Cardinality(Active(req[r].cust)) >= Policy.maxActive
                    THEN "MAX_ACTIVE_APPOINTMENTS_REACHED"
                    ELSE IF in.overbook /\ ~in.scope THEN "FORBIDDEN_SCOPE"
                    ELSE IF in.overbook /\ ~Policy.allowDoubleBooking
                    THEN "OVERBOOKING_NOT_ALLOWED"
                    ELSE "none"
     IN  IF refusal # "none" THEN Refuse(r, refusal)
         ELSE Goto(r, "inserting") /\ UNCHANGED <<rows, customers, clock>>

\* Mutant of InsertBooking: the constraint violation is swallowed.
InsertBookingNoConflict(r) ==
  /\ At(r, "inserting")
  /\ Admits(NewRow(r), {}, r)
  /\ rows' = Inserted(r, NewRow(r))
  /\ Goto(r, "reading_back")
  /\ UNCHANGED <<customers, clock>>

\* The INSERT of a booking: the overlap check is the write itself.
InsertBooking(r) ==
  /\ At(r, "inserting")
  /\ \/ /\ Admits(NewRow(r), {}, r)
        /\ rows' = Inserted(r, NewRow(r))
        /\ Goto(r, "reading_back")
        /\ UNCHANGED <<customers, clock>>
     \/ /\ Excludes(NewRow(r), {})
        /\ Refuse(r, "SLOT_UNAVAILABLE")

\* Read the appointment to cancel and decide, from that copy of it.
ReadToCancel(r) ==
  /\ At(r, "reading") /\ req[r].in.kind = "cancel"
  /\ LET in      == req[r].in
         refusal == CancelViolation(in, req[r].now)
     IN  \/ /\ refusal # "none"
            /\ Refuse(r, refusal)
         \/ /\ refusal = "none"
            /\ req' = [req EXCEPT ![r].stage = "cancelling",
                                  ![r].fee = LateFee(rows[in.appt].start, req[r].now)]
            /\ UNCHANGED <<rows, customers, clock>>

\* UPDATE ... SET status = 'cancelled' by id; it waits for the row lock.
CancelRow(r) ==
  /\ At(r, "cancelling")
  /\ ~Locked(req[r].in.appt)
  /\ rows' = [rows EXCEPT ![req[r].in.appt].status = "cancelled",
                          ![req[r].in.appt].fee = req[r].fee]
  /\ Goto(r, "reading_back")
  /\ UNCHANGED <<customers, clock>>

\* Read the appointment to move and decide, from that copy of it.
ReadToMove(r) ==
  /\ At(r, "reading") /\ req[r].in.kind = "move"
  /\ LET in      == req[r].in
         refusal == MoveViolation(in, req[r].now)
     IN  \/ /\ refusal # "none"
            /\ Refuse(r, refusal)
         \/ /\ refusal = "none"
            /\ req' = [req EXCEPT ![r].stage = "staffing",
                                  ![r].svc = MovedService(in),
                                  ![r].cust = rows[in.appt].cust,
                                  ![r].fee = LateFee(rows[in.appt].start, req[r].now)]
            /\ UNCHANGED <<rows, customers, clock>>

\* Mutant of ReleaseOld: the release commits on its own.
ReleaseOldAutocommit(r) ==
  /\ At(r, "releasing")
  /\ ~Locked(req[r].in.appt)
  /\ rows' = [rows EXCEPT ![req[r].in.appt].status = "rescheduled"]
  /\ Goto(r, "taking")
  /\ UNCHANGED <<customers, clock>>

\* Statement (a) of the transaction: UPDATE the old row, which locks it.
ReleaseOld(r) ==
  /\ At(r, "releasing")
  /\ ~Locked(req[r].in.appt)
  /\ Goto(r, "taking")
  /\ UNCHANGED <<rows, customers, clock>>

\* Statement (b): INSERT the new row; a conflict rolls (a) back.
TakeNew(r) ==
  /\ At(r, "taking")
  /\ \/ /\ Admits(NewRow(r), {req[r].in.appt}, r)
        /\ Goto(r, "linking")
        /\ UNCHANGED <<rows, customers, clock>>
     \/ /\ Excludes(NewRow(r), {req[r].in.appt})
        /\ Refuse(r, "SLOT_UNAVAILABLE")

\* Statement (c), UPDATE the old row with the link, and COMMIT of all three.
LinkAndCommit(r) ==
  /\ At(r, "linking")
  /\ rows' = [Inserted(r, NewRow(r)) EXCEPT ![req[r].in.appt].status = "rescheduled",
                                            ![req[r].in.appt].to = r]
  /\ Goto(r, "reading_back")
  /\ UNCHANGED <<customers, clock>>

\* POST /v1/appointments/:id/status: one UPDATE by id, whatever the status is.
MarkStatus(r) ==
  /\ At(r, "marking")
  /\ LET a == req[r].in.appt IN
     \/ /\ a \notin DOMAIN rows
        /\ Refuse(r, "APPOINTMENT_NOT_FOUND")
     \/ /\ a \in DOMAIN rows
        /\ ~Locked(a)
        /\ LET marked == [rows[a] EXCEPT !.status = req[r].in.status] IN
           \/ /\ Admits(marked, {a}, r)
              /\ rows' = [rows EXCEPT ![a] = marked]
              /\ Goto(r, "reading_back")
              /\ UNCHANGED <<customers, clock>>
           \/ /\ Excludes(marked, {a})
              /\ Refuse(r, "SLOT_UNAVAILABLE")

\* getAppointment after the write, and the answer.
ReadBack(r) ==
  /\ At(r, "reading_back")
  /\ Answer(r, "OK")
  /\ UNCHANGED <<rows, customers, clock>>

-----------------------------------------------------------------------------
(* The environment *)

\* A statement fails: pool exhausted, statement_timeout, deadlock victim, lost
\* connection.  An open transaction rolls back; committed steps stand.
StatementFails(r) ==
  /\ r \in InFlight
  /\ Answer(r, "FAILED")
  /\ UNCHANGED <<rows, customers, clock>>

\* The API process dies and restarts; every request in flight is abandoned.
Crash ==
  /\ InFlight # {}
  /\ req' = [r \in DOMAIN req |->
               IF r \in InFlight THEN Returned(req[r].in, "FAILED") ELSE req[r]]
  /\ UNCHANGED <<rows, customers, clock>>

Tick ==
  /\ clock < Horizon
  /\ clock' = clock + 1
  /\ UNCHANGED <<rows, customers, req>>

\* Every request is answered and the clock is at its bound.
Quiesced ==
  /\ DOMAIN req = Requests /\ InFlight = {} /\ clock = Horizon
  /\ UNCHANGED vars

-----------------------------------------------------------------------------
(* The specification *)

Init ==
  /\ rows = [i \in {} |-> None]
  /\ customers = KnownCustomers
  /\ req = [i \in {} |-> None]
  /\ clock = 0

Step(r) ==
  \/ PickStaff(r) \/ ResolveCustomer(r) \/ CheckCap(r) \/ InsertBooking(r)
  \/ ReadToCancel(r) \/ CancelRow(r)
  \/ ReadToMove(r) \/ ReleaseOld(r) \/ TakeNew(r) \/ LinkAndCommit(r)
  \/ MarkStatus(r) \/ ReadBack(r)

Next ==
  \/ \E r \in Requests : Receive(r) \/ Step(r) \/ StatementFails(r)
  \/ Crash \/ Tick \/ Quiesced

Spec == Init /\ [][Next]_vars

\* r is waiting for a transaction of another request.
Waiting(r) ==
  \/ At(r, "cancelling") /\ Locked(req[r].in.appt)
  \/ At(r, "releasing") /\ Locked(req[r].in.appt)
  \/ /\ At(r, "inserting")
     /\ ~Admits(NewRow(r), {}, r) /\ ~Excludes(NewRow(r), {})
  \/ /\ At(r, "taking")
     /\ ~Admits(NewRow(r), {req[r].in.appt}, r)
     /\ ~Excludes(NewRow(r), {req[r].in.appt})
  \/ /\ At(r, "marking") /\ req[r].in.appt \in DOMAIN rows
     /\ LET a == req[r].in.appt
            m == [rows[a] EXCEPT !.status = req[r].in.status]
        IN  Locked(a) \/ (~Admits(m, {a}, r) /\ ~Excludes(m, {a}))

\* The event loop runs every handler that can run; Postgres ends every wait,
\* by granting it or by deadlock_timeout and statement_timeout.
Fairness == \A r \in Requests :
  WF_vars(Step(r)) /\ WF_vars(Waiting(r) /\ StatementFails(r))

FairSpec == Spec /\ Fairness

-----------------------------------------------------------------------------
(* Properties *)

\* The rows, the customers and the handlers' locals have the types the schema
\* and the service give them, and a request past a stage holds what that stage
\* resolved.
TypeOK ==
  /\ DOMAIN rows \subseteq Requests /\ rows \in [DOMAIN rows -> Row]
  /\ customers \subseteq Customers
  /\ DOMAIN req \subseteq Requests /\ req \in [DOMAIN req -> Request]
  /\ clock \in Nat

\* No stylist is ever double-booked: two rows that block a stylist's time
\* (booked or completed, not deliberately overbooked) never overlap, buffers
\* included, however many requests raced for the slot.
NoOverlap ==
  \A i, j \in DOMAIN rows :
    i # j /\ Blocks(rows[i]) /\ Blocks(rows[j]) => ~Clash(rows[i], rows[j])

\* A reschedule is atomic: a row that gave up its slot by being rescheduled
\* points to a successor that points back, of the same customer, and no row is
\* the successor of one that still stands.  No crash, conflict or failed
\* statement leaves a customer with neither slot, or with both.
MoveIsAtomic ==
  /\ \A i \in DOMAIN rows : rows[i].status = "rescheduled" =>
       /\ rows[i].to \in DOMAIN rows
       /\ rows[rows[i].to].from = i
       /\ rows[rows[i].to].cust = rows[i].cust
  /\ \A j \in DOMAIN rows : rows[j].from # None =>
       rows[j].from \in DOMAIN rows /\ rows[rows[j].from].status # "booked"

\* A late-change fee is on a row only if a request that was told of it and
\* acknowledged it cancelled that row, or made it by moving another.
FeeWasAcknowledged ==
  \A i \in DOMAIN rows : rows[i].fee > 0 =>
    \E r \in DOMAIN req :
      /\ req[r].in.kind \in {"cancel", "move"}
      /\ req[r].in.ack
      /\ r = i \/ req[r].in.appt = i

\* Every row is one a person can honour: inside opening hours, in a shift of a
\* stylist who does that service, and overbooked only where the salon allows
\* it and the caller's credential did; whichever path picked the stylist.
RowsAreHonourable ==
  \A i \in DOMAIN rows :
    LET row == rows[i] IN
    /\ Fits(row.start, EndOf(row.start, row.svc), OpenIntervals(DayOf(row.start)))
    /\ row.staff \in Rostered(row.start, row.svc)
    /\ row.overbooked => Policy.allowDoubleBooking /\ req[i].in.scope

\* The range of a stylist's time a row holds.
HoldOf(row) == [staff |-> row.staff, start |-> BlockStart(row.start, row.svc),
                end |-> BlockEnd(row.start, row.svc)]

Held == [i \in {j \in DOMAIN rows : Blocks(rows[j])} |-> HoldOf(rows[i])]

Ledger == INSTANCE SlotLedger WITH Ids <- Requests, held <- Held

\* The diary implements the ledger of held ranges: the rows that block a
\* stylist's time are its holds.  Every step of every request takes a free
\* range, gives one back, exchanges one for another at once, or changes none.
LedgerSpec == Ledger!Spec

\* The inductive strengthening of NoOverlap and MoveIsAtomic.  What the handler
\* of request r, whose locals are q, has established at its stage:
Fit(r, q) ==
  /\ q.stage \in {"customer", "counting", "inserting"} => q.in.kind = "book"
  /\ q.stage \in {"releasing", "taking", "linking"} => q.in.kind = "move"
  /\ q.stage = "staffing" => q.in.kind \in {"book", "move"}
  /\ q.stage = "cancelling" => q.in.kind = "cancel" /\ q.in.appt \in DOMAIN rows
  /\ q.stage = "marking" => q.in.kind = "mark"
  /\ q.stage \in {"staffing", "customer", "counting", "inserting", "releasing",
                   "taking", "linking"} => q.svc \in Services
  /\ q.stage \in {"customer", "counting", "inserting", "releasing", "taking",
                   "linking"} => q.staff \in Staff
  /\ q.stage \in {"counting", "inserting"} => q.cust \in Customers
  /\ q.stage \in {"staffing", "releasing", "taking", "linking"} /\ q.in.kind = "move" =>
       q.in.appt \in DOMAIN rows /\ q.cust = rows[q.in.appt].cust
  /\ q.stage \notin {"reading_back", "done"} => r \notin DOMAIN rows

StagesFit == DOMAIN rows \subseteq DOMAIN req /\ \A r \in DOMAIN req : Fit(r, req[r])

\* A row is locked by one transaction at a time.
LocksAreExclusive ==
  \A q, p \in Movers : q # p => req[q].in.appt # req[p].in.appt

\* An uncommitted insert clashes with no other row, committed or not, except
\* the one it replaces.
PendingIsClear ==
  \A q \in Movers : req[q].stage = "linking" =>
    /\ \A i \in DOMAIN rows \ {req[q].in.appt} :
         Blocks(rows[i]) => ~Clash(rows[i], NewRow(q))
    /\ \A p \in Movers \ {q} : req[p].stage = "linking" => ~Clash(NewRow(p), NewRow(q))

IndInv ==
  TypeOK /\ StagesFit /\ LocksAreExclusive /\ PendingIsClear /\ NoOverlap /\ MoveIsAtomic

\* Every request received is answered, whatever it waits for.
EveryRequestIsAnswered ==
  \A r \in Requests : (r \in InFlight) ~> (r \in DOMAIN req \ InFlight)

Succeeded(r) == r \in DOMAIN req /\ req[r].reply = "OK"

\* An appointment that a request cancelled or moved is over: no other request
\* is told it cancelled or moved it too (assertModifiable's refusals).
ModifiedAtMostOnce ==
  \A r, q \in Requests :
    /\ r # q /\ Succeeded(r) /\ Succeeded(q)
    /\ req[r].in.kind \in {"cancel", "move"} /\ req[q].in.kind \in {"cancel", "move"}
    => req[r].in.appt # req[q].in.appt
=============================================================================
