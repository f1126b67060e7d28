----------------------------- MODULE DiaryProofs -----------------------------
(***************************************************************************)
(* Theorems about Diary for every catalogue, calendar, policy and set of   *)
(* requests: IndInv is inductive, hence no stylist is double-booked and    *)
(* every reschedule is atomic, and the diary implements SlotLedger. Each   *)
(* row is, besides, one that a person can honour, and no fee is charged    *)
(* that was not acknowledged.  Neither follows from the step that writes   *)
(* the row: the rules were checked several steps before, and RulesInv      *)
(* carries what they established.                                          *)
(***************************************************************************)
EXTENDS Diary, TLAPS

\* Two rows clash whichever is named first.
LEMMA ClashIsSymmetric ==
  ASSUME NEW m, NEW n, Clash(m, n)
  PROVE  Clash(n, m)
  BY DEF Clash, Overlaps

\* Every input has one of the four kinds, with the fields of that kind.
LEMMA InputFields ==
  ASSUME NEW in \in Inputs
  PROVE  /\ in.kind = "book" => in \in BookInput
         /\ in.kind = "cancel" => in \in CancelInput
         /\ in.kind = "move" => in \in MoveInput
         /\ in.kind = "mark" => in \in MarkInput
         /\ in.kind \in {"book", "cancel", "move", "mark"}
  BY DiaryAssumption DEF BookInput, CancelInput, MoveInput, MarkInput

\* A late-change fee is an amount.
LEMMA FeeIsNatural ==
  ASSUME NEW start, NEW now
  PROVE  LateFee(start, now) \in Nat
  BY CatalogueAssumption DEF LateFee

\* A handler that has returned has the type of a request and fits any table.
LEMMA ReturnedFits ==
  ASSUME NEW in \in Inputs, NEW code \in Replies, NEW r
  PROVE  /\ Returned(in, code) \in Request
         /\ Fit(r, Returned(in, code))
         /\ Returned(in, code).stage = "done"
         /\ Returned(in, code).in = in
  BY DEF Returned, Request, Stages, Fit

\* The row a booking or a move inserts has the type of a row.
LEMMA NewRowType ==
  ASSUME TypeOK, NEW r \in DOMAIN req, Fit(r, req[r]),
         req[r].stage \in {"inserting", "taking", "linking"}
  PROVE  /\ NewRow(r) \in Row
         /\ NewRow(r).status = "booked"
  <1>1. req[r] \in Request
    BY DEF TypeOK
  <1>2. req[r].cust \in Customers /\ req[r].staff \in Staff /\ req[r].svc \in Services
    <2>1. CASE req[r].stage = "inserting"
      BY <2>1 DEF Fit
    <2>2. CASE req[r].stage \in {"taking", "linking"}
      BY <2>2, <1>1 DEF Fit, TypeOK, Row
    <2>3. QED
      BY <2>1, <2>2
  <1>3. req[r].in \in Inputs /\ req[r].fee \in Nat
    BY <1>1 DEF Request
  <1>4. CASE req[r].in.kind = "move"
    <2>1. req[r].in \in MoveInput
      BY <1>3, <1>4, InputFields
    <2>2. QED
      BY <1>2, <1>3, <1>4, <2>1 DEF NewRow, Row, Statuses, MoveInput
  <1>5. CASE req[r].in.kind # "move"
    <2>1. req[r].in \in BookInput
      BY <1>3, <1>5, InputFields DEF Fit
    <2>2. QED
      BY <1>2, <1>3, <1>5, <2>1 DEF NewRow, Row, Statuses, BookInput
  <1>6. QED
    BY <1>4, <1>5

-----------------------------------------------------------------------------
(* Steps that leave the appointments alone *)

\* A step of request r that writes no row and takes no lock keeps IndInv: it
\* may only replace r's locals by x, of a type and at a stage that fit.
LEMMA LocalStep ==
  ASSUME IndInv, NEW r \in DOMAIN req, NEW x \in Request,
         x.in = req[r].in, Fit(r, x), x.stage \notin {"taking", "linking"},
         req' = [req EXCEPT ![r] = x],
         UNCHANGED <<rows, clock>>, customers' \subseteq Customers
  PROVE  IndInv'
  <1> USE DEF IndInv
  <1>1. TypeOK'
    BY DEF TypeOK
  <1>2. StagesFit'
    BY DEF StagesFit, Fit, TypeOK
  <1>3. Movers' \subseteq Movers /\ \A q \in Movers' : req'[q] = req[q] /\ NewRow(q)' = NewRow(q)
    BY DEF Movers, NewRow, TypeOK
  <1>4. LocksAreExclusive'
    BY <1>3 DEF LocksAreExclusive
  <1>5. PendingIsClear'
    BY <1>3 DEF PendingIsClear, Blocks, Clash
  <1>6. NoOverlap'
    BY DEF NoOverlap, Blocks, Clash
  <1>7. MoveIsAtomic'
    BY DEF MoveIsAtomic
  <1>8. QED
    BY <1>1, <1>2, <1>4, <1>5, <1>6, <1>7

\* Answering is such a step.
LEMMA AnswerStep ==
  ASSUME IndInv, NEW r \in DOMAIN req, NEW code \in Replies,
         Answer(r, code), UNCHANGED <<rows, customers, clock>>
  PROVE  IndInv'
  <1>1. req[r].in \in Inputs
    BY DEF IndInv, TypeOK, Request
  <1>2. QED
    BY <1>1, ReturnedFits, LocalStep DEF Answer, IndInv, TypeOK

LEMMA RefuseStep ==
  ASSUME IndInv, NEW r \in DOMAIN req, NEW code \in Replies, Refuse(r, code)
  PROVE  IndInv'
  BY AnswerStep DEF Refuse

-----------------------------------------------------------------------------
(* Each action keeps IndInv *)

LEMMA ReceiveKeepsIndInv ==
  ASSUME IndInv, NEW r \in Requests, Receive(r)
  PROVE  IndInv'
  <1> USE DEF IndInv
  <1>1. PICK in \in Inputs, x \in Request :
          /\ r \notin DOMAIN req
          /\ x.in = in
          /\ Fit(r, x)
          /\ x.stage \notin {"taking", "linking"}
          /\ req' = [q \in DOMAIN req \cup {r} |-> IF q = r THEN x ELSE req[q]]
          /\ UNCHANGED <<rows, customers, clock>>
    <2>1. PICK in \in Inputs :
            LET first   == CASE in.kind = "book"               -> "staffing"
                             [] in.kind \in {"cancel", "move"} -> "reading"
                             [] in.kind = "mark"               -> "marking"
                refusal == IF in.kind = "book" THEN WindowViolation(in.start, in.svc, clock)
                           ELSE "none"
                received == IF refusal # "none" THEN Returned(in, refusal)
                            ELSE [in |-> in, stage |-> first, reply |-> "none",
                                  now |-> clock, staff |-> Anyone, cust |-> None,
                                  svc |-> IF in.kind = "book" THEN in.svc ELSE None,
                                  fee |-> 0]
            IN  req' = [q \in DOMAIN req \cup {r} |-> IF q = r THEN received ELSE req[q]]
      BY DEF Receive
    <2> DEFINE first   == CASE in.kind = "book"               -> "staffing"
                            [] in.kind \in {"cancel", "move"} -> "reading"
                            [] in.kind = "mark"               -> "marking"
               refusal == IF in.kind = "book" THEN WindowViolation(in.start, in.svc, clock)
                          ELSE "none"
               running == [in |-> in, stage |-> first, reply |-> "none",
                           now |-> clock, staff |-> Anyone, cust |-> None,
                           svc |-> IF in.kind = "book" THEN in.svc ELSE None,
                           fee |-> 0]
    <2>2. r \notin DOMAIN req /\ r \notin DOMAIN rows /\ UNCHANGED <<rows, customers, clock>>
      BY DEF Receive, StagesFit
    <2>3. CASE refusal # "none"
      <3>1. refusal \in Replies
        BY DEF WindowViolation, Replies, Refusals
      <3>2. /\ Returned(in, refusal) \in Request
            /\ Fit(r, Returned(in, refusal))
            /\ Returned(in, refusal).stage = "done"
            /\ Returned(in, refusal).in = in
        BY <3>1, ReturnedFits
      <3>3. req' = [q \in DOMAIN req \cup {r} |-> IF q = r THEN Returned(in, refusal) ELSE req[q]]
        BY <2>1, <2>3
      <3>4. QED
        BY <2>2, <3>2, <3>3
    <2>4. CASE refusal = "none"
      <3>1. /\ first \in {"staffing", "reading", "marking"}
            /\ first = "staffing" <=> in.kind = "book"
            /\ first = "marking" => in.kind = "mark"
        BY InputFields
      <3>2. in.kind = "book" => in.svc \in Services
        BY InputFields DEF BookInput
      <3>3. clock \in Nat
        BY DEF TypeOK
      <3>4. running \in Request
        BY <3>1, <3>2, <3>3 DEF Request, Stages, Replies
      <3>5. Fit(r, running)
        BY <3>1, <3>2, <2>2 DEF Fit
      <3>6. req' = [q \in DOMAIN req \cup {r} |-> IF q = r THEN running ELSE req[q]]
        BY <2>1, <2>4
      <3>7. running.in = in /\ running.stage \notin {"taking", "linking"}
        BY <3>1
      <3>8. QED
        BY <2>2, <3>4, <3>5, <3>6, <3>7
    <2>5. QED
      BY <2>3, <2>4
  <1>2. TypeOK'
    BY <1>1 DEF TypeOK
  <1>3. StagesFit'
    BY <1>1 DEF StagesFit, Fit, TypeOK
  <1>4. /\ Movers' \subseteq Movers
        /\ \A q \in Movers' : req'[q] = req[q] /\ NewRow(q)' = NewRow(q)
        /\ UNCHANGED rows
    BY <1>1 DEF Movers, NewRow, TypeOK
  <1>5. LocksAreExclusive'
    BY <1>4 DEF LocksAreExclusive
  <1>6. PendingIsClear'
    BY <1>4 DEF PendingIsClear, Blocks, Clash
  <1>7. NoOverlap' /\ MoveIsAtomic'
    BY <1>1 DEF NoOverlap, MoveIsAtomic, Blocks, Clash
  <1>8. QED
    BY <1>2, <1>3, <1>5, <1>6, <1>7

LEMMA PickStaffKeepsIndInv ==
  ASSUME IndInv, NEW r \in Requests, PickStaff(r)
  PROVE  IndInv'
  <1> DEFINE in      == req[r].in
             svc      == req[r].svc
             moving   == in.kind = "move"
             overbook == ~moving /\ in.overbook
             busy     == Busy(in.start, svc, IF moving THEN {in.appt} ELSE {})
             found    == Candidates(in.start, svc, busy, overbook)
             refusal  == IF in.staff # Anyone
                         THEN NamedStaffViolation(in.staff, in.start, svc, busy, overbook)
                         ELSE IF found # {} THEN "none"
                         ELSE IF Rostered(in.start, svc) # {} THEN "SLOT_UNAVAILABLE"
                         ELSE "NO_STAFF_AVAILABLE"
             picks    == IF in.staff # Anyone THEN {in.staff} ELSE LeastLoaded(found, busy)
  <1>1. r \in DOMAIN req /\ req[r].stage = "staffing"
    BY DEF PickStaff, At
  <1>2. req[r] \in Request /\ Fit(r, req[r])
    BY <1>1 DEF IndInv, TypeOK, StagesFit
  <1>3. CASE refusal # "none" /\ Refuse(r, refusal)
    <2>1. refusal \in Replies
      BY DEF NamedStaffViolation, StaffViolation, Replies, Refusals
    <2>2. QED
      BY <1>1, <1>3, <2>1, RefuseStep
  <1>4. CASE /\ refusal = "none"
             /\ \E s \in picks :
                  req' = [req EXCEPT ![r].staff = s,
                                     ![r].stage = IF moving THEN "releasing" ELSE "customer"]
             /\ UNCHANGED <<rows, customers, clock>>
    <2>1. PICK s \in picks :
            req' = [req EXCEPT ![r].staff = s,
                               ![r].stage = IF moving THEN "releasing" ELSE "customer"]
      BY <1>4
    <2>2. s \in Staff
      BY <1>4 DEF NamedStaffViolation, LeastLoaded, Candidates, Rostered, ActiveStaff
    <2> DEFINE x == [req[r] EXCEPT !.staff = s,
                                   !.stage = IF moving THEN "releasing" ELSE "customer"]
    <2>3. x \in Request /\ x.in = req[r].in /\ x.stage \notin {"taking", "linking"}
      BY <1>2, <2>2 DEF Request, Stages
    <2>4. Fit(r, x)
      BY <1>1, <1>2, <2>2 DEF Fit, Request
    <2>5. req' = [req EXCEPT ![r] = x]
      BY <2>1, <1>1 DEF IndInv, TypeOK
    <2>6. customers' \subseteq Customers
      BY <1>4 DEF IndInv, TypeOK
    <2> HIDE DEF x
    <2>7. QED
      BY <1>1, <1>4, <2>3, <2>4, <2>5, <2>6, LocalStep
  <1>5. QED
    BY <1>3, <1>4 DEF PickStaff

LEMMA ResolveCustomerKeepsIndInv ==
  ASSUME IndInv, NEW r \in Requests, ResolveCustomer(r)
  PROVE  IndInv'
  <1>1. r \in DOMAIN req /\ req[r].stage = "customer"
    BY DEF ResolveCustomer, At
  <1>2. req[r] \in Request /\ Fit(r, req[r])
    BY <1>1 DEF IndInv, TypeOK, StagesFit
  <1>3. CASE Refuse(r, "CUSTOMER_NOT_FOUND")
    BY <1>1, <1>3, RefuseStep DEF Replies, Refusals
  <1>4. CASE /\ customers' = customers \cup {req[r].in.cust}
             /\ req' = [req EXCEPT ![r].cust = req[r].in.cust, ![r].stage = "counting"]
             /\ UNCHANGED <<rows, clock>>
    <2> DEFINE x == [req[r] EXCEPT !.cust = req[r].in.cust, !.stage = "counting"]
    <2>1. req[r].in \in BookInput
      BY <1>1, <1>2, InputFields DEF Fit, Request
    <2>2. x \in Request /\ x.in = req[r].in /\ x.stage = "counting" /\ Fit(r, x)
      BY <1>1, <1>2, <2>1 DEF Fit, Request, Stages, BookInput
    <2>3. req' = [req EXCEPT ![r] = x]
      BY <1>1, <1>4 DEF IndInv, TypeOK
    <2>4. customers' \subseteq Customers
      BY <1>4, <2>1 DEF IndInv, TypeOK, BookInput
    <2> HIDE DEF x
    <2>5. QED
      BY <1>1, <1>4, <2>2, <2>3, <2>4, LocalStep
  <1>5. QED
    BY <1>3, <1>4 DEF ResolveCustomer

\* A step of request r that only moves it from one stage to another that fits.
LEMMA GotoStep ==
  ASSUME IndInv, NEW r \in DOMAIN req, NEW stage \in Stages,
         stage \notin {"taking", "linking"},
         Goto(r, stage), Fit(r, [req[r] EXCEPT !.stage = stage]),
         UNCHANGED <<rows, customers, clock>>
  PROVE  IndInv'
  <1> DEFINE x == [req[r] EXCEPT !.stage = stage]
  <1>1. x \in Request /\ x.in = req[r].in /\ x.stage = stage
    BY DEF IndInv, TypeOK, Request
  <1>2. req' = [req EXCEPT ![r] = x]
    BY DEF Goto, IndInv, TypeOK
  <1>3. customers' \subseteq Customers
    BY DEF IndInv, TypeOK
  <1> HIDE DEF x
  <1>4. QED
    BY <1>1, <1>2, <1>3, LocalStep DEF x

LEMMA CheckCapKeepsIndInv ==
  ASSUME IndInv, NEW r \in Requests, CheckCap(r)
  PROVE  IndInv'
  <1>1. r \in DOMAIN req /\ req[r].stage = "counting"
    BY DEF CheckCap, At
  <1>2. req[r] \in Request /\ Fit(r, req[r])
    BY <1>1 DEF IndInv, TypeOK, StagesFit
  <1>3. \/ \E code \in Replies : Refuse(r, code)
        \/ Goto(r, "inserting") /\ UNCHANGED <<rows, customers, clock>>
    BY DEF CheckCap, Replies, Refusals
  <1>4. CASE \E code \in Replies : Refuse(r, code)
    BY <1>1, <1>4, RefuseStep
  <1>5. CASE Goto(r, "inserting") /\ UNCHANGED <<rows, customers, clock>>
    <2>1. Fit(r, [req[r] EXCEPT !.stage = "inserting"])
      BY <1>1, <1>2 DEF Fit, Request
    <2>2. QED
      BY <1>1, <1>5, <2>1, GotoStep DEF Stages
  <1>6. QED
    BY <1>3, <1>4, <1>5

LEMMA ReadToCancelKeepsIndInv ==
  ASSUME IndInv, NEW r \in Requests, ReadToCancel(r)
  PROVE  IndInv'
  <1> DEFINE in      == req[r].in
             refusal == CancelViolation(in, req[r].now)
             fee     == LateFee(rows[in.appt].start, req[r].now)
  <1>1. r \in DOMAIN req /\ req[r].stage = "reading" /\ in.kind = "cancel"
    BY DEF ReadToCancel, At
  <1>2. req[r] \in Request /\ Fit(r, req[r])
    BY <1>1 DEF IndInv, TypeOK, StagesFit
  <1>3. CASE refusal # "none" /\ Refuse(r, refusal)
    <2>1. refusal \in Replies
      BY DEF CancelViolation, Replies, Refusals
    <2>2. QED
      BY <1>1, <1>3, <2>1, RefuseStep
  <1>4. CASE /\ refusal = "none"
             /\ req' = [req EXCEPT ![r].stage = "cancelling", ![r].fee = fee]
             /\ UNCHANGED <<rows, customers, clock>>
    <2> DEFINE x == [req[r] EXCEPT !.stage = "cancelling", !.fee = fee]
    <2>1. in.appt \in DOMAIN rows
      BY <1>4 DEF CancelViolation
    <2>2. fee \in Nat
      BY FeeIsNatural
    <2>3. x \in Request /\ x.in = in /\ x.stage \notin {"taking", "linking"}
      BY <1>2, <2>2 DEF Request, Stages
    <2>4. Fit(r, x)
      BY <1>1, <1>2, <2>1 DEF Fit, Request
    <2>5. req' = [req EXCEPT ![r] = x] /\ customers' \subseteq Customers
      BY <1>1, <1>4 DEF IndInv, TypeOK
    <2> HIDE DEF x
    <2>6. QED
      BY <1>1, <1>4, <2>3, <2>4, <2>5, LocalStep
  <1>5. QED
    BY <1>3, <1>4 DEF ReadToCancel

LEMMA ReadToMoveKeepsIndInv ==
  ASSUME IndInv, NEW r \in Requests, ReadToMove(r)
  PROVE  IndInv'
  <1> DEFINE in      == req[r].in
             refusal == MoveViolation(in, req[r].now)
             svc     == MovedService(in)
             cust    == rows[in.appt].cust
             fee     == LateFee(rows[in.appt].start, req[r].now)
  <1>1. r \in DOMAIN req /\ req[r].stage = "reading" /\ in.kind = "move"
    BY DEF ReadToMove, At
  <1>2. req[r] \in Request /\ Fit(r, req[r])
    BY <1>1 DEF IndInv, TypeOK, StagesFit
  <1>3. CASE refusal # "none" /\ Refuse(r, refusal)
    <2>1. refusal \in Replies
      BY DEF MoveViolation, WindowViolation, CancelViolation, Replies, Refusals
    <2>2. QED
      BY <1>1, <1>3, <2>1, RefuseStep
  <1>4. CASE /\ refusal = "none"
             /\ req' = [req EXCEPT ![r].stage = "staffing", ![r].svc = svc,
                                   ![r].cust = cust, ![r].fee = fee]
             /\ UNCHANGED <<rows, customers, clock>>
    <2> DEFINE x == [req[r] EXCEPT !.stage = "staffing", !.svc = svc,
                                   !.cust = cust, !.fee = fee]
    <2>1. in.appt \in DOMAIN rows
      BY <1>4 DEF MoveViolation
    <2>2. rows[in.appt] \in Row
      BY <2>1 DEF IndInv, TypeOK
    <2>3. cust \in Customers
      BY <2>2 DEF Row
    <2>4. svc \in Services
      BY <1>1, <1>2, <2>2, InputFields DEF MovedService, Row, Request, MoveInput
    <2>5. fee \in Nat
      BY FeeIsNatural
    <2> HIDE DEF svc, cust, fee
    <2>6. x \in Request /\ x.in = in /\ x.stage \notin {"taking", "linking"}
      BY <1>2, <2>3, <2>4, <2>5 DEF Request, Stages
    <2>7. Fit(r, x)
      BY <1>1, <1>2, <2>1, <2>4 DEF Fit, Request, cust
    <2>8. req' = [req EXCEPT ![r] = x] /\ customers' \subseteq Customers
      BY <1>1, <1>4 DEF IndInv, TypeOK
    <2> HIDE DEF x
    <2>9. QED
      BY <1>1, <1>4, <2>6, <2>7, <2>8, LocalStep
  <1>5. QED
    BY <1>3, <1>4 DEF ReadToMove

-----------------------------------------------------------------------------
(* Steps of a reschedule's transaction, and steps that write *)

LEMMA ReleaseOldKeepsIndInv ==
  ASSUME IndInv, NEW r \in Requests, ReleaseOld(r)
  PROVE  IndInv'
  <1> USE DEF IndInv
  <1>1. /\ r \in DOMAIN req /\ req[r].stage = "releasing"
        /\ ~Locked(req[r].in.appt)
        /\ req' = [req EXCEPT ![r].stage = "taking"]
        /\ UNCHANGED <<rows, customers, clock>>
    BY DEF ReleaseOld, At, Goto
  <1>2. req[r] \in Request /\ Fit(r, req[r])
    BY <1>1 DEF TypeOK, StagesFit
  <1>3. TypeOK'
    BY <1>1, <1>2 DEF TypeOK, Request, Stages
  <1>4. StagesFit'
    <2>1. Fit(r, req[r])'
      BY <1>1, <1>2 DEF Fit, Request, TypeOK
    <2>2. \A q \in DOMAIN req \ {r} : req'[q] = req[q] /\ Fit(q, req[q])'
      BY <1>1 DEF StagesFit, Fit
    <2>3. QED
      BY <1>1, <2>1, <2>2 DEF StagesFit
  <1>5. /\ Movers' = Movers \cup {r}
        /\ \A q \in Movers' : req'[q].in = req[q].in /\ NewRow(q)' = NewRow(q)
        /\ \A q \in Movers' : req'[q].stage = "linking" => q \in Movers /\ req[q].stage = "linking"
        /\ UNCHANGED rows
    BY <1>1, <1>2 DEF Movers, NewRow, TypeOK, Request
  <1>6. LocksAreExclusive'
    BY <1>1, <1>5 DEF LocksAreExclusive, Locked
  <1>7. PendingIsClear'
    BY <1>5 DEF PendingIsClear, Blocks, Clash
  <1>8. NoOverlap' /\ MoveIsAtomic'
    BY <1>1 DEF NoOverlap, MoveIsAtomic, Blocks, Clash
  <1>9. QED
    BY <1>3, <1>4, <1>6, <1>7, <1>8

\* A reschedule inserts a row that blocks time, where nothing is against it.
LEMMA TakeNewKeepsIndInv ==
  ASSUME IndInv, NEW r \in Requests, TakeNew(r)
  PROVE  IndInv'
  <1> USE DEF IndInv
  <1>1. r \in DOMAIN req /\ req[r].stage = "taking" /\ r \in Movers
    BY DEF TakeNew, At, Movers
  <1>2. req[r] \in Request /\ Fit(r, req[r])
    BY <1>1 DEF TypeOK, StagesFit
  <1>3. CASE Refuse(r, "SLOT_UNAVAILABLE")
    BY <1>1, <1>3, RefuseStep DEF Replies, Refusals
  <1>4. CASE /\ Admits(NewRow(r), {req[r].in.appt}, r)
             /\ Goto(r, "linking")
             /\ UNCHANGED <<rows, customers, clock>>
    <2>1. req' = [req EXCEPT ![r].stage = "linking"] /\ UNCHANGED <<rows, customers, clock>>
      BY <1>4 DEF Goto
    <2>2. TypeOK'
      BY <1>2, <2>1 DEF TypeOK, Request, Stages
    <2>3. StagesFit'
      <3>1. Fit(r, req[r])'
        BY <1>1, <1>2, <2>1 DEF Fit, Request, TypeOK
      <3>2. \A q \in DOMAIN req \ {r} : req'[q] = req[q] /\ Fit(q, req[q])'
        BY <2>1 DEF StagesFit, Fit
      <3>3. QED
        BY <2>1, <3>1, <3>2 DEF StagesFit
    <2>4. /\ Movers' = Movers
          /\ \A q \in Movers : req'[q].in = req[q].in /\ NewRow(q)' = NewRow(q)
          /\ \A q \in Movers \ {r} : req'[q].stage = req[q].stage
          /\ UNCHANGED rows
      BY <1>1, <1>2, <2>1 DEF Movers, NewRow, TypeOK, Request
    <2>5. LocksAreExclusive'
      BY <2>4 DEF LocksAreExclusive
    <2>6. Blocks(NewRow(r))
      BY <1>1, <1>2 DEF Blocks, NewRow, Fit
    <2>7. \A i \in DOMAIN rows \ {req[r].in.appt} :
            Blocks(rows[i]) => ~Clash(rows[i], NewRow(r))
      BY <1>4, <2>6 DEF Admits, Against
    <2>8. \A q \in Movers \ {r} : req[q].stage = "linking" =>
            ~Clash(NewRow(q), NewRow(r)) /\ ~Clash(NewRow(r), NewRow(q))
      BY <1>4, <2>6, ClashIsSymmetric DEF Admits, Pending
    <2>9. PendingIsClear'
      <3> SUFFICES ASSUME NEW q \in Movers, req'[q].stage = "linking"
                   PROVE  /\ \A i \in DOMAIN rows \ {req[q].in.appt} :
                                Blocks(rows[i]) => ~Clash(rows[i], NewRow(q))
                          /\ \A p \in Movers \ {q} :
                                req'[p].stage = "linking" => ~Clash(NewRow(p), NewRow(q))
        BY <2>4 DEF PendingIsClear, Blocks, Clash
      <3>1. CASE q = r
        BY <2>4, <2>7, <2>8, <3>1
      <3>2. CASE q # r
        BY <2>4, <2>8, <3>2 DEF PendingIsClear
      <3>3. QED
        BY <3>1, <3>2
    <2>10. NoOverlap' /\ MoveIsAtomic'
      BY <2>1 DEF NoOverlap, MoveIsAtomic, Blocks, Clash
    <2>11. QED
      BY <2>2, <2>3, <2>5, <2>9, <2>10
  <1>5. QED
    BY <1>3, <1>4 DEF TakeNew

\* The locals of the other requests, and the rows they are about to insert, are
\* untouched by a step that takes r to a stage outside a transaction.
LEMMA OthersUntouched ==
  ASSUME TypeOK, NEW r \in DOMAIN req, NEW stage \in Stages,
         stage \notin {"taking", "linking"}, Goto(r, stage)
  PROVE  /\ DOMAIN req' = DOMAIN req
         /\ req'[r] = [req[r] EXCEPT !.stage = stage]
         /\ \A q \in DOMAIN req \ {r} : req'[q] = req[q]
         /\ Movers' = Movers \ {r}
         /\ \A q \in Movers' : req'[q] = req[q] /\ NewRow(q)' = NewRow(q)
  <1>1. /\ DOMAIN req' = DOMAIN req
        /\ req'[r] = [req[r] EXCEPT !.stage = stage]
        /\ \A q \in DOMAIN req \ {r} : req'[q] = req[q]
    BY DEF Goto, TypeOK
  <1>2. req'[r].stage = stage
    BY <1>1 DEF TypeOK, Request
  <1>3. QED
    BY <1>1, <1>2 DEF Movers, NewRow

LEMMA InsertBookingKeepsIndInv ==
  ASSUME IndInv, NEW r \in Requests, InsertBooking(r)
  PROVE  IndInv'
  <1> USE DEF IndInv
  <1>1. r \in DOMAIN req /\ req[r].stage = "inserting"
    BY DEF InsertBooking, At
  <1>2. req[r] \in Request /\ Fit(r, req[r])
    BY <1>1 DEF TypeOK, StagesFit
  <1>3. CASE Refuse(r, "SLOT_UNAVAILABLE")
    BY <1>1, <1>3, RefuseStep DEF Replies, Refusals
  <1>4. CASE /\ Admits(NewRow(r), {}, r)
             /\ rows' = Inserted(r, NewRow(r))
             /\ Goto(r, "reading_back")
             /\ UNCHANGED <<customers, clock>>
    <2>1. r \notin DOMAIN rows /\ req[r].in.kind = "book"
      BY <1>1, <1>2 DEF Fit
    <2>2. NewRow(r) \in Row /\ NewRow(r).from = None /\ NewRow(r).status = "booked"
      BY <1>1, <1>2, <2>1, NewRowType DEF NewRow
    <2>3. /\ DOMAIN rows' = DOMAIN rows \cup {r}
          /\ rows'[r] = NewRow(r)
          /\ \A i \in DOMAIN rows : rows'[i] = rows[i]
      BY <1>4, <2>1 DEF Inserted
    <2>4. /\ DOMAIN req' = DOMAIN req
          /\ req'[r] = [req[r] EXCEPT !.stage = "reading_back"]
          /\ \A q \in DOMAIN req \ {r} : req'[q] = req[q]
          /\ Movers' = Movers \ {r}
          /\ \A q \in Movers' : req'[q] = req[q] /\ NewRow(q)' = NewRow(q)
      BY <1>1, <1>4, OthersUntouched DEF Stages
    <2>5. TypeOK'
      <3>1. rows' = [i \in DOMAIN rows' |-> rows'[i]] /\ \A i \in DOMAIN rows' : rows'[i] \in Row
        BY <1>4, <2>2, <2>3 DEF Inserted, TypeOK
      <3>2. rows' \in [DOMAIN rows' -> Row] /\ DOMAIN rows' \subseteq Requests
        BY <2>3, <3>1 DEF TypeOK
      <3>3. req' \in [DOMAIN req' -> Request]
        BY <1>2, <1>4 DEF Goto, TypeOK, Request, Stages
      <3>4. QED
        BY <1>4, <2>4, <3>2, <3>3 DEF TypeOK
    <2>6. StagesFit'
      <3>1. Fit(r, req[r])'
        BY <1>1, <1>2, <2>4 DEF Fit, Request
      <3>2. \A q \in DOMAIN req \ {r} : Fit(q, req[q])'
        BY <2>3, <2>4 DEF StagesFit, Fit
      <3>3. QED
        BY <1>1, <2>3, <2>4, <3>1, <3>2 DEF StagesFit
    <2>7. LocksAreExclusive'
      BY <2>4 DEF LocksAreExclusive
    <2>8. PendingIsClear'
      <3> SUFFICES ASSUME NEW q \in Movers \ {r}, req[q].stage = "linking"
                   PROVE  /\ \A i \in DOMAIN rows' \ {req[q].in.appt} :
                                Blocks(rows'[i]) => ~Clash(rows'[i], NewRow(q))
                          /\ \A p \in Movers \ {r, q} :
                                req[p].stage = "linking" => ~Clash(NewRow(p), NewRow(q))
        BY <2>4 DEF PendingIsClear, Blocks, Clash
      <3>1. Blocks(NewRow(r)) => ~Clash(NewRow(r), NewRow(q))
        BY <1>4, ClashIsSymmetric DEF Admits, Pending
      <3>2. QED
        BY <2>3, <3>1 DEF PendingIsClear
    <2>9. NoOverlap'
      <3> SUFFICES ASSUME NEW i \in DOMAIN rows', NEW j \in DOMAIN rows', i # j,
                          Blocks(rows'[i]), Blocks(rows'[j])
                   PROVE  ~Clash(rows'[i], rows'[j])
        BY DEF NoOverlap, Blocks, Clash
      <3>1. \A k \in DOMAIN rows : Blocks(NewRow(r)) /\ Blocks(rows[k]) =>
              ~Clash(rows[k], NewRow(r)) /\ ~Clash(NewRow(r), rows[k])
        BY <1>4, ClashIsSymmetric DEF Admits, Against
      <3>2. QED
        BY <2>3, <3>1 DEF NoOverlap
    <2>10. MoveIsAtomic'
      BY <2>2, <2>3 DEF MoveIsAtomic
    <2>11. QED
      BY <2>5, <2>6, <2>7, <2>8, <2>9, <2>10
  <1>5. QED
    BY <1>3, <1>4 DEF InsertBooking

\* A request that overwrites the status (and fee) of an unlocked row a by m
\* keeps IndInv, if m blocks time only where nothing is against it.
LEMMA UpdateStep ==
  ASSUME IndInv, NEW r \in DOMAIN req, req[r].stage \in {"cancelling", "marking"},
         NEW a \in DOMAIN rows, NEW m \in Row, ~Locked(a),
         m.status \in {"cancelled", "completed", "no_show"},
         m.cust = rows[a].cust, m.from = rows[a].from,
         Blocks(m) => Admits(m, {a}, r),
         rows' = [rows EXCEPT ![a] = m],
         Goto(r, "reading_back"), UNCHANGED <<customers, clock>>
  PROVE  IndInv'
  <1> USE DEF IndInv
  <1>1. req[r] \in Request /\ Fit(r, req[r]) /\ r \notin Movers
    BY DEF TypeOK, StagesFit, Movers
  <1>2. /\ DOMAIN rows' = DOMAIN rows
        /\ rows'[a] = m
        /\ \A i \in DOMAIN rows \ {a} : rows'[i] = rows[i]
        /\ \A i \in DOMAIN rows : rows'[i].cust = rows[i].cust /\ rows'[i].from = rows[i].from
    OBVIOUS
  <1>3. /\ DOMAIN req' = DOMAIN req
        /\ req'[r] = [req[r] EXCEPT !.stage = "reading_back"]
        /\ \A q \in DOMAIN req \ {r} : req'[q] = req[q]
        /\ Movers' = Movers
        /\ \A q \in Movers : req'[q] = req[q] /\ NewRow(q)' = NewRow(q)
    <2>1. "reading_back" \in Stages \ {"taking", "linking"} /\ TypeOK
      BY DEF Stages
    <2>2. /\ DOMAIN req' = DOMAIN req
          /\ req'[r] = [req[r] EXCEPT !.stage = "reading_back"]
          /\ \A q \in DOMAIN req \ {r} : req'[q] = req[q]
          /\ Movers' = Movers \ {r}
          /\ \A q \in Movers' : req'[q] = req[q] /\ NewRow(q)' = NewRow(q)
      BY <2>1, OthersUntouched
    <2>3. Movers \ {r} = Movers
      BY <1>1
    <2>4. QED
      BY <2>2, <2>3
  <1>4. TypeOK'
    <2>1. rows' \in [DOMAIN rows' -> Row] /\ DOMAIN rows' \subseteq Requests
      BY <1>2 DEF TypeOK
    <2>2. req' \in [DOMAIN req' -> Request]
      BY <1>1 DEF Goto, TypeOK, Request, Stages
    <2>3. QED
      BY <1>3, <2>1, <2>2 DEF TypeOK
  <1>5. StagesFit'
    <2>1. Fit(r, req[r])'
      BY <1>1, <1>3 DEF Fit, Request
    <2>2. \A q \in DOMAIN req \ {r} : Fit(q, req[q])'
      BY <1>2, <1>3 DEF StagesFit, Fit
    <2>3. QED
      BY <1>2, <1>3, <2>1, <2>2 DEF StagesFit
  <1>6. LocksAreExclusive'
    BY <1>3 DEF LocksAreExclusive
  <1>7. PendingIsClear'
    <2> SUFFICES ASSUME NEW q \in Movers, req[q].stage = "linking"
                 PROVE  /\ \A i \in DOMAIN rows \ {req[q].in.appt} :
                              Blocks(rows'[i]) => ~Clash(rows'[i], NewRow(q))
                        /\ \A p \in Movers \ {q} :
                              req[p].stage = "linking" => ~Clash(NewRow(p), NewRow(q))
      BY <1>2, <1>3 DEF PendingIsClear, Blocks, Clash
    <2>1. Blocks(m) => ~Clash(m, NewRow(q))
      BY <1>1, ClashIsSymmetric DEF Admits, Pending
    <2>2. QED
      BY <1>2, <2>1 DEF PendingIsClear
  <1>8. NoOverlap'
    <2> SUFFICES ASSUME NEW i \in DOMAIN rows, NEW j \in DOMAIN rows, i # j,
                        Blocks(rows'[i]), Blocks(rows'[j])
                 PROVE  ~Clash(rows'[i], rows'[j])
      BY <1>2 DEF NoOverlap, Blocks, Clash
    <2>1. \A k \in DOMAIN rows \ {a} : Blocks(m) /\ Blocks(rows[k]) =>
            ~Clash(rows[k], m) /\ ~Clash(m, rows[k])
      BY ClashIsSymmetric DEF Admits, Against
    <2>2. QED
      BY <1>2, <2>1 DEF NoOverlap
  <1>9. MoveIsAtomic'
    BY <1>2 DEF MoveIsAtomic
  <1>10. QED
    BY <1>4, <1>5, <1>6, <1>7, <1>8, <1>9

LEMMA CancelRowKeepsIndInv ==
  ASSUME IndInv, NEW r \in Requests, CancelRow(r)
  PROVE  IndInv'
  <1> DEFINE a == req[r].in.appt
             m == [rows[a] EXCEPT !.status = "cancelled", !.fee = req[r].fee]
  <1>1. r \in DOMAIN req /\ req[r].stage = "cancelling"
    BY DEF CancelRow, At
  <1>2. req[r] \in Request /\ a \in DOMAIN rows
    BY <1>1 DEF IndInv, TypeOK, StagesFit, Fit
  <1>3. rows[a] \in Row /\ req[r].fee \in Nat
    BY <1>2 DEF IndInv, TypeOK, Request
  <1>4. m \in Row /\ m.status = "cancelled" /\ m.cust = rows[a].cust /\ m.from = rows[a].from
    BY <1>3 DEF Row, Statuses
  <1>5. ~Blocks(m)
    BY <1>4 DEF Blocks
  <1>6. rows' = [rows EXCEPT ![a] = m]
    BY <1>2 DEF CancelRow, IndInv, TypeOK
  <1>7. ~Locked(a) /\ Goto(r, "reading_back") /\ UNCHANGED <<customers, clock>>
    BY DEF CancelRow
  <1> HIDE DEF m
  <1>8. QED
    BY <1>1, <1>2, <1>4, <1>5, <1>6, <1>7, UpdateStep

LEMMA MarkStatusKeepsIndInv ==
  ASSUME IndInv, NEW r \in Requests, MarkStatus(r)
  PROVE  IndInv'
  <1> DEFINE a == req[r].in.appt
             m == [rows[a] EXCEPT !.status = req[r].in.status]
  <1>1. r \in DOMAIN req /\ req[r].stage = "marking"
    BY DEF MarkStatus, At
  <1>2. req[r] \in Request /\ req[r].in.kind = "mark"
    BY <1>1 DEF IndInv, TypeOK, StagesFit, Fit
  <1>3. CASE \E code \in {"APPOINTMENT_NOT_FOUND", "SLOT_UNAVAILABLE"} : Refuse(r, code)
    BY <1>1, <1>3, RefuseStep DEF Replies, Refusals
  <1>4. CASE /\ a \in DOMAIN rows /\ ~Locked(a)
             /\ Admits(m, {a}, r)
             /\ rows' = [rows EXCEPT ![a] = m]
             /\ Goto(r, "reading_back")
             /\ UNCHANGED <<customers, clock>>
    <2>1. rows[a] \in Row /\ req[r].in.status \in {"completed", "no_show"}
      BY <1>2, <1>4, InputFields DEF IndInv, TypeOK, Request, MarkInput
    <2>2. /\ m \in Row /\ m.status \in {"completed", "no_show"}
          /\ m.cust = rows[a].cust /\ m.from = rows[a].from
      BY <2>1 DEF Row, Statuses
    <2> HIDE DEF m
    <2>3. QED
      BY <1>1, <1>4, <2>2, UpdateStep
  <1>5. QED
    BY <1>3, <1>4 DEF MarkStatus

LEMMA LinkAndCommitKeepsIndInv ==
  ASSUME IndInv, NEW r \in Requests, LinkAndCommit(r)
  PROVE  IndInv'
  <1> USE DEF IndInv
  <1> DEFINE a == req[r].in.appt
             n == NewRow(r)
  <1>1. r \in DOMAIN req /\ req[r].stage = "linking" /\ r \in Movers
    BY DEF LinkAndCommit, At, Movers
  <1>2. req[r] \in Request /\ req[r].in.kind = "move" /\ Fit(r, req[r])
    BY <1>1 DEF TypeOK, StagesFit, Fit
  <1>3. r \notin DOMAIN rows /\ a \in DOMAIN rows /\ a # r /\ n.cust = rows[a].cust
    BY <1>1, <1>2 DEF Fit, NewRow
  <1>4. /\ n \in Row /\ n.from = a /\ n.status = "booked"
    BY <1>1, <1>2, NewRowType DEF NewRow
  <1>5. rows[a] \in Row
    BY <1>3 DEF TypeOK
  <1> HIDE DEF n
  <1>6. /\ DOMAIN rows' = DOMAIN rows \cup {r}
        /\ rows'[r] = n
        /\ rows'[a] = [rows[a] EXCEPT !.status = "rescheduled", !.to = r]
        /\ \A i \in DOMAIN rows \ {a} : rows'[i] = rows[i]
        /\ rows' = [i \in DOMAIN rows' |-> rows'[i]]
    BY <1>3 DEF LinkAndCommit, Inserted, n
  <1>7. /\ rows'[a] \in Row /\ rows'[a].status = "rescheduled" /\ rows'[a].to = r
        /\ rows'[a].cust = rows[a].cust /\ rows'[a].from = rows[a].from
    BY <1>5, <1>6 DEF Row, Statuses
  <1> DEFINE Kept(i) == /\ i \in DOMAIN rows' /\ i # r
                        /\ rows'[i].cust = rows[i].cust /\ rows'[i].from = rows[i].from
  <1>8. \A i \in DOMAIN rows : Kept(i)
    BY <1>3, <1>6, <1>7
  <1>9. /\ DOMAIN req' = DOMAIN req
        /\ req'[r] = [req[r] EXCEPT !.stage = "reading_back"]
        /\ \A q \in DOMAIN req \ {r} : req'[q] = req[q]
        /\ Movers' = Movers \ {r}
        /\ \A q \in Movers' : req'[q] = req[q] /\ NewRow(q)' = NewRow(q)
    <2>1. "reading_back" \in Stages \ {"taking", "linking"} /\ Goto(r, "reading_back")
      BY DEF Stages, LinkAndCommit
    <2>2. QED
      BY <1>1, <2>1, OthersUntouched
  <1>10. TypeOK'
    <2>1. rows' \in [DOMAIN rows' -> Row] /\ DOMAIN rows' \subseteq Requests
      <3>1. \A i \in DOMAIN rows' : rows'[i] \in Row
        BY <1>4, <1>6, <1>7 DEF TypeOK
      <3>2. QED
        BY <1>6, <3>1 DEF TypeOK
    <2>2. req' \in [DOMAIN req' -> Request] /\ UNCHANGED <<customers, clock>>
      BY <1>2 DEF LinkAndCommit, Goto, TypeOK, Request, Stages
    <2>3. QED
      BY <1>9, <2>1, <2>2 DEF TypeOK
  <1>11. StagesFit'
    <2>1. Fit(r, req[r])'
      BY <1>2, <1>9 DEF Fit, Request
    <2>2. \A q \in DOMAIN req \ {r} : Fit(q, req[q])'
      BY <1>6, <1>8, <1>9 DEF StagesFit, Fit
    <2>3. QED
      BY <1>1, <1>6, <1>9, <2>1, <2>2 DEF StagesFit
  <1>12. LocksAreExclusive'
    BY <1>9 DEF LocksAreExclusive
  <1>13. PendingIsClear'
    <2> SUFFICES ASSUME NEW q \in Movers \ {r}, req[q].stage = "linking"
                 PROVE  /\ \A i \in DOMAIN rows' \ {req[q].in.appt} :
                              Blocks(rows'[i]) => ~Clash(rows'[i], NewRow(q))
                        /\ \A p \in Movers \ {r, q} :
                              req[p].stage = "linking" => ~Clash(NewRow(p), NewRow(q))
      BY <1>9 DEF PendingIsClear, Blocks, Clash
    <2>1. ~Clash(n, NewRow(q))
      BY <1>1 DEF PendingIsClear, n
    <2>2. ~Blocks(rows'[a])
      BY <1>7 DEF Blocks
    <2>3. QED
      BY <1>6, <2>1, <2>2 DEF PendingIsClear
  <1>14. NoOverlap'
    <2> SUFFICES ASSUME NEW i \in DOMAIN rows', NEW j \in DOMAIN rows', i # j,
                        Blocks(rows'[i]), Blocks(rows'[j])
                 PROVE  ~Clash(rows'[i], rows'[j])
      BY DEF NoOverlap, Blocks, Clash
    <2>1. \A k \in DOMAIN rows \ {a} : Blocks(rows[k]) =>
            ~Clash(rows[k], n) /\ ~Clash(n, rows[k])
      BY <1>1, ClashIsSymmetric DEF PendingIsClear, n
    <2>2. ~Blocks(rows'[a])
      BY <1>7 DEF Blocks
    <2>3. QED
      BY <1>6, <2>1, <2>2 DEF NoOverlap
  <1>15. MoveIsAtomic'
    <2>1. ASSUME NEW i \in DOMAIN rows', rows'[i].status = "rescheduled"
          PROVE  /\ rows'[i].to \in DOMAIN rows'
                 /\ rows'[rows'[i].to].from = i
                 /\ rows'[rows'[i].to].cust = rows'[i].cust
      <3>1. i # r
        BY <1>4, <1>6, <2>1
      <3>2. CASE i = a
        BY <1>3, <1>4, <1>6, <1>7, <3>2
      <3>3. CASE i # a
        <4>1. i \in DOMAIN rows /\ rows'[i] = rows[i]
          BY <1>6, <3>1, <3>3
        <4>2. /\ rows[i].to \in DOMAIN rows
              /\ rows[rows[i].to].from = i
              /\ rows[rows[i].to].cust = rows[i].cust
          BY <2>1, <4>1 DEF MoveIsAtomic
        <4>3. QED
          BY <1>8, <4>1, <4>2
      <3>4. QED
        BY <3>2, <3>3
    <2>2. ASSUME NEW j \in DOMAIN rows', rows'[j].from # None
          PROVE  rows'[j].from \in DOMAIN rows' /\ rows'[rows'[j].from].status # "booked"
      <3>1. CASE j = r
        BY <1>4, <1>6, <1>7, <1>3, <3>1
      <3>2. CASE j # r
        <4>1. j \in DOMAIN rows /\ rows'[j].from = rows[j].from
          BY <1>6, <1>8, <3>2
        <4>2. rows[j].from \in DOMAIN rows /\ rows[rows[j].from].status # "booked"
          BY <2>2, <4>1 DEF MoveIsAtomic
        <4> DEFINE f == rows[j].from
        <4>3. f \in DOMAIN rows' /\ f # r
          <5>1. f \in DOMAIN rows
            BY <4>2
          <5>2. Kept(f)
            BY <1>8, <5>1
          <5>3. QED
            BY <5>2
        <4>4. rows'[f].status # "booked"
          <5>1. CASE f = a
            BY <1>7, <5>1
          <5>2. CASE f # a
            BY <1>6, <4>2, <4>3, <5>2
          <5>3. QED
            BY <5>1, <5>2
        <4>5. QED
          BY <4>1, <4>3, <4>4
      <3>3. QED
        BY <3>1, <3>2
    <2>3. QED
      BY <2>1, <2>2 DEF MoveIsAtomic
  <1>16. QED
    BY <1>10, <1>11, <1>12, <1>13, <1>14, <1>15

LEMMA ReadBackKeepsIndInv ==
  ASSUME IndInv, NEW r \in Requests, ReadBack(r)
  PROVE  IndInv'
  BY AnswerStep DEF ReadBack, At, Replies

LEMMA StatementFailsKeepsIndInv ==
  ASSUME IndInv, NEW r \in Requests, StatementFails(r)
  PROVE  IndInv'
  BY AnswerStep DEF StatementFails, InFlight, Replies

\* A crash leaves the committed rows, and no transaction that was open.
LEMMA CrashKeepsIndInv ==
  ASSUME IndInv, Crash
  PROVE  IndInv'
  <1> USE DEF IndInv
  <1>1. /\ DOMAIN req' = DOMAIN req
        /\ req' = [r \in DOMAIN req |-> req'[r]]
        /\ \A r \in DOMAIN req :
             \/ req'[r] = Returned(req[r].in, "FAILED")
             \/ req'[r] = req[r] /\ req[r].stage = "done"
        /\ UNCHANGED <<rows, customers, clock>>
    BY DEF Crash, InFlight
  <1>2. \A r \in DOMAIN req :
          req'[r] \in Request /\ req'[r].stage = "done" /\ Fit(r, req'[r])
    <2> TAKE r \in DOMAIN req
    <2>1. req[r] \in Request /\ req[r].in \in Inputs /\ Fit(r, req[r])
      BY DEF TypeOK, StagesFit, Request
    <2>2. QED
      BY <1>1, <2>1, ReturnedFits DEF Replies
  <1>3. TypeOK'
    BY <1>1, <1>2 DEF TypeOK
  <1>4. StagesFit'
    BY <1>1, <1>2 DEF StagesFit, Fit
  <1>5. Movers' = {}
    BY <1>1, <1>2 DEF Movers
  <1>6. LocksAreExclusive' /\ PendingIsClear'
    BY <1>5 DEF LocksAreExclusive, PendingIsClear
  <1>7. NoOverlap' /\ MoveIsAtomic'
    BY <1>1 DEF NoOverlap, MoveIsAtomic, Blocks, Clash
  <1>8. QED
    BY <1>3, <1>4, <1>6, <1>7

\* IndInv does not look at the clock, save for its type.
LEMMA IdleKeepsIndInv ==
  ASSUME IndInv, UNCHANGED <<rows, customers, req>>, clock' \in Nat
  PROVE  IndInv'
  <1> USE DEF IndInv
  <1>1. TypeOK' /\ StagesFit'
    BY DEF TypeOK, StagesFit, Fit
  <1>2. /\ Movers' = Movers
        /\ \A q \in Movers : req'[q] = req[q] /\ NewRow(q)' = NewRow(q)
    BY DEF Movers, NewRow
  <1>3. LocksAreExclusive'
    BY <1>2 DEF LocksAreExclusive
  <1>4. PendingIsClear'
    BY <1>2 DEF PendingIsClear, Blocks, Clash
  <1>5. NoOverlap' /\ MoveIsAtomic'
    BY DEF NoOverlap, MoveIsAtomic, Blocks, Clash
  <1>6. QED
    BY <1>1, <1>3, <1>4, <1>5

-----------------------------------------------------------------------------
(* IndInv is an inductive invariant *)

LEMMA InitEstablishesIndInv == Init => IndInv
  <1> SUFFICES ASSUME Init PROVE IndInv
    OBVIOUS
  <1>1. DOMAIN rows = {} /\ DOMAIN req = {} /\ clock = 0 /\ customers = KnownCustomers
    BY DEF Init
  <1>2. rows \in [DOMAIN rows -> Row] /\ req \in [DOMAIN req -> Request]
    BY DEF Init
  <1>3. QED
    BY <1>1, <1>2, DiaryAssumption
    DEF IndInv, TypeOK, StagesFit, LocksAreExclusive, PendingIsClear, NoOverlap,
        MoveIsAtomic, Movers

LEMMA NextKeepsIndInv == IndInv /\ [Next]_vars => IndInv'
  <1> SUFFICES ASSUME IndInv, [Next]_vars PROVE IndInv'
    OBVIOUS
  <1>1. ASSUME NEW r \in Requests, Receive(r) PROVE IndInv'
    BY <1>1, ReceiveKeepsIndInv
  <1>2. ASSUME NEW r \in Requests, PickStaff(r) PROVE IndInv'
    BY <1>2, PickStaffKeepsIndInv
  <1>3. ASSUME NEW r \in Requests, ResolveCustomer(r) PROVE IndInv'
    BY <1>3, ResolveCustomerKeepsIndInv
  <1>4. ASSUME NEW r \in Requests, CheckCap(r) PROVE IndInv'
    BY <1>4, CheckCapKeepsIndInv
  <1>5. ASSUME NEW r \in Requests, InsertBooking(r) PROVE IndInv'
    BY <1>5, InsertBookingKeepsIndInv
  <1>6. ASSUME NEW r \in Requests, ReadToCancel(r) PROVE IndInv'
    BY <1>6, ReadToCancelKeepsIndInv
  <1>7. ASSUME NEW r \in Requests, CancelRow(r) PROVE IndInv'
    BY <1>7, CancelRowKeepsIndInv
  <1>8. ASSUME NEW r \in Requests, ReadToMove(r) PROVE IndInv'
    BY <1>8, ReadToMoveKeepsIndInv
  <1>9. ASSUME NEW r \in Requests, ReleaseOld(r) PROVE IndInv'
    BY <1>9, ReleaseOldKeepsIndInv
  <1>10. ASSUME NEW r \in Requests, TakeNew(r) PROVE IndInv'
    BY <1>10, TakeNewKeepsIndInv
  <1>11. ASSUME NEW r \in Requests, LinkAndCommit(r) PROVE IndInv'
    BY <1>11, LinkAndCommitKeepsIndInv
  <1>12. ASSUME NEW r \in Requests, MarkStatus(r) PROVE IndInv'
    BY <1>12, MarkStatusKeepsIndInv
  <1>13. ASSUME NEW r \in Requests, ReadBack(r) PROVE IndInv'
    BY <1>13, ReadBackKeepsIndInv
  <1>14. ASSUME NEW r \in Requests, StatementFails(r) PROVE IndInv'
    BY <1>14, StatementFailsKeepsIndInv
  <1>15. CASE Crash
    BY <1>15, CrashKeepsIndInv
  <1>16. CASE Tick \/ Quiesced \/ UNCHANGED vars
    <2>1. UNCHANGED <<rows, customers, req>> /\ clock' \in Nat
      BY <1>16 DEF Tick, Quiesced, vars, IndInv, TypeOK
    <2>2. QED
      BY <2>1, IdleKeepsIndInv
  <1>17. QED
    BY <1>1, <1>2, <1>3, <1>4, <1>5, <1>6, <1>7, <1>8, <1>9, <1>10, <1>11,
       <1>12, <1>13, <1>14, <1>15, <1>16 DEF Next, Step

\* In every reachable state IndInv holds.
THEOREM Invariance == Spec => []IndInv
  <1>1. QED
    BY InitEstablishesIndInv, NextKeepsIndInv, PTL DEF Spec

\* The table and the handlers' locals keep their types.
THEOREM TypeCorrect == Spec => []TypeOK
  <1>1. IndInv => TypeOK
    BY DEF IndInv
  <1>2. QED
    BY <1>1, Invariance, PTL

\* No stylist is ever double-booked, whatever requests race, fail or are cut
\* off by a crash (schedulingService's one race-safe write path).
THEOREM NoDoubleBooking == Spec => []NoOverlap
  <1>1. IndInv => NoOverlap
    BY DEF IndInv
  <1>2. QED
    BY <1>1, Invariance, PTL

\* A reschedule happens entirely or not at all (rescheduleAppointment).
THEOREM MovesAreAtomic == Spec => []MoveIsAtomic
  <1>1. IndInv => MoveIsAtomic
    BY DEF IndInv
  <1>2. QED
    BY <1>1, Invariance, PTL

-----------------------------------------------------------------------------
(* The diary implements the ledger *)

\* The range a row holds is a hold; rows that do not clash hold disjoint ones.
LEMMA HoldsAreDisjoint ==
  ASSUME NEW m \in Row, NEW n \in Row
  PROVE  /\ HoldOf(m) \in Ledger!Hold
         /\ ~Clash(m, n) => Ledger!Disjoint(HoldOf(m), HoldOf(n))
  <1>1. \A x \in Row : /\ x.staff \in Staff
                       /\ BlockStart(x.start, x.svc) \in Int
                       /\ BlockEnd(x.start, x.svc) \in Int
    BY CatalogueAssumption DEF Row, BlockStart, BlockEnd, EndOf
  <1>2. QED
    BY <1>1 DEF HoldOf, Ledger!Hold, Ledger!Disjoint, Clash, Overlaps

LEMMA HeldDomain ==
  /\ DOMAIN Held = {i \in DOMAIN rows : Blocks(rows[i])}
  /\ \A i \in DOMAIN Held : Held[i] = HoldOf(rows[i])
  BY DEF Held

LEMMA HeldDomainPrime ==
  /\ DOMAIN Held' = {i \in DOMAIN rows' : Blocks(rows'[i])}
  /\ \A i \in DOMAIN Held' : Held'[i] = HoldOf(rows'[i])
  BY DEF Held, Blocks, HoldOf

\* A step that inserts row n, and takes a (if it is a row) out of use.
LEMMA InsertSimulates ==
  ASSUME IndInv, NEW r \in Requests, r \notin DOMAIN rows, NEW n \in Row, NEW a,
         DOMAIN rows' = DOMAIN rows \cup {r},
         rows'[r] = n,
         \A i \in DOMAIN rows \ {a} : rows'[i] = rows[i],
         a \in DOMAIN rows => ~Blocks(rows'[a]),
         Blocks(n) => \A i \in DOMAIN rows \ {a} : Blocks(rows[i]) => ~Clash(rows[i], n),
         Blocks(n) \/ a \notin DOMAIN rows
  PROVE  [Ledger!Next]_Held
  <1>1. \A i \in DOMAIN rows : rows[i] \in Row /\ i \in Requests
    BY DEF IndInv, TypeOK
  <1>2. CASE ~Blocks(n)
    <2>1. Held' = Held
      BY <1>2 DEF Held, Blocks, HoldOf
    <2>2. QED
      BY <2>1
  <1>3. CASE Blocks(n)
    <2> DEFINE out == IF a \in DOMAIN Held THEN {a} ELSE {}
    <2>1. out \subseteq DOMAIN Held /\ {r} \cap DOMAIN Held = {}
      BY HeldDomain
    <2>2. DOMAIN Held' = (DOMAIN Held \ out) \cup {r}
      BY <1>3, HeldDomain, HeldDomainPrime
    <2>3. \A j \in DOMAIN Held \ out : Held'[j] = Held[j]
      BY <2>2, HeldDomain, HeldDomainPrime
    <2>4. Held'[r] = HoldOf(n)
      BY <2>2, HeldDomainPrime
    <2>5. \A j \in DOMAIN Held \ out : Ledger!Disjoint(Held[j], Held'[r])
      BY <1>1, <1>3, <2>4, HeldDomain, HoldsAreDisjoint
    <2>6. Held'[r] \in Ledger!Hold
      BY <2>4, HoldsAreDisjoint
    <2>7. Ledger!Trade(out, {r})
      BY <2>1, <2>2, <2>3, <2>5, <2>6 DEF Ledger!Trade
    <2>8. CASE a \in DOMAIN Held
      BY <1>1, <2>7, <2>8, HeldDomain DEF Ledger!Next, Ledger!Exchange
    <2>9. CASE a \notin DOMAIN Held
      BY <2>7, <2>9 DEF Ledger!Next, Ledger!Take
    <2>10. QED
      BY <2>8, <2>9
  <1>4. QED
    BY <1>2, <1>3

\* A step that overwrites row a by m, at the same place in the diary.
LEMMA UpdateSimulates ==
  ASSUME IndInv, NEW a \in DOMAIN rows, NEW m \in Row,
         HoldOf(m) = HoldOf(rows[a]),
         Blocks(m) => Against(m, {a}) = {},
         rows' = [rows EXCEPT ![a] = m]
  PROVE  [Ledger!Next]_Held
  <1>1. \A i \in DOMAIN rows : rows[i] \in Row /\ i \in Requests
    BY DEF IndInv, TypeOK
  <1>2. /\ DOMAIN rows' = DOMAIN rows
        /\ rows'[a] = m
        /\ \A i \in DOMAIN rows \ {a} : rows'[i] = rows[i]
    OBVIOUS
  <1>3. CASE Blocks(m) <=> Blocks(rows[a])
    <2>1. DOMAIN Held' = DOMAIN Held
      BY <1>2, <1>3, HeldDomain, HeldDomainPrime
    <2>2. \A i \in DOMAIN Held : Held'[i] = Held[i]
      BY <1>2, <2>1, HeldDomain, HeldDomainPrime
    <2>3. Held' = Held
      BY <2>1, <2>2 DEF Held
    <2>4. QED
      BY <2>3
  <1>4. CASE ~Blocks(m) /\ Blocks(rows[a])
    <2>1. DOMAIN Held' = DOMAIN Held \ {a} /\ a \in DOMAIN Held
      BY <1>2, <1>4, HeldDomain, HeldDomainPrime
    <2>2. \A j \in DOMAIN Held \ {a} : Held'[j] = Held[j]
      BY <1>2, <2>1, HeldDomain, HeldDomainPrime
    <2>3. Ledger!Trade({a}, {})
      BY <2>1, <2>2 DEF Ledger!Trade
    <2>4. QED
      BY <1>1, <2>3 DEF Ledger!Next, Ledger!GiveBack
  <1>5. CASE Blocks(m) /\ ~Blocks(rows[a])
    <2>1. DOMAIN Held' = DOMAIN Held \cup {a} /\ a \notin DOMAIN Held
      BY <1>2, <1>5, HeldDomain, HeldDomainPrime
    <2>2. \A j \in DOMAIN Held : Held'[j] = Held[j]
      BY <1>2, <2>1, HeldDomain, HeldDomainPrime
    <2>3. Held'[a] = HoldOf(m)
      BY <1>2, <2>1, HeldDomainPrime
    <2>4. Held'[a] \in Ledger!Hold
      BY <2>3, HoldsAreDisjoint
    <2>5. \A j \in DOMAIN Held : ~Clash(rows[j], m)
      BY <1>5, <2>1, HeldDomain DEF Against
    <2>6. \A j \in DOMAIN Held : Ledger!Disjoint(Held[j], Held'[a])
      BY <1>1, <2>3, <2>5, HeldDomain, HoldsAreDisjoint
    <2>7. Ledger!Trade({}, {a})
      BY <2>1, <2>2, <2>4, <2>6 DEF Ledger!Trade
    <2>8. QED
      BY <1>1, <2>7 DEF Ledger!Next, Ledger!Take
  <1>6. QED
    BY <1>3, <1>4, <1>5

LEMMA InsertBookingSimulates ==
  ASSUME IndInv, NEW r \in Requests, InsertBooking(r)
  PROVE  [Ledger!Next]_Held
  <1>1. r \in DOMAIN req /\ req[r].stage = "inserting" /\ Fit(r, req[r])
    BY DEF InsertBooking, At, IndInv, StagesFit
  <1>2. CASE UNCHANGED rows
    BY <1>2 DEF Held, Blocks, HoldOf
  <1>3. CASE Admits(NewRow(r), {}, r) /\ rows' = Inserted(r, NewRow(r))
    <2>1. r \notin DOMAIN rows /\ NewRow(r) \in Row
      BY <1>1, NewRowType DEF Fit, IndInv
    <2>2. /\ DOMAIN rows' = DOMAIN rows \cup {r}
          /\ rows'[r] = NewRow(r)
          /\ \A i \in DOMAIN rows \ {r} : rows'[i] = rows[i]
      BY <1>3, <2>1 DEF Inserted
    <2>3. Blocks(NewRow(r)) =>
            \A i \in DOMAIN rows \ {r} : Blocks(rows[i]) => ~Clash(rows[i], NewRow(r))
      BY <1>3 DEF Admits, Against
    <2>4. QED
      BY <2>1, <2>2, <2>3, InsertSimulates
  <1>4. QED
    BY <1>2, <1>3 DEF InsertBooking, Refuse

LEMMA CancelRowSimulates ==
  ASSUME IndInv, NEW r \in Requests, CancelRow(r)
  PROVE  [Ledger!Next]_Held
  <1> DEFINE a == req[r].in.appt
             m == [rows[a] EXCEPT !.status = "cancelled", !.fee = req[r].fee]
  <1>1. a \in DOMAIN rows /\ rows[a] \in Row /\ req[r].fee \in Nat
    BY DEF CancelRow, At, IndInv, TypeOK, StagesFit, Fit, Request
  <1>2. m \in Row /\ ~Blocks(m) /\ HoldOf(m) = HoldOf(rows[a])
    BY <1>1 DEF Row, Statuses, Blocks, HoldOf
  <1>3. rows' = [rows EXCEPT ![a] = m]
    BY <1>1 DEF CancelRow, IndInv, TypeOK
  <1> HIDE DEF m
  <1>4. QED
    BY <1>1, <1>2, <1>3, UpdateSimulates

LEMMA MarkStatusSimulates ==
  ASSUME IndInv, NEW r \in Requests, MarkStatus(r)
  PROVE  [Ledger!Next]_Held
  <1> DEFINE a == req[r].in.appt
             m == [rows[a] EXCEPT !.status = req[r].in.status]
  <1>1. CASE UNCHANGED rows
    BY <1>1 DEF Held, Blocks, HoldOf
  <1>2. CASE a \in DOMAIN rows /\ Admits(m, {a}, r) /\ rows' = [rows EXCEPT ![a] = m]
    <2>1. rows[a] \in Row /\ req[r].in \in Inputs /\ req[r].in.kind = "mark"
      BY <1>2 DEF MarkStatus, At, IndInv, TypeOK, StagesFit, Fit, Request
    <2>2. req[r].in.status \in {"completed", "no_show"}
      BY <2>1, InputFields DEF MarkInput
    <2>3. m \in Row /\ HoldOf(m) = HoldOf(rows[a])
      BY <2>1, <2>2 DEF Row, Statuses, HoldOf
    <2> HIDE DEF m
    <2>4. QED
      BY <1>2, <2>3, UpdateSimulates DEF Admits
  <1>3. QED
    BY <1>1, <1>2 DEF MarkStatus, Refuse

LEMMA LinkAndCommitSimulates ==
  ASSUME IndInv, NEW r \in Requests, LinkAndCommit(r)
  PROVE  [Ledger!Next]_Held
  <1> DEFINE a == req[r].in.appt
             n == NewRow(r)
  <1>1. r \in Movers /\ r \in DOMAIN req /\ req[r].stage = "linking" /\ Fit(r, req[r])
    BY DEF LinkAndCommit, At, Movers, IndInv, StagesFit
  <1>2. r \notin DOMAIN rows /\ a \in DOMAIN rows /\ n \in Row /\ Blocks(n)
    BY <1>1, NewRowType DEF Fit, IndInv, Blocks, NewRow
  <1>3. rows[a] \in Row
    BY <1>2 DEF IndInv, TypeOK
  <1>4. \A i \in DOMAIN rows \ {a} : Blocks(rows[i]) => ~Clash(rows[i], n)
    BY <1>1 DEF IndInv, PendingIsClear
  <1> HIDE DEF n
  <1>5. /\ DOMAIN rows' = DOMAIN rows \cup {r}
        /\ rows'[r] = n
        /\ rows'[a] = [rows[a] EXCEPT !.status = "rescheduled", !.to = r]
        /\ \A i \in DOMAIN rows \ {a} : rows'[i] = rows[i]
    BY <1>2 DEF LinkAndCommit, Inserted, n
  <1>6. ~Blocks(rows'[a])
    BY <1>3, <1>5 DEF Blocks, Row
  <1>7. QED
    BY <1>2, <1>4, <1>5, <1>6, InsertSimulates

LEMMA NextSimulates == IndInv /\ [Next]_vars => [Ledger!Next]_Held
  <1> SUFFICES ASSUME IndInv, [Next]_vars PROVE [Ledger!Next]_Held
    OBVIOUS
  <1>1. ASSUME NEW r \in Requests, InsertBooking(r) PROVE [Ledger!Next]_Held
    BY <1>1, InsertBookingSimulates
  <1>2. ASSUME NEW r \in Requests, CancelRow(r) PROVE [Ledger!Next]_Held
    BY <1>2, CancelRowSimulates
  <1>3. ASSUME NEW r \in Requests, MarkStatus(r) PROVE [Ledger!Next]_Held
    BY <1>3, MarkStatusSimulates
  <1>4. ASSUME NEW r \in Requests, LinkAndCommit(r) PROVE [Ledger!Next]_Held
    BY <1>4, LinkAndCommitSimulates
  <1>5. CASE UNCHANGED rows
    BY <1>5 DEF Held, Blocks, HoldOf
  <1>6. ASSUME NEW r \in Requests,
               \/ Receive(r) \/ PickStaff(r) \/ ResolveCustomer(r) \/ CheckCap(r)
               \/ ReadToCancel(r) \/ ReadToMove(r) \/ ReleaseOld(r) \/ TakeNew(r)
               \/ ReadBack(r) \/ StatementFails(r)
        PROVE  UNCHANGED rows
    BY <1>6 DEF Receive, PickStaff, ResolveCustomer, CheckCap, ReadToCancel, ReadToMove,
                ReleaseOld, TakeNew, ReadBack, StatementFails, Refuse
  <1>7. CASE Crash \/ Tick \/ Quiesced \/ UNCHANGED vars
    BY <1>5, <1>7 DEF Crash, Tick, Quiesced, vars
  <1>8. QED
    BY <1>1, <1>2, <1>3, <1>4, <1>5, <1>6, <1>7 DEF Next, Step

\* The diary implements the ledger of held ranges: every step of every request
\* takes a free range of a stylist's time, gives one back, exchanges one for
\* another at once, or changes nothing a stylist could see.
THEOREM DiaryImplementsLedger == Spec => LedgerSpec
  <1>1. Init => Ledger!Init
    BY DEF Init, Ledger!Init, Held
  <1>2. QED
    BY <1>1, Invariance, NextSimulates, PTL DEF Spec, LedgerSpec, Ledger!Spec

-----------------------------------------------------------------------------
(* What the rows say *)

\* The stages of a handler that has checked its start, and its stylist, too.
Windowed == {"staffing", "customer", "counting", "inserting",
             "releasing", "taking", "linking"}
Staffed  == Windowed \ {"staffing"}

\* What a handler with locals q has been allowed.
Vetted(q) ==
  /\ q.stage \in Windowed =>
       Fits(q.in.start, EndOf(q.in.start, q.svc), OpenIntervals(DayOf(q.in.start)))
  /\ q.stage \in Staffed => q.staff \in Rostered(q.in.start, q.svc)
  /\ q.stage = "inserting" /\ q.in.overbook => Policy.allowDoubleBooking /\ q.in.scope
  /\ q.fee > 0 => q.in.kind \in {"cancel", "move"} /\ q.in.ack

\* A row that a request with input in may insert.
Honourable(row, in) ==
  /\ Fits(row.start, EndOf(row.start, row.svc), OpenIntervals(DayOf(row.start)))
  /\ row.staff \in Rostered(row.start, row.svc)
  /\ row.overbooked => Policy.allowDoubleBooking /\ in.scope

\* A request with input in accounts for a fee on row i.
Accounts(r, in, i) ==
  in.kind \in {"cancel", "move"} /\ in.ack /\ (r = i \/ in.appt = i)

RulesInv ==
  /\ \A r \in DOMAIN req : Vetted(req[r])
  /\ \A i \in DOMAIN rows : Honourable(rows[i], req[i].in)
  /\ \A i \in DOMAIN rows : rows[i].fee > 0 =>
       \E r \in DOMAIN req : Accounts(r, req[r].in, i)

LEMMA RulesInvImplies ==
  ASSUME RulesInv
  PROVE  RowsAreHonourable /\ FeeWasAcknowledged
  BY DEF RulesInv, Honourable, Accounts, RowsAreHonourable, FeeWasAcknowledged

-----------------------------------------------------------------------------
(* Steps that leave the appointments alone *)

\* r's locals become x, which is vetted.
LEMMA LocalRules ==
  ASSUME RulesInv, TypeOK, DOMAIN rows \subseteq DOMAIN req,
         NEW r \in DOMAIN req, NEW x, x.in = req[r].in, Vetted(x),
         req' = [req EXCEPT ![r] = x], UNCHANGED rows
  PROVE  RulesInv'
  <1>1. /\ DOMAIN req' = DOMAIN req
        /\ \A q \in DOMAIN req : req'[q].in = req[q].in
        /\ \A q \in DOMAIN req \ {r} : req'[q] = req[q]
        /\ req'[r] = x
    BY DEF TypeOK
  <1>2. \A q \in DOMAIN req' : Vetted(req'[q])
    BY <1>1 DEF RulesInv
  <1>3. \A i \in DOMAIN rows' : Honourable(rows'[i], req'[i].in)
    BY <1>1 DEF RulesInv
  <1>4. \A i \in DOMAIN rows' : rows'[i].fee > 0 =>
          \E q \in DOMAIN req' : Accounts(q, req'[q].in, i)
    BY <1>1 DEF RulesInv
  <1>5. QED
    BY <1>2, <1>3, <1>4 DEF RulesInv, Vetted

\* A handler that has returned, or is past its write, has nothing to be vetted
\* for but its fee.
LEMMA ReturnedIsVetted ==
  ASSUME NEW in, NEW code
  PROVE  Vetted(Returned(in, code)) /\ Returned(in, code).in = in
  BY DEF Returned, Vetted, Windowed, Staffed

LEMMA AnswerRules ==
  ASSUME RulesInv, TypeOK, DOMAIN rows \subseteq DOMAIN req,
         NEW r \in DOMAIN req, NEW code, Answer(r, code), UNCHANGED rows
  PROVE  RulesInv'
  <1> DEFINE x == Returned(req[r].in, code)
  <1>1. Vetted(x) /\ x.in = req[r].in
    BY ReturnedIsVetted
  <1>2. req' = [req EXCEPT ![r] = x]
    BY DEF Answer
  <1> HIDE DEF x
  <1>3. QED
    BY <1>1, <1>2, LocalRules

LEMMA ReceiveRules ==
  ASSUME IndInv, RulesInv, NEW r \in Requests, Receive(r)
  PROVE  RulesInv'
  <1>1. PICK in \in Inputs :
          LET first   == CASE in.kind = "book"               -> "staffing"
                           [] in.kind \in {"cancel", "move"} -> "reading"
                           [] in.kind = "mark"               -> "marking"
              refusal == IF in.kind = "book" THEN WindowViolation(in.start, in.svc, clock)
                         ELSE "none"
              received == IF refusal # "none" THEN Returned(in, refusal)
                          ELSE [in |-> in, stage |-> first, reply |-> "none",
                                now |-> clock, staff |-> Anyone, cust |-> None,
                                svc |-> IF in.kind = "book" THEN in.svc ELSE None,
                                fee |-> 0]
          IN  req' = [q \in DOMAIN req \cup {r} |-> IF q = r THEN received ELSE req[q]]
    BY DEF Receive
  <1> DEFINE first   == CASE in.kind = "book"               -> "staffing"
                          [] in.kind \in {"cancel", "move"} -> "reading"
                          [] in.kind = "mark"               -> "marking"
             refusal == IF in.kind = "book" THEN WindowViolation(in.start, in.svc, clock)
                        ELSE "none"
             running == [in |-> in, stage |-> first, reply |-> "none",
                         now |-> clock, staff |-> Anyone, cust |-> None,
                         svc |-> IF in.kind = "book" THEN in.svc ELSE None,
                         fee |-> 0]
             received == IF refusal # "none" THEN Returned(in, refusal) ELSE running
  <1>2. r \notin DOMAIN req /\ UNCHANGED rows
    BY DEF Receive
  <1>3. req' = [q \in DOMAIN req \cup {r} |-> IF q = r THEN received ELSE req[q]]
    BY <1>1
  <1>4. Vetted(received)
    <2>1. CASE refusal # "none"
      BY <2>1, ReturnedIsVetted
    <2>2. CASE refusal = "none"
      <3>1. in.kind = "book" =>
              Fits(in.start, EndOf(in.start, in.svc), OpenIntervals(DayOf(in.start)))
        BY <2>2 DEF WindowViolation
      <3>2. first \in {"staffing", "reading", "marking"} /\ (first = "staffing" => in.kind = "book")
        BY InputFields
      <3> HIDE DEF first
      <3>3. Vetted(running)
        BY <3>1, <3>2 DEF Vetted, Windowed, Staffed
      <3>4. QED
        BY <2>2, <3>3
    <2>3. QED
      BY <2>1, <2>2
  <1> HIDE DEF received
  <1>5. /\ DOMAIN req' = DOMAIN req \cup {r}
        /\ \A q \in DOMAIN req : req'[q] = req[q]
        /\ req'[r] = received
    BY <1>2, <1>3
  <1>6. DOMAIN rows \subseteq DOMAIN req
    BY DEF IndInv, StagesFit
  <1>7. \A q \in DOMAIN req' : Vetted(req'[q])
    BY <1>4, <1>5 DEF RulesInv
  <1>8. \A i \in DOMAIN rows' : Honourable(rows'[i], req'[i].in)
    BY <1>2, <1>5, <1>6 DEF RulesInv
  <1>9. \A i \in DOMAIN rows' : rows'[i].fee > 0 =>
           \E q \in DOMAIN req' : Accounts(q, req'[q].in, i)
    BY <1>2, <1>5 DEF RulesInv
  <1>10. QED
    BY <1>7, <1>8, <1>9 DEF RulesInv, Vetted

LEMMA PickStaffRules ==
  ASSUME IndInv, RulesInv, NEW r \in Requests, PickStaff(r)
  PROVE  RulesInv'
  <1> DEFINE in      == req[r].in
             svc      == req[r].svc
             moving   == in.kind = "move"
             overbook == ~moving /\ in.overbook
             busy     == Busy(in.start, svc, IF moving THEN {in.appt} ELSE {})
             found    == Candidates(in.start, svc, busy, overbook)
             refusal  == IF in.staff # Anyone
                         THEN NamedStaffViolation(in.staff, in.start, svc, busy, overbook)
                         ELSE IF found # {} THEN "none"
                         ELSE IF Rostered(in.start, svc) # {} THEN "SLOT_UNAVAILABLE"
                         ELSE "NO_STAFF_AVAILABLE"
             picks    == IF in.staff # Anyone THEN {in.staff} ELSE LeastLoaded(found, busy)
  <1>1. /\ r \in DOMAIN req /\ req[r].stage = "staffing"
        /\ TypeOK /\ DOMAIN rows \subseteq DOMAIN req /\ req[r] \in Request
    BY DEF PickStaff, At, IndInv, StagesFit, TypeOK
  <1>2. CASE refusal # "none" /\ Refuse(r, refusal)
    BY <1>1, <1>2, AnswerRules DEF Refuse
  <1>3. CASE /\ refusal = "none"
             /\ \E s \in picks :
                  req' = [req EXCEPT ![r].staff = s,
                                     ![r].stage = IF moving THEN "releasing" ELSE "customer"]
             /\ UNCHANGED <<rows, customers, clock>>
    <2>1. PICK s \in picks :
            req' = [req EXCEPT ![r].staff = s,
                               ![r].stage = IF moving THEN "releasing" ELSE "customer"]
      BY <1>3
    <2>2. s \in Rostered(in.start, svc)
      <3>1. CASE in.staff # Anyone
        BY <1>3, <3>1 DEF NamedStaffViolation, StaffViolation, Rostered, ActiveStaff
      <3>2. CASE in.staff = Anyone
        BY <3>2 DEF LeastLoaded, Candidates
      <3>3. QED
        BY <3>1, <3>2
    <2> DEFINE x == [req[r] EXCEPT !.staff = s,
                                   !.stage = IF moving THEN "releasing" ELSE "customer"]
    <2>3. /\ x.in = req[r].in /\ x.svc = req[r].svc /\ x.staff = s /\ x.fee = req[r].fee
          /\ x.stage \in {"releasing", "customer"}
      BY <1>1 DEF Request
    <2>4. req' = [req EXCEPT ![r] = x]
      BY <1>1, <2>1 DEF TypeOK
    <2> HIDE DEF x
    <2>5. Vetted(req[r])
      BY <1>1 DEF RulesInv
    <2>6. Vetted(x)
      BY <1>1, <2>2, <2>3, <2>5 DEF Vetted, Windowed, Staffed
    <2>7. QED
      BY <1>1, <1>3, <2>3, <2>4, <2>6, LocalRules
  <1>4. QED
    BY <1>2, <1>3 DEF PickStaff

\* A handler that goes on with its input, service and stylist, its fee and
\* nothing new to be vetted, stays vetted.
LEMMA GoOnRules ==
  ASSUME IndInv, RulesInv, NEW r \in DOMAIN req, NEW x,
         x.in = req[r].in, x.svc = req[r].svc, x.staff = req[r].staff, x.fee = req[r].fee,
         x.stage \in Windowed => req[r].stage \in Windowed,
         x.stage \in Staffed => req[r].stage \in Staffed,
         x.stage # "inserting",
         req' = [req EXCEPT ![r] = x], UNCHANGED rows
  PROVE  RulesInv'
  <1>1. Vetted(x)
    BY DEF RulesInv, Vetted
  <1>2. QED
    BY <1>1, LocalRules DEF IndInv, StagesFit

LEMMA ResolveCustomerRules ==
  ASSUME IndInv, RulesInv, NEW r \in Requests, ResolveCustomer(r)
  PROVE  RulesInv'
  <1>1. /\ r \in DOMAIN req /\ req[r].stage = "customer"
        /\ TypeOK /\ DOMAIN rows \subseteq DOMAIN req /\ req[r] \in Request
    BY DEF ResolveCustomer, At, IndInv, StagesFit, TypeOK
  <1>2. CASE Refuse(r, "CUSTOMER_NOT_FOUND")
    BY <1>1, <1>2, AnswerRules DEF Refuse
  <1>3. CASE /\ req' = [req EXCEPT ![r].cust = req[r].in.cust, ![r].stage = "counting"]
             /\ UNCHANGED <<rows, clock>>
    <2> DEFINE x == [req[r] EXCEPT !.cust = req[r].in.cust, !.stage = "counting"]
    <2>1. /\ x.in = req[r].in /\ x.svc = req[r].svc /\ x.staff = req[r].staff
          /\ x.fee = req[r].fee /\ x.stage = "counting"
      BY <1>1 DEF Request
    <2>2. req' = [req EXCEPT ![r] = x]
      BY <1>1, <1>3 DEF TypeOK
    <2> HIDE DEF x
    <2>3. QED
      BY <1>1, <1>3, <2>1, <2>2, GoOnRules DEF Windowed, Staffed
  <1>4. QED
    BY <1>2, <1>3 DEF ResolveCustomer

\* The rules of overbooking are checked last of all.
LEMMA CheckCapRules ==
  ASSUME IndInv, RulesInv, NEW r \in Requests, CheckCap(r)
  PROVE  RulesInv'
  <1>1. /\ r \in DOMAIN req /\ req[r].stage = "counting"
        /\ TypeOK /\ DOMAIN rows \subseteq DOMAIN req /\ req[r] \in Request
    BY DEF CheckCap, At, IndInv, StagesFit, TypeOK
  <1>2. \/ \E code : Refuse(r, code)
        \/ /\ Goto(r, "inserting") /\ UNCHANGED rows
           /\ req[r].in.overbook => Policy.allowDoubleBooking /\ req[r].in.scope
    BY DEF CheckCap
  <1>3. CASE \E code : Refuse(r, code)
    BY <1>1, <1>3, AnswerRules DEF Refuse
  <1>4. CASE /\ Goto(r, "inserting") /\ UNCHANGED rows
             /\ req[r].in.overbook => Policy.allowDoubleBooking /\ req[r].in.scope
    <2> DEFINE x == [req[r] EXCEPT !.stage = "inserting"]
    <2>1. /\ x.in = req[r].in /\ x.svc = req[r].svc /\ x.staff = req[r].staff
          /\ x.fee = req[r].fee /\ x.stage = "inserting"
      BY <1>1 DEF Request
    <2>2. req' = [req EXCEPT ![r] = x]
      BY <1>1, <1>4 DEF TypeOK, Goto
    <2> HIDE DEF x
    <2>3. Vetted(req[r])
      BY <1>1 DEF RulesInv
    <2>4. Vetted(x)
      BY <1>1, <1>4, <2>1, <2>3 DEF Vetted, Windowed, Staffed
    <2>5. QED
      BY <1>1, <1>4, <2>1, <2>2, <2>4, LocalRules
  <1>5. QED
    BY <1>2, <1>3, <1>4

LEMMA ReadToCancelRules ==
  ASSUME IndInv, RulesInv, NEW r \in Requests, ReadToCancel(r)
  PROVE  RulesInv'
  <1> DEFINE in      == req[r].in
             refusal == CancelViolation(in, req[r].now)
             fee     == LateFee(rows[in.appt].start, req[r].now)
  <1>1. /\ r \in DOMAIN req /\ req[r].stage = "reading" /\ in.kind = "cancel"
        /\ TypeOK /\ DOMAIN rows \subseteq DOMAIN req /\ req[r] \in Request
    BY DEF ReadToCancel, At, IndInv, StagesFit, TypeOK
  <1>2. CASE refusal # "none" /\ Refuse(r, refusal)
    BY <1>1, <1>2, AnswerRules DEF Refuse
  <1>3. CASE /\ refusal = "none"
             /\ req' = [req EXCEPT ![r].stage = "cancelling", ![r].fee = fee]
             /\ UNCHANGED <<rows, customers, clock>>
    <2>1. fee > 0 => in.ack
      BY <1>3 DEF CancelViolation
    <2> HIDE DEF fee
    <2> DEFINE x == [req[r] EXCEPT !.stage = "cancelling", !.fee = fee]
    <2>2. x.in = req[r].in /\ x.fee = fee /\ x.stage = "cancelling"
      BY <1>1 DEF Request
    <2>3. req' = [req EXCEPT ![r] = x]
      BY <1>1, <1>3 DEF TypeOK
    <2> HIDE DEF x
    <2>4. Vetted(x)
      BY <1>1, <2>1, <2>2 DEF Vetted, Windowed, Staffed
    <2>5. QED
      BY <1>1, <1>3, <2>2, <2>3, <2>4, LocalRules
  <1>4. QED
    BY <1>2, <1>3 DEF ReadToCancel

LEMMA ReadToMoveRules ==
  ASSUME IndInv, RulesInv, NEW r \in Requests, ReadToMove(r)
  PROVE  RulesInv'
  <1> DEFINE in      == req[r].in
             refusal == MoveViolation(in, req[r].now)
             svc     == MovedService(in)
             cust    == rows[in.appt].cust
             fee     == LateFee(rows[in.appt].start, req[r].now)
  <1>1. /\ r \in DOMAIN req /\ req[r].stage = "reading" /\ in.kind = "move"
        /\ TypeOK /\ DOMAIN rows \subseteq DOMAIN req /\ req[r] \in Request
    BY DEF ReadToMove, At, IndInv, StagesFit, TypeOK
  <1>2. CASE refusal # "none" /\ Refuse(r, refusal)
    BY <1>1, <1>2, AnswerRules DEF Refuse
  <1>3. CASE /\ refusal = "none"
             /\ req' = [req EXCEPT ![r].stage = "staffing", ![r].svc = svc,
                                   ![r].cust = cust, ![r].fee = fee]
             /\ UNCHANGED <<rows, customers, clock>>
    <2>1. /\ WindowViolation(in.start, svc, req[r].now) = "none"
          /\ CancelViolation(in, req[r].now) = "none"
      BY <1>3 DEF MoveViolation
    <2>2. fee > 0 => in.ack
      BY <2>1 DEF CancelViolation
    <2>3. Fits(in.start, EndOf(in.start, svc), OpenIntervals(DayOf(in.start)))
      BY <2>1 DEF WindowViolation
    <2> HIDE DEF svc, cust, fee
    <2> DEFINE x == [req[r] EXCEPT !.stage = "staffing", !.svc = svc,
                                   !.cust = cust, !.fee = fee]
    <2>4. x.in = req[r].in /\ x.svc = svc /\ x.fee = fee /\ x.stage = "staffing"
      BY <1>1 DEF Request
    <2>5. req' = [req EXCEPT ![r] = x]
      BY <1>1, <1>3 DEF TypeOK
    <2> HIDE DEF x
    <2>6. Vetted(x)
      BY <1>1, <2>2, <2>3, <2>4 DEF Vetted, Windowed, Staffed
    <2>7. QED
      BY <1>1, <1>3, <2>4, <2>5, <2>6, LocalRules
  <1>4. QED
    BY <1>2, <1>3 DEF ReadToMove

\* A step that takes r to a stage that needs nothing new.
LEMMA GotoRules ==
  ASSUME IndInv, RulesInv, NEW r \in DOMAIN req, NEW stage, Goto(r, stage),
         \/ stage = "reading_back"
         \/ stage \in {"taking", "linking"} /\ req[r].stage \in {"releasing", "taking"},
         UNCHANGED rows
  PROVE  RulesInv'
  <1> DEFINE x == [req[r] EXCEPT !.stage = stage]
  <1>1. req[r] \in Request
    BY DEF IndInv, TypeOK
  <1>2. /\ x.in = req[r].in /\ x.svc = req[r].svc /\ x.staff = req[r].staff
        /\ x.fee = req[r].fee /\ x.stage = stage
    BY <1>1 DEF Request
  <1>3. req' = [req EXCEPT ![r] = x]
    BY DEF Goto, IndInv, TypeOK
  <1> HIDE DEF x
  <1>4. QED
    BY <1>2, <1>3, GoOnRules DEF Windowed, Staffed

LEMMA TransactionRules ==
  ASSUME IndInv, RulesInv, NEW r \in Requests, ReleaseOld(r) \/ TakeNew(r)
  PROVE  RulesInv'
  <1>1. TypeOK /\ DOMAIN rows \subseteq DOMAIN req
    BY DEF IndInv, StagesFit
  <1>2. CASE ReleaseOld(r)
    BY <1>2, GotoRules DEF ReleaseOld, At
  <1>3. CASE TakeNew(r)
    <2>1. r \in DOMAIN req /\ req[r].stage = "taking"
      BY <1>3 DEF TakeNew, At
    <2>2. CASE Goto(r, "linking") /\ UNCHANGED rows
      BY <2>1, <2>2, GotoRules
    <2>3. CASE Refuse(r, "SLOT_UNAVAILABLE")
      BY <1>1, <2>1, <2>3, AnswerRules DEF Refuse
    <2>4. QED
      BY <1>3, <2>2, <2>3 DEF TakeNew
  <1>4. QED
    BY <1>2, <1>3

-----------------------------------------------------------------------------
(* Steps that write *)

\* r writes the rows, and goes to read back what it wrote.  A row that was there
\* is of the same booking, and a fee that it did not have is accounted for; a
\* row that was not there is r's, and honourable.
LEMMA WriteRules ==
  ASSUME IndInv, RulesInv, NEW r \in DOMAIN req, Goto(r, "reading_back"),
         DOMAIN rows' \subseteq DOMAIN rows \cup {r},
         \A i \in DOMAIN rows' \cap DOMAIN rows :
           /\ rows'[i].start = rows[i].start /\ rows'[i].svc = rows[i].svc
           /\ rows'[i].staff = rows[i].staff /\ rows'[i].overbooked = rows[i].overbooked
           /\ rows'[i].fee = rows[i].fee \/ (rows'[i].fee = req[r].fee /\ req[r].in.appt = i),
         r \in DOMAIN rows' \ DOMAIN rows =>
           Honourable(rows'[r], req[r].in) /\ rows'[r].fee = req[r].fee
  PROVE  RulesInv'
  <1> DEFINE x == [req[r] EXCEPT !.stage = "reading_back"]
  <1>1. req[r] \in Request /\ DOMAIN rows \subseteq DOMAIN req /\ Vetted(req[r])
    BY DEF IndInv, TypeOK, StagesFit, RulesInv
  <1>2. x.in = req[r].in /\ x.fee = req[r].fee /\ x.stage = "reading_back"
    BY <1>1 DEF Request
  <1>3. req' = [req EXCEPT ![r] = x]
    BY DEF Goto, IndInv, TypeOK
  <1> HIDE DEF x
  <1>4. /\ DOMAIN req' = DOMAIN req
        /\ \A q \in DOMAIN req : req'[q].in = req[q].in
        /\ \A q \in DOMAIN req \ {r} : req'[q] = req[q]
        /\ req'[r] = x
    BY <1>2, <1>3 DEF IndInv, TypeOK
  <1>5. Vetted(x)
    BY <1>1, <1>2 DEF Vetted, Windowed, Staffed
  <1>6. \A q \in DOMAIN req' : Vetted(req'[q])
    BY <1>4, <1>5 DEF RulesInv
  <1>7. \A i \in DOMAIN rows' : Honourable(rows'[i], req'[i].in)
    <2> SUFFICES ASSUME NEW i \in DOMAIN rows'
                 PROVE  Honourable(rows'[i], req[i].in)
      BY <1>1, <1>4
    <2>1. CASE i \in DOMAIN rows
      BY <2>1 DEF RulesInv, Honourable
    <2>2. CASE i \notin DOMAIN rows
      BY <2>2
    <2>3. QED
      BY <2>1, <2>2
  <1>8. \A i \in DOMAIN rows' : rows'[i].fee > 0 =>
          \E q \in DOMAIN req' : Accounts(q, req'[q].in, i)
    <2> SUFFICES ASSUME NEW i \in DOMAIN rows', rows'[i].fee > 0
                 PROVE  \E q \in DOMAIN req : Accounts(q, req[q].in, i)
      BY <1>4
    <2>1. CASE i \in DOMAIN rows /\ rows'[i].fee = rows[i].fee
      BY <2>1 DEF RulesInv
    <2>2. CASE rows'[i].fee = req[r].fee /\ (r = i \/ req[r].in.appt = i)
      BY <1>1, <2>2 DEF Vetted, Accounts
    <2>3. QED
      BY <2>1, <2>2
  <1>9. QED
    BY <1>6, <1>7, <1>8 DEF RulesInv, Vetted

\* What r inserts is what it was vetted for.
LEMMA NewRowRules ==
  ASSUME IndInv, RulesInv, NEW r \in DOMAIN req, req[r].stage \in {"inserting", "linking"}
  PROVE  Honourable(NewRow(r), req[r].in) /\ NewRow(r).fee = req[r].fee
  <1>1. Vetted(req[r]) /\ Fit(r, req[r])
    BY DEF RulesInv, IndInv, StagesFit
  <1>2. /\ NewRow(r).start = req[r].in.start /\ NewRow(r).svc = req[r].svc
        /\ NewRow(r).staff = req[r].staff /\ NewRow(r).fee = req[r].fee
        /\ NewRow(r).overbooked <=> req[r].in.kind # "move" /\ req[r].in.overbook
    BY DEF NewRow
  <1>3. req[r].in.kind # "move" => req[r].stage = "inserting"
    BY <1>1 DEF Fit
  <1>4. QED
    BY <1>1, <1>2, <1>3 DEF Vetted, Honourable, Windowed, Staffed

LEMMA InsertBookingRules ==
  ASSUME IndInv, RulesInv, NEW r \in Requests, InsertBooking(r)
  PROVE  RulesInv'
  <1>1. /\ r \in DOMAIN req /\ req[r].stage = "inserting" /\ r \notin DOMAIN rows
        /\ TypeOK /\ DOMAIN rows \subseteq DOMAIN req
    BY DEF InsertBooking, At, IndInv, StagesFit, Fit
  <1>2. CASE rows' = Inserted(r, NewRow(r)) /\ Goto(r, "reading_back")
    <2>1. /\ DOMAIN rows' = DOMAIN rows \cup {r}
          /\ rows'[r] = NewRow(r)
          /\ \A i \in DOMAIN rows : rows'[i] = rows[i]
      BY <1>1, <1>2 DEF Inserted
    <2>2. QED
      BY <1>1, <1>2, <2>1, NewRowRules, WriteRules
  <1>3. CASE Refuse(r, "SLOT_UNAVAILABLE")
    BY <1>1, <1>3, AnswerRules DEF Refuse
  <1>4. QED
    BY <1>2, <1>3 DEF InsertBooking

LEMMA LinkAndCommitRules ==
  ASSUME IndInv, RulesInv, NEW r \in Requests, LinkAndCommit(r)
  PROVE  RulesInv'
  <1> DEFINE a == req[r].in.appt
  <1>1. /\ r \in DOMAIN req /\ req[r].stage = "linking" /\ r \notin DOMAIN rows
        /\ Goto(r, "reading_back") /\ a \in DOMAIN rows
        /\ rows' = [Inserted(r, NewRow(r)) EXCEPT ![a].status = "rescheduled", ![a].to = r]
        /\ \A i \in DOMAIN rows : rows[i] \in Row
    BY DEF LinkAndCommit, At, IndInv, StagesFit, Fit, TypeOK
  <1> HIDE DEF a
  <1>2. /\ DOMAIN Inserted(r, NewRow(r)) = DOMAIN rows \cup {r}
        /\ Inserted(r, NewRow(r))[r] = NewRow(r)
        /\ \A i \in DOMAIN rows : Inserted(r, NewRow(r))[i] = rows[i]
    BY <1>1 DEF Inserted
  <1>3. /\ DOMAIN rows' = DOMAIN rows \cup {r}
        /\ rows'[r] = NewRow(r)
        /\ \A i \in DOMAIN rows \ {a} : rows'[i] = rows[i]
        /\ rows'[a] = [rows[a] EXCEPT !.status = "rescheduled", !.to = r]
    BY <1>1, <1>2
  <1>4. /\ rows'[a].start = rows[a].start /\ rows'[a].svc = rows[a].svc
        /\ rows'[a].staff = rows[a].staff /\ rows'[a].overbooked = rows[a].overbooked
        /\ rows'[a].fee = rows[a].fee
    <2>1. rows[a] \in Row
      BY <1>1
    <2>2. rows'[a] = [rows[a] EXCEPT !.status = "rescheduled", !.to = r]
      BY <1>3
    <2>3. QED
      BY <2>1, <2>2, SMTT(30) DEF Row
  <1>5. \A i \in DOMAIN rows' \cap DOMAIN rows :
          /\ rows'[i].start = rows[i].start /\ rows'[i].svc = rows[i].svc
          /\ rows'[i].staff = rows[i].staff /\ rows'[i].overbooked = rows[i].overbooked
          /\ rows'[i].fee = rows[i].fee
    BY <1>3, <1>4
  <1>6. Honourable(rows'[r], req[r].in) /\ rows'[r].fee = req[r].fee
    BY <1>1, <1>3, NewRowRules
  <1>7. QED
    BY <1>1, <1>3, <1>5, <1>6, WriteRules

LEMMA UpdateRules ==
  ASSUME IndInv, RulesInv, NEW r \in Requests, CancelRow(r) \/ MarkStatus(r)
  PROVE  RulesInv'
  <1> DEFINE a == req[r].in.appt
  <1>1. /\ r \in DOMAIN req
        /\ TypeOK /\ DOMAIN rows \subseteq DOMAIN req
        /\ \A i \in DOMAIN rows : rows[i] \in Row
    BY DEF CancelRow, MarkStatus, At, IndInv, StagesFit, TypeOK
  <1>2. CASE CancelRow(r)
    <2>1. /\ Goto(r, "reading_back") /\ a \in DOMAIN rows
          /\ rows' = [rows EXCEPT ![a].status = "cancelled", ![a].fee = req[r].fee]
      BY <1>2 DEF CancelRow, At, IndInv, StagesFit, Fit
    <2> DEFINE n == [rows[a] EXCEPT !.status = "cancelled", !.fee = req[r].fee]
    <2>2. rows' = [rows EXCEPT ![a] = n]
      BY <2>1, <1>1 DEF TypeOK
    <2>3. /\ n.start = rows[a].start /\ n.svc = rows[a].svc /\ n.staff = rows[a].staff
          /\ n.overbooked = rows[a].overbooked /\ n.fee = req[r].fee
      BY <1>1, <2>1 DEF Row
    <2> HIDE DEF n
    <2>4. QED
      BY <1>1, <2>1, <2>2, <2>3, WriteRules
  <1>3. CASE MarkStatus(r)
    <2>1. \/ \E code : Refuse(r, code)
          \/ /\ Goto(r, "reading_back") /\ a \in DOMAIN rows
             /\ rows' = [rows EXCEPT ![a] = [rows[a] EXCEPT !.status = req[r].in.status]]
      BY <1>3 DEF MarkStatus
    <2>2. CASE \E code : Refuse(r, code)
      BY <1>1, <2>2, AnswerRules DEF Refuse
    <2>3. CASE /\ Goto(r, "reading_back") /\ a \in DOMAIN rows
               /\ rows' = [rows EXCEPT ![a] = [rows[a] EXCEPT !.status = req[r].in.status]]
      <3> DEFINE n == [rows[a] EXCEPT !.status = req[r].in.status]
      <3>1. /\ n.start = rows[a].start /\ n.svc = rows[a].svc /\ n.staff = rows[a].staff
            /\ n.overbooked = rows[a].overbooked /\ n.fee = rows[a].fee
        BY <1>1, <2>3 DEF Row
      <3>2. rows' = [rows EXCEPT ![a] = n]
        BY <2>3
      <3> HIDE DEF n
      <3>3. QED
        BY <1>1, <2>3, <3>1, <3>2, WriteRules
    <2>4. QED
      BY <2>1, <2>2, <2>3
  <1>4. QED
    BY <1>2, <1>3

-----------------------------------------------------------------------------
(* The theorems *)

LEMMA CrashRules ==
  ASSUME IndInv, RulesInv, Crash
  PROVE  RulesInv'
  <1>1. /\ DOMAIN req' = DOMAIN req
        /\ \A q \in DOMAIN req : req'[q] = req[q] \/ req'[q] = Returned(req[q].in, "FAILED")
        /\ DOMAIN rows \subseteq DOMAIN req
    BY DEF Crash, IndInv, StagesFit
  <1>2. \A q \in DOMAIN req : req'[q].in = req[q].in /\ Vetted(req'[q])
    BY <1>1, ReturnedIsVetted DEF RulesInv
  <1>3. rows' = rows
    BY DEF Crash
  <1>4. /\ \A q \in DOMAIN req' : Vetted(req'[q])
        /\ \A i \in DOMAIN rows' : Honourable(rows'[i], req'[i].in)
        /\ \A i \in DOMAIN rows' : rows'[i].fee > 0 =>
              \E q \in DOMAIN req' : Accounts(q, req'[q].in, i)
    BY <1>1, <1>2, <1>3 DEF RulesInv
  <1>5. QED
    BY <1>4 DEF RulesInv, Vetted

LEMMA IdleRules ==
  ASSUME RulesInv, UNCHANGED <<rows, req>>
  PROVE  RulesInv'
  BY DEF RulesInv, Vetted

LEMMA InitEstablishesRules == Init => RulesInv
  BY DEF Init, RulesInv

LEMMA NextKeepsRules == IndInv /\ RulesInv /\ [Next]_vars => RulesInv'
  <1> SUFFICES ASSUME IndInv, RulesInv, [Next]_vars
               PROVE  RulesInv'
    OBVIOUS
  <1>1. TypeOK /\ DOMAIN rows \subseteq DOMAIN req
    BY DEF IndInv, StagesFit
  <1>2. CASE \E r \in Requests : Receive(r) \/ Step(r) \/ StatementFails(r)
    <2>1. PICK r \in Requests : Receive(r) \/ Step(r) \/ StatementFails(r)
      BY <1>2
    <2>2. CASE Receive(r)
      BY <2>2, ReceiveRules
    <2>3. CASE PickStaff(r) \/ ResolveCustomer(r) \/ CheckCap(r)
      BY <2>3, PickStaffRules, ResolveCustomerRules, CheckCapRules
    <2>4. CASE ReadToCancel(r) \/ ReadToMove(r)
      BY <2>4, ReadToCancelRules, ReadToMoveRules
    <2>5. CASE ReleaseOld(r) \/ TakeNew(r)
      BY <2>5, TransactionRules
    <2>6. CASE InsertBooking(r) \/ LinkAndCommit(r)
      BY <2>6, InsertBookingRules, LinkAndCommitRules
    <2>7. CASE CancelRow(r) \/ MarkStatus(r)
      BY <2>7, UpdateRules
    <2>8. CASE ReadBack(r)
      BY <1>1, <2>8, AnswerRules DEF ReadBack, At
    <2>9. CASE StatementFails(r)
      BY <1>1, <2>9, AnswerRules DEF StatementFails, InFlight
    <2>10. QED
      BY <2>1, <2>2, <2>3, <2>4, <2>5, <2>6, <2>7, <2>8, <2>9 DEF Step
  <1>3. CASE Crash
    BY <1>3, CrashRules
  <1>4. CASE UNCHANGED <<rows, req>>
    BY <1>4, IdleRules
  <1>5. QED
    BY <1>2, <1>3, <1>4 DEF Next, Tick, Quiesced, vars

LEMMA RulesHold == Spec => []RulesInv
  <1>1. Init => RulesInv
    BY InitEstablishesRules
  <1>2. IndInv /\ RulesInv /\ [Next]_vars => RulesInv'
    BY NextKeepsRules
  <1>3. QED
    BY <1>1, <1>2, Invariance, PTL DEF Spec

\* Every row is one a person can honour, whichever path picked the stylist and
\* however long ago the rules were checked (validateBookingWindow,
\* validateStaffForBooking, pickStaff, the overbooking rules).
THEOREM RowsCanBeHonoured == Spec => []RowsAreHonourable
  <1>1. RulesInv => RowsAreHonourable
    BY RulesInvImplies
  <1>2. QED
    BY <1>1, RulesHold, PTL

\* No fee is on a row that no request acknowledged, however the requests that
\* changed it interleaved (assessCancellation).
THEOREM FeesAreAcknowledged == Spec => []FeeWasAcknowledged
  <1>1. RulesInv => FeeWasAcknowledged
    BY RulesInvImplies
  <1>2. QED
    BY <1>1, RulesHold, PTL
=============================================================================
