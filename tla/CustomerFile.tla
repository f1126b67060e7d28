---------------------------- MODULE CustomerFile -----------------------------
(***************************************************************************)
(* The customers on file: who is put there, by a booking, by the front     *)
(* desk or by a change of number (schedulingService.ts, customers.ts,      *)
(* customerRepo.ts), and whom a call takes its caller for (callRunner.ts). *)
(* A number is typed in several ways; the unique index on the number       *)
(* stands for the person.  Every statement is a step.                      *)
(***************************************************************************)
EXTENDS PhoneNumbers, FiniteSets

CONSTANTS
  People,     \* whoever may call or walk in
  NumberOf,   \* the number of each: a country code and a national number
  Ways,       \* the ways in which numbers are typed
  SalonPhone, \* the salon's own number, as typed
  Names,      \* first names, as they are spelt
  Requests,   \* the requests that are served at once
  Limit       \* how many customers a search returns

Digits == 0..9

ASSUME PeopleAssumption ==
  /\ NumberOf \in [People -> [code : Seq(Digits), national : Seq(Digits)]]
  /\ Ways \subseteq {"international", "dialled", "national", "unmarked", "bare", "bracketed"}
  /\ SalonPhone \in [plus : BOOLEAN, digits : Seq(Digits)]
  /\ Limit \in Nat \ {0}

Home      == callingCodeFromSalonPhone(SalonPhone)
Whole(p)  == NumberOf[p].code \o NumberOf[p].national
Local(p)  == NumberOf[p].code = Home

\* +44 7700 900123, 0044..., 07700 900123, 447700..., 7700 900123, +44 (0)7700...
Typing(p, way) ==
  LET n == NumberOf[p] IN
  CASE way = "international" -> Typed(TRUE, Whole(p))
    [] way = "dialled"       -> Typed(FALSE, <<0, 0>> \o Whole(p))
    [] way = "national"      -> Typed(FALSE, <<0>> \o n.national)
    [] way = "unmarked"      -> Typed(FALSE, Whole(p))
    [] way = "bare"          -> Typed(FALSE, n.national)
    [] way = "bracketed"     -> Typed(TRUE, n.code \o <<0>> \o n.national)

\* From abroad the country is given.
Sayable(p, way) == way \in Ways /\ (way \in {"national", "unmarked", "bare"} => Local(p))

VARIABLES
  file,   \* customers: a sequence, a customer's id being a place in it
  order,  \* by updated_at: the place of each of them, the last one updated coming last
  req     \* the handlers, with the answer of the last request each has served

vars == <<file, order, req>>

Nobody == 0
NoName == "unnamed"
Ids    == 1..Cardinality(People)
Record == [phone : Seq(Digits), of : People, name : Names]
Codes  == {"OK", "VALIDATION_FAILED", "DUPLICATE_CUSTOMER_PHONE", "CUSTOMER_NOT_FOUND",
           "LOOKUP_FAILED"}  \* whatever the runner catches

Idle == [stage |-> "idle", code |-> "OK", id |-> Nobody]

TypeOK ==
  /\ \A i \in DOMAIN file : file[i] \in Record
  /\ DOMAIN file \subseteq Ids
  /\ DOMAIN order = DOMAIN file /\ Range(order) = DOMAIN file
  /\ \A r \in Requests :
       \/ req[r].stage \in {"idle", "done"} /\ req[r].code \in Codes /\ req[r].id \in Ids \cup {Nobody}
       \/ req[r].stage \in {"finding", "inserting", "creating", "renumbering", "renaming", "identifying"}

Withs(phone) == {i \in DOMAIN file : file[i].phone = phone}

\* updated_at is set by a trigger, on every update.
Touched(i) ==
  [j \in DOMAIN order |-> IF j = i THEN Len(order)
                         ELSE IF order[j] > order[i] THEN order[j] - 1
                         ELSE order[j]]

-----------------------------------------------------------------------------
(* The requests *)

Answer(r, code, id) ==
  req' = [req EXCEPT ![r] = [stage |-> "done", code |-> code, id |-> id]]

Free(r) == req[r].stage \in {"idle", "done"}

\* The number in a body is normalised before anything is read or written.
Take(r, stage, p, way, name, id) ==
  LET phone == normalizePhone(Typing(p, way), Home) IN
  /\ Free(r) /\ Sayable(p, way)
  /\ IF phone = NoNumber THEN Answer(r, "VALIDATION_FAILED", Nobody)
     ELSE req' = [req EXCEPT ![r] = [stage |-> stage, who |-> p, phone |-> phone,
                                     name |-> name, id |-> id]]
  /\ UNCHANGED <<file, order>>

\* A booking for somebody who is not known by id, or a customer taken down.
TakeBooking(r)  == \E p \in People, way \in Ways, name \in Names : Take(r, "finding", p, way, name, Nobody)
TakeCustomer(r) == \E p \in People, way \in Ways, name \in Names : Take(r, "creating", p, way, name, Nobody)

\* A customer's new number is put down, or their name put right.
TakeNumber(r) ==
  \E p \in People, way \in Ways, id \in Ids : Take(r, "renumbering", p, way, NoName, id)

TakeName(r) ==
  /\ Free(r)
  /\ \E name \in Names, id \in Ids :
       req' = [req EXCEPT ![r] = [stage |-> "renaming", name |-> name, id |-> id]]
  /\ UNCHANGED <<file, order>>

\* A call comes in, from a number as the telephone company gives it.
TakeCall(r) ==
  /\ Free(r)
  /\ \E p \in People :
       req' = [req EXCEPT ![r] = [stage |-> "identifying", who |-> p, phone |-> Whole(p)]]
  /\ UNCHANGED <<file, order>>

New(r) == [phone |-> req[r].phone, of |-> req[r].who, name |-> req[r].name]

Insert(r) ==
  /\ file' = Append(file, New(r))
  /\ order' = Append(order, Len(file) + 1)
  /\ Answer(r, "OK", Len(file) + 1)

\* findOrCreateByPhone looks first...
Find(r) ==
  /\ req[r].stage = "finding"
  /\ \/ Withs(req[r].phone) = {} /\ req' = [req EXCEPT ![r].stage = "inserting"]
     \/ \E i \in Withs(req[r].phone) : Answer(r, "OK", i)
  /\ UNCHANGED <<file, order>>

\* Mutant of InsertOrFind: without ON CONFLICT.
InsertOrFail(r) ==
  /\ req[r].stage = "inserting"
  /\ \/ Withs(req[r].phone) = {} /\ Insert(r)
     \/ /\ Withs(req[r].phone) # {}
        /\ Answer(r, "DUPLICATE_CUSTOMER_PHONE", Nobody)
        /\ UNCHANGED <<file, order>>

\* Mutant of InsertOrFind: on conflict the name is taken over as well.
InsertOrRename(r) ==
  /\ req[r].stage = "inserting"
  /\ \/ Withs(req[r].phone) = {} /\ Insert(r)
     \/ \E i \in Withs(req[r].phone) :
          /\ file' = [file EXCEPT ![i].name = req[r].name]
          /\ order' = Touched(i)
          /\ Answer(r, "OK", i)

\* ...and inserts then, or touches the row that has come in between.
InsertOrFind(r) ==
  /\ req[r].stage = "inserting"
  /\ \/ Withs(req[r].phone) = {} /\ Insert(r)
     \/ \E i \in Withs(req[r].phone) :
          order' = Touched(i) /\ Answer(r, "OK", i) /\ UNCHANGED file

\* createCustomer.
Create(r) ==
  /\ req[r].stage = "creating"
  /\ \/ Withs(req[r].phone) = {} /\ Insert(r)
     \/ /\ Withs(req[r].phone) # {}
        /\ Answer(r, "DUPLICATE_CUSTOMER_PHONE", Nobody)
        /\ UNCHANGED <<file, order>>

\* updateCustomer: the row is updated by its id; the number must be free.
Renumber(r) ==
  LET i == req[r].id IN
  /\ req[r].stage = "renumbering" /\ i \in DOMAIN file
  /\ \/ /\ Withs(req[r].phone) \subseteq {i}
        /\ file' = [file EXCEPT ![i].phone = req[r].phone, ![i].of = req[r].who]
        /\ order' = Touched(i)
        /\ Answer(r, "OK", i)
     \/ /\ ~(Withs(req[r].phone) \subseteq {i})
        /\ Answer(r, "DUPLICATE_CUSTOMER_PHONE", Nobody) /\ UNCHANGED <<file, order>>

Rename(r) ==
  LET i == req[r].id IN
  /\ req[r].stage = "renaming" /\ i \in DOMAIN file
  /\ file' = [file EXCEPT ![i].name = req[r].name]
  /\ order' = Touched(i)
  /\ Answer(r, "OK", i)

Unknown(r) ==
  /\ req[r].stage \in {"renumbering", "renaming"} /\ req[r].id \notin DOMAIN file
  /\ Answer(r, "CUSTOMER_NOT_FOUND", Nobody)
  /\ UNCHANGED <<file, order>>

\* Mutant of LastSix: the last four, as cards and accounts are known by.
LastFour(d) == SubSeq(d, IF Len(d) > 4 THEN Len(d) - 3 ELSE 1, Len(d))

LastSix(d) == SubSeq(d, IF Len(d) > 6 THEN Len(d) - 5 ELSE 1, Len(d))

\* Mutant of Matching: by the whole number only.
MatchingExactly(t) == Withs(normalizePhone(t, Home))

\* By the number, or by how it ends.  One that makes no sense is searched for as
\* it is.
Matching(t) ==
  LET phone  == normalizePhone(t, Home)
      sought == IF phone = NoNumber THEN t.digits ELSE phone
  IN Withs(phone) \cup {i \in DOMAIN file : IsSuffix(LastSix(sought), file[i].phone)}

\* Those updated after i.
Later(i, found) == {j \in found \ {i} : order[j] > order[i]}

\* The first page: the Limit of them that were updated last.
searchCustomers(t) ==
  LET found == Matching(t)
  IN {i \in found : Cardinality(Later(i, found)) < Limit}

\* findCustomerByPhone: the first that the search brings up, which is the one
\* updated last.
Identify(r) ==
  LET found == searchCustomers(Typed(TRUE, req[r].phone)) IN
  /\ req[r].stage = "identifying"
  /\ \/ found = {} /\ Answer(r, "OK", Nobody)
     \/ \E i \in found : /\ \A j \in found : order[j] <= order[i]
                         /\ Answer(r, "OK", i)
  /\ UNCHANGED <<file, order>>

\* The lookup fails, and the call goes on with nobody.
LookupFails(r) ==
  /\ req[r].stage = "identifying"
  /\ Answer(r, "LOOKUP_FAILED", Nobody)
  /\ UNCHANGED <<file, order>>

-----------------------------------------------------------------------------
(* The specification *)

Init ==
  /\ file = <<>> /\ order = <<>>
  /\ req = [r \in Requests |-> Idle]

Next == \E r \in Requests :
  \/ TakeBooking(r) \/ TakeCustomer(r) \/ TakeNumber(r) \/ TakeName(r) \/ TakeCall(r)
  \/ Find(r) \/ InsertOrFind(r) \/ Create(r)
  \/ Renumber(r) \/ Rename(r) \/ Unknown(r) \/ Identify(r) \/ LookupFails(r)

Spec == Init /\ [][Next]_vars

-----------------------------------------------------------------------------
(* Properties *)

\* However their number was typed, whoever typed it and however the requests
\* overlapped, a person has one record.
OnePersonOneRecord ==
  \A i, j \in DOMAIN file : file[i].of = file[j].of => i = j

\* The step in which handler r, at the given stages, is answered.
Answered(r, stages) == req[r].stage \in stages /\ req'[r].stage = "done"

\* A booking goes under the record of the person whose number was given, and two
\* first bookings at once do not get into each other's way.
BookedUnderTheirNumber ==
  [][\A r \in Requests :
       Answered(r, {"finding", "inserting"}) =>
         /\ req'[r].code = "OK"
         /\ file'[req'[r].id].of = req[r].who]_vars

\* A returning customer keeps the name on file, whatever they book as: only a
\* change of the record itself changes it.
NameIsKept ==
  [][\A i \in DOMAIN file :
       file'[i].name # file[i].name =>
         \E r \in Requests : Answered(r, {"renaming"}) /\ req'[r].id = i]_vars

Ending(phone) == SubSeq(phone, Len(phone) - 5, Len(phone))

\* Those whose numbers end as that of i does.
Alike(i) == {j \in DOMAIN file : Ending(file[j].phone) = Ending(file[i].phone)}

\* Whoever is on file is found by their number, typed in any way at all and even
\* where the salon's country is taken for theirs, and by its last seven digits;
\* unless as many as a search returns, with numbers that end alike, were updated
\* since.
SearchFindsThem ==
  \A i \in DOMAIN file :
    LET p == file[i].of
        n == NumberOf[p].national
    IN Cardinality(Later(i, Alike(i))) < Limit =>
         /\ \A way \in Ways : i \in searchCustomers(Typing(p, way))
         /\ i \in searchCustomers(Typed(FALSE, SubSeq(n, Len(n) - 6, Len(n))))

\* A caller is taken for themselves; for a stranger if they are not on file or the
\* lookup failed; and for nobody else, unless a number of somebody else's on file
\* ends in the same six digits.
CallersAreThemselves ==
  [][\A r \in Requests :
       LET mine == {i \in DOMAIN file : file[i].of = req[r].who} IN
       Answered(r, {"identifying"}) =>
         \/ \E i \in DOMAIN file \ mine : Ending(file[i].phone) = Ending(req[r].phone)
         \/ req'[r].id \in mine
         \/ req'[r].id = Nobody /\ (mine = {} \/ req'[r].code = "LOOKUP_FAILED")]_vars
=============================================================================
