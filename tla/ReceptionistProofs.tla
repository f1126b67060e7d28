-------------------------- MODULE ReceptionistProofs --------------------------
(***************************************************************************)
(* Theorems about Receptionist for every menu, diary and vocabulary, any   *)
(* number of appointments and any limits: nothing is staged that was not   *)
(* read out, named and asked for, and a yes is carried out.                *)
(*                                                                         *)
(* What is staged rests on what the session knows, which rests on what the *)
(* history holds; so Sound says of every part of the session what the      *)
(* caller has heard or said of it. It also counts rounds: a result that    *)
(* offers times would go untold, and count as read out, if it were         *)
(* returned in the last one. That needs the policy's next call after a     *)
(* failure (LookedForAgain).                                               *)
(***************************************************************************)
EXTENDS Receptionist, FiniteSetTheorems, TLAPS

Turn  == [says : Utterances, round : 1..MaxToolRounds, seen : SUBSET Call,
          call : Call \cup {None}]
Diary == [booked : {B \in SUBSET Appointment : IsFiniteSet(B)}, made : 0..MaxAppointments]
Past  == [read : SUBSET Time, topics : SUBSET Services, move : BOOLEAN,
          gone : SUBSET (1..MaxAppointments)]

-----------------------------------------------------------------------------
(* The invariant: what holds between two steps of the session s, the messages h, *)
(* the turn t, the diary d and the history p *)

\* Whatever service the session knows of, the caller has named or has an
\* appointment for.
ServicesWereNamed(s, p) ==
  /\ s.service \in p.topics \cup {None}
  /\ \A i \in DOMAIN s.candidates : s.candidates[i].service \in p.topics
  /\ s.pending # None /\ s.pending.action = "book" => s.pending.service \in p.topics

MovesWereAskedFor(s, p) ==
  /\ s.activeIntent = "reschedule" => p.move
  /\ s.pending # None /\ s.pending.action = "reschedule" => p.move

\* Ids are given out once; what is gone is neither in the diary nor listed nor
\* staged, and a change that landed has nothing left to change.
GoneIsGone(s, d, p) ==
  /\ p.gone \subseteq 1..d.made
  /\ \A a \in d.booked : a.id \in (1..d.made) \ p.gone
  /\ \A i \in DOMAIN s.candidates : s.candidates[i].id \in (1..d.made) \ p.gone
  /\ s.pending # None =>
       /\ s.pending.action = "book" => s.pending.appointment = None
       /\ s.pending.action # "book" => s.pending.appointment \in (1..d.made) \ p.gone
       /\ s.pending.action # "book" /\ s.pending.landed =>
            \A a \in d.booked : a.id # s.pending.appointment

TimesWereRead(s, p) ==
  s.pending # None =>
    IF s.pending.action = "cancel" THEN s.pending.time = None ELSE s.pending.time \in p.read

OffersWereRead(h, p) == Range(h.offered) \subseteq p.read

\* A closing call is over, with nothing staged.
ClosingIsClean(s) == s.state = "CLOSING" => s.ended /\ s.pending = None

Staging(s, d, p) ==
  /\ ServicesWereNamed(s, p) /\ MovesWereAskedFor(s, p) /\ GoneIsGone(s, d, p)
  /\ TimesWereRead(s, p) /\ ClosingIsClean(s)

\* The words of the turn count as history.
WordsAreNoted(h, u, p) ==
  {u.names} \cup {h.menu[i] : i \in Place(h.menu, u)} \subseteq p.topics \cup {None}

\* What a call asks for was read out, named and asked for; only a commit is called
\* with something staged.
CallIsFounded(s, c, p) ==
  /\ c.tool = "commit_pending_action" => CanUse(s, "commit_pending_action")
  /\ c.tool # "commit_pending_action" => s.pending = None
  /\ c.tool = "propose_reschedule" => s.activeIntent = "reschedule" /\ c.time \in p.read
  /\ c.tool = "propose_booking" => c.time \in p.read /\ c.service \in p.topics
  /\ c.tool \in {"check_availability", "select_service"} => c.service \in p.topics
  /\ c.tool = "propose_cancellation" => c.time = None

\* A call would be made again if it failed; few precede a question for times.
CallIsInTime(s, h, t) ==
  /\ t.call.tool = "commit_pending_action" => t.round = 1
  /\ t.call.tool = "check_availability" =>
       /\ t.round \in {1, 2}
       /\ t.round = 2 => serviceIdFor(s, t.says) # None
  /\ \/ t.call.tool = "request_callback"
     \/ t.call.tool = "propose_cancellation" /\ CanUse(s, "propose_cancellation")
        /\ \E i \in DOMAIN s.candidates : s.candidates[i].id = t.call.appointment
     \/ t.call \in policy(s, h, Error, t.says)

InTurn(s, h, t, p) ==
  t.call # None =>
    /\ ~s.ended /\ ~h.asked
    /\ WordsAreNoted(h, t.says, p)
    /\ CallIsFounded(s, t.call, p)
    /\ CallIsInTime(s, h, t)

Sound(s, h, t, d, p) ==
  /\ s \in Session /\ h \in Heard /\ t \in Turn /\ d \in Diary /\ p \in Past
  /\ Staging(s, d, p) /\ OffersWereRead(h, p) /\ InTurn(s, h, t, p)

IndInv == Sound(session, heard, turn, diary, past)

-----------------------------------------------------------------------------
(* What the policy may do *)

\* The results of tools.
Result ==
  [kind : {"nothing", "error", "services", "hours", "none", "service", "staged", "done",
           "captured", "ended"}] \cup
  [kind : {"slots", "full", "failed"}, list : Seq(Time)] \cup
  [kind : {"many", "one", "chosen"}, list : Seq(Appointment) \ {<<>>}]

IsTool(m) == "tool" \in DOMAIN m

LEMMA Either ==
  ASSUME NEW a, NEW b, NEW x \in a ?? b
  PROVE  x \in a \/ (a = {} /\ x \in b)
  BY DEF ??

LEMMA SayingIsNoTool == ASSUME NEW k PROVE ~IsTool(Say(k))
  BY DEF IsTool, Say

LEMMA Used ==
  ASSUME NEW x, NEW v, NEW q, NEW i
  PROVE  /\ Use(x, v, q, i).tool = x /\ Use(x, v, q, i).service = v
         /\ Use(x, v, q, i).time = q /\ Use(x, v, q, i).appointment = i
         /\ IsTool(Use(x, v, q, i))
  BY DEF Use, IsTool

LEMMA Whenever ==
  ASSUME NEW c \in BOOLEAN, NEW x, NEW m \in When(c, x)
  PROVE  c /\ m = x
  BY DEF When

\* A tool is called about an answer only to cancel the appointment in it.
LEMMA Reaction ==
  ASSUME NEW s, NEW h, NEW r \in Result, NEW u, NEW m \in reactTo(s, h, r, u), IsTool(m)
  PROVE  /\ r.kind \in {"one", "chosen"}
         /\ m = ProposeCancellationOf(r.list[1].id)
         /\ r.kind = "one" => CanUse(s, "propose_cancellation")
  BY SayingIsNoTool DEF reactTo, AboutTheDiary, When, Result

\* Only a beginning and a failure leave it to the words what to do next.
LEMMA Wordless ==
  ASSUME NEW s, NEW h, NEW r \in Result, NEW u, reactTo(s, h, r, u) = {}
  PROVE  \/ r.kind \in {"nothing", "error", "ended"}
         \/ r.kind = "slots" /\ s.pending # None
  BY DEF reactTo, AboutTheDiary, When, Result

LEMMA Speechless ==
  ASSUME NEW s, NEW h, NEW r, NEW u, r.kind \in {"nothing", "error", "ended"}
  PROVE  reactTo(s, h, r, u) = {}
  BY DEF reactTo

LEMMA PlacesAreInList ==
  ASSUME NEW S, NEW list \in Seq(S), NEW u
  PROVE  /\ Place(list, u) \subseteq DOMAIN list
         /\ \A i, j \in Place(list, u) : u.nth \in Int => i = j
  BY DEF Place

LEMMA PickedServices ==
  ASSUME NEW menu \in Seq(Services), NEW u \in Utterance, NEW v \in pickService(menu, u)
  PROVE  /\ v \in Services
         /\ v \in {u.names} \cup {menu[i] : i \in Place(menu, u)}
         /\ \A w \in pickService(menu, u) : w = v
  BY PlacesAreInList DEF pickService, ??, Utterance, Place

LEMMA PickedSlots ==
  ASSUME NEW slots \in Seq(Time), NEW u \in Utterance, NEW x \in pickSlot(slots, u)
  PROVE  x \in Range(slots) /\ x \in Time
  BY PlacesAreInList DEF pickSlot, ??, Range, First

LEMMA PickedAppointments ==
  ASSUME NEW list \in Seq(Appointment), NEW u \in Utterance, NEW a \in pickAppointment(list, u)
  PROVE  a \in Appointment
  BY PlacesAreInList DEF pickAppointment, ??, First, Only

LEMMA Speaking ==
  ASSUME NEW S, NEW list \in Seq(S), NEW limit \in Nat \ {0}
  PROVE  /\ Spoken(list, limit) \in Seq(S)
         /\ Range(Spoken(list, limit)) \subseteq Range(list)
         /\ Range(list) \subseteq S
  BY DEF Spoken, Min2, Range

\* Of the two readings of an hour one is the nearer.
LEMMA Nearest ==
  ASSUME NEW u \in Utterances, u.clock # None, NEW slots \in Seq(Time), slots # <<>>
  PROVE  nearestReading(spokenTimeToLocal(u), slots) \in Hours
<1> DEFINE R == spokenTimeToLocal(u)
           anchor == slots[1].hour
           Nearer(h, g) == \/ Apart(h, anchor) < Apart(g, anchor)
                           \/ Apart(h, anchor) = Apart(g, anchor) /\ h <= g
<1>1. u \in Utterance /\ R \subseteq Hours /\ Hours \subseteq Nat /\ anchor \in Nat
  <2>1. u \in Utterance /\ R \subseteq Hours /\ Hours \subseteq Nat
    BY ReceptionistAssumption
  <2>2. slots[1] \in Time
    OBVIOUS
  <2> QED BY <2>1, <2>2 DEF Time
<1>2. PICK a \in Nat, b \in Nat : R = {a, b}
  <2>1. u.clock \in [hour : 1..23, half : {"am", "pm", None}]
    BY <1>1 DEF Utterance
  <2>2. \E a, b : R = {a, b}
    <3>1. CASE u.clock.half = "am"
      BY <3>1 DEF spokenTimeToLocal
    <3>2. CASE u.clock.half # "am" /\ u.clock.half = "pm"
      <4>1. R = {IF u.clock.hour = 12 THEN 12 ELSE u.clock.hour + 12}
        BY <3>2 DEF spokenTimeToLocal
      <4> QED BY <4>1
    <3>3. CASE u.clock.half # "am" /\ u.clock.half # "pm" /\ u.clock.hour > 12
      BY <3>3 DEF spokenTimeToLocal
    <3>4. CASE u.clock.half # "am" /\ u.clock.half # "pm" /\ ~(u.clock.hour > 12)
      <4>1. R = {u.clock.hour} \cup {(u.clock.hour % 12) + 12}
        BY <3>4 DEF spokenTimeToLocal
      <4>2. R = {u.clock.hour, (u.clock.hour % 12) + 12}
        BY <4>1
      <4> QED BY <4>2
    <3> QED BY <3>1, <3>2, <3>3, <3>4
  <2> QED BY <2>2, <1>1
<1>3. \E h \in R : \A g \in R : Nearer(h, g)
  <2>1. \A x, y \in Nat : Nearer(x, x) /\ (Nearer(x, y) \/ Nearer(y, x))
    <3>1. anchor \in Nat
      BY <1>1
    <3> QED BY <3>1 DEF Apart
  <2> QED BY <2>1, <1>2
<1>4. nearestReading(R, slots) = CHOOSE h \in R : \A g \in R : Nearer(h, g)
  BY DEF nearestReading
<1> QED BY <1>1, <1>3, <1>4

LEMMA Neither ==
  ASSUME NEW a, NEW b, a ?? b = {}
  PROVE  a = {} /\ b = {}
  BY DEF ??

LEMMA Settled ==
  ASSUME NEW s \in Session
  PROVE  /\ settledAppointmentId(s) \in (1..MaxAppointments) \cup {None}
         /\ settledServiceId(s) \in
              {s.service} \cup {s.candidates[i].service : i \in DOMAIN s.candidates}
         /\ settledServiceId(s) \in Services \cup {None}
<1>1. Len(s.candidates) = 1 =>
        1 \in DOMAIN s.candidates /\ s.candidates[1] \in Appointment
  BY DEF Session
<1> QED BY <1>1 DEF settledAppointmentId, settledServiceId, Session, Appointment

\* The services there is talk of.
Mentioned(s, h, u) ==
  {u.names, s.service} \cup {h.menu[i] : i \in Place(h.menu, u)}
  \cup {s.candidates[i].service : i \in DOMAIN s.candidates}

\* What a call made of the caller's words is founded on.
Proper(s, h, u, m) ==
  /\ m \in Call
  /\ IF m.tool = "commit_pending_action"
     THEN s.pending # None /\ CanUse(s, "commit_pending_action") ELSE s.pending = None
  /\ m.tool = "propose_reschedule" =>
       s.activeIntent = "reschedule" /\ m.time \in Range(h.offered)
  /\ m.tool = "propose_booking" => m.time \in Range(h.offered)
  /\ m.tool \in {"propose_booking", "check_availability", "select_service"} =>
       m.service \in Mentioned(s, h, u) \cap Services
  /\ m.tool = "propose_cancellation" => m.time = None

\* A call about an appointment, or about nothing in particular.
LEMMA PlainIsProper ==
  ASSUME NEW s, NEW h, NEW u, s.pending = None,
         NEW x \in Tools \ {"commit_pending_action", "propose_reschedule", "propose_booking",
                             "check_availability", "select_service"},
         NEW i \in (1..MaxAppointments) \cup {None}
  PROVE  Proper(s, h, u, Use(x, None, None, i))
<1>1. Use(x, None, None, i) \in Call
  BY DEF Use, Call
<1> QED BY <1>1, Used DEF Proper

LEMMA ServiceIsProper ==
  ASSUME NEW s, NEW h, NEW u, s.pending = None,
         NEW x \in {"check_availability", "select_service"},
         NEW v \in Mentioned(s, h, u) \cap Services, NEW q \in Time \cup {None}
  PROVE  Proper(s, h, u, Use(x, v, q, None))
<1>1. Use(x, v, q, None) \in Call
  BY DEF Use, Call, Tools
<1> QED BY <1>1, Used DEF Proper

LEMMA ConfirmingIsProper ==
  ASSUME NEW s, NEW h, NEW u, NEW m \in Confirming(s, u), IsTool(m)
  PROVE  Proper(s, h, u, m)
<1>1. /\ m = Use("commit_pending_action", None, None, None)
      /\ s.pending # None /\ CanUse(s, "commit_pending_action")
  BY SayingIsNoTool DEF Confirming
<1>2. m \in Call
  BY <1>1 DEF Use, Call, Tools
<1> QED BY <1>1, <1>2, Used DEF Proper

LEMMA WhichAppointmentIsProper ==
  ASSUME NEW s, NEW h \in Heard, NEW u \in Utterance, s.pending = None,
         NEW m \in WhichAppointment(s, h, u), IsTool(m)
  PROVE  Proper(s, h, u, m) /\ m.tool \in {"propose_cancellation", "select_appointment"}
<1> DEFINE otherwise == {"cancel", "move", "book", "lookup", "price", "hours", "more"}
           Chosen == {IF h.intent = "cancel" /\ CanUse(s, "propose_cancellation")
                      THEN ProposeCancellationOf(a.id)
                      ELSE Use("select_appointment", None, None, a.id) :
                        a \in pickAppointment(h.listed, u)}
<1>1. m \in Chosen ?? When(~Says(u, otherwise), Say("which?"))
  BY DEF WhichAppointment
<1>2. m \in Chosen
  <2> HIDE DEF Chosen
  <2>1. m \in Chosen \/ m \in When(~Says(u, otherwise), Say("which?"))
    BY <1>1, Either
  <2> QED BY <2>1, SayingIsNoTool DEF When
<1>3. PICK a \in pickAppointment(h.listed, u) :
        m = IF h.intent = "cancel" /\ CanUse(s, "propose_cancellation")
            THEN ProposeCancellationOf(a.id) ELSE Use("select_appointment", None, None, a.id)
  BY <1>2
<1>4. a.id \in (1..MaxAppointments) \cup {None}
  <2>1. h.listed \in Seq(Appointment)
    BY DEF Heard
  <2>2. a \in Appointment
    BY <2>1, PickedAppointments
  <2> QED BY <2>2 DEF Appointment
<1>5. PICK x \in {"propose_cancellation", "select_appointment"} : m = Use(x, None, None, a.id)
  BY <1>3 DEF ProposeCancellationOf
<1>6. Proper(s, h, u, Use(x, None, None, a.id))
  BY <1>4, PlainIsProper DEF Tools
<1>7. m.tool = x
  BY <1>5, Used
<1> QED BY <1>5, <1>6, <1>7

LEMMA WhichServiceIsProper ==
  ASSUME NEW s, NEW h \in Heard, NEW u \in Utterance, s.pending = None,
         NEW m \in WhichService(h, u)
  PROVE  /\ Proper(s, h, u, m) /\ IsTool(m)
         /\ \A n \in WhichService(h, u) : n = m
<1>1. PICK v \in pickService(h.menu, u) :
        m = IF u.when THEN Check(v, None) ELSE Use("select_service", v, None, None)
  BY DEF WhichService
<1>2. h.menu \in Seq(Services)
  BY DEF Heard
<1>3. v \in Mentioned(s, h, u) \cap Services
  BY <1>2, PickedServices DEF Mentioned
<1>4. Proper(s, h, u, m) /\ IsTool(m)
  BY <1>1, <1>3, ServiceIsProper, Used DEF Check
<1>5. \A w \in pickService(h.menu, u) : w = v
  BY <1>2, PickedServices
<1> QED BY <1>1, <1>4, <1>5 DEF WhichService

\* The parts of WhichTime.
Elsewhen(s, h, u) ==
  When(pickSlot(h.offered, u) = {} /\ u.clock # None /\ serviceIdFor(s, u) # None,
       Check(serviceIdFor(s, u),
             [day  |-> h.offered[1].day,
              hour |-> nearestReading(spokenTimeToLocal(u), h.offered)]))

Moving(s) == IF s.activeIntent = "reschedule" THEN settledAppointmentId(s) ELSE None

Moved(s, h, u) ==
  {Use("propose_reschedule", None, t, Moving(s)) :
     t \in {x \in pickSlot(h.offered, u) : Moving(s) # None /\ CanUse(s, "propose_reschedule")}}

Booked(s, h, u) ==
  {Use("propose_booking", serviceIdFor(s, u), t, None) :
     t \in {x \in pickSlot(h.offered, u) :
              serviceIdFor(s, u) # None /\ CanUse(s, "propose_booking")}}

LEMMA TimeIs ==
  ASSUME NEW s, NEW h, NEW u
  PROVE  WhichTime(s, h, u) =
           IF h.offered = <<>> THEN {}
           ELSE Elsewhen(s, h, u) ?? (Moved(s, h, u) ?? Booked(s, h, u))
  BY DEF WhichTime, Elsewhen, Moving, Moved, Booked

LEMMA ServiceFor ==
  ASSUME NEW s \in Session, NEW h, NEW u \in Utterance, serviceIdFor(s, u) # None
  PROVE  serviceIdFor(s, u) \in Mentioned(s, h, u) \cap Services
  BY DEF serviceIdFor, Mentioned, Session, Utterance

LEMMA WhichTimeIsProper ==
  ASSUME NEW s \in Session, NEW h \in Heard, NEW u \in Utterances, s.pending = None,
         NEW m \in WhichTime(s, h, u)
  PROVE  Proper(s, h, u, m)
<1>1. h.offered # <<>> /\ h.offered \in Seq(Time) /\ u \in Utterance
  BY ReceptionistAssumption, TimeIs DEF Heard
<1>2. m \in Elsewhen(s, h, u) \/ m \in Moved(s, h, u) \/ m \in Booked(s, h, u)
  BY TimeIs, Either
<1>3. CASE m \in Elsewhen(s, h, u)
  <2>1. u.clock # None /\ serviceIdFor(s, u) # None
    BY <1>3 DEF Elsewhen, When
  <2>2. m = Check(serviceIdFor(s, u),
                  [day  |-> h.offered[1].day,
                   hour |-> nearestReading(spokenTimeToLocal(u), h.offered)])
    BY <1>3 DEF Elsewhen, When
  <2>3. h.offered[1] \in Time
    BY <1>1
  <2>4. [day  |-> h.offered[1].day,
         hour |-> nearestReading(spokenTimeToLocal(u), h.offered)] \in Time
    BY <1>1, <2>1, <2>3, Nearest DEF Time
  <2> QED BY <1>1, <2>1, <2>2, <2>4, ServiceIsProper, ServiceFor DEF Check
<1>4. CASE m \in Moved(s, h, u)
  <2>1. PICK t \in pickSlot(h.offered, u) :
          Moving(s) # None /\ m = Use("propose_reschedule", None, t, Moving(s))
    BY <1>4 DEF Moved
  <2>2. t \in Range(h.offered) /\ t \in Time
    BY <1>1, PickedSlots
  <2>3. s.activeIntent = "reschedule" /\ Moving(s) \in (1..MaxAppointments) \cup {None}
    BY <2>1, Settled DEF Moving
  <2>4. m \in Call
    BY <2>1, <2>2, <2>3 DEF Use, Call, Tools
  <2> QED BY <2>1, <2>2, <2>3, <2>4, Used DEF Proper
<1>5. CASE m \in Booked(s, h, u)
  <2>1. PICK t \in pickSlot(h.offered, u) :
          /\ serviceIdFor(s, u) # None
          /\ m = Use("propose_booking", serviceIdFor(s, u), t, None)
    BY <1>5 DEF Booked
  <2>2. t \in Range(h.offered) /\ t \in Time
    BY <1>1, PickedSlots
  <2>3. serviceIdFor(s, u) \in Mentioned(s, h, u) \cap Services
    BY <1>1, <2>1, ServiceFor
  <2>4. m \in Call
    BY <2>1, <2>2, <2>3 DEF Use, Call, Tools
  <2> QED BY <2>1, <2>2, <2>3, <2>4, Used DEF Proper
<1> QED BY <1>2, <1>3, <1>4, <1>5

LEMMA HandoverIsPlain ==
  ASSUME NEW s, NEW h, NEW u, NEW m \in Handover(s, h, u), IsTool(m)
  PROVE  m.tool \in {"request_callback", "end_call"}
         /\ m = Use(m.tool, None, None, None)
<1>1. \/ m \in Escalated(s, u) \/ m \in Complaint(u) \/ m \in CallbackDetails(s, h, u)
      \/ m \in Goodbye(u)
  BY Either DEF Handover
<1>2. m \in Details(u) => m = Use("request_callback", None, None, None)
  BY SayingIsNoTool DEF Details
<1>3. m \in Goodbye(u) => m = Use("end_call", None, None, None)
  BY DEF Goodbye, When
<1>4. m \notin Complaint(u)
  BY SayingIsNoTool DEF Complaint, When
<1>5. m = Use("request_callback", None, None, None) \/ m = Use("end_call", None, None, None)
  BY <1>1, <1>2, <1>3, <1>4 DEF Escalated, CallbackDetails
<1> QED BY <1>5, Used

\* The calls of the later rules that name no service.
Inquiries == {"list_services", "get_salon_info", "find_appointments", "propose_cancellation"}

LEMMA RequestIsProper ==
  ASSUME NEW s \in Session, NEW h, NEW u \in Utterance, s.pending = None,
         NEW m \in Request(s, h, u), IsTool(m)
  PROVE  Proper(s, h, u, m)
<1>1. \/ m \in TheRest(u) \/ m \in Another(h, u) \/ m \in Named(s, u) \/ m \in Information(u)
      \/ m \in CancelMoveOrLookUp(s, u) \/ m \in Book(s, h, u) \/ m \in BareTime(s, u)
  BY Either DEF Request
<1>2. ASSUME NEW x \in Inquiries, NEW i \in (1..MaxAppointments) \cup {None},
             m = Use(x, None, None, i)
      PROVE  Proper(s, h, u, m)
  BY <1>2, PlainIsProper DEF Inquiries, Tools
<1>3. ASSUME NEW x \in {"check_availability", "select_service"},
             NEW v \in Mentioned(s, h, u) \cap Services, m = Use(x, v, None, None)
      PROVE  Proper(s, h, u, m)
  BY <1>3, ServiceIsProper
<1>4. CASE m \in TheRest(u)
  BY <1>2, <1>4 DEF TheRest, When, ListServices, Inquiries
<1>5. CASE m \in Another(h, u)
  BY <1>2, <1>5, SayingIsNoTool DEF Another, When, ListServices, Inquiries
<1>6. u.names # None => u.names \in Mentioned(s, h, u) \cap Services
  BY DEF Mentioned, Utterance
<1>7. CASE m \in Named(s, u)
  <2>1. /\ u.names # None
        /\ \/ m = Use("check_availability", u.names, None, None)
           \/ m = Use("select_service", u.names, None, None)
    BY <1>7 DEF Named, When, ??, Check
  <2> QED BY <1>3, <1>6, <2>1
<1>8. CASE m \in Information(u)
  <2>1. \/ m = Use("get_salon_info", None, None, None)
        \/ m = ListServices
        \/ u.names # None /\ m = Use("select_service", u.names, None, None)
    BY <1>8 DEF Information, When, ??
  <2> QED BY <1>2, <1>3, <1>6, <2>1 DEF ListServices, Inquiries
<1>9. CASE m \in CancelMoveOrLookUp(s, u)
  <2>1. \/ m = ProposeCancellationOf(settledAppointmentId(s))
        \/ m = FindAppointments
    BY <1>9, SayingIsNoTool DEF CancelMoveOrLookUp, When, ??
  <2> QED BY <1>2, <2>1, Settled DEF ProposeCancellationOf, FindAppointments, Inquiries
<1>10. CASE m \in Book(s, h, u)
  <2>1. \/ m = ListServices
        \/ /\ serviceIdFor(s, u) # None
           /\ m = Use("check_availability", serviceIdFor(s, u), None, None)
    BY <1>10, SayingIsNoTool DEF Book, When, Check
  <2> QED BY <1>2, <1>3, <2>1, ServiceFor DEF ListServices, Inquiries
<1>11. CASE m \in BareTime(s, u)
  <2>1. \E v : /\ v \in {serviceIdFor(s, u), settledServiceId(s)} /\ v # None
              /\ m = Use("check_availability", v, None, None)
    BY <1>11 DEF BareTime, When, Check
  <2>2. settledServiceId(s) # None => settledServiceId(s) \in Mentioned(s, h, u) \cap Services
    BY Settled DEF Mentioned
  <2> QED BY <1>3, <2>1, <2>2, ServiceFor
<1> QED BY <1>1, <1>4, <1>5, <1>7, <1>8, <1>9, <1>10, <1>11

\* A call that the caller's words led to: something is staged only when it is to be
\* committed.
LEMMA WordsAreProper ==
  ASSUME NEW s \in Session, NEW h \in Heard, NEW r, NEW u \in Utterances,
         reactTo(s, h, r, u) = {},
         NEW m \in policy(s, h, r, u), IsTool(m)
  PROVE  Proper(s, h, u, m)
<1>1. m \in Answer(s, h, u) ?? (Handover(s, h, u) ?? (Request(s, h, u) ?? {notUnderstood}))
  BY DEF policy, ??
<1>2. \/ m \in Answer(s, h, u)
      \/ /\ Answer(s, h, u) = {}
         /\ m \in Handover(s, h, u) \/ m \in Request(s, h, u)
  <2>1. \/ m \in Answer(s, h, u)
        \/ /\ Answer(s, h, u) = {}
           /\ m \in Handover(s, h, u) \/ m \in Request(s, h, u) \/ m \in {notUnderstood}
    BY <1>1, Either
  <2> QED BY <2>1, SayingIsNoTool DEF notUnderstood
<1>3. Answer(s, h, u) = {} => Confirming(s, u) = {}
  BY Neither DEF Answer
<1>4. Confirming(s, u) = {} => s.pending = None
  BY DEF Confirming
<1>5. u \in Utterance
  BY ReceptionistAssumption
<1>6. CASE m \in Answer(s, h, u)
  <2>1. \/ m \in Confirming(s, u)
        \/ /\ Confirming(s, u) = {}
           /\ m \in WhichAppointment(s, h, u) \/ m \in WhichService(h, u)
              \/ m \in WhichTime(s, h, u)
    BY <1>6, Either DEF Answer
  <2> QED BY <1>4, <1>5, <2>1, ConfirmingIsProper, WhichAppointmentIsProper,
             WhichServiceIsProper, WhichTimeIsProper
<1>7. CASE Answer(s, h, u) = {} /\ m \in Handover(s, h, u)
  <2>1. /\ m.tool \in {"request_callback", "end_call"}
        /\ m = Use(m.tool, None, None, None)
    BY <1>7, HandoverIsPlain
  <2>2. \A x \in {"request_callback", "end_call"} : Proper(s, h, u, Use(x, None, None, None))
    BY <1>3, <1>4, <1>7, PlainIsProper DEF Tools
  <2> QED BY <2>1, <2>2
<1>8. CASE Answer(s, h, u) = {} /\ m \in Request(s, h, u)
  BY <1>3, <1>4, <1>5, <1>8, RequestIsProper
<1> QED BY <1>2, <1>6, <1>7, <1>8

-----------------------------------------------------------------------------
(* The next call after one that failed *)

\* What a call that fails leaves of the session.
Tried(s, c, z) ==
  \/ z = s
  \/ c.tool = "check_availability" /\ z = [s EXCEPT !.service = c.service]
  \/ c.tool = "propose_booking" /\ z = [s EXCEPT !.activeIntent = "book"]
  \/ c.tool = "propose_cancellation" /\ z = [s EXCEPT !.activeIntent = "cancel"]
  \/ c.tool = "propose_reschedule" /\ z = [s EXCEPT !.activeIntent = "reschedule"]

LEMMA TriedKeeps ==
  ASSUME NEW s \in Session, NEW c \in Call, NEW z, Tried(s, c, z)
  PROVE  /\ z.pending = s.pending /\ z.state = s.state
         /\ z.candidates = s.candidates /\ z.appointment = s.appointment
         /\ z.service = s.service \/ (c.tool = "check_availability" /\ z.service = c.service)
         /\ toolsForState(z) = toolsForState(s)
         /\ \A x : CanUse(z, x) <=> CanUse(s, x)
         /\ settledAppointmentId(z) = settledAppointmentId(s)
         /\ z.activeIntent # s.activeIntent =>
              z.activeIntent = CASE c.tool = "propose_booking" -> "book"
                                 [] c.tool = "propose_cancellation" -> "cancel"
                                 [] OTHER -> "reschedule"
         /\ z.activeIntent # s.activeIntent =>
              c.tool \in {"propose_booking", "propose_cancellation", "propose_reschedule"}
<1>1. /\ z.pending = s.pending /\ z.state = s.state
      /\ z.candidates = s.candidates /\ z.appointment = s.appointment
      /\ z.service = s.service \/ (c.tool = "check_availability" /\ z.service = c.service)
  BY DEF Tried, Session
<1>2. toolsForState(z) = toolsForState(s)
  BY <1>1 DEF toolsForState
<1>3. settledAppointmentId(z) = settledAppointmentId(s)
  BY <1>1 DEF settledAppointmentId
<1>4. /\ z.activeIntent # s.activeIntent =>
           z.activeIntent = CASE c.tool = "propose_booking" -> "book"
                              [] c.tool = "propose_cancellation" -> "cancel"
                              [] OTHER -> "reschedule"
      /\ z.activeIntent # s.activeIntent =>
           c.tool \in {"propose_booking", "propose_cancellation", "propose_reschedule"}
  BY DEF Tried, Session
<1> QED BY <1>1, <1>2, <1>3, <1>4 DEF CanUse

\* Words that led to a time being picked or looked for still do when the tool failed.
LEMMA TimeStaysPicked ==
  ASSUME NEW s \in Session, NEW h, NEW u, NEW c \in WhichTime(s, h, u), c \in Call,
         NEW z, Tried(s, c, z), c.tool = "check_availability" => c.service # None
  PROVE  WhichTime(z, h, u) # {}
<1> USE TriedKeeps
<1>1. h.offered # <<>>
  BY TimeIs
<1>2. c \in Elsewhen(s, h, u) \/ c \in Moved(s, h, u) \/ c \in Booked(s, h, u)
  BY TimeIs, Either
<1>3. CASE c \in Elsewhen(s, h, u)
  <2>1. serviceIdFor(z, u) # None /\ pickSlot(h.offered, u) = {} /\ u.clock # None
    BY <1>3, Used DEF Elsewhen, When, serviceIdFor, Check
  <2>2. Elsewhen(z, h, u) # {}
    BY <2>1 DEF Elsewhen, When
  <2> QED BY <1>1, <2>2, TimeIs, Neither
<1>4. CASE c \in Moved(s, h, u)
  <2>1. c.tool = "propose_reschedule" /\ s.activeIntent = "reschedule"
    BY <1>4, Used DEF Moved, Moving
  <2>2. Moving(z) = Moving(s)
    BY <2>1 DEF Moving
  <2>3. Moved(z, h, u) = Moved(s, h, u)
    BY <2>2 DEF Moved
  <2> QED BY <1>1, <1>4, <2>3, TimeIs, Neither
<1>5. CASE c \in Booked(s, h, u)
  <2>1. c.tool = "propose_booking"
    BY <1>5, Used DEF Booked
  <2>2. serviceIdFor(z, u) = serviceIdFor(s, u)
    BY <2>1 DEF serviceIdFor
  <2>3. Booked(z, h, u) = Booked(s, h, u)
    BY <2>2 DEF Booked
  <2> QED BY <1>1, <1>5, <2>3, TimeIs, Neither
<1> QED BY <1>2, <1>3, <1>4, <1>5

LEMMA ServiceForTried ==
  ASSUME NEW s \in Session, NEW u, NEW c \in Call, NEW z, Tried(s, c, z),
         serviceIdFor(s, u) # None,
         c.tool = "check_availability" => c.service = serviceIdFor(s, u)
  PROVE  serviceIdFor(z, u) = serviceIdFor(s, u)
<1>1. z.service = s.service \/ (c.tool = "check_availability" /\ z.service = c.service)
  BY TriedKeeps
<1> QED BY <1>1 DEF serviceIdFor

\* The same of the rules after those that answer a question.
LEMMA LookedForLater ==
  ASSUME NEW s \in Session, NEW h \in Heard, NEW u \in Utterance, ~h.asked,
         NEW c \in Handover(s, h, u) ?? (Request(s, h, u) ?? {notUnderstood}), IsTool(c),
         c \in Call, NEW z \in Session, Tried(s, c, z),
         NEW d \in Handover(z, h, u) ?? (Request(z, h, u) ?? {notUnderstood}), IsTool(d),
         d.tool = "check_availability"
  PROVE  \/ d = c
         \/ /\ serviceIdFor(s, u) = None
            /\ c.tool = "check_availability" /\ z.service = c.service
<1>1. /\ z.pending = s.pending /\ z.state = s.state
      /\ z.candidates = s.candidates /\ z.appointment = s.appointment
      /\ z.service = s.service \/ (c.tool = "check_availability" /\ z.service = c.service)
      /\ \A x : CanUse(z, x) <=> CanUse(s, x)
      /\ settledAppointmentId(z) = settledAppointmentId(s)
  BY TriedKeeps
<1>2. Handover(z, h, u) = Handover(s, h, u)
  <2>1. Escalated(z, u) = Escalated(s, u) /\ CallbackDetails(z, h, u) = CallbackDetails(s, h, u)
    BY <1>1 DEF Escalated, CallbackDetails
  <2> QED BY <2>1 DEF Handover
<1>3. d \notin Handover(s, h, u)
  BY <1>2, HandoverIsPlain
<1>4. c \in Request(s, h, u) /\ d \in Request(z, h, u)
  <2>1. Handover(s, h, u) = {}
    BY <1>2, <1>3, Either
  <2>2. c \in Request(s, h, u) ?? {notUnderstood} /\ d \in Request(z, h, u) ?? {notUnderstood}
    BY <1>2, <2>1 DEF ??
  <2> QED BY <2>2, Either, SayingIsNoTool DEF notUnderstood
<1> DEFINE Early == TheRest(u) \cup Another(h, u)
           Later(x) == CancelMoveOrLookUp(x, u) ?? (Book(x, h, u) ?? BareTime(x, u))
<1>5. d \notin TheRest(u) \cup Another(h, u) \cup Information(u) \cup CancelMoveOrLookUp(z, u)
  <2>1. d \notin TheRest(u)
    BY Used DEF TheRest, When, ListServices
  <2>2. d \notin Another(h, u)
    BY Used, SayingIsNoTool DEF Another, When, ListServices
  <2>3. d \notin Information(u)
    BY Used DEF Information, When, ??, ListServices
  <2>4. d \notin CancelMoveOrLookUp(z, u)
    BY Used, SayingIsNoTool
       DEF CancelMoveOrLookUp, When, ??, ProposeCancellationOf, FindAppointments
  <2> QED BY <2>1, <2>2, <2>3, <2>4
<1>6. TheRest(u) = {} /\ Another(h, u) = {}
  BY <1>4, <1>5, Either DEF Request
<1>7. /\ c \in Named(s, u) ?? (Information(u) ?? Later(s))
      /\ d \in Named(z, u) ?? (Information(u) ?? Later(z))
  BY <1>4, <1>6 DEF Request, ??
<1>8. Named(z, u) = Named(s, u)
  BY <1>1 DEF Named
<1>9. CASE Named(s, u) # {}
  <2>1. c \in Named(s, u) /\ d \in Named(s, u)
    BY <1>7, <1>8, <1>9, Either
  <2>2. \A m, n \in Named(s, u) : m = n
    BY DEF Named, When, ??
  <2> QED BY <2>1, <2>2
<1>10. CASE Named(s, u) = {}
  <2>1. Information(u) = {}
    BY <1>5, <1>7, <1>8, <1>10, Either
  <2>2. CancelMoveOrLookUp(z, u) = CancelMoveOrLookUp(s, u)
    BY <1>1 DEF CancelMoveOrLookUp
  <2>3. c \in Later(s) /\ d \in Later(z)
    BY <1>7, <1>8, <1>10, <2>1 DEF ??
  <2>4. CancelMoveOrLookUp(s, u) = {}
    BY <1>5, <2>2, <2>3, Either
  <2>5. /\ c \in Book(s, h, u) ?? BareTime(s, u)
        /\ d \in Book(z, h, u) ?? BareTime(z, u)
    BY <2>2, <2>3, <2>4 DEF ??
  <2>6. CASE Says(u, BOOK_PHRASES)
    <3>1. d \in Book(z, h, u) /\ c \in Book(s, h, u)
      BY <2>5, <2>6 DEF Book, When, ??
    <3>2. serviceIdFor(z, u) # None /\ u.when /\ d = Check(serviceIdFor(z, u), None)
      BY <2>6, <3>1, Used, SayingIsNoTool DEF Book, When, ListServices
    <3>3. CASE serviceIdFor(s, u) = None
      BY <1>1, <3>2, <3>3 DEF serviceIdFor
    <3>4. CASE serviceIdFor(s, u) # None
      <4>1. c = Check(serviceIdFor(s, u), None)
        BY <2>6, <3>1, <3>2, <3>4 DEF Book, When
      <4>2. serviceIdFor(z, u) = serviceIdFor(s, u)
        BY <3>4, <4>1, ServiceForTried, Used DEF Check
      <4> QED BY <3>2, <4>1, <4>2
    <3> QED BY <3>3, <3>4
  <2>7. CASE ~Says(u, BOOK_PHRASES)
    <3> DEFINE v(x) == IF settledAppointmentId(x) = None \/ settledServiceId(x) = None
                       THEN serviceIdFor(x, u) ELSE settledServiceId(x)
    <3>1. c \in BareTime(s, u) /\ d \in BareTime(z, u)
      BY <2>5, <2>7 DEF Book, When, ??
    <3>2. v(s) # None /\ c = Check(v(s), None) /\ d = Check(v(z), None)
      BY <3>1 DEF BareTime, When
    <3>3. z.service = s.service \/ z.service = v(s)
      BY <1>1, <3>2, Used DEF Check
    <3>4. v(z) = v(s)
      BY <1>1, <3>2, <3>3 DEF settledServiceId, serviceIdFor
    <3> QED BY <3>2, <3>4
  <2> QED BY <2>6, <2>7
<1> QED BY <1>9, <1>10

\* Another time is looked for after a failure only by repeating the call, or because
\* the call that failed was the first to settle on a service.
LEMMA LookedForAgain ==
  ASSUME NEW s \in Session, NEW h \in Heard, NEW u \in Utterances, s.pending = None, ~h.asked,
         NEW c \in policy(s, h, Error, u), IsTool(c),
         NEW z \in Session, Tried(s, c, z),
         NEW d \in policy(z, h, Error, u), IsTool(d), d.tool = "check_availability"
  PROVE  \/ d = c
         \/ /\ serviceIdFor(s, u) = None
            /\ c.tool = "check_availability" /\ z.service = c.service
<1> DEFINE Goal == \/ d = c
                   \/ /\ serviceIdFor(s, u) = None
                      /\ c.tool = "check_availability" /\ z.service = c.service
           After(x) == Handover(x, h, u) ?? (Request(x, h, u) ?? {notUnderstood})
<1>1. reactTo(s, h, Error, u) = {} /\ reactTo(z, h, Error, u) = {}
  BY Speechless DEF Error
<1>2. Proper(s, h, u, c) /\ c \in Call /\ u \in Utterance
  BY <1>1, WordsAreProper, ReceptionistAssumption DEF Proper
<1>3. /\ z.pending = None /\ z.state = s.state
      /\ z.candidates = s.candidates /\ z.appointment = s.appointment
      /\ z.service = s.service \/ (c.tool = "check_availability" /\ z.service = c.service)
      /\ \A x : CanUse(z, x) <=> CanUse(s, x)
      /\ settledAppointmentId(z) = settledAppointmentId(s)
  BY <1>2, TriedKeeps
<1>4. Confirming(s, u) = {} /\ Confirming(z, u) = {}
  BY <1>3 DEF Confirming
<1>5. /\ c \in WhichAppointment(s, h, u)
           ?? ((WhichService(h, u) ?? WhichTime(s, h, u)) ?? After(s))
      /\ d \in WhichAppointment(z, h, u)
           ?? ((WhichService(h, u) ?? WhichTime(z, h, u)) ?? After(z))
  <2>1. ASSUME NEW x, NEW m \in policy(x, h, Error, u), reactTo(x, h, Error, u) = {},
               Confirming(x, u) = {}
        PROVE  m \in WhichAppointment(x, h, u)
                 ?? ((WhichService(h, u) ?? WhichTime(x, h, u)) ?? After(x))
    BY <2>1 DEF policy, Answer, ??
  <2> QED BY <1>1, <1>4, <2>1
<1>6. WhichAppointment(z, h, u) = WhichAppointment(s, h, u)
  BY <1>3 DEF WhichAppointment
<1>7. d \notin WhichAppointment(s, h, u)
  BY <1>2, WhichAppointmentIsProper
<1>8. CASE WhichService(h, u) # {}
  <2>1. c \in WhichService(h, u) /\ d \in WhichService(h, u)
    BY <1>5, <1>6, <1>7, <1>8, Either, Neither
  <2> QED BY <1>2, <2>1, WhichServiceIsProper
<1> HIDE DEF After
<1>9. CASE WhichService(h, u) = {}
  <2>1. c \in WhichTime(s, h, u) ?? After(s) /\ d \in WhichTime(z, h, u) ?? After(z)
    <3>1. WhichAppointment(s, h, u) = {}
      BY <1>5, <1>6, <1>7, Either
    <3> QED BY <1>5, <1>6, <1>9, <3>1 DEF ??
  <2>2. CASE d \in WhichTime(z, h, u)
    <3> DEFINE q == [day  |-> h.offered[1].day,
                     hour |-> nearestReading(spokenTimeToLocal(u), h.offered)]
    <3>1. d \in Elsewhen(z, h, u) /\ h.offered # <<>>
      <4>1. /\ h.offered # <<>>
            /\ d \in Elsewhen(z, h, u) ?? (Moved(z, h, u) ?? Booked(z, h, u))
        BY <2>2, TimeIs
      <4>2. d \notin Moved(z, h, u) /\ d \notin Booked(z, h, u)
        BY Used DEF Moved, Booked
      <4> QED BY <4>1, <4>2, Either
    <3>2. /\ pickSlot(h.offered, u) = {} /\ u.clock # None
          /\ serviceIdFor(z, u) # None /\ d = Check(serviceIdFor(z, u), q)
      BY <3>1 DEF Elsewhen, When
    <3>3. CASE serviceIdFor(s, u) = None
      BY <1>3, <3>2, <3>3 DEF serviceIdFor
    <3>4. CASE serviceIdFor(s, u) # None
      <4>1. Elsewhen(s, h, u) = {Check(serviceIdFor(s, u), q)}
        BY <3>2, <3>4 DEF Elsewhen, When
      <4>2. WhichTime(s, h, u) = {Check(serviceIdFor(s, u), q)}
        BY <3>1, <4>1, TimeIs DEF ??
      <4>3. c = Check(serviceIdFor(s, u), q)
        BY <2>1, <4>2 DEF ??
      <4>4. serviceIdFor(z, u) = serviceIdFor(s, u)
        BY <1>2, <3>4, <4>3, ServiceForTried, Used DEF Check
      <4> QED BY <3>2, <4>3, <4>4
    <3> QED BY <3>3, <3>4
  <2>3. CASE WhichTime(z, h, u) = {}
    <3>1. c.tool = "check_availability" => c.service # None
      BY <1>2, ReceptionistAssumption DEF Proper
    <3>2. c \notin WhichTime(s, h, u)
      BY <1>2, <2>3, <3>1, TimeStaysPicked
    <3>3. c \in After(s) /\ d \in After(z)
      BY <2>1, <2>3, <3>2 DEF ??
    <3> QED BY <1>2, <1>3, <3>3, LookedForLater DEF After
  <2> QED BY <2>1, <2>2, <2>3, Either
<1> QED BY <1>8, <1>9

\* The list of times is told of, and a go-ahead asked for, in one place each.
LEMMA SaidOnce ==
  ASSUME NEW s, NEW h, NEW r, NEW u, NEW m \in policy(s, h, r, u),
         NEW w \in {"times", "confirm?"}, "say" \in DOMAIN m, m.say = w
  PROVE  m \in reactTo(s, h, r, u) \/ m \in Confirming(s, u)
<1>1. /\ \A k : m = Say(k) => k = w
      /\ \A x, v, q, i : m # Use(x, v, q, i)
  BY DEF Say, Use
<1>2. m \notin WhichAppointment(s, h, u)
  BY <1>1 DEF WhichAppointment, When, ??, ProposeCancellationOf
<1>3. m \notin WhichService(h, u)
  BY <1>1 DEF WhichService, Check
<1>4. m \notin WhichTime(s, h, u)
  <2>1. m \notin Elsewhen(s, h, u)
    BY <1>1 DEF Elsewhen, When, Check
  <2>2. m \notin Moved(s, h, u) /\ m \notin Booked(s, h, u)
    BY <1>1 DEF Moved, Booked
  <2> QED BY <2>1, <2>2, TimeIs, Either
<1>5. m \in Answer(s, h, u) => m \in Confirming(s, u)
  BY <1>2, <1>3, <1>4, Either DEF Answer
<1>6. m \notin Handover(s, h, u)
  <2>1. m \notin Details(u)
    BY <1>1 DEF Details
  <2> QED BY <1>1, <2>1, Either
          DEF Handover, Escalated, Complaint, CallbackDetails, Goodbye, When
<1>7. m \notin Request(s, h, u)
  <2>1. m \notin TheRest(u) /\ m \notin Another(h, u)
    BY <1>1 DEF TheRest, Another, When, ListServices
  <2>2. m \notin Named(s, u) /\ m \notin Information(u)
    BY <1>1 DEF Named, Information, When, Check, ListServices, ??
  <2>3. m \notin CancelMoveOrLookUp(s, u)
    BY <1>1 DEF CancelMoveOrLookUp, When, ProposeCancellationOf, FindAppointments, ??
  <2>4. m \notin Book(s, h, u) /\ m \notin BareTime(s, u)
    BY <1>1 DEF Book, BareTime, When, Check, ListServices
  <2> QED BY <2>1, <2>2, <2>3, <2>4, Either DEF Request
<1>8. m \notin {notUnderstood}
  BY <1>1 DEF notUnderstood
<1> QED BY <1>5, <1>6, <1>7, <1>8, Either DEF policy

LEMMA TimesAreAnswers ==
  ASSUME NEW s, NEW h, NEW r \in Result, NEW u, NEW m \in policy(s, h, r, u),
         "say" \in DOMAIN m, m.say = "times"
  PROVE  r \in [kind : {"slots", "full", "failed"}, list : Seq(Time)]
<1>1. /\ \A k : m = Say(k) => k = "times"
      /\ \A x, v, q, i : m # Use(x, v, q, i)
  BY DEF Say, Use
<1>2. m \notin Confirming(s, u)
  BY <1>1 DEF Confirming
<1>3. m \in reactTo(s, h, r, u)
  BY <1>2, SaidOnce
<1> QED BY <1>1, <1>3 DEF reactTo, AboutTheDiary, When, Result, ProposeCancellationOf

\* Whether details were asked for matters only to the rule that takes them.
LEMMA Unasked ==
  ASSUME NEW s, NEW h \in Heard, NEW r, NEW u, reactTo(s, h, r, u) = {},
         NEW m \in policy(s, h, r, u), IsTool(m), m.tool # "request_callback"
  PROVE  m \in policy(s, [h EXCEPT !.asked = FALSE], Error, u)
<1> DEFINE g == [h EXCEPT !.asked = FALSE]
<1>1. /\ g.menu = h.menu /\ g.listed = h.listed /\ g.offered = h.offered
      /\ g.intent = h.intent /\ g.asked = FALSE
  BY DEF Heard
<1> HIDE DEF g
<1>2. Answer(s, g, u) = Answer(s, h, u)
  <2>1. WhichAppointment(s, g, u) = WhichAppointment(s, h, u)
    BY <1>1 DEF WhichAppointment
  <2>2. WhichService(g, u) = WhichService(h, u)
    BY <1>1 DEF WhichService
  <2>3. WhichTime(s, g, u) = WhichTime(s, h, u)
    BY <1>1 DEF WhichTime
  <2> QED BY <2>1, <2>2, <2>3 DEF Answer
<1>3. Request(s, g, u) = Request(s, h, u)
  <2>1. Another(g, u) = Another(h, u) /\ Book(s, g, u) = Book(s, h, u)
    BY <1>1 DEF Another, Book
  <2> QED BY <2>1 DEF Request
<1>4. CallbackDetails(s, g, u) = {}
  BY <1>1 DEF CallbackDetails
<1>5. reactTo(s, g, Error, u) = {}
  BY Speechless DEF Error
<1> DEFINE After(x) == Request(s, x, u) ?? {notUnderstood}
<1>6. After(g) = After(h)
  BY <1>3
<1> HIDE DEF After
<1>7. m \in Answer(s, h, u) ?? (Handover(s, h, u) ?? After(h))
  BY DEF policy, After, ??
<1>8. policy(s, g, Error, u) = Answer(s, h, u) ?? (Handover(s, g, u) ?? After(h))
  BY <1>2, <1>5, <1>6 DEF policy, After, ??
<1>9. CASE Answer(s, h, u) # {}
  BY <1>7, <1>8, <1>9 DEF ??, g
<1>10. CASE Answer(s, h, u) = {} /\ Handover(s, h, u) # {}
  <2>1. m \in Handover(s, h, u)
    BY <1>7, <1>10 DEF ??
  <2>2. m \notin Details(u)
    BY Used, SayingIsNoTool DEF Details
  <2>3. m \in Escalated(s, u) ?? (Complaint(u) ?? Goodbye(u))
    <3>1. m \notin CallbackDetails(s, h, u)
      BY <2>2 DEF CallbackDetails
    <3> QED BY <2>1, <3>1 DEF Handover, ??
  <2>4. m \in Handover(s, g, u)
    BY <1>4, <2>3 DEF Handover, ??
  <2> QED BY <1>8, <1>10, <2>4 DEF ??, g
<1>11. CASE Answer(s, h, u) = {} /\ Handover(s, h, u) = {}
  <2>1. Handover(s, g, u) = {}
    BY <1>4, <1>11 DEF Handover, ??
  <2> QED BY <1>7, <1>8, <1>11, <2>1 DEF ??, g
<1> QED BY <1>9, <1>10, <1>11

-----------------------------------------------------------------------------
(* Answers and calls *)

LEMMA Constants ==
  /\ 0 \in 0..EscalateAfter /\ EscalateAfter \in Nat /\ EscalateAfter > 0
  /\ MaxToolRounds \in Nat /\ MaxToolRounds > 2
  /\ SpokenMenuLimit \in Nat \ {0} /\ SpokenSlotLimit \in Nat \ {0}
  /\ MaxAppointments \in Nat
  BY ReceptionistAssumption

LEMMA QuietIsTurn == Quiet \in Turn /\ Quiet.call = None
<1>1. (CHOOSE u \in Utterances : TRUE) \in Utterances
  BY ReceptionistAssumption
<1>2. 1 \in 1..MaxToolRounds
  BY Constants
<1> QED BY <1>1, <1>2 DEF Quiet, Turn

\* The end of a turn leaves what is staged, and what it rests on, as it was.
LEMMA AnsweredKeeps ==
  ASSUME NEW s \in Session, NEW t, NEW x
  PROVE  /\ Answered(s, t, x) \in Session
         /\ \A d, p : Staging(s, d, p) => Staging(Answered(s, t, x), d, p)
<1> DEFINE z == Answered(s, t, x)
<1>1. Stalls(s, t, x) \in 0..EscalateAfter
  BY Constants DEF Stalls, Min2, Session
<1>2. z \in Session
  BY <1>1 DEF Answered, Session
<1>3. /\ z.activeIntent = s.activeIntent /\ z.service = s.service
      /\ z.candidates = s.candidates /\ z.pending = s.pending /\ z.ended = s.ended
      /\ z.state = s.state \/ z.state = "ESCALATION"
  BY DEF Answered, Session
<1> HIDE DEF z
<1>4. ASSUME NEW d, NEW p, Staging(s, d, p)
      PROVE  Staging(z, d, p)
  BY <1>3, <1>4
     DEF Staging, ServicesWereNamed, MovesWereAskedFor, GoneIsGone, TimesWereRead, ClosingIsClean
<1> QED BY <1>2, <1>4 DEF z

LEMMA Ending ==
  ASSUME NEW s \in Session, NEW h \in Heard, NEW d \in Diary, NEW p \in Past,
         Staging(s, d, p), OffersWereRead(h, p),
         NEW t, NEW x, NEW b \in BOOLEAN
  PROVE  Sound(Answered(s, t, x), [h EXCEPT !.asked = b], Quiet, d, p)
<1> DEFINE g == [h EXCEPT !.asked = b]
<1>1. g \in Heard /\ g.offered = h.offered
  BY DEF Heard
<1>2. OffersWereRead(g, p)
  BY <1>1 DEF OffersWereRead
<1> QED BY <1>1, <1>2, AnsweredKeeps, QuietIsTurn DEF Sound, InTurn

LEMMA ReadOutIsTimes ==
  ASSUME NEW r \in [kind : {"slots", "full", "failed"}, list : Seq(Time)]
  PROVE  /\ ReadOut(r) \subseteq Time
         /\ Range(Spoken(r.list, SpokenSlotLimit)) \subseteq ReadOut(r)
<1>1. r.list \in Seq(Time) /\ SpokenSlotLimit \in Nat \ {0}
  BY Constants
<1>2. /\ Range(Spoken(r.list, SpokenSlotLimit)) \subseteq Range(r.list)
      /\ Range(r.list) \subseteq Time
  BY <1>1, Speaking
<1> QED BY <1>2 DEF ReadOut

\* What is read out is added to the history.
LEMMA ReadingOut ==
  ASSUME NEW s \in Session, NEW d, NEW p \in Past, Staging(s, d, p), NEW R \in SUBSET Time
  PROVE  /\ [p EXCEPT !.read = @ \cup R] \in Past
         /\ Staging(s, d, [p EXCEPT !.read = @ \cup R])
         /\ [p EXCEPT !.read = @ \cup R].read = p.read \cup R
<1> DEFINE q == [p EXCEPT !.read = @ \cup R]
<1>1. /\ q \in Past /\ q.read = p.read \cup R /\ q.topics = p.topics
      /\ q.move = p.move /\ q.gone = p.gone
  BY DEF Past
<1> HIDE DEF q
<1>2. Staging(s, d, q)
  BY <1>1
     DEF Staging, ServicesWereNamed, MovesWereAskedFor, GoneIsGone, TimesWereRead, ClosingIsClean
<1> QED BY <1>1, <1>2 DEF q

LEMMA ProperIsFounded ==
  ASSUME NEW s \in Session, NEW h \in Heard, NEW u, NEW d, NEW p \in Past, NEW c,
         Proper(s, h, u, c), Staging(s, d, p), OffersWereRead(h, p), WordsAreNoted(h, u, p)
  PROVE  CallIsFounded(s, c, p)
<1>1. Mentioned(s, h, u) \cap Services \subseteq p.topics
  BY ReceptionistAssumption DEF Mentioned, Staging, ServicesWereNamed, WordsAreNoted
<1> QED BY <1>1 DEF Proper, CallIsFounded, OffersWereRead

\* The model is asked, after the messages h, about the result r: of the caller's
\* words, of an answer, or of a call c that failed and left of z the session s.
Asking(s, h, r, t, d, p) ==
  /\ s \in Session /\ h \in Heard /\ t \in Turn /\ d \in Diary /\ p \in Past
  /\ r \in Result /\ t.call = None /\ ~s.ended
  /\ Staging(s, d, p)

\* The times in the result, once told of.
TimesToTell(s, h, r, p) ==
  r.kind \in {"slots", "full", "failed"} /\ r.list # <<>> /\
  Range(h.offered) \subseteq ReadOut(r) /\ (r.kind = "slots" => s.pending = None)

OfTheWords(h, t, p) == t.round = 1 /\ WordsAreNoted(h, t.says, p)

OfAnAppointment(s, h, r, t, p) ==
  /\ r.kind \in {"one", "chosen"} /\ s.pending = None /\ CanUse(s, "propose_cancellation")
  /\ WordsAreNoted(h, t.says, p)
  /\ \E i \in DOMAIN s.candidates : s.candidates[i].id = r.list[1].id

OfAFailure(z, c, s, h, t, p) ==
  /\ z \in Session /\ z.pending = None /\ ~h.asked /\ WordsAreNoted(h, t.says, p)
  /\ c \in t.seen /\ c \in policy(z, h, Error, t.says) /\ IsTool(c) /\ Tried(z, c, s)
  /\ t.round > 1
  /\ c.tool = "check_availability" =>
       /\ c.service # None /\ t.round \in {2, 3}
       /\ t.round = 3 => serviceIdFor(z, t.says) # None

LEMMA Calling ==
  ASSUME NEW s, NEW h, NEW r, NEW t, NEW d, NEW p, Asking(s, h, r, t, d, p),
         OffersWereRead(h, p), NEW c \in Call,
         WordsAreNoted(h, t.says, p), CallIsFounded(s, c, p),
         CallIsInTime(s, [h EXCEPT !.asked = FALSE], [t EXCEPT !.call = c])
  PROVE  Sound(s, [h EXCEPT !.asked = FALSE], [t EXCEPT !.call = c], d, p)
<1> DEFINE g == [h EXCEPT !.asked = FALSE]
           v == [t EXCEPT !.call = c]
<1>1. /\ g \in Heard /\ g.offered = h.offered /\ g.menu = h.menu /\ ~g.asked
  BY DEF Heard, Asking
<1>2. v \in Turn /\ v.call = c /\ v.says = t.says
  BY DEF Turn, Asking
<1>3. OffersWereRead(g, p) /\ WordsAreNoted(g, v.says, p)
  BY <1>1, <1>2 DEF OffersWereRead, WordsAreNoted
<1> HIDE DEF g, v
<1>4. InTurn(s, g, v, p)
  BY <1>1, <1>2, <1>3 DEF InTurn, Asking, g, v
<1> QED BY <1>1, <1>2, <1>3, <1>4 DEF Sound, Asking, g, v

LEMMA Completing ==
  ASSUME NEW s, NEW h, NEW r, NEW t, NEW d, NEW p, Asking(s, h, r, t, d, p),
         OffersWereRead(h, p) \/ TimesToTell(s, h, r, p),
         r.kind # "ended", r.kind = "slots" => s.pending = None,
         r.kind = "nothing" => OfTheWords(h, t, p),
         r.kind \in {"one", "chosen"} => OfAnAppointment(s, h, r, t, p),
         r.kind = "error" => \E z, c : OfAFailure(z, c, s, h, t, p),
         Complete(s, h, r, t, p)
  PROVE  Sound(session', heard', turn', d, past')
<1> USE DEF Asking
<1>1. PICK move \in policy(s, h, r, t.says) :
        \/ /\ "say" \in DOMAIN move
           /\ session' = Answered(s, t, move # notUnderstood)
           /\ heard' = [h EXCEPT !.asked = move.say = "details?"]
           /\ turn' = Quiet
           /\ past' = IF move.say = "times" THEN [p EXCEPT !.read = @ \cup ReadOut(r)] ELSE p
        \/ /\ "tool" \in DOMAIN move /\ Repeated(t, move)
           /\ session' = Answered(s, t, TRUE)
           /\ heard' = [h EXCEPT !.asked = FALSE]
           /\ turn' = Quiet
           /\ past' = p
        \/ /\ "tool" \in DOMAIN move /\ ~Repeated(t, move)
           /\ session' = s
           /\ heard' = [h EXCEPT !.asked = FALSE]
           /\ turn' = [t EXCEPT !.call = move]
           /\ past' = p
  BY DEF Complete
<1>2. OffersWereRead(h, p) \/ move = Say("times")
  <2>1. TimesToTell(s, h, r, p) => reactTo(s, h, r, t.says) = {Say("times")}
    BY DEF TimesToTell, reactTo, AboutTheDiary, When
  <2>2. reactTo(s, h, r, t.says) # {} => move \in reactTo(s, h, r, t.says)
    BY DEF policy, ??
  <2> QED BY <2>1, <2>2
<1>3. CASE /\ "say" \in DOMAIN move
           /\ session' = Answered(s, t, move # notUnderstood)
           /\ heard' = [h EXCEPT !.asked = move.say = "details?"]
           /\ turn' = Quiet
           /\ past' = IF move.say = "times" THEN [p EXCEPT !.read = @ \cup ReadOut(r)] ELSE p
  <2>1. CASE move.say = "times"
    <3>1. r \in [kind : {"slots", "full", "failed"}, list : Seq(Time)]
      BY <1>3, <2>1, TimesAreAnswers
    <3>2. ReadOut(r) \in SUBSET Time
      BY <3>1, ReadOutIsTimes
    <3>3. /\ past' \in Past /\ Staging(s, d, past') /\ past'.read = p.read \cup ReadOut(r)
      BY <1>3, <2>1, <3>2, ReadingOut
    <3>4. OffersWereRead(h, past')
      BY <3>3 DEF OffersWereRead, TimesToTell
    <3> QED BY <1>3, <3>3, <3>4, Ending
  <2>2. CASE move.say # "times"
    <3>1. OffersWereRead(h, p)
      BY <1>2, <2>2 DEF Say
    <3> QED BY <1>3, <2>2, <3>1, Ending
  <2> QED BY <2>1, <2>2
<1>4. ASSUME "tool" \in DOMAIN move
      PROVE  OffersWereRead(h, p)
  BY <1>2, <1>4 DEF Say
<1>5. CASE /\ "tool" \in DOMAIN move /\ Repeated(t, move)
           /\ session' = Answered(s, t, TRUE)
           /\ heard' = [h EXCEPT !.asked = FALSE]
           /\ turn' = Quiet
           /\ past' = p
  BY <1>4, <1>5, Ending
<1>6. CASE /\ "tool" \in DOMAIN move /\ ~Repeated(t, move)
           /\ session' = s
           /\ heard' = [h EXCEPT !.asked = FALSE]
           /\ turn' = [t EXCEPT !.call = move]
           /\ past' = p
  <2> DEFINE g == [h EXCEPT !.asked = FALSE]
             v == [t EXCEPT !.call = move]
             u == t.says
  <2>1. OffersWereRead(h, p) /\ IsTool(move) /\ u \in Utterances
    BY <1>4, <1>6 DEF IsTool, Turn
  <2>2. CASE r.kind \in {"one", "chosen"}
    <3>1. OfAnAppointment(s, h, r, t, p)
      BY <2>2
    <3>2. move = ProposeCancellationOf(r.list[1].id)
      <4>1. reactTo(s, h, r, u) # {}
        BY <2>2, Wordless
      <4>2. move \in reactTo(s, h, r, u)
        BY <4>1 DEF policy, ??
      <4> QED BY <2>1, <4>2, Reaction
    <3>3. r.list[1].id \in 1..MaxAppointments
      <4>1. \A i \in DOMAIN s.candidates : s.candidates[i] \in Appointment
        BY DEF Session
      <4> QED BY <3>1, <4>1 DEF OfAnAppointment, Appointment
    <3>4. /\ move.tool = "propose_cancellation" /\ move.time = None
          /\ move.appointment = r.list[1].id /\ move \in Call
      BY <3>2, <3>3 DEF ProposeCancellationOf, Use, Call, Tools
    <3>5. CallIsFounded(s, move, p)
      BY <3>1, <3>4 DEF CallIsFounded, OfAnAppointment
    <3>6. CallIsInTime(s, g, v)
      <4>1. v.call = move
        BY DEF Turn
      <4> QED BY <3>1, <3>4, <4>1 DEF CallIsInTime, OfAnAppointment
    <3>7. WordsAreNoted(h, u, p)
      BY <3>1 DEF OfAnAppointment
    <3> QED BY <1>6, <2>1, <3>4, <3>5, <3>6, <3>7, Calling
  <2>3. CASE r.kind = "nothing"
    <3>1. t.round = 1 /\ WordsAreNoted(h, u, p)
      BY <2>3 DEF OfTheWords
    <3>2. reactTo(s, h, r, u) = {}
      BY <2>3, Speechless
    <3>3. Proper(s, h, u, move) /\ move \in Call
      BY <2>1, <3>2, WordsAreProper DEF Proper
    <3>4. CallIsFounded(s, move, p)
      BY <2>1, <3>1, <3>3, ProperIsFounded
    <3>5. CallIsInTime(s, g, v)
      <4>1. v.call = move /\ v.round = 1 /\ v.says = u
        BY <3>1 DEF Turn
      <4>2. move.tool = "request_callback" \/ move \in policy(s, g, Error, u)
        BY <2>1, <3>2, Unasked
      <4> QED BY <4>1, <4>2 DEF CallIsInTime
    <3> QED BY <1>6, <2>1, <3>1, <3>3, <3>4, <3>5, Calling
  <2>4. CASE r.kind = "error"
    <3>1. PICK z, c : OfAFailure(z, c, s, h, t, p)
      BY <2>4
    <3>2. reactTo(s, h, r, u) = {}
      BY <2>4, Speechless
    <3>3. Proper(s, h, u, move) /\ move \in Call
      BY <2>1, <3>2, WordsAreProper DEF Proper
    <3>4. CallIsFounded(s, move, p)
      BY <2>1, <3>1, <3>3, ProperIsFounded DEF OfAFailure
    <3>5. CallIsInTime(s, g, v)
      <4>1. v.call = move /\ v.round = t.round /\ v.says = u
        BY DEF Turn
      <4>2. move.tool = "request_callback" \/ move \in policy(s, g, Error, u)
        BY <2>1, <3>2, Unasked
      <4>3. /\ z \in Session /\ z.pending = None /\ ~h.asked
            /\ c \in policy(z, h, Error, u) /\ IsTool(c) /\ Tried(z, c, s)
        BY <3>1 DEF OfAFailure
      <4>4. c \in Call
        <5>1. reactTo(z, h, Error, u) = {}
          BY Speechless DEF Error
        <5> QED BY <2>1, <4>3, <5>1, WordsAreProper DEF Proper
      <4>5. move.tool # "commit_pending_action"
        BY <3>3, <4>3, <4>4, TriedKeeps DEF Proper
      <4>6. ASSUME move.tool = "check_availability"
            PROVE  t.round = 2 /\ serviceIdFor(s, u) # None
        <5>1. r = Error
          BY <2>4 DEF Result, Error
        <5>2. \/ move = c
              \/ /\ serviceIdFor(z, u) = None
                 /\ c.tool = "check_availability" /\ s.service = c.service
          BY <2>1, <4>3, <4>6, <5>1, LookedForAgain
        <5>3. move # c
          BY <1>6, <3>1 DEF Repeated, OfAFailure
        <5> QED BY <3>1, <5>2, <5>3 DEF OfAFailure, serviceIdFor
      <4> QED BY <4>1, <4>2, <4>5, <4>6 DEF CallIsInTime
    <3>6. WordsAreNoted(h, u, p)
      BY <3>1 DEF OfAFailure
    <3> QED BY <1>6, <2>1, <3>3, <3>4, <3>5, <3>6, Calling
  <2>5. r.kind \in {"one", "chosen", "nothing", "error"}
    <3>1. move \in reactTo(s, h, r, u) \/ reactTo(s, h, r, u) = {}
      BY DEF policy, ??
    <3> QED BY <2>1, <3>1, Reaction, Wordless
  <2> QED BY <2>2, <2>3, <2>4, <2>5
<1> QED BY <1>1, <1>3, <1>5, <1>6

-----------------------------------------------------------------------------
(* Results *)

LEMMA Recalled ==
  ASSUME NEW h \in Heard, NEW r \in Result
  PROVE  /\ Recall(h, r) \in Heard /\ ~Recall(h, r).asked
         /\ Recall(h, r).offered = recentSlots(h, r)
         /\ r.kind \in {"error", "one", "chosen"} => Recall(h, r).menu = h.menu
         /\ r.kind = "error" /\ ~h.asked => Recall(h, r) = h
<1>1. recentServices(h, r) \in Seq(Services)
  BY Constants, Speaking, ReceptionistAssumption DEF recentServices, Heard
<1>2. recentAppointments(h, r) \in Seq(Appointment)
  BY DEF recentAppointments, Heard, Result
<1>3. recentSlots(h, r) \in Seq(Time)
  <2>1. h.offered \in Seq(Time) /\ <<>> \in Seq(Time)
    BY DEF Heard
  <2>2. r.kind \in {"slots", "full", "failed"} => r.list \in Seq(Time)
    BY DEF Result
  <2>3. \A list \in Seq(Time) : Spoken(list, SpokenSlotLimit) \in Seq(Time)
    BY Constants, Speaking
  <2> QED BY <2>1, <2>2, <2>3 DEF recentSlots
<1>4. /\ Recall(h, r) \in Heard /\ ~Recall(h, r).asked
      /\ Recall(h, r).offered = recentSlots(h, r)
      /\ Recall(h, r).menu = recentServices(h, r)
  BY <1>1, <1>2, <1>3 DEF Recall, Heard
<1>5. r.kind \in {"error", "one", "chosen"} => recentServices(h, r) = h.menu
  BY DEF recentServices
<1>6. ASSUME r.kind = "error", ~h.asked
      PROVE  Recall(h, r) = h
  <2>1. /\ recentServices(h, r) = h.menu /\ recentSlots(h, r) = h.offered
        /\ recentAppointments(h, r) = h.listed
    BY <1>6 DEF recentServices, recentSlots, recentAppointments
  <2>2. h.asked = FALSE
    BY <1>6 DEF Heard
  <2> QED BY <2>1, <2>2 DEF Recall, Heard
<1> QED BY <1>4, <1>5, <1>6

\* What the tool called now returns, having made a session s of the session.
Returned(s, r, d, p) ==
  /\ s \in Session /\ r \in Result /\ d \in Diary /\ p \in Past /\ Staging(s, d, p)
  /\ r.kind # "nothing" /\ (s.ended <=> r.kind = "ended")
  /\ r.kind # "done" => past.read \subseteq p.read /\ past.topics \subseteq p.topics
  /\ r.kind \in {"slots", "full", "failed"} => turn.round < 3
  /\ r.kind = "slots" => s.pending = None /\ r.list # <<>>
  /\ r.kind \in {"one", "chosen"} =>
       /\ s.pending = None /\ CanUse(s, "propose_cancellation")
       /\ \E i \in DOMAIN s.candidates : s.candidates[i].id = r.list[1].id
  /\ r.kind = "error" =>
       /\ turn.call.tool # "commit_pending_action"
       /\ turn.call \in policy(session, heard, Error, turn.says)
       /\ Tried(session, turn.call, s)

LEMMA Returning ==
  ASSUME IndInv, turn.call # None, NEW s, NEW r, NEW d, NEW p, Returned(s, r, d, p),
         Return(s, r, p)
  PROVE  Sound(session', heard', turn', d, past')
<1> DEFINE h == Recall(heard, r)
           t == [turn EXCEPT !.round = @ + 1, !.seen = @ \cup {turn.call}, !.call = None]
<1>1. /\ heard \in Heard /\ turn \in Turn /\ session \in Session /\ past \in Past
      /\ OffersWereRead(heard, past)
      /\ ~heard.asked /\ WordsAreNoted(heard, turn.says, past)
      /\ CallIsFounded(session, turn.call, past)
      /\ CallIsInTime(session, heard, turn)
      /\ turn.call \in Call
  BY DEF IndInv, Sound, InTurn, Turn
<1>2. r \in Result /\ s \in Session /\ p \in Past /\ d \in Diary /\ Staging(s, d, p)
  BY DEF Returned
<1>3. /\ h \in Heard /\ ~h.asked /\ h.offered = recentSlots(heard, r)
      /\ r.kind \in {"error", "one", "chosen"} => h.menu = heard.menu
      /\ r.kind = "error" => h = heard
  BY <1>1, <1>2, Recalled
<1>4. OffersWereRead(h, p) \/ TimesToTell(s, h, r, p)
  <2>1. CASE r.kind = "done"
    BY <1>3, <2>1 DEF OffersWereRead, recentSlots, Range
  <2>2. CASE r.kind \in {"slots", "full", "failed"} /\ r.list # <<>>
    <3>1. h.offered = Spoken(r.list, SpokenSlotLimit)
      BY <1>3, <2>2 DEF recentSlots
    <3>2. Range(h.offered) \subseteq ReadOut(r)
      BY <1>2, <2>2, <3>1, ReadOutIsTimes DEF Result
    <3> QED BY <2>2, <3>2 DEF TimesToTell, Returned
  <2>3. CASE r.kind # "done" /\ ~(r.kind \in {"slots", "full", "failed"} /\ r.list # <<>>)
    <3>1. h.offered = heard.offered
      BY <1>3, <2>3 DEF recentSlots
    <3> QED BY <1>1, <2>3, <3>1 DEF OffersWereRead, Returned
  <2> QED BY <2>1, <2>2, <2>3
<1>5. CASE s.ended \/ turn.round = MaxToolRounds
  <2>1. OffersWereRead(h, p)
    BY <1>4, <1>5, Constants DEF TimesToTell, Returned
  <2>2. h = [h EXCEPT !.asked = FALSE]
    BY <1>3 DEF Heard
  <2>3. /\ session' = Answered(s, [turn EXCEPT !.seen = {turn.call}], TRUE)
        /\ heard' = h /\ turn' = Quiet /\ past' = p
    BY <1>5 DEF Return
  <2> HIDE DEF h
  <2>4. Sound(Answered(s, [turn EXCEPT !.seen = {turn.call}], TRUE),
              [h EXCEPT !.asked = FALSE], Quiet, d, p)
    BY <1>2, <1>3, <2>1, Ending
  <2> QED BY <2>2, <2>3, <2>4
<1>6. CASE ~s.ended /\ turn.round # MaxToolRounds
  <2>1. Complete(s, h, r, t, p)
    BY <1>6 DEF Return
  <2>2. /\ t \in Turn /\ t.call = None /\ t.round = turn.round + 1 /\ t.says = turn.says
        /\ turn.call \in t.seen /\ t.round > 1
    <3>1. /\ turn.round \in 1..MaxToolRounds /\ turn.says \in Utterances
          /\ turn.seen \in SUBSET Call
      BY <1>1 DEF Turn
    <3>2. turn.round + 1 \in 1..MaxToolRounds /\ turn.round + 1 > 1
      BY <1>6, <3>1, Constants
    <3>3. turn.seen \cup {turn.call} \in SUBSET Call
      BY <1>1, <3>1
    <3> QED BY <1>1, <3>1, <3>2, <3>3 DEF Turn
  <2> HIDE DEF h, t
  <2>3. Asking(s, h, r, t, d, p)
    BY <1>2, <1>3, <1>6, <2>2 DEF Asking
  <2>4. r.kind # "ended" /\ r.kind # "nothing" /\ (r.kind = "slots" => s.pending = None)
    BY <1>6 DEF Returned
  <2>5. ASSUME r.kind \in {"one", "chosen"}
        PROVE  OfAnAppointment(s, h, r, t, p)
    <3>1. WordsAreNoted(h, t.says, p)
      BY <1>1, <1>3, <2>2, <2>5 DEF WordsAreNoted, Returned
    <3> QED BY <2>5, <3>1 DEF OfAnAppointment, Returned
  <2>6. ASSUME r.kind = "error"
        PROVE  OfAFailure(session, turn.call, s, h, t, p)
    <3>1. WordsAreNoted(h, t.says, p)
      BY <1>1, <1>3, <2>2, <2>6 DEF WordsAreNoted, Returned
    <3>2. /\ turn.call \in policy(session, h, Error, t.says) /\ Tried(session, turn.call, s)
          /\ session.pending = None
      BY <1>1, <1>3, <2>2, <2>6 DEF Returned, CallIsFounded
    <3>3. IsTool(turn.call)
      BY <1>1 DEF IsTool, Call
    <3>4. ASSUME turn.call.tool = "check_availability"
          PROVE  /\ turn.call.service # None /\ t.round \in {2, 3}
                 /\ t.round = 3 => serviceIdFor(session, t.says) # None
      <4>1. turn.call.service \in past.topics
        BY <1>1, <3>4 DEF CallIsFounded
      <4>2. turn.call.service # None
        BY <1>1, <4>1, ReceptionistAssumption DEF Past
      <4> QED BY <1>1, <2>2, <3>4, <4>2 DEF CallIsInTime
    <3> QED BY <1>1, <1>3, <2>2, <3>1, <3>2, <3>3, <3>4 DEF OfAFailure
  <2> QED BY <1>4, <2>1, <2>3, <2>4, <2>5, <2>6, Completing
<1> QED BY <1>5, <1>6

-----------------------------------------------------------------------------
(* The steps *)

LEMMA Beginning == Init => IndInv
<1> SUFFICES ASSUME Init PROVE IndInv
  OBVIOUS
<1>1. PICK start \in Starts :
        /\ diary = [booked |-> start.booked, made |-> Cardinality(start.booked)]
        /\ session = [caller |-> start.caller, state |-> "IN_TALK", activeIntent |-> None,
                      service |-> None, appointment |-> None, candidates |-> <<>>,
                      pending |-> None, failures |-> 0, stalled |-> 0,
                      escalation |-> FALSE, ended |-> FALSE]
  BY DEF Init
<1>2. /\ start.booked \subseteq Appointment /\ IsFiniteSet(start.booked)
      /\ {a.id : a \in start.booked} = 1..Cardinality(start.booked)
      /\ start.caller \in {"customer", "number", "withheld"}
  BY ReceptionistAssumption
<1>3. Cardinality(start.booked) \in 0..MaxAppointments
  <2>1. Cardinality(start.booked) \in Nat
    BY <1>2, FS_CardinalityType
  <2>2. {a.id : a \in start.booked} \subseteq 1..MaxAppointments
    BY <1>2 DEF Appointment
  <2> QED BY <1>2, <2>1, <2>2, Constants
<1>4. diary \in Diary
  BY <1>1, <1>2, <1>3 DEF Diary
<1>5. session \in Session
  BY <1>1, <1>2, Constants DEF Session
<1>6. /\ heard \in Heard /\ heard.offered = <<>> /\ past \in Past /\ past.gone = {}
      /\ turn \in Turn /\ turn.call = None
  BY QuietIsTurn DEF Init, Heard, Past
<1>7. Staging(session, diary, past)
  <2>1. \A a \in diary.booked : a.id \in 1..diary.made
    BY <1>1, <1>2
  <2>2. None # "reschedule"
    BY ReceptionistAssumption
  <2> QED BY <1>1, <1>6, <2>1, <2>2
          DEF Staging, ServicesWereNamed, MovesWereAskedFor, GoneIsGone, TimesWereRead,
              ClosingIsClean
<1>8. OffersWereRead(heard, past)
  BY <1>6 DEF OffersWereRead, Range
<1> QED BY <1>4, <1>5, <1>6, <1>7, <1>8 DEF IndInv, Sound, InTurn

LEMMA NothingTyped ==
  /\ Nothing \in Result /\ Error \in Result /\ Nothing.kind = "nothing" /\ Error.kind = "error"
  BY DEF Nothing, Error, Result

\* A move is asked for, and services named, before they are acted on.
LEMMA Listening ==
  ASSUME NEW s \in Session, NEW d, NEW p \in Past, NEW q \in Past, NEW u, Staging(s, d, p),
         p.topics \subseteq q.topics, q.gone = p.gone, q.read = p.read,
         q.move = (p.move \/ Says(u, RESCHEDULE_PHRASES))
  PROVE  /\ Listen(s, u) \in Session /\ Staging(Listen(s, u), d, q)
         /\ Listen(s, u).ended = s.ended
<1> DEFINE z == Listen(s, u)
           dropped == s.pending # None /\ ~Affirmative(u)
<1>1. statedIntent(u) \in {"book", "cancel", "reschedule", None}
  BY DEF statedIntent
<1>2. statedIntent(u) = "reschedule" => Says(u, RESCHEDULE_PHRASES)
  BY ReceptionistAssumption DEF statedIntent
<1>3. s.pending # None => s.pending \in Action /\ [s.pending EXCEPT !.restated = TRUE] \in Action
  BY DEF Session, Action
<1>4. z \in Session
  <2> DEFINE i == IF statedIntent(u) \in {"cancel", "reschedule"} \/ s.activeIntent = None
                  THEN statedIntent(u) ELSE s.activeIntent
             a == IF dropped THEN None ELSE IF s.pending = None THEN s.pending
                  ELSE [s.pending EXCEPT !.restated = TRUE]
             t == IF dropped THEN "IN_TALK" ELSE s.state
  <2>1. z = [s EXCEPT !.activeIntent = i, !.pending = a, !.state = t]
    BY DEF Listen, Session
  <2>2. i \in {"book", "cancel", "reschedule", None}
    BY <1>1 DEF Session
  <2>3. a \in Action \cup {None}
    BY <1>3
  <2>4. t \in {"IN_TALK", "ESCALATION", "CLOSING"}
    BY DEF Session
  <2> HIDE DEF z, i, a, t
  <2> QED BY <2>1, <2>2, <2>3, <2>4 DEF Session
<1>5. /\ z.service = s.service /\ z.candidates = s.candidates /\ z.ended = s.ended
      /\ z.activeIntent \in {s.activeIntent, statedIntent(u)}
      /\ z.state \in {s.state, "IN_TALK"}
      /\ z.pending = None \/ (s.pending # None /\ z.pending = [s.pending EXCEPT !.restated = TRUE])
      /\ s.pending = None => z.pending = None
  BY DEF Listen, Session
<1>6. z.pending # None =>
        /\ s.pending # None
        /\ z.pending.action = s.pending.action /\ z.pending.service = s.pending.service
        /\ z.pending.time = s.pending.time /\ z.pending.appointment = s.pending.appointment
        /\ z.pending.landed = s.pending.landed
  BY <1>3, <1>5 DEF Action
<1> HIDE DEF z
<1>7. ServicesWereNamed(z, q)
  BY <1>5, <1>6 DEF Staging, ServicesWereNamed
<1>8. MovesWereAskedFor(z, q)
  BY <1>2, <1>5, <1>6 DEF Staging, MovesWereAskedFor
<1>9. GoneIsGone(z, d, q)
  BY <1>5, <1>6 DEF Staging, GoneIsGone
<1>10. TimesWereRead(z, q)
  BY <1>5, <1>6 DEF Staging, TimesWereRead
<1>11. ClosingIsClean(z)
  BY <1>5 DEF Staging, ClosingIsClean
<1> QED BY <1>4, <1>5, <1>7, <1>8, <1>9, <1>10, <1>11 DEF z, Staging

LEMMA Hearing ==
  ASSUME IndInv, NEW u \in Utterances, Hear(u)
  PROVE  IndInv'
<1> DEFINE s == Listen(session, u)
           h == [heard EXCEPT !.intent = LastIntent(heard, u)]
           t == [Quiet EXCEPT !.says = u]
           p == Noted(u)
<1>1. /\ session \in Session /\ heard \in Heard /\ diary \in Diary /\ past \in Past
      /\ Staging(session, diary, past) /\ OffersWereRead(heard, past)
  BY DEF IndInv, Sound
<1>2. ~session.ended /\ diary' = diary /\ Complete(s, h, Nothing, t, p)
  BY DEF Hear
<1>3. LastIntent(heard, u) \in {"cancel", "reschedule", None}
  BY <1>1 DEF LastIntent, Heard
<1>4. h \in Heard /\ h.offered = heard.offered /\ h.menu = heard.menu
  BY <1>1, <1>3 DEF Heard
<1>5. u \in Utterance
  BY ReceptionistAssumption
<1>6. /\ p \in Past /\ p.gone = past.gone /\ p.read = past.read
      /\ p.move = (past.move \/ Says(u, RESCHEDULE_PHRASES))
      /\ p.topics = past.topics \cup ({u.names} \ {None}) \cup
                     {heard.menu[i] : i \in Place(heard.menu, u)}
  <2>1. heard.menu \in Seq(Services)
    BY <1>1 DEF Heard
  <2>2. {heard.menu[i] : i \in Place(heard.menu, u)} \subseteq Services
    BY <2>1, PlacesAreInList
  <2>3. {u.names} \ {None} \subseteq Services
    BY <1>5 DEF Utterance
  <2>4. (past.move \/ Says(u, RESCHEDULE_PHRASES)) \in BOOLEAN
    OBVIOUS
  <2> QED BY <1>1, <2>2, <2>3, <2>4 DEF Noted, Past
<1>7. s \in Session /\ Staging(s, diary, p) /\ s.ended = session.ended
  BY <1>1, <1>6, Listening
<1>8. t \in Turn /\ t.call = None /\ t.round = 1 /\ t.says = u
  BY QuietIsTurn DEF Turn, Quiet
<1> HIDE DEF s, h, t, p
<1>9. Asking(s, h, Nothing, t, diary, p)
  BY <1>1, <1>2, <1>4, <1>6, <1>7, <1>8, NothingTyped DEF Asking
<1>10. OffersWereRead(h, p)
  BY <1>1, <1>4, <1>6 DEF OffersWereRead
<1>11. OfTheWords(h, t, p)
  BY <1>4, <1>6, <1>8 DEF OfTheWords, WordsAreNoted
<1>12. Sound(session', heard', turn', diary, past')
  BY <1>2, <1>9, <1>10, <1>11, NothingTyped, Completing
<1> QED BY <1>2, <1>12 DEF IndInv

\* What is known while a tool is being called.
LEMMA Founded ==
  ASSUME IndInv, turn.call # None
  PROVE  /\ session \in Session /\ diary \in Diary /\ past \in Past /\ turn.call \in Call
         /\ Staging(session, diary, past) /\ ~session.ended /\ session.state # "CLOSING"
         /\ CallIsFounded(session, turn.call, past)
         /\ CallIsInTime(session, heard, turn)
  BY DEF IndInv, Sound, InTurn, Turn, Staging, ClosingIsClean

LEMMA Offered ==
  ASSUME NEW s, NEW x
  PROVE  /\ CanUse(s, x) => x \in Tools
         /\ CanUse(s, x) /\ x \notin Always => s.state \notin {"ESCALATION", "CLOSING"}
         /\ s.state \notin {"ESCALATION", "CLOSING"} /\ x \in Tools \ {"commit_pending_action"} =>
              CanUse(s, x)
         /\ s.state # "CLOSING" => CanUse(s, "request_callback")
         /\ CanUse(s, "commit_pending_action") =>
              s.pending # None /\ s.pending.restated
  BY DEF CanUse, toolsForState, Always, Tools

\* A call that fails is one that the words led to.
LEMMA Failing ==
  ASSUME IndInv, turn.call # None, turn.call.tool # "commit_pending_action",
         turn.call.tool # "request_callback",
         turn.call.tool = "propose_cancellation" /\ CanUse(session, "propose_cancellation") =>
           Candidates(turn.call.appointment) = {},
         NEW s \in Session, Tried(session, turn.call, s),
         Staging(s, diary, past), s.ended = session.ended
  PROVE  Returned(s, Error, diary, past)
<1>1. turn.call \in policy(session, heard, Error, turn.says)
  BY Founded DEF CallIsInTime, Candidates
<1> QED BY <1>1, Founded, NothingTyped DEF Returned

\* A reply to which nothing needs to be added.
LEMMA Replying ==
  ASSUME IndInv, turn.call # None,
         NEW r \in [kind : {"services", "hours", "none", "service", "staged", "captured"}],
         NEW s \in Session, NEW p \in Past, Staging(s, diary, p), ~s.ended,
         past.read \subseteq p.read, past.topics \subseteq p.topics
  PROVE  Returned(s, r, diary, p)
  BY Founded DEF Returned, Result

LEMMA RefusedStep == ASSUME IndInv, Refused PROVE IndInv'
<1>1. turn.call # None /\ Return(session, Error, past) /\ diary' = diary
  BY DEF Refused
<1>2. /\ turn.call.tool # "commit_pending_action" /\ turn.call.tool # "request_callback"
      /\ ~(turn.call.tool = "propose_cancellation" /\ CanUse(session, "propose_cancellation"))
  BY <1>1, Founded, Offered DEF Refused, CallIsFounded
<1>3. Tried(session, turn.call, session)
  BY DEF Tried
<1>4. Returned(session, Error, diary, past)
  BY <1>1, <1>2, <1>3, Failing, Founded
<1> QED BY <1>1, <1>4, Returning DEF IndInv

LEMMA list_servicesStep == ASSUME IndInv, list_services PROVE IndInv'
<1>1. /\ turn.call # None /\ Return(session, [kind |-> "services"], past) /\ diary' = diary
  BY DEF list_services, Doing
<1>2. Returned(session, [kind |-> "services"], diary, past)
  BY <1>1, Founded, Replying
<1> QED BY <1>1, <1>2, Returning DEF IndInv

LEMMA get_salon_infoStep == ASSUME IndInv, get_salon_info PROVE IndInv'
<1>1. /\ turn.call # None /\ Return(session, [kind |-> "hours"], past) /\ diary' = diary
  BY DEF get_salon_info, Doing
<1>2. Returned(session, [kind |-> "hours"], diary, past)
  BY <1>1, Founded, Replying
<1> QED BY <1>1, <1>2, Returning DEF IndInv

LEMMA check_availabilityStep == ASSUME IndInv, check_availability PROVE IndInv'
<1> DEFINE s == [session EXCEPT !.service = turn.call.service]
<1>1. /\ turn.call # None /\ turn.call.tool = "check_availability" /\ diary' = diary
  BY DEF check_availability, Doing
<1>2. /\ session \in Session /\ diary \in Diary /\ past \in Past /\ turn.call \in Call
      /\ Staging(session, diary, past) /\ ~session.ended /\ session.pending = None
      /\ turn.call.service \in past.topics /\ turn.round < 3
  BY <1>1, Founded DEF CallIsFounded, CallIsInTime
<1>3. /\ s \in Session /\ s.pending = None /\ s.ended = session.ended
      /\ s.candidates = session.candidates /\ s.activeIntent = session.activeIntent
      /\ s.state = session.state /\ s.service = turn.call.service
  BY <1>2 DEF Session, Past, Call
<1>4. Tried(session, turn.call, s)
  BY <1>1 DEF Tried
<1> HIDE DEF s
<1>5. Staging(s, diary, past)
  BY <1>2, <1>3
     DEF Staging, ServicesWereNamed, MovesWereAskedFor, GoneIsGone, TimesWereRead, ClosingIsClean
<1>6. Returned(s, Error, diary, past)
  BY <1>1, <1>3, <1>4, <1>5, Failing
<1>7. ASSUME NEW list \in Openings, NEW k \in {"slots", "full"}, k = "slots" => list # <<>>
      PROVE  Returned(s, [kind |-> k, list |-> list], diary, past)
  <2>1. [kind |-> k, list |-> list] \in Result
    BY ReceptionistAssumption DEF Result
  <2> QED BY <1>2, <1>3, <1>5, <1>7, <2>1 DEF Returned
<1>8. \/ \E list \in Openings :
           \/ list # <<>> /\ Return(s, [kind |-> "slots", list |-> list], past)
           \/ Return(s, [kind |-> "full", list |-> list], past)
      \/ Return(s, Error, past)
  BY DEF check_availability, s
<1> QED BY <1>1, <1>6, <1>7, <1>8, Returning DEF IndInv

\* The parts of a session that its soundness rests on.
LEMMA Stays ==
  ASSUME NEW s, NEW z, NEW d, NEW p, NEW q, Staging(s, d, p),
         p.topics \subseteq q.topics, p.move => q.move, q.gone = p.gone, p.read \subseteq q.read,
         z.service \in q.topics \cup {None},
         z.activeIntent = "reschedule" => q.move,
         z.pending = s.pending, z.state = s.state, z.ended = s.ended,
         \A i \in DOMAIN z.candidates :
           /\ z.candidates[i].service \in q.topics
           /\ z.candidates[i].id \in (1..d.made) \ p.gone
  PROVE  Staging(z, d, q)
  BY DEF Staging, ServicesWereNamed, MovesWereAskedFor, GoneIsGone, TimesWereRead, ClosingIsClean

LEMMA find_appointmentsStep == ASSUME IndInv, find_appointments PROVE IndInv'
<1>1. /\ turn.call # None /\ turn.call.tool = "find_appointments" /\ diary' = diary
      /\ CanUse(session, "find_appointments")
  BY DEF find_appointments, Doing
<1>2. /\ session \in Session /\ diary \in Diary /\ past \in Past
      /\ Staging(session, diary, past) /\ ~session.ended /\ session.pending = None
  BY <1>1, Founded DEF CallIsFounded
<1>3. CASE Return(session, Error, past)
  <2>1. Tried(session, turn.call, session)
    BY DEF Tried
  <2>2. Returned(session, Error, diary, past)
    BY <1>1, <1>2, <2>1, Failing
  <2> QED BY <1>1, <1>3, <2>2, Returning DEF IndInv
<1>4. ASSUME NEW list \in Listings
      PROVE  /\ list \in Seq(Appointment) /\ \A i \in DOMAIN list : list[i] \in diary.booked
  <2>1. Cardinality(diary.booked) \in Nat
    BY <1>2, FS_CardinalityType DEF Diary
  <2>2. list \in [1..Cardinality(diary.booked) -> diary.booked] /\ diary.booked \subseteq Appointment
    BY <1>2 DEF Listings, Diary
  <2> QED BY <2>1, <2>2
<1> DEFINE p == [past EXCEPT !.topics = @ \cup {a.service : a \in diary.booked}]
<1>5. /\ p \in Past /\ p.topics = past.topics \cup {a.service : a \in diary.booked}
      /\ p.move = past.move /\ p.gone = past.gone /\ p.read = past.read
  <2>1. {a.service : a \in diary.booked} \subseteq Services
    BY <1>2 DEF Diary, Appointment
  <2> QED BY <1>2, <2>1 DEF Past
<1>6. ASSUME NEW list \in Listings
      PROVE  /\ [session EXCEPT !.candidates = list] \in Session
             /\ Staging([session EXCEPT !.candidates = list], diary, p)
  <2> DEFINE z == [session EXCEPT !.candidates = list]
  <2>1. /\ z \in Session /\ z.service = session.service /\ z.candidates = list
        /\ z.activeIntent = session.activeIntent /\ z.pending = session.pending
        /\ z.state = session.state /\ z.ended = session.ended
    BY <1>2, <1>4 DEF Session
  <2> HIDE DEF z, p
  <2>2. z.service \in p.topics \cup {None} /\ (z.activeIntent = "reschedule" => p.move)
    BY <1>2, <1>5, <2>1 DEF Staging, ServicesWereNamed, MovesWereAskedFor
  <2>3. \A i \in DOMAIN z.candidates :
          /\ z.candidates[i].service \in p.topics
          /\ z.candidates[i].id \in (1..diary.made) \ past.gone
    BY <1>2, <1>4, <1>5, <2>1 DEF Staging, GoneIsGone
  <2>4. Staging(z, diary, p)
    BY <1>2, <1>5, <2>1, <2>2, <2>3, Stays
  <2> QED BY <2>1, <2>4 DEF z
<1>7. ASSUME NEW list \in Listings,
             LET s == [session EXCEPT !.candidates = list]
             IN  CASE list = <<>> -> Return(s, [kind |-> "none"], p)
                   [] Len(list) = 1 ->
                        Return(Settle(s, list[1]), [kind |-> "one", list |-> list], p)
                   [] OTHER -> Return(s, [kind |-> "many", list |-> list], p)
      PROVE  IndInv'
  <2> DEFINE z == [session EXCEPT !.candidates = list]
             w == Settle(z, list[1])
  <2>1. /\ z \in Session /\ z.candidates = list /\ ~z.ended /\ z.pending = None
        /\ z.state = session.state /\ z.activeIntent = session.activeIntent
        /\ Staging(z, diary, p)
    BY <1>2, <1>6 DEF Session
  <2>2. list \in Seq(Appointment)
    BY <1>4
  <2> HIDE DEF z, p
  <2>3. CASE list = <<>>
    <3>1. Return(z, [kind |-> "none"], p)
      BY <1>7, <2>3 DEF z
    <3>2. Returned(z, [kind |-> "none"], diary, p)
      BY <1>1, <1>5, <2>1, Replying
    <3> QED BY <1>1, <3>1, <3>2, Returning DEF IndInv
  <2>4. CASE list # <<>> /\ Len(list) = 1
    <3>1. Return(w, [kind |-> "one", list |-> list], p)
      BY <1>7, <2>4 DEF z
    <3>2. /\ 1 \in DOMAIN list /\ list[1] \in Appointment
          /\ list[1].id \in 1..MaxAppointments /\ list[1].service \in Services
      <4>1. 1 \in DOMAIN list /\ list[1] \in Appointment
        BY <2>2, <2>4
      <4> QED BY <4>1 DEF Appointment
    <3>3. /\ w \in Session /\ w.candidates = list /\ ~w.ended /\ w.pending = None
          /\ w.state = session.state /\ w.service = list[1].service
          /\ w.activeIntent = session.activeIntent /\ w.ended = z.ended
      <4> DEFINE i == list[1].id   v == list[1].service
      <4>1. w = [z EXCEPT !.appointment = i, !.service = v]
        BY DEF Settle
      <4>2. i \in (1..MaxAppointments) \cup {None} /\ v \in Services \cup {None}
        BY <3>2
      <4> HIDE DEF w, i, v
      <4>3. w \in Session /\ w.service = v
        BY <2>1, <4>1, <4>2 DEF Session
      <4>4. /\ w.candidates = z.candidates /\ w.ended = z.ended /\ w.pending = z.pending
            /\ w.state = z.state /\ w.activeIntent = z.activeIntent
        BY <2>1, <4>1 DEF Session
      <4> QED BY <2>1, <4>3, <4>4 DEF v
    <3> HIDE DEF w
    <3>4. w.service \in p.topics /\ (w.activeIntent = "reschedule" => p.move)
      BY <2>1, <3>2, <3>3 DEF Staging, ServicesWereNamed, MovesWereAskedFor
    <3>5. \A i \in DOMAIN w.candidates :
            /\ w.candidates[i].service \in p.topics
            /\ w.candidates[i].id \in (1..diary.made) \ p.gone
      BY <2>1, <3>3 DEF Staging, ServicesWereNamed, GoneIsGone
    <3>6. Staging(w, diary, p)
      BY <2>1, <3>3, <3>4, <3>5, Stays
    <3>7. CanUse(w, "propose_cancellation")
      BY <1>1, <3>3, Offered DEF Tools, Always
    <3>8. [kind |-> "one", list |-> list] \in Result
      BY <2>2, <2>4 DEF Result
    <3>9. Returned(w, [kind |-> "one", list |-> list], diary, p)
      BY <1>2, <1>5, <3>2, <3>3, <3>6, <3>7, <3>8 DEF Returned
    <3> QED BY <1>1, <3>1, <3>9, Returning DEF IndInv
  <2>5. CASE list # <<>> /\ Len(list) # 1
    <3>1. Return(z, [kind |-> "many", list |-> list], p)
      BY <1>7, <2>5 DEF z
    <3>2. [kind |-> "many", list |-> list] \in Result
      BY <2>2, <2>5 DEF Result
    <3>3. Returned(z, [kind |-> "many", list |-> list], diary, p)
      BY <1>2, <1>5, <2>1, <3>2 DEF Returned
    <3> QED BY <1>1, <3>1, <3>3, Returning DEF IndInv
  <2> QED BY <2>3, <2>4, <2>5
<1> QED BY <1>3, <1>7 DEF find_appointments

LEMMA select_serviceStep == ASSUME IndInv, select_service PROVE IndInv'
<1> DEFINE s == [session EXCEPT !.service = turn.call.service,
                                !.activeIntent = IF @ = "reschedule" THEN @ ELSE "book"]
<1>1. /\ turn.call # None /\ turn.call.tool = "select_service" /\ diary' = diary
      /\ Return(s, [kind |-> "service"], past)
  BY DEF select_service, Doing
<1>2. /\ session \in Session /\ past \in Past /\ turn.call \in Call
      /\ Staging(session, diary, past) /\ ~session.ended
      /\ turn.call.service \in past.topics
  BY <1>1, Founded DEF CallIsFounded
<1>3. /\ s \in Session /\ s.pending = session.pending /\ s.ended = session.ended
      /\ s.candidates = session.candidates /\ s.state = session.state
      /\ s.service = turn.call.service
      /\ s.activeIntent = "reschedule" => session.activeIntent = "reschedule"
  <2> DEFINE g == IF session.activeIntent = "reschedule" THEN session.activeIntent ELSE "book"
             v == turn.call.service
  <2>1. s = [session EXCEPT !.service = v, !.activeIntent = g]
    BY <1>2 DEF Session
  <2>2. g \in {"book", "reschedule"} /\ (g = "reschedule" => session.activeIntent = "reschedule")
    OBVIOUS
  <2>3. v \in Services \cup {None}
    BY <1>2 DEF Call
  <2> HIDE DEF g, v, s
  <2>4. s \in Session /\ s.service = v /\ s.activeIntent = g
    BY <1>2, <2>1, <2>2, <2>3 DEF Session
  <2>5. /\ s.pending = session.pending /\ s.ended = session.ended
        /\ s.candidates = session.candidates /\ s.state = session.state
    BY <1>2, <2>1 DEF Session
  <2> QED BY <2>2, <2>4, <2>5 DEF v
<1> HIDE DEF s
<1>4. Staging(s, diary, past)
  <2>1. \A i \in DOMAIN s.candidates :
          /\ s.candidates[i].service \in past.topics
          /\ s.candidates[i].id \in (1..diary.made) \ past.gone
    BY <1>2, <1>3 DEF Staging, ServicesWereNamed, GoneIsGone
  <2>2. s.activeIntent = "reschedule" => past.move
    BY <1>2, <1>3 DEF Staging, MovesWereAskedFor
  <2> QED BY <1>2, <1>3, <2>1, <2>2, Stays
<1>5. Returned(s, [kind |-> "service"], diary, past)
  BY <1>1, <1>2, <1>3, <1>4, Replying
<1> QED BY <1>1, <1>5, Returning DEF IndInv

\* A candidate is an appointment of the caller's, and settling on it is sound.
LEMMA Settling ==
  ASSUME IndInv, turn.call # None, NEW j \in DOMAIN session.candidates,
         NEW s \in Session, s.candidates = session.candidates, s.pending = session.pending,
         s.state = session.state, s.ended = session.ended,
         s.activeIntent = "reschedule" => past.move
  PROVE  /\ session.candidates[j] \in Appointment
         /\ session.candidates[j].id \in (1..diary.made) \ past.gone
         /\ session.candidates[j].id \in 1..MaxAppointments
         /\ Settle(s, session.candidates[j]) \in Session
         /\ Staging(Settle(s, session.candidates[j]), diary, past)
         /\ Settle(s, session.candidates[j]).candidates = session.candidates
         /\ Settle(s, session.candidates[j]).pending = session.pending
         /\ Settle(s, session.candidates[j]).state = session.state
         /\ Settle(s, session.candidates[j]).ended = session.ended
         /\ Settle(s, session.candidates[j]).activeIntent = s.activeIntent
<1> DEFINE a == session.candidates[j]
           z == Settle(s, a)
<1>1. session \in Session /\ Staging(session, diary, past)
  BY Founded
<1>2. a \in Appointment
  BY <1>1 DEF Session
<1>3. /\ a.service \in past.topics /\ a.id \in (1..diary.made) \ past.gone
      /\ a.id \in 1..MaxAppointments /\ a.service \in Services
  BY <1>1, <1>2 DEF Staging, ServicesWereNamed, GoneIsGone, Appointment
<1> HIDE DEF a
<1>4. /\ z \in Session /\ z.service = a.service /\ z.candidates = s.candidates
      /\ z.pending = s.pending /\ z.state = s.state /\ z.ended = s.ended
      /\ z.activeIntent = s.activeIntent
  BY <1>3 DEF Settle, Session
<1> HIDE DEF z
<1>5. Staging(z, diary, past)
  <2>1. \A i \in DOMAIN z.candidates :
          /\ z.candidates[i].service \in past.topics
          /\ z.candidates[i].id \in (1..diary.made) \ past.gone
    BY <1>1, <1>4 DEF Staging, ServicesWereNamed, GoneIsGone
  <2> QED BY <1>1, <1>3, <1>4, <2>1, Stays
<1> QED BY <1>2, <1>3, <1>4, <1>5 DEF a, z

LEMMA select_appointmentStep == ASSUME IndInv, select_appointment PROVE IndInv'
<1>1. /\ turn.call # None /\ turn.call.tool = "select_appointment" /\ diary' = diary
      /\ CanUse(session, "select_appointment")
  BY DEF select_appointment, Doing
<1>2. /\ session \in Session /\ diary \in Diary /\ past \in Past
      /\ Staging(session, diary, past) /\ ~session.ended /\ session.pending = None
  BY <1>1, Founded DEF CallIsFounded
<1>3. CASE Return(session, Error, past)
  <2>1. Tried(session, turn.call, session)
    BY DEF Tried
  <2>2. Returned(session, Error, diary, past)
    BY <1>1, <1>2, <2>1, Failing
  <2> QED BY <1>1, <1>3, <2>2, Returning DEF IndInv
<1>4. ASSUME NEW j \in DOMAIN session.candidates,
             Return([Settle(session, session.candidates[j])
                       EXCEPT !.candidates = <<session.candidates[j]>>],
                    [kind |-> "chosen", list |-> <<session.candidates[j]>>], past)
      PROVE  IndInv'
  <2> DEFINE a == session.candidates[j]
             z == Settle(session, a)
             w == [z EXCEPT !.candidates = <<a>>]
             r == [kind |-> "chosen", list |-> <<a>>]
  <2>1. session.activeIntent = "reschedule" => past.move
    BY <1>2 DEF Staging, MovesWereAskedFor
  <2>2. /\ a \in Appointment /\ a.id \in (1..diary.made) \ past.gone
        /\ z \in Session /\ Staging(z, diary, past)
        /\ z.candidates = session.candidates /\ z.pending = session.pending
        /\ z.state = session.state /\ z.ended = session.ended
        /\ z.activeIntent = session.activeIntent
    BY <1>1, <1>2, <2>1, Settling
  <2>3. a.service \in past.topics
    BY <1>2 DEF Staging, ServicesWereNamed
  <2> HIDE DEF a, z
  <2>4. /\ w \in Session /\ w.candidates = <<a>> /\ w.pending = z.pending
        /\ w.state = z.state /\ w.ended = z.ended /\ w.activeIntent = z.activeIntent
        /\ w.service = z.service
    <3>1. <<a>> \in Seq(Appointment)
      BY <2>2
    <3> QED BY <2>2, <3>1 DEF Session
  <2>5. Return(w, r, past)
    BY <1>4 DEF a, z
  <2> HIDE DEF w
  <2>6. Staging(w, diary, past)
    <3>1. \A i \in DOMAIN w.candidates : w.candidates[i] = a
      BY <2>4
    <3>2. \A i \in DOMAIN w.candidates :
            /\ w.candidates[i].service \in past.topics
            /\ w.candidates[i].id \in (1..diary.made) \ past.gone
      BY <2>2, <2>3, <3>1
    <3>3. z.service \in past.topics \cup {None}
      BY <2>2 DEF Staging, ServicesWereNamed
    <3> QED BY <2>1, <2>2, <2>4, <3>2, <3>3, Stays
  <2>7. CanUse(w, "propose_cancellation")
    BY <1>1, <2>2, <2>4, Offered DEF Tools, Always
  <2>8. r \in Result
    BY <2>2 DEF Result
  <2>9. \E i \in DOMAIN w.candidates : w.candidates[i].id = r.list[1].id
    BY <2>4
  <2>10. Returned(w, r, diary, past)
    BY <1>2, <2>2, <2>4, <2>6, <2>7, <2>8, <2>9 DEF Returned
  <2> QED BY <1>1, <2>5, <2>10, Returning DEF IndInv
<1> QED BY <1>3, <1>4 DEF select_appointment, Candidates

\* Staging an action takes nothing that was not read out, named and asked for.
LEMMA Stages ==
  ASSUME IndInv, turn.call # None, NEW s \in Session, Staging(s, diary, past),
         ~s.ended, s.state # "CLOSING",
         NEW q, q = [action |-> q.action, service |-> q.service, time |-> q.time,
                     appointment |-> q.appointment, restated |-> FALSE, landed |-> FALSE],
         q \in Action,
         IF q.action = "cancel" THEN q.time = None ELSE q.time \in past.read,
         q.action = "book" => q.service \in past.topics /\ q.appointment = None,
         q.action # "book" => q.appointment \in (1..diary.made) \ past.gone,
         q.action = "reschedule" => past.move
  PROVE  Returned([s EXCEPT !.pending = q], [kind |-> "staged"], diary, past)
<1> DEFINE z == [s EXCEPT !.pending = q]
<1>1. ~q.landed
  OBVIOUS
<1>2. /\ z \in Session /\ z.pending = q /\ z.service = s.service
      /\ z.candidates = s.candidates /\ z.activeIntent = s.activeIntent
      /\ z.state = s.state /\ z.ended = s.ended
  BY DEF Session
<1> HIDE DEF z
<1>3. ServicesWereNamed(z, past) /\ MovesWereAskedFor(z, past)
  BY <1>2 DEF Staging, ServicesWereNamed, MovesWereAskedFor
<1>4. GoneIsGone(z, diary, past)
  BY <1>1, <1>2 DEF Staging, GoneIsGone
<1>5. TimesWereRead(z, past) /\ ClosingIsClean(z)
  BY <1>2 DEF TimesWereRead, ClosingIsClean
<1>6. Staging(z, diary, past)
  BY <1>3, <1>4, <1>5 DEF Staging
<1> QED BY <1>2, <1>6, Founded, Replying DEF z

LEMMA propose_bookingStep == ASSUME IndInv, propose_booking PROVE IndInv'
<1> DEFINE s == [session EXCEPT !.activeIntent = "book"]
           z == [s EXCEPT !.service = turn.call.service]
           q == [action |-> "book", service |-> turn.call.service, time |-> turn.call.time,
                 appointment |-> None, restated |-> FALSE, landed |-> FALSE]
<1>1. /\ turn.call # None /\ turn.call.tool = "propose_booking" /\ diary' = diary
      /\ Return(s, Error, past) \/ Return([z EXCEPT !.pending = q], [kind |-> "staged"], past)
  BY DEF propose_booking, Doing, Stage
<1>2. /\ session \in Session /\ diary \in Diary /\ past \in Past /\ turn.call \in Call
      /\ Staging(session, diary, past) /\ ~session.ended /\ session.state # "CLOSING"
      /\ turn.call.time \in past.read /\ turn.call.service \in past.topics
  BY <1>1, Founded DEF CallIsFounded
<1>3. /\ s \in Session /\ s.pending = session.pending /\ s.ended = session.ended
      /\ s.candidates = session.candidates /\ s.state = session.state
      /\ s.service = session.service /\ s.activeIntent # "reschedule"
  BY <1>2 DEF Session
<1>4. Tried(session, turn.call, s)
  BY <1>1 DEF Tried
<1> HIDE DEF s
<1>5. /\ z \in Session /\ z.pending = session.pending /\ z.ended = session.ended
      /\ z.candidates = session.candidates /\ z.state = session.state
      /\ z.service = turn.call.service /\ z.activeIntent = s.activeIntent
  BY <1>2, <1>3 DEF Session, Call
<1> HIDE DEF z
<1>6. \A i \in DOMAIN session.candidates :
        /\ session.candidates[i].service \in past.topics
        /\ session.candidates[i].id \in (1..diary.made) \ past.gone
  BY <1>2 DEF Staging, ServicesWereNamed, GoneIsGone
<1>7. session.service \in past.topics \cup {None}
  BY <1>2 DEF Staging, ServicesWereNamed
<1>8. Staging(s, diary, past) /\ Staging(z, diary, past)
  BY <1>2, <1>3, <1>5, <1>6, <1>7, Stays
<1>9. Returned(s, Error, diary, past)
  BY <1>1, <1>3, <1>4, <1>8, Failing
<1>10. q \in Action
  BY <1>2 DEF Action, Past
<1>11. Returned([z EXCEPT !.pending = q], [kind |-> "staged"], diary, past)
  BY <1>1, <1>2, <1>5, <1>8, <1>10, Stages
<1> HIDE DEF q
<1> QED BY <1>1, <1>9, <1>11, Returning DEF IndInv

LEMMA ProposeChangeStep ==
  ASSUME IndInv, turn.call # None, NEW action \in {"cancel", "reschedule"},
         turn.call.tool = IF action = "cancel" THEN "propose_cancellation"
                          ELSE "propose_reschedule",
         ProposeChange(action), diary' = diary
  PROVE  IndInv'
<1> DEFINE s == [session EXCEPT !.activeIntent = action]
<1>1. /\ session \in Session /\ diary \in Diary /\ past \in Past /\ turn.call \in Call
      /\ Staging(session, diary, past) /\ ~session.ended /\ session.state # "CLOSING"
      /\ action = "cancel" => turn.call.time = None
      /\ action = "reschedule" =>
           session.activeIntent = "reschedule" /\ turn.call.time \in past.read
  BY Founded DEF CallIsFounded
<1>2. /\ s \in Session /\ s.pending = session.pending /\ s.ended = session.ended
      /\ s.candidates = session.candidates /\ s.state = session.state
      /\ s.service = session.service /\ s.activeIntent = action
  BY <1>1 DEF Session
<1>3. Tried(session, turn.call, s)
  BY DEF Tried
<1> HIDE DEF s
<1>4. s.activeIntent = "reschedule" => past.move
  BY <1>1, <1>2 DEF Staging, MovesWereAskedFor
<1>5. Staging(s, diary, past)
  <2>1. \A i \in DOMAIN s.candidates :
          /\ s.candidates[i].service \in past.topics
          /\ s.candidates[i].id \in (1..diary.made) \ past.gone
    BY <1>1, <1>2 DEF Staging, ServicesWereNamed, GoneIsGone
  <2>2. s.service \in past.topics \cup {None}
    BY <1>1, <1>2 DEF Staging, ServicesWereNamed
  <2> QED BY <1>1, <1>2, <1>4, <2>1, <2>2, Stays
<1>6. ASSUME Candidates(turn.call.appointment) = {}
      PROVE  Returned(s, Error, diary, past)
  BY <1>2, <1>3, <1>5, <1>6, Failing
<1>7. ASSUME NEW j \in DOMAIN session.candidates,
             Stage(Settle(s, session.candidates[j]), action, None, turn.call.time,
                   session.candidates[j].id)
      PROVE  IndInv'
  <2> DEFINE a == session.candidates[j]
             z == Settle(s, a)
             q == [action |-> action, service |-> None, time |-> turn.call.time,
                   appointment |-> a.id, restated |-> FALSE, landed |-> FALSE]
  <2>1. Return([z EXCEPT !.pending = q], [kind |-> "staged"], past)
    BY <1>7 DEF Stage
  <2>2. /\ a.id \in (1..diary.made) \ past.gone /\ a.id \in 1..MaxAppointments
        /\ z \in Session /\ Staging(z, diary, past) /\ z.state = session.state
        /\ z.ended = session.ended
    BY <1>2, <1>4, Settling
  <2> HIDE DEF a, z
  <2>3. q \in Action
    BY <1>1, <2>2 DEF Action, Past, Call
  <2>4. Returned([z EXCEPT !.pending = q], [kind |-> "staged"], diary, past)
    BY <1>1, <1>2, <1>4, <2>2, <2>3, Stages
  <2> HIDE DEF q
  <2> QED BY <2>1, <2>4, Returning DEF IndInv
<1>8. \/ Candidates(turn.call.appointment) = {} /\ Return(s, Error, past)
      \/ \E j \in DOMAIN session.candidates :
           Stage(Settle(s, session.candidates[j]), action, None, turn.call.time,
                 session.candidates[j].id)
  BY DEF ProposeChange, Candidates, s
<1> QED BY <1>6, <1>7, <1>8, Returning DEF IndInv

LEMMA propose_cancellationStep == ASSUME IndInv, propose_cancellation PROVE IndInv'
  BY ProposeChangeStep DEF propose_cancellation, Doing

LEMMA propose_rescheduleStep == ASSUME IndInv, propose_reschedule PROVE IndInv'
  BY ProposeChangeStep DEF propose_reschedule, Doing

LEMMA request_callbackStep == ASSUME IndInv, request_callback PROVE IndInv'
<1> DEFINE s == [session EXCEPT !.escalation = TRUE, !.state = "ESCALATION"]
<1>1. /\ turn.call # None /\ diary' = diary /\ Return(s, [kind |-> "captured"], past)
  BY DEF request_callback, Doing
<1>2. session \in Session /\ Staging(session, diary, past) /\ ~session.ended /\ past \in Past
  BY <1>1, Founded
<1>3. /\ s \in Session /\ s.pending = session.pending /\ s.ended = session.ended
      /\ s.candidates = session.candidates /\ s.activeIntent = session.activeIntent
      /\ s.service = session.service /\ s.state = "ESCALATION"
  BY <1>2 DEF Session
<1> HIDE DEF s
<1>4. Staging(s, diary, past)
  BY <1>2, <1>3
     DEF Staging, ServicesWereNamed, MovesWereAskedFor, GoneIsGone, TimesWereRead, ClosingIsClean
<1>5. Returned(s, [kind |-> "captured"], diary, past)
  BY <1>1, <1>2, <1>3, <1>4, Replying
<1> QED BY <1>1, <1>5, Returning DEF IndInv

LEMMA end_callStep == ASSUME IndInv, end_call PROVE IndInv'
<1> DEFINE s == [session EXCEPT !.state = "CLOSING", !.ended = TRUE]
<1>1. /\ turn.call # None /\ turn.call.tool = "end_call" /\ diary' = diary
      /\ Return(s, [kind |-> "ended"], past)
  BY DEF end_call, Doing
<1>2. /\ session \in Session /\ Staging(session, diary, past) /\ diary \in Diary
      /\ past \in Past /\ session.pending = None
  BY <1>1, Founded DEF CallIsFounded
<1>3. /\ s \in Session /\ s.pending = session.pending /\ s.ended
      /\ s.candidates = session.candidates /\ s.activeIntent = session.activeIntent
      /\ s.service = session.service
  BY <1>2 DEF Session
<1> HIDE DEF s
<1>4. Staging(s, diary, past)
  BY <1>2, <1>3
     DEF Staging, ServicesWereNamed, MovesWereAskedFor, GoneIsGone, TimesWereRead, ClosingIsClean
<1>5. Returned(s, [kind |-> "ended"], diary, past)
  BY <1>2, <1>3, <1>4 DEF Returned, Result
<1> QED BY <1>1, <1>5, Returning DEF IndInv

\* What the write leaves in the diary.
LEMMA Carrying ==
  ASSUME diary \in Diary, NEW q \in Action, Possible(q), q.action = "book" => q.service \in Services,
         q.action \in {"book", "reschedule"} => q.time \in Time,
         q.action # "book" => q.appointment \in 1..diary.made
  PROVE  /\ Carried(q) \in Diary /\ diary.made <= Carried(q).made
         /\ \A a \in Carried(q).booked :
              \/ \E b \in diary.booked : b.id = a.id
              \/ a.id = diary.made + 1 /\ Carried(q).made = diary.made + 1
         /\ q.action # "book" => \A a \in Carried(q).booked : a.id # q.appointment
<1>1. /\ diary.booked \subseteq Appointment /\ IsFiniteSet(diary.booked)
      /\ diary.made \in 0..MaxAppointments
  BY DEF Diary
<1>2. /\ Target(q) \subseteq diary.booked /\ IsFiniteSet(Target(q))
      /\ IsFiniteSet(diary.booked \ Target(q))
      /\ \A a \in diary.booked \ Target(q) : a.id # q.appointment
  BY <1>1, FS_Subset DEF Target
<1>3. CASE q.action = "cancel"
  <2>1. Carried(q) = [diary EXCEPT !.booked = @ \ Target(q)]
    BY <1>3 DEF Carried
  <2>2. /\ Carried(q) \in Diary /\ Carried(q).booked = diary.booked \ Target(q)
        /\ Carried(q).made = diary.made
    BY <1>1, <1>2, <2>1 DEF Diary
  <2> QED BY <1>1, <1>2, <1>3, <2>2
<1>4. CASE q.action # "cancel"
  <2> DEFINE served == IF q.action = "book" THEN {q.service} ELSE {a.service : a \in Target(q)}
             f == [a \in Target(q) |-> a.service]
             g == [v \in served |-> [id |-> diary.made + 1, service |-> v, time |-> q.time]]
             new == {[id |-> diary.made + 1, service |-> v, time |-> q.time] : v \in served}
             B == (diary.booked \ Target(q)) \cup new
  <2>1. Carried(q) = [booked |-> B, made |-> diary.made + 1]
    BY <1>4 DEF Carried
  <2>2. diary.made + 1 \in 1..MaxAppointments /\ diary.made + 1 \in 0..MaxAppointments
    BY <1>1, <1>4, Constants DEF Possible
  <2>3. served \subseteq Services /\ q.time \in Time
    BY <1>1, <1>2, <1>4 DEF Appointment, Action
  <2>4. IsFiniteSet(served)
    <3>1. CASE q.action = "book"
      BY <3>1, FS_Singleton
    <3>2. CASE q.action # "book"
      <4>1. f \in Surjection(Target(q), {a.service : a \in Target(q)})
        BY DEF Surjection
      <4> QED BY <1>2, <3>2, <4>1, FS_Surjection
    <3> QED BY <3>1, <3>2
  <2>5. IsFiniteSet(new)
    <3>1. g \in Surjection(served, new)
      BY DEF Surjection
    <3> QED BY <2>4, <3>1, FS_Surjection
  <2>6. new \subseteq Appointment /\ \A a \in new : a.id = diary.made + 1
    BY <2>2, <2>3 DEF Appointment
  <2> HIDE DEF new
  <2>7. IsFiniteSet(B) /\ B \subseteq Appointment
    BY <1>1, <1>2, <2>5, <2>6, FS_Union
  <2> HIDE DEF B
  <2>8. Carried(q) \in Diary /\ Carried(q).booked = B /\ Carried(q).made = diary.made + 1
    BY <2>1, <2>2, <2>7 DEF Diary
  <2>9. q.action # "book" => q.appointment # diary.made + 1
    BY <1>1
  <2> QED BY <1>1, <1>2, <2>6, <2>8, <2>9 DEF B
<1> QED BY <1>3, <1>4

\* What is known of an action that is being committed.
LEMMA Committing ==
  ASSUME IndInv, Doing("commit_pending_action")
  PROVE  /\ turn.call # None /\ turn.call.tool = "commit_pending_action"
         /\ turn.round = 1 /\ session.pending \in Action
         /\ Possible(session.pending) =>
              /\ Carried(session.pending) \in Diary
              /\ diary.made <= Carried(session.pending).made
              /\ \A a \in Carried(session.pending).booked :
                   \/ \E b \in diary.booked : b.id = a.id
                   \/ /\ a.id = diary.made + 1
                      /\ Carried(session.pending).made = diary.made + 1
              /\ session.pending.action # "book" =>
                   \A a \in Carried(session.pending).booked : a.id # session.pending.appointment
<1>1. turn.call # None /\ turn.call.tool = "commit_pending_action"
      /\ CanUse(session, "commit_pending_action")
  BY DEF Doing
<1>2. /\ session \in Session /\ diary \in Diary /\ past \in Past
      /\ Staging(session, diary, past) /\ turn.round = 1 /\ session.pending # None
  BY <1>1, Founded, Offered DEF CallIsInTime
<1>3. session.pending \in Action
  BY <1>2 DEF Session
<1>4. session.pending.action = "book" => session.pending.service \in Services
  BY <1>2 DEF Staging, ServicesWereNamed, Past
<1>5. session.pending.action \in {"book", "reschedule"} => session.pending.time \in Time
  BY <1>2 DEF Staging, TimesWereRead, Past
<1>6. session.pending.action # "book" => session.pending.appointment \in 1..diary.made
  BY <1>2 DEF Staging, GoneIsGone
<1> QED BY <1>1, <1>2, <1>3, <1>4, <1>5, <1>6, Carrying

LEMMA CommitSucceedsStep == ASSUME IndInv, CommitSucceeds PROVE IndInv'
<1> DEFINE q == session.pending
           s == Finished(session)
           p == [read |-> {}, topics |-> {}, move |-> FALSE,
                 gone |-> past.gone \cup IF q.action = "book" THEN {} ELSE {q.appointment}]
<1>1. /\ Doing("commit_pending_action") /\ (q.landed \/ Possible(q))
      /\ diary' = (IF q.landed THEN diary ELSE Carried(q))
      /\ Return(s, [kind |-> "done"], p)
  BY DEF CommitSucceeds
<1>2. /\ turn.call # None /\ q \in Action /\ q # None
      /\ session \in Session /\ diary \in Diary /\ past \in Past
      /\ Staging(session, diary, past) /\ ~session.ended
  BY <1>1, Committing, Founded, Offered DEF Doing
<1>3. /\ s \in Session /\ s.pending = None /\ s.candidates = <<>> /\ s.activeIntent = None
      /\ s.service = None /\ s.state = "IN_TALK" /\ ~s.ended
  <2>1. <<>> \in Seq(Appointment) /\ 0 \in 0..EscalateAfter
    BY Constants
  <2>2. s \in Session
    BY <1>2, <2>1 DEF Finished, Session
  <2> QED BY <1>2, <2>2 DEF Finished, Session
<1>4. /\ past.gone \subseteq 1..diary.made
      /\ \A a \in diary.booked : a.id \in (1..diary.made) \ past.gone
      /\ q.action # "book" => q.appointment \in (1..diary.made) \ past.gone
      /\ q.action # "book" /\ q.landed => \A a \in diary.booked : a.id # q.appointment
  BY <1>2 DEF Staging, GoneIsGone
<1>5. diary' \in Diary /\ diary.made \in Nat /\ diary'.made \in Nat /\ diary.made <= diary'.made
  <2>1. diary' \in Diary
    BY <1>1, <1>2, Committing
  <2>2. diary.made \in Nat /\ diary'.made \in Nat
    BY <1>2, <2>1, Constants DEF Diary
  <2> QED BY <1>1, <2>1, <2>2, Committing
<1>6. p \in Past /\ p.gone \subseteq 1..diary'.made
  <2>1. 1..diary.made \subseteq 1..MaxAppointments /\ 1..diary.made \subseteq 1..diary'.made
    BY <1>2, <1>5, Constants DEF Diary
  <2>2. p.gone \subseteq 1..diary.made
    BY <1>4
  <2> QED BY <2>1, <2>2 DEF Past
<1>7. \A a \in diary'.booked : a.id \in (1..diary'.made) \ p.gone
  <2> SUFFICES ASSUME NEW a \in diary'.booked
               PROVE  a.id \in (1..diary'.made) \ p.gone
    OBVIOUS
  <2>1. \/ \E b \in diary.booked : b.id = a.id
        \/ a.id = diary.made + 1 /\ diary'.made = diary.made + 1
    BY <1>1, Committing
  <2>2. a.id \in (1..diary'.made) \ past.gone
    BY <1>4, <1>5, <2>1
  <2>3. q.action # "book" => a.id # q.appointment
    BY <1>1, <1>4, Committing
  <2> QED BY <2>2, <2>3
<1> HIDE DEF s, p
<1>8. Staging(s, diary', p)
  <2>1. None # "reschedule" /\ DOMAIN s.candidates = {}
    BY <1>3, ReceptionistAssumption
  <2> QED BY <1>3, <1>6, <1>7, <2>1
          DEF Staging, ServicesWereNamed, MovesWereAskedFor, GoneIsGone, TimesWereRead,
              ClosingIsClean
<1>9. Returned(s, [kind |-> "done"], diary', p)
  BY <1>3, <1>5, <1>6, <1>8 DEF Returned, Result
<1> QED BY <1>1, <1>2, <1>9, Returning DEF IndInv

LEMMA FailedKeeps ==
  ASSUME NEW s \in Session, s.state # "CLOSING"
  PROVE  /\ Failed(s) \in Session /\ Failed(s).pending = s.pending
         /\ Failed(s).candidates = s.candidates /\ Failed(s).activeIntent = s.activeIntent
         /\ Failed(s).service = s.service /\ Failed(s).ended = s.ended
         /\ Failed(s).state = "IN_TALK"
<1>1. Min2(s.failures + 1, EscalateAfter) \in 0..EscalateAfter
  BY Constants DEF Min2, Session
<1>2. Failed(s) \in Session
  BY <1>1 DEF Failed, Session
<1> QED BY <1>2 DEF Failed, Session

LEMMA CommitRefusedStep == ASSUME IndInv, CommitRefused PROVE IndInv'
<1> DEFINE q == session.pending
           s == [Failed(session) EXCEPT !.pending = None]
           z == [s EXCEPT !.candidates = <<>>, !.appointment = None]
           p == [past EXCEPT !.gone = @ \cup {q.appointment}]
<1>1. /\ Doing("commit_pending_action") /\ diary' = diary
      /\ \/ /\ q.action # "book" /\ Target(q) = {}
            /\ Return(z, [kind |-> "failed", list |-> <<>>], p)
         \/ \E list \in Openings \cup {<<>>} : Return(s, [kind |-> "failed", list |-> list], past)
  BY DEF CommitRefused
<1>2. /\ turn.call # None /\ turn.round = 1 /\ q \in Action /\ q # None
      /\ session \in Session /\ diary \in Diary /\ past \in Past
      /\ Staging(session, diary, past) /\ ~session.ended /\ session.state # "CLOSING"
  BY <1>1, Committing, Founded, Offered DEF Doing
<1>3. /\ s \in Session /\ s.pending = None /\ s.candidates = session.candidates
      /\ s.activeIntent = session.activeIntent /\ s.service = session.service
      /\ ~s.ended /\ s.state = "IN_TALK"
  BY <1>2, FailedKeeps DEF Session
<1> HIDE DEF s
<1>4. /\ z \in Session /\ z.pending = None /\ z.candidates = <<>>
      /\ z.activeIntent = session.activeIntent /\ z.service = session.service
      /\ ~z.ended /\ z.state = "IN_TALK"
  <2>1. <<>> \in Seq(Appointment)
    OBVIOUS
  <2>2. z \in Session
    BY <1>3, <2>1 DEF Session
  <2> QED BY <1>3, <2>2 DEF Session
<1> HIDE DEF z
<1>5. CASE q.action # "book" /\ Target(q) = {}
           /\ Return(z, [kind |-> "failed", list |-> <<>>], p)
  <2>1. /\ q.appointment \in 1..diary.made /\ 1..diary.made \subseteq 1..MaxAppointments
        /\ past.gone \subseteq 1..diary.made
    BY <1>2, <1>5, Constants DEF Staging, GoneIsGone, Diary
  <2>2. /\ p \in Past /\ p.topics = past.topics /\ p.move = past.move /\ p.read = past.read
        /\ p.gone = past.gone \cup {q.appointment}
    BY <1>2, <2>1 DEF Past
  <2>3. DOMAIN z.candidates = {}
    BY <1>4
  <2> HIDE DEF p
  <2>4. ServicesWereNamed(z, p) /\ MovesWereAskedFor(z, p)
    BY <1>2, <1>4, <2>2, <2>3 DEF Staging, ServicesWereNamed, MovesWereAskedFor
  <2>5. GoneIsGone(z, diary, p)
    BY <1>2, <1>4, <1>5, <2>1, <2>2, <2>3 DEF Staging, GoneIsGone, Target
  <2>6. TimesWereRead(z, p) /\ ClosingIsClean(z)
    BY <1>4 DEF TimesWereRead, ClosingIsClean
  <2>7. Returned(z, [kind |-> "failed", list |-> <<>>], diary, p)
    BY <1>2, <1>4, <2>2, <2>4, <2>5, <2>6 DEF Returned, Result, Staging
  <2> QED BY <1>1, <1>2, <1>5, <2>7, Returning DEF IndInv
<1>6. ASSUME NEW list \in Openings \cup {<<>>}, Return(s, [kind |-> "failed", list |-> list], past)
      PROVE  IndInv'
  <2>1. [kind |-> "failed", list |-> list] \in Result
    <3>1. list \in Seq(Time)
      <4>1. <<>> \in Seq(Time) /\ \A o \in Openings : o \in Seq(Time)
        BY ReceptionistAssumption
      <4> QED BY <4>1
    <3> QED BY <3>1 DEF Result
  <2>2. Staging(s, diary, past)
    BY <1>2, <1>3
       DEF Staging, ServicesWereNamed, MovesWereAskedFor, GoneIsGone, TimesWereRead,
           ClosingIsClean
  <2>3. Returned(s, [kind |-> "failed", list |-> list], diary, past)
    BY <1>2, <1>3, <2>1, <2>2 DEF Returned
  <2> QED BY <1>1, <1>2, <1>6, <2>3, Returning DEF IndInv
<1> QED BY <1>1, <1>5, <1>6

LEMMA CommitUnansweredStep == ASSUME IndInv, CommitUnanswered PROVE IndInv'
<1> DEFINE q == session.pending
           r == [kind |-> "failed", list |-> <<>>]
           s == Failed(session)
           z == [s EXCEPT !.pending.landed = TRUE]
<1>1. /\ Doing("commit_pending_action")
      /\ \/ /\ ~q.landed /\ Possible(q) /\ diary' = Carried(q)
            /\ Return(z, r, past)
         \/ diary' = diary /\ Return(s, r, past)
  BY DEF CommitUnanswered
<1>2. /\ turn.call # None /\ turn.round = 1 /\ q \in Action /\ q # None
      /\ session \in Session /\ diary \in Diary /\ past \in Past
      /\ Staging(session, diary, past) /\ ~session.ended /\ session.state # "CLOSING"
  BY <1>1, Committing, Founded, Offered DEF Doing
<1>3. /\ s \in Session /\ s.pending = q /\ s.candidates = session.candidates
      /\ s.activeIntent = session.activeIntent /\ s.service = session.service
      /\ ~s.ended /\ s.state = "IN_TALK"
  BY <1>2, FailedKeeps
<1> HIDE DEF s
<1>4. r \in Result
  BY DEF Result
<1>5. CASE ~q.landed /\ Possible(q) /\ diary' = Carried(q) /\ Return(z, r, past)
  <2>1. [q EXCEPT !.landed = TRUE] \in Action
    BY <1>2 DEF Action
  <2>2. z = [s EXCEPT !.pending = [q EXCEPT !.landed = TRUE]]
    BY <1>3
  <2>3. /\ z \in Session /\ z.pending = [q EXCEPT !.landed = TRUE]
        /\ z.candidates = session.candidates /\ z.activeIntent = session.activeIntent
        /\ z.service = session.service /\ ~z.ended /\ z.state = "IN_TALK"
    <3> HIDE DEF z
    <3> QED BY <1>3, <2>1, <2>2 DEF Session
  <2>4. /\ z.pending.action = q.action /\ z.pending.service = q.service
        /\ z.pending.time = q.time /\ z.pending.appointment = q.appointment
    BY <1>2, <2>3 DEF Action
  <2> HIDE DEF z
  <2>5. /\ diary' \in Diary /\ diary.made <= diary'.made
        /\ diary.made \in Nat /\ diary'.made \in Nat
        /\ \A a \in diary'.booked :
             \/ \E b \in diary.booked : b.id = a.id
             \/ a.id = diary.made + 1 /\ diary'.made = diary.made + 1
        /\ q.action # "book" => \A a \in diary'.booked : a.id # q.appointment
    <3>1. diary' \in Diary
      BY <1>1, <1>5, Committing
    <3>2. diary.made \in Nat /\ diary'.made \in Nat
      BY <1>2, <3>1, Constants DEF Diary
    <3> QED BY <1>1, <1>5, <3>1, <3>2, Committing
  <2>6. 1..diary.made \subseteq 1..diary'.made
    BY <2>5
  <2>7. \A a \in diary'.booked : a.id \in (1..diary'.made) \ past.gone
    <3> SUFFICES ASSUME NEW a \in diary'.booked
                 PROVE  a.id \in (1..diary'.made) \ past.gone
      OBVIOUS
    <3>1. /\ past.gone \subseteq 1..diary.made
          /\ \A b \in diary.booked : b.id \in (1..diary.made) \ past.gone
      BY <1>2 DEF Staging, GoneIsGone
    <3> QED BY <2>5, <2>6, <3>1
  <2>8. GoneIsGone(z, diary', past)
    <3>1. /\ past.gone \subseteq 1..diary'.made
          /\ \A i \in DOMAIN z.candidates : z.candidates[i].id \in (1..diary'.made) \ past.gone
      BY <1>2, <2>3, <2>6 DEF Staging, GoneIsGone
    <3>2. /\ q.action = "book" => q.appointment = None
          /\ q.action # "book" => q.appointment \in (1..diary'.made) \ past.gone
      BY <1>2, <2>6 DEF Staging, GoneIsGone
    <3> QED BY <2>4, <2>5, <2>7, <3>1, <3>2 DEF GoneIsGone
  <2>9. Staging(z, diary', past)
    BY <1>2, <2>3, <2>4, <2>8
       DEF Staging, ServicesWereNamed, MovesWereAskedFor, TimesWereRead, ClosingIsClean
  <2>10. Returned(z, r, diary', past)
    BY <1>2, <1>4, <2>3, <2>5, <2>9 DEF Returned
  <2> QED BY <1>2, <1>5, <2>10, Returning DEF IndInv
<1>6. CASE diary' = diary /\ Return(s, r, past)
  <2>1. Staging(s, diary, past)
    BY <1>2, <1>3
       DEF Staging, ServicesWereNamed, MovesWereAskedFor, GoneIsGone, TimesWereRead,
           ClosingIsClean
  <2>2. Returned(s, r, diary, past)
    BY <1>2, <1>3, <1>4, <2>1 DEF Returned
  <2> QED BY <1>2, <1>6, <2>2, Returning DEF IndInv
<1> QED BY <1>1, <1>5, <1>6

LEMMA LapseStep ==
  ASSUME IndInv, NEW a \in diary.booked, Lapse(a)
  PROVE  IndInv'
<1>1. /\ diary' = [diary EXCEPT !.booked = @ \ {a}]
      /\ session' = session /\ heard' = heard /\ turn' = turn /\ past' = past
  BY DEF Lapse
<1>2. diary \in Diary /\ Sound(session, heard, turn, diary, past)
  BY DEF IndInv, Sound
<1>3. IsFiniteSet(diary.booked \ {a})
  BY <1>2, FS_Subset DEF Diary
<1>4. /\ diary' \in Diary /\ diary'.made = diary.made
      /\ diary'.booked \subseteq diary.booked
  BY <1>1, <1>2, <1>3 DEF Diary
<1>5. Staging(session, diary', past)
  BY <1>2, <1>4 DEF Sound, Staging, GoneIsGone
<1>6. Sound(session, heard, turn, diary', past)
  BY <1>2, <1>4, <1>5 DEF Sound
<1> QED BY <1>1, <1>6 DEF IndInv

LEMMA StepKeepsIndInv == IndInv /\ [Next]_vars => IndInv'
<1> SUFFICES ASSUME IndInv, [Next]_vars PROVE IndInv'
  OBVIOUS
<1>1. CASE \E u \in Utterances : Hear(u)
  BY <1>1, Hearing
<1>2. CASE UseTool
  BY <1>2, RefusedStep, list_servicesStep, get_salon_infoStep, check_availabilityStep,
     find_appointmentsStep, select_serviceStep, select_appointmentStep, propose_bookingStep,
     propose_cancellationStep, propose_rescheduleStep, CommitSucceedsStep, CommitRefusedStep,
     CommitUnansweredStep, request_callbackStep, end_callStep
     DEF UseTool, Commit
<1>3. CASE \E a \in diary.booked : Lapse(a)
  BY <1>3, LapseStep
<1>4. CASE UNCHANGED vars
  BY <1>4 DEF vars, IndInv
<1> QED BY <1>1, <1>2, <1>3, <1>4 DEF Next, Goodbyes

-----------------------------------------------------------------------------
(* What holds of every call *)

LEMMA IndInvHolds == Spec => []IndInv
  BY Beginning, StepKeepsIndInv, PTL DEF Spec

\* Session, history, turn, diary and record of the call keep their types, whoever
\* calls, whatever they say and whatever the API answers.
THEOREM ReceptionistTyped == Spec => []TypeOK
<1>1. IndInv => TypeOK
  <2> SUFFICES ASSUME IndInv PROVE TypeOK
    OBVIOUS
  <2>1. /\ session \in Session /\ heard \in Heard /\ turn \in Turn /\ diary \in Diary
        /\ past \in Past
    BY DEF IndInv, Sound
  <2>2. Utterances \subseteq Utterance
    BY ReceptionistAssumption
  <2>3. turn \in [says : Utterance, round : 1..MaxToolRounds, seen : SUBSET Call,
                 call : Call \cup {None}]
    BY <2>1, <2>2 DEF Turn
  <2>4. diary \in [booked : SUBSET Appointment, made : 0..MaxAppointments]
    BY <2>1 DEF Diary
  <2> QED BY <2>1, <2>3, <2>4 DEF TypeOK, Past
<1> QED BY <1>1, IndInvHolds, PTL

\* A time that is staged (propose_booking, propose_reschedule) was read out to the
\* caller since the last change went through.
THEOREM OfferedTimesOnly == Spec => []OnlyTimesReadOut
<1>1. IndInv => OnlyTimesReadOut
  BY DEF IndInv, Sound, Staging, TimesWereRead, OnlyTimesReadOut, Staged
<1> QED BY <1>1, IndInvHolds, PTL

\* An appointment known to be gone is never staged to be moved or cancelled.
THEOREM GoneStaysGone == Spec => []NoGhosts
<1>1. IndInv => NoGhosts
  <2> SUFFICES ASSUME IndInv, session.pending # None
               PROVE  session.pending.appointment \notin past.gone
    BY DEF NoGhosts, Staged
  <2>1. /\ session \in Session /\ past \in Past /\ GoneIsGone(session, diary, past)
    BY DEF IndInv, Sound, Staging
  <2>2. None \notin past.gone
    BY <2>1, ReceptionistAssumption DEF Past
  <2> QED BY <2>1, <2>2 DEF GoneIsGone
<1> QED BY <1>1, IndInvHolds, PTL

\* A picked time moves an appointment only when the caller asked for a move since the
\* last change.
THEOREM MovesAreAskedFor == Spec => []MoveOnlyOnRequest
<1>1. IndInv => MoveOnlyOnRequest
  BY DEF IndInv, Sound, Staging, MovesWereAskedFor, MoveOnlyOnRequest, Staged
<1> QED BY <1>1, IndInvHolds, PTL

\* The service staged to be booked is one the caller named, picked or has already had
\* booked, since the last change.
THEOREM BookedServicesAreNamed == Spec => []BookedWasNamed
<1>1. IndInv => BookedWasNamed
  BY DEF IndInv, Sound, Staging, ServicesWereNamed, BookedWasNamed, Staged
<1> QED BY <1>1, IndInvHolds, PTL

\* A yes to a restatement is carried out: it is not answered with the question again.
THEOREM YesGoesAhead == Spec => []YesIsNotAskedAgain
<1>1. IndInv => YesIsNotAskedAgain
  <2> SUFFICES ASSUME IndInv, session.state # "ESCALATION", NEW u \in Utterances,
                      Says(u, {"yes"}),
                      Say("confirm?") \in policy(Listen(session, u), heard, Nothing, u)
               PROVE  FALSE
    BY DEF YesIsNotAskedAgain
  <2> DEFINE s == Listen(session, u)
  <2>1. Say("confirm?") \in Confirming(s, u)
    <3>1. "say" \in DOMAIN Say("confirm?") /\ Say("confirm?").say = "confirm?"
      BY DEF Say
    <3>2. Say("confirm?") \notin reactTo(s, heard, Nothing, u)
      <4>1. reactTo(s, heard, Nothing, u) = {}
        BY Speechless, NothingTyped
      <4> QED BY <4>1
    <3> QED BY <3>1, <3>2, SaidOnce
  <2>2. session \in Session /\ Staging(session, diary, past)
    BY DEF IndInv, Sound
  <2>3. s.pending # None
    BY <2>1 DEF Confirming
  <2>4. /\ session.pending # None /\ Affirmative(u)
        /\ s.pending = [session.pending EXCEPT !.restated = TRUE] /\ s.state = session.state
    BY <2>2, <2>3 DEF Listen, Session
  <2>5. session.pending \in Action
    BY <2>2, <2>4 DEF Session
  <2>6. s.pending.restated
    BY <2>4, <2>5 DEF Action
  <2>7. s.state \notin {"ESCALATION", "CLOSING"}
    BY <2>2, <2>4 DEF Staging, ClosingIsClean
  <2>8. CanUse(s, "commit_pending_action")
    BY <2>3, <2>6, <2>7 DEF CanUse, toolsForState, Tools
  <2>9. ~Says(u, {"no"})
    BY <2>4 DEF Affirmative, Says, CORRECTION
  <2>10. Confirming(s, u) = {Use("commit_pending_action", None, None, None)}
    BY <2>3, <2>8, <2>9 DEF Confirming
  <2>11. IsTool(Say("confirm?"))
    <3>1. Say("confirm?") = Use("commit_pending_action", None, None, None)
      BY <2>1, <2>10
    <3>2. IsTool(Use("commit_pending_action", None, None, None))
      BY Used
    <3> QED BY <3>1, <3>2
  <2> QED BY <2>11, SayingIsNoTool
<1> QED BY <1>1, IndInvHolds, PTL
=============================================================================
