---------------------------- MODULE Receptionist -----------------------------
(***************************************************************************)
(* The scripted receptionist (apps/agent/src/llm/scripted.ts) with the     *)
(* tools and the session it works on: what it makes of each thing the      *)
(* caller says, from what was last read out to them, and where a long call *)
(* leads. Conversation takes the model for any source of tool calls and    *)
(* lets turns overlap; here the model is this one, and turns follow each   *)
(* other.                                                                  *)
(*                                                                         *)
(* An utterance is the facts that the source's patterns find in it. A      *)
(* reply is its kind. The history of messages is what the policy, scanning *)
(* it backwards, finds in it.                                              *)
(***************************************************************************)
EXTENDS Integers, FiniteSets, Sequences, Functions

CONSTANTS
  Services,         \* the services on the menu
  Menu,             \* the order in which list_services returns them
  Days, Hours,      \* a time is an hour of a day
  Utterances,       \* what the caller may say
  Openings,         \* the lists of times an availability check may return
  Starts,           \* who calls, and the appointments they have
  SpokenMenuLimit, SpokenSlotLimit, MaxToolRounds,
  EscalateAfter,    \* misunderstandings, or failures, in a row before a person is offered
  MaxAppointments,  \* bound: ids of appointments
  None              \* null, undefined

Time == [day : Days, hour : Hours]

Appointment == [id : 1..MaxAppointments, service : Services, time : Time]

\* Patterns of the source, by what they look for. "yes" is in AFFIRMATIVE of
\* scripted.ts, confirmation.ts and pickSlot, "fine" only in confirmation.ts;
\* "no" in NEGATIVE and CORRECTION, "another" in CORRECTION. "move" is the word,
\* "swap" and "differentTime" are among RESCHEDULE_PHRASES.
Patterns == {"yes", "fine", "no", "another", "cancel", "cantMakeIt", "move", "swap",
             "differentTime", "book", "lookup", "bye", "more", "price", "hours",
             "complaint", "name", "number"}

\* nth: an ordinal, 0 for none, -1 for "last". names: the service whose name scores
\* best. when: timePhrase finds something. clock: the hour told, and which half.
Utterance == [says : SUBSET Patterns, nth : -1..4, names : Services \cup {None},
              when : BOOLEAN, day : Days \cup {None},
              clock : [hour : 1..23, half : {"am", "pm", None}] \cup {None}]

\* A bare hour has two readings.
spokenTimeToLocal(u) ==
  CASE u.clock = None                        -> {}
    [] u.clock # None /\ u.clock.half = "am" -> {IF u.clock.hour = 12 THEN 0 ELSE u.clock.hour}
    [] u.clock # None /\ u.clock.half = "pm" -> {IF u.clock.hour = 12 THEN 12 ELSE u.clock.hour + 12}
    [] OTHER -> {u.clock.hour} \cup
                (IF u.clock.hour > 12 THEN {} ELSE {(u.clock.hour % 12) + 12})

ASSUME ReceptionistAssumption ==
  /\ IsFiniteSet(Services) /\ Days \subseteq Int /\ Hours \subseteq Nat
  /\ Menu \in Seq(Services) /\ Utterances \subseteq Utterance /\ Utterances # {}
  /\ None \notin Services /\ None \notin 1..MaxAppointments
  /\ None \notin {"book", "cancel", "reschedule"}
  /\ \A u \in Utterances : spokenTimeToLocal(u) \subseteq Hours
  /\ \A o \in Openings : o \in Seq(Time)
  /\ \A c \in Starts :
       /\ c.caller \in {"customer", "number", "withheld"} /\ c.booked \subseteq Appointment
       /\ IsFiniteSet(c.booked) /\ {a.id : a \in c.booked} = 1..Cardinality(c.booked)
  /\ {SpokenMenuLimit, SpokenSlotLimit, MaxToolRounds, EscalateAfter} \subseteq Nat \ {0}
  /\ MaxToolRounds > 2  \* enough to look for times and to tell of them
  /\ MaxAppointments \in Nat

VARIABLES
  session,  \* the CallSession
  heard,    \* what the history of messages holds for the policy
  turn,     \* the turn in progress
  diary,    \* the caller's appointments to come, and how many there have ever been
  past      \* history: what was said and read out since the last change

vars == <<session, heard, turn, diary, past>>

\* A staged action. restated: on an earlier turn than this. landed: a try of it
\* took effect without the agent's learning so.
Action == [action : {"book", "cancel", "reschedule"}, service : Services \cup {None},
           time : Time \cup {None}, appointment : (1..MaxAppointments) \cup {None},
           restated : BOOLEAN, landed : BOOLEAN]

\* IN_TALK stands for every state in which all tools but commit are on offer.
\* caller: on file; only the number is known; number withheld.
Session == [caller : {"customer", "number", "withheld"}, state : {"IN_TALK", "ESCALATION", "CLOSING"},
            activeIntent : {"book", "cancel", "reschedule", None},
            service : Services \cup {None},
            appointment : (1..MaxAppointments) \cup {None},
            candidates : Seq(Appointment), pending : Action \cup {None},
            failures : 0..EscalateAfter, stalled : 0..EscalateAfter,
            escalation : BOOLEAN, ended : BOOLEAN]

\* menu, listed, offered: what recentServices, recentAppointments and recentSlots
\* return. asked: awaitingCallbackDetails. intent: pendingAppointmentIntent.
Heard == [menu : Seq(Services), listed : Seq(Appointment), offered : Seq(Time),
          asked : BOOLEAN, intent : {"cancel", "reschedule", None}]

Tools == {"list_services", "get_salon_info", "check_availability", "find_appointments",
          "select_service", "select_appointment", "propose_booking",
          "propose_cancellation", "propose_reschedule", "commit_pending_action",
          "request_callback", "end_call"}

Call == [tool : Tools, service : Services \cup {None}, time : Time \cup {None},
         appointment : (1..MaxAppointments) \cup {None}]

TypeOK ==
  /\ session \in Session /\ heard \in Heard
  /\ turn \in [says : Utterance, round : 1..MaxToolRounds, seen : SUBSET Call,
               call : Call \cup {None}]
  /\ diary \in [booked : SUBSET Appointment, made : 0..MaxAppointments]
  /\ past \in [read : SUBSET Time, topics : SUBSET Services, move : BOOLEAN,
               gone : SUBSET (1..MaxAppointments)]

-----------------------------------------------------------------------------
(* What the caller said *)

Says(u, words) == u.says \cap words # {}

CANCEL_PHRASES == {"cancel", "cantMakeIt"}
RESCHEDULE_PHRASES == {"move", "swap", "differentTime"}
BOOK_PHRASES == {"book"}
CORRECTION == {"no", "another"}

statedIntent(u) ==
  CASE Says(u, RESCHEDULE_PHRASES) -> "reschedule"
    [] Says(u, CANCEL_PHRASES)     -> "cancel"
    [] Says(u, BOOK_PHRASES)       -> "book"
    [] OTHER                       -> None

Affirmative(u) == Says(u, {"yes", "fine"}) /\ ~Says(u, CORRECTION)

\* pendingAppointmentIntent: the last of the caller's words for a change.
LastIntent(h, u) ==
  CASE Says(u, CANCEL_PHRASES)            -> "cancel"
    [] Says(u, {"move", "differentTime"}) -> "reschedule"
    [] OTHER                              -> h.intent

\* The first of two alternatives that is not empty.
a ?? b == IF a # {} THEN a ELSE b

\* "The second one", "the last": the place in a list, if there is one.
Place(list, u) ==
  {i \in DOMAIN list : i = u.nth \/ (u.nth = -1 /\ i = Len(list))}

First(places) == {i \in places : \A j \in places : i <= j}
Only(places) == {i \in places : places = {i}}

pickAppointment(list, u) ==
  {list[i] : i \in
     Place(list, u)
     ?? (Only({i \in DOMAIN list : list[i].service = u.names})
     ?? (First({i \in DOMAIN list : list[i].time.hour \in spokenTimeToLocal(u)})
     ?? Only({i \in DOMAIN list : list[i].time.day = u.day})))}

pickService(menu, u) ==
  {menu[i] : i \in Place(menu, u) ?? {i \in DOMAIN menu : menu[i] = u.names}}

\* A time that was named but not offered is not replaced by another.
pickSlot(slots, u) ==
  {slots[i] : i \in
     Place(slots, u)
     ?? (First({i \in DOMAIN slots : slots[i].hour \in spokenTimeToLocal(u)})
     ?? {i \in DOMAIN slots : i = 1 /\ u.clock = None /\ Says(u, {"yes"})})}

Apart(a, b) == IF a < b THEN b - a ELSE a - b

nearestReading(readings, slots) ==
  CHOOSE h \in readings : \A g \in readings :
    LET anchor == slots[1].hour IN
    Apart(h, anchor) < Apart(g, anchor) \/ (Apart(h, anchor) = Apart(g, anchor) /\ h <= g)

-----------------------------------------------------------------------------
(* What the history holds once a tool has returned *)

Min2(a, b) == IF a < b THEN a ELSE b

Spoken(list, limit) == SubSeq(list, 1, Min2(Len(list), limit))

recentServices(h, r) ==
  CASE r.kind = "slots"    -> <<>>
    [] r.kind = "services" -> Spoken(Menu, SpokenMenuLimit)
    [] OTHER               -> h.menu

recentAppointments(h, r) ==
  CASE r.kind \in {"service", "chosen", "staged"} -> <<>>
    [] r.kind = "many"                           -> r.list
    [] OTHER                                     -> h.listed

\* Mutant of recentSlots: the times that were not read out count as well.
recentSlotsAll(h, r) ==
  CASE r.kind = "done"                                   -> <<>>
    [] r.kind \in {"slots", "full", "failed"} /\ r.list # <<>> -> r.list
    [] OTHER                                             -> h.offered

recentSlots(h, r) ==
  CASE r.kind = "done" -> <<>>
    [] r.kind \in {"slots", "full", "failed"} /\ r.list # <<>> ->
         Spoken(r.list, SpokenSlotLimit)
    [] OTHER -> h.offered

Recall(h, r) ==
  [h EXCEPT !.menu = recentServices(h, r), !.listed = recentAppointments(h, r),
            !.offered = recentSlots(h, r), !.asked = FALSE]

-----------------------------------------------------------------------------
(* The policy: rules in order, each a move or none *)

Say(kind) == [say |-> kind]

Use(tool, service, time, appointment) ==
  [tool |-> tool, service |-> service, time |-> time, appointment |-> appointment]

When(condition, move) == IF condition THEN {move} ELSE {}

Always == {"request_callback", "end_call"}

toolsForState(s) ==
  {x \in Tools :
     /\ x = "commit_pending_action" => s.pending # None /\ s.pending.restated
     /\ s.state = "ESCALATION" => x \in Always
     /\ s.state = "CLOSING" => x = "end_call"}

CanUse(s, tool) == tool \in toolsForState(s)

settledAppointmentId(s) ==
  CASE s.appointment # None     -> s.appointment
    [] s.appointment = None /\ Len(s.candidates) = 1 -> s.candidates[1].id
    [] OTHER                    -> None

settledServiceId(s) ==
  IF Len(s.candidates) = 1 THEN s.candidates[1].service ELSE s.service

\* The service named outright, or the one already under discussion.
serviceIdFor(s, u) == IF u.names # None THEN u.names ELSE s.service

ProposeCancellationOf(id) == Use("propose_cancellation", None, None, id)

\* What is said or done about an answer from the diary.
AboutTheDiary(s, r, u) ==
  CASE r.kind = "slots" -> When(s.pending = None, Say("times"))
    [] r.kind = "full"  -> {Say(IF r.list = <<>> THEN "when" ELSE "times")}
    [] r.kind = "many"  -> {Say("which?")}
    [] r.kind = "none"  -> {Say("other")}
    [] r.kind = "one"   ->
         IF Says(u, {"cancel"}) /\ CanUse(s, "propose_cancellation")
         THEN {ProposeCancellationOf(r.list[1].id)}
         ELSE {Say(IF Says(u, {"move"}) THEN "when" ELSE "appointment")}

\* What is said or done about the result of the tool that has just returned. A
\* promise to call back is taken, later, for the question for name and number.
reactTo(s, h, r, u) ==
  CASE r.kind \in {"slots", "full", "many", "none", "one"} -> AboutTheDiary(s, r, u)
    [] r.kind = "chosen"   ->
         {IF h.intent = "cancel" THEN ProposeCancellationOf(r.list[1].id) ELSE Say("when")}
    [] r.kind = "service"  -> {Say("when")}
    [] r.kind = "staged"   -> {Say("restatement")}
    [] r.kind = "done"     -> {Say("done")}
    [] r.kind = "failed"   -> {Say(IF r.list = <<>> THEN "details?" ELSE "times")}
    [] r.kind = "services" -> {Say("menu")}
    [] r.kind = "hours"    -> {Say("hours")}
    [] r.kind = "captured" -> {Say("details?")}
    [] OTHER               -> {}

\* The answer to a restatement.
Confirming(s, u) ==
  IF s.pending = None THEN {}
  ELSE {IF Says(u, {"yes"}) /\ ~Says(u, {"no"}) /\ CanUse(s, "commit_pending_action")
        THEN Use("commit_pending_action", None, None, None)
        ELSE Say(IF Says(u, {"no"}) THEN "other" ELSE "confirm?")}

\* The answer to "which one did you mean?": asked again unless something else is
\* plainly wanted.
WhichAppointment(s, h, u) ==
  LET chosen == pickAppointment(h.listed, u)
      otherwise == {"cancel", "move", "book", "lookup", "price", "hours", "more"}
  IN  IF Len(h.listed) <= 1 THEN {}
      ELSE {IF h.intent = "cancel" /\ CanUse(s, "propose_cancellation")
            THEN ProposeCancellationOf(a.id) ELSE Use("select_appointment", None, None, a.id) :
              a \in chosen}
           ?? When(~Says(u, otherwise), Say("which?"))

\* time: looked for instead of the caller's own time phrase.
Check(service, time) == Use("check_availability", service, time, None)

WhichService(h, u) ==
  {IF u.when THEN Check(v, None) ELSE Use("select_service", v, None, None) :
     v \in pickService(h.menu, u)}

\* Mutant of WhichTime: an appointment under discussion counts as being moved.
WhichTimeMovesAnyway(s, h, u) ==
  LET picked == pickSlot(h.offered, u)
      moving == settledAppointmentId(s)
      service == serviceIdFor(s, u)
  IN  IF h.offered = <<>> THEN {}
      ELSE When(picked = {} /\ u.clock # None /\ service # None,
                Check(service, [day  |-> h.offered[1].day,
                                hour |-> nearestReading(spokenTimeToLocal(u), h.offered)]))
           ?? ({Use("propose_reschedule", None, t, moving) :
                  t \in {x \in picked : moving # None /\ CanUse(s, "propose_reschedule")}}
           ?? {Use("propose_booking", service, t, None) :
                  t \in {x \in picked : service # None /\ CanUse(s, "propose_booking")}})

\* The answer to the times read out: one of them is proposed for the appointment
\* being moved, or for a new one; another time is looked for.
WhichTime(s, h, u) ==
  LET picked == pickSlot(h.offered, u)
      moving == IF s.activeIntent = "reschedule"
                THEN settledAppointmentId(s) ELSE None
      service == serviceIdFor(s, u)
  IN  IF h.offered = <<>> THEN {}
      ELSE When(picked = {} /\ u.clock # None /\ service # None,
                Check(service, [day  |-> h.offered[1].day,
                                hour |-> nearestReading(spokenTimeToLocal(u), h.offered)]))
           ?? ({Use("propose_reschedule", None, t, moving) :
                  t \in {x \in picked : moving # None /\ CanUse(s, "propose_reschedule")}}
           ?? {Use("propose_booking", service, t, None) :
                  t \in {x \in picked : service # None /\ CanUse(s, "propose_booking")}})

\* Once a person is to call back, their name and number are all that matters.
Details(u) ==
  {IF Says(u, {"name"}) /\ Says(u, {"number"})
   THEN Use("request_callback", None, None, None) ELSE Say("details?")}

Escalated(s, u) ==
  IF s.state = "ESCALATION" /\ CanUse(s, "request_callback") THEN Details(u) ELSE {}

Complaint(u) == When(Says(u, {"complaint"}), Say("details?"))

CallbackDetails(s, h, u) ==
  IF h.asked /\ CanUse(s, "request_callback") /\ Says(u, {"name", "number"})
  THEN Details(u) ELSE {}

Goodbye(u) == When(Says(u, {"bye"}), Use("end_call", None, None, None))

ListServices == Use("list_services", None, None, None)

TheRest(u) == When(Says(u, {"more"}), ListServices)

Another(h, u) ==
  When(Says(u, {"another"}) /\ Says(u, {"book"}),
       IF h.menu # <<>> THEN Say("other") ELSE ListServices)

\* A service named, with a booking word or without.
Named(s, u) ==
  IF u.names = None \/ Says(u, {"price"}) THEN {}
  ELSE When(u.when, Check(u.names, None))
       ?? When(settledAppointmentId(s) = None, Use("select_service", u.names, None, None))

Information(u) ==
  When(Says(u, {"hours"}), Use("get_salon_info", None, None, None))
  ?? When(Says(u, {"price"}),
          IF u.names = None THEN ListServices ELSE Use("select_service", u.names, None, None))

FindAppointments == Use("find_appointments", None, None, None)

CancelMoveOrLookUp(s, u) ==
  LET settled == settledAppointmentId(s) IN
  When(Says(u, CANCEL_PHRASES),
       IF settled # None /\ CanUse(s, "propose_cancellation")
       THEN ProposeCancellationOf(settled) ELSE FindAppointments)
  ?? (When(Says(u, RESCHEDULE_PHRASES), IF settled # None THEN Say("when") ELSE FindAppointments)
  ?? When(Says(u, {"lookup"}), FindAppointments))

Book(s, h, u) ==
  LET service == serviceIdFor(s, u) IN
  When(Says(u, BOOK_PHRASES),
       CASE service = None -> IF h.menu # <<>> THEN Say("other") ELSE ListServices
         [] service # None /\ ~u.when -> Say("when")
         [] OTHER -> Check(service, None))

\* A time alone continues what went before: a move is looked for with the moved
\* appointment's own service.
BareTime(s, u) ==
  LET service == IF settledAppointmentId(s) = None
                    \/ settledServiceId(s) = None
                 THEN serviceIdFor(s, u) ELSE settledServiceId(s)
  IN  When(u.when /\ service # None, Check(service, None))

\* What the caller was asked, answered.
Answer(s, h, u) ==
  Confirming(s, u)
  ?? (WhichAppointment(s, h, u) ?? (WhichService(h, u) ?? WhichTime(s, h, u)))

\* A person wanted, or the call over.
Handover(s, h, u) ==
  Escalated(s, u) ?? (Complaint(u) ?? (CallbackDetails(s, h, u) ?? Goodbye(u)))

Request(s, h, u) ==
  TheRest(u) ?? (Another(h, u) ?? (Named(s, u) ?? (Information(u)
  ?? (CancelMoveOrLookUp(s, u) ?? (Book(s, h, u) ?? BareTime(s, u))))))

notUnderstood == Say("confused")

\* ScriptedAdapter.policy: the first rule that has a move.
policy(s, h, r, u) ==
  reactTo(s, h, r, u)
  ?? (Answer(s, h, u) ?? (Handover(s, h, u) ?? (Request(s, h, u) ?? {notUnderstood})))

-----------------------------------------------------------------------------
(* A turn: handleUserTurn *)

Nothing == [kind |-> "nothing"]

\* Between turns.
Quiet == [says |-> CHOOSE u \in Utterances : TRUE, round |-> 1, seen |-> {}, call |-> None]

\* Mutant of Listen: no turn passes between a proposal and the answer to it.
ListenWithoutTurns(s, u) ==
  LET stated  == statedIntent(u)
      dropped == s.pending # None /\ ~Affirmative(u)
  IN  [s EXCEPT
        !.activeIntent = IF stated \in {"cancel", "reschedule"} \/ @ = None THEN stated ELSE @,
        !.pending = IF dropped THEN None ELSE @,
        !.state = IF dropped THEN "IN_TALK" ELSE @]

\* The caller speaks: anything but an unqualified yes discards what is staged.
Listen(s, u) ==
  LET stated  == statedIntent(u)
      dropped == s.pending # None /\ ~Affirmative(u)
  IN  [s EXCEPT
        !.activeIntent = IF stated \in {"cancel", "reschedule"} \/ @ = None THEN stated ELSE @,
        !.pending = IF dropped THEN None ELSE IF @ = None THEN @ ELSE [@ EXCEPT !.restated = TRUE],
        !.state = IF dropped THEN "IN_TALK" ELSE @]

\* detectStall: only turns that neither did nor understood anything count.
Stalls(s, t, understood) ==
  IF t.seen # {} \/ understood THEN 0 ELSE Min2(s.stalled + 1, EscalateAfter)

\* The end of the turn, with detectStall and maybeEscalate.
Answered(s, t, understood) ==
  LET stalls == Stalls(s, t, understood)
      over   == EscalateAfter \in {stalls, s.failures} /\ ~s.escalation
  IN  [s EXCEPT !.stalled = stalls, !.escalation = @ \/ over,
                !.state = IF over THEN "ESCALATION" ELSE @]

\* The times that are read out: of the alternatives all, of the others the first.
ReadOut(r) ==
  Range(IF r.kind = "slots" THEN Spoken(r.list, SpokenSlotLimit) ELSE r.list)

Repeated(t, move) == move \in t.seen

\* One request to the model, about the result r of the last tool: it answers,
\* repeats itself, which ends the turn, or calls a tool.
Complete(s, h, r, t, p) ==
  \E move \in policy(s, h, r, t.says) :
    \/ /\ "say" \in DOMAIN move
       /\ session' = Answered(s, t, move # notUnderstood)
       /\ heard' = [h EXCEPT !.asked = move.say = "details?"]
       /\ turn' = Quiet
       /\ past' = IF move.say = "times" THEN [p EXCEPT !.read = @ \cup ReadOut(r)] ELSE p
    \/ /\ "tool" \in DOMAIN move /\ Repeated(t, move)
       /\ session' = Answered(s, t, TRUE)
       /\ heard' = [h EXCEPT !.asked = FALSE]
       /\ turn' = Quiet
       /\ past' = p
    \/ /\ "tool" \in DOMAIN move /\ ~Repeated(t, move)
       /\ session' = s
       /\ heard' = [h EXCEPT !.asked = FALSE]
       /\ turn' = [t EXCEPT !.call = move]
       /\ past' = p

\* What the caller has asked for, in words or by its place on the menu.
Noted(u) ==
  [past EXCEPT !.move = @ \/ Says(u, RESCHEDULE_PHRASES),
               !.topics = @ \cup ({u.names} \ {None}) \cup
                          {heard.menu[i] : i \in Place(heard.menu, u)}]

Hear(u) ==
  /\ turn.call = None /\ ~session.ended
  /\ Complete(Listen(session, u), [heard EXCEPT !.intent = LastIntent(heard, u)], Nothing,
              [Quiet EXCEPT !.says = u], Noted(u))
  /\ UNCHANGED diary

-----------------------------------------------------------------------------
(* The tools: ToolExecutor *)

\* The result goes into the history, and the model is asked again, unless the call
\* has ended or the rounds are used up.
Return(s, r, p) ==
  IF s.ended \/ turn.round = MaxToolRounds
  THEN /\ session' = Answered(s, [turn EXCEPT !.seen = {turn.call}], TRUE)
       /\ heard' = Recall(heard, r)
       /\ turn' = Quiet
       /\ past' = p
  ELSE Complete(s, Recall(heard, r), r,
                [turn EXCEPT !.round = @ + 1, !.seen = @ \cup {turn.call}, !.call = None], p)

Doing(tool) == turn.call # None /\ turn.call.tool = tool /\ CanUse(session, tool)

Error == [kind |-> "error"]

\* A tool that was not offered, or one whose question the API does not answer.
Refused ==
  /\ turn.call # None
  /\ \/ ~CanUse(session, turn.call.tool)
     \/ turn.call.tool = "find_appointments"
  /\ Return(session, Error, past)
  /\ UNCHANGED diary

list_services ==
  /\ Doing("list_services")
  /\ Return(session, [kind |-> "services"], past)
  /\ UNCHANGED diary

get_salon_info ==
  /\ Doing("get_salon_info")
  /\ Return(session, [kind |-> "hours"], past)
  /\ UNCHANGED diary

\* The service is noted before the API is asked.
check_availability ==
  /\ Doing("check_availability")
  /\ LET s == [session EXCEPT !.service = turn.call.service] IN
     \/ \E list \in Openings :
          \/ list # <<>> /\ Return(s, [kind |-> "slots", list |-> list], past)
          \/ Return(s, [kind |-> "full", list |-> list], past)
     \/ Return(s, Error, past)
  /\ UNCHANGED diary

\* No later than: the order of their beginnings.
NotAfter(s, t) == s.day < t.day \/ (s.day = t.day /\ s.hour <= t.hour)

\* The caller's appointments that stand and are to come, earliest first.
Listings ==
  {list \in [1..Cardinality(diary.booked) -> diary.booked] :
     \A i, j \in DOMAIN list :
       i < j => list[i] # list[j] /\ NotAfter(list[i].time, list[j].time)}

Settle(s, a) == [s EXCEPT !.appointment = a.id, !.service = a.service]

find_appointments ==
  /\ Doing("find_appointments")
  /\ \/ session.caller = "withheld" /\ Return(session, Error, past)
     \/ /\ session.caller # "withheld"
        /\ \E list \in Listings :
             LET s == [session EXCEPT !.candidates = list]
                 p == [past EXCEPT !.topics = @ \cup {a.service : a \in diary.booked}]
             IN  CASE list = <<>> -> Return(s, [kind |-> "none"], p)
                   [] Len(list) = 1 ->
                        Return(Settle(s, list[1]), [kind |-> "one", list |-> list], p)
                   [] OTHER -> Return(s, [kind |-> "many", list |-> list], p)
  /\ UNCHANGED diary

select_service ==
  /\ Doing("select_service")
  /\ Return([session EXCEPT !.service = turn.call.service,
                            !.activeIntent = IF @ = "reschedule" THEN @ ELSE "book"],
            [kind |-> "service"], past)
  /\ UNCHANGED diary

Candidates(id) == {i \in DOMAIN session.candidates : session.candidates[i].id = id}

\* Only an appointment that was looked up for this caller; it is then the only one.
select_appointment ==
  /\ Doing("select_appointment")
  /\ LET chosen == {session.candidates[i] : i \in Candidates(turn.call.appointment)} IN
     \/ chosen = {} /\ Return(session, Error, past)
     \/ \E a \in chosen :
          Return([Settle(session, a) EXCEPT !.candidates = <<a>>],
                 [kind |-> "chosen", list |-> <<a>>], past)
  /\ UNCHANGED diary

Stage(s, action, service, time, id) ==
  /\ Return([s EXCEPT !.pending = [action |-> action, service |-> service, time |-> time,
                                   appointment |-> id, restated |-> FALSE, landed |-> FALSE]],
            [kind |-> "staged"], past)

\* A caller who is not on file is to give a name; only their number may be known.
propose_booking ==
  /\ Doing("propose_booking")
  /\ LET s == [session EXCEPT !.activeIntent = "book"] IN
     \/ s.caller # "customer" /\ Return(s, Error, past)
     \/ /\ s.caller = "customer"
        /\ Stage([s EXCEPT !.service = turn.call.service], "book", turn.call.service,
                 turn.call.time, None)
  /\ UNCHANGED diary

ProposeChange(action) ==
  LET s      == [session EXCEPT !.activeIntent = action]
      chosen == {session.candidates[i] : i \in Candidates(turn.call.appointment)}
  IN  \/ chosen = {} /\ Return(s, Error, past)
      \/ \E a \in chosen : Stage(Settle(s, a), action, None, turn.call.time, a.id)

propose_cancellation ==
  /\ Doing("propose_cancellation")
  /\ ProposeChange("cancel")
  /\ UNCHANGED diary

propose_reschedule ==
  /\ Doing("propose_reschedule")
  /\ ProposeChange("reschedule")
  /\ UNCHANGED diary

request_callback ==
  /\ Doing("request_callback")
  /\ Return([session EXCEPT !.escalation = TRUE, !.state = "ESCALATION"],
            [kind |-> "captured"], past)
  /\ UNCHANGED diary

end_call ==
  /\ Doing("end_call")
  /\ Return([session EXCEPT !.state = "CLOSING", !.ended = TRUE], [kind |-> "ended"], past)
  /\ UNCHANGED diary

-----------------------------------------------------------------------------
(* commit_pending_action, and what the API makes of it *)

\* What assertModifiable lets through: it is booked and has not begun.
Target(p) == {a \in diary.booked : a.id = p.appointment}

Possible(p) ==
  /\ p.action # "book" => Target(p) # {}
  /\ p.action # "cancel" => diary.made < MaxAppointments

\* What the write does to the caller's appointments. One that is moved is a new
\* one; the old row is marked as superseded.
Carried(p) ==
  LET services == IF p.action = "book" THEN {p.service} ELSE {a.service : a \in Target(p)}
  IN  IF p.action = "cancel"
        THEN [diary EXCEPT !.booked = @ \ Target(p)]
        ELSE [booked |-> (diary.booked \ Target(p)) \cup
                         {[id |-> diary.made + 1, service |-> v, time |-> p.time] : v \in services},
              made |-> diary.made + 1]

\* Mutants of Finished: one field of the session outlives the request.
FinishedKeepingTheList(s) ==
  [s EXCEPT !.pending = None, !.failures = 0, !.activeIntent = None, !.service = None,
            !.state = "IN_TALK"]

FinishedKeepingTheService(s) ==
  [s EXCEPT !.pending = None, !.failures = 0, !.candidates = <<>>, !.activeIntent = None,
            !.appointment = None, !.state = "IN_TALK"]

\* Nothing of a finished request is to colour the next one.
Finished(s) ==
  [s EXCEPT !.pending = None, !.failures = 0, !.candidates = <<>>,
            !.activeIntent = None, !.appointment = None, !.service = None,
            !.state = "IN_TALK"]

\* The write succeeds, now or on a try before; the key makes it the same one.
CommitSucceeds ==
  /\ Doing("commit_pending_action")
  /\ LET p == session.pending IN
     /\ p.landed \/ Possible(p)
     /\ diary' = IF p.landed THEN diary ELSE Carried(p)
     /\ Return(Finished(session), [kind |-> "done"],
               [read |-> {}, topics |-> {}, move |-> FALSE,
                gone |-> past.gone \cup IF p.action = "book" THEN {} ELSE {p.appointment}])

Failed(s) == [s EXCEPT !.failures = Min2(@ + 1, EscalateAfter), !.state = "IN_TALK"]

\* The write is refused for good: the appointment is not to be changed any more, for
\* it does not stand or has begun; the time is taken and others may be free; or
\* something else is wrong with it.
CommitRefused ==
  /\ Doing("commit_pending_action") /\ ~session.pending.landed
  /\ LET p == session.pending
         s == [Failed(session) EXCEPT !.pending = None]
     IN  \/ /\ p.action # "book" /\ Target(p) = {}
            /\ Return([s EXCEPT !.candidates = <<>>, !.appointment = None],
                      [kind |-> "failed", list |-> <<>>],
                      [past EXCEPT !.gone = @ \cup {p.appointment}])
         \/ /\ p.action = "book" \/ Target(p) # {}
            /\ \E list \in IF p.action = "cancel" THEN {<<>>} ELSE Openings :
                 Return(s, [kind |-> "failed", list |-> list], past)
  /\ UNCHANGED diary

\* No answer, or one that promises success later: the action stays staged. It may
\* have been carried out.
CommitUnanswered ==
  /\ Doing("commit_pending_action")
  /\ LET p == session.pending IN
     \/ /\ ~p.landed /\ Possible(p) /\ diary' = Carried(p)
        /\ Return([Failed(session) EXCEPT !.pending.landed = TRUE],
                  [kind |-> "failed", list |-> <<>>], past)
     \/ /\ UNCHANGED diary
        /\ Return(Failed(session), [kind |-> "failed", list |-> <<>>], past)

-----------------------------------------------------------------------------
(* The specification *)

\* An appointment is no longer one to come: the salon cancels it, or it begins.
Lapse(a) ==
  /\ diary' = [diary EXCEPT !.booked = @ \ {a}]
  /\ UNCHANGED <<session, heard, turn, past>>

Init ==
  /\ \E start \in Starts :
       /\ diary = [booked |-> start.booked, made |-> Cardinality(start.booked)]
       /\ session = [caller |-> start.caller, state |-> "IN_TALK", activeIntent |-> None,
                     service |-> None, appointment |-> None, candidates |-> <<>>,
                     pending |-> None, failures |-> 0, stalled |-> 0,
                     escalation |-> FALSE, ended |-> FALSE]
  /\ heard = [menu |-> <<>>, listed |-> <<>>, offered |-> <<>>, asked |-> FALSE,
              intent |-> None]
  /\ turn = Quiet
  /\ past = [read |-> {}, topics |-> {}, move |-> FALSE, gone |-> {}]

Commit == CommitSucceeds \/ CommitRefused \/ CommitUnanswered

UseTool ==
  \/ Refused \/ list_services \/ get_salon_info \/ check_availability
  \/ find_appointments \/ select_service \/ select_appointment
  \/ propose_booking \/ propose_cancellation \/ propose_reschedule
  \/ Commit \/ request_callback \/ end_call

\* The call is over.
Goodbyes == session.ended /\ UNCHANGED vars

Next ==
  \/ \E u \in Utterances : Hear(u)
  \/ UseTool
  \/ \E a \in diary.booked : Lapse(a)
  \/ Goodbyes

Spec == Init /\ [][Next]_vars

-----------------------------------------------------------------------------
(* Properties *)

Staged == session.pending

\* A time that is staged to be booked, or moved to, is one that was read out to the
\* caller since the last change: never one further down the list, nor one of an
\* offer that a finished request has used up.
OnlyTimesReadOut == Staged # None /\ Staged.time # None => Staged.time \in past.read

\* An appointment that this call cancelled or moved, or was told is not to be changed
\* any more, is never staged again, however the list it was on is still being talked
\* about.
NoGhosts == Staged # None => Staged.appointment \notin past.gone

\* A picked time moves an appointment only when the caller has asked for a move
\* since the last change; otherwise the same words would make a new booking.
MoveOnlyOnRequest == Staged # None /\ Staged.action = "reschedule" => past.move

\* What is staged to be booked is a service that the caller named or picked, or had
\* an appointment for, since the last change.
BookedWasNamed == Staged # None /\ Staged.action = "book" => Staged.service \in past.topics

\* A caller who has been asked to confirm and says yes is not asked again, also when
\* the write failed and is still staged for a retry: definitions.ts tells of a time
\* when "every subsequent "yes" was answered with "shall I go ahead?" forever". (Once
\* a person has been offered it is so still: commits are not to be had then.)
YesIsNotAskedAgain ==
  turn = Quiet /\ session.state # "ESCALATION" => \A u \in Utterances : Says(u, {"yes"}) =>
    Say("confirm?") \notin policy(Listen(session, u), heard, Nothing, u)
=============================================================================
