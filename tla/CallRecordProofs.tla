--------------------------- MODULE CallRecordProofs ---------------------------
(***************************************************************************)
(* Theorems about CallRecord for every kind of line and any number of      *)
(* utterances and of faulty requests: the record of a call is closed once, *)
(* its summary credits it with no write that did not happen, and a call    *)
(* that has ended is closed and summed up, whatever fails on the way.      *)
(***************************************************************************)
EXTENDS CallRecord, FiniteSetTheorems, TLAPS

Open  == <<"open", 0>>
End   == <<"end", 0>>
Final == <<"final", 0>>

Phases  == {"idle", "opening", "loading", "refused", "live", "ending", "summing", "over"}
Ended   == {"ending", "summing", "over"}
Started == {"loading", "live"} \cup Ended

\* The types, but for the bounds on what is counted.
Session == [via : Transports, id : 0..1, said : Nat, outcome : Outcome, phase : Phases,
            odd : BOOLEAN, active : BOOLEAN, status : Statuses, awaited : BOOLEAN]
Content == [said : Nat, status : Statuses, outcome : Outcome, odd : BOOLEAN]
Asking  == [try : Nat, body : Content, stage : {"waiting", "ok", "gave_up"}]
Attempt == [req : Requests, try : Nat, body : Content]

Types ==
  /\ call \in Session
  /\ DOMAIN asked \subseteq Requests /\ asked \in [DOMAIN asked -> Asking]
  /\ wire \subseteq Attempt
  /\ rows \in [0..1 -> [status : Statuses, said : Nat]]
  /\ summary \in [outcome : Outcome, saved : BOOLEAN]
  /\ worker \in {"up", "draining", "exited", "crashed"}

\* An outcome that is told as a success is of a write that took place.
Honest(o) == o.result = "success" => o.of \in landed

\* The session, what it has asked the CRM to write, and what was written, say
\* nothing else.
Honesty ==
  /\ Honest(call.outcome) /\ Honest(summary.outcome)
  /\ \A r \in DOMAIN asked : Honest(asked[r].body.outcome)
  /\ \A w \in wire : Honest(w.body.outcome)

Sent(r) == \E w \in wire : w.req = r
AnyClosed == \E i \in 0..1 : IsClosed(i)

\* An attempt to open the record of this call is not still to be served when
\* the call has one: it would reopen it.
OpeningFits ==
  /\ call.phase = "opening" => Open \in DOMAIN asked
  /\ Open \in DOMAIN asked => asked[Open].try \in 0..1
  /\ \A w \in wire : w.req = Open => w.body = NoBody
  /\ Waits(Open) => asked[Open].body = NoBody
  /\ Open \in DOMAIN asked /\ asked[Open].stage = "ok" =>
       \A w \in wire : w.req = Open => w.try # asked[Open].try
  /\ call.phase \in Started => ~Waits(Open) /\ \A w \in wire : w.req = Open => w.try # call.id
  /\ Sent(End) \/ AnyClosed => \A w \in wire : w.req = Open => w.try # call.id

\* Whatever is to close the record, or has closed it, agrees on how.
Agreed(status) ==
  /\ \A w \in wire : w.req = End => w.body.status = status
  /\ Waits(End) => asked[End].body.status = status
  /\ \A i \in 0..1 : IsClosed(i) => i = call.id /\ rows[i].status = status

EndFits ==
  /\ worker = "exited" => call.phase = "idle" /\ DOMAIN asked = {}
  /\ call.phase \notin Ended /\ worker # "exited" =>
       ~Sent(End) /\ End \notin DOMAIN asked /\ ~AnyClosed
  /\ \E status \in {"completed", "failed"} :
       Agreed(status) /\ (call.phase \in Ended => call.status = status)

\* What the runner takes for written was written.
RecordFits ==
  /\ call.phase \in Ended => End \in DOMAIN asked
  /\ call.phase \in {"summing", "over"} => Final \in DOMAIN asked /\ ~Waits(End)
  /\ call.phase = "over" => ~Waits(Final)
  /\ End \in DOMAIN asked /\ asked[End].stage = "ok" => IsClosed(call.id)
  /\ Final \in DOMAIN asked /\ asked[Final].stage = "ok" => summary.saved

RecordInv == Types /\ Honesty /\ OpeningFits /\ EndFits /\ RecordFits

LEMMA InvImplies ==
  ASSUME RecordInv
  PROVE  SummaryIsReal /\ EndedIsRecorded
  <1>1. SummaryIsReal
    BY DEF RecordInv, Honesty, Honest, SummaryIsReal
  <1>2. EndedIsRecorded
    <2> SUFFICES ASSUME call.phase = "over", Running
                 PROVE  /\ Recorded
                        /\ summary.saved \/ GaveUp(Final)
      BY DEF EndedIsRecorded, Final
    <2>1. /\ End \in DOMAIN asked /\ ~Waits(End) /\ Final \in DOMAIN asked /\ ~Waits(Final)
          /\ asked[End].stage = "ok" => IsClosed(call.id)
          /\ asked[Final].stage = "ok" => summary.saved
      BY DEF RecordInv, RecordFits, Ended
    <2>2. asked[End] \in Asking /\ asked[Final] \in Asking
      BY <2>1 DEF RecordInv, Types
    <2>3. QED
      BY <2>1, <2>2 DEF Recorded, GaveUp, Waits, Asking, End, Final
  <1>3. QED
    BY <1>1, <1>2

-----------------------------------------------------------------------------
(* Bodies *)

LEMMA NothingSaid ==
  NoBody \in Content /\ ~(NoBody.outcome.result = "success") /\ NoOutcome \in Outcome
  BY CallAssumption DEF NoBody, Content, NoOutcome, Outcome, Statuses

LEMMA BodyOfFits ==
  ASSUME NEW r, NEW s \in Session
  PROVE  /\ BodyOf(r, s) \in Content
         /\ BodyOf(r, s).outcome = s.outcome \/ BodyOf(r, s).outcome = NoOutcome
         /\ r = End => BodyOf(r, s).status = s.status
         /\ r = Open => BodyOf(r, s) = NoBody
  <1>1. s.said \in Nat /\ s.status \in Statuses /\ s.outcome \in Outcome /\ s.odd \in BOOLEAN
    BY DEF Session
  <1> DEFINE said    == [NoBody EXCEPT !.said = s.said]
             closed  == [NoBody EXCEPT !.said = s.said, !.status = s.status]
             outcome == [NoBody EXCEPT !.outcome = s.outcome, !.odd = s.odd]
  <1>2. said \in Content /\ said.outcome = NoOutcome
    BY <1>1, NothingSaid DEF NoBody, Content
  <1>3. closed \in Content /\ closed.outcome = NoOutcome /\ closed.status = s.status
    BY <1>1, NothingSaid DEF NoBody, Content
  <1>4. outcome \in Content /\ outcome.outcome = s.outcome
    BY <1>1, NothingSaid DEF NoBody, Content
  <1>5. NoBody \in Content /\ NoBody.outcome = NoOutcome
    BY NothingSaid DEF NoBody
  <1>6. BodyOf(r, s) \in {said, closed, outcome, NoBody}
    BY DEF BodyOf
  <1>7. (r = End => BodyOf(r, s) = closed) /\ (r = Open => BodyOf(r, s) = NoBody)
    BY DEF BodyOf, End, Open
  <1> HIDE DEF said, closed, outcome
  <1>8. QED
    BY <1>2, <1>3, <1>4, <1>5, <1>6, <1>7

LEMMA Ids ==
  /\ Open \in Requests /\ End \in Requests /\ Final \in Requests
  /\ Open # End /\ Open # Final /\ End # Final
  /\ \A t \in Turns : /\ <<"patch", t>> \in Requests \ {Open, End, Final}
                      /\ <<"progress", t>> \in Requests \ {Open, End, Final}
  BY DEF Open, End, Final, Requests

\* What Ask does.
LEMMA AskFacts ==
  ASSUME Types, Honesty, NEW s \in Session, Honest(s.outcome),
         NEW rs \in SUBSET Requests, Ask(s, rs)
  PROVE  /\ DOMAIN asked' = DOMAIN asked \cup rs
         /\ DOMAIN asked' \subseteq Requests /\ asked' \in [DOMAIN asked' -> Asking]
         /\ \A r \in DOMAIN asked \ rs : asked'[r] = asked[r]
         /\ \A r \in rs : asked'[r].stage = "waiting" /\ asked'[r].body = BodyOf(r, s)
         /\ wire \subseteq wire' /\ wire' \subseteq Attempt
         /\ \A w \in wire' \ wire : w.req \in rs /\ w.body = BodyOf(w.req, s)
         /\ \A r \in DOMAIN asked' : Honest(asked'[r].body.outcome)
         /\ \A w \in wire' : Honest(w.body.outcome)
  <1>1. /\ DOMAIN asked' = DOMAIN asked \cup rs
        /\ \A r \in DOMAIN asked \ rs : asked'[r] = asked[r]
        /\ \A r \in rs : asked'[r] = [try |-> 0, body |-> BodyOf(r, s), stage |-> "waiting"]
        /\ asked' = [r \in DOMAIN asked' |-> asked'[r]]
    BY DEF Ask
  <1>2. \A r : BodyOf(r, s) \in Content /\ Honest(BodyOf(r, s).outcome)
    BY BodyOfFits DEF Honest, NoOutcome
  <1>3. \A r \in DOMAIN asked' : asked'[r] \in Asking
    BY <1>1, <1>2 DEF Types, Asking
  <1>4. asked' \in [DOMAIN asked' -> Asking]
    BY <1>1, <1>3
  <1>5. wire' = wire \cup {[req |-> r, try |-> 0, body |-> BodyOf(r, s)] : r \in rs}
    BY DEF Ask
  <1>6. \A w \in wire' \ wire : /\ w.req \in rs /\ w.body = BodyOf(w.req, s)
                                /\ w \in Attempt
    BY <1>2, <1>5 DEF Attempt
  <1>7. wire' \subseteq Attempt
    BY <1>6 DEF Types
  <1>8. DOMAIN asked' \subseteq Requests
    BY <1>1 DEF Types
  <1>9. \A r \in DOMAIN asked' : Honest(asked'[r].body.outcome)
    BY <1>1, <1>2 DEF Honesty
  <1>10. \A w \in wire' : Honest(w.body.outcome)
    BY <1>2, <1>6 DEF Honesty
  <1>11. QED
    BY <1>1, <1>4, <1>5, <1>6, <1>7, <1>8, <1>9, <1>10

-----------------------------------------------------------------------------
(* Steps of the runner *)

\* A step that asks for nothing but the transcript and the summary so far (rs),
\* and leaves the call where it is.
LEMMA PlainStep ==
  ASSUME RecordInv, call' \in Session, Honest(call.outcome)', landed \subseteq landed',
         call'.phase = call.phase, call'.id = call.id, call'.status = call.status,
         NEW rs \in SUBSET (Requests \ {Open, End, Final}), Ask(call', rs) \/ UNCHANGED <<asked, wire>>,
         landed' = landed \/ UNCHANGED <<asked, wire>>,
         UNCHANGED <<rows, summary>>,
         \/ worker' = worker /\ UNCHANGED <<asked, wire>>
         \/ worker # "exited" /\ worker' \in {"up", "draining", "crashed"}
  PROVE  RecordInv'
  <1> USE DEF RecordInv
  <1>1. \A o : Honest(o) => Honest(o)'
    BY DEF Honest
  <1>2. /\ DOMAIN asked \subseteq DOMAIN asked' /\ DOMAIN asked' \subseteq DOMAIN asked \cup rs
        /\ DOMAIN asked' \subseteq Requests /\ asked' \in [DOMAIN asked' -> Asking]
        /\ \A r \in {Open, End, Final} \cap DOMAIN asked : asked'[r] = asked[r]
        /\ wire' \subseteq Attempt /\ wire \subseteq wire'
        /\ \A w \in wire' \ wire : w.req \in rs
        /\ (\A r \in DOMAIN asked : Honest(asked[r].body.outcome))'
        /\ (\A w \in wire : Honest(w.body.outcome))'
    <2>1. CASE UNCHANGED <<asked, wire>>
      <3>1. asked' = asked /\ wire' = wire
        BY <2>1
      <3>2. (\A r \in DOMAIN asked : Honest(asked[r].body.outcome))'
        BY <3>1 DEF Honesty, Honest
      <3>3. (\A w \in wire : Honest(w.body.outcome))'
        BY <3>1 DEF Honesty, Honest
      <3>4. /\ DOMAIN asked \subseteq Requests /\ asked \in [DOMAIN asked -> Asking]
            /\ wire \subseteq Attempt
        BY DEF Types
      <3>5. QED
        BY <3>1, <3>2, <3>3, <3>4
    <2>2. CASE Ask(call', rs) /\ landed' = landed
      <3>1. Honest(call'.outcome)
        BY <2>2 DEF Honest
      <3>2. rs \in SUBSET Requests /\ Types /\ Honesty
        OBVIOUS
      <3>3. /\ DOMAIN asked' = DOMAIN asked \cup rs
            /\ DOMAIN asked' \subseteq Requests /\ asked' \in [DOMAIN asked' -> Asking]
            /\ \A r \in DOMAIN asked \ rs : asked'[r] = asked[r]
            /\ wire \subseteq wire' /\ wire' \subseteq Attempt
            /\ \A w \in wire' \ wire : w.req \in rs
            /\ \A r \in DOMAIN asked' : Honest(asked'[r].body.outcome)
            /\ \A w \in wire' : Honest(w.body.outcome)
        BY <2>2, <3>1, <3>2, AskFacts
      <3>4. /\ (\A r \in DOMAIN asked : Honest(asked[r].body.outcome))'
            /\ (\A w \in wire : Honest(w.body.outcome))'
        BY <2>2, <3>3 DEF Honest
      <3>5. QED
        BY <3>3, <3>4
    <2>3. QED
      BY <2>1, <2>2
  <1>3. Types'
    <2>1. rows' = rows /\ summary' = summary /\ worker' \in {"up", "draining", "exited", "crashed"}
      BY DEF Types
    <2>2. /\ rows \in [0..1 -> [status : Statuses, said : Nat]]
          /\ summary \in [outcome : Outcome, saved : BOOLEAN]
      BY DEF Types
    <2>3. QED
      BY <1>2, <2>1, <2>2 DEF Types
  <1>4. Honesty'
    BY <1>1, <1>2 DEF Honesty
  <1>5. /\ Waits(Open)' <=> Waits(Open)
        /\ Waits(End)' <=> Waits(End)
        /\ Waits(Final)' <=> Waits(Final)
        /\ Sent(End)' <=> Sent(End)
        /\ AnyClosed' <=> AnyClosed
        /\ \A i : IsClosed(i)' <=> IsClosed(i)
        /\ \A w \in wire' : w.req \in {Open, End, Final} => w \in wire
        /\ \A r \in {Open, End, Final} : r \in DOMAIN asked' <=> r \in DOMAIN asked
    BY <1>2 DEF Waits, Sent, AnyClosed, IsClosed
  <1>6. OpeningFits'
    BY <1>2, <1>5 DEF OpeningFits, Waits
  <1>7. EndFits'
    <2>1. \A status : Agreed(status) => Agreed(status)'
      BY <1>2, <1>5 DEF Agreed, Waits
    <2>2. QED
      BY <1>5, <2>1 DEF EndFits
  <1>8. RecordFits'
    BY <1>2, <1>5 DEF RecordFits
  <1>9. QED
    BY <1>3, <1>4, <1>6, <1>7, <1>8

\* A step that moves the call on before its record is to be closed.
LEMMA PhaseStep ==
  ASSUME RecordInv, call' \in Session, call'.outcome = call.outcome,
         UNCHANGED <<landed, asked, wire, rows, summary>>,
         call.phase \notin Ended, call'.phase \notin Ended, call'.phase # "opening",
         call'.phase \in Started => /\ ~Waits(Open)
                                    /\ \A w \in wire : w.req = Open => w.try # call'.id,
         worker # "exited", worker' \in {"up", "draining", "crashed"}
  PROVE  RecordInv'
  <1> USE DEF RecordInv
  <1>1. Types'
    BY DEF Types
  <1>2. Honesty'
    BY DEF Honesty, Honest
  <1>3. ~Sent(End) /\ End \notin DOMAIN asked /\ ~AnyClosed
    BY DEF EndFits
  <1>4. /\ Waits(Open)' <=> Waits(Open)
        /\ Waits(End)' <=> Waits(End)
        /\ Sent(End)' <=> Sent(End)
        /\ AnyClosed' <=> AnyClosed
        /\ \A i : IsClosed(i)' <=> IsClosed(i)
    BY DEF Waits, Sent, AnyClosed, IsClosed
  <1>5. OpeningFits'
    BY <1>3, <1>4 DEF OpeningFits
  <1>6. EndFits'
    <2>1. \E status \in {"completed", "failed"} : Agreed(status)'
      BY <1>3, <1>4 DEF Agreed, Sent, Waits, AnyClosed
    <2>2. QED
      BY <1>3, <1>4, <2>1 DEF EndFits
  <1>7. RecordFits'
    BY <1>3 DEF RecordFits, Ended
  <1>8. QED
    BY <1>1, <1>2, <1>5, <1>6, <1>7

\* A step that ends the call: the request to close the record goes out, with
\* other requests (rs), and says what the call says.
LEMMA EndingStep ==
  ASSUME RecordInv, call' \in Session, call'.outcome = call.outcome,
         call.phase = "live", call'.phase = "ending", call'.id = call.id,
         call'.status \in {"completed", "failed"},
         NEW rs \in SUBSET Requests, End \in rs, Open \notin rs, Final \notin rs,
         Ask(call', rs), UNCHANGED <<landed, rows, summary>>,
         worker # "exited", worker' \in {"up", "draining", "crashed"}
  PROVE  RecordInv'
  <1> USE DEF RecordInv
  <1>1. Honest(call'.outcome)
    BY DEF Honesty
  <1>2. /\ DOMAIN asked' = DOMAIN asked \cup rs
        /\ DOMAIN asked' \subseteq Requests /\ asked' \in [DOMAIN asked' -> Asking]
        /\ \A r \in DOMAIN asked \ rs : asked'[r] = asked[r]
        /\ \A r \in rs : asked'[r].stage = "waiting" /\ asked'[r].body = BodyOf(r, call')
        /\ wire \subseteq wire' /\ wire' \subseteq Attempt
        /\ \A w \in wire' \ wire : w.req \in rs /\ w.body = BodyOf(w.req, call')
        /\ \A r \in DOMAIN asked' : Honest(asked'[r].body.outcome)
        /\ \A w \in wire' : Honest(w.body.outcome)
    BY <1>1, AskFacts
  <1>3. BodyOf(End, call').status = call'.status
    BY BodyOfFits
  <1>4. Types'
    BY <1>2 DEF Types
  <1>5. Honesty'
    BY <1>1, <1>2 DEF Honesty, Honest
  <1>6. ~Sent(End) /\ End \notin DOMAIN asked /\ ~AnyClosed
    BY DEF EndFits, Ended
  <1>7. /\ ~Waits(Open) /\ Waits(Open)' = Waits(Open)
        /\ \A i : IsClosed(i)' <=> IsClosed(i)
        /\ \A w \in wire' : w.req = Open => w \in wire
        /\ Open \in DOMAIN asked' => Open \in DOMAIN asked /\ asked'[Open] = asked[Open]
        /\ Final \in DOMAIN asked' => Final \in DOMAIN asked /\ asked'[Final] = asked[Final]
    BY <1>2 DEF Waits, IsClosed, OpeningFits, Started
  <1>8. OpeningFits'
    BY <1>7 DEF OpeningFits, Started, Ended
  <1>9. EndFits'
    <2>1. \A w \in wire' : w.req = End => w.body.status = call'.status
      BY <1>2, <1>3, <1>6 DEF Sent
    <2>2. asked'[End].body.status = call'.status
      BY <1>2, <1>3
    <2>3. Agreed(call.status)'
      BY <1>6, <1>7, <2>1, <2>2 DEF Agreed, AnyClosed
    <2>4. QED
      BY <2>3 DEF EndFits, Ended
  <1>10. RecordFits'
    BY <1>2, <1>7 DEF RecordFits, Ended
  <1>11. QED
    BY <1>4, <1>5, <1>8, <1>9, <1>10

LEMMA DialKeeps ==
  ASSUME RecordInv, Dial
  PROVE  RecordInv'
  <1> USE DEF RecordInv
  <1>1. /\ worker = "up" /\ call.phase = "idle"
        /\ call' = [call EXCEPT !.phase = "opening"] /\ Ask(call, {Open})
        /\ UNCHANGED <<landed, rows, summary, worker>>
    BY DEF Dial, Open
  <1>2. call \in Session /\ Honest(call.outcome) /\ {Open} \in SUBSET Requests
    BY Ids DEF Types, Honesty
  <1>3. /\ DOMAIN asked' = DOMAIN asked \cup {Open}
        /\ DOMAIN asked' \subseteq Requests /\ asked' \in [DOMAIN asked' -> Asking]
        /\ \A r \in DOMAIN asked \ {Open} : asked'[r] = asked[r]
        /\ asked'[Open].body = BodyOf(Open, call)
        /\ wire \subseteq wire' /\ wire' \subseteq Attempt
        /\ \A w \in wire' \ wire : w.req = Open /\ w.body = BodyOf(Open, call)
        /\ \A r \in DOMAIN asked' : Honest(asked'[r].body.outcome)
        /\ \A w \in wire' : Honest(w.body.outcome)
    BY <1>1, <1>2, AskFacts
  <1>4. asked'[Open].try = 0 /\ asked'[Open].stage = "waiting" /\ BodyOf(Open, call) = NoBody
    BY <1>1, <1>2, BodyOfFits DEF Ask
  <1>5. /\ call' \in Session /\ call'.phase = "opening"
        /\ call'.id = call.id /\ call'.outcome = call.outcome
    BY <1>1, <1>2 DEF Session, Phases
  <1>6. Types'
    BY <1>1, <1>3, <1>5 DEF Types
  <1>7. Honesty'
    BY <1>1, <1>2, <1>3, <1>5 DEF Honesty, Honest
  <1>8. ~Sent(End) /\ End \notin DOMAIN asked /\ ~AnyClosed
    BY <1>1 DEF EndFits, Ended
  <1>9. /\ ~Sent(End)' /\ End \notin DOMAIN asked' /\ ~AnyClosed'
        /\ Final \in DOMAIN asked' => Final \in DOMAIN asked /\ asked'[Final] = asked[Final]
    BY <1>1, <1>3, <1>8, Ids DEF Sent, AnyClosed, IsClosed
  <1>10. OpeningFits'
    BY <1>3, <1>4, <1>5, <1>9 DEF OpeningFits, Started, Ended
  <1>11. EndFits'
    <2>1. Agreed("completed")'
      BY <1>9 DEF Agreed, Sent, Waits, AnyClosed
    <2>2. QED
      BY <1>1, <1>5, <1>9, <2>1 DEF EndFits, Ended
  <1>12. RecordFits'
    BY <1>1, <1>5, <1>9 DEF RecordFits, Ended
  <1>13. QED
    BY <1>6, <1>7, <1>10, <1>11, <1>12

\* The record is closed or could not be, and the summary goes out.
LEMMA ClosedKeeps ==
  ASSUME RecordInv, Closed
  PROVE  RecordInv'
  <1> USE DEF RecordInv
  <1>1. /\ Running /\ call.phase = "ending" /\ ~Waits(End)
        /\ call' = [call EXCEPT !.phase = "summing"] /\ Ask(call, {Final})
        /\ UNCHANGED <<landed, rows, summary, worker>>
    BY DEF Closed, End, Final
  <1>2. call \in Session /\ Honest(call.outcome) /\ {Final} \in SUBSET Requests
    BY Ids DEF Types, Honesty
  <1>3. /\ DOMAIN asked' = DOMAIN asked \cup {Final}
        /\ DOMAIN asked' \subseteq Requests /\ asked' \in [DOMAIN asked' -> Asking]
        /\ \A r \in DOMAIN asked \ {Final} : asked'[r] = asked[r]
        /\ asked'[Final].stage = "waiting"
        /\ wire \subseteq wire' /\ wire' \subseteq Attempt
        /\ \A w \in wire' \ wire : w.req = Final
        /\ \A r \in DOMAIN asked' : Honest(asked'[r].body.outcome)
        /\ \A w \in wire' : Honest(w.body.outcome)
    BY <1>1, <1>2, AskFacts
  <1>4. /\ call' \in Session /\ call'.phase = "summing" /\ call'.status = call.status
        /\ call'.id = call.id /\ call'.outcome = call.outcome
    BY <1>1, <1>2 DEF Session, Phases
  <1>5. Types'
    BY <1>1, <1>3, <1>4 DEF Types
  <1>6. Honesty'
    BY <1>1, <1>2, <1>3, <1>4 DEF Honesty, Honest
  <1>7. /\ \A i : IsClosed(i)' <=> IsClosed(i)
        /\ \A w \in wire' : w.req \in {Open, End} => w \in wire
        /\ \A r \in {Open, End} : /\ r \in DOMAIN asked' <=> r \in DOMAIN asked
                                  /\ r \in DOMAIN asked => asked'[r] = asked[r]
    BY <1>1, <1>3, Ids DEF IsClosed
  <1>8. /\ Waits(Open)' <=> Waits(Open)
        /\ Waits(End)' <=> Waits(End)
        /\ Sent(End)' <=> Sent(End)
        /\ AnyClosed' <=> AnyClosed
    BY <1>3, <1>7 DEF Waits, Sent, AnyClosed
  <1>9. OpeningFits'
    BY <1>1, <1>4, <1>7, <1>8 DEF OpeningFits, Started, Ended
  <1>10. EndFits'
    <2>1. \A status : Agreed(status) => Agreed(status)'
      BY <1>1, <1>4, <1>7, <1>8 DEF Agreed, Waits
    <2>2. QED
      BY <1>1, <1>4, <2>1 DEF EndFits, Ended, Running
  <1>11. RecordFits'
    BY <1>1, <1>3, <1>4, <1>7, <1>8 DEF RecordFits, Ended
  <1>12. QED
    BY <1>5, <1>6, <1>9, <1>10, <1>11

LEMMA SummedKeeps ==
  ASSUME RecordInv, Summed
  PROVE  RecordInv'
  <1> USE DEF RecordInv
  <1>1. /\ Running /\ call.phase = "summing" /\ ~Waits(Final)
        /\ call' = [call EXCEPT !.phase = "over"]
        /\ UNCHANGED <<landed, asked, wire, rows, summary, worker>>
    BY DEF Summed, Final
  <1>2. /\ call' \in Session /\ call'.phase = "over" /\ call'.status = call.status
        /\ call'.id = call.id /\ call'.outcome = call.outcome
    BY <1>1 DEF Session, Phases, Types
  <1>3. Types'
    BY <1>1, <1>2 DEF Types
  <1>4. Honesty'
    BY <1>1, <1>2 DEF Honesty, Honest
  <1>5. /\ Waits(Open)' <=> Waits(Open)
        /\ Waits(End)' <=> Waits(End)
        /\ Waits(Final)' <=> Waits(Final)
        /\ Sent(End)' <=> Sent(End)
        /\ AnyClosed' <=> AnyClosed
        /\ \A i : IsClosed(i)' <=> IsClosed(i)
    BY <1>1 DEF Waits, Sent, AnyClosed, IsClosed
  <1>6. OpeningFits'
    BY <1>1, <1>2, <1>5 DEF OpeningFits, Started, Ended
  <1>7. EndFits'
    <2>1. \A status : Agreed(status) => Agreed(status)'
      BY <1>1, <1>2, <1>5 DEF Agreed
    <2>2. QED
      BY <1>1, <1>2, <2>1 DEF EndFits, Ended, Running
  <1>8. RecordFits'
    BY <1>1, <1>2, <1>5 DEF RecordFits, Ended
  <1>9. QED
    BY <1>3, <1>4, <1>6, <1>7, <1>8

-----------------------------------------------------------------------------
(* Steps of the client and the server *)

\* An attempt at a request r fails: it is tried again, saying the same but for the
\* transcript, or is given up.
LEMMA FailChanges ==
  ASSUME RecordInv, NEW r \in DOMAIN asked, NEW kept, Fail(r, kept)
  PROVE  /\ Running /\ Waits(r)
         /\ DOMAIN asked' = DOMAIN asked
         /\ \A q \in DOMAIN asked \ {r} : asked'[q] = asked[q]
         /\ asked'[r] \in Asking
         /\ asked'[r].body.outcome \in {asked[r].body.outcome, NoOutcome}
         /\ asked'[r].stage = "waiting" =>
              /\ asked'[r].body.status = asked[r].body.status
              /\ r = Open => asked'[r].body = asked[r].body /\ asked'[r].try = 1
         /\ asked'[r].stage \in {"waiting", "gave_up"}
         /\ asked'[r].stage = "gave_up" => wire' \subseteq wire /\ asked'[r].try = asked[r].try
         /\ wire' \subseteq wire \cup
              {[req |-> r, try |-> asked'[r].try, body |-> asked'[r].body]}
  <1> USE DEF RecordInv
  <1> DEFINE a    == asked[r]
             next == IF r[1] \in {"patch", "end"} THEN [a.body EXCEPT !.said = call.said]
                     ELSE a.body
             this == [req |-> r, try |-> a.try, body |-> a.body]
             left == IF kept THEN wire ELSE wire \ {this}
             on   == a.try + 1
             more == [a EXCEPT !.try = on, !.body = next]
             over == [a EXCEPT !.stage = "gave_up", !.body = NoBody]
  <1>1. a \in Asking /\ a.try \in Nat /\ a.body \in Content /\ call.said \in Nat
    BY DEF Types, Asking, Session
  <1>2. Running /\ Waits(r) /\ a.stage = "waiting"
    BY DEF Fail, Waits
  <1>3. next \in Content /\ next.status = a.body.status /\ next.outcome = a.body.outcome
    BY <1>1 DEF Content
  <1>0. on \in Nat /\ on = a.try + 1
    BY <1>1
  <1>4. r = Open => next = a.body /\ Retries(r) = 1
    BY DEF Open, Retries
  <1>5. left \subseteq wire
    OBVIOUS
  <1> HIDE DEF next, left, on
  <1>6. /\ more \in Asking /\ more.try = on /\ more.body = next
        /\ more.stage = "waiting"
    BY <1>1, <1>0, <1>2, <1>3 DEF Asking
  <1>7. /\ over \in Asking /\ over.try = a.try /\ over.body = NoBody
        /\ over.stage = "gave_up"
    BY <1>1, NothingSaid DEF Asking
  <1>8. CASE a.try < Retries(r)
    <2>1. /\ asked' = [asked EXCEPT ![r] = more]
          /\ wire' = left \cup {[req |-> r, try |-> on, body |-> next]}
      BY <1>8 DEF Fail, next, left, on
    <2>2. r = Open => on = 1
      BY <1>1, <1>0, <1>4, <1>8
    <2>3. DOMAIN asked' = DOMAIN asked /\ asked'[r] = more
          /\ \A q \in DOMAIN asked \ {r} : asked'[q] = asked[q]
      BY <2>1
    <2> HIDE DEF a, more
    <2>4. asked'[r].body.outcome = asked[r].body.outcome
      BY <1>3, <1>6, <2>3 DEF a
    <2>5. QED
      BY <1>2, <1>3, <1>4, <1>5, <1>6, <2>1, <2>2, <2>3, <2>4 DEF a
  <1>9. CASE ~(a.try < Retries(r))
    <2>1. /\ asked' = [asked EXCEPT ![r] = over]
          /\ wire' = left
      BY <1>9 DEF Fail, Settle, left
    <2>2. DOMAIN asked' = DOMAIN asked /\ asked'[r] = over
          /\ \A q \in DOMAIN asked \ {r} : asked'[q] = asked[q]
      BY <2>1
    <2>3. NoBody.outcome = NoOutcome
      BY DEF NoBody
    <2> HIDE DEF over
    <2>4. QED
      BY <1>2, <1>5, <1>7, <2>1, <2>2, <2>3
  <1>10. QED
    BY <1>8, <1>9

LEMMA FailKeeps ==
  ASSUME RecordInv, NEW r \in DOMAIN asked, NEW kept, Fail(r, kept)
  PROVE  RecordInv'
  <1> USE DEF RecordInv
  <1> DEFINE new == [req |-> r, try |-> asked'[r].try, body |-> asked'[r].body]
  <1>1. /\ worker # "exited" /\ Waits(r) /\ r \in Requests
        /\ UNCHANGED <<call, landed, rows, summary, worker>>
    BY FailChanges DEF Running, Types, Fail
  <1>2. /\ DOMAIN asked' = DOMAIN asked
        /\ \A q \in DOMAIN asked \ {r} : asked'[q] = asked[q]
        /\ asked'[r] \in Asking
        /\ asked'[r].body.outcome \in {asked[r].body.outcome, NoOutcome}
        /\ asked'[r].stage = "waiting" =>
              /\ asked'[r].body.status = asked[r].body.status
              /\ r = Open => asked'[r].body = asked[r].body /\ asked'[r].try = 1
        /\ asked'[r].stage \in {"waiting", "gave_up"}
        /\ asked'[r].stage = "gave_up" => wire' \subseteq wire /\ asked'[r].try = asked[r].try
        /\ wire' \subseteq wire \cup {new}
    BY FailChanges
  <1>3. new \in Attempt /\ new.req = r /\ new.try = asked'[r].try /\ new.body = asked'[r].body
    BY <1>1, <1>2 DEF Attempt, Asking
  <1> HIDE DEF new
  <1>4. asked' \in [DOMAIN asked' -> Asking]
    <2>1. asked' = [q \in DOMAIN asked' |-> asked'[q]]
      BY DEF Fail
    <2>2. \A q \in DOMAIN asked' : asked'[q] \in Asking
      BY <1>2 DEF Types
    <2>3. QED
      BY <2>1, <2>2
  <1>5. Types'
    BY <1>1, <1>2, <1>3, <1>4 DEF Types
  <1>6. Honesty'
    <2>1. NoOutcome.result = "none"
      BY DEF NoOutcome
    <2>2. Honest(asked'[r].body.outcome)
      BY <1>2, <2>1 DEF Honesty, Honest
    <2>3. (\A q \in DOMAIN asked : Honest(asked[q].body.outcome))'
      BY <1>1, <1>2, <2>2 DEF Honesty, Honest
    <2>4. (\A w \in wire : Honest(w.body.outcome))'
      BY <1>1, <1>2, <1>3, <2>2 DEF Honesty, Honest
    <2>5. QED
      BY <1>1, <2>3, <2>4 DEF Honesty, Honest
  <1>7. \A w \in wire' : w \in wire \/ (w = new /\ asked'[r].stage = "waiting")
    BY <1>2
  <1>8. \A q : Waits(q)' => Waits(q)
    BY <1>1, <1>2 DEF Waits
  <1>9. \A i : IsClosed(i)' <=> IsClosed(i)
    BY <1>1 DEF IsClosed
  <1>10. Sent(End)' \/ AnyClosed' => Sent(End) \/ AnyClosed \/ r = End
    BY <1>3, <1>7, <1>9 DEF Sent, AnyClosed
  <1>11. OpeningFits'
    <2>1. CASE r = Open
      <3>1. call.phase \notin Started /\ ~Sent(End) /\ ~AnyClosed
        BY <1>1, <2>1 DEF OpeningFits, EndFits, Started
      <3>2. asked'[Open].try \in 0..1 /\ (asked'[Open].stage = "waiting" => asked'[Open].body = NoBody)
        BY <1>1, <1>2, <2>1 DEF OpeningFits, Waits
      <3>3. \A w \in wire' : w.req = Open => w.body = NoBody
        BY <1>3, <1>7, <2>1, <3>2 DEF OpeningFits
      <3>4. QED
        BY <1>1, <1>2, <1>10, <2>1, <3>1, <3>2, <3>3, Ids DEF OpeningFits, Waits
    <2>2. CASE r # Open
      <3>1. /\ \A w \in wire' : w.req = Open => w \in wire
            /\ Waits(Open)' <=> Waits(Open)
            /\ Open \in DOMAIN asked => asked'[Open] = asked[Open]
        BY <1>2, <1>3, <1>7, <2>2 DEF Waits
      <3>2. r = End => call.phase \in Started
        BY <1>1 DEF EndFits, Started, Waits
      <3>3. QED
        <4>1. call' = call /\ DOMAIN asked' = DOMAIN asked
          BY <1>1, <1>2
        <4>2. (Sent(End) \/ AnyClosed)' => \A w \in wire : w.req = Open => w.try # call.id
          BY <1>10, <3>2 DEF OpeningFits
        <4>3. (Sent(End) \/ AnyClosed)' => \A w \in wire' : w.req = Open => w.try # call'.id
          BY <3>1, <4>1, <4>2
        <4>4. call.phase \in Started => /\ ~Waits(Open)'
                                       /\ \A w \in wire' : w.req = Open => w.try # call.id
          BY <3>1 DEF OpeningFits
        <4>5. /\ call.phase = "opening" => Open \in DOMAIN asked
              /\ Open \in DOMAIN asked => asked'[Open].try \in 0..1
              /\ \A w \in wire' : w.req = Open => w.body = NoBody
              /\ Waits(Open)' => asked'[Open].body = NoBody
          BY <3>1 DEF OpeningFits, Waits
        <4>6. Open \in DOMAIN asked /\ asked'[Open].stage = "ok" =>
                \A w \in wire' : w.req = Open => w.try # asked'[Open].try
          BY <3>1 DEF OpeningFits
        <4>7. QED
          BY <4>1, <4>3, <4>4, <4>5, <4>6 DEF OpeningFits
    <2>3. QED
      BY <2>1, <2>2
  <1>12. EndFits'
    <2>1. \A status : Agreed(status) => Agreed(status)'
      <3> TAKE status
      <3> HAVE Agreed(status)
      <3>1. r = End /\ asked'[r].stage = "waiting" => asked'[r].body.status = status
        BY <1>1, <1>2 DEF Agreed
      <3>2. \A w \in wire' : w.req = End => w.body.status = status
        BY <1>3, <1>7, <3>1 DEF Agreed
      <3>3. Waits(End)' => asked'[End].body.status = status
        BY <1>2, <1>8, <3>1 DEF Agreed, Waits
      <3>4. QED
        BY <1>1, <1>9, <3>2, <3>3 DEF Agreed
    <2>2. call.phase \notin Ended => r # End /\ ~Sent(End)' /\ ~AnyClosed'
      BY <1>1, <1>10 DEF EndFits, Waits
    <2>3. QED
      BY <1>1, <1>2, <2>1, <2>2 DEF EndFits
  <1>13. RecordFits'
    BY <1>1, <1>2, <1>8, <1>9 DEF RecordFits
  <1>14. QED
    BY <1>5, <1>6, <1>11, <1>12, <1>13

LEMMA Kinds ==
  ASSUME NEW r \in Requests
  PROVE  /\ r[1] = "open" <=> r = Open
         /\ r[1] = "end" <=> r = End
         /\ r = Final => r[1] = "final"
         /\ r[1] \in {"open", "load", "end", "final", "patch", "progress"}
  BY DEF Requests, Open, End, Final

\* What an attempt that is served does to the two tables.
LEMMA WriteChanges ==
  ASSUME RecordInv, NEW w \in wire, Write(w)
  PROVE  /\ rows' \in [0..1 -> [status : Statuses, said : Nat]]
         /\ \A i \in 0..1 :
              \/ rows'[i].status = rows[i].status
              \/ w.req = Open /\ i = w.try /\ rows'[i].status = "in_progress"
              \/ w.req = End /\ i = call.id /\ rows'[i].status = w.body.status
         /\ w.req = End => rows'[call.id].status = w.body.status
         /\ \/ summary' = summary
            \/ summary' = [outcome |-> w.body.outcome, saved |-> TRUE]
         /\ w.req = Final /\ Valid(w) => summary'.saved
  <1> USE DEF RecordInv
  <1> DEFINE Record == [status : Statuses, said : Nat]
  <1>1. /\ w.req \in Requests /\ w.body.said \in Nat /\ w.body.status \in Statuses
        /\ rows \in [0..1 -> Record] /\ call.id \in 0..1
    BY DEF Types, Attempt, Content, Session
  <1>2. /\ \A i \in 0..1 : rows[i].status \in Statuses /\ rows[i].said \in Nat
        /\ "in_progress" \in Statuses
    BY <1>1 DEF Statuses
  <1>3. CASE w.req = Open
    <2>1. rows' = [rows EXCEPT ![w.try].status = "in_progress"] /\ summary' = summary
      BY <1>1, <1>3, Kinds DEF Write
    <2> DEFINE row == [rows[w.try] EXCEPT !.status = "in_progress"]
    <2>2. w.try \in 0..1 => row \in Record /\ row.status = "in_progress"
      BY <1>1, <1>2
    <2>3. rows' = [rows EXCEPT ![w.try] = row]
      BY <2>1
    <2> HIDE DEF row
    <2>4. rows' \in [0..1 -> Record]
      BY <1>1, <2>2, <2>3
    <2>5. \A i \in 0..1 : \/ rows'[i].status = rows[i].status
                         \/ (i = w.try /\ rows'[i].status = "in_progress")
      BY <1>1, <2>2, <2>3
    <2>6. QED
      BY <1>3, <2>1, <2>4, <2>5, Ids
  <1>4. CASE w.req = End
    <2> DEFINE row == [status |-> w.body.status, said |-> w.body.said]
    <2>1. rows' = [rows EXCEPT ![call.id] = row] /\ summary' = summary
      BY <1>1, <1>4, Kinds DEF Write
    <2>2. row \in Record /\ row.status = w.body.status
      BY <1>1
    <2> HIDE DEF row
    <2>3. rows' \in [0..1 -> Record] /\ rows'[call.id] = row
          /\ \A i \in 0..1 : i # call.id => rows'[i] = rows[i]
      BY <1>1, <2>1, <2>2
    <2>4. QED
      BY <1>4, <2>1, <2>2, <2>3, Ids
  <1>5. CASE w.req \notin {Open, End}
    <2>1. \/ rows' = rows
          \/ rows' = [rows EXCEPT ![call.id].said = w.body.said]
      BY <1>1, <1>5, Kinds DEF Write
    <2>2. /\ rows' \in [0..1 -> Record]
          /\ \A i \in 0..1 : rows'[i].status = rows[i].status
      <3> DEFINE row == [rows[call.id] EXCEPT !.said = w.body.said]
      <3>1. row \in Record /\ row.status = rows[call.id].status
        BY <1>1, <1>2
      <3>2. rows' = rows \/ rows' = [rows EXCEPT ![call.id] = row]
        BY <2>1
      <3> HIDE DEF row
      <3>3. QED
        BY <1>1, <3>1, <3>2
    <2>3. summary' = [outcome |-> w.body.outcome, saved |-> TRUE] \/ summary' = summary
      BY DEF Write
    <2>4. w.req = Final /\ Valid(w) => summary'.saved
      BY <1>1, Kinds DEF Write
    <2>5. QED
      BY <1>5, <2>2, <2>3, <2>4
  <1>6. QED
    BY <1>3, <1>4, <1>5

\* The request that an attempt is for, once it has been served.
LEMMA AnswerChanges ==
  ASSUME RecordInv, NEW w \in wire, Serve(w)
  PROVE  /\ DOMAIN asked' = DOMAIN asked
         /\ asked' \in [DOMAIN asked' -> Asking]
         /\ \A q \in DOMAIN asked :
              \/ asked'[q] = asked[q]
              \/ /\ q = w.req /\ Waits(q) /\ asked[q].try = w.try
                 /\ asked'[q].try = w.try /\ asked'[q].body = NoBody
                 /\ asked'[q].stage = IF Valid(w) THEN "ok" ELSE "gave_up"
  <1> USE DEF RecordInv
  <1>1. asked \in [DOMAIN asked -> Asking]
    BY DEF Types
  <1>2. CASE asked' = asked
    BY <1>1, <1>2
  <1>3. CASE /\ Waits(w.req) /\ asked[w.req].try = w.try
             /\ asked' = [asked EXCEPT ![w.req] = Settle(@, IF Valid(w) THEN "ok" ELSE "gave_up")]
    <2> DEFINE stage == IF Valid(w) THEN "ok" ELSE "gave_up"
               a     == [asked[w.req] EXCEPT !.stage = stage, !.body = NoBody]
    <2>1. w.req \in DOMAIN asked
      BY <1>3 DEF Waits
    <2>2. stage \in {"ok", "gave_up"}
      OBVIOUS
    <2>3. asked' = [asked EXCEPT ![w.req] = a]
      BY <1>3 DEF Settle
    <2>4. stage = IF Valid(w) THEN "ok" ELSE "gave_up"
      OBVIOUS
    <2> HIDE DEF stage
    <2>5. a \in Asking /\ a.try = asked[w.req].try /\ a.body = NoBody /\ a.stage = stage
      BY <1>1, <2>1, <2>2, NothingSaid DEF Asking
    <2> HIDE DEF a
    <2>6. /\ DOMAIN asked' = DOMAIN asked /\ asked'[w.req] = a
          /\ asked' \in [DOMAIN asked' -> Asking]
          /\ \A q \in DOMAIN asked : q # w.req => asked'[q] = asked[q]
      BY <1>1, <2>1, <2>3, <2>5
    <2>7. QED
      BY <1>3, <2>4, <2>5, <2>6
  <1>4. QED
    BY <1>2, <1>3 DEF Serve

LEMMA ServeKeeps ==
  ASSUME RecordInv, NEW w \in wire, Serve(w)
  PROVE  /\ RecordInv'
         /\ \A i \in 0..1 : IsClosed(i) => rows'[i].status = rows[i].status
  <1> USE DEF RecordInv
  <1>1. /\ Write(w) /\ wire' = wire \ {w}
        /\ UNCHANGED <<call, landed, worker>>
        /\ w \in Attempt /\ call.id \in 0..1
    BY DEF Serve, Types, Session
  <1>2. /\ rows' \in [0..1 -> [status : Statuses, said : Nat]]
        /\ \A i \in 0..1 :
             \/ rows'[i].status = rows[i].status
             \/ w.req = Open /\ i = w.try /\ rows'[i].status = "in_progress"
             \/ w.req = End /\ i = call.id /\ rows'[i].status = w.body.status
        /\ w.req = End => rows'[call.id].status = w.body.status
        /\ \/ summary' = summary
           \/ summary' = [outcome |-> w.body.outcome, saved |-> TRUE]
        /\ w.req = Final /\ Valid(w) => summary'.saved
    BY <1>1, WriteChanges
  <1>3. /\ DOMAIN asked' = DOMAIN asked
        /\ asked' \in [DOMAIN asked' -> Asking]
        /\ \A q \in DOMAIN asked :
             \/ asked'[q] = asked[q]
             \/ /\ q = w.req /\ Waits(q) /\ asked[q].try = w.try
                /\ asked'[q].try = w.try /\ asked'[q].body = NoBody
                /\ asked'[q].stage = IF Valid(w) THEN "ok" ELSE "gave_up"
    BY AnswerChanges
  <1>4. w.req \in {Open, End} => Valid(w)
    BY DEF Valid, Open, End
  <1>5. PICK status \in {"completed", "failed"} :
          Agreed(status) /\ (call.phase \in Ended => call.status = status)
    BY DEF EndFits
  <1>6. \A i \in 0..1 : IsClosed(i) => rows'[i].status = rows[i].status
    <2>1. ASSUME NEW i \in 0..1, IsClosed(i)  PROVE rows'[i].status = rows[i].status
      <3>1. i = call.id /\ rows[i].status = status
        BY <1>5, <2>1 DEF Agreed
      <3>2. w.req = Open => i # w.try
        BY <2>1, <3>1 DEF OpeningFits, AnyClosed
      <3>3. w.req = End => w.body.status = status
        BY <1>5 DEF Agreed
      <3>4. QED
        BY <1>2, <3>1, <3>2, <3>3
    <2>2. QED
      BY <2>1
  <1>7. \A i \in 0..1 : IsClosed(i)' => \/ IsClosed(i)
                                        \/ w.req = End /\ i = call.id /\ rows'[i].status = status
    <2>1. w.req = End => w.body.status = status
      BY <1>5 DEF Agreed
    <2>2. QED
      BY <1>2, <2>1 DEF IsClosed
  <1>8. \A i \in 0..1 : IsClosed(i) => IsClosed(i)'
    BY <1>6 DEF IsClosed
  <1>9. \A q : Waits(q)' => Waits(q) /\ asked'[q] = asked[q]
    BY <1>3 DEF Waits
  <1>10. (Sent(End) \/ AnyClosed)' => Sent(End) \/ AnyClosed
    BY <1>1, <1>7 DEF Sent, AnyClosed
  <1>11. Types'
    <2>1. w.body.outcome \in Outcome
      BY <1>1 DEF Attempt, Content
    <2>2. [outcome |-> w.body.outcome, saved |-> TRUE] \in [outcome : Outcome, saved : BOOLEAN]
      BY <2>1
    <2>3. summary \in [outcome : Outcome, saved : BOOLEAN]
      BY DEF Types
    <2>4. summary' \in [outcome : Outcome, saved : BOOLEAN]
      BY <1>2, <2>2, <2>3
    <2>5. QED
      BY <1>1, <1>2, <1>3, <2>4 DEF Types
  <1>12. Honesty'
    <2>1. Honest(summary'.outcome)
      BY <1>2 DEF Honesty
    <2>2. \A q \in DOMAIN asked' : Honest(asked'[q].body.outcome)
      BY <1>3, NothingSaid DEF Honesty, Honest
    <2>3. QED
      BY <1>1, <2>1, <2>2 DEF Honesty, Honest
  <1>13. OpeningFits'
    <2>1. Open \in DOMAIN asked /\ asked'[Open].stage = "ok" =>
            \A v \in wire' : v.req = Open => v.try # asked'[Open].try
      <3> SUFFICES ASSUME Open \in DOMAIN asked, asked'[Open].stage = "ok",
                          NEW v \in wire', v.req = Open, v.try = asked'[Open].try
                   PROVE  FALSE
        OBVIOUS
      <3>1. v \in wire /\ v # w /\ v \in Attempt /\ v.body = NoBody
        BY <1>1 DEF Types, OpeningFits
      <3>2. asked'[Open] # asked[Open]
        BY <3>1 DEF OpeningFits
      <3>3. w.req = Open /\ w.try = v.try /\ w.body = NoBody
        BY <1>3, <3>2 DEF OpeningFits
      <3>4. v = w
        BY <1>1, <3>1, <3>3 DEF Attempt
      <3>5. QED
        BY <3>1, <3>4
    <2>2. /\ call.phase = "opening" => Open \in DOMAIN asked'
          /\ Open \in DOMAIN asked' => asked'[Open].try \in 0..1
          /\ \A v \in wire' : v.req = Open => v.body = NoBody
          /\ Waits(Open)' => asked'[Open].body = NoBody
      BY <1>1, <1>3, <1>9 DEF OpeningFits
    <2>3. /\ call.phase \in Started => /\ ~Waits(Open)'
                                      /\ \A v \in wire' : v.req = Open => v.try # call.id
          /\ (Sent(End) \/ AnyClosed)' => \A v \in wire' : v.req = Open => v.try # call.id
      BY <1>1, <1>9, <1>10 DEF OpeningFits
    <2>4. QED
      BY <1>1, <1>3, <2>1, <2>2, <2>3 DEF OpeningFits
  <1>14. EndFits'
    <2>1. Agreed(status)'
      <3>1. \A i \in 0..1 : IsClosed(i)' => i = call.id /\ rows'[i].status = status
        BY <1>5, <1>6, <1>7 DEF Agreed
      <3>2. Waits(End)' => asked'[End].body.status = status
        BY <1>5, <1>9 DEF Agreed
      <3>3. QED
        BY <1>1, <1>5, <3>1, <3>2 DEF Agreed
    <2>2. QED
      BY <1>1, <1>3, <1>5, <1>10, <2>1 DEF EndFits
  <1>15. RecordFits'
    <2>1. End \in DOMAIN asked /\ asked'[End].stage = "ok" => IsClosed(call.id)'
      <3>1. CASE asked'[End] = asked[End]
        BY <1>1, <1>8, <3>1 DEF RecordFits
      <3>2. CASE w.req = End
        BY <1>1, <1>2, <1>5, <3>2 DEF IsClosed, Agreed
      <3>3. QED
        BY <1>3, <3>1, <3>2
    <2>2. Final \in DOMAIN asked /\ asked'[Final].stage = "ok" => summary'.saved
      <3>1. summary.saved => summary'.saved
        BY <1>2
      <3>2. CASE asked'[Final] = asked[Final]
        BY <3>1, <3>2 DEF RecordFits
      <3>3. CASE w.req = Final /\ asked'[Final].stage = IF Valid(w) THEN "ok" ELSE "gave_up"
        BY <1>2, <3>3
      <3>4. QED
        BY <1>3, <3>2, <3>3
    <2>3. QED
      BY <1>1, <1>3, <1>9, <2>1, <2>2 DEF RecordFits
  <1>16. QED
    BY <1>6, <1>11, <1>12, <1>13, <1>14, <1>15

\* The process is gone, and with it all that it held in memory.
LEMMA ExitKeeps ==
  ASSUME RecordInv, Exit
  PROVE  RecordInv'
  <1> USE DEF RecordInv
  <1>1. /\ worker' = "exited" /\ wire' \subseteq wire /\ asked' = <<>>
        /\ call' = [NewCall(call.via) EXCEPT !.id = call.id]
        /\ UNCHANGED <<landed, rows, summary>>
    BY DEF Exit
  <1>2. /\ call' \in Session /\ call'.phase = "idle" /\ call'.id = call.id
        /\ call'.outcome = NoOutcome
    BY <1>1, NothingSaid DEF NewCall, Session, Phases, Statuses, Types
  <1>3. DOMAIN asked' = {} /\ asked' \in [DOMAIN asked' -> Asking]
    BY <1>1
  <1>4. Types'
    BY <1>1, <1>2, <1>3 DEF Types
  <1>5. Honesty'
    BY <1>1, <1>2, <1>3, NothingSaid DEF Honesty, Honest, NoBody
  <1>6. /\ \A r : ~Waits(r)'
        /\ \A i : IsClosed(i)' <=> IsClosed(i)
        /\ (Sent(End) \/ AnyClosed)' => Sent(End) \/ AnyClosed
    BY <1>1, <1>3 DEF Waits, Sent, AnyClosed, IsClosed
  <1>7. OpeningFits'
    BY <1>1, <1>2, <1>3, <1>6 DEF OpeningFits, Started, Ended
  <1>8. EndFits'
    <2>1. \A status : Agreed(status) => Agreed(status)'
      BY <1>1, <1>2, <1>6 DEF Agreed
    <2>2. QED
      BY <1>1, <1>2, <1>3, <2>1 DEF EndFits, Ended
  <1>9. RecordFits'
    BY <1>2, <1>3 DEF RecordFits, Ended
  <1>10. QED
    BY <1>4, <1>5, <1>7, <1>8, <1>9

-----------------------------------------------------------------------------
(* Every step *)

\* CallRunner.end, the first time or not, on a session that is otherwise as far on.
LEMMA CloseKeeps ==
  ASSUME RecordInv, NEW c \in Session, c.phase = call.phase, c.id = call.id,
         c.status = call.status, c.outcome = call.outcome,
         NEW status \in {"completed", "failed"}, Close(Closing(c, status)),
         UNCHANGED <<landed, rows, summary>>, worker # "exited",
         worker' \in {"up", "draining", "crashed"}
  PROVE  RecordInv'
  <1> USE DEF RecordInv
  <1>1. CASE call.phase = "live"
    <2>1. call' = [c EXCEPT !.phase = "ending", !.status = status]
      BY <1>1 DEF Close, Closing
    <2>2. /\ call' \in Session /\ call'.phase = "ending" /\ call'.status = status
          /\ call'.id = call.id /\ call'.outcome = call.outcome
      BY <2>1 DEF Session, Phases, Statuses
    <2>3. Ask(call', {End})
      BY <1>1, <2>1, <2>2 DEF Close, Closing, End
    <2>4. {End} \in SUBSET Requests /\ Open \notin {End} /\ Final \notin {End}
      BY Ids
    <2>5. QED
      BY <1>1, <2>2, <2>3, <2>4, EndingStep
  <1>2. CASE call.phase # "live"
    <2>1. call' = c /\ Ask(call', {})
      BY <1>2 DEF Close, Closing
    <2>2. Honest(call.outcome)'
      BY <2>1 DEF Honesty, Honest
    <2>3. QED
      BY <2>1, <2>2, PlainStep
  <1>3. QED
    BY <1>1, <1>2

LEMMA InitEstablishes == Init => RecordInv
  <1> SUFFICES ASSUME Init  PROVE RecordInv
    OBVIOUS
  <1>1. /\ call \in Session /\ call.phase = "idle" /\ call.outcome = NoOutcome
        /\ asked = <<>> /\ wire = {} /\ worker = "up"
        /\ rows = [i \in 0..1 |-> NoRow] /\ summary = NoSummary
    <2>1. PICK v \in Transports : call = NewCall(v)
      BY DEF Init
    <2>2. NewCall(v) \in Session
      BY NothingSaid DEF NewCall, Session, Phases, Statuses
    <2>3. QED
      BY <2>1, <2>2 DEF Init, NewCall
  <1>2. NoRow \in [status : Statuses, said : Nat] /\ NoRow.status = "none"
    BY DEF NoRow, Statuses
  <1>3. NoSummary \in [outcome : Outcome, saved : BOOLEAN] /\ NoSummary.outcome = NoOutcome
    BY NothingSaid DEF NoSummary
  <1>4. DOMAIN asked = {} /\ asked \in [DOMAIN asked -> Asking]
    BY <1>1
  <1>5. Types
    BY <1>1, <1>2, <1>3, <1>4 DEF Types
  <1>6. Honesty
    BY <1>1, <1>3, <1>4, NothingSaid DEF Honesty, Honest, NoBody
  <1>7. ~AnyClosed /\ ~Sent(End)
    BY <1>1, <1>2 DEF AnyClosed, IsClosed, Sent
  <1>8. OpeningFits
    BY <1>1, <1>4, <1>7 DEF OpeningFits, Waits, Started, Ended
  <1>9. EndFits
    <2>1. Agreed("completed")
      BY <1>1, <1>4, <1>7 DEF Agreed, Waits, AnyClosed
    <2>2. QED
      BY <1>1, <1>4, <1>7, <2>1 DEF EndFits, Ended
  <1>10. RecordFits
    BY <1>1, <1>4 DEF RecordFits, Ended
  <1>11. QED
    BY <1>5, <1>6, <1>8, <1>9, <1>10 DEF RecordInv

\* The runner comes back from opening its record, or from reading the salon's
\* configuration.
LEMMA OpeningKeeps ==
  ASSUME RecordInv, Opened \/ Loaded \/ LoadFails
  PROVE  RecordInv'
  <1> USE DEF RecordInv
  <1>1. call \in Session /\ worker \in {"up", "draining"}
        /\ UNCHANGED <<landed, asked, wire, rows, summary>>
    BY DEF Types, Running, Opened, Loaded, LoadFails
  <1>2. CASE /\ call.phase \in {"opening", "loading"} /\ call' = [call EXCEPT !.phase = "refused"]
             /\ worker' \in {worker, "crashed"}
    <2>1. call' \in Session /\ call'.phase = "refused" /\ call'.outcome = call.outcome
      BY <1>1, <1>2 DEF Session, Phases
    <2>2. QED
      BY <1>1, <1>2, <2>1, PhaseStep DEF Started, Ended
  <1>3. CASE /\ call.phase = "opening" /\ ~Waits(Open) /\ ~GaveUp(Open) /\ worker' = worker
             /\ call' = [call EXCEPT !.phase = "loading", !.id = asked[Open].try]
    <2>1. /\ Open \in DOMAIN asked /\ asked[Open].try \in 0..1
          /\ asked[Open] \in Asking
      BY <1>3 DEF OpeningFits, Types
    <2>2. asked[Open].stage = "ok"
      BY <1>3, <2>1 DEF Waits, GaveUp, Asking
    <2>3. /\ call' \in Session /\ call'.phase = "loading" /\ call'.outcome = call.outcome
          /\ call'.id = asked[Open].try
      BY <1>1, <1>3, <2>1 DEF Session, Phases
    <2>4. \A w \in wire : w.req = Open => w.try # call'.id
      BY <2>1, <2>2, <2>3 DEF OpeningFits
    <2>5. QED
      BY <1>1, <1>3, <2>3, <2>4, PhaseStep DEF Started, Ended
  <1>4. CASE Loaded
    <2> DEFINE said == IF call.via = "browser" THEN 1 ELSE 0
    <2>1. /\ call.phase = "loading" /\ worker' = worker
          /\ call' = [call EXCEPT !.phase = "live", !.active = TRUE, !.said = said]
      BY <1>4 DEF Loaded
    <2>2. said \in Nat
      OBVIOUS
    <2> HIDE DEF said
    <2>3. /\ call' \in Session /\ call'.phase = "live" /\ call'.outcome = call.outcome
          /\ call'.id = call.id
      BY <1>1, <2>1, <2>2 DEF Session, Phases
    <2>4. ~Waits(Open) /\ \A w \in wire : w.req = Open => w.try # call'.id
      BY <2>1, <2>3 DEF OpeningFits, Started
    <2>5. QED
      BY <1>1, <2>1, <2>3, <2>4, PhaseStep DEF Started, Ended
  <1>5. QED
    BY <1>2, <1>3, <1>4 DEF Opened, LoadFails, Refused, Open

\* The caller, the turns and what they write to the diary.
LEMMA TurnKeeps ==
  ASSUME RecordInv, NEW t,
         \/ OpenStream \/ Utter \/ BargeIn
         \/ t \in Turns /\ (BeginWrite(t) \/ WriteLands(t) \/ WriteAnswered(t) \/ Reply(t))
  PROVE  RecordInv'
  <1> USE DEF RecordInv
  <1>1. call \in Session /\ {} \in SUBSET (Requests \ {Open, End, Final}) /\ call.said + 1 \in Nat
    BY DEF Types, Session
  <1>2. Honest(call.outcome)
    BY DEF Honesty
  <1>3. CASE OpenStream \/ BargeIn \/ BeginWrite(t) \/ WriteLands(t)
    <2>1. UNCHANGED <<call, asked, wire, rows, summary, worker>> /\ landed \subseteq landed'
      BY <1>3 DEF OpenStream, BargeIn, BeginWrite, WriteLands, Stage
    <2>2. Honest(call.outcome)'
      BY <1>2, <2>1 DEF Honest
    <2>3. QED
      BY <1>1, <2>1, <2>2, PlainStep
  <1>4. CASE Utter \/ (t \in Turns /\ (WriteAnswered(t) \/ Reply(t)))
    <2>1. UNCHANGED <<asked, wire, rows, summary, worker, landed>>
      BY <1>4 DEF Utter, WriteAnswered, Reply, Stage
    <2>2. /\ call' \in Session /\ call'.phase = call.phase /\ call'.id = call.id
          /\ call'.status = call.status /\ Honest(call'.outcome)
      <3>1. CASE Utter
        <4> DEFINE said == call.said + 1
        <4>1. call' = [call EXCEPT !.said = said] /\ said \in Nat
          BY <1>1, <3>1 DEF Utter
        <4> HIDE DEF said
        <4>2. QED
          BY <1>1, <1>2, <4>1 DEF Session
      <3>2. CASE t \in Turns /\ WriteAnswered(t)
        <4>1. PICK result \in {"failed", "success"} :
                /\ result = "success" => t \in landed
                /\ call' = [call EXCEPT !.outcome = [result |-> result, of |-> t]]
          BY <3>2 DEF WriteAnswered
        <4> DEFINE outcome == [result |-> result, of |-> t]
        <4>2. outcome \in Outcome /\ Honest(outcome)
          BY <3>2, <4>1, CallAssumption DEF Outcome, Honest, Turns
        <4>3. call' = [call EXCEPT !.outcome = outcome]
          BY <4>1
        <4> HIDE DEF outcome
        <4>4. QED
          BY <1>1, <4>2, <4>3 DEF Session
      <3>3. CASE Reply(t)
        <4> DEFINE said == call.said + 1
        <4>1. PICK odd \in BOOLEAN : call' = [call EXCEPT !.said = said, !.odd = odd]
          BY <1>1, <3>3 DEF Reply, Session
        <4>2. said \in Nat
          BY <1>1
        <4> HIDE DEF said
        <4>3. QED
          BY <1>1, <1>2, <4>1, <4>2 DEF Session
      <3>4. QED
        BY <1>4, <3>1, <3>2, <3>3
    <2>3. Honest(call.outcome)'
      BY <2>1, <2>2 DEF Honest
    <2>4. QED
      BY <1>1, <2>1, <2>2, <2>3, PlainStep
  <1>5. CASE OpenStream
    BY <1>3, <1>5
  <1>6. CASE Utter
    BY <1>4, <1>6
  <1>7. CASE BargeIn
    BY <1>3, <1>7
  <1>8. CASE t \in Turns /\ (BeginWrite(t) \/ WriteLands(t) \/ WriteAnswered(t) \/ Reply(t))
    <2>1. CASE BeginWrite(t)
      BY <1>3, <2>1
    <2>2. CASE WriteLands(t)
      BY <1>3, <2>2
    <2>3. CASE WriteAnswered(t) \/ Reply(t)
      BY <1>4, <1>8, <2>3
    <2>4. QED
      BY <1>8, <2>1, <2>2, <2>3
  <1>9. QED
    BY <1>5, <1>6, <1>7, <1>8

LEMMA SpeakKeeps ==
  ASSUME RecordInv, NEW t \in Turns, NEW ended \in BOOLEAN, Speak(t, ended)
  PROVE  RecordInv'
  <1> USE DEF RecordInv
  <1> DEFINE said == {<<"patch", t>>, <<"progress", t>>}
             c    == [call EXCEPT !.active = FALSE]
  <1>1. /\ worker # "exited" /\ worker' \in {"up", "draining"}
        /\ UNCHANGED <<landed, rows, summary>>
    BY DEF Speak, At, Running
  <1>2. /\ c \in Session /\ call \in Session /\ c.phase = call.phase /\ c.id = call.id
        /\ c.status = call.status /\ c.outcome = call.outcome
    BY DEF Types, Session
  <1>3. said \subseteq Requests \ {Open, End, Final}
    BY Ids
  <1>4. CASE call.phase = "live" /\ ended
    <2>1. call' = [c EXCEPT !.phase = "ending", !.status = "completed"]
      BY <1>2, <1>4 DEF Speak, Closing
    <2>2. /\ call' \in Session /\ call'.phase = "ending" /\ call'.status = "completed"
          /\ call'.id = call.id /\ call'.outcome = call.outcome
      BY <1>2, <2>1 DEF Session, Phases, Statuses
    <2>3. Ask(call', said \cup {End})
      BY <1>4 DEF Speak, End
    <2>4. /\ said \cup {End} \in SUBSET Requests
          /\ End \in said \cup {End} /\ Open \notin said \cup {End} /\ Final \notin said \cup {End}
      BY <1>3, Ids
    <2> HIDE DEF said
    <2>5. QED
      BY <1>1, <1>4, <2>2, <2>3, <2>4, EndingStep
  <1>5. CASE ~(call.phase = "live" /\ ended)
    <2>1. call' \in {c, call}
      BY <1>2, <1>5 DEF Speak, Closing
    <2>2. \E rs \in SUBSET (Requests \ {Open, End, Final}) : Ask(call', rs)
      <3>1. Ask(call', {}) \/ Ask(call', said)
        BY <1>5 DEF Speak
      <3>2. QED
        BY <1>3, <3>1
    <2> HIDE DEF c
    <2>3. Honest(call.outcome)'
      BY <1>1, <1>2, <2>1 DEF Honesty, Honest
    <2>4. QED
      BY <1>1, <1>2, <2>1, <2>2, <2>3, PlainStep
  <1>6. QED
    BY <1>4, <1>5

\* An end frame, a hang-up or a shutdown.
LEMMA FinishKeeps ==
  ASSUME RecordInv, EndFrame \/ Hangup \/ Sigterm
  PROVE  RecordInv'
  <1> USE DEF RecordInv
  <1> DEFINE c == [call EXCEPT !.active = FALSE]
             d == [call EXCEPT !.awaited = TRUE]
  <1>1. /\ worker # "exited" /\ worker' \in {"up", "draining"}
        /\ UNCHANGED <<landed, rows, summary>>
    BY DEF EndFrame, Hangup, Sigterm, Running
  <1>2. call \in Session /\ c \in Session /\ d \in Session
    BY DEF Types, Session
  <1>3. /\ c.phase = call.phase /\ c.id = call.id
        /\ c.status = call.status /\ c.outcome = call.outcome
        /\ d.phase = call.phase /\ d.id = call.id
        /\ d.status = call.status /\ d.outcome = call.outcome
    BY <1>2 DEF Session
  <1>4. \/ UNCHANGED <<call, asked, wire>>
        \/ \E status \in {"completed", "failed"} :
             Close(Closing(c, status)) \/ Close(Closing(d, status))
    BY DEF EndFrame, Hangup, Sigterm, Finish
  <1> HIDE DEF c, d
  <1>5. CASE UNCHANGED <<call, asked, wire>>
    <2>1. {} \in SUBSET (Requests \ {Open, End, Final})
      OBVIOUS
    <2>2. Honest(call.outcome)'
      BY <1>1, <1>5 DEF Honesty, Honest
    <2>3. QED
      BY <1>1, <1>2, <1>5, <2>1, <2>2, PlainStep
  <1>6. CASE \E status \in {"completed", "failed"} :
               Close(Closing(c, status)) \/ Close(Closing(d, status))
    BY <1>1, <1>2, <1>3, <1>6, CloseKeeps
  <1>7. QED
    BY <1>4, <1>5, <1>6

LEMMA NextKeeps ==
  ASSUME RecordInv, [Next]_vars
  PROVE  /\ RecordInv'
         /\ \A i \in 0..1 : IsClosed(i) => rows'[i].status = rows[i].status
  <1> DEFINE Standing == \A i \in 0..1 : IsClosed(i) => rows'[i].status = rows[i].status
  <1>1. CASE UNCHANGED vars
    <2>1. /\ UNCHANGED <<call, landed, asked, wire, rows, summary, worker>>
          /\ call \in Session /\ Honest(call.outcome)
          /\ {} \in SUBSET (Requests \ {Open, End, Final})
      BY <1>1 DEF vars, RecordInv, Types, Honesty
    <2>2. Honest(call.outcome)'
      BY <2>1 DEF Honest
    <2>3. QED
      BY <2>1, <2>2, PlainStep
  <1>2. CASE Dial
    BY <1>2, DialKeeps DEF Dial
  <1>3. CASE Opened \/ Loaded \/ LoadFails
    BY <1>3, OpeningKeeps DEF Opened, Loaded, LoadFails
  <1>4. CASE Closed
    BY <1>4, ClosedKeeps DEF Closed
  <1>5. CASE Summed
    BY <1>5, SummedKeeps DEF Summed
  <1>6. CASE EndFrame \/ Hangup \/ Sigterm
    BY <1>6, FinishKeeps DEF EndFrame, Hangup, Sigterm
  <1>7. CASE OpenStream \/ Utter \/ BargeIn
    BY <1>7, TurnKeeps DEF OpenStream, Utter, BargeIn
  <1>8. ASSUME NEW t \in Turns,
                BeginWrite(t) \/ WriteLands(t) \/ WriteAnswered(t) \/ Reply(t)
         PROVE  RecordInv' /\ Standing
    BY <1>8, TurnKeeps DEF BeginWrite, WriteLands, WriteAnswered, Reply
  <1>9. ASSUME NEW t \in Turns, NEW ended \in BOOLEAN, Speak(t, ended)
        PROVE  RecordInv' /\ Standing
    BY <1>9, SpeakKeeps DEF Speak
  <1>10. ASSUME NEW w \in wire, Serve(w)
        PROVE  RecordInv' /\ Standing
    BY <1>10, ServeKeeps
  <1>11. ASSUME NEW r \in DOMAIN asked, NEW kept \in BOOLEAN, Fail(r, kept)
         PROVE  RecordInv' /\ Standing
    BY <1>11, FailKeeps DEF Fail
  <1>12. CASE Exit
    BY <1>12, ExitKeeps DEF Exit
  <1>13. QED
    BY <1>1, <1>2, <1>3, <1>4, <1>5, <1>6, <1>7, <1>8, <1>9, <1>10, <1>11, <1>12
       DEF Next, Resume, Answering, Settled

LEMMA RecordHolds == Spec => []RecordInv
  <1>1. RecordInv /\ [Next]_vars => RecordInv'
    BY NextKeeps
  <1>2. QED
    BY <1>1, InitEstablishes, PTL DEF Spec

\* What the salon reads as done was done: an outcome is recorded when its answer
\* is in (ToolExecutor.commit), and every summary that a call sends, in whatever
\* order they arrive, says an outcome it had.
THEOREM SummariesAreReal == Spec => []SummaryIsReal
  <1>1. RecordInv => SummaryIsReal
    BY InvImplies
  <1>2. QED
    BY <1>1, RecordHolds, PTL

\* A call that has ended is closed and summed up, unless every attempt at that
\* failed (CallRunner.end, with its two catches).
THEOREM EndedCallsAreRecorded == Spec => []EndedIsRecorded
  <1>1. RecordInv => EndedIsRecorded
    BY InvImplies
  <1>2. QED
    BY <1>1, RecordHolds, PTL

\* A record that is closed stays as it was closed: no late attempt to open it, no
\* retry and no second end changes that (CallRunner.end, callRepo.ts).
THEOREM CallsAreClosedOnce == Spec => ClosedOnce
  <1>1. RecordInv /\ [Next]_vars =>
          [\A i \in 0..1 : IsClosed(i) => rows'[i].status = rows[i].status]_vars
    BY NextKeeps
  <1>2. QED
    BY <1>1, RecordHolds, PTL DEF Spec, ClosedOnce

-----------------------------------------------------------------------------
(* The types, and how far the counters go *)

Line == [up : {"none", "open", "closed", "left"}, gen : Nat, busy : BOOLEAN]
Turn == [stage : {"thinking", "writing", "speaking", "done"}, gen : Nat]

Replied == {t \in DOMAIN turns : turns[t].stage \in {"speaking", "done"}}

\* After n utterances: each has at most one reply, and the greeting comes before
\* them; each is a generation, and may be spoken over once, by one that has no turn.
Counts(n) ==
  /\ turns \in [1..n -> Turn]
  /\ \A t \in 1..n : turns[t].gen <= line.gen
  /\ line.gen <= 2 * n
  /\ (\E t \in 1..n : turns[t].gen = line.gen) => line.gen < 2 * n
  /\ call.said <= 1 + n + Cardinality(Replied)

CountsFit ==
  /\ line \in Line /\ landed \subseteq Turns
  /\ \E n \in 0..MaxUtterances : Counts(n)

\* What is sent has been said, and no request is tried more often than it is to be.
BodiesFit ==
  /\ \A r \in DOMAIN asked : asked[r].try <= Retries(r) /\ asked[r].body.said \in Lengths
  /\ \A w \in wire : w.try <= Retries(w.req) /\ w.body.said \in Lengths
  /\ \A i \in 0..1 : rows[i].said \in Lengths
  /\ faulty \subseteq Requests /\ Cardinality(faulty) <= MaxFaulty

TypeInv == CountsFit /\ BodiesFit

LEMMA FewReplies ==
  ASSUME NEW n \in Nat, turns \in [1..n -> Turn]
  PROVE  /\ IsFiniteSet(Replied) /\ Cardinality(Replied) \in Nat
         /\ Cardinality(Replied) <= n /\ Cardinality(DOMAIN turns) = n
  <1>1. IsFiniteSet(1..n) /\ Cardinality(1..n) = n
    BY FS_Interval
  <1>2. Replied \in SUBSET (1..n) /\ DOMAIN turns = 1..n
    BY DEF Replied
  <1>3. IsFiniteSet(Replied) /\ Cardinality(Replied) <= Cardinality(1..n)
    BY <1>1, <1>2, FS_Subset
  <1>4. Cardinality(Replied) \in Nat
    BY <1>3, FS_CardinalityType
  <1>5. QED
    BY <1>1, <1>2, <1>3, <1>4

LEMMA SaidIsBounded ==
  ASSUME CountsFit, call.said \in Nat
  PROVE  call.said \in Lengths
  <1>1. PICK n \in 0..MaxUtterances : Counts(n)
    BY DEF CountsFit
  <1>2. n \in Nat /\ turns \in [1..n -> Turn] /\ call.said <= 1 + n + Cardinality(Replied)
    BY <1>1, CallAssumption DEF Counts
  <1>3. Cardinality(Replied) \in Nat /\ Cardinality(Replied) <= n
    BY <1>2, FewReplies
  <1>4. MaxUtterances \in Nat /\ n <= MaxUtterances
    BY <1>1, CallAssumption
  <1> DEFINE k == Cardinality(Replied)
  <1> HIDE DEF k
  <1>5. k \in Nat /\ k <= n /\ call.said <= 1 + n + k
    BY <1>2, <1>3 DEF k
  <1>6. call.said <= 2 * MaxUtterances + 1
    BY <1>2, <1>4, <1>5
  <1>7. QED
    BY <1>4, <1>6 DEF Lengths

\* A step that leaves the turns alone, and the transcript but for the greeting.
LEMMA SameCounts ==
  ASSUME CountsFit, turns' = turns, landed' \subseteq Turns, line' \in Line,
         line'.gen = line.gen, call'.said = call.said \/ call'.said \in 0..1
  PROVE  CountsFit'
  <1>1. PICK n \in 0..MaxUtterances : Counts(n)
    BY DEF CountsFit
  <1>2. n \in Nat /\ turns \in [1..n -> Turn]
    BY <1>1, CallAssumption DEF Counts
  <1>3. Cardinality(Replied) \in Nat
    BY <1>2, FewReplies
  <1>4. Replied' = Replied
    BY DEF Replied
  <1> DEFINE k == Cardinality(Replied)
  <1>5. k' = k
    BY <1>4
  <1> HIDE DEF k
  <1>6. call'.said <= 1 + n + k
    <2>1. call.said <= 1 + n + k
      BY <1>1 DEF Counts, k
    <2>2. \A s \in 0..1 : s <= 1 + n + k
      BY <1>2, <1>3 DEF k
    <2>3. QED
      BY <2>1, <2>2
  <1>7. Counts(n)'
    BY <1>1, <1>5, <1>6 DEF Counts, k
  <1>8. QED
    BY <1>7 DEF CountsFit

\* A turn goes on; if it has its reply, that is said.
LEMMA TurnGoesOn ==
  ASSUME CountsFit, call.said \in Nat, NEW t \in DOMAIN turns,
         NEW s \in {"thinking", "writing", "speaking", "done"},
         turns' = [turns EXCEPT ![t].stage = s],
         landed' \subseteq Turns, line' \in Line, line'.gen = line.gen,
         \/ call'.said = call.said /\ (t \in Replied => s \in {"speaking", "done"})
         \/ call'.said = call.said + 1 /\ t \notin Replied /\ s \in {"speaking", "done"}
  PROVE  CountsFit'
  <1>1. PICK n \in 0..MaxUtterances : Counts(n)
    BY DEF CountsFit
  <1>2. n \in Nat /\ turns \in [1..n -> Turn]
    BY <1>1, CallAssumption DEF Counts
  <1>3. turns[t] \in Turn /\ t \in 1..n
    BY <1>2
  <1> DEFINE x == [turns[t] EXCEPT !.stage = s]
  <1>4. x \in Turn /\ x.gen = turns[t].gen /\ x.stage = s
    BY <1>3 DEF Turn
  <1>5. turns' = [turns EXCEPT ![t] = x]
    BY <1>3
  <1> HIDE DEF x
  <1>6. /\ turns' \in [1..n -> Turn] /\ turns'[t].stage = s
        /\ \A i \in 1..n : turns'[i].gen = turns[i].gen /\ (i # t => turns'[i] = turns[i])
    BY <1>2, <1>3, <1>4, <1>5
  <1>7. /\ IsFiniteSet(Replied) /\ Cardinality(Replied) \in Nat
    BY <1>2, FewReplies
  <1>8. /\ s \in {"speaking", "done"} => Replied' = Replied \cup {t}
        /\ s \notin {"speaking", "done"} => Replied' = Replied \ {t}
    BY <1>2, <1>3, <1>6 DEF Replied
  <1>9. /\ Cardinality(Replied \cup {t}) = IF t \in Replied THEN Cardinality(Replied)
                                           ELSE Cardinality(Replied) + 1
    BY <1>7, FS_AddElement
  <1> DEFINE k == Cardinality(Replied)
             m == Cardinality(Replied')
  <1>10. \/ call'.said = call.said /\ (m = k \/ m = k + 1)
         \/ call'.said = call.said + 1 /\ m = k + 1
    <2>1. CASE call'.said = call.said /\ (t \in Replied => s \in {"speaking", "done"})
      <3>1. CASE s \in {"speaking", "done"}
        BY <1>8, <1>9, <2>1, <3>1
      <3>2. CASE s \notin {"speaking", "done"}
        <4>1. Replied' = Replied
          BY <1>8, <2>1, <3>2
        <4>2. QED
          BY <2>1, <4>1
      <3>3. QED
        BY <3>1, <3>2
    <2>2. CASE call'.said = call.said + 1 /\ t \notin Replied /\ s \in {"speaking", "done"}
      BY <1>8, <1>9, <2>2
    <2>3. QED
      BY <2>1, <2>2
  <1>11. k \in Nat /\ call.said <= 1 + n + k
    BY <1>1, <1>7 DEF Counts
  <1> HIDE DEF k, m
  <1>12. call'.said <= 1 + n + m
    BY <1>2, <1>10, <1>11
  <1>13. Counts(n)'
    BY <1>1, <1>6, <1>12 DEF Counts, m
  <1>14. QED
    BY <1>13 DEF CountsFit

LEMMA UtterCounts ==
  ASSUME CountsFit, call \in Session, Utter
  PROVE  CountsFit'
  <1>1. PICK n \in 0..MaxUtterances : Counts(n)
    BY DEF CountsFit
  <1>2. /\ n \in Nat /\ MaxUtterances \in Nat /\ turns \in [1..n -> Turn]
        /\ DOMAIN turns = 1..n
    BY <1>1, CallAssumption DEF Counts
  <1>3. Cardinality(DOMAIN turns) = n /\ Cardinality(Replied) \in Nat
    BY <1>2, FewReplies
  <1>4. line.gen \in Nat /\ line'.gen = line.gen + 1 /\ line' \in Line
    <2> DEFINE b == call.via = "browser"
               y == [line EXCEPT !.gen = @ + 1]
    <2>1. line \in Line /\ line.gen \in Nat
      BY DEF CountsFit, Line
    <2>2. y \in Line /\ y.gen = line.gen + 1
      BY <2>1 DEF Line
    <2>3. line' = [y EXCEPT !.busy = b]
      BY DEF Utter
    <2>4. b \in BOOLEAN
      OBVIOUS
    <2> HIDE DEF b, y
    <2>5. line' \in Line /\ line'.gen = y.gen
      BY <2>2, <2>3, <2>4 DEF Line
    <2>6. QED
      BY <2>1, <2>2, <2>5
  <1>5. call'.said = call.said + 1 /\ call.said \in Nat
    BY DEF Utter, Session
  <1> DEFINE new == [stage |-> "thinking", gen |-> line'.gen]
  <1>6. new \in Turn /\ new.gen = line.gen + 1 /\ new.stage = "thinking"
    BY <1>4 DEF Turn
  <1>7. turns' = [t \in 1..(n + 1) |-> IF t \in 1..n THEN turns[t] ELSE new]
    BY <1>2, <1>3 DEF Utter
  <1> HIDE DEF new
  <1>8. /\ turns' \in [1..(n + 1) -> Turn]
        /\ \A t \in 1..n : turns'[t] = turns[t]
        /\ turns'[n + 1] = new
        /\ \A t \in 1..(n + 1) : t \in 1..n \/ t = n + 1
    BY <1>2, <1>6, <1>7
  <1>9. Replied' = Replied
    BY <1>2, <1>6, <1>8 DEF Replied
  <1>10. n + 1 \in 0..MaxUtterances
    BY <1>2, <1>3 DEF Utter
  <1>11. call'.said <= 1 + (n + 1) + Cardinality(Replied')
    <2> DEFINE k == Cardinality(Replied)
    <2>1. k \in Nat /\ call.said <= 1 + n + k
      BY <1>1, <1>3 DEF Counts
    <2> HIDE DEF k
    <2>2. call'.said <= 1 + (n + 1) + k
      BY <1>2, <1>5, <2>1
    <2>3. QED
      BY <1>9, <2>2 DEF k
  <1>12. \A t \in 1..(n + 1) : turns'[t].gen <= line'.gen
    <2>1. \A t \in 1..n : turns[t].gen \in Nat /\ turns[t].gen <= line.gen
      BY <1>1, <1>2 DEF Counts, Turn
    <2>2. \A t \in 1..n : turns[t].gen <= line'.gen
      BY <1>4, <2>1
    <2>3. new.gen <= line'.gen
      BY <1>4, <1>6
    <2>4. QED
      BY <1>8, <2>2, <2>3
  <1>13. line'.gen < 2 * (n + 1)
    BY <1>1, <1>2, <1>4 DEF Counts
  <1>14. line'.gen <= 2 * (n + 1)
    BY <1>2, <1>4, <1>13
  <1>15. Counts(n + 1)'
    BY <1>8, <1>11, <1>12, <1>13, <1>14 DEF Counts
  <1>16. landed' \subseteq Turns
    BY DEF CountsFit, Utter
  <1>17. QED
    BY <1>4, <1>10, <1>15, <1>16 DEF CountsFit

LEMMA BargeInCounts ==
  ASSUME CountsFit, BargeIn
  PROVE  CountsFit'
  <1>1. PICK n \in 0..MaxUtterances : Counts(n)
    BY DEF CountsFit
  <1>2. n \in Nat /\ turns \in [1..n -> Turn] /\ line.gen \in Nat
    BY <1>1, CallAssumption DEF Counts, CountsFit, Line
  <1>3. line' \in Line /\ line'.gen = line.gen + 1 /\ UNCHANGED <<call, turns, landed>>
    BY DEF BargeIn, CountsFit, Line
  <1>4. line.gen < 2 * n
    <2>1. \E t \in 1..n : turns[t].gen = line.gen
      BY <1>2 DEF BargeIn
    <2>2. QED
      BY <1>1, <2>1 DEF Counts
  <1>5. line'.gen <= 2 * n
    BY <1>2, <1>3, <1>4
  <1>6. \A t \in 1..n : turns[t].gen <= line'.gen /\ turns[t].gen # line'.gen
    <2>1. \A t \in 1..n : turns[t].gen \in Nat /\ turns[t].gen <= line.gen
      BY <1>1, <1>2 DEF Counts, Turn
    <2>2. QED
      BY <1>2, <1>3, <2>1
  <1>7. Replied' = Replied
    BY <1>3 DEF Replied
  <1>8. Counts(n)'
    BY <1>1, <1>3, <1>5, <1>6, <1>7 DEF Counts
  <1>9. QED
    BY <1>3, <1>8 DEF CountsFit

\* What ends a call says nothing.
LEMMA ClosingSays ==
  ASSUME call \in Session, NEW status
  PROVE  /\ Closing([call EXCEPT !.active = FALSE], status).said = call.said
         /\ Closing([call EXCEPT !.awaited = TRUE], status).said = call.said
  <1>1. ASSUME NEW c \in Session, c.said = call.said
        PROVE  Closing(c, status).said = call.said
    BY <1>1 DEF Closing, Session
  <1>2. /\ [call EXCEPT !.active = FALSE] \in Session
        /\ [call EXCEPT !.active = FALSE].said = call.said
    BY DEF Session
  <1>3. /\ [call EXCEPT !.awaited = TRUE] \in Session
        /\ [call EXCEPT !.awaited = TRUE].said = call.said
    BY DEF Session
  <1>4. QED
    BY <1>1, <1>2, <1>3

LEMMA CountsStep ==
  ASSUME RecordInv, CountsFit, [Next]_vars
  PROVE  CountsFit'
  <1> USE DEF RecordInv
  <1>1. /\ call \in Session /\ call.said \in Nat
        /\ line \in Line /\ landed \subseteq Turns
    BY DEF Types, Session, CountsFit
  <1>2. \A u \in {"none", "open", "closed", "left"}, b \in BOOLEAN :
          /\ [line EXCEPT !.up = u] \in Line /\ [line EXCEPT !.up = u].gen = line.gen
          /\ [line EXCEPT !.busy = b] \in Line /\ [line EXCEPT !.busy = b].gen = line.gen
    BY <1>1 DEF Line
  <1>3. CASE Dial \/ OpenStream
    <2>1. /\ UNCHANGED <<turns, landed>>
          /\ line' = line \/ line' = [line EXCEPT !.up = "open"]
      BY <1>3 DEF Dial, OpenStream
    <2>2. call'.said = call.said
      BY <1>1, <1>3 DEF Dial, OpenStream, Session
    <2>3. line' \in Line /\ line'.gen = line.gen
      BY <1>1, <1>2, <2>1
    <2>4. QED
      BY <1>1, <2>1, <2>2, <2>3, SameCounts
  <1>4. CASE Resume \/ LoadFails
    <2>1. UNCHANGED <<line, turns, landed>>
      BY <1>4 DEF Resume, Opened, Loaded, Closed, Summed, LoadFails
    <2>2. call'.said = call.said \/ call'.said \in 0..1
      <3>1. CASE Opened
        <4>1. \/ call' = [call EXCEPT !.phase = "refused"]
              \/ call' = [call EXCEPT !.phase = "loading", !.id = asked[<<"open", 0>>].try]
          BY <3>1 DEF Opened, Refused
        <4>2. QED
          BY <1>1, <4>1 DEF Session
      <3>2. CASE Loaded
        BY <1>1, <3>2 DEF Loaded, Session
      <3>3. CASE Closed \/ Summed \/ LoadFails
        BY <1>1, <3>3 DEF Closed, Summed, LoadFails, Refused, Session
      <3>4. QED
        BY <1>4, <3>1, <3>2, <3>3 DEF Resume
    <2>3. QED
      BY <1>1, <2>1, <2>2, SameCounts
  <1>5. CASE EndFrame \/ Hangup \/ Sigterm
    <2>1. /\ UNCHANGED <<turns, landed>>
          /\ line' = line \/ line' = [line EXCEPT !.up = IF call.phase \in {"opening", "loading", "refused"}
                                                         THEN "left" ELSE "closed"]
      BY <1>5 DEF EndFrame, Hangup, Sigterm
    <2>2. line' \in Line /\ line'.gen = line.gen
      BY <1>1, <1>2, <2>1
    <2>3. \/ call' = call
          \/ \E status : call' = Closing([call EXCEPT !.active = FALSE], status)
          \/ \E status : call' = Closing([call EXCEPT !.awaited = TRUE], status)
      BY <1>5 DEF EndFrame, Hangup, Sigterm, Finish, Close
    <2>4. call'.said = call.said
      <3>1. ASSUME NEW status
            PROVE  /\ Closing([call EXCEPT !.active = FALSE], status).said = call.said
                   /\ Closing([call EXCEPT !.awaited = TRUE], status).said = call.said
        BY <1>1, ClosingSays
      <3>2. CASE \E status : call' = Closing([call EXCEPT !.active = FALSE], status)
        BY <3>1, <3>2, Zenon
      <3>3. CASE \E status : call' = Closing([call EXCEPT !.awaited = TRUE], status)
        BY <3>1, <3>3, Zenon
      <3>4. QED
        BY <2>3, <3>2, <3>3
    <2>5. QED
      BY <1>1, <2>1, <2>2, <2>4, SameCounts
  <1>6. ASSUME NEW t \in Turns, BeginWrite(t) \/ WriteAnswered(t)
        PROVE  CountsFit'
    <2>1. /\ t \in DOMAIN turns /\ UNCHANGED <<line, landed>>
          /\ t \notin Replied
          /\ \E s \in {"thinking", "writing"} : turns' = [turns EXCEPT ![t].stage = s]
      BY <1>6 DEF BeginWrite, WriteAnswered, At, Stage, Replied
    <2>2. call'.said = call.said
      BY <1>1, <1>6 DEF BeginWrite, WriteAnswered, Session
    <2>3. QED
      BY <1>1, <2>1, <2>2, TurnGoesOn
  <1>7. ASSUME NEW t \in Turns, WriteLands(t)
        PROVE  CountsFit'
    <2>1. UNCHANGED <<call, line, turns>> /\ landed' \subseteq Turns
      BY <1>1, <1>7 DEF WriteLands
    <2>2. QED
      BY <1>1, <2>1, SameCounts
  <1>8. ASSUME NEW t \in Turns, Reply(t)
        PROVE  CountsFit'
    <2>1. /\ t \in DOMAIN turns /\ UNCHANGED landed /\ t \notin Replied
          /\ \E s \in {"speaking", "done"} : turns' = [turns EXCEPT ![t].stage = s]
          /\ line' = line \/ line' = [line EXCEPT !.busy = FALSE]
      BY <1>8 DEF Reply, At, Stage, Replied
    <2>2. line' \in Line /\ line'.gen = line.gen
      BY <1>1, <1>2, <2>1
    <2>3. call'.said = call.said + 1
      <3>1. PICK odd : call' = [call EXCEPT !.said = @ + 1, !.odd = odd]
        BY <1>8 DEF Reply
      <3>2. QED
        BY <1>1, <3>1 DEF Session
    <2>4. QED
      BY <1>1, <2>1, <2>2, <2>3, TurnGoesOn
  <1>9. ASSUME NEW t \in Turns, NEW ended \in BOOLEAN, Speak(t, ended)
        PROVE  CountsFit'
    <2>1. /\ t \in DOMAIN turns /\ UNCHANGED landed
          /\ turns' = [turns EXCEPT ![t].stage = "done"]
          /\ line' = [line EXCEPT !.busy = FALSE]
      BY <1>9 DEF Speak, At, Stage
    <2>2. line' \in Line /\ line'.gen = line.gen
      BY <1>2, <2>1
    <2>3. call'.said = call.said
      BY <1>1, <1>9, ClosingSays DEF Speak
    <2>4. QED
      BY <1>1, <2>1, <2>2, <2>3, TurnGoesOn
  <1>10. ASSUME (\E w \in wire : Serve(w)) \/ (\E r \in DOMAIN asked, kept \in BOOLEAN : Fail(r, kept))
                \/ UNCHANGED vars
         PROVE  CountsFit'
    <2>1. UNCHANGED <<call, line, turns, landed>>
      BY <1>10 DEF Serve, Fail, vars
    <2>2. QED
      BY <1>1, <2>1, SameCounts
  <1>11. CASE Exit
    <2>1. turns' = <<>> /\ line' = NoLine /\ UNCHANGED landed
      BY <1>11 DEF Exit
    <2>2. call'.said = 0
      BY <1>11 DEF Exit, NewCall
    <2>3. line' \in Line /\ line'.gen = 0
      BY <2>1 DEF NoLine, Line
    <2>4. Replied' = {}
      BY <2>1 DEF Replied
    <2>5. turns' \in [1..0 -> Turn]
      BY <2>1
    <2>6. Counts(0)'
      BY <2>2, <2>3, <2>4, <2>5, FS_EmptySet DEF Counts
    <2>7. 0 \in 0..MaxUtterances
      BY CallAssumption
    <2>8. QED
      BY <1>1, <2>1, <2>3, <2>6, <2>7 DEF CountsFit
  <1>12. QED
    BY <1>1, <1>3, <1>4, <1>5, <1>6, <1>7, <1>8, <1>9, <1>10, <1>11, UtterCounts, BargeInCounts
       DEF Next, Answering, Settled

LEMMA NoneToMany ==
  /\ 0 \in Lengths /\ 1 \in Lengths /\ Lengths \subseteq Nat
  /\ NoBody.said = 0
  /\ \A r : Retries(r) \in 0..2
  BY CallAssumption DEF Lengths, NoBody, Retries

LEMMA BodySays ==
  ASSUME NEW r, NEW s \in Session, s.said \in Lengths
  PROVE  BodyOf(r, s).said \in Lengths
  <1> DEFINE said    == [NoBody EXCEPT !.said = s.said]
             closed  == [NoBody EXCEPT !.said = s.said, !.status = s.status]
             outcome == [NoBody EXCEPT !.outcome = s.outcome, !.odd = s.odd]
  <1>1. said.said = s.said /\ closed.said = s.said
    BY DEF NoBody
  <1>2. outcome.said = 0 /\ NoBody.said = 0
    BY DEF NoBody
  <1>3. BodyOf(r, s) \in {said, closed, outcome, NoBody}
    BY DEF BodyOf
  <1> HIDE DEF said, closed, outcome
  <1>4. QED
    BY <1>1, <1>2, <1>3, NoneToMany

LEMMA AskedFits ==
  ASSUME RecordInv, BodiesFit, NEW s \in Session, s.said \in Lengths,
         NEW rs \in SUBSET Requests, Ask(s, rs), UNCHANGED <<rows, faulty>>
  PROVE  BodiesFit'
  <1>1. /\ asked' = [r \in DOMAIN asked \cup rs |->
                       IF r \in rs THEN [try |-> 0, body |-> BodyOf(r, s), stage |-> "waiting"]
                       ELSE asked[r]]
        /\ wire' = wire \cup {[req |-> r, try |-> 0, body |-> BodyOf(r, s)] : r \in rs}
    BY DEF Ask
  <1>2. \A r : BodyOf(r, s).said \in Lengths /\ 0 <= Retries(r)
    BY BodySays, NoneToMany
  <1>3. \A r \in DOMAIN asked' : asked'[r].try <= Retries(r) /\ asked'[r].body.said \in Lengths
    BY <1>1, <1>2 DEF BodiesFit
  <1>4. \A w \in wire' : w.try <= Retries(w.req) /\ w.body.said \in Lengths
    BY <1>1, <1>2 DEF BodiesFit
  <1>5. QED
    BY <1>3, <1>4 DEF BodiesFit

LEMMA FailedFits ==
  ASSUME RecordInv, BodiesFit, call.said \in Lengths,
         NEW r \in DOMAIN asked, NEW kept, Fail(r, kept)
  PROVE  BodiesFit'
  <1> USE DEF RecordInv
  <1> DEFINE a    == asked[r]
             next == IF r[1] \in {"patch", "end"} THEN [a.body EXCEPT !.said = call.said]
                     ELSE a.body
             this == [req |-> r, try |-> a.try, body |-> a.body]
             left == IF kept THEN wire ELSE wire \ {this}
             on   == a.try + 1
             more == [a EXCEPT !.try = on, !.body = next]
             over == [a EXCEPT !.stage = "gave_up", !.body = NoBody]
             sent == [req |-> r, try |-> on, body |-> next]
  <1>1. a \in Asking /\ a.try \in Nat /\ a.body \in Content /\ a.body.said \in Lengths
        /\ a.try <= Retries(r) /\ Retries(r) \in Nat
    BY NoneToMany DEF Types, Asking, BodiesFit
  <1>2. next.said \in Lengths
    <2>1. [a.body EXCEPT !.said = call.said].said = call.said
      BY <1>1 DEF Content
    <2>2. QED
      BY <1>1, <2>1
  <1>3. left \subseteq wire
    OBVIOUS
  <1>4. faulty' \subseteq Requests /\ Cardinality(faulty') <= MaxFaulty /\ UNCHANGED rows
    BY DEF Fail, MayFail, BodiesFit, Types
  <1>5. on \in Nat /\ (a.try < Retries(r) => on <= Retries(r))
    BY <1>1
  <1> HIDE DEF next, left, on
  <1>6. more.try = on /\ more.body = next
    BY <1>1 DEF Asking
  <1>7. over.try = a.try /\ over.body.said = 0
    BY <1>1, NoneToMany DEF Asking
  <1>8. sent.req = r /\ sent.try = on /\ sent.body = next
    OBVIOUS
  <1>9. CASE a.try < Retries(r)
    <2>1. asked' = [asked EXCEPT ![r] = more] /\ wire' = left \cup {sent}
      BY <1>9 DEF Fail, next, left, on
    <2> HIDE DEF more, sent
    <2>2. \A q \in DOMAIN asked' : asked'[q].try <= Retries(q) /\ asked'[q].body.said \in Lengths
      BY <1>2, <1>5, <1>6, <1>9, <2>1 DEF BodiesFit
    <2>3. \A w \in wire' : w.try <= Retries(w.req) /\ w.body.said \in Lengths
      BY <1>2, <1>3, <1>5, <1>8, <1>9, <2>1 DEF BodiesFit
    <2>4. QED
      BY <1>4, <2>2, <2>3 DEF BodiesFit
  <1>10. CASE ~(a.try < Retries(r))
    <2>1. asked' = [asked EXCEPT ![r] = over] /\ wire' = left
      BY <1>10 DEF Fail, Settle, left
    <2> HIDE DEF over
    <2>2. \A q \in DOMAIN asked' : asked'[q].try <= Retries(q) /\ asked'[q].body.said \in Lengths
      BY <1>1, <1>7, <2>1, NoneToMany DEF BodiesFit
    <2>3. \A w \in wire' : w.try <= Retries(w.req) /\ w.body.said \in Lengths
      BY <1>3, <2>1 DEF BodiesFit
    <2>4. QED
      BY <1>4, <2>2, <2>3 DEF BodiesFit
  <1>11. QED
    BY <1>9, <1>10

LEMMA ServedFits ==
  ASSUME RecordInv, BodiesFit, NEW w \in wire, Serve(w)
  PROVE  BodiesFit'
  <1> USE DEF RecordInv
  <1>1. /\ w.req \in Requests /\ w.try <= Retries(w.req) /\ w.body.said \in Lengths
        /\ rows \in [0..1 -> [status : Statuses, said : Nat]] /\ call.id \in 0..1
        /\ Write(w) /\ wire' \subseteq wire /\ UNCHANGED faulty
    BY DEF Types, Attempt, Session, BodiesFit, Serve
  <1>2. \A i \in 0..1 : rows'[i].said \in {rows[i].said, w.body.said}
    <2>1. CASE w.req[1] = "open"
      BY <1>1, <2>1 DEF Write
    <2>2. CASE w.req[1] = "patch"
      BY <1>1, <2>2 DEF Write
    <2>3. CASE w.req[1] = "end"
      BY <1>1, <2>3 DEF Write
    <2>4. CASE w.req[1] \notin {"open", "patch", "end"}
      BY <1>1, <2>4 DEF Write
    <2>5. QED
      BY <2>1, <2>2, <2>3, <2>4
  <1>3. \A i \in 0..1 : rows'[i].said \in Lengths
    BY <1>1, <1>2 DEF BodiesFit
  <1>4. \A q \in DOMAIN asked' : asked'[q].try <= Retries(q) /\ asked'[q].body.said \in Lengths
    <2>1. /\ DOMAIN asked' = DOMAIN asked
          /\ \A q \in DOMAIN asked :
               \/ asked'[q] = asked[q]
               \/ q = w.req /\ asked'[q].try = w.try /\ asked'[q].body = NoBody
      BY AnswerChanges
    <2>2. QED
      BY <1>1, <2>1, NoneToMany DEF BodiesFit
  <1>5. QED
    BY <1>1, <1>3, <1>4 DEF BodiesFit

LEMMA BodiesStep ==
  ASSUME RecordInv, RecordInv', CountsFit, CountsFit', BodiesFit, [Next]_vars
  PROVE  BodiesFit'
  <1>1. /\ call \in Session /\ call.said \in Lengths
        /\ call' \in Session /\ call'.said \in Lengths
    <2>1. call \in Session /\ call.said \in Nat /\ call' \in Session
      BY DEF RecordInv, Types, Session
    <2>2. call'.said \in Nat
      BY <2>1 DEF Session
    <2>3. call.said \in Lengths
      BY <2>1, SaidIsBounded
    <2>4. (call.said \in Lengths)'
      <3>1. (CountsFit /\ call.said \in Nat => call.said \in Lengths)'
        BY SaidIsBounded, PTL
      <3>2. QED
        BY <2>2, <3>1 DEF Lengths
    <2>5. QED
      BY <2>1, <2>3, <2>4 DEF Lengths
  <1>2. ASSUME UNCHANGED <<asked, wire, rows, faulty>>
        PROVE  BodiesFit'
    BY <1>2 DEF BodiesFit
  <1>3. ASSUME NEW s \in {call, call'}, NEW rs \in SUBSET Requests, Ask(s, rs), UNCHANGED <<rows, faulty>>
        PROVE  BodiesFit'
    BY <1>1, <1>3, AskedFits
  <1>4. {} \in SUBSET Requests /\ {<<"open", 0>>} \in SUBSET Requests
        /\ {<<"end", 0>>} \in SUBSET Requests /\ {<<"final", 0>>} \in SUBSET Requests
    BY DEF Requests
  <1>5. CASE Dial \/ Closed
    BY <1>3, <1>4, <1>5 DEF Dial, Closed
  <1>6. CASE LoadFails
    <2>1. <<"load", 0>> \in Requests
      BY DEF Requests
    <2>2. QED
      BY <1>6, <2>1 DEF LoadFails, MayFail, BodiesFit
  <1>7. CASE EndFrame \/ Hangup \/ Sigterm
    <2>1. /\ UNCHANGED <<rows, faulty>>
          /\ \/ UNCHANGED <<asked, wire>>
             \/ \E rs \in {{}, {<<"end", 0>>}} : Ask(call', rs)
      BY <1>7 DEF EndFrame, Hangup, Sigterm, Finish, Close
    <2>2. QED
      BY <1>2, <1>3, <1>4, <2>1
  <1>8. ASSUME NEW t \in Turns, NEW ended \in BOOLEAN, Speak(t, ended)
        PROVE  BodiesFit'
    <2>1. UNCHANGED <<rows, faulty>> /\ \E rs \in SUBSET Requests : Ask(call', rs)
      BY <1>8 DEF Speak, Requests
    <2>2. QED
      BY <1>3, <2>1
  <1>9. CASE Exit
    <2>1. asked' = <<>> /\ wire' \subseteq wire /\ UNCHANGED <<rows, faulty>>
      BY <1>9 DEF Exit
    <2>2. QED
      BY <2>1 DEF BodiesFit
  <1>10. CASE \/ Opened \/ Loaded \/ Summed \/ OpenStream \/ Utter \/ BargeIn \/ UNCHANGED vars
              \/ \E t \in Turns : BeginWrite(t) \/ WriteLands(t) \/ WriteAnswered(t) \/ Reply(t)
    BY <1>2, <1>10 DEF Opened, Loaded, Summed, OpenStream, Utter, BargeIn, vars, BeginWrite,
         WriteLands, WriteAnswered, Reply
  <1>11. QED
    BY <1>1, <1>5, <1>6, <1>7, <1>8, <1>9, <1>10, FailedFits, ServedFits
       DEF Next, Resume, Answering, Settled

LEMMA TypesImply ==
  ASSUME RecordInv, TypeInv
  PROVE  TypeOK
  <1> USE DEF RecordInv, TypeInv
  <1>1. call \in Session /\ call.said \in Lengths
    <2>1. call \in Session /\ call.said \in Nat
      BY DEF Types, Session
    <2>2. QED
      BY <2>1, SaidIsBounded
  <1>2. call \in Call
    BY <1>1 DEF Session, Call, Phases
  <1>3. PICK n \in 0..MaxUtterances : Counts(n)
    BY DEF CountsFit
  <1>4. n \in Nat /\ MaxUtterances \in Nat /\ n <= MaxUtterances /\ line.gen \in Nat
    BY <1>3, CallAssumption DEF CountsFit, Line
  <1>5. line.gen <= 2 * MaxUtterances
    BY <1>3, <1>4 DEF Counts
  <1>6. line \in [up : {"none", "open", "closed", "left"}, gen : 0..(2 * MaxUtterances), busy : BOOLEAN]
    BY <1>4, <1>5 DEF CountsFit, Line
  <1>7. /\ DOMAIN turns \subseteq Turns
        /\ \A t \in DOMAIN turns :
             turns[t] \in [stage : {"thinking", "writing", "speaking", "done"},
                           gen : 0..(2 * MaxUtterances)]
    <2>1. turns \in [1..n -> Turn] /\ \A t \in 1..n : turns[t].gen <= line.gen
      BY <1>3 DEF Counts
    <2>2. \A t \in 1..n : turns[t].gen \in 0..(2 * MaxUtterances)
      BY <1>4, <1>5, <2>1 DEF Turn
    <2>3. QED
      BY <1>4, <2>1, <2>2 DEF Turn, Turns
  <1>8. ASSUME NEW b \in Content, b.said \in Lengths
        PROVE  b \in Body
    BY <1>8 DEF Content, Body
  <1>9. \A r : \A k \in Nat : k <= Retries(r) => k \in 0..2
    BY NoneToMany
  <1>10. \A r \in DOMAIN asked :
           asked[r] \in [try : 0..2, body : Body, stage : {"waiting", "ok", "gave_up"}]
    <2> SUFFICES ASSUME NEW r \in DOMAIN asked
                 PROVE  asked[r] \in [try : 0..2, body : Body, stage : {"waiting", "ok", "gave_up"}]
      OBVIOUS
    <2>1. asked[r] \in Asking
      BY DEF Types
    <2>2. asked[r].body \in Body
      BY <1>8, <2>1 DEF Asking, BodiesFit
    <2>3. asked[r].try \in 0..2
      BY <1>9, <2>1 DEF Asking, BodiesFit
    <2>4. QED
      BY <2>1, <2>2, <2>3 DEF Asking
  <1>11. wire \subseteq [req : Requests, try : 0..2, body : Body]
    <2> SUFFICES ASSUME NEW w \in wire
                 PROVE  w \in [req : Requests, try : 0..2, body : Body]
      OBVIOUS
    <2>1. w \in Attempt
      BY DEF Types
    <2>2. w.body \in Body
      BY <1>8, <2>1 DEF Attempt, BodiesFit
    <2>3. w.try \in 0..2
      BY <1>9, <2>1 DEF Attempt, BodiesFit
    <2>4. QED
      BY <2>1, <2>2, <2>3 DEF Attempt
  <1>12. rows \in [0..1 -> Row]
    <2>1. rows \in [0..1 -> [status : Statuses, said : Nat]] /\ \A i \in 0..1 : rows[i].said \in Lengths
      BY DEF Types, BodiesFit
    <2>2. \A i \in 0..1 : rows[i] \in Row
      BY <2>1 DEF Row
    <2>3. QED
      BY <2>1, <2>2
  <1>13. /\ landed \subseteq Turns /\ DOMAIN asked \subseteq Requests
         /\ summary \in [outcome : Outcome, saved : BOOLEAN]
         /\ worker \in {"up", "draining", "exited", "crashed"}
         /\ faulty \subseteq Requests /\ Cardinality(faulty) <= MaxFaulty
    BY DEF CountsFit, BodiesFit, Types
  <1>14. QED
    BY <1>2, <1>6, <1>7, <1>10, <1>11, <1>12, <1>13 DEF TypeOK

LEMMA TypeInvInit == Init => TypeInv
  <1> SUFFICES ASSUME Init  PROVE TypeInv
    OBVIOUS
  <1>1. call.said = 0
    BY DEF Init, NewCall
  <1>2. line \in Line /\ line.gen = 0 /\ landed = {} /\ turns = <<>>
    BY DEF Init, NoLine, Line
  <1>3. Counts(0)
    <2>1. Replied = {} /\ turns \in [1..0 -> Turn]
      BY <1>2 DEF Replied
    <2>2. QED
      BY <1>1, <1>2, <2>1, FS_EmptySet DEF Counts
  <1>4. CountsFit
    BY <1>2, <1>3, CallAssumption DEF CountsFit
  <1>5. rows = [i \in 0..1 |-> NoRow] /\ asked = <<>> /\ wire = {} /\ faulty = {}
    BY DEF Init
  <1>6. NoRow.said = 0
    BY DEF NoRow
  <1>7. Cardinality(faulty) <= MaxFaulty
    BY <1>5, FS_EmptySet, CallAssumption
  <1>8. BodiesFit
    BY <1>5, <1>6, <1>7, NoneToMany DEF BodiesFit
  <1>9. QED
    BY <1>4, <1>8 DEF TypeInv

\* The state keeps its types, however long the call: a generation of the line has an
\* utterance or an interruption of its own, the transcript grows by a line for each
\* utterance and each reply (CallRunner.handleTurn), and no request is tried more
\* often than its retries allow (client.ts).
THEOREM CallTyped == Spec => []TypeOK
  <1>1. RecordInv /\ TypeInv /\ [Next]_vars => RecordInv' /\ TypeInv'
    <2> SUFFICES ASSUME RecordInv, TypeInv, [Next]_vars
                 PROVE  RecordInv' /\ TypeInv'
      OBVIOUS
    <2>1. RecordInv'
      BY NextKeeps
    <2>2. CountsFit'
      BY CountsStep DEF TypeInv
    <2>3. BodiesFit'
      BY <2>1, <2>2, BodiesStep DEF TypeInv
    <2>4. QED
      BY <2>1, <2>2, <2>3 DEF TypeInv
  <1>2. RecordInv /\ TypeInv => TypeOK
    BY TypesImply
  <1>3. QED
    BY <1>1, <1>2, InitEstablishes, TypeInvInit, PTL DEF Spec
=============================================================================
