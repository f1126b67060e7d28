------------------------------ MODULE CallRecord ------------------------------
(***************************************************************************)
(* One phone call and what the salon is left with of it: the voice         *)
(* server's socket handlers and shutdown (server.ts, transport/twilio.ts), *)
(* the call runner (callRunner.ts), its unkeyed requests to the CRM and    *)
(* their retries (crm/client.ts), and the rows they write                  *)
(* (routes/calls.ts, callRepo.ts).                                         *)
(*                                                                         *)
(* Every await is a step.  A request goes out on the wire; the server      *)
(* serves it when it gets to it, whether or not the client still waits.    *)
(* Transcripts are abstracted to their length, a summary to the outcome it *)
(* reports and to whether the callback in it has an odd number, one that   *)
(* is not a phone number.                                                  *)
(***************************************************************************)
EXTENDS Naturals, FiniteSets

CONSTANTS
  Transports,     \* the kinds of line: a subset of {"browser", "twilio"}
  MaxUtterances,  \* bound: utterances of the caller
  MaxFaulty       \* bound: requests that meet with failures

ASSUME CallAssumption ==
  /\ Transports \subseteq {"browser", "twilio"}
  /\ MaxUtterances \in Nat /\ MaxFaulty \in Nat

VARIABLES
  call,     \* the runner, with its session and its place in activeCalls
  line,     \* the caller's socket, with the handler's generation and busy
  turns,    \* the utterances being answered, a partial function on Turns
  landed,   \* the turns whose write to the diary took place
  asked,    \* the runner's requests, a partial function on Requests
  wire,     \* the attempts that the server has yet to serve
  rows,     \* call_logs: the row each attempt at startCall inserted, if any
  summary,  \* call_summaries: the row of this call, if any
  worker,   \* the agent process
  faulty    \* the requests that have met with a failure

vars == <<call, line, turns, landed, asked, wire, rows, summary, worker, faulty>>

Turns   == 1..MaxUtterances
Lengths == 0..(2 * MaxUtterances + 1)

\* What the runner asks of the CRM: its record opened, the salon's configuration
\* (five reads, taken as one), after each turn the transcript and the summary so
\* far, at the end the record closed and the final summary.
Requests == {<<"open", 0>>, <<"load", 0>>, <<"end", 0>>, <<"final", 0>>}
              \cup ({"patch", "progress"} \X Turns)

\* lastWriteOutcome as buildSummary reports it, with the turn it is of: every
\* outcome but success is a failure there, one that is not known included.
NoOutcome == [result |-> "none", of |-> 0]
Outcome   == [result : {"none", "success", "failed"}, of : 0..MaxUtterances]

Statuses == {"none", "in_progress", "completed", "failed"}

Body == [said : Lengths, status : Statuses, outcome : Outcome, odd : BOOLEAN]
Row  == [status : Statuses, said : Lengths]

NoBody    == [said |-> 0, status |-> "none", outcome |-> NoOutcome, odd |-> FALSE]
NoLine    == [up |-> "none", gen |-> 0, busy |-> FALSE]
NoRow     == [status |-> "none", said |-> 0]
NoSummary == [outcome |-> NoOutcome, saved |-> FALSE]

Call == [via : Transports, id : 0..1, said : Lengths, outcome : Outcome,
         phase : {"idle", "opening", "loading", "refused", "live", "ending",
                  "summing", "over"},
         odd : BOOLEAN, active : BOOLEAN, status : Statuses, awaited : BOOLEAN]

NewCall(v) == [via |-> v, id |-> 0, said |-> 0, outcome |-> NoOutcome,
               phase |-> "idle", odd |-> FALSE, active |-> FALSE,
               status |-> "none", awaited |-> FALSE]

TypeOK ==
  /\ call \in Call
  /\ line \in [up : {"none", "open", "closed", "left"}, gen : 0..(2 * MaxUtterances),
               busy : BOOLEAN]
  /\ DOMAIN turns \subseteq Turns
  /\ \A t \in DOMAIN turns :
       turns[t] \in [stage : {"thinking", "writing", "speaking", "done"},
                     gen : 0..(2 * MaxUtterances)]
  /\ landed \subseteq Turns
  /\ DOMAIN asked \subseteq Requests
  /\ \A r \in DOMAIN asked :
       asked[r] \in [try : 0..2, body : Body, stage : {"waiting", "ok", "gave_up"}]
  /\ wire \subseteq [req : Requests, try : 0..2, body : Body]
  /\ rows \in [0..1 -> Row]
  /\ summary \in [outcome : Outcome, saved : BOOLEAN]
  /\ worker \in {"up", "draining", "exited", "crashed"}
  /\ faulty \subseteq Requests /\ Cardinality(faulty) <= MaxFaulty

Running    == worker \in {"up", "draining"}
Summarised == call.phase \in {"ending", "summing", "over"}

-----------------------------------------------------------------------------
(* The client's requests *)

\* What a request says of the session s: the transcript, with the status if it
\* closes the record, or the outcome.
BodyOf(r, s) ==
  CASE r[1] = "patch" -> [NoBody EXCEPT !.said = s.said]
    [] r[1] = "end"   -> [NoBody EXCEPT !.said = s.said, !.status = s.status]
    [] r[1] \in {"progress", "final"} ->
         [NoBody EXCEPT !.outcome = s.outcome, !.odd = s.odd]
    [] OTHER -> NoBody

\* The session s makes the requests rs.
Ask(s, rs) ==
  /\ asked' = [r \in DOMAIN asked \cup rs |->
                 IF r \in rs THEN [try |-> 0, body |-> BodyOf(r, s), stage |-> "waiting"]
                 ELSE asked[r]]
  /\ wire' = wire \cup {[req |-> r, try |-> 0, body |-> BodyOf(r, s)] : r \in rs}

\* A request is over: what is left is which attempt it ended with.
Settle(a, stage) == [a EXCEPT !.stage = stage, !.body = NoBody]

Waits(r)  == r \in DOMAIN asked /\ asked[r].stage = "waiting"
GaveUp(r) == r \in DOMAIN asked /\ asked[r].stage = "gave_up"

\* Mutant of Retries: one more for the summary.
RetriesOnceMore(r) == CASE r[1] = "patch" -> 0
                         [] r[1] \in {"open", "end"} -> 1
                         [] OTHER -> 3

\* The retries of startCall, updateCall, endCall and saveCallSummary: a retry
\* is safe to repeat only where the handler is, and startCall's is not.
Retries(r) == CASE r[1] = "patch" -> 0
                [] r[1] \in {"open", "end"} -> 1
                [] OTHER -> 2

MayFail(r) == Cardinality(faulty \cup {r}) <= MaxFaulty

\* An attempt fails: kept says whether the server has it all the same.  The
\* next attempt sends the transcript as it is by then, but the same summary.
Fail(r, kept) ==
  LET a    == asked[r]
      this == [req |-> r, try |-> a.try, body |-> a.body]
      next == IF r[1] \in {"patch", "end"} THEN [a.body EXCEPT !.said = call.said]
              ELSE a.body
      left == IF kept THEN wire ELSE wire \ {this}
  IN /\ Running /\ Waits(r) /\ MayFail(r)
     /\ faulty' = faulty \cup {r}
     /\ IF a.try < Retries(r)
        THEN /\ asked' = [asked EXCEPT ![r].try = a.try + 1, ![r].body = next]
             /\ wire' = left \cup {[req |-> r, try |-> a.try + 1, body |-> next]}
        ELSE /\ asked' = [asked EXCEPT ![r] = Settle(@, "gave_up")]
             /\ wire' = left
     /\ UNCHANGED <<call, line, turns, landed, rows, summary, worker>>

\* CallbackRequestSchema: one odd number makes the whole summary invalid.
Valid(w) == w.req[1] \in {"progress", "final"} => ~w.body.odd

\* The handlers of routes/calls.ts: every update is unconditional.
Write(w) ==
  LET kind == w.req[1] IN
  /\ rows' = CASE kind = "open" -> [rows EXCEPT ![w.try].status = "in_progress"]
               [] kind = "patch" -> [rows EXCEPT ![call.id].said = w.body.said]
               [] kind = "end" -> [rows EXCEPT ![call.id] = [status |-> w.body.status,
                                                             said |-> w.body.said]]
               [] OTHER -> rows
  /\ summary' = IF kind \in {"progress", "final"} /\ Valid(w)
                THEN [outcome |-> w.body.outcome, saved |-> TRUE]
                ELSE summary

\* The server serves an attempt; the client hears of it if it still waits for
\* that one.  A refusal is final.
Serve(w) ==
  /\ w \in wire
  /\ Write(w)
  /\ wire' = wire \ {w}
  /\ IF Running /\ Waits(w.req) /\ asked[w.req].try = w.try
     THEN asked' = [asked EXCEPT ![w.req] = Settle(@, IF Valid(w) THEN "ok" ELSE "gave_up")]
     ELSE UNCHANGED asked
  /\ UNCHANGED <<call, line, turns, landed, worker, faulty>>

-----------------------------------------------------------------------------
(* The call begins *)

\* The page asks for a call, or the telephone company opens its media stream.
Dial ==
  /\ worker = "up" /\ call.phase = "idle"
  /\ call' = [call EXCEPT !.phase = "opening"]
  /\ line' = IF call.via = "twilio" THEN [line EXCEPT !.up = "open"] ELSE line
  /\ Ask(call, {<<"open", 0>>})
  /\ UNCHANGED <<turns, landed, rows, summary, worker, faulty>>

\* The call cannot begin.  The page is told 503; nothing catches the rejection
\* of the stream's handler, and an uncaught rejection ends the process.
Refused ==
  /\ call' = [call EXCEPT !.phase = "refused"]
  /\ worker' = IF call.via = "twilio" THEN "crashed" ELSE worker

\* startCall returns the id of the row that the answered attempt inserted.
Opened ==
  /\ Running /\ call.phase = "opening" /\ ~Waits(<<"open", 0>>)
  /\ IF GaveUp(<<"open", 0>>) THEN Refused
     ELSE /\ call' = [call EXCEPT !.phase = "loading", !.id = asked[<<"open", 0>>].try]
          /\ UNCHANGED worker
  /\ UNCHANGED <<line, turns, landed, asked, wire, rows, summary, faulty>>

\* The salon's configuration is read, and the call is registered.  The page is
\* greeted in the answer to its request.
Loaded ==
  /\ Running /\ call.phase = "loading"
  /\ call' = [call EXCEPT !.phase = "live", !.active = TRUE,
                          !.said = IF call.via = "browser" THEN 1 ELSE 0]
  /\ UNCHANGED <<line, turns, landed, asked, wire, rows, summary, worker, faulty>>

\* One of the reads fails, and the record that was opened stays open.
LoadFails ==
  /\ Running /\ call.phase = "loading" /\ MayFail(<<"load", 0>>)
  /\ Refused
  /\ faulty' = faulty \cup {<<"load", 0>>}
  /\ UNCHANGED <<line, turns, landed, asked, wire, rows, summary>>

\* The page opens its socket, which finds the call if it is active.
OpenStream ==
  /\ worker = "up" /\ call.via = "browser" /\ line.up = "none" /\ call.active
  /\ line' = [line EXCEPT !.up = "open"]
  /\ UNCHANGED <<call, turns, landed, asked, wire, rows, summary, worker, faulty>>

-----------------------------------------------------------------------------
(* The call ends *)

\* Mutant of Closing: ending the call again closes the record again.
ClosingAgain(c, status) ==
  IF c.phase \in {"live", "over"} THEN [c EXCEPT !.phase = "ending", !.status = status]
  ELSE c

\* CallRunner.end: only the first time.
Closing(c, status) ==
  IF c.phase = "live" THEN [c EXCEPT !.phase = "ending", !.status = status] ELSE c

\* The session c is put into s, and the record closed if that ended the call.
Close(s) ==
  /\ call' = s
  /\ Ask(s, IF s.phase = "ending" /\ call.phase # "ending" THEN {<<"end", 0>>} ELSE {})

\* finish: the call leaves activeCalls before its record is closed.
Finish(status) == Close(Closing([call EXCEPT !.active = FALSE], status))

\* The page's end frame, or the stream's stop frame.
EndFrame ==
  /\ Running /\ line.up = "open"
  /\ call.phase \notin {"opening", "loading", "refused"}
  /\ Finish("completed")
  /\ UNCHANGED <<line, turns, landed, rows, summary, worker, faulty>>

\* Mutant of Hangup: a line that drops during a turn is left to the turn.
HangupWhenIdle ==
  /\ Running /\ line.up = "open"
  /\ line' = [line EXCEPT !.up = IF call.phase \in {"opening", "loading", "refused"}
                                 THEN "left" ELSE "closed"]
  /\ IF call.active /\ ~line.busy THEN Finish("completed")
     ELSE UNCHANGED <<call, asked, wire>>
  /\ UNCHANGED <<turns, landed, rows, summary, worker, faulty>>

\* The socket closes.  On the telephone there may be no runner to end yet.
Hangup ==
  /\ Running /\ line.up = "open"
  /\ line' = [line EXCEPT !.up = IF call.phase \in {"opening", "loading", "refused"}
                                 THEN "left" ELSE "closed"]
  /\ IF call.active THEN Finish(IF line.busy THEN "failed" ELSE "completed")
     ELSE UNCHANGED <<call, asked, wire>>
  /\ UNCHANGED <<turns, landed, rows, summary, worker, faulty>>

\* Mutant of Closed: a record that could not be closed gets no summary.
ClosedOrNot ==
  /\ Running /\ call.phase = "ending" /\ ~Waits(<<"end", 0>>)
  /\ call' = [call EXCEPT !.phase = IF GaveUp(<<"end", 0>>) THEN "over" ELSE "summing"]
  /\ Ask(call, IF GaveUp(<<"end", 0>>) THEN {} ELSE {<<"final", 0>>})
  /\ UNCHANGED <<line, turns, landed, rows, summary, worker, faulty>>

\* The record is closed, or could not be: either way the summary is next.
Closed ==
  /\ Running /\ call.phase = "ending" /\ ~Waits(<<"end", 0>>)
  /\ call' = [call EXCEPT !.phase = "summing"]
  /\ Ask(call, {<<"final", 0>>})
  /\ UNCHANGED <<line, turns, landed, rows, summary, worker, faulty>>

Summed ==
  /\ Running /\ call.phase = "summing" /\ ~Waits(<<"final", 0>>)
  /\ call' = [call EXCEPT !.phase = "over"]
  /\ UNCHANGED <<line, turns, landed, asked, wire, rows, summary, worker, faulty>>

-----------------------------------------------------------------------------
(* The turns *)

Stage(t, stage) == turns' = [turns EXCEPT ![t].stage = stage]

At(t, stage) == Running /\ t \in DOMAIN turns /\ turns[t].stage = stage

\* The caller says something.  The page's socket still takes it after the end;
\* the telephone's recogniser is closed with the call.
Utter ==
  /\ Running /\ line.up = "open" /\ Cardinality(DOMAIN turns) < MaxUtterances
  /\ IF call.via = "browser" THEN call.phase # "idle" ELSE call.active
  /\ line' = [line EXCEPT !.gen = @ + 1, !.busy = call.via = "browser"]
  /\ turns' = [t \in 1..(Cardinality(DOMAIN turns) + 1) |->
                 IF t \in DOMAIN turns THEN turns[t]
                 ELSE [stage |-> "thinking", gen |-> line'.gen]]
  /\ call' = [call EXCEPT !.said = @ + 1]
  /\ UNCHANGED <<landed, asked, wire, rows, summary, worker, faulty>>

\* The caller speaks over the agent.
BargeIn ==
  /\ Running /\ line.up = "open" /\ line.gen < 2 * MaxUtterances
  /\ \E t \in DOMAIN turns : turns[t].stage # "done" /\ turns[t].gen = line.gen
  /\ line' = [line EXCEPT !.gen = @ + 1]
  /\ UNCHANGED <<call, turns, landed, asked, wire, rows, summary, worker, faulty>>

\* The turn asks the CRM to book, cancel or move.
BeginWrite(t) ==
  /\ At(t, "thinking") /\ t \notin landed /\ call.outcome.of # t
  /\ Stage(t, "writing")
  /\ UNCHANGED <<call, line, landed, asked, wire, rows, summary, worker, faulty>>

\* The appointment is written, while the turn waits or after it gave up.
WriteLands(t) ==
  /\ t \in DOMAIN turns /\ t \notin landed
  /\ \/ turns[t].stage = "writing"
     \/ call.outcome = [result |-> "failed", of |-> t]
  /\ landed' = landed \cup {t}
  /\ UNCHANGED <<call, line, turns, asked, wire, rows, summary, worker, faulty>>

\* Mutant of WriteAnswered: the outcome is recorded as the request is sent.
WriteAnsweredUnseen(t) ==
  /\ At(t, "writing")
  /\ \E result \in {"success", "failed"} :
       call' = [call EXCEPT !.outcome = [result |-> result, of |-> t]]
  /\ Stage(t, "thinking")
  /\ UNCHANGED <<line, landed, asked, wire, rows, summary, worker, faulty>>

\* The executor records what the answer said, or that there was none.
WriteAnswered(t) ==
  /\ At(t, "writing")
  /\ \E result \in {"failed"} \cup (IF t \in landed THEN {"success"} ELSE {}) :
       call' = [call EXCEPT !.outcome = [result |-> result, of |-> t]]
  /\ Stage(t, "thinking")
  /\ UNCHANGED <<line, landed, asked, wire, rows, summary, worker, faulty>>

\* The turn has its reply, having taken the details of a callback as the model
\* gave them, or not.  A superseded reply is dropped; the telephone's is marked
\* as said, and nothing more.
Reply(t) ==
  /\ At(t, "thinking")
  /\ \E odd \in {call.odd, TRUE} : call' = [call EXCEPT !.said = @ + 1, !.odd = odd]
  /\ IF turns[t].gen = line.gen /\ call.via = "browser"
     THEN Stage(t, "speaking") /\ UNCHANGED line
     ELSE Stage(t, "done") /\ line' = [line EXCEPT !.busy = FALSE]
  /\ UNCHANGED <<landed, asked, wire, rows, summary, worker, faulty>>

\* The reply is sent, progress is written down unless the call has ended, and
\* the call ends if the agent said goodbye: the three requests go out together.
Speak(t, ended) ==
  /\ At(t, "speaking")
  /\ Stage(t, "done")
  /\ line' = [line EXCEPT !.busy = FALSE]
  /\ call' = IF ended THEN Closing([call EXCEPT !.active = FALSE], "completed") ELSE call
  /\ Ask(call', IF call.phase # "live" THEN {}
                ELSE {<<"patch", t>>, <<"progress", t>>}
                       \cup (IF ended THEN {<<"end", 0>>} ELSE {}))
  /\ UNCHANGED <<landed, rows, summary, worker, faulty>>

-----------------------------------------------------------------------------
(* The worker goes *)

\* SIGTERM: the call is ended if it is in activeCalls, and waited for.  (A call
\* that begins while others are waited for is not modelled.)
Sigterm ==
  /\ worker = "up"
  /\ worker' = "draining"
  /\ IF call.active THEN Close(Closing([call EXCEPT !.awaited = TRUE], "failed"))
     ELSE UNCHANGED <<call, asked, wire>>
  /\ UNCHANGED <<line, turns, landed, rows, summary, faulty>>

\* app.close waits for the requests the page has open, not for a finish in
\* progress on a socket.  Then the process and its memory are gone; what it had
\* sent may have arrived or not.
Exit ==
  /\ worker = "draining"
  /\ call.awaited => call.phase = "over"
  /\ ~(call.via = "browser" /\ call.phase \in {"opening", "loading"})
  /\ worker' = "exited"
  /\ wire' \in {wire, {}}
  /\ call' = [NewCall(call.via) EXCEPT !.id = call.id]
  /\ line' = NoLine /\ turns' = <<>> /\ asked' = <<>>
  /\ UNCHANGED <<landed, rows, summary, faulty>>

-----------------------------------------------------------------------------
(* The specification *)

Init ==
  /\ call \in {NewCall(v) : v \in Transports}
  /\ line = NoLine
  /\ turns = <<>> /\ landed = {} /\ asked = <<>> /\ wire = {}
  /\ rows = [i \in 0..1 |-> NoRow] /\ summary = NoSummary
  /\ worker = "up" /\ faulty = {}

\* The runner goes on once what it awaits is settled.
Resume == Opened \/ Loaded \/ Closed \/ Summed

Answering(t) == WriteAnswered(t) \/ Reply(t) \/ \E ended \in BOOLEAN : Speak(t, ended)

\* Nothing more to do: the rest is up to the caller.
Settled ==
  /\ wire = {} /\ (Running => call.phase \in {"refused", "live", "over"})
  /\ UNCHANGED vars

Next ==
  \/ Dial \/ Resume \/ LoadFails \/ OpenStream \/ EndFrame \/ Hangup
  \/ Utter \/ BargeIn
  \/ \E t \in Turns : BeginWrite(t) \/ WriteLands(t) \/ Answering(t)
  \/ \E w \in wire : Serve(w)
  \/ \E r \in DOMAIN asked, kept \in BOOLEAN : Fail(r, kept)
  \/ Sigterm \/ Exit
  \/ Settled

Spec == Init /\ [][Next]_vars

\* The event loop runs, and the server serves what reaches it.
Fairness ==
  /\ WF_vars(Resume)
  /\ \A t \in Turns : WF_vars(Answering(t))
  /\ WF_vars(\E w \in wire : Serve(w))

FairSpec == Spec /\ Fairness

-----------------------------------------------------------------------------
(* Properties *)

IsClosed(i) == rows[i].status \in {"completed", "failed"}

\* The record of the call is closed, or both attempts to close it failed.
Recorded == IsClosed(call.id) \/ GaveUp(<<"end", 0>>)

\* A hang-up, an end frame, a goodbye and a shutdown race to end the call: its
\* record is closed as the first of them says and never as another.
ClosedOnce == [][\A i \in 0..1 : IsClosed(i) => rows'[i].status = rows[i].status]_vars

\* What the salon reads as done was done, whichever summary arrives last.
SummaryIsReal == summary.outcome.result = "success" => summary.outcome.of \in landed

\* When the runner is done the call is closed and summed up, unless every
\* attempt at either failed or the summary was refused: a failure of the one
\* never loses the other.
EndedIsRecorded ==
  call.phase = "over" /\ Running =>
    /\ Recorded
    /\ summary.saved \/ GaveUp(<<"final", 0>>)

\* A caller who hangs up, mid-sentence or not, leaves a closed record.
HangUpIsRecorded == (line.up = "closed") ~> (Recorded \/ ~Running)
=============================================================================
