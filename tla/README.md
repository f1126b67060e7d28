# Verification of the salon voice receptionist

This directory holds TLA+ models of the salon voice receptionist, the TLC
configurations that check them on small instances, and proofs about them that
TLAPS checks. Every definition is translated from the code under `src/`;
`PROJECT.json` says which lines each definition stands for.

Contents: [the system](#the-system), [what is hard](#what-is-hard),
[modules](#modules), [runs](#runs), [proofs](#proofs),
[where the code and its comments disagree](#where-the-code-and-its-comments-disagree),
[what is not modelled](#what-is-not-modelled), [plan](#plan).

## The system

A caller talks to a voice agent; the agent looks at the salon's diary and
changes it through an HTTP API; staff use the same API from a web interface.

| Component | Source | State | Operations |
| --- | --- | --- | --- |
| Booking policy | `packages/core/src/policy.ts` | none | opening and shift intervals, why a booking is refused, late-change fees |
| Scheduling service | `apps/api/src/services/schedulingService.ts`, `repositories/appointmentRepo.ts`, the status route | `appointments` | book, cancel, reschedule, mark completed or no-show |
| Customers | `repositories/customerRepo.ts`, `routes/customers.ts`, `packages/core/src/phone.ts` | `customers` | find or create by phone, search, edit |
| Idempotency | `plugins/idempotency.ts` | `idempotency_keys` | reserve, inspect, take over, complete, release, sweep |
| CRM client | `apps/agent/src/crm/client.ts` | a retry loop's locals | keyed writes and reads with a deadline and retries |
| Tool executor | `apps/agent/src/tools/executor.ts` | the session's staged action and last outcome | propose (stage), commit, look up |
| Conversation | `agent/orchestrator.ts`, `confirmation.ts`, `session/types.ts` | the session: state, turn count, pending confirmation, failures | one turn per utterance, up to six rounds of tool calls |
| Call runner, call record | `agent/callRunner.ts`, `routes/calls.ts`, `repositories/callRepo.ts` | `call_logs`, `call_summaries` | start, progress updates nobody waits for, summary, end |
| Voice server | `apps/agent/src/server.ts` | a generation counter, a busy flag | utterance, barge-in, hang-up, shutdown |
| Availability | `packages/core/src/availability.ts` | none | free slots, alternatives to a refused time |
| Authentication | `plugins/auth.ts` | `api_keys` and a five-second cache | authenticate, require a scope, revoke |
| Catalogue and settings | `repositories/catalogRepo.ts`, `salonRepo.ts` | services, staff, hours, policy | read for scheduling, replace |
| Migrations | `db/migrate.ts` | `schema_migrations` | apply pending files, each in a transaction |
| Time expressions | `packages/core/src/time/resolveExpression.ts` | none | what English words for a time mean |
| Language models, speech, telephone | `llm/`, `stt/`, `tts/`, `transport/` | none that matters here | produce tool calls, text and sound |
| Staff interface | `apps/admin` | a query cache | views over the API |

How they interact on a write: the model asks for a *proposing* tool; the
executor stages the action in the session under a fresh idempotency key and the
agent reads it back; the caller agrees in a later turn; `commit_pending_action` sends
the write through the CRM client, which retries it with the same key; the
server's `withIdempotency` reserves the key, runs the handler of the scheduling
service, and records the outcome under the key; the handler reads, decides and
writes the `appointments` table in separate statements, and the table's
exclusion constraint has the last word.

## What is hard

* **Races in the diary.** Every handler of the scheduling service reads and
  then writes, with other requests in between. Only the exclusion constraint and
  the transaction of a reschedule are atomic. What is enforced by a read alone
  (the cap, the appointment's status) can be stale by the time of the write.
* **Retries.** A write may be attempted several times at once: the client gives
  up on an attempt, the server does not. The key's reservation, the handler's
  commit and the record of its outcome are separate statements, and the server
  can die between any two.
* **Telling the caller the truth.** The agent must say of every write whether it
  happened, from the errors of a chain of attempts.
* **Turns.** An utterance starts a turn whether or not the last one has ended;
  a staged action must not be committed on a yes that was said to another
  question.
* **Fire-and-forget updates** of the call record, applied in the order they
  arrive; and a hang-up, an end frame, a goodbye and a shutdown that all end the
  same call.
* **Two readings of the same rules.** Availability and booking read the same
  tables through different windows and decide the same question in different
  code.
* **Words.** A phrase for a time means days and hours of a calendar with months
  of different lengths, and moves on as time passes. What the caller says is
  understood from what was last read out to them, and every finished request
  leaves lists, an intent and a choice behind.

* **Who is calling.** A person is known by their number, which comes typed in
  many ways and from several requests at once.

`PROJECT.json` lists these one by one, at their lines, with the properties that
would catch each going wrong.

Properties that make each component correct: *diary* - no double booking, moves
are all or nothing, rows obey the policy, one change per appointment, no fee
unannounced, every request is answered; *availability* - every time offered is
one the write path would take, and none that it would take is hidden;
*idempotency* - at most one effect per key, answers that are true, final and to
a request for the same endpoint with the same body, keys that do not block for
ever; *write path* -
success is real, the caller is told; *conversation* - commit only after a yes in
a later turn to what is staged, escalation after repeated failure;
*receptionist* - what is staged was read out, asked for and is still there;
*time expressions* - the days and hours that the words mean; *call record* -
closed once, as the call ended, and summed up truthfully; *customers* - one record for
each person, found and booked under by their number.

## Modules

### BookingPolicy

The operators of `policy.ts`: intervals, ranges, the ordered refusals of
`validateBookingWindow` and `validateStaffForBooking`, the fee of
`assessCancellation`. Time is counted in whole hours and a day is `DayLength`
of them, so zones and minutes are not modelled; the constants
`ServiceDef`, `StaffDef`, `WeeklyHours`, `Overrides` and `Policy` are the rows
that `loadSchedulingContext` reads. They do not change during a run.

### Diary, SlotLedger

`Diary` is the `appointments` and `customers` tables and the requests being
served. A request is a record of its handler's locals (`staff`, `svc`, `cust`,
`fee`, `now`) with a `stage`, the statement it will execute next; one action is
one statement with the code up to the next `await`:

| Handler | Actions in order |
| --- | --- |
| `bookAppointment` | `Receive`, `PickStaff`, `ResolveCustomer`, `CheckCap`, `InsertBooking`, `ReadBack` |
| `cancelAppointment` | `Receive`, `ReadToCancel`, `CancelRow`, `ReadBack` |
| `rescheduleAppointment` | `Receive`, `ReadToMove`, `PickStaff`, `ReleaseOld`, `TakeNew`, `LinkAndCommit`, `ReadBack` |
| `POST /appointments/:id/status` | `Receive`, `MarkStatus`, `ReadBack` |

`StatementFails` ends any request with a 5xx, `Crash` all of them. The
transaction of a reschedule writes `rows` only when it commits
(`LinkAndCommit`); until then its row lock is `Locked` and its uncommitted
insert is `Pending`, and other statements wait for both as Postgres makes them.
`Against` is `appointments_no_overlap`. A row bears the id of the request that
inserted it.

`SlotLedger` is what the diary promises, without requests or rows: ranges of
stylists' time are taken while free, given back, or exchanged in one step.
`Diary!LedgerSpec` states that the diary implements it, with the rows that
block time as its holds.

### Idempotency

The table `idempotency_keys` (`keys`), the HTTP attempts being served (`att`)
and how often each request's effect has committed (`done`). The actions are
the statements of `withIdempotency`, `inspectExistingKey` and `recordFailure`:
`Reserve`, `Inspect`, `Claim`, `TakeOver`, `Complete`, `RecordFailure`; the
handler is `Commit` and `ReadBack`, or `HandlerThrows`. `Sweep` is the sweeper
and `Tick` lets rows grow older. The constant `Faults` says which failures
occur: handlers that fail without an effect (`transient`) or after it
(`read_back`), statements of the bookkeeping itself that fail, crashes. That a
cancellation that was done is refused the next time, and a booking may be done
again, is left open: the handler may commit or refuse at every execution.
A request is a record of its `endpoint` (the route's template), the `id` in its
path and its `body`; `hashRequest` is of the first and the last, as the code's
is, and so does not tell two appointments apart.

### AgentWrite

`Idempotency` composed with the agent's side of a write (`call`): `CommitAction`
is the executor's `commit`, `Send`, `Hear`, `TimeOut` and `Unreachable` are the
CRM client's attempts, `Retry` its loop and `Tell` the outcome that the executor
records and the agent speaks of. A timed-out attempt goes on in the server.
`AgentWriteProofs` holds the proofs of both: the steps of `Idempotency` are the
server's in `AgentWrite`.

### Conversation

The agent's side of a call, from the caller's words to the moment a write is
sent and from the moment it is answered. `session` is the `CallSession`,
`turns` the turns in progress, which are the locals of `handleUserTurn` and
`handleUtterance`: the round, the tools the model was given, what the round's
calls await, and whether the generation is still the turn's own. A turn gives
way where the code awaits, and each action is what it does in between:

| Code | Action |
| --- | --- |
| `handleUtterance` and `handleUserTurn` up to `llm.complete`, with `invalidateStaleConfirmation` | `Utter` |
| the model answers in words, fails, or repeats itself; `detectStall`, `maybeEscalate` | `Answer` |
| the model calls tools: the gate, each tool up to its `await` | `CallTools` |
| `execute` resumes with the API's answer to a read | `ReadAnswered` |
| `commit` resumes: success, an error worth a retry, a definitive refusal | `WriteSucceeded`, `WriteFailed`, `WriteRefused` |
| the end of a round: the next one, or the reply | `Continue` in these |
| the generation check, `tts.synthesize`, `agent_text` | `Reply`, `Speak` |
| a `barge_in` frame | `BargeIn` |

The tools are taken by what they do: answer from the session (`tell`), ask the
API (`look`, `resolve`), stage an action (`propose`), write it (`commit`),
`callback`, `end`; an input that a tool rejects is `bad`. The eight states in
which the same tools are offered are one, `IN_TALK`. The caller's words are a
yes or not. The model may call whatever it likes, listed or not. `read` and
`refused` are history: whether the reply of the turn that staged an action was
spoken, and which actions the API has refused for good. The payload, the slots
and the candidates are left out: nothing here depends on them.

`ConversationProofs` extends it with the proofs.

### Availability

Extends `Diary`: an enquiry changes nothing, so what `GET /v1/availability`
answers (`Answered`), and what a refused booking offers instead (`InsteadOf`,
the code's `enrichSlotConflict`), are operators on the state of a diary that
other requests are writing. `Starts` and `Offered` are `computeAvailability`
with `candidateStarts`; `Wider` and `Picked` are `findAlternatives`; `Reason` is
`explainEmptyWindow`. The engine's ties between equally loaded stylists, broken
by the order of a list, are left open: `Offered` has every stylist it could be.
`Bookable` is what the booking handlers of `Diary` decide before they write, on
their own reading of the rows, so `OffersAreBookable` and `NothingIsHidden`
compare two pieces of code.

### Receptionist

`Conversation` takes the model for any source of tool calls. `Receptionist` is
the model that the repository ships for use without one, `llm/scripted.ts`,
with what the executor's tools remember and stage. An utterance is the facts
that the source's patterns find in a sentence; `policy` is the source's ordered
rules (`reactTo` for the result of a tool, `Confirming`, `WhichAppointment`,
`WhichService`, `WhichTime`, `Escalated`, and so on to `BareTime`), each of
which has a move or none. `heard` is what the policy finds when it scans the
history of messages backwards: the menu, the appointments and the times last
listed, whether the caller was asked for their details, and the last words for
a change. `Hear` is `handleUserTurn` up to the first tool call, and there is an
action for each tool. A commit succeeds, is refused, or is not answered, in
which case it may have been carried out. The diary holds the caller's appointments
to come, earliest first in a `Listing`; one that is moved is a new one with a new
id, as the API makes it. `Lapse` takes one out behind the call's back: the salon
cancels it, or it begins. What `assertModifiable` refuses is then what is no longer
there (`Target`). Turns follow each other; overlapping ones
are in `Conversation`. `past` is history: what was read out and asked for since
the last change, and what is gone: cancelled, moved, or refused as not to be
changed. `ReceptionistAssumption` says what is not data:
`Menu` lists services of the salon, an `Opening` is a list of times, ids start
at one, and there are more than two tool rounds to a turn (six in the code), so
that a turn can look for times and tell of them. `ReceptionistProofs` extends it
with the proofs.

### TimeExpression

`resolveTimeExpression` on phrases that are already recognised: `Dated` is
`parseDateAnchor` (with `NamedWeekday`, `TheNth`, `MonthDay`), `TimeAnchor` is
`parseTimeAnchor`, `Resolve` puts them together and cuts off what is past. The
calendar is luxon's: months of `MonthLength`, weeks from Monday, a day that a
month lacks runs over into the next. One step says the same phrase again later.
`Date` and `Time` are what the patterns can capture. The properties say what the
words mean in terms of the calendar (the soonest day that is a Friday, the other
side of noon) and not of how it is computed. `TimeExpressionProofs` extends it
with the proofs.

### CallRecord

One phone call from dialling to what the salon is left with: the voice server's
socket handlers and shutdown, the call runner, its requests to the CRM and
their retries, and the two tables they write. Every `await` is a step.

| Code | Action |
| --- | --- |
| `POST /api/calls`, the Twilio stream's start, `startCall` and `loadConfig` | `Dial`, `Opened`, `Loaded`, `LoadFails`, `OpenStream` |
| `utterance`, `barge_in`, `end` and `close` of the socket | `Utter`, `BargeIn`, `EndFrame`, `Hangup` |
| a turn's write, its answer, its reply | `BeginWrite`, `WriteLands`, `WriteAnswered`, `Reply`, `Speak` |
| `CallRunner.end`: close the record, then save the summary | `Closing`, `Closed`, `Summed` |
| the CRM client's attempt fails, or the server serves it | `Fail`, `Serve` |
| `SIGTERM`, the end of the process | `Sigterm`, `Exit` |

`asked` is what the runner has asked for and how each request stands; `wire` is
the attempts the server has yet to serve, in any order and whether or not the
client still waits. A transcript is its length, a summary the outcome it
reports.

### PhoneNumbers, CustomerFile

`PhoneNumbers` is `phone.ts`: a number is its digits and whether a plus comes
first, and `normalizePhone` what is stored of it, or nothing. `CustomerFile` is
the `customers` table with the people behind it: a record is `of` the person who
has its number, which the code has no means of knowing, and `Typing` is how
people write numbers down. `order` is each customer's place by `updated_at`.

| Code | Actions |
| --- | --- |
| `resolveCustomer`, `findOrCreateByPhone` | `TakeBooking`, `Find`, `InsertOrFind` |
| `POST /customers` | `TakeCustomer`, `Create` |
| `PATCH /customers/:id` | `TakeNumber`, `TakeName`, `Renumber`, `Rename`, `Unknown` |
| `CallRunner.start`, `findCustomerByPhone` | `TakeCall`, `Identify`, `LookupFails` |

`Matching` is what `searchCustomers` selects, and `searchCustomers` its first page:
the `Limit` customers (50, unless the request says otherwise) that were updated
last. A lookup that fails is caught by `CallRunner.start`, and the call goes on with
nobody.

### MC modules

`MCDiary`, `MCOffers`, `MCIdempotency`, `MCAgentWrite`, `MCConversation`,
`MCReceptionist`, `MCTimeExpression`, `MCCallRecord` and `MCCustomerFile` define
the small salons, callers, phrases and sets that the configurations use.
Permutations of request ids, of attempts or of names are symmetries where one is
declared: no operator chooses or orders them.

## Runs

| Run | Shows |
| --- | --- |
| `diary_changes` | Three requests of any kind, two at a time, over two stylists with different skills and shifts, statements failing and the server dying at every point: no overlap, atomic moves, every row one a person can honour, fees only when acknowledged, and every step is a step of the ledger. |
| `diary_offers` | Seven enquiries asked in every state of a diary that three requests, two of them moves of one booking, are writing: what is offered can be booked, what can be booked is offered, and every request is answered. |
| `idem_prompt` | Retries that all come before the stale limit, over crashes and failed bookkeeping: at most one effect, true answers, final answers, and answers only to a request for the same endpoint with the same body; one of the pairs of requests differs in the appointment alone. |
| `idem_faults` | Everything that can fail does, takeovers and sweeps included: OK still means done, and no key is blocked for ever. |
| `write_faults` | The agent's whole retry loop over all of these and a line that loses and delays: success is real and the caller is always told something. |
| `conv_turns` | Two turns at a time working on one session, a caller who speaks over the agent, a model that calls any tool: the confirmation gate, the way out of `EXECUTING`, the hand-over to a person, refusals that are not repeated, and the end of every turn. |
| `calls` | One call by page or telephone, any one request failing at every attempt, hang-ups, goodbyes and a deploy at any step: closed once, as it ended, summed up whatever else failed, and never credited with a write that did not happen. |
| `phrases` | Some hundred and twenty phrases at the turns of weeks, months and years: the days and the hours that the words mean, and later never leads back to an earlier window. |
| `reception` | Calls of any length made of twelve things to say, with full diaries, failed and unanswered writes and appointments that are cancelled or begin meanwhile: what is staged was read out, asked for and is not known to be gone, and a yes is never met by the same question. |
| `customers` | Three people whose numbers are typed in five ways, two requests at once: one record for each, bookings under the right one, names kept, everybody found on the first page of a search unless it is full of numbers that end alike, and a caller taken for themselves, for a stranger if not on file or if the lookup failed, and for nobody else unless six digits agree. |
| `diary_modify_race`, `conv_same_turn` | Counterexamples, [below](#where-the-code-and-its-comments-disagree). |

**Bounds.** Three requests, of which two overlap, are enough for two writers to
race for what a third has made (a booking, then two changes of it); in
`diary_offers` all three overlap.
Slots, services and stylists are the fewest for which two requests can want the
same, an adjacent or a buffered-into range. The clock runs two hours: past a
booking's lead time and into its notice window and start. `diary_offers` has
days of six hours with the grid every two, hours that begin and end off the
grid on every other day, and one closed date; its enquiries lie within a day,
span several, ask for a closed date and run past the last day that can be
booked, with and without a stylist, and one is cut off by its limit.
`MaxDaysScanned`, `LookBack` and the other spans are small enough to bite.

Three attempts at a key are a first one, a retry, and one that comes after
either has ended; `StaleAfter` and `Lifetime` lie above `AgeBound` in
`idem_prompt` (no takeover) and below or at it in `idem_faults` (takeovers and
sweeps). `done` counts 0, 1 and 2 for more. `MaxMishaps` bounds crashes and failed
bookkeeping, `MaxRetries` is the code's own, `MaxCommits` is how often the model
calls `commit_pending_action` on one staged action; two of its tries reach the
server, enough for a late one to meet a new one, and the others fail on the line.

In `conv_turns` three utterances stage an action, agree to it and agree
again after it failed, or replace it; two turns at a time are enough for each to
find the other's work where it left its own, and two actions staged for one to
displace the other. `MaxToolRounds` and `EscalateAfter` are 2 for the code's 6
and 3: the last round, the one before it, a failure that does not yet count for
a hand-over and one that does. Parallel calls (`MaxCalls = 2`) are in
`conv_same_turn`, and in the proofs without bound.

In `reception` the call is unbounded: TLC explores every conversation over the
twelve utterances. There are two services, one day, a diary that is full or has
two free times of which one is read out (`SpokenSlotLimit` is 1 for the code's
3), an appointment at the start and room for one more, so that lists of none,
one and two occur; the caller is a customer, one whose lookup failed so that only the
number is known, or withholds their number.
`EscalateAfter` is 2, so a write can fail once and be retried. No turn of this
instance uses up `MaxToolRounds`, which is the code's own. In `calls` one
utterance is enough for a turn to be overtaken by the end of its call, and
`MaxFaulty = 1` lets any one request fail at every attempt, served or not. In
`phrases` the instants are four times of day on thirty days around the ends of
January, February, September and the year. `MCPhrasesAssumption` has TLC confirm
that these phrases are such as the theorems about them assume.

In `customers` the salon and two of the people are British, and the third is an
American whose number ends in the same six digits as one of theirs, and in the
same four as the other's; two requests
are enough for two first bookings to meet, and two names for one to be
overwritten. Every arm of `normalizePhone` is some way of typing a number. A page
holds one customer (`Limit` is 1 for the code's 50), so that the second of two with
numbers that end alike does not fit.

**Fairness.** `diary_offers`: a handler whose statement can run is run by the
event loop (`WF(Step)`), and a statement that waits for a transaction does not
wait for ever: the holder commits, or Postgres' deadlock detection or the pool's
`statement_timeout` (`db/pool.ts`) fails it (`WF(Waiting /\ StatementFails)`).
Nothing says that statements fail otherwise, or that the server crashes.
`idem_faults`: attempts are served, time passes, and clients retry; the sweeper
is not assumed to run. `write_faults`: client and server make progress.
`conv_turns`: what a turn awaits comes (`WF(Step)`): the model within
`LLM_TIMEOUT_MS` and one retry, the API within the CRM client's deadlines, the
speech within the providers' abort signals; each may be an error. `calls`: the
runner goes on when what it awaits is settled (`WF(Resume)`), turns go on, and
the server serves what reaches it; callers, deploys and failures are not
assumed. No strong fairness is assumed anywhere.

Deadlock is checked in every run but `phrases`, which stops at the last instant
of its set: `Quiesced`, `AllTold`, `Silence`, `Settled` and `Goodbyes` are the
states where everything asked for is done, and any other state without a
successor is reported.

**Types.** `TypeOK` is among the checks of `conv_turns` and `calls`, where it
bounds the tool rounds of a turn and the tries of a request. It is proved in
`Diary`, `Idempotency`, `AgentWrite` (`CallTypeOK`), `Conversation`,
`Receptionist` and `CallRecord`; in `CustomerFile` it says what the variables
hold, and `FileInv` of the proofs is stronger where it matters.

## Proofs

`DiaryProofs` proves, for every catalogue, policy, set of requests and inputs,
any number of requests in flight and any run of failures and crashes:

* `TypeCorrect`: `Spec => []TypeOK`
* `NoDoubleBooking`: `Spec => []NoOverlap`
* `MovesAreAtomic`: `Spec => []MoveIsAtomic`
* `DiaryImplementsLedger`: `Spec => LedgerSpec`

The assumptions are those the modules state: `CalendarAssumption`,
`CatalogueAssumption`, `DiaryAssumption`. They say what the database's columns
and the request schemas say of the same data.

`NoOverlap` is not inductive: a commit would break it if the uncommitted insert
of a reschedule clashed with a row. `IndInv` adds what the constraint and the
locks establish. `StagesFit` says what a handler has resolved by each stage
(a stylist before `inserting`, the old row and its customer before
`releasing`), and that no row bears its id before it has written;
`LocksAreExclusive` that one transaction holds a row's lock;
`PendingIsClear` that an uncommitted insert clashes with nothing but the row it
replaces. There is one lemma per action; `LocalStep` and `AnswerStep` cover
the steps that change a handler's locals only, `UpdateStep` those that update
one row in place, and both are reused. The refinement maps each row that blocks
to its range: insertions take, updates give back or (a completed mark on a
cancelled row) take, `LinkAndCommit` exchanges, and all else stutters.

`DiaryProofs` goes on from that invariant to prove `RowsCanBeHonoured`
(`Spec => []RowsAreHonourable`) and `FeesAreAcknowledged`
(`Spec => []FeeWasAcknowledged`). The rules are checked in one statement and the
row is written in another, so neither follows from the step that writes:
`RulesInv` says what a handler has been allowed by each stage (`Vetted`), that
every row is one its request may insert (`Honourable`), and that every fee has a
request that acknowledged it (`Accounts`).

`AvailabilityProofs` proves `OffersCanBeBooked`, `Spec => []OffersAreBookable`,
for every set of enquiries, under two assumptions that it names. `Notice`: a
booking needs some notice (with none, the present instant is offered, and
refused as `BOOKING_IN_PAST`). `ReadingCoversSearch`: the rows that are read
reach as far beyond the search as a service with its buffers, which in the code
is one day before it and two after. The proof follows a start through the
engine: it is in a shift, so the salon is open; what it could clash with was
read; so the booking's own checks, on its own reading, pass. `TypeOK` of the
diary is all it needs of the state.

It also proves the converse, `NothingBookableIsHidden`: `Spec =>
[]NothingIsHidden`. A start that the booking's checks pass is on the grid of a
day that the engine looks at, in a stretch it works out for the stylist, and
clashes with no row that was read; so it is found, and is among the slots unless
`limit` earlier ones are. The last step counts: `FirstOf` keeps the times that
have fewer than `limit` others before them, of a finite set, so a time that is
not kept has `limit` kept ones before it. When the caller names nobody, each start
goes to a stylist with the least load; that there is one needs the table to be
finite (`FiniteTable`, an invariant of its own).
`ScanCoversSearch` is assumed: `MAX_DAYS_SCANNED`, 120 in the code, does not cut
the search short of the days that the salon books ahead. That is so of the
policies that the seeds make (45 and 90 days); the contract allows `maxAdvance`
up to 730, and a search of such a salon over more than 120 days stops early.

`AgentWriteProofs` proves of `Idempotency`, for any requests, keys and attempts:

| Theorem | Property | Assumes |
| --- | --- | --- |
| `TypeCorrect` | `TypeOK` | nothing |
| `OKIsTrue` | `OKMeansDone` | nothing: all faults, takeovers and sweeps included |
| `AtMostOneEffect` | `AtMostOnce` | `Prompt` |
| `AnswersAreSo` | `AnswersAreTrue` | `Prompt` |
| `AnswersAreFinal` | `CompletedIsFinal` | `Prompt` |
| `ReplaysAreOfOneAlike` | `ReplayAnswersOneAlike` | `Prompt` |

`Prompt` says that no key gets as old as the stale limit, and that handlers do
not fail without a 4xx, before or after their commit; crashes and failed
bookkeeping remain. Without it the theorems are false: a takeover after a crash
between commit and record, or a failed read after an insert, runs the handler
again. `ReplaysAreOfOneAlike` says what is so of a key that comes back with another
request: an answer is to a request for the same endpoint with the same body. That
it is to the same request is not so
([below](#where-the-code-and-its-comments-disagree)).

`AtMostOnce` is not inductive: it must be known that nobody else is about to
commit. `IndInv` adds that an attempt that runs the handler holds its key,
alone, in progress (`OwnersHoldTheirKeys`); how many effects there are while it
does (`EffectsFit`: none before its commit, one after); that a completed row
tells the truth (`RowsAreTrue`); and that an answered request's key stays, with
no owner left to change what it says (`AnswersStayTrue`). `OKInv`, which serves
when ownership is lost to takeovers and sweeps, keeps only that an OK in a row
or under way to one is of an effect that committed; effects are never undone.
`ReplayInv` adds that rows bear the hash of the request that they answer, whatever
other requests have that hash.

Of `AgentWrite` it proves `CallTypeCorrect` (`CallTypeOK`) and
`SuccessIsNeverInvented` (`SuccessIsReal`) for `AgentSpec`, with every fault
allowed and for any number of retries, assuming `OwnKeys`: the executor's
`stage` makes a fresh key for each staged action. Every server step satisfies
`OKInv`; `CallsFit` adds that a client that waits, waits for an attempt at its
own action, so that the OK it hears is of that action and not of another.

`ConversationProofs` proves, for any number of turns in progress, any limits and
whatever the model calls, in parallel or not:

| Theorem | Property |
| --- | --- |
| `TypeCorrect` | `TypeOK` |
| `Gate` | `UndisturbedTurnsAsk` |
| `NeverStuckExecuting` | `ExecutingMeansWriting` |
| `PersonOffered` | `StuckCallersReachAPerson` |
| `RefusedStaysRefused` | `RefusedIsNotSentAgain` |

The gate is checked where the tools are listed and the write is sent a model
call later. `IndInv` bridges that: `GateFits` says that a turn alone that was
given `commit_pending_action` still has staged what it was given it for, and
that whatever an earlier turn staged was agreed to; `TurnsFit` that a turn alone
is the only one and the latest; `KeysAreFresh` that what is staged has a key of
its own that nobody has refused. `Sound(t, s, turn)` says what a step must
bring about for the invariant to hold when turn `t` leaves the session `s` and
the locals `turn`. It is shown of each answer and of each round of calls
(`EffectKeeps` for one call, twice), and `ContinueKeeps` shows once that it
suffices for both ways of going on.

`ReceptionistProofs` proves, for any menu, diary, vocabulary and limits and any
number of appointments:

| Theorem | Property |
| --- | --- |
| `ReceptionistTyped` | `TypeOK` |
| `OfferedTimesOnly` | `OnlyTimesReadOut` |
| `GoneStaysGone` | `NoGhosts` |
| `MovesAreAskedFor` | `MoveOnlyOnRequest` |
| `BookedServicesAreNamed` | `BookedWasNamed` |
| `YesGoesAhead` | `YesIsNotAskedAgain` |

What is staged rests on what the session remembers, and that on what the caller
heard or said, so `Sound` says of each part of the session where it comes from:
services were named (`ServicesWereNamed`), a move was asked for
(`MovesWereAskedFor`), ids are of appointments not known to be gone
(`GoneIsGone`), times were read out (`TimesWereRead`, `OffersWereRead`), and a
tool that the policy has called asks for nothing else (`CallIsFounded`). The
rules of `policy` are taken one by one (`ConfirmingIsProper` to
`RequestIsProper`), and put together in `WordsAreProper`. One thing is about
time: the history counts a result as read out when the turn goes on to speak of
it, and in the last round a turn would not. `CallIsInTime` therefore counts
rounds: times are looked for in the first, or in the second when a service had to
be picked before. For that it must be known what the policy does after a failure:
that a search that failed is not made again (`LookedForAgain`).

`CallRecordProofs` proves, for any number of utterances and of failing requests,
of `Spec`, that is, without the fairness of the run:

| Theorem | Property |
| --- | --- |
| `SummariesAreReal` | `SummaryIsReal` |
| `EndedCallsAreRecorded` | `EndedIsRecorded` |
| `CallsAreClosedOnce` | `ClosedOnce` |
| `CallTyped` | `TypeOK` |

The danger is in what is still on the wire, so `RecordInv` says what that may
be. `Honesty`: an outcome told as a success, in the session, in a request, on
the wire or in the summary, is of a write that took place. `OpeningFits`: the
attempt to open the row that the call goes by is not still to be served, for it
would open the row again. `EndFits`: whatever is to close the record, or has
closed it, agrees on one status, and closes no other row. `RecordFits`: what the
runner takes for written was written. Three lemmas carry the actions:
`PlainStep` for those that neither open nor end the call, `PhaseStep` for those
that take it further, `EndingStep` for the first that ends it. `TypeOK` bounds the
counters, and each bound rests on another variable: a transcript is as long as
the utterances heard and the replies spoken (`CountsFit`), and a body holds a
length that the transcript had, on a try that its request is allowed
(`BodiesFit`).

`CustomerFileProofs` proves, for any people, names and requests and any salon:

* `PeopleHaveOneRecord`: `Spec => []OnePersonOneRecord`
* `BookingsFindTheirCustomer`: `Spec => BookedUnderTheirNumber`
* `SearchesFindThem`: `Spec => []SearchFindsThem`
* `CallersAreKnown`: `Spec => CallersAreThemselves`
* `NamesAreKept`: `Spec => NameIsKept`

It assumes of the numbers what telephone companies see to: country codes do not
begin with 0, there are enough digits and not too many (`NumbersAreWhole`), and
numbers of the salon's own country do not begin with 0 or with its code once
these are taken off (`NationalNumbersAreSo`, which is not so in Italy); that
nobody writes the bracketed 0 (`NoBrackets`: [below](#where-the-code-and-its-comments-disagree) is what happens
otherwise); and, for the second theorem, that no
two people share a number (`NumbersAreOwn`). `Canonical` is the lemma about
`normalizePhone` on which the first two rest: every way of typing comes to the one
whole number. `FileInv` says that every number in the file, and every number a
handler is about to write, is whole. A search may take the salon's country for
the caller's, so its number need not be the one on file; but whatever
`normalizePhone` does, it keeps the last six digits, and those are what the search
compares. Whoever it brings up therefore has a number that ends as the one sought
(`MatchesEndSo`), and someone is missing from its page only if as many others that
end alike were updated since (`OnTheFirstPage`). `NamesAreKept` assumes nothing of the numbers: `RowsInv` only says that
a handler that has found a row knows which.

`TimeExpressionProofs` proves, for any phrases and instants, whatever day the
year begins on and however long its months are:

| Theorem | Property | Assumes |
| --- | --- | --- |
| `TimeOnlyAdvances` | `NeverTakenBack` | nothing |
| `DaysAreMeant` | `NamedDayIsMeant` | `DatesExist` |
| `TimesAreMeant` | `TimeOfDayIsMeant` | `HoursWithinTheDay` |

The invariant is plain (`Resolved`: the answer is the resolver's for this
instant), and the work is in the calendar. Days are placed by counting months:
month `k` of all time begins on `MonthStart(k)`, which grows with `k`
(`MonthsInOrder`), so a day is in one month (`MonthIndexIs`), and `MonthsOn` and
`PlusMonths` add to `k` (`MonthsOnIs`, `PlusMonthsIs`). From that follow where each
kind of date lies, that no day before it would do (`TheNthIsSoonest`,
`MonthDayIsSoonest`, `NextWeekdayIs`, `NextMonthDays`), and that none is earlier
when said on a later day (`DatedGrows`), though `PlusMonths` may send the 28th and
the 31st to one day. `DatesExist` leaves out "30 February", which is taken as
2 March. `HoursWithinTheDay` leaves out hours, said of several days, that run over
midnight: of these the property is false, as TLC shows
([below](#where-the-code-and-its-comments-disagree)); of a single day it needs no
assumption.

Only model-checked: liveness (`EveryRequestIsAnswered`, `EveryReservationEnds`,
`CallerIsTold`, `EveryTurnEnds`, `HangUpIsRecorded`), which is outside the
prover's reach, and `ModifiedAtMostOnce`, which is false of concurrent requests.
No module has a recursive operator. `DaysBefore` of `TimeExpression` is a
recursive function on thirteen months, which the proof unfolds; no theorem is
by induction over data.

## Where the code and its comments disagree

* **`diary_modify_race`.** `assertModifiable` refuses a second cancellation or
  move, and a test says so; the status is read without a lock and the later
  `UPDATE` is by id alone. Two requests that both read `booked` both succeed. A
  cancellation that races a move is confirmed while the moved booking stands.
* **`conv_same_turn`.** `session/types.ts` says that a commit needs a later turn
  than the one that staged, so that a model which proposes and commits in one
  turn cannot book what was never read out. The gate holds for the tools as they
  were listed before the model answered. With an earlier action staged and a yes
  said to it, a round with a proposal and `commit_pending_action` stages the new
  action and writes that one. `CommittedWasReadOut` also fails with one call a
  round and `BargeIns = TRUE`: a barge-in drops the reply that held the
  restatement, the action stays staged, and the next yes commits it.

What follows has no run of its own. It was met while translating the code, and
where it says so seen in a counterexample of a run with other constants.

*Customers.* A call looks its caller up by number, and so that customers can be
found by the last six digits, the search matches those as well.
`findCustomerByPhone` takes the first result, which is the one updated last: a
caller whose number ends as a customer's does is greeted by the customer's name
and stands for them in the rest of the call, and of two customers with numbers
that end alike one is taken for the other (`CallersAreThemselves` without its
first disjunct). `ARCHITECTURE.md:463` speaks of "a known number". When the lookup
fails, `callRunner.ts:84` catches it as if the caller were "unrecognised" and goes
on, and a customer on file is taken for a stranger for the rest of the call
(`CallersAreThemselves` without `"LOOKUP_FAILED"`). They are asked for a name as a
new caller is; their appointments are still found, by the number. And
"+44 (0)7700 900123" passes the schema, which says that numbers are accepted "in
whatever shape a human types", and is stored with the 0: a second record for the
same person (`OnePersonOneRecord` with `"bracketed"` in `Ways`).

*Diary and keys.* The per-customer cap is a read, which concurrent bookings all
pass. The request hash is of the endpoint template and the body, so two cancellations of different appointments with equal
bodies and one key have one hash, and the second is answered with the first
one's response: the caller is told that an appointment was cancelled which was
not. `idem_prompt` has such a pair and reaches that answer (`ReplayAnswersOneAlike`
with the `id` compared as well is violated). The comment at
`plugins/idempotency.ts:144` says that replaying the first outcome to a different
request is what the hash prevents. The agent does not run into it: its keys are
fresh for each staged action (`OwnKeys`). `bookAppointment` reads the new row
back after the insert; if that statement fails, the 5xx releases the key and the
retry books again (`idem_prompt` with `"read_back"` in `Faults`). A server that
dies after the commit and before recording it leaves a key whose takeover runs
the request again (`idem_faults` with `AnswersAreTrue`). `Claim`'s `ON CONFLICT DO
UPDATE` takes over a live reservation. The executor judges a failed write by the
last error only: a timeout followed by `IDEMPOTENCY_REQUEST_IN_PROGRESS` is told
as "did not happen", and the first attempt may still commit.
`contracts/src/appointment.ts` promises that a first-time caller's record is made
in the transaction of their booking; `ResolveCustomer` commits it before, on its
own.

*Availability.* `explainEmptyWindow` blames the weekday also when special hours
opened that date and it is full. `enrichSlotConflict` offers any stylist's times
when one was named, and, like an availability check made for a move, counts the
appointment being moved as busy. `includeAlternatives` is coerced with
`z.coerce.boolean`, which makes `"false"` true.

*Time expressions.* "The 31st" of a month of 30 days is the first of the next
one; said on 31 January, "the 30th" is 1 or 2 March, and 29 February or
31 September run over likewise (`NamedDayIsMeant` speaks of days up to the
28th). "At" or "around 11pm" wraps past midnight, and its window is empty, so it
is not understood at all; with words for several days it is not empty, and "this
week at 11pm" lasts until half past midnight of the week's last day
(`TimeOfDayIsMeant` with such a phrase in `Phrases`). "At three" said at twenty past is what is left of
today's window. "Quarter to seven" is in the morning. By reading of the patterns,
which are not modelled: "3.30pm" never parses and "at 3 on 4 october" loses its
date.

*Conversation.* A reply that is interrupted while it is synthesized is spoken all
the same (`Speak` has no guard); once a person has been offered, `maybeEscalate`
and the stall guard never offer one again, even when the caller has gone back to
other business. `guards.ts`, which is not modelled, holds back a true
confirmation after an earlier write failed.

*Receptionist.* When `EscalateAfter` commits in a row go unanswered,
`maybeEscalate` offers a person with the action still staged; commits are not to
be had in that state, so each yes gets "shall I go ahead with that?"
(`YesIsNotAskedAgain` without its exception; `definitions.ts:285` says this was
put right). In that state, and with two appointments listed, "bye" does not end
the call. An appointment that was settled on, or listed alone, earlier in the
call is proposed for cancellation without asking which; a word for cancelling
from an abandoned request makes a later "the first one" a cancellation. By
reading: slots offered for one service stay to be picked for another that is
named next; a caller without a number goes round `NEED_CUSTOMER_DETAILS` with no
person offered; "eleven please" takes the first slot.

*Customers.* The search is by the last six digits because callers read out no
more, and `PhoneInputSchema` refuses fewer than seven characters. An Italian
salon's numbers, which keep their 0 after the country code, lose it when typed
without one. `findOrCreateByPhone` is described as a single statement and is
two; the second makes good for what comes in between.

*Call record.* `server.ts:247` says "Never lose a call record to a deploy."; only
calls in `activeCalls` at `SIGTERM` are waited for, and one that is being opened,
or whose end has begun, is left open when the process goes (hence `~Running` in
`HangUpIsRecorded` and `Running` in `EndedIsRecorded`). `startCall` is retried
without a key, so a lost answer leaves a second row open for ever. A progress
update that is served late overwrites the final summary. A callback number that
is not a phone number makes the whole summary invalid. On the telephone, a start
that fails is a rejection that nothing catches, and a caller who hangs up before
the runner exists leaves a call that nobody ends.

## What is not modelled

* *Diary*: time zones, minutes (hours only) and changes of the clocks; lists,
  searches and serializers; several salons (every query is scoped to one);
  prices beyond the late fee.
* *Settings*: services, staff, hours and policy do not change while requests
  run. `loadSchedulingContext` reads them in separate statements, and two
  concurrent changes of a stylist's roster can leave the union of both.
* *Conversation, Receptionist*: the wording of replies and the guard on it, the
  intents filed for the record, staff ids, prices and labels; the text patterns
  (an utterance is what they find in it).
* *Time expressions*: the text patterns, the spoken interpretation, leap years
  and changes of the clocks.
* *Call record*: the routes that read calls, the wording of the narration, a call
  that begins while others are drained at shutdown. "Failed" stands for
  "unknown" as well, which the summary does not tell apart.
* *Customers*: surnames, e-mail, notes and who may read them; the list and the
  search by name; how a number is masked or read out.
* *Authentication, migrations and seed, the web interface, the
  speech providers, the Anthropic adapter* have no module: their reasons are in
  `PROJECT.json`.

## Plan

Done: everything in [modules](#modules). What would add most next:

1. The gate as an abstract specification of its own (an action is staged, read
   back, agreed to, and only then sent) that `Conversation` implements when one
   call is made at a time and nothing is spoken over, and the composition of
   `Conversation` with `AgentWrite` through the staged action's key.
2. `Settings`: `loadSchedulingContext` against concurrent replacements of hours
   and rosters; `KeyCache`: revocation within the cache's lifetime.
3. Proofs: the refinements that these would bring, and that a write of
   `Conversation` is told as it went, with the invariants of `AgentWrite`.
