----------------------------- MODULE Idempotency -----------------------------
(***************************************************************************)
(* Idempotency keys: the table idempotency_keys and withIdempotency, which *)
(* wraps every state-changing endpoint of apps/api.                        *)
(*                                                                         *)
(* An attempt is one HTTP request.  Its key is reserved in a statement that*)
(* commits at once, then its handler runs, then the outcome is recorded;   *)
(* other attempts with the same key, the sweeper, a failed statement or a  *)
(* crash may come between any two of these.  The handler is abstract: it   *)
(* commits its effect, or refuses with a 4xx, or fails without an effect.  *)
(***************************************************************************)
EXTENDS Integers, FiniteSets

CONSTANTS
  Requests,    \* what clients ask for, each with its own business effect: records
               \* with an endpoint (its template), the id in the path and a body
  Keys,        \* idempotency keys
  KeyOf,       \* the key a request is sent with
  Attempts,    \* bound: the attempts the server works on at once
  StaleAfter,  \* the age at which a reservation may be taken over
  Lifetime,    \* the age at which a key expires
  AgeBound,    \* bound: ages are counted up to here
  MaxMishaps,  \* bound: crashes and bookkeeping statements that fail
  Faults,      \* what may go wrong: a subset of FaultKinds
  None

FaultKinds == {"transient",    \* a handler fails without an effect
               "read_back",    \* a handler fails after its effect committed
               "bookkeeping",  \* a statement of withIdempotency fails
               "crash"}        \* the server dies and restarts

ASSUME IdempotencyAssumption ==
  /\ KeyOf \in [Requests -> Keys]
  /\ StaleAfter \in Nat \ {0} /\ Lifetime \in Nat \ {0}
  /\ AgeBound \in Nat /\ MaxMishaps \in Nat
  /\ Faults \subseteq FaultKinds
  /\ None \notin Requests

VARIABLES
  keys,    \* idempotency_keys, a partial function on Keys
  att,     \* the attempts, a partial function on Attempts; an attempt that is
           \* done stays until its place is taken by another
  done,    \* how often the effect of each request committed: 0, 1, or 2 for more
  mishaps  \* how many crashes and failed bookkeeping statements there were

vars == <<keys, att, done, mishaps>>

\* A response body answers one request: it says what was done, or why not.
Response == [of : Requests, code : {"OK", "REFUSED"}]
NoResponse == [of |-> None, code |-> "none"]

\* The SHA-256, collisions aside, of the method with the endpoint's template and
\* of the body.  The id in the path is not in it.
hashRequest(r) == <<r.endpoint, r.body>>

KeyRow == [hash : {hashRequest(r) : r \in Requests}, status : {"in_progress", "completed"},
           response : Response \cup {NoResponse}, age : 0..AgeBound, life : 0..AgeBound]

Replies == Response \cup
  [of : {None}, code : {"none", "KEY_REUSED", "IN_PROGRESS", "FAILED", "LOST"}]

Working == {"reserving", "inspecting", "claiming", "taking_over", "running",
            "committed", "completing", "refusing", "releasing"}

Attempt == [of : Requests, stage : Working \cup {"done"}, reply : Replies]

-----------------------------------------------------------------------------
(* Helpers *)

InFlight == {a \in DOMAIN att : att[a].stage # "done"}

At(a, stage) == a \in DOMAIN att /\ att[a].stage = stage

Of(a)   == att[a].of
Key(a)  == KeyOf[att[a].of]
Hash(a) == hashRequest(att[a].of)

Goto(a, stage) == att' = [att EXCEPT ![a].stage = stage]

Answer(a, of, code) ==
  att' = [att EXCEPT ![a].stage = "done", ![a].reply = [of |-> of, code |-> code]]

Put(k, row) == keys' = [j \in DOMAIN keys \cup {k} |-> IF j = k THEN row ELSE keys[j]]
Drop(S)     == keys' = [j \in DOMAIN keys \ S |-> keys[j]]

FreshRow(a) == [hash |-> Hash(a), status |-> "in_progress", response |-> NoResponse,
                age |-> 0, life |-> 0]

\* UPDATE ... SET status = 'completed', by key alone; no row, no update.
Record(k, of, code) ==
  keys' = [j \in DOMAIN keys |->
             IF j = k THEN [keys[j] EXCEPT !.status = "completed", !.age = 0,
                                           !.response = [of |-> of, code |-> code]]
             ELSE keys[j]]

-----------------------------------------------------------------------------
(* withIdempotency *)

Arrive(a, r) ==
  /\ a \notin InFlight
  /\ att' = [b \in DOMAIN att \cup {a} |->
               IF b = a THEN [of |-> r, stage |-> "reserving",
                              reply |-> [of |-> None, code |-> "none"]]
               ELSE att[b]]
  /\ UNCHANGED <<keys, done, mishaps>>

\* Mutants of Reserve: a retry does not see the reservation, as if it were made
\* inside the handler's own transaction; the INSERT is ON CONFLICT DO UPDATE.
ReserveUnseen(a) ==
  /\ At(a, "reserving")
  /\ IF Key(a) \in DOMAIN keys /\ keys[Key(a)].status = "completed"
     THEN Goto(a, "inspecting") /\ UNCHANGED keys
     ELSE Put(Key(a), FreshRow(a)) /\ Goto(a, "running")
  /\ UNCHANGED <<done, mishaps>>
ReserveOverwriting(a) ==
  /\ At(a, "reserving")
  /\ Put(Key(a), FreshRow(a))
  /\ Goto(a, "running")
  /\ UNCHANGED <<done, mishaps>>

\* INSERT ... ON CONFLICT DO NOTHING, committed at once.
Reserve(a) ==
  /\ At(a, "reserving")
  /\ \/ /\ Key(a) \notin DOMAIN keys
        /\ Put(Key(a), FreshRow(a))
        /\ Goto(a, "running")
     \/ /\ Key(a) \in DOMAIN keys
        /\ Goto(a, "inspecting")
        /\ UNCHANGED keys
  /\ UNCHANGED <<done, mishaps>>

\* Mutant of Inspect: the request hash is not compared.
InspectUnhashed(a) ==
  /\ At(a, "inspecting")
  /\ IF Key(a) \notin DOMAIN keys THEN Goto(a, "claiming")
     ELSE IF keys[Key(a)].status = "completed"
     THEN Answer(a, keys[Key(a)].response.of, keys[Key(a)].response.code)
     ELSE Goto(a, "taking_over")
  /\ UNCHANGED <<keys, done, mishaps>>

\* The SELECT of inspectExistingKey, and what it decides.
Inspect(a) ==
  /\ At(a, "inspecting")
  /\ LET k == Key(a) IN
     \/ k \notin DOMAIN keys /\ Goto(a, "claiming")
     \/ k \in DOMAIN keys /\ keys[k].hash # Hash(a) /\ Answer(a, None, "KEY_REUSED")
     \/ /\ k \in DOMAIN keys /\ keys[k].hash = Hash(a) /\ keys[k].status = "completed"
        /\ Answer(a, keys[k].response.of, keys[k].response.code)
     \/ /\ k \in DOMAIN keys /\ keys[k].hash = Hash(a) /\ keys[k].status = "in_progress"
        /\ Goto(a, "taking_over")
  /\ UNCHANGED <<keys, done, mishaps>>

\* The key was gone: INSERT ... ON CONFLICT DO UPDATE, whoever holds it by now.
Claim(a) ==
  /\ At(a, "claiming")
  /\ Put(Key(a), IF Key(a) \in DOMAIN keys
                 THEN [keys[Key(a)] EXCEPT !.status = "in_progress", !.age = 0]
                 ELSE FreshRow(a))
  /\ Goto(a, "running")
  /\ UNCHANGED <<done, mishaps>>

Stale(k) == k \in DOMAIN keys /\ keys[k].status = "in_progress" /\ keys[k].age >= StaleAfter

\* Mutant of TakeOver: every retry refreshes the reservation it finds.
TakeOverRefreshing(a) ==
  /\ At(a, "taking_over")
  /\ Key(a) \in DOMAIN keys
  /\ keys' = [keys EXCEPT ![Key(a)].age = 0]
  /\ IF Stale(Key(a)) THEN Goto(a, "running") ELSE Answer(a, None, "IN_PROGRESS")
  /\ UNCHANGED <<done, mishaps>>

\* UPDATE ... WHERE in progress AND updated_at before the stale limit.
TakeOver(a) ==
  /\ At(a, "taking_over")
  /\ \/ /\ Stale(Key(a))
        /\ keys' = [keys EXCEPT ![Key(a)].age = 0]
        /\ Goto(a, "running")
     \/ /\ ~Stale(Key(a))
        /\ Answer(a, None, "IN_PROGRESS")
        /\ UNCHANGED keys
  /\ UNCHANGED <<done, mishaps>>

\* The handler commits its effect; then reads it back to answer.
Commit(a) ==
  /\ At(a, "running")
  /\ done' = [done EXCEPT ![Of(a)] = IF @ = 0 THEN 1 ELSE 2]
  /\ Goto(a, "committed")
  /\ UNCHANGED <<keys, mishaps>>

ReadBack(a) ==
  /\ At(a, "committed")
  /\ \/ Goto(a, "completing")
     \/ "read_back" \in Faults /\ Goto(a, "releasing")
  /\ UNCHANGED <<keys, done, mishaps>>

\* Mutant of HandlerThrows: the handler's refusal is taken for its result.
HandlerThrowsUnnoticed(a) ==
  /\ At(a, "running")
  /\ Goto(a, "completing")
  /\ UNCHANGED <<keys, done, mishaps>>

\* The handler throws a 4xx, or anything else.
HandlerThrows(a) ==
  /\ At(a, "running")
  /\ \/ Goto(a, "refusing")
     \/ "transient" \in Faults /\ Goto(a, "releasing")
  /\ UNCHANGED <<keys, done, mishaps>>

Complete(a) ==
  /\ At(a, "completing")
  /\ Record(Key(a), Of(a), "OK")
  /\ Answer(a, Of(a), "OK")
  /\ UNCHANGED <<done, mishaps>>

\* Mutant of RecordFailure: refusals are released like any other failure.
RecordFailureForgets(a) ==
  /\ \/ At(a, "refusing") /\ Answer(a, Of(a), "REFUSED")
     \/ At(a, "releasing") /\ Answer(a, None, "FAILED")
  /\ Drop({Key(a)})
  /\ UNCHANGED <<done, mishaps>>

\* recordFailure: a refusal is stored, anything else releases the key.
RecordFailure(a) ==
  /\ \/ At(a, "refusing") /\ Record(Key(a), Of(a), "REFUSED") /\ Answer(a, Of(a), "REFUSED")
     \/ At(a, "releasing") /\ Drop({Key(a)}) /\ Answer(a, None, "FAILED")
  /\ UNCHANGED <<done, mishaps>>

-----------------------------------------------------------------------------
(* The environment *)

\* A statement of withIdempotency fails.  The request fails with it, except
\* that recordFailure swallows the error and the handler's own is thrown.
BookkeepingFails(a) ==
  /\ "bookkeeping" \in Faults /\ mishaps < MaxMishaps
  /\ \/ /\ \E stage \in {"reserving", "inspecting", "claiming", "taking_over",
                         "completing", "releasing"} : At(a, stage)
        /\ Answer(a, None, "FAILED")
     \/ /\ At(a, "refusing")
        /\ Answer(a, Of(a), "REFUSED")
  /\ mishaps' = mishaps + 1
  /\ UNCHANGED <<keys, done>>

Crash ==
  /\ "crash" \in Faults /\ mishaps < MaxMishaps
  /\ InFlight # {}
  /\ att' = [a \in DOMAIN att |->
               IF a \in InFlight
               THEN [att[a] EXCEPT !.stage = "done", !.reply = [of |-> None, code |-> "LOST"]]
               ELSE att[a]]
  /\ mishaps' = mishaps + 1
  /\ UNCHANGED <<keys, done>>

\* startIdempotencySweeper, whenever its timer fires.
Sweep ==
  /\ \E k \in DOMAIN keys : keys[k].life >= Lifetime
  /\ Drop({k \in DOMAIN keys : keys[k].life >= Lifetime})
  /\ UNCHANGED <<att, done, mishaps>>

Older(n) == IF n < AgeBound THEN n + 1 ELSE n

Tick ==
  /\ \E k \in DOMAIN keys : keys[k].age < AgeBound \/ keys[k].life < AgeBound
  /\ keys' = [k \in DOMAIN keys |->
                [keys[k] EXCEPT !.age = Older(@), !.life = Older(@)]]
  /\ UNCHANGED <<att, done, mishaps>>

-----------------------------------------------------------------------------
(* The specification *)

Init ==
  /\ keys = [k \in {} |-> None]
  /\ att = [a \in {} |-> None]
  /\ done = [r \in Requests |-> 0]
  /\ mishaps = 0

Step(a) ==
  \/ Reserve(a) \/ Inspect(a) \/ Claim(a) \/ TakeOver(a)
  \/ Commit(a) \/ ReadBack(a) \/ HandlerThrows(a)
  \/ Complete(a) \/ RecordFailure(a)

Server ==
  \/ \E a \in Attempts : Step(a) \/ BookkeepingFails(a)
  \/ Crash \/ Sweep \/ Tick

Next == (\E a \in Attempts, r \in Requests : Arrive(a, r)) \/ Server

Spec == Init /\ [][Next]_vars

\* Attempts are served, time passes, and clients keep retrying.
Fairness ==
  /\ \A a \in Attempts : WF_vars(Step(a))
  /\ WF_vars(Tick)
  /\ \A r \in Requests : WF_vars(\E a \in Attempts : Arrive(a, r))

FairSpec == Spec /\ Fairness

-----------------------------------------------------------------------------
(* Properties *)

\* The table, the attempts and the effects have their types.
TypeOK ==
  /\ DOMAIN keys \subseteq Keys /\ keys \in [DOMAIN keys -> KeyRow]
  /\ DOMAIN att \subseteq Attempts /\ att \in [DOMAIN att -> Attempt]
  /\ done \in [Requests -> 0..2]
  /\ mishaps \in 0..MaxMishaps

\* A request takes effect at most once, however often it is retried with its
\* key: "with a key, the retry replays the original response instead".
AtMostOnce == \A r \in Requests : done[r] <= 1

\* An answer that a request was done, or refused, is the truth of the request
\* that it names, and goes on being so: a replay does not hide that another
\* attempt, before or after, fared differently.
AnswersAreTrue ==
  \A a \in DOMAIN att :
    /\ att[a].reply.code = "OK" => done[att[a].reply.of] = 1
    /\ att[a].reply.code = "REFUSED" => done[att[a].reply.of] = 0

\* A key that comes back with another request is not answered with the outcome
\* of the first, as far as the code can tell the two apart: an answer is to a
\* request for the same endpoint with the same body.  It need not be for the same
\* appointment, which is in the path.
ReplayAnswersOneAlike ==
  \A a \in DOMAIN att : att[a].reply.code \in {"OK", "REFUSED"} =>
    LET asked    == Of(a)
        answered == att[a].reply.of
    IN  asked.endpoint = answered.endpoint /\ asked.body = answered.body

\* What a key has answered it answers until it expires.
CompletedIsFinal ==
  [][\A k \in DOMAIN keys : keys[k].status = "completed" =>
       \/ /\ k \in DOMAIN keys'
          /\ keys'[k].status = "completed" /\ keys'[k].response = keys[k].response
       \/ k \notin DOMAIN keys' /\ keys[k].life >= Lifetime]_vars

\* An answer that a request was done is true of the request that it names,
\* whatever else failed and however often its key changed hands.
OKMeansDone ==
  \A a \in DOMAIN att : att[a].reply.code = "OK" => done[att[a].reply.of] > 0

Reserved(k) == k \in DOMAIN keys /\ keys[k].status = "in_progress"

\* A reservation whose owner died does not block its key for ever: as long as
\* time passes and retries come, one of them takes it over and ends it.
EveryReservationEnds == \A k \in Keys : Reserved(k) ~> ~Reserved(k)

-----------------------------------------------------------------------------
(* Strengthenings of these for the proofs *)

\* Retries come before a key is stale or expires, and a handler that fails
\* without a 4xx has not committed and does not release its key.
Prompt ==
  /\ AgeBound < StaleAfter /\ AgeBound < Lifetime
  /\ Faults \subseteq {"bookkeeping", "crash"}

\* The attempts that run the handler, or record what it did.
Owner(a) == a \in DOMAIN att /\ att[a].stage \in {"running", "committed", "completing", "refusing"}

Answered(a) == att[a].reply.code \in {"OK", "REFUSED"}

\* What a response says of its request is so.
TrueOf(p) == (p.code = "OK" => done[p.of] = 1) /\ (p.code = "REFUSED" => done[p.of] = 0)

\* No reservation is lost, so none is claimed.
StagesFit ==
  \A a \in DOMAIN att :
    /\ att[a].stage \notin {"claiming", "releasing"}
    /\ att[a].stage \in {"inspecting", "taking_over"} => Key(a) \in DOMAIN keys

OwnersHoldTheirKeys ==
  \A a \in DOMAIN att : Owner(a) =>
    /\ Reserved(Key(a))
    /\ \A b \in DOMAIN att : Owner(b) /\ Key(a) = Key(b) => a = b

\* An effect leaves its key in the table; while the key's owner runs there is
\* none yet, and once the owner has committed there is exactly its own.
EffectsFit ==
  /\ \A r \in Requests : done[r] > 0 => KeyOf[r] \in DOMAIN keys
  /\ \A a \in DOMAIN att :
       /\ att[a].stage \in {"running", "refusing"} =>
            \A r \in Requests : KeyOf[r] = Key(a) => done[r] = 0
       /\ att[a].stage \in {"committed", "completing"} => done[Of(a)] = 1

RowsAreTrue ==
  \A k \in DOMAIN keys : keys[k].status = "completed" =>
    /\ keys[k].response \in Response
    /\ KeyOf[keys[k].response.of] = k
    /\ TrueOf(keys[k].response)

\* An answer is true, and no attempt runs that could make it false.
AnswersStayTrue ==
  \A a \in DOMAIN att : Answered(a) =>
    /\ TrueOf(att[a].reply)
    /\ KeyOf[att[a].reply.of] \in DOMAIN keys
    /\ \A b \in DOMAIN att : Owner(b) => Key(b) # KeyOf[att[a].reply.of]

IndInv ==
  /\ TypeOK /\ StagesFit /\ OwnersHoldTheirKeys /\ EffectsFit
  /\ AtMostOnce /\ RowsAreTrue /\ AnswersStayTrue

AnswersBearTheHash ==
  \A a \in DOMAIN att : Answered(a) => hashRequest(att[a].reply.of) = Hash(a)

\* With IndInv, the strengthening of ReplayAnswersOneAlike: a row bears the hash
\* of the request that holds it, and of the one it answers.
ReplayInv ==
  /\ AnswersBearTheHash
  /\ \A a \in DOMAIN att : Owner(a) => keys[Key(a)].hash = Hash(a)
  /\ \A k \in DOMAIN keys :
       keys[k].status = "completed" => keys[k].hash = hashRequest(keys[k].response.of)

\* The inductive strengthening of OKMeansDone, whatever fails.
OKInv ==
  /\ TypeOK /\ OKMeansDone
  /\ \A a \in DOMAIN att :
       /\ att[a].reply.code = "OK" => KeyOf[att[a].reply.of] = Key(a)
       /\ att[a].stage \in {"committed", "completing"} => done[Of(a)] > 0
  /\ \A k \in DOMAIN keys : keys[k].response.code = "OK" =>
       done[keys[k].response.of] > 0 /\ KeyOf[keys[k].response.of] = k
=============================================================================
