--------------------------- MODULE AgentWriteProofs ---------------------------
(***************************************************************************)
(* Theorems about a keyed write, from both ends.                           *)
(*                                                                         *)
(* Of the server (Idempotency), for every set of requests, keys, attempts  *)
(* and faults: types, and that OK means done, hold whatever fails; at most *)
(* one effect per request, true answers and final answers hold while       *)
(* retries are Prompt.                                                     *)
(*                                                                         *)
(* Of the client (AgentWrite), for every number of tries and commits and   *)
(* whatever fails: it keeps its type, and a caller who is told that a      *)
(* write succeeded has what they asked for.                                *)
(***************************************************************************)
EXTENDS AgentWrite, TLAPS


-----------------------------------------------------------------------------
(* What the helpers do *)

\* Goto changes the stage of one attempt.
LEMMA GotoEffect ==
  ASSUME TypeOK, NEW a \in DOMAIN att, NEW s \in Working, Goto(a, s)
  PROVE  /\ DOMAIN att' = DOMAIN att
         /\ att' \in [DOMAIN att -> Attempt]
         /\ att'[a].stage = s /\ att'[a].of = att[a].of /\ att'[a].reply = att[a].reply
         /\ \A b \in DOMAIN att : b # a => att'[b] = att[b]
  BY DEF Goto, TypeOK, Attempt

\* Answer ends one attempt with a reply.
LEMMA AnswerEffect ==
  ASSUME TypeOK, NEW a \in DOMAIN att, NEW of, NEW code,
         [of |-> of, code |-> code] \in Replies, Answer(a, of, code)
  PROVE  /\ DOMAIN att' = DOMAIN att
         /\ att' \in [DOMAIN att -> Attempt]
         /\ att'[a].stage = "done" /\ att'[a].of = att[a].of
         /\ att'[a].reply = [of |-> of, code |-> code]
         /\ \A b \in DOMAIN att : b # a => att'[b] = att[b]
  BY DEF Answer, TypeOK, Attempt

\* Put sets the row of one key.
LEMMA PutEffect ==
  ASSUME TypeOK, NEW k \in Keys, NEW row \in KeyRow, Put(k, row)
  PROVE  /\ DOMAIN keys' = DOMAIN keys \cup {k}
         /\ DOMAIN keys' \subseteq Keys /\ keys' \in [DOMAIN keys' -> KeyRow]
         /\ keys'[k] = row
         /\ \A j \in DOMAIN keys : j # k => keys'[j] = keys[j]
  BY DEF Put, TypeOK

\* Drop removes the rows of some keys.
LEMMA DropEffect ==
  ASSUME TypeOK, NEW S, Drop(S)
  PROVE  /\ DOMAIN keys' = DOMAIN keys \ S
         /\ DOMAIN keys' \subseteq Keys /\ keys' \in [DOMAIN keys' -> KeyRow]
         /\ \A j \in DOMAIN keys' : keys'[j] = keys[j]
  BY DEF Drop, TypeOK

\* Record completes the row of one key, if there is one.
LEMMA RecordEffect ==
  ASSUME TypeOK, NEW k, NEW of \in Requests, NEW code \in {"OK", "REFUSED"},
         Record(k, of, code)
  PROVE  /\ DOMAIN keys' = DOMAIN keys
         /\ keys' \in [DOMAIN keys -> KeyRow]
         /\ k \in DOMAIN keys =>
              keys'[k].status = "completed" /\ keys'[k].response = [of |-> of, code |-> code]
         /\ \A j \in DOMAIN keys : j # k => keys'[j] = keys[j]
  <1>1. [of |-> of, code |-> code] \in Response
    BY DEF Response
  <1>2. 0 \in 0..AgeBound
    BY IdempotencyAssumption
  <1> DEFINE response == [of |-> of, code |-> code]
             Recorded(row) == [row EXCEPT !.status = "completed", !.age = 0,
                                          !.response = response]
  <1>3. keys' = [j \in DOMAIN keys |-> IF j = k THEN Recorded(keys[j]) ELSE keys[j]]
    BY DEF Record
  <1>4. ASSUME NEW row \in KeyRow
        PROVE  /\ Recorded(row) \in KeyRow /\ Recorded(row).status = "completed"
               /\ Recorded(row).response = response
    BY <1>1, <1>2 DEF KeyRow
  <1>5. \A j \in DOMAIN keys : keys[j] \in KeyRow
    BY DEF TypeOK
  <1> HIDE DEF response, Recorded
  <1>6. QED
    BY <1>3, <1>4, <1>5 DEF response

\* An attempt has a request, a key and a hash.
LEMMA AttemptFields ==
  ASSUME TypeOK, NEW a \in DOMAIN att
  PROVE  /\ att[a] \in Attempt /\ Of(a) \in Requests /\ Key(a) \in Keys
         /\ FreshRow(a) \in KeyRow
  <1>1. att[a] \in Attempt /\ Of(a) \in Requests
    BY DEF TypeOK, Attempt, Of
  <1>2. Key(a) \in Keys
    BY <1>1, IdempotencyAssumption DEF Key, Of
  <1>3. 0 \in 0..AgeBound
    BY IdempotencyAssumption
  <1>4. QED
    BY <1>1, <1>2, <1>3 DEF FreshRow, KeyRow, Hash, Of

-----------------------------------------------------------------------------
(* Types *)

\* No step of an attempt leaves the types.
LEMMA StepType ==
  ASSUME TypeOK, NEW a \in Attempts, Step(a)
  PROVE  TypeOK'
  <1>1. a \in DOMAIN att /\ mishaps' = mishaps
    BY DEF Step, At, Reserve, Inspect, Claim, TakeOver, Commit, ReadBack, HandlerThrows,
           Complete, RecordFailure
  <1>2. att[a] \in Attempt /\ Of(a) \in Requests /\ Key(a) \in Keys /\ FreshRow(a) \in KeyRow
    BY <1>1, AttemptFields
  <1>3. \A c \in {"KEY_REUSED", "IN_PROGRESS", "FAILED"} : [of |-> None, code |-> c] \in Replies
    BY DEF Replies
  <1>4. \A c \in {"OK", "REFUSED"} : [of |-> Of(a), code |-> c] \in Replies
    BY <1>2 DEF Replies, Response
  <1>5. 0 \in 0..AgeBound
    BY IdempotencyAssumption
  <1>6. CASE Reserve(a)
    <2>1. CASE Put(Key(a), FreshRow(a)) /\ Goto(a, "running")
      BY <1>1, <1>2, <1>6, <2>1, PutEffect, GotoEffect DEF Reserve, TypeOK, Working
    <2>2. CASE Goto(a, "inspecting") /\ UNCHANGED keys
      BY <1>1, <1>6, <2>2, GotoEffect DEF Reserve, TypeOK, Working
    <2>3. QED
      BY <1>6, <2>1, <2>2 DEF Reserve
  <1>7. CASE Inspect(a)
    <2>1. CASE Key(a) \in DOMAIN keys /\
               Answer(a, keys[Key(a)].response.of, keys[Key(a)].response.code)
      <3>1. keys[Key(a)].response \in Response \cup {NoResponse}
        BY <2>1 DEF TypeOK, KeyRow
      <3>2. [of |-> keys[Key(a)].response.of, code |-> keys[Key(a)].response.code] \in Replies
        BY <3>1 DEF Response, NoResponse, Replies
      <3>3. QED
        BY <1>1, <1>7, <2>1, <3>2, AnswerEffect DEF Inspect, TypeOK
    <2>2. CASE Answer(a, None, "KEY_REUSED")
      BY <1>1, <1>3, <1>7, <2>2, AnswerEffect DEF Inspect, TypeOK
    <2>3. CASE Goto(a, "claiming") \/ Goto(a, "taking_over")
      BY <1>1, <1>7, <2>3, GotoEffect DEF Inspect, TypeOK, Working
    <2>4. QED
      BY <1>7, <2>1, <2>2, <2>3 DEF Inspect
  <1>8. CASE Claim(a)
    <2> DEFINE row == IF Key(a) \in DOMAIN keys
                      THEN [keys[Key(a)] EXCEPT !.status = "in_progress", !.age = 0]
                      ELSE FreshRow(a)
    <2>1. row \in KeyRow
      BY <1>2, <1>5 DEF TypeOK, KeyRow
    <2>2. Put(Key(a), row) /\ Goto(a, "running")
      BY <1>8 DEF Claim
    <2> HIDE DEF row
    <2>3. QED
      BY <1>1, <1>2, <1>8, <2>1, <2>2, PutEffect, GotoEffect DEF Claim, TypeOK, Working
  <1>9. CASE TakeOver(a)
    <2>1. CASE Stale(Key(a)) /\ keys' = [keys EXCEPT ![Key(a)].age = 0] /\ Goto(a, "running")
      <3>1. keys' \in [DOMAIN keys -> KeyRow]
        BY <1>5, <2>1 DEF Stale, TypeOK, KeyRow
      <3>2. QED
        BY <1>1, <1>9, <2>1, <3>1, GotoEffect DEF TakeOver, TypeOK, Working
    <2>2. CASE Answer(a, None, "IN_PROGRESS") /\ UNCHANGED keys
      BY <1>1, <1>3, <1>9, <2>2, AnswerEffect DEF TakeOver, TypeOK
    <2>3. QED
      BY <1>9, <2>1, <2>2 DEF TakeOver
  <1>10. CASE Commit(a)
    <2>1. done' \in [Requests -> 0..2]
      BY <1>2, <1>10 DEF Commit, TypeOK
    <2>2. QED
      BY <1>1, <1>10, <2>1, GotoEffect DEF Commit, TypeOK, Working
  <1>11. CASE ReadBack(a)
    BY <1>1, <1>11, GotoEffect DEF ReadBack, TypeOK, Working
  <1>12. CASE HandlerThrows(a)
    BY <1>1, <1>12, GotoEffect DEF HandlerThrows, TypeOK, Working
  <1>13. CASE Complete(a)
    BY <1>1, <1>2, <1>4, <1>13, RecordEffect, AnswerEffect DEF Complete, TypeOK
  <1>14. CASE RecordFailure(a)
    <2>1. CASE Record(Key(a), Of(a), "REFUSED") /\ Answer(a, Of(a), "REFUSED")
      BY <1>1, <1>2, <1>4, <1>14, <2>1, RecordEffect, AnswerEffect DEF RecordFailure, TypeOK
    <2>2. CASE Drop({Key(a)}) /\ Answer(a, None, "FAILED")
      BY <1>1, <1>3, <1>14, <2>2, DropEffect, AnswerEffect DEF RecordFailure, TypeOK
    <2>3. QED
      BY <1>14, <2>1, <2>2 DEF RecordFailure
  <1>15. QED
    BY <1>6, <1>7, <1>8, <1>9, <1>10, <1>11, <1>12, <1>13, <1>14 DEF Step

\* Nor does anything else that happens.
LEMMA TypeInductive == TypeOK /\ [Next]_vars => TypeOK'
  <1> SUFFICES ASSUME TypeOK, [Next]_vars PROVE TypeOK'
    OBVIOUS
  <1>1. ASSUME NEW a \in Attempts, NEW r \in Requests, Arrive(a, r) PROVE TypeOK'
    <2>1. [of |-> None, code |-> "none"] \in Replies
      BY DEF Replies
    <2>2. [of |-> r, stage |-> "reserving", reply |-> [of |-> None, code |-> "none"]] \in Attempt
      BY <2>1 DEF Attempt, Working
    <2>3. QED
      BY <1>1, <2>2 DEF Arrive, TypeOK
  <1>2. ASSUME NEW a \in Attempts, Step(a) PROVE TypeOK'
    BY <1>2, StepType
  <1>3. ASSUME NEW a \in Attempts, BookkeepingFails(a) PROVE TypeOK'
    <2>1. a \in DOMAIN att
      BY <1>3 DEF BookkeepingFails, At
    <2>2. [of |-> None, code |-> "FAILED"] \in Replies /\ [of |-> Of(a), code |-> "REFUSED"] \in Replies
      BY <2>1, AttemptFields DEF Replies, Response
    <2>3. DOMAIN att' = DOMAIN att /\ att' \in [DOMAIN att -> Attempt]
      BY <1>3, <2>1, <2>2, AnswerEffect DEF BookkeepingFails
    <2>4. mishaps' \in 0..MaxMishaps
      BY <1>3, IdempotencyAssumption DEF BookkeepingFails, TypeOK
    <2>5. QED
      BY <1>3, <2>3, <2>4 DEF BookkeepingFails, TypeOK
  <1>4. CASE Crash
    <2>1. [of |-> None, code |-> "LOST"] \in Replies
      BY DEF Replies
    <2>2. DOMAIN att' = DOMAIN att /\ att' \in [DOMAIN att -> Attempt]
      BY <1>4, <2>1 DEF Crash, TypeOK, Attempt
    <2>3. mishaps' \in 0..MaxMishaps
      <3>1. mishaps \in 0..MaxMishaps /\ mishaps < MaxMishaps /\ mishaps' = mishaps + 1
        BY <1>4 DEF Crash, TypeOK
      <3>2. QED
        BY <3>1, IdempotencyAssumption
    <2>4. QED
      BY <1>4, <2>2, <2>3 DEF Crash, TypeOK
  <1>5. CASE Sweep
    BY <1>5, DropEffect DEF Sweep, TypeOK
  <1>6. CASE Tick
    <2>1. \A n \in 0..AgeBound : Older(n) \in 0..AgeBound
      BY IdempotencyAssumption DEF Older
    <2>2. ASSUME NEW row \in KeyRow
          PROVE  [row EXCEPT !.age = Older(@), !.life = Older(@)] \in KeyRow
      BY <2>1 DEF KeyRow
    <2>3. keys' \in [DOMAIN keys -> KeyRow] /\ DOMAIN keys' = DOMAIN keys
      BY <1>6, <2>2 DEF Tick, TypeOK
    <2>4. QED
      BY <1>6, <2>3 DEF Tick, TypeOK
  <1>7. CASE UNCHANGED vars
    BY <1>7 DEF vars, TypeOK
  <1>8. QED
    BY <1>1, <1>2, <1>3, <1>4, <1>5, <1>6, <1>7 DEF Next, Server

\* The table, the attempts and the effects have their types from the start.
LEMMA InitType == Init => TypeOK
  BY IdempotencyAssumption DEF Init, TypeOK

\* The table, the attempts and the effects keep their types, whatever fails.
THEOREM TypeCorrect == Spec => []TypeOK
  BY InitType, TypeInductive, PTL DEF Spec

-----------------------------------------------------------------------------
(* OK means done *)

\* An effect that was there stays.
LEMMA EffectsLast ==
  ASSUME TypeOK, [Next]_vars, NEW r \in Requests, done[r] > 0
  PROVE  done'[r] > 0
  <1>1. ASSUME NEW a \in Attempts, Commit(a) PROVE done'[r] > 0
    BY <1>1 DEF Commit, TypeOK
  <1>2. ASSUME done' = done PROVE done'[r] > 0
    BY <1>2
  <1>3. QED
    BY <1>1, <1>2 DEF Next, Server, Step, Arrive, BookkeepingFails, Crash, Sweep, Tick, vars,
      Reserve, Inspect, Claim, TakeOver, ReadBack, HandlerThrows, Complete, RecordFailure

\* It is enough that what a step changes is right.
LEMMA OKFrame ==
  ASSUME OKInv, [Next]_vars,
         \A b \in DOMAIN att' :
           \/ b \in DOMAIN att /\ att'[b] = att[b]
           \/ /\ att'[b].reply.code = "OK" =>
                   done'[att'[b].reply.of] > 0 /\ KeyOf[att'[b].reply.of] = KeyOf[att'[b].of]
              /\ att'[b].stage \in {"committed", "completing"} => done'[att'[b].of] > 0,
         \A k \in DOMAIN keys' :
           \/ k \in DOMAIN keys /\ keys'[k].response = keys[k].response
           \/ keys'[k].response.code = "OK" =>
                done'[keys'[k].response.of] > 0 /\ KeyOf[keys'[k].response.of] = k
  PROVE  OKInv'
  <1>1. TypeOK /\ TypeOK'
    BY TypeInductive DEF OKInv
  <1>2. \A r \in Requests : done[r] > 0 => done'[r] > 0
    BY <1>1, EffectsLast
  <1>3. \A b \in DOMAIN att :
          Of(b) \in Requests /\ (att[b].reply.code = "OK" => att[b].reply.of \in Requests)
    BY <1>1 DEF TypeOK, Attempt, Replies, Response, Of
  <1>4. \A k \in DOMAIN keys :
          keys[k].response.code = "OK" => keys[k].response.of \in Requests
    BY <1>1 DEF TypeOK, KeyRow, Response, NoResponse
  <1>5. OKMeansDone'
    BY <1>2, <1>3 DEF OKInv, OKMeansDone
  <1>6. \A b \in DOMAIN att' :
          /\ att'[b].reply.code = "OK" => KeyOf[att'[b].reply.of] = KeyOf[att'[b].of]
          /\ att'[b].stage \in {"committed", "completing"} => done'[att'[b].of] > 0
    BY <1>2, <1>3 DEF OKInv, Key, Of
  <1>7. \A k \in DOMAIN keys' : keys'[k].response.code = "OK" =>
          done'[keys'[k].response.of] > 0 /\ KeyOf[keys'[k].response.of] = k
    BY <1>2, <1>4 DEF OKInv
  <1>8. QED
    BY <1>1, <1>5, <1>6, <1>7 DEF OKInv, Key, Of

\* No step makes an OK false, and none says OK before the effect.
LEMMA OKInductive == OKInv /\ [Next]_vars => OKInv'
  <1> SUFFICES ASSUME OKInv, [Next]_vars PROVE OKInv'
    OBVIOUS
  <1> TypeOK
    BY DEF OKInv
  <1>1. ASSUME NEW a \in Attempts, NEW r \in Requests, Arrive(a, r) PROVE OKInv'
    <2>1. keys' = keys /\ DOMAIN att' = DOMAIN att \cup {a}
          /\ (\A b \in DOMAIN att : b # a => att'[b] = att[b])
          /\ att'[a].reply.code = "none" /\ att'[a].stage = "reserving"
      BY <1>1 DEF Arrive
    <2>2. QED
      BY <2>1, OKFrame
  <1>2. ASSUME NEW a \in Attempts, Step(a) PROVE OKInv'
    <2>1. a \in DOMAIN att
      BY <1>2 DEF Step, At, Reserve, Inspect, Claim, TakeOver, Commit, ReadBack, HandlerThrows,
             Complete, RecordFailure
    <2>2. /\ Of(a) \in Requests /\ Key(a) \in Keys /\ FreshRow(a) \in KeyRow
          /\ Key(a) = KeyOf[att[a].of] /\ Of(a) = att[a].of
          /\ att[a].reply.code = "OK" =>
               /\ att[a].reply.of \in Requests /\ done[att[a].reply.of] > 0
               /\ KeyOf[att[a].reply.of] = Key(a)
          /\ att[a].stage \in {"committed", "completing"} => done[Of(a)] > 0
          /\ \A k \in DOMAIN keys : keys[k].response.code = "OK" =>
               done[keys[k].response.of] > 0 /\ KeyOf[keys[k].response.of] = k
      BY <2>1, AttemptFields DEF OKInv, OKMeansDone, TypeOK, Attempt, Replies, Response, Key, Of
    <2>3. FreshRow(a).response.code = "none"
      BY DEF FreshRow, NoResponse
    <2>4. ASSUME NEW s \in Working \ {"committed", "completing"}, Goto(a, s), done' = done,
                 \A k \in DOMAIN keys' :
                   \/ k \in DOMAIN keys /\ keys'[k].response = keys[k].response
                   \/ keys'[k].response.code # "OK"
          PROVE  OKInv'
      BY <2>1, <2>2, <2>4, GotoEffect, OKFrame
    <2>5. ASSUME NEW of, NEW code, [of |-> of, code |-> code] \in Replies, Answer(a, of, code),
                 code = "OK" => done'[of] > 0 /\ KeyOf[of] = Key(a),
                 \A k \in DOMAIN keys' :
                   \/ k \in DOMAIN keys /\ keys'[k].response = keys[k].response
                   \/ keys'[k].response.code = "OK" =>
                        done'[keys'[k].response.of] > 0 /\ KeyOf[keys'[k].response.of] = k
          PROVE  OKInv'
      BY <2>1, <2>2, <2>5, AnswerEffect, OKFrame
    <2>6. CASE Reserve(a)
      <3>1. CASE Put(Key(a), FreshRow(a)) /\ Goto(a, "running")
        <4>1. /\ DOMAIN keys' = DOMAIN keys \cup {Key(a)}
              /\ keys'[Key(a)] = FreshRow(a)
              /\ \A k \in DOMAIN keys : k # Key(a) => keys'[k] = keys[k]
          <5>1. Key(a) \in Keys /\ FreshRow(a) \in KeyRow
            BY <2>2
          <5>2. QED
            BY <3>1, <5>1, PutEffect
        <4>2. \A k \in DOMAIN keys' :
                \/ k \in DOMAIN keys /\ keys'[k].response = keys[k].response
                \/ keys'[k].response.code # "OK"
          BY <2>3, <4>1
        <4>3. QED
          BY <2>4, <2>6, <3>1, <4>2 DEF Reserve, Working
      <3>2. CASE Goto(a, "inspecting") /\ UNCHANGED keys
        BY <2>4, <2>6, <3>2 DEF Reserve, Working
      <3>3. QED
        BY <2>6, <3>1, <3>2 DEF Reserve
    <2>7. CASE Inspect(a)
      <3>1. CASE Key(a) \in DOMAIN keys /\
                 Answer(a, keys[Key(a)].response.of, keys[Key(a)].response.code)
        <4>1. keys[Key(a)].response \in Response \cup {NoResponse}
          BY <3>1 DEF TypeOK, KeyRow
        <4>2. [of |-> keys[Key(a)].response.of, code |-> keys[Key(a)].response.code] \in Replies
          BY <4>1 DEF Response, NoResponse, Replies
        <4>3. QED
          BY <2>2, <2>5, <2>7, <3>1, <4>2 DEF Inspect
      <3>2. CASE Answer(a, None, "KEY_REUSED")
        BY <2>5, <2>7, <3>2 DEF Inspect, Replies
      <3>3. CASE Goto(a, "claiming") \/ Goto(a, "taking_over")
        BY <2>4, <2>7, <3>3 DEF Inspect, Working
      <3>4. QED
        BY <2>7, <3>1, <3>2, <3>3 DEF Inspect
    <2>8. CASE Claim(a)
      <3>1. DOMAIN keys' = DOMAIN keys \cup {Key(a)}
            /\ (\A k \in DOMAIN keys : keys'[k].response = keys[k].response)
            /\ (Key(a) \notin DOMAIN keys => keys'[Key(a)] = FreshRow(a))
        BY <2>8 DEF Claim, Put, TypeOK, KeyRow
      <3>2. QED
        BY <2>3, <2>4, <2>8, <3>1 DEF Claim, Working
    <2>9. CASE TakeOver(a)
      <3>1. DOMAIN keys' = DOMAIN keys /\ \A k \in DOMAIN keys : keys'[k].response = keys[k].response
        BY <2>9 DEF TakeOver, TypeOK, KeyRow
      <3>2. [of |-> None, code |-> "IN_PROGRESS"] \in Replies
        BY DEF Replies
      <3>3. QED
        BY <2>4, <2>5, <2>9, <3>1, <3>2 DEF TakeOver, Working
    <2>10. CASE Commit(a)
      <3>1. done'[Of(a)] > 0
        BY <2>2, <2>10 DEF Commit, TypeOK
      <3>2. att'[a].reply.code = "OK" =>
              done'[att'[a].reply.of] > 0 /\ KeyOf[att'[a].reply.of] = KeyOf[att'[a].of]
        <4>1. att'[a].reply = att[a].reply /\ att'[a].of = att[a].of
          BY <2>1, <2>10, GotoEffect DEF Commit, Working
        <4>2. QED
          BY <2>2, <4>1, EffectsLast
      <3>3. QED
        BY <2>1, <2>10, <3>1, <3>2, GotoEffect, OKFrame DEF Commit, Working, Of
    <2>11. CASE ReadBack(a)
      <3>1. CASE Goto(a, "completing")
        BY <2>1, <2>2, <2>11, <3>1, GotoEffect, OKFrame DEF ReadBack, Working, At, Of
      <3>2. CASE Goto(a, "releasing")
        BY <2>4, <2>11, <3>2 DEF ReadBack, Working
      <3>3. QED
        BY <2>11, <3>1, <3>2 DEF ReadBack
    <2>12. CASE HandlerThrows(a)
      BY <2>4, <2>12 DEF HandlerThrows, Working
    <2>13. CASE Complete(a)
      <3>1. done[Of(a)] > 0 /\ done' = done
        BY <2>2, <2>13 DEF Complete, At
      <3>2. [of |-> Of(a), code |-> "OK"] \in Replies
        BY <2>2 DEF Replies, Response
      <3>3. \A k \in DOMAIN keys' :
              \/ k \in DOMAIN keys /\ keys'[k].response = keys[k].response
              \/ keys'[k].response.code = "OK" =>
                   done'[keys'[k].response.of] > 0 /\ KeyOf[keys'[k].response.of] = k
        <4>1. /\ DOMAIN keys' = DOMAIN keys
              /\ Key(a) \in DOMAIN keys => keys'[Key(a)].response = [of |-> Of(a), code |-> "OK"]
              /\ \A k \in DOMAIN keys : k # Key(a) => keys'[k] = keys[k]
          <5>1. Of(a) \in Requests /\ Record(Key(a), Of(a), "OK") /\ TypeOK
            BY <2>2, <2>13 DEF Complete
          <5>2. QED
            BY <5>1, RecordEffect
        <4>2. QED
          BY <2>2, <3>1, <4>1
      <3>4. QED
        BY <2>2, <2>5, <2>13, <3>1, <3>2, <3>3 DEF Complete
    <2>14. CASE RecordFailure(a)
      <3>1. CASE Record(Key(a), Of(a), "REFUSED") /\ Answer(a, Of(a), "REFUSED")
        <4>1. [of |-> Of(a), code |-> "REFUSED"] \in Replies
          BY <2>2 DEF Replies, Response
        <4>2. /\ DOMAIN keys' = DOMAIN keys
              /\ Key(a) \in DOMAIN keys =>
                   keys'[Key(a)].response = [of |-> Of(a), code |-> "REFUSED"]
              /\ \A k \in DOMAIN keys : k # Key(a) => keys'[k] = keys[k]
          <5>1. Of(a) \in Requests /\ Record(Key(a), Of(a), "REFUSED") /\ TypeOK
            BY <2>2, <3>1
          <5>2. QED
            BY <5>1, RecordEffect
        <4>3. \A k \in DOMAIN keys' :
                \/ k \in DOMAIN keys /\ keys'[k].response = keys[k].response
                \/ keys'[k].response.code # "OK"
          BY <4>2
        <4>4. QED
          BY <2>5, <3>1, <4>1, <4>3
      <3>2. CASE Drop({Key(a)}) /\ Answer(a, None, "FAILED")
        <4>1. [of |-> None, code |-> "FAILED"] \in Replies
          BY DEF Replies
        <4>2. QED
          BY <2>5, <3>2, <4>1, DropEffect
      <3>3. QED
        BY <2>14, <3>1, <3>2 DEF RecordFailure
    <2>15. QED
      BY <1>2, <2>6, <2>7, <2>8, <2>9, <2>10, <2>11, <2>12, <2>13, <2>14 DEF Step
  <1>3. ASSUME NEW a \in Attempts, BookkeepingFails(a) PROVE OKInv'
    <2>1. a \in DOMAIN att /\ keys' = keys
      BY <1>3 DEF BookkeepingFails, At
    <2>2. [of |-> None, code |-> "FAILED"] \in Replies /\ [of |-> Of(a), code |-> "REFUSED"] \in Replies
      BY <2>1, AttemptFields DEF Replies, Response
    <2>3. QED
      BY <1>3, <2>1, <2>2, AnswerEffect, OKFrame DEF BookkeepingFails
  <1>4. CASE Crash
    <2>1. keys' = keys /\ DOMAIN att' = DOMAIN att
      BY <1>4 DEF Crash
    <2>2. \A b \in DOMAIN att :
            att'[b] = att[b] \/ (att'[b].reply.code = "LOST" /\ att'[b].stage = "done")
      BY <1>4 DEF Crash, TypeOK, Attempt
    <2>3. QED
      BY <2>1, <2>2, OKFrame
  <1>5. CASE Sweep
    BY <1>5, DropEffect, OKFrame DEF Sweep
  <1>6. CASE Tick
    <2>1. att' = att /\ DOMAIN keys' = DOMAIN keys
          /\ \A k \in DOMAIN keys : keys'[k].response = keys[k].response
      BY <1>6 DEF Tick, TypeOK, KeyRow
    <2>2. QED
      BY <2>1, OKFrame
  <1>7. CASE UNCHANGED vars
    BY <1>7, OKFrame DEF vars
  <1>8. QED
    BY <1>1, <1>2, <1>3, <1>4, <1>5, <1>6, <1>7 DEF Next, Server

\* Nothing is answered or done at the start.
LEMMA InitOK == Init => OKInv
  BY InitType DEF Init, OKInv, OKMeansDone

\* An attempt told OK is told the truth, whatever fails, however often its key
\* changed hands: replays and takeovers never invent a success.
THEOREM OKIsTrue == Spec => []OKMeansDone
  <1>1. OKInv => OKMeansDone
    BY DEF OKInv
  <1>2. QED
    BY InitOK, OKInductive, <1>1, PTL DEF Spec

-----------------------------------------------------------------------------
(* Prompt retries *)

\* A step that changes one attempt only, makes no owner and gives no answer but
\* a true one of a key nobody runs.
LEMMA QuietStep ==
  ASSUME IndInv, TypeOK', UNCHANGED <<keys, done>>, NEW a,
         a \in DOMAIN att',
         DOMAIN att' = DOMAIN att \cup {a},
         \A b \in DOMAIN att : b # a => att'[b] = att[b],
         att'[a].stage \notin {"claiming", "releasing"},
         att'[a].stage \in {"inspecting", "taking_over"} => KeyOf[att'[a].of] \in DOMAIN keys,
         Owner(a)' =>
           /\ Owner(a) /\ att'[a].of = att[a].of
           /\ att'[a].stage \in {"running", "refusing"} => att[a].stage \in {"running", "refusing"}
           /\ att'[a].stage \in {"committed", "completing"} =>
                att[a].stage \in {"committed", "completing"},
         Answered(a)' =>
           \/ a \in DOMAIN att /\ att'[a].reply = att[a].reply
           \/ /\ TrueOf(att'[a].reply)
              /\ KeyOf[att'[a].reply.of] \in DOMAIN keys
              /\ \A b \in DOMAIN att' : Owner(b)' => KeyOf[att'[b].of] # KeyOf[att'[a].reply.of]
  PROVE  IndInv'
  <1>1. \A b \in DOMAIN att' :
          Owner(b)' => b \in DOMAIN att /\ Owner(b) /\ att'[b].of = att[b].of
    BY DEF Owner
  <1>2. StagesFit'
    BY DEF IndInv, StagesFit, Key
  <1>3. OwnersHoldTheirKeys'
    BY <1>1 DEF IndInv, OwnersHoldTheirKeys, Owner, Key, Reserved
  <1>4. EffectsFit'
    <2>1. \A r \in Requests : done'[r] > 0 => KeyOf[r] \in DOMAIN keys'
      BY DEF IndInv, EffectsFit
    <2>2. ASSUME NEW b \in DOMAIN att'
          PROVE  /\ att'[b].stage \in {"running", "refusing"} =>
                      \A r \in Requests : KeyOf[r] = KeyOf[att'[b].of] => done'[r] = 0
                 /\ att'[b].stage \in {"committed", "completing"} => done'[att'[b].of] = 1
      <3>1. CASE b # a
        BY <2>2, <3>1 DEF IndInv, EffectsFit, Key, Of
      <3>2. CASE b = a
        BY <2>2, <3>2 DEF IndInv, EffectsFit, Key, Of, Owner
      <3>3. QED
        BY <3>1, <3>2
    <2>3. QED
      BY <2>1, <2>2 DEF EffectsFit, Key, Of
  <1>5. AtMostOnce' /\ RowsAreTrue'
    BY DEF IndInv, AtMostOnce, RowsAreTrue, TrueOf
  <1>6. AnswersStayTrue'
    <2>1. ASSUME NEW b \in DOMAIN att', Answered(b)'
          PROVE  /\ TrueOf(att'[b].reply)
                 /\ KeyOf[att'[b].reply.of] \in DOMAIN keys
                 /\ \A c \in DOMAIN att' : Owner(c)' => KeyOf[att'[c].of] # KeyOf[att'[b].reply.of]
      <3>1. CASE b \in DOMAIN att /\ att'[b].reply = att[b].reply
        BY <1>1, <2>1, <3>1 DEF IndInv, AnswersStayTrue, Answered, Key
      <3>2. CASE ~(b \in DOMAIN att /\ att'[b].reply = att[b].reply)
        BY <2>1, <3>2
      <3>3. QED
        BY <3>1, <3>2
    <2>2. QED
      BY <2>1 DEF AnswersStayTrue, TrueOf, Key
  <1>7. QED
    BY <1>2, <1>3, <1>4, <1>5, <1>6 DEF IndInv

\* Reserve: a new owner of a new key, whose requests have no effect so far.
LEMMA ReserveKeepsIndInv ==
  ASSUME IndInv, TypeOK', NEW a \in Attempts, Reserve(a)
  PROVE  IndInv'
  <1> TypeOK
    BY DEF IndInv
  <1>1. a \in DOMAIN att /\ att[a].stage = "reserving" /\ done' = done
    BY DEF Reserve, At
  <1>2. CASE Key(a) \notin DOMAIN keys /\ Put(Key(a), FreshRow(a)) /\ Goto(a, "running")
    <2>1. /\ Key(a) \in Keys /\ Of(a) \in Requests /\ FreshRow(a) \in KeyRow
      BY <1>1, AttemptFields
    <2>2. /\ DOMAIN keys' = DOMAIN keys \cup {Key(a)}
          /\ keys'[Key(a)].status = "in_progress"
          /\ \A j \in DOMAIN keys : j # Key(a) => keys'[j] = keys[j]
      BY <1>2, <2>1, PutEffect DEF FreshRow
    <2>3. /\ DOMAIN att' = DOMAIN att
          /\ att'[a].stage = "running" /\ att'[a].of = att[a].of /\ att'[a].reply = att[a].reply
          /\ \A b \in DOMAIN att : b # a => att'[b] = att[b]
      BY <1>1, <1>2, GotoEffect DEF Working
    <2>4. \A b \in DOMAIN att : att'[b].of = att[b].of /\ att'[b].reply = att[b].reply
      BY <2>3
    <2>5. \A r \in Requests : KeyOf[r] = Key(a) => done[r] = 0
      BY <1>2, <2>1 DEF IndInv, TypeOK, EffectsFit
    <2>6. StagesFit'
      BY <2>2, <2>3 DEF IndInv, StagesFit, Key
    <2>7. OwnersHoldTheirKeys'
      BY <1>2, <2>2, <2>3 DEF IndInv, OwnersHoldTheirKeys, Owner, Reserved, Key
    <2>8. EffectsFit'
      BY <1>1, <2>2, <2>3, <2>5 DEF IndInv, EffectsFit, Key, Of
    <2>9. RowsAreTrue' /\ AtMostOnce'
      BY <1>1, <2>2 DEF IndInv, RowsAreTrue, TrueOf, AtMostOnce
    <2>10. AnswersStayTrue'
      BY <1>1, <1>2, <2>2, <2>3, <2>4 DEF IndInv, AnswersStayTrue, Answered, Owner, TrueOf, Key
    <2>11. QED
      BY <2>6, <2>7, <2>8, <2>9, <2>10 DEF IndInv
  <1>3. CASE Key(a) \in DOMAIN keys /\ Goto(a, "inspecting") /\ UNCHANGED keys
    BY <1>1, <1>3, GotoEffect, QuietStep DEF Working, Owner, Answered, Key
  <1>4. QED
    BY <1>2, <1>3 DEF Reserve

\* Inspect: a replay answers what its row says, and a completed row has no owner.
LEMMA InspectKeepsIndInv ==
  ASSUME IndInv, TypeOK', NEW a \in Attempts, Inspect(a)
  PROVE  IndInv'
  <1> TypeOK
    BY DEF IndInv
  <1>1. a \in DOMAIN att /\ att[a].stage = "inspecting" /\ Key(a) \in DOMAIN keys
        /\ UNCHANGED <<keys, done>>
    BY DEF Inspect, At, IndInv, StagesFit
  <1>2. CASE Answer(a, None, "KEY_REUSED")
    <2>1. [of |-> None, code |-> "KEY_REUSED"] \in Replies
      BY DEF Replies
    <2>2. /\ DOMAIN att' = DOMAIN att
          /\ att'[a].stage = "done" /\ att'[a].reply.code = "KEY_REUSED"
          /\ \A b \in DOMAIN att : b # a => att'[b] = att[b]
      BY <1>1, <1>2, <2>1, AnswerEffect
    <2>3. QED
      BY <1>1, <2>2, QuietStep DEF Owner, Answered
  <1>3. CASE Goto(a, "taking_over")
    BY <1>1, <1>3, GotoEffect, QuietStep DEF Working, Owner, Answered, Key
  <1>4. CASE /\ keys[Key(a)].status = "completed"
             /\ Answer(a, keys[Key(a)].response.of, keys[Key(a)].response.code)
    <2> DEFINE p == keys[Key(a)].response
    <2>1. p \in Response /\ KeyOf[p.of] = Key(a) /\ TrueOf(p)
      BY <1>1, <1>4 DEF IndInv, RowsAreTrue
    <2>2. [of |-> p.of, code |-> p.code] = p /\ p \in Replies
      BY <2>1 DEF Response, Replies
    <2>3. \A b \in DOMAIN att : Owner(b) => Key(b) # Key(a)
      BY <1>4 DEF IndInv, OwnersHoldTheirKeys, Reserved
    <2> HIDE DEF p
    <2>4. /\ DOMAIN att' = DOMAIN att
          /\ att'[a].stage = "done" /\ att'[a].of = att[a].of /\ att'[a].reply = p
          /\ \A b \in DOMAIN att : b # a => att'[b] = att[b]
      BY <1>1, <1>4, <2>2, AnswerEffect DEF p
    <2>5. \A b \in DOMAIN att' : Owner(b)' => KeyOf[att'[b].of] # KeyOf[p.of]
      BY <2>1, <2>3, <2>4 DEF Owner, Key
    <2>6. QED
      BY <1>1, <2>1, <2>4, <2>5, QuietStep DEF Owner
  <1>5. QED
    BY <1>1, <1>2, <1>3, <1>4 DEF Inspect

\* TakeOver: no reservation is stale.
LEMMA TakeOverKeepsIndInv ==
  ASSUME Prompt, IndInv, TypeOK', NEW a \in Attempts, TakeOver(a)
  PROVE  IndInv'
  <1> TypeOK
    BY DEF IndInv
  <1>1. ~Stale(Key(a))
    BY IdempotencyAssumption DEF Prompt, Stale, TypeOK, KeyRow
  <1>2. a \in DOMAIN att /\ Answer(a, None, "IN_PROGRESS") /\ UNCHANGED <<keys, done>>
    BY <1>1 DEF TakeOver, At
  <1>3. QED
    <2>1. [of |-> None, code |-> "IN_PROGRESS"] \in Replies
      BY DEF Replies
    <2>2. /\ DOMAIN att' = DOMAIN att
          /\ att'[a].stage = "done" /\ att'[a].reply.code = "IN_PROGRESS"
          /\ \A b \in DOMAIN att : b # a => att'[b] = att[b]
      BY <1>2, <2>1, AnswerEffect
    <2>3. QED
      BY <1>2, <2>2, QuietStep DEF Owner, Answered

\* Commit: the owner's request had no effect, and now has one.
LEMMA CommitKeepsIndInv ==
  ASSUME IndInv, TypeOK', NEW a \in Attempts, Commit(a)
  PROVE  IndInv'
  <1> TypeOK
    BY DEF IndInv
  <1>1. a \in DOMAIN att /\ att[a].stage = "running" /\ keys' = keys /\ Owner(a)
    BY DEF Commit, At, Owner
  <1>2. Of(a) \in Requests /\ done[Of(a)] = 0 /\ Key(a) \in DOMAIN keys
    BY <1>1, AttemptFields DEF IndInv, EffectsFit, OwnersHoldTheirKeys, Reserved, Key, Of
  <1>3. /\ done' \in [Requests -> 0..2] /\ done'[Of(a)] = 1
        /\ \A r \in Requests : r # Of(a) => done'[r] = done[r]
    BY <1>2 DEF Commit, TypeOK
  <1>4. /\ DOMAIN att' = DOMAIN att
        /\ att'[a].stage = "committed" /\ att'[a].of = att[a].of /\ att'[a].reply = att[a].reply
        /\ \A b \in DOMAIN att : b # a => att'[b] = att[b]
    BY <1>1, GotoEffect DEF Commit, Working
  <1>5. \A b \in DOMAIN att : Owner(b)' <=> Owner(b)
    BY <1>1, <1>4 DEF Owner
  <1>6. StagesFit'
    BY <1>1, <1>4 DEF IndInv, StagesFit, Key
  <1>7. OwnersHoldTheirKeys'
    BY <1>1, <1>4, <1>5 DEF IndInv, OwnersHoldTheirKeys, Reserved, Key
  <1>8. EffectsFit'
    <2>1. \A r \in Requests : done'[r] > 0 => KeyOf[r] \in DOMAIN keys
      BY <1>2, <1>3 DEF IndInv, EffectsFit, Key, Of
    <2>2. ASSUME NEW b \in DOMAIN att, b # a, Owner(b)
          PROVE  /\ KeyOf[att[b].of] # Key(a) /\ att[b].of \in Requests
                 /\ att[b].of # Of(a)
      BY <1>1, <2>2, AttemptFields DEF IndInv, OwnersHoldTheirKeys, Key, Of
    <2>3. ASSUME NEW b \in DOMAIN att
          PROVE  /\ att'[b].stage \in {"running", "refusing"} =>
                      \A r \in Requests : KeyOf[r] = KeyOf[att'[b].of] => done'[r] = 0
                 /\ att'[b].stage \in {"committed", "completing"} => done'[att'[b].of] = 1
      <3>1. CASE b = a
        BY <1>3, <1>4, <3>1 DEF Of
      <3>2. CASE b # a
        BY <1>3, <1>4, <2>2, <3>2 DEF IndInv, EffectsFit, Owner, Key, Of
      <3>3. QED
        BY <3>1, <3>2
    <2>4. QED
      BY <1>1, <1>4, <2>1, <2>3 DEF EffectsFit, Key, Of
  <1>9. AtMostOnce'
    BY <1>3 DEF IndInv, AtMostOnce
  <1>10. RowsAreTrue'
    <2>1. ASSUME NEW k \in DOMAIN keys, keys[k].status = "completed"
          PROVE  k # Key(a)
      BY <1>1, <2>1 DEF IndInv, OwnersHoldTheirKeys, Reserved
    <2>2. \A k \in DOMAIN keys : keys[k].status = "completed" =>
             keys[k].response.of \in Requests /\ keys[k].response.of # Of(a)
      BY <2>1 DEF IndInv, RowsAreTrue, Response, Key, Of
    <2>3. QED
      BY <1>1, <1>3, <2>2 DEF IndInv, RowsAreTrue, TrueOf
  <1>11. AnswersStayTrue'
    <2>1. \A b \in DOMAIN att : Answered(b) => att[b].reply.of \in Requests
      BY DEF TypeOK, Attempt, Answered, Replies, Response
    <2>2. \A b \in DOMAIN att : Answered(b) => att[b].reply.of # Of(a)
      BY <1>1 DEF IndInv, AnswersStayTrue, Key, Of
    <2>3. \A b \in DOMAIN att : att'[b].reply = att[b].reply /\ att'[b].of = att[b].of
      BY <1>4
    <2>4. QED
      BY <1>1, <1>3, <1>4, <1>5, <2>1, <2>2, <2>3 DEF IndInv, AnswersStayTrue, Answered, TrueOf, Key
  <1>12. QED
    BY <1>6, <1>7, <1>8, <1>9, <1>10, <1>11 DEF IndInv

\* An owner records its outcome, which is so, and answers it.
LEMMA RecordKeepsIndInv ==
  ASSUME IndInv, TypeOK', NEW a \in DOMAIN att, Owner(a), done' = done,
         NEW code \in {"OK", "REFUSED"},
         code = "OK" => done[Of(a)] = 1, code = "REFUSED" => done[Of(a)] = 0,
         Record(Key(a), Of(a), code), Answer(a, Of(a), code)
  PROVE  IndInv'
  <1> TypeOK
    BY DEF IndInv
  <1>1. Of(a) \in Requests /\ Key(a) \in DOMAIN keys /\ KeyOf[Of(a)] = Key(a)
    BY AttemptFields DEF IndInv, OwnersHoldTheirKeys, Reserved, Key, Of
  <1> DEFINE p == [of |-> Of(a), code |-> code]
  <1>2. p \in Response /\ p \in Replies /\ p.of = Of(a) /\ p.code = code
    BY <1>1 DEF Response, Replies
  <1>3. /\ DOMAIN keys' = DOMAIN keys
        /\ keys'[Key(a)].status = "completed" /\ keys'[Key(a)].response = p
        /\ \A j \in DOMAIN keys : j # Key(a) => keys'[j] = keys[j]
    BY <1>1, RecordEffect
  <1>4. /\ DOMAIN att' = DOMAIN att
        /\ att'[a].stage = "done" /\ att'[a].of = att[a].of /\ att'[a].reply = p
        /\ \A b \in DOMAIN att : b # a => att'[b] = att[b]
    BY <1>2, AnswerEffect
  <1>5. TrueOf(p)
    BY <1>2 DEF TrueOf
  <1> HIDE DEF p
  <1>6. \A b \in DOMAIN att : Owner(b)' => Owner(b) /\ b # a /\ att'[b] = att[b] /\ Key(b) # Key(a)
    BY <1>4 DEF IndInv, OwnersHoldTheirKeys, Owner
  <1>7. StagesFit'
    BY <1>3, <1>4 DEF IndInv, StagesFit, Key
  <1>8. OwnersHoldTheirKeys'
    BY <1>3, <1>4, <1>6 DEF IndInv, OwnersHoldTheirKeys, Reserved, Key
  <1>9. EffectsFit'
    BY <1>3, <1>4 DEF IndInv, EffectsFit, Key, Of
  <1>10. AtMostOnce'
    BY DEF IndInv, AtMostOnce
  <1>11. RowsAreTrue'
    BY <1>1, <1>2, <1>3, <1>5 DEF IndInv, RowsAreTrue, TrueOf
  <1>12. AnswersStayTrue'
    <2>1. ASSUME NEW b \in DOMAIN att, Answered(b)'
          PROVE  /\ TrueOf(att'[b].reply)
                 /\ KeyOf[att'[b].reply.of] \in DOMAIN keys
                 /\ \A c \in DOMAIN att : Owner(c)' => KeyOf[att[c].of] # KeyOf[att'[b].reply.of]
      <3>1. CASE b = a
        BY <1>1, <1>2, <1>4, <1>5, <1>6, <3>1 DEF Key
      <3>2. CASE b # a
        BY <1>4, <1>6, <2>1, <3>2 DEF IndInv, AnswersStayTrue, Answered, Key
      <3>3. QED
        BY <3>1, <3>2
    <2>2. QED
      BY <1>3, <1>4, <1>6, <2>1 DEF AnswersStayTrue, TrueOf, Key
  <1>13. QED
    BY <1>7, <1>8, <1>9, <1>10, <1>11, <1>12 DEF IndInv

\* The steps between commit and record, and the ends that record nothing.
LEMMA HandlerKeepsIndInv ==
  ASSUME Prompt, IndInv, TypeOK', NEW a \in Attempts,
         ReadBack(a) \/ HandlerThrows(a) \/ BookkeepingFails(a)
  PROVE  IndInv'
  <1> TypeOK
    BY DEF IndInv
  <1>1. a \in DOMAIN att /\ UNCHANGED <<keys, done>>
    BY DEF ReadBack, HandlerThrows, BookkeepingFails, At
  <1>2. CASE ReadBack(a)
    <2>1. att[a].stage = "committed" /\ Goto(a, "completing")
      BY <1>2 DEF ReadBack, Prompt, At
    <2>2. QED
      BY <1>1, <2>1, GotoEffect, QuietStep DEF Working, Owner, Answered
  <1>3. CASE HandlerThrows(a)
    <2>1. att[a].stage = "running" /\ Goto(a, "refusing")
      BY <1>3 DEF HandlerThrows, Prompt, At
    <2>2. QED
      BY <1>1, <2>1, GotoEffect, QuietStep DEF Working, Owner, Answered
  <1>4. CASE BookkeepingFails(a) /\ Answer(a, None, "FAILED")
    <2>1. [of |-> None, code |-> "FAILED"] \in Replies
      BY DEF Replies
    <2>2. /\ DOMAIN att' = DOMAIN att
          /\ att'[a].stage = "done" /\ att'[a].reply.code = "FAILED"
          /\ \A b \in DOMAIN att : b # a => att'[b] = att[b]
      BY <1>1, <1>4, <2>1, AnswerEffect
    <2>3. QED
      BY <1>1, <2>2, QuietStep DEF Owner, Answered
  <1>5. CASE BookkeepingFails(a) /\ att[a].stage = "refusing" /\ Answer(a, Of(a), "REFUSED")
    <2> DEFINE p == [of |-> Of(a), code |-> "REFUSED"]
    <2>1. Of(a) \in Requests /\ KeyOf[Of(a)] = Key(a)
      BY <1>1, AttemptFields DEF Key, Of
    <2>2. p \in Replies /\ p.of = Of(a) /\ p.code = "REFUSED"
      BY <2>1 DEF Replies, Response
    <2>3. Owner(a) /\ Key(a) \in DOMAIN keys /\ done[Of(a)] = 0
      BY <1>1, <1>5, <2>1 DEF IndInv, OwnersHoldTheirKeys, EffectsFit, Owner, Reserved
    <2>4. /\ DOMAIN att' = DOMAIN att
          /\ att'[a].stage = "done" /\ att'[a].of = att[a].of /\ att'[a].reply = p
          /\ \A b \in DOMAIN att : b # a => att'[b] = att[b]
      BY <1>1, <1>5, <2>2, AnswerEffect
    <2>5. TrueOf(p)
      BY <2>2, <2>3 DEF TrueOf
    <2> HIDE DEF p
    <2>6. \A b \in DOMAIN att' : Owner(b)' => KeyOf[att'[b].of] # KeyOf[p.of]
      BY <1>1, <2>1, <2>2, <2>3, <2>4 DEF IndInv, OwnersHoldTheirKeys, Owner, Key
    <2>7. QED
      BY <1>1, <2>1, <2>2, <2>3, <2>4, <2>5, <2>6, QuietStep DEF Owner
  <1>6. QED
    BY <1>2, <1>3, <1>4, <1>5 DEF BookkeepingFails, At

\* A crash ends every owner and answers nothing.
LEMMA CrashKeepsIndInv ==
  ASSUME IndInv, TypeOK', Crash
  PROVE  IndInv'
  <1> TypeOK
    BY DEF IndInv
  <1>1. DOMAIN att' = DOMAIN att /\ UNCHANGED <<keys, done>>
    BY DEF Crash
  <1>2. \A b \in DOMAIN att :
          /\ att'[b].stage = "done" /\ att'[b].of = att[b].of
          /\ att'[b].reply = att[b].reply \/ att'[b].reply.code = "LOST"
    BY DEF Crash, InFlight, TypeOK, Attempt
  <1>3. StagesFit' /\ OwnersHoldTheirKeys'
    BY <1>1, <1>2 DEF StagesFit, OwnersHoldTheirKeys, Owner, Key
  <1>4. EffectsFit'
    BY <1>1, <1>2 DEF IndInv, EffectsFit, Key, Of
  <1>5. AtMostOnce' /\ RowsAreTrue'
    BY <1>1 DEF IndInv, AtMostOnce, RowsAreTrue, TrueOf
  <1>6. AnswersStayTrue'
    <2>1. ASSUME NEW b \in DOMAIN att, Answered(b)'
          PROVE  Answered(b) /\ att'[b].reply = att[b].reply
      BY <1>2, <2>1 DEF Answered
    <2>2. QED
      BY <1>1, <1>2, <2>1 DEF IndInv, AnswersStayTrue, Owner, TrueOf, Key
  <1>7. QED
    BY <1>3, <1>4, <1>5, <1>6 DEF IndInv

\* Time changes ages only.
LEMMA TickKeepsIndInv ==
  ASSUME IndInv, TypeOK', Tick
  PROVE  IndInv'
  <1>1. /\ DOMAIN keys' = DOMAIN keys /\ UNCHANGED <<att, done>>
        /\ \A k \in DOMAIN keys :
             keys'[k].status = keys[k].status /\ keys'[k].response = keys[k].response
    <2>1. ASSUME NEW row \in KeyRow, NEW x, NEW y
          PROVE  LET later == [row EXCEPT !.age = x, !.life = y]
                 IN  later.status = row.status /\ later.response = row.response
      BY DEF KeyRow
    <2>2. DOMAIN keys' = DOMAIN keys /\ UNCHANGED <<att, done>>
      BY DEF Tick
    <2>3. ASSUME NEW k \in DOMAIN keys
          PROVE  keys'[k].status = keys[k].status /\ keys'[k].response = keys[k].response
      <3>1. keys[k] \in KeyRow
        BY DEF IndInv, TypeOK
      <3>2. keys'[k] = [keys[k] EXCEPT !.age = Older(keys[k].age), !.life = Older(keys[k].life)]
        BY DEF Tick
      <3>3. QED
        BY <2>1, <3>1, <3>2
    <2>4. QED
      BY <2>2, <2>3
  <1>2. StagesFit' /\ OwnersHoldTheirKeys' /\ EffectsFit'
    BY <1>1 DEF IndInv, StagesFit, OwnersHoldTheirKeys, EffectsFit, Owner, Reserved, Key, Of
  <1>3. AtMostOnce' /\ RowsAreTrue' /\ AnswersStayTrue'
    BY <1>1 DEF IndInv, AtMostOnce, RowsAreTrue, AnswersStayTrue, Answered, TrueOf, Owner, Key
  <1>4. QED
    BY <1>2, <1>3 DEF IndInv

\* The steps that prompt retries leave no room for.
LEMMA NothingIsLost ==
  ASSUME Prompt, IndInv
  PROVE  /\ ~Sweep
         /\ \A a \in Attempts : ~Claim(a) /\ ~At(a, "releasing")
  <1>1. ~Sweep
    BY IdempotencyAssumption DEF Prompt, IndInv, TypeOK, KeyRow, Sweep
  <1>2. QED
    BY <1>1 DEF IndInv, StagesFit, Claim, At

\* What every step of prompt retries preserves.
LEMMA NextKeepsIndInv ==
  ASSUME Prompt
  PROVE  IndInv /\ [Next]_vars => IndInv'
  <1> SUFFICES ASSUME IndInv, [Next]_vars PROVE IndInv'
    OBVIOUS
  <1>0. TypeOK /\ TypeOK'
    BY TypeInductive DEF IndInv
  <1>1. ASSUME NEW a \in Attempts, NEW r \in Requests, Arrive(a, r) PROVE IndInv'
    <2>1. /\ DOMAIN att' = DOMAIN att \cup {a} /\ UNCHANGED <<keys, done>>
          /\ \A b \in DOMAIN att : b # a => att'[b] = att[b]
          /\ att'[a].stage = "reserving" /\ att'[a].reply.code = "none"
      BY <1>1 DEF Arrive
    <2>2. QED
      BY <1>0, <2>1, QuietStep DEF Owner, Answered
  <1>2. ASSUME NEW a \in Attempts, Step(a) PROVE IndInv'
    <2>1. CASE Complete(a)
      <3>1. a \in DOMAIN att /\ Owner(a) /\ done' = done /\ done[Of(a)] = 1
        BY <2>1 DEF Complete, At, Owner, IndInv, EffectsFit
      <3>2. QED
        BY <1>0, <2>1, <3>1, RecordKeepsIndInv DEF Complete
    <2>2. CASE RecordFailure(a)
      <3>1. a \in DOMAIN att /\ att[a].stage = "refusing" /\ done' = done
            /\ Record(Key(a), Of(a), "REFUSED") /\ Answer(a, Of(a), "REFUSED")
        BY <2>2, NothingIsLost DEF RecordFailure, At
      <3>2. Owner(a) /\ done[Of(a)] = 0
        BY <1>0, <3>1, AttemptFields DEF Owner, IndInv, EffectsFit, Key, Of
      <3>3. QED
        BY <1>0, <3>1, <3>2, RecordKeepsIndInv
    <2>3. QED
      BY <1>0, <1>2, <2>1, <2>2, NothingIsLost, ReserveKeepsIndInv, InspectKeepsIndInv,
         TakeOverKeepsIndInv, CommitKeepsIndInv, HandlerKeepsIndInv DEF Step
  <1>3. QED
    <2>1. CASE UNCHANGED vars
      BY <1>0, <2>1 DEF vars, IndInv, StagesFit, OwnersHoldTheirKeys, EffectsFit, AtMostOnce,
        RowsAreTrue, AnswersStayTrue, Answered, TrueOf, Owner, Reserved, Key, Of
    <2>2. QED
      BY <1>0, <1>1, <1>2, <2>1, NothingIsLost, HandlerKeepsIndInv, CrashKeepsIndInv,
         TickKeepsIndInv DEF Next, Server

\* It holds of the empty table.
LEMMA InitIndInv == Init => IndInv
  BY InitType DEF Init, IndInv, StagesFit, OwnersHoldTheirKeys, EffectsFit, AtMostOnce,
    RowsAreTrue, AnswersStayTrue

\* IndInv is an invariant of prompt retries.
LEMMA PromptInvariance ==
  ASSUME Prompt
  PROVE  Spec => []IndInv
  BY InitIndInv, NextKeepsIndInv, PTL DEF Spec

\* A request takes effect at most once, however many attempts carry its key,
\* whatever crashes and whatever bookkeeping fails, if retries are prompt.
THEOREM AtMostOneEffect ==
  ASSUME Prompt
  PROVE  Spec => []AtMostOnce
  <1>1. IndInv => AtMostOnce
    BY DEF IndInv
  <1>2. QED
    BY PromptInvariance, <1>1, PTL

\* And every attempt that is told what became of its request is told the truth.
THEOREM AnswersAreSo ==
  ASSUME Prompt
  PROVE  Spec => []AnswersAreTrue
  <1>1. IndInv => AnswersAreTrue
    BY DEF IndInv, AnswersStayTrue, AnswersAreTrue, Answered, TrueOf
  <1>2. QED
    BY PromptInvariance, <1>1, PTL

\* What a key has answered it goes on answering: only the owner of a key that is
\* in progress writes its row.
LEMMA CompletedStep ==
  ASSUME Prompt, IndInv, [Next]_vars, NEW k \in DOMAIN keys, keys[k].status = "completed"
  PROVE  k \in DOMAIN keys' /\ keys'[k].status = "completed" /\ keys'[k].response = keys[k].response
  <1> DEFINE Kept == k \in DOMAIN keys' /\ keys'[k] = keys[k]
  <1>0. TypeOK
    BY DEF IndInv
  <1>1. ASSUME NEW a \in Attempts, Reserve(a) PROVE Kept
    <2>1. CASE Key(a) \notin DOMAIN keys /\ Put(Key(a), FreshRow(a))
      <3>1. Key(a) \in Keys /\ FreshRow(a) \in KeyRow
        BY <1>0, <1>1, AttemptFields DEF Reserve, At
      <3>2. QED
        BY <1>0, <2>1, <3>1, PutEffect
    <2>2. QED
      BY <1>1, <2>1 DEF Reserve
  <1>2. ASSUME NEW a \in DOMAIN att, Owner(a), NEW code \in {"OK", "REFUSED"},
               Record(Key(a), Of(a), code)
        PROVE  Kept
    <2>1. k # Key(a) /\ Of(a) \in Requests
      BY <1>0, <1>2, AttemptFields DEF IndInv, OwnersHoldTheirKeys, Reserved
    <2>2. QED
      BY <1>0, <1>2, <2>1, RecordEffect
  <1>3. ASSUME NEW a \in Attempts, Complete(a) \/ RecordFailure(a) PROVE Kept
    <2>1. a \in DOMAIN att /\ Owner(a)
      BY <1>3, NothingIsLost DEF Complete, RecordFailure, At, Owner
    <2>2. Record(Key(a), Of(a), "OK") \/ Record(Key(a), Of(a), "REFUSED")
      BY <1>3, NothingIsLost DEF Complete, RecordFailure
    <2>3. QED
      BY <1>2, <2>1, <2>2
  <1>4. ASSUME NEW a \in Attempts, TakeOver(a) PROVE Kept
    <2>1. ~Stale(Key(a))
      BY <1>0, IdempotencyAssumption DEF Prompt, Stale, TypeOK, KeyRow
    <2>2. QED
      BY <1>4, <2>1 DEF TakeOver
  <1>5. CASE Tick
    BY <1>0, <1>5 DEF Tick, TypeOK, KeyRow
  <1>6. CASE UNCHANGED keys
    BY <1>6
  <1>7. QED
    BY <1>1, <1>3, <1>4, <1>5, <1>6, NothingIsLost DEF Next, Server, Step, Arrive, Inspect,
       Commit, ReadBack, HandlerThrows, BookkeepingFails, Crash, vars

\* The answer of a key never changes while retries are prompt.
THEOREM AnswersAreFinal ==
  ASSUME Prompt
  PROVE  Spec => CompletedIsFinal
  <1>1. IndInv /\ [Next]_vars =>
          [\A k \in DOMAIN keys : keys[k].status = "completed" =>
             \/ /\ k \in DOMAIN keys'
                /\ keys'[k].status = "completed" /\ keys'[k].response = keys[k].response
             \/ k \notin DOMAIN keys' /\ keys[k].life >= Lifetime]_vars
    BY CompletedStep
  <1>2. QED
    BY PromptInvariance, <1>1, PTL DEF Spec, CompletedIsFinal

-----------------------------------------------------------------------------
(* The hash of a request *)

\* Only a request with the hash of a completed row is answered from it.
LEMMA ReplayInductive ==
  ASSUME Prompt, IndInv, ReplayInv, [Next]_vars
  PROVE  ReplayInv'
  <1> TypeOK
    BY DEF IndInv
  <1> USE DEF AnswersBearTheHash, Answered, Of, Hash, Key
  <1>1. ASSUME NEW a, DOMAIN att' = DOMAIN att \cup {a}, a \in DOMAIN att',
               \A b \in DOMAIN att : b # a => att'[b] = att[b], keys' = keys,
               Owner(a)' => Owner(a) /\ att'[a].of = att[a].of,
               att'[a].reply.code \in {"OK", "REFUSED"} =>
                 \/ a \in DOMAIN att /\ att'[a].of = att[a].of /\ att'[a].reply = att[a].reply
                 \/ hashRequest(att'[a].reply.of) = hashRequest(att'[a].of)
        PROVE  ReplayInv'
    <2>1. AnswersBearTheHash'
      BY <1>1 DEF ReplayInv
    <2>2. \A b \in DOMAIN att' : Owner(b)' => keys'[KeyOf[att'[b].of]].hash = hashRequest(att'[b].of)
      BY <1>1 DEF ReplayInv, Owner
    <2>3. QED
      BY <1>1, <2>1, <2>2 DEF ReplayInv
  <1>2. ASSUME NEW a \in Attempts, NEW r \in Requests, Arrive(a, r) PROVE ReplayInv'
    <2>1. /\ DOMAIN att' = DOMAIN att \cup {a} /\ keys' = keys
          /\ \A b \in DOMAIN att : b # a => att'[b] = att[b]
          /\ att'[a].stage = "reserving" /\ att'[a].reply.code = "none"
      BY <1>2 DEF Arrive
    <2>2. QED
      BY <1>1, <2>1 DEF Owner
  <1>3. ASSUME NEW a \in DOMAIN att, NEW s \in Working, Goto(a, s), keys' = keys,
               s \in {"running", "committed", "completing", "refusing"} => Owner(a)
        PROVE  ReplayInv'
    BY <1>1, <1>3, GotoEffect DEF Owner
  <1>4. ASSUME NEW a \in DOMAIN att, NEW of, NEW code, [of |-> of, code |-> code] \in Replies,
               Answer(a, of, code), keys' = keys, code \in {"OK", "REFUSED"} => hashRequest(of) = Hash(a)
        PROVE  ReplayInv'
    <2>1. /\ DOMAIN att' = DOMAIN att
          /\ att'[a].stage = "done" /\ att'[a].of = att[a].of
          /\ att'[a].reply.code = code /\ att'[a].reply.of = of
          /\ \A b \in DOMAIN att : b # a => att'[b] = att[b]
      BY <1>4, AnswerEffect
    <2>2. QED
      BY <1>1, <1>4, <2>1 DEF Owner
  <1>5. ASSUME NEW a \in Attempts, Reserve(a) PROVE ReplayInv'
    <2>1. a \in DOMAIN att
      BY <1>5 DEF Reserve, At
    <2>2. CASE Key(a) \notin DOMAIN keys /\ Put(Key(a), FreshRow(a)) /\ Goto(a, "running")
      <3>1. Key(a) \in Keys /\ FreshRow(a) \in KeyRow
        BY <2>1, AttemptFields
      <3>2. /\ DOMAIN keys' = DOMAIN keys \cup {Key(a)}
            /\ keys'[Key(a)] = FreshRow(a)
            /\ \A j \in DOMAIN keys : j # Key(a) => keys'[j] = keys[j]
        BY <2>2, <3>1, PutEffect
      <3>3. /\ DOMAIN att' = DOMAIN att
            /\ att'[a].of = att[a].of /\ att'[a].reply = att[a].reply
            /\ \A b \in DOMAIN att : b # a => att'[b] = att[b]
        BY <2>1, <2>2, GotoEffect DEF Working
      <3>4. \A b \in DOMAIN att : b # a /\ Owner(b)' => Owner(b) /\ Key(b) \in DOMAIN keys
        BY <3>3 DEF Owner, IndInv, OwnersHoldTheirKeys, Reserved
      <3>5. AnswersBearTheHash'
        BY <3>3 DEF ReplayInv
      <3>6. \A b \in DOMAIN att' : Owner(b)' => keys'[KeyOf[att'[b].of]].hash = hashRequest(att'[b].of)
        BY <2>2, <3>2, <3>3, <3>4 DEF ReplayInv, FreshRow
      <3>7. \A k \in DOMAIN keys' :
              keys'[k].status = "completed" => keys'[k].hash = hashRequest(keys'[k].response.of)
        BY <3>2 DEF ReplayInv, FreshRow
      <3>8. QED
        BY <3>5, <3>6, <3>7 DEF ReplayInv
    <2>3. CASE Goto(a, "inspecting") /\ keys' = keys
      BY <1>3, <2>1, <2>3 DEF Working
    <2>4. QED
      BY <1>5, <2>2, <2>3 DEF Reserve
  <1>6. ASSUME NEW a \in Attempts, Inspect(a) PROVE ReplayInv'
    <2>1. a \in DOMAIN att /\ keys' = keys /\ Key(a) \in DOMAIN keys
      BY <1>6 DEF Inspect, At, IndInv, StagesFit
    <2>2. CASE Answer(a, None, "KEY_REUSED")
      BY <1>4, <2>1, <2>2 DEF Replies
    <2>3. CASE Goto(a, "taking_over")
      BY <1>3, <2>1, <2>3 DEF Working
    <2>4. CASE /\ keys[Key(a)].hash = Hash(a) /\ keys[Key(a)].status = "completed"
               /\ Answer(a, keys[Key(a)].response.of, keys[Key(a)].response.code)
      <3> DEFINE p == keys[Key(a)].response
      <3>1. p \in Response /\ hashRequest(p.of) = Hash(a)
        BY <2>1, <2>4 DEF IndInv, RowsAreTrue, ReplayInv
      <3>2. [of |-> p.of, code |-> p.code] \in Replies
        BY <3>1 DEF Response, Replies
      <3>3. QED
        BY <1>4, <2>1, <2>4, <3>1, <3>2
    <2>5. QED
      BY <1>6, <2>1, <2>2, <2>3, <2>4 DEF Inspect
  <1>7. ASSUME NEW a \in Attempts, TakeOver(a) PROVE ReplayInv'
    <2>1. ~Stale(Key(a))
      BY IdempotencyAssumption DEF Prompt, Stale, TypeOK, KeyRow
    <2>2. a \in DOMAIN att /\ Answer(a, None, "IN_PROGRESS") /\ keys' = keys
      BY <1>7, <2>1 DEF TakeOver, At
    <2>3. QED
      BY <1>4, <2>2 DEF Replies
  <1>8. ASSUME NEW a \in Attempts, Commit(a) \/ ReadBack(a) \/ HandlerThrows(a)
        PROVE  ReplayInv'
    <2>1. a \in DOMAIN att /\ keys' = keys /\ Owner(a)
      BY <1>8 DEF Commit, ReadBack, HandlerThrows, At, Owner
    <2>2. Goto(a, "committed") \/ Goto(a, "completing") \/ Goto(a, "refusing")
      BY <1>8 DEF Commit, ReadBack, HandlerThrows, Prompt
    <2>3. QED
      BY <1>3, <2>1, <2>2 DEF Working
  <1>9. ASSUME NEW a \in Attempts, Complete(a) \/ RecordFailure(a) PROVE ReplayInv'
    <2>1. a \in DOMAIN att /\ Owner(a)
      BY <1>9, NothingIsLost DEF Complete, RecordFailure, At, Owner
    <2>2. PICK code \in {"OK", "REFUSED"} : Record(Key(a), Of(a), code) /\ Answer(a, Of(a), code)
      BY <1>9, NothingIsLost DEF Complete, RecordFailure
    <2>3. Of(a) \in Requests /\ Key(a) \in DOMAIN keys
      BY <2>1, AttemptFields DEF IndInv, OwnersHoldTheirKeys, Reserved
    <2>4. [of |-> Of(a), code |-> code] \in Replies
      BY <2>3 DEF Replies, Response
    <2>5. /\ DOMAIN keys' = DOMAIN keys
          /\ keys'[Key(a)].response = [of |-> Of(a), code |-> code]
          /\ \A j \in DOMAIN keys : j # Key(a) => keys'[j] = keys[j]
      BY <2>2, <2>3 DEF Record, TypeOK, KeyRow
    <2>6. keys'[Key(a)].hash = Hash(a)
      BY <2>1, <2>2, <2>3 DEF Record, ReplayInv, TypeOK, KeyRow
    <2>7. /\ DOMAIN att' = DOMAIN att
          /\ att'[a].stage = "done" /\ att'[a].of = att[a].of /\ att'[a].reply.of = Of(a)
          /\ \A b \in DOMAIN att : b # a => att'[b] = att[b]
      BY <2>1, <2>2, <2>4, AnswerEffect
    <2>8. AnswersBearTheHash'
      BY <2>7 DEF ReplayInv
    <2>9. \A b \in DOMAIN att' : Owner(b)' => Owner(b) /\ att'[b].of = att[b].of /\ Key(b) # Key(a)
      BY <2>1, <2>7 DEF Owner, IndInv, OwnersHoldTheirKeys
    <2>10. \A b \in DOMAIN att' : Owner(b)' => keys'[KeyOf[att'[b].of]].hash = hashRequest(att'[b].of)
      BY <2>5, <2>7, <2>9 DEF ReplayInv, IndInv, OwnersHoldTheirKeys, Reserved
    <2>11. \A k \in DOMAIN keys' :
             keys'[k].status = "completed" => keys'[k].hash = hashRequest(keys'[k].response.of)
      BY <2>5, <2>6 DEF ReplayInv
    <2>12. QED
      BY <2>8, <2>10, <2>11 DEF ReplayInv
  <1>10. ASSUME NEW a \in Attempts, BookkeepingFails(a) PROVE ReplayInv'
    <2>1. a \in DOMAIN att /\ keys' = keys
      BY <1>10 DEF BookkeepingFails, At
    <2>2. [of |-> None, code |-> "FAILED"] \in Replies /\ [of |-> Of(a), code |-> "REFUSED"] \in Replies
      BY <2>1, AttemptFields DEF Replies, Response
    <2>3. QED
      BY <1>4, <1>10, <2>1, <2>2 DEF BookkeepingFails
  <1>11. CASE Crash
    <2>1. DOMAIN att' = DOMAIN att /\ keys' = keys
      BY <1>11 DEF Crash
    <2>2. \A b \in DOMAIN att :
            /\ att'[b].stage = "done" /\ att'[b].of = att[b].of
            /\ att'[b].reply = att[b].reply \/ att'[b].reply.code = "LOST"
      BY <1>11 DEF Crash, InFlight, TypeOK, Attempt
    <2>3. AnswersBearTheHash'
      BY <2>1, <2>2 DEF ReplayInv
    <2>4. \A b \in DOMAIN att' : ~Owner(b)'
      BY <2>1, <2>2 DEF Owner
    <2>5. QED
      BY <2>1, <2>3, <2>4 DEF ReplayInv
  <1>12. CASE Tick
    <2>1. /\ DOMAIN keys' = DOMAIN keys /\ att' = att
          /\ \A k \in DOMAIN keys : /\ keys'[k].status = keys[k].status
                                  /\ keys'[k].response = keys[k].response
                                  /\ keys'[k].hash = keys[k].hash
      BY <1>12 DEF Tick, TypeOK, KeyRow
    <2>2. \A b \in DOMAIN att : Owner(b) => Key(b) \in DOMAIN keys
      BY DEF IndInv, OwnersHoldTheirKeys, Reserved
    <2>3. QED
      BY <2>1, <2>2 DEF ReplayInv, Owner
  <1>13. CASE UNCHANGED vars
    BY <1>13 DEF vars, ReplayInv, Owner
  <1>14. QED
    BY <1>2, <1>5, <1>6, <1>7, <1>8, <1>9, <1>10, <1>11, <1>12, <1>13, NothingIsLost
       DEF Next, Server, Step

\* Whatever requests share a key, and whether or not their hashes tell them apart,
\* none is answered with the outcome of one with another endpoint or another body,
\* if retries are prompt.
THEOREM ReplaysAreOfOneAlike ==
  ASSUME Prompt
  PROVE  Spec => []ReplayAnswersOneAlike
  <1>1. Init => ReplayInv
    BY DEF Init, ReplayInv, AnswersBearTheHash
  <1>2. IndInv /\ ReplayInv /\ [Next]_vars => ReplayInv'
    BY ReplayInductive
  <1>3. ReplayInv => ReplayAnswersOneAlike
    BY DEF ReplayInv, AnswersBearTheHash, ReplayAnswersOneAlike, Answered, Hash, Of, hashRequest
  <1>4. QED
    BY PromptInvariance, <1>1, <1>2, <1>3, PTL DEF Spec

-----------------------------------------------------------------------------
(* The client's side *)


\* Every step is, for the server, one of its own steps or none.
LEMMA AgentStepIsServerStep == [AgentNext]_allVars => [Next]_vars
  BY DEF AgentNext, allVars, vars, CommitAction, Client, Hear, TimeOut, Unreachable, Send,
    AllTold, Next

\* Only a new attempt in its place changes what an attempt is of.
LEMMA AttemptsKeepTheirRequest ==
  ASSUME TypeOK, Server \/ UNCHANGED vars, NEW a \in DOMAIN att
  PROVE  a \in DOMAIN att' /\ att'[a].of = att[a].of
  <1>1. ASSUME NEW b \in DOMAIN att, NEW s, Goto(b, s)
        PROVE  a \in DOMAIN att' /\ att'[a].of = att[a].of
    BY <1>1 DEF Goto, TypeOK, Attempt
  <1>2. ASSUME NEW b \in DOMAIN att, NEW of, NEW code, Answer(b, of, code)
        PROVE  a \in DOMAIN att' /\ att'[a].of = att[a].of
    BY <1>2 DEF Answer, TypeOK, Attempt
  <1>3. CASE Crash
    BY <1>3 DEF Crash, TypeOK, Attempt
  <1>4. CASE UNCHANGED att
    BY <1>4
  <1>5. ASSUME NEW b \in Attempts, Step(b)
        PROVE  a \in DOMAIN att' /\ att'[a].of = att[a].of
    <2>1. b \in DOMAIN att
      BY <1>5 DEF Step, At, Reserve, Inspect, Claim, TakeOver, Commit, ReadBack,
         HandlerThrows, Complete, RecordFailure
    <2>2. QED
      BY <1>1, <1>2, <1>5, <2>1 DEF Step, Reserve, Inspect, Claim, TakeOver, Commit, ReadBack,
         HandlerThrows, Complete, RecordFailure
  <1>6. ASSUME NEW b \in Attempts, BookkeepingFails(b)
        PROVE  a \in DOMAIN att' /\ att'[a].of = att[a].of
    BY <1>2, <1>6 DEF BookkeepingFails, At
  <1>7. QED
    BY <1>3, <1>4, <1>5, <1>6 DEF Server, Sweep, Tick, vars

\* What one client does leaves the others' calls alone and its own well formed.
LEMMA OneCallChanges ==
  ASSUME AgentInv, [Next]_vars, OKInv', NEW r \in Requests, NEW c \in Call,
         call' = [call EXCEPT ![r] = c],
         \A q \in Requests \ {r} : call[q].stage = "waiting" =>
           call[q].on \in DOMAIN att' /\ att'[call[q].on].of = q,
         IF c.stage = "waiting" THEN c.on \in DOMAIN att' /\ att'[c.on].of = r ELSE c.on = None,
         c.outcome = "success" => done'[r] > 0
  PROVE  AgentInv'
  <1>1. call \in [Requests -> Call] /\ call' \in [Requests -> Call]
    BY DEF AgentInv, CallTypeOK
  <1>2. call'[r] = c /\ \A q \in Requests \ {r} : call'[q] = call[q]
    BY <1>1
  <1>3. CallsFit'
    BY <1>2 DEF AgentInv, CallsFit
  <1>4. SuccessIsReal'
    <2>1. \A q \in Requests : done[q] > 0 => done'[q] > 0
      BY EffectsLast DEF AgentInv, OKInv
    <2>2. QED
      BY <1>2, <2>1 DEF AgentInv, SuccessIsReal
  <1>5. QED
    BY <1>1, <1>3, <1>4 DEF AgentInv, CallTypeOK

\* No step of the agent, its client or the server makes a success unreal.
LEMMA AgentInductive ==
  ASSUME OwnKeys
  PROVE  AgentInv /\ [AgentNext]_allVars => AgentInv'
  <1> SUFFICES ASSUME AgentInv, [AgentNext]_allVars PROVE AgentInv'
    OBVIOUS
  <1>0. [Next]_vars /\ OKInv /\ OKInv' /\ TypeOK /\ call \in [Requests -> Call]
    BY AgentStepIsServerStep, OKInductive DEF AgentInv, OKInv, CallTypeOK
  <1>1. ASSUME NEW r \in Requests, UNCHANGED vars, NEW c \in Call,
               call' = [call EXCEPT ![r] = c],
               c.stage # "waiting", c.on = None,
               c.outcome = "success" => c.outcome = call[r].outcome \/ done[r] > 0
        PROVE  AgentInv'
    <2>1. \A q \in Requests \ {r} : call[q].stage = "waiting" =>
            call[q].on \in DOMAIN att' /\ att'[call[q].on].of = q
      BY <1>1 DEF AgentInv, CallsFit, vars
    <2>2. c.outcome = "success" => done'[r] > 0
      BY <1>1 DEF AgentInv, SuccessIsReal, vars
    <2>3. QED
      BY <1>0, <1>1, <2>1, <2>2, OneCallChanges
  <1>2. ASSUME NEW r \in Requests, NEW code, Retry(r, code), UNCHANGED vars PROVE AgentInv'
    <2>1. call[r] \in Call
      BY <1>0
    <2>0. 0 \in 0..MaxRetries /\ (call[r].try < MaxRetries => call[r].try + 1 \in 0..MaxRetries)
      BY <2>1, AgentWriteAssumption DEF Call
    <2>2. CASE call[r].try < MaxRetries
      <3> DEFINE c == [call[r] EXCEPT !.stage = "sending", !.try = call[r].try + 1, !.on = None]
      <3>1. c \in Call
        BY <2>0, <2>1, <2>2 DEF Call
      <3>2. call' = [call EXCEPT ![r] = c]
        BY <1>0, <1>2, <2>2 DEF Retry, Set
      <3>3. c.stage # "waiting" /\ c.on = None /\ c.outcome = call[r].outcome
        BY <2>1 DEF Call
      <3> HIDE DEF c
      <3>4. QED
        BY <1>1, <1>2, <3>1, <3>2, <3>3
    <2>3. CASE ~(call[r].try < MaxRetries)
      <3>1. PICK o \in {"unknown", "failed"} : Tell(r, o, "told")
        BY <1>2, <2>3 DEF Retry
      <3> DEFINE c == [call[r] EXCEPT !.stage = "told", !.on = None, !.try = 0, !.outcome = o]
      <3>2. c \in Call
        BY <2>0, <2>1 DEF Call, Outcomes
      <3>3. call' = [call EXCEPT ![r] = c]
        BY <1>0, <3>1 DEF Tell
      <3>4. c.stage # "waiting" /\ c.on = None /\ c.outcome # "success"
        BY <2>1 DEF Call
      <3> HIDE DEF c
      <3>5. QED
        BY <1>1, <1>2, <3>2, <3>3, <3>4
    <2>4. QED
      BY <2>2, <2>3
  <1>3. ASSUME NEW r \in Requests, NEW o \in {"success", "failed"}, Tell(r, o, "dropped"),
               UNCHANGED vars, o = "success" => done[r] > 0
        PROVE  AgentInv'
    <2> DEFINE c == [call[r] EXCEPT !.stage = "dropped", !.on = None, !.try = 0, !.outcome = o]
    <2>1. call[r] \in Call
      BY <1>0
    <2>0. 0 \in 0..MaxRetries
      BY AgentWriteAssumption
    <2>2. c \in Call
      BY <2>0, <2>1 DEF Call, Outcomes
    <2>3. call' = [call EXCEPT ![r] = c]
      BY <1>0, <1>3 DEF Tell
    <2>4. c.stage # "waiting" /\ c.on = None /\ c.outcome = o
      BY <2>1 DEF Call
    <2> HIDE DEF c
    <2>5. QED
      BY <1>1, <1>3, <2>2, <2>3, <2>4
  <1>4. ASSUME NEW r \in Requests, CommitAction(r) PROVE AgentInv'
    <2> DEFINE c == [call[r] EXCEPT !.stage = "sending", !.try = 0,
                                    !.commits = call[r].commits + 1, !.outcome = "none"]
    <2>1. call[r] \in Call /\ call[r].on = None
      BY <1>0, <1>4 DEF AgentInv, CallsFit, CommitAction
    <2>0. 0 \in 0..MaxRetries /\ call[r].commits + 1 \in 0..MaxCommits
      BY <1>4, <2>1, AgentWriteAssumption DEF Call, CommitAction
    <2>2. c \in Call
      BY <2>0, <2>1 DEF Call, Outcomes
    <2>3. call' = [call EXCEPT ![r] = c] /\ UNCHANGED vars
      BY <1>0, <1>4 DEF CommitAction
    <2>4. c.stage # "waiting" /\ c.on = None /\ c.outcome = "none"
      BY <2>1 DEF Call
    <2> HIDE DEF c
    <2>5. QED
      BY <1>1, <2>2, <2>3, <2>4
  <1>5. ASSUME NEW r \in Requests, NEW a \in Attempts, Send(r, a) PROVE AgentInv'
    <2> DEFINE c == [call[r] EXCEPT !.stage = "waiting", !.on = a]
    <2>1. call[r] \in Call
      BY <1>0
    <2>2. c \in Call
      BY <2>1 DEF Call
    <2>3. call' = [call EXCEPT ![r] = c]
      BY <1>0, <1>5, <2>1 DEF Send, Set, Call
    <2>4. c.stage = "waiting" /\ c.on = a /\ c.outcome = call[r].outcome
      BY <2>1 DEF Call
    <2>5. /\ DOMAIN att' = DOMAIN att \cup {a} /\ att'[a].of = r /\ done' = done
          /\ \A b \in DOMAIN att : b # a => att'[b] = att[b]
      BY <1>5 DEF Send, Arrive
    <2>6. \A q \in Requests : call[q].on # a
      BY <1>5 DEF Send
    <2> HIDE DEF c
    <2>7. \A q \in Requests \ {r} : call[q].stage = "waiting" =>
            call[q].on \in DOMAIN att' /\ att'[call[q].on].of = q
      BY <2>5, <2>6 DEF AgentInv, CallsFit
    <2>8. c.outcome = "success" => done'[r] > 0
      BY <2>4, <2>5 DEF AgentInv, SuccessIsReal
    <2>9. QED
      BY <1>0, <2>2, <2>3, <2>4, <2>5, <2>7, <2>8, OneCallChanges
  <1>6. ASSUME NEW r \in Requests, Hear(r) PROVE AgentInv'
    <2> DEFINE a == call[r].on
               code == att[a].reply.code
    <2>1. a \in DOMAIN att /\ att[a].of = r /\ UNCHANGED vars
      BY <1>6 DEF Hear, AgentInv, CallsFit
    <2>2. code = "OK" => done[r] > 0
      <3>1. ASSUME code = "OK" PROVE done[r] > 0
        <4>1. done[att[a].reply.of] > 0 /\ KeyOf[att[a].reply.of] = KeyOf[r]
          BY <1>0, <2>1, <3>1 DEF OKInv, OKMeansDone, Key
        <4>2. att[a].reply.of \in Requests
          BY <1>0, <2>1, <3>1 DEF TypeOK, Attempt, Replies, Response
        <4>3. QED
          BY <4>1, <4>2 DEF OwnKeys
      <3>2. QED
        BY <3>1
    <2>3. CASE code = "OK" /\ Tell(r, "success", "dropped")
      BY <1>3, <2>1, <2>2, <2>3
    <2>4. CASE Tell(r, "failed", "dropped")
      BY <1>3, <2>1, <2>4
    <2>5. CASE Retry(r, code) \/ Retry(r, "NETWORK_ERROR")
      BY <1>2, <2>1, <2>5
    <2>6. QED
      BY <1>6, <2>3, <2>4, <2>5 DEF Hear
  <1>7. ASSUME NEW r \in Requests, TimeOut(r) \/ Unreachable(r) PROVE AgentInv'
    BY <1>2, <1>7 DEF TimeOut, Unreachable
  <1>8. CASE (Server \/ UNCHANGED vars) /\ UNCHANGED call
    <2>1. \A a \in DOMAIN att : a \in DOMAIN att' /\ att'[a].of = att[a].of
      BY <1>0, <1>8, AttemptsKeepTheirRequest
    <2>2. CallsFit'
      BY <1>8, <2>1 DEF AgentInv, CallsFit
    <2>3. SuccessIsReal'
      BY <1>0, <1>8, EffectsLast DEF AgentInv, SuccessIsReal
    <2>4. QED
      BY <1>0, <1>8, <2>2, <2>3 DEF AgentInv, CallTypeOK
  <1>9. QED
    BY <1>4, <1>5, <1>6, <1>7, <1>8 DEF AgentNext, Client, AllTold, allVars, vars

\* Nothing is told at the start.
LEMMA AgentInitInv == AgentInit => AgentInv
  BY InitOK, AgentWriteAssumption DEF AgentInit, AgentInv, CallTypeOK, CallsFit, SuccessIsReal,
    Call, Outcomes

\* AgentInv is an invariant when every staged action has a key of its own.
LEMMA AgentInvariance ==
  ASSUME OwnKeys
  PROVE  AgentSpec => []AgentInv
  BY AgentInitInv, AgentInductive, PTL DEF AgentSpec

\* A caller is told of success only when the write happened, for any number of
\* tries, whatever the line, the server and its bookkeeping lose or repeat.
THEOREM SuccessIsNeverInvented ==
  ASSUME OwnKeys
  PROVE  AgentSpec => []SuccessIsReal
  <1>1. AgentInv => SuccessIsReal
    BY DEF AgentInv
  <1>2. QED
    BY AgentInvariance, <1>1, PTL

\* The client's retry counter and the rest of its locals keep their types.
THEOREM CallTypeCorrect ==
  ASSUME OwnKeys
  PROVE  AgentSpec => []CallTypeOK
  <1>1. AgentInv => CallTypeOK
    BY DEF AgentInv
  <1>2. QED
    BY AgentInvariance, <1>1, PTL
=============================================================================
