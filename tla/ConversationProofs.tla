-------------------------- MODULE ConversationProofs --------------------------
(***************************************************************************)
(* Proofs about Conversation, for any number of turns, overlapping as they *)
(* may, and whatever the model calls.                                      *)
(***************************************************************************)
EXTENDS Conversation, TLAPS

\* What a step of turn t must bring about for the invariant to hold when it
\* leaves the session s and the turn's own locals turn.
Sound(t, s, turn) ==
  /\ s \in Session /\ turn \in Turn
  /\ s.turnCount = session.turnCount /\ session.minted <= s.minted
  /\ turn.alone = turns[t].alone
  /\ refused' \subseteq 1..s.minted
  /\ s.pending # None =>
       /\ s.pending.key \in 1..s.minted \ refused'
       /\ s.pending.stagedOnTurn <= s.turnCount
       /\ turn.alone /\ s.pending.stagedOnTurn < t => turn.yes
  /\ \A a \in turn.awaited : a.write # None =>
       /\ a.write.key \in 1..s.minted
       /\ turn.alone /\ turn.calls = 1 => a.write.stagedOnTurn < t /\ turn.yes
  /\ s.state = "EXECUTING" =>
       \/ \E a \in turn.awaited : a.write # None
       \/ \E u \in DOMAIN turns \ {t} : Writes(u) # {}

\* A call that has just begun satisfies the invariant.
LEMMA InitSound == Init => IndInv
  <1> SUFFICES ASSUME Init PROVE IndInv
    OBVIOUS
  <1>1. DOMAIN turns = {}
    BY DEF Init
  <1>2. session \in Session
    BY ConversationAssumption DEF Init, Session, States
  <1>3. session.pending = None /\ session.state # "EXECUTING" /\ refused = {}
        /\ session.failures = 0 /\ session.stalled = 0
    BY DEF Init
  <1> QED
    BY <1>1, <1>2, <1>3, ConversationAssumption
    DEF IndInv, TypeOK, TurnsFit, KeysAreFresh, GateFits, UndisturbedTurnsAsk,
        ExecutingMeansWriting, StuckCallersReachAPerson

\* The other turns lose nothing when turn t leaves s behind: they are not alone.
LEMMA OthersKeep ==
  ASSUME IndInv, NEW t \in DOMAIN turns, NEW s, NEW turn, Sound(t, s, turn),
         NEW u \in DOMAIN turns, u # t
  PROVE  /\ turns[u] \in Turn /\ ~turns[u].alone
         /\ turns[u].stage # "working" => turns[u].awaited = {}
         /\ \A a \in turns[u].awaited : a.write # None => a.write.key \in 1..s.minted
  <1>1. turns[u] \in Turn /\ (turns[u].stage # "working" => turns[u].awaited = {})
        /\ ~turns[u].alone
    <2>1. turns[u] \in Turn
      BY DEF IndInv, TypeOK
    <2>2. turns[u].stage # "working" => turns[u].awaited = {}
      BY DEF IndInv, TurnsFit
    <2>3. turns[u].alone => DOMAIN turns = {u}
      BY DEF IndInv, TurnsFit
    <2> QED
      BY <2>1, <2>2, <2>3
  <1>2. session.minted \in Nat /\ s.minted \in Nat /\ session.minted <= s.minted
    BY ConversationAssumption DEF IndInv, TypeOK, Sound, Session
  <1>3. ASSUME NEW a \in turns[u].awaited, a.write # None PROVE a.write.key \in 1..session.minted
    BY <1>3 DEF IndInv, KeysAreFresh, Writes
  <1> QED
    BY <1>1, <1>2, <1>3

\* A turn that goes on, to the model or to what it awaits, keeps the invariant.
LEMMA ResumeKeeps ==
  ASSUME IndInv, NEW t \in DOMAIN turns, NEW s, NEW turn, Sound(t, s, turn),
         NEW next \in Turn, Resume(t, s, next),
         next.stage \in {"thinking", "working"},
         next.stage = "thinking" => next.awaited = {} /\ next.tools = ToolsForState(s),
         next.awaited = turn.awaited, next.yes = turn.yes, next.alone = turn.alone,
         next.stage = "working" => next.calls = turn.calls
  PROVE  IndInv'
  <1>1. /\ session' = s /\ DOMAIN turns' = DOMAIN turns /\ turns'[t] = next
        /\ \A u \in DOMAIN turns : u # t => turns'[u] = turns[u]
    BY DEF Resume
  <1>2. DOMAIN turns \subseteq 1..MaxTurns /\ DOMAIN turns \subseteq 1..session.turnCount
    BY DEF IndInv, TypeOK, TurnsFit
  <1>3. s.turnCount = session.turnCount /\ next.alone = turns[t].alone
    BY DEF Sound
  <1>4. turns[t].alone => DOMAIN turns = {t} /\ session.turnCount = t
    BY DEF IndInv, TurnsFit
  <1>5. s.minted \in 0..MaxStaged /\ MaxStaged \in Nat
    BY ConversationAssumption DEF Sound, Session
  <1>6. TypeOK'
    <2>1. refused' \subseteq 1..MaxStaged
      BY <1>5 DEF Sound
    <2>2. ASSUME NEW u \in DOMAIN turns' PROVE turns'[u] \in Turn
      BY <1>1, OthersKeep
    <2> QED
      BY <1>1, <1>2, <2>1, <2>2 DEF TypeOK, Sound
  <1>7. TurnsFit'
    <2>1. ASSUME NEW u \in DOMAIN turns'
          PROVE  /\ turns'[u].stage # "working" => turns'[u].awaited = {}
                 /\ turns'[u].alone => DOMAIN turns' = {u} /\ session'.turnCount = u
      BY <1>1, <1>3, <1>4, OthersKeep
    <2> QED
      BY <1>1, <1>2, <1>3, <2>1 DEF TurnsFit
  <1>8. KeysAreFresh'
    <2>1. ASSUME NEW u \in DOMAIN turns', NEW a \in turns'[u].awaited, a.write # None
          PROVE  a.write.key \in 1..s.minted
      BY <1>1, <2>1, OthersKeep DEF Sound
    <2> QED
      BY <1>1, <2>1 DEF KeysAreFresh, Writes, Sound
  <1>9. GateFits'
    <2>1. ASSUME NEW u \in DOMAIN turns', turns'[u].alone PROVE u = t
      BY <1>1, <2>1, OthersKeep
    <2>2. ASSUME next.alone, s.pending # None, s.pending.stagedOnTurn < t PROVE next.yes
      BY <2>2 DEF Sound
    <2>3. ASSUME next.alone, next.stage = "thinking", "commit" \in next.tools
          PROVE  s.pending # None /\ s.pending.stagedOnTurn < t
      BY <2>3, <1>3, <1>4 DEF ToolsForState
    <2> QED
      BY <1>1, <2>1, <2>2, <2>3 DEF GateFits
  <1>10. UndisturbedTurnsAsk'
    <2>1. ASSUME NEW u \in DOMAIN turns', turns'[u].alone PROVE u = t
      BY <1>1, <2>1, OthersKeep
    <2>2. ASSUME next.alone, next.calls = 1, NEW a \in next.awaited, a.write # None
          PROVE  a.write.stagedOnTurn < t /\ next.yes
      BY <2>2 DEF Sound
    <2> QED
      BY <1>1, <2>1, <2>2 DEF UndisturbedTurnsAsk, Writes
  <1>11. ExecutingMeansWriting'
    <2>1. CASE \E a \in turn.awaited : a.write # None
      BY <1>1, <2>1 DEF ExecutingMeansWriting, Writes
    <2>2. CASE \E u \in DOMAIN turns \ {t} : Writes(u) # {}
      BY <1>1, <2>2 DEF ExecutingMeansWriting, Writes
    <2> QED
      BY <1>1, <2>1, <2>2 DEF ExecutingMeansWriting, Sound
  <1>12. StuckCallersReachAPerson'
    BY <1>1 DEF StuckCallersReachAPerson
  <1> QED
    BY <1>6, <1>7, <1>8, <1>9, <1>10, <1>11, <1>12 DEF IndInv

\* So does one that ends: it leaves nothing awaited, and a caller who is stuck
\* has been offered a person.
LEMMA ReplyKeeps ==
  ASSUME IndInv, NEW t \in DOMAIN turns, NEW s, NEW turn, Sound(t, s, turn),
         turn.awaited = {}, NEW understood \in BOOLEAN, Reply(t, s, turn, understood)
  PROVE  IndInv'
  <1> DEFINE stalled == IF turn.acted \/ understood THEN 0 ELSE s.stalled + 1
             spoken == [turn EXCEPT !.stage = "speaking", !.tools = {}, !.round = 1,
                                    !.calls = 0, !.acted = FALSE, !.committed = FALSE]
  <1>0. s \in Session /\ turn \in Turn
    BY DEF Sound
  <1>1. /\ session' \in Session
        /\ session'.pending = s.pending /\ session'.minted = s.minted
        /\ session'.turnCount = s.turnCount /\ session'.failures = s.failures
        /\ session'.stalled = stalled /\ stalled \in Nat
        /\ session'.escalation = (s.escalation \/ Stuck(s, stalled))
        /\ session'.state \in {s.state, "ESCALATION"}
    <2> DEFINE esc == s.escalation \/ Stuck(s, stalled)
               st  == IF Stuck(s, stalled) THEN "ESCALATION" ELSE s.state
    <2>1. session' = [s EXCEPT !.stalled = stalled, !.escalation = esc, !.state = st]
      BY DEF Reply
    <2>2. stalled \in Nat
      BY <1>0 DEF Session
    <2>3. esc \in BOOLEAN
      BY <1>0 DEF Session
    <2>4. st \in States /\ st \in {s.state, "ESCALATION"}
      BY <1>0 DEF Session, States
    <2> HIDE DEF stalled, esc, st
    <2>5. session' \in Session
      BY <1>0, <2>1, <2>2, <2>3, <2>4 DEF Session
    <2>6. /\ session'.pending = s.pending /\ session'.minted = s.minted
          /\ session'.turnCount = s.turnCount /\ session'.failures = s.failures
          /\ session'.stalled = stalled /\ session'.escalation = esc /\ session'.state = st
      BY <1>0, <2>1 DEF Session
    <2> QED
      BY <2>2, <2>4, <2>5, <2>6 DEF esc
  <1>2. spoken \in Turn /\ spoken.stage = "speaking" /\ spoken.awaited = {}
        /\ spoken.alone = turn.alone /\ spoken.yes = turn.yes
    <2> DEFINE st == "speaking"
               T  == {}
               r  == 1
               c  == 0
               no == FALSE
    <2>1. /\ st \in {"thinking", "working", "speaking"} /\ T \in SUBSET Tools
          /\ r \in 1..MaxToolRounds /\ c \in 0..2 /\ no \in BOOLEAN
      BY ConversationAssumption
    <2> DEFINE next == [turn EXCEPT !.stage = st, !.tools = T, !.round = r, !.calls = c,
                                    !.acted = no, !.committed = no]
    <2>2. spoken = next /\ st = "speaking"
      OBVIOUS
    <2> HIDE DEF st, T, r, c, no, spoken
    <2>3. /\ next \in Turn /\ next.stage = st /\ next.awaited = turn.awaited
          /\ next.alone = turn.alone /\ next.yes = turn.yes
      BY <1>0, <2>1 DEF Turn
    <2> HIDE DEF next
    <2> QED
      BY <2>2, <2>3
  <1>3. /\ DOMAIN turns' \subseteq DOMAIN turns
        /\ \A u \in DOMAIN turns' : IF u = t THEN turns'[u] = spoken ELSE turns'[u] = turns[u]
        /\ \A u \in DOMAIN turns \ {t} : u \in DOMAIN turns'
    BY DEF Reply, Leave
  <1>4. DOMAIN turns \subseteq 1..MaxTurns /\ DOMAIN turns \subseteq 1..session.turnCount
    BY DEF IndInv, TypeOK, TurnsFit
  <1>5. s.turnCount = session.turnCount /\ turn.alone = turns[t].alone
    BY DEF Sound
  <1>6. turns[t].alone => DOMAIN turns = {t} /\ session.turnCount = t
    BY DEF IndInv, TurnsFit
  <1>7. s.minted \in 0..MaxStaged /\ MaxStaged \in Nat
    BY <1>0, ConversationAssumption DEF Session
  <1>8. TypeOK'
    <2>1. refused' \subseteq 1..MaxStaged
      BY <1>7 DEF Sound
    <2>2. ASSUME NEW u \in DOMAIN turns' PROVE turns'[u] \in Turn
      BY <1>2, <1>3, OthersKeep
    <2> QED
      BY <1>1, <1>3, <1>4, <2>1, <2>2 DEF TypeOK
  <1>9. TurnsFit'
    <2>1. ASSUME NEW u \in DOMAIN turns'
          PROVE  /\ turns'[u].stage # "working" => turns'[u].awaited = {}
                 /\ turns'[u].alone => DOMAIN turns' = {u} /\ session'.turnCount = u
      <3>1. CASE u = t
        BY <1>1, <1>2, <1>3, <1>5, <1>6, <3>1
      <3>2. CASE u # t
        BY <1>3, <3>2, OthersKeep
      <3> QED
        BY <3>1, <3>2
    <2> QED
      BY <1>1, <1>3, <1>4, <1>5, <2>1 DEF TurnsFit
  <1>10. KeysAreFresh'
    <2>1. ASSUME NEW u \in DOMAIN turns', NEW a \in turns'[u].awaited, a.write # None
          PROVE  a.write.key \in 1..s.minted
      BY <1>2, <1>3, <2>1, OthersKeep
    <2> QED
      BY <1>1, <2>1 DEF KeysAreFresh, Writes, Sound
  <1>11. GateFits'
    <2>1. ASSUME NEW u \in DOMAIN turns', turns'[u].alone PROVE u = t
      BY <1>3, <2>1, OthersKeep
    <2>2. ASSUME turn.alone, s.pending # None, s.pending.stagedOnTurn < t PROVE turn.yes
      BY <2>2 DEF Sound
    <2> QED
      BY <1>1, <1>2, <1>3, <2>1, <2>2 DEF GateFits
  <1>12. UndisturbedTurnsAsk'
    <2>1. ASSUME NEW u \in DOMAIN turns', turns'[u].alone PROVE u = t
      BY <1>3, <2>1, OthersKeep
    <2> QED
      BY <1>2, <1>3, <2>1 DEF UndisturbedTurnsAsk, Writes
  <1>13. ExecutingMeansWriting'
    <2>1. ASSUME s.state = "EXECUTING"
          PROVE  \E u \in DOMAIN turns \ {t} : Writes(u) # {}
      BY <2>1 DEF Sound
    <2> QED
      BY <1>1, <1>3, <2>1 DEF ExecutingMeansWriting, Writes
  <1>14. StuckCallersReachAPerson'
    BY <1>0, <1>1 DEF StuckCallersReachAPerson, Stuck
  <1> QED
    BY <1>8, <1>9, <1>10, <1>11, <1>12, <1>13, <1>14 DEF IndInv

\* Either way of going on after a round keeps the invariant.
LEMMA ContinueKeeps ==
  ASSUME IndInv, NEW t \in DOMAIN turns, NEW s, NEW turn, Sound(t, s, turn),
         Continue(t, s, turn)
  PROVE  IndInv'
  <1>0. turn \in Turn
    BY DEF Sound
  <1>1. CASE turn.awaited # {} /\ Resume(t, s, [turn EXCEPT !.stage = "working"])
    <2> DEFINE next == [turn EXCEPT !.stage = "working"]
    <2>1. /\ next \in Turn /\ next.stage = "working" /\ next.awaited = turn.awaited
          /\ next.yes = turn.yes /\ next.alone = turn.alone /\ next.calls = turn.calls
      BY <1>0 DEF Turn
    <2> HIDE DEF next
    <2> QED
      BY <1>1, <2>1, ResumeKeeps DEF next
  <1>2. CASE turn.awaited = {} /\ Reply(t, s, turn, TRUE)
    BY <1>2, ReplyKeeps
  <1>3. CASE /\ turn.awaited = {} /\ turn.round < MaxToolRounds
             /\ Resume(t, s, [turn EXCEPT !.stage = "thinking", !.round = @ + 1, !.calls = 0,
                                          !.tools = ToolsForState(s)])
    <2> DEFINE next == [turn EXCEPT !.stage = "thinking", !.round = @ + 1, !.calls = 0,
                                    !.tools = ToolsForState(s)]
    <2>1. ToolsForState(s) \subseteq Tools
      BY DEF ToolsForState
    <2>2. /\ next \in Turn /\ next.stage = "thinking" /\ next.awaited = turn.awaited
          /\ next.yes = turn.yes /\ next.alone = turn.alone /\ next.tools = ToolsForState(s)
      <3> DEFINE st == "thinking"
                 T  == ToolsForState(s)
                 r  == turn.round + 1
                 c  == 0
                 asking == [turn EXCEPT !.stage = st, !.round = r, !.calls = c, !.tools = T]
      <3>1. /\ st \in {"thinking", "working", "speaking"} /\ T \in SUBSET Tools
            /\ r \in 1..MaxToolRounds /\ c \in 0..2
        BY <1>0, <1>3, <2>1, ConversationAssumption DEF Turn
      <3>2. next = asking /\ st = "thinking" /\ T = ToolsForState(s)
        BY <1>0 DEF Turn
      <3> HIDE DEF st, T, r, c, next
      <3>3. /\ asking \in Turn /\ asking.stage = st /\ asking.awaited = turn.awaited
            /\ asking.yes = turn.yes /\ asking.alone = turn.alone /\ asking.tools = T
        BY <1>0, <3>1 DEF Turn
      <3> HIDE DEF asking
      <3> QED
        BY <3>2, <3>3
    <2> HIDE DEF next
    <2> QED
      BY <1>3, <2>2, ResumeKeeps DEF next
  <1> QED
    BY <1>1, <1>2, <1>3 DEF Continue

-----------------------------------------------------------------------------
(* The steps of a turn *)

\* A turn is sound as it stands.
LEMMA SelfSound ==
  ASSUME IndInv, refused' = refused, NEW t \in DOMAIN turns
  PROVE  Sound(t, session, turns[t])
  <1>1. session \in Session /\ turns[t] \in Turn
    BY DEF IndInv, TypeOK
  <1>2. session.minted \in Nat
    BY <1>1, ConversationAssumption DEF Session
  <1>3. session.pending # None =>
          /\ session.pending.key \in 1..session.minted \ refused'
          /\ session.pending.stagedOnTurn <= session.turnCount
          /\ turns[t].alone /\ session.pending.stagedOnTurn < t => turns[t].yes
    BY DEF IndInv, KeysAreFresh, GateFits
  <1>4. ASSUME NEW a \in turns[t].awaited, a.write # None
        PROVE  /\ a.write.key \in 1..session.minted
               /\ turns[t].alone /\ turns[t].calls = 1 =>
                    a.write.stagedOnTurn < t /\ turns[t].yes
    BY <1>4 DEF IndInv, KeysAreFresh, UndisturbedTurnsAsk, Writes
  <1>5. session.state = "EXECUTING" =>
          \/ \E a \in turns[t].awaited : a.write # None
          \/ \E u \in DOMAIN turns \ {t} : Writes(u) # {}
    BY DEF IndInv, ExecutingMeansWriting, Writes
  <1>6. refused' \subseteq 1..session.minted
    BY DEF IndInv, KeysAreFresh
  <1> QED
    BY <1>1, <1>2, <1>3, <1>4, <1>5, <1>6 DEF Sound

\* So is one that has got an answer, whatever the answer, if it leaves EXECUTING
\* when the answer is that of a write.
LEMMA AnsweredSound ==
  ASSUME IndInv, NEW t \in DOMAIN turns, NEW a \in turns[t].awaited, NEW s \in Session,
         s.turnCount = session.turnCount, s.minted = session.minted,
         s.pending \in {session.pending, None},
         refused' \subseteq 1..session.minted,
         s.pending # None => refused' = refused,
         s.state = "EXECUTING" => session.state = "EXECUTING" /\ a.write = None
  PROVE  Sound(t, s, Without(t, a))
  <1> DEFINE turn == Without(t, a)
  <1>1. session \in Session /\ turns[t] \in Turn /\ session.minted \in Nat
    BY ConversationAssumption DEF IndInv, TypeOK, Session
  <1>2. /\ turn \in Turn /\ turn.awaited = turns[t].awaited \ {a}
        /\ turn.alone = turns[t].alone /\ turn.yes = turns[t].yes
        /\ turn.calls = turns[t].calls
    BY <1>1 DEF Turn, Without
  <1> HIDE DEF turn
  <1>3. s.pending # None =>
          /\ s.pending.key \in 1..s.minted \ refused'
          /\ s.pending.stagedOnTurn <= s.turnCount
          /\ turn.alone /\ s.pending.stagedOnTurn < t => turn.yes
    BY <1>2 DEF IndInv, KeysAreFresh, GateFits
  <1>4. ASSUME NEW b \in turn.awaited, b.write # None
        PROVE  /\ b.write.key \in 1..s.minted
               /\ turn.alone /\ turn.calls = 1 => b.write.stagedOnTurn < t /\ turn.yes
    BY <1>2, <1>4 DEF IndInv, KeysAreFresh, UndisturbedTurnsAsk, Writes
  <1>5. s.state = "EXECUTING" =>
          \/ \E b \in turn.awaited : b.write # None
          \/ \E u \in DOMAIN turns \ {t} : Writes(u) # {}
    BY <1>2 DEF IndInv, ExecutingMeansWriting, Writes
  <1> QED
    BY <1>1, <1>2, <1>3, <1>4, <1>5 DEF Sound, turn

\* The model's answer, and its failure, keep the invariant.
LEMMA AnswerKeeps ==
  ASSUME IndInv, NEW t \in DOMAIN turns, Answer(t)
  PROVE  IndInv'
  <1>1. turns[t].awaited = {} /\ refused' = refused
    BY DEF Answer, IndInv, TurnsFit
  <1> QED
    BY <1>1, SelfSound, ReplyKeeps DEF Answer

\* The API's answer to a read keeps it.
LEMMA ReadAnsweredKeeps ==
  ASSUME IndInv, NEW t \in DOMAIN turns, ReadAnswered(t)
  PROVE  IndInv'
  <1>1. PICK a \in turns[t].awaited :
          /\ a.write = None
          /\ \/ Continue(t, session, Without(t, a))
             \/ Continue(t, [session EXCEPT !.state = "IN_TALK"], Without(t, a))
    BY DEF ReadAnswered
  <1>2. session \in Session /\ refused' = refused /\ refused' \subseteq 1..session.minted
    BY DEF ReadAnswered, IndInv, TypeOK, KeysAreFresh
  <1>3. CASE Continue(t, session, Without(t, a))
    BY <1>1, <1>2, <1>3, AnsweredSound, ContinueKeeps
  <1>4. CASE Continue(t, [session EXCEPT !.state = "IN_TALK"], Without(t, a))
    <2> DEFINE s == [session EXCEPT !.state = "IN_TALK"]
    <2>1. /\ s \in Session /\ s.turnCount = session.turnCount /\ s.minted = session.minted
          /\ s.pending = session.pending /\ s.state # "EXECUTING"
      BY <1>2 DEF Session, States
    <2>2. Continue(t, s, Without(t, a))
      BY <1>4
    <2> HIDE DEF s
    <2>3. Sound(t, s, Without(t, a))
      BY <1>2, <2>1, AnsweredSound
    <2> QED
      BY <2>2, <2>3, ContinueKeeps
  <1> QED
    BY <1>1, <1>3, <1>4

\* The API's answer to a write keeps it: the conversation leaves EXECUTING.
LEMMA WriteAnsweredKeeps ==
  ASSUME IndInv, NEW t \in DOMAIN turns, WriteAnswered(t)
  PROVE  IndInv'
  <1>1. session \in Session /\ refused \subseteq 1..session.minted
    BY DEF IndInv, TypeOK, KeysAreFresh
  <1>2. CASE WriteSucceeded(t)
    <2> DEFINE s == [session EXCEPT !.pending = None, !.failures = 0,
                                    !.state = "RESULT_SUCCESS"]
    <2>1. PICK a \in turns[t].awaited : Continue(t, s, Without(t, a))
      BY <1>2 DEF WriteSucceeded
    <2>2. /\ s \in Session /\ s.turnCount = session.turnCount /\ s.minted = session.minted
          /\ s.pending = None /\ s.state # "EXECUTING"
      BY <1>1 DEF Session, States
    <2>3. refused' = refused
      BY <1>2 DEF WriteSucceeded
    <2> HIDE DEF s
    <2>4. Sound(t, s, Without(t, a))
      BY <1>1, <2>2, <2>3, AnsweredSound
    <2> QED
      BY <2>1, <2>4, ContinueKeeps
  <1>3. CASE WriteFailed(t)
    <2> DEFINE s == [session EXCEPT !.failures = @ + 1, !.state = "RESULT_FAILED"]
    <2>1. PICK a \in turns[t].awaited : Continue(t, s, Without(t, a))
      BY <1>3 DEF WriteFailed
    <2>2. /\ s \in Session /\ s.turnCount = session.turnCount /\ s.minted = session.minted
          /\ s.pending = session.pending /\ s.state # "EXECUTING"
      <3> DEFINE f  == session.failures + 1
                 st == "RESULT_FAILED"
                 failed == [session EXCEPT !.failures = f, !.state = st]
      <3>1. f \in Nat /\ st \in States /\ st # "EXECUTING"
        BY <1>1 DEF Session, States
      <3>2. s = failed
        BY <1>1 DEF Session
      <3> HIDE DEF f, st, s
      <3>3. /\ failed \in Session /\ failed.turnCount = session.turnCount
            /\ failed.minted = session.minted /\ failed.pending = session.pending
            /\ failed.state = st
        BY <1>1, <3>1 DEF Session
      <3> HIDE DEF failed
      <3> QED
        BY <3>1, <3>2, <3>3
    <2>3. refused' = refused
      BY <1>3 DEF WriteFailed
    <2> HIDE DEF s
    <2>4. Sound(t, s, Without(t, a))
      BY <1>1, <2>2, <2>3, AnsweredSound
    <2> QED
      BY <2>1, <2>4, ContinueKeeps
  <1>4. CASE WriteRefused(t)
    <2> DEFINE s == [session EXCEPT !.pending = None, !.failures = @ + 1,
                                    !.state = "RESULT_FAILED"]
    <2>1. PICK a \in turns[t].awaited :
            /\ a.write # None /\ refused' = refused \cup {a.write.key}
            /\ Continue(t, s, Without(t, a))
      BY <1>4 DEF WriteRefused
    <2>2. /\ s \in Session /\ s.turnCount = session.turnCount /\ s.minted = session.minted
          /\ s.pending = None /\ s.state # "EXECUTING"
      <3> DEFINE f  == session.failures + 1
                 st == "RESULT_FAILED"
                 failed == [session EXCEPT !.pending = None, !.failures = f, !.state = st]
      <3>1. f \in Nat /\ st \in States /\ st # "EXECUTING"
        BY <1>1 DEF Session, States
      <3>2. s = failed
        BY <1>1 DEF Session
      <3> HIDE DEF f, st, s
      <3>3. /\ failed \in Session /\ failed.turnCount = session.turnCount
            /\ failed.minted = session.minted /\ failed.pending = None
            /\ failed.state = st
        BY <1>1, <3>1 DEF Session
      <3> HIDE DEF failed
      <3> QED
        BY <3>1, <3>2, <3>3
    <2>3. refused' \subseteq 1..session.minted
      BY <1>1, <2>1 DEF IndInv, KeysAreFresh, Writes
    <2> HIDE DEF s
    <2>4. Sound(t, s, Without(t, a))
      BY <2>2, <2>3, AnsweredSound
    <2> QED
      BY <2>1, <2>4, ContinueKeeps
  <1> QED
    BY <1>2, <1>3, <1>4 DEF WriteAnswered

-----------------------------------------------------------------------------
(* The tools *)

\* What the calls of turn t, before they await anything, keep of the session.
Called(t, s) ==
  /\ s \in Session
  /\ s.turnCount = session.turnCount /\ session.minted <= s.minted
  /\ s.pending # None =>
       /\ s.pending.key \in 1..s.minted \ refused
       /\ s.pending.stagedOnTurn <= s.turnCount
       /\ turns[t].alone /\ s.pending.stagedOnTurn < t => turns[t].yes

\* One call keeps it, and enters EXECUTING only with something to await.
LEMMA EffectKeeps ==
  ASSUME IndInv, NEW t \in DOMAIN turns, NEW s, Called(t, s), NEW x \in Calls,
         Effect(s, t, x).minted <= MaxStaged
  PROVE  /\ Called(t, Effect(s, t, x)) /\ s.minted <= Effect(s, t, x).minted
         /\ Effect(s, t, x).state = "EXECUTING" =>
              \/ s.state = "EXECUTING"
              \/ x = "commit" /\ x \in turns[t].tools /\ s.pending # None
  <1> DEFINE after == Effect(s, t, x)
  <1>1. s \in Session /\ s.minted \in Nat /\ t \in 1..MaxTurns /\ refused \subseteq 1..s.minted
    BY ConversationAssumption DEF Called, Session, IndInv, TypeOK, KeysAreFresh
  <1>2. CASE x \notin turns[t].tools
    BY <1>1, <1>2 DEF Effect
  <1>3. CASE x \in turns[t].tools /\ x \in {"tell", "look"}
    <2>1. after = [s EXCEPT !.state = "IN_TALK"]
      BY <1>3 DEF Effect
    <2> HIDE DEF after
    <2>2. /\ after \in Session /\ after.turnCount = s.turnCount /\ after.minted = s.minted
          /\ after.pending = s.pending /\ after.state # "EXECUTING"
      BY <1>1, <2>1 DEF Session, States
    <2>3. Called(t, after) /\ s.minted <= after.minted
      BY <1>1, <2>2 DEF Called
    <2> QED
      BY <2>2, <2>3 DEF after
  <1>4. CASE x \in turns[t].tools /\ x = "propose"
    <2> DEFINE p == [key |-> s.minted + 1, stagedOnTurn |-> s.turnCount, by |-> t,
                     read |-> FALSE]
               m == s.minted + 1
               st == "CONFIRMING"
    <2>1. after = [s EXCEPT !.pending = p, !.minted = m, !.state = st]
      BY <1>1, <1>4 DEF Effect, Stage, Session
    <2>2. after.minted = m
      BY <1>1, <2>1 DEF Session
    <2>3. m \in 0..MaxStaged /\ st \in States /\ st # "EXECUTING" /\ m \in 1..MaxStaged
      BY <1>1, <2>2, ConversationAssumption DEF States
    <2>4. session.turnCount \in 1..MaxTurns /\ t <= session.turnCount
      BY <1>1, ConversationAssumption DEF IndInv, TypeOK, TurnsFit, Session
    <2>5. s.turnCount \in 1..MaxTurns /\ t <= s.turnCount
      BY <2>4 DEF Called
    <2>6. p \in Action \cup {None}
      BY <1>1, <2>3, <2>5 DEF Action
    <2>7. p.key = m /\ p.stagedOnTurn = s.turnCount
      OBVIOUS
    <2> HIDE DEF after, p, m, st
    <2>8. /\ after \in Session /\ after.turnCount = s.turnCount /\ after.minted = m
          /\ after.pending = p /\ after.state # "EXECUTING"
      BY <1>1, <2>1, <2>3, <2>6 DEF Session
    <2>9. s.minted < m /\ m = s.minted + 1
      BY <1>1 DEF m
    <2>10. m \in 1..m \ refused /\ session.minted <= m
      BY <1>1, <2>3, <2>9, ConversationAssumption DEF Called, IndInv, TypeOK, Session
    <2>11. ~(p.stagedOnTurn < t) /\ p.stagedOnTurn <= after.turnCount
      BY <1>1, <2>5, <2>7, <2>8
    <2>12. after.turnCount = session.turnCount
      BY <2>8 DEF Called
    <2>13. Called(t, after)
      BY <2>7, <2>8, <2>10, <2>11, <2>12 DEF Called
    <2> QED
      BY <1>1, <2>3, <2>8, <2>9, <2>13 DEF after
  <1>5. CASE x \in turns[t].tools /\ x = "commit"
    <2>1. CASE s.pending = None
      BY <1>1, <1>5, <2>1 DEF Effect
    <2>2. CASE s.pending # None
      <3>1. after = [s EXCEPT !.state = "EXECUTING"]
        BY <1>5, <2>2 DEF Effect
      <3> HIDE DEF after
      <3>2. /\ after \in Session /\ after.turnCount = s.turnCount
            /\ after.minted = s.minted /\ after.pending = s.pending
        BY <1>1, <3>1 DEF Session, States
      <3>3. Called(t, after) /\ s.minted <= after.minted
        BY <1>1, <3>2 DEF Called
      <3> QED
        BY <1>5, <2>2, <3>3 DEF after
    <2> QED
      BY <2>1, <2>2
  <1>6. CASE x \in turns[t].tools /\ x \in {"callback", "end"}
    <2> DEFINE st  == IF x = "callback" THEN "ESCALATION" ELSE "CLOSING"
               esc == IF x = "callback" THEN TRUE ELSE s.escalation
               end == IF x = "callback" THEN s.ended ELSE TRUE
    <2>1. st \in States /\ st # "EXECUTING" /\ esc \in BOOLEAN /\ end \in BOOLEAN
      BY <1>1 DEF States, Session
    <2>2. after = [s EXCEPT !.state = st, !.escalation = esc, !.ended = end]
      <3>1. CASE x = "callback"
        BY <1>1, <1>6, <3>1 DEF Effect, Session
      <3>2. CASE x = "end"
        BY <1>1, <1>6, <3>2 DEF Effect, Session
      <3> QED
        BY <1>6, <3>1, <3>2
    <2> HIDE DEF after, st, esc, end
    <2>3. /\ after \in Session /\ after.turnCount = s.turnCount /\ after.minted = s.minted
          /\ after.pending = s.pending /\ after.state # "EXECUTING"
      BY <1>1, <2>1, <2>2 DEF Session
    <2>4. Called(t, after) /\ s.minted <= after.minted
      BY <1>1, <2>3 DEF Called
    <2> QED
      BY <2>3, <2>4 DEF after
  <1>7. CASE x \in turns[t].tools /\ x \in {"bad", "resolve"}
    BY <1>1, <1>7 DEF Effect
  <1> QED
    BY <1>2, <1>3, <1>4, <1>5, <1>6, <1>7 DEF Calls, Tools

\* What a call awaits has a type, is an action staged by then, and is a write
\* if the call is a commit that had something to commit.
LEMMA AwaitsFits ==
  ASSUME NEW t, NEW s, Called(t, s), NEW i \in {1, 2}, NEW x
  PROVE  /\ Awaits(s, t, i, x) \subseteq Awaited
         /\ \A a \in Awaits(s, t, i, x) :
              a.write # None => a.write = s.pending /\ x = "commit" /\ x \in turns[t].tools
         /\ x = "commit" /\ x \in turns[t].tools /\ s.pending # None =>
              \E a \in Awaits(s, t, i, x) : a.write # None
  <1> DEFINE w == IF x = "commit" THEN s.pending ELSE None
             a == [call |-> i, tool |-> x, write |-> w]
  <1>1. s.pending \in Action \cup {None}
    BY DEF Called, Session
  <1>2. \A b : b \in Awaits(s, t, i, x) <=>
                /\ b = a /\ x \in turns[t].tools /\ x \in {"look", "resolve", "commit"}
                /\ x = "commit" => s.pending # None
    BY DEF Awaits
  <1>3. a.write = w
    OBVIOUS
  <1>4. ASSUME a \in Awaits(s, t, i, x) PROVE a \in Awaited
    <2>1. CASE x = "commit"
      <3>1. w \in Action
        BY <1>1, <1>2, <1>4, <2>1
      <3> QED
        BY <2>1, <3>1 DEF Awaited
    <2>2. CASE x \in {"look", "resolve"}
      BY <2>2 DEF Awaited
    <2> QED
      BY <1>2, <1>4, <2>1, <2>2
  <1>5. Awaits(s, t, i, x) \subseteq {a}
    BY <1>2
  <1> HIDE DEF a
  <1>6. ASSUME x = "commit", x \in turns[t].tools, s.pending # None
        PROVE  a \in Awaits(s, t, i, x) /\ a.write # None
    BY <1>2, <1>3, <1>6
  <1>7. ASSUME NEW b \in Awaits(s, t, i, x), b.write # None
        PROVE  b.write = s.pending /\ x = "commit" /\ x \in turns[t].tools
    BY <1>2, <1>3, <1>7
  <1> QED
    BY <1>4, <1>5, <1>6, <1>7

\* A round of tool calls keeps it: the effects in order, then what they await.
LEMMA CallToolsKeeps ==
  ASSUME IndInv, NEW t \in DOMAIN turns, CallTools(t)
  PROVE  IndInv'
  <1>1. PICK x \in Calls, y \in Calls \cup {None} :
          LET s1   == Effect(session, t, x)
              s2   == IF y = None THEN s1 ELSE Effect(s1, t, y)
              turn == [turns[t] EXCEPT
                         !.calls = IF y = None THEN 1 ELSE 2,
                         !.acted = TRUE, !.committed = @ \/ "commit" \in {x, y},
                         !.awaited = Awaits(session, t, 1, x) \cup
                                     IF y = None THEN {} ELSE Awaits(s1, t, 2, y)]
          IN  /\ s1.minted <= MaxStaged /\ s2.minted <= MaxStaged
              /\ Continue(t, s2, turn)
    BY DEF CallTools
  <1> DEFINE s1 == Effect(session, t, x)
             s2 == IF y = None THEN s1 ELSE Effect(s1, t, y)
             n  == IF y = None THEN 1 ELSE 2
             yes == TRUE
             co == turns[t].committed \/ "commit" \in {x, y}
             A2 == IF y = None THEN {} ELSE Awaits(s1, t, 2, y)
             A  == Awaits(session, t, 1, x) \cup A2
             turn == [turns[t] EXCEPT !.calls = n, !.acted = yes, !.committed = co,
                                      !.awaited = A]
  <1>2. session \in Session /\ turns[t] \in Turn /\ turns[t].stage = "thinking"
        /\ turns[t].awaited = {} /\ refused' = refused /\ refused \subseteq 1..session.minted
    BY DEF CallTools, IndInv, TypeOK, TurnsFit, KeysAreFresh
  <1>3. Called(t, session)
    <2>1. session.minted \in Nat
      BY <1>2, ConversationAssumption DEF Session
    <2> QED
      BY <1>2, <2>1 DEF Called, IndInv, KeysAreFresh, GateFits
  <1>4. s1.minted <= MaxStaged /\ s2.minted <= MaxStaged /\ Continue(t, s2, turn)
    <2>1. turns[t].committed = turns[t].committed
      OBVIOUS
    <2> QED
      BY <1>1
  <1>5. /\ Called(t, s1)
        /\ s1.state = "EXECUTING" =>
             \/ session.state = "EXECUTING"
             \/ x = "commit" /\ x \in turns[t].tools /\ session.pending # None
    BY <1>3, <1>4, EffectKeeps
  <1>6. /\ Called(t, s2) /\ s1.minted <= s2.minted
        /\ s2.state = "EXECUTING" =>
             \/ s1.state = "EXECUTING"
             \/ y # None /\ y = "commit" /\ y \in turns[t].tools /\ s1.pending # None
    <2>1. CASE y = None
      <3>1. s1.minted \in Nat
        BY <1>5, ConversationAssumption DEF Called, Session
      <3> QED
        BY <1>5, <2>1, <3>1
    <2>2. CASE y # None
      <3>1. y \in Calls /\ s2 = Effect(s1, t, y)
        BY <2>2
      <3> HIDE DEF s1, s2
      <3> QED
        BY <1>4, <1>5, <2>2, <3>1, EffectKeeps
    <2> QED
      BY <2>1, <2>2
  <1>7. /\ Awaits(session, t, 1, x) \subseteq Awaited
        /\ \A a \in Awaits(session, t, 1, x) :
             a.write # None => a.write = session.pending /\ x = "commit" /\ x \in turns[t].tools
        /\ x = "commit" /\ x \in turns[t].tools /\ session.pending # None =>
             \E a \in Awaits(session, t, 1, x) : a.write # None
    BY <1>3, AwaitsFits
  <1>8. /\ Awaits(s1, t, 2, y) \subseteq Awaited
        /\ \A a \in Awaits(s1, t, 2, y) : a.write # None => a.write = s1.pending
        /\ y = "commit" /\ y \in turns[t].tools /\ s1.pending # None =>
             \E a \in Awaits(s1, t, 2, y) : a.write # None
    BY <1>5, AwaitsFits
  <1>9. /\ n \in 0..2 /\ (n = 1 => y = None) /\ yes \in BOOLEAN /\ co \in BOOLEAN
        /\ A2 \subseteq Awaits(s1, t, 2, y) /\ (y = None => A2 = {})
        /\ y # None => A2 = Awaits(s1, t, 2, y)
    BY <1>2 DEF Turn
  <1> HIDE DEF s1, s2, n, yes, co, A2
  <1>10. A \in SUBSET Awaited
    BY <1>7, <1>8, <1>9
  <1>11. A = Awaits(session, t, 1, x) \cup A2
    OBVIOUS
  <1> HIDE DEF A
  <1>12. /\ turn \in Turn /\ turn.awaited = A /\ turn.calls = n
         /\ turn.alone = turns[t].alone /\ turn.yes = turns[t].yes
    BY <1>2, <1>9, <1>10 DEF Turn
  <1> HIDE DEF turn
  <1>13. ASSUME NEW a \in A, a.write # None
         PROVE  /\ a.write.key \in 1..s2.minted
                /\ turn.alone /\ n = 1 => a.write.stagedOnTurn < t /\ turn.yes
    <2>1. session.minted \in Nat /\ s1.minted \in Nat /\ s2.minted \in Nat
          /\ session.minted <= s1.minted
      BY <1>2, <1>5, <1>6, ConversationAssumption DEF Called, Session
    <2>2. a.write = session.pending \/ (y # None /\ a.write = s1.pending)
      BY <1>7, <1>8, <1>9, <1>11, <1>13
    <2>3. a.write.key \in 1..session.minted \/ a.write.key \in 1..s1.minted
      BY <1>3, <1>5, <1>13, <2>2 DEF Called
    <2>4. ASSUME turn.alone, n = 1 PROVE a.write.stagedOnTurn < t /\ turn.yes
      <3>1. a \in Awaits(session, t, 1, x)
        BY <1>9, <1>11, <1>13, <2>4
      <3>2. a.write = session.pending /\ "commit" \in turns[t].tools
        BY <1>7, <1>13, <3>1
      <3> QED
        BY <1>2, <1>12, <2>4, <3>2 DEF IndInv, GateFits
    <2> QED
      BY <1>6, <2>1, <2>3, <2>4
  <1>14. s2.state = "EXECUTING" =>
           \/ \E a \in turn.awaited : a.write # None
           \/ \E u \in DOMAIN turns \ {t} : Writes(u) # {}
    <2>1. CASE session.state = "EXECUTING"
      BY <1>2, <2>1 DEF IndInv, ExecutingMeansWriting, Writes
    <2>2. CASE x = "commit" /\ x \in turns[t].tools /\ session.pending # None
      BY <1>7, <1>11, <1>12, <2>2
    <2>3. CASE y # None /\ y = "commit" /\ y \in turns[t].tools /\ s1.pending # None
      BY <1>8, <1>9, <1>11, <1>12, <2>3
    <2> QED
      BY <1>5, <1>6, <2>1, <2>2, <2>3
  <1>15. Sound(t, s2, turn)
    <2>1. session.minted \in Nat /\ s1.minted \in Nat /\ s2.minted \in Nat
          /\ session.minted <= s1.minted /\ s1.minted <= s2.minted
      BY <1>2, <1>5, <1>6, ConversationAssumption DEF Called, Session
    <2>2. refused' \subseteq 1..s2.minted
      BY <1>2, <2>1
    <2> QED
      BY <1>2, <1>6, <1>12, <1>13, <1>14, <2>1, <2>2 DEF Sound, Called
  <1> QED
    BY <1>4, <1>15, ContinueKeeps

\* A turn that has spoken goes; it awaited nothing.
LEMMA SpeakKeeps ==
  ASSUME IndInv, NEW t \in DOMAIN turns, Speak(t)
  PROVE  IndInv'
  <1>1. session \in Session /\ refused' = refused /\ turns[t].awaited = {}
    BY DEF Speak, IndInv, TypeOK, TurnsFit
  <1>2. /\ DOMAIN turns' = DOMAIN turns \ {t}
        /\ \A u \in DOMAIN turns' : turns'[u] = turns[u]
    BY DEF Speak, Leave
  <1>3. /\ session' \in Session
        /\ session'.state = session.state /\ session'.minted = session.minted
        /\ session'.turnCount = session.turnCount /\ session'.failures = session.failures
        /\ session'.stalled = session.stalled /\ session'.escalation = session.escalation
        /\ session'.pending = None <=> session.pending = None
        /\ session.pending # None =>
             /\ session'.pending.key = session.pending.key
             /\ session'.pending.stagedOnTurn = session.pending.stagedOnTurn
    <2>1. CASE session.pending # None /\ session.pending.by = t
      <3> DEFINE p == [session.pending EXCEPT !.read = TRUE]
      <3>1. session.pending \in Action
        BY <1>1, <2>1 DEF Session
      <3>2. /\ p \in Action /\ p.key = session.pending.key
            /\ p.stagedOnTurn = session.pending.stagedOnTurn
        BY <3>1 DEF Action
      <3>3. session' = [session EXCEPT !.pending = p]
        BY <1>1, <2>1 DEF Speak, Session
      <3> HIDE DEF p
      <3>4. /\ session' \in Session /\ session'.pending = p
            /\ session'.state = session.state /\ session'.minted = session.minted
            /\ session'.turnCount = session.turnCount
            /\ session'.failures = session.failures
            /\ session'.stalled = session.stalled
            /\ session'.escalation = session.escalation
        BY <1>1, <3>2, <3>3 DEF Session
      <3> QED
        BY <2>1, <3>2, <3>4, NullAssumption
    <2>2. CASE ~(session.pending # None /\ session.pending.by = t)
      BY <1>1, <2>2 DEF Speak
    <2> QED
      BY <2>1, <2>2
  <1>4. TypeOK'
    BY <1>1, <1>2, <1>3 DEF IndInv, TypeOK
  <1>5. TurnsFit'
    <2>1. DOMAIN turns' \subseteq 1..session'.turnCount
      BY <1>2, <1>3 DEF IndInv, TurnsFit
    <2>2. ASSUME NEW u \in DOMAIN turns'
          PROVE  turns'[u].stage # "working" => turns'[u].awaited = {}
      BY <1>2 DEF IndInv, TurnsFit
    <2>3. ASSUME NEW u \in DOMAIN turns' PROVE ~turns'[u].alone
      <3>1. u \in DOMAIN turns /\ u # t /\ turns'[u] = turns[u]
        BY <1>2
      <3>2. turns[u].alone => DOMAIN turns = {u}
        BY <3>1 DEF IndInv, TurnsFit
      <3> QED
        BY <3>1, <3>2
    <2> QED
      BY <2>1, <2>2, <2>3 DEF TurnsFit
  <1>6. KeysAreFresh'
    BY <1>1, <1>2, <1>3 DEF IndInv, KeysAreFresh, Writes
  <1>7. GateFits'
    BY <1>2, <1>3 DEF IndInv, GateFits
  <1>8. UndisturbedTurnsAsk'
    BY <1>2 DEF IndInv, UndisturbedTurnsAsk, Writes
  <1>9. ExecutingMeansWriting'
    <2>1. Writes(t) = {}
      BY <1>1 DEF Writes
    <2> QED
      BY <1>2, <1>3, <2>1 DEF IndInv, ExecutingMeansWriting, Writes
  <1>10. StuckCallersReachAPerson'
    BY <1>2, <1>3 DEF IndInv, StuckCallersReachAPerson, Speak
  <1> QED
    BY <1>4, <1>5, <1>6, <1>7, <1>8, <1>9, <1>10 DEF IndInv

-----------------------------------------------------------------------------
(* The caller *)

\* A new utterance keeps it: the turns in progress are no longer alone.
LEMMA UtterKeeps ==
  ASSUME IndInv, NEW yes \in BOOLEAN, Utter(yes)
  PROVE  IndInv'
  <1> DEFINE t == session.turnCount + 1
             T == ToolsForState(session')
             fresh == [stage |-> "thinking", round |-> 1, tools |-> T,
                       calls |-> 0, committed |-> FALSE, acted |-> FALSE, awaited |-> {},
                       yes |-> yes, current |-> TRUE, alone |-> DOMAIN turns = {}]
  <1>1. /\ session \in Session /\ refused' = refused
        /\ session.turnCount \in Nat /\ session.turnCount < MaxTurns /\ t \in 1..MaxTurns
        /\ MaxTurns \in Nat /\ t \notin DOMAIN turns /\ DOMAIN turns \subseteq 1..MaxTurns
        /\ DOMAIN turns \subseteq 1..t
    <2>1. session \in Session /\ DOMAIN turns \subseteq 1..session.turnCount
          /\ DOMAIN turns \subseteq 1..MaxTurns
      BY DEF IndInv, TypeOK, TurnsFit
    <2>2. session.turnCount \in Nat /\ MaxTurns \in Nat
      BY <2>1, ConversationAssumption DEF Session
    <2>3. session.turnCount < MaxTurns /\ refused' = refused
      BY DEF Utter
    <2> QED
      BY <2>1, <2>2, <2>3
  <1>2. /\ session' \in Session
        /\ session'.minted = session.minted /\ session'.turnCount = t
        /\ session'.failures = session.failures
        /\ session'.stalled = session.stalled /\ session'.escalation = session.escalation
        /\ session'.pending \in {session.pending, None}
        /\ session'.pending # None => yes
        /\ session'.state = "EXECUTING" => session.state = "EXECUTING"
    <2>1. session' = Heard(yes)
      BY DEF Utter
    <2> DEFINE m == session.turnCount + 1
               inTalk == "IN_TALK"
    <2>2. m \in 0..MaxTurns /\ inTalk \in States /\ inTalk # "EXECUTING" /\ m = t
      BY <1>1 DEF States
    <2>3. CASE yes \/ session.pending = None
      <3>1. session' = [session EXCEPT !.turnCount = m]
        BY <1>1, <2>1, <2>3 DEF Heard, Session
      <3> HIDE DEF m, t
      <3> QED
        BY <1>1, <2>2, <2>3, <3>1 DEF Session
    <2>4. CASE ~(yes \/ session.pending = None)
      <3>1. session' = [session EXCEPT !.turnCount = m, !.pending = None, !.state = inTalk]
        BY <1>1, <2>1, <2>4 DEF Heard, Session
      <3> HIDE DEF m, t, inTalk
      <3> QED
        BY <1>1, <2>2, <2>4, <3>1 DEF Session
    <2> QED
      BY <2>3, <2>4
  <1>3. /\ fresh.stage = "thinking" /\ fresh.tools = T /\ fresh.awaited = {}
        /\ fresh.yes = yes /\ fresh.alone = (DOMAIN turns = {})
    OBVIOUS
  <1>4. fresh \in Turn
    <2>1. T \in SUBSET Tools
      BY DEF ToolsForState
    <2>2. 1 \in 1..MaxToolRounds
      BY ConversationAssumption
    <2> HIDE DEF T
    <2> QED
      BY <2>1, <2>2 DEF Turn
  <1>5. /\ DOMAIN turns' = DOMAIN turns \cup {t} /\ turns'[t] = fresh
        /\ \A u \in DOMAIN turns :
             turns'[u] = [turns[u] EXCEPT !.current = FALSE, !.alone = FALSE]
    <2>1. turns' = [u \in DOMAIN turns \cup {t} |->
                      IF u # t THEN [turns[u] EXCEPT !.current = FALSE, !.alone = FALSE]
                      ELSE fresh]
      BY DEF Utter
    <2> HIDE DEF t, fresh
    <2> QED
      BY <1>1, <2>1
  <1>6. ASSUME NEW u \in DOMAIN turns
        PROVE  /\ turns'[u] \in Turn /\ ~turns'[u].alone
               /\ turns'[u].stage = turns[u].stage /\ turns'[u].awaited = turns[u].awaited
    <2>1. turns[u] \in Turn
      BY DEF IndInv, TypeOK
    <2>2. turns'[u] = [turns[u] EXCEPT !.current = FALSE, !.alone = FALSE]
      BY <1>5
    <2> QED
      BY <2>1, <2>2 DEF Turn
  <1> HIDE DEF fresh
  <1>7. TypeOK'
    BY <1>1, <1>2, <1>4, <1>5, <1>6 DEF IndInv, TypeOK
  <1>8. TurnsFit'
    <2>1. DOMAIN turns' \subseteq 1..session'.turnCount
      <3>1. t \in 1..t /\ session'.turnCount = t
        BY <1>1, <1>2
      <3> HIDE DEF t
      <3> QED
        BY <1>1, <1>5, <3>1
    <2>2. ASSUME NEW u \in DOMAIN turns
          PROVE  ~turns'[u].alone /\ (turns'[u].stage # "working" => turns'[u].awaited = {})
      BY <1>6 DEF IndInv, TurnsFit
    <2>3. fresh.alone => DOMAIN turns' = {t} /\ session'.turnCount = t
      BY <1>2, <1>3, <1>5
    <2> HIDE DEF t
    <2> QED
      BY <1>3, <1>5, <2>1, <2>2, <2>3 DEF TurnsFit
  <1>9. KeysAreFresh'
    <2>1. ASSUME NEW u \in DOMAIN turns', NEW a \in turns'[u].awaited, a.write # None
          PROVE  a.write.key \in 1..session.minted
      BY <1>3, <1>5, <1>6, <2>1 DEF IndInv, KeysAreFresh, Writes
    <2>2. session'.pending # None =>
            /\ session'.pending.key \in 1..session'.minted \ refused'
            /\ session'.pending.stagedOnTurn <= session'.turnCount
      <3>1. ASSUME session'.pending # None
            PROVE  /\ session'.pending = session.pending
                   /\ session.pending.stagedOnTurn \in Nat
                   /\ session.pending.stagedOnTurn <= session.turnCount
        BY <1>1, <1>2, <3>1 DEF IndInv, KeysAreFresh, Session, Action
      <3> QED
        BY <1>1, <1>2, <3>1 DEF IndInv, KeysAreFresh
    <2> QED
      BY <1>1, <1>2, <2>1, <2>2 DEF IndInv, KeysAreFresh, Writes
  <1>10. GateFits'
    <2>1. ASSUME NEW u \in DOMAIN turns', turns'[u].alone PROVE u = t
      BY <1>5, <1>6, <2>1
    <2>2. ASSUME "commit" \in T PROVE session'.pending # None /\ session'.pending.stagedOnTurn < t
      BY <1>2, <2>2 DEF ToolsForState
    <2> HIDE DEF t, T
    <2> QED
      BY <1>2, <1>3, <1>5, <2>1, <2>2 DEF GateFits
  <1>11. UndisturbedTurnsAsk'
    <2>1. ASSUME NEW u \in DOMAIN turns', turns'[u].alone PROVE turns'[u].awaited = {}
      BY <1>3, <1>5, <1>6, <2>1
    <2> QED
      BY <2>1 DEF UndisturbedTurnsAsk, Writes
  <1>12. ExecutingMeansWriting'
    BY <1>2, <1>5, <1>6 DEF IndInv, ExecutingMeansWriting, Writes
  <1>13. StuckCallersReachAPerson'
    BY <1>3, <1>5 DEF StuckCallersReachAPerson
  <1> QED
    BY <1>7, <1>8, <1>9, <1>10, <1>11, <1>12, <1>13 DEF IndInv

\* A barge-in keeps it: it only makes replies stale.
LEMMA BargeInKeeps ==
  ASSUME IndInv, BargeIn
  PROVE  IndInv'
  <1>1. session' = session /\ refused' = refused /\ DOMAIN turns' = DOMAIN turns
    BY DEF BargeIn
  <1>2. ASSUME NEW u \in DOMAIN turns
        PROVE  /\ turns'[u] \in Turn /\ turns'[u].stage = turns[u].stage
               /\ turns'[u].tools = turns[u].tools /\ turns'[u].calls = turns[u].calls
               /\ turns'[u].awaited = turns[u].awaited
               /\ turns'[u].yes = turns[u].yes /\ turns'[u].alone = turns[u].alone
    <2>1. turns[u] \in Turn /\ turns'[u] = [turns[u] EXCEPT !.current = FALSE]
      BY DEF BargeIn, IndInv, TypeOK
    <2> QED
      BY <2>1 DEF Turn
  <1>3. TypeOK'
    BY <1>1, <1>2 DEF IndInv, TypeOK
  <1>4. TurnsFit'
    <2>1. DOMAIN turns' \subseteq 1..session'.turnCount
      BY <1>1 DEF IndInv, TurnsFit
    <2>2. ASSUME NEW u \in DOMAIN turns'
          PROVE  /\ turns'[u].stage # "working" => turns'[u].awaited = {}
                 /\ turns'[u].alone => DOMAIN turns' = {u} /\ session'.turnCount = u
      <3>1. u \in DOMAIN turns
        BY <1>1
      <3>2. /\ turns[u].stage # "working" => turns[u].awaited = {}
            /\ turns[u].alone => DOMAIN turns = {u} /\ session.turnCount = u
        BY <3>1 DEF IndInv, TurnsFit
      <3> QED
        BY <1>1, <1>2, <3>1, <3>2
    <2> QED
      BY <2>1, <2>2 DEF TurnsFit
  <1>5. KeysAreFresh'
    BY <1>1, <1>2 DEF IndInv, KeysAreFresh, Writes
  <1>6. GateFits'
    BY <1>1, <1>2 DEF IndInv, GateFits
  <1>7. UndisturbedTurnsAsk'
    BY <1>1, <1>2 DEF IndInv, UndisturbedTurnsAsk, Writes
  <1>8. ExecutingMeansWriting'
    BY <1>1, <1>2 DEF IndInv, ExecutingMeansWriting, Writes
  <1>9. StuckCallersReachAPerson'
    BY <1>1, <1>2 DEF IndInv, StuckCallersReachAPerson
  <1> QED
    BY <1>3, <1>4, <1>5, <1>6, <1>7, <1>8, <1>9 DEF IndInv

-----------------------------------------------------------------------------
(* The theorems *)

\* Every step keeps the invariant.
LEMMA StepKeeps == IndInv /\ [Next]_vars => IndInv'
  <1> SUFFICES ASSUME IndInv, [Next]_vars PROVE IndInv'
    OBVIOUS
  <1>1. ASSUME NEW t \in DOMAIN turns, Step(t) PROVE IndInv'
    <2>1. CASE CallTools(t)
      BY <2>1, CallToolsKeeps
    <2>2. CASE Answer(t)
      BY <2>2, AnswerKeeps
    <2>3. CASE ReadAnswered(t)
      BY <2>3, ReadAnsweredKeeps
    <2>4. CASE WriteAnswered(t)
      BY <2>4, WriteAnsweredKeeps
    <2>5. CASE Speak(t)
      BY <2>5, SpeakKeeps
    <2> QED
      BY <1>1, <2>1, <2>2, <2>3, <2>4, <2>5 DEF Step
  <1>2. ASSUME NEW yes \in BOOLEAN, Utter(yes) PROVE IndInv'
    BY <1>2, UtterKeeps
  <1>3. CASE BargeIn
    BY <1>3, BargeInKeeps
  <1>4. CASE UNCHANGED vars
    BY <1>4 DEF vars, IndInv, TypeOK, TurnsFit, KeysAreFresh, GateFits,
                UndisturbedTurnsAsk, ExecutingMeansWriting, StuckCallersReachAPerson, Writes
  <1> QED
    BY <1>1, <1>2, <1>3, <1>4 DEF Next, Step, Silence

\* The invariant holds throughout every call.
LEMMA IndInvHolds == Spec => []IndInv
  BY InitSound, StepKeeps, PTL DEF Spec

\* The session and the locals of every turn keep their types: the rounds of a
\* turn stay within MAX_TOOL_ROUNDS.
THEOREM TypeCorrect == Spec => []TypeOK
  <1>1. IndInv => TypeOK
    BY DEF IndInv
  <1> QED
    BY <1>1, IndInvHolds, PTL

\* The confirmation gate: in a turn no other has overlapped, a tool at a time,
\* the model commits only on an unqualified yes what an earlier turn staged.
THEOREM Gate == Spec => []UndisturbedTurnsAsk
  <1>1. IndInv => UndisturbedTurnsAsk
    BY DEF IndInv
  <1> QED
    BY <1>1, IndInvHolds, PTL

\* A conversation in EXECUTING has a write under way.
THEOREM NeverStuckExecuting == Spec => []ExecutingMeansWriting
  <1>1. IndInv => ExecutingMeansWriting
    BY DEF IndInv
  <1> QED
    BY <1>1, IndInvHolds, PTL

\* Failures or misunderstandings in a row end in the offer of a person.
THEOREM PersonOffered == Spec => []StuckCallersReachAPerson
  <1>1. IndInv => StuckCallersReachAPerson
    BY DEF IndInv
  <1> QED
    BY <1>1, IndInvHolds, PTL

\* After a reply a turn awaits what it awaited then: nothing is sent.
LEMMA ReplyAwaits ==
  ASSUME NEW t \in DOMAIN turns, NEW s, NEW turn \in Turn, NEW understood,
         Reply(t, s, turn, understood)
  PROVE  \A u \in DOMAIN turns' :
           /\ u \in DOMAIN turns
           /\ turns'[u].awaited = IF u = t THEN turn.awaited ELSE turns[u].awaited
  <1> DEFINE spoken == [turn EXCEPT !.stage = "speaking", !.tools = {}, !.round = 1,
                                    !.calls = 0, !.acted = FALSE, !.committed = FALSE]
  <1>1. spoken.awaited = turn.awaited
    BY DEF Turn
  <1>2. turns' = [turns EXCEPT ![t] = spoken] \/ Leave(t)
    BY DEF Reply
  <1> HIDE DEF spoken
  <1> QED
    BY <1>1, <1>2 DEF Leave

\* The same after a round of calls.
LEMMA ContinueAwaits ==
  ASSUME NEW t \in DOMAIN turns, NEW s, NEW turn \in Turn, Continue(t, s, turn)
  PROVE  \A u \in DOMAIN turns' :
           /\ u \in DOMAIN turns
           /\ turns'[u].awaited = IF u = t THEN turn.awaited ELSE turns[u].awaited
  <1>1. CASE Resume(t, s, [turn EXCEPT !.stage = "working"])
    BY <1>1 DEF Resume, Turn
  <1>2. CASE Reply(t, s, turn, TRUE)
    BY <1>2, ReplyAwaits
  <1>3. CASE Resume(t, s, [turn EXCEPT !.stage = "thinking", !.round = @ + 1, !.calls = 0,
                                       !.tools = ToolsForState(s)])
    BY <1>3 DEF Resume, Turn
  <1> QED
    BY <1>1, <1>2, <1>3 DEF Continue

\* What the API has refused definitively is not sent again: it was thrown away,
\* and what is staged later has a key of its own.
THEOREM RefusedStaysRefused == Spec => RefusedIsNotSentAgain
  <1> DEFINE OldWrites == \A t \in DOMAIN turns' : \A a \in Writes(t)' :
               a.write.key \in refused => t \in DOMAIN turns /\ a \in Writes(t)
  <1>1. ASSUME IndInv, NEW t \in DOMAIN turns, Step(t) PROVE OldWrites
    <2> DEFINE Awaiting(turn) ==
                 \A u \in DOMAIN turns' :
                   /\ u \in DOMAIN turns
                   /\ turns'[u].awaited = IF u = t THEN turn.awaited ELSE turns[u].awaited
    <2>0. turns[t] \in Turn
      BY <1>1 DEF IndInv, TypeOK
    <2>1. ASSUME NEW turn, Awaiting(turn), turn.awaited \subseteq turns[t].awaited
          PROVE  OldWrites
      BY <2>1 DEF Writes
    <2>2. CASE CallTools(t)
      <3>1. PICK x \in Calls, y \in Calls \cup {None} :
              LET s1   == Effect(session, t, x)
                  s2   == IF y = None THEN s1 ELSE Effect(s1, t, y)
                  turn == [turns[t] EXCEPT
                             !.calls = IF y = None THEN 1 ELSE 2,
                             !.acted = TRUE, !.committed = @ \/ "commit" \in {x, y},
                             !.awaited = Awaits(session, t, 1, x) \cup
                                         IF y = None THEN {} ELSE Awaits(s1, t, 2, y)]
              IN  s1.minted <= MaxStaged /\ Continue(t, s2, turn)
        BY <2>2 DEF CallTools
      <3> DEFINE s1 == Effect(session, t, x)
                 s2 == IF y = None THEN s1 ELSE Effect(s1, t, y)
                 n  == IF y = None THEN 1 ELSE 2
                 yes == TRUE
                 co == turns[t].committed \/ "commit" \in {x, y}
                 A2 == IF y = None THEN {} ELSE Awaits(s1, t, 2, y)
                 A  == Awaits(session, t, 1, x) \cup A2
                 turn == [turns[t] EXCEPT !.calls = n, !.acted = yes, !.committed = co,
                                          !.awaited = A]
      <3>2. s1.minted <= MaxStaged /\ Continue(t, s2, turn)
        BY <3>1
      <3>3. Called(t, session)
        <4>1. session.minted \in Nat /\ session \in Session
          BY <1>1, ConversationAssumption DEF IndInv, TypeOK, Session
        <4> QED
          BY <1>1, <4>1 DEF Called, IndInv, KeysAreFresh, GateFits
      <3>4. Called(t, s1)
        BY <1>1, <3>2, <3>3, EffectKeeps
      <3>5. n \in 0..2 /\ yes \in BOOLEAN /\ co \in BOOLEAN
        BY <2>0 DEF Turn
      <3>6. /\ Awaits(session, t, 1, x) \subseteq Awaited
            /\ Awaits(s1, t, 2, y) \subseteq Awaited
            /\ \A a \in Awaits(session, t, 1, x) : a.write # None => a.write = session.pending
            /\ \A a \in Awaits(s1, t, 2, y) : a.write # None => a.write = s1.pending
        BY <3>3, <3>4, AwaitsFits
      <3>7. A \in SUBSET Awaited /\ \A a \in A : a.write # None => a.write.key \notin refused
        BY <3>3, <3>4, <3>6 DEF Called
      <3> HIDE DEF s2, n, yes, co, A
      <3>8. turn \in Turn /\ turn.awaited = A
        BY <2>0, <3>5, <3>7 DEF Turn
      <3> HIDE DEF turn
      <3>9. Awaiting(turn)
        BY <3>2, <3>8, ContinueAwaits
      <3> QED
        BY <3>7, <3>8, <3>9 DEF Writes
    <2>3. CASE Answer(t)
      <3>1. Awaiting(turns[t])
        BY <2>0, <2>3, ReplyAwaits DEF Answer
      <3> QED
        BY <2>1, <3>1
    <2>4. CASE ReadAnswered(t) \/ WriteAnswered(t)
      <3>1. PICK a, s : Continue(t, s, Without(t, a))
        BY <2>4 DEF ReadAnswered, WriteAnswered, WriteSucceeded, WriteFailed, WriteRefused
      <3>2. Without(t, a) \in Turn /\ Without(t, a).awaited \subseteq turns[t].awaited
        BY <2>0 DEF Without, Turn
      <3>3. Awaiting(Without(t, a))
        BY <3>1, <3>2, ContinueAwaits
      <3> QED
        BY <2>1, <3>2, <3>3
    <2>5. CASE Speak(t)
      BY <2>5 DEF Speak, Leave, Writes
    <2> QED
      BY <1>1, <2>2, <2>3, <2>4, <2>5 DEF Step
  <1>2. ASSUME IndInv, NEW yes \in BOOLEAN, Utter(yes) PROVE OldWrites
    <2>1. \A u \in DOMAIN turns : turns[u] \in Turn
      BY <1>2 DEF IndInv, TypeOK
    <2>2. ASSUME NEW u \in DOMAIN turns'
          PROVE  \/ turns'[u].awaited = {}
                 \/ u \in DOMAIN turns /\ turns'[u].awaited = turns[u].awaited
      <3>1. CASE u = session.turnCount + 1
        BY <1>2, <2>2, <3>1 DEF Utter
      <3>2. CASE u # session.turnCount + 1
        <4>1. u \in DOMAIN turns
          BY <1>2, <2>2, <3>2 DEF Utter
        <4>2. turns'[u] = [turns[u] EXCEPT !.current = FALSE, !.alone = FALSE]
          BY <1>2, <2>2, <3>2 DEF Utter
        <4> QED
          BY <2>1, <4>1, <4>2 DEF Turn
      <3> QED
        BY <3>1, <3>2
    <2> QED
      BY <2>2 DEF Writes
  <1>3. ASSUME IndInv, BargeIn PROVE OldWrites
    <2>1. \A u \in DOMAIN turns : turns[u] \in Turn
      BY <1>3 DEF IndInv, TypeOK
    <2>2. \A u \in DOMAIN turns' : u \in DOMAIN turns /\ turns'[u].awaited = turns[u].awaited
      BY <1>3, <2>1 DEF BargeIn, Turn
    <2> QED
      BY <2>2 DEF Writes
  <1>4. IndInv /\ [Next]_vars => [OldWrites]_vars
    BY <1>1, <1>2, <1>3 DEF Next, Step, Silence
  <1>5. Spec => [][OldWrites]_vars
    <2> HIDE DEF OldWrites
    <2> QED
      BY <1>4, IndInvHolds, PTL DEF Spec
  <1> QED
    BY <1>5 DEF RefusedIsNotSentAgain
=============================================================================
