---------------------------- MODULE Conversation -----------------------------
(***************************************************************************)
(* The voice agent's side of a call (apps/agent/src): the session, the     *)
(* turns that the caller's utterances start, and the tools the language    *)
(* model calls in them, up to the moment a write is sent and from the      *)
(* moment it is answered (AgentWrite has what lies between).               *)
(*                                                                         *)
(* server.ts does not await a turn before it starts the next, so several   *)
(* turns work on one session. A turn gives way to the others where it      *)
(* awaits: for the model, for tools that ask the API, for the synthesized  *)
(* speech. What it does in between is one action. The model is any source  *)
(* of tool calls and text.                                                 *)
(***************************************************************************)
EXTENDS Naturals, FiniteSets

CONSTANTS
  MaxToolRounds,  \* MAX_TOOL_ROUNDS
  EscalateAfter,  \* failures, or misunderstandings, in a row before a person is offered
  MaxTurns,       \* bound: utterances in a call
  MaxInFlight,    \* bound: turns in progress at the same time
  MaxCalls,       \* bound: tools the model calls at once, one or two
  MaxStaged,      \* bound: actions staged in a call
  BargeIns,       \* whether the caller may speak over the agent
  None            \* null

ASSUME ConversationAssumption ==
  /\ MaxToolRounds \in Nat \ {0} /\ EscalateAfter \in Nat \ {0}
  /\ MaxTurns \in Nat /\ MaxInFlight \in Nat /\ MaxStaged \in Nat
  /\ MaxCalls \in {1, 2} /\ BargeIns \in BOOLEAN

VARIABLES
  session,  \* the CallSession
  turns,    \* the turns in progress, by the number of their utterance
  refused   \* history: the actions that the API has definitively refused

vars == <<session, turns, refused>>

\* The states that differ in the tools they offer; IN_TALK stands for GREETING,
\* IDENTIFYING, ROUTING, FAQ, LOOKUP, DISAMBIGUATION, AVAILABILITY, COLLECTING.
States == {"IN_TALK", "CONFIRMING", "EXECUTING", "RESULT_SUCCESS", "RESULT_FAILED",
           "ESCALATION", "CLOSING"}

\* By what they do: "tell" answers from the session (salon info, services,
\* selections), "look" and "resolve" ask the API (resolve_time_expression leaves
\* the state alone), "propose" is any of the three proposals.
Tools == {"tell", "look", "resolve", "propose", "commit", "callback", "end"}
Always == {"callback", "end"}

\* A call with an input the tool rejects, or of a tool that does not exist.
Calls == Tools \cup {"bad"}

\* A staged action, by its idempotency key; read tells whether the reply of the
\* turn that staged it was spoken.
Action == [key : 1..MaxStaged, stagedOnTurn : 1..MaxTurns, by : 1..MaxTurns,
           read : BOOLEAN]

ASSUME NullAssumption == None \notin Action

Session ==
  [state : States, pending : Action \cup {None}, minted : 0..MaxStaged,
   turnCount : 0..MaxTurns, failures : Nat, stalled : Nat,
   escalation : BOOLEAN, ended : BOOLEAN]

\* A tool call that awaits the API: a read, or the write of an action.
Awaited == [call : {1, 2}, tool : {"look", "resolve"}, write : {None}] \cup
           [call : {1, 2}, tool : {"commit"}, write : Action]

\* yes: the utterance was an unqualified yes. current: the generation is still
\* this turn's. alone: no other turn has been in progress with this one.
Turn ==
  [stage : {"thinking", "working", "speaking"}, round : 1..MaxToolRounds,
   tools : SUBSET Tools, calls : 0..2, committed : BOOLEAN, acted : BOOLEAN,
   awaited : SUBSET Awaited, yes : BOOLEAN, current : BOOLEAN, alone : BOOLEAN]

TypeOK ==
  /\ session \in Session
  /\ DOMAIN turns \subseteq 1..MaxTurns
  /\ \A t \in DOMAIN turns : turns[t] \in Turn
  /\ refused \subseteq 1..MaxStaged

-----------------------------------------------------------------------------
(* The tools a turn is given, and what they do *)

\* Mutant of ToolsForState: an action may be committed on the turn that staged it.
ToolsForStateUngated(s) ==
  {x \in Tools :
     /\ x = "commit" => s.pending # None
     /\ s.state \in {"EXECUTING", "ESCALATION"} => x \in Always
     /\ s.state = "CLOSING" => x = "end"}

ToolsForState(s) ==
  {x \in Tools :
     /\ x = "commit" => s.pending # None /\ s.pending.stagedOnTurn < s.turnCount
     /\ s.state \in {"EXECUTING", "ESCALATION"} => x \in Always
     /\ s.state = "CLOSING" => x = "end"}

\* A fresh key each time; what was staged before is forgotten.
Stage(s, t) ==
  [s EXCEPT !.pending = [key |-> s.minted + 1, stagedOnTurn |-> s.turnCount,
                         by |-> t, read |-> FALSE],
            !.minted = @ + 1, !.state = "CONFIRMING"]

\* What a call does to the session before it awaits anything. A tool the turn
\* was not given is refused.
Effect(s, t, x) ==
  IF x \notin turns[t].tools THEN s ELSE
  CASE x \in {"tell", "look"} -> [s EXCEPT !.state = "IN_TALK"]
    [] x = "propose"          -> Stage(s, t)
    [] x = "commit"           -> IF s.pending = None THEN s
                                 ELSE [s EXCEPT !.state = "EXECUTING"]
    [] x = "callback"         -> [s EXCEPT !.state = "ESCALATION", !.escalation = TRUE]
    [] x = "end"              -> [s EXCEPT !.state = "CLOSING", !.ended = TRUE]
    [] OTHER                  -> s

\* What the i-th call of a round awaits, made when the session is s.
Awaits(s, t, i, x) ==
  {a \in {[call |-> i, tool |-> x, write |-> IF x = "commit" THEN s.pending ELSE None]} :
     /\ x \in turns[t].tools \cap {"look", "resolve", "commit"}
     /\ x = "commit" => s.pending # None}

-----------------------------------------------------------------------------
(* A turn *)

Resume(t, s, turn) ==
  session' = s /\ turns' = [turns EXCEPT ![t] = turn]

Leave(t) == turns' = [u \in DOMAIN turns \ {t} |-> turns[u]]

\* Mutant of Stuck: a person is offered one failure late.
StuckLate(s, stalled) ==
  ~s.escalation /\ (stalled >= EscalateAfter \/ s.failures > EscalateAfter)

Stuck(s, stalled) ==
  ~s.escalation /\ (stalled >= EscalateAfter \/ s.failures >= EscalateAfter)

\* The end of handleUserTurn, with detectStall and maybeEscalate; then the reply
\* is synthesized, or dropped if the caller has spoken since.
Reply(t, s, turn, understood) ==
  LET stalled == IF turn.acted \/ understood THEN 0 ELSE s.stalled + 1 IN
  /\ session' = [s EXCEPT !.stalled = stalled, !.escalation = @ \/ Stuck(s, stalled),
                          !.state = IF Stuck(s, stalled) THEN "ESCALATION" ELSE @]
  /\ IF turn.current
     THEN turns' = [turns EXCEPT ![t] = [turn EXCEPT !.stage = "speaking", !.tools = {},
                                           !.round = 1, !.calls = 0, !.acted = FALSE,
                                           !.committed = FALSE]]
     ELSE Leave(t)

\* Mutants of Continue: one round more than the limit; the rounds are not counted.
ContinueOnceMore(t, s, turn) ==
  \/ turn.awaited # {} /\ Resume(t, s, [turn EXCEPT !.stage = "working"])
  \/ /\ turn.awaited = {} /\ (s.ended \/ turn.round > MaxToolRounds)
     /\ Reply(t, s, turn, TRUE)
  \/ /\ turn.awaited = {} /\ ~s.ended /\ turn.round <= MaxToolRounds
     /\ Resume(t, s, [turn EXCEPT !.stage = "thinking", !.round = @ + 1, !.calls = 0,
                                  !.tools = ToolsForState(s)])
ContinueForEver(t, s, turn) ==
  \/ turn.awaited # {} /\ Resume(t, s, [turn EXCEPT !.stage = "working"])
  \/ turn.awaited = {} /\ s.ended /\ Reply(t, s, turn, TRUE)
  \/ /\ turn.awaited = {} /\ ~s.ended
     /\ Resume(t, s, [turn EXCEPT !.stage = "thinking", !.calls = 0,
                                  !.tools = ToolsForState(s)])

\* Once nothing of the round is awaited, the model is asked again, unless the
\* call has ended or the rounds are used up.
Continue(t, s, turn) ==
  \/ turn.awaited # {} /\ Resume(t, s, [turn EXCEPT !.stage = "working"])
  \/ /\ turn.awaited = {} /\ (s.ended \/ turn.round = MaxToolRounds)
     /\ Reply(t, s, turn, TRUE)
  \/ /\ turn.awaited = {} /\ ~s.ended /\ turn.round < MaxToolRounds
     /\ Resume(t, s, [turn EXCEPT !.stage = "thinking", !.round = @ + 1, !.calls = 0,
                                  !.tools = ToolsForState(s)])

\* The model asks for one tool, or for two that are run together: each call's
\* first steps in order, then what they await in any order. A commit that has
\* been asked for before in the turn would only be repeated, which ends it.
CallTools(t) ==
  /\ turns[t].stage = "thinking"
  /\ \E x \in Calls, y \in IF MaxCalls = 2 THEN Calls \cup {None} ELSE {None} :
       LET s1   == Effect(session, t, x)
           s2   == IF y = None THEN s1 ELSE Effect(s1, t, y)
           turn == [turns[t] EXCEPT
                      !.calls = IF y = None THEN 1 ELSE 2,
                      !.acted = TRUE, !.committed = @ \/ "commit" \in {x, y},
                      !.awaited = Awaits(session, t, 1, x) \cup
                                  IF y = None THEN {} ELSE Awaits(s1, t, 2, y)]
       IN  /\ ~(turns[t].committed /\ x = "commit" /\ y \in {None, "commit"})
           /\ s1.minted <= MaxStaged /\ s2.minted <= MaxStaged
           /\ Continue(t, s2, turn)
  /\ UNCHANGED refused

\* The model answers, understanding or not, fails, or repeats itself.
Answer(t) ==
  /\ turns[t].stage = "thinking"
  /\ \E understood \in BOOLEAN : Reply(t, session, turns[t], understood)
  /\ UNCHANGED refused

Without(t, a) == [turns[t] EXCEPT !.awaited = @ \ {a}]

\* The API answers a read; several appointments found means DISAMBIGUATION.
ReadAnswered(t) ==
  /\ turns[t].stage = "working"
  /\ \E a \in turns[t].awaited :
       /\ a.write = None
       /\ \/ Continue(t, session, Without(t, a))
          \/ /\ a.tool = "look"
             /\ Continue(t, [session EXCEPT !.state = "IN_TALK"], Without(t, a))
  /\ UNCHANGED refused

WriteSucceeded(t) ==
  /\ turns[t].stage = "working"
  /\ \E a \in turns[t].awaited :
       /\ a.write # None
       /\ Continue(t, [session EXCEPT !.pending = None, !.failures = 0,
                                      !.state = "RESULT_SUCCESS"], Without(t, a))
  /\ UNCHANGED refused

\* An error that is worth a retry keeps the staged action and its key.
WriteFailed(t) ==
  /\ turns[t].stage = "working"
  /\ \E a \in turns[t].awaited :
       /\ a.write # None
       /\ Continue(t, [session EXCEPT !.failures = @ + 1, !.state = "RESULT_FAILED"],
                   Without(t, a))
  /\ UNCHANGED refused

\* Mutants of WriteRefused: the action stays staged; the state stays EXECUTING.
WriteRefusedKept(t) ==
  /\ turns[t].stage = "working"
  /\ \E a \in turns[t].awaited :
       /\ a.write # None
       /\ refused' = refused \cup {a.write.key}
       /\ Continue(t, [session EXCEPT !.failures = @ + 1, !.state = "RESULT_FAILED"],
                   Without(t, a))
WriteRefusedStuck(t) ==
  /\ turns[t].stage = "working"
  /\ \E a \in turns[t].awaited :
       /\ a.write # None
       /\ refused' = refused \cup {a.write.key}
       /\ Continue(t, [session EXCEPT !.pending = None, !.failures = @ + 1], Without(t, a))

\* A definitive refusal throws the staged action away.
WriteRefused(t) ==
  /\ turns[t].stage = "working"
  /\ \E a \in turns[t].awaited :
       /\ a.write # None
       /\ refused' = refused \cup {a.write.key}
       /\ Continue(t, [session EXCEPT !.pending = None, !.failures = @ + 1,
                                      !.state = "RESULT_FAILED"], Without(t, a))

\* The reply is sent. A barge-in during its synthesis no longer stops it.
Speak(t) ==
  /\ turns[t].stage = "speaking"
  /\ session' = IF session.pending # None /\ session.pending.by = t
                THEN [session EXCEPT !.pending.read = TRUE] ELSE session
  /\ Leave(t)
  /\ UNCHANGED refused

-----------------------------------------------------------------------------
(* The caller *)

\* invalidateStaleConfirmation: anything but an unqualified yes discards it.
Heard(yes) ==
  IF yes \/ session.pending = None THEN [session EXCEPT !.turnCount = @ + 1]
  ELSE [session EXCEPT !.turnCount = @ + 1, !.pending = None, !.state = "IN_TALK"]

\* handleUtterance, up to the first request to the model.
Utter(yes) ==
  /\ session.turnCount < MaxTurns /\ Cardinality(DOMAIN turns) < MaxInFlight
  /\ session' = Heard(yes)
  /\ LET t == session.turnCount + 1 IN
     turns' = [u \in DOMAIN turns \cup {t} |->
                 IF u # t THEN [turns[u] EXCEPT !.current = FALSE, !.alone = FALSE]
                 ELSE [stage |-> "thinking", round |-> 1, tools |-> ToolsForState(session'),
                       calls |-> 0, committed |-> FALSE, acted |-> FALSE, awaited |-> {},
                       yes |-> yes, current |-> TRUE, alone |-> DOMAIN turns = {}]]
  /\ UNCHANGED refused

\* A barge_in frame: the reply of the turn in progress will be dropped.
BargeIn ==
  /\ BargeIns
  /\ turns' = [t \in DOMAIN turns |-> [turns[t] EXCEPT !.current = FALSE]]
  /\ turns' # turns
  /\ UNCHANGED <<session, refused>>

-----------------------------------------------------------------------------
(* The specification *)

Init ==
  /\ session = [state |-> "IN_TALK", pending |-> None, minted |-> 0, turnCount |-> 0,
                failures |-> 0, stalled |-> 0, escalation |-> FALSE, ended |-> FALSE]
  /\ turns = [t \in {} |-> None]
  /\ refused = {}

WriteAnswered(t) == WriteSucceeded(t) \/ WriteFailed(t) \/ WriteRefused(t)

Step(t) ==
  /\ t \in DOMAIN turns
  /\ CallTools(t) \/ Answer(t) \/ ReadAnswered(t) \/ WriteAnswered(t) \/ Speak(t)

\* The caller has nothing more to say.
Silence == turns = [t \in {} |-> None] /\ session.turnCount = MaxTurns /\ UNCHANGED vars

Next ==
  \/ \E t \in 1..MaxTurns : Step(t)
  \/ \E yes \in BOOLEAN : Utter(yes)
  \/ BargeIn
  \/ Silence

Spec == Init /\ [][Next]_vars

\* The model and the API answer or time out, and speech is synthesized.
Fairness == \A t \in 1..MaxTurns : WF_vars(Step(t))

FairSpec == Spec /\ Fairness

-----------------------------------------------------------------------------
(* Properties *)

\* The write of an action that turn t has under way.
Writes(t) == {a \in turns[t].awaited : a.write # None}

\* The gate: a turn that no other turn has overlapped, and in which the model
\* calls one tool at a time, sends a write only on an unqualified yes and only
\* of what an earlier turn staged. No order of utterances, retries and
\* proposals gets past it.
UndisturbedTurnsAsk ==
  \A t \in DOMAIN turns : turns[t].alone /\ turns[t].calls = 1 =>
    \A a \in Writes(t) : a.write.stagedOnTurn < t /\ turns[t].yes

\* "Committing requires a later turn, so the caller has actually had the chance
\* to hear the restatement": every write is of an action that was read out.
CommittedWasReadOut ==
  \A t \in DOMAIN turns : \A a \in Writes(t) : a.write.read

\* A conversation is not stuck in EXECUTING, where the model may do next to
\* nothing, with no write under way, whatever overlaps it.
ExecutingMeansWriting ==
  session.state = "EXECUTING" => \E t \in DOMAIN turns : Writes(t) # {}

\* Failures or misunderstandings in a row end in the offer of a person, when
\* the turns that brought them are over.
StuckCallersReachAPerson ==
  (\A t \in DOMAIN turns : turns[t].stage = "speaking")
    /\ (session.failures >= EscalateAfter \/ session.stalled >= EscalateAfter)
  => session.escalation

\* What the API has definitively refused is not sent again.
RefusedIsNotSentAgain ==
  [][\A t \in DOMAIN turns' : \A a \in Writes(t)' :
       a.write.key \in refused => t \in DOMAIN turns /\ a \in Writes(t)]_vars

\* Every utterance is answered or dropped in the end: the model cannot loop.
EveryTurnEnds == \A t \in 1..MaxTurns : t \in DOMAIN turns ~> t \notin DOMAIN turns

-----------------------------------------------------------------------------
(* Strengthenings of these for the proofs *)

\* What each stage of a turn knows; a turn alone is the only and the last one.
TurnsFit ==
  /\ DOMAIN turns \subseteq 1..session.turnCount
  /\ \A t \in DOMAIN turns :
       /\ turns[t].stage # "working" => turns[t].awaited = {}
       /\ turns[t].alone => DOMAIN turns = {t} /\ session.turnCount = t

\* Keys are fresh, and what is staged has neither been refused nor been staged
\* on a turn to come.
KeysAreFresh ==
  /\ refused \subseteq 1..session.minted
  /\ session.pending # None =>
       /\ session.pending.key \in 1..session.minted \ refused
       /\ session.pending.stagedOnTurn <= session.turnCount
  /\ \A t \in DOMAIN turns : \A a \in Writes(t) : a.write.key \in 1..session.minted

\* A turn alone that may commit was started by a yes to what is staged.
GateFits ==
  \A t \in DOMAIN turns : turns[t].alone =>
    /\ turns[t].stage = "thinking" /\ "commit" \in turns[t].tools =>
         session.pending # None /\ session.pending.stagedOnTurn < t
    /\ session.pending # None /\ session.pending.stagedOnTurn < t => turns[t].yes

IndInv ==
  /\ TypeOK /\ TurnsFit /\ KeysAreFresh /\ GateFits
  /\ UndisturbedTurnsAsk /\ ExecutingMeansWriting /\ StuckCallersReachAPerson
=============================================================================
