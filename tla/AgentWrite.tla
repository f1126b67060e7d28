----------------------------- MODULE AgentWrite ------------------------------
(***************************************************************************)
(* A confirmed write from the voice agent to the diary and back: the       *)
(* agent's commit, the CRM client's retry loop (apps/agent/src/crm) and    *)
(* the server's withIdempotency, composed.                                 *)
(*                                                                         *)
(* A request of Idempotency is here a staged action: it is committed with  *)
(* the key it was staged with, attempted over HTTP until it is answered,   *)
(* refused or out of retries, and the caller is told what became of it.    *)
(* The client abandons an attempt at its deadline; the server does not.    *)
(***************************************************************************)
EXTENDS Idempotency

CONSTANTS
  MaxRetries,   \* CRM_MAX_RETRIES
  MaxCommits,   \* bound: how often one staged action is committed
  LinkFaults    \* what the line may do: a subset of {"timeout", "network"}

ASSUME AgentWriteAssumption ==
  /\ MaxRetries \in Nat /\ MaxCommits \in Nat \ {0}
  /\ LinkFaults \subseteq {"timeout", "network"}
  /\ None \notin Attempts

VARIABLE call  \* the client's side of each staged action

allVars == <<keys, att, done, mishaps, call>>

\* What the agent tells the caller: lastWriteOutcome.
Outcomes == {"none", "success", "failed", "unknown"}

Call == [stage : {"staged", "sending", "waiting", "told", "dropped"},
         try : 0..MaxRetries, on : Attempts \cup {None}, commits : 0..MaxCommits,
         outcome : Outcomes]

-----------------------------------------------------------------------------
(* The client and the executor *)

Set(r, stage, try, on) ==
  call' = [call EXCEPT ![r].stage = stage, ![r].try = try, ![r].on = on]

\* The write is over; a definitive answer also discards the staged action.
Tell(r, outcome, stage) ==
  call' = [call EXCEPT ![r].stage = stage, ![r].on = None, ![r].try = 0,
                       ![r].outcome = outcome]

\* commit_pending_action: the first time, or again after a failure worth retrying.
CommitAction(r) ==
  /\ call[r].stage \in {"staged", "told"} /\ call[r].commits < MaxCommits
  /\ call' = [call EXCEPT ![r].stage = "sending", ![r].try = 0,
                          ![r].commits = @ + 1, ![r].outcome = "none"]
  /\ UNCHANGED vars

\* fetch, with the same key every time.
Send(r, a) ==
  /\ call[r].stage = "sending"
  /\ \A q \in Requests : call[q].on # a
  /\ Arrive(a, r)
  /\ Set(r, "waiting", call[r].try, a)

\* Mutant of Retry: retries without end.
RetryForEver(r, code) ==
  Set(r, "sending", IF call[r].try < MaxRetries THEN call[r].try + 1 ELSE 0, None)

\* A retryable error: another attempt, or, when they are spent, the outcome the
\* executor derives from the last error's code.
Retry(r, code) ==
  IF call[r].try < MaxRetries THEN Set(r, "sending", call[r].try + 1, None)
  ELSE Tell(r, IF code \in {"TIMEOUT", "NETWORK_ERROR"} THEN "unknown" ELSE "failed", "told")

\* Mutant of Hear: a conflict with an attempt in progress is taken for success.
HearInProgressAsDone(r) ==
  /\ call[r].stage = "waiting" /\ att[call[r].on].stage = "done"
  /\ LET code == att[call[r].on].reply.code IN
     \/ code \in {"OK", "IN_PROGRESS"} /\ Tell(r, "success", "dropped")
     \/ code \in {"REFUSED", "KEY_REUSED"} /\ Tell(r, "failed", "dropped")
     \/ code = "FAILED" /\ Retry(r, code)
     \/ code = "LOST" /\ Retry(r, "NETWORK_ERROR")
  /\ UNCHANGED vars

\* The answer arrives: success, a definitive refusal, or an error to retry.
Hear(r) ==
  /\ call[r].stage = "waiting" /\ att[call[r].on].stage = "done"
  /\ LET code == att[call[r].on].reply.code IN
     \/ code = "OK" /\ Tell(r, "success", "dropped")
     \/ code \in {"REFUSED", "KEY_REUSED"} /\ Tell(r, "failed", "dropped")
     \/ code \in {"IN_PROGRESS", "FAILED"} /\ Retry(r, code)
     \/ code = "LOST" /\ Retry(r, "NETWORK_ERROR")
  /\ UNCHANGED vars

\* AbortSignal.timeout: the client gives up on the attempt, which goes on.
TimeOut(r) ==
  /\ "timeout" \in LinkFaults
  /\ call[r].stage = "waiting"
  /\ Retry(r, "TIMEOUT")
  /\ UNCHANGED vars

\* fetch fails before the server sees the request.
Unreachable(r) ==
  /\ "network" \in LinkFaults
  /\ call[r].stage = "sending"
  /\ Retry(r, "NETWORK_ERROR")
  /\ UNCHANGED vars

-----------------------------------------------------------------------------
(* The specification *)

AgentInit ==
  /\ Init
  /\ call = [r \in Requests |-> [stage |-> "staged", try |-> 0, on |-> None,
                                 commits |-> 0, outcome |-> "none"]]

Client(r) ==
  Hear(r) \/ TimeOut(r) \/ Unreachable(r) \/ \E a \in Attempts : Send(r, a)

\* Every staged action is spent and the server has nothing left to do.
AllTold ==
  /\ \A r \in Requests : \/ call[r].stage = "dropped"
                         \/ call[r].stage = "told" /\ call[r].commits = MaxCommits
  /\ UNCHANGED allVars

AgentNext ==
  \/ \E r \in Requests : CommitAction(r) \/ Client(r)
  \/ Server /\ UNCHANGED call
  \/ AllTold

AgentSpec == AgentInit /\ [][AgentNext]_allVars

\* The agent's event loop and the server's both make progress.
AgentFairness ==
  /\ \A r \in Requests : WF_allVars(Client(r))
  /\ \A a \in Attempts : WF_allVars(Step(a) /\ UNCHANGED call)

FairAgentSpec == AgentSpec /\ AgentFairness

-----------------------------------------------------------------------------
(* Properties *)

\* The client's side of each action has its type.
CallTypeOK == call \in [Requests -> Call]

\* A caller who is told that it worked has what they asked for: no failure of
\* server, client or line makes the agent confirm a write that did not happen.
SuccessIsReal == \A r \in Requests : call[r].outcome = "success" => done[r] > 0

\* Every commit ends with the caller being told something.
CallerIsTold ==
  \A r \in Requests :
    (call[r].stage \in {"sending", "waiting"}) ~> (call[r].stage \in {"told", "dropped"})

\* Every staged action has a key of its own: stage() makes a new one each time.
OwnKeys == \A r, q \in Requests : KeyOf[r] = KeyOf[q] => r = q

\* A client that waits, waits for an attempt at its own action, and no other
\* client waits for that one.
CallsFit ==
  \A r \in Requests :
    IF call[r].stage = "waiting"
    THEN call[r].on \in DOMAIN att /\ att[call[r].on].of = r
    ELSE call[r].on = None

\* The inductive strengthening of SuccessIsReal.
AgentInv == OKInv /\ CallTypeOK /\ CallsFit /\ SuccessIsReal
=============================================================================
