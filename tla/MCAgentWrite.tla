---------------------------- MODULE MCAgentWrite -----------------------------
(***************************************************************************)
(* Small instances of AgentWrite: one staged action, with a key of its own, *)
(* and the attempts of its retry loop.                                      *)
(***************************************************************************)
EXTENDS AgentWrite

CONSTANTS book, a1, a2

OneAction   == {[endpoint |-> "POST /v1/appointments", id |-> None, body |-> book]}
OwnKey      == [r \in Requests |-> r]
TwoAttempts == {a1, a2}
=============================================================================
