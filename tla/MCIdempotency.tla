---------------------------- MODULE MCIdempotency ----------------------------
(***************************************************************************)
(* Small instances of Idempotency: changes of two appointments, sent with  *)
(* one key.                                                                *)
(***************************************************************************)
EXTENDS Idempotency, TLC

CONSTANTS X, Y, k1, a1, a2, a3

Cancel(id, body) ==
  [endpoint |-> "POST /v1/appointments/:id/cancel", id |-> id, body |-> body]

\* A cancellation, the same of another appointment, and that one with a reason:
\* the hash does not tell the first two apart.
OneRequest    == {Cancel(X, "none")}
ThreeRequests == {Cancel(X, "none"), Cancel(Y, "none"), Cancel(Y, "reason")}

OneKey  == {k1}
SameKey == [r \in Requests |-> k1]

TwoAttempts == {a1, a2}
ThreeAttempts == {a1, a2, a3}
AttemptSymmetry == Permutations(Attempts)
=============================================================================
