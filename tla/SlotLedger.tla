------------------------------ MODULE SlotLedger ------------------------------
(***************************************************************************)
(* What the diary promises, without requests, rows or transactions: a      *)
(* ledger of the ranges of stylists' time that are held.  A range is taken *)
(* only while it is free, given back, or exchanged for another in a single *)
(* step; a held range never changes in place.                              *)
(***************************************************************************)
EXTENDS Integers

CONSTANTS
  Ids,    \* the names of the holds
  Staff   \* the stylists

VARIABLE held  \* the holds that stand, a partial function on Ids

Hold == [staff : Staff, start : Int, end : Int]

Disjoint(h, k) == h.staff # k.staff \/ h.end <= k.start \/ k.end <= h.start

\* The holds of out end and those of in begin, on ranges free of every hold
\* that stands; no other hold changes.
Trade(out, in) ==
  /\ out \subseteq DOMAIN held /\ in \cap DOMAIN held = {}
  /\ DOMAIN held' = (DOMAIN held \ out) \cup in
  /\ \A j \in DOMAIN held \ out : held'[j] = held[j]
  /\ \A i \in in :
       /\ held'[i] \in Hold
       /\ \A j \in DOMAIN held \ out : Disjoint(held[j], held'[i])

Take(i)        == Trade({}, {i})
GiveBack(i)    == Trade({i}, {})
Exchange(i, j) == Trade({i}, {j})

Init == held = [i \in {} |-> 0]

Next ==
  \/ \E i \in Ids : Take(i) \/ GiveBack(i)
  \/ \E i, j \in Ids : Exchange(i, j)

Spec == Init /\ [][Next]_held
=============================================================================
