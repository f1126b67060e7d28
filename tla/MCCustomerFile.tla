---------------------------- MODULE MCCustomerFile ---------------------------
(***************************************************************************)
(* A British salon, two British customers and an American.  Their numbers  *)
(* end alike: in six digits the first one's and the American's, in four    *)
(* all three.                                                              *)
(***************************************************************************)
EXTENDS CustomerFile

CONSTANTS Eleanor, Tom, June

Someone == {Eleanor, Tom, June}
Numbers ==
  [p \in Someone |->
     CASE p = Eleanor -> [code |-> <<4, 4>>, national |-> <<7, 7, 0, 0, 9, 0, 0, 1, 2, 3>>]
       [] p = Tom     -> [code |-> <<4, 4>>, national |-> <<2, 0, 7, 9, 4, 0, 1, 2, 3>>]
       [] p = June    -> [code |-> <<1>>,    national |-> <<2, 1, 2, 5, 9, 0, 0, 1, 2, 3>>]]
Salon == Typed(TRUE, <<4, 4, 2, 0, 7, 9, 4, 6, 0, 0, 0, 0>>)

Symmetry == Permutations(Names) \cup Permutations(Requests)
=============================================================================
