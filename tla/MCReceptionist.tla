---------------------------- MODULE MCReceptionist ----------------------------
(***************************************************************************)
(* A salon of two services and callers with few words for model-checking   *)
(* Receptionist: each utterance is the facts that the source's patterns    *)
(* find in the sentence beside it.                                         *)
(***************************************************************************)
EXTENDS Receptionist, TLC

CONSTANTS cut, colour

MCServices == {cut, colour}
MCMenu == <<cut, colour>>

At(h) == [day |-> 1, hour |-> h]

\* The diary is full, or has ten and two o'clock.
MCOpenings == {<<>>, <<At(10), At(14)>>}

TheirCut == [id |-> 1, service |-> cut, time |-> At(10)]

\* A customer with an appointment, one whose lookup failed (only their number is
\* known, and finds the appointment), and somebody whose number is withheld.
MCStarts == {[caller |-> "customer", booked |-> {TheirCut}],
             [caller |-> "number", booked |-> {TheirCut}],
             [caller |-> "withheld", booked |-> {}]}

Word(says) == [says |-> says, nth |-> 0, names |-> None, when |-> FALSE, day |-> None,
               clock |-> None]

MCUtterances ==
  {Word({"yes"}),                       \* "yes please"
   Word({"no"}),                        \* "no"
   Word({"cancel", "book"}),            \* "I need to cancel my appointment"
   Word({"move", "book"}),              \* "can I move my appointment"
   Word({"price"}),                     \* "what do you do"
   Word({"hours"}),                     \* "are you open late"
   Word({"name", "number"}),            \* "my name is Ann, 07700 900123"
   Word({"bye"}),                       \* "bye"
   [Word({}) EXCEPT !.nth = 1],         \* "the first one"
   [Word({}) EXCEPT !.names = colour, !.when = TRUE, !.day = 1], \* "a colour tomorrow"
   [Word({}) EXCEPT !.when = TRUE, !.day = 1],                   \* "tomorrow"
   [Word({}) EXCEPT !.clock = [hour |-> 2, half |-> None]]}      \* "at two o'clock"
=============================================================================
