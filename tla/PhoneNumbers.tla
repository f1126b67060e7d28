---------------------------- MODULE PhoneNumbers -----------------------------
(***************************************************************************)
(* What becomes of a telephone number as somebody types it (phone.ts).     *)
(* Only the digits count, and whether a plus comes first; the spaces and   *)
(* brackets between them are stripped and do not appear here.              *)
(***************************************************************************)
EXTENDS Naturals, SequencesExt

NoCode   == <<>>
NoNumber == <<>>

\* A number as typed.  What is stored is the digits of its E.164 form.
Typed(plus, digits) == [plus |-> plus, digits |-> digits]

Shortest == 7    \* digits, of a national number and of an international one
Longest  == 15

\* More digits than this are taken to have their country code.
LongestBare == 11

KnownCodes == {<<4, 4>>, <<3, 5, 3>>, <<6, 1>>, <<6, 4>>, <<4, 9>>, <<3, 3>>,
               <<3, 4>>, <<3, 9>>, <<1>>}

\* The salon's own country.  No known code is the beginning of another.
callingCodeFromSalonPhone(salon) ==
  LET first == SubSeq(salon.digits, 1, Min({3, Len(salon.digits)}))
      codes == {c \in KnownCodes : IsPrefix(c, first)}
  IN IF ~salon.plus THEN NoCode
     ELSE IF codes # {} THEN CHOOSE c \in codes : TRUE
     ELSE SubSeq(first, 1, Min({2, Len(first)}))

\* Too few digits are a typo, and stay out of the salon's country.
National(digits, code) == IF Len(digits) < Shortest THEN NoNumber ELSE code \o digits

\* Mutant of International: 00 is taken for the 0 of a national number.
InternationalNoZeros(t, code) ==
  LET d == t.digits IN
  CASE t.plus -> d
    [] ~t.plus /\ IsPrefix(<<0>>, d) -> National(Tail(d), code)
    [] ~t.plus /\ ~IsPrefix(<<0>>, d) ->
         IF Len(d) > LongestBare \/ IsPrefix(code, d) THEN d ELSE National(d, code)

\* The digits with their country code, if one is to be had.
International(t, code) ==
  LET d == t.digits IN
  CASE t.plus -> d
    [] ~t.plus /\ IsPrefix(<<0, 0>>, d) -> Tail(Tail(d))
    [] ~t.plus /\ IsPrefix(<<0>>, d) /\ ~IsPrefix(<<0, 0>>, d) ->
         IF code = NoCode THEN NoNumber ELSE National(Tail(d), code)
    [] ~t.plus /\ ~IsPrefix(<<0>>, d) ->
         IF code = NoCode \/ Len(d) > LongestBare \/ IsPrefix(code, d) THEN d
         ELSE National(d, code)

\* E.164, or nothing: "never a silent pass-through".
normalizePhone(t, code) ==
  LET d == International(t, code)
  IN IF Len(d) \in Shortest..Longest /\ Head(d) # 0 THEN d ELSE NoNumber
=============================================================================
