-------------------------- MODULE CustomerFileProofs --------------------------
(***************************************************************************)
(* Theorems about CustomerFile for any people, numbers and requests:       *)
(* numbers that are whole come to one form however they are typed, so that *)
(* a person has one record and is booked under it; whatever is done to a   *)
(* number, it ends as it did, so that a search finds it and a caller is    *)
(* taken for nobody whose number ends differently.                         *)
(***************************************************************************)
EXTENDS CustomerFile, SequenceTheorems, FiniteSetTheorems, TLAPS

\* What is asked of the numbers: they have a country code and enough digits, but
\* not too many.
NumbersAreWhole ==
  \A p \in People :
    /\ Len(NumberOf[p].code) >= 1 /\ NumberOf[p].code[1] # 0
    /\ Len(NumberOf[p].national) >= Shortest
    /\ Len(NumberOf[p].code) + Len(NumberOf[p].national) <= Longest

\* Of those of the salon's own country: without their code they do not look like
\* numbers with one.
NationalNumbersAreSo ==
  \A p \in People :
    Local(p) => /\ NumberOf[p].national[1] # 0
                /\ Len(NumberOf[p].national) <= LongestBare
                /\ ~IsPrefix(Home, NumberOf[p].national)

\* Nobody types +44 (0)7700...
NoBrackets == "bracketed" \notin Ways

NumbersAreOwn == \A p, q \in People : Whole(p) = Whole(q) => p = q

-----------------------------------------------------------------------------
(* Numbers *)

LEMMA PrefixIs ==
  ASSUME NEW s \in Seq(Digits), NEW t \in Seq(Digits)
  PROVE  IsPrefix(s, t) <=> Len(s) <= Len(t) /\ \A i \in 1..Len(s) : s[i] = t[i]
  <1>1. Len(s) \in Nat /\ Len(t) \in Nat
    BY LenProperties
  <1>2. SubSeq(s, 1, Len(s)) = s
    BY SubSeqFull
  <1>3. ASSUME Len(s) <= Len(t)
        PROVE  /\ SubSeq(t, 1, Len(s)) \in Seq(Digits)
               /\ Len(SubSeq(t, 1, Len(s))) = Len(s)
               /\ \A i \in 1..Len(s) : SubSeq(t, 1, Len(s))[i] = t[i]
    <2>1. \A i \in 1..Len(s) : t[i] \in Digits
      BY <1>1, <1>3, ElementOfSeq
    <2> HIDE DEF Digits
    <2>2. /\ SubSeq(t, 1, Len(s)) \in Seq(Digits)
          /\ Len(SubSeq(t, 1, Len(s))) = IF 1 <= Len(s) THEN Len(s) - 1 + 1 ELSE 0
          /\ \A i \in 1..(Len(s) - 1 + 1) : SubSeq(t, 1, Len(s))[i] = t[1 + i - 1]
      BY <1>1, <2>1, SubSeqProperties
    <2>3. QED
      BY <1>1, <2>2
  <1>4. CASE Len(s) <= Len(t)
    <2>1. SubSeq(t, 1, Len(s)) = s <=> \A i \in 1..Len(s) : s[i] = t[i]
      BY <1>1, <1>3, <1>4, SeqEqual
    <2>2. QED
      BY <1>2, <1>4, <2>1 DEF IsPrefix
  <1>5. QED
    BY <1>4 DEF IsPrefix

LEMMA ZerosFirst ==
  ASSUME NEW d \in Seq(Digits), Len(d) >= 2
  PROVE  /\ IsPrefix(<<0>>, d) <=> d[1] = 0
         /\ IsPrefix(<<0, 0>>, d) <=> d[1] = 0 /\ d[2] = 0
  <1>1. Len(d) \in Nat
    BY LenProperties
  <1>2. ASSUME NEW z \in Seq(Digits), Len(z) = 1, z[1] = 0
        PROVE  IsPrefix(z, d) <=> d[1] = 0
    <2>1. IsPrefix(z, d) <=> Len(z) <= Len(d) /\ \A i \in 1..Len(z) : z[i] = d[i]
      BY PrefixIs
    <2>2. QED
      BY <1>1, <1>2, <2>1
  <1>3. ASSUME NEW z \in Seq(Digits), Len(z) = 2, z[1] = 0, z[2] = 0
        PROVE  IsPrefix(z, d) <=> d[1] = 0 /\ d[2] = 0
    <2>1. IsPrefix(z, d) <=> Len(z) <= Len(d) /\ \A i \in 1..Len(z) : z[i] = d[i]
      BY PrefixIs
    <2>2. QED
      BY <1>1, <1>3, <2>1
  <1>4. /\ <<0>> \in Seq(Digits) /\ Len(<<0>>) = 1 /\ <<0>>[1] = 0
        /\ <<0, 0>> \in Seq(Digits) /\ Len(<<0, 0>>) = 2
        /\ <<0, 0>>[1] = 0 /\ <<0, 0>>[2] = 0
    BY DEF Digits
  <1>5. QED
    BY <1>2, <1>3, <1>4, Zenon

\* What is put before a number comes off again.
LEMMA ZeroComesOff ==
  ASSUME NEW w \in Seq(Digits)
  PROVE  /\ <<0>> \o w \in Seq(Digits) /\ Len(<<0>> \o w) = Len(w) + 1
         /\ (<<0>> \o w)[1] = 0
         /\ \A i \in 1..Len(w) : (<<0>> \o w)[i + 1] = w[i]
         /\ Tail(<<0>> \o w) = w
  <1> DEFINE z   == <<0>>
             one == z \o w
  <1>1. z \in Seq(Digits) /\ Len(z) = 1 /\ z[1] = 0 /\ Len(w) \in Nat
    BY LenProperties DEF Digits
  <1> SUFFICES /\ one \in Seq(Digits) /\ Len(one) = Len(w) + 1 /\ one[1] = 0
               /\ \A i \in 1..Len(w) : one[i + 1] = w[i]
               /\ Tail(one) = w
    OBVIOUS
  <1> HIDE DEF z
  <1>2. /\ one \in Seq(Digits) /\ Len(one) = Len(w) + 1 /\ one[1] = 0
        /\ \A i \in 1..Len(w) : one[i + 1] = w[i]
    <2>1. /\ one \in Seq(Digits) /\ Len(one) = Len(z) + Len(w)
          /\ \A i \in 1..(Len(z) + Len(w)) :
               one[i] = IF i <= Len(z) THEN z[i] ELSE w[i - Len(z)]
      BY <1>1, ConcatProperties
    <2> HIDE DEF one
    <2>2. one[1] = z[1]
      BY <1>1, <2>1
    <2>3. ASSUME NEW i \in 1..Len(w)
          PROVE  one[i + 1] = w[i]
      <3>1. one[i + 1] = w[(i + 1) - 1]
        BY <1>1, <2>1
      <3>2. (i + 1) - 1 = i
        OBVIOUS
      <3>3. QED
        BY <3>1, <3>2
    <2>4. QED
      BY <1>1, <2>1, <2>2, <2>3
  <1> HIDE DEF one
  <1>3. /\ Tail(one) \in Seq(Digits) /\ Len(Tail(one)) = Len(w)
        /\ \A i \in 1..Len(w) : Tail(one)[i] = one[i + 1]
    <2>1. one # <<>>
      BY <1>1, <1>2
    <2>2. QED
      BY <1>1, <1>2, <2>1, HeadTailProperties
  <1>4. Tail(one) = w
    BY <1>2, <1>3, SeqEqual
  <1>5. QED
    BY <1>2, <1>4

LEMMA TwoZeros ==
  ASSUME NEW w \in Seq(Digits)
  PROVE  <<0, 0>> \o w = <<0>> \o (<<0>> \o w)
  <1> DEFINE z  == <<0>>
             zz == <<0, 0>>
  <1>1. z \in Seq(Digits)
    BY DEF Digits
  <1>2. zz = z \o z
    OBVIOUS
  <1> SUFFICES zz \o w = z \o (z \o w)
    OBVIOUS
  <1> HIDE DEF z, zz
  <1>3. QED
    BY <1>1, <1>2, ConcatAssociative

\* A CASE whose arms are apart takes the one that applies.
LEMMA OneReading ==
  ASSUME NEW plus \in BOOLEAN, NEW z \in BOOLEAN, NEW zz \in BOOLEAN,
         NEW a, NEW b, NEW c, NEW d
  PROVE  LET x == CASE plus -> a
                    [] ~plus /\ zz -> b
                    [] ~plus /\ z /\ ~zz -> c
                    [] ~plus /\ ~z -> d
         IN /\ plus => x = a
            /\ ~plus /\ z /\ zz => x = b
            /\ ~plus /\ z /\ ~zz => x = c
            /\ ~plus /\ ~z /\ ~zz => x = d
  <1>1. CASE plus
    BY <1>1
  <1>2. CASE ~plus /\ z /\ zz
    BY <1>2
  <1>3. CASE ~plus /\ z /\ ~zz
    BY <1>3
  <1>4. CASE ~plus /\ ~z /\ ~zz
    BY <1>4
  <1>5. CASE ~plus /\ ~z /\ zz
    BY <1>5
  <1>6. QED
    BY <1>1, <1>2, <1>3, <1>4, <1>5

\* How a number is read.
LEMMA Readings ==
  ASSUME NEW plus \in BOOLEAN, NEW d, NEW code
  PROVE  LET y  == International(Typed(plus, d), code)
             z  == IsPrefix(<<0>>, d)
             zz == IsPrefix(<<0, 0>>, d)
         IN /\ plus => y = d
            /\ ~plus /\ z /\ zz => y = Tail(Tail(d))
            /\ ~plus /\ z /\ ~zz =>
                 y = IF code = NoCode THEN NoNumber ELSE National(Tail(d), code)
            /\ ~plus /\ ~z /\ ~zz =>
                 y = IF code = NoCode \/ Len(d) > LongestBare \/ IsPrefix(code, d) THEN d
                     ELSE National(d, code)
  <1> DEFINE z  == IsPrefix(<<0>>, d)
             zz == IsPrefix(<<0, 0>>, d)
             t  == Typed(plus, d)
             y  == International(t, code)
             b  == Tail(Tail(d))
             c  == IF code = NoCode THEN NoNumber ELSE National(Tail(d), code)
             e  == IF code = NoCode \/ Len(d) > LongestBare \/ IsPrefix(code, d) THEN d
                   ELSE National(d, code)
             x  == CASE plus -> d
                     [] ~plus /\ zz -> b
                     [] ~plus /\ z /\ ~zz -> c
                     [] ~plus /\ ~z -> e
  <1> SUFFICES /\ plus => y = d
               /\ ~plus /\ z /\ zz => y = b
               /\ ~plus /\ z /\ ~zz => y = c
               /\ ~plus /\ ~z /\ ~zz => y = e
    OBVIOUS
  <1>1. t.plus = plus /\ t.digits = d
    BY DEF Typed
  <1>2. z \in BOOLEAN /\ zz \in BOOLEAN
    BY DEF IsPrefix
  <1>3. y = x
    <2> HIDE DEF t
    <2>1. QED
      BY <1>1, Zenon DEF International
  <1> HIDE DEF z, zz, b, c, e
  <1>4. /\ plus => x = d
        /\ ~plus /\ z /\ zz => x = b
        /\ ~plus /\ z /\ ~zz => x = c
        /\ ~plus /\ ~z /\ ~zz => x = e
    BY <1>2, OneReading
  <1> HIDE DEF x, y
  <1>5. QED
    BY <1>3, <1>4

LEMMA Reads ==
  ASSUME NEW code \in Seq(Digits), NEW nat \in Seq(Digits), NEW home,
         Len(code) >= 1, code[1] # 0, Len(nat) >= Shortest
  PROVE  LET w == code \o nat
         IN /\ International(Typed(TRUE, w), home) = w
            /\ International(Typed(FALSE, <<0, 0>> \o w), home) = w
            /\ nat[1] # 0 => International(Typed(FALSE, <<0>> \o nat), code) = w
            /\ International(Typed(FALSE, w), code) = w
            /\ nat[1] # 0 /\ Len(nat) <= LongestBare /\ ~IsPrefix(code, nat) =>
                 International(Typed(FALSE, nat), code) = w
  <1> DEFINE w   == code \o nat
             one == <<0>> \o nat
             two == <<0, 0>> \o w
  <1>1. Len(code) \in Nat /\ Len(nat) \in Nat /\ Len(nat) >= 7 /\ code # NoCode
    BY LenProperties DEF Shortest, NoCode
  <1>2. /\ w \in Seq(Digits) /\ Len(w) = Len(code) + Len(nat)
        /\ \A i \in 1..Len(code) : w[i] = code[i]
    BY <1>1, ConcatProperties
  <1>3. /\ one \in Seq(Digits) /\ Len(one) >= 2 /\ one[1] = 0 /\ one[2] = nat[1]
        /\ Tail(one) = nat
    BY <1>1, ZeroComesOff
  <1> SUFFICES /\ International(Typed(TRUE, w), home) = w
               /\ International(Typed(FALSE, two), home) = w
               /\ nat[1] # 0 => International(Typed(FALSE, one), code) = w
               /\ International(Typed(FALSE, w), code) = w
               /\ nat[1] # 0 /\ Len(nat) <= LongestBare /\ ~IsPrefix(code, nat) =>
                    International(Typed(FALSE, nat), code) = w
       OBVIOUS
  <1>4. National(nat, code) = w
    BY <1>1 DEF National, Shortest
  <1> HIDE DEF w, one
  <1>5. two \in Seq(Digits) /\ Len(two) >= 2 /\ two[1] = 0 /\ two[2] = 0 /\ Tail(Tail(two)) = w
    <2> DEFINE z == <<0>> \o w
    <2>1. /\ z \in Seq(Digits) /\ Len(z) = Len(w) + 1 /\ z[1] = 0 /\ Tail(z) = w
      BY <1>2, ZeroComesOff
    <2>2. two = <<0>> \o z
      BY <1>2, TwoZeros
    <2> HIDE DEF z, two
    <2>3. /\ two \in Seq(Digits) /\ Len(two) = Len(z) + 1 /\ two[1] = 0 /\ two[2] = z[1]
          /\ Tail(two) = z
      <3>1. Len(z) \in Nat /\ Len(z) >= 1
        BY <1>1, <1>2, <2>1
      <3>2. QED
        BY <2>1, <2>2, <3>1, ZeroComesOff
    <2>4. Len(two) >= 2
      BY <1>1, <1>2, <2>1, <2>3
    <2>5. QED
      BY <2>1, <2>3, <2>4
  <1> HIDE DEF two
  <1>6. International(Typed(TRUE, w), home) = w
    BY Readings
  <1>7. International(Typed(FALSE, two), home) = w
    BY <1>5, ZerosFirst, Readings
  <1>8. nat[1] # 0 => International(Typed(FALSE, one), code) = w
    BY <1>1, <1>3, <1>4, ZerosFirst, Readings
  <1>9. International(Typed(FALSE, w), code) = w
    <2>1. ~IsPrefix(<<0>>, w) /\ ~IsPrefix(<<0, 0>>, w)
      BY <1>1, <1>2, ZerosFirst
    <2>2. IsPrefix(code, w)
      <3>1. Len(code) <= Len(w)
        BY <1>1, <1>2
      <3>2. \A i \in 1..Len(code) : code[i] = w[i]
        BY <1>2
      <3>3. QED
        BY <1>2, <3>1, <3>2, PrefixIs
    <2>3. QED
      BY <2>1, <2>2, Readings
  <1>10. nat[1] # 0 /\ Len(nat) <= LongestBare /\ ~IsPrefix(code, nat) =>
           International(Typed(FALSE, nat), code) = w
    <2> SUFFICES ASSUME nat[1] # 0, Len(nat) <= LongestBare, ~IsPrefix(code, nat)
                 PROVE  International(Typed(FALSE, nat), code) = w
      OBVIOUS
    <2>1. ~IsPrefix(<<0>>, nat) /\ ~IsPrefix(<<0, 0>>, nat)
      BY <1>1, ZerosFirst
    <2>2. ~(code = NoCode \/ Len(nat) > LongestBare \/ IsPrefix(code, nat))
      BY <1>1 DEF LongestBare
    <2>3. QED
      BY <1>4, <2>1, <2>2, Readings
  <1>11. QED
    BY <1>6, <1>7, <1>8, <1>9, <1>10

LEMMA Joined ==
  ASSUME NEW code \in Seq(Digits), NEW nat \in Seq(Digits), Len(code) >= 1, code[1] # 0,
         Len(nat) >= Shortest, Len(code) + Len(nat) <= Longest
  PROVE  /\ code \o nat \in Seq(Digits)
         /\ Len(code \o nat) \in Shortest..Longest
         /\ code \o nat # <<>> /\ Head(code \o nat) # 0
  <1> DEFINE w == code \o nat
  <1>1. Len(code) \in Nat /\ Len(nat) \in Nat
    BY LenProperties
  <1>2. /\ w \in Seq(Digits) /\ Len(w) = Len(code) + Len(nat)
        /\ \A i \in 1..Len(code) : w[i] = code[i]
    BY <1>1, ConcatProperties
  <1> SUFFICES w \in Seq(Digits) /\ Len(w) \in Shortest..Longest /\ w # <<>> /\ Head(w) # 0
    OBVIOUS
  <1> HIDE DEF w
  <1>3. Len(w) \in Shortest..Longest /\ w # <<>>
    BY <1>1, <1>2 DEF Shortest, Longest
  <1>4. w[1] # 0
    BY <1>1, <1>2
  <1>5. QED
    BY <1>2, <1>3, <1>4

\* The number of a person comes to the same form, whichever way it was typed.
LEMMA Canonical ==
  ASSUME NumbersAreWhole, NationalNumbersAreSo, NoBrackets,
         NEW p \in People, NEW way, Sayable(p, way)
  PROVE  normalizePhone(Typing(p, way), Home) = Whole(p) /\ Whole(p) # NoNumber
  <1>1. PICK code \in Seq(Digits), nat \in Seq(Digits) :
          /\ code = NumberOf[p].code /\ nat = NumberOf[p].national
          /\ Len(code) >= 1 /\ code[1] # 0 /\ Len(nat) >= Shortest
          /\ Len(code) + Len(nat) <= Longest
    BY PeopleAssumption DEF NumbersAreWhole
  <1> DEFINE w == code \o nat
  <1>2. Whole(p) = w
    BY <1>1 DEF Whole
  <1>3. /\ way \in {"international", "dialled", "national", "unmarked", "bare"}
        /\ way \in {"national", "unmarked", "bare"} => Local(p)
    BY PeopleAssumption DEF Sayable, NoBrackets
  <1>4. Local(p) => /\ Home = code
                    /\ nat[1] # 0 /\ Len(nat) <= LongestBare /\ ~IsPrefix(code, nat)
    BY <1>1 DEF Local, NationalNumbersAreSo
  <1>5. /\ International(Typed(TRUE, w), Home) = w
        /\ International(Typed(FALSE, <<0, 0>> \o w), Home) = w
        /\ nat[1] # 0 => International(Typed(FALSE, <<0>> \o nat), code) = w
        /\ International(Typed(FALSE, w), code) = w
        /\ nat[1] # 0 /\ Len(nat) <= LongestBare /\ ~IsPrefix(code, nat) =>
             International(Typed(FALSE, nat), code) = w
    BY <1>1, Reads
  <1>6. Len(w) \in Shortest..Longest /\ w # <<>> /\ Head(w) # 0
    BY <1>1, Joined
  <1>7. International(Typing(p, way), Home) = w
    <2>1. CASE way = "international"
      BY <1>2, <1>5, <2>1 DEF Typing
    <2>2. CASE way = "dialled"
      BY <1>2, <1>5, <2>2 DEF Typing
    <2>3. CASE way = "national"
      BY <1>1, <1>3, <1>4, <1>5, <2>3 DEF Typing
    <2>4. CASE way = "unmarked"
      BY <1>2, <1>3, <1>4, <1>5, <2>4 DEF Typing
    <2>5. CASE way = "bare"
      BY <1>1, <1>3, <1>4, <1>5, <2>5 DEF Typing
    <2>6. QED
      BY <1>3, <2>1, <2>2, <2>3, <2>4, <2>5
  <1> HIDE DEF w
  <1>8. QED
    BY <1>2, <1>6, <1>7 DEF normalizePhone, NoNumber

-----------------------------------------------------------------------------
(* The invariant *)

Writing == [stage : {"finding", "inserting", "creating"}, who : People,
            phone : Seq(Digits), name : Names, id : {Nobody}]
Moving  == [stage : {"renumbering"}, who : People, phone : Seq(Digits),
            name : {NoName}, id : Ids]
Naming  == [stage : {"renaming"}, name : Names, id : Ids]

\* What a handler is to write, or to look for, is the whole number of the person it
\* was given for.
RequestFits(q) ==
  /\ q.stage \in {"finding", "inserting", "creating"} => q \in Writing /\ q.phone = Whole(q.who)
  /\ q.stage = "renumbering" => q \in Moving /\ q.phone = Whole(q.who)
  /\ q.stage = "renaming" => q \in Naming
  /\ q.stage = "identifying" => q.who \in People /\ q.phone = Whole(q.who)

RequestsFit ==
  /\ req = [r \in Requests |-> req[r]]
  /\ \A r \in Requests : RequestFits(req[r])

\* So is every number on file, and the index keeps them apart.
FileFits ==
  /\ file \in Seq(Record)
  /\ \A i \in DOMAIN file : file[i].phone = Whole(file[i].of)
  /\ \A i, j \in DOMAIN file : file[i].phone = file[j].phone => i = j

FileInv == RequestsFit /\ FileFits

LEMMA WholeIsANumber ==
  ASSUME NEW p \in People
  PROVE  Whole(p) \in Seq(Digits)
  <1>1. NumberOf[p].code \in Seq(Digits) /\ NumberOf[p].national \in Seq(Digits)
    BY PeopleAssumption
  <1>2. QED
    BY <1>1, ConcatProperties DEF Whole

LEMMA OneRequestFits ==
  ASSUME RequestsFit, NEW r \in Requests, NEW q, RequestFits(q), req' = [req EXCEPT ![r] = q]
  PROVE  RequestsFit'
  BY DEF RequestsFit

LEMMA AnAnswerFits ==
  ASSUME RequestsFit, NEW r \in Requests, NEW code, NEW id, Answer(r, code, id)
  PROVE  RequestsFit'
  <1> DEFINE reply == [stage |-> "done", code |-> code, id |-> id]
  <1>1. RequestFits(reply)
    BY DEF RequestFits
  <1>2. req' = [req EXCEPT ![r] = reply]
    BY DEF Answer
  <1>3. QED
    BY <1>1, <1>2, OneRequestFits

LEMMA TakingFits ==
  ASSUME NumbersAreWhole, NationalNumbersAreSo, NoBrackets, FileInv,
         NEW r \in Requests, NEW stage, NEW p \in People, NEW way, NEW name, NEW id,
         Take(r, stage, p, way, name, id),
         \/ stage \in {"finding", "creating"} /\ name \in Names /\ id = Nobody
         \/ stage = "renumbering" /\ name = NoName /\ id \in Ids
  PROVE  FileInv'
  <1> DEFINE q == [stage |-> stage, who |-> p, phone |-> Whole(p), name |-> name, id |-> id]
  <1>1. normalizePhone(Typing(p, way), Home) = Whole(p) /\ Whole(p) # NoNumber
    BY Canonical DEF Take
  <1>2. req' = [req EXCEPT ![r] = q] /\ UNCHANGED <<file, order>>
    BY <1>1 DEF Take
  <1>3. RequestFits(q)
    BY WholeIsANumber DEF RequestFits, Writing, Moving
  <1>4. RequestsFit'
    BY <1>2, <1>3, OneRequestFits DEF FileInv
  <1>5. QED
    BY <1>2, <1>4 DEF FileInv, FileFits

LEMMA InsertFits ==
  ASSUME FileInv, NEW r \in Requests, req[r].stage \in {"inserting", "creating"},
         Withs(req[r].phone) = {}, Insert(r)
  PROVE  FileInv'
  <1>1. req[r] \in Writing /\ req[r].phone = Whole(req[r].who)
    BY DEF FileInv, RequestsFit, RequestFits
  <1>2. New(r) \in Record /\ New(r).phone = Whole(New(r).of) /\ New(r).phone = req[r].phone
    BY <1>1 DEF New, Record, Writing
  <1>3. file \in Seq(Record) /\ Len(file) \in Nat /\ DOMAIN file = 1..Len(file)
    BY LenProperties DEF FileInv, FileFits
  <1>4. /\ file' \in Seq(Record) /\ DOMAIN file' = 1..Len(file) + 1
        /\ file'[Len(file) + 1] = New(r)
        /\ \A i \in 1..Len(file) : file'[i] = file[i]
    BY <1>2, <1>3, AppendProperties DEF Insert
  <1>5. \A i \in DOMAIN file : file[i].phone # New(r).phone
    BY <1>2 DEF Withs
  <1>6. FileFits'
    <2>1. \A i \in DOMAIN file' : file'[i].phone = Whole(file'[i].of)
      <3> SUFFICES ASSUME NEW i \in 1..Len(file) + 1
                   PROVE  file'[i].phone = Whole(file'[i].of)
        BY <1>4
      <3>1. CASE i \in 1..Len(file)
        BY <1>3, <1>4, <3>1 DEF FileInv, FileFits
      <3>2. CASE i = Len(file) + 1
        BY <1>2, <1>4, <3>2
      <3>3. QED
        BY <1>3, <3>1, <3>2
    <2>2. \A i, j \in DOMAIN file' : file'[i].phone = file'[j].phone => i = j
      <3> SUFFICES ASSUME NEW i \in 1..Len(file) + 1, NEW j \in 1..Len(file) + 1,
                          file'[i].phone = file'[j].phone
                   PROVE  i = j
        BY <1>4
      <3>1. CASE i \in 1..Len(file) /\ j \in 1..Len(file)
        BY <1>3, <1>4, <3>1 DEF FileInv, FileFits
      <3>2. CASE i = Len(file) + 1 \/ j = Len(file) + 1
        BY <1>2, <1>3, <1>4, <1>5, <3>2
      <3>3. QED
        BY <1>3, <3>1, <3>2
    <2>3. QED
      BY <1>4, <2>1, <2>2 DEF FileFits
  <1>7. RequestsFit'
    BY AnAnswerFits DEF Insert, FileInv
  <1>8. QED
    BY <1>6, <1>7 DEF FileInv

\* An answer that leaves the file as it is.
LEMMA OnlyAnswered ==
  ASSUME FileInv, NEW r \in Requests, NEW code, NEW id, Answer(r, code, id), UNCHANGED file
  PROVE  FileInv'
  BY AnAnswerFits DEF FileInv, FileFits

LEMMA FindFits ==
  ASSUME FileInv, NEW r \in Requests, Find(r)
  PROVE  FileInv'
  <1>1. CASE req' = [req EXCEPT ![r].stage = "inserting"]
    <2> DEFINE q == [req[r] EXCEPT !.stage = "inserting"]
    <2>1. req[r] \in Writing /\ req[r].phone = Whole(req[r].who)
      BY DEF Find, FileInv, RequestsFit, RequestFits
    <2>2. RequestFits(q)
      BY <2>1 DEF RequestFits, Writing
    <2>3. req' = [req EXCEPT ![r] = q]
      BY <1>1
    <2> HIDE DEF q
    <2>4. RequestsFit'
      BY <2>2, <2>3, OneRequestFits DEF FileInv
    <2>5. QED
      BY <2>4 DEF Find, FileInv, FileFits
  <1>2. CASE \E i \in Withs(req[r].phone) : Answer(r, "OK", i)
    BY <1>2, OnlyAnswered DEF Find
  <1>3. QED
    BY <1>1, <1>2 DEF Find

LEMMA RenumberFits ==
  ASSUME FileInv, NEW r \in Requests, Renumber(r)
  PROVE  FileInv'
  <1> DEFINE i == req[r].id
  <1>1. req[r] \in Moving /\ req[r].phone = Whole(req[r].who)
    BY DEF Renumber, FileInv, RequestsFit, RequestFits
  <1>2. /\ file \in Seq(Record) /\ i \in DOMAIN file
        /\ \A j \in DOMAIN file : file[j] \in Record /\ file[j].phone = Whole(file[j].of)
        /\ \A j, k \in DOMAIN file : file[j].phone = file[k].phone => j = k
    BY ElementOfSeq DEF Renumber, FileInv, FileFits
  <1>3. CASE ~(Withs(req[r].phone) \subseteq {i})
    BY <1>3, OnlyAnswered DEF Renumber
  <1>4. CASE Withs(req[r].phone) \subseteq {i}
    <2> DEFINE row == [file[i] EXCEPT !.phone = req[r].phone, !.of = req[r].who]
    <2>1. /\ file' = [file EXCEPT ![i].phone = req[r].phone, ![i].of = req[r].who]
          /\ Answer(r, "OK", i)
      BY <1>4 DEF Renumber
    <2>2. row \in Record /\ row.phone = Whole(row.of) /\ row.phone = req[r].phone
      <3>1. file[i] \in Record
        BY <1>2
      <3>2. /\ req[r].who \in People /\ req[r].phone \in Seq(Digits)
            /\ req[r].phone = Whole(req[r].who)
        BY <1>1 DEF Moving
      <3>3. row \in Record
        BY <3>1, <3>2 DEF Record
      <3>4. row.phone = req[r].phone /\ row.of = req[r].who
        BY <3>1 DEF Record
      <3>5. QED
        BY <3>2, <3>3, <3>4
    <2>3. file' = [file EXCEPT ![i] = row]
      BY <1>2, <2>1
    <2> HIDE DEF row
    <2>4. file' \in Seq(Record) /\ DOMAIN file' = DOMAIN file
      BY <1>2, <2>2, <2>3, ExceptSeq
    <2>5. /\ file'[i] = row
          /\ \A j \in DOMAIN file : j # i => file'[j] = file[j]
      BY <1>2, <2>3
    <2>6. \A j \in DOMAIN file : j # i => file[j].phone # row.phone
      BY <1>4, <2>2 DEF Withs
    <2>7. FileFits'
      <3>1. \A j \in DOMAIN file' : file'[j].phone = Whole(file'[j].of)
        BY <1>2, <2>2, <2>4, <2>5
      <3>2. \A j, k \in DOMAIN file' : file'[j].phone = file'[k].phone => j = k
        BY <1>2, <2>2, <2>4, <2>5, <2>6
      <3>3. QED
        BY <2>4, <3>1, <3>2 DEF FileFits
    <2>8. QED
      BY <2>1, <2>7, AnAnswerFits DEF FileInv
  <1>5. QED
    BY <1>3, <1>4

LEMMA RenameFits ==
  ASSUME FileInv, NEW r \in Requests, Rename(r)
  PROVE  FileInv'
  <1> DEFINE i   == req[r].id
             row == [file[i] EXCEPT !.name = req[r].name]
  <1>1. req[r] \in Naming
    BY DEF Rename, FileInv, RequestsFit, RequestFits
  <1>2. /\ file \in Seq(Record) /\ i \in DOMAIN file
        /\ \A j \in DOMAIN file : file[j] \in Record /\ file[j].phone = Whole(file[j].of)
        /\ \A j, k \in DOMAIN file : file[j].phone = file[k].phone => j = k
    BY ElementOfSeq DEF Rename, FileInv, FileFits
  <1>3. row \in Record /\ row.phone = file[i].phone /\ row.of = file[i].of
    BY <1>1, <1>2 DEF Record, Naming
  <1>4. file' = [file EXCEPT ![i] = row] /\ Answer(r, "OK", i)
    BY <1>2 DEF Rename
  <1> HIDE DEF row
  <1>5. file' \in Seq(Record) /\ DOMAIN file' = DOMAIN file
    BY <1>2, <1>3, <1>4, ExceptSeq
  <1>6. \A j \in DOMAIN file : file'[j].phone = file[j].phone /\ file'[j].of = file[j].of
    BY <1>2, <1>3, <1>4
  <1>7. FileFits'
    BY <1>2, <1>5, <1>6 DEF FileFits
  <1>8. QED
    BY <1>4, <1>7, AnAnswerFits DEF FileInv

LEMMA FileInvInit == Init => FileInv
  BY DEF Init, Idle, FileInv, RequestsFit, RequestFits, FileFits

LEMMA FileInvStep ==
  ASSUME NumbersAreWhole, NationalNumbersAreSo, NoBrackets, FileInv, [Next]_vars
  PROVE  FileInv'
  <1>1. CASE UNCHANGED vars
    BY <1>1 DEF vars, FileInv, RequestsFit, FileFits
  <1>2. ASSUME NEW r \in Requests, TakeBooking(r) \/ TakeCustomer(r) \/ TakeNumber(r)
        PROVE  FileInv'
    BY <1>2, TakingFits DEF TakeBooking, TakeCustomer, TakeNumber
  <1>3. ASSUME NEW r \in Requests, TakeName(r)
        PROVE  FileInv'
    <2>1. PICK name \in Names, id \in Ids :
            req' = [req EXCEPT ![r] = [stage |-> "renaming", name |-> name, id |-> id]]
      BY <1>3 DEF TakeName
    <2> DEFINE q == [stage |-> "renaming", name |-> name, id |-> id]
    <2>2. RequestFits(q)
      BY DEF RequestFits, Naming
    <2>3. QED
      BY <1>3, <2>1, <2>2, OneRequestFits DEF TakeName, FileInv, FileFits
  <1>4. ASSUME NEW r \in Requests, TakeCall(r)
        PROVE  FileInv'
    <2>1. PICK p \in People :
            req' = [req EXCEPT ![r] = [stage |-> "identifying", who |-> p, phone |-> Whole(p)]]
      BY <1>4 DEF TakeCall
    <2> DEFINE q == [stage |-> "identifying", who |-> p, phone |-> Whole(p)]
    <2>2. RequestFits(q)
      BY DEF RequestFits
    <2>3. QED
      BY <1>4, <2>1, <2>2, OneRequestFits DEF TakeCall, FileInv, FileFits
  <1>5. ASSUME NEW r \in Requests, InsertOrFind(r)
        PROVE  FileInv'
    BY <1>5, InsertFits, OnlyAnswered DEF InsertOrFind
  <1>6. ASSUME NEW r \in Requests, Create(r)
        PROVE  FileInv'
    BY <1>6, InsertFits, OnlyAnswered DEF Create
  <1>7. ASSUME NEW r \in Requests, Unknown(r) \/ Identify(r) \/ LookupFails(r)
        PROVE  FileInv'
    BY <1>7, OnlyAnswered DEF Unknown, Identify, LookupFails
  <1>8. QED
    BY <1>1, <1>2, <1>3, <1>4, <1>5, <1>6, <1>7, FindFits, RenumberFits, RenameFits DEF Next

\* What handler q does: the statement it is at, or a request that it takes.
Served(q) == \/ Find(q) \/ InsertOrFind(q) \/ Create(q) \/ Renumber(q) \/ Rename(q)
             \/ Unknown(q) \/ Identify(q) \/ LookupFails(q)
Taken(q)  == TakeBooking(q) \/ TakeCustomer(q) \/ TakeNumber(q) \/ TakeName(q) \/ TakeCall(q)

LEMMA OneAtATime ==
  ASSUME NEW q \in Requests, Served(q) \/ Taken(q)
  PROVE  \E v : req' = [req EXCEPT ![q] = v]
  <1>1. CASE Taken(q)
    BY <1>1 DEF Taken, TakeBooking, TakeCustomer, TakeNumber, TakeName, TakeCall, Take, Answer
  <1>2. CASE Find(q)
    BY <1>2 DEF Find, Answer
  <1>3. CASE InsertOrFind(q) \/ Create(q)
    BY <1>3 DEF InsertOrFind, Create, Insert, Answer
  <1>4. CASE Renumber(q) \/ Rename(q) \/ Unknown(q) \/ Identify(q) \/ LookupFails(q)
    BY <1>4 DEF Renumber, Rename, Unknown, Identify, LookupFails, Answer
  <1>5. QED
    BY <1>1, <1>2, <1>3, <1>4 DEF Served

LEMMA FileInvAlways ==
  ASSUME NumbersAreWhole, NationalNumbersAreSo, NoBrackets
  PROVE  Spec => []FileInv
  BY FileInvInit, FileInvStep, PTL DEF Spec

-----------------------------------------------------------------------------
(* Theorems *)

\* For any people, numbers, ways of typing them but the bracketed one, and any
\* number of requests at once: a person has one record.  This is what the unique
\* index and normalizePhone are for.
THEOREM PeopleHaveOneRecord ==
  ASSUME NumbersAreWhole, NationalNumbersAreSo, NoBrackets
  PROVE  Spec => []OnePersonOneRecord
  <1>1. FileInv => OnePersonOneRecord
    BY DEF FileInv, FileFits, OnePersonOneRecord
  <1>2. QED
    BY <1>1, FileInvAlways, PTL

\* Under the same conditions, and if no two people have one number, the find-or-
\* create of a booking always succeeds, with the record of the person whose number
\* was given.
THEOREM BookingsFindTheirCustomer ==
  ASSUME NumbersAreWhole, NationalNumbersAreSo, NoBrackets, NumbersAreOwn
  PROVE  Spec => BookedUnderTheirNumber
  <1> DEFINE Right(r) == /\ req'[r].code = "OK"
                         /\ file'[req'[r].id].of = req[r].who
             Step == \A r \in Requests : Answered(r, {"finding", "inserting"}) => Right(r)
  <1>1. ASSUME FileInv, Next, NEW r \in Requests, Answered(r, {"finding", "inserting"})
        PROVE  Right(r)
    <2>1. /\ req[r] \in Writing /\ req[r].phone = Whole(req[r].who)
          /\ req = [q \in Requests |-> req[q]]
      BY <1>1 DEF Answered, FileInv, RequestsFit, RequestFits
    <2>2. Find(r) \/ InsertOrFind(r)
      <3>1. PICK q \in Requests : Served(q) \/ Taken(q)
        BY <1>1 DEF Next, Served, Taken
      <3>2. \E v : req' = [req EXCEPT ![q] = v]
        BY <3>1, OneAtATime
      <3>3. q = r
        BY <1>1, <2>1, <3>2 DEF Answered
      <3>4. ~Taken(r)
        BY <1>1 DEF Taken, Answered, TakeBooking, TakeCustomer, TakeNumber, TakeName,
             TakeCall, Take, Free
      <3>5. QED
        BY <1>1, <3>1, <3>3, <3>4 DEF Served, Answered, Create, Renumber, Rename, Unknown,
             Identify, LookupFails
    <2>3. ASSUME NEW i \in Withs(req[r].phone), Answer(r, "OK", i), UNCHANGED file
          PROVE  Right(r)
      <3>1. file[i].of \in People /\ Whole(file[i].of) = Whole(req[r].who)
        <4>1. i \in DOMAIN file /\ file[i].phone = req[r].phone
          BY DEF Withs
        <4>2. file[i] \in Record /\ file[i].phone = Whole(file[i].of)
          BY <1>1, <4>1, ElementOfSeq DEF FileInv, FileFits
        <4>3. QED
          BY <2>1, <4>1, <4>2 DEF Record
      <3>2. file[i].of = req[r].who
        BY <2>1, <3>1 DEF NumbersAreOwn, Writing
      <3>3. QED
        BY <2>1, <2>3, <3>2 DEF Answer
    <2>4. ASSUME Insert(r)
          PROVE  Right(r)
      <3>1. New(r).of = req[r].who
        BY DEF New
      <3>2. file'[Len(file) + 1] = New(r)
        BY <1>1, <2>4 DEF Insert, FileInv, FileFits
      <3>3. QED
        BY <2>1, <2>4, <3>1, <3>2 DEF Insert, Answer
    <2>5. CASE Find(r)
      <3>1. req' # [req EXCEPT ![r].stage = "inserting"]
        BY <1>1, <2>1 DEF Answered, Writing
      <3>2. QED
        BY <2>3, <2>5, <3>1 DEF Find
    <2>6. CASE InsertOrFind(r)
      BY <2>3, <2>4, <2>6 DEF InsertOrFind
    <2>7. QED
      BY <2>2, <2>5, <2>6
  <1>2. FileInv /\ [Next]_vars => [Step]_vars
    BY <1>1
  <1>3. QED
    BY <1>2, FileInvAlways, PTL DEF Spec, BookedUnderTheirNumber

-----------------------------------------------------------------------------
(* How numbers end *)

\* Two numbers that end in the same six digits.
EndAlike(s, t) == \A k \in 0..5 : s[Len(s) - k] = t[Len(t) - k]

LEMMA ReverseIs ==
  ASSUME NEW s \in Seq(Digits)
  PROVE  /\ Reverse(s) \in Seq(Digits) /\ Len(Reverse(s)) = Len(s)
         /\ \A k \in 1..Len(s) : Reverse(s)[k] = s[Len(s) - k + 1]
  <1>1. Len(s) \in Nat /\ \A k \in 1..Len(s) : s[k] \in Digits
    BY LenProperties, ElementOfSeq
  <1>2. \A k \in 1..Len(s) : Len(s) - k + 1 \in 1..Len(s)
    BY <1>1
  <1> HIDE DEF Digits
  <1>3. Reverse(s) = [k \in 1..Len(s) |-> s[Len(s) - k + 1]]
    BY DEF Reverse
  <1>4. Reverse(s) \in Seq(Digits)
    BY <1>1, <1>2, <1>3, IsASeq
  <1>5. QED
    BY <1>1, <1>3, <1>4, LenProperties

LEMMA SuffixIs ==
  ASSUME NEW s \in Seq(Digits), NEW t \in Seq(Digits)
  PROVE  IsSuffix(s, t) <=>
           Len(s) <= Len(t) /\ \A k \in 1..Len(s) : s[Len(s) - k + 1] = t[Len(t) - k + 1]
  <1>1. Len(s) \in Nat /\ Len(t) \in Nat
    BY LenProperties
  <1>2. IsSuffix(s, t) <=> /\ Len(s) <= Len(t)
                           /\ \A k \in 1..Len(s) : Reverse(s)[k] = Reverse(t)[k]
    <2> DEFINE a == Reverse(s)
               b == Reverse(t)
    <2>1. a \in Seq(Digits) /\ b \in Seq(Digits) /\ Len(a) = Len(s) /\ Len(b) = Len(t)
      BY ReverseIs
    <2>2. IsSuffix(s, t) <=> IsPrefix(a, b)
      BY DEF IsSuffix
    <2> HIDE DEF a, b
    <2>3. IsPrefix(a, b) <=> Len(s) <= Len(t) /\ \A k \in 1..Len(s) : a[k] = b[k]
      BY <2>1, PrefixIs
    <2>4. QED
      BY <2>2, <2>3 DEF a, b
  <1>3. CASE Len(s) <= Len(t)
    <2>1. \A k \in 1..Len(s) : Reverse(s)[k] = s[Len(s) - k + 1]
      BY ReverseIs
    <2>2. \A k \in 1..Len(s) : Reverse(t)[k] = t[Len(t) - k + 1]
      <3>1. \A k \in 1..Len(s) : k \in 1..Len(t)
        BY <1>1, <1>3
      <3>2. QED
        BY <3>1, ReverseIs
    <2>3. QED
      BY <1>2, <1>3, <2>1, <2>2
  <1>4. QED
    BY <1>2, <1>3

LEMMA LastSixIs ==
  ASSUME NEW d \in Seq(Digits), Len(d) >= 6
  PROVE  /\ LastSix(d) \in Seq(Digits) /\ Len(LastSix(d)) = 6
         /\ \A k \in 0..5 : LastSix(d)[6 - k] = d[Len(d) - k]
  <1> DEFINE m == IF Len(d) > 6 THEN Len(d) - 5 ELSE 1
  <1>1. Len(d) \in Nat
    BY LenProperties
  <1>2. m = Len(d) - 5
    <2>1. \A n \in Nat : n >= 6 => (IF n > 6 THEN n - 5 ELSE 1) = n - 5
      OBVIOUS
    <2>2. QED
      BY <1>1, <2>1
  <1>3. m \in 1..Len(d)+1 /\ \A k \in m..Len(d) : d[k] \in Digits
    BY <1>1, <1>2, ElementOfSeq
  <1>4. LastSix(d) = SubSeq(d, m, Len(d))
    BY DEF LastSix
  <1> HIDE DEF Digits, m
  <1>5. /\ SubSeq(d, m, Len(d)) \in Seq(Digits)
        /\ Len(SubSeq(d, m, Len(d))) = IF m <= Len(d) THEN Len(d) - m + 1 ELSE 0
        /\ \A k \in 1..(Len(d) - m + 1) : SubSeq(d, m, Len(d))[k] = d[m + k - 1]
    BY <1>1, <1>3, SubSeqProperties
  <1>6. \A k \in 0..5 : 6 - k \in 1..(Len(d) - m + 1) /\ m + (6 - k) - 1 = Len(d) - k
    BY <1>1, <1>2
  <1>7. Len(d) - m + 1 = 6 /\ m <= Len(d)
    BY <1>1, <1>2
  <1>8. QED
    BY <1>4, <1>5, <1>6, <1>7

\* What a number is searched by says how it ends.
LEMMA EndingSought ==
  ASSUME NEW s \in Seq(Digits), NEW t \in Seq(Digits), Len(s) >= 6, Len(t) >= 6
  PROVE  IsSuffix(LastSix(s), t) <=> EndAlike(s, t)
  <1>1. Len(s) \in Nat /\ Len(t) \in Nat
    BY LenProperties
  <1> DEFINE e == LastSix(s)
  <1>2. e \in Seq(Digits) /\ Len(e) = 6 /\ \A k \in 0..5 : e[6 - k] = s[Len(s) - k]
    BY LastSixIs
  <1> HIDE DEF e
  <1>3. IsSuffix(e, t) <=> \A k \in 1..6 : e[6 - k + 1] = t[Len(t) - k + 1]
    <2>1. IsSuffix(e, t) <=> /\ Len(e) <= Len(t)
                             /\ \A k \in 1..Len(e) : e[Len(e) - k + 1] = t[Len(t) - k + 1]
      BY <1>2, SuffixIs
    <2>2. QED
      BY <1>2, <2>1
  <1>4. (\A k \in 1..6 : e[6 - k + 1] = t[Len(t) - k + 1]) <=>
          \A k \in 0..5 : e[6 - k] = t[Len(t) - k]
    <2>1. ASSUME \A k \in 1..6 : e[6 - k + 1] = t[Len(t) - k + 1], NEW k \in 0..5
          PROVE  e[6 - k] = t[Len(t) - k]
      <3>1. k + 1 \in 1..6 /\ 6 - (k + 1) + 1 = 6 - k /\ Len(t) - (k + 1) + 1 = Len(t) - k
        BY <1>1
      <3>2. QED
        BY <2>1, <3>1
    <2>2. ASSUME \A k \in 0..5 : e[6 - k] = t[Len(t) - k], NEW k \in 1..6
          PROVE  e[6 - k + 1] = t[Len(t) - k + 1]
      <3>1. k - 1 \in 0..5 /\ 6 - (k - 1) = 6 - k + 1 /\ Len(t) - (k - 1) = Len(t) - k + 1
        BY <1>1
      <3>2. e[6 - (k - 1)] = t[Len(t) - (k - 1)]
        BY <2>2, <3>1
      <3>3. QED
        BY <3>1, <3>2
    <2>3. QED
      BY <2>1, <2>2
  <1>5. QED
    BY <1>2, <1>3, <1>4 DEF EndAlike, e

LEMMA CodeBefore ==
  ASSUME NEW code \in Seq(Digits), NEW d \in Seq(Digits), Len(d) >= 6
  PROVE  /\ code \o d \in Seq(Digits) /\ Len(code \o d) = Len(code) + Len(d)
         /\ Len(code \o d) >= 6 /\ EndAlike(code \o d, d)
  <1>1. Len(code) \in Nat /\ Len(d) \in Nat
    BY LenProperties
  <1> HIDE DEF Digits
  <1>2. /\ code \o d \in Seq(Digits) /\ Len(code \o d) = Len(code) + Len(d)
        /\ \A k \in 1..Len(d) : (code \o d)[Len(code) + k] = d[k]
    <2>1. \A k \in 1..Len(d) : Len(code) + k \in 1..(Len(code) + Len(d))
      BY <1>1
    <2>2. QED
      BY <1>1, <2>1, ConcatProperties
  <1>3. ASSUME NEW k \in 0..5
        PROVE  (code \o d)[Len(code \o d) - k] = d[Len(d) - k]
    <2> DEFINE j == Len(d) - k
    <2>1. j \in 1..Len(d) /\ Len(code \o d) - k = Len(code) + j
      BY <1>1, <1>2
    <2> HIDE DEF j
    <2>2. (code \o d)[Len(code) + j] = d[j]
      BY <1>2, <2>1
    <2>3. QED
      BY <2>1, <2>2 DEF j
  <1> DEFINE w == code \o d
  <1>4. EndAlike(w, d)
    BY <1>3 DEF EndAlike
  <1> HIDE DEF w
  <1>5. w \in Seq(Digits) /\ Len(w) = Len(code) + Len(d) /\ Len(w) >= 6
    BY <1>1, <1>2 DEF w
  <1>6. QED
    BY <1>4, <1>5 DEF w

LEMMA FirstComesOff ==
  ASSUME NEW d \in Seq(Digits), Len(d) >= 1
  PROVE  /\ Tail(d) \in Seq(Digits) /\ Len(Tail(d)) = Len(d) - 1
         /\ Len(d) >= 7 => EndAlike(Tail(d), d)
  <1>1. Len(d) \in Nat /\ d # <<>>
    BY LenProperties
  <1> HIDE DEF Digits
  <1>2. /\ Tail(d) \in Seq(Digits) /\ Len(Tail(d)) = Len(d) - 1
        /\ \A k \in 1..(Len(d) - 1) : Tail(d)[k] = d[k + 1]
    BY <1>1, HeadTailProperties
  <1>3. ASSUME Len(d) >= 7, NEW k \in 0..5
        PROVE  Tail(d)[Len(Tail(d)) - k] = d[Len(d) - k]
    <2>1. Len(d) - 1 - k \in 1..(Len(d) - 1) /\ (Len(d) - 1 - k) + 1 = Len(d) - k
      BY <1>1, <1>3
    <2>2. QED
      BY <1>2, <2>1
  <1>4. QED
    BY <1>1, <1>2, <1>3 DEF EndAlike

\* However a number is read, and wherever it is taken to be from, it ends as it did.
LEMMA ReadingsEnd ==
  ASSUME NEW plus \in BOOLEAN, NEW d \in Seq(Digits), Len(d) >= Shortest, NEW code \in Seq(Digits)
  PROVE  LET y == International(Typed(plus, d), code)
         IN \/ y = NoNumber
            \/ y \in Seq(Digits) /\ (Len(y) >= 7 => EndAlike(y, d))
  <1> DEFINE y  == International(Typed(plus, d), code)
             d1 == Tail(d)
             d2 == Tail(Tail(d))
  <1>1. Len(d) \in Nat /\ Len(d) >= 7 /\ EndAlike(d, d)
    BY LenProperties DEF Shortest, EndAlike
  <1>2. d1 \in Seq(Digits) /\ Len(d1) = Len(d) - 1 /\ EndAlike(d1, d)
    BY <1>1, FirstComesOff
  <1>3. d2 \in Seq(Digits) /\ Len(d2) = Len(d) - 2 /\ (Len(d2) >= 7 => EndAlike(d2, d))
    <2> HIDE DEF d1
    <2>1. Tail(d1) \in Seq(Digits) /\ Len(Tail(d1)) = Len(d) - 2
          /\ (Len(d1) >= 7 => EndAlike(Tail(d1), d1))
      BY <1>1, <1>2, FirstComesOff
    <2>2. Len(d1) >= 7 => EndAlike(Tail(d1), d)
      BY <1>2, <2>1 DEF EndAlike
    <2>3. QED
      BY <1>1, <1>2, <2>1, <2>2 DEF d1
  <1>4. ASSUME NEW e \in Seq(Digits), Len(e) >= 6, EndAlike(e, d)
        PROVE  \/ National(e, code) = NoNumber
               \/ National(e, code) \in Seq(Digits) /\ EndAlike(National(e, code), d)
    <2>1. code \o e \in Seq(Digits) /\ EndAlike(code \o e, e)
      BY <1>4, CodeBefore
    <2>2. EndAlike(code \o e, d)
      BY <1>4, <2>1 DEF EndAlike
    <2>3. QED
      BY <2>1, <2>2 DEF National
  <1>5. \/ y \in {d, d2, NoNumber}
        \/ y = National(d1, code)
        \/ y = National(d, code)
    <2>1. /\ plus => y = d
          /\ ~plus /\ IsPrefix(<<0>>, d) /\ IsPrefix(<<0, 0>>, d) => y = d2
          /\ ~plus /\ IsPrefix(<<0>>, d) /\ ~IsPrefix(<<0, 0>>, d) =>
               y = IF code = NoCode THEN NoNumber ELSE National(d1, code)
          /\ ~plus /\ ~IsPrefix(<<0>>, d) /\ ~IsPrefix(<<0, 0>>, d) =>
               y = IF code = NoCode \/ Len(d) > LongestBare \/ IsPrefix(code, d) THEN d
                   ELSE National(d, code)
      BY Readings
    <2>2. IsPrefix(<<0, 0>>, d) => IsPrefix(<<0>>, d)
      BY <1>1, ZerosFirst
    <2> HIDE DEF y, d1, d2
    <2>3. QED
      BY <2>1, <2>2
  <1>6. \/ National(d1, code) = NoNumber
        \/ National(d1, code) \in Seq(Digits) /\ EndAlike(National(d1, code), d)
    <2> HIDE DEF d1
    <2>1. QED
      BY <1>1, <1>2, <1>4
  <1>7. \/ National(d, code) = NoNumber
        \/ National(d, code) \in Seq(Digits) /\ EndAlike(National(d, code), d)
    BY <1>1, <1>4
  <1> HIDE DEF y, d1, d2
  <1>8. \/ y = NoNumber
        \/ y \in Seq(Digits) /\ (Len(y) >= 7 => EndAlike(y, d))
    BY <1>1, <1>3, <1>5, <1>6, <1>7
  <1>9. QED
    BY <1>8 DEF y

\* What searchCustomers looks for ends as what was typed does.
Sought(t) == IF normalizePhone(t, Home) = NoNumber THEN t.digits ELSE normalizePhone(t, Home)

LEMMA CodesAreDigits == Home \in Seq(Digits)
  <1> DEFINE d == SalonPhone.digits
             m == Min({3, Len(d)})
             first == SubSeq(d, 1, m)
             n == Min({2, Len(first)})
             codes == {c \in KnownCodes : IsPrefix(c, first)}
  <1>1. d \in Seq(Digits) /\ Len(d) \in Nat
    BY PeopleAssumption, LenProperties
  <1>2. \A e \in Seq(Digits), k \in Nat : k <= Len(e) => SubSeq(e, 1, k) \in Seq(Digits)
    <2> SUFFICES ASSUME NEW e \in Seq(Digits), NEW k \in Nat, k <= Len(e)
                 PROVE  SubSeq(e, 1, k) \in Seq(Digits)
      OBVIOUS
    <2>1. Len(e) \in Nat /\ \A i \in 1..k : e[i] \in Digits
      BY LenProperties, ElementOfSeq
    <2> HIDE DEF Digits
    <2>2. QED
      BY <2>1, SubSeqProperties
  <1>3. \A j, k \in Nat : Min({j, k}) \in Nat /\ Min({j, k}) <= k
    <2> SUFFICES ASSUME NEW j \in Nat, NEW k \in Nat
                 PROVE  Min({j, k}) \in Nat /\ Min({j, k}) <= k
      OBVIOUS
    <2>1. \E x \in {j, k} : \A y \in {j, k} : x <= y
      OBVIOUS
    <2>2. Min({j, k}) \in {j, k} /\ \A y \in {j, k} : Min({j, k}) <= y
      BY <2>1 DEF Min
    <2>3. QED
      BY <2>2
  <1>4. first \in Seq(Digits)
    BY <1>1, <1>2, <1>3
  <1>5. SubSeq(first, 1, n) \in Seq(Digits)
    <2> HIDE DEF first
    <2>1. Len(first) \in Nat
      BY <1>4, LenProperties
    <2>2. QED
      BY <1>2, <1>3, <1>4, <2>1
  <1>6. codes \subseteq Seq(Digits)
    <2>1. KnownCodes \subseteq Seq(Digits)
      BY DEF KnownCodes, Digits
    <2>2. QED
      BY <2>1
  <1>7. NoCode \in Seq(Digits)
    BY DEF NoCode
  <1>8. Home = IF ~SalonPhone.plus THEN NoCode
               ELSE IF codes # {} THEN CHOOSE c \in codes : TRUE
               ELSE SubSeq(first, 1, n)
    BY DEF Home, callingCodeFromSalonPhone
  <1> HIDE DEF codes, first, n
  <1>9. QED
    BY <1>5, <1>6, <1>7, <1>8
LEMMA SoughtEnds ==
  ASSUME NEW plus \in BOOLEAN, NEW d \in Seq(Digits), Len(d) >= Shortest
  PROVE  LET s == Sought(Typed(plus, d))
         IN s \in Seq(Digits) /\ Len(s) >= 6 /\ EndAlike(s, d)
  <1> DEFINE t == Typed(plus, d)
             y == International(t, Home)
  <1>1. Len(d) >= 6 /\ EndAlike(d, d)
    <2>1. Len(d) \in Nat
      BY LenProperties
    <2>2. QED
      BY <2>1 DEF Shortest, EndAlike
  <1>2. \/ y = NoNumber
        \/ y \in Seq(Digits) /\ (Len(y) >= 7 => EndAlike(y, d))
    BY CodesAreDigits, ReadingsEnd
  <1>3. normalizePhone(t, Home) \in {NoNumber, y}
        /\ (normalizePhone(t, Home) # NoNumber => Len(y) \in Shortest..Longest)
    <2> HIDE DEF t
    <2>1. QED
      BY DEF normalizePhone
  <1>4. t.digits = d
    BY DEF Typed
  <1> HIDE DEF t, y
  <1>5. CASE normalizePhone(t, Home) = NoNumber
    BY <1>1, <1>4, <1>5 DEF Sought, t
  <1>6. CASE normalizePhone(t, Home) # NoNumber
    <2>1. Sought(t) = y /\ y # NoNumber /\ Len(y) \in 7..15
      BY <1>3, <1>6 DEF Sought, Shortest, Longest
    <2>2. Len(y) >= 7 /\ Len(y) >= 6
      <3>1. \A n \in 7..15 : n >= 7 /\ n >= 6
        OBVIOUS
      <3>2. QED
        BY <2>1, <3>1
    <2>3. QED
      BY <1>2, <2>1, <2>2 DEF t
  <1>7. QED
    BY <1>5, <1>6

LEMMA FoundByTheEnding ==
  ASSUME NEW plus \in BOOLEAN, NEW d \in Seq(Digits), Len(d) >= Shortest,
         NEW i \in DOMAIN file, file[i].phone \in Seq(Digits), Len(file[i].phone) >= 6,
         EndAlike(d, file[i].phone)
  PROVE  i \in Matching(Typed(plus, d))
  <1> DEFINE s == Sought(Typed(plus, d))
             w == file[i].phone
  <1>1. s \in Seq(Digits) /\ Len(s) >= 6 /\ EndAlike(s, d)
    BY SoughtEnds
  <1>2. EndAlike(s, w)
    BY <1>1 DEF EndAlike
  <1>3. IsSuffix(LastSix(s), w)
    <2> HIDE DEF s
    <2>1. QED
      BY <1>1, <1>2, EndingSought
  <1>4. QED
    BY <1>3 DEF Matching, Sought

\* However a number is typed, it ends in the national number.
LEMMA TypedEndings ==
  ASSUME NumbersAreWhole, NEW p \in People, NEW way \in Ways
  PROVE  \E plus \in BOOLEAN, d \in Seq(Digits) :
           /\ Typing(p, way) = Typed(plus, d)
           /\ Len(d) >= Shortest /\ EndAlike(d, NumberOf[p].national)
  <1>1. PICK code \in Seq(Digits), nat \in Seq(Digits) :
          /\ code = NumberOf[p].code /\ nat = NumberOf[p].national
          /\ Len(code) >= 1 /\ Len(nat) >= Shortest
    BY PeopleAssumption DEF NumbersAreWhole
  <1>2. Len(code) \in Nat /\ Len(nat) \in Nat /\ Len(nat) >= 6
    BY <1>1, LenProperties DEF Shortest
  <1> DEFINE Good(d) == d \in Seq(Digits) /\ Len(d) >= Shortest /\ EndAlike(d, nat)
  <1>3. ASSUME NEW a \in Seq(Digits), NEW d, Good(d)
        PROVE  Good(a \o d)
    <2>1. Len(a) \in Nat /\ Len(d) \in Nat /\ Len(d) >= 7
      BY <1>3, LenProperties DEF Shortest
    <2>2. a \o d \in Seq(Digits) /\ Len(a \o d) = Len(a) + Len(d) /\ EndAlike(a \o d, d)
      BY <1>3, <2>1, CodeBefore
    <2>3. EndAlike(a \o d, nat)
      BY <1>3, <2>2 DEF EndAlike
    <2>4. Len(a \o d) >= Shortest
      BY <2>1, <2>2 DEF Shortest
    <2>5. QED
      BY <2>2, <2>3, <2>4
  <1>4. Good(nat)
    BY <1>1 DEF EndAlike
  <1>5. <<0>> \in Seq(Digits) /\ <<0, 0>> \in Seq(Digits)
    BY DEF Digits
  <1> DEFINE w    == code \o nat
             far  == <<0, 0>> \o w
             near == <<0>> \o nat
             both == code \o <<0>> \o nat
  <1>6. Good(w) /\ Good(near)
    BY <1>3, <1>4, <1>5
  <1>7. Good(far)
    <2> HIDE DEF w
    <2>1. QED
      BY <1>3, <1>5, <1>6
  <1>8. Good(both)
    <2>1. code \o <<0>> \in Seq(Digits)
      BY <1>5, ConcatProperties
    <2>2. QED
      BY <1>3, <1>4, <2>1
  <1>9. \/ Typing(p, way) = Typed(TRUE, w)
        \/ Typing(p, way) = Typed(FALSE, far)
        \/ Typing(p, way) = Typed(FALSE, near)
        \/ Typing(p, way) = Typed(FALSE, w)
        \/ Typing(p, way) = Typed(FALSE, nat)
        \/ Typing(p, way) = Typed(TRUE, both)
    <2>1. way \in {"international", "dialled", "national", "unmarked", "bare", "bracketed"}
      BY PeopleAssumption
    <2>2. QED
      BY <1>1, <2>1 DEF Typing, Whole
  <1> HIDE DEF w, far, near, both
  <1>10. ASSUME NEW plus \in BOOLEAN, NEW d, Good(d), Typing(p, way) = Typed(plus, d)
         PROVE  \E u \in BOOLEAN, e \in Seq(Digits) :
                  /\ Typing(p, way) = Typed(u, e)
                  /\ Len(e) >= Shortest /\ EndAlike(e, NumberOf[p].national)
    <2>1. EndAlike(d, NumberOf[p].national)
      BY <1>1, <1>10
    <2>2. QED
      BY <1>10, <2>1
  <1> HIDE DEF Good
  <1>11. QED
    BY <1>4, <1>6, <1>7, <1>8, <1>9, <1>10

\* What is on file, and how it ends.
LEMMA OnFile ==
  ASSUME FileInv, NumbersAreWhole, NEW i \in DOMAIN file
  PROVE  /\ file[i].of \in People /\ file[i].phone = Whole(file[i].of)
         /\ file[i].phone \in Seq(Digits) /\ Len(file[i].phone) >= 6
         /\ NumberOf[file[i].of].national \in Seq(Digits)
         /\ Len(NumberOf[file[i].of].national) >= Shortest
         /\ EndAlike(NumberOf[file[i].of].national, file[i].phone)
  <1> DEFINE p == file[i].of
             a == NumberOf[p].code
             n == NumberOf[p].national
  <1>1. file[i] \in Record /\ file[i].phone = Whole(p)
    BY ElementOfSeq DEF FileInv, FileFits
  <1>2. p \in People
    BY <1>1 DEF Record
  <1>3. a \in Seq(Digits) /\ n \in Seq(Digits) /\ Len(n) >= Shortest
    BY <1>2, PeopleAssumption DEF NumbersAreWhole
  <1>4. Len(n) >= 6
    <2>1. Len(n) \in Nat
      BY <1>3, LenProperties
    <2>2. QED
      BY <1>3, <2>1 DEF Shortest
  <1>5. Whole(p) = a \o n
    BY DEF Whole
  <1> HIDE DEF p, a, n
  <1>6. a \o n \in Seq(Digits) /\ Len(a \o n) >= 6 /\ EndAlike(a \o n, n)
    BY <1>3, <1>4, CodeBefore
  <1>7. EndAlike(n, a \o n)
    BY <1>6 DEF EndAlike
  <1>8. QED
    BY <1>1, <1>2, <1>3, <1>5, <1>6, <1>7 DEF p, n

LEMMA EndingIs ==
  ASSUME NEW d \in Seq(Digits), Len(d) >= 6
  PROVE  Ending(d) = LastSix(d)
  <1>1. Len(d) \in Nat
    BY LenProperties
  <1>2. \A n \in Nat : n >= 6 => n - 5 = IF n > 6 THEN n - 5 ELSE 1
    OBVIOUS
  <1>3. Len(d) - 5 = IF Len(d) > 6 THEN Len(d) - 5 ELSE 1
    BY <1>1, <1>2
  <1>4. QED
    BY <1>3, Zenon DEF Ending, LastSix

LEMMA EndingsAgree ==
  ASSUME NEW s \in Seq(Digits), NEW t \in Seq(Digits), Len(s) >= 6, Len(t) >= 6, EndAlike(s, t)
  PROVE  Ending(s) = Ending(t)
  <1> DEFINE e == LastSix(s)
             f == LastSix(t)
  <1>1. /\ e \in Seq(Digits) /\ Len(e) = 6
        /\ \A k \in 0..5 : e[6 - k] = s[Len(s) - k]
    BY LastSixIs
  <1>2. /\ f \in Seq(Digits) /\ Len(f) = 6
        /\ \A k \in 0..5 : f[6 - k] = t[Len(t) - k]
    BY LastSixIs
  <1>3. Ending(s) = e /\ Ending(t) = f
    BY EndingIs
  <1> HIDE DEF e, f
  <1>4. \A k \in 0..5 : e[6 - k] = f[6 - k]
    BY <1>1, <1>2 DEF EndAlike
  <1>5. \A k \in 1..6 : e[k] = f[k]
    <2> SUFFICES ASSUME NEW k \in 1..6
                 PROVE  e[k] = f[k]
      OBVIOUS
    <2>1. 6 - k \in 0..5 /\ 6 - (6 - k) = k
      OBVIOUS
    <2>2. QED
      BY <1>4, <2>1
  <1>6. e = f
    BY <1>1, <1>2, <1>5, SeqEqual
  <1>7. QED
    BY <1>3, <1>6

\* Whoever a search is for, those whom it is about have numbers that end so.
LEMMA MatchesEndSo ==
  ASSUME FileInv, NumbersAreWhole, NEW plus \in BOOLEAN, NEW d \in Seq(Digits),
         Len(d) >= Shortest, NEW j \in Matching(Typed(plus, d))
  PROVE  j \in DOMAIN file /\ EndAlike(d, file[j].phone)
  <1> DEFINE t == Typed(plus, d)
             s == Sought(t)
             u == file[j].phone
  <1>1. j \in DOMAIN file
    BY DEF Matching, Withs
  <1>2. u \in Seq(Digits) /\ Len(u) >= 6
    BY <1>1, OnFile
  <1>3. s \in Seq(Digits) /\ Len(s) >= 6 /\ EndAlike(s, d)
    BY SoughtEnds
  <1>4. u = normalizePhone(t, Home) \/ IsSuffix(LastSix(s), u)
    BY DEF Matching, Withs, Sought
  <1>5. u # NoNumber
    <2>1. Len(NoNumber) = 0
      BY DEF NoNumber
    <2> HIDE DEF u
    <2>2. QED
      BY <1>2, <2>1
  <1>6. u = s \/ IsSuffix(LastSix(s), u)
    BY <1>4, <1>5 DEF Sought
  <1> HIDE DEF u, s
  <1>7. EndAlike(s, u)
    <2>1. EndAlike(s, s)
      BY DEF EndAlike
    <2>2. QED
      BY <1>2, <1>3, <1>6, <2>1, EndingSought
  <1>8. EndAlike(d, u)
    BY <1>3, <1>7 DEF EndAlike
  <1>9. QED
    BY <1>1, <1>8 DEF u

LEMMA FileIsFinite ==
  ASSUME FileInv, NEW S \in SUBSET DOMAIN file
  PROVE  IsFiniteSet(S) /\ Cardinality(S) \in Nat
  <1>1. Len(file) \in Nat /\ DOMAIN file = 1..Len(file)
    BY LenProperties DEF FileInv, FileFits
  <1>2. IsFiniteSet(1..Len(file))
    BY <1>1, FS_Interval
  <1>3. QED
    BY <1>1, <1>2, FS_Subset, FS_CardinalityType

\* One whose number ends as is sought is on the first page, if fewer than it holds
\* were updated since of those whose numbers end alike.
LEMMA OnTheFirstPage ==
  ASSUME FileInv, NumbersAreWhole, NEW plus \in BOOLEAN, NEW d \in Seq(Digits),
         Len(d) >= Shortest, NEW i \in DOMAIN file, EndAlike(d, file[i].phone),
         Cardinality(Later(i, Alike(i))) < Limit
  PROVE  i \in searchCustomers(Typed(plus, d))
  <1> DEFINE found == Matching(Typed(plus, d))
             w == file[i].phone
  <1>1. w \in Seq(Digits) /\ Len(w) >= 6
    BY OnFile
  <1>2. i \in found
    BY <1>1, FoundByTheEnding
  <1>3. ASSUME NEW j \in found
        PROVE  j \in Alike(i)
    <2> DEFINE u == file[j].phone
    <2>1. j \in DOMAIN file /\ EndAlike(d, u)
      BY <1>3, MatchesEndSo
    <2>2. u \in Seq(Digits) /\ Len(u) >= 6
      BY <2>1, OnFile
    <2>3. EndAlike(u, w)
      BY <2>1 DEF EndAlike
    <2> HIDE DEF u, w
    <2>4. Ending(u) = Ending(w)
      BY <1>1, <2>2, <2>3, EndingsAgree
    <2>5. QED
      BY <2>1, <2>4 DEF Alike, u, w
  <1> HIDE DEF found, w
  <1> DEFINE S == Later(i, found)
             T == Later(i, Alike(i))
  <1>4. S \subseteq T /\ T \subseteq DOMAIN file
    BY <1>3 DEF Later, Alike
  <1>5. IsFiniteSet(T) /\ Cardinality(T) \in Nat /\ Cardinality(S) \in Nat
    BY <1>4, FileIsFinite
  <1> HIDE DEF S
  <1>6. Cardinality(S) <= Cardinality(T)
    BY <1>4, <1>5, FS_Subset
  <1>7. Cardinality(S) < Limit
    BY <1>5, <1>6, PeopleAssumption
  <1>8. QED
    BY <1>2, <1>7 DEF searchCustomers, found, S

\* Whoever is on file is found by their number, however it is typed and even where
\* the salon's country is taken for theirs, and by its last seven digits; unless as
\* many as a search returns, with numbers that end alike, were updated since.
THEOREM SearchesFindThem ==
  ASSUME NumbersAreWhole, NationalNumbersAreSo, NoBrackets
  PROVE  Spec => []SearchFindsThem
  <1>1. ASSUME FileInv, NEW i \in DOMAIN file, Cardinality(Later(i, Alike(i))) < Limit
        PROVE  /\ \A way \in Ways : i \in searchCustomers(Typing(file[i].of, way))
               /\ LET n == NumberOf[file[i].of].national
                  IN i \in searchCustomers(Typed(FALSE, SubSeq(n, Len(n) - 6, Len(n))))
    <2> DEFINE p == file[i].of
               n == NumberOf[p].national
               w == file[i].phone
    <2>1. /\ p \in People /\ w \in Seq(Digits) /\ Len(w) >= 6
          /\ n \in Seq(Digits) /\ Len(n) >= Shortest /\ EndAlike(n, w)
      BY <1>1, OnFile
    <2>2. ASSUME NEW way \in Ways
          PROVE  i \in searchCustomers(Typing(p, way))
      <3> HIDE DEF p
      <3>1. PICK plus \in BOOLEAN, d \in Seq(Digits) :
              /\ Typing(p, way) = Typed(plus, d)
              /\ Len(d) >= Shortest /\ EndAlike(d, n)
        BY <2>1, TypedEndings
      <3>2. EndAlike(d, w)
        BY <2>1, <3>1 DEF EndAlike
      <3>3. i \in searchCustomers(Typed(plus, d))
        BY <1>1, <3>1, <3>2, OnTheFirstPage
      <3>4. QED
        BY <3>1, <3>3
    <2>3. i \in searchCustomers(Typed(FALSE, SubSeq(n, Len(n) - 6, Len(n))))
      <3> HIDE DEF p, n
      <3> DEFINE m == Len(n) - 6
                 e == SubSeq(n, m, Len(n))
      <3>1. Len(n) \in Nat
        BY <2>1, LenProperties
      <3>2. Len(n) >= 7
        BY <2>1, <3>1 DEF Shortest
      <3>3. m \in 1..Len(n)+1 /\ \A k \in m..Len(n) : n[k] \in Digits
        BY <2>1, <3>1, <3>2, ElementOfSeq
      <3>4. /\ e \in Seq(Digits)
            /\ Len(e) = IF m <= Len(n) THEN Len(n) - m + 1 ELSE 0
            /\ \A k \in 1..(Len(n) - m + 1) : e[k] = n[m + k - 1]
        <4> HIDE DEF m, Digits
        <4>1. QED
          BY <2>1, <3>1, <3>3, SubSeqProperties
      <3>5. Len(n) - m + 1 = 7 /\ m <= Len(n)
        BY <3>1
      <3>6. \A k \in 0..5 : 7 - k \in 1..(Len(n) - m + 1) /\ m + (7 - k) - 1 = Len(n) - k
        BY <3>1
      <3> HIDE DEF m, e
      <3>7. Len(e) = 7 /\ \A k \in 0..5 : e[7 - k] = n[Len(n) - k]
        BY <3>4, <3>5, <3>6
      <3>8. EndAlike(e, w) /\ Len(e) >= Shortest
        <4>1. \A k \in 0..5 : n[Len(n) - k] = w[Len(w) - k]
          BY <2>1 DEF EndAlike
        <4>2. \A k \in 0..5 : e[Len(e) - k] = w[Len(w) - k]
          BY <3>7, <4>1
        <4> HIDE DEF w
        <4>3. QED
          BY <3>7, <4>2 DEF EndAlike, Shortest
      <3>9. QED
        BY <1>1, <3>4, <3>8, OnTheFirstPage DEF e, m
    <2>4. QED
      BY <2>2, <2>3
  <1>2. FileInv => SearchFindsThem
    BY <1>1 DEF SearchFindsThem
  <1>3. QED
    BY <1>2, FileInvAlways, PTL
-----------------------------------------------------------------------------
(* The caller *)

\* The one handler whose stage a step changes is the one that is served.
LEMMA TheOneServed ==
  ASSUME req = [q \in Requests |-> req[q]], Next, NEW r \in Requests, req'[r] # req[r]
  PROVE  Served(r) \/ Taken(r)
  <1>1. PICK q \in Requests : Served(q) \/ Taken(q)
    BY DEF Next, Served, Taken
  <1>2. \E v : req' = [req EXCEPT ![q] = v]
    BY <1>1, OneAtATime
  <1>3. q = r
    BY <1>2
  <1>4. QED
    BY <1>1, <1>3

\* A call's handler has looked up its caller, or failed to.
LEMMA CallerLookedUp ==
  ASSUME req = [q \in Requests |-> req[q]], Next, NEW r \in Requests,
         Answered(r, {"identifying"})
  PROVE  Identify(r) \/ LookupFails(r)
  <1>1. Served(r) \/ Taken(r)
    BY TheOneServed DEF Answered
  <1>2. ~Taken(r)
    BY DEF Taken, Answered, TakeBooking, TakeCustomer, TakeNumber, TakeName, TakeCall, Take, Free
  <1>3. QED
    BY <1>1, <1>2 DEF Served, Answered, Find, InsertOrFind, Create, Renumber, Rename, Unknown

\* A caller is taken for themselves; for a stranger if they are not on file or the
\* lookup failed; and for nobody else, unless the number of somebody else on file ends
\* in the same six digits.
THEOREM CallersAreKnown ==
  ASSUME NumbersAreWhole, NationalNumbersAreSo, NoBrackets
  PROVE  Spec => CallersAreThemselves
  <1> DEFINE Mine(r)  == {i \in DOMAIN file : file[i].of = req[r].who}
             Right(r) == \/ \E i \in DOMAIN file \ Mine(r) : Ending(file[i].phone) = Ending(req[r].phone)
                         \/ req'[r].id \in Mine(r)
                         \/ req'[r].id = Nobody /\ (Mine(r) = {} \/ req'[r].code = "LOOKUP_FAILED")
             Step == \A r \in Requests : Answered(r, {"identifying"}) => Right(r)
  <1>1. ASSUME FileInv, Next, NEW r \in Requests, Answered(r, {"identifying"})
        PROVE  Right(r)
    <2> DEFINE p == req[r].who
               w == Whole(p)
               t == Typed(TRUE, req[r].phone)
    <2>1. /\ p \in People /\ req[r].phone = w
          /\ req = [q \in Requests |-> req[q]]
      BY <1>1 DEF Answered, FileInv, RequestsFit, RequestFits
    <2>2. Identify(r) \/ LookupFails(r)
      BY <1>1, <2>1, CallerLookedUp
    <2>3. /\ w \in Seq(Digits) /\ Len(w) \in Shortest..Longest
          /\ normalizePhone(t, Home) = w /\ w # NoNumber
      <3> DEFINE code == NumberOf[p].code
                 nat  == NumberOf[p].national
      <3>1. /\ code \in Seq(Digits) /\ nat \in Seq(Digits) /\ Len(code) >= 1 /\ code[1] # 0
            /\ Len(nat) >= Shortest /\ Len(code) + Len(nat) <= Longest
        BY <2>1, PeopleAssumption DEF NumbersAreWhole
      <3>2. w = code \o nat
        BY DEF Whole
      <3> HIDE DEF code, nat, p
      <3>3. /\ w \in Seq(Digits) /\ Len(w) \in Shortest..Longest
            /\ w # <<>> /\ Head(w) # 0
        BY <3>1, <3>2, Joined
      <3>4. International(t, Home) = w
        <4>1. International(Typed(TRUE, code \o nat), Home) = code \o nat
          BY <3>1, Reads
        <4>2. QED
          BY <2>1, <3>2, <4>1
      <3> HIDE DEF w, t
      <3>5. QED
        BY <3>3, <3>4 DEF normalizePhone, NoNumber
    <2>4. Len(w) >= 6
      <3>1. \A n \in 7..15 : n >= 6
        OBVIOUS
      <3>2. QED
        BY <2>3, <3>1 DEF Shortest, Longest
    <2> DEFINE all   == Matching(t)
               found == searchCustomers(t)
    <2>5. /\ all \subseteq DOMAIN file
          /\ \A i \in DOMAIN file : file[i].phone = w => i \in all
          /\ \A i \in all : file[i].phone = w \/ IsSuffix(LastSix(w), file[i].phone)
      <3> HIDE DEF w, t
      <3>1. QED
        BY <2>3 DEF Matching, Withs
    <2>6. found = {i \in all : Cardinality(Later(i, all)) < Limit}
      BY DEF searchCustomers
    <2>7. \/ req'[r].id = Nobody /\ req'[r].code = "LOOKUP_FAILED"
          \/ req'[r].id = Nobody /\ found = {}
          \/ req'[r].id \in found
      <3> HIDE DEF t
      <3>1. \/ Answer(r, "LOOKUP_FAILED", Nobody)
            \/ found = {} /\ Answer(r, "OK", Nobody)
            \/ \E i \in found : Answer(r, "OK", i)
        BY <2>2 DEF Identify, LookupFails, t
      <3> HIDE DEF found
      <3>2. QED
        BY <2>1, <3>1 DEF Answer
    <2> HIDE DEF all, found, t
    <2>8. ASSUME NEW i \in all, i \notin Mine(r)
          PROVE  i \in DOMAIN file \ Mine(r) /\ Ending(file[i].phone) = Ending(req[r].phone)
      <3> DEFINE u == file[i].phone
      <3>1. i \in DOMAIN file
        BY <2>5
      <3>2. u \in Seq(Digits) /\ Len(u) >= 6
        BY <1>1, <3>1, OnFile
      <3>3. u = w \/ IsSuffix(LastSix(w), u)
        BY <2>5
      <3> HIDE DEF u, w
      <3>4. Ending(u) = Ending(w)
        <4>1. CASE u = w
          BY <4>1
        <4>2. CASE IsSuffix(LastSix(w), u)
          BY <2>3, <2>4, <3>2, <4>2, EndingSought, EndingsAgree
        <4>3. QED
          BY <3>3, <4>1, <4>2
      <3>5. QED
        BY <2>1, <2>8, <3>1, <3>4 DEF u, w
    <2>9. CASE req'[r].id \in found
      <3>1. CASE req'[r].id \in Mine(r)
        BY <3>1
      <3>2. CASE req'[r].id \notin Mine(r)
        BY <2>6, <2>8, <2>9, <3>2
      <3>3. QED
        BY <3>1, <3>2
    <2>10. CASE req'[r].id = Nobody /\ found = {}
      <3>1. CASE Mine(r) = {}
        BY <2>10, <3>1
      <3>2. ASSUME NEW i \in Mine(r)
            PROVE  Right(r)
        <4>1. i \in DOMAIN file /\ file[i].phone = w
          BY <1>1, OnFile
        <4>2. i \in all /\ ~(Cardinality(Later(i, all)) < Limit)
          BY <2>5, <2>6, <2>10, <4>1
        <4>3. Later(i, all) # {}
          <5>1. Cardinality({}) = 0 /\ 0 < Limit
            BY FS_EmptySet, PeopleAssumption
          <5>2. QED
            BY <4>2, <5>1
        <4>4. PICK j \in all : j # i
          BY <4>3 DEF Later
        <4>5. j \notin Mine(r)
          <5>1. ASSUME j \in Mine(r)
                PROVE  FALSE
            <6>1. j \in DOMAIN file /\ file[j].phone = w
              BY <1>1, <5>1, OnFile
            <6>2. QED
              BY <1>1, <4>1, <4>4, <6>1 DEF FileInv, FileFits
          <5>2. QED
            BY <5>1
        <4>6. QED
          BY <2>8, <4>4, <4>5
      <3>3. QED
        BY <3>1, <3>2
    <2>11. QED
      BY <2>7, <2>9, <2>10
  <1>2. FileInv /\ [Next]_vars => [Step]_vars
    BY <1>1
  <1>3. QED
    BY <1>2, FileInvAlways, PTL DEF Spec, CallersAreThemselves

-----------------------------------------------------------------------------
(* The names *)

\* A row has a number, a person and a name; this needs nothing of the numbers.
Row(x) == x = [phone |-> x.phone, of |-> x.of, name |-> x.name]

RowsInv ==
  /\ req = [r \in Requests |-> req[r]]
  /\ \E S : file \in Seq(S)
  /\ \A i \in DOMAIN file : Row(file[i])

LEMMA Wider ==
  ASSUME NEW S, NEW f \in Seq(S), NEW x
  PROVE  f \in Seq(S \cup {x})
  <1> DEFINE T == S \cup {x}
  <1>1. Len(f) \in Nat /\ f = [j \in 1..Len(f) |-> f[j]] /\ \A j \in 1..Len(f) : f[j] \in T
    BY LenProperties, ElementOfSeq
  <1> HIDE DEF T
  <1>2. f \in Seq(T)
    BY <1>1, IsASeq
  <1>3. QED
    BY <1>2 DEF T

LEMMA RowIn ==
  ASSUME RowsInv, NEW i \in DOMAIN file, NEW x, Row(x),
         file' = [file EXCEPT ![i] = x]
  PROVE  /\ \E S : file' \in Seq(S)
         /\ \A j \in DOMAIN file' : Row(file'[j])
         /\ file'[i] = x /\ \A j \in DOMAIN file : j # i => file'[j] = file[j]
  <1>1. PICK S : file \in Seq(S)
    BY DEF RowsInv
  <1> DEFINE T == S \cup {x}
  <1>2. file \in Seq(T) /\ x \in T
    BY <1>1, Wider
  <1> HIDE DEF T
  <1>3. file' \in Seq(T) /\ DOMAIN file' = DOMAIN file
    BY <1>2, ExceptSeq
  <1>4. file'[i] = x /\ \A j \in DOMAIN file : j # i => file'[j] = file[j]
    OBVIOUS
  <1>5. \A j \in DOMAIN file' : Row(file'[j])
    BY <1>3, <1>4 DEF RowsInv
  <1>6. QED
    BY <1>3, <1>4, <1>5

LEMMA RowAdded ==
  ASSUME RowsInv, NEW x, Row(x), file' = Append(file, x)
  PROVE  /\ \E S : file' \in Seq(S)
         /\ \A j \in DOMAIN file' : Row(file'[j])
         /\ \A j \in DOMAIN file : file'[j] = file[j]
  <1>1. PICK S : file \in Seq(S)
    BY DEF RowsInv
  <1> DEFINE T == S \cup {x}
  <1>2. file \in Seq(T) /\ x \in T
    BY <1>1, Wider
  <1>3. Len(file) \in Nat /\ DOMAIN file = 1..Len(file)
    BY <1>1, LenProperties
  <1> HIDE DEF T
  <1>4. /\ file' \in Seq(T) /\ DOMAIN file' = 1..Len(file) + 1
        /\ file'[Len(file) + 1] = x
        /\ \A j \in 1..Len(file) : file'[j] = file[j]
    BY <1>2, AppendProperties
  <1>5. \A j \in 1..Len(file) + 1 : j \in 1..Len(file) \/ j = Len(file) + 1
    BY <1>3
  <1>6. \A j \in DOMAIN file' : Row(file'[j])
    BY <1>3, <1>4, <1>5 DEF RowsInv
  <1>7. QED
    BY <1>3, <1>4, <1>6

\* What a served request does to the rows: nothing, or one is added, or one has its
\* number or, in the one case, its name changed.
LEMMA RowsServed ==
  ASSUME RowsInv, NEW r \in Requests, Served(r) \/ Taken(r)
  PROVE  \/ UNCHANGED file
         \/ Insert(r)
         \/ Renumber(r) /\ \E i \in DOMAIN file : \E ph, who :
              file' = [file EXCEPT ![i] = [phone |-> ph, of |-> who, name |-> file[i].name]]
         \/ Rename(r) /\ req[r].id \in DOMAIN file /\ \E n :
              file' = [file EXCEPT ![req[r].id] =
                         [phone |-> file[req[r].id].phone, of |-> file[req[r].id].of, name |-> n]]
  <1>1. CASE Taken(r)
    BY <1>1 DEF Taken, TakeBooking, TakeCustomer, TakeNumber, TakeName, TakeCall, Take
  <1>2. CASE Find(r) \/ Unknown(r) \/ Identify(r) \/ LookupFails(r)
    BY <1>2 DEF Find, Unknown, Identify, LookupFails
  <1>3. CASE InsertOrFind(r) \/ Create(r)
    BY <1>3 DEF InsertOrFind, Create
  <1>4. CASE Renumber(r)
    <2> DEFINE i == req[r].id
               x == file[i]
    <2>1. i \in DOMAIN file
      BY <1>4 DEF Renumber
    <2>2. UNCHANGED file \/ file' = [file EXCEPT ![i].phone = req[r].phone, ![i].of = req[r].who]
      BY <1>4 DEF Renumber
    <2>3. Row(x)
      BY <2>1 DEF RowsInv
    <2> HIDE DEF x
    <2>4. [x EXCEPT !.phone = req[r].phone, !.of = req[r].who] =
            [phone |-> req[r].phone, of |-> req[r].who, name |-> x.name]
      <3> DEFINE y == [x EXCEPT !.phone = req[r].phone]
      <3>1. y = [phone |-> req[r].phone, of |-> x.of, name |-> x.name]
        BY <2>3 DEF Row
      <3>2. [x EXCEPT !.phone = req[r].phone, !.of = req[r].who] = [y EXCEPT !.of = req[r].who]
        OBVIOUS
      <3> HIDE DEF y
      <3>3. [y EXCEPT !.of = req[r].who] =
              [phone |-> req[r].phone, of |-> req[r].who, name |-> x.name]
        BY <3>1
      <3>4. QED
        BY <3>2, <3>3
    <2>5. [file EXCEPT ![i].phone = req[r].phone, ![i].of = req[r].who] =
            [file EXCEPT ![i] = [x EXCEPT !.phone = req[r].phone, !.of = req[r].who]]
      BY <2>1 DEF x
    <2>6. QED
      BY <1>4, <2>1, <2>2, <2>4, <2>5 DEF x
  <1>5. CASE Rename(r)
    <2> DEFINE i == req[r].id
               x == file[i]
    <2>1. i \in DOMAIN file /\ file' = [file EXCEPT ![i].name = req[r].name]
      BY <1>5 DEF Rename
    <2>2. Row(x)
      BY <2>1 DEF RowsInv
    <2> HIDE DEF x
    <2>3. [x EXCEPT !.name = req[r].name] =
            [phone |-> x.phone, of |-> x.of, name |-> req[r].name]
      BY <2>2 DEF Row
    <2>4. [file EXCEPT ![i].name = req[r].name] =
            [file EXCEPT ![i] = [x EXCEPT !.name = req[r].name]]
      BY <2>1 DEF x
    <2>5. QED
      BY <1>5, <2>1, <2>3, <2>4 DEF x
  <1>6. QED
    BY <1>1, <1>2, <1>3, <1>4, <1>5 DEF Served

\* A step keeps the rows rows, and changes a name only to put it right.
LEMMA RowsStep ==
  ASSUME RowsInv, NEW r \in Requests, Served(r) \/ Taken(r)
  PROVE  /\ RowsInv'
         /\ \A i \in DOMAIN file :
              file'[i].name # file[i].name =>
                Answered(r, {"renaming"}) /\ req'[r].id = i
  <1>1. req' = [q \in Requests |-> req'[q]]
    BY OneAtATime DEF RowsInv
  <1>2. CASE UNCHANGED file
    BY <1>1, <1>2 DEF RowsInv
  <1>3. CASE Insert(r)
    <2>1. Row(New(r)) /\ file' = Append(file, New(r))
      BY <1>3 DEF Insert, New, Row
    <2>2. /\ \E S : file' \in Seq(S)
          /\ \A j \in DOMAIN file' : Row(file'[j])
          /\ \A j \in DOMAIN file : file'[j] = file[j]
      BY <2>1, RowAdded
    <2>3. QED
      BY <1>1, <2>2 DEF RowsInv
  <1>4. ASSUME NEW i \in DOMAIN file, NEW ph, NEW who,
               file' = [file EXCEPT ![i] = [phone |-> ph, of |-> who, name |-> file[i].name]]
        PROVE  RowsInv' /\ \A j \in DOMAIN file : file'[j].name = file[j].name
    <2> DEFINE x == [phone |-> ph, of |-> who, name |-> file[i].name]
    <2>1. Row(x) /\ x.name = file[i].name
      BY DEF Row
    <2>2. file' = [file EXCEPT ![i] = x]
      BY <1>4
    <2> HIDE DEF x
    <2>3. /\ \E S : file' \in Seq(S)
          /\ \A j \in DOMAIN file' : Row(file'[j])
          /\ file'[i] = x /\ \A j \in DOMAIN file : j # i => file'[j] = file[j]
      BY <2>1, <2>2, RowIn
    <2>4. QED
      BY <1>1, <2>1, <2>3 DEF RowsInv
  <1>5. ASSUME Rename(r), req[r].id \in DOMAIN file, NEW n,
               file' = [file EXCEPT ![req[r].id] =
                          [phone |-> file[req[r].id].phone, of |-> file[req[r].id].of, name |-> n]]
        PROVE  /\ RowsInv'
               /\ \A j \in DOMAIN file :
                    file'[j].name # file[j].name =>
                      Answered(r, {"renaming"}) /\ req'[r].id = j
    <2> DEFINE i == req[r].id
               x == [phone |-> file[i].phone, of |-> file[i].of, name |-> n]
    <2>1. Row(x)
      BY DEF Row
    <2>2. file' = [file EXCEPT ![i] = x]
      BY <1>5
    <2>3. Answered(r, {"renaming"}) /\ req'[r].id = i
      BY <1>5 DEF Answered, Rename, Answer, RowsInv
    <2> HIDE DEF x, i
    <2>4. /\ \E S : file' \in Seq(S)
          /\ \A j \in DOMAIN file' : Row(file'[j])
          /\ \A j \in DOMAIN file : j # i => file'[j] = file[j]
      BY <1>5, <2>1, <2>2, RowIn DEF i
    <2>5. QED
      BY <1>1, <2>3, <2>4 DEF RowsInv
  <1>6. QED
    BY <1>2, <1>3, <1>4, <1>5, RowsServed

\* A returning customer keeps the name on file, whatever the numbers are and however
\* they are typed.
THEOREM NamesAreKept == Spec => NameIsKept
  <1> DEFINE Step == \A i \in DOMAIN file :
                       file'[i].name # file[i].name =>
                         \E r \in Requests : Answered(r, {"renaming"}) /\ req'[r].id = i
  <1>1. Init => RowsInv
    BY DEF Init, RowsInv
  <1>2. ASSUME RowsInv, Next
        PROVE  RowsInv' /\ Step
    <2>1. PICK r \in Requests : Served(r) \/ Taken(r)
      BY <1>2 DEF Next, Served, Taken
    <2>2. QED
      BY <1>2, <2>1, RowsStep
  <1>3. RowsInv /\ UNCHANGED vars => RowsInv'
    BY DEF RowsInv, vars
  <1>4. RowsInv /\ [Next]_vars => RowsInv' /\ [Step]_vars
    BY <1>2, <1>3
  <1>5. QED
    BY <1>1, <1>4, PTL DEF Spec, NameIsKept
=============================================================================
