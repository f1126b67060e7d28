-------------------------- MODULE TimeExpressionProofs --------------------------
(***************************************************************************)
(* What a caller's words for a time stand for, whatever the year's first   *)
(* weekday and the lengths of its months: the days named are the ones the  *)
(* calendar gives, the hours are the ones said, and time is never taken    *)
(* back.                                                                   *)
(*                                                                         *)
(* Days are placed in the calendar by counting months: month k of all time *)
(* is month (k % 12) + 1 of year k \div 12, and begins on MonthStart(k).    *)
(* What is meant is then a matter of MonthStart growing with k, and every  *)
(* date of dating words grows with today.                                  *)
(***************************************************************************)
EXTENDS TimeExpression, TLAPS

-----------------------------------------------------------------------------
(* The calendar *)

\* What the recursion of DaysBefore comes to.
LEMMA DaysBeforeIs ==
  /\ DaysBefore[1] = 0
  /\ \A m \in 1..12 : DaysBefore[m + 1] = DaysBefore[m] + MonthLength[m]
  <1> DEFINE L == MonthLength
             s2 == L[1]  s3 == s2 + L[2]  s4 == s3 + L[3]  s5 == s4 + L[4]  s6 == s5 + L[5]
             s7 == s6 + L[6]  s8 == s7 + L[7]  s9 == s8 + L[8]  s10 == s9 + L[9]
             s11 == s10 + L[10]  s12 == s11 + L[11]  s13 == s12 + L[12]
             Sum(m) == CASE m = 1 -> 0 [] m = 2 -> s2 [] m = 3 -> s3 [] m = 4 -> s4
                         [] m = 5 -> s5 [] m = 6 -> s6 [] m = 7 -> s7 [] m = 8 -> s8
                         [] m = 9 -> s9 [] m = 10 -> s10 [] m = 11 -> s11
                         [] m = 12 -> s12 [] m = 13 -> s13
             f == [m \in 1..13 |-> Sum(m)]
  <1>1. \A m \in 1..12 : L[m] \in Int
    BY CalendarFacts
  <1>2. \A m \in 1..13 : Sum(m) = IF m = 1 THEN 0 ELSE f[m - 1] + L[m - 1]
    <2>1. ASSUME NEW m \in 1..13, m # 1
          PROVE  Sum(m) = Sum(m - 1) + L[m - 1]
      BY <1>1, <2>1
    <2> HIDE DEF Sum
    <2>2. ASSUME NEW m \in 1..13, m # 1
          PROVE  f[m - 1] = Sum(m - 1)
      BY <2>2
    <2>3. Sum(1) = 0
      BY DEF Sum
    <2> HIDE DEF f, L
    <2>4. QED
      BY <2>1, <2>2, <2>3
  <1> HIDE DEF Sum
  <1>3. f = [m \in 1..13 |-> IF m = 1 THEN 0 ELSE f[m - 1] + L[m - 1]]
    BY <1>2
  <1> HIDE DEF f
  <1>4. DaysBefore = [m \in 1..13 |-> IF m = 1 THEN 0
                                      ELSE DaysBefore[m - 1] + MonthLength[m - 1]]
    BY <1>3 DEF DaysBefore
  <1>5. \A m \in 1..13 : DaysBefore[m] = IF m = 1 THEN 0
                                         ELSE DaysBefore[m - 1] + MonthLength[m - 1]
    BY <1>4, Zenon
  <1>6. ASSUME NEW m \in 1..12
        PROVE  DaysBefore[m + 1] = DaysBefore[m] + MonthLength[m]
    <2>1. m + 1 \in 1..13 /\ m + 1 # 1 /\ (m + 1) - 1 = m
      OBVIOUS
    <2>2. DaysBefore[m + 1] = DaysBefore[(m + 1) - 1] + MonthLength[(m + 1) - 1]
      BY <1>5, <2>1
    <2>3. QED
      BY <2>1, <2>2
  <1>7. QED
    BY <1>5, <1>6

\* Division by g leaves what is below g.
LEMMA Division ==
  ASSUME NEW g \in Nat \ {0}, NEW q \in Int, NEW r \in 0..(g - 1)
  PROVE  (q * g + r) \div g = q /\ (q * g + r) % g = r
  <1> DEFINE t == q * g + r
  <1>1. t \in Int
    OBVIOUS
  <1>2. /\ t = g * (t \div g) + (t % g)
        /\ t \div g \in Int /\ t % g \in 0..(g - 1)
    <2> HIDE DEF t
    <2>1. QED
      BY <1>1
  <1> DEFINE j == q - t \div g
  <1>3. j \in Int /\ g * j = (t % g) - r
    BY <1>2
  <1>4. j = 0
    <2> HIDE DEF j, t
    <2>1. j >= 1 => g * j >= g
      BY <1>3
    <2>2. j <= -1 => g * j <= -g
      BY <1>3
    <2>3. QED
      BY <1>2, <1>3, <2>1, <2>2
  <1>5. t \div g = q
    <2> HIDE DEF t
    <2> DEFINE e == t \div g
    <2>1. e \in Int /\ q - e = 0
      BY <1>2, <1>4
    <2> HIDE DEF e
    <2>2. e = q
      BY <2>1
    <2>3. QED
      BY <2>2 DEF e
  <1>6. t % g = r
    <2>1. g * j = 0
      <3> HIDE DEF j, t
      <3>1. QED
        BY <1>4
    <2> HIDE DEF j, t
    <2>2. QED
      BY <1>2, <1>3, <2>1
  <1>7. QED
    BY <1>5, <1>6

\* And every number is a multiple and what is left over.
LEMMA Divided ==
  ASSUME NEW g \in Nat \ {0}, NEW t \in Int
  PROVE  /\ t = (t \div g) * g + (t % g)
         /\ t \div g \in Int /\ t % g \in 0..(g - 1)
  OBVIOUS

\* The months are twelve, of 28 to 31 days.
LEMMA MonthLengths ==
  /\ Months = 1..12
  /\ \A m \in 1..12 : MonthLength[m] \in 28..31
  BY CalendarFacts

\* Months follow each other within a year.
LEMMA DaysBeforeGrows ==
  /\ \A m \in 1..13 : DaysBefore[m] \in Nat
  /\ \A m, n \in 1..13 : m < n => DaysBefore[m] + 28 <= DaysBefore[n]
  /\ YearLength \in Nat \ {0}
  <1>1. \A m \in 1..12 : /\ MonthLength[m] \in 28..31
                         /\ DaysBefore[m + 1] = DaysBefore[m] + MonthLength[m]
    BY MonthLengths, DaysBeforeIs
  <1> DEFINE D(m) == DaysBefore[m]
  <1>2. D(1) = 0
    BY DaysBeforeIs
  <1>3. /\ D(2) \in Nat /\ D(2) >= D(1) + 28     /\ D(3) \in Nat /\ D(3) >= D(2) + 28
        /\ D(4) \in Nat /\ D(4) >= D(3) + 28     /\ D(5) \in Nat /\ D(5) >= D(4) + 28
        /\ D(6) \in Nat /\ D(6) >= D(5) + 28     /\ D(7) \in Nat /\ D(7) >= D(6) + 28
        /\ D(8) \in Nat /\ D(8) >= D(7) + 28     /\ D(9) \in Nat /\ D(9) >= D(8) + 28
        /\ D(10) \in Nat /\ D(10) >= D(9) + 28   /\ D(11) \in Nat /\ D(11) >= D(10) + 28
        /\ D(12) \in Nat /\ D(12) >= D(11) + 28  /\ D(13) \in Nat /\ D(13) >= D(12) + 28
    <2>1. ASSUME NEW m \in 1..12, D(m) \in Nat
          PROVE  D(m + 1) \in Nat /\ D(m + 1) >= D(m) + 28
      BY <1>1, <2>1
    <2> HIDE DEF D
    <2>2. D(2) \in Nat /\ D(2) >= D(1) + 28
      BY <1>2, <2>1
    <2>3. D(3) \in Nat /\ D(3) >= D(2) + 28
      BY <2>1, <2>2
    <2>4. D(4) \in Nat /\ D(4) >= D(3) + 28
      BY <2>1, <2>3
    <2>5. D(5) \in Nat /\ D(5) >= D(4) + 28
      BY <2>1, <2>4
    <2>6. D(6) \in Nat /\ D(6) >= D(5) + 28
      BY <2>1, <2>5
    <2>7. D(7) \in Nat /\ D(7) >= D(6) + 28
      BY <2>1, <2>6
    <2>8. D(8) \in Nat /\ D(8) >= D(7) + 28
      BY <2>1, <2>7
    <2>9. D(9) \in Nat /\ D(9) >= D(8) + 28
      BY <2>1, <2>8
    <2>10. D(10) \in Nat /\ D(10) >= D(9) + 28
      BY <2>1, <2>9
    <2>11. D(11) \in Nat /\ D(11) >= D(10) + 28
      BY <2>1, <2>10
    <2>12. D(12) \in Nat /\ D(12) >= D(11) + 28
      BY <2>1, <2>11
    <2>13. D(13) \in Nat /\ D(13) >= D(12) + 28
      BY <2>1, <2>12
    <2>14. QED
      BY <2>2, <2>3, <2>4, <2>5, <2>6, <2>7, <2>8, <2>9, <2>10, <2>11, <2>12, <2>13
  <1> HIDE DEF D
  <1>4. \A m \in 1..13 : D(m) \in Nat
    BY <1>2, <1>3
  <1>5. ASSUME NEW m \in 1..13, NEW n \in 1..13, m < n
        PROVE  D(m) + 28 <= D(n)
    BY <1>2, <1>3, <1>5
  <1>6. YearLength = D(13)
    BY DEF YearLength, D
  <1>7. QED
    BY <1>2, <1>3, <1>4, <1>5, <1>6 DEF D

\* Month k since the year 0.
MonthStart(k) == DateAt(k \div 12, (k % 12) + 1, 1)

\* The month that day d is in, and the days of month k.
MonthIndex(d) == 12 * YearOf(d) + MonthOf(d) - 1
LengthOf(k)   == MonthLength[(k % 12) + 1]

\* A month begins where the one before it ends.
LEMMA MonthStarts ==
  ASSUME NEW k \in Int
  PROVE  /\ MonthStart(k) \in Int /\ LengthOf(k) \in 28..31
         /\ MonthStart(k + 1) = MonthStart(k) + LengthOf(k)
  <1> DEFINE y == k \div 12
             m == (k % 12) + 1
  <1>1. y \in Int /\ m \in 1..12
    OBVIOUS
  <1>2. YearLength \in Nat \ {0} /\ y * YearLength \in Int
    BY <1>1, DaysBeforeGrows
  <1>3. DaysBefore[m] \in Nat /\ DaysBefore[m + 1] = DaysBefore[m] + MonthLength[m]
    <2> HIDE DEF m
    <2>1. QED
      BY <1>1, DaysBeforeIs, DaysBeforeGrows
  <1>4. LengthOf(k) = MonthLength[m] /\ MonthLength[m] \in 28..31
    <2>1. LengthOf(k) = MonthLength[m]
      BY DEF LengthOf
    <2> HIDE DEF m
    <2>2. QED
      BY <1>1, <2>1, MonthLengths
  <1>5. MonthStart(k) = y * YearLength + DaysBefore[m]
    <2>1. MonthStart(k) = y * YearLength + DaysBefore[m] + 1 - 1
      BY DEF MonthStart, DateAt
    <2> HIDE DEF y, m
    <2>2. QED
      BY <1>2, <1>3, <2>1
  <1>6. CASE m < 12
    <2>1. (k + 1) \div 12 = y /\ ((k + 1) % 12) + 1 = m + 1
      BY <1>6
    <2>2. MonthStart(k + 1) = y * YearLength + DaysBefore[m + 1] + 1 - 1
      BY <2>1 DEF MonthStart, DateAt
    <2> HIDE DEF y, m
    <2>3. QED
      BY <1>2, <1>3, <1>4, <1>5, <2>2
  <1>7. CASE m = 12
    <2>1. (k + 1) \div 12 = y + 1 /\ ((k + 1) % 12) + 1 = 1
      BY <1>7
    <2>2. MonthStart(k + 1) = (y + 1) * YearLength + DaysBefore[1] + 1 - 1
      BY <2>1 DEF MonthStart, DateAt
    <2> HIDE DEF y, m
    <2>3. (y + 1) * YearLength = y * YearLength + YearLength
      BY <1>1, <1>2
    <2>4. DaysBefore[1] = 0 /\ YearLength = DaysBefore[m + 1]
      BY <1>7, DaysBeforeIs DEF YearLength
    <2>5. QED
      BY <1>2, <1>3, <1>4, <1>5, <2>2, <2>3, <2>4
  <1>8. QED
    BY <1>1, <1>2, <1>3, <1>4, <1>5, <1>6, <1>7

\* Later months start later.
LEMMA MonthsInOrder ==
  ASSUME NEW k \in Int, NEW j \in Int, k < j
  PROVE  MonthStart(k + 1) <= MonthStart(j)
  <1> DEFINE i == k + 1
             y == i \div 12   m == (i % 12) + 1
             z == j \div 12   n == (j % 12) + 1
  <1>1. /\ y \in Int /\ m \in 1..12 /\ z \in Int /\ n \in 1..12
        /\ y < z \/ (y = z /\ m <= n)
    OBVIOUS
  <1>2. YearLength \in Nat \ {0} /\ y * YearLength \in Int /\ z * YearLength \in Int
    BY <1>1, DaysBeforeGrows
  <1>3. /\ MonthStart(k + 1) = y * YearLength + DaysBefore[m] + 1 - 1
        /\ MonthStart(j) = z * YearLength + DaysBefore[n] + 1 - 1
    BY DEF MonthStart, DateAt
  <1> HIDE DEF i, y, m, z, n
  <1>4. DaysBefore[m] \in Nat /\ DaysBefore[n] \in Nat
    BY <1>1, DaysBeforeGrows
  <1>5. CASE y = z /\ m <= n
    <2>1. DaysBefore[m] <= DaysBefore[n]
      <3>1. CASE m = n
        BY <3>1, <1>4
      <3>2. CASE m < n
        BY <1>1, <1>4, <3>2, DaysBeforeGrows
      <3>3. QED
        BY <1>1, <1>5, <3>1, <3>2
    <2>2. QED
      BY <1>2, <1>3, <1>4, <1>5, <2>1
  <1>6. CASE y < z
    <2>1. DaysBefore[m] + 28 <= YearLength
      BY <1>1, DaysBeforeGrows DEF YearLength
    <2>2. (y + 1) * YearLength <= z * YearLength
      BY <1>1, <1>2, <1>6
    <2>3. (y + 1) * YearLength = y * YearLength + YearLength
      BY <1>1, <1>2
    <2>4. QED
      BY <1>2, <1>3, <1>4, <2>1, <2>2, <2>3
  <1>7. QED
    BY <1>1, <1>5, <1>6

\* The date of a day.
LEMMA DateParts ==
  ASSUME NEW d \in Int
  PROVE  /\ YearOf(d) \in Int /\ MonthOf(d) \in 1..12 /\ MonthIndex(d) \in Int
         /\ MonthIndex(d) \div 12 = YearOf(d) /\ (MonthIndex(d) % 12) + 1 = MonthOf(d)
         /\ MonthStart(MonthIndex(d)) <= d /\ d < MonthStart(MonthIndex(d) + 1)
         /\ DayInMonth(d) = d - MonthStart(MonthIndex(d)) + 1
  <1> DEFINE y == YearOf(d)
             m == MonthOf(d)
             r == d % YearLength
  <1>1. YearLength \in Nat \ {0} /\ YearLength = DaysBefore[13]
    BY DaysBeforeGrows DEF YearLength
  <1>2. y \in Int /\ r \in 0..(YearLength - 1) /\ d = y * YearLength + r
    BY <1>1, Divided DEF YearOf
  <1> HIDE DEF y, r
  <1>3. \E n \in Months : r \in DaysBefore[n]..(DaysBefore[n + 1] - 1)
    <2>1. \A n \in 1..13 : DaysBefore[n] \in Nat
      BY DaysBeforeGrows
    <2>2. SUFFICES ASSUME \A n \in 1..12 : ~(DaysBefore[n] <= r /\ r < DaysBefore[n + 1])
                   PROVE  FALSE
      <3>1. ASSUME NEW n \in 1..12, DaysBefore[n] <= r, r < DaysBefore[n + 1]
            PROVE  r \in DaysBefore[n]..(DaysBefore[n + 1] - 1)
        <4>1. DaysBefore[n] \in Nat /\ DaysBefore[n + 1] \in Nat
          BY <2>1
        <4>2. QED
          BY <1>2, <3>1, <4>1
      <3>2. QED
        BY <2>2, <3>1, MonthLengths
    <2>3. ASSUME NEW n \in 1..12, DaysBefore[n] <= r
          PROVE  DaysBefore[n + 1] <= r
      <3>1. DaysBefore[n + 1] \in Nat
        BY <2>1
      <3>2. QED
        BY <1>2, <2>2, <2>3, <3>1
    <2>4. DaysBefore[1] <= r
      BY <1>2, DaysBeforeIs
    <2>5. DaysBefore[2] <= r /\ DaysBefore[3] <= r /\ DaysBefore[4] <= r
      BY <2>3, <2>4
    <2>6. DaysBefore[5] <= r /\ DaysBefore[6] <= r /\ DaysBefore[7] <= r
      BY <2>3, <2>5
    <2>7. DaysBefore[8] <= r /\ DaysBefore[9] <= r /\ DaysBefore[10] <= r
      BY <2>3, <2>6
    <2>8. DaysBefore[11] <= r /\ DaysBefore[12] <= r /\ DaysBefore[13] <= r
      BY <2>3, <2>7
    <2>9. QED
      BY <1>1, <1>2, <2>8
  <1>4. m \in Months /\ r \in DaysBefore[m]..(DaysBefore[m + 1] - 1)
    BY <1>3 DEF MonthOf, r
  <1>5. m \in 1..12 /\ DaysBefore[m] \in Nat /\ DaysBefore[m + 1] \in Nat
    <2> HIDE DEF m
    <2>1. m \in 1..12
      BY <1>4, MonthLengths
    <2>2. m + 1 \in 1..13
      BY <2>1
    <2>3. QED
      BY <2>1, <2>2, DaysBeforeGrows
  <1> DEFINE k == 12 * y + m - 1
  <1>6. MonthIndex(d) = k
    BY DEF MonthIndex, y
  <1> HIDE DEF m
  <1>7. k \in Int /\ k \div 12 = y /\ (k % 12) + 1 = m
    <2>1. \A a \in Int : \A b \in 1..12 : /\ 12 * a + b - 1 \in Int
                                          /\ (12 * a + b - 1) \div 12 = a
                                          /\ ((12 * a + b - 1) % 12) + 1 = b
      OBVIOUS
    <2>2. QED
      BY <1>2, <1>5, <2>1
  <1> HIDE DEF k
  <1>8. y * YearLength \in Int
    BY <1>1, <1>2
  <1>9. MonthStart(k) = y * YearLength + DaysBefore[m]
    <2>1. MonthStart(k) = y * YearLength + DaysBefore[m] + 1 - 1
      BY <1>7 DEF MonthStart, DateAt
    <2>2. QED
      BY <1>5, <1>8, <2>1
  <1>10. LengthOf(k) = MonthLength[m] /\ MonthStart(k + 1) = MonthStart(k) + LengthOf(k)
    BY <1>7, MonthStarts DEF LengthOf
  <1>11. DaysBefore[m + 1] = DaysBefore[m] + MonthLength[m] /\ MonthLength[m] \in 28..31
    BY <1>5, DaysBeforeIs, MonthLengths
  <1>12. MonthStart(k) <= d /\ d < MonthStart(k + 1)
    BY <1>2, <1>4, <1>5, <1>8, <1>9, <1>10, <1>11
  <1>13. DayInMonth(d) = d - MonthStart(k) + 1
    <2>1. DayInMonth(d) = r - DaysBefore[m] + 1
      BY DEF DayInMonth, r, m
    <2>2. QED
      BY <1>2, <1>5, <1>8, <1>9, <2>1
  <1>14. QED
    BY <1>2, <1>5, <1>6, <1>7, <1>12, <1>13 DEF y, m

\* A day is in the month that has begun and not ended.
LEMMA MonthIndexIs ==
  ASSUME NEW d \in Int, NEW k \in Int, MonthStart(k) <= d, d < MonthStart(k + 1)
  PROVE  MonthIndex(d) = k
  <1> DEFINE j == MonthIndex(d)
  <1>1. j \in Int /\ MonthStart(j) <= d /\ d < MonthStart(j + 1)
    BY DateParts
  <1> HIDE DEF j
  <1>2. /\ MonthStart(j) \in Int /\ MonthStart(j + 1) \in Int
        /\ MonthStart(k) \in Int /\ MonthStart(k + 1) \in Int
    BY <1>1, MonthStarts
  <1>3. ~(k < j)
    <2>1. k < j => MonthStart(k + 1) <= MonthStart(j)
      BY <1>1, MonthsInOrder
    <2>2. QED
      BY <1>1, <1>2, <2>1
  <1>4. ~(j < k)
    <2>1. j < k => MonthStart(j + 1) <= MonthStart(k)
      BY <1>1, MonthsInOrder
    <2>2. QED
      BY <1>1, <1>2, <2>1
  <1>5. QED
    BY <1>1, <1>3, <1>4 DEF j

\* Counting months on from a day's own.
LEMMA MonthsOnIs ==
  ASSUME NEW d \in Int, NEW n \in Int, NEW i \in Int
  PROVE  LET to == MonthsOn(d, n)
             k  == MonthIndex(d) + n
         IN  /\ k \in Int
             /\ to.month = (k % 12) + 1
             /\ DateAt(to.year, to.month, i) = MonthStart(k) + i - 1
             /\ MonthLength[to.month] = LengthOf(k)
  <1> DEFINE k == MonthIndex(d) + n
             to == MonthsOn(d, n)
  <1>1. YearOf(d) \in Int /\ MonthOf(d) \in 1..12
    BY DateParts
  <1>2. /\ to.year = YearOf(d) + ((MonthOf(d) - 1 + n) \div 12)
        /\ to.month = ((MonthOf(d) - 1 + n) % 12) + 1
    BY DEF MonthsOn
  <1>3. k = 12 * YearOf(d) + MonthOf(d) - 1 + n
    BY <1>1 DEF MonthIndex
  <1> HIDE DEF k, to
  <1>4. k \in Int /\ to.year = k \div 12 /\ to.month = (k % 12) + 1
    <2>1. \A y \in Int : \A m \in 1..12 :
            LET j == 12 * y + m - 1 + n
            IN  j \in Int /\ y + ((m - 1 + n) \div 12) = j \div 12
                /\ ((m - 1 + n) % 12) + 1 = (j % 12) + 1
      OBVIOUS
    <2>2. QED
      BY <1>1, <1>2, <1>3, <2>1
  <1>5. DateAt(to.year, to.month, i) = MonthStart(k) + i - 1
    <2> DEFINE y == (k \div 12) * YearLength
               b == DaysBefore[(k % 12) + 1]
    <2>1. y \in Int
      BY <1>4, DaysBeforeGrows
    <2>2. b \in Int
      <3>1. (k % 12) + 1 \in 1..13
        BY <1>4
      <3>2. QED
        BY <3>1, DaysBeforeGrows
    <2>3. DateAt(to.year, to.month, i) = y + b + i - 1 /\ MonthStart(k) = y + b + 1 - 1
      BY <1>4 DEF DateAt, MonthStart
    <2> HIDE DEF y, b
    <2>4. QED
      BY <2>1, <2>2, <2>3
  <1>6. MonthLength[to.month] = LengthOf(k)
    BY <1>4 DEF LengthOf
  <1>7. QED
    BY <1>4, <1>5, <1>6 DEF k, to

\* The day of the month that PlusMonths lands on: no later than its last.
LesserOf(a, b) == IF a < b THEN a ELSE b

\* n months on is in the month n further on.
LEMMA PlusMonthsIs ==
  ASSUME NEW d \in Int, NEW n \in Int
  PROVE  LET k == MonthIndex(d) + n
         IN  /\ k \in Int
             /\ PlusMonths(d, n) = MonthStart(k) + LesserOf(DayInMonth(d), LengthOf(k)) - 1
             /\ PlusMonths(d, n) \in Int
             /\ MonthIndex(PlusMonths(d, n)) = k
  <1> DEFINE k == MonthIndex(d) + n
             i == LesserOf(DayInMonth(d), LengthOf(k))
             to == MonthsOn(d, n)
             p == PlusMonths(d, n)
  <1>1. MonthIndex(d) \in Int /\ DayInMonth(d) \in Int /\ DayInMonth(d) >= 1
    <2>1. /\ MonthIndex(d) \in Int /\ MonthStart(MonthIndex(d)) <= d
          /\ DayInMonth(d) = d - MonthStart(MonthIndex(d)) + 1
      BY DateParts
    <2>2. MonthStart(MonthIndex(d)) \in Int
      BY <2>1, MonthStarts
    <2>3. QED
      BY <2>1, <2>2
  <1>2. k \in Int
    BY <1>1
  <1> HIDE DEF k
  <1>3. /\ MonthStart(k) \in Int /\ LengthOf(k) \in 28..31
        /\ MonthStart(k + 1) = MonthStart(k) + LengthOf(k)
    BY <1>2, MonthStarts
  <1>4. i \in Int /\ 1 <= i /\ i <= LengthOf(k)
    BY <1>1, <1>3 DEF LesserOf
  <1>5. p = DateAt(to.year, to.month, i)
    <2>1. MonthLength[to.month] = LengthOf(k)
      BY MonthsOnIs DEF k
    <2>2. QED
      BY <2>1 DEF PlusMonths, LesserOf
  <1> HIDE DEF i
  <1>6. p = MonthStart(k) + i - 1
    BY <1>4, <1>5, MonthsOnIs DEF k
  <1> HIDE DEF p
  <1>7. p \in Int /\ MonthStart(k) <= p /\ p < MonthStart(k + 1)
    BY <1>3, <1>4, <1>6
  <1>8. MonthIndex(p) = k
    BY <1>2, <1>7, MonthIndexIs
  <1>9. QED
    BY <1>2, <1>6, <1>7, <1>8 DEF k, i, p

\* Of two days the later is in no earlier month.
LEMMA MonthIndexGrows ==
  ASSUME NEW d \in Int, NEW e \in Int, d <= e
  PROVE  MonthIndex(d) <= MonthIndex(e)
  <1> DEFINE k == MonthIndex(d)
             j == MonthIndex(e)
  <1>1. k \in Int /\ MonthStart(k) <= d /\ j \in Int /\ e < MonthStart(j + 1)
    BY DateParts
  <1> HIDE DEF k, j
  <1>2. MonthStart(k) \in Int /\ MonthStart(j + 1) \in Int
    BY <1>1, MonthStarts
  <1>3. ~(j < k)
    <2>1. j < k => MonthStart(j + 1) <= MonthStart(k)
      BY <1>1, MonthsInOrder
    <2>2. QED
      BY <1>1, <1>2, <2>1
  <1>4. QED
    BY <1>1, <1>3 DEF k, j

\* A day is in its month.
LEMMA DayInMonthIs ==
  ASSUME NEW d \in Int
  PROVE  /\ DayInMonth(d) \in Int /\ 1 <= DayInMonth(d)
         /\ DayInMonth(d) <= LengthOf(MonthIndex(d))
         /\ d = MonthStart(MonthIndex(d)) + DayInMonth(d) - 1
  <1> DEFINE k == MonthIndex(d)
  <1>1. /\ k \in Int /\ MonthStart(k) <= d /\ d < MonthStart(k + 1)
        /\ DayInMonth(d) = d - MonthStart(k) + 1
    BY DateParts
  <1> HIDE DEF k
  <1>2. MonthStart(k) \in Int /\ LengthOf(k) \in 28..31 /\ MonthStart(k + 1) = MonthStart(k) + LengthOf(k)
    BY <1>1, MonthStarts
  <1>3. QED
    BY <1>1, <1>2 DEF k

(* Weeks *)

\* The first day from a on that is weekday w.
LEMMA AWeekdayIsNear ==
  ASSUME NEW a \in Int, NEW w \in 0..6
  PROVE  \E d \in a..(a + 6) : Weekday(d) = w /\ \A e \in a..(d - 1) : Weekday(e) # w
  <1> DEFINE v == Weekday(a)
             s == (w - v) % 7
             d == a + s
  <1>1. FirstWeekday \in Int
    BY CalendarFacts
  <1>2. v \in 0..6 /\ s \in 0..6
    BY <1>1 DEF Weekday
  <1>3. \A i \in 0..6 : Weekday(a + i) = (v + i) % 7
    BY <1>1 DEF Weekday
  <1> HIDE DEF v
  <1>4. d \in a..(a + 6)
    BY <1>2
  <1>5. Weekday(d) = w
    BY <1>2, <1>3
  <1>6. ASSUME NEW e \in a..(d - 1)
        PROVE  Weekday(e) # w
    <2> DEFINE i == e - a
    <2>1. i \in 0..6 /\ i < s /\ e = a + i
      BY <1>2
    <2> HIDE DEF i
    <2>2. Weekday(e) = (v + i) % 7
      BY <1>3, <2>1
    <2>3. QED
      BY <1>2, <2>1, <2>2
  <1>7. QED
    BY <1>4, <1>5, <1>6

\* The weekday that nextWeekday finds is there, and the first there is.
LEMMA NextWeekdayIs ==
  ASSUME NEW today \in Int, NEW w \in 0..6
  PROVE  /\ LET d == NextWeekday(today, w, FALSE)
            IN  d \in (today + 1)..(today + 7) /\ Weekday(d) = w
                /\ \A e \in (today + 1)..(d - 1) : Weekday(e) # w
         /\ LET d == NextWeekday(today, w, TRUE)
            IN  d \in today..(today + 7) /\ Weekday(d) = w
                /\ \A e \in today..(d - 1) : Weekday(e) # w
  <1> DEFINE P(a, d) == Weekday(d) = w /\ \A e \in a..(d - 1) : Weekday(e) # w
             first == CHOOSE d \in (today + 1)..(today + 7) : P(today + 1, d)
             soon  == CHOOSE d \in today..(today + 7) : P(today, d)
  <1>1. NextWeekday(today, w, FALSE) = first /\ NextWeekday(today, w, TRUE) = soon
    BY DEF NextWeekday
  <1>2. \E d \in (today + 1)..((today + 1) + 6) : P(today + 1, d)
    <2>1. today + 1 \in Int
      OBVIOUS
    <2>2. QED
      BY <2>1, AWeekdayIsNear
  <1>3. \E d \in today..(today + 6) : P(today, d)
    BY AWeekdayIsNear
  <1> HIDE DEF P
  <1>4. \E d \in (today + 1)..(today + 7) : P(today + 1, d)
    BY <1>2
  <1>5. \E d \in today..(today + 7) : P(today, d)
    BY <1>3
  <1>6. first \in (today + 1)..(today + 7) /\ P(today + 1, first)
    BY <1>4
  <1>7. soon \in today..(today + 7) /\ P(today, soon)
    BY <1>5
  <1> HIDE DEF first, soon
  <1>8. QED
    BY <1>1, <1>6, <1>7 DEF P

\* The first from a later day on is no earlier.
LEMMA NextWeekdayGrows ==
  ASSUME NEW today \in Int, NEW later \in Int, today <= later, NEW w \in 0..6
  PROVE  /\ NextWeekday(today, w, FALSE) <= NextWeekday(later, w, FALSE)
         /\ NextWeekday(today, w, TRUE) <= NextWeekday(later, w, TRUE)
  <1>1. ASSUME NEW a \in Int, NEW b \in Int, a <= b,
               NEW d \in a..(today + 7), \A f \in a..(d - 1) : Weekday(f) # w,
               NEW e \in b..(later + 7), Weekday(e) = w
        PROVE  d <= e
    <2>1. e < d => e \in a..(d - 1)
      BY <1>1
    <2>2. QED
      BY <1>1, <2>1
  <1> DEFINE d == NextWeekday(today, w, FALSE)  s == NextWeekday(today, w, TRUE)
             e == NextWeekday(later, w, FALSE)  r == NextWeekday(later, w, TRUE)
  <1>2. /\ d \in (today + 1)..(today + 7) /\ \A f \in (today + 1)..(d - 1) : Weekday(f) # w
        /\ s \in today..(today + 7) /\ \A f \in today..(s - 1) : Weekday(f) # w
    BY NextWeekdayIs
  <1>3. /\ e \in (later + 1)..(later + 7) /\ Weekday(e) = w
        /\ r \in later..(later + 7) /\ Weekday(r) = w
    BY NextWeekdayIs
  <1> HIDE DEF d, e, s, r
  <1>4. d <= e
    <2>1. today + 1 \in Int /\ later + 1 \in Int /\ today + 1 <= later + 1
      OBVIOUS
    <2>2. QED
      BY <1>1, <1>2, <1>3, <2>1
  <1>5. s <= r
    BY <1>1, <1>2, <1>3
  <1>6. QED
    BY <1>4, <1>5 DEF d, e, s, r

\* The week of a day begins on its Monday.
LEMMA MondayIs ==
  ASSUME NEW d \in Int
  PROVE  /\ Monday(d) \in Int /\ Monday(d) <= d /\ d <= Monday(d) + 6
         /\ Weekday(Monday(d)) = 1 /\ Weekday(Monday(d) + 6) = 0
         /\ Monday(d + 7) = Monday(d) + 7 /\ Weekday(d + 7) = Weekday(d) /\ Weekday(d) \in 0..6
  BY CalendarFacts DEF Monday, Weekday

\* The seven days from a Monday on are its week.
LEMMA MondayOnly ==
  ASSUME NEW m \in Int, NEW d \in m..(m + 6), Weekday(m) = 1
  PROVE  Monday(d) = m
  BY CalendarFacts DEF Monday, Weekday

\* Of two days the later is in no earlier week.
LEMMA MondayGrows ==
  ASSUME NEW d \in Int, NEW e \in Int, d <= e
  PROVE  Monday(d) <= Monday(e)
  BY CalendarFacts DEF Monday, Weekday

\* "next friday" is that day of the week from the coming Monday.
LEMMA NextNamedWeekday ==
  ASSUME NEW today \in Int, NEW w \in 0..6
  PROVE  LET d == NamedWeekday(today, w, TRUE)
         IN  d \in Int /\ Weekday(d) = w /\ Monday(d) = Monday(today) + 7
             /\ d = Monday(today) + 7 + ((w + 6) % 7)
  <1> DEFINE c == NextWeekday(today, w, FALSE)
             d == NamedWeekday(today, w, TRUE)
             m == Monday(today) + 7
  <1>1. c \in (today + 1)..(today + 7) /\ Weekday(c) = w
    BY NextWeekdayIs
  <1>2. /\ m \in Int /\ Weekday(m) = 1 /\ Monday(today + 7) = m
        /\ m - 7 <= today /\ today <= m - 1
    <2>1. /\ Monday(today) \in Int /\ Monday(today) <= today /\ today <= Monday(today) + 6
          /\ Weekday(Monday(today)) = 1 /\ Monday(today + 7) = Monday(today) + 7
      BY MondayIs
    <2>2. Weekday(Monday(today) + 7) = Weekday(Monday(today))
      BY <2>1, MondayIs
    <2>3. QED
      BY <2>1, <2>2
  <1>3. d = IF c < m THEN c + 7 ELSE c
    BY <1>2 DEF NamedWeekday
  <1> HIDE DEF c, d, m
  <1>4. d \in m..(m + 6) /\ Weekday(d) = w
    <2>1. Weekday(c + 7) = w
      BY <1>1, MondayIs
    <2>2. QED
      BY <1>1, <1>2, <1>3, <2>1
  <1>5. Monday(d) = m
    BY <1>2, <1>4, MondayOnly
  <1>6. d = m + ((w + 6) % 7)
    <2>1. FirstWeekday \in Int
      BY CalendarFacts
    <2>2. (m + FirstWeekday) % 7 = 1 /\ (d + FirstWeekday) % 7 = w
      BY <1>2, <1>4 DEF Weekday
    <2>3. QED
      BY <1>2, <1>4, <2>1, <2>2
  <1>7. d \in Int
    BY <1>2, <1>4
  <1>8. QED
    BY <1>4, <1>5, <1>6, <1>7 DEF d, m

-----------------------------------------------------------------------------
(* Dates: where each lies, and that it grows with today *)

\* The soonest "5 March" from today on is of this year or the next.
LEMMA MonthDayIs ==
  ASSUME NEW today \in Int, NEW m \in Months, NEW n \in 1..31
  PROVE  LET y == YearOf(today)
             d == MonthDay(today, m, n)
         IN  /\ y \in Int /\ d \in Int /\ today <= d
             /\ \A z \in Int : DateAt(z, m, n) \in Int
             /\ \A z, u \in Int : z < u => DateAt(z, m, n) + YearLength <= DateAt(u, m, n)
             /\ DateAt(y, m, n) < today => d = DateAt(y + 1, m, n)
             /\ ~(DateAt(y, m, n) < today) => d = DateAt(y, m, n)
  <1> DEFINE y == YearOf(today)
             d == MonthDay(today, m, n)
             b == DaysBefore[m]
  <1>1. YearLength \in Nat \ {0} /\ b \in Nat
    BY DaysBeforeGrows, MonthLengths
  <1>2. y \in Int /\ today < (y + 1) * YearLength
    <2> DEFINE r == today % YearLength
    <2>1. y \in Int /\ today = y * YearLength + r /\ r \in 0..(YearLength - 1)
      BY <1>1, Divided DEF YearOf
    <2> HIDE DEF y, r
    <2>2. y * YearLength \in Int /\ (y + 1) * YearLength = y * YearLength + YearLength
      BY <1>1, <2>1
    <2>3. QED
      BY <1>1, <2>1, <2>2
  <1> HIDE DEF b
  <1>3. ASSUME NEW z \in Int
        PROVE  z * YearLength \in Int /\ DateAt(z, m, n) = z * YearLength + b + n - 1
    BY <1>1 DEF DateAt, b
  <1>4. ASSUME NEW z \in Int, NEW u \in Int, z < u
        PROVE  z * YearLength + YearLength <= u * YearLength
    <2>1. (z + 1) * YearLength <= u * YearLength
      BY <1>1, <1>4
    <2>2. (z + 1) * YearLength = z * YearLength + YearLength
      BY <1>1
    <2>3. QED
      BY <2>1, <2>2
  <1>5. d = IF DateAt(y, m, n) < today THEN DateAt(y + 1, m, n) ELSE DateAt(y, m, n)
    BY DEF MonthDay
  <1> HIDE DEF y, d
  <1>6. \A z \in Int : DateAt(z, m, n) \in Int
    BY <1>1, <1>3
  <1>7. \A z, u \in Int : z < u => DateAt(z, m, n) + YearLength <= DateAt(u, m, n)
    <2>1. SUFFICES ASSUME NEW z \in Int, NEW u \in Int, z < u
                   PROVE  DateAt(z, m, n) + YearLength <= DateAt(u, m, n)
      OBVIOUS
    <2>2. QED
      BY <1>1, <1>3, <1>4, <2>1
  <1>8. today <= DateAt(y + 1, m, n)
    <2>1. (y + 1) * YearLength \in Int /\ DateAt(y + 1, m, n) = (y + 1) * YearLength + b + n - 1
      BY <1>2, <1>3
    <2>2. QED
      BY <1>1, <1>2, <2>1
  <1>9. d \in Int /\ today <= d
    BY <1>2, <1>5, <1>6, <1>8
  <1>10. QED
    BY <1>2, <1>5, <1>6, <1>7, <1>9 DEF y, d

\* "the 3rd" is of this month or the next.
LEMMA TheNthIs ==
  ASSUME NEW today \in Int, NEW n \in 1..31
  PROVE  LET k == MonthIndex(today)
             d == TheNth(today, n)
         IN  /\ k \in Int /\ d \in Int /\ today <= d
             /\ MonthStart(k) \in Int /\ MonthStart(k + 1) \in Int
             /\ MonthStart(k) <= today /\ today < MonthStart(k + 1)
             /\ MonthStart(k) + n - 1 < today => d = MonthStart(k + 1) + n - 1
             /\ ~(MonthStart(k) + n - 1 < today) => d = MonthStart(k) + n - 1
  <1> DEFINE k == MonthIndex(today)
             d == TheNth(today, n)
             p == PlusMonths(today, 1)
             next == MonthsOn(p, 0)
  <1>1. /\ k \in Int /\ MonthStart(k) <= today /\ today < MonthStart(k + 1)
        /\ YearOf(today) = k \div 12 /\ MonthOf(today) = (k % 12) + 1
    BY DateParts
  <1>2. MonthStart(k) \in Int /\ MonthStart(k + 1) \in Int
    <2> HIDE DEF k
    <2>1. QED
      BY <1>1, MonthStarts
  <1>3. DateAt(YearOf(today), MonthOf(today), n) = MonthStart(k) + n - 1
    <2>1. YearLength \in Int
      BY DaysBeforeGrows
    <2>2. (k \div 12) * YearLength \in Int
      <3> HIDE DEF k
      <3>1. QED
        BY <1>1, <2>1
    <2>3. DaysBefore[(k % 12) + 1] \in Int
      <3>1. (k % 12) + 1 \in 1..13
        <4> HIDE DEF k
        <4>1. QED
          BY <1>1
      <3>2. QED
        BY <3>1, DaysBeforeGrows
    <2>4. DateAt(YearOf(today), MonthOf(today), n)
            = (k \div 12) * YearLength + DaysBefore[(k % 12) + 1] + n - 1
      BY <1>1 DEF DateAt
    <2>5. MonthStart(k) = (k \div 12) * YearLength + DaysBefore[(k % 12) + 1] + 1 - 1
      BY DEF MonthStart, DateAt
    <2> HIDE DEF k
    <2>6. QED
      BY <2>2, <2>3, <2>4, <2>5
  <1>4. DateAt(next.year, next.month, n) = MonthStart(k + 1) + n - 1
    <2>1. p \in Int /\ MonthIndex(p) = k + 1
      BY PlusMonthsIs
    <2> HIDE DEF p
    <2>2. DateAt(next.year, next.month, n) = MonthStart(MonthIndex(p) + 0) + n - 1
      BY <2>1, MonthsOnIs
    <2>3. MonthIndex(p) + 0 = k + 1
      BY <1>1, <2>1
    <2>4. QED
      BY <2>2, <2>3
  <1>5. d = IF MonthStart(k) + n - 1 < today THEN MonthStart(k + 1) + n - 1
                                             ELSE MonthStart(k) + n - 1
    BY <1>3, <1>4 DEF TheNth
  <1> HIDE DEF k, d
  <1>6. d \in Int /\ today <= d
    BY <1>1, <1>2, <1>5
  <1>7. QED
    BY <1>1, <1>2, <1>5, <1>6 DEF k, d

\* The days of the next month.
LEMMA NextMonthIs ==
  ASSUME NEW today \in Int
  PROVE  LET k  == MonthIndex(today)
             to == MonthsOn(PlusMonths(today, 1), 0)
         IN  /\ DateAt(to.year, to.month, 1) = MonthStart(k + 1)
             /\ DateAt(to.year, to.month, MonthLength[to.month]) = MonthStart(k + 2) - 1
  <1> DEFINE k == MonthIndex(today)
             p == PlusMonths(today, 1)
             to == MonthsOn(p, 0)
  <1>1. k \in Int /\ p \in Int /\ MonthIndex(p) = k + 1
    BY DateParts, PlusMonthsIs
  <1> HIDE DEF k, p
  <1>2. MonthIndex(p) + 0 = k + 1
    BY <1>1
  <1>3. /\ MonthStart(k + 1) \in Int /\ LengthOf(k + 1) \in 28..31
        /\ MonthStart(k + 2) = MonthStart(k + 1) + LengthOf(k + 1)
    <2>1. k + 1 \in Int /\ (k + 1) + 1 = k + 2
      BY <1>1
    <2>2. MonthStart((k + 1) + 1) = MonthStart(k + 1) + LengthOf(k + 1)
      BY <2>1, MonthStarts
    <2>3. QED
      BY <2>1, <2>2, MonthStarts
  <1>4. DateAt(to.year, to.month, 1) = MonthStart(k + 1) + 1 - 1
    BY <1>1, <1>2, MonthsOnIs
  <1>5. MonthLength[to.month] = LengthOf(k + 1)
    BY <1>1, <1>2, MonthsOnIs
  <1>6. DateAt(to.year, to.month, MonthLength[to.month]) = MonthStart(k + 1) + LengthOf(k + 1) - 1
    <2> DEFINE l == LengthOf(k + 1)
    <2>1. l \in Int
      BY <1>3
    <2> HIDE DEF l
    <2>2. DateAt(to.year, to.month, l) = MonthStart(k + 1) + l - 1
      BY <1>1, <1>2, <2>1, MonthsOnIs
    <2>3. QED
      BY <1>5, <2>2 DEF l
  <1> HIDE DEF to
  <1>7. QED
    <2>1. DateAt(to.year, to.month, 1) = MonthStart(k + 1)
      BY <1>3, <1>4
    <2>2. DateAt(to.year, to.month, MonthLength[to.month]) = MonthStart(k + 2) - 1
      BY <1>3, <1>6
    <2>3. QED
      BY <2>1, <2>2 DEF k, p, to

\* What words for a date hold.
LEMMA DateHolds ==
  ASSUME NEW date \in Date, date.kind # "none"
  PROVE  \/ date.kind \in {"today", "tomorrow", "day_after_tomorrow", "fortnight", "weekend",
                           "next_week", "this_week", "next_month"}
         \/ date.kind = "week_from" /\ date.weekday \in 0..6
         \/ date.kind \in {"in_days", "in_weeks", "in_months"} /\ date.n \in Nat
         \/ date.kind = "month_day" /\ date.month \in Months /\ date.n \in 1..31
         \/ date.kind = "nth" /\ date.n \in 1..31
         \/ date.kind = "weekday" /\ date.weekday \in 0..6 /\ date.next \in BOOLEAN
  BY DEF Date

\* The days they stand for, case by case.
LEMMA DatedToday ==
  ASSUME NEW date, NEW today, date.kind = "today"
  PROVE  Dated(date, today) = Day(today)
  BY DEF Dated

LEMMA DatedTomorrow ==
  ASSUME NEW date, NEW today, date.kind = "tomorrow"
  PROVE  Dated(date, today) = Day(today + 1)
  BY DEF Dated

LEMMA DatedDayAfterTomorrow ==
  ASSUME NEW date, NEW today, date.kind = "day_after_tomorrow"
  PROVE  Dated(date, today) = Day(today + 2)
  BY DEF Dated

LEMMA DatedWeekFrom ==
  ASSUME NEW date, NEW today, date.kind = "week_from"
  PROVE  Dated(date, today) = Day(NextWeekday(today, date.weekday, FALSE) + 7)
  BY DEF Dated

LEMMA DatedInDays ==
  ASSUME NEW date, NEW today, date.kind = "in_days"
  PROVE  Dated(date, today) = Day(today + date.n)
  BY DEF Dated

LEMMA DatedInWeeks ==
  ASSUME NEW date, NEW today, date.kind = "in_weeks"
  PROVE  Dated(date, today) = Span(today + 7 * date.n, today + 7 * date.n + 2)
  BY DEF Dated

LEMMA DatedInMonths ==
  ASSUME NEW date, NEW today, date.kind = "in_months"
  PROVE  Dated(date, today) = Span(PlusMonths(today, date.n), PlusMonths(today, date.n) + 6)
  BY DEF Dated

LEMMA DatedFortnight ==
  ASSUME NEW date, NEW today, date.kind = "fortnight"
  PROVE  Dated(date, today) = Span(today + 14, today + 16)
  BY DEF Dated

LEMMA DatedWeekend ==
  ASSUME NEW date, NEW today, date.kind = "weekend"
  PROVE  Dated(date, today) = Span(NextWeekday(today, 6, TRUE), NextWeekday(today, 6, TRUE) + 1)
  BY DEF Dated

LEMMA DatedNextWeek ==
  ASSUME NEW date, NEW today, date.kind = "next_week"
  PROVE  Dated(date, today) = Span(Monday(today + 7), Monday(today + 7) + 6)
  BY DEF Dated

LEMMA DatedThisWeek ==
  ASSUME NEW date, NEW today, date.kind = "this_week"
  PROVE  Dated(date, today) = Span(today, Monday(today) + 6)
  BY DEF Dated

LEMMA DatedNextMonth ==
  ASSUME NEW date, NEW today, date.kind = "next_month"
  PROVE  Dated(date, today) = LET to == MonthsOn(PlusMonths(today, 1), 0)
                               IN  Span(DateAt(to.year, to.month, 1),
                                        DateAt(to.year, to.month, MonthLength[to.month]))
  BY DEF Dated

LEMMA DatedMonthDay ==
  ASSUME NEW date, NEW today, date.kind = "month_day"
  PROVE  Dated(date, today) = Day(MonthDay(today, date.month, date.n))
  BY DEF Dated

LEMMA DatedNth ==
  ASSUME NEW date, NEW today, date.kind = "nth"
  PROVE  Dated(date, today) = Day(TheNth(today, date.n))
  BY DEF Dated

LEMMA DatedWeekday ==
  ASSUME NEW date, NEW today, date.kind = "weekday"
  PROVE  Dated(date, today) = Day(NamedWeekday(today, date.weekday, date.next))
  BY DEF Dated

\* n months on from a later day is no earlier, though days at the end of a month
\* may meet.
LEMMA PlusMonthsGrows ==
  ASSUME NEW today \in Int, NEW later \in Int, today <= later, NEW n \in Nat
  PROVE  /\ PlusMonths(today, n) \in Int /\ PlusMonths(later, n) \in Int
         /\ today <= PlusMonths(today, n)
         /\ PlusMonths(today, n) <= PlusMonths(later, n)
  <1> DEFINE k == MonthIndex(today)  j == MonthIndex(later)
             x == DayInMonth(today)  y == DayInMonth(later)
             p == PlusMonths(today, n)  q == PlusMonths(later, n)
  <1>1. /\ k \in Int /\ j \in Int /\ k <= j
        /\ today < MonthStart(k + 1)
    BY DateParts, MonthIndexGrows
  <1>2. /\ x \in Int /\ 1 <= x /\ x <= LengthOf(k) /\ today = MonthStart(k) + x - 1
        /\ y \in Int /\ 1 <= y /\ y <= LengthOf(j) /\ later = MonthStart(j) + y - 1
    BY DayInMonthIs
  <1>3. /\ p \in Int /\ p = MonthStart(k + n) + LesserOf(x, LengthOf(k + n)) - 1
        /\ q \in Int /\ q = MonthStart(j + n) + LesserOf(y, LengthOf(j + n)) - 1
    BY PlusMonthsIs
  <1> HIDE DEF k, j, x, y, p, q
  <1>4. /\ MonthStart(k) \in Int /\ MonthStart(k + 1) \in Int /\ MonthStart(j) \in Int
        /\ LengthOf(k) \in Nat /\ LengthOf(j) \in Nat
    BY <1>1, MonthStarts
  <1>5. /\ k + n \in Int /\ j + n \in Int /\ k + n + 1 \in Int
        /\ MonthStart(k + n) \in Int /\ LengthOf(k + n) \in 28..31
        /\ MonthStart(j + n) \in Int /\ LengthOf(j + n) \in 28..31
        /\ MonthStart(k + n + 1) = MonthStart(k + n) + LengthOf(k + n)
    <2>1. k + n \in Int /\ j + n \in Int
      BY <1>1
    <2> DEFINE a == k + n  b == j + n
    <2> HIDE DEF a, b
    <2>2. a \in Int => MonthStart(a) \in Int /\ LengthOf(a) \in 28..31
                       /\ MonthStart(a + 1) = MonthStart(a) + LengthOf(a)
      BY MonthStarts
    <2>3. b \in Int => MonthStart(b) \in Int /\ LengthOf(b) \in 28..31
      BY MonthStarts
    <2>4. QED
      BY <2>1, <2>2, <2>3 DEF a, b
  <1>6. MonthStart(k + n) <= p /\ p < MonthStart(k + n + 1) /\ MonthStart(j + n) <= q
    BY <1>2, <1>3, <1>5 DEF LesserOf
  <1>7. today <= p
    <2>1. CASE n = 0
      <3>1. k + n = k
        BY <1>1, <2>1
      <3>2. QED
        BY <1>2, <1>3, <1>4, <3>1 DEF LesserOf
    <2>2. CASE n # 0
      <3>1. MonthStart(k + 1) <= MonthStart(k + n)
        BY <1>1, <1>5, <2>2, MonthsInOrder
      <3>2. today \in Int
        OBVIOUS
      <3>3. QED
        BY <1>1, <1>3, <1>4, <1>5, <1>6, <3>1, <3>2
    <2>3. QED
      BY <2>1, <2>2
  <1>8. p <= q
    <2>1. CASE k = j
      <3>1. x <= y
        BY <1>2, <1>4, <2>1
      <3>2. QED
        BY <1>2, <1>3, <1>5, <2>1, <3>1 DEF LesserOf
    <2>2. CASE k < j
      <3>1. MonthStart(k + n + 1) <= MonthStart(j + n)
        <4>1. k + n < j + n
          BY <1>1, <2>2
        <4>2. QED
          BY <1>5, <4>1, MonthsInOrder
      <3>2. QED
        BY <1>3, <1>5, <1>6, <3>1
    <2>3. QED
      BY <1>1, <2>1, <2>2
  <1>9. QED
    BY <1>3, <1>7, <1>8 DEF p, q

\* Of two days the later is in no earlier year.
LEMMA YearsInOrder ==
  ASSUME NEW d \in Int, NEW e \in Int, d <= e
  PROVE  YearOf(d) <= YearOf(e)
  <1> DEFINE g == YearLength
             y == d \div g  z == e \div g
             r == d % g  s == e % g
  <1>1. g \in Nat \ {0}
    BY DaysBeforeGrows
  <1>2. /\ y \in Int /\ r \in 0..(g - 1) /\ d = y * g + r
        /\ z \in Int /\ s \in 0..(g - 1) /\ e = z * g + s
    <2> HIDE DEF g
    <2>1. QED
      BY <1>1, Divided
  <1> HIDE DEF g, y, z, r, s
  <1>3. ~(z < y)
    <2>1. z < y => (z + 1) * g <= y * g
      BY <1>1, <1>2
    <2>2. (z + 1) * g = z * g + g /\ z * g \in Int /\ y * g \in Int
      BY <1>1, <1>2
    <2>3. QED
      BY <1>1, <1>2, <2>1, <2>2
  <1>4. QED
    BY <1>2, <1>3 DEF YearOf, y, z, g

\* Said on a later day, "5 March" is no earlier.
LEMMA MonthDayGrows ==
  ASSUME NEW today \in Int, NEW later \in Int, today <= later, NEW m \in Months, NEW n \in 1..31
  PROVE  MonthDay(today, m, n) <= MonthDay(later, m, n)
  <1> DEFINE y == YearOf(today)  z == YearOf(later)
             d == MonthDay(today, m, n)  e == MonthDay(later, m, n)
             D(u) == DateAt(u, m, n)
  <1>1. /\ y \in Int /\ d \in Int
        /\ D(y) < today => d = D(y + 1)
        /\ ~(D(y) < today) => d = D(y)
    BY MonthDayIs
  <1>2. /\ z \in Int /\ e \in Int
        /\ D(z) < later => e = D(z + 1)
        /\ ~(D(z) < later) => e = D(z)
    BY MonthDayIs
  <1>3. /\ \A u \in Int : D(u) \in Int
        /\ \A u, v \in Int : u < v => D(u) + YearLength <= D(v)
    BY MonthDayIs
  <1>4. y <= z
    BY DaysBeforeGrows, YearsInOrder
  <1> HIDE DEF y, z, d, e, D
  <1>5. YearLength \in Nat
    BY DaysBeforeGrows
  <1>6. \A u, v \in Int : u <= v => D(u) <= D(v)
    <2>1. SUFFICES ASSUME NEW u \in Int, NEW v \in Int, u <= v  PROVE D(u) <= D(v)
      OBVIOUS
    <2>2. D(u) \in Int /\ D(v) \in Int
      BY <1>3
    <2>3. u < v => D(u) + YearLength <= D(v)
      BY <1>3
    <2>4. QED
      BY <1>5, <2>1, <2>2, <2>3
  <1>7. D(y) \in Int /\ D(y + 1) \in Int /\ D(z) \in Int /\ D(z + 1) \in Int
    BY <1>1, <1>2, <1>3
  <1>8. CASE y = z
    <2>1. D(y) <= D(y + 1)
      BY <1>1, <1>6
    <2>2. QED
      BY <1>1, <1>2, <1>7, <1>8, <2>1 DEF d, e
  <1>9. CASE y < z
    <2>1. D(y) <= D(z) /\ D(y + 1) <= D(z) /\ D(z) <= D(z + 1)
      BY <1>1, <1>2, <1>6, <1>9
    <2>2. QED
      BY <1>1, <1>2, <1>7, <2>1 DEF d, e
  <1>10. QED
    BY <1>1, <1>2, <1>4, <1>8, <1>9

\* Said on a later day, "the 3rd" is no earlier.
LEMMA TheNthGrows ==
  ASSUME NEW today \in Int, NEW later \in Int, today <= later, NEW n \in 1..31
  PROVE  TheNth(today, n) <= TheNth(later, n)
  <1> DEFINE k == MonthIndex(today)  j == MonthIndex(later)
             d == TheNth(today, n)  e == TheNth(later, n)
  <1>1. /\ k \in Int /\ d \in Int /\ MonthStart(k) \in Int /\ MonthStart(k + 1) \in Int
        /\ today < MonthStart(k + 1)
        /\ MonthStart(k) + n - 1 < today => d = MonthStart(k + 1) + n - 1
        /\ ~(MonthStart(k) + n - 1 < today) => d = MonthStart(k) + n - 1
    BY TheNthIs
  <1>2. /\ j \in Int /\ e \in Int /\ MonthStart(j) \in Int /\ MonthStart(j + 1) \in Int
        /\ MonthStart(j) + n - 1 < later => e = MonthStart(j + 1) + n - 1
        /\ ~(MonthStart(j) + n - 1 < later) => e = MonthStart(j) + n - 1
    BY TheNthIs
  <1>3. k <= j
    BY MonthIndexGrows
  <1> HIDE DEF k, j
  <1>4. MonthStart(k) <= MonthStart(k + 1) /\ MonthStart(j) <= MonthStart(j + 1)
    <2>1. LengthOf(k) \in 28..31 /\ MonthStart(k + 1) = MonthStart(k) + LengthOf(k)
      BY <1>1, MonthStarts
    <2>2. LengthOf(j) \in 28..31 /\ MonthStart(j + 1) = MonthStart(j) + LengthOf(j)
      BY <1>2, MonthStarts
    <2>3. QED
      BY <1>1, <1>2, <2>1, <2>2
  <1>5. CASE k = j
    <2> HIDE DEF d, e
    <2>1. QED
      BY <1>1, <1>2, <1>4, <1>5 DEF d, e
  <1>6. CASE k < j
    <2>1. MonthStart(k + 1) <= MonthStart(j)
      BY <1>1, <1>2, <1>6, MonthsInOrder
    <2> HIDE DEF d, e
    <2>2. QED
      BY <1>1, <1>2, <1>4, <2>1 DEF d, e
  <1>7. QED
    BY <1>1, <1>2, <1>3, <1>5, <1>6

\* The weekday found is not past.
LEMMA NextWeekdayComes ==
  ASSUME NEW today \in Int, NEW w \in 0..6
  PROVE  /\ NextWeekday(today, w, FALSE) \in Int /\ today <= NextWeekday(today, w, FALSE)
         /\ NextWeekday(today, w, TRUE) \in Int /\ today <= NextWeekday(today, w, TRUE)
  <1> DEFINE d == NextWeekday(today, w, FALSE)  s == NextWeekday(today, w, TRUE)
  <1>1. d \in (today + 1)..(today + 7) /\ s \in today..(today + 7)
    BY NextWeekdayIs
  <1> HIDE DEF d, s
  <1>2. d \in Int /\ today <= d /\ s \in Int /\ today <= s
    BY <1>1
  <1>3. QED
    BY <1>2 DEF d, s

\* The days meant are days, none of them past.
LEMMA DatedTyped ==
  ASSUME NEW date \in Date, date.kind # "none", NEW today \in Int
  PROVE  LET a == Dated(date, today)
         IN  /\ a.first \in Int /\ a.last \in Int /\ today <= a.first
             /\ a.spans \/ a.last = a.first
  <1> DEFINE a == Dated(date, today)
             Fits == /\ a.first \in Int /\ a.last \in Int /\ today <= a.first
                     /\ a.spans \/ a.last = a.first
  <1> SUFFICES Fits
    OBVIOUS
  <1>1. ASSUME NEW x \in Int, NEW y \in Int, today <= x, a = Span(x, y)
        PROVE  Fits
    <2> HIDE DEF a
    <2>1. QED
      BY <1>1 DEF Span
  <1>2. ASSUME NEW x \in Int, today <= x, a = Day(x)
        PROVE  Fits
    <2> HIDE DEF a
    <2>1. QED
      BY <1>2 DEF Day
  <1>3. CASE date.kind \in {"today", "tomorrow", "day_after_tomorrow", "fortnight"}
    <2>1. CASE date.kind = "today"
      <3>1. a = Day(today)
        BY <2>1, DatedToday
      <3> HIDE DEF a, Fits
      <3>2. QED
        BY <1>2, <3>1
    <2>2. CASE date.kind = "tomorrow"
      <3>1. a = Day(today + 1)
        BY <2>2, DatedTomorrow
      <3> HIDE DEF a, Fits
      <3>2. QED
        BY <1>2, <3>1
    <2>3. CASE date.kind = "day_after_tomorrow"
      <3>1. a = Day(today + 2)
        BY <2>3, DatedDayAfterTomorrow
      <3> HIDE DEF a, Fits
      <3>2. QED
        BY <1>2, <3>1
    <2>4. CASE date.kind = "fortnight"
      <3>1. a = Span(today + 14, today + 16)
        BY <2>4, DatedFortnight
      <3> HIDE DEF a, Fits
      <3>2. QED
        BY <1>1, <3>1
    <2>5. QED
      BY <1>3, <2>1, <2>2, <2>3, <2>4
  <1>4. CASE date.kind \in {"weekend", "next_week", "this_week"}
    <2> DEFINE s == NextWeekday(today, 6, TRUE)  m == Monday(today)
    <2>1. s \in Int /\ today <= s
      <3>1. 6 \in 0..6
        OBVIOUS
      <3>2. QED
        BY <3>1, NextWeekdayComes
    <2>2. m \in Int /\ today <= m + 6 /\ Monday(today + 7) = m + 7
      BY MondayIs
    <2>3. CASE date.kind = "weekend"
      <3>1. a = Span(s, s + 1)
        BY <2>3, DatedWeekend
      <3> HIDE DEF a, s, Fits
      <3>2. QED
        BY <1>1, <2>1, <3>1
    <2>4. CASE date.kind = "next_week"
      <3>1. a = Span(m + 7, m + 7 + 6)
        <4>1. a = Span(Monday(today + 7), Monday(today + 7) + 6)
          BY <2>4, DatedNextWeek
        <4>2. QED
          BY <2>2, <4>1
      <3> HIDE DEF a, m, Fits
      <3>2. QED
        BY <1>1, <2>2, <3>1
    <2>5. CASE date.kind = "this_week"
      <3>1. a = Span(today, m + 6)
        BY <2>5, DatedThisWeek
      <3> HIDE DEF a, m, Fits
      <3>2. QED
        BY <1>1, <2>2, <3>1
    <2>6. QED
      BY <1>4, <2>3, <2>4, <2>5
  <1>5. CASE date.kind = "next_month"
    <2> DEFINE k == MonthIndex(today)
    <2> DEFINE x == MonthStart(k + 1)  y == MonthStart(k + 2) - 1
    <2>1. k \in Int /\ today < x
      BY DateParts
    <2>4. a = Span(x, y)
      <3> DEFINE to == MonthsOn(PlusMonths(today, 1), 0)
      <3>1. a = Span(DateAt(to.year, to.month, 1),
                     DateAt(to.year, to.month, MonthLength[to.month]))
        BY <1>5, DatedNextMonth
      <3>2. /\ DateAt(to.year, to.month, 1) = x
            /\ DateAt(to.year, to.month, MonthLength[to.month]) = y
        BY NextMonthIs
      <3> HIDE DEF a, to, x, y
      <3>3. QED
        BY <3>1, <3>2
    <2> HIDE DEF a, k, Fits
    <2>2. MonthStart(k + 1) \in Int /\ MonthStart(k + 2) \in Int
      BY <2>1, MonthStarts
    <2>3. QED
      BY <1>1, <2>1, <2>2, <2>4
  <1>6. CASE date.kind = "week_from" /\ date.weekday \in 0..6
    <2> DEFINE s == NextWeekday(today, date.weekday, FALSE)
    <2>1. s \in Int /\ today <= s
      BY <1>6, NextWeekdayComes
    <2>2. a = Day(s + 7)
      BY <1>6, DatedWeekFrom
    <2> HIDE DEF a, s, Fits
    <2>3. QED
      BY <1>2, <2>1, <2>2
  <1>7. CASE date.kind \in {"in_days", "in_weeks", "in_months"} /\ date.n \in Nat
    <2> DEFINE n == date.n  p == PlusMonths(today, n)
    <2>1. a \in {Day(today + n), Span(today + 7 * n, today + 7 * n + 2), Span(p, p + 6)}
      BY <1>7, DatedInDays, DatedInWeeks, DatedInMonths
    <2>2. n \in Nat
      BY <1>7
    <2>3. p \in Int /\ today <= p
      <3>1. today <= today
        OBVIOUS
      <3>2. QED
        BY <2>2, <3>1, PlusMonthsGrows
    <2> HIDE DEF a, n, p, Fits
    <2>4. QED
      BY <1>1, <1>2, <2>1, <2>2, <2>3
  <1>8. CASE date.kind = "month_day" /\ date.month \in Months /\ date.n \in 1..31
    <2> DEFINE d == MonthDay(today, date.month, date.n)
    <2>1. d \in Int /\ today <= d
      BY <1>8, MonthDayIs
    <2>2. a = Day(d)
      BY <1>8, DatedMonthDay
    <2> HIDE DEF a, d, Fits
    <2>3. QED
      BY <1>2, <2>1, <2>2
  <1>9. CASE date.kind = "nth" /\ date.n \in 1..31
    <2> DEFINE d == TheNth(today, date.n)
    <2>1. d \in Int /\ today <= d
      BY <1>9, TheNthIs
    <2>2. a = Day(d)
      BY <1>9, DatedNth
    <2> HIDE DEF a, d, Fits
    <2>3. QED
      BY <1>2, <2>1, <2>2
  <1>10. CASE date.kind = "weekday" /\ date.weekday \in 0..6 /\ date.next \in BOOLEAN
    <2> DEFINE d == NamedWeekday(today, date.weekday, date.next)
               c == NextWeekday(today, date.weekday, FALSE)
    <2>1. c \in Int /\ today <= c
      BY <1>10, NextWeekdayComes
    <2>2. d \in {c, c + 7}
      BY DEF NamedWeekday
    <2>3. a = Day(d)
      BY <1>10, DatedWeekday
    <2> HIDE DEF a, c, d, Fits
    <2>4. QED
      BY <1>2, <2>1, <2>2, <2>3
  <1> HIDE DEF a, Fits
  <1>11. QED
    BY DateHolds, <1>3, <1>4, <1>5, <1>6, <1>7, <1>8, <1>9, <1>10

\* The same words never mean earlier days on a later day.
LEMMA DatedGrows ==
  ASSUME NEW date \in Date, date.kind # "none",
         NEW today \in Int, NEW later \in Int, today <= later
  PROVE  /\ Dated(date, today).first <= Dated(date, later).first
         /\ Dated(date, today).last <= Dated(date, later).last
  <1> DEFINE a == Dated(date, today)
             b == Dated(date, later)
             Grows == a.first <= b.first /\ a.last <= b.last
  <1> SUFFICES Grows
    OBVIOUS
  <1>1. ASSUME NEW x, NEW y, NEW u, NEW v, x <= u, y <= v, a = Span(x, y), b = Span(u, v)
        PROVE  Grows
    <2> HIDE DEF a, b
    <2>1. QED
      BY <1>1 DEF Span
  <1>2. ASSUME NEW x, NEW u, x <= u, a = Day(x), b = Day(u)
        PROVE  Grows
    <2> HIDE DEF a, b
    <2>1. QED
      BY <1>2 DEF Day
  <1>3. CASE date.kind \in {"today", "tomorrow", "day_after_tomorrow", "fortnight"}
    <2>1. CASE date.kind = "today"
      <3>1. a = Day(today) /\ b = Day(later)
        BY <2>1, DatedToday
      <3> HIDE DEF a, b, Grows
      <3>2. QED
        BY <1>2, <3>1
    <2>2. CASE date.kind = "tomorrow"
      <3>1. a = Day(today + 1) /\ b = Day(later + 1)
        BY <2>2, DatedTomorrow
      <3> HIDE DEF a, b, Grows
      <3>2. QED
        BY <1>2, <3>1
    <2>3. CASE date.kind = "day_after_tomorrow"
      <3>1. a = Day(today + 2) /\ b = Day(later + 2)
        BY <2>3, DatedDayAfterTomorrow
      <3> HIDE DEF a, b, Grows
      <3>2. QED
        BY <1>2, <3>1
    <2>4. CASE date.kind = "fortnight"
      <3>1. a = Span(today + 14, today + 16) /\ b = Span(later + 14, later + 16)
        BY <2>4, DatedFortnight
      <3> HIDE DEF a, b, Grows
      <3>2. today + 14 <= later + 14 /\ today + 16 <= later + 16
        OBVIOUS
      <3>3. QED
        BY <1>1, <3>1, <3>2
    <2>5. QED
      BY <1>3, <2>1, <2>2, <2>3, <2>4
  <1>4. CASE date.kind \in {"weekend", "next_week", "this_week"}
    <2> DEFINE s == NextWeekday(today, 6, TRUE)  m == Monday(today)
               r == NextWeekday(later, 6, TRUE)  l == Monday(later)
    <2>1. s \in Int /\ r \in Int /\ s <= r
      <3>1. 6 \in 0..6
        OBVIOUS
      <3>2. QED
        BY <3>1, NextWeekdayComes, NextWeekdayGrows
    <2>2. /\ m \in Int /\ Monday(today + 7) = m + 7
          /\ l \in Int /\ Monday(later + 7) = l + 7 /\ m <= l
      BY MondayIs, MondayGrows
    <2>3. CASE date.kind = "weekend"
      <3>1. a = Span(s, s + 1) /\ b = Span(r, r + 1)
        BY <2>3, DatedWeekend
      <3> HIDE DEF a, b, s, r, Grows
      <3>2. QED
        BY <1>1, <2>1, <3>1
    <2>4. CASE date.kind = "next_week"
      <3>1. a = Span(m + 7, m + 7 + 6) /\ b = Span(l + 7, l + 7 + 6)
        <4>1. /\ a = Span(Monday(today + 7), Monday(today + 7) + 6)
              /\ b = Span(Monday(later + 7), Monday(later + 7) + 6)
          BY <2>4, DatedNextWeek
        <4>2. QED
          BY <2>2, <4>1
      <3> HIDE DEF a, b, m, l, Grows
      <3>2. m + 7 <= l + 7 /\ m + 7 + 6 <= l + 7 + 6 /\ m + 7 \in Int /\ l + 7 \in Int
            /\ m + 7 + 6 \in Int /\ l + 7 + 6 \in Int
        BY <2>2
      <3>3. QED
        BY <1>1, <3>1, <3>2
    <2>5. CASE date.kind = "this_week"
      <3>1. a = Span(today, m + 6) /\ b = Span(later, l + 6)
        BY <2>5, DatedThisWeek
      <3> HIDE DEF a, b, m, l, Grows
      <3>2. m + 6 <= l + 6
        BY <2>2
      <3>3. QED
        BY <1>1, <3>1, <3>2
    <2>6. QED
      BY <1>4, <2>3, <2>4, <2>5
  <1>5. CASE date.kind = "next_month"
    <2> DEFINE k == MonthIndex(today)  j == MonthIndex(later)
    <2>1. k \in Int /\ j \in Int /\ k <= j
      BY DateParts, MonthIndexGrows
    <2>5. /\ a = Span(MonthStart(k + 1), MonthStart(k + 2) - 1)
          /\ b = Span(MonthStart(j + 1), MonthStart(j + 2) - 1)
      <3>1. ASSUME NEW t \in Int
            PROVE  Dated(date, t) = Span(MonthStart(MonthIndex(t) + 1), MonthStart(MonthIndex(t) + 2) - 1)
        <4> DEFINE to == MonthsOn(PlusMonths(t, 1), 0)
                   x == MonthStart(MonthIndex(t) + 1)  y == MonthStart(MonthIndex(t) + 2) - 1
        <4>1. Dated(date, t) = Span(DateAt(to.year, to.month, 1),
                                    DateAt(to.year, to.month, MonthLength[to.month]))
          BY <1>5, DatedNextMonth
        <4>2. /\ DateAt(to.year, to.month, 1) = x
              /\ DateAt(to.year, to.month, MonthLength[to.month]) = y
          BY NextMonthIs
        <4> HIDE DEF to, x, y
        <4>3. Dated(date, t) = Span(x, y)
          BY <4>1, <4>2
        <4>4. QED
          BY <4>3 DEF x, y
      <3>2. QED
        BY <3>1
    <2> HIDE DEF a, b, k, j, Grows
    <2>2. ASSUME NEW i \in Int, NEW h \in Int, i <= h
          PROVE  MonthStart(i) \in Int /\ MonthStart(h) \in Int /\ MonthStart(i) <= MonthStart(h)
      <3>1. MonthStart(i) \in Int /\ MonthStart(h) \in Int /\ MonthStart(i + 1) = MonthStart(i) + LengthOf(i)
            /\ LengthOf(i) \in 28..31 /\ MonthStart(i + 1) \in Int
        BY MonthStarts
      <3>2. i < h => MonthStart(i + 1) <= MonthStart(h)
        BY MonthsInOrder
      <3>3. QED
        BY <2>2, <3>1, <3>2
    <2>3. /\ MonthStart(k + 1) <= MonthStart(j + 1)
          /\ MonthStart(k + 2) - 1 <= MonthStart(j + 2) - 1
      <3>1. MonthStart(k + 1) <= MonthStart(j + 1)
        BY <2>1, <2>2
      <3>2. MonthStart(k + 2) \in Int /\ MonthStart(j + 2) \in Int /\ MonthStart(k + 2) <= MonthStart(j + 2)
        BY <2>1, <2>2
      <3>3. QED
        BY <3>1, <3>2
    <2>4. QED
      BY <1>1, <2>3, <2>5
  <1>6. CASE date.kind = "week_from" /\ date.weekday \in 0..6
    <2> DEFINE s == NextWeekday(today, date.weekday, FALSE)
               r == NextWeekday(later, date.weekday, FALSE)
    <2>1. s \in Int /\ r \in Int /\ s <= r
      BY <1>6, NextWeekdayComes, NextWeekdayGrows
    <2>2. a = Day(s + 7) /\ b = Day(r + 7)
      BY <1>6, DatedWeekFrom
    <2> HIDE DEF a, b, s, r, Grows
    <2>3. QED
      BY <1>2, <2>1, <2>2
  <1>7. CASE date.kind \in {"in_days", "in_weeks", "in_months"} /\ date.n \in Nat
    <2> DEFINE n == date.n  p == PlusMonths(today, n)  q == PlusMonths(later, n)
    <2>1. \/ a = Day(today + n) /\ b = Day(later + n)
          \/ /\ a = Span(today + 7 * n, today + 7 * n + 2)
             /\ b = Span(later + 7 * n, later + 7 * n + 2)
          \/ a = Span(p, p + 6) /\ b = Span(q, q + 6)
      BY <1>7, DatedInDays, DatedInWeeks, DatedInMonths
    <2>5. today + 7 * n <= later + 7 * n /\ today + 7 * n + 2 <= later + 7 * n + 2
      BY <1>7
    <2>2. n \in Nat
      BY <1>7
    <2>3. p \in Int /\ q \in Int /\ p <= q
      BY <2>2, PlusMonthsGrows
    <2> HIDE DEF a, b, n, p, q, Grows
    <2>4. QED
      <3>1. CASE a = Day(today + n) /\ b = Day(later + n)
        BY <1>2, <2>2, <3>1
      <3>2. CASE /\ a = Span(today + 7 * n, today + 7 * n + 2)
                 /\ b = Span(later + 7 * n, later + 7 * n + 2)
        BY <1>1, <2>5, <3>2
      <3>3. CASE a = Span(p, p + 6) /\ b = Span(q, q + 6)
        BY <1>1, <2>3, <3>3
      <3>4. QED
        BY <2>1, <3>1, <3>2, <3>3
  <1>8. CASE date.kind = "month_day" /\ date.month \in Months /\ date.n \in 1..31
    <2> DEFINE d == MonthDay(today, date.month, date.n)
               e == MonthDay(later, date.month, date.n)
    <2>1. d <= e
      BY <1>8, MonthDayGrows
    <2>2. a = Day(d) /\ b = Day(e)
      BY <1>8, DatedMonthDay
    <2> HIDE DEF a, b, d, e, Grows
    <2>3. QED
      BY <1>2, <2>1, <2>2
  <1>9. CASE date.kind = "nth" /\ date.n \in 1..31
    <2> DEFINE d == TheNth(today, date.n)
               e == TheNth(later, date.n)
    <2>1. d <= e
      BY <1>9, TheNthGrows
    <2>2. a = Day(d) /\ b = Day(e)
      BY <1>9, DatedNth
    <2> HIDE DEF a, b, d, e, Grows
    <2>3. QED
      BY <1>2, <2>1, <2>2
  <1>10. CASE date.kind = "weekday" /\ date.weekday \in 0..6 /\ date.next \in BOOLEAN
    <2> DEFINE w == date.weekday
               d == NamedWeekday(today, w, date.next)
               e == NamedWeekday(later, w, date.next)
    <2>1. a = Day(d) /\ b = Day(e)
      BY <1>10, DatedWeekday
    <2>2. CASE date.next = TRUE
      <3>1. /\ d = Monday(today) + 7 + ((w + 6) % 7)
            /\ e = Monday(later) + 7 + ((w + 6) % 7)
        BY <1>10, <2>2, NextNamedWeekday
      <3>2. Monday(today) \in Int /\ Monday(later) \in Int /\ Monday(today) <= Monday(later)
        BY MondayIs, MondayGrows
      <3>3. w \in Int
        BY <1>10
      <3> HIDE DEF a, b, d, e, w, Grows
      <3>4. d <= e
        BY <3>1, <3>2, <3>3
      <3>5. QED
        BY <1>2, <2>1, <3>4
    <2>3. CASE date.next = FALSE
      <3>1. d = NextWeekday(today, w, FALSE) /\ e = NextWeekday(later, w, FALSE)
        BY <2>3 DEF NamedWeekday
      <3>2. d <= e
        BY <1>10, <3>1, NextWeekdayGrows
      <3> HIDE DEF a, b, d, e, w, Grows
      <3>3. QED
        BY <1>2, <2>1, <3>2
    <2>4. QED
      BY <1>10, <2>2, <2>3
  <1> HIDE DEF a, b, Grows
  <1>11. QED
    BY DateHolds, <1>3, <1>4, <1>5, <1>6, <1>7, <1>8, <1>9, <1>10

-----------------------------------------------------------------------------
(* Times of day *)

\* What words for a time hold.
LEMMA TimeHolds ==
  ASSUME NEW time \in Time, time.kind # "none"
  PROVE  \/ time.kind = "part" /\ time.part \in Parts
         \/ /\ time.kind = "clock" /\ time.minute \in 0..59
            /\ time.relation \in Relations /\ time.quarterTo \in BOOLEAN
            /\ \/ time.hour \in 0..12 /\ time.meridiem \in {"am", "pm"}
               \/ time.hour \in 0..23 /\ time.meridiem = "none"
  BY DEF Time, Clock

\* The hand of the clock is where it was said to be.
SaidAt(time) ==
  LET pm == time.meridiem = "pm" \/ (time.meridiem = "none" /\ time.hour \in (1..6) \cup {12})
  IN  At((IF time.hour = 12 THEN 0 ELSE time.hour) + (IF pm THEN 12 ELSE 0), time.minute)

\* parseClock finds the minute that was said.
LEMMA ClockIs ==
  ASSUME NEW time \in Time, time.kind = "clock"
  PROVE  /\ ClockTime(time) \in 0..(DayMinutes - 1)
         /\ ~time.quarterTo => ClockTime(time) = SaidAt(time)
  <1> DEFINE h == To24Hour(time.hour, time.meridiem)
  <1>1. /\ time.minute \in 0..59
        /\ \/ time.hour \in 0..12 /\ time.meridiem \in {"am", "pm"}
           \/ time.hour \in 0..23 /\ time.meridiem = "none"
    BY TimeHolds
  <1>2. /\ h \in 0..23
        /\ SaidAt(time) = At(h, time.minute)
    <2>1. CASE time.hour \in 0..12 /\ time.meridiem = "am"
      <3>1. h = time.hour % 12
        BY <2>1 DEF To24Hour
      <3>2. SaidAt(time) = At((IF time.hour = 12 THEN 0 ELSE time.hour) + 0, time.minute)
        BY <2>1 DEF SaidAt
      <3> HIDE DEF h
      <3>3. QED
        BY <2>1, <3>1, <3>2 DEF At
    <2>2. CASE time.hour \in 0..12 /\ time.meridiem = "pm"
      <3>1. h = (time.hour % 12) + 12
        BY <2>2 DEF To24Hour
      <3>2. SaidAt(time) = At((IF time.hour = 12 THEN 0 ELSE time.hour) + 12, time.minute)
        BY <2>2 DEF SaidAt
      <3> HIDE DEF h
      <3>3. QED
        BY <2>2, <3>1, <3>2 DEF At
    <2>3. CASE time.hour \in 0..23 /\ time.meridiem = "none"
      <3>1. h = IF time.hour \in 1..6 THEN time.hour + 12 ELSE time.hour
        BY <2>3 DEF To24Hour
      <3>2. SaidAt(time) = At((IF time.hour = 12 THEN 0 ELSE time.hour)
                              + (IF time.hour \in (1..6) \cup {12} THEN 12 ELSE 0), time.minute)
        BY <2>3 DEF SaidAt
      <3> HIDE DEF h
      <3>3. QED
        BY <2>3, <3>1, <3>2 DEF At
    <2>4. QED
      BY <1>1, <2>1, <2>2, <2>3
  <1>3. ClockTime(time) = IF time.quarterTo THEN At((h + 23) % 24, 45) ELSE At(h, time.minute)
    BY DEF ClockTime
  <1> HIDE DEF h
  <1>4. At((h + 23) % 24, 45) \in 0..(DayMinutes - 1)
    <2> DEFINE g == (h + 23) % 24
    <2>1. g \in 0..23
      BY <1>2
    <2> HIDE DEF g
    <2>2. At(g, 45) \in 0..(DayMinutes - 1)
      BY <2>1 DEF At, DayMinutes
    <2>3. QED
      BY <2>2 DEF g
  <1>5. At(h, time.minute) \in 0..(DayMinutes - 1)
    BY <1>1, <1>2 DEF At, DayMinutes
  <1>6. QED
    BY <1>2, <1>3, <1>4, <1>5

\* The hours that a phrase asks for.
Window(p) == IF p.time.kind # "none" THEN TimeAnchor(p.time) ELSE FullDay

\* The hours of a phrase begin and end within a day.
LEMMA WindowTyped ==
  ASSUME NEW p \in Phrases
  PROVE  Window(p)[1] \in 0..(DayMinutes - 1) /\ Window(p)[2] \in 0..(DayMinutes - 1)
  <1> DEFINE time == p.time
             w    == Window(p)
             Fits == w[1] \in 0..(DayMinutes - 1) /\ w[2] \in 0..(DayMinutes - 1)
  <1> SUFFICES Fits
    OBVIOUS
  <1>1. time \in Time
    BY PhrasesAssumption
  <1>2. ASSUME NEW a \in 0..(DayMinutes - 1), NEW b \in 0..(DayMinutes - 1), w = <<a, b>>
        PROVE  Fits
    <2> HIDE DEF w
    <2>1. QED
      BY <1>2
  <1>3. CASE time.kind = "none"
    <2>1. w = <<0, At(23, 59)>>
      BY <1>3 DEF Window, FullDay
    <2>2. At(23, 59) \in 0..(DayMinutes - 1) /\ 0 \in 0..(DayMinutes - 1)
      BY DEF At, DayMinutes
    <2> HIDE DEF w, Fits
    <2>3. QED
      BY <1>2, <2>1, <2>2
  <1>4. CASE time.kind = "part" /\ time.part \in Parts
    <2>1. w = DayParts[time.part]
      BY <1>4 DEF Window, TimeAnchor
    <2>2. /\ DayParts["morning"] = <<360, 720>>   /\ DayParts["early"] = <<360, 600>>
          /\ DayParts["lunchtime"] = <<690, 840>> /\ DayParts["noon"] = <<690, 780>>
          /\ DayParts["afternoon"] = <<720, 1020>>
          /\ DayParts["evening"] = <<1020, 1320>> /\ DayParts["late"] = <<960, 1320>>
      BY DEF DayParts, At
    <2>3. \A q \in Parts : DayParts[q][1] \in 0..(DayMinutes - 1)
      BY <2>2 DEF Parts, DayMinutes
    <2>4. \A q \in Parts : DayParts[q][2] \in 0..(DayMinutes - 1)
      BY <2>2 DEF Parts, DayMinutes
    <2>5. QED
      BY <1>4, <2>1, <2>3, <2>4
  <1>5. CASE time.kind = "clock" /\ time.relation \in Relations
    <2> DEFINE at == ClockTime(time)
    <2>1. at \in 0..(DayMinutes - 1)
      BY <1>1, <1>5, ClockIs
    <2>2. w = TimeAnchor(time)
      BY <1>5 DEF Window
    <2>3. CASE time.relation = "after"
      <3>1. w = <<at, At(23, 59)>>
        BY <1>5, <2>2, <2>3 DEF TimeAnchor
      <3>2. At(23, 59) \in 0..(DayMinutes - 1)
        BY DEF At, DayMinutes
      <3> HIDE DEF w, at, Fits
      <3>3. QED
        BY <1>2, <2>1, <3>1, <3>2
    <2>4. CASE time.relation = "before"
      <3>1. w = <<0, at>>
        BY <1>5, <2>2, <2>4 DEF TimeAnchor
      <3>2. 0 \in 0..(DayMinutes - 1)
        BY DEF DayMinutes
      <3> HIDE DEF w, at, Fits
      <3>3. QED
        BY <1>2, <2>1, <3>1, <3>2
    <2>5. CASE time.relation = "around"
      <3>1. w = <<(at - 60) % DayMinutes, (at + 60) % DayMinutes>>
        BY <1>5, <2>2, <2>5 DEF TimeAnchor
      <3>2. (at - 60) % DayMinutes \in 0..(DayMinutes - 1) /\ (at + 60) % DayMinutes \in 0..(DayMinutes - 1)
        <4> HIDE DEF at
        <4>1. QED
          BY <2>1 DEF DayMinutes
      <3> HIDE DEF w, at, Fits
      <3>3. QED
        BY <1>2, <3>1, <3>2
    <2>6. CASE time.relation = "at"
      <3>1. w = <<at, (at + 90) % DayMinutes>>
        BY <1>5, <2>2, <2>6 DEF TimeAnchor
      <3>2. (at + 90) % DayMinutes \in 0..(DayMinutes - 1)
        <4> HIDE DEF at
        <4>1. QED
          BY <2>1 DEF DayMinutes
      <3> HIDE DEF w, at, Fits
      <3>3. QED
        BY <1>2, <2>1, <3>1, <3>2
    <2>7. QED
      BY <1>5, <2>3, <2>4, <2>5, <2>6 DEF Relations
  <1> HIDE DEF Fits, w
  <1>6. QED
    BY <1>1, <1>3, <1>4, <1>5, TimeHolds

(* The window *)

\* The days that a phrase stands for at instant t.
DaysAt(p, t) == IF p.date.kind = "none" THEN SoonestDay(Window(p), t) ELSE Dated(p.date, DayOf(t))

\* An instant is in its day.
LEMMA DayOfIs ==
  ASSUME NEW t \in Int
  PROVE  /\ DayOf(t) \in Int /\ DayOf(t) * DayMinutes <= t
         /\ t < (DayOf(t) + 1) * DayMinutes
         /\ t = DayOf(t) * DayMinutes + (t % DayMinutes) /\ t % DayMinutes \in 0..(DayMinutes - 1)
  BY DEF DayOf, DayMinutes

\* Minute m of day d is in day d.
LEMMA DayOfOnly ==
  ASSUME NEW d \in Int, NEW m \in 0..(DayMinutes - 1)
  PROVE  /\ d * DayMinutes + m \in Int
         /\ DayOf(d * DayMinutes + m) = d /\ (d * DayMinutes + m) % DayMinutes = m
  BY DEF DayOf, DayMinutes

\* A time with no date is today's or tomorrow's.
LEMMA SoonestDayIs ==
  ASSUME NEW p \in Phrases, NEW t \in Int
  PROVE  LET a == SoonestDay(Window(p), t)
             e == DayOf(t) * DayMinutes + Window(p)[2]
         IN  /\ e <= t => a = Day(DayOf(t) + 1)
             /\ ~(e <= t) => a = Day(DayOf(t))
  BY DEF SoonestDay

\* The days of a phrase are not past.
LEMMA DaysTyped ==
  ASSUME NEW p \in Phrases, NEW t \in Int
  PROVE  LET a == DaysAt(p, t)
         IN  /\ a.first \in Int /\ a.last \in Int /\ DayOf(t) <= a.first
             /\ a.spans \/ a.last = a.first
  <1>1. p.date \in Date /\ DayOf(t) \in Int
    BY PhrasesAssumption, DayOfIs
  <1>2. CASE p.date.kind = "none"
    <2>1. DaysAt(p, t) = Day(DayOf(t)) \/ DaysAt(p, t) = Day(DayOf(t) + 1)
      BY <1>2, SoonestDayIs DEF DaysAt
    <2>2. QED
      BY <1>1, <2>1 DEF Day
  <1>3. CASE p.date.kind # "none"
    BY <1>1, <1>3, DatedTyped DEF DaysAt
  <1>4. QED
    BY <1>2, <1>3

\* Said later, a phrase means no earlier days.
LEMMA DaysGrow ==
  ASSUME NEW p \in Phrases, NEW t \in Int, NEW u \in Int, t <= u
  PROVE  DaysAt(p, t).first <= DaysAt(p, u).first /\ DaysAt(p, t).last <= DaysAt(p, u).last
  <1>1. /\ p.date \in Date /\ DayOf(t) \in Int /\ DayOf(u) \in Int
        /\ DayOf(t) <= DayOf(u)
    <2>1. DayOf(t) <= DayOf(u)
      BY DEF DayOf, DayMinutes
    <2>2. QED
      BY <2>1, PhrasesAssumption, DayOfIs
  <1>2. CASE p.date.kind = "none"
    <2> DEFINE w == Window(p)[2]
               d == DayOf(t)  e == DayOf(u)
    <2>1. w \in Int
      BY WindowTyped
    <2>2. /\ d * DayMinutes + w <= t => DaysAt(p, t) = Day(d + 1)
          /\ ~(d * DayMinutes + w <= t) => DaysAt(p, t) = Day(d)
          /\ e * DayMinutes + w <= u => DaysAt(p, u) = Day(e + 1)
          /\ ~(e * DayMinutes + w <= u) => DaysAt(p, u) = Day(e)
      BY <1>2, SoonestDayIs DEF DaysAt
    <2> HIDE DEF d, e, w
    <2>3. d \in Int /\ e \in Int /\ d <= e
      BY <1>1 DEF d, e
    <2>4. \E x, y \in Int : x <= y /\ DaysAt(p, t) = Day(x) /\ DaysAt(p, u) = Day(y)
      <3>1. CASE d = e
        <4>1. d * DayMinutes + w <= t => d * DayMinutes + w <= u
          BY <2>1, <2>3 DEF DayMinutes
        <4>2. QED
          BY <2>2, <2>3, <3>1, <4>1
      <3>2. CASE d + 1 <= e
        BY <2>2, <2>3, <3>2
      <3>3. QED
        BY <2>3, <3>1, <3>2
    <2>5. QED
      BY <2>4 DEF Day
  <1>3. CASE p.date.kind # "none"
    BY <1>1, <1>3, DatedGrows DEF DaysAt
  <1>4. QED
    BY <1>2, <1>3

\* What is found begins with its first hour or, if that is over, with t.
LEMMA ResolveIs ==
  ASSUME NEW p \in Phrases, NEW t \in Int, Resolve(p, t) # Nothing
  PROVE  LET a      == Resolve(p, t)
             begins == DaysAt(p, t).first * DayMinutes + Window(p)[1]
         IN  /\ begins \in Int
             /\ begins < t => a.from = t
             /\ ~(begins < t) => a.from = begins
             /\ a.to = DaysAt(p, t).last * DayMinutes + Window(p)[2]
             /\ a.from \in Int /\ a.to \in Int /\ a.from < a.to /\ t <= a.from
  <1> DEFINE a      == Resolve(p, t)
             begins == DaysAt(p, t).first * DayMinutes + Window(p)[1]
             from   == IF begins < t THEN t ELSE begins
             to     == DaysAt(p, t).last * DayMinutes + Window(p)[2]
  <1>1. a = Nothing \/ (~(to <= from) /\ a.from = from /\ a.to = to)
    BY DEF Resolve, DaysAt, Window
  <1>2. begins \in Int /\ to \in Int
    <2>1. DaysAt(p, t).first \in Int /\ DaysAt(p, t).last \in Int
      BY DaysTyped
    <2>2. Window(p)[1] \in Int /\ Window(p)[2] \in Int
      BY WindowTyped
    <2>3. DayMinutes \in Int
      BY DEF DayMinutes
    <2>4. QED
      BY <2>1, <2>2, <2>3
  <1> HIDE DEF a, begins, to
  <1>3. a # Nothing
    BY DEF a
  <1>4. QED
    BY <1>1, <1>2, <1>3 DEF a, begins, to

\* The invariant: the answer is the resolver's for the words said at this instant.
Resolved == phrase \in Phrases /\ now \in Nows /\ answer = Resolve(phrase, now)

\* Every step resolves the words anew.
LEMMA AlwaysResolved == Spec => []Resolved
  <1>1. Init => Resolved
    BY DEF Init, Resolved
  <1>2. Resolved /\ [Next]_vars => Resolved'
    BY DEF Next, AskLater, vars, Resolved
  <1>3. QED
    BY <1>1, <1>2, PTL DEF Spec

\* Whoever says the same words later is not taken back: neither the beginning nor
\* the end of the window moves to an earlier time, and it never begins in the past.
THEOREM TimeOnlyAdvances == Spec => NeverTakenBack
  <1>1. ASSUME Resolved, AskLater, Found, answer' # Nothing
        PROVE  answer.from <= answer'.from /\ answer.to <= answer'.to /\ now' <= answer'.from
    <2> DEFINE t == now  u == now'  p == phrase
               b == DaysAt(p, t).first * DayMinutes + Window(p)[1]
               c == DaysAt(p, u).first * DayMinutes + Window(p)[1]
    <2>1. /\ p \in Phrases /\ t \in Int /\ u \in Int /\ t <= u
          /\ answer = Resolve(p, t) /\ answer' = Resolve(p, u)
      BY <1>1, CalendarFacts DEF Resolved, AskLater
    <2>2. /\ b \in Int
          /\ b < t => answer.from = t
          /\ ~(b < t) => answer.from = b
          /\ answer.to = DaysAt(p, t).last * DayMinutes + Window(p)[2]
      BY <1>1, <2>1, ResolveIs DEF Found
    <2>3. /\ c \in Int
          /\ c < u => answer'.from = u
          /\ ~(c < u) => answer'.from = c
          /\ answer'.to = DaysAt(p, u).last * DayMinutes + Window(p)[2]
          /\ u <= answer'.from
      BY <1>1, <2>1, ResolveIs
    <2> DEFINE d == DaysAt(p, t)  e == DaysAt(p, u)  w == Window(p)
    <2>4. /\ d.first \in Int /\ d.last \in Int /\ e.first \in Int /\ e.last \in Int
          /\ d.first <= e.first /\ d.last <= e.last
      BY <2>1, DaysTyped, DaysGrow
    <2>5. w[1] \in Int /\ w[2] \in Int
      BY <2>1, WindowTyped
    <2> HIDE DEF d, e, w, p
    <2>6. b <= c /\ answer.to <= answer'.to
      BY <2>2, <2>3, <2>4, <2>5 DEF DayMinutes, d, e, w
    <2> HIDE DEF b, c
    <2>7. QED
      BY <2>1, <2>2, <2>3, <2>6
  <1>2. Resolved /\ [Next]_vars =>
          [Found /\ answer' # Nothing =>
             answer.from <= answer'.from /\ answer.to <= answer'.to /\ now' <= answer'.from]_vars
    BY <1>1 DEF Next
  <1>3. QED
    BY <1>2, AlwaysResolved, PTL DEF Spec, NeverTakenBack

\* Words that stand for one day.
LEMMA OneDay ==
  ASSUME NEW p \in Phrases, NEW t \in Int, p.date.kind \notin Spanning
  PROVE  DaysAt(p, t).last = DaysAt(p, t).first
  <1> DEFINE date == p.date  today == DayOf(t)
  <1>1. ASSUME NEW d, DaysAt(p, t) = Day(d)
        PROVE  DaysAt(p, t).last = DaysAt(p, t).first
    BY <1>1 DEF Day
  <1>2. date \in Date
    BY PhrasesAssumption
  <1>3. CASE date.kind = "none"
    BY <1>1, <1>3, SoonestDayIs DEF DaysAt
  <1>4. CASE date.kind # "none"
    <2>1. DaysAt(p, t) = Dated(date, today)
      BY <1>4 DEF DaysAt
    <2>2. date.kind \in {"today", "tomorrow", "day_after_tomorrow", "week_from", "in_days",
                         "month_day", "nth", "weekday"}
      BY <1>2, <1>4, DateHolds DEF Spanning
    <2>3. CASE date.kind = "today"
      <3>1. Dated(date, today) = Day(today)
        BY <2>3, DatedToday
      <3>2. QED
        BY <1>1, <2>1, <3>1
    <2>4. CASE date.kind = "tomorrow"
      <3>1. Dated(date, today) = Day(today + 1)
        BY <2>4, DatedTomorrow
      <3>2. QED
        BY <1>1, <2>1, <3>1
    <2>5. CASE date.kind = "day_after_tomorrow"
      <3>1. Dated(date, today) = Day(today + 2)
        BY <2>5, DatedDayAfterTomorrow
      <3>2. QED
        BY <1>1, <2>1, <3>1
    <2>6. CASE date.kind = "week_from"
      <3>1. Dated(date, today) = Day(NextWeekday(today, date.weekday, FALSE) + 7)
        BY <2>6, DatedWeekFrom
      <3>2. QED
        BY <1>1, <2>1, <3>1
    <2>7. CASE date.kind = "in_days"
      <3>1. Dated(date, today) = Day(today + date.n)
        BY <2>7, DatedInDays
      <3>2. QED
        BY <1>1, <2>1, <3>1
    <2>8. CASE date.kind = "month_day"
      <3>1. Dated(date, today) = Day(MonthDay(today, date.month, date.n))
        BY <2>8, DatedMonthDay
      <3>2. QED
        BY <1>1, <2>1, <3>1
    <2>9. CASE date.kind = "nth"
      <3>1. Dated(date, today) = Day(TheNth(today, date.n))
        BY <2>9, DatedNth
      <3>2. QED
        BY <1>1, <2>1, <3>1
    <2>10. CASE date.kind = "weekday"
      <3>1. Dated(date, today) = Day(NamedWeekday(today, date.weekday, date.next))
        BY <2>10, DatedWeekday
      <3>2. QED
        BY <1>1, <2>1, <3>1
    <2>11. QED
      BY <2>2, <2>3, <2>4, <2>5, <2>6, <2>7, <2>8, <2>9, <2>10
  <1>5. QED
    BY <1>3, <1>4

\* The days and the hours of what is found are those asked for.
LEMMA FoundIs ==
  ASSUME Resolved, Found
  PROVE  LET d == DaysAt(phrase, now)
             w == Window(phrase)
         IN  /\ phrase \in Phrases /\ now \in Int /\ Today \in Int
             /\ First = d.first /\ Last = d.last
             /\ answer.from % DayMinutes >= w[1] /\ answer.to % DayMinutes = w[2]
             /\ d.first = d.last => w[1] < w[2]
  <1> DEFINE d == DaysAt(phrase, now)
             w == Window(phrase)
             begins == d.first * DayMinutes + w[1]
  <1>1. phrase \in Phrases /\ now \in Int /\ answer = Resolve(phrase, now) /\ answer # Nothing
    BY CalendarFacts DEF Resolved, Found
  <1>2. /\ Today \in Int /\ now < (Today + 1) * DayMinutes /\ Today * DayMinutes <= now
        /\ now = Today * DayMinutes + (now % DayMinutes) /\ now % DayMinutes \in 0..(DayMinutes - 1)
    BY <1>1, DayOfIs DEF Today
  <1>3. d.first \in Int /\ d.last \in Int /\ Today <= d.first
    BY <1>1, DaysTyped DEF Today
  <1>4. w[1] \in 0..(DayMinutes - 1) /\ w[2] \in 0..(DayMinutes - 1)
    BY <1>1, WindowTyped
  <1>5. /\ begins < now => answer.from = now
        /\ ~(begins < now) => answer.from = begins
        /\ answer.to = d.last * DayMinutes + w[2]
        /\ answer.from < answer.to
    BY <1>1, ResolveIs
  <1>6. Last = d.last /\ answer.to % DayMinutes = w[2]
    <2> DEFINE e == d.last  v == w[2]
    <2>1. e \in Int /\ v \in 0..(DayMinutes - 1) /\ answer.to = e * DayMinutes + v
      BY <1>3, <1>4, <1>5
    <2> HIDE DEF e, v
    <2>2. Last = e /\ answer.to % DayMinutes = v
      BY <2>1, DayOfOnly DEF Last
    <2>3. QED
      BY <2>2 DEF e, v
  <1> DEFINE e == d.first  v == w[1]
  <1>7. e \in Int /\ v \in 0..(DayMinutes - 1) /\ begins = e * DayMinutes + v /\ Today <= e
    BY <1>3, <1>4
  <1>8. First = e /\ answer.from % DayMinutes >= v
    <2> HIDE DEF d, w, e, v, begins
    <2>1. CASE begins < now
      <3>1. answer.from = now
        BY <1>5, <2>1
      <3>2. Today = e
        <4>1. DayMinutes = 1440
          BY DEF DayMinutes
        <4>2. e >= Today + 1 => e * 1440 >= (Today + 1) * 1440
          BY <1>2, <1>7
        <4>3. e * 1440 + v < now /\ now < (Today + 1) * 1440
          BY <1>2, <1>7, <2>1, <4>1
        <4>4. v >= 0 /\ v \in Int
          BY <1>7, <4>1
        <4>5. QED
          BY <1>1, <1>2, <1>7, <4>2, <4>3, <4>4
      <3>3. now % DayMinutes >= v
        <4> DEFINE r == now % DayMinutes
        <4>1. now = Today * DayMinutes + r /\ r \in 0..(DayMinutes - 1)
          BY <1>2
        <4> HIDE DEF r
        <4>2. r >= v
          BY <1>1, <1>2, <1>7, <2>1, <3>2, <4>1 DEF DayMinutes
        <4>3. QED
          BY <4>2 DEF r
      <3>4. QED
        BY <3>1, <3>2, <3>3 DEF First, Today
    <2>2. CASE ~(begins < now)
      <3>1. answer.from = e * DayMinutes + v
        BY <1>5, <1>7, <2>2
      <3>2. First = e /\ answer.from % DayMinutes = v
        BY <1>7, <3>1, DayOfOnly DEF First
      <3>3. QED
        BY <1>7, <3>2 DEF DayMinutes
    <2>3. QED
      BY <2>1, <2>2
  <1>9. d.first = d.last => w[1] < w[2]
    <2> DEFINE f == d.last  u == w[2]
    <2>1. f \in Int /\ u \in 0..(DayMinutes - 1) /\ answer.to = f * DayMinutes + u
      BY <1>3, <1>4, <1>5
    <2>2. e = f => v < u
      <3> HIDE DEF d, w, e, v, f, u, begins
      <3>1. begins <= answer.from
        BY <1>1, <1>5, <1>7 DEF DayMinutes
      <3>2. answer.from \in Int
        BY <1>1, <1>5, <1>7 DEF DayMinutes
      <3>3. QED
        BY <1>5, <1>7, <2>1, <3>1, <3>2 DEF DayMinutes
    <2>3. QED
      BY <2>2
  <1> HIDE DEF d, w, e, v
  <1>10. QED
    BY <1>1, <1>2, <1>6, <1>8, <1>9 DEF d, w, e, v

\* The time of day is the one said, unless a window that spans days would run over
\* midnight.
THEOREM TimesAreMeant ==
  ASSUME HoursWithinTheDay
  PROVE  Spec => []TimeOfDayIsMeant
  <1>1. ASSUME Resolved, Found, phrase.time.kind = "clock", ~phrase.time.quarterTo
        PROVE  LET time   == phrase.time
                   starts == answer.from % DayMinutes
                   ends   == answer.to % DayMinutes
                   said   == SaidAt(time)
               IN  /\ time.relation = "before" => ends = said
                   /\ time.relation = "after"  => starts >= said
                   /\ time.relation = "at"     => starts >= said /\ ends = said + 90
                   /\ time.relation = "around" => starts >= said - 60 /\ ends = said + 60
    <2> DEFINE time == phrase.time
               starts == answer.from % DayMinutes
               ends == answer.to % DayMinutes
               at == SaidAt(time)
               d == DaysAt(phrase, now)
               w == Window(phrase)
    <2>1. /\ phrase \in Phrases /\ now \in Int /\ starts >= w[1] /\ ends = w[2]
          /\ d.first = d.last => w[1] < w[2]
      BY <1>1, FoundIs
    <2>2. time \in Time /\ at = ClockTime(time) /\ at \in 0..(DayMinutes - 1)
      <3>1. time \in Time
        BY <2>1, PhrasesAssumption
      <3>2. QED
        BY <1>1, <3>1, ClockIs
    <2>3. w = TimeAnchor(time)
      BY <1>1 DEF Window
    <2>4. \/ w[1] < w[2]
          \/ /\ time.relation = "at" => at + 90 < DayMinutes
             /\ time.relation = "around" => 60 <= at /\ at + 60 < DayMinutes
      <3>1. CASE phrase.date.kind \in Spanning
        BY <1>1, <2>1, <2>2, <3>1 DEF HoursWithinTheDay
      <3>2. CASE phrase.date.kind \notin Spanning
        BY <2>1, <3>2, OneDay
      <3>3. QED
        BY <3>1, <3>2
    <2>5. CASE time.relation = "before"
      <3>1. w[2] = at
        BY <1>1, <2>2, <2>3, <2>5 DEF TimeAnchor
      <3>2. QED
        BY <2>1, <2>5, <3>1
    <2>6. CASE time.relation = "after"
      <3>1. w[1] = at
        BY <1>1, <2>2, <2>3, <2>6 DEF TimeAnchor
      <3>2. QED
        BY <2>1, <2>6, <3>1
    <2>7. CASE time.relation = "at"
      <3>1. w[1] = at /\ w[2] = (at + 90) % DayMinutes
        BY <1>1, <2>2, <2>3, <2>7 DEF TimeAnchor
      <3>2. w[2] = at + 90
        <4> DEFINE a == w[1]  b == w[2]
        <4>1. /\ a = at /\ b = (at + 90) % DayMinutes
              /\ a < b \/ at + 90 < DayMinutes
          BY <2>4, <2>7, <3>1
        <4> HIDE DEF a, b, at
        <4>2. b = at + 90
          <5>1. at \in 0..1439 /\ a = at /\ b = (at + 90) % 1440
            BY <2>2, <4>1 DEF DayMinutes
          <5>2. CASE at + 90 < 1440
            BY <5>1, <5>2
          <5>3. CASE at + 90 >= 1440
            <6>1. b = at - 1350
              BY <5>1, <5>3
            <6>2. QED
              BY <4>1, <5>1, <5>3, <6>1 DEF DayMinutes
          <5>4. QED
            BY <5>1, <5>2, <5>3
        <4>3. QED
          BY <4>2 DEF b
      <3>3. QED
        BY <2>1, <2>7, <3>1, <3>2
    <2>8. CASE time.relation = "around"
      <3>1. w[1] = (at - 60) % DayMinutes /\ w[2] = (at + 60) % DayMinutes
        BY <1>1, <2>2, <2>3, <2>8 DEF TimeAnchor
      <3>2. w[1] = at - 60 /\ w[2] = at + 60
        <4> DEFINE a == w[1]  b == w[2]
        <4>1. /\ a = (at - 60) % DayMinutes /\ b = (at + 60) % DayMinutes
              /\ a < b \/ (60 <= at /\ at + 60 < DayMinutes)
          BY <2>4, <2>8, <3>1
        <4> HIDE DEF a, b, at
        <4>2. a = at - 60 /\ b = at + 60
          <5>1. at \in 0..1439 /\ a = (at - 60) % 1440 /\ b = (at + 60) % 1440
            BY <2>2, <4>1 DEF DayMinutes
          <5>2. CASE at < 60
            <6>1. a = at + 1380 /\ b = at + 60
              BY <5>1, <5>2
            <6>2. QED
              BY <4>1, <5>1, <5>2, <6>1
          <5>3. CASE at >= 1380
            <6>1. a = at - 60 /\ b = at - 1380
              BY <5>1, <5>3
            <6>2. QED
              BY <4>1, <5>1, <5>3, <6>1 DEF DayMinutes
          <5>4. CASE 60 <= at /\ at < 1380
            BY <5>1, <5>4
          <5>5. QED
            BY <5>1, <5>2, <5>3, <5>4
        <4>3. QED
          BY <4>2 DEF a, b
      <3>3. QED
        BY <2>1, <2>8, <3>2
    <2>9. time.relation \in {"before", "after", "at", "around"}
      BY <1>1, <2>2, TimeHolds DEF Relations
    <2> HIDE DEF starts, ends, at, w, d
    <2>10. QED
      BY <2>5, <2>6, <2>7, <2>8, <2>9 DEF starts, ends, at
  <1>2. Resolved => TimeOfDayIsMeant
    BY <1>1 DEF TimeOfDayIsMeant, SaidAt
  <1>3. QED
    BY <1>2, AlwaysResolved, PTL

-----------------------------------------------------------------------------
(* The days meant *)

\* A day that is in month k.
LEMMA InMonth ==
  ASSUME NEW k \in Int, NEW d \in Int, MonthStart(k) <= d, d < MonthStart(k + 1)
  PROVE  /\ MonthIndex(d) = k /\ MonthOf(d) = (k % 12) + 1 /\ YearOf(d) = k \div 12
         /\ DayInMonth(d) = d - MonthStart(k) + 1
  <1>1. MonthIndex(d) = k
    BY MonthIndexIs
  <1>2. /\ MonthIndex(d) \div 12 = YearOf(d) /\ (MonthIndex(d) % 12) + 1 = MonthOf(d)
        /\ DayInMonth(d) = d - MonthStart(MonthIndex(d)) + 1
    BY DateParts
  <1>3. QED
    BY <1>1, <1>2

\* Three months in a row.
LEMMA ThreeMonths ==
  ASSUME NEW k \in Int
  PROVE  /\ MonthStart(k) \in Int /\ MonthStart(k + 1) \in Int /\ MonthStart(k + 2) \in Int
         /\ MonthStart(k + 3) \in Int
         /\ LengthOf(k) \in 28..31 /\ LengthOf(k + 1) \in 28..31 /\ LengthOf(k + 2) \in 28..31
         /\ MonthStart(k + 1) = MonthStart(k) + LengthOf(k)
         /\ MonthStart(k + 2) = MonthStart(k + 1) + LengthOf(k + 1)
         /\ MonthStart(k + 3) = MonthStart(k + 2) + LengthOf(k + 2)
         /\ (((k % 12) + 1) % 12) + 1 = ((k + 1) % 12) + 1
         /\ (k % 12) + 1 # ((k + 1) % 12) + 1 /\ ((k + 2) % 12) + 1 # ((k + 1) % 12) + 1
  <1> DEFINE i == k + 1  j == k + 2
  <1>1. i \in Int /\ j \in Int /\ i + 1 = k + 2 /\ j + 1 = k + 3
    OBVIOUS
  <1>2. /\ MonthStart(k) \in Int /\ LengthOf(k) \in 28..31
        /\ MonthStart(i) = MonthStart(k) + LengthOf(k)
    BY MonthStarts
  <1> HIDE DEF i, j
  <1>3. /\ MonthStart(i) \in Int /\ LengthOf(i) \in 28..31
        /\ MonthStart(i + 1) = MonthStart(i) + LengthOf(i)
    BY <1>1, MonthStarts
  <1>4. /\ MonthStart(j) \in Int /\ LengthOf(j) \in 28..31
        /\ MonthStart(j + 1) = MonthStart(j) + LengthOf(j)
    BY <1>1, MonthStarts
  <1>5. MonthStart(j + 1) \in Int
    BY <1>4
  <1>6. /\ (((k % 12) + 1) % 12) + 1 = ((k + 1) % 12) + 1
        /\ (k % 12) + 1 # ((k + 1) % 12) + 1 /\ ((k + 2) % 12) + 1 # ((k + 1) % 12) + 1
    OBVIOUS
  <1>7. QED
    BY <1>1, <1>2, <1>3, <1>4, <1>5, <1>6 DEF i, j

\* "the 3rd" is the soonest third of a month.
LEMMA TheNthIsSoonest ==
  ASSUME NEW today \in Int, NEW n \in 1..28
  PROVE  LET d == TheNth(today, n)
         IN  d >= today /\ DayInMonth(d) = n /\ \A e \in today..(d - 1) : DayInMonth(e) # n
  <1> DEFINE k == MonthIndex(today)
             d == TheNth(today, n)
  <1>1. /\ k \in Int /\ d \in Int /\ today <= d
        /\ MonthStart(k) <= today /\ today < MonthStart(k + 1)
        /\ MonthStart(k) + n - 1 < today => d = MonthStart(k + 1) + n - 1
        /\ ~(MonthStart(k) + n - 1 < today) => d = MonthStart(k) + n - 1
    <2>1. n \in 1..31
      OBVIOUS
    <2>2. QED
      BY <2>1, TheNthIs
  <1> HIDE DEF k, d
  <1>2. /\ MonthStart(k) \in Int /\ MonthStart(k + 1) \in Int /\ MonthStart(k + 2) \in Int
        /\ LengthOf(k) \in 28..31 /\ LengthOf(k + 1) \in 28..31
        /\ MonthStart(k + 1) = MonthStart(k) + LengthOf(k)
        /\ MonthStart(k + 2) = MonthStart(k + 1) + LengthOf(k + 1)
    BY <1>1, ThreeMonths
  <1>3. ASSUME NEW e \in Int, MonthStart(k) <= e, e < MonthStart(k + 1)
        PROVE  DayInMonth(e) = e - MonthStart(k) + 1
    BY <1>1, <1>3, InMonth
  <1>4. ASSUME NEW e \in Int, MonthStart(k + 1) <= e, e < MonthStart(k + 2)
        PROVE  DayInMonth(e) = e - MonthStart(k + 1) + 1
    <2> DEFINE j == k + 1
    <2>1. j \in Int /\ j + 1 = k + 2
      BY <1>1
    <2> HIDE DEF j
    <2>2. MonthStart(j) <= e /\ e < MonthStart(j + 1)
      BY <1>4, <2>1 DEF j
    <2>3. DayInMonth(e) = e - MonthStart(j) + 1
      BY <2>1, <2>2, InMonth
    <2>4. QED
      BY <2>3 DEF j
  <1>5. CASE ~(MonthStart(k) + n - 1 < today)
    <2>1. d = MonthStart(k) + n - 1 /\ d < MonthStart(k + 1)
      BY <1>1, <1>2, <1>5
    <2>2. DayInMonth(d) = n
      BY <1>1, <1>2, <1>3, <2>1
    <2>3. ASSUME NEW e \in today..(d - 1)
          PROVE  DayInMonth(e) # n
      <3>1. e \in Int /\ MonthStart(k) <= e /\ e < d
        BY <1>1, <1>2
      <3>2. DayInMonth(e) = e - MonthStart(k) + 1
        BY <1>2, <1>1, <1>3, <2>1, <3>1
      <3>3. QED
        BY <1>2, <2>1, <3>1, <3>2
    <2>4. QED
      BY <1>1, <2>2, <2>3 DEF d
  <1>6. CASE MonthStart(k) + n - 1 < today
    <2>1. d = MonthStart(k + 1) + n - 1 /\ d < MonthStart(k + 2) /\ MonthStart(k + 1) <= d
      BY <1>1, <1>2, <1>6
    <2>2. DayInMonth(d) = n
      BY <1>1, <1>2, <1>4, <2>1
    <2>3. ASSUME NEW e \in today..(d - 1)
          PROVE  DayInMonth(e) # n
      <3>1. e \in Int /\ today <= e /\ e < d
        BY <1>1
      <3>2. CASE e < MonthStart(k + 1)
        <4>1. DayInMonth(e) = e - MonthStart(k) + 1
          BY <1>1, <1>2, <1>3, <3>1, <3>2
        <4>2. QED
          BY <1>2, <1>6, <3>1, <4>1
      <3>3. CASE MonthStart(k + 1) <= e
        <4>1. DayInMonth(e) = e - MonthStart(k + 1) + 1
          BY <1>1, <1>2, <1>4, <2>1, <3>1, <3>3
        <4>2. QED
          BY <1>2, <2>1, <3>1, <4>1
      <3>4. QED
        BY <1>2, <3>1, <3>2, <3>3
    <2>4. QED
      BY <1>1, <2>2, <2>3 DEF d
  <1>7. QED
    BY <1>5, <1>6

\* "5 March" is the soonest one.
LEMMA MonthDayIsSoonest ==
  ASSUME NEW today \in Int, NEW m \in Months, NEW n \in 1..MonthLength[m]
  PROVE  LET d == MonthDay(today, m, n)
         IN  /\ d >= today /\ MonthOf(d) = m /\ DayInMonth(d) = n
             /\ \A e \in today..(d - 1) : ~(MonthOf(e) = m /\ DayInMonth(e) = n)
  <1> DEFINE y == YearOf(today)
             d == MonthDay(today, m, n)
             D(z) == DateAt(z, m, n)
  <1>1. m \in 1..12 /\ MonthLength[m] \in 28..31 /\ n \in 1..31
    <2>1. m \in 1..12 /\ MonthLength[m] \in 28..31
      BY MonthLengths
    <2>2. QED
      BY <2>1
  <1>2. /\ y \in Int /\ d \in Int /\ today <= d
        /\ \A z \in Int : D(z) \in Int
        /\ \A z, u \in Int : z < u => D(z) + YearLength <= D(u)
        /\ D(y) < today => d = D(y + 1)
        /\ ~(D(y) < today) => d = D(y)
    BY <1>1, MonthDayIs
  <1>3. YearLength \in Nat
    BY DaysBeforeGrows
  <1>4. ASSUME NEW z \in Int
        PROVE  LET k == 12 * z + m - 1
               IN  /\ k \in Int /\ k \div 12 = z /\ (k % 12) + 1 = m
                   /\ MonthStart(k) \in Int /\ D(z) = MonthStart(k) + n - 1
                   /\ MonthStart(k) <= D(z) /\ D(z) < MonthStart(k + 1)
    <2> DEFINE k == 12 * z + m - 1
    <2>1. k \in Int /\ k \div 12 = z /\ (k % 12) + 1 = m
      <3>1. \A a \in Int : \A b \in 1..12 : /\ 12 * a + b - 1 \in Int
                                            /\ (12 * a + b - 1) \div 12 = a
                                            /\ ((12 * a + b - 1) % 12) + 1 = b
        OBVIOUS
      <3>2. QED
        BY <1>1, <3>1
    <2> HIDE DEF k
    <2>2. /\ MonthStart(k) \in Int /\ LengthOf(k) = MonthLength[m]
          /\ MonthStart(k + 1) = MonthStart(k) + LengthOf(k)
      BY <2>1, MonthStarts DEF LengthOf
    <2>3. D(z) = MonthStart(k) + n - 1
      <3> DEFINE b == z * YearLength  c == DaysBefore[m]
      <3>1. b \in Int /\ c \in Int
        BY <1>1, <1>3, DaysBeforeGrows
      <3>2. MonthStart(k) = b + c + 1 - 1 /\ D(z) = b + c + n - 1
        BY <2>1 DEF MonthStart, DateAt
      <3> HIDE DEF b, c, D
      <3>3. QED
        BY <1>1, <3>1, <3>2
    <2> HIDE DEF D
    <2>4. MonthStart(k) <= D(z) /\ D(z) < MonthStart(k + 1)
      BY <1>1, <2>2, <2>3
    <2>5. QED
      BY <2>1, <2>2, <2>3, <2>4 DEF k
  <1>5. ASSUME NEW z \in Int
        PROVE  MonthOf(D(z)) = m /\ DayInMonth(D(z)) = n
    <2> DEFINE k == 12 * z + m - 1
    <2>1. /\ k \in Int /\ (k % 12) + 1 = m /\ D(z) \in Int
          /\ MonthStart(k) \in Int /\ D(z) = MonthStart(k) + n - 1
          /\ MonthStart(k) <= D(z) /\ D(z) < MonthStart(k + 1)
      BY <1>2, <1>4
    <2> HIDE DEF k, D
    <2>2. MonthOf(D(z)) = (k % 12) + 1 /\ DayInMonth(D(z)) = D(z) - MonthStart(k) + 1
      BY <2>1, InMonth
    <2>3. QED
      BY <1>1, <2>1, <2>2
  <1>6. ASSUME NEW e \in Int, MonthOf(e) = m, DayInMonth(e) = n
        PROVE  YearOf(e) \in Int /\ e = D(YearOf(e))
    <2> DEFINE z == YearOf(e)  k == MonthIndex(e)
    <2>1. z \in Int /\ k \in Int /\ k = 12 * z + m - 1 /\ e = MonthStart(k) + n - 1
      BY <1>6, DateParts, DayInMonthIs DEF MonthIndex
    <2> HIDE DEF z, k, D
    <2>2. D(z) = MonthStart(k) + n - 1
      BY <1>4, <2>1
    <2>3. QED
      BY <2>1, <2>2 DEF z
  <1> HIDE DEF y, d, D
  <1>7. d = D(y) \/ d = D(y + 1)
    BY <1>2
  <1>8. MonthOf(d) = m /\ DayInMonth(d) = n
    <2>1. y + 1 \in Int
      BY <1>2
    <2>2. QED
      BY <1>2, <1>5, <1>7, <2>1
  <1>9. ASSUME NEW e \in today..(d - 1), MonthOf(e) = m, DayInMonth(e) = n
        PROVE  FALSE
    <2> DEFINE z == YearOf(e)
    <2>1. e \in Int /\ today <= e /\ e < d
      BY <1>2
    <2>2. z \in Int /\ e = D(z) /\ y <= z
      BY <1>6, <1>9, <2>1, YearsInOrder DEF y
    <2> HIDE DEF z
    <2>3. /\ D(y) \in Int /\ D(z) \in Int /\ D(y + 1) \in Int
          /\ y < z => D(y) + YearLength <= D(z)
          /\ y + 1 < z => D(y + 1) + YearLength <= D(z)
      <3>1. y + 1 \in Int
        BY <1>2
      <3>2. QED
        BY <1>2, <2>2, <3>1
    <2>4. CASE D(y) < today
      <3>1. d = D(y + 1)
        BY <1>2, <2>4
      <3>2. z = y \/ z = y + 1 \/ y + 1 < z
        BY <1>2, <2>2
      <3>3. QED
        BY <1>2, <1>3, <2>1, <2>2, <2>3, <2>4, <3>1, <3>2
    <2>5. CASE ~(D(y) < today)
      <3>1. d = D(y)
        BY <1>2, <2>5
      <3>2. z = y \/ y < z
        BY <1>2, <2>2
      <3>3. QED
        BY <1>2, <1>3, <2>1, <2>2, <2>3, <3>1, <3>2
    <2>6. QED
      BY <2>4, <2>5
  <1>10. QED
    BY <1>2, <1>8, <1>9 DEF d

\* Where the days of next month are: after those of this one, before those of the
\* month that follows.
LEMMA NextMonthDays ==
  ASSUME NEW today \in Int
  PROVE  LET k    == MonthIndex(today)
             In(d) == MonthOf(d) = (MonthOf(today) % 12) + 1
         IN  /\ MonthStart(k + 1) \in Int /\ MonthStart(k + 2) \in Int
             /\ today < MonthStart(k + 1) /\ LengthOf(k + 1) \in 28..31
             /\ MonthStart(k + 2) = MonthStart(k + 1) + LengthOf(k + 1)
             /\ \A e \in today..(MonthStart(k + 1) - 1) : ~In(e)
             /\ \A e \in MonthStart(k + 1)..(MonthStart(k + 2) - 1) :
                  In(e) /\ DayInMonth(e) = e - MonthStart(k + 1) + 1
             /\ ~In(MonthStart(k + 2))
  <1> DEFINE k == MonthIndex(today)
             In(d) == MonthOf(d) = (MonthOf(today) % 12) + 1
  <1>1. /\ k \in Int /\ MonthOf(today) = (k % 12) + 1
        /\ MonthStart(k) <= today /\ today < MonthStart(k + 1)
    BY DateParts
  <1> HIDE DEF k
  <1>2. /\ MonthStart(k) \in Int /\ MonthStart(k + 1) \in Int /\ MonthStart(k + 2) \in Int
        /\ MonthStart(k + 3) \in Int
        /\ LengthOf(k + 1) \in 28..31 /\ LengthOf(k + 2) \in 28..31
        /\ MonthStart(k + 2) = MonthStart(k + 1) + LengthOf(k + 1)
        /\ MonthStart(k + 3) = MonthStart(k + 2) + LengthOf(k + 2)
    BY <1>1, ThreeMonths
  <1>3. (MonthOf(today) % 12) + 1 = ((k + 1) % 12) + 1
    BY <1>1, ThreeMonths
  <1>4. (k % 12) + 1 # ((k + 1) % 12) + 1 /\ ((k + 2) % 12) + 1 # ((k + 1) % 12) + 1
    BY <1>1, ThreeMonths
  <1>5. ASSUME NEW e \in today..(MonthStart(k + 1) - 1)
        PROVE  ~In(e)
    <2>1. e \in Int /\ MonthStart(k) <= e /\ e < MonthStart(k + 1)
      BY <1>1, <1>2
    <2>2. MonthOf(e) = (k % 12) + 1
      BY <1>1, <2>1, InMonth
    <2>3. QED
      BY <1>3, <1>4, <2>2
  <1>6. ASSUME NEW e \in MonthStart(k + 1)..(MonthStart(k + 2) - 1)
        PROVE  In(e) /\ DayInMonth(e) = e - MonthStart(k + 1) + 1
    <2> DEFINE j == k + 1
    <2>1. j \in Int /\ j + 1 = k + 2
      BY <1>1
    <2>2. e \in Int /\ MonthStart(k + 1) <= e /\ e < MonthStart(k + 2)
      BY <1>2
    <2> HIDE DEF j
    <2>3. MonthStart(j) <= e /\ e < MonthStart(j + 1)
      BY <2>1, <2>2 DEF j
    <2>4. MonthOf(e) = (j % 12) + 1 /\ DayInMonth(e) = e - MonthStart(j) + 1
      BY <2>1, <2>2, <2>3, InMonth
    <2>5. QED
      BY <1>3, <2>4 DEF j
  <1>7. ~In(MonthStart(k + 2))
    <2> DEFINE j == k + 2  e == MonthStart(j)
    <2>1. j \in Int /\ j + 1 = k + 3
      BY <1>1
    <2>2. e \in Int /\ e < MonthStart(k + 3)
      BY <1>2
    <2> HIDE DEF j, e
    <2>3. MonthStart(j) <= e /\ e < MonthStart(j + 1)
      BY <2>1, <2>2 DEF e
    <2>4. MonthOf(e) = (j % 12) + 1
      BY <2>1, <2>2, <2>3, InMonth
    <2>5. QED
      BY <1>3, <1>4, <2>4 DEF j, e
  <1>8. QED
    BY <1>1, <1>2, <1>5, <1>6, <1>7 DEF k

\* A month on is in the next month, on the same day if it has one and else on its last.
LEMMA AMonthOn ==
  ASSUME NEW today \in Int
  PROVE  LET d    == PlusMonths(today, 1)
             In(e) == MonthOf(e) = (MonthOf(today) % 12) + 1
         IN  In(d) /\ (DayInMonth(d) = DayInMonth(today) \/ ~In(d + 1))
  <1> DEFINE k == MonthIndex(today)  d == PlusMonths(today, 1)
             s == MonthStart(k + 1)  l == LengthOf(k + 1)
             i == LesserOf(DayInMonth(today), l)
             In(e) == MonthOf(e) = (MonthOf(today) % 12) + 1
  <1>1. d = s + i - 1
    BY PlusMonthsIs
  <1>2. /\ s \in Int /\ l \in 28..31 /\ MonthStart(k + 2) = s + l
        /\ \A e \in s..(s + l - 1) : In(e) /\ DayInMonth(e) = e - s + 1
        /\ ~In(s + l)
    <2>1. /\ s \in Int /\ l \in 28..31 /\ MonthStart(k + 2) = s + l
          /\ \A e \in s..(MonthStart(k + 2) - 1) : In(e) /\ DayInMonth(e) = e - s + 1
          /\ ~In(MonthStart(k + 2))
      BY NextMonthDays
    <2> HIDE DEF k, s, l, In
    <2>2. QED
      BY <2>1
  <1>3. DayInMonth(today) \in Int /\ DayInMonth(today) >= 1
    <2>1. k \in Int /\ MonthStart(k) <= today /\ DayInMonth(today) = today - MonthStart(k) + 1
      BY DateParts
    <2>2. MonthStart(k) \in Int
      BY <2>1, MonthStarts
    <2> HIDE DEF k
    <2>3. QED
      BY <2>1, <2>2
  <1> HIDE DEF k, d, s, l, In
  <1>4. i \in 1..l /\ (i = DayInMonth(today) \/ i = l)
    BY <1>2, <1>3 DEF LesserOf
  <1> HIDE DEF i
  <1>5. d \in s..(s + l - 1) /\ d - s + 1 = i /\ (i = l => d + 1 = s + l)
    BY <1>1, <1>2, <1>4
  <1>6. In(d) /\ DayInMonth(d) = i
    BY <1>2, <1>5
  <1>7. DayInMonth(d) = DayInMonth(today) \/ ~In(d + 1)
    BY <1>2, <1>4, <1>5, <1>6
  <1>8. QED
    BY <1>6, <1>7 DEF d, In

\* The days named are those the words mean.
THEOREM DaysAreMeant ==
  ASSUME DatesExist
  PROVE  Spec => []NamedDayIsMeant
  <1>1. ASSUME Resolved, Found
        PROVE  /\ phrase \in Phrases /\ phrase.date \in Date /\ Today \in Int
               /\ phrase.date.kind # "none" =>
                    /\ First = Dated(phrase.date, Today).first
                    /\ Last = Dated(phrase.date, Today).last
    <2>1. /\ phrase \in Phrases /\ Today \in Int
          /\ First = DaysAt(phrase, now).first /\ Last = DaysAt(phrase, now).last
      BY <1>1, FoundIs
    <2>2. phrase.date.kind # "none" => DaysAt(phrase, now) = Dated(phrase.date, Today)
      BY DEF DaysAt, Today
    <2>3. QED
      BY <2>1, <2>2, PhrasesAssumption
  <1>2. ASSUME NEW a, NEW b, Resolved, Found, phrase.date.kind # "none",
               Dated(phrase.date, Today) = Day(a) \/ Dated(phrase.date, Today) = Span(a, b)
        PROVE  First = a /\ (Dated(phrase.date, Today) = Span(a, b) => Last = b)
    BY <1>1, <1>2 DEF Day, Span
  <1>3. ASSUME Resolved, Found, phrase.date.kind = "weekday"
        PROVE  LET IsWeekday(d) == Weekday(d) = phrase.date.weekday
               IN  /\ ~phrase.date.next => Soonest(First, Today + 1, IsWeekday)
                   /\ phrase.date.next => IsWeekday(First) /\ Monday(First) = Monday(Today) + 7
    <2> DEFINE w == phrase.date.weekday  d == NamedWeekday(Today, w, phrase.date.next)
    <2>1. Today \in Int /\ w \in 0..6 /\ phrase.date.next \in BOOLEAN
      BY <1>1, <1>3, DateHolds
    <2>2. First = d
      <3>1. Dated(phrase.date, Today) = Day(d)
        BY <1>3, DatedWeekday
      <3>2. QED
        BY <1>2, <1>3, <3>1
    <2>3. CASE phrase.date.next
      <3>1. d = NamedWeekday(Today, w, TRUE)
        BY <2>1, <2>3
      <3>2. Weekday(d) = w /\ Monday(d) = Monday(Today) + 7
        BY <2>1, <3>1, NextNamedWeekday
      <3>3. QED
        BY <2>2, <2>3, <3>2
    <2>4. CASE ~phrase.date.next
      <3> DEFINE e == NextWeekday(Today, w, FALSE)
      <3>1. d = e
        BY <2>4 DEF NamedWeekday
      <3>2. /\ e \in (Today + 1)..(Today + 7) /\ Weekday(e) = w
            /\ \A f \in (Today + 1)..(e - 1) : Weekday(f) # w
        BY <2>1, NextWeekdayIs
      <3> HIDE DEF d, e
      <3>3. First = e /\ e >= Today + 1
        BY <2>1, <2>2, <3>1, <3>2
      <3>4. QED
        BY <2>4, <3>2, <3>3 DEF Soonest
    <2>5. QED
      BY <2>3, <2>4
  <1>4. ASSUME Resolved, Found, phrase.date.kind = "week_from"
        PROVE  LET IsWeekday(d) == Weekday(d) = phrase.date.weekday
               IN  Soonest(First - 7, Today + 1, IsWeekday)
    <2> DEFINE w == phrase.date.weekday  e == NextWeekday(Today, w, FALSE)
    <2>1. Today \in Int /\ w \in 0..6
      BY <1>1, <1>4, DateHolds
    <2>2. First = e + 7
      <3>1. Dated(phrase.date, Today) = Day(e + 7)
        BY <1>4, DatedWeekFrom
      <3>2. QED
        BY <1>2, <1>4, <3>1
    <2>3. /\ e \in (Today + 1)..(Today + 7) /\ Weekday(e) = w
          /\ \A f \in (Today + 1)..(e - 1) : Weekday(f) # w
      BY <2>1, NextWeekdayIs
    <2> HIDE DEF e
    <2>4. First - 7 = e /\ e >= Today + 1
      BY <2>1, <2>2, <2>3
    <2>5. QED
      BY <2>3, <2>4 DEF Soonest
  <1>5. ASSUME Resolved, Found, phrase.date.kind = "nth", phrase.date.n <= 28
        PROVE  LET IsNth(d) == DayInMonth(d) = phrase.date.n
               IN  Soonest(First, Today, IsNth)
    <2> DEFINE n == phrase.date.n  d == TheNth(Today, n)
    <2>1. Today \in Int /\ n \in 1..28
      BY <1>1, <1>5, DateHolds
    <2>2. First = d
      <3>1. Dated(phrase.date, Today) = Day(d)
        BY <1>5, DatedNth
      <3>2. QED
        BY <1>2, <1>5, <3>1
    <2>3. d >= Today /\ DayInMonth(d) = n /\ \A e \in Today..(d - 1) : DayInMonth(e) # n
      BY <2>1, TheNthIsSoonest
    <2>4. QED
      BY <2>2, <2>3 DEF Soonest
  <1>6. ASSUME Resolved, Found, phrase.date.kind = "month_day"
        PROVE  LET IsDate(d) == MonthOf(d) = phrase.date.month /\ DayInMonth(d) = phrase.date.n
               IN  Soonest(First, Today, IsDate)
    <2> DEFINE m == phrase.date.month  n == phrase.date.n  d == MonthDay(Today, m, n)
    <2>1. Today \in Int /\ m \in Months /\ n \in 1..31 /\ n <= MonthLength[m]
      <3>1. Today \in Int /\ m \in Months /\ n \in 1..31
        BY <1>1, <1>6, DateHolds
      <3>2. n <= MonthLength[m]
        BY <1>1, <1>6 DEF DatesExist
      <3>3. QED
        BY <3>1, <3>2
    <2>2. n \in 1..MonthLength[m]
      <3>1. MonthLength[m] \in 28..31
        BY <2>1, MonthLengths
      <3>2. QED
        BY <2>1, <3>1
    <2>3. First = d
      <3>1. Dated(phrase.date, Today) = Day(d)
        BY <1>6, DatedMonthDay
      <3>2. QED
        BY <1>2, <1>6, <3>1
    <2>4. /\ d >= Today /\ MonthOf(d) = m /\ DayInMonth(d) = n
          /\ \A e \in Today..(d - 1) : ~(MonthOf(e) = m /\ DayInMonth(e) = n)
      BY <2>1, <2>2, MonthDayIsSoonest
    <2>5. QED
      BY <2>3, <2>4 DEF Soonest
  <1>7. ASSUME Resolved, Found, phrase.date.kind = "weekend"
        PROVE  LET IsSaturday(d) == Weekday(d) = 6
               IN  Soonest(First, Today, IsSaturday) /\ Last = First + 1
    <2> DEFINE e == NextWeekday(Today, 6, TRUE)
    <2>1. Today \in Int /\ 6 \in 0..6
      BY <1>1, <1>7
    <2>2. First = e /\ Last = e + 1
      <3>1. Dated(phrase.date, Today) = Span(e, e + 1)
        BY <1>7, DatedWeekend
      <3>2. QED
        BY <1>2, <1>7, <3>1
    <2>3. /\ e \in Today..(Today + 7) /\ Weekday(e) = 6
          /\ \A f \in Today..(e - 1) : Weekday(f) # 6
      BY <2>1, NextWeekdayIs
    <2> HIDE DEF e
    <2>4. e >= Today
      BY <2>1, <2>3
    <2>5. QED
      BY <2>2, <2>3, <2>4 DEF Soonest
  <1>8. ASSUME Resolved, Found, phrase.date.kind = "next_week"
        PROVE  First = Monday(Today) + 7 /\ Weekday(Last) = 0 /\ Last = First + 6
    <2> DEFINE m == Monday(Today + 7)
    <2>1. Today \in Int /\ Today + 7 \in Int
      BY <1>1, <1>8
    <2>2. First = m /\ Last = m + 6
      <3>1. Dated(phrase.date, Today) = Span(m, m + 6)
        BY <1>8, DatedNextWeek
      <3>2. QED
        BY <1>2, <1>8, <3>1
    <2>3. m = Monday(Today) + 7 /\ Weekday(m + 6) = 0
      BY <2>1, MondayIs
    <2>4. QED
      BY <2>2, <2>3
  <1>9. ASSUME Resolved, Found, phrase.date.kind = "this_week"
        PROVE  First = Today /\ Weekday(Last) = 0 /\ Last < Today + 7
    <2> DEFINE m == Monday(Today)
    <2>1. Today \in Int
      BY <1>1, <1>9
    <2>2. First = Today /\ Last = m + 6
      <3>1. Dated(phrase.date, Today) = Span(Today, m + 6)
        BY <1>9, DatedThisWeek
      <3>2. QED
        BY <1>2, <1>9, <3>1
    <2>3. m \in Int /\ m <= Today /\ Weekday(m + 6) = 0
      BY <2>1, MondayIs
    <2> HIDE DEF m
    <2>4. QED
      BY <2>1, <2>2, <2>3
  <1>10. ASSUME Resolved, Found, phrase.date.kind = "next_month"
         PROVE  LET InNextMonth(d) == MonthOf(d) = (MonthOf(Today) % 12) + 1
                IN  Soonest(First, Today, InNextMonth) /\ InNextMonth(Last) /\ ~InNextMonth(Last + 1)
    <2> DEFINE k == MonthIndex(Today)  s == MonthStart(k + 1)  u == MonthStart(k + 2)
               In(d) == MonthOf(d) = (MonthOf(Today) % 12) + 1
    <2>1. Today \in Int
      BY <1>1, <1>10
    <2>2. First = s /\ Last = u - 1
      <3> DEFINE to == MonthsOn(PlusMonths(Today, 1), 0)
                 a == DateAt(to.year, to.month, 1)
                 b == DateAt(to.year, to.month, MonthLength[to.month])
      <3>1. a = s /\ b = u - 1
        BY <2>1, NextMonthIs
      <3>2. Dated(phrase.date, Today) = Span(a, b)
        BY <1>10, DatedNextMonth
      <3> HIDE DEF a, b, s, u
      <3>3. First = a /\ Last = b
        BY <1>2, <1>10, <3>2
      <3>4. QED
        BY <3>1, <3>3
    <2>3. /\ s \in Int /\ u \in Int /\ Today < s /\ s < u
          /\ \A e \in Today..(s - 1) : ~In(e)
          /\ \A e \in s..(u - 1) : In(e)
          /\ ~In(u)
      <3>1. /\ s \in Int /\ u \in Int /\ Today < s
            /\ LengthOf(k + 1) \in 28..31 /\ u = s + LengthOf(k + 1)
            /\ \A e \in Today..(s - 1) : ~In(e)
            /\ \A e \in s..(u - 1) : In(e)
            /\ ~In(u)
        BY <2>1, NextMonthDays
      <3> HIDE DEF k, s, u, In
      <3>2. s < u
        BY <3>1
      <3>3. QED
        BY <3>1, <3>2
    <2> HIDE DEF k, s, u, In
    <2>4. s \in s..(u - 1) /\ u - 1 \in s..(u - 1) /\ u - 1 + 1 = u /\ s >= Today
      BY <2>1, <2>3
    <2>5. /\ s >= Today /\ In(s) /\ \A e \in Today..(s - 1) : ~In(e)
          /\ In(u - 1) /\ ~In(u - 1 + 1)
      BY <2>3, <2>4
    <2>6. QED
      BY <2>2, <2>5 DEF Soonest, In
  <1>11. ASSUME Resolved, Found, phrase.date.kind = "in_months", phrase.date.n = 1
         PROVE  LET InNextMonth(d) == MonthOf(d) = (MonthOf(Today) % 12) + 1
                IN  /\ InNextMonth(First)
                    /\ DayInMonth(First) = DayInMonth(Today) \/ ~InNextMonth(First + 1)
    <2> DEFINE d == PlusMonths(Today, 1)
    <2>1. Today \in Int
      BY <1>1, <1>11
    <2>2. First = d
      <3> DEFINE e == PlusMonths(Today, phrase.date.n)
      <3>1. Dated(phrase.date, Today) = Span(e, e + 6)
        BY <1>11, DatedInMonths
      <3>2. e = d
        BY <1>11
      <3> HIDE DEF e
      <3>3. First = e
        BY <1>2, <1>11, <3>1
      <3>4. QED
        BY <3>2, <3>3
    <2>3. QED
      BY <2>1, <2>2, AMonthOn
  <1>12. Resolved => NamedDayIsMeant
    <2> SUFFICES ASSUME Resolved, Found
                 PROVE  NamedDayIsMeant
      BY DEF NamedDayIsMeant
    <2> HIDE DEF Resolved, Found
    <2>1. QED
      BY <1>3, <1>4, <1>5, <1>6, <1>7, <1>8, <1>9, <1>10, <1>11 DEF NamedDayIsMeant, Soonest
  <1>13. QED
    BY <1>12, AlwaysResolved, PTL
=============================================================================
