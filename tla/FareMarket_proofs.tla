--------------------------- MODULE FareMarket_proofs ---------------------------
(* Proofs about FareMarket: the calendar and the windows, for every date; the *)
(* best offers, and the changes recorded of each flight, for every route,     *)
(* identity setting and order of polls.                                       *)
EXTENDS FareMarket, Ordering_proofs, SequenceTheorems

(* The days before a month, without the leap day. *)
LEMMA DaysBeforeMonths ==
    ASSUME NEW m \in 1 .. 12
    PROVE  /\ DaysBefore[m] \in Nat
           /\ m < 12 =>
                DaysBefore[m + 1] = DaysBefore[m]
                   + CASE m = 2 -> 28 [] m \in {4, 6, 9, 11} -> 30 [] OTHER -> 31
<1>1. m \in {1, 2, 3, 4, 5, 6, 7, 8, 9, 10, 11, 12}
  OBVIOUS
<1>2. QED
  BY <1>1 DEF DaysBefore

(* A month is not empty, and no longer than a record of a day allows.        *)
LEMMA MonthLengths ==
    ASSUME NEW y, NEW m
    PROVE  MonthLength(y, m) \in 28 .. 31
  BY DEF MonthLength

(* Months follow one another: what begins a month is the day after the last  *)
(* of the month before, in leap years too.                                   *)
LEMMA MonthsFollow ==
    ASSUME NEW y \in Nat \ {0}, NEW m \in 1 .. 11
    PROVE  FirstOfMonth(y, m + 1) = FirstOfMonth(y, m) + MonthLength(y, m)
<1>1. PICK past \in Int : past = 365 * (y - 1) + (y - 1) \div 4 - (y - 1) \div 100 + (y - 1) \div 400
  OBVIOUS
<1>2. \A k : FirstOfMonth(y, k)
                = past + DaysBefore[k] + (IF k > 2 /\ Leap(y) THEN 1 ELSE 0) + 1
  BY <1>1 DEF FirstOfMonth
<1>3. /\ DaysBefore[m] \in Nat
      /\ DaysBefore[m + 1] = DaysBefore[m]
            + CASE m = 2 -> 28 [] m \in {4, 6, 9, 11} -> 30 [] OTHER -> 31
  BY DaysBeforeMonths
<1>4. MonthLength(y, m) + (IF m > 2 /\ Leap(y) THEN 1 ELSE 0)
         = (CASE m = 2 -> 28 [] m \in {4, 6, 9, 11} -> 30 [] OTHER -> 31)
              + (IF m + 1 > 2 /\ Leap(y) THEN 1 ELSE 0)
  BY DEF MonthLength
<1>5. MonthLength(y, m) \in Int
  BY MonthLengths
<1>6. QED
  BY <1>1, <1>2, <1>3, <1>4, <1>5

(* So do years. *)
LEMMA YearsFollow ==
    ASSUME NEW y \in Nat \ {0}
    PROVE  FirstOfMonth(y + 1, 1) = FirstOfMonth(y, 12) + MonthLength(y, 12)
<1> DEFINE Leaps(n) == n \div 4 - n \div 100 + n \div 400
<1>1. Leaps(y) = Leaps(y - 1) + IF Leap(y) THEN 1 ELSE 0
  <2>1. PICK x \in Nat : y = x + 1
    <3>1. y - 1 \in Nat /\ y = (y - 1) + 1
      OBVIOUS
    <3>2. QED
      BY <3>1
  <2>2. /\ (x + 1) \div 4 = x \div 4 + IF (x + 1) % 4 = 0 THEN 1 ELSE 0
        /\ (x + 1) \div 100 = x \div 100 + IF (x + 1) % 100 = 0 THEN 1 ELSE 0
        /\ (x + 1) \div 400 = x \div 400 + IF (x + 1) % 400 = 0 THEN 1 ELSE 0
    OBVIOUS
  <2>3. /\ (x + 1) % 400 = 0 => (x + 1) % 100 = 0
        /\ (x + 1) % 100 = 0 => (x + 1) % 4 = 0
    OBVIOUS
  <2>4. QED
    BY <2>1, <2>2, <2>3 DEF Leap
<1>2. FirstOfMonth(y + 1, 1) = 365 * y + Leaps(y) + 1
  BY DEF FirstOfMonth, DaysBefore
<1>3. FirstOfMonth(y, 12) = 365 * (y - 1) + Leaps(y - 1) + 334 + (IF Leap(y) THEN 1 ELSE 0) + 1
  BY DEF FirstOfMonth, DaysBefore
<1>4. MonthLength(y, 12) = 31
  BY DEF MonthLength
<1>5. Leaps(y) \in Int /\ Leaps(y - 1) \in Int
  OBVIOUS
<1> HIDE DEF Leaps
<1>6. QED
  BY <1>1, <1>2, <1>3, <1>4, <1>5

(* The first day of a month has an ordinal, and so has every day.            *)
LEMMA Ordinals ==
    /\ \A y \in Nat \ {0}, m \in 1 .. 12 : FirstOfMonth(y, m) \in Int
    /\ \A d \in CalendarDay : Ordinal(d) \in Int
<1>1. ASSUME NEW y \in Nat \ {0}, NEW m \in 1 .. 12 PROVE FirstOfMonth(y, m) \in Int
  BY DaysBeforeMonths DEF FirstOfMonth
<1>2. ASSUME NEW d \in CalendarDay PROVE Ordinal(d) \in Int
  BY <1>1 DEF CalendarDay, Ordinal
<1>3. QED
  BY <1>1, <1>2

(* The three ways a day is followed by another. *)
LEMMA DaysFollow ==
    ASSUME NEW d \in CalendarDay
    PROVE  /\ DayAfter(d) \in CalendarDay
           /\ Ordinal(DayAfter(d)) = Ordinal(d) + 1
           /\ MonthMovesOn(d, DayAfter(d))
<1> DEFINE e == DayAfter(d)
<1>1. /\ d.year \in Nat \ {0} /\ d.month \in 1 .. 12 /\ d.day \in 1 .. 31
      /\ d.day <= MonthLength(d.year, d.month)
      /\ d = [year |-> d.year, month |-> d.month, day |-> d.day]
  BY DEF CalendarDay
<1>2. MonthLength(d.year, d.month) \in 28 .. 31
  BY MonthLengths
<1>3. FirstOfMonth(d.year, d.month) \in Int
  BY <1>1, Ordinals
<1>4. CASE d.day < MonthLength(d.year, d.month)
  <2>1. e = [d EXCEPT !.day = d.day + 1]
    BY <1>1, <1>2, <1>4 DEF DayAfter
  <2>2. e = [year |-> d.year, month |-> d.month, day |-> d.day + 1]
    BY <1>1, <2>1
  <2>3. d.day + 1 \in 1 .. 31 /\ d.day + 1 <= MonthLength(d.year, d.month)
    BY <1>1, <1>2, <1>4
  <2>4. e \in CalendarDay
    BY <1>1, <2>2, <2>3 DEF CalendarDay
  <2>5. Ordinal(e) = Ordinal(d) + 1
    BY <1>1, <1>3, <2>2 DEF Ordinal
  <2>6. MonthMovesOn(d, e)
    BY <2>2 DEF MonthMovesOn, NextMonth
  <2>7. QED
    BY <2>4, <2>5, <2>6
<1>5. CASE d.day = MonthLength(d.year, d.month) /\ d.month < 12
  <2>1. e = [d EXCEPT !.month = d.month + 1, !.day = 1]
    BY <1>2, <1>5 DEF DayAfter
  <2>2. e = [year |-> d.year, month |-> d.month + 1, day |-> 1]
    BY <1>1, <2>1
  <2>3. d.month + 1 \in 1 .. 12 /\ d.month \in 1 .. 11 /\ d.month # 12
    BY <1>1, <1>5
  <2>4. 1 <= MonthLength(d.year, d.month + 1)
    BY MonthLengths
  <2>5. e \in CalendarDay
    BY <1>1, <2>2, <2>3, <2>4 DEF CalendarDay
  <2>6. FirstOfMonth(d.year, d.month + 1) = FirstOfMonth(d.year, d.month) + MonthLength(d.year, d.month)
    BY <1>1, <2>3, MonthsFollow
  <2>7. Ordinal(e) = FirstOfMonth(d.year, d.month + 1)
    BY <1>2, <1>3, <2>2, <2>6 DEF Ordinal
  <2>8. Ordinal(e) = Ordinal(d) + 1
    BY <1>2, <1>3, <1>5, <2>6, <2>7 DEF Ordinal
  <2>9. NextMonth(d) = Ordinal(e) .. Ordinal(e) + MonthLength(e.year, e.month) - 1
    BY <2>2, <2>3, <2>7 DEF NextMonth
  <2>10. e.month # d.month
    BY <1>1, <2>2
  <2>11. QED
    BY <2>5, <2>8, <2>9, <2>10 DEF MonthMovesOn
<1>6. CASE d.day = MonthLength(d.year, d.month) /\ d.month = 12
  <2>1. e = [year |-> d.year + 1, month |-> 1, day |-> 1]
    BY <1>2, <1>6 DEF DayAfter
  <2>2. d.year + 1 \in Nat \ {0} /\ 1 <= MonthLength(d.year + 1, 1)
    BY <1>1, MonthLengths
  <2>3. e \in CalendarDay
    BY <2>1, <2>2 DEF CalendarDay
  <2>4. FirstOfMonth(d.year + 1, 1) = FirstOfMonth(d.year, d.month) + MonthLength(d.year, d.month)
    BY <1>1, <1>6, YearsFollow
  <2>5. Ordinal(e) = FirstOfMonth(d.year + 1, 1)
    BY <1>2, <1>3, <2>1, <2>4 DEF Ordinal
  <2>6. Ordinal(e) = Ordinal(d) + 1
    BY <1>2, <1>3, <1>6, <2>4, <2>5 DEF Ordinal
  <2>7. NextMonth(d) = Ordinal(e) .. Ordinal(e) + MonthLength(e.year, e.month) - 1
    BY <1>6, <2>1, <2>5 DEF NextMonth
  <2>8. e.month # d.month
    BY <1>6, <2>1
  <2>9. QED
    BY <2>3, <2>6, <2>7, <2>8 DEF MonthMovesOn
<1>7. d.month < 12 \/ d.month = 12
  BY <1>1
<1>8. d.day < MonthLength(d.year, d.month) \/ d.day = MonthLength(d.year, d.month)
  BY <1>1, <1>2
<1> HIDE DEF e
<1>9. QED
  BY <1>4, <1>5, <1>6, <1>7, <1>8 DEF e

-----------------------------------------------------------------------------
(* From one day to the next. *)
LEMMA WeekEndsFollow ==
    ASSUME NEW d \in CalendarDay, NEW e \in CalendarDay, Ordinal(e) = Ordinal(d) + 1
    PROVE  /\ WeekEnd(d) \in Int /\ WeekEnd(e) \in Int
           /\ Ordinal(d) <= WeekEnd(d) /\ WeekEnd(d) <= WeekEnd(e)
<1>1. Ordinal(d) \in Int
  BY Ordinals
<1>2. PICK n \in Int : n = Ordinal(d)
  BY <1>1
<1>3. /\ n + (6 - ((n + 6) % 7)) \in Int /\ n + 1 + (6 - ((n + 1 + 6) % 7)) \in Int
      /\ n <= n + (6 - ((n + 6) % 7))
      /\ n + (6 - ((n + 6) % 7)) <= n + 1 + (6 - ((n + 1 + 6) % 7))
  OBVIOUS
<1>4. WeekEnd(d) = n + (6 - ((n + 6) % 7)) /\ WeekEnd(e) = n + 1 + (6 - ((n + 1 + 6) % 7))
  BY <1>2 DEF WeekEnd, Weekday
<1>5. QED
  BY <1>2, <1>3, <1>4

(* This week and the next are one stretch of days from today on.             *)
LEMMA ShownDays ==
    ASSUME NEW d \in CalendarDay
    PROVE  Shown(d) = Ordinal(d) .. WeekEnd(d) + 7
<1>1. Ordinal(d) \in Int
  BY Ordinals
<1>2. WeekEnd(d) \in Int /\ Ordinal(d) <= WeekEnd(d)
  BY <1>1 DEF WeekEnd, Weekday
<1>3. QED
  BY <1>1, <1>2 DEF Shown, ThisWeek, NextWeek

(* What is shown of the weeks stays shown. *)
LEMMA WeeksMoveOn ==
    ASSUME NEW d \in CalendarDay, NEW e \in CalendarDay, Ordinal(e) = Ordinal(d) + 1,
           NEW n \in Shown(d), n >= Ordinal(e)
    PROVE  n \in Shown(e)
<1>1. /\ WeekEnd(d) \in Int /\ WeekEnd(e) \in Int
      /\ Ordinal(d) <= WeekEnd(d) /\ WeekEnd(d) <= WeekEnd(e)
  BY WeekEndsFollow
<1>2. n \in Ordinal(d) .. WeekEnd(d) + 7 /\ Ordinal(d) \in Int /\ Ordinal(e) \in Int
  BY ShownDays, Ordinals
<1>3. n \in Ordinal(e) .. WeekEnd(e) + 7
  BY <1>1, <1>2
<1>4. QED
  BY <1>3, ShownDays

(* Today is a date. *)
TodayIsADate == today \in CalendarDay

(* It is at the start of a scenario, and the day after a date is one. *)
LEMMA DatesHold == Spec => []TodayIsADate
<1>1. Init => TodayIsADate
  BY MarketAssumption DEF Init, MarketAssumption, TodayIsADate
<1>2. TodayIsADate /\ [Next]_vars => TodayIsADate'
  BY DaysFollow DEF TodayIsADate, Next, DayPasses, Poll, DeleteSubscription, vars
<1>3. QED
  BY <1>1, <1>2, PTL DEF Spec

(* From whatever date on, day after day, the windows move on without a gap:  *)
(* through every end of a week, a month, a leap February, a year and a       *)
(* century, of which the runs see a few.                                     *)
THEOREM NoDayIsLost == Spec => WindowsMoveOn
<1>1. TodayIsADate /\ [Next]_vars
         => [/\ \A n \in Shown(today) : n >= Ordinal(today') => n \in Shown(today')
             /\ MonthMovesOn(today, today')]_vars
  <2> SUFFICES ASSUME today \in CalendarDay, [Next]_vars
               PROVE  /\ \A n \in Shown(today) : n >= Ordinal(today') => n \in Shown(today')
                      /\ MonthMovesOn(today, today')
    BY DEF TodayIsADate
  <2>1. CASE today' = DayAfter(today)
    BY <2>1, DaysFollow, WeeksMoveOn
  <2>2. CASE today' = today
    BY <2>2 DEF MonthMovesOn
  <2>3. QED
    BY <2>1, <2>2 DEF Next, DayPasses, Poll, DeleteSubscription, vars
<1>2. QED
  BY <1>1, DatesHold, PTL DEF Spec, WindowsMoveOn

-----------------------------------------------------------------------------
(* The best offers. *)

(* The history orders with Ordering's Ascending. *)
LEMMA SameOrder ==
    ASSUME NEW I
    PROVE  Watch!Ascending(I) = Ascending(I)
  BY DEF Watch!Ascending, Ascending, Watch!Cardinality, Cardinality

(* The prices stored of a fare are those of its places in the listing.       *)
LEMMA PricesAreThoseListed ==
    ASSUME NEW n \in Nat, NEW fares, Len(fares) = n, NEW fare,
           NEW prices, prices = Watch!PricesOf(fare, fares)
    PROVE  /\ Len(prices) \in Nat /\ DOMAIN prices = 1 .. Len(prices)
           /\ prices = [k \in DOMAIN prices |-> prices[k]]
           /\ \A k \in 1 .. Len(prices) :
                 \E i \in 1 .. n : fares[i].fare = fare /\ prices[k] = fares[i].price
           /\ \A i \in 1 .. n :
                 fares[i].fare = fare => \E k \in 1 .. Len(prices) : prices[k] = fares[i].price
<1> DEFINE places == {i \in 1 .. Len(fares) : fares[i].fare = fare}
<1>1. PICK own : own = Ascending(places)
  OBVIOUS
<1>2. prices = [k \in 1 .. Len(own) |-> fares[own[k]].price]
  BY <1>1, SameOrder DEF Watch!PricesOf
<1>3. \A i : i \in places <=> i \in 1 .. n /\ fares[i].fare = fare
  OBVIOUS
<1>4. places \in SUBSET Int /\ IsFiniteSet(places)
  <2>1. places \in SUBSET (1 .. n)
    OBVIOUS
  <2>2. 1 \in Int /\ n \in Int
    OBVIOUS
  <2>3. IsFiniteSet(1 .. n)
    BY <2>2, FS_Interval
  <2>4. QED
    BY <2>1, <2>3, FS_Subset
<1> HIDE DEF places
<1>5. /\ Len(own) \in Nat /\ \A k \in 1 .. Len(own) : own[k] \in places
      /\ \A i \in places : \E k \in 1 .. Len(own) : own[k] = i
  BY <1>1, <1>4, AscendingLists DEF Lists
<1>6. /\ Len(prices) = Len(own) /\ DOMAIN prices = 1 .. Len(own)
      /\ prices = [k \in DOMAIN prices |-> prices[k]]
      /\ \A k \in 1 .. Len(own) : prices[k] = fares[own[k]].price
  BY <1>2, <1>5
<1>7. QED
  BY <1>3, <1>5, <1>6

(* The cheapest offers of the first day are the first by price and day.      *)
LEMMA CheapestThenEarliest ==
    ASSUME NEW Q, \A q \in Q : q.price \in Nat /\ q.day \in Nat,
           NEW lowest, lowest = {q \in Q : \A r \in Q : q.price <= r.price}
    PROVE  {x \in Q : \A y \in Q : Precedes(x, y)} = {q \in lowest : \A r \in lowest : q.day <= r.day}
<1>1. ASSUME NEW x \in Q, \A y \in Q : Precedes(x, y)
      PROVE  x \in lowest /\ \A r \in lowest : x.day <= r.day
  <2>1. \A y \in Q : x.price <= y.price
    BY <1>1 DEF Precedes
  <2>2. ASSUME NEW r \in lowest PROVE x.day <= r.day
    BY <1>1 DEF Precedes
  <2>3. QED
    BY <2>1, <2>2
<1>2. ASSUME NEW x \in lowest, \A r \in lowest : x.day <= r.day, NEW y \in Q
      PROVE  Precedes(x, y)
  <2>1. x \in Q /\ x.price <= y.price
    OBVIOUS
  <2>2. CASE x.price = y.price
    <3>1. y \in lowest
      BY <2>1, <2>2
    <3>2. QED
      BY <1>2, <2>2, <3>1 DEF Precedes
  <2>3. CASE x.price # y.price
    BY <2>1, <2>3 DEF Precedes
  <2>4. QED
    BY <2>2, <2>3
<1>3. QED
  BY <1>1, <1>2

(* A value occurs in a sequence. *)
Holds(s, v) == \E k \in 1 .. Len(s) : s[k] = v

(* What two sequences hold together. *)
LEMMA ConcatHolds ==
    ASSUME NEW S, NEW s \in Seq(S), NEW t \in Seq(S), NEW v
    PROVE  s \o t \in Seq(S) /\ (Holds(s \o t, v) <=> Holds(s, v) \/ Holds(t, v))
<1>1. /\ s \o t \in Seq(S) /\ Len(s \o t) = Len(s) + Len(t)
      /\ \A k \in 1 .. Len(s) + Len(t) :
            (s \o t)[k] = IF k <= Len(s) THEN s[k] ELSE t[k - Len(s)]
  BY ConcatProperties
<1>2. Len(s) \in Nat /\ Len(t) \in Nat
  OBVIOUS
<1> DEFINE st == s \o t
<1> HIDE DEF st
<1>3. ASSUME Holds(s, v) PROVE Holds(st, v)
  <2>1. PICK k \in 1 .. Len(s) : s[k] = v
    BY <1>3 DEF Holds
  <2>2. k \in 1 .. Len(st) /\ st[k] = v
    BY <1>1, <1>2, <2>1 DEF st
  <2>3. QED
    BY <2>2 DEF Holds
<1>4. ASSUME Holds(t, v) PROVE Holds(st, v)
  <2>1. PICK k \in 1 .. Len(t) : t[k] = v
    BY <1>4 DEF Holds
  <2>2. Len(s) + k \in 1 .. Len(st) /\ st[Len(s) + k] = v
    BY <1>1, <1>2, <2>1 DEF st
  <2>3. QED
    BY <2>2 DEF Holds
<1>5. ASSUME Holds(st, v) PROVE Holds(s, v) \/ Holds(t, v)
  <2>1. PICK k \in 1 .. Len(s) + Len(t) : st[k] = v
    BY <1>1, <1>5 DEF Holds, st
  <2>2. CASE k <= Len(s)
    <3>1. k \in 1 .. Len(s) /\ s[k] = v
      BY <1>1, <1>2, <2>1, <2>2 DEF st
    <3>2. QED
      BY <3>1 DEF Holds
  <2>3. CASE ~ k <= Len(s)
    <3>1. k - Len(s) \in 1 .. Len(t) /\ t[k - Len(s)] = v
      BY <1>1, <1>2, <2>1, <2>3 DEF st
    <3>2. QED
      BY <3>1 DEF Holds
  <2>4. QED
    BY <2>2, <2>3
<1>6. QED
  BY <1>1, <1>3, <1>4, <1>5 DEF st

(* So for one element more. *)
LEMMA AppendHolds ==
    ASSUME NEW S, NEW s \in Seq(S), NEW e \in S, NEW v
    PROVE  Append(s, e) \in Seq(S) /\ (Holds(Append(s, e), v) <=> Holds(s, v) \/ e = v)
<1>1. Append(s, e) = s \o <<e>> /\ <<e>> \in Seq(S)
  OBVIOUS
<1>2. Holds(<<e>>, v) <=> e = v
  BY DEF Holds
<1>3. PICK t \in Seq(S) : t = <<e>>
  BY <1>1
<1>4. s \o t \in Seq(S) /\ (Holds(s \o t, v) <=> Holds(s, v) \/ Holds(t, v))
  BY ConcatHolds
<1>5. QED
  BY <1>1, <1>2, <1>3, <1>4

(* The empty sequence holds nothing. *)
LEMMA EmptyHolds == ASSUME NEW v PROVE ~ Holds(<< >>, v)
  BY DEF Holds

(* The prices stored of the fares of a day, and those at which polls saw the *)
(* flights of that day.                                                      *)
Stored(v, d) == \E fare \in Fare : fare.day = d /\ Holds(observed[fare], v)
Quoted(v, d) == \E f \in schedule : f.day = d /\ Holds(seen[f], v)

MarketTypes ==
    /\ schedule \subseteq Flight
    /\ paths \in KeyPaths
    /\ seen \in [schedule -> Seq(Price)]
    /\ observed \in [Fare -> Seq(Price)]

(* However the fares were identified, and whatever observations were merged  *)
(* or kept apart by it: day by day the history holds the prices polls saw.   *)
QuotesAreStored == \A v, d : Stored(v, d) <=> Quoted(v, d)

MarketInvariant == MarketTypes /\ QuotesAreStored

(* An identity is a fare, of the day of its flight. *)
LEMMA IdentitiesAreFares ==
    ASSUME NEW f \in Flight, NEW p \in Price, NEW keys \in KeyPaths
    PROVE  IdentityOf(f, p, keys) \in Fare /\ IdentityOf(f, p, keys).day = f.day
  BY DEF Fare, IdentityOf, Identity

(* Before the first poll nothing is stored and nothing was seen. *)
LEMMA MarketInit == Init => MarketInvariant
<1> SUFFICES ASSUME Init PROVE MarketInvariant
  OBVIOUS
<1>1. PICK s \in Scenario : schedule = s.flights /\ seen = [f \in s.flights |-> << >>]
  BY DEF Init
<1>2. MarketTypes
  BY <1>1, MarketAssumption DEF Init, Watch!Init, MarketTypes, MarketAssumption
<1>3. \A f \in schedule : seen[f] = << >>
  BY <1>1
<1>4. \A fare \in Fare : observed[fare] = << >>
  BY DEF Init, Watch!Init
<1>5. QED
  BY <1>2, <1>3, <1>4, EmptyHolds DEF MarketInvariant, QuotesAreStored, Stored, Quoted

(* The deletion of the subscription empties both. *)
LEMMA MarketDelete == MarketInvariant /\ DeleteSubscription => MarketInvariant'
<1> SUFFICES ASSUME MarketInvariant, DeleteSubscription PROVE MarketInvariant'
  OBVIOUS
<1>1. /\ observed' = [fare \in Fare |-> << >>] /\ seen' = [f \in schedule |-> << >>]
      /\ schedule' = schedule /\ paths' = paths
  BY DEF DeleteSubscription, Watch!Delete
<1>2. MarketTypes'
  BY <1>1 DEF MarketInvariant, MarketTypes
<1>3. /\ \A f \in schedule' : seen'[f] = << >>
      /\ \A fare \in Fare : observed'[fare] = << >>
  BY <1>1
<1>4. QED
  BY <1>2, <1>3, EmptyHolds DEF MarketInvariant, QuotesAreStored, Stored, Quoted

(* A listing has every flight of an answer in one place. *)
LEMMA ListingsAreOrders ==
    ASSUME NEW F, IsFiniteSet(F), NEW listed \in Listings(F)
    PROVE  /\ Cardinality(F) \in Nat
           /\ listed \in [1 .. Cardinality(F) -> F]
           /\ \A f \in F : \E j \in 1 .. Cardinality(F) : \A i \in 1 .. Cardinality(F) :
                 listed[i] = f <=> i = j
<1> DEFINE n == Cardinality(F)
<1>1. n \in Nat
  BY FS_CardinalityType
<1>2. /\ listed \in [1 .. n -> F]
      /\ \A f \in F : \E i \in 1 .. n : listed[i] = f
  BY DEF Listings, ToSet
<1>3. IsFiniteSet(1 .. n) /\ Cardinality(1 .. n) = n
  BY <1>1, FS_Interval
<1>4. listed \in Surjection(1 .. n, F)
  BY <1>2 DEF Surjection
<1> HIDE DEF n
<1>5. Cardinality(F) = Cardinality(1 .. n)
  BY <1>3 DEF n
<1>6. listed \in Injection(1 .. n, F)
  BY <1>3, <1>4, <1>5, FS_Surjection
<1>7. \A i, j \in 1 .. n : listed[i] = listed[j] => i = j
  BY <1>6 DEF Injection, IsInjective
<1>8. QED
  BY <1>1, <1>2, <1>7 DEF n

(* What a poll hands to the history: a fare for every flight on sale, once;  *)
(* and what the history makes of it.                                         *)
HandedOver(offer, n, listed, fares) ==
    /\ listed \in [1 .. n -> OnSale(offer)]
    /\ \A f \in OnSale(offer) : \E j \in 1 .. n : \A i \in 1 .. n : listed[i] = f <=> i = j
    /\ Len(fares) = n
    /\ \A i \in 1 .. n : /\ fares[i].fare = IdentityOf(listed[i], offer[listed[i]], paths)
                         /\ fares[i].price = offer[listed[i]]

Recorded(fares) ==
    /\ observed' = [fare \in Fare |-> observed[fare] \o Watch!PricesOf(fare, fares)]
    /\ changes' = [fare \in Fare |-> Watch!Transitions(observed'[fare])]

(* A poll does that. *)
LEMMA PollObserves ==
    ASSUME MarketTypes, NEW offer \in [schedule -> Price \cup {NoPrice}], Poll(offer)
    PROVE  \E n \in Nat : \E listed, fares : HandedOver(offer, n, listed, fares) /\ Recorded(fares)
<1>1. OnSale(offer) \subseteq Flight /\ IsFiniteSet(Flight)
  BY MarketAssumption DEF OnSale, MarketTypes, MarketAssumption
<1>2. IsFiniteSet(OnSale(offer))
  BY <1>1, FS_Subset
<1>3. PICK listed \in Listings(OnSale(offer)) : Watch!Observe(FaresOf(listed, offer))
  BY DEF Poll
<1>4. PICK n \in Nat :
         /\ listed \in [1 .. n -> OnSale(offer)]
         /\ \A f \in OnSale(offer) : \E j \in 1 .. n : \A i \in 1 .. n : listed[i] = f <=> i = j
  BY <1>2, ListingsAreOrders
<1>5. PICK fares : fares = FaresOf(listed, offer)
  OBVIOUS
<1>6. fares = [i \in 1 .. n |-> [fare |-> IdentityOf(listed[i], offer[listed[i]], paths),
                                 price |-> offer[listed[i]]]]
  BY <1>4, <1>5 DEF FaresOf
<1>7. /\ Len(fares) = n
      /\ \A i \in 1 .. n : /\ fares[i].fare = IdentityOf(listed[i], offer[listed[i]], paths)
                           /\ fares[i].price = offer[listed[i]]
  BY <1>6
<1>8. Recorded(fares)
  BY <1>3, <1>5 DEF Watch!Observe, Recorded
<1>9. HandedOver(offer, n, listed, fares)
  BY <1>4, <1>7 DEF HandedOver
<1>10. QED
  BY <1>8, <1>9

(* What a poll stores: the price of every flight on sale, under a fare of    *)
(* the day of the flight, and nothing else.                                  *)
LEMMA PollStores ==
    ASSUME MarketTypes, NEW offer \in [schedule -> Price \cup {NoPrice}], Poll(offer)
    PROVE  /\ observed' \in [Fare -> Seq(Price)]
           /\ \A v, d : Stored(v, d)' <=>
                 \/ Stored(v, d)
                 \/ \E f \in OnSale(offer) : f.day = d /\ offer[f] = v
<1>1. PICK n \in Nat : \E listed, fares : HandedOver(offer, n, listed, fares) /\ Recorded(fares)
  BY PollObserves
<1>2. PICK listed, fares : HandedOver(offer, n, listed, fares) /\ Recorded(fares)
  BY <1>1
<1>3. Len(fares) = n /\ \A f \in OnSale(offer) : \E i \in 1 .. n : listed[i] = f
  BY <1>2 DEF HandedOver
<1>4. \A i \in 1 .. n :
         /\ listed[i] \in OnSale(offer)
         /\ fares[i].fare \in Fare /\ fares[i].fare.day = listed[i].day
         /\ fares[i].price = offer[listed[i]] /\ fares[i].price \in Price
  <2> SUFFICES ASSUME NEW i \in 1 .. n
               PROVE  /\ listed[i] \in OnSale(offer)
                      /\ fares[i].fare \in Fare /\ fares[i].fare.day = listed[i].day
                      /\ fares[i].price = offer[listed[i]] /\ fares[i].price \in Price
    OBVIOUS
  <2>1. listed[i] \in OnSale(offer) /\ listed[i] \in Flight /\ offer[listed[i]] \in Price
    BY <1>2 DEF HandedOver, OnSale, MarketTypes
  <2>2. /\ fares[i].fare = IdentityOf(listed[i], offer[listed[i]], paths)
        /\ fares[i].price = offer[listed[i]]
    BY <1>2 DEF HandedOver
  <2>3. QED
    BY <2>1, <2>2, IdentitiesAreFares DEF MarketTypes
<1>5. ASSUME NEW fare \in Fare
      PROVE  /\ observed'[fare] \in Seq(Price)
             /\ \A v : Holds(observed'[fare], v) <=>
                   \/ Holds(observed[fare], v)
                   \/ \E i \in 1 .. n : fares[i].fare = fare /\ fares[i].price = v
  <2>1. PICK prices : prices = Watch!PricesOf(fare, fares)
    OBVIOUS
  <2>2. /\ Len(prices) \in Nat /\ DOMAIN prices = 1 .. Len(prices)
        /\ prices = [k \in DOMAIN prices |-> prices[k]]
        /\ \A k \in 1 .. Len(prices) :
              \E i \in 1 .. n : fares[i].fare = fare /\ prices[k] = fares[i].price
        /\ \A i \in 1 .. n :
              fares[i].fare = fare => \E k \in 1 .. Len(prices) : prices[k] = fares[i].price
    BY <1>3, <2>1, PricesAreThoseListed
  <2>3. prices \in Seq(Price)
    <3>1. \A k \in 1 .. Len(prices) : prices[k] \in Price
      BY <1>4, <2>2
    <3>2. prices \in [1 .. Len(prices) -> Price]
      BY <2>2, <3>1
    <3>3. QED
      BY <2>2, <3>2
  <2>4. \A v : Holds(prices, v) <=> \E i \in 1 .. n : fares[i].fare = fare /\ fares[i].price = v
    BY <2>2 DEF Holds
  <2>5. observed[fare] \in Seq(Price) /\ observed'[fare] = observed[fare] \o prices
    BY <1>2, <2>1 DEF MarketTypes, Recorded
  <2>6. QED
    BY <2>3, <2>4, <2>5, ConcatHolds
<1>6. observed' \in [Fare -> Seq(Price)]
  <2>1. observed' = [fare \in Fare |-> observed[fare] \o Watch!PricesOf(fare, fares)]
    BY <1>2 DEF Recorded
  <2>2. QED
    BY <1>5, <2>1
<1>7. ASSUME NEW v, NEW d
       PROVE  Stored(v, d)' <=> Stored(v, d) \/ \E f \in OnSale(offer) : f.day = d /\ offer[f] = v
  <2>1. Stored(v, d)' <=> \E fare \in Fare : fare.day = d /\ Holds(observed'[fare], v)
    BY DEF Stored, Holds
  <2>2. Stored(v, d)' <=> Stored(v, d) \/ \E i \in 1 .. n : fares[i].fare.day = d /\ fares[i].price = v
    <3> DEFINE polled == \E i \in 1 .. n : fares[i].fare.day = d /\ fares[i].price = v
    <3>1. ASSUME Stored(v, d)' PROVE Stored(v, d) \/ polled
      <4>1. PICK fare \in Fare : fare.day = d /\ Holds(observed'[fare], v)
        BY <2>1, <3>1
      <4>2. CASE Holds(observed[fare], v)
        BY <4>1, <4>2 DEF Stored
      <4>3. CASE \E i \in 1 .. n : fares[i].fare = fare /\ fares[i].price = v
        BY <4>1, <4>3
      <4>4. QED
        BY <1>5, <4>1, <4>2, <4>3
    <3>2. ASSUME Stored(v, d) PROVE Stored(v, d)'
      <4>1. PICK fare \in Fare : fare.day = d /\ Holds(observed[fare], v)
        BY <3>2 DEF Stored
      <4>2. QED
        BY <1>5, <2>1, <4>1
    <3>3. ASSUME polled PROVE Stored(v, d)'
      <4>1. PICK i \in 1 .. n : fares[i].fare.day = d /\ fares[i].price = v
        BY <3>3
      <4>2. PICK fare \in Fare : fare = fares[i].fare
        BY <1>4
      <4>3. Holds(observed'[fare], v)
        BY <1>5, <4>1, <4>2
      <4>4. QED
        BY <2>1, <4>1, <4>2, <4>3
    <3>4. QED
      BY <3>1, <3>2, <3>3
  <2>3. QED
    BY <1>3, <1>4, <2>2
<1>8. QED
  BY <1>6, <1>7

(* What a poll sees: the price of every flight on sale. *)
LEMMA PollSees ==
    ASSUME MarketTypes, NEW offer \in [schedule -> Price \cup {NoPrice}], Poll(offer)
    PROVE  /\ schedule' = schedule /\ paths' = paths
           /\ seen' \in [schedule -> Seq(Price)]
           /\ \A v, d : Quoted(v, d)' <=>
                 \/ Quoted(v, d)
                 \/ \E f \in OnSale(offer) : f.day = d /\ offer[f] = v
<1>1. schedule' = schedule /\ paths' = paths
  BY DEF Poll
<1>2. seen' = [f \in schedule |->
                  IF f \in OnSale(offer) THEN Append(seen[f], offer[f]) ELSE seen[f]]
  BY DEF Poll
<1>3. ASSUME NEW f \in schedule
      PROVE  /\ seen'[f] \in Seq(Price)
             /\ \A v : Holds(seen'[f], v) <=>
                   Holds(seen[f], v) \/ (f \in OnSale(offer) /\ offer[f] = v)
  <2>1. seen[f] \in Seq(Price)
    BY DEF MarketTypes
  <2>2. CASE f \in OnSale(offer)
    <3>1. offer[f] \in Price /\ seen'[f] = Append(seen[f], offer[f])
      BY <1>2, <2>2 DEF OnSale
    <3>2. QED
      BY <2>1, <2>2, <3>1, AppendHolds
  <2>3. CASE f \notin OnSale(offer)
    BY <1>2, <2>1, <2>3
  <2>4. QED
    BY <2>2, <2>3
<1>4. seen' \in [schedule -> Seq(Price)]
  BY <1>2, <1>3
<1>5. OnSale(offer) \subseteq schedule
  BY DEF OnSale
<1>6. ASSUME NEW v, NEW d
      PROVE  Quoted(v, d)' <=> Quoted(v, d) \/ \E f \in OnSale(offer) : f.day = d /\ offer[f] = v
  <2>1. Quoted(v, d)' <=> \E f \in schedule : f.day = d /\ Holds(seen'[f], v)
    BY <1>1 DEF Quoted, Holds
  <2>2. QED
    BY <1>3, <1>5, <2>1 DEF Quoted
<1>7. QED
  BY <1>1, <1>4, <1>6

(* So a poll adds the same quotes to both. *)
LEMMA MarketPoll ==
    ASSUME MarketInvariant, NEW offer \in [schedule -> Price \cup {NoPrice}], Poll(offer)
    PROVE  MarketInvariant'
<1>1. MarketTypes /\ QuotesAreStored
  BY DEF MarketInvariant
<1>2. MarketTypes'
  BY <1>1, PollStores, PollSees DEF MarketTypes
<1>3. ASSUME NEW v, NEW d PROVE Stored(v, d)' <=> Quoted(v, d)'
  BY <1>1, PollStores, PollSees DEF QuotesAreStored
<1>4. QED
  BY <1>2, <1>3 DEF MarketInvariant, QuotesAreStored

(* Day by day the history holds the prices that polls saw, always. *)
LEMMA MarketHolds == Spec => []MarketInvariant
<1>1. MarketInvariant /\ [Next]_vars => MarketInvariant'
  <2> SUFFICES ASSUME MarketInvariant, [Next]_vars PROVE MarketInvariant'
    OBVIOUS
  <2>1. CASE UNCHANGED <<schedule, paths, seen, observed>>
    <3>1. /\ schedule' = schedule /\ paths' = paths /\ seen' = seen /\ observed' = observed
      BY <2>1
    <3>2. MarketTypes /\ QuotesAreStored
      BY DEF MarketInvariant
    <3>3. MarketTypes'
      BY <3>1, <3>2 DEF MarketTypes
    <3>4. \A v, d : (Stored(v, d)' <=> Stored(v, d)) /\ (Quoted(v, d)' <=> Quoted(v, d))
      BY <3>1 DEF Stored, Quoted, Holds
    <3>5. QED
      BY <3>2, <3>3, <3>4 DEF MarketInvariant, QuotesAreStored
  <2>2. CASE DeleteSubscription
    BY <2>2, MarketDelete
  <2>3. CASE \E offer \in [schedule -> Price \cup {NoPrice}] : Poll(offer)
    BY <2>3, MarketPoll
  <2>4. QED
    BY <2>1, <2>2, <2>3 DEF Next, DayPasses, vars, stored
<1>2. QED
  BY <1>1, MarketInit, PTL DEF Spec

(* The best offers are the best of all that any poll ever saw, for every     *)
(* route, way to identify fares, calendar day and order of polls.            *)
THEOREM OffersStayBest == Spec => []OffersAreBest
<1>1. MarketInvariant => OffersAreBest
  <2> SUFFICES ASSUME MarketInvariant, NEW window
               PROVE  LET quotes == UNION {{[price |-> seen[f][k], day |-> f.day] : k \in 1 .. Len(seen[f])} :
                                              f \in {g \in schedule : g.day \in window}}
                          lowest == {q \in quotes : \A r \in quotes : q.price <= r.price}
                      IN  BestOffers(window) = {q \in lowest : \A r \in lowest : q.day <= r.day}
    BY DEF OffersAreBest
  <2> DEFINE quotes == UNION {{[price |-> seen[f][k], day |-> f.day] : k \in 1 .. Len(seen[f])} :
                                 f \in {g \in schedule : g.day \in window}}
             inside == {x \in Snapshots : x.day \in window}
             lowest == {q \in quotes : \A r \in quotes : q.price <= r.price}
  <2>1. \A x : x \in quotes <=> \E f \in schedule : /\ f.day \in window
                                                    /\ \E k \in 1 .. Len(seen[f]) :
                                                          x = [price |-> seen[f][k], day |-> f.day]
    OBVIOUS
  <2>2. \A x : x \in Snapshots <=> \E fare \in Fare : \E k \in 1 .. Len(observed[fare]) :
                                       x = [price |-> observed[fare][k], day |-> fare.day]
    BY DEF Snapshots
  <2>3. \A v, d : Stored(v, d) <=> Quoted(v, d)
    BY DEF MarketInvariant, QuotesAreStored
  <2>4. ASSUME NEW x
        PROVE  x \in inside <=> \E v, d : d \in window /\ Stored(v, d) /\ x = [price |-> v, day |-> d]
    BY <2>2 DEF Stored, Holds
  <2>5. ASSUME NEW x
        PROVE  x \in quotes <=> \E v, d : d \in window /\ Quoted(v, d) /\ x = [price |-> v, day |-> d]
    BY <2>1 DEF Quoted, Holds
  <2>6. inside = quotes
    BY <2>3, <2>4, <2>5
  <2>7. \A q \in quotes : q.price \in Nat /\ q.day \in Nat
    <3> SUFFICES ASSUME NEW f \in schedule, NEW k \in 1 .. Len(seen[f])
                 PROVE  seen[f][k] \in Nat /\ f.day \in Nat
      BY <2>1
    <3>1. seen[f] \in Seq(Price) /\ f \in Flight
      BY DEF MarketInvariant, MarketTypes
    <3>2. seen[f][k] \in Price
      BY <3>1
    <3>3. QED
      BY <3>1, <3>2, MarketAssumption DEF MarketAssumption
  <2>8. BestOffers(window) = {x \in inside : \A y \in inside : Precedes(x, y)}
    BY DEF BestOffers
  <2> HIDE DEF quotes, inside
  <2>9. {x \in quotes : \A y \in quotes : Precedes(x, y)} = {q \in lowest : \A r \in lowest : q.day <= r.day}
    BY <2>7, CheapestThenEarliest
  <2>10. BestOffers(window) = {q \in lowest : \A r \in lowest : q.day <= r.day}
    BY <2>6, <2>8, <2>9
  <2>11. QED
    BY <2>10 DEF quotes
<1>2. QED
  BY <1>1, MarketHolds, PTL

-----------------------------------------------------------------------------
(* Which observations an identity brings together. *)

(* The key parts of a payload are those of the paths that have a value, in   *)
(* the order of the configuration.                                           *)
LEMMA PresentPaths ==
    ASSUME NEW keys \in Seq(Seq(STRING)), NEW payload
    PROVE  \E present :
              /\ Len(present) \in Nat
              /\ \A k \in 1 .. Len(present) :
                    present[k] \in 1 .. Len(keys) /\ HasValue(payload, keys[present[k]])
              /\ \A i \in 1 .. Len(keys) :
                    HasValue(payload, keys[i]) => \E k \in 1 .. Len(present) : present[k] = i
              /\ present = Ascending({i \in 1 .. Len(keys) : HasValue(payload, keys[i])})
<1> DEFINE I == {i \in 1 .. Len(keys) : HasValue(payload, keys[i])}
<1>1. \A i : i \in I <=> i \in 1 .. Len(keys) /\ HasValue(payload, keys[i])
  OBVIOUS
<1>2. I \in SUBSET Int /\ IsFiniteSet(I)
  <2>1. Len(keys) \in Int /\ 1 \in Int
    OBVIOUS
  <2>2. IsFiniteSet(1 .. Len(keys))
    BY <2>1, FS_Interval
  <2>3. I \in SUBSET (1 .. Len(keys))
    OBVIOUS
  <2>4. QED
    BY <2>2, <2>3, FS_Subset
<1>3. PICK present : present = Ascending(I)
  OBVIOUS
<1>4. present = Ascending({i \in 1 .. Len(keys) : HasValue(payload, keys[i])})
  BY <1>3
<1> HIDE DEF I
<1>5. Lists(present, I) /\ Len(present) \in Nat /\ \A k \in 1 .. Len(present) : present[k] \in I
  BY <1>2, <1>3, AscendingLists
<1>6. /\ \A k \in 1 .. Len(present) :
            present[k] \in 1 .. Len(keys) /\ HasValue(payload, keys[present[k]])
      /\ \A i \in 1 .. Len(keys) :
            HasValue(payload, keys[i]) => \E k \in 1 .. Len(present) : present[k] = i
  BY <1>1, <1>5 DEF Lists
<1>7. QED
  BY <1>4, <1>5, <1>6

(* Payloads that agree along the configured paths have the same key parts.   *)
LEMMA SameValuesSameParts ==
    ASSUME NEW keys \in Seq(Seq(STRING)), NEW P, NEW Q,
           \A i \in 1 .. Len(keys) : ExtractPayloadValue(P, keys[i]) = ExtractPayloadValue(Q, keys[i])
    PROVE  KeyParts(P, keys) = KeyParts(Q, keys)
<1>1. {i \in 1 .. Len(keys) : HasValue(P, keys[i])} = {i \in 1 .. Len(keys) : HasValue(Q, keys[i])}
  BY DEF HasValue
<1>2. PICK present :
         /\ \A k \in 1 .. Len(present) : present[k] \in 1 .. Len(keys)
         /\ present = Ascending({i \in 1 .. Len(keys) : HasValue(P, keys[i])})
  BY PresentPaths
<1>3. /\ KeyParts(P, keys) = [k \in 1 .. Len(present) |->
            [path |-> keys[present[k]], value |-> ExtractPayloadValue(P, keys[present[k]])]]
      /\ KeyParts(Q, keys) = [k \in 1 .. Len(present) |->
            [path |-> keys[present[k]], value |-> ExtractPayloadValue(Q, keys[present[k]])]]
  BY <1>1, <1>2 DEF KeyParts
<1>4. QED
  BY <1>2, <1>3

(* What key parts tell of a payload: every path with a value has its part,   *)
(* and every part is of a path with a value.                                 *)
PartsTell(parts, payload, keys) ==
    /\ (parts = << >>) <=> (\A i \in 1 .. Len(keys) : ~HasValue(payload, keys[i]))
    /\ \A i \in 1 .. Len(keys) : HasValue(payload, keys[i]) =>
          \E k \in 1 .. Len(parts) : /\ parts[k].path = keys[i]
                                     /\ parts[k].value = ExtractPayloadValue(payload, keys[i])
    /\ \A k \in 1 .. Len(parts) : \E i \in 1 .. Len(keys) :
          /\ HasValue(payload, keys[i])
          /\ parts[k].path = keys[i] /\ parts[k].value = ExtractPayloadValue(payload, keys[i])

(* They tell that of the payload they are taken from. *)
LEMMA PartsAreValues ==
    ASSUME NEW keys \in Seq(Seq(STRING)), NEW P, NEW parts, parts = KeyParts(P, keys)
    PROVE  PartsTell(parts, P, keys)
<1>1. PICK present :
         /\ Len(present) \in Nat
         /\ \A k \in 1 .. Len(present) :
               present[k] \in 1 .. Len(keys) /\ HasValue(P, keys[present[k]])
         /\ \A i \in 1 .. Len(keys) :
               HasValue(P, keys[i]) => \E k \in 1 .. Len(present) : present[k] = i
         /\ present = Ascending({i \in 1 .. Len(keys) : HasValue(P, keys[i])})
  BY PresentPaths
<1>2. parts = [k \in 1 .. Len(present) |->
            [path |-> keys[present[k]], value |-> ExtractPayloadValue(P, keys[present[k]])]]
  BY <1>1 DEF KeyParts
<1>3. /\ Len(present) \in Nat
      /\ \A k \in 1 .. Len(present) :
            present[k] \in 1 .. Len(keys) /\ HasValue(P, keys[present[k]])
      /\ \A i \in 1 .. Len(keys) :
            HasValue(P, keys[i]) => \E k \in 1 .. Len(present) : present[k] = i
  BY <1>1, Zenon
<1>4. /\ Len(parts) = Len(present)
      /\ \A k \in 1 .. Len(parts) : /\ parts[k].path = keys[present[k]]
                                    /\ parts[k].value = ExtractPayloadValue(P, keys[present[k]])
  BY <1>3, <1>2
<1>5. (parts = << >>) <=> (Len(present) = 0)
  BY <1>3, <1>2
<1>6. (Len(present) = 0) <=> (\A i \in 1 .. Len(keys) : ~HasValue(P, keys[i]))
  <2>1. ASSUME NEW i \in 1 .. Len(keys), HasValue(P, keys[i]) PROVE Len(present) # 0
    BY <1>3, <2>1
  <2>2. ASSUME Len(present) # 0 PROVE \E i \in 1 .. Len(keys) : HasValue(P, keys[i])
    <3>1. 1 \in 1 .. Len(present)
      BY <1>3, <2>2
    <3>2. QED
      BY <1>3, <3>1
  <2>3. QED
    BY <2>1, <2>2
<1>7. ASSUME NEW i \in 1 .. Len(keys), HasValue(P, keys[i])
      PROVE  \E k \in 1 .. Len(parts) : /\ parts[k].path = keys[i]
                                        /\ parts[k].value = ExtractPayloadValue(P, keys[i])
  <2>1. PICK k \in 1 .. Len(present) : present[k] = i
    BY <1>3, <1>7
  <2>2. QED
    BY <1>4, <2>1
<1>8. ASSUME NEW k \in 1 .. Len(parts)
      PROVE  \E i \in 1 .. Len(keys) :
                /\ HasValue(P, keys[i])
                /\ parts[k].path = keys[i] /\ parts[k].value = ExtractPayloadValue(P, keys[i])
  <2>1. present[k] \in 1 .. Len(keys) /\ HasValue(P, keys[present[k]])
    BY <1>3, <1>4
  <2>2. QED
    BY <1>4, <2>1
<1>9. QED
  BY <1>5, <1>6, <1>7, <1>8 DEF PartsTell

(* Whatever its price, a flight has the key parts of its values. *)
LEMMA PriceIsNoKey ==
    ASSUME MarketTypes, NEW f \in Flight, NEW p \in Price
    PROVE  KeyParts(Payload(f, p), paths) = KeyParts(Payload(f, 0), paths)
<1>1. paths \in KeyPaths /\ paths \in Seq(Seq(STRING))
  BY MarketAssumption DEF MarketTypes, MarketAssumption
<1>2. \A i \in 1 .. Len(paths) :
         ExtractPayloadValue(Payload(f, p), paths[i]) = ExtractPayloadValue(Payload(f, 0), paths[i])
  BY <1>1, KeysIgnorePrice
<1>3. QED
  BY <1>1, <1>2, SameValuesSameParts

(* The values of a flight, path by path. *)
LEMMA ValuesAre ==
    ASSUME MarketTypes, NEW f
    PROVE  \A x : x \in Values(f) <=>
              \E i \in 1 .. Len(paths) :
                 /\ HasValue(Payload(f, 0), paths[i])
                 /\ x = <<paths[i], ExtractPayloadValue(Payload(f, 0), paths[i])>>
<1>1. paths \in Seq(Seq(STRING))
  BY MarketAssumption DEF MarketTypes, MarketAssumption
<1>2. \A path : path \in ToSet(paths) <=> \E i \in 1 .. Len(paths) : path = paths[i]
  BY <1>1 DEF ToSet
<1>3. \A x : x \in Values(f) <=>
         \E path \in ToSet(paths) : /\ HasValue(Payload(f, 0), path)
                                    /\ x = <<path, ExtractPayloadValue(Payload(f, 0), path)>>
  BY DEF Values
<1>4. QED
  BY <1>2, <1>3

(* A flight is keyed when it has key parts. *)
LEMMA KeyedHasParts ==
    ASSUME MarketTypes, NEW f
    PROVE  Keyed(f) <=> (KeyParts(Payload(f, 0), paths) # << >>)
<1>1. paths \in Seq(Seq(STRING))
  BY MarketAssumption DEF MarketTypes, MarketAssumption
<1>2. PICK parts : parts = KeyParts(Payload(f, 0), paths)
  OBVIOUS
<1>3. (parts = << >>) <=> (\A i \in 1 .. Len(paths) : ~HasValue(Payload(f, 0), paths[i]))
  BY <1>1, <1>2, PartsAreValues DEF PartsTell
<1>4. QED
  BY <1>2, <1>3, ValuesAre DEF Keyed

(* Flights with the same key parts have the same values. *)
LEMMA SamePartsSameValues ==
    ASSUME MarketTypes, NEW f, NEW g,
           KeyParts(Payload(f, 0), paths) = KeyParts(Payload(g, 0), paths)
    PROVE  Values(f) = Values(g)
<1>1. paths \in Seq(Seq(STRING))
  BY MarketAssumption DEF MarketTypes, MarketAssumption
<1>2. PICK parts : parts = KeyParts(Payload(f, 0), paths)
  OBVIOUS
<1> DEFINE Of(h) == \A x : x \in Values(h) <=>
              \E k \in 1 .. Len(parts) : x = <<parts[k].path, parts[k].value>>
<1>3. ASSUME NEW h, parts = KeyParts(Payload(h, 0), paths) PROVE Of(h)
  <2>1. PICK P : P = Payload(h, 0)
    OBVIOUS
  <2>2. parts = KeyParts(P, paths)
    BY <1>3, <2>1
  <2>3. PartsTell(parts, P, paths)
    BY <1>1, <2>2, PartsAreValues
  <2>4. \A x : x \in Values(h) <=>
              \E i \in 1 .. Len(paths) :
                 /\ HasValue(P, paths[i])
                 /\ x = <<paths[i], ExtractPayloadValue(P, paths[i])>>
    BY <2>1, ValuesAre
  <2>5. ASSUME NEW x \in Values(h)
        PROVE  \E k \in 1 .. Len(parts) : x = <<parts[k].path, parts[k].value>>
    <3>1. PICK i \in 1 .. Len(paths) : /\ HasValue(P, paths[i])
                                       /\ x = <<paths[i], ExtractPayloadValue(P, paths[i])>>
      BY <2>4
    <3>2. PICK k \in 1 .. Len(parts) : /\ parts[k].path = paths[i]
                                       /\ parts[k].value = ExtractPayloadValue(P, paths[i])
      BY <2>3, <3>1 DEF PartsTell
    <3>3. QED
      BY <3>1, <3>2
  <2>6. ASSUME NEW k \in 1 .. Len(parts)
        PROVE  <<parts[k].path, parts[k].value>> \in Values(h)
    <3>1. PICK i \in 1 .. Len(paths) :
             /\ HasValue(P, paths[i])
             /\ parts[k].path = paths[i] /\ parts[k].value = ExtractPayloadValue(P, paths[i])
      BY <2>3 DEF PartsTell
    <3>2. QED
      BY <2>4, <3>1
  <2>7. QED
    BY <2>5, <2>6
<1>4. Of(f) /\ Of(g)
  BY <1>2, <1>3
<1>5. QED
  BY <1>4

(* The price of a keyed flight is no part of its identity. *)
LEMMA KeyedIdentity ==
    ASSUME MarketTypes, NEW f \in Flight, Keyed(f), NEW p \in Price, NEW q \in Price
    PROVE  IdentityOf(f, p, paths) = IdentityOf(f, q, paths)
<1>1. /\ KeyParts(Payload(f, p), paths) = KeyParts(Payload(f, q), paths)
      /\ KeyParts(Payload(f, p), paths) # << >>
  BY PriceIsNoKey, KeyedHasParts
<1>2. QED
  BY <1>1 DEF IdentityOf, Identity, Fallback

(* Flights that the keys tell apart have different identities. *)
LEMMA ApartIdentities ==
    ASSUME MarketTypes, NEW f \in Flight, NEW g \in Flight, ToldApart(f, g),
           NEW p \in Price, NEW q \in Price
    PROVE  IdentityOf(f, p, paths) # IdentityOf(g, q, paths)
<1> SUFFICES ASSUME IdentityOf(f, p, paths) = IdentityOf(g, q, paths) PROVE FALSE
  OBVIOUS
<1>1. /\ f.day = g.day
      /\ KeyParts(Payload(f, p), paths) = KeyParts(Payload(g, q), paths)
  BY DEF IdentityOf, Identity
<1>2. Values(f) = Values(g)
  BY <1>1, PriceIsNoKey, SamePartsSameValues
<1>3. QED
  BY <1>1, <1>2 DEF ToldApart

(* Without a key the whole payload identifies an observation, so that an     *)
(* identity is one of a single price.                                        *)
LEMMA UnkeyedIdentity ==
    ASSUME MarketTypes, NEW f \in Flight, NEW g \in Flight, ~Keyed(f),
           NEW p \in Price, NEW q \in Price,
           IdentityOf(f, p, paths) = IdentityOf(g, q, paths)
    PROVE  p = q
<1>1. KeyParts(Payload(f, p), paths) = << >>
  BY PriceIsNoKey, KeyedHasParts
<1>2. /\ KeyParts(Payload(g, q), paths) = << >>
      /\ Fallback(<< >>, f.day, Payload(f, p)) = Fallback(<< >>, g.day, Payload(g, q))
  BY <1>1 DEF IdentityOf, Identity
<1>3. Payload(f, p) = Payload(g, q)
  BY <1>2 DEF Fallback
<1>4. QED
  BY <1>3 DEF Payload, Object, Leaf

(* Of a fare that a listing has in one place, a poll stores the one price. *)
LEMMA OnceListed ==
    ASSUME NEW n \in Nat, NEW fares, Len(fares) = n, NEW j \in 1 .. n, NEW fare,
           \A i \in 1 .. n : fares[i].fare = fare <=> i = j
    PROVE  Watch!PricesOf(fare, fares) = <<fares[j].price>>
<1>1. {i \in 1 .. Len(fares) : fares[i].fare = fare} = {j}
  OBVIOUS
<1>2. {j} \in SUBSET Int /\ Lists(<<j>>, {j})
  BY DEF Lists
<1>3. Ascending({j}) = <<j>>
  BY <1>2, OnlyAscending
<1>4. PICK own : own = Watch!Ascending({i \in 1 .. Len(fares) : fares[i].fare = fare})
  OBVIOUS
<1>5. own = <<j>>
  BY <1>1, <1>3, <1>4, SameOrder
<1>6. Watch!PricesOf(fare, fares) = [k \in 1 .. Len(own) |-> fares[own[k]].price]
  BY <1>4 DEF Watch!PricesOf
<1>7. Len(own) = 1 /\ own[1] = j
  BY <1>5
<1>8. Watch!PricesOf(fare, fares) = [k \in 1 .. 1 |-> fares[j].price]
  BY <1>6, <1>7
<1>9. QED
  BY <1>8

(* Of a fare that a listing does not have, it stores none. *)
LEMMA NotListed ==
    ASSUME NEW n \in Nat, NEW fares, Len(fares) = n, NEW fare,
           \A i \in 1 .. n : fares[i].fare # fare
    PROVE  Watch!PricesOf(fare, fares) = << >>
<1>1. {i \in 1 .. Len(fares) : fares[i].fare = fare} = {}
  OBVIOUS
<1>2. {} \in SUBSET Int /\ Lists(<< >>, {})
  BY DEF Lists
<1>3. Ascending({}) = << >>
  BY <1>2, OnlyAscending
<1>4. PICK own : own = Watch!Ascending({i \in 1 .. Len(fares) : fares[i].fare = fare})
  OBVIOUS
<1>5. own = << >>
  BY <1>1, <1>3, <1>4, SameOrder
<1>6. Watch!PricesOf(fare, fares) = [k \in 1 .. Len(own) |-> fares[own[k]].price]
  BY <1>4 DEF Watch!PricesOf
<1>7. QED
  BY <1>5, <1>6

-----------------------------------------------------------------------------
(* What the history says about single flights. *)

(* A flight whose keys tell it from all others. *)
Unmistakable(f) == Keyed(f) /\ \A g \in schedule \ {f} : ToldApart(f, g)

(* What is stored of a fare are prices of flights that have this identity at *)
(* that price; of an unmistakable flight they are what polls saw, one by     *)
(* one; and the changes recorded are those between them.                     *)
ObservationsAreSightings ==
    \A fare \in Fare : \A v : Holds(observed[fare], v) =>
        v \in Price /\ \E f \in schedule : fare = IdentityOf(f, v, paths)

UnmistakableIsFollowed ==
    \A f \in schedule : Unmistakable(f) =>
        \A p \in Price : observed[IdentityOf(f, p, paths)] = seen[f]

ChangesAreTransitions == \A fare \in Fare : changes[fare] = Watch!Transitions(observed[fare])

FlightInvariant ==
    MarketTypes /\ ObservationsAreSightings /\ UnmistakableIsFollowed /\ ChangesAreTransitions

(* Nothing changes within nothing. *)
LEMMA NoTransitions == Watch!Transitions(<< >>) = << >>
<1>1. {i \in 1 .. Len(<< >>) : Watch!PriceBefore(<< >>, i) # << >>[i]} = {}
  OBVIOUS
<1>2. {} \in SUBSET Int /\ Lists(<< >>, {})
  BY DEF Lists
<1>3. Ascending({}) = << >>
  BY <1>2, OnlyAscending
<1>4. PICK changed :
         changed = Watch!Ascending({i \in 1 .. Len(<< >>) : Watch!PriceBefore(<< >>, i) # << >>[i]})
  OBVIOUS
<1>5. changed = << >>
  BY <1>1, <1>3, <1>4, SameOrder
<1>6. Watch!Transitions(<< >>) = [k \in 1 .. Len(changed) |->
            [old |-> Watch!PriceBefore(<< >>, changed[k]), new |-> << >>[changed[k]]]]
  BY <1>4 DEF Watch!Transitions
<1>7. QED
  BY <1>5, <1>6

(* With nothing stored and nothing seen there is nothing to say. *)
LEMMA NothingSeen ==
    ASSUME MarketTypes, \A f \in schedule : seen[f] = << >>,
           \A fare \in Fare : observed[fare] = << >> /\ changes[fare] = << >>
    PROVE  FlightInvariant
<1>1. ObservationsAreSightings
  BY EmptyHolds DEF ObservationsAreSightings
<1>2. UnmistakableIsFollowed
  BY IdentitiesAreFares DEF UnmistakableIsFollowed, MarketTypes
<1>3. ChangesAreTransitions
  BY NoTransitions DEF ChangesAreTransitions
<1>4. QED
  BY <1>1, <1>2, <1>3 DEF FlightInvariant

(* A poll stores sightings. *)
LEMMA PollStoresSightings ==
    ASSUME MarketTypes, ObservationsAreSightings, MarketTypes',
           NEW offer \in [schedule -> Price \cup {NoPrice}], schedule' = schedule, paths' = paths,
           NEW n \in Nat, NEW listed, NEW fares, HandedOver(offer, n, listed, fares), Recorded(fares)
    PROVE  ObservationsAreSightings'
<1> SUFFICES ASSUME NEW fare \in Fare, NEW v, Holds(observed'[fare], v)
             PROVE  v \in Price /\ \E f \in schedule : fare = IdentityOf(f, v, paths)
  BY DEF ObservationsAreSightings
<1>1. PICK prices : prices = Watch!PricesOf(fare, fares)
  OBVIOUS
<1>2. /\ Len(prices) \in Nat /\ DOMAIN prices = 1 .. Len(prices)
      /\ prices = [k \in DOMAIN prices |-> prices[k]]
      /\ \A k \in 1 .. Len(prices) :
            \E i \in 1 .. n : fares[i].fare = fare /\ prices[k] = fares[i].price
  BY <1>1, PricesAreThoseListed DEF HandedOver
<1>3. \A i \in 1 .. n : /\ listed[i] \in schedule /\ fares[i].price \in Price
                        /\ fares[i].fare = IdentityOf(listed[i], fares[i].price, paths)
  BY DEF HandedOver, OnSale
<1>4. prices \in Seq(Price)
  <2>1. \A k \in 1 .. Len(prices) : prices[k] \in Price
    BY <1>2, <1>3
  <2>2. prices \in [1 .. Len(prices) -> Price]
    BY <1>2, <2>1
  <2>3. QED
    BY <1>2, <2>2
<1>5. observed[fare] \in Seq(Price) /\ observed'[fare] = observed[fare] \o prices
  BY <1>1 DEF MarketTypes, Recorded
<1>6. Holds(observed[fare], v) \/ Holds(prices, v)
  BY <1>4, <1>5, ConcatHolds
<1>7. CASE Holds(observed[fare], v)
  BY <1>7 DEF ObservationsAreSightings
<1>8. CASE Holds(prices, v)
  BY <1>2, <1>3, <1>8 DEF Holds
<1>9. QED
  BY <1>6, <1>7, <1>8

(* A poll stores the price of an unmistakable flight under its identity, and *)
(* no other price; and nothing when the flight is not on sale.               *)
LEMMA PollFollows ==
    ASSUME MarketTypes, UnmistakableIsFollowed, MarketTypes',
           NEW offer \in [schedule -> Price \cup {NoPrice}], Poll(offer),
           schedule' = schedule, paths' = paths,
           NEW n \in Nat, NEW listed, NEW fares, HandedOver(offer, n, listed, fares), Recorded(fares)
    PROVE  UnmistakableIsFollowed'
<1>1. \A f : Unmistakable(f)' <=> Unmistakable(f)
  BY DEF Unmistakable, Keyed, Values, ToldApart
<1>2. SUFFICES ASSUME NEW f \in schedule, Unmistakable(f), NEW p \in Price
               PROVE  observed'[IdentityOf(f, p, paths)] = seen'[f]
  BY <1>1 DEF UnmistakableIsFollowed
<1>3. f \in Flight /\ Keyed(f) /\ \A g \in schedule \ {f} : ToldApart(f, g)
  BY <1>2 DEF Unmistakable, MarketTypes
<1>4. PICK fare \in Fare : fare = IdentityOf(f, p, paths)
  BY <1>3, IdentitiesAreFares DEF MarketTypes
<1>5. observed[fare] = seen[f] /\ seen[f] \in Seq(Price)
  BY <1>2, <1>4 DEF UnmistakableIsFollowed, MarketTypes
<1>6. observed'[fare] = observed[fare] \o Watch!PricesOf(fare, fares)
  BY DEF Recorded
<1>7. seen'[f] = IF f \in OnSale(offer) THEN Append(seen[f], offer[f]) ELSE seen[f]
  BY DEF Poll
<1>8. ASSUME NEW i \in 1 .. n
      PROVE  fares[i].fare = fare <=> listed[i] = f
  <2>1. /\ listed[i] \in schedule /\ listed[i] \in Flight /\ offer[listed[i]] \in Price
        /\ fares[i].fare = IdentityOf(listed[i], offer[listed[i]], paths)
    BY DEF HandedOver, OnSale, MarketTypes
  <2>2. CASE listed[i] = f
    BY <1>3, <1>4, <2>1, <2>2, KeyedIdentity
  <2>3. CASE listed[i] # f
    <3>1. ToldApart(f, listed[i])
      BY <1>3, <2>1, <2>3
    <3>2. IdentityOf(f, p, paths) # IdentityOf(listed[i], offer[listed[i]], paths)
      BY <1>3, <2>1, <3>1, ApartIdentities
    <3>3. QED
      BY <1>4, <2>1, <2>3, <3>2
  <2>4. QED
    BY <2>2, <2>3
<1>9. CASE f \in OnSale(offer)
  <2>1. PICK j \in 1 .. n : \A i \in 1 .. n : listed[i] = f <=> i = j
    BY <1>9 DEF HandedOver
  <2>2. Watch!PricesOf(fare, fares) = <<fares[j].price>>
    BY <1>8, <2>1, OnceListed DEF HandedOver
  <2>3. fares[j].price = offer[f] /\ offer[f] \in Price
    BY <1>9, <2>1 DEF HandedOver, OnSale
  <2>4. observed'[fare] = seen[f] \o <<offer[f]>>
    BY <1>5, <1>6, <2>2, <2>3
  <2>5. QED
    BY <1>4, <1>5, <1>7, <1>9, <2>3, <2>4
<1>10. CASE f \notin OnSale(offer)
  <2>1. \A i \in 1 .. n : listed[i] # f
    BY <1>10 DEF HandedOver
  <2>2. Watch!PricesOf(fare, fares) = << >>
    BY <1>8, <2>1, NotListed DEF HandedOver
  <2>3. QED
    BY <1>4, <1>5, <1>6, <1>7, <1>10, <2>2
<1>11. QED
  BY <1>9, <1>10

(* All of it holds always. *)
LEMMA FlightsHold == Spec => []FlightInvariant
<1>1. Init => FlightInvariant
  <2> SUFFICES ASSUME Init PROVE FlightInvariant
    OBVIOUS
  <2>1. PICK s \in Scenario : schedule = s.flights /\ seen = [f \in s.flights |-> << >>]
    BY DEF Init
  <2>2. \A f \in schedule : seen[f] = << >>
    BY <2>1
  <2>3. \A fare \in Fare : observed[fare] = << >> /\ changes[fare] = << >>
    BY DEF Init, Watch!Init
  <2>4. QED
    BY <2>2, <2>3, MarketInit, NothingSeen DEF MarketInvariant
<1>2. FlightInvariant /\ MarketTypes' /\ [Next]_vars => FlightInvariant'
  <2> SUFFICES ASSUME FlightInvariant, MarketTypes', [Next]_vars PROVE FlightInvariant'
    OBVIOUS
  <2>1. MarketTypes /\ ObservationsAreSightings /\ UnmistakableIsFollowed /\ ChangesAreTransitions
    BY DEF FlightInvariant
  <2>2. CASE UNCHANGED <<schedule, paths, seen, observed, changes>>
    <3>1. /\ schedule' = schedule /\ paths' = paths /\ seen' = seen
          /\ observed' = observed /\ changes' = changes
      BY <2>2
    <3>2. ObservationsAreSightings'
      BY <2>1, <3>1 DEF ObservationsAreSightings
    <3>3. \A f : Unmistakable(f)' <=> Unmistakable(f)
      BY <3>1 DEF Unmistakable, Keyed, Values, ToldApart
    <3>4. UnmistakableIsFollowed'
      BY <2>1, <3>1, <3>3 DEF UnmistakableIsFollowed
    <3>5. ChangesAreTransitions'
      BY <2>1, <3>1 DEF ChangesAreTransitions
    <3>6. QED
      BY <3>2, <3>4, <3>5 DEF FlightInvariant
  <2>3. CASE DeleteSubscription
    <3>1. /\ seen' = [f \in schedule |-> << >>] /\ schedule' = schedule
          /\ observed' = [fare \in Fare |-> << >>] /\ changes' = [fare \in Fare |-> << >>]
      BY <2>3 DEF DeleteSubscription, Watch!Delete
    <3>2. /\ \A f \in schedule' : seen'[f] = << >>
          /\ \A fare \in Fare : observed'[fare] = << >> /\ changes'[fare] = << >>
      BY <3>1
    <3>3. ObservationsAreSightings'
      BY <3>2, EmptyHolds DEF ObservationsAreSightings
    <3>4. UnmistakableIsFollowed'
      BY <3>2, IdentitiesAreFares DEF UnmistakableIsFollowed, MarketTypes
    <3>5. ChangesAreTransitions'
      BY <3>2, NoTransitions DEF ChangesAreTransitions
    <3>6. QED
      BY <3>3, <3>4, <3>5 DEF FlightInvariant
  <2>4. CASE \E offer \in [schedule -> Price \cup {NoPrice}] : Poll(offer)
    <3>1. PICK offer \in [schedule -> Price \cup {NoPrice}] : Poll(offer)
      BY <2>4
    <3>2. schedule' = schedule /\ paths' = paths
      BY <3>1 DEF Poll
    <3>3. PICK n \in Nat : \E listed, fares : HandedOver(offer, n, listed, fares) /\ Recorded(fares)
      BY <2>1, <3>1, PollObserves
    <3>4. PICK listed, fares : HandedOver(offer, n, listed, fares) /\ Recorded(fares)
      BY <3>3
    <3>5. ObservationsAreSightings'
      BY <2>1, <3>2, <3>4, PollStoresSightings
    <3>6. UnmistakableIsFollowed'
      BY <2>1, <3>1, <3>2, <3>4, PollFollows
    <3>7. ChangesAreTransitions'
      BY <3>4 DEF Recorded, ChangesAreTransitions
    <3>8. QED
      BY <3>5, <3>6, <3>7 DEF FlightInvariant
  <2>5. QED
    BY <2>2, <2>3, <2>4 DEF Next, DayPasses, vars, stored
<1>3. MarketInvariant => MarketTypes
  BY DEF MarketInvariant
<1>4. QED
  BY <1>1, <1>2, <1>3, MarketHolds, PTL DEF Spec

(* Of a flight that its keys tell from all others exactly the changes of its *)
(* price are recorded, for any flights, prices, keys that ignore the price,  *)
(* and order of polls.                                                       *)
THEOREM RepricingsStayEvents == Spec => []RepricingsAreEvents
<1>1. FlightInvariant => RepricingsAreEvents
  <2> SUFFICES ASSUME FlightInvariant, NEW f \in schedule, Keyed(f),
                      \A g \in schedule \ {f} : ToldApart(f, g), NEW p \in Price
               PROVE  changes[IdentityOf(f, p, paths)] = Watch!Transitions(seen[f])
    BY DEF RepricingsAreEvents
  <2>1. MarketTypes /\ f \in Flight
    BY DEF FlightInvariant, MarketTypes
  <2>2. IdentityOf(f, p, paths) \in Fare
    BY <2>1, IdentitiesAreFares DEF MarketTypes
  <2>3. observed[IdentityOf(f, p, paths)] = seen[f]
    BY DEF FlightInvariant, UnmistakableIsFollowed, Unmistakable
  <2>4. QED
    BY <2>2, <2>3 DEF FlightInvariant, ChangesAreTransitions
<1>2. QED
  BY <1>1, FlightsHold, PTL

(* A change within a sequence of prices joins two different ones that follow *)
(* one another, or has no price before it.                                   *)
LEMMA TransitionsJoinNeighbours ==
    ASSUME NEW S, NEW s \in Seq(S), NEW i \in 1 .. Len(Watch!Transitions(s))
    PROVE  \E c \in 1 .. Len(s) :
              /\ Watch!Transitions(s)[i] = [old |-> Watch!PriceBefore(s, c), new |-> s[c]]
              /\ Watch!PriceBefore(s, c) # s[c]
<1> DEFINE I == {c \in 1 .. Len(s) : Watch!PriceBefore(s, c) # s[c]}
<1>1. PICK changed : changed = Ascending(I)
  OBVIOUS
<1>2. \A c \in I : c \in 1 .. Len(s) /\ Watch!PriceBefore(s, c) # s[c]
  OBVIOUS
<1>3. I \in SUBSET Int /\ IsFiniteSet(I)
  <2>1. Len(s) \in Int /\ 1 \in Int
    OBVIOUS
  <2>2. IsFiniteSet(1 .. Len(s))
    BY <2>1, FS_Interval
  <2>3. I \in SUBSET (1 .. Len(s))
    OBVIOUS
  <2>4. QED
    BY <2>2, <2>3, FS_Subset
<1>4. Watch!Transitions(s) = [k \in 1 .. Len(changed) |->
            [old |-> Watch!PriceBefore(s, changed[k]), new |-> s[changed[k]]]]
  BY <1>1, SameOrder DEF Watch!Transitions
<1> HIDE DEF I
<1>5. Len(changed) \in Nat /\ \A k \in 1 .. Len(changed) : changed[k] \in I
  BY <1>1, <1>3, AscendingLists
<1>6. PICK events : events = Watch!Transitions(s)
  OBVIOUS
<1>7. /\ Len(events) = Len(changed)
      /\ \A k \in 1 .. Len(events) :
            events[k] = [old |-> Watch!PriceBefore(s, changed[k]), new |-> s[changed[k]]]
  BY <1>4, <1>5, <1>6
<1>8. i \in 1 .. Len(events)
  BY <1>6
<1>9. /\ changed[i] \in 1 .. Len(s)
      /\ events[i] = [old |-> Watch!PriceBefore(s, changed[i]), new |-> s[changed[i]]]
      /\ Watch!PriceBefore(s, changed[i]) # s[changed[i]]
  BY <1>2, <1>5, <1>7, <1>8
<1>10. QED
  BY <1>6, <1>9

(* No event joins the prices of two flights, as long as the keyed flights    *)
(* are told apart: for any number of flights, with and without keys.         *)
THEOREM EventsStayWithOneFlight == Spec => []EventsCompareOneFlight
<1>1. FlightInvariant => EventsCompareOneFlight
  <2> SUFFICES ASSUME FlightInvariant,
                      \A f, g \in schedule : f # g /\ Keyed(f) /\ Keyed(g) => ToldApart(f, g),
                      NEW fare \in Fare, NEW i \in 1 .. Len(changes[fare])
               PROVE  \/ changes[fare][i].old = NoPrice
                      \/ \E f \in schedule : \E k \in 1 .. Len(seen[f]) - 1 :
                            changes[fare][i] = [old |-> seen[f][k], new |-> seen[f][k + 1]]
    BY DEF EventsCompareOneFlight
  <2>1. /\ MarketTypes /\ ObservationsAreSightings /\ UnmistakableIsFollowed
        /\ changes[fare] = Watch!Transitions(observed[fare])
        /\ \A f \in schedule : f \in Flight
    BY DEF FlightInvariant, MarketTypes, ChangesAreTransitions
  <2>2. PICK s \in Seq(Price) : s = observed[fare]
    BY <2>1 DEF MarketTypes
  <2>3. PICK c \in 1 .. Len(s) :
           /\ changes[fare][i] = [old |-> Watch!PriceBefore(s, c), new |-> s[c]]
           /\ Watch!PriceBefore(s, c) # s[c]
    BY <2>1, <2>2, TransitionsJoinNeighbours
  <2>4. CASE c = 1
    BY <2>3, <2>4 DEF Watch!PriceBefore
  <2>5. CASE c # 1
    <3>1. PICK k \in 1 .. Len(s) - 1 : c = k + 1
      <4>1. c - 1 \in 1 .. Len(s) - 1 /\ c = (c - 1) + 1
        BY <2>5
      <4>2. QED
        BY <4>1
    <3>2. Watch!PriceBefore(s, c) = s[k] /\ k \in 1 .. Len(s) /\ c \in 1 .. Len(s)
      BY <2>5, <3>1 DEF Watch!PriceBefore
    <3>3. Holds(s, s[k]) /\ Holds(s, s[c])
      BY <3>2 DEF Holds
    <3>4. s[k] \in Price /\ s[c] \in Price
      BY <3>2
    <3>5. PICK f \in schedule : fare = IdentityOf(f, s[c], paths)
      BY <2>1, <2>2, <3>3 DEF ObservationsAreSightings
    <3>6. PICK g \in schedule : fare = IdentityOf(g, s[k], paths)
      BY <2>1, <2>2, <3>3 DEF ObservationsAreSightings
    <3>7. Keyed(f)
      BY <2>1, <2>3, <3>2, <3>4, <3>5, <3>6, UnkeyedIdentity
    <3>8. \A h \in schedule \ {f} : ToldApart(f, h)
      BY <3>7 DEF ToldApart, Keyed
    <3>9. s = seen[f]
      BY <2>1, <2>2, <3>4, <3>5, <3>7, <3>8 DEF UnmistakableIsFollowed, Unmistakable
    <3>10. changes[fare][i] = [old |-> seen[f][k], new |-> seen[f][k + 1]]
      BY <2>3, <3>1, <3>2, <3>9
    <3>11. QED
      BY <3>1, <3>9, <3>10
  <2>6. QED
    BY <2>4, <2>5
<1>2. QED
  BY <1>1, FlightsHold, PTL
=============================================================================
