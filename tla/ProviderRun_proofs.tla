-------------------------- MODULE ProviderRun_proofs --------------------------
(***************************************************************************)
(* What the runs with both adapters keep, for all listings, all answers    *)
(* and any number of attempts.                                             *)
(*                                                                         *)
(* Sorting comes first: the position of a fare in the sorted list is the   *)
(* number of fares that are not after it, and that is a permutation.  Each *)
(* adapter then has an invariant of its own, which says what is known at   *)
(* every point of its search, and the runs add whose turn it is.           *)
(***************************************************************************)
EXTENDS ProviderRun, FiniteSetTheorems, SequenceTheorems, TLAPS

(* R orders U: every two elements one way, and only one way. *)
Orders(R, U) ==
    /\ \A x \in U : <<x, x>> \in R
    /\ \A x, y \in U : <<x, y>> \in R \/ <<y, x>> \in R
    /\ \A x, y \in U : <<x, y>> \in R /\ <<y, x>> \in R => x = y
    /\ \A x, y, z \in U : <<x, y>> \in R /\ <<y, z>> \in R => <<x, z>> \in R

UpTo(R, U, x) == {y \in U : <<y, x>> \in R}

(* Of two elements the later one has the greater rank. *)
LEMMA RankIsMonotone ==
    ASSUME NEW U, IsFiniteSet(U), NEW R, Orders(R, U), NEW x \in U, NEW y \in U
    PROVE  /\ Cardinality(UpTo(R, U, x)) \in 1 .. Cardinality(U)
           /\ <<x, y>> \in R <=> Cardinality(UpTo(R, U, x)) <= Cardinality(UpTo(R, U, y))
<1>1. ASSUME NEW u \in U
      PROVE  /\ IsFiniteSet(UpTo(R, U, u)) /\ UpTo(R, U, u) \in SUBSET U
             /\ Cardinality(UpTo(R, U, u)) \in 1 .. Cardinality(U)
  <2>1. UpTo(R, U, u) \in SUBSET U /\ u \in UpTo(R, U, u)
    BY DEF UpTo, Orders
  <2>2. IsFiniteSet(UpTo(R, U, u)) /\ Cardinality(UpTo(R, U, u)) <= Cardinality(U)
    BY <2>1, FS_Subset
  <2>3. Cardinality(UpTo(R, U, u)) \in Nat /\ Cardinality(U) \in Nat
    BY <2>2, FS_CardinalityType
  <2>4. Cardinality(UpTo(R, U, u)) # 0
    BY <2>1, <2>2, FS_EmptySet
  <2>5. QED
    BY <2>1, <2>2, <2>3, <2>4
<1>2. ASSUME NEW u \in U, NEW v \in U, <<u, v>> \in R
      PROVE  UpTo(R, U, u) \in SUBSET UpTo(R, U, v)
  BY <1>2 DEF UpTo, Orders
<1>3. ASSUME NEW u \in U, NEW v \in U, <<u, v>> \in R, u # v
      PROVE  Cardinality(UpTo(R, U, u)) < Cardinality(UpTo(R, U, v))
  <2>1. UpTo(R, U, u) # UpTo(R, U, v)
    BY <1>3 DEF UpTo, Orders
  <2>2. /\ Cardinality(UpTo(R, U, u)) <= Cardinality(UpTo(R, U, v))
        /\ Cardinality(UpTo(R, U, v)) # Cardinality(UpTo(R, U, u))
    BY <1>1, <1>2, <1>3, <2>1, FS_Subset
  <2>3. QED
    BY <1>1, <2>2
<1>4. CASE x = y
  BY <1>1, <1>4 DEF Orders
<1>5. CASE x # y /\ <<x, y>> \in R
  <2>1. Cardinality(UpTo(R, U, x)) < Cardinality(UpTo(R, U, y))
    BY <1>3, <1>5
  <2>2. QED
    BY <1>1, <1>5, <2>1
<1>6. CASE x # y /\ <<y, x>> \in R
  <2>1. Cardinality(UpTo(R, U, y)) < Cardinality(UpTo(R, U, x))
    BY <1>3, <1>6
  <2>2. <<x, y>> \notin R
    BY <1>6 DEF Orders
  <2>3. QED
    BY <1>1, <2>1, <2>2
<1>7. QED
  BY <1>4, <1>5, <1>6 DEF Orders

(* Every rank is the rank of one element. *)
LEMMA RankIsBijective ==
    ASSUME NEW U, IsFiniteSet(U), NEW R, Orders(R, U)
    PROVE  /\ \A k \in 1 .. Cardinality(U) : \E x \in U : Cardinality(UpTo(R, U, x)) = k
           /\ \A x, y \in U : Cardinality(UpTo(R, U, x)) = Cardinality(UpTo(R, U, y)) => x = y
<1> DEFINE n == Cardinality(U)
           rank == [x \in U |-> Cardinality(UpTo(R, U, x))]
<1>1. n \in Nat /\ IsFiniteSet(1 .. n) /\ Cardinality(1 .. n) = n
  BY FS_CardinalityType, FS_Interval
<1>2. \A x \in U : Cardinality(UpTo(R, U, x)) \in 1 .. n
  BY RankIsMonotone
<1>3. ASSUME NEW x \in U, NEW y \in U, Cardinality(UpTo(R, U, x)) = Cardinality(UpTo(R, U, y))
      PROVE  x = y
  <2>1. Cardinality(UpTo(R, U, x)) \in Int /\ Cardinality(UpTo(R, U, y)) \in Int
    BY <1>2
  <2>2. /\ <<x, y>> \in R <=> Cardinality(UpTo(R, U, x)) <= Cardinality(UpTo(R, U, y))
        /\ <<y, x>> \in R <=> Cardinality(UpTo(R, U, y)) <= Cardinality(UpTo(R, U, x))
    BY RankIsMonotone
  <2>3. <<x, y>> \in R /\ <<y, x>> \in R
    BY <1>3, <2>1, <2>2
  <2>4. QED
    BY <2>3 DEF Orders
<1> HIDE DEF n
<1>4. rank \in [U -> 1 .. n]
  BY <1>2
<1>5. rank \in Injection(U, 1 .. n)
  BY <1>3, <1>4 DEF Injection, IsInjective
<1>6. Cardinality(1 .. n) = Cardinality(U)
  BY <1>1 DEF n
<1> HIDE DEF rank
<1>7. rank \in Surjection(U, 1 .. n)
  BY <1>1, <1>5, <1>6, FS_Injection
<1>8. \A k \in 1 .. n : \E x \in U : rank[x] = k
  BY <1>7 DEF Surjection
<1>9. QED
  BY <1>3, <1>8 DEF rank, n

-----------------------------------------------------------------------------
(* Wizz Air. *)

(* What is assumed of the constants. *)
LEMMA WizzAirConstants ==
    /\ Day \subseteq Int /\ NoDay \notin Day
    /\ Answer \subseteq Seq(WizzAir!Flight)
    /\ MaxAttempts \in Nat \ {0}
  BY AdaptersAssumption DEF WizzAir!ConstantsAreSound

(* The adapters count with FiniteSets' Cardinality too. *)
LEMMA SameCardinality ==
    ASSUME NEW S
    PROVE  WizzAir!Cardinality(S) = Cardinality(S) /\ Ryanair!Cardinality(S) = Cardinality(S)
  BY DEF WizzAir!Cardinality, Ryanair!Cardinality, Cardinality

(* Positions ordered by a date that each of them has, ties by position. *)
LEMMA DatesOrder ==
    ASSUME NEW n \in Nat, NEW U \in SUBSET (1 .. n), NEW d \in [U -> Int], NEW R,
           \A i, j \in U : <<i, j>> \in R <=> d[i] < d[j] \/ (d[i] = d[j] /\ i <= j)
    PROVE  IsFiniteSet(U) /\ Orders(R, U)
<1>1. \A i \in U : i \in Int /\ d[i] \in Int
  OBVIOUS
<1>2. IsFiniteSet(U)
  <2>1. IsFiniteSet(1 .. n)
    BY FS_Interval
  <2>2. QED
    BY <2>1, FS_Subset
<1>3. ASSUME NEW x \in U, NEW y \in U
      PROVE  /\ <<x, x>> \in R /\ (<<x, y>> \in R \/ <<y, x>> \in R)
             /\ <<x, y>> \in R /\ <<y, x>> \in R => x = y
  <2>1. x \in Int /\ y \in Int /\ d[x] \in Int /\ d[y] \in Int
    BY <1>1
  <2>2. /\ <<x, y>> \in R <=> d[x] < d[y] \/ (d[x] = d[y] /\ x <= y)
        /\ <<y, x>> \in R <=> d[y] < d[x] \/ (d[y] = d[x] /\ y <= x)
        /\ <<x, x>> \in R <=> d[x] < d[x] \/ (d[x] = d[x] /\ x <= x)
    OBVIOUS
  <2>3. QED
    BY <2>1, <2>2
<1>4. ASSUME NEW x \in U, NEW y \in U, NEW z \in U, <<x, y>> \in R, <<y, z>> \in R
      PROVE  <<x, z>> \in R
  <2>1. x \in Int /\ y \in Int /\ z \in Int /\ d[x] \in Int /\ d[y] \in Int /\ d[z] \in Int
    BY <1>1
  <2>2. /\ d[x] < d[y] \/ (d[x] = d[y] /\ x <= y)
        /\ d[y] < d[z] \/ (d[y] = d[z] /\ y <= z)
        /\ <<x, z>> \in R <=> d[x] < d[z] \/ (d[x] = d[z] /\ x <= z)
    BY <1>4
  <2>3. QED
    BY <2>1, <2>2
<1>5. Orders(R, U)
  BY <1>3, <1>4 DEF Orders
<1>6. QED
  BY <1>2, <1>5

(* The dates of the flights that can be used, in order. *)
LEMMA DatesAreSorted ==
    ASSUME NEW s \in Seq(WizzAir!Flight)
    PROVE  /\ WizzAir!DatesOf(s) \in Seq(Day)
           /\ \A i, j \in 1 .. Len(WizzAir!DatesOf(s)) :
                 i < j => WizzAir!DatesOf(s)[i] <= WizzAir!DatesOf(s)[j]
<1> DEFINE U == WizzAir!Usable(s)
           d == [i \in U |-> s[i].day]
           R == {p \in U \X U : WizzAir!Earlier(s, p[1], p[2])}
           N == Cardinality(U)
           At(k) == CHOOSE i \in U : WizzAir!Rank(s, i) = k
<1>1. ASSUME NEW i \in U PROVE i \in 1 .. Len(s) /\ s[i].day \in Day /\ s[i].day \in Int
  <2>1. i \in 1 .. Len(s) /\ s[i].day # NoDay
    BY DEF WizzAir!Usable
  <2>2. s[i] \in WizzAir!Flight
    BY <2>1
  <2>3. s[i].day \in Day
    BY <2>1, <2>2 DEF WizzAir!Flight
  <2>4. QED
    BY <2>1, <2>3, WizzAirConstants
<1> HIDE DEF U
<1>2. Len(s) \in Nat /\ U \in SUBSET (1 .. Len(s)) /\ d \in [U -> Int]
  BY <1>1
<1>3. \A i, j \in U : <<i, j>> \in R <=> d[i] < d[j] \/ (d[i] = d[j] /\ i <= j)
  BY DEF WizzAir!Earlier
<1> HIDE DEF R, N
<1>4. IsFiniteSet(U) /\ Orders(R, U) /\ N \in Nat
  <2>1. IsFiniteSet(U) /\ Orders(R, U)
    BY <1>2, <1>3, DatesOrder
  <2>2. QED
    BY <2>1, FS_CardinalityType DEF N
<1>5. ASSUME NEW i \in U PROVE WizzAir!Rank(s, i) = Cardinality(UpTo(R, U, i))
  <2>1. UpTo(R, U, i) = {j \in U : WizzAir!Earlier(s, j, i)}
    BY DEF UpTo, R
  <2>2. QED
    BY <2>1, SameCardinality DEF WizzAir!Rank, U
<1>6. ASSUME NEW k \in 1 .. N PROVE At(k) \in U /\ WizzAir!Rank(s, At(k)) = k
  <2>1. \E i \in U : WizzAir!Rank(s, i) = k
    BY <1>4, <1>5, RankIsBijective DEF N
  <2>2. QED
    BY <2>1
<1>7. WizzAir!DatesOf(s) = [k \in 1 .. N |-> s[At(k)].day]
  <2>1. N = WizzAir!Cardinality(WizzAir!Usable(s))
    BY SameCardinality DEF N, U
  <2>2. QED
    BY <2>1, Zenon DEF WizzAir!DatesOf, U
<1> HIDE DEF At
<1>8. WizzAir!DatesOf(s) \in Seq(Day) /\ Len(WizzAir!DatesOf(s)) = N
  <2>1. \A k \in 1 .. N : s[At(k)].day \in Day
    BY <1>1, <1>6
  <2>2. QED
    BY <1>4, <1>7, <2>1
<1>9. ASSUME NEW i \in 1 .. N, NEW j \in 1 .. N, i < j
      PROVE  WizzAir!DatesOf(s)[i] <= WizzAir!DatesOf(s)[j]
  <2>1. At(i) \in U /\ At(j) \in U
    BY <1>6
  <2>2. Cardinality(UpTo(R, U, At(i))) = i /\ Cardinality(UpTo(R, U, At(j))) = j
    BY <1>5, <1>6, <2>1
  <2>3. <<At(i), At(j)>> \in R
    BY <1>4, <1>9, <2>1, <2>2, RankIsMonotone
  <2>4. d[At(i)] <= d[At(j)]
    <3>1. d[At(i)] < d[At(j)] \/ (d[At(i)] = d[At(j)] /\ At(i) <= At(j))
      BY <1>3, <2>1, <2>3
    <3>2. d[At(i)] \in Int /\ d[At(j)] \in Int
      BY <1>2, <2>1
    <3>3. QED
      BY <3>1, <3>2
  <2>5. QED
    BY <1>7, <2>1, <2>4
<1>10. QED
  BY <1>8, <1>9

(* What is known at every point of a search: which answer was the last, how  *)
(* many requests it took to get there, and that only a search that was       *)
(* switched on to the browser ever has one open.                             *)
InTab == {"open", "sameTab", "popup", "newTab", "evaluate"}
InBrowser == InTab \cup {"close"}

WizzAirSearch ==
    /\ WizzAir!TypeOK
    /\ wzOutcome = "searching" <=> wzPc # "idle"
    /\ wzOutcome # "fares" => wzDates = << >>
    /\ wzPc \in {"idle", "bootstrap"} => wzAttempts = 0
    /\ wzPc = "idle" => visits = 0
    /\ wzPc = "bootstrap" => visits < 2
    /\ browser <=> wzPc \in InBrowser

WizzAirAnswers ==
    /\ wzOutcome = "rateLimit" => answered = "limited"
    /\ wzOutcome = "fares" => answered = "ok"
    /\ wzPc = "launch" => answered = "limited"
    /\ wzPc = "map" => answered = "ok"
    /\ wzPc = "close" => held # "nothing"
    /\ held = "answer" => answered = "ok"
    /\ held = "rateLimit" => answered = "limited"
    /\ held # "nothing" => wzPc = "close"

WizzAirLoad ==
    /\ WizzAir!BoundedLoad
    /\ wzOutcome = "idle" \/ wzPc = "bootstrap" => sent = 0
    /\ wzPc = "post" => sent <= wzAttempts
    /\ wzPc = "launch" => config.fallback
    /\ wzPc \in InBrowser => config.fallback /\ config.installed
    /\ wzPc \in {"launch", "open"} => sent <= MaxAttempts
    /\ wzPc = "sameTab" => sent <= MaxAttempts + 1
    /\ wzPc = "popup" => sent <= MaxAttempts + 2
    /\ wzPc = "newTab" => sent <= MaxAttempts + 3
    /\ wzPc = "evaluate" => sent <= MaxAttempts + 4

WizzAirInv == WizzAirSearch /\ WizzAirAnswers /\ WizzAirLoad

(* It holds before the first search, *)
LEMMA WizzAirInit == WizzAir!Init => WizzAirInv
<1> SUFFICES ASSUME WizzAir!Init PROVE WizzAirInv
  OBVIOUS
<1>1. WizzAirSearch
  <2>1. << >> \in Seq(WizzAir!Flight) /\ << >> \in Seq(Day) /\ 0 \in 0 .. MaxAttempts - 1
    BY WizzAirConstants
  <2>2. WizzAir!NotLoaded \in WizzAir!Config
    BY DEF WizzAir!Config, WizzAir!NotLoaded
  <2>3. WizzAir!TypeOK
    <3>1. visits = 0 /\ wzAttempts = 0 /\ sent = 0 /\ 0 \in 0 .. 2 /\ 0 \in Nat
      BY DEF WizzAir!Init
    <3>2. config \in WizzAir!Config /\ flights \in Seq(WizzAir!Flight) /\ wzDates \in Seq(Day)
      BY <2>1, <2>2, Zenon DEF WizzAir!Init
    <3>3. QED
      BY <2>1, <3>1, <3>2, Zenon DEF WizzAir!Init, WizzAir!TypeOK
  <2>4. QED
    BY <2>3 DEF WizzAir!Init, WizzAirSearch, InTab, InBrowser
<1>2. WizzAirAnswers
  BY DEF WizzAir!Init, WizzAirAnswers
<1>3. WizzAirLoad
  BY WizzAirConstants DEF WizzAir!Init, WizzAirLoad, WizzAir!BoundedLoad,
                          WizzAir!BrowserRequests, WizzAir!NotLoaded, InTab, InBrowser
<1>4. QED
  BY <1>1, <1>2, <1>3 DEF WizzAirInv

(* when a search starts, *)
LEMMA WizzAirSearches ==
    ASSUME WizzAirInv, WizzAir!Search
    PROVE  WizzAirInv'
<1>1. /\ wzOutcome = "idle" /\ wzPc = "idle" /\ ~browser /\ sent = 0
      /\ wzAttempts = 0 /\ visits = 0 /\ held = "nothing"
  BY DEF WizzAirInv, WizzAirSearch, WizzAirAnswers, WizzAirLoad, WizzAir!Search, InTab, InBrowser
<1>2. /\ wzOutcome' = "searching" /\ config' \in WizzAir!Config
      /\ wzPc' \in {"bootstrap", "post"}
      /\ UNCHANGED <<visits, wzAttempts, limited, held, browser, flights, wzDates, answered, sent>>
  BY DEF WizzAir!Search, WizzAir!browserVars, WizzAir!history
<1>3. WizzAirSearch'
  BY <1>1, <1>2 DEF WizzAirInv, WizzAirSearch, WizzAir!TypeOK, InTab, InBrowser
<1>4. WizzAirAnswers'
  BY <1>1, <1>2 DEF WizzAirAnswers
<1>5. WizzAirLoad'
  BY <1>1, <1>2, WizzAirConstants DEF WizzAirLoad, WizzAir!BoundedLoad, WizzAir!BrowserRequests, InTab, InBrowser
<1>6. QED
  BY <1>3, <1>4, <1>5 DEF WizzAirInv

(* and when its result has been handled. *)
LEMMA WizzAirHandles ==
    ASSUME WizzAirInv, WizzAir!Handled
    PROVE  WizzAirInv'
<1>1. wzPc = "idle" /\ ~browser /\ wzAttempts = 0 /\ visits = 0 /\ held = "nothing"
  BY DEF WizzAirInv, WizzAirSearch, WizzAirAnswers, WizzAir!Handled, InTab, InBrowser
<1>2. /\ wzOutcome' = "idle" /\ wzDates' = << >> /\ answered' = "none" /\ sent' = 0
      /\ config' = WizzAir!NotLoaded
      /\ UNCHANGED <<wzPc, visits, wzAttempts, limited, held, browser, flights>>
  BY DEF WizzAir!Handled, WizzAir!browserVars
<1>3. WizzAirSearch'
  BY <1>1, <1>2, WizzAirConstants
     DEF WizzAirInv, WizzAirSearch, WizzAir!TypeOK, WizzAir!Config, WizzAir!NotLoaded, InTab, InBrowser
<1>4. WizzAirAnswers'
  BY <1>1, <1>2 DEF WizzAirAnswers
<1>5. WizzAirLoad'
  BY <1>1, <1>2, WizzAirConstants DEF WizzAirLoad, WizzAir!BoundedLoad, WizzAir!BrowserRequests, InTab, InBrowser
<1>6. QED
  BY <1>3, <1>4, <1>5 DEF WizzAirInv

(* The end of a search, whichever way it came to it. *)
LEMMA WizzAirEnds ==
    ASSUME WizzAirInv, NEW how \in {"fares", "error", "rateLimit"}, NEW found \in Seq(Day),
           how # "fares" => found = << >>,
           WizzAir!EndSearch(how, found), browser' = FALSE,
           answered' \in {"none", "ok", "limited", "failed", "refused"},
           how = "rateLimit" => answered' = "limited",
           how = "fares" => answered' = "ok",
           sent' \in Nat,
           sent' <= MaxAttempts + (IF config.fallback /\ config.installed THEN 5 ELSE 0)
    PROVE  WizzAirInv'
<1>1. /\ wzOutcome' = how /\ wzDates' = found
      /\ wzPc' = "idle" /\ visits' = 0 /\ wzAttempts' = 0
      /\ limited' = FALSE /\ held' = "nothing" /\ flights' = << >>
      /\ config' = config
  BY DEF WizzAir!EndSearch
<1>2. WizzAirSearch'
  <2>1. << >> \in Seq(WizzAir!Flight) /\ 0 \in 0 .. MaxAttempts - 1
    BY WizzAirConstants
  <2>2. config' \in WizzAir!Config
    BY <1>1 DEF WizzAirInv, WizzAirSearch, WizzAir!TypeOK
  <2>3. WizzAir!TypeOK'
    <3>1. 0 \in 0 .. 2
      OBVIOUS
    <3>2. /\ flights' \in Seq(WizzAir!Flight) /\ wzDates' \in Seq(Day)
          /\ visits' \in 0 .. 2 /\ wzAttempts' \in 0 .. MaxAttempts - 1
          /\ wzOutcome' \in {"idle", "searching", "fares", "error", "rateLimit"}
      BY <1>1, <2>1, <3>1, Zenon
    <3>3. QED
      BY <1>1, <2>2, <3>2, Zenon DEF WizzAir!TypeOK
  <2>4. QED
    BY <1>1, <2>3 DEF WizzAirSearch, InTab, InBrowser
<1>3. WizzAirAnswers'
  BY <1>1 DEF WizzAirAnswers
<1>4. WizzAirLoad'
  BY <1>1 DEF WizzAirLoad, WizzAir!BoundedLoad, WizzAir!BrowserRequests, InTab, InBrowser
<1>5. QED
  BY <1>2, <1>3, <1>4 DEF WizzAirInv

(* A request is counted, at most. *)
LEMMA SendCounts ==
    ASSUME sent \in Nat, NEW status, WizzAir!Sent(status)
    PROVE  answered' = status /\ sent' \in Nat /\ sent' <= sent + 1
  BY WizzAirConstants DEF WizzAir!Sent, WizzAir!Count, WizzAir!BrowserRequests

(* One at most is counted of a load of which no answer is read. *)
LEMMA UnreadCounts ==
    ASSUME sent \in Nat, WizzAir!SentUnread
    PROVE  answered' = answered /\ sent' \in Nat /\ sent' <= sent + 1
<1>1. PICK n \in 0 .. 1 : WizzAir!Count(n)
  BY DEF WizzAir!SentUnread
<1>2. n \in Nat /\ n <= 1 /\ (sent' = sent \/ sent' = sent + n)
  BY <1>1 DEF WizzAir!Count
<1>3. QED
  BY <1>2 DEF WizzAir!SentUnread

(* The steps of the HTTP client. *)
LEMMA WizzAirClientSteps ==
    ASSUME WizzAirInv,
           \/ WizzAir!VisitPage \/ WizzAir!VisitFails
           \/ \E found \in Answer : WizzAir!PostAnswered(found)
           \/ \E status \in {"limited", "failed", "refused"} : WizzAir!PostFails(status)
    PROVE  WizzAirInv'
<1>1. WizzAirSearch /\ WizzAirAnswers /\ WizzAirLoad /\ WizzAir!TypeOK
  BY DEF WizzAirInv, WizzAirSearch
<1>2. /\ wzAttempts \in 0 .. MaxAttempts - 1 /\ visits \in 0 .. 2 /\ sent \in Nat
      /\ MaxAttempts \in Nat \ {0} /\ << >> \in Seq(Day)
  BY <1>1, WizzAirConstants DEF WizzAir!TypeOK
<1>3. CASE WizzAir!VisitPage
  <2>1. /\ wzPc = "bootstrap" /\ visits' = visits + 1 /\ visits \in 0 .. 1
        /\ wzPc' = IF visits = 1 THEN "post" ELSE "bootstrap"
        /\ UNCHANGED <<config, wzOutcome, wzAttempts, limited, held, browser, flights, wzDates,
                       answered, sent>>
    BY <1>1, <1>2, <1>3 DEF WizzAir!VisitPage, WizzAirSearch, WizzAir!browserVars, WizzAir!history
  <2>2. WizzAirSearch'
    BY <1>1, <2>1 DEF WizzAirSearch, WizzAir!TypeOK, InTab, InBrowser
  <2>3. WizzAirAnswers'
    BY <1>1, <2>1 DEF WizzAirAnswers
  <2>4. WizzAirLoad'
    BY <1>1, <1>2, <2>1 DEF WizzAirLoad, WizzAir!BoundedLoad, WizzAir!BrowserRequests, InTab, InBrowser, WizzAirSearch
  <2>5. QED
    BY <2>2, <2>3, <2>4 DEF WizzAirInv
<1>4. CASE WizzAir!VisitFails
  <2>1. WizzAir!EndSearch("error", << >>) /\ browser' = FALSE /\ UNCHANGED <<answered, sent>>
    BY <1>1, <1>4 DEF WizzAir!VisitFails, WizzAir!Raise, WizzAirSearch, InTab, InBrowser, WizzAir!history,
                      WizzAir!TypeOK
  <2>2. QED
    BY <1>1, <1>2, <2>1, WizzAirEnds
       DEF WizzAir!TypeOK, WizzAirLoad, WizzAir!BoundedLoad, WizzAir!BrowserRequests
<1>5. ASSUME NEW found \in Answer, WizzAir!PostAnswered(found) PROVE WizzAirInv'
  <2>1. /\ wzPc = "post" /\ flights' = found /\ wzPc' = "map"
        /\ UNCHANGED <<config, wzOutcome, visits, wzAttempts, limited, held, browser, wzDates>>
    BY <1>5 DEF WizzAir!PostAnswered, WizzAir!browserVars
  <2>2. answered' = "ok" /\ sent' \in Nat /\ sent' <= sent + 1
    BY <1>2, <1>5, SendCounts DEF WizzAir!PostAnswered
  <2>3. sent <= wzAttempts
    BY <1>1, <2>1 DEF WizzAirLoad
  <2>4. found \in Seq(WizzAir!Flight)
    BY WizzAirConstants
  <2>5. WizzAirSearch'
    BY <1>1, <2>1, <2>2, <2>4 DEF WizzAirSearch, WizzAir!TypeOK, InTab, InBrowser
  <2>6. WizzAirAnswers'
    BY <1>1, <2>1, <2>2 DEF WizzAirAnswers, WizzAirSearch
  <2>7. WizzAirLoad'
    BY <1>1, <1>2, <2>1, <2>2, <2>3 DEF WizzAirLoad, WizzAir!BoundedLoad, WizzAir!BrowserRequests, InTab, InBrowser, WizzAirSearch
  <2>8. QED
    BY <2>5, <2>6, <2>7 DEF WizzAirInv
<1>6. ASSUME NEW status \in {"limited", "failed", "refused"}, WizzAir!PostFails(status)
      PROVE  WizzAirInv'
  <2>1. wzPc = "post" /\ wzOutcome = "searching" /\ ~browser /\ sent <= wzAttempts
    BY <1>1, <1>6 DEF WizzAir!PostFails, WizzAirSearch, WizzAirLoad, InTab, InBrowser
  <2>2. answered' = status /\ sent' \in Nat /\ sent' <= sent + 1
    BY <1>2, <1>6, SendCounts DEF WizzAir!PostFails
  <2>3. CASE WizzAir!TriedAgain(status)
    <3>1. /\ wzAttempts' = wzAttempts + 1 /\ wzAttempts + 1 < MaxAttempts
          /\ UNCHANGED <<config, wzOutcome, wzPc, visits, limited, held, browser, flights, wzDates>>
      BY <1>6, <2>3 DEF WizzAir!PostFails, WizzAir!TriedAgain, WizzAir!browserVars
    <3>2. WizzAirSearch'
      BY <1>1, <1>2, <2>1, <2>2, <3>1 DEF WizzAirSearch, WizzAir!TypeOK, InTab, InBrowser
    <3>3. WizzAirAnswers'
      BY <1>1, <2>1, <2>2, <3>1 DEF WizzAirAnswers, WizzAirSearch
    <3>4. WizzAirLoad'
      BY <1>1, <1>2, <2>1, <2>2, <3>1 DEF WizzAirLoad, WizzAir!BoundedLoad, WizzAir!BrowserRequests, InTab, InBrowser
    <3>5. QED
      BY <3>2, <3>3, <3>4 DEF WizzAirInv
  <2>4. CASE ~WizzAir!TriedAgain(status) /\ status = "limited" /\ config.fallback
    <3>1. /\ wzPc' = "launch"
          /\ UNCHANGED <<config, wzOutcome, visits, wzAttempts, limited, held, browser, flights,
                         wzDates>>
      BY <1>6, <2>4 DEF WizzAir!PostFails, WizzAir!browserVars
    <3>2. WizzAirSearch'
      BY <1>1, <1>2, <2>1, <2>2, <2>4, <3>1 DEF WizzAirSearch, WizzAir!TypeOK, InTab, InBrowser
    <3>3. WizzAirAnswers'
      BY <1>1, <2>1, <2>2, <2>4, <3>1 DEF WizzAirAnswers, WizzAirSearch
    <3>4. WizzAirLoad'
      BY <1>1, <1>2, <2>1, <2>2, <2>4, <3>1 DEF WizzAirLoad, WizzAir!BoundedLoad, WizzAir!BrowserRequests, InTab, InBrowser
    <3>5. QED
      BY <3>2, <3>3, <3>4 DEF WizzAirInv
  <2>5. CASE ~WizzAir!TriedAgain(status) /\ ~(status = "limited" /\ config.fallback)
    <3>1. PICK how \in {"error", "rateLimit"} :
             /\ WizzAir!EndSearch(how, << >>) /\ browser' = browser
             /\ how = "rateLimit" => status = "limited"
      BY <1>6, <2>5 DEF WizzAir!PostFails, WizzAir!Raise
    <3>2. browser' = FALSE
      BY <1>1, <2>1, <3>1 DEF WizzAir!TypeOK
    <3>3. sent' <= MaxAttempts + (IF config.fallback /\ config.installed THEN 5 ELSE 0)
      BY <1>2, <2>1, <2>2
    <3>4. QED
      BY <1>2, <2>2, <3>1, <3>2, <3>3, WizzAirEnds
  <2>6. QED
    BY <2>3, <2>4, <2>5
<1>7. QED
  BY <1>3, <1>4, <1>5, <1>6

(* A load or an attempt in the browser: one request more at most, and the    *)
(* browser stays open.                                                      *)
LEMMA WizzAirStaysInBrowser ==
    ASSUME WizzAirInv, wzPc \in InTab,
           browser' = browser, limited' \in BOOLEAN, flights' \in Seq(WizzAir!Flight),
           UNCHANGED <<config, wzOutcome, visits, wzAttempts, wzDates>>,
           wzPc' \in InBrowser, held' \in {"nothing", "answer", "error", "rateLimit"},
           held' # "nothing" <=> wzPc' = "close",
           answered' \in {"none", "ok", "limited", "failed", "refused"},
           held' = "answer" => answered' = "ok",
           held' = "rateLimit" => answered' = "limited",
           sent' \in Nat, sent' <= sent + 1,
           wzPc' # "open",
           wzPc' = "sameTab" => wzPc = "open",
           wzPc' = "popup" => wzPc = "sameTab",
           wzPc' = "newTab" => wzPc = "popup",
           wzPc' = "evaluate" => wzPc \in {"popup", "newTab"}
    PROVE  WizzAirInv'
<1>1. WizzAirSearch /\ WizzAirAnswers /\ WizzAirLoad /\ WizzAir!TypeOK
  BY DEF WizzAirInv, WizzAirSearch
<1>2. /\ sent \in Nat /\ MaxAttempts \in Nat \ {0}
      /\ config.fallback /\ config.installed /\ browser /\ wzOutcome = "searching"
  BY <1>1, WizzAirConstants DEF WizzAir!TypeOK, WizzAirSearch, WizzAirLoad, InTab, InBrowser
<1>3. WizzAirSearch'
  <2>1. WizzAir!TypeOK'
    BY <1>1 DEF WizzAir!TypeOK, InTab, InBrowser
  <2>2. QED
    BY <1>1, <1>2, <2>1 DEF WizzAirSearch, InTab, InBrowser
<1>4. WizzAirAnswers'
  BY <1>1, <1>2 DEF WizzAirAnswers, InTab, InBrowser
<1>5. WizzAirLoad'
  <2>1. /\ wzPc = "open" => sent <= MaxAttempts
        /\ wzPc = "sameTab" => sent <= MaxAttempts + 1
        /\ wzPc = "popup" => sent <= MaxAttempts + 2
        /\ wzPc = "newTab" => sent <= MaxAttempts + 3
        /\ wzPc = "evaluate" => sent <= MaxAttempts + 4
    BY <1>1 DEF WizzAirLoad
  <2>2. /\ sent' <= MaxAttempts + 5
        /\ wzPc' = "sameTab" => sent' <= MaxAttempts + 1
        /\ wzPc' = "popup" => sent' <= MaxAttempts + 2
        /\ wzPc' = "newTab" => sent' <= MaxAttempts + 3
        /\ wzPc' = "evaluate" => sent' <= MaxAttempts + 4
    BY <1>2, <2>1 DEF InTab
  <2>3. QED
    BY <1>1, <1>2, <2>2 DEF WizzAirLoad, WizzAir!BoundedLoad, WizzAir!BrowserRequests, InTab, InBrowser
<1>6. QED
  BY <1>3, <1>4, <1>5 DEF WizzAirInv

(* The attempts in the browser. *)
LEMMA WizzAirTabSteps ==
    ASSUME WizzAirInv,
           \/ \E found \in Answer : WizzAir!BrowserAnswered(found)
           \/ \E status \in {"limited", "failed", "refused"} :
                 WizzAir!SameTabFails(status) \/ WizzAir!PopupFails(status)
                 \/ WizzAir!ScriptFails(status)
           \/ WizzAir!OpenBooking \/ WizzAir!OpenPopup
           \/ WizzAir!TabTimesOut \/ WizzAir!BrowserRaises
    PROVE  WizzAirInv'
<1>1. WizzAirSearch /\ WizzAirAnswers /\ WizzAirLoad /\ WizzAir!TypeOK
  BY DEF WizzAirInv, WizzAirSearch
<1>2. /\ sent \in Nat /\ limited \in BOOLEAN /\ flights \in Seq(WizzAir!Flight)
      /\ answered \in {"none", "ok", "limited", "failed", "refused"} /\ sent <= sent + 1
  BY <1>1 DEF WizzAir!TypeOK
<1>3. wzPc \in InTab => held = "nothing"
  BY <1>1 DEF WizzAirAnswers, InTab
<1>4. ASSUME NEW found \in Answer, WizzAir!BrowserAnswered(found) PROVE WizzAirInv'
  <2>1. /\ wzPc \in {"sameTab", "newTab", "evaluate"} /\ flights' = found
        /\ held' = "answer" /\ wzPc' = "close"
        /\ UNCHANGED <<config, wzOutcome, visits, wzAttempts, limited, browser, wzDates>>
    BY <1>4 DEF WizzAir!BrowserAnswered, WizzAir!Found, WizzAir!Finally
  <2>2. answered' = "ok" /\ sent' \in Nat /\ sent' <= sent + 1
    BY <1>2, <1>4, SendCounts DEF WizzAir!BrowserAnswered
  <2>3. flights' \in Seq(WizzAir!Flight)
    BY <2>1, WizzAirConstants
  <2>4. QED
    BY <1>2, <2>1, <2>2, <2>3, WizzAirStaysInBrowser DEF InTab, InBrowser
<1>5. ASSUME NEW status \in {"limited", "failed", "refused"}, WizzAir!SameTabFails(status)
      PROVE  WizzAirInv'
  <2>1. /\ wzPc = "sameTab" /\ wzPc' = "popup" /\ limited' \in BOOLEAN
        /\ UNCHANGED <<config, wzOutcome, visits, wzAttempts, held, browser, flights, wzDates>>
    BY <1>5 DEF WizzAir!SameTabFails
  <2>2. answered' = status /\ sent' \in Nat /\ sent' <= sent + 1
    BY <1>2, <1>5, SendCounts DEF WizzAir!SameTabFails
  <2>3. QED
    BY <1>2, <1>3, <2>1, <2>2, WizzAirStaysInBrowser DEF InTab, InBrowser
<1>6. ASSUME NEW status \in {"limited", "failed", "refused"}, WizzAir!PopupFails(status)
      PROVE  WizzAirInv'
  <2>1. /\ wzPc = "newTab"
        /\ \/ status = "limited" /\ wzPc' = "close" /\ held' = "rateLimit"
           \/ wzPc' = "evaluate" /\ held' = held
        /\ UNCHANGED <<config, wzOutcome, visits, wzAttempts, limited, browser, flights, wzDates>>
    BY <1>6 DEF WizzAir!PopupFails, WizzAir!Finally
  <2>2. answered' = status /\ sent' \in Nat /\ sent' <= sent + 1
    BY <1>2, <1>6, SendCounts DEF WizzAir!PopupFails
  <2>3. QED
    BY <1>2, <1>3, <2>1, <2>2, WizzAirStaysInBrowser DEF InTab, InBrowser
<1>7. ASSUME NEW status \in {"limited", "failed", "refused"}, WizzAir!ScriptFails(status)
      PROVE  WizzAirInv'
  <2>1. /\ wzPc = "evaluate" /\ wzPc' = "close"
        /\ held' = (IF status = "limited" THEN "rateLimit" ELSE "error")
        /\ UNCHANGED <<config, wzOutcome, visits, wzAttempts, limited, browser, flights, wzDates>>
    BY <1>7 DEF WizzAir!ScriptFails, WizzAir!Finally, WizzAir!RateLimitedNow
  <2>2. answered' = status /\ sent' \in Nat /\ sent' <= sent + 1
    BY <1>2, <1>7, SendCounts DEF WizzAir!ScriptFails
  <2>3. QED
    BY <1>2, <1>3, <2>1, <2>2, WizzAirStaysInBrowser DEF InTab, InBrowser
<1>8. CASE WizzAir!TabTimesOut \/ WizzAir!OpenBooking \/ WizzAir!OpenPopup
  <2>1. /\ <<wzPc, wzPc'>> \in {<<"open", "sameTab">>, <<"sameTab", "popup">>, <<"popup", "newTab">>,
                                <<"popup", "evaluate">>, <<"newTab", "evaluate">>}
        /\ UNCHANGED <<config, wzOutcome, visits, wzAttempts, limited, held, browser, flights,
                       wzDates>>
    BY <1>8 DEF WizzAir!TabTimesOut, WizzAir!NextTry, WizzAir!OpenBooking, WizzAir!OpenPopup,
                WizzAir!browserVars
  <2>2. answered' = answered /\ sent' \in Nat /\ sent' <= sent + 1
    BY <1>2, <1>8, UnreadCounts
       DEF WizzAir!TabTimesOut, WizzAir!OpenBooking, WizzAir!OpenPopup
  <2>3. QED
    BY <1>2, <1>3, <2>1, <2>2, WizzAirStaysInBrowser DEF InTab, InBrowser
<1>9. CASE WizzAir!BrowserRaises
  <2>1. /\ wzPc \in InTab /\ wzPc' = "close" /\ held' = "error"
        /\ UNCHANGED <<config, wzOutcome, visits, wzAttempts, limited, browser, flights, wzDates>>
    BY <1>9 DEF WizzAir!BrowserRaises, WizzAir!Finally, InTab
  <2>2. answered' = answered /\ sent' \in Nat /\ sent' <= sent + 1
    BY <1>2, <1>9, UnreadCounts DEF WizzAir!BrowserRaises
  <2>3. QED
    BY <1>2, <1>3, <2>1, <2>2, WizzAirStaysInBrowser DEF InTab, InBrowser
<1>10. QED
  BY <1>4, <1>5, <1>6, <1>7, <1>8, <1>9

(* Opening and closing the browser, and what comes after the last answer. *)
LEMMA WizzAirOtherSteps ==
    ASSUME WizzAirInv,
           \/ WizzAir!ImportFails \/ WizzAir!LaunchFails \/ WizzAir!LaunchBrowser
           \/ WizzAir!NoFirstTab \/ WizzAir!CloseBrowser \/ WizzAir!CloseFails
           \/ WizzAir!MapResponse \/ WizzAir!MapFails
    PROVE  WizzAirInv'
<1>1. WizzAirSearch /\ WizzAirAnswers /\ WizzAirLoad /\ WizzAir!TypeOK
  BY DEF WizzAirInv, WizzAirSearch
<1>2. /\ sent \in Nat /\ << >> \in Seq(Day) /\ flights \in Seq(WizzAir!Flight)
      /\ answered \in {"none", "ok", "limited", "failed", "refused"}
      /\ held \in {"nothing", "answer", "error", "rateLimit"} /\ browser \in BOOLEAN
      /\ sent <= MaxAttempts + (IF config.fallback /\ config.installed THEN 5 ELSE 0)
  BY <1>1 DEF WizzAir!TypeOK, WizzAirLoad, WizzAir!BoundedLoad, WizzAir!BrowserRequests
<1>3. CASE WizzAir!ImportFails \/ WizzAir!LaunchFails \/ WizzAir!MapFails
  <2>1. /\ wzPc \in {"launch", "map"} /\ UNCHANGED <<browser, answered, sent>>
        /\ \/ WizzAir!EndSearch("error", << >>)
           \/ wzPc = "launch" /\ WizzAir!EndSearch("rateLimit", << >>)
    BY <1>3 DEF WizzAir!ImportFails, WizzAir!LaunchFails, WizzAir!MapFails, WizzAir!Raise,
                WizzAir!history
  <2>2. browser' = FALSE /\ (wzPc = "launch" => answered' = "limited")
    BY <1>1, <1>2, <2>1 DEF WizzAirSearch, WizzAirAnswers, InTab, InBrowser
  <2>3. QED
    BY <1>2, <2>1, <2>2, WizzAirEnds
<1>4. CASE WizzAir!LaunchBrowser
  <2>1. /\ wzPc = "launch" /\ config.installed /\ browser' = TRUE /\ wzPc' = "open"
        /\ UNCHANGED <<config, wzOutcome, visits, wzAttempts, limited, held, flights, wzDates,
                       answered, sent>>
    BY <1>4 DEF WizzAir!LaunchBrowser, WizzAir!history
  <2>2. WizzAirSearch'
    BY <1>1, <2>1 DEF WizzAirSearch, WizzAir!TypeOK, InTab, InBrowser
  <2>3. WizzAirAnswers'
    BY <1>1, <2>1 DEF WizzAirAnswers, WizzAirSearch
  <2>4. WizzAirLoad'
    BY <1>1, <1>2, <2>1 DEF WizzAirLoad, WizzAir!BoundedLoad, WizzAir!BrowserRequests, WizzAirSearch, InTab, InBrowser
  <2>5. QED
    BY <2>2, <2>3, <2>4 DEF WizzAirInv
<1>5. CASE WizzAir!CloseBrowser /\ held = "answer"
  <2>1. /\ wzPc = "close" /\ browser' = FALSE /\ wzPc' = "map" /\ held' = "nothing"
        /\ UNCHANGED <<config, wzOutcome, visits, wzAttempts, limited, flights, wzDates,
                       answered, sent>>
    BY <1>5 DEF WizzAir!CloseBrowser, WizzAir!history
  <2>2. WizzAirSearch'
    BY <1>1, <2>1 DEF WizzAirSearch, WizzAir!TypeOK, InTab, InBrowser
  <2>3. WizzAirAnswers'
    BY <1>1, <1>5, <2>1 DEF WizzAirAnswers, WizzAirSearch
  <2>4. WizzAirLoad'
    BY <1>1, <1>2, <2>1 DEF WizzAirLoad, WizzAir!BoundedLoad, WizzAir!BrowserRequests, WizzAirSearch, InTab, InBrowser
  <2>5. QED
    BY <2>2, <2>3, <2>4 DEF WizzAirInv
<1>6. CASE WizzAir!CloseBrowser /\ held # "answer"
  <2>1. wzPc = "close" /\ browser' = FALSE /\ WizzAir!EndSearch(held, << >>)
        /\ UNCHANGED <<answered, sent>>
    BY <1>6 DEF WizzAir!CloseBrowser, WizzAir!Raise, WizzAir!history
  <2>2. held \in {"error", "rateLimit"} /\ (held = "rateLimit" => answered' = "limited")
    BY <1>1, <1>2, <1>6, <2>1 DEF WizzAirAnswers
  <2>3. QED
    BY <1>2, <2>1, <2>2, WizzAirEnds
<1>7. CASE WizzAir!CloseFails \/ WizzAir!NoFirstTab
  <2>1. browser' = FALSE /\ WizzAir!EndSearch("error", << >>) /\ UNCHANGED <<answered, sent>>
    BY <1>7 DEF WizzAir!CloseFails, WizzAir!NoFirstTab, WizzAir!Raise, WizzAir!history
  <2>2. QED
    BY <1>2, <2>1, WizzAirEnds
<1>8. CASE WizzAir!MapResponse
  <2>1. /\ wzPc = "map" /\ UNCHANGED <<browser, answered, sent>>
        /\ WizzAir!EndSearch("fares", WizzAir!DatesOf(flights))
    BY <1>8 DEF WizzAir!MapResponse, WizzAir!history
  <2>2. browser' = FALSE /\ answered' = "ok"
    BY <1>1, <1>2, <2>1 DEF WizzAirSearch, WizzAirAnswers, InTab, InBrowser
  <2>3. WizzAir!DatesOf(flights) \in Seq(Day)
    BY <1>2, DatesAreSorted
  <2>4. QED
    BY <1>2, <2>1, <2>2, <2>3, WizzAirEnds
<1>9. QED
  BY <1>3, <1>4, <1>5, <1>6, <1>7, <1>8

(* Every step of a search keeps what is known of it. *)
LEMMA WizzAirSteps ==
    ASSUME WizzAirInv, WizzAir!Step
    PROVE  WizzAirInv'
<1>1. \/ WizzAir!VisitPage \/ WizzAir!VisitFails
      \/ \E found \in Answer : WizzAir!PostAnswered(found)
      \/ \E status \in {"limited", "failed", "refused"} : WizzAir!PostFails(status)
      \/ \E found \in Answer : WizzAir!BrowserAnswered(found)
      \/ \E status \in {"limited", "failed", "refused"} :
            WizzAir!SameTabFails(status) \/ WizzAir!PopupFails(status)
            \/ WizzAir!ScriptFails(status)
      \/ WizzAir!OpenBooking \/ WizzAir!OpenPopup
      \/ WizzAir!TabTimesOut \/ WizzAir!BrowserRaises
      \/ WizzAir!ImportFails \/ WizzAir!LaunchFails \/ WizzAir!LaunchBrowser
      \/ WizzAir!NoFirstTab
      \/ WizzAir!CloseBrowser \/ WizzAir!CloseFails
      \/ WizzAir!MapResponse \/ WizzAir!MapFails
  BY Zenon DEF WizzAir!Step
<1>2. QED
  BY <1>1, WizzAirClientSteps, WizzAirTabSteps, WizzAirOtherSteps, Zenon

-----------------------------------------------------------------------------
(* Ryanair. *)

(* What is assumed of the constants, of the empty listing too. *)
LEMMA RyanairConstants ==
    /\ MaxPages \in Nat \ {0} /\ MaxAttempts \in Nat \ {0} /\ Day \subseteq Int
    /\ 1 \in Ryanair!Page
    /\ \A l \in Listing \cup {Ryanair!Nothing}, p \in Ryanair!Page :
          /\ l[p].dates \in Seq(Day)
          /\ l[p].next = 0 \/ (l[p].next \in Ryanair!Page /\ p < l[p].next)
<1>1. /\ MaxPages \in Nat \ {0} /\ MaxAttempts \in Nat \ {0} /\ Day \subseteq Int
  BY AdaptersAssumption DEF Ryanair!ConstantsAreSound, WizzAir!ConstantsAreSound
<1>2. ASSUME NEW l \in Listing, NEW p \in Ryanair!Page
      PROVE  /\ l[p].dates \in Seq(Day)
             /\ l[p].next = 0 \/ (l[p].next \in Ryanair!Page /\ p < l[p].next)
  <2>1. /\ l \in [Ryanair!Page -> [dates : Seq(Day), next : Ryanair!Page \cup {Ryanair!End}]]
        /\ l[p].next \in {Ryanair!End} \cup p + 1 .. MaxPages
    BY AdaptersAssumption DEF Ryanair!ConstantsAreSound
  <2>2. l[p].dates \in Seq(Day)
    BY <2>1
  <2>3. p \in 1 .. MaxPages
    BY DEF Ryanair!Page
  <2>4. QED
    BY <1>1, <2>1, <2>2, <2>3 DEF Ryanair!Page, Ryanair!End
<1>3. ASSUME NEW p \in Ryanair!Page
      PROVE  /\ Ryanair!Nothing[p].dates \in Seq(Day)
             /\ Ryanair!Nothing[p].next = 0
  <2>1. Ryanair!Nothing[p] = [dates |-> << >>, next |-> Ryanair!End]
    BY DEF Ryanair!Nothing
  <2>2. << >> \in Seq(Day)
    OBVIOUS
  <2>3. QED
    BY <2>1, <2>2 DEF Ryanair!End
<1>4. QED
  BY <1>1, <1>2, <1>3 DEF Ryanair!Page

(* Multiplying by the number of attempts keeps an order. *)
LEMMA AttemptsScale ==
    ASSUME NEW m \in Nat, NEW a \in Nat, NEW b \in Nat, a <= b
    PROVE  m * a \in Nat /\ m * b \in Nat /\ m * a <= m * b /\ m * (a + 1) = m * a + m
  OBVIOUS

(* Fares by page, then by position. *)
Before(f, g) == f[1] < g[1] \/ (f[1] = g[1] /\ f[2] < g[2])
InOrder(s) == \A i, j \in 1 .. Len(s) : i < j => Before(s[i], s[j])
Collected(V) == UNION {{<<p, i>> : i \in 1 .. Len(listing[p].dates)} : p \in V}

(* Sorting keeps every fare, puts them by date, and leaves fares of one date *)
(* in the order they were in.                                                *)
LEMMA SortingIsStable ==
    ASSUME NEW s, NEW F, s \in Seq(F), \A f \in F : Ryanair!DateOf(f) \in Int, InOrder(s),
           NEW t, t = Ryanair!SortedByDate(s)
    PROVE  /\ t \in Seq(F) /\ Len(t) = Len(s) /\ Ryanair!ToSet(t) = Ryanair!ToSet(s)
           /\ \A i, j \in 1 .. Len(t) : i < j =>
                 \/ Ryanair!DateOf(t[i]) < Ryanair!DateOf(t[j])
                 \/ Ryanair!DateOf(t[i]) = Ryanair!DateOf(t[j]) /\ Before(t[i], t[j])
<1> DEFINE U == 1 .. Len(s)
           d == [i \in U |-> Ryanair!DateOf(s[i])]
           R == {p \in U \X U : Ryanair!Earlier(s, p[1], p[2])}
           At(k) == CHOOSE i \in U : Ryanair!Rank(s, i) = k
<1>1. Len(s) \in Nat /\ U \in SUBSET (1 .. Len(s)) /\ d \in [U -> Int]
  <2>1. \A i \in U : s[i] \in F
    OBVIOUS
  <2>2. QED
    BY <2>1
<1>2. \A i, j \in U : <<i, j>> \in R <=> d[i] < d[j] \/ (d[i] = d[j] /\ i <= j)
  BY DEF Ryanair!Earlier
<1>3. Cardinality(U) = Len(s)
  <2>1. Cardinality(U) = IF 1 > Len(s) THEN 0 ELSE Len(s) - 1 + 1
    BY <1>1, FS_Interval
  <2>2. QED
    BY <1>1, <2>1
<1> HIDE DEF R
<1>4. IsFiniteSet(U) /\ Orders(R, U)
  <2> HIDE DEF U, d
  <2>1. QED
    BY <1>1, <1>2, DatesOrder
<1>5. ASSUME NEW i \in U
      PROVE  Ryanair!Rank(s, i) = Cardinality(UpTo(R, U, i)) /\ Ryanair!Rank(s, i) \in U
  <2>1. UpTo(R, U, i) = {j \in U : Ryanair!Earlier(s, j, i)}
    BY DEF UpTo, R
  <2>2. Ryanair!Rank(s, i) = Cardinality(UpTo(R, U, i))
    BY <2>1, SameCardinality DEF Ryanair!Rank
  <2>3. Cardinality(UpTo(R, U, i)) \in 1 .. Cardinality(U)
    <3> HIDE DEF U
    <3>1. QED
      BY <1>4, RankIsMonotone
  <2>4. QED
    BY <1>3, <2>2, <2>3
<1>6. ASSUME NEW k \in U PROVE At(k) \in U /\ Ryanair!Rank(s, At(k)) = k
  <2>1. k \in 1 .. Cardinality(U)
    BY <1>3
  <2>2. \E i \in U : Cardinality(UpTo(R, U, i)) = k
    <3> HIDE DEF U
    <3>1. QED
      BY <1>4, <2>1, RankIsBijective
  <2>3. \E i \in U : Ryanair!Rank(s, i) = k
    BY <1>5, <2>2
  <2>4. QED
    BY <2>3
<1>7. t = [k \in U |-> s[At(k)]]
  BY DEF Ryanair!SortedByDate
<1>8. ASSUME NEW k \in U PROVE At(Ryanair!Rank(s, k)) = k
  <2>1. Ryanair!Rank(s, k) \in U
    BY <1>5
  <2>2. At(Ryanair!Rank(s, k)) \in U /\ Ryanair!Rank(s, At(Ryanair!Rank(s, k))) = Ryanair!Rank(s, k)
    BY <1>6, <2>1
  <2>3. Cardinality(UpTo(R, U, At(Ryanair!Rank(s, k)))) = Cardinality(UpTo(R, U, k))
    BY <1>5, <2>2
  <2> HIDE DEF At, U
  <2>4. QED
    BY <1>4, <2>2, <2>3, RankIsBijective
<1> HIDE DEF At
<1>9. t \in Seq(F) /\ Len(t) = Len(s) /\ \A k \in U : t[k] = s[At(k)]
  <2>1. \A k \in U : s[At(k)] \in F
    BY <1>6
  <2>2. QED
    BY <1>1, <1>7, <2>1
<1>10. Ryanair!ToSet(t) = Ryanair!ToSet(s)
  <2>1. Ryanair!ToSet(t) = {t[k] : k \in U} /\ Ryanair!ToSet(s) = {s[k] : k \in U}
    <3>1. DOMAIN t = U /\ DOMAIN s = U
      BY <1>7
    <3>2. QED
      BY <3>1, Zenon DEF Ryanair!ToSet
  <2>2. ASSUME NEW k \in U PROVE t[k] \in {s[l] : l \in U}
    BY <1>6, <1>9
  <2>3. ASSUME NEW k \in U PROVE s[k] \in {t[l] : l \in U}
    <3>1. Ryanair!Rank(s, k) \in U
      BY <1>5
    <3>2. t[Ryanair!Rank(s, k)] = s[k]
      BY <1>8, <1>9, <3>1
    <3>3. QED
      BY <3>1, <3>2
  <2> HIDE DEF U
  <2>4. QED
    BY <2>1, <2>2, <2>3
<1>11. ASSUME NEW i \in U, NEW j \in U, i < j
       PROVE  \/ Ryanair!DateOf(t[i]) < Ryanair!DateOf(t[j])
              \/ Ryanair!DateOf(t[i]) = Ryanair!DateOf(t[j]) /\ Before(t[i], t[j])
  <2>1. At(i) \in U /\ At(j) \in U
    BY <1>6
  <2>2. Cardinality(UpTo(R, U, At(i))) = i /\ Cardinality(UpTo(R, U, At(j))) = j
    BY <1>5, <1>6, <2>1
  <2>3. <<At(i), At(j)>> \in R
    <3>1. Cardinality(UpTo(R, U, At(i))) <= Cardinality(UpTo(R, U, At(j)))
      BY <1>11, <2>2
    <3> HIDE DEF U
    <3>2. QED
      BY <1>4, <2>1, <3>1, RankIsMonotone
  <2>4. d[At(i)] < d[At(j)] \/ (d[At(i)] = d[At(j)] /\ At(i) <= At(j))
    BY <1>2, <2>1, <2>3
  <2>5. At(i) # At(j)
    BY <1>11, <2>2
  <2>6. At(i) < At(j) => Before(s[At(i)], s[At(j)])
    BY <2>1 DEF InOrder
  <2>7. d[At(i)] = Ryanair!DateOf(t[i]) /\ d[At(j)] = Ryanair!DateOf(t[j])
    BY <1>9, <2>1
  <2>8. t[i] = s[At(i)] /\ t[j] = s[At(j)]
    BY <1>9
  <2>9. At(i) \in Int /\ At(j) \in Int
    BY <1>1, <2>1
  <2>10. QED
    BY <2>4, <2>5, <2>6, <2>7, <2>8, <2>9
<1>12. QED
  BY <1>9, <1>10, <1>11

(* The pages V that have been read: links lead from the first of them to     *)
(* the page that is next, and the fares are those of V, page after page.     *)
Visited(V) ==
    /\ V \subseteq Ryanair!Page /\ 1 \in V \cup {page}
    /\ V \cup {page} \subseteq Ryanair!Reachable
    /\ \A p \in V : p < page /\ listing[p].next \in V \cup {page}
    /\ Ryanair!ToSet(fares) = Collected(V) /\ InOrder(fares)
    /\ ryPc = "fetch" => requests <= MaxAttempts * Cardinality(V) + ryAttempts
    /\ ryPc = "map" => requests <= MaxAttempts * (Cardinality(V) + 1)

RyanairRest ==
    /\ ryOutcome # "searching" => ryPc = "fetch"
    /\ ryOutcome # "searching" \/ ryPc = "map" => ryAttempts = 0
    /\ ryOutcome = "idle" =>
          listing = Ryanair!Nothing /\ page = 1 /\ fares = << >> /\ requests = 0

RyanairInv ==
    /\ Ryanair!TypeOK /\ RyanairRest
    /\ ryOutcome = "searching" => \E V \in SUBSET Ryanair!Page : Visited(V)
    /\ Ryanair!ReturnsWholeListing /\ Ryanair!BoundedRequests

(* What the pages of a listing are, whatever has been read of it. *)
LEMMA PagesAreFinite ==
    ASSUME NEW V \in SUBSET Ryanair!Page
    PROVE  /\ IsFiniteSet(V) /\ Cardinality(V) \in Nat
           /\ Cardinality(V) <= Cardinality(Ryanair!Page)
<1>1. IsFiniteSet(Ryanair!Page)
  BY RyanairConstants, FS_Interval DEF Ryanair!Page
<1>2. QED
  BY <1>1, FS_Subset, FS_CardinalityType

(* Links lead to pages that can be reached, and no farther. *)
LEMMA LinksAreReachable ==
    ASSUME listing \in Listing \cup {Ryanair!Nothing}
    PROVE  /\ 1 \in Ryanair!Reachable /\ Ryanair!Reachable \subseteq Ryanair!Page
           /\ \A p \in Ryanair!Reachable :
                 listing[p].next # 0 => listing[p].next \in Ryanair!Reachable
           /\ \A S \in SUBSET Ryanair!Page :
                 1 \in S /\ (\A p \in S : listing[p].next # 0 => listing[p].next \in S)
                 => Ryanair!Reachable \subseteq S
<1>1. ASSUME NEW p \in Ryanair!Reachable, listing[p].next # 0
      PROVE  listing[p].next \in Ryanair!Reachable
  <2>1. p \in Ryanair!Page /\ listing[p].next \in Ryanair!Page
    BY <1>1, RyanairConstants DEF Ryanair!Reachable
  <2>2. ASSUME NEW S \in SUBSET Ryanair!Page, Ryanair!Closed(S)
        PROVE  listing[p].next \in S
    <3>1. p \in S
      BY <2>2 DEF Ryanair!Reachable
    <3>2. QED
      BY <1>1, <2>2, <3>1 DEF Ryanair!Closed, Ryanair!End
  <2>3. QED
    BY <2>1, <2>2 DEF Ryanair!Reachable
<1>2. 1 \in Ryanair!Reachable
  BY RyanairConstants DEF Ryanair!Reachable, Ryanair!Closed
<1>3. ASSUME NEW S \in SUBSET Ryanair!Page, 1 \in S,
             \A p \in S : listing[p].next # 0 => listing[p].next \in S
      PROVE  Ryanair!Reachable \subseteq S
  BY <1>3 DEF Ryanair!Reachable, Ryanair!Closed, Ryanair!End
<1>4. QED
  BY <1>1, <1>2, <1>3 DEF Ryanair!Reachable

(* What is where after one list was put behind another. *)
LEMMA AppendedBehind ==
    ASSUME NEW S, NEW s \in Seq(S), NEW t \in Seq(S), NEW u, u = s \o t
    PROVE  /\ u \in Seq(S) /\ Len(u) = Len(s) + Len(t)
           /\ \A i \in 1 .. Len(s) : u[i] = s[i]
           /\ \A i \in Len(s) + 1 .. Len(u) : u[i] = t[i - Len(s)]
<1>1. Len(s) \in Nat /\ Len(t) \in Nat
  OBVIOUS
<1>2. u \in Seq(S) /\ Len(u) = Len(s) + Len(t)
  BY ConcatProperties
<1>3. \A i \in 1 .. Len(s) + Len(t) : u[i] = IF i <= Len(s) THEN s[i] ELSE t[i - Len(s)]
  BY ConcatProperties
<1>4. ASSUME NEW i \in 1 .. Len(s) PROVE u[i] = s[i]
  BY <1>1, <1>3
<1>5. ASSUME NEW i \in Len(s) + 1 .. Len(u) PROVE u[i] = t[i - Len(s)]
  BY <1>1, <1>2, <1>3
<1>6. QED
  BY <1>2, <1>4, <1>5

(* A page that is mapped adds its fares behind those collected. *)
LEMMA PageIsAdded ==
    ASSUME Ryanair!TypeOK, NEW V \in SUBSET Ryanair!Page, Visited(V),
           NEW all, all = Ryanair!Extended(fares, Ryanair!FaresOf(page))
    PROVE  /\ all \in Seq(Ryanair!Page \X Nat)
           /\ \A i \in 1 .. Len(all) : all[i] \in Collected(V \cup {page})
           /\ Ryanair!ToSet(all) = Collected(V \cup {page})
           /\ InOrder(all)
<1> DEFINE new == Ryanair!FaresOf(page)
           D == listing[page].dates
<1>1. page \in Ryanair!Page /\ page \in Int /\ D \in Seq(Day) /\ Len(D) \in Nat
  <2>1. page \in Ryanair!Page /\ listing \in Listing \cup {Ryanair!Nothing}
    BY DEF Ryanair!TypeOK
  <2>2. QED
    BY <2>1, RyanairConstants DEF Ryanair!Page
<1>2. fares \in Seq(Ryanair!Page \X Nat)
  BY DEF Ryanair!TypeOK
<1> HIDE DEF D
<1>3. /\ new \in Seq(Ryanair!Page \X Nat) /\ Len(new) = Len(D)
      /\ \A i \in 1 .. Len(D) : new[i] = <<page, i>>
  <2>1. new = [i \in 1 .. Len(D) |-> <<page, i>>]
    BY DEF Ryanair!FaresOf, D
  <2>2. \A i \in 1 .. Len(D) : <<page, i>> \in Ryanair!Page \X Nat
    BY <1>1
  <2> HIDE DEF new
  <2>3. QED
    BY <1>1, <2>1, <2>2
<1> HIDE DEF new
<1>4. /\ all \in Seq(Ryanair!Page \X Nat) /\ Len(all) = Len(fares) + Len(new)
      /\ \A i \in 1 .. Len(fares) : all[i] = fares[i]
      /\ \A i \in Len(fares) + 1 .. Len(all) : all[i] = new[i - Len(fares)]
  <2>1. all = fares \o new
    BY DEF Ryanair!Extended, new
  <2>2. QED
    BY <1>2, <1>3, <2>1, AppendedBehind
<1>5. Collected(V \cup {page}) = Collected(V) \cup {<<page, i>> : i \in 1 .. Len(D)}
  BY DEF Collected, D
<1>6. Len(fares) \in Nat /\ Len(new) \in Nat /\ Len(all) \in Nat
  BY <1>2, <1>3, <1>4
<1>7. /\ \A i \in 1 .. Len(fares) : fares[i] \in Collected(V)
      /\ \A f \in Collected(V) : \E i \in 1 .. Len(fares) : fares[i] = f
  <2>1. Ryanair!ToSet(fares) = Collected(V) /\ DOMAIN fares = 1 .. Len(fares)
    BY <1>2 DEF Visited
  <2>2. QED
    BY <2>1 DEF Ryanair!ToSet
<1>8. \A f \in Collected(V) : f[1] \in Int /\ f[1] < page
  BY <1>1 DEF Collected, Visited, Ryanair!Page
<1>9. ASSUME NEW i \in 1 .. Len(all)
      PROVE  \/ i <= Len(fares) /\ all[i] = fares[i] /\ all[i] \in Collected(V)
             \/ /\ i > Len(fares) /\ i - Len(fares) \in 1 .. Len(D)
                /\ all[i] = <<page, i - Len(fares)>>
  BY <1>3, <1>4, <1>6, <1>7
<1>10. \A i \in 1 .. Len(all) : all[i] \in Collected(V \cup {page})
  BY <1>5, <1>9
<1>11. ASSUME NEW f \in Collected(V \cup {page})
       PROVE  \E i \in 1 .. Len(all) : all[i] = f
  <2>1. CASE f \in Collected(V)
    <3>1. PICK i \in 1 .. Len(fares) : fares[i] = f
      BY <1>7, <2>1
    <3>2. i \in 1 .. Len(all) /\ all[i] = f
      BY <1>4, <1>6, <3>1
    <3>3. QED
      BY <3>2
  <2>2. CASE f \in {<<page, i>> : i \in 1 .. Len(D)}
    <3>1. PICK i \in 1 .. Len(D) : f = <<page, i>>
      BY <2>2
    <3>2. i + Len(fares) \in Len(fares) + 1 .. Len(all)
      BY <1>3, <1>4, <1>6
    <3>3. PICK k \in Len(fares) + 1 .. Len(all) : k = i + Len(fares)
      BY <3>2
    <3>4. k \in 1 .. Len(all) /\ k - Len(fares) = i
      BY <1>6, <3>3
    <3>5. all[k] = new[k - Len(fares)]
      BY <1>4
    <3>6. all[k] = f
      BY <1>3, <3>1, <3>4, <3>5
    <3>7. QED
      BY <3>4, <3>6
  <2>3. QED
    BY <1>5, <2>1, <2>2
<1>12. Ryanair!ToSet(all) = Collected(V \cup {page})
  <2>1. DOMAIN all = 1 .. Len(all)
    BY <1>4
  <2>2. QED
    BY <1>10, <1>11, <2>1 DEF Ryanair!ToSet
<1>13. ASSUME NEW i \in 1 .. Len(all), NEW j \in 1 .. Len(all), i < j
       PROVE  Before(all[i], all[j])
  <2>1. i \in Int /\ j \in Int
    BY <1>6
  <2>2. CASE j <= Len(fares)
    <3>1. i \in 1 .. Len(fares) /\ j \in 1 .. Len(fares)
      BY <1>6, <1>13, <2>1, <2>2
    <3>2. Before(fares[i], fares[j])
      BY <1>13, <3>1 DEF Visited, InOrder
    <3>3. QED
      BY <1>4, <3>1, <3>2
  <2>3. CASE i <= Len(fares) /\ j > Len(fares)
    <3>1. all[i] \in Collected(V) /\ all[j] = <<page, j - Len(fares)>>
      BY <1>6, <1>9, <2>1, <2>3
    <3>2. all[i][1] < page /\ all[j][1] = page
      BY <1>8, <3>1
    <3>3. QED
      BY <3>2 DEF Before
  <2>4. CASE i > Len(fares) /\ j > Len(fares)
    <3>1. all[i] = <<page, i - Len(fares)>> /\ all[j] = <<page, j - Len(fares)>>
      BY <1>6, <1>9, <2>1, <2>4
    <3>2. i - Len(fares) < j - Len(fares)
      BY <1>6, <1>13, <2>1
    <3>3. QED
      BY <3>1, <3>2 DEF Before
  <2>5. QED
    BY <1>6, <1>13, <2>1, <2>2, <2>3, <2>4
<1>14. QED
  BY <1>4, <1>10, <1>12, <1>13 DEF InOrder

(* Before a search nothing has been read, sent or collected. *)
LEMMA RyanairInit == Ryanair!Init => RyanairInv
<1> SUFFICES ASSUME Ryanair!Init PROVE RyanairInv
  OBVIOUS
<1>1. /\ listing = Ryanair!Nothing /\ ryOutcome = "idle" /\ ryPc = "fetch" /\ page = 1
      /\ ryAttempts = 0 /\ fares = << >> /\ requests = 0
  BY DEF Ryanair!Init
<1>2. RyanairRest
  BY <1>1 DEF RyanairRest
<1>3. Ryanair!TypeOK
  <2>1. << >> \in Seq(Ryanair!Page \X Nat) /\ 0 \in 0 .. MaxAttempts - 1 /\ 0 \in Nat
    BY RyanairConstants
  <2>2. QED
    BY <1>1, <2>1, RyanairConstants DEF Ryanair!TypeOK
<1>4. Ryanair!BoundedRequests
  <2>1. Cardinality(Ryanair!Reachable) \in Nat
    BY PagesAreFinite DEF Ryanair!Reachable
  <2>2. QED
    BY <1>1, <2>1, AttemptsScale, RyanairConstants, SameCardinality DEF Ryanair!BoundedRequests
<1>5. QED
  BY <1>1, <1>2, <1>3, <1>4 DEF RyanairInv, Ryanair!ReturnsWholeListing

(* A search starts at the first page. *)
LEMMA RyanairSearches ==
    ASSUME RyanairInv, Ryanair!Search
    PROVE  RyanairInv'
<1>1. /\ ryOutcome' = "searching" /\ listing' \in Listing
      /\ ryPc' = "fetch" /\ ryAttempts' = 0 /\ page' = 1 /\ fares' = << >> /\ requests' = 0
  BY DEF RyanairInv, RyanairRest, Ryanair!Search
<1>2. RyanairRest'
  BY <1>1 DEF RyanairRest
<1>3. Ryanair!TypeOK'
  <2>1. << >> \in Seq(Ryanair!Page \X Nat) /\ 0 \in 0 .. MaxAttempts - 1 /\ 0 \in Nat
    BY RyanairConstants
  <2>2. QED
    BY <1>1, <2>1, RyanairConstants DEF Ryanair!TypeOK
<1>4. Visited({})'
  <2>1. (1 \in Ryanair!Reachable)'
    <3>1. (listing \in Listing \cup {Ryanair!Nothing})'
      BY <1>1
    <3>2. QED
      BY <3>1, LinksAreReachable, PTL
  <2>2. (Collected({}) = {})' /\ (Ryanair!ToSet(fares) = {})' /\ InOrder(fares)'
    BY <1>1 DEF Collected, Ryanair!ToSet, InOrder
  <2>3. Cardinality({}) = 0
    BY FS_EmptySet
  <2>4. requests' <= MaxAttempts * Cardinality({}) + ryAttempts'
    BY <1>1, <2>3, RyanairConstants
  <2>5. ({} \cup {page} \subseteq Ryanair!Reachable)' /\ ryPc' # "map"
    BY <1>1, <2>1
  <2> HIDE DEF Collected, InOrder
  <2>6. QED
    BY <1>1, <2>2, <2>4, <2>5 DEF Visited
<1>5. Ryanair!BoundedRequests'
  <2>1. (Cardinality(Ryanair!Reachable) \in Nat)'
    BY PagesAreFinite DEF Ryanair!Reachable
  <2>2. QED
    BY <1>1, <2>1, AttemptsScale, RyanairConstants, SameCardinality DEF Ryanair!BoundedRequests
<1>6. QED
  BY <1>1, <1>2, <1>3, <1>4, <1>5 DEF RyanairInv, Ryanair!ReturnsWholeListing

(* The next search finds what the first one found. *)
LEMMA RyanairHandles ==
    ASSUME RyanairInv, Ryanair!Handled
    PROVE  RyanairInv'
<1>1. /\ listing' = Ryanair!Nothing /\ ryOutcome' = "idle" /\ ryPc' = "fetch" /\ page' = 1
      /\ ryAttempts' = 0 /\ fares' = << >> /\ requests' = 0
  BY DEF RyanairInv, RyanairRest, Ryanair!Handled
<1>2. Ryanair!Init'
  BY <1>1 DEF Ryanair!Init, Ryanair!Nothing
<1>3. QED
  BY <1>2, RyanairInit, PTL

(* What the pages read so far leave for requests: one page more is within    *)
(* the pages that can be reached.                                            *)
LEMMA PagesLeft ==
    ASSUME Ryanair!TypeOK, NEW V \in SUBSET Ryanair!Page, Visited(V)
    PROVE  /\ Cardinality(V) \in Nat /\ Cardinality(V \cup {page}) = Cardinality(V) + 1
           /\ MaxAttempts * Cardinality(V) \in Nat
           /\ MaxAttempts * (Cardinality(V) + 1) = MaxAttempts * Cardinality(V) + MaxAttempts
           /\ MaxAttempts * (Cardinality(V) + 1) <= MaxAttempts * Cardinality(Ryanair!Reachable)
           /\ MaxAttempts * Cardinality(Ryanair!Reachable) \in Nat
<1>1. IsFiniteSet(V) /\ Cardinality(V) \in Nat
  BY PagesAreFinite
<1>2. page \notin V
  BY DEF Visited, Ryanair!TypeOK, Ryanair!Page
<1>3. Cardinality(V \cup {page}) = Cardinality(V) + 1
  BY <1>1, <1>2, FS_AddElement
<1>4. IsFiniteSet(Ryanair!Reachable) /\ Cardinality(Ryanair!Reachable) \in Nat
  BY PagesAreFinite DEF Ryanair!Reachable
<1>5. Cardinality(V \cup {page}) <= Cardinality(Ryanair!Reachable)
  <2>1. V \cup {page} \in SUBSET Ryanair!Reachable
    BY DEF Visited
  <2>2. QED
    BY <1>4, <2>1, FS_Subset
<1>6. QED
  BY <1>1, <1>3, <1>4, <1>5, AttemptsScale, RyanairConstants

(* The links and what they lead to do not change during a search. *)
LEMMA ListingStays ==
    ASSUME listing' = listing
    PROVE  /\ Ryanair!Reachable' = Ryanair!Reachable
           /\ \A V : Collected(V)' = Collected(V)
<1>1. Ryanair!Reachable' = Ryanair!Reachable
  BY DEF Ryanair!Reachable, Ryanair!Closed
<1>2. \A V : Collected(V)' = Collected(V)
  BY DEF Collected
<1>3. QED
  BY <1>1, <1>2

(* A request is counted, at most. *)
LEMMA RequestCounts ==
    ASSUME requests \in Nat, requests' = Ryanair!Counted
    PROVE  requests' \in Nat /\ requests' <= requests + 1
  BY DEF Ryanair!Counted

(* A search that raises has read some pages and tried one more. *)
LEMMA RyanairRaises ==
    ASSUME RyanairInv, Ryanair!Raised, ryOutcome = "searching", requests' \in Nat,
           \A V \in SUBSET Ryanair!Page :
              Visited(V) => requests' <= MaxAttempts * (Cardinality(V) + 1)
    PROVE  RyanairInv'
<1>1. /\ ryOutcome' = "error" /\ fares' = << >> /\ ryAttempts' = 0 /\ ryPc' = "fetch"
      /\ listing' = listing /\ page' = page
  BY DEF Ryanair!Raised
<1>2. RyanairRest'
  BY <1>1 DEF RyanairRest
<1>3. Ryanair!TypeOK'
  <2>1. << >> \in Seq(Ryanair!Page \X Nat) /\ 0 \in 0 .. MaxAttempts - 1
    BY RyanairConstants
  <2>2. QED
    BY <1>1, <2>1 DEF RyanairInv, Ryanair!TypeOK
<1>4. Ryanair!BoundedRequests'
  <2>1. PICK V \in SUBSET Ryanair!Page : Visited(V)
    BY DEF RyanairInv
  <2>2. requests' <= MaxAttempts * Cardinality(Ryanair!Reachable)
    <3>1. /\ MaxAttempts * Cardinality(V) \in Nat
          /\ MaxAttempts * (Cardinality(V) + 1) = MaxAttempts * Cardinality(V) + MaxAttempts
          /\ MaxAttempts * (Cardinality(V) + 1) <= MaxAttempts * Cardinality(Ryanair!Reachable)
          /\ MaxAttempts * Cardinality(Ryanair!Reachable) \in Nat
      BY <2>1, PagesLeft DEF RyanairInv
    <3>2. requests' <= MaxAttempts * (Cardinality(V) + 1)
      BY <2>1
    <3>3. QED
      BY <3>1, <3>2, RyanairConstants
  <2>3. QED
    BY <1>1, <2>2, ListingStays, SameCardinality DEF Ryanair!BoundedRequests
<1>5. QED
  BY <1>1, <1>2, <1>3, <1>4 DEF RyanairInv, Ryanair!ReturnsWholeListing

(* A page is asked for, again if need be. *)
LEMMA RyanairFetches ==
    ASSUME RyanairInv, Ryanair!FetchPage \/ Ryanair!FetchFails \/ Ryanair!BodyFails
    PROVE  RyanairInv'
<1>1. /\ Ryanair!TypeOK /\ RyanairRest /\ ryOutcome = "searching" /\ ryPc = "fetch"
      /\ requests' = Ryanair!Counted
  BY DEF RyanairInv, Ryanair!FetchPage, Ryanair!FetchFails, Ryanair!BodyFails
<1>2. /\ requests \in Nat /\ requests' \in Nat /\ requests' <= requests + 1
      /\ ryAttempts \in 0 .. MaxAttempts - 1 /\ MaxAttempts \in Nat \ {0}
  BY <1>1, RequestCounts, RyanairConstants DEF Ryanair!TypeOK
<1>3. ASSUME NEW V \in SUBSET Ryanair!Page, Visited(V)
      PROVE  /\ requests' <= MaxAttempts * (Cardinality(V) + 1)
             /\ requests' <= MaxAttempts * Cardinality(V) + (ryAttempts + 1)
  <2>1. requests <= MaxAttempts * Cardinality(V) + ryAttempts
    BY <1>1, <1>3 DEF Visited
  <2>2. /\ MaxAttempts * Cardinality(V) \in Nat
        /\ MaxAttempts * (Cardinality(V) + 1) = MaxAttempts * Cardinality(V) + MaxAttempts
    BY <1>1, <1>3, PagesLeft
  <2>3. QED
    BY <1>2, <2>1, <2>2
<1>4. CASE Ryanair!Raised
  BY <1>1, <1>2, <1>3, <1>4, RyanairRaises
<1>5. ASSUME ryOutcome' = "searching", listing' = listing, page' = page, fares' = fares,
             \/ ryPc' = "map" /\ ryAttempts' = 0
             \/ ryPc' = "fetch" /\ ryAttempts' = ryAttempts + 1 /\ ryAttempts + 1 < MaxAttempts
      PROVE  RyanairInv'
  <2>1. PICK V \in SUBSET Ryanair!Page : Visited(V)
    BY <1>1 DEF RyanairInv
  <2>2. Ryanair!TypeOK'
    BY <1>1, <1>2, <1>5 DEF Ryanair!TypeOK
  <2>3. RyanairRest'
    BY <1>5 DEF RyanairRest
  <2>4. Visited(V)'
    <3>1. /\ requests' <= MaxAttempts * (Cardinality(V) + 1)
          /\ requests' <= MaxAttempts * Cardinality(V) + (ryAttempts + 1)
      BY <1>3, <2>1
    <3>2. Ryanair!Reachable' = Ryanair!Reachable /\ Collected(V)' = Collected(V)
      BY <1>5, ListingStays
    <3>3. Ryanair!ToSet(fares)' = Ryanair!ToSet(fares) /\ InOrder(fares)' = InOrder(fares)
      BY <1>5
    <3>4. QED
      BY <1>5, <2>1, <3>1, <3>2, <3>3 DEF Visited
  <2>5. Ryanair!BoundedRequests'
    <3>1. /\ requests' <= MaxAttempts * (Cardinality(V) + 1)
          /\ MaxAttempts * Cardinality(V) \in Nat
          /\ MaxAttempts * (Cardinality(V) + 1) = MaxAttempts * Cardinality(V) + MaxAttempts
          /\ MaxAttempts * (Cardinality(V) + 1) <= MaxAttempts * Cardinality(Ryanair!Reachable)
          /\ MaxAttempts * Cardinality(Ryanair!Reachable) \in Nat
      BY <1>1, <1>3, <2>1, PagesLeft
    <3>2. requests' <= MaxAttempts * Cardinality(Ryanair!Reachable)
      BY <1>2, <3>1
    <3>3. QED
      BY <1>5, <3>2, ListingStays, SameCardinality DEF Ryanair!BoundedRequests
  <2>6. QED
    BY <1>5, <2>2, <2>3, <2>4, <2>5 DEF RyanairInv, Ryanair!ReturnsWholeListing
<1>6. CASE ~Ryanair!Raised
  BY <1>1, <1>5, <1>6 DEF Ryanair!FetchPage, Ryanair!FetchFails, Ryanair!BodyFails,
                          Ryanair!MayTryAgain
<1>7. QED
  BY <1>4, <1>6

(* The last page makes the fares the whole listing. *)
LEMMA LastPageCompletes ==
    ASSUME Ryanair!TypeOK, NEW V \in SUBSET Ryanair!Page, Visited(V), listing[page].next = 0,
           NEW all, all = Ryanair!Extended(fares, Ryanair!FaresOf(page)),
           NEW sorted, sorted = Ryanair!SortedByDate(all)
    PROVE  /\ V \cup {page} = Ryanair!Reachable
           /\ sorted \in Seq(Ryanair!Page \X Nat)
           /\ \A i \in 1 .. Len(sorted) : Ryanair!DateOf(sorted[i]) \in Day
           /\ Ryanair!ToSet(sorted) = Ryanair!Offered
           /\ Len(sorted) = Cardinality(Ryanair!Offered)
           /\ \A i, j \in 1 .. Len(sorted) : i < j =>
                 \/ Ryanair!DateOf(sorted[i]) < Ryanair!DateOf(sorted[j])
                 \/ /\ Ryanair!DateOf(sorted[i]) = Ryanair!DateOf(sorted[j])
                    /\ Before(sorted[i], sorted[j])
<1> DEFINE F == Collected(Ryanair!Reachable)
           n == Len(all)
<1>1. listing \in Listing \cup {Ryanair!Nothing} /\ page \in Ryanair!Page
  BY DEF Ryanair!TypeOK
<1>2. V \cup {page} = Ryanair!Reachable
  <2>1. V \cup {page} \in SUBSET Ryanair!Page /\ 1 \in V \cup {page}
        /\ V \cup {page} \subseteq Ryanair!Reachable
    BY <1>1 DEF Visited
  <2>2. \A p \in V \cup {page} : listing[p].next # 0 => listing[p].next \in V \cup {page}
    BY DEF Visited
  <2>3. Ryanair!Reachable \subseteq V \cup {page}
    BY <1>1, <2>1, <2>2, LinksAreReachable
  <2>4. QED
    BY <2>1, <2>3
<1>3. /\ all \in Seq(Ryanair!Page \X Nat) /\ \A i \in 1 .. Len(all) : all[i] \in F
      /\ Ryanair!ToSet(all) = F /\ InOrder(all)
  BY <1>2, PageIsAdded
<1>4. ASSUME NEW f \in F
      PROVE  /\ f \in Ryanair!Page \X Nat /\ Ryanair!DateOf(f) \in Day
             /\ f[1] \in Int /\ f[2] \in Int /\ f = <<f[1], f[2]>>
  <2>1. PICK p \in Ryanair!Reachable : f \in {<<p, i>> : i \in 1 .. Len(listing[p].dates)}
    BY DEF Collected
  <2>2. PICK i \in 1 .. Len(listing[p].dates) : f = <<p, i>>
    BY <2>1
  <2>3. p \in Ryanair!Page /\ p \in Int /\ listing[p].dates \in Seq(Day)
    BY <1>1, RyanairConstants DEF Ryanair!Reachable, Ryanair!Page
  <2>4. listing[p].dates[i] \in Day /\ i \in Nat
    BY <2>3
  <2>5. QED
    BY <2>2, <2>3, <2>4 DEF Ryanair!DateOf
<1> HIDE DEF F
<1>5. all \in Seq(F) /\ n \in Nat
  <2>1. DOMAIN all = 1 .. Len(all)
    BY <1>3
  <2>2. all = [i \in 1 .. Len(all) |-> all[i]] /\ Len(all) \in Nat
    BY <1>3
  <2>3. QED
    BY <1>3, <2>2, IsASeq
<1>6. \A f \in F : Ryanair!DateOf(f) \in Int
  BY <1>4, RyanairConstants
<1>7. /\ sorted \in Seq(F) /\ Len(sorted) = n /\ Ryanair!ToSet(sorted) = Ryanair!ToSet(all)
      /\ \A i, j \in 1 .. Len(sorted) : i < j =>
            \/ Ryanair!DateOf(sorted[i]) < Ryanair!DateOf(sorted[j])
            \/ Ryanair!DateOf(sorted[i]) = Ryanair!DateOf(sorted[j])
               /\ Before(sorted[i], sorted[j])
  <2>1. all \in Seq(F) /\ InOrder(all) /\ sorted = Ryanair!SortedByDate(all)
    BY <1>3, <1>5
  <2>2. QED
    BY <1>6, <2>1, SortingIsStable, Zenon
<1>8. \A i \in 1 .. Len(sorted) : sorted[i] \in F
  BY <1>7
<1>9. /\ sorted \in Seq(Ryanair!Page \X Nat)
      /\ \A i \in 1 .. Len(sorted) : Ryanair!DateOf(sorted[i]) \in Day
  <2>1. sorted = [i \in 1 .. Len(sorted) |-> sorted[i]] /\ Len(sorted) \in Nat
    BY <1>7
  <2>2. \A i \in 1 .. Len(sorted) : sorted[i] \in Ryanair!Page \X Nat
    BY <1>4, <1>8
  <2>3. sorted \in Seq(Ryanair!Page \X Nat)
    BY <2>1, <2>2, IsASeq
  <2>4. QED
    BY <1>4, <1>8, <2>3
<1>10. n = Cardinality(F)
  <2>1. \A i \in 1 .. n : all[i] \in F
    BY <1>3
  <2>2. ASSUME NEW i \in 1 .. n, NEW j \in 1 .. n, all[i] = all[j] PROVE i = j
    <3>1. all[i] \in F /\ all[j] \in F /\ i \in Int /\ j \in Int
      BY <1>5, <2>1
    <3>2. ASSUME NEW k \in 1 .. n, NEW l \in 1 .. n, k < l PROVE all[k] # all[l]
      <4>1. Before(all[k], all[l])
        BY <1>3, <3>2 DEF InOrder
      <4>2. all[k][1] \in Int /\ all[k][2] \in Int
        BY <1>4, <2>1
      <4>3. QED
        BY <4>1, <4>2 DEF Before
    <3>3. QED
      BY <2>2, <3>1, <3>2
  <2>3. \A f \in F : \E i \in 1 .. n : all[i] = f
    <3>1. DOMAIN all = 1 .. n
      BY <1>3
    <3>2. QED
      BY <1>3, <3>1 DEF Ryanair!ToSet
  <2> HIDE DEF n
  <2> DEFINE g == [i \in 1 .. n |-> all[i]]
  <2>4. g \in Injection(1 .. n, F) /\ g \in Surjection(1 .. n, F)
    BY <2>1, <2>2, <2>3 DEF Injection, IsInjective, Surjection
  <2> HIDE DEF g
  <2>5. ExistsBijection(1 .. n, F)
    BY <2>4 DEF ExistsBijection, Bijection
  <2>6. IsFiniteSet(1 .. n) /\ Cardinality(1 .. n) = IF 1 > n THEN 0 ELSE n - 1 + 1
    BY <1>5, FS_Interval
  <2>7. Cardinality(F) = Cardinality(1 .. n)
    BY <2>5, <2>6, FS_Bijection
  <2>8. QED
    BY <1>5, <2>6, <2>7
<1>11. Ryanair!Offered = F
  BY DEF Ryanair!Offered, Collected, F
<1>12. QED
  BY <1>2, <1>3, <1>7, <1>9, <1>10, <1>11

(* Mapping a page goes on to the next page or returns. *)
LEMMA RyanairMaps ==
    ASSUME RyanairInv, Ryanair!MapFares
    PROVE  RyanairInv'
<1> DEFINE all == Ryanair!Extended(fares, Ryanair!FaresOf(page))
<1>1. /\ Ryanair!TypeOK /\ RyanairRest /\ ryOutcome = "searching" /\ ryPc = "map"
      /\ ryAttempts = 0 /\ Ryanair!BoundedRequests
      /\ ryPc' = "fetch" /\ listing' = listing /\ ryAttempts' = 0 /\ requests' = requests
  BY DEF RyanairInv, RyanairRest, Ryanair!MapFares
<1>2. PICK V \in SUBSET Ryanair!Page : Visited(V)
  BY <1>1 DEF RyanairInv
<1>3. \/ /\ listing[page].next = 0
         /\ ryOutcome' = "fares" /\ fares' = Ryanair!SortedByDate(all) /\ page' = page
      \/ /\ listing[page].next # 0
         /\ ryOutcome' = ryOutcome /\ fares' = all /\ page' = listing[page].next
  BY DEF Ryanair!MapFares, Ryanair!NextPage, Ryanair!End, Ryanair!Result
<1>4. page \in Ryanair!Page /\ page \in Int /\ listing \in Listing \cup {Ryanair!Nothing}
  BY <1>1 DEF Ryanair!TypeOK, Ryanair!Page
<1>5. Ryanair!Reachable' = Ryanair!Reachable /\ \A W : Collected(W)' = Collected(W)
  BY <1>1, ListingStays
<1>6. Ryanair!BoundedRequests'
  BY <1>1, <1>5, SameCardinality DEF Ryanair!BoundedRequests
<1>7. CASE listing[page].next # 0
  <2> PICK W \in SUBSET Ryanair!Page : W = V \cup {page}
    BY <1>4
  <2>1. /\ all \in Seq(Ryanair!Page \X Nat)
        /\ Ryanair!ToSet(all) = Collected(W) /\ InOrder(all)
    BY <1>1, <1>2, PageIsAdded
  <2> HIDE DEF all
  <2>2. listing[page].next \in Ryanair!Page /\ page < listing[page].next
    BY <1>4, <1>7, RyanairConstants
  <2>3. Ryanair!TypeOK'
    BY <1>1, <1>3, <1>7, <2>1, <2>2 DEF Ryanair!TypeOK
  <2>4. RyanairRest'
    BY <1>1, <1>3, <1>7 DEF RyanairRest
  <2>5. W \in SUBSET Ryanair!Page /\ 1 \in W \cup {page'}
    BY <1>2, <1>4 DEF Visited
  <2>6. W \cup {page'} \subseteq Ryanair!Reachable'
    <3>1. W \subseteq Ryanair!Reachable
      BY <1>2 DEF Visited
    <3>2. page' \in Ryanair!Reachable
      BY <1>3, <1>4, <1>7, <3>1, LinksAreReachable
    <3>3. QED
      BY <1>5, <3>1, <3>2
  <2>7. ASSUME NEW p \in W PROVE p < page' /\ listing'[p].next \in W \cup {page'}
    <3>1. CASE p = page
      BY <1>1, <1>3, <1>7, <2>2, <3>1
    <3>2. CASE p \in V
      <4>1. p \in Int /\ p < page /\ listing[p].next \in W
        BY <1>2, <3>2 DEF Visited, Ryanair!Page
      <4>2. page' \in Int /\ page < page'
        BY <1>3, <1>7, <2>2 DEF Ryanair!Page
      <4>3. QED
        BY <1>1, <1>4, <4>1, <4>2
    <3>3. QED
      BY <3>1, <3>2
  <2>8. requests' <= MaxAttempts * Cardinality(W) + ryAttempts'
    <3>1. requests <= MaxAttempts * (Cardinality(V) + 1) /\ Cardinality(W) = Cardinality(V) + 1
      BY <1>1, <1>2, PagesLeft DEF Visited
    <3>2. MaxAttempts * Cardinality(W) \in Int
      BY <1>1, <1>2, <3>1, PagesLeft, RyanairConstants
    <3>3. QED
      BY <1>1, <3>1, <3>2
  <2>9. Ryanair!ToSet(fares)' = Collected(W)' /\ InOrder(fares)'
    <3>1. Ryanair!ToSet(fares)' = Ryanair!ToSet(all) /\ InOrder(fares)' = InOrder(all)
      BY <1>3, <1>7
    <3>2. Collected(W)' = Collected(W)
      BY <1>1 DEF Collected
    <3>3. QED
      BY <2>1, <3>1, <3>2
  <2>10. Visited(W)'
    BY <1>1, <2>5, <2>6, <2>7, <2>8, <2>9 DEF Visited
  <2>11. QED
    BY <1>1, <1>3, <1>6, <1>7, <2>3, <2>4, <2>10 DEF RyanairInv, Ryanair!ReturnsWholeListing
<1>8. CASE listing[page].next = 0
  <2>1. /\ ryOutcome' = "fares" /\ fares' = Ryanair!SortedByDate(all) /\ page' = page
    BY <1>3, <1>8
  <2> HIDE DEF all
  <2>2. /\ fares' \in Seq(Ryanair!Page \X Nat)
        /\ Ryanair!ToSet(fares') = Ryanair!Offered
        /\ Len(fares') = Cardinality(Ryanair!Offered)
        /\ \A i, j \in 1 .. Len(fares') : i < j =>
              \/ Ryanair!DateOf(fares'[i]) < Ryanair!DateOf(fares'[j])
              \/ /\ Ryanair!DateOf(fares'[i]) = Ryanair!DateOf(fares'[j])
                 /\ Before(fares'[i], fares'[j])
    BY <1>1, <1>2, <1>8, <2>1, LastPageCompletes DEF all
  <2>3. Ryanair!TypeOK'
    BY <1>1, <2>1, <2>2 DEF Ryanair!TypeOK
  <2>4. RyanairRest'
    BY <1>1, <2>1 DEF RyanairRest
  <2>5. Ryanair!ReturnsWholeListing'
    <3>1. Ryanair!Offered' = Ryanair!Offered
      BY <1>1, <1>5 DEF Ryanair!Offered
    <3>2. (Ryanair!ToSet(fares) = Ryanair!Offered
           /\ Len(fares) = Ryanair!Cardinality(Ryanair!Offered))'
      BY <2>2, <3>1, SameCardinality
    <3>3. \A i, j \in 1 .. Len(fares') : i < j =>
              \/ listing'[fares'[i][1]].dates[fares'[i][2]]
                    < listing'[fares'[j][1]].dates[fares'[j][2]]
              \/ /\ listing'[fares'[i][1]].dates[fares'[i][2]]
                       = listing'[fares'[j][1]].dates[fares'[j][2]]
                 /\ \/ fares'[i][1] < fares'[j][1]
                    \/ fares'[i][1] = fares'[j][1] /\ fares'[i][2] < fares'[j][2]
      BY <1>1, <2>2, Zenon DEF Ryanair!DateOf, Before
    <3>4. QED
      BY <2>1, <3>2, <3>3 DEF Ryanair!ReturnsWholeListing, Ryanair!DateOf
  <2>6. QED
    BY <1>6, <2>1, <2>3, <2>4, <2>5 DEF RyanairInv
<1>9. QED
  BY <1>7, <1>8

(* Every step of a search keeps what is known of it. *)
LEMMA RyanairSteps ==
    ASSUME RyanairInv, Ryanair!Step
    PROVE  RyanairInv'
<1>1. CASE Ryanair!MapFails
  <2>1. /\ Ryanair!Raised /\ ryOutcome = "searching" /\ ryPc = "map" /\ requests' = requests
        /\ requests \in Nat
    BY <1>1 DEF Ryanair!MapFails, RyanairInv, Ryanair!TypeOK
  <2>2. QED
    BY <2>1, RyanairRaises DEF Visited
<1>2. QED
  BY <1>1, RyanairFetches, RyanairMaps, Zenon DEF Ryanair!Step

-----------------------------------------------------------------------------
(* Whose turn it is, and what the cooldowns may be. *)
TurnInv ==
    /\ turn \in Provider \cup {"none"} /\ force \in BOOLEAN
    /\ cooling \in [Provider -> {"none", "short", "long"}]
    /\ cooling["ryanair"] # "long"
    /\ ryOutcome # "idle" => turn = "ryanair"
    /\ wzOutcome # "idle" => turn = "wizzair"

RunInv == TurnInv /\ RyanairInv /\ WizzAirInv

(* A step of one adapter leaves what is known of the other. *)
LEMMA OtherAdapterStays ==
    /\ RyanairInv /\ UNCHANGED ryanairVars => RyanairInv'
    /\ WizzAirInv /\ UNCHANGED wizzVars => WizzAirInv'
<1>1. ASSUME RyanairInv, UNCHANGED ryanairVars PROVE RyanairInv'
  <2>1. /\ listing' = listing /\ ryOutcome' = ryOutcome /\ ryPc' = ryPc /\ page' = page
        /\ ryAttempts' = ryAttempts /\ fares' = fares /\ requests' = requests
    BY <1>1 DEF ryanairVars
  <2>2. Ryanair!TypeOK' /\ RyanairRest'
    BY <1>1, <2>1 DEF RyanairInv, Ryanair!TypeOK, RyanairRest
  <2>3. Ryanair!Reachable' = Ryanair!Reachable /\ \A V : Collected(V)' = Collected(V)
    BY <2>1, ListingStays
  <2>4. ryOutcome' = "searching" => \E V \in SUBSET Ryanair!Page : Visited(V)'
    <3>1. ASSUME NEW V \in SUBSET Ryanair!Page, Visited(V) PROVE Visited(V)'
      BY <2>1, <2>3, <3>1 DEF Visited, Ryanair!ToSet, InOrder
    <3>2. QED
      BY <1>1, <2>1, <3>1 DEF RyanairInv
  <2>5. Ryanair!ReturnsWholeListing'
    <3>1. Ryanair!Offered' = Ryanair!Offered
      BY <2>1, <2>3 DEF Ryanair!Offered
    <3>2. QED
      BY <1>1, <2>1, <3>1 DEF RyanairInv, Ryanair!ReturnsWholeListing, Ryanair!ToSet,
                              Ryanair!DateOf
  <2>6. Ryanair!BoundedRequests'
    BY <1>1, <2>1, <2>3 DEF RyanairInv, Ryanair!BoundedRequests
  <2>7. QED
    BY <2>2, <2>4, <2>5, <2>6 DEF RyanairInv
<1>2. ASSUME WizzAirInv, UNCHANGED wizzVars PROVE WizzAirInv'
  <2>1. WizzAirSearch'
    BY <1>2 DEF WizzAirInv, WizzAirSearch, WizzAir!TypeOK, wizzVars, InTab, InBrowser
  <2>2. WizzAirAnswers'
    BY <1>2 DEF WizzAirInv, WizzAirAnswers, wizzVars
  <2>3. WizzAirLoad'
    BY <1>2 DEF WizzAirInv, WizzAirLoad, WizzAir!BoundedLoad, WizzAir!BrowserRequests,
               wizzVars, InTab, InBrowser
  <2>4. QED
    BY <2>1, <2>2, <2>3 DEF WizzAirInv
<1>3. QED
  BY <1>1, <1>2

(* Every step of a run is a step of one adapter, at most. *)
LEMMA RunsStep ==
    ASSUME Next
    PROVE  /\ \/ Ryanair!Next \/ UNCHANGED ryanairVars
           /\ \/ WizzAir!Next \/ UNCHANGED wizzVars
  BY DEF Next, StartRun, RunStep, Skip, AskRyanair, RyanairStep, RyanairHandled, AskWizzAir,
         WizzAirStep, WizzAirHandled, CooldownEnds, Ryanair!Next, WizzAir!Next

(* Each adapter keeps its invariant through the runs. *)
LEMMA AdaptersKeep ==
    ASSUME RyanairInv, WizzAirInv, [Next]_vars
    PROVE  RyanairInv' /\ WizzAirInv'
<1>1. /\ \/ Ryanair!Next \/ UNCHANGED ryanairVars
      /\ \/ WizzAir!Next \/ UNCHANGED wizzVars
  BY RunsStep DEF vars
<1>2. RyanairInv'
  BY <1>1, RyanairSearches, RyanairSteps, RyanairHandles, OtherAdapterStays DEF Ryanair!Next
<1>3. WizzAirInv'
  BY <1>1, WizzAirSearches, WizzAirSteps, WizzAirHandles, OtherAdapterStays DEF WizzAir!Next
<1>4. QED
  BY <1>2, <1>3

(* Only a search that is going on takes steps, and a search that has ended   *)
(* is idle once it is handled.                                               *)
LEMMA SearchesTakeTurns ==
    ASSUME RyanairInv, WizzAirInv
    PROVE  /\ Ryanair!Step => ryOutcome # "idle"
           /\ WizzAir!Step => wzOutcome # "idle"
           /\ Ryanair!Handled => ryOutcome \in {"fares", "error"} /\ ryOutcome' = "idle"
           /\ WizzAir!Handled =>
                 wzOutcome \in {"fares", "error", "rateLimit"} /\ wzOutcome' = "idle"
<1>1. Ryanair!Step => ryOutcome # "idle"
  BY DEF Ryanair!Step, Ryanair!FetchPage, Ryanair!FetchFails, Ryanair!BodyFails,
         Ryanair!MapFares, Ryanair!MapFails
<1>2. WizzAir!Step => wzPc # "idle"
  BY DEF WizzAir!Step, WizzAir!VisitPage, WizzAir!VisitFails, WizzAir!PostAnswered,
         WizzAir!BrowserAnswered, WizzAir!PostFails, WizzAir!SameTabFails, WizzAir!PopupFails,
         WizzAir!ScriptFails, WizzAir!ImportFails, WizzAir!LaunchFails, WizzAir!LaunchBrowser,
         WizzAir!NoFirstTab, WizzAir!OpenBooking, WizzAir!OpenPopup, WizzAir!TabTimesOut,
         WizzAir!BrowserRaises, WizzAir!CloseBrowser, WizzAir!CloseFails,
         WizzAir!MapResponse, WizzAir!MapFails
<1>3. wzPc # "idle" => wzOutcome # "idle"
  BY DEF WizzAirInv, WizzAirSearch
<1>4. QED
  BY <1>1, <1>2, <1>3 DEF Ryanair!Handled, WizzAir!Handled

(* Only the provider whose turn it is is asked, answers, and is marked. *)
LEMMA TurnsAreTaken ==
    ASSUME RunInv, [Next]_vars
    PROVE  TurnInv'
<1>1. TurnInv /\ RyanairInv /\ WizzAirInv
  BY DEF RunInv
<1>2. ASSUME EndTurn, turn # "none" PROVE turn' \in Provider \cup {"none"} /\ force' \in BOOLEAN
  BY <1>1, <1>2 DEF TurnInv, EndTurn, After, Provider
<1>3. ASSUME NEW how \in {"fares", "error", "rateLimit"}, NEW p \in Provider, turn = p,
             how = "rateLimit" => p = "wizzair",
             Mark(how)
      PROVE  /\ cooling' \in [Provider -> {"none", "short", "long"}]
             /\ cooling'["ryanair"] # "long"
  <2>1. /\ cooling \in [Provider -> {"none", "short", "long"}] /\ cooling["ryanair"] # "long"
        /\ cooling' = [cooling EXCEPT ![p] = Marked(cooling[p], how)]
    BY <1>1, <1>3 DEF TurnInv, Mark
  <2>2. cooling[p] \in {"none", "short", "long"}
    BY <2>1
  <2>3. Marked(cooling[p], how) \in {"none", "short", "long"}
    BY <2>2 DEF Marked
  <2>4. p = "ryanair" => Marked(cooling[p], how) # "long"
    BY <1>3, <2>1, <2>2 DEF Marked
  <2>5. QED
    BY <2>1, <2>3, <2>4 DEF Provider
<1>4. CASE StartRun
  BY <1>1, <1>4 DEF StartRun, TurnInv, ryanairVars, wizzVars, Provider
<1>5. CASE Skip
  BY <1>1, <1>2, <1>5 DEF Skip, TurnInv, ryanairVars, wizzVars
<1>6. CASE AskRyanair \/ RyanairStep
  <2>1. turn = "ryanair"
    BY <1>1, <1>6, SearchesTakeTurns DEF AskRyanair, MayAsk, RyanairStep, TurnInv
  <2>2. wzOutcome = "idle" /\ UNCHANGED <<turn, force, cooling, wzOutcome>>
    BY <1>1, <1>6, <2>1 DEF AskRyanair, RyanairStep, TurnInv, runVars, wizzVars
  <2>3. QED
    BY <1>1, <2>1, <2>2 DEF TurnInv
<1>7. CASE AskWizzAir \/ WizzAirStep
  <2>1. turn = "wizzair"
    BY <1>1, <1>7, SearchesTakeTurns DEF AskWizzAir, MayAsk, WizzAirStep, TurnInv
  <2>2. ryOutcome = "idle" /\ UNCHANGED <<turn, force, cooling, ryOutcome>>
    BY <1>1, <1>7, <2>1 DEF AskWizzAir, WizzAirStep, TurnInv, runVars, ryanairVars
  <2>3. QED
    BY <1>1, <2>1, <2>2 DEF TurnInv
<1>8. CASE RyanairHandled
  <2>1. /\ ryOutcome \in {"fares", "error"} /\ ryOutcome' = "idle" /\ wzOutcome' = wzOutcome
        /\ Mark(ryOutcome) /\ EndTurn
    BY <1>1, <1>8, SearchesTakeTurns DEF RyanairHandled, wizzVars
  <2>2. turn = "ryanair" /\ wzOutcome = "idle"
    BY <1>1, <2>1 DEF TurnInv
  <2>3. QED
    BY <1>2, <1>3, <2>1, <2>2 DEF TurnInv, Provider
<1>9. CASE WizzAirHandled
  <2>1. /\ wzOutcome \in {"fares", "error", "rateLimit"} /\ wzOutcome' = "idle"
        /\ ryOutcome' = ryOutcome /\ Mark(wzOutcome) /\ EndTurn
    BY <1>1, <1>9, SearchesTakeTurns DEF WizzAirHandled, ryanairVars
  <2>2. turn = "wizzair" /\ ryOutcome = "idle"
    BY <1>1, <2>1 DEF TurnInv
  <2>3. QED
    BY <1>2, <1>3, <2>1, <2>2 DEF TurnInv, Provider
<1>10. ASSUME NEW p \in Provider, CooldownEnds(p) PROVE TurnInv'
  <2>1. /\ cooling' = [cooling EXCEPT ![p] = "none"]
        /\ UNCHANGED <<turn, force, ryOutcome, wzOutcome>>
    BY <1>10 DEF CooldownEnds, ryanairVars, wizzVars
  <2>2. QED
    BY <1>1, <2>1 DEF TurnInv, Provider
<1>11. CASE UNCHANGED vars
  BY <1>1, <1>11 DEF TurnInv, vars, runVars, ryanairVars, wizzVars
<1>12. QED
  BY <1>4, <1>5, <1>6, <1>7, <1>8, <1>9, <1>10, <1>11, Zenon DEF Next, RunStep

-----------------------------------------------------------------------------
(* What a search that returned hands over is in the order of its dates. *)
DatesFound == [i \in 1 .. Len(fares) |-> Ryanair!DateOf(fares[i])]

(* They are sorted once a search has returned. *)
LEMMA ReturnedDates ==
    RyanairInv /\ ryOutcome = "fares" =>
       /\ DatesFound \in Seq(Day)
       /\ \A i, j \in 1 .. Len(DatesFound) : i < j => DatesFound[i] <= DatesFound[j]
<1> SUFFICES ASSUME RyanairInv, ryOutcome = "fares",
                    NEW ds, ds = DatesFound
             PROVE  ds \in Seq(Day) /\ \A i, j \in 1 .. Len(ds) : i < j => ds[i] <= ds[j]
  OBVIOUS
<1>1. /\ fares \in Seq(Ryanair!Page \X Nat) /\ Len(fares) \in Nat
      /\ listing \in Listing \cup {Ryanair!Nothing}
  BY DEF RyanairInv, Ryanair!TypeOK
<1>2. ASSUME NEW i \in 1 .. Len(fares) PROVE Ryanair!DateOf(fares[i]) \in Day
  <2>1. fares[i] \in Ryanair!Offered
    <3>1. DOMAIN fares = 1 .. Len(fares)
      BY <1>1
    <3>2. Ryanair!ToSet(fares) = Ryanair!Offered
      BY DEF RyanairInv, Ryanair!ReturnsWholeListing
    <3>3. QED
      BY <3>1, <3>2 DEF Ryanair!ToSet
  <2>2. PICK p \in Ryanair!Reachable :
           fares[i] \in {<<p, k>> : k \in 1 .. Len(listing[p].dates)}
    BY <2>1 DEF Ryanair!Offered
  <2>3. PICK k \in 1 .. Len(listing[p].dates) : fares[i] = <<p, k>>
    BY <2>2
  <2>4. listing[p].dates \in Seq(Day)
    BY <1>1, RyanairConstants DEF Ryanair!Reachable
  <2>5. QED
    BY <2>3, <2>4 DEF Ryanair!DateOf
<1>3. /\ Len(ds) = Len(fares) /\ ds \in Seq(Day)
      /\ \A i \in 1 .. Len(fares) : ds[i] = Ryanair!DateOf(fares[i])
  BY <1>1, <1>2 DEF DatesFound
<1>4. ASSUME NEW i \in 1 .. Len(fares), NEW j \in 1 .. Len(fares), i < j
      PROVE  ds[i] <= ds[j]
  <2>1. Ryanair!DateOf(fares[i]) \in Int /\ Ryanair!DateOf(fares[j]) \in Int
    BY <1>2, RyanairConstants
  <2>2. \/ Ryanair!DateOf(fares[i]) < Ryanair!DateOf(fares[j])
        \/ Ryanair!DateOf(fares[i]) = Ryanair!DateOf(fares[j])
    BY <1>4, Zenon DEF RyanairInv, Ryanair!ReturnsWholeListing
  <2>3. QED
    BY <1>3, <2>1, <2>2
<1>5. QED
  BY <1>3, <1>4

(* A step of the Ryanair adapter is a call, a return, an exception or        *)
(* nothing that run_subscription sees.                                       *)
LEMMA RyanairRefines ==
    ASSUME RyanairInv, RyanairInv', Ryanair!Next \/ UNCHANGED ryanairVars
    PROVE  [Ryanair!Contract!Next]_(Ryanair!Contract!vars)
<1> DEFINE dates == IF ryOutcome = "fares" THEN DatesFound ELSE << >>
<1>1. SUFFICES \/ ryOutcome = "idle" /\ ryOutcome' = "searching" /\ dates' = dates
               \/ /\ ryOutcome = "searching" /\ ryOutcome' = "fares"
                  /\ dates' \in Seq(Day)
                  /\ \A i, j \in 1 .. Len(dates') : i < j => dates'[i] <= dates'[j]
               \/ ryOutcome = "searching" /\ ryOutcome' = "error" /\ dates' = dates
               \/ ryOutcome \in {"fares", "error"} /\ ryOutcome' = "idle" /\ dates' = << >>
               \/ ryOutcome' = ryOutcome /\ dates' = dates
  BY DEF Ryanair!Contract!Next, Ryanair!Contract!Call, Ryanair!Contract!Return,
         Ryanair!Contract!Raise, Ryanair!Contract!Handled, Ryanair!Contract!vars,
         Ryanair!Contract!Sorted, Ryanair!Contract!Ended, DatesFound
<1>2. CASE Ryanair!Search
  BY <1>2 DEF Ryanair!Search
<1>3. CASE Ryanair!Handled
  BY <1>3 DEF Ryanair!Handled
<1>4. CASE UNCHANGED ryanairVars
  BY <1>4 DEF ryanairVars, Ryanair!DateOf, DatesFound
<1>5. ASSUME ryOutcome = "searching", ryOutcome' = "fares"
      PROVE  dates' \in Seq(Day) /\ \A i, j \in 1 .. Len(dates') : i < j => dates'[i] <= dates'[j]
  <2>1. (RyanairInv /\ ryOutcome = "fares" =>
           /\ DatesFound \in Seq(Day)
           /\ \A i, j \in 1 .. Len(DatesFound) : i < j => DatesFound[i] <= DatesFound[j])'
    BY ReturnedDates, PTL
  <2>2. dates' = DatesFound'
    BY <1>5
  <2> HIDE DEF dates
  <2>3. QED
    BY <1>5, <2>1, <2>2
<1>6. CASE Ryanair!Step
  BY <1>5, <1>6
     DEF Ryanair!Step, Ryanair!FetchPage, Ryanair!FetchFails, Ryanair!BodyFails,
         Ryanair!MapFares, Ryanair!MapFails, Ryanair!Raised
<1>7. QED
  BY <1>2, <1>3, <1>4, <1>6 DEF Ryanair!Next

(* The same of the Wizz Air adapter, which also raises a rate limit. *)
LEMMA WizzAirRefines ==
    ASSUME WizzAirInv, WizzAirInv', WizzAir!Next \/ UNCHANGED wizzVars
    PROVE  [WizzAir!Contract!Next]_(WizzAir!Contract!vars)
<1>1. SUFFICES \/ wzOutcome = "idle" /\ wzOutcome' = "searching" /\ wzDates' = wzDates
               \/ /\ wzOutcome = "searching" /\ wzOutcome' = "fares"
                  /\ wzDates' \in Seq(Day)
                  /\ \A i, j \in 1 .. Len(wzDates') : i < j => wzDates'[i] <= wzDates'[j]
               \/ /\ wzOutcome = "searching" /\ wzOutcome' \in {"error", "rateLimit"}
                  /\ wzDates' = wzDates
               \/ /\ wzOutcome \in {"fares", "error", "rateLimit"} /\ wzOutcome' = "idle"
                  /\ wzDates' = << >>
               \/ wzOutcome' = wzOutcome /\ wzDates' = wzDates
  BY DEF WizzAir!Contract!Next, WizzAir!Contract!Call, WizzAir!Contract!Return,
         WizzAir!Contract!Raise, WizzAir!Contract!Handled, WizzAir!Contract!vars,
         WizzAir!Contract!Sorted, WizzAir!Contract!Ended
<1>2. CASE WizzAir!Search
  BY <1>2 DEF WizzAir!Search
<1>3. CASE WizzAir!Handled
  BY <1>3 DEF WizzAir!Handled
<1>4. CASE UNCHANGED wizzVars
  BY <1>4 DEF wizzVars
<1>5. ASSUME wzPc # "idle" PROVE wzOutcome = "searching" /\ wzDates = << >>
  BY <1>5 DEF WizzAirInv, WizzAirSearch
<1>6. CASE WizzAir!MapResponse
  <2>1. wzPc = "map" /\ wzOutcome' = "fares" /\ wzDates' = WizzAir!DatesOf(flights)
    BY <1>6 DEF WizzAir!MapResponse, WizzAir!EndSearch
  <2>2. flights \in Seq(WizzAir!Flight)
    BY DEF WizzAirInv, WizzAirSearch, WizzAir!TypeOK
  <2>3. /\ wzDates' \in Seq(Day)
        /\ \A i, j \in 1 .. Len(wzDates') : i < j => wzDates'[i] <= wzDates'[j]
    BY <2>1, <2>2, DatesAreSorted, Zenon
  <2>4. QED
    BY <1>5, <2>1, <2>3
<1>7. ASSUME wzPc # "idle",
             \/ \E how \in {"error", "rateLimit"} : WizzAir!EndSearch(how, << >>)
             \/ UNCHANGED <<wzOutcome, wzDates>>
      PROVE  \/ /\ wzOutcome = "searching" /\ wzOutcome' \in {"error", "rateLimit"}
                /\ wzDates' = wzDates
             \/ wzOutcome' = wzOutcome /\ wzDates' = wzDates
  BY <1>5, <1>7 DEF WizzAir!EndSearch
<1>8. CASE WizzAir!VisitPage \/ WizzAir!VisitFails \/ WizzAir!ImportFails \/ WizzAir!LaunchFails
           \/ WizzAir!LaunchBrowser \/ WizzAir!NoFirstTab \/ WizzAir!OpenBooking
           \/ WizzAir!OpenPopup \/ WizzAir!TabTimesOut \/ WizzAir!BrowserRaises
           \/ WizzAir!CloseFails \/ WizzAir!MapFails
  BY <1>7, <1>8
     DEF WizzAir!VisitPage, WizzAir!VisitFails, WizzAir!ImportFails, WizzAir!LaunchFails,
         WizzAir!LaunchBrowser, WizzAir!NoFirstTab, WizzAir!OpenBooking, WizzAir!OpenPopup,
         WizzAir!TabTimesOut, WizzAir!BrowserRaises,
         WizzAir!CloseFails, WizzAir!MapFails, WizzAir!Raise
<1>9. CASE WizzAir!CloseBrowser
  <2>1. wzPc = "close" /\ held \in {"answer", "error", "rateLimit"}
    BY <1>9 DEF WizzAir!CloseBrowser, WizzAirInv, WizzAirSearch, WizzAirAnswers, WizzAir!TypeOK
  <2>2. QED
    BY <1>7, <1>9, <2>1 DEF WizzAir!CloseBrowser, WizzAir!Raise
<1>10. ASSUME NEW found \in Answer, WizzAir!PostAnswered(found) \/ WizzAir!BrowserAnswered(found)
       PROVE  wzOutcome' = wzOutcome /\ wzDates' = wzDates
  BY <1>10 DEF WizzAir!PostAnswered, WizzAir!BrowserAnswered
<1>11. ASSUME NEW status \in {"limited", "failed", "refused"},
              WizzAir!PostFails(status) \/ WizzAir!SameTabFails(status)
              \/ WizzAir!PopupFails(status) \/ WizzAir!ScriptFails(status)
       PROVE  \/ /\ wzOutcome = "searching" /\ wzOutcome' \in {"error", "rateLimit"}
                 /\ wzDates' = wzDates
              \/ wzOutcome' = wzOutcome /\ wzDates' = wzDates
  BY <1>7, <1>11 DEF WizzAir!PostFails, WizzAir!SameTabFails, WizzAir!PopupFails,
                     WizzAir!ScriptFails, WizzAir!Raise
<1>12. CASE WizzAir!Step
  <2>1. \/ WizzAir!MapResponse \/ WizzAir!CloseBrowser
        \/ WizzAir!VisitPage \/ WizzAir!VisitFails \/ WizzAir!ImportFails \/ WizzAir!LaunchFails
           \/ WizzAir!LaunchBrowser \/ WizzAir!NoFirstTab \/ WizzAir!OpenBooking
           \/ WizzAir!OpenPopup \/ WizzAir!TabTimesOut \/ WizzAir!BrowserRaises
           \/ WizzAir!CloseFails \/ WizzAir!MapFails
        \/ \E found \in Answer : WizzAir!PostAnswered(found) \/ WizzAir!BrowserAnswered(found)
        \/ \E status \in {"limited", "failed", "refused"} :
              WizzAir!PostFails(status) \/ WizzAir!SameTabFails(status)
              \/ WizzAir!PopupFails(status) \/ WizzAir!ScriptFails(status)
    BY <1>12, Zenon DEF WizzAir!Step
  <2>2. QED
    BY <1>6, <1>8, <1>9, <1>10, <1>11, <2>1
<1>13. QED
  BY <1>2, <1>3, <1>4, <1>12 DEF WizzAir!Next

-----------------------------------------------------------------------------
(* The invariant of the runs holds for all listings and answers. *)
LEMMA RunsKeepInv == FairSpec => []RunInv
<1>1. Init => RunInv
  <2> SUFFICES ASSUME Init PROVE RunInv
    OBVIOUS
  <2>1. RyanairInv /\ WizzAirInv
    BY RyanairInit, WizzAirInit DEF Init
  <2>2. TurnInv
    BY DEF Init, TurnInv, Provider, Ryanair!Init, WizzAir!Init
  <2>3. QED
    BY <2>1, <2>2 DEF RunInv
<1>2. RunInv /\ [Next]_vars => RunInv'
  BY AdaptersKeep, TurnsAreTaken DEF RunInv
<1>3. QED
  BY <1>1, <1>2, PTL DEF FairSpec

(* The state has its types, only the provider whose turn it is is searched,  *)
(* and only Wizz Air ever gets the cooldown of a rate limit, however many    *)
(* pages, attempts and answers there are.                                    *)
THEOREM TurnsAreKept == FairSpec => []TypeOK
<1>1. RunInv => TypeOK
  BY DEF RunInv, TurnInv, RyanairInv, WizzAirInv, WizzAirSearch, TypeOK
<1>2. QED
  BY <1>1, RunsKeepInv, PTL

(* RyanairAdapter.search returns every fare of the listing exactly once and  *)
(* by date, for listings of any length, or nothing.                          *)
THEOREM WholeListingIsReturned == FairSpec => []ReturnsWholeListing
<1>1. RunInv => ReturnsWholeListing
  BY DEF RunInv, RyanairInv, ReturnsWholeListing
<1>2. QED
  BY <1>1, RunsKeepInv, PTL

(* WizzAirAdapter.search tells a rate limit and a list of fares from the     *)
(* last answer of the site, for any number of attempts.                      *)
THEOREM OutcomeFollowsAnswer == FairSpec => []OutcomeMatchesAnswer
<1>1. RunInv => OutcomeMatchesAnswer
  BY DEF RunInv, WizzAirInv, WizzAirAnswers, OutcomeMatchesAnswer, WizzAir!OutcomeMatchesAnswer
<1>2. QED
  BY <1>1, RunsKeepInv, PTL

(* No way out of WizzAirAdapter.search leaves its browser open. *)
THEOREM NoBrowserIsLeft == FairSpec => []BrowserIsClosed
<1>1. RunInv => BrowserIsClosed
  BY DEF RunInv, WizzAirInv, WizzAirSearch, BrowserIsClosed, WizzAir!BrowserIsClosed, InTab, InBrowser
<1>2. QED
  BY <1>1, RunsKeepInv, PTL

(* A search sends Ryanair MaxAttempts requests for each page it reaches, and *)
(* Wizz Air MaxAttempts and five from a browser, at most.                    *)
THEOREM TrafficStaysBounded == FairSpec => []BoundedTraffic
<1>1. RunInv => BoundedTraffic
  BY DEF RunInv, RyanairInv, WizzAirInv, WizzAirLoad, BoundedTraffic
<1>2. QED
  BY <1>1, RunsKeepInv, PTL

(* Both adapters implement the contract run_subscription relies on, through  *)
(* all runs: each of their steps is a step of the contract or invisible.     *)
THEOREM AdaptersKeepContract == FairSpec => AdaptersImplementContract
<1>1. Init => Ryanair!Contract!Init /\ WizzAir!Contract!Init
  BY DEF Init, Ryanair!Init, WizzAir!Init, Ryanair!Contract!Init, WizzAir!Contract!Init
<1>2. RunInv /\ RunInv' /\ [Next]_vars
      => /\ [Ryanair!Contract!Next]_(Ryanair!Contract!vars)
         /\ [WizzAir!Contract!Next]_(WizzAir!Contract!vars)
  <2> SUFFICES ASSUME RunInv, RunInv', [Next]_vars
               PROVE  /\ [Ryanair!Contract!Next]_(Ryanair!Contract!vars)
                      /\ [WizzAir!Contract!Next]_(WizzAir!Contract!vars)
    OBVIOUS
  <2>1. /\ Ryanair!Next \/ UNCHANGED ryanairVars
        /\ WizzAir!Next \/ UNCHANGED wizzVars
    BY RunsStep DEF vars
  <2>2. RyanairInv /\ WizzAirInv /\ RyanairInv' /\ WizzAirInv'
    BY DEF RunInv
  <2>3. [Ryanair!Contract!Next]_(Ryanair!Contract!vars)
    BY <2>1, <2>2, RyanairRefines
  <2>4. [WizzAir!Contract!Next]_(WizzAir!Contract!vars)
    BY <2>1, <2>2, WizzAirRefines
  <2>5. QED
    BY <2>3, <2>4
<1>3. QED
  BY <1>1, <1>2, RunsKeepInv, PTL
     DEF FairSpec, AdaptersImplementContract, Ryanair!ImplementsContract,
         WizzAir!ImplementsContract, Ryanair!Contract!Spec, WizzAir!Contract!Spec
=============================================================================
