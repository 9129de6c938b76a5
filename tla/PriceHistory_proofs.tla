-------------------------- MODULE PriceHistory_proofs --------------------------
(***************************************************************************)
(* What overlapping runs can never do to the price history, for any fares, *)
(* prices, results, workers, retries and faults; and that transactions     *)
(* which do not overlap implement PriceWatch.                              *)
(***************************************************************************)
EXTENDS PriceRefinement, Ordering_proofs, WellFoundedInduction, SequenceTheorems

(* What a worker's transaction sees of the tables. *)
SeenSnaps(w) == snapshots \cup ownSnaps[w]
SeenEvents(w) == events \cup ownEvents[w]

(* Only an open transaction has rows of its own, and after the deletion no  *)
(* transaction can insert.                                                  *)
Transactions ==
    /\ \A w \in Worker :
          /\ pc[w] \in {"idle", "queue"} => ownSnaps[w] = {} /\ ownEvents[w] = {}
          /\ ownSnaps[w] = {} => ownEvents[w] = {}
          /\ pc[w] = "store" => rest[w] # << >>
          /\ pc[w] # "queue" => toQueue[w] = {}
    /\ ~exists => /\ snapshots = {} /\ events = {}
                  /\ \A w \in Worker : ownSnaps[w] = {} /\ ownEvents[w] = {}

(* Every row has a created_at of the past. *)
RowsArePast ==
    /\ Len(tries) = clock
    /\ \A x \in snapshots : x.at \in Ids
    /\ \A w \in Worker : \A x \in ownSnaps[w] : x.at \in Ids
    /\ \A e \in events : e.at \in Ids
    /\ \A w \in Worker : \A e \in ownEvents[w] : e.at \in Ids

Explained(e, rows) ==
    /\ \E x \in rows : x.at = e.at /\ x.fare = e.fare /\ x.price = e.new
    /\ e.old # e.new \/ \E p \in Inexact : Rounded[p] = e.new
    /\ ~Initial(e) => \E x \in rows : x.fare = e.fare /\ x.price = e.old /\ x.at < e.at

(* A row holds a rounded price, and comes with an event unless a row before  *)
(* it has the same price.                                                   *)
Repeated(x, rows, changes) ==
    /\ Rounded[x.price] = x.price
    /\ \/ \E e \in changes : e.at = x.at
       \/ \E y \in rows : y.fare = x.fare /\ y.price = x.price /\ y.at < x.at

EventsExplained(E, rows) == \A e \in E : Explained(e, rows)
SnapsExplained(X, rows, changes) == \A x \in X : Repeated(x, rows, changes)

(* The price a transaction has read for its next fare is one it sees.        *)
ReadPriceSeen(w) ==
    exists /\ pc[w] = "store" /\ latest[w] # NoPrice =>
        \E x \in SeenSnaps(w) : x.fare = Head(rest[w]).fare /\ x.price = latest[w]

(* What is committed is explained by what is committed, and what is not yet  *)
(* by what its transaction sees.                                            *)
TransactionsAreExplained ==
    /\ EventsExplained(events, snapshots)
    /\ SnapsExplained(snapshots, snapshots, events)
    /\ \A w \in Worker :
          /\ EventsExplained(ownEvents[w], SeenSnaps(w))
          /\ SnapsExplained(ownSnaps[w], SeenSnaps(w), SeenEvents(w))
          /\ ReadPriceSeen(w)

(* The ids a worker may still send: of its open transaction and its queue.   *)
Unsent(w) == toQueue[w] \cup {e.at : e \in ownEvents[w]}

(* Each id is in one hand only: of a worker that has yet to send it, or of   *)
(* the one message about it, which counts its dispatches.                   *)
OneHand ==
    /\ \A w \in Worker : \A id \in Unsent(w) : id \in Ids /\ tries[id] = 0
    /\ \A v, w \in Worker : \A id \in Unsent(v) : v # w => id \notin Unsent(w)
    /\ \A m \in broker : m.event \in Ids /\ tries[m.event] = m.retries
    /\ \A m, n \in broker : m.event = n.event => m = n
    /\ \A w \in Worker : \A m \in broker : m.event \notin Unsent(w)
    /\ \A id \in Ids : tries[id] <= 1 + MaxRetries

CommittedChange(id) == \E e \in events : e.at = id /\ ~Initial(e)

(* What is still to be queued is committed already. *)
QueuesCommitted ==
    exists =>
        /\ \A w \in Worker : \A id \in toQueue[w] : CommittedChange(id)
        /\ \A m \in broker : CommittedChange(m.event)
        /\ \A id \in delivered : CommittedChange(id)

-----------------------------------------------------------------------------
(* A nonempty set of naturals with an upper bound has a greatest element.    *)
LEMMA GreatestExists ==
    ASSUME NEW c \in Nat, NEW S \in SUBSET (0 .. c), S # {}
    PROVE  \E m \in S : \A n \in S : n <= m
<1> DEFINE T == {c - n : n \in S}
           Less == OpToRel(<, Nat)
<1>1. IsWellFoundedOn(Less, Nat)
  BY NatLessThanWellFounded
<1>2. \A a, b \in Nat : <<a, b>> \in Less <=> a < b
  BY DEF OpToRel
<1>3. \A n \in S : n \in Nat /\ c - n \in Nat
  OBVIOUS
<1>4. T \in SUBSET Nat /\ T # {}
  BY <1>3
<1> HIDE DEF Less
<1>5. PICK x \in T : \A y \in T : x <= y
  <2> HIDE DEF T
  <2>1. PICK x \in T : \A y \in T : ~(<<y, x>> \in Less)
    BY <1>1, <1>4, WFMin
  <2>2. ASSUME NEW y \in T PROVE x <= y
    <3>1. x \in Nat /\ y \in Nat
      BY <1>4
    <3>2. ~(y < x)
      BY <1>2, <2>1, <3>1
    <3>3. QED
      BY <3>1, <3>2
  <2>3. QED
    BY <2>2
<1>6. PICK m \in S : x = c - m
  BY <1>5
<1>7. ASSUME NEW n \in S PROVE n <= m
  <2>1. x <= c - n
    BY <1>5
  <2>2. QED
    BY <1>3, <1>6, <2>1
<1>8. QED
  BY <1>7

(* order_by("-created_at").first() finds a row of the fare when there is one. *)
LEMMA LatestIsSeen ==
    ASSUME TypeOK, RowsArePast, NEW w \in Worker, NEW f \in Fare
    PROVE  /\ LatestPrice(w, f) \in Price \cup {NoPrice}
           /\ LatestPrice(w, f) # NoPrice =>
                 \E x \in SeenSnaps(w) : x.fare = f /\ x.price = LatestPrice(w, f)
<1>1. CASE Visible(w, f) = {}
  BY <1>1 DEF LatestPrice
<1>2. CASE Visible(w, f) # {}
  <2> DEFINE ats == {x.at : x \in Visible(w, f)}
  <2>1. \A x \in Visible(w, f) : x \in SeenSnaps(w) /\ x \in Snapshot /\ x.fare = f /\ x.at \in Ids
    BY DEF Visible, SeenSnaps, TypeOK, RowsArePast
  <2>2. ats \in SUBSET (0 .. clock) /\ ats # {} /\ clock \in Nat
    BY <1>2, <2>1 DEF Ids, TypeOK
  <2>3. PICK m \in ats : \A n \in ats : n <= m
    BY <2>2, GreatestExists
  <2>4. \E x \in Visible(w, f) : \A y \in Visible(w, f) : y.at <= x.at
    BY <2>3
  <2> DEFINE last == CHOOSE x \in Visible(w, f) : \A y \in Visible(w, f) : y.at <= x.at
  <2>5. last \in Visible(w, f)
    BY <2>4
  <2>6. LatestPrice(w, f) = last.price
    BY <1>2 DEF LatestPrice
  <2>7. last \in SeenSnaps(w) /\ last.fare = f /\ last.price \in Price
    BY <2>1, <2>5 DEF Snapshot
  <2>8. QED
    BY <2>6, <2>7
<1>3. QED
  BY <1>1, <1>2

(* A worker that is to store a fare has one, and only quotes are left to it. *)
LEMMA HeadOfRest ==
    ASSUME TypeOK, NEW w \in Worker, rest[w] # << >>
    PROVE  /\ Head(rest[w]) \in Quote /\ Tail(rest[w]) \in Seq(Quote)
           /\ Head(rest[w]).fare \in Fare /\ Head(rest[w]).price \in Price
<1>1. rest[w] \in Seq(Quote)
  BY DEF TypeOK
<1>2. Head(rest[w]) \in Quote /\ Tail(rest[w]) \in Seq(Quote)
  BY <1>1
<1>3. QED
  BY <1>2 DEF Quote

-----------------------------------------------------------------------------
(* Types, the state of a transaction, and the times of its rows belong       *)
(* together: a price is found because rows are of the past, and a fare is    *)
(* there to be stored because a worker that has read has one left.           *)
Base == TypeOK /\ Transactions /\ RowsArePast

Dropped(w) == Forget(w) /\ UNCHANGED <<exists, snapshots, events, clock, sendVars, runs>>

(* Beginning a transaction keeps the types and what transactions hold. *)
LEMMA BeginIsSound ==
    ASSUME Base, NEW w \in Worker, NEW fares \in Result, BeginPersist(w, fares)
    PROVE  Base'
<1>1. fares \in Seq(Quote)
  BY ConstantsAssumption DEF ConstantsAssumption
<1>2. TypeOK'
  BY <1>1 DEF Base, TypeOK, BeginPersist, sendVars
<1>3. Transactions'
  BY DEF Base, TypeOK, Transactions, BeginPersist, sendVars
<1>4. RowsArePast'
  BY DEF Base, RowsArePast, Ids, BeginPersist, sendVars
<1>5. QED
  BY <1>2, <1>3, <1>4 DEF Base

(* So does reading the latest price, *)
LEMMA ReadIsSound ==
    ASSUME Base, NEW w \in Worker, ReadLatest(w)
    PROVE  Base'
<1>1. LatestPrice(w, Head(rest[w]).fare) \in Price \cup {NoPrice}
  BY HeadOfRest, LatestIsSeen DEF Base, ReadLatest
<1>2. TypeOK'
  BY <1>1 DEF Base, TypeOK, ReadLatest, sendVars
<1>3. Transactions'
  BY DEF Base, TypeOK, Transactions, ReadLatest, sendVars
<1>4. RowsArePast'
  BY DEF Base, RowsArePast, Ids, ReadLatest, sendVars
<1>5. QED
  BY <1>2, <1>3, <1>4 DEF Base

(* dropping a transaction, *)
LEMMA DropIsSound ==
    ASSUME Base, NEW w \in Worker, Dropped(w), faults' \in Nat
    PROVE  Base'
<1>1. TypeOK'
  BY DEF Base, TypeOK, Dropped, Forget, sendVars
<1>2. Transactions'
  BY DEF Base, TypeOK, Transactions, Dropped, Forget, sendVars
<1>3. RowsArePast'
  BY DEF Base, TypeOK, RowsArePast, Ids, Dropped, Forget, sendVars
<1>4. QED
  BY <1>1, <1>2, <1>3 DEF Base

(* committing one, *)
LEMMA CommitIsSound ==
    ASSUME Base, NEW w \in Worker, Commit(w)
    PROVE  Base'
<1>1. NotifiedIds(ownEvents[w]) \subseteq Nat
  BY DEF Base, TypeOK, NotifiedIds, Event
<1>2. TypeOK'
  BY <1>1 DEF Base, TypeOK, Commit, sendVars
<1>3. Transactions'
  BY DEF Base, TypeOK, Transactions, Commit, sendVars
<1>4. RowsArePast'
  BY DEF Base, TypeOK, RowsArePast, Ids, Commit, sendVars
<1>5. QED
  BY <1>2, <1>3, <1>4 DEF Base

(* queueing a notification, *)
LEMMA QueueIsSound ==
    ASSUME Base, NEW w \in Worker, QueueNotification(w)
    PROVE  Base'
<1>1. PICK id \in toQueue[w] :
         /\ broker' = broker \cup {[event |-> id, retries |-> 0]}
         /\ toQueue' = [toQueue EXCEPT ![w] = @ \ {id}]
  BY DEF QueueNotification
<1>2. id \in Nat /\ 0 \in 0 .. MaxRetries
  BY ConstantsAssumption DEF ConstantsAssumption, Base, TypeOK
<1>3. TypeOK'
  BY <1>1, <1>2 DEF Base, TypeOK, QueueNotification
<1>4. Transactions'
  BY <1>1 DEF Base, TypeOK, Transactions, QueueNotification
<1>5. RowsArePast'
  BY DEF Base, RowsArePast, Ids, QueueNotification
<1>6. QED
  BY <1>3, <1>4, <1>5 DEF Base

(* deleting the subscription, *)
LEMMA DeletionIsSound ==
    ASSUME Base, DeleteSubscription
    PROVE  Base'
<1>1. TypeOK'
  BY DEF Base, TypeOK, DeleteSubscription, workerVars, sendVars
<1>2. Transactions'
  BY DEF Base, TypeOK, Transactions, DeleteSubscription, workerVars, sendVars
<1>3. RowsArePast'
  BY DEF Base, RowsArePast, Ids, DeleteSubscription, workerVars, sendVars
<1>4. QED
  BY <1>1, <1>2, <1>3 DEF Base

(* The rows a stored fare adds to the worker's transaction. *)
NewSnap(w) == [fare |-> Head(rest[w]).fare, price |-> Rounded[Head(rest[w]).price],
               at |-> clock + 1]
NewEvent(w) == [fare |-> Head(rest[w]).fare, old |-> latest[w],
                new |-> Rounded[Head(rest[w]).price], at |-> clock + 1]

(* What storing a fare writes. *)
LEMMA StoreEffect ==
    ASSUME Base, NEW w \in Worker, StoreFare(w)
    PROVE  /\ NewSnap(w) \in Snapshot /\ NewEvent(w) \in Event
           /\ ownSnaps' = [ownSnaps EXCEPT ![w] = @ \cup {NewSnap(w)}]
           /\ \/ /\ latest[w] # Head(rest[w]).price
                 /\ ownEvents' = [ownEvents EXCEPT ![w] = @ \cup {NewEvent(w)}]
              \/ /\ latest[w] = Head(rest[w]).price
                 /\ ownEvents' = ownEvents
<1>1. /\ Head(rest[w]).fare \in Fare /\ Rounded[Head(rest[w]).price] \in Price
      /\ latest[w] \in Price \cup {NoPrice} /\ clock \in Nat
  BY HeadOfRest, ConstantsAssumption DEF ConstantsAssumption, Base, TypeOK, Transactions, StoreFare
<1>2. NewSnap(w) \in Snapshot /\ NewEvent(w) \in Event
  BY <1>1 DEF NewSnap, NewEvent, Snapshot, Event
<1>3. ownSnaps' = [ownSnaps EXCEPT ![w] = @ \cup {NewSnap(w)}]
  BY DEF StoreFare, NewSnap
<1>4. CASE latest[w] # Head(rest[w]).price
  BY <1>2, <1>3, <1>4 DEF StoreFare, NewEvent, PriceChanged
<1>5. CASE latest[w] = Head(rest[w]).price
  BY <1>2, <1>3, <1>5 DEF StoreFare, PriceChanged
<1>6. QED
  BY <1>4, <1>5

(* Storing a fare keeps it too, *)
LEMMA StoreIsSound ==
    ASSUME Base, NEW w \in Worker, StoreFare(w)
    PROVE  Base'
<1>1. /\ NewSnap(w) \in Snapshot /\ NewEvent(w) \in Event
      /\ ownSnaps' = [ownSnaps EXCEPT ![w] = @ \cup {NewSnap(w)}]
      /\ \/ ownEvents' = [ownEvents EXCEPT ![w] = @ \cup {NewEvent(w)}]
         \/ ownEvents' = ownEvents
  BY StoreEffect
<1>2. Tail(rest[w]) \in Seq(Quote)
  BY HeadOfRest DEF Base, Transactions, StoreFare
<1>3. clock \in Nat /\ clock' = clock + 1 /\ tries' = Append(tries, 0) /\ tries \in Seq(Nat)
  BY DEF Base, TypeOK, StoreFare
<1>4. tries' \in Seq(Nat) /\ Len(tries') = Len(tries) + 1
  BY <1>3
<1>5. TypeOK'
  BY <1>1, <1>2, <1>3, <1>4 DEF Base, TypeOK, StoreFare
<1>6. Transactions'
  <2>1. exists /\ exists' /\ UNCHANGED toQueue /\ pc' = [pc EXCEPT ![w] = "read"]
        /\ rest' = [rest EXCEPT ![w] = Tail(@)] /\ pc[w] = "store"
    BY DEF StoreFare
  <2>2. \A v \in Worker \ {w} :
           /\ ownSnaps'[v] = ownSnaps[v] /\ ownEvents'[v] = ownEvents[v]
           /\ pc'[v] = pc[v] /\ rest'[v] = rest[v]
    BY <1>1, <2>1 DEF Base, TypeOK
  <2>3. pc'[w] = "read" /\ ownSnaps'[w] # {} /\ toQueue'[w] = {}
    BY <1>1, <2>1 DEF Base, TypeOK, Transactions
  <2>4. QED
    BY <2>1, <2>2, <2>3 DEF Base, Transactions
<1>7. RowsArePast'
  <2>1. Len(tries') = clock'
    BY <1>3, <1>4 DEF Base, RowsArePast
  <2>2. \A i \in Ids : i \in Ids'
    BY <1>3 DEF Ids
  <2>3. NewSnap(w).at \in Ids' /\ NewEvent(w).at \in Ids'
    BY <1>3 DEF NewSnap, NewEvent, Ids
  <2>4. UNCHANGED <<snapshots, events>>
    BY DEF StoreFare
  <2>5. \A v \in Worker : \A x \in ownSnaps'[v] : x.at \in Ids'
    BY <1>1, <2>2, <2>3 DEF Base, TypeOK, RowsArePast
  <2>6. ASSUME NEW v \in Worker, NEW e \in ownEvents'[v] PROVE e.at \in Ids'
    <3>1. e \in ownEvents[v] \/ e = NewEvent(w)
      BY <1>1 DEF Base, TypeOK
    <3>2. QED
      BY <2>2, <2>3, <3>1 DEF Base, RowsArePast
  <2>7. QED
    BY <2>1, <2>2, <2>4, <2>5, <2>6 DEF Base, RowsArePast
<1>8. QED
  BY <1>5, <1>6, <1>7 DEF Base

(* What a dispatch of a message does, whether it succeeds or not. *)
LEMMA TriedIsSound ==
    ASSUME Base, NEW m \in broker, m.event \in Ids
    PROVE  /\ tries[m.event] \in Nat
           /\ [tries EXCEPT ![m.event] = @ + 1] \in Seq(Nat)
           /\ Len([tries EXCEPT ![m.event] = @ + 1]) = Len(tries)
<1>1. tries \in Seq(Nat) /\ m.event \in 1 .. Len(tries)
  BY DEF Base, TypeOK, RowsArePast, Ids
<1>2. tries[m.event] \in Nat
  BY <1>1
<1>3. QED
  BY <1>1, <1>2

(* and so does every step of sending a notification. *)
LEMMA SendIsSound ==
    ASSUME Base, NEW m \in broker, SendStep(m) \/ SendLost(m)
    PROVE  Base'
<1>1. /\ m \in [event : Nat, retries : 0 .. MaxRetries] /\ m.event \in Nat
      /\ m.retries \in 0 .. MaxRetries /\ MaxRetries \in Nat
  BY ConstantsAssumption DEF ConstantsAssumption, Base, TypeOK
<1>2. UNCHANGED <<exists, snapshots, events, clock, pc, rest, latest, ownSnaps, ownEvents,
                  toQueue, runs>>
  BY DEF SendStep, SendSucceeds, SendRaises, SendLost, workerVars
<1>3. /\ faults' \in Nat
      /\ broker' \in SUBSET [event : Nat, retries : 0 .. MaxRetries]
      /\ delivered' \in SUBSET Nat
  <2>1. CASE SendSucceeds(m)
    BY <1>1, <2>1 DEF Base, TypeOK, SendSucceeds
  <2>2. ASSUME NEW sent \in BOOLEAN, SendRaises(m, sent)
        PROVE  <1>3!:
    <3>1. MayRetry(m) => [m EXCEPT !.retries = @ + 1] \in [event : Nat, retries : 0 .. MaxRetries]
      BY <1>1 DEF MayRetry
    <3>2. QED
      BY <1>1, <2>2, <3>1 DEF Base, TypeOK, SendRaises
  <2>3. CASE SendLost(m)
    BY <2>3 DEF Base, TypeOK, SendLost
  <2>4. QED
    BY <2>1, <2>2, <2>3 DEF SendStep
<1>4. tries' \in Seq(Nat) /\ Len(tries') = Len(tries)
  <2>1. \A e \in events : e.at \in Ids
    BY DEF Base, RowsArePast
  <2>2. \/ tries' = tries
        \/ m.event \in Ids /\ tries' = [tries EXCEPT ![m.event] = @ + 1]
    BY <2>1 DEF SendStep, SendSucceeds, SendRaises, SendLost, Tried
  <2>3. tries \in Seq(Nat)
    BY DEF Base, TypeOK
  <2>4. CASE m.event \in Ids /\ tries' = [tries EXCEPT ![m.event] = @ + 1]
    BY <2>4, TriedIsSound, Zenon
  <2>5. QED
    BY <2>2, <2>3, <2>4, Zenon
<1>5. TypeOK'
  BY <1>2, <1>3, <1>4 DEF Base, TypeOK
<1>6. Transactions'
  BY <1>2 DEF Base, Transactions
<1>7. RowsArePast'
  BY <1>2, <1>4 DEF Base, RowsArePast, Ids
<1>8. QED
  BY <1>5, <1>6, <1>7 DEF Base

(* The steps of a worker, one by one; the three that drop a transaction are  *)
(* the same step to the tables.                                             *)
LEMMA NextCases ==
    ASSUME Base, Next
    PROVE  \/ \E w \in Worker :
                 \/ \E fares \in Result : BeginPersist(w, fares)
                 \/ ReadLatest(w) \/ StoreFare(w) \/ Commit(w) \/ QueueNotification(w)
                 \/ Dropped(w) /\ faults' \in Nat
           \/ DeleteSubscription
           \/ \E m \in broker : SendStep(m) \/ SendLost(m)
<1>1. \A w \in Worker : Rollback(w) \/ BrokerFails(w) \/ Crash(w) => Dropped(w) /\ faults' \in Nat
  BY DEF Base, TypeOK, Rollback, BrokerFails, Crash, Dropped, sendVars
<1>2. QED
  BY <1>1, Zenon DEF Next, WorkerStep

(* The first part of the invariant holds in every run. *)
LEMMA BaseIsInvariant == Spec => []Base
<1>1. Init => Base
  <2> SUFFICES ASSUME Init PROVE Base
    OBVIOUS
  <2>1. TypeOK
    BY DEF Init, TypeOK
  <2>2. Transactions /\ RowsArePast
    BY DEF Init, Transactions, RowsArePast
  <2>3. QED
    BY <2>1, <2>2 DEF Base
<1>2. Base /\ [Next]_vars => Base'
  <2> SUFFICES ASSUME Base, [Next]_vars PROVE Base'
    OBVIOUS
  <2>1. CASE UNCHANGED vars
    BY <2>1 DEF Base, TypeOK, Transactions, RowsArePast, Ids, vars, workerVars, sendVars
  <2>2. CASE Next
    BY <2>2, NextCases, BeginIsSound, ReadIsSound, StoreIsSound, CommitIsSound, QueueIsSound,
       DropIsSound, DeletionIsSound, SendIsSound, Zenon
  <2>3. QED
    BY <2>1, <2>2
<1>3. QED
  BY <1>1, <1>2, PTL DEF Spec

(* Every variable keeps its type, whatever the runs do to each other.        *)
THEOREM TypeCorrect == Spec => []TypeOK
<1>1. Base => TypeOK
  BY DEF Base
<1>2. QED
  BY <1>1, BaseIsInvariant, PTL

-----------------------------------------------------------------------------
(* Explanations.  More rows never make an explained row unexplained.         *)
LEMMA ExplanationsStay ==
    ASSUME NEW rows, NEW more, rows \subseteq more, NEW changes, NEW further,
           changes \subseteq further, NEW x
    PROVE  /\ Explained(x, rows) => Explained(x, more)
           /\ Repeated(x, rows, changes) => Repeated(x, more, further)
<1>1. Explained(x, rows) => Explained(x, more)
  BY DEF Explained
<1>2. Repeated(x, rows, changes) => Repeated(x, more, further)
  BY DEF Repeated
<1>3. QED
  BY <1>1, <1>2

(* A step that adds no row of its own to any transaction: each transaction   *)
(* keeps its rows or loses them all, and sees no less than before.           *)
LEMMA WithoutNewRows ==
    ASSUME TransactionsAreExplained,
           snapshots' = snapshots, events' = events,
           \A v \in Worker :
              \/ ownSnaps'[v] = ownSnaps[v] /\ ownEvents'[v] = ownEvents[v]
              \/ ownSnaps'[v] = {} /\ ownEvents'[v] = {},
           \A v \in Worker : ReadPriceSeen(v)'
    PROVE  TransactionsAreExplained'
<1>1. ASSUME NEW v \in Worker
      PROVE  /\ EventsExplained(ownEvents'[v], SeenSnaps(v)')
             /\ SnapsExplained(ownSnaps'[v], SeenSnaps(v)', SeenEvents(v)')
  <2>1. CASE ownSnaps'[v] = ownSnaps[v] /\ ownEvents'[v] = ownEvents[v]
    BY <2>1, Zenon DEF TransactionsAreExplained, SeenSnaps, SeenEvents
  <2>2. CASE ownSnaps'[v] = {} /\ ownEvents'[v] = {}
    BY <2>2 DEF EventsExplained, SnapsExplained
  <2>3. QED
    BY <2>1, <2>2
<1>2. EventsExplained(events', snapshots') /\ SnapsExplained(snapshots', snapshots', events')
  BY DEF TransactionsAreExplained
<1>3. QED
  BY <1>1, <1>2, Zenon DEF TransactionsAreExplained, EventsExplained, SnapsExplained

(* A worker that reads nothing keeps the price it has read.                  *)
LEMMA ReadPriceStays ==
    ASSUME NEW w \in Worker, ReadPriceSeen(w), exists' => exists,
           SeenSnaps(w) \subseteq SeenSnaps(w)',
           (rest'[w] = rest[w] /\ latest'[w] = latest[w] /\ pc'[w] = pc[w]) \/ pc'[w] # "store"
    PROVE  ReadPriceSeen(w)'
  BY DEF ReadPriceSeen

(* A transaction that begins has written nothing to explain. *)
LEMMA BeginKeepsExplanations ==
    ASSUME Base, TransactionsAreExplained, NEW w \in Worker, NEW fares \in Result,
           BeginPersist(w, fares)
    PROVE  TransactionsAreExplained'
<1>1. UNCHANGED <<exists, snapshots, events, latest, ownSnaps, ownEvents>>
  BY DEF BeginPersist
<1>2. ASSUME NEW v \in Worker PROVE ReadPriceSeen(v)'
  <2>1. (rest'[v] = rest[v] /\ pc'[v] = pc[v]) \/ pc'[v] # "store"
    BY DEF BeginPersist, Base, TypeOK
  <2>2. ReadPriceSeen(v)
    BY DEF TransactionsAreExplained
  <2>3. QED
    BY <1>1, <2>1, <2>2, ReadPriceStays DEF SeenSnaps
<1>3. QED
  BY <1>1, <1>2, WithoutNewRows

(* The price it reads is explained by the rows it sees. *)
LEMMA ReadKeepsExplanations ==
    ASSUME Base, TransactionsAreExplained, NEW w \in Worker, ReadLatest(w)
    PROVE  TransactionsAreExplained'
<1>1. UNCHANGED <<exists, snapshots, events, rest, ownSnaps, ownEvents>>
  BY DEF ReadLatest
<1>2. ASSUME NEW v \in Worker PROVE ReadPriceSeen(v)'
  <2>1. CASE v = w
    <3>1. latest'[w] = LatestPrice(w, Head(rest[w]).fare)
      BY DEF ReadLatest, Base, TypeOK
    <3>2. Head(rest[w]).fare \in Fare
      BY HeadOfRest DEF ReadLatest, Base
    <3>3. QED
      BY <1>1, <2>1, <3>1, <3>2, LatestIsSeen DEF Base, ReadPriceSeen, SeenSnaps
  <2>2. CASE v # w
    <3>1. latest'[v] = latest[v] /\ pc'[v] = pc[v]
      BY <2>2 DEF ReadLatest, Base, TypeOK
    <3>2. ReadPriceSeen(v)
      BY DEF TransactionsAreExplained
    <3>3. QED
      BY <1>1, <3>1, <3>2, ReadPriceStays DEF SeenSnaps
  <2>3. QED
    BY <2>1, <2>2
<1>3. QED
  BY <1>1, <1>2, WithoutNewRows

(* Dropping rows takes no explanation from the others. *)
LEMMA DropKeepsExplanations ==
    ASSUME Base, TransactionsAreExplained, NEW w \in Worker, Dropped(w)
    PROVE  TransactionsAreExplained'
<1>1. UNCHANGED <<exists, snapshots, events>>
  BY DEF Dropped
<1>2. \A v \in Worker :
         \/ /\ ownSnaps'[v] = ownSnaps[v] /\ ownEvents'[v] = ownEvents[v]
            /\ rest'[v] = rest[v] /\ latest'[v] = latest[v] /\ pc'[v] = pc[v]
         \/ /\ ownSnaps'[v] = {} /\ ownEvents'[v] = {}
            /\ pc'[v] = "idle"
  BY DEF Dropped, Forget, Base, TypeOK
<1>3. ASSUME NEW v \in Worker PROVE ReadPriceSeen(v)'
  <2>1. CASE pc'[v] = "idle"
    BY <2>1 DEF ReadPriceSeen
  <2>2. CASE /\ ownSnaps'[v] = ownSnaps[v] /\ rest'[v] = rest[v]
             /\ latest'[v] = latest[v] /\ pc'[v] = pc[v]
    <3>1. ReadPriceSeen(v)
      BY DEF TransactionsAreExplained
    <3>2. QED
      BY <1>1, <2>2, <3>1, ReadPriceStays DEF SeenSnaps
  <2>3. QED
    BY <1>2, <2>1, <2>2
<1>4. QED
  BY <1>1, <1>2, <1>3, WithoutNewRows

(* Queueing touches no row. *)
LEMMA QueueKeepsExplanations ==
    ASSUME Base, TransactionsAreExplained, NEW w \in Worker, QueueNotification(w)
    PROVE  TransactionsAreExplained'
<1>1. UNCHANGED <<exists, snapshots, events, rest, latest, ownSnaps, ownEvents>>
  BY DEF QueueNotification
<1>2. ASSUME NEW v \in Worker PROVE ReadPriceSeen(v)'
  <2>1. pc'[v] = pc[v] \/ pc'[v] # "store"
    BY DEF QueueNotification, Base, TypeOK
  <2>2. ReadPriceSeen(v)
    BY DEF TransactionsAreExplained
  <2>3. QED
    BY <1>1, <2>1, <2>2, ReadPriceStays DEF SeenSnaps
<1>3. QED
  BY <1>1, <1>2, WithoutNewRows

(* Nor does sending. *)
LEMMA SendKeepsExplanations ==
    ASSUME TransactionsAreExplained,
           UNCHANGED <<exists, snapshots, events, pc, rest, latest, ownSnaps, ownEvents>>
    PROVE  TransactionsAreExplained'
<1>1. ASSUME NEW v \in Worker PROVE ReadPriceSeen(v)'
  BY DEF TransactionsAreExplained, ReadPriceSeen, SeenSnaps
<1>2. QED
  BY <1>1, WithoutNewRows

(* After a deletion there is nothing left to explain. *)
LEMMA DeletionKeepsExplanations ==
    ASSUME Base', exists' = FALSE
    PROVE  TransactionsAreExplained'
<1>1. snapshots' = {} /\ events' = {} /\ \A v \in Worker : ownSnaps'[v] = {} /\ ownEvents'[v] = {}
  BY DEF Base, Transactions
<1>2. QED
  BY <1>1 DEF TransactionsAreExplained, EventsExplained, SnapsExplained, ReadPriceSeen

(* What a commit adds was explained by what the transaction saw, and that is *)
(* committed with it.                                                       *)
LEMMA CommitKeepsExplanations ==
    ASSUME Base, TransactionsAreExplained, NEW w \in Worker, Commit(w)
    PROVE  TransactionsAreExplained'
<1>1. /\ snapshots' = SeenSnaps(w) /\ events' = SeenEvents(w)
      /\ snapshots \subseteq snapshots' /\ events \subseteq events'
      /\ UNCHANGED <<exists, rest, latest>>
  BY DEF Commit, SeenSnaps, SeenEvents
<1>2. /\ ownSnaps'[w] = {} /\ ownEvents'[w] = {} /\ pc'[w] # "store"
      /\ \A v \in Worker \ {w} :
            ownSnaps'[v] = ownSnaps[v] /\ ownEvents'[v] = ownEvents[v] /\ pc'[v] = pc[v]
  BY DEF Commit, Base, TypeOK
<1>3. EventsExplained(events', snapshots')
  <2> SUFFICES ASSUME NEW e \in events' PROVE Explained(e, snapshots')
    BY DEF EventsExplained
  <2>1. CASE e \in events
    <3>1. Explained(e, snapshots)
      BY <2>1 DEF TransactionsAreExplained, EventsExplained
    <3>2. QED
      BY <1>1, <3>1, ExplanationsStay
  <2>2. CASE e \in ownEvents[w]
    BY <1>1, <2>2 DEF TransactionsAreExplained, EventsExplained
  <2>3. QED
    BY <1>1, <2>1, <2>2 DEF SeenEvents
<1>4. SnapsExplained(snapshots', snapshots', events')
  <2> SUFFICES ASSUME NEW x \in snapshots' PROVE Repeated(x, snapshots', events')
    BY DEF SnapsExplained
  <2>1. CASE x \in snapshots
    <3>1. Repeated(x, snapshots, events)
      BY <2>1 DEF TransactionsAreExplained, SnapsExplained
    <3>2. QED
      BY <1>1, <3>1, ExplanationsStay
  <2>2. CASE x \in ownSnaps[w]
    BY <1>1, <2>2 DEF TransactionsAreExplained, SnapsExplained
  <2>3. QED
    BY <1>1, <2>1, <2>2 DEF SeenSnaps
<1>5. ASSUME NEW v \in Worker
      PROVE  /\ EventsExplained(ownEvents'[v], SeenSnaps(v)')
             /\ SnapsExplained(ownSnaps'[v], SeenSnaps(v)', SeenEvents(v)')
             /\ ReadPriceSeen(v)'
  <2>1. CASE v = w
    BY <1>2, <2>1 DEF EventsExplained, SnapsExplained, ReadPriceSeen
  <2>2. CASE v # w
    <3>1. SeenSnaps(v) \subseteq SeenSnaps(v)' /\ SeenEvents(v) \subseteq SeenEvents(v)'
      BY <1>1, <1>2, <2>2 DEF SeenSnaps, SeenEvents
    <3>2. /\ EventsExplained(ownEvents[v], SeenSnaps(v))
          /\ SnapsExplained(ownSnaps[v], SeenSnaps(v), SeenEvents(v))
          /\ ReadPriceSeen(v)
      BY DEF TransactionsAreExplained
    <3>3. EventsExplained(ownEvents'[v], SeenSnaps(v)')
      BY <1>2, <2>2, <3>1, <3>2, ExplanationsStay DEF EventsExplained
    <3>4. SnapsExplained(ownSnaps'[v], SeenSnaps(v)', SeenEvents(v)')
      BY <1>2, <2>2, <3>1, <3>2, ExplanationsStay DEF SnapsExplained
    <3>5. ReadPriceSeen(v)'
      BY <1>1, <1>2, <2>2, <3>1, <3>2, ReadPriceStays
    <3>6. QED
      BY <3>3, <3>4, <3>5
  <2>3. QED
    BY <2>1, <2>2
<1>6. QED
  BY <1>3, <1>4, <1>5, Zenon DEF TransactionsAreExplained, EventsExplained, SnapsExplained

(* A stored fare is explained by the price that was read before it.          *)
LEMMA StoreKeepsExplanations ==
    ASSUME Base, TransactionsAreExplained, NEW w \in Worker, StoreFare(w)
    PROVE  TransactionsAreExplained'
<1>1. /\ NewSnap(w) \in Snapshot /\ NewEvent(w) \in Event
      /\ ownSnaps' = [ownSnaps EXCEPT ![w] = @ \cup {NewSnap(w)}]
      /\ \/ /\ latest[w] # Head(rest[w]).price
            /\ ownEvents' = [ownEvents EXCEPT ![w] = @ \cup {NewEvent(w)}]
         \/ /\ latest[w] = Head(rest[w]).price
            /\ ownEvents' = ownEvents
  BY StoreEffect
<1>2. exists /\ exists' /\ pc[w] = "store" /\ UNCHANGED <<snapshots, events>>
  BY DEF StoreFare
<1>3. /\ pc'[w] # "store"
      /\ \A v \in Worker \ {w} :
            /\ ownSnaps'[v] = ownSnaps[v] /\ ownEvents'[v] = ownEvents[v]
            /\ pc'[v] = pc[v] /\ rest'[v] = rest[v] /\ latest'[v] = latest[v]
  BY <1>1 DEF StoreFare, Base, TypeOK
<1>4. ownSnaps'[w] = ownSnaps[w] \cup {NewSnap(w)}
  BY <1>1 DEF Base, TypeOK
<1>5. SeenSnaps(w)' = SeenSnaps(w) \cup {NewSnap(w)}
  BY <1>2, <1>4 DEF SeenSnaps
<1>6. \A x \in SeenSnaps(w) : x.at < clock + 1
  BY DEF SeenSnaps, Base, TypeOK, RowsArePast, Ids
<1>7. latest[w] # NoPrice =>
         \E x \in SeenSnaps(w) : x.fare = Head(rest[w]).fare /\ x.price = latest[w]
  BY <1>2 DEF TransactionsAreExplained, ReadPriceSeen
<1>8. Head(rest[w]).price \in Price
  BY HeadOfRest DEF Base, Transactions, StoreFare
<1>9. Rounded[NewSnap(w).price] = NewSnap(w).price
  BY <1>8, ConstantsAssumption DEF ConstantsAssumption, NewSnap
<1>10. /\ EventsExplained(ownEvents'[w], SeenSnaps(w)')
      /\ SnapsExplained(ownSnaps'[w], SeenSnaps(w)', SeenEvents(w)')
  <2>1. /\ \A e \in ownEvents[w] : Explained(e, SeenSnaps(w)')
        /\ \A x \in ownSnaps[w] : Repeated(x, SeenSnaps(w)', SeenEvents(w))
    BY <1>5, ExplanationsStay DEF TransactionsAreExplained, EventsExplained, SnapsExplained
  <2>2. CASE latest[w] # Head(rest[w]).price
    <3>1. ownEvents'[w] = ownEvents[w] \cup {NewEvent(w)}
      BY <1>1, <2>2 DEF Base, TypeOK
    <3>2. Explained(NewEvent(w), SeenSnaps(w)')
      <4>1. \E x \in SeenSnaps(w)' :
               /\ x.at = NewEvent(w).at /\ x.fare = NewEvent(w).fare
               /\ x.price = NewEvent(w).new
        <5>1. NewSnap(w) \in SeenSnaps(w)'
          BY <1>5
        <5>2. QED
          BY <5>1 DEF NewSnap, NewEvent
      <4>2. NewEvent(w).old # NewEvent(w).new \/ \E p \in Inexact : Rounded[p] = NewEvent(w).new
        BY <1>8, <2>2 DEF NewEvent, Inexact
      <4>3. NewEvent(w).old # NoPrice =>
               \E x \in SeenSnaps(w) : /\ x.fare = NewEvent(w).fare /\ x.price = NewEvent(w).old
                                       /\ x.at < NewEvent(w).at
        BY <1>6, <1>7 DEF NewEvent
      <4>4. QED
        BY <1>5, <4>1, <4>2, <4>3 DEF Explained, Initial
    <3>3. SeenEvents(w)' = SeenEvents(w) \cup {NewEvent(w)}
      BY <1>2, <3>1 DEF SeenEvents
    <3>4. Repeated(NewSnap(w), SeenSnaps(w)', SeenEvents(w)')
      <4>1. NewEvent(w) \in SeenEvents(w)' /\ NewEvent(w).at = NewSnap(w).at
        BY <3>3 DEF NewSnap, NewEvent
      <4>2. QED
        BY <1>9, <4>1 DEF Repeated
    <3>5. \A x \in ownSnaps[w] : Repeated(x, SeenSnaps(w)', SeenEvents(w)')
      BY <2>1, <3>3, ExplanationsStay
    <3>6. QED
      BY <1>4, <2>1, <3>1, <3>2, <3>4, <3>5 DEF EventsExplained, SnapsExplained
  <2>3. CASE latest[w] = Head(rest[w]).price
    <3>1. ownEvents'[w] = ownEvents[w] /\ SeenEvents(w)' = SeenEvents(w)
      BY <1>1, <1>2, <2>3 DEF SeenEvents
    <3>2. latest[w] # NoPrice
      BY <2>3, HeadOfRest, ConstantsAssumption
         DEF ConstantsAssumption, Base, Transactions, StoreFare
    <3>3. PICK y \in SeenSnaps(w) : y.fare = Head(rest[w]).fare /\ y.price = latest[w]
      BY <1>7, <3>2
    <3>4. Rounded[y.price] = y.price
      BY <3>3 DEF TransactionsAreExplained, SnapsExplained, Repeated, SeenSnaps
    <3>5. NewSnap(w).fare = y.fare /\ NewSnap(w).price = y.price /\ y.at < NewSnap(w).at
      BY <1>6, <2>3, <3>3, <3>4 DEF NewSnap
    <3>6. Repeated(NewSnap(w), SeenSnaps(w)', SeenEvents(w)')
      BY <1>5, <1>9, <3>5 DEF Repeated
    <3>7. QED
      BY <1>4, <2>1, <3>1, <3>6 DEF EventsExplained, SnapsExplained
  <2>4. QED
    BY <2>2, <2>3
<1>11. ASSUME NEW v \in Worker
      PROVE  /\ EventsExplained(ownEvents'[v], SeenSnaps(v)')
             /\ SnapsExplained(ownSnaps'[v], SeenSnaps(v)', SeenEvents(v)')
             /\ ReadPriceSeen(v)'
  <2>1. CASE v = w
    BY <1>3, <1>10, <2>1 DEF ReadPriceSeen
  <2>2. CASE v # w
    BY <1>2, <1>3, <2>2, Zenon
       DEF TransactionsAreExplained, ReadPriceSeen, SeenSnaps, SeenEvents
  <2>3. QED
    BY <2>1, <2>2
<1>12. QED
  BY <1>2, <1>11, Zenon DEF TransactionsAreExplained, EventsExplained, SnapsExplained

(* What transactions hold is explained in every run. *)
LEMMA ExplainedIsInvariant == Spec => []TransactionsAreExplained
<1>1. Init => TransactionsAreExplained
  BY DEF Init, TransactionsAreExplained, EventsExplained, SnapsExplained, ReadPriceSeen
<1>2. Base /\ Base' /\ TransactionsAreExplained /\ [Next]_vars => TransactionsAreExplained'
  <2> SUFFICES ASSUME Base, Base', TransactionsAreExplained, [Next]_vars
               PROVE  TransactionsAreExplained'
    OBVIOUS
  <2>1. CASE UNCHANGED vars
    BY <2>1, SendKeepsExplanations DEF vars, workerVars
  <2>2. ASSUME NEW m \in broker, SendStep(m) \/ SendLost(m) PROVE TransactionsAreExplained'
    BY <2>2, SendKeepsExplanations
       DEF SendStep, SendSucceeds, SendRaises, SendLost, workerVars
  <2>3. CASE DeleteSubscription
    BY <2>3, DeletionKeepsExplanations DEF DeleteSubscription
  <2>4. CASE Next
    BY <2>2, <2>3, <2>4, NextCases, BeginKeepsExplanations, ReadKeepsExplanations,
       StoreKeepsExplanations, CommitKeepsExplanations, QueueKeepsExplanations,
       DropKeepsExplanations, Zenon
  <2>5. QED
    BY <2>1, <2>4
<1>3. QED
  BY <1>1, <1>2, BaseIsInvariant, PTL DEF Spec

(* An event's snapshot is committed with it and its old price was stored     *)
(* before, whatever runs overlap, roll back or die.                         *)
THEOREM EventsStayExplained == Spec => []EventsAreExplained
<1>1. TransactionsAreExplained => EventsAreExplained
  BY DEF TransactionsAreExplained, EventsExplained, Explained, EventsAreExplained
<1>2. QED
  BY <1>1, ExplainedIsInvariant, PTL

(* However runs overlap, a price that was never stored for its fare before   *)
(* comes with an event.                                                     *)
THEOREM NewPricesStayRecorded == Spec => []NewPricesAreRecorded
<1>1. TransactionsAreExplained => NewPricesAreRecorded
  BY DEF TransactionsAreExplained, SnapsExplained, Repeated, NewPricesAreRecorded
<1>2. QED
  BY <1>1, ExplainedIsInvariant, PTL

-----------------------------------------------------------------------------
(* Notifications.  A step that leaves the messages alone and gives no worker *)
(* anything more to send.                                                   *)
LEMMA WithoutSending ==
    ASSUME OneHand, UNCHANGED <<broker, tries, clock>>,
           \A v \in Worker : Unsent(v)' \subseteq Unsent(v)
    PROVE  OneHand'
  BY DEF OneHand, Ids

(* Transactions leave what is queued in one hand. *)
LEMMA WorkerKeepsHands ==
    ASSUME Base, OneHand, NEW w \in Worker,
           \/ \E fares \in Result : BeginPersist(w, fares)
           \/ ReadLatest(w) \/ Commit(w) \/ Dropped(w)
    PROVE  OneHand'
<1>1. UNCHANGED <<broker, tries, clock>>
  BY DEF BeginPersist, ReadLatest, Commit, Dropped, sendVars
<1>2. ASSUME NEW v \in Worker PROVE Unsent(v)' \subseteq Unsent(v)
  <2>1. CASE \E fares \in Result : BeginPersist(w, fares)
    BY <2>1 DEF BeginPersist, Unsent
  <2>2. CASE ReadLatest(w)
    BY <2>2 DEF ReadLatest, Unsent
  <2>3. CASE Commit(w)
    <3>1. NotifiedIds(ownEvents[w]) \subseteq {e.at : e \in ownEvents[w]}
      BY DEF NotifiedIds
    <3>2. \/ toQueue'[v] = toQueue[v] /\ ownEvents'[v] = ownEvents[v]
          \/ v = w /\ toQueue'[v] = NotifiedIds(ownEvents[w]) /\ ownEvents'[v] = {}
      BY <2>3 DEF Commit, Base, TypeOK
    <3>3. QED
      BY <3>1, <3>2 DEF Unsent
  <2>4. CASE Dropped(w)
    <3>1. \/ toQueue'[v] = toQueue[v] /\ ownEvents'[v] = ownEvents[v]
          \/ toQueue'[v] = {} /\ ownEvents'[v] = {}
      BY <2>4 DEF Dropped, Forget, Base, TypeOK
    <3>2. QED
      BY <3>1 DEF Unsent
  <2>5. QED
    BY <2>1, <2>2, <2>3, <2>4
<1>3. QED
  BY <1>1, <1>2, WithoutSending

(* The id of a stored fare is new.                                           *)
LEMMA StoreKeepsHands ==
    ASSUME Base, OneHand, NEW w \in Worker, StoreFare(w)
    PROVE  OneHand'
<1>1. /\ clock \in Nat /\ clock' = clock + 1 /\ tries \in Seq(Nat) /\ Len(tries) = clock
      /\ tries' = Append(tries, 0) /\ UNCHANGED <<broker, toQueue>>
  BY DEF Base, TypeOK, RowsArePast, StoreFare
<1>2. /\ tries'[clock + 1] = 0
      /\ \A id \in Ids : id \in Ids' /\ tries'[id] = tries[id]
      /\ Ids' = Ids \cup {clock + 1} /\ clock + 1 \notin Ids
  BY <1>1 DEF Ids
<1>3. \A v \in Worker : \A e \in ownEvents'[v] :
         e \in ownEvents[v] \/ (v = w /\ e = NewEvent(w))
  <2>1. ownEvents' = ownEvents \/ ownEvents' = [ownEvents EXCEPT ![w] = @ \cup {NewEvent(w)}]
    BY StoreEffect
  <2>2. QED
    BY <2>1 DEF Base, TypeOK
<1>4. NewEvent(w).at = clock + 1
  BY DEF NewEvent
<1>5. \A v \in Worker : \A id \in Unsent(v)' : id \in Unsent(v) \/ (v = w /\ id = clock + 1)
  <2> SUFFICES ASSUME NEW v \in Worker, NEW id \in Unsent(v)'
               PROVE  id \in Unsent(v) \/ (v = w /\ id = clock + 1)
    OBVIOUS
  <2>1. CASE id \in toQueue[v]
    BY <2>1 DEF Unsent
  <2>2. CASE \E e \in ownEvents'[v] : id = e.at
    BY <1>3, <1>4, <2>2 DEF Unsent
  <2>3. QED
    BY <1>1, <2>1, <2>2 DEF Unsent
<1>6. \A v \in Worker : \A id \in Unsent(v)' : id \in Ids' /\ tries'[id] = 0
  BY <1>2, <1>5 DEF OneHand
<1>7. \A v, u \in Worker : \A id \in Unsent(v)' : v # u => id \notin Unsent(u)'
  BY <1>2, <1>5 DEF OneHand
<1>8. \A m \in broker' : m.event \in Ids' /\ tries'[m.event] = m.retries
  BY <1>1, <1>2 DEF OneHand
<1>9. \A v \in Worker : \A m \in broker' : m.event \notin Unsent(v)'
  BY <1>1, <1>2, <1>5 DEF OneHand
<1>10. \A id \in Ids' : tries'[id] <= 1 + MaxRetries
  <2>1. 0 <= 1 + MaxRetries
    BY ConstantsAssumption DEF ConstantsAssumption
  <2>2. QED
    BY <1>2, <2>1 DEF OneHand
<1>11. \A m, n \in broker' : m.event = n.event => m = n
  BY <1>1 DEF OneHand
<1>12. QED
  BY <1>6, <1>7, <1>8, <1>9, <1>10, <1>11 DEF OneHand

(* An id leaves the worker's hand when its message is put on the broker.     *)
LEMMA QueueKeepsHands ==
    ASSUME Base, OneHand, NEW w \in Worker, QueueNotification(w)
    PROVE  OneHand'
<1>1. PICK id \in toQueue[w] :
         /\ broker' = broker \cup {[event |-> id, retries |-> 0]}
         /\ toQueue' = [toQueue EXCEPT ![w] = @ \ {id}]
  BY DEF QueueNotification
<1>2. UNCHANGED <<tries, clock, ownEvents>> /\ ownEvents[w] = {}
  BY DEF QueueNotification, Base, Transactions
<1>3. \A v \in Worker : toQueue'[v] = IF v = w THEN toQueue[w] \ {id} ELSE toQueue[v]
  BY <1>1 DEF Base, TypeOK
<1>4. \A v \in Worker : Unsent(v)' = IF v = w THEN Unsent(w) \ {id} ELSE Unsent(v)
  BY <1>2, <1>3 DEF Unsent
<1>5. id \in Unsent(w) /\ id \in Ids /\ tries[id] = 0
  BY DEF Unsent, OneHand
<1>6. \A v \in Worker : id \notin Unsent(v)'
  BY <1>4, <1>5 DEF OneHand
<1>7. \A m \in broker : m.event # id
  BY <1>5 DEF OneHand
<1>8. \A v \in Worker : \A i \in Unsent(v)' : i \in Ids' /\ tries'[i] = 0
  BY <1>2, <1>4 DEF OneHand, Ids
<1>9. \A v, u \in Worker : \A i \in Unsent(v)' : v # u => i \notin Unsent(u)'
  BY <1>4 DEF OneHand
<1>10. \A m \in broker' : m.event \in Ids' /\ tries'[m.event] = m.retries
  BY <1>1, <1>2, <1>5 DEF OneHand, Ids
<1>11. \A m, n \in broker' : m.event = n.event => m = n
  BY <1>1, <1>7 DEF OneHand
<1>12. \A v \in Worker : \A m \in broker' : m.event \notin Unsent(v)'
  BY <1>1, <1>4, <1>6 DEF OneHand
<1>13. \A i \in Ids' : tries'[i] <= 1 + MaxRetries
  BY <1>2 DEF OneHand, Ids
<1>14. QED
  BY <1>8, <1>9, <1>10, <1>11, <1>12, <1>13 DEF OneHand

(* What a dispatch leaves of its message: nothing, or one more retry.        *)
LEMMA SendEffect ==
    ASSUME Base, OneHand, NEW m \in broker, SendStep(m) \/ SendLost(m)
    PROVE  /\ UNCHANGED <<exists, events, clock, ownEvents, toQueue>>
           /\ delivered' \subseteq delivered \cup {m.event}
           /\ \/ broker' = broker \ {m} /\ tries' = tries
              \/ /\ tries' = [tries EXCEPT ![m.event] = @ + 1]
                 /\ \/ broker' = broker \ {m}
                    \/ broker' = (broker \ {m}) \cup {[m EXCEPT !.retries = @ + 1]}
<1>1. CASE SendSucceeds(m)
  BY <1>1 DEF SendSucceeds, Tried, workerVars
<1>2. CASE \E sent \in BOOLEAN : SendRaises(m, sent)
  BY <1>2 DEF SendRaises, Tried, workerVars
<1>3. CASE SendLost(m)
  BY <1>3 DEF SendLost, workerVars
<1>4. QED
  BY <1>1, <1>2, <1>3 DEF SendStep

(* Sending passes an event on or gives it up. *)
LEMMA SendKeepsHands ==
    ASSUME Base, OneHand, NEW m \in broker, SendStep(m) \/ SendLost(m)
    PROVE  OneHand'
<1>1. /\ m \in [event : Nat, retries : 0 .. MaxRetries] /\ MaxRetries \in Nat
      /\ m.event \in Ids /\ tries[m.event] = m.retries /\ m.retries \in 0 .. MaxRetries
  BY ConstantsAssumption DEF ConstantsAssumption, Base, TypeOK, OneHand
<1>2. Ids' = Ids /\ \A v \in Worker : Unsent(v)' = Unsent(v)
  BY SendEffect DEF Ids, Unsent
<1>3. tries \in Seq(Nat) /\ Ids = 1 .. Len(tries)
  BY DEF Base, TypeOK, RowsArePast, Ids
<1>4. \A n \in broker : n # m => n.event # m.event
  BY DEF OneHand
<1>5. \A v \in Worker : m.event \notin Unsent(v)
  BY DEF OneHand
<1>6. CASE broker' = broker \ {m} /\ tries' = tries
  BY <1>2, <1>6 DEF OneHand
<1>7. CASE tries' = [tries EXCEPT ![m.event] = @ + 1]
  <2>1. /\ tries'[m.event] = m.retries + 1
        /\ \A id \in Ids : id # m.event => tries'[id] = tries[id]
    BY <1>1, <1>3, <1>7
  <2>2. \A id \in Ids' : tries'[id] <= 1 + MaxRetries
    BY <1>1, <1>2, <2>1 DEF OneHand
  <2>3. \A v \in Worker : \A id \in Unsent(v)' : id \in Ids' /\ tries'[id] = 0
    BY <1>2, <1>5, <2>1 DEF OneHand
  <2>4. \A v, u \in Worker : \A id \in Unsent(v)' : v # u => id \notin Unsent(u)'
    BY <1>2 DEF OneHand
  <2>5. \A n \in broker \ {m} : n.event \in Ids' /\ tries'[n.event] = n.retries
    BY <1>2, <1>4, <2>1 DEF OneHand
  <2>6. CASE broker' = broker \ {m}
    BY <1>2, <2>2, <2>3, <2>4, <2>5, <2>6 DEF OneHand
  <2>7. CASE broker' = (broker \ {m}) \cup {[m EXCEPT !.retries = @ + 1]}
    <3> DEFINE again == [m EXCEPT !.retries = @ + 1]
    <3>1. again.event = m.event /\ again.retries = m.retries + 1
      BY <1>1
    <3> HIDE DEF again
    <3>2. \A n \in broker' : n \in broker \ {m} \/ n = again
      BY <2>7 DEF again
    <3>3. \A n \in broker' : n.event \in Ids' /\ tries'[n.event] = n.retries
      BY <1>1, <1>2, <2>1, <2>5, <3>1, <3>2
    <3>4. \A n, o \in broker' : n.event = o.event => n = o
      BY <1>4, <3>1, <3>2 DEF OneHand
    <3>5. \A v \in Worker : \A n \in broker' : n.event \notin Unsent(v)'
      BY <1>2, <1>5, <3>1, <3>2 DEF OneHand
    <3>6. QED
      BY <2>2, <2>3, <2>4, <3>3, <3>4, <3>5 DEF OneHand
  <2>8. QED
    BY <1>7, <2>6, <2>7, SendEffect, <1>6
<1>8. QED
  BY <1>6, <1>7, SendEffect

(* An event is in one hand in every run. *)
LEMMA HandsAreInvariant == Spec => []OneHand
<1>1. Init => OneHand
  BY DEF Init, OneHand, Unsent, Ids
<1>2. Base /\ OneHand /\ [Next]_vars => OneHand'
  <2> SUFFICES ASSUME Base, OneHand, [Next]_vars PROVE OneHand'
    OBVIOUS
  <2>1. CASE UNCHANGED vars
    BY <2>1, WithoutSending DEF vars, workerVars, sendVars, Unsent
  <2>2. CASE DeleteSubscription
    BY <2>2, WithoutSending DEF DeleteSubscription, workerVars, sendVars, Unsent
  <2>3. CASE Next
    BY <2>2, <2>3, NextCases, WorkerKeepsHands, StoreKeepsHands, QueueKeepsHands,
       SendKeepsHands, Zenon
  <2>4. QED
    BY <2>1, <2>3
<1>3. QED
  BY <1>1, <1>2, BaseIsInvariant, PTL DEF Spec

(* A change is notified at most 1 + MaxRetries times and there is never more *)
(* than one message about it, however retries and runs interleave.          *)
THEOREM DispatchStaysBounded == Spec => []BoundedDispatch
<1>1. OneHand => BoundedDispatch
  <2> SUFFICES ASSUME OneHand, NEW id \in Ids
               PROVE  Cardinality({m \in broker : m.event = id}) <= 1
    BY DEF BoundedDispatch, OneHand
  <2>1. CASE \E m \in broker : m.event = id
    <3>1. PICK m \in broker : m.event = id
      BY <2>1
    <3>2. {n \in broker : n.event = id} = {m}
      BY <3>1 DEF OneHand
    <3>3. Cardinality({m}) = 1
      BY FS_Singleton, Zenon
    <3>4. QED
      BY <3>2, <3>3
  <2>2. CASE ~\E m \in broker : m.event = id
    <3>1. {n \in broker : n.event = id} = {}
      BY <2>2
    <3>2. QED
      BY <3>1, FS_EmptySet
  <2>3. QED
    BY <2>1, <2>2
<1>2. QED
  BY <1>1, HandsAreInvariant, PTL

(* Committed changes stay until the subscription is deleted.                 *)
LEMMA ChangesStay ==
    ASSUME events \subseteq events', NEW id, CommittedChange(id)
    PROVE  CommittedChange(id)'
  BY DEF CommittedChange, Initial

(* Only a commit hands events over to be queued. *)
LEMMA WorkerQueuesCommitted ==
    ASSUME Base, QueuesCommitted, NEW w \in Worker,
           \/ \E fares \in Result : BeginPersist(w, fares)
           \/ ReadLatest(w) \/ StoreFare(w) \/ Commit(w) \/ QueueNotification(w)
           \/ Dropped(w)
    PROVE  QueuesCommitted'
<1>1. UNCHANGED <<exists, delivered>> /\ events \subseteq events'
  BY DEF BeginPersist, ReadLatest, StoreFare, Commit, QueueNotification, Dropped, sendVars
<1> SUFFICES ASSUME exists
             PROVE  /\ \A v \in Worker : \A id \in toQueue'[v] : CommittedChange(id)'
                    /\ \A m \in broker' : CommittedChange(m.event)'
                    /\ \A id \in delivered' : CommittedChange(id)'
  BY <1>1 DEF QueuesCommitted
<1>2. /\ \A v \in Worker : \A id \in toQueue[v] : CommittedChange(id)'
      /\ \A m \in broker : CommittedChange(m.event)'
      /\ \A id \in delivered' : CommittedChange(id)'
  BY <1>1, ChangesStay DEF QueuesCommitted
<1>3. CASE Commit(w)
  <2>1. \A v \in Worker : toQueue'[v] = IF v = w THEN NotifiedIds(ownEvents[w]) ELSE toQueue[v]
    BY <1>3 DEF Commit, Base, TypeOK
  <2>2. \A id \in NotifiedIds(ownEvents[w]) : CommittedChange(id)'
    BY <1>3 DEF Commit, NotifiedIds, CommittedChange, Initial
  <2>3. broker' = broker
    BY <1>3 DEF Commit, sendVars
  <2>4. QED
    BY <1>2, <2>1, <2>2, <2>3
<1>4. CASE QueueNotification(w)
  <2>1. PICK id \in toQueue[w] :
           /\ broker' = broker \cup {[event |-> id, retries |-> 0]}
           /\ toQueue' = [toQueue EXCEPT ![w] = @ \ {id}]
    BY <1>4 DEF QueueNotification
  <2>2. \A v \in Worker : toQueue'[v] \subseteq toQueue[v]
    BY <2>1 DEF Base, TypeOK
  <2>3. CommittedChange(id)'
    BY <1>2
  <2>4. QED
    BY <1>2, <2>1, <2>2, <2>3
<1>5. CASE \/ \E fares \in Result : BeginPersist(w, fares)
           \/ ReadLatest(w) \/ StoreFare(w) \/ Dropped(w)
  <2>1. broker' = broker /\ \A v \in Worker : toQueue'[v] \subseteq toQueue[v]
    BY <1>5 DEF BeginPersist, ReadLatest, StoreFare, Dropped, Forget, sendVars, Base, TypeOK
  <2>2. QED
    BY <1>2, <2>1
<1>6. QED
  BY <1>3, <1>4, <1>5

(* Sending works on queued events only. *)
LEMMA SendQueuesCommitted ==
    ASSUME Base, OneHand, QueuesCommitted, NEW m \in broker, SendStep(m) \/ SendLost(m)
    PROVE  QueuesCommitted'
<1>1. m.event \in Nat /\ \A n \in broker' : n.event \in {o.event : o \in broker}
  <2>1. m \in [event : Nat, retries : 0 .. MaxRetries]
    BY DEF Base, TypeOK
  <2>2. [m EXCEPT !.retries = @ + 1].event = m.event
    BY <2>1
  <2>3. broker' \subseteq broker \cup {[m EXCEPT !.retries = @ + 1]}
    BY SendEffect
  <2>4. QED
    BY <2>1, <2>2, <2>3
<1>2. /\ UNCHANGED <<exists, events, toQueue>>
      /\ delivered' \subseteq delivered \cup {m.event}
  BY SendEffect
<1>3. \A id : CommittedChange(id)' = CommittedChange(id)
  BY <1>2 DEF CommittedChange
<1>4. QED
  BY <1>1, <1>2, <1>3 DEF QueuesCommitted

(* While the subscription exists, every message, dispatch and delivery is    *)
(* about a change of price that is committed.                               *)
THEOREM NotifiesOnlyCommitted == Spec => []NotifiesCommittedChanges
<1>1. Init => QueuesCommitted
  BY DEF Init, QueuesCommitted
<1>2. Base /\ OneHand /\ QueuesCommitted /\ [Next]_vars => QueuesCommitted'
  <2> SUFFICES ASSUME Base, OneHand, QueuesCommitted, [Next]_vars PROVE QueuesCommitted'
    OBVIOUS
  <2>1. CASE UNCHANGED vars
    BY <2>1 DEF vars, workerVars, sendVars, QueuesCommitted, CommittedChange
  <2>2. CASE DeleteSubscription
    BY <2>2 DEF DeleteSubscription, QueuesCommitted
  <2>3. CASE Next
    BY <2>2, <2>3, NextCases, WorkerQueuesCommitted, SendQueuesCommitted, Zenon
  <2>4. QED
    BY <2>1, <2>3
<1>3. QueuesCommitted => NotifiesCommittedChanges
  BY DEF QueuesCommitted, NotifiesCommittedChanges, CommittedChange
<1>4. QED
  BY <1>1, <1>2, <1>3, BaseIsInvariant, HandsAreInvariant, PTL DEF Spec

-----------------------------------------------------------------------------
(* Runs that do not overlap.  First, the rows of a fare in order.            *)

Timed(rows) == \A x, y \in rows : x.at = y.at => x = y

(* A list of exactly the rows of a fare in the order of created_at. *)
Ordered(s, rows, f) ==
    /\ s \in Seq(rows)
    /\ \A k \in 1 .. Len(s) : s[k].fare = f
    /\ \A j, k \in 1 .. Len(s) : j < k => s[j].at < s[k].at
    /\ \A x \in rows : x.fare = f => \E k \in 1 .. Len(s) : s[k] = x

(* InOrder is the only such list, *)
LEMMA OnlyOrder ==
    ASSUME NEW rows, NEW f, NEW s, Timed(rows), \A x \in rows : x.at \in Int, Ordered(s, rows, f)
    PROVE  InOrder(rows, f) = s
<1> DEFINE I == {x.at : x \in {y \in rows : y.fare = f}}
           times == [k \in 1 .. Len(s) |-> s[k].at]
<1>1. /\ Len(s) \in Nat /\ s \in [1 .. Len(s) -> rows]
      /\ \A k \in 1 .. Len(s) : s[k] \in rows /\ s[k].fare = f /\ s[k].at \in Int
  BY DEF Ordered
<1>2. I \in SUBSET Int
  OBVIOUS
<1>3. \A i : i \in I <=> \E x \in rows : x.fare = f /\ i = x.at
  OBVIOUS
<1>4. /\ Len(times) = Len(s) /\ \A k \in 1 .. Len(s) : times[k] = s[k].at
  BY <1>1
<1>5. times \in Seq(I)
  <2>1. \A k \in 1 .. Len(s) : s[k].at \in I
    BY <1>1, <1>3
  <2>2. QED
    BY <1>1, <2>1
<1>6. PICK found : found = Ascending(I)
  OBVIOUS
<1>7. InOrder(rows, f) = [k \in 1 .. Len(found) |-> CHOOSE x \in rows : x.at = found[k]]
  BY <1>6 DEF InOrder
<1> HIDE DEF I, times
<1>8. Lists(times, I)
  <2>1. ASSUME NEW j \in 1 .. Len(times), NEW k \in 1 .. Len(times), j < k
        PROVE  times[j] < times[k]
    <3>1. j \in 1 .. Len(s) /\ k \in 1 .. Len(s)
      BY <1>4
    <3>2. s[j].at < s[k].at
      BY <2>1, <3>1 DEF Ordered
    <3>3. QED
      BY <1>4, <3>1, <3>2
  <2>2. ASSUME NEW i \in I PROVE \E k \in 1 .. Len(times) : times[k] = i
    <3>1. PICK x \in rows : x.fare = f /\ i = x.at
      BY <1>3
    <3>2. PICK k \in 1 .. Len(s) : s[k] = x
      BY <3>1 DEF Ordered
    <3>3. QED
      BY <1>4, <3>1, <3>2
  <2>3. QED
    BY <1>5, <2>1, <2>2 DEF Lists
<1>9. found = times
  BY <1>2, <1>6, <1>8, OnlyAscending
<1>10. ASSUME NEW k \in 1 .. Len(s) PROVE (CHOOSE x \in rows : x.at = times[k]) = s[k]
  BY <1>1, <1>4 DEF Timed
<1>11. InOrder(rows, f) = [k \in 1 .. Len(s) |-> s[k]]
  BY <1>4, <1>7, <1>9, <1>10
<1>12. QED
  BY <1>1, <1>11

(* and it is one. *)
LEMMA InOrderOrders ==
    ASSUME NEW c \in Nat, NEW rows, NEW f, NEW s, s = InOrder(rows, f),
           Timed(rows), \A x \in rows : x.at \in 1 .. c
    PROVE  Ordered(s, rows, f) /\ Len(s) \in Nat
<1> DEFINE I == {x.at : x \in {y \in rows : y.fare = f}}
<1>1. \A i : i \in I <=> \E x \in rows : x.fare = f /\ i = x.at
  OBVIOUS
<1>2. I \in SUBSET Int /\ IsFiniteSet(I)
  <2>1. I \in SUBSET (1 .. c)
    OBVIOUS
  <2>2. 1 \in Int /\ c \in Int
    OBVIOUS
  <2>3. IsFiniteSet(1 .. c)
    BY <2>2, FS_Interval
  <2>4. QED
    BY <2>1, <2>3, FS_Subset
<1>3. PICK times : times = Ascending(I)
  OBVIOUS
<1>4. s = [k \in 1 .. Len(times) |-> CHOOSE x \in rows : x.at = times[k]]
  BY <1>3 DEF InOrder
<1> HIDE DEF I
<1>5. /\ Lists(times, I) /\ Len(times) \in Nat
      /\ \A k \in 1 .. Len(times) : times[k] \in I
  BY <1>2, <1>3, AscendingLists
<1>6. ASSUME NEW k \in 1 .. Len(times)
      PROVE  s[k] \in rows /\ s[k].at = times[k] /\ s[k].fare = f
  <2>1. PICK x \in rows : x.fare = f /\ x.at = times[k]
    BY <1>1, <1>5
  <2>2. s[k] = CHOOSE y \in rows : y.at = times[k]
    BY <1>4
  <2>3. s[k] = x
    BY <2>1, <2>2 DEF Timed
  <2>4. QED
    BY <2>1, <2>3
<1>7. Len(s) = Len(times) /\ s \in Seq(rows)
  BY <1>4, <1>5, <1>6
<1>8. ASSUME NEW x \in rows, x.fare = f PROVE \E k \in 1 .. Len(s) : s[k] = x
  <2>1. x.at \in I
    BY <1>1, <1>8
  <2>2. PICK k \in 1 .. Len(times) : times[k] = x.at
    BY <1>5, <2>1 DEF Lists
  <2>3. QED
    BY <1>6, <1>7, <2>2 DEF Timed
<1>9. \A j, k \in 1 .. Len(s) : j < k => s[j].at < s[k].at
  BY <1>5, <1>6, <1>7 DEF Lists
<1>10. QED
  BY <1>5, <1>6, <1>7, <1>8, <1>9 DEF Ordered

(* The price of a fare before a time: that of its latest row till then. *)
Before(rows, f, t, p) ==
    \/ \E x \in rows : /\ x.fare = f /\ x.at < t /\ x.price = p
                       /\ \A y \in rows : y.fare = f /\ y.at < t => y.at <= x.at
    \/ p = NoPrice /\ \A x \in rows : x.fare = f => ~ x.at < t

(* Rows and events that fit: every event is that of a row, from the price    *)
(* before it, and a row without an event repeats that price.                 *)
Tracked(rows, changes) ==
    /\ Timed(rows) /\ Timed(changes)
    /\ \A e \in changes : \E x \in rows :
          /\ x.at = e.at /\ x.fare = e.fare /\ x.price = e.new
          /\ e.old # e.new /\ Before(rows, x.fare, x.at, e.old)
    /\ \A x \in rows :
          (\E e \in changes : e.at = x.at) \/ Before(rows, x.fare, x.at, x.price)

(* PriceWatch orders with Ordering's Ascending. *)
LEMMA SameOrder ==
    ASSUME NEW I
    PROVE  Watch!Ascending(I) = Ascending(I)
  BY DEF Watch!Ascending, Ascending, Watch!Cardinality, Cardinality

PricesIn(s) == [k \in 1 .. Len(s) |-> s[k].price]

(* In the ordered rows of a fare the price before a row is that of the row   *)
(* before it.                                                                *)
LEMMA BeforeIsPrevious ==
    ASSUME NEW rows, \A x \in rows : x.at \in Int, NEW f, NEW s, Ordered(s, rows, f),
           NEW prices, prices = PricesIn(s), NEW i \in 1 .. Len(s), NEW p, Before(rows, f, s[i].at, p)
    PROVE  Watch!PriceBefore(prices, i) = p
<1>1. /\ Len(s) \in Nat
      /\ \A k \in 1 .. Len(s) : s[k] \in rows /\ s[k].fare = f /\ s[k].at \in Int
  BY DEF Ordered
<1>2. \A j, k \in 1 .. Len(s) : s[j].at < s[k].at => j < k
  <2> SUFFICES ASSUME NEW j \in 1 .. Len(s), NEW k \in 1 .. Len(s), s[j].at < s[k].at
               PROVE  j < k
    OBVIOUS
  <2>1. j = k \/ k < j \/ j < k
    BY <1>1
  <2>2. CASE k < j
    <3>1. s[k].at < s[j].at
      BY <2>2 DEF Ordered
    <3>2. QED
      BY <1>1, <3>1
  <2>3. QED
    BY <1>1, <2>1, <2>2
<1>3. CASE i = 1
  <2>1. ASSUME NEW x \in rows, x.fare = f PROVE ~ x.at < s[i].at
    <3>1. PICK k \in 1 .. Len(s) : s[k] = x
      BY <2>1 DEF Ordered
    <3>2. QED
      BY <1>2, <1>3, <3>1
  <2>2. p = NoPrice
    BY <2>1 DEF Before
  <2>3. QED
    BY <1>3, <2>2 DEF Watch!PriceBefore
<1>4. CASE i # 1
  <2>1. i - 1 \in 1 .. Len(s) /\ i - 1 < i
    BY <1>1, <1>4
  <2>2. s[i - 1].at < s[i].at
    BY <2>1 DEF Ordered
  <2>3. PICK x \in rows : /\ x.fare = f /\ x.at < s[i].at /\ x.price = p
                          /\ \A y \in rows : y.fare = f /\ y.at < s[i].at => y.at <= x.at
    BY <1>1, <2>1, <2>2 DEF Before
  <2>4. PICK k \in 1 .. Len(s) : s[k] = x
    BY <2>3 DEF Ordered
  <2>5. k < i
    BY <1>2, <2>3, <2>4
  <2>6. s[i - 1].at <= s[k].at
    BY <1>1, <2>1, <2>2, <2>3, <2>4
  <2>7. ~ k < i - 1
    <3> SUFFICES ASSUME k < i - 1 PROVE FALSE
      OBVIOUS
    <3>1. s[k].at < s[i - 1].at
      BY <2>1 DEF Ordered
    <3>2. QED
      BY <1>1, <2>1, <2>6, <3>1
  <2>8. k = i - 1
    BY <2>5, <2>7
  <2>9. prices[i - 1] = p
    BY <1>1, <2>1, <2>3, <2>4, <2>8 DEF PricesIn
  <2>10. QED
    BY <1>4, <2>9 DEF Watch!PriceBefore
<1>5. QED
  BY <1>3, <1>4

(* Where rows and events fit, the events of a fare in order are the changes  *)
(* within its prices.                                                        *)
LEMMA EventsAreTransitions ==
    ASSUME NEW rows, NEW changed, Tracked(rows, changed),
           \A x \in rows : x.at \in Int, \A e \in changed : e.at \in Int,
           NEW f, NEW s, Ordered(s, rows, f),
           NEW prices, prices = PricesIn(s),
           NEW own, own = InOrder(changed, f)
    PROVE  [k \in 1 .. Len(own) |-> [old |-> own[k].old, new |-> own[k].new]]
              = Watch!Transitions(prices)
<1> DEFINE C == {i \in 1 .. Len(prices) : Watch!PriceBefore(prices, i) # prices[i]}
<1>1. PICK places : places = Ascending(C)
  OBVIOUS
<1>2. Watch!Transitions(prices) = [k \in 1 .. Len(places) |->
            [old |-> Watch!PriceBefore(prices, places[k]), new |-> prices[places[k]]]]
  BY <1>1, SameOrder DEF Watch!Transitions
<1>3. /\ Len(s) \in Nat /\ Len(prices) = Len(s)
      /\ \A k \in 1 .. Len(s) : /\ s[k] \in rows /\ s[k].fare = f /\ s[k].at \in Int
                                /\ prices[k] = s[k].price
  BY DEF Ordered, PricesIn
<1>4. \A i : i \in C <=> i \in 1 .. Len(s) /\ Watch!PriceBefore(prices, i) # prices[i]
  BY <1>3
<1>5. C \in SUBSET Int /\ IsFiniteSet(C)
  <2>1. 1 \in Int /\ Len(s) \in Int
    BY <1>3
  <2>2. IsFiniteSet(1 .. Len(s))
    BY <2>1, FS_Interval
  <2>3. C \in SUBSET (1 .. Len(s))
    BY <1>3
  <2>4. QED
    BY <2>2, <2>3, FS_Subset
<1> HIDE DEF C
<1>6. Lists(places, C) /\ Len(places) \in Nat /\ \A k \in 1 .. Len(places) : places[k] \in C
  BY <1>1, <1>5, AscendingLists
<1>7. ASSUME NEW i \in 1 .. Len(s), NEW e \in changed, e.at = s[i].at
      PROVE  /\ e.fare = f /\ e.new = prices[i] /\ e.old = Watch!PriceBefore(prices, i)
             /\ e.old # e.new
  <2>1. PICK x \in rows : /\ x.at = e.at /\ x.fare = e.fare /\ x.price = e.new
                          /\ e.old # e.new /\ Before(rows, x.fare, x.at, e.old)
    BY DEF Tracked
  <2>2. x = s[i]
    BY <1>3, <1>7, <2>1 DEF Tracked, Timed
  <2>3. Before(rows, f, s[i].at, e.old)
    BY <1>3, <2>1, <2>2
  <2>4. Watch!PriceBefore(prices, i) = e.old
    BY <2>3, BeforeIsPrevious, Zenon
  <2>5. QED
    BY <1>3, <2>1, <2>2, <2>4
<1>8. ASSUME NEW i \in C
      PROVE  i \in 1 .. Len(s) /\ \E e \in changed : e.at = s[i].at
  <2>1. i \in 1 .. Len(s) /\ Watch!PriceBefore(prices, i) # prices[i]
    BY <1>4
  <2>2. Watch!PriceBefore(prices, i) # s[i].price
    BY <1>3, <2>1
  <2>3. ~Before(rows, f, s[i].at, s[i].price)
    BY <2>1, <2>2, BeforeIsPrevious, Zenon
  <2>4. QED
    BY <1>3, <2>1, <2>3 DEF Tracked
<1> DEFINE list == [k \in 1 .. Len(places) |-> CHOOSE e \in changed : e.at = s[places[k]].at]
<1>9. ASSUME NEW k \in 1 .. Len(places)
      PROVE  /\ list[k] \in changed /\ list[k].at = s[places[k]].at /\ list[k].fare = f
             /\ list[k].new = prices[places[k]]
             /\ list[k].old = Watch!PriceBefore(prices, places[k])
  <2>1. places[k] \in 1 .. Len(s) /\ \E e \in changed : e.at = s[places[k]].at
    BY <1>6, <1>8
  <2>2. list[k] \in changed /\ list[k].at = s[places[k]].at
    BY <2>1
  <2>3. QED
    BY <1>7, <2>1, <2>2
<1>10. Len(list) = Len(places)
  BY <1>6
<1>11. list \in Seq(changed)
  BY <1>6, <1>9
<1> HIDE DEF list
<1>12. \A j, k \in 1 .. Len(list) : j < k => list[j].at < list[k].at
  <2> SUFFICES ASSUME NEW j \in 1 .. Len(places), NEW k \in 1 .. Len(places), j < k
               PROVE  list[j].at < list[k].at
    BY <1>10
  <2>1. places[j] < places[k] /\ places[j] \in 1 .. Len(s) /\ places[k] \in 1 .. Len(s)
    BY <1>6, <1>8 DEF Lists
  <2>2. s[places[j]].at < s[places[k]].at
    BY <2>1 DEF Ordered
  <2>3. QED
    BY <1>9, <2>2
<1>13. ASSUME NEW e \in changed, e.fare = f PROVE \E k \in 1 .. Len(list) : list[k] = e
  <2>1. PICK x \in rows : x.at = e.at /\ x.fare = e.fare
    BY DEF Tracked
  <2>2. PICK i \in 1 .. Len(s) : s[i] = x
    BY <1>13, <2>1 DEF Ordered
  <2>3. i \in C
    BY <1>4, <1>7, <2>1, <2>2
  <2>4. PICK k \in 1 .. Len(places) : places[k] = i
    BY <1>6, <2>3 DEF Lists
  <2>5. list[k] \in changed /\ list[k].at = e.at
    BY <1>9, <2>1, <2>2, <2>4
  <2>6. list[k] = e
    BY <2>5 DEF Tracked, Timed
  <2>7. QED
    BY <1>10, <2>6
<1>14. Ordered(list, changed, f)
  BY <1>9, <1>10, <1>11, <1>12, <1>13 DEF Ordered
<1>15. own = list
  BY <1>14, OnlyOrder DEF Tracked
<1>16. QED
  BY <1>2, <1>9, <1>10, <1>15

(* A later row does not change what was before the others. *)
LEMMA BeforeStays ==
    ASSUME NEW rows, NEW more, more.at \in Int, NEW f, NEW t \in Int, t <= more.at, NEW p,
           Before(rows, f, t, p)
    PROVE  Before(rows \cup {more}, f, t, p)
<1>1. CASE p = NoPrice /\ \A x \in rows : x.fare = f => ~ x.at < t
  BY <1>1 DEF Before
<1>2. CASE \E x \in rows : /\ x.fare = f /\ x.at < t /\ x.price = p
                           /\ \A y \in rows : y.fare = f /\ y.at < t => y.at <= x.at
  BY <1>2 DEF Before
<1>3. QED
  BY <1>1, <1>2 DEF Before

(* The events after storing a row. *)
EventsAfter(changed, x, old, further) ==
    \/ /\ old # x.price
       /\ \E e : /\ further = changed \cup {e}
                 /\ e.at = x.at /\ e.fare = x.fare /\ e.old = old /\ e.new = x.price
    \/ old = x.price /\ further = changed

(* Storing a later row, with its event if the price is another than the one  *)
(* before it, keeps rows and events fitting.                                 *)
LEMMA TrackedGrows ==
    ASSUME NEW rows, NEW changed, Tracked(rows, changed), NEW c \in Nat,
           \A x \in rows : x.at \in 1 .. c, \A e \in changed : e.at \in 1 .. c,
           NEW x, x.at = c + 1, NEW old, Before(rows, x.fare, c + 1, old),
           NEW further, EventsAfter(changed, x, old, further)
    PROVE  Tracked(rows \cup {x}, further)
<1> DEFINE all == rows \cup {x}
<1>1. Timed(all)
  BY DEF Tracked, Timed
<1>2. Before(all, x.fare, x.at, old)
  <2>1. x.at \in Int /\ x.at <= x.at /\ Before(rows, x.fare, x.at, old)
    OBVIOUS
  <2>2. QED
    BY <2>1, BeforeStays
<1>3. ASSUME NEW e \in changed
      PROVE  \E y \in all : /\ y.at = e.at /\ y.fare = e.fare /\ y.price = e.new
                            /\ e.old # e.new /\ Before(all, y.fare, y.at, e.old)
  <2>1. PICK y \in rows : /\ y.at = e.at /\ y.fare = e.fare /\ y.price = e.new
                          /\ e.old # e.new /\ Before(rows, y.fare, y.at, e.old)
    BY DEF Tracked
  <2>2. y.at \in Int /\ y.at <= x.at /\ x.at \in Int
    OBVIOUS
  <2>3. Before(all, y.fare, y.at, e.old)
    BY <2>1, <2>2, BeforeStays
  <2>4. QED
    BY <2>1, <2>3
<1>4. ASSUME NEW y \in rows
      PROVE  (\E e \in changed : e.at = y.at) \/ Before(all, y.fare, y.at, y.price)
  <2>1. CASE \E e \in changed : e.at = y.at
    BY <2>1
  <2>2. CASE Before(rows, y.fare, y.at, y.price)
    <3>1. y.at \in Int /\ y.at <= x.at /\ x.at \in Int
      OBVIOUS
    <3>2. QED
      BY <2>2, <3>1, BeforeStays
  <2>3. QED
    BY <2>1, <2>2 DEF Tracked
<1>5. CASE old = x.price /\ further = changed
  <2>1. Timed(further)
    BY <1>5 DEF Tracked
  <2>2. Before(all, x.fare, x.at, x.price)
    BY <1>2, <1>5
  <2>3. \A y \in all : (\E e \in further : e.at = y.at) \/ Before(all, y.fare, y.at, y.price)
    BY <1>4, <1>5, <2>2
  <2> HIDE DEF all
  <2>4. \A e \in further : \E y \in all :
           /\ y.at = e.at /\ y.fare = e.fare /\ y.price = e.new
           /\ e.old # e.new /\ Before(all, y.fare, y.at, e.old)
    BY <1>3, <1>5
  <2>5. Tracked(all, further)
    BY <1>1, <2>1, <2>3, <2>4, Zenon DEF Tracked
  <2>6. QED
    BY <2>5 DEF all
<1>6. CASE /\ old # x.price
           /\ \E e : /\ further = changed \cup {e}
                     /\ e.at = x.at /\ e.fare = x.fare /\ e.old = old /\ e.new = x.price
  <2>1. PICK e : /\ further = changed \cup {e}
                 /\ e.at = x.at /\ e.fare = x.fare /\ e.old = old /\ e.new = x.price
    BY <1>6
  <2>2. Timed(further)
    BY <2>1 DEF Tracked, Timed
  <2>3. /\ x \in all /\ e.old # e.new
        /\ Before(all, x.fare, x.at, e.old)
    BY <1>2, <1>6, <2>1
  <2>4. \A y \in all : (\E d \in further : d.at = y.at) \/ Before(all, y.fare, y.at, y.price)
    BY <1>4, <2>1
  <2> HIDE DEF all
  <2>5. \A d \in further : \E y \in all :
           /\ y.at = d.at /\ y.fare = d.fare /\ y.price = d.new
           /\ d.old # d.new /\ Before(all, y.fare, y.at, d.old)
    BY <1>3, <2>1, <2>3
  <2>6. Tracked(all, further)
    BY <1>1, <2>2, <2>4, <2>5, Zenon DEF Tracked
  <2>7. QED
    BY <2>6 DEF all
<1>7. QED
  BY <1>5, <1>6 DEF EventsAfter

(* order_by("-created_at").first() is the price before now. *)
LEMMA LatestIsBefore ==
    ASSUME TypeOK, RowsArePast, NEW w \in Worker, NEW f \in Fare
    PROVE  Before(SeenSnaps(w), f, clock + 1, LatestPrice(w, f))
<1>1. /\ clock \in Nat
      /\ \A x \in SeenSnaps(w) : x \in Snapshot /\ x.at \in 1 .. clock
      /\ \A x : x \in Visible(w, f) <=> x \in SeenSnaps(w) /\ x.fare = f
  BY DEF Visible, SeenSnaps, TypeOK, RowsArePast, Ids
<1>2. CASE Visible(w, f) = {}
  BY <1>1, <1>2 DEF LatestPrice, Before
<1>3. CASE Visible(w, f) # {}
  <2> DEFINE ats == {x.at : x \in Visible(w, f)}
  <2>1. ats \in SUBSET (0 .. clock) /\ ats # {}
    BY <1>1, <1>3
  <2>2. PICK m \in ats : \A n \in ats : n <= m
    BY <1>1, <2>1, GreatestExists
  <2>3. \E x \in Visible(w, f) : \A y \in Visible(w, f) : y.at <= x.at
    BY <2>2
  <2> DEFINE last == CHOOSE x \in Visible(w, f) : \A y \in Visible(w, f) : y.at <= x.at
  <2>4. last \in Visible(w, f) /\ \A y \in Visible(w, f) : y.at <= last.at
    BY <2>3
  <2>5. LatestPrice(w, f) = last.price
    BY <1>3 DEF LatestPrice
  <2> HIDE DEF last
  <2>6. last \in SeenSnaps(w) /\ last.fare = f /\ last.at < clock + 1
    BY <1>1, <2>4
  <2>7. QED
    BY <1>1, <2>4, <2>5, <2>6 DEF Before
<1>4. QED
  BY <1>2, <1>3

-----------------------------------------------------------------------------
(* A run by itself. *)

(* The row of a quote that is stored at a time. *)
Row(q, t) == [fare |-> q.fare, price |-> q.price, at |-> t]

(* Worker w has stored the first n fares of its result, one after another    *)
(* and after all that is committed.                                          *)
HasStored(w, fares, n) ==
    /\ n <= clock
    /\ n + Len(rest[w]) = Len(fares)
    /\ \A i \in 1 .. Len(rest[w]) : rest[w][i] = fares[n + i]
    /\ \A x \in snapshots : x.at <= clock - n
    /\ \A x \in ownSnaps[w] : \E i \in 1 .. n : x = Row(fares[i], clock - n + i)
    /\ \A i \in 1 .. n : Row(fares[i], clock - n + i) \in ownSnaps[w]

OpenRun(w) ==
    pc[w] \in {"read", "store"} => \E fares \in Result : \E n \in Nat : HasStored(w, fares, n)

(* What a worker has read is the price before now. *)
ReadIsLatest(w) ==
    exists /\ pc[w] = "store" => Before(SeenSnaps(w), Head(rest[w]).fare, clock + 1, latest[w])

(* As long as no other transaction is open, a run sees rows and events that  *)
(* fit, and what it has read stays true until it stores.                     *)
SerialInvariant ==
    /\ Tracked(snapshots, events)
    /\ \A w \in Worker : Tracked(SeenSnaps(w), SeenEvents(w)) /\ OpenRun(w) /\ ReadIsLatest(w)

(* A step that changes no row and no fare left to store. *)
LEMMA WithoutRows ==
    ASSUME SerialInvariant, NEW w \in Worker,
           UNCHANGED <<exists, snapshots, events, clock>>,
           ownSnaps'[w] = ownSnaps[w], ownEvents'[w] = ownEvents[w],
           \/ pc'[w] \notin {"read", "store"}
           \/ rest'[w] = rest[w] /\ latest'[w] = latest[w] /\ pc'[w] = pc[w]
    PROVE  Tracked(SeenSnaps(w), SeenEvents(w))' /\ OpenRun(w)' /\ ReadIsLatest(w)'
<1>1. /\ Tracked(SeenSnaps(w), SeenEvents(w)) /\ OpenRun(w) /\ ReadIsLatest(w)
      /\ SeenSnaps(w)' = SeenSnaps(w) /\ SeenEvents(w)' = SeenEvents(w)
  BY DEF SerialInvariant, SeenSnaps, SeenEvents
<1>2. CASE pc'[w] \notin {"read", "store"}
  BY <1>1, <1>2 DEF OpenRun, ReadIsLatest
<1>3. CASE rest'[w] = rest[w] /\ latest'[w] = latest[w] /\ pc'[w] = pc[w]
  <2>1. \A fares, n : HasStored(w, fares, n)' <=> HasStored(w, fares, n)
    BY <1>3 DEF HasStored
  <2>2. OpenRun(w)'
    BY <1>1, <1>3, <2>1 DEF OpenRun
  <2>3. ReadIsLatest(w)'
    BY <1>1, <1>3 DEF ReadIsLatest
  <2>4. QED
    BY <1>1, <2>2, <2>3
<1>4. QED
  BY <1>2, <1>3

(* A worker outside its transaction has rows of its own neither stored nor   *)
(* read.                                                                    *)
LEMMA OutsideIsSerial ==
    ASSUME Base', Tracked(snapshots, events)', NEW v \in Worker, ~InTransaction(v)'
    PROVE  Tracked(SeenSnaps(v), SeenEvents(v))' /\ OpenRun(v)' /\ ReadIsLatest(v)'
<1>1. pc'[v] \in {"idle", "queue"}
  BY DEF Base, TypeOK, InTransaction
<1>2. ownSnaps'[v] = {} /\ ownEvents'[v] = {}
  BY <1>1 DEF Base, Transactions
<1>3. SeenSnaps(v)' = snapshots' /\ SeenEvents(v)' = events'
  BY <1>2 DEF SeenSnaps, SeenEvents
<1>4. QED
  BY <1>1, <1>3 DEF OpenRun, ReadIsLatest

(* While one transaction is open, nothing changes for the other workers.     *)
LEMMA OthersAreSerial ==
    ASSUME Base', NoOverlap', Tracked(snapshots, events)', NEW w \in Worker, InTransaction(w)'
    PROVE  \A v \in Worker \ {w} :
              Tracked(SeenSnaps(v), SeenEvents(v))' /\ OpenRun(v)' /\ ReadIsLatest(v)'
<1>1. \A v \in Worker \ {w} : ~InTransaction(v)'
  BY DEF NoOverlap
<1>2. QED
  BY <1>1, OutsideIsSerial

(* A run begins with nothing stored. *)
LEMMA BeginIsSerial ==
    ASSUME Base, Base', SerialInvariant, NoOverlap', NEW w \in Worker, NEW fares \in Result, BeginPersist(w, fares)
    PROVE  SerialInvariant'
<1>1. /\ UNCHANGED <<exists, snapshots, events, clock, ownSnaps, ownEvents>>
      /\ rest'[w] = fares /\ pc'[w] = "read" /\ ownSnaps[w] = {}
  BY DEF BeginPersist, Base, TypeOK, Transactions
<1>2. fares \in Seq(Quote) /\ Len(fares) \in Nat /\ clock \in Nat
  BY ConstantsAssumption DEF ConstantsAssumption, Base, TypeOK
<1>3. \A x \in snapshots : x.at <= clock
  BY DEF Base, RowsArePast, Ids
<1>4. HasStored(w, fares, 0)'
  BY <1>1, <1>2, <1>3 DEF HasStored
<1>5. OpenRun(w)' /\ ReadIsLatest(w)'
  BY <1>1, <1>4 DEF OpenRun, ReadIsLatest
<1>6. Tracked(SeenSnaps(w), SeenEvents(w))' /\ Tracked(snapshots, events)'
  BY <1>1 DEF SerialInvariant, SeenSnaps, SeenEvents
<1>7. InTransaction(w)'
  BY <1>1 DEF InTransaction
<1>8. QED
  BY <1>5, <1>6, <1>7, OthersAreSerial, Zenon DEF SerialInvariant

(* It reads the price before now. *)
LEMMA ReadIsSerial ==
    ASSUME Base, Base', SerialInvariant, NoOverlap', NEW w \in Worker, ReadLatest(w)
    PROVE  SerialInvariant'
<1>1. /\ UNCHANGED <<exists, snapshots, events, clock, rest, ownSnaps, ownEvents>>
      /\ pc[w] = "read" /\ latest'[w] = LatestPrice(w, Head(rest[w]).fare)
      /\ pc'[w] = "store"
      /\ Head(rest[w]).fare \in Fare
  BY HeadOfRest DEF ReadLatest, Base, TypeOK
<1>2. Before(SeenSnaps(w), Head(rest[w]).fare, clock + 1, latest'[w])
  BY <1>1, LatestIsBefore DEF Base
<1>3. ReadIsLatest(w)'
  BY <1>1, <1>2 DEF ReadIsLatest, SeenSnaps
<1>4. \A fares, n : HasStored(w, fares, n)' <=> HasStored(w, fares, n)
  BY <1>1 DEF HasStored
<1>5. OpenRun(w)'
  BY <1>1, <1>4 DEF SerialInvariant, OpenRun
<1>6. Tracked(SeenSnaps(w), SeenEvents(w))' /\ Tracked(snapshots, events)'
  BY <1>1 DEF SerialInvariant, SeenSnaps, SeenEvents
<1>7. InTransaction(w)'
  BY <1>1 DEF InTransaction
<1>8. QED
  BY <1>3, <1>5, <1>6, <1>7, OthersAreSerial, Zenon DEF SerialInvariant

(* It stores the next fare of its result. *)
LEMMA StoreIsSerial ==
    ASSUME Base, Base', SerialInvariant, NoOverlap', NEW w \in Worker, StoreFare(w),
           Inexact = {}
    PROVE  SerialInvariant'
<1>1. /\ exists /\ pc[w] = "store" /\ clock \in Nat /\ clock' = clock + 1
      /\ UNCHANGED <<snapshots, events>> /\ rest'[w] = Tail(rest[w]) /\ pc'[w] = "read"
      /\ rest[w] \in Seq(Quote) /\ rest[w] # << >>
  BY DEF StoreFare, Base, TypeOK, Transactions
<1>2. PICK q : q = Head(rest[w])
  OBVIOUS
<1>3. /\ q = rest[w][1] /\ Len(rest'[w]) = Len(rest[w]) - 1 /\ Len(rest[w]) \in Nat \ {0}
      /\ \A i \in 1 .. Len(rest'[w]) : rest'[w][i] = rest[w][i + 1]
  BY <1>1, <1>2
<1>4. Rounded[q.price] = q.price
  <2>1. q.price \in Price
    BY <1>1, <1>2, HeadOfRest DEF Base
  <2>2. QED
    BY <2>1 DEF Inexact
<1>5. NewSnap(w) = Row(q, clock + 1) /\ ownSnaps'[w] = ownSnaps[w] \cup {Row(q, clock + 1)}
  BY <1>4, <1>2, StoreEffect DEF NewSnap, Row, Base, TypeOK
<1>6. PICK fares \in Result, n \in Nat : HasStored(w, fares, n)
  BY <1>1 DEF SerialInvariant, OpenRun
<1>7. HasStored(w, fares, n + 1)'
  <2>1. n + 1 + Len(rest'[w]) = Len(fares) /\ n + 1 <= clock' /\ clock' - (n + 1) = clock - n
    <3>1. PICK a \in Nat : a = Len(rest[w])
      BY <1>3
    <3>2. PICK b \in Nat : b = Len(rest'[w])
      BY <1>3
    <3>3. b = a - 1
      BY <1>3, <3>1, <3>2
    <3>4. n + a = Len(fares) /\ n <= clock
      BY <1>6, <3>1 DEF HasStored
    <3>5. n + 1 + b = n + a
      BY <3>3
    <3>6. n + 1 + Len(rest'[w]) = Len(fares)
      BY <3>2, <3>4, <3>5
    <3>7. clock \in Nat /\ clock' = clock + 1
      BY <1>1
    <3>8. n + 1 <= clock' /\ clock' - (n + 1) = clock - n
      BY <3>4, <3>7
    <3>9. QED
      BY <3>6, <3>8
  <2>2. q = fares[n + 1]
    BY <1>3, <1>6 DEF HasStored
  <2>3. ASSUME NEW i \in 1 .. Len(rest'[w]) PROVE rest'[w][i] = fares[n + 1 + i]
    <3>1. i + 1 \in 1 .. Len(rest[w]) /\ rest'[w][i] = rest[w][i + 1] /\ n + (i + 1) = n + 1 + i
      BY <1>3
    <3>2. QED
      BY <1>6, <3>1 DEF HasStored
  <2>4. ASSUME NEW x \in ownSnaps'[w]
        PROVE  \E i \in 1 .. n + 1 : x = Row(fares[i], clock - n + i)
    <3>1. CASE x = Row(q, clock + 1)
      <4>1. n + 1 \in 1 .. n + 1 /\ clock - n + (n + 1) = clock + 1
        BY <1>1
      <4>2. QED
        BY <2>2, <3>1, <4>1
    <3>2. CASE x \in ownSnaps[w]
      <4>1. PICK i \in 1 .. n : x = Row(fares[i], clock - n + i)
        BY <1>6, <3>2 DEF HasStored
      <4>2. QED
        BY <4>1
    <3>3. QED
      BY <1>5, <3>1, <3>2
  <2>5. ASSUME NEW i \in 1 .. n + 1 PROVE Row(fares[i], clock - n + i) \in ownSnaps'[w]
    <3>1. CASE i = n + 1
      <4>1. clock - n + (n + 1) = clock + 1
        BY <1>1
      <4>2. QED
        BY <1>5, <2>2, <3>1, <4>1
    <3>2. CASE i # n + 1
      <4>1. i \in 1 .. n
        BY <3>2
      <4>2. QED
        BY <1>5, <1>6, <4>1 DEF HasStored
    <3>3. QED
      BY <3>1, <3>2
  <2>6. \A x \in snapshots' : x.at <= clock - n
    BY <1>1, <1>6 DEF HasStored
  <2>7. QED
    BY <2>1, <2>3, <2>4, <2>5, <2>6 DEF HasStored
<1>8. OpenRun(w)' /\ ReadIsLatest(w)'
  <2>1. n + 1 \in Nat
    OBVIOUS
  <2>2. QED
    BY <1>1, <1>7, <2>1 DEF OpenRun, ReadIsLatest
<1>9. Tracked(SeenSnaps(w), SeenEvents(w))'
  <2>1. /\ Tracked(SeenSnaps(w), SeenEvents(w))
        /\ Before(SeenSnaps(w), q.fare, clock + 1, latest[w])
    BY <1>1, <1>2 DEF SerialInvariant, ReadIsLatest
  <2>2. /\ \A x \in SeenSnaps(w) : x.at \in 1 .. clock
        /\ \A e \in SeenEvents(w) : e.at \in 1 .. clock
    BY DEF Base, RowsArePast, Ids, SeenSnaps, SeenEvents
  <2>3. PICK x : x = Row(q, clock + 1)
    OBVIOUS
  <2>4. x.at = clock + 1 /\ x.fare = q.fare /\ x.price = q.price
    BY <2>3 DEF Row
  <2>5. SeenSnaps(w)' = SeenSnaps(w) \cup {x}
    BY <1>1, <1>5, <2>3 DEF SeenSnaps
  <2>6. PICK e : e = NewEvent(w)
    OBVIOUS
  <2>7. e.at = x.at /\ e.fare = x.fare /\ e.old = latest[w] /\ e.new = x.price
    BY <1>4, <1>2, <2>4, <2>6 DEF NewEvent
  <2>8. \/ latest[w] # x.price /\ SeenEvents(w)' = SeenEvents(w) \cup {e}
        \/ latest[w] = x.price /\ SeenEvents(w)' = SeenEvents(w)
    <3>1. \/ latest[w] # q.price /\ ownEvents'[w] = ownEvents[w] \cup {NewEvent(w)}
          \/ latest[w] = q.price /\ ownEvents'[w] = ownEvents[w]
      BY <1>2, StoreEffect DEF Base, TypeOK
    <3>2. QED
      BY <1>1, <2>4, <2>6, <3>1 DEF SeenEvents
  <2>9. Before(SeenSnaps(w), x.fare, clock + 1, latest[w])
    BY <2>1, <2>4
  <2>10. PICK further : further = SeenEvents(w)'
    OBVIOUS
  <2>11. EventsAfter(SeenEvents(w), x, latest[w], further)
    BY <2>7, <2>8, <2>10 DEF EventsAfter
  <2>12. Tracked(SeenSnaps(w) \cup {x}, further)
    BY <1>1, <2>1, <2>2, <2>4, <2>9, <2>11, TrackedGrows, Zenon
  <2>13. QED
    BY <2>5, <2>10, <2>12
<1>10. Tracked(snapshots, events)'
  BY <1>1 DEF SerialInvariant
<1>11. InTransaction(w)'
  BY <1>1 DEF InTransaction
<1>12. QED
  BY <1>8, <1>9, <1>10, <1>11, OthersAreSerial, Zenon DEF SerialInvariant

(* It commits what it has seen. *)
LEMMA CommitIsSerial ==
    ASSUME Base, Base', SerialInvariant, NoOverlap, NEW w \in Worker, Commit(w)
    PROVE  SerialInvariant'
<1>1. /\ snapshots' = snapshots \cup ownSnaps[w] /\ events' = events \cup ownEvents[w]
      /\ ownSnaps'[w] = {} /\ ownEvents'[w] = {} /\ pc'[w] \in {"idle", "queue"}
  BY DEF Commit, Base, TypeOK
<1>2. SeenSnaps(w)' = SeenSnaps(w) /\ SeenEvents(w)' = SeenEvents(w)
  BY <1>1 DEF SeenSnaps, SeenEvents
<1>3. Tracked(SeenSnaps(w), SeenEvents(w))'
  BY <1>2 DEF SerialInvariant
<1>4. Tracked(snapshots, events)'
  BY <1>1, <1>3 DEF SeenSnaps, SeenEvents
<1>5. OpenRun(w)' /\ ReadIsLatest(w)'
  BY <1>1 DEF OpenRun, ReadIsLatest
<1>6. \A v \in Worker \ {w} : ~InTransaction(v)'
  BY DEF Commit, NoOverlap, InTransaction, Base, TypeOK
<1>7. \A v \in Worker \ {w} :
         Tracked(SeenSnaps(v), SeenEvents(v))' /\ OpenRun(v)' /\ ReadIsLatest(v)'
  BY <1>4, <1>6, OutsideIsSerial
<1>8. QED
  BY <1>3, <1>4, <1>5, <1>7, Zenon DEF SerialInvariant

(* A transaction that is dropped leaves what is committed. *)
LEMMA DropIsSerial ==
    ASSUME Base, SerialInvariant, NEW w \in Worker, Dropped(w)
    PROVE  SerialInvariant'
<1>1. /\ UNCHANGED <<snapshots, events>>
      /\ ownSnaps'[w] = {} /\ ownEvents'[w] = {} /\ pc'[w] = "idle"
  BY DEF Dropped, Forget, Base, TypeOK
<1>2. SeenSnaps(w)' = snapshots /\ SeenEvents(w)' = events
  BY <1>1 DEF SeenSnaps, SeenEvents
<1>3. Tracked(SeenSnaps(w), SeenEvents(w))' /\ Tracked(snapshots, events)'
  BY <1>1, <1>2 DEF SerialInvariant
<1>4. OpenRun(w)' /\ ReadIsLatest(w)'
  BY <1>1 DEF OpenRun, ReadIsLatest
<1>5. ASSUME NEW v \in Worker \ {w}
      PROVE  Tracked(SeenSnaps(v), SeenEvents(v))' /\ OpenRun(v)' /\ ReadIsLatest(v)'
  <2>1. /\ UNCHANGED <<exists, snapshots, events, clock>>
        /\ ownSnaps'[v] = ownSnaps[v] /\ ownEvents'[v] = ownEvents[v]
        /\ rest'[v] = rest[v] /\ latest'[v] = latest[v] /\ pc'[v] = pc[v]
    BY DEF Dropped, Forget, Base, TypeOK
  <2>2. QED
    BY <2>1, WithoutRows
<1>6. QED
  BY <1>3, <1>4, <1>5, Zenon DEF SerialInvariant

(* Queueing, sending and standing still change no row. *)
LEMMA OtherIsSerial ==
    ASSUME Base, SerialInvariant,
           \/ \E w \in Worker : QueueNotification(w)
           \/ \E m \in broker : SendStep(m) \/ SendLost(m)
           \/ UNCHANGED vars
    PROVE  SerialInvariant'
<1>1. /\ UNCHANGED <<exists, snapshots, events, clock, rest, latest, ownSnaps, ownEvents>>
      /\ \A w \in Worker : pc'[w] = pc[w] \/ pc'[w] \notin {"read", "store"}
  BY DEF QueueNotification, SendStep, SendSucceeds, SendRaises, SendLost, vars, workerVars,
         Base, TypeOK
<1>2. ASSUME NEW w \in Worker
      PROVE  Tracked(SeenSnaps(w), SeenEvents(w))' /\ OpenRun(w)' /\ ReadIsLatest(w)'
  BY <1>1, WithoutRows
<1>3. Tracked(snapshots, events)'
  BY <1>1 DEF SerialInvariant
<1>4. QED
  BY <1>2, <1>3, Zenon DEF SerialInvariant

(* The subscription is deleted before a run has stored anything, or after. *)
LEMMA DeletionIsSerial ==
    ASSUME Base, SerialInvariant, DeleteSubscription
    PROVE  SerialInvariant'
<1>1. /\ exists' = FALSE /\ snapshots' = {} /\ events' = {}
      /\ UNCHANGED <<clock, pc, rest, latest, ownSnaps, ownEvents>>
      /\ \A w \in Worker : ownSnaps[w] = {} /\ ownEvents[w] = {}
  BY DEF DeleteSubscription, workerVars, Base, Transactions
<1>2. Tracked({}, {})
  BY DEF Tracked, Timed
<1>3. Tracked(snapshots, events)'
  BY <1>1, <1>2
<1>4. ASSUME NEW w \in Worker
      PROVE  Tracked(SeenSnaps(w), SeenEvents(w))' /\ OpenRun(w)' /\ ReadIsLatest(w)'
  <2>1. SeenSnaps(w)' = {} /\ SeenEvents(w)' = {}
    BY <1>1 DEF SeenSnaps, SeenEvents
  <2>2. \A fares, n : HasStored(w, fares, n) => HasStored(w, fares, n)'
    BY <1>1 DEF HasStored
  <2>3. OpenRun(w)'
    BY <1>1, <2>2 DEF SerialInvariant, OpenRun
  <2>4. ReadIsLatest(w)'
    BY <1>1 DEF ReadIsLatest
  <2>5. QED
    BY <1>2, <2>1, <2>3, <2>4
<1>5. QED
  BY <1>3, <1>4, Zenon DEF SerialInvariant

(* What the schedule without overlaps adds to the specification.             *)
LEMMA SerialIsSpec == SerialSpec => Spec
<1>1. [SerialNext]_vars => [Next]_vars
  BY DEF SerialNext
<1>2. QED
  BY <1>1, PTL DEF SerialSpec, Spec

LEMMA NeverOverlaps == SerialSpec => []NoOverlap
<1>1. Init => NoOverlap
  BY DEF Init, NoOverlap, InTransaction
<1>2. NoOverlap /\ [SerialNext]_vars => NoOverlap'
  BY DEF NoOverlap, InTransaction, SerialNext, vars, workerVars
<1>3. QED
  BY <1>1, <1>2, PTL DEF SerialSpec

(* Transactions that do not overlap build on one another.                    *)
LEMMA SerialIsInvariant ==
    ASSUME Inexact = {}
    PROVE  SerialSpec => []SerialInvariant
<1>1. Init => SerialInvariant
  <2> SUFFICES ASSUME Init PROVE SerialInvariant
    OBVIOUS
  <2>1. Tracked(snapshots, events)
    BY DEF Init, Tracked, Timed
  <2>2. ASSUME NEW w \in Worker
        PROVE  Tracked(SeenSnaps(w), SeenEvents(w)) /\ OpenRun(w) /\ ReadIsLatest(w)
    <3>1. SeenSnaps(w) = snapshots /\ SeenEvents(w) = events
      BY DEF Init, SeenSnaps, SeenEvents
    <3>2. OpenRun(w) /\ ReadIsLatest(w)
      BY DEF Init, OpenRun, ReadIsLatest
    <3>3. QED
      BY <2>1, <3>1, <3>2
  <2>3. QED
    BY <2>1, <2>2, Zenon DEF SerialInvariant
<1>2. Base /\ Base' /\ NoOverlap /\ SerialInvariant /\ [SerialNext]_vars => SerialInvariant'
  <2> SUFFICES ASSUME Base, Base', NoOverlap, SerialInvariant, [SerialNext]_vars
               PROVE  SerialInvariant'
    OBVIOUS
  <2>1. CASE UNCHANGED vars
    BY <2>1, OtherIsSerial, Zenon
  <2>2. CASE Next /\ NoOverlap'
    BY <2>2, NextCases, BeginIsSerial, ReadIsSerial, StoreIsSerial, CommitIsSerial,
       DropIsSerial, OtherIsSerial, DeletionIsSerial, Zenon
  <2>3. QED
    BY <2>1, <2>2 DEF SerialNext
<1>3. QED
  BY <1>1, <1>2, SerialIsSpec, BaseIsInvariant, NeverOverlaps, PTL DEF SerialSpec

-----------------------------------------------------------------------------
(* What a commit makes visible.                                              *)

(* Where a fare is in a result. *)
Places(fares, f) == {i \in 1 .. Len(fares) : fares[i].fare = f}

(* The rows of a result that is stored after a time, all of them and those   *)
(* of one fare in order.                                                     *)
StoredAfter(base, rows, own, fares) ==
    /\ \A x \in rows : x.at \in 1 .. base
    /\ \A x \in own : \E i \in 1 .. Len(fares) : x = Row(fares[i], base + i)
    /\ \A i \in 1 .. Len(fares) : Row(fares[i], base + i) \in own

RowsAfter(base, fares, f) ==
    LET places == Ascending(Places(fares, f))
    IN  [k \in 1 .. Len(places) |-> Row(fares[places[k]], base + places[k])]

(* The rows of a fare after a result is stored are those before it and then  *)
(* those of the result, in its order.                                        *)
LEMMA RowsOfResult ==
    ASSUME NEW base \in Nat, NEW rows, NEW fares \in Seq(Quote), NEW own,
           StoredAfter(base, rows, own, fares),
           NEW f, NEW s, Ordered(s, rows, f), NEW t, t = RowsAfter(base, fares, f)
    PROVE  Ordered(s \o t, rows \cup own, f) /\ t \in Seq(own)
<1>1. Len(fares) \in Nat
  OBVIOUS
<1> PICK places : places = Ascending(Places(fares, f))
  OBVIOUS
<1>a. t = [k \in 1 .. Len(places) |-> Row(fares[places[k]], base + places[k])]
  BY DEF RowsAfter
<1>b. /\ \A x \in rows : x.at \in 1 .. base
      /\ \A x \in own : \E i \in 1 .. Len(fares) : x = Row(fares[i], base + i)
      /\ \A i \in 1 .. Len(fares) : Row(fares[i], base + i) \in own
  BY DEF StoredAfter
<1>2. /\ Lists(places, Places(fares, f)) /\ Len(places) \in Nat
      /\ \A k \in 1 .. Len(places) : places[k] \in Places(fares, f)
  <2>1. Places(fares, f) \in SUBSET Int /\ Places(fares, f) \in SUBSET (1 .. Len(fares))
    BY <1>1 DEF Places
  <2>2. IsFiniteSet(1 .. Len(fares))
    BY <1>1, FS_Interval
  <2>3. IsFiniteSet(Places(fares, f))
    BY <2>1, <2>2, FS_Subset
  <2>4. QED
    BY <2>1, <2>3, AscendingLists
<1>3. /\ Len(t) = Len(places)
      /\ \A k \in 1 .. Len(t) : /\ t[k] = Row(fares[places[k]], base + places[k])
                                /\ places[k] \in 1 .. Len(fares) /\ fares[places[k]].fare = f
  BY <1>2, <1>a DEF Places
<1>4. \A k \in 1 .. Len(t) : t[k] \in own /\ t[k].fare = f /\ t[k].at = base + places[k]
  <2> SUFFICES ASSUME NEW k \in 1 .. Len(t)
               PROVE  t[k] \in own /\ t[k].fare = f /\ t[k].at = base + places[k]
    OBVIOUS
  <2>1. t[k] \in own
    BY <1>3, <1>b
  <2>2. t[k] = Row(fares[places[k]], base + places[k]) /\ fares[places[k]].fare = f
    BY <1>3
  <2>3. t[k].fare = f /\ t[k].at = base + places[k]
    BY <2>2 DEF Row
  <2>4. QED
    BY <2>1, <2>3
<1>5. t \in Seq(own)
  BY <1>2, <1>3, <1>4, <1>a
<1>6. /\ s \in Seq(rows) /\ Len(s) \in Nat
      /\ \A k \in 1 .. Len(s) : s[k] \in rows /\ s[k].fare = f
  BY DEF Ordered
<1>7. PICK u : u = s \o t
  OBVIOUS
<1>8. /\ Len(u) = Len(s) + Len(t)
      /\ \A k \in 1 .. Len(s) : u[k] = s[k]
      /\ \A k \in 1 .. Len(t) : u[Len(s) + k] = t[k]
      /\ u \in Seq(rows \cup own)
  BY <1>5, <1>6, <1>7
<1>9. ASSUME NEW k \in 1 .. Len(u)
      PROVE  \/ k \in 1 .. Len(s) /\ u[k] = s[k]
             \/ /\ k - Len(s) \in 1 .. Len(t) /\ u[k] = t[k - Len(s)] /\ k \notin 1 .. Len(s)
  <2>1. \/ k \in 1 .. Len(s)
        \/ k - Len(s) \in 1 .. Len(t) /\ k \notin 1 .. Len(s)
    BY <1>2, <1>3, <1>6, <1>8
  <2>2. ASSUME k - Len(s) \in 1 .. Len(t) PROVE u[k] = t[k - Len(s)]
    <3>1. Len(s) + (k - Len(s)) = k
      BY <1>6
    <3>2. QED
      BY <1>8, <2>2, <3>1
  <2>3. QED
    BY <1>8, <2>1, <2>2
<1>10. ASSUME NEW k \in 1 .. Len(u) PROVE u[k].fare = f
  <2>1. CASE k \in 1 .. Len(s) /\ u[k] = s[k]
    BY <1>6, <2>1
  <2>2. CASE k - Len(s) \in 1 .. Len(t) /\ u[k] = t[k - Len(s)]
    BY <1>4, <2>2
  <2>3. QED
    BY <1>9, <2>1, <2>2
<1>11. ASSUME NEW j \in 1 .. Len(u), NEW k \in 1 .. Len(u), j < k PROVE u[j].at < u[k].at
  <2>1. CASE j \in 1 .. Len(s) /\ k \in 1 .. Len(s)
    <3>1. s[j].at < s[k].at
      BY <1>11, <2>1 DEF Ordered
    <3>2. QED
      BY <1>8, <2>1, <3>1
  <2>2. CASE j \in 1 .. Len(s) /\ k - Len(s) \in 1 .. Len(t)
    <3>1. u[j].at \in 1 .. base
      BY <1>6, <1>8, <1>b, <2>2
    <3>2. k \notin 1 .. Len(s) /\ u[k] = t[k - Len(s)]
      BY <1>6, <1>9, <2>2
    <3>3. PICK p \in 1 .. Len(fares) : u[k].at = base + p
      BY <1>3, <1>4, <2>2, <3>2
    <3>4. QED
      BY <3>1, <3>3
  <2>3. CASE j - Len(s) \in 1 .. Len(t) /\ k - Len(s) \in 1 .. Len(t)
    <3>1. PICK a \in 1 .. Len(t) : a = j - Len(s)
      BY <2>3
    <3>2. PICK b \in 1 .. Len(t) : b = k - Len(s)
      BY <2>3
    <3>3. a < b
      BY <1>6, <1>11, <3>1, <3>2
    <3>4. j \notin 1 .. Len(s) /\ k \notin 1 .. Len(s)
      BY <1>6, <2>3
    <3>5. u[j] = t[a] /\ u[k] = t[b]
      BY <1>9, <3>1, <3>2, <3>4
    <3>6. places[a] < places[b]
      BY <1>2, <1>3, <3>3 DEF Lists
    <3>7. u[j].at = base + places[a] /\ u[k].at = base + places[b]
      BY <1>4, <3>5
    <3>8. PICK pa \in 1 .. Len(fares) : pa = places[a]
      BY <1>3
    <3>9. PICK pb \in 1 .. Len(fares) : pb = places[b]
      BY <1>3
    <3>10. base + pa < base + pb
      BY <3>6, <3>8, <3>9
    <3>11. QED
      BY <3>7, <3>8, <3>9, <3>10
  <2>4. CASE j - Len(s) \in 1 .. Len(t) /\ k \in 1 .. Len(s)
    BY <1>6, <1>11, <2>4
  <2>5. QED
    BY <1>9, <2>1, <2>2, <2>3, <2>4
<1>12. ASSUME NEW x \in rows \cup own, x.fare = f PROVE \E k \in 1 .. Len(u) : u[k] = x
  <2>1. CASE x \in rows
    <3>1. PICK k \in 1 .. Len(s) : s[k] = x
      BY <1>12, <2>1 DEF Ordered
    <3>2. k \in 1 .. Len(u)
      BY <1>2, <1>3, <1>6, <1>8
    <3>3. QED
      BY <1>8, <3>1, <3>2
  <2>2. CASE x \in own
    <3>1. PICK i \in 1 .. Len(fares) : x = Row(fares[i], base + i)
      BY <1>b, <2>2
    <3>2. i \in Places(fares, f)
      BY <1>12, <3>1 DEF Places, Row
    <3>3. PICK k \in 1 .. Len(places) : places[k] = i
      BY <1>2, <3>2 DEF Lists
    <3>4. t[k] = x
      BY <1>3, <3>1, <3>3
    <3>5. Len(s) + k \in 1 .. Len(u)
      BY <1>2, <1>3, <1>6, <1>8
    <3>6. QED
      BY <1>3, <1>8, <3>4, <3>5
  <2>3. QED
    BY <2>1, <2>2
<1>13. Ordered(u, rows \cup own, f)
  BY <1>8, <1>10, <1>11, <1>12 DEF Ordered
<1>14. QED
  BY <1>5, <1>7, <1>13

(* The prices of two lists of rows, one after the other. *)
LEMMA PricesOfBoth ==
    ASSUME NEW rows, NEW own, NEW s \in Seq(rows), NEW t \in Seq(own)
    PROVE  PricesIn(s \o t) = PricesIn(s) \o PricesIn(t)
<1>1. PICK a : a = PricesIn(s)
  OBVIOUS
<1>2. PICK b : b = PricesIn(t)
  OBVIOUS
<1>3. /\ Len(s) \in Nat /\ Len(t) \in Nat /\ Len(s \o t) = Len(s) + Len(t)
      /\ \A k \in 1 .. Len(s) : (s \o t)[k] = s[k]
      /\ \A k \in 1 .. Len(s) + Len(t) : k \notin 1 .. Len(s) => (s \o t)[k] = t[k - Len(s)]
  OBVIOUS
<1>4. /\ Len(a) = Len(s) /\ \A k \in 1 .. Len(s) : a[k] = s[k].price
      /\ Len(b) = Len(t) /\ \A k \in 1 .. Len(t) : b[k] = t[k].price
  BY <1>1, <1>2, <1>3 DEF PricesIn
<1>5. a \o b = [k \in 1 .. Len(s) + Len(t) |-> IF k <= Len(s) THEN a[k] ELSE b[k - Len(s)]]
  <2> DEFINE P == {x.price : x \in rows \cup own}
  <2>1. a = [k \in 1 .. Len(s) |-> s[k].price] /\ b = [k \in 1 .. Len(t) |-> t[k].price]
    BY <1>1, <1>2 DEF PricesIn
  <2>2. \A k \in 1 .. Len(s) : s[k].price \in P
    OBVIOUS
  <2>3. \A k \in 1 .. Len(t) : t[k].price \in P
    OBVIOUS
  <2> HIDE DEF P
  <2>4. a \in Seq(P) /\ b \in Seq(P)
    BY <1>3, <2>1, <2>2, <2>3
  <2>5. PICK c : c = a \o b
    OBVIOUS
  <2>6. /\ c \in Seq(P) /\ Len(c) = Len(a) + Len(b)
        /\ \A k \in 1 .. Len(a) + Len(b) : c[k] = IF k <= Len(a) THEN a[k] ELSE b[k - Len(a)]
    BY <2>4, <2>5, ConcatProperties
  <2>7. c = [k \in 1 .. Len(c) |-> c[k]]
    BY <2>6
  <2>8. QED
    BY <1>4, <2>5, <2>6, <2>7
<1>6. ASSUME NEW k \in 1 .. Len(s) + Len(t)
      PROVE  (s \o t)[k].price = IF k <= Len(s) THEN a[k] ELSE b[k - Len(s)]
  <2>1. CASE k <= Len(s)
    BY <1>3, <1>4, <2>1
  <2>2. CASE ~ k <= Len(s)
    <3>1. k \notin 1 .. Len(s) /\ k - Len(s) \in 1 .. Len(t)
      BY <1>3, <2>2
    <3>2. QED
      BY <1>3, <1>4, <2>2, <3>1
  <2>3. QED
    BY <2>1, <2>2
<1>7. PricesIn(s \o t) = a \o b
  BY <1>3, <1>5, <1>6 DEF PricesIn
<1>8. QED
  BY <1>1, <1>2, <1>7

(* A run that commits adds the prices of its whole result to each fare, and  *)
(* the events of the fare are again the changes within its prices.           *)
LEMMA CommitObserves ==
    ASSUME Base, SerialInvariant, SerialInvariant', NEW w \in Worker, Commit(w), Base',
           NEW fares \in Result, HasStored(w, fares, Len(fares)), NEW f
    PROVE  /\ Stored(f)' = Stored(f) \o Watch!PricesOf(f, fares)
           /\ Recorded(f)' = Watch!Transitions(Stored(f)')
<1>1. /\ snapshots' = snapshots \cup ownSnaps[w] /\ clock \in Nat
      /\ \A x \in snapshots : x.at \in 1 .. clock
      /\ fares \in Seq(Quote) /\ Len(fares) \in Nat
  BY ConstantsAssumption DEF ConstantsAssumption, Commit, Base, TypeOK, RowsArePast, Ids
<1>2. PICK base \in Nat : base = clock - Len(fares)
  BY <1>1 DEF HasStored
<1>3. StoredAfter(base, snapshots, ownSnaps[w], fares)
  BY <1>1, <1>2 DEF HasStored, StoredAfter
<1>4. Timed(snapshots)
  BY DEF SerialInvariant, Tracked
<1>5. /\ Tracked(snapshots', events') /\ Timed(snapshots')
      /\ \A x \in snapshots' : x.at \in Int
      /\ \A e \in events' : e.at \in Int
  BY DEF SerialInvariant, Tracked, Base, RowsArePast, Ids
<1>6. PICK s : s = InOrder(snapshots, f)
  OBVIOUS
<1>7. Ordered(s, snapshots, f)
  <2>1. \A x \in snapshots : x.at \in 1 .. base
    BY <1>3 DEF StoredAfter
  <2>2. QED
    BY <1>4, <1>6, <2>1, InOrderOrders
<1>8. PICK t : t = RowsAfter(base, fares, f)
  OBVIOUS
<1>9. PICK places : places = Ascending(Places(fares, f))
  OBVIOUS
<1>10. Ordered(s \o t, snapshots', f) /\ t \in Seq(ownSnaps[w]) /\ s \in Seq(snapshots)
  <2>1. Ordered(s \o t, snapshots \cup ownSnaps[w], f) /\ t \in Seq(ownSnaps[w])
    BY <1>1, <1>3, <1>7, <1>8, RowsOfResult, Zenon
  <2>2. s \in Seq(snapshots)
    BY <1>7 DEF Ordered
  <2>3. QED
    BY <1>1, <2>1, <2>2
<1>11. InOrder(snapshots', f) = s \o t
  BY <1>5, <1>10, OnlyOrder
<1>12. Watch!PricesOf(f, fares) = PricesIn(t)
  <2>1. Watch!PricesOf(f, fares) = [k \in 1 .. Len(places) |-> fares[places[k]].price]
    BY <1>9, SameOrder DEF Watch!PricesOf, Places
  <2>2. Len(t) = Len(places) /\ \A k \in 1 .. Len(places) : t[k].price = fares[places[k]].price
    BY <1>8, <1>9, <1>10 DEF RowsAfter, Row
  <2>3. QED
    BY <2>1, <2>2 DEF PricesIn
<1>13. PricesIn(s \o t) = PricesIn(s) \o PricesIn(t)
  BY <1>10, PricesOfBoth
<1>14. Stored(f) = PricesIn(s) /\ Stored(f)' = PricesIn(s \o t)
  BY <1>6, <1>11 DEF Stored, PricesIn
<1>15. PICK own : own = InOrder(events', f)
  OBVIOUS
<1>16. Recorded(f)' = [k \in 1 .. Len(own) |-> [old |-> own[k].old, new |-> own[k].new]]
  BY <1>15 DEF Recorded
<1>17. PICK prices : prices = PricesIn(s \o t)
  OBVIOUS
<1>18. Recorded(f)' = Watch!Transitions(prices)
  BY <1>5, <1>10, <1>15, <1>16, <1>17, EventsAreTransitions
<1>19. QED
  BY <1>12, <1>13, <1>14, <1>17, <1>18
(* Where rows and events stay, so does what PriceWatch sees of them. *)
LEMMA WatchSeesNothing ==
    ASSUME UNCHANGED <<exists, snapshots, events>>
    PROVE  UNCHANGED Watch!vars
<1>1. ASSUME NEW f PROVE Stored(f)' = Stored(f) /\ Recorded(f)' = Recorded(f)
  BY DEF Stored, Recorded
<1>2. QED
  BY <1>1 DEF Watch!vars

(* A commit is one observation, of the whole result, or of nothing. *)
LEMMA CommitIsObservation ==
    ASSUME Base, Base', SerialInvariant, SerialInvariant', NEW w \in Worker, Commit(w)
    PROVE  Watch!Next \/ UNCHANGED Watch!vars
<1>1. /\ pc[w] = "read" /\ rest[w] = << >> /\ exists' = exists
      /\ snapshots' = snapshots \cup ownSnaps[w] /\ events' = events \cup ownEvents[w]
  BY DEF Commit
<1>2. CASE ownSnaps[w] = {}
  <2>1. UNCHANGED <<exists, snapshots, events>>
    BY <1>1, <1>2 DEF Base, Transactions
  <2>2. QED
    BY <2>1, WatchSeesNothing
<1>3. CASE ownSnaps[w] # {}
  <2>1. exists
    BY <1>3 DEF Base, TypeOK, Transactions
  <2>2. PICK fares \in Result, n \in Nat : HasStored(w, fares, n)
    BY <1>1 DEF SerialInvariant, OpenRun
  <2>3. n = Len(fares)
    <3>1. n + 0 = Len(fares)
      BY <1>1, <2>2 DEF HasStored
    <3>2. QED
      BY <3>1
  <2>4. HasStored(w, fares, Len(fares))
    BY <2>2, <2>3
  <2>5. \A f : /\ Stored(f)' = Stored(f) \o Watch!PricesOf(f, fares)
               /\ Recorded(f)' = Watch!Transitions(Stored(f)')
    BY <2>4, CommitObserves
  <2>6. Watch!Observe(fares)
    BY <1>1, <2>1, <2>5 DEF Watch!Observe
  <2>7. QED
    BY <2>6 DEF Watch!Next
<1>4. QED
  BY <1>2, <1>3

(* A deletion takes everything stored with it. *)
LEMMA DeletionIsWatched ==
    ASSUME DeleteSubscription
    PROVE  Watch!Next
<1>1. exists /\ exists' = FALSE /\ snapshots' = {} /\ events' = {}
  BY DEF DeleteSubscription
<1>2. \A f : InOrder({}, f) = << >>
  <2>1. ASSUME NEW f PROVE InOrder({}, f) = << >>
    <3>1. /\ Timed({}) /\ \A x \in {} : x.at \in Int
          /\ Ordered(<< >>, {}, f)
      BY DEF Timed, Ordered
    <3>2. QED
      BY <3>1, OnlyOrder
  <2>2. QED
    BY <2>1
<1>3. \A f : Stored(f)' = << >> /\ Recorded(f)' = << >>
  BY <1>1, <1>2 DEF Stored, Recorded
<1>4. Watch!Delete
  BY <1>1, <1>3 DEF Watch!Delete
<1>5. QED
  BY <1>4 DEF Watch!Next

(* Whatever number of workers run the subscription, as long as no two of     *)
(* their transactions are open at once, they implement PriceWatch: each run  *)
(* is seen at once and whole, and the events of every fare are exactly the   *)
(* changes between each of its prices and the one before it, for any results *)
(* in whole cents, also when runs crash or roll back, others still queue     *)
(* their notifications, and the subscription is deleted between.             *)
THEOREM RunsImplementWatch ==
    ASSUME Inexact = {}
    PROVE  SerialSpec => ImplementsWatch
<1>1. Init => Watch!Init
  <2> SUFFICES ASSUME Init PROVE Watch!Init
    OBVIOUS
  <2>1. exists = TRUE /\ snapshots = {} /\ events = {}
    BY DEF Init
  <2>2. ASSUME NEW f PROVE Stored(f) = << >> /\ Recorded(f) = << >>
    <3>1. Timed({}) /\ (\A x \in {} : x.at \in Int) /\ Ordered(<< >>, {}, f)
      BY DEF Timed, Ordered
    <3>2. InOrder({}, f) = << >>
      BY <3>1, OnlyOrder
    <3>3. QED
      BY <2>1, <3>2 DEF Stored, Recorded
  <2>3. QED
    BY <2>1, <2>2 DEF Watch!Init
<1>2. Base /\ Base' /\ SerialInvariant /\ SerialInvariant' /\ [Next]_vars
         => [Watch!Next]_(Watch!vars)
  <2> SUFFICES ASSUME Base, Base', SerialInvariant, SerialInvariant', [Next]_vars
               PROVE  Watch!Next \/ UNCHANGED Watch!vars
    OBVIOUS
  <2>1. CASE UNCHANGED vars
    <3>1. UNCHANGED <<exists, snapshots, events>>
      BY <2>1 DEF vars
    <3>2. QED
      BY <3>1, WatchSeesNothing
  <2>2. ASSUME NEW w \in Worker,
               \/ \E fares \in Result : BeginPersist(w, fares)
               \/ ReadLatest(w) \/ StoreFare(w) \/ QueueNotification(w) \/ Dropped(w)
        PROVE  UNCHANGED Watch!vars
    <3>1. UNCHANGED <<exists, snapshots, events>>
      BY <2>2 DEF BeginPersist, ReadLatest, StoreFare, QueueNotification, Dropped
    <3>2. QED
      BY <3>1, WatchSeesNothing
  <2>3. ASSUME NEW m \in broker, SendStep(m) \/ SendLost(m)
        PROVE  UNCHANGED Watch!vars
    <3>1. UNCHANGED <<exists, snapshots, events>>
      BY <2>3 DEF SendStep, SendSucceeds, SendRaises, SendLost
    <3>2. QED
      BY <3>1, WatchSeesNothing
  <2>4. CASE Next
    BY <2>2, <2>3, <2>4, NextCases, CommitIsObservation, DeletionIsWatched, Zenon
  <2>5. QED
    BY <2>1, <2>4
<1>3. QED
  BY <1>1, <1>2, SerialIsSpec, BaseIsInvariant, SerialIsInvariant, PTL
     DEF SerialSpec, Spec, ImplementsWatch, Watch!Spec
=============================================================================
