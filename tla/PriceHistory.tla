---------------------------- MODULE PriceHistory ----------------------------
(***************************************************************************)
(* Fare snapshots, price change events and their notifications, for one    *)
(* subscription and one provider.                                          *)
(*                                                                         *)
(* Every run of the subscription passes the provider's fares to            *)
(* _persist_results, one database transaction that compares each fare with *)
(* the latest snapshot of the same identity.  Runs overlap: a manual check *)
(* next to the hourly one, or a retry.  The isolation level is READ        *)
(* COMMITTED, so a transaction sees its own rows and what others committed *)
(* before each SELECT.  After the commit the ids of the non-initial events *)
(* are queued for send_price_change_notification, which Celery retries.    *)
(*                                                                         *)
(* A column holds two decimals, and a fare is compared with the column     *)
(* before its own amount is rounded to one.                                *)
(***************************************************************************)
EXTENDS Integers, Sequences, FiniteSets

CONSTANTS
    Fare,          \* fare identities (content_hash)
    Price,         \* amounts, as an adapter returns them or as a column holds them
    Rounded,       \* what a DecimalField of two decimals keeps of an amount
    NoPrice,       \* old_price of an initial observation, None
    Worker,        \* worker processes that run the subscription
    Result,        \* what adapter.search may return: sequences of fares with prices
    Reachable,     \* FALSE when notify_via is telegram and the chat id is empty
    MaxRetries,    \* max_retries of send_price_change_notification
    MaxFares,      \* bound on the fares of a result
    MaxRuns,       \* bound on the runs
    MaxFaults      \* bound on crashes and broker failures

Quote == [fare : Fare, price : Price]

ASSUME ConstantsAssumption ==
    /\ NoPrice \notin Price
    /\ Rounded \in [Price -> Price]
    /\ \A p \in Price : Rounded[Rounded[p]] = Rounded[p]
    /\ Result \subseteq Seq(Quote)
    /\ \A fares \in Result : Len(fares) <= MaxFares
    /\ Reachable \in BOOLEAN
    /\ MaxRetries \in Nat /\ MaxFares \in Nat /\ MaxRuns \in Nat /\ MaxFaults \in Nat

VARIABLES
    exists,     \* the subscription row has not been deleted
    snapshots,  \* committed FareSnapshot rows
    events,     \* committed PriceChangeEvent rows
    clock,      \* the last created_at
    pc,         \* where each worker is
    rest,       \* fares _persist_results has still to store
    latest,     \* the price of the latest snapshot it has read
    ownSnaps,   \* its uncommitted snapshots
    ownEvents,  \* its uncommitted events
    toQueue,    \* ids of committed events it has still to queue
    broker,     \* send_price_change_notification messages
    tries,      \* history: dispatches of each event's notification
    delivered,  \* history: events whose message went out
    runs,       \* number of runs
    faults      \* number of crashes and broker failures

workerVars == <<pc, rest, latest, ownSnaps, ownEvents, toQueue>>
sendVars == <<broker, tries, delivered>>
vars == <<exists, snapshots, events, clock, workerVars, sendVars, runs, faults>>

(* created_at identifies a snapshot, and the event created with it. *)
Snapshot == [fare : Fare, price : Price, at : Nat]
Event == [fare : Fare, old : Price \cup {NoPrice}, new : Price, at : Nat]
Initial(e) == e.old = NoPrice
Ids == 1 .. clock

Init ==
    /\ exists = TRUE
    /\ snapshots = {} /\ events = {} /\ clock = 0
    /\ pc = [w \in Worker |-> "idle"]
    /\ rest = [w \in Worker |-> << >>]
    /\ latest = [w \in Worker |-> NoPrice]
    /\ ownSnaps = [w \in Worker |-> {}]
    /\ ownEvents = [w \in Worker |-> {}]
    /\ toQueue = [w \in Worker |-> {}]
    /\ broker = {} /\ tries = << >> /\ delivered = {}
    /\ runs = 0 /\ faults = 0

-----------------------------------------------------------------------------
(* _persist_results. *)

BeginPersist(w, fares) ==
    /\ pc[w] = "idle" /\ runs < MaxRuns
    /\ runs' = runs + 1
    /\ rest' = [rest EXCEPT ![w] = fares]
    /\ pc' = [pc EXCEPT ![w] = "read"]
    /\ UNCHANGED <<exists, snapshots, events, clock, latest, ownSnaps, ownEvents,
                   toQueue, sendVars, faults>>

(* The snapshots of a fare the worker can see: committed ones and its own. *)
Visible(w, f) == {x \in snapshots \cup ownSnaps[w] : x.fare = f}

(* Faulty variant: order_by("created_at"). *)
OldestPrice(w, f) ==
    IF Visible(w, f) = {} THEN NoPrice
    ELSE (CHOOSE x \in Visible(w, f) : \A y \in Visible(w, f) : x.at <= y.at).price

(* order_by("-created_at").first() *)
LatestPrice(w, f) ==
    IF Visible(w, f) = {} THEN NoPrice
    ELSE (CHOOSE x \in Visible(w, f) : \A y \in Visible(w, f) : y.at <= x.at).price

ReadLatest(w) ==
    /\ pc[w] = "read" /\ rest[w] # << >>
    /\ latest' = [latest EXCEPT ![w] = LatestPrice(w, Head(rest[w]).fare)]
    /\ pc' = [pc EXCEPT ![w] = "store"]
    /\ UNCHANGED <<exists, snapshots, events, clock, rest, ownSnaps, ownEvents,
                   toQueue, sendVars, runs, faults>>

(* Faulty variants: an event for every fare, none for the first one. *)
AlwaysChanged(old, new) == TRUE
ChangedFromKnownPrice(old, new) == old # NoPrice /\ old # new

PriceChanged(old, new) == old # new

(* Every fare is stored, and an event if its amount is not the price read. *)
StoreFare(w) ==
    /\ pc[w] = "store" /\ exists
    /\ clock' = clock + 1
    /\ tries' = Append(tries, 0)
    /\ LET q == Head(rest[w]) IN
       /\ ownSnaps' = [ownSnaps EXCEPT ![w] =
             @ \cup {[fare |-> q.fare, price |-> Rounded[q.price], at |-> clock']}]
       /\ ownEvents' = IF PriceChanged(latest[w], q.price)
             THEN [ownEvents EXCEPT ![w] = @ \cup
                     {[fare |-> q.fare, old |-> latest[w], new |-> Rounded[q.price],
                       at |-> clock']}]
             ELSE ownEvents
    /\ rest' = [rest EXCEPT ![w] = Tail(@)]
    /\ latest' = [latest EXCEPT ![w] = NoPrice]
    /\ pc' = [pc EXCEPT ![w] = "read"]
    /\ UNCHANGED <<exists, snapshots, events, toQueue, broker, delivered, runs, faults>>

Forget(w) ==
    /\ pc' = [pc EXCEPT ![w] = "idle"]
    /\ rest' = [rest EXCEPT ![w] = << >>]
    /\ latest' = [latest EXCEPT ![w] = NoPrice]
    /\ ownSnaps' = [ownSnaps EXCEPT ![w] = {}]
    /\ ownEvents' = [ownEvents EXCEPT ![w] = {}]
    /\ toQueue' = [toQueue EXCEPT ![w] = {}]

(* Faulty variants: initial observations are notified too, or only the     *)
(* newest change is.                                                       *)
AllIds(E) == {e.at : e \in E}
NewestId(E) ==
    {e.at : e \in {x \in E : ~Initial(x) /\ \A y \in E : y.at <= x.at}}

NotifiedIds(E) == {e.at : e \in {x \in E : ~Initial(x)}}

(* The transaction commits; on_commit then queues the notifications. *)
Commit(w) ==
    /\ pc[w] = "read" /\ rest[w] = << >>
    /\ snapshots' = snapshots \cup ownSnaps[w]
    /\ events' = events \cup ownEvents[w]
    /\ toQueue' = [toQueue EXCEPT ![w] = NotifiedIds(ownEvents[w])]
    /\ pc' = [pc EXCEPT ![w] = IF NotifiedIds(ownEvents[w]) = {} THEN "idle" ELSE "queue"]
    /\ ownSnaps' = [ownSnaps EXCEPT ![w] = {}]
    /\ ownEvents' = [ownEvents EXCEPT ![w] = {}]
    /\ UNCHANGED <<exists, clock, rest, latest, sendVars, runs, faults>>

(* An exception rolls the transaction back; run_subscription logs it. *)
Rollback(w) ==
    /\ pc[w] \in {"read", "store"}
    /\ Forget(w)
    /\ UNCHANGED <<exists, snapshots, events, clock, sendVars, runs, faults>>

(* The events are queued in the order they were created. *)
QueueNotification(w) ==
    /\ pc[w] = "queue"
    /\ \E id \in toQueue[w] :
          /\ \A other \in toQueue[w] : id <= other
          /\ broker' = broker \cup {[event |-> id, retries |-> 0]}
          /\ toQueue' = [toQueue EXCEPT ![w] = @ \ {id}]
    /\ pc' = [pc EXCEPT ![w] = IF toQueue'[w] = {} THEN "idle" ELSE "queue"]
    /\ UNCHANGED <<exists, snapshots, events, clock, rest, latest, ownSnaps, ownEvents,
                   tries, delivered, runs, faults>>

(* delay() raises: the exception leaves the on_commit callback, and the    *)
(* rest of the ids is never queued.                                        *)
BrokerFails(w) ==
    /\ pc[w] = "queue" /\ faults < MaxFaults
    /\ faults' = faults + 1
    /\ Forget(w)
    /\ UNCHANGED <<exists, snapshots, events, clock, sendVars, runs>>

Crash(w) ==
    /\ pc[w] # "idle" /\ faults < MaxFaults
    /\ faults' = faults + 1
    /\ Forget(w)
    /\ UNCHANGED <<exists, snapshots, events, clock, sendVars, runs>>

(* The rows cascade.  It waits for transactions that inserted child rows.  *)
DeleteSubscription ==
    /\ exists /\ \A w \in Worker : ownSnaps[w] = {}
    /\ exists' = FALSE
    /\ snapshots' = {} /\ events' = {}
    /\ UNCHANGED <<clock, workerVars, sendVars, runs, faults>>

-----------------------------------------------------------------------------
(* send_price_change_notification. *)

Tried(m) == tries' = [tries EXCEPT ![m.event] = @ + 1]

(* The event is gone, or the notifier returns: the task succeeds.  The      *)
(* Telegram notifier returns without sending when there is no chat id.     *)
SendSucceeds(m) ==
    /\ broker' = broker \ {m}
    /\ IF \E e \in events : e.at = m.event
       THEN /\ Tried(m)
            /\ delivered' = IF Reachable THEN delivered \cup {m.event} ELSE delivered
       ELSE UNCHANGED <<tries, delivered>>
    /\ UNCHANGED <<exists, snapshots, events, clock, workerVars, runs, faults>>

(* Faulty variant: one retry too many. *)
MayRetryOnceMore(m) == m.retries <= MaxRetries

MayRetry(m) == m.retries < MaxRetries

(* The mail server refuses the message, or takes it and then fails. *)
SendRaises(m, sent) ==
    /\ Reachable /\ \E e \in events : e.at = m.event
    /\ Tried(m)
    /\ delivered' = IF sent THEN delivered \cup {m.event} ELSE delivered
    /\ broker' = (broker \ {m}) \cup
          (IF MayRetry(m) THEN {[m EXCEPT !.retries = @ + 1]} ELSE {})
    /\ UNCHANGED <<exists, snapshots, events, clock, workerVars, runs, faults>>

(* The worker dies with the message it took. *)
SendLost(m) ==
    /\ faults < MaxFaults
    /\ faults' = faults + 1
    /\ broker' = broker \ {m}
    /\ UNCHANGED <<exists, snapshots, events, clock, workerVars, tries, delivered, runs>>

WorkerStep(w) ==
    \/ ReadLatest(w)
    \/ StoreFare(w)
    \/ Commit(w)
    \/ QueueNotification(w)

SendStep(m) == SendSucceeds(m) \/ \E sent \in BOOLEAN : SendRaises(m, sent)

Next ==
    \/ \E w \in Worker :
          \/ \E fares \in Result : BeginPersist(w, fares)
          \/ WorkerStep(w)
          \/ Rollback(w)
          \/ BrokerFails(w)
          \/ Crash(w)
    \/ DeleteSubscription
    \/ \E m \in broker : SendStep(m) \/ SendLost(m)

Spec == Init /\ [][Next]_vars

(* Workers finish what they started, and take messages off the queue. *)
FairSpec ==
    /\ Spec
    /\ \A w \in Worker : WF_vars(WorkerStep(w))
    /\ WF_vars(\E m \in broker : SendStep(m))

-----------------------------------------------------------------------------
TypeOK ==
    /\ exists \in BOOLEAN
    /\ snapshots \in SUBSET Snapshot
    /\ events \in SUBSET Event
    /\ clock \in Nat
    /\ pc \in [Worker -> {"idle", "read", "store", "queue"}]
    /\ rest \in [Worker -> Seq(Quote)]
    /\ latest \in [Worker -> Price \cup {NoPrice}]
    /\ ownSnaps \in [Worker -> SUBSET Snapshot]
    /\ ownEvents \in [Worker -> SUBSET Event]
    /\ toQueue \in [Worker -> SUBSET Nat]
    /\ broker \in SUBSET [event : Nat, retries : 0 .. MaxRetries]
    /\ tries \in Seq(Nat)
    /\ delivered \in SUBSET Nat
    /\ runs \in Nat /\ faults \in Nat

(* Amounts that a column cannot hold. *)
Inexact == {p \in Price : Rounded[p] # p}

(* An event and its snapshot are committed together or not at all, and the   *)
(* price an event says it came from was stored for the same fare before it:  *)
(* true of every event, also when runs overlap and transactions roll back.   *)
(* Its two prices differ, unless an amount with more decimals was rounded    *)
(* to the price it was found different from.                                *)
EventsAreExplained ==
    \A e \in events :
        /\ \E x \in snapshots : x.at = e.at /\ x.fare = e.fare /\ x.price = e.new
        /\ e.old # e.new \/ \E p \in Inexact : Rounded[p] = e.new
        /\ ~Initial(e) => \E x \in snapshots :
              x.fare = e.fare /\ x.price = e.old /\ x.at < e.at

(* A price that was never stored for its fare before comes with an event.    *)
(* This is what overlapping runs leave of "an event for every change": the   *)
(* return to an earlier price may go without one, see EveryChangeIsRecorded. *)
NewPricesAreRecorded ==
    \A x \in snapshots :
        (\A y \in snapshots : y.fare = x.fare /\ y.at < x.at => y.price # x.price)
            => \E e \in events : e.at = x.at

(* What DATA_MODEL.md and ARCHITECTURE.md promise: an event whenever a price *)
(* differs from the one stored before it for the same fare.  Two runs that   *)
(* read the same latest snapshot break it (run PriceChangesMissed).          *)
EveryChangeIsRecorded ==
    \A x, y \in snapshots :
        /\ y.fare = x.fare /\ y.price # x.price /\ y.at < x.at
        /\ ~ \E z \in snapshots : z.fare = x.fare /\ y.at < z.at /\ z.at < x.at
        => \E e \in events : e.at = x.at

(* Notifications are side effects of durable state: a message on the broker, *)
(* a dispatch or a delivery is about a committed change of price, not about  *)
(* an initial observation or a transaction that rolled back.                 *)
NotifiesCommittedChanges ==
    exists => \A id \in {m.event : m \in broker} \cup delivered :
                  \E e \in events : e.at = id /\ ~Initial(e)

(* A change is notified at most 1 + MaxRetries times, however the retries of *)
(* several messages and overlapping runs interleave: never queued twice.     *)
BoundedDispatch ==
    \A id \in Ids :
        /\ tries[id] <= 1 + MaxRetries
        /\ Cardinality({m \in broker : m.event = id}) <= 1

(* A committed change of price is dispatched, or the subscription is gone.   *)
ChangesAreDispatched ==
    \A id \in 1 .. MaxRuns * MaxFares :
        (\E e \in events : e.at = id /\ ~Initial(e))
            ~> (~exists \/ (id \in Ids /\ tries[id] > 0))
=============================================================================
