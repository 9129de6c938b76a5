------------------------ MODULE SubscriptionLifecycle ------------------------
(***************************************************************************)
(* The status of search subscriptions and the tasks that poll them.        *)
(*                                                                         *)
(* Celery beat puts a fan-out task (poll_active_searches) on the broker's  *)
(* queue, the fan-out queues one poll_subscription per active row, and     *)
(* worker processes run them one at a time.  A run loads the row once and  *)
(* writes its status back when it ends, minutes later; meanwhile the owner *)
(* may cancel, an administrator may edit or delete the row, and another    *)
(* run of the same subscription may be under way.                          *)
(*                                                                         *)
(* Messages are acknowledged when a worker takes them, so a crash loses    *)
(* the task; an exception puts it back, at most MaxRetries times.          *)
(***************************************************************************)
EXTENDS Integers, Sequences, FiniteSets

CONSTANTS
    Subscription,  \* the subscriptions that may ever exist
    Everyone,      \* in place of a subscription, in the fan-out message
    Worker,        \* Celery worker processes
    Admin,         \* administrators with the subscription change form
    MaxRetries,    \* max_retries of poll_subscription
    MaxDay,        \* bound on the calendar
    MaxQueue,      \* bound on the backlog: beat and users hold back above it
    MaxFaults      \* bound on exceptions and crashes in workers

ASSUME ConstantsAssumption ==
    /\ Everyone \notin Subscription
    /\ MaxRetries \in Nat /\ MaxDay \in Nat /\ MaxQueue \in Nat /\ MaxFaults \in Nat

VARIABLES
    today,   \* timezone.localdate()
    status,  \* SearchSubscription.status, "absent" before creation
    dateTo,  \* SearchSubscription.date_to
    queue,   \* the broker's queue
    pc,      \* what each worker is doing
    task,    \* the message each worker took
    copy,    \* the status in the worker's loaded instance
    todo,    \* ids the fan-out has still to queue
    form,    \* the status an admin form was rendered with, per row
    faults   \* exceptions and crashes so far

workerVars == <<pc, task, copy, todo>>
vars == <<today, status, dateTo, queue, workerVars, form, faults>>

Day == 0 .. MaxDay
Stored == {"active", "cancelled", "expired"}
Status == Stored \cup {"absent", "deleted"}
Message == [sub : Subscription \cup {Everyone}, retries : 0 .. MaxRetries, force : BOOLEAN]
NoTask == [sub |-> Everyone, retries |-> 0, force |-> FALSE]
Poll(s) == [sub |-> s, retries |-> 0, force |-> FALSE]
ForcedPoll(s) == [sub |-> s, retries |-> 0, force |-> TRUE]
FanOut == [sub |-> Everyone, retries |-> 0, force |-> FALSE]

Init ==
    /\ today = 0
    /\ status = [s \in Subscription |-> "absent"]
    /\ dateTo = [s \in Subscription |-> 0]
    /\ queue = << >>
    /\ pc = [w \in Worker |-> "idle"]
    /\ task = [w \in Worker |-> NoTask]
    /\ copy = [w \in Worker |-> "absent"]
    /\ todo = [w \in Worker |-> {}]
    /\ form = [a \in Admin |-> [s \in Subscription |-> "absent"]]
    /\ faults = 0

NextDay ==
    /\ today < MaxDay
    /\ today' = today + 1
    /\ UNCHANGED <<status, dateTo, queue, workerVars, form, faults>>

-----------------------------------------------------------------------------
(* Users, administrators and beat. *)

(* The form accepts any date_to, also one that has passed. *)
CreateSubscription(s, d) ==
    /\ status[s] = "absent"
    /\ status' = [status EXCEPT ![s] = "active"]
    /\ dateTo' = [dateTo EXCEPT ![s] = d]
    /\ UNCHANGED <<today, queue, workerVars, form, faults>>

(* The messages that wait, and the fan-outs that are still sending.         *)
Backlog == Len(queue) + Cardinality({w \in Worker : pc[w] \in {"select", "fanout"}})

CheckSubscriptionNow(s) ==
    /\ status[s] = "active" /\ Backlog < MaxQueue
    /\ queue' = Append(queue, ForcedPoll(s))
    /\ UNCHANGED <<today, status, dateTo, workerVars, form, faults>>

(* The view cancels whatever the status is. *)
CancelSubscription(s) ==
    /\ status[s] \in Stored
    /\ status' = [status EXCEPT ![s] = "cancelled"]
    /\ UNCHANGED <<today, dateTo, queue, workerVars, form, faults>>

DeleteSubscription(s) ==
    /\ status[s] \in Stored
    /\ status' = [status EXCEPT ![s] = "deleted"]
    /\ UNCHANGED <<today, dateTo, queue, workerVars, form, faults>>

AdminOpen(a, s) ==
    /\ status[s] \in Stored
    /\ form' = [form EXCEPT ![a][s] = status[s]]
    /\ UNCHANGED <<today, status, dateTo, queue, workerVars, faults>>

(* A plain ModelAdmin form posts every field back, each as it was rendered  *)
(* or as the administrator has changed it.                                  *)
AdminSave(a, s, st, d) ==
    /\ status[s] \in Stored /\ form[a][s] \in Stored
    /\ status' = [status EXCEPT ![s] = st]
    /\ dateTo' = [dateTo EXCEPT ![s] = d]
    /\ UNCHANGED <<today, queue, workerVars, form, faults>>

Beat ==
    /\ Backlog < MaxQueue
    /\ queue' = Append(queue, FanOut)
    /\ UNCHANGED <<today, status, dateTo, workerVars, form, faults>>

-----------------------------------------------------------------------------
(* Workers. *)

Done(w) ==
    /\ pc' = [pc EXCEPT ![w] = "idle"]
    /\ task' = [task EXCEPT ![w] = NoTask]
    /\ copy' = [copy EXCEPT ![w] = "absent"]
    /\ todo' = [todo EXCEPT ![w] = {}]

(* Faulty variant: retries are not counted against the limit. *)
RetriedForever(m) ==
    IF m.sub # Everyone THEN Append(queue, [m EXCEPT !.retries = @ + 1]) ELSE queue

(* autoretry_for=(Exception,): the task is queued again until retries run  *)
(* out; poll_active_searches has no retry.                                 *)
Retried(m) ==
    IF m.sub # Everyone /\ m.retries < MaxRetries
    THEN Append(queue, [m EXCEPT !.retries = @ + 1])
    ELSE queue

TakeTask(w) ==
    /\ pc[w] = "idle" /\ queue # << >>
    /\ task' = [task EXCEPT ![w] = Head(queue)]
    /\ queue' = Tail(queue)
    /\ pc' = [pc EXCEPT ![w] = IF Head(queue).sub = Everyone THEN "select" ELSE "load"]
    /\ UNCHANGED <<today, status, dateTo, copy, todo, form, faults>>

(* Faulty variant: the last day of the window is not polled. *)
ActiveBeforeLastDay == {s \in Subscription : status[s] = "active" /\ today < dateTo[s]}

ActiveSubscriptions == {s \in Subscription : status[s] = "active"}

PollActiveSearches(w) ==
    /\ pc[w] = "select"
    /\ todo' = [todo EXCEPT ![w] = ActiveSubscriptions]
    /\ pc' = [pc EXCEPT ![w] = "fanout"]
    /\ UNCHANGED <<today, status, dateTo, queue, task, copy, form, faults>>

QueueOne(w) ==
    /\ pc[w] = "fanout"
    /\ IF todo[w] = {} THEN Done(w) /\ UNCHANGED queue
       ELSE \E s \in todo[w] :
               /\ queue' = Append(queue, Poll(s))
               /\ todo' = [todo EXCEPT ![w] = @ \ {s}]
               /\ UNCHANGED <<pc, task, copy>>
    /\ UNCHANGED <<today, status, dateTo, form, faults>>

(* Faulty variants: the status is not checked, the window closes a day late. *)
MayAlwaysRun(s) == status[s] \in Stored
WindowIsLongOver(s) == dateTo[s] + 1 < today

MayRun(s) == status[s] = "active"
WindowIsOver(s) == dateTo[s] < today

(* poll_subscription loads the row; run_subscription returns at once unless *)
(* it is active, and expires it when its last day has passed.               *)
LoadSubscription(w) ==
    /\ pc[w] = "load"
    /\ LET s == task[w].sub IN
       IF MayRun(s)
       THEN /\ copy' = [copy EXCEPT ![w] = status[s]]
            /\ pc' = [pc EXCEPT ![w] = IF WindowIsOver(s) THEN "expire" ELSE "poll"]
            /\ UNCHANGED <<task, todo>>
       ELSE Done(w)
    /\ UNCHANGED <<today, status, dateTo, queue, form, faults>>

(* The providers are polled and their fares stored, which takes a while:   *)
(* PollingSystem has the steps.                                            *)
PollProviders(w) ==
    /\ pc[w] = "poll"
    /\ pc' = [pc EXCEPT ![w] = "save"]
    /\ UNCHANGED <<today, status, dateTo, queue, task, copy, todo, form, faults>>

(* Faulty variant: a plain save(), which inserts the row when it is gone. *)
SavedOrInserted(s, st) == [status EXCEPT ![s] = st]

(* save(update_fields=[...]): an UPDATE, never an INSERT. *)
Saved(s, st) == IF status[s] = "deleted" THEN status ELSE [status EXCEPT ![s] = st]

(* An UPDATE that finds no row raises, and the task is retried. *)
SaveStatus(w, st) ==
    LET s == task[w].sub IN
    /\ status' = Saved(s, st)
    /\ queue' = IF status[s] = "deleted" THEN Retried(task[w]) ELSE queue
    /\ Done(w)
    /\ UNCHANGED <<today, dateTo, form, faults>>

ExpireSubscription(w) == pc[w] = "expire" /\ SaveStatus(w, "expired")

(* The last save of run_subscription writes the status that was loaded. *)
FinishRun(w) == pc[w] = "save" /\ SaveStatus(w, copy[w])

Raise(w) ==
    /\ pc[w] # "idle" /\ faults < MaxFaults
    /\ faults' = faults + 1
    /\ queue' = Retried(task[w])
    /\ Done(w)
    /\ UNCHANGED <<today, status, dateTo, form>>

Crash(w) ==
    /\ pc[w] # "idle" /\ faults < MaxFaults
    /\ faults' = faults + 1
    /\ Done(w)
    /\ UNCHANGED <<today, status, dateTo, queue, form>>

WorkerStep(w) ==
    \/ TakeTask(w)
    \/ PollActiveSearches(w)
    \/ QueueOne(w)
    \/ LoadSubscription(w)
    \/ PollProviders(w)
    \/ ExpireSubscription(w)
    \/ FinishRun(w)

Next ==
    \/ NextDay
    \/ Beat
    \/ \E s \in Subscription :
          \/ \E d \in Day : CreateSubscription(s, d)
          \/ CheckSubscriptionNow(s)
          \/ CancelSubscription(s)
          \/ DeleteSubscription(s)
          \/ \E a \in Admin : AdminOpen(a, s)
          \/ \E a \in Admin, st \in Stored, d \in Day : AdminSave(a, s, st, d)
    \/ \E w \in Worker : WorkerStep(w) \/ Raise(w) \/ Crash(w)

Spec == Init /\ [][Next]_vars

-----------------------------------------------------------------------------
TypeOK ==
    /\ today \in Day
    /\ status \in [Subscription -> Status]
    /\ dateTo \in [Subscription -> Day]
    /\ queue \in Seq(Message)
    /\ pc \in [Worker -> {"idle", "select", "fanout", "load", "expire", "poll", "save"}]
    /\ task \in [Worker -> Message]
    /\ copy \in [Worker -> Status]
    /\ todo \in [Worker -> SUBSET Subscription]
    /\ form \in [Admin -> [Subscription -> Status]]
    /\ faults \in 0 .. MaxFaults

(* A worker that loaded the subscription while it was active. *)
Running(w, s) == copy[w] = "active" /\ task[w].sub = s

(* A form of the subscription that shows another status than it has now.     *)
Outdated(a, s) == form[a][s] \in Stored \ {status[s], "cancelled"}

(* An administrator chooses another status than the form has shown.          *)
Decides(a, s) ==
    \E st \in Stored \ {form[a][s]}, d \in Day : AdminSave(a, s, st, d)

(* Once a subscription is stopped, no run that loaded it earlier is still     *)
(* under way and no administrator has an old form of it, it stays stopped     *)
(* unless an administrator means to start it again: no task queued, retried   *)
(* or fanned out before brings it back or relabels it, and no edit of its     *)
(* other fields does.                                                         *)
StoppedStaysStopped ==
    [][\A s \in Subscription :
          /\ status[s] \in {"cancelled", "expired"}
          /\ \A w \in Worker : ~Running(w, s)
          /\ \A a \in Admin : ~Outdated(a, s) /\ ~Decides(a, s)
          => status'[s] \in {status[s], "cancelled", "deleted"}]_vars

(* A deleted row is not resurrected by a run that still holds an instance of *)
(* it, however often its task is retried.                                    *)
DeletedStaysDeleted ==
    [][\A s \in Subscription : status[s] = "deleted" => status'[s] = "deleted"]_vars

(* After the last day of its window a subscription ends up inactive for      *)
(* good, in spite of lost tasks, retries, and stale runs that save "active". *)
WindowCloses ==
    \A s \in Subscription :
        status[s] # "absent" /\ dateTo[s] < today ~> [](status[s] # "active")

(* A subscription in its window is polled again and again until it stops:    *)
(* the next fan-out makes up for a lost task.                                *)
ActiveKeepsBeingPolled ==
    \A s \in Subscription :
        status[s] = "active" ~>
            \/ status[s] # "active"
            \/ \E w \in Worker : pc[w] = "save" /\ task[w].sub = s

(* A cancelled subscription never becomes active or expired again.           *)
CancelledStaysCancelled ==
    [][\A s \in Subscription :
          status[s] = "cancelled" => status'[s] \in {"cancelled", "deleted"}]_vars
=============================================================================
