-------------------------- MODULE PollingSystem_proofs --------------------------
(***************************************************************************)
(* Proofs about SubscriptionLifecycle, for any subscriptions, workers,     *)
(* administrators and bounds; and about PollingSystem, whose loop refines  *)
(* it, so that what is proved of the one holds of the whole system.        *)
(***************************************************************************)
EXTENDS PollingSystem, TLAPS

(* Types alone are not inductive: a run reads the status of the row its     *)
(* message names, so polling tasks must name a subscription; and a run past *)
(* the load holds the status "active".                                      *)
TasksAreSound ==
    \A w \in Worker :
        /\ pc[w] \in {"load", "expire", "poll", "save"} => task[w].sub \in Subscription
        /\ pc[w] \in {"expire", "poll", "save"} => copy[w] = "active"
        /\ pc[w] \in {"idle", "select", "fanout", "load"} => copy[w] = "absent"

Sound == TypeOK /\ TasksAreSound

(* The messages the tasks send. *)
LEMMA MessageTypes ==
    /\ NoTask \in Message /\ FanOut \in Message
    /\ \A s \in Subscription : ForcedPoll(s) \in Message /\ Poll(s) \in Message
  BY ConstantsAssumption DEF ConstantsAssumption, NoTask, FanOut, Poll, ForcedPoll, Message

(* The states of a subscription. *)
LEMMA StatusTypes == "active" \in Status /\ "cancelled" \in Status /\ "expired" \in Status
                     /\ "deleted" \in Status /\ "absent" \in Status
  BY DEF Status, Stored

(* What a task that failed leaves in the queue. *)
LEMMA RetriedType ==
    ASSUME TypeOK, NEW m \in Message
    PROVE  Retried(m) \in Seq(Message)
<1>1. CASE m.retries < MaxRetries
  <2>1. /\ m.retries \in 0 .. MaxRetries /\ m.force \in BOOLEAN
        /\ m.sub \in Subscription \cup {Everyone}
    BY DEF Message
  <2>2. [m EXCEPT !.retries = m.retries + 1] = 
          [sub |-> m.sub, retries |-> m.retries + 1, force |-> m.force]
    BY DEF Message
  <2>3. m.retries + 1 \in 0 .. MaxRetries
    BY <1>1, <2>1, ConstantsAssumption DEF ConstantsAssumption
  <2>4. [m EXCEPT !.retries = m.retries + 1] \in Message
    BY <2>1, <2>2, <2>3 DEF Message
  <2>5. QED
    BY <2>4 DEF Retried, TypeOK
<1>2. CASE ~(m.retries < MaxRetries)
  BY <1>2 DEF Retried, TypeOK
<1>3. QED
  BY <1>1, <1>2

(* A worker that is done with its task.                                     *)
LEMMA DoneSound ==
    ASSUME Sound, NEW w \in Worker, Done(w)
    PROVE  /\ pc' \in [Worker -> {"idle", "select", "fanout", "load", "expire", "poll", "save"}]
           /\ task' \in [Worker -> Message]
           /\ copy' \in [Worker -> Status]
           /\ todo' \in [Worker -> SUBSET Subscription]
           /\ TasksAreSound'
<1>1. /\ pc' \in [Worker -> {"idle", "select", "fanout", "load", "expire", "poll", "save"}]
      /\ task' \in [Worker -> Message]
      /\ copy' \in [Worker -> Status]
      /\ todo' \in [Worker -> SUBSET Subscription]
  BY MessageTypes, StatusTypes DEF Sound, TypeOK, Done
<1>2. \A v \in Worker : v # w => /\ pc'[v] = pc[v] /\ task'[v] = task[v]
                                 /\ copy'[v] = copy[v]
  BY DEF Sound, TypeOK, Done
<1>3. pc'[w] = "idle" /\ copy'[w] = "absent"
  BY DEF Sound, TypeOK, Done
<1>4. TasksAreSound'
  BY <1>2, <1>3 DEF Sound, TasksAreSound
<1>5. QED
  BY <1>1, <1>4

(* The last save of a run.                                                  *)
LEMMA SaveSound ==
    ASSUME Sound, NEW w \in Worker, NEW st \in Status, SaveStatus(w, st)
    PROVE  Sound'
<1>1. task[w] \in Message
  BY DEF Sound, TypeOK
<1>2. Retried(task[w]) \in Seq(Message)
  BY <1>1, RetriedType DEF Sound
<1>3. queue' \in Seq(Message)
  BY <1>2 DEF SaveStatus, Sound, TypeOK
<1>4. status' \in [Subscription -> Status]
  BY DEF SaveStatus, Saved, Sound, TypeOK
<1>5. Done(w) /\ UNCHANGED <<today, dateTo, form, faults>>
  BY DEF SaveStatus
<1>6. QED
  BY <1>3, <1>4, <1>5, DoneSound DEF Sound, TypeOK

(* All of it holds at the start. *)
LEMMA SoundInit == Init => Sound
<1> SUFFICES ASSUME Init PROVE Sound
  OBVIOUS
<1>1. TypeOK
  BY ConstantsAssumption, MessageTypes, StatusTypes
     DEF ConstantsAssumption, Init, TypeOK, Day
<1>2. TasksAreSound
  BY DEF Init, TasksAreSound
<1>3. QED
  BY <1>1, <1>2 DEF Sound

(* Every step keeps the tasks sound.                                        *)
LEMMA SoundStep == Sound /\ [Next]_vars => Sound'
<1> SUFFICES ASSUME Sound, [Next]_vars PROVE Sound'
  OBVIOUS
<1>1. ASSUME NextDay PROVE Sound'
  BY <1>1, ConstantsAssumption
     DEF ConstantsAssumption, NextDay, Sound, TypeOK, TasksAreSound, workerVars, Day
<1>2. ASSUME Beat PROVE Sound'
  <2>1. queue' \in Seq(Message)
    BY <1>2, MessageTypes DEF Beat, Sound, TypeOK
  <2>2. QED
    BY <1>2, <2>1 DEF Beat, Sound, TypeOK, TasksAreSound, workerVars
<1>3. ASSUME NEW s \in Subscription, NEW d \in Day, CreateSubscription(s, d) PROVE Sound'
  BY <1>3, StatusTypes
     DEF CreateSubscription, Sound, TypeOK, TasksAreSound, workerVars
<1>4. ASSUME NEW s \in Subscription, CheckSubscriptionNow(s) PROVE Sound'
  <2>1. queue' \in Seq(Message)
    BY <1>4, MessageTypes DEF CheckSubscriptionNow, Sound, TypeOK
  <2>2. QED
    BY <1>4, <2>1 DEF CheckSubscriptionNow, Sound, TypeOK, TasksAreSound, workerVars
<1>5. ASSUME NEW s \in Subscription, CancelSubscription(s) \/ DeleteSubscription(s)
      PROVE  Sound'
  <2>1. status' \in [Subscription -> Status]
    BY <1>5, StatusTypes DEF CancelSubscription, DeleteSubscription, Sound, TypeOK
  <2>2. UNCHANGED <<today, dateTo, queue, workerVars, form, faults>>
    BY <1>5 DEF CancelSubscription, DeleteSubscription
  <2>3. QED
    BY <2>1, <2>2 DEF Sound, TypeOK, TasksAreSound, workerVars
<1>6. ASSUME NEW s \in Subscription, NEW a \in Admin, AdminOpen(a, s) PROVE Sound'
  <2>1. status[s] \in Status
    BY DEF Sound, TypeOK
  <2>2. form' \in [Admin -> [Subscription -> Status]]
    BY <1>6, <2>1 DEF AdminOpen, Sound, TypeOK
  <2>3. UNCHANGED <<today, status, dateTo, queue, workerVars, faults>>
    BY <1>6 DEF AdminOpen
  <2>4. QED
    BY <2>2, <2>3 DEF Sound, TypeOK, TasksAreSound, workerVars
<1>18. ASSUME NEW s \in Subscription, NEW a \in Admin, NEW st \in Stored, NEW d \in Day,
              AdminSave(a, s, st, d)
       PROVE  Sound'
  <2>1. status' \in [Subscription -> Status] /\ dateTo' \in [Subscription -> Day]
    BY <1>18 DEF AdminSave, Sound, TypeOK, Status
  <2>2. UNCHANGED <<today, queue, workerVars, form, faults>>
    BY <1>18 DEF AdminSave
  <2>3. QED
    BY <2>1, <2>2 DEF Sound, TypeOK, TasksAreSound, workerVars
<1>7. ASSUME NEW w \in Worker, TakeTask(w) PROVE Sound'
  <2>1. Head(queue) \in Message /\ queue' \in Seq(Message)
    BY <1>7 DEF TakeTask, Sound, TypeOK
  <2>2. Head(queue).sub \in Subscription \cup {Everyone}
    BY <2>1 DEF Message
  <2>3. TypeOK'
    BY <1>7, <2>1 DEF TakeTask, Sound, TypeOK
  <2>4. TasksAreSound'
    BY <1>7, <2>2 DEF TakeTask, Sound, TypeOK, TasksAreSound
  <2>5. QED
    BY <2>3, <2>4 DEF Sound
<1>8. ASSUME NEW w \in Worker, PollActiveSearches(w) PROVE Sound'
  <2>1. todo' \in [Worker -> SUBSET Subscription]
    BY <1>8 DEF PollActiveSearches, ActiveSubscriptions, Sound, TypeOK
  <2>2. QED
    BY <1>8, <2>1 DEF PollActiveSearches, Sound, TypeOK, TasksAreSound
<1>9. ASSUME NEW w \in Worker, QueueOne(w) PROVE Sound'
  <2>1. CASE Done(w) /\ UNCHANGED queue
    BY <1>9, <2>1, DoneSound DEF QueueOne, Sound, TypeOK
  <2>2. ASSUME NEW s \in todo[w], queue' = Append(queue, Poll(s)),
               todo' = [todo EXCEPT ![w] = @ \ {s}], UNCHANGED <<pc, task, copy>>
        PROVE  Sound'
    <3>1. s \in Subscription
      BY DEF Sound, TypeOK
    <3>2. queue' \in Seq(Message)
      BY <2>2, <3>1, MessageTypes DEF Sound, TypeOK
    <3>3. QED
      BY <1>9, <2>2, <3>2 DEF QueueOne, Sound, TypeOK, TasksAreSound
  <2>3. QED
    BY <1>9, <2>1, <2>2 DEF QueueOne
<1>10. ASSUME NEW w \in Worker, LoadSubscription(w) PROVE Sound'
  <2>1. task[w].sub \in Subscription
    BY <1>10 DEF LoadSubscription, Sound, TasksAreSound
  <2>2. CASE Done(w)
    BY <1>10, <2>2, DoneSound DEF LoadSubscription, Sound, TypeOK
  <2>3. CASE ~Done(w)
    <3>1. /\ status[task[w].sub] = "active"
          /\ copy' = [copy EXCEPT ![w] = status[task[w].sub]]
          /\ pc' = [pc EXCEPT ![w] = IF WindowIsOver(task[w].sub) THEN "expire" ELSE "poll"]
          /\ UNCHANGED <<task, todo>>
      BY <1>10, <2>3, Zenon DEF LoadSubscription, MayRun
    <3>2. TypeOK'
      BY <1>10, <3>1, StatusTypes DEF LoadSubscription, Sound, TypeOK
    <3>3. TasksAreSound'
      BY <2>1, <3>1 DEF Sound, TypeOK, TasksAreSound
    <3>4. QED
      BY <3>2, <3>3 DEF Sound
  <2>4. QED
    BY <2>2, <2>3
<1>11. ASSUME NEW w \in Worker, PollProviders(w) PROVE Sound'
  BY <1>11 DEF PollProviders, Sound, TypeOK, TasksAreSound
<1>12. ASSUME NEW w \in Worker, ExpireSubscription(w) PROVE Sound'
  BY <1>12, SaveSound, StatusTypes DEF ExpireSubscription
<1>13. ASSUME NEW w \in Worker, FinishRun(w) PROVE Sound'
  BY <1>13, SaveSound DEF FinishRun, Sound, TypeOK
<1>14. ASSUME NEW w \in Worker, Raise(w) \/ Crash(w) PROVE Sound'
  <2>1. task[w] \in Message
    BY DEF Sound, TypeOK
  <2>2. queue' \in Seq(Message)
    BY <1>14, <2>1, RetriedType DEF Raise, Crash, Sound, TypeOK
  <2>3. faults' \in 0 .. MaxFaults
    BY <1>14, ConstantsAssumption DEF ConstantsAssumption, Raise, Crash, Sound, TypeOK
  <2>4. Done(w) /\ UNCHANGED <<today, status, dateTo, form>>
    BY <1>14 DEF Raise, Crash
  <2>5. QED
    BY <2>2, <2>3, <2>4, DoneSound DEF Sound, TypeOK
<1>15. ASSUME UNCHANGED vars PROVE Sound'
  BY <1>15 DEF vars, workerVars, Sound, TypeOK, TasksAreSound
<1>16. ASSUME NEW w \in Worker, WorkerStep(w) PROVE Sound'
  BY <1>7, <1>8, <1>9, <1>10, <1>11, <1>12, <1>13, <1>16, Zenon DEF WorkerStep
<1>17. QED
  BY <1>1, <1>2, <1>3, <1>4, <1>5, <1>6, <1>14, <1>15, <1>16, <1>18, Zenon DEF Next

(* Tasks keep naming stored rows, queues keep holding messages with no more *)
(* retries than allowed, through every retry, crash and stale save.         *)
THEOREM TypeCorrect == Spec => []TypeOK
<1>1. Init => Sound
  BY SoundInit
<1>2. Sound /\ [Next]_vars => Sound'
  BY SoundStep
<1>3. Sound => TypeOK
  BY DEF Sound
<1>4. QED
  BY <1>1, <1>2, <1>3, PTL DEF Spec

-----------------------------------------------------------------------------
(* What a step may write to the status column.                              *)
LEMMA StatusWrites ==
    ASSUME Sound, [Next]_vars, NEW s \in Subscription, status'[s] # status[s]
    PROVE  \/ status[s] = "absent"
           \/ status[s] \in Stored /\ status'[s] \in {"cancelled", "deleted"}
           \/ \E a \in Admin, st \in Stored, d \in Day : AdminSave(a, s, st, d)
           \/ status[s] # "deleted" /\ \E w \in Worker : Running(w, s)
<1> USE DEF Sound, TypeOK
<1>1. ASSUME NEW w \in Worker, NEW st \in Status, SaveStatus(w, st), copy[w] = "active"
      PROVE  status[s] # "deleted" /\ Running(w, s)
  <2>1. status' = Saved(task[w].sub, st)
    BY <1>1 DEF SaveStatus
  <2>2. QED
    BY <1>1, <2>1 DEF Saved, Running
<1>2. ASSUME NEW w \in Worker, WorkerStep(w) \/ Raise(w) \/ Crash(w)
      PROVE  status[s] # "deleted" /\ Running(w, s)
  <2>1. CASE ExpireSubscription(w)
    BY <2>1, <1>1, StatusTypes DEF ExpireSubscription, TasksAreSound
  <2>2. CASE FinishRun(w)
    BY <2>2, <1>1 DEF FinishRun, TasksAreSound
  <2>3. status' = status \/ ExpireSubscription(w) \/ FinishRun(w)
    BY <1>2 DEF WorkerStep, TakeTask, PollActiveSearches, QueueOne, LoadSubscription,
                PollProviders, Raise, Crash
  <2>4. QED
    BY <2>1, <2>2, <2>3
<1>3. ASSUME NEW r \in Subscription, NEW d \in Day, CreateSubscription(r, d)
      PROVE  status[s] = "absent"
  BY <1>3 DEF CreateSubscription
<1>4. ASSUME NEW r \in Subscription, CancelSubscription(r) \/ DeleteSubscription(r)
      PROVE  status[s] \in Stored /\ status'[s] \in {"cancelled", "deleted"}
  BY <1>4 DEF CancelSubscription, DeleteSubscription
<1>5. ASSUME NEW r \in Subscription, NEW a \in Admin, NEW st \in Stored, NEW d \in Day,
             AdminSave(a, r, st, d)
      PROVE  AdminSave(a, s, st, d)
  <2>1. r = s
    BY <1>5 DEF AdminSave
  <2>2. QED
    BY <1>5, <2>1
<1>6. \A r \in Subscription : ~CheckSubscriptionNow(r) /\ \A a \in Admin : ~AdminOpen(a, r)
  BY DEF AdminOpen, CheckSubscriptionNow
<1>7. ~NextDay /\ ~Beat /\ ~UNCHANGED vars
  BY DEF NextDay, Beat, vars
<1>8. CASE \E r \in Subscription :
            \/ \E d \in Day : CreateSubscription(r, d)
            \/ CheckSubscriptionNow(r)
            \/ CancelSubscription(r)
            \/ DeleteSubscription(r)
            \/ \E a \in Admin : AdminOpen(a, r)
            \/ \E a \in Admin, st \in Stored, d \in Day : AdminSave(a, r, st, d)
  <2>1. PICK r \in Subscription :
            \/ \E d \in Day : CreateSubscription(r, d)
            \/ CheckSubscriptionNow(r)
            \/ CancelSubscription(r)
            \/ DeleteSubscription(r)
            \/ \E a \in Admin : AdminOpen(a, r)
            \/ \E a \in Admin, st \in Stored, d \in Day : AdminSave(a, r, st, d)
    BY <1>8, Zenon
  <2>2. QED
    BY <2>1, <1>3, <1>4, <1>5, <1>6, Zenon
<1>9. CASE \E w \in Worker : WorkerStep(w) \/ Raise(w) \/ Crash(w)
  BY <1>2, <1>9, Zenon
<1>10. Next
  BY <1>7
<1>11. QED
  BY <1>7, <1>8, <1>9, <1>10, Zenon DEF Next

(* No late save of a run brings a deleted row back, for any number of       *)
(* workers, retries and faults.                                             *)
THEOREM DeletedStays == Spec => DeletedStaysDeleted
<1>1. ASSUME Sound, [Next]_vars, NEW s \in Subscription, status[s] = "deleted"
      PROVE  status'[s] = "deleted"
  <2>1. \A a \in Admin, st \in Stored, d \in Day : ~AdminSave(a, s, st, d)
    BY <1>1 DEF AdminSave, Stored
  <2>2. "deleted" \notin Stored /\ "deleted" # "absent"
    BY DEF Stored
  <2>3. QED
    BY <1>1, <2>1, <2>2, StatusWrites, Zenon
<1>2. Sound /\ [Next]_vars =>
         [\A s \in Subscription : status[s] = "deleted" => status'[s] = "deleted"]_vars
  BY <1>1, Zenon
<1>3. Init => Sound
  BY SoundInit
<1>4. QED
  BY <1>2, <1>3, SoundStep, PTL DEF Spec, DeletedStaysDeleted

(* Only a run that loaded the subscription before it was stopped, a form an *)
(* administrator opened before, and an administrator who means to, can      *)
(* touch a stopped subscription, except for cancelling or deleting it:      *)
(* messages in the queue, retries and fan-outs in progress are harmless.    *)
THEOREM StoppedStays == Spec => StoppedStaysStopped
<1>1. ASSUME Sound, [Next]_vars, NEW s \in Subscription,
             status[s] \in {"cancelled", "expired"},
             \A w \in Worker : ~Running(w, s),
             \A a \in Admin : ~Outdated(a, s) /\ ~Decides(a, s)
      PROVE  status'[s] \in {status[s], "cancelled", "deleted"}
  <2>1. status[s] # "absent"
    BY <1>1
  <2>2. ASSUME NEW a \in Admin, NEW st \in Stored, NEW d \in Day, AdminSave(a, s, st, d)
        PROVE  status'[s] \in {status[s], "cancelled"}
    <3>1. st = form[a][s]
      BY <1>1, <2>2 DEF Decides
    <3>2. form[a][s] \in {status[s], "cancelled"}
      BY <1>1, <2>2 DEF AdminSave, Outdated
    <3>3. status'[s] = st
      BY <1>1, <2>2 DEF AdminSave, Sound, TypeOK
    <3>4. QED
      BY <3>1, <3>2, <3>3
  <2>3. \/ status'[s] = status[s]
        \/ status'[s] \in {"cancelled", "deleted"}
    BY <1>1, <2>1, <2>2, StatusWrites, Zenon
  <2>4. QED
    BY <2>3
<1>2. Sound /\ [Next]_vars =>
         [\A s \in Subscription :
             /\ status[s] \in {"cancelled", "expired"}
             /\ \A w \in Worker : ~Running(w, s)
             /\ \A a \in Admin : ~Outdated(a, s) /\ ~Decides(a, s)
             => status'[s] \in {status[s], "cancelled", "deleted"}]_vars
  BY <1>1, Zenon
<1>3. Init => Sound
  BY SoundInit
<1>4. QED
  BY <1>2, <1>3, SoundStep, PTL DEF Spec, StoppedStaysStopped

-----------------------------------------------------------------------------
(* The polling loop. *)

(* Every step of the system is a step of SubscriptionLifecycle or leaves its *)
(* variables alone: skipping, claiming, searching and failing are invisible, *)
(* and the end of the loop is its PollProviders.                             *)
THEOREM SystemImplementsLifecycle == SystemSpec => Spec
<1>1. SystemInit => Init
  BY DEF SystemInit
<1>2. ASSUME [SystemNext]_systemVars PROVE [Next]_vars
  <2>1. CASE UNCHANGED systemVars
    BY <2>1 DEF systemVars
  <2>2. ASSUME NEW s \in Subscription, UserStep(s) PROVE Next
    BY <2>2 DEF UserStep, Next
  <2>3. ASSUME NEW w \in Worker, RunStep(w) PROVE [Next]_vars
    <3>1. CASE LoadProviders(w) \/ SkipProvider(w) \/ ClaimSlot(w) \/ SearchReturns(w)
               \/ SearchRaises(w)
      BY <3>1 DEF LoadProviders, SkipProvider, ClaimSlot, SearchReturns, SearchRaises
    <3>2. CASE EndLoop(w)
      BY <3>2 DEF EndLoop, Next, WorkerStep
    <3>3. CASE \/ TakeTask(w) \/ PollActiveSearches(w) \/ QueueOne(w)
               \/ LoadSubscription(w) \/ ExpireSubscription(w) \/ FinishRun(w)
      BY <3>3 DEF Next, WorkerStep
    <3>4. QED
      BY <2>3, <3>1, <3>2, <3>3 DEF RunStep
  <2>4. ASSUME NEW p \in Provider, IntervalEnds(p) \/ CooldownEnds(p) PROVE UNCHANGED vars
    BY <2>4 DEF IntervalEnds, CooldownEnds
  <2>8. ASSUME NEW w \in Worker, CopyExpires(w) PROVE UNCHANGED vars
    BY <2>8 DEF CopyExpires
  <2>5. CASE NextDay \/ Beat
    BY <2>5 DEF Next
  <2>6. ASSUME NEW w \in Worker, Raise(w) \/ Crash(w) PROVE Next
    BY <2>6 DEF Next
  <2>7. QED
    BY <1>2, <2>1, <2>2, <2>3, <2>4, <2>5, <2>6, <2>8 DEF SystemNext
<1>3. QED
  BY <1>1, <1>2, PTL DEF SystemSpec, Spec

(* The stop and the deletion of a subscription hold against everything the   *)
(* loop over the providers does, for any providers, workers and retries.     *)
THEOREM SystemKeepsStops == SystemSpec => StoppedStaysStopped /\ DeletedStaysDeleted
  BY SystemImplementsLifecycle, StoppedStays, DeletedStays, PTL

(* A step of SubscriptionLifecycle that leaves the loop alone: it moves no   *)
(* worker away from "poll".                                                  *)
LifecycleStep ==
    \/ NextDay \/ Beat
    \/ \E s \in Subscription :
          \/ \E d \in Day : CreateSubscription(s, d)
          \/ CheckSubscriptionNow(s)
          \/ CancelSubscription(s)
          \/ DeleteSubscription(s)
    \/ \E w \in Worker :
          \/ TakeTask(w) \/ PollActiveSearches(w) \/ QueueOne(w)
          \/ LoadSubscription(w) \/ ExpireSubscription(w) \/ FinishRun(w)

(* A worker that polls goes on polling whatever the others do. *)
LEMMA PollsStay ==
    ASSUME TypeOK, LifecycleStep, NEW v \in Worker, pc[v] = "poll"
    PROVE  pc'[v] = "poll"
<1>0. pc \in [Worker -> {"idle", "select", "fanout", "load", "expire", "poll", "save"}]
  BY DEF TypeOK
<1>1. CASE NextDay \/ Beat
  BY <1>1 DEF NextDay, Beat, workerVars
<1>2. ASSUME NEW s \in Subscription,
             \/ \E d \in Day : CreateSubscription(s, d)
             \/ CheckSubscriptionNow(s) \/ CancelSubscription(s) \/ DeleteSubscription(s)
      PROVE  pc'[v] = "poll"
  BY <1>2 DEF CreateSubscription, CheckSubscriptionNow, CancelSubscription,
              DeleteSubscription, workerVars
<1>3. ASSUME NEW w \in Worker, TakeTask(w) PROVE pc'[v] = "poll"
  BY <1>0, <1>3 DEF TakeTask
<1>4. ASSUME NEW w \in Worker, PollActiveSearches(w) \/ QueueOne(w) PROVE pc'[v] = "poll"
  BY <1>0, <1>4 DEF PollActiveSearches, QueueOne, Done
<1>5. ASSUME NEW w \in Worker, LoadSubscription(w) PROVE pc'[v] = "poll"
  BY <1>0, <1>5 DEF LoadSubscription, Done
<1>6. ASSUME NEW w \in Worker, ExpireSubscription(w) \/ FinishRun(w) PROVE pc'[v] = "poll"
  BY <1>0, <1>6 DEF ExpireSubscription, FinishRun, SaveStatus, Done
<1>7. QED
  BY <1>1, <1>2, <1>3, <1>4, <1>5, <1>6 DEF LifecycleStep

(* The providers left of a sequence of providers. *)
LEMMA SequenceTail ==
    ASSUME NEW S, NEW q \in Seq(S), q # << >>
    PROVE  Tail(q) \in Seq(S) /\ Head(q) \in S
  OBVIOUS

(* What a worker does to its own place in the loop. *)
LEMMA LoopStepSound ==
    ASSUME LoopTypeOK, TypeOK, NEW w \in Worker,
           \/ LoadProviders(w) \/ SkipProvider(w) \/ ClaimSlot(w) \/ SearchReturns(w)
           \/ SearchRaises(w) \/ CopyExpires(w)
    PROVE  LoopTypeOK'
<1>0. UNCHANGED pc
  BY DEF LoadProviders, SkipProvider, ClaimSlot, SearchReturns, SearchRaises, CopyExpires,
         vars, workerVars
<1>5. seen' \in [Worker -> SUBSET (Provider \cup {NoProvider})]
  BY DEF LoopTypeOK, LoadProviders, SkipProvider, ClaimSlot, SearchReturns, SearchRaises,
         CopyExpires, NextTurn, AfterFailure
<1>1. CASE SkipProvider(w)
  <2>1. Tail(turn[w]) \in Seq(Provider)
    BY <1>1, SequenceTail DEF SkipProvider, AtProvider, LoopTypeOK
  <2>2. QED
    BY <1>0, <1>1, <1>5, <2>1, RotationAssumption
       DEF SkipProvider, AtProvider, NextTurn, LoopTypeOK, gateVars
<1>2. CASE ClaimSlot(w)
  <2>1. Current(w) \in Provider
    BY <1>2, SequenceTail DEF ClaimSlot, AtProvider, Current, LoopTypeOK
  <2>2. QED
    BY <1>0, <1>2, <1>5, <2>1 DEF ClaimSlot, AtProvider, Current, SlotOf, LoopTypeOK
<1>3. CASE SearchReturns(w) \/ SearchRaises(w)
  <2>1. Tail(turn[w]) \in Seq(Provider)
    BY <1>3, SequenceTail DEF SearchReturns, SearchRaises, LoopTypeOK
  <2>2. calling[w] \in Provider
    BY <1>3 DEF SearchReturns, SearchRaises, LoopTypeOK
  <2>3. QED
    BY <1>0, <1>3, <1>5, <2>1, <2>2
       DEF SearchReturns, SearchRaises, AfterFailure, NextTurn, LoopTypeOK
<1>4. CASE LoadProviders(w) \/ CopyExpires(w)
  BY <1>0, <1>4, <1>5 DEF LoadProviders, CopyExpires, LoopTypeOK, gateVars
<1>6. QED
  BY <1>1, <1>2, <1>3, <1>4

(* At the end of its loop, or when it raises or dies, a worker starts anew. *)
LEMMA ResetSound ==
    ASSUME LoopTypeOK, TypeOK, NEW w \in Worker, Reset(w), UNCHANGED gateVars,
           \A v \in Worker \ {w} : pc'[v] = pc[v]
    PROVE  LoopTypeOK'
<1>1. /\ turn' \in [Worker -> Seq(Provider)] /\ calling' \in [Worker -> Provider \cup {NoProvider}]
      /\ seen' \in [Worker -> SUBSET (Provider \cup {NoProvider})]
  BY RotationAssumption DEF Reset, LoopTypeOK, NoCopies
<1>2. ASSUME NEW v \in Worker, calling'[v] # NoProvider
      PROVE  pc'[v] = "poll" /\ turn'[v] # << >> /\ calling'[v] = Head(turn'[v])
  BY <1>2 DEF Reset, LoopTypeOK
<1>3. QED
  BY <1>1, <1>2 DEF LoopTypeOK, gateVars

(* Every step of the composed system keeps the types of its loop. *)
LEMMA SystemStepSound ==
    ASSUME LoopTypeOK, TypeOK, [SystemNext]_systemVars
    PROVE  LoopTypeOK'
<1>1. CASE LifecycleStep /\ UNCHANGED <<loopVars, gateVars>>
  BY <1>1, PollsStay DEF LoopTypeOK, loopVars, gateVars
<1>2. ASSUME NEW w \in Worker,
             \/ LoadProviders(w) \/ SkipProvider(w) \/ ClaimSlot(w) \/ SearchReturns(w)
             \/ SearchRaises(w) \/ CopyExpires(w)
      PROVE  LoopTypeOK'
  BY <1>2, LoopStepSound
<1>3. ASSUME NEW w \in Worker, EndLoop(w) PROVE LoopTypeOK'
  <2>1. \A v \in Worker \ {w} : pc'[v] = pc[v]
    BY <1>3 DEF EndLoop, PollProviders, TypeOK
  <2>2. QED
    BY <1>3, <2>1, ResetSound DEF EndLoop
<1>4. ASSUME NEW w \in Worker, Raise(w) \/ Crash(w), Reset(w), UNCHANGED gateVars
      PROVE  LoopTypeOK'
  <2>1. \A v \in Worker \ {w} : pc'[v] = pc[v]
    BY <1>4 DEF Raise, Crash, Done, TypeOK
  <2>2. QED
    BY <1>4, <2>1, ResetSound
<1>5. ASSUME NEW p \in Provider, IntervalEnds(p) \/ CooldownEnds(p) PROVE LoopTypeOK'
  BY <1>5 DEF IntervalEnds, CooldownEnds, LoopTypeOK, vars, workerVars, loopVars
<1>6. CASE UNCHANGED systemVars
  BY <1>6 DEF LoopTypeOK, systemVars, vars, workerVars, loopVars, gateVars
<1>7. ASSUME NEW s \in Subscription, UserStep(s)
      PROVE  LifecycleStep /\ UNCHANGED <<loopVars, gateVars>>
  BY <1>7 DEF UserStep, LifecycleStep
<1>8. ASSUME NEW w \in Worker, RunStep(w) PROVE LoopTypeOK'
  <2>1. CASE /\ \/ TakeTask(w) \/ PollActiveSearches(w) \/ QueueOne(w)
                \/ LoadSubscription(w) \/ ExpireSubscription(w) \/ FinishRun(w)
             /\ UNCHANGED <<loopVars, gateVars>>
    BY <1>1, <2>1 DEF LifecycleStep
  <2>2. QED
    BY <1>2, <1>3, <1>8, <2>1 DEF RunStep
<1>9. CASE (NextDay \/ Beat) /\ UNCHANGED <<loopVars, gateVars>>
  BY <1>1, <1>9 DEF LifecycleStep
<1>10. QED
  BY <1>1, <1>2, <1>4, <1>5, <1>6, <1>7, <1>8, <1>9 DEF SystemNext

(* A run never loses its place: whatever raises or dies, and whoever else    *)
(* runs, it calls the provider whose turn it is, and only slots of throttled *)
(* providers are ever taken.                                                 *)
THEOREM LoopTypeCorrect == SystemSpec => []LoopTypeOK
<1>1. SystemInit => LoopTypeOK
  BY RotationAssumption DEF SystemInit, LoopTypeOK, NoCopies
<1>2. TypeOK /\ LoopTypeOK /\ [SystemNext]_systemVars => LoopTypeOK'
  BY SystemStepSound
<1>3. QED
  BY <1>1, <1>2, SystemImplementsLifecycle, TypeCorrect, PTL DEF SystemSpec
=============================================================================
