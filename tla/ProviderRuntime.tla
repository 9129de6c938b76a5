--------------------------- MODULE ProviderRuntime ---------------------------
(***************************************************************************)
(* The runtime state of the airline providers (the AirlineProvider rows)   *)
(* and everything that writes it: Celery workers that poll a subscription, *)
(* dashboard requests that render the provider statuses, the admin change  *)
(* form and the provider sync command.                                     *)
(*                                                                         *)
(* A worker loads every active provider at the start of its run and goes   *)
(* through the list with those in-memory copies, so between the load and a *)
(* save other processes may have changed the row.  Each read and each      *)
(* UPDATE of the database is one action; what is decided between them is   *)
(* decided on the copy, as in the code.                                    *)
(***************************************************************************)
EXTENDS Integers, FiniteSets

CONSTANTS
    Provider,          \* the AirlineProvider rows
    Rank,              \* their order by name
    Worker,            \* Celery worker processes
    Viewer,            \* web requests that render the provider statuses
    Admin,             \* administrators with the provider change form
    WizzAir,           \* providers whose rate-limit answer has its own cooldown
    MinPollInterval,   \* config min_poll_interval_seconds, 0 when missing
    Cooldown,          \* config cooldown_minutes
    RateLimitCooldown, \* config rate_limit_cooldown_minutes
    TypedTime,         \* times an administrator may type, Null for an emptied field
    TypedCount,        \* failure counts an administrator may type
    MaxTime,           \* bound on the clock
    MaxActs            \* bound on the runs started, forms posted and saves refused

Null == -1             \* a NULL timestamp: it is later than no clock value

ASSUME ConstantsAssumption ==
    /\ Rank \in [Provider -> Nat]
    /\ \A p, q \in Provider : Rank[p] = Rank[q] => p = q
    /\ WizzAir \subseteq Provider
    /\ MinPollInterval \in [Provider -> Nat]
    /\ Cooldown \in [Provider -> Nat]
    /\ RateLimitCooldown \in [Provider -> Nat]
    /\ TypedTime \subseteq Nat \cup {Null} /\ TypedCount \subseteq Nat
    /\ Worker \cap Viewer = {} /\ Admin \cap (Worker \cup Viewer) = {}
    /\ MaxTime \in Nat /\ MaxActs \in Nat

VARIABLES
    now,      \* timezone.now()
    db,       \* the AirlineProvider table
    pc,       \* where each worker is in run_subscription's provider loop
    force,    \* the force argument of the worker's run
    pending,  \* providers of the loaded list the worker has still to handle
    mem,      \* the worker's copies of the rows
    stamp,    \* `now` as captured by claim_provider_poll_slot
    expired,  \* ids a dashboard request has found expired
    form,     \* rows an admin change form was rendered from
    acts,     \* number of runs started, forms posted and success saves refused
    lastGrant,\* history: stamp of the last slot the throttle granted, Null once
              \* last_polled_at has been set back behind it
    entered,  \* history: cooldowns administrators have typed
    streak,   \* history: failures recorded since the last recorded success, Null
              \* once a form or an overtaken worker has written the counter
    overtaken \* history: providers whose failure fields were written (by a poll
              \* or a form) after this process had read them

workerVars == <<pc, force, pending, mem, stamp>>
history == <<lastGrant, entered, streak, overtaken>>
vars == <<now, db, workerVars, expired, form, acts, history>>

Exception == {"error", "rateLimit"}
Message == {"none", "text"}    \* an empty last_error_message, and any other
Time == Nat \cup {Null}
Copy == [cooldownUntil : Time, failures : Nat, lastPolledAt : Time]
Row == [isActive : BOOLEAN, cooldownUntil : Time, lastPolledAt : Time,
        failures : Nat, error : Message]

NewRow == [isActive |-> TRUE, cooldownUntil |-> Null, lastPolledAt |-> Null,
           failures |-> 0, error |-> "none"]
NoCopy == [cooldownUntil |-> Null, failures |-> 0, lastPolledAt |-> Null]
CopyOf(r) == [cooldownUntil |-> r.cooldownUntil, failures |-> r.failures,
              lastPolledAt |-> r.lastPolledAt]

Init ==
    /\ now = 0
    /\ db = [p \in Provider |-> NewRow]
    /\ pc = [w \in Worker |-> "idle"]
    /\ force = [w \in Worker |-> FALSE]
    /\ pending = [w \in Worker |-> {}]
    /\ mem = [w \in Worker |-> [p \in Provider |-> NoCopy]]
    /\ stamp = [w \in Worker |-> Null]
    /\ expired = [v \in Viewer |-> {}]
    /\ form = [a \in Admin |-> [p \in Provider |-> NewRow]]
    /\ acts = 0
    /\ lastGrant = [p \in Provider |-> Null]
    /\ entered = [p \in Provider |-> {}]
    /\ overtaken = [x \in Worker \cup Viewer |-> {}]
    /\ streak = [p \in Provider |-> 0]

(* A cooldown that still lasts, in a row or in a copy of it. *)
Live(r) == r.cooldownUntil > now

(* The processes that go by what they have read of p's row.                *)
Readers(p) == {w \in Worker : p \in pending[w]} \cup {v \in Viewer : p \in expired[v]}

(* Process x is done with p, having written its failure fields or not.     *)
PutDown(x, p) == overtaken' = [overtaken EXCEPT ![x] = @ \ {p}]
Overtake(x, p) ==
    overtaken' = [y \in Worker \cup Viewer |->
        IF y = x THEN overtaken[y] \ {p}
        ELSE IF y \in Readers(p) THEN overtaken[y] \cup {p} ELSE overtaken[y]]

Tick ==
    /\ now < MaxTime
    /\ now' = now + 1
    /\ UNCHANGED <<db, workerVars, expired, form, acts, history>>

-----------------------------------------------------------------------------
(* The provider loop of SearchPollingService.run_subscription. *)

StartRun(w, f) ==
    /\ pc[w] = "idle" /\ acts < MaxActs
    /\ \E p \in Provider : db[p].isActive
    /\ acts' = acts + 1
    /\ force' = [force EXCEPT ![w] = f]
    /\ pending' = [pending EXCEPT ![w] = {p \in Provider : db[p].isActive}]
    /\ mem' = [mem EXCEPT ![w] =
                 [p \in Provider |-> IF db[p].isActive THEN CopyOf(db[p]) ELSE NoCopy]]
    /\ pc' = [pc EXCEPT ![w] = "check"]
    /\ UNCHANGED <<now, db, stamp, expired, form, history>>

IsNext(w, p) ==
    p \in pending[w] /\ \A q \in pending[w] : Rank[p] <= Rank[q]

(* The rest of the loop's state once provider p is done with. *)
NextProvider(w, p) ==
    /\ pending' = [pending EXCEPT ![w] = @ \ {p}]
    /\ mem' = [mem EXCEPT ![w][p] = NoCopy]
    /\ stamp' = [stamp EXCEPT ![w] = Null]
    /\ pc' = [pc EXCEPT ![w] = IF pending[w] = {p} THEN "idle" ELSE "check"]
    /\ force' = [force EXCEPT ![w] = pending[w] # {p} /\ @]

ProviderIsInCooldown(w, p) == Live(mem[w][p])

SkipInCooldown(w, p) ==
    /\ pc[w] = "check" /\ IsNext(w, p)
    /\ ~force[w] /\ ProviderIsInCooldown(w, p)
    /\ NextProvider(w, p) /\ PutDown(w, p)
    /\ UNCHANGED <<now, db, expired, form, acts, lastGrant, entered, streak>>

(* Faulty variant: the cooldown is not looked at. *)
ClaimWithoutCheck(w, p) ==
    /\ pc[w] = "check" /\ IsNext(w, p)
    /\ pc' = [pc EXCEPT ![w] = "claim"]
    /\ UNCHANGED <<now, db, force, pending, mem, stamp, expired, form, acts, history>>

(* Not in cooldown, or forced: an expired cooldown of the copy is cleared  *)
(* in the row, and claim_provider_poll_slot takes the time.                *)
NormalizeCooldown(w, p) ==
    /\ pc[w] = "check" /\ IsNext(w, p)
    /\ ~force[w] => ~ProviderIsInCooldown(w, p)
    /\ IF ~force[w] /\ mem[w][p].cooldownUntil # Null
       THEN /\ db' = [db EXCEPT ![p].cooldownUntil = Null]
            /\ mem' = [mem EXCEPT ![w][p].cooldownUntil = Null]
       ELSE UNCHANGED <<db, mem>>
    /\ pc' = [pc EXCEPT ![w] = "claim"]
    /\ UNCHANGED <<now, force, pending, stamp, expired, form, acts, history>>

CaptureNow(w) ==
    /\ pc[w] = "claim" /\ stamp[w] = Null
    /\ stamp' = [stamp EXCEPT ![w] = now]
    /\ UNCHANGED <<now, db, pc, force, pending, mem, expired, form, acts, history>>

(* Faulty variant: the interval is compared with the loaded copy. *)
SlotIsFreeInCopy(w, p) ==
    \/ mem[w][p].lastPolledAt = Null
    \/ mem[w][p].lastPolledAt <= stamp[w] - MinPollInterval[p]

(* The condition of the UPDATE, evaluated on the row. *)
SlotIsFree(w, p) ==
    \/ db[p].lastPolledAt = Null
    \/ db[p].lastPolledAt <= stamp[w] - MinPollInterval[p]

(* A forced claim, or one without an interval, saves its time without a     *)
(* condition, and the time may be older than the row's.                     *)
SetBack(p, t) == IF t < lastGrant[p] THEN Null ELSE lastGrant[p]
GrantAfterClaim(w, p) ==
    IF force[w] \/ MinPollInterval[p] = 0 THEN SetBack(p, stamp[w]) ELSE stamp[w]

(* Faulty variant: a save of the whole copy. *)
ClaimedWhole(r, c, t) ==
    [r EXCEPT !.lastPolledAt = t, !.cooldownUntil = c.cooldownUntil, !.failures = c.failures]

(* update_fields and the UPDATE name the time alone. *)
Claimed(r, c, t) == [r EXCEPT !.lastPolledAt = t]

ClaimProviderPollSlot(w, p) ==
    /\ pc[w] = "claim" /\ stamp[w] # Null /\ IsNext(w, p)
    /\ IF force[w] \/ MinPollInterval[p] = 0 \/ SlotIsFree(w, p)
       THEN /\ db' = [db EXCEPT ![p] = Claimed(@, mem[w][p], stamp[w])]
            /\ lastGrant' = [lastGrant EXCEPT ![p] = GrantAfterClaim(w, p)]
            /\ mem' = [mem EXCEPT ![w][p].lastPolledAt = stamp[w]]
            /\ stamp' = [stamp EXCEPT ![w] = Null]
            /\ pc' = [pc EXCEPT ![w] = "search"]
            /\ UNCHANGED <<force, pending, overtaken>>
       ELSE NextProvider(w, p) /\ PutDown(w, p) /\ UNCHANGED <<db, lastGrant>>
    /\ UNCHANGED <<now, expired, form, acts, entered, streak>>

(* Faulty variant: a success that leaves the counter as it is. *)
SuccessKeepsFailures(r) == [r EXCEPT !.error = "none", !.cooldownUntil = Null]

SuccessRow(r) == [r EXCEPT !.error = "none", !.failures = 0, !.cooldownUntil = Null]

MarkProviderSuccess(w, p) ==
    /\ pc[w] = "search" /\ IsNext(w, p)
    /\ db' = [db EXCEPT ![p] = SuccessRow(@)]
    /\ streak' = [streak EXCEPT ![p] = 0]
    /\ NextProvider(w, p) /\ Overtake(w, p)
    /\ UNCHANGED <<now, expired, form, acts, lastGrant, entered>>

(* The copy is reset before the save is tried, and the save is inside the  *)
(* try block of the search: the handler then marks a failure.              *)
SuccessSaveFails(w, p) ==
    /\ pc[w] = "search" /\ IsNext(w, p) /\ acts < MaxActs
    /\ acts' = acts + 1
    /\ mem' = [mem EXCEPT ![w][p].failures = 0, ![w][p].cooldownUntil = Null]
    /\ pc' = [pc EXCEPT ![w] = "failed"]
    /\ UNCHANGED <<now, db, force, pending, stamp, expired, form, history>>

CooldownMinutes(p, exc) ==
    IF p \in WizzAir /\ exc = "rateLimit" THEN RateLimitCooldown[p] ELSE Cooldown[p]

(* Faulty variants: each failure extends the window, starts a new one, or   *)
(* drops a window that still lasts.                                        *)
ExtendedWindow(c, p, exc) ==
    IF Live(c) THEN c.cooldownUntil + CooldownMinutes(p, exc)
    ELSE now + CooldownMinutes(p, exc)
RestartedWindow(c, p, exc) == now + CooldownMinutes(p, exc)
DroppedWindow(c, p, exc) ==
    IF CooldownMinutes(p, exc) # 0 /\ ~Live(c) THEN now + CooldownMinutes(p, exc) ELSE Null

(* The cooldown a failure leaves: a window of the copy is kept while it lasts. *)
FailureWindow(c, p, exc) ==
    IF CooldownMinutes(p, exc) # 0 /\ ~Live(c)
    THEN now + CooldownMinutes(p, exc)
    ELSE c.cooldownUntil

(* Faulty variant: the counter runs the wrong way. *)
FailureCountsDown(r, c, p, exc, message) ==
    [r EXCEPT !.error = message, !.failures = c.failures - 1,
              !.cooldownUntil = FailureWindow(c, p, exc)]

FailureRow(r, c, p, exc, message) ==
    [r EXCEPT !.error = message, !.failures = c.failures + 1,
              !.cooldownUntil = FailureWindow(c, p, exc)]

(* After a success that was not saved this is the first failure again.      *)
StreakAfterFailure(w, p) ==
    IF p \in overtaken[w] THEN Null
    ELSE IF pc[w] = "failed" THEN 1
    ELSE IF streak[p] = Null THEN Null ELSE streak[p] + 1

(* str(exc) may be empty, so a failure may leave an empty message. *)
MarkProviderFailure(w, p, exc, message) ==
    /\ IsNext(w, p)
    /\ pc[w] = "search" \/ (pc[w] = "failed" /\ exc = "error")
    /\ db' = [db EXCEPT ![p] = FailureRow(@, mem[w][p], p, exc, message)]
    /\ streak' = [streak EXCEPT ![p] = StreakAfterFailure(w, p)]
    /\ NextProvider(w, p) /\ Overtake(w, p)
    /\ UNCHANGED <<now, expired, form, acts, lastGrant, entered>>

(* The process dies, or an exception leaves the loop: the copies are gone. *)
AbortRun(w) ==
    /\ pc[w] # "idle"
    /\ pc' = [pc EXCEPT ![w] = "idle"]
    /\ force' = [force EXCEPT ![w] = FALSE]
    /\ pending' = [pending EXCEPT ![w] = {}]
    /\ mem' = [mem EXCEPT ![w] = [p \in Provider |-> NoCopy]]
    /\ stamp' = [stamp EXCEPT ![w] = Null]
    /\ overtaken' = [overtaken EXCEPT ![w] = {}]
    /\ UNCHANGED <<now, db, expired, form, acts, lastGrant, entered, streak>>

-----------------------------------------------------------------------------
(* Web processes and commands. *)

(* get_provider_runtime_statuses: the SELECT, then one UPDATE by id. *)
FindExpired(v) ==
    /\ expired[v] = {}
    /\ expired' = [expired EXCEPT ![v] =
          {p \in Provider : /\ db[p].isActive
                            /\ db[p].cooldownUntil # Null
                            /\ ~Live(db[p])}]
    /\ UNCHANGED <<now, db, workerVars, form, acts, history>>

ClearExpired(v) ==
    /\ expired[v] # {}
    /\ db' = [p \in Provider |->
                IF p \in expired[v] THEN [db[p] EXCEPT !.cooldownUntil = Null] ELSE db[p]]
    /\ expired' = [expired EXCEPT ![v] = {}]
    /\ overtaken' = [overtaken EXCEPT ![v] = {}]
    /\ UNCHANGED <<now, workerVars, form, acts, lastGrant, entered, streak>>

AdminOpen(a, p) ==
    /\ form' = [form EXCEPT ![a][p] = db[p]]
    /\ UNCHANGED <<now, db, workerVars, expired, acts, history>>

(* A plain ModelAdmin form: it posts every field of the row back, each as   *)
(* it was rendered or as the administrator has typed it.                    *)
Posted(r) ==
    [isActive : BOOLEAN,
     cooldownUntil : {r.cooldownUntil} \cup TypedTime,
     lastPolledAt : {r.lastPolledAt} \cup TypedTime,
     failures : {r.failures} \cup TypedCount,
     error : Message]

AdminSave(a, p, r) ==
    /\ acts < MaxActs
    /\ acts' = acts + 1
    /\ db' = [db EXCEPT ![p] = r]
    /\ lastGrant' = [lastGrant EXCEPT ![p] = SetBack(p, r.lastPolledAt)]
    /\ entered' = [entered EXCEPT ![p] = @ \cup ({r.cooldownUntil} \ {form[a][p].cooldownUntil})]
    /\ streak' = [streak EXCEPT ![p] = Null]
    /\ Overtake(a, p)
    /\ UNCHANGED <<now, workerVars, expired, form>>

SyncDefaultProviders ==
    /\ db' = [p \in Provider |-> [db[p] EXCEPT !.isActive = TRUE]]
    /\ UNCHANGED <<now, workerVars, expired, form, acts, history>>

WorkerStep(w) ==
    \/ \E f \in BOOLEAN : StartRun(w, f)
    \/ \E p \in Provider : SkipInCooldown(w, p)
    \/ \E p \in Provider : NormalizeCooldown(w, p)
    \/ CaptureNow(w)
    \/ \E p \in Provider : ClaimProviderPollSlot(w, p)
    \/ \E p \in Provider : MarkProviderSuccess(w, p)
    \/ \E p \in Provider : SuccessSaveFails(w, p)
    \/ \E p \in Provider, exc \in Exception, m \in Message :
          MarkProviderFailure(w, p, exc, m)
    \/ AbortRun(w)

Next ==
    \/ Tick
    \/ \E w \in Worker : WorkerStep(w)
    \/ \E v \in Viewer : FindExpired(v) \/ ClearExpired(v)
    \/ \E a \in Admin, p \in Provider :
          AdminOpen(a, p) \/ \E r \in Posted(form[a][p]) : AdminSave(a, p, r)
    \/ SyncDefaultProviders

Spec == Init /\ [][Next]_vars

-----------------------------------------------------------------------------
TypeOK ==
    /\ now \in Nat /\ acts \in Nat
    /\ db \in [Provider -> Row]
    /\ pc \in [Worker -> {"idle", "check", "claim", "search", "failed"}]
    /\ force \in [Worker -> BOOLEAN]
    /\ pending \in [Worker -> SUBSET Provider]
    /\ mem \in [Worker -> [Provider -> Copy]]
    /\ stamp \in [Worker -> Time]
    /\ expired \in [Viewer -> SUBSET Provider]
    /\ form \in [Admin -> [Provider -> Row]]
    /\ lastGrant \in [Provider -> Time] /\ streak \in [Provider -> Time]
    /\ entered \in [Provider -> SUBSET Time]
    /\ overtaken \in [Worker \cup Viewer -> SUBSET Provider]

-----------------------------------------------------------------------------
(* Safety that holds however workers, web requests, commands and forms      *)
(* interleave.                                                              *)

WindowBound(p) ==
    IF RateLimitCooldown[p] > Cooldown[p] THEN RateLimitCooldown[p] ELSE Cooldown[p]

(* No interleaving of failing polls, forced checks, stale saves and posted  *)
(* forms locks a provider out for longer than one configured cooldown from  *)
(* now: mark_provider_failure never lets windows add up, not even on top of *)
(* a longer cooldown that an administrator has typed.                       *)
BoundedLockout ==
    \A p \in Provider :
        \/ db[p].cooldownUntil <= now + WindowBound(p)
        \/ db[p].cooldownUntil \in entered[p]

(* A recorded success wipes the slate: until the next failure is recorded   *)
(* or a form posted, the row has no failures, no cooldown and no error,     *)
(* although runs and requests that had read the row before still go on to   *)
(* claim, normalize and clear it.                                           *)
SuccessLeavesClean ==
    \A p \in Provider : streak[p] = 0 =>
        db[p].failures = 0 /\ db[p].cooldownUntil = Null /\ db[p].error = "none"

(* A worker that is granted the slot of a provider by the throttle.         *)
UnforcedGrant(w, p) ==
    /\ pc[w] = "claim" /\ pc'[w] = "search"
    /\ IsNext(w, p) /\ ~force[w]

(* The throttle of claim_provider_poll_slot: of several workers that claim  *)
(* the slot of a throttled provider, each unforced winner is at least the   *)
(* minimum interval later than the unforced winner before it, whatever it   *)
(* had loaded, and however many forced checks came in between.  Two things  *)
(* open the slot early, and with them the count starts anew: a forced check *)
(* that saves a time it captured before that winner's, and an               *)
(* administrator's form with an earlier last_polled_at.                     *)
SlotSpacing ==
    [][\A w \in Worker, p \in Provider :
          UnforcedGrant(w, p) /\ MinPollInterval[p] > 0 /\ lastGrant[p] # Null
             => stamp[w] >= lastGrant[p] + MinPollInterval[p]]_vars

-----------------------------------------------------------------------------
(* What the copies of the rows are good for.  A run reads the rows once, so *)
(* a success, a failure or a form that comes after overtakes it: the        *)
(* properties below hold of every process that is not overtaken, whatever   *)
(* else happens, and say which processes break the rule otherwise.          *)

(* No unforced poll goes out while the row's cooldown lasts, unless that    *)
(* cooldown, or what preceded it, was written after the run had begun.      *)
CooldownSuppressesPolling ==
    [][\A w \in Worker, p \in Provider :
          UnforcedGrant(w, p) /\ p \notin overtaken[w] => ~Live(db[p])]_vars

(* A worker or a request that writes the cooldown of a row it has not read  *)
(* as it is now; a success that was not saved leaves such a copy behind.    *)
WritesBlindly(p) ==
    \/ \E w \in Worker : (p \in overtaken[w] \/ pc[w] = "failed") /\ WorkerStep(w)
    \/ \E v \in Viewer : p \in overtaken[v] /\ ClearExpired(v)

(* A cooldown that lasts is lifted by a recorded success or changed in the  *)
(* form.  Later failures, forced checks among them, neither extend nor      *)
(* shorten it, and no clean-up of expired cooldowns removes it, unless the  *)
(* process had read the row before the cooldown was written.                *)
WindowIsKept ==
    [][\A p \in Provider :
          Live(db[p]) /\ db'[p].cooldownUntil # db[p].cooldownUntil =>
             \/ \E w \in Worker : MarkProviderSuccess(w, p)
             \/ \E a \in Admin : \E r \in Posted(form[a][p]) : AdminSave(a, p, r)
             \/ WritesBlindly(p)]_vars

(* consecutive_failures is the number of failures since the last success,   *)
(* unless a form was posted since then, or one of those failures was        *)
(* counted by a run that had been overtaken, from the number it had loaded. *)
ExactFailureCount ==
    \A p \in Provider : streak[p] # Null => db[p].failures = streak[p]
=============================================================================
