----------------------- MODULE ProviderRuntime_proofs -----------------------
(* Proofs about ProviderRuntime, for any providers, workers, requests,      *)
(* administrators, intervals and bounds.                                    *)
EXTENDS ProviderRuntime, TLAPS

(* Values that are no time and no message of an exception. *)
LEMMA NullTypes == Null \in Time /\ "none" \in Message
  BY DEF Time, Message

(* The saves of the code keep a row a row, and a copy a copy.               *)
LEMMA RowUpdate ==
    ASSUME NEW r \in Row
    PROVE  /\ \A b \in BOOLEAN : [r EXCEPT !.isActive = b] \in Row
           /\ \A t \in Time : /\ [r EXCEPT !.cooldownUntil = t] \in Row
                              /\ [r EXCEPT !.lastPolledAt = t] \in Row
           /\ \A t \in Time, n \in Nat, e \in Message :
                 [r EXCEPT !.error = e, !.failures = n, !.cooldownUntil = t] \in Row
<1>1. ASSUME NEW b \in BOOLEAN PROVE [r EXCEPT !.isActive = b] \in Row
  BY DEF Row
<1>2. ASSUME NEW t \in Time
      PROVE  [r EXCEPT !.cooldownUntil = t] \in Row /\ [r EXCEPT !.lastPolledAt = t] \in Row
  BY DEF Row
<1>3. ASSUME NEW t \in Time, NEW n \in Nat, NEW e \in Message
      PROVE  [r EXCEPT !.error = e, !.failures = n, !.cooldownUntil = t] \in Row
  BY DEF Row
<1>4. QED
  BY <1>1, <1>2, <1>3

(* So do the saves of the tasks. *)
LEMMA CopyUpdate ==
    ASSUME NEW c \in Copy, NEW t \in Time, NEW n \in Nat
    PROVE  /\ [c EXCEPT !.cooldownUntil = t] \in Copy
           /\ [c EXCEPT !.lastPolledAt = t] \in Copy
           /\ [c EXCEPT !.failures = n, !.cooldownUntil = t] \in Copy
  BY DEF Copy

(* One entry of a worker's copies may be replaced.                          *)
LEMMA MemUpdate ==
    ASSUME TypeOK, NEW w \in Worker, NEW p \in Provider, NEW c \in Copy
    PROVE  [mem EXCEPT ![w][p] = c] \in [Worker -> [Provider -> Copy]]
  BY DEF TypeOK

(* The loop of a worker keeps its types when it leaves a provider.          *)
LEMMA NextProviderType ==
    ASSUME TypeOK, NEW w \in Worker, NEW p \in Provider, NextProvider(w, p)
    PROVE  /\ pc' \in [Worker -> {"idle", "check", "claim", "search", "failed"}]
           /\ force' \in [Worker -> BOOLEAN]
           /\ pending' \in [Worker -> SUBSET Provider]
           /\ mem' \in [Worker -> [Provider -> Copy]]
           /\ stamp' \in [Worker -> Time]
<1>1. NoCopy \in Copy
  BY DEF NoCopy, Copy, Time, Null
<1>2. mem' \in [Worker -> [Provider -> Copy]]
  BY <1>1 DEF TypeOK, NextProvider
<1>3. force' \in [Worker -> BOOLEAN]
  BY Zenon DEF TypeOK, NextProvider
<1>4. QED
  BY <1>2, <1>3 DEF TypeOK, NextProvider, Time

(* The histories of overtaken processes name providers.                     *)
LEMMA OvertakenType ==
    ASSUME TypeOK, NEW x, NEW p \in Provider, PutDown(x, p) \/ Overtake(x, p)
    PROVE  overtaken' \in [Worker \cup Viewer -> SUBSET Provider]
<1>1. CASE PutDown(x, p)
  BY <1>1 DEF PutDown, TypeOK
<1>2. CASE Overtake(x, p)
  BY <1>2 DEF Overtake, TypeOK
<1>3. QED
  BY <1>1, <1>2

(* An administrator posts a row. *)
LEMMA PostedType ==
    ASSUME ConstantsAssumption, NEW r \in Row
    PROVE  Posted(r) \subseteq Row
<1>1. TypedTime \subseteq Time /\ TypedCount \subseteq Nat
  BY DEF ConstantsAssumption, Time
<1>2. r.cooldownUntil \in Time /\ r.lastPolledAt \in Time /\ r.failures \in Nat
  BY DEF Row
<1>3. QED
  BY <1>1, <1>2 DEF Posted, Row

(* The stamp of the last grant stays a time.                                *)
LEMMA SetBackType ==
    ASSUME TypeOK, NEW p \in Provider, NEW t
    PROVE  SetBack(p, t) \in Time
  BY NullTypes DEF SetBack, TypeOK

(* A failure writes a row: the window it keeps or starts is a time.         *)
LEMMA FailureRowType ==
    ASSUME ConstantsAssumption, now \in Nat,
           NEW r \in Row, NEW c \in Copy, NEW p \in Provider,
           NEW exc \in Exception, NEW m \in Message
    PROVE  FailureRow(r, c, p, exc, m) \in Row
<1>1. CooldownMinutes(p, exc) \in Nat
  BY DEF ConstantsAssumption, CooldownMinutes
<1>2. FailureWindow(c, p, exc) \in Time
  <2>1. c.cooldownUntil \in Time
    BY DEF Copy
  <2>2. \A n \in Nat : now + n \in Nat
    OBVIOUS
  <2>3. QED
    BY <1>1, <2>1, <2>2, Zenon DEF FailureWindow, Time
<1>3. c.failures + 1 \in Nat
  <2>1. c.failures \in Nat
    BY DEF Copy
  <2>2. \A n \in Nat : n + 1 \in Nat
    OBVIOUS
  <2>3. QED
    BY <2>1, <2>2, Zenon
<1>4. QED
  BY <1>2, <1>3, RowUpdate DEF FailureRow

(* Every variable keeps its type: the counters and times stay natural       *)
(* numbers through every save of a stale copy, clear and form.              *)
THEOREM TypeCorrect == Spec => []TypeOK
<1>1. Init => TypeOK
  <2>1. NoCopy \in Copy /\ NewRow \in Row /\ Null \in Time /\ 0 \in Time
    BY DEF NoCopy, Copy, NewRow, Row, Time, Null, Message
  <2>2. QED
    BY <2>1 DEF Init, TypeOK
<1>2. TypeOK /\ [Next]_vars => TypeOK'
  <2> SUFFICES ASSUME TypeOK, [Next]_vars PROVE TypeOK'
    OBVIOUS
  <2>1. CASE Tick
    BY <2>1 DEF Tick, TypeOK, workerVars, history
  <2>2. ASSUME NEW w \in Worker, NEW f \in BOOLEAN, StartRun(w, f) PROVE TypeOK'
    <3>1. \A p \in Provider : CopyOf(db[p]) \in Copy
      BY DEF TypeOK, CopyOf, Copy, Row
    <3>2. NoCopy \in Copy
      BY DEF NoCopy, Copy, Time, Null
    <3>3. mem' \in [Worker -> [Provider -> Copy]]
      BY <2>2, <3>1, <3>2 DEF TypeOK, StartRun
    <3>4. force' \in [Worker -> BOOLEAN]
      BY <2>2, Zenon DEF TypeOK, StartRun
    <3>5. QED
      BY <2>2, <3>3, <3>4 DEF TypeOK, StartRun, history
  <2>3. ASSUME NEW w \in Worker, NEW p \in Provider, SkipInCooldown(w, p) PROVE TypeOK'
    BY <2>3, NextProviderType, OvertakenType DEF TypeOK, SkipInCooldown
  <2>4. ASSUME NEW w \in Worker, NEW p \in Provider, NormalizeCooldown(w, p) PROVE TypeOK'
    <3> DEFINE r == [db[p] EXCEPT !.cooldownUntil = Null]
               c == [mem[w][p] EXCEPT !.cooldownUntil = Null]
    <3>1. db' \in [Provider -> Row]
      <4>1. r \in Row
        BY NullTypes, RowUpdate DEF TypeOK
      <4>2. db' = db \/ db' = [db EXCEPT ![p] = r]
        BY <2>4 DEF NormalizeCooldown
      <4>3. QED
        BY <4>1, <4>2 DEF TypeOK
    <3>2. mem' \in [Worker -> [Provider -> Copy]]
      <4>1. c \in Copy
        BY NullTypes, CopyUpdate DEF TypeOK
      <4>2. CASE UNCHANGED mem
        BY <4>2 DEF TypeOK
      <4>3. CASE mem' = [mem EXCEPT ![w][p] = c]
        BY <4>1, <4>3, MemUpdate
      <4>4. QED
        BY <2>4, <4>2, <4>3 DEF NormalizeCooldown
    <3>3. QED
      BY <2>4, <3>1, <3>2 DEF TypeOK, NormalizeCooldown, history
  <2>5. ASSUME NEW w \in Worker, CaptureNow(w) PROVE TypeOK'
    BY <2>5 DEF TypeOK, CaptureNow, Time, history
  <2>6. ASSUME NEW w \in Worker, NEW p \in Provider, ClaimProviderPollSlot(w, p)
        PROVE TypeOK'
    <3>1. CASE /\ db' = [db EXCEPT ![p] = Claimed(@, mem[w][p], stamp[w])]
               /\ lastGrant' = [lastGrant EXCEPT ![p] = GrantAfterClaim(w, p)]
               /\ mem' = [mem EXCEPT ![w][p].lastPolledAt = stamp[w]]
               /\ stamp' = [stamp EXCEPT ![w] = Null]
               /\ pc' = [pc EXCEPT ![w] = "search"]
               /\ UNCHANGED <<force, pending, overtaken>>
      <4>1. db' \in [Provider -> Row]
        BY <3>1, RowUpdate DEF TypeOK, Claimed
      <4>0. GrantAfterClaim(w, p) \in Time
        BY SetBackType DEF GrantAfterClaim, TypeOK
      <4>2. mem' \in [Worker -> [Provider -> Copy]]
        BY <3>1, CopyUpdate DEF TypeOK
      <4>3. QED
        BY <2>6, <3>1, <4>0, <4>1, <4>2, NullTypes DEF TypeOK, ClaimProviderPollSlot
    <3>2. CASE NextProvider(w, p) /\ PutDown(w, p) /\ UNCHANGED <<db, lastGrant>>
      BY <2>6, <3>2, NextProviderType, OvertakenType DEF TypeOK, ClaimProviderPollSlot
    <3>3. QED
      BY <2>6, <3>1, <3>2 DEF ClaimProviderPollSlot
  <2>7. ASSUME NEW w \in Worker, NEW p \in Provider, MarkProviderSuccess(w, p)
        PROVE TypeOK'
    <3>1. SuccessRow(db[p]) \in Row
      BY NullTypes, RowUpdate DEF TypeOK, SuccessRow
    <3>2. QED
      BY <2>7, <3>1, NextProviderType, OvertakenType DEF TypeOK, MarkProviderSuccess, Time
  <2>8. ASSUME NEW w \in Worker, NEW p \in Provider, SuccessSaveFails(w, p) PROVE TypeOK'
    <3>1. mem' \in [Worker -> [Provider -> Copy]]
      <4> DEFINE c == [mem[w][p] EXCEPT !.failures = 0, !.cooldownUntil = Null]
      <4>1. c \in Copy
        <5>1. mem[w][p] \in Copy
          BY DEF TypeOK
        <5>2. QED
          BY <5>1, NullTypes, CopyUpdate
      <4>2. mem' = [mem EXCEPT ![w][p] = c]
        BY <2>8 DEF SuccessSaveFails, TypeOK
      <4>3. QED
        BY <4>1, <4>2, MemUpdate
    <3>2. QED
      BY <2>8, <3>1 DEF TypeOK, SuccessSaveFails, history
  <2>9. ASSUME NEW w \in Worker, NEW p \in Provider, NEW exc \in Exception,
               NEW m \in Message, MarkProviderFailure(w, p, exc, m)
        PROVE TypeOK'
    <3>1. db[p] \in Row /\ mem[w][p] \in Copy /\ now \in Nat
      BY DEF TypeOK
    <3>2. FailureRow(db[p], mem[w][p], p, exc, m) \in Row
      BY <3>1, FailureRowType, ConstantsAssumption
    <3>3. db' = [db EXCEPT ![p] = FailureRow(db[p], mem[w][p], p, exc, m)]
      BY <2>9 DEF MarkProviderFailure
    <3>4. db' \in [Provider -> Row]
      BY <3>2, <3>3 DEF TypeOK
    <3>5. streak' \in [Provider -> Time]
      <4>1. streak[p] \in Time
        BY DEF TypeOK
      <4>2. StreakAfterFailure(w, p) \in Time
        BY <4>1 DEF StreakAfterFailure, Time
      <4>3. streak' = [streak EXCEPT ![p] = StreakAfterFailure(w, p)]
        BY <2>9 DEF MarkProviderFailure
      <4>4. QED
        BY <4>2, <4>3 DEF TypeOK
    <3>6. QED
      BY <2>9, <3>4, <3>5, NextProviderType, OvertakenType DEF TypeOK, MarkProviderFailure
  <2>10. ASSUME NEW w \in Worker, AbortRun(w) PROVE TypeOK'
    <3>1. NoCopy \in Copy
      BY DEF NoCopy, Copy, Time, Null
    <3>2. mem' \in [Worker -> [Provider -> Copy]]
      BY <2>10, <3>1 DEF TypeOK, AbortRun
    <3>3. QED
      BY <2>10, <3>2 DEF TypeOK, AbortRun, Time, history
  <2>11. ASSUME NEW v \in Viewer, FindExpired(v) PROVE TypeOK'
    BY <2>11 DEF TypeOK, FindExpired, workerVars, history
  <2>12. ASSUME NEW v \in Viewer, ClearExpired(v) PROVE TypeOK'
    <3>1. db' \in [Provider -> Row]
      BY <2>12, NullTypes, RowUpdate DEF TypeOK, ClearExpired
    <3>2. QED
      BY <2>12, <3>1 DEF TypeOK, ClearExpired, workerVars, history
  <2>13. ASSUME NEW a \in Admin, NEW p \in Provider, AdminOpen(a, p) PROVE TypeOK'
    BY <2>13 DEF TypeOK, AdminOpen, workerVars, history
  <2>14. ASSUME NEW a \in Admin, NEW p \in Provider, NEW r \in Posted(form[a][p]),
                AdminSave(a, p, r)
         PROVE TypeOK'
    <3>1. form[a][p] \in Row
      BY DEF TypeOK
    <3>2. r \in Row /\ r.cooldownUntil \in Time
      BY <3>1, PostedType, ConstantsAssumption DEF Row
    <3>3. entered' \in [Provider -> SUBSET Time]
      BY <2>14, <3>2 DEF AdminSave, TypeOK
    <3>4. db' \in [Provider -> Row]
      BY <2>14, <3>2 DEF AdminSave, TypeOK
    <3>5. lastGrant' \in [Provider -> Time] /\ streak' \in [Provider -> Time]
      <4>1. SetBack(p, r.lastPolledAt) \in Time
        BY SetBackType
      <4>2. QED
        BY <2>14, <4>1, NullTypes DEF AdminSave, TypeOK
    <3>6. overtaken' \in [Worker \cup Viewer -> SUBSET Provider]
      BY <2>14, OvertakenType DEF AdminSave
    <3>7. QED
      BY <2>14, <3>3, <3>4, <3>5, <3>6 DEF TypeOK, AdminSave, workerVars
  <2>15. CASE SyncDefaultProviders
    <3>1. \A p \in Provider : [db[p] EXCEPT !.isActive = TRUE] \in Row
      BY RowUpdate, NullTypes DEF TypeOK
    <3>2. QED
      BY <2>15, <3>1 DEF TypeOK, SyncDefaultProviders, workerVars, history
  <2>16. CASE UNCHANGED vars
    BY <2>16 DEF TypeOK, vars, workerVars, history
  <2>17. QED
    BY <2>1, <2>2, <2>3, <2>4, <2>5, <2>6, <2>7, <2>8, <2>9, <2>10, <2>11,
       <2>12, <2>13, <2>14, <2>15, <2>16 DEF Next, WorkerStep
<1>3. QED
  BY <1>1, <1>2, PTL DEF Spec

-----------------------------------------------------------------------------
(* The row of a provider as a form leaves it.                               *)
FormPosted(a, p) ==
    /\ db'[p] \in Posted(form[a][p])
    /\ db'[p].cooldownUntil \in entered'[p] \cup {form[a][p].cooldownUntil}
    /\ streak'[p] = Null

(* Every way a step can change the row of a provider.                       *)
RowChange(p) ==
    \/ db'[p] = db[p]
    \/ \E b \in BOOLEAN : db'[p] = [db[p] EXCEPT !.isActive = b]
    \/ \E t \in Time : db'[p] = [db[p] EXCEPT !.lastPolledAt = t]
    \/ db'[p] = [db[p] EXCEPT !.cooldownUntil = Null]
    \/ db'[p] = SuccessRow(db[p])
    \/ \E w \in Worker, exc \in Exception, m \in Message :
          db'[p] = FailureRow(db[p], mem[w][p], p, exc, m)
    \/ \E a \in Admin : FormPosted(a, p)

(* Every way a step can change a worker's copy of a provider's row.         *)
CopyChange(w, p) ==
    \/ mem'[w][p].cooldownUntil = mem[w][p].cooldownUntil
    \/ mem'[w][p].cooldownUntil = Null
    \/ mem'[w][p].cooldownUntil = db[p].cooldownUntil

(* Going on to the next provider changes one copy, as allowed. *)
LEMMA NextProviderCopies ==
    ASSUME TypeOK, NEW w \in Worker, NEW p \in Provider, NextProvider(w, p),
           NEW v \in Worker, NEW q \in Provider
    PROVE  CopyChange(v, q)
<1>1. NoCopy.cooldownUntil = Null
  BY DEF NoCopy
<1>2. mem'[v][q] = mem[v][q] \/ mem'[v][q] = NoCopy
  BY DEF NextProvider, TypeOK
<1>3. QED
  BY <1>1, <1>2, Zenon DEF CopyChange

(* All steps, by what they do to rows, copies and forms.                    *)
LEMMA StepChanges ==
    ASSUME TypeOK, [Next]_vars
    PROVE  /\ now' = now \/ now' = now + 1
           /\ \A p \in Provider : RowChange(p)
           /\ \A w \in Worker, p \in Provider : CopyChange(w, p)
           /\ \A a \in Admin, p \in Provider :
                 form'[a][p] = form[a][p] \/ form'[a][p] = db[p]
           /\ now' # now => UNCHANGED db
           /\ \A p \in Provider : entered[p] \subseteq entered'[p]
<1> DEFINE Goal == /\ now' = now \/ now' = now + 1
                   /\ \A p \in Provider : RowChange(p)
                   /\ \A w \in Worker, p \in Provider : CopyChange(w, p)
                   /\ \A a \in Admin, p \in Provider :
                         form'[a][p] = form[a][p] \/ form'[a][p] = db[p]
                   /\ now' # now => UNCHANGED db
                   /\ \A p \in Provider : entered[p] \subseteq entered'[p]
<1>1. ASSUME Tick PROVE Goal
  BY <1>1, Zenon DEF Tick, RowChange, CopyChange, workerVars, history
<1>2. ASSUME NEW w \in Worker, NEW f \in BOOLEAN, StartRun(w, f) PROVE Goal
  <2>1. \A v \in Worker, p \in Provider : CopyChange(v, p)
    <3> SUFFICES ASSUME NEW v \in Worker, NEW p \in Provider PROVE CopyChange(v, p)
      OBVIOUS
    <3>1. mem'[v][p] = mem[v][p] \/ mem'[v][p] = CopyOf(db[p]) \/ mem'[v][p] = NoCopy
      BY <1>2 DEF StartRun, TypeOK
    <3>2. CopyOf(db[p]).cooldownUntil = db[p].cooldownUntil /\ NoCopy.cooldownUntil = Null
      BY DEF CopyOf, NoCopy
    <3>3. QED
      BY <3>1, <3>2, Zenon DEF CopyChange
  <2>2. QED
    BY <1>2, <2>1, Zenon DEF StartRun, RowChange, history
<1>3. ASSUME NEW w \in Worker, NEW p \in Provider, SkipInCooldown(w, p) PROVE Goal
  <2>1. \A v \in Worker, q \in Provider : CopyChange(v, q)
    BY <1>3, NextProviderCopies DEF SkipInCooldown
  <2>2. QED
    BY <1>3, <2>1, Zenon DEF SkipInCooldown, RowChange
<1>4. ASSUME NEW w \in Worker, NEW p \in Provider, NormalizeCooldown(w, p) PROVE Goal
  <2>1. \A q \in Provider : RowChange(q)
    <3> SUFFICES ASSUME NEW q \in Provider PROVE RowChange(q)
      OBVIOUS
    <3>1. db'[q] = db[q] \/ db'[q] = [db[q] EXCEPT !.cooldownUntil = Null]
      BY <1>4 DEF NormalizeCooldown, TypeOK
    <3>2. QED
      BY <3>1, Zenon DEF RowChange
  <2>2. \A v \in Worker, q \in Provider : CopyChange(v, q)
    <3> SUFFICES ASSUME NEW v \in Worker, NEW q \in Provider PROVE CopyChange(v, q)
      OBVIOUS
    <3>1. mem'[v][q] = mem[v][q] \/ mem'[v][q] = [mem[v][q] EXCEPT !.cooldownUntil = Null]
      <4>1. CASE UNCHANGED mem
        BY <4>1
      <4>2. CASE mem' = [mem EXCEPT ![w][p].cooldownUntil = Null]
        BY <4>2 DEF TypeOK
      <4>3. QED
        BY <1>4, <4>1, <4>2, Zenon DEF NormalizeCooldown
    <3>2. mem[v][q] \in Copy
      BY DEF TypeOK
    <3>3. QED
      BY <3>1, <3>2 DEF CopyChange, Copy
  <2>3. QED
    BY <1>4, <2>1, <2>2, Zenon DEF NormalizeCooldown, history
<1>5. ASSUME NEW w \in Worker, CaptureNow(w) PROVE Goal
  BY <1>5, Zenon DEF CaptureNow, RowChange, CopyChange, history
<1>6. ASSUME NEW w \in Worker, NEW p \in Provider, ClaimProviderPollSlot(w, p) PROVE Goal
  <2>1. CASE NextProvider(w, p) /\ PutDown(w, p) /\ UNCHANGED <<db, lastGrant>>
    <3>1. \A v \in Worker, q \in Provider : CopyChange(v, q)
      BY <2>1, NextProviderCopies
    <3>2. QED
      BY <1>6, <2>1, <3>1, Zenon DEF ClaimProviderPollSlot, RowChange
  <2>2. CASE /\ db' = [db EXCEPT ![p] = Claimed(@, mem[w][p], stamp[w])]
             /\ mem' = [mem EXCEPT ![w][p].lastPolledAt = stamp[w]]
    <3>1. \A q \in Provider : RowChange(q)
      <4> SUFFICES ASSUME NEW q \in Provider PROVE RowChange(q)
        OBVIOUS
      <4>1. db'[q] = db[q] \/ db'[q] = [db[q] EXCEPT !.lastPolledAt = stamp[w]]
        BY <2>2 DEF TypeOK, Claimed
      <4>2. stamp[w] \in Time
        BY DEF TypeOK
      <4>3. QED
        BY <4>1, <4>2, Zenon DEF RowChange
    <3>2. \A v \in Worker, q \in Provider : CopyChange(v, q)
      <4> SUFFICES ASSUME NEW v \in Worker, NEW q \in Provider PROVE CopyChange(v, q)
        OBVIOUS
      <4>1. mem'[v][q] = mem[v][q] \/ mem'[v][q] = [mem[v][q] EXCEPT !.lastPolledAt = stamp[w]]
        BY <2>2 DEF TypeOK
      <4>2. mem[v][q] \in Copy
        BY DEF TypeOK
      <4>3. QED
        BY <4>1, <4>2 DEF CopyChange, Copy
    <3>3. QED
      BY <1>6, <3>1, <3>2, Zenon DEF ClaimProviderPollSlot
  <2>3. QED
    BY <1>6, <2>1, <2>2, Zenon DEF ClaimProviderPollSlot
<1>7. ASSUME NEW w \in Worker, NEW p \in Provider, MarkProviderSuccess(w, p) PROVE Goal
  <2>1. \A q \in Provider : RowChange(q)
    <3> SUFFICES ASSUME NEW q \in Provider PROVE RowChange(q)
      OBVIOUS
    <3>1. db'[q] = db[q] \/ db'[q] = SuccessRow(db[q])
      BY <1>7 DEF MarkProviderSuccess, TypeOK
    <3>2. QED
      BY <3>1, Zenon DEF RowChange
  <2>2. \A v \in Worker, q \in Provider : CopyChange(v, q)
    BY <1>7, NextProviderCopies DEF MarkProviderSuccess
  <2>3. QED
    BY <1>7, <2>1, <2>2, Zenon DEF MarkProviderSuccess
<1>8. ASSUME NEW w \in Worker, NEW p \in Provider, SuccessSaveFails(w, p) PROVE Goal
  <2>1. \A v \in Worker, q \in Provider : CopyChange(v, q)
    <3> SUFFICES ASSUME NEW v \in Worker, NEW q \in Provider PROVE CopyChange(v, q)
      OBVIOUS
    <3>1. \/ mem'[v][q] = mem[v][q]
          \/ mem'[v][q] = [mem[v][q] EXCEPT !.failures = 0, !.cooldownUntil = Null]
      BY <1>8 DEF SuccessSaveFails, TypeOK
    <3>2. mem[v][q] \in Copy
      BY DEF TypeOK
    <3>3. QED
      BY <3>1, <3>2 DEF CopyChange, Copy
  <2>2. QED
    BY <1>8, <2>1, Zenon DEF SuccessSaveFails, RowChange, history
<1>9. ASSUME NEW w \in Worker, NEW p \in Provider, NEW exc \in Exception,
             NEW m \in Message, MarkProviderFailure(w, p, exc, m)
      PROVE  Goal
  <2>1. \A q \in Provider : RowChange(q)
    <3> SUFFICES ASSUME NEW q \in Provider PROVE RowChange(q)
      OBVIOUS
    <3>1. db'[q] = db[q] \/ db'[q] = FailureRow(db[q], mem[w][q], q, exc, m)
      BY <1>9 DEF MarkProviderFailure, TypeOK
    <3>2. QED
      BY <3>1, Zenon DEF RowChange
  <2>2. \A v \in Worker, q \in Provider : CopyChange(v, q)
    BY <1>9, NextProviderCopies DEF MarkProviderFailure
  <2>3. QED
    BY <1>9, <2>1, <2>2, Zenon DEF MarkProviderFailure
<1>10. ASSUME NEW w \in Worker, AbortRun(w) PROVE Goal
  <2>1. \A v \in Worker, q \in Provider : CopyChange(v, q)
    <3> SUFFICES ASSUME NEW v \in Worker, NEW q \in Provider PROVE CopyChange(v, q)
      OBVIOUS
    <3>1. mem'[v][q] = mem[v][q] \/ mem'[v][q] = NoCopy
      BY <1>10 DEF AbortRun, TypeOK
    <3>2. NoCopy.cooldownUntil = Null
      BY DEF NoCopy
    <3>3. QED
      BY <3>1, <3>2, Zenon DEF CopyChange
  <2>2. QED
    BY <1>10, <2>1, Zenon DEF AbortRun, RowChange
<1>11. ASSUME NEW v \in Viewer, FindExpired(v) PROVE Goal
  BY <1>11, Zenon DEF FindExpired, RowChange, CopyChange, workerVars, history
<1>12. ASSUME NEW v \in Viewer, ClearExpired(v) PROVE Goal
  <2>1. \A p \in Provider : db'[p] = db[p] \/ db'[p] = [db[p] EXCEPT !.cooldownUntil = Null]
    BY <1>12 DEF ClearExpired
  <2>2. \A p \in Provider : RowChange(p)
    BY <2>1, Zenon DEF RowChange
  <2>3. QED
    BY <1>12, <2>2, Zenon DEF ClearExpired, CopyChange, workerVars
<1>13. ASSUME NEW a \in Admin, NEW p \in Provider, AdminOpen(a, p) PROVE Goal
  <2>1. \A b \in Admin, q \in Provider : form'[b][q] = form[b][q] \/ form'[b][q] = db[q]
    BY <1>13 DEF AdminOpen, TypeOK
  <2>2. QED
    BY <1>13, <2>1, Zenon DEF AdminOpen, RowChange, CopyChange, workerVars, history
<1>14. ASSUME NEW a \in Admin, NEW p \in Provider, NEW r \in Posted(form[a][p]),
              AdminSave(a, p, r)
       PROVE  Goal
  <2>1. \A q \in Provider : db'[q] = db[q] \/ FormPosted(a, q)
    <3> SUFFICES ASSUME NEW q \in Provider, db'[q] # db[q] PROVE FormPosted(a, q)
      OBVIOUS
    <3>1. q = p /\ db'[p] = r /\ streak'[p] = Null
      BY <1>14 DEF AdminSave, TypeOK
    <3>2. entered'[p] = entered[p] \cup ({r.cooldownUntil} \ {form[a][p].cooldownUntil})
      BY <1>14 DEF AdminSave, TypeOK
    <3>3. QED
      BY <3>1, <3>2, Zenon DEF FormPosted
  <2>2. \A q \in Provider : RowChange(q)
    BY <2>1, Zenon DEF RowChange
  <2>3. \A q \in Provider : entered[q] \subseteq entered'[q]
    BY <1>14 DEF AdminSave, TypeOK
  <2>4. QED
    BY <1>14, <2>2, <2>3, Zenon DEF AdminSave, CopyChange, workerVars
<1>15. ASSUME SyncDefaultProviders PROVE Goal
  <2>1. \A p \in Provider : db'[p] = [db[p] EXCEPT !.isActive = TRUE]
    BY <1>15 DEF SyncDefaultProviders
  <2>2. \A p \in Provider : RowChange(p)
    BY <2>1, Zenon DEF RowChange
  <2>3. QED
    BY <1>15, <2>2, Zenon DEF SyncDefaultProviders, CopyChange, workerVars, history
<1>16. ASSUME UNCHANGED vars PROVE Goal
  BY <1>16, Zenon DEF vars, workerVars, RowChange, CopyChange, history
<1> HIDE DEF Goal
<1>17. ASSUME NEW w \in Worker, WorkerStep(w) PROVE Goal
  BY <1>2, <1>3, <1>4, <1>5, <1>6, <1>7, <1>8, <1>9, <1>10, <1>17, Zenon DEF WorkerStep
<1>18. ASSUME NEW v \in Viewer, FindExpired(v) \/ ClearExpired(v) PROVE Goal
  BY <1>11, <1>12, <1>18
<1>19. ASSUME NEW a \in Admin, NEW p \in Provider,
              AdminOpen(a, p) \/ \E r \in Posted(form[a][p]) : AdminSave(a, p, r)
       PROVE  Goal
  BY <1>13, <1>14, <1>19
<1>20. Goal
  BY <1>1, <1>15, <1>16, <1>17, <1>18, <1>19 DEF Next
<1>21. QED
  BY <1>20 DEF Goal

(* The fields of the rows the code writes.                                  *)
LEMMA RowFields ==
    ASSUME NEW r \in Row
    PROVE  /\ \A b \in BOOLEAN :
                 /\ [r EXCEPT !.isActive = b].cooldownUntil = r.cooldownUntil
                 /\ [r EXCEPT !.isActive = b].failures = r.failures
                 /\ [r EXCEPT !.isActive = b].error = r.error
           /\ \A t \in Time :
                 /\ [r EXCEPT !.lastPolledAt = t].cooldownUntil = r.cooldownUntil
                 /\ [r EXCEPT !.lastPolledAt = t].failures = r.failures
                 /\ [r EXCEPT !.lastPolledAt = t].error = r.error
           /\ [r EXCEPT !.cooldownUntil = Null].cooldownUntil = Null
           /\ [r EXCEPT !.cooldownUntil = Null].failures = r.failures
           /\ [r EXCEPT !.cooldownUntil = Null].error = r.error
           /\ SuccessRow(r).cooldownUntil = Null
           /\ SuccessRow(r).failures = 0
           /\ SuccessRow(r).error = "none"
           /\ \A c \in Copy, p \in Provider, exc \in Exception, m \in Message :
                 /\ FailureRow(r, c, p, exc, m).cooldownUntil = FailureWindow(c, p, exc)
                 /\ FailureRow(r, c, p, exc, m).failures = c.failures + 1
  BY DEF Row, SuccessRow, FailureRow

-----------------------------------------------------------------------------
(* BoundedLockout is not inductive: a stale copy or form may be written to  *)
(* the row later, so the bound has to hold of copies and forms as well.     *)
Allowed(p, t) == t <= now + WindowBound(p) \/ t \in entered[p]

WindowsAreAllowed ==
    /\ \A p \in Provider : Allowed(p, db[p].cooldownUntil)
    /\ \A w \in Worker, p \in Provider : Allowed(p, mem[w][p].cooldownUntil)
    /\ \A a \in Admin, p \in Provider : Allowed(p, form[a][p].cooldownUntil)

(* The longest cooldown of a provider. *)
LEMMA WindowBoundType ==
    ASSUME NEW p \in Provider
    PROVE  /\ WindowBound(p) \in Nat
           /\ \A exc \in Exception : /\ CooldownMinutes(p, exc) \in Nat
                                    /\ CooldownMinutes(p, exc) <= WindowBound(p)
  BY ConstantsAssumption DEF ConstantsAssumption, WindowBound, CooldownMinutes

(* A failure keeps the window of its copy, or ends a new one within it.     *)
LEMMA FailureWindowBound ==
    ASSUME now \in Nat, NEW c \in Copy, NEW p \in Provider, NEW exc \in Exception,
           Allowed(p, c.cooldownUntil)
    PROVE  Allowed(p, FailureWindow(c, p, exc))
<1>1. \A m, b \in Nat : m <= b => now + m <= now + b
  OBVIOUS
<1>2. now + CooldownMinutes(p, exc) <= now + WindowBound(p)
  BY <1>1, WindowBoundType
<1>3. FailureWindow(c, p, exc) \in {now + CooldownMinutes(p, exc), c.cooldownUntil}
  BY Zenon DEF FailureWindow
<1>4. QED
  BY <1>2, <1>3, Zenon DEF Allowed

(* What was allowed stays so, and no cooldown at all is always allowed.      *)
LEMMA AllowedStays ==
    ASSUME TypeOK, TypeOK', [Next]_vars, NEW p \in Provider, NEW t \in Time,
           Allowed(p, t) \/ t = Null
    PROVE  Allowed(p, t)'
<1>1. now \in Nat /\ now' \in Nat /\ now <= now'
  BY StepChanges DEF TypeOK
<1>2. entered[p] \subseteq entered'[p]
  BY StepChanges
<1>3. WindowBound(p) \in Nat /\ t \in Int
  BY WindowBoundType DEF Time, Null
<1>4. CASE t = Null
  <2>1. t <= now' + WindowBound(p)
    BY <1>1, <1>3, <1>4 DEF Null
  <2>2. QED
    BY <2>1 DEF Allowed, WindowBound
<1>5. CASE t <= now + WindowBound(p)
  <2>1. t <= now' + WindowBound(p)
    BY <1>1, <1>3, <1>5
  <2>2. QED
    BY <2>1 DEF Allowed, WindowBound
<1>6. CASE t \in entered[p]
  BY <1>2, <1>6 DEF Allowed
<1>7. QED
  BY <1>4, <1>5, <1>6 DEF Allowed

(* The cooldown of a row after a step is one the step found, in the row, a  *)
(* copy or a form, or one that a failure or an administrator has just set.  *)
LEMMA CooldownSources ==
    ASSUME TypeOK, [Next]_vars, NEW p \in Provider
    PROVE  \/ db'[p].cooldownUntil \in {db[p].cooldownUntil, Null}
           \/ \E w \in Worker, exc \in Exception :
                 db'[p].cooldownUntil = FailureWindow(mem[w][p], p, exc)
           \/ \E a \in Admin :
                 db'[p].cooldownUntil \in entered'[p] \cup {form[a][p].cooldownUntil}
<1>1. db[p] \in Row /\ \A w \in Worker : mem[w][p] \in Copy
  BY DEF TypeOK
<1>2. ASSUME NEW w \in Worker, NEW exc \in Exception, NEW m \in Message,
             db'[p] = FailureRow(db[p], mem[w][p], p, exc, m)
      PROVE  db'[p].cooldownUntil = FailureWindow(mem[w][p], p, exc)
  BY <1>1, <1>2, RowFields
<1>3. ASSUME NEW b \in BOOLEAN, db'[p] = [db[p] EXCEPT !.isActive = b]
      PROVE  db'[p].cooldownUntil = db[p].cooldownUntil
  BY <1>1, <1>3, RowFields
<1>4. ASSUME NEW t \in Time, db'[p] = [db[p] EXCEPT !.lastPolledAt = t]
      PROVE  db'[p].cooldownUntil = db[p].cooldownUntil
  BY <1>1, <1>4, RowFields
<1>5. ASSUME \/ db'[p] = [db[p] EXCEPT !.cooldownUntil = Null]
             \/ db'[p] = SuccessRow(db[p])
      PROVE  db'[p].cooldownUntil = Null
  BY <1>1, <1>5, RowFields
<1>6. RowChange(p)
  BY StepChanges
<1>7. QED
  BY <1>2, <1>3, <1>4, <1>5, <1>6, Zenon DEF RowChange, FormPosted

(* However polls, stale saves, clears and forms interleave, a provider is    *)
(* suspended for no longer than one configured cooldown from now, or until a *)
(* time that an administrator has typed.                                     *)
THEOREM LockoutBounded == Spec => []BoundedLockout
<1>1. Init => WindowsAreAllowed
  <2> SUFFICES ASSUME Init PROVE WindowsAreAllowed
    OBVIOUS
  <2>1. \A p \in Provider : Allowed(p, Null)
    BY WindowBoundType DEF Init, Null, Allowed
  <2>2. /\ \A p \in Provider : db[p].cooldownUntil = Null
        /\ \A w \in Worker, p \in Provider : mem[w][p].cooldownUntil = Null
        /\ \A a \in Admin, p \in Provider : form[a][p].cooldownUntil = Null
    BY DEF Init, NewRow, NoCopy
  <2>3. QED
    BY <2>1, <2>2, Zenon DEF WindowsAreAllowed
<1>2. TypeOK /\ TypeOK' /\ WindowsAreAllowed /\ [Next]_vars => WindowsAreAllowed'
  <2> SUFFICES ASSUME TypeOK, TypeOK', WindowsAreAllowed, [Next]_vars
               PROVE  WindowsAreAllowed'
    OBVIOUS
  <2>1. ASSUME NEW p \in Provider PROVE Allowed(p, db[p].cooldownUntil)'
    <3>1. db[p].cooldownUntil \in Time /\ db'[p].cooldownUntil \in Time
      BY DEF TypeOK, Row
    <3>2. CASE db'[p].cooldownUntil \in {db[p].cooldownUntil, Null}
      BY <3>1, <3>2, AllowedStays DEF WindowsAreAllowed
    <3>3. ASSUME NEW w \in Worker, NEW exc \in Exception,
                 db'[p].cooldownUntil = FailureWindow(mem[w][p], p, exc)
          PROVE  Allowed(p, db[p].cooldownUntil)'
      <4>1. mem[w][p] \in Copy /\ now \in Nat /\ Allowed(p, mem[w][p].cooldownUntil)
        BY DEF TypeOK, WindowsAreAllowed
      <4>2. Allowed(p, db'[p].cooldownUntil)
        BY <3>3, <4>1, FailureWindowBound
      <4>3. QED
        BY <3>1, <4>2, AllowedStays
    <3>4. ASSUME NEW a \in Admin, db'[p].cooldownUntil = form[a][p].cooldownUntil
          PROVE  Allowed(p, db[p].cooldownUntil)'
      BY <3>1, <3>4, AllowedStays DEF WindowsAreAllowed
    <3>5. CASE db'[p].cooldownUntil \in entered'[p]
      BY <3>5 DEF Allowed
    <3>6. QED
      BY <3>2, <3>3, <3>4, <3>5, CooldownSources
  <2>2. ASSUME NEW w \in Worker, NEW p \in Provider
        PROVE  Allowed(p, mem[w][p].cooldownUntil)'
    <3>1. mem'[w][p].cooldownUntil \in Time
      BY DEF TypeOK, Copy
    <3>2. CopyChange(w, p)
      BY StepChanges
    <3>3. QED
      BY <3>1, <3>2, AllowedStays DEF CopyChange, WindowsAreAllowed
  <2>3. ASSUME NEW a \in Admin, NEW p \in Provider
        PROVE  Allowed(p, form[a][p].cooldownUntil)'
    <3>1. form'[a][p].cooldownUntil \in Time
      BY DEF TypeOK, Row
    <3>2. form'[a][p] = form[a][p] \/ form'[a][p] = db[p]
      BY StepChanges
    <3>3. QED
      BY <3>1, <3>2, AllowedStays DEF WindowsAreAllowed
  <2>4. QED
    BY <2>1, <2>2, <2>3, Zenon DEF WindowsAreAllowed
<1>3. WindowsAreAllowed => BoundedLockout
  BY DEF WindowsAreAllowed, BoundedLockout, Allowed
<1>4. QED
  BY <1>1, <1>2, <1>3, TypeCorrect, PTL DEF Spec

-----------------------------------------------------------------------------
(* The throttle.  Unless it was set back, the row holds the stamp of the     *)
(* last slot the throttle granted, or a later one.                           *)
Recorded(p) ==
    lastGrant[p] # Null =>
        db[p].lastPolledAt # Null /\ lastGrant[p] <= db[p].lastPolledAt
GrantsAreRecorded == \A p \in Provider : Recorded(p)

(* Which saves touch lastPolledAt, and which do not. *)
LEMMA PolledFields ==
    ASSUME NEW r \in Row
    PROVE  /\ \A b \in BOOLEAN : [r EXCEPT !.isActive = b].lastPolledAt = r.lastPolledAt
           /\ \A t \in Time : [r EXCEPT !.lastPolledAt = t].lastPolledAt = t
           /\ [r EXCEPT !.cooldownUntil = Null].lastPolledAt = r.lastPolledAt
           /\ SuccessRow(r).lastPolledAt = r.lastPolledAt
           /\ \A c \in Copy, p \in Provider, exc \in Exception, m \in Message :
                 FailureRow(r, c, p, exc, m).lastPolledAt = r.lastPolledAt
  BY DEF Row, SuccessRow, FailureRow

(* A slot is granted by ClaimProviderPollSlot alone.                        *)
LEMMA GrantStep ==
    ASSUME TypeOK, [Next]_vars, NEW w \in Worker, pc[w] = "claim", pc'[w] = "search"
    PROVE  \E p \in Provider :
              /\ IsNext(w, p)
              /\ force[w] \/ MinPollInterval[p] = 0 \/ SlotIsFree(w, p)
<1>1. \A v \in Worker, p \in Provider : NextProvider(v, p) => ~(pc'[w] = "search")
  BY DEF NextProvider, TypeOK
<1>2. ASSUME NEW v \in Worker, WorkerStep(v)
      PROVE  \E p \in Provider : ClaimProviderPollSlot(v, p) /\ v = w
  <2>1. \A f \in BOOLEAN : ~StartRun(v, f)
    BY DEF StartRun, TypeOK
  <2>2. \A p \in Provider : ~NormalizeCooldown(v, p)
    BY DEF NormalizeCooldown, TypeOK
  <2>3. ~CaptureNow(v) /\ ~AbortRun(v)
    BY DEF CaptureNow, AbortRun, TypeOK
  <2>4. \A p \in Provider : ~SuccessSaveFails(v, p)
    BY DEF SuccessSaveFails, TypeOK
  <2>5. \A p \in Provider : ~SkipInCooldown(v, p) /\ ~MarkProviderSuccess(v, p)
    BY <1>1, Zenon DEF SkipInCooldown, MarkProviderSuccess
  <2>6. \A p \in Provider, exc \in Exception, m \in Message :
           ~MarkProviderFailure(v, p, exc, m)
    BY <1>1, Zenon DEF MarkProviderFailure
  <2>7. \A p \in Provider : ClaimProviderPollSlot(v, p) => v = w
    <3> SUFFICES ASSUME NEW p \in Provider, ClaimProviderPollSlot(v, p), v # w
                 PROVE  FALSE
      OBVIOUS
    <3>1. ~NextProvider(v, p)
      BY <1>1
    <3>2. pc' = [pc EXCEPT ![v] = "search"]
      BY <3>1, Zenon DEF ClaimProviderPollSlot
    <3>3. QED
      BY <3>2 DEF TypeOK
  <2>8. QED
    BY <1>2, <2>1, <2>2, <2>3, <2>4, <2>5, <2>6, <2>7, Zenon DEF WorkerStep
<1>3. ~(UNCHANGED pc)
  OBVIOUS
<1>4. \E v \in Worker : WorkerStep(v)
  BY <1>3, Zenon DEF Next, vars, workerVars, Tick, FindExpired, ClearExpired,
     AdminOpen, AdminSave, SyncDefaultProviders
<1>5. PICK p \in Provider : ClaimProviderPollSlot(w, p)
  BY <1>2, <1>4
<1>6. ~NextProvider(w, p)
  BY <1>1
<1>7. QED
  BY <1>5, <1>6, Zenon DEF ClaimProviderPollSlot

(* Providers are taken in the order of their names. *)
LEMMA NextIsUnique ==
    ASSUME NEW w \in Worker, NEW p \in Provider, NEW q \in Provider,
           IsNext(w, p), IsNext(w, q)
    PROVE  p = q
<1>1. Rank[p] \in Nat /\ Rank[q] \in Nat
  BY ConstantsAssumption DEF ConstantsAssumption
<1>2. Rank[p] <= Rank[q] /\ Rank[q] <= Rank[p]
  BY DEF IsNext
<1>3. Rank[p] = Rank[q]
  BY <1>1, <1>2
<1>4. QED
  BY <1>3, ConstantsAssumption DEF ConstantsAssumption

(* A time saved without a condition is no earlier than what stays on record. *)
LEMMA SetBackRecorded ==
    ASSUME TypeOK, NEW p \in Provider, NEW t \in Time, SetBack(p, t) # Null
    PROVE  t # Null /\ SetBack(p, t) <= t
<1>1. lastGrant[p] \in Time
  BY DEF TypeOK
<1>2. SetBack(p, t) = lastGrant[p] /\ ~(t < lastGrant[p])
  BY DEF SetBack
<1>3. QED
  BY <1>1, <1>2 DEF Time, Null

(* The row stays as late as the history says.                               *)
LEMMA GrantsStayRecorded ==
    ASSUME TypeOK, GrantsAreRecorded, [Next]_vars
    PROVE  GrantsAreRecorded'
<1> SUFFICES ASSUME NEW p \in Provider PROVE Recorded(p)'
  BY Zenon DEF GrantsAreRecorded
<1>1. db[p] \in Row /\ Recorded(p)
  BY DEF TypeOK, GrantsAreRecorded
<1>2. ASSUME UNCHANGED lastGrant,
             \/ db'[p] = db[p]
             \/ db'[p] = [db[p] EXCEPT !.cooldownUntil = Null]
             \/ db'[p] = SuccessRow(db[p])
             \/ \E w \in Worker, exc \in Exception, m \in Message :
                   db'[p] = FailureRow(db[p], mem[w][p], p, exc, m)
             \/ db'[p] = [db[p] EXCEPT !.isActive = TRUE]
      PROVE  Recorded(p)'
  <2>1. \A w \in Worker : mem[w][p] \in Copy
    BY DEF TypeOK
  <2>2. ASSUME NEW w \in Worker, NEW exc \in Exception, NEW m \in Message,
               db'[p] = FailureRow(db[p], mem[w][p], p, exc, m)
        PROVE  db'[p].lastPolledAt = db[p].lastPolledAt
    BY <1>1, <2>1, <2>2, PolledFields
  <2>3. ASSUME \/ db'[p] = [db[p] EXCEPT !.cooldownUntil = Null]
               \/ db'[p] = SuccessRow(db[p])
               \/ db'[p] = [db[p] EXCEPT !.isActive = TRUE]
        PROVE  db'[p].lastPolledAt = db[p].lastPolledAt
    BY <1>1, <2>3, PolledFields
  <2>4. db'[p].lastPolledAt = db[p].lastPolledAt
    BY <1>2, <2>2, <2>3, Zenon
  <2>5. QED
    BY <1>1, <1>2, <2>4 DEF Recorded
<1>3. ASSUME NEW w \in Worker, NEW q \in Provider, ClaimProviderPollSlot(w, q)
      PROVE  Recorded(p)'
  <2>1. CASE UNCHANGED <<db, lastGrant>>
    BY <1>1, <2>1 DEF Recorded
  <2>2. CASE /\ db' = [db EXCEPT ![q] = Claimed(@, mem[w][q], stamp[w])]
             /\ lastGrant' = [lastGrant EXCEPT ![q] = GrantAfterClaim(w, q)]
    <3>1. CASE p = q
      <4>1. db'[p] = [db[p] EXCEPT !.lastPolledAt = stamp[w]] /\ lastGrant'[p] = GrantAfterClaim(w, p)
        BY <2>2, <3>1 DEF TypeOK, Claimed
      <4>2. stamp[w] \in Time /\ stamp[w] # Null
        BY <1>3 DEF TypeOK, ClaimProviderPollSlot
      <4>3. db'[p].lastPolledAt = stamp[w]
        BY <1>1, <4>1, <4>2, PolledFields
      <4>4. stamp[w] <= stamp[w]
        BY <4>2 DEF Time, Null
      <4>5. GrantAfterClaim(w, p) # Null => GrantAfterClaim(w, p) <= stamp[w]
        BY <4>2, <4>4, SetBackRecorded, Zenon DEF GrantAfterClaim
      <4>6. QED
        BY <4>1, <4>2, <4>3, <4>5 DEF Recorded
    <3>2. CASE p # q
      BY <1>1, <2>2, <3>2 DEF TypeOK, Recorded
    <3>3. QED
      BY <3>1, <3>2
  <2>3. QED
    BY <1>3, <2>1, <2>2, Zenon DEF ClaimProviderPollSlot
<1>4. ASSUME NEW w \in Worker, WorkerStep(w) PROVE Recorded(p)'
  <2>1. ASSUME UNCHANGED <<db, lastGrant>> PROVE Recorded(p)'
    BY <1>1, <2>1 DEF Recorded
  <2>2. ASSUME NEW q \in Provider, NormalizeCooldown(w, q)
        PROVE  Recorded(p)'
    <3>1. db'[p] = db[p] \/ db'[p] = [db[p] EXCEPT !.cooldownUntil = Null]
      BY <2>2 DEF NormalizeCooldown, TypeOK
    <3>2. QED
      BY <1>2, <2>2, <3>1, Zenon DEF NormalizeCooldown, history
  <2>3. ASSUME NEW q \in Provider, MarkProviderSuccess(w, q)
        PROVE  Recorded(p)'
    <3>1. db'[p] = db[p] \/ db'[p] = SuccessRow(db[p])
      BY <2>3 DEF MarkProviderSuccess, TypeOK
    <3>2. QED
      BY <1>2, <2>3, <3>1, Zenon DEF MarkProviderSuccess
  <2>4. ASSUME NEW q \in Provider, NEW exc \in Exception, NEW m \in Message,
               MarkProviderFailure(w, q, exc, m)
        PROVE  Recorded(p)'
    <3>1. db'[p] = db[p] \/ db'[p] = FailureRow(db[p], mem[w][p], p, exc, m)
      BY <2>4 DEF MarkProviderFailure, TypeOK
    <3>2. QED
      BY <1>2, <2>4, <3>1, Zenon DEF MarkProviderFailure
  <2>5. QED
    BY <1>3, <1>4, <2>1, <2>2, <2>3, <2>4, Zenon DEF WorkerStep, StartRun, SkipInCooldown,
       CaptureNow, SuccessSaveFails, AbortRun, history
<1>5. ASSUME NEW v \in Viewer, ClearExpired(v) PROVE Recorded(p)'
  <2>1. db'[p] = db[p] \/ db'[p] = [db[p] EXCEPT !.cooldownUntil = Null]
    BY <1>5 DEF ClearExpired
  <2>2. QED
    BY <1>2, <1>5, <2>1, Zenon DEF ClearExpired, history
<1>6. ASSUME SyncDefaultProviders PROVE Recorded(p)'
  <2>1. db'[p] = [db[p] EXCEPT !.isActive = TRUE]
    BY <1>6 DEF SyncDefaultProviders
  <2>2. QED
    BY <1>2, <1>6, <2>1, Zenon DEF SyncDefaultProviders, history
<1>7. ASSUME UNCHANGED <<db, lastGrant>> PROVE Recorded(p)'
  BY <1>1, <1>7 DEF Recorded
<1>8. ASSUME NEW a \in Admin, NEW q \in Provider, NEW r \in Posted(form[a][q]),
             AdminSave(a, q, r)
      PROVE  Recorded(p)'
  <2>1. CASE p = q
    <3>1. form[a][p] \in Row
      BY DEF TypeOK
    <3>2. r.lastPolledAt \in Time
      BY <2>1, <3>1, PostedType, ConstantsAssumption DEF Row
    <3>3. db'[p] = r /\ lastGrant'[p] = SetBack(p, r.lastPolledAt)
      BY <1>8, <2>1 DEF AdminSave, TypeOK
    <3>4. QED
      BY <3>2, <3>3, SetBackRecorded DEF Recorded
  <2>2. CASE p # q
    BY <1>1, <1>8, <2>2 DEF AdminSave, TypeOK, Recorded
  <2>3. QED
    BY <2>1, <2>2
<1>9. QED
  BY <1>4, <1>5, <1>6, <1>7, <1>8, Zenon DEF Next, Tick, FindExpired, AdminOpen, vars, history

(* Whatever stale copies, delays and forced checks interleave, an unforced   *)
(* poll of a throttled provider keeps its distance from the unforced poll    *)
(* before it, as long as nobody has set last_polled_at back behind that one. *)
THEOREM ThrottleSpacesSlots == Spec => SlotSpacing
<1>1. Init => GrantsAreRecorded
  BY DEF Init, GrantsAreRecorded, Recorded, NewRow
<1>2. TypeOK /\ GrantsAreRecorded /\ [Next]_vars => GrantsAreRecorded'
  BY GrantsStayRecorded
<1>3. TypeOK /\ GrantsAreRecorded /\ [Next]_vars
         => [\A w \in Worker, p \in Provider :
                UnforcedGrant(w, p) /\ MinPollInterval[p] > 0 /\ lastGrant[p] # Null
                   => stamp[w] >= lastGrant[p] + MinPollInterval[p]]_vars
  <2> SUFFICES ASSUME TypeOK, GrantsAreRecorded, [Next]_vars,
                      NEW w \in Worker, NEW p \in Provider,
                      UnforcedGrant(w, p), MinPollInterval[p] > 0, lastGrant[p] # Null
               PROVE  stamp[w] >= lastGrant[p] + MinPollInterval[p]
    OBVIOUS
  <2>1. PICK q \in Provider :
           IsNext(w, q) /\ (force[w] \/ MinPollInterval[q] = 0 \/ SlotIsFree(w, q))
    BY GrantStep DEF UnforcedGrant
  <2>2. p = q
    BY <2>1, NextIsUnique DEF UnforcedGrant
  <2>3. MinPollInterval[p] \in Nat
    BY ConstantsAssumption DEF ConstantsAssumption
  <2>4. SlotIsFree(w, p)
    BY <2>1, <2>2, <2>3 DEF UnforcedGrant
  <2>5. /\ db[p].lastPolledAt # Null /\ lastGrant[p] <= db[p].lastPolledAt
        /\ db[p].lastPolledAt <= stamp[w] - MinPollInterval[p]
    BY <2>4, Zenon DEF SlotIsFree, GrantsAreRecorded, Recorded
  <2>6. lastGrant[p] \in Int /\ stamp[w] \in Int /\ db[p].lastPolledAt \in Int
    BY DEF TypeOK, Time, Null, Row
  <2>7. QED
    BY <2>3, <2>5, <2>6
<1>4. QED
  BY <1>1, <1>2, <1>3, TypeCorrect, PTL DEF Spec, SlotSpacing

-----------------------------------------------------------------------------
(* Who writes what.  A step of another process leaves a worker's loop and a  *)
(* request's ids alone; if it writes the failure fields of a row that the    *)
(* process has read, that process is overtaken.                              *)
ViewerStep(v) == FindExpired(v) \/ ClearExpired(v)

(* Only its own steps move a worker. *)
LEMMA WorkersStayPut ==
    ASSUME TypeOK, [Next]_vars, NEW w \in Worker, ~WorkerStep(w)
    PROVE  /\ pc'[w] = pc[w] /\ force'[w] = force[w]
           /\ pending'[w] = pending[w] /\ mem'[w] = mem[w]
<1> DEFINE Put == /\ pc'[w] = pc[w] /\ force'[w] = force[w]
                  /\ pending'[w] = pending[w] /\ mem'[w] = mem[w]
<1>1. ASSUME NEW v \in Worker, v # w, NEW p \in Provider, NextProvider(v, p) PROVE Put
  <2>1. pc'[w] = pc[w] /\ pending'[w] = pending[w] /\ mem'[w] = mem[w]
    BY <1>1 DEF NextProvider, TypeOK
  <2>2. force'[w] = force[w]
    BY <1>1, Zenon DEF NextProvider, TypeOK
  <2>3. QED
    BY <2>1, <2>2
<1>2. ASSUME NEW v \in Worker, v # w, NEW f \in BOOLEAN, StartRun(v, f) PROVE Put
  <2>1. pc'[w] = pc[w] /\ pending'[w] = pending[w] /\ mem'[w] = mem[w]
    BY <1>2 DEF StartRun, TypeOK
  <2>2. force'[w] = force[w]
    BY <1>2, Zenon DEF StartRun, TypeOK
  <2>3. QED
    BY <2>1, <2>2
<1>3. ASSUME NEW v \in Worker, v # w, NEW p \in Provider,
             NormalizeCooldown(v, p) \/ SuccessSaveFails(v, p)
      PROVE  Put
  BY <1>3 DEF NormalizeCooldown, SuccessSaveFails, TypeOK
<1>4. ASSUME NEW v \in Worker, v # w, NEW p \in Provider, ClaimProviderPollSlot(v, p)
      PROVE  Put
  <2>1. CASE NextProvider(v, p)
    BY <1>1, <1>4, <2>1
  <2>2. CASE /\ mem' = [mem EXCEPT ![v][p].lastPolledAt = stamp[v]]
             /\ pc' = [pc EXCEPT ![v] = "search"]
             /\ UNCHANGED <<force, pending>>
    BY <1>4, <2>2 DEF TypeOK
  <2>3. QED
    BY <1>4, <2>1, <2>2, Zenon DEF ClaimProviderPollSlot
<1>5. ASSUME NEW v \in Worker, v # w, AbortRun(v) PROVE Put
  <2>1. pc'[w] = pc[w] /\ pending'[w] = pending[w] /\ mem'[w] = mem[w]
    BY <1>5 DEF AbortRun, TypeOK
  <2>2. force'[w] = force[w]
    BY <1>5, Zenon DEF AbortRun, TypeOK
  <2>3. QED
    BY <2>1, <2>2
<1>6. ASSUME NEW v \in Worker, WorkerStep(v) PROVE Put
  <2>1. v # w /\ (CaptureNow(v) => Put)
    BY <1>6 DEF CaptureNow
  <2> HIDE DEF Put
  <2>2. QED
    BY <1>1, <1>2, <1>3, <1>4, <1>5, <1>6, <2>1, Zenon DEF WorkerStep, SkipInCooldown,
       MarkProviderSuccess, MarkProviderFailure
<1>7. ASSUME UNCHANGED workerVars PROVE Put
  BY <1>7 DEF workerVars
<1>8. QED
  BY <1>6, <1>7, Zenon DEF Next, Tick, FindExpired, ClearExpired, AdminOpen, AdminSave,
     SyncDefaultProviders, vars

(* Only its own steps change the ids of a request. *)
LEMMA ViewersStayPut ==
    ASSUME TypeOK, [Next]_vars, NEW v \in Viewer, ~ViewerStep(v)
    PROVE  expired'[v] = expired[v]
<1>1. ASSUME NEW u \in Viewer, ViewerStep(u) PROVE expired'[v] = expired[v]
  <2>1. u # v
    BY <1>1
  <2>2. QED
    BY <1>1, <2>1 DEF ViewerStep, FindExpired, ClearExpired, TypeOK
<1>2. ASSUME UNCHANGED expired PROVE expired'[v] = expired[v]
  BY <1>2
<1>3. ASSUME NEW w \in Worker, WorkerStep(w) PROVE UNCHANGED expired
  BY <1>3, Zenon DEF WorkerStep, StartRun, SkipInCooldown, NormalizeCooldown, CaptureNow,
     ClaimProviderPollSlot, MarkProviderSuccess, SuccessSaveFails, MarkProviderFailure, AbortRun
<1>4. QED
  BY <1>1, <1>2, <1>3, Zenon DEF ViewerStep, Next, Tick, AdminOpen, AdminSave,
     SyncDefaultProviders, vars

(* What a step can do to the fields of a failure, and who does it.           *)
RowKept(p) ==
    /\ db'[p].failures = db[p].failures /\ db'[p].cooldownUntil = db[p].cooldownUntil
    /\ db'[p].error = db[p].error /\ streak'[p] = streak[p]
RowCleared(p) ==
    /\ db'[p].failures = db[p].failures /\ db'[p].cooldownUntil = Null
    /\ db'[p].error = db[p].error /\ streak'[p] = streak[p]
Normalized(w, p) ==
    /\ WorkerStep(w)
    /\ pc[w] = "check" /\ p \in pending[w] /\ ~Live(mem[w][p])
    /\ mem[w][p].cooldownUntil # Null
RowSucceeded(p) ==
    /\ db'[p].failures = 0 /\ db'[p].cooldownUntil = Null /\ db'[p].error = "none"
    /\ streak'[p] = 0
RowFailed(w, p, exc) ==
    /\ WorkerStep(w) /\ Overtake(w, p)
    /\ IsNext(w, p) /\ pc[w] \in {"search", "failed"}
    /\ db'[p].failures = mem[w][p].failures + 1
    /\ db'[p].cooldownUntil = FailureWindow(mem[w][p], p, exc)
    /\ streak'[p] = StreakAfterFailure(w, p)

PolledChange(p) ==
    \/ RowKept(p)
    \/ RowCleared(p) /\ \E w \in Worker : Normalized(w, p)
    \/ RowCleared(p) /\ \E v \in Viewer : p \in expired[v] /\ ClearExpired(v)
    \/ RowSucceeded(p) /\ \E w \in Worker : MarkProviderSuccess(w, p)
    \/ \E w \in Worker, exc \in Exception : RowFailed(w, p, exc)
    \/ streak'[p] = Null /\ \E a \in Admin : \E r \in Posted(form[a][p]) : AdminSave(a, p, r)

(* Only a poll, a clear or a form touches those fields. *)
LEMMA StepsPoll ==
    ASSUME TypeOK, [Next]_vars, NEW p \in Provider
    PROVE  PolledChange(p)
<1>1. db[p] \in Row /\ \A w \in Worker : mem[w][p] \in Copy
  BY DEF TypeOK
<1>2. ASSUME db'[p] = db[p], streak'[p] = streak[p] PROVE PolledChange(p)
  BY <1>2, Zenon DEF PolledChange, RowKept
<1>3. ASSUME NEW w \in Worker, NEW q \in Provider, NormalizeCooldown(w, q)
      PROVE  PolledChange(p)
  <2>1. CASE db'[p] = db[p]
    BY <1>2, <1>3, <2>1 DEF NormalizeCooldown, history
  <2>2. CASE db'[p] # db[p]
    <3>1. /\ q = p /\ ~force[w] /\ mem[w][p].cooldownUntil # Null
          /\ db'[p] = [db[p] EXCEPT !.cooldownUntil = Null]
      BY <1>3, <2>2 DEF NormalizeCooldown, TypeOK
    <3>2. WorkerStep(w)
      BY <1>3, Zenon DEF WorkerStep
    <3>3. Normalized(w, p)
      BY <1>3, <3>1, <3>2 DEF NormalizeCooldown, Normalized, ProviderIsInCooldown, IsNext
    <3>4. RowCleared(p)
      BY <1>1, <1>3, <3>1, RowFields DEF NormalizeCooldown, RowCleared, history
    <3>5. QED
      BY <3>3, <3>4, Zenon DEF PolledChange
  <2>3. QED
    BY <2>1, <2>2
<1>4. ASSUME NEW w \in Worker, NEW q \in Provider, ClaimProviderPollSlot(w, q)
      PROVE  PolledChange(p)
  <2>1. db' = db \/ db' = [db EXCEPT ![q].lastPolledAt = stamp[w]]
    BY <1>4 DEF ClaimProviderPollSlot, Claimed
  <2>2. db'[p] = db[p] \/ db'[p] = [db[p] EXCEPT !.lastPolledAt = stamp[w]]
    BY <2>1 DEF TypeOK
  <2>3. stamp[w] \in Time /\ streak' = streak
    BY <1>4 DEF TypeOK, ClaimProviderPollSlot
  <2>4. CASE db'[p] = [db[p] EXCEPT !.lastPolledAt = stamp[w]]
    <3>1. RowKept(p)
      BY <1>1, <2>3, <2>4, RowFields DEF RowKept
    <3>2. QED
      BY <3>1, Zenon DEF PolledChange
  <2>5. QED
    BY <1>2, <2>2, <2>3, <2>4
<1>5. ASSUME NEW w \in Worker, NEW q \in Provider, MarkProviderSuccess(w, q)
      PROVE  PolledChange(p)
  <2>1. CASE q = p
    <3>1. db'[p] = SuccessRow(db[p]) /\ streak'[p] = 0
      BY <1>5, <2>1 DEF MarkProviderSuccess, TypeOK
    <3>2. RowSucceeded(p)
      BY <1>1, <3>1, RowFields DEF RowSucceeded
    <3>3. QED
      BY <1>5, <2>1, <3>2, Zenon DEF PolledChange
  <2>2. CASE q # p
    BY <1>2, <1>5, <2>2 DEF MarkProviderSuccess, TypeOK
  <2>3. QED
    BY <2>1, <2>2
<1>6. ASSUME NEW w \in Worker, NEW q \in Provider, NEW exc \in Exception,
             NEW m \in Message, MarkProviderFailure(w, q, exc, m)
      PROVE  PolledChange(p)
  <2>1. CASE q = p
    <3>1. /\ db'[p] = FailureRow(db[p], mem[w][p], p, exc, m)
          /\ streak'[p] = StreakAfterFailure(w, p)
      BY <1>6, <2>1 DEF MarkProviderFailure, TypeOK
    <3>2. /\ db'[p].failures = mem[w][p].failures + 1
          /\ db'[p].cooldownUntil = FailureWindow(mem[w][p], p, exc)
      BY <1>1, <3>1, RowFields
    <3>3. IsNext(w, p) /\ pc[w] \in {"search", "failed"} /\ Overtake(w, p)
      BY <1>6, <2>1 DEF MarkProviderFailure
    <3>4. WorkerStep(w)
      BY <1>6, Zenon DEF WorkerStep
    <3>5. RowFailed(w, p, exc)
      BY <3>1, <3>2, <3>3, <3>4, Zenon DEF RowFailed
    <3>6. QED
      BY <3>5, Zenon DEF PolledChange
  <2>2. CASE q # p
    BY <1>2, <1>6, <2>2 DEF MarkProviderFailure, TypeOK
  <2>3. QED
    BY <2>1, <2>2
<1>7. ASSUME NEW w \in Worker, WorkerStep(w) PROVE PolledChange(p)
  BY <1>2, <1>3, <1>4, <1>5, <1>6, <1>7, Zenon DEF WorkerStep, StartRun, SkipInCooldown,
     CaptureNow, SuccessSaveFails, AbortRun, history
<1>8. ASSUME NEW v \in Viewer, ClearExpired(v) PROVE PolledChange(p)
  <2>1. CASE p \in expired[v]
    <3>1. db'[p] = [db[p] EXCEPT !.cooldownUntil = Null]
      BY <1>8, <2>1 DEF ClearExpired
    <3>2. RowCleared(p)
      BY <1>1, <1>8, <3>1, RowFields DEF ClearExpired, RowCleared
    <3>3. QED
      BY <1>8, <2>1, <3>2, Zenon DEF PolledChange
  <2>2. CASE p \notin expired[v]
    BY <1>2, <1>8, <2>2 DEF ClearExpired
  <2>3. QED
    BY <2>1, <2>2
<1>9. ASSUME SyncDefaultProviders PROVE PolledChange(p)
  <2>1. db'[p] = [db[p] EXCEPT !.isActive = TRUE]
    BY <1>9 DEF SyncDefaultProviders
  <2>2. RowKept(p)
    BY <1>1, <1>9, <2>1, RowFields DEF SyncDefaultProviders, RowKept, history
  <2>3. QED
    BY <2>2, Zenon DEF PolledChange
<1>10. ASSUME NEW a \in Admin, NEW q \in Provider, NEW r \in Posted(form[a][q]),
              AdminSave(a, q, r)
       PROVE  PolledChange(p)
  <2>1. CASE q = p
    <3>1. streak'[p] = Null
      BY <1>10, <2>1 DEF AdminSave, TypeOK
    <3>2. QED
      BY <1>10, <2>1, <3>1, Zenon DEF PolledChange
  <2>2. CASE q # p
    BY <1>2, <1>10, <2>2 DEF AdminSave, TypeOK
  <2>3. QED
    BY <2>1, <2>2
<1>11. QED
  BY <1>2, <1>7, <1>8, <1>9, <1>10, Zenon DEF Next, Tick, FindExpired, AdminOpen, vars, history

-----------------------------------------------------------------------------
(* The copies and ids that nobody has overtaken are as good as the rows.     *)

(* Writing the failure fields of a row overtakes all others that go by it,   *)
(* and nobody but a process itself puts down what it was overtaken on.       *)
LEMMA OthersAreOvertaken ==
    ASSUME TypeOK, NEW y, NEW p \in Provider, PutDown(y, p) \/ Overtake(y, p),
           NEW x \in Worker \cup Viewer, x # y, NEW q \in Provider
    PROVE  /\ q \in overtaken[x] => q \in overtaken'[x]
           /\ Overtake(y, p) /\ x \in Readers(p) => p \in overtaken'[x]
<1>1. CASE PutDown(y, p)
  BY <1>1 DEF PutDown, Overtake, TypeOK
<1>2. CASE Overtake(y, p)
  BY <1>2 DEF Overtake, TypeOK
<1>3. CASE PutDown(y, p) /\ Overtake(y, p)
  BY <1>2, <1>3
<1>4. ASSUME Overtake(y, p), x \in Readers(p) PROVE p \in overtaken'[x]
  BY <1>4 DEF Overtake
<1>5. QED
  BY <1>1, <1>2, <1>4

(* What others do to a row that a process has read.                          *)
Undisturbed(x, q) ==
    /\ q \notin overtaken[x]
    /\ db'[q].failures = db[q].failures
    /\ db'[q].cooldownUntil \in {db[q].cooldownUntil, Null}

(* A step of anyone else either overtakes the process or leaves the fields   *)
(* it has read as they are, a cooldown cleared apart.                        *)
LEMMA OthersStep ==
    ASSUME TypeOK, [Next]_vars, NEW x \in Worker \cup Viewer, NEW q \in Provider,
           x \in Readers(q), q \notin overtaken'[x],
           x \in Worker => ~WorkerStep(x), x \in Viewer => ~ViewerStep(x)
    PROVE  Undisturbed(x, q)
<1>1. db[q] \in Row /\ \A w \in Worker : mem[w][q] \in Copy
  BY DEF TypeOK
<1>2. ASSUME NEW r, r \in {db[q], [db[q] EXCEPT !.cooldownUntil = Null],
                           [db[q] EXCEPT !.isActive = TRUE]}
                   \cup {[db[q] EXCEPT !.lastPolledAt = t] : t \in Time}
      PROVE  r.failures = db[q].failures /\ r.cooldownUntil \in {db[q].cooldownUntil, Null}
  <2>1. ASSUME NEW t \in Time, r = [db[q] EXCEPT !.lastPolledAt = t]
        PROVE  r.failures = db[q].failures /\ r.cooldownUntil = db[q].cooldownUntil
    BY <1>1, <2>1, RowFields
  <2>2. ASSUME r = [db[q] EXCEPT !.cooldownUntil = Null]
        PROVE  r.failures = db[q].failures /\ r.cooldownUntil = Null
    BY <1>1, <2>2, RowFields
  <2>3. ASSUME r = [db[q] EXCEPT !.isActive = TRUE]
        PROVE  r.failures = db[q].failures /\ r.cooldownUntil = db[q].cooldownUntil
    BY <1>1, <2>3, RowFields
  <2>4. \/ r = db[q]
        \/ r = [db[q] EXCEPT !.cooldownUntil = Null]
        \/ r = [db[q] EXCEPT !.isActive = TRUE]
        \/ \E t \in Time : r = [db[q] EXCEPT !.lastPolledAt = t]
    BY <1>2
  <2>5. QED
    BY <2>1, <2>2, <2>3, <2>4, Zenon
<1>3. ASSUME UNCHANGED overtaken,
             db'[q] \in {db[q], [db[q] EXCEPT !.cooldownUntil = Null],
                         [db[q] EXCEPT !.isActive = TRUE]}
                   \cup {[db[q] EXCEPT !.lastPolledAt = t] : t \in Time}
      PROVE  Undisturbed(x, q)
  BY <1>2, <1>3 DEF Undisturbed
<1>4. ASSUME NEW y, y # x, NEW p \in Provider, PutDown(y, p), UNCHANGED db
      PROVE  Undisturbed(x, q)
  BY <1>4, OthersAreOvertaken DEF Undisturbed
<1>5. ASSUME NEW y, y # x, NEW p \in Provider, NEW r, Overtake(y, p), db' = [db EXCEPT ![p] = r]
      PROVE  Undisturbed(x, q)
  <2>1. p # q
    BY <1>5, OthersAreOvertaken
  <2>2. q \notin overtaken[x]
    BY <1>5, OthersAreOvertaken
  <2>3. db'[q] = db[q]
    BY <1>5, <2>1 DEF TypeOK
  <2>4. QED
    BY <2>2, <2>3 DEF Undisturbed
<1>6. ASSUME NEW w \in Worker, w # x, WorkerStep(w) PROVE Undisturbed(x, q)
  <2>1. ASSUME NEW p \in Provider, NormalizeCooldown(w, p) PROVE Undisturbed(x, q)
    <3>1. db'[q] = db[q] \/ db'[q] = [db[q] EXCEPT !.cooldownUntil = Null]
      BY <2>1 DEF NormalizeCooldown, TypeOK
    <3>2. QED
      BY <1>3, <2>1, <3>1 DEF NormalizeCooldown, history
  <2>2. ASSUME NEW p \in Provider, ClaimProviderPollSlot(w, p) PROVE Undisturbed(x, q)
    <3>1. CASE PutDown(w, p) /\ UNCHANGED db
      BY <1>4, <1>6, <3>1
    <3>2. CASE db' = [db EXCEPT ![p] = Claimed(@, mem[w][p], stamp[w])] /\ UNCHANGED overtaken
      <4>1. db'[q] = db[q] \/ db'[q] = [db[q] EXCEPT !.lastPolledAt = stamp[w]]
        BY <3>2 DEF TypeOK, Claimed
      <4>2. stamp[w] \in Time
        BY DEF TypeOK
      <4>3. QED
        BY <1>3, <3>2, <4>1, <4>2
    <3>3. QED
      BY <2>2, <3>1, <3>2, Zenon DEF ClaimProviderPollSlot
  <2>3. ASSUME NEW p \in Provider, MarkProviderSuccess(w, p) PROVE Undisturbed(x, q)
    BY <1>5, <1>6, <2>3 DEF MarkProviderSuccess
  <2>4. ASSUME NEW p \in Provider, NEW exc \in Exception, NEW m \in Message,
               MarkProviderFailure(w, p, exc, m)
        PROVE  Undisturbed(x, q)
    BY <1>5, <1>6, <2>4 DEF MarkProviderFailure
  <2>5. ASSUME AbortRun(w) PROVE Undisturbed(x, q)
    <3>1. overtaken'[x] = overtaken[x]
      BY <1>6, <2>5 DEF AbortRun, TypeOK
    <3>2. QED
      BY <1>1, <2>5, <3>1 DEF AbortRun, Undisturbed
  <2>6. ASSUME UNCHANGED <<db, overtaken>> PROVE Undisturbed(x, q)
    BY <1>3, <2>6
  <2>7. ASSUME NEW p \in Provider, SkipInCooldown(w, p) PROVE Undisturbed(x, q)
    BY <1>4, <1>6, <2>7 DEF SkipInCooldown
  <2>8. QED
    BY <1>6, <2>1, <2>2, <2>3, <2>4, <2>5, <2>6, <2>7, Zenon DEF WorkerStep, StartRun,
       CaptureNow, SuccessSaveFails, history
<1>7. ASSUME NEW v \in Viewer, v # x, ViewerStep(v) PROVE Undisturbed(x, q)
  <2>1. CASE FindExpired(v)
    BY <1>3, <2>1 DEF FindExpired, history
  <2>2. CASE ClearExpired(v)
    <3>1. db'[q] = db[q] \/ db'[q] = [db[q] EXCEPT !.cooldownUntil = Null]
      BY <2>2 DEF ClearExpired
    <3>2. overtaken'[x] = overtaken[x]
      BY <1>7, <2>2 DEF ClearExpired, TypeOK
    <3>3. QED
      BY <1>2, <3>1, <3>2 DEF Undisturbed
  <2>3. QED
    BY <1>7, <2>1, <2>2 DEF ViewerStep
<1>8. ASSUME NEW a \in Admin, NEW p \in Provider, NEW r, AdminSave(a, p, r)
      PROVE  Undisturbed(x, q)
  <2>1. a # x
    BY ConstantsAssumption DEF ConstantsAssumption
  <2>2. QED
    BY <1>5, <1>8, <2>1 DEF AdminSave
<1>9. ASSUME SyncDefaultProviders PROVE Undisturbed(x, q)
  <2>1. db'[q] = [db[q] EXCEPT !.isActive = TRUE]
    BY <1>9 DEF SyncDefaultProviders
  <2>2. QED
    BY <1>3, <1>9, <2>1 DEF SyncDefaultProviders, history
<1>10. ASSUME UNCHANGED <<db, overtaken>> PROVE Undisturbed(x, q)
  BY <1>3, <1>10
<1>11. ASSUME NEW w \in Worker, WorkerStep(w) PROVE w # x
  BY <1>11
<1>12. ASSUME NEW v \in Viewer, ViewerStep(v) PROVE v # x
  BY <1>12
<1>13. QED
  BY <1>6, <1>7, <1>8, <1>9, <1>10, <1>11, <1>12, Zenon DEF Next, ViewerStep, Tick, AdminOpen,
     vars, history

(* A success that could not be saved has reset the copy of the provider the  *)
(* worker is at, not its row.                                                *)
HasReset(w, p) == pc[w] = "failed" /\ IsNext(w, p)

Agrees(w, p) ==
    /\ HasReset(w, p) => mem[w][p].failures = 0
    /\ ~HasReset(w, p) => /\ mem[w][p].failures = db[p].failures
                          /\ db[p].cooldownUntil \in {mem[w][p].cooldownUntil, Null}
    /\ pc[w] = "claim" /\ IsNext(w, p) /\ ~force[w] => mem[w][p].cooldownUntil = Null
CopiesAgree ==
    \A w \in Worker, p \in Provider : p \in pending[w] /\ p \notin overtaken[w] => Agrees(w, p)

(* A copy agrees with its row as long as the worker stays where it is and    *)
(* the row keeps its failures and its cooldown, or loses the cooldown.       *)
LEMMA AgreesWhileResting ==
    ASSUME NEW w \in Worker, NEW p \in Provider, Agrees(w, p),
           pc'[w] = pc[w], force'[w] = force[w], pending'[w] = pending[w],
           mem'[w][p] = mem[w][p], db'[p].failures = db[p].failures,
           db'[p].cooldownUntil \in {db[p].cooldownUntil, Null}
    PROVE  Agrees(w, p)'
  BY DEF Agrees, HasReset, IsNext

(* The copies of the providers still to come agree when one is left behind.  *)
LEMMA AgreesAfterNext ==
    ASSUME TypeOK, CopiesAgree, NEW w \in Worker, NEW p \in Provider,
           IsNext(w, p), NextProvider(w, p), PutDown(w, p) \/ Overtake(w, p),
           NEW q \in Provider, q \in pending'[w], q \notin overtaken'[w],
           db'[q] = db[q] \/ q = p
    PROVE  Agrees(w, q)'
<1>1. q # p /\ q \in pending[w]
  BY DEF NextProvider, TypeOK
<1>2. mem'[w][q] = mem[w][q]
  BY <1>1 DEF NextProvider, TypeOK
<1>3. pc'[w] = "check"
  <2>1. pending[w] # {p}
    BY <1>1
  <2>2. QED
    BY <2>1 DEF NextProvider, TypeOK
<1>4. ~HasReset(w, q)
  BY <1>1, NextIsUnique DEF HasReset
<1>5. q \notin overtaken[w]
  BY <1>1 DEF PutDown, Overtake, TypeOK
<1>6. Agrees(w, q)
  BY <1>1, <1>5 DEF CopiesAgree
<1>7. /\ mem[w][q].failures = db[q].failures
      /\ db[q].cooldownUntil \in {mem[w][q].cooldownUntil, Null}
  BY <1>4, <1>6 DEF Agrees
<1>8. QED
  BY <1>1, <1>2, <1>3, <1>7 DEF Agrees, HasReset

(* Copies that nobody has overtaken agree with the rows after every step.   *)
LEMMA CopiesStayTrue ==
    ASSUME TypeOK, CopiesAgree, [Next]_vars
    PROVE  CopiesAgree'
<1> SUFFICES ASSUME NEW w \in Worker, NEW q \in Provider,
                    q \in pending'[w], q \notin overtaken'[w]
             PROVE  Agrees(w, q)'
  BY Zenon DEF CopiesAgree
<1>1. ASSUME ~WorkerStep(w) PROVE Agrees(w, q)'
  <2>1. /\ pc'[w] = pc[w] /\ force'[w] = force[w]
        /\ pending'[w] = pending[w] /\ mem'[w] = mem[w]
    BY <1>1, WorkersStayPut
  <2>2. w \in Readers(q) /\ w \notin Viewer
    BY <2>1, ConstantsAssumption DEF Readers, ConstantsAssumption
  <2>3. Undisturbed(w, q)
    BY <1>1, <2>2, OthersStep
  <2>4. Agrees(w, q)
    BY <2>1, <2>3 DEF CopiesAgree, Undisturbed
  <2>5. QED
    BY <2>1, <2>3, <2>4, AgreesWhileResting DEF Undisturbed
<1>2. db[q] \in Row /\ mem[w][q] \in Copy
  BY DEF TypeOK
<1>3. ASSUME NEW f \in BOOLEAN, StartRun(w, f) PROVE Agrees(w, q)'
  <2>1. pc'[w] = "check" /\ pending'[w] = {p \in Provider : db[p].isActive}
    BY <1>3 DEF StartRun, TypeOK
  <2>2. mem'[w][q] = CopyOf(db[q])
    BY <1>3, <2>1 DEF StartRun, TypeOK
  <2>3. CopyOf(db[q]).failures = db[q].failures /\ CopyOf(db[q]).cooldownUntil = db[q].cooldownUntil
    BY DEF CopyOf
  <2>4. db' = db
    BY <1>3 DEF StartRun
  <2>5. QED
    BY <2>1, <2>2, <2>3, <2>4 DEF Agrees, HasReset
<1>4. ASSUME NEW p \in Provider, SkipInCooldown(w, p) PROVE Agrees(w, q)'
  BY <1>4, AgreesAfterNext DEF SkipInCooldown
<1>5. ASSUME NEW p \in Provider, NormalizeCooldown(w, p) PROVE Agrees(w, q)'
  <2>1. /\ pc[w] = "check" /\ pc'[w] = "claim"
        /\ pending'[w] = pending[w] /\ force'[w] = force[w] /\ overtaken' = overtaken
    BY <1>5 DEF NormalizeCooldown, TypeOK, history
  <2>2. Agrees(w, q) /\ ~HasReset(w, q)
    BY <2>1 DEF CopiesAgree, HasReset
  <2>3. CASE q = p
    <3>1. CASE ~force[w] /\ mem[w][p].cooldownUntil # Null
      <4>1. /\ db'[q] = [db[q] EXCEPT !.cooldownUntil = Null]
            /\ mem'[w][q] = [mem[w][q] EXCEPT !.cooldownUntil = Null]
        <5>1. /\ db' = [db EXCEPT ![q].cooldownUntil = Null]
              /\ mem' = [mem EXCEPT ![w][q].cooldownUntil = Null]
          BY <1>5, <2>3, <3>1 DEF NormalizeCooldown
        <5>2. QED
          BY <5>1 DEF TypeOK
      <4>2. /\ db'[q].cooldownUntil = Null /\ db'[q].failures = db[q].failures
            /\ mem'[w][q].cooldownUntil = Null /\ mem'[w][q].failures = mem[w][q].failures
        BY <1>2, <4>1 DEF Row, Copy
      <4>3. QED
        BY <2>1, <2>2, <4>2 DEF Agrees, HasReset
    <3>2. CASE ~(~force[w] /\ mem[w][p].cooldownUntil # Null)
      <4>1. db' = db /\ mem' = mem
        BY <1>5, <3>2 DEF NormalizeCooldown
      <4>2. QED
        BY <2>1, <2>2, <2>3, <3>2, <4>1 DEF Agrees, HasReset
    <3>3. QED
      BY <3>1, <3>2
  <2>4. CASE q # p
    <3>1. db'[q] = db[q] /\ mem'[w][q] = mem[w][q]
      BY <1>5, <2>4 DEF NormalizeCooldown, TypeOK
    <3>2. ~IsNext(w, q) /\ IsNext(w, q)' = IsNext(w, q)
      BY <1>5, <2>1, <2>4, NextIsUnique DEF NormalizeCooldown, IsNext
    <3>3. QED
      BY <2>1, <2>2, <3>1, <3>2 DEF Agrees, HasReset
  <2>5. QED
    BY <2>3, <2>4
<1>6. ASSUME CaptureNow(w) PROVE Agrees(w, q)'
  <2>1. Agrees(w, q)
    BY <1>6 DEF CaptureNow, CopiesAgree, history
  <2>2. QED
    BY <1>6, <2>1, AgreesWhileResting DEF CaptureNow
<1>7. ASSUME NEW p \in Provider, ClaimProviderPollSlot(w, p) PROVE Agrees(w, q)'
  <2>1. CASE NextProvider(w, p) /\ PutDown(w, p) /\ UNCHANGED <<db, lastGrant>>
    BY <1>7, <2>1, AgreesAfterNext DEF ClaimProviderPollSlot
  <2>2. CASE /\ db' = [db EXCEPT ![p] = Claimed(@, mem[w][p], stamp[w])]
             /\ mem' = [mem EXCEPT ![w][p].lastPolledAt = stamp[w]]
             /\ pc' = [pc EXCEPT ![w] = "search"]
             /\ UNCHANGED <<force, pending, overtaken>>
    <3>1. q \in pending[w] /\ pc'[w] = "search" /\ pc[w] = "claim"
      BY <1>7, <2>2 DEF ClaimProviderPollSlot, TypeOK
    <3>2. Agrees(w, q) /\ ~HasReset(w, q)
      BY <2>2, <3>1 DEF CopiesAgree, HasReset
    <3>3. /\ db'[q] = db[q] \/ db'[q] = [db[q] EXCEPT !.lastPolledAt = stamp[w]]
          /\ mem'[w][q] = mem[w][q] \/ mem'[w][q] = [mem[w][q] EXCEPT !.lastPolledAt = stamp[w]]
      BY <2>2 DEF TypeOK, Claimed
    <3>4. /\ db'[q].cooldownUntil = db[q].cooldownUntil /\ db'[q].failures = db[q].failures
          /\ mem'[w][q].cooldownUntil = mem[w][q].cooldownUntil
          /\ mem'[w][q].failures = mem[w][q].failures
      BY <1>2, <3>3 DEF Row, Copy
    <3>5. QED
      BY <3>1, <3>2, <3>4 DEF Agrees, HasReset
  <2>3. QED
    BY <1>7, <2>1, <2>2, Zenon DEF ClaimProviderPollSlot
<1>8. ASSUME NEW p \in Provider, MarkProviderSuccess(w, p) PROVE Agrees(w, q)'
  <2>1. db'[q] = db[q] \/ q = p
    BY <1>8 DEF MarkProviderSuccess, TypeOK
  <2>2. QED
    BY <1>8, <2>1, AgreesAfterNext DEF MarkProviderSuccess
<1>9. ASSUME NEW p \in Provider, SuccessSaveFails(w, p) PROVE Agrees(w, q)'
  <2>1. /\ pc[w] = "search" /\ pc'[w] = "failed" /\ pending'[w] = pending[w] /\ db' = db
        /\ overtaken' = overtaken
    BY <1>9 DEF SuccessSaveFails, TypeOK, history
  <2>2. Agrees(w, q) /\ ~HasReset(w, q)
    BY <2>1 DEF CopiesAgree, HasReset
  <2>3. IsNext(w, p) /\ IsNext(w, q)' = IsNext(w, q)
    BY <1>9, <2>1 DEF SuccessSaveFails, IsNext
  <2>4. CASE q = p
    <3>1. mem'[w][q] = [mem[w][q] EXCEPT !.failures = 0, !.cooldownUntil = Null]
      BY <1>9, <2>4 DEF SuccessSaveFails, TypeOK
    <3>2. mem'[w][q].failures = 0
      BY <1>2, <3>1 DEF Copy
    <3>3. QED
      BY <2>1, <2>3, <2>4, <3>2 DEF Agrees, HasReset
  <2>5. CASE q # p
    <3>1. mem'[w][q] = mem[w][q]
      BY <1>9, <2>5 DEF SuccessSaveFails, TypeOK
    <3>2. ~IsNext(w, q)
      BY <2>3, <2>5, NextIsUnique
    <3>3. QED
      BY <2>1, <2>2, <2>3, <3>1, <3>2 DEF Agrees, HasReset
  <2>6. QED
    BY <2>4, <2>5
<1>10. ASSUME NEW p \in Provider, NEW exc \in Exception, NEW m \in Message,
              MarkProviderFailure(w, p, exc, m)
       PROVE  Agrees(w, q)'
  <2>1. db'[q] = db[q] \/ q = p
    BY <1>10 DEF MarkProviderFailure, TypeOK
  <2>2. QED
    BY <1>10, <2>1, AgreesAfterNext DEF MarkProviderFailure
<1>11. ~AbortRun(w)
  BY DEF AbortRun, TypeOK
<1>12. QED
  BY <1>1, <1>3, <1>4, <1>5, <1>6, <1>7, <1>8, <1>9, <1>10, <1>11, Zenon DEF WorkerStep

(* The ids of a request that nobody has overtaken are of expired cooldowns.  *)
IdsAreExpired ==
    \A v \in Viewer, p \in Provider :
        p \in expired[v] /\ p \notin overtaken[v] => ~Live(db[p])

(* They stay so until the request clears them. *)
LEMMA IdsStayExpired ==
    ASSUME TypeOK, TypeOK', IdsAreExpired, [Next]_vars
    PROVE  IdsAreExpired'
<1> SUFFICES ASSUME NEW v \in Viewer, NEW q \in Provider,
                    q \in expired'[v], q \notin overtaken'[v]
             PROVE  ~Live(db[q])'
  BY Zenon DEF IdsAreExpired
<1>1. CASE FindExpired(v)
  BY <1>1 DEF FindExpired, Live, TypeOK
<1>2. ~ClearExpired(v)
  BY DEF ClearExpired, TypeOK
<1>3. CASE ~FindExpired(v)
  <2>1. ~ViewerStep(v) /\ v \notin Worker
    BY <1>2, <1>3, ConstantsAssumption DEF ViewerStep, ConstantsAssumption
  <2>2. expired'[v] = expired[v]
    BY <2>1, ViewersStayPut
  <2>3. Undisturbed(v, q)
    BY <2>1, <2>2, OthersStep DEF Readers
  <2>4. ~Live(db[q])
    BY <2>2, <2>3 DEF IdsAreExpired, Undisturbed
  <2>5. now \in Nat /\ (now' = now \/ now' = now + 1) /\ db[q].cooldownUntil \in Time
    BY StepChanges DEF TypeOK, Row
  <2>6. QED
    BY <2>3, <2>4, <2>5 DEF Undisturbed, Live, Time, Null
<1>4. QED
  BY <1>1, <1>3

(* What processes have read and nobody has overtaken is true from the start. *)
LEMMA CopiesAlwaysAgree == Spec => [](CopiesAgree /\ IdsAreExpired)
<1>1. Init => CopiesAgree /\ IdsAreExpired
  BY DEF Init, CopiesAgree, IdsAreExpired
<1>2. TypeOK /\ TypeOK' /\ CopiesAgree /\ IdsAreExpired /\ [Next]_vars
         => (CopiesAgree /\ IdsAreExpired)'
  BY CopiesStayTrue, IdsStayExpired
<1>3. QED
  BY <1>1, <1>2, TypeCorrect, PTL DEF Spec

(* A recorded success leaves a clean row, whatever runs and requests that    *)
(* had read the row before still write.                                      *)
THEOREM SuccessStaysClean == Spec => []SuccessLeavesClean
<1>1. Init => SuccessLeavesClean
  BY DEF Init, SuccessLeavesClean, NewRow
<1>2. TypeOK /\ SuccessLeavesClean /\ [Next]_vars => SuccessLeavesClean'
  <2> SUFFICES ASSUME TypeOK, SuccessLeavesClean, [Next]_vars, NEW p \in Provider,
                      streak'[p] = 0
               PROVE  /\ db'[p].failures = 0 /\ db'[p].cooldownUntil = Null
                      /\ db'[p].error = "none"
    BY DEF SuccessLeavesClean
  <2>1. streak[p] = 0 => /\ db[p].failures = 0 /\ db[p].cooldownUntil = Null
                         /\ db[p].error = "none"
    BY DEF SuccessLeavesClean
  <2>2. \A w \in Worker, exc \in Exception : ~RowFailed(w, p, exc)
    <3> SUFFICES ASSUME NEW w \in Worker, streak'[p] = StreakAfterFailure(w, p) PROVE FALSE
      BY DEF RowFailed
    <3>1. streak[p] \in Time
      BY DEF TypeOK
    <3>2. QED
      BY <3>1 DEF StreakAfterFailure, Time, Null
  <2>3. PolledChange(p)
    BY StepsPoll
  <2>4. QED
    BY <2>1, <2>2, <2>3 DEF PolledChange, RowKept, RowCleared, RowSucceeded, Null
<1>3. QED
  BY <1>1, <1>2, TypeCorrect, PTL DEF Spec

(* consecutive_failures counts exactly as long as the workers that count     *)
(* have not been overtaken: a worker saves its own copy's count plus one.    *)
THEOREM FailuresAreCounted == Spec => []ExactFailureCount
<1>1. Init => ExactFailureCount
  BY DEF Init, ExactFailureCount, NewRow
<1>2. TypeOK /\ CopiesAgree /\ ExactFailureCount /\ [Next]_vars => ExactFailureCount'
  <2> SUFFICES ASSUME TypeOK, CopiesAgree, ExactFailureCount, [Next]_vars,
                      NEW p \in Provider, streak'[p] # Null
               PROVE  db'[p].failures = streak'[p]
    BY DEF ExactFailureCount
  <2>1. streak[p] # Null => db[p].failures = streak[p]
    BY DEF ExactFailureCount
  <2>2. ASSUME NEW w \in Worker, NEW exc \in Exception, RowFailed(w, p, exc)
        PROVE  db'[p].failures = streak'[p]
    <3>1. p \notin overtaken[w]
      BY <2>2 DEF RowFailed, StreakAfterFailure
    <3>2. Agrees(w, p)
      BY <2>2, <3>1 DEF CopiesAgree, RowFailed, IsNext
    <3>3. CASE pc[w] = "failed"
      <4>1. mem[w][p].failures = 0
        BY <2>2, <3>2, <3>3 DEF Agrees, HasReset, RowFailed
      <4>2. QED
        BY <2>2, <3>1, <3>3, <4>1 DEF RowFailed, StreakAfterFailure
    <3>4. CASE pc[w] # "failed"
      <4>1. streak[p] # Null
        BY <2>2, <3>1, <3>4 DEF RowFailed, StreakAfterFailure
      <4>2. mem[w][p].failures = streak[p]
        BY <2>1, <3>2, <3>4, <4>1 DEF Agrees, HasReset
      <4>3. QED
        BY <2>2, <3>1, <3>4, <4>1, <4>2 DEF RowFailed, StreakAfterFailure
    <3>5. QED
      BY <3>3, <3>4
  <2>3. PolledChange(p)
    BY StepsPoll
  <2>4. QED
    BY <2>1, <2>2, <2>3 DEF PolledChange, RowKept, RowCleared, RowSucceeded
<1>3. QED
  BY <1>1, <1>2, TypeCorrect, CopiesAlwaysAgree, PTL DEF Spec

(* An unforced poll is not sent while the cooldown of the row lasts, unless  *)
(* the row was written after the worker had read it: the check looks at a    *)
(* copy, and the claim that follows is a later step.                         *)
THEOREM CooldownIsHonoured == Spec => CooldownSuppressesPolling
<1>1. TypeOK /\ CopiesAgree
         => [\A w \in Worker, p \in Provider :
                UnforcedGrant(w, p) /\ p \notin overtaken[w] => ~Live(db[p])]_vars
  <2> SUFFICES ASSUME TypeOK, CopiesAgree, NEW w \in Worker, NEW p \in Provider,
                      UnforcedGrant(w, p), p \notin overtaken[w]
               PROVE  ~Live(db[p])
    OBVIOUS
  <2>1. Agrees(w, p) /\ pc[w] = "claim" /\ IsNext(w, p) /\ ~force[w]
    BY DEF CopiesAgree, UnforcedGrant, IsNext
  <2>2. db[p].cooldownUntil = Null
    BY <2>1 DEF Agrees, HasReset
  <2>3. now \in Nat
    BY DEF TypeOK
  <2>4. QED
    BY <2>2, <2>3 DEF Live, Null
<1>2. QED
  BY <1>1, TypeCorrect, CopiesAlwaysAgree, PTL DEF CooldownSuppressesPolling

(* Later failures, forced checks among them, neither extend nor shorten a    *)
(* cooldown that lasts, and nothing clears it, unless done by a process that *)
(* had read the row before it was written; a success or a form may.          *)
THEOREM WindowStaysKept == Spec => WindowIsKept
<1>1. TypeOK /\ CopiesAgree /\ IdsAreExpired /\ [Next]_vars
         => [\A p \in Provider :
                Live(db[p]) /\ db'[p].cooldownUntil # db[p].cooldownUntil =>
                   \/ \E w \in Worker : MarkProviderSuccess(w, p)
                   \/ \E a \in Admin : \E r \in Posted(form[a][p]) : AdminSave(a, p, r)
                   \/ WritesBlindly(p)]_vars
  <2> SUFFICES ASSUME TypeOK, CopiesAgree, IdsAreExpired, [Next]_vars, NEW p \in Provider,
                      Live(db[p]), db'[p].cooldownUntil # db[p].cooldownUntil
               PROVE  \/ \E w \in Worker : MarkProviderSuccess(w, p)
                      \/ \E a \in Admin : \E r \in Posted(form[a][p]) : AdminSave(a, p, r)
                      \/ WritesBlindly(p)
    OBVIOUS
  <2>1. db[p].cooldownUntil # Null
    BY DEF Live, TypeOK, Null
  <2>2. ASSUME NEW w \in Worker, Normalized(w, p) PROVE WritesBlindly(p)
    <3>1. CASE p \in overtaken[w]
      BY <2>2, <3>1, Zenon DEF WritesBlindly, Normalized
    <3>2. CASE p \notin overtaken[w]
      <4>1. mem[w][p].cooldownUntil = db[p].cooldownUntil
        BY <2>1, <2>2, <3>2 DEF CopiesAgree, Agrees, HasReset, Normalized
      <4>2. QED
        BY <2>2, <4>1 DEF Normalized, Live
    <3>3. QED
      BY <3>1, <3>2
  <2>3. ASSUME NEW w \in Worker, NEW exc \in Exception, RowFailed(w, p, exc)
        PROVE  WritesBlindly(p)
    <3>1. CASE p \in overtaken[w] \/ pc[w] = "failed"
      BY <2>3, <3>1, Zenon DEF WritesBlindly, RowFailed
    <3>2. CASE p \notin overtaken[w] /\ pc[w] # "failed"
      <4>1. mem[w][p].cooldownUntil = db[p].cooldownUntil
        BY <2>1, <2>3, <3>2 DEF CopiesAgree, Agrees, HasReset, RowFailed, IsNext
      <4>2. Live(mem[w][p])
        BY <4>1 DEF Live
      <4>3. QED
        BY <2>3, <4>1, <4>2 DEF RowFailed, FailureWindow
    <3>3. QED
      BY <3>1, <3>2
  <2>4. ASSUME NEW v \in Viewer, p \in expired[v], ClearExpired(v) PROVE WritesBlindly(p)
    <3>1. p \in overtaken[v]
      BY <2>4 DEF IdsAreExpired
    <3>2. QED
      BY <2>4, <3>1, Zenon DEF WritesBlindly
  <2>5. PolledChange(p)
    BY StepsPoll
  <2>6. QED
    BY <2>2, <2>3, <2>4, <2>5, Zenon DEF PolledChange, RowKept
<1>2. QED
  BY <1>1, TypeCorrect, CopiesAlwaysAgree, PTL DEF Spec, WindowIsKept
=============================================================================
