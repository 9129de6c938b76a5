----------------------------- MODULE PollingSystem -----------------------------
(***************************************************************************)
(* SubscriptionLifecycle with the loop of run_subscription in place of its *)
(* step PollProviders: a run goes through the active providers in the      *)
(* order of their names, and each of them may be in a cooldown, or may     *)
(* have been polled too recently by a run of any subscription.             *)
(*                                                                         *)
(* Of a provider's row, which ProviderRuntime has in full, a run here sees *)
(* whether it is cooling, in the copy it loaded before its loop, and       *)
(* whether its slot is free, in the row; both change with time.            *)
(***************************************************************************)
EXTENDS SubscriptionLifecycle

CONSTANTS
    Rotation,    \* the active providers in the order of their names
    Throttled,   \* those with a min_poll_interval_seconds
    NoProvider   \* in place of a provider, between searches

Provider == {Rotation[i] : i \in 1 .. Len(Rotation)}

ASSUME RotationAssumption ==
    /\ Rotation \in Seq(Provider)
    /\ Throttled \subseteq Provider /\ NoProvider \notin Provider

VARIABLES
    turn,     \* providers each run has still to poll
    calling,  \* the provider it is searching
    seen,     \* providers to come that it will skip: not forced, their copies cool
    cooling,  \* providers in a cooldown
    taken     \* throttled providers that were polled within their interval

loopVars == <<turn, calling, seen>>
gateVars == <<cooling, taken>>
systemVars == <<vars, loopVars, gateVars>>

NoCopies == {NoProvider}    \* a run that has not loaded the providers yet

SystemInit ==
    /\ Init
    /\ turn = [w \in Worker |-> Rotation]
    /\ calling = [w \in Worker |-> NoProvider]
    /\ seen = [w \in Worker |-> NoCopies]
    /\ cooling = {} /\ taken = {}

-----------------------------------------------------------------------------
(* The loop over the providers. *)

(* get_active_providers: one SELECT before the loop; a forced run does not   *)
(* look at the cooldowns it has loaded.                                      *)
LoadProviders(w) ==
    /\ pc[w] = "poll" /\ seen[w] = NoCopies
    /\ seen' = [seen EXCEPT ![w] = IF task[w].force THEN {} ELSE cooling]
    /\ UNCHANGED <<vars, turn, calling, gateVars>>

AtProvider(w) ==
    pc[w] = "poll" /\ seen[w] # NoCopies /\ calling[w] = NoProvider /\ turn[w] # << >>
Current(w) == Head(turn[w])

NextTurn(w) ==
    /\ turn' = [turn EXCEPT ![w] = Tail(@)]
    /\ calling' = [calling EXCEPT ![w] = NoProvider]
    /\ seen' = [seen EXCEPT ![w] = @ \ {Current(w)}]

(* Faulty variant: a failure ends the run. *)
EndRun(w) ==
    /\ turn' = [turn EXCEPT ![w] = << >>]
    /\ calling' = [calling EXCEPT ![w] = NoProvider]
    /\ seen' = [seen EXCEPT ![w] = {}]

(* The cooldown is that of the copy, the interval that of the row. *)
MayCall(w) == Current(w) \notin seen[w]
MayClaim(w) == task[w].force \/ Current(w) \notin taken

SkipProvider(w) ==
    /\ AtProvider(w)
    /\ ~MayCall(w) \/ ~MayClaim(w)
    /\ NextTurn(w)
    /\ UNCHANGED <<vars, gateVars>>

(* Faulty variant: a slot also of a provider without an interval. *)
AnySlot(p) == {p}

SlotOf(p) == {p} \cap Throttled

ClaimSlot(w) ==
    /\ AtProvider(w) /\ MayCall(w) /\ MayClaim(w)
    /\ calling' = [calling EXCEPT ![w] = Current(w)]
    /\ taken' = taken \cup SlotOf(Current(w))
    /\ UNCHANGED <<vars, turn, seen, cooling>>

(* mark_provider_success, and the fares are stored. *)
SearchReturns(w) ==
    /\ calling[w] # NoProvider
    /\ cooling' = cooling \ {calling[w]}
    /\ NextTurn(w)
    /\ UNCHANGED <<vars, taken>>

AfterFailure(w) == NextTurn(w)

(* mark_provider_failure; on with the next provider. *)
SearchRaises(w) ==
    /\ calling[w] # NoProvider
    /\ cooling' = cooling \cup {calling[w]}
    /\ AfterFailure(w)
    /\ UNCHANGED <<vars, taken>>

Reset(w) ==
    /\ turn' = [turn EXCEPT ![w] = Rotation]
    /\ calling' = [calling EXCEPT ![w] = NoProvider]
    /\ seen' = [seen EXCEPT ![w] = NoCopies]

EndLoop(w) ==
    /\ calling[w] = NoProvider /\ turn[w] = << >> /\ seen[w] # NoCopies
    /\ PollProviders(w) /\ Reset(w)
    /\ UNCHANGED gateVars

IntervalEnds(p) ==
    /\ p \in taken
    /\ taken' = taken \ {p}
    /\ UNCHANGED <<vars, loopVars, cooling>>

(* The cooldown of the row is over, or some process clears it. *)
CooldownEnds(p) ==
    /\ p \in cooling
    /\ cooling' = cooling \ {p}
    /\ UNCHANGED <<vars, loopVars, taken>>

(* The cooldown of the copy is over when the provider's turn comes.         *)
CopyExpires(w) ==
    /\ AtProvider(w) /\ Current(w) \in seen[w]
    /\ seen' = [seen EXCEPT ![w] = @ \ {Current(w)}]
    /\ UNCHANGED <<vars, turn, calling, gateVars>>

-----------------------------------------------------------------------------
RunStep(w) ==
    \/ LoadProviders(w)
    \/ SkipProvider(w)
    \/ ClaimSlot(w)
    \/ SearchReturns(w)
    \/ SearchRaises(w)
    \/ EndLoop(w)
    \/ /\ \/ TakeTask(w) \/ PollActiveSearches(w) \/ QueueOne(w)
          \/ LoadSubscription(w) \/ ExpireSubscription(w) \/ FinishRun(w)
       /\ UNCHANGED <<loopVars, gateVars>>

UserStep(s) ==
    /\ \/ \E d \in Day : CreateSubscription(s, d)
       \/ CheckSubscriptionNow(s)
       \/ CancelSubscription(s)
       \/ DeleteSubscription(s)
    /\ UNCHANGED <<loopVars, gateVars>>

SystemNext ==
    \/ (NextDay \/ Beat) /\ UNCHANGED <<loopVars, gateVars>>
    \/ \E s \in Subscription : UserStep(s)
    \/ \E w \in Worker :
          \/ RunStep(w)
          \/ (Raise(w) \/ Crash(w)) /\ Reset(w) /\ UNCHANGED gateVars
    \/ \E p \in Provider : IntervalEnds(p) \/ CooldownEnds(p)
    \/ \E w \in Worker : CopyExpires(w)

SystemSpec == SystemInit /\ [][SystemNext]_systemVars

(* Worker processes keep working, and a search ends, because requests have  *)
(* timeouts; days, intervals and cooldowns pass; and beat keeps sending:    *)
(* again and again (SF) because the bound on the queue may hold it back.    *)
FairSystem ==
    /\ SystemSpec
    /\ \A w \in Worker : WF_systemVars(RunStep(w))
    /\ WF_systemVars(NextDay /\ UNCHANGED <<loopVars, gateVars>>)
    /\ SF_systemVars(Beat /\ UNCHANGED <<loopVars, gateVars>>)
    /\ \A p \in Provider : WF_systemVars(IntervalEnds(p)) /\ WF_systemVars(CooldownEnds(p))

-----------------------------------------------------------------------------
(* A run that searches does it for the provider whose turn it is. *)
LoopTypeOK ==
    /\ turn \in [Worker -> Seq(Provider)]
    /\ calling \in [Worker -> Provider \cup {NoProvider}]
    /\ seen \in [Worker -> SUBSET (Provider \cup {NoProvider})]
    /\ cooling \subseteq Provider /\ taken \subseteq Throttled
    /\ \A w \in Worker : calling[w] # NoProvider =>
          pc[w] = "poll" /\ turn[w] # << >> /\ calling[w] = Head(turn[w])

Searching(p, s) == \E w \in Worker : calling[w] = p /\ task[w].sub = s

(* While any subscription is active, every provider is searched again and    *)
(* again: neither its own failures and intervals nor the failures of the     *)
(* providers before it, nor lost tasks, take it out of the rotation.         *)
ProvidersKeepBeingPolled ==
    \A p \in Provider :
        (\E s \in Subscription : status[s] = "active") ~>
            \/ \A s \in Subscription : status[s] # "active"
            \/ \E s \in Subscription : Searching(p, s)

(* An active subscription's fares are searched again and again on every      *)
(* provider that is not in a cooldown.                                       *)
FaresKeepBeingSearched ==
    \A s \in Subscription, p \in Provider :
        status[s] = "active" ~>
            \/ status[s] # "active"
            \/ p \in cooling
            \/ Searching(p, s)
=============================================================================
