----------------------------- MODULE ProviderRun -----------------------------
(***************************************************************************)
(* The runs of one worker with the two adapters in place of PollingSystem's *)
(* searches: a run asks Ryanair, then Wizz Air, each unless it is in a      *)
(* cooldown or gets no slot and the run was not forced, and what an adapter *)
(* ended with decides about the provider's cooldown.                       *)
(***************************************************************************)
EXTENDS Integers, Sequences

CONSTANTS
    Day, NoDay,   \* dates of fares, and the date of a flight without one
    MaxPages,     \* bound on the pages of a listing
    Listing,      \* the listings Ryanair's fare finder may hold
    Answer,       \* the flights Wizz Air's search may be answered with
    MaxAttempts   \* stop_after_attempt of both adapters

VARIABLES
    turn,     \* "none" between runs, or the provider whose turn it is
    force,    \* the run was started with force=True
    cooling,  \* the cooldown each provider is in: "none", "short" or "long"
    listing, ryOutcome, ryPc, page, ryAttempts, fares, requests,
    config, wzOutcome, wzPc, visits, wzAttempts, limited, held, browser, flights,
    wzDates, answered, sent

runVars == <<turn, force, cooling>>
ryanairVars == <<listing, ryOutcome, ryPc, page, ryAttempts, fares, requests>>
wizzVars == <<config, wzOutcome, wzPc, visits, wzAttempts, limited, held, browser,
              flights, wzDates, answered, sent>>
vars == <<runVars, ryanairVars, wizzVars>>

Ryanair == INSTANCE RyanairAdapter WITH outcome <- ryOutcome, pc <- ryPc, attempts <- ryAttempts
WizzAir == INSTANCE WizzAirAdapter WITH
               outcome <- wzOutcome, pc <- wzPc, attempts <- wzAttempts, dates <- wzDates

ASSUME AdaptersAssumption == Ryanair!ConstantsAreSound /\ WizzAir!ConstantsAreSound

Provider == {"ryanair", "wizzair"}

Init ==
    /\ turn = "none" /\ force = FALSE
    /\ cooling = [p \in Provider |-> "none"]
    /\ Ryanair!Init /\ WizzAir!Init

-----------------------------------------------------------------------------
(* get_active_providers orders by name. *)
After(p) == IF p = "ryanair" THEN "wizzair" ELSE "none"

StartRun ==
    /\ turn = "none"
    /\ turn' = "ryanair" /\ force' \in BOOLEAN
    /\ UNCHANGED <<cooling, ryanairVars, wizzVars>>

EndTurn ==
    /\ turn' = After(turn)
    /\ force' = (force /\ turn' # "none")

(* The provider is in a cooldown, or was polled within its interval: which of *)
(* the subscriptions got the slot is left open here.                         *)
Skip ==
    /\ turn # "none" /\ ~force
    /\ ryOutcome = "idle" /\ wzOutcome = "idle"
    /\ EndTurn
    /\ UNCHANGED <<cooling, ryanairVars, wizzVars>>

MayAsk(p) == turn = p /\ (force \/ cooling[p] = "none")

AskRyanair == MayAsk("ryanair") /\ Ryanair!Search /\ UNCHANGED <<runVars, wizzVars>>
AskWizzAir == MayAsk("wizzair") /\ WizzAir!Search /\ UNCHANGED <<runVars, ryanairVars>>

(* _get_provider_cooldown_minutes: only a WizzAirRateLimitError is long.  A   *)
(* failure leaves a cooldown that is still running as it is.                 *)
Marked(old, how) ==
    CASE how = "fares" -> "none"
      [] how # "fares" /\ old # "none" -> old
      [] how = "rateLimit" /\ old = "none" -> "long"
      [] how = "error" /\ old = "none" -> "short"

Mark(how) == cooling' = [cooling EXCEPT ![turn] = Marked(@, how)]

(* mark_provider_success or mark_provider_failure, and on in either case. *)
RyanairHandled == Ryanair!Handled /\ Mark(ryOutcome) /\ EndTurn /\ UNCHANGED wizzVars
WizzAirHandled == WizzAir!Handled /\ Mark(wzOutcome) /\ EndTurn /\ UNCHANGED ryanairVars

RyanairStep == Ryanair!Step /\ UNCHANGED <<runVars, wizzVars>>
WizzAirStep == WizzAir!Step /\ UNCHANGED <<runVars, ryanairVars>>

CooldownEnds(p) ==
    /\ cooling[p] # "none"
    /\ cooling' = [cooling EXCEPT ![p] = "none"]
    /\ UNCHANGED <<turn, force, ryanairVars, wizzVars>>

RunStep ==
    \/ Skip
    \/ AskRyanair \/ RyanairStep \/ RyanairHandled
    \/ AskWizzAir \/ WizzAirStep \/ WizzAirHandled

Next == StartRun \/ RunStep \/ \E p \in Provider : CooldownEnds(p)

(* The worker goes on with its run, and whatever it waits for ends: requests *)
(* and tabs have timeouts, the script's promise is assumed to settle.        *)
FairSpec == Init /\ [][Next]_vars /\ WF_vars(RunStep)

-----------------------------------------------------------------------------
(* Only the provider whose turn it is is being searched, and only Wizz Air   *)
(* ever gets the cooldown of a rate limit.                                   *)
TypeOK ==
    /\ turn \in Provider \cup {"none"} /\ force \in BOOLEAN
    /\ cooling \in [Provider -> {"none", "short", "long"}]
    /\ cooling["ryanair"] # "long"
    /\ ryOutcome # "idle" => turn = "ryanair"
    /\ wzOutcome # "idle" => turn = "wizzair"
    /\ Ryanair!TypeOK /\ WizzAir!TypeOK

(* Ryanair returns the whole listing or nothing, in every run.               *)
ReturnsWholeListing == Ryanair!ReturnsWholeListing

(* A rate limit and a list of fares are told from the last answer read.      *)
OutcomeMatchesAnswer == WizzAir!OutcomeMatchesAnswer

(* No browser is left over when run_subscription has the result.             *)
BrowserIsClosed == WizzAir!BrowserIsClosed

(* Both adapters keep the contract run_subscription relies on, through all   *)
(* runs: what one search leaves behind never shows in the next.              *)
AdaptersImplementContract == Ryanair!ImplementsContract /\ WizzAir!ImplementsContract

(* However often attempts, fallback and tabs are tried, time out or raise, a *)
(* site gets a bounded number of searches, those of its pages included.      *)
BoundedTraffic == Ryanair!BoundedRequests /\ WizzAir!BoundedLoad

(* No adapter keeps a worker for ever, however its site answers.             *)
RunsEnd == turn # "none" ~> turn = "none"
=============================================================================
