---------------------------- MODULE WizzAirAdapter ----------------------------
(***************************************************************************)
(* WizzAirAdapter.search: two page loads to obtain cookies, the search      *)
(* request with up to three attempts, and, when the last of them was        *)
(* answered 429, a browser that tries the same search in the tab it has,    *)
(* in a new tab, and from a script.  The booking page searches by itself    *)
(* when it is loaded, at most once a load: the loads count as requests too. *)
(*                                                                         *)
(* Searches share no state but the browser's profile directory: another     *)
(* worker's browser on it is one of the reasons why a launch may fail.      *)
(***************************************************************************)
EXTENDS Integers, Sequences, FiniteSets

CONSTANTS
    Day,          \* departure dates
    NoDay,        \* the date of a flight without one
    Answer,       \* the flights a search may be answered with
    MaxAttempts   \* stop_after_attempt of _fetch_results

Flight == [day : Day \cup {NoDay}, priced : BOOLEAN]

ConstantsAreSound ==
    /\ Day \subseteq Int /\ NoDay \notin Day
    /\ Answer \subseteq Seq(Flight)
    /\ MaxAttempts \in Nat \ {0}

VARIABLES
    config,    \* the switches of config_json, and whether playwright is installed,
               \* as the adapter of a search was loaded with them
    outcome,   \* "idle", "searching", or how the call ended
    pc,        \* where the search is
    visits,    \* pages loaded by _bootstrap_session
    attempts,  \* attempts of _fetch_results
    limited,   \* same_tab_rate_limited
    held,      \* what the try block ended with, while finally runs
    browser,   \* the browser context is open
    flights,   \* the answer to be mapped
    dates,     \* departure dates of the fares returned
    answered,  \* history: status of the last answer the search has read
    sent       \* history: search requests sent by this search and its pages

browserVars == <<limited, held, browser>>
history == <<answered, sent>>
vars == <<config, outcome, pc, visits, attempts, browserVars, flights, dates, history>>

Config == [bootstrap : BOOLEAN, fallback : BOOLEAN, installed : BOOLEAN]
NotLoaded == [bootstrap |-> FALSE, fallback |-> FALSE, installed |-> FALSE]

Init ==
    /\ config = NotLoaded
    /\ outcome = "idle" /\ pc = "idle"
    /\ visits = 0 /\ attempts = 0
    /\ limited = FALSE /\ held = "nothing" /\ browser = FALSE
    /\ flights = << >> /\ dates = << >>
    /\ answered = "none" /\ sent = 0

Search ==
    /\ outcome = "idle"
    /\ outcome' = "searching"
    /\ config' \in Config
    /\ pc' = IF config'.bootstrap THEN "bootstrap" ELSE "post"
    /\ UNCHANGED <<visits, attempts, browserVars, flights, dates, history>>

(* The call ends: what it had found is dropped unless it is returned. *)
EndSearch(how, found) ==
    /\ outcome' = how
    /\ dates' = found
    /\ pc' = "idle" /\ visits' = 0 /\ attempts' = 0
    /\ limited' = FALSE /\ held' = "nothing" /\ flights' = << >>
    /\ UNCHANGED config

Raise(how) == EndSearch(how, << >>)

-----------------------------------------------------------------------------
(* The HTTP client. *)

VisitPage ==
    /\ pc = "bootstrap"
    /\ visits' = visits + 1
    /\ pc' = IF visits = 1 THEN "post" ELSE "bootstrap"
    /\ UNCHANGED <<config, outcome, attempts, browserVars, flights, dates, history>>

(* Any error status, also a 429, is a plain HTTPStatusError here. *)
VisitFails ==
    /\ pc = "bootstrap"
    /\ Raise("error")
    /\ UNCHANGED <<browser, history>>

(* Requests of the browser: the booking page is loaded twice in the tab it   *)
(* has and twice in a new one, and the script sends one.                     *)
BrowserRequests == 5

(* The history counter stops one above what a search may send. *)
Count(n) == sent' = IF sent > MaxAttempts + BrowserRequests THEN sent ELSE sent + n

Sent(status) == answered' = status /\ Count(1)

(* A load, or a script, of which no answer is read: it may have searched.    *)
SentUnread == UNCHANGED answered /\ \E n \in 0 .. 1 : Count(n)

(* Faulty variant: one attempt too many. *)
TriedAgainOnceMore(status) == status \in {"limited", "failed"} /\ attempts < MaxAttempts

(* _should_retry_wizzair_request, stop_after_attempt: 429, 5xx and transport *)
(* errors are tried again, any other status is not.                         *)
TriedAgain(status) == status \in {"limited", "failed"} /\ attempts + 1 < MaxAttempts

PostAnswered(found) ==
    /\ pc = "post"
    /\ Sent("ok")
    /\ flights' = found
    /\ pc' = "map"
    /\ UNCHANGED <<config, outcome, visits, attempts, browserVars, dates>>

PostFails(status) ==
    /\ pc = "post"
    /\ Sent(status)
    /\ \/ /\ TriedAgain(status)
          /\ attempts' = attempts + 1
          /\ UNCHANGED <<config, outcome, pc, visits, browserVars, flights, dates>>
       \/ /\ ~TriedAgain(status)
          /\ IF status = "limited"
             THEN IF config.fallback
                  THEN /\ pc' = "launch"
                       /\ UNCHANGED <<config, outcome, visits, attempts, browserVars,
                                      flights, dates>>
                  ELSE Raise("rateLimit") /\ UNCHANGED browser
             ELSE Raise("error") /\ UNCHANGED browser

-----------------------------------------------------------------------------
(* The browser. *)

(* The import fails: the rate limit that led here is raised. *)
ImportFails ==
    /\ pc = "launch" /\ ~config.installed
    /\ Raise("rateLimit")
    /\ UNCHANGED <<browser, history>>

LaunchFails ==
    /\ pc = "launch" /\ config.installed
    /\ Raise("error")
    /\ UNCHANGED <<browser, history>>

LaunchBrowser ==
    /\ pc = "launch" /\ config.installed
    /\ browser' = TRUE
    /\ pc' = "open"
    /\ UNCHANGED <<config, outcome, visits, attempts, limited, held, flights, dates, history>>

(* new_page raises before the try block: no finally closes the context, it   *)
(* ends with the playwright driver.                                         *)
NoFirstTab ==
    /\ pc = "open"
    /\ browser' = FALSE
    /\ Raise("error")
    /\ UNCHANGED history

(* The home page and the booking page are loaded in the first tab. *)
OpenBooking ==
    /\ pc = "open"
    /\ SentUnread
    /\ pc' = "sameTab"
    /\ UNCHANGED <<config, outcome, visits, attempts, browserVars, flights, dates>>

Finally(what) == held' = what /\ pc' = "close"

(* Faulty variant: the answer is handed on past the finally block. *)
ReturnAtOnce(what) == held' = what /\ pc' = "map"

Found(what) == Finally(what)

(* A reload or the script is answered.  In a tab it may be the load before   *)
(* the reload that is answered, which makes no difference here.             *)
BrowserAnswered(found) ==
    /\ pc \in {"sameTab", "newTab", "evaluate"}
    /\ Sent("ok")
    /\ flights' = found
    /\ Found("answer")
    /\ UNCHANGED <<config, outcome, visits, attempts, limited, browser, dates>>

(* The first tab is reloaded: a 429 is remembered, and a new tab is tried. *)
SameTabFails(status) ==
    /\ pc = "sameTab"
    /\ Sent(status)
    /\ limited' = (status = "limited")
    /\ pc' = "popup"
    /\ UNCHANGED <<config, outcome, visits, attempts, held, browser, flights, dates>>

(* The booking page is loaded in a new tab. *)
OpenPopup ==
    /\ pc = "popup"
    /\ SentUnread
    /\ pc' = "newTab"
    /\ UNCHANGED <<config, outcome, visits, attempts, browserVars, flights, dates>>

(* The new tab is reloaded: a 429 ends the search. *)
PopupFails(status) ==
    /\ pc = "newTab"
    /\ Sent(status)
    /\ IF status = "limited" THEN Finally("rateLimit") ELSE pc' = "evaluate" /\ UNCHANGED held
    /\ UNCHANGED <<config, outcome, visits, attempts, limited, browser, flights, dates>>

(* Faulty variant: the first tab is tried again after the new one. *)
OtherTab(tab) == IF tab = "sameTab" THEN "popup" ELSE "sameTab"

NextTry(tab) == IF tab = "sameTab" THEN "popup" ELSE "evaluate"

(* No answer in time, or no new tab in time. *)
TabTimesOut ==
    /\ pc \in {"sameTab", "popup", "newTab"}
    /\ SentUnread
    /\ pc' = NextTry(pc)
    /\ UNCHANGED <<config, outcome, visits, attempts, browserVars, flights, dates>>

(* Faulty variant: the tab's 429 decides about a script's failure. *)
RateLimitedBefore(status) == status = "limited" \/ limited

RateLimitedNow(status) == status = "limited"

(* The script: 429, or any other error status. *)
ScriptFails(status) ==
    /\ pc = "evaluate"
    /\ Sent(status)
    /\ Finally(IF RateLimitedNow(status) THEN "rateLimit" ELSE "error")
    /\ UNCHANGED <<config, outcome, visits, attempts, limited, browser, flights, dates>>

(* Any other exception of the browser, or an answer that is no JSON. *)
BrowserRaises ==
    /\ pc \in {"open", "sameTab", "popup", "newTab", "evaluate"}
    /\ SentUnread
    /\ Finally("error")
    /\ UNCHANGED <<config, outcome, visits, attempts, limited, browser, flights, dates>>

(* finally: the storage state is saved and the context closed. *)
CloseBrowser ==
    /\ pc = "close"
    /\ browser' = FALSE
    /\ IF held = "answer"
       THEN pc' = "map" /\ held' = "nothing" /\
            UNCHANGED <<config, outcome, visits, attempts, limited, flights, dates>>
       ELSE Raise(held)
    /\ UNCHANGED history

(* An exception in the finally block takes the place of the result; the     *)
(* browser ends with the playwright driver.                                *)
CloseFails ==
    /\ pc = "close"
    /\ browser' = FALSE
    /\ Raise("error")
    /\ UNCHANGED history

-----------------------------------------------------------------------------
(* Flights without a date or a price are left out, the rest is sorted. *)
Usable(s) == {i \in 1 .. Len(s) : s[i].day # NoDay /\ s[i].priced}

(* Faulty variant: nothing is sorted. *)
Unsorted(s, i, j) == i <= j

Earlier(s, i, j) == s[i].day < s[j].day \/ (s[i].day = s[j].day /\ i <= j)

Rank(s, i) == Cardinality({j \in Usable(s) : Earlier(s, j, i)})
DatesOf(s) ==
    [k \in 1 .. Cardinality(Usable(s)) |-> s[CHOOSE i \in Usable(s) : Rank(s, i) = k].day]

MapResponse ==
    /\ pc = "map"
    /\ EndSearch("fares", DatesOf(flights))
    /\ UNCHANGED <<browser, history>>

(* A date or a price that cannot be parsed, or a body that is no JSON. *)
MapFails ==
    /\ pc = "map"
    /\ Raise("error")
    /\ UNCHANGED <<browser, history>>

(* run_subscription goes on. *)
Handled ==
    /\ outcome \in {"fares", "error", "rateLimit"}
    /\ outcome' = "idle" /\ dates' = << >>
    /\ answered' = "none" /\ sent' = 0
    /\ config' = NotLoaded
    /\ UNCHANGED <<pc, visits, attempts, browserVars, flights>>

Step ==
    \/ VisitPage \/ VisitFails
    \/ \E found \in Answer : PostAnswered(found) \/ BrowserAnswered(found)
    \/ \E status \in {"limited", "failed", "refused"} :
          PostFails(status) \/ SameTabFails(status) \/ PopupFails(status) \/ ScriptFails(status)
    \/ ImportFails \/ LaunchFails \/ LaunchBrowser \/ NoFirstTab
    \/ OpenBooking \/ OpenPopup \/ TabTimesOut \/ BrowserRaises
    \/ CloseBrowser \/ CloseFails
    \/ MapResponse \/ MapFails

Next == Search \/ Step \/ Handled

-----------------------------------------------------------------------------
TypeOK ==
    /\ config \in Config
    /\ outcome \in {"idle", "searching", "fares", "error", "rateLimit"}
    /\ pc \in {"idle", "bootstrap", "post", "launch", "open", "sameTab", "popup", "newTab",
               "evaluate", "close", "map"}
    /\ visits \in 0 .. 2 /\ attempts \in 0 .. MaxAttempts - 1
    /\ limited \in BOOLEAN /\ browser \in BOOLEAN
    /\ held \in {"nothing", "answer", "error", "rateLimit"}
    /\ flights \in Seq(Flight) /\ dates \in Seq(Day)
    /\ answered \in {"none", "ok", "limited", "failed", "refused"}
    /\ sent \in Nat

(* The longer cooldown of a rate limit, and a list of fares, are told from   *)
(* the last answer the search has read, through retries, fallbacks and tabs: *)
(* never from an earlier 429 after which another answer was read.            *)
OutcomeMatchesAnswer ==
    /\ outcome = "rateLimit" => answered = "limited"
    /\ outcome = "fares" => answered = "ok"

(* However a search ends, its browser is gone: the next one of this worker   *)
(* can open the profile again.                                               *)
BrowserIsClosed == browser => outcome = "searching" /\ pc # "map"

(* A site that limits us gets a bounded number of searches more: three in    *)
(* all by the client, and five from a browser, which is only started if it   *)
(* is switched on, however tabs time out, raise or stay unanswered.          *)
BoundedLoad ==
    sent <= MaxAttempts + (IF config.fallback /\ config.installed THEN BrowserRequests ELSE 0)

(* What run_subscription relies on.                                          *)
Contract == INSTANCE AdapterContract WITH RateLimited <- TRUE
ImplementsContract == Contract!Spec
=============================================================================
