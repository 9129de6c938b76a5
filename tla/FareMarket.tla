------------------------------ MODULE FareMarket ------------------------------
(***************************************************************************)
(* The flights of a route as an airline sells them, what the polls of a    *)
(* subscription make of them, and the best offers the dashboard shows.     *)
(*                                                                         *)
(* Between two polls the airline may change any price, and take flights    *)
(* off sale.  A poll turns every flight on sale into a fare identity and a *)
(* price; PriceWatch stores it.  The dashboard reads the stored fares back *)
(* by date only, so what it shows depends on all three: the identities,    *)
(* the history and the calendar.                                           *)
(***************************************************************************)
EXTENDS OfferWindows, FareIdentity

CONSTANTS
    Flight,     \* the flights that may exist: [key, departs, day]
    Price,      \* their prices
    NoPrice,    \* in place of a price: not on sale, not seen before
    KeyPaths,   \* the settings of fare_identity_keys
    Scenario,   \* [today, flights]: where a behaviour may begin
    MaxPolls,   \* bound on the polls
    MaxDays     \* bound on the days that pass

ASSUME MarketAssumption ==
    /\ Price \subseteq Nat /\ NoPrice \notin Price
    /\ IsFiniteSet(Flight) /\ \A f \in Flight : f.day \in Nat
    /\ KeyPaths \subseteq Seq(Seq(STRING))
    /\ \A s \in Scenario : s.today \in CalendarDay /\ s.flights \subseteq Flight
    /\ MaxPolls \in Nat /\ MaxDays \in Nat

VARIABLES
    today,     \* timezone.localdate()
    schedule,  \* the flights of the route
    paths,     \* fare_identity_keys of the provider
    exists,    \* the subscription has not been deleted
    observed,  \* the prices stored under each identity, oldest first
    changes,   \* the price changes recorded of each identity, oldest first
    seen,      \* history: the prices at which polls saw each flight
    polls,     \* number of polls
    days       \* number of days that passed

stored == <<exists, observed, changes>>
vars == <<today, schedule, paths, stored, seen, polls, days>>

(* raw_payload of the Ryanair adapter. *)
Payload(f, p) ==
    Object([outbound |-> Object([flightKey |-> Leaf(f.key), departureDate |-> Leaf(f.departs),
                                 price |-> Leaf(p)])])

(* The deeplink leads to the flights of a day. *)
IdentityOf(f, p, keys) == Identity(f.day, f.day, Payload(f, p), keys)

(* No configured path leads to the price: the keys that the application      *)
(* configures name the flight or its departure.                              *)
ASSUME KeysIgnorePrice ==
    \A keys \in KeyPaths, f \in Flight, p \in Price : \A i \in 1 .. Len(keys) :
        ExtractPayloadValue(Payload(f, p), keys[i]) = ExtractPayloadValue(Payload(f, 0), keys[i])

Fare == {IdentityOf(f, p, keys) : f \in Flight, p \in Price, keys \in KeyPaths}

Watch == INSTANCE PriceWatch WITH Result <- {}

Init ==
    /\ \E s \in Scenario :
          /\ today = s.today /\ schedule = s.flights
          /\ seen = [f \in s.flights |-> << >>]
    /\ paths \in KeyPaths
    /\ Watch!Init
    /\ polls = 0 /\ days = 0

DayPasses ==
    /\ days < MaxDays
    /\ days' = days + 1
    /\ today' = DayAfter(today)
    /\ UNCHANGED <<schedule, paths, stored, seen, polls>>

OnSale(offer) == {f \in schedule : offer[f] # NoPrice}

(* The flights of an answer, by date; those of one date in any order. *)
Listings(flights) ==
    {s \in [1 .. Cardinality(flights) -> flights] :
        ToSet(s) = flights /\ \A i, j \in DOMAIN s : i < j => s[i].day <= s[j].day}

(* What a poll makes of a listing. *)
FaresOf(listed, offer) ==
    [i \in DOMAIN listed |-> [fare |-> IdentityOf(listed[i], offer[listed[i]], paths),
                              price |-> offer[listed[i]]]]

Poll(offer) ==
    LET onSale == OnSale(offer)
        first == Ordinal(today)
    IN  /\ polls < MaxPolls
        /\ \A f \in onSale : f.day >= first
        /\ polls' = polls + 1
        /\ \E listed \in Listings(onSale) : Watch!Observe(FaresOf(listed, offer))
        /\ seen' = [f \in schedule |-> IF f \in onSale THEN Append(seen[f], offer[f]) ELSE seen[f]]
        /\ UNCHANGED <<today, schedule, paths, days>>

DeleteSubscription ==
    /\ Watch!Delete
    /\ seen' = [f \in schedule |-> << >>]
    /\ UNCHANGED <<today, schedule, paths, polls, days>>

Next ==
    \/ DayPasses
    \/ \E offer \in [schedule -> Price \cup {NoPrice}] : Poll(offer)
    \/ DeleteSubscription

Spec == Init /\ [][Next]_vars

-----------------------------------------------------------------------------
(* The dashboard. *)

(* FareSnapshot rows by price and date. *)
Snapshots == UNION {{[price |-> observed[fare][i], day |-> fare.day] :
                         i \in 1 .. Len(observed[fare])} : fare \in Fare}

(* Faulty variant: order_by("outbound_date", "price_amount"). *)
EarliestFirst(x, y) == x.day < y.day \/ (x.day = y.day /\ x.price <= y.price)

(* order_by("price_amount", "outbound_date", ...) *)
Precedes(x, y) == x.price < y.price \/ (x.price = y.price /\ x.day <= y.day)

(* get_dashboard_offers: one offer for each window that has any. *)
BestOffers(window) ==
    LET inside == {x \in Snapshots : x.day \in window}
    IN  {x \in inside : \A y \in inside : Precedes(x, y)}

-----------------------------------------------------------------------------
(* The values of a flight under the configured paths. *)
Values(f) ==
    {<<path, ExtractPayloadValue(Payload(f, 0), path)>> :
        path \in {q \in ToSet(paths) : HasValue(Payload(f, 0), q)}}
Keyed(f) == Values(f) # {}
ToldApart(f, g) == f.day # g.day \/ Values(f) # Values(g)

(* Of a flight that its configured keys tell from all others, the recorded   *)
(* changes are exactly its changes of price from poll to poll: whatever else *)
(* the payload says, however often it left the sale in between.              *)
RepricingsAreEvents ==
    \A f \in schedule :
        Keyed(f) /\ (\A g \in schedule \ {f} : ToldApart(f, g)) =>
            \A p \in Price : changes[IdentityOf(f, p, paths)] = Watch!Transitions(seen[f])

(* No user is told that the price of one flight has become that of another:  *)
(* where keyed flights are told apart, also next to flights without any key, *)
(* an event that is notified joins two prices of one flight that consecutive *)
(* polls saw.                                                                *)
EventsCompareOneFlight ==
    (\A f, g \in schedule : f # g /\ Keyed(f) /\ Keyed(g) => ToldApart(f, g)) =>
        \A fare \in Fare : \A i \in 1 .. Len(changes[fare]) :
            \/ changes[fare][i].old = NoPrice
            \/ \E f \in schedule : \E k \in 1 .. Len(seen[f]) - 1 :
                  changes[fare][i] = [old |-> seen[f][k], new |-> seen[f][k + 1]]

(* The offer of a window is the lowest price at which any poll ever saw a    *)
(* flight of the window, on the first day that had it, however the fares     *)
(* were identified; there is none only if no such flight was seen.  (The     *)
(* price may be of the past: the dashboard does not look at what came after.)*)
OffersAreBest ==
    \A window \in Windows(today) :
        LET quotes == UNION {{[price |-> seen[f][k], day |-> f.day] : k \in 1 .. Len(seen[f])} :
                                f \in {g \in schedule : g.day \in window}}
            lowest == {q \in quotes : \A r \in quotes : q.price <= r.price}
        IN  BestOffers(window) = {q \in lowest : \A r \in lowest : q.day <= r.day}

(* The days of this week and the next. *)
Shown(d) == ThisWeek(d) \cup NextWeek(d)

(* "Next month" is the same until that month comes, and is then the whole of *)
(* it.                                                                       *)
MonthMovesOn(d, e) ==
    IF e.month = d.month
    THEN NextMonth(e) = NextMonth(d)
    ELSE NextMonth(d) = Ordinal(e) .. Ordinal(e) + MonthLength(e.year, e.month) - 1

(* The windows move on with the days without leaving a gap: a departure that *)
(* is shown for this week or the next is shown every day until it has left,  *)
(* and the month that was announced arrives whole, also in January, in leap  *)
(* years, and after a day that it does not have.                             *)
WindowsMoveOn ==
    [][/\ \A n \in Shown(today) : n >= Ordinal(today') => n \in Shown(today')
       /\ MonthMovesOn(today, today')]_vars
=============================================================================
