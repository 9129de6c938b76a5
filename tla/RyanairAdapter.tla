---------------------------- MODULE RyanairAdapter ----------------------------
(***************************************************************************)
(* RyanairAdapter.search: it follows the nextPage links of a listing, tries *)
(* a page at most three times, and returns the fares of all pages sorted by *)
(* outbound date.                                                          *)
(***************************************************************************)
EXTENDS Integers, Sequences, FiniteSets, SequencesExt

CONSTANTS
    Day,          \* outbound dates
    MaxPages,     \* bound on the pages of a listing
    Listing,      \* the listings the fare finder may hold
    MaxAttempts   \* stop_after_attempt of _fetch_page

Page == 1 .. MaxPages
End == 0

(* A page has the dates of its fares, and the page its nextPage leads to:   *)
(* pages are numbered in the order of their links, which form no circle.    *)
ConstantsAreSound ==
    /\ MaxPages \in Nat \ {0} /\ MaxAttempts \in Nat \ {0}
    /\ Listing \subseteq [Page -> [dates : Seq(Day), next : Page \cup {End}]]
    /\ \A l \in Listing, p \in Page : l[p].next \in {End} \cup p + 1 .. MaxPages

VARIABLES
    listing,   \* the listing of the fare finder while a search goes on
    outcome,   \* "idle", "searching", or how the call ended
    pc,        \* "fetch" or "map" while searching
    page,      \* next_page
    attempts,  \* attempts of _fetch_page for this page
    fares,     \* fares collected, as <<page, position>>
    requests   \* history: requests sent by this search

vars == <<listing, outcome, pc, page, attempts, fares, requests>>

DateOf(f) == listing[f[1]].dates[f[2]]

Nothing == [p \in Page |-> [dates |-> << >>, next |-> End]]

Init ==
    /\ listing = Nothing
    /\ outcome = "idle" /\ pc = "fetch" /\ page = 1
    /\ attempts = 0 /\ fares = << >> /\ requests = 0

Search ==
    /\ outcome = "idle"
    /\ outcome' = "searching"
    /\ listing' \in Listing
    /\ UNCHANGED <<pc, page, attempts, fares, requests>>

(* The history counter stops one above what a search may send. *)
Counted == IF requests > MaxAttempts * MaxPages THEN requests ELSE requests + 1

FetchPage ==
    /\ outcome = "searching" /\ pc = "fetch"
    /\ requests' = Counted
    /\ pc' = "map" /\ attempts' = 0
    /\ UNCHANGED <<listing, outcome, page, fares>>

Raised ==
    /\ outcome' = "error"
    /\ fares' = << >> /\ attempts' = 0 /\ pc' = "fetch"
    /\ UNCHANGED <<listing, page>>

(* Faulty variant: one attempt too many. *)
MayTryOnceMore == attempts < MaxAttempts

MayTryAgain == attempts + 1 < MaxAttempts

(* An httpx error or an error status; the last one is raised again. *)
FetchFails ==
    /\ outcome = "searching" /\ pc = "fetch"
    /\ requests' = Counted
    /\ IF MayTryAgain
       THEN attempts' = attempts + 1 /\ UNCHANGED <<listing, outcome, pc, page, fares>>
       ELSE Raised

(* The body is no JSON: not an httpx error, so not tried again. *)
BodyFails ==
    /\ outcome = "searching" /\ pc = "fetch"
    /\ requests' = Counted
    /\ Raised

FaresOf(p) == [i \in 1 .. Len(listing[p].dates) |-> <<p, i>>]

(* sorted() is stable: fares of one date stay in the order of the listing. *)
Earlier(s, i, j) ==
    DateOf(s[i]) < DateOf(s[j]) \/ (DateOf(s[i]) = DateOf(s[j]) /\ i <= j)
Rank(s, i) == Cardinality({j \in 1 .. Len(s) : Earlier(s, j, i)})
SortedByDate(s) == [k \in 1 .. Len(s) |-> s[CHOOSE i \in 1 .. Len(s) : Rank(s, i) = k]]

(* Faulty variants: only the last page is kept, nothing is sorted, a page    *)
(* without fares is fetched again.                                           *)
LastPage(s, new) == new
Unsorted(s) == s
EmptyPageAgain(p) == IF listing[p].dates = << >> THEN p ELSE listing[p].next

NextPage(p) == listing[p].next
Extended(s, new) == s \o new
Result(s) == SortedByDate(s)

MapFares ==
    /\ outcome = "searching" /\ pc = "map"
    /\ LET all == Extended(fares, FaresOf(page)) IN
       IF NextPage(page) = End
       THEN outcome' = "fares" /\ fares' = Result(all) /\ UNCHANGED page
       ELSE page' = NextPage(page) /\ fares' = all /\ UNCHANGED outcome
    /\ pc' = "fetch"
    /\ UNCHANGED <<listing, attempts, requests>>

(* A fare lacks a field. *)
MapFails ==
    /\ outcome = "searching" /\ pc = "map" /\ listing[page].dates # << >>
    /\ Raised
    /\ UNCHANGED requests

(* run_subscription goes on; the next search starts at the first page. *)
Handled ==
    /\ outcome \in {"fares", "error"}
    /\ outcome' = "idle" /\ page' = 1 /\ fares' = << >> /\ requests' = 0
    /\ listing' = Nothing
    /\ UNCHANGED <<pc, attempts>>

Step == FetchPage \/ FetchFails \/ BodyFails \/ MapFares \/ MapFails

Next == Search \/ Step \/ Handled

-----------------------------------------------------------------------------
TypeOK ==
    /\ listing \in Listing \cup {Nothing}
    /\ outcome \in {"idle", "searching", "fares", "error"}
    /\ pc \in {"fetch", "map"}
    /\ page \in Page
    /\ attempts \in 0 .. MaxAttempts - 1
    /\ fares \in Seq(Page \X Nat)
    /\ requests \in Nat

(* The pages nextPage leads to from the first one. *)
Closed(S) == 1 \in S /\ \A p \in S : listing[p].next # End => listing[p].next \in S
Reachable == {p \in Page : \A S \in SUBSET Page : Closed(S) => p \in S}
Offered == UNION {{<<p, i>> : i \in 1 .. Len(listing[p].dates)} : p \in Reachable}

(* A search that returns has every fare of the listing exactly once,         *)
(* whatever failed and was tried again on the way, sorted by date with ties  *)
(* in the order of the listing; a failed one returns nothing.                *)
ReturnsWholeListing ==
    /\ outcome = "fares" =>
         /\ ToSet(fares) = Offered /\ Len(fares) = Cardinality(Offered)
         /\ \A i, j \in 1 .. Len(fares) : i < j =>
               \/ DateOf(fares[i]) < DateOf(fares[j])
               \/ /\ DateOf(fares[i]) = DateOf(fares[j])
                  /\ \/ fares[i][1] < fares[j][1]
                     \/ fares[i][1] = fares[j][1] /\ fares[i][2] < fares[j][2]
    /\ outcome = "error" => fares = << >>

(* A search sends at most MaxAttempts requests for each page it reaches.     *)
BoundedRequests == requests <= MaxAttempts * Cardinality(Reachable)

(* What run_subscription relies on.                                          *)
Contract == INSTANCE AdapterContract WITH
    RateLimited <- FALSE,
    dates <- IF outcome = "fares" THEN [i \in 1 .. Len(fares) |-> DateOf(fares[i])] ELSE << >>
ImplementsContract == Contract!Spec
=============================================================================
