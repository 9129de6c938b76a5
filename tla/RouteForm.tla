------------------------------- MODULE RouteForm -------------------------------
(***************************************************************************)
(* The form of a new subscription: its two airport fields are typed or     *)
(* filled from suggestions, and resolved one after the other when the form *)
(* is posted, while administrators change the catalogue.                   *)
(***************************************************************************)
EXTENDS AirportCatalog

CONSTANT Typed         \* the texts users type

ASSUME TypedAssumption == Typed \subseteq Text

Field == {"origin", "destination"}

VARIABLES
    input,     \* what the fields of the form hold
    resolved,  \* the code each posted field was resolved to, as a set
    route      \* the route of the last subscription

vars == <<catalog, input, resolved, route>>

NoInput == [f \in Field |-> << >>]
Unresolved == [f \in Field |-> {}]

Init ==
    /\ CatalogInit
    /\ input = NoInput
    /\ resolved = Unresolved /\ route = Unresolved

EditAirport(a, r) == SaveAirport(a, r) /\ UNCHANGED <<input, resolved, route>>

TypeText(f, text) ==
    /\ resolved = Unresolved
    /\ input' = [input EXCEPT ![f] = text]
    /\ UNCHANGED <<catalog, resolved, route>>

(* The label of a suggestion for what was typed takes its place. *)
PickSuggestion(f) ==
    /\ resolved = Unresolved
    /\ \E r \in Suggest(input[f]) : input' = [input EXCEPT ![f] = Label(r)]
    /\ UNCHANGED <<catalog, resolved, route>>

(* clean_origin, then clean_destination: a text without an airport refuses  *)
(* the form, which is shown again.                                         *)
CleanField(f) ==
    /\ resolved[f] = {} /\ (f = "destination" => resolved["origin"] # {})
    /\ LET found == {r.code : r \in ResolveQuery(input[f])}
       IN  resolved' = IF found = {} THEN Unresolved ELSE [resolved EXCEPT ![f] = found]
    /\ UNCHANGED <<catalog, input, route>>

SaveSubscription ==
    /\ \A f \in Field : resolved[f] # {}
    /\ route' = resolved
    /\ input' = NoInput /\ resolved' = Unresolved
    /\ UNCHANGED catalog

Next ==
    \/ \E a \in Airport, r \in Edits : EditAirport(a, r)
    \/ \E f \in Field :
          \/ \E text \in Typed : TypeText(f, text)
          \/ PickSuggestion(f)
          \/ CleanField(f)
    \/ SaveSubscription

Spec == Init /\ [][Next]_vars

-----------------------------------------------------------------------------
(* A suggestion that was picked is what gets subscribed to, or the form is   *)
(* refused: whatever an administrator does to the catalogue between the      *)
(* suggestion and the post, the label never resolves to another airport.     *)
PickedAirportIsKept ==
    \A f \in Field, c \in Code :
        <<c>> \in InlineCode(input[f]) => resolved[f] \subseteq {c}

ResolvesNow(f) == resolved'[f] # {} /\ resolved'[f] # resolved[f]

(* The code of an active airport means that airport, also when it is a city *)
(* of its own or begins the names of other airports.                        *)
CodesComeFirst ==
    [][\A f \in Field, r \in Active :
          ResolvesNow(f) /\ input[f] = <<r.code>> => resolved'[f] = {r.code}]_vars

(* A text that is not the code of an active airport, and holds none.         *)
NamesNoCode(text) == \A code \in {text} \cup InlineCode(text) : ByCode(code) = {}

(* A city that several active airports share is never taken for one of them, *)
(* unless it names a code: although it resolves as soon as the others are    *)
(* deactivated.                                                              *)
SharedCitiesAreRefused ==
    [][\A f \in Field, r, s \in Active :
          r # s /\ r.city = input[f] /\ s.city = input[f] /\ NamesNoCode(input[f])
             => ~ResolvesNow(f)]_vars
=============================================================================
