---------------------------- MODULE AirportCatalog ----------------------------
(***************************************************************************)
(* The airport catalogue: what a text resolves to, and what is suggested   *)
(* for it.  A text is a sequence of fragments, so that one text can begin  *)
(* another ("Ber", "Berlin"); case is left out, as every comparison of the *)
(* code ignores it.                                                        *)
(***************************************************************************)
EXTENDS Integers, FiniteSets, SequencesExt

CONSTANTS
    Airport,    \* the Airport rows
    Fragment,   \* what texts are made of; an airport code is one of them
    Bracketed,  \* the fragment "(code)" of each code
    Edits,      \* the contents an administrator may give a row
    Seed        \* the rows of the seed migration

VARIABLE catalog

Code == DOMAIN Bracketed
Text == Seq(Fragment)
Row == [code : Code, city : Text, name : Text, active : BOOLEAN]

ASSUME CatalogAssumption ==
    /\ Code \subseteq Fragment
    /\ \A c, d \in Code : Bracketed[c] = Bracketed[d] => c = d
    /\ \A c \in Code : Bracketed[c] \in Fragment \ Code
    /\ Edits \subseteq Row /\ Seed \in [Airport -> Row]
    /\ IsFiniteSet(Airport)

CatalogInit == catalog = Seed

(* The admin site saves a row; codes are unique. *)
SaveAirport(a, r) ==
    /\ \A b \in Airport \ {a} : catalog[b].code # r.code
    /\ catalog' = [catalog EXCEPT ![a] = r]

Active == {catalog[a] : a \in {b \in Airport : catalog[b].active}}

ByCode(text) == {r \in Active : <<r.code>> = text}

ExactMatches(text) == {r \in Active : text \in {r.city, r.name}}

PrefixMatches(text) ==
    {r \in Active : \E t \in {r.city, r.name, <<r.code>>} : IsPrefix(text, t)}

(* Faulty variant: the first of several. *)
AnyOf(rows) == IF rows = {} THEN {} ELSE {CHOOSE r \in rows : TRUE}

(* A list that holds a single airport. *)
Only(rows) == IF Cardinality(rows) = 1 THEN rows ELSE {}

(* The code of the first pair of brackets in a text. *)
InlineCode(text) ==
    LET found == {i \in 1 .. Len(text) : \E c \in Code : text[i] = Bracketed[c]}
    IN  {<<CHOOSE c \in Code : text[i] = Bracketed[c]>> :
            i \in {j \in found : \A k \in found : j <= k}}

(* The first of several lookups that finds anything. *)
FirstFound(choices) ==
    UNION {choices[i] : i \in {j \in 1 .. Len(choices) : \A k \in 1 .. j - 1 : choices[k] = {}}}

(* Faulty variant: names are looked at before codes. *)
NamesFirst(text) ==
    FirstFound(<<UNION {ByCode(c) : c \in InlineCode(text)},
                 Only(ExactMatches(text)), Only(PrefixMatches(text)), ByCode(text)>>)

(* Faulty variant: when nothing is found, the first word is tried. *)
FirstWordCounts(text) ==
    IF text = << >> THEN {}
    ELSE FirstFound(<<UNION {ByCode(c) : c \in InlineCode(text)}, ByCode(text),
                      Only(ExactMatches(text)), Only(PrefixMatches(<<Head(text)>>))>>)

(* resolve_query: no airport, or the one that the first of four lookups     *)
(* finds.                                                                  *)
ResolveQuery(text) ==
    IF text = << >> THEN {}
    ELSE FirstFound(<<UNION {ByCode(c) : c \in InlineCode(text)},
                      ByCode(text),
                      Only(ExactMatches(text)),
                      Only(PrefixMatches(text))>>)

Suggest(text) == IF text = << >> THEN {} ELSE PrefixMatches(text)

Label(r) == r.city \o r.name \o <<Bracketed[r.code]>>
=============================================================================
