--------------------------- MODULE RouteForm_proofs ---------------------------
(* Proofs about RouteForm and the lookups of AirportCatalog, for any         *)
(* airports, texts and edits.                                                *)
EXTENDS RouteForm, FiniteSetTheorems, SequenceTheorems, TLAPS

(* A text without a code in brackets, as the names of the seed migration are. *)
Plain(text) == \A i \in 1 .. Len(text), c \in Code : text[i] # Bracketed[c]
PlainRow(r) == Plain(r.city) /\ Plain(r.name)

(* No airport is ever given a name with a code in brackets.                  *)
PlainNames == (\A r \in Edits : PlainRow(r)) /\ (\A a \in Airport : PlainRow(Seed[a]))

FormTypes ==
    /\ catalog \in [Airport -> Row]
    /\ input \in [Field -> Text]
    /\ resolved \in [Field -> SUBSET Code]
PlainCatalog == \A a \in Airport : PlainRow(catalog[a])

-----------------------------------------------------------------------------
(* The lookups. *)

(* The lookups of resolve_query are tried in turn. *)
LEMMA FirstOfFour ==
    ASSUME NEW A, NEW B, NEW C, NEW D
    PROVE  FirstFound(<<A, B, C, D>>)
              = IF A # {} THEN A ELSE IF B # {} THEN B ELSE IF C # {} THEN C ELSE D
<1> DEFINE choices == <<A, B, C, D>>
           Tried(j) == \A k \in 1 .. j - 1 : choices[k] = {}
<1>1. Len(choices) = 4 /\ choices[1] = A /\ choices[2] = B /\ choices[3] = C /\ choices[4] = D
  OBVIOUS
<1>2. \A x : x \in FirstFound(choices) <=> \E j \in 1 .. 4 : x \in choices[j] /\ Tried(j)
  BY <1>1 DEF FirstFound
<1>3. /\ Tried(1)
      /\ Tried(2) <=> A = {}
      /\ Tried(3) <=> A = {} /\ B = {}
      /\ Tried(4) <=> A = {} /\ B = {} /\ C = {}
  <2>1. 1 .. 1 - 1 = {} /\ 1 .. 2 - 1 = {1} /\ 1 .. 3 - 1 = {1, 2} /\ 1 .. 4 - 1 = {1, 2, 3}
    OBVIOUS
  <2>2. QED
    BY <1>1, <2>1
<1>4. \A j : j \in 1 .. 4 <=> j = 1 \/ j = 2 \/ j = 3 \/ j = 4
  OBVIOUS
<1> HIDE DEF choices, Tried
<1>5. \A x : x \in FirstFound(choices)
                <=> \/ x \in A
                    \/ x \in B /\ A = {}
                    \/ x \in C /\ A = {} /\ B = {}
                    \/ x \in D /\ A = {} /\ B = {} /\ C = {}
  BY <1>1, <1>2, <1>3, <1>4, Zenon
<1>6. \A x : x \in FirstFound(choices)
                <=> x \in IF A # {} THEN A ELSE IF B # {} THEN B ELSE IF C # {} THEN C ELSE D
  BY <1>5
<1>7. QED
  BY <1>6 DEF choices

(* Every airport in use is a row of the catalogue. *)
LEMMA ActiveRows ==
    ASSUME FormTypes
    PROVE  /\ Active \subseteq Row
           /\ \A r \in Active : r.code \in Code /\ r.city \in Text /\ r.name \in Text
           /\ PlainCatalog => \A r \in Active : PlainRow(r)
<1>1. \A r \in Active : \E a \in Airport : r = catalog[a]
  BY DEF Active
<1>2. \A r \in Active : r \in Row
  BY <1>1 DEF FormTypes
<1>3. \A r \in Row : r.code \in Code /\ r.city \in Text /\ r.name \in Text
  BY DEF Row
<1>4. QED
  BY <1>1, <1>2, <1>3 DEF PlainCatalog

(* What a text in brackets stands for, if a text has any. *)
LEMMA InlineCodes ==
    ASSUME NEW text \in Text, NEW code \in InlineCode(text)
    PROVE  /\ \E c \in Code, i \in 1 .. Len(text) : code = <<c>> /\ text[i] = Bracketed[c]
           /\ InlineCode(text) = {code}
<1> DEFINE found == {i \in 1 .. Len(text) : \E c \in Code : text[i] = Bracketed[c]}
           At(i) == CHOOSE c \in Code : text[i] = Bracketed[c]
<1>1. InlineCode(text) = {<<At(i)>> : i \in {j \in found : \A k \in found : j <= k}}
  BY DEF InlineCode
<1>2. \A i \in found : At(i) \in Code /\ text[i] = Bracketed[At(i)]
  OBVIOUS
<1>3. \A i \in found : i \in 1 .. Len(text)
  OBVIOUS
<1>4. Len(text) \in Nat
  BY DEF Text
<1> HIDE DEF found, At
<1>5. PICK i \in found : code = <<At(i)>> /\ \A k \in found : i <= k
  BY <1>1
<1>6. \A j \in found : (\A k \in found : j <= k) => j = i
  BY <1>3, <1>4, <1>5
<1>7. InlineCode(text) = {code}
  BY <1>1, <1>5, <1>6
<1>8. QED
  BY <1>2, <1>3, <1>5, <1>7

(* A prefix of a text has its fragments. *)
LEMMA PrefixFragments ==
    ASSUME NEW s \in Text, NEW t \in Text, IsPrefix(s, t), NEW i \in 1 .. Len(s)
    PROVE  i \in 1 .. Len(t) /\ t[i] = s[i]
<1>1. Len(s) \in Nat /\ Len(t) \in Nat /\ Len(s) <= Len(t)
  BY DEF Text, IsPrefix
<1>2. SubSeq(s, 1, Len(s))[i] = s[i] /\ SubSeq(t, 1, Len(s))[i] = t[i]
  BY <1>1 DEF Text
<1>3. QED
  BY <1>1, <1>2 DEF IsPrefix

(* The code of an active airport finds that airport.                         *)
LEMMA CodesAreFound ==
    ASSUME FormTypes, NEW r \in Active
    PROVE  {x.code : x \in ResolveQuery(<<r.code>>)} = {r.code}
<1> DEFINE text == <<r.code>>
<1>1. r.code \in Code
  BY ActiveRows
<1>2. Len(text) = 1 /\ text[1] = r.code /\ text # << >> /\ text \in Text
  BY <1>1, CatalogAssumption DEF CatalogAssumption, Text
<1>3. InlineCode(text) = {}
  <2> SUFFICES ASSUME NEW code \in InlineCode(text) PROVE FALSE
    OBVIOUS
  <2>1. PICK c \in Code, i \in 1 .. Len(text) : text[i] = Bracketed[c]
    BY <1>2, InlineCodes
  <2>2. Bracketed[c] \notin Code
    BY CatalogAssumption DEF CatalogAssumption
  <2>3. i = 1
    BY <1>2
  <2>4. QED
    BY <1>1, <1>2, <2>1, <2>2, <2>3
<1>4. UNION {ByCode(c) : c \in InlineCode(text)} = {}
  BY <1>3
<1>5. r \in ByCode(text)
  BY DEF ByCode
<1> HIDE DEF text
<1>6. ResolveQuery(text) = ByCode(text)
  BY <1>2, <1>4, <1>5, FirstOfFour DEF ResolveQuery
<1>7. \A x \in ByCode(text) : x.code = r.code
  BY DEF ByCode, text
<1>8. QED
  BY <1>5, <1>6, <1>7 DEF text

(* A text with a code in brackets finds the airport of the first, or none:   *)
(* no code and no plain name begins with it.                                 *)
LEMMA LabelsFindTheirAirport ==
    ASSUME FormTypes, PlainCatalog, NEW text \in Text, NEW c \in Code,
           <<c>> \in InlineCode(text)
    PROVE  {x.code : x \in ResolveQuery(text)} \subseteq {c}
<1>1. PICK d \in Code, i \in 1 .. Len(text) : text[i] = Bracketed[d]
  BY InlineCodes
<1>2. Bracketed[d] \in Fragment \ Code
  BY CatalogAssumption DEF CatalogAssumption
<1>3. ASSUME NEW r \in Active, NEW t \in {r.city, r.name, <<r.code>>}
      PROVE  ~IsPrefix(text, t)
  <2> SUFFICES ASSUME IsPrefix(text, t) PROVE FALSE
    OBVIOUS
  <2>1. r.code \in Code /\ r.city \in Text /\ r.name \in Text /\ PlainRow(r)
    BY ActiveRows
  <2>2. <<r.code>> \in Text
    BY <2>1, CatalogAssumption DEF CatalogAssumption, Text
  <2>3. i \in 1 .. Len(t) /\ t[i] = text[i]
    BY <2>1, <2>2, PrefixFragments
  <2>4. CASE t = <<r.code>>
    <3>1. i = 1 /\ t[1] = r.code
      BY <2>3, <2>4
    <3>2. QED
      BY <1>1, <1>2, <2>1, <2>3, <3>1
  <2>5. CASE t \in {r.city, r.name}
    BY <1>1, <2>1, <2>3, <2>5 DEF PlainRow, Plain
  <2>6. QED
    BY <2>4, <2>5
<1>4. IsPrefix(text, text)
  BY DEF IsPrefix, Text
<1>5. PrefixMatches(text) = {} /\ ExactMatches(text) = {} /\ ByCode(text) = {}
  BY <1>3, <1>4 DEF PrefixMatches, ExactMatches, ByCode
<1>6. Only({}) = {}
  BY DEF Only
<1>7. UNION {ByCode(code) : code \in InlineCode(text)} = ByCode(<<c>>)
  <2>1. InlineCode(text) = {<<c>>}
    BY InlineCodes
  <2>2. QED
    BY <2>1
<1>8. ResolveQuery(text) \subseteq ByCode(<<c>>)
  BY <1>5, <1>6, <1>7, FirstOfFour DEF ResolveQuery
<1>9. \A x \in ByCode(<<c>>) : x.code = c
  BY DEF ByCode
<1>10. QED
  BY <1>8, <1>9

(* A text that is the city of two airports and names no code finds none.     *)
LEMMA SharedCitiesFindNone ==
    ASSUME FormTypes, NEW r \in Active, NEW s \in Active, r # s, r.city = s.city,
           NamesNoCode(r.city)
    PROVE  ResolveQuery(r.city) = {}
<1>1. IsFiniteSet(Active)
  <2>1. IsFiniteSet(Airport)
    BY CatalogAssumption DEF CatalogAssumption
  <2>2. IsFiniteSet({b \in Airport : catalog[b].active})
    BY <2>1, FS_Subset
  <2> DEFINE rows == {b \in Airport : catalog[b].active}
             row == [b \in rows |-> catalog[b]]
  <2>3. row \in Surjection(rows, Active)
    BY DEF Surjection, Active
  <2> HIDE DEF rows, row
  <2>4. QED
    BY <2>2, <2>3, FS_Surjection DEF rows
<1>2. ASSUME NEW rows \in SUBSET Active, r \in rows, s \in rows
      PROVE  Only(rows) = {}
  <2>1. IsFiniteSet(rows) /\ IsFiniteSet({r, s})
    BY <1>1, FS_Subset
  <2>2. Cardinality({r, s}) = 2
    <3>1. IsFiniteSet({r}) /\ Cardinality({r}) = 1
      BY FS_Singleton
    <3>2. Cardinality({r} \cup {s}) = Cardinality({r}) + 1
      BY <3>1, FS_AddElement
    <3>3. {r} \cup {s} = {r, s}
      OBVIOUS
    <3>4. QED
      BY <3>1, <3>2, <3>3
  <2>3. Cardinality({r, s}) <= Cardinality(rows)
    BY <1>2, <2>1, FS_Subset
  <2>4. QED
    BY <2>2, <2>3 DEF Only
<1>3. r.city \in Text /\ IsPrefix(r.city, r.city)
  BY ActiveRows DEF IsPrefix
<1>4. Only(ExactMatches(r.city)) = {} /\ Only(PrefixMatches(r.city)) = {}
  BY <1>2, <1>3 DEF ExactMatches, PrefixMatches
<1>5. ByCode(r.city) = {} /\ UNION {ByCode(code) : code \in InlineCode(r.city)} = {}
  BY DEF NamesNoCode
<1>6. QED
  BY <1>4, <1>5, FirstOfFour DEF ResolveQuery

-----------------------------------------------------------------------------
(* The form. *)

(* What the label of a suggestion says: texts stay texts.                    *)
LEMMA LabelType ==
    ASSUME FormTypes, NEW r \in Active
    PROVE  Label(r) \in Text
<1>1. r.code \in Code /\ r.city \in Text /\ r.name \in Text
  BY ActiveRows
<1>2. <<Bracketed[r.code]>> \in Seq(Fragment)
  BY <1>1, CatalogAssumption DEF CatalogAssumption
<1>3. QED
  BY <1>1, <1>2 DEF Label, Text

(* The catalogue holds rows, and the form texts and codes.                   *)
LEMMA FormTypesHold == Spec => []FormTypes
<1>1. Init => FormTypes
  BY CatalogAssumption DEF Init, CatalogInit, CatalogAssumption, FormTypes, NoInput, Unresolved, Text
<1>2. FormTypes /\ [Next]_vars => FormTypes'
  <2> SUFFICES ASSUME FormTypes, [Next]_vars PROVE FormTypes'
    OBVIOUS
  <2>1. ASSUME NEW a \in Airport, NEW r \in Edits, EditAirport(a, r) PROVE FormTypes'
    BY <2>1, CatalogAssumption DEF EditAirport, SaveAirport, CatalogAssumption, FormTypes
  <2>2. ASSUME NEW f \in Field, NEW text \in Typed, TypeText(f, text) PROVE FormTypes'
    BY <2>2, TypedAssumption DEF TypeText, TypedAssumption, FormTypes
  <2>3. ASSUME NEW f \in Field, PickSuggestion(f) PROVE FormTypes'
    <3>1. PICK r \in Suggest(input[f]) : input' = [input EXCEPT ![f] = Label(r)]
      BY <2>3 DEF PickSuggestion
    <3>2. Label(r) \in Text
      BY LabelType DEF Suggest, PrefixMatches
    <3>3. QED
      BY <2>3, <3>1, <3>2 DEF PickSuggestion, FormTypes
  <2>4. ASSUME NEW f \in Field, CleanField(f) PROVE FormTypes'
    <3> DEFINE found == {r.code : r \in ResolveQuery(input[f])}
    <3>1. ResolveQuery(input[f]) \subseteq Active
      <4>1. \A code : ByCode(code) \subseteq Active
        BY DEF ByCode
      <4>2. \A rows \in SUBSET Active : Only(rows) \subseteq Active
        BY DEF Only
      <4>3. ExactMatches(input[f]) \subseteq Active /\ PrefixMatches(input[f]) \subseteq Active
        BY DEF ExactMatches, PrefixMatches
      <4>4. UNION {ByCode(code) : code \in InlineCode(input[f])} \subseteq Active
        BY <4>1
      <4>5. QED
        BY <4>1, <4>2, <4>3, <4>4, FirstOfFour DEF ResolveQuery
    <3>2. found \subseteq Code
      BY <3>1, ActiveRows
    <3> HIDE DEF found
    <3>3. resolved' = Unresolved \/ resolved' = [resolved EXCEPT ![f] = found]
      BY <2>4 DEF CleanField, found
    <3>4. QED
      BY <2>4, <3>2, <3>3 DEF CleanField, FormTypes, Unresolved
  <2>5. CASE SaveSubscription
    BY <2>5 DEF SaveSubscription, FormTypes, NoInput, Unresolved, Text
  <2>6. CASE UNCHANGED vars
    BY <2>6 DEF vars, FormTypes
  <2>7. QED
    BY <2>1, <2>2, <2>3, <2>4, <2>5, <2>6 DEF Next
<1>3. QED
  BY <1>1, <1>2, PTL DEF Spec

(* If neither the seed nor an edit puts a code in brackets into a name, none *)
(* ever has one.                                                             *)
LEMMA NamesStayPlain ==
    ASSUME PlainNames
    PROVE  Spec => []PlainCatalog
<1>1. Init => PlainCatalog
  BY DEF Init, CatalogInit, PlainNames, PlainCatalog
<1>2. FormTypes /\ PlainCatalog /\ [Next]_vars => PlainCatalog'
  <2> SUFFICES ASSUME FormTypes, PlainCatalog, [Next]_vars PROVE PlainCatalog'
    OBVIOUS
  <2>1. ASSUME NEW a \in Airport, NEW r \in Edits, EditAirport(a, r) PROVE PlainCatalog'
    BY <2>1 DEF EditAirport, SaveAirport, FormTypes, PlainCatalog, PlainNames
  <2>2. ASSUME UNCHANGED catalog PROVE PlainCatalog'
    BY <2>2 DEF PlainCatalog
  <2>3. QED
    BY <2>1, <2>2 DEF Next, TypeText, PickSuggestion, CleanField, SaveSubscription, vars
<1>3. QED
  BY <1>1, <1>2, FormTypesHold, PTL DEF Spec

(* The label of a suggestion names the suggested airport, and no other.      *)
LabelsNameTheirAirport == \A r \in Active : InlineCode(Label(r)) = {<<r.code>>}

(* The fragments of two texts and a third fragment, one after the other.     *)
LEMMA JoinedTexts ==
    ASSUME NEW S, NEW s \in Seq(S), NEW t \in Seq(S), NEW b \in S,
           NEW n, n = Len(s), NEW m, m = Len(t), NEW text, text = s \o t \o <<b>>
    PROVE  /\ n \in Nat /\ m \in Nat /\ Len(text) = n + m + 1
           /\ text[n + m + 1] = b
           /\ \A i \in 1 .. n : text[i] = s[i]
           /\ \A i \in 1 .. m : text[n + i] = t[i]
<1>1. n \in Nat /\ m \in Nat
  OBVIOUS
<1>2. PICK u \in Seq(S) : u = s \o t
  <2>1. s \o t \in Seq(S)
    BY ConcatProperties
  <2>2. QED
    BY <2>1
<1>3. /\ Len(u) = n + m
      /\ \A i \in 1 .. n + m : u[i] = IF i <= n THEN s[i] ELSE t[i - n]
  BY <1>2, ConcatProperties
<1>4. <<b>> \in Seq(S) /\ Len(<<b>>) = 1 /\ <<b>>[1] = b
  OBVIOUS
<1>5. /\ Len(u \o <<b>>) = n + m + 1
      /\ \A i \in 1 .. n + m + 1 : (u \o <<b>>)[i] = IF i <= n + m THEN u[i] ELSE <<b>>[i - (n + m)]
  BY <1>1, <1>3, <1>4, ConcatProperties
<1>6. (u \o <<b>>)[n + m + 1] = b
  <2>1. n + m + 1 \in 1 .. n + m + 1 /\ ~(n + m + 1 <= n + m) /\ n + m + 1 - (n + m) = 1
    BY <1>1
  <2>2. QED
    BY <1>4, <1>5, <2>1
<1>7. ASSUME NEW i \in 1 .. n PROVE (u \o <<b>>)[i] = s[i]
  <2>1. i \in 1 .. n + m + 1 /\ i \in 1 .. n + m /\ i <= n + m /\ i <= n
    BY <1>1
  <2>2. QED
    BY <1>3, <1>5, <2>1
<1>8. ASSUME NEW i \in 1 .. m PROVE (u \o <<b>>)[n + i] = t[i]
  <2>1. /\ n + i \in 1 .. n + m + 1 /\ n + i \in 1 .. n + m
        /\ n + i <= n + m /\ ~(n + i <= n) /\ n + i - n = i
    BY <1>1
  <2>2. QED
    BY <1>3, <1>5, <2>1
<1>9. QED
  BY <1>1, <1>2, <1>5, <1>6, <1>7, <1>8

(* In the label, the code of the airport is the only one in brackets. *)
LEMMA LabelsHaveOneCode ==
    ASSUME FormTypes, PlainCatalog
    PROVE  LabelsNameTheirAirport
<1> SUFFICES ASSUME NEW r \in Active PROVE InlineCode(Label(r)) = {<<r.code>>}
  BY DEF LabelsNameTheirAirport
<1>1. r.code \in Code /\ r.city \in Seq(Fragment) /\ r.name \in Seq(Fragment) /\ PlainRow(r)
  BY ActiveRows DEF Text
<1>2. Bracketed[r.code] \in Fragment
  BY <1>1, CatalogAssumption DEF CatalogAssumption
<1>3. PICK text, n, m : text = Label(r) /\ n = Len(r.city) /\ m = Len(r.name)
  OBVIOUS
<1>4. /\ n \in Nat /\ m \in Nat /\ Len(text) = n + m + 1
      /\ text[n + m + 1] = Bracketed[r.code]
      /\ \A i \in 1 .. n : text[i] = r.city[i]
      /\ \A i \in 1 .. m : text[n + i] = r.name[i]
  <2>1. PICK city \in Seq(Fragment), name \in Seq(Fragment), b \in Fragment :
           city = r.city /\ name = r.name /\ b = Bracketed[r.code]
    BY <1>1, <1>2
  <2>2. n = Len(city) /\ m = Len(name) /\ text = city \o name \o <<b>>
    BY <1>3, <2>1 DEF Label
  <2>3. /\ n \in Nat /\ m \in Nat /\ Len(text) = n + m + 1
        /\ text[n + m + 1] = b
        /\ \A i \in 1 .. n : text[i] = city[i]
        /\ \A i \in 1 .. m : text[n + i] = name[i]
    BY <2>2, JoinedTexts
  <2>4. QED
    BY <2>1, <2>3, Zenon
<1>5. ASSUME NEW i \in 1 .. Len(text), NEW c \in Code, text[i] = Bracketed[c]
      PROVE  i = n + m + 1 /\ c = r.code
  <2>1. CASE i \in 1 .. n
    BY <1>1, <1>3, <1>4, <1>5, <2>1 DEF PlainRow, Plain
  <2>2. CASE i \in n + 1 .. n + m
    <3>1. PICK k \in 1 .. m : i = n + k
      <4>1. i - n \in 1 .. m /\ i = n + (i - n)
        BY <1>4, <2>2
      <4>2. QED
        BY <4>1
    <3>2. r.name[k] # Bracketed[c]
      BY <1>1, <1>3, <3>1 DEF PlainRow, Plain
    <3>3. QED
      BY <1>4, <1>5, <3>1, <3>2
  <2>3. CASE i = n + m + 1
    BY <1>1, <1>4, <1>5, <2>3, CatalogAssumption DEF CatalogAssumption
  <2>4. i \in 1 .. n \/ i \in n + 1 .. n + m \/ i = n + m + 1
    BY <1>4
  <2>5. QED
    BY <2>1, <2>2, <2>3, <2>4
<1>6. PICK last \in 1 .. Len(text) : last = n + m + 1
  <2>1. n + m + 1 \in 1 .. n + m + 1
    BY <1>4
  <2>2. QED
    BY <1>4, <2>1
<1>7. text[last] = Bracketed[r.code] /\ last <= last
  BY <1>4, <1>6
<1> DEFINE found == {i \in 1 .. Len(text) : \E c \in Code : text[i] = Bracketed[c]}
           At(i) == CHOOSE c \in Code : text[i] = Bracketed[c]
<1>8. InlineCode(text) = {<<At(i)>> : i \in {j \in found : \A k \in found : j <= k}}
  BY DEF InlineCode
<1>9. last \in found /\ \A i \in found : i = last
  BY <1>1, <1>5, <1>6, <1>7
<1>10. At(last) = r.code
  <2>1. At(last) \in Code /\ text[last] = Bracketed[At(last)]
    BY <1>1, <1>7
  <2>2. QED
    BY <1>5, <2>1
<1> HIDE DEF found, At
<1>11. QED
  BY <1>3, <1>7, <1>8, <1>9, <1>10

(* Picking a suggestion leaves exactly the code of that airport in the field. *)
THEOREM LabelsAreUnambiguous ==
    ASSUME PlainNames
    PROVE  Spec => []LabelsNameTheirAirport
<1>1. FormTypes /\ PlainCatalog => LabelsNameTheirAirport
  BY LabelsHaveOneCode
<1>2. QED
  BY <1>1, FormTypesHold, NamesStayPlain, PTL

(* What is resolved is a code of the text that is still in the field; texts  *)
(* only change while nothing is resolved.                                    *)
THEOREM PicksAreKept ==
    ASSUME PlainNames
    PROVE  Spec => []PickedAirportIsKept
<1>1. Init => PickedAirportIsKept
  BY DEF Init, PickedAirportIsKept, Unresolved
<1>2. FormTypes /\ PlainCatalog /\ PickedAirportIsKept /\ [Next]_vars => PickedAirportIsKept'
  <2> SUFFICES ASSUME FormTypes, PlainCatalog, PickedAirportIsKept, [Next]_vars,
                      NEW g \in Field, NEW c \in Code, <<c>> \in InlineCode(input'[g])
               PROVE  resolved'[g] \subseteq {c}
    BY DEF PickedAirportIsKept, InlineCode
  <2>1. ASSUME resolved' = Unresolved PROVE resolved'[g] \subseteq {c}
    BY <2>1 DEF Unresolved
  <2>2. ASSUME UNCHANGED <<input, resolved>> PROVE resolved'[g] \subseteq {c}
    BY <2>2 DEF PickedAirportIsKept
  <2>3. ASSUME NEW f \in Field, CleanField(f) PROVE resolved'[g] \subseteq {c}
    <3> DEFINE found == {r.code : r \in ResolveQuery(input[f])}
    <3>1. resolved' = Unresolved \/ resolved' = [resolved EXCEPT ![f] = found]
      BY <2>3 DEF CleanField
    <3>2. input' = input
      BY <2>3 DEF CleanField
    <3>3. CASE resolved' = [resolved EXCEPT ![f] = found] /\ f = g
      <4>1. input[g] \in Text /\ <<c>> \in InlineCode(input[g])
        BY <3>2 DEF FormTypes
      <4>2. found \subseteq {c}
        BY <3>3, <4>1, LabelsFindTheirAirport
      <4>3. resolved'[g] = found
        BY <3>3 DEF FormTypes
      <4>4. QED
        BY <4>2, <4>3
    <3>4. CASE resolved' = [resolved EXCEPT ![f] = found] /\ f # g
      <4>1. resolved'[g] = resolved[g]
        BY <3>4 DEF FormTypes
      <4>2. QED
        BY <3>2, <4>1 DEF PickedAirportIsKept
    <3>5. QED
      BY <2>1, <3>1, <3>3, <3>4
  <2>4. QED
    BY <2>1, <2>2, <2>3 DEF Next, EditAirport, TypeText, PickSuggestion, SaveSubscription, vars
<1>3. QED
  BY <1>1, <1>2, FormTypesHold, NamesStayPlain, PTL DEF Spec

(* A field is resolved by CleanField alone, to what its text finds.          *)
LEMMA OnlyCleaningResolves ==
    ASSUME FormTypes, [Next]_vars, NEW f \in Field, ResolvesNow(f)
    PROVE  resolved'[f] = {r.code : r \in ResolveQuery(input[f])}
<1>1. resolved' # Unresolved
  BY DEF ResolvesNow, Unresolved
<1>2. resolved' # resolved
  BY DEF ResolvesNow
<1>3. PICK g \in Field : CleanField(g)
  BY <1>1, <1>2, Zenon DEF Next, EditAirport, TypeText, PickSuggestion, SaveSubscription, vars
<1>4. resolved' = [resolved EXCEPT ![g] = {r.code : r \in ResolveQuery(input[g])}]
  BY <1>1, <1>3 DEF CleanField
<1>5. g = f
  BY <1>4 DEF FormTypes, ResolvesNow
<1>6. QED
  BY <1>4, <1>5 DEF FormTypes

(* The code of an active airport always resolves to it. *)
THEOREM CodesResolveFirst == Spec => CodesComeFirst
<1>1. FormTypes /\ [Next]_vars
         => [\A f \in Field, r \in Active :
                ResolvesNow(f) /\ input[f] = <<r.code>> => resolved'[f] = {r.code}]_vars
  BY OnlyCleaningResolves, CodesAreFound
<1>2. QED
  BY <1>1, FormTypesHold, PTL DEF Spec, CodesComeFirst

(* A city that several active airports share is refused. *)
THEOREM SharedCitiesStayRefused == Spec => SharedCitiesAreRefused
<1>1. FormTypes /\ [Next]_vars
         => [\A f \in Field, r, s \in Active :
                r # s /\ r.city = input[f] /\ s.city = input[f] /\ NamesNoCode(input[f])
                   => ~ResolvesNow(f)]_vars
  <2> SUFFICES ASSUME FormTypes, [Next]_vars, NEW f \in Field, NEW r \in Active, NEW s \in Active,
                      r # s, r.city = input[f], s.city = input[f], NamesNoCode(input[f]),
                      ResolvesNow(f)
               PROVE  FALSE
    OBVIOUS
  <2>1. ResolveQuery(input[f]) = {}
    BY SharedCitiesFindNone
  <2>2. resolved'[f] = {}
    BY <2>1, OnlyCleaningResolves
  <2>3. QED
    BY <2>2 DEF ResolvesNow
<1>2. QED
  BY <1>1, FormTypesHold, PTL DEF Spec, SharedCitiesAreRefused
=============================================================================
