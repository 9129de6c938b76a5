---------------------------- MODULE Accounts_proofs ----------------------------
(***************************************************************************)
(* What Accounts keeps for any number of reviewers, web requests, accounts *)
(* and forms.  A reviewer's or a web request's copy of a row may be as old *)
(* as it likes, and write an old name back; what holds all the same is that *)
(* every name an account has had is remembered as used, and that a search  *)
(* for a name goes past a candidate only when it has been used.            *)
(***************************************************************************)
EXTENDS Accounts, WellFoundedInduction, TLAPS

Status == {"pending", "approved", "rejected", Absent}

Typing ==
    /\ request \in [Email -> Status]
    /\ arrived \in Seq(Email)
    /\ account \in [Account -> Row \cup {Absent}]
    /\ issued \in Nat
    /\ pc \in [Reviewer -> {"idle", "next", "name", "insert", "update"}]
    /\ verdict \in [Reviewer -> {"none", "approve", "reject"}]
    /\ todo \in [Reviewer -> SUBSET (1 .. Len(arrived))]
    /\ seen \in [Reviewer -> [Email -> Status]]
    /\ target \in [Reviewer -> Account \cup {Absent}]
    /\ row \in [Reviewer -> Row \cup {Absent}]
    /\ number \in [Reviewer -> Nat]
    /\ messages \in [Reviewer -> SUBSET Nat]
    /\ shown \in SUBSET Nat
    /\ web \in [Web -> {"idle", "flags"} \cup Form]
    /\ user \in [Web -> Account \cup {Absent}]
    /\ copy \in [Web -> Row \cup {Absent}]

(* The candidates before the one a reviewer is at have all been used. *)
Numbered(v) ==
    /\ number[v] \in Nat \ {0}
    /\ row[v].name = Candidate(BaseOf[row[v].email], number[v])
    /\ \A n \in 1 .. number[v] - 1 : Candidate(BaseOf[row[v].email], n) \in used

(* A reviewer who is about to write has a row, loaded or built for a request *)
(* that was pending when it was loaded.                                      *)
ReviewHolds(v) ==
    pc[v] \in {"name", "insert", "update"} =>
        /\ row[v] \in Row
        /\ todo[v] # {} /\ seen[v][Current(v)] = "pending"
        /\ pc[v] = "update" => target[v] \in Account /\ Exists(target[v])
        /\ pc[v] # "update" => Numbered(v)

RequestHolds(q) ==
    IF web[q] = "idle"
    THEN user[q] = Absent
    ELSE /\ user[q] \in Account /\ Exists(user[q])
         /\ copy[q] \in Row
         /\ web[q] = "profile" => ~copy[q].temporary

Copies ==
    /\ \A v \in Reviewer : ReviewHolds(v)
    /\ \A q \in Web : RequestHolds(q)

Remembered == \A a \in Account : Exists(a) => account[a].name \in used

Held == Typing /\ Copies /\ Remembered

-----------------------------------------------------------------------------
(* Operators. *)

(* The earliest of the requests left is one of them. *)
LEMMA EarliestExists ==
    ASSUME NEW n \in Nat, NEW I \in SUBSET (1 .. n), I # {}
    PROVE  Earliest(I) \in I /\ \A j \in I : Earliest(I) <= j
<1> DEFINE Less == OpToRel(<, Nat)
<1>1. IsWellFoundedOn(Less, Nat)
  BY NatLessThanWellFounded
<1>2. \A a, b \in Nat : <<a, b>> \in Less <=> a < b
  BY DEF OpToRel
<1>3. I \in SUBSET Nat
  OBVIOUS
<1> HIDE DEF Less
<1>4. PICK x \in I : \A y \in I : ~(<<y, x>> \in Less)
  BY <1>1, <1>3, WFMin
<1>5. ASSUME NEW y \in I PROVE x <= y
  <2>1. x \in Nat /\ y \in Nat
    BY <1>3
  <2>2. ~(y < x)
    BY <1>2, <1>4, <2>1
  <2>3. QED
    BY <2>1, <2>2
<1>6. QED
  BY <1>5 DEF Earliest

(* The request a decision is at is one that arrived. *)
LEMMA CurrentIsRequest ==
    ASSUME Typing, NEW v \in Reviewer, todo[v] # {}
    PROVE  /\ Earliest(todo[v]) \in todo[v] /\ Earliest(todo[v]) \in 1 .. Len(arrived)
           /\ Current(v) \in Email
<1>1. arrived \in Seq(Email) /\ Len(arrived) \in Nat /\ todo[v] \in SUBSET (1 .. Len(arrived))
  BY DEF Typing
<1>2. Earliest(todo[v]) \in todo[v]
  BY <1>1, EarliestExists
<1>3. QED
  BY <1>1, <1>2 DEF Current

(* What an administrator or a search for a name makes of a row is a row. *)
LEMMA RowsAreBuilt ==
    ASSUME NEW e \in Email
    PROVE  /\ \A name \in Name : OwnRow(e, name) \in Row
           /\ \A n \in Nat : Candidate(BaseOf[e], n) \in Name
           /\ OwnRow(e, BaseOf[e]) \in Row
           /\ Chosen \subseteq Name
<1>1. BaseOf[e] \in Name /\ Chosen \subseteq Name
  BY ConstantsAssumption
<1>2. \A n \in Nat : Candidate(BaseOf[e], n) \in Name
  BY <1>1 DEF Candidate, Name
<1>3. \A name \in Name : OwnRow(e, name) \in Row
  BY DEF OwnRow, Row
<1>4. QED
  BY <1>1, <1>2, <1>3

-----------------------------------------------------------------------------
(* Typing and what copies hold are kept.  It all holds at the start. *)
LEMMA InitHeld == Init => Held
<1> SUFFICES ASSUME Init PROVE Held
  OBVIOUS
<1> USE ConstantsAssumption
<1>1. account \in [Account -> Row \cup {Absent}] /\ Remembered
  <2>1. CASE account = [a \in Account |-> Absent]
    BY <2>1 DEF Remembered, Exists
  <2>2. ASSUME NEW a \in Account, NEW e \in Email, NEW name \in Chosen,
               account = [b \in Account |-> IF b = a THEN OwnRow(e, name) ELSE Absent],
               used = {name}
        PROVE  account \in [Account -> Row \cup {Absent}] /\ Remembered
    <3>1. OwnRow(e, name) \in Row /\ OwnRow(e, name).name = name
      BY RowsAreBuilt DEF OwnRow
    <3>2. \A b \in Account : account[b] # Absent => account[b].name \in used
      BY <2>2, <3>1
    <3>3. QED
      BY <2>2, <3>1, <3>2 DEF Remembered, Exists
  <2>3. QED
    BY <2>1, <2>2 DEF Init
<1>2. Typing
  BY <1>1 DEF Init, Typing, Status
<1>3. Copies
  BY DEF Init, Copies, ReviewHolds, RequestHolds
<1>4. QED
  BY <1>1, <1>2, <1>3 DEF Held

(* The row read for a request gets the password issued for it. *)
LEMMA FindAccountCases ==
    ASSUME Held, NEW v \in Reviewer, FindAccount(v)
    PROVE  \/ NextRequest(v)
           \/ \E a \in Account :
                 /\ Exists(a) /\ account[a] \in Row
                 /\ target' = [target EXCEPT ![v] = a]
                 /\ row' = [row EXCEPT ![v] = [account[a] EXCEPT !.password = issued']]
                 /\ pc' = [pc EXCEPT ![v] = "update"]
                 /\ UNCHANGED <<verdict, todo, seen, number>>
           \/ /\ OwnRow(Current(v), BaseOf[Current(v)]) \in Row
              /\ row' = [row EXCEPT ![v] =
                    [OwnRow(Current(v), BaseOf[Current(v)]) EXCEPT !.password = issued']]
              /\ number' = [number EXCEPT ![v] = 1]
              /\ pc' = [pc EXCEPT ![v] = "name"]
              /\ UNCHANGED <<verdict, todo, seen, target>>
<1>1. Typing /\ todo[v] # {}
  BY DEF Held, FindAccount, Deciding
<1>2. OwnRow(Current(v), BaseOf[Current(v)]) \in Row
  <2>1. Current(v) \in Email
    BY <1>1, CurrentIsRequest
  <2>2. QED
    BY <2>1, RowsAreBuilt
<1>3. \A a \in Account : Exists(a) => account[a] \in Row
  BY <1>1 DEF Typing, Exists
<1>4. CASE EmailTaken(Current(v), Absent)
  <2>1. PICK a \in Account :
           /\ Exists(a)
           /\ IF account[a].approved
              THEN NextRequest(v)
              ELSE /\ target' = [target EXCEPT ![v] = a]
                   /\ row' = [row EXCEPT ![v] = [account[a] EXCEPT !.password = issued']]
                   /\ pc' = [pc EXCEPT ![v] = "update"]
                   /\ UNCHANGED <<verdict, todo, seen, number>>
    BY <1>4, Zenon DEF FindAccount
  <2>2. QED
    BY <1>3, <2>1, Zenon
<1>5. CASE ~EmailTaken(Current(v), Absent)
  BY <1>2, <1>5, Zenon DEF FindAccount
<1>6. QED
  BY <1>4, <1>5

(* What a decision leaves behind has its types, wherever it goes next. *)
LEMMA NextRequestTyping ==
    ASSUME Typing, NEW v \in Reviewer, NextRequest(v)
    PROVE  /\ pc' \in [Reviewer -> {"idle", "next", "name", "insert", "update"}]
           /\ verdict' \in [Reviewer -> {"none", "approve", "reject"}]
           /\ todo' \in [Reviewer -> SUBSET (1 .. Len(arrived))]
           /\ seen' \in [Reviewer -> [Email -> Status]]
           /\ target' \in [Reviewer -> Account \cup {Absent}]
           /\ row' \in [Reviewer -> Row \cup {Absent}]
           /\ number' \in [Reviewer -> Nat]
<1>1. seen' \in [Reviewer -> [Email -> Status]]
  <2>1. [seen[v] EXCEPT ![Current(v)] = Absent] \in [Email -> Status]
    BY DEF Typing, Status
  <2>2. seen' = [seen EXCEPT ![v] = [seen[v] EXCEPT ![Current(v)] = Absent]]
    BY DEF NextRequest
  <2>3. QED
    BY <2>1, <2>2 DEF Typing
<1>2. QED
  BY <1>1 DEF Typing, NextRequest

(* So has what a finished review leaves behind. *)
LEMMA EndReviewTyping ==
    ASSUME Typing, NEW v \in Reviewer, EndReview(v)
    PROVE  /\ pc' \in [Reviewer -> {"idle", "next", "name", "insert", "update"}]
           /\ verdict' \in [Reviewer -> {"none", "approve", "reject"}]
           /\ todo' \in [Reviewer -> SUBSET (1 .. Len(arrived))]
           /\ seen' \in [Reviewer -> [Email -> Status]]
           /\ target' \in [Reviewer -> Account \cup {Absent}]
           /\ row' \in [Reviewer -> Row \cup {Absent}]
           /\ number' \in [Reviewer -> Nat]
           /\ messages' \in [Reviewer -> SUBSET Nat]
  BY DEF Typing, EndReview, Status

(* Showing the messages, as many as arrive, changes no account and keeps the *)
(* types.                                                                    *)
LEMMA ShowMessagesTyping ==
    ASSUME Typing, NEW v \in Reviewer, ShowMessages(v) \/ FailReview(v)
    PROVE  Typing' /\ UNCHANGED <<request, arrived, account, issued, web, user, copy, used, given>>
<1>1. EndReview(v)
      /\ UNCHANGED <<request, arrived, account, issued, web, user, copy, used, given>>
  BY DEF ShowMessages, FailReview, webVars, nameVars
<1>2. shown' \in SUBSET Nat
  BY DEF ShowMessages, FailReview, InCookie, Typing
<1>3. QED
  BY <1>1, <1>2, EndReviewTyping DEF Typing

(* A web request that ends lets go of what it loaded. *)
LEMMA EndRequestTyping ==
    ASSUME Typing, NEW q \in Web, EndRequest(q)
    PROVE  /\ web' \in [Web -> {"idle", "flags"} \cup Form]
           /\ user' \in [Web -> Account \cup {Absent}]
           /\ copy' \in [Web -> Row \cup {Absent}]
  BY DEF Typing, EndRequest

(* save() writes a row over the account, or nothing. *)
LEMMA SavedRowTyping ==
    ASSUME Typing, NEW q \in Web, NEW r \in Row
    PROVE  SavedRow(q, r) \in [Account -> Row \cup {Absent}]
  BY DEF Typing, SavedRow

-----------------------------------------------------------------------------
(* What a step does to the accounts: nothing, or it writes a row under the   *)
(* name the account has, or under one that no other account has.            *)

RowWritten(a, r) == a \in Account /\ r \in Row /\ account' = [account EXCEPT ![a] = r]
FreeFor(r, a) == ~NameTaken(r.name, a) \/ (Exists(a) /\ r.name = account[a].name)
Written == \E a, r : RowWritten(a, r) /\ FreeFor(r, a)

(* The names in use are remembered. *)
Recorded ==
    \/ used' = used /\ account' = account
    \/ Remember
    \/ /\ used' = used
       /\ \E a, r : RowWritten(a, r) /\ Exists(a) /\ r.name = account[a].name

(* Approving writes the row the reviewer holds. *)
LEMMA ApproveWrites ==
    ASSUME NEW v \in Reviewer, NEW a \in Account, row[v] \in Row, Approve(v, a)
    PROVE  Remember /\ \E r : RowWritten(a, r) /\ r.name = row[v].name
<1> DEFINE r == [row[v] EXCEPT !.approved = TRUE, !.active = TRUE, !.temporary = TRUE]
<1>1. r \in Row /\ r.name = row[v].name
  BY DEF Row
<1>2. account' = [account EXCEPT ![a] = r] /\ Remember
  BY DEF Approve
<1> HIDE DEF r
<1>3. RowWritten(a, r)
  BY <1>1, <1>2 DEF RowWritten
<1>4. QED
  BY <1>1, <1>2, <1>3, Zenon

(* A form writes a row whose name no other account has, or none. *)
LEMMA SavedRowWrites ==
    ASSUME NEW q \in Web, user[q] \in Account, NEW r \in Row, account' = SavedRow(q, r)
    PROVE  account' = account \/ Written
  BY DEF SavedRow, Refused, Written, RowWritten, FreeFor

(* What web requests write is a row. *)
LEMMA FormsMakeRows ==
    ASSUME NEW r \in Row
    PROVE  /\ \A e \in Email : [r EXCEPT !.email = e] \in Row
           /\ [r EXCEPT !.password = 0] \in Row
           /\ [r EXCEPT !.temporary = FALSE] \in Row
           /\ [r EXCEPT !.temporary = FALSE].name = r.name
           /\ \A n \in Nat : [r EXCEPT !.password = n] \in Row
           /\ \A e \in Email, name \in Chosen \cup {r.name}, f \in Flags :
                 Edited(r, e, name, f) \in Row
<1>1. /\ \A e \in Email : [r EXCEPT !.email = e] \in Row
      /\ [r EXCEPT !.password = 0] \in Row
      /\ [r EXCEPT !.temporary = FALSE] \in Row
      /\ [r EXCEPT !.temporary = FALSE].name = r.name
      /\ \A n \in Nat : [r EXCEPT !.password = n] \in Row
  BY DEF Row
<1>2. ASSUME NEW e \in Email, NEW name \in Chosen \cup {r.name}, NEW f \in Flags
      PROVE  Edited(r, e, name, f) \in Row
  <2>1. name \in Name /\ f \in [active : BOOLEAN, approved : BOOLEAN, temporary : BOOLEAN]
    BY ConstantsAssumption DEF Row
  <2>2. QED
    BY <2>1 DEF Row, Edited
<1>3. QED
  BY <1>1, <1>2

(* A step of a review writes one row, or none. *)
LEMMA ReviewWrites ==
    ASSUME Held, NEW v \in Reviewer, ReviewStep(v)
    PROVE  (account' = account \/ Written) /\ Recorded
<1>1. Typing
  BY DEF Held
<1>2. ASSUME ShowMessages(v) \/ FailReview(v) PROVE account' = account /\ used' = used
  BY <1>1, <1>2, ShowMessagesTyping
<1>3. ASSUME CreateAccount(v) PROVE (account' = account \/ Written) /\ Recorded
  <2>1. row[v] \in Row
    BY <1>3 DEF CreateAccount, Held, Copies, ReviewHolds
  <2>2. CASE Refused(row[v], Absent)
    BY <1>2, <1>3, <2>2 DEF CreateAccount, Recorded
  <2>3. CASE ~Refused(row[v], Absent)
    <3>1. PICK a \in Account : ~Exists(a) /\ Approve(v, a)
      BY <1>3, <2>3, Zenon DEF CreateAccount
    <3>2. PICK r : RowWritten(a, r) /\ r.name = row[v].name
      BY <2>1, <3>1, ApproveWrites
    <3>3. ~NameTaken(r.name, a)
      BY <2>3, <3>2, AbsentAssumption DEF Refused, NameTaken
    <3>4. QED
      BY <2>1, <3>1, <3>2, <3>3, ApproveWrites DEF Written, FreeFor, Recorded
  <2>4. QED
    BY <2>2, <2>3
<1>4. ASSUME UpdateAccount(v) PROVE (account' = account \/ Written) /\ Recorded
  <2>1. row[v] \in Row /\ target[v] \in Account
    BY <1>4 DEF UpdateAccount, Held, Copies, ReviewHolds
  <2>2. CASE Refused(row[v], target[v])
    BY <1>2, <1>4, <2>2 DEF UpdateAccount, Recorded
  <2>3. CASE ~Refused(row[v], target[v])
    <3>1. Approve(v, target[v])
      BY <1>4, <2>3 DEF UpdateAccount
    <3>2. PICK r : RowWritten(target[v], r) /\ r.name = row[v].name
      BY <2>1, <3>1, ApproveWrites
    <3>3. ~NameTaken(r.name, target[v])
      BY <2>3, <3>2 DEF Refused
    <3>4. QED
      BY <2>1, <3>1, <3>2, <3>3, ApproveWrites DEF Written, FreeFor, Recorded
  <2>4. QED
    BY <2>2, <2>3
<1>5. ASSUME ~CreateAccount(v), ~UpdateAccount(v) PROVE account' = account /\ used' = used
  BY <1>2, <1>5 DEF ReviewStep, FinishReview, RefuseDecided, Reject, FindAccount, BuildUsername,
                    CrashReview, nameVars
<1>6. QED
  BY <1>3, <1>4, <1>5 DEF Recorded

(* A step of a web request writes one row, or none. *)
LEMMA WebWrites ==
    ASSUME Held, NEW q \in Web, WebStep(q)
    PROVE  (account' = account \/ Written) /\ Recorded
<1>1. ASSUME web[q] # "idle"
      PROVE  /\ user[q] \in Account /\ Exists(user[q]) /\ account[user[q]] \in Row
             /\ copy[q] \in Row
  BY <1>1 DEF Held, Typing, Copies, RequestHolds, Exists
<1>2. ASSUME NEW e \in Email, SaveProfile(q, e) PROVE (account' = account \/ Written) /\ Recorded
  <2>1. /\ user[q] \in Account /\ [copy[q] EXCEPT !.email = e] \in Row
        /\ account' = SavedRow(q, [copy[q] EXCEPT !.email = e]) /\ Remember
    BY <1>1, <1>2, FormsMakeRows DEF SaveProfile
  <2>2. QED
    BY <2>1, SavedRowWrites DEF Recorded
<1>3. ASSUME ChangePassword(q) PROVE (account' = account \/ Written) /\ Recorded
  <2>1. /\ user[q] \in Account /\ [copy[q] EXCEPT !.password = 0] \in Row
        /\ account' = SavedRow(q, [copy[q] EXCEPT !.password = 0]) /\ Remember
    BY <1>1, <1>3, FormsMakeRows DEF ChangePassword
  <2>2. QED
    BY <2>1, SavedRowWrites DEF Recorded
<1>4. ASSUME ClearFlags(q) PROVE (account' = account \/ Written) /\ Recorded
  <2> DEFINE r == [account[user[q]] EXCEPT !.temporary = FALSE]
  <2>1. user[q] \in Account /\ Exists(user[q]) /\ account[user[q]] \in Row
    BY <1>1, <1>4 DEF ClearFlags
  <2>2. account' = [account EXCEPT ![user[q]] = r] /\ used' = used
    BY <1>4 DEF ClearFlags, nameVars
  <2>3. r \in Row /\ r.name = account[user[q]].name
    BY <2>1, FormsMakeRows
  <2> HIDE DEF r
  <2>4. RowWritten(user[q], r) /\ FreeFor(r, user[q])
    BY <2>1, <2>2, <2>3 DEF RowWritten, FreeFor
  <2>5. QED
    BY <2>1, <2>2, <2>3, <2>4, Zenon DEF Written, Recorded
<1>5. ASSUME NEW e \in Email, NEW f \in Flags, SaveUserForm(q, e, f)
      PROVE  (account' = account \/ Written) /\ Recorded
  <2>1. /\ user[q] \in Account /\ account[user[q]] \in Row /\ copy[q] \in Row
        /\ account[user[q]].password \in Nat
    BY <1>1, <1>5 DEF SaveUserForm, Row
  <2>2. PICK name \in Chosen \cup {copy[q].name} :
           account' = SavedRow(q, [Edited(copy[q], e, name, f)
                                     EXCEPT !.password = account[user[q]].password])
    BY <1>5 DEF SaveUserForm
  <2> DEFINE s == Edited(copy[q], e, name, f)
             r == [s EXCEPT !.password = account[user[q]].password]
  <2>3. s \in Row
    BY <2>1, FormsMakeRows
  <2> HIDE DEF s
  <2>4. r \in Row
    BY <2>1, <2>3, FormsMakeRows
  <2>5. account' = SavedRow(q, r) /\ Remember
    BY <1>5, <2>2 DEF SaveUserForm, s
  <2> HIDE DEF r
  <2>6. QED
    BY <2>1, <2>4, <2>5, SavedRowWrites DEF Recorded
<1>6. ASSUME NEW a \in Account, NEW f \in Form, LoadUser(q, a, f)
      PROVE  account' = account /\ used' = used
  BY <1>6 DEF LoadUser, nameVars
<1>7. ASSUME DropRequest(q) PROVE account' = account /\ used' = used
  BY <1>7 DEF DropRequest, nameVars
<1>8. QED
  BY <1>2, <1>3, <1>4, <1>5, <1>6, <1>7 DEF WebStep, Recorded

(* An account is added under a name that no account has. *)
LEMMA AddWrites ==
    ASSUME NEW a \in Account, NEW e \in Email, NEW name \in Chosen, AddAccount(a, e, name)
    PROVE  Written /\ Recorded
<1> DEFINE r == OwnRow(e, name)
<1>1. r \in Row
  BY RowsAreBuilt
<1>2. ~NameTaken(r.name, Absent) /\ account' = [account EXCEPT ![a] = r] /\ Remember
  BY DEF AddAccount, Refused
<1> HIDE DEF r
<1>3. ~NameTaken(r.name, a)
  BY <1>2, AbsentAssumption DEF NameTaken
<1>4. QED
  BY <1>1, <1>2, <1>3 DEF Written, RowWritten, FreeFor, Recorded

(* These are all the ways in which accounts change. *)
LEMMA AccountWrites ==
    ASSUME Held, [Next]_vars
    PROVE  (account' = account \/ Written) /\ Recorded
<1>1. ASSUME UNCHANGED <<account, used>> PROVE (account' = account \/ Written) /\ Recorded
  BY <1>1 DEF Recorded
<1>2. CASE UNCHANGED vars
  BY <1>1, <1>2 DEF vars, nameVars
<1>3. ASSUME NEW e \in Email, RegisterRequest(e) PROVE UNCHANGED <<account, used>>
  BY <1>3 DEF RegisterRequest, nameVars
<1>4. ASSUME NEW v \in Reviewer, NEW S \in SUBSET Email, NEW choice \in {"approve", "reject"},
             SelectRequests(v, S, choice)
      PROVE  UNCHANGED <<account, used>>
  BY <1>4 DEF SelectRequests, nameVars
<1>5. QED
  BY <1>1, <1>2, <1>3, <1>4, ReviewWrites, WebWrites, AddWrites, Zenon DEF Next

(* So no account goes, and every name an account has had stays known. *)
AccountsStay ==
    /\ \A a \in Account : Exists(a) => account'[a] # Absent
    /\ used \subseteq used'
    /\ \A a \in Account : account'[a] # Absent => account'[a].name \in used'

(* Writing a row keeps all of this. *)
LEMMA AccountsDoStay ==
    ASSUME Held, account' = account \/ Written, Recorded
    PROVE  account' \in [Account -> Row \cup {Absent}] /\ AccountsStay
<1>1. account \in [Account -> Row \cup {Absent}]
      /\ \A a \in Account : account[a] # Absent => account[a].name \in used
  BY DEF Held, Typing, Remembered, Exists
<1>2. account' \in [Account -> Row \cup {Absent}]
  BY <1>1 DEF Written, RowWritten
<1>3. ASSUME NEW a \in Account, Exists(a) PROVE account'[a] # Absent
  BY <1>1, <1>3, AbsentAssumption DEF Written, RowWritten, Exists
<1>4. used \subseteq used' /\ \A a \in Account : account'[a] # Absent => account'[a].name \in used'
  <2>1. CASE used' = used /\ account' = account
    BY <1>1, <2>1
  <2>2. CASE Remember
    BY <2>2 DEF Remember
  <2>3. ASSUME used' = used, NEW b, NEW r, RowWritten(b, r), Exists(b), r.name = account[b].name
        PROVE  \A a \in Account : account'[a] # Absent => account'[a].name \in used'
    BY <1>1, <2>3 DEF RowWritten, Exists
  <2>4. QED
    BY <2>1, <2>2, <2>3 DEF Recorded
<1>5. QED
  BY <1>2, <1>3, <1>4 DEF AccountsStay

-----------------------------------------------------------------------------
(* Every step keeps the typing. *)

(* What a reviewer holds after a step of the loop. *)
ReviewTyped ==
    /\ pc \in [Reviewer -> {"idle", "next", "name", "insert", "update"}]
    /\ verdict \in [Reviewer -> {"none", "approve", "reject"}]
    /\ todo \in [Reviewer -> SUBSET (1 .. Len(arrived))]
    /\ seen \in [Reviewer -> [Email -> Status]]
    /\ target \in [Reviewer -> Account \cup {Absent}]
    /\ row \in [Reviewer -> Row \cup {Absent}]
    /\ number \in [Reviewer -> Nat]
    /\ messages \in [Reviewer -> SUBSET Nat]

WebTyped ==
    /\ web \in [Web -> {"idle", "flags"} \cup Form]
    /\ user \in [Web -> Account \cup {Absent}]
    /\ copy \in [Web -> Row \cup {Absent}]

(* Reviews keep the types. *)
LEMMA ReviewTypes ==
    ASSUME Held, NEW v \in Reviewer, ReviewStep(v)
    PROVE  /\ ReviewTyped' /\ arrived' = arrived /\ UNCHANGED <<web, user, copy>>
           /\ request' \in [Email -> Status] /\ issued' \in Nat /\ shown' \in SUBSET Nat
<1>1. Typing
  BY DEF Held
<1>2. ASSUME ShowMessages(v) \/ FailReview(v)
      PROVE  Typing' /\ UNCHANGED <<arrived, web, user, copy>>
  BY <1>1, <1>2, ShowMessagesTyping
<1>3. CASE FinishReview(v)
  BY <1>2, <1>3 DEF FinishReview, Typing, ReviewTyped
<1>4. CASE RefuseDecided(v)
  BY <1>1, <1>4, NextRequestTyping DEF RefuseDecided, Typing, ReviewTyped, toldVars, webVars
<1>5. CASE Reject(v)
  <2>1. request' \in [Email -> Status]
    BY <1>1, <1>5 DEF Reject, Typing, Status
  <2>2. QED
    BY <1>1, <1>5, <2>1, NextRequestTyping DEF Reject, Typing, ReviewTyped, toldVars, webVars
<1>6. CASE FindAccount(v)
  <2>1. issued' \in Nat /\ UNCHANGED <<request, arrived, messages, shown, web, user, copy>>
    BY <1>1, <1>6 DEF FindAccount, Typing, toldVars, webVars
  <2>2. CASE NextRequest(v)
    BY <1>1, <2>1, <2>2, NextRequestTyping DEF Typing, ReviewTyped
  <2>3. ASSUME NEW a \in Account, account[a] \in Row,
               target' = [target EXCEPT ![v] = a],
               row' = [row EXCEPT ![v] = [account[a] EXCEPT !.password = issued']],
               pc' = [pc EXCEPT ![v] = "update"], UNCHANGED <<verdict, todo, seen, number>>
        PROVE  ReviewTyped'
    <3>1. [account[a] EXCEPT !.password = issued'] \in Row
      BY <2>1, <2>3 DEF Row
    <3>2. QED
      BY <1>1, <2>1, <2>3, <3>1 DEF Typing, ReviewTyped
  <2>4. ASSUME OwnRow(Current(v), BaseOf[Current(v)]) \in Row,
               row' = [row EXCEPT ![v] =
                  [OwnRow(Current(v), BaseOf[Current(v)]) EXCEPT !.password = issued']],
               number' = [number EXCEPT ![v] = 1],
               pc' = [pc EXCEPT ![v] = "name"], UNCHANGED <<verdict, todo, seen, target>>
        PROVE  ReviewTyped'
    <3>1. [OwnRow(Current(v), BaseOf[Current(v)]) EXCEPT !.password = issued'] \in Row
      BY <2>1, <2>4 DEF Row
    <3>2. QED
      BY <1>1, <2>1, <2>4, <3>1 DEF Typing, ReviewTyped
  <2>5. ReviewTyped'
    <3>1. CASE NextRequest(v)
      BY <1>1, <2>1, <3>1, NextRequestTyping DEF Typing, ReviewTyped
    <3>2. CASE ~NextRequest(v)
      BY <1>6, <2>3, <2>4, <3>2, FindAccountCases, Zenon
    <3>3. QED
      BY <3>1, <3>2
  <2>6. QED
    BY <1>1, <2>1, <2>5 DEF Typing
<1>7. CASE BuildUsername(v)
  <2> DEFINE n == NextSuffix(number[v])
             r == [row[v] EXCEPT !.name = Candidate(BaseOf[row[v].email], n)]
  <2>1. row[v] \in Row /\ number[v] \in Nat
    BY <1>1, <1>7 DEF BuildUsername, Held, Copies, ReviewHolds, Typing
  <2>2. n \in Nat
    BY <2>1 DEF NextSuffix
  <2>3. r \in Row
    <3>1. row[v].email \in Email
      BY <2>1 DEF Row
    <3>2. Candidate(BaseOf[row[v].email], n) \in Name
      BY <2>2, <3>1, RowsAreBuilt
    <3>3. QED
      BY <2>1, <3>2 DEF Row
  <2> HIDE DEF n, r
  <2>4. \/ row' = [row EXCEPT ![v] = r] /\ number' = [number EXCEPT ![v] = n]
        \/ UNCHANGED <<row, number>>
    BY <1>1, <1>7 DEF BuildUsername, Typing, n, r
  <2>5. row' \in [Reviewer -> Row \cup {Absent}] /\ number' \in [Reviewer -> Nat]
    BY <1>1, <2>2, <2>3, <2>4 DEF Typing
  <2>6. pc' \in [Reviewer -> {"idle", "next", "name", "insert", "update"}]
    BY <1>1, <1>7 DEF BuildUsername, Typing
  <2>7. QED
    BY <1>1, <1>7, <2>5, <2>6 DEF BuildUsername, Typing, ReviewTyped, toldVars, webVars
<1>8. ASSUME NEW a \in Account, Approve(v, a), row[v] \in Row
      PROVE  /\ ReviewTyped' /\ arrived' = arrived /\ UNCHANGED <<web, user, copy>>
             /\ request' \in [Email -> Status] /\ issued' \in Nat /\ shown' \in SUBSET Nat
  <2>1. messages' \in [Reviewer -> SUBSET Nat]
    <3>1. row[v].password \in Nat
      BY <1>8 DEF Row
    <3>2. QED
      BY <1>1, <1>8, <3>1 DEF Approve, Typing
  <2>2. request' \in [Email -> Status]
    BY <1>1, <1>8 DEF Approve, Typing, Status
  <2>3. QED
    BY <1>1, <1>8, <2>1, <2>2, NextRequestTyping DEF Approve, Typing, ReviewTyped, toldVars, webVars
<1>9. CASE CreateAccount(v)
  <2>1. row[v] \in Row
    BY <1>9 DEF CreateAccount, Held, Copies, ReviewHolds
  <2>2. CASE FailReview(v)
    BY <1>2, <2>2 DEF Typing, ReviewTyped
  <2>3. CASE \E a \in Account : Approve(v, a)
    BY <1>8, <2>1, <2>3
  <2>4. QED
    BY <1>9, <2>2, <2>3 DEF CreateAccount
<1>10. CASE UpdateAccount(v)
  <2>1. row[v] \in Row /\ target[v] \in Account
    BY <1>10 DEF UpdateAccount, Held, Copies, ReviewHolds
  <2>2. CASE FailReview(v)
    BY <1>2, <2>2 DEF Typing, ReviewTyped
  <2>3. CASE Approve(v, target[v])
    BY <1>8, <2>1, <2>3
  <2>4. QED
    BY <1>10, <2>2, <2>3 DEF UpdateAccount
<1>11. CASE CrashReview(v)
  BY <1>1, <1>11, EndReviewTyping DEF CrashReview, Typing, ReviewTyped, toldVars, webVars
<1>12. QED
  BY <1>3, <1>4, <1>5, <1>6, <1>7, <1>9, <1>10, <1>11 DEF ReviewStep

(* Web requests keep the types. *)
LEMMA WebTypes ==
    ASSUME Held, NEW q \in Web, WebStep(q)
    PROVE  /\ WebTyped'
           /\ UNCHANGED <<request, arrived, issued, reviewVars, toldVars>>
<1>1. Typing
  BY DEF Held
<1>2. ASSUME NEW a \in Account, NEW f \in Form, LoadUser(q, a, f) PROVE WebTyped'
  <2>1. account[a] \in Row
    BY <1>1, <1>2 DEF LoadUser, Exists, Typing
  <2>2. QED
    BY <1>1, <1>2, <2>1 DEF LoadUser, Typing, WebTyped
<1>3. ASSUME EndRequest(q) PROVE WebTyped'
  BY <1>1, <1>3, EndRequestTyping DEF WebTyped
<1>4. ASSUME ChangePassword(q) PROVE WebTyped'
  <2>1. CASE EndRequest(q)
    BY <1>3, <2>1
  <2>2. CASE web' = [web EXCEPT ![q] = "flags"] /\ UNCHANGED <<user, copy, forms>>
    BY <1>1, <2>2 DEF Typing, WebTyped
  <2>3. QED
    BY <1>4, <2>1, <2>2 DEF ChangePassword
<1>5. WebTyped'
  BY <1>2, <1>3, <1>4 DEF WebStep, SaveProfile, ClearFlags, SaveUserForm, DropRequest
<1>6. UNCHANGED <<request, arrived, issued, reviewVars, toldVars>>
  BY DEF WebStep, LoadUser, SaveProfile, ChangePassword, ClearFlags, SaveUserForm, DropRequest
<1>7. QED
  BY <1>5, <1>6

(* A new request is put behind those that arrived. *)
LEMMA RegisterTypes ==
    ASSUME Typing, NEW e \in Email, RegisterRequest(e)
    PROVE  /\ request' \in [Email -> Status] /\ arrived' \in Seq(Email) /\ ReviewTyped'
           /\ \A i \in 1 .. Len(arrived) : arrived'[i] = arrived[i]
           /\ UNCHANGED <<account, issued, reviewVars, toldVars, web, user, copy>>
<1>1. arrived \in Seq(Email) /\ arrived' = Append(arrived, e)
  BY DEF Typing, RegisterRequest
<1>2. /\ arrived' \in Seq(Email) /\ Len(arrived') = Len(arrived) + 1
      /\ \A i \in 1 .. Len(arrived) : arrived'[i] = arrived[i]
  BY <1>1
<1>3. request' \in [Email -> Status]
  BY DEF Typing, RegisterRequest, Status
<1>4. UNCHANGED <<account, issued, reviewVars, toldVars, web, user, copy>>
  BY DEF RegisterRequest, webVars
<1>5. todo' \in [Reviewer -> SUBSET (1 .. Len(arrived'))]
  <2>1. todo' = todo
    BY <1>4 DEF reviewVars
  <2>2. \A S \in SUBSET (1 .. Len(arrived)) : S \in SUBSET (1 .. Len(arrived'))
    BY <1>1, <1>2
  <2>3. QED
    BY <2>1, <2>2 DEF Typing
<1>6. ReviewTyped'
  BY <1>4, <1>5 DEF Typing, ReviewTyped, reviewVars
<1>7. QED
  BY <1>2, <1>3, <1>4, <1>6

(* A selection reads requests and writes nothing. *)
LEMMA SelectTypes ==
    ASSUME Typing, NEW v \in Reviewer, NEW S \in SUBSET Email,
           NEW choice \in {"approve", "reject"}, SelectRequests(v, S, choice)
    PROVE  /\ ReviewTyped'
           /\ UNCHANGED <<request, arrived, account, issued, messages, shown, lost, web, user, copy>>
<1>1. UNCHANGED <<request, arrived, account, issued, target, row, number, messages, shown, lost,
                  web, user, copy>>
  BY DEF SelectRequests, toldVars, webVars
<1>2. seen' \in [Reviewer -> [Email -> Status]]
  <2>1. [e \in Email |-> IF e \in S THEN request[e] ELSE Absent] \in [Email -> Status]
    BY DEF Typing, Status
  <2>2. QED
    BY <2>1 DEF Typing, SelectRequests
<1>3. todo' \in [Reviewer -> SUBSET (1 .. Len(arrived'))]
  BY <1>1 DEF Typing, SelectRequests
<1>4. pc' \in [Reviewer -> {"idle", "next", "name", "insert", "update"}]
  BY DEF Typing, SelectRequests
<1>5. verdict' \in [Reviewer -> {"none", "approve", "reject"}]
  BY DEF Typing, SelectRequests
<1>6. QED
  BY <1>1, <1>2, <1>3, <1>4, <1>5 DEF Typing, ReviewTyped

(* An added account leaves everybody with what they hold. *)
LEMMA AddTypes ==
    ASSUME NEW a \in Account, NEW e \in Email, NEW name \in Chosen, AddAccount(a, e, name)
    PROVE  UNCHANGED <<request, arrived, issued, reviewVars, toldVars, web, user, copy, given>>
  BY DEF AddAccount

(* Every step keeps the types. *)
LEMMA StepTypes ==
    ASSUME Held, [Next]_vars
    PROVE  Typing'
<1>1. Typing /\ account' \in [Account -> Row \cup {Absent}]
  BY AccountWrites, AccountsDoStay DEF Held
<1>2. CASE UNCHANGED vars
  BY <1>1, <1>2 DEF vars, reviewVars, toldVars, webVars, Typing
<1>3. ASSUME NEW e \in Email, RegisterRequest(e) PROVE Typing'
  BY <1>1, <1>3, RegisterTypes DEF Typing, ReviewTyped, toldVars
<1>4. ASSUME NEW v \in Reviewer, NEW S \in SUBSET Email, NEW choice \in {"approve", "reject"},
             SelectRequests(v, S, choice)
      PROVE  Typing'
  BY <1>1, <1>4, SelectTypes DEF Typing, ReviewTyped
<1>5. ASSUME NEW v \in Reviewer, ReviewStep(v) PROVE Typing'
  BY <1>1, <1>5, ReviewTypes DEF Typing, ReviewTyped
<1>6. ASSUME NEW q \in Web, WebStep(q) PROVE Typing'
  BY <1>1, <1>6, WebTypes DEF Typing, WebTyped, reviewVars, toldVars
<1>7. ASSUME NEW a \in Account, NEW e \in Email, NEW name \in Chosen, AddAccount(a, e, name)
      PROVE  Typing'
  BY <1>1, <1>7, AddTypes DEF Typing, reviewVars, toldVars
<1>8. QED
  BY <1>2, <1>3, <1>4, <1>5, <1>6, <1>7, Zenon DEF Next

-----------------------------------------------------------------------------
(* Every step keeps what copies hold. *)

(* What others do to the accounts leaves a reviewer's row in accord. *)
LEMMA ReviewStillHolds ==
    ASSUME Typing, AccountsStay,
           \A i \in 1 .. Len(arrived) : arrived'[i] = arrived[i],
           NEW v \in Reviewer, ReviewHolds(v),
           pc'[v] = pc[v], row'[v] = row[v], todo'[v] = todo[v], seen'[v] = seen[v],
           target'[v] = target[v], number'[v] = number[v]
    PROVE  ReviewHolds(v)'
<1>1. SUFFICES ASSUME pc[v] \in {"name", "insert", "update"} PROVE ReviewHolds(v)'
  BY DEF ReviewHolds
<1>2. Current(v)' = Current(v)
  <2>1. Earliest(todo[v]) \in 1 .. Len(arrived)
    BY <1>1, CurrentIsRequest DEF ReviewHolds
  <2>2. Current(v)' = arrived'[Earliest(todo[v])]
    BY DEF Current, Earliest
  <2>3. QED
    BY <2>1, <2>2 DEF Current
<1>3. /\ row[v] \in Row /\ todo[v] # {} /\ seen[v][Current(v)] = "pending"
  BY <1>1 DEF ReviewHolds
<1>4. ASSUME pc[v] = "update" PROVE target[v] \in Account /\ Exists(target[v])'
  BY <1>1, <1>4 DEF ReviewHolds, AccountsStay, Exists
<1>5. ASSUME pc[v] # "update" PROVE Numbered(v)'
  <2>1. Numbered(v) /\ used \subseteq used'
    BY <1>1, <1>5 DEF ReviewHolds, AccountsStay
  <2>2. QED
    BY <2>1 DEF Numbered
<1>6. QED
  BY <1>2, <1>3, <1>4, <1>5, Zenon DEF ReviewHolds

(* A web request has its user until it ends. *)
LEMMA RequestStillHolds ==
    ASSUME Typing, AccountsStay, NEW q \in Web, RequestHolds(q),
           web'[q] = web[q] \/ (web[q] = "password" /\ web'[q] = "flags"),
           user'[q] = user[q], copy'[q] = copy[q]
    PROVE  RequestHolds(q)'
<1>1. CASE web[q] = "idle"
  BY <1>1 DEF RequestHolds
<1>2. CASE web[q] # "idle"
  BY <1>2 DEF RequestHolds, AccountsStay, Exists
<1>3. QED
  BY <1>1, <1>2

(* A reviewer's step leaves the other reviewers where they are, and ends with *)
(* nothing held but for a row that was just found or named.                  *)
LEMMA ReviewMoves ==
    ASSUME Typing, NEW v \in Reviewer,
           ReviewStep(v) \/ \E S \in SUBSET Email, choice \in {"approve", "reject"} :
                               SelectRequests(v, S, choice)
    PROVE  /\ \A u \in Reviewer \ {v} :
                 /\ pc'[u] = pc[u] /\ row'[u] = row[u] /\ todo'[u] = todo[u]
                 /\ seen'[u] = seen[u] /\ target'[u] = target[u] /\ number'[u] = number[u]
           /\ pc'[v] \in {"idle", "next"} \/ FindAccount(v) \/ BuildUsername(v)
<1> DEFINE Others == \A u \in Reviewer \ {v} :
                        /\ pc'[u] = pc[u] /\ row'[u] = row[u] /\ todo'[u] = todo[u]
                        /\ seen'[u] = seen[u] /\ target'[u] = target[u]
                        /\ number'[u] = number[u]
<1>1. ASSUME EndReview(v) PROVE Others /\ pc'[v] = "idle"
  BY <1>1 DEF EndReview, Typing
<1>2. ASSUME NextRequest(v) PROVE Others /\ pc'[v] = "next"
  BY <1>2 DEF NextRequest, Typing
<1>3. ASSUME NEW S \in SUBSET Email, NEW choice \in {"approve", "reject"},
             SelectRequests(v, S, choice)
      PROVE  Others /\ pc'[v] = "next"
  BY <1>3 DEF SelectRequests, Typing
<1>4. ASSUME FindAccount(v) PROVE Others
  <2>1. CASE NextRequest(v)
    BY <1>2, <2>1
  <2>2. CASE ~NextRequest(v)
    <3>1. UNCHANGED <<verdict, todo, seen>> /\ \E s, r : pc' = [pc EXCEPT ![v] = s]
                                                      /\ row' = [row EXCEPT ![v] = r]
      BY <1>4, <2>2 DEF FindAccount
    <3>2. /\ \E a : target' = [target EXCEPT ![v] = a] \/ target' = target
          /\ number' = [number EXCEPT ![v] = 1] \/ number' = number
      BY <1>4, <2>2 DEF FindAccount
    <3>3. QED
      BY <3>1, <3>2 DEF Typing
  <2>3. QED
    BY <2>1, <2>2
<1>5. ASSUME BuildUsername(v) PROVE Others
  <2> DEFINE n == NextSuffix(number[v])
             r == [row[v] EXCEPT !.name = Candidate(BaseOf[row[v].email], n)]
  <2>1. UNCHANGED <<todo, seen, target>> /\ (pc' = pc \/ pc' = [pc EXCEPT ![v] = "insert"])
    BY <1>5 DEF BuildUsername
  <2>2. \/ row' = [row EXCEPT ![v] = r] /\ number' = [number EXCEPT ![v] = n]
        \/ UNCHANGED <<row, number>>
    BY <1>5 DEF BuildUsername, Typing
  <2> HIDE DEF n, r
  <2>3. QED
    BY <2>1, <2>2 DEF Typing
<1>6. ASSUME CreateAccount(v) \/ UpdateAccount(v) PROVE EndReview(v) \/ NextRequest(v)
  BY <1>6 DEF CreateAccount, UpdateAccount, FailReview, Approve
<1> HIDE DEF Others
<1>7. ASSUME ReviewStep(v)
      PROVE  EndReview(v) \/ NextRequest(v) \/ FindAccount(v) \/ BuildUsername(v)
  BY <1>6, <1>7 DEF ReviewStep, FinishReview, ShowMessages, RefuseDecided, Reject, CrashReview
<1>8. Others /\ (pc'[v] \in {"idle", "next"} \/ FindAccount(v) \/ BuildUsername(v))
  <2>1. CASE ReviewStep(v)
    BY <1>1, <1>2, <1>4, <1>5, <1>7, <2>1
  <2>2. CASE \E S \in SUBSET Email, choice \in {"approve", "reject"} :
                SelectRequests(v, S, choice)
    BY <1>3, <2>2
  <2>3. QED
    BY <2>1, <2>2
<1>9. QED
  BY <1>8 DEF Others

(* What a review knows of the row it found or is to create. *)
LEMMA FoundRowHolds ==
    ASSUME Held, NEW v \in Reviewer, FindAccount(v)
    PROVE  ReviewHolds(v)'
<1>1. Typing /\ todo[v] # {} /\ seen[v][Current(v)] = "pending"
  BY DEF Held, FindAccount, Deciding, IsPending
<1>2. issued' \in Nat /\ account' = account /\ arrived' = arrived
  BY <1>1 DEF FindAccount, Typing
<1>3. CASE NextRequest(v)
  BY <1>1, <1>3 DEF NextRequest, ReviewHolds, Typing
<1>4. ASSUME UNCHANGED <<verdict, todo, seen>>
      PROVE  todo'[v] # {} /\ seen'[v][Current(v)'] = "pending"
  BY <1>1, <1>2, <1>4 DEF Current, Earliest
<1>5. ASSUME NEW a \in Account, Exists(a), account[a] \in Row,
             target' = [target EXCEPT ![v] = a],
             row' = [row EXCEPT ![v] = [account[a] EXCEPT !.password = issued']],
             pc' = [pc EXCEPT ![v] = "update"], UNCHANGED <<verdict, todo, seen>>
      PROVE  ReviewHolds(v)'
  <2>1. [account[a] EXCEPT !.password = issued'] \in Row
    BY <1>2, <1>5 DEF Row
  <2>2. row'[v] \in Row /\ target'[v] = a /\ pc'[v] = "update"
    BY <1>1, <1>5, <2>1 DEF Typing
  <2>3. todo'[v] # {} /\ seen'[v][Current(v)'] = "pending"
    BY <1>4, <1>5
  <2>4. Exists(target[v])'
    BY <1>2, <1>5, <2>2 DEF Exists
  <2>5. QED
    BY <1>5, <2>2, <2>3, <2>4 DEF ReviewHolds
<1>6. ASSUME OwnRow(Current(v), BaseOf[Current(v)]) \in Row,
             row' = [row EXCEPT ![v] =
                [OwnRow(Current(v), BaseOf[Current(v)]) EXCEPT !.password = issued']],
             number' = [number EXCEPT ![v] = 1],
             pc' = [pc EXCEPT ![v] = "name"], UNCHANGED <<verdict, todo, seen, target>>
      PROVE  ReviewHolds(v)'
  <2> DEFINE r == [OwnRow(Current(v), BaseOf[Current(v)]) EXCEPT !.password = issued']
  <2>1. r \in Row /\ r.name = BaseOf[r.email]
    BY <1>2, <1>6 DEF Row, OwnRow
  <2>2. row'[v] = r /\ number'[v] = 1 /\ pc'[v] = "name"
    BY <1>1, <1>6 DEF Typing
  <2>3. todo'[v] # {} /\ seen'[v][Current(v)'] = "pending"
    BY <1>4, <1>6
  <2> HIDE DEF r
  <2>4. Numbered(v)'
    BY <2>1, <2>2 DEF Numbered, Candidate
  <2>5. QED
    BY <2>1, <2>2, <2>3, <2>4 DEF ReviewHolds
<1>7. CASE ~NextRequest(v)
  BY <1>5, <1>6, <1>7, FindAccountCases, Zenon
<1>8. QED
  BY <1>3, <1>7

(* The search goes past a candidate that an account has. *)
LEMMA NamedRowHolds ==
    ASSUME Held, NEW v \in Reviewer, BuildUsername(v)
    PROVE  ReviewHolds(v)'
<1>1. /\ Typing /\ row[v] \in Row /\ todo[v] # {} /\ seen[v][Current(v)] = "pending"
      /\ Numbered(v) /\ pc[v] = "name"
  BY DEF Held, Copies, ReviewHolds, BuildUsername
<1>2. UNCHANGED <<account, arrived, todo, seen, used>>
  BY DEF BuildUsername, nameVars
<1>3. todo'[v] # {} /\ seen'[v][Current(v)'] = "pending"
  BY <1>1, <1>2 DEF Current, Earliest
<1>4. pc'[v] \in {"name", "insert"}
  BY <1>1 DEF BuildUsername, Typing
<1>5. CASE ~NameTaken(row[v].name, Absent)
  <2>1. UNCHANGED <<row, number>>
    BY <1>5 DEF BuildUsername
  <2>2. Numbered(v)'
    BY <1>1, <1>2, <2>1 DEF Numbered
  <2>3. QED
    BY <1>1, <1>3, <1>4, <2>1, <2>2 DEF ReviewHolds
<1>6. CASE NameTaken(row[v].name, Absent)
  <2> DEFINE n == number[v]
             base == BaseOf[row[v].email]
             r == [row[v] EXCEPT !.name = Candidate(base, n + 1)]
  <2>1. row'[v] = r /\ number'[v] = n + 1
    BY <1>1, <1>6 DEF BuildUsername, NextSuffix, Typing
  <2>2. r \in Row /\ r.email = row[v].email /\ r.name = Candidate(base, n + 1)
    <3>1. row[v].email \in Email /\ n + 1 \in Nat
      BY <1>1 DEF Row, Numbered
    <3>2. Candidate(base, n + 1) \in Name
      BY <3>1, RowsAreBuilt
    <3>3. QED
      BY <1>1, <3>2 DEF Row
  <2>3. n \in Nat \ {0} /\ \A m \in 1 .. n - 1 : Candidate(base, m) \in used
    BY <1>1 DEF Numbered
  <2>4. Candidate(base, n) \in used
    BY <1>1, <1>6 DEF Held, Remembered, NameTaken, Numbered
  <2> HIDE DEF r, n, base
  <2>5. \A m \in 1 .. (n + 1) - 1 : Candidate(base, m) \in used
    BY <2>3, <2>4
  <2>6. base = BaseOf[row[v].email]
    BY DEF base
  <2>7. Numbered(v)'
    BY <1>2, <2>1, <2>2, <2>3, <2>5, <2>6 DEF Numbered
  <2>8. QED
    BY <1>3, <1>4, <2>1, <2>2, <2>7 DEF ReviewHolds
<1>7. QED
  BY <1>5, <1>6

(* A step of one web request leaves the others what they know. *)
LEMMA WebMoves ==
    ASSUME Held, AccountsStay, NEW q \in Web, WebStep(q)
    PROVE  \A p \in Web : RequestHolds(p)'
<1>1. Typing /\ \A p \in Web : RequestHolds(p)
  BY DEF Held, Copies
<1>2. ASSUME EndRequest(q) PROVE \A p \in Web : RequestHolds(p)'
  <2>1. \A p \in Web \ {q} : web'[p] = web[p] /\ user'[p] = user[p] /\ copy'[p] = copy[p]
    BY <1>1, <1>2 DEF EndRequest, Typing
  <2>2. web'[q] = "idle" /\ user'[q] = Absent
    BY <1>1, <1>2 DEF EndRequest, Typing
  <2>3. RequestHolds(q)'
    BY <2>2 DEF RequestHolds
  <2>4. QED
    BY <1>1, <2>1, <2>3, RequestStillHolds
<1>3. ASSUME web[q] = "password", web' = [web EXCEPT ![q] = "flags"], UNCHANGED <<user, copy>>
      PROVE  \A p \in Web : RequestHolds(p)'
  BY <1>1, <1>3, RequestStillHolds DEF Typing
<1>4. ASSUME NEW a \in Account, NEW f \in Form, LoadUser(q, a, f)
      PROVE  \A p \in Web : RequestHolds(p)'
  <2>1. \A p \in Web \ {q} : web'[p] = web[p] /\ user'[p] = user[p] /\ copy'[p] = copy[p]
    BY <1>1, <1>4 DEF LoadUser, Typing
  <2>2. /\ web'[q] = f /\ user'[q] = a /\ copy'[q] = account[a] /\ account' = account
        /\ Exists(a) /\ account[a] \in Row
        /\ f = "profile" => ~account[a].temporary
    BY <1>1, <1>4 DEF LoadUser, Typing, Exists, Allowed
  <2>3. f # "idle"
    BY ConstantsAssumption
  <2>4. RequestHolds(q)'
    BY <2>2, <2>3 DEF RequestHolds, Exists
  <2>5. QED
    BY <1>1, <2>1, <2>4, RequestStillHolds
<1>5. ASSUME ChangePassword(q)
      PROVE  \/ EndRequest(q)
             \/ /\ web[q] = "password" /\ web' = [web EXCEPT ![q] = "flags"]
                /\ UNCHANGED <<user, copy>>
  BY <1>5 DEF ChangePassword
<1>6. QED
  BY <1>2, <1>3, <1>4, <1>5 DEF WebStep, SaveProfile, ClearFlags, SaveUserForm, DropRequest

(* Every step keeps what copies and decisions know. *)
LEMMA StepHolds ==
    ASSUME Held, [Next]_vars
    PROVE  Held'
<1>1. AccountsStay /\ Typing /\ Typing'
  BY AccountWrites, AccountsDoStay, StepTypes DEF Held
<1>0. Remembered'
  BY <1>1 DEF AccountsStay, Remembered, Exists
<1>2. \A v \in Reviewer : ReviewHolds(v)
  BY DEF Held, Copies
<1>3. \A q \in Web : RequestHolds(q)
  BY DEF Held, Copies
<1>4. ASSUME UNCHANGED <<pc, row, todo, seen, target, number>>,
             \A i \in 1 .. Len(arrived) : arrived'[i] = arrived[i]
      PROVE  \A v \in Reviewer : ReviewHolds(v)'
  BY <1>1, <1>2, <1>4, ReviewStillHolds
<1>5. ASSUME UNCHANGED <<web, user, copy>> PROVE \A q \in Web : RequestHolds(q)'
  BY <1>1, <1>3, <1>5, RequestStillHolds
<1>6. ASSUME NEW v \in Reviewer, arrived' = arrived,
             ReviewStep(v) \/ \E S \in SUBSET Email, choice \in {"approve", "reject"} :
                                 SelectRequests(v, S, choice)
      PROVE  \A u \in Reviewer : ReviewHolds(u)'
  <2>1. \A u \in Reviewer \ {v} : ReviewHolds(u)'
    BY <1>1, <1>2, <1>6, ReviewMoves, ReviewStillHolds
  <2>2. ReviewHolds(v)'
    <3>1. CASE pc'[v] \in {"idle", "next"}
      BY <3>1 DEF ReviewHolds
    <3>2. CASE FindAccount(v)
      BY <3>2, FoundRowHolds
    <3>3. CASE BuildUsername(v)
      BY <3>3, NamedRowHolds
    <3>4. QED
      BY <1>1, <1>6, <3>1, <3>2, <3>3, ReviewMoves
  <2>3. QED
    BY <2>1, <2>2
<1>7. CASE UNCHANGED vars
  BY <1>0, <1>1, <1>4, <1>5, <1>7 DEF vars, reviewVars, webVars, Held, Copies
<1>8. ASSUME NEW e \in Email, RegisterRequest(e) PROVE Held'
  BY <1>0, <1>1, <1>4, <1>5, <1>8, RegisterTypes DEF reviewVars, Held, Copies
<1>9. ASSUME NEW v \in Reviewer, NEW S \in SUBSET Email, NEW choice \in {"approve", "reject"},
             SelectRequests(v, S, choice)
      PROVE  Held'
  BY <1>0, <1>1, <1>5, <1>6, <1>9, SelectTypes DEF Held, Copies
<1>10. ASSUME NEW v \in Reviewer, ReviewStep(v) PROVE Held'
  BY <1>0, <1>1, <1>5, <1>6, <1>10, ReviewTypes DEF Held, Copies
<1>11. ASSUME NEW q \in Web, WebStep(q) PROVE Held'
  <2>1. UNCHANGED <<pc, row, todo, seen, target, number, arrived>>
    BY <1>11, WebTypes DEF reviewVars
  <2>2. QED
    BY <1>0, <1>1, <1>4, <1>11, <2>1, WebMoves DEF Held, Copies
<1>12. ASSUME NEW a \in Account, NEW e \in Email, NEW name \in Chosen, AddAccount(a, e, name)
       PROVE  Held'
  BY <1>0, <1>1, <1>4, <1>5, <1>12, AddTypes DEF reviewVars, Held, Copies
<1>13. QED
  BY <1>7, <1>8, <1>9, <1>10, <1>11, <1>12, Zenon DEF Next

(* What reviewers and web requests hold agrees with the accounts, always. *)
THEOREM CopiesAgree == Spec => []Held
<1>1. Held /\ [Next]_vars => Held'
  BY StepHolds
<1>2. QED
  BY InitHeld, <1>1, PTL DEF Spec

-----------------------------------------------------------------------------
(* Names stay unique: a row is written under the name its account has, or    *)
(* under one that no other account has.                                     *)
UniqueNames ==
    \A a, b \in Account :
       Exists(a) /\ Exists(b) /\ account[a].name = account[b].name => a = b

LEMMA UniqueStep ==
    ASSUME Held, UniqueNames, account' = account \/ Written
    PROVE  UniqueNames'
<1>1. CASE account' = account
  BY <1>1 DEF UniqueNames, Exists
<1>2. ASSUME NEW c, NEW r, RowWritten(c, r), FreeFor(r, c) PROVE UniqueNames'
  <2>1. /\ c \in Account /\ account'[c] = r
        /\ \A a \in Account \ {c} : account'[a] = account[a]
    BY <1>2 DEF RowWritten, Held, Typing
  <2>2. ASSUME NEW a \in Account \ {c}, Exists(a) PROVE account[a].name # r.name
    BY <1>2, <2>1, <2>2 DEF FreeFor, NameTaken, UniqueNames
  <2>3. SUFFICES ASSUME NEW a \in Account, NEW b \in Account, Exists(a)', Exists(b)',
                        account'[a].name = account'[b].name
                 PROVE  a = b
    BY DEF UniqueNames
  <2>4. CASE a = c \/ b = c
    BY <2>1, <2>2, <2>3, <2>4 DEF Exists
  <2>5. CASE a # c /\ b # c
    BY <2>1, <2>3, <2>5 DEF Exists, UniqueNames
  <2>6. QED
    BY <2>4, <2>5
<1>3. QED
  BY <1>1, <1>2 DEF Written

(* An approval gives a name whose smaller candidates have all been used.     *)
Given == \A g \in given : \A n \in 1 .. g.suffix : Candidate(g.base, n) \in used

LEMMA ApprovalGives ==
    ASSUME Held, AccountsStay, NEW v \in Reviewer, CreateAccount(v), ~Refused(row[v], Absent)
    PROVE  \A n \in 1 .. number[v] : Candidate(BaseOf[row[v].email], n) \in used'
<1>1. row[v] \in Row /\ Numbered(v)
  BY DEF CreateAccount, Held, Copies, ReviewHolds
<1>2. PICK a \in Account : Approve(v, a)
  BY Zenon DEF CreateAccount
<1>3. PICK r : RowWritten(a, r) /\ r.name = row[v].name
  BY <1>1, <1>2, ApproveWrites
<1>4. row[v].name \in used'
  <2>1. account'[a] = r /\ r # Absent
    BY <1>3, AbsentAssumption DEF RowWritten, Held, Typing
  <2>2. QED
    BY <1>3, <2>1 DEF AccountsStay
<1> DEFINE base == BaseOf[row[v].email]
           k == number[v]
<1>5. Candidate(base, k) \in used' /\ k \in Nat \ {0}
  BY <1>1, <1>4 DEF Numbered
<1>6. \A n \in 1 .. k - 1 : Candidate(base, n) \in used'
  BY <1>1 DEF Numbered, AccountsStay
<1> HIDE DEF base, k
<1>7. \A n \in 1 .. k : Candidate(base, n) \in used'
  BY <1>5, <1>6
<1>8. QED
  BY <1>7 DEF base, k

LEMMA GivenStep ==
    ASSUME Held, Given, [Next]_vars
    PROVE  Given'
<1>1. AccountsStay
  BY AccountWrites, AccountsDoStay
<1>2. Typing
  BY DEF Held
<1>3. ASSUME given' = given PROVE Given'
  BY <1>1, <1>3 DEF Given, AccountsStay
<1>4. ASSUME NEW v \in Reviewer, CreateAccount(v), ~Refused(row[v], Absent) PROVE Given'
  <2> DEFINE g == [base |-> BaseOf[row[v].email], suffix |-> number[v]]
  <2>1. given' = given \cup {g}
    BY <1>4 DEF CreateAccount
  <2>2. \A n \in 1 .. g.suffix : Candidate(g.base, n) \in used'
    BY <1>1, <1>4, ApprovalGives
  <2> HIDE DEF g
  <2>3. QED
    BY <1>1, <2>1, <2>2 DEF Given, AccountsStay
<1>5. ASSUME ~\E v \in Reviewer : CreateAccount(v) /\ ~Refused(row[v], Absent) PROVE given' = given
  <2>1. CASE UNCHANGED vars
    BY <2>1 DEF vars, nameVars
  <2>2. ASSUME NEW e \in Email, RegisterRequest(e) PROVE given' = given
    BY <2>2 DEF RegisterRequest, nameVars
  <2>3. ASSUME NEW v \in Reviewer, NEW S \in SUBSET Email, NEW choice \in {"approve", "reject"},
               SelectRequests(v, S, choice)
        PROVE  given' = given
    BY <2>3 DEF SelectRequests, nameVars
  <2>4. ASSUME NEW v \in Reviewer, ReviewStep(v) PROVE given' = given
    <3>1. ASSUME ShowMessages(v) \/ FailReview(v) PROVE given' = given
      BY <1>2, <3>1, ShowMessagesTyping
    <3>2. CASE CreateAccount(v)
      BY <1>5, <3>1, <3>2 DEF CreateAccount
    <3>3. CASE UpdateAccount(v)
      BY <3>1, <3>3 DEF UpdateAccount
    <3>4. CASE FinishReview(v)
      BY <3>1, <3>4 DEF FinishReview
    <3>5. QED
      BY <2>4, <3>2, <3>3, <3>4 DEF ReviewStep, RefuseDecided, Reject, FindAccount, BuildUsername,
                                    CrashReview, nameVars
  <2>5. ASSUME NEW q \in Web, WebStep(q) PROVE given' = given
    BY <2>5 DEF WebStep, LoadUser, SaveProfile, ChangePassword, ClearFlags, SaveUserForm,
                DropRequest, nameVars
  <2>6. ASSUME NEW a \in Account, NEW e \in Email, NEW name \in Chosen, AddAccount(a, e, name)
        PROVE  given' = given
    BY <2>6, AddTypes
  <2>7. QED
    BY <2>1, <2>2, <2>3, <2>4, <2>5, <2>6, Zenon DEF Next
<1>6. QED
  BY <1>3, <1>4, <1>5

(* _build_username skips no suffix, and no two accounts share a name: in     *)
(* whatever order requests are approved, accounts added, renamed and saved   *)
(* from old copies.                                                         *)
THEOREM NamesStayDense == Spec => []NoSuffixIsSkipped
<1>1. Init => UniqueNames /\ Given
  <2> SUFFICES ASSUME Init PROVE UniqueNames /\ Given
    OBVIOUS
  <2>1. CASE account = [a \in Account |-> Absent]
    BY <2>1 DEF Init, UniqueNames, Given, Exists
  <2>2. ASSUME NEW a \in Account, NEW e \in Email, NEW name \in Chosen,
               account = [b \in Account |-> IF b = a THEN OwnRow(e, name) ELSE Absent]
        PROVE  UniqueNames
    BY <2>2 DEF UniqueNames, Exists
  <2>3. QED
    BY <2>1, <2>2 DEF Init, Given
<1>2. Held /\ UniqueNames /\ Given /\ [Next]_vars => UniqueNames' /\ Given'
  BY AccountWrites, UniqueStep, GivenStep
<1>3. UniqueNames /\ Given => NoSuffixIsSkipped
  BY DEF UniqueNames, Given, NoSuffixIsSkipped
<1>4. QED
  BY CopiesAgree, <1>1, <1>2, <1>3, PTL DEF Spec

-----------------------------------------------------------------------------
(* Every password in an account, and in a copy that may be saved over an     *)
(* account, is one the owner chose, one a reviewer has seen or is about to   *)
(* see, or one whose message is lost.                                       *)
Told(p) == p = 0 \/ p \in shown \cup lost \/ \E v \in Reviewer : p \in messages[v]

ToldThen(p) ==
    p = 0 \/ p \in shown' \cup lost' \/ \E v \in Reviewer : p \in messages'[v]

Credentials ==
    /\ \A a \in Account : Exists(a) => Told(account[a].password)
    /\ \A q \in Web : web[q] # "idle" => Told(copy[q].password)

(* A password a review sets is shown, lost, or among its messages. *)
LEMMA ReviewTells ==
    ASSUME Held, NEW v \in Reviewer, ReviewStep(v)
    PROVE  /\ \A p : Told(p) => ToldThen(p)
           /\ \A a \in Account : account'[a] # Absent =>
                 \/ Exists(a) /\ account'[a].password = account[a].password
                 \/ account'[a].password \in messages'[v]
<1>1. Typing
  BY DEF Held
<1>2. ASSUME account' = account
      PROVE  \A a \in Account : account'[a] # Absent =>
                Exists(a) /\ account'[a].password = account[a].password
  BY <1>2 DEF Exists
<1>3. ASSUME EndReview(v), messages[v] \subseteq shown' \cup lost',
             shown \subseteq shown', lost \subseteq lost'
      PROVE  \A p : Told(p) => ToldThen(p)
  <2>1. \A u \in Reviewer \ {v} : messages'[u] = messages[u]
    BY <1>1, <1>3 DEF EndReview, Typing
  <2>2. QED
    BY <1>3, <2>1 DEF Told, ToldThen
<1>4. ASSUME ShowMessages(v) \/ FailReview(v)
      PROVE  account' = account /\ \A p : Told(p) => ToldThen(p)
  <2>1. account' = account /\ EndReview(v)
    BY <1>4 DEF ShowMessages, FailReview
  <2>2. messages[v] \subseteq shown' \cup lost' /\ shown \subseteq shown' /\ lost \subseteq lost'
    BY <1>4 DEF ShowMessages, FailReview
  <2>3. QED
    BY <1>3, <2>1, <2>2
<1>5. ASSUME NEW a \in Account, Approve(v, a), row[v] \in Row
      PROVE  /\ \A b \in Account \ {a} : account'[b] = account[b]
             /\ account'[a].password \in messages'[v]
             /\ \A p : Told(p) => ToldThen(p)
  <2>1. /\ \A b \in Account \ {a} : account'[b] = account[b]
        /\ account'[a] = [row[v] EXCEPT !.approved = TRUE, !.active = TRUE, !.temporary = TRUE]
    BY <1>1, <1>5 DEF Approve, Typing
  <2>2. account'[a].password = row[v].password
    BY <1>5, <2>1 DEF Row
  <2>3. /\ shown' = shown /\ lost' = lost /\ messages'[v] = messages[v] \cup {row[v].password}
        /\ \A u \in Reviewer \ {v} : messages'[u] = messages[u]
    BY <1>1, <1>5 DEF Approve, Typing, toldVars
  <2>4. QED
    BY <2>1, <2>2, <2>3 DEF Told, ToldThen
<1>6. CASE CreateAccount(v)
  <2>1. row[v] \in Row
    BY <1>6 DEF CreateAccount, Held, Copies, ReviewHolds
  <2>2. FailReview(v) \/ \E a \in Account : Approve(v, a)
    BY <1>6 DEF CreateAccount
  <2>3. QED
    BY <1>2, <1>4, <1>5, <2>1, <2>2 DEF Exists
<1>7. CASE UpdateAccount(v)
  <2>1. row[v] \in Row /\ target[v] \in Account
    BY <1>7 DEF UpdateAccount, Held, Copies, ReviewHolds
  <2>2. FailReview(v) \/ Approve(v, target[v])
    BY <1>7 DEF UpdateAccount
  <2>3. QED
    BY <1>2, <1>4, <1>5, <2>1, <2>2 DEF Exists
<1>8. CASE FinishReview(v)
  BY <1>2, <1>4, <1>8 DEF FinishReview
<1>9. CASE RefuseDecided(v) \/ Reject(v) \/ FindAccount(v) \/ BuildUsername(v)
  <2>1. UNCHANGED <<account, messages, shown, lost>>
    BY <1>9 DEF RefuseDecided, Reject, FindAccount, BuildUsername, toldVars
  <2>2. QED
    BY <1>2, <2>1 DEF Told, ToldThen
<1>10. CASE CrashReview(v)
  BY <1>2, <1>3, <1>10 DEF CrashReview
<1>11. QED
  BY <1>6, <1>7, <1>8, <1>9, <1>10 DEF ReviewStep

(* A web request saves the password of its copy, of the account, or the      *)
(* owner's own; what it then still holds it held before, or just loaded.     *)
LEMMA WebTells ==
    ASSUME Held, NEW q \in Web, WebStep(q)
    PROVE  /\ \A a \in Account : account'[a] # Absent =>
                 \/ account'[a].password = 0
                 \/ Exists(a) /\ account'[a].password = account[a].password
                 \/ web[q] # "idle" /\ account'[a].password = copy[q].password
           /\ \A p \in Web : web'[p] # "idle" =>
                 \/ web[p] # "idle" /\ copy'[p] = copy[p]
                 \/ \E a \in Account : Exists(a) /\ copy'[p] = account[a]
<1> DEFINE Saved == \A a \in Account : account'[a] # Absent =>
                       \/ account'[a].password = 0
                       \/ Exists(a) /\ account'[a].password = account[a].password
                       \/ web[q] # "idle" /\ account'[a].password = copy[q].password
           Kept == \A p \in Web : web'[p] # "idle" =>
                      \/ web[p] # "idle" /\ copy'[p] = copy[p]
                      \/ \E a \in Account : Exists(a) /\ copy'[p] = account[a]
<1>1. Typing
  BY DEF Held
<1>2. ASSUME web[q] # "idle"
      PROVE  user[q] \in Account /\ Exists(user[q]) /\ account[user[q]] \in Row /\ copy[q] \in Row
  BY <1>1, <1>2 DEF Held, Typing, Copies, RequestHolds, Exists
<1>3. ASSUME account' = account PROVE Saved
  BY <1>3 DEF Exists
<1>4. ASSUME NEW r, web[q] # "idle", account' = SavedRow(q, r),
             r.password = 0 \/ r.password = copy[q].password
                            \/ r.password = account[user[q]].password
      PROVE  Saved
  <2>1. account' = account \/ account' = [account EXCEPT ![user[q]] = r]
    BY <1>4 DEF SavedRow
  <2>2. \A a \in Account : account'[a] = account[a] \/ (a = user[q] /\ account'[a] = r)
    BY <1>1, <2>1 DEF Typing
  <2>3. QED
    BY <1>2, <1>4, <2>2 DEF Exists
<1>5. ASSUME EndRequest(q) PROVE Kept
  <2>1. web'[q] = "idle" /\ \A p \in Web \ {q} : web'[p] = web[p] /\ copy'[p] = copy[p]
    BY <1>1, <1>5 DEF EndRequest, Typing
  <2>2. QED
    BY <2>1
<1>6. ASSUME NEW a \in Account, NEW f \in Form, LoadUser(q, a, f) PROVE Saved /\ Kept
  <2>1. /\ copy'[q] = account[a] /\ Exists(a) /\ account' = account
        /\ \A p \in Web \ {q} : web'[p] = web[p] /\ copy'[p] = copy[p]
    BY <1>1, <1>6 DEF LoadUser, Typing
  <2>2. QED
    BY <1>3, <2>1
<1>7. ASSUME NEW e \in Email, SaveProfile(q, e) PROVE Saved /\ Kept
  <2>1. web[q] # "idle" /\ account' = SavedRow(q, [copy[q] EXCEPT !.email = e]) /\ EndRequest(q)
    BY <1>7 DEF SaveProfile
  <2>2. [copy[q] EXCEPT !.email = e].password = copy[q].password
    BY <1>2, <2>1 DEF Row
  <2> HIDE DEF Saved, Kept
  <2>3. QED
    BY <1>4, <1>5, <2>1, <2>2
<1>8. ASSUME ChangePassword(q) PROVE Saved /\ Kept
  <2>1. web[q] # "idle" /\ account' = SavedRow(q, [copy[q] EXCEPT !.password = 0])
    BY <1>8 DEF ChangePassword
  <2>2. [copy[q] EXCEPT !.password = 0].password = 0
    BY <1>2, <2>1 DEF Row
  <2>3. Kept
    <3>1. CASE EndRequest(q)
      BY <1>5, <3>1
    <3>2. CASE web' = [web EXCEPT ![q] = "flags"] /\ UNCHANGED <<user, copy, forms>>
      BY <1>1, <2>1, <3>2 DEF Typing
    <3>3. QED
      BY <1>8, <3>1, <3>2 DEF ChangePassword
  <2> HIDE DEF Saved, Kept
  <2>4. QED
    BY <1>4, <2>1, <2>2, <2>3
<1>9. ASSUME ClearFlags(q) PROVE Saved /\ Kept
  <2>1. web[q] # "idle" /\ EndRequest(q)
        /\ account' = [account EXCEPT ![user[q]] = [account[user[q]] EXCEPT !.temporary = FALSE]]
    BY <1>9 DEF ClearFlags
  <2>2. [account[user[q]] EXCEPT !.temporary = FALSE].password = account[user[q]].password
    BY <1>2, <2>1 DEF Row
  <2>3. \A a \in Account : account'[a] = account[a]
           \/ (a = user[q] /\ account'[a].password = account[user[q]].password)
    BY <1>1, <2>1, <2>2 DEF Typing
  <2>4. Saved
    BY <1>2, <2>1, <2>3 DEF Exists
  <2>5. QED
    BY <1>5, <2>1, <2>4
<1>10. ASSUME NEW e \in Email, NEW f \in Flags, SaveUserForm(q, e, f) PROVE Saved /\ Kept
  <2>1. web[q] # "idle" /\ EndRequest(q) /\ copy[q] \in Row
    BY <1>2, <1>10 DEF SaveUserForm
  <2>2. PICK name \in Chosen \cup {copy[q].name} :
           account' = SavedRow(q, [Edited(copy[q], e, name, f)
                                     EXCEPT !.password = account[user[q]].password])
    BY <1>10 DEF SaveUserForm
  <2> DEFINE s == Edited(copy[q], e, name, f)
             r == [s EXCEPT !.password = account[user[q]].password]
  <2>3. s \in Row
    BY <2>1, FormsMakeRows
  <2>4. account' = SavedRow(q, r)
    BY <2>2
  <2> HIDE DEF s
  <2>5. r.password = account[user[q]].password
    BY <2>3 DEF Row
  <2> HIDE DEF r, Saved, Kept
  <2>6. QED
    BY <1>4, <1>5, <2>1, <2>4, <2>5
<1>11. ASSUME DropRequest(q) PROVE Saved /\ Kept
  BY <1>3, <1>5, <1>11 DEF DropRequest
<1> HIDE DEF Saved, Kept
<1>12. Saved /\ Kept
  BY <1>6, <1>7, <1>8, <1>9, <1>10, <1>11 DEF WebStep
<1>13. QED
  BY <1>12 DEF Saved, Kept

(* Every step keeps the passwords within reach of the reviewers. *)
LEMMA CredentialsStep ==
    ASSUME Held, Credentials, [Next]_vars
    PROVE  Credentials'
<1>1. /\ \A a \in Account : Exists(a) => Told(account[a].password)
      /\ \A q \in Web : web[q] # "idle" => Told(copy[q].password)
  BY DEF Credentials
<1>2. ASSUME \A p : Told(p) => ToldThen(p),
             \A a \in Account : account'[a] # Absent => ToldThen(account'[a].password),
             \A q \in Web : web'[q] # "idle" => ToldThen(copy'[q].password)
      PROVE  Credentials'
  BY <1>2 DEF Credentials, Exists, Told, ToldThen
<1>3. ASSUME UNCHANGED <<shown, lost, messages, account, web, copy>> PROVE Credentials'
  BY <1>1, <1>3 DEF Credentials, Told, ToldThen, Exists
<1>4. CASE UNCHANGED vars
  BY <1>3, <1>4 DEF vars, reviewVars, toldVars, webVars
<1>5. ASSUME NEW e \in Email, RegisterRequest(e) PROVE Credentials'
  BY <1>3, <1>5 DEF RegisterRequest, reviewVars, toldVars, webVars
<1>6. ASSUME NEW v \in Reviewer, NEW S \in SUBSET Email, NEW choice \in {"approve", "reject"},
             SelectRequests(v, S, choice)
      PROVE  Credentials'
  BY <1>3, <1>6 DEF SelectRequests, toldVars, webVars
<1>7. ASSUME NEW v \in Reviewer, ReviewStep(v) PROVE Credentials'
  <2>1. /\ \A p : Told(p) => ToldThen(p)
        /\ \A a \in Account : account'[a] # Absent =>
              \/ Exists(a) /\ account'[a].password = account[a].password
              \/ account'[a].password \in messages'[v]
    BY <1>7, ReviewTells
  <2>2. UNCHANGED <<web, user, copy>>
    BY <1>7, ReviewTypes
  <2>3. \A p : p \in messages'[v] => ToldThen(p)
    BY DEF Told, ToldThen
  <2>4. \A a \in Account : account'[a] # Absent => ToldThen(account'[a].password)
    <3>1. ASSUME NEW a \in Account, account'[a] # Absent PROVE ToldThen(account'[a].password)
      <4>1. CASE Exists(a) /\ account'[a].password = account[a].password
        <5>1. Told(account[a].password)
          BY <1>1, <4>1
        <5> DEFINE p == account[a].password
        <5>2. Told(p)
          BY <5>1
        <5>3. account'[a].password = p
          BY <4>1
        <5> HIDE DEF p
        <5>4. QED
          BY <2>1, <5>2, <5>3
      <4>2. CASE account'[a].password \in messages'[v]
        BY <2>3, <4>2
      <4>3. QED
        BY <2>1, <3>1, <4>1, <4>2
    <3>2. QED
      BY <3>1
  <2>5. QED
    BY <1>1, <1>2, <2>1, <2>2, <2>4
<1>8. ASSUME NEW q \in Web, WebStep(q) PROVE Credentials'
  <2>1. UNCHANGED <<shown, lost, messages>>
    BY <1>8, WebTypes DEF reviewVars, toldVars
  <2>2. \A p : Told(p) => ToldThen(p)
    BY <2>1 DEF Told, ToldThen
  <2>3. ToldThen(0)
    BY DEF Told, ToldThen
  <2>4. \A a \in Account : account'[a] # Absent => ToldThen(account'[a].password)
    BY <1>1, <1>8, <2>2, <2>3, WebTells
  <2>5. \A p \in Web : web'[p] # "idle" => ToldThen(copy'[p].password)
    BY <1>1, <1>8, <2>2, WebTells
  <2>6. QED
    BY <1>2, <2>2, <2>4, <2>5
<1>9. ASSUME NEW a \in Account, NEW e \in Email, NEW name \in Chosen, AddAccount(a, e, name)
      PROVE  Credentials'
  <2>1. UNCHANGED <<shown, lost, messages, web, copy>>
    BY <1>9, AddTypes DEF reviewVars, toldVars
  <2>2. \A b \in Account : account'[b] = account[b] \/ account'[b] = OwnRow(e, name)
    BY <1>9 DEF AddAccount, Held, Typing
  <2>3. OwnRow(e, name).password = 0
    BY DEF OwnRow
  <2>4. QED
    BY <1>1, <2>1, <2>2, <2>3 DEF Credentials, Told, ToldThen, Exists
<1>10. QED
  BY <1>4, <1>5, <1>6, <1>7, <1>8, <1>9, Zenon DEF Next

(* No account is left with a temporary password that nobody was told, unless *)
(* the process died with the response, or an error response had no room for  *)
(* the message.                                                             *)
THEOREM CredentialsReachReviewers == Spec => []CredentialsAreShown
<1>1. Init => Credentials
  <2> SUFFICES ASSUME Init PROVE Credentials
    OBVIOUS
  <2>1. \A a \in Account : Exists(a) => account[a].password = 0
    <3>1. CASE account = [a \in Account |-> Absent]
      BY <3>1 DEF Exists
    <3>2. CASE \E a \in Account, e \in Email, name \in Chosen :
                 account = [b \in Account |-> IF b = a THEN OwnRow(e, name) ELSE Absent]
      BY <3>2 DEF Exists, OwnRow
    <3>3. QED
      BY <3>1, <3>2 DEF Init
  <2>2. \A q \in Web : web[q] = "idle"
    BY DEF Init
  <2>3. QED
    BY <2>1, <2>2 DEF Credentials, Told, ToldThen
<1>2. Held /\ Credentials /\ [Next]_vars => Credentials'
  BY CredentialsStep
<1>3. Credentials => CredentialsAreShown
  <2> SUFFICES ASSUME Credentials, NEW a \in Account, Exists(a), account[a].password > 0
               PROVE  \/ account[a].password \in shown \cup lost
                      \/ \E v \in Reviewer : account[a].password \in messages[v]
    BY DEF CredentialsAreShown
  <2>1. Told(account[a].password)
    BY DEF Credentials
  <2>2. account[a].password # 0
    OBVIOUS
  <2>3. QED
    BY <2>1, <2>2 DEF Told, ToldThen
<1>4. QED
  BY CopiesAgree, <1>1, <1>2, <1>3, PTL DEF Spec

-----------------------------------------------------------------------------
(* A reviewer's step puts accounts on passwords that have to be changed.     *)
LEMMA ReviewSetsDuty ==
    ASSUME Held, NEW v \in Reviewer, ReviewStep(v), NEW a \in Account, DutyLifted(a)'
    PROVE  DutyLifted(a)
<1>1. Typing
  BY DEF Held
<1>2. UNCHANGED <<web, user, copy>>
  BY ReviewTypes
<1>3. ASSUME NEW b \in Account, row[v] \in Row, Approve(v, b), Exists(a)', OnIssued(account[a])'
      PROVE  Exists(a) /\ OnIssued(account[a])
  <2>1. account'[b] = [row[v] EXCEPT !.approved = TRUE, !.active = TRUE, !.temporary = TRUE]
        /\ \A c \in Account \ {b} : account'[c] = account[c]
    BY <1>1, <1>3 DEF Approve, Typing
  <2>2. account'[b].temporary = TRUE
    BY <1>3, <2>1 DEF Row
  <2>3. a # b
    BY <1>3, <2>2 DEF OnIssued
  <2>4. QED
    BY <1>3, <2>1, <2>3 DEF Exists, OnIssued
<1>4. ASSUME Exists(a)', OnIssued(account[a])' PROVE Exists(a) /\ OnIssued(account[a])
  <2>1. CASE CreateAccount(v) \/ UpdateAccount(v)
    <3>1. row[v] \in Row /\ (UpdateAccount(v) => target[v] \in Account)
      BY <2>1 DEF CreateAccount, UpdateAccount, Held, Copies, ReviewHolds
    <3>2. account' = account \/ \E b \in Account : Approve(v, b)
      BY <2>1, <3>1 DEF CreateAccount, UpdateAccount, FailReview
    <3>3. QED
      BY <1>3, <1>4, <3>1, <3>2 DEF Exists, OnIssued
  <2>2. CASE ~(CreateAccount(v) \/ UpdateAccount(v))
    <3>1. account' = account
      BY <2>2 DEF ReviewStep, FinishReview, RefuseDecided, Reject, FindAccount, BuildUsername,
                  CrashReview, ShowMessages
    <3>2. QED
      BY <1>4, <3>1 DEF Exists, OnIssued
  <2>3. QED
    BY <2>1, <2>2
<1>5. QED
  BY <1>2, <1>4 DEF DutyLifted, OnIssued, Exists

(* Of the forms, only the user form and the flags can lift the duty anew: a   *)
(* profile form is saved from a row on which it was lifted already.          *)
LEMMA WebKeepsDuty ==
    ASSUME Held, NEW q \in Web, WebStep(q), NEW a \in Account, ~DutyLifted(a), DutyLifted(a)'
    PROVE  user[q] = a /\ web[q] \in {"flags", "user"}
<1> DEFINE OnRow == account'[a] # Absent /\ OnIssued(account'[a])
           OnCopy == \E p \in Web : user'[p] = a /\ OnIssued(copy'[p])
<1>1. Typing /\ a # Absent
  BY AbsentAssumption DEF Held
<1>2. OnRow \/ OnCopy
  BY DEF DutyLifted, OnIssued, Exists
<1>3. /\ ~(Exists(a) /\ OnIssued(account[a]))
      /\ \A p \in Web : user[p] = a => ~OnIssued(copy[p])
  BY DEF DutyLifted
<1>4. ASSUME web[q] # "idle"
      PROVE  user[q] \in Account /\ Exists(user[q]) /\ copy[q] \in Row
  BY <1>4 DEF Held, Copies, RequestHolds
<1>5. ASSUME account' = account PROVE ~OnRow
  BY <1>3, <1>5 DEF Exists
<1>6. ASSUME UNCHANGED <<user, copy>> PROVE ~OnCopy
  BY <1>3, <1>6
<1>7. ASSUME EndRequest(q) PROVE ~OnCopy
  <2>1. user'[q] = Absent /\ \A p \in Web \ {q} : user'[p] = user[p] /\ copy'[p] = copy[p]
    BY <1>1, <1>7 DEF EndRequest, Typing
  <2>2. QED
    BY <1>1, <1>3, <2>1
<1>8. ASSUME NEW b \in Account, NEW f \in Form, LoadUser(q, b, f) PROVE FALSE
  <2>1. /\ user'[q] = b /\ copy'[q] = account[b] /\ Exists(b) /\ account' = account
        /\ \A p \in Web \ {q} : user'[p] = user[p] /\ copy'[p] = copy[p]
    BY <1>1, <1>8 DEF LoadUser, Typing
  <2>2. ~OnCopy
    BY <1>3, <2>1
  <2>3. QED
    BY <1>2, <1>5, <2>1, <2>2
<1>9. ASSUME NEW r, web[q] # "idle", account' = SavedRow(q, r), OnRow
      PROVE  user[q] = a /\ OnIssued(r)
  <2>1. account' = account \/ account' = [account EXCEPT ![user[q]] = r]
    BY <1>9 DEF SavedRow
  <2>2. account'[a] = account[a] \/ (a = user[q] /\ account'[a] = r)
    BY <1>1, <2>1 DEF Typing
  <2>3. QED
    BY <1>3, <1>9, <2>2 DEF Exists
<1>10. ASSUME NEW e \in Email, SaveProfile(q, e) PROVE FALSE
  <2>1. web[q] # "idle" /\ account' = SavedRow(q, [copy[q] EXCEPT !.email = e]) /\ EndRequest(q)
    BY <1>10 DEF SaveProfile
  <2>2. OnIssued([copy[q] EXCEPT !.email = e]) => OnIssued(copy[q])
    BY <1>4, <2>1 DEF Row, OnIssued
  <2> HIDE DEF OnRow, OnCopy
  <2>3. OnRow
    BY <1>2, <1>7, <2>1
  <2>4. user[q] = a /\ OnIssued(copy[q])
    BY <1>9, <2>1, <2>2, <2>3
  <2>5. QED
    BY <1>3, <2>4
<1>11. ASSUME ChangePassword(q) PROVE FALSE
  <2>1. web[q] # "idle" /\ account' = SavedRow(q, [copy[q] EXCEPT !.password = 0])
        /\ (EndRequest(q) \/ UNCHANGED <<user, copy>>)
    BY <1>11 DEF ChangePassword
  <2>2. ~OnIssued([copy[q] EXCEPT !.password = 0])
    BY <1>4, <2>1 DEF Row, OnIssued
  <2> HIDE DEF OnRow, OnCopy
  <2>3. ~OnCopy
    BY <1>6, <1>7, <2>1
  <2>4. QED
    BY <1>2, <1>9, <2>1, <2>2, <2>3
<1>12. ASSUME ClearFlags(q) PROVE user[q] = a /\ web[q] = "flags"
  <2>1. web[q] = "flags" /\ EndRequest(q)
        /\ account' = [account EXCEPT ![user[q]] = [account[user[q]] EXCEPT !.temporary = FALSE]]
    BY <1>12 DEF ClearFlags
  <2>2. OnRow
    BY <1>2, <1>7, <2>1
  <2>3. a # user[q] => account'[a] = account[a]
    BY <1>1, <2>1 DEF Typing
  <2>4. QED
    BY <1>3, <2>1, <2>2, <2>3 DEF Exists
<1>13. ASSUME NEW e \in Email, NEW f \in Flags, SaveUserForm(q, e, f)
       PROVE  user[q] = a /\ web[q] = "user"
  <2>1. web[q] = "user" /\ EndRequest(q)
    BY <1>13 DEF SaveUserForm
  <2>2. PICK name \in Chosen \cup {copy[q].name} :
           account' = SavedRow(q, [Edited(copy[q], e, name, f)
                                     EXCEPT !.password = account[user[q]].password])
    BY <1>13 DEF SaveUserForm
  <2> HIDE DEF OnRow, OnCopy
  <2>3. OnRow
    BY <1>2, <1>7, <2>1
  <2>4. QED
    BY <1>9, <2>1, <2>2, <2>3
<1>14. ASSUME DropRequest(q) PROVE FALSE
  BY <1>2, <1>5, <1>7, <1>14 DEF DropRequest
<1>15. QED
  BY <1>8, <1>10, <1>11, <1>12, <1>13, <1>14 DEF WebStep

(* Only an administrator's form, or a request that had stored the owner's    *)
(* new password just before, ever lifts the duty to change an issued one.    *)
THEOREM TemporaryHasToChange == Spec => TemporaryMustChange
<1> DEFINE A == \A a \in Account : ~DutyLifted(a) /\ DutyLifted(a)' =>
                   \E q \in Web : user[q] = a /\ web[q] \in {"flags", "user"}
<1>1. Held /\ [Next]_vars => [A]_vars
  <2> SUFFICES ASSUME Held, Next, NEW a \in Account, ~DutyLifted(a), DutyLifted(a)'
               PROVE  \E q \in Web : user[q] = a /\ web[q] \in {"flags", "user"}
    OBVIOUS
  <2>1. ASSUME UNCHANGED <<account, web, user, copy>> PROVE FALSE
    BY <2>1 DEF DutyLifted, OnIssued, Exists
  <2>2. ASSUME NEW e \in Email, RegisterRequest(e) PROVE FALSE
    BY <2>1, <2>2 DEF RegisterRequest, webVars
  <2>3. ASSUME NEW v \in Reviewer, NEW S \in SUBSET Email, NEW choice \in {"approve", "reject"},
               SelectRequests(v, S, choice)
        PROVE  FALSE
    BY <2>1, <2>3 DEF SelectRequests, webVars
  <2>4. ASSUME NEW v \in Reviewer, ReviewStep(v) PROVE FALSE
    BY <2>4, ReviewSetsDuty
  <2>5. ASSUME NEW q \in Web, WebStep(q)
        PROVE  user[q] = a /\ web[q] \in {"flags", "user"}
    BY <2>5, WebKeepsDuty
  <2>6. ASSUME NEW b \in Account, NEW e \in Email, NEW name \in Chosen, AddAccount(b, e, name)
        PROVE  FALSE
    <3>1. UNCHANGED <<web, user, copy>>
      BY <2>6, AddTypes
    <3>2. account'[a] = account[a] \/ account'[a] = OwnRow(e, name)
      BY <2>6 DEF AddAccount, Held, Typing
    <3>3. ~OnIssued(OwnRow(e, name))
      BY DEF OnIssued, OwnRow
    <3>4. QED
      BY <3>1, <3>2, <3>3 DEF DutyLifted, OnIssued, Exists
  <2>7. QED
    BY <2>2, <2>3, <2>4, <2>5, <2>6 DEF Next
<1>2. QED
  BY CopiesAgree, <1>1, PTL DEF Spec, TemporaryMustChange

(* A decided request keeps its decision, but for a reviewer who had loaded   *)
(* it while it was pending.                                                  *)
THEOREM DecisionsStand == Spec => DecisionIsFinal
<1> DEFINE A == \A e \in Email :
                   request[e] \in {"approved", "rejected"} /\ request'[e] # request[e]
                      => \E v \in Reviewer : seen[v][e] = "pending"
<1>1. Held /\ [Next]_vars => [A]_vars
  <2> SUFFICES ASSUME Held, Next, NEW e \in Email, request[e] \in {"approved", "rejected"},
                      request'[e] # request[e]
               PROVE  \E v \in Reviewer : seen[v][e] = "pending"
    OBVIOUS
  <2>1. request \in [Email -> Status]
    BY DEF Held, Typing
  <2>2. ASSUME NEW f \in Email, RegisterRequest(f) PROVE FALSE
    BY <2>1, <2>2, AbsentAssumption DEF RegisterRequest
  <2>3. ASSUME NEW v \in Reviewer, NEW S \in SUBSET Email, NEW choice \in {"approve", "reject"},
               SelectRequests(v, S, choice)
        PROVE  FALSE
    BY <2>3 DEF SelectRequests
  <2>4. ASSUME NEW v \in Reviewer, ReviewStep(v) PROVE seen[v][e] = "pending"
    <3>1. ASSUME NEW s, request' = [request EXCEPT ![Current(v)] = s] PROVE e = Current(v)
      BY <2>1, <3>1
    <3>2. CASE Reject(v)
      BY <3>1, <3>2 DEF Reject, Deciding, IsPending
    <3>3. CASE CreateAccount(v) \/ UpdateAccount(v)
      <4>1. seen[v][Current(v)] = "pending"
        BY <3>3 DEF CreateAccount, UpdateAccount, Held, Copies, ReviewHolds
      <4>2. request' = request \/ request' = [request EXCEPT ![Current(v)] = "approved"]
        BY <3>3 DEF CreateAccount, UpdateAccount, FailReview, Approve
      <4>3. QED
        BY <3>1, <4>1, <4>2
    <3>4. CASE ~(Reject(v) \/ CreateAccount(v) \/ UpdateAccount(v))
      BY <2>4, <3>4 DEF ReviewStep, FinishReview, RefuseDecided, FindAccount, BuildUsername,
                        CrashReview, ShowMessages
    <3>5. QED
      BY <3>2, <3>3, <3>4
  <2>5. ASSUME NEW q \in Web, WebStep(q) PROVE FALSE
    BY <2>5, WebTypes
  <2>6. ASSUME NEW a \in Account, NEW f \in Email, NEW name \in Chosen, AddAccount(a, f, name)
        PROVE  FALSE
    BY <2>6, AddTypes
  <2>7. QED
    BY <2>2, <2>3, <2>4, <2>5, <2>6 DEF Next
<1>2. QED
  BY CopiesAgree, <1>1, PTL DEF Spec, DecisionIsFinal

=============================================================================
