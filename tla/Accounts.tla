------------------------------- MODULE Accounts -------------------------------
(***************************************************************************)
(* Registration requests, the accounts they lead to, and the requests that *)
(* change accounts.                                                        *)
(*                                                                         *)
(* A reviewer selects registration requests in the admin change list and   *)
(* approves or rejects them; the rows are loaded once, then decided one    *)
(* after the other, each in a transaction of its own.  Meanwhile another   *)
(* reviewer may work on the same rows, and other web requests load an      *)
(* account and write the whole row back.  Transactions are READ COMMITTED, *)
(* so every SELECT is a step of its own; what a transaction writes appears *)
(* when it commits, and a unique index refuses it then.                    *)
(***************************************************************************)
EXTENDS Integers, Sequences, FiniteSets

CONSTANTS
    Email,       \* addresses, of requests and of accounts
    Applicant,   \* addresses that people register with
    Word,        \* the parts of user names that are no numbers
    BaseOf,      \* the user name made from the local part of an address
    Chosen,      \* user names that administrators choose
    Flags,       \* what administrators tick in the form of a user
    Account,     \* the accounts that may ever exist
    Absent,      \* a row that does not exist
    Reviewer,    \* administrators that run the approve and reject actions
    Web,         \* web requests that load and save one account
    Form,        \* the forms they post
    CookieRoom,  \* how many messages may fit in the message cookie
    MaxIssued,   \* bound on the temporary passwords issued
    MaxForms     \* bound on the forms loaded and the accounts added

(* A user name is the sequence of its parts between hyphens: as strings,     *)
(* base and number give the same name as a base that ends in the number.     *)
Name == Seq(Word \cup Nat)
Candidate(base, n) == IF n = 1 THEN base ELSE Append(base, n)

ASSUME ConstantsAssumption ==
    /\ Applicant \subseteq Email
    /\ BaseOf \in [Email -> Name] /\ Chosen \subseteq Name
    /\ Flags \subseteq [active : BOOLEAN, approved : BOOLEAN, temporary : BOOLEAN]
    /\ Form \subseteq {"profile", "password", "user"}
    /\ CookieRoom \subseteq Nat
    /\ MaxIssued \in Nat /\ MaxForms \in Nat

VARIABLES
    request,  \* RegistrationRequest.status by address
    arrived,  \* the addresses of the requests, in the order of created_at
    account,  \* the User rows
    issued,   \* number of temporary passwords generated
    pc,       \* what each reviewer is doing
    verdict,  \* the action the reviewer chose
    todo,     \* requests the reviewer has still to decide, as positions in arrived
    seen,     \* their statuses as they were loaded
    target,   \* the account found for the request, or Absent
    row,      \* the row loaded or built
    number,   \* number of the candidate for its name
    messages, \* temporary passwords in the messages of the reviewer's response
    shown,    \* temporary passwords reviewers have seen
    lost,     \* temporary passwords in messages that never arrived
    web,      \* the form each web request posts, "idle" or "flags"
    user,     \* the account it loaded
    copy,     \* request.user, the row it loaded
    forms,    \* number of forms loaded and accounts added
    used,     \* every name an account has ever had
    given     \* the bases and suffixes of the names that approvals gave

reviewVars == <<pc, verdict, todo, seen, target, row, number, messages>>
toldVars == <<shown, lost>>
webVars == <<web, user, copy, forms>>
nameVars == <<used, given>>
vars == <<request, arrived, account, issued, reviewVars, toldVars, webVars, nameVars>>

(* Password 0 stands for all that owners choose, n for the n-th temporary   *)
(* one.  `temporary' is must_change_password and temporary_password_issued. *)
Row == [email : Email, name : Name, approved : BOOLEAN, active : BOOLEAN,
        temporary : BOOLEAN, password : Nat]

(* A row that does not exist is none of the rows, and no key or status.     *)
ASSUME AbsentAssumption ==
    /\ Absent \notin Row /\ Absent \notin Account
    /\ Absent \notin {"pending", "approved", "rejected"}

Exists(a) == account[a] # Absent
EmailTaken(e, a) == \E b \in Account \ {a} : Exists(b) /\ account[b].email = e
NameTaken(name, a) == \E b \in Account \ {a} : Exists(b) /\ account[b].name = name

(* The unique indexes refuse a row for account a, or a new one for Absent. *)
Refused(r, a) == EmailTaken(r.email, a) \/ NameTaken(r.name, a)

OwnRow(e, name) == [email |-> e, name |-> name, approved |-> FALSE, active |-> TRUE,
                    temporary |-> FALSE, password |-> 0]

(* There may be an account of the administrators already. *)
Init ==
    /\ request = [e \in Email |-> Absent]
    /\ arrived = << >>
    /\ \/ account = [a \in Account |-> Absent] /\ used = {}
       \/ \E a \in Account, e \in Email, name \in Chosen :
             /\ account = [b \in Account |-> IF b = a THEN OwnRow(e, name) ELSE Absent]
             /\ used = {name}
    /\ issued = 0
    /\ pc = [v \in Reviewer |-> "idle"]
    /\ verdict = [v \in Reviewer |-> "none"]
    /\ todo = [v \in Reviewer |-> {}]
    /\ seen = [v \in Reviewer |-> [e \in Email |-> Absent]]
    /\ target = [v \in Reviewer |-> Absent]
    /\ row = [v \in Reviewer |-> Absent]
    /\ number = [v \in Reviewer |-> 0]
    /\ messages = [v \in Reviewer |-> {}]
    /\ shown = {} /\ lost = {}
    /\ web = [q \in Web |-> "idle"]
    /\ user = [q \in Web |-> Absent]
    /\ copy = [q \in Web |-> Absent]
    /\ forms = 0
    /\ given = {}

(* register_request: the address is unique among the requests. *)
RegisterRequest(e) ==
    /\ e \in Applicant
    /\ request[e] = Absent
    /\ request' = [request EXCEPT ![e] = "pending"]
    /\ arrived' = Append(arrived, e)
    /\ UNCHANGED <<account, issued, reviewVars, toldVars, webVars, nameVars>>

-----------------------------------------------------------------------------
(* approve_requests and reject_requests. *)

SelectRequests(v, S, choice) ==
    /\ pc[v] = "idle"
    /\ S # {} /\ \A e \in S : request[e] # Absent
    /\ pc' = [pc EXCEPT ![v] = "next"]
    /\ verdict' = [verdict EXCEPT ![v] = choice]
    /\ todo' = [todo EXCEPT ![v] = {i \in 1 .. Len(arrived) : arrived[i] \in S}]
    /\ seen' = [seen EXCEPT ![v] = [e \in Email |-> IF e \in S THEN request[e] ELSE Absent]]
    /\ UNCHANGED <<request, arrived, account, issued, target, row, number, messages,
                   toldVars, webVars, nameVars>>

(* The loop goes through them in the order of created_at. *)
Earliest(positions) == CHOOSE i \in positions : \A j \in positions : i <= j
Current(v) == arrived[Earliest(todo[v])]

(* On with the next request, once the current one is done with. *)
NextRequest(v) ==
    /\ todo' = [todo EXCEPT ![v] = @ \ {Earliest(@)}]
    /\ seen' = [seen EXCEPT ![v][Current(v)] = Absent]
    /\ target' = [target EXCEPT ![v] = Absent]
    /\ row' = [row EXCEPT ![v] = Absent]
    /\ number' = [number EXCEPT ![v] = 0]
    /\ pc' = [pc EXCEPT ![v] = "next"]
    /\ UNCHANGED verdict

EndReview(v) ==
    /\ pc' = [pc EXCEPT ![v] = "idle"]
    /\ verdict' = [verdict EXCEPT ![v] = "none"]
    /\ todo' = [todo EXCEPT ![v] = {}]
    /\ seen' = [seen EXCEPT ![v] = [e \in Email |-> Absent]]
    /\ target' = [target EXCEPT ![v] = Absent]
    /\ row' = [row EXCEPT ![v] = Absent]
    /\ number' = [number EXCEPT ![v] = 0]
    /\ messages' = [messages EXCEPT ![v] = {}]

(* Faulty variant: messages are dropped with the response. *)
DropMessages(v) ==
    /\ EndReview(v)
    /\ UNCHANGED <<request, arrived, account, issued, toldVars, webVars, nameVars>>

(* The response shows the messages. *)
ShowMessages(v) ==
    /\ EndReview(v)
    /\ shown' = shown \cup messages[v]
    /\ UNCHANGED <<request, arrived, account, issued, lost, webVars, nameVars>>

(* The message middleware stores them for the reviewer's next page when an  *)
(* exception made the response a 500: the first ones in a cookie, as far as *)
(* its size and what it already holds allow, the others in the session,     *)
(* which is not saved with such a response.                                 *)
InCookie(v, room) == {p \in messages[v] : Cardinality({o \in messages[v] : o < p}) < room}

FailReview(v) ==
    /\ EndReview(v)
    /\ \E room \in CookieRoom :
          /\ shown' = shown \cup InCookie(v, room)
          /\ lost' = lost \cup (messages[v] \ InCookie(v, room))
    /\ UNCHANGED <<request, arrived, account, issued, webVars, nameVars>>

FinishReview(v) == pc[v] = "next" /\ todo[v] = {} /\ ShowMessages(v)

(* Faulty variant: the status is not looked at. *)
AnyStatus(s) == s # Absent

IsPending(s) == s = "pending"

RefuseDecided(v) ==
    /\ pc[v] = "next" /\ todo[v] # {}
    /\ ~IsPending(seen[v][Current(v)])
    /\ NextRequest(v)
    /\ UNCHANGED <<request, arrived, account, issued, messages, toldVars, webVars,
                   nameVars>>

Deciding(v, choice) ==
    /\ pc[v] = "next" /\ todo[v] # {} /\ verdict[v] = choice
    /\ IsPending(seen[v][Current(v)])

Reject(v) ==
    /\ Deciding(v, "reject")
    /\ request' = [request EXCEPT ![Current(v)] = "rejected"]
    /\ NextRequest(v)
    /\ UNCHANGED <<arrived, account, issued, messages, toldVars, webVars, nameVars>>

(* What rows are written leaves its names in use. *)
Remember == used' = used \cup {account'[a].name : a \in {b \in Account : account'[b] # Absent}}

(* filter(email__iexact=...).first(): an approved account is an error, any  *)
(* other is updated; without one an account is created, and its first       *)
(* candidate for a name is the base itself.                                 *)
FindAccount(v) ==
    /\ Deciding(v, "approve") /\ issued < MaxIssued
    /\ issued' = issued + 1
    /\ IF EmailTaken(Current(v), Absent)
       THEN \E a \in Account :
               /\ Exists(a) /\ account[a].email = Current(v)
               /\ IF account[a].approved
                  THEN NextRequest(v)
                  ELSE /\ target' = [target EXCEPT ![v] = a]
                       /\ row' = [row EXCEPT ![v] = [account[a] EXCEPT !.password = issued']]
                       /\ pc' = [pc EXCEPT ![v] = "update"]
                       /\ UNCHANGED <<verdict, todo, seen, number>>
       ELSE /\ row' = [row EXCEPT ![v] =
                 [OwnRow(Current(v), BaseOf[Current(v)]) EXCEPT !.password = issued']]
            /\ number' = [number EXCEPT ![v] = 1]
            /\ pc' = [pc EXCEPT ![v] = "name"]
            /\ UNCHANGED <<verdict, todo, seen, target>>
    /\ UNCHANGED <<request, arrived, account, messages, toldVars, webVars, nameVars>>

(* Faulty variant: the candidate gets the suffix that follows. *)
SkippedSuffix(n) == n + 2

NextSuffix(n) == n + 1

(* One SELECT of the search for a name that no account has. *)
BuildUsername(v) ==
    /\ pc[v] = "name"
    /\ IF NameTaken(row[v].name, Absent)
       THEN /\ number' = [number EXCEPT ![v] = NextSuffix(@)]
            /\ row' = [row EXCEPT ![v].name = Candidate(BaseOf[row[v].email], number'[v])]
            /\ UNCHANGED pc
       ELSE pc' = [pc EXCEPT ![v] = "insert"] /\ UNCHANGED <<row, number>>
    /\ UNCHANGED <<request, arrived, account, issued, verdict, todo, seen, target, messages,
                   toldVars, webVars, nameVars>>

(* The account and the decision are committed together, and the password    *)
(* is put in a message.                                                     *)
Approve(v, a) ==
    /\ account' = [account EXCEPT ![a] =
          [row[v] EXCEPT !.approved = TRUE, !.active = TRUE, !.temporary = TRUE]]
    /\ Remember
    /\ request' = [request EXCEPT ![Current(v)] = "approved"]
    /\ messages' = [messages EXCEPT ![v] = @ \cup {row[v].password}]
    /\ NextRequest(v)
    /\ UNCHANGED <<arrived, issued, toldVars, webVars>>

(* create_user: another account may have taken the address or the name in   *)
(* the meantime; the IntegrityError ends the action.                        *)
CreateAccount(v) ==
    /\ pc[v] = "insert"
    /\ IF Refused(row[v], Absent)
       THEN FailReview(v)
       ELSE /\ \E a \in Account : ~Exists(a) /\ Approve(v, a)
            /\ given' = given \cup {[base |-> BaseOf[row[v].email], suffix |-> number[v]]}

(* The whole row is saved, its name included. *)
UpdateAccount(v) ==
    /\ pc[v] = "update"
    /\ IF Refused(row[v], target[v])
       THEN FailReview(v)
       ELSE Approve(v, target[v]) /\ UNCHANGED given

(* The process dies: the transaction and the messages are lost. *)
CrashReview(v) ==
    /\ pc[v] # "idle"
    /\ EndReview(v)
    /\ lost' = lost \cup messages[v]
    /\ UNCHANGED <<request, arrived, account, issued, shown, webVars, nameVars>>

-----------------------------------------------------------------------------
(* Web requests that save a whole User row as it was loaded. *)

(* RequirePasswordChangeMiddleware: with a temporary password only the       *)
(* password form and the admin site are served.                             *)
Allowed(r, f) == f = "profile" => ~r.temporary

(* An owner needs an active account to be logged in; an administrator gets   *)
(* the user form of any account.                                            *)
LoadUser(q, a, f) ==
    /\ web[q] = "idle" /\ Exists(a) /\ forms < MaxForms
    /\ forms' = forms + 1
    /\ f # "user" => account[a].active
    /\ Allowed(account[a], f)
    /\ web' = [web EXCEPT ![q] = f]
    /\ user' = [user EXCEPT ![q] = a]
    /\ copy' = [copy EXCEPT ![q] = account[a]]
    /\ UNCHANGED <<request, arrived, account, issued, reviewVars, toldVars, nameVars>>

EndRequest(q) ==
    /\ web' = [web EXCEPT ![q] = "idle"]
    /\ user' = [user EXCEPT ![q] = Absent]
    /\ copy' = [copy EXCEPT ![q] = Absent]
    /\ UNCHANGED forms

(* Faulty variant: the password is left out of the save. *)
SavedRowKeepingPassword(q, r) ==
    IF Refused(r, user[q]) THEN account
    ELSE [account EXCEPT ![user[q]] = [r EXCEPT !.password = account[user[q]].password]]

(* save(): nothing is written when the address or the name belongs to        *)
(* another account.                                                         *)
SavedRow(q, r) ==
    IF Refused(r, user[q]) THEN account ELSE [account EXCEPT ![user[q]] = r]

SaveProfile(q, e) ==
    /\ web[q] = "profile"
    /\ account' = SavedRow(q, [copy[q] EXCEPT !.email = e])
    /\ Remember
    /\ EndRequest(q)
    /\ UNCHANGED <<request, arrived, issued, reviewVars, toldVars, given>>

(* The password form saves the row, the view then clears the flags. *)
ChangePassword(q) ==
    /\ web[q] = "password"
    /\ account' = SavedRow(q, [copy[q] EXCEPT !.password = 0])
    /\ Remember
    /\ IF Refused(copy[q], user[q])
       THEN EndRequest(q)
       ELSE web' = [web EXCEPT ![q] = "flags"] /\ UNCHANGED <<user, copy, forms>>
    /\ UNCHANGED <<request, arrived, issued, reviewVars, toldVars, given>>

ClearFlags(q) ==
    /\ web[q] = "flags"
    /\ account' = [account EXCEPT ![user[q]].temporary = FALSE]
    /\ EndRequest(q)
    /\ UNCHANGED <<request, arrived, issued, reviewVars, toldVars, nameVars>>

(* In the admin form everything may be changed but the password: another     *)
(* address, another name, any of the flags.                                 *)
Edited(r, e, name, f) ==
    [r EXCEPT !.email = e, !.name = name, !.active = f.active, !.approved = f.approved,
              !.temporary = f.temporary]

SaveUserForm(q, e, f) ==
    /\ web[q] = "user"
    /\ \E name \in Chosen \cup {copy[q].name} :
          account' = SavedRow(q, [Edited(copy[q], e, name, f)
                                    EXCEPT !.password = account[user[q]].password])
    /\ Remember
    /\ EndRequest(q)
    /\ UNCHANGED <<request, arrived, issued, reviewVars, toldVars, given>>

(* createsuperuser, or the form that adds a user: an account whose name an   *)
(* administrator chose, and that nobody approved.                           *)
AddAccount(a, e, name) ==
    /\ ~Exists(a) /\ forms < MaxForms
    /\ ~Refused(OwnRow(e, name), Absent)
    /\ forms' = forms + 1
    /\ account' = [account EXCEPT ![a] = OwnRow(e, name)]
    /\ Remember
    /\ UNCHANGED <<request, arrived, issued, reviewVars, toldVars, web, user, copy,
                   given>>

(* A form is not valid or never posted, or the process dies. *)
DropRequest(q) ==
    /\ web[q] # "idle"
    /\ EndRequest(q)
    /\ UNCHANGED <<request, arrived, account, issued, reviewVars, toldVars, nameVars>>

ReviewStep(v) ==
    \/ FinishReview(v)
    \/ RefuseDecided(v)
    \/ Reject(v)
    \/ FindAccount(v)
    \/ BuildUsername(v)
    \/ CreateAccount(v)
    \/ UpdateAccount(v)
    \/ CrashReview(v)

WebStep(q) ==
    \/ \E a \in Account, f \in Form : LoadUser(q, a, f)
    \/ \E e \in Email : SaveProfile(q, e)
    \/ ChangePassword(q)
    \/ ClearFlags(q)
    \/ \E e \in Email, f \in Flags : SaveUserForm(q, e, f)
    \/ DropRequest(q)

Next ==
    \/ \E e \in Email : RegisterRequest(e)
    \/ \E v \in Reviewer :
          \/ \E S \in SUBSET Email, choice \in {"approve", "reject"} :
                SelectRequests(v, S, choice)
          \/ ReviewStep(v)
    \/ \E q \in Web : WebStep(q)
    \/ \E a \in Account, e \in Email, name \in Chosen : AddAccount(a, e, name)

Spec == Init /\ [][Next]_vars

-----------------------------------------------------------------------------
(* However approvals race for a name, whoever else takes or leaves one in    *)
(* between and whichever old row is saved, no two accounts share a name, and *)
(* an approval gives base-n only after base, base-2, ... base-(n-1) have all *)
(* been names of accounts: a refused insert uses no suffix up.              *)
NoSuffixIsSkipped ==
    /\ \A a, b \in Account :
          Exists(a) /\ Exists(b) /\ account[a].name = account[b].name => a = b
    /\ \A g \in given : \A n \in 1 .. g.suffix : Candidate(g.base, n) \in used

(* No account is left with a temporary password that nobody was told, unless *)
(* the process died with the response, or an exception made it a 500 and the *)
(* message did not fit in the cookie: also when two reviewers approve one    *)
(* request, when an old row is saved again, or when a later request of the   *)
(* same action ends in an IntegrityError.                                   *)
CredentialsAreShown ==
    \A a \in Account : Exists(a) /\ account[a].password > 0 =>
        \/ account[a].password \in shown \cup lost
        \/ \E v \in Reviewer : account[a].password \in messages[v]

(* The duty to change an issued password is lifted in the row of an account, *)
(* or in a copy of it that a request may still save.                         *)
OnIssued(r) == r.password > 0 /\ ~r.temporary
DutyLifted(a) ==
    \/ Exists(a) /\ OnIssued(account[a])
    \/ \E q \in Web : user[q] = a /\ OnIssued(copy[q])

(* An account on a temporary password still has to change it, in spite of    *)
(* saves of rows that were loaded before it was issued: only an administra-  *)
(* tor's form, or a request that had stored the owner's new password just    *)
(* before, ever lifts that duty.                                             *)
TemporaryMustChange ==
    [][\A a \in Account : ~DutyLifted(a) /\ DutyLifted(a)' =>
          \E q \in Web : user[q] = a /\ web[q] \in {"flags", "user"}]_vars

(* A decided request keeps its decision, whatever happens to its account, but *)
(* for a reviewer who had loaded it while it was pending.                    *)
DecisionIsFinal ==
    [][\A e \in Email :
          request[e] \in {"approved", "rejected"} /\ request'[e] # request[e]
          => \E v \in Reviewer : seen[v][e] = "pending"]_vars
=============================================================================
