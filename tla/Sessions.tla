------------------------------ MODULE Sessions ------------------------------
(***************************************************************************)
(* The accounts of customers and staff, and their refresh tokens.          *)
(*                                                                         *)
(* A session is a family of refresh tokens: each refresh revokes the token *)
(* it is given and inserts the next of the family.  Suspending a customer, *)
(* a new password and a logout revoke every token of the account.  None of *)
(* it is in a transaction: each request reads, and writes rows whole, one  *)
(* statement at a time, and any other request or a crash may come between. *)
(*                                                                         *)
(* An account is known by its e-mail, which is UNIQUE in its table.        *)
(***************************************************************************)
EXTENDS Integers, FiniteSets

CONSTANTS
  Customers, Staff,
  Requests,      \* requests in flight at once, one each
  MaxTokens,     \* refresh tokens issued (a bound of the model)
  MaxPassword,   \* passwords of an account (a bound of the model)
  NoAccount

ASSUME SessionsAssumption ==
  /\ MaxTokens \in Nat /\ MaxPassword \in Nat
  /\ Customers \cap Staff = {} /\ NoAccount \notin Customers \cup Staff

Accounts == Customers \cup Staff
Tokens == 1..MaxTokens

VARIABLES
  account,   \* customers and staff_members
  token,     \* refresh_tokens, numbered as they are issued
  request,   \* the requests in flight
  mixed      \* auxiliary: accounts written by requests that overlapped, or by
             \* one whose revokeAllByUser is yet to come, since their last one

vars == <<account, token, request, mixed>>

\* password counts the account's passwords.  The profile, the reset link and
\* the Google id are columns nothing below depends on: a request that changes
\* them saves the row as it read it.
Account == [exists : BOOLEAN, active : BOOLEAN, password : 0..MaxPassword]

\* first names the family.  A live token of age 1 is past expires_at, of age 2
\* a week past it.
\* under and from are auxiliary: the password the session was opened with,
\* and the token this one was issued in the place of.
Token == [state : {"unused", "live", "revoked", "deleted"}, owner : Accounts \cup {NoAccount},
          first : 0..MaxTokens, age : 0..2, under : 0..MaxPassword, from : 0..MaxTokens]

Steps == {"idle", "inserting", "saving", "revoking", "issuing",
          "reusing", "rotating", "loading", "renewing"}

Request == [step : Steps, then : Steps, account : Accounts \cup {NoAccount},
            new : Account, token : 0..MaxTokens, alone : BOOLEAN]

NoOne == [exists |-> FALSE, active |-> FALSE, password |-> 0]
Opened == [exists |-> TRUE, active |-> TRUE, password |-> 0]
Unused == [state |-> "unused", owner |-> NoAccount, first |-> 0, age |-> 0,
           under |-> 0, from |-> 0]
Idle == [step |-> "idle", then |-> "idle", account |-> NoAccount, new |-> NoOne,
         token |-> 0, alone |-> FALSE]

TypeOK ==
  /\ account \in [Accounts -> Account]
  /\ token \in [Tokens -> Token]
  /\ request \in [Requests -> Request]
  /\ mixed \subseteq Accounts
  /\ \A t \in Tokens : token[t].state # "unused" =>
       token[t].owner \in Accounts /\ token[t].first \in 1..t /\ token[t].from < t

\* Customers register; the staff is there.
Init ==
  /\ account = [a \in Accounts |-> IF a \in Staff THEN Opened ELSE NoOne]
  /\ token = [t \in Tokens |-> Unused]
  /\ request = [r \in Requests |-> Idle]
  /\ mixed = {}

-----------------------------------------------------------------------------
\* Requests on an account.

\* Every other request on account a no longer runs alone.
Overlap(a) == [r \in Requests |-> [request[r] EXCEPT !.alone = @ /\ request[r].account # a]]

\* The use case has read account a, checked it, and will write new.
Read(r, a, step, then, new, t) ==
  /\ request[r].step = "idle"
  /\ request' = [Overlap(a) EXCEPT ![r] =
       [step |-> step, then |-> then, account |-> a, new |-> new, token |-> t,
        alone |-> \A x \in Requests : request[x].account # a]]
  /\ UNCHANGED <<account, token, mixed>>

\* The right password is given; a wrong one changes nothing.
SignIn(r, a) ==
  /\ account[a].exists /\ account[a].active
  /\ Read(r, a, "issuing", "idle", account[a], 0)

Login(r, c) == c \in Customers /\ SignIn(r, c)
StaffLogin(r, s) == s \in Staff /\ SignIn(r, s)

Register(r, c) ==
  /\ c \in Customers /\ ~account[c].exists
  /\ Read(r, c, "inserting", "issuing", Opened, 0)

\* Signing in with Google registers a customer, links the account of the same
\* e-mail, or finds it linked.  Staff are never linked, nor registered.
GoogleAuth(r, c) ==
  \/ Register(r, c)
  \/ /\ c \in Customers /\ account[c].exists /\ account[c].active
     /\ Read(r, c, "saving", "issuing", account[c], 0)
  \/ Login(r, c)

StaffGoogleAuth(r, s) == s \in Staff /\ SignIn(r, s)

\* The guard of every route that is not public: whoever the access token names
\* exists and is active.
Admitted(a) == account[a].exists /\ account[a].active

\* A request that changes none of the columns modelled.
SaveAsRead(r, a) == account[a].exists /\ Read(r, a, "saving", "idle", account[a], 0)

\* A reset link is stored for whoever has the e-mail, suspended or not.
ForgotPassword(r, c) == c \in Customers /\ SaveAsRead(r, c)
StaffForgotPassword(r, s) == s \in Staff /\ SaveAsRead(r, s)

\* By the administrator, and by an active customer or member of staff.
UpdateCustomer(r, c) == c \in Customers /\ SaveAsRead(r, c)
UpdateCustomerProfile(r, c) == c \in Customers /\ Admitted(c) /\ SaveAsRead(r, c)
StaffUpdateProfile(r, s) == s \in Staff /\ Admitted(s) /\ SaveAsRead(r, s)

NewPassword(r, a) ==
  /\ account[a].exists /\ account[a].password < MaxPassword
  /\ Read(r, a, "saving", "revoking", [account[a] EXCEPT !.password = @ + 1], 0)

\* With a reset link, suspended or not.
ResetPassword(r, c) == c \in Customers /\ NewPassword(r, c)
StaffResetPassword(r, s) == s \in Staff /\ NewPassword(r, s)

\* With the current password, once the guard has found the account active.
ChangeCustomerPassword(r, c) == c \in Customers /\ Admitted(c) /\ NewPassword(r, c)
StaffChangePassword(r, s) == s \in Staff /\ Admitted(s) /\ NewPassword(r, s)

\* Only a customer's sessions end with the suspension.
Suspend(r, a) ==
  /\ account[a].exists
  /\ Read(r, a, "saving", IF a \in Customers THEN "revoking" ELSE "idle",
          [account[a] EXCEPT !.active = FALSE], 0)

Activate(r, a) ==
  /\ account[a].exists
  /\ Read(r, a, "saving", "idle", [account[a] EXCEPT !.active = TRUE], 0)

\* A refresh reads the token first.  One that is revoked was used before.
RefreshToken(r, t) ==
  LET a == token[t].owner IN
  \/ token[t].state = "revoked" /\ Read(r, a, "reusing", "idle", NoOne, t)
  \/ /\ token[t].state = "live" /\ token[t].age = 0
     /\ Read(r, a, "rotating", "loading", NoOne, t)

-----------------------------------------------------------------------------
\* Their statements, one at a time.

GoTo(r, step) == [request EXCEPT ![r].step = step, ![r].then = "idle"]
Ended(r) == [request EXCEPT ![r] = Idle]
On(r, step) == IF step = "idle" THEN Ended(r) ELSE GoTo(r, step)

\* The account is in order, but after an overlap or before a revokeAllByUser.
Left(r) ==
  IF request[r].alone /\ request[r].then # "revoking" THEN mixed
  ELSE mixed \cup {request[r].account}

\* A second registration of an e-mail fails on its index.
InsertAccount(r) ==
  LET a == request[r].account IN
  /\ request[r].step = "inserting"
  /\ IF account[a].exists
     THEN request' = Ended(r) /\ UNCHANGED <<account, mixed>>
     ELSE /\ account' = [account EXCEPT ![a] = request[r].new]
          /\ request' = On(r, request[r].then)
          /\ mixed' = Left(r)
  /\ UNCHANGED token

SaveAccount(r) ==
  /\ request[r].step = "saving"
  /\ account' = [account EXCEPT ![request[r].account] = request[r].new]
  /\ request' = On(r, request[r].then)
  /\ mixed' = Left(r)
  /\ UNCHANGED token

\* Mutant: the newest session stays open.
RevokedButTheLast(S) ==
  [t \in Tokens |-> IF /\ t \in S /\ token[t].state = "live"
                       /\ \E n \in S : n > t /\ token[n].state = "live"
                    THEN [token[t] EXCEPT !.state = "revoked", !.age = 0] ELSE token[t]]

Revoked(S) ==
  [t \in Tokens |-> IF t \in S /\ token[t].state = "live"
                    THEN [token[t] EXCEPT !.state = "revoked", !.age = 0] ELSE token[t]]

OwnedBy(a) == {t \in Tokens : token[t].owner = a}

\* revokeAllByUser, the last statement of a suspension or a new password.
RevokeAll(r) ==
  LET a == request[r].account IN
  /\ request[r].step = "revoking"
  /\ token' = Revoked(OwnedBy(a))
  /\ request' = Ended(r)
  /\ mixed' = mixed \ {a}
  /\ UNCHANGED account

Logout(a) ==
  /\ Admitted(a)
  /\ \E t \in OwnedBy(a) : token[t].state = "live"
  /\ token' = Revoked(OwnedBy(a))
  /\ request' = Overlap(a)
  /\ mixed' = mixed \ {a}
  /\ UNCHANGED account

\* revokeByFamily: a token was used twice.
RevokeFamily(r) ==
  /\ request[r].step = "reusing"
  /\ token' = Revoked({t \in Tokens : token[t].first = token[request[r].token].first})
  /\ request' = Ended(r)
  /\ UNCHANGED <<account, mixed>>

\* Mutant: the entity is saved before it is revoked.
RotateSavedFirst(r) ==
  /\ request[r].step = "rotating"
  /\ token' = [token EXCEPT ![request[r].token].state = "live"]
  /\ request' = GoTo(r, "loading")
  /\ UNCHANGED <<account, mixed>>

\* The token is saved as revoked, and inserted so if it was cleaned up.
Rotate(r) ==
  /\ request[r].step = "rotating"
  /\ token' = [token EXCEPT ![request[r].token].state = "revoked",
                               ![request[r].token].age = 0]
  /\ request' = GoTo(r, "loading")
  /\ UNCHANGED <<account, mixed>>

LoadSubject(r) ==
  LET a == request[r].account IN
  /\ request[r].step = "loading"
  /\ request' = IF account[a].active THEN GoTo(r, "renewing") ELSE Ended(r)
  /\ UNCHANGED <<account, token, mixed>>

Issue(r, t, first, under, from) ==
  /\ token[t].state = "unused"
  /\ \A n \in 1..(t - 1) : token[n].state # "unused"
  /\ token' = [token EXCEPT ![t] =
       [state |-> "live", owner |-> request[r].account, first |-> first, age |-> 0,
        under |-> under, from |-> from]]
  /\ request' = Ended(r)
  /\ mixed' = Left(r)
  /\ UNCHANGED account

IssueToken(r, t) ==
  /\ request[r].step = "issuing"
  /\ Issue(r, t, t, request[r].new.password, 0)

\* Mutant: the family is not handed on.
RenewOrphan(r, t) ==
  LET old == token[request[r].token] IN
  /\ request[r].step = "renewing"
  /\ Issue(r, t, 0, old.under, request[r].token)

Renew(r, t) ==
  LET old == token[request[r].token] IN
  /\ request[r].step = "renewing"
  /\ Issue(r, t, old.first, old.under, request[r].token)

Crash(r) ==
  /\ request[r].step # "idle"
  /\ request' = Ended(r)
  /\ UNCHANGED <<account, token, mixed>>

-----------------------------------------------------------------------------
\* Time, and the weekly cleanup.

\* Tokens live equally long, so an older one expires first.
Age(t) ==
  /\ token[t].state = "live" /\ token[t].age < 2
  /\ \A n \in 1..(t - 1) : token[n].state = "live" => token[n].age > token[t].age
  /\ token' = [token EXCEPT ![t].age = @ + 1]
  /\ UNCHANGED <<account, request, mixed>>

\* is_revoked = true OR expires_at < NOW() - 7 days
Cleanable(t) ==
  token[t].state = "revoked" \/ (token[t].state = "live" /\ token[t].age = 2)

CleanUp ==
  /\ \E t \in Tokens : Cleanable(t)
  /\ token' = [t \in Tokens |->
       IF Cleanable(t) THEN [token[t] EXCEPT !.state = "deleted", !.age = 0] ELSE token[t]]
  /\ UNCHANGED <<account, request, mixed>>

-----------------------------------------------------------------------------
Asked(r) ==
  \/ \E a \in Accounts :
       \/ Login(r, a) \/ Register(r, a) \/ GoogleAuth(r, a)
       \/ StaffLogin(r, a) \/ StaffGoogleAuth(r, a)
       \/ ForgotPassword(r, a) \/ StaffForgotPassword(r, a)
       \/ UpdateCustomer(r, a) \/ UpdateCustomerProfile(r, a) \/ StaffUpdateProfile(r, a)
       \/ ResetPassword(r, a) \/ StaffResetPassword(r, a)
       \/ ChangeCustomerPassword(r, a) \/ StaffChangePassword(r, a)
       \/ Suspend(r, a) \/ Activate(r, a)
  \/ \E t \in Tokens : RefreshToken(r, t)

Proceeds(r) ==
  \/ InsertAccount(r) \/ SaveAccount(r) \/ RevokeAll(r) \/ RevokeFamily(r)
  \/ Rotate(r) \/ LoadSubject(r)
  \/ \E t \in Tokens : IssueToken(r, t) \/ Renew(r, t)

Next ==
  \/ \E r \in Requests : Asked(r) \/ Proceeds(r) \/ Crash(r)
  \/ \E a \in Accounts : Logout(a)
  \/ \E t \in Tokens : Age(t)
  \/ CleanUp

Spec == Init /\ [][Next]_vars

-----------------------------------------------------------------------------
\* A refresh token and the one issued in its place never both live, even when
\* it is refreshed twice at once, or cleaned up during its refresh.
RotatedNotLive ==
  \A t \in Tokens :
    token[t].state = "live" /\ token[t].from # 0 => token[token[t].from].state # "live"

\* A session that is live was opened under the account's password, and a
\* customer's only while the customer is active: unless requests on the account
\* overlapped, or one is, or died, between its save and its revokeAllByUser,
\* since its sessions were last all revoked.
SessionsCurrent ==
  \A t \in Tokens :
    LET a == token[t].owner IN
    token[t].state = "live" /\ a \notin mixed =>
      /\ token[t].under = account[a].password
      /\ a \in Customers => account[a].active

\* A refresh token that was revoked, or cleaned up, is never good again: a
\* rotation that read it before saves it whole, and inserts it again.
RevokedStays ==
  [][\A t \in Tokens : token[t].state \in {"revoked", "deleted"} => token'[t].state # "live"]_vars
=============================================================================
