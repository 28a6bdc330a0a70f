--------------------------- MODULE AccountsProofs ---------------------------
(***************************************************************************)
(* The sessions, the staff and the address books, for every set of         *)
(* accounts, members, customers and requests in flight, and any number of  *)
(* tokens and passwords; then the three composed.                          *)
(***************************************************************************)
EXTENDS MCAccounts, FiniteSetTheorems, TLAPS

\* The refresh tokens: a token that was revoked stays so, and a token and the
\* one issued in its place never both live.

Gone == {"revoked", "deleted"}

\* What a request holds: of a token it has saved as revoked, that it is gone.
Holds(r) ==
  /\ request[r].step \in {"inserting", "saving"} =>
       request[r].then \in {"idle", "issuing", "revoking"}
  /\ request[r].step # "idle" => request[r].account \in Accounts
  /\ request[r].step \in {"reusing", "rotating", "loading", "renewing"} =>
       request[r].token \in Tokens /\ token[request[r].token].state # "unused"
  /\ request[r].step \in {"loading", "renewing"} => token[request[r].token].state \in Gone

\* Tokens are issued in order, and in the place of one that is gone.
TokensInOrder ==
  /\ \A t, n \in Tokens :
       t < n /\ token[n].state # "unused" => token[t].state # "unused"
  /\ \A t \in Tokens : token[t].state # "unused" /\ token[t].from # 0 =>
       token[t].from \in Tokens /\ token[token[t].from].state \in Gone

SessionsInv == TypeOK /\ (\A r \in Requests : Holds(r)) /\ TokensInOrder

-----------------------------------------------------------------------------
\* The requests.

\* A use case that has only read is about to execute its first statement.
Begun(q) ==
  /\ q \in Request /\ q.account \in Accounts
  /\ \/ q.step \in {"inserting", "saving", "issuing"} /\ q.then \in {"idle", "issuing", "revoking"}
     \/ /\ q.step \in {"reusing", "rotating"}
        /\ q.token \in Tokens /\ token[q.token].state # "unused"

\* Two requests that differ in whether they ran alone.
SameButAlone(p, q) ==
  /\ p.step = q.step /\ p.then = q.then /\ p.account = q.account
  /\ p.new = q.new /\ p.token = q.token

\* A request of another on the same account only tells it that it is not alone.
LEMMA OverlapKeeps ==
  ASSUME TypeOK, NEW a
  PROVE  /\ Overlap(a) \in [Requests -> Request]
         /\ \A x \in Requests : SameButAlone(Overlap(a)[x], request[x])
<1>1. ASSUME NEW x \in Requests
      PROVE  LET q == [request[x] EXCEPT !.alone = @ /\ request[x].account # a]
             IN  q \in Request /\ SameButAlone(q, request[x])
  <2>1. request[x] \in Request
    BY DEF TypeOK
  <2>2. (request[x].alone /\ request[x].account # a) \in BOOLEAN
    OBVIOUS
  <2>3. QED
    BY <2>1, <2>2 DEF Request, SameButAlone
<1>2. QED
  BY <1>1 DEF Overlap

LEMMA OverlapAlone ==
  ASSUME TypeOK, NEW a, NEW x \in Requests
  PROVE  Overlap(a)[x].alone => request[x].alone /\ request[x].account # a
<1>1. request[x] \in Request
  BY DEF TypeOK
<1>2. PICK b : b = (request[x].alone /\ request[x].account # a)
  OBVIOUS
<1>3. Overlap(a)[x] = [request[x] EXCEPT !.alone = b]
  BY <1>2 DEF Overlap
<1>4. QED
  BY <1>1, <1>2, <1>3 DEF Request

\* Reading changes this request, and of the others nothing they act on.
LEMMA ReadBegins ==
  ASSUME TypeOK, NEW r \in Requests, NEW a \in Accounts, NEW step \in Steps, NEW then \in Steps,
         NEW new \in Account, NEW t \in 0..MaxTokens, Read(r, a, step, then, new, t),
         \/ step \in {"inserting", "saving", "issuing"} /\ then \in {"idle", "issuing", "revoking"}
         \/ step \in {"reusing", "rotating"} /\ t \in Tokens /\ token[t].state # "unused"
  PROVE  /\ request' \in [Requests -> Request]
         /\ Begun(request'[r])
         /\ \A x \in Requests \ {r} : SameButAlone(request'[x], request[x])
         /\ UNCHANGED <<account, token, mixed>>
<1> DEFINE q == [step |-> step, then |-> then, account |-> a, new |-> new, token |-> t,
                 alone |-> \A x \in Requests : request[x].account # a]
<1>1. (\A x \in Requests : request[x].account # a) \in BOOLEAN
  OBVIOUS
<1>2. q \in Request /\ q.account = a /\ q.step = step /\ q.then = then /\ q.token = t
  BY <1>1 DEF Request
<1>3. Begun(q)
  BY <1>2 DEF Begun
<1>4. request' = [Overlap(a) EXCEPT ![r] = q] /\ UNCHANGED <<account, token, mixed>>
  BY DEF Read
<1> HIDE DEF q
<1>5. request'[r] = q /\ \A x \in Requests \ {r} : request'[x] = Overlap(a)[x]
  BY <1>4, OverlapKeeps
<1>6. request' \in [Requests -> Request]
  BY <1>2, <1>4, OverlapKeeps
<1>7. QED
  BY <1>3, <1>4, <1>5, <1>6, OverlapKeeps

\* Every use case begins with reads, and goes on to its first statement.
LEMMA AskedReads ==
  ASSUME TypeOK, NEW r \in Requests, Asked(r)
  PROVE  /\ request' \in [Requests -> Request]
         /\ Begun(request'[r])
         /\ \A x \in Requests \ {r} : SameButAlone(request'[x], request[x])
         /\ UNCHANGED <<account, token, mixed>>
<1> USE SessionsAssumption
<1> DEFINE Result == /\ request' \in [Requests -> Request]
                     /\ Begun(request'[r])
                     /\ \A x \in Requests \ {r} : SameButAlone(request'[x], request[x])
                     /\ UNCHANGED <<account, token, mixed>>
<1>1. NoOne \in Account /\ Opened \in Account /\ 0 \in 0..MaxTokens
  BY DEF NoOne, Opened, Account
<1>2. \A a \in Accounts : account[a] \in Account
  BY DEF TypeOK
<1>3. \A a \in Accounts : [account[a] EXCEPT !.active = FALSE] \in Account
                          /\ [account[a] EXCEPT !.active = TRUE] \in Account
  BY <1>2 DEF Account
<1>4. ASSUME NEW a \in Accounts, account[a].password < MaxPassword
      PROVE  [account[a] EXCEPT !.password = @ + 1] \in Account
  BY <1>2, <1>4 DEF Account
<1>5. ASSUME NEW a \in Accounts, NEW step \in {"inserting", "saving", "issuing"},
             NEW then \in {"idle", "issuing", "revoking"}, NEW new \in Account,
             Read(r, a, step, then, new, 0)
      PROVE  Result
  <2>1. step \in Steps /\ then \in Steps
    BY DEF Steps
  <2>2. QED
    BY <1>1, <1>5, <2>1, ReadBegins
<1>6. ASSUME NEW a \in Accounts,
             \/ SignIn(r, a) \/ Register(r, a) \/ GoogleAuth(r, a) \/ SaveAsRead(r, a)
             \/ Suspend(r, a) \/ Activate(r, a)
      PROVE  Result
  <2>1. \E step \in {"inserting", "saving", "issuing"}, then \in {"idle", "issuing", "revoking"},
           new \in Account : Read(r, a, step, then, new, 0)
    BY <1>1, <1>2, <1>3, <1>6 DEF SignIn, Login, Register, GoogleAuth, SaveAsRead, Suspend, Activate
  <2>2. QED
    BY <1>5, <2>1
<1>7. ASSUME NEW a \in Accounts, NewPassword(r, a)
      PROVE  Result
  BY <1>4, <1>5, <1>7 DEF NewPassword
<1>8. ASSUME NEW t \in Tokens, RefreshToken(r, t)
      PROVE  Result
  <2>1. token[t].state # "unused" /\ t \in 0..MaxTokens
    BY <1>8 DEF RefreshToken, Tokens
  <2>2. token[t].owner \in Accounts
    BY <2>1 DEF TypeOK
  <2>3. \/ Read(r, token[t].owner, "reusing", "idle", NoOne, t)
        \/ Read(r, token[t].owner, "rotating", "loading", NoOne, t)
    BY <1>8 DEF RefreshToken
  <2>4. {"reusing", "rotating", "idle", "loading"} \subseteq Steps
    BY DEF Steps
  <2>5. CASE Read(r, token[t].owner, "reusing", "idle", NoOne, t)
    BY <1>1, <2>1, <2>2, <2>4, <2>5, ReadBegins
  <2>6. CASE Read(r, token[t].owner, "rotating", "loading", NoOne, t)
    BY <1>1, <2>1, <2>2, <2>4, <2>6, ReadBegins
  <2>7. QED
    BY <2>3, <2>5, <2>6
<1>9. \/ \E a \in Accounts :
            \/ SignIn(r, a) \/ Register(r, a) \/ GoogleAuth(r, a) \/ SaveAsRead(r, a)
            \/ Suspend(r, a) \/ Activate(r, a)
      \/ \E a \in Accounts : NewPassword(r, a)
      \/ \E t \in Tokens : RefreshToken(r, t)
  BY DEF Asked, Login, StaffLogin, StaffGoogleAuth, ForgotPassword, StaffForgotPassword,
    UpdateCustomer, UpdateCustomerProfile, StaffUpdateProfile, ResetPassword,
    StaffResetPassword, ChangeCustomerPassword, StaffChangePassword
<1>10. QED
  BY <1>6, <1>7, <1>8, <1>9

\* The statements move their own request on, or end it.
LEMMA RequestMoves ==
  ASSUME TypeOK, NEW r \in Requests, NEW step \in Steps
  PROVE  /\ Idle \in Request
         /\ Ended(r) \in [Requests -> Request] /\ Ended(r)[r].step = "idle"
         /\ GoTo(r, step) \in [Requests -> Request]
         /\ GoTo(r, step)[r].step = step /\ GoTo(r, step)[r].then = "idle"
         /\ GoTo(r, step)[r].account = request[r].account
         /\ GoTo(r, step)[r].token = request[r].token
         /\ GoTo(r, step)[r].new = request[r].new /\ GoTo(r, step)[r].alone = request[r].alone
         /\ \A x \in Requests \ {r} : Ended(r)[x] = request[x] /\ GoTo(r, step)[x] = request[x]
<1>1. Idle \in Request /\ Idle.step = "idle"
  BY SessionsAssumption DEF Idle, Request, Steps, NoOne, Account
<1>2. request \in [Requests -> Request] /\ "idle" \in Steps
  BY DEF TypeOK, Steps
<1>3. /\ Ended(r) \in [Requests -> Request] /\ Ended(r)[r] = Idle
      /\ \A x \in Requests \ {r} : Ended(r)[x] = request[x]
  BY <1>1, <1>2 DEF Ended
<1>4. [request[r] EXCEPT !.step = step, !.then = "idle"] \in Request
  BY <1>2 DEF Request
<1>5. GoTo(r, step) = [request EXCEPT ![r] = [request[r] EXCEPT !.step = step, !.then = "idle"]]
  BY <1>2 DEF GoTo, Request
<1>6. QED
  BY <1>1, <1>2, <1>3, <1>4, <1>5 DEF Request

-----------------------------------------------------------------------------
\* The tokens.

\* A token gets nearer to its end, and keeps what it was issued with.
Ages(t) ==
  /\ token[t].state = "unused" <=> token'[t].state = "unused"
  /\ token[t].state \in Gone => token'[t].state \in Gone
  /\ token'[t].owner = token[t].owner /\ token'[t].first = token[t].first
  /\ token'[t].from = token[t].from /\ token'[t].under = token[t].under

\* Written or not, a token never becomes unused or good again.
Onward == \A t \in Tokens :
  /\ token[t].state # "unused" => token'[t].state # "unused" /\ token'[t].under = token[t].under
  /\ token[t].state \in Gone => token'[t].state \in Gone

TokensTyped ==
  /\ token \in [Tokens -> Token]
  /\ \A t \in Tokens : token[t].state # "unused" =>
       token[t].owner \in Accounts /\ token[t].first \in 1..t /\ token[t].from < t

LEMMA AgingKeeps ==
  ASSUME TokensTyped, TokensInOrder, token' \in [Tokens -> Token], \A t \in Tokens : Ages(t)
  PROVE  TokensTyped' /\ TokensInOrder' /\ Onward
<1>1. TokensTyped'
  BY DEF TokensTyped, Ages
<1>2. Onward
  BY DEF Ages, Onward
<1>3. ASSUME NEW t \in Tokens, NEW n \in Tokens, t < n, token'[n].state # "unused"
      PROVE  token'[t].state # "unused"
  BY <1>3 DEF TokensInOrder, Ages
<1>4. ASSUME NEW t \in Tokens, token'[t].state # "unused", token'[t].from # 0
      PROVE  token'[t].from \in Tokens /\ token'[token'[t].from].state \in Gone
  BY <1>4 DEF TokensInOrder, Ages
<1>5. QED
  BY <1>1, <1>2, <1>3, <1>4 DEF TokensInOrder

LEMMA UnchangedAges ==
  ASSUME token \in [Tokens -> Token], UNCHANGED token
  PROVE  token' \in [Tokens -> Token] /\ \A t \in Tokens : Ages(t)
BY DEF Ages

\* Writing a token's state and age leaves what it was issued with.
LEMMA TokenWritten ==
  ASSUME NEW k \in Token, NEW state \in {"revoked", "deleted"}
  PROVE  LET n == [k EXCEPT !.state = state, !.age = 0]
         IN  n \in Token /\ n.state = state /\ n.owner = k.owner
             /\ n.first = k.first /\ n.from = k.from /\ n.under = k.under
<1> DEFINE m == [k EXCEPT !.state = state]
           n == [m EXCEPT !.age = 0]
<1>1. /\ m \in Token /\ m.state = state /\ m.owner = k.owner
      /\ m.first = k.first /\ m.from = k.from /\ m.under = k.under
  BY DEF Token
<1> HIDE DEF m
<1>2. /\ n \in Token /\ n.state = m.state /\ n.owner = m.owner
      /\ n.first = m.first /\ n.from = m.from /\ n.under = m.under
  BY <1>1 DEF Token
<1>3. QED
  BY <1>1, <1>2, Zenon DEF m

LEMMA RevokedAges ==
  ASSUME token \in [Tokens -> Token], NEW S, token' = Revoked(S)
  PROVE  token' \in [Tokens -> Token] /\ \A t \in Tokens : Ages(t)
<1>1. ASSUME NEW t \in Tokens
      PROVE  LET n == [token[t] EXCEPT !.state = "revoked", !.age = 0]
             IN  n \in Token /\ n.state = "revoked" /\ n.owner = token[t].owner
                 /\ n.first = token[t].first /\ n.from = token[t].from /\ n.under = token[t].under
  BY TokenWritten
<1>2. QED
  BY <1>1 DEF Revoked, Ages, Gone

LEMMA RotatedAges ==
  ASSUME token \in [Tokens -> Token], NEW t \in Tokens, token[t].state # "unused",
         token' = [token EXCEPT ![t].state = "revoked", ![t].age = 0]
  PROVE  /\ token' \in [Tokens -> Token] /\ \A n \in Tokens : Ages(n)
         /\ token'[t].state \in Gone
<1> DEFINE n == [token[t] EXCEPT !.state = "revoked", !.age = 0]
<1>1. n \in Token /\ n.state = "revoked" /\ n.owner = token[t].owner
      /\ n.first = token[t].first /\ n.from = token[t].from /\ n.under = token[t].under
  BY TokenWritten
<1>2. token' = [token EXCEPT ![t] = n]
  OBVIOUS
<1> HIDE DEF n
<1>3. QED
  BY <1>1, <1>2 DEF Ages, Gone

LEMMA OlderAges ==
  ASSUME token \in [Tokens -> Token], NEW t \in Tokens, Age(t)
  PROVE  token' \in [Tokens -> Token] /\ \A n \in Tokens : Ages(n)
<1> DEFINE n == [token[t] EXCEPT !.age = @ + 1]
<1>1. n \in Token /\ n.state = token[t].state /\ n.owner = token[t].owner
      /\ n.first = token[t].first /\ n.from = token[t].from /\ n.under = token[t].under
  <2>1. token[t] \in Token /\ token[t].age \in 0..2 /\ token[t].age < 2
    BY DEF Age, Token
  <2>2. QED
    BY <2>1 DEF Token
<1>2. token' = [token EXCEPT ![t] = n]
  BY DEF Age
<1> HIDE DEF n
<1>3. QED
  BY <1>1, <1>2 DEF Ages

LEMMA CleanedUpAges ==
  ASSUME token \in [Tokens -> Token], CleanUp
  PROVE  token' \in [Tokens -> Token] /\ \A t \in Tokens : Ages(t)
<1>1. ASSUME NEW t \in Tokens
      PROVE  LET n == [token[t] EXCEPT !.state = "deleted", !.age = 0]
             IN  n \in Token /\ n.state = "deleted" /\ n.owner = token[t].owner
                 /\ n.first = token[t].first /\ n.from = token[t].from /\ n.under = token[t].under
  BY TokenWritten
<1>2. QED
  BY <1>1 DEF CleanUp, Cleanable, Ages, Gone

\* A token is issued behind all others; one renewed, behind the one it
\* replaces, which its request has seen gone.
LEMMA IssuedKeeps ==
  ASSUME TypeOK, TokensInOrder, NEW r \in Requests, Holds(r), NEW t \in Tokens,
         IssueToken(r, t) \/ Renew(r, t)
  PROVE  TokensTyped' /\ TokensInOrder' /\ Onward
<1> USE SessionsAssumption
<1>1. request[r] \in Request /\ token \in [Tokens -> Token] /\ Tokens \subseteq 1..MaxTokens
  BY DEF TypeOK, Tokens
<1>2. request[r].account \in Accounts
  BY DEF Holds, IssueToken, Renew
<1>3. PICK first \in 1..t, under \in 0..MaxPassword, from \in 0..(t - 1) :
        /\ Issue(r, t, first, under, from)
        /\ from # 0 => from \in Tokens /\ token[from].state \in Gone
  <2>1. CASE IssueToken(r, t)
    <3>1. request[r].new.password \in 0..MaxPassword
      BY <1>1 DEF Request, Account
    <3>2. t \in 1..t /\ 0 \in 0..(t - 1)
      BY <1>1
    <3>3. QED
      BY <2>1, <3>1, <3>2 DEF IssueToken
  <2>2. CASE Renew(r, t)
    <3> DEFINE n == request[r].token
    <3>1. n \in Tokens /\ token[n].state \in Gone /\ token[n].state # "unused"
      BY <2>2 DEF Renew, Holds, Gone
    <3>2. token[t].state = "unused"
      BY <2>2 DEF Renew, Issue
    <3> HIDE DEF n
    <3>3. n \in 0..(t - 1)
      <4>1. n # t /\ ~(t < n)
        BY <3>1, <3>2 DEF TokensInOrder
      <4>2. n \in Int /\ t \in Int /\ n >= 1
        BY <1>1, <3>1
      <4>3. QED
        BY <4>1, <4>2
    <3>4. token[n].first \in 1..n /\ token[n].under \in 0..MaxPassword
      BY <1>1, <3>1 DEF TypeOK, Token
    <3>5. token[n].first \in 1..t
      BY <1>1, <3>1, <3>3, <3>4
    <3>6. Issue(r, t, token[n].first, token[n].under, n)
      BY <2>2 DEF Renew, n
    <3>7. QED
      BY <3>1, <3>3, <3>4, <3>5, <3>6
  <2>3. QED
    BY <2>1, <2>2
<1> DEFINE q == [state |-> "live", owner |-> request[r].account, first |-> first, age |-> 0,
                 under |-> under, from |-> from]
<1>4. q \in Token /\ q.state = "live" /\ q.owner = request[r].account
      /\ q.first = first /\ q.from = from
  <2>1. first \in 0..MaxTokens /\ from \in 0..MaxTokens
    BY <1>1
  <2>2. QED
    BY <1>2, <2>1 DEF Token
<1>5. /\ token' = [token EXCEPT ![t] = q] /\ token[t].state = "unused"
      /\ \A n \in 1..(t - 1) : token[n].state # "unused"
  BY <1>3 DEF Issue
<1> HIDE DEF q
<1>6. token' \in [Tokens -> Token] /\ token'[t] = q
      /\ \A n \in Tokens \ {t} : token'[n] = token[n]
  BY <1>1, <1>4, <1>5
<1>7. TokensTyped'
  <2>1. from < t
    BY <1>1
  <2>2. QED
    BY <1>2, <1>4, <1>6, <2>1 DEF TypeOK, TokensTyped
<1>8. Onward
  BY <1>4, <1>5, <1>6 DEF Onward, Gone
<1>9. ASSUME NEW m \in Tokens, NEW n \in Tokens, m < n, token'[n].state # "unused"
      PROVE  token'[m].state # "unused"
  <2>1. CASE n = t
    BY <1>1, <1>5, <1>6, <1>9, <2>1
  <2>2. CASE n # t
    BY <1>4, <1>6, <1>9, <2>2 DEF TokensInOrder
  <2>3. QED
    BY <2>1, <2>2
<1>10. ASSUME NEW m \in Tokens, token'[m].state # "unused", token'[m].from # 0
       PROVE  token'[m].from \in Tokens /\ token'[token'[m].from].state \in Gone
  <2>1. token'[m].from \in Tokens /\ token[token'[m].from].state \in Gone
    BY <1>3, <1>4, <1>6, <1>10 DEF TokensInOrder
  <2>2. QED
    BY <1>8, <2>1 DEF Onward
<1>11. QED
  BY <1>7, <1>8, <1>9, <1>10 DEF TokensInOrder

-----------------------------------------------------------------------------
\* What a step does.

\* The account, the requests and the auxiliary set stay well typed.
RowsTyped ==
  /\ account \in [Accounts -> Account]
  /\ request \in [Requests -> Request]
  /\ mixed \subseteq Accounts

LEMMA Types == TypeOK <=> RowsTyped /\ TokensTyped
BY DEF TypeOK, RowsTyped, TokensTyped

\* Request x is as it was but for alone; it holds what it held while tokens
\* only go onward.
LEMMA OnwardHolds ==
  ASSUME NEW x \in Requests, Holds(x), Onward, SameButAlone(request'[x], request[x])
  PROVE  Holds(x)'
BY DEF Holds, Onward, SameButAlone

LEMMA AskedPreserves ==
  ASSUME SessionsInv, NEW r \in Requests, Asked(r)
  PROVE  SessionsInv' /\ Onward
<1>1. /\ request' \in [Requests -> Request] /\ Begun(request'[r])
      /\ \A x \in Requests \ {r} : SameButAlone(request'[x], request[x])
      /\ UNCHANGED <<account, token, mixed>>
  BY AskedReads DEF SessionsInv
<1>2. TokensTyped' /\ TokensInOrder' /\ Onward
  BY <1>1, Types, UnchangedAges, AgingKeeps DEF SessionsInv, TokensTyped
<1>3. RowsTyped'
  BY <1>1, Types DEF SessionsInv, RowsTyped
<1>4. Holds(r)'
  BY <1>1 DEF Begun, Holds
<1>5. ASSUME NEW x \in Requests \ {r}
      PROVE  Holds(x)'
  BY <1>1, <1>2, OnwardHolds DEF SessionsInv
<1>6. TypeOK'
  BY <1>2, <1>3 DEF TypeOK, RowsTyped, TokensTyped
<1>7. QED
  BY <1>2, <1>4, <1>5, <1>6 DEF SessionsInv

\* A request that ends, or goes on to a statement it holds enough for.
LEMMA MovedHolds ==
  ASSUME SessionsInv, NEW r \in Requests, Onward,
         \/ request' = Ended(r)
         \/ \E step \in {"revoking", "issuing", "loading", "renewing"} :
              /\ request' = GoTo(r, step) /\ request[r].step # "idle"
              /\ step \in {"loading", "renewing"} =>
                   request[r].token \in Tokens /\ token'[request[r].token].state \in Gone
  PROVE  request' \in [Requests -> Request] /\ \A x \in Requests : Holds(x)'
<1>1. TypeOK /\ \A x \in Requests : Holds(x)
  BY DEF SessionsInv
<1>2. ASSUME NEW x \in Requests, request'[x] = request[x]
      PROVE  Holds(x)'
  BY <1>1, <1>2, OnwardHolds DEF SameButAlone
<1>3. CASE request' = Ended(r)
  <2>1. "idle" \in Steps
    BY DEF Steps
  <2>2. request' \in [Requests -> Request] /\ request'[r].step = "idle"
        /\ \A x \in Requests \ {r} : request'[x] = request[x]
    BY <1>1, <1>3, <2>1, RequestMoves
  <2>3. Holds(r)'
    BY <2>2 DEF Holds
  <2>4. QED
    BY <1>2, <2>2, <2>3
<1>4. ASSUME NEW step \in {"revoking", "issuing", "loading", "renewing"},
             request' = GoTo(r, step), request[r].step # "idle",
             step \in {"loading", "renewing"} =>
               request[r].token \in Tokens /\ token'[request[r].token].state \in Gone
      PROVE  request' \in [Requests -> Request] /\ \A x \in Requests : Holds(x)'
  <2>1. step \in Steps
    BY DEF Steps
  <2>2. /\ request' \in [Requests -> Request] /\ request'[r].step = step
        /\ request'[r].account = request[r].account /\ request'[r].token = request[r].token
        /\ \A x \in Requests \ {r} : request'[x] = request[x]
    BY <1>1, <1>4, <2>1, RequestMoves
  <2>3. request[r].account \in Accounts
    BY <1>1, <1>4 DEF Holds
  <2>4. Holds(r)'
    BY <1>4, <2>2, <2>3 DEF Holds, Gone
  <2>5. QED
    BY <1>2, <2>2, <2>4
<1>5. QED
  BY <1>3, <1>4

\* On goes to the next statement of an insertion or a save.
LEMMA OnMoves ==
  ASSUME NEW r \in Requests, Holds(r), request[r].step \in {"inserting", "saving"}
  PROVE  \/ On(r, request[r].then) = Ended(r)
         \/ \E step \in {"revoking", "issuing"} : On(r, request[r].then) = GoTo(r, step)
BY DEF Holds, On

LEMMA ProceedsPreserves ==
  ASSUME SessionsInv, NEW r \in Requests, Proceeds(r) \/ Crash(r)
  PROVE  SessionsInv' /\ Onward
<1> USE SessionsAssumption
<1>1. TypeOK /\ RowsTyped /\ TokensTyped /\ TokensInOrder /\ Holds(r)
  BY Types DEF SessionsInv
<1>2. token \in [Tokens -> Token] /\ request[r] \in Request /\ request[r].new \in Account
  BY <1>1 DEF TokensTyped, RowsTyped, Request
<1>3. request[r].step # "idle"
  BY DEF Proceeds, Crash, InsertAccount, SaveAccount, RevokeAll, RevokeFamily, Rotate,
    LoadSubject, IssueToken, Renew
<1>4. request[r].account \in Accounts
  BY <1>1, <1>3 DEF Holds
<1>5. account' \in [Accounts -> Account] /\ mixed' \subseteq Accounts
  BY <1>1, <1>2, <1>4 DEF RowsTyped, Proceeds, Crash, InsertAccount, SaveAccount, RevokeAll,
    RevokeFamily, Rotate, LoadSubject, IssueToken, Renew, Issue, Left
<1>6. ASSUME Rotate(r)
      PROVE  /\ token' \in [Tokens -> Token] /\ \A n \in Tokens : Ages(n)
             /\ request[r].token \in Tokens /\ token'[request[r].token].state \in Gone
  <2>1. request[r].token \in Tokens /\ token[request[r].token].state # "unused"
    BY <1>1, <1>6 DEF Rotate, Holds
  <2>2. token' = [token EXCEPT ![request[r].token].state = "revoked",
                               ![request[r].token].age = 0]
    BY <1>6 DEF Rotate
  <2>3. QED
    BY <1>2, <2>1, <2>2, RotatedAges
<1>7. TokensTyped' /\ TokensInOrder' /\ Onward
  <2>1. CASE \/ InsertAccount(r) \/ SaveAccount(r) \/ LoadSubject(r) \/ Crash(r)
    <3>1. UNCHANGED token
      BY <2>1 DEF InsertAccount, SaveAccount, LoadSubject, Crash
    <3>2. QED
      BY <1>1, <1>2, <3>1, UnchangedAges, AgingKeeps
  <2>2. CASE RevokeAll(r) \/ RevokeFamily(r)
    <3>1. PICK S : token' = Revoked(S)
      BY <2>2 DEF RevokeAll, RevokeFamily
    <3>2. QED
      BY <1>1, <1>2, <3>1, RevokedAges, AgingKeeps
  <2>3. CASE Rotate(r)
    BY <1>1, <1>6, <2>3, AgingKeeps
  <2>4. CASE \E t \in Tokens : IssueToken(r, t) \/ Renew(r, t)
    BY <1>1, <2>4, IssuedKeeps
  <2>5. QED
    BY <2>1, <2>2, <2>3, <2>4 DEF Proceeds
<1>8. \/ request' = Ended(r)
      \/ \E step \in {"revoking", "issuing", "loading", "renewing"} :
           /\ request' = GoTo(r, step) /\ request[r].step # "idle"
           /\ step \in {"loading", "renewing"} =>
                request[r].token \in Tokens /\ token'[request[r].token].state \in Gone
  <2>1. CASE InsertAccount(r) \/ SaveAccount(r)
    BY <1>1, <1>3, <2>1, OnMoves DEF InsertAccount, SaveAccount
  <2>2. CASE RevokeAll(r) \/ RevokeFamily(r) \/ Crash(r)
    BY <2>2 DEF RevokeAll, RevokeFamily, Crash
  <2>3. CASE Rotate(r)
    BY <1>3, <1>6, <2>3 DEF Rotate
  <2>4. CASE LoadSubject(r)
    BY <1>1, <1>3, <2>4 DEF LoadSubject, Holds
  <2>5. CASE \E t \in Tokens : IssueToken(r, t) \/ Renew(r, t)
    BY <2>5 DEF IssueToken, Renew, Issue
  <2>6. QED
    BY <2>1, <2>2, <2>3, <2>4, <2>5 DEF Proceeds
<1>9. request' \in [Requests -> Request] /\ \A x \in Requests : Holds(x)'
  BY <1>7, <1>8, MovedHolds
<1>10. TypeOK'
  BY <1>5, <1>7, <1>9 DEF TypeOK, TokensTyped
<1>11. QED
  BY <1>7, <1>9, <1>10 DEF SessionsInv

LEMMA LogoutPreserves ==
  ASSUME SessionsInv, NEW a \in Accounts, Logout(a)
  PROVE  SessionsInv' /\ Onward
<1>1. TypeOK /\ RowsTyped /\ TokensTyped /\ TokensInOrder
  BY Types DEF SessionsInv
<1>2. token' = Revoked(OwnedBy(a)) /\ request' = Overlap(a) /\ mixed' = mixed \ {a}
      /\ UNCHANGED account
  BY DEF Logout
<1>3. TokensTyped' /\ TokensInOrder' /\ Onward
  BY <1>1, <1>2, RevokedAges, AgingKeeps DEF TokensTyped
<1>4. /\ request' \in [Requests -> Request]
      /\ \A x \in Requests : SameButAlone(request'[x], request[x])
  BY <1>1, <1>2, OverlapKeeps
<1>5. \A x \in Requests : Holds(x)'
  BY <1>3, <1>4, OnwardHolds DEF SessionsInv
<1>6. TypeOK'
  BY <1>1, <1>2, <1>3, <1>4 DEF TypeOK, RowsTyped, TokensTyped
<1>7. QED
  BY <1>3, <1>5, <1>6 DEF SessionsInv

\* Time and the cleanup; a step that changes nothing.
LEMMA AgingPreserves ==
  ASSUME SessionsInv, (\E t \in Tokens : Age(t)) \/ CleanUp \/ UNCHANGED vars
  PROVE  SessionsInv' /\ Onward
<1>1. TypeOK /\ RowsTyped /\ TokensTyped /\ TokensInOrder
  BY Types DEF SessionsInv
<1>2. UNCHANGED <<account, request, mixed>>
  BY DEF Age, CleanUp, vars
<1>3. token' \in [Tokens -> Token] /\ \A t \in Tokens : Ages(t)
  BY <1>1, OlderAges, CleanedUpAges, UnchangedAges DEF TokensTyped, vars
<1>4. TokensTyped' /\ TokensInOrder' /\ Onward
  BY <1>1, <1>3, AgingKeeps
<1>5. ASSUME NEW x \in Requests
      PROVE  Holds(x)'
  BY <1>2, <1>4, OnwardHolds DEF SessionsInv, SameButAlone
<1>6. TypeOK'
  BY <1>1, <1>2, <1>4 DEF TypeOK, RowsTyped, TokensTyped
<1>7. QED
  BY <1>4, <1>5, <1>6 DEF SessionsInv

LEMMA SessionsStart == Init => SessionsInv
<1> USE SessionsAssumption
<1> SUFFICES ASSUME Init PROVE SessionsInv
  OBVIOUS
<1>1. Opened \in Account /\ NoOne \in Account
  BY DEF Opened, NoOne, Account
<1>2. Idle \in Request /\ Idle.step = "idle"
  BY <1>1 DEF Idle, Request, Steps
<1>3. Unused \in Token /\ Unused.state = "unused"
  BY DEF Unused, Token
<1>4. /\ account \in [Accounts -> Account]
      /\ token \in [Tokens -> Token] /\ \A t \in Tokens : token[t].state = "unused"
      /\ request \in [Requests -> Request] /\ \A r \in Requests : request[r].step = "idle"
      /\ mixed = {}
  BY <1>1, <1>2, <1>3 DEF Init
<1>5. TypeOK
  BY <1>4 DEF TypeOK
<1>6. QED
  BY <1>4, <1>5 DEF SessionsInv, Holds, TokensInOrder

LEMMA SessionsSteps == SessionsInv /\ [Next]_vars => SessionsInv' /\ Onward
BY AskedPreserves, ProceedsPreserves, LogoutPreserves, AgingPreserves DEF Next

LEMMA SessionsHold == Spec => []SessionsInv
BY SessionsStart, SessionsSteps, PTL DEF Spec

-----------------------------------------------------------------------------
\* What a request that runs alone has read is still so.

\* A session of this password may be open.
Current(a, password) == password = account[a].password /\ (a \in Customers => account[a].active)

\* What it will write, or issue a token under, fits the account.
Reads(q) ==
  /\ q.step = "saving" /\ q.then # "revoking" =>
       /\ q.new.password = account[q.account].password
       /\ q.account \in Customers /\ account[q.account].active => q.new.active
  /\ q.step = "issuing" => Current(q.account, q.new.password)
  /\ q.step \in {"rotating", "loading", "renewing"} /\ q.account \notin mixed =>
       Current(q.account, token[q.token].under)

\* Nobody else is on its account.
Apart(r) ==
  request[r].alone =>
    /\ \A x \in Requests \ {r} : request[x].account # request[r].account
    /\ Reads(request[r])

\* Only customers are inserted; a customer who signs in is active.
Formed(q) ==
  /\ q.alone => q.step # "idle"
  /\ q.step = "inserting" => q.account \in Customers /\ q.new = Opened /\ q.then = "issuing"
  /\ q.step = "saving" =>
       q.new.exists /\ (q.then = "issuing" /\ q.account \in Customers => q.new.active)

CurrentInv ==
  /\ \A r \in Requests : Formed(request[r]) /\ Apart(r)
  /\ \A a \in Accounts : account[a].active => account[a].exists
  /\ SessionsCurrent

\* A use case begins with what it has read just now.
LEMMA AskedMeans ==
  ASSUME SessionsInv, CurrentInv, NEW r \in Requests, Asked(r)
  PROVE  \E a \in Accounts, step \in Steps, then \in Steps, new \in Account, t \in 0..MaxTokens :
           /\ Read(r, a, step, then, new, t)
           /\ \A b \in BOOLEAN :
                LET q == [step |-> step, then |-> then, account |-> a, new |-> new, token |-> t,
                          alone |-> b]
                IN  Formed(q) /\ Reads(q)
<1> USE SessionsAssumption
<1> DEFINE Result(a, step, then, new, t) ==
             /\ Read(r, a, step, then, new, t)
             /\ \A b \in BOOLEAN :
                  LET q == [step |-> step, then |-> then, account |-> a, new |-> new, token |-> t,
                            alone |-> b]
                  IN  Formed(q) /\ Reads(q)
           Some == \E a \in Accounts, step \in Steps, then \in Steps, new \in Account,
                      t \in 0..MaxTokens : Result(a, step, then, new, t)
<1>1. /\ NoOne \in Account /\ Opened \in Account /\ 0 \in 0..MaxTokens
      /\ NoOne.exists = FALSE /\ Steps = {"idle", "inserting", "saving", "revoking", "issuing",
                                          "reusing", "rotating", "loading", "renewing"}
  BY DEF NoOne, Opened, Account, Steps, TypeOK, SessionsInv
<1>2. \A a \in Accounts : account[a] \in Account
  BY DEF TypeOK, SessionsInv
<1>3. ASSUME NEW a \in Accounts, SignIn(r, a)
      PROVE  Some
  <2>1. Result(a, "issuing", "idle", account[a], 0)
    BY <1>3 DEF SignIn, Formed, Reads, Current
  <2>2. QED
    BY <1>1, <1>2, <2>1
<1>4. ASSUME NEW a \in Accounts, Register(r, a)
      PROVE  Some
  <2>1. Result(a, "inserting", "issuing", Opened, 0)
    BY <1>4 DEF Register, Formed, Reads
  <2>2. QED
    BY <1>1, <2>1
<1>5. ASSUME NEW a \in Accounts, SaveAsRead(r, a)
      PROVE  Some
  <2>1. Result(a, "saving", "idle", account[a], 0)
    BY <1>5 DEF SaveAsRead, Formed, Reads
  <2>2. QED
    BY <1>1, <1>2, <2>1
<1>6. ASSUME NEW a \in Accounts, GoogleAuth(r, a)
      PROVE  Some
  <2>1. CASE account[a].exists /\ account[a].active /\ Read(r, a, "saving", "issuing", account[a], 0)
    <3>1. Result(a, "saving", "issuing", account[a], 0)
      BY <2>1 DEF Formed, Reads
    <3>2. QED
      BY <1>1, <1>2, <3>1
  <2>2. QED
    BY <1>3, <1>4, <1>6, <2>1 DEF GoogleAuth, Login
<1>7. ASSUME NEW a \in Accounts, NewPassword(r, a)
      PROVE  Some
  <2>1. PICK n : n = [account[a] EXCEPT !.password = @ + 1]
    OBVIOUS
  <2>2. n \in Account /\ n.exists
    BY <1>2, <1>7, <2>1 DEF NewPassword, Account
  <2>3. Result(a, "saving", "revoking", n, 0)
    BY <1>7, <2>1, <2>2 DEF NewPassword, Formed, Reads
  <2>4. QED
    BY <1>1, <2>2, <2>3
<1>8. ASSUME NEW a \in Accounts, Suspend(r, a)
      PROVE  Some
  <2>1. PICK n, then : n = [account[a] EXCEPT !.active = FALSE]
                       /\ then = IF a \in Customers THEN "revoking" ELSE "idle"
    OBVIOUS
  <2>2. n \in Account /\ n.exists /\ n.password = account[a].password
    BY <1>2, <1>8, <2>1 DEF Suspend, Account
  <2>3. Result(a, "saving", then, n, 0)
    BY <1>8, <2>1, <2>2 DEF Suspend, Formed, Reads
  <2>4. QED
    BY <1>1, <2>1, <2>2, <2>3
<1>9. ASSUME NEW a \in Accounts, Activate(r, a)
      PROVE  Some
  <2>1. PICK n : n = [account[a] EXCEPT !.active = TRUE]
    OBVIOUS
  <2>2. n \in Account /\ n.exists /\ n.active /\ n.password = account[a].password
    BY <1>2, <1>9, <2>1 DEF Activate, Account
  <2>3. Result(a, "saving", "idle", n, 0)
    BY <1>9, <2>1, <2>2 DEF Activate, Formed, Reads
  <2>4. QED
    BY <1>1, <2>2, <2>3
<1>10. ASSUME NEW t \in Tokens, RefreshToken(r, t)
       PROVE  Some
  <2>1. token[t].state # "unused" /\ t \in 0..MaxTokens
    BY <1>10 DEF RefreshToken, Tokens
  <2>2. token[t].owner \in Accounts
    BY <2>1 DEF TypeOK, SessionsInv
  <2>3. CASE Read(r, token[t].owner, "reusing", "idle", NoOne, t)
    <3>1. Result(token[t].owner, "reusing", "idle", NoOne, t)
      BY <2>3 DEF Formed, Reads
    <3>2. QED
      BY <1>1, <2>1, <2>2, <3>1
  <2>4. CASE token[t].state = "live" /\ Read(r, token[t].owner, "rotating", "loading", NoOne, t)
    <3>1. token[t].owner \notin mixed => Current(token[t].owner, token[t].under)
      BY <2>4 DEF CurrentInv, SessionsCurrent, Current
    <3>2. Result(token[t].owner, "rotating", "loading", NoOne, t)
      BY <2>4, <3>1 DEF Formed, Reads
    <3>3. QED
      BY <1>1, <2>1, <2>2, <3>2
  <2>5. QED
    BY <1>10, <2>3, <2>4 DEF RefreshToken
<1>11. \/ \E a \in Accounts :
            \/ SignIn(r, a) \/ Register(r, a) \/ GoogleAuth(r, a) \/ SaveAsRead(r, a)
            \/ NewPassword(r, a) \/ Suspend(r, a) \/ Activate(r, a)
       \/ \E t \in Tokens : RefreshToken(r, t)
  BY DEF Asked, Login, StaffLogin, StaffGoogleAuth, ForgotPassword, StaffForgotPassword,
    UpdateCustomer, UpdateCustomerProfile, StaffUpdateProfile, ResetPassword,
    StaffResetPassword, ChangeCustomerPassword, StaffChangePassword
<1>12. QED
  BY <1>3, <1>4, <1>5, <1>6, <1>7, <1>8, <1>9, <1>10, <1>11

\* A request that others leave apart still reads the account as it is.
LEMMA ApartStays ==
  ASSUME SessionsInv, CurrentInv, Onward, NEW x \in Requests, NEW a,
         SameButAlone(request'[x], request[x]),
         request'[x].alone => request[x].alone /\ request[x].account # a,
         \A y \in Requests \ {x} : request'[y].account \in {request[y].account, a, NoAccount},
         \A b \in Accounts \ {a} : account'[b] = account[b] /\ (b \in mixed => b \in mixed')
  PROVE  Formed(request[x])' /\ Apart(x)'
<1> USE SessionsAssumption
<1>1. Formed(request[x]) /\ Apart(x) /\ Holds(x) /\ TypeOK
  BY DEF SessionsInv, CurrentInv
<1>2. Formed(request[x])'
  BY <1>1 DEF Formed, SameButAlone
<1>3. SUFFICES ASSUME request'[x].alone PROVE Apart(x)'
  BY <1>2 DEF Apart
<1>4. PICK q : q = request[x]
  OBVIOUS
<1>5. /\ q.alone /\ q.step # "idle" /\ q.account \in Accounts /\ q.account # a
      /\ Reads(q) /\ \A y \in Requests \ {x} : request[y].account # q.account
  BY <1>1, <1>3, <1>4 DEF Formed, Holds, Apart
<1>6. \A y \in Requests \ {x} : request'[y].account # q.account
  BY <1>5 DEF Accounts
<1>7. account'[q.account] = account[q.account] /\ (q.account \in mixed => q.account \in mixed')
  BY <1>5
<1>8. q.step \in {"rotating", "loading", "renewing"} =>
        token'[q.token].under = token[q.token].under
  BY <1>1, <1>4 DEF Holds, Onward
<1>9. Reads(q)'
  BY <1>5, <1>7, <1>8 DEF Reads, Current
<1>10. Reads(request[x])'
  BY <1>4, <1>9 DEF Reads, Current, SameButAlone
<1>11. QED
  BY <1>4, <1>6, <1>10 DEF Apart, SameButAlone

\* A step that changes no account, and of the tokens only their age or state.
LEMMA SessionsStayCurrent ==
  ASSUME SessionsInv, CurrentInv, UNCHANGED account,
         \A t \in Tokens : Ages(t) \/ token'[t].state # "live",
         \A t \in Tokens : token'[t].state = "live" =>
           token[t].state = "live" /\ (token[t].owner \in mixed => token[t].owner \in mixed')
  PROVE  SessionsCurrent'
BY DEF CurrentInv, SessionsCurrent, Ages

LEMMA LiveStays ==
  ASSUME SessionsInv, SessionsInv', NEW t \in Tokens, Ages(t), token'[t].state = "live"
  PROVE  token[t].state = "live"
<1>1. token[t] \in Token /\ token'[t] \in Token
  BY DEF SessionsInv, TypeOK
<1>2. QED
  BY <1>1 DEF Ages, Gone, Token

\* A use case begins.
LEMMA AskedCurrent ==
  ASSUME SessionsInv, CurrentInv, NEW r \in Requests, Asked(r)
  PROVE  CurrentInv'
<1>1. SessionsInv' /\ Onward
  BY AskedPreserves
<1>2. PICK a \in Accounts, step \in Steps, then \in Steps, new \in Account, t \in 0..MaxTokens :
        /\ Read(r, a, step, then, new, t)
        /\ \A b \in BOOLEAN :
             LET q == [step |-> step, then |-> then, account |-> a, new |-> new, token |-> t,
                       alone |-> b]
             IN  Formed(q) /\ Reads(q)
  BY AskedMeans
<1>3. PICK b \in BOOLEAN : b = (\A x \in Requests : request[x].account # a)
  OBVIOUS
<1>4. PICK q : q = [step |-> step, then |-> then, account |-> a, new |-> new, token |-> t,
                    alone |-> b]
  OBVIOUS
<1>5. /\ request' = [Overlap(a) EXCEPT ![r] = q] /\ UNCHANGED <<account, token, mixed>>
      /\ q.account = a /\ q.alone = b /\ Formed(q) /\ Reads(q)
  BY <1>2, <1>3, <1>4 DEF Read
<1>6. /\ Overlap(a) \in [Requests -> Request]
      /\ \A x \in Requests : /\ SameButAlone(Overlap(a)[x], request[x])
                             /\ Overlap(a)[x].alone => request[x].alone /\ request[x].account # a
  BY OverlapKeeps, OverlapAlone DEF SessionsInv
<1>7. request'[r] = q /\ \A x \in Requests \ {r} : request'[x] = Overlap(a)[x]
  BY <1>5, <1>6
<1>8. ASSUME NEW x \in Requests \ {r}
      PROVE  Formed(request[x])' /\ Apart(x)'
  <2>1. \A y \in Requests \ {x} : request'[y].account \in {request[y].account, a, NoAccount}
    BY <1>5, <1>6, <1>7 DEF SameButAlone
  <2>2. QED
    BY <1>1, <1>5, <1>6, <1>7, <2>1, ApartStays
<1>9. Formed(request[r])' /\ Apart(r)'
  <2>1. b => \A x \in Requests \ {r} : request'[x].account # a
    BY <1>3, <1>6, <1>7 DEF SameButAlone
  <2>2. Reads(q)'
    BY <1>5 DEF Reads, Current
  <2>3. QED
    BY <1>5, <1>7, <2>1, <2>2 DEF Formed, Apart, Reads, Current
<1>10. QED
  BY <1>5, <1>8, <1>9 DEF CurrentInv, SessionsCurrent

\* A request executes a statement on its account, and goes on or ends.
LEMMA MovedApart ==
  ASSUME SessionsInv, CurrentInv, Onward, NEW r \in Requests,
         \/ request' = Ended(r)
         \/ /\ \E step \in {"revoking", "issuing", "loading", "renewing"} : request' = GoTo(r, step)
            /\ request[r].alone => Reads(request[r])',
         \A b \in Accounts \ {request[r].account} :
           account'[b] = account[b] /\ (b \in mixed => b \in mixed')
  PROVE  \A x \in Requests : Formed(request[x])' /\ Apart(x)'
<1>1. TypeOK /\ request \in [Requests -> Request]
  BY DEF SessionsInv, TypeOK
<1>2. Ended(r)[r] = Idle /\ Idle.account = NoAccount /\ Idle.alone = FALSE /\ Idle.step = "idle"
  BY <1>1 DEF Ended, Idle
<1>3. {"idle", "revoking", "issuing", "loading", "renewing"} \subseteq Steps
  BY DEF Steps
<1>4. /\ \A x \in Requests \ {r} : request'[x] = request[x]
      /\ request'[r].account \in {request[r].account, NoAccount}
      /\ request'[r].alone =>
           /\ request[r].alone /\ request'[r].account = request[r].account
           /\ Reads(request[r])'
      /\ request'[r].step \in {"idle", "revoking", "issuing", "loading", "renewing"}
      /\ request'[r].alone => request'[r].step # "idle"
  <2>1. CASE request' = Ended(r)
    BY <1>1, <1>2, <1>3, <2>1, RequestMoves
  <2>2. ASSUME NEW step \in {"revoking", "issuing", "loading", "renewing"},
               request' = GoTo(r, step), request[r].alone => Reads(request[r])'
        PROVE  /\ \A x \in Requests \ {r} : request'[x] = request[x]
               /\ request'[r].account = request[r].account
               /\ request'[r].alone = request[r].alone
               /\ request'[r].step = step
    BY <1>1, <1>3, <2>2, RequestMoves
  <2>3. QED
    BY <2>1, <2>2
<1>5. ASSUME NEW x \in Requests \ {r}
      PROVE  Formed(request[x])' /\ Apart(x)'
  <2>1. \A y \in Requests \ {x} :
          request'[y].account \in {request[y].account, request[r].account, NoAccount}
    BY <1>4
  <2>2. SameButAlone(request'[x], request[x])
    BY <1>4 DEF SameButAlone
  <2>3. CASE request[x].alone /\ request[x].account = request[r].account
    <3>1. request[r].account # request[x].account
      BY <2>3 DEF CurrentInv, Apart
    <3>2. QED
      BY <2>3, <3>1
  <2>4. CASE request[x].alone => request[x].account # request[r].account
    BY <1>4, <2>1, <2>2, <2>4, ApartStays
  <2>5. QED
    BY <2>3, <2>4
<1>6. Formed(request[r])' /\ Apart(r)'
  <2>1. request[r].alone => \A x \in Requests \ {r} : request[x].account # request[r].account
    BY DEF CurrentInv, Apart
  <2>2. QED
    BY <1>4, <2>1 DEF Formed, Apart
<1>7. QED
  BY <1>5, <1>6

\* The account is written.  It is in order if the request ran alone, and its
\* sessions stay open: they are under the password it had.
LEMMA WriteCurrent ==
  ASSUME SessionsInv, SessionsInv', Onward, CurrentInv, NEW r \in Requests,
         InsertAccount(r) \/ SaveAccount(r)
  PROVE  CurrentInv'
<1>1. PICK q, a : q = request[r] /\ a = q.account
  OBVIOUS
<1>2. /\ q \in Request /\ a \in Accounts /\ Formed(q) /\ Holds(r) /\ TypeOK
      /\ account \in [Accounts -> Account] /\ q.new \in Account
      /\ q.alone => Reads(q)
  BY <1>1 DEF SessionsInv, CurrentInv, Holds, InsertAccount, SaveAccount, TypeOK, Request, Apart
<1>3. CASE q.step = "inserting" /\ account[a].exists /\ InsertAccount(r)
  <2>1. request' = Ended(r) /\ UNCHANGED <<account, token, mixed>>
    BY <1>1, <1>3 DEF InsertAccount
  <2>2. \A x \in Requests : Formed(request[x])' /\ Apart(x)'
    BY <2>1, MovedApart
  <2>3. QED
    BY <2>1, <2>2 DEF CurrentInv, SessionsCurrent
<1>4. CASE ~(q.step = "inserting" /\ account[a].exists /\ InsertAccount(r))
  <2>1. /\ account' = [account EXCEPT ![a] = q.new] /\ request' = On(r, q.then)
        /\ mixed' = Left(r) /\ UNCHANGED token
        /\ q.step = "saving" \/ (q.step = "inserting" /\ ~account[a].exists)
    BY <1>1, <1>4 DEF InsertAccount, SaveAccount
  <2>2. account'[a] = q.new /\ \A b \in Accounts \ {a} : account'[b] = account[b]
    BY <1>2, <2>1
  <2>3. mixed' = IF q.alone /\ q.then # "revoking" THEN mixed ELSE mixed \cup {a}
    BY <1>1, <2>1 DEF Left
  <2>4. q.new.exists
    BY <1>2, <2>1 DEF Formed, Opened
  <2>5. a \notin mixed' =>
          /\ a \notin mixed /\ q.alone /\ q.then # "revoking"
          /\ q.step = "saving" => q.new.password = account[a].password
          /\ q.step = "saving" /\ a \in Customers /\ account[a].active => q.new.active
    BY <1>1, <1>2, <2>3 DEF Reads
  <2>6. SessionsCurrent'
    <3>1. ASSUME NEW t \in Tokens, token[t].state = "live", token[t].owner \notin mixed'
          PROVE  /\ token[t].under = account'[token[t].owner].password
                 /\ token[t].owner \in Customers => account'[token[t].owner].active
      <4>1. token[t].owner \in Accounts /\ token[t].owner \notin mixed
        BY <1>2, <2>3, <3>1 DEF TypeOK
      <4>2. /\ token[t].under = account[token[t].owner].password
            /\ token[t].owner \in Customers => account[token[t].owner].active
        BY <3>1, <4>1 DEF CurrentInv, SessionsCurrent
      <4>3. CASE token[t].owner # a
        BY <2>2, <4>1, <4>2, <4>3
      <4>4. CASE token[t].owner = a
        <5>1. CASE q.step = "saving"
          BY <2>2, <2>5, <3>1, <4>2, <4>4, <5>1
        <5>2. CASE q.step = "inserting" /\ ~account[a].exists
          <6>1. a \in Customers /\ ~account[a].active
            BY <1>1, <1>2, <5>2 DEF Formed, CurrentInv
          <6>2. QED
            BY <4>2, <4>4, <6>1
        <5>3. QED
          BY <2>1, <5>1, <5>2
      <4>5. QED
        BY <4>3, <4>4
    <3>2. QED
      BY <2>1, <3>1 DEF SessionsCurrent
  <2>7. \A b \in Accounts : account'[b].active => account'[b].exists
    BY <2>2, <2>4 DEF CurrentInv
  <2>8. \/ request' = Ended(r)
        \/ /\ \E step \in {"revoking", "issuing", "loading", "renewing"} : request' = GoTo(r, step)
           /\ request[r].alone => Reads(request[r])'
    <3>1. CASE q.then = "idle"
      BY <2>1, <3>1 DEF On
    <3>2. CASE q.then = "revoking"
      <4>1. request' = GoTo(r, "revoking") /\ "revoking" \in Steps
        BY <2>1, <3>2 DEF On, Steps
      <4>2. request'[r].step = "revoking"
        BY <1>2, <4>1, RequestMoves
      <4>3. QED
        BY <4>1, <4>2 DEF Reads
    <3>3. CASE q.then = "issuing"
      <4>1. request' = GoTo(r, "issuing") /\ "issuing" \in Steps
        BY <2>1, <3>3 DEF On, Steps
      <4>2. request'[r].step = "issuing" /\ request'[r].account = a /\ request'[r].new = q.new
        BY <1>1, <1>2, <4>1, RequestMoves
      <4>3. a \in Customers => q.new.active
        BY <1>1, <1>2, <2>1, <3>3 DEF Formed, Opened
      <4>4. Reads(request[r])'
        BY <2>2, <4>2, <4>3 DEF Reads, Current
      <4>5. QED
        BY <4>1, <4>4
    <3>4. QED
      BY <1>1, <1>2, <2>1, <3>1, <3>2, <3>3 DEF Holds
  <2>9. \A x \in Requests : Formed(request[x])' /\ Apart(x)'
    BY <1>1, <2>2, <2>3, <2>8, MovedApart
  <2>10. QED
    BY <2>6, <2>7, <2>9 DEF CurrentInv
<1>5. QED
  BY <1>3, <1>4

\* The sessions end: of the account, of a family, or at a rotation.
LEMMA EndCurrent ==
  ASSUME SessionsInv, SessionsInv', Onward, CurrentInv, NEW r \in Requests,
         RevokeAll(r) \/ RevokeFamily(r) \/ Rotate(r) \/ LoadSubject(r) \/ Crash(r)
  PROVE  CurrentInv'
<1>1. TypeOK /\ token \in [Tokens -> Token] /\ request[r] \in Request /\ Holds(r)
  BY DEF SessionsInv, TypeOK
<1>2. \A t \in Tokens : Ages(t)
  <2>1. ASSUME NEW S, token' = Revoked(S)
        PROVE  \A t \in Tokens : Ages(t)
    BY <1>1, <2>1, RevokedAges
  <2>2. CASE Rotate(r)
    <3>1. token' = [token EXCEPT ![request[r].token].state = "revoked",
                                 ![request[r].token].age = 0]
          /\ request[r].token \in Tokens /\ token[request[r].token].state # "unused"
      BY <1>1, <2>2 DEF Rotate, Holds
    <3>2. QED
      BY <1>1, <3>1, RotatedAges
  <2>3. QED
    BY <1>1, <2>1, <2>2, UnchangedAges DEF RevokeAll, RevokeFamily, LoadSubject, Crash
<1>3. \A t \in Tokens : token'[t].state = "live" => token[t].state = "live"
  BY <1>2, LiveStays
<1>4. SessionsCurrent'
  <2>1. CASE RevokeAll(r)
    <3>1. token' = Revoked(OwnedBy(request[r].account)) /\ mixed' = mixed \ {request[r].account}
          /\ UNCHANGED account
      BY <2>1 DEF RevokeAll
    <3>2. \A t \in Tokens : token'[t].state = "live" => token[t].owner # request[r].account
      <4>1. ASSUME NEW t \in Tokens, token[t].owner = request[r].account, token'[t].state = "live"
            PROVE  FALSE
        <5>1. token'[t] = [token[t] EXCEPT !.state = "revoked", !.age = 0]
          BY <1>3, <3>1, <4>1 DEF Revoked, OwnedBy
        <5>2. QED
          BY <1>1, <4>1, <5>1, TokenWritten
      <4>2. QED
        BY <4>1
    <3>3. QED
      BY <1>2, <1>3, <3>1, <3>2, SessionsStayCurrent
  <2>2. CASE ~RevokeAll(r)
    <3>1. UNCHANGED <<account, mixed>>
      BY <2>2 DEF RevokeFamily, Rotate, LoadSubject, Crash
    <3>2. QED
      BY <1>2, <1>3, <3>1, SessionsStayCurrent
  <2>3. QED
    BY <2>1, <2>2
<1>5. \A x \in Requests : Formed(request[x])' /\ Apart(x)'
  <2>1. \/ request' = Ended(r)
        \/ /\ request[r].step = "rotating" /\ request' = GoTo(r, "loading")
           /\ UNCHANGED <<account, mixed>>
        \/ /\ request[r].step = "loading" /\ request' = GoTo(r, "renewing")
           /\ UNCHANGED <<account, mixed>>
    BY DEF RevokeAll, RevokeFamily, Rotate, LoadSubject, Crash
  <2>2. ASSUME NEW step \in {"loading", "renewing"}, request' = GoTo(r, step),
               request[r].step \in {"rotating", "loading"}, UNCHANGED <<account, mixed>>,
               request[r].alone
        PROVE  Reads(request[r])'
    <3>1. /\ request'[r].step = step /\ request'[r].account = request[r].account
          /\ request'[r].token = request[r].token
      BY <1>1, <2>2, RequestMoves DEF Steps
    <3>2. request[r].token \in Tokens
      BY <1>1, <2>2 DEF Holds
    <3>3. Reads(request[r])
      BY <2>2 DEF CurrentInv, Apart
    <3>4. token'[request[r].token].under = token[request[r].token].under
      BY <1>2, <3>2 DEF Ages
    <3>5. QED
      BY <2>2, <3>1, <3>3, <3>4 DEF Reads, Current
  <2>3. \A b \in Accounts \ {request[r].account} :
          account'[b] = account[b] /\ (b \in mixed => b \in mixed')
    BY DEF RevokeAll, RevokeFamily, Rotate, LoadSubject, Crash
  <2>4. QED
    BY <2>1, <2>2, <2>3, MovedApart
<1>6. UNCHANGED account
  BY DEF RevokeAll, RevokeFamily, Rotate, LoadSubject, Crash
<1>7. QED
  BY <1>4, <1>5, <1>6 DEF CurrentInv

\* A token is issued under what an undisturbed request has read.
LEMMA IssueCurrent ==
  ASSUME SessionsInv, SessionsInv', Onward, CurrentInv, NEW r \in Requests, NEW t \in Tokens,
         IssueToken(r, t) \/ Renew(r, t)
  PROVE  CurrentInv'
<1>1. PICK q, a : q = request[r] /\ a = q.account
  OBVIOUS
<1>2. /\ q \in Request /\ TypeOK /\ token \in [Tokens -> Token]
      /\ q.alone => Reads(q)
  BY <1>1 DEF SessionsInv, CurrentInv, TypeOK, Apart
<1>3. PICK first, under, from :
        /\ Issue(r, t, first, under, from)
        /\ q.alone /\ a \notin mixed => Current(a, under)
  <2>1. CASE IssueToken(r, t)
    BY <1>1, <1>2, <2>1 DEF IssueToken, Reads
  <2>2. CASE Renew(r, t)
    BY <1>1, <1>2, <2>2 DEF Renew, Reads
  <2>3. QED
    BY <2>1, <2>2
<1>4. /\ token' = [token EXCEPT ![t] = [state |-> "live", owner |-> a, first |-> first, age |-> 0,
                                        under |-> under, from |-> from]]
      /\ request' = Ended(r) /\ UNCHANGED account
      /\ mixed' = IF q.alone /\ q.then # "revoking" THEN mixed ELSE mixed \cup {a}
  BY <1>1, <1>3 DEF Issue, Left
<1>5. /\ token'[t].owner = a /\ token'[t].under = under
      /\ \A n \in Tokens \ {t} : token'[n] = token[n]
  BY <1>2, <1>4
<1>6. SessionsCurrent'
  <2>1. a \notin mixed' => Current(a, under)
    BY <1>3, <1>4
  <2>2. ASSUME NEW n \in Tokens, token'[n].state = "live", token'[n].owner \notin mixed'
        PROVE  /\ token'[n].under = account[token'[n].owner].password
               /\ token'[n].owner \in Customers => account[token'[n].owner].active
    <3>1. CASE n = t
      BY <1>5, <2>1, <2>2, <3>1 DEF Current
    <3>2. CASE n # t
      BY <1>4, <1>5, <2>2, <3>2 DEF CurrentInv, SessionsCurrent
    <3>3. QED
      BY <3>1, <3>2
  <2>3. QED
    BY <1>4, <2>2 DEF SessionsCurrent
<1>7. \A x \in Requests : Formed(request[x])' /\ Apart(x)'
  BY <1>4, MovedApart
<1>8. QED
  BY <1>4, <1>6, <1>7 DEF CurrentInv

LEMMA LogoutCurrent ==
  ASSUME SessionsInv, SessionsInv', Onward, CurrentInv, NEW a \in Accounts, Logout(a)
  PROVE  CurrentInv'
<1>1. TypeOK /\ token \in [Tokens -> Token]
  BY DEF SessionsInv, TypeOK
<1>2. /\ token' = Revoked(OwnedBy(a)) /\ request' = Overlap(a) /\ mixed' = mixed \ {a}
      /\ UNCHANGED account
  BY DEF Logout
<1>3. \A t \in Tokens : Ages(t)
  BY <1>1, <1>2, RevokedAges
<1>4. \A t \in Tokens : token'[t].state = "live" =>
        token[t].state = "live" /\ token[t].owner # a
  <2>1. ASSUME NEW t \in Tokens, token[t].owner = a, token'[t].state = "live"
        PROVE  FALSE
    <3>1. token'[t] = [token[t] EXCEPT !.state = "revoked", !.age = 0]
      BY <1>2, <1>3, <2>1, LiveStays DEF Revoked, OwnedBy
    <3>2. QED
      BY <1>1, <2>1, <3>1, TokenWritten
  <2>2. QED
    BY <1>3, <2>1, LiveStays
<1>5. SessionsCurrent'
  BY <1>2, <1>3, <1>4, SessionsStayCurrent
<1>6. ASSUME NEW x \in Requests
      PROVE  Formed(request[x])' /\ Apart(x)'
  <2>1. /\ \A y \in Requests : SameButAlone(request'[y], request[y])
        /\ request'[x].alone => request[x].alone /\ request[x].account # a
    BY <1>1, <1>2, OverlapKeeps, OverlapAlone
  <2>2. \A y \in Requests \ {x} : request'[y].account \in {request[y].account, a, NoAccount}
    BY <2>1 DEF SameButAlone
  <2>3. QED
    BY <1>2, <2>1, <2>2, ApartStays
<1>7. QED
  BY <1>2, <1>5, <1>6 DEF CurrentInv

LEMMA AgingCurrent ==
  ASSUME SessionsInv, SessionsInv', Onward, CurrentInv,
         (\E t \in Tokens : Age(t)) \/ CleanUp \/ UNCHANGED vars
  PROVE  CurrentInv'
<1>1. TypeOK /\ token \in [Tokens -> Token]
  BY DEF SessionsInv, TypeOK
<1>2. UNCHANGED <<account, request, mixed>>
  BY DEF Age, CleanUp, vars
<1>3. \A t \in Tokens : Ages(t)
  BY <1>1, OlderAges, CleanedUpAges, UnchangedAges DEF vars
<1>4. \A t \in Tokens : token'[t].state = "live" => token[t].state = "live"
  BY <1>3, LiveStays
<1>5. SessionsCurrent'
  BY <1>2, <1>3, <1>4, SessionsStayCurrent
<1>6. ASSUME NEW x \in Requests
      PROVE  Formed(request[x])' /\ Apart(x)'
  BY <1>2, ApartStays, SessionsAssumption DEF SameButAlone, CurrentInv, Apart
<1>7. QED
  BY <1>2, <1>5, <1>6 DEF CurrentInv

LEMMA CurrentStarts == Init => CurrentInv
<1> SUFFICES ASSUME Init PROVE CurrentInv
  OBVIOUS
<1>1. /\ \A a \in Accounts : account[a].active => account[a].exists
      /\ \A t \in Tokens : token[t].state = "unused"
      /\ \A r \in Requests : request[r].step = "idle" /\ ~request[r].alone
  BY DEF Init, Opened, NoOne, Unused, Idle
<1>2. QED
  BY <1>1 DEF CurrentInv, Formed, Apart, SessionsCurrent

LEMMA CurrentSteps ==
  SessionsInv /\ SessionsInv' /\ CurrentInv /\ [Next]_vars => CurrentInv'
<1> SUFFICES ASSUME SessionsInv, SessionsInv', CurrentInv, [Next]_vars
             PROVE  CurrentInv'
  OBVIOUS
<1>1. Onward
  BY SessionsSteps
<1>2. ASSUME NEW r \in Requests, Asked(r) \/ Proceeds(r) \/ Crash(r)
      PROVE  CurrentInv'
  BY <1>1, <1>2, AskedCurrent, WriteCurrent, EndCurrent, IssueCurrent DEF Proceeds
<1>3. QED
  BY <1>1, <1>2, LogoutCurrent, AgingCurrent DEF Next

LEMMA SessionsStay == Spec => []CurrentInv
BY CurrentStarts, CurrentSteps, SessionsHold, PTL DEF Spec

-----------------------------------------------------------------------------
\* Accounts, tokens and requests stay well typed, and every token that was
\* issued belongs to an account and to a family that began no later than it.
THEOREM SessionsTyped == Spec => []TypeOK
<1>1. SessionsInv => TypeOK
  BY DEF SessionsInv
<1>2. QED
  BY <1>1, SessionsHold, PTL

\* A refresh token and the one issued in its place are never both good: not
\* when it is refreshed by several requests at once, nor when the cleanup
\* deletes it during its refresh.
THEOREM RotationLeavesOne == Spec => []RotatedNotLive
<1>1. SessionsInv => RotatedNotLive
  BY DEF SessionsInv, TokensInOrder, RotatedNotLive, Gone
<1>2. QED
  BY <1>1, SessionsHold, PTL

\* No session outlives the password it was opened with, nor the suspension of
\* its customer: unless requests overlapped on the account, or one died before
\* its revokeAllByUser, since its sessions were last all revoked.
THEOREM OpenSessionsAreCurrent == Spec => []SessionsCurrent
<1>1. CurrentInv => SessionsCurrent
  BY DEF CurrentInv
<1>2. QED
  BY <1>1, SessionsStay, PTL

\* No request makes a token good again that was revoked by a logout, a
\* suspension, a new password, a rotation or its family's: not even one that
\* read it before.
THEOREM RevocationIsFinal == Spec => RevokedStays
<1>1. SessionsInv /\ [Next]_vars =>
        [\A t \in Tokens : token[t].state \in {"revoked", "deleted"} => token'[t].state # "live"]_vars
  BY SessionsSteps DEF Onward, Gone
<1>2. QED
  BY <1>1, SessionsHold, PTL DEF Spec, RevokedStays

-----------------------------------------------------------------------------
\* The staff: an accepted invitation has its account, and nobody but
\* overlapping requests takes the last super admin away.

HasAccount(e) == \E m \in Members : member[m].email = e

\* Members that are not there have no e-mail; an invitation was sent by staff,
\* and its acceptance came after its account.
RowsFit ==
  /\ \A m \in Members : ~member[m].exists => member[m].email = NoEmail /\ ~member[m].active
  /\ \A i \in Invitations :
       /\ invitation[i].exists => invitation[i].email # NoEmail /\ ~NoStaff
       /\ invitation[i].accepted => invitation[i].exists /\ HasAccount(invitation[i].email)

\* What a request has read still holds of what others never change.
Fits(q) ==
  /\ q.step = "inserting" =>
       /\ q.new.exists /\ q.new.active /\ q.new.email # NoEmail
       /\ ~NoStaff \/ q.new.role = "super_admin"
       /\ q.invitation # NoInvitation =>
            q.new.email = q.paper.email /\ q.paper.exists /\ ~NoStaff
  /\ q.step = "accepting" =>
       /\ q.invitation # NoInvitation /\ q.paper.exists /\ ~NoStaff
       /\ q.paper.email # NoEmail /\ HasAccount(q.paper.email)
  /\ q.step = "revoking" =>
       /\ q.invitation # NoInvitation /\ q.paper.exists /\ ~NoStaff
       /\ q.paper.email # NoEmail /\ ~q.paper.accepted
       /\ q.new # Nobody => q.new.email # NoEmail
  /\ q.step = "inviting" => ~NoStaff /\ q.new.email # NoEmail
  /\ q.step \in {"counting", "saving"} =>
       /\ q.member # NoMember /\ member[q.member].exists
       /\ q.new.exists /\ q.new.email = member[q.member].email

\* Saving what the request holds leaves a super admin, if there is one.
LeavesOne(q) ==
  q.step = "saving" =>
    \/ q.member \notin SuperAdmins(member)
    \/ q.new.active /\ q.new.role = "super_admin"
    \/ \E s \in SuperAdmins(member) : s # q.member

\* A request that runs alone has read the rows as they are.
Alone(d) ==
  desk[d].alone =>
    /\ \A y \in Desks \ {d} : desk[y].step = "idle"
    /\ LeavesOne(desk[d])

StaffInv ==
  /\ StaffTypeOK
  /\ RowsFit
  /\ \A d \in Desks : Fits(desk[d]) /\ Alone(d)
  /\ SuperAdminUnlessRaced

-----------------------------------------------------------------------------
LEMMA DeskRequests ==
  /\ NoDesk \in DeskRequest /\ Nobody \in Member /\ NoPaper \in Invitation
  /\ NoDesk.step = "idle" /\ NoDesk.alone = FALSE
  /\ Nobody.exists = FALSE
BY StaffAssumption DEF NoDesk, DeskRequest, Nobody, NoPaper, Member, Invitation, Roles

\* Nobody loses an account, and nobody who is there leaves.
Grown ==
  \A m \in Members :
    member[m].exists => member'[m].exists /\ member'[m].email = member[m].email

LEMMA FitsStays ==
  ASSUME StaffInv, Grown, NEW q \in DeskRequest, Fits(q)
  PROVE  Fits(q)'
<1>1. \A e : e # NoEmail /\ HasAccount(e) => HasAccount(e)'
  BY DEF StaffInv, RowsFit, Grown, HasAccount
<1>2. ~NoStaff => ~NoStaff'
  BY DEF Grown, NoStaff
<1>3. q.member # NoMember => q.member \in Members
  BY DEF DeskRequest
<1>4. q.member # NoMember /\ member[q.member].exists =>
        member'[q.member].exists /\ member'[q.member].email = member[q.member].email
  BY <1>3 DEF Grown
<1>5. QED
  BY <1>1, <1>2, <1>4 DEF Fits

LEMMA IdleFits ==
  ASSUME NEW q, q.step = "idle"
  PROVE  Fits(q) /\ LeavesOne(q)
BY DEF Fits, LeavesOne

-----------------------------------------------------------------------------
\* Every request starts from what it reads.
LEMMA StartKeeps ==
  ASSUME StaffInv, NEW d \in Desks,
         \E q \in DeskRequest : Start(d, q) /\ Fits(q) /\ LeavesOne(q)
  PROVE  StaffInv'
<1>1. PICK q \in DeskRequest : Start(d, q) /\ Fits(q) /\ LeavesOne(q)
  OBVIOUS
<1>2. PICK b \in BOOLEAN : b = (\A y \in Desks : desk[y].step = "idle")
  OBVIOUS
<1>3. /\ desk' = [x \in Desks |-> IF x = d THEN [q EXCEPT !.alone = b]
                                  ELSE [desk[x] EXCEPT !.alone = FALSE]]
      /\ UNCHANGED <<member, invitation, raced>>
  BY <1>1, <1>2 DEF Start
<1>4. StaffTypeOK
  BY DEF StaffInv
<1>5. /\ desk'[d] \in DeskRequest /\ desk'[d].alone = b
      /\ desk'[d].step = q.step /\ desk'[d].member = q.member /\ desk'[d].new = q.new
      /\ desk'[d].invitation = q.invitation /\ desk'[d].paper = q.paper
  BY <1>3 DEF DeskRequest
<1>6. ASSUME NEW x \in Desks \ {d}
      PROVE  /\ desk'[x] \in DeskRequest /\ desk'[x].alone = FALSE
             /\ desk'[x].step = desk[x].step /\ desk'[x].member = desk[x].member
             /\ desk'[x].new = desk[x].new /\ desk'[x].paper = desk[x].paper
             /\ desk'[x].invitation = desk[x].invitation
  BY <1>3, <1>4 DEF StaffTypeOK, DeskRequest
<1>7. StaffTypeOK' /\ RowsFit' /\ SuperAdminUnlessRaced'
  <2>1. desk' \in [Desks -> DeskRequest]
    BY <1>3, <1>5, <1>6
  <2>2. QED
    BY <1>3, <1>4, <2>1 DEF StaffInv, StaffTypeOK, RowsFit, HasAccount, NoStaff,
      SuperAdminUnlessRaced, SuperAdmins
<1>8. Fits(desk[d])' /\ Alone(d)'
  <2>1. Fits(desk[d])'
    <3>1. Fits(q)'
      BY <1>1, <1>3 DEF Fits, HasAccount, NoStaff
    <3>2. QED
      BY <1>5, <3>1 DEF Fits
  <2>2. LeavesOne(desk[d])'
    BY <1>1, <1>3, <1>5 DEF LeavesOne, SuperAdmins
  <2>3. b => \A y \in Desks \ {d} : desk'[y].step = "idle"
    BY <1>2, <1>6
  <2>4. QED
    BY <1>5, <2>1, <2>2, <2>3 DEF Alone
<1>9. ASSUME NEW x \in Desks \ {d}
      PROVE  Fits(desk[x])' /\ Alone(x)'
  <2>1. PICK p \in DeskRequest : p = desk[x]
    BY <1>4 DEF StaffTypeOK
  <2>2. Fits(p)'
    BY <1>3, <2>1 DEF StaffInv, Fits, HasAccount, NoStaff
  <2>3. Fits(desk[x])'
    BY <1>6, <2>1, <2>2 DEF Fits
  <2>4. QED
    BY <1>6, <2>3 DEF Alone
<1>10. QED
  BY <1>7, <1>8, <1>9 DEF StaffInv

\* A request that is over, or died.
LEMMA CloseKeeps ==
  ASSUME StaffInv, NEW d \in Desks, desk' = Closed(d), StaffTypeOK', RowsFit', Grown,
         SuperAdminUnlessRaced',
         \/ UNCHANGED member
         \/ desk[d].step # "idle"
  PROVE  StaffInv'
<1>1. desk' = [desk EXCEPT ![d] = NoDesk] /\ desk \in [Desks -> DeskRequest]
  BY DEF Closed, StaffInv, StaffTypeOK
<1>2. desk'[d] = NoDesk /\ \A x \in Desks \ {d} : desk'[x] = desk[x]
  BY <1>1
<1>3. Fits(desk[d])' /\ Alone(d)'
  BY <1>2, DeskRequests DEF Fits, Alone
<1>4. ASSUME NEW x \in Desks \ {d}
      PROVE  Fits(desk[x])' /\ Alone(x)'
  <2>1. PICK q \in DeskRequest : q = desk[x]
    BY <1>1
  <2>2. Fits(q) /\ Alone(x)
    BY <2>1 DEF StaffInv
  <2>3. Fits(desk[x])'
    <3>1. Fits(q)'
      BY <2>2, FitsStays
    <3>2. QED
      BY <1>2, <2>1, <3>1 DEF Fits
  <2>4. CASE desk[x].alone
    <3>1. desk[d].step = "idle" /\ UNCHANGED member
      BY <2>2, <2>4 DEF Alone
    <3>2. QED
      BY <1>2, <2>2, <2>3, <3>1, DeskRequests DEF Alone, LeavesOne, SuperAdmins
  <2>5. CASE ~desk[x].alone
    BY <1>2, <2>3, <2>5 DEF Alone
  <2>6. QED
    BY <2>3, <2>4, <2>5
<1>5. QED
  BY <1>3, <1>4 DEF StaffInv

\* A request that goes on to its next statement.
LEMMA StepKeeps ==
  ASSUME StaffInv, NEW d \in Desks, NEW q \in DeskRequest, desk[d].step # "idle",
         desk' = [desk EXCEPT ![d] = q], q.alone => desk[d].alone,
         StaffTypeOK', RowsFit', Grown, SuperAdminUnlessRaced',
         Fits(q)', LeavesOne(q)'
  PROVE  StaffInv'
<1>1. desk \in [Desks -> DeskRequest]
  BY DEF StaffInv, StaffTypeOK
<1>2. desk'[d] = q /\ \A x \in Desks \ {d} : desk'[x] = desk[x]
  BY <1>1
<1>3. Fits(desk[d])'
  BY <1>2 DEF Fits
<1>4. Alone(d)'
  <2>1. q.alone => \A y \in Desks \ {d} : desk'[y].step = "idle"
    BY <1>2 DEF StaffInv, Alone
  <2>2. LeavesOne(desk[d])'
    BY <1>2 DEF LeavesOne
  <2>3. QED
    BY <1>2, <2>1, <2>2 DEF Alone
<1>5. ASSUME NEW x \in Desks \ {d}
      PROVE  Fits(desk[x])' /\ Alone(x)'
  <2>1. PICK p \in DeskRequest : p = desk[x]
    BY <1>1
  <2>2. Fits(p) /\ Alone(x)
    BY <2>1 DEF StaffInv
  <2>3. Fits(p)'
    BY <2>2, FitsStays
  <2>4. ~desk[x].alone
    BY <2>2 DEF Alone
  <2>5. QED
    BY <1>2, <2>1, <2>3, <2>4 DEF Fits, Alone
<1>6. QED
  BY <1>3, <1>4, <1>5 DEF StaffInv

-----------------------------------------------------------------------------
\* What each request reads before its first statement.
LEMMA AskedFits ==
  ASSUME StaffInv, NEW d \in Desks, DeskAsked(d)
  PROVE  \E q \in DeskRequest : Start(d, q) /\ Fits(q) /\ LeavesOne(q)
<1>1. /\ member \in [Members -> Member] /\ invitation \in [Invitations -> Invitation]
      /\ RowsFit
  BY DEF StaffInv, StaffTypeOK
<1>2. \A by \in Members : member[by].active => ~NoStaff
  BY <1>1 DEF RowsFit, NoStaff
<1>3. ASSUME NEW e \in Emails, NEW role \in Roles
      PROVE  NewMember(e, role) \in Member /\ NewMember(e, role) # Nobody
             /\ NewMember(e, role) = [exists |-> TRUE, active |-> TRUE, role |-> role, email |-> e]
             /\ e # NoEmail
  BY StaffAssumption DEF NewMember, Member, Nobody
<1>4. ASSUME NEW e \in Emails, RegisterFirst(d, e)
      PROVE  \E q \in DeskRequest : Start(d, q) /\ Fits(q) /\ LeavesOne(q)
  <2>1. PICK n : n = NewMember(e, "super_admin") /\ n \in Member
    BY <1>3 DEF Roles
  <2>2. PICK q : q = [NoDesk EXCEPT !.step = "inserting", !.new = n]
    OBVIOUS
  <2>3. /\ q \in DeskRequest /\ q.step = "inserting" /\ q.new = n
        /\ q.invitation = NoInvitation
    BY <2>1, <2>2, DeskRequests DEF NoDesk, DeskRequest
  <2>4. Start(d, q)
    BY <1>4, <2>1, <2>2 DEF RegisterFirst
  <2>5. Fits(q) /\ LeavesOne(q)
    BY <1>3, <2>1, <2>3 DEF Fits, LeavesOne, Roles
  <2>6. QED
    BY <2>3, <2>4, <2>5
<1>5. ASSUME NEW i \in Invitations, AcceptInvitation(d, i)
      PROVE  \E q \in DeskRequest : Start(d, q) /\ Fits(q) /\ LeavesOne(q)
  <2>1. PICK p, n : /\ p = [invitation[i] EXCEPT !.accepted = TRUE]
                    /\ n = NewMember(invitation[i].email, invitation[i].role)
    OBVIOUS
  <2>2. /\ invitation[i] \in Invitation /\ invitation[i].exists /\ ~NoStaff
        /\ invitation[i].email # NoEmail
    BY <1>1, <1>5 DEF AcceptInvitation, Pending, RowsFit
  <2>3. invitation[i].email \in Emails /\ invitation[i].role \in Roles
    BY <2>2 DEF Invitation
  <2>4. /\ p \in Invitation /\ p.exists /\ p.email = invitation[i].email
        /\ n \in Member /\ n.exists /\ n.active /\ n.email = invitation[i].email
    <3>1. p \in Invitation /\ p.exists /\ p.email = invitation[i].email
      BY <2>1, <2>2 DEF Invitation
    <3>2. n = [exists |-> TRUE, active |-> TRUE, role |-> invitation[i].role,
               email |-> invitation[i].email] /\ n \in Member
      BY <1>3, <2>1, <2>3
    <3>3. QED
      BY <3>1, <3>2
  <2>5. PICK q : q = [NoDesk EXCEPT !.step = "inserting", !.invitation = i, !.new = n, !.paper = p]
    OBVIOUS
  <2>6. /\ q \in DeskRequest /\ q.step = "inserting" /\ q.new = n /\ q.paper = p
    BY <2>4, <2>5, DeskRequests DEF NoDesk, DeskRequest
  <2>7. Start(d, q)
    BY <1>5, <2>1, <2>5 DEF AcceptInvitation
  <2>8. Fits(q) /\ LeavesOne(q)
    BY <2>2, <2>4, <2>6 DEF Fits, LeavesOne
  <2>9. QED
    BY <2>6, <2>7, <2>8
<1>6. ASSUME NEW by \in Members, NEW e \in Emails, NEW role \in Roles,
             CreateStaffMember(d, by, e, role)
      PROVE  \E q \in DeskRequest : Start(d, q) /\ Fits(q) /\ LeavesOne(q)
  <2>1. PICK n : n = NewMember(e, role) /\ n \in Member
    BY <1>3
  <2>2. PICK q : q = [NoDesk EXCEPT !.step = "inserting", !.new = n]
    OBVIOUS
  <2>3. /\ q \in DeskRequest /\ q.step = "inserting" /\ q.new = n
        /\ q.invitation = NoInvitation
    BY <2>1, <2>2, DeskRequests DEF NoDesk, DeskRequest
  <2>4. Start(d, q) /\ ~NoStaff
    BY <1>2, <1>6, <2>1, <2>2 DEF CreateStaffMember, MayAsk
  <2>5. Fits(q) /\ LeavesOne(q)
    BY <1>3, <2>1, <2>3, <2>4 DEF Fits, LeavesOne
  <2>6. QED
    BY <2>3, <2>4, <2>5
<1>7. ASSUME NEW by \in Members, NEW e \in Emails, NEW role \in Roles,
             InviteStaff(d, by, e, role)
      PROVE  \E q \in DeskRequest : Start(d, q) /\ Fits(q) /\ LeavesOne(q)
  <2>1. PICK n : n = NewMember(e, role) /\ n \in Member /\ n # Nobody /\ n.email # NoEmail
    BY <1>3
  <2>2. ~NoStaff
    BY <1>2, <1>7 DEF InviteStaff
  <2>3. PICK g : g = [NoDesk EXCEPT !.step = "inviting", !.new = n]
    OBVIOUS
  <2>4. g \in DeskRequest /\ g.step = "inviting" /\ g.new = n
    BY <2>1, <2>3, DeskRequests DEF NoDesk, DeskRequest
  <2>5. CASE Start(d, g)
    BY <2>1, <2>2, <2>4, <2>5 DEF Fits, LeavesOne
  <2>6. ASSUME NEW i \in Invitations, Pending(i),
               Start(d, [g EXCEPT !.step = "revoking", !.invitation = i,
                                  !.paper = [invitation[i] EXCEPT !.revoked = TRUE]])
        PROVE  \E q \in DeskRequest : Start(d, q) /\ Fits(q) /\ LeavesOne(q)
    <3>1. PICK p : p = [invitation[i] EXCEPT !.revoked = TRUE]
      OBVIOUS
    <3>2. invitation[i] \in Invitation /\ invitation[i].email # NoEmail
          /\ invitation[i].exists /\ ~invitation[i].accepted
      BY <1>1, <2>6 DEF Pending, RowsFit
    <3>3. p \in Invitation /\ p.exists /\ p.email # NoEmail /\ ~p.accepted
      BY <3>1, <3>2 DEF Invitation
    <3>4. PICK q : q = [g EXCEPT !.step = "revoking", !.invitation = i, !.paper = p]
      OBVIOUS
    <3>5. /\ q \in DeskRequest /\ q.step = "revoking" /\ q.invitation = i
          /\ q.paper = p /\ q.new = n
      BY <2>4, <3>3, <3>4 DEF DeskRequest
    <3>6. Start(d, q)
      BY <2>6, <3>1, <3>4
    <3>7. Fits(q) /\ LeavesOne(q)
      BY <2>1, <2>2, <3>3, <3>5, StaffAssumption DEF Fits, LeavesOne
    <3>8. QED
      BY <3>5, <3>6, <3>7
  <2>7. QED
    BY <1>7, <2>1, <2>3, <2>5, <2>6 DEF InviteStaff, PendingFor
<1>8. ASSUME NEW by \in Members, NEW i \in Invitations, RevokeInvitation(d, by, i)
      PROVE  \E q \in DeskRequest : Start(d, q) /\ Fits(q) /\ LeavesOne(q)
  <2>1. PICK p : p = [invitation[i] EXCEPT !.revoked = TRUE]
    OBVIOUS
  <2>2. invitation[i] \in Invitation /\ invitation[i].email # NoEmail
        /\ invitation[i].exists /\ ~invitation[i].accepted /\ ~NoStaff
    BY <1>1, <1>8 DEF RevokeInvitation, RowsFit
  <2>3. p \in Invitation /\ p.exists /\ p.email # NoEmail /\ ~p.accepted
    BY <2>1, <2>2 DEF Invitation
  <2>4. PICK q : q = [NoDesk EXCEPT !.step = "revoking", !.invitation = i, !.paper = p]
    OBVIOUS
  <2>5. /\ q \in DeskRequest /\ q.step = "revoking" /\ q.invitation = i
        /\ q.paper = p /\ q.new = Nobody
    BY <2>3, <2>4, DeskRequests DEF NoDesk, DeskRequest
  <2>6. Start(d, q)
    BY <1>8, <2>1, <2>4 DEF RevokeInvitation
  <2>7. Fits(q) /\ LeavesOne(q)
    BY <2>2, <2>3, <2>5, StaffAssumption DEF Fits, LeavesOne
  <2>8. QED
    BY <2>5, <2>6, <2>7
<1>9. ASSUME NEW m \in Members, NEW n \in Member, NEW counted \in BOOLEAN,
             Change(d, m, n, counted), n.exists, n.email = member[m].email,
             counted \/ m \notin SuperAdmins(member) \/ (n.active /\ n.role = "super_admin")
      PROVE  \E q \in DeskRequest : Start(d, q) /\ Fits(q) /\ LeavesOne(q)
  <2>1. PICK s : s = IF counted THEN "counting" ELSE "saving"
    OBVIOUS
  <2>2. PICK q : q = [NoDesk EXCEPT !.step = s, !.member = m, !.new = n]
    OBVIOUS
  <2>3. q \in DeskRequest /\ q.step = s /\ q.member = m /\ q.new = n
    BY <2>1, <2>2, DeskRequests DEF NoDesk, DeskRequest
  <2>4. Start(d, q) /\ member[m].exists
    BY <1>9, <2>1, <2>2 DEF Change
  <2>5. Fits(q) /\ LeavesOne(q)
    BY <1>9, <2>1, <2>3, <2>4, StaffAssumption DEF Fits, LeavesOne
  <2>6. QED
    BY <2>3, <2>4, <2>5
<1>10. ASSUME NEW by \in Members, NEW m \in Members,
              \/ SuspendStaffMember(d, by, m) \/ ActivateStaffMember(d, by, m)
              \/ UpdateStaffProfile(d, m)
              \/ \E role \in Roles : \/ ChangeStaffRole(d, by, m, role)
                                     \/ \E active \in BOOLEAN : UpdateStaffMember(d, by, m, role, active)
       PROVE  \E q \in DeskRequest : Start(d, q) /\ Fits(q) /\ LeavesOne(q)
  <2>1. member[m] \in Member
    BY <1>1
  <2>2. m \in SuperAdmins(member) <=> member[m].active /\ member[m].role = "super_admin"
    BY DEF SuperAdmins
  <2>3. CASE SuspendStaffMember(d, by, m)
    <3>1. PICK n : n = [member[m] EXCEPT !.active = FALSE]
      OBVIOUS
    <3>2. PICK c \in BOOLEAN : c = (member[m].role = "super_admin")
      OBVIOUS
    <3>3. Change(d, m, n, c) /\ member[m].exists
      BY <2>3, <3>1, <3>2 DEF SuspendStaffMember, Change
    <3>4. n \in Member /\ n.exists /\ n.email = member[m].email
      BY <2>1, <3>1, <3>3 DEF Member
    <3>5. c \/ m \notin SuperAdmins(member) \/ (n.active /\ n.role = "super_admin")
      BY <2>2, <3>1, <3>2, <3>4
    <3>6. QED
      BY <1>9, <3>3, <3>4, <3>5
  <2>4. CASE ActivateStaffMember(d, by, m)
    <3>1. PICK n : n = [member[m] EXCEPT !.active = TRUE]
      OBVIOUS
    <3>2. Change(d, m, n, FALSE) /\ member[m].exists
      BY <2>4, <3>1 DEF ActivateStaffMember, Change
    <3>3. /\ n \in Member /\ n.exists /\ n.email = member[m].email
          /\ n.active /\ n.role = member[m].role
      BY <2>1, <3>1, <3>2 DEF Member
    <3>4. m \notin SuperAdmins(member) \/ (n.active /\ n.role = "super_admin")
      BY <2>2, <3>3
    <3>5. QED
      BY <1>9, <3>2, <3>3, <3>4
  <2>5. CASE UpdateStaffProfile(d, m)
    <3>1. PICK n : n = member[m]
      OBVIOUS
    <3>2. Change(d, m, n, FALSE) /\ n.exists
      BY <2>5, <3>1 DEF UpdateStaffProfile, Change
    <3>3. m \notin SuperAdmins(member) \/ (n.active /\ n.role = "super_admin")
      BY <2>2, <3>1
    <3>4. QED
      BY <1>9, <2>1, <3>1, <3>2, <3>3
  <2>6. ASSUME NEW role \in Roles, ChangeStaffRole(d, by, m, role)
        PROVE  \E q \in DeskRequest : Start(d, q) /\ Fits(q) /\ LeavesOne(q)
    <3>1. PICK n : n = [member[m] EXCEPT !.role = role]
      OBVIOUS
    <3>2. PICK c \in BOOLEAN : c = (member[m].role = "super_admin" /\ role # "super_admin")
      OBVIOUS
    <3>3. Change(d, m, n, c) /\ member[m].exists
      BY <2>6, <3>1, <3>2 DEF ChangeStaffRole, Change
    <3>4. /\ n \in Member /\ n.exists /\ n.email = member[m].email
          /\ n.active = member[m].active /\ n.role = role
      BY <2>1, <3>1, <3>3 DEF Member
    <3>5. c \/ m \notin SuperAdmins(member) \/ (n.active /\ n.role = "super_admin")
      BY <2>2, <3>1, <3>2, <3>4
    <3>6. QED
      BY <1>9, <3>3, <3>4, <3>5
  <2>7. ASSUME NEW role \in Roles, NEW active \in BOOLEAN,
               UpdateStaffMember(d, by, m, role, active)
        PROVE  \E q \in DeskRequest : Start(d, q) /\ Fits(q) /\ LeavesOne(q)
    <3>1. PICK n : n = [member[m] EXCEPT !.role = role, !.active = active]
      OBVIOUS
    <3>2. PICK c \in BOOLEAN : c = (\/ member[m].role = "super_admin" /\ role # "super_admin"
                                    \/ role = "super_admin" /\ member[m].active /\ ~active)
      OBVIOUS
    <3>3. Change(d, m, n, c) /\ member[m].exists
      BY <2>7, <3>1, <3>2 DEF UpdateStaffMember, Change
    <3>4. /\ n \in Member /\ n.exists /\ n.email = member[m].email
          /\ n.active = active /\ n.role = role
      BY <2>1, <3>1, <3>3 DEF Member
    <3>5. c \/ m \notin SuperAdmins(member) \/ (n.active /\ n.role = "super_admin")
      BY <2>2, <3>1, <3>2, <3>4
    <3>6. QED
      BY <1>9, <3>3, <3>4, <3>5
  <2>8. QED
    BY <1>10, <2>3, <2>4, <2>5, <2>6, <2>7
<1>11. QED
  BY <1>4, <1>5, <1>6, <1>7, <1>8, <1>10 DEF DeskAsked

-----------------------------------------------------------------------------
\* What the statements write.

LEMMA UnchangedRows ==
  ASSUME StaffInv, UNCHANGED <<member, invitation, raced>>
  PROVE  Grown /\ RowsFit' /\ SuperAdminUnlessRaced'
BY DEF StaffInv, Grown, RowsFit, HasAccount, NoStaff, SuperAdminUnlessRaced, SuperAdmins

LEMMA RowSaved ==
  ASSUME StaffInv, NEW d \in Desks, NEW m \in Members, SaveRow(d, m), UNCHANGED invitation,
         \/ desk[d].step = "inserting" /\ ~member[m].exists
         \/ desk[d].step = "saving" /\ m = desk[d].member
  PROVE  /\ member' \in [Members -> Member] /\ raced' \in BOOLEAN
         /\ member'[m] = desk[d].new
         /\ Grown /\ RowsFit' /\ SuperAdminUnlessRaced'
<1>1. PICK q : q = desk[d]
  OBVIOUS
<1>2. /\ q \in DeskRequest /\ Fits(q) /\ RowsFit /\ member \in [Members -> Member]
      /\ q.alone => LeavesOne(q)
  BY <1>1 DEF StaffInv, StaffTypeOK, Alone
<1>3. /\ q.new \in Member /\ q.new.exists
      /\ member[m].exists => q.new.email = member[m].email
  BY <1>1, <1>2 DEF Fits, DeskRequest
<1>4. /\ member' = [member EXCEPT ![m] = q.new]
      /\ raced' = (~q.alone \/ (raced /\ SuperAdmins(member') = {}))
  BY <1>1 DEF SaveRow
<1>5. member'[m] = q.new /\ \A x \in Members \ {m} : member'[x] = member[x]
  BY <1>2, <1>4
<1>6. member' \in [Members -> Member] /\ raced' \in BOOLEAN
  BY <1>2, <1>3, <1>4
<1>7. Grown
  BY <1>3, <1>5 DEF Grown
<1>8. RowsFit'
  <2>1. \A x \in Members : ~member'[x].exists => member'[x].email = NoEmail /\ ~member'[x].active
    BY <1>2, <1>3, <1>5 DEF RowsFit
  <2>2. \A e : e # NoEmail /\ HasAccount(e) => HasAccount(e)'
    BY <1>2, <1>7 DEF RowsFit, Grown, HasAccount
  <2>3. ~NoStaff'
    BY <1>3, <1>5 DEF NoStaff
  <2>4. QED
    BY <1>2, <2>1, <2>2, <2>3 DEF RowsFit
<1>9. SuperAdminUnlessRaced'
  <2>1. SUFFICES ASSUME q.alone, ~raced PROVE SuperAdmins(member)' # {}
    BY <1>4 DEF SuperAdminUnlessRaced
  <2>2. CASE NoStaff
    <3>1. q.new.active /\ q.new.role = "super_admin"
      BY <1>1, <1>2, <2>2 DEF Fits, NoStaff, DeskRequest
    <3>2. QED
      BY <1>5, <3>1 DEF SuperAdmins
  <2>3. CASE SuperAdmins(member) # {}
    <3>1. CASE q.step = "inserting" /\ ~member[m].exists
      <4>1. PICK s \in Members : member[s].active /\ member[s].role = "super_admin"
        BY <2>3 DEF SuperAdmins
      <4>2. s # m
        BY <1>2, <3>1, <4>1 DEF RowsFit
      <4>3. QED
        BY <1>5, <4>1, <4>2 DEF SuperAdmins
    <3>2. CASE q.step = "saving" /\ m = q.member
      <4>1. CASE q.new.active /\ q.new.role = "super_admin"
        BY <1>5, <4>1 DEF SuperAdmins
      <4>2. CASE \E s \in SuperAdmins(member) : s # m
        BY <1>5, <4>2 DEF SuperAdmins
      <4>3. CASE m \notin SuperAdmins(member)
        BY <1>5, <2>3, <4>3 DEF SuperAdmins
      <4>4. QED
        BY <1>2, <2>1, <3>2, <4>1, <4>2, <4>3 DEF LeavesOne
    <3>3. QED
      BY <1>1, <3>1, <3>2
  <2>4. QED
    BY <2>1, <2>2, <2>3 DEF StaffInv, SuperAdminUnlessRaced
<1>10. QED
  BY <1>1, <1>5, <1>6, <1>7, <1>8, <1>9

LEMMA PaperSaved ==
  ASSUME StaffInv, NEW d \in Desks, SavePaper(d), UNCHANGED <<member, raced>>,
         desk[d].step \in {"accepting", "revoking"}
  PROVE  /\ invitation' \in [Invitations -> Invitation]
         /\ Grown /\ RowsFit' /\ SuperAdminUnlessRaced'
<1>1. PICK q, i : q = desk[d] /\ i = q.invitation
  OBVIOUS
<1>2. q \in DeskRequest /\ Fits(q) /\ RowsFit /\ invitation \in [Invitations -> Invitation]
  BY <1>1 DEF StaffInv, StaffTypeOK
<1>3. /\ i \in Invitations /\ q.paper \in Invitation /\ q.paper.exists
      /\ q.paper.email # NoEmail /\ ~NoStaff
      /\ q.paper.accepted => HasAccount(q.paper.email)
  BY <1>1, <1>2 DEF Fits, DeskRequest
<1>4. PICK p : p = [q.paper EXCEPT !.expired = invitation[i].expired]
  OBVIOUS
<1>5. /\ p \in Invitation /\ p.exists /\ p.email = q.paper.email
      /\ p.accepted => HasAccount(p.email)
  BY <1>2, <1>3, <1>4 DEF Invitation
<1>6. invitation' = [invitation EXCEPT ![i] = p]
  BY <1>1, <1>4 DEF SavePaper
<1>7. invitation'[i] = p /\ \A n \in Invitations \ {i} : invitation'[n] = invitation[n]
  BY <1>2, <1>3, <1>6
<1>8. RowsFit'
  <2>1. \A e : HasAccount(e)' <=> HasAccount(e)
    BY DEF HasAccount
  <2>2. NoStaff' <=> NoStaff
    BY DEF NoStaff
  <2>3. \A n \in Invitations :
          /\ invitation'[n].exists => invitation'[n].email # NoEmail /\ ~NoStaff
          /\ invitation'[n].accepted => invitation'[n].exists /\ HasAccount(invitation'[n].email)
    BY <1>2, <1>3, <1>5, <1>7 DEF RowsFit
  <2>4. QED
    BY <1>2, <2>1, <2>2, <2>3 DEF RowsFit
<1>9. Grown /\ SuperAdminUnlessRaced'
  BY DEF Grown, StaffInv, SuperAdminUnlessRaced, SuperAdmins, NoStaff
<1>10. QED
  BY <1>2, <1>5, <1>6, <1>8, <1>9

\* Taking one from two super admins or more leaves one.
LEMMA AnotherRemains ==
  ASSUME NEW S, NEW m, Cardinality(S) > 1
  PROVE  \E s \in S : s # m
<1>1. SUFFICES ASSUME S \subseteq {m} PROVE FALSE
  OBVIOUS
<1>2. S = {} \/ S = {m}
  BY <1>1
<1>3. Cardinality({}) = 0 /\ Cardinality({m}) = 1
  BY FS_EmptySet, FS_Singleton
<1>4. QED
  BY <1>2, <1>3

LEMMA ProceedsKeeps ==
  ASSUME StaffInv, NEW d \in Desks, DeskProceeds(d)
  PROVE  StaffInv'
<1>1. PICK q : q = desk[d]
  OBVIOUS
<1>2. q \in DeskRequest /\ Fits(q) /\ StaffTypeOK /\ desk \in [Desks -> DeskRequest]
  BY <1>1 DEF StaffInv, StaffTypeOK
<1>3. Closed(d) \in [Desks -> DeskRequest]
  BY <1>2, DeskRequests DEF Closed
<1>4. ASSUME NEW m \in Members, InsertMember(d, m)
      PROVE  StaffInv'
  <2>1. desk[d].step = "inserting" /\ ~member[m].exists /\ UNCHANGED invitation
    BY <1>4 DEF InsertMember
  <2>2. CASE EmailFree(q.new.email) /\ q.invitation = NoInvitation
    <3>1. SaveRow(d, m) /\ desk' = Closed(d)
      BY <1>1, <1>4, <2>2 DEF InsertMember
    <3>2. QED
      BY <1>2, <1>3, <2>1, <3>1, RowSaved, CloseKeeps DEF StaffTypeOK
  <2>3. CASE EmailFree(q.new.email) /\ q.invitation # NoInvitation
    <3>1. SaveRow(d, m) /\ desk' = [desk EXCEPT ![d].step = "accepting", ![d].new = Nobody]
      BY <1>1, <1>4, <2>3 DEF InsertMember
    <3>2. PICK p : p = [q EXCEPT !.step = "accepting", !.new = Nobody]
      OBVIOUS
    <3>3. /\ p \in DeskRequest /\ p.step = "accepting" /\ p.paper = q.paper
          /\ p.invitation = q.invitation /\ p.alone = q.alone
      BY <1>2, <3>2, DeskRequests DEF DeskRequest
    <3>4. desk' = [desk EXCEPT ![d] = p]
      BY <1>1, <1>2, <3>1, <3>2
    <3>5. /\ q.new.email = q.paper.email /\ q.new.email # NoEmail /\ q.paper.exists /\ ~NoStaff
      BY <1>1, <1>2, <2>1, <2>3 DEF Fits
    <3>6. /\ member' \in [Members -> Member] /\ raced' \in BOOLEAN /\ member'[m] = q.new
          /\ Grown /\ RowsFit' /\ SuperAdminUnlessRaced'
      BY <1>1, <2>1, <3>1, RowSaved
    <3>7. HasAccount(q.paper.email)' /\ ~NoStaff'
      BY <3>5, <3>6 DEF HasAccount, NoStaff, Grown
    <3>8. Fits(p)' /\ LeavesOne(p)'
      BY <2>3, <3>3, <3>5, <3>7 DEF Fits, LeavesOne
    <3>9. StaffTypeOK'
      BY <1>2, <2>1, <3>3, <3>4, <3>6 DEF StaffTypeOK
    <3>10. QED
      BY <1>1, <2>1, <3>3, <3>4, <3>6, <3>8, <3>9, StepKeeps
  <2>4. CASE ~EmailFree(q.new.email)
    <3>1. UNCHANGED <<member, invitation, raced>> /\ desk' = Closed(d)
      BY <1>1, <1>4, <2>1, <2>4 DEF InsertMember
    <3>2. QED
      BY <1>2, <1>3, <3>1, UnchangedRows, CloseKeeps DEF StaffTypeOK
  <2>5. QED
    BY <2>2, <2>3, <2>4
<1>5. ASSUME NEW i \in Invitations, SaveInvitation(d, i)
      PROVE  StaffInv'
  <2>1. PICK p : p = [NoPaper EXCEPT !.exists = TRUE, !.email = q.new.email, !.role = q.new.role]
    OBVIOUS
  <2>2. /\ invitation' = [invitation EXCEPT ![i] = p] /\ desk' = Closed(d)
        /\ UNCHANGED <<member, raced>> /\ q.step = "inviting"
    BY <1>1, <1>5, <2>1 DEF SaveInvitation
  <2>3. q.new \in Member /\ q.new.email # NoEmail /\ ~NoStaff
    BY <1>2, <2>2 DEF Fits, DeskRequest
  <2>4. p \in Invitation /\ ~p.accepted /\ p.email # NoEmail
    BY <2>1, <2>3, DeskRequests DEF NoPaper, Invitation, Member
  <2>5. invitation'[i] = p /\ \A n \in Invitations \ {i} : invitation'[n] = invitation[n]
    BY <1>2, <2>2 DEF StaffTypeOK
  <2>6. RowsFit'
    BY <2>2, <2>3, <2>4, <2>5 DEF StaffInv, RowsFit, HasAccount, NoStaff
  <2>7. Grown /\ SuperAdminUnlessRaced'
    BY <2>2 DEF Grown, StaffInv, SuperAdminUnlessRaced, SuperAdmins, NoStaff
  <2>8. StaffTypeOK'
    BY <1>2, <1>3, <2>2, <2>4 DEF StaffTypeOK
  <2>9. QED
    BY <2>2, <2>6, <2>7, <2>8, CloseKeeps
<1>6. CASE SaveAcceptance(d)
  <2>1. /\ SavePaper(d) /\ desk' = Closed(d) /\ UNCHANGED <<member, raced>>
        /\ desk[d].step = "accepting"
    BY <1>6 DEF SaveAcceptance
  <2>2. QED
    BY <1>2, <1>3, <2>1, PaperSaved, CloseKeeps DEF StaffTypeOK
<1>7. CASE SaveRevocation(d)
  <2>1. SavePaper(d) /\ UNCHANGED <<member, raced>> /\ desk[d].step = "revoking"
    BY <1>7 DEF SaveRevocation
  <2>2. CASE q.new = Nobody
    <3>1. desk' = Closed(d)
      BY <1>1, <1>7, <2>2 DEF SaveRevocation
    <3>2. QED
      BY <1>2, <1>3, <2>1, <3>1, PaperSaved, CloseKeeps DEF StaffTypeOK
  <2>3. CASE q.new # Nobody
    <3>1. PICK p : p = [NoDesk EXCEPT !.step = "inviting", !.new = q.new, !.alone = q.alone]
      OBVIOUS
    <3>2. desk' = [desk EXCEPT ![d] = p]
      BY <1>1, <1>7, <2>3, <3>1 DEF SaveRevocation
    <3>3. p \in DeskRequest /\ p.step = "inviting" /\ p.new = q.new /\ p.alone = q.alone
      BY <1>2, <3>1, DeskRequests DEF NoDesk, DeskRequest
    <3>4. ~NoStaff /\ q.new.email # NoEmail
      BY <1>1, <1>2, <2>1, <2>3 DEF Fits
    <3>5. Fits(p)' /\ LeavesOne(p)'
      BY <2>1, <3>3, <3>4 DEF Fits, LeavesOne, NoStaff
    <3>6. StaffTypeOK'
      BY <1>2, <2>1, <3>2, <3>3, PaperSaved DEF StaffTypeOK
    <3>7. QED
      BY <1>1, <2>1, <3>2, <3>3, <3>5, <3>6, PaperSaved, StepKeeps
  <2>4. QED
    BY <2>2, <2>3
<1>8. CASE CountSuperAdmins(d)
  <2>1. UNCHANGED <<member, invitation, raced>> /\ q.step = "counting"
    BY <1>1, <1>8 DEF CountSuperAdmins
  <2>2. CASE Cardinality(SuperAdmins(member)) > 1
    <3>1. PICK p : p = [q EXCEPT !.step = "saving"]
      OBVIOUS
    <3>2. desk' = [desk EXCEPT ![d] = p]
      BY <1>1, <1>8, <2>2, <3>1 DEF CountSuperAdmins
    <3>3. /\ p \in DeskRequest /\ p.step = "saving" /\ p.member = q.member
          /\ p.new = q.new /\ p.alone = q.alone
      BY <1>2, <3>1 DEF DeskRequest
    <3>4. Fits(p)'
      BY <1>2, <2>1, <3>3 DEF Fits
    <3>5. LeavesOne(p)'
      <4>1. \E s \in SuperAdmins(member) : s # p.member
        BY <2>2, AnotherRemains
      <4>2. SuperAdmins(member)' = SuperAdmins(member)
        BY <2>1 DEF SuperAdmins
      <4>3. QED
        BY <4>1, <4>2 DEF LeavesOne
    <3>6. StaffTypeOK'
      BY <1>2, <2>1, <3>2, <3>3 DEF StaffTypeOK
    <3>7. QED
      BY <1>1, <2>1, <3>2, <3>3, <3>4, <3>5, <3>6, UnchangedRows, StepKeeps
  <2>3. CASE ~(Cardinality(SuperAdmins(member)) > 1)
    <3>1. desk' = Closed(d)
      BY <1>8, <2>3 DEF CountSuperAdmins
    <3>2. QED
      BY <1>2, <1>3, <2>1, <3>1, UnchangedRows, CloseKeeps DEF StaffTypeOK
  <2>4. QED
    BY <2>2, <2>3
<1>9. CASE SaveMember(d)
  <2>1. /\ desk[d].step = "saving" /\ SaveRow(d, q.member) /\ desk' = Closed(d)
        /\ UNCHANGED invitation
    BY <1>1, <1>9 DEF SaveMember
  <2>2. q.member \in Members
    BY <1>1, <1>2, <2>1 DEF Fits, DeskRequest
  <2>3. QED
    BY <1>1, <1>2, <1>3, <2>1, <2>2, RowSaved, CloseKeeps DEF StaffTypeOK
<1>10. CASE RequestDies(d)
  <2>1. UNCHANGED <<member, invitation, raced>> /\ desk' = Closed(d)
    BY <1>10 DEF RequestDies
  <2>2. QED
    BY <1>2, <1>3, <2>1, UnchangedRows, CloseKeeps DEF StaffTypeOK
<1>11. QED
  BY <1>4, <1>5, <1>6, <1>7, <1>8, <1>9, <1>10 DEF DeskProceeds

LEMMA ExpiryKeeps ==
  ASSUME StaffInv, NEW i \in Invitations, InvitationExpires(i)
  PROVE  StaffInv'
<1>1. invitation \in [Invitations -> Invitation] /\ UNCHANGED <<member, desk, raced>>
  BY DEF StaffInv, StaffTypeOK, InvitationExpires
<1>2. PICK p : p = [invitation[i] EXCEPT !.expired = TRUE]
  OBVIOUS
<1>3. /\ p \in Invitation /\ p.exists = invitation[i].exists
      /\ p.email = invitation[i].email /\ p.accepted = invitation[i].accepted
  BY <1>1, <1>2 DEF Invitation
<1>4. invitation' = [invitation EXCEPT ![i] = p]
  BY <1>2 DEF InvitationExpires
<1>5. RowsFit'
  BY <1>1, <1>3, <1>4 DEF StaffInv, RowsFit, HasAccount, NoStaff
<1>6. StaffTypeOK'
  BY <1>1, <1>3, <1>4 DEF StaffInv, StaffTypeOK
<1>7. \A d \in Desks : Fits(desk[d])' /\ Alone(d)'
  BY <1>1 DEF StaffInv, Fits, Alone, LeavesOne, SuperAdmins, HasAccount, NoStaff
<1>8. QED
  BY <1>1, <1>5, <1>6, <1>7 DEF StaffInv, SuperAdminUnlessRaced, SuperAdmins, NoStaff

LEMMA StaffStarts == StaffInit => StaffInv
<1> SUFFICES ASSUME StaffInit PROVE StaffInv
  OBVIOUS
<1>1. StaffTypeOK
  BY DeskRequests DEF StaffInit, StaffTypeOK
<1>2. RowsFit /\ NoStaff
  BY DEF StaffInit, RowsFit, NoStaff, Nobody, NoPaper
<1>3. \A d \in Desks : Fits(desk[d]) /\ Alone(d)
  BY DeskRequests DEF StaffInit, Fits, Alone
<1>4. QED
  BY <1>1, <1>2, <1>3 DEF StaffInv, SuperAdminUnlessRaced

LEMMA StaffSteps == StaffInv /\ [StaffNext]_staffVars => StaffInv'
<1> SUFFICES ASSUME StaffInv, [StaffNext]_staffVars PROVE StaffInv'
  OBVIOUS
<1>1. CASE UNCHANGED staffVars
  BY <1>1 DEF staffVars, StaffInv, StaffTypeOK, RowsFit, Fits, Alone, LeavesOne,
    HasAccount, NoStaff, SuperAdminUnlessRaced, SuperAdmins
<1>2. QED
  BY <1>1, AskedFits, StartKeeps, ProceedsKeeps, ExpiryKeeps DEF StaffNext

LEMMA StaffHolds == StaffSpec => []StaffInv
BY StaffStarts, StaffSteps, PTL DEF StaffSpec

-----------------------------------------------------------------------------
\* An accepted invitation has the account of its e-mail, whatever requests died
\* between the two saves and whatever others wrote the rows meanwhile.
THEOREM AcceptedHaveAccounts == StaffSpec => []AcceptedHasAccount
<1>1. StaffInv => AcceptedHasAccount
  BY DEF StaffInv, RowsFit, HasAccount, AcceptedHasAccount
<1>2. QED
  BY <1>1, StaffHolds, PTL

\* Only a request that overlapped with another can leave the staff without an
\* active super admin: the checks suffice for every request that runs alone.
THEOREM OnlyRacesTakeTheLast == StaffSpec => []SuperAdminUnlessRaced
<1>1. StaffInv => SuperAdminUnlessRaced
  BY DEF StaffInv
<1>2. QED
  BY <1>1, StaffHolds, PTL

-----------------------------------------------------------------------------
\* The address books: a book stays in order whatever requests overlap or die.

\* The addresses that are in a customer's book or may be inserted again by a
\* request that holds them, and the requests about to insert a new one.
Saving(c, u) == {q \in Calls : c[q].step = "saving" /\ c[q].shopper = u}
Creating(c, u) == {q \in Calls : c[q].step = "creating" /\ c[q].shopper = u}
Saved(c, u) == {c[q].address : q \in Saving(c, u)}
Claimed(u) == Book(u) \cup Saved(call, u)

Room(u) ==
  /\ IsFiniteSet(Book(u))
  /\ Cardinality(Claimed(u)) + Cardinality(Creating(call, u)) <=
       MaxAddresses + Cardinality(Calls) - 1

\* A request holds an address of its own customer, or one deleted meanwhile; as
\* it is, if no other request of that customer runs.
Carries(q) ==
  LET c == call[q] IN
  /\ c.step # "idle" => c.shopper \in Shoppers
  /\ c.alone => c.step # "idle"
  /\ c.step \notin {"idle", "creating"} => c.address \in AddressIds
  /\ c.step = "creating" => c.new = [owner |-> c.shopper, default |-> FALSE]
  /\ c.address \in AddressIds => address[c.address].owner \in {c.shopper, NoShopper}
  /\ c.step = "saving" => c.new.owner = c.shopper
  /\ c.alone =>
       /\ \A y \in Calls \ {q} : call[y].shopper # c.shopper
       /\ c.step = "saving" => address[c.address] = c.new

\* An address is not given to another customer while a request holds it.
OneCustomer ==
  \A x, y \in Calls :
    call[x].address \in AddressIds /\ call[x].address = call[y].address =>
      call[x].shopper = call[y].shopper

OnlyDefault(u) == \A a, b \in Defaults(u) : a = b

BooksInv ==
  /\ AddressesTypeOK
  /\ \A u \in Shoppers : Room(u)
  /\ \A q \in Calls : Carries(q)
  /\ OneCustomer
  /\ \A u \in Shoppers \ disputed : OnlyDefault(u)

-----------------------------------------------------------------------------
\* There are no more addresses held and insertions under way than requests.
LEMMA PendingFit ==
  ASSUME NEW c
  PROVE  \A u : /\ IsFiniteSet(Saved(c, u)) /\ IsFiniteSet(Creating(c, u))
                /\ Cardinality(Saved(c, u)) + Cardinality(Creating(c, u)) <= Cardinality(Calls)
                /\ Cardinality(Saved(c, u)) \in Nat /\ Cardinality(Creating(c, u)) \in Nat
<1> SUFFICES ASSUME NEW u
             PROVE  /\ IsFiniteSet(Saved(c, u)) /\ IsFiniteSet(Creating(c, u))
                    /\ Cardinality(Saved(c, u)) + Cardinality(Creating(c, u)) <= Cardinality(Calls)
                    /\ Cardinality(Saved(c, u)) \in Nat /\ Cardinality(Creating(c, u)) \in Nat
  OBVIOUS
<1>1. IsFiniteSet(Calls)
  BY AddressAssumption
<1>2. PICK S, C, T : S = Saving(c, u) /\ C = Creating(c, u) /\ T = Saved(c, u)
  OBVIOUS
<1>3. S \subseteq Calls /\ C \subseteq Calls /\ S \cap C = {} /\ (S \cup C) \subseteq Calls
  BY <1>2 DEF Saving, Creating
<1>4. IsFiniteSet(S) /\ IsFiniteSet(C)
  BY <1>1, <1>3, FS_Subset
<1>5. Cardinality(S \cup C) = Cardinality(S) + Cardinality(C)
  <2>1. Cardinality(S \cap C) = 0
    BY <1>3, FS_EmptySet
  <2>2. Cardinality(S) \in Nat /\ Cardinality(C) \in Nat
    BY <1>4, FS_CardinalityType
  <2>3. Cardinality(S \cup C) = Cardinality(S) + Cardinality(C) - Cardinality(S \cap C)
    BY <1>4, FS_Union
  <2>4. QED
    BY <2>1, <2>2, <2>3
<1>6. Cardinality(S \cup C) <= Cardinality(Calls)
  BY <1>1, <1>3, FS_Subset
<1>7. IsFiniteSet(T) /\ Cardinality(T) <= Cardinality(S)
  <2>1. PICK f : f = [q \in S |-> c[q].address]
    OBVIOUS
  <2>2. f \in Surjection(S, T)
    BY <1>2, <2>1 DEF Surjection, Saved
  <2>3. QED
    BY <1>4, <2>2, FS_Surjection
<1>8. /\ Cardinality(S) \in Nat /\ Cardinality(C) \in Nat /\ Cardinality(T) \in Nat
      /\ Cardinality(Calls) \in Nat
  BY <1>1, <1>4, <1>7, FS_CardinalityType
<1>9. QED
  BY <1>2, <1>4, <1>5, <1>6, <1>7, <1>8

LEMMA Counts ==
  /\ MaxAddresses \in Nat /\ MaxAddresses >= 1
  /\ Cardinality(Calls) \in Nat
BY AddressAssumption, FS_CardinalityType

LEMMA Empty ==
  /\ NoCall \in Call /\ NoRecord \in Address
  /\ NoCall.step = "idle" /\ NoCall.shopper = NoShopper /\ NoCall.address = NoAddress
  /\ NoCall.alone = FALSE /\ NoRecord.owner = NoShopper /\ NoRecord.default = FALSE
BY AddressAssumption DEF NoCall, Call, NoRecord, Address

\* A step that claims no more leaves the room.
LEMMA RoomStays ==
  ASSUME NEW u, Room(u), Book(u)' \subseteq Claimed(u), Saved(call, u)' \subseteq Claimed(u),
         Creating(call, u)' \subseteq Creating(call, u)
  PROVE  Room(u)'
<1>1. IsFiniteSet(Claimed(u)) /\ IsFiniteSet(Creating(call, u))
  BY PendingFit, FS_Union DEF Room, Claimed
<1>2. Claimed(u)' \subseteq Claimed(u)
  BY DEF Claimed
<1>3. IsFiniteSet(Book(u)') /\ IsFiniteSet(Claimed(u)') /\ IsFiniteSet(Creating(call, u)')
      /\ Cardinality(Claimed(u)') <= Cardinality(Claimed(u))
      /\ Cardinality(Creating(call, u)') <= Cardinality(Creating(call, u))
  BY <1>1, <1>2, FS_Subset
<1>4. /\ Cardinality(Claimed(u)) \in Nat /\ Cardinality(Claimed(u)') \in Nat
      /\ Cardinality(Creating(call, u)) \in Nat /\ Cardinality(Creating(call, u)') \in Nat
  BY <1>1, <1>3, FS_CardinalityType
<1>5. Cardinality(Claimed(u)') + Cardinality(Creating(call, u)') <=
        MaxAddresses + Cardinality(Calls) - 1
  BY <1>3, <1>4, Counts DEF Room
<1>6. QED
  BY <1>3, <1>5 DEF Room

\* What a request has counted leaves room for all that may run with it.
LEMMA RoomFound ==
  ASSUME NEW u, IsFiniteSet(Book(u)), Cardinality(Book(u)) < MaxAddresses, UNCHANGED address
  PROVE  Room(u)'
<1>1. PICK B, T, C : B = Book(u)' /\ T = Saved(call', u) /\ C = Creating(call', u)
  OBVIOUS
<1>2. IsFiniteSet(B) /\ Cardinality(B) < MaxAddresses
  BY <1>1 DEF Book
<1>3. /\ IsFiniteSet(T) /\ Cardinality(T) + Cardinality(C) <= Cardinality(Calls)
      /\ Cardinality(T) \in Nat /\ Cardinality(C) \in Nat
  BY <1>1, PendingFit
<1>4. /\ Cardinality(B \cup T) = Cardinality(B) + Cardinality(T) - Cardinality(B \cap T)
      /\ IsFiniteSet(B \cap T)
  BY <1>2, <1>3, FS_Union, FS_Subset
<1>5. Cardinality(B) \in Nat /\ Cardinality(B \cap T) \in Nat
  BY <1>2, <1>4, FS_CardinalityType
<1>6. Cardinality(B \cup T) + Cardinality(C) <= MaxAddresses + Cardinality(Calls) - 1
  BY <1>2, <1>3, <1>4, <1>5, Counts
<1>7. QED
  BY <1>1, <1>2, <1>6 DEF Room, Claimed

-----------------------------------------------------------------------------
\* A request starts, from the address it has read.
LEMMA SentKeeps ==
  ASSUME BooksInv, NEW q \in Calls, NEW u \in Shoppers,
         NEW step \in {"creating", "saving", "marking", "deleting"},
         NEW a \in AddressIds \cup {NoAddress}, NEW new \in Address, Send(q, step, u, a, new),
         IF step = "creating"
         THEN /\ Cardinality(Book(u)) < MaxAddresses /\ a = NoAddress
              /\ new = [owner |-> u, default |-> FALSE]
         ELSE a \in Book(u) /\ (step = "saving" => new = address[a])
  PROVE  BooksInv'
<1> USE AddressAssumption
<1>1. PICK b \in BOOLEAN : b = (\A y \in Calls : call[y].shopper # u)
  OBVIOUS
<1>2. PICK c : c = [step |-> step, shopper |-> u, address |-> a, new |-> new, alone |-> b]
  OBVIOUS
<1>3. c \in Call /\ c.step = step /\ c.shopper = u /\ c.address = a /\ c.new = new /\ c.alone = b
  BY <1>2 DEF Call
<1>4. /\ address \in [AddressIds -> Address] /\ call \in [Calls -> Call]
      /\ UNCHANGED <<address, disputed>> /\ call[q].step = "idle"
      /\ call' = [x \in Calls |-> IF x = q THEN c
                                  ELSE [call[x] EXCEPT !.alone = @ /\ call[x].shopper # u]]
  BY <1>1, <1>2 DEF BooksInv, AddressesTypeOK, Send
<1>5. ASSUME NEW x \in Calls \ {q}
      PROVE  /\ call'[x] \in Call
             /\ call'[x].step = call[x].step /\ call'[x].shopper = call[x].shopper
             /\ call'[x].address = call[x].address /\ call'[x].new = call[x].new
             /\ call'[x].alone => call[x].alone /\ call[x].shopper # u
  <2>1. PICK e \in BOOLEAN : e = (call[x].alone /\ call[x].shopper # u)
    OBVIOUS
  <2>2. call'[x] = [call[x] EXCEPT !.alone = e] /\ call[x] \in Call
    BY <1>4, <2>1
  <2>3. QED
    BY <2>1, <2>2 DEF Call
<1>6. call'[q] = c /\ call' \in [Calls -> Call]
  BY <1>3, <1>4, <1>5
<1>7. AddressesTypeOK'
  BY <1>4, <1>6 DEF BooksInv, AddressesTypeOK
<1>8. ASSUME NEW v \in Shoppers
      PROVE  Room(v)'
  <2>1. Book(v)' = Book(v) /\ Room(v)
    BY <1>4 DEF Book, BooksInv
  <2>2. CASE step = "creating" /\ v = u
    BY <1>4, <2>1, <2>2, RoomFound DEF Room
  <2>3. CASE ~(step = "creating" /\ v = u)
    <3>1. Saved(call', v) \subseteq Claimed(v)
      <4>1. ASSUME NEW x \in Calls, call'[x].step = "saving", call'[x].shopper = v
            PROVE  call'[x].address \in Claimed(v)
        <5>1. CASE x = q
          BY <1>3, <1>6, <4>1, <5>1 DEF Claimed
        <5>2. CASE x # q
          BY <1>5, <4>1, <5>2 DEF Claimed, Saved, Saving
        <5>3. QED
          BY <5>1, <5>2
      <4>2. QED
        BY <4>1 DEF Saved, Saving
    <3>2. Creating(call', v) \subseteq Creating(call, v)
      BY <1>3, <1>5, <1>6, <2>3 DEF Creating
    <3>3. QED
      BY <2>1, <3>1, <3>2, RoomStays DEF Claimed
  <2>4. QED
    BY <2>2, <2>3
<1>9. ASSUME NEW x \in Calls
      PROVE  Carries(x)'
  <2>1. CASE x = q
    <3>1. b => \A y \in Calls \ {q} : call'[y].shopper # u
      BY <1>1, <1>5
    <3>2. a \in AddressIds => address[a].owner = u /\ step # "creating"
      BY DEF Book
    <3>3. QED
      BY <1>3, <1>4, <1>6, <2>1, <3>1, <3>2 DEF Carries, Book
  <2>2. CASE x # q
    <3>1. Carries(x)
      BY DEF BooksInv
    <3>2. call[x].shopper # u /\ (\A y \in Calls \ {x} : call[y].shopper # call[x].shopper) =>
            \A y \in Calls \ {x} : call'[y].shopper # call[x].shopper
      BY <1>3, <1>5, <1>6
    <3>3. QED
      BY <1>4, <1>5, <2>2, <3>1, <3>2 DEF Carries
  <2>3. QED
    BY <2>1, <2>2
<1>10. \A v \in Shoppers \ disputed' : OnlyDefault(v)'
  BY <1>4 DEF BooksInv, OnlyDefault, Defaults, Book
<1>11. OneCustomer'
  <2>1. a \in AddressIds => address[a].owner = u
    BY DEF Book
  <2>2. \A x \in Calls : call[x].address = a /\ a \in AddressIds => call[x].shopper = u
    BY <2>1 DEF BooksInv, Carries
  <2>3. QED
    BY <1>3, <1>5, <1>6, <2>2 DEF BooksInv, OneCustomer
<1>12. QED
  BY <1>7, <1>8, <1>9, <1>10, <1>11 DEF BooksInv

LEMMA CallStartKeeps ==
  ASSUME BooksInv, NEW q \in Calls, CallStarts(q)
  PROVE  BooksInv'
<1>1. address \in [AddressIds -> Address] /\ NoRecord \in Address
  BY Empty DEF BooksInv, AddressesTypeOK
<1>2. PICK u \in Shoppers :
        \/ CreateAddress(q, u)
        \/ \E a \in AddressIds :
             UpdateAddress(q, u, a) \/ SetDefaultAddress(q, u, a) \/ DeleteAddress(q, u, a)
  BY DEF CallStarts
<1>3. CASE CreateAddress(q, u)
  <2>1. [owner |-> u, default |-> FALSE] \in Address
    BY DEF Address
  <2>2. QED
    BY <1>3, <2>1, SentKeeps DEF CreateAddress
<1>4. ASSUME NEW a \in AddressIds,
             UpdateAddress(q, u, a) \/ SetDefaultAddress(q, u, a) \/ DeleteAddress(q, u, a)
      PROVE  BooksInv'
  <2>1. a \in Book(u) /\ address[a] \in Address
    BY <1>1, <1>4 DEF UpdateAddress, SetDefaultAddress, DeleteAddress, Owned, Book
  <2>2. CASE UpdateAddress(q, u, a)
    BY <1>1, <2>1, <2>2, SentKeeps DEF UpdateAddress
  <2>3. CASE SetDefaultAddress(q, u, a)
    BY <1>1, <2>1, <2>3, SentKeeps DEF SetDefaultAddress
  <2>4. CASE DeleteAddress(q, u, a)
    BY <1>1, <2>1, <2>4, SentKeeps DEF DeleteAddress
  <2>5. QED
    BY <1>4, <2>2, <2>3, <2>4
<1>5. QED
  BY <1>2, <1>3, <1>4

\* A request executes its second statement, or dies, and is over: the books of
\* other customers are as they were, and so is every row others hold.
LEMMA AnsweredKeeps ==
  ASSUME BooksInv, NEW q \in Calls, call' = Answered(q), AddressesTypeOK',
         \A u \in Shoppers : Room(u)',
         \A u \in Shoppers \ disputed' : OnlyDefault(u)',
         call[q].step # "idle",
         \A a \in AddressIds :
           \/ address'[a] = address[a]
           \/ \A x \in Calls : call[x].address # a
           \/ /\ address'[a].owner \in {call[q].shopper, NoShopper}
              /\ a = call[q].address \/ address[a].owner = call[q].shopper
  PROVE  BooksInv'
<1> USE AddressAssumption
<1>1. /\ call \in [Calls -> Call] /\ call'[q] = NoCall
      /\ \A x \in Calls \ {q} : call'[x] = call[x]
  BY DEF BooksInv, AddressesTypeOK, Answered
<1>2. Carries(q)'
  BY <1>1, Empty DEF Carries
<1>3. call[q].shopper \in Shoppers
  BY DEF BooksInv, Carries
<1>4. ASSUME NEW x \in Calls \ {q}
      PROVE  Carries(x)'
  <2>1. PICK c \in Call : c = call[x]
    BY <1>1
  <2>2. Carries(x) /\ Carries(q) /\ call'[x] = c
    BY <1>1, <2>1 DEF BooksInv
  <2>3. c.address \in AddressIds =>
          \/ address'[c.address] = address[c.address]
          \/ /\ address'[c.address].owner \in {call[q].shopper, NoShopper}
             /\ c.shopper = call[q].shopper
    <3>1. SUFFICES ASSUME c.address \in AddressIds, address'[c.address] # address[c.address]
                   PROVE  /\ address'[c.address].owner \in {call[q].shopper, NoShopper}
                          /\ c.shopper = call[q].shopper
      OBVIOUS
    <3>2. CASE c.address = call[q].address
      BY <2>1, <3>1, <3>2 DEF BooksInv, OneCustomer
    <3>3. CASE address[c.address].owner = call[q].shopper
      BY <1>3, <2>1, <2>2, <3>1, <3>3 DEF Carries
    <3>4. QED
      BY <2>1, <3>1, <3>2, <3>3
  <2>4. c.alone => c.shopper # call[q].shopper /\ \A y \in Calls \ {x} : call'[y].shopper # c.shopper
    <3>1. c.alone => c.shopper \in Shoppers
      BY <2>1, <2>2 DEF Carries
    <3>2. QED
      BY <1>1, <2>1, <2>2, <3>1, Empty DEF Carries
  <2>5. QED
    BY <2>1, <2>2, <2>3, <2>4 DEF Carries
<1>5. OneCustomer'
  BY <1>1, Empty DEF BooksInv, OneCustomer
<1>6. QED
  BY <1>2, <1>4, <1>5 DEF BooksInv

\* Ending a request leaves fewer claims and insertions to come.
LEMMA AnsweredClaims ==
  ASSUME BooksInv, NEW q \in Calls, call' = Answered(q), NEW u
  PROVE  /\ Saved(call', u) \subseteq Saved(call, u)
         /\ Creating(call', u) = Creating(call, u) \ {q}
<1>1. /\ call'[q] = NoCall /\ \A x \in Calls \ {q} : call'[x] = call[x]
  BY DEF BooksInv, AddressesTypeOK, Answered
<1>2. QED
  BY <1>1, Empty DEF Saved, Saving, Creating

\* A new address takes the place of the insertion that was to come.
LEMMA InsertKeeps ==
  ASSUME BooksInv, NEW q \in Calls, NEW a \in AddressIds, InsertAddress(q, a)
  PROVE  BooksInv'
<1> USE AddressAssumption
<1>1. PICK c : c = call[q]
  OBVIOUS
<1>2. /\ c \in Call /\ Carries(q) /\ c.step = "creating" /\ c.shopper \in Shoppers
      /\ c.new = [owner |-> c.shopper, default |-> FALSE] /\ c.new \in Address
      /\ address \in [AddressIds -> Address] /\ address[a] = NoRecord
      /\ \A x \in Calls : call[x].address # a
      /\ address' = [address EXCEPT ![a] = c.new] /\ call' = Answered(q) /\ UNCHANGED disputed
  BY <1>1 DEF BooksInv, AddressesTypeOK, Carries, InsertAddress, Call
<1>3. /\ address'[a].owner = c.shopper /\ address'[a].default = FALSE
      /\ \A b \in AddressIds \ {a} : address'[b] = address[b]
      /\ address[a].owner = NoShopper
  BY <1>2, Empty
<1>4. AddressesTypeOK'
  BY <1>2, Empty DEF BooksInv, AddressesTypeOK, Answered
<1>5. ASSUME NEW u \in Shoppers
      PROVE  Room(u)'
  <2>1. Room(u) /\ Saved(call, u)' \subseteq Saved(call, u)
        /\ Creating(call, u)' = Creating(call, u) \ {q}
    BY <1>2, AnsweredClaims DEF BooksInv
  <2>2. CASE u # c.shopper
    <3>1. Book(u)' = Book(u)
      BY <1>3, <2>2 DEF Book
    <3>2. QED
      BY <2>1, <3>1, RoomStays DEF Claimed
  <2>3. CASE u = c.shopper
    <3>1. Book(u)' = Book(u) \cup {a}
      BY <1>3, <2>3 DEF Book
    <3>2. PICK S, C : S = Claimed(u) /\ C = Creating(call, u)
      OBVIOUS
    <3>3. IsFiniteSet(S) /\ IsFiniteSet(C) /\ IsFiniteSet(Book(u)) /\ q \in C
      <4>1. q \in C
        BY <1>1, <1>2, <2>3, <3>2 DEF Creating
      <4>2. IsFiniteSet(Book(u)) /\ IsFiniteSet(Saved(call, u)) /\ IsFiniteSet(C)
        BY <2>1, <3>2, PendingFit DEF Room
      <4>3. IsFiniteSet(S)
        BY <3>2, <4>2, FS_Union DEF Claimed
      <4>4. QED
        BY <4>1, <4>2, <4>3
    <3>4. IsFiniteSet(S \cup {a}) /\ Cardinality(S \cup {a}) <= Cardinality(S) + 1
          /\ Cardinality(C \ {q}) = Cardinality(C) - 1
          /\ Cardinality(S) \in Nat /\ Cardinality(C) \in Nat
      <4>1. Cardinality(S) \in Nat /\ Cardinality(C) \in Nat
        BY <3>3, FS_CardinalityType
      <4>2. IsFiniteSet(S \cup {a}) /\ Cardinality(S \cup {a}) <= Cardinality(S) + 1
        <5>1. /\ IsFiniteSet(S \cup {a})
              /\ Cardinality(S \cup {a}) = IF a \in S THEN Cardinality(S) ELSE Cardinality(S) + 1
          BY <3>3, FS_AddElement
        <5>2. QED
          BY <4>1, <5>1
      <4>3. Cardinality(C \ {q}) = Cardinality(C) - 1
        BY <3>3, FS_RemoveElement
      <4>4. QED
        BY <4>1, <4>2, <4>3
    <3>5. Claimed(u)' \subseteq S \cup {a}
      BY <2>1, <3>1, <3>2 DEF Claimed
    <3>6. Cardinality(Claimed(u)') <= Cardinality(S \cup {a}) /\ IsFiniteSet(Claimed(u)')
      BY <3>4, <3>5, FS_Subset
    <3>7. Cardinality(Claimed(u)') \in Nat /\ Cardinality(S \cup {a}) \in Nat
      BY <3>4, <3>6, FS_CardinalityType
    <3>8. Cardinality(S) + Cardinality(C) <= MaxAddresses + Cardinality(Calls) - 1
      BY <2>1, <3>2 DEF Room
    <3>9. Cardinality(Claimed(u)') + (Cardinality(C) - 1) <= MaxAddresses + Cardinality(Calls) - 1
      BY <3>4, <3>6, <3>7, <3>8, Counts
    <3>10. IsFiniteSet(Book(u)')
      BY <3>1, <3>3, FS_AddElement
    <3>11. Cardinality(Creating(call, u)') = Cardinality(C) - 1
      BY <2>1, <3>2, <3>4
    <3>12. QED
      BY <3>9, <3>10, <3>11 DEF Room
  <2>4. QED
    BY <2>2, <2>3
<1>6. \A u \in Shoppers \ disputed' : OnlyDefault(u)'
  BY <1>2, <1>3 DEF BooksInv, OnlyDefault, Defaults, Book
<1>7. \A b \in AddressIds : address'[b] = address[b] \/ \A x \in Calls : call[x].address # b
  BY <1>2, <1>3
<1>8. QED
  BY <1>1, <1>2, <1>4, <1>5, <1>6, <1>7, AnsweredKeeps

\* A save writes the address the request holds: what it found, if it was alone.
LEMMA SaveKeeps ==
  ASSUME BooksInv, NEW q \in Calls, SaveAddress(q)
  PROVE  BooksInv'
<1> USE AddressAssumption
<1>1. PICK c, a : c = call[q] /\ a = c.address
  OBVIOUS
<1>2. /\ c \in Call /\ Carries(q) /\ c.step = "saving" /\ c.shopper \in Shoppers
      /\ a \in AddressIds /\ c.new.owner = c.shopper /\ c.new \in Address
      /\ c.alone => address[a] = c.new
      /\ address \in [AddressIds -> Address]
      /\ address[a].owner \in {c.shopper, NoShopper}
      /\ address' = [address EXCEPT ![a] = c.new] /\ call' = Answered(q)
      /\ disputed' = IF c.alone THEN disputed ELSE disputed \cup {c.shopper}
  BY <1>1 DEF BooksInv, AddressesTypeOK, Carries, SaveAddress, Call
<1>3. /\ address'[a] = c.new /\ \A b \in AddressIds \ {a} : address'[b] = address[b]
  BY <1>2
<1>4. AddressesTypeOK'
  BY <1>2, Empty DEF BooksInv, AddressesTypeOK, Answered
<1>5. ASSUME NEW u \in Shoppers
      PROVE  Room(u)'
  <2>1. Room(u) /\ Saved(call, u)' \subseteq Saved(call, u)
        /\ Creating(call, u)' \subseteq Creating(call, u)
    BY <1>2, AnsweredClaims DEF BooksInv
  <2>2. Book(u)' \subseteq Claimed(u)
    <3>1. u = c.shopper => a \in Saved(call, u)
      BY <1>1, <1>2 DEF Saved, Saving
    <3>2. QED
      BY <1>2, <1>3, <3>1 DEF Book, Claimed
  <2>3. QED
    BY <2>1, <2>2, RoomStays DEF Claimed
<1>6. \A u \in Shoppers \ disputed' : OnlyDefault(u)'
  <2>1. CASE c.alone
    <3>1. \A b \in AddressIds : address'[b] = address[b]
      BY <1>2, <1>3, <2>1
    <3>2. QED
      BY <1>2, <2>1, <3>1 DEF BooksInv, OnlyDefault, Defaults, Book
  <2>2. CASE ~c.alone
    <3>1. ASSUME NEW u \in Shoppers \ disputed'
          PROVE  OnlyDefault(u) /\ Defaults(u)' \subseteq Defaults(u)
      BY <1>2, <1>3, <2>2 DEF BooksInv, Defaults, Book
    <3>2. QED
      BY <3>1 DEF OnlyDefault
  <2>3. QED
    BY <2>1, <2>2
<1>7. \A b \in AddressIds :
        \/ address'[b] = address[b]
        \/ address'[b].owner \in {call[q].shopper, NoShopper} /\ b = call[q].address
  BY <1>1, <1>2, <1>3
<1>8. QED
  BY <1>1, <1>2, <1>4, <1>5, <1>6, <1>7, AnsweredKeeps

\* Marking the default leaves the one marked, whatever the book was like.
LEMMA MarkKeeps ==
  ASSUME BooksInv, NEW q \in Calls, MarkDefault(q)
  PROVE  BooksInv'
<1> USE AddressAssumption
<1>1. PICK c : c = call[q]
  OBVIOUS
<1>2. /\ c \in Call /\ Carries(q) /\ c.step = "marking" /\ c.shopper \in Shoppers
      /\ address \in [AddressIds -> Address]
      /\ address' = [a \in AddressIds |->
            IF a \in Book(c.shopper) THEN [address[a] EXCEPT !.default = (a = c.address)]
            ELSE address[a]]
      /\ call' = Answered(q) /\ disputed' = disputed \ {c.shopper}
  BY <1>1 DEF BooksInv, AddressesTypeOK, Carries, MarkDefault
<1>3. ASSUME NEW a \in AddressIds
      PROVE  /\ address'[a] \in Address /\ address'[a].owner = address[a].owner
             /\ a \in Book(c.shopper) => address'[a].default = (a = c.address)
             /\ a \notin Book(c.shopper) => address'[a] = address[a]
  <2>1. PICK b \in BOOLEAN : b = (a = c.address)
    OBVIOUS
  <2>2. address'[a] = IF a \in Book(c.shopper) THEN [address[a] EXCEPT !.default = b] ELSE address[a]
    BY <1>2, <2>1
  <2>3. address[a] \in Address
    BY <1>2
  <2>4. PICK n : n = [address[a] EXCEPT !.default = b]
    OBVIOUS
  <2>5. n \in Address /\ n.owner = address[a].owner /\ n.default = b
    BY <2>1, <2>3, <2>4 DEF Address
  <2>6. QED
    BY <2>1, <2>2, <2>3, <2>4, <2>5
<1>4. AddressesTypeOK'
  <2>1. address' \in [AddressIds -> Address]
    BY <1>2, <1>3
  <2>2. QED
    BY <1>2, <2>1, Empty DEF BooksInv, AddressesTypeOK, Answered
<1>5. \A u : Book(u)' = Book(u)
  BY <1>3 DEF Book
<1>6. \A u \in Shoppers : Room(u)'
  BY <1>2, <1>5, AnsweredClaims, RoomStays DEF BooksInv, Claimed
<1>7. ASSUME NEW u \in Shoppers \ disputed'
      PROVE  OnlyDefault(u)'
  <2>1. CASE u = c.shopper
    <3>1. \A a \in Defaults(u)' : a = c.address
      <4>1. ASSUME NEW a \in Defaults(u)'
            PROVE  a = c.address
        <5>1. a \in AddressIds /\ a \in Book(c.shopper) /\ address'[a].default
          BY <1>5, <2>1 DEF Defaults, Book
        <5>2. address'[a].default = (a = c.address)
          BY <1>3, <5>1
        <5>3. QED
          BY <5>1, <5>2
      <4>2. QED
        BY <4>1
    <3>2. QED
      BY <3>1 DEF OnlyDefault
  <2>2. CASE u # c.shopper
    <3>1. \A a \in Book(u) : address'[a] = address[a]
      BY <1>3, <2>2 DEF Book
    <3>2. OnlyDefault(u)
      BY <1>2, <2>2 DEF BooksInv
    <3>3. Defaults(u)' \subseteq Defaults(u)
      BY <1>5, <3>1 DEF Defaults
    <3>4. QED
      BY <3>2, <3>3 DEF OnlyDefault
  <2>3. QED
    BY <2>1, <2>2
<1>8. \A a \in AddressIds :
        \/ address'[a] = address[a]
        \/ address'[a].owner \in {call[q].shopper, NoShopper} /\ address[a].owner = call[q].shopper
  BY <1>1, <1>3 DEF Book
<1>9. QED
  BY <1>1, <1>2, <1>4, <1>6, <1>7, <1>8, AnsweredKeeps

LEMMA RemoveKeeps ==
  ASSUME BooksInv, NEW q \in Calls, RemoveAddress(q) \/ CallDies(q)
  PROVE  BooksInv'
<1> USE AddressAssumption
<1>1. PICK c, a : c = call[q] /\ a = c.address
  OBVIOUS
<1>2. /\ c \in Call /\ Carries(q) /\ c.step # "idle"
      /\ address \in [AddressIds -> Address] /\ call \in [Calls -> Call]
      /\ call' = Answered(q) /\ UNCHANGED disputed
  BY <1>1 DEF BooksInv, AddressesTypeOK, RemoveAddress, CallDies
<1>3. /\ address' \in [AddressIds -> Address]
      /\ \A b \in AddressIds :
           address'[b] = address[b] \/ (address'[b] = NoRecord /\ b = a)
  BY <1>1, <1>2, Empty DEF RemoveAddress, CallDies
<1>4. AddressesTypeOK'
  BY <1>2, <1>3, Empty DEF BooksInv, AddressesTypeOK, Answered
<1>5. \A u \in Shoppers : Book(u)' \subseteq Book(u) /\ Defaults(u)' \subseteq Defaults(u)
  BY <1>3, Empty DEF Book, Defaults
<1>6. \A u \in Shoppers : Room(u)'
  BY <1>2, <1>5, AnsweredClaims, RoomStays DEF BooksInv, Claimed
<1>7. \A u \in Shoppers \ disputed' : OnlyDefault(u)'
  BY <1>2, <1>5 DEF BooksInv, OnlyDefault
<1>8. \A b \in AddressIds :
        \/ address'[b] = address[b]
        \/ address'[b].owner \in {call[q].shopper, NoShopper} /\ b = call[q].address
  BY <1>1, <1>3, Empty
<1>9. QED
  BY <1>1, <1>2, <1>4, <1>6, <1>7, <1>8, AnsweredKeeps

LEMMA BooksStart == AddressesInit => BooksInv
<1> USE AddressAssumption
<1> SUFFICES ASSUME AddressesInit PROVE BooksInv
  OBVIOUS
<1>1. /\ address \in [AddressIds -> Address] /\ call \in [Calls -> Call] /\ disputed = {}
      /\ \A a \in AddressIds : address[a].owner = NoShopper
      /\ \A q \in Calls : /\ call[q].step = "idle" /\ call[q].address = NoAddress
                          /\ ~call[q].alone
  BY Empty DEF AddressesInit
<1>2. ASSUME NEW u \in Shoppers
      PROVE  Room(u) /\ OnlyDefault(u)
  <2>1. Book(u) = {} /\ Claimed(u) = {} /\ Creating(call, u) = {}
    BY <1>1 DEF Book, Claimed, Saved, Saving, Creating
  <2>2. QED
    BY <2>1, FS_EmptySet, Counts DEF Room, OnlyDefault, Defaults
<1>3. QED
  BY <1>1, <1>2 DEF BooksInv, AddressesTypeOK, Carries, OneCustomer

LEMMA BooksSteps == BooksInv /\ [AddressesNext]_addressVars => BooksInv'
<1> SUFFICES ASSUME BooksInv, [AddressesNext]_addressVars PROVE BooksInv'
  OBVIOUS
<1>1. CASE UNCHANGED addressVars
  <2>1. UNCHANGED <<address, call, disputed>>
    BY <1>1 DEF addressVars
  <2>2. \A u : Book(u)' = Book(u) /\ Claimed(u)' = Claimed(u) /\ Defaults(u)' = Defaults(u)
    BY <2>1 DEF Claimed, Defaults, Book
  <2>3. \A u \in Shoppers : Room(u)'
    BY <2>1, <2>2 DEF BooksInv, Room
  <2>4. \A q \in Calls : Carries(q)'
    BY <2>1 DEF BooksInv, Carries
  <2>5. QED
    BY <2>1, <2>2, <2>3, <2>4 DEF BooksInv, AddressesTypeOK, OneCustomer, OnlyDefault
<1>2. QED
  BY <1>1, CallStartKeeps, InsertKeeps, SaveKeeps, MarkKeeps, RemoveKeeps DEF AddressesNext

LEMMA BooksHold == AddressesSpec => []BooksInv
BY BooksStart, BooksSteps, PTL DEF AddressesSpec

\* The book has no more addresses than are claimed.
LEMMA BooksFit ==
  ASSUME BooksInv
  PROVE  BooksInOrder
<1>1. ASSUME NEW u \in Shoppers
      PROVE  Cardinality(Book(u)) <= MaxAddresses + Cardinality(Calls) - 1
  <2>1. Room(u) /\ IsFiniteSet(Claimed(u)) /\ Book(u) \subseteq Claimed(u)
    BY PendingFit, FS_Union DEF BooksInv, Room, Claimed
  <2>2. Cardinality(Book(u)) <= Cardinality(Claimed(u))
    BY <2>1, FS_Subset
  <2>3. /\ Cardinality(Book(u)) \in Nat /\ Cardinality(Claimed(u)) \in Nat
        /\ Cardinality(Creating(call, u)) \in Nat
    BY <2>1, FS_CardinalityType, PendingFit DEF Room
  <2>4. QED
    BY <2>1, <2>2, <2>3, Counts DEF Room
<1>2. ASSUME NEW u \in Shoppers \ disputed
      PROVE  Cardinality(Defaults(u)) <= 1
  <2>1. Defaults(u) = {} \/ \E a : Defaults(u) = {a}
    BY DEF BooksInv, OnlyDefault
  <2>2. CASE Defaults(u) = {}
    BY <2>2, FS_EmptySet
  <2>3. ASSUME NEW a, Defaults(u) = {a}
        PROVE  Cardinality(Defaults(u)) <= 1
    BY <2>3, FS_Singleton
  <2>4. QED
    BY <2>1, <2>2, <2>3
<1>3. QED
  BY <1>1, <1>2 DEF BooksInOrder, LimitHolds, OneDefault

-----------------------------------------------------------------------------
\* However requests overlap or die: a book passes its limit by no more than the
\* requests that run at once, less one, and has two defaults only after an
\* overlapping save, until one is marked again.
THEOREM BooksStayInOrder == AddressesSpec => []BooksInOrder
BY BooksHold, BooksFit, PTL

-----------------------------------------------------------------------------
\* The three together.

\* None of the three writes the rows of another, so each behaves as it does by
\* itself, and every theorem above holds of the whole.
THEOREM AccountsCompose == AccountsSpec => Spec /\ StaffSpec /\ AddressesSpec
<1>1. AccountsInit => Init /\ StaffInit /\ AddressesInit
  BY DEF AccountsInit
<1>2. [AccountsNext]_accountsVars =>
        [Next]_vars /\ [StaffNext]_staffVars /\ [AddressesNext]_addressVars
  BY DEF AccountsNext, accountsVars
<1>3. QED
  BY <1>1, <1>2, PTL DEF AccountsSpec, Spec, StaffSpec, AddressesSpec

\* Every row of the accounts, the staff and the addresses is of its table's
\* type, and every request of its use case's.
THEOREM AccountsTyped == AccountsSpec => []AccountsTypeOK
<1>1. SessionsInv /\ StaffInv /\ BooksInv => AccountsTypeOK
  BY DEF SessionsInv, StaffInv, BooksInv, AccountsTypeOK
<1>2. QED
  BY <1>1, AccountsCompose, SessionsHold, StaffHolds, BooksHold, PTL
=============================================================================
