---------------------------- MODULE AccountsProofs ----------------------------
(***************************************************************************)
(* Proofs about Accounts, for all sets of requests, names and addresses    *)
(* and every MaxAttempts, MaxRequests and MaxFaults.  Typed is the         *)
(* invariant that the others rest on; each section adds its own to it.     *)
(***************************************************************************)
EXTENDS Accounts, SequenceTheorems, FiniteSetTheorems, TLAPS

-------------------------------------------------------------------------------
(* The inductive invariant of the types: what every statement may rely on, *)
(* and the account of what requests may still use up.                      *)

\* What the statement that a request has reached may rely on; rows: the ids of
\* the users there are.
WellPlaced(q, rows) ==
    /\ q.at = "idle" => q = Idle
    /\ q.at \in {"count", "insert"} => q.op = "register" /\ q.name \in Names
    /\ q.at = "persist" => q.op = "login" /\ q.user \in rows /\ q.params # 0
    /\ q.at = "update" => q.op = "changeUser" /\ q.user \in rows /\ q.name \in Names
    /\ q.at = "password" =>
           /\ q.user \in rows
           /\ q.op = "changePassword" \/ (q.op = "confirmReset" /\ q.code # 0)
    /\ q.at \in {"cooldown", "upsert", "mail", "unsend"} =>
           q.op = "requestReset" /\ q.user \in rows
    /\ q.at \in {"upsert", "mail", "unsend"} => q.code # 0
    /\ q.at \in {"compare", "attempts", "drop"} =>
           q.op = "confirmReset" /\ q.user \in rows
    /\ q.at = "attempts" => q.attempts # 0

PlaceInv == \A r \in Requests : WellPlaced(req[r], Rows)

\* Requests that may still insert a user, write a password or take a new code.
Spending == Places \ {"idle", "upsert", "mail", "unsend"}
Pending == {r \in Requests : req[r].at \in Spending}

\* Each of them uses up one of the requests that have begun.
CountInv ==
    /\ IsFiniteSet(Pending)
    /\ issued + Cardinality(Pending) <= begun
    /\ Len(users) + Cardinality(Pending) <= begun + 1
    /\ \A i \in Rows : users[i].secret + Cardinality(Pending) <= begun

Typed == TypeOK /\ PlaceInv /\ CountInv

-------------------------------------------------------------------------------
(* Lemmas about the statements.                                            *)

\* The rows of table "user" are numbered from 1.
LEMMA RowsTypes ==
    ASSUME TypeOK
    PROVE  /\ Rows = 1..Len(users)
           /\ Len(users) \in Nat
           /\ Rows \subseteq Ids
           /\ \A i \in Rows : users[i] \in UserRow
<1>1. users \in Seq(UserRow) /\ Len(users) \in Ids \union {0}
  BY DEF TypeOK
<1>2. Rows = 1..Len(users)
  BY <1>1 DEF Rows
<1>3. \A i \in 1..Len(users) : users[i] \in UserRow
  BY <1>1
<1>4. Len(users) \in Nat
  BY <1>1, ConstantsAssumption DEF Ids
<1>5. Rows \subseteq Ids
  BY <1>1, <1>2, <1>4, ConstantsAssumption DEF Ids
<1>6. QED
  BY <1>2, <1>3, <1>4, <1>5

\* An UPDATE of the row i gives a table again.
LEMMA UpdateRow ==
    ASSUME TypeOK, NEW i \in Rows, NEW row \in UserRow,
           users' = [users EXCEPT ![i] = row]
    PROVE  /\ users' \in Seq(UserRow)
           /\ Len(users') = Len(users)
           /\ Rows' = Rows
           /\ users'[i] = row
           /\ \A j \in Rows \ {i} : users'[j] = users[j]
<1>1. users \in Seq(UserRow) /\ Rows = 1..Len(users)
  BY RowsTypes DEF TypeOK
<1>2. /\ users' \in Seq(UserRow)
      /\ Len(users') = Len(users)
      /\ \A j \in 1..Len(users) : users'[j] = IF j = i THEN row ELSE users[j]
  BY <1>1, ExceptSeq
<1>3. Rows' = Rows
  BY <1>1, <1>2 DEF Rows
<1>4. QED
  BY <1>1, <1>2, <1>3

\* The row with another name and address.
NewName(row, n, e) == [row EXCEPT !.name = n, !.email = e]

\* UpdateUser gives row i a name and an address, and no more.
LEMMA Renames ==
    ASSUME TypeOK, NEW i \in Rows, NEW n \in Names, NEW e \in Emails \union {NoEmail},
           UpdateUser(i, n, e)
    PROVE  /\ NewName(users[i], n, e) \in UserRow
           /\ users' = [users EXCEPT ![i] = NewName(users[i], n, e)]
<1>1. users[i] \in UserRow
  BY RowsTypes
<1>2. QED
  BY <1>1 DEF UpdateUser, UserRow, NewName

\* UpdateUserPasswordHashParams writes one column of row i.
LEMMA WritesParams ==
    ASSUME TypeOK, NEW i \in Rows, NEW p \in Nat, UpdateUserPasswordHashParams(i, p)
    PROVE  /\ [users[i] EXCEPT !.parallelism = p] \in UserRow
           /\ users' = [users EXCEPT ![i] = [users[i] EXCEPT !.parallelism = p]]
<1>1. users[i] \in UserRow
  BY RowsTypes
<1>2. QED
  BY <1>1 DEF UpdateUserPasswordHashParams, UserRow

\* The row with the next password, its parameters and the next version.
NextPassword(row) ==
    [row EXCEPT !.secret = row.secret + 1, !.hashed = Parallelism,
                !.parallelism = Parallelism, !.version = row.version + 1]

\* It is a row, if it is within the bound.
LEMMA NextPasswordType ==
    ASSUME NEW row \in UserRow, row.secret < MaxRequests
    PROVE  NextPassword(row) \in UserRow
<1>1. row.secret \in 0..MaxRequests /\ row.version \in Nat
  BY DEF UserRow
<1>2. row.secret + 1 \in 0..MaxRequests /\ row.version + 1 \in Nat
  BY <1>1, ConstantsAssumption
<1>3. Parallelism \in Nat \ {0} /\ Parallelism \in Nat
  BY ConstantsAssumption
<1>4. QED
  BY <1>2, <1>3 DEF UserRow, NextPassword

\* UpdateUserPassword writes the row of the next password, and drops the code.
LEMMA WritesPassword ==
    ASSUME TypeOK, NEW i \in Rows, users[i].secret < MaxRequests, UpdateUserPassword(i)
    PROVE  /\ NextPassword(users[i]) \in UserRow
           /\ users' = [users EXCEPT ![i] = NextPassword(users[i])]
           /\ codes' = [codes EXCEPT ![i] = NoCode]
<1>1. users[i] \in UserRow
  BY RowsTypes
<1>3. NextPassword(users[i]) \in UserRow
  BY <1>1, NextPasswordType
<1>4. users' = [users EXCEPT ![i] = NextPassword(users[i])]
  BY <1>1 DEF UpdateUserPassword, UserRow, NextPassword
<1>5. QED
  BY <1>3, <1>4 DEF UpdateUserPassword

\* CreateUser adds a row to those there are.
NewUser(n, superuser) ==
    [name |-> n, email |-> NoEmail, secret |-> 0, hashed |-> Parallelism,
     parallelism |-> Parallelism, version |-> 0, superuser |-> superuser]

\* The new row comes last; the others stay.
LEMMA InsertsUser ==
    ASSUME TypeOK, NEW n \in Names, NEW b \in BOOLEAN, CreateUser(n, b)
    PROVE  /\ users' \in Seq(UserRow)
           /\ Len(users') = Len(users) + 1
           /\ Rows' = Rows \union {Len(users) + 1}
           /\ users'[Len(users) + 1] = NewUser(n, b)
           /\ \A j \in Rows : users'[j] = users[j]
<1>1. users \in Seq(UserRow) /\ Rows = 1..Len(users) /\ Len(users) \in Nat
  BY RowsTypes DEF TypeOK
<1>2. NewUser(n, b) \in UserRow
  BY ConstantsAssumption DEF NewUser, UserRow
<1>3. users' = Append(users, NewUser(n, b))
  BY DEF CreateUser, NewUser
<1>4. /\ users' \in Seq(UserRow)
      /\ Len(users') = Len(users) + 1
      /\ \A j \in 1..Len(users) : users'[j] = users[j]
      /\ users'[Len(users) + 1] = NewUser(n, b)
  BY <1>1, <1>2, <1>3, AppendProperties
<1>5. Rows' = 1..(Len(users) + 1)
  BY <1>4 DEF Rows
<1>6. QED
  BY <1>1, <1>4, <1>5

\* The reset code of a user is a row or none.
LEMMA CodeTypes ==
    ASSUME TypeOK, NEW i \in Ids
    PROVE  /\ codes[i] \in CodeRow \union {NoCode}
           /\ codes[i].code \in 0..MaxRequests
           /\ codes[i].attempts \in Nat
           /\ codes[i].guesses \in Nat
           /\ codes[i].crossed \in BOOLEAN
           /\ codes[i].live \in BOOLEAN
           /\ codes[i].cooling \in BOOLEAN
           /\ codes[i] # NoCode => codes[i] \in CodeRow /\ codes[i].code # 0
<1>1. codes[i] \in CodeRow \union {NoCode}
  BY DEF TypeOK
<1>2. CASE codes[i] = NoCode
  <2>1. NoCode.code = 0
    BY DEF NoCode
  <2>2. QED
    BY <1>1, <1>2, <2>1, ConstantsAssumption DEF NoCode
<1>3. CASE codes[i] \in CodeRow
  <2>1. codes[i].code \in 1..MaxRequests
    BY <1>3 DEF CodeRow, Codes
  <2>2. codes[i].code \in 0..MaxRequests /\ codes[i].code # 0
    BY <2>1, ConstantsAssumption
  <2>3. QED
    BY <1>1, <1>3, <2>2 DEF CodeRow
<1>4. QED
  BY <1>1, <1>2, <1>3

\* The request, of which only the one that takes a step changes.
LEMMA OneRequest ==
    ASSUME TypeOK, NEW r \in Requests, NEW q \in Request, req' = [req EXCEPT ![r] = q]
    PROVE  /\ req' \in [Requests -> Request]
           /\ req'[r] = q
           /\ \A s \in Requests \ {r} : req'[s] = req[s]
BY DEF TypeOK

\* A request that is over is a request.
LEMMA IdleRequest ==
    ASSUME NEW rows
    PROVE  Idle \in Request /\ WellPlaced(Idle, rows) /\ Idle.at \notin Spending
BY ConstantsAssumption DEF Idle, Request, WellPlaced, Spending, Ops, Places, Nobody

-------------------------------------------------------------------------------
(* What is left to requests.                                               *)

\* A pending request has room to insert a user, write a password, take a code.
LEMMA Room ==
    ASSUME Typed, NEW r \in Pending
    PROVE  /\ Len(users) < MaxRequests + 1
           /\ issued < MaxRequests
           /\ \A i \in Rows : users[i].secret < MaxRequests
           /\ begun # 0
<1>1. Cardinality(Pending) \in Nat /\ Cardinality(Pending) # 0
  BY FS_EmptySet, FS_CardinalityType DEF Typed, CountInv
<1>2. begun \in 0..MaxRequests /\ issued \in 0..MaxRequests /\ Len(users) \in Nat
  BY RowsTypes DEF Typed, TypeOK
<1>3. \A i \in Rows : users[i].secret \in Nat
  BY RowsTypes, ConstantsAssumption DEF Typed, UserRow
<1>4. QED
  BY <1>1, <1>2, <1>3, ConstantsAssumption DEF Typed, CountInv

\* A request that begins adds itself to the pending ones, one that makes its
\* last use of its claim leaves them, and no other step adds to them.
LEMMA PendingStep ==
    ASSUME Typed, NEW r \in Requests, NEW q \in Request, req' = [req EXCEPT ![r] = q]
    PROVE  /\ IsFiniteSet(Pending')
           /\ Cardinality(Pending) \in Nat /\ Cardinality(Pending') \in Nat
           /\ Cardinality(Pending') <= Cardinality(Pending) + 1
           /\ r \in Pending \/ q.at \notin Spending =>
                  Cardinality(Pending') <= Cardinality(Pending)
           /\ r \in Pending /\ q.at \notin Spending =>
                  Cardinality(Pending') = Cardinality(Pending) - 1
<1>1. IsFiniteSet(Pending) /\ Cardinality(Pending) \in Nat
  BY FS_CardinalityType DEF Typed, CountInv
<1>2. Pending' = IF q.at \in Spending THEN Pending \union {r} ELSE Pending \ {r}
  BY OneRequest DEF Pending, Typed
<1>3. CASE q.at \in Spending
  <2>1. Pending' = Pending \union {r}
    BY <1>2, <1>3
  <2>2. /\ IsFiniteSet(Pending')
        /\ Cardinality(Pending') = Cardinality(Pending)
               \/ Cardinality(Pending') = Cardinality(Pending) + 1
    BY <1>1, <2>1, FS_AddElement
  <2>3. r \in Pending => Pending' = Pending
    BY <2>1
  <2>4. QED
    BY <1>1, <1>3, <2>2, <2>3
<1>4. CASE q.at \notin Spending
  <2>1. Pending' = Pending \ {r}
    BY <1>2, <1>4
  <2>2. /\ IsFiniteSet(Pending')
        /\ Cardinality(Pending') = IF r \in Pending THEN Cardinality(Pending) - 1
                                                    ELSE Cardinality(Pending)
    BY <1>1, <2>1, FS_RemoveElement
  <2>3. Cardinality(Pending') \in Nat
    BY <2>2, FS_CardinalityType
  <2>4. QED
    BY <1>1, <1>4, <2>2, <2>3
<1>5. QED
  BY <1>3, <1>4

-------------------------------------------------------------------------------
(* What a step does to the request that takes it.                          *)

Serving == Ops \ {"none"}

\* Every error has a status.
LEMMA StatusType ==
    ASSUME NEW op \in Serving, NEW err
    PROVE  Status(op, err) \in Nat
BY DEF Serving, Ops, Status, RegisterStatus, LoginStatus, RefreshTokensStatus,
       RequestPasswordResetStatus, ConfirmPasswordResetStatus, ChangeUserStatus,
       ChangePasswordStatus

\* Request r goes on as q; a fault may happen and an answer may be given.
Moves(r, q) ==
    /\ req' = [req EXCEPT ![r] = q]
    /\ reply' \in Reply
    /\ faults' \in 0..MaxFaults
    /\ faults' <= faults

\* A fault is one of those that are left.
LEMMA FaultType ==
    ASSUME TypeOK, Fault \/ NoFault
    PROVE  faults' \in 0..MaxFaults /\ faults' <= faults
BY ConstantsAssumption DEF TypeOK, Fault, NoFault

\* A request that is answered is over.
LEMMA AnswerMoves ==
    ASSUME TypeOK, NEW r \in Requests, NEW op \in Serving, NEW err, NEW w \in BOOLEAN,
           Answer(r, op, err, w), Fault \/ NoFault
    PROVE  Moves(r, Idle)
<1>1. Status(op, err) \in Nat
  BY StatusType
<1>2. QED
  BY <1>1, FaultType DEF Answer, Moves, Reply

\* So is one whose statement fails.
LEMMA FailureMoves ==
    ASSUME TypeOK, NEW r \in Requests, NEW op \in Serving, NEW w \in BOOLEAN,
           Fails(r, op, w)
    PROVE  Moves(r, Idle)
BY AnswerMoves DEF Fails

\* A request goes on with its next statement.
LEMMA GoMoves ==
    ASSUME TypeOK, NEW r \in Requests, NEW q, Go(r, q), Fault \/ NoFault
    PROVE  Moves(r, q)
BY FaultType DEF Go, Moves, Reply, NoReply

\* Where the step of a request may lead it.
Leads(r, q) ==
    /\ q \in Request
    /\ Moves(r, q)
    /\ WellPlaced(q, Rows)
    /\ begun' = begun + 1 \/ r \in Pending \/ q.at \notin Spending

\* It is over, or at a statement that finds what it relies on, and pending only
\* if it was or has begun.
LEMMA BeginningLeads ==
    ASSUME Typed, NEW r \in Requests, Begins(r)
    PROVE  \E q \in Request : Leads(r, q)
<1> USE DEF Typed
<1>0. ASSUME Moves(r, Idle) PROVE Leads(r, Idle)
  BY <1>0, IdleRequest DEF Leads
<1>1. begun' = begun + 1
  BY DEF Begins
<1>2. \A q \in Request : Moves(r, q) /\ WellPlaced(q, Rows) => Leads(r, q)
  BY <1>1 DEF Leads
<1>3. ASSUME NEW n \in Names, Register(r, n) PROVE \E q \in Request : Leads(r, q)
  <2> DEFINE q == [Idle EXCEPT !.op = "register", !.at = "count", !.name = n,
                               !.first = (users = <<>>)]
  <2>1. Moves(r, q)
    BY <1>3, GoMoves DEF Register
  <2>2. q \in Request /\ WellPlaced(q, Rows)
    BY IdleRequest DEF Request, Idle, WellPlaced, Ops, Places
  <2>3. QED
    BY <1>2, <2>1, <2>2
<1>4. ASSUME NEW n \in Names, NEW s \in 0..MaxRequests, Login(r, n, s)
      PROVE  \E q \in Request : Leads(r, q)
  <2>1. ASSUME NEW i \in GetUserByUsername(n), users[i].parallelism = 0,
               Go(r, [Idle EXCEPT !.op = "login", !.at = "persist", !.user = i,
                          !.secret = s, !.version = users[i].version,
                          !.params = users[i].hashed]),
               NoFault
        PROVE  \E q \in Request : Leads(r, q)
    <3> DEFINE q == [Idle EXCEPT !.op = "login", !.at = "persist", !.user = i,
                          !.secret = s, !.version = users[i].version,
                          !.params = users[i].hashed]
    <3>1. i \in Rows /\ i \in Ids /\ users[i] \in UserRow
      BY <2>1, RowsTypes DEF GetUserByUsername
    <3>2. users[i].version \in Nat /\ users[i].hashed \in Nat \ {0}
      BY <3>1 DEF UserRow
    <3>3. q \in Request /\ WellPlaced(q, Rows)
      BY <3>1, <3>2, IdleRequest DEF Request, Idle, WellPlaced, Ops, Places
    <3>4. QED
      BY <1>2, <2>1, <3>3, GoMoves
  <2>2. "login" \in Serving
    BY DEF Serving, Ops
  <2>3. QED
    BY <1>0, <1>4, <2>1, <2>2, AnswerMoves, FailureMoves, IdleRequest DEF Login
<1>5. ASSUME NEW t \in tokens, UpdateTokens(r, t) PROVE \E q \in Request : Leads(r, q)
  <2>1. "refresh" \in Serving
    BY DEF Serving, Ops
  <2>2. QED
    BY <1>0, <1>5, <2>1, AnswerMoves, FailureMoves, IdleRequest DEF UpdateTokens
<1>6. ASSUME NEW c \in Rows, NEW i \in Rows, NEW n \in Names \union {Nobody},
             NEW e \in Emails \union {NoEmail, Nobody}, ChangeUser(r, c, i, n, e)
      PROVE  \E q \in Request : Leads(r, q)
  <2> DEFINE q == [Idle EXCEPT !.op = "changeUser", !.at = "update", !.user = i,
                        !.name = IF n = Nobody THEN users[i].name ELSE n,
                        !.email = IF e = Nobody THEN users[i].email ELSE e]
  <2>1. "changeUser" \in Serving
    BY DEF Serving, Ops
  <2>2. CASE Go(r, q) /\ NoFault
    <3>1. i \in Ids /\ users[i] \in UserRow
      BY RowsTypes
    <3>2. users[i].name \in Names /\ users[i].email \in Emails \union {NoEmail}
      BY <3>1 DEF UserRow
    <3> DEFINE name == IF n = Nobody THEN users[i].name ELSE n
               email == IF e = Nobody THEN users[i].email ELSE e
    <3>3. name \in Names /\ email \in Emails \union {NoEmail}
      BY <3>2
    <3>4. q = [Idle EXCEPT !.op = "changeUser", !.at = "update", !.user = i,
                           !.name = name, !.email = email]
      OBVIOUS
    <3> HIDE DEF q, name, email
    <3>5. q \in Request /\ WellPlaced(q, Rows)
      BY <3>1, <3>3, <3>4, IdleRequest DEF Request, Idle, WellPlaced, Ops, Places
    <3>6. QED
      BY <1>2, <2>2, <3>5, GoMoves DEF q
  <2>3. QED
    BY <1>0, <1>6, <2>1, <2>2, AnswerMoves, FailureMoves, IdleRequest
    DEF ChangeUser, Forbidden
<1>7. ASSUME NEW c \in Rows, NEW i \in Rows, NEW s \in 0..MaxRequests,
             ChangePassword(r, c, i, s)
      PROVE  \E q \in Request : Leads(r, q)
  <2> DEFINE q == [Idle EXCEPT !.op = "changePassword", !.at = "password", !.user = i,
                        !.secret = s]
  <2>1. "changePassword" \in Serving
    BY DEF Serving, Ops
  <2>2. CASE Go(r, q) /\ NoFault
    <3>1. i \in Ids
      BY RowsTypes
    <3>2. q \in Request /\ WellPlaced(q, Rows)
      BY <3>1, IdleRequest DEF Request, Idle, WellPlaced, Ops, Places
    <3>3. QED
      BY <1>2, <2>2, <3>2, GoMoves
  <2>3. QED
    BY <1>0, <1>7, <2>1, <2>2, AnswerMoves, FailureMoves, IdleRequest
    DEF ChangePassword, Forbidden
<1>8. ASSUME NEW e \in Emails, RequestPasswordReset(r, e)
      PROVE  \E q \in Request : Leads(r, q)
  <2>1. ASSUME NEW i \in GetUserByEmail(e),
               Go(r, [Idle EXCEPT !.op = "requestReset", !.at = "cooldown", !.user = i]),
               NoFault
        PROVE  \E q \in Request : Leads(r, q)
    <3> DEFINE q == [Idle EXCEPT !.op = "requestReset", !.at = "cooldown", !.user = i]
    <3>1. i \in Rows /\ i \in Ids
      BY <2>1, RowsTypes DEF GetUserByEmail
    <3>2. q \in Request /\ WellPlaced(q, Rows)
      BY <3>1, IdleRequest DEF Request, Idle, WellPlaced, Ops, Places
    <3>3. QED
      BY <1>2, <2>1, <3>2, GoMoves
  <2>2. "requestReset" \in Serving
    BY DEF Serving, Ops
  <2>3. QED
    BY <1>0, <1>8, <2>1, <2>2, AnswerMoves, FailureMoves, IdleRequest
    DEF RequestPasswordReset
<1>9. ASSUME NEW e \in Emails, NEW c \in mailed \union {0}, ConfirmPasswordReset(r, e, c)
      PROVE  \E q \in Request : Leads(r, q)
  <2>1. ASSUME NEW i \in GetUserByEmail(e),
               Go(r, [Idle EXCEPT !.op = "confirmReset", !.at = "compare", !.user = i,
                          !.code = c]),
               NoFault
        PROVE  \E q \in Request : Leads(r, q)
    <3> DEFINE q == [Idle EXCEPT !.op = "confirmReset", !.at = "compare", !.user = i,
                          !.code = c]
    <3>1. i \in Rows /\ i \in Ids
      BY <2>1, RowsTypes DEF GetUserByEmail
    <3>2. c \in 0..MaxRequests
      BY ConstantsAssumption DEF TypeOK, Codes
    <3>3. q \in Request /\ WellPlaced(q, Rows)
      BY <3>1, <3>2, IdleRequest DEF Request, Idle, WellPlaced, Ops, Places
    <3>4. QED
      BY <1>2, <2>1, <3>3, GoMoves
  <2>2. "confirmReset" \in Serving
    BY DEF Serving, Ops
  <2>3. QED
    BY <1>0, <1>9, <2>1, <2>2, AnswerMoves, FailureMoves, IdleRequest
    DEF ConfirmPasswordReset
<1>10. QED
  BY <1>3, <1>4, <1>5, <1>6, <1>7, <1>8, <1>9 DEF Begins

\* A request at a statement, in terms of what it may rely on.
LEMMA PlaceTypes ==
    ASSUME Typed, NEW r \in Requests
    PROVE  req[r] \in Request /\ WellPlaced(req[r], Rows) /\ (req[r].at \in Spending <=> r \in Pending)
BY DEF Typed, TypeOK, PlaceInv, Pending

\* The same of a request that continues.
LEMMA ContinuingLeads ==
    ASSUME Typed, NEW r \in Requests, Continues(r)
    PROVE  \E q \in Request : Leads(r, q)
<1> USE DEF Typed
<1>0. req[r] \in Request /\ WellPlaced(req[r], Rows) /\ (req[r].at \in Spending <=> r \in Pending)
  BY PlaceTypes
<1>1. ASSUME Moves(r, Idle) PROVE \E q \in Request : Leads(r, q)
  BY <1>1, IdleRequest DEF Leads
<1>2. ASSUME NEW q \in Request, WellPlaced(q, Rows), Go(r, q), Fault \/ NoFault,
             r \in Pending \/ q.at \notin Spending
      PROVE  \E p \in Request : Leads(r, p)
  BY <1>2, GoMoves DEF Leads
<1>3. /\ {"register", "login", "changeUser", "changePassword", "requestReset",
          "confirmReset"} \subseteq Serving
      /\ {"count", "insert", "persist", "update", "password", "cooldown", "compare",
          "attempts", "drop"} \subseteq Spending
      /\ "upsert" \notin Spending /\ "mail" \notin Spending /\ "unsend" \notin Spending
  BY DEF Serving, Ops, Spending, Places
<1>4. CASE CountUsers(r)
  <2> DEFINE b == GetUserCount = 0
             q == [req[r] EXCEPT !.at = "insert", !.superuser = b]
  <2>1. CASE Go(r, q) /\ NoFault
    <3>1. q \in Request /\ WellPlaced(q, Rows)
      <4>1. b \in BOOLEAN /\ req[r].op = "register" /\ req[r].name \in Names
        BY <1>0, <1>4 DEF CountUsers, At, WellPlaced
      <4> HIDE DEF b
      <4>2. QED
        BY <1>0, <4>1 DEF Request, WellPlaced, Ops, Places
    <3>2. QED
      BY <1>0, <1>2, <1>3, <1>4, <2>1, <3>1 DEF CountUsers, At
  <2>2. CASE Fails(r, "register", FALSE)
    BY <1>1, <1>3, <2>2, FailureMoves
  <2>3. QED
    BY <1>4, <2>1, <2>2 DEF CountUsers
<1>5. CASE InsertUser(r)
  BY <1>1, <1>3, <1>5, AnswerMoves, FailureMoves DEF InsertUser
<1>6. CASE PersistHashParams(r)
  <2>1. Answer(r, "login", "ok", TRUE) /\ (Fault \/ NoFault)
    BY <1>6 DEF PersistHashParams
  <2>2. QED
    BY <1>1, <1>3, <2>1, AnswerMoves
<1>7. CASE WriteUser(r)
  BY <1>1, <1>3, <1>7, AnswerMoves, FailureMoves DEF WriteUser
<1>8. CASE WritePassword(r)
  <2>1. req[r].op \in Serving
    BY <1>0, <1>3, <1>8 DEF WritePassword, At, WellPlaced
  <2>2. QED
    BY <1>1, <1>8, <2>1, AnswerMoves, FailureMoves DEF WritePassword
<1>9. CASE CheckCooldown(r)
  <2> DEFINE q == [req[r] EXCEPT !.at = "upsert", !.code = issued + 1]
  <2>1. CASE Go(r, q) /\ NoFault
    <3>1. r \in Pending
      BY <1>0, <1>3, <1>9 DEF CheckCooldown, At
    <3>2. issued + 1 \in 0..MaxRequests /\ issued + 1 # 0
      BY <3>1, Room, ConstantsAssumption DEF TypeOK
    <3>3. q \in Request /\ WellPlaced(q, Rows)
      BY <1>0, <1>9, <3>2 DEF CheckCooldown, At, Request, WellPlaced, Ops, Places
    <3>4. QED
      BY <1>2, <2>1, <3>1, <3>3
  <2>2. QED
    BY <1>1, <1>3, <1>9, <2>1, AnswerMoves, FailureMoves DEF CheckCooldown
<1>10. CASE WriteCode(r)
  <2> DEFINE q == [req[r] EXCEPT !.at = "mail"]
  <2>1. q \in Request /\ WellPlaced(q, Rows) /\ q.at = "mail"
    BY <1>0, <1>10 DEF WriteCode, At, Request, WellPlaced, Places
  <2>2. CASE Go(r, q) /\ NoFault
    BY <1>2, <1>3, <2>1, <2>2
  <2>3. QED
    BY <1>1, <1>3, <1>10, <2>2, FailureMoves DEF WriteCode
<1>11. CASE SendCode(r)
  <2> DEFINE q == [req[r] EXCEPT !.at = "unsend"]
  <2>1. q \in Request /\ WellPlaced(q, Rows) /\ q.at = "unsend"
    BY <1>0, <1>11 DEF SendCode, At, Request, WellPlaced, Places
  <2>2. CASE Go(r, q) /\ Fault
    BY <1>2, <1>3, <2>1, <2>2
  <2>3. QED
    BY <1>1, <1>3, <1>11, <2>2, AnswerMoves DEF SendCode
<1>12. CASE DeleteUnsentCode(r)
  <2>1. Answer(r, "requestReset", "ok", FALSE) /\ (Fault \/ NoFault)
    BY <1>12 DEF DeleteUnsentCode
  <2>2. QED
    BY <1>1, <1>3, <2>1, AnswerMoves
<1>13. CASE CompareCode(r)
  <2> DEFINE row == codes[req[r].user]
             usable == row.attempts > 0 /\ row.live
             place == CASE ~usable -> "drop"
                        [] usable /\ req[r].code = row.code -> "password"
                        [] usable /\ req[r].code # row.code /\ row.attempts <= 1 -> "drop"
                        [] OTHER -> "attempts"
             q == [req[r] EXCEPT !.attempts = row.attempts, !.at = place]
  <2>1. CASE row # NoCode /\ Go(r, q) /\ NoFault
    <3>1. req[r].op = "confirmReset" /\ req[r].user \in Rows /\ req[r].user \in Ids
      BY <1>0, <1>13, RowsTypes DEF CompareCode, At, WellPlaced
    <3>2. row.attempts \in Nat /\ row.code # 0
      BY <2>1, <3>1, CodeTypes
    <3>3. /\ place \in {"drop", "password", "attempts"}
          /\ place = "password" => req[r].code = row.code
          /\ place = "attempts" => row.attempts # 0
      BY <3>2
    <3> HIDE DEF place, row
    <3>4. q \in Request /\ WellPlaced(q, Rows)
      BY <1>0, <3>1, <3>2, <3>3 DEF Request, WellPlaced, Places
    <3>5. r \in Pending
      BY <1>0, <1>3, <1>13 DEF CompareCode, At
    <3>6. QED
      BY <1>2, <2>1, <3>4, <3>5
  <2>2. QED
    BY <1>1, <1>3, <1>13, <2>1, AnswerMoves, FailureMoves
    DEF CompareCode, GetPasswordResetCodeByUserID
<1>14. CASE DropCode(r)
  <2>1. Answer(r, "confirmReset", "badparams", FALSE) /\ (Fault \/ NoFault)
    BY <1>14 DEF DropCode
  <2>2. QED
    BY <1>1, <1>3, <2>1, AnswerMoves
<1>15. CASE CountAttempt(r)
  BY <1>1, <1>3, <1>15, AnswerMoves, FailureMoves DEF CountAttempt
<1>16. QED
  BY <1>4, <1>5, <1>6, <1>7, <1>8, <1>9, <1>10, <1>11, <1>12, <1>13, <1>14, <1>15
  DEF Continues

-------------------------------------------------------------------------------
(* What a step does to table "user".                                       *)

Appends(row) ==
    /\ users' \in Seq(UserRow)
    /\ Len(users') = Len(users) + 1
    /\ Rows' = Rows \union {Len(users) + 1}
    /\ users'[Len(users) + 1] = row
    /\ \A j \in Rows : users'[j] = users[j]

Replaces(i, row) ==
    /\ i \in Rows
    /\ users' \in Seq(UserRow)
    /\ Len(users') = Len(users)
    /\ Rows' = Rows
    /\ users'[i] = row
    /\ \A j \in Rows \ {i} : users'[j] = users[j]

Inserted(r) == Appends(NewUser(req[r].name, req[r].superuser))
Persisted(r) ==
    Replaces(req[r].user, [users[req[r].user] EXCEPT !.parallelism = req[r].params])
Renamed(r) ==
    Replaces(req[r].user, NewName(users[req[r].user], req[r].name, req[r].email))
PasswordSet(r) == Replaces(req[r].user, NextPassword(users[req[r].user]))

\* A registration adds a user, if it adds one.
LEMMA InsertUserTable ==
    ASSUME Typed, NEW r \in Requests, InsertUser(r)
    PROVE  UNCHANGED users \/ Inserted(r)
<1>1. req[r].name \in Names /\ req[r].superuser \in BOOLEAN
  BY PlaceTypes DEF InsertUser, At, WellPlaced, Request
<1>2. ASSUME CreateUser(req[r].name, req[r].superuser) PROVE Inserted(r)
  BY <1>1, <1>2, InsertsUser DEF Typed, Inserted, Appends
<1>3. QED
  BY <1>2 DEF InsertUser

\* A login writes the parameters of the row it has read, if it writes any.
LEMMA PersistHashParamsTable ==
    ASSUME Typed, NEW r \in Requests, PersistHashParams(r)
    PROVE  UNCHANGED <<users, mixed>> \/ (Persisted(r) /\ NoFault)
<1>1. req[r].user \in Rows /\ req[r].params \in Nat
  BY PlaceTypes DEF PersistHashParams, At, WellPlaced, Request
<1>2. ASSUME UpdateUserPasswordHashParams(req[r].user, req[r].params) PROVE Persisted(r)
  <2>1. /\ [users[req[r].user] EXCEPT !.parallelism = req[r].params] \in UserRow
        /\ users' = [users EXCEPT ![req[r].user] =
                        [users[req[r].user] EXCEPT !.parallelism = req[r].params]]
    BY <1>1, <1>2, WritesParams DEF Typed
  <2>2. QED
    BY <1>1, <2>1, UpdateRow DEF Typed, Persisted, Replaces
<1>3. QED
  BY <1>2 DEF PersistHashParams

\* A change of a user writes name and address.
LEMMA WriteUserTable ==
    ASSUME Typed, NEW r \in Requests, WriteUser(r)
    PROVE  UNCHANGED users \/ Renamed(r)
<1>1. req[r].user \in Rows /\ req[r].name \in Names /\ req[r].email \in Emails \union {NoEmail}
  BY PlaceTypes DEF WriteUser, At, WellPlaced, Request
<1>2. ASSUME UpdateUser(req[r].user, req[r].name, req[r].email) PROVE Renamed(r)
  <2> DEFINE row == NewName(users[req[r].user], req[r].name, req[r].email)
  <2>1. row \in UserRow /\ users' = [users EXCEPT ![req[r].user] = row]
    BY <1>1, <1>2, Renames DEF Typed
  <2>2. QED
    BY <1>1, <2>1, UpdateRow DEF Typed, Renamed, Replaces
<1>3. QED
  BY <1>2 DEF WriteUser

\* A password is written together with its version, and the code goes; or
\* nothing is, after a fault.
LEMMA WritePasswordTable ==
    ASSUME Typed, NEW r \in Requests, WritePassword(r)
    PROVE  \/ UNCHANGED <<users, codes, spent>>
           \/ /\ PasswordSet(r)
              /\ codes' = [codes EXCEPT ![req[r].user] = NoCode]
              /\ spent' = IF req[r].op = "confirmReset" THEN spent \union {req[r].code}
                                                         ELSE spent
<1>1. req[r].user \in Rows
  BY PlaceTypes DEF WritePassword, At, WellPlaced
<1>2. users[req[r].user].secret < MaxRequests
  <2>1. r \in Pending
    <3>1. req[r].at = "password" /\ "password" \in Spending
      BY DEF WritePassword, At, Spending, Places
    <3>2. QED
      BY <3>1, PlaceTypes
  <2>2. QED
    BY <1>1, <2>1, Room
<1>3. ASSUME UpdateUserPassword(req[r].user)
      PROVE  PasswordSet(r) /\ codes' = [codes EXCEPT ![req[r].user] = NoCode]
  <2>1. /\ NextPassword(users[req[r].user]) \in UserRow
        /\ users' = [users EXCEPT ![req[r].user] = NextPassword(users[req[r].user])]
        /\ codes' = [codes EXCEPT ![req[r].user] = NoCode]
    BY <1>1, <1>2, <1>3, WritesPassword DEF Typed
  <2>2. QED
    BY <1>1, <2>1, UpdateRow DEF Typed, PasswordSet, Replaces
<1>4. QED
  BY <1>3 DEF WritePassword

\* No other step changes a user.
TableSteps(r) ==
    InsertUser(r) \/ PersistHashParams(r) \/ WriteUser(r) \/ WritePassword(r)

\* No other statement changes the table of users.
LEMMA OtherSteps ==
    ASSUME NEW r \in Requests, Begins(r) \/ Continues(r), ~TableSteps(r)
    PROVE  UNCHANGED users
<1>1. CASE Begins(r)
  BY <1>1 DEF Begins, Register, Login, UpdateTokens, ChangeUser, ChangePassword,
         RequestPasswordReset, ConfirmPasswordReset
<1>2. CASE Continues(r)
  BY <1>2 DEF Continues, TableSteps, CountUsers, CheckCooldown, WriteCode, SendCode,
         DeleteUnsentCode, CompareCode, DropCode, CountAttempt
<1>3. QED
  BY <1>1, <1>2

\* Time changes nothing but the codes.
LEMMA TimeLeavesUsers ==
    ASSUME NEW i \in Ids, TimePasses(i)
    PROVE  UNCHANGED <<users, tokens, req, issued, begun, faults, history>> /\ reply' = NoReply
BY DEF TimePasses, CooldownEnds, CodeExpires, NoFault

\* Users stay and keep their roles, and their passwords and versions only go up,
\* together; a hash is computed only for a new password.
Grown ==
    /\ users' \in Seq(UserRow)
    /\ Rows' = 1..Len(users')
    /\ Rows \subseteq Rows'
    /\ \A i \in Rows :
           /\ users'[i].superuser = users[i].superuser
           /\ \/ /\ users'[i].secret = users[i].secret
                 /\ users'[i].version = users[i].version
                 /\ users'[i].hashed = users[i].hashed
              \/ /\ users'[i].secret = users[i].secret + 1
                 /\ users'[i].version = users[i].version + 1

\* Users are never deleted or demoted, and password and refresh_version rise together.
LEMMA TableGrows ==
    ASSUME Typed, [Next]_vars
    PROVE  Grown
<1>0. /\ users \in Seq(UserRow) /\ Rows = 1..Len(users) /\ Len(users) \in Nat
      /\ \A i \in Rows : users[i] \in UserRow
  BY RowsTypes DEF Typed, TypeOK
<1>1. ASSUME UNCHANGED users PROVE Grown
  BY <1>0, <1>1 DEF Grown, Rows
<1>2. ASSUME users' \in Seq(UserRow) PROVE Rows' = 1..Len(users')
  BY <1>2 DEF Rows
<1>3. ASSUME NEW r \in Requests, Begins(r) \/ Continues(r) PROVE Grown
  <2>1. CASE Inserted(r)
    BY <1>2, <2>1 DEF Inserted, Appends, Grown
  <2>2. ASSUME NEW i \in Rows, NEW row, Replaces(i, row),
               row.superuser = users[i].superuser,
               \/ /\ row.secret = users[i].secret /\ row.version = users[i].version
                  /\ row.hashed = users[i].hashed
               \/ row.secret = users[i].secret + 1 /\ row.version = users[i].version + 1
        PROVE  Grown
    BY <1>2, <2>2 DEF Replaces, Grown
  <2>3. CASE Persisted(r)
    <3>1. req[r].user \in Rows /\ users[req[r].user] \in UserRow
      BY <1>0, <2>3 DEF Persisted, Replaces
    <3> DEFINE row == [users[req[r].user] EXCEPT !.parallelism = req[r].params]
    <3>2. /\ row.superuser = users[req[r].user].superuser
          /\ row.secret = users[req[r].user].secret
          /\ row.version = users[req[r].user].version
          /\ row.hashed = users[req[r].user].hashed
      BY <3>1 DEF UserRow
    <3>3. QED
      BY <2>2, <2>3, <3>1, <3>2 DEF Persisted
  <2>4. CASE Renamed(r)
    <3>1. req[r].user \in Rows /\ users[req[r].user] \in UserRow
      BY <1>0, <2>4 DEF Renamed, Replaces
    <3> DEFINE row == NewName(users[req[r].user], req[r].name, req[r].email)
    <3>2. /\ row.superuser = users[req[r].user].superuser
          /\ row.secret = users[req[r].user].secret
          /\ row.version = users[req[r].user].version
          /\ row.hashed = users[req[r].user].hashed
      BY <3>1 DEF UserRow, NewName
    <3>3. QED
      BY <2>2, <2>4, <3>1, <3>2 DEF Renamed
  <2>5. CASE PasswordSet(r)
    <3>1. req[r].user \in Rows /\ users[req[r].user] \in UserRow
      BY <1>0, <2>5 DEF PasswordSet, Replaces
    <3> DEFINE row == NextPassword(users[req[r].user])
    <3>2. /\ row.superuser = users[req[r].user].superuser
          /\ row.secret = users[req[r].user].secret + 1
          /\ row.version = users[req[r].user].version + 1
      BY <3>1 DEF UserRow, NextPassword
    <3>3. QED
      BY <2>2, <2>5, <3>1, <3>2 DEF PasswordSet
  <2>6. QED
    BY <1>1, <1>3, <2>1, <2>3, <2>4, <2>5, OtherSteps, InsertUserTable,
       PersistHashParamsTable, WriteUserTable, WritePasswordTable DEF TableSteps
<1>4. ASSUME NEW i \in Ids, TimePasses(i) PROVE Grown
  BY <1>1, <1>4, TimeLeavesUsers
<1>5. CASE UNCHANGED vars
  BY <1>1, <1>5 DEF vars
<1>6. QED
  BY <1>3, <1>4, <1>5 DEF Next

-------------------------------------------------------------------------------
(* The types are inductive.                                                *)

\* A statement finds what it relies on when more users are there.
LEMMA WellPlacedGrows ==
    ASSUME NEW q, NEW rows, NEW more, rows \subseteq more, WellPlaced(q, rows)
    PROVE  WellPlaced(q, more)
BY DEF WellPlaced

\* Requests, answers and bounds stay typed, and every request finds what the
\* statement it has reached relies on.
LEMMA RequestsStep ==
    ASSUME Typed, [Next]_vars
    PROVE  /\ req' \in [Requests -> Request]
           /\ reply' \in Reply
           /\ begun' \in 0..MaxRequests
           /\ faults' \in 0..MaxFaults
           /\ PlaceInv'
<1> USE DEF Typed
<1>0. Rows \subseteq Rows'
  BY TableGrows DEF Grown
<1>1. ASSUME NEW s \in Requests, req'[s] = req[s] PROVE WellPlaced(req'[s], Rows')
  BY <1>0, <1>1, PlaceTypes, WellPlacedGrows
<1>2. ASSUME NEW r \in Requests, Begins(r) \/ Continues(r)
      PROVE  /\ req' \in [Requests -> Request] /\ reply' \in Reply
             /\ begun' \in 0..MaxRequests /\ faults' \in 0..MaxFaults /\ PlaceInv'
  <2>1. PICK q \in Request : Leads(r, q)
    BY <1>2, BeginningLeads, ContinuingLeads
  <2>2. /\ req' \in [Requests -> Request]
        /\ req'[r] = q
        /\ \A s \in Requests \ {r} : req'[s] = req[s]
    BY <2>1, OneRequest DEF Leads, Moves
  <2>3. WellPlaced(req'[r], Rows')
    BY <1>0, <2>1, <2>2, WellPlacedGrows DEF Leads
  <2>4. PlaceInv'
    BY <1>1, <2>2, <2>3 DEF PlaceInv
  <2>5. begun' \in 0..MaxRequests
    BY <1>2, ConstantsAssumption DEF Begins, Continues, TypeOK
  <2>6. QED
    BY <2>1, <2>2, <2>4, <2>5 DEF Leads, Moves
<1>3. ASSUME UNCHANGED <<req, begun, faults>>, reply' \in Reply
      PROVE  /\ req' \in [Requests -> Request] /\ reply' \in Reply
             /\ begun' \in 0..MaxRequests /\ faults' \in 0..MaxFaults /\ PlaceInv'
  BY <1>1, <1>3 DEF TypeOK, PlaceInv
<1>4. NoReply \in Reply
  BY DEF NoReply, Reply
<1>5. ASSUME NEW i \in Ids, TimePasses(i) PROVE UNCHANGED <<req, begun, faults>> /\ reply' \in Reply
  BY <1>4, <1>5, TimeLeavesUsers
<1>6. CASE UNCHANGED vars
  BY <1>3, <1>6 DEF vars, TypeOK
<1>7. QED
  BY <1>2, <1>3, <1>5, <1>6 DEF Next

\* The statements on a reset code leave a row or none.
LEMMA CodeStatements ==
    ASSUME Typed, NEW i \in Ids
    PROVE  /\ \A c \in Codes, b \in BOOLEAN :
                  UpsertPasswordResetCode(i, c, b) => codes' \in [Ids -> CodeRow \union {NoCode}]
           /\ \A n \in Nat :
                  UpdatePasswordResetCodeAttempts(i, n) =>
                      codes' \in [Ids -> CodeRow \union {NoCode}]
           /\ DeletePasswordResetCodeByUserID(i) => codes' \in [Ids -> CodeRow \union {NoCode}]
           /\ codes[i] # NoCode /\ codes' = [codes EXCEPT ![i].guesses = @ + 1]
                  => codes' \in [Ids -> CodeRow \union {NoCode}]
<1>0. codes \in [Ids -> CodeRow \union {NoCode}]
  BY DEF Typed, TypeOK
<1>1. ASSUME NEW row \in CodeRow \union {NoCode}
      PROVE  [codes EXCEPT ![i] = row] \in [Ids -> CodeRow \union {NoCode}]
  BY <1>0
<1>2. ASSUME NEW c \in Codes, NEW b \in BOOLEAN, UpsertPasswordResetCode(i, c, b)
      PROVE  codes' \in [Ids -> CodeRow \union {NoCode}]
  <2>1. [code |-> c, attempts |-> MaxAttempts, live |-> TRUE, cooling |-> TRUE,
         guesses |-> 0, crossed |-> b] \in CodeRow
    BY ConstantsAssumption DEF CodeRow
  <2>2. QED
    BY <1>1, <1>2, <2>1 DEF UpsertPasswordResetCode
<1>3. ASSUME NEW n \in Nat, UpdatePasswordResetCodeAttempts(i, n)
      PROVE  codes' \in [Ids -> CodeRow \union {NoCode}]
  <2>1. codes[i] # NoCode => [codes[i] EXCEPT !.attempts = n] \in CodeRow
    BY CodeTypes DEF CodeRow, Typed
  <2>2. QED
    BY <1>1, <1>3, <2>1 DEF UpdatePasswordResetCodeAttempts
<1>4. ASSUME DeletePasswordResetCodeByUserID(i)
      PROVE  codes' \in [Ids -> CodeRow \union {NoCode}]
  BY <1>1, <1>4 DEF DeletePasswordResetCodeByUserID
<1>5. ASSUME codes[i] # NoCode, codes' = [codes EXCEPT ![i].guesses = @ + 1]
      PROVE  codes' \in [Ids -> CodeRow \union {NoCode}]
  <2>1. [codes[i] EXCEPT !.guesses = codes[i].guesses + 1] \in CodeRow
    BY <1>5, CodeTypes DEF CodeRow, Typed
  <2>2. codes' = [codes EXCEPT ![i] = [codes[i] EXCEPT !.guesses = codes[i].guesses + 1]]
    BY <1>0, <1>5
  <2>3. QED
    BY <1>1, <2>1, <2>2
<1>6. QED
  BY <1>2, <1>3, <1>4, <1>5

\* Codes, tokens and the history stay typed.
Recorded ==
    /\ codes \in [Ids -> CodeRow \union {NoCode}]
    /\ tokens \in SUBSET Token
    /\ issued \in 0..MaxRequests
    /\ mailed \in SUBSET Codes
    /\ spent \in SUBSET Codes
    /\ raced \in SUBSET Codes
    /\ mixed \in SUBSET Ids

\* The types of codes, tokens and the history are kept.
LEMMA RecordsStep ==
    ASSUME Typed, [Next]_vars
    PROVE  Recorded'
<1> USE DEF Typed
<1>0. Recorded
  BY DEF TypeOK, Recorded
<1>1. ASSUME UNCHANGED <<codes, tokens, issued, history>> PROVE Recorded'
  BY <1>0, <1>1 DEF Recorded, history
<1>2. ASSUME NEW i \in Ids, NEW v \in Nat, NEW s \in Nat,
             CreateTokensWithRefreshVersion(i, v, s)
      PROVE  tokens' \in SUBSET Token
  BY <1>0, <1>2 DEF Recorded, Token, CreateTokensWithRefreshVersion
<1>3. ASSUME NEW r \in Requests
      PROVE  /\ req[r] \in Request /\ WellPlaced(req[r], Rows)
             /\ req[r].code # 0 => req[r].code \in Codes
             /\ req[r].user \in Rows => req[r].user \in Ids
  BY PlaceTypes, RowsTypes, ConstantsAssumption DEF Request, Codes
<1>4. ASSUME NEW r \in Requests, NEW n \in Names, NEW s \in 0..MaxRequests, Login(r, n, s)
      PROVE  Recorded'
  <2>1. ASSUME NEW i \in GetUserByUsername(n),
               CreateTokensWithRefreshVersion(i, users[i].version, s)
        PROVE  tokens' \in SUBSET Token
    <3>1. i \in Ids /\ users[i].version \in Nat /\ s \in Nat
      BY RowsTypes, ConstantsAssumption DEF GetUserByUsername, UserRow
    <3>2. QED
      BY <1>2, <2>1, <3>1
  <2>2. tokens' \in SUBSET Token
    BY <1>0, <1>4, <2>1 DEF Login, Recorded
  <2>3. QED
    BY <1>0, <1>4, <2>2 DEF Login, Recorded, history
<1>5. ASSUME NEW r \in Requests, NEW t \in tokens, UpdateTokens(r, t) PROVE Recorded'
  <2>1. t \in Token
    BY <1>0 DEF Recorded
  <2>2. t.user \in Ids /\ t.version \in Nat /\ t.secret \in Nat
    BY <2>1 DEF Token
  <2>3. tokens' \in SUBSET Token
    BY <1>0, <1>2, <1>5, <2>2 DEF UpdateTokens, Recorded
  <2>4. QED
    BY <1>0, <1>5, <2>3 DEF UpdateTokens, Recorded, history
<1>6. ASSUME NEW r \in Requests, Begins(r) PROVE Recorded'
  <2>1. ASSUME NEW n \in Names, Register(r, n) PROVE Recorded'
    BY <1>1, <2>1 DEF Register
  <2>2. ASSUME NEW c, NEW i, NEW n, NEW e, ChangeUser(r, c, i, n, e) PROVE Recorded'
    BY <1>1, <2>2 DEF ChangeUser
  <2>3. ASSUME NEW c, NEW i, NEW s, ChangePassword(r, c, i, s) PROVE Recorded'
    BY <1>1, <2>3 DEF ChangePassword
  <2>4. ASSUME NEW e, RequestPasswordReset(r, e) PROVE Recorded'
    BY <1>1, <2>4 DEF RequestPasswordReset
  <2>5. ASSUME NEW e, NEW c, ConfirmPasswordReset(r, e, c) PROVE Recorded'
    BY <1>1, <2>5 DEF ConfirmPasswordReset
  <2>6. QED
    BY <1>4, <1>5, <1>6, <2>1, <2>2, <2>3, <2>4, <2>5 DEF Begins
<1>7. ASSUME NEW r \in Requests, CountUsers(r) PROVE Recorded'
  BY <1>1, <1>7 DEF CountUsers
<1>8. ASSUME NEW r \in Requests, InsertUser(r) PROVE Recorded'
  <2>1. Len(users) + 1 \in Ids
    <3>1. r \in Pending
      BY <1>8, PlaceTypes DEF InsertUser, At, Spending, Places
    <3>2. QED
      BY <3>1, Room, RowsTypes, ConstantsAssumption DEF Ids
  <2>2. tokens' \in SUBSET Token
    BY <1>0, <1>2, <1>8, <2>1 DEF InsertUser, Recorded
  <2>3. QED
    BY <1>0, <1>8, <2>2 DEF InsertUser, Recorded, history
<1>9. ASSUME NEW r \in Requests, PersistHashParams(r) PROVE Recorded'
  <2>1. req[r].user \in Ids /\ req[r].version \in Nat /\ req[r].secret \in Nat
    BY <1>3, <1>9, ConstantsAssumption DEF PersistHashParams, At, WellPlaced, Request
  <2>2. tokens' \in SUBSET Token
    BY <1>2, <1>9, <2>1 DEF PersistHashParams
  <2>3. mixed' \in SUBSET Ids
    BY <1>0, <1>9, <2>1 DEF PersistHashParams, Recorded
  <2>4. QED
    BY <1>0, <1>9, <2>2, <2>3 DEF PersistHashParams, Recorded
<1>10. ASSUME NEW r \in Requests, WriteUser(r) PROVE Recorded'
  BY <1>1, <1>10 DEF WriteUser
<1>11. ASSUME NEW r \in Requests, WritePassword(r) PROVE Recorded'
  <2>1. req[r].user \in Ids /\ (req[r].op = "confirmReset" => req[r].code \in Codes)
    BY <1>3, <1>11 DEF WritePassword, At, WellPlaced
  <2>2. /\ codes' = codes \/ DeletePasswordResetCodeByUserID(req[r].user)
        /\ spent' \in SUBSET Codes
    BY <1>0, <1>11, <2>1, WritePasswordTable DEF DeletePasswordResetCodeByUserID, Recorded
  <2>3. codes' \in [Ids -> CodeRow \union {NoCode}]
    BY <1>0, <2>1, <2>2, CodeStatements DEF Recorded
  <2>4. QED
    BY <1>0, <1>11, <2>2, <2>3 DEF WritePassword, Recorded
<1>12. ASSUME NEW r \in Requests, CheckCooldown(r) PROVE Recorded'
  <2>1. issued < MaxRequests
    <3>1. r \in Pending
      BY <1>12, PlaceTypes DEF CheckCooldown, At, Spending, Places
    <3>2. QED
      BY <3>1, Room
  <2>2. issued' \in 0..MaxRequests
    <3>1. issued' = issued \/ issued' = issued + 1
      BY <1>12 DEF CheckCooldown
    <3>2. QED
      BY <1>0, <2>1, <3>1, ConstantsAssumption DEF Recorded
  <2>3. QED
    BY <1>0, <1>12, <2>2 DEF CheckCooldown, Recorded, history
<1>13. ASSUME NEW r \in Requests, WriteCode(r) PROVE Recorded'
  <2>1. req[r].user \in Ids /\ req[r].code \in Codes /\ (Resetting(req[r].user) # {r}) \in BOOLEAN
    BY <1>3, <1>13 DEF WriteCode, At, WellPlaced
  <2>2. codes' \in [Ids -> CodeRow \union {NoCode}]
    BY <1>0, <1>13, <2>1, CodeStatements DEF WriteCode, Recorded
  <2>3. QED
    BY <1>0, <1>13, <2>2 DEF WriteCode, Recorded, history
<1>14. ASSUME NEW r \in Requests, SendCode(r) PROVE Recorded'
  <2>1. req[r].code \in Codes
    BY <1>3, <1>14 DEF SendCode, At, WellPlaced
  <2>2. QED
    BY <1>0, <1>14, <2>1 DEF SendCode, Recorded
<1>15. ASSUME NEW r \in Requests, DeleteUnsentCode(r) PROVE Recorded'
  <2>1. req[r].user \in Ids
    BY <1>3, <1>15 DEF DeleteUnsentCode, At, WellPlaced
  <2>2. codes' \in [Ids -> CodeRow \union {NoCode}]
    BY <1>0, <1>15, <2>1, CodeStatements DEF DeleteUnsentCode, Recorded
  <2>3. QED
    BY <1>0, <1>15, <2>2 DEF DeleteUnsentCode, Recorded, history
<1>16. ASSUME NEW r \in Requests, CompareCode(r) PROVE Recorded'
  <2>1. req[r].user \in Ids
    BY <1>3, <1>16 DEF CompareCode, At, WellPlaced
  <2>2. codes[req[r].user] # NoCode => codes[req[r].user].code \in Codes
    BY <2>1, CodeTypes DEF CodeRow
  <2>3. codes' \in [Ids -> CodeRow \union {NoCode}]
    BY <1>0, <1>16, <2>1, CodeStatements
    DEF CompareCode, GetPasswordResetCodeByUserID, Recorded
  <2>4. raced' \in SUBSET Codes
    BY <1>0, <1>16, <2>2 DEF CompareCode, GetPasswordResetCodeByUserID, Recorded
  <2>5. QED
    BY <1>0, <1>16, <2>3, <2>4 DEF CompareCode, Recorded
<1>17. ASSUME NEW r \in Requests, DropCode(r) PROVE Recorded'
  <2>1. req[r].user \in Ids
    BY <1>3, <1>17 DEF DropCode, At, WellPlaced
  <2>2. codes' \in [Ids -> CodeRow \union {NoCode}]
    BY <1>0, <1>17, <2>1, CodeStatements DEF DropCode, Recorded
  <2>3. QED
    BY <1>0, <1>17, <2>2 DEF DropCode, Recorded, history
<1>18. ASSUME NEW r \in Requests, CountAttempt(r) PROVE Recorded'
  <2>1. req[r].user \in Ids /\ req[r].attempts - 1 \in Nat
    BY <1>3, <1>18 DEF CountAttempt, At, WellPlaced, Request
  <2>2. codes' \in [Ids -> CodeRow \union {NoCode}]
    BY <1>0, <1>18, <2>1, CodeStatements DEF CountAttempt, Recorded
  <2>3. QED
    BY <1>0, <1>18, <2>2 DEF CountAttempt, Recorded, history
<1>19. ASSUME NEW i \in Ids, TimePasses(i) PROVE Recorded'
  <2>0. codes[i] \in CodeRow \/ codes[i] = NoCode
    BY CodeTypes
  <2>1. \A row \in CodeRow : /\ [row EXCEPT !.cooling = FALSE] \in CodeRow
                            /\ [row EXCEPT !.live = FALSE] \in CodeRow
    BY DEF CodeRow
  <2>2. ~NoCode.cooling /\ ~NoCode.live
    BY DEF NoCode
  <2>3. codes' \in [Ids -> CodeRow \union {NoCode}]
    BY <1>0, <1>19, <2>0, <2>1, <2>2 DEF TimePasses, CooldownEnds, CodeExpires, Recorded
  <2>4. QED
    BY <1>0, <1>19, <2>3, TimeLeavesUsers DEF Recorded, history
<1>20. CASE UNCHANGED vars
  BY <1>1, <1>20 DEF vars, history
<1>21. QED
  BY <1>6, <1>7, <1>8, <1>9, <1>10, <1>11, <1>12, <1>13, <1>14, <1>15, <1>16, <1>17,
     <1>18, <1>19, <1>20 DEF Next, Continues

\* What pending requests have claimed stays within the requests begun.
LEMMA CountStep ==
    ASSUME Typed, [Next]_vars
    PROVE  CountInv'
<1> USE DEF Typed
<1>0. /\ begun \in Nat /\ issued \in Nat /\ Len(users) \in Nat /\ Cardinality(Pending) \in Nat
      /\ \A i \in Rows : users[i].secret \in Nat
  BY RowsTypes, FS_CardinalityType, ConstantsAssumption DEF TypeOK, CountInv, UserRow
<1>1. /\ issued + Cardinality(Pending) <= begun
      /\ Len(users) + Cardinality(Pending) <= begun + 1
      /\ \A i \in Rows : users[i].secret + Cardinality(Pending) <= begun
  BY DEF CountInv
<1>2. /\ Rows' = 1..Len(users') /\ Len(users') \in Nat
      /\ \A i \in Rows : users'[i].secret = users[i].secret \/ users'[i].secret = users[i].secret + 1
  BY TableGrows DEF Grown
\* A step that uses nothing up.
<1>3. ASSUME NEW r \in Requests, Begins(r) \/ Continues(r), issued' = issued,
             Len(users') = Len(users), Rows' = Rows,
             \A i \in Rows : users'[i].secret = users[i].secret
      PROVE  CountInv'
  <2>1. PICK q \in Request : Leads(r, q)
    BY <1>3, BeginningLeads, ContinuingLeads
  <2>2. /\ IsFiniteSet(Pending') /\ Cardinality(Pending') \in Nat
        /\ Cardinality(Pending') <= Cardinality(Pending) + 1
        /\ r \in Pending \/ q.at \notin Spending => Cardinality(Pending') <= Cardinality(Pending)
    BY <2>1, PendingStep DEF Leads, Moves
  <2>3. begun' = begun \/ begun' = begun + 1
    BY <1>3 DEF Begins, Continues
  <2>4. begun' - begun \in Nat /\ Cardinality(Pending') <= Cardinality(Pending) + (begun' - begun)
    BY <1>0, <2>1, <2>2, <2>3 DEF Leads
  <2>5. \A n \in Nat : n + Cardinality(Pending) <= begun
                        => n + Cardinality(Pending') <= begun'
    BY <1>0, <2>2, <2>3, <2>4
  <2>6. issued' + Cardinality(Pending') <= begun'
    BY <1>0, <1>1, <1>3, <2>5
  <2>7. Len(users') + Cardinality(Pending') <= begun' + 1
    BY <1>0, <1>1, <1>3, <2>2, <2>3, <2>4
  <2>8. \A i \in Rows' : users'[i].secret + Cardinality(Pending') <= begun'
    BY <1>0, <1>1, <1>3, <2>5
  <2>9. QED
    BY <2>2, <2>6, <2>7, <2>8 DEF CountInv
\* A step that uses up the claim of its request.
<1>4. ASSUME NEW r \in Pending, NEW q \in Request, req' = [req EXCEPT ![r] = q],
             q.at \notin Spending, begun' = begun, issued' \in {issued, issued + 1},
             \/ Len(users') = Len(users) /\ Rows' = Rows
             \/ /\ Len(users') = Len(users) + 1
                /\ Rows' = Rows \union {Len(users) + 1}
                /\ users'[Len(users) + 1].secret = 0
      PROVE  CountInv'
  <2>1. /\ IsFiniteSet(Pending') /\ Cardinality(Pending') \in Nat
        /\ Cardinality(Pending') = Cardinality(Pending) - 1
    BY <1>4, PendingStep DEF Pending
  <2>2. issued' + Cardinality(Pending') <= begun'
    BY <1>0, <1>1, <1>4, <2>1
  <2>3. Len(users') + Cardinality(Pending') <= begun' + 1
    BY <1>0, <1>1, <1>4, <2>1
  <2>4. ASSUME NEW i \in Rows PROVE users'[i].secret + Cardinality(Pending') <= begun'
    <3>1. users[i].secret \in Nat /\ users[i].secret + Cardinality(Pending) <= begun
      BY <1>0, <1>1
    <3>2. users'[i].secret = users[i].secret \/ users'[i].secret = users[i].secret + 1
      BY <1>2
    <3>3. QED
      BY <1>0, <1>4, <2>1, <3>1, <3>2
  <2>5. 0 + Cardinality(Pending') <= begun'
    BY <1>0, <1>1, <1>4, <2>1
  <2>6. \A i \in Rows' : users'[i].secret + Cardinality(Pending') <= begun'
    BY <1>4, <2>4, <2>5
  <2>7. QED
    BY <2>1, <2>2, <2>3, <2>6 DEF CountInv
<1>5. Idle \in Request /\ Idle.at \notin Spending
  BY IdleRequest
<1>6. ASSUME NEW r \in Requests, InsertUser(r), begun' = begun PROVE CountInv'
  <2>1. req[r].at = "insert" /\ "insert" \in Spending
    BY <1>6 DEF InsertUser, At, Spending, Places
  <2>2. r \in Pending
    BY <2>1 DEF Pending
  <2>3. req' = [req EXCEPT ![r] = Idle] /\ issued' = issued
    BY <1>6 DEF InsertUser, Answer, Fails
  <2>4. UNCHANGED users \/ Inserted(r)
    BY <1>6, InsertUserTable
  <2>5. CASE UNCHANGED users
    BY <1>4, <1>5, <1>6, <2>2, <2>3, <2>5 DEF Rows
  <2>6. CASE Inserted(r)
    <3>1. /\ Len(users') = Len(users) + 1
          /\ Rows' = Rows \union {Len(users) + 1}
          /\ users'[Len(users) + 1].secret = 0
      BY <2>6 DEF Inserted, Appends, NewUser
    <3>2. QED
      BY <1>4, <1>5, <1>6, <2>2, <2>3, <3>1
  <2>7. QED
    BY <2>4, <2>5, <2>6
<1>7. ASSUME NEW r \in Requests, WritePassword(r), begun' = begun PROVE CountInv'
  <2>1. req[r].at = "password" /\ "password" \in Spending
    BY <1>7 DEF WritePassword, At, Spending, Places
  <2>2. r \in Pending
    BY <2>1 DEF Pending
  <2>3. req' = [req EXCEPT ![r] = Idle] /\ issued' = issued
    BY <1>7 DEF WritePassword, Answer, Fails
  <2>4. Len(users') = Len(users) /\ Rows' = Rows
    BY <1>7, WritePasswordTable DEF PasswordSet, Replaces, Rows
  <2>5. QED
    BY <1>4, <1>5, <1>7, <2>2, <2>3, <2>4
<1>8. ASSUME NEW r \in Requests, CheckCooldown(r), begun' = begun PROVE CountInv'
  <2>1. req[r].at = "cooldown" /\ "cooldown" \in Spending
    BY <1>8 DEF CheckCooldown, At, Spending, Places
  <2>2. r \in Pending /\ Continues(r)
    BY <1>8, <2>1 DEF Pending, Continues
  <2>3. UNCHANGED users /\ Rows' = Rows /\ issued' \in {issued, issued + 1}
    BY <1>8 DEF CheckCooldown, Rows
  <2>4. PICK q \in Request : Leads(r, q)
    BY <2>2, ContinuingLeads
  <2>5. req' = [req EXCEPT ![r] = q] /\ req'[r] = q
    BY <2>4, OneRequest DEF Leads, Moves
  <2>6. q.at \in {"idle", "upsert"}
    <3>1. req'[r] = Idle \/ req'[r] = [req[r] EXCEPT !.at = "upsert", !.code = issued + 1]
      BY <1>8 DEF CheckCooldown, Answer, Fails, Go, TypeOK
    <3>2. Idle.at = "idle" /\ [req[r] EXCEPT !.at = "upsert", !.code = issued + 1].at = "upsert"
      BY PlaceTypes DEF Idle, Request
    <3>3. QED
      BY <2>5, <3>1, <3>2
  <2>7. q.at \notin Spending
    BY <2>6 DEF Spending
  <2>8. QED
    BY <1>4, <1>8, <2>2, <2>3, <2>5, <2>7
<1>9. ASSUME NEW r \in Requests, Begins(r) PROVE CountInv'
  <2>1. UNCHANGED <<users, issued>>
    BY <1>9 DEF Begins, Register, Login, UpdateTokens, ChangeUser, ChangePassword,
       RequestPasswordReset, ConfirmPasswordReset
  <2>2. QED
    BY <1>3, <1>9, <2>1 DEF Rows
<1>10. ASSUME NEW r \in Requests, Continues(r), PersistHashParams(r) \/ WriteUser(r)
       PROVE  CountInv'
  <2>1. issued' = issued
    BY <1>10 DEF PersistHashParams, WriteUser
  <2>2. UNCHANGED users \/ Persisted(r) \/ Renamed(r)
    BY <1>10, PersistHashParamsTable, WriteUserTable
  <2>3. CASE UNCHANGED users
    BY <1>3, <1>10, <2>1, <2>3 DEF Rows
  <2>4. CASE Persisted(r) \/ Renamed(r)
    <3>1. /\ Len(users') = Len(users) /\ Rows' = Rows /\ req[r].user \in Rows
          /\ \A j \in Rows \ {req[r].user} : users'[j] = users[j]
      BY <2>4 DEF Persisted, Renamed, Replaces
    <3>2. users'[req[r].user].secret = users[req[r].user].secret
      <4>1. users[req[r].user] \in UserRow
        BY <3>1, RowsTypes
      <4>2. QED
        BY <2>4, <4>1 DEF Persisted, Renamed, Replaces, NewName, UserRow
    <3>3. QED
      BY <1>3, <1>10, <2>1, <3>1, <3>2
  <2>5. QED
    BY <2>2, <2>3, <2>4
<1>11. ASSUME NEW r \in Requests, Continues(r), UNCHANGED <<users, issued>> PROVE CountInv'
  BY <1>3, <1>11 DEF Rows
<1>12. ASSUME NEW r \in Requests, Continues(r) PROVE CountInv'
  BY <1>6, <1>7, <1>8, <1>10, <1>11, <1>12
  DEF Continues, CountUsers, WriteCode, SendCode, DeleteUnsentCode, CompareCode, DropCode,
      CountAttempt
<1>13. ASSUME UNCHANGED <<users, req, issued, begun>> PROVE CountInv'
  BY <1>13 DEF CountInv, Pending, Rows
<1>14. QED
  BY <1>9, <1>12, <1>13, TimeLeavesUsers DEF Next, vars

\* Initially nobody is served, and the founder has their first password.
LEMMA TypedInit == Init => Typed
<1> SUFFICES ASSUME Init PROVE Typed
  OBVIOUS
<1>1. TypeOK
  <2>1. users \in Seq(UserRow) /\ Len(users) \in {0, 1}
    <3>1. Parallelism + 1 \in Nat \ {0} /\ 0 \in 0..MaxRequests
      BY ConstantsAssumption
    <3>2. ASSUME NEW u \in Founder PROVE u \in UserRow
      <4>1. PICK n \in Names, e \in Emails :
                u = [name |-> n, email |-> e, secret |-> 0, hashed |-> Parallelism + 1,
                     parallelism |-> 0, version |-> 0, superuser |-> TRUE]
        BY <3>2 DEF Founder
      <4>2. QED
        BY <3>1, <4>1 DEF UserRow
    <3>3. users = <<>> \/ \E u \in Founder : users = <<u>>
      BY DEF Init
    <3>4. <<>> \in Seq(UserRow) /\ Len(<<>>) = 0
      BY EmptySeq
    <3>5. ASSUME NEW u \in UserRow PROVE <<u>> \in Seq(UserRow) /\ Len(<<u>>) = 1
      OBVIOUS
    <3>6. QED
      BY <3>2, <3>3, <3>4, <3>5
  <2>2. Len(users) \in Ids \union {0} /\ 0 \in 0..MaxRequests /\ MaxFaults \in 0..MaxFaults
    <3>1. 1 \in Ids /\ 0 \in 0..MaxRequests /\ MaxFaults \in 0..MaxFaults
      BY ConstantsAssumption DEF Ids
    <3>2. QED
      BY <2>1, <3>1
  <2>3. NoReply \in Reply
    BY DEF NoReply, Reply
  <2>4. QED
    BY <2>1, <2>2, <2>3, IdleRequest DEF Init, TypeOK
<1>2. \A r \in Requests : req[r] = Idle
  BY DEF Init
<1>3. PlaceInv
  BY <1>2, IdleRequest DEF PlaceInv
<1>4. CountInv
  <2>1. Pending = {}
    BY <1>2, IdleRequest DEF Pending
  <2>2. IsFiniteSet(Pending) /\ Cardinality(Pending) = 0
    BY <2>1, FS_EmptySet
  <2>3. Len(users) \in {0, 1} /\ \A i \in Rows : users[i].secret = 0
    BY DEF Init, Founder, Rows
  <2>4. QED
    BY <2>2, <2>3 DEF Init, CountInv
<1>5. QED
  BY <1>1, <1>3, <1>4 DEF Typed

\* Types, places and the account of requests are kept together.
LEMMA TypedStep == Typed /\ [Next]_vars => Typed'
<1> SUFFICES ASSUME Typed, [Next]_vars PROVE Typed'
  OBVIOUS
<1>1. CountInv' /\ PlaceInv' /\ Recorded'
  BY CountStep, RequestsStep, RecordsStep
<1>2. users' \in Seq(UserRow) /\ Len(users') \in Ids \union {0}
  <2>1. users' \in Seq(UserRow) /\ Len(users') \in Nat
    BY TableGrows DEF Grown
  <2>2. begun' \in 0..MaxRequests /\ Cardinality(Pending') \in Nat
    BY <1>1, RequestsStep, FS_CardinalityType DEF CountInv
  <2>3. Len(users') + Cardinality(Pending') <= begun' + 1
    BY <1>1 DEF CountInv
  <2>4. QED
    BY <2>1, <2>2, <2>3, ConstantsAssumption DEF Ids
<1>3. TypeOK'
  BY <1>1, <1>2, RequestsStep DEF TypeOK, Recorded
<1>4. QED
  BY <1>1, <1>3 DEF Typed

\* So they hold in every state.
LEMMA TypedAlways == Spec => []Typed
<1>1. Init => Typed
  BY TypedInit
<1>2. Typed /\ [Next]_vars => Typed'
  BY TypedStep
<1>3. QED
  BY <1>1, <1>2, PTL DEF Spec

\* Every variable keeps its type: within the bound on requests, also the table of
\* users and the numbers of passwords and codes do.
THEOREM TypeCorrect == Spec => []TypeOK
<1>1. Typed => TypeOK
  BY DEF Typed
<1>2. QED
  BY <1>1, TypedAlways, PTL

-------------------------------------------------------------------------------
(* Where a step leaves the request that takes it.                          *)

\* The place and the answers read that CompareCode gives to request r.
Judged(r) ==
    LET row == codes[req[r].user]
        usable == row.attempts > 0 /\ row.live
    IN
    /\ req'[r] = [req[r] EXCEPT !.attempts = row.attempts, !.at = req'[r].at]
    /\ \/ req'[r].at = "drop" /\ (~usable \/ (req[r].code # row.code /\ row.attempts <= 1))
       \/ req'[r].at = "password" /\ usable /\ req[r].code = row.code
       \/ req'[r].at = "attempts" /\ usable /\ req[r].code # row.code /\ row.attempts > 1

\* A beginning request, and what it keeps of a row that it has read.
Arrives(r) ==
    /\ req[r] = Idle
    /\ UNCHANGED <<users, codes, issued, history>>
    /\ \/ req'[r] = Idle
       \/ req'[r].op = "register" /\ req'[r].at = "count" /\ req'[r].first = (users = <<>>)
       \/ /\ req'[r].op = "login" /\ req'[r].at = "persist" /\ req'[r].user \in Rows
          /\ VerifyPassword(users[req'[r].user], req'[r].secret)
          /\ req'[r].version = users[req'[r].user].version
          /\ req'[r].params = users[req'[r].user].hashed
       \/ req'[r].op = "changeUser" /\ req'[r].at = "update"
       \/ req'[r].op = "changePassword" /\ req'[r].at = "password"
       \/ req'[r].op = "requestReset" /\ req'[r].at = "cooldown"
       \/ req'[r].op = "confirmReset" /\ req'[r].at = "compare"

\* The statement at which a new request arrives, and what it has read.
LEMMA BeginningArrives ==
    ASSUME Typed, NEW r \in Requests, Begins(r)
    PROVE  Arrives(r)
<1>0. /\ req[r] = Idle /\ UNCHANGED <<users, codes, issued, history>>
      /\ \A q : req' = [req EXCEPT ![r] = q] => req'[r] = q
  BY DEF Begins, Register, Login, UpdateTokens, ChangeUser, ChangePassword,
     RequestPasswordReset, ConfirmPasswordReset, history, Typed, TypeOK
<1>1. ASSUME req'[r] = Idle PROVE Arrives(r)
  BY <1>0, <1>1 DEF Arrives
<1>2. ASSUME NEW n \in Names, Register(r, n) PROVE Arrives(r)
  BY <1>0, <1>2 DEF Register, Go, Arrives, Idle
<1>3. ASSUME NEW n \in Names, NEW s \in 0..MaxRequests, Login(r, n, s) PROVE Arrives(r)
  <2>1. ASSUME NEW i \in GetUserByUsername(n), VerifyPassword(users[i], s),
               Go(r, [Idle EXCEPT !.op = "login", !.at = "persist", !.user = i,
                          !.secret = s, !.version = users[i].version,
                          !.params = users[i].hashed])
        PROVE  Arrives(r)
    <3>1. i \in Rows
      BY <2>1 DEF GetUserByUsername
    <3>2. req'[r] = [Idle EXCEPT !.op = "login", !.at = "persist", !.user = i,
                          !.secret = s, !.version = users[i].version,
                          !.params = users[i].hashed]
      BY <1>0, <2>1 DEF Go
    <3>3. /\ req'[r].op = "login" /\ req'[r].at = "persist" /\ req'[r].user = i
          /\ req'[r].secret = s /\ req'[r].version = users[i].version
          /\ req'[r].params = users[i].hashed
      BY <3>2 DEF Idle
    <3>4. QED
      BY <1>0, <2>1, <3>1, <3>3 DEF Arrives
  <2>2. QED
    BY <1>0, <1>1, <1>3, <2>1 DEF Login, Answer, Fails
<1>4. ASSUME NEW t \in tokens, UpdateTokens(r, t) PROVE Arrives(r)
  BY <1>0, <1>1, <1>4 DEF UpdateTokens, Answer, Fails
<1>5. ASSUME NEW c, NEW i, NEW n, NEW e, ChangeUser(r, c, i, n, e) PROVE Arrives(r)
  <2>1. ASSUME NEW n1, NEW e1,
               Go(r, [Idle EXCEPT !.op = "changeUser", !.at = "update", !.user = i,
                          !.name = n1, !.email = e1])
        PROVE  Arrives(r)
    <3>1. req'[r] = [Idle EXCEPT !.op = "changeUser", !.at = "update", !.user = i,
                         !.name = n1, !.email = e1]
      BY <1>0, <2>1 DEF Go
    <3>2. req'[r].op = "changeUser" /\ req'[r].at = "update"
      BY <3>1 DEF Idle
    <3>3. QED
      BY <1>0, <3>2 DEF Arrives
  <2>2. QED
    BY <1>0, <1>1, <1>5, <2>1 DEF ChangeUser, Forbidden, Answer, Fails
<1>6. ASSUME NEW c, NEW i, NEW s, ChangePassword(r, c, i, s) PROVE Arrives(r)
  <2>1. ASSUME Go(r, [Idle EXCEPT !.op = "changePassword", !.at = "password", !.user = i,
                          !.secret = s])
        PROVE  Arrives(r)
    <3>1. req'[r] = [Idle EXCEPT !.op = "changePassword", !.at = "password", !.user = i,
                         !.secret = s]
      BY <1>0, <2>1 DEF Go
    <3>2. req'[r].op = "changePassword" /\ req'[r].at = "password"
      BY <3>1 DEF Idle
    <3>3. QED
      BY <1>0, <3>2 DEF Arrives
  <2>2. QED
    BY <1>0, <1>1, <1>6, <2>1 DEF ChangePassword, Forbidden, Answer, Fails
<1>7. ASSUME NEW e, RequestPasswordReset(r, e) PROVE Arrives(r)
  <2>1. ASSUME NEW i,
               Go(r, [Idle EXCEPT !.op = "requestReset", !.at = "cooldown", !.user = i])
        PROVE  Arrives(r)
    <3>1. req'[r] = [Idle EXCEPT !.op = "requestReset", !.at = "cooldown", !.user = i]
      BY <1>0, <2>1 DEF Go
    <3>2. req'[r].op = "requestReset" /\ req'[r].at = "cooldown"
      BY <3>1 DEF Idle
    <3>3. QED
      BY <1>0, <3>2 DEF Arrives
  <2>2. QED
    BY <1>0, <1>1, <1>7, <2>1 DEF RequestPasswordReset, Answer, Fails
<1>8. ASSUME NEW e, NEW c, ConfirmPasswordReset(r, e, c) PROVE Arrives(r)
  <2>1. ASSUME NEW i,
               Go(r, [Idle EXCEPT !.op = "confirmReset", !.at = "compare", !.user = i,
                          !.code = c])
        PROVE  Arrives(r)
    <3>1. req'[r] = [Idle EXCEPT !.op = "confirmReset", !.at = "compare", !.user = i,
                         !.code = c]
      BY <1>0, <2>1 DEF Go
    <3>2. req'[r].op = "confirmReset" /\ req'[r].at = "compare"
      BY <3>1 DEF Idle
    <3>3. QED
      BY <1>0, <3>2 DEF Arrives
  <2>2. QED
    BY <1>0, <1>1, <1>8, <2>1 DEF ConfirmPasswordReset, Answer, Fails
<1>9. QED
  BY <1>2, <1>3, <1>4, <1>5, <1>6, <1>7, <1>8 DEF Begins

\* A continuing request: it is over, or has reached its next statement.
Proceeds(r) ==
    \/ req'[r] = Idle
    \/ /\ CountUsers(r)
       /\ req'[r] = [req[r] EXCEPT !.at = "insert", !.superuser = (GetUserCount = 0)]
    \/ /\ CheckCooldown(r)
       /\ issued' = issued + 1
       /\ req'[r] = [req[r] EXCEPT !.at = "upsert", !.code = issued + 1]
    \/ /\ WriteCode(r)
       /\ UpsertPasswordResetCode(req[r].user, req[r].code, Resetting(req[r].user) # {r})
       /\ req'[r] = [req[r] EXCEPT !.at = "mail"]
    \/ /\ SendCode(r)
       /\ req'[r] = [req[r] EXCEPT !.at = "unsend"]
    \/ /\ CompareCode(r)
       /\ codes[req[r].user] # NoCode
       /\ Judged(r)

\* The statement to which a request goes on.
LEMMA ContinuingProceeds ==
    ASSUME Typed, NEW r \in Requests, Continues(r)
    PROVE  Proceeds(r)
<1>0. /\ \A q : req' = [req EXCEPT ![r] = q] => req'[r] = q
      /\ req[r] \in Request
  BY DEF Typed, TypeOK
<1>1. ASSUME req'[r] = Idle PROVE Proceeds(r)
  BY <1>1 DEF Proceeds
<1>2. CASE CountUsers(r)
  BY <1>0, <1>2 DEF CountUsers, Go, Answer, Fails, Proceeds
<1>3. CASE InsertUser(r) \/ PersistHashParams(r) \/ WriteUser(r) \/ WritePassword(r)
           \/ DeleteUnsentCode(r) \/ DropCode(r) \/ CountAttempt(r)
  BY <1>0, <1>1, <1>3 DEF InsertUser, PersistHashParams, WriteUser, WritePassword,
     DeleteUnsentCode, DropCode, CountAttempt, Answer, Fails
<1>4. CASE CheckCooldown(r)
  BY <1>0, <1>4 DEF CheckCooldown, Go, Answer, Fails, Proceeds
<1>5. CASE WriteCode(r)
  BY <1>0, <1>5 DEF WriteCode, Go, Answer, Fails, Proceeds
<1>6. CASE SendCode(r)
  BY <1>0, <1>6 DEF SendCode, Go, Answer, Fails, Proceeds
<1>7. CASE CompareCode(r)
  <2> DEFINE row == codes[req[r].user]
             usable == row.attempts > 0 /\ row.live
             place == CASE ~usable -> "drop"
                        [] usable /\ req[r].code = row.code -> "password"
                        [] usable /\ req[r].code # row.code /\ row.attempts <= 1 -> "drop"
                        [] OTHER -> "attempts"
             q == [req[r] EXCEPT !.attempts = row.attempts, !.at = place]
  <2>1. CASE row # NoCode /\ Go(r, q)
    <3>1. row.attempts \in Nat
      <4>1. req[r].user \in Ids
        BY <1>7, PlaceTypes, RowsTypes DEF CompareCode, At, WellPlaced, Typed
      <4>2. QED
        BY <4>1, CodeTypes DEF Typed
    <3>2. req'[r] = q
      BY <1>0, <2>1 DEF Go
    <3>3. \/ place = "drop" /\ (~usable \/ (req[r].code # row.code /\ row.attempts <= 1))
          \/ place = "password" /\ usable /\ req[r].code = row.code
          \/ place = "attempts" /\ usable /\ req[r].code # row.code /\ row.attempts > 1
      BY <3>1
    <3> HIDE DEF place
    <3>4. req'[r].at = place
      BY <1>0, <3>2 DEF Request
    <3>5. Judged(r)
      BY <3>2, <3>3, <3>4 DEF Judged
    <3>6. QED
      BY <1>7, <2>1, <3>5 DEF Proceeds
  <2>2. QED
    BY <1>0, <1>1, <1>7, <2>1
    DEF CompareCode, GetPasswordResetCodeByUserID, Answer, Fails
<1>8. QED
  BY <1>2, <1>3, <1>4, <1>5, <1>6, <1>7 DEF Continues

\* The other requests stay as they are, and the request that takes a step is
\* again one at a statement that finds what it relies on.
LEMMA OthersStay ==
    ASSUME Typed, NEW r \in Requests, Begins(r) \/ Continues(r)
    PROVE  /\ \A s \in Requests \ {r} : req'[s] = req[s]
           /\ req[r] \in Request /\ req'[r] \in Request
           /\ faults \in Nat /\ faults' \in 0..faults
<1>1. PICK q \in Request : Leads(r, q)
  BY BeginningLeads, ContinuingLeads
<1>2. QED
  BY <1>1, OneRequest, ConstantsAssumption DEF Typed, TypeOK, Leads, Moves

\* What moves: the request that takes a step, and no other.
LEMMA Movers ==
    ASSUME Typed, [Next]_vars, NEW s \in Requests
    PROVE  req'[s] = req[s] \/ Begins(s) \/ Continues(s)
<1>1. ASSUME NEW r \in Requests, Begins(r) \/ Continues(r)
      PROVE  req'[s] = req[s] \/ s = r
  BY <1>1, OthersStay
<1>2. QED
  BY <1>1, TimeLeavesUsers DEF Next, vars

\* The same, from where the request has come to.
Carries(r) ==
    req'[r].op = req[r].op /\ req'[r].user = req[r].user

\* A request is at a statement only if the step before took it there.
LEMMA Arrivals ==
    ASSUME Typed, NEW r \in Requests, Begins(r) \/ Continues(r)
    PROVE  /\ req'[r].at = "persist" =>
                  /\ UNCHANGED <<users, codes, issued, history>>
                  /\ req'[r].user \in Rows
                  /\ VerifyPassword(users[req'[r].user], req'[r].secret)
                  /\ req'[r].version = users[req'[r].user].version
                  /\ req'[r].params = users[req'[r].user].hashed
           /\ req'[r].at = "upsert" =>
                  CheckCooldown(r) /\ Carries(r) /\ issued' = issued + 1 /\ req'[r].code = issued + 1
           /\ req'[r].at = "mail" =>
                  /\ WriteCode(r) /\ Carries(r) /\ req'[r].code = req[r].code
                  /\ UpsertPasswordResetCode(req[r].user, req[r].code,
                                             Resetting(req[r].user) # {r})
           /\ req'[r].at = "unsend" => SendCode(r) /\ Carries(r) /\ req'[r].code = req[r].code
           /\ req'[r].op = "confirmReset" /\ req'[r].at \in {"password", "drop", "attempts"} =>
                  /\ CompareCode(r) /\ Carries(r) /\ req'[r].code = req[r].code
                  /\ codes[req[r].user] # NoCode /\ Judged(r)
                  /\ req'[r].attempts = codes[req[r].user].attempts
           /\ req'[r].op # "none" /\ ~Begins(r) => Carries(r)
<1>0. req[r] \in Request
  BY OthersStay
<1>1. CASE req'[r] = Idle
  BY <1>1 DEF Idle
<1>2. CASE Begins(r)
  BY <1>1, <1>2, BeginningArrives DEF Arrives
<1>3. CASE Continues(r)
  <2>1. CASE CountUsers(r) /\ req'[r] = [req[r] EXCEPT !.at = "insert",
                                                       !.superuser = (GetUserCount = 0)]
    <3>1. req'[r].at = "insert" /\ Carries(r)
      BY <1>0, <2>1 DEF Request, Carries
    <3>2. QED
      BY <3>1
  <2>2. CASE /\ CheckCooldown(r)
             /\ issued' = issued + 1
             /\ req'[r] = [req[r] EXCEPT !.at = "upsert", !.code = issued + 1]
    <3>1. req'[r].at = "upsert" /\ req'[r].code = issued + 1 /\ Carries(r)
      BY <1>0, <2>2 DEF Request, Carries
    <3>2. QED
      BY <2>2, <3>1
  <2>3. CASE /\ WriteCode(r)
             /\ UpsertPasswordResetCode(req[r].user, req[r].code, Resetting(req[r].user) # {r})
             /\ req'[r] = [req[r] EXCEPT !.at = "mail"]
    <3>1. req'[r].at = "mail" /\ req'[r].code = req[r].code /\ Carries(r)
      BY <1>0, <2>3 DEF Request, Carries
    <3>2. QED
      BY <2>3, <3>1
  <2>4. CASE SendCode(r) /\ req'[r] = [req[r] EXCEPT !.at = "unsend"]
    <3>1. req'[r].at = "unsend" /\ req'[r].code = req[r].code /\ Carries(r)
      BY <1>0, <2>4 DEF Request, Carries
    <3>2. QED
      BY <2>4, <3>1
  <2>5. CASE CompareCode(r) /\ codes[req[r].user] # NoCode /\ Judged(r)
    <3>1. PICK p, n : req'[r] = [req[r] EXCEPT !.attempts = n, !.at = p]
      BY <2>5 DEF Judged
    <3>2. req'[r].code = req[r].code /\ Carries(r)
      BY <1>0, <3>1 DEF Request, Carries
    <3>3. req'[r].attempts = codes[req[r].user].attempts
      BY <1>0, <2>5 DEF Request, Judged
    <3>4. req'[r].at \in {"password", "drop", "attempts"}
      BY <2>5 DEF Judged
    <3>5. QED
      BY <2>5, <3>2, <3>3, <3>4
  <2>6. QED
    BY <1>1, <1>3, <2>1, <2>2, <2>3, <2>4, <2>5, ContinuingProceeds DEF Proceeds
<1>4. QED
  BY <1>2, <1>3

-------------------------------------------------------------------------------
(* Superusers.                                                             *)

\* A registration that has not counted yet began before the first user, if there
\* is none; one that has counted makes a superuser when it counted none, and an
\* ordinary user only when somebody is there.
FounderInv ==
    /\ SomeSuperuser
    /\ \A r \in Requests :
           /\ req[r].at = "count" /\ users = <<>> => req[r].first
           /\ req[r].at = "insert" =>
                  IF req[r].superuser THEN req[r].first ELSE users # <<>>

\* Registrations keep the founders' invariant.
LEMMA FounderStep == Typed /\ FounderInv /\ [Next]_vars => FounderInv'
<1> SUFFICES ASSUME Typed, FounderInv, [Next]_vars PROVE FounderInv'
  OBVIOUS
<1>0. /\ users \in Seq(UserRow) /\ users' \in Seq(UserRow)
      /\ Rows = 1..Len(users) /\ Rows' = 1..Len(users')
      /\ Rows \subseteq Rows'
      /\ \A i \in Rows : users'[i].superuser = users[i].superuser
  BY RowsTypes, TableGrows DEF Typed, TypeOK, Grown
<1>1. /\ users = <<>> <=> Rows = {}
      /\ users' = <<>> <=> Rows' = {}
  BY <1>0
<1>2. users # <<>> => users' # <<>>
  BY <1>0, <1>1
<1>3. SomeSuperuser'
  <2>1. CASE users # <<>>
    <3>1. PICK i \in Rows : users[i].superuser
      BY <2>1 DEF FounderInv, SomeSuperuser
    <3>2. i \in Rows' /\ users'[i].superuser
      BY <1>0, <3>1
    <3>3. QED
      BY <3>2 DEF SomeSuperuser
  <2>2. CASE users = <<>>
    <3>1. UNCHANGED users \/ \E r \in Requests : InsertUser(r) /\ Inserted(r)
      <4>1. ASSUME NEW r \in Requests, PersistHashParams(r) \/ WriteUser(r) \/ WritePassword(r)
            PROVE  UNCHANGED users
        <5>1. req[r].user \notin Rows
          BY <1>1, <2>2
        <5>2. QED
          BY <4>1, <5>1, PlaceTypes
          DEF PersistHashParams, WriteUser, WritePassword, At, WellPlaced
      <4>2. ASSUME NEW r \in Requests, InsertUser(r)
            PROVE  UNCHANGED users \/ Inserted(r)
        BY <4>2, InsertUserTable
      <4>3. QED
        BY <4>1, <4>2, OtherSteps, TimeLeavesUsers DEF Next, TableSteps, vars
    <3>2. CASE UNCHANGED users
      BY <2>2, <3>2 DEF SomeSuperuser
    <3>3. ASSUME NEW r \in Requests, InsertUser(r), Inserted(r)
          PROVE  SomeSuperuser'
      <4>1. req[r].superuser
        BY <2>2, <3>3 DEF InsertUser, At, FounderInv
      <4>2. /\ Len(users) + 1 \in Rows'
            /\ users'[Len(users) + 1] = NewUser(req[r].name, req[r].superuser)
        BY <3>3 DEF Inserted, Appends
      <4>3. users'[Len(users) + 1].superuser
        BY <4>1, <4>2 DEF NewUser
      <4>4. QED
        BY <4>2, <4>3 DEF SomeSuperuser
    <3>4. QED
      BY <3>1, <3>2, <3>3
  <2>3. QED
    BY <2>1, <2>2
<1> DEFINE Founds(q) ==
        /\ q.at = "count" /\ users' = <<>> => q.first
        /\ q.at = "insert" => IF q.superuser THEN q.first ELSE users' # <<>>
<1>4. ASSUME NEW s \in Requests, req'[s] = req[s] PROVE Founds(req'[s])
  BY <1>2, <1>4 DEF FounderInv
<1>5. ASSUME NEW r \in Requests, Begins(r) \/ Continues(r)
      PROVE  Founds(req'[r])
  <2>1. CASE req'[r] = Idle
    BY <2>1 DEF Idle
  <2>2. CASE Begins(r)
    BY <2>1, <2>2, BeginningArrives DEF Arrives
  <2>3. CASE Continues(r)
    <3>1. CASE CountUsers(r) /\ req'[r] = [req[r] EXCEPT !.at = "insert",
                                                         !.superuser = (GetUserCount = 0)]
      <4>1. /\ req[r].at = "count" /\ UNCHANGED users
            /\ req'[r].at = "insert" /\ req'[r].first = req[r].first
            /\ req'[r].superuser = (GetUserCount = 0)
        BY <3>1, OthersStay, <1>5 DEF CountUsers, At, Request
      <4>2. (GetUserCount = 0) <=> (users = <<>>)
        BY <1>0 DEF GetUserCount
      <4>3. users = <<>> => req[r].first
        BY <4>1 DEF FounderInv
      <4>4. QED
        BY <4>1, <4>2, <4>3
    <3>2. CASE req'[r].at \in {"upsert", "mail", "unsend", "drop", "password", "attempts"}
      BY <3>2
    <3>3. req[r] \in Request
      BY <2>3, OthersStay
    <3>4. CASE req'[r] = [req[r] EXCEPT !.at = "upsert", !.code = issued + 1]
      BY <3>2, <3>3, <3>4 DEF Request
    <3>5. CASE req'[r] = [req[r] EXCEPT !.at = "mail"]
      BY <3>2, <3>3, <3>5 DEF Request
    <3>6. CASE req'[r] = [req[r] EXCEPT !.at = "unsend"]
      BY <3>2, <3>3, <3>6 DEF Request
    <3>7. CASE Judged(r)
      BY <3>2, <3>7 DEF Judged
    <3> HIDE DEF Founds
    <3>8. QED
      BY <2>1, <2>3, <3>1, <3>4, <3>5, <3>6, <3>7, ContinuingProceeds DEF Proceeds
  <2>4. QED
    BY <1>5, <2>2, <2>3
<1> HIDE DEF Founds
<1>6. ASSUME NEW s \in Requests PROVE Founds(req'[s])
  BY <1>4, <1>5, <1>6, Movers
<1>7. QED
  BY <1>3, <1>6 DEF FounderInv, Founds

\* So it holds in every state.
LEMMA FounderAlways == Spec => []FounderInv
<1>1. Init => FounderInv
  <2>1. SUFFICES ASSUME Init PROVE FounderInv
    OBVIOUS
  <2>2. \A r \in Requests : req[r].at = "idle"
    BY <2>1 DEF Init, Idle
  <2>3. SomeSuperuser
    <3>1. ASSUME users # <<>> PROVE \E i \in Rows : users[i].superuser
      <4>1. PICK u \in Founder : users = <<u>>
        BY <2>1, <3>1 DEF Init
      <4>2. 1 \in Rows /\ users[1] = u /\ u.superuser = TRUE
        BY <4>1 DEF Rows, Founder
      <4>3. QED
        BY <4>2
    <3>2. QED
      BY <3>1 DEF SomeSuperuser
  <2>4. QED
    BY <2>2, <2>3 DEF FounderInv
<1>2. Typed /\ FounderInv /\ [Next]_vars => FounderInv'
  BY FounderStep
<1>3. QED
  BY <1>1, <1>2, TypedAlways, PTL DEF Spec

\* Whatever registrations overlap, one of those that committed counted no users.
THEOREM SuperuserExists == Spec => []SomeSuperuser
<1>1. FounderInv => SomeSuperuser
  BY DEF FounderInv
<1>2. QED
  BY <1>1, FounderAlways, PTL

\* A registration that adds a superuser had begun before there was any user.
THEOREM LaterRegistrations == Spec => LaterUsersAreOrdinary
<1> DEFINE Added ==
      \A r \in Requests :
          Len(users') > Len(users) /\ req[r].at = "insert" /\ req'[r] # req[r]
             => (users'[Len(users')].superuser => req[r].first)
<1>1. ASSUME Typed, FounderInv, [Next]_vars PROVE Added
  <2>1. ASSUME NEW r \in Requests, Len(users') > Len(users), req[r].at = "insert",
               req'[r] # req[r], users'[Len(users')].superuser
        PROVE  req[r].first
    <3>0. Len(users) \in Nat
      BY <1>1, RowsTypes DEF Typed
    <3>1. Begins(r) \/ Continues(r)
      BY <1>1, <2>1, Movers
    <3>2. InsertUser(r)
      <4>1. ~PersistHashParams(r) /\ ~WriteUser(r) /\ ~WritePassword(r)
        BY <2>1 DEF PersistHashParams, WriteUser, WritePassword, At
      <4>2. users' # users
        BY <2>1, <3>0
      <4>3. QED
        BY <3>1, <4>1, <4>2, OtherSteps DEF TableSteps
    <3>3. Inserted(r)
      BY <1>1, <2>1, <3>0, <3>2, InsertUserTable
    <3>4. users'[Len(users')] = NewUser(req[r].name, req[r].superuser)
      BY <3>3 DEF Inserted, Appends
    <3>5. req[r].superuser
      BY <2>1, <3>4 DEF NewUser
    <3>6. QED
      BY <1>1, <2>1, <3>5 DEF FounderInv
  <2>2. QED
    BY <2>1
<1>2. Spec => [][Added]_vars
  BY <1>1, TypedAlways, FounderAlways, PTL DEF Spec
<1>3. QED
  BY <1>2 DEF LaterUsersAreOrdinary

-------------------------------------------------------------------------------
(* Refresh tokens.                                                         *)

\* A holder of version and secret of user i has, or had, the user's password.
Held(table, i, version, secret) ==
    /\ i \in DOMAIN table
    /\ version <= table[i].version
    /\ version = table[i].version => secret = table[i].secret

\* Tokens, and the logins that are about to hand one out.
TokenInv ==
    /\ \A t \in tokens : Held(users, t.user, t.version, t.secret)
    /\ \A r \in Requests :
           req[r].at = "persist" => Held(users, req[r].user, req[r].version, req[r].secret)

\* Password and version change together, so that what was held stays held.
LEMMA HeldGrows ==
    ASSUME Typed, [Next]_vars, NEW i, NEW v \in Nat, NEW s, Held(users, i, v, s)
    PROVE  Held(users', i, v, s)
<1>1. i \in Rows /\ v <= users[i].version /\ (v = users[i].version => s = users[i].secret)
  BY DEF Held, Rows
<1>2. users[i].version \in Nat
  BY <1>1, RowsTypes DEF Typed, UserRow
<1>3. /\ i \in Rows'
      /\ \/ users'[i].secret = users[i].secret /\ users'[i].version = users[i].version
         \/ users'[i].version = users[i].version + 1
  BY <1>1, TableGrows DEF Grown
<1>4. QED
  BY <1>1, <1>2, <1>3 DEF Held, Rows

\* A token that is handed out carries the password its holder has.
LEMMA TokensStep ==
    ASSUME Typed, TokenInv, [Next]_vars, NEW t \in tokens', t \notin tokens
    PROVE  Held(users', t.user, t.version, t.secret)
<1> USE DEF Typed
<1>0. ASSUME NEW i, NEW v, NEW s, CreateTokensWithRefreshVersion(i, v, s)
      PROVE  t.user = i /\ t.version = v /\ t.secret = s
  BY <1>0 DEF CreateTokensWithRefreshVersion
<1>1. ASSUME NEW i \in Rows PROVE Held(users, i, users[i].version, users[i].secret)
  <2>1. users[i].version \in Nat
    BY RowsTypes DEF UserRow
  <2>2. QED
    BY <2>1 DEF Held, Rows
<1>2. ASSUME NEW r \in Requests, NEW n \in Names, NEW s \in 0..MaxRequests, Login(r, n, s)
      PROVE  Held(users', t.user, t.version, t.secret)
  <2>1. PICK i \in GetUserByUsername(n) :
            /\ VerifyPassword(users[i], s)
            /\ CreateTokensWithRefreshVersion(i, users[i].version, s)
    BY <1>2 DEF Login
  <2>2. i \in Rows /\ s = users[i].secret /\ users' = users
    BY <1>2, <2>1 DEF GetUserByUsername, VerifyPassword, Login
  <2>3. QED
    BY <1>0, <1>1, <2>1, <2>2
<1>3. ASSUME NEW r \in Requests, NEW u \in tokens, UpdateTokens(r, u)
      PROVE  Held(users', t.user, t.version, t.secret)
  <2>1. /\ u.user \in Rows /\ u.version = users[u.user].version
        /\ CreateTokensWithRefreshVersion(u.user, users[u.user].version, u.secret)
        /\ users' = users
    BY <1>3 DEF UpdateTokens, GetUserByID
  <2>2. Held(users, u.user, u.version, u.secret)
    BY DEF TokenInv
  <2>3. QED
    BY <1>0, <2>1, <2>2
<1>4. ASSUME NEW r \in Requests, InsertUser(r)
      PROVE  Held(users', t.user, t.version, t.secret)
  <2>1. t.user = Len(users) + 1 /\ t.version = 0 /\ t.secret = 0
    BY <1>0, <1>4 DEF InsertUser
  <2>2. Inserted(r)
    <3>1. CreateUser(req[r].name, req[r].superuser)
      BY <1>4 DEF InsertUser
    <3>2. users' # users
      BY <3>1, RowsTypes, InsertsUser, PlaceTypes, <1>4
      DEF InsertUser, At, WellPlaced, Request
    <3>3. QED
      BY <1>4, <3>2, InsertUserTable
  <2>3. /\ Len(users) + 1 \in Rows'
        /\ users'[Len(users) + 1].version = 0 /\ users'[Len(users) + 1].secret = 0
    BY <2>2 DEF Inserted, Appends, NewUser
  <2>4. QED
    BY <2>1, <2>3 DEF Held, Rows
<1>5. ASSUME NEW r \in Requests, PersistHashParams(r)
      PROVE  Held(users', t.user, t.version, t.secret)
  <2>1. t.user = req[r].user /\ t.version = req[r].version /\ t.secret = req[r].secret
    BY <1>0, <1>5 DEF PersistHashParams
  <2>2. Held(users, req[r].user, req[r].version, req[r].secret)
    BY <1>5 DEF PersistHashParams, At, TokenInv
  <2>3. req[r].version \in Nat
    BY PlaceTypes DEF Request
  <2>4. QED
    BY <2>1, <2>2, <2>3, HeldGrows
<1>6. ASSUME NEW r \in Requests, Begins(r)
      PROVE  Held(users', t.user, t.version, t.secret)
  BY <1>2, <1>3, <1>6 DEF Begins, Register, ChangeUser, ChangePassword,
     RequestPasswordReset, ConfirmPasswordReset
<1>7. ASSUME NEW r \in Requests, Continues(r)
      PROVE  Held(users', t.user, t.version, t.secret)
  BY <1>4, <1>5, <1>7 DEF Continues, CountUsers, WriteUser, WritePassword, CheckCooldown,
     WriteCode, SendCode, DeleteUnsentCode, CompareCode, DropCode, CountAttempt
<1>8. QED
  BY <1>6, <1>7, TimeLeavesUsers DEF Next, vars

\* Tokens and unfinished logins keep to the versions and passwords of the users.
LEMMA TokenStep == Typed /\ TokenInv /\ [Next]_vars => TokenInv'
<1> SUFFICES ASSUME Typed, TokenInv, [Next]_vars PROVE TokenInv'
  OBVIOUS
<1>1. ASSUME NEW t \in tokens' PROVE Held(users', t.user, t.version, t.secret)
  <2>1. CASE t \in tokens
    <3>1. t.version \in Nat
      BY <2>1 DEF Typed, TypeOK, Token
    <3>2. QED
      BY <2>1, <3>1, HeldGrows DEF TokenInv
  <2>2. QED
    BY <2>1, TokensStep
<1>2. ASSUME NEW r \in Requests, req'[r].at = "persist"
      PROVE  Held(users', req'[r].user, req'[r].version, req'[r].secret)
  <2>1. CASE req'[r] = req[r]
    <3>1. req[r].version \in Nat /\ Held(users, req[r].user, req[r].version, req[r].secret)
      BY <1>2, <2>1, PlaceTypes DEF Request, TokenInv
    <3>2. QED
      BY <2>1, <3>1, HeldGrows
  <2>2. CASE Begins(r) \/ Continues(r)
    <3>1. /\ users' = users /\ req'[r].user \in Rows
          /\ VerifyPassword(users[req'[r].user], req'[r].secret)
          /\ req'[r].version = users[req'[r].user].version
      BY <1>2, <2>2, Arrivals
    <3>2. users[req'[r].user].version \in Nat
      BY <3>1, RowsTypes DEF Typed, UserRow
    <3>3. QED
      BY <3>1, <3>2 DEF VerifyPassword, Held, Rows
  <2>3. QED
    BY <2>1, <2>2, Movers
<1>3. QED
  BY <1>1, <1>2 DEF TokenInv

\* A token that can be refreshed was obtained with the password of today: no change
\* or reset of a password leaves one of the old sessions alive.
THEOREM TokensAreCurrent == Spec => []UsableTokensAreCurrent
<1>1. Init => TokenInv
  BY DEF Init, TokenInv, Idle
<1>2. Typed /\ TokenInv /\ [Next]_vars => TokenInv'
  BY TokenStep
<1>3. TokenInv => UsableTokensAreCurrent
  BY DEF TokenInv, UsableTokensAreCurrent, Held, Rows
<1>4. QED
  BY <1>1, <1>2, <1>3, TypedAlways, PTL DEF Spec

-------------------------------------------------------------------------------
(* Password hashes.                                                        *)

\* The parameters are those of password secret, if the row still has it.
Fitting(row, secret, params) ==
    /\ secret <= row.secret
    /\ secret = row.secret => params = row.hashed

\* A login that is about to write parameters read them from a row whose hash can
\* only have been replaced since.
HashInv ==
    /\ PasswordsVerify
    /\ \A r \in Requests :
           req[r].at = "persist" =>
               req[r].user \in Rows /\ Fitting(users[req[r].user], req[r].secret, req[r].params)

\* A row that is replaced, or was replaced while its parameters were on their
\* way, is the only one whose fit may change.
LEMMA RowsFit ==
    ASSUME Typed, HashInv, [Next]_vars
    PROVE  PasswordsVerify'
<1> USE DEF Typed
<1>0. ASSUME mixed \subseteq mixed', NEW j \in Rows,
             users'[j].hashed = users[j].hashed, users'[j].parallelism = users[j].parallelism
      PROVE  j \notin mixed' => ParamsFit(users'[j])
  BY <1>0 DEF HashInv, PasswordsVerify, ParamsFit
<1>1. ASSUME UNCHANGED <<users, mixed>> PROVE PasswordsVerify'
  BY <1>1 DEF HashInv, PasswordsVerify, Rows
<1>2. ASSUME NEW i \in Rows, NEW row, Replaces(i, row), mixed \subseteq mixed',
             i \notin mixed' => ParamsFit(row)
      PROVE  PasswordsVerify'
  <2>1. ASSUME NEW j \in Rows' PROVE j \notin mixed' => ParamsFit(users'[j])
    BY <1>0, <1>2, <2>1 DEF Replaces
  <2>2. QED
    BY <2>1 DEF PasswordsVerify
<1>3. ASSUME NEW r \in Requests, InsertUser(r) PROVE PasswordsVerify'
  <2>1. mixed' = mixed
    BY <1>3 DEF InsertUser, history
  <2>2. CASE Inserted(r)
    <3>1. ParamsFit(NewUser(req[r].name, req[r].superuser))
      BY DEF ParamsFit, NewUser
    <3>2. ASSUME NEW j \in Rows' PROVE j \notin mixed' => ParamsFit(users'[j])
      BY <1>0, <2>1, <2>2, <3>1, <3>2 DEF Inserted, Appends
    <3>3. QED
      BY <3>2 DEF PasswordsVerify
  <2>3. QED
    BY <1>1, <1>3, <2>1, <2>2, InsertUserTable
<1>4. ASSUME NEW r \in Requests, PersistHashParams(r), Persisted(r), NoFault
      PROVE  PasswordsVerify'
  <2> DEFINE i == req[r].user
             row == [users[i] EXCEPT !.parallelism = req[r].params]
  <2>1. i \in Rows /\ Fitting(users[i], req[r].secret, req[r].params)
    BY <1>4 DEF PersistHashParams, At, HashInv
  <2>2. users[i] \in UserRow /\ faults \in Nat
    BY <2>1, RowsTypes, ConstantsAssumption DEF TypeOK
  <2>3. mixed' = IF users[i].secret = req[r].secret THEN mixed ELSE mixed \union {i}
    BY <1>4, <2>2 DEF PersistHashParams, Fault, NoFault
  <2>4. users[i].secret = req[r].secret => ParamsFit(row)
    BY <2>1, <2>2 DEF Fitting, ParamsFit, UserRow
  <2> HIDE DEF row
  <2>5. mixed \subseteq mixed' /\ (i \notin mixed' => ParamsFit(row))
    BY <2>3, <2>4
  <2>6. Replaces(i, row)
    BY <1>4 DEF Persisted, row
  <2>7. QED
    BY <1>2, <2>1, <2>5, <2>6
<1>5. ASSUME NEW r \in Requests, WriteUser(r) PROVE PasswordsVerify'
  <2>1. mixed' = mixed
    BY <1>5 DEF WriteUser, history
  <2>2. CASE Renamed(r)
    <3> DEFINE i == req[r].user
               row == NewName(users[i], req[r].name, req[r].email)
    <3>1. i \in Rows /\ users[i] \in UserRow
      BY <2>2, RowsTypes DEF Renamed, Replaces
    <3>2. row.hashed = users[i].hashed /\ row.parallelism = users[i].parallelism
      BY <3>1 DEF NewName, UserRow
    <3>3. i \notin mixed' => ParamsFit(row)
      BY <2>1, <3>1, <3>2 DEF HashInv, PasswordsVerify, ParamsFit
    <3>4. QED
      BY <1>2, <2>1, <2>2, <3>1, <3>3 DEF Renamed
  <2>3. QED
    BY <1>1, <1>5, <2>1, <2>2, WriteUserTable
<1>6. ASSUME NEW r \in Requests, WritePassword(r) PROVE PasswordsVerify'
  <2>1. mixed' = mixed
    BY <1>6 DEF WritePassword
  <2>2. CASE PasswordSet(r)
    <3> DEFINE i == req[r].user
    <3>1. i \in Rows /\ users[i] \in UserRow
      BY <2>2, RowsTypes DEF PasswordSet, Replaces
    <3>2. ParamsFit(NextPassword(users[i]))
      BY <3>1 DEF NextPassword, UserRow, ParamsFit
    <3>3. QED
      BY <1>2, <2>1, <2>2, <3>1, <3>2 DEF PasswordSet
  <2>3. QED
    BY <1>1, <1>6, <2>1, <2>2, WritePasswordTable
<1>7. ASSUME NEW r \in Requests, PersistHashParams(r) PROVE PasswordsVerify'
  BY <1>1, <1>4, <1>7, PersistHashParamsTable
<1>8. ASSUME NEW r \in Requests, Begins(r) \/ Continues(r), ~TableSteps(r)
      PROVE  UNCHANGED <<users, mixed>>
  <2>1. UNCHANGED users
    BY <1>8, OtherSteps
  <2>2. mixed' = mixed
    <3>1. CASE Begins(r)
      BY <3>1, BeginningArrives DEF Arrives, history
    <3>2. CASE Continues(r)
      BY <1>8, <3>2 DEF Continues, TableSteps, CountUsers, CheckCooldown, WriteCode, SendCode,
         DeleteUnsentCode, CompareCode, DropCode, CountAttempt, history
    <3>3. QED
      BY <1>8, <3>1, <3>2
  <2>3. QED
    BY <2>1, <2>2
<1>9. QED
  BY <1>1, <1>3, <1>5, <1>6, <1>7, <1>8, TimeLeavesUsers DEF Next, vars, history, TableSteps

\* Parameters and unfinished logins keep to the hashes of the users.
LEMMA HashStep == Typed /\ HashInv /\ [Next]_vars => HashInv'
<1> SUFFICES ASSUME Typed, HashInv, [Next]_vars PROVE HashInv'
  OBVIOUS
<1>1. PasswordsVerify'
  BY RowsFit
<1>2. ASSUME NEW r \in Requests, req'[r].at = "persist"
      PROVE  /\ req'[r].user \in Rows'
             /\ Fitting(users'[req'[r].user], req'[r].secret, req'[r].params)
  <2>1. CASE req'[r] = req[r]
    <3>1. req[r].user \in Rows /\ Fitting(users[req[r].user], req[r].secret, req[r].params)
      BY <1>2, <2>1 DEF HashInv
    <3>2. users[req[r].user].secret \in Nat /\ req[r].secret \in Nat
      BY <3>1, PlaceTypes, RowsTypes, ConstantsAssumption DEF Typed, UserRow, Request
    <3>3. /\ req[r].user \in Rows'
          /\ \/ /\ users'[req[r].user].secret = users[req[r].user].secret
                /\ users'[req[r].user].hashed = users[req[r].user].hashed
             \/ users'[req[r].user].secret = users[req[r].user].secret + 1
      BY <3>1, TableGrows DEF Grown
    <3>4. QED
      BY <2>1, <3>1, <3>2, <3>3 DEF Fitting
  <2>2. CASE Begins(r) \/ Continues(r)
    <3>1. /\ users' = users /\ req'[r].user \in Rows
          /\ VerifyPassword(users[req'[r].user], req'[r].secret)
          /\ req'[r].params = users[req'[r].user].hashed
      BY <1>2, <2>2, Arrivals
    <3>2. users[req'[r].user].secret \in Nat
      BY <3>1, RowsTypes, ConstantsAssumption DEF Typed, UserRow
    <3>3. QED
      BY <3>1, <3>2 DEF VerifyPassword, Fitting, Rows
  <2>3. QED
    BY <2>1, <2>2, Movers
<1>3. QED
  BY <1>1, <1>2 DEF HashInv

\* Only a login that overlapped a change of the password leaves a hash that the
\* stored parameters do not fit.
THEOREM PasswordsCanBeVerified == Spec => []PasswordsVerify
<1>1. Init => HashInv
  BY DEF Init, HashInv, PasswordsVerify, Idle, Founder, ParamsFit, Rows
<1>2. Typed /\ HashInv /\ [Next]_vars => HashInv'
  BY HashStep
<1>3. HashInv => PasswordsVerify
  BY DEF HashInv
<1>4. QED
  BY <1>1, <1>2, <1>3, TypedAlways, PTL DEF Spec

-------------------------------------------------------------------------------
(* Reset codes: where a code is.                                           *)

Writing(q) == q.at = "upsert"
Accepted(q) == q.op = "confirmReset" /\ q.at = "password"

\* A code is in one place: the row of one user, a request that is about to write
\* it, or confirmations of one user that have accepted it.
CodeInv ==
    /\ \A i \in Ids : codes[i].code <= issued
    /\ \A i, j \in Ids : codes[i].code = codes[j].code /\ codes[i].code # 0 => i = j
    /\ \A r \in Requests : Writing(req[r]) =>
           /\ req[r].code <= issued
           /\ \A i \in Ids : codes[i].code # req[r].code
           /\ \A s \in Requests \ {r} : Writing(req[s]) => req[s].code # req[r].code
    /\ \A r \in Requests : Accepted(req[r]) =>
           /\ req[r].code <= issued
           /\ \A i \in Ids \ {req[r].user} : codes[i].code # req[r].code
           /\ \A s \in Requests : Writing(req[s]) => req[s].code # req[r].code

\* A code that has set a password is stored nowhere, and only confirmations that
\* overlapped have accepted one code twice.
SpentInv ==
    /\ \A c \in spent : c <= issued
    /\ \A i \in Ids : codes[i].code \notin spent
    /\ \A r \in Requests : Writing(req[r]) => req[r].code \notin spent
    /\ \A r, s \in Requests :
           r # s /\ Accepted(req[r]) /\ Accepted(req[s]) /\ req[r].code = req[s].code
               => req[r].code \in raced
    /\ \A r \in Requests :
           Accepted(req[r]) /\ req[r].code \in spent => req[r].code \in raced

\* What a step does to a code: request s comes by none.
Kept(s) ==
    /\ Writing(req'[s]) => Writing(req[s]) /\ req'[s].code = req[s].code
    /\ Accepted(req'[s]) => /\ Accepted(req[s]) /\ req'[s].code = req[s].code
                            /\ req'[s].user = req[s].user
SameCodes == \A i \in Ids : codes'[i].code = codes[i].code

\* Codes may go, and none comes.
Settled ==
    /\ issued' = issued /\ spent' = spent
    /\ \A i \in Ids : codes'[i].code \in {codes[i].code, 0}
    /\ \A s \in Requests : Kept(s)
\* A code is generated.
Taken(r) ==
    /\ issued' = issued + 1 /\ spent' = spent /\ SameCodes
    /\ Writing(req'[r]) /\ req'[r].code = issued + 1
    /\ \A s \in Requests \ {r} : Kept(s)
\* A code is written to the row of a user.
Written(r) ==
    /\ issued' = issued /\ spent' = spent
    /\ Writing(req[r]) /\ ~Writing(req'[r]) /\ req[r].user \in Ids
    /\ codes'[req[r].user].code = req[r].code
    /\ \A i \in Ids \ {req[r].user} : codes'[i].code = codes[i].code
    /\ \A s \in Requests : Kept(s)
\* A code is accepted, which other confirmations of the user have not read.
Taking(r) ==
    /\ issued' = issued /\ spent' = spent /\ SameCodes
    /\ Accepted(req'[r]) /\ req'[r].user \in Ids
    /\ req'[r].code = codes[req'[r].user].code /\ req'[r].code # 0
    /\ \A s \in Requests \ {r} : Kept(s)
    /\ \A s \in Requests : Accepted(req[s]) /\ req[s].user = req'[r].user
                               => req'[r].code \in raced'
\* A password is set with a code.
Using(r) ==
    /\ issued' = issued /\ spent' = spent \union {req[r].code}
    /\ Accepted(req[r]) /\ req'[r] = Idle /\ req[r].user \in Ids /\ req[r].code # 0
    /\ codes'[req[r].user].code = 0
    /\ \A i \in Ids \ {req[r].user} : codes'[i].code = codes[i].code
    /\ \A s \in Requests \ {r} : Kept(s)

CodeMove ==
    /\ raced \subseteq raced'
    /\ Settled \/ \E r \in Requests : Taken(r) \/ Written(r) \/ Taking(r) \/ Using(r)

\* The statements of a password reset, as far as the number of a code goes.
LEMMA CodeNumbers ==
    ASSUME Typed, NEW i \in Ids
    PROVE  /\ \A c, b : UpsertPasswordResetCode(i, c, b) =>
                  codes'[i].code = c /\ \A j \in Ids \ {i} : codes'[j].code = codes[j].code
           /\ \A n : UpdatePasswordResetCodeAttempts(i, n) => SameCodes
           /\ codes' = [codes EXCEPT ![i] = NoCode] =>
                  codes'[i].code = 0 /\ \A j \in Ids \ {i} : codes'[j].code = codes[j].code
           /\ codes[i] # NoCode /\ codes' = [codes EXCEPT ![i].guesses = @ + 1] => SameCodes
           /\ codes' = [codes EXCEPT ![i].cooling = FALSE] => SameCodes
           /\ codes' = [codes EXCEPT ![i].live = FALSE] => SameCodes
<1>0. codes \in [Ids -> CodeRow \union {NoCode}]
  BY DEF Typed, TypeOK
<1>1. \A row : codes' = [codes EXCEPT ![i] = row] =>
          codes'[i] = row /\ \A j \in Ids \ {i} : codes'[j] = codes[j]
  BY <1>0
<1>2. codes[i] \in CodeRow \/ codes[i] = NoCode
  BY <1>0
<1>3. /\ \A n : [codes[i] EXCEPT !.attempts = n].code = codes[i].code
      /\ \A n : [codes[i] EXCEPT !.guesses = n].code = codes[i].code
      /\ [codes[i] EXCEPT !.cooling = FALSE].code = codes[i].code
      /\ [codes[i] EXCEPT !.live = FALSE].code = codes[i].code
  BY <1>2 DEF CodeRow, NoCode
<1>4. ASSUME NEW c, NEW b, UpsertPasswordResetCode(i, c, b)
      PROVE  codes'[i].code = c /\ \A j \in Ids \ {i} : codes'[j].code = codes[j].code
  BY <1>1, <1>4 DEF UpsertPasswordResetCode
<1>5. ASSUME NEW n, UpdatePasswordResetCodeAttempts(i, n) PROVE SameCodes
  BY <1>1, <1>3, <1>5 DEF UpdatePasswordResetCodeAttempts, SameCodes
<1>6. ASSUME codes' = [codes EXCEPT ![i] = NoCode]
      PROVE  codes'[i].code = 0 /\ \A j \in Ids \ {i} : codes'[j].code = codes[j].code
  BY <1>1, <1>6 DEF NoCode
<1>7. ASSUME codes' = [codes EXCEPT ![i].guesses = @ + 1] PROVE SameCodes
  <2>1. codes' = [codes EXCEPT ![i] = [codes[i] EXCEPT !.guesses = codes[i].guesses + 1]]
    BY <1>0, <1>7
  <2>2. QED
    BY <1>1, <1>3, <2>1 DEF SameCodes
<1>8. ASSUME codes' = [codes EXCEPT ![i].cooling = FALSE] PROVE SameCodes
  <2>1. codes' = [codes EXCEPT ![i] = [codes[i] EXCEPT !.cooling = FALSE]]
    BY <1>0, <1>8
  <2>2. QED
    BY <1>1, <1>3, <2>1 DEF SameCodes
<1>9. ASSUME codes' = [codes EXCEPT ![i].live = FALSE] PROVE SameCodes
  <2>1. codes' = [codes EXCEPT ![i] = [codes[i] EXCEPT !.live = FALSE]]
    BY <1>0, <1>9
  <2>2. QED
    BY <1>1, <1>3, <2>1 DEF SameCodes
<1>10. QED
  BY <1>4, <1>5, <1>6, <1>7, <1>8, <1>9

\* A step of a request that generates and accepts no code comes by none.
LEMMA KeptBy ==
    ASSUME Typed, NEW r \in Requests, Begins(r) \/ Continues(r)
    PROVE  /\ \A s \in Requests \ {r} : Kept(s)
           /\ ~CheckCooldown(r) /\ ~CompareCode(r) => Kept(r)
           /\ ~Writing(req'[r]) /\ ~Accepted(req'[r]) => Kept(r)
<1>1. \A s \in Requests \ {r} : Kept(s)
  BY OthersStay DEF Kept
<1>2. ASSUME ~CheckCooldown(r), ~CompareCode(r) PROVE Kept(r)
  BY <1>2, Arrivals DEF Kept, Writing, Accepted
<1>3. QED
  BY <1>1, <1>2 DEF Kept

\* Every step is one of these.
LEMMA CodeMoves ==
    ASSUME Typed, [Next]_vars
    PROVE  CodeMove
<1> USE DEF Typed
<1>0. \A r \in Requests : /\ req[r] \in Request /\ WellPlaced(req[r], Rows)
                          /\ req[r].user \in Rows => req[r].user \in Ids
  BY PlaceTypes, RowsTypes
<1>1. ASSUME NEW r \in Requests, Begins(r) \/ Continues(r), ~CheckCooldown(r), ~CompareCode(r),
             UNCHANGED <<issued, spent, raced>>,
             SameCodes \/ (req[r].user \in Ids /\ codes' = [codes EXCEPT ![req[r].user] = NoCode])
      PROVE  CodeMove
  <2>1. \A i \in Ids : codes'[i].code \in {codes[i].code, 0}
    BY <1>1, CodeNumbers DEF SameCodes
  <2>2. \A s \in Requests : Kept(s)
    BY <1>1, KeptBy
  <2>3. QED
    BY <1>1, <2>1, <2>2 DEF CodeMove, Settled
<1>2. ASSUME UNCHANGED codes PROVE SameCodes
  BY <1>2 DEF SameCodes
<1>3. ASSUME NEW r \in Requests, Begins(r) PROVE CodeMove
  <2>1. req[r] = Idle /\ UNCHANGED <<codes, issued, spent, raced>>
    BY <1>3, BeginningArrives DEF Arrives, history
  <2>2. ~CheckCooldown(r) /\ ~CompareCode(r)
    BY <2>1 DEF CheckCooldown, CompareCode, At, Idle
  <2>3. QED
    BY <1>1, <1>2, <1>3, <2>1, <2>2
<1>4. ASSUME NEW r \in Requests, Continues(r), CountUsers(r) \/ InsertUser(r) \/ PersistHashParams(r)
             \/ WriteUser(r) \/ SendCode(r)
      PROVE  CodeMove
  <2>1. UNCHANGED <<codes, issued, spent, raced>>
    BY <1>4 DEF CountUsers, InsertUser, PersistHashParams, WriteUser, SendCode, history
  <2>2. ~CheckCooldown(r) /\ ~CompareCode(r)
    BY <1>4 DEF CountUsers, InsertUser, PersistHashParams, WriteUser, SendCode,
       CheckCooldown, CompareCode, At
  <2>3. QED
    BY <1>1, <1>2, <1>4, <2>1, <2>2
<1>5. ASSUME NEW r \in Requests, Continues(r), DeleteUnsentCode(r) \/ DropCode(r)
      PROVE  CodeMove
  <2>1. UNCHANGED <<issued, spent, raced>> /\ req[r].user \in Ids
    BY <1>0, <1>5 DEF DeleteUnsentCode, DropCode, At, WellPlaced, history
  <2>2. UNCHANGED codes \/ codes' = [codes EXCEPT ![req[r].user] = NoCode]
    BY <1>5 DEF DeleteUnsentCode, DropCode, DeletePasswordResetCodeByUserID
  <2>3. ~CheckCooldown(r) /\ ~CompareCode(r)
    BY <1>5 DEF DeleteUnsentCode, DropCode, CheckCooldown, CompareCode, At
  <2>4. QED
    BY <1>1, <1>2, <1>5, <2>1, <2>2, <2>3
<1>6. ASSUME NEW r \in Requests, Continues(r), CountAttempt(r) PROVE CodeMove
  <2>1. UNCHANGED <<issued, spent, raced>> /\ req[r].user \in Ids
    BY <1>0, <1>6 DEF CountAttempt, At, WellPlaced, history
  <2>2. SameCodes
    BY <1>2, <1>6, <2>1, CodeNumbers DEF CountAttempt
  <2>3. ~CheckCooldown(r) /\ ~CompareCode(r)
    BY <1>6 DEF CountAttempt, CheckCooldown, CompareCode, At
  <2>4. QED
    BY <1>1, <1>6, <2>1, <2>2, <2>3
<1>7. ASSUME NEW r \in Requests, Continues(r), WritePassword(r) PROVE CodeMove
  <2>1. /\ UNCHANGED <<issued, raced>> /\ req[r].user \in Ids
        /\ req[r].op = "confirmReset" => req[r].code # 0
        /\ req[r].at = "password"
    BY <1>0, <1>7 DEF WritePassword, At, WellPlaced
  <2>2. ~CheckCooldown(r) /\ ~CompareCode(r)
    BY <1>7 DEF WritePassword, CheckCooldown, CompareCode, At
  <2>3. req'[r] = Idle
    BY <1>7 DEF WritePassword, Answer, Fails, TypeOK
  <2>4. CASE UNCHANGED <<codes, spent>>
    BY <1>1, <1>2, <1>7, <2>1, <2>2, <2>4
  <2>5. CASE /\ codes' = [codes EXCEPT ![req[r].user] = NoCode]
             /\ spent' = IF req[r].op = "confirmReset" THEN spent \union {req[r].code} ELSE spent
    <3>1. CASE req[r].op # "confirmReset"
      BY <1>1, <1>7, <2>1, <2>2, <2>5, <3>1
    <3>2. CASE req[r].op = "confirmReset"
      <4>1. /\ codes'[req[r].user].code = 0
            /\ \A i \in Ids \ {req[r].user} : codes'[i].code = codes[i].code
        BY <2>1, <2>5, CodeNumbers
      <4>2. \A s \in Requests \ {r} : Kept(s)
        BY <1>7, KeptBy
      <4>3. Using(r)
        BY <2>1, <2>3, <2>5, <3>2, <4>1, <4>2 DEF Using, Accepted
      <4>4. QED
        BY <2>1, <4>3 DEF CodeMove
    <3>3. QED
      BY <3>1, <3>2
  <2>6. QED
    BY <1>7, <2>4, <2>5, WritePasswordTable
<1>8. ASSUME NEW r \in Requests, Continues(r), CheckCooldown(r) PROVE CodeMove
  <2>1. UNCHANGED <<codes, spent, raced>> /\ SameCodes
    BY <1>2, <1>8 DEF CheckCooldown, history
  <2>2. CASE Go(r, [req[r] EXCEPT !.at = "upsert", !.code = issued + 1]) /\ issued' = issued + 1
    <3>1. req'[r] = [req[r] EXCEPT !.at = "upsert", !.code = issued + 1]
      BY <2>2 DEF Go, TypeOK
    <3>2. Writing(req'[r]) /\ req'[r].code = issued + 1
      BY <1>0, <3>1 DEF Writing, Request
    <3>3. Taken(r)
      BY <1>8, <2>1, <2>2, <3>2, KeptBy DEF Taken
    <3>4. QED
      BY <2>1, <3>3 DEF CodeMove
  <2>3. CASE issued' = issued /\ req'[r] = Idle
    <3>1. \A s \in Requests : Kept(s)
      BY <1>8, <2>3, KeptBy DEF Writing, Accepted, Idle
    <3>2. Settled
      BY <2>1, <2>3, <3>1 DEF Settled, SameCodes
    <3>3. QED
      BY <2>1, <3>2 DEF CodeMove
  <2>4. QED
    BY <1>8, <2>2, <2>3 DEF CheckCooldown, Answer, Fails, TypeOK
<1>9. ASSUME NEW r \in Requests, Continues(r), WriteCode(r) PROVE CodeMove
  <2>1. UNCHANGED <<issued, spent, raced>> /\ req[r].user \in Ids /\ req[r].at = "upsert"
    BY <1>0, <1>9 DEF WriteCode, At, WellPlaced, history
  <2>2. ~CheckCooldown(r) /\ ~CompareCode(r)
    BY <1>9 DEF WriteCode, CheckCooldown, CompareCode, At
  <2>3. CASE UNCHANGED codes
    BY <1>1, <1>2, <1>9, <2>1, <2>2, <2>3
  <2>4. CASE UpsertPasswordResetCode(req[r].user, req[r].code, Resetting(req[r].user) # {r})
    <3>1. /\ codes'[req[r].user].code = req[r].code
          /\ \A i \in Ids \ {req[r].user} : codes'[i].code = codes[i].code
      BY <2>1, <2>4, CodeNumbers
    <3>2. ~Writing(req'[r])
      BY <1>9, <2>2, Arrivals DEF Writing
    <3>3. \A s \in Requests : Kept(s)
      BY <1>9, <2>2, KeptBy
    <3>4. Written(r)
      BY <2>1, <3>1, <3>2, <3>3 DEF Written, Writing
    <3>5. QED
      BY <2>1, <3>4 DEF CodeMove
  <2>5. QED
    BY <1>9, <2>3, <2>4 DEF WriteCode
<1>10. ASSUME NEW r \in Requests, Continues(r), CompareCode(r) PROVE CodeMove
  <2> DEFINE i == req[r].user
  <2>1. /\ UNCHANGED <<issued, spent>> /\ i \in Ids /\ req[r].at = "compare"
        /\ raced \subseteq raced'
    BY <1>0, <1>10 DEF CompareCode, At, WellPlaced
  <2>2. SameCodes
    <3>1. \/ UNCHANGED codes
          \/ codes[i] # NoCode /\ codes' = [codes EXCEPT ![i].guesses = @ + 1]
      BY <1>10 DEF CompareCode, GetPasswordResetCodeByUserID
    <3>2. QED
      BY <1>2, <2>1, <3>1, CodeNumbers
  <2>3. ~Writing(req'[r])
    <3>1. ~CheckCooldown(r)
      BY <2>1 DEF CheckCooldown, At
    <3>2. QED
      BY <1>10, <3>1, Arrivals DEF Writing
  <2>4. CASE ~Accepted(req'[r])
    <3>1. \A s \in Requests : Kept(s)
      BY <1>10, <2>3, <2>4, KeptBy
    <3>2. Settled
      BY <2>1, <2>2, <3>1 DEF Settled, SameCodes
    <3>3. QED
      BY <2>1, <3>2 DEF CodeMove
  <2>5. CASE Accepted(req'[r])
    <3>1. /\ req'[r].user = i /\ req'[r].code = req[r].code
          /\ codes[i] # NoCode /\ Judged(r)
      BY <1>10, <2>5, Arrivals DEF Accepted, Carries
    <3>2. req[r].code = codes[i].code
      BY <2>5, <3>1 DEF Judged, Accepted
    <3>3. codes[i].code # 0
      BY <2>1, <3>1, CodeTypes
    <3>4. ASSUME NEW s \in Requests, Accepted(req[s]), req[s].user = i
          PROVE  req'[r].code \in raced'
      <4>1. s \in Confirming(i)
        BY <3>4 DEF Confirming, Unfinished, Accepted, At
      <4>2. req'[r] # Idle
        BY <2>5 DEF Accepted, Idle
      <4>3. raced' = raced \union {codes[i].code}
        BY <1>10, <4>1, <4>2
        DEF CompareCode, GetPasswordResetCodeByUserID, Answer, Fails, TypeOK
      <4>4. QED
        BY <3>1, <3>2, <4>3
    <3>5. Taking(r)
      BY <1>10, <2>1, <2>2, <2>5, <3>1, <3>2, <3>3, <3>4, KeptBy DEF Taking
    <3>6. QED
      BY <2>1, <3>5 DEF CodeMove
  <2>6. QED
    BY <2>4, <2>5
<1>11. ASSUME UNCHANGED <<req, issued, history>>, SameCodes PROVE CodeMove
  BY <1>11 DEF CodeMove, Settled, SameCodes, Kept, history
<1>12. ASSUME NEW i \in Ids, TimePasses(i) PROVE CodeMove
  <2>1. SameCodes
    BY <1>12, CodeNumbers DEF TimePasses, CooldownEnds, CodeExpires
  <2>2. QED
    BY <1>11, <1>12, <2>1, TimeLeavesUsers
<1>13. ASSUME NEW r \in Requests, Continues(r) PROVE CodeMove
  BY <1>4, <1>5, <1>6, <1>7, <1>8, <1>9, <1>10, <1>13 DEF Continues
<1>14. QED
  BY <1>2, <1>3, <1>11, <1>12, <1>13 DEF Next, vars

\* Where codes are, as numbers.
LEMMA CodeFacts ==
    ASSUME Typed
    PROVE  /\ issued \in Nat /\ issued + 1 # 0
           /\ \A i \in Ids : codes[i].code \in Nat
           /\ \A r \in Requests : req[r].code \in Nat
           /\ \A r \in Requests :
                  Writing(req[r]) \/ Accepted(req[r]) => req[r].code # 0
           /\ \A c \in spent : c \in Nat /\ c # 0
<1>1. issued \in Nat /\ spent \in SUBSET Codes
  BY ConstantsAssumption DEF Typed, TypeOK
<1>2. \A i \in Ids : codes[i].code \in Nat
  BY CodeTypes, ConstantsAssumption DEF Typed
<1>3. ASSUME NEW r \in Requests
      PROVE  /\ req[r].code \in Nat
             /\ Writing(req[r]) \/ Accepted(req[r]) => req[r].code # 0
  BY PlaceTypes, ConstantsAssumption DEF Request, Writing, Accepted, WellPlaced
<1>4. \A c \in spent : c \in Nat /\ c # 0
  BY <1>1, ConstantsAssumption DEF Codes
<1>5. QED
  BY <1>1, <1>2, <1>3, <1>4

\* Codes stay distinct, and used ones stay used.
LEMMA CodeStep == Typed /\ CodeInv /\ SpentInv /\ [Next]_vars => CodeInv' /\ SpentInv'
<1> SUFFICES ASSUME Typed, CodeInv, SpentInv, [Next]_vars PROVE CodeInv' /\ SpentInv'
  OBVIOUS
<1>0. /\ issued \in Nat /\ issued + 1 # 0
      /\ \A i \in Ids : codes[i].code \in Nat
      /\ \A r \in Requests : req[r].code \in Nat
      /\ \A r \in Requests : Writing(req[r]) \/ Accepted(req[r]) => req[r].code # 0
      /\ \A c \in spent : c \in Nat /\ c # 0
  BY CodeFacts
<1>1. CodeMove /\ raced \subseteq raced'
  BY CodeMoves DEF CodeMove
<1> USE DEF CodeInv, SpentInv
<1>2. ASSUME issued' = issued, \A i \in Ids : codes'[i].code \in {codes[i].code, 0},
             \A s \in Requests : Kept(s)
      PROVE  CodeInv'
  <2>1. /\ \A i \in Ids : codes'[i].code <= issued'
        /\ \A i, j \in Ids : codes'[i].code = codes'[j].code /\ codes'[i].code # 0 => i = j
    BY <1>0, <1>2
  <2>2. ASSUME NEW s \in Requests, Writing(req'[s])
        PROVE  /\ req'[s].code <= issued'
               /\ \A i \in Ids : codes'[i].code # req'[s].code
               /\ \A t \in Requests \ {s} : Writing(req'[t]) => req'[t].code # req'[s].code
    BY <1>0, <1>2, <2>2 DEF Kept
  <2>3. ASSUME NEW s \in Requests, Accepted(req'[s])
        PROVE  /\ req'[s].code <= issued'
               /\ \A i \in Ids \ {req'[s].user} : codes'[i].code # req'[s].code
               /\ \A t \in Requests : Writing(req'[t]) => req'[t].code # req'[s].code
    <3>1. /\ Accepted(req[s]) /\ req'[s].code = req[s].code /\ req'[s].user = req[s].user
          /\ req[s].code # 0
      BY <1>0, <1>2, <2>3 DEF Kept
    <3>2. QED
      BY <1>0, <1>2, <3>1 DEF Kept
  <2>4. QED
    BY <2>1, <2>2, <2>3
<1>3. CASE Settled
  <2>1. CodeInv'
    BY <1>3, <1>2 DEF Settled
  <2>2. SpentInv'
    BY <1>0, <1>1, <1>3 DEF Settled, Kept
  <2>3. QED
    BY <2>1, <2>2
<1>4. ASSUME NEW r \in Requests, Taken(r) PROVE CodeInv' /\ SpentInv'
  <2>1. ~Accepted(req'[r])
    BY <1>4 DEF Taken, Writing, Accepted
  <2>2. /\ \A c \in spent : c # issued + 1
        /\ \A i \in Ids : codes[i].code # issued + 1
        /\ \A s \in Requests : Writing(req[s]) \/ Accepted(req[s]) => req[s].code # issued + 1
    BY <1>0
  <2>3. CodeInv'
    <3>1. /\ \A i \in Ids : codes'[i].code <= issued'
          /\ \A i, j \in Ids : codes'[i].code = codes'[j].code /\ codes'[i].code # 0 => i = j
      BY <1>0, <1>4 DEF Taken, SameCodes
    <3>2. ASSUME NEW s \in Requests, Writing(req'[s])
          PROVE  /\ req'[s].code <= issued'
                 /\ \A i \in Ids : codes'[i].code # req'[s].code
                 /\ \A t \in Requests \ {s} : Writing(req'[t]) => req'[t].code # req'[s].code
      <4>1. CASE s = r
        BY <1>0, <1>4, <2>2, <4>1 DEF Taken, SameCodes, Kept
      <4>2. CASE s # r
        BY <1>0, <1>4, <2>2, <3>2, <4>2 DEF Taken, SameCodes, Kept
      <4>3. QED
        BY <4>1, <4>2
    <3>3. ASSUME NEW s \in Requests, Accepted(req'[s])
          PROVE  /\ req'[s].code <= issued'
                 /\ \A i \in Ids \ {req'[s].user} : codes'[i].code # req'[s].code
                 /\ \A t \in Requests : Writing(req'[t]) => req'[t].code # req'[s].code
      <4>1. s # r
        BY <2>1, <3>3
      <4>2. QED
        BY <1>0, <1>4, <2>2, <3>3, <4>1 DEF Taken, SameCodes, Kept
    <3>4. QED
      BY <3>1, <3>2, <3>3
  <2>4. SpentInv'
    <3>1. /\ \A c \in spent' : c <= issued'
          /\ \A i \in Ids : codes'[i].code \notin spent'
          /\ \A s \in Requests : Writing(req'[s]) => req'[s].code \notin spent'
      BY <1>0, <1>4, <2>2 DEF Taken, SameCodes, Kept
    <3>2. ASSUME NEW s \in Requests, Accepted(req'[s])
          PROVE  s # r /\ Accepted(req[s]) /\ req'[s].code = req[s].code
      BY <1>4, <2>1, <3>2 DEF Taken, Kept
    <3>3. spent' = spent
      BY <1>4 DEF Taken
    <3>4. QED
      BY <1>1, <3>1, <3>2, <3>3
  <2>5. QED
    BY <2>3, <2>4
<1>5. ASSUME NEW r \in Requests, Written(r) PROVE CodeInv' /\ SpentInv'
  <2>1. CodeInv'
    BY <1>0, <1>5 DEF Written, Kept
  <2>2. SpentInv'
    BY <1>0, <1>1, <1>5 DEF Written, Kept
  <2>3. QED
    BY <2>1, <2>2
<1>6. ASSUME NEW r \in Requests, Taking(r) PROVE CodeInv' /\ SpentInv'
  <2> DEFINE c == req'[r].code
             u == req'[r].user
  <2>1. /\ u \in Ids /\ c = codes[u].code /\ c # 0 /\ c \notin spent
        /\ \A i \in Ids \ {u} : codes[i].code # c
        /\ \A s \in Requests : Writing(req[s]) => req[s].code # c
    BY <1>6 DEF Taking
  <2>2. ~Writing(req'[r])
    BY <1>6 DEF Taking, Writing, Accepted
  <2>3. ASSUME NEW s \in Requests \ {r}
        PROVE  /\ Writing(req'[s]) => Writing(req[s]) /\ req'[s].code = req[s].code
               /\ Accepted(req'[s]) => /\ Accepted(req[s]) /\ req'[s].code = req[s].code
                                       /\ req'[s].user = req[s].user
    BY <1>6 DEF Taking, Kept
  <2>4. ASSUME NEW s \in Requests, Accepted(req[s]), req[s].code = c PROVE c \in raced'
    <3>1. req[s].user = u
      BY <2>1, <2>4
    <3>2. QED
      BY <1>6, <2>4, <3>1 DEF Taking
  <2>5. issued' = issued /\ spent' = spent /\ \A i \in Ids : codes'[i].code = codes[i].code
    BY <1>6 DEF Taking, SameCodes
  <2> HIDE DEF c, u
  <2>6. req'[r].code = c /\ req'[r].user = u
    BY DEF c, u
  <2>7. CodeInv'
    <3>1. /\ \A i \in Ids : codes'[i].code <= issued'
          /\ \A i, j \in Ids : codes'[i].code = codes'[j].code /\ codes'[i].code # 0 => i = j
      BY <2>5
    <3>2. ASSUME NEW s \in Requests, Writing(req'[s])
          PROVE  /\ req'[s].code <= issued'
                 /\ \A i \in Ids : codes'[i].code # req'[s].code
                 /\ \A t \in Requests \ {s} : Writing(req'[t]) => req'[t].code # req'[s].code
      BY <2>2, <2>3, <2>5, <3>2
    <3>3. ASSUME NEW s \in Requests, Accepted(req'[s])
          PROVE  /\ req'[s].code <= issued'
                 /\ \A i \in Ids \ {req'[s].user} : codes'[i].code # req'[s].code
                 /\ \A t \in Requests : Writing(req'[t]) => req'[t].code # req'[s].code
      BY <2>1, <2>2, <2>3, <2>5, <2>6, <3>3
    <3>4. QED
      BY <3>1, <3>2, <3>3
  <2>8. SpentInv'
    <3>1. /\ \A d \in spent' : d <= issued'
          /\ \A i \in Ids : codes'[i].code \notin spent'
          /\ \A s \in Requests : Writing(req'[s]) => req'[s].code \notin spent'
      BY <2>2, <2>3, <2>5
    <3>2. ASSUME NEW s \in Requests, NEW t \in Requests, s # t, Accepted(req'[s]),
                 Accepted(req'[t]), req'[s].code = req'[t].code
          PROVE  req'[s].code \in raced'
      <4>1. CASE s = r
        BY <2>3, <2>4, <2>6, <3>2, <4>1
      <4>2. CASE t = r
        BY <2>3, <2>4, <2>6, <3>2, <4>2
      <4>3. CASE s # r /\ t # r
        BY <1>1, <2>3, <3>2, <4>3
      <4>4. QED
        BY <4>1, <4>2, <4>3
    <3>3. ASSUME NEW s \in Requests, Accepted(req'[s]), req'[s].code \in spent'
          PROVE  req'[s].code \in raced'
      <4>1. s # r
        BY <2>1, <2>5, <2>6, <3>3
      <4>2. QED
        BY <1>1, <2>3, <2>5, <3>3, <4>1
    <3>4. QED
      BY <3>1, <3>2, <3>3
  <2>9. QED
    BY <2>7, <2>8
<1>7. ASSUME NEW r \in Requests, Using(r) PROVE CodeInv' /\ SpentInv'
  <2>1. ~Writing(req'[r]) /\ ~Accepted(req'[r])
    BY <1>7 DEF Using, Writing, Accepted, Idle
  <2>2. ASSUME NEW s \in Requests
        PROVE  /\ Writing(req'[s]) => Writing(req[s]) /\ req'[s].code = req[s].code
               /\ Accepted(req'[s]) => /\ s # r /\ Accepted(req[s]) /\ req'[s].code = req[s].code
                                       /\ req'[s].user = req[s].user
    BY <1>7, <2>1 DEF Using, Kept
  <2>3. \A i \in Ids : codes'[i].code \in {codes[i].code, 0}
    BY <1>7 DEF Using
  <2>4. CodeInv'
    BY <1>7, <1>2, <2>2, <2>3 DEF Using, Kept
  <2>5. SpentInv'
    <3>1. /\ \A d \in spent' : d <= issued'
          /\ \A i \in Ids : codes'[i].code \notin spent'
          /\ \A s \in Requests : Writing(req'[s]) => req'[s].code \notin spent'
      BY <1>0, <1>7, <2>2 DEF Using
    <3>2. ASSUME NEW s \in Requests, NEW t \in Requests, s # t, Accepted(req'[s]),
                 Accepted(req'[t]), req'[s].code = req'[t].code
          PROVE  req'[s].code \in raced'
      BY <1>1, <2>2, <3>2
    <3>3. ASSUME NEW s \in Requests, Accepted(req'[s]), req'[s].code \in spent'
          PROVE  req'[s].code \in raced'
      <4>1. s # r /\ Accepted(req[s]) /\ req'[s].code = req[s].code
        BY <2>2, <3>3
      <4>2. CASE req[s].code \in spent
        BY <1>1, <4>1, <4>2
      <4>3. CASE req[s].code = req[r].code
        BY <1>1, <1>7, <4>1, <4>3 DEF Using
      <4>4. QED
        BY <1>7, <3>3, <4>1, <4>2, <4>3 DEF Using
    <3>4. QED
      BY <3>1, <3>2, <3>3
  <2>6. QED
    BY <2>4, <2>5
<1>8. QED
  BY <1>1, <1>3, <1>4, <1>5, <1>6, <1>7 DEF CodeMove

\* So that holds in every state.
LEMMA CodesAlways == Spec => [](CodeInv /\ SpentInv)
<1>1. Init => CodeInv /\ SpentInv
  BY DEF Init, CodeInv, SpentInv, Writing, Accepted, Idle, NoCode
<1>2. Typed /\ CodeInv /\ SpentInv /\ [Next]_vars => CodeInv' /\ SpentInv'
  BY CodeStep
<1>3. QED
  BY <1>1, <1>2, TypedAlways, PTL DEF Spec

\* A code sets one password, unless confirmations of one user overlapped.
THEOREM OnePasswordPerCode == Spec => []CodesWorkOnce
<1>1. SpentInv => CodesWorkOnce
  BY DEF SpentInv, CodesWorkOnce, Accepted, At
<1>2. QED
  BY <1>1, CodesAlways, PTL

-------------------------------------------------------------------------------
(* Reset codes: what a step does to the row of a user.                     *)

Replaced(row, new) ==
    row # NoCode /\ new \in {[row EXCEPT !.cooling = FALSE], [row EXCEPT !.live = FALSE]}
\* The row goes, with the request r that removes it.
Removed(r, i) ==
    /\ req[r].user = i /\ codes'[i] = NoCode /\ req'[r] = Idle
    /\ DeleteUnsentCode(r) \/ DropCode(r) \/ WritePassword(r)
Issued(r, i) ==
    /\ WriteCode(r) /\ req[r].user = i
    /\ codes'[i] = [code |-> req[r].code, attempts |-> MaxAttempts, live |-> TRUE,
                    cooling |-> TRUE, guesses |-> 0, crossed |-> Resetting(i) # {r}]
Guessed(r, i) ==
    /\ CompareCode(r) /\ req[r].user = i /\ codes[i] # NoCode
    /\ codes[i].attempts > 0 /\ req[r].code # codes[i].code
    /\ codes'[i] = [codes[i] EXCEPT !.guesses = codes[i].guesses + 1]
Counted(r, i) ==
    /\ CountAttempt(r) /\ req[r].user = i /\ codes[i] # NoCode /\ req'[r] = Idle
    /\ codes'[i] = [codes[i] EXCEPT !.attempts = req[r].attempts - 1]

RowMove(i) ==
    \/ codes'[i] = codes[i]
    \/ Replaced(codes[i], codes'[i]) /\ UNCHANGED <<req, faults, history>>
    \/ \E r \in Requests : Removed(r, i) \/ Issued(r, i) \/ Guessed(r, i) \/ Counted(r, i)

\* What a step can do to the row of a code.
LEMMA RowMoves ==
    ASSUME Typed, [Next]_vars, NEW i \in Ids
    PROVE  RowMove(i)
<1> USE DEF Typed
<1>0. codes \in [Ids -> CodeRow \union {NoCode}]
  BY DEF TypeOK
<1>1. ASSUME NEW u, NEW row, codes' = [codes EXCEPT ![u] = row], i # u
      PROVE  RowMove(i)
  BY <1>0, <1>1 DEF RowMove
<1>2. ASSUME NEW row, codes' = [codes EXCEPT ![i] = row] PROVE codes'[i] = row
  BY <1>0, <1>2
<1>3. ASSUME UNCHANGED codes PROVE RowMove(i)
  BY <1>3 DEF RowMove
<1>4. ASSUME NEW r \in Requests, codes' = [codes EXCEPT ![req[r].user] = NoCode], req'[r] = Idle,
             DeleteUnsentCode(r) \/ DropCode(r) \/ WritePassword(r)
      PROVE  RowMove(i)
  BY <1>1, <1>2, <1>4 DEF RowMove, Removed
<1>5. ASSUME NEW r \in Requests, Answer(r, "confirmReset", "badparams", FALSE)
                                 \/ Answer(r, "requestReset", "ok", FALSE)
      PROVE  req'[r] = Idle
  BY <1>5 DEF Answer, TypeOK
<1>6. ASSUME NEW r \in Requests, DeleteUnsentCode(r) \/ DropCode(r) PROVE RowMove(i)
  <2>1. req'[r] = Idle
    BY <1>5, <1>6 DEF DeleteUnsentCode, DropCode
  <2>2. UNCHANGED codes \/ codes' = [codes EXCEPT ![req[r].user] = NoCode]
    BY <1>6 DEF DeleteUnsentCode, DropCode, DeletePasswordResetCodeByUserID
  <2>3. QED
    BY <1>3, <1>4, <1>6, <2>1, <2>2
<1>7. ASSUME NEW r \in Requests, WritePassword(r) PROVE RowMove(i)
  <2>1. req'[r] = Idle
    BY <1>7 DEF WritePassword, Answer, Fails, TypeOK
  <2>2. QED
    BY <1>3, <1>4, <1>7, <2>1, WritePasswordTable
<1>8. ASSUME NEW r \in Requests, WriteCode(r) PROVE RowMove(i)
  <2> DEFINE row == [code |-> req[r].code, attempts |-> MaxAttempts, live |-> TRUE,
                     cooling |-> TRUE, guesses |-> 0, crossed |-> Resetting(req[r].user) # {r}]
  <2>1. UNCHANGED codes \/ codes' = [codes EXCEPT ![req[r].user] = row]
    BY <1>8 DEF WriteCode, UpsertPasswordResetCode
  <2> HIDE DEF row
  <2>2. CASE codes' = [codes EXCEPT ![req[r].user] = row] /\ i = req[r].user
    <3>1. codes'[i] = row
      BY <1>2, <2>2
    <3>2. Issued(r, i)
      BY <1>8, <2>2, <3>1 DEF Issued, row
    <3>3. QED
      BY <3>2 DEF RowMove
  <2>3. QED
    BY <1>1, <1>3, <2>1, <2>2
<1>9. ASSUME NEW r \in Requests, CompareCode(r) PROVE RowMove(i)
  <2> DEFINE u == req[r].user
  <2>1. \/ UNCHANGED codes
        \/ /\ codes[u] # NoCode /\ codes[u].attempts > 0 /\ req[r].code # codes[u].code
           /\ codes' = [codes EXCEPT ![u].guesses = @ + 1]
    BY <1>9 DEF CompareCode, GetPasswordResetCodeByUserID
  <2>2. CASE /\ codes[u] # NoCode /\ codes[u].attempts > 0 /\ req[r].code # codes[u].code
             /\ codes' = [codes EXCEPT ![u].guesses = @ + 1]
    <3>1. codes' = [codes EXCEPT ![u] = [codes[u] EXCEPT !.guesses = codes[u].guesses + 1]]
      BY <1>0, <2>2
    <3>2. CASE i = u
      BY <1>2, <1>9, <2>2, <3>1, <3>2 DEF RowMove, Guessed
    <3>3. QED
      BY <1>1, <3>1, <3>2
  <2>3. QED
    BY <1>3, <2>1, <2>2
<1>10. ASSUME NEW r \in Requests, CountAttempt(r) PROVE RowMove(i)
  <2> DEFINE u == req[r].user
  <2>1. req'[r] = Idle
    BY <1>10 DEF CountAttempt, Answer, Fails, TypeOK
  <2>2. \/ UNCHANGED codes
        \/ codes' = [codes EXCEPT ![u] =
                        IF codes[u] = NoCode THEN codes[u]
                        ELSE [codes[u] EXCEPT !.attempts = req[r].attempts - 1]]
    BY <1>10 DEF CountAttempt, UpdatePasswordResetCodeAttempts
  <2>3. CASE codes' = [codes EXCEPT ![u] =
                        IF codes[u] = NoCode THEN codes[u]
                        ELSE [codes[u] EXCEPT !.attempts = req[r].attempts - 1]]
    <3>1. CASE i # u
      BY <1>1, <2>3, <3>1
    <3>2. CASE i = u /\ codes[u] = NoCode
      BY <1>2, <2>3, <3>2 DEF RowMove
    <3>3. CASE i = u /\ codes[u] # NoCode
      <4>1. codes'[i] = [codes[i] EXCEPT !.attempts = req[r].attempts - 1]
        BY <1>2, <2>3, <3>3
      <4>2. QED
        BY <1>10, <2>1, <3>3, <4>1 DEF RowMove, Counted
    <3>4. QED
      BY <3>1, <3>2, <3>3
  <2>4. QED
    BY <1>3, <2>2, <2>3
<1>11. ASSUME NEW u \in Ids, TimePasses(u) PROVE RowMove(i)
  <2>1. UNCHANGED <<req, faults, history>>
    BY <1>11, TimeLeavesUsers
  <2>2. codes[u] # NoCode
    BY <1>11 DEF TimePasses, CooldownEnds, CodeExpires, NoCode
  <2>3. \/ codes' = [codes EXCEPT ![u] = [codes[u] EXCEPT !.cooling = FALSE]]
        \/ codes' = [codes EXCEPT ![u] = [codes[u] EXCEPT !.live = FALSE]]
    BY <1>0, <1>11 DEF TimePasses, CooldownEnds, CodeExpires
  <2>4. CASE i = u
    <3>1. Replaced(codes[i], codes'[i])
      BY <1>2, <2>2, <2>3, <2>4 DEF Replaced
    <3>2. QED
      BY <2>1, <3>1 DEF RowMove
  <2>5. QED
    BY <1>1, <2>3, <2>4
<1>12. ASSUME NEW r \in Requests, Begins(r) PROVE RowMove(i)
  BY <1>3, <1>12, BeginningArrives DEF Arrives
<1>13. ASSUME NEW r \in Requests, Continues(r) PROVE RowMove(i)
  BY <1>3, <1>6, <1>7, <1>8, <1>9, <1>10, <1>13
  DEF Continues, CountUsers, InsertUser, PersistHashParams, WriteUser, CheckCooldown, SendCode
<1>14. QED
  BY <1>3, <1>11, <1>12, <1>13 DEF Next, vars

\* Number and mark of a code stay with it, until it goes or another replaces it.
LEMMA RowStays ==
    ASSUME Typed, [Next]_vars, NEW i \in Ids, codes'[i] # NoCode,
           \A r \in Requests : ~Issued(r, i)
    PROVE  /\ codes[i] # NoCode
           /\ codes'[i].code = codes[i].code /\ codes'[i].crossed = codes[i].crossed
<1>1. RowMove(i)
  BY RowMoves
<1>2. codes[i] \in CodeRow \/ codes[i] = NoCode
  BY CodeTypes DEF Typed
<1>3. CASE codes[i] = NoCode
  BY <1>1, <1>3 DEF RowMove, Replaced, Removed, Guessed, Counted
<1>4. CASE codes[i] \in CodeRow /\ codes[i] # NoCode
  <2>1. \A row \in CodeRow :
           /\ [row EXCEPT !.cooling = FALSE].code = row.code
           /\ [row EXCEPT !.cooling = FALSE].crossed = row.crossed
           /\ [row EXCEPT !.live = FALSE].code = row.code
           /\ [row EXCEPT !.live = FALSE].crossed = row.crossed
           /\ \A n : [row EXCEPT !.guesses = n].code = row.code
           /\ \A n : [row EXCEPT !.guesses = n].crossed = row.crossed
           /\ \A n : [row EXCEPT !.attempts = n].code = row.code
           /\ \A n : [row EXCEPT !.attempts = n].crossed = row.crossed
    BY DEF CodeRow
  <2>2. CASE Replaced(codes[i], codes'[i])
    BY <1>4, <2>1, <2>2 DEF Replaced
  <2>3. ASSUME NEW r \in Requests, Guessed(r, i) \/ Counted(r, i)
        PROVE  codes'[i].code = codes[i].code /\ codes'[i].crossed = codes[i].crossed
    <3>1. CASE Guessed(r, i)
      <4>1. codes'[i] = [codes[i] EXCEPT !.guesses = codes[i].guesses + 1]
        BY <3>1 DEF Guessed
      <4>2. QED
        BY <1>4, <2>1, <4>1
    <3>2. CASE Counted(r, i)
      <4>1. codes'[i] = [codes[i] EXCEPT !.attempts = req[r].attempts - 1]
        BY <3>2 DEF Counted
      <4>2. QED
        BY <1>4, <2>1, <4>1
    <3>3. QED
      BY <2>3, <3>1, <3>2
  <2>4. \A r \in Requests : ~Removed(r, i)
    BY DEF Removed
  <2>5. QED
    BY <1>1, <1>4, <2>2, <2>3, <2>4 DEF RowMove
<1>5. QED
  BY <1>2, <1>3, <1>4

-------------------------------------------------------------------------------
(* Reset codes: the mail.                                                  *)

\* While a request has a code to mail, or to take back, the user has that code,
\* none, or one that was written while the request was unfinished.
MailInv ==
    \A r \in Requests : req[r].at \in {"mail", "unsend"} =>
        LET row == codes[req[r].user] IN
        row # NoCode => (row.code = req[r].code \/ row.crossed)

\* The code that a request mails or takes back stays the user's, or was crossed.
LEMMA MailStep == Typed /\ MailInv /\ [Next]_vars => MailInv'
<1> SUFFICES ASSUME Typed, MailInv, [Next]_vars, NEW r \in Requests,
                    req'[r].at \in {"mail", "unsend"},
                    codes'[req'[r].user] # NoCode
             PROVE  \/ codes'[req'[r].user].code = req'[r].code
                    \/ codes'[req'[r].user].crossed
  BY DEF MailInv
<1> DEFINE i == req'[r].user
<1>0. req[r] \in Request /\ i \in Ids
  <2>1. Typed'
    BY TypedStep
  <2>2. WellPlaced(req'[r], Rows') /\ Rows' \subseteq Ids
    <3>1. Rows' = 1..Len(users') /\ Len(users') \in Nat
      BY TableGrows DEF Grown
    <3>2. Len(users') \in Ids \union {0}
      BY <2>1 DEF Typed, TypeOK
    <3>3. Rows' \subseteq Ids
      BY <3>1, <3>2, ConstantsAssumption DEF Ids
    <3>4. QED
      BY <2>1, <3>3 DEF Typed, PlaceInv
  <2>3. QED
    BY <2>2, PlaceTypes DEF WellPlaced
<1>1. ASSUME req'[r].user = req[r].user, req'[r].code = req[r].code,
             req[r].at \in {"mail", "unsend"}
      PROVE  codes'[i].code = req'[r].code \/ codes'[i].crossed
  <2>1. CASE \E s \in Requests : Issued(s, i)
    <3>1. PICK s \in Requests : Issued(s, i)
      BY <2>1
    <3>2. s # r
      BY <1>1, <3>1 DEF Issued, WriteCode, At
    <3>3. req[r].op = "requestReset"
      BY <1>1, PlaceTypes DEF WellPlaced
    <3>4. r \in Resetting(i)
      <4>1. req[r].user = i /\ req[r].at # "cooldown"
        BY <1>1
      <4>2. QED
        BY <3>3, <4>1 DEF Resetting, Unfinished, At
    <3>5. codes'[i].crossed
      <4>1. Resetting(i) # {s}
        BY <3>2, <3>4
      <4>2. codes'[i].crossed = (Resetting(i) # {s})
        BY <3>1 DEF Issued
      <4>3. QED
        BY <4>1, <4>2
    <3>6. QED
      BY <3>5
  <2>2. CASE \A s \in Requests : ~Issued(s, i)
    <3>1. /\ codes[i] # NoCode
          /\ codes'[i].code = codes[i].code /\ codes'[i].crossed = codes[i].crossed
      BY <1>0, <2>2, RowStays
    <3>2. QED
      BY <1>1, <3>1 DEF MailInv
  <2>3. QED
    BY <2>1, <2>2
<1>2. CASE req'[r] = req[r]
  BY <1>1, <1>2
<1>3. CASE Begins(r) \/ Continues(r)
  <2>1. CASE req'[r].at = "mail"
    <3>1. /\ WriteCode(r) /\ req'[r].user = req[r].user /\ req'[r].code = req[r].code
          /\ UpsertPasswordResetCode(req[r].user, req[r].code, Resetting(req[r].user) # {r})
      BY <1>3, <2>1, Arrivals DEF Carries
    <3>2. codes'[i].code = req[r].code
      BY <1>0, <3>1, CodeNumbers
    <3>3. QED
      BY <3>1, <3>2
  <2>2. CASE req'[r].at = "unsend"
    <3>1. SendCode(r) /\ req'[r].user = req[r].user /\ req'[r].code = req[r].code
      BY <1>3, <2>2, Arrivals DEF Carries
    <3>2. req[r].at = "mail"
      BY <3>1 DEF SendCode, At
    <3>3. QED
      BY <1>1, <3>1, <3>2
  <2>3. QED
    BY <2>1, <2>2
<1>4. QED
  BY <1>2, <1>3, Movers

\* A delivered code goes only with a password that is set or a code that is given,
\* unless the request that takes it back crossed the one that sent it.
THEOREM DeliveredCodesAreKept == Spec => DeliveredCodesStay
<1> DEFINE Stay ==
      \A i \in Ids :
          codes[i].code \in mailed /\ ~codes[i].crossed /\ codes'[i] = NoCode
             => \E r \in Requests :
                   /\ req'[r] # req[r]
                   /\ \/ req[r].op \in {"confirmReset", "changePassword"}
                      \/ req[r].op = "requestReset" /\ req[r].code = codes[i].code
<1>1. Init => MailInv
  BY DEF Init, MailInv, Idle
<1>2. Typed /\ MailInv /\ [Next]_vars => MailInv'
  BY MailStep
<1>3. ASSUME Typed, MailInv, [Next]_vars PROVE Stay
  <2>1. ASSUME NEW i \in Ids, codes[i].code \in mailed, ~codes[i].crossed, codes'[i] = NoCode
        PROVE  \E r \in Requests :
                   /\ req'[r] # req[r]
                   /\ \/ req[r].op \in {"confirmReset", "changePassword"}
                      \/ req[r].op = "requestReset" /\ req[r].code = codes[i].code
    <3>1. codes[i] # NoCode
      BY <1>3, <2>1, ConstantsAssumption DEF Typed, TypeOK, Codes, NoCode
    <3>2. codes[i] \in CodeRow
      BY <1>3, <3>1, CodeTypes DEF Typed
    <3>3. PICK r \in Requests : Removed(r, i)
      <4>1. RowMove(i)
        BY <1>3, RowMoves
      <4>2. ~Replaced(codes[i], codes'[i]) /\ codes'[i].code = 0
        BY <2>1, <3>1, <3>2, ConstantsAssumption DEF Replaced, NoCode, CodeRow, Codes
      <4>3. codes[i].code # 0
        BY <3>2, ConstantsAssumption DEF CodeRow, Codes
      <4>4. ASSUME NEW r \in Requests, Issued(r, i) \/ Guessed(r, i) \/ Counted(r, i)
            PROVE  codes'[i].code # 0
        <5>1. CASE Issued(r, i)
          <6>1. req[r].code # 0
            BY <1>3, <5>1, PlaceTypes DEF Issued, WriteCode, At, WellPlaced
          <6>2. QED
            BY <5>1, <6>1 DEF Issued
        <5>2. CASE Guessed(r, i) \/ Counted(r, i)
          BY <3>2, <4>3, <5>2 DEF Guessed, Counted, CodeRow
        <5>3. QED
          BY <4>4, <5>1, <5>2
      <4>5. QED
        BY <2>1, <3>1, <4>1, <4>2, <4>4 DEF RowMove
    <3>4. req'[r] # req[r]
      <4>1. req[r].at # "idle"
        BY <3>3 DEF Removed, DeleteUnsentCode, DropCode, WritePassword, At
      <4>2. Idle.at = "idle"
        BY DEF Idle
      <4>3. QED
        BY <3>3, <4>1, <4>2 DEF Removed
    <3>5. CASE DropCode(r) \/ WritePassword(r)
      BY <1>3, <3>4, <3>5, PlaceTypes DEF DropCode, WritePassword, At, WellPlaced
    <3>6. CASE DeleteUnsentCode(r)
      <4>1. req[r].at = "unsend" /\ req[r].op = "requestReset" /\ req[r].user = i
        BY <1>3, <3>3, <3>6, PlaceTypes DEF DeleteUnsentCode, At, WellPlaced, Removed
      <4>2. codes[i].code = req[r].code
        BY <1>3, <2>1, <3>1, <4>1 DEF MailInv
      <4>3. QED
        BY <3>4, <4>1, <4>2
    <3>7. QED
      BY <3>3, <3>5, <3>6 DEF Removed
  <2>2. QED
    BY <2>1
<1>4. Spec => [][Stay]_vars
  BY <1>1, <1>2, <1>3, TypedAlways, PTL DEF Spec
<1>5. QED
  BY <1>4 DEF DeliveredCodesStay

-------------------------------------------------------------------------------
(* Reset codes: the guesses.                                               *)

\* Request q is a confirmation for user i that has read the code.
Confirms(q, i) == q.op = "confirmReset" /\ q.user = i /\ q.at # "compare"

\* What a code may have of guesses and attempts left, after the faults so far.
Allowance(f) == MaxAttempts + (MaxFaults - f)

\* The guesses at a code and the attempts left to it are those it was given, but
\* for the one confirmation that has counted its guess and not its attempt.
Pays(row, f, q, i) ==
    /\ row.attempts > 0
    /\ row.guesses + row.attempts <= Allowance(f) + 1
    /\ \E r \in Requests :
          /\ Confirms(q[r], i) /\ q[r].at \in {"attempts", "drop"}
          /\ \A s \in Requests : Confirms(q[s], i) => s = r
Balanced(row, f, q, i) ==
    row.guesses + row.attempts <= Allowance(f) \/ Pays(row, f, q, i)

\* The number of attempts that a confirmation has read and will write back, less
\* one, leaves room for the guesses that were counted.
Fair(row, f, q, i) ==
    \A r \in Requests : Confirms(q[r], i) /\ q[r].at = "attempts" =>
        row.guesses + q[r].attempts <= Allowance(f) + 1

GuessInv ==
    /\ \A i \in Ids : codes[i].attempts <= MaxAttempts
    /\ \A r \in Requests : req[r].at = "attempts" => req[r].attempts <= MaxAttempts
    /\ \A i \in Ids : codes[i].code \notin raced =>
           Balanced(codes[i], faults, req, i) /\ Fair(codes[i], faults, req, i)

\* The numbers that are compared.
LEMMA GuessFacts ==
    ASSUME Typed
    PROVE  /\ faults \in Nat /\ MaxFaults \in Nat /\ MaxAttempts \in Nat
           /\ Allowance(faults) \in Nat /\ Allowance(faults) >= MaxAttempts
           /\ \A i \in Ids : codes[i].attempts \in Nat /\ codes[i].guesses \in Nat
           /\ \A r \in Requests : req[r].attempts \in Nat
<1>1. faults \in 0..MaxFaults /\ MaxFaults \in Nat /\ MaxAttempts \in Nat
  BY ConstantsAssumption DEF Typed, TypeOK
<1>2. Allowance(faults) \in Nat /\ Allowance(faults) >= MaxAttempts
  BY <1>1 DEF Allowance
<1>3. \A i \in Ids : codes[i].attempts \in Nat /\ codes[i].guesses \in Nat
  BY CodeTypes DEF Typed
<1>4. \A r \in Requests : req[r].attempts \in Nat
  BY PlaceTypes DEF Request
<1>5. QED
  BY <1>1, <1>2, <1>3, <1>4

\* A confirmation comes to have read a code by comparing it, and has read it until
\* its next statement ends it.
LEMMA Confirmations ==
    ASSUME Typed, [Next]_vars, NEW r \in Requests, NEW i \in Ids, req'[r] # req[r]
    PROVE  /\ Confirms(req'[r], i) =>
                  /\ CompareCode(r) /\ req[r].user = i /\ req'[r].op = "confirmReset"
                  /\ codes[i] # NoCode /\ Judged(r)
                  /\ req'[r].attempts = codes[i].attempts
                  /\ ~Confirms(req[r], i)
           /\ Confirms(req[r], i) =>
                  req'[r] = Idle /\ (WritePassword(r) \/ DropCode(r) \/ CountAttempt(r))
<1> USE DEF Typed
<1>0. Begins(r) \/ Continues(r)
  BY Movers
<1>1. ASSUME Confirms(req'[r], i)
      PROVE  /\ CompareCode(r) /\ req[r].user = i /\ req'[r].op = "confirmReset"
             /\ codes[i] # NoCode /\ Judged(r) /\ req'[r].attempts = codes[i].attempts
             /\ ~Confirms(req[r], i)
  <2>1. req'[r].at \in {"password", "drop", "attempts"}
    <3>1. Typed'
      BY TypedStep
    <3>2. WellPlaced(req'[r], Rows') /\ req'[r].at \in Places
      BY <3>1 DEF PlaceInv, TypeOK, Request
    <3>3. req'[r] # Idle
      BY <1>1 DEF Confirms, Idle
    <3>4. QED
      BY <1>1, <3>2, <3>3 DEF WellPlaced, Places, Confirms
  <2>2. /\ CompareCode(r) /\ Carries(r) /\ codes[req[r].user] # NoCode /\ Judged(r)
        /\ req'[r].attempts = codes[req[r].user].attempts
    BY <1>0, <1>1, <2>1, Arrivals DEF Confirms
  <2>3. req[r].at = "compare"
    BY <2>2 DEF CompareCode, At
  <2>4. QED
    BY <1>1, <2>2, <2>3 DEF Carries, Confirms
<1>2. ASSUME Confirms(req[r], i)
      PROVE  req'[r] = Idle /\ (WritePassword(r) \/ DropCode(r) \/ CountAttempt(r))
  <2>1. req[r].op = "confirmReset" /\ req[r].at \in {"password", "drop", "attempts"}
    <3>1. req[r] # Idle
      BY <1>2 DEF Confirms, Idle
    <3>2. WellPlaced(req[r], Rows) /\ req[r].at \in Places
      BY PlaceTypes DEF Request
    <3>3. QED
      BY <1>2, <3>1, <3>2 DEF WellPlaced, Places, Confirms
  <2>2. ~Begins(r)
    BY <2>1, BeginningArrives DEF Arrives, Idle
  <2>3. WritePassword(r) \/ DropCode(r) \/ CountAttempt(r)
    BY <1>0, <2>1, <2>2 DEF Continues, CountUsers, InsertUser, PersistHashParams, WriteUser,
       CheckCooldown, WriteCode, SendCode, DeleteUnsentCode, CompareCode, At
  <2>4. req'[r] = Idle
    BY <2>3 DEF WritePassword, DropCode, CountAttempt, Answer, Fails, TypeOK
  <2>5. QED
    BY <2>3, <2>4
<1>3. QED
  BY <1>1, <1>2

\* A code that is not raced was read while no other confirmation of the user was.
LEMMA Overlaps ==
    ASSUME Typed, [Next]_vars, NEW r \in Requests, CompareCode(r), req'[r] # Idle,
           codes[req[r].user].code \notin raced'
    PROVE  /\ \A s \in Requests : ~Confirms(req[s], req[r].user)
           /\ raced' = raced
<1>1. raced' = IF Confirming(req[r].user) = {} THEN raced
                 ELSE raced \union {codes[req[r].user].code}
  BY DEF CompareCode, GetPasswordResetCodeByUserID, Answer, Fails, Typed, TypeOK
<1>2. Confirming(req[r].user) = {} /\ raced' = raced
  BY <1>1
<1>3. QED
  BY <1>2 DEF Confirming, Unfinished, Confirms, At

\* A comparison that goes on, and what it has counted.
LEMMA Compares ==
    ASSUME Typed, NEW r \in Requests, Continues(r), CompareCode(r), req'[r] # Idle
    PROVE  LET i == req[r].user
               row == codes[i]
               usable == row.attempts > 0 /\ row.live
           IN
           /\ i \in Ids /\ row \in CodeRow /\ Judged(r)
           /\ req[r].at = "compare" /\ req'[r].at \in {"password", "drop", "attempts"}
           /\ req'[r].op = "confirmReset" /\ req'[r].user = i
           /\ req'[r].attempts = row.attempts
           /\ codes' = IF usable /\ req[r].code # row.code
                       THEN [codes EXCEPT ![i].guesses = @ + 1] ELSE codes
<1> USE DEF Typed
<1> DEFINE i == req[r].user
           row == codes[i]
           usable == row.attempts > 0 /\ row.live
<1>1. i \in Ids /\ req[r].at = "compare" /\ req[r].op = "confirmReset" /\ req[r] \in Request
  BY PlaceTypes, RowsTypes DEF CompareCode, At, WellPlaced
<1>2. /\ codes[i] # NoCode
      /\ codes' = IF usable /\ req[r].code # row.code
                  THEN [codes EXCEPT ![i].guesses = @ + 1] ELSE codes
  BY DEF CompareCode, GetPasswordResetCodeByUserID, Answer, Fails, TypeOK
<1>3. Judged(r)
  <2>1. Proceeds(r)
    BY ContinuingProceeds
  <2>2. QED
    BY <1>1, <2>1 DEF Proceeds, CountUsers, CheckCooldown, WriteCode, SendCode, At
<1>4. req'[r].at \in {"password", "drop", "attempts"}
  BY <1>3 DEF Judged
<1>5. PICK p, m : req'[r] = [req[r] EXCEPT !.attempts = m, !.at = p]
  BY <1>3 DEF Judged
<1>6. req'[r].op = "confirmReset" /\ req'[r].user = i
  BY <1>1, <1>5 DEF Request
<1>7. req'[r].attempts = row.attempts
  BY <1>1, <1>3 DEF Judged, Request
<1>8. row \in CodeRow
  BY <1>1, <1>2, CodeTypes
<1>9. QED
  BY <1>1, <1>2, <1>3, <1>4, <1>6, <1>7, <1>8

\* A comparison that changes the row goes on.
LEMMA GuessGoesOn ==
    ASSUME Typed, NEW r \in Requests, NEW i \in Ids, Guessed(r, i)
    PROVE  req'[r] # Idle /\ req'[r] # req[r]
<1>1. codes[i] \in CodeRow
  BY CodeTypes DEF Guessed, Typed
<1>2. codes[i].guesses \in Nat
  BY <1>1 DEF CodeRow
<1>3. codes'[i].guesses = codes[i].guesses + 1
  BY <1>1 DEF Guessed, CodeRow
<1>4. codes' # codes
  BY <1>2, <1>3
<1>5. \E q : Go(r, q) /\ q.at \in {"drop", "password", "attempts"}
  <2> DEFINE row == codes[req[r].user]
             usable == row.attempts > 0 /\ row.live
             place == CASE ~usable -> "drop"
                        [] usable /\ req[r].code = row.code -> "password"
                        [] usable /\ req[r].code # row.code /\ row.attempts <= 1 -> "drop"
                        [] OTHER -> "attempts"
             q == [req[r] EXCEPT !.attempts = row.attempts, !.at = place]
  <2>1. Go(r, q)
    BY <1>4 DEF Guessed, CompareCode, GetPasswordResetCodeByUserID
  <2>2. place \in {"drop", "password", "attempts"}
    OBVIOUS
  <2> HIDE DEF place
  <2>3. q.at = place
    BY PlaceTypes DEF Request
  <2> HIDE DEF q
  <2>4. QED
    BY <2>1, <2>2, <2>3
<1>6. req'[r].at \in {"drop", "password", "attempts"}
  BY <1>5 DEF Go, Typed, TypeOK
<1>7. req[r].at = "compare" /\ Idle.at = "idle"
  BY DEF Guessed, CompareCode, At, Idle
<1>8. QED
  BY <1>6, <1>7

\* Each fault allows one guess more.
LEMMA FaultsAllow ==
    ASSUME NEW f \in Nat, NEW g \in Nat, g <= f, f <= MaxFaults
    PROVE  /\ Allowance(g) \in Nat
           /\ Allowance(f) <= Allowance(g)
           /\ g = f - 1 => Allowance(g) = Allowance(f) + 1
BY ConstantsAssumption DEF Allowance

\* Faults are not taken back.
LEMMA AllowanceGrows ==
    ASSUME Typed, [Next]_vars
    PROVE  /\ Allowance(faults') \in Nat
           /\ Allowance(faults) <= Allowance(faults')
           /\ faults' = faults - 1 => Allowance(faults') = Allowance(faults) + 1
           /\ raced \subseteq raced'
<1>1. faults' \in Nat /\ faults' <= faults
  <2>1. ASSUME NEW r \in Requests, Begins(r) \/ Continues(r)
        PROVE  faults' \in Nat /\ faults' <= faults
    <3>1. faults \in Nat /\ faults' \in 0..faults
      BY <2>1, OthersStay
    <3>2. QED
      BY <3>1
  <2>2. faults \in Nat
    BY GuessFacts
  <2>3. (faults' \in Nat /\ faults' <= faults) \/ faults' = faults
    BY <2>1, TimeLeavesUsers DEF Next, vars
  <2>4. QED
    BY <2>2, <2>3
<1>2. faults \in Nat /\ faults <= MaxFaults
  BY GuessFacts DEF Typed, TypeOK
<1>3. raced \subseteq raced'
  BY CodeMoves DEF CodeMove
<1>4. QED
  BY <1>1, <1>2, <1>3, FaultsAllow

\* A confirmation that compares its code with a row that no other one has read.
LEMMA GuessCompares ==
    ASSUME Typed, GuessInv, [Next]_vars, NEW r \in Requests, Continues(r), CompareCode(r),
           req'[r] # Idle,
           codes'[req[r].user].code \notin raced'
    PROVE  /\ Balanced(codes'[req[r].user], faults', req', req[r].user)
           /\ Fair(codes'[req[r].user], faults', req', req[r].user)
<1> USE DEF Typed
<1> DEFINE i == req[r].user
<1>1. /\ i \in Ids /\ codes[i] \in CodeRow /\ Judged(r)
      /\ req'[r].at \in {"password", "drop", "attempts"}
      /\ req'[r].op = "confirmReset" /\ req'[r].user = i
      /\ req'[r].attempts = codes[i].attempts
  BY Compares
<1>2. codes' = IF (codes[i].attempts > 0 /\ codes[i].live) /\ req[r].code # codes[i].code
               THEN [codes EXCEPT ![i].guesses = @ + 1] ELSE codes
  BY Compares
<1>3. codes[i].attempts \in Nat /\ codes[i].guesses \in Nat
  BY <1>1 DEF CodeRow
<1>4. \/ codes'[i] = codes[i] /\ req'[r].at # "attempts"
      \/ /\ codes[i].attempts > 0 /\ req[r].code # codes[i].code
         /\ codes'[i] = [codes[i] EXCEPT !.guesses = codes[i].guesses + 1]
  BY <1>1, <1>2 DEF TypeOK, Judged
<1>5. codes'[i].code = codes[i].code
  BY <1>1, <1>4 DEF CodeRow
<1>6. (\A s \in Requests : ~Confirms(req[s], i)) /\ codes[i].code \notin raced
  <2>1. codes[i].code \notin raced'
    BY <1>5
  <2>2. QED
    BY <2>1, Overlaps
<1>7. codes[i].guesses + codes[i].attempts <= Allowance(faults)
  BY <1>1, <1>6 DEF GuessInv, Balanced, Pays
<1>8. \A s \in Requests : Confirms(req'[s], i) => s = r
  BY <1>6, OthersStay DEF Continues
<1>9. /\ Allowance(faults) \in Nat /\ Allowance(faults') \in Nat
       /\ Allowance(faults) <= Allowance(faults')
  BY AllowanceGrows, GuessFacts
<1>10. CASE codes'[i] = codes[i] /\ req'[r].at # "attempts"
  <2>1. codes'[i].guesses + codes'[i].attempts <= Allowance(faults')
    BY <1>3, <1>7, <1>9, <1>10
  <2>2. Fair(codes'[i], faults', req', i)
    BY <1>8, <1>10 DEF Fair
  <2>3. QED
    BY <2>1, <2>2 DEF Balanced
<1>11. CASE /\ codes[i].attempts > 0 /\ req[r].code # codes[i].code
            /\ codes'[i] = [codes[i] EXCEPT !.guesses = codes[i].guesses + 1]
  <2>1. /\ codes'[i].guesses = codes[i].guesses + 1
        /\ codes'[i].attempts = codes[i].attempts
    BY <1>1, <1>11 DEF CodeRow
  <2>2. codes'[i].guesses + codes'[i].attempts <= Allowance(faults') + 1
    BY <1>3, <1>7, <1>9, <2>1
  <2>3. req'[r].at \in {"drop", "attempts"}
    BY <1>1, <1>11 DEF Judged
  <2>4. Confirms(req'[r], i)
    BY <1>1, <2>3 DEF Confirms
  <2>5. Pays(codes'[i], faults', req', i)
    BY <1>8, <1>11, <2>1, <2>2, <2>3, <2>4 DEF Pays
  <2>6. Fair(codes'[i], faults', req', i)
    BY <1>1, <1>8, <2>1, <2>2 DEF Fair
  <2>7. QED
    BY <2>5, <2>6 DEF Balanced
<1>12. QED
  BY <1>4, <1>10, <1>11

\* A confirmation that ends leaves the row as it was only if its statement failed.
LEMMA EndsOrFails ==
    ASSUME Typed, NEW r \in Requests, DropCode(r) \/ CountAttempt(r), req[r].user \in Ids,
           codes[req[r].user] # NoCode
    PROVE  \/ codes'[req[r].user] = NoCode
           \/ /\ CountAttempt(r)
              /\ codes'[req[r].user] = [codes[req[r].user] EXCEPT !.attempts = req[r].attempts - 1]
           \/ faults' = faults - 1
<1>1. CASE DropCode(r)
  BY <1>1 DEF DropCode, DeletePasswordResetCodeByUserID, Fault, Typed, TypeOK
<1>2. CASE CountAttempt(r)
  BY <1>2 DEF CountAttempt, UpdatePasswordResetCodeAttempts, Fails, Fault, Typed, TypeOK
<1>3. QED
  BY <1>1, <1>2

\* What the request that pays for a guess leaves when the row stays as it was.
LEMMA GuessPaid ==
    ASSUME Typed, GuessInv, [Next]_vars, NEW i \in Ids, codes'[i] = codes[i],
           Pays(codes[i], faults, req, i), Fair(codes[i], faults, req, i),
           \A r \in Requests : Confirms(req'[r], i) => req'[r] = req[r]
    PROVE  Balanced(codes'[i], faults', req', i)
<1>1. PICK r \in Requests : /\ Confirms(req[r], i) /\ req[r].at \in {"attempts", "drop"}
                            /\ \A s \in Requests : Confirms(req[s], i) => s = r
  BY DEF Pays
<1>2. /\ codes[i].attempts > 0 /\ codes[i].attempts \in Nat /\ codes[i].guesses \in Nat
      /\ codes[i].guesses + codes[i].attempts <= Allowance(faults) + 1
  BY GuessFacts DEF Pays
<1>3. /\ Allowance(faults) \in Nat /\ Allowance(faults') \in Nat
      /\ Allowance(faults) <= Allowance(faults')
      /\ faults' = faults - 1 => Allowance(faults') = Allowance(faults) + 1
  BY GuessFacts, AllowanceGrows
<1>4. CASE req'[r] = req[r]
  <2>1. \A s \in Requests : Confirms(req'[s], i) => s = r
    BY <1>1
  <2>2. codes[i].guesses + codes[i].attempts <= Allowance(faults') + 1
    BY <1>2, <1>3
  <2>3. Pays(codes'[i], faults', req', i)
    BY <1>1, <1>2, <1>4, <2>1, <2>2 DEF Pays
  <2>4. QED
    BY <2>3 DEF Balanced
<1>5. CASE req'[r] # req[r]
  <2>1. DropCode(r) \/ CountAttempt(r)
    BY <1>1, <1>5, Confirmations DEF WritePassword, At
  <2>2. req[r].user = i /\ codes[i] # NoCode
    BY <1>1, <1>2 DEF Confirms, NoCode
  <2>3. codes[i] \in CodeRow
    BY <2>2, CodeTypes DEF Typed
  <2>4. CASE /\ CountAttempt(r)
             /\ codes'[i] = [codes[i] EXCEPT !.attempts = req[r].attempts - 1]
    <3>1. codes[i].attempts = req[r].attempts - 1
      BY <2>3, <2>4 DEF CodeRow
    <3>2. codes[i].guesses + req[r].attempts <= Allowance(faults) + 1
      BY <1>1, <2>4 DEF Fair, CountAttempt, At
    <3>3. req[r].attempts \in Nat
      BY GuessFacts
    <3>4. codes[i].guesses + codes[i].attempts <= Allowance(faults')
      BY <1>2, <1>3, <3>1, <3>2, <3>3
    <3>5. QED
      BY <3>4 DEF Balanced
  <2>5. CASE faults' = faults - 1
    <3>1. codes[i].guesses + codes[i].attempts <= Allowance(faults')
      BY <1>2, <1>3, <2>5
    <3>2. QED
      BY <3>1 DEF Balanced
  <2>6. QED
    BY <2>1, <2>2, <2>4, <2>5, EndsOrFails
<1>6. QED
  BY <1>4, <1>5

\* A row to which no guess is made, by requests that had read it before.
LEMMA GuessRests ==
    ASSUME Typed, GuessInv, [Next]_vars, NEW i \in Ids, codes'[i].code \notin raced',
           \A r \in Requests : Confirms(req'[r], i) => req'[r] = req[r],
           \A r \in Requests : ~Guessed(r, i)
    PROVE  Balanced(codes'[i], faults', req', i) /\ Fair(codes'[i], faults', req', i)
<1>1. /\ Allowance(faults) \in Nat /\ Allowance(faults') \in Nat
      /\ Allowance(faults) <= Allowance(faults') /\ raced \subseteq raced'
  BY GuessFacts, AllowanceGrows
<1>2. MaxAttempts \in Nat /\ MaxAttempts <= Allowance(faults')
  BY <1>1, GuessFacts
<1>3. \A r \in Requests : req[r].attempts \in Nat
  BY GuessFacts
<1>4. codes[i].attempts \in Nat /\ codes[i].guesses \in Nat
  BY GuessFacts
<1>5. ASSUME codes'[i].guesses = 0, codes'[i].attempts \in {0, MaxAttempts}
      PROVE  Balanced(codes'[i], faults', req', i) /\ Fair(codes'[i], faults', req', i)
  <2>1. codes'[i].guesses + codes'[i].attempts <= Allowance(faults')
    BY <1>1, <1>2, <1>5
  <2>2. ASSUME NEW r \in Requests, Confirms(req'[r], i), req'[r].at = "attempts"
        PROVE  codes'[i].guesses + req'[r].attempts <= Allowance(faults') + 1
    <3>1. req'[r] = req[r] /\ req[r].attempts <= MaxAttempts
      BY <2>2 DEF GuessInv
    <3>2. QED
      BY <1>1, <1>2, <1>3, <1>5, <3>1
  <2>3. QED
    BY <2>1, <2>2 DEF Balanced, Fair
<1>6. ASSUME codes'[i].code = codes[i].code, codes'[i].guesses = codes[i].guesses
      PROVE  /\ Balanced(codes[i], faults, req, i) /\ Fair(codes[i], faults, req, i)
             /\ Fair(codes'[i], faults', req', i)
  <2>1. codes[i].code \notin raced
    BY <1>1, <1>6
  <2>2. Balanced(codes[i], faults, req, i) /\ Fair(codes[i], faults, req, i)
    BY <2>1 DEF GuessInv
  <2>3. ASSUME NEW r \in Requests, Confirms(req'[r], i), req'[r].at = "attempts"
        PROVE  codes'[i].guesses + req'[r].attempts <= Allowance(faults') + 1
    <3>1. req'[r] = req[r]
      BY <2>3
    <3>2. codes[i].guesses + req[r].attempts <= Allowance(faults) + 1
      BY <2>2, <2>3, <3>1 DEF Fair
    <3>3. QED
      BY <1>1, <1>3, <1>4, <1>6, <3>1, <3>2
  <2>4. QED
    BY <2>2, <2>3 DEF Fair
<1>7. CASE codes'[i] = codes[i]
  <2>1. /\ Balanced(codes[i], faults, req, i) /\ Fair(codes[i], faults, req, i)
        /\ Fair(codes'[i], faults', req', i)
    BY <1>6, <1>7
  <2>2. CASE codes[i].guesses + codes[i].attempts <= Allowance(faults)
    <3>1. codes'[i].guesses + codes'[i].attempts <= Allowance(faults')
      BY <1>1, <1>4, <1>7, <2>2
    <3>2. QED
      BY <2>1, <3>1 DEF Balanced
  <2>3. CASE Pays(codes[i], faults, req, i)
    BY <1>7, <2>1, <2>3, GuessPaid
  <2>4. QED
    BY <2>1, <2>2, <2>3 DEF Balanced
<1>8. CASE Replaced(codes[i], codes'[i]) /\ UNCHANGED <<req, faults, history>>
  <2>1. codes[i] \in CodeRow
    BY <1>8, CodeTypes DEF Replaced, Typed
  <2>2. /\ codes'[i].code = codes[i].code /\ codes'[i].guesses = codes[i].guesses
        /\ codes'[i].attempts = codes[i].attempts
    BY <1>8, <2>1 DEF Replaced, CodeRow
  <2>3. Balanced(codes[i], faults, req, i) /\ Fair(codes'[i], faults', req', i)
    BY <1>6, <2>2
  <2>4. Balanced(codes'[i], faults', req', i)
    BY <1>8, <2>2, <2>3 DEF Balanced, Pays
  <2>5. QED
    BY <2>3, <2>4
<1>9. ASSUME NEW s \in Requests, Counted(s, i)
      PROVE  Balanced(codes'[i], faults', req', i) /\ Fair(codes'[i], faults', req', i)
  <2>1. codes[i] \in CodeRow
    BY <1>9, CodeTypes DEF Counted, Typed
  <2>2. /\ codes'[i].code = codes[i].code /\ codes'[i].guesses = codes[i].guesses
        /\ codes'[i].attempts = req[s].attempts - 1
    BY <1>9, <2>1 DEF Counted, CodeRow
  <2>3. Fair(codes[i], faults, req, i) /\ Fair(codes'[i], faults', req', i)
    BY <1>6, <2>2
  <2>4. req[s].at = "attempts" /\ req[s].user = i
    BY <1>9 DEF Counted, CountAttempt, At
  <2>5. Confirms(req[s], i)
    BY <2>4, PlaceTypes DEF WellPlaced, Confirms
  <2>6. codes[i].guesses + req[s].attempts <= Allowance(faults) + 1
    BY <2>3, <2>4, <2>5 DEF Fair
  <2>7. codes'[i].guesses + codes'[i].attempts <= Allowance(faults')
    BY <1>1, <1>3, <1>4, <2>2, <2>6
  <2>8. QED
    BY <2>3, <2>7 DEF Balanced
<1>10. ASSUME NEW s \in Requests, Removed(s, i) \/ Issued(s, i)
       PROVE  codes'[i].guesses = 0 /\ codes'[i].attempts \in {0, MaxAttempts}
  BY <1>10 DEF Removed, Issued, NoCode
<1>11. QED
  BY <1>5, <1>7, <1>8, <1>9, <1>10, RowMoves DEF RowMove

\* The three parts of the invariant are kept.
LEMMA GuessStep == Typed /\ GuessInv /\ [Next]_vars => GuessInv'
<1> SUFFICES ASSUME Typed, GuessInv, [Next]_vars PROVE GuessInv'
  OBVIOUS
<1>1. ASSUME NEW i \in Ids PROVE codes'[i].attempts <= MaxAttempts
  <2>1. codes[i].attempts <= MaxAttempts /\ codes[i].attempts \in Nat /\ MaxAttempts \in Nat
    BY GuessFacts DEF GuessInv
  <2>2. CASE Replaced(codes[i], codes'[i])
    <3>1. codes[i] \in CodeRow
      BY <2>2, CodeTypes DEF Replaced, Typed
    <3>2. QED
      BY <2>1, <2>2, <3>1 DEF Replaced, CodeRow
  <2>3. ASSUME NEW r \in Requests, Removed(r, i) \/ Issued(r, i)
        PROVE  codes'[i].attempts <= MaxAttempts
    BY <2>1, <2>3 DEF Removed, Issued, NoCode
  <2>4. ASSUME NEW r \in Requests, Guessed(r, i) PROVE codes'[i].attempts <= MaxAttempts
    <3>1. codes[i] \in CodeRow
      BY <2>4, CodeTypes DEF Guessed, Typed
    <3>2. QED
      BY <2>1, <2>4, <3>1 DEF Guessed, CodeRow
  <2>5. ASSUME NEW r \in Requests, Counted(r, i) PROVE codes'[i].attempts <= MaxAttempts
    <3>1. codes[i] \in CodeRow
      BY <2>5, CodeTypes DEF Counted, Typed
    <3>2. codes'[i].attempts = req[r].attempts - 1
      BY <2>5, <3>1 DEF Counted, CodeRow
    <3>3. req[r].attempts <= MaxAttempts
      BY <2>5 DEF GuessInv, Counted, CountAttempt, At
    <3>4. req[r].attempts \in Nat
      BY GuessFacts
    <3>5. QED
      BY <2>1, <3>2, <3>3, <3>4
  <2>6. QED
    BY <2>1, <2>2, <2>3, <2>4, <2>5, RowMoves DEF RowMove
<1>2. ASSUME NEW r \in Requests, req'[r].at = "attempts" PROVE req'[r].attempts <= MaxAttempts
  <2>1. CASE req'[r] = req[r]
    BY <1>2, <2>1 DEF GuessInv
  <2>2. CASE req'[r] # req[r]
    <3>1. Typed'
      BY TypedStep
    <3>2. req'[r].op = "confirmReset"
      BY <1>2, <3>1 DEF Typed, PlaceInv, WellPlaced
    <3>3. CompareCode(r) /\ req'[r].attempts = codes[req[r].user].attempts
      BY <1>2, <2>2, <3>2, Movers, Arrivals
    <3>4. req[r].user \in Ids
      BY <3>3, PlaceTypes, RowsTypes DEF CompareCode, At, WellPlaced, Typed
    <3>5. QED
      BY <3>3, <3>4 DEF GuessInv
  <2>3. QED
    BY <2>1, <2>2
<1>3. ASSUME NEW i \in Ids, codes'[i].code \notin raced'
      PROVE  Balanced(codes'[i], faults', req', i) /\ Fair(codes'[i], faults', req', i)
  <2>1. ASSUME NEW r \in Requests, CompareCode(r), req[r].user = i, req'[r] # Idle, req'[r] # req[r]
        PROVE  Balanced(codes'[i], faults', req', i) /\ Fair(codes'[i], faults', req', i)
    <3>1. req[r] # Idle
      BY <2>1 DEF CompareCode, At, Idle
    <3>2. Continues(r)
      BY <2>1, <3>1, Movers, BeginningArrives DEF Arrives
    <3>3. QED
      BY <1>3, <2>1, <3>2, GuessCompares
  <2>2. CASE \E r \in Requests : Guessed(r, i)
    BY <2>1, <2>2, GuessGoesOn DEF Guessed
  <2>3. CASE \E r \in Requests : Confirms(req'[r], i) /\ req'[r] # req[r]
    <3>1. PICK r \in Requests : Confirms(req'[r], i) /\ req'[r] # req[r]
      BY <2>3
    <3>2. req'[r] # Idle
      BY <3>1 DEF Confirms, Idle
    <3>3. QED
      BY <2>1, <3>1, <3>2, Confirmations
  <2>4. CASE /\ \A r \in Requests : ~Guessed(r, i)
             /\ \A r \in Requests : Confirms(req'[r], i) => req'[r] = req[r]
    BY <1>3, <2>4, GuessRests
  <2>5. QED
    BY <2>2, <2>3, <2>4
<1>4. QED
  BY <1>1, <1>2, <1>3 DEF GuessInv

\* Wrong codes are counted, and the one that a fault lets through is accounted for.
THEOREM GuessesAreBounded == Spec => []GuessesAreLimited
<1>1. Init => GuessInv
  <2> SUFFICES ASSUME Init PROVE GuessInv
    OBVIOUS
  <2>1. Typed
    BY TypedInit
  <2>2. /\ \A i \in Ids : codes[i] = NoCode
        /\ \A r \in Requests : req[r] = Idle
    BY DEF Init
  <2>3. /\ NoCode.attempts = 0 /\ NoCode.guesses = 0 /\ Idle.at = "idle"
    BY DEF NoCode, Idle
  <2>4. MaxAttempts \in Nat /\ Allowance(faults) \in Nat
    BY <2>1, GuessFacts
  <2>5. ASSUME NEW i \in Ids
        PROVE  Balanced(codes[i], faults, req, i) /\ Fair(codes[i], faults, req, i)
    BY <2>2, <2>3, <2>4 DEF Balanced, Fair
  <2>6. QED
    BY <2>2, <2>3, <2>4, <2>5 DEF GuessInv
<1>2. Typed /\ GuessInv => GuessesAreLimited
  <2> SUFFICES ASSUME Typed, GuessInv, NEW i \in Ids, codes[i].code \notin raced
               PROVE  codes[i].guesses <= Allowance(faults)
    BY DEF GuessesAreLimited, Allowance
  <2>1. Allowance(faults) \in Nat /\ codes[i].attempts \in Nat /\ codes[i].guesses \in Nat
    BY GuessFacts
  <2>2. Balanced(codes[i], faults, req, i)
    BY DEF GuessInv
  <2>3. CASE codes[i].guesses + codes[i].attempts <= Allowance(faults)
    BY <2>1, <2>3
  <2>4. CASE Pays(codes[i], faults, req, i)
    <3>1. /\ codes[i].attempts > 0
          /\ codes[i].guesses + codes[i].attempts <= Allowance(faults) + 1
      BY <2>4 DEF Pays
    <3>2. QED
      BY <2>1, <3>1
  <2>5. QED
    BY <2>2, <2>3, <2>4 DEF Balanced
<1>3. QED
  BY <1>1, <1>2, GuessStep, TypedAlways, PTL DEF Spec

-------------------------------------------------------------------------------
(* Answers.                                                                *)

\* The statuses that may be given when the work is done, and when it is not.
Done == Nat \ 400..499
Undone == Nat \ {200, 201}
Told ==
    /\ reply'.status \in 400..499 => ~reply'.wrote
    /\ reply'.status \in {200, 201} => reply'.wrote

\* The statuses of the answers that the handlers give.
LEMMA Statuses ==
    /\ \A op \in Serving : Status(op, "db") \in Done \intersect Undone
    /\ \A op \in Serving : op # "requestReset" => Status(op, "ok") \in Done
    /\ Status("requestReset", "ok") \in Done \intersect Undone
    /\ Status("register", "exists") \in Undone /\ Status("changeUser", "exists") \in Undone
    /\ Status("login", "unauthorized") \in Undone /\ Status("refresh", "unauthorized") \in Undone
    /\ Status("login", "notfound") \in Undone
    /\ Status("changeUser", "forbidden") \in Undone
    /\ Status("changePassword", "forbidden") \in Undone
    /\ Status("changePassword", "badparams") \in Undone
    /\ Status("confirmReset", "badparams") \in Undone
<1>1. \A op \in Serving : Status(op, "db") = 500
  BY DEF Serving, Ops, Status, RegisterStatus, LoginStatus, RefreshTokensStatus, ChangeUserStatus,
         ChangePasswordStatus, RequestPasswordResetStatus, ConfirmPasswordResetStatus
<1>2. \A op \in Serving : op # "requestReset" => Status(op, "ok") \in {200, 201}
  BY DEF Serving, Ops, Status, RegisterStatus, LoginStatus, RefreshTokensStatus, ChangeUserStatus,
         ChangePasswordStatus, ConfirmPasswordResetStatus
<1>3. Status("requestReset", "ok") = 202
  BY DEF Status, RequestPasswordResetStatus
<1>4. /\ Status("register", "exists") = 409 /\ Status("changeUser", "exists") = 409
      /\ Status("login", "unauthorized") = 401 /\ Status("refresh", "unauthorized") = 401
      /\ Status("login", "notfound") = 401
      /\ Status("changeUser", "forbidden") = 403 /\ Status("changePassword", "forbidden") = 403
      /\ Status("changePassword", "badparams") = 400
      /\ Status("confirmReset", "badparams") = 400
  BY DEF Status, RegisterStatus, LoginStatus, RefreshTokensStatus, ChangeUserStatus,
         ChangePasswordStatus, ConfirmPasswordResetStatus
<1>5. /\ 500 \in Done \intersect Undone /\ 202 \in Done \intersect Undone
      /\ 200 \in Done /\ 201 \in Done
      /\ 400 \in Undone /\ 401 \in Undone /\ 403 \in Undone /\ 409 \in Undone
  BY DEF Done, Undone
<1>6. QED
  BY <1>1, <1>2, <1>3, <1>4, <1>5

\* An answer whose status may be given for what was done.
LEMMA Answers ==
    ASSUME NEW r \in Requests, NEW op, NEW err
    PROVE  /\ Answer(r, op, err, TRUE) /\ Status(op, err) \in Done => Told
           /\ Answer(r, op, err, FALSE) /\ Status(op, err) \in Undone => Told
BY DEF Answer, Told, Done, Undone

\* A step that goes on answers nothing.
LEMMA Silence == reply' = NoReply => Told
BY DEF NoReply, Told

\* Every step of a request, with the answers that it can give.
LEMMA StepsAnswer ==
    ASSUME Typed, NEW r \in Requests, Begins(r) \/ Continues(r)
    PROVE  Told
<1>1. \A q : Go(r, q) => Told
  BY Silence DEF Go
<1>2. {"register", "login", "refresh", "changeUser", "changePassword", "requestReset", "confirmReset"}
         \subseteq Serving
  BY DEF Serving, Ops
<1>3. \A op \in Serving : (Fails(r, op, TRUE) => Told) /\ (Fails(r, op, FALSE) => Told)
  BY Answers, Statuses DEF Fails
<1>4. \A op \in Serving : op # "requestReset" /\ Answer(r, op, "ok", TRUE) => Told
  BY Answers, Statuses
<1>5. /\ (Fails(r, "register", TRUE) => Told) /\ (Fails(r, "register", FALSE) => Told)
      /\ Answer(r, "register", "ok", TRUE) => Told
      /\ Answer(r, "register", "exists", FALSE) => Told
  BY <1>2, <1>3, <1>4, Answers, Statuses
<1>6. /\ (Fails(r, "login", TRUE) => Told) /\ (Fails(r, "login", FALSE) => Told)
      /\ Answer(r, "login", "ok", TRUE) => Told
      /\ Answer(r, "login", "unauthorized", FALSE) => Told
      /\ Answer(r, "login", "notfound", FALSE) => Told
  BY <1>2, <1>3, <1>4, Answers, Statuses
<1>7. /\ (Fails(r, "refresh", TRUE) => Told) /\ (Fails(r, "refresh", FALSE) => Told)
      /\ Answer(r, "refresh", "ok", TRUE) => Told
      /\ Answer(r, "refresh", "unauthorized", FALSE) => Told
  BY <1>2, <1>3, <1>4, Answers, Statuses
<1>8. /\ (Fails(r, "changeUser", TRUE) => Told) /\ (Fails(r, "changeUser", FALSE) => Told)
      /\ Answer(r, "changeUser", "ok", TRUE) => Told
      /\ Answer(r, "changeUser", "exists", FALSE) => Told
      /\ Answer(r, "changeUser", "forbidden", FALSE) => Told
  BY <1>2, <1>3, <1>4, Answers, Statuses
<1>9. /\ (Fails(r, "changePassword", TRUE) => Told) /\ (Fails(r, "changePassword", FALSE) => Told)
      /\ Answer(r, "changePassword", "ok", TRUE) => Told
      /\ Answer(r, "changePassword", "forbidden", FALSE) => Told
      /\ Answer(r, "changePassword", "badparams", FALSE) => Told
  BY <1>2, <1>3, <1>4, Answers, Statuses
<1>10. /\ (Fails(r, "requestReset", TRUE) => Told) /\ (Fails(r, "requestReset", FALSE) => Told)
       /\ (Answer(r, "requestReset", "ok", TRUE) => Told)
       /\ (Answer(r, "requestReset", "ok", FALSE) => Told)
  BY <1>2, <1>3, Answers, Statuses
<1>11. /\ (Fails(r, "confirmReset", TRUE) => Told) /\ (Fails(r, "confirmReset", FALSE) => Told)
       /\ Answer(r, "confirmReset", "ok", TRUE) => Told
       /\ Answer(r, "confirmReset", "badparams", FALSE) => Told
  BY <1>2, <1>3, <1>4, Answers, Statuses
<1>12. ASSUME Begins(r) PROVE Told
  <2>1. ASSUME NEW n \in Names, Register(r, n) PROVE Told
    BY <1>1, <2>1 DEF Register
  <2>2. ASSUME NEW n \in Names, NEW s \in 0..MaxRequests, Login(r, n, s) PROVE Told
    BY <1>1, <1>6, <2>2 DEF Login
  <2>3. ASSUME NEW t \in tokens, UpdateTokens(r, t) PROVE Told
    BY <1>7, <2>3 DEF UpdateTokens
  <2>4. ASSUME NEW c, NEW i, NEW n, NEW e, ChangeUser(r, c, i, n, e) PROVE Told
    BY <1>1, <1>8, <2>4 DEF ChangeUser, Forbidden
  <2>5. ASSUME NEW c, NEW i, NEW s, ChangePassword(r, c, i, s) PROVE Told
    BY <1>1, <1>9, <2>5 DEF ChangePassword, Forbidden
  <2>6. ASSUME NEW e \in Emails, RequestPasswordReset(r, e) PROVE Told
    BY <1>1, <1>10, <2>6 DEF RequestPasswordReset
  <2>7. ASSUME NEW e \in Emails, NEW c, ConfirmPasswordReset(r, e, c) PROVE Told
    BY <1>1, <1>11, <2>7 DEF ConfirmPasswordReset
  <2>8. QED
    BY <1>12, <2>1, <2>2, <2>3, <2>4, <2>5, <2>6, <2>7 DEF Begins
<1>13. ASSUME Continues(r) PROVE Told
  <2>1. CASE CountUsers(r)
    BY <1>1, <1>5, <2>1 DEF CountUsers
  <2>2. CASE InsertUser(r)
    BY <1>5, <2>2 DEF InsertUser
  <2>3. CASE PersistHashParams(r)
    BY <1>6, <2>3 DEF PersistHashParams
  <2>4. CASE WriteUser(r)
    BY <1>8, <2>4 DEF WriteUser
  <2>5. CASE WritePassword(r)
    <3>1. req[r].op \in {"changePassword", "confirmReset"}
      BY <2>5, PlaceTypes DEF WritePassword, At, WellPlaced
    <3>2. \/ Answer(r, req[r].op, "ok", TRUE)
          \/ Fails(r, req[r].op, TRUE) \/ Fails(r, req[r].op, FALSE)
      BY <2>5 DEF WritePassword
    <3>3. CASE req[r].op = "changePassword"
      BY <1>9, <3>2, <3>3
    <3>4. CASE req[r].op = "confirmReset"
      BY <1>11, <3>2, <3>4
    <3>5. QED
      BY <3>1, <3>3, <3>4
  <2>6. CASE CheckCooldown(r)
    BY <1>1, <1>10, <2>6 DEF CheckCooldown
  <2>7. CASE WriteCode(r)
    BY <1>1, <1>10, <2>7 DEF WriteCode
  <2>8. CASE SendCode(r)
    BY <1>1, <1>10, <2>8 DEF SendCode
  <2>9. CASE DeleteUnsentCode(r)
    BY <1>10, <2>9 DEF DeleteUnsentCode
  <2>10. CASE CompareCode(r)
    BY <1>1, <1>11, <2>10 DEF CompareCode
  <2>11. CASE DropCode(r)
    BY <1>11, <2>11 DEF DropCode
  <2>12. CASE CountAttempt(r)
    BY <1>11, <2>12 DEF CountAttempt
  <2>13. QED
    BY <1>13, <2>1, <2>2, <2>3, <2>4, <2>5, <2>6, <2>7, <2>8, <2>9, <2>10, <2>11, <2>12
       DEF Continues
<1>14. QED
  BY <1>12, <1>13

\* A handler never says that nothing was done when it was, or that it was when it was not.
THEOREM AnswersTellTheTruth == Spec => AnswersAreTrue
<1>1. ASSUME Typed, [Next]_vars
      PROVE  [/\ reply'.status \in 400..499 => ~reply'.wrote
              /\ reply'.status \in {200, 201} => reply'.wrote]_vars
  <2>1. CASE Next
    BY <1>1, <2>1, StepsAnswer, Silence, TimeLeavesUsers DEF Next, Told
  <2>2. CASE UNCHANGED vars
    BY <2>2
  <2>3. QED
    BY <1>1, <2>1, <2>2
<1>2. QED
  BY <1>1, TypedAlways, PTL DEF Spec, AnswersAreTrue
===============================================================================
