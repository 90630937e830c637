-------------------------------- MODULE Accounts --------------------------------
(***************************************************************************)
(* Users, their passwords, refresh tokens and password reset codes, as     *)
(* AuthService, UserService and PasswordResetService handle them.          *)
(*                                                                         *)
(* A request runs several SQL statements, and only a registration runs two *)
(* in one transaction.  Between two statements of a request those of the   *)
(* others take effect: a row that was read is compared, or written back,   *)
(* when it may have changed.  A statement may fail, or take effect with    *)
(* its reply lost.                                                         *)
(*                                                                         *)
(* A user's passwords are numbered in the order they are written, so that  *)
(* each is new; codes are numbered as they are generated.                  *)
(***************************************************************************)
EXTENDS Naturals, Sequences, FiniteSets

CONSTANTS
    Requests,     \* requests that may be served at once
    Names,        \* usernames
    Emails,       \* email addresses, normalized
    Parallelism,  \* what DefaultPasswordHashParams takes from the number of CPUs
    MaxAttempts,  \* PASSWORD_RESET_MAX_ATTEMPTS
    MaxRequests,  \* bound: requests that begin
    MaxFaults     \* bound: statements and mails that fail

ASSUME ConstantsAssumption ==
    /\ Parallelism \in Nat \ {0}
    /\ MaxAttempts \in Nat \ {0}
    /\ MaxRequests \in Nat
    /\ MaxFaults \in Nat

\* A request inserts at most one user, writes one password, generates one code.
Ids == 1..(MaxRequests + 1)
Codes == 1..MaxRequests
Nobody == "nobody"
NoEmail == "no email"

\* A row of "user".  The hash is that of password number secret, computed with
\* hashed threads; parallelism is the column that says so, 0 in a row from
\* before there was one.
UserRow ==
    [name : Names, email : Emails \union {NoEmail},
     secret : 0..MaxRequests, hashed : Nat \ {0}, parallelism : Nat,
     version : Nat, superuser : BOOLEAN]

\* A row of password_reset_code; live: expires_at is in the future; cooling:
\* resend_available_at is.  History of the row: guesses, the wrong codes that it
\* was compared with; crossed, that it was written while another request for a
\* code was unfinished.
CodeRow ==
    [code : Codes, attempts : Nat, live : BOOLEAN, cooling : BOOLEAN,
     guesses : Nat, crossed : BOOLEAN]
NoCode ==
    [code |-> 0, attempts |-> 0, live |-> FALSE, cooling |-> FALSE,
     guesses |-> 0, crossed |-> FALSE]

\* A refresh token carries user and version; secret is the password that its
\* holder proved.
Token == [user : Ids, version : Nat, secret : Nat]

VARIABLES
    users,    \* users[i]: the row with id i
    codes,    \* codes[i]: the reset code of user i
    tokens,   \* refresh tokens handed out
    req,      \* req[r]: the request, the statement it has reached, what it has read
    reply,    \* what the last step answered to a client, if it did
    issued,   \* reset codes generated
    begun,    \* requests begun, for the bound
    faults,   \* faults left to happen
    \* history
    mailed,   \* codes that were delivered
    spent,    \* codes with which a password was written
    raced,    \* codes read by a confirmation while another one was unfinished
    mixed     \* users whose hash parameters were written for a replaced hash

history == <<mailed, spent, raced, mixed>>
vars == <<users, codes, tokens, req, reply, issued, begun, faults, history>>

Ops == {"none", "register", "login", "refresh", "changeUser", "changePassword",
        "requestReset", "confirmReset"}
Places == {"idle", "count", "insert", "persist", "update", "password", "cooldown",
           "upsert", "mail", "unsend", "compare", "attempts", "drop"}

Request ==
    [op : Ops, at : Places, user : Ids \union {0}, name : Names \union {Nobody},
     email : Emails \union {NoEmail}, secret : 0..MaxRequests, version : Nat,
     params : Nat, code : 0..MaxRequests, attempts : Nat, superuser : BOOLEAN,
     first : BOOLEAN]
Idle ==
    [op |-> "none", at |-> "idle", user |-> 0, name |-> Nobody, email |-> NoEmail,
     secret |-> 0, version |-> 0, params |-> 0, code |-> 0, attempts |-> 0,
     superuser |-> FALSE, first |-> FALSE]

\* The status of the answer; wrote: the request has done its work.
Reply == [status : Nat, wrote : BOOLEAN]
NoReply == [status |-> 0, wrote |-> FALSE]

TypeOK ==
    /\ users \in Seq(UserRow) /\ Len(users) \in Ids \union {0}
    /\ codes \in [Ids -> CodeRow \union {NoCode}]
    /\ tokens \in SUBSET Token
    /\ req \in [Requests -> Request]
    /\ reply \in Reply
    /\ issued \in 0..MaxRequests
    /\ begun \in 0..MaxRequests
    /\ faults \in 0..MaxFaults
    /\ mailed \in SUBSET Codes
    /\ spent \in SUBSET Codes
    /\ raced \in SUBSET Codes
    /\ mixed \in SUBSET Ids

\* An empty installation, or one whose first user registered before the hash
\* parameters had columns (and on a machine with one thread more).
Founder ==
    {[name |-> n, email |-> e, secret |-> 0, hashed |-> Parallelism + 1,
      parallelism |-> 0, version |-> 0, superuser |-> TRUE] : n \in Names, e \in Emails}

Init ==
    /\ users \in {<<>>} \union {<<u>> : u \in Founder}
    /\ codes = [i \in Ids |-> NoCode]
    /\ tokens = {}
    /\ req = [r \in Requests |-> Idle]
    /\ reply = NoReply
    /\ issued = 0
    /\ begun = 0
    /\ faults = MaxFaults
    /\ mailed = {}
    /\ spent = {}
    /\ raced = {}
    /\ mixed = {}

Fault == faults > 0 /\ faults' = faults - 1
NoFault == UNCHANGED faults

-------------------------------------------------------------------------------
(* The statements.                                                         *)

Rows == DOMAIN users

GetUserCount == Len(users)
GetUserByUsername(n) == {i \in Rows : users[i].name = n}
GetUserByEmail(e) == {i \in Rows : users[i].email = e}
GetUserByID(i) == Rows \intersect {i}
GetPasswordResetCodeByUserID(i) == codes[i]

\* username is UNIQUE and so is email, where there is one.
NameTaken(n, except) == \E i \in Rows \ except : users[i].name = n
EmailTaken(e, except) == e # NoEmail /\ \E i \in Rows \ except : users[i].email = e

CreateUser(n, superuser) ==
    users' = Append(users,
        [name |-> n, email |-> NoEmail, secret |-> 0, hashed |-> Parallelism,
         parallelism |-> Parallelism, version |-> 0, superuser |-> superuser])

UpdateUser(i, n, e) == users' = [users EXCEPT ![i].name = n, ![i].email = e]

UpdateUserPasswordHashParams(i, params) ==
    users' = [users EXCEPT ![i].parallelism = params]

\* Mutant of UpdateUserPassword: the tokens of the old password stay good.
UpdateUserPasswordOnly(i) ==
    /\ users' = [users EXCEPT ![i].secret = @ + 1, ![i].hashed = Parallelism,
                              ![i].parallelism = Parallelism]
    /\ codes' = [codes EXCEPT ![i] = NoCode]

\* Mutant of UpdateUserPassword: the code that was used stays.
UpdateUserPasswordKeepCode(i) ==
    /\ users' = [users EXCEPT ![i].secret = @ + 1, ![i].hashed = Parallelism,
                              ![i].parallelism = Parallelism, ![i].version = @ + 1]
    /\ UNCHANGED codes

\* Hash, parameters and refresh_version change together, and the code goes.
UpdateUserPassword(i) ==
    /\ users' = [users EXCEPT ![i].secret = @ + 1, ![i].hashed = Parallelism,
                              ![i].parallelism = Parallelism, ![i].version = @ + 1]
    /\ codes' = [codes EXCEPT ![i] = NoCode]

UpsertPasswordResetCode(i, c, crossed) ==
    codes' = [codes EXCEPT ![i] =
        [code |-> c, attempts |-> MaxAttempts, live |-> TRUE, cooling |-> TRUE,
         guesses |-> 0, crossed |-> crossed]]

\* Mutant of UpdatePasswordResetCodeAttempts: a row is made where there is none.
UpsertPasswordResetCodeAttempts(i, n) == codes' = [codes EXCEPT ![i].attempts = n]

UpdatePasswordResetCodeAttempts(i, n) ==
    codes' = [codes EXCEPT ![i] = IF @ = NoCode THEN @ ELSE [@ EXCEPT !.attempts = n]]

DeletePasswordResetCodeByUserID(i) == codes' = [codes EXCEPT ![i] = NoCode]

-------------------------------------------------------------------------------
(* Passwords and tokens.                                                   *)

\* What the column says is what the hash was computed with; with 0 every
\* number of threads is tried.
ParamsFit(row) == row.parallelism \in {0, row.hashed}
VerifyPassword(row, secret) == row.secret = secret /\ ParamsFit(row)

CreateTokensWithRefreshVersion(i, version, secret) ==
    tokens' = tokens \union {[user |-> i, version |-> version, secret |-> secret]}

-------------------------------------------------------------------------------
(* The steps of a request and its answer.                                  *)

At(r, place) == req[r].at = place
Go(r, fields) == req' = [req EXCEPT ![r] = fields] /\ reply' = NoReply

RegisterStatus(err) == CASE err = "ok" -> 201 [] err = "exists" -> 409 [] OTHER -> 500
LoginStatus(err) ==
    CASE err = "ok" -> 200 [] err \in {"unauthorized", "notfound"} -> 401 [] OTHER -> 500
RefreshTokensStatus(err) ==
    CASE err = "ok" -> 200 [] err = "unauthorized" -> 401 [] OTHER -> 500
RequestPasswordResetStatus(err) ==
    CASE err = "ok" -> 202 [] err = "badparams" -> 400 [] OTHER -> 500
ConfirmPasswordResetStatus(err) ==
    CASE err = "ok" -> 200 [] err = "badparams" -> 400 [] OTHER -> 500
ChangeUserStatus(err) ==
    CASE err = "ok" -> 200 [] err = "forbidden" -> 403 [] err = "notfound" -> 404
      [] err = "badparams" -> 400 [] err = "exists" -> 409 [] OTHER -> 500
ChangePasswordStatus(err) ==
    CASE err = "ok" -> 200 [] err = "forbidden" -> 403 [] err = "badparams" -> 400
      [] err = "notfound" -> 404 [] OTHER -> 500

Status(op, err) ==
    CASE op = "register" -> RegisterStatus(err)
      [] op = "login" -> LoginStatus(err)
      [] op = "refresh" -> RefreshTokensStatus(err)
      [] op = "changeUser" -> ChangeUserStatus(err)
      [] op = "changePassword" -> ChangePasswordStatus(err)
      [] op = "requestReset" -> RequestPasswordResetStatus(err)
      [] op = "confirmReset" -> ConfirmPasswordResetStatus(err)

\* The service returns err, the handler answers and the request is over; wrote:
\* it has done its work.
Answer(r, op, err, wrote) ==
    /\ req' = [req EXCEPT ![r] = Idle]
    /\ reply' = [status |-> Status(op, err), wrote |-> wrote]

\* A statement that fails and ends the request.
Fails(r, op, wrote) == Fault /\ Answer(r, op, "db", wrote)

-------------------------------------------------------------------------------
(* POST /auth/register: one transaction counts the users and inserts one.  *)

Unfinished(op) == {r \in Requests : req[r].op = op}

Register(r, n) ==
    /\ req[r] = Idle
    /\ Go(r, [Idle EXCEPT !.op = "register", !.at = "count", !.name = n,
                          !.first = (users = <<>>)])
    /\ NoFault
    /\ UNCHANGED <<users, codes, tokens, issued, history>>

\* Mutant of CountUsers: the new user is counted.
CountUsersWithNew(r) ==
    /\ At(r, "count")
    /\ \/ /\ Go(r, [req[r] EXCEPT !.at = "insert", !.superuser = (GetUserCount = 1)])
          /\ NoFault
       \/ Fails(r, "register", FALSE)
    /\ UNCHANGED <<users, codes, tokens, issued, history>>

\* Mutant of CountUsers: two users may be founders.
CountUsersLoosely(r) ==
    /\ At(r, "count")
    /\ \/ /\ Go(r, [req[r] EXCEPT !.at = "insert", !.superuser = (GetUserCount <= 1)])
          /\ NoFault
       \/ Fails(r, "register", FALSE)
    /\ UNCHANGED <<users, codes, tokens, issued, history>>

\* Read Committed: users of transactions that have not ended are not counted.
CountUsers(r) ==
    /\ At(r, "count")
    /\ \/ /\ Go(r, [req[r] EXCEPT !.at = "insert", !.superuser = (GetUserCount = 0)])
          /\ NoFault
       \/ Fails(r, "register", FALSE)
    /\ UNCHANGED <<users, codes, tokens, issued, history>>

\* INSERT and COMMIT; the tokens are made from the row that was returned.
InsertUser(r) ==
    LET i == Len(users) + 1 IN
    /\ At(r, "insert")
    /\ \/ /\ NameTaken(req[r].name, {})
          /\ Answer(r, "register", "exists", FALSE)
          /\ NoFault
          /\ UNCHANGED <<users, tokens>>
       \/ /\ ~NameTaken(req[r].name, {})
          /\ CreateUser(req[r].name, req[r].superuser)
          /\ \/ /\ CreateTokensWithRefreshVersion(i, 0, 0)
                /\ Answer(r, "register", "ok", TRUE)
                /\ NoFault
             \/ Fails(r, "register", TRUE) /\ UNCHANGED tokens
       \/ Fails(r, "register", FALSE) /\ UNCHANGED <<users, tokens>>
    /\ UNCHANGED <<codes, issued, history>>

-------------------------------------------------------------------------------
(* POST /auth/login, POST /auth/refresh.                                   *)

Login(r, n, secret) ==
    /\ req[r] = Idle
    /\ \/ /\ GetUserByUsername(n) = {}
          /\ Answer(r, "login", "notfound", FALSE)
          /\ NoFault
          /\ UNCHANGED tokens
       \/ \E i \in GetUserByUsername(n) :
             LET row == users[i] IN
             /\ NoFault
             /\ \/ /\ ~VerifyPassword(row, secret)
                   /\ Answer(r, "login", "unauthorized", FALSE)
                   /\ UNCHANGED tokens
                \/ /\ VerifyPassword(row, secret) /\ row.parallelism # 0
                   /\ CreateTokensWithRefreshVersion(i, row.version, secret)
                   /\ Answer(r, "login", "ok", TRUE)
                \/ /\ VerifyPassword(row, secret) /\ row.parallelism = 0
                   /\ Go(r, [Idle EXCEPT !.op = "login", !.at = "persist", !.user = i,
                                 !.secret = secret, !.version = row.version,
                                 !.params = row.hashed])
                   /\ UNCHANGED tokens
       \/ Fails(r, "login", FALSE) /\ UNCHANGED tokens
    /\ UNCHANGED <<users, codes, issued, history>>

\* Mutant of PersistHashParams: the default parameters are stored, not the ones
\* that the hash was found to have.
PersistDefaultParams(r) ==
    LET i == req[r].user IN
    /\ At(r, "persist")
    /\ \/ /\ UpdateUserPasswordHashParams(i, Parallelism)
          /\ mixed' = IF users[i].secret = req[r].secret THEN mixed ELSE mixed \union {i}
          /\ NoFault
       \/ Fault /\ UNCHANGED <<users, mixed>>
    /\ CreateTokensWithRefreshVersion(i, req[r].version, req[r].secret)
    /\ Answer(r, "login", "ok", TRUE)
    /\ UNCHANGED <<codes, issued, mailed, spent, raced>>

\* A legacy row gets the parameters with which the password was verified.  They
\* are written by id, whatever hash the row has by now.  An error is logged.
PersistHashParams(r) ==
    LET i == req[r].user IN
    /\ At(r, "persist")
    /\ \/ /\ UpdateUserPasswordHashParams(i, req[r].params)
          /\ mixed' = IF users[i].secret = req[r].secret THEN mixed ELSE mixed \union {i}
          /\ NoFault
       \/ Fault /\ UNCHANGED <<users, mixed>>
    /\ CreateTokensWithRefreshVersion(i, req[r].version, req[r].secret)
    /\ Answer(r, "login", "ok", TRUE)
    /\ UNCHANGED <<codes, issued, mailed, spent, raced>>

\* The new token is made from the row that was read.
UpdateTokens(r, t) ==
    LET found == GetUserByID(t.user) # {} IN
    /\ req[r] = Idle
    /\ \/ /\ ~found \/ t.version # users[t.user].version
          /\ Answer(r, "refresh", "unauthorized", FALSE)
          /\ NoFault
          /\ UNCHANGED tokens
       \/ /\ found /\ t.version = users[t.user].version
          /\ CreateTokensWithRefreshVersion(t.user, users[t.user].version, t.secret)
          /\ Answer(r, "refresh", "ok", TRUE)
          /\ NoFault
       \/ Fails(r, "refresh", FALSE) /\ UNCHANGED tokens
    /\ UNCHANGED <<users, codes, issued, history>>

-------------------------------------------------------------------------------
(* PATCH /users/{id}, PATCH /users/{id}/change_password.                   *)

\* requireCurrentUser: the bearer of the access token is the user it names.
RequireCurrentUser(caller, target) == caller = target

Forbidden(r, op) == Answer(r, op, "forbidden", FALSE) /\ NoFault

\* The row is read; what the request leaves out is kept as it was read.
ChangeUser(r, caller, i, name, email) ==
    /\ req[r] = Idle
    /\ \/ ~RequireCurrentUser(caller, i) /\ Forbidden(r, "changeUser")
       \/ /\ RequireCurrentUser(caller, i)
          /\ Go(r, [Idle EXCEPT !.op = "changeUser", !.at = "update", !.user = i,
                        !.name = IF name = Nobody THEN users[i].name ELSE name,
                        !.email = IF email = Nobody THEN users[i].email ELSE email])
          /\ NoFault
       \/ RequireCurrentUser(caller, i) /\ Fails(r, "changeUser", FALSE)
    /\ UNCHANGED <<users, codes, tokens, issued, history>>

WriteUser(r) ==
    LET i == req[r].user
        taken == NameTaken(req[r].name, {i}) \/ EmailTaken(req[r].email, {i})
    IN
    /\ At(r, "update")
    /\ \/ taken /\ Answer(r, "changeUser", "exists", FALSE) /\ NoFault /\ UNCHANGED users
       \/ /\ ~taken
          /\ UpdateUser(i, req[r].name, req[r].email)
          /\ \/ Answer(r, "changeUser", "ok", TRUE) /\ NoFault
             \/ Fails(r, "changeUser", TRUE)
       \/ Fails(r, "changeUser", FALSE) /\ UNCHANGED users
    /\ UNCHANGED <<codes, tokens, issued, history>>

\* The old password is verified against the row that is read here.
ChangePassword(r, caller, i, old) ==
    /\ req[r] = Idle
    /\ \/ ~RequireCurrentUser(caller, i) /\ Forbidden(r, "changePassword")
       \/ /\ RequireCurrentUser(caller, i) /\ ~VerifyPassword(users[i], old)
          /\ Answer(r, "changePassword", "badparams", FALSE)
          /\ NoFault
       \/ /\ RequireCurrentUser(caller, i) /\ VerifyPassword(users[i], old)
          /\ Go(r, [Idle EXCEPT !.op = "changePassword", !.at = "password", !.user = i,
                        !.secret = old])
          /\ NoFault
       \/ RequireCurrentUser(caller, i) /\ Fails(r, "changePassword", FALSE)
    /\ UNCHANGED <<users, codes, tokens, issued, history>>

\* Mutant of WritePassword: a statement whose reply is lost is reported as
\* bad parameters.
WritePasswordBadParams(r) ==
    LET i == req[r].user
        op == req[r].op
    IN
    /\ At(r, "password")
    /\ \/ /\ UpdateUserPassword(i)
          /\ spent' = IF op = "confirmReset" THEN spent \union {req[r].code} ELSE spent
          /\ \/ Answer(r, op, "ok", TRUE) /\ NoFault
             \/ Fault /\ Answer(r, op, "badparams", TRUE)
       \/ Fails(r, op, FALSE) /\ UNCHANGED <<users, codes, spent>>
    /\ UNCHANGED <<tokens, issued, mailed, raced, mixed>>

\* The new hash is written by id: by a change of password, whose old password
\* may have been replaced since, or by a confirmation, whose code may have been.
WritePassword(r) ==
    LET i == req[r].user
        op == req[r].op
    IN
    /\ At(r, "password")
    /\ \/ /\ UpdateUserPassword(i)
          /\ spent' = IF op = "confirmReset" THEN spent \union {req[r].code} ELSE spent
          /\ \/ Answer(r, op, "ok", TRUE) /\ NoFault
             \/ Fails(r, op, TRUE)
       \/ Fails(r, op, FALSE) /\ UNCHANGED <<users, codes, spent>>
    /\ UNCHANGED <<tokens, issued, mailed, raced, mixed>>

-------------------------------------------------------------------------------
(* POST /auth/password-reset/request                                       *)

\* Unfinished requests of this kind for user i that have passed the cooldown.
Resetting(i) == {r \in Unfinished("requestReset") : req[r].user = i /\ ~At(r, "cooldown")}

\* An address nobody has is answered like any other.
RequestPasswordReset(r, e) ==
    /\ req[r] = Idle
    /\ \/ /\ GetUserByEmail(e) = {}
          /\ Answer(r, "requestReset", "ok", FALSE)
          /\ NoFault
       \/ \E i \in GetUserByEmail(e) :
             /\ Go(r, [Idle EXCEPT !.op = "requestReset", !.at = "cooldown", !.user = i])
             /\ NoFault
       \/ Fails(r, "requestReset", FALSE)
    /\ UNCHANGED <<users, codes, tokens, issued, history>>

\* While a code that can still be used is cooling down no other is sent.
CheckCooldown(r) ==
    LET row == GetPasswordResetCodeByUserID(req[r].user)
        wait == row.attempts > 0 /\ row.live /\ row.cooling
    IN
    /\ At(r, "cooldown")
    /\ \/ wait /\ Answer(r, "requestReset", "ok", FALSE) /\ NoFault /\ UNCHANGED issued
       \/ /\ ~wait
          /\ issued' = issued + 1
          /\ Go(r, [req[r] EXCEPT !.at = "upsert", !.code = issued + 1])
          /\ NoFault
       \/ Fails(r, "requestReset", FALSE) /\ UNCHANGED issued
    /\ UNCHANGED <<users, codes, tokens, history>>

\* Mutant of WriteCode: a code that could not be written is cleaned up as well.
WriteCodeOrCleanUp(r) ==
    LET i == req[r].user IN
    /\ At(r, "upsert")
    /\ \/ /\ UpsertPasswordResetCode(i, req[r].code, Resetting(i) # {r})
          /\ \/ Go(r, [req[r] EXCEPT !.at = "mail"]) /\ NoFault
             \/ Fails(r, "requestReset", FALSE)
       \/ Go(r, [req[r] EXCEPT !.at = "unsend"]) /\ Fault /\ UNCHANGED codes
    /\ UNCHANGED <<users, tokens, issued, history>>

\* A code replaces the one before it.  It has crossed another request's when
\* both have passed the cooldown and neither has ended.
WriteCode(r) ==
    LET i == req[r].user IN
    /\ At(r, "upsert")
    /\ \/ /\ UpsertPasswordResetCode(i, req[r].code, Resetting(i) # {r})
          /\ \/ Go(r, [req[r] EXCEPT !.at = "mail"]) /\ NoFault
             \/ Fails(r, "requestReset", FALSE)
       \/ Fails(r, "requestReset", FALSE) /\ UNCHANGED codes
    /\ UNCHANGED <<users, tokens, issued, history>>

\* The mail is delivered, or an error is returned: before it was, or after.
SendCode(r) ==
    /\ At(r, "mail")
    /\ \/ /\ mailed' = mailed \union {req[r].code}
          /\ Answer(r, "requestReset", "ok", TRUE)
          /\ NoFault
       \/ /\ mailed' \in {mailed, mailed \union {req[r].code}}
          /\ Go(r, [req[r] EXCEPT !.at = "unsend"])
          /\ Fault
    /\ UNCHANGED <<users, codes, tokens, issued, spent, raced, mixed>>

\* The code of the mail that failed is removed: whichever code the user has now.
DeleteUnsentCode(r) ==
    /\ At(r, "unsend")
    /\ \/ DeletePasswordResetCodeByUserID(req[r].user) /\ NoFault
       \/ Fault /\ UNCHANGED codes
    /\ Answer(r, "requestReset", "ok", FALSE)
    /\ UNCHANGED <<users, tokens, issued, history>>

-------------------------------------------------------------------------------
(* POST /auth/password-reset/confirm                                       *)

\* Confirmations for user i that have read its code and not ended.
Confirming(i) ==
    {r \in Unfinished("confirmReset") : req[r].user = i /\ ~At(r, "compare")}

\* code is what the client sends: one it was mailed, or a guess.
ConfirmPasswordReset(r, e, code) ==
    /\ req[r] = Idle
    /\ \/ /\ GetUserByEmail(e) = {}
          /\ Answer(r, "confirmReset", "badparams", FALSE)
          /\ NoFault
       \/ \E i \in GetUserByEmail(e) :
             /\ Go(r, [Idle EXCEPT !.op = "confirmReset", !.at = "compare", !.user = i,
                           !.code = code])
             /\ NoFault
       \/ Fails(r, "confirmReset", FALSE)
    /\ UNCHANGED <<users, codes, tokens, issued, history>>

\* The row is read and the code compared with it; what follows from that is
\* written by the next statement, to whatever row the user has then.
CompareCode(r) ==
    LET i == req[r].user
        row == GetPasswordResetCodeByUserID(i)
        given == req[r].code
        usable == row.attempts > 0 /\ row.live
    IN
    /\ At(r, "compare")
    /\ \/ /\ row = NoCode
          /\ Answer(r, "confirmReset", "badparams", FALSE)
          /\ NoFault
          /\ UNCHANGED <<codes, raced>>
       \/ /\ row # NoCode
          /\ Go(r, [req[r] EXCEPT
                !.attempts = row.attempts,
                !.at = CASE ~usable -> "drop"
                         [] usable /\ given = row.code -> "password"
                         [] usable /\ given # row.code /\ row.attempts <= 1 -> "drop"
                         [] OTHER -> "attempts"])
          /\ codes' = IF usable /\ given # row.code
                      THEN [codes EXCEPT ![i].guesses = @ + 1] ELSE codes
          /\ raced' = IF Confirming(i) = {} THEN raced ELSE raced \union {row.code}
          /\ NoFault
       \/ Fails(r, "confirmReset", FALSE) /\ UNCHANGED <<codes, raced>>
    /\ UNCHANGED <<users, tokens, issued, mailed, spent, mixed>>

\* The code has expired or no attempt is left; an error is ignored.
DropCode(r) ==
    /\ At(r, "drop")
    /\ \/ DeletePasswordResetCodeByUserID(req[r].user) /\ NoFault
       \/ Fault /\ UNCHANGED codes
    /\ Answer(r, "confirmReset", "badparams", FALSE)
    /\ UNCHANGED <<users, tokens, issued, history>>

\* Mutant of CountAttempt: the number that was read is written back.
CountNoAttempt(r) ==
    /\ At(r, "attempts")
    /\ \/ /\ UpdatePasswordResetCodeAttempts(req[r].user, req[r].attempts)
          /\ \/ Answer(r, "confirmReset", "badparams", FALSE) /\ NoFault
             \/ Fails(r, "confirmReset", FALSE)
       \/ Fails(r, "confirmReset", FALSE) /\ UNCHANGED codes
    /\ UNCHANGED <<users, tokens, issued, history>>

\* One attempt fewer than were read.
CountAttempt(r) ==
    /\ At(r, "attempts")
    /\ \/ /\ UpdatePasswordResetCodeAttempts(req[r].user, req[r].attempts - 1)
          /\ \/ Answer(r, "confirmReset", "badparams", FALSE) /\ NoFault
             \/ Fails(r, "confirmReset", FALSE)
       \/ Fails(r, "confirmReset", FALSE) /\ UNCHANGED codes
    /\ UNCHANGED <<users, tokens, issued, history>>

-------------------------------------------------------------------------------
(* Time passes for the code of user i.                                     *)

CooldownEnds(i) ==
    /\ codes[i].cooling
    /\ codes' = [codes EXCEPT ![i].cooling = FALSE]
    /\ NoFault
    /\ reply' = NoReply
    /\ UNCHANGED <<users, tokens, req, issued, history>>

CodeExpires(i) ==
    /\ codes[i].live
    /\ codes' = [codes EXCEPT ![i].live = FALSE]
    /\ NoFault
    /\ reply' = NoReply
    /\ UNCHANGED <<users, tokens, req, issued, history>>

-------------------------------------------------------------------------------
(* The specification.                                                      *)

\* A client sends a request.
Begins(r) ==
    /\ begun < MaxRequests
    /\ begun' = begun + 1
    /\ \/ \E n \in Names : Register(r, n)
       \/ \E n \in Names, s \in 0..MaxRequests : Login(r, n, s)
       \/ \E t \in tokens : UpdateTokens(r, t)
       \/ \E c, i \in Rows, n \in Names \union {Nobody}, e \in Emails \union {NoEmail, Nobody} :
             ChangeUser(r, c, i, n, e)
       \/ \E c, i \in Rows, s \in 0..MaxRequests : ChangePassword(r, c, i, s)
       \/ \E e \in Emails : RequestPasswordReset(r, e)
       \/ \E e \in Emails, c \in mailed \union {0} : ConfirmPasswordReset(r, e, c)

\* A request runs its next statement, or sends its mail.
Continues(r) ==
    /\ UNCHANGED begun
    /\ \/ CountUsers(r) \/ InsertUser(r)
       \/ PersistHashParams(r)
       \/ WriteUser(r) \/ WritePassword(r)
       \/ CheckCooldown(r) \/ WriteCode(r) \/ SendCode(r) \/ DeleteUnsentCode(r)
       \/ CompareCode(r) \/ DropCode(r) \/ CountAttempt(r)

TimePasses(i) == UNCHANGED begun /\ (CooldownEnds(i) \/ CodeExpires(i))

Next ==
    \/ \E r \in Requests : Begins(r) \/ Continues(r)
    \/ \E i \in Ids : TimePasses(i)

Spec == Init /\ [][Next]_vars

-------------------------------------------------------------------------------
(* Properties.                                                             *)

\* An installation that has users has a superuser: whichever registrations
\* overlap, roll back or lose their reply, one that counted no users is among
\* those that committed (CreateUserWithInitialRole).
SomeSuperuser == users # <<>> => \E i \in Rows : users[i].superuser

\* Whoever registers once a user is there becomes an ordinary user; only
\* registrations that began in an empty installation can make superusers.
LaterUsersAreOrdinary ==
    [][\A r \in Requests :
          Len(users') > Len(users) /\ req[r].at = "insert" /\ req'[r] # req[r]
             => (users'[Len(users')].superuser => req[r].first)]_vars

\* A refresh token that UpdateTokens still accepts was obtained with the password
\* the user has now, by a login or through tokens that go back to one; so that
\* a change or a reset of the password ends every session, also those of logins
\* and refreshes that were under way (refresh_version).
UsableTokensAreCurrent ==
    \A t \in tokens :
        t.user \in Rows /\ t.version = users[t.user].version
            => t.secret = users[t.user].secret

\* The stored hash can be verified with the stored parameters, so that the
\* user's password logs them in; except after a login of a legacy row that
\* overlapped a change of the password, and so wrote the parameters of the hash
\* that was replaced (Login, UpdateUserPasswordHashParams).
PasswordsVerify == \A i \in Rows : i \notin mixed => ParamsFit(users[i])

\* At most PASSWORD_RESET_MAX_ATTEMPTS wrong codes are compared with a code, and
\* one more for each statement that failed (the errors of DeletePasswordResetCode
\* are ignored), if the confirmations that read it did not overlap others of the
\* same user.
GuessesAreLimited ==
    \A i \in Ids :
        codes[i].code \notin raced => codes[i].guesses <= MaxAttempts + (MaxFaults - faults)

\* A code sets a password once, if no confirmation that read it overlapped
\* another one of the same user: the password and the code's row change in one
\* statement (UpdateUserPassword).
CodesWorkOnce ==
    \A r \in Requests :
        req[r].op = "confirmReset" /\ At(r, "password") /\ req[r].code \in spent
            => req[r].code \in raced

\* A code that was delivered is taken back only by a confirmation or a change
\* of the password: a mail that fails removes its own code, unless two requests
\* for a code crossed.
DeliveredCodesStay ==
    [][\A i \in Ids :
          codes[i].code \in mailed /\ ~codes[i].crossed /\ codes'[i] = NoCode
             => \E r \in Requests :
                   /\ req'[r] # req[r]
                   /\ \/ req[r].op \in {"confirmReset", "changePassword"}
                      \/ req[r].op = "requestReset" /\ req[r].code = codes[i].code]_vars

\* The answer is true: with a 4xx status the request has changed nothing (but
\* for counted attempts and expired codes), with 200 or 201 it has done its
\* work; only a request for a code is answered 202 whatever came of it.
AnswersAreTrue ==
    [][/\ reply'.status \in 400..499 => ~reply'.wrote
       /\ reply'.status \in {200, 201} => reply'.wrote]_vars

===============================================================================
