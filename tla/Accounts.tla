------------------------------ MODULE Accounts -----------------------------
(***************************************************************************)
(* One account: signed up by e-mail or through a social provider, verified *)
(* and reset by one-time codes, suspended and given back by operators, and *)
(* the sessions (refresh tokens) opened on it.  `update' reads the row and *)
(* saves it whole; the hash of the password alone is never read with it.   *)
(***************************************************************************)
EXTENDS OneTimeCodes

VARIABLES
  account,         \* users.status, and how often the password was set
  sessions         \* refresh_tokens, by creation: the password it was opened under

Status == {"none", "pending_verification", "active", "suspended", "inactive"}

SessionRow == [pass : Nat, live : BOOLEAN]

Await == {"insertUser", "retire", "insertCode", "mail", "dropCode", "findCode",
          "lockCode", "judge", "readUser", "saveUser", "deleteCodes", "revokeAll",
          "mint", "rotate", "revoke"}

AccountTask ==
  [pc     : Await,
   todo   : Seq(Await),
   type   : CodeType,                  \* the codes it is about
   code   : {NoCode} \cup Code,        \* the code it drew, or found
   guess  : {NoCode} \cup Code,        \* the code the customer typed in
   seen   : Nat,                       \* the tries it read
   status : Status,                    \* the status it is to save
   keep   : BOOLEAN,                   \* ... or the one that update reads
   pass   : BOOLEAN,                   \* whether it sets the password
   desk   : BOOLEAN,                   \* whether an operator sent it
   late   : BOOLEAN,                   \* history: the account was suspended when it began
   token  : {0} \cup Row,              \* the session it is about
   under  : Nat]                       \* history: the password it was let in by

AccountOK ==
  /\ account \in [status : Status, pass : Nat]
  /\ sessions \in Seq(SessionRow) /\ Len(sessions) <= MaxRequests

Is(s) == account.status = s

\* A task with these awaits before it.
Todo(list) ==
  [pc |-> Head(list), todo |-> Tail(list), type |-> "reset", code |-> NoCode,
   guess |-> NoCode, seen |-> 0, status |-> account.status, keep |-> TRUE,
   pass |-> FALSE, desk |-> FALSE, late |-> Is("suspended"), token |-> 0,
   under |-> account.pass]

\* usersService.update, and a session for whoever was let in.
Enter == <<"readUser", "saveUser", "mint">>

\* An account that waited for its address to be verified waits no more.
Activated(s) == IF s = "pending_verification" THEN "active" ELSE s

\* register, with an address that is not taken.
Register(r) ==
  /\ Is("none")
  /\ Call(r, [Todo(<<"insertUser", "retire", "insertCode", "mail">>) EXCEPT
                !.type = "email", !.status = "pending_verification", !.pass = TRUE])

\* login, with the right password: an account not verified gets a code instead.
Login(r) ==
  /\ account.pass > 0 /\ ~Is("suspended")
  /\ IF Is("pending_verification")
     THEN ~Cooling("email") /\ Call(r, [Todo(SendCode) EXCEPT !.type = "email"])
     ELSE Call(r, Todo(Enter))

\* resendOtp and forgotPassword.
AskCode(r) ==
  \E type \in CodeType :
    /\ ~Is("none") /\ ~Is("suspended")
    /\ type = "email" => Is("pending_verification")
    /\ ~Cooling(type)
    /\ Call(r, [Todo(SendCode) EXCEPT !.type = type])

\* A code the customer may type in: one that was mailed, or none of them.
Typed == {NoCode} \cup {i \in DOMAIN codes : codes[i].mailed}

\* verifyOtp, for the address: the status is the one that was read first.
VerifyAddress(r) ==
  /\ ~Is("none") /\ ~Is("suspended")
  /\ \E g \in Typed :
       Call(r, [Todo(<<"findCode", "readUser", "saveUser", "mint">>) EXCEPT
                  !.type = "email", !.guess = g,
                  !.status = Activated(account.status), !.keep = FALSE])

\* verifyOtp, for a reset: a reset token for the code.
ExchangeCode(r) ==
  /\ ~Is("none") /\ ~Is("suspended")
  /\ \E g \in Typed : Call(r, [Todo(<<"findCode">>) EXCEPT !.guess = g])

NewPassword == <<"readUser", "saveUser", "deleteCodes", "revokeAll">>

\* resetPassword, with the code itself.
ResetByCode(r) ==
  /\ ~Is("none") /\ ~Is("suspended")
  /\ \E g \in Typed :
       Call(r, [Todo(<<"findCode", "readUser", "saveUser", "deleteCodes", "revokeAll">>) EXCEPT
                  !.guess = g, !.pass = TRUE,
                  !.status = Activated(account.status), !.keep = FALSE])

\* resetPassword, with a reset token whose code is still there.
ResetByToken(r) ==
  /\ ~Is("suspended")
  /\ \E i \in Rows("reset") : codes[i].state = "redeemed"
  /\ Call(r, [Todo(NewPassword) EXCEPT
                !.pass = TRUE, !.status = Activated(account.status), !.keep = FALSE])

\* A slip: the sessions opened with the old password go on.
ChangeAlone(r) ==
  /\ account.pass > 0 /\ ~Is("suspended")
  /\ Call(r, [Todo(Enter) EXCEPT !.pass = TRUE])

\* changePassword; the caller gets a session of the new one.
ChangePassword(r) ==
  /\ account.pass > 0 /\ ~Is("suspended")
  /\ Call(r, [Todo(<<"readUser", "saveUser", "revokeAll", "mint">>) EXCEPT !.pass = TRUE])

\* A slip: whoever the provider vouches for is let in.
SocialAnyway(r) ==
  IF Is("none")
  THEN Call(r, [Todo(<<"insertUser", "mint">>) EXCEPT !.status = "active"])
  ELSE Call(r, [Todo(Enter) EXCEPT !.status = "active", !.keep = FALSE])

\* socialLogin, of an account that there is or, from the sign-up screen, a new one.
SocialLogin(r) ==
  IF Is("none")
  THEN Call(r, [Todo(<<"insertUser", "mint">>) EXCEPT !.status = "active"])
  ELSE /\ ~Is("suspended")
       /\ Call(r, [Todo(Enter) EXCEPT
                     !.status = Activated(account.status),
                     !.keep = ~Is("pending_verification")])

\* refreshToken and logout, with a session that has not been revoked.
Refresh(r) ==
  \E s \in DOMAIN sessions :
    sessions[s].live /\ Call(r, [Todo(<<"rotate">>) EXCEPT !.token = s])

Logout(r) ==
  \E s \in DOMAIN sessions :
    sessions[s].live /\ Call(r, [Todo(<<"revoke">>) EXCEPT !.token = s])

\* The operators: toggleStatus, softDelete, adminResetPassword; and an edit of
\* the profile, by either side (updateProfile, adminUpdateUser).
Toggle(r) ==
  /\ ~Is("none")
  /\ Call(r, [Todo(<<"saveUser">>) EXCEPT
                !.status = IF Is("active") THEN "suspended" ELSE "active", !.desk = TRUE])

SoftDelete(r) ==
  /\ ~Is("none")
  /\ Call(r, [Todo(<<"saveUser">>) EXCEPT !.status = "inactive", !.desk = TRUE])

AdminResetPassword(r) ==
  /\ ~Is("none")
  /\ Call(r, [Todo(<<"saveUser", "revokeAll", "retire">>) EXCEPT
                !.pass = TRUE, !.desk = TRUE])

EditProfile(r) == ~Is("none") /\ Call(r, Todo(<<"saveUser">>))

-----------------------------------------------------------------------------

\* The unique address rejects the second of two sign-ups.
InsertUser(r) ==
  LET t == task[r] IN
  /\ At(r, "insertUser")
  /\ IF Is("none")
     THEN account' = [status |-> t.status, pass |-> IF t.pass THEN 1 ELSE 0] /\ Proceed(r, t)
     ELSE UNCHANGED account /\ Finish(r)
  /\ UNCHANGED <<codes, sessions>>

\* update reads the row again, and patches it ...
ReadUser(r) ==
  LET t == task[r] IN
  /\ At(r, "readUser")
  /\ Proceed(r, [t EXCEPT !.status = IF t.keep THEN account.status ELSE @])
  /\ UNCHANGED <<account, codes, sessions>>

\* ... and it is saved whole.
SaveUser(r) ==
  LET t == task[r] IN
  /\ At(r, "saveUser")
  /\ account' = [status |-> t.status, pass |-> account.pass + (IF t.pass THEN 1 ELSE 0)]
  /\ Proceed(r, [t EXCEPT !.under = IF t.pass THEN account.pass + 1 ELSE @])
  /\ UNCHANGED <<codes, sessions>>

DeleteCodes(r) ==
  /\ At(r, "deleteCodes")
  /\ codes' = [i \in DOMAIN codes |-> IF codes[i].type = "reset"
                                      THEN [codes[i] EXCEPT !.state = "gone"] ELSE codes[i]]
  /\ Proceed(r, task[r])
  /\ UNCHANGED <<account, sessions>>

RevokeAll(r) ==
  /\ At(r, "revokeAll")
  /\ sessions' = [s \in DOMAIN sessions |-> [sessions[s] EXCEPT !.live = FALSE]]
  /\ Proceed(r, task[r])
  /\ UNCHANGED <<account, codes>>

Opened(pass) == Append(sessions, [pass |-> pass, live |-> TRUE])

\* generateTokens
Mint(r) ==
  /\ At(r, "mint")
  /\ sessions' = Opened(task[r].under)
  /\ Proceed(r, task[r])
  /\ UNCHANGED <<account, codes>>

\* A new session in place of the old one and on its strength, in one transaction.
Rotate(r) ==
  LET s == task[r].token IN
  /\ At(r, "rotate")
  /\ sessions' = [Opened(sessions[s].pass) EXCEPT ![s].live = FALSE]
  /\ Finish(r)
  /\ UNCHANGED <<account, codes>>

Revoke(r) ==
  /\ At(r, "revoke")
  /\ sessions' = [sessions EXCEPT ![task[r].token].live = FALSE]
  /\ Finish(r)
  /\ UNCHANGED <<account, codes>>

\* The requests about codes alone, and all the others.
CodeRequest(r) == AskCode(r) \/ ExchangeCode(r)

AccountRequest(r) ==
  \/ CodeRequest(r) \/ Register(r) \/ Login(r) \/ VerifyAddress(r)
  \/ ResetByCode(r) \/ ResetByToken(r) \/ ChangePassword(r) \/ SocialLogin(r)
  \/ Refresh(r) \/ Logout(r)
  \/ Toggle(r) \/ SoftDelete(r) \/ AdminResetPassword(r) \/ EditProfile(r)

AccountStep(r) ==
  \/ InsertUser(r) \/ ReadUser(r) \/ SaveUser(r) \/ DeleteCodes(r) \/ RevokeAll(r)
  \/ Mint(r) \/ Rotate(r) \/ Revoke(r)

\* Nobody yet, or an account that signed up a while ago.
AccountInit ==
  /\ account \in {[status |-> "none", pass |-> 0], [status |-> "active", pass |-> 1]}
  /\ sessions = <<>>

-----------------------------------------------------------------------------

(***************************************************************************)
(* A suspension is lifted by an operator, or by a task that was under way  *)
(* before it and saves what it read then; by nothing a customer begins     *)
(* while the account is suspended.  A login, a code, a reset or a social   *)
(* provider never sets it aside, whatever else overlaps.                   *)
(***************************************************************************)
SuspensionHolds ==
  [][\A r \in Req :
       Is("suspended") /\ ~Is("suspended")' /\ task'[r] # task[r] =>
         task[r].desk \/ ~task[r].late
    ]_<<account, calls>>

(***************************************************************************)
(* Once a new password is in, and nothing is under way, no session is left *)
(* that was opened under an earlier one, however it was set: by a reset, a *)
(* change or an operator.                                                  *)
(***************************************************************************)
NewPasswordEvicts ==
  alone /\ fails = 0 /\ Quiet =>
    \A s \in DOMAIN sessions : sessions[s].live => sessions[s].pass = account.pass
=============================================================================
