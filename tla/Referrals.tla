----------------------------- MODULE Referrals -----------------------------
(***************************************************************************)
(* The invites of one referrer: made for a friend or for anybody, claimed  *)
(* by whoever signs up with the referrer's code, lapsed by a nightly job,  *)
(* and moved on by operators until the reward is credited.                 *)
(*                                                                         *)
(* A sign-up claims under row locks (SELECT FOR UPDATE), taken one by one  *)
(* in no stated order, the only place in the code that takes any.          *)
(* Operators do not: they save the row they read, and TypeORM stores the   *)
(* columns in which it differs from the row of that moment.  So does       *)
(* whoever saves the referrer's own row, with the code that was read.      *)
(***************************************************************************)
EXTENDS Naturals, Sequences

CONSTANTS
  Req,          \* the tasks that may run at once
  User,         \* the friends; each has one e-mail address
  None,         \* no friend
  Life,         \* how many days an invite is good for (90 in the code)
  LastDay,      \* bound: the days of the calendar
  MaxRequests,  \* bound: how many requests clients make
  MaxFails      \* bound: how many failures there are

ASSUME ReferralsAssumption ==
  /\ None \notin User
  /\ Life \in Nat \ {0}
  /\ LastDay \in Nat \ {0}
  /\ MaxRequests \in Nat \ {0}
  /\ MaxFails \in Nat

VARIABLES
  code,      \* users.referral_code of the referrer; NoCode before the first
  drawn,     \* how many codes were drawn; they are numbered
  rows,      \* the referrals of the referrer, by creation
  today,     \* the date
  joined,    \* the friends who signed up with a code
  req,       \* the running tasks
  shown,     \* the rows of the referrer's notification centre
  pushes,    \* how many times each was pushed
  reached,   \* history: the successes the referrals had
  claims,    \* history: the friends whose sign-up claimed each invite
  started,   \* how many requests were made (bounded by MaxRequests)
  fails      \* how many failures there were (bounded by MaxFails)

news == <<shown, pushes>>
history == <<reached, claims>>
bounds == <<started, fails>>
vars == <<code, drawn, rows, today, joined, req, news, history, bounds>>

Day == 1 .. LastDay
NoDay == 0
NoCode == 0
Code == 1 .. MaxRequests
Invite == 1 .. MaxRequests

ReferralStatus == {"pending", "registered", "qualified", "rewarded", "expired"}
Success == {"qualified", "rewarded"}
Milestone == Invite \X Success

Row ==
  [code   : Code,
   named  : User \cup {None},      \* whose address it carries
   user   : User \cup {None},      \* who signed up
   status : ReferralStatus,
   exp    : {NoDay} \cup Day]

\* The columns an operator's save may write.
Column == {"named", "user", "status"}

Blank == [code |-> 1, named |-> None, user |-> None, status |-> "pending", exp |-> NoDay]

Task ==
  [pc    : {"idle", "drawCode", "saveUser", "findInvite", "insertInvite", "checkCode",
            "selectOwn", "lockOwn", "selectAny", "lockAny", "claim", "compare", "save",
            "announce", "push"},
   op    : {None, "code", "user", "invite", "join", "status"},
   user  : User \cup {None},       \* whom it is for
   code  : {NoCode} \cup Code,     \* the code it goes by
   now   : {NoDay} \cup Day,       \* when its transaction began
   found : SUBSET Invite,          \* what its query saw and has yet to lock
   next  : {0} \cup Invite,        \* the one of these it waits for
   held  : SUBSET Invite,          \* the rows it has locked
   row   : {0} \cup Invite,        \* the row it works on
   read  : Row,                    \* that row as it will have it
   cols  : SUBSET Column]          \* the columns it will write

Idle ==
  [pc |-> "idle", op |-> None, user |-> None, code |-> NoCode, now |-> NoDay,
   found |-> {}, next |-> 0, held |-> {}, row |-> 0, read |-> Blank, cols |-> {}]

TypeOK ==
  /\ code \in {NoCode} \cup Code
  /\ drawn \in 0 .. MaxRequests
  /\ rows \in Seq(Row) /\ Len(rows) <= MaxRequests
  /\ today \in Day
  /\ joined \subseteq User
  /\ req \in [Req -> Task]
  /\ shown \subseteq Milestone
  /\ pushes \in [Milestone -> Nat]
  /\ reached \subseteq Milestone
  /\ claims \in [Invite -> SUBSET User]
  /\ started \in 0 .. MaxRequests
  /\ fails \in 0 .. MaxFails

-----------------------------------------------------------------------------
(* The rows. *)

\* What the query of a sign-up selects: for its friend by name, or for anybody.
Claimable(t, whom) ==
  {i \in DOMAIN rows :
     /\ rows[i].code = t.code
     /\ rows[i].named = whom
     /\ rows[i].status = "pending"
     /\ rows[i].exp = NoDay \/ rows[i].exp > t.now}

\* validateStatusTransition.
NextStatus(s) ==
  CASE s = "pending"    -> {"registered", "expired"}
    [] s = "registered" -> {"qualified", "expired"}
    [] s = "qualified"  -> {"rewarded", "expired"}
    [] OTHER            -> {}

Due(i) == rows[i].status = "pending" /\ rows[i].exp # NoDay /\ rows[i].exp <= today

\* A slip: only what was for anybody, as in the second query of a sign-up.
LapsedAny == {i \in DOMAIN rows : Due(i) /\ rows[i].named = None}

Lapsed == {i \in DOMAIN rows : Due(i)}

Free(r, is) == \A s \in Req \ {r} : req[s].held \cap is = {}

\* A slip: the columns that changed take the place of the row.
MergedAlone(row, t) == [c \in t.cols |-> t.read[c]]

\* The row as updateStatus's save leaves it.
Merged(row, t) ==
  [c \in DOMAIN row |-> IF c \in t.cols THEN t.read[c] ELSE row[c]]

-----------------------------------------------------------------------------
(* Tasks. *)

At(r, pc) == req[r].pc = pc
Goto(r, pc) == req' = [req EXCEPT ![r].pc = pc]
Finish(r) == req' = [req EXCEPT ![r] = Idle]

Call(r, task) ==
  /\ req[r] = Idle
  /\ started < MaxRequests
  /\ started' = started + 1
  /\ req' = [req EXCEPT ![r] = task]
  /\ UNCHANGED <<code, drawn, rows, today, news, history, fails>>

\* getOrGenerateMyCode: there is nothing to do once there is a code.
ReadMyCode(r) ==
  /\ code = NoCode
  /\ Call(r, [Idle EXCEPT !.pc = "drawCode", !.op = "code"])
  /\ UNCHANGED joined

\* usersService.update, updateProfile and the like: the referrer's row is read with
\* its code, and will be saved with it.
ReadUser(r) ==
  /\ Call(r, [Idle EXCEPT !.pc = "saveUser", !.op = "user", !.code = code])
  /\ UNCHANGED joined

\* createInvite, for a friend by e-mail or for anybody.
ReadInvite(r) ==
  /\ \E u \in User \cup {None} :
       Call(r, [Idle EXCEPT !.pc = IF code = NoCode THEN "drawCode" ELSE "findInvite",
                            !.op = "invite", !.user = u, !.code = code])
  /\ UNCHANGED joined

\* register, by a friend who has a code from the referrer: processReferralCode.
ReadJoin(r) ==
  \E u \in User \ joined, c \in 1 .. drawn :
    /\ \A i \in DOMAIN rows :
         rows[i].user = u => rows[i].status \notin {"registered"} \cup Success
    /\ Call(r, [Idle EXCEPT !.pc = "checkCode", !.op = "join", !.user = u, !.code = c])
    /\ joined' = joined \cup {u}

\* updateStatus.
ReadStatus(r) ==
  /\ \E i \in DOMAIN rows : \E s \in NextStatus(rows[i].status) :
       Call(r, [Idle EXCEPT !.pc = "compare", !.op = "status", !.row = i,
                            !.read = [rows[i] EXCEPT !.status = s]])
  /\ UNCHANGED joined

-----------------------------------------------------------------------------
(* What the tasks do next. *)

\* A new code is stored whether or not there is one by now.
DrawCode(r) ==
  /\ At(r, "drawCode")
  /\ drawn' = drawn + 1
  /\ code' = drawn'
  /\ IF req[r].op = "invite"
     THEN req' = [req EXCEPT ![r].pc = "findInvite", ![r].code = drawn']
     ELSE Finish(r)
  /\ UNCHANGED <<rows, today, joined, news, history, bounds>>

\* The code is written if it differs by now: back to what was read.
SaveUser(r) ==
  /\ At(r, "saveUser")
  /\ code' = req[r].code
  /\ Finish(r)
  /\ UNCHANGED <<drawn, rows, today, joined, news, history, bounds>>

\* A friend invited already is not invited again.
FindInvite(r) ==
  /\ At(r, "findInvite")
  /\ IF /\ req[r].user # None
        /\ \E i \in DOMAIN rows : rows[i].named = req[r].user /\ rows[i].status = "pending"
     THEN Finish(r) ELSE Goto(r, "insertInvite")
  /\ UNCHANGED <<code, drawn, rows, today, joined, news, history, bounds>>

InsertInvite(r) ==
  /\ At(r, "insertInvite")
  /\ today + Life <= LastDay
  /\ rows' = Append(rows, [Blank EXCEPT !.code = req[r].code, !.named = req[r].user,
                                        !.exp = today + Life])
  /\ Finish(r)
  /\ UNCHANGED <<code, drawn, today, joined, news, history, bounds>>

\* findByReferralCode: a code that was replaced is nobody's.  The transaction begins.
CheckCode(r) ==
  /\ At(r, "checkCode")
  /\ IF req[r].code = code
     THEN req' = [req EXCEPT ![r].pc = "selectOwn", ![r].now = today]
     ELSE Finish(r)
  /\ UNCHANGED <<code, drawn, rows, today, joined, news, history, bounds>>

\* What is left of a query: one more row to lock, or its result, the first that
\* still fitted when it was locked.
Scan(t, found, row, lock, else) ==
  IF found = {}
  THEN {[t EXCEPT !.pc = IF row = 0 THEN else ELSE "claim", !.found = {}, !.next = 0,
                  !.row = row]}
  ELSE {[t EXCEPT !.pc = lock, !.found = found, !.next = i, !.row = row] : i \in found}

\* SELECT FOR UPDATE: the rows are those of the moment it starts ...
Select(r, pc, whom, lock, else) ==
  /\ At(r, pc)
  /\ \E u \in Scan(req[r], Claimable(req[r], whom), 0, lock, else) :
       req' = [req EXCEPT ![r] = u]
  /\ UNCHANGED <<code, drawn, rows, today, joined, news, history, bounds>>

SelectOwn(r) == Select(r, "selectOwn", req[r].user, "lockOwn", "selectAny")
SelectAny(r) == Select(r, "selectAny", None, "lockAny", "claim")

\* A slip: the rows are taken as they were selected, whoever holds them.
TakeSelected(r, pc, whom, else) ==
  LET t == req[r] IN
  /\ At(r, pc)
  /\ req' = [req EXCEPT ![r].pc = "claim", ![r].row = t.next]
  /\ UNCHANGED <<code, drawn, rows, today, joined, news, history, bounds>>

\* ... and are locked one after the other, each as soon as nobody else holds it, and
\* looked at again; what was locked stays so until the end.
Lock(r, pc, whom, else) ==
  LET t == req[r]
      fits == t.row = 0 /\ t.next \in Claimable(t, whom) IN
  /\ At(r, pc)
  /\ Free(r, {t.next})
  /\ \E u \in Scan([t EXCEPT !.held = @ \cup {t.next}], t.found \ {t.next},
                    IF fits THEN t.next ELSE t.row, pc, else) :
       req' = [req EXCEPT ![r] = u]
  /\ UNCHANGED <<code, drawn, rows, today, joined, news, history, bounds>>

LockOwn(r) == Lock(r, "lockOwn", req[r].user, "selectAny")
LockAny(r) == Lock(r, "lockAny", None, "claim")

\* Sign-ups that wait for each other in a circle: PostgreSQL makes one of them fail,
\* and register goes on without the invite.
Waits(r, s) == r # s /\ req[r].pc \in {"lockOwn", "lockAny"} /\ req[r].next \in req[s].held
Circle(S) == \A r \in S : (\E s \in S : Waits(r, s)) /\ (\E s \in S : Waits(s, r))

Deadlock(r) ==
  /\ \E S \in SUBSET Req : r \in S /\ Circle(S)
  /\ Finish(r)
  /\ UNCHANGED <<code, drawn, rows, today, joined, news, history, bounds>>

\* The invite is taken, or a referral without one is made; commit.
Claim(r) ==
  LET t == req[r] IN
  /\ At(r, "claim")
  /\ rows' = IF t.row # 0
             THEN [rows EXCEPT ![t.row] = [@ EXCEPT !.named = t.user, !.user = t.user,
                                                    !.status = "registered"]]
             ELSE Append(rows, [Blank EXCEPT !.code = t.code, !.named = t.user,
                                             !.user = t.user, !.status = "registered"])
  /\ claims' = IF t.row # 0 THEN [claims EXCEPT ![t.row] = @ \cup {t.user}] ELSE claims
  /\ Finish(r)
  /\ UNCHANGED <<code, drawn, today, joined, news, reached, bounds>>

\* save loads the row again and finds the columns to write ...
Compare(r) ==
  LET t == req[r] IN
  /\ At(r, "compare")
  /\ req' = [req EXCEPT ![r].pc = "save",
                        ![r].cols = {c \in Column : t.read[c] # rows[t.row][c]}]
  /\ UNCHANGED <<code, drawn, rows, today, joined, news, history, bounds>>

\* ... and writes them, once the row is not locked.
SaveStatus(r) ==
  LET t == req[r] IN
  /\ At(r, "save")
  /\ Free(r, {t.row})
  /\ rows' = [rows EXCEPT ![t.row] = Merged(@, t)]
  /\ reached' = reached \cup ({<<t.row, rows'[t.row].status>>} \cap Milestone)
  /\ IF t.read.status \in Success THEN Goto(r, "announce") ELSE Finish(r)
  /\ UNCHANGED <<code, drawn, today, joined, news, claims, bounds>>

\* A slip: the unique key is forgotten.
AnnounceAgain(r) ==
  LET m == <<req[r].row, req[r].read.status>> IN
  /\ At(r, "announce")
  /\ shown' = shown \cup {m}
  /\ Goto(r, "push")
  /\ UNCHANGED <<code, drawn, rows, today, joined, pushes, history, bounds>>

\* referralSucceeded: the in-app row, unless its key is taken, then the push.
Announce(r) ==
  LET m == <<req[r].row, req[r].read.status>> IN
  /\ At(r, "announce")
  /\ shown' = shown \cup {m}
  /\ IF m \in shown THEN Finish(r) ELSE Goto(r, "push")
  /\ UNCHANGED <<code, drawn, rows, today, joined, pushes, history, bounds>>

Push(r) ==
  /\ At(r, "push")
  /\ pushes' = [pushes EXCEPT ![<<req[r].row, req[r].read.status>>] = @ + 1]
  /\ Finish(r)
  /\ UNCHANGED <<code, drawn, rows, today, joined, shown, history, bounds>>

\* The process is killed, or the database rejects a call; locks are released.
Fail(r) ==
  /\ req[r] # Idle
  /\ fails < MaxFails
  /\ fails' = fails + 1
  /\ Finish(r)
  /\ UNCHANGED <<code, drawn, rows, today, joined, news, history, started>>

-----------------------------------------------------------------------------
(* The clock. *)

\* expireStaleReferrals: one update, which waits for the rows that are locked.
Expire ==
  /\ Lapsed # {}
  /\ \A r \in Req : req[r].held \cap Lapsed = {}
  /\ rows' = [i \in DOMAIN rows |->
                IF i \in Lapsed THEN [rows[i] EXCEPT !.status = "expired"] ELSE rows[i]]
  /\ UNCHANGED <<code, drawn, today, joined, req, news, history, bounds>>

Tick ==
  /\ today < LastDay
  /\ today' = today + 1
  /\ UNCHANGED <<code, drawn, rows, joined, req, news, history, bounds>>

-----------------------------------------------------------------------------

Init ==
  /\ code = NoCode /\ drawn = 0
  /\ rows = <<>>
  /\ today = 1
  /\ joined = {}
  /\ req = [r \in Req |-> Idle]
  /\ shown = {} /\ pushes = [m \in Milestone |-> 0]
  /\ reached = {} /\ claims = [i \in Invite |-> {}]
  /\ started = 0 /\ fails = 0

Request(r) ==
  ReadMyCode(r) \/ ReadUser(r) \/ ReadInvite(r) \/ ReadJoin(r) \/ ReadStatus(r)

Continue(r) ==
  \/ DrawCode(r) \/ SaveUser(r) \/ FindInvite(r) \/ InsertInvite(r)
  \/ CheckCode(r) \/ SelectOwn(r) \/ LockOwn(r) \/ SelectAny(r) \/ LockAny(r)
  \/ Deadlock(r) \/ Claim(r)
  \/ Compare(r) \/ SaveStatus(r) \/ Announce(r) \/ Push(r)

Next == Tick \/ Expire \/ \E r \in Req : Request(r) \/ Continue(r) \/ Fail(r)

\* Days pass, the job runs every night, and a task that is not killed goes on.
Fairness == WF_vars(Tick) /\ WF_vars(Expire) /\ \A r \in Req : WF_vars(Continue(r))

Spec == Init /\ [][Next]_vars /\ Fairness

-----------------------------------------------------------------------------

(***************************************************************************)
(* An invite brings in one friend: it is claimed by a sign-up only while   *)
(* it is pending, and never again after it was claimed or lapsed, however   *)
(* sign-ups, operators and the nightly job meet (processReferralCode).     *)
(***************************************************************************)
ClaimedOnce ==
  [][\A i \in Invite :
       claims'[i] # claims[i] => claims[i] = {} /\ rows[i].status = "pending"]_vars

(***************************************************************************)
(* The referrer is told of a success after it happened, and at most once.  *)
(***************************************************************************)
News == INSTANCE CustomerNews
          WITH News <- Milestone, happened <- reached, heard <- pushes
KeepsThePromise == News!Spec

(***************************************************************************)
(* No invite outlives its day for ever: it is claimed or it lapses, even   *)
(* if a sign-up has it locked when the job comes by (expireStaleReferrals). *)
(***************************************************************************)
InvitesEnd ==
  []<>(\A i \in DOMAIN rows : ~Due(i))
=============================================================================
