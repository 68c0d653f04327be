--------------------------- MODULE AccountProofs ---------------------------
(***************************************************************************)
(* What Membership guarantees of an account, its codes and its sessions    *)
(* for every number of tasks, requests and failures.  The first half says  *)
(* what a step may be (Shape); in the second, each invariant is carried    *)
(* over those shapes.                                                      *)
(***************************************************************************)
EXTENDS MembershipProofs

-----------------------------------------------------------------------------
(* What a task holds, and what it has still to do. *)

Holding ==
  [pc : Await, todo : Seq(Await), type : CodeType, code : Nat, guess : Nat, seen : Nat,
   status : Status, keep : BOOLEAN, pass : BOOLEAN, desk : BOOLEAN, late : BOOLEAN,
   token : Nat, under : Nat]

\* Whatever sets the password has the sessions revoked after it.
Planned(t) ==
  \/ t.pc = "insertUser" /\ t.todo = <<"retire", "insertCode", "mail">>
  \/ t.pc = "insertUser" /\ t.todo = <<"mint">> /\ ~t.pass
  \/ t.pc = "retire" /\ t.todo \in {<<"insertCode", "mail">>, <<>>}
  \/ t.pc = "insertCode" /\ t.todo = <<"mail">>
  \/ t.pc \in {"mail", "dropCode", "mint", "rotate", "revoke"} /\ t.todo = <<>>
  \/ /\ t.pc \in {"findCode", "judge", "lockCode"}
     /\ \/ t.todo \in {<<>>, <<"readUser", "saveUser", "mint">>} /\ ~t.pass
        \/ t.todo = <<"readUser", "saveUser", "deleteCodes", "revokeAll">>
  \/ /\ t.pc = "readUser"
     /\ \/ t.todo = <<"saveUser", "mint">> /\ ~t.pass
        \/ t.todo \in {<<"saveUser", "deleteCodes", "revokeAll">>, <<"saveUser", "revokeAll", "mint">>}
  \/ /\ t.pc = "saveUser"
     /\ \/ t.todo \in {<<>>, <<"mint">>} /\ ~t.pass
        \/ t.todo \in {<<"deleteCodes", "revokeAll">>, <<"revokeAll", "mint">>,
                       <<"revokeAll", "retire">>}
  \/ t.pc = "deleteCodes" /\ t.todo = <<"revokeAll">>
  \/ t.pc = "revokeAll" /\ t.todo \in {<<>>, <<"mint">>, <<"retire">>}

\* u is t, further on.
Further(t, u) ==
  /\ u.type = t.type /\ u.code = t.code /\ u.guess = t.guess /\ u.seen = t.seen
  /\ u.status = t.status /\ u.keep = t.keep /\ u.pass = t.pass /\ u.desk = t.desk
  /\ u.late = t.late /\ u.token = t.token /\ u.under = t.under

AccountOf == part \in {"codes", "account"}

Held ==
  /\ task \in [Req -> Holding \cup {Idle}]
  /\ \A r \in Req : Busy(r) => Planned(task[r])
  /\ codes \in Seq(CodeRow)
  /\ account \in [status : Status, pass : Nat]
  /\ sessions \in Seq(SessionRow)

LEMMA IdleIs == Idle \notin Holding /\ Idle.pc = "idle" /\ "idle" \notin Await
<1>1. "idle" \notin Await
  BY DEF Await
<1>2. Idle.pc = "idle"
  BY DEF Idle
<1>. QED
  BY <1>1, <1>2 DEF Holding

LEMMA HeldBusy ==
  ASSUME Held, NEW r \in Req
  PROVE  /\ Busy(r) <=> task[r] \in Holding
         /\ Busy(r) => Planned(task[r])
         /\ task[r].pc # "idle" => Busy(r)
BY IdleIs DEF Held, Busy

\* The next await of a plan is planned.
LEMMA Onward ==
  ASSUME NEW t \in Holding, Planned(t), t.todo # <<>>,
         NEW u, u = [t EXCEPT !.pc = Head(t.todo), !.todo = Tail(t.todo)]
  PROVE  /\ u \in Holding /\ Planned(u) /\ Further(t, u)
         /\ u.pc = Head(t.todo) /\ u.todo = Tail(t.todo)
<1>1. t.todo \in Seq(Await)
  BY DEF Holding
<1>2. Head(t.todo) \in Await /\ Tail(t.todo) \in Seq(Await)
  BY <1>1, HeadTailProperties
<1>3. u \in Holding
  BY <1>2 DEF Holding
<1>4. u.pc = Head(t.todo) /\ u.todo = Tail(t.todo) /\ Further(t, u)
  BY DEF Holding, Further
<1>5. u.pass = t.pass
  BY <1>4 DEF Further
<1>6. Planned(u)
  <2>1. ASSUME t.todo = <<"retire", "insertCode", "mail">>
        PROVE  u.pc = "retire" /\ u.todo = <<"insertCode", "mail">>
    BY <1>4, <2>1
  <2>2. ASSUME t.todo = <<"mint">>
        PROVE  u.pc = "mint" /\ u.todo = <<>>
    BY <1>4, <2>2
  <2>3. ASSUME t.todo = <<"insertCode", "mail">>
        PROVE  u.pc = "insertCode" /\ u.todo = <<"mail">>
    BY <1>4, <2>3
  <2>4. ASSUME t.todo = <<"mail">>
        PROVE  u.pc = "mail" /\ u.todo = <<>>
    BY <1>4, <2>4
  <2>5. ASSUME t.todo = <<"readUser", "saveUser", "mint">>
        PROVE  u.pc = "readUser" /\ u.todo = <<"saveUser", "mint">>
    BY <1>4, <2>5
  <2>6. ASSUME t.todo = <<"readUser", "saveUser", "deleteCodes", "revokeAll">>
        PROVE  u.pc = "readUser" /\ u.todo = <<"saveUser", "deleteCodes", "revokeAll">>
    BY <1>4, <2>6
  <2>7. ASSUME t.todo = <<"saveUser", "mint">>
        PROVE  u.pc = "saveUser" /\ u.todo = <<"mint">>
    BY <1>4, <2>7
  <2>8. ASSUME t.todo = <<"saveUser", "deleteCodes", "revokeAll">>
        PROVE  u.pc = "saveUser" /\ u.todo = <<"deleteCodes", "revokeAll">>
    BY <1>4, <2>8
  <2>9. ASSUME t.todo = <<"saveUser", "revokeAll", "mint">>
        PROVE  u.pc = "saveUser" /\ u.todo = <<"revokeAll", "mint">>
    BY <1>4, <2>9
  <2>10. ASSUME t.todo = <<"deleteCodes", "revokeAll">>
         PROVE  u.pc = "deleteCodes" /\ u.todo = <<"revokeAll">>
    BY <1>4, <2>10
  <2>11. ASSUME t.todo = <<"revokeAll", "mint">>
         PROVE  u.pc = "revokeAll" /\ u.todo = <<"mint">>
    BY <1>4, <2>11
  <2>12. ASSUME t.todo = <<"revokeAll", "retire">>
         PROVE  u.pc = "revokeAll" /\ u.todo = <<"retire">>
    BY <1>4, <2>12
  <2>13. ASSUME t.todo = <<"revokeAll">>
         PROVE  u.pc = "revokeAll" /\ u.todo = <<>>
    BY <1>4, <2>13
  <2>14. ASSUME t.todo = <<"retire">>
         PROVE  u.pc = "retire" /\ u.todo = <<>>
    BY <1>4, <2>14
  <2>15. CASE t.pc = "insertUser"
    BY <1>5, <2>1, <2>2, <2>15 DEF Planned
  <2>16. CASE t.pc \in {"retire", "insertCode", "mail", "dropCode", "mint", "rotate", "revoke"}
    BY <2>3, <2>4, <2>16 DEF Planned
  <2>17. CASE t.pc \in {"findCode", "judge", "lockCode"}
    BY <1>5, <2>5, <2>6, <2>17 DEF Planned
  <2>18. CASE t.pc = "readUser"
    BY <1>5, <2>7, <2>8, <2>9, <2>18 DEF Planned
  <2>19. CASE t.pc = "saveUser"
    BY <1>5, <2>2, <2>10, <2>11, <2>12, <2>19 DEF Planned
  <2>20. CASE t.pc \in {"deleteCodes", "revokeAll"}
    BY <2>2, <2>13, <2>14, <2>20 DEF Planned
  <2>. QED
    BY <2>15, <2>16, <2>17, <2>18, <2>19, <2>20 DEF Planned
<1>. QED
  BY <1>3, <1>4, <1>6

LEMMA Proceeds ==
  ASSUME NEW r \in Req, NEW t \in Holding, Planned(t), Proceed(r, t)
  PROVE  /\ UNCHANGED <<started, fails, alone>>
         /\ \/ t.todo = <<>> /\ task' = [task EXCEPT ![r] = Idle]
            \/ \E u \in Holding :
                 /\ task' = [task EXCEPT ![r] = u] /\ Planned(u) /\ Further(t, u)
                 /\ t.todo # <<>> /\ u.pc = Head(t.todo) /\ u.todo = Tail(t.todo)
<1>1. CASE t.todo = <<>>
  BY <1>1 DEF Proceed, Finish, Resume
<1>2. CASE t.todo # <<>>
  <2>1. PICK u : u = [t EXCEPT !.pc = Head(t.todo), !.todo = Tail(t.todo)]
    OBVIOUS
  <2>2. task' = [task EXCEPT ![r] = u] /\ UNCHANGED <<started, fails, alone>>
    BY <1>2, <2>1 DEF Proceed, Resume
  <2>. QED
    BY <1>2, <2>1, <2>2, Onward
<1>. QED
  BY <1>1, <1>2

\* The places a plan leads to.
LEMMA Ahead ==
  ASSUME NEW t, Planned(t), t.todo # <<>>, NEW pc, pc = Head(t.todo)
  PROVE  /\ t.pc = "insertUser" => pc \in {"retire", "mint"} /\ (t.pass => pc # "mint")
         /\ t.pc = "retire" => pc = "insertCode"
         /\ t.pc = "insertCode" => pc = "mail"
         /\ t.pc \in {"findCode", "judge", "lockCode"} => pc = "readUser"
         /\ t.pc = "readUser" => pc = "saveUser"
         /\ t.pc = "saveUser" => pc \in {"mint", "deleteCodes", "revokeAll"}
         /\ t.pc = "saveUser" /\ t.pass => pc \in {"deleteCodes", "revokeAll"}
         /\ t.pc = "deleteCodes" => pc = "revokeAll"
         /\ t.pc = "revokeAll" => pc \in {"mint", "retire"}
         /\ t.pc \notin {"mail", "dropCode", "mint", "rotate", "revoke"}
<1>1. CASE t.pc \in {"insertUser", "retire", "insertCode", "findCode", "judge", "lockCode"}
  BY <1>1 DEF Planned
<1>2. CASE t.pc \in {"readUser", "saveUser", "deleteCodes", "revokeAll"}
  BY <1>2 DEF Planned
<1>3. t.pc \notin {"mail", "dropCode", "mint", "rotate", "revoke"}
  BY DEF Planned
<1>. QED
  BY <1>1, <1>2, <1>3 DEF Planned

-----------------------------------------------------------------------------
(* What a request starts. *)

\* Before anybody signs up there is nothing.
NoneYet == Is("none") => account.pass = 0 /\ codes = <<>> /\ sessions = <<>>

\* Awaits from which a task goes on to store a status it has not read yet.
Rereading == {"insertUser", "findCode", "judge", "lockCode", "readUser"}

\* What a customer began while the account was suspended would leave it so.
Bows(t) == t.late /\ ~t.desk => t.status = "suspended" /\ t.pc \notin Rereading

\* What a request holds when it arrives.
Fresh(t) ==
  /\ t \in Holding /\ Planned(t)
  /\ t.pc \in {"insertUser", "retire", "findCode", "readUser", "saveUser", "rotate", "revoke"}
  /\ t.pc = "insertUser" <=> Is("none")
  /\ t.under = account.pass
  /\ t.status # "none"
  /\ Bows(t)
  /\ t.pc = "rotate" => t.token \in DOMAIN sessions /\ sessions[t.token].live
  /\ t.code = NoCode /\ t.guess \in {NoCode} \cup DOMAIN codes
  /\ t.token \in {0} \cup DOMAIN sessions

LEMMA TodoIs ==
  ASSUME account \in [status : Status, pass : Nat], NEW list \in Seq(Await), list # <<>>,
         NEW t, t = Todo(list)
  PROVE  /\ t \in Holding
         /\ t.pc = Head(list) /\ t.todo = Tail(list) /\ t.status = account.status
         /\ t.under = account.pass /\ ~t.desk /\ ~t.pass /\ (t.late => Is("suspended"))
         /\ t.code = 0 /\ t.guess = 0 /\ t.token = 0
<1>1. Head(list) \in Await /\ Tail(list) \in Seq(Await)
  BY HeadTailProperties
<1>2. PICK late \in BOOLEAN : late = Is("suspended")
  BY DEF Is
<1>3. t = [pc |-> Head(list), todo |-> Tail(list), type |-> "reset", code |-> 0,
           guess |-> 0, seen |-> 0, status |-> account.status, keep |-> TRUE,
           pass |-> FALSE, desk |-> FALSE, late |-> late, token |-> 0,
           under |-> account.pass]
  BY <1>2 DEF Todo, NoCode
<1>4. "reset" \in CodeType
  BY DEF CodeType
<1>5. t \in Holding
  BY <1>1, <1>3, <1>4 DEF Holding
<1>6. t.late = late
  BY <1>3
<1>. QED
  BY <1>2, <1>3, <1>5, <1>6

LEMMA Requests ==
  ASSUME Held, NoneYet, NEW r \in Req, AccountRequest(r)
  PROVE  \E t : Call(r, t) /\ Fresh(t)
<1>0. /\ account \in [status : Status, pass : Nat] /\ account.status \in Status /\ account.pass \in Nat
      /\ codes \in Seq(CodeRow) /\ sessions \in Seq(SessionRow)
      /\ DOMAIN codes \subseteq Nat /\ DOMAIN sessions \subseteq Nat
  BY DEF Held
<1>1. /\ Activated(account.status) \in Status
      /\ Activated(account.status) = "suspended" <=> Is("suspended")
      /\ ~Is("none") => Activated(account.status) # "none"
  BY <1>0 DEF Activated, Status, Is
<1>2. /\ "email" \in CodeType /\ "reset" \in CodeType
      /\ {"none", "pending_verification", "active", "suspended", "inactive"} \subseteq Status
      /\ Typed \subseteq Nat /\ Typed \subseteq {NoCode} \cup DOMAIN codes
  BY <1>0 DEF CodeType, Status, Typed, NoCode
<1>3. account.pass > 0 => ~Is("none")
  BY <1>0 DEF NoneYet
<1>4. CASE Register(r)
  <2>1. Is("none") /\
          Call(r, [Todo(<<"insertUser", "retire", "insertCode", "mail">>) EXCEPT
                     !.type = "email", !.status = "pending_verification", !.pass = TRUE])
    BY <1>4 DEF Register
  <2>2. PICK b : b = Todo(<<"insertUser", "retire", "insertCode", "mail">>)
    OBVIOUS
  <2>a. /\ <<"insertUser", "retire", "insertCode", "mail">> \in Seq(Await) \ {<<>>}
        /\ Head(<<"insertUser", "retire", "insertCode", "mail">>) = "insertUser"
        /\ Tail(<<"insertUser", "retire", "insertCode", "mail">>) = <<"retire", "insertCode", "mail">>
    BY DEF Await
  <2>3. /\ b \in Holding /\ b.pc = "insertUser" /\ b.todo = <<"retire", "insertCode", "mail">>
        /\ b.status = account.status /\ b.under = account.pass /\ ~b.desk /\ ~b.pass
        /\ (b.late => Is("suspended"))
        /\ b.code = 0 /\ b.guess = 0 /\ b.token = 0
    BY <1>0, <2>2, <2>a, TodoIs
  <2>4. PICK t : t = [b EXCEPT !.type = "email", !.status = "pending_verification", !.pass = TRUE]
    OBVIOUS
  <2>5. Call(r, t)
    BY <2>1, <2>2, <2>4
  <2>6. t \in Holding
    BY <1>0, <1>1, <1>2, <2>1, <2>3, <2>4 DEF Holding
  <2>7. /\ t.pc = "insertUser" /\ t.todo = <<"retire", "insertCode", "mail">>
        /\ t.status = "pending_verification" /\ t.under = account.pass
        /\ ~t.desk /\ t.pass /\ t.code = 0 /\ t.guess = 0 /\ t.token = 0 /\ (t.late => Is("suspended"))
    BY <2>3, <2>4 DEF Holding
  <2>8. Planned(t)
    BY <2>7 DEF Planned
  <2>9. Fresh(t)
    BY <1>0, <1>1, <1>2, <1>3, <2>1, <2>6, <2>7, <2>8 DEF Fresh, Bows, Rereading, Is, NoCode
  <2>. QED
    BY <2>5, <2>9
<1>5. CASE AskCode(r)
  <2>1. PICK type \in CodeType : ~Is("none") /\
          Call(r, [Todo(<<"retire", "insertCode", "mail">>) EXCEPT !.type = type])
    BY <1>5 DEF AskCode, SendCode
  <2>2. PICK b : b = Todo(<<"retire", "insertCode", "mail">>)
    OBVIOUS
  <2>a. /\ <<"retire", "insertCode", "mail">> \in Seq(Await) \ {<<>>}
        /\ Head(<<"retire", "insertCode", "mail">>) = "retire"
        /\ Tail(<<"retire", "insertCode", "mail">>) = <<"insertCode", "mail">>
    BY DEF Await
  <2>3. /\ b \in Holding /\ b.pc = "retire" /\ b.todo = <<"insertCode", "mail">>
        /\ b.status = account.status /\ b.under = account.pass /\ ~b.desk /\ ~b.pass
        /\ (b.late => Is("suspended"))
        /\ b.code = 0 /\ b.guess = 0 /\ b.token = 0
    BY <1>0, <2>2, <2>a, TodoIs
  <2>4. PICK t : t = [b EXCEPT !.type = type]
    OBVIOUS
  <2>5. Call(r, t)
    BY <2>1, <2>2, <2>4
  <2>6. t \in Holding
    BY <1>0, <1>1, <1>2, <2>1, <2>3, <2>4 DEF Holding
  <2>7. /\ t.pc = "retire" /\ t.todo = <<"insertCode", "mail">>
        /\ t.status = account.status /\ t.under = account.pass
        /\ ~t.desk /\ ~t.pass /\ t.code = 0 /\ t.guess = 0 /\ t.token = 0 /\ (t.late => Is("suspended"))
    BY <2>3, <2>4 DEF Holding
  <2>8. Planned(t)
    BY <2>7 DEF Planned
  <2>9. Fresh(t)
    BY <1>0, <1>1, <1>2, <1>3, <2>1, <2>6, <2>7, <2>8 DEF Fresh, Bows, Rereading, Is, NoCode
  <2>. QED
    BY <2>5, <2>9
<1>6. CASE VerifyAddress(r)
  <2>1. PICK g \in Typed : ~Is("none") /\ ~Is("suspended") /\
          Call(r, [Todo(<<"findCode", "readUser", "saveUser", "mint">>) EXCEPT
                     !.type = "email", !.guess = g,
                  !.status = Activated(account.status), !.keep = FALSE])
    BY <1>6 DEF VerifyAddress
  <2>2. PICK b : b = Todo(<<"findCode", "readUser", "saveUser", "mint">>)
    OBVIOUS
  <2>a. /\ <<"findCode", "readUser", "saveUser", "mint">> \in Seq(Await) \ {<<>>}
        /\ Head(<<"findCode", "readUser", "saveUser", "mint">>) = "findCode"
        /\ Tail(<<"findCode", "readUser", "saveUser", "mint">>) = <<"readUser", "saveUser", "mint">>
    BY DEF Await
  <2>3. /\ b \in Holding /\ b.pc = "findCode" /\ b.todo = <<"readUser", "saveUser", "mint">>
        /\ b.status = account.status /\ b.under = account.pass /\ ~b.desk /\ ~b.pass
        /\ (b.late => Is("suspended"))
        /\ b.code = 0 /\ b.guess = 0 /\ b.token = 0
    BY <1>0, <2>2, <2>a, TodoIs
  <2>4. PICK t : t = [b EXCEPT !.type = "email", !.guess = g,
                  !.status = Activated(account.status), !.keep = FALSE]
    OBVIOUS
  <2>5. Call(r, t)
    BY <2>1, <2>2, <2>4
  <2>6. t \in Holding
    BY <1>0, <1>1, <1>2, <2>1, <2>3, <2>4 DEF Holding
  <2>7. /\ t.pc = "findCode" /\ t.todo = <<"readUser", "saveUser", "mint">>
        /\ t.status = Activated(account.status) /\ t.under = account.pass
        /\ ~t.desk /\ ~t.pass /\ t.code = 0 /\ t.guess = g /\ t.token = 0 /\ (t.late => Is("suspended"))
    BY <2>3, <2>4 DEF Holding
  <2>8. Planned(t)
    BY <2>7 DEF Planned
  <2>9. Fresh(t)
    BY <1>0, <1>1, <1>2, <1>3, <2>1, <2>6, <2>7, <2>8 DEF Fresh, Bows, Rereading, Is, NoCode
  <2>. QED
    BY <2>5, <2>9
<1>7. CASE ExchangeCode(r)
  <2>1. PICK g \in Typed : ~Is("none") /\ ~Is("suspended") /\ Call(r, [Todo(<<"findCode">>) EXCEPT !.guess = g])
    BY <1>7 DEF ExchangeCode
  <2>2. PICK b : b = Todo(<<"findCode">>)
    OBVIOUS
  <2>a. /\ <<"findCode">> \in Seq(Await) \ {<<>>}
        /\ Head(<<"findCode">>) = "findCode"
        /\ Tail(<<"findCode">>) = <<>>
    BY DEF Await
  <2>3. /\ b \in Holding /\ b.pc = "findCode" /\ b.todo = <<>>
        /\ b.status = account.status /\ b.under = account.pass /\ ~b.desk /\ ~b.pass
        /\ (b.late => Is("suspended"))
        /\ b.code = 0 /\ b.guess = 0 /\ b.token = 0
    BY <1>0, <2>2, <2>a, TodoIs
  <2>4. PICK t : t = [b EXCEPT !.guess = g]
    OBVIOUS
  <2>5. Call(r, t)
    BY <2>1, <2>2, <2>4
  <2>6. t \in Holding
    BY <1>0, <1>1, <1>2, <2>1, <2>3, <2>4 DEF Holding
  <2>7. /\ t.pc = "findCode" /\ t.todo = <<>>
        /\ t.status = account.status /\ t.under = account.pass
        /\ ~t.desk /\ ~t.pass /\ t.code = 0 /\ t.guess = g /\ t.token = 0 /\ (t.late => Is("suspended"))
    BY <2>3, <2>4 DEF Holding
  <2>8. Planned(t)
    BY <2>7 DEF Planned
  <2>9. Fresh(t)
    BY <1>0, <1>1, <1>2, <1>3, <2>1, <2>6, <2>7, <2>8 DEF Fresh, Bows, Rereading, Is, NoCode
  <2>. QED
    BY <2>5, <2>9
<1>8. CASE ResetByCode(r)
  <2>1. PICK g \in Typed : ~Is("none") /\ ~Is("suspended") /\
          Call(r, [Todo(<<"findCode", "readUser", "saveUser", "deleteCodes", "revokeAll">>) EXCEPT
                     !.guess = g, !.pass = TRUE,
                  !.status = Activated(account.status), !.keep = FALSE])
    BY <1>8 DEF ResetByCode
  <2>2. PICK b : b = Todo(<<"findCode", "readUser", "saveUser", "deleteCodes", "revokeAll">>)
    OBVIOUS
  <2>a. /\ <<"findCode", "readUser", "saveUser", "deleteCodes", "revokeAll">> \in Seq(Await) \ {<<>>}
        /\ Head(<<"findCode", "readUser", "saveUser", "deleteCodes", "revokeAll">>) = "findCode"
        /\ Tail(<<"findCode", "readUser", "saveUser", "deleteCodes", "revokeAll">>) = <<"readUser", "saveUser", "deleteCodes", "revokeAll">>
    BY DEF Await
  <2>3. /\ b \in Holding /\ b.pc = "findCode" /\ b.todo = <<"readUser", "saveUser", "deleteCodes", "revokeAll">>
        /\ b.status = account.status /\ b.under = account.pass /\ ~b.desk /\ ~b.pass
        /\ (b.late => Is("suspended"))
        /\ b.code = 0 /\ b.guess = 0 /\ b.token = 0
    BY <1>0, <2>2, <2>a, TodoIs
  <2>4. PICK t : t = [b EXCEPT !.guess = g, !.pass = TRUE,
                  !.status = Activated(account.status), !.keep = FALSE]
    OBVIOUS
  <2>5. Call(r, t)
    BY <2>1, <2>2, <2>4
  <2>6. t \in Holding
    BY <1>0, <1>1, <1>2, <2>1, <2>3, <2>4 DEF Holding
  <2>7. /\ t.pc = "findCode" /\ t.todo = <<"readUser", "saveUser", "deleteCodes", "revokeAll">>
        /\ t.status = Activated(account.status) /\ t.under = account.pass
        /\ ~t.desk /\ t.pass /\ t.code = 0 /\ t.guess = g /\ t.token = 0 /\ (t.late => Is("suspended"))
    BY <2>3, <2>4 DEF Holding
  <2>8. Planned(t)
    BY <2>7 DEF Planned
  <2>9. Fresh(t)
    BY <1>0, <1>1, <1>2, <1>3, <2>1, <2>6, <2>7, <2>8 DEF Fresh, Bows, Rereading, Is, NoCode
  <2>. QED
    BY <2>5, <2>9
<1>9. CASE ResetByToken(r)
  <2>1. (\E i \in Rows("reset") : TRUE) /\ ~Is("suspended") /\
          Call(r, [Todo(<<"readUser", "saveUser", "deleteCodes", "revokeAll">>) EXCEPT
                     !.pass = TRUE, !.status = Activated(account.status), !.keep = FALSE])
    BY <1>9 DEF ResetByToken, NewPassword
  <2>2. ~Is("none")
    BY <2>1 DEF NoneYet, Rows
  <2>3. PICK b : b = Todo(<<"readUser", "saveUser", "deleteCodes", "revokeAll">>)
    OBVIOUS
  <2>a. /\ <<"readUser", "saveUser", "deleteCodes", "revokeAll">> \in Seq(Await) \ {<<>>}
        /\ Head(<<"readUser", "saveUser", "deleteCodes", "revokeAll">>) = "readUser"
        /\ Tail(<<"readUser", "saveUser", "deleteCodes", "revokeAll">>) = <<"saveUser", "deleteCodes", "revokeAll">>
    BY DEF Await
  <2>4. /\ b \in Holding /\ b.pc = "readUser" /\ b.todo = <<"saveUser", "deleteCodes", "revokeAll">>
        /\ b.status = account.status /\ b.under = account.pass /\ ~b.desk /\ ~b.pass
        /\ (b.late => Is("suspended"))
        /\ b.code = 0 /\ b.guess = 0 /\ b.token = 0
    BY <1>0, <2>3, <2>a, TodoIs
  <2>5. PICK t : t = [b EXCEPT !.pass = TRUE, !.status = Activated(account.status), !.keep = FALSE]
    OBVIOUS
  <2>6. Call(r, t)
    BY <2>1, <2>3, <2>5
  <2>7. t \in Holding
    BY <1>0, <1>1, <1>2, <2>1, <2>4, <2>5 DEF Holding
  <2>8. /\ t.pc = "readUser" /\ t.todo = <<"saveUser", "deleteCodes", "revokeAll">>
        /\ t.status = Activated(account.status) /\ t.under = account.pass
        /\ ~t.desk /\ t.pass /\ t.code = 0 /\ t.guess = 0 /\ t.token = 0 /\ (t.late => Is("suspended"))
    BY <2>4, <2>5 DEF Holding
  <2>9. Planned(t)
    BY <2>8 DEF Planned
  <2>10. Fresh(t)
    BY <1>0, <1>1, <1>2, <1>3, <2>1, <2>2, <2>7, <2>8, <2>9 DEF Fresh, Bows, Rereading, Is, NoCode
  <2>. QED
    BY <2>6, <2>10
<1>10. CASE ChangePassword(r)
  <2>1. account.pass > 0 /\ ~Is("suspended") /\
          Call(r, [Todo(<<"readUser", "saveUser", "revokeAll", "mint">>) EXCEPT !.pass = TRUE])
    BY <1>10 DEF ChangePassword
  <2>2. PICK b : b = Todo(<<"readUser", "saveUser", "revokeAll", "mint">>)
    OBVIOUS
  <2>a. /\ <<"readUser", "saveUser", "revokeAll", "mint">> \in Seq(Await) \ {<<>>}
        /\ Head(<<"readUser", "saveUser", "revokeAll", "mint">>) = "readUser"
        /\ Tail(<<"readUser", "saveUser", "revokeAll", "mint">>) = <<"saveUser", "revokeAll", "mint">>
    BY DEF Await
  <2>3. /\ b \in Holding /\ b.pc = "readUser" /\ b.todo = <<"saveUser", "revokeAll", "mint">>
        /\ b.status = account.status /\ b.under = account.pass /\ ~b.desk /\ ~b.pass
        /\ (b.late => Is("suspended"))
        /\ b.code = 0 /\ b.guess = 0 /\ b.token = 0
    BY <1>0, <2>2, <2>a, TodoIs
  <2>4. PICK t : t = [b EXCEPT !.pass = TRUE]
    OBVIOUS
  <2>5. Call(r, t)
    BY <2>1, <2>2, <2>4
  <2>6. t \in Holding
    BY <1>0, <1>1, <1>2, <2>1, <2>3, <2>4 DEF Holding
  <2>7. /\ t.pc = "readUser" /\ t.todo = <<"saveUser", "revokeAll", "mint">>
        /\ t.status = account.status /\ t.under = account.pass
        /\ ~t.desk /\ t.pass /\ t.code = 0 /\ t.guess = 0 /\ t.token = 0 /\ (t.late => Is("suspended"))
    BY <2>3, <2>4 DEF Holding
  <2>8. Planned(t)
    BY <2>7 DEF Planned
  <2>9. Fresh(t)
    BY <1>0, <1>1, <1>2, <1>3, <2>1, <2>6, <2>7, <2>8 DEF Fresh, Bows, Rereading, Is, NoCode
  <2>. QED
    BY <2>5, <2>9
<1>11. CASE Refresh(r)
  <2>1. PICK s \in DOMAIN sessions : sessions[s].live /\
          Call(r, [Todo(<<"rotate">>) EXCEPT !.token = s])
    BY <1>11 DEF Refresh
  <2>2. PICK b : b = Todo(<<"rotate">>)
    OBVIOUS
  <2>a. /\ <<"rotate">> \in Seq(Await) \ {<<>>}
        /\ Head(<<"rotate">>) = "rotate"
        /\ Tail(<<"rotate">>) = <<>>
    BY DEF Await
  <2>3. /\ b \in Holding /\ b.pc = "rotate" /\ b.todo = <<>>
        /\ b.status = account.status /\ b.under = account.pass /\ ~b.desk /\ ~b.pass
        /\ (b.late => Is("suspended"))
        /\ b.code = 0 /\ b.guess = 0 /\ b.token = 0
    BY <1>0, <2>2, <2>a, TodoIs
  <2>4. PICK t : t = [b EXCEPT !.token = s]
    OBVIOUS
  <2>5. Call(r, t)
    BY <2>1, <2>2, <2>4
  <2>6. t \in Holding
    BY <1>0, <1>1, <1>2, <2>1, <2>3, <2>4 DEF Holding
  <2>7. /\ t.pc = "rotate" /\ t.todo = <<>>
        /\ t.status = account.status /\ t.under = account.pass
        /\ ~t.desk /\ ~t.pass /\ t.code = 0 /\ t.guess = 0 /\ t.token = s /\ (t.late => Is("suspended"))
    BY <2>3, <2>4 DEF Holding
  <2>8. Planned(t)
    BY <2>7 DEF Planned
  <2>9. ~Is("none")
    BY <1>0, <2>1 DEF NoneYet
  <2>10. Fresh(t)
    BY <1>0, <1>1, <1>2, <1>3, <2>9, <2>1, <2>6, <2>7, <2>8 DEF Fresh, Bows, Rereading, Is, NoCode
  <2>. QED
    BY <2>5, <2>10
<1>12. CASE Logout(r)
  <2>1. PICK s \in DOMAIN sessions : sessions[s].live /\
          Call(r, [Todo(<<"revoke">>) EXCEPT !.token = s])
    BY <1>12 DEF Logout
  <2>2. PICK b : b = Todo(<<"revoke">>)
    OBVIOUS
  <2>a. /\ <<"revoke">> \in Seq(Await) \ {<<>>}
        /\ Head(<<"revoke">>) = "revoke"
        /\ Tail(<<"revoke">>) = <<>>
    BY DEF Await
  <2>3. /\ b \in Holding /\ b.pc = "revoke" /\ b.todo = <<>>
        /\ b.status = account.status /\ b.under = account.pass /\ ~b.desk /\ ~b.pass
        /\ (b.late => Is("suspended"))
        /\ b.code = 0 /\ b.guess = 0 /\ b.token = 0
    BY <1>0, <2>2, <2>a, TodoIs
  <2>4. PICK t : t = [b EXCEPT !.token = s]
    OBVIOUS
  <2>5. Call(r, t)
    BY <2>1, <2>2, <2>4
  <2>6. t \in Holding
    BY <1>0, <1>1, <1>2, <2>1, <2>3, <2>4 DEF Holding
  <2>7. /\ t.pc = "revoke" /\ t.todo = <<>>
        /\ t.status = account.status /\ t.under = account.pass
        /\ ~t.desk /\ ~t.pass /\ t.code = 0 /\ t.guess = 0 /\ t.token = s /\ (t.late => Is("suspended"))
    BY <2>3, <2>4 DEF Holding
  <2>8. Planned(t)
    BY <2>7 DEF Planned
  <2>9. ~Is("none")
    BY <1>0, <2>1 DEF NoneYet
  <2>10. Fresh(t)
    BY <1>0, <1>1, <1>2, <1>3, <2>9, <2>1, <2>6, <2>7, <2>8 DEF Fresh, Bows, Rereading, Is, NoCode
  <2>. QED
    BY <2>5, <2>10
<1>13. CASE Toggle(r)
  <2>1. ~Is("none") /\
          Call(r, [Todo(<<"saveUser">>) EXCEPT
                     !.status = IF Is("active") THEN "suspended" ELSE "active", !.desk = TRUE])
    BY <1>13 DEF Toggle
  <2>2. PICK b : b = Todo(<<"saveUser">>)
    OBVIOUS
  <2>a. /\ <<"saveUser">> \in Seq(Await) \ {<<>>}
        /\ Head(<<"saveUser">>) = "saveUser"
        /\ Tail(<<"saveUser">>) = <<>>
    BY DEF Await
  <2>3. /\ b \in Holding /\ b.pc = "saveUser" /\ b.todo = <<>>
        /\ b.status = account.status /\ b.under = account.pass /\ ~b.desk /\ ~b.pass
        /\ (b.late => Is("suspended"))
        /\ b.code = 0 /\ b.guess = 0 /\ b.token = 0
    BY <1>0, <2>2, <2>a, TodoIs
  <2>4. PICK t : t = [b EXCEPT !.status = IF Is("active") THEN "suspended" ELSE "active", !.desk = TRUE]
    OBVIOUS
  <2>5. Call(r, t)
    BY <2>1, <2>2, <2>4
  <2>6. t \in Holding
    BY <1>0, <1>1, <1>2, <2>1, <2>3, <2>4 DEF Holding
  <2>7. /\ t.pc = "saveUser" /\ t.todo = <<>>
        /\ t.status = (IF Is("active") THEN "suspended" ELSE "active") /\ t.under = account.pass
        /\ t.desk /\ ~t.pass /\ t.code = 0 /\ t.guess = 0 /\ t.token = 0
    BY <2>3, <2>4 DEF Holding
  <2>8. Planned(t)
    BY <2>7 DEF Planned
  <2>9. Fresh(t)
    BY <1>0, <1>1, <1>2, <1>3, <2>1, <2>6, <2>7, <2>8 DEF Fresh, Bows, Rereading, Is, NoCode
  <2>. QED
    BY <2>5, <2>9
<1>14. CASE SoftDelete(r)
  <2>1. ~Is("none") /\
          Call(r, [Todo(<<"saveUser">>) EXCEPT !.status = "inactive", !.desk = TRUE])
    BY <1>14 DEF SoftDelete
  <2>2. PICK b : b = Todo(<<"saveUser">>)
    OBVIOUS
  <2>a. /\ <<"saveUser">> \in Seq(Await) \ {<<>>}
        /\ Head(<<"saveUser">>) = "saveUser"
        /\ Tail(<<"saveUser">>) = <<>>
    BY DEF Await
  <2>3. /\ b \in Holding /\ b.pc = "saveUser" /\ b.todo = <<>>
        /\ b.status = account.status /\ b.under = account.pass /\ ~b.desk /\ ~b.pass
        /\ (b.late => Is("suspended"))
        /\ b.code = 0 /\ b.guess = 0 /\ b.token = 0
    BY <1>0, <2>2, <2>a, TodoIs
  <2>4. PICK t : t = [b EXCEPT !.status = "inactive", !.desk = TRUE]
    OBVIOUS
  <2>5. Call(r, t)
    BY <2>1, <2>2, <2>4
  <2>6. t \in Holding
    BY <1>0, <1>1, <1>2, <2>1, <2>3, <2>4 DEF Holding
  <2>7. /\ t.pc = "saveUser" /\ t.todo = <<>>
        /\ t.status = "inactive" /\ t.under = account.pass
        /\ t.desk /\ ~t.pass /\ t.code = 0 /\ t.guess = 0 /\ t.token = 0
    BY <2>3, <2>4 DEF Holding
  <2>8. Planned(t)
    BY <2>7 DEF Planned
  <2>9. Fresh(t)
    BY <1>0, <1>1, <1>2, <1>3, <2>1, <2>6, <2>7, <2>8 DEF Fresh, Bows, Rereading, Is, NoCode
  <2>. QED
    BY <2>5, <2>9
<1>15. CASE AdminResetPassword(r)
  <2>1. ~Is("none") /\
          Call(r, [Todo(<<"saveUser", "revokeAll", "retire">>) EXCEPT
                     !.pass = TRUE, !.desk = TRUE])
    BY <1>15 DEF AdminResetPassword
  <2>2. PICK b : b = Todo(<<"saveUser", "revokeAll", "retire">>)
    OBVIOUS
  <2>a. /\ <<"saveUser", "revokeAll", "retire">> \in Seq(Await) \ {<<>>}
        /\ Head(<<"saveUser", "revokeAll", "retire">>) = "saveUser"
        /\ Tail(<<"saveUser", "revokeAll", "retire">>) = <<"revokeAll", "retire">>
    BY DEF Await
  <2>3. /\ b \in Holding /\ b.pc = "saveUser" /\ b.todo = <<"revokeAll", "retire">>
        /\ b.status = account.status /\ b.under = account.pass /\ ~b.desk /\ ~b.pass
        /\ (b.late => Is("suspended"))
        /\ b.code = 0 /\ b.guess = 0 /\ b.token = 0
    BY <1>0, <2>2, <2>a, TodoIs
  <2>4. PICK t : t = [b EXCEPT !.pass = TRUE, !.desk = TRUE]
    OBVIOUS
  <2>5. Call(r, t)
    BY <2>1, <2>2, <2>4
  <2>6. t \in Holding
    BY <1>0, <1>1, <1>2, <2>1, <2>3, <2>4 DEF Holding
  <2>7. /\ t.pc = "saveUser" /\ t.todo = <<"revokeAll", "retire">>
        /\ t.status = account.status /\ t.under = account.pass
        /\ t.desk /\ t.pass /\ t.code = 0 /\ t.guess = 0 /\ t.token = 0
    BY <2>3, <2>4 DEF Holding
  <2>8. Planned(t)
    BY <2>7 DEF Planned
  <2>9. Fresh(t)
    BY <1>0, <1>1, <1>2, <1>3, <2>1, <2>6, <2>7, <2>8 DEF Fresh, Bows, Rereading, Is, NoCode
  <2>. QED
    BY <2>5, <2>9
<1>16. CASE EditProfile(r)
  <2>1. ~Is("none") /\ Call(r, Todo(<<"saveUser">>))
    BY <1>16 DEF EditProfile
  <2>2. PICK b : b = Todo(<<"saveUser">>)
    OBVIOUS
  <2>a. /\ <<"saveUser">> \in Seq(Await) \ {<<>>}
        /\ Head(<<"saveUser">>) = "saveUser"
        /\ Tail(<<"saveUser">>) = <<>>
    BY DEF Await
  <2>3. /\ b \in Holding /\ b.pc = "saveUser" /\ b.todo = <<>>
        /\ b.status = account.status /\ b.under = account.pass /\ ~b.desk /\ ~b.pass
        /\ (b.late => Is("suspended"))
        /\ b.code = 0 /\ b.guess = 0 /\ b.token = 0
    BY <1>0, <2>2, <2>a, TodoIs
  <2>4. Call(r, b)
    BY <2>1, <2>2
  <2>5. Planned(b)
    BY <2>3 DEF Planned
  <2>6. Fresh(b)
    BY <1>0, <1>1, <1>2, <1>3, <2>1, <2>3, <2>5 DEF Fresh, Bows, Rereading, Is, NoCode
  <2>. QED
    BY <2>4, <2>6
<1>17. CASE Login(r) /\ Is("pending_verification")
  <2>1. account.pass > 0 /\
          Call(r, [Todo(<<"retire", "insertCode", "mail">>) EXCEPT !.type = "email"])
    BY <1>17 DEF Login, SendCode
  <2>2. PICK b : b = Todo(<<"retire", "insertCode", "mail">>)
    OBVIOUS
  <2>a. /\ <<"retire", "insertCode", "mail">> \in Seq(Await) \ {<<>>}
        /\ Head(<<"retire", "insertCode", "mail">>) = "retire"
        /\ Tail(<<"retire", "insertCode", "mail">>) = <<"insertCode", "mail">>
    BY DEF Await
  <2>3. /\ b \in Holding /\ b.pc = "retire" /\ b.todo = <<"insertCode", "mail">>
        /\ b.status = account.status /\ b.under = account.pass /\ ~b.desk /\ ~b.pass
        /\ (b.late => Is("suspended"))
        /\ b.code = 0 /\ b.guess = 0 /\ b.token = 0
    BY <1>0, <2>2, <2>a, TodoIs
  <2>4. PICK t : t = [b EXCEPT !.type = "email"]
    OBVIOUS
  <2>5. Call(r, t)
    BY <2>1, <2>2, <2>4
  <2>6. t \in Holding
    BY <1>0, <1>1, <1>2, <2>1, <2>3, <2>4 DEF Holding
  <2>7. /\ t.pc = "retire" /\ t.todo = <<"insertCode", "mail">>
        /\ t.status = account.status /\ t.under = account.pass
        /\ ~t.desk /\ ~t.pass /\ t.code = 0 /\ t.guess = 0 /\ t.token = 0 /\ (t.late => Is("suspended"))
    BY <2>3, <2>4 DEF Holding
  <2>8. Planned(t)
    BY <2>7 DEF Planned
  <2>9. Fresh(t)
    BY <1>0, <1>1, <1>2, <1>3, <2>1, <2>6, <2>7, <2>8 DEF Fresh, Bows, Rereading, Is, NoCode
  <2>. QED
    BY <2>5, <2>9
<1>18. CASE Login(r) /\ ~Is("pending_verification")
  <2>1. account.pass > 0 /\ ~Is("suspended") /\ Call(r, Todo(<<"readUser", "saveUser", "mint">>))
    BY <1>18 DEF Login, Enter
  <2>2. PICK b : b = Todo(<<"readUser", "saveUser", "mint">>)
    OBVIOUS
  <2>a. /\ <<"readUser", "saveUser", "mint">> \in Seq(Await) \ {<<>>}
        /\ Head(<<"readUser", "saveUser", "mint">>) = "readUser"
        /\ Tail(<<"readUser", "saveUser", "mint">>) = <<"saveUser", "mint">>
    BY DEF Await
  <2>3. /\ b \in Holding /\ b.pc = "readUser" /\ b.todo = <<"saveUser", "mint">>
        /\ b.status = account.status /\ b.under = account.pass /\ ~b.desk /\ ~b.pass
        /\ (b.late => Is("suspended"))
        /\ b.code = 0 /\ b.guess = 0 /\ b.token = 0
    BY <1>0, <2>2, <2>a, TodoIs
  <2>4. Call(r, b)
    BY <2>1, <2>2
  <2>5. Planned(b)
    BY <2>3 DEF Planned
  <2>6. Fresh(b)
    BY <1>0, <1>1, <1>2, <1>3, <2>1, <2>3, <2>5 DEF Fresh, Bows, Rereading, Is, NoCode
  <2>. QED
    BY <2>4, <2>6
<1>19. CASE SocialLogin(r) /\ Is("none")
  <2>1. Is("none") /\ Call(r, [Todo(<<"insertUser", "mint">>) EXCEPT !.status = "active"])
    BY <1>19 DEF SocialLogin
  <2>2. PICK b : b = Todo(<<"insertUser", "mint">>)
    OBVIOUS
  <2>a. /\ <<"insertUser", "mint">> \in Seq(Await) \ {<<>>}
        /\ Head(<<"insertUser", "mint">>) = "insertUser"
        /\ Tail(<<"insertUser", "mint">>) = <<"mint">>
    BY DEF Await
  <2>3. /\ b \in Holding /\ b.pc = "insertUser" /\ b.todo = <<"mint">>
        /\ b.status = account.status /\ b.under = account.pass /\ ~b.desk /\ ~b.pass
        /\ (b.late => Is("suspended"))
        /\ b.code = 0 /\ b.guess = 0 /\ b.token = 0
    BY <1>0, <2>2, <2>a, TodoIs
  <2>4. PICK t : t = [b EXCEPT !.status = "active"]
    OBVIOUS
  <2>5. Call(r, t)
    BY <2>1, <2>2, <2>4
  <2>6. t \in Holding
    BY <1>0, <1>1, <1>2, <2>1, <2>3, <2>4 DEF Holding
  <2>7. /\ t.pc = "insertUser" /\ t.todo = <<"mint">>
        /\ t.status = "active" /\ t.under = account.pass
        /\ ~t.desk /\ ~t.pass /\ t.code = 0 /\ t.guess = 0 /\ t.token = 0 /\ (t.late => Is("suspended"))
    BY <2>3, <2>4 DEF Holding
  <2>8. Planned(t)
    BY <2>7 DEF Planned
  <2>9. Fresh(t)
    BY <1>0, <1>1, <1>2, <1>3, <2>1, <2>6, <2>7, <2>8 DEF Fresh, Bows, Rereading, Is, NoCode
  <2>. QED
    BY <2>5, <2>9
<1>20. CASE SocialLogin(r) /\ ~Is("none")
  <2>1. ~Is("none") /\ ~Is("suspended") /\
          Call(r, [Todo(<<"readUser", "saveUser", "mint">>) EXCEPT
                     !.status = Activated(account.status),
                     !.keep = ~Is("pending_verification")])
    BY <1>20 DEF SocialLogin, Enter
  <2>2. PICK b : b = Todo(<<"readUser", "saveUser", "mint">>)
    OBVIOUS
  <2>a. /\ <<"readUser", "saveUser", "mint">> \in Seq(Await) \ {<<>>}
        /\ Head(<<"readUser", "saveUser", "mint">>) = "readUser"
        /\ Tail(<<"readUser", "saveUser", "mint">>) = <<"saveUser", "mint">>
    BY DEF Await
  <2>3. /\ b \in Holding /\ b.pc = "readUser" /\ b.todo = <<"saveUser", "mint">>
        /\ b.status = account.status /\ b.under = account.pass /\ ~b.desk /\ ~b.pass
        /\ (b.late => Is("suspended"))
        /\ b.code = 0 /\ b.guess = 0 /\ b.token = 0
    BY <1>0, <2>2, <2>a, TodoIs
  <2>4. PICK t : t = [b EXCEPT !.status = Activated(account.status),
                     !.keep = ~Is("pending_verification")]
    OBVIOUS
  <2>5. Call(r, t)
    BY <2>1, <2>2, <2>4
  <2>6. t \in Holding
    BY <1>0, <1>1, <1>2, <2>1, <2>3, <2>4 DEF Holding
  <2>7. /\ t.pc = "readUser" /\ t.todo = <<"saveUser", "mint">>
        /\ t.status = Activated(account.status) /\ t.under = account.pass
        /\ ~t.desk /\ ~t.pass /\ t.code = 0 /\ t.guess = 0 /\ t.token = 0 /\ (t.late => Is("suspended"))
    BY <2>3, <2>4 DEF Holding
  <2>8. Planned(t)
    BY <2>7 DEF Planned
  <2>9. Fresh(t)
    BY <1>0, <1>1, <1>2, <1>3, <2>1, <2>6, <2>7, <2>8 DEF Fresh, Bows, Rereading, Is, NoCode
  <2>. QED
    BY <2>5, <2>9
<1>. QED
  BY <1>4, <1>5, <1>6, <1>7, <1>8, <1>9, <1>10, <1>11, <1>12, <1>13, <1>14, <1>15, <1>16, <1>17, <1>18, <1>19, <1>20
     DEF AccountRequest, CodeRequest

-----------------------------------------------------------------------------
(* What an await leads to. *)

\* What a task may learn on the way from x to u ...
Learns(x, u) ==
  /\ u.type = x.type /\ u.guess = x.guess /\ u.pass = x.pass /\ u.desk = x.desk
  /\ u.late = x.late /\ u.token = x.token
  /\ IF x.pc = "readUser" THEN u.status \in {x.status, account.status} ELSE u.status = x.status
  /\ u.under = IF x.pc = "saveUser" /\ x.pass THEN account.pass + 1 ELSE x.under
  /\ x.pc \notin {"insertCode", "findCode"} => u.code = x.code
  /\ x.pc = "insertCode" => u.code = Len(codes')
  /\ x.pc = "findCode" => /\ u.code \in DOMAIN codes
                          /\ u.pc = "judge" => codes[u.code].tries < MaxTries

\* ... and where it may go.
Leads(x, u) ==
  \/ x.pc = "insertUser" /\ u.pc \in {"retire", "mint"} /\ (x.pass => u.pc # "mint")
  \/ x.pc = "retire" /\ u.pc = "insertCode"
  \/ x.pc = "insertCode" /\ u.pc = "mail"
  \/ x.pc = "mail" /\ u.pc = "dropCode"
  \/ x.pc = "findCode" /\ u.pc \in {"judge", "lockCode"}
  \/ x.pc = "judge" /\ u.pc = "readUser"
  \/ x.pc = "readUser" /\ u.pc = "saveUser"
  \/ x.pc = "saveUser" /\ u.pc \in {"mint", "deleteCodes", "revokeAll"} /\ (x.pass => u.pc # "mint")
  \/ x.pc = "deleteCodes" /\ u.pc = "revokeAll"
  \/ x.pc = "revokeAll" /\ u.pc \in {"mint", "retire"}

\* Where it may not stop.
Ends(x) == x.pc \notin {"insertCode", "deleteCodes"} /\ ~(x.pc = "saveUser" /\ x.pass)

\* A step of a task: it is over, or has more to do.
StepsTo(r, u) ==
  /\ u \in Holding \cup {Idle}
  /\ task' = [task EXCEPT ![r] = u] /\ UNCHANGED <<started, fails, alone>>
  /\ IF u = Idle THEN Ends(task[r])
     ELSE Planned(u) /\ Learns(task[r], u) /\ Leads(task[r], u)

LEMMA FinishSteps ==
  ASSUME NEW r \in Req, Finish(r), Ends(task[r])
  PROVE  StepsTo(r, Idle)
BY DEF Finish, Resume, StepsTo

\* One that goes on with what it learnt.
LEMMA ProceedSteps ==
  ASSUME NEW r \in Req, NEW x, x = task[r], NEW t \in Holding, Planned(t), Proceed(r, t),
         t.pc = x.pc, t.pass = x.pass, x.pc \notin {"findCode", "lockCode"}, Learns(x, t)
  PROVE  \E u : StepsTo(r, u)
<1>1. CASE t.todo = <<>> /\ task' = [task EXCEPT ![r] = Idle]
  <2>1. Ends(x)
    BY <1>1 DEF Planned, Ends
  <2>2. UNCHANGED <<started, fails, alone>>
    BY Proceeds
  <2>. QED
    BY <1>1, <2>1, <2>2 DEF StepsTo
<1>2. CASE \E u \in Holding :
             /\ task' = [task EXCEPT ![r] = u] /\ Planned(u) /\ Further(t, u)
             /\ t.todo # <<>> /\ u.pc = Head(t.todo) /\ u.todo = Tail(t.todo)
  <2>1. PICK u \in Holding :
             /\ task' = [task EXCEPT ![r] = u] /\ Planned(u) /\ Further(t, u)
             /\ t.todo # <<>> /\ u.pc = Head(t.todo) /\ u.todo = Tail(t.todo)
    BY <1>2
  <2>2. Leads(x, u)
    <3>1. /\ t.pc = "insertUser" => u.pc \in {"retire", "mint"} /\ (t.pass => u.pc # "mint")
          /\ t.pc = "retire" => u.pc = "insertCode"
          /\ t.pc = "insertCode" => u.pc = "mail"
          /\ t.pc = "judge" => u.pc = "readUser"
          /\ t.pc = "readUser" => u.pc = "saveUser"
          /\ t.pc = "saveUser" => /\ u.pc \in {"mint", "deleteCodes", "revokeAll"}
                                  /\ t.pass => u.pc # "mint"
          /\ t.pc = "deleteCodes" => u.pc = "revokeAll"
          /\ t.pc = "revokeAll" => u.pc \in {"mint", "retire"}
          /\ t.pc \notin {"mail", "dropCode", "mint", "rotate", "revoke"}
      BY <2>1, Ahead
    <3>2. t.pc \in {"insertUser", "retire", "insertCode", "mail", "dropCode", "mint", "rotate",
                   "revoke", "findCode", "judge", "lockCode", "readUser", "saveUser",
                   "deleteCodes", "revokeAll"}
      BY DEF Planned
    <3>. QED
      BY <3>1, <3>2 DEF Leads
  <2>3. Learns(x, u)
    BY <2>1 DEF Learns, Further
  <2>4. UNCHANGED <<started, fails, alone>>
    BY Proceeds
  <2>. QED
    BY <2>1, <2>2, <2>3, <2>4, IdleIs DEF StepsTo
<1>. QED
  BY <1>1, <1>2, Proceeds

LEMMA StepTask ==
  ASSUME Held, NEW r \in Req, CodeStep(r) \/ AccountStep(r)
  PROVE  \E u : StepsTo(r, u)
<1>. DEFINE x == task[r]
<1>0. Busy(r) /\ x \in Holding /\ Planned(x)
  <2>1. x.pc # "idle"
    BY DEF CodeStep, Retire, InsertCode, Mail, DropCode, FindCode, LockCode, Judge,
           AccountStep, InsertUser, ReadUser, SaveUser, DeleteCodes, RevokeAll, Mint, Rotate,
           Revoke, At
  <2>. QED
    BY <2>1, HeldBusy
<1>1. x.pc \notin {"readUser", "insertCode", "findCode"} /\ (x.pc = "saveUser" => ~x.pass)
        => Learns(x, x)
  BY DEF Learns
<1>2. CASE /\ x.pc \in {"insertUser", "dropCode", "findCode", "lockCode", "judge", "rotate", "revoke"}
           /\ Finish(r)
  BY <1>2, FinishSteps DEF Ends
<1>3. CASE /\ x.pc \in {"insertUser", "retire", "mail", "judge", "deleteCodes", "revokeAll", "mint"}
           /\ Proceed(r, x)
  BY <1>0, <1>1, <1>3, ProceedSteps
<1>4. CASE InsertCode(r)
  <2>1. PICK t : t = [x EXCEPT !.code = Len(codes')]
    OBVIOUS
  <2>2. Proceed(r, t) /\ x.pc = "insertCode"
    BY <1>4, <2>1 DEF InsertCode, At
  <2>3. Len(codes') \in Nat
    <3>1. [type |-> x.type, state |-> "live", tries |-> 0,
           age |-> "new", mailed |-> FALSE, wrong |-> 0] \in CodeRow
      BY <1>0 DEF Holding, CodeRow
    <3>. QED
      BY <1>4, <3>1, AppendProperties, LenProperties DEF InsertCode, Held
  <2>4. t \in Holding
    BY <1>0, <2>1, <2>3 DEF Holding
  <2>5. t.pc = x.pc /\ t.todo = x.todo /\ t.pass = x.pass /\ Learns(x, t)
    BY <1>0, <2>1, <2>2 DEF Holding, Learns
  <2>6. Planned(t)
    BY <1>0, <2>5 DEF Planned
  <2>. QED
    BY <2>2, <2>4, <2>5, <2>6, ProceedSteps
<1>5. CASE Mail(r) /\ Resume(r, [x EXCEPT !.pc = "dropCode"])
  <2>1. PICK u : u = [x EXCEPT !.pc = "dropCode"]
    OBVIOUS
  <2>2. Resume(r, u) /\ x.pc = "mail"
    BY <1>5, <2>1 DEF Mail, At
  <2>3. u \in Holding
    BY <1>0, <2>1 DEF Holding, Await
  <2>4. u.pc = "dropCode" /\ u.todo = x.todo /\ Learns(x, u)
    BY <1>0, <2>1, <2>2 DEF Holding, Learns
  <2>5. Planned(u) /\ Leads(x, u)
    BY <1>0, <2>2, <2>4 DEF Planned, Leads
  <2>. QED
    BY <2>2, <2>3, <2>4, <2>5, IdleIs DEF StepsTo, Resume
<1>6. CASE FindCode(r) /\ ~Finish(r)
  <2>1. PICK i \in Valid(x.type) :
          Resume(r, [x EXCEPT !.code = i,
                       !.pc = IF codes[i].tries >= MaxTries THEN "lockCode" ELSE "judge",
                       !.seen = codes[i].tries])
    BY <1>6 DEF FindCode
  <2>2. PICK u : u = [x EXCEPT !.code = i,
                       !.pc = IF codes[i].tries >= MaxTries THEN "lockCode" ELSE "judge",
                       !.seen = codes[i].tries]
    OBVIOUS
  <2>3. Resume(r, u) /\ x.pc = "findCode"
    BY <1>6, <2>1, <2>2 DEF FindCode, At
  <2>4. i \in DOMAIN codes /\ i \in Nat /\ codes[i].tries \in Nat /\ MaxTries \in Nat
    <3>1. i \in DOMAIN codes
      BY <2>1 DEF Valid, Unused, Rows
    <3>2. i \in Nat /\ codes[i] \in CodeRow
      BY <3>1 DEF Held
    <3>. QED
      BY <3>1, <3>2, CodesAssumption DEF CodeRow
  <2>5. u \in Holding
    BY <1>0, <2>2, <2>4 DEF Holding, Await
  <2>6. /\ u.pc = IF codes[i].tries >= MaxTries THEN "lockCode" ELSE "judge"
        /\ u.code = i /\ u.todo = x.todo /\ u.pass = x.pass
    BY <1>0, <2>2 DEF Holding
  <2>7. Learns(x, u)
    BY <1>0, <2>2, <2>3, <2>4, <2>6 DEF Holding, Learns
  <2>8. Planned(u) /\ Leads(x, u)
    BY <1>0, <2>3, <2>6 DEF Planned, Leads
  <2>. QED
    BY <2>3, <2>5, <2>7, <2>8, IdleIs DEF StepsTo, Resume
<1>7. CASE ReadUser(r)
  <2>1. PICK t : t = [x EXCEPT !.status = IF x.keep THEN account.status ELSE x.status]
    OBVIOUS
  <2>2. Proceed(r, t) /\ x.pc = "readUser"
    BY <1>7, <2>1 DEF ReadUser, At
  <2>3. t \in Holding
    BY <1>0, <2>1 DEF Holding, Held
  <2>4. t.pc = x.pc /\ t.todo = x.todo /\ t.pass = x.pass /\ Learns(x, t)
    BY <1>0, <2>1, <2>2 DEF Holding, Learns
  <2>5. Planned(t)
    BY <1>0, <2>4 DEF Planned
  <2>. QED
    BY <2>2, <2>3, <2>4, <2>5, ProceedSteps
<1>8. CASE SaveUser(r)
  <2>1. PICK t : t = [x EXCEPT !.under = IF x.pass THEN account.pass + 1 ELSE x.under]
    OBVIOUS
  <2>2. Proceed(r, t) /\ x.pc = "saveUser"
    BY <1>8, <2>1 DEF SaveUser, At
  <2>6. account.pass \in Nat /\ x.under \in Nat
    BY <1>0 DEF Holding, Held
  <2>7. (IF x.pass THEN account.pass + 1 ELSE x.under) \in Nat
    BY <2>6
  <2>3. t \in Holding
    BY <1>0, <2>1, <2>7 DEF Holding
  <2>4. t.pc = x.pc /\ t.todo = x.todo /\ t.pass = x.pass /\ Learns(x, t)
    BY <1>0, <2>1, <2>2 DEF Holding, Learns
  <2>5. Planned(t)
    BY <1>0, <2>4 DEF Planned
  <2>. QED
    BY <2>2, <2>3, <2>4, <2>5, ProceedSteps
<1>9. CASE CodeStep(r)
  BY <1>2, <1>3, <1>4, <1>5, <1>6, <1>9
     DEF CodeStep, Retire, Mail, DropCode, FindCode, LockCode, Judge, At
<1>10. CASE AccountStep(r)
  BY <1>2, <1>3, <1>7, <1>8, <1>10
     DEF AccountStep, InsertUser, DeleteCodes, RevokeAll, Mint, Rotate, Revoke, At
<1>. QED
  BY <1>9, <1>10

-----------------------------------------------------------------------------
(* What a step does to the codes. *)

LEMMA Retyped ==
  ASSUME NEW S, NEW s \in Seq(S), NEW t, t = [i \in DOMAIN s |-> t[i]],
         \A i \in DOMAIN s : t[i] \in S
  PROVE  t \in Seq(S) /\ Len(t) = Len(s) /\ DOMAIN t = DOMAIN s
<1>1. DOMAIN s = 1 .. Len(s) /\ Len(s) \in Nat
  BY LenProperties
<1>2. t \in [1 .. Len(s) -> S]
  BY <1>1
<1>3. t \in Seq(S)
  BY <1>1, <1>2, IsASeq
<1>. QED
  BY <1>1, <1>2, <1>3, LenProperties

\* A code does not come to life again, nor back; nor is its mail taken back.
Softer(a, b) ==
  /\ b \in CodeRow /\ b.type = a.type
  /\ b.state = "live" => a.state = "live"
  /\ a.state = "gone" => b.state = "gone"
  /\ a.mailed => b.mailed

SameCount(a, b) == b.tries = a.tries /\ b.wrong = a.wrong

\* One more code, or each goes its way.
Tame ==
  /\ codes' = [i \in DOMAIN codes |-> codes'[i]]
  /\ \A i \in DOMAIN codes : Softer(codes[i], codes'[i])

LEMMA StateSofter ==
  ASSUME NEW a \in CodeRow, NEW s \in {"retired", "redeemed", "gone"}, a.state # "gone" \/ s = "gone"
  PROVE  Softer(a, [a EXCEPT !.state = s]) /\ SameCount(a, [a EXCEPT !.state = s])
BY DEF CodeRow, Softer, SameCount

LEMMA Untouched == \A a \in CodeRow : Softer(a, a) /\ SameCount(a, a)
BY DEF Softer, SameCount

LEMMA OneSofter ==
  ASSUME Held, NEW c, NEW b, codes' = [codes EXCEPT ![c] = b],
         c \in DOMAIN codes => Softer(codes[c], b)
  PROVE  Tame /\ \A i \in DOMAIN codes : i # c => SameCount(codes[i], codes'[i])
<1>1. \A i \in DOMAIN codes : codes[i] \in CodeRow
  BY DEF Held
<1>2. \A i \in DOMAIN codes : codes'[i] = IF i = c THEN b ELSE codes[i]
  OBVIOUS
<1>. QED
  BY <1>1, <1>2, Untouched DEF Tame

\* Some codes pass to a state, together.
LEMMA SomeSofter ==
  ASSUME Held, NEW S, NEW s \in {"retired", "gone"},
         codes' = [i \in DOMAIN codes |->
                    IF i \in S THEN [codes[i] EXCEPT !.state = s] ELSE codes[i]],
         \A i \in S : s = "gone" \/ (i \in DOMAIN codes /\ codes[i].state # "gone")
  PROVE  Tame /\ \A i \in DOMAIN codes : SameCount(codes[i], codes'[i])
<1>2. ASSUME NEW i \in DOMAIN codes
      PROVE  Softer(codes[i], codes'[i]) /\ SameCount(codes[i], codes'[i])
  <2>1. PICK a \in CodeRow : a = codes[i]
    BY DEF Held
  <2>2. CASE i \in S
    <3>1. codes'[i] = [a EXCEPT !.state = s] /\ (a.state # "gone" \/ s = "gone")
      BY <2>1, <2>2
    <3>2. Softer(a, [a EXCEPT !.state = s]) /\ SameCount(a, [a EXCEPT !.state = s])
      BY <3>1, StateSofter, ZenonT(30)
    <3>. QED
      BY <2>1, <3>1, <3>2
  <2>3. CASE i \notin S
    BY <2>1, <2>3, Untouched
  <2>. QED
    BY <2>2, <2>3
<1>. QED
  BY <1>2 DEF Tame

\* A wrong guess is counted, twice over: in the row and in the history.
LEMMA Counts ==
  ASSUME Held, NEW r \in Req, codes' = Count(r)
  PROVE  /\ Tame
         /\ \A i \in DOMAIN codes :
              IF i = task[r].code
              THEN codes'[i].tries = codes[i].tries + 1 /\ codes'[i].wrong = codes[i].wrong + 1
              ELSE SameCount(codes[i], codes'[i])
<1>. DEFINE c == task[r].code
<1>1. codes' = [codes EXCEPT ![c].tries = codes[c].tries + 1, ![c].wrong = codes[c].wrong + 1]
  BY DEF Count
<1>. HIDE DEF c
<1>2. ASSUME c \in DOMAIN codes
      PROVE  codes'[c] = [codes[c] EXCEPT !.tries = codes[c].tries + 1, !.wrong = codes[c].wrong + 1]
  BY <1>1, <1>2
<1>3. \A i \in DOMAIN codes : i # c => codes'[i] = codes[i]
  BY <1>1
<1>4. codes' = [i \in DOMAIN codes |-> codes'[i]]
  BY <1>1
<1>5. ASSUME c \in DOMAIN codes
      PROVE  /\ Softer(codes[c], codes'[c])
             /\ codes'[c].tries = codes[c].tries + 1 /\ codes'[c].wrong = codes[c].wrong + 1
  <2>1. PICK a \in CodeRow : a = codes[c]
    BY <1>5 DEF Held
  <2>2. codes'[c] = [a EXCEPT !.tries = a.tries + 1, !.wrong = a.wrong + 1]
    BY <1>2, <1>5, <2>1
  <2>3. a.tries + 1 \in Nat /\ a.wrong + 1 \in Nat
    BY DEF CodeRow
  <2>. QED
    BY <2>1, <2>2, <2>3 DEF CodeRow, Softer
<1>6. \A i \in DOMAIN codes : codes[i] \in CodeRow
  BY DEF Held
<1>. QED
  BY <1>3, <1>4, <1>5, <1>6, Untouched DEF Tame, c

\* The steps that add no code; only Judge counts.
LEMMA CodesTame ==
  ASSUME Held, NEW r \in Req,
         \/ Retire(r) \/ Mail(r) \/ DropCode(r) \/ FindCode(r) \/ LockCode(r) \/ Judge(r)
         \/ AccountStep(r)
  PROVE  Tame /\ (Judge(r) \/ \A i \in DOMAIN codes : SameCount(codes[i], codes'[i]))
<1>. DEFINE x == task[r]
            c == x.code
<1>0. \A i \in DOMAIN codes : codes[i] \in CodeRow
  BY DEF Held
<1>1. CASE UNCHANGED codes
  <2>1. codes = [i \in DOMAIN codes |-> codes[i]]
    BY DEF Held
  <2>. QED
    BY <1>0, <1>1, <2>1, Untouched DEF Tame
<1>2. CASE codes' = [codes EXCEPT ![c].mailed = TRUE]
  <2>1. PICK b : b = [codes[c] EXCEPT !.mailed = TRUE]
    OBVIOUS
  <2>2. codes' = [codes EXCEPT ![c] = b]
    BY <1>2, <2>1
  <2>3. c \in DOMAIN codes => Softer(codes[c], b) /\ SameCount(codes[c], b)
    <3>1. \A a \in CodeRow : Softer(a, [a EXCEPT !.mailed = TRUE])
                           /\ SameCount(a, [a EXCEPT !.mailed = TRUE])
      BY DEF CodeRow, Softer, SameCount
    <3>. QED
      BY <1>0, <2>1, <3>1
  <2>. HIDE DEF c
  <2>4. \A i \in DOMAIN codes : i = c => codes'[i] = b
    BY <2>2
  <2>. QED
    BY <2>2, <2>3, <2>4, OneSofter
<1>3. CASE \E s \in {"retired", "redeemed", "gone"} :
             codes' = [codes EXCEPT ![c].state = s] /\ (codes[c].state # "gone" \/ s = "gone")
  <2>1. PICK s \in {"retired", "redeemed", "gone"} :
             codes' = [codes EXCEPT ![c].state = s] /\ (codes[c].state # "gone" \/ s = "gone")
    BY <1>3
  <2>2. PICK b : b = [codes[c] EXCEPT !.state = s]
    OBVIOUS
  <2>3. codes' = [codes EXCEPT ![c] = b]
    BY <2>1, <2>2
  <2>4. c \in DOMAIN codes => Softer(codes[c], b) /\ SameCount(codes[c], b)
    BY <1>0, <2>1, <2>2, StateSofter
  <2>. HIDE DEF c
  <2>5. \A i \in DOMAIN codes : i = c => codes'[i] = b
    BY <2>3
  <2>. QED
    BY <2>3, <2>4, <2>5, OneSofter
<1>4. CASE codes' = [codes EXCEPT ![c].state = codes[c].state]
  <2>1. PICK b : b = [codes[c] EXCEPT !.state = codes[c].state]
    OBVIOUS
  <2>2. codes' = [codes EXCEPT ![c] = b]
    BY <1>4, <2>1
  <2>3. c \in DOMAIN codes => Softer(codes[c], b) /\ SameCount(codes[c], b)
    <3>1. \A a \in CodeRow : Softer(a, [a EXCEPT !.state = a.state])
                           /\ SameCount(a, [a EXCEPT !.state = a.state])
      BY DEF CodeRow, Softer, SameCount
    <3>. QED
      BY <1>0, <2>1, <3>1
  <2>. HIDE DEF c
  <2>4. \A i \in DOMAIN codes : i = c => codes'[i] = b
    BY <2>2
  <2>. QED
    BY <2>2, <2>3, <2>4, OneSofter
<1>6. CASE Judge(r) /\ codes' = Count(r)
  BY <1>6, Counts
<1>7. CASE Judge(r)
  <2>1. \/ codes' = Count(r)
        \/ codes' = [codes EXCEPT ![c].state = codes[c].state] /\ codes[c].state = "gone"
        \/ codes' = [codes EXCEPT ![c].state = "redeemed"] /\ codes[c].state # "gone"
    BY <1>7 DEF Judge
  <2>. QED
    BY <1>3, <1>4, <1>6, <1>7, <2>1
<1>8. CASE LockCode(r)
  <2>1. \/ codes' = [codes EXCEPT ![c].state = codes[c].state]
        \/ codes' = [codes EXCEPT ![c].state = "retired"] /\ codes[c].state # "gone"
    BY <1>8 DEF LockCode
  <2>. QED
    BY <1>3, <1>4, <2>1
<1>9. CASE Retire(r)
  <2>1. PICK S : S = Unused(x.type)
    OBVIOUS
  <2>2. codes' = [i \in DOMAIN codes |-> IF i \in S
                   THEN [codes[i] EXCEPT !.state = "retired"] ELSE codes[i]]
    BY <1>9, <2>1 DEF Retire
  <2>3. \A i \in S : i \in DOMAIN codes /\ codes[i].state # "gone"
    BY <2>1 DEF Unused, Rows
  <2>. QED
    BY <2>2, <2>3, SomeSofter
<1>10. CASE DeleteCodes(r)
  <2>1. PICK S : S = {i \in DOMAIN codes : codes[i].type = "reset"}
    OBVIOUS
  <2>2. codes' = [i \in DOMAIN codes |-> IF i \in S
                   THEN [codes[i] EXCEPT !.state = "gone"] ELSE codes[i]]
    BY <1>10, <2>1 DEF DeleteCodes
  <2>. QED
    BY <2>2, SomeSofter
<1>11. CASE DropCode(r)
  BY <1>3, <1>11 DEF DropCode
<1>12. CASE Mail(r)
  BY <1>1, <1>2, <1>12 DEF Mail
<1>13. CASE FindCode(r)
  BY <1>1, <1>13 DEF FindCode
<1>14. CASE AccountStep(r) /\ ~DeleteCodes(r)
  BY <1>1, <1>14 DEF AccountStep, InsertUser, ReadUser, SaveUser, RevokeAll, Mint, Rotate, Revoke
<1>. QED
  BY <1>7, <1>8, <1>9, <1>10, <1>11, <1>12, <1>13, <1>14

\* Time softens nothing.
LEMMA TimeTame ==
  ASSUME Held, Cool \/ Expire
  PROVE  Tame /\ \A i \in DOMAIN codes : SameCount(codes[i], codes'[i])
                                    /\ codes'[i].state = codes[i].state
<1>0. \A i \in DOMAIN codes : codes[i] \in CodeRow
  BY DEF Held
<1>1. ASSUME NEW a \in CodeRow, NEW g \in {"new", "cooled", "expired"},
             NEW b, b = [a EXCEPT !.age = g]
      PROVE  Softer(a, b) /\ SameCount(a, b) /\ b.state = a.state
  BY <1>1 DEF CodeRow, Softer, SameCount
<1>2. ASSUME NEW i \in DOMAIN codes
      PROVE  \E g \in {"new", "cooled", "expired"} : codes'[i] = [codes[i] EXCEPT !.age = g]
  <2>1. codes[i].age \in {"new", "cooled", "expired"}
    BY <1>0 DEF CodeRow
  <2>2. CASE Cool
    <3>1. codes'[i] = [codes[i] EXCEPT !.age = IF codes[i].age = "new" THEN "cooled" ELSE codes[i].age]
      BY <2>2 DEF Cool
    <3>. QED
      BY <2>1, <3>1
  <2>3. CASE Expire
    <3>1. PICK k \in DOMAIN codes : codes' = [j \in DOMAIN codes |-> [codes[j] EXCEPT
                      !.age = IF j <= k THEN "expired" ELSE codes[j].age]]
      BY <2>3 DEF Expire
    <3>2. codes'[i] = [codes[i] EXCEPT !.age = IF i <= k THEN "expired" ELSE codes[i].age]
      BY <3>1
    <3>. QED
      BY <2>1, <3>2
  <2>. QED
    BY <2>2, <2>3
<1>3. codes' = [i \in DOMAIN codes |-> codes'[i]]
  BY DEF Cool, Expire
<1>4. \A i \in DOMAIN codes : /\ Softer(codes[i], codes'[i]) /\ SameCount(codes[i], codes'[i])
                            /\ codes'[i].state = codes[i].state
  <2>. TAKE i \in DOMAIN codes
  <2>1. PICK g \in {"new", "cooled", "expired"} : codes'[i] = [codes[i] EXCEPT !.age = g]
    BY <1>2
  <2>2. PICK a \in CodeRow : a = codes[i]
    BY <1>0
  <2>3. Softer(a, [a EXCEPT !.age = g]) /\ SameCount(a, [a EXCEPT !.age = g])
        /\ [a EXCEPT !.age = g].state = a.state
    BY <1>1
  <2>. QED
    BY <2>1, <2>2, <2>3
<1>. QED
  BY <1>3, <1>4 DEF Tame

LEMMA TameTyped ==
  ASSUME Held, Tame
  PROVE  codes' \in Seq(CodeRow) /\ Len(codes') = Len(codes) /\ DOMAIN codes' = DOMAIN codes
<1>1. codes \in Seq(CodeRow) /\ \A i \in DOMAIN codes : codes'[i] \in CodeRow
  BY DEF Held, Tame, Softer
<1>2. codes' = [i \in DOMAIN codes |-> codes'[i]]
  BY DEF Tame
<1>. QED
  BY <1>1, <1>2, Retyped

LEMMA InsertTyped ==
  ASSUME Held, NEW r \in Req, InsertCode(r)
  PROVE  /\ codes' \in Seq(CodeRow) /\ Len(codes') = Len(codes) + 1 /\ Len(codes) \in Nat
         /\ DOMAIN codes = 1 .. Len(codes) /\ DOMAIN codes' = 1 .. Len(codes) + 1
         /\ \A i \in DOMAIN codes : codes'[i] = codes[i]
         /\ codes'[Len(codes) + 1].type = task[r].type
         /\ codes'[Len(codes) + 1].tries = 0 /\ codes'[Len(codes) + 1].wrong = 0
<1>1. task[r].type \in CodeType
  BY HeldBusy, AtBusy DEF InsertCode, Holding
<1>2. PICK row : row = [type |-> task[r].type, state |-> "live", tries |-> 0,
                        age |-> "new", mailed |-> FALSE, wrong |-> 0]
  OBVIOUS
<1>3. row \in CodeRow /\ row.type = task[r].type /\ row.tries = 0 /\ row.wrong = 0
  BY <1>1, <1>2 DEF CodeRow
<1>4. codes' = Append(codes, row)
  BY <1>2 DEF InsertCode
<1>5. codes \in Seq(CodeRow)
  BY DEF Held
<1>. QED
  BY <1>3, <1>4, <1>5, AppendProperties, LenProperties

-----------------------------------------------------------------------------
(* What a step does to the sessions. *)

\* No session but these, and those on the strength of that password, is open.
OpenBy(S, p) ==
  \A s \in DOMAIN sessions' :
    sessions'[s].live =>
      (s \in S /\ sessions[s].live /\ sessions'[s].pass = sessions[s].pass) \/ sessions'[s].pass = p

LEMMA MintIs ==
  ASSUME Held, NEW p \in Nat
  PROVE  /\ Opened(p) \in Seq(SessionRow)
         /\ DOMAIN sessions = 1 .. Len(sessions) /\ Len(sessions) \in Nat
         /\ DOMAIN Opened(p) = 1 .. Len(sessions) + 1
         /\ \A s \in DOMAIN sessions : Opened(p)[s] = sessions[s]
         /\ Opened(p)[Len(sessions) + 1].pass = p
<1>1. PICK row : row = [pass |-> p, live |-> TRUE]
  OBVIOUS
<1>2. row \in SessionRow /\ row.pass = p
  BY <1>1 DEF SessionRow
<1>3. sessions \in Seq(SessionRow) /\ Opened(p) = Append(sessions, row)
  BY <1>1 DEF Held, Opened
<1>. QED
  BY <1>2, <1>3, AppendProperties, LenProperties

LEMMA RevokeIs ==
  ASSUME NEW s \in Seq(SessionRow), NEW t, t = [i \in DOMAIN s |-> t[i]],
         \A i \in DOMAIN s : t[i] = s[i] \/ t[i] = [s[i] EXCEPT !.live = FALSE]
  PROVE  /\ t \in Seq(SessionRow) /\ DOMAIN t = DOMAIN s
         /\ \A i \in DOMAIN s : t[i].pass = s[i].pass /\ (t[i].live => s[i].live)
<1>1. ASSUME NEW i \in DOMAIN s
      PROVE  t[i] \in SessionRow /\ t[i].pass = s[i].pass /\ (t[i].live => s[i].live)
  <2>1. PICK a \in SessionRow : a = s[i]
    OBVIOUS
  <2>2. t[i] = [a EXCEPT !.live = FALSE] \/ t[i] = a
    BY <2>1
  <2>3. [a EXCEPT !.live = FALSE] \in SessionRow /\ [a EXCEPT !.live = FALSE].pass = a.pass
        /\ ~[a EXCEPT !.live = FALSE].live
    BY DEF SessionRow
  <2>. QED
    BY <2>1, <2>2, <2>3
<1>2. \A i \in DOMAIN s : t[i] \in SessionRow
  BY <1>1
<1>3. t \in Seq(SessionRow) /\ DOMAIN t = DOMAIN s
  BY <1>2, Retyped
<1>. QED
  BY <1>1, <1>3

LEMMA SessionsAre ==
  ASSUME Held, NEW r \in Req, (CodeStep(r) /\ UNCHANGED sessions) \/ AccountStep(r),
         At(r, "rotate") => task[r].token \in DOMAIN sessions
  PROVE  /\ sessions' \in Seq(SessionRow) /\ DOMAIN sessions \subseteq DOMAIN sessions'
         /\ At(r, "mint") => OpenBy(DOMAIN sessions, task[r].under)
         /\ At(r, "rotate") => OpenBy(DOMAIN sessions, sessions[task[r].token].pass)
         /\ At(r, "revokeAll") => \A s \in DOMAIN sessions' : ~sessions'[s].live
         /\ At(r, "revoke") => \A p : OpenBy(DOMAIN sessions, p)
         /\ ~At(r, "mint") /\ ~At(r, "rotate") =>
              DOMAIN sessions' = DOMAIN sessions
         /\ task[r].pc \notin {"mint", "rotate", "revoke", "revokeAll"} => UNCHANGED sessions
<1>. DEFINE x == task[r]
<1>0. sessions \in Seq(SessionRow) /\ \A s \in DOMAIN sessions : sessions[s] \in SessionRow
  BY DEF Held
<1>1. CASE Mint(r)
  <2>1. x.under \in Nat /\ x.pc = "mint"
    BY <1>1, HeldBusy, AtBusy DEF Mint, Holding, At
  <2>2. PICK p \in Nat : p = x.under
    BY <2>1
  <2>3. sessions' = Opened(p)
    BY <1>1, <2>2 DEF Mint
  <2>4. OpenBy(DOMAIN sessions, p) /\ DOMAIN sessions \subseteq DOMAIN sessions'
        /\ sessions' \in Seq(SessionRow)
    BY <2>3, MintIs DEF OpenBy
  <2>. QED
    BY <2>1, <2>2, <2>4 DEF At
<1>2. CASE Rotate(r)
  <2>1. x.token \in DOMAIN sessions /\ x.pc = "rotate"
    BY <1>2 DEF Rotate, At
  <2>2. PICK p \in Nat : p = sessions[x.token].pass
    BY <1>0, <2>1 DEF SessionRow
  <2>3. PICK opened : opened = Opened(p)
    OBVIOUS
  <2>4. sessions' = [opened EXCEPT ![x.token].live = FALSE]
    BY <1>2, <2>2, <2>3 DEF Rotate
  <2>5. /\ opened \in Seq(SessionRow)
        /\ DOMAIN sessions = 1 .. Len(sessions) /\ Len(sessions) \in Nat
        /\ DOMAIN opened = 1 .. Len(sessions) + 1
        /\ \A s \in DOMAIN sessions : opened[s] = sessions[s]
        /\ opened[Len(sessions) + 1].pass = p
    BY <2>3, MintIs
  <2>8. sessions' = [i \in DOMAIN opened |-> sessions'[i]]
        /\ \A i \in DOMAIN opened :
             sessions'[i] = opened[i] \/ sessions'[i] = [opened[i] EXCEPT !.live = FALSE]
    BY <2>4
  <2>6. /\ sessions' \in Seq(SessionRow) /\ DOMAIN sessions' = DOMAIN opened
        /\ \A i \in DOMAIN opened :
             sessions'[i].pass = opened[i].pass /\ (sessions'[i].live => opened[i].live)
    BY <2>5, <2>8, RevokeIs
  <2>7. OpenBy(DOMAIN sessions, p) /\ DOMAIN sessions \subseteq DOMAIN sessions'
    BY <2>5, <2>6 DEF OpenBy
  <2>. QED
    BY <2>1, <2>2, <2>6, <2>7 DEF At
<1>3. CASE Revoke(r)
  <2>1. sessions' = [sessions EXCEPT ![x.token].live = FALSE] /\ x.pc = "revoke"
    BY <1>3 DEF Revoke, At
  <2>2. PICK k : k = x.token
    OBVIOUS
  <2>3. sessions' = [sessions EXCEPT ![k].live = FALSE]
    BY <2>1, <2>2
  <2>5. sessions' = [i \in DOMAIN sessions |-> sessions'[i]]
        /\ \A i \in DOMAIN sessions :
             sessions'[i] = sessions[i] \/ sessions'[i] = [sessions[i] EXCEPT !.live = FALSE]
    BY <1>0, <2>3
  <2>4. /\ sessions' \in Seq(SessionRow) /\ DOMAIN sessions' = DOMAIN sessions
        /\ \A i \in DOMAIN sessions :
             sessions'[i].pass = sessions[i].pass /\ (sessions'[i].live => sessions[i].live)
    BY <1>0, <2>5, RevokeIs
  <2>. QED
    BY <2>1, <2>4 DEF At, OpenBy
<1>4. CASE RevokeAll(r)
  <2>1. sessions' = [s \in DOMAIN sessions |-> [sessions[s] EXCEPT !.live = FALSE]]
        /\ x.pc = "revokeAll"
    BY <1>4 DEF RevokeAll, At
  <2>2. \A a \in SessionRow : [a EXCEPT !.live = FALSE] \in SessionRow
                            /\ ~[a EXCEPT !.live = FALSE].live
    BY DEF SessionRow
  <2>3. \A s \in DOMAIN sessions : sessions'[s] \in SessionRow /\ ~sessions'[s].live
    BY <1>0, <2>1, <2>2
  <2>4. sessions' = [s \in DOMAIN sessions |-> sessions'[s]]
    BY <2>1
  <2>5. sessions' \in Seq(SessionRow) /\ DOMAIN sessions' = DOMAIN sessions
    BY <1>0, <2>3, <2>4, Retyped
  <2>. QED
    BY <2>1, <2>3, <2>5 DEF At
<1>5. CASE UNCHANGED sessions /\ x.pc \notin {"mint", "rotate", "revoke", "revokeAll"}
  BY <1>0, <1>5 DEF At
<1>6. CASE CodeStep(r) /\ UNCHANGED sessions
  <2>1. x.pc \notin {"mint", "rotate", "revoke", "revokeAll"}
    BY <1>6 DEF CodeStep, Retire, InsertCode, Mail, DropCode, FindCode, LockCode, Judge, At
  <2>. QED
    BY <1>5, <1>6, <2>1
<1>7. CASE AccountStep(r)
  BY <1>1, <1>2, <1>3, <1>4, <1>5, <1>7
     DEF AccountStep, InsertUser, ReadUser, SaveUser, DeleteCodes, At
<1>. QED
  BY <1>6, <1>7

-----------------------------------------------------------------------------
(* The steps of the account, and what they all keep. *)

\* A task whose user there is, or is about to be.
Rooted(t) ==
  /\ t.pc = "insertUser" \/ ~Is("none")
  /\ t.status # "none"
  /\ t.pc = "insertUser" => t.under = 0
  /\ t.pc = "rotate" => t.token \in DOMAIN sessions

Steady == Held /\ NoneYet /\ \A r \in Req : Busy(r) => Rooted(task[r])

Asked(r, t) == Call(r, t) /\ Fresh(t) /\ UNCHANGED customer

Worked(r, u) ==
  /\ StepsTo(r, u) /\ Busy(r)
  /\ (CodeStep(r) /\ UNCHANGED <<account, sessions>>) \/ AccountStep(r)

Died(r) ==
  /\ Busy(r) /\ task' = [task EXCEPT ![r] = Idle] /\ fails' = fails + 1
  /\ UNCHANGED <<started, alone, customer>>

Passed == (Cool \/ Expire) /\ UNCHANGED <<account, sessions, calls>>

Shape ==
  \/ \E r \in Req : \E t : Asked(r, t)
  \/ \E r \in Req : \E u : Worked(r, u)
  \/ \E r \in Req : Died(r)
  \/ Passed
  \/ UNCHANGED <<customer, calls>>

LEMMA WorkBusy ==
  ASSUME NEW r \in Req, CodeStep(r) \/ AccountStep(r)
  PROVE  Busy(r)
BY AtBusy DEF CodeStep, Retire, InsertCode, Mail, DropCode, FindCode, LockCode, Judge,
       AccountStep, InsertUser, ReadUser, SaveUser, DeleteCodes, RevokeAll, Mint, Rotate, Revoke

LEMMA Shapes ==
  ASSUME Calling, AccountOf, Held, NoneYet, [Next]_vars
  PROVE  UNCHANGED part /\ Shape
<1>1. CASE UNCHANGED vars
  BY <1>1 DEF vars, Shape
<1>2. CASE Codes
  <2>1. CASE Cool \/ Expire
    BY <1>2, <2>1, Ticks DEF Codes, Shape, Passed
  <2>2. CASE \E r \in Req : CodeStep(r)
    <3>1. PICK r \in Req : CodeStep(r)
      BY <2>2
    <3>2. PICK u : StepsTo(r, u)
      BY <3>1, StepTask
    <3>3. Worked(r, u) /\ UNCHANGED part
      BY <1>2, <3>1, <3>2, WorkBusy DEF Codes, Worked
    <3>. QED
      BY <3>3 DEF Shape
  <2>. QED
    BY <1>2, <2>1, <2>2 DEF Codes
<1>3. CASE Leave
  BY <1>3 DEF Leave, AccountOf
<1>4. ASSUME NEW r \in Req, Account(r) PROVE UNCHANGED part /\ Shape
  <2>1. CASE AccountRequest(r) /\ UNCHANGED customer
    <3>1. PICK t : Call(r, t) /\ Fresh(t)
      BY <2>1, Requests
    <3>2. Asked(r, t)
      BY <2>1, <3>1 DEF Asked
    <3>. QED
      BY <1>4, <3>2 DEF Shape, Account
  <2>2. CASE AccountStep(r)
    <3>1. PICK u : StepsTo(r, u)
      BY <2>2, StepTask
    <3>2. Worked(r, u)
      BY <2>2, <3>1, WorkBusy DEF Worked
    <3>. QED
      BY <1>4, <3>2 DEF Shape, Account
  <2>. QED
    BY <1>4, <2>1, <2>2 DEF Account, AccountRequest
<1>5. ASSUME NEW r \in Req, Consents(r) \/ Reach(r) PROVE UNCHANGED part /\ Shape
  BY <1>5 DEF Consents, Reach, AccountOf
<1>6. ASSUME NEW r \in Req, Die(r) PROVE UNCHANGED part /\ Shape
  <2>1. Died(r) /\ UNCHANGED part
    BY <1>6 DEF Die, Fail, Died
  <2>. QED
    BY <2>1 DEF Shape
<1>. QED
  BY <1>1, <1>2, <1>3, <1>4, <1>5, <1>6 DEF Next

\* What a step does to the account.
LEMMA AccountIs ==
  ASSUME Held, NEW r \in Req, NEW u, Worked(r, u)
  PROVE  /\ account' \in [status : Status, pass : Nat]
         /\ \/ UNCHANGED account /\ ~At(r, "saveUser")
            \/ /\ At(r, "saveUser") /\ account'.status = task[r].status
               /\ account'.pass = IF task[r].pass THEN account.pass + 1 ELSE account.pass
            \/ /\ At(r, "insertUser") /\ Is("none") /\ account'.status = task[r].status
               /\ account'.pass = IF task[r].pass THEN 1 ELSE 0
<1>. DEFINE x == task[r]
<1>0. x \in Holding /\ account \in [status : Status, pass : Nat]
  BY HeldBusy DEF Worked, Held
<1>1. x.status \in Status /\ account.pass \in Nat
  BY <1>0 DEF Holding
<1>2. CASE SaveUser(r)
  <2>1. PICK p \in Nat : p = account.pass + (IF x.pass THEN 1 ELSE 0)
    BY <1>1
  <2>2. account' = [status |-> x.status, pass |-> p] /\ At(r, "saveUser")
    BY <1>2, <2>1 DEF SaveUser
  <2>3. p = IF x.pass THEN account.pass + 1 ELSE account.pass
    BY <1>1, <2>1
  <2>. QED
    BY <1>1, <2>2, <2>3
<1>3. CASE InsertUser(r) /\ Is("none")
  <2>1. PICK p \in Nat : p = IF x.pass THEN 1 ELSE 0
    OBVIOUS
  <2>2. account' = [status |-> x.status, pass |-> p] /\ At(r, "insertUser")
    BY <1>3, <2>1 DEF InsertUser
  <2>. QED
    BY <1>1, <1>3, <2>1, <2>2
<1>4. CASE UNCHANGED account /\ ~At(r, "saveUser")
  BY <1>0, <1>4
<1>5. CASE CodeStep(r) /\ UNCHANGED account
  BY <1>4, <1>5 DEF CodeStep, Retire, InsertCode, Mail, DropCode, FindCode, LockCode, Judge, At
<1>6. CASE AccountStep(r)
  BY <1>2, <1>3, <1>4, <1>6
     DEF AccountStep, InsertUser, ReadUser, DeleteCodes, RevokeAll, Mint, Rotate, Revoke, At
<1>. QED
  BY <1>5, <1>6 DEF Worked

LEMMA CodesAre ==
  ASSUME Held, NEW r \in Req, NEW u, Worked(r, u)
  PROVE  /\ codes' \in Seq(CodeRow)
         /\ \/ InsertCode(r)
            \/ Tame /\ (Judge(r) \/ \A i \in DOMAIN codes : SameCount(codes[i], codes'[i]))
<1>1. CASE InsertCode(r)
  BY <1>1, InsertTyped
<1>2. CASE ~InsertCode(r)
  BY <1>2, CodesTame, TameTyped DEF Worked, CodeStep
<1>. QED
  BY <1>1, <1>2

\* A task moves, and the others stay.
LEMMA TaskMoves ==
  ASSUME Calling, Held, NEW r \in Req, NEW u \in Holding \cup {Idle}, task' = [task EXCEPT ![r] = u],
         u = Idle \/ Planned(u)
  PROVE  /\ task' \in [Req -> Holding \cup {Idle}]
         /\ task'[r] = u /\ \A s \in Req \ {r} : task'[s] = task[s]
         /\ \A s \in Req : Busy(s)' => Planned(task'[s])
<1>1. task'[r] = u /\ \A s \in Req \ {r} : task'[s] = task[s]
  BY TaskAt
<1>. QED
  BY <1>1 DEF Held, Busy

LEMMA StepSteady ==
  ASSUME Calling, Steady, Shape
  PROVE  Steady'
<1>0. Held /\ NoneYet /\ \A r \in Req : Busy(r) => Rooted(task[r])
  BY DEF Steady
<1>1. ASSUME NEW r \in Req, NEW t, Asked(r, t) PROVE Steady'
  <2>1. task' = [task EXCEPT ![r] = t] /\ t \in Holding /\ Planned(t) /\ UNCHANGED customer
    BY <1>1 DEF Asked, Call, Fresh
  <2>2. /\ task' \in [Req -> Holding \cup {Idle}]
        /\ task'[r] = t /\ \A s \in Req \ {r} : task'[s] = task[s]
        /\ \A s \in Req : Busy(s)' => Planned(task'[s])
    BY <1>0, <2>1, TaskMoves
  <2>3. Rooted(t)
    BY <1>0, <1>1 DEF Asked, Fresh, Rooted, NoneYet, Is
  <2>4. \A s \in Req : Busy(s)' => Rooted(task[s])'
    BY <1>0, <2>1, <2>2, <2>3 DEF Busy, Rooted, Is, customer
  <2>5. Held' /\ NoneYet'
    BY <1>0, <2>1, <2>2 DEF Held, NoneYet, Is, customer
  <2>. QED
    BY <2>4, <2>5 DEF Steady
<1>2. ASSUME NEW r \in Req, NEW u, Worked(r, u) PROVE Steady'
  <2>. DEFINE x == task[r]
  <2>0. x \in Holding /\ Rooted(x) /\ Planned(x) /\ x.pc # "idle"
    BY <1>0, <1>2, HeldBusy, IdleIs DEF Worked, Holding
  <2>1. /\ task' = [task EXCEPT ![r] = u] /\ u \in Holding \cup {Idle}
        /\ u = Idle \/ (Planned(u) /\ Learns(x, u) /\ Leads(x, u))
    BY <1>2 DEF Worked, StepsTo
  <2>2. /\ task' \in [Req -> Holding \cup {Idle}]
        /\ task'[r] = u /\ \A s \in Req \ {r} : task'[s] = task[s]
        /\ \A s \in Req : Busy(s)' => Planned(task'[s])
    BY <1>0, <2>1, TaskMoves
  <2>3. At(r, "rotate") => x.token \in DOMAIN sessions
    BY <2>0 DEF Rooted, At
  <2>4. /\ sessions' \in Seq(SessionRow) /\ DOMAIN sessions \subseteq DOMAIN sessions'
        /\ x.pc = "insertUser" => UNCHANGED sessions
    BY <1>0, <1>2, <2>3, SessionsAre DEF Worked
  <2>5. /\ account' \in [status : Status, pass : Nat]
        /\ \/ UNCHANGED account
           \/ account'.status = x.status
    BY <1>0, <1>2, AccountIs
  <2>6. Is("none")' => Is("none") /\ UNCHANGED account
    BY <2>0, <2>5 DEF Is, Rooted
  <2>7. Held'
    BY <1>0, <1>2, <2>2, <2>4, <2>5, CodesAre DEF Held
  <2>8. NoneYet'
    <3>1. ASSUME Is("none")' PROVE account'.pass = 0 /\ codes' = <<>> /\ sessions' = <<>>
      <4>1. Is("none") /\ UNCHANGED account /\ x.pc = "insertUser"
        BY <2>0, <2>6, <3>1 DEF Rooted
      <4>2. UNCHANGED codes
        BY <1>2, <4>1 DEF Worked, CodeStep, Retire, InsertCode, Mail, DropCode, FindCode, LockCode,
                          Judge, AccountStep, InsertUser, ReadUser, SaveUser, DeleteCodes,
                          RevokeAll, Mint, Rotate, Revoke, At
      <4>. QED
        BY <1>0, <2>4, <4>1, <4>2 DEF NoneYet
    <3>. QED
      BY <3>1 DEF NoneYet
  <2>9. u # Idle => Rooted(u)'
    <3>1. ASSUME u # Idle PROVE Rooted(u)'
      <4>1. Learns(x, u) /\ Leads(x, u)
        BY <2>1, <3>1
      <4>2. u.pc # "insertUser" /\ u.pc # "rotate"
        BY <4>1 DEF Leads
      <4>3. u.status # "none" /\ ~Is("none")'
        <5>1. CASE x.pc = "insertUser"
          <6>1. u.status = x.status
            BY <4>1, <5>1 DEF Learns
          <6>2. ~Is("none")'
            <7>1. CASE Is("none")
              <8>1. account'.status = x.status
                BY <1>2, <3>1, <5>1, <7>1, <2>2, IdleIs
                   DEF Worked, AccountStep, InsertUser, CodeStep, Retire, InsertCode, Mail, DropCode,
                       FindCode, LockCode, Judge, ReadUser, SaveUser, DeleteCodes, RevokeAll, Mint,
                       Rotate, Revoke, At
              <8>. QED
                BY <2>0, <8>1 DEF Is, Rooted
            <7>2. CASE ~Is("none")
              BY <2>6, <7>2
            <7>. QED
              BY <7>1, <7>2
          <6>. QED
            BY <2>0, <6>1, <6>2 DEF Rooted
        <5>2. CASE x.pc # "insertUser"
          BY <2>0, <2>6, <4>1, <5>2 DEF Rooted, Learns, Is
        <5>. QED
          BY <5>1, <5>2
      <4>. QED
        BY <4>2, <4>3 DEF Rooted
    <3>. QED
      BY <3>1
  <2>10. \A s \in Req : Busy(s)' => Rooted(task[s])'
    <3>1. ASSUME NEW s \in Req \ {r}, Busy(s)' PROVE Rooted(task[s])'
      <4>1. task'[s] = task[s] /\ Rooted(task[s])
        BY <1>0, <2>2, <3>1 DEF Busy
      <4>2. ~Is("none") => ~Is("none")'
        BY <2>6
      <4>. QED
        BY <2>4, <4>1, <4>2 DEF Rooted
    <3>. QED
      BY <2>2, <2>9, <3>1 DEF Busy
  <2>. QED
    BY <2>7, <2>8, <2>10 DEF Steady
<1>3. ASSUME NEW r \in Req, Died(r) PROVE Steady'
  <2>1. task' = [task EXCEPT ![r] = Idle] /\ UNCHANGED customer
    BY <1>3 DEF Died
  <2>2. /\ task' \in [Req -> Holding \cup {Idle}]
        /\ task'[r] = Idle /\ \A s \in Req \ {r} : task'[s] = task[s]
        /\ \A s \in Req : Busy(s)' => Planned(task'[s])
    BY <1>0, <2>1, TaskMoves
  <2>3. \A s \in Req : Busy(s)' => Rooted(task[s])'
    BY <1>0, <2>1, <2>2 DEF Busy, Rooted, Is, customer
  <2>4. Held' /\ NoneYet'
    BY <1>0, <2>1, <2>2 DEF Held, NoneYet, Is, customer
  <2>. QED
    BY <2>3, <2>4 DEF Steady
<1>4. CASE Passed
  <2>1. UNCHANGED <<account, sessions, task>> /\ codes' \in Seq(CodeRow) /\ codes # <<>>
        /\ DOMAIN codes' = DOMAIN codes
    BY <1>0, <1>4, TimeTame, TameTyped DEF Passed, calls, Cool, Expire
  <2>2. Held' /\ NoneYet'
    BY <1>0, <2>1 DEF Held, NoneYet, Is, Busy
  <2>3. \A s \in Req : Busy(s)' => Rooted(task[s])'
    BY <1>0, <2>1 DEF Busy, Rooted, Is
  <2>. QED
    BY <2>2, <2>3 DEF Steady
<1>5. CASE UNCHANGED <<customer, calls>>
  BY <1>0, <1>5 DEF customer, calls, Steady, Held, NoneYet, Rooted, Is, Busy
<1>. QED
  BY <1>1, <1>2, <1>3, <1>4, <1>5 DEF Shape

-----------------------------------------------------------------------------
(* What all of the following rests on. *)

\* Where another part is exercised there are no codes and no sessions.
AccountInv == IF AccountOf THEN Steady ELSE codes = <<>> /\ sessions = <<>>

LEMMA Elsewhere ==
  ASSUME ~AccountOf, [Next]_vars
  PROVE  UNCHANGED <<part, customer>>
BY DEF AccountOf, Next, vars, Codes, Leave, Account, Consents, Reach, Die

LEMMA InitAccount == Init => AccountInv
<1>. SUFFICES ASSUME Init PROVE AccountInv
  OBVIOUS
<1>1. codes = <<>> /\ sessions = <<>> /\ \A r \in Req : ~Busy(r)
  BY DEF Init, CodesInit, AccountInit, CallsInit, Busy
<1>2. account \in [status : Status, pass : Nat] /\ (Is("none") => account.pass = 0)
  <2>1. \/ account = [status |-> "none", pass |-> 0]
        \/ account = [status |-> "active", pass |-> 1]
    BY DEF Init, AccountInit
  <2>. QED
    BY <2>1 DEF Is, Status
<1>3. codes \in Seq(CodeRow) /\ sessions \in Seq(SessionRow)
  BY <1>1
<1>4. task \in [Req -> Holding \cup {Idle}]
  BY DEF Init, CallsInit
<1>. QED
  BY <1>1, <1>2, <1>3, <1>4 DEF AccountInv, Steady, Held, NoneYet

LEMMA StepAccount ==
  ASSUME Calling, AccountInv, [Next]_vars
  PROVE  AccountInv'
<1>1. CASE AccountOf
  <2>1. Steady
    BY <1>1 DEF AccountInv
  <2>2. UNCHANGED part /\ Shape
    BY <1>1, <2>1, Shapes DEF Steady
  <2>. QED
    BY <1>1, <2>1, <2>2, StepSteady DEF AccountInv, AccountOf
<1>2. CASE ~AccountOf
  BY <1>2, Elsewhere DEF AccountInv, AccountOf, customer
<1>. QED
  BY <1>1, <1>2

\* The task that moved, and the others: idle, as long as tasks do not overlap.
LEMMA Others ==
  ASSUME Calling, NEW r \in Req, NEW u, task' = [task EXCEPT ![r] = u],
         Call(r, u) \/ (Busy(r) /\ UNCHANGED alone)
  PROVE  /\ task'[r] = u /\ \A s \in Req \ {r} : task'[s] = task[s]
         /\ alone' => alone /\ \A s \in Req \ {r} : task[s] = Idle /\ task'[s] = Idle
<1>1. task'[r] = u /\ \A s \in Req \ {r} : task'[s] = task[s]
  BY TaskAt
<1>2. ASSUME alone' PROVE alone /\ \A s \in Req \ {r} : ~Busy(s)
  BY <1>2 DEF Call, Calling, OneBusy
<1>. QED
  BY <1>1, <1>2 DEF Busy

LEMMA AskedOthers ==
  ASSUME Calling, NEW r \in Req, NEW t, Asked(r, t)
  PROVE  /\ task'[r] = t /\ \A s \in Req \ {r} : task'[s] = task[s]
         /\ alone' => alone /\ \A s \in Req \ {r} : task[s] = Idle /\ task'[s] = Idle
         /\ task[r] = Idle /\ Fresh(t) /\ UNCHANGED <<customer, fails>>
<1>1. Call(r, t) /\ task' = [task EXCEPT ![r] = t] /\ task[r] = Idle
  BY DEF Asked, Call, Busy
<1>. QED
  BY <1>1, Others DEF Asked, Call

LEMMA WorkedOthers ==
  ASSUME Calling, Steady, NEW r \in Req, NEW u, Worked(r, u)
  PROVE  /\ task'[r] = u /\ \A s \in Req \ {r} : task'[s] = task[s]
         /\ alone' => alone /\ \A s \in Req \ {r} : task[s] = Idle /\ task'[s] = Idle
         /\ UNCHANGED fails
         /\ task[r] \in Holding /\ Rooted(task[r]) /\ task[r].pc # "idle"
         /\ IF u = Idle THEN Ends(task[r])
            ELSE u \in Holding /\ Learns(task[r], u) /\ Leads(task[r], u)
<1>1. Busy(r) /\ task' = [task EXCEPT ![r] = u] /\ UNCHANGED <<fails, alone>>
  BY DEF Worked, StepsTo
<1>2. task[r] \in Holding /\ Rooted(task[r]) /\ task[r].pc # "idle"
  BY <1>1, HeldBusy, IdleIs DEF Steady, Holding
<1>. QED
  BY <1>1, <1>2, Others DEF Worked, StepsTo

LEMMA DiedOthers ==
  ASSUME Calling, NEW r \in Req, Died(r)
  PROVE  /\ task'[r] = Idle /\ \A s \in Req \ {r} : task'[s] = task[s]
         /\ UNCHANGED <<alone, customer>> /\ fails' # 0
<1>1. Busy(r) /\ task' = [task EXCEPT ![r] = Idle] /\ UNCHANGED alone
  BY DEF Died
<1>. QED
  BY <1>1, Others, CallsAssumption DEF Died, Calling

\* What is true where the account is exercised, and carried over the shapes.
LEMMA Carries ==
  ASSUME Calling, AccountInv, AccountOf, [Next]_vars
  PROVE  Steady /\ Steady' /\ Shape /\ UNCHANGED part
BY Shapes, StepSteady DEF AccountInv, Steady

-----------------------------------------------------------------------------
(* One live code of a kind. *)

\* ... and none of the kind of one that is to be inserted.
OneLive ==
  /\ \A i, j \in DOMAIN codes :
       codes[i].type = codes[j].type /\ codes[i].state = "live" /\ codes[j].state = "live" => i = j
  /\ \A r \in Req : At(r, "insertCode") =>
       \A i \in DOMAIN codes : codes[i].type = task[r].type => codes[i].state # "live"

LEMMA TameLive ==
  ASSUME Held, Tame
  PROVE  /\ DOMAIN codes' = DOMAIN codes
         /\ \A i \in DOMAIN codes : codes'[i].type = codes[i].type
                                    /\ (codes'[i].state = "live" => codes[i].state = "live")
BY TameTyped DEF Tame, Softer

\* Of the steps of a task, one inserts and one retires.
LEMMA WorksAt ==
  ASSUME NEW r \in Req, NEW u, Worked(r, u)
  PROVE  /\ InsertCode(r) <=> At(r, "insertCode")
         /\ At(r, "retire") => Retire(r)
         /\ At(r, "mail") => Mail(r)
         /\ At(r, "dropCode") => DropCode(r)
         /\ At(r, "judge") <=> Judge(r)
BY DEF Worked, CodeStep, Retire, InsertCode, Mail, DropCode, FindCode, LockCode, Judge,
       AccountStep, InsertUser, ReadUser, SaveUser, DeleteCodes, RevokeAll, Mint, Rotate, Revoke, At

LEMMA RetireEmpties ==
  ASSUME Held, NEW r \in Req, Retire(r)
  PROVE  \A i \in DOMAIN codes' : codes'[i].type = task[r].type => codes'[i].state # "live"
<1>1. codes' = [i \in DOMAIN codes |-> IF i \in Unused(task[r].type)
                                       THEN [codes[i] EXCEPT !.state = "retired"] ELSE codes[i]]
  BY DEF Retire
<1>2. \A a \in CodeRow : [a EXCEPT !.state = "retired"].state # "live"
  BY DEF CodeRow
<1>3. \A i \in DOMAIN codes : codes[i] \in CodeRow
  BY DEF Held
<1>. QED
  BY <1>1, <1>2, <1>3 DEF Unused, Rows

LEMMA StepOneLive ==
  ASSUME Calling, AccountInv, AccountOf, [Next]_vars, DrawsApart, OneLive
  PROVE  OneLive'
<1>0. Held /\ Steady /\ Shape
  BY Carries DEF Steady
<1>1. ASSUME NEW r \in Req, NEW t, Asked(r, t) PROVE OneLive'
  <2>1. UNCHANGED codes /\ task'[r].pc # "insertCode" /\ \A s \in Req \ {r} : task'[s] = task[s]
    BY <1>1, AskedOthers, IdleIs DEF Fresh, customer
  <2>2. \A s \in Req : At(s, "insertCode")' => At(s, "insertCode") /\ task'[s] = task[s]
    BY <2>1 DEF At
  <2>. QED
    BY <2>1, <2>2 DEF OneLive
<1>2. ASSUME NEW r \in Req, NEW u, Worked(r, u) PROVE OneLive'
  <2>. DEFINE x == task[r]
  <2>1. /\ task'[r] = u /\ \A s \in Req \ {r} : task'[s] = task[s]
        /\ x \in Holding
        /\ u # Idle => Learns(x, u) /\ Leads(x, u)
    BY <1>0, <1>2, WorkedOthers
  <2>2. \A s \in Req : At(s, "insertCode")' =>
          \/ s # r /\ At(s, "insertCode") /\ task'[s] = task[s]
          \/ s = r /\ u # Idle /\ u.pc = "insertCode"
    BY <2>1, IdleIs DEF At
  <2>3. \A s \in Req : At(s, "insertCode")' =>
          \/ s # r /\ At(s, "insertCode") /\ task'[s] = task[s]
          \/ s = r /\ At(r, "retire") /\ u.type = x.type
    BY <2>1, <2>2 DEF Learns, Leads, At
  <2>4. CASE InsertCode(r)
    <3>1. At(r, "insertCode")
      BY <2>4 DEF InsertCode
    <3>2. /\ DOMAIN codes = 1 .. Len(codes) /\ DOMAIN codes' = 1 .. Len(codes) + 1
          /\ \A i \in DOMAIN codes : codes'[i] = codes[i]
          /\ codes'[Len(codes) + 1].type = x.type /\ Len(codes) \in Nat
      BY <1>0, <2>4, InsertTyped
    <3>3. \A i \in DOMAIN codes : codes[i].type = x.type => codes[i].state # "live"
      BY <3>1 DEF OneLive
    <3>4. \A s \in Req : At(s, "insertCode")' =>
            At(s, "insertCode") /\ task'[s] = task[s] /\ task[s].type # x.type
      BY <2>3, <2>4, <3>1 DEF At, DrawsApart
    <3>5. ASSUME NEW s \in Req, At(s, "insertCode")', NEW i \in DOMAIN codes',
                 codes'[i].type = task'[s].type
          PROVE  codes'[i].state # "live"
      <4>1. i \in DOMAIN codes
        BY <3>2, <3>4, <3>5
      <4>. QED
        BY <3>2, <3>4, <3>5, <4>1 DEF OneLive
    <3>6. ASSUME NEW i \in DOMAIN codes', NEW j \in DOMAIN codes',
                 codes'[i].type = codes'[j].type,
                 codes'[i].state = "live", codes'[j].state = "live"
          PROVE  i = j
      BY <3>2, <3>3, <3>6 DEF OneLive
    <3>. QED
      BY <3>5, <3>6 DEF OneLive
  <2>5. CASE ~InsertCode(r)
    <3>1. Tame
      BY <1>0, <1>2, <2>5, CodesAre
    <3>2. ASSUME NEW s \in Req, At(s, "insertCode")'
          PROVE  \A i \in DOMAIN codes' : codes'[i].type = task'[s].type => codes'[i].state # "live"
      <4>1. CASE s = r
        <5>1. Retire(r) /\ task'[s].type = x.type
          BY <1>2, <2>1, <2>3, <3>2, <4>1, WorksAt
        <5>. QED
          BY <1>0, <5>1, RetireEmpties
      <4>2. CASE s # r
        <5>1. At(s, "insertCode") /\ task'[s] = task[s]
          BY <2>3, <3>2, <4>2
        <5>. QED
          BY <1>0, <3>1, <5>1, TameLive DEF OneLive
      <4>. QED
        BY <4>1, <4>2
    <3>. QED
      BY <1>0, <3>1, <3>2, TameLive DEF OneLive
  <2>. QED
    BY <2>4, <2>5
<1>3. ASSUME NEW r \in Req, Died(r) PROVE OneLive'
  <2>1. UNCHANGED codes /\ task'[r] = Idle /\ \A s \in Req \ {r} : task'[s] = task[s]
    BY <1>3, DiedOthers DEF customer
  <2>2. \A s \in Req : At(s, "insertCode")' => At(s, "insertCode") /\ task'[s] = task[s]
    BY <2>1, IdleIs DEF At
  <2>. QED
    BY <2>1, <2>2 DEF OneLive
<1>4. CASE Passed
  <2>1. UNCHANGED calls /\ Tame
    BY <1>0, <1>4, TimeTame DEF Passed
  <2>. QED
    BY <1>0, <2>1, TameLive DEF OneLive, calls, At
<1>5. CASE UNCHANGED <<customer, calls>>
  BY <1>5 DEF OneLive, customer, calls, At
<1>. QED
  BY <1>0, <1>1, <1>2, <1>3, <1>4, <1>5 DEF Shape

LEMMA InitOneLive == Init => OneLive
BY DEF Init, CodesInit, CallsInit, OneLive, At, Idle

LEMMA LivesOnce ==
  ASSUME AccountInv, AccountOf => OneLive
  PROVE  \A type \in CodeType : \A i, j \in Unused(type) : i = j
BY DEF AccountInv, OneLive, Unused, Rows

\* A behaviour does not come to exercise the account.
LEMMA AccountOfStays ==
  ASSUME Calling, [Next]_vars
  PROVE  AccountOf' <=> AccountOf
BY PartStays DEF AccountOf

(***************************************************************************)
(* However requests, deaths and refused mails overlap, there is one code   *)
(* of a kind to type in, unless a code is inserted while another task has  *)
(* retired the earlier ones and is about to insert its own                 *)
(* (auth.service.ts, generateAndSaveOtp).                                  *)
(***************************************************************************)
THEOREM OneCodeLivesApart == Spec /\ [][DrawsApart]_vars => []OneUnused
<1>. DEFINE Inv == Calling /\ AccountInv /\ (AccountOf => OneLive)
<1>1. Init => Inv
  BY InitCalling, InitAccount, InitOneLive
<1>2. Inv /\ [Next]_vars /\ [DrawsApart]_vars => Inv'
  <2>1. ASSUME Calling, AccountInv, AccountOf, OneLive, [Next]_vars, [DrawsApart]_vars
        PROVE  OneLive'
    <3>1. CASE DrawsApart
      BY <2>1, <3>1, StepOneLive
    <3>2. CASE UNCHANGED vars
      BY <2>1, <3>2 DEF vars, calls, customer, OneLive, At
    <3>. QED
      BY <2>1, <3>1, <3>2
  <2>. QED
    BY <2>1, StepCalling, StepAccount, AccountOfStays
<1>3. Inv => OneUnused
  BY LivesOnce DEF OneUnused
<1>. HIDE DEF Inv
<1>. QED
  BY <1>1, <1>2, <1>3, PTL DEF Spec

-----------------------------------------------------------------------------
(* No code stays that was not mailed. *)

\* Codes that were not mailed, and that nobody will mail or drop any more.
Strays ==
  {i \in DOMAIN codes :
     /\ ~codes[i].mailed /\ codes[i].state # "gone"
     /\ \A r \in Req : task[r].pc \in {"mail", "dropCode"} => task[r].code # i}

\* Who goes on leaves none.
LEMMA NoneAstray ==
  ASSUME Calling, AccountInv, AccountOf, [Next]_vars, \A r \in Req : ~Died(r), NEW i \in Strays'
  PROVE  i \in Strays
<1>0. Held /\ Steady /\ Shape
  BY Carries DEF Steady
<1>1. i \in DOMAIN codes' /\ ~codes'[i].mailed /\ codes'[i].state # "gone"
  BY DEF Strays
<1>a. SUFFICES ASSUME i \notin Strays
               PROVE  \E r \in Req : task'[r].pc \in {"mail", "dropCode"} /\ task'[r].code = i
  BY DEF Strays
<1>2. ASSUME i \in DOMAIN codes, ~codes[i].mailed, codes[i].state # "gone"
      PROVE  \E r \in Req : task[r].pc \in {"mail", "dropCode"} /\ task[r].code = i
  BY <1>2, <1>a DEF Strays
<1>3. ASSUME NEW r \in Req, NEW t, Asked(r, t)
      PROVE  \E s \in Req : task'[s].pc \in {"mail", "dropCode"} /\ task'[s].code = i
  <2>1. UNCHANGED <<codes, fails>> /\ task[r] = Idle /\ \A s \in Req \ {r} : task'[s] = task[s]
    BY <1>3, AskedOthers DEF customer
  <2>. QED
    BY <1>1, <1>2, <2>1, IdleIs
<1>4. ASSUME NEW r \in Req, NEW u, Worked(r, u)
      PROVE  \E s \in Req : task'[s].pc \in {"mail", "dropCode"} /\ task'[s].code = i
  <2>. DEFINE x == task[r]
  <2>1. /\ task'[r] = u /\ (\A s \in Req \ {r} : task'[s] = task[s]) /\ UNCHANGED fails
        /\ x \in Holding
        /\ IF u = Idle THEN Ends(x) ELSE Learns(x, u) /\ Leads(x, u)
    BY <1>0, <1>4, WorkedOthers
  <2>2. CASE InsertCode(r)
    <3>1. x.pc = "insertCode"
      BY <2>2 DEF InsertCode, At
    <3>2. /\ DOMAIN codes = 1 .. Len(codes) /\ DOMAIN codes' = 1 .. Len(codes) + 1
          /\ \A k \in DOMAIN codes : codes'[k] = codes[k]
          /\ Len(codes') = Len(codes) + 1 /\ Len(codes) \in Nat
      BY <1>0, <2>2, InsertTyped
    <3>3. u.pc = "mail" /\ u.code = Len(codes) + 1
      BY <2>1, <3>1, <3>2 DEF Ends, Learns, Leads
    <3>4. CASE i \in DOMAIN codes
      BY <1>1, <1>2, <2>1, <3>1, <3>2, <3>4
    <3>5. CASE i = Len(codes) + 1
      BY <2>1, <3>3, <3>5
    <3>. QED
      BY <1>1, <3>2, <3>4, <3>5
  <2>3. CASE ~InsertCode(r)
    <3>1. Tame /\ DOMAIN codes' = DOMAIN codes
      BY <1>0, <1>4, <2>3, CodesAre, TameTyped
    <3>2. codes[i] \in CodeRow /\ ~codes[i].mailed /\ codes[i].state # "gone"
      BY <1>0, <1>1, <3>1 DEF Tame, Softer, Held
    <3>3. PICK s \in Req : task[s].pc \in {"mail", "dropCode"} /\ task[s].code = i
      BY <1>1, <1>2, <2>1, <3>1, <3>2
    <3>4. CASE s # r
      BY <2>1, <3>3, <3>4
    <3>5. CASE s = r /\ x.pc = "dropCode"
      <4>1. DropCode(r) /\ x.code = i
        BY <1>4, <3>3, <3>5, WorksAt DEF At
      <4>2. codes'[i].state = "gone"
        BY <1>1, <3>1, <3>2, <4>1 DEF DropCode, CodeRow
      <4>. QED
        BY <1>1, <4>2
    <3>6. CASE s = r /\ x.pc = "mail"
      <4>1. Mail(r) /\ x.code = i
        BY <1>4, <3>3, <3>6, WorksAt DEF At
      <4>2. codes' # [codes EXCEPT ![x.code].mailed = TRUE]
        BY <1>1, <3>1, <3>2, <4>1 DEF CodeRow
      <4>3. PICK v : v = [x EXCEPT !.pc = "dropCode"]
        OBVIOUS
      <4>4. Resume(r, v)
        BY <4>1, <4>2, <4>3 DEF Mail
      <4>5. task'[r] = v
        BY <4>4, TaskAt DEF Resume
      <4>6. v.pc = "dropCode" /\ v.code = i
        BY <2>1, <4>1, <4>3 DEF Holding
      <4>. QED
        BY <4>5, <4>6
    <3>. QED
      BY <3>3, <3>4, <3>5, <3>6
  <2>. QED
    BY <2>2, <2>3
<1>6. CASE Passed
  <2>1. UNCHANGED <<task, fails>> /\ Tame /\ DOMAIN codes' = DOMAIN codes
    BY <1>0, <1>6, TimeTame, TameTyped DEF Passed, calls
  <2>2. ~codes[i].mailed /\ codes[i].state # "gone"
    BY <1>1, <2>1 DEF Tame, Softer
  <2>. QED
    BY <1>1, <1>2, <2>1, <2>2
<1>7. CASE UNCHANGED <<customer, calls>>
  BY <1>1, <1>2, <1>7 DEF customer, calls
<1>. QED
  BY <1>0, <1>3, <1>4, <1>6, <1>7 DEF Shape

LEMMA StraysGrow ==
  ASSUME Calling, AccountInv, AccountOf, [Next]_vars
  PROVE  \/ Strays' \subseteq Strays /\ fails' = fails
         \/ fails' = fails + 1 /\ \E k : Strays' \subseteq Strays \cup {k}
<1>0. Held /\ Steady /\ Shape
  BY Carries DEF Steady
<1>1. ASSUME NEW r \in Req, Died(r)
      PROVE  fails' = fails + 1 /\ \E k : Strays' \subseteq Strays \cup {k}
  <2>1. /\ UNCHANGED codes /\ fails' = fails + 1
        /\ \A s \in Req \ {r} : task'[s] = task[s]
    BY <1>1, DiedOthers DEF Died, customer
  <2>2. Strays' \subseteq Strays \cup {task[r].code}
    BY <2>1 DEF Strays
  <2>. QED
    BY <2>1, <2>2
<1>2. CASE \A r \in Req : ~Died(r)
  <2>1. Strays' \subseteq Strays
    BY <1>2, NoneAstray
  <2>2. fails' = fails
    BY <1>0, <1>2, AskedOthers, WorkedOthers DEF Shape, Passed, calls
  <2>. QED
    BY <2>1, <2>2
<1>. QED
  BY <1>1, <1>2

\* No more strays than failures.
FewStrays == IsFiniteSet(Strays) /\ fails \in Nat /\ Cardinality(Strays) <= fails

LEMMA StepStrays ==
  ASSUME Calling, AccountInv, AccountOf, [Next]_vars, FewStrays
  PROVE  FewStrays'
<1>1. CASE Strays' \subseteq Strays /\ fails' = fails
  <2>1. IsFiniteSet(Strays') /\ Cardinality(Strays') <= Cardinality(Strays)
    BY <1>1, FS_Subset DEF FewStrays
  <2>. QED
    BY <1>1, <2>1, FS_CardinalityType DEF FewStrays
<1>2. ASSUME NEW k, Strays' \subseteq Strays \cup {k}, fails' = fails + 1
      PROVE  FewStrays'
  <2>1. /\ IsFiniteSet(Strays \cup {k})
        /\ Cardinality(Strays \cup {k}) <= Cardinality(Strays) + 1
    BY FS_AddElement, FS_CardinalityType DEF FewStrays
  <2>2. IsFiniteSet(Strays') /\ Cardinality(Strays') <= Cardinality(Strays \cup {k})
    BY <1>2, <2>1, FS_Subset
  <2>. QED
    BY <1>2, <2>1, <2>2, FS_CardinalityType DEF FewStrays
<1>. QED
  BY <1>1, <1>2, StraysGrow

LEMMA FewAlways == Spec => []FewStrays
<1>1. Init => Calling /\ AccountInv
  BY InitCalling, InitAccount
<1>2. Init => FewStrays
  <2>1. Init => Strays = {} /\ fails = 0
    BY InitAccount, EmptySeq DEF Init, CodesInit, CallsInit, AccountInv, Strays
  <2>. QED
    BY <2>1, FS_EmptySet DEF FewStrays
<1>3. Calling /\ AccountInv /\ [Next]_vars => (Calling /\ AccountInv)'
  BY StepCalling, StepAccount
<1>4. Calling /\ AccountInv /\ FewStrays /\ [Next]_vars => FewStrays'
  <2>. SUFFICES ASSUME Calling, AccountInv, FewStrays, [Next]_vars PROVE FewStrays'
    OBVIOUS
  <2>1. CASE AccountOf
    BY <2>1, StepStrays
  <2>2. CASE ~AccountOf
    <3>1. codes' = <<>>
      BY <1>3, <2>2, Elsewhere DEF AccountInv, AccountOf
    <3>2. Strays' = {}
      BY <3>1 DEF Strays
    <3>3. fails' \in Nat
      BY <1>3 DEF Calling
    <3>. QED
      BY <3>2, <3>3, FS_EmptySet DEF FewStrays
  <2>. QED
    BY <2>1, <2>2
<1>. QED
  BY <1>1, <1>2, <1>3, <1>4, PTL DEF Spec

(***************************************************************************)
(* A code that was not mailed, and stays, costs a failure of its own:      *)
(* there are never more of them than calls that failed or processes that   *)
(* died, whatever overlaps.  A mail that is refused leaves none            *)
(* (auth.service.ts: the code is stored before it is mailed).              *)
(***************************************************************************)
THEOREM StraysCostFailures == Spec => [](Cardinality(Strays) <= fails)
<1>1. FewStrays => Cardinality(Strays) <= fails
  BY DEF FewStrays
<1>. QED
  BY <1>1, FewAlways, PTL

(***************************************************************************)
(* A code that could not be mailed goes, whatever else runs meanwhile, as  *)
(* long as nothing dies on the way (auth.service.ts).                      *)
(***************************************************************************)
THEOREM UnmailedGoes == Spec => []UnmailedIsGone
<1>1. FewStrays => UnmailedIsGone
  <2>. SUFFICES ASSUME FewStrays, fails = 0 PROVE Strays = {}
    BY DEF Strays, UnmailedIsGone
  <2>1. Cardinality(Strays) = 0
    BY FS_CardinalityType DEF FewStrays
  <2>. QED
    BY <2>1, FS_EmptySet DEF FewStrays
<1>. QED
  BY <1>1, FewAlways, PTL

-----------------------------------------------------------------------------
(* No guess goes uncounted. *)

\* The tasks about to compare a guess with a code.
Guessing(i) == {r \in Req : At(r, "judge") /\ task[r].code = i}

Most == MaxTries + Cardinality(Req) - 1

\* The guesses under way are as good as made.
Guess ==
  \A i \in DOMAIN codes :
    codes[i].wrong = codes[i].tries /\ codes[i].wrong + Cardinality(Guessing(i)) <= Most

LEMMA Few ==
  ASSUME NEW S \in SUBSET Req, NEW T \in SUBSET S
  PROVE  /\ Cardinality(S) \in Nat /\ Cardinality(T) \in Nat /\ Cardinality(Req) \in Nat
         /\ Cardinality(T) <= Cardinality(S) /\ Cardinality(S) <= Cardinality(Req)
         /\ \A r \in S : Cardinality(S \ {r}) = Cardinality(S) - 1
<1>1. IsFiniteSet(Req)
  BY CallsAssumption
<1>2. IsFiniteSet(S) /\ IsFiniteSet(T)
  BY <1>1, FS_Subset
<1>. QED
  BY <1>1, <1>2, FS_Subset, FS_CardinalityType, FS_RemoveElement

\* A code that counts what it did, and at which no more guess, or few did yet.
LEMMA GuessKept ==
  ASSUME Held, Guess, NEW i \in DOMAIN codes, SameCount(codes[i], codes'[i]),
         Guessing(i)' \subseteq Guessing(i) \/ codes[i].tries < MaxTries
  PROVE  codes'[i].wrong = codes'[i].tries /\ codes'[i].wrong + Cardinality(Guessing(i)') <= Most
<1>1. codes[i] \in CodeRow
  BY DEF Held
<1>2. codes[i].wrong \in Nat
  BY <1>1 DEF CodeRow
<1>3. PICK S : S = Guessing(i)
  OBVIOUS
<1>4. PICK T : T = Guessing(i)'
  OBVIOUS
<1>5. S \subseteq Req /\ T \subseteq Req
  BY <1>3, <1>4 DEF Guessing
<1>6. /\ Cardinality(T) \in Nat /\ Cardinality(S) \in Nat /\ Cardinality(Req) \in Nat
      /\ Cardinality(T) <= Cardinality(Req)
      /\ T \subseteq S => Cardinality(T) <= Cardinality(S)
  BY <1>5, Few
<1>7. codes'[i].wrong = codes[i].wrong /\ codes'[i].tries = codes[i].tries
  BY DEF SameCount
<1>8. codes[i].wrong = codes[i].tries /\ codes[i].wrong + Cardinality(S) <= Most
  BY <1>3 DEF Guess
<1>9. codes[i].wrong + Cardinality(T) <= Most
  BY <1>2, <1>3, <1>4, <1>6, <1>8, CodesAssumption DEF Most
<1>. QED
  BY <1>4, <1>7, <1>8, <1>9

LEMMA WorkedGuess ==
  ASSUME Calling, Steady, Guess, NEW r \in Req, NEW u, Worked(r, u)
  PROVE  Guess'
<1>. DEFINE x == task[r]
<1>0. Held
  BY DEF Steady
<1>1. /\ task'[r] = u /\ \A s \in Req \ {r} : task'[s] = task[s]
      /\ x \in Holding
      /\ u # Idle => Learns(x, u) /\ Leads(x, u)
  BY WorkedOthers
<1>2. u.pc = "judge" => x.pc = "findCode" /\ u.code \in DOMAIN codes /\ codes[u.code].tries < MaxTries
  BY <1>1, IdleIs DEF Learns, Leads
<1>3. ASSUME NEW i, u.pc = "judge" => u.code # i PROVE Guessing(i)' \subseteq Guessing(i) \ {r}
  BY <1>1, <1>3 DEF Guessing, At
<1>4. CASE InsertCode(r)
  <2>1. x.pc = "insertCode"
    BY <1>4 DEF InsertCode, At
  <2>2. /\ DOMAIN codes = 1 .. Len(codes) /\ DOMAIN codes' = 1 .. Len(codes) + 1
        /\ \A k \in DOMAIN codes : codes'[k] = codes[k]
        /\ codes'[Len(codes) + 1].tries = 0 /\ codes'[Len(codes) + 1].wrong = 0
        /\ Len(codes) \in Nat
    BY <1>0, <1>4, InsertTyped
  <2>3. \A i : Guessing(i)' \subseteq Guessing(i)
    BY <1>2, <1>3, <2>1
  <2>4. ASSUME NEW i \in DOMAIN codes
        PROVE  codes'[i].wrong = codes'[i].tries /\ codes'[i].wrong + Cardinality(Guessing(i)') <= Most
    <3>1. SameCount(codes[i], codes'[i])
      BY <2>2 DEF SameCount
    <3>. QED
      BY <1>0, <2>3, <3>1, GuessKept
  <2>5. PICK n : n = Len(codes) + 1
    OBVIOUS
  <2>6. codes'[n].wrong = codes'[n].tries /\ codes'[n].wrong + Cardinality(Guessing(n)') <= Most
    <3>1. PICK T : T = Guessing(n)'
      OBVIOUS
    <3>2. T \subseteq Req
      BY <3>1 DEF Guessing
    <3>3. Cardinality(T) \in Nat /\ Cardinality(Req) \in Nat /\ Cardinality(T) <= Cardinality(Req)
      BY <3>2, Few
    <3>. QED
      BY <2>2, <2>5, <3>1, <3>3, CodesAssumption DEF Most
  <2>7. \A i \in DOMAIN codes' : i \in DOMAIN codes \/ i = n
    BY <2>2, <2>5
  <2>. QED
    BY <2>4, <2>6, <2>7 DEF Guess
<1>5. CASE ~InsertCode(r)
  <2>1. Tame /\ DOMAIN codes' = DOMAIN codes
    BY <1>0, <1>5, CodesAre, TameTyped
  <2>2. ASSUME ~Judge(r), NEW i \in DOMAIN codes
        PROVE  codes'[i].wrong = codes'[i].tries /\ codes'[i].wrong + Cardinality(Guessing(i)') <= Most
    <3>1. SameCount(codes[i], codes'[i])
      BY <1>0, <1>5, <2>2, CodesAre
    <3>2. Guessing(i)' \subseteq Guessing(i) \/ codes[i].tries < MaxTries
      BY <1>2, <1>3
    <3>. QED
      BY <1>0, <3>1, <3>2, GuessKept
  <2>3. ASSUME Judge(r), NEW i \in DOMAIN codes
        PROVE  codes'[i].wrong = codes'[i].tries /\ codes'[i].wrong + Cardinality(Guessing(i)') <= Most
    <3>1. x.pc = "judge" /\ Guessing(i)' \subseteq Guessing(i) \ {r}
      BY <1>2, <1>3, <2>3 DEF Judge, At
    <3>2. CASE SameCount(codes[i], codes'[i])
      BY <1>0, <3>1, <3>2, GuessKept
    <3>3. CASE codes' = Count(r) /\ i = x.code
      <4>1. codes'[i].tries = codes[i].tries + 1 /\ codes'[i].wrong = codes[i].wrong + 1
        BY <1>0, <3>3, Counts
      <4>2. PICK S : S = Guessing(i)
        OBVIOUS
      <4>3. PICK T : T = Guessing(i)'
        OBVIOUS
      <4>4. S \subseteq Req /\ r \in S /\ T \subseteq S \ {r}
        BY <3>1, <3>3, <4>2, <4>3 DEF Guessing, At
      <4>5. Cardinality(S) \in Nat /\ Cardinality(S \ {r}) = Cardinality(S) - 1
        BY <4>4, Few
      <4>6. Cardinality(T) \in Nat /\ Cardinality(T) <= Cardinality(S \ {r})
        BY <4>4, Few
      <4>7. codes[i] \in CodeRow
        BY <1>0 DEF Held
      <4>8. codes[i].wrong \in Nat
        BY <4>7 DEF CodeRow
      <4>9. codes[i].wrong = codes[i].tries /\ codes[i].wrong + Cardinality(S) <= Most
        BY <4>2 DEF Guess
      <4>10. Most \in Int
        BY Few, CodesAssumption DEF Most
      <4>. QED
        BY <4>1, <4>3, <4>5, <4>6, <4>8, <4>9, <4>10
    <3>4. CASE codes' = Count(r) /\ i # x.code
      BY <1>0, <3>2, <3>4, Counts
    <3>5. CASE codes' = [codes EXCEPT ![x.code].state =
                           IF codes[x.code].state = "gone" THEN codes[x.code].state ELSE "redeemed"]
      <4>1. codes[i] \in CodeRow
        BY <1>0 DEF Held
      <4>2. SameCount(codes[i], codes'[i])
        BY <3>5, <4>1 DEF SameCount, CodeRow
      <4>. QED
        BY <3>2, <4>2
    <3>. QED
      BY <2>3, <3>3, <3>4, <3>5 DEF Judge
  <2>. QED
    BY <2>1, <2>2, <2>3 DEF Guess
<1>. QED
  BY <1>4, <1>5

LEMMA StepGuess ==
  ASSUME Calling, AccountInv, AccountOf, [Next]_vars, Guess
  PROVE  Guess'
<1>0. Held /\ Steady /\ Shape
  BY Carries DEF Steady
<1>1. ASSUME UNCHANGED codes, \A i \in DOMAIN codes : Guessing(i)' \subseteq Guessing(i)
      PROVE  Guess'
  <2>1. \A i \in DOMAIN codes : SameCount(codes[i], codes'[i])
    BY <1>1 DEF SameCount
  <2>. QED
    BY <1>0, <1>1, <2>1, GuessKept DEF Guess
<1>2. ASSUME NEW r \in Req, NEW t, Asked(r, t) PROVE Guess'
  <2>1. /\ UNCHANGED codes /\ task'[r] = t /\ (\A s \in Req \ {r} : task'[s] = task[s])
        /\ t.pc # "judge"
    BY <1>2, AskedOthers DEF customer, Fresh
  <2>2. ASSUME NEW i PROVE Guessing(i)' \subseteq Guessing(i)
    BY <2>1 DEF Guessing, At
  <2>. QED
    BY <1>1, <2>1, <2>2
<1>3. ASSUME NEW r \in Req, NEW u, Worked(r, u) PROVE Guess'
  BY <1>0, <1>3, WorkedGuess
<1>4. ASSUME NEW r \in Req, Died(r) PROVE Guess'
  <2>1. UNCHANGED codes /\ task'[r] = Idle /\ \A s \in Req \ {r} : task'[s] = task[s]
    BY <1>4, DiedOthers DEF customer
  <2>2. ASSUME NEW i PROVE Guessing(i)' \subseteq Guessing(i)
    BY <2>1, IdleIs DEF Guessing, At
  <2>. QED
    BY <1>1, <2>1, <2>2
<1>5. CASE Passed
  <2>1. UNCHANGED task /\ DOMAIN codes' = DOMAIN codes
        /\ \A i \in DOMAIN codes : SameCount(codes[i], codes'[i])
    BY <1>0, <1>5, TimeTame, TameTyped DEF Passed, calls
  <2>2. ASSUME NEW i PROVE Guessing(i)' \subseteq Guessing(i)
    BY <2>1 DEF Guessing, At
  <2>. QED
    BY <1>0, <2>1, <2>2, GuessKept DEF Guess
<1>6. CASE UNCHANGED <<customer, calls>>
  <2>1. ASSUME NEW i PROVE Guessing(i)' \subseteq Guessing(i)
    BY <1>6 DEF Guessing, At, calls
  <2>. QED
    BY <1>1, <1>6, <2>1 DEF customer
<1>. QED
  BY <1>0, <1>2, <1>3, <1>4, <1>5, <1>6 DEF Shape

(***************************************************************************)
(* However many guesses race at a code, it is compared with no more wrong  *)
(* ones than it may be and one for each other task (auth.service.ts,       *)
(* consumeOtp).                                                            *)
(***************************************************************************)
THEOREM GuessesAreCounted == Spec => []GuessesBounded
<1>. DEFINE Inv == AccountOf => Guess
<1>1. Init => Calling /\ AccountInv
  BY InitCalling, InitAccount
<1>2. Init => Inv
  BY DEF Init, CodesInit, Guess
<1>3. Calling /\ AccountInv /\ [Next]_vars => (Calling /\ AccountInv)'
  BY StepCalling, StepAccount
<1>4. Calling /\ AccountInv /\ Inv /\ [Next]_vars => Inv'
  <2>1. AccountOf' /\ ~AccountOf /\ [Next]_vars => FALSE
    BY Elsewhere DEF AccountOf
  <2>. QED
    BY <2>1, StepGuess
<1>5. AccountInv /\ Inv => GuessesBounded
  <2>1. ASSUME AccountInv, AccountOf, Guess, NEW i \in DOMAIN codes
        PROVE  codes[i].wrong <= MaxTries + Cardinality(Req) - 1
    <3>1. codes[i] \in CodeRow
      BY <2>1 DEF AccountInv, Steady, Held
    <3>2. codes[i].wrong \in Nat
      BY <3>1 DEF CodeRow
    <3>3. Guessing(i) \subseteq Req
      BY DEF Guessing
    <3>4. Cardinality(Guessing(i)) \in Nat /\ Cardinality(Req) \in Nat
      BY <3>3, Few
    <3>. QED
      BY <2>1, <3>2, <3>4, CodesAssumption DEF Guess, Most
  <2>. QED
    BY <2>1 DEF AccountInv, GuessesBounded
<1>. QED
  <2>. HIDE DEF Inv
  <2>. QED
    BY <1>1, <1>2, <1>3, <1>4, <1>5, PTL DEF Spec

-----------------------------------------------------------------------------
(* Suspensions. *)

\* Whatever a customer began while the account was suspended.
Abides == \A r \in Req : Busy(r) => Bows(task[r])

LEMMA StepAbides ==
  ASSUME Calling, AccountInv, AccountOf, [Next]_vars, Abides
  PROVE  Abides'
<1>0. Held /\ Steady /\ Shape
  BY Carries DEF Steady
<1>1. ASSUME NEW r \in Req, NEW t, Asked(r, t) PROVE Abides'
  <2>1. /\ task'[r] = t /\ Bows(t) /\ \A s \in Req \ {r} : task'[s] = task[s]
    BY <1>1, AskedOthers DEF Fresh
  <2>. QED
    BY <2>1 DEF Abides, Bows, Busy
<1>2. ASSUME NEW r \in Req, NEW u, Worked(r, u) PROVE Abides'
  <2>. DEFINE x == task[r]
  <2>1. /\ task'[r] = u /\ \A s \in Req \ {r} : task'[s] = task[s]
        /\ u # Idle => Learns(x, u) /\ Leads(x, u)
    BY <1>0, <1>2, WorkedOthers
  <2>2. Bows(x)
    BY <1>2 DEF Abides, Worked
  <2>3. u # Idle => Bows(u)
    <3>1. ASSUME u # Idle, u.late, ~u.desk PROVE u.status = "suspended" /\ u.pc \notin Rereading
      <4>1. x.status = "suspended" /\ x.pc \notin Rereading
        BY <2>1, <2>2, <3>1 DEF Learns, Bows
      <4>. QED
        BY <2>1, <3>1, <4>1 DEF Learns, Leads, Rereading
    <3>. QED
      BY <3>1 DEF Bows
  <2>. QED
    BY <2>1, <2>3 DEF Abides, Bows, Busy
<1>3. ASSUME NEW r \in Req, Died(r) PROVE Abides'
  <2>1. task'[r] = Idle /\ \A s \in Req \ {r} : task'[s] = task[s]
    BY <1>3, DiedOthers
  <2>. QED
    BY <2>1 DEF Abides, Bows, Busy
<1>4. CASE UNCHANGED task
  BY <1>4 DEF Abides, Bows, Busy
<1>. QED
  BY <1>0, <1>1, <1>2, <1>3, <1>4 DEF Shape, Passed, calls

\* Whose step lifts a suspension.
LEMMA Lifted ==
  ASSUME Calling, AccountInv, [Next]_vars, AccountOf => Abides,
         Is("suspended"), ~Is("suspended")', NEW r \in Req, task'[r] # task[r]
  PROVE  task[r].desk \/ ~task[r].late
<1>1. AccountOf
  BY Elsewhere DEF customer, Is
<1>2. Held /\ Steady /\ Shape
  BY <1>1, Carries DEF Steady
<1>3. ~UNCHANGED account
  BY DEF Is
<1>4. PICK s \in Req : \E u : Worked(s, u)
  BY <1>2, <1>3, AskedOthers, DiedOthers DEF Shape, Passed, customer
<1>5. PICK u : Worked(s, u)
  BY <1>4
<1>6. s = r /\ Busy(r)
  BY <1>2, <1>5, WorkedOthers DEF Worked
<1>7. account'.status = task[r].status /\ (At(r, "saveUser") \/ At(r, "insertUser"))
  BY <1>2, <1>3, <1>5, <1>6, AccountIs
<1>8. task[r].status # "suspended"
  BY <1>7 DEF Is
<1>. QED
  BY <1>1, <1>6, <1>8 DEF Abides, Bows

(***************************************************************************)
(* No customer's request begun while the account is suspended, whichever   *)
(* it is and whatever overlaps with it, lifts the suspension: an operator  *)
(* does, or a task that was under way before it (auth.service.ts,          *)
(* users.service.ts).                                                      *)
(***************************************************************************)
THEOREM SuspensionsHold == Spec => SuspensionHolds
<1>. DEFINE Inv == AccountOf => Abides
<1>1. Init => Calling /\ AccountInv
  BY InitCalling, InitAccount
<1>2. Init => Inv
  BY DEF Init, CallsInit, Abides, Busy
<1>3. Calling /\ AccountInv /\ [Next]_vars => (Calling /\ AccountInv)'
  BY StepCalling, StepAccount
<1>4. Calling /\ AccountInv /\ Inv /\ [Next]_vars => Inv'
  <2>1. AccountOf' /\ ~AccountOf /\ [Next]_vars => FALSE
    BY Elsewhere DEF AccountOf
  <2>. QED
    BY <2>1, StepAbides
<1>5. Calling /\ AccountInv /\ Inv /\ [Next]_vars =>
        [\A r \in Req :
           Is("suspended") /\ ~Is("suspended")' /\ task'[r] # task[r] =>
             task[r].desk \/ ~task[r].late
        ]_<<account, calls>>
  BY Lifted
<1>. QED
  <2>. HIDE DEF Inv
  <2>. QED
    BY <1>1, <1>2, <1>3, <1>4, <1>5, PTL DEF Spec, SuspensionHolds

-----------------------------------------------------------------------------
(* Evictions. *)

\* Every session was opened under the password there is.
UpToDate == \A s \in DOMAIN sessions : sessions[s].live => sessions[s].pass = account.pass

Granting == {"findCode", "judge", "lockCode", "readUser", "saveUser", "deleteCodes",
             "revokeAll", "mint"}

\* It is so, or all are about to be revoked; and who is let in was by that password.
Evicting ==
  alone =>
    /\ UpToDate \/ \E r \in Req : task[r].pc \in {"deleteCodes", "revokeAll"}
    /\ \A r \in Req :
         /\ task[r].pc \in Granting => task[r].under = account.pass
         /\ At(r, "rotate") => sessions[task[r].token].pass = account.pass

\* A task that dies is not one that is about to revoke the sessions.
SparesRevoke ==
  fails' # fails =>
    \A r \in Req : task[r].pc \in {"deleteCodes", "revokeAll"} => task'[r] = task[r]

\* A step of the only task there is.
LEMMA WorkedEvicts ==
  ASSUME Calling, Steady, Steady', Evicting, NEW r \in Req, NEW u, Worked(r, u), alone'
  PROVE  Evicting'
<1>. DEFINE x == task[r]
<1>0. Held /\ NoneYet
  BY DEF Steady
<1>1. /\ task'[r] = u /\ alone
      /\ \A s \in Req \ {r} : task[s] = Idle /\ task'[s] = Idle
      /\ x \in Holding /\ Rooted(x)
      /\ IF u = Idle THEN Ends(x) ELSE Learns(x, u) /\ Leads(x, u)
  BY WorkedOthers
<1>2. /\ UpToDate \/ x.pc \in {"deleteCodes", "revokeAll"}
      /\ x.pc \in Granting => x.under = account.pass
      /\ At(r, "rotate") => sessions[x.token].pass = account.pass
  BY <1>1, IdleIs DEF Evicting
<1>3. /\ At(r, "mint") => OpenBy(DOMAIN sessions, x.under)
      /\ At(r, "rotate") => OpenBy(DOMAIN sessions, sessions[x.token].pass)
      /\ At(r, "revokeAll") => \A s \in DOMAIN sessions' : ~sessions'[s].live
      /\ At(r, "revoke") => \A p : OpenBy(DOMAIN sessions, p)
      /\ x.pc \notin {"mint", "rotate", "revoke", "revokeAll"} => UNCHANGED sessions
  <2>1. At(r, "rotate") => x.token \in DOMAIN sessions
    BY <1>1 DEF Rooted, At
  <2>. QED
    BY <1>0, <2>1, SessionsAre DEF Worked
<1>4. /\ \/ UNCHANGED account /\ ~At(r, "saveUser")
         \/ At(r, "saveUser") /\ account'.pass = IF x.pass THEN account.pass + 1 ELSE account.pass
         \/ At(r, "insertUser") /\ Is("none") /\ account'.pass = IF x.pass THEN 1 ELSE 0
  BY <1>0, AccountIs
<1>5. account.pass \in Nat
  BY <1>0 DEF Held
<1>6. ASSUME UpToDate' \/ u.pc \in {"deleteCodes", "revokeAll"},
             u.pc \in Granting => u.under = account'.pass, u.pc # "rotate"
      PROVE  Evicting'
  BY <1>1, <1>6, IdleIs DEF Evicting, Granting, At
<1>7. u.pc # "rotate"
  BY <1>1, IdleIs DEF Leads
<1>8. u.pc \in Granting => u.under = account'.pass
  <2>1. SUFFICES ASSUME u.pc \in Granting PROVE u.under = account'.pass
    OBVIOUS
  <2>2. u # Idle /\ Learns(x, u) /\ Leads(x, u)
    BY <1>1, <2>1, IdleIs DEF Granting
  <2>3. CASE x.pc = "insertUser"
    <3>1. u.under = 0 /\ ~x.pass
      BY <1>1, <2>1, <2>2, <2>3 DEF Learns, Leads, Rooted, Granting
    <3>2. account'.pass = 0
      <4>1. CASE Is("none")
        BY <1>0, <1>4, <2>3, <3>1, <4>1 DEF NoneYet, At
      <4>2. CASE ~Is("none")
        <5>1. InsertUser(r)
          BY <2>3 DEF Worked, CodeStep, Retire, InsertCode, Mail, DropCode, FindCode, LockCode, Judge,
                AccountStep, InsertUser, ReadUser, SaveUser, DeleteCodes, RevokeAll, Mint, Rotate, Revoke,
                At
        <5>2. task' = [task EXCEPT ![r] = Idle]
          BY <4>2, <5>1 DEF InsertUser, Finish, Resume
        <5>. QED
          BY <1>1, <2>2, <5>2, TaskAt
      <4>. QED
        BY <4>1, <4>2
    <3>. QED
      BY <3>1, <3>2
  <2>4. CASE x.pc = "saveUser"
    BY <1>2, <1>4, <2>2, <2>4 DEF Learns, Granting, At
  <2>5. CASE x.pc \notin {"insertUser", "saveUser"}
    <3>1. x.pc \in Granting /\ u.under = x.under
      BY <2>1, <2>2, <2>5 DEF Learns, Leads, Granting
    <3>2. UNCHANGED account
      BY <1>4, <2>5 DEF At
    <3>. QED
      BY <1>2, <3>1, <3>2
  <2>. QED
    BY <2>3, <2>4, <2>5
<1>9. UpToDate' \/ u.pc \in {"deleteCodes", "revokeAll"}
  <2>1. CASE x.pc \in {"mint", "rotate", "revoke"}
    <3>1. UNCHANGED account /\ UpToDate
      BY <1>2, <1>4, <2>1 DEF At
    <3>2. OpenBy(DOMAIN sessions, account.pass)
      BY <1>2, <1>3, <2>1 DEF Granting, At
    <3>. QED
      BY <3>1, <3>2 DEF OpenBy, UpToDate
  <2>2. CASE x.pc = "revokeAll"
    BY <1>3, <2>2 DEF UpToDate, At
  <2>3. CASE x.pc = "deleteCodes" \/ (x.pc = "saveUser" /\ x.pass)
    BY <1>1, <2>3, IdleIs DEF Ends, Leads
  <2>4. CASE x.pc = "insertUser"
    <3>1. UNCHANGED sessions /\ UpToDate
      BY <1>2, <1>3, <2>4
    <3>2. CASE Is("none")
      BY <1>0, <3>1, <3>2 DEF NoneYet, UpToDate
    <3>3. CASE UNCHANGED account
      BY <3>1, <3>3 DEF UpToDate
    <3>. QED
      BY <1>4, <2>4, <3>2, <3>3 DEF At
  <2>5. CASE x.pc \notin {"mint", "rotate", "revoke", "revokeAll", "deleteCodes", "insertUser"}
             /\ ~(x.pc = "saveUser" /\ x.pass)
    <3>1. UNCHANGED sessions /\ UpToDate /\ account'.pass = account.pass
      BY <1>1, <1>2, <1>3, <1>4, <2>5 DEF At, Holding
    <3>. QED
      BY <3>1 DEF UpToDate
  <2>. QED
    BY <2>1, <2>2, <2>3, <2>4, <2>5
<1>. QED
  BY <1>6, <1>7, <1>8, <1>9

LEMMA StepEvicting ==
  ASSUME Calling, AccountInv, AccountOf, [Next]_vars, SparesRevoke, Evicting
  PROVE  Evicting'
<1>0. Held /\ NoneYet /\ Steady /\ Steady' /\ Shape
  BY Carries DEF Steady
<1>1. SUFFICES ASSUME alone' PROVE Evicting'
  BY DEF Evicting
<1>2. ASSUME NEW r \in Req, NEW t, Asked(r, t) PROVE Evicting'
  <2>1. /\ UNCHANGED <<account, sessions>> /\ task'[r] = t /\ Fresh(t) /\ alone
        /\ task[r] = Idle /\ \A s \in Req \ {r} : task[s] = Idle /\ task'[s] = Idle
    BY <1>1, <1>2, AskedOthers DEF customer
  <2>2. UpToDate
    BY <2>1, IdleIs DEF Evicting
  <2>3. t.under = account.pass
    BY <2>1 DEF Fresh
  <2>4. t.pc = "rotate" => sessions[t.token].pass = account.pass
    BY <2>1, <2>2 DEF Fresh, UpToDate
  <2>. QED
    BY <2>1, <2>2, <2>3, <2>4, IdleIs DEF Evicting, UpToDate, Granting, At
<1>3. ASSUME NEW r \in Req, NEW u, Worked(r, u) PROVE Evicting'
  BY <1>0, <1>1, <1>3, WorkedEvicts
<1>4. ASSUME NEW r \in Req, Died(r) PROVE Evicting'
  <2>1. /\ task'[r] = Idle /\ (\A s \in Req \ {r} : task'[s] = task[s]) /\ alone
        /\ UNCHANGED <<account, sessions>>
    BY <1>1, <1>4, DiedOthers DEF customer
  <2>2. fails' # fails /\ task[r] # Idle
    BY <1>4, CallsAssumption DEF Died, Calling, Busy
  <2>3. UpToDate \/ \E s \in Req \ {r} : task[s].pc \in {"deleteCodes", "revokeAll"}
    BY <2>1, <2>2 DEF Evicting, SparesRevoke
  <2>. QED
    BY <2>1, <2>3, IdleIs DEF Evicting, UpToDate, Granting, At
<1>5. CASE UNCHANGED <<account, sessions, calls>>
  BY <1>5 DEF Evicting, UpToDate, calls, At
<1>. QED
  BY <1>0, <1>2, <1>3, <1>4, <1>5 DEF Shape, Passed, customer, calls

\* NewPasswordEvicts, where tasks die.
SessionsAreCurrent == alone /\ Quiet => UpToDate

LEMMA InitEvicts == Init => Evicting
BY DEF Init, AccountInit, CallsInit, Evicting, UpToDate, Granting, At, Idle

LEMMA EvictsQuietly == Calling /\ AccountInv /\ (AccountOf => Evicting) => SessionsAreCurrent
<1>1. AccountOf /\ Evicting => SessionsAreCurrent
  BY IdleIs DEF Evicting, SessionsAreCurrent, Quiet, Busy
<1>2. AccountInv /\ ~AccountOf => SessionsAreCurrent
  BY DEF AccountInv, SessionsAreCurrent, UpToDate
<1>. QED
  BY <1>1, <1>2

(***************************************************************************)
(* As long as requests do not overlap, no session outlives a new password, *)
(* however it was set and wherever tasks die but in one place: after the   *)
(* password was stored and before the sessions are revoked, which          *)
(* resetPassword, changePassword and adminResetPassword do one after the   *)
(* other and outside a transaction.                                        *)
(***************************************************************************)
THEOREM EvictedUnlessCut == Spec /\ [][SparesRevoke]_vars => []SessionsAreCurrent
<1>. DEFINE Inv == AccountOf => Evicting
<1>1. Init => Calling /\ AccountInv /\ Inv
  BY InitCalling, InitAccount, InitEvicts
<1>2. Calling /\ AccountInv /\ [Next]_vars => (Calling /\ AccountInv)'
  BY StepCalling, StepAccount
<1>3. Calling /\ AccountInv /\ Inv /\ [Next]_vars /\ [SparesRevoke]_vars => Inv'
  <2>1. AccountOf' /\ ~AccountOf /\ [Next]_vars => FALSE
    BY Elsewhere DEF AccountOf
  <2>2. UNCHANGED vars => SparesRevoke
    BY DEF vars, calls, SparesRevoke
  <2>. QED
    BY <2>1, <2>2, StepEvicting
<1>4. Calling /\ AccountInv /\ Inv => SessionsAreCurrent
  BY EvictsQuietly
<1>. QED
  <2>. HIDE DEF Inv
  <2>. QED
    BY <1>1, <1>2, <1>3, <1>4, PTL DEF Spec

(***************************************************************************)
(* Once a new password is in, by a reset, a change or an operator, and     *)
(* nothing is under way, no session is left that was opened under an       *)
(* earlier one; as long as requests do not overlap and none dies           *)
(* (auth.service.ts, users.service.ts).                                    *)
(***************************************************************************)
THEOREM NewPasswordsEvict == Spec => []NewPasswordEvicts
<1>. DEFINE Inv == AccountOf /\ fails = 0 => Evicting
<1>1. Init => Calling /\ AccountInv /\ Inv
  BY InitCalling, InitAccount, InitEvicts
<1>2. Calling /\ AccountInv /\ [Next]_vars => (Calling /\ AccountInv)'
  BY StepCalling, StepAccount
<1>3. Calling /\ AccountInv /\ Inv /\ [Next]_vars => Inv'
  <2>. SUFFICES ASSUME Calling, AccountInv, Inv, [Next]_vars, AccountOf', fails' = 0
                PROVE  Evicting'
    OBVIOUS
  <2>1. AccountOf
    BY Elsewhere DEF AccountOf
  <2>2. fails = 0
    BY <2>1, StraysGrow, CallsAssumption DEF Calling
  <2>3. SparesRevoke
    BY <2>2 DEF SparesRevoke
  <2>. QED
    BY <2>1, <2>2, <2>3, StepEvicting
<1>4. Calling /\ AccountInv /\ Inv => NewPasswordEvicts
  BY EvictsQuietly DEF SessionsAreCurrent, UpToDate, NewPasswordEvicts
<1>. QED
  <2>. HIDE DEF Inv
  <2>. QED
    BY <1>1, <1>2, <1>3, <1>4, PTL DEF Spec

-----------------------------------------------------------------------------
(* Types: the tables do not outgrow the requests. *)

\* The tasks that run, and those that may yet draw a code: each makes a row at most.
Running == {r \in Req : Busy(r)}
Drawing == {r \in Running : task[r].pc \notin {"mail", "dropCode"}}

Room ==
  /\ Len(codes) + Cardinality(Drawing) <= started
  /\ Len(sessions) + Cardinality(Running) <= started

\* What a task refers to exists.
Refers(t) ==
  /\ t.code \in {0} \cup DOMAIN codes /\ t.guess \in {0} \cup DOMAIN codes
  /\ t.token \in {0} \cup DOMAIN sessions

Fits == Room /\ \A r \in Req : Busy(r) => Refers(task[r])

LEMMA OneMore ==
  ASSUME NEW S \in SUBSET Req, NEW T \in SUBSET Req, NEW r \in Req, T \subseteq S \cup {r}
  PROVE  Cardinality(S) \in Nat /\ Cardinality(T) \in Nat /\ Cardinality(T) <= Cardinality(S) + 1
<1>1. IsFiniteSet(S) /\ IsFiniteSet(T)
  BY CallsAssumption, FS_Subset
<1>2. Cardinality(S) \in Nat /\ Cardinality(T) \in Nat
  BY <1>1, FS_CardinalityType
<1>3. IsFiniteSet(S \cup {r}) /\ Cardinality(S \cup {r}) \in {Cardinality(S), Cardinality(S) + 1}
  BY <1>1, FS_AddElement
<1>4. Cardinality(T) <= Cardinality(S \cup {r})
  BY <1>3, FS_Subset
<1>. QED
  BY <1>2, <1>3, <1>4

\* How a table may grow: by a row for one more request, or for a task that is done with it.
LEMMA Grows ==
  ASSUME NEW S \in SUBSET Req, NEW T \in SUBSET Req, NEW r \in Req,
         NEW m \in Nat, NEW n \in Nat, NEW p \in Nat, NEW q \in Nat,
         m + Cardinality(S) <= p,
         \/ n = m /\ T \subseteq S \cup {r} /\ q = p + 1
         \/ n = m /\ T \subseteq S /\ q = p
         \/ n = m + 1 /\ r \in S /\ T \subseteq S \ {r} /\ q = p
  PROVE  n + Cardinality(T) <= q
<1>1. CASE n = m /\ T \subseteq S \cup {r} /\ q = p + 1
  <2>1. Cardinality(S) \in Nat /\ Cardinality(T) \in Nat /\ Cardinality(T) <= Cardinality(S) + 1
    BY <1>1, OneMore
  <2>. QED
    BY <1>1, <2>1
<1>2. CASE n = m /\ T \subseteq S /\ q = p
  <2>1. Cardinality(S) \in Nat /\ Cardinality(T) \in Nat /\ Cardinality(T) <= Cardinality(S)
    BY <1>2, Few
  <2>. QED
    BY <1>2, <2>1
<1>3. CASE n = m + 1 /\ r \in S /\ T \subseteq S \ {r} /\ q = p
  <2>1. Cardinality(S) \in Nat /\ Cardinality(S \ {r}) = Cardinality(S) - 1
    BY <1>3, Few
  <2>2. Cardinality(T) \in Nat /\ Cardinality(T) <= Cardinality(S \ {r})
    BY <1>3, Few
  <2>. QED
    BY <1>3, <2>1, <2>2
<1>. QED
  BY <1>1, <1>2, <1>3

\* The same, of both tables at once.
LEMMA RoomLeft ==
  ASSUME Held, Held', started \in Nat, started' \in Nat, Room, NEW r \in Req,
         \/ /\ Len(codes') = Len(codes) /\ Drawing' \subseteq Drawing \cup {r}
            /\ Len(sessions') = Len(sessions) /\ Running' \subseteq Running \cup {r}
            /\ started' = started + 1
         \/ /\ \/ Len(codes') = Len(codes) /\ Drawing' \subseteq Drawing
               \/ Len(codes') = Len(codes) + 1 /\ r \in Drawing /\ Drawing' \subseteq Drawing \ {r}
            /\ \/ Len(sessions') = Len(sessions) /\ Running' \subseteq Running
               \/ Len(sessions') = Len(sessions) + 1 /\ r \in Running /\ Running' \subseteq Running \ {r}
            /\ started' = started
  PROVE  Room'
<1>1. PICK S : S = Drawing
  OBVIOUS
<1>2. PICK T : T = Drawing'
  OBVIOUS
<1>3. PICK U : U = Running
  OBVIOUS
<1>4. PICK V : V = Running'
  OBVIOUS
<1>5. S \subseteq Req /\ T \subseteq Req /\ U \subseteq Req /\ V \subseteq Req
  BY <1>1, <1>2, <1>3, <1>4 DEF Drawing, Running
<1>6. /\ Len(codes) \in Nat /\ Len(codes') \in Nat
      /\ Len(sessions) \in Nat /\ Len(sessions') \in Nat
  BY DEF Held
<1>7. Len(codes) + Cardinality(S) <= started /\ Len(sessions) + Cardinality(U) <= started
  BY <1>1, <1>3 DEF Room
<1>8. Len(codes') + Cardinality(T) <= started'
  BY <1>1, <1>2, <1>5, <1>6, <1>7, Grows
<1>9. Len(sessions') + Cardinality(V) <= started'
  BY <1>3, <1>4, <1>5, <1>6, <1>7, Grows
<1>. QED
  BY <1>2, <1>4, <1>8, <1>9 DEF Room


\* What a step that works makes of the sessions.
LEMMA SessionGrows ==
  ASSUME Calling, Steady, NEW r \in Req, NEW u, Worked(r, u)
  PROVE  /\ sessions' \in Seq(SessionRow) /\ DOMAIN sessions \subseteq DOMAIN sessions'
         /\ \/ Len(sessions') = Len(sessions)
            \/ Len(sessions') = Len(sessions) + 1 /\ u = Idle
<1>0. /\ sessions \in Seq(SessionRow) /\ account \in [status : Status, pass : Nat]
      /\ task[r] \in Holding /\ Rooted(task[r])
      /\ u # Idle => Leads(task[r], u)
  BY WorkedOthers DEF Steady, Held
<1>1. At(r, "rotate") => task[r].token \in DOMAIN sessions
  BY <1>0 DEF Rooted, At
<1>2. /\ sessions' \in Seq(SessionRow) /\ DOMAIN sessions \subseteq DOMAIN sessions'
      /\ ~At(r, "mint") /\ ~At(r, "rotate") => DOMAIN sessions' = DOMAIN sessions
  BY <1>1, SessionsAre DEF Worked, Steady
<1>3. At(r, "mint") \/ At(r, "rotate") => u = Idle
  BY <1>0 DEF Leads, At
<1>4. CASE At(r, "mint") \/ At(r, "rotate")
  <2>1. PICK p : p = IF At(r, "mint") THEN task[r].under ELSE sessions[task[r].token].pass
    OBVIOUS
  <2>2. Mint(r) \/ Rotate(r)
    BY <1>4 DEF Worked, CodeStep, Retire, InsertCode, Mail, DropCode, FindCode, LockCode, Judge,
                AccountStep, InsertUser, ReadUser, SaveUser, DeleteCodes, RevokeAll, Mint, Rotate,
                Revoke, At
  <2>3. PICK row : row = [pass |-> p, live |-> TRUE]
    OBVIOUS
  <2>4. PICK more : more = Append(sessions, row)
    OBVIOUS
  <2>5. DOMAIN more = 1 .. Len(sessions) + 1 /\ Len(sessions) \in Nat
    BY <1>0, <2>4
  <2>6. DOMAIN sessions' = DOMAIN more
    <3>1. CASE Mint(r)
      BY <2>1, <2>3, <2>4, <3>1 DEF Mint, Opened
    <3>2. CASE Rotate(r)
      <4>1. ~At(r, "mint")
        BY <3>2 DEF Rotate, At
      <4>2. sessions' = [more EXCEPT ![task[r].token].live = FALSE]
        BY <2>1, <2>3, <2>4, <3>2, <4>1 DEF Rotate, Opened
      <4>. QED
        BY <4>2
    <3>. QED
      BY <2>2, <3>1, <3>2
  <2>7. Len(sessions') = Len(sessions) + 1
    BY <1>2, <2>5, <2>6
  <2>. QED
    BY <1>2, <1>3, <1>4, <2>7
<1>5. CASE ~(At(r, "mint") \/ At(r, "rotate"))
  <2>1. Len(sessions') = Len(sessions)
    BY <1>0, <1>2, <1>5
  <2>. QED
    BY <1>2, <2>1
<1>. QED
  BY <1>4, <1>5

LEMMA WorkedFits ==
  ASSUME Calling, Steady, Steady', Fits, NEW r \in Req, NEW u, Worked(r, u)
  PROVE  Fits'
<1>. DEFINE x == task[r]
<1>0. Held /\ Held' /\ started \in Nat /\ started' = started /\ Room
  BY DEF Steady, Calling, Fits, Worked, StepsTo
<1>1. /\ task'[r] = u /\ \A s \in Req \ {r} : task'[s] = task[s]
      /\ x \in Holding /\ x.pc # "idle"
      /\ u = Idle => Ends(x)
      /\ u # Idle => Learns(x, u) /\ Leads(x, u)
  BY WorkedOthers
<1>2. Busy(r) /\ r \in Running /\ Refers(x)
  BY DEF Worked, Running, Fits
<1>3. /\ DOMAIN sessions \subseteq DOMAIN sessions'
      /\ \/ Len(sessions') = Len(sessions)
         \/ Len(sessions') = Len(sessions) + 1 /\ u = Idle
  BY SessionGrows
<1>4. Running' \subseteq Running /\ (u = Idle => Running' \subseteq Running \ {r})
  BY <1>1, <1>2 DEF Running, Busy
<1>5. Drawing' \subseteq Drawing
  <2>1. u # Idle /\ u.pc \notin {"mail", "dropCode"} => x.pc \notin {"mail", "dropCode"}
    BY <1>1 DEF Leads
  <2>. QED
    BY <1>1, <1>4, <2>1 DEF Drawing, Running, Busy
<1>6. /\ DOMAIN codes \subseteq DOMAIN codes'
      /\ InsertCode(r) => Len(codes') \in DOMAIN codes'
      /\ \/ Len(codes') = Len(codes)
         \/ Len(codes') = Len(codes) + 1 /\ r \in Drawing /\ Drawing' \subseteq Drawing \ {r}
  <2>1. CASE InsertCode(r)
    <3>1. x.pc = "insertCode"
      BY <2>1 DEF InsertCode, At
    <3>2. u # Idle /\ u.pc = "mail"
      BY <1>1, <3>1 DEF Ends, Leads
    <3>3. r \in Drawing /\ r \notin Drawing'
      BY <1>1, <1>2, <3>1, <3>2 DEF Drawing
    <3>. QED
      BY <1>0, <1>5, <2>1, <3>3, InsertTyped
  <2>2. CASE ~InsertCode(r)
    <3>1. Tame
      BY <1>0, <2>2, CodesAre
    <3>. QED
      BY <1>0, <2>2, <3>1, TameTyped
  <2>. QED
    BY <2>1, <2>2
<1>7. Room'
  BY <1>0, <1>2, <1>3, <1>4, <1>5, <1>6, RoomLeft
<1>8. u # Idle => Refers(u)'
  <2>1. ASSUME u # Idle PROVE /\ u.code \in {0} \cup DOMAIN codes'
                              /\ u.guess = x.guess /\ u.token = x.token
    <3>1. Learns(x, u)
      BY <1>1, <2>1
    <3>2. CASE x.pc = "insertCode"
      <4>1. InsertCode(r)
        BY <3>2 DEF Worked, CodeStep, Retire, InsertCode, Mail, DropCode, FindCode, LockCode, Judge,
                    AccountStep, InsertUser, ReadUser, SaveUser, DeleteCodes, RevokeAll, Mint, Rotate,
                    Revoke, At
      <4>. QED
        BY <1>6, <3>1, <3>2, <4>1 DEF Learns
    <3>3. CASE x.pc # "insertCode"
      BY <1>2, <1>6, <3>1, <3>3 DEF Learns, Refers
    <3>. QED
      BY <3>1, <3>2, <3>3 DEF Learns
  <2>. QED
    BY <1>2, <1>3, <1>6, <2>1 DEF Refers
<1>9. ASSUME NEW s \in Req \ {r}, Busy(s)' PROVE Refers(task[s])'
  <2>1. task'[s] = task[s] /\ Refers(task[s])
    BY <1>1, <1>9 DEF Busy, Fits
  <2>. QED
    BY <1>3, <1>6, <2>1 DEF Refers
<1>. QED
  BY <1>1, <1>7, <1>8, <1>9 DEF Fits, Busy


LEMMA StepFits ==
  ASSUME Calling, AccountInv, AccountOf, [Next]_vars, Fits
  PROVE  Fits'
<1>0. Steady /\ Steady' /\ Held /\ Held' /\ Shape /\ started \in Nat /\ Room
  BY Carries DEF Steady, Calling, Fits
<1>1. ASSUME NEW r \in Req, NEW t, Asked(r, t) PROVE Fits'
  <2>1. /\ UNCHANGED customer /\ started' = started + 1
        /\ task'[r] = t /\ (\A s \in Req \ {r} : task'[s] = task[s])
        /\ Fresh(t)
    BY <1>1, AskedOthers DEF Asked, Call
  <2>2. Running' \subseteq Running \cup {r} /\ Drawing' \subseteq Drawing \cup {r}
    BY <2>1 DEF Running, Drawing, Busy
  <2>3. Room'
    BY <1>0, <2>1, <2>2, RoomLeft DEF customer
  <2>4. Refers(t)'
    BY <2>1 DEF Fresh, Refers, customer, NoCode
  <2>5. ASSUME NEW s \in Req \ {r}, Busy(s)' PROVE Refers(task[s])'
    BY <2>1, <2>5 DEF Busy, Fits, Refers, customer
  <2>. QED
    BY <2>1, <2>3, <2>4, <2>5 DEF Fits
<1>2. ASSUME NEW r \in Req, NEW u, Worked(r, u) PROVE Fits'
  BY <1>0, <1>2, WorkedFits
<1>3. ASSUME NEW r \in Req, Died(r) PROVE Fits'
  <2>1. /\ UNCHANGED customer /\ started' = started
        /\ task'[r] = Idle /\ \A s \in Req \ {r} : task'[s] = task[s]
    BY <1>3, DiedOthers DEF Died
  <2>2. Running' \subseteq Running /\ Drawing' \subseteq Drawing
    BY <2>1 DEF Running, Drawing, Busy
  <2>3. Room'
    BY <1>0, <2>1, <2>2, RoomLeft DEF customer
  <2>4. ASSUME NEW s \in Req, Busy(s)' PROVE Refers(task[s])'
    BY <2>1, <2>4 DEF Busy, Fits, Refers, customer
  <2>. QED
    BY <2>3, <2>4 DEF Fits
<1>4. CASE Passed
  <2>1. /\ UNCHANGED <<sessions, task, started>>
        /\ DOMAIN codes' = DOMAIN codes /\ Len(codes') = Len(codes)
    BY <1>0, <1>4, TimeTame, TameTyped DEF Passed, calls
  <2>2. Running' = Running /\ Drawing' = Drawing
    BY <2>1 DEF Running, Drawing, Busy
  <2>. QED
    BY <2>1, <2>2 DEF Fits, Room, Refers, Busy
<1>5. CASE UNCHANGED <<customer, calls>>
  BY <1>5 DEF Fits, Room, Refers, Running, Drawing, Busy, customer, calls
<1>. QED
  BY <1>0, <1>1, <1>2, <1>3, <1>4, <1>5 DEF Shape

\* Elsewhere the account stays as it was.
TypeInv == IF AccountOf THEN Fits ELSE account \in [status : Status, pass : Nat]

LEMMA InitTypes == Init => TypeInv
<1>. SUFFICES ASSUME Init PROVE TypeInv
  OBVIOUS
<1>1. codes = <<>> /\ sessions = <<>> /\ started = 0 /\ \A r \in Req : ~Busy(r)
  BY DEF Init, CodesInit, AccountInit, CallsInit, Busy
<1>2. Running = {} /\ Drawing = {}
  BY <1>1 DEF Running, Drawing
<1>3. Cardinality({}) = 0
  BY FS_EmptySet
<1>4. Fits
  BY <1>1, <1>2, <1>3 DEF Fits, Room
<1>5. account \in [status : Status, pass : Nat]
  <2>1. \/ account = [status |-> "none", pass |-> 0]
        \/ account = [status |-> "active", pass |-> 1]
    BY DEF Init, AccountInit
  <2>. QED
    BY <2>1 DEF Status
<1>. QED
  BY <1>4, <1>5 DEF TypeInv

LEMMA StepTypes ==
  ASSUME Calling, AccountInv, TypeInv, [Next]_vars
  PROVE  TypeInv'
<1>1. CASE AccountOf
  <2>1. UNCHANGED part
    BY <1>1, Carries
  <2>. QED
    BY <1>1, <2>1, StepFits DEF TypeInv, AccountOf
<1>2. CASE ~AccountOf
  BY <1>2, Elsewhere DEF TypeInv, AccountOf, customer
<1>. QED
  BY <1>1, <1>2

LEMMA AccountTyped ==
  ASSUME Calling, AccountInv, TypeInv
  PROVE  CodesOK /\ AccountOK /\ (AccountOf => task \in [Req -> AccountTask \cup {Idle}])
<1>1. CASE AccountOf
  <2>1. Held /\ Fits
    BY <1>1 DEF AccountInv, Steady, TypeInv
  <2>2. /\ Len(codes) \in Nat /\ Len(sessions) \in Nat /\ started \in 0 .. MaxRequests
        /\ DOMAIN codes = 1 .. Len(codes) /\ DOMAIN sessions = 1 .. Len(sessions)
        /\ MaxRequests \in Nat
    BY <2>1, CallsAssumption DEF Held, Calling
  <2>3. Len(codes) <= MaxRequests /\ Len(sessions) <= MaxRequests
    <3>1. PICK S : S = Running
      OBVIOUS
    <3>2. PICK T : T = Drawing
      OBVIOUS
    <3>3. S \subseteq Req /\ T \subseteq S
      BY <3>1, <3>2 DEF Running, Drawing
    <3>4. Cardinality(S) \in Nat /\ Cardinality(T) \in Nat
      BY <3>3, Few
    <3>5. Len(codes) + Cardinality(T) <= started /\ Len(sessions) + Cardinality(S) <= started
      BY <2>1, <3>1, <3>2 DEF Fits, Room
    <3>. QED
      BY <2>2, <3>4, <3>5
  <2>4. DOMAIN codes \subseteq Row /\ DOMAIN sessions \subseteq Row
    BY <2>2, <2>3 DEF Row
  <2>5. ASSUME NEW r \in Req, Busy(r) PROVE task[r] \in AccountTask
    <3>1. task[r] \in Holding /\ Refers(task[r])
      BY <2>1, <2>5, HeldBusy DEF Fits
    <3>2. PICK t \in Holding : t = task[r]
      BY <3>1
    <3>3. /\ t.code \in {NoCode} \cup Code /\ t.guess \in {NoCode} \cup Code
          /\ t.token \in {0} \cup Row
      BY <2>4, <3>1, <3>2 DEF Refers, NoCode, Code
    <3>. QED
      BY <3>2, <3>3 DEF Holding, AccountTask
  <2>6. task \in [Req -> AccountTask \cup {Idle}]
    BY <2>5 DEF Calling, Busy
  <2>. QED
    BY <2>1, <2>3, <2>6 DEF CodesOK, AccountOK, Held
<1>2. CASE ~AccountOf
  <2>1. codes = <<>> /\ sessions = <<>> /\ account \in [status : Status, pass : Nat]
    BY <1>2 DEF AccountInv, TypeInv
  <2>. QED
    BY <1>2, <2>1, CallsAssumption DEF CodesOK, AccountOK
<1>. QED
  BY <1>1, <1>2

LEMMA OthersTyped ==
  ASSUME Calling, DeviceInv, ConsentInv
  PROVE  /\ ConsentOK /\ DevicesOK
         /\ ~AccountOf => task \in [Req -> Task \cup {Idle}]
<1>1. ConsentInit => ConsentOK
  BY DEF ConsentInit, ConsentOK, NoPage, PageRow
<1>2. DevicesInit => DevicesOK
  BY DEF DevicesInit, DevicesOK
<1>3. ConsentOK /\ (part = "consent" => task \in [Req -> ConsentTask \cup {Idle}])
  BY <1>1 DEF ConsentInv, Published
<1>4. DevicesOK /\ (part = "devices" => task \in [Req -> DeviceTask \cup {Idle}])
  BY <1>2 DEF DeviceInv
<1>5. ~AccountOf => part = "consent" \/ part = "devices"
  BY DEF Calling, AccountOf, PartName
<1>. QED
  BY <1>3, <1>4, <1>5 DEF Task

(***************************************************************************)
(* Every table keeps to its columns and to a row for each request at most, *)
(* and every task holds rows that there are.                               *)
(***************************************************************************)
THEOREM MembershipTyped == Spec => []TypeOK
<1>. DEFINE Inv == Calling /\ AccountInv /\ TypeInv /\ DeviceInv /\ ConsentInv
<1>1. Init => Inv
  BY InitCalling, InitAccount, InitTypes, InitDevice, InitConsent
<1>2. Inv /\ [Next]_vars => Inv'
  BY StepCalling, StepAccount, StepTypes, StepDevice, StepConsent
<1>3. Inv => TypeOK
  <2>. SUFFICES ASSUME Inv PROVE TypeOK
    OBVIOUS
  <2>1. task \in [Req -> Task \cup {Idle}]
    BY AccountTyped, OthersTyped DEF Task
  <2>2. CallsOK(Task)
    BY <2>1 DEF CallsOK, Calling
  <2>. QED
    BY <2>2, AccountTyped, OthersTyped DEF TypeOK, Calling
<1>. QED
  <2>. HIDE DEF Inv
  <2>. QED
    BY <1>1, <1>2, <1>3, PTL DEF Spec

=============================================================================
