-------------------------- MODULE ReferralsProofs --------------------------
(***************************************************************************)
(* The invites of a referrer, for every number of tasks, friends, days,    *)
(* requests and failures: an invite brings in one friend, and a success is *)
(* heard of once and only after it happened; and a code that was given out *)
(* stays, but for saves of the referrer's row that overlap.                *)
(***************************************************************************)
EXTENDS Referrals, FiniteSetTheorems, TLAPS

-----------------------------------------------------------------------------
(* Room in the tables. *)

\* The tasks that run, and those about to draw a code.
Running == {r \in Req : req[r] # Idle}
Drawing == {r \in Running : At(r, "drawCode")}

\* Each request makes a row at most, and draws a code at most.
Room ==
  /\ IsFiniteSet(Running)
  /\ drawn \in Nat /\ started \in 0 .. MaxRequests
  /\ drawn + Cardinality(Drawing) <= started
  /\ Len(rows) + Cardinality(Running) <= started

LEMMA Bounded ==
  ASSUME Room, rows \in Seq(Row)
  PROVE  /\ drawn <= MaxRequests /\ Len(rows) <= MaxRequests
         /\ DOMAIN rows \subseteq Invite /\ DOMAIN rows = 1 .. Len(rows) /\ Len(rows) \in Nat
         /\ \A r \in Running : Len(rows) < MaxRequests
         /\ \A r \in Drawing : drawn < MaxRequests
<1>1. Drawing \subseteq Running /\ IsFiniteSet(Running)
  BY DEF Drawing, Room
<1>2. PICK S : S = Running
  OBVIOUS
<1>3. PICK T : T = Drawing
  OBVIOUS
<1>4. IsFiniteSet(S) /\ IsFiniteSet(T)
  BY <1>1, <1>2, <1>3, FS_Subset
<1>5. Cardinality(S) \in Nat /\ Cardinality(T) \in Nat
  BY <1>4, FS_CardinalityType
<1>6. \A r \in S : Cardinality(S) # 0
  BY <1>4, FS_EmptySet
<1>7. \A r \in T : Cardinality(T) # 0
  BY <1>4, FS_EmptySet
<1>8. /\ drawn \in Nat /\ started \in 0 .. MaxRequests /\ Len(rows) \in Nat
      /\ drawn + Cardinality(T) <= started /\ Len(rows) + Cardinality(S) <= started
      /\ MaxRequests \in Nat /\ DOMAIN rows = 1 .. Len(rows)
  BY <1>2, <1>3, ReferralsAssumption DEF Room
<1>9. drawn <= MaxRequests /\ Len(rows) <= MaxRequests
  BY <1>5, <1>8
<1>10. DOMAIN rows \subseteq Invite
  BY <1>8, <1>9 DEF Invite
<1>11. \A r \in S : Len(rows) < MaxRequests
  BY <1>5, <1>6, <1>8
<1>12. \A r \in T : drawn < MaxRequests
  BY <1>5, <1>7, <1>8
<1>. QED
  BY <1>2, <1>3, <1>8, <1>9, <1>10, <1>11, <1>12

\* A count of rows against the tasks that may still add one.
LEMMA Grows ==
  ASSUME NEW S, IsFiniteSet(S), NEW T, NEW r,
         NEW m \in Nat, NEW n \in Nat, NEW p \in Nat, NEW q \in Nat,
         m + Cardinality(S) <= p,
         \/ n = m /\ T \subseteq S \cup {r} /\ q = p + 1
         \/ n = m /\ T \subseteq S /\ q = p
         \/ n = m + 1 /\ r \in S /\ T \subseteq S \ {r} /\ q = p
  PROVE  IsFiniteSet(T) /\ n + Cardinality(T) <= q
<1>1. Cardinality(S) \in Nat
  BY FS_CardinalityType
<1>2. CASE n = m /\ T \subseteq S \cup {r} /\ q = p + 1
  <2>1. IsFiniteSet(S \cup {r}) /\ Cardinality(S \cup {r}) \in {Cardinality(S), Cardinality(S) + 1}
    BY FS_AddElement
  <2>2. IsFiniteSet(T) /\ Cardinality(T) <= Cardinality(S \cup {r})
    BY <1>2, <2>1, FS_Subset
  <2>3. Cardinality(T) \in Nat
    BY <2>2, FS_CardinalityType
  <2>. QED
    BY <1>1, <1>2, <2>1, <2>2, <2>3
<1>3. CASE n = m /\ T \subseteq S /\ q = p
  <2>1. IsFiniteSet(T) /\ Cardinality(T) <= Cardinality(S)
    BY <1>3, FS_Subset
  <2>2. Cardinality(T) \in Nat
    BY <2>1, FS_CardinalityType
  <2>. QED
    BY <1>1, <1>3, <2>1, <2>2
<1>4. CASE n = m + 1 /\ r \in S /\ T \subseteq S \ {r} /\ q = p
  <2>1. IsFiniteSet(S \ {r}) /\ Cardinality(S \ {r}) = Cardinality(S) - 1
    BY <1>4, FS_RemoveElement
  <2>2. IsFiniteSet(T) /\ Cardinality(T) <= Cardinality(S \ {r})
    BY <1>4, <2>1, FS_Subset
  <2>3. Cardinality(T) \in Nat
    BY <2>2, FS_CardinalityType
  <2>. QED
    BY <1>1, <1>4, <2>1, <2>2, <2>3
<1>. QED
  BY <1>2, <1>3, <1>4

\* Both counts at once.
LEMMA RoomLeft ==
  ASSUME Room, rows \in Seq(Row), rows' \in Seq(Row), NEW r,
         drawn' \in Nat, started' \in 0 .. MaxRequests,
         \/ /\ drawn' = drawn /\ Drawing' \subseteq Drawing \cup {r}
            /\ Len(rows') = Len(rows) /\ Running' \subseteq Running \cup {r}
            /\ started' = started + 1
         \/ /\ \/ drawn' = drawn /\ Drawing' \subseteq Drawing
               \/ drawn' = drawn + 1 /\ r \in Drawing /\ Drawing' \subseteq Drawing \ {r}
            /\ \/ Len(rows') = Len(rows) /\ Running' \subseteq Running
               \/ Len(rows') = Len(rows) + 1 /\ r \in Running /\ Running' \subseteq Running \ {r}
            /\ started' = started
  PROVE  Room'
<1>1. PICK S : S = Drawing
  OBVIOUS
<1>2. PICK T : T = Drawing'
  OBVIOUS
<1>3. PICK U : U = Running
  OBVIOUS
<1>4. PICK V : V = Running'
  OBVIOUS
<1>5. IsFiniteSet(U) /\ S \subseteq U
  BY <1>1, <1>3 DEF Drawing, Room
<1>6. IsFiniteSet(S)
  BY <1>5, FS_Subset
<1>7. /\ Len(rows) \in Nat /\ Len(rows') \in Nat /\ drawn \in Nat
      /\ started \in Nat /\ started' \in Nat
      /\ drawn + Cardinality(S) <= started /\ Len(rows) + Cardinality(U) <= started
  BY <1>1, <1>3, ReferralsAssumption DEF Room
<1>8. drawn' + Cardinality(T) <= started'
  BY <1>1, <1>2, <1>6, <1>7, Grows
<1>9. IsFiniteSet(V) /\ Len(rows') + Cardinality(V) <= started'
  BY <1>3, <1>4, <1>5, <1>7, Grows
<1>. QED
  BY <1>2, <1>4, <1>8, <1>9 DEF Room


-----------------------------------------------------------------------------
(* What tasks hold. *)

Joining == {"checkCode", "selectOwn", "lockOwn", "selectAny", "lockAny", "claim"}
Locking == {"lockOwn", "lockAny"}
Settling == {"compare", "save", "announce", "push"}

\* The rows a task works on are there, and it has what its await needs.
TaskOK(t) ==
  /\ t.row \in {0} \cup DOMAIN rows /\ t.next \in {0} \cup DOMAIN rows
  /\ t.found \subseteq DOMAIN rows /\ t.held \subseteq DOMAIN rows
  /\ t.pc \in Joining => t.user \in User /\ t.code \in Code
  /\ t.pc \in Joining \ (Locking \cup {"claim"}) => t.row = 0
  /\ t.pc \in Locking => t.next \in t.found
  /\ t.pc \in {"findInvite", "insertInvite"} => t.code \in Code
  /\ t.pc \in Settling => t.row \in DOMAIN rows /\ t.read.status # "pending"

Base ==
  /\ code \in {NoCode} \cup Code
  /\ rows \in Seq(Row)
  /\ today \in Day
  /\ joined \subseteq User
  /\ req \in [Req -> Task]
  /\ claims \in [Invite -> SUBSET User]
  /\ fails \in 0 .. MaxFails
  /\ \A r \in Req : TaskOK(req[r])
  /\ Room

LEMMA BlankOK == Blank \in Row /\ Blank.status = "pending" /\ Blank.user = None
BY ReferralsAssumption DEF Blank, Row, Code, ReferralStatus, NoDay

LEMMA IdleOK ==
  /\ Idle \in Task /\ TaskOK(Idle)
  /\ Idle.pc = "idle" /\ Idle.row = 0 /\ Idle.next = 0 /\ Idle.found = {} /\ Idle.held = {} /\ Idle.cols = {}
BY BlankOK DEF Idle, Task, TaskOK, Joining, Locking, Settling, NoCode, NoDay

\* A task becomes u, and the others stay.
LEMMA Moved ==
  ASSUME req \in [Req -> Task], NEW r \in Req, NEW u \in Task, req' = [req EXCEPT ![r] = u]
  PROVE  /\ req' \in [Req -> Task] /\ req'[r] = u /\ \A s \in Req \ {r} : req'[s] = req[s]
         /\ Running' \subseteq Running \cup {r} /\ Drawing' \subseteq Drawing \cup {r}
         /\ req[r] # Idle => r \in Running /\ Running' \subseteq Running
         /\ u = Idle => Running' \subseteq Running \ {r}
         /\ At(r, "drawCode") /\ req[r] # Idle => r \in Drawing
         /\ u.pc # "drawCode" => Drawing' \subseteq Drawing \ {r}
<1>1. req' \in [Req -> Task] /\ req'[r] = u /\ \A s \in Req \ {r} : req'[s] = req[s]
  OBVIOUS
<1>2. /\ Running' \subseteq Running \cup {r}
      /\ req[r] # Idle => r \in Running /\ Running' \subseteq Running
      /\ u = Idle => Running' \subseteq Running \ {r}
  BY <1>1 DEF Running
<1>3. /\ Drawing' \subseteq Drawing \cup {r}
      /\ At(r, "drawCode") /\ req[r] # Idle => r \in Drawing
      /\ u.pc # "drawCode" => Drawing' \subseteq Drawing \ {r}
  BY <1>1, <1>2 DEF Drawing, Running, At
<1>. QED
  BY <1>1, <1>2, <1>3

\* What is there stays there.
LEMMA TasksKept ==
  ASSUME req \in [Req -> Task], \A s \in Req : TaskOK(req[s]),
         NEW r \in Req, NEW u \in Task, req' = [req EXCEPT ![r] = u],
         DOMAIN rows \subseteq DOMAIN rows', TaskOK(u)'
  PROVE  req' \in [Req -> Task] /\ \A s \in Req : TaskOK(req[s])'
<1>1. req' \in [Req -> Task] /\ req'[r] = u /\ \A s \in Req \ {r} : req'[s] = req[s]
  BY Moved
<1>2. \A s \in Req \ {r} : TaskOK(req[s])'
  BY <1>1 DEF TaskOK
<1>. QED
  BY <1>1, <1>2

\* A request arrives as u.
Asked(r, u) ==
  /\ req[r] = Idle /\ req' = [req EXCEPT ![r] = u] /\ started' = started + 1 /\ started < MaxRequests
  /\ UNCHANGED <<code, drawn, rows, today, news, history, fails>>
  /\ joined' \subseteq User
  /\ u \in Task /\ TaskOK(u)
  /\ u.pc \in {"drawCode", "saveUser", "findInvite", "checkCode", "compare"} /\ u.held = {}

LEMMA Asks ==
  ASSUME Base, NEW r \in Req, Request(r)
  PROVE  \E u : Asked(r, u)
<1>0. /\ rows \in Seq(Row) /\ code \in {NoCode} \cup Code /\ joined \subseteq User
      /\ DOMAIN rows \subseteq Invite /\ 1 .. drawn \subseteq Code /\ \A i \in DOMAIN rows : rows[i] \in Row
  <2>1. rows \in Seq(Row) /\ drawn <= MaxRequests /\ DOMAIN rows \subseteq Invite /\ drawn \in Nat
    BY Bounded DEF Base, Room
  <2>. QED
    BY <2>1, ReferralsAssumption DEF Base, Code
<1>1. CASE ReadMyCode(r)
  <2>1. PICK u : u = [Idle EXCEPT !.pc = "drawCode", !.op = "code"]
    OBVIOUS
  <2>2. Call(r, u) /\ UNCHANGED joined
    BY <1>1, <2>1 DEF ReadMyCode
  <2>3. u \in Task /\ TaskOK(u) /\ u.pc = "drawCode" /\ u.held = {}
    BY <2>1, IdleOK DEF Task, TaskOK, Joining, Locking, Settling
  <2>. QED
    BY <1>0, <2>2, <2>3 DEF Call, Asked
<1>5. CASE ReadUser(r)
  <2>1. PICK u : u = [Idle EXCEPT !.pc = "saveUser", !.op = "user", !.code = code]
    OBVIOUS
  <2>2. Call(r, u) /\ UNCHANGED joined
    BY <1>5, <2>1 DEF ReadUser
  <2>3. u \in Task /\ TaskOK(u) /\ u.pc = "saveUser" /\ u.held = {}
    BY <1>0, <2>1, IdleOK DEF Task, TaskOK, Joining, Locking, Settling
  <2>. QED
    BY <1>0, <2>2, <2>3 DEF Call, Asked
<1>2. CASE ReadInvite(r)
  <2>1. PICK v \in User \cup {None} :
          Call(r, [Idle EXCEPT !.pc = IF code = NoCode THEN "drawCode" ELSE "findInvite",
                               !.op = "invite", !.user = v, !.code = code])
    BY <1>2 DEF ReadInvite
  <2>2. PICK p : p = IF code = NoCode THEN "drawCode" ELSE "findInvite"
    OBVIOUS
  <2>3. PICK u : u = [Idle EXCEPT !.pc = p, !.op = "invite", !.user = v, !.code = code]
    OBVIOUS
  <2>4. Call(r, u) /\ UNCHANGED joined
    BY <1>2, <2>1, <2>2, <2>3 DEF ReadInvite
  <2>5. p \in {"drawCode", "findInvite"} /\ (p = "findInvite" => code # NoCode)
    BY <2>2
  <2>6. u \in Task /\ u.held = {} /\ u.row = 0 /\ u.next = 0 /\ u.found = {} /\ u.code = code /\ u.pc = p
    BY <1>0, <2>3, <2>5, IdleOK DEF Task
  <2>7. TaskOK(u)
    BY <1>0, <2>5, <2>6 DEF TaskOK, Joining, Locking, Settling
  <2>. QED
    BY <1>0, <2>4, <2>5, <2>6, <2>7 DEF Call, Asked
<1>3. CASE ReadJoin(r)
  <2>1. PICK v \in User \ joined, c \in 1 .. drawn :
          /\ Call(r, [Idle EXCEPT !.pc = "checkCode", !.op = "join", !.user = v, !.code = c])
          /\ joined' = joined \cup {v}
    BY <1>3 DEF ReadJoin
  <2>2. PICK u : u = [Idle EXCEPT !.pc = "checkCode", !.op = "join", !.user = v, !.code = c]
    OBVIOUS
  <2>3. Call(r, u)
    BY <2>1, <2>2
  <2>4. c \in Code /\ joined' \subseteq User
    BY <1>0, <2>1
  <2>5. u \in Task /\ u.held = {} /\ u.row = 0 /\ u.next = 0 /\ u.found = {} /\ u.code = c /\ u.user = v
        /\ u.pc = "checkCode"
    BY <2>2, <2>4, IdleOK DEF Task
  <2>6. TaskOK(u)
    BY <2>4, <2>5 DEF TaskOK, Joining, Locking, Settling
  <2>. QED
    BY <2>3, <2>4, <2>5, <2>6 DEF Call, Asked
<1>4. CASE ReadStatus(r)
  <2>. PICK i \in DOMAIN rows : \E s \in NextStatus(rows[i].status) :
          Call(r, [Idle EXCEPT !.pc = "compare", !.op = "status", !.row = i,
                               !.read = [rows[i] EXCEPT !.status = s]])
    BY <1>4 DEF ReadStatus
  <2>1. PICK s \in NextStatus(rows[i].status) :
          Call(r, [Idle EXCEPT !.pc = "compare", !.op = "status", !.row = i,
                               !.read = [rows[i] EXCEPT !.status = s]])
    OBVIOUS
  <2>2. PICK w : w = [rows[i] EXCEPT !.status = s]
    OBVIOUS
  <2>3. rows[i] \in Row /\ i \in Invite
    BY <1>0
  <2>4. s \in ReferralStatus \ {"pending"}
    BY DEF NextStatus, ReferralStatus
  <2>5. w \in Row /\ w.status # "pending"
    BY <2>2, <2>3, <2>4 DEF Row
  <2>6. PICK u : u = [Idle EXCEPT !.pc = "compare", !.op = "status", !.row = i, !.read = w]
    OBVIOUS
  <2>7. Call(r, u) /\ UNCHANGED joined
    BY <1>4, <2>1, <2>2, <2>6 DEF ReadStatus
  <2>8. u \in Task /\ u.held = {} /\ u.row = i /\ u.next = 0 /\ u.found = {} /\ u.read = w /\ u.pc = "compare"
    BY <2>3, <2>5, <2>6, IdleOK DEF Task
  <2>9. TaskOK(u)
    BY <2>5, <2>8 DEF TaskOK, Joining, Locking, Settling
  <2>. QED
    BY <1>0, <2>7, <2>8, <2>9 DEF Call, Asked
<1>. QED
  BY <1>1, <1>2, <1>3, <1>4, <1>5 DEF Request


-----------------------------------------------------------------------------
(* What becomes of the rows. *)

LEMMA RowSet ==
  ASSUME rows \in Seq(Row), NEW i \in DOMAIN rows, NEW row \in Row, rows' = [rows EXCEPT ![i] = row]
  PROVE  /\ rows' \in Seq(Row) /\ Len(rows') = Len(rows) /\ DOMAIN rows' = DOMAIN rows
         /\ rows'[i] = row /\ \A j \in DOMAIN rows : j # i => rows'[j] = rows[j]
OBVIOUS

LEMMA RowAdd ==
  ASSUME rows \in Seq(Row), NEW row \in Row, rows' = Append(rows, row)
  PROVE  /\ rows' \in Seq(Row) /\ Len(rows') = Len(rows) + 1
         /\ DOMAIN rows' = DOMAIN rows \cup {Len(rows) + 1} /\ Len(rows) + 1 \notin DOMAIN rows
         /\ rows'[Len(rows) + 1] = row /\ \A j \in DOMAIN rows : rows'[j] = rows[j]
OBVIOUS

LEMMA MergedOK ==
  ASSUME NEW row \in Row, NEW t \in Task, NEW m, m = Merged(row, t)
  PROVE  /\ m \in Row
         /\ m.status = IF "status" \in t.cols THEN t.read.status ELSE row.status
<1>1. /\ DOMAIN row = {"code", "named", "user", "status", "exp"}
      /\ t.read \in Row /\ t.cols \subseteq {"named", "user", "status"}
  BY DEF Row, Task, Column
<1>2. m = [c \in {"code", "named", "user", "status", "exp"} |-> IF c \in t.cols THEN t.read[c] ELSE row[c]]
  BY <1>1 DEF Merged
<1>3. /\ m.code = row.code /\ m.exp = row.exp
      /\ m.named \in {row.named, t.read.named} /\ m.user \in {row.user, t.read.user}
      /\ m.status = IF "status" \in t.cols THEN t.read.status ELSE row.status
      /\ m = [c \in {"code", "named", "user", "status", "exp"} |-> m[c]]
  BY <1>1, <1>2
<1>4. m.code \in Code /\ m.named \in User \cup {None} /\ m.user \in User \cup {None}
      /\ m.status \in ReferralStatus /\ m.exp \in {NoDay} \cup Day
  BY <1>1, <1>3 DEF Row
<1>. QED
  BY <1>3, <1>4 DEF Row

\* A task takes rows that are nobody else's, and works on one of those it took.
Locks(r, u) ==
  /\ Free(r, u.held \ req[r].held)
  /\ UNCHANGED rows
  /\ u.row # 0 =>
       \/ u.row \in u.held /\ rows[u.row].status = "pending"
       \/ u.row = req[r].row /\ req[r].pc \in Locking /\ req[r].held \subseteq u.held

\* A task takes no row, and is not about to work on one as a sign-up does.
Passes(r, u) == u.held \subseteq req[r].held /\ u.pc \notin Locking \cup {"claim"}

\* A task goes on as u.
Worked(r, u) ==
  /\ req[r] # Idle /\ req' = [req EXCEPT ![r] = u] /\ u \in Task /\ TaskOK(u)' /\ u.pc # "drawCode"
  /\ UNCHANGED <<today, joined, started, fails>>
  /\ code' \in {NoCode} \cup Code
  /\ drawn' \in Nat /\ (drawn' = drawn \/ (drawn' = drawn + 1 /\ At(r, "drawCode")))
  /\ rows' \in Seq(Row) /\ DOMAIN rows \subseteq DOMAIN rows'
  /\ Len(rows') = Len(rows) \/ (Len(rows') = Len(rows) + 1 /\ u = Idle)
  /\ claims' \in [Invite -> SUBSET User]
  /\ Locks(r, u) \/ Passes(r, u)

LEMMA WorkBusy ==
  ASSUME NEW r \in Req, Continue(r)
  PROVE  req[r] # Idle
<1>1. req[r].pc # "idle"
  <2>1. CASE Deadlock(r)
    BY <2>1 DEF Deadlock, Circle, Waits
  <2>. QED
    BY <2>1 DEF Continue, DrawCode, SaveUser, FindInvite, InsertInvite, CheckCode, SelectOwn,
         LockOwn, SelectAny, LockAny, Select, Lock, Claim, Compare, SaveStatus, Announce, Push, At
<1>. QED
  BY <1>1, IdleOK

\* Most awaits leave the rows alone.
LEMMA Leaves ==
  ASSUME Base, NEW r \in Req, Continue(r), UNCHANGED <<code, drawn, rows, today, joined, claims, bounds>>,
         NEW u \in Task, req' = [req EXCEPT ![r] = u], TaskOK(u), u.pc # "drawCode",
         Locks(r, u) \/ Passes(r, u)
  PROVE  Worked(r, u)
<1>1. req[r] # Idle
  BY WorkBusy
<1>2. TaskOK(u)'
  BY DEF TaskOK
<1>. QED
  BY <1>1, <1>2 DEF Worked, bounds, Base, Room

LEMMA InvitesWork ==
  ASSUME Base, NEW r \in Req, DrawCode(r) \/ FindInvite(r) \/ InsertInvite(r)
  PROVE  \E u : Worked(r, u)
<1>. DEFINE x == req[r]
<1>0. /\ x \in Task /\ TaskOK(x) /\ Continue(r) /\ x # Idle /\ rows \in Seq(Row)
      /\ drawn \in Nat /\ MaxRequests \in Nat
  BY WorkBusy, ReferralsAssumption DEF Base, Continue, Room
<1>1. CASE DrawCode(r)
  <2>1. r \in Drawing
    BY <1>0, <1>1 DEF Drawing, Running, DrawCode
  <2>2. drawn < MaxRequests
    BY <2>1, Bounded DEF Base
  <2>3. drawn + 1 \in Code /\ drawn' = drawn + 1 /\ code' = drawn + 1
    BY <1>0, <1>1, <2>2 DEF Code, DrawCode
  <2>4. PICK u : u = IF x.op = "invite" THEN [x EXCEPT !.pc = "findInvite", !.code = drawn + 1] ELSE Idle
    OBVIOUS
  <2>5. req' = [req EXCEPT ![r] = u]
    <3>1. CASE x.op = "invite"
      <4>1. req' = [req EXCEPT ![r].pc = "findInvite", ![r].code = drawn + 1]
        BY <1>1, <2>3, <3>1 DEF DrawCode
      <4>2. u = [x EXCEPT !.pc = "findInvite", !.code = drawn + 1]
        BY <2>4, <3>1
      <4>. QED
        BY <4>1, <4>2 DEF Base
    <3>2. CASE x.op # "invite"
      BY <1>1, <2>4, <3>2 DEF DrawCode, Finish
    <3>. QED
      BY <3>1, <3>2
  <2>6. u \in Task /\ TaskOK(u) /\ u.pc \notin Locking \cup {"drawCode", "claim"} /\ u.held \subseteq x.held
    <3>1. CASE x.op = "invite"
      <4>1. u = [x EXCEPT !.pc = "findInvite", !.code = drawn + 1]
        BY <2>4, <3>1
      <4>2. u \in Task /\ u.pc = "findInvite" /\ u.code = drawn + 1
            /\ u.row = x.row /\ u.found = x.found /\ u.next = x.next /\ u.held = x.held
        BY <1>0, <2>3, <4>1 DEF Task
      <4>. QED
        BY <1>0, <2>3, <4>2 DEF TaskOK, Joining, Locking, Settling
    <3>2. CASE x.op # "invite"
      BY <2>4, <3>2, IdleOK DEF Locking
    <3>. QED
      BY <3>1, <3>2
  <2>7. UNCHANGED <<rows, today, joined, claims, started, fails>> /\ At(r, "drawCode")
    BY <1>1 DEF DrawCode, history, bounds
  <2>8. TaskOK(u)'
    BY <2>6, <2>7 DEF TaskOK
  <2>9. claims' \in [Invite -> SUBSET User] /\ code' \in {NoCode} \cup Code
        /\ drawn' \in Nat /\ drawn' = drawn + 1
    BY <1>0, <2>3, <2>7 DEF Base
  <2>10. rows' \in Seq(Row) /\ DOMAIN rows \subseteq DOMAIN rows' /\ Len(rows') = Len(rows)
    BY <1>0, <2>7
  <2>. QED
    BY <1>0, <2>5, <2>6, <2>7, <2>8, <2>9, <2>10 DEF Worked, Passes, Locking
<1>2. CASE FindInvite(r)
  <2>1. CASE Finish(r)
    BY <1>0, <1>2, <2>1, IdleOK, Leaves DEF FindInvite, Finish, history, Base, Passes, Locking
  <2>2. CASE Goto(r, "insertInvite")
    <3>1. PICK u : u = [x EXCEPT !.pc = "insertInvite"]
      OBVIOUS
    <3>2. req' = [req EXCEPT ![r] = u]
      BY <2>2, <3>1 DEF Goto
    <3>3. u \in Task /\ TaskOK(u) /\ u.pc = "insertInvite" /\ u.held = x.held
      BY <1>0, <1>2, <3>1 DEF Task, TaskOK, Joining, Locking, Settling, FindInvite, At
    <3>. QED
      BY <1>0, <1>2, <3>2, <3>3, Leaves DEF FindInvite, history, Passes, Locking
  <2>. QED
    BY <1>2, <2>1, <2>2 DEF FindInvite
<1>3. CASE InsertInvite(r)
  <2>1. PICK row : row = [Blank EXCEPT !.code = x.code, !.named = x.user, !.exp = today + Life]
    OBVIOUS
  <2>2. x.code \in Code /\ x.user \in User \cup {None} /\ today + Life \in Day
    BY <1>0, <1>3, ReferralsAssumption DEF InsertInvite, TaskOK, At, Task, Base, Day
  <2>3. row \in Row
    BY <2>1, <2>2, BlankOK DEF Row
  <2>4. rows' = Append(rows, row) /\ req' = [req EXCEPT ![r] = Idle]
    BY <1>3, <2>1 DEF InsertInvite, Finish
  <2>5. rows' \in Seq(Row) /\ Len(rows') = Len(rows) + 1 /\ DOMAIN rows \subseteq DOMAIN rows'
    BY <1>0, <2>3, <2>4, RowAdd
  <2>6. Idle \in Task /\ TaskOK(Idle)' /\ Idle.pc \notin Locking \cup {"drawCode", "claim"} /\ Idle.held = {}
    BY IdleOK DEF TaskOK, Joining, Locking, Settling
  <2>7. UNCHANGED <<code, drawn, today, joined, claims, started, fails>>
    BY <1>3 DEF InsertInvite, history, bounds
  <2>8. claims' \in [Invite -> SUBSET User] /\ code' \in {NoCode} \cup Code /\ drawn' \in Nat
    BY <1>0, <2>7 DEF Base
  <2>. QED
    BY <1>0, <2>4, <2>5, <2>6, <2>7, <2>8 DEF Worked, Passes, Locking
<1>. QED
  BY <1>1, <1>2, <1>3


\* A query saw rows that are there.
LEMMA ClaimableIs ==
  ASSUME NEW t, NEW whom
  PROVE  Claimable(t, whom) \subseteq DOMAIN rows
         /\ \A i \in Claimable(t, whom) : rows[i].status = "pending"
BY DEF Claimable

\* A query goes on to its next row or ends, and keeps the locks it has.
LEMMA ScanIs ==
  ASSUME DOMAIN rows \subseteq Invite, NEW t \in Task,
         t.held \subseteq DOMAIN rows, t.user \in User, t.code \in Code,
         NEW found \in SUBSET DOMAIN rows, NEW row \in {0} \cup DOMAIN rows,
         NEW lock \in Locking, NEW else \in {"selectAny", "claim"},
         NEW u \in Scan(t, found, row, lock, else)
  PROVE  /\ u \in Task /\ TaskOK(u) /\ u.held = t.held /\ u.row = row /\ u.code = t.code
         /\ u.pc \in Locking \cup {"selectAny", "claim"}
<1>1. CASE found = {}
  <2>1. PICK p : p = IF row = 0 THEN else ELSE "claim"
    OBVIOUS
  <2>2. u = [t EXCEPT !.pc = p, !.found = {}, !.next = 0, !.row = row]
    BY <1>1, <2>1 DEF Scan
  <2>3. p \in {"selectAny", "claim"} /\ (p = "selectAny" => row = 0) /\ row \in {0} \cup Invite
    BY <2>1
  <2>4. /\ u \in Task /\ u.pc = p /\ u.found = {} /\ u.next = 0 /\ u.row = row
        /\ u.held = t.held /\ u.user = t.user /\ u.code = t.code
    BY <2>2, <2>3 DEF Task
  <2>. QED
    BY <2>3, <2>4 DEF TaskOK, Joining, Locking, Settling
<1>2. CASE found # {}
  <2>1. PICK i \in found : u = [t EXCEPT !.pc = lock, !.found = found, !.next = i, !.row = row]
    BY <1>2 DEF Scan
  <2>2. i \in DOMAIN rows /\ i \in Invite /\ found \subseteq Invite /\ row \in {0} \cup Invite
    OBVIOUS
  <2>3. /\ u \in Task /\ u.pc = lock /\ u.found = found /\ u.next = i /\ u.row = row
        /\ u.held = t.held /\ u.user = t.user /\ u.code = t.code
    BY <2>1, <2>2 DEF Task, Locking
  <2>. QED
    BY <2>2, <2>3 DEF TaskOK, Joining, Locking, Settling
<1>. QED
  BY <1>1, <1>2

Queries(r, u) ==
  /\ u.pc \in Locking \cup {"selectAny", "claim"} /\ u.code = req[r].code
  /\ UNCHANGED <<code, drawn>>

LEMMA SelectWorks ==
  ASSUME Base, NEW r \in Req, NEW pc \in {"selectOwn", "selectAny"}, NEW lock \in Locking,
         NEW else \in {"selectAny", "claim"}, NEW whom, Select(r, pc, whom, lock, else), Continue(r)
  PROVE  \E u : Worked(r, u) /\ Queries(r, u)
<1>. DEFINE x == req[r]
<1>0. /\ x \in Task /\ TaskOK(x) /\ rows \in Seq(Row)
      /\ x.pc \in {"selectOwn", "selectAny"} /\ DOMAIN rows \subseteq Invite
  BY Bounded DEF Base, Select, At
<1>1. x.user \in User /\ x.code \in Code /\ x.held \subseteq DOMAIN rows
  BY <1>0 DEF TaskOK, Joining
<1>2. PICK found : found = Claimable(x, whom)
  OBVIOUS
<1>3. found \in SUBSET DOMAIN rows /\ 0 \in {0} \cup DOMAIN rows
  BY <1>2, ClaimableIs
<1>4. PICK u \in Scan(x, found, 0, lock, else) : req' = [req EXCEPT ![r] = u]
  BY <1>2 DEF Select
<1>5. /\ u \in Task /\ TaskOK(u) /\ u.held = x.held /\ u.row = 0 /\ u.code = x.code
      /\ u.pc \in Locking \cup {"selectAny", "claim"}
  BY <1>0, <1>1, <1>3, <1>4, ScanIs
<1>6. UNCHANGED <<code, drawn, rows, today, joined, claims, bounds>>
  BY DEF Select, history
<1>7. Locks(r, u) /\ u.pc # "drawCode"
  BY <1>5, <1>6 DEF Locks, Free, Locking
<1>. QED
  BY <1>4, <1>5, <1>6, <1>7, Leaves DEF Queries

LEMMA LockWorks ==
  ASSUME Base, NEW r \in Req, NEW pc \in Locking, NEW else \in {"selectAny", "claim"},
         NEW whom, Lock(r, pc, whom, else), Continue(r)
  PROVE  \E u : Worked(r, u) /\ Queries(r, u)
<1>. DEFINE x == req[r]
            fits == x.row = 0 /\ x.next \in Claimable(x, whom)
<1>0. /\ x \in Task /\ TaskOK(x) /\ rows \in Seq(Row)
      /\ x.pc \in Locking /\ DOMAIN rows \subseteq Invite
  BY Bounded DEF Base, Lock, At
<1>1. /\ x.found \subseteq DOMAIN rows /\ x.held \subseteq DOMAIN rows /\ x.next \in x.found
      /\ x.user \in User /\ x.code \in Code /\ x.row \in {0} \cup DOMAIN rows
  BY <1>0 DEF TaskOK, Joining, Locking
<1>2. PICK t : t = [x EXCEPT !.held = x.held \cup {x.next}]
  OBVIOUS
<1>3. /\ t \in Task /\ t.held = x.held \cup {x.next} /\ t.user = x.user /\ t.code = x.code
  BY <1>0, <1>1, <1>2 DEF Task
<1>4. PICK row : row = IF fits THEN x.next ELSE x.row
  OBVIOUS
<1>5. PICK found : found = x.found \ {x.next}
  OBVIOUS
<1>6. PICK u \in Scan(t, found, row, pc, else) : req' = [req EXCEPT ![r] = u]
  BY <1>2, <1>4, <1>5 DEF Lock
<1>7. /\ t.held \subseteq DOMAIN rows /\ found \in SUBSET DOMAIN rows
      /\ row \in {0} \cup DOMAIN rows /\ t.user \in User /\ t.code \in Code
  BY <1>1, <1>3, <1>4, <1>5
<1>8. /\ u \in Task /\ TaskOK(u) /\ u.held = t.held /\ u.row = row /\ u.code = x.code
      /\ u.pc \in Locking \cup {"selectAny", "claim"}
  <2>1. t \in Task /\ DOMAIN rows \subseteq Invite
    BY <1>0, <1>3
  <2>2. /\ u \in Task /\ TaskOK(u) /\ u.held = t.held /\ u.row = row /\ u.code = t.code
        /\ u.pc \in Locking \cup {"selectAny", "claim"}
    BY <1>6, <1>7, <2>1, ScanIs
  <2>. QED
    BY <1>3, <2>2
<1>9. UNCHANGED <<code, drawn, rows, today, joined, claims, bounds>>
  BY DEF Lock, history
<1>10. Locks(r, u) /\ u.pc # "drawCode"
  <2>1. Free(r, u.held \ x.held)
    BY <1>3, <1>8 DEF Lock, Free
  <2>2. CASE fits
    BY <1>3, <1>4, <1>8, <1>9, <2>1, <2>2, ClaimableIs DEF Locks, Locking
  <2>3. CASE ~fits
    BY <1>0, <1>3, <1>4, <1>8, <1>9, <2>1, <2>3 DEF Locks, Locking
  <2>. QED
    BY <2>2, <2>3
<1>. QED
  BY <1>6, <1>8, <1>9, <1>10, Leaves DEF Queries

\* A save of the user, and a sign-up that PostgreSQL made fail, are done.
LEMMA EndsWork ==
  ASSUME Base, NEW r \in Req, SaveUser(r) \/ Deadlock(r)
  PROVE  \E u : Worked(r, u)
<1>. DEFINE x == req[r]
<1>0. /\ x \in Task /\ Continue(r) /\ x # Idle /\ rows \in Seq(Row) /\ drawn \in Nat
      /\ claims \in [Invite -> SUBSET User] /\ code \in {NoCode} \cup Code
  BY WorkBusy DEF Base, Continue, Room
<1>1. /\ UNCHANGED <<drawn, rows, today, joined, claims, started, fails>>
      /\ req' = [req EXCEPT ![r] = Idle] /\ code' \in {code, x.code}
  BY DEF SaveUser, Deadlock, Finish, history, bounds
<1>2. x.code \in {NoCode} \cup Code
  BY <1>0 DEF Task
<1>3. Idle \in Task /\ TaskOK(Idle)' /\ Idle.pc # "drawCode" /\ Passes(r, Idle)
  BY IdleOK DEF TaskOK, Joining, Locking, Settling, Passes
<1>. QED
  BY <1>0, <1>1, <1>2, <1>3 DEF Worked

\* The row that a sign-up leaves behind.
LEMMA ClaimIs ==
  ASSUME Base, NEW r \in Req, Claim(r)
  PROVE  \E row \in Row :
           /\ row.status = "registered"
           /\ \/ req[r].row \in DOMAIN rows /\ rows' = [rows EXCEPT ![req[r].row] = row]
              \/ req[r].row = 0 /\ rows' = Append(rows, row)
<1>. DEFINE x == req[r]
<1>0. /\ x \in Task /\ TaskOK(x) /\ rows \in Seq(Row) /\ x.pc = "claim"
      /\ \A i \in DOMAIN rows : rows[i] \in Row
  BY DEF Base, Claim, At
<1>1. x.user \in User /\ x.code \in Code /\ x.row \in {0} \cup DOMAIN rows
  BY <1>0 DEF TaskOK, Joining
<1>2. "registered" \in ReferralStatus
  BY DEF ReferralStatus
<1>3. CASE x.row # 0
  <2>1. PICK old : old = rows[x.row]
    OBVIOUS
  <2>2. old \in Row
    BY <1>0, <1>1, <1>3, <2>1
  <2>3. PICK row : row = [old EXCEPT !.named = x.user, !.user = x.user, !.status = "registered"]
    OBVIOUS
  <2>4. row \in Row /\ row.status = "registered"
    BY <1>1, <1>2, <2>2, <2>3 DEF Row
  <2>5. rows' = [rows EXCEPT ![x.row] = row]
    BY <1>3, <2>1, <2>3 DEF Claim
  <2>. QED
    BY <1>1, <1>3, <2>4, <2>5
<1>4. CASE x.row = 0
  <2>1. PICK row : row = [Blank EXCEPT !.code = x.code, !.named = x.user, !.user = x.user,
                                       !.status = "registered"]
    OBVIOUS
  <2>2. row \in Row /\ row.status = "registered"
    BY <1>1, <1>2, <2>1, BlankOK DEF Row
  <2>3. rows' = Append(rows, row)
    BY <1>4, <2>1 DEF Claim
  <2>. QED
    BY <1>4, <2>2, <2>3
<1>. QED
  BY <1>3, <1>4

LEMMA JoinsWork ==
  ASSUME Base, NEW r \in Req, CheckCode(r) \/ Claim(r)
  PROVE  \E u : Worked(r, u)
<1>. DEFINE x == req[r]
<1>0. /\ x \in Task /\ TaskOK(x) /\ Continue(r) /\ x # Idle /\ rows \in Seq(Row) /\ today \in Day
      /\ drawn \in Nat /\ claims \in [Invite -> SUBSET User] /\ code \in {NoCode} \cup Code
  BY WorkBusy DEF Base, Continue, Room
<1>1. CASE CheckCode(r)
  <2>1. CASE Finish(r)
    BY <1>0, <1>1, <2>1, IdleOK, Leaves DEF CheckCode, Finish, history, bounds, Passes, Locking
  <2>2. CASE req' = [req EXCEPT ![r].pc = "selectOwn", ![r].now = today]
    <3>1. PICK u : u = [x EXCEPT !.pc = "selectOwn", !.now = today]
      OBVIOUS
    <3>2. req' = [req EXCEPT ![r] = u]
      BY <2>2, <3>1 DEF Base
    <3>3. /\ u \in Task /\ u.pc = "selectOwn" /\ u.found = x.found /\ u.next = x.next /\ u.held = x.held
          /\ u.row = x.row /\ u.user = x.user /\ u.code = x.code
      BY <1>0, <3>1 DEF Task
    <3>4. TaskOK(u)
      BY <1>0, <1>1, <3>3 DEF TaskOK, Joining, Locking, Settling, CheckCode, At
    <3>. QED
      BY <1>0, <1>1, <3>2, <3>3, <3>4, Leaves DEF CheckCode, history, bounds, Passes, Locking
  <2>. QED
    BY <1>1, <2>1, <2>2 DEF CheckCode
<1>2. CASE Claim(r)
  <2>1. PICK row \in Row :
           /\ \/ x.row \in DOMAIN rows /\ rows' = [rows EXCEPT ![x.row] = row]
              \/ x.row = 0 /\ rows' = Append(rows, row)
    BY <1>2, ClaimIs
  <2>2. /\ rows' \in Seq(Row) /\ DOMAIN rows \subseteq DOMAIN rows'
        /\ Len(rows') = Len(rows) \/ Len(rows') = Len(rows) + 1
    BY <1>0, <2>1, RowSet, RowAdd
  <2>3. Idle \in Task /\ TaskOK(Idle)' /\ Idle.pc \notin Locking \cup {"drawCode", "claim"} /\ Idle.held = {}
    BY IdleOK DEF TaskOK, Joining, Locking, Settling
  <2>4. UNCHANGED <<code, drawn, today, joined, started, fails>> /\ req' = [req EXCEPT ![r] = Idle]
    BY <1>2 DEF Claim, bounds, Finish
  <2>5. claims' \in [Invite -> SUBSET User]
    <3>1. x.user \in User
      BY <1>0, <1>2 DEF TaskOK, Joining, Claim, At
    <3>2. PICK i : i = x.row
      OBVIOUS
    <3>3. claims' = claims \/ claims' = [claims EXCEPT ![i] = @ \cup {x.user}]
      BY <1>2, <3>2 DEF Claim
    <3>. QED
      BY <1>0, <3>1, <3>3
  <2>. QED
    BY <1>0, <2>2, <2>3, <2>4, <2>5 DEF Worked, Passes, Locking
<1>. QED
  BY <1>1, <1>2

\* The row as an operator's save leaves it.
LEMMA SaveIs ==
  ASSUME Base, NEW r \in Req, SaveStatus(r)
  PROVE  \E row \in Row :
           /\ req[r].row \in DOMAIN rows /\ rows' = [rows EXCEPT ![req[r].row] = row]
           /\ row.status = IF "status" \in req[r].cols THEN req[r].read.status
                           ELSE rows[req[r].row].status
           /\ req[r].read.status # "pending" /\ Free(r, {req[r].row})
           /\ reached' = reached \cup ({<<req[r].row, row.status>>} \cap Milestone)
<1>. DEFINE x == req[r]
<1>0. /\ x \in Task /\ TaskOK(x) /\ rows \in Seq(Row) /\ x.pc = "save"
      /\ \A i \in DOMAIN rows : rows[i] \in Row
  BY DEF Base, SaveStatus, At
<1>1. x.row \in DOMAIN rows /\ x.read.status # "pending"
  BY <1>0 DEF TaskOK, Settling
<1>2. PICK old : old = rows[x.row]
  OBVIOUS
<1>3. old \in Row
  BY <1>0, <1>1, <1>2
<1>4. PICK row : row = Merged(old, x)
  OBVIOUS
<1>5. row \in Row /\ row.status = IF "status" \in x.cols THEN x.read.status ELSE old.status
  BY <1>0, <1>3, <1>4, MergedOK
<1>6. rows' = [rows EXCEPT ![x.row] = row]
  BY <1>2, <1>4 DEF SaveStatus
<1>7. rows'[x.row] = row
  BY <1>0, <1>1, <1>5, <1>6, RowSet
<1>8. reached' = reached \cup ({<<x.row, rows'[x.row].status>>} \cap Milestone) /\ Free(r, {x.row})
  BY DEF SaveStatus
<1>. QED
  BY <1>1, <1>2, <1>5, <1>6, <1>7, <1>8


LEMMA SettlesWork ==
  ASSUME Base, NEW r \in Req, Compare(r) \/ SaveStatus(r) \/ Announce(r) \/ Push(r)
  PROVE  \E u : Worked(r, u)
<1>. DEFINE x == req[r]
<1>0. /\ x \in Task /\ TaskOK(x) /\ Continue(r) /\ x # Idle /\ rows \in Seq(Row)
      /\ drawn \in Nat /\ claims \in [Invite -> SUBSET User] /\ code \in {NoCode} \cup Code
  BY WorkBusy DEF Base, Continue, Room
<1>1. x.pc \in Settling
  BY DEF Compare, SaveStatus, Announce, Push, At, Settling
<1>2. ASSUME NEW pc \in Settling, NEW cols \in SUBSET Column,
             NEW u, u = [x EXCEPT !.pc = pc, !.cols = cols]
      PROVE  u \in Task /\ TaskOK(u) /\ u.pc \notin Locking \cup {"drawCode", "claim"} /\ u.held = x.held
  <2>1. /\ u \in Task /\ u.pc = pc /\ u.found = x.found /\ u.next = x.next /\ u.held = x.held
        /\ u.row = x.row /\ u.user = x.user /\ u.code = x.code /\ u.read = x.read
    BY <1>0, <1>2 DEF Task, Settling
  <2>. QED
    BY <1>0, <1>1, <2>1 DEF TaskOK, Joining, Locking, Settling
<1>3. x.cols \in SUBSET Column
  BY <1>0 DEF Task
<1>4. ASSUME NEW pc \in Settling, Goto(r, pc)
      PROVE  \E u : u = [x EXCEPT !.pc = pc, !.cols = x.cols] /\ req' = [req EXCEPT ![r] = u]
  <2>1. PICK u : u = [x EXCEPT !.pc = pc, !.cols = x.cols]
    OBVIOUS
  <2>2. u = [x EXCEPT !.pc = pc]
    BY <1>0, <2>1 DEF Task
  <2>. QED
    BY <1>4, <2>1, <2>2 DEF Goto, Base
<1>5. CASE Compare(r)
  <2>1. PICK cols : cols = {c \in Column : x.read[c] # rows[x.row][c]}
    OBVIOUS
  <2>2. PICK u : u = [x EXCEPT !.pc = "save", !.cols = cols]
    OBVIOUS
  <2>3. req' = [req EXCEPT ![r] = u]
    <3>1. req' = [req EXCEPT ![r].pc = "save", ![r].cols = cols]
      BY <1>5, <2>1 DEF Compare
    <3>. QED
      BY <2>2, <3>1 DEF Base
  <2>4. cols \in SUBSET Column /\ "save" \in Settling
    BY <2>1 DEF Settling
  <2>5. u \in Task /\ TaskOK(u) /\ u.pc \notin Locking \cup {"drawCode", "claim"} /\ u.held = x.held
    BY <1>2, <2>2, <2>4
  <2>. QED
    BY <1>0, <1>5, <2>3, <2>5, Leaves DEF Compare, history, bounds, Passes, Locking
<1>6. CASE Announce(r) \/ Push(r)
  <2>1. UNCHANGED <<code, drawn, rows, today, joined, claims, bounds>>
    BY <1>6 DEF Announce, Push, history
  <2>2. CASE Finish(r)
    BY <1>0, <2>1, <2>2, IdleOK, Leaves DEF Finish, Passes, Locking
  <2>3. CASE Goto(r, "push")
    <3>1. "push" \in Settling
      BY DEF Settling
    <3>2. PICK u : u = [x EXCEPT !.pc = "push", !.cols = x.cols] /\ req' = [req EXCEPT ![r] = u]
      BY <1>4, <2>3, <3>1
    <3>3. u \in Task /\ TaskOK(u) /\ u.pc \notin Locking \cup {"drawCode", "claim"} /\ u.held = x.held
      BY <1>2, <1>3, <3>1, <3>2
    <3>. QED
      BY <1>0, <2>1, <3>2, <3>3, Leaves DEF Passes, Locking
  <2>. QED
    BY <1>6, <2>2, <2>3 DEF Announce, Push
<1>7. CASE SaveStatus(r)
  <2>1. PICK row \in Row : x.row \in DOMAIN rows /\ rows' = [rows EXCEPT ![x.row] = row]
    BY <1>7, SaveIs
  <2>2. rows' \in Seq(Row) /\ DOMAIN rows' = DOMAIN rows /\ Len(rows') = Len(rows)
    BY <1>0, <2>1, RowSet
  <2>3. UNCHANGED <<code, drawn, today, joined, started, fails, claims>>
    BY <1>7 DEF SaveStatus, bounds
  <2>4. \E u \in Task : /\ req' = [req EXCEPT ![r] = u] /\ TaskOK(u) /\ u.held \subseteq x.held
                        /\ u.pc \notin Locking \cup {"drawCode", "claim"}
    <3>1. CASE Finish(r)
      BY <3>1, IdleOK DEF Finish, Locking
    <3>2. CASE Goto(r, "announce")
      <4>1. "announce" \in Settling
        BY DEF Settling
      <4>2. PICK u : u = [x EXCEPT !.pc = "announce", !.cols = x.cols] /\ req' = [req EXCEPT ![r] = u]
        BY <1>4, <3>2, <4>1
      <4>3. u \in Task /\ TaskOK(u) /\ u.pc \notin Locking \cup {"drawCode", "claim"} /\ u.held = x.held
        BY <1>2, <1>3, <4>1, <4>2
      <4>. QED
        BY <4>2, <4>3
    <3>. QED
      BY <1>7, <3>1, <3>2 DEF SaveStatus
  <2>5. PICK u \in Task : /\ req' = [req EXCEPT ![r] = u] /\ TaskOK(u) /\ u.held \subseteq x.held
                          /\ u.pc \notin Locking \cup {"drawCode", "claim"}
    BY <2>4
  <2>6. TaskOK(u)'
    BY <2>2, <2>5 DEF TaskOK
  <2>. QED
    BY <1>0, <2>2, <2>3, <2>5, <2>6 DEF Worked, Passes, Locking
<1>. QED
  BY <1>5, <1>6, <1>7

LEMMA QueryWorks ==
  ASSUME Base, NEW r \in Req, SelectOwn(r) \/ LockOwn(r) \/ SelectAny(r) \/ LockAny(r)
  PROVE  \E u : Worked(r, u) /\ Queries(r, u)
<1>0. Continue(r)
  BY DEF Continue
<1>1. CASE SelectOwn(r)
  BY <1>0, <1>1, SelectWorks DEF SelectOwn, Locking
<1>2. CASE SelectAny(r)
  BY <1>0, <1>2, SelectWorks DEF SelectAny, Locking
<1>3. CASE LockOwn(r)
  BY <1>0, <1>3, LockWorks DEF LockOwn, Locking
<1>4. CASE LockAny(r)
  BY <1>0, <1>4, LockWorks DEF LockAny, Locking
<1>. QED
  BY <1>1, <1>2, <1>3, <1>4

LEMMA Works ==
  ASSUME Base, NEW r \in Req, Continue(r)
  PROVE  \E u : Worked(r, u)
BY QueryWorks, EndsWork, InvitesWork, JoinsWork, SettlesWork DEF Continue

\* The nightly job touches what nobody holds, and is pending.
LEMMA Expires ==
  ASSUME rows \in Seq(Row), Expire
  PROVE  /\ rows' \in Seq(Row) /\ Len(rows') = Len(rows) /\ DOMAIN rows' = DOMAIN rows
         /\ UNCHANGED <<code, drawn, today, joined, req, news, history, bounds>>
         /\ \A i \in DOMAIN rows :
              \/ rows'[i] = rows[i]
              \/ /\ rows[i].status = "pending" /\ rows'[i].status = "expired"
                 /\ \A r \in Req : i \notin req[r].held
<1>1. rows' = [i \in DOMAIN rows |->
                 IF i \in Lapsed THEN [rows[i] EXCEPT !.status = "expired"] ELSE rows[i]]
  BY DEF Expire
<1>2. ASSUME NEW i \in DOMAIN rows
      PROVE  /\ rows'[i] \in Row
             /\ \/ rows'[i] = rows[i]
                \/ /\ rows[i].status = "pending" /\ rows'[i].status = "expired" /\ i \in Lapsed
  <2>1. PICK row \in Row : row = rows[i]
    OBVIOUS
  <2>2. CASE i \in Lapsed
    <3>1. rows'[i] = [row EXCEPT !.status = "expired"]
      BY <1>1, <2>1, <2>2
    <3>2. row.status = "pending"
      BY <2>1, <2>2 DEF Lapsed, Due
    <3>. QED
      BY <2>1, <2>2, <3>1, <3>2 DEF Row, ReferralStatus
  <2>3. CASE i \notin Lapsed
    BY <1>1, <2>1, <2>3
  <2>. QED
    BY <2>2, <2>3
<1>3. rows' \in Seq(Row) /\ Len(rows') = Len(rows) /\ DOMAIN rows' = DOMAIN rows
  BY <1>1, <1>2
<1>4. \A i \in Lapsed : \A r \in Req : i \notin req[r].held
  BY DEF Expire
<1>. QED
  BY <1>2, <1>3, <1>4 DEF Expire


-----------------------------------------------------------------------------
(* The base of the invariants. *)

LEMMA InitBase == Init => Base
<1>. SUFFICES ASSUME Init
              PROVE  Base
  OBVIOUS
<1>1. Running = {} /\ Drawing = {}
  BY DEF Init, Running, Drawing
<1>2. PICK S : S = {}
  OBVIOUS
<1>3. IsFiniteSet(S) /\ Cardinality(S) = 0
  BY <1>2, FS_EmptySet
<1>4. Running = S /\ Drawing = S
  BY <1>1, <1>2
<1>5. rows \in Seq(Row) /\ Len(rows) = 0 /\ drawn = 0 /\ started = 0
  BY DEF Init
<1>6. Room
  <2>1. drawn + Cardinality(Drawing) <= started /\ Len(rows) + Cardinality(Running) <= started
    BY <1>3, <1>4, <1>5
  <2>. QED
    BY <1>3, <1>4, <1>5, <2>1, ReferralsAssumption DEF Room
<1>7. req \in [Req -> Task] /\ \A r \in Req : TaskOK(req[r])
  BY IdleOK DEF Init
<1>8. /\ code \in {NoCode} \cup Code /\ joined \subseteq User
      /\ claims \in [Invite -> SUBSET User]
  BY DEF Init
<1>9. today \in Day /\ fails \in 0 .. MaxFails
  BY ReferralsAssumption DEF Init, Day
<1>. QED
  BY <1>5, <1>6, <1>7, <1>8, <1>9 DEF Base

LEMMA AskedBase ==
  ASSUME Base, NEW r \in Req, NEW u, Asked(r, u)
  PROVE  Base'
<1>0. /\ req \in [Req -> Task] /\ rows \in Seq(Row) /\ Room /\ \A s \in Req : TaskOK(req[s])
  BY DEF Base
<1>1. /\ u \in Task /\ TaskOK(u) /\ req' = [req EXCEPT ![r] = u] /\ rows' = rows
      /\ drawn' = drawn /\ started' = started + 1 /\ started < MaxRequests
  BY DEF Asked
<1>2. Running' \subseteq Running \cup {r} /\ Drawing' \subseteq Drawing \cup {r}
  BY <1>0, <1>1, Moved
<1>3. drawn' \in Nat /\ started' \in 0 .. MaxRequests
  BY <1>0, <1>1, ReferralsAssumption DEF Room
<1>4. Room'
  <2>1. rows' \in Seq(Row) /\ Len(rows') = Len(rows)
    BY <1>0, <1>1
  <2>. QED
    BY <1>0, <1>1, <1>2, <1>3, <2>1, RoomLeft
<1>5. TaskOK(u)' /\ DOMAIN rows \subseteq DOMAIN rows'
  BY <1>1 DEF TaskOK
<1>6. req' \in [Req -> Task] /\ \A s \in Req : TaskOK(req[s])'
  BY <1>0, <1>1, <1>5, TasksKept
<1>7. UNCHANGED <<code, rows, today, claims, fails>> /\ joined' \subseteq User
  BY DEF Asked, history
<1>. QED
  BY <1>4, <1>6, <1>7 DEF Base

LEMMA WorkedBase ==
  ASSUME Base, NEW r \in Req, NEW u, Worked(r, u)
  PROVE  Base'
<1>0. /\ req \in [Req -> Task] /\ rows \in Seq(Row) /\ Room /\ \A s \in Req : TaskOK(req[s])
  BY DEF Base
<1>1. /\ u \in Task /\ TaskOK(u)' /\ req' = [req EXCEPT ![r] = u] /\ req[r] # Idle
      /\ u.pc # "drawCode" /\ rows' \in Seq(Row) /\ DOMAIN rows \subseteq DOMAIN rows'
      /\ drawn' \in Nat /\ (drawn' = drawn \/ (drawn' = drawn + 1 /\ At(r, "drawCode")))
      /\ Len(rows') = Len(rows) \/ (Len(rows') = Len(rows) + 1 /\ u = Idle)
      /\ started' = started
  BY DEF Worked
<1>2. /\ r \in Running /\ Running' \subseteq Running
      /\ u = Idle => Running' \subseteq Running \ {r}
      /\ At(r, "drawCode") => r \in Drawing
      /\ Drawing' \subseteq Drawing \ {r}
  BY <1>0, <1>1, Moved
<1>3. started' \in 0 .. MaxRequests
  BY <1>0, <1>1 DEF Room
<1>4. \/ drawn' = drawn /\ Drawing' \subseteq Drawing
      \/ drawn' = drawn + 1 /\ r \in Drawing /\ Drawing' \subseteq Drawing \ {r}
  BY <1>1, <1>2
<1>5. \/ Len(rows') = Len(rows) /\ Running' \subseteq Running
      \/ Len(rows') = Len(rows) + 1 /\ r \in Running /\ Running' \subseteq Running \ {r}
  BY <1>1, <1>2
<1>6. Room'
  BY <1>0, <1>1, <1>3, <1>4, <1>5, RoomLeft
<1>7. req' \in [Req -> Task] /\ \A s \in Req : TaskOK(req[s])'
  BY <1>0, <1>1, TasksKept
<1>8. /\ UNCHANGED <<today, joined, fails>> /\ code' \in {NoCode} \cup Code
      /\ claims' \in [Invite -> SUBSET User]
  BY DEF Worked
<1>. QED
  BY <1>1, <1>6, <1>7, <1>8 DEF Base

LEMMA StepBase ==
  ASSUME Base, [Next]_vars
  PROVE  Base'
<1>0. /\ req \in [Req -> Task] /\ rows \in Seq(Row) /\ Room /\ \A s \in Req : TaskOK(req[s])
  BY DEF Base
<1>1. ASSUME NEW r \in Req, Fail(r)
      PROVE  Base'
  <2>1. /\ req' = [req EXCEPT ![r] = Idle] /\ rows' = rows /\ fails' = fails + 1 /\ fails < MaxFails
        /\ UNCHANGED <<code, drawn, today, joined, claims, started>> /\ req[r] # Idle
    BY <1>1 DEF Fail, Finish, history
  <2>2. Running' \subseteq Running /\ Drawing' \subseteq Drawing \cup {r}
        /\ Drawing' \subseteq Drawing
    BY <1>0, <2>1, IdleOK, Moved
  <2>3. drawn' \in Nat /\ started' \in 0 .. MaxRequests /\ rows' \in Seq(Row) /\ Len(rows') = Len(rows)
    BY <1>0, <2>1 DEF Room
  <2>4. Room'
    BY <1>0, <2>1, <2>2, <2>3, RoomLeft
  <2>5. TaskOK(Idle)' /\ DOMAIN rows \subseteq DOMAIN rows'
    BY <2>1, IdleOK DEF TaskOK
  <2>6. req' \in [Req -> Task] /\ \A s \in Req : TaskOK(req[s])'
    BY <1>0, <2>1, <2>5, IdleOK, TasksKept
  <2>7. fails' \in 0 .. MaxFails
    BY <2>1, ReferralsAssumption DEF Base
  <2>. QED
    BY <2>1, <2>3, <2>4, <2>6, <2>7 DEF Base
<1>2. ASSUME rows' \in Seq(Row), Len(rows') = Len(rows), DOMAIN rows' = DOMAIN rows, today' \in Day,
             UNCHANGED <<code, drawn, joined, req, claims, started, fails>>
      PROVE  Base'
  <2>1. Running' = Running /\ Drawing' = Drawing
    BY <1>2 DEF Running, Drawing, At
  <2>2. Room'
    BY <1>0, <1>2, <2>1 DEF Room
  <2>3. \A s \in Req : TaskOK(req[s])'
    BY <1>0, <1>2 DEF TaskOK
  <2>. QED
    BY <1>2, <2>2, <2>3 DEF Base
<1>3. CASE Tick
  <2>1. today' \in Day
    BY <1>3, ReferralsAssumption DEF Tick, Base, Day
  <2>. QED
    BY <1>0, <1>2, <1>3, <2>1 DEF Tick, history, bounds
<1>4. CASE Expire
  <2>1. today' \in Day
    BY <1>0, <1>4, Expires DEF Base
  <2>. QED
    BY <1>0, <1>2, <1>4, <2>1, Expires DEF history, bounds
<1>5. CASE UNCHANGED vars
  BY <1>0, <1>2, <1>5 DEF vars, history, bounds, Base
<1>6. ASSUME NEW r \in Req, Request(r)
      PROVE  Base'
  BY <1>6, Asks, AskedBase
<1>7. ASSUME NEW r \in Req, Continue(r)
      PROVE  Base'
  BY <1>7, Works, WorkedBase
<1>. QED
  BY <1>1, <1>3, <1>4, <1>5, <1>6, <1>7 DEF Next


-----------------------------------------------------------------------------
(* Who may claim an invite. *)

\* No row is locked by two tasks.
Disjoint == \A r \in Req : \A s \in Req \ {r} : req[r].held \cap req[s].held = {}

\* A sign-up that chose an invite holds it, and it is still to be had.
InHand(r) ==
  req[r].pc \in Locking \cup {"claim"} /\ req[r].row # 0 =>
    req[r].row \in req[r].held /\ rows[req[r].row].status = "pending"

\* An invite that brought in a friend is not to be had any more.
Spent(i) == claims[i] # {} => i \in DOMAIN rows /\ rows[i].status # "pending"

Taken == Disjoint /\ (\A r \in Req : InHand(r)) /\ (\A i \in Invite : Spent(i))

\* A task that goes on moves what nobody else holds, and never back to pending.
Turned(r, j) ==
  /\ j \in DOMAIN rows'
  /\ \/ rows'[j].status = rows[j].status
     \/ rows'[j].status # "pending" /\ Free(r, {j})

\* A friend is put down for an invite that was to be had, and brought in nobody.
Won(i) == i \in DOMAIN rows /\ rows[i].status = "pending" /\ claims[i] = {} /\ rows'[i].status # "pending"

LEMMA Turns ==
  ASSUME Base, Taken, NEW r \in Req, Continue(r)
  PROVE  /\ \A j \in DOMAIN rows : Turned(r, j)
         /\ \A i \in Invite : claims'[i] # claims[i] => Won(i)
<1>. DEFINE x == req[r]
<1>0. /\ req \in [Req -> Task] /\ rows \in Seq(Row) /\ claims \in [Invite -> SUBSET User]
      /\ TaskOK(x) /\ DOMAIN rows \subseteq Invite
  BY Bounded DEF Base
<1>1. CASE Claim(r)
  <2>1. PICK row \in Row :
           /\ row.status = "registered"
           /\ \/ x.row \in DOMAIN rows /\ rows' = [rows EXCEPT ![x.row] = row]
              \/ x.row = 0 /\ rows' = Append(rows, row)
    BY <1>1, ClaimIs
  <2>2. 0 \notin DOMAIN rows
    BY <1>0
  <2>3. CASE x.row = 0
    <3>1. rows' = Append(rows, row)
      BY <2>1, <2>2, <2>3
    <3>2. \A j \in DOMAIN rows : j \in DOMAIN rows' /\ rows'[j] = rows[j]
      BY <1>0, <3>1, RowAdd
    <3>3. claims' = claims
      BY <1>1, <2>3 DEF Claim
    <3>. QED
      BY <3>2, <3>3 DEF Turned
  <2>4. CASE x.row # 0
    <3>1. PICK i : i = x.row
      OBVIOUS
    <3>2. i \in DOMAIN rows /\ rows' = [rows EXCEPT ![i] = row]
      BY <2>1, <2>4, <3>1
    <3>3. /\ DOMAIN rows' = DOMAIN rows /\ rows'[i] = row
          /\ \A j \in DOMAIN rows : j # i => rows'[j] = rows[j]
      BY <1>0, <3>2, RowSet
    <3>4. i \in x.held /\ rows[i].status = "pending"
      BY <1>1, <2>4, <3>1 DEF Taken, InHand, Claim, At
    <3>5. Free(r, {i})
      BY <3>4 DEF Taken, Disjoint, Free
    <3>6. \A j \in DOMAIN rows : Turned(r, j)
      BY <2>1, <3>3, <3>5 DEF Turned
    <3>7. claims' = [claims EXCEPT ![i] = @ \cup {x.user}]
      BY <1>1, <2>4, <3>1 DEF Claim
    <3>8. claims[i] = {}
      BY <1>0, <3>2, <3>4 DEF Taken, Spent
    <3>9. \A k \in Invite : claims'[k] # claims[k] => k = i
      BY <1>0, <3>7
    <3>. QED
      BY <2>1, <3>2, <3>3, <3>4, <3>6, <3>8, <3>9 DEF Won
  <2>. QED
    BY <2>3, <2>4
<1>2. CASE SaveStatus(r)
  <2>1. PICK row \in Row :
           /\ x.row \in DOMAIN rows /\ rows' = [rows EXCEPT ![x.row] = row]
           /\ row.status = IF "status" \in x.cols THEN x.read.status ELSE rows[x.row].status
           /\ x.read.status # "pending" /\ Free(r, {x.row})
    BY <1>2, SaveIs
  <2>2. /\ DOMAIN rows' = DOMAIN rows /\ rows'[x.row] = row
        /\ \A j \in DOMAIN rows : j # x.row => rows'[j] = rows[j]
    BY <1>0, <2>1, RowSet
  <2>3. claims' = claims
    BY <1>2 DEF SaveStatus
  <2>4. row.status = rows[x.row].status \/ row.status # "pending"
    BY <2>1
  <2>5. Turned(r, x.row)
    BY <2>1, <2>2, <2>4 DEF Turned
  <2>6. \A j \in DOMAIN rows : j # x.row => Turned(r, j)
    BY <2>2 DEF Turned
  <2>. QED
    BY <2>3, <2>5, <2>6
<1>3. CASE InsertInvite(r)
  <2>1. PICK row : row = [Blank EXCEPT !.code = x.code, !.named = x.user, !.exp = today + Life]
    OBVIOUS
  <2>2. rows' = Append(rows, row) /\ claims' = claims
    BY <1>3, <2>1 DEF InsertInvite, history
  <2>3. \A j \in DOMAIN rows : j \in DOMAIN rows' /\ rows'[j] = rows[j]
    BY <1>0, <2>2
  <2>. QED
    BY <2>2, <2>3 DEF Turned
<1>4. CASE ~Claim(r) /\ ~SaveStatus(r) /\ ~InsertInvite(r)
  <2>1. rows' = rows /\ claims' = claims
    BY <1>4 DEF Continue, DrawCode, SaveUser, FindInvite, CheckCode, Deadlock, SelectOwn, LockOwn, SelectAny,
         LockAny, Select, Lock, Compare, Announce, Push, history
  <2>. QED
    BY <2>1 DEF Turned
<1>. QED
  BY <1>1, <1>2, <1>3, <1>4

LEMMA WorkedTaken ==
  ASSUME Base, Taken, NEW r \in Req, NEW u, Worked(r, u), Continue(r)
  PROVE  Taken'
<1>0. /\ req \in [Req -> Task] /\ rows \in Seq(Row) /\ claims \in [Invite -> SUBSET User]
      /\ DOMAIN rows \subseteq Invite /\ \A s \in Req : TaskOK(req[s])
  BY Bounded DEF Base
<1>1. /\ u \in Task /\ req' = [req EXCEPT ![r] = u]
      /\ Locks(r, u) \/ Passes(r, u)
  BY DEF Worked
<1>2. req'[r] = u /\ \A s \in Req \ {r} : req'[s] = req[s]
  BY <1>0, <1>1, Moved
<1>3. /\ \A j \in DOMAIN rows : Turned(r, j)
      /\ \A i \in Invite : claims'[i] # claims[i] => Won(i)
  BY Turns
<1>4. Disjoint'
  <2>1. \A s \in Req \ {r} : u.held \cap req[s].held = {}
    BY <1>1 DEF Taken, Disjoint, Locks, Passes, Free
  <2>. QED
    BY <1>2, <2>1 DEF Taken, Disjoint
<1>5. InHand(r)'
  <2>1. CASE Locks(r, u)
    BY <1>2, <2>1 DEF Taken, InHand, Locks
  <2>2. CASE Passes(r, u)
    BY <1>2, <2>2 DEF InHand, Passes
  <2>. QED
    BY <1>1, <2>1, <2>2
<1>6. ASSUME NEW s \in Req \ {r}
      PROVE  InHand(s)'
  <2>1. PICK i : i = req[s].row
    OBVIOUS
  <2>2. CASE req[s].pc \in Locking \cup {"claim"} /\ i # 0
    <3>1. i \in req[s].held /\ rows[i].status = "pending"
      BY <2>1, <2>2 DEF Taken, InHand
    <3>2. i \in DOMAIN rows
      BY <1>0, <2>1, <2>2 DEF TaskOK
    <3>3. ~Free(r, {i})
      BY <3>1 DEF Free
    <3>4. rows'[i].status = "pending"
      BY <1>3, <3>1, <3>2, <3>3 DEF Turned
    <3>. QED
      BY <1>2, <2>1, <3>1, <3>4 DEF InHand
  <2>3. CASE ~(req[s].pc \in Locking \cup {"claim"} /\ i # 0)
    BY <1>2, <2>1, <2>3 DEF InHand
  <2>. QED
    BY <2>2, <2>3
<1>7. ASSUME NEW i \in Invite
      PROVE  Spent(i)'
  <2>1. CASE claims'[i] = claims[i]
    BY <1>3, <2>1 DEF Taken, Spent, Turned
  <2>2. CASE claims'[i] # claims[i]
    BY <1>3, <2>2 DEF Won, Spent, Turned
  <2>. QED
    BY <2>1, <2>2
<1>. QED
  BY <1>4, <1>5, <1>6, <1>7 DEF Taken

LEMMA StepTaken ==
  ASSUME Base, Taken, [Next]_vars
  PROVE  /\ Taken'
         /\ \A i \in Invite : claims'[i] # claims[i] => claims[i] = {} /\ rows[i].status = "pending"
<1>0. /\ req \in [Req -> Task] /\ rows \in Seq(Row) /\ \A s \in Req : TaskOK(req[s])
  BY DEF Base
<1>1. ASSUME UNCHANGED <<rows, claims>>, NEW r \in Req, NEW u \in Task,
             req' = [req EXCEPT ![r] = u], u.held = {}, u.pc \notin Locking \cup {"claim"}
      PROVE  Taken' /\ claims' = claims
  <2>1. req'[r] = u /\ \A s \in Req \ {r} : req'[s] = req[s]
    BY <1>0, <1>1, Moved
  <2>2. Disjoint'
    BY <1>1, <2>1 DEF Taken, Disjoint
  <2>3. \A s \in Req : InHand(s)'
    BY <1>1, <2>1 DEF Taken, InHand
  <2>4. \A i \in Invite : Spent(i)'
    BY <1>1 DEF Taken, Spent
  <2>. QED
    BY <1>1, <2>2, <2>3, <2>4 DEF Taken
<1>2. ASSUME UNCHANGED <<req, claims>>, DOMAIN rows' = DOMAIN rows,
             \A i \in DOMAIN rows :
               \/ rows'[i] = rows[i]
               \/ rows'[i].status # "pending" /\ \A r \in Req : i \notin req[r].held
      PROVE  Taken' /\ claims' = claims
  <2>1. Disjoint'
    BY <1>2 DEF Taken, Disjoint
  <2>2. \A s \in Req : InHand(s)'
    BY <1>0, <1>2 DEF Taken, InHand, TaskOK
  <2>3. \A i \in Invite : Spent(i)'
    BY <1>2 DEF Taken, Spent
  <2>. QED
    BY <1>2, <2>1, <2>2, <2>3 DEF Taken
<1>3. CASE Tick \/ UNCHANGED vars
  BY <1>2, <1>3 DEF Tick, vars, history
<1>4. CASE Expire
  <2>1. /\ DOMAIN rows' = DOMAIN rows /\ UNCHANGED <<req, claims>>
        /\ \A i \in DOMAIN rows :
              \/ rows'[i] = rows[i]
              \/ rows'[i].status # "pending" /\ \A r \in Req : i \notin req[r].held
    BY <1>0, <1>4, Expires DEF history
  <2>. QED
    BY <1>2, <2>1
<1>5. ASSUME NEW r \in Req, Request(r)
      PROVE  Taken' /\ claims' = claims
  <2>1. PICK u : Asked(r, u)
    BY <1>5, Asks
  <2>. QED
    BY <1>1, <2>1 DEF Asked, history, Locking
<1>6. ASSUME NEW r \in Req, Fail(r)
      PROVE  Taken' /\ claims' = claims
  BY <1>1, <1>6, IdleOK DEF Fail, Finish, history, Locking
<1>7. ASSUME NEW r \in Req, Continue(r)
      PROVE  Taken' /\ \A i \in Invite : claims'[i] # claims[i] => Won(i)
  BY <1>7, Works, WorkedTaken, Turns
<1>. QED
  BY <1>3, <1>4, <1>5, <1>6, <1>7 DEF Next, Won

(***************************************************************************)
(* An invite is claimed by one sign-up and while it is pending, for any    *)
(* number of sign-ups, operators and nights that meet.                     *)
(***************************************************************************)
THEOREM InvitesClaimedOnce == Spec => ClaimedOnce
<1>1. Init => Taken
  BY IdleOK DEF Init, Taken, Disjoint, InHand, Locking, Spent
<1>2. Base /\ Taken /\ [Next]_vars => Base' /\ Taken'
  BY StepBase, StepTaken
<1>3. Base /\ Taken /\ [Next]_vars =>
        [\A i \in Invite :
           claims'[i] # claims[i] => claims[i] = {} /\ rows[i].status = "pending"]_vars
  BY StepTaken
<1>. QED
  BY InitBase, <1>1, <1>2, <1>3, PTL DEF Spec, ClaimedOnce


-----------------------------------------------------------------------------
(* What the referrer hears. *)

\* The success that a task of an operator is about.
About(r) == <<req[r].row, req[r].read.status>>

Telling == {"announce", "push"}

NewsTyped == shown \subseteq Milestone /\ pushes \in [Milestone -> Nat] /\ reached \subseteq Milestone

\* What rows say happened.
Recorded(i) == rows[i].status \in Success => <<i, rows[i].status>> \in reached

\* What a task tells, or will not write again, happened.
Happened(r) ==
  /\ req[r].pc \in Telling => About(r) \in reached
  /\ /\ At(r, "save") /\ req[r].read.status \in Success
     /\ "status" \notin req[r].cols
     => About(r) \in reached

\* One push at most is to come or was made, and only for a row of the notification centre.
Alone(r) ==
  At(r, "push") =>
    /\ About(r) \in shown /\ pushes[About(r)] = 0
    /\ \A s \in Req \ {r} : At(s, "push") => About(s) # About(r)

Unheard == \A m \in Milestone : m \notin shown => pushes[m] = 0

Heard ==
  /\ NewsTyped /\ Unheard
  /\ \A i \in DOMAIN rows : Recorded(i)
  /\ \A r \in Req : Happened(r) /\ Alone(r)

\* A task that is neither deciding nor telling.
Quiet(t) == t.pc \notin {"save", "announce", "push"}

\* Every other step leaves the news alone, and no row comes to a success by it.
LEMMA OthersQuiet ==
  ASSUME Base, NEW r \in Req, Continue(r),
         ~Compare(r), ~SaveStatus(r), ~Announce(r), ~Push(r)
  PROVE  /\ Quiet(req'[r]) /\ UNCHANGED <<shown, pushes, reached>>
         /\ \A s \in Req \ {r} : req'[s] = req[s]
         /\ \A j \in DOMAIN rows' :
              \/ j \in DOMAIN rows /\ rows'[j] = rows[j]
              \/ rows'[j].status \notin Success
<1>0. /\ req \in [Req -> Task] /\ rows \in Seq(Row)
  BY DEF Base
<1>1. UNCHANGED <<shown, pushes, reached>>
  BY DEF Continue, DrawCode, SaveUser, FindInvite, InsertInvite, CheckCode, SelectOwn, LockOwn,
         SelectAny, LockAny, Select, Lock, Deadlock, Claim, news, history
<1>2. PICK u : Worked(r, u)
  BY Works
<1>3. \A s \in Req \ {r} : req'[s] = req[s]
  BY <1>0, <1>2, Moved DEF Worked
<1>4. Quiet(req'[r])
  <2>1. req[r] \in Task
    BY <1>0
  <2>2. CASE Finish(r)
    BY <1>0, <2>2, IdleOK DEF Finish, Quiet
  <2>3. CASE DrawCode(r) \/ FindInvite(r) \/ InsertInvite(r) \/ CheckCode(r) \/ Claim(r)
    BY <1>0, <2>1, <2>2, <2>3 DEF DrawCode, FindInvite, InsertInvite, CheckCode, Claim, Goto, Quiet, Task
  <2>4. CASE SelectOwn(r) \/ LockOwn(r) \/ SelectAny(r) \/ LockAny(r)
    <3>1. PICK v : Worked(r, v) /\ Queries(r, v)
      BY <2>4, QueryWorks
    <3>2. req'[r] = v
      BY <1>0, <3>1, Moved DEF Worked
    <3>. QED
      BY <3>1, <3>2 DEF Queries, Quiet, Locking
  <2>5. CASE SaveUser(r) \/ Deadlock(r)
    BY <2>2, <2>5 DEF SaveUser, Deadlock
  <2>. QED
    BY <2>3, <2>4, <2>5 DEF Continue
<1>5. CASE Claim(r)
  <2>1. PICK row \in Row :
           /\ row.status = "registered"
           /\ \/ req[r].row \in DOMAIN rows /\ rows' = [rows EXCEPT ![req[r].row] = row]
              \/ req[r].row = 0 /\ rows' = Append(rows, row)
    BY <1>5, ClaimIs
  <2>2. row.status \notin Success
    BY <2>1 DEF Success
  <2>3. CASE rows' = Append(rows, row)
    BY <1>0, <1>1, <1>3, <1>4, <2>2, <2>3, RowAdd
  <2>4. CASE req[r].row \in DOMAIN rows /\ rows' = [rows EXCEPT ![req[r].row] = row]
    BY <1>0, <1>1, <1>3, <1>4, <2>2, <2>4, RowSet
  <2>. QED
    BY <2>1, <2>3, <2>4
<1>6. CASE InsertInvite(r)
  <2>1. PICK row : row = [Blank EXCEPT !.code = req[r].code, !.named = req[r].user,
                                       !.exp = today + Life]
    OBVIOUS
  <2>2. rows' = Append(rows, row) /\ row.status \notin Success
    BY <1>6, <2>1, BlankOK DEF InsertInvite, Success, Blank
  <2>3. \A j \in DOMAIN rows' : \/ j \in DOMAIN rows /\ rows'[j] = rows[j]
                                \/ rows'[j].status \notin Success
    BY <1>0, <2>2
  <2>. QED
    BY <1>1, <1>3, <1>4, <2>3
<1>7. CASE ~Claim(r) /\ ~InsertInvite(r)
  <2>1. rows' = rows
    BY <1>7 DEF Continue, DrawCode, SaveUser, FindInvite, CheckCode, Deadlock, SelectOwn, LockOwn, SelectAny,
         LockAny, Select, Lock, history
  <2>. QED
    BY <1>1, <1>3, <1>4, <2>1
<1>. QED
  BY <1>5, <1>6, <1>7


LEMMA QuietHeard ==
  ASSUME Heard, NEW r \in Req, Quiet(req'[r]), \A s \in Req \ {r} : req'[s] = req[s],
         UNCHANGED <<shown, pushes, reached>>,
         \A j \in DOMAIN rows' : \/ j \in DOMAIN rows /\ rows'[j] = rows[j]
                                 \/ rows'[j].status \notin Success
  PROVE  Heard'
<1>1. NewsTyped' /\ Unheard'
  BY DEF Heard, NewsTyped, Unheard
<1>2. \A i \in DOMAIN rows' : Recorded(i)'
  BY DEF Heard, Recorded
<1>3. Happened(r)' /\ Alone(r)'
  BY DEF Quiet, Happened, Alone, At, Telling
<1>4. ASSUME NEW s \in Req \ {r}
      PROVE  Happened(s)' /\ Alone(s)'
  <2>1. req'[s] = req[s] /\ About(s)' = About(s)
    BY <1>4 DEF About
  <2>2. Happened(s)'
    BY <2>1 DEF Heard, Happened, At
  <2>3. ASSUME NEW t \in Req \ {s}, At(t, "push")', At(s, "push")
        PROVE  About(t)' # About(s)
    <3>1. t # r
      BY <2>3 DEF Quiet, At
    <3>2. req'[t] = req[t]
      BY <3>1
    <3>. QED
      BY <1>4, <2>3, <3>2 DEF Heard, Alone, About, At
  <2>. QED
    BY <2>1, <2>2, <2>3 DEF Heard, Alone, At
<1>. QED
  BY <1>1, <1>2, <1>3, <1>4 DEF Heard

\* The operator's task becomes u, about the same success.
LEMMA SameSuccess ==
  ASSUME req \in [Req -> Task], NEW r \in Req, NEW pc, NEW u,
         u = [req[r] EXCEPT !.pc = pc], Goto(r, pc)
  PROVE  /\ req'[r] = u /\ u.pc = pc /\ u.cols = req[r].cols /\ About(r)' = About(r)
         /\ \A s \in Req \ {r} : req'[s] = req[s]
<1>1. req'[r] = u /\ \A s \in Req \ {r} : req'[s] = req[s]
  BY DEF Goto
<1>2. req[r] \in Task
  OBVIOUS
<1>3. u.pc = pc /\ u.cols = req[r].cols /\ u.row = req[r].row /\ u.read = req[r].read
  BY <1>2 DEF Task
<1>. QED
  BY <1>1, <1>3 DEF About

LEMMA CompareHeard ==
  ASSUME Base, Heard, NEW r \in Req, Compare(r)
  PROVE  Heard' /\ UNCHANGED <<reached, pushes>>
<1>. DEFINE x == req[r]
<1>0. /\ req \in [Req -> Task] /\ x \in Task /\ x.row \in DOMAIN rows
  BY DEF Base, Compare, At, TaskOK, Settling
<1>1. UNCHANGED <<rows, shown, pushes, reached>>
  BY DEF Compare, news, history
<1>2. PICK cols : cols = {c \in Column : x.read[c] # rows[x.row][c]}
  OBVIOUS
<1>3. PICK u : u = [x EXCEPT !.pc = "save", !.cols = cols]
  OBVIOUS
<1>4. req'[r] = u /\ \A s \in Req \ {r} : req'[s] = req[s]
  <2>1. req' = [req EXCEPT ![r].pc = "save", ![r].cols = cols]
    BY <1>2 DEF Compare
  <2>. QED
    BY <1>0, <1>3, <2>1
<1>5. u.pc = "save" /\ u.cols = cols /\ u.row = x.row /\ u.read = x.read
  BY <1>0, <1>3 DEF Task
<1>6. NewsTyped' /\ Unheard' /\ \A i \in DOMAIN rows' : Recorded(i)'
  BY <1>1 DEF Heard, NewsTyped, Unheard, Recorded
<1>7. Happened(r)'
  <2>1. "status" \notin cols => x.read.status = rows[x.row].status
    BY <1>2 DEF Column
  <2>2. "status" \notin cols /\ x.read.status \in Success => <<x.row, x.read.status>> \in reached
    BY <1>0, <2>1 DEF Heard, Recorded
  <2>. QED
    BY <1>1, <1>4, <1>5, <2>2 DEF Happened, About, At, Telling
<1>8. Alone(r)'
  BY <1>4, <1>5 DEF Alone, At
<1>9. ASSUME NEW s \in Req \ {r}
      PROVE  Happened(s)' /\ Alone(s)'
  <2>1. Happened(s)'
    BY <1>1, <1>4 DEF Heard, Happened, At, About
  <2>2. Alone(s)'
    BY <1>1, <1>4, <1>5 DEF Heard, Alone, At, About
  <2>. QED
    BY <2>1, <2>2
<1>. QED
  BY <1>1, <1>6, <1>7, <1>8, <1>9 DEF Heard

LEMMA SaveHeard ==
  ASSUME Base, Heard, NEW r \in Req, SaveStatus(r)
  PROVE  Heard' /\ UNCHANGED pushes /\ reached \subseteq reached' /\ reached' \subseteq Milestone
<1>. DEFINE x == req[r]
<1>0. /\ req \in [Req -> Task] /\ x \in Task /\ rows \in Seq(Row) /\ DOMAIN rows \subseteq Invite
      /\ At(r, "save")
  BY Bounded DEF Base, SaveStatus
<1>1. PICK row \in Row :
         /\ x.row \in DOMAIN rows /\ rows' = [rows EXCEPT ![x.row] = row]
         /\ row.status = IF "status" \in x.cols THEN x.read.status ELSE rows[x.row].status
         /\ reached' = reached \cup ({<<x.row, row.status>>} \cap Milestone)
  BY SaveIs
<1>2. /\ DOMAIN rows' = DOMAIN rows /\ rows'[x.row] = row
      /\ \A j \in DOMAIN rows : j # x.row => rows'[j] = rows[j]
  BY <1>0, <1>1, RowSet
<1>3. reached \subseteq reached' /\ reached' \subseteq Milestone /\ UNCHANGED <<shown, pushes>>
  BY <1>1 DEF SaveStatus, Heard, NewsTyped, news
<1>4. row.status \in Success => <<x.row, row.status>> \in reached'
  BY <1>0, <1>1 DEF Milestone
<1>5. x.read.status \in Success => About(r) \in reached'
  <2>1. CASE "status" \in x.cols
    BY <1>1, <1>4, <2>1 DEF About
  <2>2. CASE "status" \notin x.cols
    BY <1>0, <1>3, <2>2 DEF Heard, Happened
  <2>. QED
    BY <2>1, <2>2
<1>6. NewsTyped' /\ Unheard'
  BY <1>3 DEF Heard, NewsTyped, Unheard
<1>7. \A i \in DOMAIN rows' : Recorded(i)'
  <2>1. ASSUME NEW i \in DOMAIN rows
        PROVE  Recorded(i)'
    <3>1. CASE i = x.row
      BY <1>2, <1>4, <3>1 DEF Recorded
    <3>2. CASE i # x.row
      BY <1>2, <1>3, <2>1, <3>2 DEF Recorded, Heard
    <3>. QED
      BY <3>1, <3>2
  <2>. QED
    BY <1>2, <2>1
<1>8. /\ Happened(r)' /\ Alone(r)'
      /\ req'[r].pc # "push" /\ \A s \in Req \ {r} : req'[s] = req[s]
  <2>1. CASE Finish(r)
    BY <1>0, <2>1, IdleOK DEF Finish, Happened, Alone, At, Telling
  <2>2. CASE x.read.status \in Success /\ Goto(r, "announce")
    <3>1. PICK u : u = [x EXCEPT !.pc = "announce"]
      OBVIOUS
    <3>2. /\ req'[r] = u /\ u.pc = "announce" /\ About(r)' = About(r)
          /\ \A s \in Req \ {r} : req'[s] = req[s]
      BY <1>0, <2>2, <3>1, SameSuccess
    <3>. QED
      BY <1>5, <2>2, <3>2 DEF Happened, Alone, At
  <2>. QED
    BY <2>1, <2>2 DEF SaveStatus
<1>9. ASSUME NEW s \in Req \ {r}
      PROVE  Happened(s)' /\ Alone(s)'
  <2>1. Happened(s)'
    BY <1>3, <1>8 DEF Heard, Happened, At, About
  <2>2. Alone(s)'
    BY <1>3, <1>8 DEF Heard, Alone, At, About
  <2>. QED
    BY <2>1, <2>2
<1>. QED
  BY <1>3, <1>6, <1>7, <1>8, <1>9 DEF Heard


LEMMA AnnounceHeard ==
  ASSUME Base, Heard, NEW r \in Req, Announce(r)
  PROVE  Heard' /\ UNCHANGED <<reached, pushes>>
<1>. DEFINE x == req[r]
            m == About(r)
<1>0. req \in [Req -> Task] /\ At(r, "announce")
  BY DEF Base, Announce
<1>1. UNCHANGED <<rows, reached, pushes>> /\ shown' = shown \cup {m}
  BY DEF Announce, history, About
<1>2. m \in reached /\ m \in Milestone
  BY <1>0 DEF Heard, Happened, NewsTyped, At, Telling
<1>3. NewsTyped' /\ Unheard'
  BY <1>1, <1>2 DEF Heard, NewsTyped, Unheard
<1>4. \A i \in DOMAIN rows' : Recorded(i)'
  BY <1>1 DEF Heard, Recorded
<1>5. /\ Happened(r)' /\ \A s \in Req \ {r} : req'[s] = req[s]
      /\ At(r, "push")' => About(r)' = m /\ m \notin shown
  <2>1. CASE Finish(r)
    BY <1>0, <2>1, IdleOK DEF Finish, Happened, At, Telling
  <2>2. CASE m \notin shown /\ Goto(r, "push")
    <3>1. PICK u : u = [x EXCEPT !.pc = "push"]
      OBVIOUS
    <3>2. /\ req'[r] = u /\ u.pc = "push" /\ About(r)' = About(r)
          /\ \A s \in Req \ {r} : req'[s] = req[s]
      BY <1>0, <2>2, <3>1, SameSuccess
    <3>. QED
      BY <1>1, <1>2, <2>2, <3>2 DEF Happened, At
  <2>. QED
    BY <2>1, <2>2 DEF Announce, About
<1>6. ASSUME NEW s \in Req \ {r}
      PROVE  Happened(s)' /\ About(s)' = About(s)
  BY <1>1, <1>5 DEF Heard, Happened, At, About
<1>7. ASSUME NEW s \in Req \ {r}, At(s, "push")'
      PROVE  About(s) \in shown /\ pushes[About(s)] = 0
             /\ \A t \in Req \ {r, s} : At(t, "push")' => About(t) # About(s)
  <2>1. At(s, "push") /\ \A t \in Req \ {r, s} : At(t, "push")' => At(t, "push")
    BY <1>5, <1>7 DEF At
  <2>. QED
    BY <2>1 DEF Heard, Alone
<1>8. ASSUME NEW s \in Req
      PROVE  Alone(s)'
  <2>1. CASE s = r
    <3>1. SUFFICES ASSUME At(r, "push")'
                   PROVE  Alone(r)'
      BY <2>1 DEF Alone
    <3>2. About(r)' = m /\ m \notin shown /\ m \in shown' /\ pushes'[m] = 0
      BY <1>1, <1>2, <1>5, <3>1 DEF Heard, Unheard
    <3>3. \A t \in Req \ {r} : At(t, "push")' => About(t)' # m
      BY <1>6, <1>7, <3>2
    <3>. QED
      BY <3>2, <3>3 DEF Alone
  <2>2. CASE s # r
    <3>1. SUFFICES ASSUME At(s, "push")'
                   PROVE  Alone(s)'
      BY <2>2 DEF Alone
    <3>2. About(s)' = About(s) /\ About(s) \in shown' /\ pushes'[About(s)] = 0
      BY <1>1, <1>6, <1>7, <2>2, <3>1
    <3>3. ASSUME NEW t \in Req \ {s}, At(t, "push")'
          PROVE  About(t)' # About(s)
      <4>1. CASE t = r
        BY <1>5, <1>7, <2>2, <3>1, <3>3, <4>1
      <4>2. CASE t # r
        <5>1. t \in Req \ {r} /\ t \in Req \ {r, s}
          BY <3>3, <4>2
        <5>2. About(t)' = About(t)
          BY <1>6, <5>1
        <5>3. About(t) # About(s)
          BY <1>7, <2>2, <3>1, <3>3, <5>1
        <5>. QED
          BY <5>2, <5>3
      <4>. QED
        BY <4>1, <4>2
    <3>. QED
      BY <3>2, <3>3 DEF Alone
  <2>. QED
    BY <2>1, <2>2
<1>. QED
  BY <1>1, <1>3, <1>4, <1>5, <1>6, <1>8 DEF Heard

LEMMA PushHeard ==
  ASSUME Base, Heard, NEW r \in Req, Push(r)
  PROVE  Heard' /\ \E m \in Milestone : News!Hear(m)
<1>. DEFINE m == About(r)
<1>0. req \in [Req -> Task] /\ At(r, "push")
  BY DEF Base, Push
<1>1. UNCHANGED <<rows, shown, reached>> /\ pushes' = [pushes EXCEPT ![m] = @ + 1]
  BY DEF Push, history, About
<1>2. req'[r] = Idle /\ \A s \in Req \ {r} : req'[s] = req[s]
  BY <1>0 DEF Push, Finish
<1>3. m \in reached /\ m \in Milestone /\ m \in shown /\ pushes[m] = 0
  BY <1>0 DEF Heard, Happened, Alone, NewsTyped, At, Telling
<1>4. pushes' = [pushes EXCEPT ![m] = 1] /\ pushes' \in [Milestone -> Nat]
      /\ \A n \in Milestone : n # m => pushes'[n] = pushes[n]
  BY <1>1, <1>3 DEF Heard, NewsTyped
<1>5. NewsTyped' /\ Unheard'
  BY <1>1, <1>3, <1>4 DEF Heard, NewsTyped, Unheard
<1>6. \A i \in DOMAIN rows' : Recorded(i)'
  BY <1>1 DEF Heard, Recorded
<1>7. Happened(r)' /\ Alone(r)' /\ ~At(r, "push")'
  BY <1>2, IdleOK DEF Happened, Alone, At, Telling
<1>8. ASSUME NEW s \in Req \ {r}
      PROVE  Happened(s)' /\ Alone(s)'
  <2>1. Happened(s)'
    BY <1>1, <1>2 DEF Heard, Happened, At, About
  <2>2. Alone(s)'
    <3>1. SUFFICES ASSUME At(s, "push")'
                   PROVE  Alone(s)'
      BY DEF Alone
    <3>2. At(s, "push") /\ About(s)' = About(s)
      BY <1>2, <1>8, <3>1 DEF At, About
    <3>3. About(s) \in shown /\ pushes[About(s)] = 0 /\ About(s) # m
      BY <1>0, <1>8, <3>2 DEF Heard, Alone
    <3>4. About(s) \in Milestone
      BY <3>3 DEF Heard, NewsTyped
    <3>5. About(s) \in shown' /\ pushes'[About(s)] = 0
      BY <1>1, <1>4, <3>3, <3>4
    <3>6. ASSUME NEW t \in Req \ {s}, At(t, "push")'
          PROVE  About(t)' # About(s)
      <4>1. t # r
        BY <1>7, <3>6
      <4>2. At(t, "push") /\ About(t)' = About(t)
        BY <1>2, <3>6, <4>1 DEF At, About
      <4>. QED
        BY <1>8, <3>2, <3>6, <4>2 DEF Heard, Alone
    <3>. QED
      BY <3>2, <3>5, <3>6 DEF Alone
  <2>. QED
    BY <2>1, <2>2
<1>9. News!Hear(m)
  BY <1>1, <1>3, <1>4 DEF News!Hear
<1>. QED
  BY <1>1, <1>3, <1>5, <1>6, <1>7, <1>8, <1>9 DEF Heard

LEMMA StepHeard ==
  ASSUME Base, Heard, [Next]_vars
  PROVE  Heard' /\ [News!Next]_(News!vars)
<1>0. req \in [Req -> Task] /\ rows \in Seq(Row) /\ reached \subseteq Milestone
  BY DEF Base, Heard, NewsTyped
<1>1. ASSUME NEW r \in Req, Quiet(req'[r]), \A s \in Req \ {r} : req'[s] = req[s],
             UNCHANGED <<rows, shown, pushes, reached>>
      PROVE  Heard' /\ UNCHANGED <<reached, pushes>>
  BY <1>1, QuietHeard
<1>2. ASSUME UNCHANGED <<req, shown, pushes, reached>>,
             \A j \in DOMAIN rows' : \/ j \in DOMAIN rows /\ rows'[j] = rows[j]
                                     \/ rows'[j].status \notin Success
      PROVE  Heard' /\ UNCHANGED <<reached, pushes>>
  <2>1. NewsTyped' /\ Unheard' /\ \A i \in DOMAIN rows' : Recorded(i)'
    BY <1>2 DEF Heard, NewsTyped, Unheard, Recorded
  <2>2. \A r \in Req : Happened(r)' /\ Alone(r)'
    BY <1>2 DEF Heard, Happened, Alone, At, About
  <2>. QED
    BY <1>2, <2>1, <2>2 DEF Heard
<1>3. ASSUME NEW r \in Req, Request(r)
      PROVE  Heard' /\ UNCHANGED <<reached, pushes>>
  <2>1. PICK u : Asked(r, u)
    BY <1>3, Asks
  <2>2. req'[r] = u /\ \A s \in Req \ {r} : req'[s] = req[s]
    BY <1>0, <2>1, Moved DEF Asked
  <2>3. Quiet(req'[r])
    BY <2>1, <2>2 DEF Asked, Quiet
  <2>. QED
    BY <1>1, <2>1, <2>2, <2>3 DEF Asked, news, history
<1>4. ASSUME NEW r \in Req, Fail(r)
      PROVE  Heard' /\ UNCHANGED <<reached, pushes>>
  <2>1. req'[r] = Idle /\ \A s \in Req \ {r} : req'[s] = req[s]
    BY <1>0, <1>4 DEF Fail, Finish
  <2>2. Quiet(req'[r])
    BY <2>1, IdleOK DEF Quiet
  <2>. QED
    BY <1>1, <1>4, <2>1, <2>2 DEF Fail, news, history
<1>5. CASE Expire
  <2>1. /\ \A j \in DOMAIN rows' : \/ j \in DOMAIN rows /\ rows'[j] = rows[j]
                                   \/ rows'[j].status \notin Success
        /\ UNCHANGED <<req, shown, pushes, reached>>
    BY <1>0, <1>5, Expires DEF Success, news, history
  <2>. QED
    BY <1>2, <2>1 DEF News!vars
<1>6. CASE Tick \/ UNCHANGED vars
  BY <1>2, <1>6 DEF Tick, vars, news, history, News!vars
<1>7. ASSUME NEW r \in Req, Continue(r)
      PROVE  Heard' /\ (UNCHANGED <<reached, pushes>> \/ News!Happen \/ \E m \in Milestone : News!Hear(m))
  <2>1. CASE SaveStatus(r)
    BY <2>1, SaveHeard DEF News!Happen
  <2>2. CASE Push(r)
    BY <2>2, PushHeard
  <2>3. CASE ~Compare(r) /\ ~SaveStatus(r) /\ ~Announce(r) /\ ~Push(r)
    BY <1>7, <2>3, OthersQuiet, QuietHeard
  <2>. QED
    BY <2>1, <2>2, <2>3, CompareHeard, AnnounceHeard
<1>. QED
  BY <1>3, <1>4, <1>5, <1>6, <1>7 DEF Next, News!Next, News!vars

LEMMA InitHeard == Init => Heard /\ News!Init
BY IdleOK DEF Init, Heard, NewsTyped, Unheard, Recorded, Happened, Alone, At, Telling, News!Init

(***************************************************************************)
(* The referrer hears of a success after it happened, and at most once,    *)
(* whichever operators save over each other.                               *)
(***************************************************************************)
THEOREM ReferrerHearsOnce == Spec => KeepsThePromise
<1>1. Base /\ Heard /\ [Next]_vars => Base' /\ Heard' /\ [News!Next]_(News!vars)
  BY StepBase, StepHeard
<1>. QED
  BY InitBase, InitHeard, <1>1, PTL DEF Spec, KeepsThePromise, News!Spec

(***************************************************************************)
(* Every table keeps to its columns, and to a row for each request at most. *)
(***************************************************************************)
THEOREM ReferralsTyped == Spec => []TypeOK
<1>1. Base /\ Heard /\ [Next]_vars => Base' /\ Heard'
  BY StepBase, StepHeard
<1>2. Base /\ Heard => TypeOK
  <2>. SUFFICES ASSUME Base, Heard
                PROVE  TypeOK
    OBVIOUS
  <2>1. drawn \in 0 .. MaxRequests /\ Len(rows) <= MaxRequests /\ started \in 0 .. MaxRequests
    BY Bounded, ReferralsAssumption DEF Base, Room
  <2>. QED
    BY <2>1 DEF Base, Heard, NewsTyped, TypeOK
<1>. QED
  BY InitBase, InitHeard, <1>1, <1>2, PTL DEF Spec

-----------------------------------------------------------------------------
(* The codes of a referrer. *)

\* While a request is about to store a new code, no other is about to save the user's row.
UserSavesApart ==
  \A r, s \in Req : At(r, "drawCode") /\ req[s].pc \in {"drawCode", "saveUser"} => r = s

CodeStays == [][code # NoCode => code' = code]_vars

\* No save of the user puts back that there was no code.
CodeNeverEmptied == [][code # NoCode => code' # NoCode]_vars

\* Whoever signs up with the code on an invite is known to come from the referrer.
InvitesCarryCode == \A i \in DOMAIN rows : rows[i].code = code

Coded(r) ==
  /\ At(r, "drawCode") => code = NoCode
  /\ At(r, "saveUser") => req[r].code = code
  /\ req[r].pc \in {"findInvite", "insertInvite"} => code # NoCode /\ req[r].code = code
  /\ req[r].pc \in Joining => code # NoCode
  /\ req[r].pc \in Joining \ {"checkCode"} => req[r].code = code

CodeHeld ==
  /\ \A r \in Req : Coded(r)
  /\ code = NoCode <=> drawn = 0
  /\ InvitesCarryCode

\* How a task comes by the code it goes by.
Bears(r) ==
  LET x == req[r]  u == req'[r] IN
  \/ /\ code' = code /\ drawn' = drawn
     /\ \/ u.pc \notin {"drawCode", "saveUser", "findInvite", "insertInvite"} \cup Joining
        \/ u.pc = "drawCode" /\ code = NoCode
        \/ u.pc = "saveUser" /\ u.code = code
        \/ u.pc = "findInvite" /\ code # NoCode /\ u.code = code
        \/ u.pc = "checkCode" /\ drawn # 0
        \/ u.pc = "insertInvite" /\ x.pc = "findInvite" /\ u.code = x.code
        \/ u.pc \in Joining /\ x.pc = "checkCode" /\ x.code = code /\ u.code = x.code
        \/ u.pc \in Joining /\ x.pc \in Joining \ {"checkCode"} /\ u.code = x.code
  \/ /\ x.pc = "drawCode" /\ code' = drawn + 1 /\ drawn' = drawn + 1
     /\ \/ u.pc = "findInvite" /\ u.code = drawn + 1
        \/ u.pc = "idle"
  \/ x.pc = "saveUser" /\ code' = x.code /\ drawn' = drawn /\ u.pc = "idle"

LEMMA RequestBears ==
  ASSUME Base, NEW r \in Req, Request(r)
  PROVE  Bears(r)
<1>0. req \in [Req -> Task] /\ drawn \in Nat
  BY DEF Base, Room
<1>1. ASSUME NEW u, Call(r, u) PROVE req'[r] = u /\ code' = code /\ drawn' = drawn
  BY <1>0, <1>1 DEF Call
<1>2. CASE ReadMyCode(r)
  <2>1. PICK u : u = [Idle EXCEPT !.pc = "drawCode", !.op = "code"]
    OBVIOUS
  <2>2. u.pc = "drawCode"
    BY <2>1, IdleOK DEF Task
  <2>. QED
    BY <1>1, <1>2, <2>1, <2>2 DEF ReadMyCode, Bears
<1>6. CASE ReadUser(r)
  <2>1. PICK u : u = [Idle EXCEPT !.pc = "saveUser", !.op = "user", !.code = code]
    OBVIOUS
  <2>2. u.pc = "saveUser" /\ u.code = code
    BY <2>1, IdleOK DEF Task
  <2>. QED
    BY <1>1, <1>6, <2>1, <2>2 DEF ReadUser, Bears
<1>3. CASE ReadInvite(r)
  <2>1. PICK v \in User \cup {None} :
          Call(r, [Idle EXCEPT !.pc = IF code = NoCode THEN "drawCode" ELSE "findInvite",
                               !.op = "invite", !.user = v, !.code = code])
    BY <1>3 DEF ReadInvite
  <2>2. PICK u : u = [Idle EXCEPT !.pc = IF code = NoCode THEN "drawCode" ELSE "findInvite",
                                  !.op = "invite", !.user = v, !.code = code]
    OBVIOUS
  <2>3. u.pc = (IF code = NoCode THEN "drawCode" ELSE "findInvite") /\ u.code = code
    BY <2>2, IdleOK DEF Task
  <2>. QED
    BY <1>1, <2>1, <2>2, <2>3 DEF Bears
<1>4. CASE ReadJoin(r)
  <2>1. PICK v \in User \ joined, c \in 1 .. drawn :
          Call(r, [Idle EXCEPT !.pc = "checkCode", !.op = "join", !.user = v, !.code = c])
    BY <1>4 DEF ReadJoin
  <2>2. PICK u : u = [Idle EXCEPT !.pc = "checkCode", !.op = "join", !.user = v, !.code = c]
    OBVIOUS
  <2>3. u.pc = "checkCode"
    BY <2>2, IdleOK DEF Task
  <2>4. drawn # 0
    BY <1>0, <2>1
  <2>. QED
    BY <1>1, <2>1, <2>2, <2>3, <2>4 DEF Bears
<1>5. CASE ReadStatus(r)
  <2>1. PICK i \in DOMAIN rows : \E s \in NextStatus(rows[i].status) :
          Call(r, [Idle EXCEPT !.pc = "compare", !.op = "status", !.row = i,
                               !.read = [rows[i] EXCEPT !.status = s]])
    BY <1>5 DEF ReadStatus
  <2>2. PICK s \in NextStatus(rows[i].status) :
          Call(r, [Idle EXCEPT !.pc = "compare", !.op = "status", !.row = i,
                               !.read = [rows[i] EXCEPT !.status = s]])
    BY <2>1
  <2>3. PICK u : u = [Idle EXCEPT !.pc = "compare", !.op = "status", !.row = i,
                                  !.read = [rows[i] EXCEPT !.status = s]]
    OBVIOUS
  <2>4. u.pc = "compare"
    BY <2>3, IdleOK DEF Task
  <2>. QED
    BY <1>1, <2>2, <2>3, <2>4 DEF Bears, Joining
<1>. QED
  BY <1>2, <1>3, <1>4, <1>5, <1>6 DEF Request

LEMMA ContinueBears ==
  ASSUME Base, NEW r \in Req, Continue(r) \/ Fail(r)
  PROVE  Bears(r)
<1>. DEFINE x == req[r]
<1>0. req \in [Req -> Task] /\ x \in Task /\ drawn \in Nat
  BY DEF Base, Room
<1>1. ASSUME Finish(r), code' = code, drawn' = drawn PROVE Bears(r)
  <2>1. req'[r] = Idle
    BY <1>0, <1>1 DEF Finish
  <2>. QED
    BY <1>1, <2>1, IdleOK DEF Bears, Joining
<1>2. ASSUME NEW p, Goto(r, p), code' = code, drawn' = drawn,
             \/ p \notin {"drawCode", "saveUser", "findInvite", "insertInvite"} \cup Joining
             \/ p = "insertInvite" /\ x.pc = "findInvite"
      PROVE  Bears(r)
  <2>1. req'[r].pc = p /\ req'[r].code = x.code
    BY <1>0, <1>2 DEF Goto, Task
  <2>. QED
    BY <1>2, <2>1 DEF Bears
<1>3. CASE DrawCode(r)
  <2>1. x.pc = "drawCode" /\ code' = drawn + 1 /\ drawn' = drawn + 1
    BY <1>3 DEF DrawCode, At
  <2>2. CASE req' = [req EXCEPT ![r].pc = "findInvite", ![r].code = drawn']
    <3>1. req'[r].pc = "findInvite" /\ req'[r].code = drawn + 1
      BY <1>0, <2>1, <2>2 DEF Task
    <3>. QED
      BY <2>1, <3>1 DEF Bears
  <2>3. CASE Finish(r)
    <3>1. req'[r] = Idle
      BY <1>0, <2>3 DEF Finish
    <3>. QED
      BY <2>1, <3>1, IdleOK DEF Bears
  <2>. QED
    BY <1>3, <2>2, <2>3 DEF DrawCode
<1>4. CASE FindInvite(r) \/ SaveStatus(r) \/ Announce(r)
  BY <1>1, <1>2, <1>4 DEF FindInvite, SaveStatus, Announce, At, Joining
<1>5. CASE InsertInvite(r) \/ Deadlock(r) \/ Claim(r) \/ Push(r) \/ Fail(r)
  BY <1>1, <1>5 DEF InsertInvite, Deadlock, Claim, Push, Fail
<1>9. CASE SaveUser(r)
  <2>1. x.pc = "saveUser" /\ code' = x.code /\ drawn' = drawn /\ req'[r] = Idle
    BY <1>0, <1>9 DEF SaveUser, Finish, At
  <2>. QED
    BY <2>1, IdleOK DEF Bears
<1>6. CASE Compare(r)
  <2>1. PICK cs : req' = [req EXCEPT ![r].pc = "save", ![r].cols = cs]
    BY <1>6 DEF Compare
  <2>2. req'[r].pc = "save"
    BY <1>0, <2>1 DEF Task
  <2>. QED
    BY <1>6, <2>2 DEF Bears, Compare, Joining
<1>7. CASE CheckCode(r)
  <2>1. CASE x.code = code /\ req' = [req EXCEPT ![r].pc = "selectOwn", ![r].now = today]
    <3>1. req'[r].pc = "selectOwn" /\ req'[r].code = x.code
      BY <1>0, <2>1 DEF Task
    <3>. QED
      BY <1>7, <2>1, <3>1 DEF Bears, CheckCode, Joining, At
  <2>. QED
    BY <1>1, <1>7, <2>1 DEF CheckCode
<1>8. CASE SelectOwn(r) \/ LockOwn(r) \/ SelectAny(r) \/ LockAny(r)
  <2>1. PICK u : Worked(r, u) /\ Queries(r, u)
    BY <1>8, QueryWorks
  <2>2. req'[r] = u
    BY <1>0, <2>1, Moved DEF Worked
  <2>3. x.pc \in {"selectOwn", "selectAny"} \cup Locking
    BY <1>8 DEF SelectOwn, SelectAny, Select, LockOwn, LockAny, Lock, Locking, At
  <2>4. u.pc \in Joining /\ x.pc \in Joining \ {"checkCode"} /\ u.code = x.code
        /\ code' = code /\ drawn' = drawn
    BY <2>1, <2>3 DEF Queries, Joining, Locking
  <2>. QED
    BY <2>2, <2>4 DEF Bears
<1>. QED
  BY <1>3, <1>4, <1>5, <1>6, <1>7, <1>8, <1>9 DEF Continue

\* Every invite keeps the code it was made with.
LEMMA RowCodes ==
  ASSUME Base, [Next]_vars, NEW i \in DOMAIN rows'
  PROVE  \/ i \in DOMAIN rows /\ rows'[i].code = rows[i].code
         \/ \E r \in Req : /\ req[r].pc \in {"insertInvite", "claim"}
                           /\ rows'[i].code = req[r].code
<1>0. rows \in Seq(Row) /\ (\A j \in DOMAIN rows : rows[j] \in Row) /\ \A s \in Req : req[s] \in Task
  BY DEF Base
<1>. DEFINE Same == i \in DOMAIN rows /\ rows'[i].code = rows[i].code
            New(r) == req[r].pc \in {"insertInvite", "claim"} /\ rows'[i].code = req[r].code
<1>1. CASE UNCHANGED rows
  BY <1>1
<1>2. ASSUME Expire PROVE Same
  <2>1. rows' = [j \in DOMAIN rows |->
                   IF j \in Lapsed THEN [rows[j] EXCEPT !.status = "expired"] ELSE rows[j]]
    BY <1>2 DEF Expire
  <2>2. i \in DOMAIN rows
    BY <2>1
  <2>3. PICK old \in Row : old = rows[i]
    BY <1>0, <2>2
  <2>4. [old EXCEPT !.status = "expired"].code = old.code
    BY DEF Row
  <2>. QED
    BY <2>1, <2>2, <2>3, <2>4
<1>3. ASSUME NEW r \in Req, NEW row, row.code = req[r].code, rows' = Append(rows, row),
             req[r].pc \in {"insertInvite", "claim"}
      PROVE  Same \/ New(r)
  <2>1. CASE i = Len(rows) + 1
    BY <1>0, <1>3, <2>1
  <2>2. CASE i # Len(rows) + 1
    <3>1. i \in DOMAIN rows /\ rows'[i] = rows[i]
      BY <1>0, <1>3, <2>2
    <3>. QED
      BY <3>1
  <2>. QED
    BY <2>1, <2>2
<1>4. ASSUME NEW r \in Req, InsertInvite(r) PROVE Same \/ New(r)
  <2>1. PICK row : row = [Blank EXCEPT !.code = req[r].code, !.named = req[r].user,
                                       !.exp = today + Life]
    OBVIOUS
  <2>2. row.code = req[r].code
    BY <2>1, BlankOK DEF Row
  <2>. QED
    BY <1>3, <1>4, <2>1, <2>2 DEF InsertInvite, At
<1>5. ASSUME NEW r \in Req, NEW k \in DOMAIN rows, NEW row, row.code = rows[k].code,
             rows' = [rows EXCEPT ![k] = row]
      PROVE  Same
  <2>1. i \in DOMAIN rows
    BY <1>5
  <2>. QED
    BY <1>0, <1>5, <2>1
<1>6. ASSUME NEW r \in Req, Claim(r) PROVE Same \/ New(r)
  <2>1. CASE req[r].row # 0
    <3>1. PICK k : k = req[r].row
      OBVIOUS
    <3>2. k \in DOMAIN rows
      BY <2>1, <3>1 DEF Base, TaskOK
    <3>3. PICK old \in Row : old = rows[k]
      BY <1>0, <3>2
    <3>4. PICK row : row = [old EXCEPT !.named = req[r].user, !.user = req[r].user,
                                       !.status = "registered"]
      OBVIOUS
    <3>5. row.code = old.code
      BY <3>4 DEF Row
    <3>6. rows' = [rows EXCEPT ![k] = row]
      BY <1>6, <2>1, <3>1, <3>3, <3>4 DEF Claim
    <3>. QED
      BY <1>5, <3>2, <3>3, <3>5, <3>6
  <2>2. CASE req[r].row = 0
    <3>1. PICK row : row = [Blank EXCEPT !.code = req[r].code, !.named = req[r].user,
                                         !.user = req[r].user, !.status = "registered"]
      OBVIOUS
    <3>2. row.code = req[r].code
      BY <3>1, BlankOK DEF Row
    <3>3. rows' = Append(rows, row) /\ req[r].pc = "claim"
      BY <1>6, <2>2, <3>1 DEF Claim, At
    <3>. QED
      BY <1>3, <3>2, <3>3
  <2>. QED
    BY <2>1, <2>2
<1>7. ASSUME NEW r \in Req, SaveStatus(r) PROVE Same
  <2>1. PICK k : k = req[r].row
    OBVIOUS
  <2>2. k \in DOMAIN rows
    BY <1>7, <2>1 DEF Base, TaskOK, SaveStatus, At, Settling
  <2>3. PICK old \in Row : old = rows[k]
    BY <1>0, <2>2
  <2>4. PICK row : row = Merged(old, req[r])
    OBVIOUS
  <2>5. row.code = old.code
    <3>1. DOMAIN old = {"code", "named", "user", "status", "exp"} /\ "code" \notin req[r].cols
      BY <1>0 DEF Row, Task, Column
    <3>. QED
      BY <2>4, <3>1 DEF Merged
  <2>6. rows' = [rows EXCEPT ![k] = row]
    BY <1>7, <2>1, <2>3, <2>4 DEF SaveStatus
  <2>. QED
    BY <1>5, <1>7, <2>2, <2>3, <2>5, <2>6
<1>8. ASSUME NEW r \in Req, Request(r) \/ Continue(r) \/ Fail(r),
             ~Claim(r), ~SaveStatus(r), ~InsertInvite(r)
      PROVE  UNCHANGED rows
  BY <1>8 DEF Request, ReadMyCode, ReadUser, ReadInvite, ReadJoin, ReadStatus, Call, Fail,
     Continue, DrawCode, SaveUser, FindInvite, CheckCode, Deadlock, SelectOwn, LockOwn, SelectAny,
     LockAny, Select, Lock, Compare, Announce, Push
<1>9. Tick \/ UNCHANGED vars => UNCHANGED rows
  BY DEF Tick, vars
<1>. QED
  BY <1>1, <1>2, <1>4, <1>6, <1>7, <1>8, <1>9 DEF Next

LEMMA CodeStep ==
  ASSUME Base, CodeHeld, UserSavesApart, [Next]_vars
  PROVE  CodeHeld' /\ (code # NoCode => code' = code)
<1>0. /\ req \in [Req -> Task] /\ drawn \in Nat /\ NoCode = 0 /\ NoCode \notin Code
      /\ \A i \in DOMAIN rows : rows[i].code \in Code
  <2>1. \A i \in DOMAIN rows : rows[i] \in Row
    BY DEF Base
  <2>. QED
    BY <2>1 DEF Base, Room, NoCode, Code, Row
<1>1. ASSUME NEW r \in Req, Bears(r), \A s \in Req \ {r} : req'[s] = req[s]
      PROVE  /\ (\A s \in Req : Coded(s)) /\ (code = NoCode <=> drawn = 0)
             /\ \A s \in Req : Coded(s)'
             /\ (code = NoCode <=> drawn = 0)' /\ (code # NoCode => code' = code)
  <2>1. CASE code' = code /\ drawn' = drawn
    <3>1. \A s \in Req \ {r} : Coded(s)'
      BY <1>1, <2>1 DEF CodeHeld, Coded, At
    <3>2. Coded(r)'
      BY <1>0, <1>1, <2>1 DEF CodeHeld, Coded, Bears, At, Joining
    <3>. QED
      BY <2>1, <3>1, <3>2 DEF CodeHeld
  <2>2. CASE /\ req[r].pc = "drawCode" /\ code' = drawn + 1 /\ drawn' = drawn + 1
             /\ \/ req'[r].pc = "findInvite" /\ req'[r].code = drawn + 1
                \/ req'[r].pc = "idle"
    <3>1. code = NoCode /\ code' # NoCode /\ drawn' # 0
      BY <1>0, <2>2 DEF CodeHeld, Coded, At
    <3>2. ASSUME NEW s \in Req \ {r} PROVE Coded(s)'
      BY <1>0, <1>1, <2>2, <3>1 DEF CodeHeld, Coded, At, UserSavesApart, Joining
    <3>3. Coded(r)'
      BY <2>2, <3>1 DEF Coded, At, Joining
    <3>. QED
      BY <3>1, <3>2, <3>3 DEF CodeHeld
  <2>3. CASE /\ req[r].pc = "saveUser" /\ code' = req[r].code /\ drawn' = drawn
             /\ req'[r].pc = "idle"
    <3>1. code' = code
      BY <2>3 DEF CodeHeld, Coded, At
    <3>2. \A s \in Req \ {r} : Coded(s)'
      BY <1>1, <2>3, <3>1 DEF CodeHeld, Coded, At
    <3>3. Coded(r)'
      BY <2>3 DEF Coded, At, Joining
    <3>. QED
      BY <2>3, <3>1, <3>2, <3>3 DEF CodeHeld
  <2>. QED
    BY <1>1, <2>1, <2>2, <2>3 DEF Bears
<1>2. ASSUME UNCHANGED <<req, code, drawn>>
      PROVE  (\A s \in Req : Coded(s)') /\ (code = NoCode <=> drawn = 0)' /\ code' = code
  BY <1>2 DEF CodeHeld, Coded, At
<1>3. /\ \A s \in Req : Coded(s)'
      /\ (code = NoCode <=> drawn = 0)' /\ (code # NoCode => code' = code)
  <2>1. CASE Tick \/ Expire \/ UNCHANGED vars
    BY <1>2, <2>1 DEF Tick, Expire, vars
  <2>2. ASSUME NEW r \in Req, Request(r) \/ Continue(r) \/ Fail(r)
        PROVE  Bears(r) /\ \A s \in Req \ {r} : req'[s] = req[s]
    <3>1. \E u : req' = [req EXCEPT ![r] = u]
      BY <2>2, Asks, Works DEF Asked, Worked, Fail, Finish
    <3>. QED
      BY <1>0, <2>2, <3>1, RequestBears, ContinueBears
  <2>. QED
    BY <1>1, <2>1, <2>2 DEF Next
<1>4. ASSUME NEW i \in DOMAIN rows'
      PROVE  rows'[i].code = code'
  <2>1. CASE i \in DOMAIN rows /\ rows'[i].code = rows[i].code
    BY <1>0, <1>3, <2>1 DEF CodeHeld, InvitesCarryCode
  <2>2. ASSUME NEW r \in Req, req[r].pc \in {"insertInvite", "claim"}, rows'[i].code = req[r].code
        PROVE  rows'[i].code = code'
    BY <1>3, <2>2 DEF CodeHeld, Coded, Joining
  <2>. QED
    BY <2>1, <2>2, RowCodes
<1>. QED
  BY <1>3, <1>4 DEF CodeHeld, InvitesCarryCode

LEMMA InitCode == Init => CodeHeld
<1>1. Init => DOMAIN rows = {}
  BY DEF Init
<1>. QED
  BY <1>1, IdleOK DEF Init, CodeHeld, Coded, InvitesCarryCode, At, Joining

(***************************************************************************)
(* A referrer's code, once given out, is never lost or replaced, if no     *)
(* save of the referrer's row overlaps with the storing of a new code      *)
(* (getOrGenerateMyCode and createInvite against each other and against    *)
(* usersService.update, which puts back the code it read).                 *)
(***************************************************************************)
THEOREM CodeIsKept == Spec /\ []UserSavesApart => CodeStays
<1>1. Base /\ CodeHeld /\ UserSavesApart /\ [Next]_vars => Base' /\ CodeHeld'
  BY StepBase, CodeStep
<1>2. Base /\ CodeHeld /\ UserSavesApart /\ [Next]_vars => [code # NoCode => code' = code]_vars
  BY CodeStep
<1>. QED
  BY InitBase, InitCode, <1>1, <1>2, PTL DEF Spec, CodeStays

(***************************************************************************)
(* Under the same condition every invite bears the code its referrer has:  *)
(* whoever signs up with an invite's code is led to the referrer, and no   *)
(* invite is orphaned by a second code (processReferralCode looks the      *)
(* referrer up by code).                                                   *)
(***************************************************************************)
THEOREM InvitesLeadBack == Spec /\ []UserSavesApart => []InvitesCarryCode
<1>1. Base /\ CodeHeld /\ UserSavesApart /\ [Next]_vars => Base' /\ CodeHeld'
  BY StepBase, CodeStep
<1>2. CodeHeld => InvitesCarryCode
  BY DEF CodeHeld
<1>. QED
  BY InitBase, InitCode, <1>1, <1>2, PTL DEF Spec

Drawers == {r \in Req : At(r, "drawCode")}

\* A code is drawn by a request that found none.
FewCodes ==
  /\ code = NoCode => drawn = 0
  /\ drawn + Cardinality(Drawers) <= Cardinality(Req)

LEMMA FewCodesStep ==
  ASSUME IsFiniteSet(Req), Base, FewCodes, [Next]_vars, code # NoCode => code' # NoCode
  PROVE  FewCodes'
<1>0. req \in [Req -> Task] /\ drawn \in Nat /\ NoCode = 0
  BY DEF Base, Room, NoCode
<1>. DEFINE all == Cardinality(Req)
<1>1. PICK S : S = Drawers
  OBVIOUS
<1>2. PICK T : T = Drawers'
  OBVIOUS
<1>3. S \subseteq Req /\ T \subseteq Req
  BY <1>1, <1>2 DEF Drawers
<1>4. /\ IsFiniteSet(S) /\ IsFiniteSet(T)
      /\ Cardinality(S) \in Nat /\ Cardinality(T) \in Nat /\ Cardinality(T) <= all /\ all \in Nat
  BY <1>3, FS_Subset, FS_CardinalityType
<1>5. drawn + Cardinality(S) <= all
  BY <1>1 DEF FewCodes
<1>6. ASSUME T \subseteq S, UNCHANGED <<code, drawn>>
      PROVE  FewCodes'
  <2>1. Cardinality(T) <= Cardinality(S)
    BY <1>4, <1>6, FS_Subset
  <2>. QED
    BY <1>0, <1>2, <1>4, <1>5, <1>6, <2>1 DEF FewCodes
<1>7. CASE Tick \/ Expire \/ UNCHANGED vars
  <2>1. UNCHANGED <<req, code, drawn>>
    BY <1>7 DEF Tick, Expire, vars
  <2>2. T = S
    BY <1>1, <1>2, <2>1 DEF Drawers, At
  <2>. QED
    BY <1>6, <2>1, <2>2
<1>8. ASSUME NEW r \in Req, Request(r) \/ Continue(r) \/ Fail(r)
      PROVE  FewCodes'
  <2>1. Bears(r)
    BY <1>8, RequestBears, ContinueBears
  <2>2. \A s \in Req \ {r} : req'[s] = req[s]
    <3>1. \E u : req' = [req EXCEPT ![r] = u]
      BY <1>8, Asks, Works DEF Asked, Worked, Fail, Finish
    <3>. QED
      BY <1>0, <3>1
  <2>3. T \ {r} \subseteq S
    BY <1>1, <1>2, <2>2 DEF Drawers, At
  <2>4. CASE code' = code /\ drawn' = drawn /\ req'[r].pc # "drawCode"
    <3>1. r \notin T
      BY <1>2, <2>4 DEF Drawers, At
    <3>. QED
      BY <1>6, <2>3, <2>4, <3>1
  <2>5. CASE code' = code /\ drawn' = drawn /\ code = NoCode
    <3>1. drawn' = 0
      BY <2>5 DEF FewCodes
    <3>. QED
      BY <1>2, <1>4, <3>1 DEF FewCodes
  <2>6. CASE /\ req[r].pc = "drawCode" /\ code' = drawn + 1 /\ drawn' = drawn + 1
             /\ req'[r].pc \in {"findInvite", "idle"}
    <3>1. r \in S /\ r \notin T
      BY <1>1, <1>2, <2>6 DEF Drawers, At
    <3>2. T \subseteq S \ {r}
      BY <2>3, <3>1
    <3>3. IsFiniteSet(S \ {r}) /\ Cardinality(S \ {r}) = Cardinality(S) - 1
      BY <1>4, <3>1, FS_RemoveElement
    <3>4. Cardinality(T) <= Cardinality(S \ {r})
      BY <3>2, <3>3, FS_Subset
    <3>. QED
      BY <1>0, <1>2, <1>4, <1>5, <2>6, <3>3, <3>4 DEF FewCodes
  <2>7. CASE req[r].pc = "saveUser" /\ drawn' = drawn /\ req'[r].pc = "idle"
    <3>1. r \notin T
      BY <1>2, <2>7 DEF Drawers, At
    <3>2. T \subseteq S
      BY <2>3, <3>1
    <3>3. Cardinality(T) <= Cardinality(S)
      BY <1>4, <3>2, FS_Subset
    <3>4. code' = NoCode => drawn' = 0
      BY <2>7 DEF FewCodes
    <3>. QED
      BY <1>0, <1>2, <1>4, <1>5, <2>7, <3>3, <3>4 DEF FewCodes
  <2>. QED
    BY <2>1, <2>4, <2>5, <2>6, <2>7 DEF Bears, Joining
<1>. QED
  BY <1>7, <1>8 DEF Next

(***************************************************************************)
(* A referrer's code is replaced fewer times than requests can overlap, as *)
(* long as no stale save of the user empties it: a request that begins     *)
(* once there is a code never draws another, so only those that were under *)
(* way at the first can.                                                   *)
(***************************************************************************)
THEOREM CodesBounded ==
  ASSUME IsFiniteSet(Req)
  PROVE  Spec /\ CodeNeverEmptied => [](drawn <= Cardinality(Req))
<1>1. Init => FewCodes
  <2>. SUFFICES ASSUME Init PROVE FewCodes
    OBVIOUS
  <2>1. Drawers = {} /\ drawn = 0
    BY IdleOK DEF Init, Drawers, At
  <2>2. PICK S : S = Drawers
    OBVIOUS
  <2>3. Cardinality(S) = 0 /\ Cardinality(Req) \in Nat
    BY <2>1, <2>2, FS_EmptySet, FS_CardinalityType
  <2>. QED
    BY <2>1, <2>2, <2>3 DEF FewCodes
<1>2. Base /\ FewCodes /\ [Next]_vars /\ [code # NoCode => code' # NoCode]_vars
      => Base' /\ FewCodes'
  BY StepBase, FewCodesStep DEF vars
<1>3. Base /\ FewCodes => drawn <= Cardinality(Req)
  <2>. SUFFICES ASSUME Base, FewCodes PROVE drawn <= Cardinality(Req)
    OBVIOUS
  <2>1. PICK S : S = Drawers
    OBVIOUS
  <2>2. S \subseteq Req
    BY <2>1 DEF Drawers
  <2>3. Cardinality(S) \in Nat /\ Cardinality(Req) \in Nat
    BY <2>2, FS_Subset, FS_CardinalityType
  <2>. QED
    BY <2>1, <2>3 DEF FewCodes, Base, Room
<1>. QED
  BY InitBase, <1>1, <1>2, <1>3, PTL DEF Spec, CodeNeverEmptied

=============================================================================
