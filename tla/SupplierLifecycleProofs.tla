---------------------- MODULE SupplierLifecycleProofs ----------------------
(***************************************************************************)
(* A supplier on its way out, for every number of offers, cases, days,     *)
(* requests and failures: as long as tasks do not overlap, no offer leaves *)
(* the catalogue while somebody is supplied under it, a deleted supplier   *)
(* leaves none behind, and a scheduled deletion stands.  Where they do     *)
(* overlap, or die, the second half says which windows can break it.       *)
(***************************************************************************)
EXTENDS SupplierLifecycle, WellFoundedInduction, TLAPS

-----------------------------------------------------------------------------
(* The day the last supply ends. *)

\* A bounded set of numbers has a greatest element: what is missing to the bound
\* has a least one.
LEMMA GreatestIs ==
  ASSUME NEW n \in Nat, NEW S \in SUBSET (0 .. n), S # {}
  PROVE  \E m \in S : \A w \in S : w <= m
<1>. DEFINE Below == OpToRel(<, Nat)
            T == {k \in Nat : \E w \in S : k = n - w}
<1>1. IsWellFoundedOn(Below, Nat)
  BY NatLessThanWellFounded
<1>2. \A x, y \in Nat : x < y => <<x, y>> \in Below
  BY DEF OpToRel
<1>3. T \subseteq Nat /\ T # {}
  <2>1. PICK w \in S : TRUE
    OBVIOUS
  <2>2. n - w \in Nat
    OBVIOUS
  <2>3. n - w \in T
    BY <2>2
  <2>. QED
    BY <2>3
<1>4. PICK k \in T : \A y \in T : <<y, k>> \notin Below
  <2>. HIDE DEF Below, T
  <2>. QED
    BY <1>1, <1>3, WFMin
<1>5. PICK m \in S : k = n - m
  OBVIOUS
<1>6. ASSUME NEW w \in S PROVE w <= m
  <2>1. n - w \in T /\ n - w \in Nat /\ k \in Nat
    OBVIOUS
  <2>. HIDE DEF T
  <2>2. ~(n - w < k)
    <3>. HIDE DEF Below
    <3>. QED
      BY <1>2, <1>4, <2>1
  <2>. QED
    BY <1>5, <2>2
<1>. QED
  BY <1>6

\* It is a day to come.
LEMMA LatestIs ==
  ASSUME TypeOK, Expiries # {}
  PROVE  Latest \in Day /\ Latest > today
<1>1. \A c \in DOMAIN cases : cases[c] \in CaseRow
  BY DEF TypeOK
<1>2. \A e \in Expiries : e \in Day /\ e > today
  <2>1. ASSUME NEW c \in LiveUtilities, cases[c].exp # NoDay
        PROVE  cases[c].exp \in Day /\ cases[c].exp > today
    <3>1. c \in DOMAIN cases /\ Running(c)
      BY <2>1 DEF LiveUtilities
    <3>. QED
      BY <1>1, <2>1, <3>1 DEF Running, CaseRow
  <2>. QED
    BY <2>1 DEF Expiries
<1>3. Expiries \in SUBSET (0 .. LastDay) /\ LastDay \in Nat
  BY <1>2, SupplierLifecycleAssumption DEF Day
<1>4. \E d \in Expiries : \A e \in Expiries : e <= d
  BY <1>3, GreatestIs
<1>5. Latest \in Expiries
  BY <1>4 DEF Latest
<1>. QED
  BY <1>2, <1>5

-----------------------------------------------------------------------------
(* Types. *)

LEMMA IdleOK ==
  /\ Added \in SupplierRow /\ Idle \in Task /\ Idle.pc = "idle"
  /\ Added.status = "active" /\ ~Added.deleted
BY DEF Added, SupplierRow, Idle, Task, NoDay

\* A task becomes u.
LEMMA Steps ==
  ASSUME TypeOK, NEW r \in Req, NEW u \in Task, req' = [req EXCEPT ![r] = u]
  PROVE  req' \in [Req -> Task] /\ req'[r] = u
BY DEF TypeOK

LEMMA Goes ==
  ASSUME TypeOK, NEW r \in Req, NEW pc, Goto(r, pc),
         pc \in {"cancelEarly", "findOffers", "removeSupplier", "active", "removeOffer"}
  PROVE  /\ req' \in [Req -> Task] /\ req'[r].pc = pc
         /\ req'[r].op = req[r].op /\ req'[r].row = req[r].row /\ req'[r].offers = req[r].offers
<1>1. req[r] \in Task
  BY DEF TypeOK
<1>2. PICK u : u = [req[r] EXCEPT !.pc = pc]
  OBVIOUS
<1>3. u \in Task /\ u.pc = pc /\ u.op = req[r].op /\ u.row = req[r].row /\ u.offers = req[r].offers
  BY <1>1, <1>2 DEF Task
<1>4. req' = [req EXCEPT ![r] = u]
  BY <1>2 DEF Goto, TypeOK
<1>. QED
  BY <1>3, <1>4, Steps

LEMMA Ends ==
  ASSUME TypeOK, NEW r \in Req, Finish(r)
  PROVE  req' \in [Req -> Task] /\ req'[r] = Idle
BY IdleOK, Steps DEF Finish

LEMMA Arrives ==
  ASSUME TypeOK, NEW r \in Req, NEW op, NEW pc, NEW row \in SupplierRow, NEW os \in SUBSET Offer,
         op \in {"delete", "set", "cancel", "accept", "offer"},
         pc \in {"live", "save", "insertCase", "insertOffer", "activated"},
         Call(r, op, pc, row, os)
  PROVE  /\ TypeOK' /\ UNCHANGED <<supplier, offers, cases, today, fails>>
         /\ req'[r].op = op /\ req'[r].pc = pc /\ req'[r].row = row /\ req'[r].offers = os
<1>1. PICK u : u = [pc |-> pc, op |-> op, row |-> row, offers |-> os]
  OBVIOUS
<1>2. u \in Task /\ u.op = op /\ u.pc = pc /\ u.row = row /\ u.offers = os
  BY <1>1 DEF Task
<1>3. req' = [req EXCEPT ![r] = u]
  BY <1>1 DEF Call
<1>4. req' \in [Req -> Task] /\ req'[r] = u
  BY <1>2, <1>3, Steps
<1>5. started' \in 0 .. MaxRequests
  BY SupplierLifecycleAssumption DEF Call, TypeOK
<1>. QED
  BY <1>2, <1>4, <1>5 DEF Call, TypeOK


-----------------------------------------------------------------------------
(* What a task relies on. *)

Loaded(r) ==
  At(r, "live") =>
    /\ req[r].row = supplier /\ ~supplier.deleted /\ req[r].op \in {"delete", "nightly"}
    /\ req[r].op = "delete" => ~Pending
    /\ req[r].op = "nightly" => Due

\* What is about to be saved undoes no deletion, and moves a scheduled one later or cancels it.
Decided(r) ==
  At(r, "save") =>
    /\ ~req[r].row.deleted
    /\ \/ req[r].op = "set" /\ ~Pending /\ req[r].row.status # "pending_deletion"
       \/ req[r].op = "delete" /\ ~Pending /\ req[r].row.status = "pending_deletion"
       \/ req[r].op = "cancel" /\ req[r].row.status = "inactive" /\ req[r].row.due = NoDay
       \/ /\ req[r].op = "nightly" /\ Pending
          /\ req[r].row.status = "pending_deletion" /\ req[r].row.due >= supplier.due

\* A supplier about to be deleted serves nobody, then has no offers.
Emptied(r) ==
  /\ req[r].pc \in {"findOffers", "removeOffers"} => LiveUtilities = {}
  /\ At(r, "removeOffers") => req[r].offers = LiveOffers
  /\ At(r, "removeSupplier") => LiveOffers = {}

\* Offers are made and accepted while the supplier is there.
Offered(r) ==
  /\ At(r, "insertCase") => ~Pending
  /\ At(r, "insertOffer") => ~supplier.deleted

\* Nobody is supplied under an offer that is about to be deleted.
Unused(r) ==
  /\ At(r, "active") =>
       \A c \in DOMAIN cases :
         cases[c].offer \in req[r].offers /\ cases[c].status = "activated" => ~Running(c)
  /\ At(r, "removeOffer") =>
       \A c \in DOMAIN cases : cases[c].offer \in req[r].offers => ~Running(c)

Steady(r) == Loaded(r) /\ Decided(r) /\ Emptied(r) /\ Offered(r) /\ Unused(r)

LEMMA IdleSteady ==
  ASSUME NEW r \in Req, req[r] = Idle
  PROVE  Steady(r)
BY IdleOK DEF Steady, Loaded, Decided, Emptied, Offered, Unused, At

\* A request is served by what it read.
LEMMA Requests ==
  ASSUME TypeOK, NEW r \in Req, Request(r), ~MoveCase(r)
  PROVE  /\ TypeOK' /\ Steady(r)' /\ ~At(r, "cancelEarly")'
         /\ UNCHANGED <<supplier, offers, cases, today, fails>>
<1>0. supplier \in SupplierRow /\ supplier.due \in {NoDay} \cup Day /\ supplier.deleted \in BOOLEAN
  BY DEF TypeOK, SupplierRow
<1>1. CASE ReadDelete(r)
  <2>1. Call(r, "delete", "live", supplier, {}) /\ ~supplier.deleted /\ ~Pending
    BY <1>1 DEF ReadDelete
  <2>2. /\ TypeOK' /\ UNCHANGED <<supplier, offers, cases, today, fails>>
        /\ req'[r].op = "delete" /\ req'[r].pc = "live" /\ req'[r].row = supplier
    BY <1>0, <2>1, Arrives
  <2>. QED
    BY <2>1, <2>2 DEF Steady, Loaded, Decided, Emptied, Offered, Unused, At, Pending
<1>2. CASE ReadSet(r)
  <2>1. PICK s \in {"active", "inactive"} :
          ~supplier.deleted /\ ~Pending /\ Call(r, "set", "save", [supplier EXCEPT !.status = s], {})
    BY <1>2 DEF ReadSet
  <2>2. PICK row : row = [supplier EXCEPT !.status = s]
    OBVIOUS
  <2>3. row \in SupplierRow /\ row.status # "pending_deletion" /\ ~row.deleted
    BY <1>0, <2>1, <2>2 DEF SupplierRow
  <2>4. Call(r, "set", "save", row, {})
    BY <2>1, <2>2
  <2>5. /\ TypeOK' /\ UNCHANGED <<supplier, offers, cases, today, fails>>
        /\ req'[r].op = "set" /\ req'[r].pc = "save" /\ req'[r].row = row
    BY <2>3, <2>4, Arrives
  <2>. QED
    BY <2>1, <2>3, <2>5 DEF Steady, Loaded, Decided, Emptied, Offered, Unused, At, Pending
<1>3. CASE ReadCancel(r)
  <2>1. PICK row : row = [supplier EXCEPT !.status = "inactive", !.due = NoDay]
    OBVIOUS
  <2>2. row \in SupplierRow /\ row.status = "inactive" /\ row.due = NoDay /\ ~row.deleted
    BY <1>0, <1>3, <2>1 DEF SupplierRow, ReadCancel, Pending
  <2>3. Call(r, "cancel", "save", row, {})
    BY <1>3, <2>1 DEF ReadCancel
  <2>4. /\ TypeOK' /\ UNCHANGED <<supplier, offers, cases, today, fails>>
        /\ req'[r].op = "cancel" /\ req'[r].pc = "save" /\ req'[r].row = row
    BY <2>2, <2>3, Arrives
  <2>. QED
    BY <2>2, <2>4 DEF Steady, Loaded, Decided, Emptied, Offered, Unused, At
<1>4. CASE ReadAccept(r)
  <2>1. PICK o \in LiveOffers : ~Pending /\ Call(r, "accept", "insertCase", supplier, {o})
    BY <1>4 DEF ReadAccept
  <2>2. {o} \in SUBSET Offer
    BY DEF LiveOffers
  <2>3. /\ TypeOK' /\ UNCHANGED <<supplier, offers, cases, today, fails>>
        /\ req'[r].pc = "insertCase"
    BY <1>0, <2>1, <2>2, Arrives
  <2>. QED
    BY <2>1, <2>3 DEF Steady, Loaded, Decided, Emptied, Offered, Unused, At, Pending
<1>5. CASE ReadCreateOffer(r)
  <2>1. PICK o \in Offer : ~supplier.deleted /\ Call(r, "offer", "insertOffer", supplier, {o})
    BY <1>5 DEF ReadCreateOffer
  <2>2. /\ TypeOK' /\ UNCHANGED <<supplier, offers, cases, today, fails>>
        /\ req'[r].pc = "insertOffer"
    BY <1>0, <2>1, Arrives
  <2>. QED
    BY <2>1, <2>2 DEF Steady, Loaded, Decided, Emptied, Offered, Unused, At
<1>6. CASE ReadDeleteOffer(r)
  <2>1. PICK o \in LiveOffers : Call(r, "offer", "activated", supplier, {o})
    BY <1>6 DEF ReadDeleteOffer
  <2>2. {o} \in SUBSET Offer
    BY DEF LiveOffers
  <2>3. /\ TypeOK' /\ UNCHANGED <<supplier, offers, cases, today, fails>>
        /\ req'[r].pc = "activated"
    BY <1>0, <2>1, <2>2, Arrives
  <2>. QED
    BY <2>3 DEF Steady, Loaded, Decided, Emptied, Offered, Unused, At
<1>. QED
  BY <1>1, <1>2, <1>3, <1>4, <1>5, <1>6 DEF Request

LEMMA Strikes ==
  ASSUME TypeOK, NEW r \in Req, Strike(r)
  PROVE  /\ TypeOK' /\ Steady(r)' /\ ~At(r, "cancelEarly")'
         /\ UNCHANGED <<supplier, offers, cases, today, fails>>
<1>1. PICK u : u = [pc |-> "live", op |-> "nightly", row |-> supplier, offers |-> {}]
  OBVIOUS
<1>2. u \in Task /\ u.op = "nightly" /\ u.pc = "live" /\ u.row = supplier
  BY <1>1 DEF Task, TypeOK
<1>3. req' \in [Req -> Task] /\ req'[r] = u
  BY <1>1, <1>2, Steps DEF Strike
<1>4. UNCHANGED <<supplier, offers, cases, today, fails>> /\ TypeOK'
  BY <1>3 DEF Strike, bounds, TypeOK
<1>. QED
  BY <1>2, <1>3, <1>4 DEF Steady, Loaded, Decided, Emptied, Offered, Unused, At, Strike, Due, Pending

-----------------------------------------------------------------------------
(* What becomes of the cases and the offers. *)

LEMMA MovesCase ==
  ASSUME TypeOK, NEW r \in Req, MoveCase(r)
  PROVE  /\ TypeOK' /\ UNCHANGED <<supplier, offers, today, req, fails>> /\ req[r] = Idle
         /\ DOMAIN cases' = DOMAIN cases
         /\ \A c \in DOMAIN cases : cases'[c].status \in CaseTarget \cup {cases[c].status}
<1>1. PICK c \in DOMAIN cases : \E row \in Moved(cases[c]) : cases' = [cases EXCEPT ![c] = row]
  BY DEF MoveCase
<1>2. PICK row \in Moved(cases[c]) : cases' = [cases EXCEPT ![c] = row]
  BY <1>1
<1>3. cases \in Seq(CaseRow) /\ cases[c] \in CaseRow
  BY DEF TypeOK
<1>4. row \in CaseRow /\ row.status \in CaseTarget \cup {cases[c].status}
  BY <1>3, SupplierLifecycleAssumption DEF Moved, CaseRow, LiveOffers
<1>5. /\ cases' \in Seq(CaseRow) /\ Len(cases') = Len(cases) /\ DOMAIN cases' = DOMAIN cases
      /\ \A d \in DOMAIN cases : cases'[d].status \in CaseTarget \cup {cases[d].status}
  BY <1>2, <1>3, <1>4
<1>6. started' \in 0 .. MaxRequests /\ UNCHANGED <<supplier, offers, today, req, fails>> /\ req[r] = Idle
  BY SupplierLifecycleAssumption DEF MoveCase, TypeOK
<1>. QED
  BY <1>5, <1>6 DEF TypeOK

LEMMA Cancels ==
  ASSUME TypeOK, NEW r \in Req, CancelEarly(r)
  PROVE  /\ TypeOK' /\ UNCHANGED <<supplier, offers, today, fails>> /\ req'[r] = Idle
         /\ \A c \in DOMAIN cases' : cases'[c].status \notin Early
<1>1. cases' = [c \in DOMAIN cases |->
                  IF cases[c].status \in Early
                  THEN [cases[c] EXCEPT !.status = "cancelled"] ELSE cases[c]]
  BY DEF CancelEarly
<1>2. cases \in Seq(CaseRow) /\ Len(cases) <= MaxCases
  BY DEF TypeOK
<1>3. ASSUME NEW c \in DOMAIN cases
      PROVE  cases'[c] \in CaseRow /\ cases'[c].status \notin Early
  <2>1. PICK row \in CaseRow : row = cases[c]
    BY <1>2
  <2>2. CASE row.status \in Early
    BY <1>1, <2>1, <2>2 DEF CaseRow, CaseStatus, Early
  <2>3. CASE row.status \notin Early
    BY <1>1, <2>1, <2>3
  <2>. QED
    BY <2>2, <2>3
<1>4. cases' \in Seq(CaseRow) /\ Len(cases') = Len(cases) /\ DOMAIN cases' = DOMAIN cases
  BY <1>1, <1>2, <1>3
<1>5. UNCHANGED <<supplier, offers, today, fails, started>> /\ Finish(r)
  BY DEF CancelEarly, bounds
<1>. QED
  BY <1>2, <1>3, <1>4, <1>5, Ends DEF TypeOK


\* Rows keep to their columns whatever a task does next.
LEMMA ContinueTypes ==
  ASSUME TypeOK, NEW r \in Req, Continue(r)
  PROVE  TypeOK'
<1>0. /\ req[r] \in Task /\ req \in [Req -> Task] /\ supplier \in SupplierRow
      /\ offers \in [Offer -> {"absent", "live", "deleted"}] /\ cases \in Seq(CaseRow)
  BY DEF TypeOK
<1>1. ASSUME UNCHANGED <<supplier, offers, cases, today, bounds>>, req' \in [Req -> Task]
      PROVE  TypeOK'
  BY <1>1 DEF TypeOK, bounds
<1>2. CASE CheckLive(r)
  <2>1. UNCHANGED <<supplier, offers, cases, today, bounds>>
    BY <1>2 DEF CheckLive
  <2>2. CASE Finish(r) \/ Goto(r, "findOffers")
    BY <1>1, <2>1, <2>2, Ends, Goes
  <2>3. CASE /\ Expiries # {}
             /\ req' = [req EXCEPT ![r].pc = "save",
                                   ![r].row = [@ EXCEPT !.status = "pending_deletion",
                                                        !.due = Latest]]
    <3>1. PICK row : row = [req[r].row EXCEPT !.status = "pending_deletion", !.due = Latest]
      OBVIOUS
    <3>2. PICK u : u = [req[r] EXCEPT !.pc = "save", !.row = row]
      OBVIOUS
    <3>3. req' = [req EXCEPT ![r] = u]
      BY <1>0, <2>3, <3>1, <3>2
    <3>4. Latest \in Day /\ req[r].row \in SupplierRow
      BY <1>0, <2>3, LatestIs DEF Task
    <3>5. row \in SupplierRow
      BY <3>1, <3>4 DEF SupplierRow
    <3>6. u \in Task
      BY <1>0, <3>2, <3>5 DEF Task
    <3>. QED
      BY <1>1, <2>1, <3>3, <3>6, Steps
  <2>4. LiveUtilities # {} /\ (\A c \in LiveUtilities : cases[c].exp # NoDay) => Expiries # {}
    BY DEF Expiries
  <2>. QED
    BY <1>2, <2>2, <2>3, <2>4 DEF CheckLive
<1>3. CASE SaveSupplier(r)
  <2>1. /\ supplier' = req[r].row /\ UNCHANGED <<offers, cases, today, bounds>>
        /\ Finish(r) \/ Goto(r, "cancelEarly")
    BY <1>3 DEF SaveSupplier
  <2>2. supplier' \in SupplierRow /\ req' \in [Req -> Task]
    BY <1>0, <2>1, Ends, Goes DEF Task
  <2>. QED
    BY <2>1, <2>2 DEF TypeOK, bounds
<1>4. CASE FindOffers(r)
  <2>1. PICK pc : pc = IF LiveOffers = {} THEN "removeSupplier" ELSE "removeOffers"
    OBVIOUS
  <2>2. PICK os : os = LiveOffers
    OBVIOUS
  <2>3. PICK u : u = [req[r] EXCEPT !.pc = pc, !.offers = os]
    OBVIOUS
  <2>4. req' = [req EXCEPT ![r].pc = pc, ![r].offers = os]
    BY <1>4, <2>1, <2>2 DEF FindOffers
  <2>5. req' = [req EXCEPT ![r] = u]
    BY <1>0, <2>3, <2>4
  <2>6. os \in SUBSET Offer /\ pc \in {"removeSupplier", "removeOffers"}
    BY <2>1, <2>2 DEF LiveOffers
  <2>7. u \in Task
    BY <1>0, <2>3, <2>6 DEF Task
  <2>. QED
    BY <1>1, <1>4, <2>5, <2>7, Steps DEF FindOffers
<1>5. CASE RemoveOffers(r) \/ InsertOffer(r) \/ RemoveOffer(r)
  <2>1. /\ UNCHANGED <<supplier, cases, today, bounds>>
        /\ Finish(r) \/ Goto(r, "removeSupplier")
        /\ \E s \in {"live", "deleted"} :
             offers' = [o \in Offer |-> IF o \in req[r].offers THEN s ELSE offers[o]]
    BY <1>5 DEF RemoveOffers, InsertOffer, RemoveOffer
  <2>2. offers' \in [Offer -> {"absent", "live", "deleted"}] /\ req' \in [Req -> Task]
    BY <1>0, <2>1, Ends, Goes
  <2>. QED
    BY <2>1, <2>2 DEF TypeOK, bounds
<1>6. CASE RemoveSupplier(r)
  <2>1. supplier' \in SupplierRow /\ req' \in [Req -> Task]
    BY <1>0, <1>6, Ends DEF RemoveSupplier, SupplierRow
  <2>. QED
    BY <1>6, <2>1 DEF RemoveSupplier, TypeOK, bounds
<1>7. CASE InsertCase(r)
  <2>1. PICK o \in req[r].offers :
          cases' = Append(cases, [offer |-> o, status |-> "new", exp |-> NoDay])
    BY <1>7 DEF InsertCase
  <2>2. PICK row : row = [offer |-> o, status |-> "new", exp |-> NoDay]
    OBVIOUS
  <2>3. row \in CaseRow /\ Len(cases) < MaxCases
    BY <1>0, <1>7, <2>1, <2>2 DEF Task, CaseRow, CaseStatus, InsertCase
  <2>4. cases' \in Seq(CaseRow) /\ Len(cases') <= MaxCases
    BY <1>0, <2>1, <2>2, <2>3, SupplierLifecycleAssumption
  <2>5. req' \in [Req -> Task]
    BY <1>7, Ends DEF InsertCase
  <2>. QED
    BY <1>7, <2>4, <2>5 DEF InsertCase, TypeOK, bounds
<1>8. CASE CheckActivated(r) \/ CheckActive(r)
  <2>1. UNCHANGED <<supplier, offers, cases, today, bounds>>
    BY <1>8 DEF CheckActivated, CheckActive
  <2>2. Finish(r) \/ Goto(r, "active") \/ Goto(r, "removeOffer")
    BY <1>8 DEF CheckActivated, CheckActive
  <2>. QED
    BY <1>1, <2>1, <2>2, Ends, Goes
<1>. QED
  BY <1>2, <1>3, <1>4, <1>5, <1>6, <1>7, <1>8, Cancels DEF Continue

LEMMA FailTypes ==
  ASSUME TypeOK, NEW r \in Req, Fail(r)
  PROVE  TypeOK'
<1>1. req' \in [Req -> Task]
  BY Ends DEF Fail
<1>2. fails' \in 0 .. MaxFails /\ UNCHANGED <<supplier, offers, cases, today, started>>
  BY SupplierLifecycleAssumption DEF Fail, TypeOK
<1>. QED
  BY <1>1, <1>2 DEF TypeOK

-----------------------------------------------------------------------------
(* What a step may never do. *)

Outlives ==
  \A c \in DOMAIN cases :
    offers[cases[c].offer] = "live" /\ offers'[cases[c].offer] = "deleted" => ~Running(c)

Stands ==
  Pending => \/ supplier'.status = "pending_deletion" /\ supplier'.due >= supplier.due
             \/ supplier'.status = "inactive" /\ supplier'.due = NoDay

\* No operator moves a case back to an early stage.
OnlyForward == CaseTarget \cap Early = {}

\* Scheduling is over once the early cases are cancelled.
Cleared ==
  OnlyForward /\ fails = 0 /\ Pending /\ (\A r \in Req : ~At(r, "cancelEarly")) =>
    \A c \in DOMAIN cases : cases[c].status \notin Early

\* A step leaves a scheduled supplier's cases as late as they were.
Clears(r) ==
  \/ ~OnlyForward
  \/ At(r, "cancelEarly")'
  \/ ~Pending'
  \/ Fail(r) /\ At(r, "cancelEarly")
  \/ \A c \in DOMAIN cases' : cases'[c].status \notin Early
  \/ /\ ~At(r, "cancelEarly") /\ Pending
     /\ \A c \in DOMAIN cases' :
          c \in DOMAIN cases /\ (cases'[c].status \in Early => cases[c].status \in Early)

Sound(r) == TypeOK' /\ Steady(r)' /\ Outlives /\ Stands /\ DeletedTakesOffers' /\ Clears(r)

\* A step that leaves the tables alone.
LEMMA Leaves ==
  ASSUME TypeOK, NEW r \in Req, TypeOK', Steady(r)', DeletedTakesOffers,
         UNCHANGED <<supplier, offers, cases>>, ~At(r, "cancelEarly") \/ Fail(r) \/ UNCHANGED req
  PROVE  Sound(r)
<1>1. supplier \in SupplierRow /\ supplier.due \in Nat
  BY SupplierLifecycleAssumption DEF TypeOK, SupplierRow, NoDay, Day
<1>2. Stands
  BY <1>1 DEF Stands, Pending
<1>3. Outlives /\ DeletedTakesOffers'
  BY DEF Outlives, DeletedTakesOffers, LiveOffers
<1>4. Clears(r)
  BY DEF Clears, Pending, At
<1>. QED
  BY <1>2, <1>3, <1>4 DEF Sound

LEMMA CheckLiveSound ==
  ASSUME TypeOK, NEW r \in Req, Steady(r), DeletedTakesOffers, CheckLive(r)
  PROVE  Sound(r)
<1>0. /\ At(r, "live") /\ req[r] \in Task /\ req[r].row = supplier /\ ~supplier.deleted
      /\ req[r].op \in {"delete", "nightly"}
      /\ req[r].op = "delete" => ~Pending
      /\ req[r].op = "nightly" => Due
  BY DEF CheckLive, Steady, Loaded, TypeOK
<1>1. UNCHANGED <<supplier, offers, cases, today, fails, started>> /\ ~At(r, "cancelEarly")
  BY <1>0 DEF CheckLive, bounds, At
<1>2. CASE LiveUtilities = {} /\ Goto(r, "findOffers")
  <2>1. req' \in [Req -> Task] /\ req'[r].pc = "findOffers"
    BY <1>2, Goes
  <2>2. TypeOK'
    BY ContinueTypes DEF Continue
  <2>3. LiveUtilities' = {}
    BY <1>1, <1>2 DEF LiveUtilities, Running, LiveOffers
  <2>4. Steady(r)'
    BY <2>1, <2>3 DEF Steady, Loaded, Decided, Emptied, Offered, Unused, At
  <2>. QED
    BY <1>1, <2>2, <2>4, Leaves
<1>3. CASE Finish(r)
  <2>1. req' \in [Req -> Task] /\ req'[r] = Idle
    BY <1>3, Ends
  <2>2. TypeOK'
    BY ContinueTypes DEF Continue
  <2>3. Steady(r)'
    BY <2>1, IdleOK DEF Steady, Loaded, Decided, Emptied, Offered, Unused, At
  <2>. QED
    BY <1>1, <2>2, <2>3, Leaves
<1>4. CASE /\ Expiries # {}
           /\ req' = [req EXCEPT ![r].pc = "save",
                                 ![r].row = [@ EXCEPT !.status = "pending_deletion",
                                                      !.due = Latest]]
  <2>1. PICK row : row = [supplier EXCEPT !.status = "pending_deletion", !.due = Latest]
    OBVIOUS
  <2>2. PICK u : u = [req[r] EXCEPT !.pc = "save", !.row = row]
    OBVIOUS
  <2>3. req' = [req EXCEPT ![r] = u]
    BY <1>0, <1>4, <2>1, <2>2 DEF TypeOK
  <2>4. Latest \in Day /\ Latest > today
    BY <1>4, LatestIs
  <2>5. row \in SupplierRow /\ row.status = "pending_deletion" /\ row.due = Latest /\ ~row.deleted
    BY <1>0, <2>1, <2>4 DEF TypeOK, SupplierRow
  <2>6. u \in Task /\ u.pc = "save" /\ u.op = req[r].op /\ u.row = row
    BY <1>0, <2>2, <2>5 DEF Task
  <2>7. req' \in [Req -> Task] /\ req'[r] = u
    BY <2>3, <2>6, Steps
  <2>8. TypeOK'
    BY ContinueTypes DEF Continue
  <2>9. req[r].op = "nightly" => Pending /\ row.due >= supplier.due
    <3>1. today \in Nat /\ supplier.due \in Nat /\ Latest \in Nat
      BY <2>4, SupplierLifecycleAssumption DEF TypeOK, SupplierRow, NoDay, Day
    <3>. QED
      BY <1>0, <2>4, <2>5, <3>1 DEF Due
  <2>10. Decided(r)'
    BY <1>0, <1>1, <2>5, <2>6, <2>7, <2>9 DEF Decided, At, Pending
  <2>11. Steady(r)'
    BY <2>6, <2>7, <2>10 DEF Steady, Loaded, Emptied, Offered, Unused, At
  <2>. QED
    BY <1>1, <2>8, <2>11, Leaves
<1>5. LiveUtilities # {} /\ (\A c \in LiveUtilities : cases[c].exp # NoDay) => Expiries # {}
  BY DEF Expiries
<1>. QED
  BY <1>2, <1>3, <1>4, <1>5 DEF CheckLive

LEMMA SaveSound ==
  ASSUME TypeOK, NEW r \in Req, Steady(r), DeletedTakesOffers, SaveSupplier(r)
  PROVE  Sound(r)
<1>0. /\ At(r, "save") /\ req[r] \in Task /\ Decided(r) /\ req[r].row \in SupplierRow
      /\ supplier' = req[r].row
      /\ UNCHANGED <<offers, cases, today, fails, started>>
  BY DEF SaveSupplier, Steady, TypeOK, Task, bounds
<1>1. ~supplier'.deleted /\ DeletedTakesOffers' /\ Outlives
  BY <1>0 DEF Decided, DeletedTakesOffers, Outlives
<1>2. Stands
  BY <1>0 DEF Decided, Stands
<1>3. /\ req' \in [Req -> Task]
      /\ \/ req[r].op = "delete" /\ At(r, "cancelEarly")'
         \/ req[r].op # "delete" /\ req'[r] = Idle
  BY Goes, Ends DEF SaveSupplier, At
<1>4. Steady(r)'
  BY <1>3, IdleOK DEF Steady, Loaded, Decided, Emptied, Offered, Unused, At
<1>5. TypeOK'
  BY ContinueTypes DEF Continue
<1>6. Clears(r)
  <2>1. CASE req[r].op = "delete"
    BY <1>3, <2>1 DEF Clears
  <2>2. CASE req[r].op = "nightly"
    <3>1. Pending /\ ~At(r, "cancelEarly")
      BY <1>0, <2>2 DEF Decided, At
    <3>. QED
      BY <1>0, <3>1 DEF Clears
  <2>3. CASE req[r].op \in {"set", "cancel"}
    <3>1. ~Pending'
      BY <1>0, <2>3 DEF Decided, Pending
    <3>. QED
      BY <3>1 DEF Clears
  <2>. QED
    BY <1>0, <2>1, <2>2, <2>3 DEF Decided
<1>. QED
  BY <1>1, <1>2, <1>4, <1>5, <1>6 DEF Sound


LEMMA DeletionSound ==
  ASSUME TypeOK, NEW r \in Req, Steady(r), DeletedTakesOffers,
         FindOffers(r) \/ RemoveOffers(r) \/ RemoveSupplier(r)
  PROVE  Sound(r)
<1>0. /\ req[r] \in Task /\ req \in [Req -> Task] /\ supplier \in SupplierRow
      /\ supplier.due \in Nat
  BY SupplierLifecycleAssumption DEF TypeOK, SupplierRow, NoDay, Day
<1>1. CASE FindOffers(r)
  <2>1. /\ At(r, "findOffers") /\ UNCHANGED <<supplier, offers, cases, today, fails, started>>
        /\ LiveUtilities = {}
    BY <1>1 DEF FindOffers, Steady, Emptied, bounds, At
  <2>2. PICK pc : pc = IF LiveOffers = {} THEN "removeSupplier" ELSE "removeOffers"
    OBVIOUS
  <2>3. PICK os : os = LiveOffers
    OBVIOUS
  <2>4. PICK u : u = [req[r] EXCEPT !.pc = pc, !.offers = os]
    OBVIOUS
  <2>5. req' = [req EXCEPT ![r] = u]
    <3>1. req' = [req EXCEPT ![r].pc = pc, ![r].offers = os]
      BY <1>1, <2>2, <2>3 DEF FindOffers
    <3>. QED
      BY <1>0, <2>4, <3>1
  <2>6. os \in SUBSET Offer /\ pc \in {"removeSupplier", "removeOffers"}
    BY <2>2, <2>3 DEF LiveOffers
  <2>7. u \in Task /\ u.pc = pc /\ u.offers = os
    BY <1>0, <2>4, <2>6 DEF Task
  <2>8. req' \in [Req -> Task] /\ req'[r] = u
    BY <2>5, <2>7, Steps
  <2>9. TypeOK'
    BY ContinueTypes DEF Continue
  <2>10. LiveUtilities' = {} /\ LiveOffers' = os /\ (pc = "removeSupplier" => os = {})
    BY <2>1, <2>2, <2>3 DEF LiveUtilities, Running, LiveOffers
  <2>11. Steady(r)'
    BY <2>6, <2>7, <2>8, <2>10 DEF Steady, Loaded, Decided, Emptied, Offered, Unused, At
  <2>12. ~At(r, "cancelEarly")
    BY <2>1 DEF At
  <2>. QED
    BY <2>1, <2>9, <2>11, <2>12, Leaves
<1>2. CASE RemoveOffers(r)
  <2>1. /\ At(r, "removeOffers") /\ UNCHANGED <<supplier, cases, today, fails, started>>
        /\ LiveUtilities = {} /\ req[r].offers = LiveOffers
        /\ offers' = [o \in Offer |-> IF o \in LiveOffers THEN "deleted" ELSE offers[o]]
    BY <1>2 DEF RemoveOffers, Steady, Emptied, bounds, At
  <2>2. req' \in [Req -> Task] /\ req'[r].pc = "removeSupplier"
    BY <1>2, Goes DEF RemoveOffers
  <2>3. /\ offers' \in [Offer -> {"absent", "live", "deleted"}]
        /\ \A o \in Offer : offers'[o] # "live"
    BY <2>1 DEF TypeOK, LiveOffers
  <2>4. TypeOK'
    BY ContinueTypes DEF Continue
  <2>5. LiveOffers' = {}
    BY <2>3 DEF LiveOffers
  <2>6. Steady(r)'
    BY <2>2, <2>5 DEF Steady, Loaded, Decided, Emptied, Offered, Unused, At
  <2>7. Outlives
    <3>1. ASSUME NEW c \in DOMAIN cases, offers[cases[c].offer] = "live", Running(c)
          PROVE  FALSE
      <4>1. cases[c] \in CaseRow
        BY DEF TypeOK
      <4>2. cases[c].offer \in LiveOffers
        BY <3>1, <4>1 DEF CaseRow, LiveOffers
      <4>. QED
        BY <2>1, <3>1, <4>2 DEF LiveUtilities
    <3>. QED
      BY <3>1 DEF Outlives
  <2>8. Stands /\ DeletedTakesOffers' /\ Clears(r)
    BY <1>0, <2>1, <2>5 DEF Stands, Pending, DeletedTakesOffers, Clears, At
  <2>. QED
    BY <2>4, <2>6, <2>7, <2>8 DEF Sound
<1>3. CASE RemoveSupplier(r)
  <2>1. /\ UNCHANGED <<offers, cases, today, fails, started>> /\ LiveOffers = {}
        /\ supplier' = [supplier EXCEPT !.deleted = TRUE] /\ Finish(r)
    BY <1>3 DEF RemoveSupplier, Steady, Emptied, bounds, At
  <2>2. req' \in [Req -> Task] /\ req'[r] = Idle
    BY <2>1, Ends
  <2>3. /\ supplier' \in SupplierRow /\ supplier'.deleted
        /\ supplier'.status = supplier.status /\ supplier'.due = supplier.due
    BY <1>0, <2>1 DEF SupplierRow
  <2>4. TypeOK'
    BY ContinueTypes DEF Continue
  <2>5. Steady(r)'
    BY <2>2, IdleOK DEF Steady, Loaded, Decided, Emptied, Offered, Unused, At
  <2>6. Outlives /\ DeletedTakesOffers'
    BY <2>1 DEF Outlives, DeletedTakesOffers, LiveOffers
  <2>7. Stands /\ Clears(r)
    BY <1>0, <2>3 DEF Stands, Pending, Clears
  <2>. QED
    BY <2>4, <2>5, <2>6, <2>7 DEF Sound
<1>. QED
  BY <1>1, <1>2, <1>3

LEMMA CancelSound ==
  ASSUME TypeOK, NEW r \in Req, Steady(r), DeletedTakesOffers, CancelEarly(r)
  PROVE  Sound(r)
<1>1. /\ TypeOK' /\ UNCHANGED <<supplier, offers, today, fails>> /\ req'[r] = Idle
      /\ \A c \in DOMAIN cases' : cases'[c].status \notin Early
  BY Cancels
<1>2. Steady(r)'
  BY <1>1, IdleOK DEF Steady, Loaded, Decided, Emptied, Offered, Unused, At
<1>3. supplier.due \in Nat
  BY SupplierLifecycleAssumption DEF TypeOK, SupplierRow, NoDay, Day
<1>4. Outlives /\ Stands /\ DeletedTakesOffers' /\ Clears(r)
  BY <1>1, <1>3 DEF Outlives, Stands, Pending, DeletedTakesOffers, LiveOffers, Clears
<1>. QED
  BY <1>1, <1>2, <1>4 DEF Sound

LEMMA InsertsSound ==
  ASSUME TypeOK, NEW r \in Req, Steady(r), DeletedTakesOffers, InsertCase(r) \/ InsertOffer(r)
  PROVE  Sound(r)
<1>0. /\ req[r] \in Task /\ supplier.due \in Nat /\ cases \in Seq(CaseRow)
      /\ offers \in [Offer -> {"absent", "live", "deleted"}]
  BY SupplierLifecycleAssumption DEF TypeOK, SupplierRow, NoDay, Day
<1>1. /\ UNCHANGED <<supplier, today, fails, started>> /\ Finish(r)
      /\ At(r, "insertCase") \/ At(r, "insertOffer")
  BY DEF InsertCase, InsertOffer, bounds
<1>2. req' \in [Req -> Task] /\ req'[r] = Idle
  BY <1>1, Ends
<1>3. Steady(r)'
  BY <1>2, IdleOK DEF Steady, Loaded, Decided, Emptied, Offered, Unused, At
<1>4. Stands
  BY <1>0, <1>1 DEF Stands, Pending
<1>5. CASE InsertCase(r)
  <2>1. offers' = offers
    BY <1>5 DEF InsertCase
  <2>2. TypeOK'
    BY ContinueTypes DEF Continue
  <2>3. ~Pending'
    BY <1>1, <1>5 DEF InsertCase, Steady, Offered, Pending
  <2>4. Outlives /\ DeletedTakesOffers' /\ Clears(r)
    BY <1>1, <2>1, <2>3 DEF Outlives, DeletedTakesOffers, LiveOffers, Clears
  <2>. QED
    BY <1>3, <1>4, <2>2, <2>4 DEF Sound
<1>6. CASE InsertOffer(r)
  <2>1. /\ offers' = [o \in Offer |-> IF o \in req[r].offers THEN "live" ELSE offers[o]]
        /\ cases' = cases /\ ~supplier'.deleted /\ ~At(r, "cancelEarly")
    BY <1>1, <1>6 DEF InsertOffer, Steady, Offered, At
  <2>2. /\ offers' \in [Offer -> {"absent", "live", "deleted"}]
        /\ \A o \in Offer : offers'[o] \in {"live", offers[o]}
    BY <1>0, <2>1
  <2>3. \A c \in DOMAIN cases : cases[c].offer \in Offer
    <3>1. \A c \in DOMAIN cases : cases[c] \in CaseRow
      BY <1>0
    <3>. QED
      BY <3>1 DEF CaseRow
  <2>4. TypeOK'
    BY ContinueTypes DEF Continue
  <2>5. Outlives
    BY <2>2, <2>3 DEF Outlives
  <2>6. DeletedTakesOffers' /\ Clears(r)
    BY <1>1, <2>1 DEF DeletedTakesOffers, Clears, Pending
  <2>. QED
    BY <1>3, <1>4, <2>4, <2>5, <2>6 DEF Sound
<1>. QED
  BY <1>5, <1>6


LEMMA OfferSound ==
  ASSUME TypeOK, NEW r \in Req, Steady(r), DeletedTakesOffers,
         CheckActivated(r) \/ CheckActive(r) \/ RemoveOffer(r)
  PROVE  Sound(r)
<1>0. /\ req[r] \in Task /\ supplier.due \in Nat
      /\ offers \in [Offer -> {"absent", "live", "deleted"}]
      /\ \A c \in DOMAIN cases : cases[c] \in CaseRow
  BY SupplierLifecycleAssumption DEF TypeOK, SupplierRow, NoDay, Day
<1>1. /\ UNCHANGED <<supplier, cases, today, fails, started>>
      /\ ~At(r, "cancelEarly")
  BY DEF CheckActivated, CheckActive, RemoveOffer, bounds, At
<1>2. ASSUME UNCHANGED offers, Finish(r)
      PROVE  Sound(r)
  <2>1. req' \in [Req -> Task] /\ req'[r] = Idle
    BY <1>2, Ends
  <2>2. TypeOK'
    BY ContinueTypes DEF Continue
  <2>3. Steady(r)'
    BY <2>1, IdleOK DEF Steady, Loaded, Decided, Emptied, Offered, Unused, At
  <2>. QED
    BY <1>1, <1>2, <2>2, <2>3, Leaves
<1>3. CASE CheckActivated(r)
  <2>1. UNCHANGED offers
    BY <1>3 DEF CheckActivated
  <2>2. CASE ~Finish(r)
    <3>1. /\ Goto(r, "active")
          /\ \A c \in DOMAIN cases :
               cases[c].offer \in req[r].offers /\ cases[c].status = "activated" => ~Running(c)
      BY <1>3, <2>2 DEF CheckActivated
    <3>2. req' \in [Req -> Task] /\ req'[r].pc = "active" /\ req'[r].offers = req[r].offers
      BY <3>1, Goes
    <3>3. TypeOK'
      BY ContinueTypes DEF Continue
    <3>4. Unused(r)'
      BY <1>1, <3>1, <3>2 DEF Unused, At, Running
    <3>5. Steady(r)'
      BY <3>2, <3>4 DEF Steady, Loaded, Decided, Emptied, Offered, At
    <3>. QED
      BY <1>1, <2>1, <3>3, <3>5, Leaves
  <2>. QED
    BY <1>2, <2>1, <2>2
<1>4. CASE CheckActive(r)
  <2>1. /\ UNCHANGED offers
        /\ \A c \in DOMAIN cases :
             cases[c].offer \in req[r].offers /\ cases[c].status = "activated" => ~Running(c)
    BY <1>4 DEF CheckActive, Steady, Unused
  <2>2. CASE ~Finish(r)
    <3>1. /\ Goto(r, "removeOffer")
          /\ \A c \in DOMAIN cases :
               cases[c].offer \in req[r].offers => cases[c].status # "awaiting_activation"
      BY <1>4, <2>2 DEF CheckActive
    <3>2. \A c \in DOMAIN cases : cases[c].offer \in req[r].offers => ~Running(c)
      BY <2>1, <3>1 DEF Running, LiveUtility
    <3>3. req' \in [Req -> Task] /\ req'[r].pc = "removeOffer" /\ req'[r].offers = req[r].offers
      BY <3>1, Goes
    <3>4. TypeOK'
      BY ContinueTypes DEF Continue
    <3>5. Unused(r)'
      BY <1>1, <3>2, <3>3 DEF Unused, At, Running
    <3>6. Steady(r)'
      BY <3>3, <3>5 DEF Steady, Loaded, Decided, Emptied, Offered, At
    <3>. QED
      BY <1>1, <2>1, <3>4, <3>6, Leaves
  <2>. QED
    BY <1>2, <2>1, <2>2
<1>5. CASE RemoveOffer(r)
  <2>1. /\ offers' = [o \in Offer |-> IF o \in req[r].offers THEN "deleted" ELSE offers[o]]
        /\ \A c \in DOMAIN cases : cases[c].offer \in req[r].offers => ~Running(c)
        /\ Finish(r)
    BY <1>5 DEF RemoveOffer, Steady, Unused
  <2>2. req' \in [Req -> Task] /\ req'[r] = Idle
    BY <2>1, Ends
  <2>3. /\ offers' \in [Offer -> {"absent", "live", "deleted"}]
        /\ \A o \in Offer : offers'[o] = "deleted" => o \in req[r].offers \/ offers[o] = "deleted"
        /\ \A o \in Offer : offers'[o] = "live" => offers[o] = "live"
    BY <1>0, <2>1
  <2>4. TypeOK'
    BY ContinueTypes DEF Continue
  <2>5. Steady(r)'
    BY <2>2, IdleOK DEF Steady, Loaded, Decided, Emptied, Offered, Unused, At
  <2>6. \A c \in DOMAIN cases : cases[c].offer \in Offer
    BY <1>0 DEF CaseRow
  <2>7. Outlives
    BY <2>1, <2>3, <2>6 DEF Outlives
  <2>8. DeletedTakesOffers'
    BY <1>1, <2>3 DEF DeletedTakesOffers, LiveOffers
  <2>9. Stands /\ Clears(r)
    BY <1>0, <1>1 DEF Stands, Pending, Clears
  <2>. QED
    BY <2>4, <2>5, <2>7, <2>8, <2>9 DEF Sound
<1>. QED
  BY <1>3, <1>4, <1>5

LEMMA FailSound ==
  ASSUME TypeOK, NEW r \in Req, DeletedTakesOffers, Fail(r)
  PROVE  Sound(r)
<1>1. req' \in [Req -> Task] /\ req'[r] = Idle
  BY Ends DEF Fail
<1>2. UNCHANGED <<supplier, offers, cases>>
  BY DEF Fail
<1>3. TypeOK'
  BY FailTypes
<1>4. Steady(r)'
  BY <1>1, IdleOK DEF Steady, Loaded, Decided, Emptied, Offered, Unused, At
<1>. QED
  BY <1>2, <1>3, <1>4, Leaves

LEMMA RequestSound ==
  ASSUME TypeOK, NEW r \in Req, DeletedTakesOffers, Request(r) \/ Strike(r)
  PROVE  Sound(r)
<1>1. req[r] = Idle /\ ~At(r, "cancelEarly") /\ supplier.due \in Nat
  <2>1. req[r] = Idle
    BY DEF Request, Strike, ReadDelete, ReadSet, ReadCancel, ReadAccept, ReadCreateOffer,
           ReadDeleteOffer, MoveCase, Call
  <2>. QED
    BY <2>1, IdleOK, SupplierLifecycleAssumption DEF At, TypeOK, SupplierRow, NoDay, Day
<1>2. CASE MoveCase(r)
  <2>1. /\ TypeOK' /\ UNCHANGED <<supplier, offers, today, req, fails>>
        /\ DOMAIN cases' = DOMAIN cases
        /\ \A c \in DOMAIN cases : cases'[c].status \in CaseTarget \cup {cases[c].status}
    BY <1>2, MovesCase
  <2>2. Steady(r)'
    BY <1>1, <2>1, IdleOK DEF Steady, Loaded, Decided, Emptied, Offered, Unused, At
  <2>3. OnlyForward =>
          \A c \in DOMAIN cases' :
            c \in DOMAIN cases /\ (cases'[c].status \in Early => cases[c].status \in Early)
    BY <2>1 DEF OnlyForward
  <2>4. Clears(r)
    <3>1. Pending' = Pending
      BY <2>1 DEF Pending
    <3>. QED
      BY <1>1, <2>3, <3>1 DEF Clears
  <2>5. Outlives /\ Stands /\ DeletedTakesOffers'
    BY <1>1, <2>1 DEF Outlives, Stands, Pending, DeletedTakesOffers, LiveOffers
  <2>. QED
    BY <2>1, <2>2, <2>4, <2>5 DEF Sound
<1>3. CASE ~MoveCase(r)
  BY <1>1, <1>3, Requests, Strikes, Leaves
<1>. QED
  BY <1>2, <1>3

\* A day passes: fewer supplies run, and what is due stays due.
LEMMA TickKeeps ==
  ASSUME TypeOK, Tick
  PROVE  TypeOK' /\ UNCHANGED <<supplier, offers, cases, req, fails>>
         /\ \A r \in Req : Steady(r) => Steady(r)'
<1>1. /\ UNCHANGED <<supplier, offers, cases, req, fails, started>>
      /\ today \in Nat /\ today' = today + 1 /\ today' \in Day
  BY SupplierLifecycleAssumption DEF Tick, bounds, TypeOK, Day
<1>2. TypeOK'
  BY <1>1 DEF TypeOK
<1>3. \A c \in DOMAIN cases : cases[c].exp \in Nat
  <2>1. \A c \in DOMAIN cases : cases[c] \in CaseRow
    BY DEF TypeOK
  <2>. QED
    BY <2>1, SupplierLifecycleAssumption DEF CaseRow, NoDay, Day
<1>4. \A c \in DOMAIN cases : Running(c)' => Running(c)
  BY <1>1, <1>3 DEF Running
<1>5. LiveOffers' = LiveOffers /\ (LiveUtilities = {} => LiveUtilities' = {})
  BY <1>1, <1>4 DEF LiveOffers, LiveUtilities
<1>6. Pending' = Pending /\ (Due => Due')
  <2>1. supplier.due \in Nat
    BY SupplierLifecycleAssumption DEF TypeOK, SupplierRow, NoDay, Day
  <2>. QED
    BY <1>1, <2>1 DEF Pending, Due
<1>7. ASSUME NEW r \in Req, Steady(r)
      PROVE  Steady(r)'
  <2>1. Loaded(r)' /\ Decided(r)'
    BY <1>1, <1>6, <1>7 DEF Steady, Loaded, Decided, At
  <2>2. Emptied(r)' /\ Offered(r)'
    BY <1>1, <1>5, <1>6, <1>7 DEF Steady, Emptied, Offered, At
  <2>3. Unused(r)'
    BY <1>1, <1>4, <1>7 DEF Steady, Unused, At
  <2>. QED
    BY <2>1, <2>2, <2>3 DEF Steady
<1>. QED
  BY <1>1, <1>2, <1>7

-----------------------------------------------------------------------------
(* The theorems. *)

\* Tasks do not overlap.
OneTask == \A r, s \in Req : r = s

Held == TypeOK /\ DeletedTakesOffers /\ Cleared /\ \A r \in Req : Steady(r)

LEMMA InitHeld == Init => Held
<1>. SUFFICES ASSUME Init
              PROVE  Held
  OBVIOUS
<1>1. \A r \in Req : Steady(r)
  BY IdleSteady DEF Init
<1>2. supplier = Added /\ ~Pending
  BY IdleOK DEF Init, Pending
<1>3. cases \in Seq(CaseRow) /\ Len(cases) = 0
  BY DEF Init
<1>4. today \in Day /\ started \in 0 .. MaxRequests /\ fails \in 0 .. MaxFails /\ Len(cases) <= MaxCases
  BY <1>3, SupplierLifecycleAssumption DEF Init, Day
<1>5. TypeOK
  BY <1>2, <1>3, <1>4, IdleOK DEF Init, TypeOK
<1>6. Cleared /\ DeletedTakesOffers
  BY <1>2, IdleOK DEF Cleared, DeletedTakesOffers
<1>. QED
  BY <1>1, <1>5, <1>6 DEF Held

\* Only a failure counts as one.
LEMMA FailsCount ==
  ASSUME NEW r \in Req, Request(r) \/ Strike(r) \/ Continue(r), ~Fail(r)
  PROVE  fails' = fails
BY DEF Request, ReadDelete, ReadSet, ReadCancel, ReadAccept, ReadCreateOffer, ReadDeleteOffer, Call,
   MoveCase, Strike, Continue, CheckLive, SaveSupplier, CancelEarly, FindOffers, RemoveOffers,
   RemoveSupplier, InsertCase, InsertOffer, CheckActivated, CheckActive, RemoveOffer, bounds

\* Each step is sound.
LEMMA SoundStep ==
  ASSUME Held, NEW r \in Req, Request(r) \/ Strike(r) \/ Continue(r) \/ Fail(r)
  PROVE  Sound(r)
BY RequestSound, FailSound, CheckLiveSound, SaveSound, CancelSound, DeletionSound,
   InsertsSound, OfferSound DEF Continue, Held

LEMMA StepHeld ==
  ASSUME OneTask, Held, [Next]_vars
  PROVE  Held' /\ Outlives /\ Stands
<1>1. ASSUME NEW r \in Req, Request(r) \/ Strike(r) \/ Continue(r) \/ Fail(r), Sound(r)
      PROVE  Held' /\ Outlives /\ Stands
  <2>1. \A s \in Req : s = r
    BY DEF OneTask
  <2>2. \A s \in Req : Steady(s)'
    BY <1>1, <2>1 DEF Sound
  <2>3. Cleared'
    <3>1. SUFFICES ASSUME OnlyForward, fails' = 0, Pending', ~At(r, "cancelEarly")'
                   PROVE  \A c \in DOMAIN cases' : cases'[c].status \notin Early
      BY DEF Cleared
    <3>2. CASE \A c \in DOMAIN cases' : cases'[c].status \notin Early
      BY <3>2
    <3>a. ~Fail(r) /\ fails = 0
      <4>1. ~Fail(r)
        BY <3>1, SupplierLifecycleAssumption DEF Fail, Held, TypeOK
      <4>. QED
        BY <1>1, <3>1, <4>1, FailsCount
    <3>3. CASE /\ ~At(r, "cancelEarly") /\ Pending
               /\ \A c \in DOMAIN cases' :
                    c \in DOMAIN cases /\ (cases'[c].status \in Early => cases[c].status \in Early)
      <4>1. \A s \in Req : ~At(s, "cancelEarly")
        BY <2>1, <3>3
      <4>. QED
        BY <3>1, <3>a, <3>3, <4>1 DEF Held, Cleared
    <3>. QED
      BY <1>1, <3>1, <3>a, <3>2, <3>3 DEF Sound, Clears
  <2>. QED
    BY <1>1, <2>2, <2>3 DEF Sound, Held
<1>2. ASSUME NEW r \in Req, Request(r) \/ Strike(r) \/ Continue(r) \/ Fail(r)
      PROVE  Sound(r)
  BY <1>2, SoundStep
<1>3. CASE Tick
  <2>1. TypeOK' /\ UNCHANGED <<supplier, offers, cases, req, fails>> /\ \A r \in Req : Steady(r)'
    BY <1>3, TickKeeps DEF Held
  <2>2. DeletedTakesOffers' /\ Cleared'
    BY <2>1 DEF Held, DeletedTakesOffers, LiveOffers, Cleared, Pending, At
  <2>3. supplier.due \in Nat
    BY SupplierLifecycleAssumption DEF Held, TypeOK, SupplierRow, NoDay, Day
  <2>4. Outlives /\ Stands
    BY <2>1, <2>3 DEF Outlives, Stands, Pending
  <2>. QED
    BY <2>1, <2>2, <2>4 DEF Held
<1>4. CASE UNCHANGED vars
  <2>1. \A r \in Req : Steady(r)'
    BY <1>4 DEF Held, Steady, Loaded, Decided, Emptied, Offered, Unused, At, Due, Pending,
                LiveUtilities, LiveOffers, Running, vars
  <2>2. TypeOK' /\ DeletedTakesOffers' /\ Cleared'
    BY <1>4 DEF Held, TypeOK, DeletedTakesOffers, LiveOffers, Cleared, Pending, At, vars, bounds
  <2>3. supplier.due \in Nat
    BY SupplierLifecycleAssumption DEF Held, TypeOK, SupplierRow, NoDay, Day
  <2>4. Outlives /\ Stands
    BY <1>4, <2>3 DEF Outlives, Stands, Pending, vars
  <2>. QED
    BY <2>1, <2>2, <2>4 DEF Held
<1>. QED
  BY <1>1, <1>2, <1>3, <1>4 DEF Next


(***************************************************************************)
(* As long as tasks do not overlap, a deleted supplier leaves no offer in  *)
(* the catalogue, wherever a deletion dies and is taken up again.          *)
(***************************************************************************)
THEOREM OffersGoWithSupplier == ASSUME OneTask PROVE Spec => []DeletedTakesOffers
<1>1. Held /\ [Next]_vars => Held'
  BY StepHeld
<1>2. Held => DeletedTakesOffers
  BY DEF Held
<1>. QED
  BY InitHeld, <1>1, <1>2, PTL DEF Spec

(***************************************************************************)
(* As long as tasks do not overlap, none dies and no operator moves a case *)
(* back, a scheduled deletion has no case at an early stage.               *)
(***************************************************************************)
THEOREM ScheduledIsCleared == ASSUME OneTask, OnlyForward PROVE Spec => []ScheduledHasNoEarly
<1>1. Held /\ [Next]_vars => Held'
  BY StepHeld
<1>2. Held => ScheduledHasNoEarly
  BY IdleOK DEF Held, Cleared, ScheduledHasNoEarly, Quiet, At
<1>. QED
  BY InitHeld, <1>1, <1>2, PTL DEF Spec

(***************************************************************************)
(* As long as tasks do not overlap, no offer leaves the catalogue while    *)
(* somebody is supplied under it, however far a supply was prolonged       *)
(* between the checks and the deletion.                                    *)
(***************************************************************************)
THEOREM SupplyOutlived == ASSUME OneTask PROVE Spec => OffersOutliveSupply
<1>1. Held /\ [Next]_vars => Held'
  BY StepHeld
<1>2. Held /\ [Next]_vars =>
        [\A c \in DOMAIN cases :
           offers[cases[c].offer] = "live" /\ offers'[cases[c].offer] = "deleted"
           => ~Running(c)]_vars
  BY StepHeld DEF Outlives
<1>. QED
  BY InitHeld, <1>1, <1>2, PTL DEF Spec, OffersOutliveSupply

(***************************************************************************)
(* As long as tasks do not overlap, a scheduled deletion is carried out or *)
(* cancelled, and until then its day only moves later.                     *)
(***************************************************************************)
THEOREM ScheduleIsKept == ASSUME OneTask PROVE Spec => ScheduleStands
<1>1. Held /\ [Next]_vars => Held'
  BY StepHeld
<1>2. Held /\ [Next]_vars =>
        [Pending => \/ supplier'.status = "pending_deletion" /\ supplier'.due >= supplier.due
                    \/ supplier'.status = "inactive" /\ supplier'.due = NoDay]_vars
  BY StepHeld DEF Stands
<1>. QED
  BY InitHeld, <1>1, <1>2, PTL DEF Spec, ScheduleStands

(***************************************************************************)
(* Every row and every task keeps to its columns, whatever overlaps.       *)
(***************************************************************************)
THEOREM SupplierTyped == Spec => []TypeOK
<1>1. Init => TypeOK
  BY InitHeld DEF Held
<1>2. TypeOK /\ [Next]_vars => TypeOK'
  <2>. SUFFICES ASSUME TypeOK, [Next]_vars
                PROVE  TypeOK'
    OBVIOUS
  <2>1. CASE UNCHANGED vars
    BY <2>1 DEF TypeOK, vars, bounds
  <2>2. CASE Tick
    BY <2>2, TickKeeps
  <2>3. ASSUME NEW r \in Req, Request(r) \/ Strike(r) \/ Continue(r) \/ Fail(r)
        PROVE  TypeOK'
    BY <2>3, Requests, MovesCase, Strikes, ContinueTypes, FailTypes
  <2>. QED
    BY <2>1, <2>2, <2>3 DEF Next
<1>. QED
  BY <1>1, <1>2, PTL DEF Spec

-----------------------------------------------------------------------------
(* What it would take to delete no supplier that supplies somebody. *)

\* No operator makes a supply run that did not, under an offer that is gone.
NoneRevived ==
  \A r \in Req : MoveCase(r) =>
    \A c \in DOMAIN cases : Running(c)' /\ ~Running(c) => offers[cases'[c].offer] = "live"

Supplied == \A c \in DOMAIN cases : Running(c) => offers[cases[c].offer] = "live"

\* An offer that is live stays so or is deleted.
LEMMA OffersStay ==
  ASSUME Held, [Next]_vars
  PROVE  \A o \in Offer : offers[o] = "live" => offers'[o] \in {"live", "deleted"}
<1>1. \/ UNCHANGED offers
      \/ \E O : offers' = [o \in Offer |-> IF o \in O THEN "deleted" ELSE offers[o]]
      \/ \E O : offers' = [o \in Offer |-> IF o \in O THEN "live" ELSE offers[o]]
  <2>1. ASSUME NEW r \in Req, Request(r) \/ Strike(r) \/ Fail(r) PROVE UNCHANGED offers
    BY <2>1 DEF Request, ReadDelete, ReadSet, ReadCancel, ReadAccept, ReadCreateOffer,
       ReadDeleteOffer, Call, MoveCase, Strike, Fail
  <2>2. ASSUME NEW r \in Req, Continue(r), ~RemoveOffers(r), ~RemoveOffer(r), ~InsertOffer(r)
        PROVE  UNCHANGED offers
    BY <2>2 DEF Continue, CheckLive, SaveSupplier, CancelEarly, FindOffers, RemoveSupplier,
       InsertCase, CheckActivated, CheckActive
  <2>3. ASSUME NEW r \in Req, RemoveOffers(r) \/ RemoveOffer(r)
        PROVE  \E O : offers' = [o \in Offer |-> IF o \in O THEN "deleted" ELSE offers[o]]
    BY <2>3 DEF RemoveOffers, RemoveOffer
  <2>4. ASSUME NEW r \in Req, InsertOffer(r)
        PROVE  \E O : offers' = [o \in Offer |-> IF o \in O THEN "live" ELSE offers[o]]
    BY <2>4 DEF InsertOffer
  <2>5. Tick \/ UNCHANGED vars => UNCHANGED offers
    BY DEF Tick, vars
  <2>. QED
    BY <2>1, <2>2, <2>3, <2>4, <2>5 DEF Next
<1>. QED
  BY <1>1 DEF Held, TypeOK

\* A supply that runs after a step ran before it, unless an operator just moved its case.
LEMMA RanBefore ==
  ASSUME TypeOK, [Next]_vars, \A r \in Req : ~MoveCase(r), NEW c \in DOMAIN cases', Running(c)'
  PROVE  /\ c \in DOMAIN cases /\ Running(c)
         /\ cases'[c].offer = cases[c].offer /\ cases'[c].status = cases[c].status
<1>. DEFINE Same == /\ c \in DOMAIN cases /\ Running(c)
                    /\ cases'[c].offer = cases[c].offer /\ cases'[c].status = cases[c].status
<1>0. cases \in Seq(CaseRow) /\ \A d \in DOMAIN cases : cases[d] \in CaseRow
  BY DEF TypeOK
<1>1. ASSUME UNCHANGED <<cases, today>> PROVE Same
  BY <1>1 DEF Running
<1>2. ASSUME Tick PROVE Same
  <2>1. today \in Nat /\ today' = today + 1 /\ cases' = cases
    BY <1>0, <1>2, SupplierLifecycleAssumption DEF Tick, TypeOK, Day
  <2>2. c \in DOMAIN cases /\ cases[c].exp \in Nat
    BY <1>0, <2>1, SupplierLifecycleAssumption DEF CaseRow, NoDay, Day
  <2>. QED
    BY <2>1, <2>2 DEF Running
<1>4. ASSUME NEW r \in Req, CancelEarly(r) PROVE Same
  <2>1. /\ cases' = [e \in DOMAIN cases |->
                       IF cases[e].status \in Early
                       THEN [cases[e] EXCEPT !.status = "cancelled"] ELSE cases[e]]
        /\ UNCHANGED today
    BY <1>4 DEF CancelEarly
  <2>2. c \in DOMAIN cases /\ cases[c] \in CaseRow
    BY <1>0, <2>1
  <2>3. PICK row \in CaseRow : row = cases[c]
    BY <2>2
  <2>4. CASE row.status \in Early
    <3>1. cases'[c] = [row EXCEPT !.status = "cancelled"]
      BY <2>1, <2>2, <2>3, <2>4
    <3>2. cases'[c].status = "cancelled"
      BY <3>1 DEF CaseRow
    <3>. QED
      BY <3>2 DEF Running, LiveUtility
  <2>5. CASE row.status \notin Early
    <3>1. cases'[c] = cases[c]
      BY <2>1, <2>2, <2>3, <2>5
    <3>. QED
      BY <2>1, <2>2, <3>1 DEF Running
  <2>. QED
    BY <2>4, <2>5
<1>5. ASSUME NEW r \in Req, InsertCase(r) PROVE Same
  <2>1. PICK o \in req[r].offers :
          cases' = Append(cases, [offer |-> o, status |-> "new", exp |-> NoDay])
    BY <1>5 DEF InsertCase
  <2>2. UNCHANGED today
    BY <1>5 DEF InsertCase
  <2>3. PICK row : row = [offer |-> o, status |-> "new", exp |-> NoDay]
    OBVIOUS
  <2>4. CASE c = Len(cases) + 1
    <3>1. cases'[c].status = "new"
      BY <1>0, <2>1, <2>3, <2>4
    <3>. QED
      BY <3>1 DEF Running, LiveUtility
  <2>5. CASE c # Len(cases) + 1
    <3>1. c \in DOMAIN cases /\ cases'[c] = cases[c]
      BY <1>0, <2>1, <2>3, <2>5
    <3>. QED
      BY <2>2, <3>1 DEF Running
  <2>. QED
    BY <2>4, <2>5
<1>6. ASSUME NEW r \in Req, Request(r) \/ Strike(r) \/ Continue(r) \/ Fail(r),
             ~CancelEarly(r), ~InsertCase(r)
      PROVE  UNCHANGED <<cases, today>>
  BY <1>6 DEF Request, ReadDelete, ReadSet, ReadCancel, ReadAccept, ReadCreateOffer, ReadDeleteOffer,
     Call, Strike, Fail, Continue, CheckLive, SaveSupplier, FindOffers, RemoveOffers,
     RemoveSupplier, InsertOffer, CheckActivated, CheckActive, RemoveOffer
<1>7. UNCHANGED vars => UNCHANGED <<cases, today>>
  BY DEF vars
<1>. HIDE DEF Same
<1>8. Same
  <2>1. CASE UNCHANGED vars
    BY <1>1, <1>7, <2>1
  <2>2. CASE ~UNCHANGED vars
    BY <1>1, <1>2, <1>4, <1>5, <1>6, <2>2 DEF Next
  <2>. QED
    BY <2>1, <2>2
<1>. QED
  BY <1>8 DEF Same

\* Which supplies run after a step, and on which offers.
LEMMA SuppliesRun ==
  ASSUME Held, [Next]_vars, [NoneRevived]_vars, NEW c \in DOMAIN cases', Running(c)'
  PROVE  \/ c \in DOMAIN cases /\ Running(c) /\ cases'[c].offer = cases[c].offer
         \/ offers'[cases'[c].offer] = "live"
<1>1. CASE UNCHANGED vars
  BY <1>1 DEF vars, Running
<1>2. ASSUME NEW r \in Req, MoveCase(r), NoneRevived
      PROVE  \/ c \in DOMAIN cases /\ Running(c) /\ cases'[c].offer = cases[c].offer
             \/ offers'[cases'[c].offer] = "live"
  <2>1. PICK d \in DOMAIN cases : \E row \in Moved(cases[d]) : cases' = [cases EXCEPT ![d] = row]
    BY <1>2 DEF MoveCase
  <2>2. PICK row \in Moved(cases[d]) : cases' = [cases EXCEPT ![d] = row]
    BY <2>1
  <2>3. UNCHANGED <<today, offers>> /\ c \in DOMAIN cases
    BY <1>2, <2>2 DEF MoveCase
  <2>4. row.offer = cases[d].offer \/ row.offer \in LiveOffers
    BY DEF Moved
  <2>5. CASE Running(c)
    <3>1. cases'[c].offer = cases[c].offer \/ cases'[c].offer \in LiveOffers
      BY <2>2, <2>3, <2>4
    <3>. QED
      BY <2>3, <2>5, <3>1 DEF LiveOffers
  <2>6. CASE ~Running(c)
    BY <1>2, <2>3, <2>6 DEF NoneRevived
  <2>. QED
    BY <2>5, <2>6
<1>. QED
  BY <1>1, <1>2, RanBefore DEF Held

\* Who deletes the supplier, and that nothing is live by then.
LEMMA DeletesEmptied ==
  ASSUME Held, [Next]_vars, ~supplier.deleted, supplier'.deleted
  PROVE  LiveOffers = {}
<1>1. CASE \E r \in Req : RemoveSupplier(r)
  BY <1>1 DEF Held, Steady, Emptied, RemoveSupplier
<1>2. ASSUME NEW r \in Req, SaveSupplier(r) PROVE FALSE
  <2>1. ~req[r].row.deleted
    BY <1>2 DEF Held, Steady, Decided, SaveSupplier
  <2>. QED
    BY <1>2, <2>1 DEF SaveSupplier
<1>3. ASSUME NEW r \in Req, Request(r) \/ Strike(r) \/ Continue(r) \/ Fail(r),
             ~RemoveSupplier(r), ~SaveSupplier(r)
      PROVE  UNCHANGED supplier
  BY <1>3 DEF Request, ReadDelete, ReadSet, ReadCancel, ReadAccept, ReadCreateOffer, ReadDeleteOffer,
     Call, MoveCase, Strike, Fail, Continue, CheckLive, CancelEarly, FindOffers, RemoveOffers,
     InsertCase, InsertOffer, CheckActivated, CheckActive, RemoveOffer
<1>4. Tick \/ UNCHANGED vars => UNCHANGED supplier
  BY DEF Tick, vars
<1>. QED
  BY <1>1, <1>2, <1>3, <1>4 DEF Next

LEMMA SupplyNext ==
  ASSUME OneTask, Held, Supplied, [Next]_vars, [NoneRevived]_vars
  PROVE  /\ Supplied'
         /\ ~supplier.deleted /\ supplier'.deleted => \A c \in DOMAIN cases : ~Running(c)
<1>0. \A c \in DOMAIN cases : cases[c].offer \in Offer
  <2>1. \A c \in DOMAIN cases : cases[c] \in CaseRow
    BY DEF Held, TypeOK
  <2>. QED
    BY <2>1 DEF CaseRow
<1>1. ASSUME NEW c \in DOMAIN cases', Running(c)' PROVE offers'[cases'[c].offer] = "live"
  <2>1. CASE c \in DOMAIN cases /\ Running(c) /\ cases'[c].offer = cases[c].offer
    <3>1. offers[cases[c].offer] = "live"
      BY <2>1 DEF Supplied
    <3>2. offers'[cases[c].offer] \in {"live", "deleted"}
      BY <1>0, <2>1, <3>1, OffersStay
    <3>3. Outlives
      BY StepHeld
    <3>. QED
      BY <2>1, <3>1, <3>2, <3>3 DEF Outlives
  <2>. QED
    BY <1>1, <2>1, SuppliesRun
<1>2. ASSUME ~supplier.deleted, supplier'.deleted, NEW c \in DOMAIN cases, Running(c) PROVE FALSE
  BY <1>0, <1>2, DeletesEmptied DEF Supplied, LiveOffers
<1>3. Supplied'
  BY <1>1 DEF Supplied
<1>. QED
  BY <1>2, <1>3

(***************************************************************************)
(* As long as tasks do not overlap, no supplier is deleted while it        *)
(* supplies somebody, if no operator revives a supply under an offer that  *)
(* was deleted: prolonging or reactivating such a case is the one way in   *)
(* which getLiveUtilitiesForSupplier can miss it.                          *)
(***************************************************************************)
THEOREM DeletedServesNobody ==
  ASSUME OneTask PROVE Spec /\ [][NoneRevived]_vars => DeletedUnsupplied
<1>1. Init => Supplied
  <2>1. Init => DOMAIN cases = {}
    BY DEF Init
  <2>. QED
    BY <2>1 DEF Supplied
<1>2. Held /\ [Next]_vars => Held'
  BY StepHeld
<1>3. Held /\ Supplied /\ [Next]_vars /\ [NoneRevived]_vars =>
        /\ Supplied'
        /\ [~supplier.deleted /\ supplier'.deleted => \A c \in DOMAIN cases : ~Running(c)]_vars
  BY SupplyNext
<1>. QED
  BY InitHeld, <1>1, <1>2, <1>3, PTL DEF Spec, DeletedUnsupplied

-----------------------------------------------------------------------------
(* Tasks that overlap. *)

LEMMA OthersWait ==
  ASSUME NEW r \in Req, Request(r) \/ Strike(r) \/ Continue(r) \/ Fail(r), TypeOK,
         NEW q \in Req, q # r
  PROVE  req'[q] = req[q]
<1>0. req \in [Req -> Task]
  BY DEF TypeOK
<1>1. CASE Request(r)
  BY <1>0, <1>1 DEF Request, ReadDelete, ReadSet, ReadCancel, ReadAccept, ReadCreateOffer,
     ReadDeleteOffer, Call, MoveCase
<1>2. CASE Strike(r) \/ Fail(r)
  BY <1>0, <1>2 DEF Strike, Fail, Finish
<1>3. CASE CheckLive(r) \/ FindOffers(r)
  <2>1. CASE CheckLive(r)
    BY <1>0, <2>1 DEF CheckLive, Goto, Finish
  <2>2. CASE FindOffers(r)
    BY <1>0, <2>2 DEF FindOffers
  <2>. QED
    BY <1>3, <2>1, <2>2
<1>4. CASE \/ SaveSupplier(r) \/ CancelEarly(r) \/ RemoveOffers(r) \/ RemoveSupplier(r)
           \/ InsertCase(r) \/ InsertOffer(r) \/ CheckActivated(r) \/ CheckActive(r) \/ RemoveOffer(r)
  <2>1. Finish(r) \/ \E p : Goto(r, p)
    BY <1>4 DEF SaveSupplier, CancelEarly, RemoveOffers, RemoveSupplier, InsertCase, InsertOffer,
       CheckActivated, CheckActive, RemoveOffer
  <2>. QED
    BY <1>0, <2>1 DEF Goto, Finish
<1>. QED
  BY <1>1, <1>2, <1>3, <1>4 DEF Continue

\* From which await to which.
Hops ==
  {<<"live", "findOffers">>, <<"live", "save">>, <<"save", "cancelEarly">>,
   <<"findOffers", "removeSupplier">>, <<"findOffers", "removeOffers">>,
   <<"removeOffers", "removeSupplier">>, <<"activated", "active">>, <<"active", "removeOffer">>}

\* A task that goes on does so along them.
LEMMA ContinueHops ==
  ASSUME TypeOK, NEW r \in Req, Continue(r)
  PROVE  \/ req'[r] = Idle
         \/ req'[r].pc = "save"
         \/ /\ <<req[r].pc, req'[r].pc>> \in Hops
            /\ ~FindOffers(r) => req'[r].offers = req[r].offers
<1>0. req \in [Req -> Task] /\ req[r] \in Task
  BY DEF TypeOK
<1>1. ASSUME NEW p, Goto(r, p), <<req[r].pc, p>> \in Hops
      PROVE  <<req[r].pc, req'[r].pc>> \in Hops /\ req'[r].offers = req[r].offers
  BY <1>0, <1>1 DEF Goto, Task
<1>2. ASSUME Continue(r), ~CheckLive(r), ~FindOffers(r), ~Finish(r)
      PROVE  \E p : Goto(r, p) /\ <<req[r].pc, p>> \in Hops
  BY <1>2 DEF Continue, SaveSupplier, CancelEarly, RemoveOffers, RemoveSupplier, InsertCase,
     InsertOffer, CheckActivated, CheckActive, RemoveOffer, At, Hops
<1>3. CASE CheckLive(r)
  <2>1. CASE Goto(r, "findOffers")
    BY <1>1, <1>3, <2>1 DEF CheckLive, At, Hops, Continue
  <2>2. CASE req' = [req EXCEPT ![r].pc = "save",
                                ![r].row = [@ EXCEPT !.status = "pending_deletion",
                                                     !.due = Latest]]
    BY <1>0, <2>2 DEF Task
  <2>3. CASE Finish(r)
    BY <1>0, <2>3 DEF Finish
  <2>. QED
    BY <1>3, <2>1, <2>2, <2>3 DEF CheckLive
<1>4. CASE FindOffers(r)
  <2>1. PICK p \in {"removeSupplier", "removeOffers"} :
          req' = [req EXCEPT ![r].pc = p, ![r].offers = LiveOffers]
    BY <1>4 DEF FindOffers
  <2>2. req'[r].pc = p
    BY <1>0, <2>1 DEF Task
  <2>. QED
    BY <1>4, <2>1, <2>2 DEF FindOffers, At, Hops, Continue
<1>5. Finish(r) => req'[r] = Idle
  BY <1>0 DEF Finish
<1>. QED
  BY <1>1, <1>2, <1>3, <1>4, <1>5

LEMMA Hop ==
  ASSUME TypeOK, NEW r \in Req, Request(r) \/ Strike(r) \/ Continue(r) \/ Fail(r)
  PROVE  \/ req'[r] = Idle
         \/ req'[r].pc \in {"live", "save", "insertCase", "insertOffer", "activated"}
         \/ /\ Continue(r) /\ <<req[r].pc, req'[r].pc>> \in Hops
            /\ ~FindOffers(r) => req'[r].offers = req[r].offers
<1>0. req \in [Req -> Task] /\ req[r] \in Task
  BY DEF TypeOK
<1>1. CASE Request(r)
  <2>1. CASE MoveCase(r)
    BY <2>1 DEF MoveCase
  <2>2. ASSUME NEW op, NEW pc \in {"live", "save", "insertCase", "insertOffer", "activated"},
               NEW row, NEW os, Call(r, op, pc, row, os)
        PROVE  req'[r].pc \in {"live", "save", "insertCase", "insertOffer", "activated"}
    BY <1>0, <2>2 DEF Call
  <2>3. CASE ReadDelete(r) \/ ReadCancel(r)
    BY <2>2, <2>3 DEF ReadDelete, ReadCancel
  <2>4. CASE ReadSet(r) \/ ReadAccept(r)
    BY <2>2, <2>4 DEF ReadSet, ReadAccept
  <2>5. CASE ReadCreateOffer(r) \/ ReadDeleteOffer(r)
    BY <2>2, <2>5 DEF ReadCreateOffer, ReadDeleteOffer
  <2>. QED
    BY <1>1, <2>1, <2>3, <2>4, <2>5 DEF Request
<1>2. CASE Strike(r)
  BY <1>0, <1>2 DEF Strike
<1>3. CASE Fail(r)
  BY <1>0, <1>3 DEF Fail, Finish
<1>. QED
  BY <1>1, <1>2, <1>3, ContinueHops

-----------------------------------------------------------------------------
(* Supplies that overlapping tasks decide about. *)

Checked(r) ==
  /\ At(r, "findOffers") => LiveUtilities = {}
  /\ At(r, "removeOffers") =>
       \A c \in DOMAIN cases : cases[c].offer \in req[r].offers => ~Running(c)
  /\ Unused(r)

Known ==
  /\ \A c \in DOMAIN cases : cases[c].offer \in Offer /\ offers[cases[c].offer] # "absent"
  /\ \A r \in Req : At(r, "insertCase") => \A o \in req[r].offers : offers[o] # "absent"

\* What one step does to an offer.
LEMMA OfferMoves ==
  ASSUME TypeOK, [Next]_vars, [NewOffers]_vars, NEW o \in Offer
  PROVE  \/ offers'[o] = offers[o]
         \/ /\ offers'[o] = "deleted"
            /\ \E r \in Req : (RemoveOffers(r) \/ RemoveOffer(r)) /\ o \in req[r].offers
         \/ (offers[o] = "absent" /\ offers'[o] = "live")
<1>0. offers \in [Offer -> {"absent", "live", "deleted"}]
  BY DEF TypeOK
<1>1. ASSUME NEW r \in Req, Request(r) \/ Strike(r) \/ Fail(r) PROVE UNCHANGED offers
  BY <1>1 DEF Request, ReadDelete, ReadSet, ReadCancel, ReadAccept, ReadCreateOffer,
     ReadDeleteOffer, Call, MoveCase, Strike, Fail
<1>2. ASSUME NEW r \in Req, Continue(r), ~RemoveOffers(r), ~RemoveOffer(r), ~InsertOffer(r)
      PROVE  UNCHANGED offers
  BY <1>2 DEF Continue, CheckLive, SaveSupplier, CancelEarly, FindOffers, RemoveSupplier,
     InsertCase, CheckActivated, CheckActive
<1>3. ASSUME NEW r \in Req, RemoveOffers(r) \/ RemoveOffer(r)
      PROVE  offers'[o] = IF o \in req[r].offers THEN "deleted" ELSE offers[o]
  BY <1>3 DEF RemoveOffers, RemoveOffer
<1>4. ASSUME NEW r \in Req, InsertOffer(r), NewOffers
      PROVE  offers'[o] = offers[o] \/ (offers[o] = "absent" /\ offers'[o] = "live")
  BY <1>4 DEF InsertOffer, NewOffers
<1>5. Tick \/ UNCHANGED vars => UNCHANGED offers
  BY DEF Tick, vars
<1>6. CASE UNCHANGED vars
  BY <1>5, <1>6
<1>7. CASE ~UNCHANGED vars
  BY <1>1, <1>2, <1>3, <1>4, <1>5, <1>7 DEF Next
<1>. QED
  BY <1>6, <1>7

\* Nothing starts to run while a deletion decides.
LEMMA Calm ==
  ASSUME TypeOK, [Next]_vars, [MovesStayClear]_vars, NEW s \in Req, req[s].pc \in Deciding,
         NEW c \in DOMAIN cases', Running(c)'
  PROVE  /\ c \in DOMAIN cases /\ Running(c)
         /\ cases'[c].offer = cases[c].offer /\ cases'[c].status = cases[c].status
<1>1. CASE \A r \in Req : ~MoveCase(r)
  BY <1>1, RanBefore
<1>2. ASSUME NEW r \in Req, MoveCase(r), MovesStayClear
      PROVE  /\ c \in DOMAIN cases /\ Running(c)
             /\ cases'[c].offer = cases[c].offer /\ cases'[c].status = cases[c].status
  <2>1. c \in DOMAIN cases
    BY <1>2, MovesCase
  <2>. QED
    BY <1>2, <2>1 DEF MovesStayClear
<1>3. CASE UNCHANGED vars
  BY <1>3 DEF vars, Running
<1>. QED
  BY <1>1, <1>2, <1>3

LEMMA CheckedStays ==
  ASSUME TypeOK, [Next]_vars, [MovesStayClear]_vars, [NewOffers]_vars, Known,
         NEW s \in Req, req'[s] = req[s], Checked(s)
  PROVE  Checked(s)'
<1>0. req[s].pc \in Deciding => \A c \in DOMAIN cases' : Running(c)' =>
         /\ c \in DOMAIN cases /\ Running(c)
         /\ cases'[c].offer = cases[c].offer /\ cases'[c].status = cases[c].status
  BY Calm
<1>1. ASSUME At(s, "findOffers")', NEW c \in LiveUtilities' PROVE FALSE
  <2>1. At(s, "findOffers") /\ req[s].pc \in Deciding
    BY <1>1 DEF At, Deciding
  <2>2. c \in DOMAIN cases' /\ Running(c)' /\ cases'[c].offer \in Offer
        /\ offers'[cases'[c].offer] = "live"
    BY <1>1 DEF LiveUtilities, LiveOffers
  <2>3. c \in DOMAIN cases /\ Running(c) /\ cases'[c].offer = cases[c].offer
    BY <1>0, <2>1, <2>2
  <2>4. PICK o \in Offer : o = cases[c].offer
    BY <2>2, <2>3
  <2>5. offers[o] # "absent"
    BY <2>3, <2>4 DEF Known
  <2>6. offers'[o] = offers[o]
    BY <2>2, <2>3, <2>4, <2>5, OfferMoves
  <2>. QED
    BY <2>1, <2>2, <2>3, <2>4, <2>6 DEF Checked, LiveUtilities, LiveOffers
<1>2. At(s, "removeOffers")' =>
        \A c \in DOMAIN cases' : cases'[c].offer \in req'[s].offers => ~Running(c)'
  BY <1>0 DEF At, Deciding, Checked
<1>3. At(s, "active")' =>
        \A c \in DOMAIN cases' :
          cases'[c].offer \in req'[s].offers /\ cases'[c].status = "activated" => ~Running(c)'
  BY <1>0 DEF At, Deciding, Checked, Unused
<1>4. At(s, "removeOffer")' =>
        \A c \in DOMAIN cases' : cases'[c].offer \in req'[s].offers => ~Running(c)'
  BY <1>0 DEF At, Deciding, Checked, Unused
<1>. QED
  BY <1>1, <1>2, <1>3, <1>4 DEF Checked, Unused

\* A task that goes on decides on the rows of that moment.
LEMMA CheckedGoes ==
  ASSUME TypeOK, NEW r \in Req, Request(r) \/ Strike(r) \/ Continue(r) \/ Fail(r), ~MoveCase(r),
         Checked(r)
  PROVE  Checked(r)'
<1>1. CASE req'[r] = Idle \/ req'[r].pc \in {"live", "save", "insertCase", "insertOffer", "activated"}
  BY <1>1, IdleOK DEF Checked, Unused, At
<1>2. CASE /\ Continue(r) /\ <<req[r].pc, req'[r].pc>> \in Hops
           /\ ~FindOffers(r) => req'[r].offers = req[r].offers
  <2>1. ASSUME At(r, "findOffers")' PROVE LiveUtilities' = {}
    <3>1. CheckLive(r) /\ ~Finish(r)
      <4>1. At(r, "live")
        BY <1>2, <2>1 DEF Hops, At
      <4>2. CheckLive(r)
        BY <1>2, <4>1 DEF Continue, At, SaveSupplier, CancelEarly, FindOffers, RemoveOffers,
           RemoveSupplier, InsertCase, InsertOffer, CheckActivated, CheckActive, RemoveOffer
      <4>. QED
        BY <2>1, <4>2, Ends, IdleOK DEF At
    <3>2. UNCHANGED <<offers, cases, today>>
      BY <3>1 DEF CheckLive
    <3>3. req'[r].pc # "save"
      BY <2>1 DEF At
    <3>4. LiveUtilities = {}
      <4>1. req' = [req EXCEPT ![r].pc = "save",
                               ![r].row = [@ EXCEPT !.status = "pending_deletion",
                                                    !.due = Latest]]
              => req'[r].pc = "save"
        BY DEF TypeOK, Task
      <4>. QED
        BY <3>1, <3>3, <4>1 DEF CheckLive
    <3>. QED
      BY <3>2, <3>4 DEF LiveUtilities, Running, LiveOffers
  <2>2. ASSUME At(r, "removeOffers")', NEW c \in DOMAIN cases', cases'[c].offer \in req'[r].offers
        PROVE  ~Running(c)'
    <3>1. At(r, "findOffers")
      BY <1>2, <2>2 DEF Hops, At
    <3>2. FindOffers(r)
      BY <1>2, <3>1 DEF Continue, At, SaveSupplier, CancelEarly, CheckLive, RemoveOffers,
         RemoveSupplier, InsertCase, InsertOffer, CheckActivated, CheckActive, RemoveOffer
    <3>3. UNCHANGED <<offers, cases, today>> /\ req'[r].offers = LiveOffers
      BY <3>2 DEF FindOffers, TypeOK, Task
    <3>. QED
      BY <2>2, <3>1, <3>3 DEF Checked, LiveUtilities, Running
  <2>3. ASSUME At(r, "active")', NEW c \in DOMAIN cases', cases'[c].offer \in req'[r].offers,
               cases'[c].status = "activated"
        PROVE  ~Running(c)'
    <3>1. At(r, "activated")
      BY <1>2, <2>3 DEF Hops, At
    <3>2. CheckActivated(r) /\ ~FindOffers(r)
      BY <1>2, <3>1 DEF Continue, At, SaveSupplier, CancelEarly, CheckLive, FindOffers,
         RemoveOffers, RemoveSupplier, InsertCase, InsertOffer, CheckActive, RemoveOffer
    <3>3. UNCHANGED <<cases, today>> /\ req'[r].offers = req[r].offers
      BY <1>2, <3>2 DEF CheckActivated
    <3>4. ~Finish(r)
      BY <2>3, Ends, IdleOK DEF At
    <3>. QED
      BY <2>3, <3>2, <3>3, <3>4 DEF CheckActivated, Running
  <2>4. ASSUME At(r, "removeOffer")', NEW c \in DOMAIN cases', cases'[c].offer \in req'[r].offers
        PROVE  ~Running(c)'
    <3>1. At(r, "active")
      BY <1>2, <2>4 DEF Hops, At
    <3>2. CheckActive(r) /\ ~FindOffers(r)
      BY <1>2, <3>1 DEF Continue, At, SaveSupplier, CancelEarly, CheckLive, FindOffers,
         RemoveOffers, RemoveSupplier, InsertCase, InsertOffer, CheckActivated, RemoveOffer
    <3>3. UNCHANGED <<cases, today>> /\ req'[r].offers = req[r].offers
      BY <1>2, <3>2 DEF CheckActive
    <3>4. ~Finish(r)
      BY <2>4, Ends, IdleOK DEF At
    <3>5. cases[c].status \notin Early \cup {"contract_sent", "awaiting_activation"}
      BY <2>4, <3>2, <3>3, <3>4 DEF CheckActive
    <3>. QED
      BY <2>4, <3>1, <3>3, <3>5 DEF Checked, Unused, Running, LiveUtility
  <2>. QED
    BY <2>1, <2>2, <2>3, <2>4 DEF Checked, Unused
<1>. QED
  BY <1>1, <1>2, Hop

LEMMA CheckedStep ==
  ASSUME TypeOK, [Next]_vars, [MovesStayClear]_vars, [NewOffers]_vars, Known,
         \A r \in Req : Checked(r)
  PROVE  (\A r \in Req : Checked(r))'
<1>1. ASSUME NEW s \in Req, req'[s] = req[s] PROVE Checked(s)'
  BY <1>1, CheckedStays
<1>2. CASE Tick \/ UNCHANGED vars
  BY <1>1, <1>2 DEF Tick, vars
<1>3. ASSUME NEW r \in Req, Request(r) \/ Strike(r) \/ Continue(r) \/ Fail(r)
      PROVE  (\A s \in Req : Checked(s))'
  <2>1. ASSUME NEW s \in Req, s # r PROVE Checked(s)'
    BY <1>1, <1>3, <2>1, OthersWait
  <2>2. CASE MoveCase(r)
    BY <1>1, <2>1, <2>2 DEF MoveCase
  <2>3. CASE ~MoveCase(r)
    BY <1>3, <2>1, <2>3, CheckedGoes
  <2>. QED
    BY <2>2, <2>3
<1>. QED
  BY <1>2, <1>3 DEF Next

LEMMA KnownStep ==
  ASSUME TypeOK, [Next]_vars, [NewOffers]_vars, Known
  PROVE  Known'
<1>0. /\ cases \in Seq(CaseRow) /\ (\A c \in DOMAIN cases : cases[c] \in CaseRow)
      /\ req \in [Req -> Task]
  BY DEF TypeOK
<1>1. ASSUME NEW o \in Offer, offers[o] # "absent" PROVE offers'[o] # "absent"
  BY <1>1, OfferMoves
<1>2. ASSUME NEW s \in Req, At(s, "insertCase"), NEW o \in req[s].offers
      PROVE  o \in Offer /\ offers[o] # "absent"
  BY <1>0, <1>2 DEF Known, Task
<1>. DEFINE Of(c) == cases'[c].offer \in Offer /\ offers[cases'[c].offer] # "absent"
<1>3. ASSUME UNCHANGED cases PROVE \A c \in DOMAIN cases' : Of(c)
  BY <1>3 DEF Known
<1>4. ASSUME NEW r \in Req, MoveCase(r) PROVE \A c \in DOMAIN cases' : Of(c)
  <2>1. PICK c \in DOMAIN cases : \E row \in Moved(cases[c]) : cases' = [cases EXCEPT ![c] = row]
    BY <1>4 DEF MoveCase
  <2>2. PICK row \in Moved(cases[c]) : cases' = [cases EXCEPT ![c] = row]
    BY <2>1
  <2>3. row.offer = cases[c].offer \/ row.offer \in LiveOffers
    BY DEF Moved
  <2>4. row.offer \in Offer /\ offers[row.offer] # "absent"
    BY <2>3 DEF Known, LiveOffers
  <2>. QED
    BY <2>2, <2>4 DEF Known
<1>5. ASSUME NEW r \in Req, CancelEarly(r) PROVE \A c \in DOMAIN cases' : Of(c)
  <2>1. cases' = [c \in DOMAIN cases |->
                    IF cases[c].status \in Early
                    THEN [cases[c] EXCEPT !.status = "cancelled"] ELSE cases[c]]
    BY <1>5 DEF CancelEarly
  <2>2. ASSUME NEW c \in DOMAIN cases PROVE cases'[c].offer = cases[c].offer
    <3>1. PICK row \in CaseRow : row = cases[c]
      BY <1>0
    <3>2. [row EXCEPT !.status = "cancelled"].offer = row.offer
      BY DEF CaseRow
    <3>. QED
      BY <2>1, <3>1, <3>2
  <2>. QED
    BY <2>1, <2>2 DEF Known
<1>6. ASSUME NEW r \in Req, InsertCase(r) PROVE \A c \in DOMAIN cases' : Of(c)
  <2>1. PICK o \in req[r].offers :
          cases' = Append(cases, [offer |-> o, status |-> "new", exp |-> NoDay])
    BY <1>6 DEF InsertCase
  <2>2. o \in Offer /\ offers[o] # "absent"
    BY <1>2, <1>6 DEF InsertCase
  <2>3. PICK row : row = [offer |-> o, status |-> "new", exp |-> NoDay]
    OBVIOUS
  <2>4. ASSUME NEW c \in DOMAIN cases' PROVE Of(c)
    <3>1. CASE c = Len(cases) + 1
      BY <1>0, <2>1, <2>2, <2>3, <3>1
    <3>2. CASE c # Len(cases) + 1
      <4>1. c \in DOMAIN cases /\ cases'[c] = cases[c]
        BY <1>0, <2>1, <2>3, <3>2
      <4>. QED
        BY <4>1 DEF Known
    <3>. QED
      BY <3>1, <3>2
  <2>. QED
    BY <2>4
<1>7. ASSUME NEW r \in Req, Request(r) \/ Strike(r) \/ Continue(r) \/ Fail(r),
             ~MoveCase(r), ~CancelEarly(r), ~InsertCase(r)
      PROVE  UNCHANGED cases
  BY <1>7 DEF Request, ReadDelete, ReadSet, ReadCancel, ReadAccept, ReadCreateOffer, ReadDeleteOffer,
     Call, Strike, Fail, Continue, CheckLive, SaveSupplier, FindOffers, RemoveOffers,
     RemoveSupplier, InsertOffer, CheckActivated, CheckActive, RemoveOffer
<1>. HIDE DEF Of
<1>8. \A c \in DOMAIN cases' : Of(c)
  <2>1. Tick \/ UNCHANGED vars => UNCHANGED cases
    BY DEF Tick, vars
  <2>. QED
    BY <1>3, <1>4, <1>5, <1>6, <1>7, <2>1 DEF Next
<1>9. ASSUME NEW s \in Req, At(s, "insertCase")', NEW o \in req'[s].offers
      PROVE  o \in Offer /\ offers[o] # "absent"
  <2>1. CASE req'[s] = req[s]
    BY <1>2, <1>9, <2>1 DEF At
  <2>2. CASE req'[s] # req[s]
    <3>1. Request(s) \/ Strike(s) \/ Continue(s) \/ Fail(s)
      <4>1. Tick \/ UNCHANGED vars => UNCHANGED req
        BY DEF Tick, vars
      <4>. QED
        BY <2>2, <4>1, OthersWait DEF Next
    <3>2. ~(Strike(s) \/ Fail(s))
      BY <1>0, <1>9, IdleOK DEF Strike, Fail, Finish, At
    <3>3. ~Continue(s)
      <4>1. <<req[s].pc, "insertCase">> \notin Hops
        BY DEF Hops
      <4>2. ASSUME Continue(s) PROVE req'[s] = Idle \/ <<req[s].pc, req'[s].pc>> \in Hops
                                     \/ req'[s].pc = "save"
        BY <4>2, ContinueHops
      <4>. QED
        BY <1>9, <4>1, <4>2, IdleOK DEF At
    <3>4. ReadAccept(s)
      BY <1>0, <1>9, <2>2, <3>1, <3>2, <3>3 DEF Request, ReadDelete, ReadSet, ReadCancel,
         ReadCreateOffer, ReadDeleteOffer, Call, MoveCase, At
    <3>5. PICK p \in LiveOffers : Call(s, "accept", "insertCase", supplier, {p})
      BY <3>4 DEF ReadAccept
    <3>6. req'[s].offers = {p}
      BY <1>0, <3>5 DEF Call
    <3>. QED
      BY <1>9, <3>6 DEF LiveOffers
  <2>. QED
    BY <2>1, <2>2
<1>. QED
  BY <1>1, <1>8, <1>9 DEF Known, Of

(***************************************************************************)
(* However many tasks overlap, no offer leaves the catalogue while         *)
(* somebody is supplied under it, if an insert makes a row of its own and  *)
(* no operator starts a supply, or moves one to another offer or status,   *)
(* between the check of a deletion and its removal: those windows of       *)
(* deleteSupplier and deleteOffer, and no others, are open.                *)
(***************************************************************************)
THEOREM SupplyOutlivedApart ==
  Spec /\ [][MovesStayClear]_vars /\ [][NewOffers]_vars => OffersOutliveSupply
<1>. DEFINE Safe == Known /\ \A r \in Req : Checked(r)
            Kept == \A c \in DOMAIN cases :
                      offers[cases[c].offer] = "live" /\ offers'[cases[c].offer] = "deleted"
                      => ~Running(c)
<1>1. Init => Safe
  <2>1. Init => DOMAIN cases = {}
    BY DEF Init
  <2>. QED
    BY <2>1, IdleOK DEF Init, Known, Checked, Unused, At
<1>2. TypeOK /\ Safe /\ [Next]_vars /\ [MovesStayClear]_vars /\ [NewOffers]_vars => Safe'
  BY CheckedStep, KnownStep
<1>3. TypeOK /\ Safe /\ [Next]_vars /\ [NewOffers]_vars => [Kept]_vars
  <2>. SUFFICES ASSUME TypeOK, Safe, [Next]_vars, [NewOffers]_vars, NEW c \in DOMAIN cases,
                       offers[cases[c].offer] = "live", offers'[cases[c].offer] = "deleted"
                PROVE  ~Running(c)
    OBVIOUS
  <2>1. PICK o \in Offer : o = cases[c].offer
    BY DEF Known
  <2>2. PICK r \in Req : (RemoveOffers(r) \/ RemoveOffer(r)) /\ o \in req[r].offers
    BY <2>1, OfferMoves
  <2>. QED
    BY <2>1, <2>2 DEF Checked, Unused, RemoveOffers, RemoveOffer
<1>4. Spec => []TypeOK
  BY SupplierTyped
<1>. HIDE DEF Safe
<1>. QED
  BY <1>1, <1>2, <1>3, <1>4, PTL DEF Spec, OffersOutliveSupply

-----------------------------------------------------------------------------
(* Offers that overlapping tasks make and take. *)

Cleaning(r) ==
  /\ At(r, "removeOffers") => LiveOffers \subseteq req[r].offers
  /\ At(r, "removeSupplier") => LiveOffers = {}

LEMMA LiveFade ==
  ASSUME TypeOK, [Next]_vars, \A r \in Req : ~InsertOffer(r)
  PROVE  LiveOffers' \subseteq LiveOffers
<1>0. offers \in [Offer -> {"absent", "live", "deleted"}]
  BY DEF TypeOK
<1>1. ASSUME NEW r \in Req, Request(r) \/ Strike(r) \/ Fail(r) PROVE UNCHANGED offers
  BY <1>1 DEF Request, ReadDelete, ReadSet, ReadCancel, ReadAccept, ReadCreateOffer,
     ReadDeleteOffer, Call, MoveCase, Strike, Fail
<1>2. ASSUME NEW r \in Req, Continue(r), ~RemoveOffers(r), ~RemoveOffer(r), ~InsertOffer(r)
      PROVE  UNCHANGED offers
  BY <1>2 DEF Continue, CheckLive, SaveSupplier, CancelEarly, FindOffers, RemoveSupplier,
     InsertCase, CheckActivated, CheckActive
<1>3. ASSUME NEW r \in Req, RemoveOffers(r) \/ RemoveOffer(r)
      PROVE  LiveOffers' \subseteq LiveOffers
  BY <1>0, <1>3 DEF RemoveOffers, RemoveOffer, LiveOffers
<1>4. Tick \/ UNCHANGED vars => UNCHANGED offers
  BY DEF Tick, vars
<1>5. UNCHANGED offers => LiveOffers' \subseteq LiveOffers
  BY DEF LiveOffers
<1>. QED
  BY <1>1, <1>2, <1>3, <1>4, <1>5 DEF Next

\* What deletes a supplier, and what was undone of it.
LEMMA DeletedBy ==
  ASSUME TypeOK, [Next]_vars, supplier'.deleted, ~supplier.deleted
  PROVE  \E r \in Req : RemoveSupplier(r) \/ SaveSupplier(r)
<1>1. ASSUME NEW r \in Req, Request(r) \/ Strike(r) \/ Continue(r) \/ Fail(r),
             ~RemoveSupplier(r), ~SaveSupplier(r)
      PROVE  UNCHANGED supplier
  BY <1>1 DEF Request, ReadDelete, ReadSet, ReadCancel, ReadAccept, ReadCreateOffer, ReadDeleteOffer,
     Call, MoveCase, Strike, Fail, Continue, CheckLive, CancelEarly, FindOffers, RemoveOffers,
     InsertCase, InsertOffer, CheckActivated, CheckActive, RemoveOffer
<1>2. Tick \/ UNCHANGED vars => UNCHANGED supplier
  BY DEF Tick, vars
<1>. QED
  BY <1>1, <1>2 DEF Next

Gone == supplier.deleted => LiveOffers = {}
OfNoneDeleted(r) == req[r].pc \in {"live", "save"} => ~req[r].row.deleted

LEMMA OfNoneDeletedStep ==
  ASSUME TypeOK, [Next]_vars, \A r \in Req : OfNoneDeleted(r), NEW s \in Req
  PROVE  OfNoneDeleted(s)'
<1>0. req \in [Req -> Task] /\ supplier \in SupplierRow
  BY DEF TypeOK
<1>1. CASE req'[s] = req[s]
  BY <1>1 DEF OfNoneDeleted
<1>2. CASE Request(s) /\ ~MoveCase(s)
  <2>1. Loaded(s)' /\ Decided(s)' /\ UNCHANGED supplier
    BY <1>2, Requests DEF Steady
  <2>. QED
    BY <2>1 DEF Loaded, Decided, OfNoneDeleted, At
<1>3. CASE Strike(s)
  <2>1. Loaded(s)' /\ Decided(s)' /\ UNCHANGED supplier
    BY <1>3, Strikes DEF Steady
  <2>. QED
    BY <2>1 DEF Loaded, Decided, OfNoneDeleted, At
<1>4. CASE CheckLive(s)
  <2>1. CASE Finish(s)
    BY <2>1, Ends, IdleOK DEF OfNoneDeleted
  <2>2. CASE Goto(s, "findOffers")
    BY <2>2, Goes DEF OfNoneDeleted
  <2>3. CASE req' = [req EXCEPT ![s].pc = "save",
                                ![s].row = [@ EXCEPT !.status = "pending_deletion",
                                                     !.due = Latest]]
    <3>1. PICK row \in SupplierRow : row = req[s].row
      BY <1>0 DEF Task
    <3>2. req'[s].row = [row EXCEPT !.status = "pending_deletion", !.due = Latest]
      BY <1>0, <2>3, <3>1 DEF Task
    <3>3. req'[s].row.deleted = row.deleted
      BY <3>2 DEF SupplierRow
    <3>. QED
      BY <1>4, <3>1, <3>3 DEF OfNoneDeleted, CheckLive, At
  <2>. QED
    BY <1>4, <2>1, <2>2, <2>3 DEF CheckLive
<1>5. CASE (Continue(s) /\ ~CheckLive(s)) \/ Fail(s)
  <2>1. req'[s] = Idle \/ req'[s].pc \notin {"live", "save"}
    <3>1. CASE Finish(s)
      BY <3>1, Ends
    <3>2. CASE FindOffers(s)
      BY <1>0, <3>2 DEF FindOffers, Task
    <3>3. ASSUME NEW pc \in {"cancelEarly", "removeSupplier", "active", "removeOffer"}, Goto(s, pc)
          PROVE  req'[s].pc \notin {"live", "save"}
      BY <3>3, Goes
    <3>. QED
      BY <1>5, <3>1, <3>2, <3>3 DEF Continue, SaveSupplier, CancelEarly, RemoveOffers,
         RemoveSupplier, InsertCase, InsertOffer, CheckActivated, CheckActive, RemoveOffer, Fail
  <2>. QED
    BY <2>1, IdleOK DEF OfNoneDeleted
<1>6. CASE MoveCase(s) \/ Tick \/ UNCHANGED vars
  BY <1>1, <1>6 DEF MoveCase, Tick, vars
<1>. QED
  BY <1>1, <1>2, <1>3, <1>4, <1>5, <1>6, OthersWait DEF Next

\* Who inserts a case saw a supplier that was to stay; who inserts an offer, one that was there.
Informed(r) ==
  /\ At(r, "insertCase") => ~(req[r].row.status = "pending_deletion" /\ ~req[r].row.deleted)
  /\ At(r, "insertOffer") => ~req[r].row.deleted

LEMMA InformedStep ==
  ASSUME TypeOK, [Next]_vars, \A r \in Req : Informed(r), NEW s \in Req
  PROVE  Informed(s)'
<1>0. req \in [Req -> Task]
  BY DEF TypeOK
<1>1. CASE req'[s] = req[s]
  BY <1>1 DEF Informed, At
<1>2. CASE ReadAccept(s)
  <2>1. ~Pending /\ req'[s].pc = "insertCase" /\ req'[s].row = supplier
    BY <1>0, <1>2 DEF ReadAccept, Call
  <2>. QED
    BY <2>1 DEF Informed, At, Pending
<1>3. CASE ReadCreateOffer(s)
  <2>1. ~supplier.deleted /\ req'[s].pc = "insertOffer" /\ req'[s].row = supplier
    BY <1>0, <1>3 DEF ReadCreateOffer, Call
  <2>. QED
    BY <2>1 DEF Informed, At
<1>4. CASE Continue(s)
  <2>1. \A p : <<p, "insertCase">> \notin Hops /\ <<p, "insertOffer">> \notin Hops
    BY DEF Hops
  <2>. QED
    BY <1>4, <2>1, ContinueHops, IdleOK DEF Informed, At
<1>5. CASE Fail(s) \/ Strike(s) \/ ReadDelete(s) \/ ReadSet(s) \/ ReadCancel(s) \/ ReadDeleteOffer(s)
  <2>1. req'[s].pc \in {"idle", "live", "save", "activated"}
    BY <1>0, <1>5, IdleOK DEF Fail, Finish, Strike, ReadDelete, ReadSet, ReadCancel,
       ReadDeleteOffer, Call
  <2>. QED
    BY <2>1 DEF Informed, At
<1>6. CASE MoveCase(s) \/ Tick \/ UNCHANGED vars
  BY <1>1, <1>6 DEF MoveCase, Tick, vars
<1>. QED
  BY <1>1, <1>2, <1>3, <1>4, <1>5, <1>6, OthersWait DEF Next, Request

LEMMA CleaningStep ==
  ASSUME TypeOK, [Next]_vars, [OffersMadeApart]_vars, \A r \in Req : Cleaning(r), NEW s \in Req
  PROVE  Cleaning(s)'
<1>0. req \in [Req -> Task] /\ offers \in [Offer -> {"absent", "live", "deleted"}]
  BY DEF TypeOK
<1>1. CASE req'[s] = req[s]
  <2>1. CASE \A r \in Req : ~InsertOffer(r)
    BY <1>1, <2>1, LiveFade DEF Cleaning, At
  <2>2. CASE UNCHANGED vars
    BY <2>2 DEF Cleaning, At, LiveOffers, vars
  <2>3. ASSUME NEW r \in Req, InsertOffer(r), OffersMadeApart PROVE Cleaning(s)'
    BY <1>1, <2>3 DEF OffersMadeApart, Cleaning, At
  <2>. QED
    BY <2>1, <2>2, <2>3
<1>2. CASE FindOffers(s)
  <2>1. PICK p : /\ p = IF LiveOffers = {} THEN "removeSupplier" ELSE "removeOffers"
                 /\ req' = [req EXCEPT ![s].pc = p, ![s].offers = LiveOffers]
                 /\ UNCHANGED offers
    BY <1>2 DEF FindOffers
  <2>2. req'[s].pc = p /\ req'[s].offers = LiveOffers
    BY <1>0, <2>1 DEF Task
  <2>. QED
    BY <2>1, <2>2 DEF Cleaning, At, LiveOffers
<1>3. CASE RemoveOffers(s)
  <2>1. LiveOffers \subseteq req[s].offers
    BY <1>3 DEF Cleaning, RemoveOffers
  <2>2. LiveOffers' = {}
    BY <1>0, <1>3, <2>1 DEF RemoveOffers, LiveOffers
  <2>3. req'[s].pc = "removeSupplier"
    BY <1>3, Goes DEF RemoveOffers
  <2>. QED
    BY <2>2, <2>3 DEF Cleaning, At
<1>4. CASE Tick \/ UNCHANGED vars \/ MoveCase(s)
  BY <1>1, <1>4 DEF Tick, vars, MoveCase
<1>5. CASE /\ Request(s) \/ Strike(s) \/ Continue(s) \/ Fail(s)
           /\ ~FindOffers(s) /\ ~RemoveOffers(s) /\ ~MoveCase(s)
  <2>1. CASE req'[s] = Idle \/ req'[s].pc \in {"live", "save", "insertCase", "insertOffer", "activated"}
    BY <2>1, IdleOK DEF Cleaning, At
  <2>2. CASE Continue(s) /\ <<req[s].pc, req'[s].pc>> \in Hops
    <3>1. req[s].pc \notin {"findOffers", "removeOffers"}
      BY <1>5, <2>2 DEF Continue, At, SaveSupplier, CancelEarly, CheckLive,
         RemoveSupplier, InsertCase, InsertOffer, CheckActivated, CheckActive, RemoveOffer
    <3>. QED
      BY <2>2, <3>1 DEF Cleaning, At, Hops
  <2>. QED
    BY <1>5, <2>1, <2>2, Hop
<1>. QED
  BY <1>1, <1>2, <1>3, <1>4, <1>5, OthersWait DEF Next

(***************************************************************************)
(* However many tasks overlap, and wherever they die, a deleted supplier   *)
(* leaves no offer in the catalogue, if no deletion gets from reading the  *)
(* offers to saving the supplier between a new offer's look at the         *)
(* supplier and its insert (OffersService.create checks the supplier       *)
(* before it inserts, and nothing else stands between the two).            *)
(***************************************************************************)
THEOREM OffersGoApart == Spec /\ [][OffersMadeApart]_vars => []DeletedTakesOffers
<1>. DEFINE Safe == Gone /\ \A r \in Req : Cleaning(r) /\ OfNoneDeleted(r) /\ Informed(r)
<1>1. Init => Safe
  BY IdleOK DEF Init, Gone, Cleaning, OfNoneDeleted, Informed, At
<1>2. TypeOK /\ Safe /\ [Next]_vars /\ [OffersMadeApart]_vars => Safe'
  <2>. SUFFICES ASSUME TypeOK, Safe, [Next]_vars, [OffersMadeApart]_vars
                PROVE  Safe'
    OBVIOUS
  <2>1. Gone'
    <3>. SUFFICES ASSUME supplier'.deleted PROVE LiveOffers' = {}
      BY DEF Gone
    <3>1. CASE \A r \in Req : ~InsertOffer(r)
      <4>1. LiveOffers = {}
        <5>1. CASE supplier.deleted
          BY <5>1 DEF Gone
        <5>2. ASSUME NEW r \in Req, RemoveSupplier(r) PROVE LiveOffers = {}
          BY <5>2 DEF Cleaning, RemoveSupplier
        <5>3. ASSUME NEW r \in Req, SaveSupplier(r) PROVE FALSE
          BY <5>3 DEF OfNoneDeleted, SaveSupplier, At
        <5>. QED
          BY <5>1, <5>2, <5>3, DeletedBy
      <4>. QED
        BY <3>1, <4>1, LiveFade
    <3>2. ASSUME NEW r \in Req, InsertOffer(r), OffersMadeApart PROVE FALSE
      BY <3>2 DEF InsertOffer, OffersMadeApart, Informed
    <3>3. CASE UNCHANGED vars
      BY <3>3 DEF Gone, LiveOffers, vars
    <3>. QED
      BY <3>1, <3>2, <3>3
  <2>2. ASSUME NEW s \in Req PROVE Cleaning(s)' /\ OfNoneDeleted(s)' /\ Informed(s)'
    BY CleaningStep, OfNoneDeletedStep, InformedStep
  <2>. QED
    BY <2>1, <2>2
<1>3. Safe => DeletedTakesOffers
  BY DEF Gone, DeletedTakesOffers
<1>4. Spec => []TypeOK
  BY SupplierTyped
<1>. HIDE DEF Safe
<1>. QED
  BY <1>1, <1>2, <1>3, <1>4, PTL DEF Spec


-----------------------------------------------------------------------------
(* A schedule that overlapping tasks keep to. *)

\* The nightly run only touches a supplier whose deletion is scheduled, for today or before.
NightsObey ==
  [][\A r \in Req : req[r].op = "nightly" /\ (SaveSupplier(r) \/ RemoveSupplier(r))
       => supplier.deleted \/ Due]_vars

\* What a task read still holds, and what it is to save follows from it.
Follows(r) ==
  /\ req[r].pc \in FromRow =>
       /\ req[r].op = "nightly" => supplier.status = "pending_deletion" /\ supplier.due <= today
       /\ req[r].op \in {"delete", "set"} => supplier.status # "pending_deletion"
  /\ At(r, "live") => req[r].op \in {"delete", "nightly"}
  /\ At(r, "save") =>
       \/ req[r].op = "cancel" /\ req[r].row.status = "inactive" /\ req[r].row.due = NoDay
       \/ req[r].op = "set" /\ req[r].row.status # "pending_deletion"
       \/ req[r].op = "delete"
       \/ /\ req[r].op = "nightly" /\ req[r].row.status = "pending_deletion"
          /\ req[r].row.due >= supplier.due

\* Only a save moves a schedule.
LEMMA ScheduleKept ==
  ASSUME TypeOK, [Next]_vars, \A r \in Req : ~SaveSupplier(r)
  PROVE  supplier'.status = supplier.status /\ supplier'.due = supplier.due
         /\ today' \in Nat /\ today <= today'
<1>0. supplier \in SupplierRow /\ today \in Nat
  BY SupplierLifecycleAssumption DEF TypeOK, Day
<1>1. ASSUME NEW r \in Req, RemoveSupplier(r)
      PROVE  supplier'.status = supplier.status /\ supplier'.due = supplier.due /\ today' = today
  BY <1>0, <1>1 DEF RemoveSupplier, SupplierRow
<1>2. ASSUME NEW r \in Req, Request(r) \/ Strike(r) \/ Continue(r) \/ Fail(r), ~RemoveSupplier(r)
      PROVE  UNCHANGED <<supplier, today>>
  BY <1>2 DEF Request, ReadDelete, ReadSet, ReadCancel, ReadAccept, ReadCreateOffer, ReadDeleteOffer,
     Call, MoveCase, Strike, Fail, Continue, CheckLive, CancelEarly, FindOffers, RemoveOffers,
     InsertCase, InsertOffer, CheckActivated, CheckActive, RemoveOffer
<1>3. Tick => UNCHANGED supplier /\ today' = today + 1
  BY DEF Tick
<1>4. UNCHANGED vars => UNCHANGED <<supplier, today>>
  BY DEF vars
<1>. QED
  BY <1>0, <1>1, <1>2, <1>3, <1>4 DEF Next

LEMMA CheckFollows ==
  ASSUME TypeOK, NEW s \in Req, Follows(s), CheckLive(s)
  PROVE  Follows(s)'
<1>0. /\ req \in [Req -> Task] /\ req[s] \in Task /\ At(s, "live") /\ UNCHANGED <<supplier, today>>
      /\ \/ req[s].op = "delete" /\ supplier.status # "pending_deletion"
         \/ req[s].op = "nightly" /\ supplier.status = "pending_deletion" /\ supplier.due <= today
  BY DEF CheckLive, Follows, TypeOK, At, FromRow
<1>1. CASE Finish(s)
  BY <1>1, Ends, IdleOK DEF Follows, FromRow, At
<1>2. CASE Goto(s, "findOffers")
  BY <1>0, <1>2, Goes DEF Follows, FromRow, At
<1>3. CASE /\ Expiries # {}
           /\ req' = [req EXCEPT ![s].pc = "save",
                                 ![s].row = [@ EXCEPT !.status = "pending_deletion",
                                                      !.due = Latest]]
  <2>1. PICK row \in SupplierRow : row = req[s].row
    BY <1>0 DEF Task
  <2>2. /\ req'[s].pc = "save" /\ req'[s].op = req[s].op
        /\ req'[s].row = [row EXCEPT !.status = "pending_deletion", !.due = Latest]
    BY <1>0, <1>3, <2>1 DEF Task
  <2>3. req'[s].row.status = "pending_deletion" /\ req'[s].row.due = Latest
    BY <2>2 DEF SupplierRow
  <2>4. supplier.due <= today => Latest >= supplier.due
    <3>1. Latest \in Nat /\ Latest > today /\ today \in Nat /\ supplier.due \in Nat
      BY <1>3, LatestIs, SupplierLifecycleAssumption DEF TypeOK, SupplierRow, NoDay, Day
    <3>. QED
      BY <3>1
  <2>. QED
    BY <1>0, <2>2, <2>3, <2>4 DEF Follows, At
<1>4. LiveUtilities # {} /\ (\A c \in LiveUtilities : cases[c].exp # NoDay) => Expiries # {}
  BY DEF Expiries
<1>. QED
  BY <1>1, <1>2, <1>3, <1>4 DEF CheckLive

LEMMA RequestFollows ==
  ASSUME TypeOK, NEW s \in Req, (Request(s) /\ ~MoveCase(s)) \/ Strike(s)
  PROVE  Follows(s)'
<1>0. req \in [Req -> Task] /\ supplier \in SupplierRow
  BY DEF TypeOK
<1>1. ASSUME NEW op, NEW pc, NEW row, NEW os, Call(s, op, pc, row, os)
      PROVE  /\ UNCHANGED supplier
             /\ req'[s].pc = pc /\ req'[s].op = op /\ req'[s].row = row
  BY <1>0, <1>1 DEF Call
<1>2. CASE ReadDelete(s)
  BY <1>1, <1>2 DEF ReadDelete, Pending, Follows, FromRow, At
<1>3. CASE ReadSet(s)
  <2>0. PICK st \in {"active", "inactive"} :
          Call(s, "set", "save", [supplier EXCEPT !.status = st], {})
    BY <1>3 DEF ReadSet
  <2>1. PICK row : row = [supplier EXCEPT !.status = st]
    OBVIOUS
  <2>3. row.status # "pending_deletion" /\ Call(s, "set", "save", row, {})
    BY <1>0, <2>0, <2>1 DEF SupplierRow
  <2>2. supplier.status # "pending_deletion"
    BY <1>3 DEF ReadSet, Pending
  <2>. QED
    BY <1>1, <2>2, <2>3 DEF Follows, FromRow, At
<1>4. CASE ReadCancel(s)
  <2>1. PICK row : row = [supplier EXCEPT !.status = "inactive", !.due = NoDay]
    OBVIOUS
  <2>2. row.status = "inactive" /\ row.due = NoDay
    BY <1>0, <2>1 DEF SupplierRow
  <2>3. Call(s, "cancel", "save", row, {})
    BY <1>4, <2>1 DEF ReadCancel
  <2>. QED
    BY <1>1, <2>2, <2>3 DEF Follows, FromRow, At
<1>5. CASE ReadAccept(s) \/ ReadCreateOffer(s) \/ ReadDeleteOffer(s)
  <2>1. req'[s].pc \in {"insertCase", "insertOffer", "activated"}
    BY <1>1, <1>5 DEF ReadAccept, ReadCreateOffer, ReadDeleteOffer
  <2>. QED
    BY <2>1 DEF Follows, FromRow, At
<1>6. CASE Strike(s)
  <2>1. req'[s].pc = "live" /\ req'[s].op = "nightly" /\ UNCHANGED <<supplier, today>>
    BY <1>0, <1>6 DEF Strike
  <2>. QED
    BY <1>6, <2>1 DEF Strike, Due, Pending, Follows, FromRow, At
<1>. QED
  BY <1>2, <1>3, <1>4, <1>5, <1>6 DEF Request

LEMMA FollowsStep ==
  ASSUME TypeOK, [Next]_vars, [SavesApart]_vars, \A r \in Req : Follows(r), NEW s \in Req
  PROVE  Follows(s)'
<1>0. req \in [Req -> Task] /\ req[s] \in Task /\ today \in Nat /\ supplier.due \in Nat
  BY SupplierLifecycleAssumption DEF TypeOK, Day, SupplierRow, NoDay
<1>1. CASE req'[s].pc \notin FromRow
  BY <1>1 DEF Follows, FromRow, At
<1>2. CASE req'[s].pc \in FromRow /\ req'[s].op = req[s].op /\ req'[s].row = req[s].row
           /\ req[s].pc \in FromRow /\ req'[s].pc \in {req[s].pc, "removeOffers", "removeSupplier"}
  <2>1. CASE \A r \in Req : ~SaveSupplier(r)
    <3>1. supplier'.status = supplier.status /\ supplier'.due = supplier.due
          /\ today' \in Nat /\ today <= today'
      BY <2>1, ScheduleKept
    <3>. QED
      BY <1>0, <1>2, <3>1 DEF Follows, At
  <2>2. CASE UNCHANGED vars
    BY <2>2 DEF vars, Follows, At
  <2>3. ASSUME NEW r \in Req, SaveSupplier(r), SavesApart PROVE FALSE
    <3>1. SaveSupplier(s)
      BY <1>2, <2>3 DEF SavesApart
    <3>2. req'[s].pc \in {"idle", "cancelEarly"}
      BY <3>1, Ends, Goes, IdleOK DEF SaveSupplier
    <3>. QED
      BY <1>2, <3>1, <3>2 DEF FromRow
  <2>. QED
    BY <2>1, <2>2, <2>3
<1>3. CASE UNCHANGED vars \/ Tick \/ MoveCase(s)
  BY <1>1, <1>2, <1>3 DEF vars, Tick, MoveCase
<1>4. ASSUME NEW r \in Req, r # s, Request(r) \/ Strike(r) \/ Continue(r) \/ Fail(r)
      PROVE  Follows(s)'
  BY <1>1, <1>2, <1>4, OthersWait
<1>5. CASE (Request(s) /\ ~MoveCase(s)) \/ Strike(s)
  BY <1>5, RequestFollows
<1>6. CASE CheckLive(s)
  BY <1>6, CheckFollows
<1>7. CASE FindOffers(s)
  <2>1. PICK p \in {"removeSupplier", "removeOffers"} :
          req' = [req EXCEPT ![s].pc = p, ![s].offers = LiveOffers]
    BY <1>7 DEF FindOffers
  <2>2. req'[s].pc = p /\ req'[s].op = req[s].op /\ req'[s].row = req[s].row
    BY <1>0, <2>1 DEF Task
  <2>. QED
    BY <1>2, <1>7, <2>2 DEF FindOffers, At, FromRow
<1>8. CASE RemoveOffers(s)
  <2>1. req'[s].pc = "removeSupplier" /\ req'[s].op = req[s].op /\ req'[s].row = req[s].row
    BY <1>8, Goes DEF RemoveOffers
  <2>. QED
    BY <1>2, <1>8, <2>1 DEF RemoveOffers, At, FromRow
<1>9. CASE (Continue(s) \/ Fail(s)) /\ ~CheckLive(s) /\ ~FindOffers(s) /\ ~RemoveOffers(s)
  <2>1. req'[s] = Idle \/ req'[s].pc \in {"cancelEarly", "active", "removeOffer"}
    <3>1. CASE Finish(s)
      BY <3>1, Ends
    <3>2. ASSUME NEW pc \in {"cancelEarly", "active", "removeOffer"}, Goto(s, pc)
          PROVE  req'[s].pc = pc
      BY <3>2, Goes
    <3>. QED
      BY <1>9, <3>1, <3>2 DEF Continue, SaveSupplier, CancelEarly, RemoveSupplier, InsertCase,
         InsertOffer, CheckActivated, CheckActive, RemoveOffer, Fail
  <2>. QED
    BY <1>1, <2>1, IdleOK DEF FromRow
<1>. QED
  BY <1>3, <1>4, <1>5, <1>6, <1>7, <1>8, <1>9 DEF Next

LEMMA InitFollows == Init => \A r \in Req : Follows(r)
BY IdleOK DEF Init, Follows, FromRow, At

(***************************************************************************)
(* However many tasks overlap, and wherever they die, a scheduled deletion *)
(* is undone only by the request that is for that, and its day only ever   *)
(* moves later, if the supplier is not saved while another task goes by    *)
(* what it read of it (deleteSupplier, update, toggleStatus and            *)
(* executeScheduledDeletions all read the row some awaits before they      *)
(* write it).                                                              *)
(***************************************************************************)
THEOREM ScheduleKeptApart == Spec /\ [][SavesApart]_vars => ScheduleStands
<1>. DEFINE Safe == \A r \in Req : Follows(r)
            Kept == Pending =>
                      \/ supplier'.status = "pending_deletion" /\ supplier'.due >= supplier.due
                      \/ supplier'.status = "inactive" /\ supplier'.due = NoDay
<1>1. TypeOK /\ Safe /\ [Next]_vars /\ [SavesApart]_vars => Safe'
  BY FollowsStep
<1>2. TypeOK /\ Safe /\ [Next]_vars => [Kept]_vars
  <2>. SUFFICES ASSUME TypeOK, Safe, Next, Pending
                PROVE  \/ supplier'.status = "pending_deletion" /\ supplier'.due >= supplier.due
                       \/ supplier'.status = "inactive" /\ supplier'.due = NoDay
    OBVIOUS
  <2>1. CASE \A r \in Req : ~SaveSupplier(r)
    <3>1. supplier.due \in Nat
      BY SupplierLifecycleAssumption DEF TypeOK, Day, SupplierRow, NoDay
    <3>. QED
      BY <2>1, <3>1, ScheduleKept DEF Pending
  <2>2. ASSUME NEW r \in Req, SaveSupplier(r)
        PROVE  \/ supplier'.status = "pending_deletion" /\ supplier'.due >= supplier.due
               \/ supplier'.status = "inactive" /\ supplier'.due = NoDay
    BY <2>2 DEF SaveSupplier, Follows, FromRow, At, Pending
  <2>. QED
    BY <2>1, <2>2
<1>3. Spec => []TypeOK
  BY SupplierTyped
<1>4. Init => Safe
  BY InitFollows
<1>. HIDE DEF Safe
<1>. QED
  BY <1>1, <1>2, <1>3, <1>4, PTL DEF Spec, ScheduleStands

(***************************************************************************)
(* Under the same condition the nightly run neither deletes nor            *)
(* reschedules a supplier whose deletion was cancelled, or put off, after  *)
(* the run had found it due (executeScheduledDeletions).                   *)
(***************************************************************************)
THEOREM NightRunsObey == Spec /\ [][SavesApart]_vars => NightsObey
<1>. DEFINE Safe == \A r \in Req : Follows(r)
<1>1. TypeOK /\ Safe /\ [Next]_vars /\ [SavesApart]_vars => Safe'
  BY FollowsStep
<1>2. Safe => [\A r \in Req : req[r].op = "nightly" /\ (SaveSupplier(r) \/ RemoveSupplier(r))
                 => supplier.deleted \/ Due]_vars
  BY DEF Follows, SaveSupplier, RemoveSupplier, At, FromRow, Due, Pending
<1>3. Spec => []TypeOK
  BY SupplierTyped
<1>4. Init => Safe
  BY InitFollows
<1>. HIDE DEF Safe
<1>. QED
  BY <1>1, <1>2, <1>3, <1>4, PTL DEF Spec, NightsObey

-----------------------------------------------------------------------------
(* The early cases of a schedule. *)

ClearedAll ==
  supplier.status = "pending_deletion" /\ (\A r \in Req : ~At(r, "cancelEarly")) =>
    \A c \in DOMAIN cases : cases[c].status \notin Early

\* Only a transition, an insert and the cancellation change a case.
LEMMA CasesKept ==
  ASSUME NEW r \in Req,
         Request(r) \/ Strike(r) \/ Continue(r) \/ Fail(r),
         ~MoveCase(r), ~InsertCase(r), ~CancelEarly(r)
  PROVE  UNCHANGED cases
BY DEF Request, ReadDelete, ReadSet, ReadCancel, ReadAccept, ReadCreateOffer, ReadDeleteOffer,
   Call, Strike, Fail, Continue, CheckLive, SaveSupplier, FindOffers, RemoveOffers, RemoveSupplier,
   InsertOffer, CheckActivated, CheckActive, RemoveOffer

\* Only the cancellation itself, or a death, ends a task that is to cancel.
LEMMA CancelWaits ==
  ASSUME TypeOK, NEW r \in Req, Request(r) \/ Strike(r) \/ Continue(r) \/ Fail(r),
         ~CancelEarly(r), ~Fail(r), NEW s \in Req, At(s, "cancelEarly")
  PROVE  At(s, "cancelEarly")'
<1>1. CASE r # s
  BY <1>1, OthersWait DEF At
<1>2. CASE MoveCase(r)
  BY <1>2 DEF MoveCase, At
<1>3. ASSUME r = s, ~MoveCase(r) PROVE FALSE
  BY <1>3, IdleOK DEF Request, ReadDelete, ReadSet, ReadCancel, ReadAccept, ReadCreateOffer,
     ReadDeleteOffer, Call, Strike, Continue, CheckLive, SaveSupplier, FindOffers, RemoveOffers,
     RemoveSupplier, InsertCase, InsertOffer, CheckActivated, CheckActive, RemoveOffer, At
<1>. QED
  BY <1>1, <1>2, <1>3

LEMMA ClearedStep ==
  ASSUME OnlyForward, TypeOK, \A r \in Req : Follows(r) /\ Informed(r), ClearedAll, [Next]_vars,
         [AcceptedApart]_vars, [SparesCancel]_vars
  PROVE  ClearedAll'
<1>1. CASE UNCHANGED vars
  BY <1>1 DEF ClearedAll, At, vars
<1>2. CASE Tick
  BY <1>2 DEF Tick, ClearedAll, At
<1>3. ASSUME NEW r \in Req, Request(r) \/ Strike(r) \/ Continue(r) \/ Fail(r),
             AcceptedApart, SparesCancel
      PROVE  ClearedAll'
  <2>1. CASE CancelEarly(r)
    <3>1. \A c \in DOMAIN cases : cases[c] \in CaseRow
      BY DEF TypeOK
    <3>2. \A c \in DOMAIN cases' : cases'[c].status \notin Early
      BY <2>1, <3>1 DEF CancelEarly, CaseRow, Early
    <3>. QED
      BY <3>2 DEF ClearedAll
  <2>2. CASE InsertCase(r)
    BY <1>3, <2>2 DEF AcceptedApart, Informed, InsertCase, ClearedAll
  <2>3. CASE ~CancelEarly(r) /\ ~InsertCase(r)
    <3>. SUFFICES ASSUME supplier'.status = "pending_deletion",
                         \A s \in Req : ~At(s, "cancelEarly")',
                         NEW c \in DOMAIN cases'
                  PROVE  cases'[c].status \notin Early
      BY DEF ClearedAll
    <3>1. \A s \in Req : ~At(s, "cancelEarly")
      <4>1. CASE ~Fail(r)
        BY <1>3, <2>3, <4>1, CancelWaits
      <4>2. CASE Fail(r)
        <5>1. ~At(r, "cancelEarly")
          BY <1>3, <4>2 DEF SparesCancel
        <5>2. \A s \in Req : s # r => req'[s] = req[s]
          BY <4>2 DEF Fail, Finish, TypeOK
        <5>. QED
          BY <5>1, <5>2 DEF At
      <4>. QED
        BY <4>1, <4>2
    <3>2. supplier.status = "pending_deletion"
      <4>1. CASE SaveSupplier(r)
        <5>1. req[r].op # "delete"
          BY <4>1, Goes DEF SaveSupplier, At
        <5>. QED
          BY <4>1, <5>1 DEF SaveSupplier, Follows, FromRow, At
      <4>2. CASE \A s \in Req : ~SaveSupplier(s)
        BY <1>3, <4>2, ScheduleKept DEF Next
      <4>3. ASSUME NEW s \in Req, s # r, SaveSupplier(s) PROVE supplier.status = "pending_deletion"
        <5>1. req'[s] = req[s] \/ UNCHANGED req
          BY <1>3, <4>3, OthersWait
        <5>2. req'[s].pc \in {"idle", "cancelEarly"}
          BY <4>3, Ends, Goes, IdleOK DEF SaveSupplier
        <5>. QED
          BY <4>3, <5>1, <5>2 DEF SaveSupplier, At
      <4>. QED
        BY <4>1, <4>2, <4>3
    <3>3. \A d \in DOMAIN cases : cases[d].status \notin Early
      BY <3>1, <3>2 DEF ClearedAll
    <3>4. CASE MoveCase(r)
      BY <3>3, <3>4 DEF MoveCase, Moved, OnlyForward, TypeOK, CaseRow
    <3>5. CASE ~MoveCase(r)
      BY <1>3, <2>3, <3>3, <3>5, CasesKept
    <3>. QED
      BY <3>4, <3>5
  <2>. QED
    BY <2>1, <2>2, <2>3
<1>. QED
  BY <1>1, <1>2, <1>3 DEF Next, vars

(***************************************************************************)
(* However many tasks overlap, a scheduled deletion has no case at an      *)
(* early stage, if no operator moves a case back, the supplier is not      *)
(* saved while another task goes by what it read of it, nobody accepts an  *)
(* offer while the schedule is made, and wherever tasks die but in one     *)
(* place: between deleteSupplier's save of the supplier and its update of  *)
(* the cases.                                                              *)
(***************************************************************************)
THEOREM NoEarlyApart ==
  ASSUME OnlyForward
  PROVE  Spec /\ [][SavesApart]_vars /\ [][AcceptedApart]_vars /\ [][SparesCancel]_vars
           => []NoEarlyWhileScheduled
<1>. DEFINE Safe == (\A r \in Req : Follows(r) /\ Informed(r)) /\ ClearedAll
<1>1. Init => Safe
  BY InitFollows, IdleOK DEF Init, ClearedAll, Added, Informed, At
<1>2. TypeOK /\ Safe /\ [Next]_vars /\ [SavesApart]_vars /\ [AcceptedApart]_vars
        /\ [SparesCancel]_vars => Safe'
  <2>. SUFFICES ASSUME TypeOK, Safe, [Next]_vars,
                       [SavesApart]_vars, [AcceptedApart]_vars, [SparesCancel]_vars
                PROVE  Safe'
    OBVIOUS
  <2>1. ASSUME NEW r \in Req PROVE Follows(r)' /\ Informed(r)'
    BY FollowsStep, InformedStep
  <2>2. ClearedAll'
    BY ClearedStep
  <2>. QED
    BY <2>1, <2>2
<1>3. Safe => NoEarlyWhileScheduled
  BY IdleOK DEF ClearedAll, NoEarlyWhileScheduled, Quiet, Pending, At
<1>4. Spec => []TypeOK
  BY SupplierTyped
<1>. HIDE DEF Safe
<1>. QED
  BY <1>1, <1>2, <1>3, <1>4, PTL DEF Spec

=============================================================================
