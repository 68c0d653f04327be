------------------------- MODULE SupplierLifecycle -------------------------
(***************************************************************************)
(* A supplier on its way out of the catalogue, with its offers and the     *)
(* switch cases opened on them.                                            *)
(*                                                                         *)
(* A supplier that serves nobody is deleted at once, offers first.  One    *)
(* that still does is scheduled for the day the last supply expires, its   *)
(* early cases are cancelled, and from that day on a nightly job deletes   *)
(* it, or moves the day if supplies were prolonged.  Meanwhile the         *)
(* operators go on moving cases, and customers accept offers.              *)
(*                                                                         *)
(* Handlers and nightly runs are tasks, as in BillPipeline: they pass      *)
(* control at each await, hold the rows they read, save them whole, and    *)
(* may die.  What a case goes through is BillPipeline's; here it changes   *)
(* status and expiry date in one step.                                     *)
(***************************************************************************)
EXTENDS PipelineStatus, Naturals, Sequences

CONSTANTS
  Req,          \* the tasks that may run at once
  Offer,        \* the offers the supplier ever has
  CaseTarget,   \* the case statuses an operator moves a case to
  LastDay,      \* bound: the days of the calendar
  MaxCases,     \* bound: how many cases there ever are
  MaxRequests,  \* bound: how many requests clients make
  MaxFails      \* bound: how many failures there are

ASSUME SupplierLifecycleAssumption ==
  /\ CaseTarget \subseteq CaseStatus
  /\ LastDay \in Nat \ {0}
  /\ MaxCases \in Nat
  /\ MaxRequests \in Nat
  /\ MaxFails \in Nat

VARIABLES
  supplier,    \* the suppliers row: status, scheduled deletion date, deleted
  offers,      \* whether each offer does not exist yet, is live, or is deleted
  cases,       \* switch_cases on those offers
  today,       \* the date
  req,         \* the running tasks
  started,     \* how many requests were made (bounded by MaxRequests)
  fails        \* how many failures there were (bounded by MaxFails)

bounds == <<started, fails>>
vars == <<supplier, offers, cases, today, req, bounds>>

Day == 1 .. LastDay
NoDay == 0
Early == {"new", "in_progress", "documents_pending"}

SupplierRow ==
  [status : {"active", "inactive", "pending_deletion"}, due : {NoDay} \cup Day,
   deleted : BOOLEAN]
CaseRow == [offer : Offer, status : CaseStatus, exp : {NoDay} \cup Day]
Task ==
  [pc     : {"idle", "live", "save", "cancelEarly", "findOffers", "removeOffers",
             "removeSupplier", "insertCase", "insertOffer", "activated", "active",
             "removeOffer"},
   op     : {None, "delete", "set", "cancel", "nightly", "accept", "offer"},
   row    : SupplierRow,          \* the supplier it loaded
   offers : SUBSET Offer]         \* the offers it works on

Added == [status |-> "active", due |-> NoDay, deleted |-> FALSE]
Idle == [pc |-> "idle", op |-> None, row |-> Added, offers |-> {}]

TypeOK ==
  /\ supplier \in SupplierRow
  /\ offers \in [Offer -> {"absent", "live", "deleted"}]
  /\ cases \in Seq(CaseRow) /\ Len(cases) <= MaxCases
  /\ today \in Day
  /\ req \in [Req -> Task]
  /\ started \in 0 .. MaxRequests
  /\ fails \in 0 .. MaxFails

-----------------------------------------------------------------------------

Pending == supplier.status = "pending_deletion" /\ ~supplier.deleted
LiveOffers == {o \in Offer : offers[o] = "live"}

\* A supply that runs today.
Running(c) ==
  /\ cases[c].status \in LiveUtility
  /\ cases[c].exp = NoDay \/ cases[c].exp > today

\* A slip: a supply in activation is not counted.
ActivatedUtilities ==
  {c \in DOMAIN cases : Running(c) /\ cases[c].status = "activated"
                        /\ cases[c].offer \in LiveOffers}

\* getLiveUtilitiesForSupplier: the join drops the cases of a deleted offer.
LiveUtilities == {c \in DOMAIN cases : Running(c) /\ cases[c].offer \in LiveOffers}

Expiries == {cases[c].exp : c \in LiveUtilities} \ {NoDay}
Latest == CHOOSE d \in Expiries : \A e \in Expiries : e <= d

\* The status and the expiry date of a case that a transition or an edit stores.
Moved(row) ==
  {r \in [offer : {row.offer} \cup (IF Pending THEN {} ELSE LiveOffers),
          status : CaseTarget \cup {row.status}, exp : {NoDay} \cup Day] :
     r.status = "awaiting_activation" => r.exp # NoDay}

-----------------------------------------------------------------------------
(* Tasks. *)

At(r, pc) == req[r].pc = pc
Goto(r, pc) == req' = [req EXCEPT ![r].pc = pc]
Finish(r) == req' = [req EXCEPT ![r] = Idle]

\* A client calls; the rows it reads are those of this moment.
Call(r, op, pc, row, os) ==
  /\ req[r] = Idle
  /\ started < MaxRequests
  /\ started' = started + 1
  /\ req' = [req EXCEPT ![r] = [pc |-> pc, op |-> op, row |-> row, offers |-> os]]
  /\ UNCHANGED <<supplier, offers, cases, today, fails>>

\* deleteSupplier; one that is scheduled already is left as it is.
ReadDelete(r) ==
  /\ ~supplier.deleted /\ ~Pending
  /\ Call(r, "delete", "live", supplier, {})

\* A slip: a supplier about to be deleted can be edited.
ReadSetAlways(r) ==
  \E s \in {"active", "inactive"} :
    /\ ~supplier.deleted
    /\ Call(r, "set", "save", [supplier EXCEPT !.status = s], {})

\* update and toggleStatus.
ReadSet(r) ==
  \E s \in {"active", "inactive"} :
    /\ ~supplier.deleted /\ ~Pending
    /\ Call(r, "set", "save", [supplier EXCEPT !.status = s], {})

\* cancelScheduledDeletion.
ReadCancel(r) ==
  /\ Pending
  /\ Call(r, "cancel", "save", [supplier EXCEPT !.status = "inactive", !.due = NoDay], {})

\* A slip: the day is matched, not reached.
DueToday == Pending /\ supplier.due = today

Due == Pending /\ supplier.due <= today

\* executeScheduledDeletions: the nightly run finds the supplier due.
Strike(r) ==
  /\ req[r] = Idle
  /\ Due
  /\ req' = [req EXCEPT ![r] = [pc |-> "live", op |-> "nightly", row |-> supplier,
                                offers |-> {}]]
  /\ UNCHANGED <<supplier, offers, cases, today, bounds>>

\* createCase, as far as the supplier of the offer goes.
ReadAccept(r) ==
  \E o \in LiveOffers : ~Pending /\ Call(r, "accept", "insertCase", supplier, {o})

\* OffersService.create and deleteOffer.
ReadCreateOffer(r) ==
  \E o \in Offer :
    /\ offers[o] = "absent"
    /\ supplier.status = "active" /\ ~supplier.deleted
    /\ Call(r, "offer", "insertOffer", supplier, {o})

ReadDeleteOffer(r) == \E o \in LiveOffers : Call(r, "offer", "activated", supplier, {o})

\* transitionBillStatus and updateCase, in one step.
MoveCase(r) ==
  \E c \in DOMAIN cases : \E row \in Moved(cases[c]) :
    /\ req[r] = Idle
    /\ started < MaxRequests
    /\ started' = started + 1
    /\ cases' = [cases EXCEPT ![c] = row]
    /\ UNCHANGED <<supplier, offers, today, req, fails>>

-----------------------------------------------------------------------------
(* What the tasks do next. *)

\* Delete now, schedule or move the day, or refuse for want of a day.
CheckLive(r) ==
  /\ At(r, "live")
  /\ LET nightly == req[r].op = "nightly"
         dated   == IF nightly THEN Expiries # {}
                    ELSE \A c \in LiveUtilities : cases[c].exp # NoDay IN
     CASE LiveUtilities = {} -> Goto(r, "findOffers")
       [] LiveUtilities # {} /\ dated ->
            req' = [req EXCEPT ![r].pc = "save",
                               ![r].row = [@ EXCEPT !.status = "pending_deletion",
                                                    !.due = Latest]]
       [] OTHER -> Finish(r)
  /\ UNCHANGED <<supplier, offers, cases, today, bounds>>

\* A slip: the early cases are left to their customers.
SaveAndLeave(r) ==
  /\ At(r, "save")
  /\ supplier' = req[r].row
  /\ Finish(r)
  /\ UNCHANGED <<offers, cases, today, bounds>>

\* supplierRepository.save: the whole row, the deletion mark included.
SaveSupplier(r) ==
  /\ At(r, "save")
  /\ supplier' = req[r].row
  /\ IF req[r].op = "delete" THEN Goto(r, "cancelEarly") ELSE Finish(r)
  /\ UNCHANGED <<offers, cases, today, bounds>>

\* A slip: the cases are given the status of their supplier.
CancelWithSupplier(r) ==
  /\ At(r, "cancelEarly")
  /\ cases' = [c \in DOMAIN cases |->
                 IF cases[c].status \in Early
                 THEN [cases[c] EXCEPT !.status = supplier.status] ELSE cases[c]]
  /\ Finish(r)
  /\ UNCHANGED <<supplier, offers, today, bounds>>

\* cancelEarlyStageCases: one update.
CancelEarly(r) ==
  /\ At(r, "cancelEarly")
  /\ cases' = [c \in DOMAIN cases |->
                 IF cases[c].status \in Early
                 THEN [cases[c] EXCEPT !.status = "cancelled"] ELSE cases[c]]
  /\ Finish(r)
  /\ UNCHANGED <<supplier, offers, today, bounds>>

\* executeSupplierDeletion: the offers, if there are any, then the supplier.
FindOffers(r) ==
  /\ At(r, "findOffers")
  /\ req' = [req EXCEPT ![r].pc = IF LiveOffers = {} THEN "removeSupplier"
                                  ELSE "removeOffers",
                        ![r].offers = LiveOffers]
  /\ UNCHANGED <<supplier, offers, cases, today, bounds>>

\* A slip: the offers are left in the catalogue.
KeepOffers(r) ==
  /\ At(r, "removeOffers")
  /\ Goto(r, "removeSupplier")
  /\ UNCHANGED <<supplier, offers, cases, today, bounds>>

RemoveOffers(r) ==
  /\ At(r, "removeOffers")
  /\ offers' = [o \in Offer |-> IF o \in req[r].offers THEN "deleted" ELSE offers[o]]
  /\ Goto(r, "removeSupplier")
  /\ UNCHANGED <<supplier, cases, today, bounds>>

RemoveSupplier(r) ==
  /\ At(r, "removeSupplier")
  /\ supplier' = [supplier EXCEPT !.deleted = TRUE]
  /\ Finish(r)
  /\ UNCHANGED <<offers, cases, today, bounds>>

InsertCase(r) ==
  /\ At(r, "insertCase")
  /\ Len(cases) < MaxCases
  /\ \E o \in req[r].offers :
       cases' = Append(cases, [offer |-> o, status |-> "new", exp |-> NoDay])
  /\ Finish(r)
  /\ UNCHANGED <<supplier, offers, today, bounds>>

InsertOffer(r) ==
  /\ At(r, "insertOffer")
  /\ offers' = [o \in Offer |-> IF o \in req[r].offers THEN "live" ELSE offers[o]]
  /\ Finish(r)
  /\ UNCHANGED <<supplier, cases, today, bounds>>

\* deleteOffer: no supply runs on it, and no case is under way; else 400.
CheckActivated(r) ==
  /\ At(r, "activated")
  /\ IF \E c \in DOMAIN cases :
          cases[c].offer \in req[r].offers /\ cases[c].status = "activated" /\ Running(c)
     THEN Finish(r) ELSE Goto(r, "active")
  /\ UNCHANGED <<supplier, offers, cases, today, bounds>>

CheckActive(r) ==
  /\ At(r, "active")
  /\ IF \E c \in DOMAIN cases :
          /\ cases[c].offer \in req[r].offers
          /\ cases[c].status \in Early \cup {"contract_sent", "awaiting_activation"}
     THEN Finish(r) ELSE Goto(r, "removeOffer")
  /\ UNCHANGED <<supplier, offers, cases, today, bounds>>

RemoveOffer(r) ==
  /\ At(r, "removeOffer")
  /\ offers' = [o \in Offer |-> IF o \in req[r].offers THEN "deleted" ELSE offers[o]]
  /\ Finish(r)
  /\ UNCHANGED <<supplier, cases, today, bounds>>

\* The process is killed, or the database rejects a call.
Fail(r) ==
  /\ req[r] # Idle
  /\ fails < MaxFails
  /\ fails' = fails + 1
  /\ Finish(r)
  /\ UNCHANGED <<supplier, offers, cases, today, started>>

Tick ==
  /\ today < LastDay
  /\ today' = today + 1
  /\ UNCHANGED <<supplier, offers, cases, req, bounds>>

-----------------------------------------------------------------------------

Init ==
  /\ supplier = Added
  /\ offers = [o \in Offer |-> "absent"]
  /\ cases = <<>>
  /\ today = 1
  /\ req = [r \in Req |-> Idle]
  /\ started = 0 /\ fails = 0

Request(r) ==
  \/ ReadDelete(r) \/ ReadSet(r) \/ ReadCancel(r) \/ ReadAccept(r)
  \/ ReadCreateOffer(r) \/ ReadDeleteOffer(r) \/ MoveCase(r)

Continue(r) ==
  \/ CheckLive(r) \/ SaveSupplier(r) \/ CancelEarly(r)
  \/ FindOffers(r) \/ RemoveOffers(r) \/ RemoveSupplier(r)
  \/ InsertCase(r) \/ InsertOffer(r)
  \/ CheckActivated(r) \/ CheckActive(r) \/ RemoveOffer(r)

Next == Tick \/ \E r \in Req : Request(r) \/ Strike(r) \/ Continue(r) \/ Fail(r)

\* Days pass, every night the job runs, and a task that is not killed goes on.
Fairness ==
  /\ WF_vars(Tick)
  /\ \A r \in Req : WF_vars(Strike(r)) /\ WF_vars(Continue(r))

Spec == Init /\ [][Next]_vars /\ Fairness

-----------------------------------------------------------------------------

(***************************************************************************)
(* Nobody is supplied under an offer that is taken from the catalogue at   *)
(* that moment: neither by deleting the offer, nor with its supplier, at   *)
(* once or by the nightly job (deleteOffer, deleteSupplier,                *)
(* executeScheduledDeletions).                                             *)
(***************************************************************************)
OffersOutliveSupply ==
  [][\A c \in DOMAIN cases :
       offers[cases[c].offer] = "live" /\ offers'[cases[c].offer] = "deleted"
       => ~Running(c)]_vars

(***************************************************************************)
(* A scheduled deletion is left alone: it ends by being cancelled or       *)
(* carried out, and until then its day only ever moves later (update,       *)
(* toggleStatus and the nightly job's rescheduling).                       *)
(***************************************************************************)
ScheduleStands ==
  [][Pending => \/ supplier'.status = "pending_deletion" /\ supplier'.due >= supplier.due
                \/ supplier'.status = "inactive" /\ supplier'.due = NoDay]_vars

(***************************************************************************)
(* A supplier that was deleted left nothing in the catalogue, even if the  *)
(* deletion failed half-way and was taken up again.                        *)
(***************************************************************************)
DeletedTakesOffers == supplier.deleted => LiveOffers = {}

(***************************************************************************)
(* With no failure, and no operator moving a case back, a scheduled        *)
(* deletion has no case at an early stage: those there were are cancelled, *)
(* and no offer can be accepted until the deletion is cancelled.           *)
(***************************************************************************)
Quiet == \A r \in Req : req[r] = Idle
ScheduledHasNoEarly ==
  fails = 0 /\ Quiet /\ Pending => \A c \in DOMAIN cases : cases[c].status \notin Early

(***************************************************************************)
(* A scheduled deletion does not wait for ever once nobody is supplied.    *)
(***************************************************************************)
DeletionEnds == []<>~(Pending /\ \A c \in DOMAIN cases : ~Running(c))

-----------------------------------------------------------------------------
(* Overlapping tasks: the windows in which another task must not write. *)

Deciding == {"findOffers", "removeOffers", "active", "removeOffer"}
FromRow == {"live", "save", "findOffers", "removeOffers", "removeSupplier"}

\* While a deletion is between its check and its removal, no operator starts a supply, or
\* moves one to another offer or status.
MovesStayClear ==
  \A r, s \in Req : req[s].pc \in Deciding /\ MoveCase(r) =>
    \A c \in DOMAIN cases : Running(c)' =>
      /\ Running(c) /\ cases'[c].offer = cases[c].offer /\ cases'[c].status = cases[c].status

\* An insert makes a row of its own.
NewOffers == \A r \in Req : InsertOffer(r) => \A o \in req[r].offers : offers[o] = "absent"

\* No deletion gets from reading the offers to saving the supplier between a new offer's look
\* at the supplier and its insert.
OffersMadeApart ==
  \A r, s \in Req : InsertOffer(r) =>
    /\ supplier.deleted => req[r].row.deleted
    /\ req[s].pc \notin {"removeOffers", "removeSupplier"}

\* The supplier is not saved while another task goes by what it read of it.
SavesApart == \A r, s \in Req : SaveSupplier(r) /\ req[s].pc \in FromRow => r = s

\* No deletion is scheduled between an acceptance's look at the supplier and its case.
AcceptedApart ==
  \A r \in Req : InsertCase(r) /\ supplier.status = "pending_deletion" =>
    req[r].row.status = "pending_deletion" /\ ~req[r].row.deleted

\* A deletion that is scheduled does not die before it cancelled the early cases.
SparesCancel == \A r \in Req : Fail(r) => ~At(r, "cancelEarly")

Apart ==
  MovesStayClear /\ NewOffers /\ OffersMadeApart /\ SavesApart /\ AcceptedApart /\ SparesCancel

(***************************************************************************)
(* ScheduledHasNoEarly where tasks overlap and die: outside those windows  *)
(* the save of the schedule, the update that cancels the early cases and   *)
(* the acceptances under way leave no early case to a supplier on its way  *)
(* out (deleteSupplier, cancelEarlyStageCases, createCase).                *)
(***************************************************************************)
NoEarlyWhileScheduled ==
  Quiet /\ Pending => \A c \in DOMAIN cases : cases[c].status \notin Early

-----------------------------------------------------------------------------
(* What the code says of itself, and does not keep to. *)

(***************************************************************************)
(* No supplier is deleted while it still supplies somebody, be it under an *)
(* offer that was deleted before (getLiveUtilitiesForSupplier).            *)
(***************************************************************************)
DeletedUnsupplied ==
  [][~supplier.deleted /\ supplier'.deleted =>
       \A c \in DOMAIN cases : ~Running(c)]_vars
=============================================================================
