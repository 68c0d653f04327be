----------------------------- MODULE Backoffice ----------------------------
(***************************************************************************)
(* What operators and a customer do around a switch: its documents, the    *)
(* support tickets, the intake and the reading of bills, and the order of  *)
(* the offers sent.  The parts share the server's tasks and the            *)
(* notifications table, and no other row: a behaviour exercises one of     *)
(* them, chosen at the start.                                              *)
(***************************************************************************)
EXTENDS CaseDocuments, SupportTickets, BillIntake, BillReading, SentOfferOrder

CONSTANT Quota     \* bound: how many requests each part makes

PartName == {"documents", "support", "intake", "reading", "order"}

ASSUME BackofficeAssumption == Quota \in [PartName -> 0 .. MaxRequests]

VARIABLE part      \* the part this behaviour exercises

reading == <<uploaded, sheet, guessed>>

vars == <<part, docs, support, intake, reading, sent, notices, calls>>

Task == DocTask \cup TicketTask \cup IntakeTask \cup ReadTask \cup OrderTask \cup NewsTask

TypeOK ==
  /\ part \in PartName
  /\ DocOK /\ SupportOK /\ IntakeOK /\ ReadingOK /\ OrderOK
  /\ NoticesOK /\ CallsOK(Task)

More == started < Quota[part]

Documents(r) ==
  /\ part = "documents"
  /\ (More /\ DocRequest(r)) \/ DocStep(r)
  /\ UNCHANGED <<part, support, intake, reading, sent>>

Support(r) ==
  /\ part = "support"
  /\ (More /\ TicketRequest(r)) \/ TicketStep(r)
  /\ UNCHANGED <<part, docs, intake, reading, sent>>

Intake(r) ==
  /\ part = "intake"
  /\ (More /\ IntakeRequest(r)) \/ IntakeStep(r)
  /\ UNCHANGED <<part, docs, support, reading, sent>>

Read(r) ==
  /\ part = "reading"
  /\ (More /\ UploadUnread(r)) \/ ReadStep(r)
  /\ UNCHANGED <<part, docs, support, intake, sent, notices>>

Order(r) ==
  /\ part = "order"
  /\ (More /\ OrderRequest(r)) \/ OrderStep(r)
  /\ UNCHANGED <<part, docs, support, intake, reading, notices>>

Notice(r) ==
  /\ NoticeStep(r) \/ Swallow(r)
  /\ UNCHANGED <<part, docs, support, intake, reading, sent>>

Die(r) == Fail(r) /\ UNCHANGED <<part, docs, support, intake, reading, sent, notices>>

Init ==
  /\ part \in {p \in PartName : Quota[p] > 0}
  /\ DocInit /\ SupportInit /\ IntakeInit /\ ReadingInit /\ OrderInit
  /\ NoticesInit /\ CallsInit

Next ==
  \E r \in Req :
    Documents(r) \/ Support(r) \/ Intake(r) \/ Read(r) \/ Order(r)
    \/ Notice(r) \/ Die(r)

Spec == Init /\ [][Next]_vars

(***************************************************************************)
(* Customer and operators hear of each thing that happened at most once,   *)
(* and of nothing that did not: what is news to them of documents, tickets *)
(* and bills keeps the promise of CustomerNews, whatever dies or overlaps. *)
(***************************************************************************)
News == INSTANCE CustomerNews WITH News <- Key
KeepsThePromise == News!Spec
=============================================================================
