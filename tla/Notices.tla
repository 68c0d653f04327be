------------------------------ MODULE Notices ------------------------------
(***************************************************************************)
(* How a handler tells the customer, or the operators, that something      *)
(* happened: a row of the notifications table under a key that is unique   *)
(* for each recipient, and a push if the row is new (sendNotification).    *)
(* Whatever fails here is swallowed (toCustomer, notifyAdmins): the        *)
(* handler goes on.                                                        *)
(*                                                                         *)
(* A key names one recipient: the customer of the row, or an operator.     *)
(***************************************************************************)
EXTENDS Calls, Sequences

VARIABLES
  happened,     \* history: what there was to be told of
  shown,        \* the rows of the notifications table, by key
  heard         \* how many times each was pushed

notices == <<happened, shown, heard>>

\* The methods of notification-events.service.ts, by the key each writes.
Kind ==
  {"rejected",    \* documentRejected          case-document:<id>:rejected
   "replaced",    \* adminDocumentResubmitted  case-document:<id>:admin_resubmitted
   "asked",       \* adminTicketCreated        ticket:<id>:admin_created
   "question",    \* adminTicketReplied        ticket-msg:<id>:admin
   "answer",      \* supportReplied            ticket-msg:<id>
   "resolved",    \* ticketClosedOut           ticket:<id>:resolved
   "closed",      \* ticketClosedOut           ticket:<id>:closed
   "submitted",   \* applicationSubmitted      bill:<id>:submitted
   "check"}       \* adminBillCheckRequested   bill:<id>:admin_bill_check

Key == Kind \X Row

\* What there is to be told of, from now on.
Happens(keys) == happened' = happened \cup keys /\ UNCHANGED <<shown, heard>>

\* The task has these left to tell, in this order, and nothing else to do.
Tell(r, keys) ==
  IF keys = <<>> THEN Finish(r) ELSE Resume(r, [pc |-> "announce", news |-> keys])

\* A slip: the unique key is forgotten.
AnnounceAgain(r) ==
  /\ At(r, "announce")
  /\ shown' = shown \cup {Head(task[r].news)}
  /\ Goto(r, "push")
  /\ UNCHANGED <<happened, heard>>

\* insertIgnoringDuplicates: a key that is taken is passed over, push and all.
Announce(r) ==
  /\ At(r, "announce")
  /\ shown' = shown \cup {Head(task[r].news)}
  /\ IF Head(task[r].news) \in shown THEN Tell(r, Tail(task[r].news)) ELSE Goto(r, "push")
  /\ UNCHANGED <<happened, heard>>

\* deliverPush
Push(r) ==
  /\ At(r, "push")
  /\ heard' = [heard EXCEPT ![Head(task[r].news)] = @ + 1]
  /\ Tell(r, Tail(task[r].news))
  /\ UNCHANGED <<happened, shown>>

\* The insert or the push is rejected, which is logged; the next is told.
Swallow(r) ==
  /\ task[r].pc \in {"announce", "push"}
  /\ fails < MaxFails
  /\ fails' = fails + 1
  /\ task' = [task EXCEPT ![r] =
                IF Len(@.news) = 1 THEN Idle
                ELSE [pc |-> "announce", news |-> Tail(@.news)]]
  /\ UNCHANGED <<started, alone, notices>>

NoticeStep(r) == Announce(r) \/ Push(r)

NoticesInit ==
  /\ happened = {} /\ shown = {}
  /\ heard = [k \in Key |-> 0]

NewsTask == [pc : {"announce", "push"}, news : Seq(Key)]

NoticesOK ==
  /\ happened \subseteq Key
  /\ shown \subseteq happened
  /\ heard \in [Key -> 0 .. 1]
=============================================================================
