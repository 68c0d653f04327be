--------------------------- MODULE SupportTickets --------------------------
(***************************************************************************)
(* Support requests: a customer opens a ticket under one of the topics the *)
(* operators keep, both sides write messages, and operators assign it,     *)
(* resolve it, close it and open it again.                                 *)
(***************************************************************************)
EXTENDS Notices

VARIABLES
  topics,       \* support_topics, by creation
  tickets,      \* support_tickets, by creation
  messages      \* ticket_messages, by creation: the ticket of each

support == <<topics, tickets, messages>>

TopicState == {"active", "inactive", "removed"}
TicketStatus == {"open", "in_progress", "resolved", "closed"}
Ended == {"resolved", "closed"}

TicketRow == [topic : Row, status : TicketStatus, dated : SUBSET Ended]

TicketTask ==
       [pc : {"saveTopic"}, topic : Row, active : {"active", "inactive"}]
  \cup [pc : {"countTickets", "removeTopic", "insertTicket"}, topic : Row]
  \cup [pc : {"insertMessage"}, ticket : Row, says : {"asked", "question", "answer"}]
  \cup [pc : {"saveTicket"}, ticket : Row, found : TicketRow, says : SUBSET Ended]

SupportOK ==
  /\ topics \in Seq(TopicState) /\ Len(topics) <= MaxRequests
  /\ tickets \in Seq(TicketRow) /\ Len(tickets) <= MaxRequests
  /\ messages \in Seq(Row) /\ Len(messages) <= MaxRequests

Under(topic) == {i \in DOMAIN tickets : tickets[i].topic = topic}

\* createTopic
CreateTopic(r) ==
  /\ topics' = Append(topics, "active")
  /\ CallOnce(r)
  /\ UNCHANGED <<tickets, messages, notices>>

\* updateTopic: the row is read, changed, and saved one await later.
UpdateTopic(r) ==
  /\ \E p \in DOMAIN topics, a \in {"active", "inactive"} :
       /\ topics[p] # "removed"
       /\ Call(r, [pc |-> "saveTopic", topic |-> p, active |-> a])
  /\ UNCHANGED <<support, notices>>

\* save inserts the row again if it was removed meanwhile.
SaveTopic(r) ==
  /\ At(r, "saveTopic")
  /\ topics' = [topics EXCEPT ![task[r].topic] = task[r].active]
  /\ Finish(r)
  /\ UNCHANGED <<tickets, messages, notices>>

\* deleteTopic
DeleteTopic(r) ==
  /\ \E p \in DOMAIN topics :
       topics[p] # "removed" /\ Call(r, [pc |-> "countTickets", topic |-> p])
  /\ UNCHANGED <<support, notices>>

\* A topic that has tickets is deactivated instead: 400.
CountTickets(r) ==
  /\ At(r, "countTickets")
  /\ IF Under(task[r].topic) = {} THEN Goto(r, "removeTopic") ELSE Finish(r)
  /\ UNCHANGED <<support, notices>>

\* A slip: the tickets are taken to have been counted for good.
RemoveCounted(r) ==
  /\ At(r, "removeTopic")
  /\ topics' = [topics EXCEPT ![task[r].topic] = "removed"]
  /\ Finish(r)
  /\ UNCHANGED <<tickets, messages, notices>>

\* The foreign key of tickets has no ON DELETE: with a ticket by now, it rejects.
RemoveTopic(r) ==
  LET p == task[r].topic IN
  /\ At(r, "removeTopic")
  /\ topics' = IF Under(p) = {} THEN [topics EXCEPT ![p] = "removed"] ELSE topics
  /\ Finish(r)
  /\ UNCHANGED <<tickets, messages, notices>>

\* createTicket, under an active topic, or 400.
OpenTicket(r) ==
  /\ \E p \in DOMAIN topics :
       topics[p] = "active" /\ Call(r, [pc |-> "insertTicket", topic |-> p])
  /\ UNCHANGED <<support, notices>>

\* The foreign key again: a topic removed meanwhile rejects the ticket.
InsertTicket(r) ==
  LET p == task[r].topic IN
  /\ At(r, "insertTicket")
  /\ IF topics[p] = "removed"
     THEN Finish(r) /\ UNCHANGED tickets
     ELSE /\ tickets' = Append(tickets, [topic |-> p, status |-> "open", dated |-> {}])
          /\ Resume(r, [pc |-> "insertMessage", ticket |-> Len(tickets'), says |-> "asked"])
  /\ UNCHANGED <<topics, messages, notices>>

\* addMessage, by the customer or by an operator.
AddMessage(r) ==
  /\ \E i \in DOMAIN tickets, s \in {"question", "answer"} :
       Call(r, [pc |-> "insertMessage", ticket |-> i, says |-> s])
  /\ UNCHANGED <<support, notices>>

\* The first message of a ticket is news of the ticket, the others of themselves.
InsertMessage(r) ==
  LET t == task[r]
      news == <<t.says, IF t.says = "asked" THEN t.ticket ELSE Len(messages')>> IN
  /\ At(r, "insertMessage")
  /\ messages' = Append(messages, t.ticket)
  /\ Happens({news})
  /\ Tell(r, <<news>>)
  /\ UNCHANGED <<topics, tickets>>

\* updateTicket: assigning an operator to an open ticket puts it in progress,
\* unless a status is set as well.
UpdateTicket(r) ==
  /\ \E i \in DOMAIN tickets, assign \in BOOLEAN, s \in TicketStatus \cup {None} :
       LET was == tickets[i].status
           status == IF s # None THEN s
                     ELSE IF assign /\ was = "open" THEN "in_progress" ELSE was IN
       Call(r, [pc |-> "saveTicket", ticket |-> i,
                found |-> [tickets[i] EXCEPT !.status = status,
                                            !.dated = @ \cup ({s} \cap Ended)],
                says |-> IF s # was THEN {s} \cap Ended ELSE {}])
  /\ UNCHANGED <<support, notices>>

\* The whole row; the customer hears of an end, by a move (ticketClosedOut).
SaveTicket(r) ==
  LET t == task[r]
      news == {<<s, t.ticket>> : s \in t.says} IN
  /\ At(r, "saveTicket")
  /\ tickets' = [tickets EXCEPT ![t.ticket] = t.found]
  /\ Happens(news)
  /\ IF news = {} THEN Finish(r) ELSE \E k \in news : Tell(r, <<k>>)
  /\ UNCHANGED <<topics, messages>>

TicketRequest(r) ==
  \/ CreateTopic(r) \/ UpdateTopic(r) \/ DeleteTopic(r)
  \/ OpenTicket(r) \/ AddMessage(r) \/ UpdateTicket(r)

TicketStep(r) ==
  \/ SaveTopic(r) \/ CountTickets(r) \/ RemoveTopic(r)
  \/ InsertTicket(r) \/ InsertMessage(r) \/ SaveTicket(r)

SupportInit == topics = <<>> /\ tickets = <<>> /\ messages = <<>>

-----------------------------------------------------------------------------

(***************************************************************************)
(* A ticket always has its topic: a topic cannot be deleted between the    *)
(* look at the tickets and the removal, or between createTicket's look at  *)
(* the topic and its insert, whatever the others do meanwhile.             *)
(***************************************************************************)
TicketsHaveTopic == \A i \in DOMAIN tickets : topics[tickets[i].topic] # "removed"
=============================================================================
