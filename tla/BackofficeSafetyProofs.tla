----------------------- MODULE BackofficeSafetyProofs -----------------------
(***************************************************************************)
(* What the parts of Backoffice guarantee for every number of tasks,       *)
(* requests and failures: a ticket has its topic; a bill on which a figure *)
(* was derived adds up, whatever numbers the model reads; and, as long as  *)
(* tasks do not overlap, what was replaced stays rejected, one e-mail of a *)
(* kind is waited for at a time, the file a bill came with is not lost,    *)
(* and the offers sent are numbered without a gap, a rearranged list first *)
(* and the rest in the order it had.                                       *)
(***************************************************************************)
EXTENDS BackofficeProofs, FunctionTheorems

-----------------------------------------------------------------------------
(* Tasks that do not overlap. *)

\* As long as tasks do not overlap, one is busy at most.
OneBusy == alone => \A r, s \in Req : Busy(r) /\ Busy(s) => r = s

\* A step makes a request, or moves a task that was busy.
Moves(r) ==
  \/ \E t : Call(r, t)
  \/ /\ Busy(r) /\ UNCHANGED alone
     /\ \E t : task' = [task EXCEPT ![r] = t]

LEMMA AtBusy ==
  ASSUME NEW r \in Req, NEW pc, At(r, pc), pc # "idle"
  PROVE  Busy(r)
BY DEF At, Busy, Idle

LEMMA ResumeMoves ==
  ASSUME NEW r \in Req, Busy(r), NEW t, Resume(r, t)
  PROVE  Moves(r)
BY DEF Moves, Resume

LEMMA TellResumes ==
  ASSUME NEW r \in Req, Busy(r), NEW keys, Tell(r, keys)
  PROVE  Moves(r)
BY DEF Tell, Finish, Resume, Moves

LEMMA DocumentsMove ==
  ASSUME NEW r \in Req, DocRequest(r) \/ DocStep(r)
  PROVE  Moves(r)
<1>1. CASE DocRequest(r)
  BY <1>1 DEF DocRequest, UploadDoc, ReplaceDoc, JudgeDoc, Moves
<1>2. CASE InsertDoc(r)
  BY <1>2, AtBusy, TellResumes DEF InsertDoc
<1>3. CASE CheckReplaced(r)
  BY <1>3, AtBusy, ResumeMoves DEF CheckReplaced, Goto, Finish
<1>4. CASE SaveVerdict(r)
  BY <1>4, AtBusy, ResumeMoves, TellResumes DEF SaveVerdict, Finish
<1>. QED
  BY <1>1, <1>2, <1>3, <1>4 DEF DocStep

LEMMA SupportMoves ==
  ASSUME NEW r \in Req, TicketRequest(r) \/ TicketStep(r)
  PROVE  Moves(r)
<1>1. CASE TicketRequest(r)
  <2>1. \E t : Call(r, t)
    BY <1>1 DEF TicketRequest, CreateTopic, UpdateTopic, DeleteTopic, OpenTicket, AddMessage,
                UpdateTicket, CallOnce
  <2>. QED
    BY <2>1 DEF Moves
<1>2. CASE SaveTopic(r) \/ CountTickets(r) \/ RemoveTopic(r)
  BY <1>2, AtBusy, ResumeMoves DEF SaveTopic, CountTickets, RemoveTopic, Goto, Finish
<1>3. CASE InsertTicket(r)
  BY <1>3, AtBusy, ResumeMoves DEF InsertTicket, Finish
<1>4. CASE InsertMessage(r)
  BY <1>4, AtBusy, TellResumes DEF InsertMessage
<1>5. CASE SaveTicket(r)
  BY <1>5, AtBusy, TellResumes, ResumeMoves DEF SaveTicket, Finish
<1>. QED
  BY <1>1, <1>2, <1>3, <1>4, <1>5 DEF TicketStep

LEMMA IntakeMoves ==
  ASSUME NEW r \in Req, IntakeRequest(r) \/ IntakeStep(r)
  PROVE  Moves(r)
<1>1. CASE IntakeRequest(r)
  <2>1. \E t : Call(r, t)
    BY <1>1 DEF IntakeRequest, Upload, Promise, UploadEmail, AddFile, Merge
  <2>. QED
    BY <2>1 DEF Moves
<1>2. CASE InsertBill(r) \/ InsertFile(r)
  BY <1>2, AtBusy, ResumeMoves, TellResumes DEF InsertBill, InsertFile
<1>3. CASE SaveUpload(r) \/ InsertAdded(r) \/ SaveRead(r) \/ SaveMerged(r) \/ DropMerged(r)
  BY <1>3, AtBusy, ResumeMoves
     DEF SaveUpload, InsertAdded, SaveRead, SaveMerged, DropMerged, Finish
<1>. QED
  BY <1>1, <1>2, <1>3 DEF IntakeStep

LEMMA ReadMoves ==
  ASSUME NEW r \in Req, UploadUnread(r) \/ ReadStep(r)
  PROVE  Moves(r)
<1>1. CASE UploadUnread(r)
  BY <1>1 DEF UploadUnread, Moves
<1>2. CASE Look(r) \/ Retry(r) \/ LookAgain(r) \/ StoreReading(r)
  BY <1>2, AtBusy, ResumeMoves DEF Look, Retry, LookAgain, StoreReading, Goto, Finish
<1>3. CASE Refused(r) \/ GiveUp(r)
  <2>1. Busy(r)
    BY <1>3 DEF Refused, GiveUp, Busy, Idle
  <2>. QED
    BY <1>3, <2>1, ResumeMoves DEF Refused, GiveUp, Finish
<1>. QED
  BY <1>1, <1>2, <1>3 DEF ReadStep

LEMMA OrderMoves ==
  ASSUME NEW r \in Req, OrderRequest(r) \/ OrderStep(r)
  PROVE  Moves(r)
<1>1. CASE OrderRequest(r)
  BY <1>1 DEF OrderRequest, SendOffers, Reorder, Moves
<1>2. CASE OrderStep(r)
  BY <1>2, AtBusy, ResumeMoves DEF OrderStep, InsertSent, SaveOrder, Finish
<1>. QED
  BY <1>1, <1>2

LEMMA NoticeMoves ==
  ASSUME NEW r \in Req, Notice(r) \/ Die(r)
  PROVE  Moves(r)
<1>1. CASE Announce(r) \/ Push(r)
  BY <1>1, AtBusy, ResumeMoves, TellResumes DEF Announce, Push, Goto
<1>2. CASE Swallow(r)
  <2>1. Busy(r)
    BY <1>2 DEF Swallow, Busy, Idle
  <2>. QED
    BY <1>2, <2>1 DEF Swallow, Moves
<1>3. CASE Die(r)
  BY <1>3 DEF Die, Fail, Moves
<1>. QED
  BY <1>1, <1>2, <1>3 DEF Notice, NoticeStep

\* A task that tells of something tells of more, or is done; so is one that dies.
LEMMA NoticeTask ==
  ASSUME Inv, NEW r \in Req, Notice(r) \/ Die(r)
  PROVE  \E t : task' = [task EXCEPT ![r] = t] /\ t.pc \in {"idle", "announce", "push"}
<1>1. CASE Announce(r)
  <2>1. CASE Goto(r, "push")
    <3>1. task[r] \in NewsTask
      BY <1>1, NewsOf DEF Announce, At
    <3>2. [task[r] EXCEPT !.pc = "push"].pc = "push"
      BY <3>1 DEF NewsTask
    <3>. QED
      BY <2>1, <3>2 DEF Goto, Resume
  <2>2. CASE Tell(r, Tail(task[r].news))
    BY <2>2, IdleTask DEF Tell, Finish, Resume
  <2>. QED
    BY <1>1, <2>1, <2>2 DEF Announce
<1>2. CASE Push(r)
  BY <1>2, IdleTask DEF Push, Tell, Finish, Resume
<1>3. CASE Swallow(r)
  <2>1. PICK t : t = [pc |-> "announce", news |-> Tail(task[r].news)]
    OBVIOUS
  <2>2. task' = [task EXCEPT ![r] = Idle] \/ task' = [task EXCEPT ![r] = t]
    BY <1>3, <2>1 DEF Swallow
  <2>. QED
    BY <2>1, <2>2, IdleTask
<1>4. CASE Die(r)
  BY <1>4, IdleTask DEF Die, Fail
<1>. QED
  BY <1>1, <1>2, <1>3, <1>4 DEF Notice, NoticeStep

\* If tasks never overlapped, only the one that moves is busy.
LEMMA Alone ==
  ASSUME Inv, OneBusy, NEW r \in Req, Moves(r), alone'
  PROVE  alone /\ \A s \in Req \ {r} : task[s] = Idle /\ task'[s] = Idle
<1>1. PICK t : task' = [task EXCEPT ![r] = t]
  BY DEF Moves, Call
<1>2. \A s \in Req \ {r} : task'[s] = task[s]
  BY <1>1, TaskAt DEF Inv
<1>. QED
  BY <1>2 DEF Moves, Call, OneBusy, Busy

LEMMA MoveBusy ==
  ASSUME Inv, OneBusy, NEW r \in Req, Moves(r)
  PROVE  OneBusy'
<1>1. PICK t : task' = [task EXCEPT ![r] = t]
  BY DEF Moves, Call
<1>2. task'[r] = t /\ \A s \in Req \ {r} : task'[s] = task[s]
  BY <1>1, TaskAt DEF Inv
<1>3. alone' => alone /\ \A s \in Req \ {r} : ~Busy(s)
  BY DEF Moves, Call, OneBusy
<1>4. alone' => \A s \in Req \ {r} : ~Busy(s)'
  BY <1>2, <1>3 DEF Busy
<1>. QED
  BY <1>4 DEF OneBusy

LEMMA StepBusy ==
  ASSUME Inv, OneBusy, [Next]_vars
  PROVE  OneBusy'
<1>1. CASE UNCHANGED vars
  BY <1>1 DEF vars, calls, OneBusy, Busy
<1>2. CASE \E r \in Req : Moves(r)
  BY <1>2, MoveBusy
<1>. QED
  BY <1>1, <1>2, DocumentsMove, SupportMoves, IntakeMoves, ReadMoves, OrderMoves, NoticeMoves
     DEF Next, Documents, Support, Intake, Read, Order

LEMMA InitBusy == Init => OneBusy
BY DEF Init, CallsInit, OneBusy, Busy

-----------------------------------------------------------------------------
(* The topics of support requests. *)

TopicHeld ==
  \A i \in DOMAIN tickets :
    tickets[i].topic \in DOMAIN topics /\ topics[tickets[i].topic] # "removed"

\* A task's topic exists, or did; a ticket it saves keeps its topic.
TopicTasks ==
  \A r \in Req :
    /\ task[r].pc \in {"saveTopic", "removeTopic", "insertTicket"} =>
         task[r].topic \in DOMAIN topics
    /\ At(r, "countTickets") => task[r].topic \in DOMAIN topics
    /\ At(r, "saveTicket") => /\ task[r].ticket \in DOMAIN tickets
                              /\ task[r].found.topic = tickets[task[r].ticket].topic

TopicInv ==
  IF part = "support" THEN TopicHeld /\ TopicTasks ELSE topics = <<>> /\ tickets = <<>>

LEMMA InitTopic == Init => TopicInv
BY DEF Init, SupportInit, TopicInv, TopicHeld, TopicTasks, CallsInit, Idle, At

\* A task that goes to none of these places disturbs nothing.
LEMMA TopicMove ==
  ASSUME TypeOK, TopicTasks, NEW r \in Req, NEW t, task' = [task EXCEPT ![r] = t],
         DOMAIN topics \subseteq DOMAIN topics', DOMAIN tickets \subseteq DOMAIN tickets',
         \A i \in DOMAIN tickets : tickets'[i].topic = tickets[i].topic,
         t.pc \in {"saveTopic", "removeTopic", "insertTicket", "countTickets"} =>
           t.topic \in DOMAIN topics,
         t.pc = "saveTicket" =>
           t.ticket \in DOMAIN tickets /\ t.found.topic = tickets[t.ticket].topic
  PROVE  TopicTasks'
<1>1. task'[r] = t /\ \A s \in Req \ {r} : task'[s] = task[s]
  BY TaskAt
<1>2. ASSUME NEW s \in Req
      PROVE  /\ task'[s].pc \in {"saveTopic", "removeTopic", "insertTicket"} =>
                  task'[s].topic \in DOMAIN topics'
             /\ At(s, "countTickets")' => task'[s].topic \in DOMAIN topics'
             /\ At(s, "saveTicket")' => /\ task'[s].ticket \in DOMAIN tickets'
                                        /\ task'[s].found.topic = tickets'[task'[s].ticket].topic
  <2>1. CASE s = r
    BY <1>1, <2>1 DEF At
  <2>2. CASE s # r
    BY <1>1, <2>2 DEF At, TopicTasks
  <2>. QED
    BY <2>1, <2>2
<1>. QED
  BY <1>2 DEF TopicTasks

LEMMA TopicStep ==
  ASSUME Inv, TopicHeld, TopicTasks, NEW r \in Req, TicketRequest(r) \/ TicketStep(r)
  PROVE  TopicHeld' /\ TopicTasks'
<1>. DEFINE x == task[r]
<1>0. /\ TypeOK /\ topics \in Seq(TopicState) /\ tickets \in Seq(TicketRow)
      /\ x \in Task \cup {Idle}
  BY TaskAt DEF Inv, TypeOK, SupportOK
<1>1. ASSUME NEW t, task' = [task EXCEPT ![r] = t], UNCHANGED <<topics, tickets>>,
             t.pc \in {"saveTopic", "removeTopic", "insertTicket", "countTickets"} =>
               t.topic \in DOMAIN topics,
             t.pc = "saveTicket" =>
               t.ticket \in DOMAIN tickets /\ t.found.topic = tickets[t.ticket].topic
      PROVE  TopicHeld' /\ TopicTasks'
  BY <1>0, <1>1, TopicMove DEF TopicHeld
<1>2. CASE CreateTopic(r)
  <2>1. topics' = Append(topics, "active") /\ UNCHANGED tickets /\ task' = [task EXCEPT ![r] = Idle]
    BY <1>2 DEF CreateTopic, CallOnce, Call
  <2>2. DOMAIN topics \subseteq DOMAIN topics' /\ \A p \in DOMAIN topics : topics'[p] = topics[p]
    BY <1>0, <2>1, AppendProperties, LenProperties
  <2>3. TopicHeld'
    BY <2>1, <2>2 DEF TopicHeld
  <2>. QED
    BY <1>0, <2>1, <2>2, <2>3, TopicMove, IdleTask
<1>3. CASE UpdateTopic(r)
  <2>1. PICK p \in DOMAIN topics, a \in {"active", "inactive"} :
          Call(r, [pc |-> "saveTopic", topic |-> p, active |-> a])
    BY <1>3 DEF UpdateTopic
  <2>. QED
    BY <1>1, <1>3, <2>1 DEF UpdateTopic, Call, support
<1>4. CASE DeleteTopic(r)
  <2>1. PICK p \in DOMAIN topics : Call(r, [pc |-> "countTickets", topic |-> p])
    BY <1>4 DEF DeleteTopic
  <2>. QED
    BY <1>1, <1>4, <2>1 DEF DeleteTopic, Call, support
<1>5. CASE OpenTicket(r)
  <2>1. PICK p \in DOMAIN topics : Call(r, [pc |-> "insertTicket", topic |-> p])
    BY <1>5 DEF OpenTicket
  <2>. QED
    BY <1>1, <1>5, <2>1 DEF OpenTicket, Call, support
<1>6. CASE AddMessage(r)
  <2>1. PICK i \in DOMAIN tickets, s \in {"question", "answer"} :
          Call(r, [pc |-> "insertMessage", ticket |-> i, says |-> s])
    BY <1>6 DEF AddMessage
  <2>. QED
    BY <1>1, <1>6, <2>1 DEF AddMessage, Call, support
<1>7. CASE UpdateTicket(r)
  <2>1. PICK i, status, dated, says :
          /\ i \in DOMAIN tickets
          /\ Call(r, [pc |-> "saveTicket", ticket |-> i, says |-> says,
                      found |-> [tickets[i] EXCEPT !.status = status, !.dated = dated]])
    BY <1>7, Zenon DEF UpdateTicket
  <2>2. tickets[i] \in TicketRow
    BY <1>0, <2>1, ElementOfSeq, LenProperties
  <2>3. [tickets[i] EXCEPT !.status = status, !.dated = dated].topic = tickets[i].topic
    BY <2>2 DEF TicketRow
  <2>. QED
    BY <1>1, <1>7, <2>1, <2>3 DEF UpdateTicket, Call, support
<1>8. CASE SaveTopic(r)
  <2>1. x \in [pc : {"saveTopic"}, topic : Row, active : {"active", "inactive"}]
    BY <1>0, <1>8, TicketTasks DEF SaveTopic, At
  <2>2. topics' = [topics EXCEPT ![x.topic] = x.active] /\ UNCHANGED tickets
        /\ task' = [task EXCEPT ![r] = Idle]
    BY <1>8 DEF SaveTopic, Finish, Resume
  <2>3. DOMAIN topics' = DOMAIN topics
        /\ \A p \in DOMAIN topics : topics'[p] \in {topics[p], "active", "inactive"}
    BY <2>1, <2>2
  <2>4. TopicHeld'
    BY <2>2, <2>3 DEF TopicHeld
  <2>. QED
    BY <1>0, <2>2, <2>3, <2>4, TopicMove, IdleTask
<1>9. CASE CountTickets(r)
  <2>1. x \in [pc : {"countTickets", "removeTopic", "insertTicket"}, topic : Row]
    BY <1>0, <1>9, TicketTasks DEF CountTickets, At
  <2>2. PICK t : /\ task' = [task EXCEPT ![r] = t]
                 /\ t = Idle \/ (t.pc = "removeTopic" /\ t.topic = x.topic)
    BY <1>9, <2>1 DEF CountTickets, Goto, Finish, Resume
  <2>3. t.pc # "saveTicket"
        /\ (t.pc \in {"saveTopic", "removeTopic", "insertTicket", "countTickets"} =>
              t.topic \in DOMAIN topics)
    BY <1>9, <2>2, IdleTask DEF CountTickets, TopicTasks
  <2>. QED
    BY <1>1, <1>9, <2>2, <2>3 DEF CountTickets, support
<1>10. CASE RemoveTopic(r)
  <2>1. x.topic \in DOMAIN topics
    BY <1>10 DEF RemoveTopic, At, TopicTasks
  <2>2. /\ task' = [task EXCEPT ![r] = Idle] /\ UNCHANGED tickets
        /\ \/ topics' = topics
           \/ Under(x.topic) = {} /\ topics' = [topics EXCEPT ![x.topic] = "removed"]
    BY <1>10 DEF RemoveTopic, Finish, Resume
  <2>3. DOMAIN topics' = DOMAIN topics
        /\ \A p \in DOMAIN topics : Under(p) # {} => topics'[p] = topics[p]
    BY <2>1, <2>2
  <2>4. \A i \in DOMAIN tickets : Under(tickets[i].topic) # {}
    BY DEF Under
  <2>5. TopicHeld'
    BY <2>2, <2>3, <2>4 DEF TopicHeld
  <2>. QED
    BY <1>0, <2>2, <2>3, <2>5, TopicMove, IdleTask
<1>11. CASE InsertTicket(r)
  <2>. DEFINE row == [topic |-> x.topic, status |-> "open", dated |-> {}]
  <2>1. /\ UNCHANGED topics
        /\ \/ task' = [task EXCEPT ![r] = Idle] /\ UNCHANGED tickets
           \/ /\ topics[x.topic] # "removed" /\ tickets' = Append(tickets, row)
              /\ \E t : task' = [task EXCEPT ![r] = t] /\ t.pc = "insertMessage"
    <3>1. CASE topics[x.topic] = "removed"
      BY <1>11, <3>1 DEF InsertTicket, Finish, Resume
    <3>2. CASE topics[x.topic] # "removed"
      <4>1. PICK t : t = [pc |-> "insertMessage", ticket |-> Len(tickets'), says |-> "asked"]
        OBVIOUS
      <4>2. UNCHANGED topics /\ tickets' = Append(tickets, row)
            /\ task' = [task EXCEPT ![r] = t] /\ t.pc = "insertMessage"
        BY <1>11, <3>2, <4>1 DEF InsertTicket, Resume
      <4>. QED
        BY <3>2, <4>2
    <3>. QED
      BY <3>1, <3>2
  <2>2. CASE task' = [task EXCEPT ![r] = Idle] /\ UNCHANGED tickets
    BY <1>1, <2>1, <2>2, IdleTask
  <2>3. CASE /\ topics[x.topic] # "removed" /\ tickets' = Append(tickets, row)
             /\ \E t : task' = [task EXCEPT ![r] = t] /\ t.pc = "insertMessage"
    <3>1. x \in [pc : {"countTickets", "removeTopic", "insertTicket"}, topic : Row]
      BY <1>0, <1>11, TicketTasks DEF InsertTicket, At
    <3>2. row \in TicketRow /\ row.topic = x.topic /\ x.topic \in DOMAIN topics
      BY <1>11, <3>1 DEF TicketRow, TicketStatus, InsertTicket, At, TopicTasks
    <3>. HIDE DEF row
    <3>3. /\ DOMAIN tickets' = 1 .. Len(tickets) + 1 /\ DOMAIN tickets = 1 .. Len(tickets)
          /\ Len(tickets) \in Nat
          /\ \A i \in 1 .. Len(tickets) : tickets'[i] = tickets[i]
          /\ tickets'[Len(tickets) + 1] = row
      BY <1>0, <2>3, <3>2, AppendProperties, LenProperties
    <3>4. \A i \in DOMAIN tickets' : i \in DOMAIN tickets \/ i = Len(tickets) + 1
      BY <3>3
    <3>5. TopicHeld'
      BY <2>1, <2>3, <3>2, <3>3, <3>4 DEF TopicHeld
    <3>6. DOMAIN tickets \subseteq DOMAIN tickets'
      BY <3>3
    <3>7. PICK t : task' = [task EXCEPT ![r] = t] /\ t.pc = "insertMessage"
      BY <2>3
    <3>8. t.pc \notin {"saveTopic", "removeTopic", "insertTicket", "countTickets", "saveTicket"}
      BY <3>7
    <3>9. DOMAIN topics \subseteq DOMAIN topics'
          /\ \A i \in DOMAIN tickets : tickets'[i].topic = tickets[i].topic
      BY <2>1, <3>3
    <3>10. TopicTasks'
      BY <1>0, <3>6, <3>7, <3>8, <3>9, TopicMove
    <3>. QED
      BY <3>5, <3>10
  <2>. QED
    BY <2>1, <2>2, <2>3
<1>12. CASE InsertMessage(r)
  <2>1. /\ UNCHANGED <<topics, tickets>>
        /\ \E t : task' = [task EXCEPT ![r] = t] /\ t.pc \in {"idle", "announce"}
    BY <1>12, IdleTask DEF InsertMessage, Tell, Finish, Resume
  <2>. QED
    BY <1>1, <2>1
<1>13. CASE SaveTicket(r)
  <2>1. /\ tickets' = [tickets EXCEPT ![x.ticket] = x.found] /\ UNCHANGED topics
        /\ \E t : task' = [task EXCEPT ![r] = t] /\ t.pc \in {"idle", "announce"}
    BY <1>13, IdleTask DEF SaveTicket, Tell, Finish, Resume
  <2>2. x.ticket \in DOMAIN tickets /\ x.found.topic = tickets[x.ticket].topic
    BY <1>13 DEF SaveTicket, TopicTasks
  <2>3. DOMAIN tickets' = DOMAIN tickets
        /\ \A i \in DOMAIN tickets : tickets'[i].topic = tickets[i].topic
    BY <2>1, <2>2
  <2>4. TopicHeld'
    BY <2>1, <2>3 DEF TopicHeld
  <2>. QED
    BY <1>0, <2>1, <2>3, <2>4, TopicMove
<1>. QED
  BY <1>2, <1>3, <1>4, <1>5, <1>6, <1>7, <1>8, <1>9, <1>10, <1>11, <1>12, <1>13
     DEF TicketRequest, TicketStep

LEMMA StepTopic ==
  ASSUME Inv, TopicInv, [Next]_vars
  PROVE  TopicInv'
<1>0. TypeOK
  BY DEF Inv
<1>1. CASE UNCHANGED vars
  BY <1>1 DEF vars, support, calls, TopicInv, TopicHeld, TopicTasks, At
<1>2. CASE part # "support" /\ UNCHANGED <<part, support>>
  BY <1>2 DEF TopicInv, support
<1>3. CASE \E r \in Req : Support(r)
  <2>1. PICK r \in Req : part = "support" /\ UNCHANGED part /\ (TicketRequest(r) \/ TicketStep(r))
    BY <1>3 DEF Support
  <2>. QED
    BY <2>1, TopicStep DEF TopicInv
<1>4. CASE part = "support" /\ \E r \in Req : Notice(r) \/ Die(r)
  <2>1. PICK r \in Req : Notice(r) \/ Die(r)
    BY <1>4
  <2>2. UNCHANGED <<part, topics, tickets>>
    BY <2>1 DEF Notice, Die, support
  <2>3. \E t : task' = [task EXCEPT ![r] = t] /\ t.pc \in {"idle", "announce", "push"}
    BY <2>1, NoticeTask
  <2>4. TopicTasks'
    BY <1>0, <1>4, <2>2, <2>3, TopicMove DEF TopicInv
  <2>. QED
    BY <1>4, <2>2, <2>4 DEF TopicInv, TopicHeld
<1>5. \A r \in Req : Documents(r) \/ Intake(r) \/ Read(r) \/ Order(r) =>
        part # "support" /\ UNCHANGED <<part, support>>
  BY DEF Documents, Intake, Read, Order
<1>6. \A r \in Req : Notice(r) \/ Die(r) => UNCHANGED <<part, support>>
  BY DEF Notice, Die
<1>. QED
  BY <1>1, <1>2, <1>3, <1>4, <1>5, <1>6 DEF Next

(***************************************************************************)
(* A ticket always has its topic, however deletions, edits and new tickets *)
(* overlap or die (support.service.ts, and the foreign key of tickets).    *)
(***************************************************************************)
THEOREM TicketsKeepTopic == Spec => []TicketsHaveTopic
<1>1. Inv /\ TopicInv /\ [Next]_vars => TopicInv'
  BY StepTopic
<1>2. TopicInv => TicketsHaveTopic
  BY DEF TopicInv, TopicHeld, TicketsHaveTopic
<1>. QED
  BY <1>1, <1>2, InitTopic, Invariance, PTL DEF Spec

-----------------------------------------------------------------------------
(* The documents of a case. *)

\* A document exists, and what a document replaces; a task acts on what it found.
DocTaskOK(t) ==
  /\ t.pc = "insertDoc" =>
       \/ t.of = NoDoc
       \/ t.of \in DOMAIN docs /\ (alone => docs[t.of].verdict = "rejected")
  /\ t.pc \in {"checkReplaced", "saveVerdict"} => t.doc \in DOMAIN docs
  /\ alone /\ t.pc = "saveVerdict" => ~Replaced(t.doc)

DocHeld ==
  /\ \A e \in DOMAIN docs : docs[e].of = NoDoc \/ docs[e].of \in DOMAIN docs
  /\ ReplacedIsRejected

DocInv ==
  IF part = "documents" THEN DocHeld /\ (\A r \in Req : DocTaskOK(task[r])) ELSE docs = <<>>

LEMMA InitDoc == Init => DocInv
BY DEF Init, DocInit, DocInv, DocHeld, DocTaskOK, ReplacedIsRejected, CallsInit, Idle

\* The tasks that do not move are safe as long as no document goes away.
LEMMA DocMove ==
  ASSUME Inv, OneBusy, \A s \in Req : DocTaskOK(task[s]), NEW r \in Req, Moves(r),
         NEW t, task' = [task EXCEPT ![r] = t], DocTaskOK(t)',
         DOMAIN docs \subseteq DOMAIN docs'
  PROVE  (\A s \in Req : DocTaskOK(task[s]))'
<1>1. task'[r] = t /\ \A s \in Req \ {r} : task'[s] = task[s]
  BY TaskAt DEF Inv
<1>2. alone' => \A s \in Req \ {r} : task'[s].pc = "idle"
  BY Alone DEF Idle
<1>3. ASSUME NEW s \in Req
      PROVE  DocTaskOK(task[s])'
  <2>1. CASE s = r
    BY <1>1, <2>1 DEF DocTaskOK, Replaced
  <2>2. CASE s # r
    BY <1>1, <1>2, <2>2 DEF DocTaskOK
  <2>. QED
    BY <2>1, <2>2
<1>. QED
  BY <1>3

LEMMA DocStepHolds ==
  ASSUME Inv, OneBusy, DocHeld, \A s \in Req : DocTaskOK(task[s]),
         NEW r \in Req, DocRequest(r) \/ DocStep(r)
  PROVE  DocHeld' /\ (\A s \in Req : DocTaskOK(task[s]))'
<1>. DEFINE x == task[r]
<1>0. /\ docs \in Seq(DocRow) /\ x \in Task \cup {Idle} /\ Moves(r) /\ DocTaskOK(x)
      /\ alone' => alone
  BY TaskAt, DocumentsMove, Alone DEF Inv, TypeOK, DocOK
<1>1. ASSUME NEW t, task' = [task EXCEPT ![r] = t], UNCHANGED docs, DocTaskOK(t)'
      PROVE  DocHeld' /\ (\A s \in Req : DocTaskOK(task[s]))'
  <2>1. DocHeld'
    BY <1>0, <1>1 DEF DocHeld, ReplacedIsRejected, Replaced
  <2>. QED
    BY <1>0, <1>1, <2>1, DocMove
<1>2. CASE UploadDoc(r)
  <2>1. PICK by : Call(r, [pc |-> "insertDoc", of |-> NoDoc, by |-> by])
    BY <1>2 DEF UploadDoc
  <2>2. PICK t : t = [pc |-> "insertDoc", of |-> NoDoc, by |-> by]
    OBVIOUS
  <2>3. DocTaskOK(t)'
    BY <2>2 DEF DocTaskOK
  <2>. QED
    BY <1>1, <1>2, <2>1, <2>2, <2>3 DEF UploadDoc, Call
<1>3. CASE ReplaceDoc(r)
  <2>1. PICK d, by : /\ d \in DOMAIN docs /\ docs[d].verdict = "rejected"
                     /\ Call(r, [pc |-> "insertDoc", of |-> d, by |-> by])
    BY <1>3, Zenon DEF ReplaceDoc
  <2>2. PICK t : t = [pc |-> "insertDoc", of |-> d, by |-> by]
    OBVIOUS
  <2>3. DocTaskOK(t)'
    BY <1>3, <2>1, <2>2 DEF DocTaskOK, ReplaceDoc
  <2>. QED
    BY <1>1, <1>3, <2>1, <2>2, <2>3 DEF ReplaceDoc, Call
<1>4. CASE JudgeDoc(r)
  <2>1. PICK d, v : /\ d \in DOMAIN docs
                    /\ Call(r, [pc |-> "checkReplaced", doc |-> d, verdict |-> v])
    BY <1>4, Zenon DEF JudgeDoc
  <2>2. PICK t : t = [pc |-> "checkReplaced", doc |-> d, verdict |-> v]
    OBVIOUS
  <2>3. DocTaskOK(t)'
    BY <1>4, <2>1, <2>2 DEF DocTaskOK, JudgeDoc
  <2>. QED
    BY <1>1, <1>4, <2>1, <2>2, <2>3 DEF JudgeDoc, Call
<1>5. CASE InsertDoc(r)
  <2>. DEFINE row == [verdict |-> "none", of |-> x.of]
  <2>1. x \in [pc : {"insertDoc"}, of : {NoDoc} \cup Doc, by : {"customer", "operator"}]
    BY <1>0, <1>5, DocTasks DEF InsertDoc, At
  <2>2. docs' = Append(docs, row) /\ \E keys : Tell(r, keys)
    BY <1>5 DEF InsertDoc
  <2>3. PICK t : task' = [task EXCEPT ![r] = t] /\ t.pc \in {"idle", "announce"}
    BY <2>2, IdleTask DEF Tell, Finish, Resume
  <2>4. row \in DocRow /\ row.of = x.of /\ x.pc = "insertDoc"
    BY <2>1 DEF DocRow, Verdict
  <2>. HIDE DEF row
  <2>5. /\ DOMAIN docs' = 1 .. Len(docs) + 1 /\ DOMAIN docs = 1 .. Len(docs)
        /\ Len(docs) \in Nat
        /\ \A i \in 1 .. Len(docs) : docs'[i] = docs[i]
        /\ docs'[Len(docs) + 1] = row
    BY <1>0, <2>2, <2>4, AppendProperties, LenProperties
  <2>6. x.of = NoDoc \/ (x.of \in DOMAIN docs /\ (alone => docs[x.of].verdict = "rejected"))
    BY <1>0, <2>4 DEF DocTaskOK
  <2>7. \A e \in DOMAIN docs' : docs'[e].of = NoDoc \/ docs'[e].of \in DOMAIN docs
    BY <2>4, <2>5, <2>6 DEF DocHeld
  <2>8. ASSUME alone', NEW d \in DOMAIN docs', Replaced(d)'
        PROVE  docs'[d].verdict = "rejected"
    <3>1. PICK e \in DOMAIN docs' : docs'[e].of = d
      BY <2>8 DEF Replaced
    <3>2. d \in DOMAIN docs
      BY <2>5, <2>7, <2>8, <3>1 DEF NoDoc
    <3>3. CASE e \in DOMAIN docs
      BY <1>0, <2>5, <2>8, <3>1, <3>2, <3>3 DEF DocHeld, ReplacedIsRejected, Replaced
    <3>4. CASE e = Len(docs) + 1
      BY <1>0, <2>4, <2>5, <2>6, <2>8, <3>1, <3>2, <3>4 DEF NoDoc
    <3>. QED
      BY <2>5, <3>3, <3>4
  <2>9. DocHeld' /\ DOMAIN docs \subseteq DOMAIN docs'
    BY <2>5, <2>7, <2>8 DEF DocHeld, ReplacedIsRejected
  <2>10. DocTaskOK(t)'
    BY <2>3 DEF DocTaskOK
  <2>. QED
    BY <1>0, <2>3, <2>9, <2>10, DocMove
<1>6. CASE CheckReplaced(r)
  <2>1. x \in [pc : {"checkReplaced", "saveVerdict"}, doc : Doc,
               verdict : {"verified", "rejected"}] /\ x.pc = "checkReplaced"
    BY <1>0, <1>6, DocTasks DEF CheckReplaced, At
  <2>2. PICK t : t = [x EXCEPT !.pc = "saveVerdict"]
    OBVIOUS
  <2>3. UNCHANGED <<docs, alone>>
    BY <1>6 DEF CheckReplaced, Goto, Finish, Resume
  <2>4. CASE Replaced(x.doc)
    <3>1. task' = [task EXCEPT ![r] = Idle]
      BY <1>6, <2>4 DEF CheckReplaced, Finish, Resume
    <3>2. DocTaskOK(Idle)'
      BY DEF DocTaskOK, Idle
    <3>. QED
      BY <1>1, <2>3, <3>1, <3>2
  <2>5. CASE ~Replaced(x.doc)
    <3>1. task' = [task EXCEPT ![r] = t]
      BY <1>6, <2>2, <2>5 DEF CheckReplaced, Goto, Resume
    <3>2. t.pc = "saveVerdict" /\ t.doc = x.doc /\ x.doc \in DOMAIN docs
      BY <1>0, <2>1, <2>2 DEF DocTaskOK
    <3>3. DocTaskOK(t)'
      BY <2>3, <2>5, <3>2 DEF DocTaskOK, Replaced
    <3>. QED
      BY <1>1, <2>3, <3>1, <3>3
  <2>. QED
    BY <2>4, <2>5
<1>7. CASE SaveVerdict(r)
  <2>1. x \in [pc : {"checkReplaced", "saveVerdict"}, doc : Doc,
               verdict : {"verified", "rejected"}] /\ x.pc = "saveVerdict"
    BY <1>0, <1>7, DocTasks DEF SaveVerdict, At
  <2>2. docs' = [docs EXCEPT ![x.doc].verdict = x.verdict]
    BY <1>7 DEF SaveVerdict
  <2>3. PICK t : task' = [task EXCEPT ![r] = t] /\ t.pc \in {"idle", "announce"}
    BY <1>7, IdleTask DEF SaveVerdict, Tell, Finish, Resume
  <2>4. x.doc \in DOMAIN docs /\ (alone => ~Replaced(x.doc))
    BY <1>0, <2>1 DEF DocTaskOK
  <2>5. \A d \in DOMAIN docs : docs[d] \in DocRow
    BY <1>0, ElementOfSeq, LenProperties
  <2>6. /\ DOMAIN docs' = DOMAIN docs
        /\ \A d \in DOMAIN docs : docs'[d].of = docs[d].of
        /\ \A d \in DOMAIN docs : d # x.doc => docs'[d] = docs[d]
    BY <2>2, <2>5 DEF DocRow
  <2>7. \A d \in DOMAIN docs : Replaced(d)' <=> Replaced(d)
    BY <2>6 DEF Replaced
  <2>8. DocHeld'
    BY <1>0, <2>4, <2>6, <2>7 DEF DocHeld, ReplacedIsRejected
  <2>9. DocTaskOK(t)'
    BY <2>3 DEF DocTaskOK
  <2>. QED
    BY <1>0, <2>3, <2>6, <2>8, <2>9, DocMove
<1>. QED
  BY <1>2, <1>3, <1>4, <1>5, <1>6, <1>7 DEF DocRequest, DocStep

LEMMA StepDoc ==
  ASSUME Inv, OneBusy, DocInv, [Next]_vars
  PROVE  DocInv'
<1>1. CASE UNCHANGED vars
  BY <1>1 DEF vars, calls, DocInv, DocHeld, DocTaskOK, ReplacedIsRejected, Replaced
<1>2. CASE part # "documents" /\ UNCHANGED <<part, docs>>
  BY <1>2 DEF DocInv
<1>3. CASE \E r \in Req : Documents(r)
  <2>1. PICK r \in Req : part = "documents" /\ UNCHANGED part /\ (DocRequest(r) \/ DocStep(r))
    BY <1>3 DEF Documents
  <2>. QED
    BY <2>1, DocStepHolds DEF DocInv
<1>4. CASE part = "documents" /\ \E r \in Req : Notice(r) \/ Die(r)
  <2>1. PICK r \in Req : Notice(r) \/ Die(r)
    BY <1>4
  <2>2. UNCHANGED <<part, docs>> /\ Moves(r) /\ (alone' => alone)
    BY <2>1, NoticeMoves, Alone DEF Notice, Die
  <2>3. PICK t : task' = [task EXCEPT ![r] = t] /\ t.pc \in {"idle", "announce", "push"}
    BY <2>1, NoticeTask
  <2>4. DocTaskOK(t)'
    BY <2>3 DEF DocTaskOK
  <2>5. (\A s \in Req : DocTaskOK(task[s]))'
    BY <1>4, <2>2, <2>3, <2>4, DocMove DEF DocInv
  <2>. QED
    BY <1>4, <2>2, <2>5 DEF DocInv, DocHeld, ReplacedIsRejected, Replaced
<1>5. \A r \in Req : Support(r) \/ Intake(r) \/ Read(r) \/ Order(r) =>
        part # "documents" /\ UNCHANGED <<part, docs>>
  BY DEF Support, Intake, Read, Order
<1>6. \A r \in Req : Notice(r) \/ Die(r) => UNCHANGED <<part, docs>>
  BY DEF Notice, Die
<1>. QED
  BY <1>1, <1>2, <1>3, <1>4, <1>5, <1>6 DEF Next

(***************************************************************************)
(* What was replaced stays rejected, for any number of documents, tasks    *)
(* and deaths, as long as tasks do not overlap (cases.service.ts).         *)
(***************************************************************************)
THEOREM ReplacedStaysRejected == Spec => []ReplacedIsRejected
<1>1. Inv /\ OneBusy /\ DocInv /\ [Next]_vars => (OneBusy /\ DocInv)'
  BY StepBusy, StepDoc
<1>2. DocInv => ReplacedIsRejected
  BY DEF DocInv, DocHeld, ReplacedIsRejected
<1>. QED
  BY <1>1, <1>2, InitBusy, InitDoc, Invariance, PTL DEF Spec

-----------------------------------------------------------------------------
(* The intake of bills. *)

RowHeld(row) == row.live /\ (row.status = "pending_email" => row.file = NoFile)

\* A task that was alone since it looked still sees what it saw.
IntakeTaskOK(t) ==
  /\ t.pc \in {"saveUpload", "insertFile", "saveRead", "saveMerged", "dropMerged"} =>
       t.bill \in DOMAIN bills
  /\ t.pc \in {"insertBill", "saveUpload", "saveMerged"} => RowHeld(t.row)
  /\ t.pc \in {"insertFile", "saveRead"} => t.row.live
  /\ t.pc = "saveUpload" => t.row.status # "pending_email"
  /\ t.pc = "saveMerged" => t.into \in DOMAIN bills
  /\ alone /\ t.pc = "saveUpload" => bills[t.bill].file = NoFile
  /\ alone /\ t.pc \in {"insertFile", "saveRead"} => bills[t.bill].file = t.row.file
  /\ alone /\ t.pc = "saveMerged" =>
       t.row.file = bills[t.bill].file /\ bills[t.into].file = NoFile
  /\ alone /\ t.pc = "dropMerged" =>
       \/ bills[t.bill].file = NoFile
       \/ \E c \in Live \ {t.bill} : bills[c].file = bills[t.bill].file

BillHeld ==
  /\ \A b \in DOMAIN bills : bills[b].status = "pending_email" => bills[b].file = NoFile
  /\ FilesKept

IntakeInv ==
  IF part = "intake" THEN BillHeld /\ (\A r \in Req : IntakeTaskOK(task[r]))
  ELSE bills = <<>> /\ kept = {}

LEMMA InitIntake == Init => IntakeInv
<1>1. ASSUME Init, NEW r \in Req
      PROVE  task[r].pc = "idle"
  BY <1>1 DEF Init, CallsInit, Idle
<1>2. ASSUME Init
      PROVE  /\ \A b \in DOMAIN bills : bills[b].status = "pending_email" => bills[b].file = NoFile
             /\ FilesKept
  BY <1>2 DEF Init, IntakeInit, FilesKept, Live
<1>. QED
  BY <1>1, <1>2 DEF IntakeInv, IntakeTaskOK, BillHeld, Init, IntakeInit

\* The tasks that do not move are safe as long as no row of a bill goes away.
LEMMA IntakeMove ==
  ASSUME Inv, OneBusy, \A s \in Req : IntakeTaskOK(task[s]), NEW r \in Req, Moves(r),
         NEW t, task' = [task EXCEPT ![r] = t], IntakeTaskOK(t)',
         DOMAIN bills \subseteq DOMAIN bills'
  PROVE  (\A s \in Req : IntakeTaskOK(task[s]))'
<1>1. task'[r] = t /\ \A s \in Req \ {r} : task'[s] = task[s]
  BY TaskAt DEF Inv
<1>2. alone' => \A s \in Req \ {r} : task'[s].pc = "idle"
  BY Alone DEF Idle
<1>3. ASSUME NEW s \in Req
      PROVE  IntakeTaskOK(task[s])'
  <2>1. CASE s = r
    BY <1>1, <2>1 DEF IntakeTaskOK, Live, RowHeld
  <2>2. CASE s # r
    BY <1>1, <1>2, <2>2 DEF IntakeTaskOK, RowHeld
  <2>. QED
    BY <2>1, <2>2
<1>. QED
  BY <1>3

\* A row that is stored has the file that was there, or the first one.
LEMMA StoreHolds ==
  ASSUME Inv, BillHeld, NEW b \in DOMAIN bills, NEW row \in BillRow, Store(b, row), RowHeld(row),
         alone' => alone /\ bills[b].file \in {NoFile, row.file}
  PROVE  /\ BillHeld' /\ DOMAIN bills' = DOMAIN bills
         /\ bills'[b] = row /\ \A c \in DOMAIN bills : c # b => bills'[c] = bills[c]
<1>1. /\ DOMAIN bills' = DOMAIN bills /\ bills'[b] = row
      /\ \A c \in DOMAIN bills : c # b => bills'[c] = bills[c]
  BY DEF Store
<1>2. \A c \in DOMAIN bills' : bills'[c].status = "pending_email" => bills'[c].file = NoFile
  BY <1>1 DEF BillHeld, RowHeld
<1>5. ASSUME alone', NEW f \in kept'
      PROVE  \E c \in Live' : bills'[c].file = f
  <2>1. CASE f = row.file
    BY <1>1, <2>1 DEF Live, RowHeld
  <2>2. CASE f \in kept /\ f # row.file
    <3>1. PICK c \in Live : bills[c].file = f
      BY <1>5, <2>2 DEF BillHeld, FilesKept
    <3>2. f # NoFile
      BY <2>2, CallsAssumption DEF Inv, TypeOK, IntakeOK, File, Row, NoFile
    <3>. QED
      BY <1>1, <1>5, <2>2, <3>1, <3>2 DEF Live
  <2>. QED
    BY <2>1, <2>2 DEF Store
<1>6. FilesKept'
  BY <1>5 DEF FilesKept
<1>. QED
  BY <1>1, <1>2, <1>6 DEF BillHeld

\* A new row brings its own file.
LEMMA AppendHolds ==
  ASSUME Inv, BillHeld, NEW row \in BillRow, RowHeld(row),
         bills' = Append(bills, row), kept' = kept \cup ({row.file} \ {NoFile}),
         alone' => alone
  PROVE  /\ BillHeld' /\ DOMAIN bills \subseteq DOMAIN bills'
         /\ Len(bills) + 1 \in DOMAIN bills' /\ bills'[Len(bills) + 1] = row
<1>. DEFINE n == Len(bills) + 1
<1>0. bills \in Seq(BillRow)
  BY DEF Inv, TypeOK, IntakeOK
<1>1. /\ DOMAIN bills = 1 .. Len(bills) /\ DOMAIN bills' = 1 .. n /\ Len(bills) \in Nat
      /\ bills'[n] = row /\ \A c \in DOMAIN bills : bills'[c] = bills[c]
  BY <1>0, AppendProperties, LenProperties
<1>2. DOMAIN bills' = DOMAIN bills \cup {n} /\ n \notin DOMAIN bills
  BY <1>1
<1>. HIDE DEF n
<1>3. \A c \in DOMAIN bills' : bills'[c].status = "pending_email" => bills'[c].file = NoFile
  BY <1>1, <1>2 DEF BillHeld, RowHeld
<1>6. ASSUME alone', NEW f \in kept'
      PROVE  \E c \in Live' : bills'[c].file = f
  <2>1. CASE f = row.file
    BY <1>1, <1>2, <2>1 DEF Live, RowHeld
  <2>2. CASE f \in kept
    <3>1. PICK c \in Live : bills[c].file = f
      BY <1>6, <2>2 DEF BillHeld, FilesKept
    <3>. QED
      BY <1>1, <1>2, <3>1 DEF Live
  <2>. QED
    BY <2>1, <2>2
<1>7. FilesKept'
  BY <1>6 DEF FilesKept
<1>8. n \in DOMAIN bills' /\ bills'[n] = row
  BY <1>1, <1>2
<1>9. BillHeld' /\ DOMAIN bills \subseteq DOMAIN bills'
  BY <1>2, <1>3, <1>7 DEF BillHeld
<1>. QED
  BY <1>8, <1>9 DEF n

\* A request reads the bills, and changes none.
LEMMA IntakeRequestTask ==
  ASSUME Inv, BillHeld, NEW r \in Req, IntakeRequest(r), alone' => alone
  PROVE  \E t : task' = [task EXCEPT ![r] = t] /\ IntakeTaskOK(t)'
<1>0. UNCHANGED bills
  BY DEF IntakeRequest, Upload, Promise, UploadEmail, AddFile, Merge, intake
<1>1. CASE Upload(r)
  <2>1. PICK type \in BillType :
          Call(r, [pc |-> "insertBill", told |-> TRUE, read |-> FALSE,
                   row |-> [type |-> type, source |-> "upload", live |-> TRUE,
                            status |-> "verification_review", file |-> started']])
    BY <1>1 DEF Upload
  <2>2. PICK row : row = [type |-> type, source |-> "upload", live |-> TRUE,
                          status |-> "verification_review", file |-> started']
    OBVIOUS
  <2>3. PICK t : t = [pc |-> "insertBill", told |-> TRUE, read |-> FALSE, row |-> row]
    OBVIOUS
  <2>4. RowHeld(row) /\ row.status = "verification_review"
    BY <2>2 DEF RowHeld
  <2>5. IntakeTaskOK(t)'
    BY <2>3, <2>4 DEF IntakeTaskOK, RowHeld
  <2>. QED
    BY <2>1, <2>2, <2>3, <2>5 DEF Call
<1>2. CASE Promise(r)
  <2>1. PICK type \in BillType :
          Call(r, [pc |-> "insertBill", told |-> TRUE, read |-> FALSE,
                   row |-> [type |-> type, source |-> "email", live |-> TRUE,
                            status |-> "pending_email", file |-> NoFile]])
    BY <1>2 DEF Promise
  <2>2. PICK row : row = [type |-> type, source |-> "email", live |-> TRUE,
                          status |-> "pending_email", file |-> NoFile]
    OBVIOUS
  <2>3. PICK t : t = [pc |-> "insertBill", told |-> TRUE, read |-> FALSE, row |-> row]
    OBVIOUS
  <2>4. RowHeld(row)
    BY <2>2 DEF RowHeld
  <2>5. IntakeTaskOK(t)'
    BY <2>3, <2>4 DEF IntakeTaskOK, RowHeld
  <2>. QED
    BY <2>1, <2>2, <2>3, <2>5 DEF Call
<1>3. CASE UploadEmail(r)
  <2>1. PICK type \in BillType, read \in BOOLEAN :
          IF Waiting(type) = {}
          THEN Call(r, [pc |-> "insertBill", told |-> FALSE, read |-> read,
                        row |-> [type |-> type, source |-> "email", live |-> TRUE,
                                 status |-> "analyzing", file |-> started']])
          ELSE \E b \in Waiting(type) :
                 Call(r, [pc |-> "saveUpload", bill |-> b, read |-> read,
                          row |-> [bills[b] EXCEPT !.file = started', !.status = "analyzing"]])
    BY <1>3, Zenon DEF UploadEmail
  <2>2. CASE Waiting(type) = {}
    <3>1. PICK row : row = [type |-> type, source |-> "email", live |-> TRUE,
                            status |-> "analyzing", file |-> started']
      OBVIOUS
    <3>2. PICK t : t = [pc |-> "insertBill", told |-> FALSE, read |-> read, row |-> row]
      OBVIOUS
    <3>3. RowHeld(row) /\ row.status = "analyzing"
      BY <3>1 DEF RowHeld
    <3>4. IntakeTaskOK(t)'
      BY <3>2, <3>3 DEF IntakeTaskOK, RowHeld
    <3>. QED
      BY <2>1, <2>2, <3>1, <3>2, <3>4 DEF Call
  <2>3. CASE Waiting(type) # {}
    <3>1. PICK b \in Waiting(type) :
            Call(r, [pc |-> "saveUpload", bill |-> b, read |-> read,
                     row |-> [bills[b] EXCEPT !.file = started', !.status = "analyzing"]])
      BY <2>1, <2>3
    <3>2. b \in DOMAIN bills /\ bills[b] \in BillRow /\ bills[b].live /\ bills[b].file = NoFile
      BY LiveBill DEF Waiting, Live, BillHeld
    <3>3. PICK row : row = [bills[b] EXCEPT !.file = started', !.status = "analyzing"]
      OBVIOUS
    <3>4. PICK t : t = [pc |-> "saveUpload", bill |-> b, read |-> read, row |-> row]
      OBVIOUS
    <3>5. RowHeld(row) /\ row.status = "analyzing"
      BY <3>2, <3>3 DEF RowHeld, BillRow
    <3>6. IntakeTaskOK(t)'
      BY <1>0, <3>2, <3>4, <3>5 DEF IntakeTaskOK, RowHeld
    <3>. QED
      BY <3>1, <3>3, <3>4, <3>6 DEF Call
  <2>. QED
    BY <2>2, <2>3
<1>4. CASE AddFile(r)
  <2>1. PICK b, row : Call(r, [pc |-> "addFile", bill |-> b, row |-> row])
    BY <1>4 DEF AddFile
  <2>2. PICK t : t = [pc |-> "addFile", bill |-> b, row |-> row]
    OBVIOUS
  <2>3. IntakeTaskOK(t)'
    BY <2>2 DEF IntakeTaskOK
  <2>. QED
    BY <2>1, <2>2, <2>3 DEF Call
<1>5. CASE Merge(r)
  <2>1. PICK b \in Live, p \in Live :
          /\ bills[p].status = "pending_email"
          /\ Call(r, [pc |-> "saveMerged", bill |-> b, into |-> p,
                      row |-> [bills[p] EXCEPT !.file = bills[b].file,
                                 !.status = IF bills[b].file = NoFile
                                            THEN "pending_email" ELSE "analyzing"]])
    BY <1>5 DEF Merge
  <2>2. /\ b \in DOMAIN bills /\ p \in DOMAIN bills /\ bills[p] \in BillRow
        /\ bills[p].live /\ bills[p].file = NoFile
    BY <2>1, LiveBill DEF Live, BillHeld
  <2>3. PICK row : row = [bills[p] EXCEPT !.file = bills[b].file,
                            !.status = IF bills[b].file = NoFile
                                       THEN "pending_email" ELSE "analyzing"]
    OBVIOUS
  <2>4. PICK t : t = [pc |-> "saveMerged", bill |-> b, into |-> p, row |-> row]
    OBVIOUS
  <2>5. RowHeld(row) /\ row.file = bills[b].file
    BY <2>2, <2>3 DEF RowHeld, BillRow
  <2>7. IntakeTaskOK(t)'
    BY <1>0, <2>2, <2>4, <2>5 DEF IntakeTaskOK, RowHeld
  <2>. QED
    BY <2>1, <2>3, <2>4, <2>7 DEF Call
<1>. QED
  BY <1>1, <1>2, <1>3, <1>4, <1>5 DEF IntakeRequest

LEMMA IntakeStepHolds ==
  ASSUME Inv, OneBusy, BillHeld, \A s \in Req : IntakeTaskOK(task[s]),
         NEW r \in Req, IntakeRequest(r) \/ IntakeStep(r)
  PROVE  BillHeld' /\ (\A s \in Req : IntakeTaskOK(task[s]))'
<1>. DEFINE x == task[r]
<1>0. /\ x \in Task \cup {Idle} /\ Moves(r) /\ IntakeTaskOK(x)
      /\ alone' => alone
  BY TaskAt, IntakeMoves, Alone DEF Inv
<1>1. ASSUME NEW t, task' = [task EXCEPT ![r] = t], BillHeld', IntakeTaskOK(t)',
             DOMAIN bills \subseteq DOMAIN bills'
      PROVE  BillHeld' /\ (\A s \in Req : IntakeTaskOK(task[s]))'
  BY <1>0, <1>1, IntakeMove
<1>2. ASSUME UNCHANGED <<bills, kept>>
      PROVE  BillHeld'
  BY <1>0, <1>2 DEF BillHeld, FilesKept, Live
<1>3. ASSUME NEW t, task' = [task EXCEPT ![r] = t], t.pc \in {"idle", "announce"}, BillHeld',
             DOMAIN bills \subseteq DOMAIN bills'
      PROVE  BillHeld' /\ (\A s \in Req : IntakeTaskOK(task[s]))'
  <2>1. IntakeTaskOK(t)'
    BY <1>3 DEF IntakeTaskOK
  <2>. QED
    BY <1>1, <1>3, <2>1
<1>4. CASE IntakeRequest(r)
  <2>1. UNCHANGED <<bills, kept>>
    BY <1>4 DEF IntakeRequest, Upload, Promise, UploadEmail, AddFile, Merge, intake
  <2>2. PICK t : task' = [task EXCEPT ![r] = t] /\ IntakeTaskOK(t)'
    BY <1>0, <1>4, IntakeRequestTask
  <2>. QED
    BY <1>1, <1>2, <2>1, <2>2
<1>5. CASE InsertBill(r)
  <2>1. /\ x \in [pc : {"insertBill"}, row : BillRow, told : BOOLEAN, read : BOOLEAN]
        /\ x.row \in BillRow /\ x.pc = "insertBill"
    BY <1>0, <1>5, IntakeTasks DEF InsertBill, At
  <2>2. /\ bills' = Append(bills, x.row) /\ kept' = kept \cup ({x.row.file} \ {NoFile})
        /\ RowHeld(x.row)
    BY <1>0, <1>5, <2>1 DEF InsertBill, IntakeTaskOK
  <2>3. /\ BillHeld' /\ DOMAIN bills \subseteq DOMAIN bills'
        /\ Len(bills) + 1 \in DOMAIN bills' /\ bills'[Len(bills) + 1] = x.row
    BY <1>0, <2>1, <2>2, AppendHolds
  <2>4. PICK t : t = [pc |-> "insertFile", bill |-> Len(bills) + 1, row |-> x.row,
                      told |-> x.told, read |-> x.read]
    OBVIOUS
  <2>5. IntakeTaskOK(t)'
    BY <2>2, <2>3, <2>4 DEF IntakeTaskOK, RowHeld
  <2>6. CASE task' = [task EXCEPT ![r] = t]
    BY <1>1, <2>3, <2>5, <2>6
  <2>7. CASE \E keys : Tell(r, keys)
    <3>1. PICK u : task' = [task EXCEPT ![r] = u] /\ u.pc \in {"idle", "announce"}
      BY <2>7, IdleTask DEF Tell, Finish, Resume
    <3>. QED
      BY <1>3, <2>3, <3>1
  <2>. QED
    BY <1>5, <2>4, <2>6, <2>7 DEF InsertBill, Resume
<1>6. CASE SaveUpload(r)
  <2>1. /\ x \in [pc : {"saveUpload"}, bill : Row, row : Filed, read : BOOLEAN]
        /\ x.row \in BillRow /\ x.pc = "saveUpload"
    BY <1>0, <1>6, IntakeTasks DEF SaveUpload, At, Filed
  <2>2. /\ Store(x.bill, x.row) /\ RowHeld(x.row) /\ x.bill \in DOMAIN bills
        /\ x.row.status # "pending_email" /\ (alone => bills[x.bill].file = NoFile)
    BY <1>0, <1>6, <2>1 DEF SaveUpload, IntakeTaskOK
  <2>3. BillHeld' /\ DOMAIN bills' = DOMAIN bills /\ bills'[x.bill] = x.row
    BY <1>0, <2>1, <2>2, StoreHolds
  <2>4. PICK t : t = [pc |-> "insertFile", bill |-> x.bill, row |-> x.row,
                      told |-> FALSE, read |-> x.read]
    OBVIOUS
  <2>5. IntakeTaskOK(t)'
    BY <2>2, <2>3, <2>4 DEF IntakeTaskOK, RowHeld
  <2>6. task' = [task EXCEPT ![r] = t]
    BY <1>6, <2>4 DEF SaveUpload, Resume
  <2>. QED
    BY <1>1, <2>3, <2>5, <2>6
<1>7. CASE InsertFile(r)
  <2>1. /\ x \in [pc : {"insertFile"}, bill : Row, row : Filed, told : BOOLEAN, read : BOOLEAN]
        /\ x.pc = "insertFile" /\ UNCHANGED <<bills, kept>>
    BY <1>0, <1>7, IntakeTasks DEF InsertFile, At
  <2>2. PICK t : t = [pc |-> "saveRead", bill |-> x.bill, row |-> x.row]
    OBVIOUS
  <2>3. IntakeTaskOK(t)'
    BY <1>0, <2>1, <2>2 DEF IntakeTaskOK
  <2>4. CASE task' = [task EXCEPT ![r] = t]
    BY <1>1, <1>2, <2>1, <2>3, <2>4
  <2>5. CASE \E keys : Tell(r, keys)
    <3>1. PICK u : task' = [task EXCEPT ![r] = u] /\ u.pc \in {"idle", "announce"}
      BY <2>5, IdleTask DEF Tell, Finish, Resume
    <3>. QED
      BY <1>2, <1>3, <2>1, <3>1
  <2>. QED
    BY <1>7, <2>2, <2>4, <2>5 DEF InsertFile, Resume
<1>8. CASE InsertAdded(r)
  <2>1. UNCHANGED <<bills, kept>> /\ task' = [task EXCEPT ![r] = Idle]
    BY <1>8 DEF InsertAdded, Finish, Resume
  <2>. QED
    BY <1>2, <1>3, <2>1, IdleTask
<1>9. CASE SaveRead(r)
  <2>. DEFINE row == [x.row EXCEPT !.status = "verification_review"]
  <2>1. /\ x \in [pc : {"saveRead", "addFile"}, bill : Row, row : Filed]
        /\ x.row \in BillRow /\ x.pc = "saveRead"
    BY <1>0, <1>9, IntakeTasks DEF SaveRead, At, Filed
  <2>2. row \in BillRow /\ row.file = x.row.file /\ row.live = x.row.live
        /\ row.status = "verification_review"
    BY <2>1 DEF BillRow, Status
  <2>3. Store(x.bill, row) /\ task' = [task EXCEPT ![r] = Idle]
    BY <1>9 DEF SaveRead, Finish, Resume
  <2>. HIDE DEF row
  <2>4. /\ RowHeld(row) /\ x.bill \in DOMAIN bills
        /\ row.status # "pending_email" /\ (alone => bills[x.bill].file = row.file)
    BY <1>0, <2>1, <2>2 DEF IntakeTaskOK, RowHeld
  <2>5. BillHeld' /\ DOMAIN bills' = DOMAIN bills
    BY <1>0, <2>2, <2>3, <2>4, StoreHolds
  <2>. QED
    BY <1>3, <2>3, <2>5, IdleTask
<1>10. CASE SaveMerged(r)
  <2>1. /\ x \in [pc : {"saveMerged"}, bill : Row, into : Row, row : BillRow]
        /\ x.row \in BillRow /\ x.pc = "saveMerged"
    BY <1>0, <1>10, IntakeTasks DEF SaveMerged, At
  <2>2. PICK t : t = [pc |-> "dropMerged", bill |-> x.bill]
    OBVIOUS
  <2>3. Store(x.into, x.row) /\ task' = [task EXCEPT ![r] = t]
    BY <1>10, <2>2 DEF SaveMerged, Resume
  <2>4. /\ RowHeld(x.row) /\ x.bill \in DOMAIN bills /\ x.into \in DOMAIN bills
        /\ alone => x.row.file = bills[x.bill].file /\ bills[x.into].file = NoFile
    BY <1>0, <2>1 DEF IntakeTaskOK
  <2>5. /\ BillHeld' /\ DOMAIN bills' = DOMAIN bills /\ bills'[x.into] = x.row
        /\ \A c \in DOMAIN bills : c # x.into => bills'[c] = bills[c]
    BY <1>0, <2>1, <2>3, <2>4, StoreHolds
  <2>6. ASSUME alone'
        PROVE  \/ bills'[x.bill].file = NoFile
               \/ \E c \in Live' \ {x.bill} : bills'[c].file = bills'[x.bill].file
    <3>1. CASE x.bill = x.into
      BY <1>0, <2>4, <2>5, <2>6, <3>1
    <3>2. CASE x.bill # x.into
      BY <1>0, <2>4, <2>5, <2>6, <3>2 DEF Live, RowHeld
    <3>. QED
      BY <3>1, <3>2
  <2>7. IntakeTaskOK(t)'
    BY <2>2, <2>4, <2>5, <2>6 DEF IntakeTaskOK
  <2>. QED
    BY <1>1, <2>3, <2>5, <2>7
<1>11. CASE DropMerged(r)
  <2>1. task' = [task EXCEPT ![r] = Idle] /\ UNCHANGED kept
        /\ bills' \in {bills, [bills EXCEPT ![x.bill].live = FALSE]}
    BY <1>11 DEF DropMerged, Finish, Resume
  <2>2. /\ x.bill \in DOMAIN bills
        /\ alone => \/ bills[x.bill].file = NoFile
                    \/ \E c \in Live \ {x.bill} : bills[c].file = bills[x.bill].file
    BY <1>0, <1>11 DEF DropMerged, At, IntakeTaskOK
  <2>3. CASE bills' = bills
    BY <1>2, <1>3, <2>1, <2>3, IdleTask
  <2>4. CASE bills' = [bills EXCEPT ![x.bill].live = FALSE]
    <3>1. \A c \in DOMAIN bills : bills[c] \in BillRow
      BY ElementOfSeq, LenProperties DEF Inv, TypeOK, IntakeOK
    <3>2. /\ DOMAIN bills' = DOMAIN bills
          /\ \A c \in DOMAIN bills : /\ bills'[c].status = bills[c].status
                                     /\ bills'[c].file = bills[c].file
                                     /\ bills'[c].type = bills[c].type
                                     /\ bills'[c].source = bills[c].source
                                     /\ bills'[c].live = (bills[c].live /\ c # x.bill)
      BY <2>2, <2>4, <3>1 DEF BillRow
    <3>3. \A c \in DOMAIN bills' : bills'[c].status = "pending_email" => bills'[c].file = NoFile
      BY <3>2 DEF BillHeld
    <3>6. ASSUME alone', NEW f \in kept'
          PROVE  \E c \in Live' : bills'[c].file = f
      <4>1. PICK c \in Live : bills[c].file = f
        BY <1>0, <2>1, <3>6 DEF BillHeld, FilesKept
      <4>2. f # NoFile
        BY <2>1, CallsAssumption DEF Inv, TypeOK, IntakeOK, File, Row, NoFile
      <4>3. \E d \in Live \ {x.bill} : bills[d].file = f
        BY <1>0, <2>2, <3>6, <4>1, <4>2
      <4>. QED
        BY <3>2, <4>3 DEF Live
    <3>7. FilesKept'
      BY <3>6 DEF FilesKept
    <3>8. BillHeld'
      BY <3>3, <3>7 DEF BillHeld
    <3>. QED
      BY <1>3, <2>1, <3>2, <3>8, IdleTask
  <2>. QED
    BY <2>1, <2>3, <2>4
<1>. QED
  BY <1>4, <1>5, <1>6, <1>7, <1>8, <1>9, <1>10, <1>11 DEF IntakeStep

LEMMA StepIntake ==
  ASSUME Inv, OneBusy, IntakeInv, [Next]_vars
  PROVE  IntakeInv'
<1>1. CASE UNCHANGED vars
  BY <1>1 DEF vars, calls, intake, IntakeInv, BillHeld, IntakeTaskOK, FilesKept, Live, RowHeld
<1>2. CASE part # "intake" /\ UNCHANGED <<part, intake>>
  BY <1>2 DEF IntakeInv, intake
<1>3. CASE \E r \in Req : Intake(r)
  <2>1. PICK r \in Req : part = "intake" /\ UNCHANGED part /\ (IntakeRequest(r) \/ IntakeStep(r))
    BY <1>3 DEF Intake
  <2>. QED
    BY <2>1, IntakeStepHolds DEF IntakeInv
<1>4. CASE part = "intake" /\ \E r \in Req : Notice(r) \/ Die(r)
  <2>1. PICK r \in Req : Notice(r) \/ Die(r)
    BY <1>4
  <2>2. UNCHANGED <<part, bills, kept>> /\ Moves(r) /\ (alone' => alone)
    BY <2>1, NoticeMoves, Alone DEF Notice, Die, intake
  <2>3. PICK t : task' = [task EXCEPT ![r] = t] /\ t.pc \in {"idle", "announce", "push"}
    BY <2>1, NoticeTask
  <2>4. IntakeTaskOK(t)'
    BY <2>3 DEF IntakeTaskOK
  <2>5. (\A s \in Req : IntakeTaskOK(task[s]))'
    BY <1>4, <2>2, <2>3, <2>4, IntakeMove DEF IntakeInv
  <2>6. BillHeld'
    BY <1>4, <2>2 DEF IntakeInv, BillHeld, FilesKept, Live
  <2>. QED
    BY <1>4, <2>2, <2>5, <2>6 DEF IntakeInv
<1>5. \A r \in Req : Documents(r) \/ Support(r) \/ Read(r) \/ Order(r) =>
        part # "intake" /\ UNCHANGED <<part, intake>>
  BY DEF Documents, Support, Read, Order
<1>6. \A r \in Req : Notice(r) \/ Die(r) => UNCHANGED <<part, intake>>
  BY DEF Notice, Die
<1>. QED
  BY <1>1, <1>2, <1>3, <1>4, <1>5, <1>6 DEF Next

LEMMA IntakeInvariance == Spec => []IntakeInv
<1>1. Inv /\ OneBusy /\ IntakeInv /\ [Next]_vars => (OneBusy /\ IntakeInv)'
  BY StepBusy, StepIntake
<1>. QED
  BY <1>1, InitBusy, InitIntake, Invariance, PTL DEF Spec

\* A task past its look left nothing that waits but what it is to overwrite.
Reserves(r) ==
  /\ At(r, "insertBill") /\ task[r].row.status = "pending_email" =>
       Waiting(task[r].row.type) = {}
  /\ At(r, "saveMerged") /\ task[r].row.status = "pending_email" /\ task[r].row.source = "email" =>
       Waiting(task[r].row.type) \subseteq {task[r].into}

WaitInv == part = "intake" => OneWaits /\ \A r \in Req : Reserves(r)

\* Nothing more waits, and one task goes on.
LEMMA FewerWait ==
  ASSUME OneWaits, \A s \in Req : Reserves(s),
         \A type \in BillType : Waiting(type)' \subseteq Waiting(type),
         \A s \in Req : \/ task'[s] = task[s] /\ task[s] \in Task \cup {Idle}
                        \/ Reserves(s)'
  PROVE  OneWaits' /\ \A s \in Req : Reserves(s)'
<1>1. OneWaits'
  BY DEF OneWaits
<1>2. ASSUME NEW s \in Req, task'[s] = task[s], task[s] \in Task \cup {Idle}
      PROVE  Reserves(s)'
  <2>1. task[s].pc \in {"insertBill", "saveMerged"} => task[s].row.type \in BillType
    BY <1>2, IntakeTasks DEF BillRow
  <2>. QED
    BY <1>2, <2>1 DEF Reserves, At
<1>. QED
  BY <1>1, <1>2

\* The one task that was to store a placeholder of the type stores it.
LEMMA OneMoreWaits ==
  ASSUME OneWaits, \A s \in Req : Reserves(s), PlaceholdersApart,
         NEW r \in Req, NEW kind \in BillType, Places(r, kind), NEW p,
         Waiting(kind)' \subseteq {p},
         \A type \in BillType \ {kind} : Waiting(type)' \subseteq Waiting(type),
         Reserves(r)',
         \A s \in Req \ {r} : task'[s] = task[s] /\ task[s] \in Task \cup {Idle}
  PROVE  OneWaits' /\ \A s \in Req : Reserves(s)'
<1>1. OneWaits'
  BY DEF OneWaits
<1>2. ASSUME NEW s \in Req \ {r} PROVE Reserves(s)'
  <2>1. task'[s] = task[s] /\ ~Places(s, kind) /\ Reserves(s)
    BY DEF PlaceholdersApart
  <2>2. task[s].pc \in {"insertBill", "saveMerged"} => task[s].row.type \in BillType
    BY IntakeTasks DEF BillRow
  <2>. QED
    BY <2>1, <2>2 DEF Reserves, At, Places
<1>. QED
  BY <1>1, <1>2

\* A stored row that does not wait.
LEMMA StoreFewer ==
  ASSUME NEW b \in DOMAIN bills, NEW row, bills' = [bills EXCEPT ![b] = row],
         row.status # "pending_email" \/ row.source # "email", NEW type \in BillType
  PROVE  Waiting(type)' \subseteq Waiting(type)
BY DEF Waiting, Live

\* A request holds a placeholder only where nothing of its type waits.
LEMMA RequestReserves ==
  ASSUME Inv, IntakeInv, part = "intake", OneWaits, NEW r \in Req, IntakeRequest(r)
  PROVE  UNCHANGED bills /\ Reserves(r)'
<1>0. UNCHANGED bills /\ \A type : Waiting(type)' = Waiting(type)
  BY DEF IntakeRequest, Upload, Promise, UploadEmail, AddFile, Merge, intake, Waiting, Live
<1>6. ASSUME NEW t, Call(r, t) PROVE task'[r] = t
  BY <1>6, TaskAt DEF Inv, Call
<1>1. CASE Upload(r)
  <2>1. PICK row : /\ Call(r, [pc |-> "insertBill", told |-> TRUE, read |-> FALSE, row |-> row])
                   /\ row.status = "verification_review"
    <3>1. PICK type \in BillType :
            Call(r, [pc |-> "insertBill", told |-> TRUE, read |-> FALSE,
                     row |-> [type |-> type, source |-> "upload", live |-> TRUE,
                              status |-> "verification_review", file |-> started']])
      BY <1>1 DEF Upload
    <3>2. PICK row : row = [type |-> type, source |-> "upload", live |-> TRUE,
                            status |-> "verification_review", file |-> started']
      OBVIOUS
    <3>3. row.status = "verification_review"
      BY <3>2
    <3>. QED
      BY <3>1, <3>2, <3>3
  <2>2. PICK t : t = [pc |-> "insertBill", told |-> TRUE, read |-> FALSE, row |-> row]
    OBVIOUS
  <2>3. task'[r] = t
    BY <1>6, <2>1, <2>2
  <2>. QED
    BY <1>0, <2>1, <2>2, <2>3 DEF Reserves, At
<1>2. CASE Promise(r)
  <2>1. PICK type \in BillType :
          /\ Waiting(type) = {}
          /\ Call(r, [pc |-> "insertBill", told |-> TRUE, read |-> FALSE,
                      row |-> [type |-> type, source |-> "email", live |-> TRUE,
                               status |-> "pending_email", file |-> NoFile]])
    BY <1>2 DEF Promise
  <2>2. PICK row : row = [type |-> type, source |-> "email", live |-> TRUE,
                          status |-> "pending_email", file |-> NoFile]
    OBVIOUS
  <2>3. PICK t : t = [pc |-> "insertBill", told |-> TRUE, read |-> FALSE, row |-> row]
    OBVIOUS
  <2>4. t.pc = "insertBill" /\ t.row.type = type /\ Waiting(type)' = {}
    BY <1>0, <2>1, <2>2, <2>3
  <2>5. task'[r] = t
    BY <1>6, <2>1, <2>2, <2>3
  <2>. QED
    BY <1>0, <2>4, <2>5 DEF Reserves, At
<1>3. CASE UploadEmail(r)
  <2>1. PICK b, read, row :
          \/ /\ Call(r, [pc |-> "insertBill", told |-> FALSE, read |-> read, row |-> row])
             /\ row.status = "analyzing"
          \/ Call(r, [pc |-> "saveUpload", bill |-> b, read |-> read, row |-> row])
    <3>1. PICK type \in BillType, read \in BOOLEAN :
            IF Waiting(type) = {}
            THEN Call(r, [pc |-> "insertBill", told |-> FALSE, read |-> read,
                          row |-> [type |-> type, source |-> "email", live |-> TRUE,
                                   status |-> "analyzing", file |-> started']])
            ELSE \E b \in Waiting(type) :
                   Call(r, [pc |-> "saveUpload", bill |-> b, read |-> read,
                            row |-> [bills[b] EXCEPT !.file = started', !.status = "analyzing"]])
      BY <1>3, Zenon DEF UploadEmail
    <3>2. CASE Waiting(type) = {}
      <4>1. PICK row : row = [type |-> type, source |-> "email", live |-> TRUE,
                              status |-> "analyzing", file |-> started']
        OBVIOUS
      <4>2. row.status = "analyzing"
        BY <4>1
      <4>. QED
        BY <3>1, <3>2, <4>1, <4>2
    <3>3. CASE Waiting(type) # {}
      BY <3>1, <3>3
    <3>. QED
      BY <3>2, <3>3
  <2>2. CASE /\ Call(r, [pc |-> "insertBill", told |-> FALSE, read |-> read, row |-> row])
             /\ row.status = "analyzing"
    <3>1. PICK t : t = [pc |-> "insertBill", told |-> FALSE, read |-> read, row |-> row]
      OBVIOUS
    <3>2. task'[r] = t
      BY <1>6, <2>2, <3>1
    <3>. QED
      BY <1>0, <2>2, <3>1, <3>2 DEF Reserves, At
  <2>3. CASE Call(r, [pc |-> "saveUpload", bill |-> b, read |-> read, row |-> row])
    <3>1. PICK t : t = [pc |-> "saveUpload", bill |-> b, read |-> read, row |-> row]
      OBVIOUS
    <3>2. task'[r] = t
      BY <1>6, <2>3, <3>1
    <3>. QED
      BY <1>0, <3>1, <3>2 DEF Reserves, At
  <2>. QED
    BY <2>1, <2>2, <2>3
<1>4. CASE AddFile(r)
  <2>1. PICK b, row : Call(r, [pc |-> "addFile", bill |-> b, row |-> row])
    BY <1>4 DEF AddFile
  <2>2. PICK t : t = [pc |-> "addFile", bill |-> b, row |-> row]
    OBVIOUS
  <2>3. task'[r] = t
    BY <1>6, <2>1, <2>2
  <2>. QED
    BY <1>0, <2>2, <2>3 DEF Reserves, At
<1>5. CASE Merge(r)
  <2>1. PICK b \in Live, p \in Live :
          /\ bills[p].status = "pending_email"
          /\ Call(r, [pc |-> "saveMerged", bill |-> b, into |-> p,
                      row |-> [bills[p] EXCEPT !.file = bills[b].file,
                                 !.status = IF bills[b].file = NoFile
                                            THEN "pending_email" ELSE "analyzing"]])
    BY <1>5 DEF Merge
  <2>2. p \in DOMAIN bills /\ bills[p] \in BillRow
    BY <2>1, LiveBill
  <2>3. PICK row : row = [bills[p] EXCEPT !.file = bills[b].file,
                            !.status = IF bills[b].file = NoFile
                                       THEN "pending_email" ELSE "analyzing"]
    OBVIOUS
  <2>4. PICK t : t = [pc |-> "saveMerged", bill |-> b, into |-> p, row |-> row]
    OBVIOUS
  <2>5. row.source = bills[p].source /\ row.type = bills[p].type /\ row.type \in BillType
    BY <2>2, <2>3 DEF BillRow
  <2>6. row.source = "email" => Waiting(row.type)' \subseteq {p}
    <3>1. row.source = "email" => p \in Waiting(row.type)
      BY <2>1, <2>5 DEF Waiting
    <3>. QED
      BY <1>0, <2>5, <3>1 DEF OneWaits
  <2>7. task'[r] = t
    BY <1>6, <2>1, <2>3, <2>4
  <2>. QED
    BY <1>0, <2>4, <2>6, <2>7 DEF Reserves, At
<1>. QED
  BY <1>1, <1>2, <1>3, <1>4, <1>5 DEF IntakeRequest

LEMMA IntakeWaits ==
  ASSUME Inv, IntakeInv, part = "intake", OneWaits, \A s \in Req : Reserves(s),
         PlaceholdersApart, NEW r \in Req, IntakeRequest(r) \/ IntakeStep(r)
  PROVE  OneWaits' /\ \A s \in Req : Reserves(s)'
<1>. DEFINE x == task[r]
<1>0. /\ x \in Task \cup {Idle} /\ IntakeTaskOK(x) /\ Reserves(r) /\ bills \in Seq(BillRow)
      /\ \A s \in Req \ {r} : task'[s] = task[s] /\ task[s] \in Task \cup {Idle}
  <2>1. PICK t : task' = [task EXCEPT ![r] = t]
    BY IntakeMoves DEF Moves, Call
  <2>. QED
    BY <2>1, TaskAt DEF Inv, TypeOK, IntakeOK, IntakeInv
<1>1. ASSUME \A type \in BillType : Waiting(type)' \subseteq Waiting(type), Reserves(r)'
      PROVE  OneWaits' /\ \A s \in Req : Reserves(s)'
  BY <1>0, <1>1, FewerWait
<1>2. ASSUME task'[r].pc \notin {"insertBill", "saveMerged"}
      PROVE  Reserves(r)'
  BY <1>2 DEF Reserves, At
<1>3. UNCHANGED bills => \A type \in BillType : Waiting(type)' \subseteq Waiting(type)
  BY DEF Waiting, Live
<1>4. \A t : task' = [task EXCEPT ![r] = t] => task'[r] = t
  BY TaskAt DEF Inv
<1>5. CASE IntakeRequest(r)
  <2>1. UNCHANGED bills /\ Reserves(r)'
    BY <1>5, RequestReserves
  <2>. QED
    BY <1>1, <1>3, <2>1
<1>6. CASE InsertBill(r)
  <2>. DEFINE n == Len(bills) + 1
  <2>1. /\ x.row \in BillRow /\ x.row.type \in BillType /\ x.pc = "insertBill"
        /\ bills' = Append(bills, x.row)
    BY <1>0, <1>6, IntakeTasks DEF InsertBill, At, BillRow
  <2>2. task'[r].pc \notin {"insertBill", "saveMerged"}
    <3>1. PICK t : t = [pc |-> "insertFile", bill |-> n, row |-> x.row,
                        told |-> x.told, read |-> x.read]
      OBVIOUS
    <3>2. \/ task' = [task EXCEPT ![r] = t] /\ t.pc = "insertFile"
          \/ \E keys : Tell(r, keys)
      BY <1>6, <3>1 DEF InsertBill, Resume
    <3>3. CASE \E keys : Tell(r, keys)
      <4>1. PICK u : task' = [task EXCEPT ![r] = u] /\ u.pc \in {"idle", "announce"}
        BY <3>3, IdleTask DEF Tell, Finish, Resume
      <4>. QED
        BY <1>4, <4>1
    <3>. QED
      BY <1>4, <3>2, <3>3
  <2>3. /\ DOMAIN bills' = DOMAIN bills \cup {n} /\ bills'[n] = x.row
        /\ \A c \in DOMAIN bills : bills'[c] = bills[c]
    BY <1>0, <2>1, AppendProperties, LenProperties
  <2>. HIDE DEF n, x
  <2>4. ASSUME NEW type \in BillType
        PROVE  /\ Waiting(type)' \subseteq Waiting(type) \cup {n}
               /\ x.row.type # type \/ x.row.status # "pending_email" =>
                    Waiting(type)' \subseteq Waiting(type)
    BY <2>3 DEF Waiting, Live
  <2>5. CASE x.row.status = "pending_email"
    <3>1. PICK kind \in BillType : kind = x.row.type
      BY <2>1
    <3>2. Places(r, kind)
      BY <2>1, <2>5, <3>1 DEF Places, x
    <3>3. Waiting(kind)' \subseteq {n}
      BY <1>0, <2>1, <2>4, <2>5, <3>1 DEF Reserves, At, x
    <3>4. \A type \in BillType \ {kind} : Waiting(type)' \subseteq Waiting(type)
      BY <2>4, <3>1
    <3>5. Reserves(r)'
      BY <1>2, <2>2
    <3>. QED
      BY <1>0, <3>2, <3>3, <3>4, <3>5, OneMoreWaits
  <2>6. CASE x.row.status # "pending_email"
    BY <1>1, <1>2, <2>2, <2>4, <2>6
  <2>. QED
    BY <2>5, <2>6
<1>7. CASE SaveUpload(r)
  <2>1. x.pc = "saveUpload" /\ bills' = [bills EXCEPT ![x.bill] = x.row]
    BY <1>7 DEF SaveUpload, At, Store
  <2>2. x.bill \in DOMAIN bills /\ x.row.status # "pending_email"
    BY <1>0, <2>1 DEF IntakeTaskOK
  <2>3. task'[r].pc = "insertFile"
    BY <1>4, <1>7 DEF SaveUpload, Resume
  <2>. QED
    BY <1>1, <1>2, <2>1, <2>2, <2>3, StoreFewer
<1>8. CASE InsertFile(r) \/ InsertAdded(r)
  <2>1. UNCHANGED bills /\ task'[r].pc \notin {"insertBill", "saveMerged"}
    <3>1. \/ Resume(r, [pc |-> "saveRead", bill |-> x.bill, row |-> x.row])
          \/ Resume(r, Idle) \/ \E keys : Tell(r, keys)
      BY <1>8 DEF InsertFile, InsertAdded, Finish
    <3>2. CASE Resume(r, [pc |-> "saveRead", bill |-> x.bill, row |-> x.row])
      <4>1. PICK u : u = [pc |-> "saveRead", bill |-> x.bill, row |-> x.row]
        OBVIOUS
      <4>2. task' = [task EXCEPT ![r] = u] /\ u.pc = "saveRead"
        BY <3>2, <4>1 DEF Resume
      <4>. QED
        BY <1>4, <1>8, <4>2 DEF InsertFile, InsertAdded
    <3>3. CASE Resume(r, Idle) \/ \E keys : Tell(r, keys)
      <4>1. PICK u : task' = [task EXCEPT ![r] = u] /\ u.pc \in {"idle", "announce"}
        BY <3>3, IdleTask DEF Tell, Finish, Resume
      <4>. QED
        BY <1>4, <1>8, <4>1 DEF InsertFile, InsertAdded
    <3>. QED
      BY <3>1, <3>2, <3>3
  <2>. QED
    BY <1>1, <1>2, <1>3, <2>1
<1>9. CASE SaveRead(r)
  <2>. DEFINE row == [x.row EXCEPT !.status = "verification_review"]
  <2>1. /\ x \in [pc : {"saveRead", "addFile"}, bill : Row, row : Filed]
        /\ x.row \in BillRow /\ x.pc = "saveRead"
    BY <1>0, <1>9, IntakeTasks DEF SaveRead, At, Filed
  <2>2. row.status = "verification_review"
    BY <2>1 DEF BillRow
  <2>3. bills' = [bills EXCEPT ![x.bill] = row] /\ x.bill \in DOMAIN bills
    BY <1>0, <1>9, <2>1 DEF SaveRead, Store, IntakeTaskOK
  <2>4. task'[r].pc = "idle"
    BY <1>4, <1>9, IdleTask DEF SaveRead, Finish, Resume
  <2>. HIDE DEF row
  <2>. QED
    BY <1>1, <1>2, <2>2, <2>3, <2>4, StoreFewer
<1>10. CASE SaveMerged(r)
  <2>1. /\ x.row \in BillRow /\ x.row.type \in BillType /\ x.pc = "saveMerged"
        /\ bills' = [bills EXCEPT ![x.into] = x.row] /\ x.into \in DOMAIN bills
    BY <1>0, <1>10, IntakeTasks DEF SaveMerged, At, Store, BillRow, IntakeTaskOK
  <2>2. task'[r].pc = "dropMerged"
    BY <1>4, <1>10 DEF SaveMerged, Resume
  <2>. HIDE DEF x
  <2>3. CASE x.row.status = "pending_email" /\ x.row.source = "email"
    <3>1. PICK kind \in BillType : kind = x.row.type
      BY <2>1
    <3>2. Places(r, kind)
      BY <2>1, <2>3, <3>1 DEF Places, x
    <3>3. Waiting(kind) \subseteq {x.into}
      BY <1>0, <2>1, <2>3, <3>1 DEF Reserves, At, x
    <3>4. Waiting(kind)' \subseteq {x.into}
      BY <2>1, <3>3 DEF Waiting, Live
    <3>5. \A type \in BillType \ {kind} : Waiting(type)' \subseteq Waiting(type)
      BY <2>1, <3>1 DEF Waiting, Live
    <3>6. Reserves(r)'
      BY <1>2, <2>2
    <3>. QED
      BY <1>0, <3>2, <3>4, <3>5, <3>6, OneMoreWaits
  <2>4. CASE ~(x.row.status = "pending_email" /\ x.row.source = "email")
    BY <1>1, <1>2, <2>1, <2>2, <2>4, StoreFewer
  <2>. QED
    BY <2>3, <2>4
<1>11. CASE DropMerged(r)
  <2>1. bills' \in {bills, [bills EXCEPT ![x.bill].live = FALSE]}
    BY <1>11 DEF DropMerged
  <2>2. x.bill \in DOMAIN bills
    BY <1>0, <1>11 DEF DropMerged, At, IntakeTaskOK
  <2>3. \A c \in DOMAIN bills : bills[c] \in BillRow
    BY <1>0, ElementOfSeq, LenProperties
  <2>4. /\ DOMAIN bills' = DOMAIN bills
        /\ \A c \in DOMAIN bills : /\ bills'[c].status = bills[c].status
                                   /\ bills'[c].type = bills[c].type
                                   /\ bills'[c].source = bills[c].source
                                   /\ bills'[c].live => bills[c].live
    BY <2>1, <2>2, <2>3 DEF BillRow
  <2>5. \A type \in BillType : Waiting(type)' \subseteq Waiting(type)
    BY <2>4 DEF Waiting, Live
  <2>6. task'[r].pc = "idle"
    BY <1>4, <1>11, IdleTask DEF DropMerged, Finish, Resume
  <2>. QED
    BY <1>1, <1>2, <2>5, <2>6
<1>. QED
  BY <1>5, <1>6, <1>7, <1>8, <1>9, <1>10, <1>11 DEF IntakeStep

LEMMA StepWaits ==
  ASSUME Inv, IntakeInv, PlaceholdersApart, WaitInv, [Next]_vars
  PROVE  WaitInv'
<1>. SUFFICES ASSUME part' = "intake"
              PROVE  OneWaits' /\ \A s \in Req : Reserves(s)'
  BY DEF WaitInv
<1>0. part = "intake" /\ OneWaits /\ \A s \in Req : Reserves(s)
  BY DEF WaitInv, Next, vars, Documents, Support, Intake, Read, Order, Notice, Die
<1>1. CASE UNCHANGED vars
  BY <1>0, <1>1 DEF vars, calls, intake, OneWaits, Reserves, At, Waiting, Live
<1>2. CASE \E r \in Req : Intake(r)
  BY <1>0, <1>2, IntakeWaits DEF Intake
<1>3. CASE \E r \in Req : Notice(r) \/ Die(r)
  <2>1. PICK r \in Req : Notice(r) \/ Die(r)
    BY <1>3
  <2>2. PICK t : task' = [task EXCEPT ![r] = t] /\ t.pc \in {"idle", "announce", "push"}
    BY <2>1, NoticeTask
  <2>3. UNCHANGED bills
    BY <2>1 DEF Notice, Die, intake
  <2>4. task'[r] = t /\ \A s \in Req \ {r} : task'[s] = task[s] /\ task[s] \in Task \cup {Idle}
    BY <2>2, TaskAt DEF Inv
  <2>5. Reserves(r)'
    BY <2>2, <2>4 DEF Reserves, At
  <2>6. \A type \in BillType : Waiting(type)' \subseteq Waiting(type)
    BY <2>3 DEF Waiting, Live
  <2>. QED
    BY <1>0, <2>4, <2>5, <2>6, FewerWait
<1>4. \A r \in Req : ~(Documents(r) \/ Support(r) \/ Read(r) \/ Order(r))
  BY <1>0 DEF Documents, Support, Read, Order
<1>. QED
  BY <1>1, <1>2, <1>3, <1>4 DEF Next

(***************************************************************************)
(* One e-mail of a kind is waited for at a time, through any number of     *)
(* promises, uploads, merges and deaths, whatever overlaps, as long as no  *)
(* two tasks are both past the look and before the store of a placeholder  *)
(* of the kind (bills.service.ts: createEmailBillPlaceholder and what      *)
(* fills it).                                                              *)
(***************************************************************************)
THEOREM OnePlaceholderWaits == Spec /\ []PlaceholdersApart => []OneWaits
<1>1. Init => WaitInv
  <2>1. ASSUME Init, NEW r \in Req PROVE task[r].pc = "idle"
    BY <2>1 DEF Init, CallsInit, Idle
  <2>2. Init => OneWaits
    BY DEF Init, IntakeInit, OneWaits, Waiting, Live
  <2>. QED
    BY <2>1, <2>2 DEF WaitInv, Reserves, At
<1>2. Inv /\ IntakeInv /\ PlaceholdersApart /\ WaitInv /\ [Next]_vars => WaitInv'
  BY StepWaits
<1>3. IntakeInv /\ WaitInv => OneWaits
  BY DEF WaitInv, IntakeInv, OneWaits, Waiting, Live
<1>. QED
  BY <1>1, <1>2, <1>3, Invariance, IntakeInvariance, PTL DEF Spec

(***************************************************************************)
(* The file a bill came with is never lost, wherever an upload or a merge  *)
(* of two bills dies, as long as tasks do not overlap (bills.service.ts).  *)
(***************************************************************************)
THEOREM NoFileLost == Spec => []FilesKept
<1>1. IntakeInv => FilesKept
  BY DEF IntakeInv, BillHeld, FilesKept
<1>. QED
  BY <1>1, IntakeInvariance, PTL

-----------------------------------------------------------------------------
(* Rounding, and the figure that follows from the others. *)

\* A rounded quotient is off by half a divisor at most.
LEMMA RoundNear ==
  ASSUME NEW x \in Int, NEW y \in Int, y > 0
  PROVE  /\ Round(x, y) \in Int
         /\ 2 * (x - y * Round(x, y)) <= y
         /\ -2 * (x - y * Round(x, y)) <= y
<1>1. \A a, b \in Int : b > 0 =>
        a \div b \in Int /\ b * (a \div b) <= a /\ a < b * (a \div b) + b
  OBVIOUS
<1>2. CASE x >= 0
  <2>1. PICK q \in Int : q = (2 * x + y) \div (2 * y)
    BY <1>1
  <2>2. (2 * y) * q <= 2 * x + y /\ 2 * x + y < (2 * y) * q + 2 * y
    BY <1>1, <2>1
  <2>3. Round(x, y) = q
    BY <1>2, <2>1 DEF Round
  <2>4. PICK p \in Int : p = y * q
    OBVIOUS
  <2>5. (2 * y) * q = 2 * p
    BY <2>4
  <2>. QED
    BY <2>2, <2>3, <2>4, <2>5
<1>3. CASE x < 0
  <2>1. PICK q \in Int : q = (y - 2 * x) \div (2 * y)
    BY <1>1
  <2>2. (2 * y) * q <= y - 2 * x /\ y - 2 * x < (2 * y) * q + 2 * y
    BY <1>1, <2>1
  <2>3. Round(x, y) = -q
    BY <1>3, <2>1 DEF Round
  <2>4. PICK p \in Int : p = y * q
    OBVIOUS
  <2>5. (2 * y) * q = 2 * p /\ y * (-q) = -p
    BY <2>4
  <2>. QED
    BY <2>2, <2>3, <2>4, <2>5
<1>. QED
  BY <1>2, <1>3

\* Two figures are never derived from one reading.
LEMMA OneDerived ==
  ASSUME NEW s, NEW f \in Derivable(s), NEW g \in Derivable(s)
  PROVE  f = g
BY DEF Derivable, Has, Figure

\* With all the figures there, none is derived.
LEMMA NoneDerived ==
  ASSUME NEW s, Has(s, Figure)
  PROVE  Derivable(s) = {}
BY DEF Derivable, Has, Figure

\* The derived figure follows from the others.
LEMMA DerivedAdds ==
  ASSUME NEW s \in Sheet, NEW f \in Derivable(s)
  PROVE  Has(Derived(s), Figure) /\ AddsUp(Derived(s), Derivable(s))
<1>. DEFINE d == Derived(s)
<1>1. /\ f \in {"costPerUnit", "taxes", "fixedCharges"}
      /\ Has(s, Figure \ {f})
      /\ f = "costPerUnit" => s.consumption > 0
      /\ f \in Figure /\ Worth(s, f) \in Int
  BY WorthInt DEF Derivable
<1>2. \A g \in Figure \ {f} : s[g] \in Int
  BY <1>1, HasNumber, FieldsOf
<1>3. Derivable(s) = {f}
  BY OneDerived
<1>4. d[f] = Worth(s, f) /\ \A g \in Figure \ {f} : d[g] = s[g]
  BY <1>1, <1>3, FieldsOf DEF Derived
<1>5. Unit \in Int /\ Unit > 0 /\ None \notin Int
  BY ReadingAssumption
<1>6. Has(d, Figure)
  BY <1>1, <1>4, <1>5 DEF Has
<1>. HIDE DEF d
<1>7. CASE f = "costPerUnit"
  <2>1. /\ s.totalAmount \in Int /\ s.fixedCharges \in Int /\ s.taxes \in Int
        /\ s.consumption \in Int /\ s.consumption > 0
        /\ d.totalAmount = s.totalAmount /\ d.fixedCharges = s.fixedCharges
        /\ d.taxes = s.taxes /\ d.consumption = s.consumption
    BY <1>1, <1>2, <1>4, <1>7 DEF Figure
  <2>2. PICK x \in Int : x = (s.totalAmount - s.fixedCharges - s.taxes) * Unit
    BY <1>5, <2>1
  <2>3. d.costPerUnit = Round(x, s.consumption)
    BY <1>4, <1>7, <2>2 DEF Worth
  <2>4. /\ 2 * (x - d.consumption * d.costPerUnit) <= d.consumption
        /\ -2 * (x - d.consumption * d.costPerUnit) <= d.consumption
    BY <2>1, <2>3, RoundNear
  <2>5. (d.totalAmount - d.fixedCharges - d.taxes) * Unit = x
    BY <2>1, <2>2
  <2>6. AddsUp(d, {f})
    BY <1>7, <2>4, <2>5 DEF AddsUp
  <2>. QED
    BY <1>3, <1>6, <2>6 DEF d
<1>8. ASSUME NEW g, {f, g} = {"taxes", "fixedCharges"}, f # g
      PROVE  Has(d, Figure) /\ AddsUp(d, {f})
  <2>1. /\ s.totalAmount \in Int /\ s[g] \in Int /\ s.costPerUnit \in Int
        /\ s.consumption \in Int
        /\ d.totalAmount = s.totalAmount /\ d[g] = s[g]
        /\ d.costPerUnit = s.costPerUnit /\ d.consumption = s.consumption
    BY <1>1, <1>2, <1>4, <1>8 DEF Figure
  <2>2. PICK c \in Int : c = s.consumption * s.costPerUnit
    BY <2>1
  <2>3. PICK x \in Int : x = (s.totalAmount - s[g]) * Unit - c
    BY <1>5, <2>1, <2>2
  <2>4. d[f] = Round(x, Unit) /\ d[f] \in Int
    BY <1>1, <1>4, <1>8, <2>2, <2>3 DEF Worth
  <2>5. 2 * (x - Unit * d[f]) <= Unit /\ -2 * (x - Unit * d[f]) <= Unit
    BY <1>5, <2>4, RoundNear
  <2>6. x - Unit * d[f] = (d.totalAmount - d[g] - d[f]) * Unit - d.consumption * d.costPerUnit
    BY <1>5, <2>1, <2>2, <2>3, <2>4
  <2>7. x - Unit * d[f] = (d.totalAmount - d.fixedCharges - d.taxes) * Unit
                            - d.consumption * d.costPerUnit
    <3>1. d.totalAmount \in Int /\ d[f] \in Int /\ d[g] \in Int
      BY <2>1, <2>4
    <3>2. d.totalAmount - d[g] - d[f] = d.totalAmount - d.fixedCharges - d.taxes
      BY <1>8, <3>1
    <3>. QED
      BY <2>6, <3>2
  <2>8. AddsUp(d, {f})
    BY <1>8, <2>5, <2>7 DEF AddsUp
  <2>. QED
    BY <1>6, <2>8
<1>9. CASE f = "taxes" \/ f = "fixedCharges"
  <2>1. \E g : {f, g} = {"taxes", "fixedCharges"} /\ f # g
    BY <1>9
  <2>. QED
    BY <1>3, <1>8, <2>1 DEF d
<1>. QED
  BY <1>1, <1>7, <1>9

-----------------------------------------------------------------------------
(* A reading, from the first look to the sheet. *)

\* What was derived of it follows from the rest.
Coherent(out) ==
  out.derived # {} => Has(out.read, Figure) /\ AddsUp(out.read, out.derived)

Straight(s) == Has(s, Period) => s.billingPeriodStart <= s.billingPeriodEnd

LEMMA OrderedKeeps ==
  ASSUME NEW s \in Sheet
  PROVE  /\ Straight(Ordered(s))
         /\ \A f \in Figure : Ordered(s)[f] = s[f]
         /\ Has(Ordered(s), Period) <=> Has(s, Period)
<1>1. CASE Has(s, Period) /\ s.billingPeriodStart > s.billingPeriodEnd
  <2>1. s.billingPeriodStart \in Int /\ s.billingPeriodEnd \in Int
    BY <1>1, HasNumber, FieldsOf DEF Period
  <2>2. Ordered(s) = [s EXCEPT !.billingPeriodStart = s.billingPeriodEnd,
                               !.billingPeriodEnd = s.billingPeriodStart]
    BY <1>1 DEF Ordered
  <2>3. DOMAIN s = Field
    BY DEF Sheet
  <2>4. /\ Ordered(s).billingPeriodStart = s.billingPeriodEnd
        /\ Ordered(s).billingPeriodEnd = s.billingPeriodStart
    BY <2>2, <2>3, FieldsOf
  <2>5. \A f \in Figure : Ordered(s)[f] = s[f]
    BY <2>2, <2>3 DEF Field, Figure
  <2>. QED
    BY <1>1, <2>1, <2>4, <2>5 DEF Straight, Has, Period
<1>2. CASE ~(Has(s, Period) /\ s.billingPeriodStart > s.billingPeriodEnd)
  <2>1. Has(s, Period) => s.billingPeriodStart \in Int /\ s.billingPeriodEnd \in Int
    BY HasNumber, FieldsOf DEF Period
  <2>2. Ordered(s) = s
    BY <1>2 DEF Ordered
  <2>. QED
    BY <1>2, <2>1, <2>2 DEF Straight
<1>. QED
  BY <1>1, <1>2

\* Only figures are derived: the period is what was read.
LEMMA DerivedElsewhere ==
  ASSUME NEW s \in Sheet
  PROVE  \A f \in Period : Derived(s)[f] = s[f]
BY DEF Derived, Derivable, Period, Field, Figure

LEMMA AddsUpSame ==
  ASSUME NEW s, NEW t, NEW D, \A f \in Figure : s[f] = t[f],
         Has(t, Figure), AddsUp(t, D)
  PROVE  Has(s, Figure) /\ AddsUp(s, D)
<1>1. /\ s.totalAmount = t.totalAmount /\ s.consumption = t.consumption
      /\ s.costPerUnit = t.costPerUnit /\ s.fixedCharges = t.fixedCharges
      /\ s.taxes = t.taxes
  BY DEF Figure
<1>2. AddsUp(s, D)
  BY <1>1 DEF AddsUp
<1>. QED
  BY <1>2 DEF Has

LEMMA ProcessHolds ==
  ASSUME NEW a \in Answer
  PROVE  Coherent(Process(a)) /\ Straight(Process(a).read)
<1>. DEFINE s == Ordered(Validated(a))
<1>1. s \in Sheet /\ Straight(s)
  BY AnswerType, OrderedType, OrderedKeeps
<1>2. Process(a).read = Derived(s) /\ Process(a).derived = Derivable(s)
  BY DEF Process
<1>. HIDE DEF s
<1>3. Straight(Derived(s))
  BY <1>1, DerivedElsewhere DEF Straight, Has, Period
<1>4. Coherent(Process(a))
  BY <1>1, <1>2, DerivedAdds DEF Coherent
<1>. QED
  BY <1>2, <1>3, <1>4

\* The second look fills what the first left open: nothing it derived from moves.
LEMMA FillInHolds ==
  ASSUME NEW was \in Reading, NEW a \in Answer, Coherent(was)
  PROVE  Coherent(FillIn(was, a)) /\ Straight(FillIn(was, a).read)
<1>. DEFINE v == Validated(a)
            s == [f \in Field |-> IF was.read[f] = None THEN v[f] ELSE was.read[f]]
<1>1. /\ was.read \in Sheet /\ was.derived \in SUBSET Figure /\ v \in Sheet
  BY AnswerType DEF Reading, Sheet
<1>2. s \in Sheet
  BY <1>1 DEF Sheet
<1>3. FillIn(was, a).read = Ordered(Derived(s))
      /\ FillIn(was, a).derived = was.derived \cup Derivable(s)
  BY DEF FillIn
<1>4. \A f \in Figure : was.read[f] # None => s[f] = was.read[f]
  BY FieldsOf
<1>. HIDE DEF s, v
<1>5. Derived(s) \in Sheet
  BY <1>2, DerivedType
<1>6. Straight(Ordered(Derived(s))) /\ \A f \in Figure : Ordered(Derived(s))[f] = Derived(s)[f]
  BY <1>5, OrderedKeeps
<1>7. CASE was.derived = {}
  <2>1. FillIn(was, a).derived = Derivable(s)
    BY <1>3, <1>7
  <2>2. Derivable(s) # {} => Has(Derived(s), Figure) /\ AddsUp(Derived(s), Derivable(s))
    BY <1>2, DerivedAdds
  <2>3. Coherent(FillIn(was, a))
    BY <1>3, <1>6, <2>1, <2>2, AddsUpSame DEF Coherent
  <2>. QED
    BY <1>3, <1>6, <2>3
<1>8. CASE was.derived # {}
  <2>1. Has(was.read, Figure) /\ AddsUp(was.read, was.derived)
    BY <1>8 DEF Coherent
  <2>2. \A f \in Figure : s[f] = was.read[f]
    BY <1>4, <2>1 DEF Has
  <2>3. Has(s, Figure) /\ AddsUp(s, was.derived)
    BY <2>1, <2>2, AddsUpSame
  <2>4. Derivable(s) = {}
    BY <2>3, NoneDerived
  <2>5. \A f \in Figure : Derived(s)[f] = s[f]
    BY <2>4, FieldsOf DEF Derived
  <2>6. Has(Ordered(Derived(s)), Figure) /\ AddsUp(Ordered(Derived(s)), was.derived)
    BY <1>6, <2>3, <2>5, AddsUpSame
  <2>7. FillIn(was, a).derived = was.derived
    BY <1>3, <2>4
  <2>. QED
    BY <1>3, <1>6, <2>6, <2>7 DEF Coherent
<1>. QED
  BY <1>7, <1>8

-----------------------------------------------------------------------------
(* The tasks of the other parts never come to where a reading is stored. *)

Away(r) == \E t : task' = [task EXCEPT ![r] = t] /\ t.pc # "store"

LEMMA TellAway ==
  ASSUME NEW r \in Req, NEW keys, Tell(r, keys)
  PROVE  Away(r)
BY IdleTask DEF Tell, Finish, Resume, Away

LEMMA FinishAway ==
  ASSUME NEW r \in Req, Finish(r)
  PROVE  Away(r)
BY IdleTask DEF Finish, Resume, Away

\* A request that arrives, or a task that goes on, as t.
LEMMA CallAway ==
  ASSUME NEW r \in Req, NEW t, Call(r, t) \/ Resume(r, t), t.pc # "store"
  PROVE  Away(r)
BY DEF Call, Resume, Away

LEMMA GotoAway ==
  ASSUME NEW r \in Req, NEW S,
         \/ task[r] \in [pc : S, topic : Row]
         \/ task[r] \in [pc : S, doc : Doc, verdict : {"verified", "rejected"}],
         NEW pc, pc # "store", Goto(r, pc)
  PROVE  Away(r)
<1>1. PICK t : t = [task[r] EXCEPT !.pc = pc]
  OBVIOUS
<1>2. CASE task[r] \in [pc : S, topic : Row]
  <2>1. t.pc = pc
    BY <1>1, <1>2
  <2>. QED
    BY <1>1, <2>1 DEF Goto, Resume, Away
<1>3. CASE task[r] \in [pc : S, doc : Doc, verdict : {"verified", "rejected"}]
  <2>1. t.pc = pc
    BY <1>1, <1>3
  <2>. QED
    BY <1>1, <2>1 DEF Goto, Resume, Away
<1>. QED
  BY <1>2, <1>3

LEMMA DocumentsAway ==
  ASSUME Inv, NEW r \in Req, DocRequest(r) \/ DocStep(r)
  PROVE  Away(r)
<1>1. CASE UploadDoc(r) \/ ReplaceDoc(r)
  <2>1. PICK d, by : Call(r, [pc |-> "insertDoc", of |-> d, by |-> by])
    BY <1>1, Zenon DEF UploadDoc, ReplaceDoc
  <2>. QED
    BY <2>1, CallAway
<1>2. CASE JudgeDoc(r)
  <2>1. PICK d, v : Call(r, [pc |-> "checkReplaced", doc |-> d, verdict |-> v])
    BY <1>2, Zenon DEF JudgeDoc
  <2>. QED
    BY <2>1, CallAway
<1>3. CASE InsertDoc(r)
  BY <1>3, TellAway DEF InsertDoc
<1>4. CASE CheckReplaced(r)
  <2>1. task[r] \in [pc : {"checkReplaced", "saveVerdict"}, doc : Doc,
                     verdict : {"verified", "rejected"}]
    BY <1>4, TaskAt, DocTasks DEF CheckReplaced, At, Inv
  <2>. QED
    BY <1>4, <2>1, FinishAway, GotoAway DEF CheckReplaced
<1>5. CASE SaveVerdict(r)
  BY <1>5, TellAway, FinishAway DEF SaveVerdict
<1>. QED
  BY <1>1, <1>2, <1>3, <1>4, <1>5 DEF DocRequest, DocStep

LEMMA SupportAway ==
  ASSUME Inv, NEW r \in Req, TicketRequest(r) \/ TicketStep(r)
  PROVE  Away(r)
<1>1. CASE CreateTopic(r)
  BY <1>1, CallAway, IdleTask DEF CreateTopic, CallOnce
<1>2. CASE UpdateTopic(r)
  <2>1. PICK p, a : Call(r, [pc |-> "saveTopic", topic |-> p, active |-> a])
    BY <1>2, Zenon DEF UpdateTopic
  <2>. QED
    BY <2>1, CallAway
<1>3. CASE DeleteTopic(r)
  BY <1>3, CallAway DEF DeleteTopic
<1>4. CASE OpenTicket(r)
  BY <1>4, CallAway DEF OpenTicket
<1>5. CASE AddMessage(r)
  <2>1. PICK i, s : Call(r, [pc |-> "insertMessage", ticket |-> i, says |-> s])
    BY <1>5, Zenon DEF AddMessage
  <2>. QED
    BY <2>1, CallAway
<1>6. CASE UpdateTicket(r)
  <2>1. PICK i, found, says :
          Call(r, [pc |-> "saveTicket", ticket |-> i, found |-> found, says |-> says])
    BY <1>6, Zenon DEF UpdateTicket
  <2>. QED
    BY <2>1, CallAway
<1>7. CASE SaveTopic(r) \/ RemoveTopic(r)
  BY <1>7, FinishAway DEF SaveTopic, RemoveTopic
<1>8. CASE CountTickets(r)
  <2>1. task[r] \in [pc : {"countTickets", "removeTopic", "insertTicket"}, topic : Row]
    BY <1>8, TaskAt, TicketTasks DEF CountTickets, At, Inv
  <2>. QED
    BY <1>8, <2>1, FinishAway, GotoAway DEF CountTickets
<1>9. CASE InsertTicket(r)
  <2>1. PICK n : n = Len(tickets')
    OBVIOUS
  <2>2. Finish(r) \/ Resume(r, [pc |-> "insertMessage", ticket |-> n, says |-> "asked"])
    BY <1>9, <2>1 DEF InsertTicket
  <2>. QED
    BY <2>2, FinishAway, CallAway
<1>10. CASE InsertMessage(r)
  BY <1>10, TellAway DEF InsertMessage
<1>11. CASE SaveTicket(r)
  BY <1>11, TellAway, FinishAway DEF SaveTicket
<1>. QED
  BY <1>1, <1>2, <1>3, <1>4, <1>5, <1>6, <1>7, <1>8, <1>9, <1>10, <1>11
     DEF TicketRequest, TicketStep

LEMMA IntakeAway ==
  ASSUME NEW r \in Req, IntakeRequest(r) \/ IntakeStep(r)
  PROVE  Away(r)
<1>1. CASE Upload(r) \/ Promise(r)
  <2>1. PICK row : Call(r, [pc |-> "insertBill", told |-> TRUE, read |-> FALSE, row |-> row])
    BY <1>1, Zenon DEF Upload, Promise
  <2>. QED
    BY <2>1, CallAway
<1>2. CASE UploadEmail(r)
  <2>1. PICK b, row, read :
          \/ Call(r, [pc |-> "insertBill", told |-> FALSE, read |-> read, row |-> row])
          \/ Call(r, [pc |-> "saveUpload", bill |-> b, read |-> read, row |-> row])
    BY <1>2, Zenon DEF UploadEmail
  <2>. QED
    BY <2>1, CallAway
<1>3. CASE AddFile(r)
  <2>1. PICK b, row : Call(r, [pc |-> "addFile", bill |-> b, row |-> row])
    BY <1>3, Zenon DEF AddFile
  <2>. QED
    BY <2>1, CallAway
<1>4. CASE Merge(r)
  <2>1. PICK b, p, row : Call(r, [pc |-> "saveMerged", bill |-> b, into |-> p, row |-> row])
    BY <1>4, Zenon DEF Merge
  <2>. QED
    BY <2>1, CallAway
<1>5. CASE InsertBill(r)
  <2>1. PICK t : t = [pc |-> "insertFile", bill |-> Len(bills) + 1, row |-> task[r].row,
                      told |-> task[r].told, read |-> task[r].read]
    OBVIOUS
  <2>2. Resume(r, t) \/ \E keys : Tell(r, keys)
    BY <1>5, <2>1 DEF InsertBill
  <2>. QED
    BY <2>1, <2>2, TellAway, CallAway
<1>6. CASE SaveUpload(r)
  BY <1>6, CallAway DEF SaveUpload
<1>7. CASE InsertFile(r)
  BY <1>7, CallAway, TellAway DEF InsertFile
<1>8. CASE SaveMerged(r)
  BY <1>8, CallAway DEF SaveMerged
<1>9. CASE InsertAdded(r) \/ SaveRead(r) \/ DropMerged(r)
  BY <1>9, FinishAway DEF InsertAdded, SaveRead, DropMerged
<1>. QED
  BY <1>1, <1>2, <1>3, <1>4, <1>5, <1>6, <1>7, <1>8, <1>9 DEF IntakeRequest, IntakeStep

LEMMA OrderAway ==
  ASSUME NEW r \in Req, OrderRequest(r) \/ OrderStep(r)
  PROVE  Away(r)
<1>1. CASE SendOffers(r)
  <2>1. PICK rows : Call(r, [pc |-> "insertSent", rows |-> rows])
    BY <1>1, Zenon DEF SendOffers
  <2>. QED
    BY <2>1, CallAway
<1>2. CASE Reorder(r)
  <2>1. PICK list, order : Call(r, [pc |-> "saveOrder", listed |-> list, order |-> order])
    BY <1>2, Zenon DEF Reorder
  <2>. QED
    BY <2>1, CallAway
<1>3. CASE OrderStep(r)
  BY <1>3, FinishAway DEF OrderStep, InsertSent, SaveOrder
<1>. QED
  BY <1>1, <1>2, <1>3 DEF OrderRequest

LEMMA NoticeAway ==
  ASSUME Inv, NEW r \in Req, Notice(r) \/ Die(r)
  PROVE  Away(r)
BY NoticeTask DEF Away

-----------------------------------------------------------------------------
(* The reading of the one bill. *)

ReadTaskOK(t) ==
  /\ t = Idle \/ t \in ReadTask
  /\ t # Idle => uploaded /\ guessed = {} /\ Coherent(t.reading) /\ Straight(t.reading.read)

ReadHeld ==
  /\ ~uploaded => guessed = {}
  /\ guessed # {} => Has(sheet, Figure) /\ AddsUp(sheet, guessed)
  /\ \A r \in Req : ReadTaskOK(task[r])
  /\ \A r, s \in Req : Busy(r) /\ Busy(s) => r = s

ReadInv ==
  IF part = "reading" THEN ReadHeld
  ELSE guessed = {} /\ \A r \in Req : task[r].pc # "store"

LEMMA InitRead == Init => ReadInv
BY DEF Init, ReadingInit, CallsInit, ReadInv, ReadHeld, ReadTaskOK, Idle, Busy

\* Only one task reads, and what it holds is coherent.
LEMMA ReadMove ==
  ASSUME Inv, ReadHeld, NEW r \in Req, NEW t, task' = [task EXCEPT ![r] = t],
         Busy(r), UNCHANGED <<uploaded, sheet, guessed>>,
         t = Idle \/ (t \in ReadTask /\ Coherent(t.reading) /\ Straight(t.reading.read))
  PROVE  ReadHeld'
<1>1. task'[r] = t /\ \A s \in Req \ {r} : task'[s] = task[s] /\ task[s] = Idle
  BY TaskAt DEF Inv, ReadHeld, Busy
<1>2. uploaded /\ guessed = {} /\ uploaded' = uploaded /\ guessed' = {}
  BY DEF ReadHeld, ReadTaskOK, Busy
<1>3. ReadTaskOK(task[r])'
  BY <1>1, <1>2 DEF ReadTaskOK, Idle
<1>4. \A s \in Req \ {r} : ReadTaskOK(task[s])'
  BY <1>1 DEF ReadTaskOK, Idle
<1>5. \A s, u \in Req : Busy(s)' /\ Busy(u)' => s = u
  BY <1>1 DEF Busy
<1>. QED
  BY <1>2, <1>3, <1>4, <1>5 DEF ReadHeld

LEMMA ReadStepHolds ==
  ASSUME Inv, ReadHeld, NEW r \in Req, UploadUnread(r) \/ ReadStep(r)
  PROVE  ReadHeld'
<1>. DEFINE x == task[r]
<1>0. /\ x \in Task \cup {Idle} /\ ReadTaskOK(x)
      /\ Busy(r) => x \in ReadTask /\ x.reading \in Reading /\ Coherent(x.reading)
                    /\ Straight(x.reading.read)
  BY TaskAt DEF Inv, ReadHeld, ReadTaskOK, Busy, ReadTask
<1>1. CASE UploadUnread(r)
  <2>1. PICK t : t = [pc |-> "look", reading |-> Nothing, tries |-> 0]
    OBVIOUS
  <2>2. /\ ~uploaded /\ uploaded' /\ UNCHANGED guessed
        /\ task' = [task EXCEPT ![r] = t]
    BY <1>1, <2>1 DEF UploadUnread, Call
  <2>3. \A s \in Req : task[s] = Idle
    BY <2>2 DEF ReadHeld, ReadTaskOK
  <2>4. guessed = {} /\ guessed' = {}
    BY <2>2 DEF ReadHeld
  <2>5. Nothing \in Reading /\ Nothing.derived = {}
    BY FieldsOf DEF Nothing, Blank, Reading
  <2>6. /\ t \in ReadTask /\ Coherent(t.reading) /\ t.pc = "look"
        /\ Straight(t.reading.read)
    BY <2>1, <2>5, FieldsOf DEF ReadTask, Coherent, Straight, Nothing, Blank, Has, Period
  <2>7. task'[r] = t /\ \A s \in Req \ {r} : task'[s] = Idle
    BY <2>2, <2>3, TaskAt DEF Inv
  <2>8. \A s \in Req : ReadTaskOK(task[s])'
    BY <2>2, <2>4, <2>6, <2>7 DEF ReadTaskOK, Idle
  <2>9. \A s, u \in Req : Busy(s)' /\ Busy(u)' => s = u
    BY <2>7 DEF Busy
  <2>. QED
    BY <2>4, <2>8, <2>9 DEF ReadHeld
<1>2. CASE Look(r)
  <2>1. PICK a \in Answer :
          Resume(r, [x EXCEPT !.reading = Process(a),
            !.pc = IF Has(Process(a).read, Mandatory) THEN "store" ELSE "lookAgain"])
    BY <1>2 DEF Look
  <2>2. Busy(r) /\ UNCHANGED <<uploaded, sheet, guessed>>
    BY <1>2, AtBusy DEF Look
  <2>3. PICK p \in Reading : p = Process(a)
    BY ReadingTypes
  <2>4. PICK t : t = [x EXCEPT !.reading = p,
                        !.pc = IF Has(p.read, Mandatory) THEN "store" ELSE "lookAgain"]
    OBVIOUS
  <2>5. t \in ReadTask /\ t.reading = p
    BY <1>0, <2>2, <2>4 DEF ReadTask
  <2>6. Coherent(p) /\ Straight(p.read)
    BY <2>3, ProcessHolds
  <2>. QED
    BY <2>1, <2>2, <2>3, <2>4, <2>5, <2>6, ReadMove DEF Resume
<1>3. CASE Refused(r)
  <2>1. Busy(r) /\ UNCHANGED <<uploaded, sheet, guessed>> /\ x.tries < 2
    BY <1>3 DEF Refused, Busy, Idle
  <2>2. PICK t : t = [x EXCEPT !.pc = "retry", !.tries = @ + 1]
    OBVIOUS
  <2>3. task' = [task EXCEPT ![r] = t]
    BY <1>3, <2>2 DEF Refused, Resume
  <2>4. x.tries + 1 \in 0 .. 2
    BY <1>0, <2>1 DEF ReadTask
  <2>5. t \in ReadTask /\ t.reading = x.reading /\ t.pc = "retry"
    BY <1>0, <2>1, <2>2, <2>4 DEF ReadTask
  <2>. QED
    BY <1>0, <2>1, <2>3, <2>5, ReadMove
<1>4. CASE Retry(r)
  <2>1. PICK a \in Answer : Resume(r, [x EXCEPT !.reading = Process(a), !.pc = "store"])
    BY <1>4 DEF Retry
  <2>2. Busy(r) /\ UNCHANGED <<uploaded, sheet, guessed>>
    BY <1>4, AtBusy DEF Retry
  <2>3. PICK p \in Reading : p = Process(a)
    BY ReadingTypes
  <2>4. PICK t : t = [x EXCEPT !.reading = p, !.pc = "store"]
    OBVIOUS
  <2>5. t \in ReadTask /\ t.reading = p
    BY <1>0, <2>2, <2>4 DEF ReadTask
  <2>6. Coherent(p) /\ Straight(p.read)
    BY <2>3, ProcessHolds
  <2>. QED
    BY <2>1, <2>2, <2>3, <2>4, <2>5, <2>6, ReadMove DEF Resume
<1>5. CASE GiveUp(r)
  <2>1. Busy(r) /\ UNCHANGED <<uploaded, sheet, guessed>>
    BY <1>5 DEF GiveUp, Busy, Idle
  <2>2. task' = [task EXCEPT ![r] = Idle]
    BY <1>5 DEF GiveUp, Finish, Resume
  <2>. QED
    BY <2>1, <2>2, ReadMove
<1>6. CASE LookAgain(r)
  <2>1. Busy(r) /\ UNCHANGED <<uploaded, sheet, guessed>>
    BY <1>6, AtBusy DEF LookAgain
  <2>2. x \in ReadTask /\ x.reading \in Reading
    BY <1>0, <2>1
  <2>3. CASE \E a \in Answer :
               Resume(r, [x EXCEPT !.reading = FillIn(x.reading, a), !.pc = "store"])
    <3>1. PICK a \in Answer :
            Resume(r, [x EXCEPT !.reading = FillIn(x.reading, a), !.pc = "store"])
      BY <2>3
    <3>2. PICK p \in Reading : p = FillIn(x.reading, a)
      BY <2>2, ReadingTypes
    <3>3. PICK t : t = [x EXCEPT !.reading = p, !.pc = "store"]
      OBVIOUS
    <3>4. t \in ReadTask /\ t.reading = p
      BY <2>2, <3>3 DEF ReadTask
    <3>5. Coherent(p) /\ Straight(p.read)
      BY <1>0, <2>1, <2>2, <3>2, FillInHolds
    <3>. QED
      BY <2>1, <3>1, <3>2, <3>3, <3>4, <3>5, ReadMove DEF Resume
  <2>4. CASE Goto(r, "store")
    <3>1. PICK t : t = [x EXCEPT !.pc = "store"]
      OBVIOUS
    <3>2. t \in ReadTask /\ t.reading = x.reading
      BY <2>2, <3>1 DEF ReadTask
    <3>3. task' = [task EXCEPT ![r] = t]
      BY <2>4, <3>1 DEF Goto, Resume
    <3>. QED
      BY <1>0, <2>1, <3>2, <3>3, ReadMove
  <2>. QED
    BY <1>6, <2>3, <2>4 DEF LookAgain
<1>7. CASE StoreReading(r)
  <2>. DEFINE out == x.reading
              read == {f \in Field : out.read[f] # None}
  <2>1. Busy(r) /\ x \in ReadTask /\ out \in Reading /\ Coherent(out)
    BY <1>0, <1>7, AtBusy DEF StoreReading
  <2>2. guessed = {} /\ uploaded
    BY <1>0, <2>1 DEF ReadTaskOK, Busy
  <2>3. /\ sheet' = [f \in Field |-> IF f \in read THEN out.read[f] ELSE sheet[f]]
        /\ guessed' = (guessed \ read) \cup out.derived
        /\ task' = [task EXCEPT ![r] = Idle] /\ UNCHANGED uploaded
    BY <1>7 DEF StoreReading, Finish, Resume
  <2>. HIDE DEF out
  <2>4. guessed' = out.derived
    BY <2>2, <2>3
  <2>5. Has(out.read, Figure) => \A f \in Figure : sheet'[f] = out.read[f]
    BY <2>3, FieldsOf DEF Has
  <2>6. guessed' # {} => Has(sheet', Figure) /\ AddsUp(sheet', guessed')
    BY <2>1, <2>4, <2>5, AddsUpSame DEF Coherent
  <2>7. \A s \in Req : task'[s] = Idle
    BY <2>1, <2>3, TaskAt DEF Inv, ReadHeld, Busy
  <2>8. \A s \in Req : ReadTaskOK(task[s])'
    BY <2>7 DEF ReadTaskOK
  <2>9. \A s, u \in Req : Busy(s)' /\ Busy(u)' => s = u
    BY <2>7 DEF Busy
  <2>10. (guessed # {} => Has(sheet, Figure) /\ AddsUp(sheet, guessed))'
    BY <2>6 DEF Has, AddsUp
  <2>. QED
    BY <2>2, <2>3, <2>8, <2>9, <2>10 DEF ReadHeld
<1>. QED
  BY <1>1, <1>2, <1>3, <1>4, <1>5, <1>6, <1>7 DEF ReadStep

LEMMA StepRead ==
  ASSUME Inv, ReadInv, [Next]_vars
  PROVE  ReadInv'
<1>1. CASE UNCHANGED vars
  BY <1>1 DEF vars, calls, reading, ReadInv, ReadHeld, ReadTaskOK, Busy, Has, AddsUp
<1>2. CASE \E r \in Req : Read(r)
  <2>1. PICK r \in Req : part = "reading" /\ UNCHANGED part /\ (UploadUnread(r) \/ ReadStep(r))
    BY <1>2 DEF Read
  <2>. QED
    BY <2>1, ReadStepHolds DEF ReadInv
<1>3. ASSUME NEW r \in Req, Away(r), part # "reading", UNCHANGED <<part, reading>>
      PROVE  ReadInv'
  <2>1. PICK t : task' = [task EXCEPT ![r] = t] /\ t.pc # "store"
    BY <1>3 DEF Away
  <2>2. \A s \in Req : task'[s] = t \/ task'[s] = task[s]
    BY <2>1, TaskAt DEF Inv
  <2>. QED
    BY <1>3, <2>1, <2>2 DEF ReadInv, reading
<1>4. CASE \E r \in Req : Documents(r) \/ Support(r) \/ Intake(r) \/ Order(r)
  <2>1. PICK r \in Req : Documents(r) \/ Support(r) \/ Intake(r) \/ Order(r)
    BY <1>4
  <2>2. Away(r)
    BY <2>1, DocumentsAway, SupportAway, IntakeAway, OrderAway DEF Documents, Support, Intake, Order
  <2>3. part # "reading" /\ UNCHANGED <<part, reading>>
    BY <2>1 DEF Documents, Support, Intake, Order
  <2>. QED
    BY <1>3, <2>2, <2>3
<1>5. CASE \E r \in Req : Notice(r) \/ Die(r)
  <2>1. PICK r \in Req : Notice(r) \/ Die(r)
    BY <1>5
  <2>2. UNCHANGED <<part, reading>> /\ Away(r)
    BY <2>1, NoticeAway DEF Notice, Die
  <2>3. CASE part # "reading"
    BY <1>3, <2>2, <2>3
  <2>4. CASE part = "reading"
    <3>1. ReadHeld
      BY <2>4 DEF ReadInv
    <3>2. task[r].pc \notin {"announce", "push"}
      BY <3>1 DEF ReadHeld, ReadTaskOK, ReadTask, Idle
    <3>3. Busy(r) /\ task' = [task EXCEPT ![r] = Idle]
      BY <2>1, <3>2 DEF Notice, NoticeStep, Announce, Push, Swallow, At, Die, Fail
    <3>4. ReadHeld'
      BY <2>2, <3>1, <3>3, ReadMove DEF reading
    <3>. QED
      BY <2>2, <2>4, <3>4 DEF ReadInv
  <2>. QED
    BY <2>3, <2>4
<1>. QED
  BY <1>1, <1>2, <1>4, <1>5 DEF Next

(***************************************************************************)
(* What was derived on a bill follows from the rest of it, and a reading's *)
(* period does not end before it starts: whatever the looks at the bill    *)
(* return, in whatever order they fail (deriveFields, mergeSecondPassResult*)
(* and the background upload).                                             *)
(***************************************************************************)
THEOREM DerivedFollows == Spec => []ReadingCoheres
<1>1. Inv /\ ReadInv /\ [Next]_vars => ReadInv'
  BY StepRead
<1>2. ReadInv => ReadingCoheres
  <2>1. ASSUME ReadInv, part = "reading"
        PROVE  ReadingCoheres
    BY <2>1 DEF ReadInv, ReadHeld, ReadTaskOK, Idle, Straight, At, ReadingCoheres
  <2>2. ASSUME ReadInv, part # "reading"
        PROVE  ReadingCoheres
    BY <2>2 DEF ReadInv, At, ReadingCoheres
  <2>. QED
    BY <2>1, <2>2
<1>. QED
  BY <1>1, <1>2, InitRead, Invariance, PTL DEF Spec

-----------------------------------------------------------------------------
(* The order of the offers sent. *)

\* No offer is sent twice, and no place is shared or left empty.
SentOnce == \A i, j \in DOMAIN sent : sent[i].offer = sent[j].offer => i = j
Dense ==
  /\ \A i, j \in DOMAIN sent : sent[i].place = sent[j].place => i = j
  /\ {sent[i].place : i \in DOMAIN sent} = 0 .. Len(sent) - 1

LEMMA SentRows ==
  ASSUME OrderOK
  PROVE  /\ DOMAIN sent = 1 .. Len(sent) /\ Len(sent) \in Nat
         /\ \A i \in DOMAIN sent : sent[i] \in SentRow /\ sent[i].place \in Nat
<1>1. DOMAIN sent = 1 .. Len(sent) /\ Len(sent) \in Nat
       /\ \A i \in DOMAIN sent : sent[i] \in SentRow
  BY LenProperties, ElementOfSeq DEF OrderOK
<1>. QED
  BY <1>1 DEF SentRow

LEMMA ListRows ==
  ASSUME NEW list \in Lists
  PROVE  /\ DOMAIN list = 1 .. Len(list) /\ Len(list) \in Nat
         /\ \A j, k \in DOMAIN list : list[j] = list[k] => j = k
<1>1. PICK n \in 1 .. Cardinality(Offer) : list \in [1 .. n -> Offer]
  BY DEF Lists
<1>2. Cardinality(Offer) \in Nat
  BY OrderAssumption, FS_CardinalityType
<1>3. n \in Nat
  BY <1>2
<1>4. list = [i \in 1 .. n |-> list[i]] /\ \A i \in 1 .. n : list[i] \in Offer
  BY <1>1
<1>5. list \in Seq(Offer)
  BY <1>1, <1>3, <1>4, IsASeq
<1>6. DOMAIN list = 1 .. Len(list) /\ Len(list) \in Nat
  BY <1>5, LenProperties
<1>. QED
  BY <1>6 DEF Lists

LEMMA CountUpTo ==
  ASSUME NEW n \in Nat
  PROVE  /\ IsFiniteSet(1 .. n) /\ Cardinality(1 .. n) = n
         /\ IsFiniteSet(0 .. n - 1) /\ Cardinality(0 .. n - 1) = n
<1>1. IsFiniteSet(1 .. n) /\ Cardinality(1 .. n) = IF 1 > n THEN 0 ELSE n - 1 + 1
  BY FS_Interval
<1>2. n - 1 \in Int
  OBVIOUS
<1>3. IsFiniteSet(0 .. n - 1)
       /\ Cardinality(0 .. n - 1) = IF 0 > n - 1 THEN 0 ELSE (n - 1) - 0 + 1
  BY <1>2, FS_Interval
<1>. QED
  BY <1>1, <1>3

\* A listed offer has its place in the list.
LEMMA RankIn ==
  ASSUME NEW list, NEW i, Listed(list, i)
  PROVE  Rank(list, i) \in DOMAIN list /\ list[Rank(list, i)] = sent[i].offer
BY DEF Listed, Rank

\* As many offers as the list is long are listed.
LEMMA AsManyListed ==
  ASSUME OrderOK, SentOnce, NEW list \in Lists, \A k \in DOMAIN list : list[k] \in Sent
  PROVE  LET listed == {i \in DOMAIN sent : Listed(list, i)} IN
         IsFiniteSet(listed) /\ Cardinality(listed) = Len(list)
<1>. DEFINE L == {i \in DOMAIN sent : Listed(list, i)}
            f == [i \in L |-> Rank(list, i)]
            D == 1 .. Len(list)
<1>1. /\ DOMAIN list = D /\ Len(list) \in Nat
      /\ \A j, k \in D : list[j] = list[k] => j = k
  BY ListRows
<1>2. IsFiniteSet(DOMAIN sent)
  BY SentRows, FS_Interval
<1>3. IsFiniteSet(L)
  BY <1>2, FS_Subset
<1>4. IsFiniteSet(D) /\ Cardinality(D) = Len(list)
  BY <1>1, FS_Interval
<1>5. \A i \in L : i \in DOMAIN sent /\ Rank(list, i) \in D /\ list[Rank(list, i)] = sent[i].offer
  BY <1>1, RankIn
<1>6. f \in [L -> D]
  BY <1>5
<1>7. \A i, j \in L : f[i] = f[j] => i = j
  BY <1>5 DEF SentOnce
<1>8. ASSUME NEW k \in D PROVE \E i \in L : f[i] = k
  <2>1. PICK i \in DOMAIN sent : sent[i].offer = list[k]
    BY <1>1 DEF Sent
  <2>2. i \in L
    BY <1>1, <2>1 DEF Listed
  <2>3. Rank(list, i) = k
    BY <1>1, <1>5, <2>1, <2>2
  <2>. QED
    BY <2>2, <2>3
<1>. HIDE DEF L, f, D
<1>9. f \in Bijection(L, D)
  BY <1>6, <1>7, <1>8, Fun_IsBij
<1>10. ExistsBijection(L, D)
  BY <1>9, Fun_ExistsBij
<1>11. Cardinality(D) = Cardinality(L)
  BY <1>3, <1>10, FS_Bijection
<1>. QED
  BY <1>3, <1>4, <1>11 DEF L

\* What is not listed follows, each after those that were shown before it.
LEMMA RestFollows ==
  ASSUME OrderOK, SentOnce, NEW list \in Lists, \A k \in DOMAIN list : list[k] \in Sent,
         NEW i \in DOMAIN sent, ~Listed(list, i)
  PROVE  /\ PlaceIn(list, i) \in Len(list) .. Len(sent) - 1
         /\ \A j \in DOMAIN sent : ~Listed(list, j) /\ Earlier(i, j) =>
              PlaceIn(list, i) < PlaceIn(list, j)
<1>. DEFINE L == {j \in DOMAIN sent : Listed(list, j)}
            U == {j \in DOMAIN sent : ~Listed(list, j)}
            Before(j) == {k \in DOMAIN sent : ~Listed(list, k) /\ Earlier(k, j)}
<1>1. /\ DOMAIN sent = 1 .. Len(sent) /\ Len(sent) \in Nat
      /\ \A j \in DOMAIN sent : j \in Nat /\ sent[j].place \in Nat
  BY SentRows
<1>2. IsFiniteSet(DOMAIN sent) /\ Cardinality(DOMAIN sent) = Len(sent)
  BY <1>1, CountUpTo
<1>3. IsFiniteSet(L) /\ Cardinality(L) = Len(list) /\ Len(list) \in Nat
  <2>1. IsFiniteSet(L) /\ Cardinality(L) = Len(list)
    BY AsManyListed
  <2>. QED
    BY <2>1, ListRows
<1>4. IsFiniteSet(U) /\ Cardinality(U) = Len(sent) - Len(list)
  <2>1. U = DOMAIN sent \ L /\ DOMAIN sent \cap L = L
    OBVIOUS
  <2>. HIDE DEF U, L
  <2>2. IsFiniteSet(DOMAIN sent \ L)
        /\ Cardinality(DOMAIN sent \ L) = Cardinality(DOMAIN sent) - Cardinality(DOMAIN sent \cap L)
    BY <1>2, FS_Difference
  <2>. QED
    BY <1>2, <1>3, <2>1, <2>2
<1>5. ASSUME NEW j \in U
      PROVE  /\ IsFiniteSet(Before(j)) /\ Cardinality(Before(j)) \in Nat
             /\ PlaceIn(list, j) = Len(list) + Cardinality(Before(j))
             /\ Before(j) \subseteq U /\ j \notin Before(j)
  <2>1. Before(j) \subseteq U /\ j \notin Before(j)
    BY <1>1 DEF Earlier
  <2>2. PlaceIn(list, j) = Len(list) + Cardinality(Before(j))
    BY DEF PlaceIn
  <2>. HIDE DEF Before, U
  <2>. QED
    BY <1>4, <2>1, <2>2, FS_Subset, FS_CardinalityType
<1>6. ASSUME NEW j \in U, NEW S, IsFiniteSet(S), Before(j) \cup {j} \subseteq S
      PROVE  Cardinality(Before(j)) + 1 <= Cardinality(S)
  <2>1. IsFiniteSet(Before(j)) /\ j \notin Before(j)
    BY <1>5
  <2>. HIDE DEF Before, U
  <2>2. Cardinality(Before(j) \cup {j}) = Cardinality(Before(j)) + 1
    BY <2>1, FS_AddElement
  <2>3. Cardinality(Before(j) \cup {j}) <= Cardinality(S)
    BY <1>6, FS_Subset
  <2>. QED
    BY <2>2, <2>3
<1>7. i \in U
  OBVIOUS
<1>8. PlaceIn(list, i) \in Len(list) .. Len(sent) - 1
  <2>1. Before(i) \cup {i} \subseteq U
    BY <1>5, <1>7
  <2>2. Cardinality(Before(i)) + 1 <= Cardinality(U)
    BY <1>4, <1>6, <1>7, <2>1
  <2>3. Cardinality(Before(i)) \in Nat /\ PlaceIn(list, i) = Len(list) + Cardinality(Before(i))
    BY <1>5, <1>7
  <2>. HIDE DEF Before, U, L
  <2>. QED
    BY <1>1, <1>3, <1>4, <2>2, <2>3
<1>9. ASSUME NEW j \in DOMAIN sent, ~Listed(list, j), Earlier(i, j)
      PROVE  PlaceIn(list, i) < PlaceIn(list, j)
  <2>1. j \in U
    BY <1>9
  <2>2. Before(i) \cup {i} \subseteq Before(j)
    BY <1>1, <1>9 DEF Earlier
  <2>3. Cardinality(Before(i)) + 1 <= Cardinality(Before(j))
    BY <1>5, <1>6, <1>7, <2>1, <2>2
  <2>4. /\ Cardinality(Before(i)) \in Nat /\ PlaceIn(list, i) = Len(list) + Cardinality(Before(i))
        /\ Cardinality(Before(j)) \in Nat /\ PlaceIn(list, j) = Len(list) + Cardinality(Before(j))
    BY <1>5, <1>7, <2>1
  <2>. HIDE DEF Before, U, L
  <2>. QED
    BY <1>3, <2>3, <2>4
<1>. QED
  BY <1>8, <1>9

\* A list puts each offer at a place of its own, and leaves no place empty.
LEMMA ListIsDense ==
  ASSUME OrderOK, SentOnce, NEW list \in Lists, \A k \in DOMAIN list : list[k] \in Sent
  PROVE  /\ \A i, j \in DOMAIN sent : PlaceIn(list, i) = PlaceIn(list, j) => i = j
         /\ {PlaceIn(list, i) : i \in DOMAIN sent} = 0 .. Len(sent) - 1
<1>. DEFINE f == [i \in DOMAIN sent |-> PlaceIn(list, i)]
            P == 0 .. Len(sent) - 1
<1>1. /\ DOMAIN sent = 1 .. Len(sent) /\ Len(sent) \in Nat
      /\ \A j \in DOMAIN sent : j \in Nat /\ sent[j].place \in Nat
  BY SentRows
<1>2. Len(list) \in Nat /\ DOMAIN list = 1 .. Len(list)
  BY ListRows
<1>3. Len(list) <= Len(sent)
  <2>1. IsFiniteSet(DOMAIN sent) /\ Cardinality(DOMAIN sent) = Len(sent)
    BY <1>1, CountUpTo
  <2>2. Cardinality({i \in DOMAIN sent : Listed(list, i)}) = Len(list)
    BY AsManyListed
  <2>3. Cardinality({i \in DOMAIN sent : Listed(list, i)}) <= Cardinality(DOMAIN sent)
    BY <2>1, FS_Subset
  <2>. QED
    BY <2>1, <2>2, <2>3
<1>4. ASSUME NEW i \in DOMAIN sent, Listed(list, i)
      PROVE  /\ PlaceIn(list, i) = Rank(list, i) - 1 /\ Rank(list, i) \in 1 .. Len(list)
             /\ list[Rank(list, i)] = sent[i].offer
  BY <1>2, <1>4, RankIn DEF PlaceIn
<1>5. ASSUME NEW i \in DOMAIN sent, ~Listed(list, i)
      PROVE  /\ PlaceIn(list, i) \in Len(list) .. Len(sent) - 1
             /\ \A j \in DOMAIN sent : ~Listed(list, j) /\ Earlier(i, j) =>
                  PlaceIn(list, i) < PlaceIn(list, j)
  BY <1>5, RestFollows
<1>6. ASSUME NEW i \in DOMAIN sent, NEW j \in DOMAIN sent, PlaceIn(list, i) = PlaceIn(list, j)
      PROVE  i = j
  <2>1. CASE Listed(list, i) /\ Listed(list, j)
    BY <1>2, <1>4, <1>6, <2>1 DEF SentOnce
  <2>2. CASE ~Listed(list, i) /\ ~Listed(list, j)
    <3>1. PlaceIn(list, i) \in Nat /\ PlaceIn(list, j) \in Nat
      BY <1>1, <1>2, <1>5, <2>2
    <3>2. ~Earlier(i, j) /\ ~Earlier(j, i)
      BY <1>5, <1>6, <2>2, <3>1
    <3>. QED
      BY <1>1, <3>2 DEF Earlier
  <2>3. CASE Listed(list, i) /\ ~Listed(list, j)
    <3>1. PlaceIn(list, i) < Len(list)
      BY <1>2, <1>4, <2>3
    <3>. QED
      BY <1>1, <1>2, <1>5, <1>6, <2>3, <3>1
  <2>4. CASE ~Listed(list, i) /\ Listed(list, j)
    <3>1. PlaceIn(list, j) < Len(list)
      BY <1>2, <1>4, <2>4
    <3>. QED
      BY <1>1, <1>2, <1>5, <1>6, <2>4, <3>1
  <2>. QED
    BY <2>1, <2>2, <2>3, <2>4
<1>7. ASSUME NEW i \in DOMAIN sent
      PROVE  PlaceIn(list, i) \in P
  <2>1. CASE Listed(list, i)
    BY <1>1, <1>2, <1>3, <1>4, <2>1
  <2>2. CASE ~Listed(list, i)
    BY <1>1, <1>2, <1>5, <2>2
  <2>. QED
    BY <2>1, <2>2
<1>8. f \in Injection(DOMAIN sent, P)
  <2>1. f \in [DOMAIN sent -> P] /\ \A i, j \in DOMAIN sent : f[i] = f[j] => i = j
    BY <1>6, <1>7
  <2>. HIDE DEF f, P
  <2>. QED
    BY <2>1, Fun_IsInj
<1>9. /\ IsFiniteSet(P) /\ Cardinality(P) = Len(sent)
      /\ Cardinality(DOMAIN sent) = Len(sent)
  BY <1>1, CountUpTo
<1>10. f \in Surjection(DOMAIN sent, P)
  <2>. HIDE DEF f, P
  <2>. QED
    BY <1>8, <1>9, FS_Injection
<1>11. \A p \in P : \E i \in DOMAIN sent : f[i] = p
  <2>. HIDE DEF f, P
  <2>. QED
    BY <1>10, Fun_SurjectionProperties
<1>12. {PlaceIn(list, i) : i \in DOMAIN sent} = P
  <2>1. \A i \in DOMAIN sent : f[i] = PlaceIn(list, i)
    OBVIOUS
  <2>. HIDE DEF f, P
  <2>. QED
    BY <1>7, <1>11, <2>1
<1>. QED
  BY <1>6, <1>12

\* A batch joins the end.
LEMMA NextIsLast ==
  ASSUME OrderOK, Dense
  PROVE  NextPlace = Len(sent)
<1>. DEFINE taken == {sent[i].place : i \in DOMAIN sent}
            n == Len(sent)
            last == CHOOSE m \in taken : \A l \in taken : l <= m
<1>1. n \in Nat /\ taken = 0 .. n - 1
  BY SentRows DEF Dense
<1>2. NextPlace = IF taken = {} THEN 0 ELSE 1 + last
  BY DEF NextPlace
<1>. HIDE DEF taken, n
<1>3. CASE n = 0
  BY <1>1, <1>2, <1>3 DEF n
<1>4. CASE n # 0
  <2>1. n - 1 \in taken /\ \A l \in taken : l <= n - 1
    BY <1>1, <1>4
  <2>2. last \in taken /\ \A l \in taken : l <= last
    BY <2>1
  <2>. HIDE DEF last
  <2>3. last = n - 1
    BY <1>1, <2>1, <2>2
  <2>4. NextPlace = 1 + last
    BY <1>2, <2>1
  <2>5. NextPlace = n
    BY <1>1, <2>3, <2>4
  <2>. QED
    BY <2>5 DEF n
<1>. QED
  BY <1>3, <1>4

\* Where the rows of two lists are, once the second is put after the first.
LEMMA JoinedRows ==
  ASSUME NEW S, NEW a \in Seq(S), NEW b \in Seq(S)
  PROVE  LET c == a \o b IN
         /\ Len(c) = Len(a) + Len(b)
         /\ \A i \in 1 .. Len(a) : i \in DOMAIN c /\ c[i] = a[i]
         /\ \A k \in 1 .. Len(b) : Len(a) + k \in DOMAIN c /\ c[Len(a) + k] = b[k]
         /\ \A i \in DOMAIN c : i \in 1 .. Len(a) \/ \E k \in 1 .. Len(b) : i = Len(a) + k
<1>. DEFINE c == a \o b
            n == Len(a)
            m == Len(b)
<1>1. n \in Nat /\ m \in Nat
  BY LenProperties
<1>2. /\ c \in Seq(S) /\ Len(c) = n + m
      /\ \A i \in 1 .. n + m : c[i] = IF i <= n THEN a[i] ELSE b[i - n]
  BY ConcatProperties
<1>3. DOMAIN c = 1 .. n + m
  BY <1>2, LenProperties
<1>. HIDE DEF c, n, m
<1>4. ASSUME NEW k \in 1 .. m
      PROVE  n + k \in DOMAIN c /\ c[n + k] = b[k]
  <2>1. PICK i \in 1 .. n + m : i = n + k /\ ~(i <= n) /\ i - n = k
    BY <1>1
  <2>2. c[i] = b[i - n]
    BY <1>2, <2>1
  <2>. QED
    BY <1>3, <2>1, <2>2
<1>5. ASSUME NEW i \in 1 .. n
      PROVE  i \in DOMAIN c /\ c[i] = a[i]
  <2>1. i \in 1 .. n + m /\ i <= n
    BY <1>1
  <2>. QED
    BY <1>2, <1>3, <2>1
<1>6. ASSUME NEW i \in DOMAIN c, i \notin 1 .. n
      PROVE  \E k \in 1 .. m : i = n + k
  <2>1. i - n \in 1 .. m /\ i = n + (i - n)
    BY <1>1, <1>3, <1>6
  <2>. QED
    BY <2>1
<1>. QED
  BY <1>2, <1>4, <1>5, <1>6 DEF c, n, m

\* The rows of the bill, the batch behind those there were.
Joins(rows) ==
  /\ Len(sent') = Len(sent) + Len(rows)
  /\ \A i \in 1 .. Len(sent) : i \in DOMAIN sent' /\ sent'[i] = sent[i]
  /\ \A k \in 1 .. Len(rows) :
       Len(sent) + k \in DOMAIN sent' /\ sent'[Len(sent) + k] = rows[k]
  /\ \A i \in DOMAIN sent' :
       i \in 1 .. Len(sent) \/ \E k \in 1 .. Len(rows) : i = Len(sent) + k

LEMMA BatchJoins ==
  ASSUME OrderOK, SentOnce, NEW rows \in Seq(SentRow), Joins(rows),
         \A k, l \in DOMAIN rows : rows[k].offer = rows[l].offer => k = l,
         \A k \in DOMAIN rows : rows[k].offer \notin Sent
  PROVE  /\ SentOnce'
         /\ Dense /\ (\A k \in DOMAIN rows : rows[k].place = Len(sent) + k - 1) => Dense'
<1>. DEFINE n == Len(sent)
            m == Len(rows)
<1>1. /\ n \in Nat /\ DOMAIN sent = 1 .. n
      /\ \A i \in 1 .. n : sent[i] \in SentRow /\ sent[i].place \in Nat
  BY SentRows
<1>2. m \in Nat /\ DOMAIN rows = 1 .. m
  BY LenProperties
<1>3. Len(sent') = n + m
  BY DEF Joins
<1>5. /\ \A i \in 1 .. n : i \in DOMAIN sent' /\ sent'[i] = sent[i]
      /\ \A k \in 1 .. m : n + k \in DOMAIN sent' /\ sent'[n + k] = rows[k]
      /\ \A i \in DOMAIN sent' : i \in 1 .. n \/ \E k \in 1 .. m : i = n + k
  BY DEF Joins
<1>. HIDE DEF n, m
<1>6. \A i \in 1 .. n : \A k \in 1 .. m : sent[i].offer # rows[k].offer
  BY <1>1, <1>2 DEF Sent
<1>7. ASSUME NEW i \in DOMAIN sent', NEW j \in DOMAIN sent', sent'[i].offer = sent'[j].offer
      PROVE  i = j
  <2>1. CASE i \in 1 .. n /\ j \in 1 .. n
    BY <1>1, <1>5, <1>7, <2>1 DEF SentOnce
  <2>2. CASE i \in 1 .. n /\ j \notin 1 .. n
    BY <1>5, <1>6, <1>7, <2>2
  <2>3. CASE i \notin 1 .. n /\ j \in 1 .. n
    BY <1>5, <1>6, <1>7, <2>3
  <2>4. CASE i \notin 1 .. n /\ j \notin 1 .. n
    <3>1. PICK k \in 1 .. m, l \in 1 .. m : i = n + k /\ j = n + l
      BY <1>5, <2>4
    <3>2. rows[k].offer = rows[l].offer
      BY <1>5, <1>7, <3>1
    <3>. QED
      BY <1>2, <3>1, <3>2
  <2>. QED
    BY <2>1, <2>2, <2>3, <2>4
<1>8. ASSUME Dense, \A k \in DOMAIN rows : rows[k].place = Len(sent) + k - 1
      PROVE  Dense'
  <2>1. /\ \A i \in 1 .. n : sent'[i].place = sent[i].place /\ sent[i].place \in 0 .. n - 1
        /\ \A k \in 1 .. m : sent'[n + k].place = n + k - 1
    <3>1. \A i \in 1 .. n : sent[i].place \in 0 .. n - 1
      BY <1>1, <1>8 DEF Dense, n
    <3>. QED
      BY <1>2, <1>5, <1>8, <3>1 DEF n
  <2>2. \A i \in DOMAIN sent' : sent'[i].place \in 0 .. n + m - 1
    <3>1. \A i \in 1 .. n : sent'[i].place \in 0 .. n + m - 1
      BY <1>1, <1>2, <2>1
    <3>2. ASSUME NEW k \in 1 .. m
          PROVE  sent'[n + k].place \in 0 .. n + m - 1
      <4>1. n + k - 1 \in 0 .. n + m - 1
        BY <1>1, <1>2
      <4>. QED
        BY <2>1, <4>1
    <3>. QED
      BY <1>5, <3>1, <3>2
  <2>3. ASSUME NEW p \in 0 .. n + m - 1
        PROVE  \E i \in DOMAIN sent' : sent'[i].place = p
    <3>1. CASE p < n
      <4>1. p \in 0 .. n - 1
        BY <1>1, <3>1
      <4>2. {sent[i].place : i \in 1 .. n} = 0 .. n - 1
        BY <1>1, <1>8 DEF Dense, n
      <4>3. PICK i \in 1 .. n : sent[i].place = p
        BY <4>1, <4>2
      <4>. QED
        BY <1>5, <2>1, <4>3
    <3>2. CASE ~(p < n)
      <4>1. p - n + 1 \in 1 .. m /\ n + (p - n + 1) - 1 = p
        BY <1>1, <1>2, <3>2
      <4>. QED
        BY <1>5, <2>1, <4>1
    <3>. QED
      BY <3>1, <3>2
  <2>4. ASSUME NEW i \in DOMAIN sent', NEW j \in DOMAIN sent', sent'[i].place = sent'[j].place
        PROVE  i = j
    <3>1. ASSUME NEW a \in 1 .. n, NEW k \in 1 .. m
          PROVE  sent'[a].place # sent'[n + k].place
      <4>1. \A q \in 0 .. n - 1 : q # n + k - 1
        BY <1>1, <1>2
      <4>. QED
        BY <2>1, <4>1
    <3>2. CASE i \in 1 .. n /\ j \in 1 .. n
      BY <1>1, <1>8, <2>1, <2>4, <3>2 DEF Dense
    <3>3. CASE i \in 1 .. n /\ j \notin 1 .. n
      BY <1>5, <2>4, <3>1, <3>3
    <3>4. CASE i \notin 1 .. n /\ j \in 1 .. n
      BY <1>5, <2>4, <3>1, <3>4
    <3>5. CASE i \notin 1 .. n /\ j \notin 1 .. n
      <4>1. PICK k \in 1 .. m, l \in 1 .. m : i = n + k /\ j = n + l
        BY <1>5, <3>5
      <4>. QED
        BY <1>1, <2>1, <2>4, <4>1
    <3>. QED
      BY <3>2, <3>3, <3>4, <3>5
  <2>5. {sent'[i].place : i \in DOMAIN sent'} = 0 .. Len(sent') - 1
    <3>1. {sent'[i].place : i \in DOMAIN sent'} = 0 .. n + m - 1
      BY <2>2, <2>3
    <3>2. 0 .. n + m - 1 = 0 .. Len(sent') - 1
      BY <1>1, <1>2, <1>3
    <3>. QED
      BY <3>1, <3>2, Zenon
  <2>. QED
    BY <2>4, <2>5 DEF Dense
<1>. QED
  BY <1>7, <1>8 DEF SentOnce

\* Saving a list moves the rows it read, and no offer is sent or lost by it.
LEMMA ListSaved ==
  ASSUME OrderOK, SentOnce, NEW list \in Lists, NEW order \in Seq(Nat),
         sent' = [i \in DOMAIN sent |-> IF i \in DOMAIN order
                                        THEN [sent[i] EXCEPT !.place = order[i]] ELSE sent[i]]
  PROVE  /\ SentOnce' /\ DOMAIN sent' = DOMAIN sent
         /\ (\A k \in DOMAIN list : list[k] \in Sent)
              /\ order = [i \in DOMAIN sent |-> PlaceIn(list, i)] =>
              Dense' /\ \A i \in DOMAIN sent : sent'[i].place = PlaceIn(list, i)
<1>1. /\ DOMAIN sent = 1 .. Len(sent) /\ Len(sent) \in Nat
      /\ \A i \in DOMAIN sent : sent[i] \in SentRow
  BY SentRows
<1>2. /\ DOMAIN sent' = DOMAIN sent
      /\ \A i \in DOMAIN sent : /\ sent'[i].offer = sent[i].offer
                                /\ i \in DOMAIN order => sent'[i].place = order[i]
  BY <1>1 DEF SentRow
<1>3. SentOnce'
  BY <1>2 DEF SentOnce
<1>4. ASSUME \A k \in DOMAIN list : list[k] \in Sent,
             order = [i \in DOMAIN sent |-> PlaceIn(list, i)]
      PROVE  Dense' /\ \A i \in DOMAIN sent : sent'[i].place = PlaceIn(list, i)
  <2>1. \A i \in DOMAIN sent : sent'[i].place = PlaceIn(list, i)
    BY <1>2, <1>4
  <2>2. Len(sent') = Len(sent)
    <3>1. \A i \in DOMAIN sent : i \in DOMAIN order => order[i] \in Nat
      BY LenProperties, ElementOfSeq
    <3>2. sent' \in [1 .. Len(sent) -> SentRow]
      BY <1>1, <3>1 DEF SentRow
    <3>3. sent' \in Seq(SentRow)
      BY <1>1, <3>2, IsASeq
    <3>. QED
      BY <1>1, <1>2, <3>3, LenProperties
  <2>3. /\ \A i, j \in DOMAIN sent : PlaceIn(list, i) = PlaceIn(list, j) => i = j
        /\ {PlaceIn(list, i) : i \in DOMAIN sent} = 0 .. Len(sent) - 1
    BY <1>4, ListIsDense
  <2>4. {sent'[i].place : i \in DOMAIN sent'} = {PlaceIn(list, i) : i \in DOMAIN sent}
    BY <1>2, <2>1
  <2>5. {sent'[i].place : i \in DOMAIN sent'} = 0 .. Len(sent') - 1
    BY <2>2, <2>3, <2>4
  <2>6. \A i, j \in DOMAIN sent' : sent'[i].place = sent'[j].place => i = j
    BY <1>2, <2>1, <2>3
  <2>. QED
    BY <2>1, <2>5, <2>6 DEF Dense
<1>. QED
  BY <1>2, <1>3, <1>4

\* A batch names each offer once; a task that was alone since it looked still
\* sees what it saw.
OrderTaskOK(t) ==
  /\ t.pc = "insertSent" =>
       /\ \A k, l \in DOMAIN t.rows : t.rows[k].offer = t.rows[l].offer => k = l
       /\ alone => \A k \in DOMAIN t.rows : t.rows[k].place = Len(sent) + k - 1
  /\ alone /\ t.pc = "saveOrder" =>
       /\ \A k \in DOMAIN t.listed : t.listed[k] \in Sent
       /\ t.order = [i \in DOMAIN sent |-> PlaceIn(t.listed, i)]

OrderHeld == SentOnce /\ (alone => Dense)

OrderInv ==
  IF part = "order" THEN OrderHeld /\ (\A r \in Req : OrderTaskOK(task[r])) ELSE sent = <<>>

LEMMA InitOrder == Init => OrderInv
<1>. SUFFICES ASSUME Init PROVE OrderInv
  OBVIOUS
<1>1. sent = <<>> /\ \A r \in Req : task[r].pc = "idle"
  BY DEF Init, OrderInit, CallsInit, Idle
<1>2. DOMAIN sent = {} /\ Len(sent) = 0
  BY <1>1
<1>3. 0 .. Len(sent) - 1 = {}
  BY <1>2
<1>4. Dense /\ SentOnce
  BY <1>2, <1>3 DEF Dense, SentOnce
<1>. QED
  BY <1>1, <1>4 DEF OrderInv, OrderHeld, OrderTaskOK

\* The tasks that do not move are safe, whatever is sent.
LEMMA OrderMove ==
  ASSUME Inv, OneBusy, \A s \in Req : OrderTaskOK(task[s]), NEW r \in Req, Moves(r),
         NEW t, task' = [task EXCEPT ![r] = t], OrderTaskOK(t)'
  PROVE  (\A s \in Req : OrderTaskOK(task[s]))'
<1>1. task'[r] = t /\ \A s \in Req \ {r} : task'[s] = task[s]
  BY TaskAt DEF Inv
<1>2. alone' => \A s \in Req \ {r} : task'[s].pc = "idle"
  BY Alone DEF Idle
<1>3. ASSUME NEW s \in Req
      PROVE  OrderTaskOK(task[s])'
  <2>1. CASE s = r
    BY <1>1, <2>1 DEF OrderTaskOK
  <2>2. CASE s # r
    <3>1. task[s].pc = "insertSent" =>
            \A k, l \in DOMAIN task[s].rows :
              task[s].rows[k].offer = task[s].rows[l].offer => k = l
      BY DEF OrderTaskOK
    <3>. QED
      BY <1>1, <1>2, <2>2, <3>1 DEF OrderTaskOK
  <2>. QED
    BY <2>1, <2>2
<1>. QED
  BY <1>3

LEMMA OrderStepHolds ==
  ASSUME Inv, OneBusy, OrderHeld, \A s \in Req : OrderTaskOK(task[s]),
         NEW r \in Req, OrderRequest(r) \/ OrderStep(r)
  PROVE  OrderHeld' /\ (\A s \in Req : OrderTaskOK(task[s]))'
<1>. DEFINE x == task[r]
<1>0. /\ x \in Task \cup {Idle} /\ Moves(r) /\ OrderTaskOK(x)
      /\ OrderOK /\ SentOnce /\ (alone => Dense) /\ (alone' => alone)
  BY TaskAt, OrderMoves, Alone DEF Inv, TypeOK, OrderHeld
<1>1. ASSUME UNCHANGED sent
      PROVE  OrderHeld'
  <2>1. SentOnce'
    BY <1>0, <1>1 DEF SentOnce
  <2>2. alone' => Dense'
    BY <1>0, <1>1 DEF Dense
  <2>. QED
    BY <2>1, <2>2 DEF OrderHeld
<1>2. CASE SendOffers(r)
  <2>1. PICK new \in Lists :
          Call(r, [pc |-> "insertSent",
                   rows |-> [k \in DOMAIN new |->
                               [offer |-> new[k], place |-> NextPlace + k - 1]]])
    BY <1>2 DEF SendOffers
  <2>2. PICK rows : rows = [k \in DOMAIN new |-> [offer |-> new[k], place |-> NextPlace + k - 1]]
    OBVIOUS
  <2>3. PICK t : t = [pc |-> "insertSent", rows |-> rows]
    OBVIOUS
  <2>4. /\ \A k, l \in DOMAIN rows : rows[k].offer = rows[l].offer => k = l
        /\ alone => \A k \in DOMAIN rows : rows[k].place = Len(sent) + k - 1
    <3>1. /\ DOMAIN rows = DOMAIN new
          /\ \A k \in DOMAIN new : rows[k].offer = new[k] /\ rows[k].place = NextPlace + k - 1
      BY <2>2
    <3>2. alone => NextPlace = Len(sent)
      BY <1>0, NextIsLast
    <3>. QED
      BY <3>1, <3>2, ListRows
  <2>5. sent' = sent /\ t.pc = "insertSent" /\ t.rows = rows
    BY <1>2, <2>3 DEF SendOffers
  <2>6. OrderTaskOK(t)'
    BY <1>0, <2>4, <2>5 DEF OrderTaskOK
  <2>7. task' = [task EXCEPT ![r] = t]
    BY <2>1, <2>2, <2>3 DEF Call
  <2>. QED
    BY <1>0, <1>1, <2>5, <2>6, <2>7, OrderMove
<1>3. CASE Reorder(r)
  <2>1. PICK list \in Lists :
          /\ \A k \in DOMAIN list : list[k] \in Sent
          /\ Call(r, [pc |-> "saveOrder", listed |-> list,
                      order |-> [i \in DOMAIN sent |-> PlaceIn(list, i)]])
    BY <1>3 DEF Reorder
  <2>2. PICK t : t = [pc |-> "saveOrder", listed |-> list,
                      order |-> [i \in DOMAIN sent |-> PlaceIn(list, i)]]
    OBVIOUS
  <2>3. /\ sent' = sent /\ t.pc = "saveOrder" /\ t.listed = list
        /\ t.order = [i \in DOMAIN sent |-> PlaceIn(list, i)]
    BY <1>3, <2>2 DEF Reorder
  <2>4. OrderTaskOK(t)'
    BY <2>1, <2>3 DEF OrderTaskOK, PlaceIn, Listed, Rank, Earlier, Sent
  <2>5. task' = [task EXCEPT ![r] = t]
    BY <2>1, <2>2 DEF Call
  <2>. QED
    BY <1>0, <1>1, <2>3, <2>4, <2>5, OrderMove
<1>4. CASE InsertSent(r)
  <2>1. x \in [pc : {"insertSent"}, rows : Seq(SentRow)] /\ x.pc = "insertSent"
    BY <1>0, <1>4, OtherTasks DEF InsertSent, At
  <2>2. /\ task' = [task EXCEPT ![r] = Idle] /\ UNCHANGED alone
        /\ \/ sent' = sent
           \/ sent' = sent \o x.rows /\ \A k \in DOMAIN x.rows : x.rows[k].offer \notin Sent
    BY <1>4 DEF InsertSent, Finish, Resume
  <2>3. OrderTaskOK(Idle)'
    BY DEF OrderTaskOK, Idle
  <2>4. ASSUME sent' = sent \o x.rows, \A k \in DOMAIN x.rows : x.rows[k].offer \notin Sent
        PROVE  OrderHeld'
    <3>1. PICK rows \in Seq(SentRow) : rows = x.rows
      BY <2>1
    <3>2. Joins(rows)
      BY <1>0, <2>4, <3>1, JoinedRows DEF Joins, OrderOK
    <3>3. /\ \A k, l \in DOMAIN rows : rows[k].offer = rows[l].offer => k = l
          /\ alone => \A k \in DOMAIN rows : rows[k].place = Len(sent) + k - 1
      BY <1>0, <2>1, <3>1 DEF OrderTaskOK
    <3>4. \A k \in DOMAIN rows : rows[k].offer \notin Sent
      BY <2>4, <3>1
    <3>5. SentOnce' /\ (alone => Dense')
      BY <1>0, <3>2, <3>3, <3>4, BatchJoins
    <3>. QED
      BY <2>2, <3>5 DEF OrderHeld
  <2>5. OrderHeld'
    BY <1>1, <2>2, <2>4
  <2>. QED
    BY <1>0, <2>2, <2>3, <2>5, OrderMove
<1>5. CASE SaveOrder(r)
  <2>1. x \in [pc : {"saveOrder"}, listed : Lists, order : Seq(Nat)] /\ x.pc = "saveOrder"
    BY <1>0, <1>5, OtherTasks DEF SaveOrder, At
  <2>2. /\ task' = [task EXCEPT ![r] = Idle] /\ UNCHANGED alone
        /\ sent' = [i \in DOMAIN sent |-> IF i \in DOMAIN x.order
                                          THEN [sent[i] EXCEPT !.place = x.order[i]] ELSE sent[i]]
    BY <1>5 DEF SaveOrder, Finish, Resume
  <2>3. OrderTaskOK(Idle)'
    BY DEF OrderTaskOK, Idle
  <2>4. SentOnce' /\ (alone => Dense')
    <3>1. PICK list \in Lists, order \in Seq(Nat) : list = x.listed /\ order = x.order
      BY <2>1
    <3>2. alone => /\ \A k \in DOMAIN list : list[k] \in Sent
                   /\ order = [i \in DOMAIN sent |-> PlaceIn(list, i)]
      BY <1>0, <2>1, <3>1 DEF OrderTaskOK
    <3>3. sent' = [i \in DOMAIN sent |-> IF i \in DOMAIN order
                                         THEN [sent[i] EXCEPT !.place = order[i]] ELSE sent[i]]
      BY <2>2, <3>1
    <3>4. /\ SentOnce'
          /\ (\A k \in DOMAIN list : list[k] \in Sent)
               /\ order = [i \in DOMAIN sent |-> PlaceIn(list, i)] => Dense'
      BY <1>0, <3>3, ListSaved
    <3>. QED
      BY <3>2, <3>4
  <2>5. OrderHeld'
    BY <2>2, <2>4 DEF OrderHeld
  <2>. QED
    BY <1>0, <2>2, <2>3, <2>5, OrderMove
<1>. QED
  BY <1>2, <1>3, <1>4, <1>5 DEF OrderRequest, OrderStep

LEMMA StepOrder ==
  ASSUME Inv, OneBusy, OrderInv, [Next]_vars
  PROVE  OrderInv'
<1>0. ASSUME UNCHANGED <<sent, alone>>, OrderHeld
      PROVE  OrderHeld'
  BY <1>0 DEF OrderHeld, SentOnce, Dense
<1>1. CASE UNCHANGED vars
  <2>1. UNCHANGED <<part, sent, task, alone>>
    BY <1>1 DEF vars, calls
  <2>2. ASSUME NEW r \in Req, OrderTaskOK(task[r])
        PROVE  OrderTaskOK(task[r])'
    BY <2>1, <2>2 DEF OrderTaskOK, PlaceIn, Listed, Rank, Earlier, Sent
  <2>. QED
    BY <1>0, <2>1, <2>2 DEF OrderInv
<1>2. CASE part # "order" /\ UNCHANGED <<part, sent>>
  BY <1>2 DEF OrderInv
<1>3. CASE \E r \in Req : Order(r)
  <2>1. PICK r \in Req : part = "order" /\ UNCHANGED part /\ (OrderRequest(r) \/ OrderStep(r))
    BY <1>3 DEF Order
  <2>. QED
    BY <2>1, OrderStepHolds DEF OrderInv
<1>4. CASE part = "order" /\ \E r \in Req : Notice(r) \/ Die(r)
  <2>1. PICK r \in Req : Notice(r) \/ Die(r)
    BY <1>4
  <2>2. UNCHANGED <<part, sent>> /\ Moves(r) /\ (alone' => alone)
    BY <2>1, NoticeMoves, Alone DEF Notice, Die
  <2>3. PICK t : task' = [task EXCEPT ![r] = t] /\ t.pc \in {"idle", "announce", "push"}
    BY <2>1, NoticeTask
  <2>4. OrderTaskOK(t)'
    BY <2>3 DEF OrderTaskOK
  <2>5. (\A s \in Req : OrderTaskOK(task[s]))'
    BY <1>4, <2>2, <2>3, <2>4, OrderMove DEF OrderInv
  <2>6. OrderHeld'
    BY <1>4, <2>2 DEF OrderInv, OrderHeld, SentOnce, Dense
  <2>. QED
    BY <1>4, <2>2, <2>5, <2>6 DEF OrderInv
<1>5. \A r \in Req : Documents(r) \/ Support(r) \/ Intake(r) \/ Read(r) =>
        part # "order" /\ UNCHANGED <<part, sent>>
  BY DEF Documents, Support, Intake, Read
<1>6. \A r \in Req : Notice(r) \/ Die(r) => UNCHANGED <<part, sent>>
  BY DEF Notice, Die
<1>. QED
  BY <1>1, <1>2, <1>3, <1>4, <1>5, <1>6 DEF Next

LEMMA OrderInvariance == Spec => [](OneBusy /\ OrderInv)
<1>1. Inv /\ OneBusy /\ OrderInv /\ [Next]_vars => (OneBusy /\ OrderInv)'
  BY StepBusy, StepOrder
<1>. QED
  BY <1>1, InitBusy, InitOrder, Invariance, PTL DEF Spec

(***************************************************************************)
(* The places of the offers sent are 0, 1, 2 ... for any catalogue, and    *)
(* any number of batches and rearrangements that do not overlap, whatever  *)
(* dies between them (sendOffersToUser and reorderSentOffers,              *)
(* bills.service.ts).                                                      *)
(***************************************************************************)
THEOREM PlacesStayDense == Spec => []PlacesDense
<1>1. OrderInv => PlacesDense
  <2>1. ASSUME OrderInv, part = "order"
        PROVE  PlacesDense
    BY <2>1 DEF OrderInv, OrderHeld, Dense, PlacesDense
  <2>2. ASSUME OrderInv, part # "order"
        PROVE  PlacesDense
    <3>1. sent = <<>>
      BY <2>2 DEF OrderInv
    <3>2. {sent[i].place : i \in DOMAIN sent} = {} /\ 0 .. Len(sent) - 1 = {}
      BY <3>1
    <3>. QED
      BY <3>2 DEF PlacesDense
  <2>. QED
    BY <2>1, <2>2
<1>. QED
  BY <1>1, OrderInvariance, PTL

\* A list that is saved was saved by the task that held it.
LEMMA SavesList ==
  ASSUME Inv, OrderInv, Next, NEW r \in Req, At(r, "saveOrder"), ~At(r, "saveOrder")',
         fails' = fails, part = "order"
  PROVE  SaveOrder(r)
<1>1. ASSUME NEW s \in Req, NEW t, task' = [task EXCEPT ![s] = t]
      PROVE  s = r
  BY <1>1, TaskAt DEF Inv, At
<1>2. PICK s \in Req : Order(s) \/ Notice(s) \/ Die(s)
  BY DEF Next, Documents, Support, Intake, Read
<1>3. CASE Notice(s) \/ Die(s)
  <2>1. s = r
    BY <1>1, <1>3, NoticeTask
  <2>. QED
    BY <1>3, <2>1, CallsAssumption
       DEF Notice, NoticeStep, Announce, Push, Swallow, Die, Fail, At, Inv, TypeOK, CallsOK
<1>4. CASE Order(s)
  <2>1. s = r
    BY <1>1, <1>4 DEF Order, OrderRequest, OrderStep, SendOffers, Reorder, InsertSent, SaveOrder,
                      Call, Finish, Resume
  <2>2. Busy(r)
    BY AtBusy
  <2>. QED
    BY <1>4, <2>1, <2>2 DEF Order, OrderRequest, OrderStep, SendOffers, Reorder, InsertSent,
                            Call, At
<1>. QED
  BY <1>2, <1>3, <1>4

\* Where a list puts two offers.
LEMMA ListOrders ==
  ASSUME OrderOK, SentOnce, Dense, NEW list \in Lists, \A k \in DOMAIN list : list[k] \in Sent,
         NEW i \in DOMAIN sent, NEW j \in DOMAIN sent, i # j
  PROVE  PlaceIn(list, i) < PlaceIn(list, j) <=>
           \/ Listed(list, i) /\ ~Listed(list, j)
           \/ Listed(list, i) /\ Listed(list, j) /\ Rank(list, i) < Rank(list, j)
           \/ ~Listed(list, i) /\ ~Listed(list, j) /\ sent[i].place < sent[j].place
<1>1. /\ DOMAIN sent = 1 .. Len(sent) /\ Len(sent) \in Nat
      /\ sent[i].place \in Nat /\ sent[j].place \in Nat
  BY SentRows
<1>2. Len(list) \in Nat /\ DOMAIN list = 1 .. Len(list)
  BY ListRows
<1>3. ASSUME NEW l \in DOMAIN sent, Listed(list, l)
      PROVE  PlaceIn(list, l) = Rank(list, l) - 1 /\ Rank(list, l) \in 1 .. Len(list)
  BY <1>2, <1>3, RankIn DEF PlaceIn
<1>4. ASSUME NEW l \in DOMAIN sent, ~Listed(list, l)
      PROVE  PlaceIn(list, l) \in Nat /\ Len(list) <= PlaceIn(list, l)
  <2>1. PlaceIn(list, l) \in Len(list) .. Len(sent) - 1
    BY <1>4, RestFollows
  <2>. QED
    BY <1>1, <1>2, <2>1
<1>5. CASE Listed(list, i) /\ Listed(list, j)
  BY <1>2, <1>3, <1>5
<1>6. CASE Listed(list, i) /\ ~Listed(list, j)
  BY <1>2, <1>3, <1>4, <1>6
<1>7. CASE ~Listed(list, i) /\ Listed(list, j)
  BY <1>2, <1>3, <1>4, <1>7
<1>8. CASE ~Listed(list, i) /\ ~Listed(list, j)
  <2>1. sent[i].place # sent[j].place
    BY DEF Dense
  <2>2. Earlier(i, j) => PlaceIn(list, i) < PlaceIn(list, j)
    BY <1>8, RestFollows
  <2>3. Earlier(j, i) => PlaceIn(list, j) < PlaceIn(list, i)
    BY <1>8, RestFollows
  <2>4. PlaceIn(list, i) \in Nat /\ PlaceIn(list, j) \in Nat
    BY <1>4, <1>8
  <2>. QED
    BY <1>1, <1>8, <2>1, <2>2, <2>3, <2>4 DEF Earlier
<1>. QED
  BY <1>5, <1>6, <1>7, <1>8

(***************************************************************************)
(* A list that is saved shows what it names first, in its order, and the   *)
(* rest in the order it was shown in, for any catalogue and any list, as   *)
(* long as tasks do not overlap (reorderSentOffers, bills.service.ts).     *)
(***************************************************************************)
THEOREM ListKeepsRest == Spec => RestKeepsOrder
<1>1. ASSUME Inv, OneBusy, OrderInv, [Next]_vars, NEW r \in Req, alone, At(r, "saveOrder"),
             ~At(r, "saveOrder")', fails' = fails,
             NEW i \in DOMAIN sent, NEW j \in DOMAIN sent, i # j
      PROVE  sent'[i].place < sent'[j].place <=>
               \/ Listed(task[r].listed, i) /\ ~Listed(task[r].listed, j)
               \/ Listed(task[r].listed, i) /\ Listed(task[r].listed, j)
                    /\ Rank(task[r].listed, i) < Rank(task[r].listed, j)
               \/ ~Listed(task[r].listed, i) /\ ~Listed(task[r].listed, j)
                    /\ sent[i].place < sent[j].place
  <2>1. part = "order"
    <3>1. sent = <<>> => DOMAIN sent = {}
      OBVIOUS
    <3>. QED
      BY <1>1, <3>1 DEF OrderInv
  <2>2. Next
    BY <1>1 DEF vars, calls, At
  <2>3. SaveOrder(r)
    BY <1>1, <2>1, <2>2, SavesList
  <2>4. /\ OrderOK /\ SentOnce /\ Dense /\ OrderTaskOK(task[r])
    BY <1>1, <2>1 DEF Inv, TypeOK, OrderInv, OrderHeld
  <2>5. task[r].pc = "saveOrder"
        /\ task[r] \in [pc : {"saveOrder"}, listed : Lists, order : Seq(Nat)]
    BY <1>1, TaskAt, OtherTasks DEF At, Inv
  <2>6. PICK list \in Lists, order \in Seq(Nat) : list = task[r].listed /\ order = task[r].order
    BY <2>5
  <2>7. /\ \A k \in DOMAIN list : list[k] \in Sent
        /\ order = [l \in DOMAIN sent |-> PlaceIn(list, l)]
    BY <1>1, <2>4, <2>5, <2>6 DEF OrderTaskOK
  <2>8. sent' = [l \in DOMAIN sent |-> IF l \in DOMAIN order
                                       THEN [sent[l] EXCEPT !.place = order[l]] ELSE sent[l]]
    BY <2>3, <2>6 DEF SaveOrder
  <2>9. sent'[i].place = PlaceIn(list, i) /\ sent'[j].place = PlaceIn(list, j)
    BY <1>1, <2>4, <2>7, <2>8, ListSaved
  <2>10. PlaceIn(list, i) < PlaceIn(list, j) <=>
           \/ Listed(list, i) /\ ~Listed(list, j)
           \/ Listed(list, i) /\ Listed(list, j) /\ Rank(list, i) < Rank(list, j)
           \/ ~Listed(list, i) /\ ~Listed(list, j) /\ sent[i].place < sent[j].place
    BY <1>1, <2>4, <2>7, ListOrders
  <2>. QED
    BY <2>6, <2>9, <2>10
<1>2. Inv /\ OneBusy /\ OrderInv /\ [Next]_vars =>
        \A r \in Req :
          alone /\ At(r, "saveOrder") /\ ~At(r, "saveOrder")' /\ fails' = fails =>
            \A i, j \in DOMAIN sent : i # j =>
              (sent'[i].place < sent'[j].place <=>
                 \/ Listed(task[r].listed, i) /\ ~Listed(task[r].listed, j)
                 \/ Listed(task[r].listed, i) /\ Listed(task[r].listed, j)
                      /\ Rank(task[r].listed, i) < Rank(task[r].listed, j)
                 \/ ~Listed(task[r].listed, i) /\ ~Listed(task[r].listed, j)
                      /\ sent[i].place < sent[j].place)
  BY <1>1
<1>. QED
  BY <1>2, OrderInvariance, Invariance, PTL DEF Spec, RestKeepsOrder

=============================================================================
