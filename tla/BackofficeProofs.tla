-------------------------- MODULE BackofficeProofs --------------------------
(***************************************************************************)
(* What Backoffice guarantees for every number of tasks, requests and      *)
(* failures: type correctness, and the promise of CustomerNews, that       *)
(* customer and operators are told at most once, of what did happen.       *)
(***************************************************************************)
EXTENDS Backoffice, SequenceTheorems, FiniteSetTheorems, TLAPS

-----------------------------------------------------------------------------
(* The inductive invariant. *)

\* The tasks that are at one of these places.
Standing(P) == {r \in Req : task[r].pc \in P}

\* Rows that may come of the requests made so far: there are, and there will be.
Counted ==
  /\ Len(docs) + Cardinality(Standing({"insertDoc"})) <= started
  /\ Len(topics) <= started
  /\ Len(tickets) + Cardinality(Standing({"insertTicket"})) <= started
  /\ Len(messages) + Cardinality(Standing({"insertTicket", "insertMessage"})) <= started
  /\ Len(bills) + Cardinality(Standing({"insertBill"})) <= started

\* What a task is about to tell of did happen.
Truthful(t) ==
  /\ t.pc \in {"announce", "push"} =>
       t.news # <<>> /\ \A i \in DOMAIN t.news : t.news[i] \in happened
  /\ t.pc = "insertFile" /\ t.told =>
       <<"submitted", t.bill>> \in happened /\ <<"check", t.bill>> \in happened

AllTruthful == \A r \in Req : Truthful(task[r])

\* A key is pushed by the one task that stored it, once, after storing it.
OneVoice ==
  /\ \A k \in Key : k \notin shown => heard[k] = 0
  /\ \A r \in Req : At(r, "push") =>
       Head(task[r].news) \in shown /\ heard[Head(task[r].news)] = 0
  /\ \A r, s \in Req :
       At(r, "push") /\ At(s, "push") /\ Head(task[r].news) = Head(task[s].news) => r = s

Inv == TypeOK /\ Counted /\ AllTruthful /\ OneVoice

-----------------------------------------------------------------------------
(* Tasks. *)

\* The place a task has reached tells what it holds.
LEMMA DocTasks ==
  ASSUME NEW t \in Task \cup {Idle}
  PROVE  /\ t.pc \in {"checkReplaced", "saveVerdict"} =>
              t \in [pc : {"checkReplaced", "saveVerdict"}, doc : Doc,
                     verdict : {"verified", "rejected"}]
         /\ t.pc = "insertDoc" =>
              t \in [pc : {"insertDoc"}, of : {NoDoc} \cup Doc, by : {"customer", "operator"}]
BY DEF Task, Idle, DocTask, TicketTask, IntakeTask, ReadTask, OrderTask, NewsTask

LEMMA TicketTasks ==
  ASSUME NEW t \in Task \cup {Idle}
  PROVE  /\ t.pc = "saveTopic" =>
              t \in [pc : {"saveTopic"}, topic : Row, active : {"active", "inactive"}]
         /\ t.pc \in {"countTickets", "removeTopic", "insertTicket"} =>
              t \in [pc : {"countTickets", "removeTopic", "insertTicket"}, topic : Row]
         /\ t.pc = "insertMessage" =>
              t \in [pc : {"insertMessage"}, ticket : Row, says : {"asked", "question", "answer"}]
         /\ t.pc = "saveTicket" =>
              t \in [pc : {"saveTicket"}, ticket : Row, found : TicketRow, says : SUBSET Ended]
BY DEF Task, Idle, DocTask, TicketTask, IntakeTask, ReadTask, OrderTask, NewsTask

LEMMA IntakeTasks ==
  ASSUME NEW t \in Task \cup {Idle}
  PROVE  /\ t.pc = "insertBill" =>
              t \in [pc : {"insertBill"}, row : BillRow, told : BOOLEAN, read : BOOLEAN]
         /\ t.pc = "saveUpload" =>
              t \in [pc : {"saveUpload"}, bill : Row, row : Filed, read : BOOLEAN]
         /\ t.pc = "insertFile" =>
              t \in [pc : {"insertFile"}, bill : Row, row : Filed, told : BOOLEAN, read : BOOLEAN]
         /\ t.pc \in {"saveRead", "addFile"} =>
              t \in [pc : {"saveRead", "addFile"}, bill : Row, row : Filed]
         /\ t.pc = "saveMerged" =>
              t \in [pc : {"saveMerged"}, bill : Row, into : Row, row : BillRow]
         /\ t.pc = "dropMerged" => t \in [pc : {"dropMerged"}, bill : Row]
BY DEF Task, Idle, DocTask, TicketTask, IntakeTask, ReadTask, OrderTask, NewsTask

LEMMA OtherTasks ==
  ASSUME NEW t \in Task \cup {Idle}
  PROVE  /\ t.pc \in {"look", "lookAgain", "retry", "store"} => t \in ReadTask
         /\ t.pc = "insertSent" => t \in [pc : {"insertSent"}, rows : Seq(SentRow)]
         /\ t.pc = "saveOrder" => t \in [pc : {"saveOrder"}, listed : Lists, order : Seq(Nat)]
         /\ t.pc \in {"announce", "push"} => t \in NewsTask
BY DEF Task, Idle, DocTask, TicketTask, IntakeTask, ReadTask, OrderTask, NewsTask

\* The tasks as a function, and the one that runs.
LEMMA TaskAt ==
  ASSUME TypeOK, NEW r \in Req
  PROVE  task \in [Req -> Task \cup {Idle}] /\ task[r] \in Task \cup {Idle} /\ started \in Nat
BY CallsAssumption DEF TypeOK, CallsOK

LEMMA StandingFinite ==
  ASSUME NEW P
  PROVE  IsFiniteSet(Standing(P)) /\ Cardinality(Standing(P)) \in Nat
<1>1. Standing(P) \subseteq Req
  BY DEF Standing
<1>. QED
  BY <1>1, CallsAssumption, FS_Subset, FS_CardinalityType

\* Only the task that moves comes to stand there, or goes.
LEMMA StandingMoves ==
  ASSUME TypeOK, NEW r \in Req, NEW t, NEW P, task' = [task EXCEPT ![r] = t]
  PROVE  /\ t.pc \in P \/ task[r].pc \notin P \/
              Cardinality(Standing(P)') <= Cardinality(Standing(P)) - 1
         /\ (t.pc \in P => task[r].pc \in P) =>
              Cardinality(Standing(P)') <= Cardinality(Standing(P))
         /\ Cardinality(Standing(P)') <= Cardinality(Standing(P)) + 1
         /\ Cardinality(Standing(P)') \in Nat /\ Cardinality(Standing(P)) \in Nat
<1>. DEFINE S == Standing(P)
            T == Standing(P)'
<1>1. task'[r] = t /\ \A s \in Req \ {r} : task'[s] = task[s]
  BY TaskAt
<1>2. IsFiniteSet(S) /\ Cardinality(S) \in Nat
  BY StandingFinite
<1>3. T \subseteq S \cup {r} /\ (t.pc \notin P => T = S \ {r}) /\ (r \in S <=> task[r].pc \in P)
  BY <1>1 DEF Standing
<1>4. IsFiniteSet(S \cup {r}) /\ Cardinality(S \cup {r}) <= Cardinality(S) + 1
  BY <1>2, FS_AddElement
<1>5. IsFiniteSet(T) /\ Cardinality(T) \in Nat /\ Cardinality(T) <= Cardinality(S \cup {r})
       /\ Cardinality(S \cup {r}) \in Nat
  BY <1>3, <1>4, FS_Subset, FS_CardinalityType
<1>6. r \in S => Cardinality(S \ {r}) = Cardinality(S) - 1
  BY <1>2, FS_RemoveElement
<1>7. (t.pc \in P => task[r].pc \in P) => T \subseteq S
  BY <1>3
<1>8. T \subseteq S => Cardinality(T) <= Cardinality(S)
  BY <1>2, FS_Subset
<1>. HIDE DEF S, T
<1>9. t.pc \in P \/ task[r].pc \notin P \/ Cardinality(T) <= Cardinality(S) - 1
  BY <1>2, <1>3, <1>5, <1>6
<1>10. Cardinality(T) <= Cardinality(S) + 1
  BY <1>2, <1>4, <1>5
<1>. QED
  BY <1>2, <1>5, <1>7, <1>8, <1>9, <1>10 DEF S, T

-----------------------------------------------------------------------------
(* What every step that moves one task keeps. *)

\* A request leaves room for one row of each kind, whatever it is.
LEMMA CallCounted ==
  ASSUME TypeOK, Counted, NEW r \in Req, NEW t, Call(r, t),
         UNCHANGED <<docs, tickets, messages, bills>>,
         Len(topics') \in Nat, Len(topics') <= Len(topics) + 1
  PROVE  Counted'
<1>1. started \in Nat /\ started' = started + 1 /\ task' = [task EXCEPT ![r] = t]
  BY TaskAt DEF Call
<1>2. \A P : /\ Cardinality(Standing(P)') <= Cardinality(Standing(P)) + 1
             /\ Cardinality(Standing(P)') \in Nat /\ Cardinality(Standing(P)) \in Nat
  BY <1>1, StandingMoves
<1>3. Len(docs) \in Nat /\ Len(topics) \in Nat /\ Len(tickets) \in Nat
       /\ Len(messages) \in Nat /\ Len(bills) \in Nat
  BY LenProperties DEF TypeOK, DocOK, SupportOK, IntakeOK
<1>4. \A P : \A n \in Nat : n + Cardinality(Standing(P)) <= started
                => n + Cardinality(Standing(P)') <= started'
  BY <1>1, <1>2
<1>. QED
  BY <1>1, <1>3, <1>4 DEF Counted

\* A step adds a row only for a task that stood there for it, and that goes on.
LEMMA MoveCounted ==
  ASSUME TypeOK, Counted, NEW r \in Req, NEW t, task' = [task EXCEPT ![r] = t],
         started' = started, Len(topics') = Len(topics),
         \/ Len(docs') = Len(docs)
         \/ At(r, "insertDoc") /\ Len(docs') = Len(docs) + 1,
         \/ Len(tickets') = Len(tickets)
         \/ At(r, "insertTicket") /\ Len(tickets') = Len(tickets) + 1,
         \/ Len(messages') = Len(messages)
         \/ At(r, "insertMessage") /\ Len(messages') = Len(messages) + 1,
         \/ Len(bills') = Len(bills)
         \/ At(r, "insertBill") /\ Len(bills') = Len(bills) + 1,
         t.pc \notin {"insertDoc", "insertTicket", "insertBill"},
         t.pc = "insertMessage" => At(r, "insertTicket")
  PROVE  Counted'
<1>. DEFINE Sets == {{"insertDoc"}, {"insertTicket"}, {"insertTicket", "insertMessage"},
                     {"insertBill"}}
<1>1. Len(docs) \in Nat /\ Len(topics) \in Nat /\ Len(tickets) \in Nat
       /\ Len(messages) \in Nat /\ Len(bills) \in Nat /\ started \in Nat
  BY TaskAt, LenProperties DEF TypeOK, DocOK, SupportOK, IntakeOK
<1>2. \A P \in Sets : t.pc \in P => task[r].pc \in P
  BY DEF At
<1>3. \A P \in Sets : /\ Cardinality(Standing(P)') <= Cardinality(Standing(P))
                     /\ Cardinality(Standing(P)') \in Nat /\ Cardinality(Standing(P)) \in Nat
  BY <1>2, StandingMoves
<1>4. \A P \in Sets : t.pc \notin P /\ task[r].pc \in P =>
                       Cardinality(Standing(P)') <= Cardinality(Standing(P)) - 1
  BY StandingMoves
<1>5. ASSUME NEW P \in Sets, NEW n \in Nat, NEW m \in Nat,
             n + Cardinality(Standing(P)) <= started,
             m = n \/ (m = n + 1 /\ t.pc \notin P /\ task[r].pc \in P)
      PROVE  m + Cardinality(Standing(P)') <= started'
  <2>. HIDE DEF Sets
  <2>1. CASE m = n
    BY <1>1, <1>3, <1>5, <2>1
  <2>2. CASE m = n + 1 /\ t.pc \notin P /\ task[r].pc \in P
    <3>1. Cardinality(Standing(P)') <= Cardinality(Standing(P)) - 1
      BY <1>4, <2>2
    <3>. QED
      BY <1>1, <1>3, <1>5, <2>2, <3>1
  <2>. QED
    BY <1>5, <2>1, <2>2
<1>6. Len(docs') \in Nat /\ Len(tickets') \in Nat /\ Len(messages') \in Nat /\ Len(bills') \in Nat
  BY <1>1
<1>7. Len(docs') + Cardinality(Standing({"insertDoc"})') <= started'
  BY <1>1, <1>5, <1>6 DEF Counted, At
<1>8. Len(tickets') + Cardinality(Standing({"insertTicket"})') <= started'
  BY <1>1, <1>5, <1>6 DEF Counted, At
<1>9. Len(messages') + Cardinality(Standing({"insertTicket", "insertMessage"})') <= started'
  BY <1>1, <1>5, <1>6 DEF Counted, At
<1>10. Len(bills') + Cardinality(Standing({"insertBill"})') <= started'
  BY <1>1, <1>5, <1>6 DEF Counted, At
<1>. QED
  BY <1>1, <1>7, <1>8, <1>9, <1>10 DEF Counted

\* A task that does not go to push moves: nobody pushes what they did not before.
LEMMA MoveVoice ==
  ASSUME TypeOK, OneVoice, NEW r \in Req, NEW t, task' = [task EXCEPT ![r] = t],
         t.pc # "push", UNCHANGED <<shown, heard>>
  PROVE  OneVoice'
<1>1. task'[r] = t /\ \A s \in Req \ {r} : task'[s] = task[s]
  BY TaskAt
<1>2. \A s \in Req : At(s, "push")' => At(s, "push") /\ task'[s] = task[s]
  BY <1>1 DEF At
<1>. QED
  BY <1>2 DEF OneVoice

\* A task that tells the truth moves, and the others still do.
LEMMA MoveTruthful ==
  ASSUME TypeOK, AllTruthful, NEW r \in Req, NEW t, task' = [task EXCEPT ![r] = t],
         happened \subseteq happened', Truthful(t)'
  PROVE  AllTruthful'
<1>1. task'[r] = t /\ \A s \in Req \ {r} : task'[s] = task[s]
  BY TaskAt
<1>2. ASSUME NEW s \in Req PROVE Truthful(task[s])'
  <2>1. CASE s = r
    BY <1>1, <2>1 DEF Truthful
  <2>2. CASE s # r
    BY <1>1, <2>2 DEF Truthful, AllTruthful
  <2>. QED
    BY <2>1, <2>2
<1>. QED
  BY <1>2 DEF AllTruthful

\* A request that finds nothing to tell of.
LEMMA CallKeeps ==
  ASSUME Inv, NEW r \in Req, NEW t \in Task \cup {Idle}, Call(r, t), UNCHANGED notices,
         t.pc \notin {"announce", "push", "insertFile"},
         UNCHANGED <<docs, tickets, messages, bills>>,
         Len(topics') \in Nat, Len(topics') <= Len(topics) + 1
  PROVE  CallsOK(Task)' /\ NoticesOK' /\ Counted' /\ AllTruthful' /\ OneVoice'
<1>1. task' = [task EXCEPT ![r] = t] /\ started' = started + 1 /\ started < MaxRequests
  BY DEF Call
<1>2. CallsOK(Task)'
  <2>1. task' \in [Req -> Task \cup {Idle}]
    BY <1>1, TaskAt DEF Inv
  <2>2. started' \in 0 .. MaxRequests
    BY <1>1, CallsAssumption DEF Inv, TypeOK, CallsOK
  <2>. QED
    BY <2>1, <2>2 DEF Inv, TypeOK, CallsOK, Call
<1>3. NoticesOK'
  BY DEF Inv, TypeOK, NoticesOK, notices
<1>4. Truthful(t)'
  BY DEF Truthful
<1>5. OneVoice'
  BY <1>1, MoveVoice DEF Inv, notices
<1>6. AllTruthful'
  BY <1>1, <1>4, MoveTruthful DEF Inv, notices
<1>7. Counted'
  BY CallCounted DEF Inv
<1>. QED
  BY <1>2, <1>3, <1>5, <1>6, <1>7

\* A task goes on, with the truth, and not straight to a push.
LEMMA MoveKeeps ==
  ASSUME Inv, NEW r \in Req, NEW t \in Task \cup {Idle}, Resume(r, t), t.pc # "push",
         happened \subseteq happened', happened' \subseteq Key, UNCHANGED <<shown, heard>>,
         Truthful(t)'
  PROVE  CallsOK(Task)' /\ NoticesOK' /\ AllTruthful' /\ OneVoice'
<1>1. task' = [task EXCEPT ![r] = t]
  BY DEF Resume
<1>2. task' \in [Req -> Task \cup {Idle}]
  BY <1>1, TaskAt DEF Inv
<1>3. CallsOK(Task)'
  BY <1>2 DEF Inv, TypeOK, CallsOK, Resume
<1>4. NoticesOK'
  BY DEF Inv, TypeOK, NoticesOK
<1>. QED
  BY <1>1, <1>3, <1>4, MoveVoice, MoveTruthful DEF Inv

\* Such a step that adds no row, and leads to no place where one is added.
LEMMA StepKeeps ==
  ASSUME Inv, NEW r \in Req, NEW t \in Task \cup {Idle}, Resume(r, t),
         t.pc \notin {"push", "insertDoc", "insertTicket", "insertMessage", "insertBill"},
         happened \subseteq happened', happened' \subseteq Key, UNCHANGED <<shown, heard>>,
         Truthful(t)',
         Len(docs') = Len(docs), Len(topics') = Len(topics), Len(tickets') = Len(tickets),
         Len(messages') = Len(messages), Len(bills') = Len(bills)
  PROVE  CallsOK(Task)' /\ NoticesOK' /\ Counted' /\ AllTruthful' /\ OneVoice'
<1>1. CallsOK(Task)' /\ NoticesOK' /\ AllTruthful' /\ OneVoice'
  BY MoveKeeps
<1>2. Counted'
  <2>1. task' = [task EXCEPT ![r] = t] /\ started' = started /\ TypeOK /\ Counted
    BY DEF Inv, Resume
  <2>2. /\ t.pc \notin {"insertDoc", "insertTicket", "insertBill"}
        /\ t.pc = "insertMessage" => At(r, "insertTicket")
    OBVIOUS
  <2>. QED
    BY <2>1, <2>2, MoveCounted
<1>. QED
  BY <1>1, <1>2

\* A task that is over has nothing to tell.
LEMMA IdleTask == Idle \in Task \cup {Idle} /\ Idle.pc = "idle" /\ Truthful(Idle)'
BY DEF Idle, Truthful

\* A task that is left with something to tell of tells of it next.
LEMMA TellMoves ==
  ASSUME NEW r \in Req, NEW keys \in Seq(Key), Tell(r, keys),
         \A i \in DOMAIN keys : keys[i] \in happened'
  PROVE  \E t \in Task \cup {Idle} :
           Resume(r, t) /\ t.pc \in {"idle", "announce"} /\ Truthful(t)'
<1>1. CASE keys = <<>>
  BY <1>1, IdleTask DEF Tell, Finish
<1>2. CASE keys # <<>>
  <2>. DEFINE t == [pc |-> "announce", news |-> keys]
  <2>1. t \in Task /\ t.pc = "announce"
    BY DEF Task, NewsTask
  <2>2. Resume(r, t)
    BY <1>2 DEF Tell
  <2>3. Truthful(t)'
    BY <1>2 DEF Truthful
  <2>. HIDE DEF t
  <2>. QED
    BY <2>1, <2>2, <2>3
<1>. QED
  BY <1>1, <1>2

\* The two ways most steps end.
LEMMA TellOne ==
  ASSUME NEW r \in Req, NEW key \in Key, Tell(r, <<key>>), key \in happened'
  PROVE  \E t \in Task \cup {Idle} :
           Resume(r, t) /\ t.pc \in {"idle", "announce"} /\ Truthful(t)'
<1>1. <<key>> \in Seq(Key) /\ \A i \in DOMAIN <<key>> : <<key>>[i] = key
  OBVIOUS
<1>2. \A i \in DOMAIN <<key>> : <<key>>[i] \in happened'
  BY <1>1
<1>. QED
  BY <1>1, <1>2, TellMoves

LEMMA TellNone ==
  ASSUME NEW r \in Req, Tell(r, <<>>) \/ Finish(r)
  PROVE  \E t \in Task \cup {Idle} :
           Resume(r, t) /\ t.pc \in {"idle", "announce"} /\ Truthful(t)'
BY IdleTask DEF Tell, Finish

\* Writing one row of a table leaves it a table.
LEMMA WriteRow ==
  ASSUME NEW S, NEW s \in Seq(S), NEW i, NEW v, i \in DOMAIN s => v \in S
  PROVE  /\ [s EXCEPT ![i] = v] \in Seq(S)
         /\ Len([s EXCEPT ![i] = v]) = Len(s)
         /\ DOMAIN [s EXCEPT ![i] = v] = DOMAIN s
<1>1. s \in [1 .. Len(s) -> S] /\ Len(s) \in Nat /\ DOMAIN s = 1 .. Len(s)
  BY LenProperties
<1>2. [s EXCEPT ![i] = v] \in [1 .. Len(s) -> S]
  BY <1>1
<1>. QED
  BY <1>1, <1>2, IsASeq, LenProperties

-----------------------------------------------------------------------------
(* The documents of a case. *)

\* A creation number is a row as long as there is room.
LEMMA RowsOf ==
  ASSUME Inv
  PROVE  /\ DOMAIN docs = 1 .. Len(docs) /\ Len(docs) \in Nat /\ DOMAIN docs \subseteq Row
         /\ DOMAIN topics = 1 .. Len(topics) /\ Len(topics) \in Nat /\ DOMAIN topics \subseteq Row
         /\ DOMAIN tickets = 1 .. Len(tickets) /\ Len(tickets) \in Nat /\ DOMAIN tickets \subseteq Row
         /\ Len(messages) \in Nat
         /\ DOMAIN bills = 1 .. Len(bills) /\ Len(bills) \in Nat /\ DOMAIN bills \subseteq Row
<1>1. docs \in Seq(DocRow) /\ topics \in Seq(TopicState) /\ tickets \in Seq(TicketRow)
       /\ messages \in Seq(Row) /\ bills \in Seq(BillRow)
  BY DEF Inv, TypeOK, DocOK, SupportOK, IntakeOK
<1>2. Len(docs) <= MaxRequests /\ Len(topics) <= MaxRequests /\ Len(tickets) <= MaxRequests
       /\ Len(bills) <= MaxRequests
  BY DEF Inv, TypeOK, DocOK, SupportOK, IntakeOK
<1>. QED
  BY <1>1, <1>2, LenProperties, CallsAssumption DEF Row

\* A request that only finds what to work on, and adds no topic.
LEMMA AskKeeps ==
  ASSUME Inv, NEW r \in Req, NEW t \in Task, Call(r, t), UNCHANGED notices,
         t.pc \notin {"announce", "push", "insertFile"},
         UNCHANGED <<docs, topics, tickets, messages, bills>>
  PROVE  CallsOK(Task)' /\ NoticesOK' /\ Counted' /\ AllTruthful' /\ OneVoice'
<1>1. Len(topics') \in Nat /\ Len(topics') <= Len(topics) + 1
  BY RowsOf
<1>2. t \in Task \cup {Idle}
  OBVIOUS
<1>. QED
  BY <1>1, <1>2, CallKeeps

\* Where a row is added there is room for it.
LEMMA RoomAt ==
  ASSUME Inv, NEW r \in Req
  PROVE  /\ At(r, "insertDoc") => Len(docs) + 1 <= MaxRequests
         /\ At(r, "insertTicket") => Len(tickets) + 1 <= MaxRequests
         /\ At(r, "insertMessage") => Len(messages) + 1 <= MaxRequests
         /\ At(r, "insertBill") => Len(bills) + 1 <= MaxRequests
<1>1. ASSUME NEW P, task[r].pc \in P
      PROVE  Cardinality(Standing(P)) \in Nat /\ Cardinality(Standing(P)) >= 1
  <2>1. r \in Standing(P)
    BY <1>1 DEF Standing
  <2>. QED
    BY <2>1, StandingFinite, FS_EmptySet
<1>2. started \in Nat /\ started <= MaxRequests /\ MaxRequests \in Nat
  BY CallsAssumption DEF Inv, TypeOK, CallsOK
<1>3. \A P : task[r].pc \in P => \A n \in Nat :
        n + Cardinality(Standing(P)) <= started => n + 1 <= MaxRequests
  BY <1>1, <1>2
<1>. QED
  BY <1>3, RowsOf DEF At, Inv, Counted

LEMMA DocumentsKeep ==
  ASSUME Inv, NEW r \in Req, DocRequest(r) \/ DocStep(r),
         UNCHANGED <<support, intake, reading, sent>>
  PROVE  DocOK' /\ CallsOK(Task)' /\ NoticesOK' /\ Counted' /\ AllTruthful' /\ OneVoice'
<1>. DEFINE Kept == CallsOK(Task)' /\ NoticesOK' /\ Counted' /\ AllTruthful' /\ OneVoice'
<1>0. /\ UNCHANGED <<topics, tickets, messages, bills>>
      /\ docs \in Seq(DocRow) /\ Len(docs) <= MaxRequests
      /\ happened \subseteq Key
  BY DEF Inv, TypeOK, DocOK, NoticesOK, support, intake
<1>1. CASE UploadDoc(r)
  <2>1. PICK by \in {"customer", "operator"} : Call(r, [pc |-> "insertDoc", of |-> NoDoc, by |-> by])
    BY <1>1 DEF UploadDoc
  <2>2. [pc |-> "insertDoc", of |-> NoDoc, by |-> by] \in Task
    BY DEF Task, DocTask
  <2>3. UNCHANGED <<docs, notices>>
    BY <1>1 DEF UploadDoc
  <2>4. Kept
    BY <2>1, <2>2, <2>3, <1>0, CallKeeps, RowsOf
  <2>. QED
    BY <2>3, <2>4, <1>0 DEF DocOK
<1>2. CASE ReplaceDoc(r)
  <2>1. PICK d \in DOMAIN docs, by \in {"customer", "operator"} :
          Call(r, [pc |-> "insertDoc", of |-> d, by |-> by])
    BY <1>2 DEF ReplaceDoc
  <2>2. [pc |-> "insertDoc", of |-> d, by |-> by] \in Task
    BY RowsOf DEF Task, DocTask, Doc
  <2>3. UNCHANGED <<docs, notices>>
    BY <1>2 DEF ReplaceDoc
  <2>4. Kept
    BY <2>1, <2>2, <2>3, <1>0, CallKeeps, RowsOf
  <2>. QED
    BY <2>3, <2>4, <1>0 DEF DocOK
<1>3. CASE JudgeDoc(r)
  <2>1. PICK d \in DOMAIN docs, v \in {"verified", "rejected"} :
          Call(r, [pc |-> "checkReplaced", doc |-> d, verdict |-> v])
    BY <1>3 DEF JudgeDoc
  <2>2. [pc |-> "checkReplaced", doc |-> d, verdict |-> v] \in Task
    BY RowsOf DEF Task, DocTask, Doc
  <2>3. UNCHANGED <<docs, notices>>
    BY <1>3 DEF JudgeDoc
  <2>4. Kept
    BY <2>1, <2>2, <2>3, <1>0, CallKeeps, RowsOf
  <2>. QED
    BY <2>3, <2>4, <1>0 DEF DocOK
<1>4. CASE CheckReplaced(r)
  <2>1. task[r] \in [pc : {"checkReplaced", "saveVerdict"}, doc : Doc,
                     verdict : {"verified", "rejected"}]
    BY <1>4, TaskAt, DocTasks DEF CheckReplaced, At, Inv
  <2>2. [task[r] EXCEPT !.pc = "saveVerdict"] \in Task
        /\ [task[r] EXCEPT !.pc = "saveVerdict"].pc = "saveVerdict"
    BY <2>1 DEF Task, DocTask
  <2>3. UNCHANGED <<docs, notices>>
    BY <1>4 DEF CheckReplaced
  <2>4. PICK t \in Task \cup {Idle} : Resume(r, t) /\ t.pc \in {"idle", "saveVerdict"}
    BY <1>4, <2>2, IdleTask DEF CheckReplaced, Goto, Finish
  <2>5. Truthful(t)'
    BY <2>4 DEF Truthful
  <2>6. Kept
    BY <2>3, <2>4, <2>5, <1>0, StepKeeps DEF notices
  <2>. QED
    BY <2>3, <2>6, <1>0 DEF DocOK
<1>5. CASE InsertDoc(r)
  <2>. DEFINE x == task[r]
              row == [verdict |-> "none", of |-> x.of]
              news == IF x.of # NoDoc /\ x.by = "customer" THEN <<"replaced", x.of>> ELSE <<>>
  <2>1. x \in [pc : {"insertDoc"}, of : {NoDoc} \cup Doc, by : {"customer", "operator"}]
    BY <1>5, TaskAt, DocTasks DEF InsertDoc, At, Inv
  <2>2. news = <<>> \/ news \in Key
    BY <2>1 DEF Key, Kind, Doc
  <2>3. docs' = Append(docs, row) /\ row \in DocRow
    BY <1>5, <2>1 DEF InsertDoc, DocRow, Verdict
  <2>4. Len(docs') = Len(docs) + 1 /\ docs' \in Seq(DocRow)
    BY <2>3, <1>0, AppendProperties
  <2>5. DocOK'
    BY <1>5, <2>4, RoomAt DEF InsertDoc, DocOK
  <2>6. /\ IF news = <<>> THEN UNCHANGED notices ELSE Happens({news})
        /\ Tell(r, IF news = <<>> THEN <<>> ELSE <<news>>)
    BY <1>5 DEF InsertDoc
  <2>. HIDE DEF x, row, news
  <2>7. news # <<>> /\ Happens({news}) => news \in happened' /\ news \in Key
    BY <2>2 DEF Happens
  <2>8. happened \subseteq happened' /\ happened' \subseteq Key /\ UNCHANGED <<shown, heard>>
    BY <2>2, <2>6, <1>0 DEF Happens, notices
  <2>9. PICK t \in Task \cup {Idle} :
          Resume(r, t) /\ t.pc \in {"idle", "announce"} /\ Truthful(t)'
    <3>1. CASE news # <<>> /\ Happens({news}) /\ Tell(r, <<news>>)
      BY <2>7, <3>1, TellOne
    <3>2. CASE Tell(r, <<>>) \/ Finish(r)
      BY <3>2, TellNone
    <3>. QED
      BY <2>6, <3>1, <3>2
  <2>11. Counted'
    <3>1. task' = [task EXCEPT ![r] = t] /\ started' = started /\ TypeOK /\ Counted
      BY <2>9 DEF Inv, Resume
    <3>2. At(r, "insertDoc")
      BY <1>5 DEF InsertDoc
    <3>3. /\ t.pc \notin {"insertDoc", "insertTicket", "insertBill"}
          /\ t.pc = "insertMessage" => At(r, "insertTicket")
      BY <2>9
    <3>. QED
      BY <1>0, <2>4, <3>1, <3>2, <3>3, MoveCounted
  <2>. QED
    BY <2>5, <2>8, <2>9, <2>11, MoveKeeps
<1>6. CASE SaveVerdict(r)
  <2>. DEFINE x == task[r]
              news == <<"rejected", x.doc>>
  <2>1. x \in [pc : {"checkReplaced", "saveVerdict"}, doc : Doc,
               verdict : {"verified", "rejected"}]
    BY <1>6, TaskAt, DocTasks DEF SaveVerdict, At, Inv
  <2>2. news \in Key
    BY <2>1 DEF Key, Kind, Doc
  <2>3. docs' = [docs EXCEPT ![x.doc].verdict = x.verdict]
    BY <1>6 DEF SaveVerdict
  <2>4. Len(docs') = Len(docs) /\ docs' \in Seq(DocRow)
    <3>1. ASSUME x.doc \in DOMAIN docs
          PROVE  [docs[x.doc] EXCEPT !.verdict = x.verdict] \in DocRow
      <4>1. docs[x.doc] \in DocRow
        BY <1>0, <3>1, ElementOfSeq, RowsOf
      <4>. QED
        BY <2>1, <4>1 DEF DocRow, Verdict
    <3>. QED
      BY <1>0, <2>3, <3>1, WriteRow
  <2>5. DocOK'
    BY <2>4, <1>0 DEF DocOK
  <2>6. \/ Happens({news}) /\ Tell(r, <<news>>)
        \/ UNCHANGED notices /\ Finish(r)
    BY <1>6 DEF SaveVerdict
  <2>10. news # <<>>
    OBVIOUS
  <2>. HIDE DEF x, news
  <2>7. news # <<>> /\ Happens({news}) => news \in happened' /\ news \in Key
    BY <2>2 DEF Happens
  <2>8. happened \subseteq happened' /\ happened' \subseteq Key /\ UNCHANGED <<shown, heard>>
    BY <2>2, <2>6, <1>0 DEF Happens, notices
  <2>9. PICK t \in Task \cup {Idle} :
          Resume(r, t) /\ t.pc \in {"idle", "announce"} /\ Truthful(t)'
    <3>1. CASE news # <<>> /\ Happens({news}) /\ Tell(r, <<news>>)
      BY <2>7, <3>1, TellOne
    <3>2. CASE Tell(r, <<>>) \/ Finish(r)
      BY <3>2, TellNone
    <3>. QED
      BY <2>6, <2>10, <3>1, <3>2
  <2>11. Kept
    BY <1>0, <2>4, <2>8, <2>9, StepKeeps
  <2>. QED
    BY <2>5, <2>11
<1>. QED
  BY <1>1, <1>2, <1>3, <1>4, <1>5, <1>6 DEF DocRequest, DocStep

-----------------------------------------------------------------------------
(* Support requests. *)

LEMMA TicketRequestKeeps ==
  ASSUME Inv, NEW r \in Req, TicketRequest(r), UNCHANGED <<docs, intake>>
  PROVE  SupportOK' /\ CallsOK(Task)' /\ NoticesOK' /\ Counted' /\ AllTruthful' /\ OneVoice'
<1>. DEFINE Kept == CallsOK(Task)' /\ NoticesOK' /\ Counted' /\ AllTruthful' /\ OneVoice'
<1>0. /\ UNCHANGED <<docs, bills>>
      /\ topics \in Seq(TopicState) /\ tickets \in Seq(TicketRow) /\ messages \in Seq(Row)
      /\ SupportOK
  BY DEF Inv, TypeOK, SupportOK, intake
<1>1. CASE CreateTopic(r)
  <2>1. topics' = Append(topics, "active") /\ Call(r, Idle) /\ UNCHANGED <<tickets, messages, notices>>
    BY <1>1 DEF CreateTopic, CallOnce
  <2>2. topics' \in Seq(TopicState) /\ Len(topics') = Len(topics) + 1
    BY <1>0, <2>1, AppendProperties DEF TopicState
  <2>5. Len(topics') \in Nat /\ Len(topics') <= Len(topics) + 1
    BY <2>2, RowsOf
  <2>3. Kept
    <3>1. PICK t \in Task \cup {Idle} : t = Idle /\ t.pc = "idle"
      BY IdleTask
    <3>2. Call(r, t) /\ UNCHANGED <<tickets, messages, notices>>
      BY <2>1, <3>1
    <3>3. t.pc \notin {"announce", "push", "insertFile"}
      BY <3>1
    <3>. QED
      BY <1>0, <2>5, <3>2, <3>3, CallKeeps
  <2>4. Len(topics') <= MaxRequests
    BY <2>3, <2>2, RowsOf, CallsAssumption DEF Counted, CallsOK
  <2>. QED
    BY <1>0, <2>1, <2>2, <2>3, <2>4 DEF SupportOK
<1>2. CASE UpdateTopic(r)
  <2>1. PICK p \in DOMAIN topics, a \in {"active", "inactive"} :
          Call(r, [pc |-> "saveTopic", topic |-> p, active |-> a])
    BY <1>2 DEF UpdateTopic
  <2>2. PICK t \in Task : t = [pc |-> "saveTopic", topic |-> p, active |-> a]
    BY RowsOf DEF Task, TicketTask
  <2>5. Call(r, t) /\ t.pc = "saveTopic"
    BY <2>1, <2>2
  <2>3. UNCHANGED <<topics, tickets, messages, notices>>
    BY <1>2 DEF UpdateTopic, support
  <2>4. Kept
    BY <1>0, <2>3, <2>5, AskKeeps
  <2>. QED
    BY <1>0, <2>3, <2>4 DEF SupportOK
<1>3. CASE DeleteTopic(r)
  <2>1. PICK p \in DOMAIN topics : Call(r, [pc |-> "countTickets", topic |-> p])
    BY <1>3 DEF DeleteTopic
  <2>2. PICK t \in Task : t = [pc |-> "countTickets", topic |-> p]
    BY RowsOf DEF Task, TicketTask
  <2>5. Call(r, t) /\ t.pc = "countTickets"
    BY <2>1, <2>2
  <2>3. UNCHANGED <<topics, tickets, messages, notices>>
    BY <1>3 DEF DeleteTopic, support
  <2>4. Kept
    BY <1>0, <2>3, <2>5, AskKeeps
  <2>. QED
    BY <1>0, <2>3, <2>4 DEF SupportOK
<1>4. CASE OpenTicket(r)
  <2>1. PICK p \in DOMAIN topics : Call(r, [pc |-> "insertTicket", topic |-> p])
    BY <1>4 DEF OpenTicket
  <2>2. PICK t \in Task : t = [pc |-> "insertTicket", topic |-> p]
    BY RowsOf DEF Task, TicketTask
  <2>5. Call(r, t) /\ t.pc = "insertTicket"
    BY <2>1, <2>2
  <2>3. UNCHANGED <<topics, tickets, messages, notices>>
    BY <1>4 DEF OpenTicket, support
  <2>4. Kept
    BY <1>0, <2>3, <2>5, AskKeeps
  <2>. QED
    BY <1>0, <2>3, <2>4 DEF SupportOK
<1>5. CASE AddMessage(r)
  <2>1. PICK i \in DOMAIN tickets, s \in {"question", "answer"} :
          Call(r, [pc |-> "insertMessage", ticket |-> i, says |-> s])
    BY <1>5 DEF AddMessage
  <2>2. PICK t \in Task : t = [pc |-> "insertMessage", ticket |-> i, says |-> s]
    BY RowsOf DEF Task, TicketTask
  <2>5. Call(r, t) /\ t.pc = "insertMessage"
    BY <2>1, <2>2
  <2>3. UNCHANGED <<topics, tickets, messages, notices>>
    BY <1>5 DEF AddMessage, support
  <2>4. Kept
    BY <1>0, <2>3, <2>5, AskKeeps
  <2>. QED
    BY <1>0, <2>3, <2>4 DEF SupportOK
<1>6. CASE UpdateTicket(r)
  <2>1. PICK i \in DOMAIN tickets, assign \in BOOLEAN, s \in TicketStatus \cup {None} :
          LET was == tickets[i].status
              status == IF s # None THEN s
                        ELSE IF assign /\ was = "open" THEN "in_progress" ELSE was IN
          Call(r, [pc |-> "saveTicket", ticket |-> i,
                   found |-> [tickets[i] EXCEPT !.status = status,
                                               !.dated = @ \cup ({s} \cap Ended)],
                   says |-> IF s # was THEN {s} \cap Ended ELSE {}])
    BY <1>6 DEF UpdateTicket
  <2>. DEFINE was == tickets[i].status
              status == IF s # None THEN s
                        ELSE IF assign /\ was = "open" THEN "in_progress" ELSE was
              found == [tickets[i] EXCEPT !.status = status,
                                          !.dated = @ \cup ({s} \cap Ended)]
              says == IF s # was THEN {s} \cap Ended ELSE {}
              t == [pc |-> "saveTicket", ticket |-> i, found |-> found, says |-> says]
  <2>2. tickets[i] \in TicketRow
    BY <1>0, ElementOfSeq, RowsOf
  <2>3. status \in TicketStatus /\ says \in SUBSET Ended
    BY <2>2 DEF TicketRow, TicketStatus
  <2>4. found \in TicketRow
    BY <2>2, <2>3 DEF TicketRow
  <2>5. Call(r, t)
    BY <2>1
  <2>. HIDE DEF found, says
  <2>6. t \in Task /\ t.pc = "saveTicket"
    BY <2>3, <2>4, RowsOf DEF Task, TicketTask
  <2>7. UNCHANGED <<topics, tickets, messages, notices>>
    BY <1>6 DEF UpdateTicket, support
  <2>. HIDE DEF t
  <2>. QED
    BY <1>0, <2>5, <2>6, <2>7, CallKeeps, RowsOf DEF SupportOK
<1>. QED
  BY <1>1, <1>2, <1>3, <1>4, <1>5, <1>6 DEF TicketRequest

LEMMA TicketStepKeeps ==
  ASSUME Inv, NEW r \in Req, TicketStep(r), UNCHANGED <<docs, intake>>
  PROVE  SupportOK' /\ CallsOK(Task)' /\ NoticesOK' /\ Counted' /\ AllTruthful' /\ OneVoice'
<1>. DEFINE Kept == CallsOK(Task)' /\ NoticesOK' /\ Counted' /\ AllTruthful' /\ OneVoice'
            x == task[r]
<1>0. /\ UNCHANGED <<docs, bills>>
      /\ topics \in Seq(TopicState) /\ tickets \in Seq(TicketRow) /\ messages \in Seq(Row)
      /\ Len(topics) <= MaxRequests /\ Len(tickets) <= MaxRequests /\ Len(messages) <= MaxRequests
      /\ x \in Task \cup {Idle} /\ happened \subseteq Key /\ TypeOK /\ Counted
  BY TaskAt DEF Inv, TypeOK, SupportOK, NoticesOK, intake
<1>1. CASE SaveTopic(r)
  <2>1. x \in [pc : {"saveTopic"}, topic : Row, active : {"active", "inactive"}]
    BY <1>0, <1>1, TicketTasks DEF SaveTopic, At
  <2>2. topics' = [topics EXCEPT ![x.topic] = x.active] /\ Resume(r, Idle)
        /\ UNCHANGED <<tickets, messages, notices>>
    BY <1>1 DEF SaveTopic, Finish
  <2>3. x.active \in TopicState
    BY <2>1 DEF TopicState
  <2>. HIDE DEF x
  <2>4. topics' \in Seq(TopicState) /\ Len(topics') = Len(topics)
    BY <1>0, <2>2, <2>3, WriteRow
  <2>. QED
    BY <1>0, <2>2, <2>4, IdleTask, StepKeeps DEF SupportOK, notices
<1>2. CASE CountTickets(r)
  <2>1. x \in [pc : {"countTickets", "removeTopic", "insertTicket"}, topic : Row]
    BY <1>0, <1>2, TicketTasks DEF CountTickets, At
  <2>2. [x EXCEPT !.pc = "removeTopic"] \in Task /\ [x EXCEPT !.pc = "removeTopic"].pc = "removeTopic"
    BY <2>1 DEF Task, TicketTask
  <2>3. UNCHANGED <<topics, tickets, messages, notices>>
    BY <1>2 DEF CountTickets, support
  <2>4. PICK t \in Task \cup {Idle} : Resume(r, t) /\ t.pc \in {"idle", "removeTopic"}
    BY <1>2, <2>2, IdleTask DEF CountTickets, Goto, Finish
  <2>5. Truthful(t)'
    BY <2>4 DEF Truthful
  <2>. QED
    BY <1>0, <2>3, <2>4, <2>5, StepKeeps DEF SupportOK, notices
<1>3. CASE RemoveTopic(r)
  <2>1. \/ topics' = [topics EXCEPT ![x.topic] = "removed"]
        \/ topics' = topics
    BY <1>3 DEF RemoveTopic
  <2>2. Resume(r, Idle) /\ UNCHANGED <<tickets, messages, notices>>
    BY <1>3 DEF RemoveTopic, Finish
  <2>3. topics' \in Seq(TopicState) /\ Len(topics') = Len(topics)
    BY <1>0, <2>1, WriteRow DEF TopicState
  <2>. QED
    BY <1>0, <2>2, <2>3, IdleTask, StepKeeps DEF SupportOK, notices
<1>4. CASE InsertTicket(r)
  <2>. DEFINE row == [topic |-> x.topic, status |-> "open", dated |-> {}]
              first == [pc |-> "insertMessage", ticket |-> Len(tickets) + 1, says |-> "asked"]
  <2>1. x \in [pc : {"countTickets", "removeTopic", "insertTicket"}, topic : Row]
    BY <1>0, <1>4, TicketTasks DEF InsertTicket, At
  <2>2. row \in TicketRow
    BY <2>1 DEF TicketRow, TicketStatus
  <2>3. UNCHANGED <<topics, messages, notices>> /\ At(r, "insertTicket")
    BY <1>4 DEF InsertTicket
  <2>4. CASE UNCHANGED tickets /\ Finish(r)
    BY <1>0, <2>3, <2>4, IdleTask, StepKeeps DEF SupportOK, notices, Finish
  <2>5. CASE tickets' = Append(tickets, row) /\ Resume(r, [first EXCEPT !.ticket = Len(tickets')])
    <3>1. tickets' \in Seq(TicketRow) /\ Len(tickets') = Len(tickets) + 1
      BY <1>0, <2>2, <2>5, AppendProperties
    <3>2. Len(tickets') <= MaxRequests /\ Len(tickets') \in Row
      BY <2>3, <3>1, RoomAt, RowsOf DEF Row
    <3>3. PICK t \in Task : t.pc = "insertMessage" /\ Resume(r, t)
      <4>1. first \in Task /\ first.pc = "insertMessage" /\ Resume(r, first)
        BY <2>5, <3>1, <3>2 DEF Task, TicketTask
      <4>. HIDE DEF first
      <4>. QED
        BY <4>1
    <3>4. Truthful(t)'
      BY <3>3 DEF Truthful
    <3>5. CallsOK(Task)' /\ NoticesOK' /\ AllTruthful' /\ OneVoice'
      BY <1>0, <2>3, <3>3, <3>4, MoveKeeps DEF notices
    <3>6. Counted'
      <4>1. task' = [task EXCEPT ![r] = t] /\ started' = started
        BY <3>3 DEF Resume
      <4>. QED
        BY <1>0, <2>3, <3>1, <3>3, <4>1, MoveCounted
    <3>. QED
      BY <1>0, <2>3, <3>1, <3>2, <3>5, <3>6 DEF SupportOK
  <2>. QED
    BY <1>4, <2>4, <2>5 DEF InsertTicket
<1>5. CASE InsertMessage(r)
  <2>. DEFINE key == <<x.says, IF x.says = "asked" THEN x.ticket ELSE Len(messages')>>
  <2>1. x \in [pc : {"insertMessage"}, ticket : Row, says : {"asked", "question", "answer"}]
    BY <1>0, <1>5, TicketTasks DEF InsertMessage, At
  <2>2. messages' = Append(messages, x.ticket) /\ At(r, "insertMessage")
        /\ UNCHANGED <<topics, tickets>>
    BY <1>5 DEF InsertMessage
  <2>3. messages' \in Seq(Row) /\ Len(messages') = Len(messages) + 1
    BY <1>0, <2>1, <2>2, AppendProperties
  <2>4. Len(messages') <= MaxRequests /\ Len(messages') \in Row
    BY <2>2, <2>3, RoomAt, RowsOf DEF Row
  <2>5. key \in Key
    BY <2>1, <2>4 DEF Key, Kind
  <2>6. Happens({key}) /\ Tell(r, <<key>>)
    BY <1>5 DEF InsertMessage
  <2>. HIDE DEF key
  <2>7. happened \subseteq happened' /\ happened' \subseteq Key /\ UNCHANGED <<shown, heard>>
        /\ key \in happened'
    BY <1>0, <2>5, <2>6 DEF Happens
  <2>8. PICK t \in Task \cup {Idle} :
          Resume(r, t) /\ t.pc \in {"idle", "announce"} /\ Truthful(t)'
    BY <2>5, <2>6, <2>7, TellOne
  <2>9. CallsOK(Task)' /\ NoticesOK' /\ AllTruthful' /\ OneVoice'
    BY <2>7, <2>8, MoveKeeps
  <2>10. Counted'
    <3>1. task' = [task EXCEPT ![r] = t] /\ started' = started
      BY <2>8 DEF Resume
    <3>2. /\ t.pc \notin {"insertDoc", "insertTicket", "insertBill"}
          /\ t.pc = "insertMessage" => At(r, "insertTicket")
      BY <2>8
    <3>. QED
      BY <1>0, <2>2, <2>3, <3>1, <3>2, MoveCounted
  <2>. QED
    BY <1>0, <2>2, <2>3, <2>4, <2>9, <2>10 DEF SupportOK
<1>6. CASE SaveTicket(r)
  <2>. DEFINE news == {<<s, x.ticket>> : s \in x.says}
  <2>1. x \in [pc : {"saveTicket"}, ticket : Row, found : TicketRow, says : SUBSET Ended]
    BY <1>0, <1>6, TicketTasks DEF SaveTicket, At
  <2>2. tickets' = [tickets EXCEPT ![x.ticket] = x.found] /\ UNCHANGED <<topics, messages>>
        /\ Happens(news)
        /\ IF news = {} THEN Finish(r) ELSE \E k \in news : Tell(r, <<k>>)
    BY <1>6 DEF SaveTicket
  <2>3. tickets' \in Seq(TicketRow) /\ Len(tickets') = Len(tickets)
    BY <1>0, <2>1, <2>2, WriteRow
  <2>4. news \subseteq Key
    BY <2>1 DEF Key, Kind, Ended
  <2>. HIDE DEF news
  <2>5. happened \subseteq happened' /\ happened' \subseteq Key /\ UNCHANGED <<shown, heard>>
        /\ news \subseteq happened'
    BY <1>0, <2>2, <2>4 DEF Happens
  <2>6. PICK t \in Task \cup {Idle} :
          Resume(r, t) /\ t.pc \in {"idle", "announce"} /\ Truthful(t)'
    <3>1. CASE news = {}
      BY <2>2, <3>1, TellNone
    <3>2. CASE news # {}
      <4>1. PICK k \in news : Tell(r, <<k>>)
        BY <2>2, <3>2
      <4>. QED
        BY <2>4, <2>5, <4>1, TellOne
    <3>. QED
      BY <3>1, <3>2
  <2>7. Kept
    BY <1>0, <2>2, <2>3, <2>5, <2>6, StepKeeps
  <2>. QED
    BY <1>0, <2>2, <2>3, <2>7 DEF SupportOK
<1>. QED
  BY <1>1, <1>2, <1>3, <1>4, <1>5, <1>6 DEF TicketStep

-----------------------------------------------------------------------------
(* The intake of bills. *)

\* A bill that is live is one of the rows.
LEMMA LiveBill ==
  ASSUME Inv, NEW b \in Live
  PROVE  b \in DOMAIN bills /\ b \in Row /\ bills[b] \in BillRow
<1>1. bills \in Seq(BillRow) /\ b \in DOMAIN bills
  BY DEF Inv, TypeOK, IntakeOK, Live
<1>. QED
  BY <1>1, ElementOfSeq, RowsOf

\* The request is numbered, and so is the file it brings.
LEMMA FileOfCall ==
  ASSUME Inv, NEW r \in Req, NEW t, Call(r, t)
  PROVE  started' \in File
<1>1. started \in Nat /\ started < MaxRequests /\ started' = started + 1
  BY TaskAt DEF Inv, Call
<1>. QED
  BY <1>1, CallsAssumption DEF File, Row

LEMMA FileIsSome ==
  ASSUME NEW f \in File
  PROVE  f # NoFile
BY CallsAssumption DEF File, Row, NoFile

LEMMA IntakeRequestKeeps ==
  ASSUME Inv, NEW r \in Req, IntakeRequest(r), UNCHANGED <<docs, support>>
  PROVE  IntakeOK' /\ CallsOK(Task)' /\ NoticesOK' /\ Counted' /\ AllTruthful' /\ OneVoice'
<1>0. UNCHANGED <<docs, topics, tickets, messages, intake, notices>>
  BY DEF support, IntakeRequest, Upload, Promise, UploadEmail, AddFile, Merge
<1>. SUFFICES \E t \in Task : /\ Call(r, t)
                              /\ t.pc \notin {"announce", "push", "insertFile"}
  <2>1. ASSUME NEW t \in Task, Call(r, t), t.pc \notin {"announce", "push", "insertFile"}
        PROVE  CallsOK(Task)' /\ NoticesOK' /\ Counted' /\ AllTruthful' /\ OneVoice'
    BY <1>0, <2>1, CallKeeps, RowsOf DEF intake
  <2>2. IntakeOK'
    BY <1>0 DEF Inv, TypeOK, IntakeOK, intake
  <2>. QED
    BY <2>1, <2>2
<1>1. CASE Upload(r)
  <2>1. PICK type \in BillType :
          Call(r, [pc |-> "insertBill", told |-> TRUE, read |-> FALSE,
                   row |-> [type |-> type, source |-> "upload", live |-> TRUE,
                            status |-> "verification_review", file |-> started']])
    BY <1>1 DEF Upload
  <2>2. PICK f \in File : f = started'
    BY <2>1, FileOfCall
  <2>. DEFINE row == [type |-> type, source |-> "upload", live |-> TRUE,
                      status |-> "verification_review", file |-> f]
              t == [pc |-> "insertBill", told |-> TRUE, read |-> FALSE, row |-> row]
  <2>3. row \in BillRow
    BY DEF BillRow, Status
  <2>4. Call(r, t)
    BY <2>1, <2>2
  <2>. HIDE DEF row
  <2>5. t \in Task /\ t.pc = "insertBill"
    BY <2>3 DEF Task, IntakeTask
  <2>. HIDE DEF t
  <2>. QED
    BY <2>4, <2>5
<1>2. CASE Promise(r)
  <2>1. PICK type \in BillType :
          Call(r, [pc |-> "insertBill", told |-> TRUE, read |-> FALSE,
                   row |-> [type |-> type, source |-> "email", live |-> TRUE,
                            status |-> "pending_email", file |-> NoFile]])
    BY <1>2 DEF Promise
  <2>. DEFINE row == [type |-> type, source |-> "email", live |-> TRUE,
                      status |-> "pending_email", file |-> NoFile]
              t == [pc |-> "insertBill", told |-> TRUE, read |-> FALSE, row |-> row]
  <2>2. row \in BillRow
    BY DEF BillRow, Status
  <2>3. Call(r, t)
    BY <2>1
  <2>. HIDE DEF row
  <2>4. t \in Task /\ t.pc = "insertBill"
    BY <2>2 DEF Task, IntakeTask
  <2>. HIDE DEF t
  <2>. QED
    BY <2>3, <2>4
<1>3. CASE UploadEmail(r)
  <2>1. PICK type \in BillType, read \in BOOLEAN :
          \/ Call(r, [pc |-> "insertBill", told |-> FALSE, read |-> read,
                      row |-> [type |-> type, source |-> "email", live |-> TRUE,
                               status |-> "analyzing", file |-> started']])
          \/ \E b \in Waiting(type) :
               Call(r, [pc |-> "saveUpload", bill |-> b, read |-> read,
                        row |-> [bills[b] EXCEPT !.file = started', !.status = "analyzing"]])
    BY <1>3 DEF UploadEmail
  <2>2. PICK f \in File : f = started'
    BY <2>1, FileOfCall
  <2>3. CASE Call(r, [pc |-> "insertBill", told |-> FALSE, read |-> read,
                      row |-> [type |-> type, source |-> "email", live |-> TRUE,
                               status |-> "analyzing", file |-> started']])
    <3>. DEFINE row == [type |-> type, source |-> "email", live |-> TRUE,
                        status |-> "analyzing", file |-> f]
                t == [pc |-> "insertBill", told |-> FALSE, read |-> read, row |-> row]
    <3>1. row \in BillRow
      BY DEF BillRow, Status
    <3>2. Call(r, t)
      BY <2>2, <2>3
    <3>. HIDE DEF row
    <3>3. t \in Task /\ t.pc = "insertBill"
      BY <3>1 DEF Task, IntakeTask
    <3>. HIDE DEF t
    <3>. QED
      BY <3>2, <3>3
  <2>4. ASSUME NEW b \in Waiting(type),
               Call(r, [pc |-> "saveUpload", bill |-> b, read |-> read,
                        row |-> [bills[b] EXCEPT !.file = started', !.status = "analyzing"]])
        PROVE  \E t \in Task : Call(r, t) /\ t.pc \notin {"announce", "push", "insertFile"}
    <3>. DEFINE row == [bills[b] EXCEPT !.file = f, !.status = "analyzing"]
                t == [pc |-> "saveUpload", bill |-> b, read |-> read, row |-> row]
    <3>1. b \in Row /\ bills[b] \in BillRow
      BY LiveBill DEF Waiting
    <3>2. row \in Filed
      BY <3>1, FileIsSome DEF Filed, BillRow, Status
    <3>3. Call(r, t)
      BY <2>2, <2>4
    <3>. HIDE DEF row
    <3>4. t \in Task /\ t.pc = "saveUpload"
      BY <3>1, <3>2 DEF Task, IntakeTask
    <3>. HIDE DEF t
    <3>. QED
      BY <3>3, <3>4
  <2>. QED
    BY <2>1, <2>3, <2>4
<1>4. CASE AddFile(r)
  <2>1. PICK b \in Live : Call(r, [pc |-> "addFile", bill |-> b,
                                   row |-> [bills[b] EXCEPT !.file = started']])
    BY <1>4 DEF AddFile
  <2>2. PICK f \in File : f = started'
    BY <2>1, FileOfCall
  <2>. DEFINE row == [bills[b] EXCEPT !.file = f]
              t == [pc |-> "addFile", bill |-> b, row |-> row]
  <2>3. b \in Row /\ bills[b] \in BillRow
    BY LiveBill
  <2>4. row \in Filed
    BY <2>3, FileIsSome DEF Filed, BillRow
  <2>5. Call(r, t)
    BY <2>1, <2>2
  <2>. HIDE DEF row
  <2>6. t \in Task /\ t.pc = "addFile"
    BY <2>3, <2>4 DEF Task, IntakeTask
  <2>. HIDE DEF t
  <2>. QED
    BY <2>5, <2>6
<1>5. CASE Merge(r)
  <2>1. PICK b \in Live, p \in Live :
          Call(r, [pc |-> "saveMerged", bill |-> b, into |-> p,
                   row |-> [bills[p] EXCEPT !.file = bills[b].file,
                              !.status = IF bills[b].file = NoFile
                                         THEN "pending_email" ELSE "analyzing"]])
    BY <1>5 DEF Merge
  <2>. DEFINE row == [bills[p] EXCEPT !.file = bills[b].file,
                        !.status = IF bills[b].file = NoFile
                                   THEN "pending_email" ELSE "analyzing"]
              t == [pc |-> "saveMerged", bill |-> b, into |-> p, row |-> row]
  <2>2. b \in Row /\ p \in Row /\ bills[b] \in BillRow /\ bills[p] \in BillRow
    BY LiveBill
  <2>3. row \in BillRow
    BY <2>2 DEF BillRow, Status
  <2>4. Call(r, t)
    BY <2>1
  <2>. HIDE DEF row
  <2>5. t \in Task /\ t.pc = "saveMerged"
    BY <2>2, <2>3 DEF Task, IntakeTask
  <2>6. PICK u \in Task : Call(r, u) /\ u.pc = "saveMerged"
    BY <2>4, <2>5
  <2>. QED
    BY <2>6
<1>. QED
  BY <1>1, <1>2, <1>3, <1>4, <1>5 DEF IntakeRequest

\* What a customer and the operators are told of a bill that came in.
LEMMA SubmittedNews ==
  ASSUME NEW b \in Row
  PROVE  <<"submitted", b>> \in Key /\ <<"check", b>> \in Key
BY DEF Key, Kind

LEMMA TellSubmitted ==
  ASSUME NEW r \in Req, NEW x, NEW b \in Row, Tell(r, Submitted(x, b)),
         x.told => <<"submitted", b>> \in happened' /\ <<"check", b>> \in happened'
  PROVE  \E t \in Task \cup {Idle} :
           Resume(r, t) /\ t.pc \in {"idle", "announce"} /\ Truthful(t)'
<1>1. CASE x.told
  <2>. DEFINE keys == <<<<"submitted", b>>, <<"check", b>>>>
  <2>1. keys \in Seq(Key) /\ DOMAIN keys = 1 .. 2
        /\ keys[1] = <<"submitted", b>> /\ keys[2] = <<"check", b>>
    BY SubmittedNews
  <2>2. \A i \in DOMAIN keys : keys[i] \in happened'
    BY <1>1, <2>1
  <2>3. Tell(r, keys)
    BY <1>1 DEF Submitted
  <2>. HIDE DEF keys
  <2>. QED
    BY <2>1, <2>2, <2>3, TellMoves
<1>2. CASE ~x.told
  BY <1>2, TellNone DEF Submitted
<1>. QED
  BY <1>1, <1>2

LEMMA IntakeStepKeeps ==
  ASSUME Inv, NEW r \in Req, IntakeStep(r), UNCHANGED <<docs, support>>
  PROVE  IntakeOK' /\ CallsOK(Task)' /\ NoticesOK' /\ Counted' /\ AllTruthful' /\ OneVoice'
<1>. DEFINE Kept == CallsOK(Task)' /\ NoticesOK' /\ Counted' /\ AllTruthful' /\ OneVoice'
            x == task[r]
<1>0. /\ UNCHANGED <<docs, topics, tickets, messages>>
      /\ bills \in Seq(BillRow) /\ Len(bills) <= MaxRequests
      /\ files \subseteq Row \X File /\ kept \subseteq File
      /\ x \in Task \cup {Idle} /\ happened \subseteq Key /\ TypeOK /\ Counted
      /\ Truthful(x)
  BY TaskAt DEF Inv, TypeOK, IntakeOK, NoticesOK, support, AllTruthful
<1>1. CASE InsertBill(r)
  <2>. DEFINE b == Len(bills) + 1
              next == [pc |-> "insertFile", bill |-> b, row |-> x.row, told |-> x.told,
                       read |-> x.read]
  <2>1. x \in [pc : {"insertBill"}, row : BillRow, told : BOOLEAN, read : BOOLEAN]
    BY <1>0, <1>1, IntakeTasks DEF InsertBill, At
  <2>2. /\ bills' = Append(bills, x.row) /\ kept' = kept \cup ({x.row.file} \ {NoFile})
        /\ UNCHANGED files /\ At(r, "insertBill")
        /\ IF x.told THEN Happens({<<"submitted", b>>, <<"check", b>>}) ELSE UNCHANGED notices
        /\ IF x.row.file = NoFile THEN Tell(r, Submitted(x, b)) ELSE Resume(r, next)
    BY <1>1 DEF InsertBill
  <2>3. bills' \in Seq(BillRow) /\ Len(bills') = Len(bills) + 1
    BY <1>0, <2>1, <2>2, AppendProperties
  <2>4. Len(bills') <= MaxRequests /\ b \in Row
    BY <2>2, <2>3, RoomAt, RowsOf DEF Row
  <2>5. x.row.file \in {NoFile} \cup File
    BY <2>1 DEF BillRow
  <2>6. IntakeOK'
    BY <1>0, <2>2, <2>3, <2>4, <2>5 DEF IntakeOK
  <2>7. happened \subseteq happened' /\ happened' \subseteq Key /\ UNCHANGED <<shown, heard>>
        /\ (x.told => <<"submitted", b>> \in happened' /\ <<"check", b>> \in happened')
    <3>1. <<"submitted", b>> \in Key /\ <<"check", b>> \in Key
      BY <2>4, SubmittedNews
    <3>2. CASE x.told
      BY <1>0, <2>2, <3>1, <3>2 DEF Happens
    <3>3. CASE ~x.told
      BY <1>0, <2>2, <3>3 DEF notices
    <3>. QED
      BY <3>2, <3>3
  <2>. HIDE DEF b
  <2>8. PICK t \in Task \cup {Idle} :
          Resume(r, t) /\ t.pc \in {"idle", "announce", "insertFile"} /\ Truthful(t)'
    <3>1. CASE x.row.file = NoFile
      BY <2>2, <2>4, <2>7, <3>1, TellSubmitted
    <3>2. CASE x.row.file # NoFile
      <4>1. next \in Task
        BY <2>1, <2>4, <3>2 DEF Task, IntakeTask, Filed
      <4>2. PICK t \in Task : t = next
        BY <4>1
      <4>3. Truthful(t)'
        BY <2>7, <4>2 DEF Truthful
      <4>. QED
        BY <2>2, <3>2, <4>2, <4>3
    <3>. QED
      BY <3>1, <3>2
  <2>9. CallsOK(Task)' /\ NoticesOK' /\ AllTruthful' /\ OneVoice'
    BY <2>7, <2>8, MoveKeeps
  <2>10. Counted'
    <3>1. task' = [task EXCEPT ![r] = t] /\ started' = started
      BY <2>8 DEF Resume
    <3>2. /\ t.pc \notin {"insertDoc", "insertTicket", "insertBill"}
          /\ t.pc = "insertMessage" => At(r, "insertTicket")
      BY <2>8
    <3>. QED
      BY <1>0, <2>2, <2>3, <3>1, <3>2, MoveCounted
  <2>. QED
    BY <2>6, <2>9, <2>10
<1>2. CASE SaveUpload(r)
  <2>. DEFINE next == [pc |-> "insertFile", bill |-> x.bill, row |-> x.row, told |-> FALSE,
                       read |-> x.read]
  <2>1. x \in [pc : {"saveUpload"}, bill : Row, row : Filed, read : BOOLEAN]
    BY <1>0, <1>2, IntakeTasks DEF SaveUpload, At
  <2>2. /\ bills' = [bills EXCEPT ![x.bill] = x.row] /\ kept' = kept \cup ({x.row.file} \ {NoFile})
        /\ UNCHANGED <<files, notices>> /\ Resume(r, next)
    BY <1>2 DEF SaveUpload, Store
  <2>3. x.row \in BillRow
    BY <2>1 DEF Filed
  <2>4. x.row.file \in {NoFile} \cup File
    BY <2>3 DEF BillRow
  <2>9. bills' \in Seq(BillRow) /\ Len(bills') = Len(bills)
    <3>1. \A i : \A row \in BillRow : /\ [bills EXCEPT ![i] = row] \in Seq(BillRow)
                                      /\ Len([bills EXCEPT ![i] = row]) = Len(bills)
      BY <1>0, WriteRow
    <3>. QED
      BY <2>2, <2>3, <3>1
  <2>5. next \in Task
    BY <2>1 DEF Task, IntakeTask
  <2>6. PICK t \in Task : t = next
    BY <2>5
  <2>7. Resume(r, t) /\ t.pc = "insertFile" /\ Truthful(t)'
    BY <2>2, <2>6 DEF Truthful
  <2>8. Kept
    BY <1>0, <2>2, <2>9, <2>7, StepKeeps DEF notices
  <2>. QED
    BY <1>0, <2>2, <2>9, <2>4, <2>8 DEF IntakeOK
<1>3. CASE InsertFile(r)
  <2>1. x \in [pc : {"insertFile"}, bill : Row, row : Filed, told : BOOLEAN, read : BOOLEAN]
    BY <1>0, <1>3, IntakeTasks DEF InsertFile, At
  <2>2. /\ files' = files \cup {<<x.bill, x.row.file>>} /\ UNCHANGED <<bills, kept, notices>>
        /\ At(r, "insertFile")
        /\ IF x.read THEN Resume(r, [pc |-> "saveRead", bill |-> x.bill, row |-> x.row])
           ELSE Tell(r, Submitted(x, x.bill))
    BY <1>3 DEF InsertFile
  <2>3. x.told => <<"submitted", x.bill>> \in happened' /\ <<"check", x.bill>> \in happened'
    BY <1>0, <2>2 DEF Truthful, At, notices
  <2>4. PICK t \in Task \cup {Idle} :
          Resume(r, t) /\ t.pc \in {"idle", "announce", "saveRead"} /\ Truthful(t)'
    <3>1. CASE x.read
      <4>1. [pc |-> "saveRead", bill |-> x.bill, row |-> x.row] \in Task
        BY <2>1 DEF Task, IntakeTask
      <4>2. PICK t \in Task : t = [pc |-> "saveRead", bill |-> x.bill, row |-> x.row]
        BY <4>1
      <4>3. t.pc = "saveRead" /\ Truthful(t)'
        BY <4>2 DEF Truthful
      <4>. QED
        BY <2>2, <3>1, <4>2, <4>3
    <3>2. CASE ~x.read
      <4>1. x.bill \in Row
        BY <2>1
      <4>. QED
        BY <2>2, <2>3, <3>2, <4>1, TellSubmitted
    <3>. QED
      BY <3>1, <3>2
  <2>5. Kept
    BY <1>0, <2>2, <2>4, StepKeeps DEF notices
  <2>6. x.bill \in Row /\ x.row.file \in File
    BY <2>1 DEF Filed, BillRow
  <2>. QED
    BY <1>0, <2>2, <2>5, <2>6 DEF IntakeOK
<1>4. CASE InsertAdded(r)
  <2>1. x \in [pc : {"saveRead", "addFile"}, bill : Row, row : Filed]
    BY <1>0, <1>4, IntakeTasks DEF InsertAdded, At
  <2>2. /\ files' = files \cup {<<x.bill, x.row.file>>} /\ UNCHANGED <<bills, kept, notices>>
        /\ Resume(r, Idle)
    BY <1>4 DEF InsertAdded, Finish
  <2>3. x.bill \in Row /\ x.row.file \in File
    BY <2>1 DEF Filed, BillRow
  <2>4. Kept
    BY <1>0, <2>2, IdleTask, StepKeeps DEF notices
  <2>. QED
    BY <1>0, <2>2, <2>3, <2>4 DEF IntakeOK
<1>5. CASE SaveRead(r)
  <2>. DEFINE row == [x.row EXCEPT !.status = "verification_review"]
  <2>1. x \in [pc : {"saveRead", "addFile"}, bill : Row, row : Filed]
    BY <1>0, <1>5, IntakeTasks DEF SaveRead, At
  <2>2. row \in BillRow /\ row.file \in {NoFile} \cup File
    BY <2>1 DEF Filed, BillRow, Status
  <2>3. /\ bills' = [bills EXCEPT ![x.bill] = row] /\ kept' = kept \cup ({row.file} \ {NoFile})
        /\ UNCHANGED <<files, notices>> /\ Resume(r, Idle)
    BY <1>5 DEF SaveRead, Store, Finish
  <2>. HIDE DEF x, row
  <2>4. bills' \in Seq(BillRow) /\ Len(bills') = Len(bills)
    BY <1>0, <2>2, <2>3, WriteRow
  <2>5. Kept
    BY <1>0, <2>3, <2>4, IdleTask, StepKeeps DEF notices
  <2>. QED
    BY <1>0, <2>2, <2>3, <2>4, <2>5 DEF IntakeOK
<1>6. CASE SaveMerged(r)
  <2>1. x \in [pc : {"saveMerged"}, bill : Row, into : Row, row : BillRow]
    BY <1>0, <1>6, IntakeTasks DEF SaveMerged, At
  <2>2. x.row \in BillRow /\ x.row.file \in {NoFile} \cup File /\ x.bill \in Row
    BY <2>1 DEF BillRow
  <2>3. /\ bills' = [bills EXCEPT ![x.into] = x.row] /\ kept' = kept \cup ({x.row.file} \ {NoFile})
        /\ UNCHANGED <<files, notices>> /\ Resume(r, [pc |-> "dropMerged", bill |-> x.bill])
    BY <1>6 DEF SaveMerged, Store
  <2>4. PICK t \in Task : t = [pc |-> "dropMerged", bill |-> x.bill]
    BY <2>2 DEF Task, IntakeTask
  <2>5. Resume(r, t) /\ t.pc = "dropMerged" /\ Truthful(t)'
    BY <2>3, <2>4 DEF Truthful
  <2>6. bills' \in Seq(BillRow) /\ Len(bills') = Len(bills)
    <3>1. \A i : \A row \in BillRow : /\ [bills EXCEPT ![i] = row] \in Seq(BillRow)
                                      /\ Len([bills EXCEPT ![i] = row]) = Len(bills)
      BY <1>0, WriteRow
    <3>. QED
      BY <2>2, <2>3, <3>1
  <2>7. Kept
    BY <1>0, <2>3, <2>5, <2>6, StepKeeps DEF notices
  <2>. QED
    BY <1>0, <2>2, <2>3, <2>6, <2>7 DEF IntakeOK
<1>7. CASE DropMerged(r)
  <2>. DEFINE gone == [bills[x.bill] EXCEPT !.live = FALSE]
  <2>1. bills' = [bills EXCEPT ![x.bill] = gone] \/ bills' = bills
    BY <1>7 DEF DropMerged
  <2>2. UNCHANGED <<files, kept, notices>> /\ Resume(r, Idle)
    BY <1>7 DEF DropMerged, Finish
  <2>3. ASSUME x.bill \in DOMAIN bills PROVE gone \in BillRow
    <3>1. bills[x.bill] \in BillRow
      BY <1>0, <2>3, ElementOfSeq, RowsOf
    <3>. QED
      BY <3>1 DEF BillRow
  <2>. HIDE DEF x, gone
  <2>4. bills' \in Seq(BillRow) /\ Len(bills') = Len(bills)
    BY <1>0, <2>1, <2>3, WriteRow
  <2>5. Kept
    BY <1>0, <2>2, <2>4, IdleTask, StepKeeps DEF notices
  <2>. QED
    BY <1>0, <2>2, <2>4, <2>5 DEF IntakeOK
<1>. QED
  BY <1>1, <1>2, <1>3, <1>4, <1>5, <1>6, <1>7 DEF IntakeStep

-----------------------------------------------------------------------------
(* The reading of a bill. *)

Sheet == [Field -> Int \cup {None}]

LEMMA FieldsOf ==
  /\ Field = {"totalAmount", "consumption", "costPerUnit", "fixedCharges", "taxes",
              "billingPeriodStart", "billingPeriodEnd"}
  /\ Figure \subseteq Field /\ Period \subseteq Field
BY DEF Field, Figure, Period

\* A figure that is there is a number.
LEMMA HasNumber ==
  ASSUME NEW s \in Sheet, NEW F \in SUBSET Field, Has(s, F), NEW f \in F
  PROVE  s[f] \in Int
BY DEF Sheet, Has

LEMMA RoundInt ==
  ASSUME NEW x \in Int, NEW y \in Int, y > 0
  PROVE  Round(x, y) \in Int
<1>1. 2 * y \in Int /\ 2 * y > 0 /\ 2 * x + y \in Int /\ y - 2 * x \in Int
  OBVIOUS
<1>2. \A a, b \in Int : b > 0 => a \div b \in Int
  OBVIOUS
<1>3. (2 * x + y) \div (2 * y) \in Int /\ (y - 2 * x) \div (2 * y) \in Int
  BY <1>1, <1>2
<1>. QED
  BY <1>3 DEF Round

\* What is derived is a number.
LEMMA WorthInt ==
  ASSUME NEW s \in Sheet, NEW f \in Derivable(s)
  PROVE  f \in Figure /\ Worth(s, f) \in Int
<1>1. /\ f \in {"costPerUnit", "taxes", "fixedCharges"}
      /\ Has(s, Figure \ {f})
      /\ f = "costPerUnit" => s.consumption > 0
  BY DEF Derivable
<1>2. \A g \in Figure \ {f} : s[g] \in Int
  BY <1>1, HasNumber, FieldsOf
<1>3. Unit \in Int /\ Unit > 0
  BY ReadingAssumption
<1>4. CASE f = "costPerUnit"
  <2>1. s.totalAmount \in Int /\ s.fixedCharges \in Int /\ s.taxes \in Int
        /\ s.consumption \in Int /\ s.consumption > 0
    BY <1>1, <1>2, <1>4 DEF Figure
  <2>2. (s.totalAmount - s.fixedCharges - s.taxes) * Unit \in Int
    BY <1>3, <2>1
  <2>3. Worth(s, f) = Round((s.totalAmount - s.fixedCharges - s.taxes) * Unit, s.consumption)
    BY <1>4 DEF Worth
  <2>. QED
    BY <1>4, <2>1, <2>2, <2>3, RoundInt DEF Figure
<1>5. CASE f = "taxes"
  <2>1. s.totalAmount \in Int /\ s.fixedCharges \in Int /\ s.costPerUnit \in Int
        /\ s.consumption \in Int
    BY <1>2, <1>5 DEF Figure
  <2>2. (s.totalAmount - s.fixedCharges) * Unit - s.consumption * s.costPerUnit \in Int
    BY <1>3, <2>1
  <2>3. Worth(s, f) = Round((s.totalAmount - s.fixedCharges) * Unit
                             - s.consumption * s.costPerUnit, Unit)
    BY <1>5 DEF Worth
  <2>. QED
    BY <1>3, <1>5, <2>2, <2>3, RoundInt DEF Figure
<1>6. CASE f = "fixedCharges"
  <2>1. s.totalAmount \in Int /\ s.taxes \in Int /\ s.costPerUnit \in Int
        /\ s.consumption \in Int
    BY <1>2, <1>6 DEF Figure
  <2>2. (s.totalAmount - s.taxes) * Unit - s.consumption * s.costPerUnit \in Int
    BY <1>3, <2>1
  <2>3. Worth(s, f) = Round((s.totalAmount - s.taxes) * Unit
                             - s.consumption * s.costPerUnit, Unit)
    BY <1>6 DEF Worth
  <2>. QED
    BY <1>3, <1>6, <2>2, <2>3, RoundInt DEF Figure
<1>. QED
  BY <1>1, <1>4, <1>5, <1>6

LEMMA DerivedType ==
  ASSUME NEW s \in Sheet
  PROVE  Derived(s) \in Sheet /\ Derivable(s) \in SUBSET Figure
<1>1. \A f \in Derivable(s) : f \in Figure /\ Worth(s, f) \in Int
  BY WorthInt
<1>2. \A f \in Field : (IF f \in Derivable(s) THEN Worth(s, f) ELSE s[f]) \in Int \cup {None}
  BY <1>1 DEF Sheet
<1>. QED
  BY <1>1, <1>2 DEF Derived, Sheet

LEMMA OrderedType ==
  ASSUME NEW s \in Sheet
  PROVE  Ordered(s) \in Sheet
BY FieldsOf DEF Ordered, Sheet

LEMMA AnswerType ==
  ASSUME NEW a \in Answer
  PROVE  a \in Sheet /\ Validated(a) \in Sheet
<1>. DEFINE Full == {b \in [Field -> UNION {Shown[f] : f \in Field} \cup {None}] :
                       \A f \in Field : b[f] \in Shown[f] \cup {None}}
<1>1. PICK F \in {Figure, Period}, b \in Full :
        a = [f \in Field |-> IF f \in F THEN b[f] ELSE None]
  <2>1. Answer = {[f \in Field |-> IF f \in F THEN b[f] ELSE None] :
                    F \in {Figure, Period}, b \in Full}
    BY DEF Answer
  <2>. HIDE DEF Full
  <2>. QED
    BY <2>1
<1>2. \A f \in Field : Shown[f] \subseteq Int
  BY ReadingAssumption
<1>3. a \in Sheet
  BY <1>1, <1>2 DEF Sheet
<1>. QED
  BY <1>3 DEF Validated, Sheet

LEMMA ReadingTypes ==
  ASSUME NEW a \in Answer
  PROVE  /\ Process(a) \in Reading
         /\ \A was \in Reading : FillIn(was, a) \in Reading
<1>1. Validated(a) \in Sheet
  BY AnswerType
<1>2. Process(a) \in Reading
  BY <1>1, OrderedType, DerivedType DEF Process, Reading, Sheet
<1>3. ASSUME NEW was \in Reading PROVE FillIn(was, a) \in Reading
  <2>. DEFINE v == Validated(a)
              s == [f \in Field |-> IF was.read[f] = None THEN v[f] ELSE was.read[f]]
  <2>1. was.read \in Sheet /\ was.derived \in SUBSET Figure
    BY DEF Reading, Sheet
  <2>2. s \in Sheet
    BY <1>1, <2>1 DEF Sheet
  <2>3. FillIn(was, a) = [read |-> Ordered(Derived(s)),
                              derived |-> was.derived \cup Derivable(s)]
    BY DEF FillIn
  <2>. HIDE DEF s
  <2>4. Ordered(Derived(s)) \in Sheet /\ Derivable(s) \in SUBSET Figure
    BY <2>2, DerivedType, OrderedType
  <2>. QED
    BY <2>1, <2>3, <2>4 DEF Reading, Sheet
<1>. QED
  BY <1>2, <1>3

LEMMA ReadKeeps ==
  ASSUME Inv, NEW r \in Req, UploadUnread(r) \/ ReadStep(r),
         UNCHANGED <<docs, support, intake, notices>>
  PROVE  ReadingOK' /\ CallsOK(Task)' /\ NoticesOK' /\ Counted' /\ AllTruthful' /\ OneVoice'
<1>. DEFINE Kept == CallsOK(Task)' /\ NoticesOK' /\ Counted' /\ AllTruthful' /\ OneVoice'
            x == task[r]
<1>0. /\ UNCHANGED <<docs, topics, tickets, messages, bills, happened, shown, heard>>
      /\ x \in Task \cup {Idle} /\ happened \subseteq Key
      /\ ReadingOK
  BY TaskAt DEF Inv, TypeOK, NoticesOK, support, intake, notices
<1>1. CASE UploadUnread(r)
  <2>. DEFINE t == [pc |-> "look", reading |-> Nothing, tries |-> 0]
  <2>1. uploaded' = TRUE /\ sheet' \in Typed /\ UNCHANGED guessed /\ Call(r, t)
    BY <1>1 DEF UploadUnread
  <2>2. Nothing \in Reading
    BY FieldsOf DEF Nothing, Blank, Reading
  <2>3. t \in Task /\ t.pc = "look"
    BY <2>2 DEF Task, ReadTask
  <2>. HIDE DEF t
  <2>4. Kept
    BY <1>0, <2>1, <2>3, CallKeeps, RowsOf
  <2>5. ReadingOK'
    BY <1>0, <2>1, ReadingAssumption DEF ReadingOK
  <2>. QED
    BY <2>4, <2>5
<1>2. CASE ReadStep(r)
  <2>. SUFFICES ReadingOK' /\ \E t \in Task \cup {Idle} :
                  Resume(r, t) /\ t.pc \in {"idle", "look", "lookAgain", "retry", "store"}
    <3>1. ASSUME NEW t \in Task \cup {Idle}, Resume(r, t),
                 t.pc \in {"idle", "look", "lookAgain", "retry", "store"}
          PROVE  Kept
      <4>1. Truthful(t)'
        BY <3>1 DEF Truthful
      <4>. QED
        BY <1>0, <3>1, <4>1, StepKeeps
    <3>. QED
      BY <3>1
  <2>0. x.pc \in {"look", "lookAgain", "retry", "store"} => x \in ReadTask
    BY <1>0, OtherTasks
  <2>1. CASE Look(r)
    <3>1. PICK a \in Answer : Resume(r, [x EXCEPT !.reading = Process(a),
              !.pc = IF Has(Process(a).read, Mandatory) THEN "store" ELSE "lookAgain"])
      BY <2>1 DEF Look
    <3>2. x \in ReadTask
      BY <2>0, <2>1 DEF Look, At
    <3>3. Process(a) \in Reading
      BY ReadingTypes
    <3>. DEFINE t == [x EXCEPT !.reading = Process(a),
              !.pc = IF Has(Process(a).read, Mandatory) THEN "store" ELSE "lookAgain"]
    <3>4. t \in ReadTask
      BY <3>2, <3>3 DEF ReadTask
    <3>5. Resume(r, t)
      BY <3>1
    <3>. HIDE DEF t
    <3>6. t \in Task /\ t.pc \in {"look", "lookAgain", "retry", "store"}
      BY <3>4 DEF Task, ReadTask
    <3>7. UNCHANGED <<uploaded, sheet, guessed>>
      BY <2>1 DEF Look
    <3>. QED
      BY <1>0, <3>5, <3>6, <3>7 DEF ReadingOK
  <2>2. CASE Refused(r)
    <3>. DEFINE t == [x EXCEPT !.pc = "retry", !.tries = @ + 1]
    <3>1. x \in ReadTask /\ x.tries < 2 /\ Resume(r, t) /\ UNCHANGED <<uploaded, sheet, guessed>>
      BY <2>0, <2>2 DEF Refused
    <3>2. x.tries + 1 \in 0 .. 2
      BY <3>1 DEF ReadTask
    <3>3. t \in ReadTask /\ t.pc = "retry"
      BY <3>1, <3>2 DEF ReadTask
    <3>4. t \in Task
      BY <3>3 DEF Task
    <3>. HIDE DEF t
    <3>. QED
      BY <1>0, <3>1, <3>3, <3>4 DEF ReadingOK
  <2>3. CASE Retry(r)
    <3>1. PICK a \in Answer : Resume(r, [x EXCEPT !.reading = Process(a), !.pc = "store"])
      BY <2>3 DEF Retry
    <3>2. x \in ReadTask /\ Process(a) \in Reading
      BY <2>0, <2>3, ReadingTypes DEF Retry, At
    <3>. DEFINE t == [x EXCEPT !.reading = Process(a), !.pc = "store"]
    <3>3. t \in Task /\ t.pc = "store" /\ Resume(r, t)
      BY <3>1, <3>2 DEF Task, ReadTask
    <3>4. UNCHANGED <<uploaded, sheet, guessed>>
      BY <2>3 DEF Retry
    <3>. HIDE DEF t
    <3>. QED
      BY <1>0, <3>3, <3>4 DEF ReadingOK
  <2>4. CASE GiveUp(r)
    BY <1>0, <2>4, IdleTask DEF GiveUp, Finish, ReadingOK
  <2>5. CASE LookAgain(r)
    <3>1. x \in ReadTask /\ UNCHANGED <<uploaded, sheet, guessed>>
      BY <2>0, <2>5 DEF LookAgain, At
    <3>2. PICK reread \in Reading : Resume(r, [x EXCEPT !.reading = reread, !.pc = "store"])
      <4>1. CASE \E a \in Answer :
                   Resume(r, [x EXCEPT !.reading = FillIn(x.reading, a), !.pc = "store"])
        BY <3>1, <4>1, ReadingTypes DEF ReadTask
      <4>2. CASE Goto(r, "store")
        <5>1. [x EXCEPT !.pc = "store"] = [x EXCEPT !.reading = x.reading, !.pc = "store"]
              /\ x.reading \in Reading
          BY <3>1 DEF ReadTask
        <5>. QED
          BY <4>2, <5>1 DEF Goto
      <4>. QED
        BY <2>5, <4>1, <4>2 DEF LookAgain
    <3>. DEFINE t == [x EXCEPT !.reading = reread, !.pc = "store"]
    <3>3. t \in Task /\ t.pc = "store"
      BY <3>1 DEF Task, ReadTask
    <3>4. Resume(r, t)
      BY <3>2
    <3>. HIDE DEF t
    <3>. QED
      BY <1>0, <3>1, <3>3, <3>4 DEF ReadingOK
  <2>6. CASE StoreReading(r)
    <3>. DEFINE read == {f \in Field : x.reading.read[f] # None}
    <3>1. /\ x \in ReadTask /\ Resume(r, Idle) /\ UNCHANGED uploaded
          /\ sheet' = [f \in Field |-> IF f \in read THEN x.reading.read[f] ELSE sheet[f]]
          /\ guessed' = (guessed \ read) \cup x.reading.derived
      BY <2>0, <2>6 DEF StoreReading, At, Finish
    <3>2. x.reading.read \in Sheet /\ x.reading.derived \in SUBSET Figure
      BY <3>1 DEF ReadTask, Reading, Sheet
    <3>. HIDE DEF x
    <3>3. sheet' \in [Field -> Int \cup {None}] /\ guessed' \subseteq Figure
      BY <1>0, <3>1, <3>2 DEF Sheet, ReadingOK
    <3>. QED
      BY <1>0, <3>1, <3>3, IdleTask DEF ReadingOK
  <2>. QED
    BY <1>2, <2>1, <2>2, <2>3, <2>4, <2>5, <2>6 DEF ReadStep
<1>. QED
  BY <1>1, <1>2

-----------------------------------------------------------------------------
(* The order of the offers sent. *)

\* A list of places that is not empty has a last one.
LEMMA LastPlace ==
  ASSUME NEW n \in Nat \ {0}, NEW p \in [1 .. n -> Nat]
  PROVE  \E i \in 1 .. n : \A j \in 1 .. n : p[j] <= p[i]
<1>. DEFINE Less == OpToRel(<, Nat)
            Bad == {k \in 1 .. n : ~\E i \in 1 .. k : \A j \in 1 .. k : p[j] <= p[i]}
<1>1. IsWellFoundedOn(Less, Nat)
  BY NatLessThanWellFounded
<1>2. \A l, m \in Nat : l < m => <<l, m>> \in Less
  BY DEF OpToRel
<1>3. Bad \subseteq Nat
  OBVIOUS
<1>. HIDE DEF Less
<1>4. ASSUME NEW k \in 1 .. n, k \in Bad PROVE k # 1 /\ k - 1 \in Bad
  <2>1. k # 1
    <3>1. 1 \in 1 .. 1 /\ \A j \in 1 .. 1 : p[j] <= p[1]
      OBVIOUS
    <3>. QED
      BY <1>4, <3>1
  <2>2. k - 1 \in 1 .. n /\ p[k] \in Nat
    BY <2>1
  <2>3. ASSUME NEW i \in 1 .. (k - 1), \A j \in 1 .. (k - 1) : p[j] <= p[i]
        PROVE  FALSE
    <3>1. i \in 1 .. k /\ p[i] \in Nat /\ k \in 1 .. k
      BY <2>2
    <3>2. \A j \in 1 .. k : (j \in 1 .. (k - 1) \/ j = k) /\ p[j] \in Nat
      BY <2>2
    <3>3. CASE p[k] <= p[i]
      BY <1>4, <2>3, <3>1, <3>2, <3>3
    <3>4. CASE p[i] < p[k]
      <4>1. \A j \in 1 .. k : p[j] <= p[k]
        BY <2>2, <2>3, <3>1, <3>2, <3>4
      <4>. QED
        BY <1>4, <3>1, <4>1
    <3>. QED
      BY <2>2, <3>1, <3>3, <3>4
  <2>. QED
    BY <2>1, <2>2, <2>3
<1>5. Bad = {}
  <2>. SUFFICES ASSUME Bad # {} PROVE FALSE
    OBVIOUS
  <2>1. Bad \subseteq 1 .. n
    OBVIOUS
  <2>. HIDE DEF Bad
  <2>2. PICK k \in Bad : \A m \in Bad : ~(<<m, k>> \in Less)
    BY <1>1, <1>3, WFMin
  <2>3. k \in 1 .. n /\ k - 1 \in Bad
    BY <1>4, <2>1, <2>2
  <2>4. k - 1 \in Nat /\ k \in Nat /\ k - 1 < k
    BY <1>3, <2>3
  <2>. QED
    BY <1>2, <2>2, <2>3, <2>4
<1>6. n \in 1 .. n
  OBVIOUS
<1>7. n \notin Bad
  <2>. HIDE DEF Bad
  <2>. QED
    BY <1>5
<1>. QED
  BY <1>6, <1>7

LEMMA NextPlaceNat ==
  ASSUME OrderOK
  PROVE  NextPlace \in Nat
<1>. DEFINE taken == {sent[i].place : i \in DOMAIN sent}
            n == Len(sent)
            p == [i \in 1 .. n |-> sent[i].place]
            last == CHOOSE m \in taken : \A l \in taken : l <= m
<1>1. n \in Nat /\ DOMAIN sent = 1 .. n /\ \A i \in 1 .. n : sent[i] \in SentRow
  BY ElementOfSeq, LenProperties DEF OrderOK
<1>2. p \in [1 .. n -> Nat] /\ taken = {p[i] : i \in 1 .. n}
  BY <1>1 DEF SentRow
<1>3. taken # {} => n \in Nat \ {0}
  BY <1>1
<1>4. NextPlace = IF taken = {} THEN 0 ELSE 1 + last
  BY DEF NextPlace
<1>. HIDE DEF p, n
<1>5. taken # {} => \E m \in taken : \A l \in taken : l <= m
  <2>. SUFFICES ASSUME taken # {} PROVE \E m \in taken : \A l \in taken : l <= m
    OBVIOUS
  <2>1. PICK i \in 1 .. n : \A j \in 1 .. n : p[j] <= p[i]
    BY <1>2, <1>3, LastPlace
  <2>2. p[i] \in taken /\ \A l \in taken : l <= p[i]
    BY <1>2, <2>1
  <2>. HIDE DEF taken
  <2>. QED
    BY <2>2
<1>6. taken \subseteq Nat
  BY <1>2
<1>. HIDE DEF taken
<1>7. taken # {} => last \in taken
  BY <1>5
<1>8. taken # {} => last \in Nat
  BY <1>6, <1>7
<1>. HIDE DEF last
<1>. QED
  BY <1>4, <1>8

LEMMA PlaceNat ==
  ASSUME OrderOK, NEW list \in Lists, NEW i \in DOMAIN sent
  PROVE  PlaceIn(list, i) \in Nat
<1>1. PICK n \in 1 .. Cardinality(Offer) : list \in [1 .. n -> Offer]
  BY DEF Lists
<1>2. Len(list) \in Nat /\ DOMAIN list = 1 .. n /\ n \in Nat
  <2>1. Cardinality(Offer) \in Nat
    BY OrderAssumption, FS_CardinalityType
  <2>2. n \in Nat
    BY <2>1
  <2>. QED
    BY <1>1, <2>2, IsASeq, LenProperties
<1>3. CASE Listed(list, i)
  <2>1. Rank(list, i) \in DOMAIN list
    BY <1>3 DEF Listed, Rank
  <2>. HIDE DEF Listed, Rank
  <2>2. Rank(list, i) - 1 \in Nat
    BY <1>2, <2>1
  <2>. QED
    BY <1>3, <2>2 DEF PlaceIn
<1>4. CASE ~Listed(list, i)
  <2>. DEFINE before == {j \in DOMAIN sent : ~Listed(list, j) /\ Earlier(j, i)}
  <2>1. DOMAIN sent = 1 .. Len(sent) /\ Len(sent) \in Nat
    BY LenProperties DEF OrderOK
  <2>2. IsFiniteSet(DOMAIN sent)
    BY <2>1, FS_Interval
  <2>3. before \subseteq DOMAIN sent
    OBVIOUS
  <2>4. Cardinality(before) \in Nat
    BY <2>2, <2>3, FS_Subset, FS_CardinalityType
  <2>5. PlaceIn(list, i) = Len(list) + Cardinality(before)
    BY <1>4 DEF PlaceIn
  <2>. HIDE DEF before
  <2>. QED
    BY <1>2, <2>4, <2>5
<1>. QED
  BY <1>3, <1>4

LEMMA OrderKeeps ==
  ASSUME Inv, NEW r \in Req, OrderRequest(r) \/ OrderStep(r),
         UNCHANGED <<docs, support, intake, notices>>
  PROVE  OrderOK' /\ CallsOK(Task)' /\ NoticesOK' /\ Counted' /\ AllTruthful' /\ OneVoice'
<1>. DEFINE Kept == CallsOK(Task)' /\ NoticesOK' /\ Counted' /\ AllTruthful' /\ OneVoice'
            x == task[r]
<1>0. /\ UNCHANGED <<docs, topics, tickets, messages, bills, happened, shown, heard>>
      /\ x \in Task \cup {Idle} /\ happened \subseteq Key
      /\ OrderOK /\ sent \in Seq(SentRow)
  BY TaskAt DEF Inv, TypeOK, NoticesOK, support, intake, notices, OrderOK
<1>00. DOMAIN sent = 1 .. Len(sent) /\ Len(sent) \in Nat /\ \A i \in DOMAIN sent : sent[i] \in SentRow
  BY <1>0, LenProperties, ElementOfSeq
<1>1. CASE SendOffers(r)
  <2>1. PICK new \in Lists :
          Call(r, [pc |-> "insertSent",
                   rows |-> [k \in DOMAIN new |->
                               [offer |-> new[k], place |-> NextPlace + k - 1]]])
    BY <1>1 DEF SendOffers
  <2>. DEFINE rows == [k \in DOMAIN new |-> [offer |-> new[k], place |-> NextPlace + k - 1]]
              t == [pc |-> "insertSent", rows |-> rows]
  <2>2. PICK n \in 1 .. Cardinality(Offer) : new \in [1 .. n -> Offer]
    BY DEF Lists
  <2>3. n \in Nat
    <3>1. Cardinality(Offer) \in Nat
      BY OrderAssumption, FS_CardinalityType
    <3>. QED
      BY <3>1
  <2>4. NextPlace \in Nat
    BY <1>0, NextPlaceNat
  <2>5. \A k \in 1 .. n : [offer |-> new[k], place |-> NextPlace + k - 1] \in SentRow
    BY <2>2, <2>3, <2>4 DEF SentRow
  <2>6. rows \in [1 .. n -> SentRow]
    BY <2>2, <2>5
  <2>. HIDE DEF rows
  <2>7. rows \in Seq(SentRow)
    BY <2>3, <2>6, IsASeq
  <2>8. t \in Task /\ t.pc = "insertSent"
    BY <2>7 DEF Task, OrderTask
  <2>9. Call(r, t)
    BY <2>1 DEF rows
  <2>. HIDE DEF t
  <2>10. Kept
    BY <1>0, <2>8, <2>9, CallKeeps, RowsOf DEF notices
  <2>. QED
    BY <1>0, <1>1, <2>10 DEF SendOffers, OrderOK
<1>2. CASE InsertSent(r)
  <2>1. x \in [pc : {"insertSent"}, rows : Seq(SentRow)]
    BY <1>0, <1>2, OtherTasks DEF InsertSent, At
  <2>2. Resume(r, Idle) /\ (sent' = sent \/ sent' = sent \o x.rows)
    BY <1>2 DEF InsertSent, Finish
  <2>3. sent \o x.rows \in Seq(SentRow)
    BY <1>0, <2>1, ConcatProperties
  <2>. QED
    BY <1>0, <2>2, <2>3, IdleTask, StepKeeps DEF OrderOK
<1>3. CASE Reorder(r)
  <2>1. PICK list \in Lists :
          Call(r, [pc |-> "saveOrder", listed |-> list,
                   order |-> [i \in DOMAIN sent |-> PlaceIn(list, i)]])
    BY <1>3 DEF Reorder
  <2>. DEFINE order == [i \in DOMAIN sent |-> PlaceIn(list, i)]
              t == [pc |-> "saveOrder", listed |-> list, order |-> order]
  <2>2. order \in [1 .. Len(sent) -> Nat]
    BY <1>0, <1>00, PlaceNat
  <2>3. Call(r, t)
    BY <2>1
  <2>. HIDE DEF order
  <2>4. order \in Seq(Nat)
    BY <1>00, <2>2, IsASeq
  <2>5. t \in Task /\ t.pc = "saveOrder"
    BY <2>4 DEF Task, OrderTask
  <2>. HIDE DEF t
  <2>6. Kept
    BY <1>0, <2>3, <2>5, CallKeeps, RowsOf DEF notices
  <2>. QED
    BY <1>0, <1>3, <2>6 DEF Reorder, OrderOK
<1>4. CASE SaveOrder(r)
  <2>1. x \in [pc : {"saveOrder"}, listed : Lists, order : Seq(Nat)]
    BY <1>0, <1>4, OtherTasks DEF SaveOrder, At
  <2>2. /\ Resume(r, Idle)
        /\ sent' = [i \in DOMAIN sent |-> IF i \in DOMAIN x.order
                                          THEN [sent[i] EXCEPT !.place = x.order[i]] ELSE sent[i]]
    BY <1>4 DEF SaveOrder, Finish
  <2>3. \A i \in DOMAIN x.order : x.order[i] \in Nat
    BY <2>1, ElementOfSeq, LenProperties
  <2>4. \A i \in 1 .. Len(sent) : i \in DOMAIN x.order =>
          [sent[i] EXCEPT !.place = x.order[i]] \in SentRow
    BY <1>00, <2>3 DEF SentRow
  <2>5. sent' \in [1 .. Len(sent) -> SentRow]
    BY <1>00, <2>2, <2>4
  <2>6. sent' \in Seq(SentRow)
    BY <1>00, <2>5, IsASeq
  <2>. QED
    BY <1>0, <2>2, <2>6, IdleTask, StepKeeps DEF OrderOK
<1>. QED
  BY <1>1, <1>2, <1>3, <1>4 DEF OrderRequest, OrderStep

-----------------------------------------------------------------------------
(* Notices and failures. *)

\* What a task has to tell of is a list of keys that did happen.
LEMMA NewsOf ==
  ASSUME Inv, NEW r \in Req, task[r].pc \in {"announce", "push"}
  PROVE  /\ task[r] \in NewsTask /\ task[r].news \in Seq(Key) /\ task[r].news # <<>>
         /\ Head(task[r].news) \in Key /\ Head(task[r].news) \in happened
         /\ Tail(task[r].news) \in Seq(Key) /\ Len(Tail(task[r].news)) = Len(task[r].news) - 1
         /\ Len(task[r].news) \in Nat
         /\ \A i \in DOMAIN Tail(task[r].news) : Tail(task[r].news)[i] \in happened
<1>. DEFINE news == task[r].news
<1>1. task[r] \in NewsTask /\ news # <<>> /\ \A i \in DOMAIN news : news[i] \in happened
  BY TaskAt, OtherTasks DEF Inv, AllTruthful, Truthful
<1>2. news \in Seq(Key)
  BY <1>1 DEF NewsTask
<1>. HIDE DEF news
<1>3. Head(news) = news[1] /\ Head(news) \in Key /\ Tail(news) \in Seq(Key)
      /\ Len(Tail(news)) = Len(news) - 1 /\ \A i \in 1 .. Len(Tail(news)) : Tail(news)[i] = news[i + 1]
  BY <1>1, <1>2, HeadTailProperties
<1>4. DOMAIN news = 1 .. Len(news) /\ Len(news) \in Nat /\ Len(news) > 0
      /\ DOMAIN Tail(news) = 1 .. Len(Tail(news))
  BY <1>1, <1>2, <1>3, LenProperties, EmptySeq
<1>5. \A i \in DOMAIN Tail(news) : i + 1 \in DOMAIN news
  BY <1>3, <1>4
<1>6. Head(news) \in happened /\ \A i \in DOMAIN Tail(news) : Tail(news)[i] \in happened
  BY <1>1, <1>3, <1>4, <1>5
<1>. QED
  BY <1>1, <1>2, <1>3, <1>4, <1>6 DEF news

LEMMA AnnounceKeeps ==
  ASSUME Inv, NEW r \in Req, Announce(r), UNCHANGED <<docs, support, intake>>
  PROVE  CallsOK(Task)' /\ NoticesOK' /\ Counted' /\ AllTruthful' /\ OneVoice'
<1>. DEFINE x == task[r]
            k == Head(x.news)
<1>0. /\ UNCHANGED <<docs, topics, tickets, messages, bills, happened, heard>>
      /\ At(r, "announce") /\ shown' = shown \cup {k}
      /\ TypeOK /\ NoticesOK /\ Counted /\ AllTruthful /\ OneVoice
      /\ IF k \in shown THEN Tell(r, Tail(x.news)) ELSE Goto(r, "push")
  BY DEF Inv, TypeOK, support, intake, Announce
<1>1. /\ x \in NewsTask /\ k \in Key /\ k \in happened /\ x.news # <<>>
      /\ Tail(x.news) \in Seq(Key) /\ \A i \in DOMAIN Tail(x.news) : Tail(x.news)[i] \in happened
      /\ \A i \in DOMAIN x.news : x.news[i] \in happened
  BY <1>0, NewsOf DEF At, AllTruthful, Truthful
<1>2. CASE k \in shown
  <2>1. UNCHANGED shown
    BY <1>0, <1>2
  <2>2. PICK t \in Task \cup {Idle} :
          Resume(r, t) /\ t.pc \in {"idle", "announce"} /\ Truthful(t)'
    <3>1. \A i \in DOMAIN Tail(x.news) : Tail(x.news)[i] \in happened'
      BY <1>0, <1>1
    <3>2. Tell(r, Tail(x.news))
      BY <1>0, <1>2
    <3>. QED
      BY <1>1, <3>1, <3>2, TellMoves
  <2>. QED
    BY <1>0, <2>1, <2>2, StepKeeps DEF NoticesOK
<1>3. CASE k \notin shown
  <2>1. PICK t \in Task : /\ Resume(r, t) /\ t.pc = "push" /\ t.news = x.news
    <3>1. [x EXCEPT !.pc = "push"] \in Task /\ [x EXCEPT !.pc = "push"].pc = "push"
          /\ [x EXCEPT !.pc = "push"].news = x.news
      BY <1>1 DEF Task, NewsTask
    <3>2. Resume(r, [x EXCEPT !.pc = "push"])
      BY <1>0, <1>3 DEF Goto
    <3>. QED
      BY <3>1, <3>2
  <2>2. task' = [task EXCEPT ![r] = t] /\ task'[r] = t
        /\ \A s \in Req \ {r} : task'[s] = task[s]
    BY <1>0, <2>1, TaskAt DEF Resume
  <2>3. CallsOK(Task)'
    BY <1>0, <2>1, <2>2, TaskAt DEF TypeOK, CallsOK, Resume
  <2>4. NoticesOK'
    BY <1>0, <1>1 DEF NoticesOK
  <2>5. Truthful(t)'
    BY <1>0, <1>1, <2>1 DEF Truthful
  <2>6. AllTruthful'
    BY <1>0, <2>2, <2>5, MoveTruthful
  <2>7. Counted'
    BY <1>0, <2>1, <2>2, MoveCounted DEF Resume
  <2>8. heard[k] = 0
    BY <1>0, <1>1, <1>3 DEF OneVoice
  <2>9. \A s \in Req \ {r} : At(s, "push")' => At(s, "push") /\ task'[s] = task[s]
                                               /\ Head(task[s].news) # k
    BY <1>0, <1>3, <2>2 DEF OneVoice, At
  <2>10. OneVoice'
    <3>1. \A l \in Key : l \notin shown' => heard'[l] = 0
      BY <1>0 DEF OneVoice
    <3>2. ASSUME NEW s \in Req, At(s, "push")'
          PROVE  Head(task'[s].news) \in shown' /\ heard'[Head(task'[s].news)] = 0
      BY <1>0, <2>1, <2>2, <2>8, <2>9, <3>2 DEF OneVoice
    <3>3. ASSUME NEW s \in Req, NEW u \in Req, At(s, "push")', At(u, "push")',
                 Head(task'[s].news) = Head(task'[u].news)
          PROVE  s = u
      BY <1>0, <2>1, <2>2, <2>9, <3>3 DEF OneVoice
    <3>. QED
      BY <3>1, <3>2, <3>3 DEF OneVoice
  <2>. QED
    BY <2>3, <2>4, <2>6, <2>7, <2>10
<1>. QED
  BY <1>2, <1>3

LEMMA PushKeeps ==
  ASSUME Inv, NEW r \in Req, Push(r), UNCHANGED <<docs, support, intake>>
  PROVE  CallsOK(Task)' /\ NoticesOK' /\ Counted' /\ AllTruthful' /\ OneVoice'
<1>. DEFINE x == task[r]
            k == Head(x.news)
<1>0. /\ UNCHANGED <<docs, topics, tickets, messages, bills, happened, shown>>
      /\ At(r, "push") /\ heard' = [heard EXCEPT ![k] = @ + 1]
      /\ TypeOK /\ NoticesOK /\ Counted /\ AllTruthful /\ OneVoice
      /\ Tell(r, Tail(x.news))
  BY DEF Inv, TypeOK, support, intake, Push
<1>1. /\ k \in Key /\ Tail(x.news) \in Seq(Key)
      /\ \A i \in DOMAIN Tail(x.news) : Tail(x.news)[i] \in happened'
  BY <1>0, NewsOf DEF At
<1>2. heard[k] = 0 /\ k \in shown /\ heard \in [Key -> 0 .. 1]
  BY <1>0 DEF OneVoice, NoticesOK
<1>3. heard' \in [Key -> 0 .. 1] /\ heard'[k] = 1 /\ \A l \in Key \ {k} : heard'[l] = heard[l]
  BY <1>0, <1>1, <1>2
<1>4. PICK t \in Task \cup {Idle} :
        Resume(r, t) /\ t.pc \in {"idle", "announce"} /\ Truthful(t)'
  BY <1>0, <1>1, TellMoves
<1>5. task' = [task EXCEPT ![r] = t] /\ task'[r] = t /\ \A s \in Req \ {r} : task'[s] = task[s]
  BY <1>0, <1>4, TaskAt DEF Resume
<1>6. CallsOK(Task)'
  BY <1>0, <1>4, <1>5, TaskAt DEF TypeOK, CallsOK, Resume
<1>7. NoticesOK'
  BY <1>0, <1>3 DEF NoticesOK
<1>8. AllTruthful'
  BY <1>0, <1>4, <1>5, MoveTruthful
<1>9. Counted'
  BY <1>0, <1>4, <1>5, MoveCounted DEF Resume
<1>10. \A s \in Req : At(s, "push")' => /\ s # r /\ At(s, "push") /\ task'[s] = task[s]
                                        /\ Head(task[s].news) # k
  BY <1>0, <1>4, <1>5 DEF OneVoice, At
<1>11. \A s \in Req : At(s, "push") => Head(task[s].news) \in Key
  BY NewsOf DEF At
<1>12. OneVoice'
  <2>1. \A l \in Key : l \notin shown' => heard'[l] = 0
    BY <1>0, <1>2, <1>3 DEF OneVoice
  <2>2. ASSUME NEW s \in Req, At(s, "push")'
        PROVE  Head(task'[s].news) \in shown' /\ heard'[Head(task'[s].news)] = 0
    BY <1>0, <1>3, <1>10, <1>11, <2>2 DEF OneVoice
  <2>3. ASSUME NEW s \in Req, NEW u \in Req, At(s, "push")', At(u, "push")',
               Head(task'[s].news) = Head(task'[u].news)
        PROVE  s = u
    BY <1>0, <1>10, <2>3 DEF OneVoice
  <2>. QED
    BY <2>1, <2>2, <2>3 DEF OneVoice
<1>. QED
  BY <1>6, <1>7, <1>8, <1>9, <1>12

\* A failure: the task is over, or goes on to the next thing it has to tell of.
LEMMA FailKeeps ==
  ASSUME Inv, NEW r \in Req, Swallow(r) \/ Fail(r), UNCHANGED <<docs, support, intake, notices>>
  PROVE  CallsOK(Task)' /\ NoticesOK' /\ Counted' /\ AllTruthful' /\ OneVoice'
<1>. DEFINE x == task[r]
<1>0. /\ UNCHANGED <<docs, topics, tickets, messages, bills, happened, shown, heard>>
      /\ fails' = fails + 1 /\ fails < MaxFails /\ UNCHANGED <<started, alone>>
      /\ TypeOK /\ NoticesOK /\ Counted /\ AllTruthful /\ OneVoice
  BY DEF Inv, TypeOK, support, intake, notices, Swallow, Fail
<1>1. PICK t \in Task \cup {Idle} : /\ task' = [task EXCEPT ![r] = t]
                                    /\ t.pc \in {"idle", "announce"} /\ Truthful(t)'
  <2>1. CASE Fail(r) \/ (Swallow(r) /\ Len(x.news) = 1)
    BY <2>1, IdleTask DEF Fail, Swallow
  <2>2. CASE Swallow(r) /\ Len(x.news) # 1
    <3>1. x.pc \in {"announce", "push"}
      BY <2>2 DEF Swallow
    <3>. DEFINE rest == Tail(x.news)
    <3>2. rest \in Seq(Key) /\ rest # <<>> /\ \A i \in DOMAIN rest : rest[i] \in happened
      <4>1. /\ rest \in Seq(Key) /\ Len(rest) = Len(x.news) - 1 /\ Len(x.news) \in Nat
            /\ \A i \in DOMAIN rest : rest[i] \in happened
        BY <3>1, NewsOf
      <4>2. Len(rest) # 0
        BY <2>2, <4>1
      <4>. HIDE DEF rest
      <4>. QED
        BY <4>1, <4>2, EmptySeq
    <3>3. task' = [task EXCEPT ![r] = [pc |-> "announce", news |-> rest]]
      BY <2>2 DEF Swallow
    <3>. HIDE DEF rest
    <3>4. PICK t \in Task : t = [pc |-> "announce", news |-> rest]
      BY <3>2 DEF Task, NewsTask
    <3>5. Truthful(t)'
      BY <1>0, <3>2, <3>4 DEF Truthful
    <3>. QED
      BY <3>3, <3>4, <3>5
  <2>. QED
    BY <2>1, <2>2
<1>2. CallsOK(Task)'
  <2>1. fails' \in 0 .. MaxFails
    BY <1>0, CallsAssumption DEF TypeOK, CallsOK
  <2>2. task' \in [Req -> Task \cup {Idle}]
    BY <1>0, <1>1, TaskAt
  <2>. QED
    BY <1>0, <2>1, <2>2 DEF TypeOK, CallsOK
<1>3. NoticesOK'
  BY <1>0 DEF NoticesOK
<1>4. OneVoice'
  BY <1>0, <1>1, MoveVoice
<1>5. AllTruthful'
  BY <1>0, <1>1, MoveTruthful
<1>6. Counted'
  BY <1>0, <1>1, MoveCounted
<1>. QED
  BY <1>2, <1>3, <1>4, <1>5, <1>6

-----------------------------------------------------------------------------
(* The invariant holds. *)

LEMMA InitInv == Init => Inv
<1>. SUFFICES ASSUME Init PROVE Inv
  OBVIOUS
<1>. USE DEF Init, CallsInit, NoticesInit
<1>1. part \in PartName
  OBVIOUS
<1>2. DocOK /\ SupportOK /\ IntakeOK /\ OrderOK
  BY CallsAssumption
     DEF DocInit, SupportInit, IntakeInit, OrderInit, DocOK, SupportOK, IntakeOK, OrderOK
<1>3. ReadingOK
  BY DEF ReadingInit, ReadingOK, Blank
<1>4. NoticesOK /\ CallsOK(Task)
  BY CallsAssumption DEF NoticesOK, CallsOK
<1>5. \A r \in Req : task[r].pc = "idle"
  BY DEF Idle
<1>6. AllTruthful /\ OneVoice
  BY <1>5 DEF AllTruthful, Truthful, OneVoice, At
<1>7. Counted
  <2>1. \A P : "idle" \notin P => Standing(P) = {}
    BY <1>5 DEF Standing
  <2>2. \A P : "idle" \notin P => Cardinality(Standing(P)) = 0
    BY <2>1, FS_EmptySet
  <2>. QED
    BY <2>2 DEF Counted, DocInit, SupportInit, IntakeInit
<1>. QED
  BY <1>1, <1>2, <1>3, <1>4, <1>6, <1>7 DEF Inv, TypeOK

LEMMA StepInv ==
  ASSUME Inv, [Next]_vars
  PROVE  Inv'
<1>. DEFINE Kept == CallsOK(Task)' /\ NoticesOK' /\ Counted' /\ AllTruthful' /\ OneVoice'
<1>0. TypeOK
  BY DEF Inv
<1>1. CASE UNCHANGED vars
  BY <1>1 DEF vars, support, intake, reading, notices, calls, Inv, TypeOK, DocOK, SupportOK,
              IntakeOK, ReadingOK, OrderOK, NoticesOK, CallsOK, Counted, Standing, AllTruthful,
              Truthful, OneVoice, At
<1>2. ASSUME NEW r \in Req, Documents(r) PROVE Inv'
  <2>1. DocOK' /\ Kept
    BY <1>2, DocumentsKeep DEF Documents
  <2>2. UNCHANGED <<part, support, intake, reading, sent>>
    BY <1>2 DEF Documents
  <2>. QED
    BY <1>0, <2>1, <2>2
       DEF Inv, TypeOK, SupportOK, IntakeOK, ReadingOK, OrderOK, support, intake, reading
<1>3. ASSUME NEW r \in Req, Support(r) PROVE Inv'
  <2>1. SupportOK' /\ Kept
    BY <1>3, TicketRequestKeeps, TicketStepKeeps DEF Support
  <2>2. UNCHANGED <<part, docs, intake, reading, sent>>
    BY <1>3 DEF Support
  <2>. QED
    BY <1>0, <2>1, <2>2 DEF Inv, TypeOK, DocOK, IntakeOK, ReadingOK, OrderOK, intake, reading
<1>4. ASSUME NEW r \in Req, Intake(r) PROVE Inv'
  <2>1. IntakeOK' /\ Kept
    BY <1>4, IntakeRequestKeeps, IntakeStepKeeps DEF Intake
  <2>2. UNCHANGED <<part, docs, support, reading, sent>>
    BY <1>4 DEF Intake
  <2>. QED
    BY <1>0, <2>1, <2>2 DEF Inv, TypeOK, DocOK, SupportOK, ReadingOK, OrderOK, support, reading
<1>5. ASSUME NEW r \in Req, Read(r) PROVE Inv'
  <2>1. ReadingOK' /\ Kept
    BY <1>5, ReadKeeps DEF Read
  <2>2. UNCHANGED <<part, docs, support, intake, sent>>
    BY <1>5 DEF Read
  <2>. QED
    BY <1>0, <2>1, <2>2 DEF Inv, TypeOK, DocOK, SupportOK, IntakeOK, OrderOK, support, intake
<1>6. ASSUME NEW r \in Req, Order(r) PROVE Inv'
  <2>1. OrderOK' /\ Kept
    BY <1>6, OrderKeeps DEF Order
  <2>2. UNCHANGED <<part, docs, support, intake, reading>>
    BY <1>6 DEF Order
  <2>. QED
    BY <1>0, <2>1, <2>2
       DEF Inv, TypeOK, DocOK, SupportOK, IntakeOK, ReadingOK, support, intake, reading
<1>7. ASSUME NEW r \in Req, Notice(r) \/ Die(r) PROVE Inv'
  <2>1. Kept
    <3>1. CASE Announce(r) \/ Push(r)
      BY <1>7, <3>1, AnnounceKeeps, PushKeeps DEF Notice, Die
    <3>2. CASE Swallow(r)
      BY <1>7, <3>2, FailKeeps DEF Notice, Die, Swallow
    <3>3. CASE Die(r)
      BY <3>3, FailKeeps DEF Die
    <3>. QED
      BY <1>7, <3>1, <3>2, <3>3 DEF Notice, NoticeStep
  <2>2. UNCHANGED <<part, docs, support, intake, reading, sent>>
    BY <1>7 DEF Notice, Die
  <2>. QED
    BY <1>0, <2>1, <2>2
       DEF Inv, TypeOK, DocOK, SupportOK, IntakeOK, ReadingOK, OrderOK, support, intake, reading
<1>. QED
  BY <1>1, <1>2, <1>3, <1>4, <1>5, <1>6, <1>7 DEF Next

LEMMA Invariance == Spec => []Inv
<1>1. Inv /\ [Next]_vars => Inv'
  BY StepInv
<1>. QED
  BY <1>1, InitInv, PTL DEF Spec

(***************************************************************************)
(* The tables and the tasks keep their shape: no table grows past the      *)
(* requests made, which only holds because each request adds at most one   *)
(* row of a kind (the handlers of cases, support, bills and sent offers).  *)
(***************************************************************************)
THEOREM TypeCorrectness == Spec => []TypeOK
<1>1. Inv => TypeOK
  BY DEF Inv
<1>. QED
  BY <1>1, Invariance, PTL

-----------------------------------------------------------------------------
(* The refinement. *)

LEMMA InitNews == Init => News!Init
BY DEF Init, NoticesInit, News!Init

LEMMA StepNews ==
  ASSUME Inv, Inv', [Next]_vars
  PROVE  [News!Next]_News!vars
<1>1. CASE UNCHANGED vars
  BY <1>1 DEF vars, notices, News!vars
<1>2. ASSUME NEW r \in Req, Push(r) PROVE News!Next
  <2>. DEFINE k == Head(task[r].news)
  <2>1. At(r, "push") /\ heard' = [heard EXCEPT ![k] = @ + 1] /\ UNCHANGED happened
    BY <1>2 DEF Push
  <2>2. k \in Key /\ k \in happened
    BY <2>1, NewsOf DEF At
  <2>3. heard[k] = 0
    BY <2>1 DEF Inv, OneVoice
  <2>4. heard' = [heard EXCEPT ![k] = 1]
    BY <2>1, <2>3
  <2>5. News!Hear(k)
    BY <2>1, <2>2, <2>3, <2>4 DEF News!Hear
  <2>. QED
    BY <2>2, <2>5 DEF News!Next
<1>3. ASSUME happened \subseteq happened', UNCHANGED heard PROVE News!Next
  <2>1. happened' \subseteq Key
    BY DEF Inv, TypeOK, NoticesOK
  <2>. QED
    BY <1>3, <2>1 DEF News!Next, News!Happen
<1>4. ASSUME NEW r \in Req, Documents(r) \/ Support(r) \/ Intake(r) \/ Read(r) \/ Order(r)
      PROVE  happened \subseteq happened' /\ UNCHANGED heard
  <2>1. CASE Documents(r)
    BY <2>1 DEF Documents, DocRequest, DocStep, UploadDoc, ReplaceDoc, InsertDoc, JudgeDoc,
                CheckReplaced, SaveVerdict, Happens, notices
  <2>2. CASE Support(r)
    BY <2>2 DEF Support, TicketRequest, TicketStep, CreateTopic, UpdateTopic, DeleteTopic,
                OpenTicket, AddMessage, UpdateTicket, SaveTopic, CountTickets, RemoveTopic,
                InsertTicket, InsertMessage, SaveTicket, Happens, notices
  <2>3. CASE Intake(r)
    BY <2>3 DEF Intake, IntakeRequest, IntakeStep, Upload, Promise, UploadEmail, AddFile, Merge,
                InsertBill, SaveUpload, InsertFile, InsertAdded, SaveRead, SaveMerged,
                DropMerged, Happens, notices
  <2>4. CASE Read(r) \/ Order(r)
    BY <2>4 DEF Read, Order, notices
  <2>. QED
    BY <1>4, <2>1, <2>2, <2>3, <2>4
<1>5. ASSUME NEW r \in Req, Announce(r) \/ Swallow(r) \/ Die(r)
      PROVE  happened \subseteq happened' /\ UNCHANGED heard
  BY <1>5 DEF Announce, Swallow, Die, notices
<1>. QED
  BY <1>1, <1>2, <1>3, <1>4, <1>5 DEF Next, Notice, NoticeStep

(***************************************************************************)
(* Customer and operators hear at most once, and only of what happened to  *)
(* a document, a ticket or a bill, whatever overlaps or dies: every step   *)
(* is one of CustomerNews (sendNotification and the handlers it serves).   *)
(***************************************************************************)
THEOREM PromiseKept == Spec => KeepsThePromise
<1>1. Inv /\ Inv' /\ [Next]_vars => [News!Next]_News!vars
  BY StepNews
<1>. QED
  BY <1>1, InitNews, Invariance, PTL DEF Spec, KeepsThePromise, News!Spec

=============================================================================
