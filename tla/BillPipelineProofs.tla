------------------------- MODULE BillPipelineProofs -------------------------
(***************************************************************************)
(* What BillPipeline guarantees for every number of concurrent tasks,      *)
(* every catalogue, and every bound: type correctness, that nothing is     *)
(* announced that did not happen, that no push is repeated, and that no    *)
(* switch is opened on an unreviewed bill or on an offer never proposed.   *)
(* And what it guarantees but for certain windows, in which another task   *)
(* comes between or a task dies: that a request for documents waits when   *)
(* the bill says so, and only one, that the case follows the bill and has  *)
(* its dates, that a bill has one switch and an answer overwrites nothing. *)
(***************************************************************************)
EXTENDS BillPipeline, SequenceTheorems, TLAPS

-----------------------------------------------------------------------------
(* Types. *)

\* Where a task's case and milestone are used, it has one.
Placed ==
  \A r \in Req :
    /\ req[r].case <= Len(cases)
    /\ req[r].pc \in {"readCase", "saveCase", "mirror"} => req[r].case # 0
    /\ req[r].pc \in {"announce", "push"} => req[r].say # None

Typed == TypeOK /\ Placed

\* Overwriting an element keeps a sequence a sequence, of the same length.
LEMMA Overwrite ==
  ASSUME NEW S, NEW s \in Seq(S), NEW i, NEW e \in S
  PROVE  /\ [s EXCEPT ![i] = e] \in Seq(S)
         /\ Len([s EXCEPT ![i] = e]) = Len(s)
<1>1. CASE i \in 1..Len(s)
  BY <1>1, ExceptSeq
<1>2. CASE i \notin 1..Len(s)
  <2>1. DOMAIN s = 1..Len(s)
    OBVIOUS
  <2>2. [s EXCEPT ![i] = e] = s
    BY <1>2, <2>1
  <2>. QED
    BY <2>2
<1>. QED
  BY <1>1, <1>2

LEMMA BillMilestoneType ==
  ASSUME NEW s PROVE BillMilestone(s) \in Milestone \cup {None}
BY DEF BillMilestone, Milestone, None

LEMMA CaseMilestoneType ==
  ASSUME NEW s PROVE CaseMilestone(s) \in Milestone \cup {None}
BY DEF CaseMilestone, Milestone, None, ClosedCase

LEMMA MirrorType ==
  ASSUME NEW t \in BillStatus, NEW s
  PROVE  MirrorOf(t, s) \in CaseStatus \cup {None}
BY DEF MirrorOf, CaseStatusOf, CaseStatus, BillStatus, None

LEMMA IdleType == Idle \in Task /\ NoCase \in CaseRow /\ Uploaded \in BillRow
BY DEF Idle, Task, NoCase, Uploaded, BillRow, CaseRow, Date, NoDate, Pc, None,
       BillStatus, CaseStatus, DataVersion

\* What a task must satisfy to be stored: the obligation each step discharges.
WellPlaced(t, len) ==
  /\ t.case <= len
  /\ t.pc \in {"readCase", "saveCase", "mirror"} => t.case # 0
  /\ t.pc \in {"announce", "push"} => t.say # None

LEMMA TaskKeeps ==
  ASSUME Typed, NEW r \in Req, NEW t \in Task, req' = [req EXCEPT ![r] = t],
         cases' \in Seq(CaseRow), Len(cases) <= Len(cases'),
         WellPlaced(t, Len(cases'))
  PROVE  req' \in [Req -> Task] /\ Placed'
<1>. DEFINE L == Len(cases)  M == Len(cases')
<1>1. L \in Nat /\ M \in Nat /\ L <= M
  BY LenProperties DEF Typed, TypeOK
<1>2. req \in [Req -> Task]
  BY DEF Typed, TypeOK
<1>3. req' \in [Req -> Task]
  BY <1>2
<1>4. ASSUME NEW q \in Req
      PROVE  WellPlaced(req'[q], M)
  <2>1. CASE q = r
    BY <2>1, <1>2 DEF WellPlaced
  <2>2. CASE q # r
    <3>1. req'[q] = req[q] /\ req[q].case \in Nat
      BY <2>2, <1>2 DEF Task
    <3>2. WellPlaced(req[q], L)
      BY DEF Typed, Placed, WellPlaced
    <3>. HIDE DEF L, M
    <3>. QED
      BY <3>1, <3>2, <1>1 DEF WellPlaced
  <2>. QED
    BY <2>1, <2>2
<1>. QED
  BY <1>3, <1>4 DEF Placed, WellPlaced

\* A task that ends.
LEMMA FinishKeeps ==
  ASSUME Typed, NEW r \in Req, Finish(r), cases' \in Seq(CaseRow),
         Len(cases) <= Len(cases')
  PROVE  req' \in [Req -> Task] /\ Placed'
<1>1. WellPlaced(Idle, Len(cases'))
  BY LenProperties DEF WellPlaced, Idle
<1>. QED
  BY <1>1, TaskKeeps, IdleType DEF Finish

\* A task that moves on without anything else about it changing.
LEMMA GotoKeeps ==
  ASSUME Typed, NEW r \in Req, NEW p \in Pc, Goto(r, p),
         cases' \in Seq(CaseRow), Len(cases) <= Len(cases'),
         p \in {"readCase", "saveCase", "mirror"} => req[r].case # 0,
         p \in {"announce", "push"} => req[r].say # None
  PROVE  req' \in [Req -> Task] /\ Placed'
<1>. DEFINE t == [req[r] EXCEPT !.pc = p]
<1>1. req[r] \in Task /\ req \in [Req -> Task]
  BY DEF Typed, TypeOK
<1>2. t \in Task /\ t.pc = p /\ t.case = req[r].case /\ t.say = req[r].say
  BY <1>1 DEF Task
<1>3. req' = [req EXCEPT ![r] = t]
  BY <1>1 DEF Goto
<1>4. req[r].case <= Len(cases) /\ req[r].case \in Nat
  BY <1>1 DEF Typed, Placed, Task
<1>5. t.case <= Len(cases')
  BY <1>2, <1>4, LenProperties DEF Typed, TypeOK
<1>6. WellPlaced(t, Len(cases'))
  BY <1>2, <1>5 DEF WellPlaced
<1>. HIDE DEF t
<1>. QED
  BY <1>2, <1>3, <1>6, TaskKeeps

\* A task that moves on to a place where it announces nothing.
LEMMA UpdateKeeps ==
  ASSUME Typed, NEW r \in Req, NEW k \in Task, req' = [req EXCEPT ![r] = k],
         UNCHANGED cases, k.case = req[r].case, k.pc \notin {"announce", "push"},
         k.pc \in {"readCase", "saveCase", "mirror"} => req[r].case # 0
  PROVE  req' \in [Req -> Task] /\ Placed'
<1>1. /\ cases' \in Seq(CaseRow) /\ Len(cases') = Len(cases)
      /\ Len(cases) <= Len(cases')
  BY LenProperties DEF Typed, TypeOK
<1>2. req[r].case <= Len(cases)
  BY DEF Typed, Placed
<1>3. WellPlaced(k, Len(cases'))
  BY <1>1, <1>2 DEF WellPlaced
<1>. QED
  BY <1>1, <1>3, TaskKeeps

-----------------------------------------------------------------------------
(* Each step keeps the types. *)

\* A request stores one well-placed task and writes nothing else.
LEMMA StartKeeps ==
  ASSUME Typed, NEW r \in Req, NEW op, NEW t \in Task, Start(r, op, t),
         WellPlaced(t, Len(cases)),
         UNCHANGED <<bill, cases, verifs, sent, news, history>>, ocrDue' \in BOOLEAN
  PROVE  Typed'
<1>1. cases' \in Seq(CaseRow) /\ Len(cases) <= Len(cases') /\ Len(cases) = Len(cases')
  BY LenProperties DEF Typed, TypeOK
<1>2. req' \in [Req -> Task] /\ Placed'
  BY <1>1, TaskKeeps DEF Start
<1>3. started' \in Nat
  BY DEF Start, Typed, TypeOK
<1>. QED
  BY <1>2, <1>3 DEF Typed, TypeOK, bill, news, history

LEMMA RequestTyped ==
  ASSUME Typed, NEW r \in Req, Request(r)
  PROVE  Typed'
<1>0. /\ BillNow \in BillRow /\ Idle \in Task /\ Len(cases) \in Nat
      /\ Kin \in Nat \X Nat
  BY IdleType, LenProperties DEF BillNow, BillRow, Typed, TypeOK, Kin
<1>1. CASE ReadTransition(r)
  <2>1. PICK t \in Target \ {status}, d \in DatePair : ReadTransition(r)!(t, d)
    BY <1>1 DEF ReadTransition
  <2>. DEFINE was == IF ActiveCase = 0 THEN NoCase ELSE cases[ActiveCase]
              m == IF ActiveCase = 0 THEN None ELSE MirrorOf(t, was.status)
              k == [Idle EXCEPT !.op = "transition", !.pc = "resolve", !.brow = BillNow,
                                !.kin = Kin,
                                !.case = ActiveCase, !.crow = was, !.target = t,
                                !.mirror = m, !.say = BillMilestone(t),
                                !.act = d[1], !.exp = d[2]]
  <2>2. was \in CaseRow /\ ActiveCase = Len(cases)
    BY IdleType, ElementOfSeq, LenProperties DEF ActiveCase, Typed, TypeOK
  <2>3. t \in BillStatus /\ d[1] \in Date /\ d[2] \in Date
    BY BillPipelineAssumption
  <2>4. m \in CaseStatus \cup {None} /\ BillMilestone(t) \in Milestone \cup {None}
    BY <2>3, MirrorType, BillMilestoneType
  <2>. HIDE DEF was, m
  <2>5. k \in Task
    BY <1>0, <2>2, <2>3, <2>4 DEF Task, OpName, Pc
  <2>7. WellPlaced(k, Len(cases))
    BY <1>0, <2>2, <2>3, <2>4 DEF Idle, WellPlaced
  <2>6. Start(r, "transition", k) /\ UNCHANGED <<bill, cases, verifs, sent, news, ocrDue, history>>
    BY <2>1 DEF was, m
  <2>. HIDE DEF k
  <2>. QED
    BY <2>5, <2>7, <2>6, <1>0, StartKeeps DEF Typed, TypeOK
<1>2. CASE ReadRequest(r)
  <2>. DEFINE k == [Idle EXCEPT !.op = "request", !.pc = "resolve", !.brow = BillNow,
                                !.target = "verification_required"]
  <2>1. k \in Task
    BY <1>0 DEF Task, OpName, Pc, BillStatus
  <2>2. WellPlaced(k, Len(cases))
    BY <1>0 DEF Idle, WellPlaced
  <2>3. Start(r, "request", k) /\ UNCHANGED <<bill, cases, verifs, sent, news, ocrDue, history>>
    BY <1>2 DEF ReadRequest
  <2>. HIDE DEF k
  <2>. QED
    BY <2>1, <2>2, <2>3, <1>0, StartKeeps DEF Typed, TypeOK
<1>3. CASE ReadSubmit(r)
  <2>. DEFINE k == [Idle EXCEPT !.op = "submit", !.pc = "find", !.brow = BillNow,
                                !.kin = Kin,
                                !.target = "verification_review"]
  <2>1. k \in Task
    BY <1>0 DEF Task, OpName, Pc, BillStatus
  <2>2. WellPlaced(k, Len(cases))
    BY <1>0 DEF Idle, WellPlaced
  <2>3. Start(r, "submit", k) /\ UNCHANGED <<bill, cases, verifs, sent, news, ocrDue, history>>
    BY <1>3 DEF ReadSubmit
  <2>. HIDE DEF k
  <2>. QED
    BY <2>1, <2>2, <2>3, <1>0, StartKeeps DEF Typed, TypeOK
<1>4. CASE ReadSend(r)
  <2>0. PICK os \in SUBSET Offer \ {{}} : ReadSend(r)!(os)
    BY <1>4 DEF ReadSend
  <2>. DEFINE k == [Idle EXCEPT !.op = "send", !.pc = "checkSend", !.brow = BillNow,
                                !.kin = Kin,
                                !.offers = os, !.target = "offer_sent",
                                !.say = "offers_available"]
  <2>1. k \in Task
    BY <1>0 DEF Task, OpName, Pc, BillStatus, Milestone
  <2>2. WellPlaced(k, Len(cases))
    BY <1>0 DEF Idle, WellPlaced
  <2>3. Start(r, "send", k) /\ UNCHANGED <<bill, cases, verifs, sent, news, ocrDue, history>>
    BY <2>0
  <2>. HIDE DEF k
  <2>. QED
    BY <2>1, <2>2, <2>3, <1>0, StartKeeps DEF Typed, TypeOK
<1>5. CASE ReadAccept(r)
  <2>0. PICK o \in Offer, d \in {data, "customer"} : ReadAccept(r)!(o, d)
    BY <1>5 DEF ReadAccept
  <2>. DEFINE row == [BillNow EXCEPT !.data = d]
              k == [Idle EXCEPT !.op = "accept", !.pc = "checkAccept", !.brow = row,
                                !.offers = {o}, !.target = "offer_accepted"]
  <2>4. row \in BillRow
    BY <1>0 DEF BillRow, DataVersion, Typed, TypeOK
  <2>3. Start(r, "accept", k) /\ UNCHANGED <<bill, cases, verifs, sent, news, ocrDue, history>>
    BY <2>0
  <2>. HIDE DEF row
  <2>1. k \in Task
    BY <1>0, <2>4 DEF Task, OpName, Pc, BillStatus
  <2>2. WellPlaced(k, Len(cases))
    BY <1>0 DEF Idle, WellPlaced
  <2>. HIDE DEF k
  <2>. QED
    BY <2>1, <2>2, <2>3, <1>0, StartKeeps DEF Typed, TypeOK
<1>6. CASE ReadEdit(r)
  <2>0. PICK c \in DOMAIN cases : \E s \in EditTarget \cup {cases[c].status}, o \in Offer,
               d \in EditDates(cases[c]) : ReadEdit(r)!(c)!(s, o, d)
    BY <1>6 DEF ReadEdit
  <2>1. PICK s \in EditTarget \cup {cases[c].status}, o \in Offer,
             d \in EditDates(cases[c]) : ReadEdit(r)!(c)!(s, o, d)
    BY <2>0
  <2>. DEFINE new == [offer |-> o, status |-> s, act |-> d[1], exp |-> d[2]]
              m == IF s = cases[c].status THEN None ELSE CaseMilestone(s)
              k == [Idle EXCEPT !.op = "edit", !.pc = "saveCase", !.case = c,
                                !.crow = new, !.say = m]
  <2>2. c \in 1..Len(cases) /\ c \in Nat /\ cases[c] \in CaseRow
    BY ElementOfSeq, LenProperties DEF Typed, TypeOK
  <2>3. s \in CaseStatus /\ d[1] \in Date /\ d[2] \in Date
    BY <2>2, BillPipelineAssumption DEF CaseRow, EditDates
  <2>4. new \in CaseRow
    BY <2>3 DEF CaseRow
  <2>5. m \in Milestone \cup {None}
    BY CaseMilestoneType
  <2>6. Start(r, "edit", k) /\ UNCHANGED <<bill, cases, verifs, sent, news, ocrDue, history>>
    BY <2>1
  <2>. HIDE DEF new, m
  <2>7. k \in Task
    BY <1>0, <2>2, <2>4, <2>5 DEF Task, OpName, Pc
  <2>8. WellPlaced(k, Len(cases))
    BY <1>0, <2>2 DEF Idle, WellPlaced
  <2>. HIDE DEF k
  <2>. QED
    BY <2>6, <2>7, <2>8, <1>0, StartKeeps DEF Typed, TypeOK
<1>7. CASE ReadCorrect(r)
  <2>. DEFINE row == [BillNow EXCEPT !.data = "admin"]
              k == [Idle EXCEPT !.op = "correct", !.pc = "saveBill", !.target = status,
                                !.brow = row, !.kin = Kin]
  <2>0. row \in BillRow /\ status \in BillStatus
    BY <1>0 DEF BillRow, DataVersion, Typed, TypeOK
  <2>3. Start(r, "correct", k) /\ UNCHANGED <<bill, cases, verifs, sent, news, ocrDue, history>>
    BY <1>7 DEF ReadCorrect
  <2>. HIDE DEF row
  <2>1. k \in Task
    BY <1>0, <2>0 DEF Task, OpName, Pc
  <2>2. WellPlaced(k, Len(cases))
    BY <1>0 DEF Idle, WellPlaced
  <2>. HIDE DEF k
  <2>. QED
    BY <2>1, <2>2, <2>3, <1>0, StartKeeps DEF Typed, TypeOK
<1>8. CASE StartOcr(r)
  <2>. DEFINE k == [Idle EXCEPT !.op = "ocr", !.pc = "saveBill", !.brow = Uploaded,
                                !.target = "analyzing"]
  <2>1. k \in Task
    BY <1>0, IdleType DEF Task, OpName, Pc, BillStatus
  <2>2. WellPlaced(k, Len(cases))
    BY <1>0 DEF Idle, WellPlaced
  <2>3. /\ Start(r, "ocr", k) /\ ocrDue' = FALSE
        /\ UNCHANGED <<bill, cases, verifs, sent, news, history>>
    BY <1>8 DEF StartOcr
  <2>. HIDE DEF k
  <2>. QED
    BY <2>1, <2>2, <2>3, <1>0, StartKeeps
<1>. QED
  BY <1>1, <1>2, <1>3, <1>4, <1>5, <1>6, <1>7, <1>8 DEF Request

\* The rows that are stored are rows.
\* A task whose save was rejected is over, and changed nothing.
LEMMA Rejected ==
  ASSUME Typed, NEW r \in Req, SaveRejected(r)
  PROVE  /\ req'[r] = Idle /\ req[r].pc = "saveBill" /\ UNCHANGED started
         /\ UNCHANGED <<bill, cases, verifs, sent, news, ocrDue, history>>
BY DEF SaveRejected, At, Finish, Typed, TypeOK

LEMMA StoreBillType ==
  ASSUME Typed, NEW row \in BillRow, StoreBill(row)
  PROVE  status' \in BillStatus /\ data' \in DataVersion /\ reached' \subseteq BillStatus
BY DEF Typed, TypeOK, StoreBill, BillRow

LEMMA StoreCaseType ==
  ASSUME Typed, NEW row \in CaseRow, NEW c, StoreCase(c, row)
  PROVE  cases' \in Seq(CaseRow) /\ Len(cases') = Len(cases) /\ caseReached' \subseteq CaseStatus
<1>1. cases \in Seq(CaseRow) /\ caseReached \subseteq CaseStatus /\ row.status \in CaseStatus
  BY DEF Typed, TypeOK, CaseRow
<1>2. cases' = [cases EXCEPT ![c] = row] /\ caseReached' = caseReached \cup {row.status}
  BY DEF StoreCase
<1>. QED
  BY <1>1, <1>2, Overwrite

LEMMA MilestonesKeep ==
  ASSUME Typed, NEW r \in Req, Milestones(r), cases' \in Seq(CaseRow),
         Len(cases) <= Len(cases')
  PROVE  req' \in [Req -> Task] /\ Placed'
<1>1. CASE req[r].say = None /\ Finish(r)
  BY <1>1, FinishKeeps
<1>2. CASE req[r].say # None /\ Goto(r, "announce")
  BY <1>2, GotoKeeps DEF Pc
<1>. QED
  BY <1>1, <1>2 DEF Milestones

LEMMA ResolvedType ==
  ASSUME Typed PROVE Resolved \in Seq(VerificationStatus)
<1>1. verifs \in Seq(VerificationStatus) /\ Len(verifs) \in Nat /\ DOMAIN verifs = 1..Len(verifs)
  BY LenProperties DEF Typed, TypeOK
<1>2. \A v \in 1..Len(verifs) : verifs[v] \in VerificationStatus
  BY <1>1, ElementOfSeq
<1>3. Resolved \in [1..Len(verifs) -> VerificationStatus]
  BY <1>1, <1>2 DEF Resolved, VerificationStatus
<1>. QED
  BY <1>1, <1>3

LEMMA ActivationType ==
  ASSUME NEW t, NEW row \in CaseRow, NEW act \in Date, NEW exp \in Date
  PROVE  ActivationAfter(t, row, act, exp) \in CaseRow
BY DEF ActivationAfter, CaseRow, Date, NoDate

\* A task whose every field but a few is kept is still a task.
LEMMA ContinueTyped ==
  ASSUME Typed, NEW r \in Req, Continue(r)
  PROVE  Typed'
<1>. USE DEF news, history, bill
<1>0. /\ req[r] \in Task /\ req \in [Req -> Task] /\ Len(cases) \in Nat
      /\ cases \in Seq(CaseRow) /\ req[r].case \in 0..Len(cases)
      /\ req[r].pc \in {"readCase", "saveCase", "mirror"} => req[r].case # 0
      /\ req[r].pc \in {"announce", "push"} => req[r].say # None
  BY LenProperties DEF Typed, TypeOK, Placed, Task
<1>1. CASE ResolvePending(r)
  <2>1. req' \in [Req -> Task] /\ Placed'
    BY <1>0, <1>1, GotoKeeps DEF ResolvePending, Pc
  <2>. QED
    BY <2>1, <1>1, ResolvedType DEF ResolvePending, Typed, TypeOK
<1>2. CASE InsertVerification(r)
  <2>1. req' \in [Req -> Task] /\ Placed'
    BY <1>0, <1>2, GotoKeeps DEF InsertVerification, Pc
  <2>2. verifs' \in Seq(VerificationStatus)
    BY <1>2, AppendProperties DEF InsertVerification, Typed, TypeOK, VerificationStatus
  <2>. QED
    BY <2>1, <2>2, <1>2 DEF InsertVerification, Typed, TypeOK
<1>3. CASE SetRequired(r)
  <2>1. [BillNow EXCEPT !.status = "verification_required"] \in BillRow
    BY DEF BillNow, BillRow, BillStatus, Typed, TypeOK
  <2>2. status' \in BillStatus /\ data' \in DataVersion /\ reached' \subseteq BillStatus
    BY <2>1, <1>3, StoreBillType DEF SetRequired
  <2>3. req' \in [Req -> Task] /\ Placed'
    <3>1. CASE req[r].case = 0
      BY <3>1, <1>0, <1>3, FinishKeeps DEF SetRequired
    <3>2. CASE req[r].case # 0
      BY <3>2, <1>0, <1>3, GotoKeeps DEF SetRequired, Pc
    <3>. QED
      BY <3>1, <3>2
  <2>. QED
    BY <2>2, <2>3, <1>3 DEF SetRequired, Typed, TypeOK
<1>4. CASE FindPending(r)
  <2>1. CASE Pending = {}
    BY <2>1, <1>0, <1>4, FinishKeeps DEF FindPending, Typed, TypeOK
  <2>2. CASE Pending # {}
    <3>1. PICK v \in Pending : req' = [req EXCEPT ![r].pc = "saveVerif", ![r].n = v]
      BY <2>2, <1>4 DEF FindPending
    <3>. DEFINE k == [req[r] EXCEPT !.pc = "saveVerif", !.n = v]
    <3>2. v \in Nat
      BY LenProperties DEF Pending, Typed, TypeOK
    <3>3. k \in Task /\ k.case = req[r].case /\ k.pc = "saveVerif"
      BY <3>2, <1>0 DEF Task, Pc
    <3>4. req' = [req EXCEPT ![r] = k] /\ UNCHANGED cases
      BY <3>1, <1>0, <1>4 DEF FindPending
    <3>. HIDE DEF k
    <3>5. req' \in [Req -> Task] /\ Placed'
      BY <3>3, <3>4, UpdateKeeps
    <3>. QED
      BY <3>5, <1>4 DEF FindPending, Typed, TypeOK
  <2>. QED
    BY <2>1, <2>2
<1>5. CASE SaveVerification(r)
  <2>1. req' \in [Req -> Task] /\ Placed'
    BY <1>0, <1>5, GotoKeeps DEF SaveVerification, Pc
  <2>2. verifs' \in Seq(VerificationStatus)
    BY <1>5, Overwrite DEF SaveVerification, Typed, TypeOK, VerificationStatus
  <2>. QED
    BY <2>1, <2>2, <1>5 DEF SaveVerification, Typed, TypeOK
<1>6. CASE CheckSend(r)
  <2>1. req' \in [Req -> Task] /\ Placed'
    <3>1. CASE Open = {}
      BY <3>1, <1>0, <1>6, GotoKeeps DEF CheckSend, Pc
    <3>2. CASE Open # {}
      BY <3>2, <1>0, <1>6, FinishKeeps DEF CheckSend
    <3>. QED
      BY <3>1, <3>2
  <2>. QED
    BY <2>1, <1>6 DEF CheckSend, Typed, TypeOK
<1>7. CASE DraftOffers(r)
  <2>. DEFINE p == IF req[r].offers \subseteq sent THEN "saveBill" ELSE "saveOffers"
              k == [req[r] EXCEPT !.pc = p, !.offers = @ \ sent]
  <2>1. k \in Task /\ k.case = req[r].case /\ k.pc \in {"saveBill", "saveOffers"}
    BY <1>0 DEF Task, Pc
  <2>2. req' = [req EXCEPT ![r] = k] /\ UNCHANGED cases
    BY <1>7, <1>0 DEF DraftOffers
  <2>. HIDE DEF k
  <2>3. req' \in [Req -> Task] /\ Placed'
    BY <2>1, <2>2, UpdateKeeps
  <2>. QED
    BY <2>3, <1>7 DEF DraftOffers, Typed, TypeOK
<1>8. CASE SaveOffers(r)
  <2>1. CASE req[r].offers \cap sent # {}
    BY <2>1, <1>0, <1>8, FinishKeeps DEF SaveOffers, Typed, TypeOK
  <2>2. CASE req[r].offers \cap sent = {}
    <3>1. req' \in [Req -> Task] /\ Placed'
      BY <2>2, <1>0, <1>8, GotoKeeps DEF SaveOffers, Pc
    <3>2. sent' \subseteq Offer
      BY <2>2, <1>0, <1>8 DEF SaveOffers, Typed, TypeOK, Task
    <3>. QED
      BY <3>1, <3>2, <1>8 DEF SaveOffers, Typed, TypeOK
  <2>. QED
    BY <2>1, <2>2
<1>9. CASE CheckAccept(r)
  <2>1. req' \in [Req -> Task] /\ Placed'
    <3>1. CASE Open = {}
      BY <3>1, <1>0, <1>9, GotoKeeps DEF CheckAccept, Pc
    <3>2. CASE Open # {}
      BY <3>2, <1>0, <1>9, FinishKeeps DEF CheckAccept
    <3>. QED
      BY <3>1, <3>2
  <2>. QED
    BY <2>1, <1>9 DEF CheckAccept, Typed, TypeOK
<1>10. CASE CheckProposed(r)
  <2>1. req' \in [Req -> Task] /\ Placed'
    <3>1. CASE req[r].offers \subseteq sent
      BY <3>1, <1>0, <1>10, GotoKeeps DEF CheckProposed, Pc
    <3>2. CASE ~(req[r].offers \subseteq sent)
      BY <3>2, <1>0, <1>10, FinishKeeps DEF CheckProposed
    <3>. QED
      BY <3>1, <3>2
  <2>. QED
    BY <2>1, <1>10 DEF CheckProposed, Typed, TypeOK
<1>11. CASE DrawNumber(r)
  <2>. DEFINE k == [req[r] EXCEPT !.pc = "insertCase", !.n = Len(cases) + 1]
  <2>3. req[r] \in Task /\ Len(cases) + 1 \in Nat
    BY <1>0
  <2>1. k \in Task /\ k.case = req[r].case /\ k.pc = "insertCase"
    BY <2>3 DEF Task, Pc
  <2>2. req' = [req EXCEPT ![r] = k] /\ UNCHANGED cases
    BY <1>11, <1>0 DEF DrawNumber
  <2>. HIDE DEF k
  <2>4. req' \in [Req -> Task] /\ Placed'
    BY <2>1, <2>2, UpdateKeeps
  <2>. QED
    BY <2>4, <1>11 DEF DrawNumber, Typed, TypeOK
<1>12. CASE InsertCase(r)
  <2>1. CASE req[r].n # Len(cases) + 1
    BY <2>1, <1>0, <1>12, FinishKeeps DEF InsertCase, Typed, TypeOK
  <2>2. CASE req[r].n = Len(cases) + 1
    <3>1. PICK o \in req[r].offers :
            /\ cases' = Append(cases, [NoCase EXCEPT !.offer = o])
            /\ caseReached' = caseReached \cup {"new"}
            /\ Goto(r, "saveBill")
      BY <2>2, <1>12 DEF InsertCase
    <3>2. [NoCase EXCEPT !.offer = o] \in CaseRow
      BY <1>0 DEF NoCase, CaseRow, Task, CaseStatus, Date, NoDate
    <3>3. cases' \in Seq(CaseRow) /\ Len(cases) <= Len(cases')
      BY <3>1, <3>2, <1>0, AppendProperties
    <3>4. req' \in [Req -> Task] /\ Placed'
      BY <3>1, <3>3, <1>0, GotoKeeps DEF Pc
    <3>. QED
      BY <3>1, <3>3, <3>4, <1>12 DEF InsertCase, Typed, TypeOK, CaseStatus
  <2>. QED
    BY <2>1, <2>2
<1>13. CASE SaveBill(r)
  <2>1. [req[r].brow EXCEPT !.status = req[r].target] \in BillRow
    BY <1>0 DEF Task, BillRow
  <2>2. status' \in BillStatus /\ data' \in DataVersion /\ reached' \subseteq BillStatus
    BY <2>1, <1>13, StoreBillType DEF SaveBill
  <2>3. req' \in [Req -> Task] /\ Placed'
    <3>1. CASE req[r].case # 0
      BY <3>1, <1>0, <1>13, GotoKeeps DEF SaveBill, Pc
    <3>2. CASE req[r].case = 0 /\ req[r].target = "analyzing" /\ req[r].op = "ocr"
      BY <3>2, <1>0, <1>13, GotoKeeps DEF SaveBill, Pc
    <3>3. CASE req[r].case = 0 /\ ~(req[r].target = "analyzing" /\ req[r].op = "ocr")
      BY <3>3, <1>0, <1>13, MilestonesKeep DEF SaveBill
    <3>. QED
      BY <3>1, <3>2, <3>3
  <2>. QED
    BY <2>2, <2>3, <1>13 DEF SaveBill, Typed, TypeOK
<1>14. CASE Extract(r)
  <2>1. PICK d \in {"ocr", req[r].brow.data} :
          req' = [req EXCEPT ![r].pc = "saveBill", ![r].brow = [@ EXCEPT !.data = d],
                             ![r].target = "verification_review"]
    BY <1>14 DEF Extract
  <2>. DEFINE row == [req[r].brow EXCEPT !.data = d]
              k == [req[r] EXCEPT !.pc = "saveBill", !.brow = row,
                                  !.target = "verification_review"]
  <2>5. row \in BillRow
    BY <1>0 DEF Task, BillRow, DataVersion
  <2>3. req' = [req EXCEPT ![r] = k] /\ UNCHANGED cases
    BY <2>1, <1>0, <1>14 DEF Extract
  <2>. HIDE DEF row
  <2>6. k \in Task /\ k.case = req[r].case /\ k.pc = "saveBill"
    BY <2>5, <1>0 DEF Task, Pc, BillStatus
  <2>. HIDE DEF k
  <2>4. req' \in [Req -> Task] /\ Placed'
    BY <2>6, <2>3, UpdateKeeps
  <2>. QED
    BY <2>4, <1>14 DEF Extract, Typed, TypeOK
<1>15. CASE ReadCase(r)
  <2>. DEFINE row == ActivationAfter(req[r].target, cases[req[r].case], req[r].act, req[r].exp)
              k == [req[r] EXCEPT !.pc = "saveCase", !.crow = row]
  <2>1. req[r].case \in 1..Len(cases)
    BY <1>0, <1>15 DEF ReadCase, At
  <2>2. cases[req[r].case] \in CaseRow
    BY <2>1, <1>0, ElementOfSeq
  <2>3. row \in CaseRow
    BY <2>2, <1>0, ActivationType DEF Task
  <2>4. req' = [req EXCEPT ![r] = k] /\ UNCHANGED cases
    BY <1>15, <1>0 DEF ReadCase
  <2>. HIDE DEF row
  <2>7. req[r] \in Task
    BY <1>0
  <2>5. k \in Task /\ k.case = req[r].case /\ k.pc = "saveCase"
    BY <2>3, <2>7 DEF Task, Pc
  <2>. HIDE DEF k
  <2>8. req[r].case # 0
    BY <1>0, <1>15 DEF ReadCase, At
  <2>6. req' \in [Req -> Task] /\ Placed'
    BY <2>4, <2>5, <2>8, UpdateKeeps
  <2>. QED
    BY <2>6, <1>15 DEF ReadCase, Typed, TypeOK
<1>16. CASE SaveCase(r)
  <2>1. req[r].crow \in CaseRow
    BY <1>0 DEF Task
  <2>2. /\ cases' \in Seq(CaseRow) /\ Len(cases') = Len(cases)
        /\ caseReached' \subseteq CaseStatus
    BY <2>1, <1>16, StoreCaseType DEF SaveCase
  <2>3. req' \in [Req -> Task] /\ Placed'
    <3>1. CASE req[r].op = "edit"
      BY <3>1, <2>2, <1>0, <1>16, MilestonesKeep DEF SaveCase
    <3>2. CASE req[r].op # "edit"
      BY <3>2, <2>2, <1>0, <1>16, GotoKeeps DEF SaveCase, At, Pc
    <3>. QED
      BY <3>1, <3>2
  <2>. QED
    BY <2>2, <2>3, <1>16 DEF SaveCase, Typed, TypeOK
<1>17. CASE MirrorCase(r)
  <2>1. /\ cases' \in Seq(CaseRow) /\ Len(cases') = Len(cases)
        /\ caseReached' \subseteq CaseStatus
    <3>1. CASE req[r].mirror = None
      BY <3>1, <1>0, <1>17 DEF MirrorCase, Typed, TypeOK
    <3>2. CASE req[r].mirror # None
      <4>. DEFINE row == [cases[req[r].case] EXCEPT !.status = req[r].mirror]
      <4>1. req[r].case \in 1..Len(cases) /\ req[r].mirror \in CaseStatus
        BY <3>2, <1>0, <1>17 DEF MirrorCase, At, Task
      <4>4. cases[req[r].case] \in CaseRow
        BY <4>1, <1>0, ElementOfSeq
      <4>2. row \in CaseRow
        BY <4>1, <4>4 DEF CaseRow
      <4>3. StoreCase(req[r].case, row)
        BY <3>2, <1>17 DEF MirrorCase
      <4>. HIDE DEF row
      <4>. QED
        BY <4>2, <4>3, StoreCaseType
    <3>. QED
      BY <3>1, <3>2
  <2>2. req' \in [Req -> Task] /\ Placed'
    BY <2>1, <1>0, <1>17, MilestonesKeep DEF MirrorCase
  <2>. QED
    BY <2>1, <2>2, <1>17 DEF MirrorCase, Typed, TypeOK
<1>18. CASE Announce(r)
  <2>1. req' \in [Req -> Task] /\ Placed'
    <3>1. CASE Fresh(req[r].say)
      BY <3>1, <1>0, <1>18, GotoKeeps DEF Announce, At, Pc
    <3>2. CASE ~Fresh(req[r].say)
      BY <3>2, <1>0, <1>18, FinishKeeps DEF Announce
    <3>. QED
      BY <3>1, <3>2
  <2>2. told' \subseteq Milestone
    BY <1>0, <1>18 DEF Announce, At, Task, Typed, TypeOK
  <2>. QED
    BY <2>1, <2>2, <1>18 DEF Announce, Typed, TypeOK
<1>19. CASE Push(r)
  <2>1. req' \in [Req -> Task] /\ Placed'
    BY <1>0, <1>19, FinishKeeps DEF Push
  <2>2. pushes' \in [Milestone -> Nat]
    BY <1>0, <1>19 DEF Push, At, Task, Typed, TypeOK
  <2>. QED
    BY <2>1, <2>2, <1>19 DEF Push, Typed, TypeOK
<1>20. CASE SaveRejected(r)
  <2>1. req' \in [Req -> Task] /\ Placed'
    BY <1>0, <1>20, FinishKeeps DEF SaveRejected
  <2>. QED
    BY <2>1, <1>20 DEF SaveRejected, Typed, TypeOK
<1>. QED
  BY <1>1, <1>2, <1>3, <1>4, <1>5, <1>6, <1>7, <1>8, <1>9, <1>10, <1>11, <1>12,
     <1>13, <1>14, <1>15, <1>16, <1>17, <1>18, <1>19, <1>20 DEF Continue

LEMMA FailTyped ==
  ASSUME Typed, NEW r \in Req, Fail(r)
  PROVE  Typed'
<1>1. cases' \in Seq(CaseRow) /\ Len(cases) <= Len(cases') /\ Finish(r)
  BY LenProperties DEF Fail, Typed, TypeOK
<1>2. req' \in [Req -> Task] /\ Placed'
  BY <1>1, FinishKeeps
<1>. QED
  BY <1>2 DEF Fail, Typed, TypeOK, bill, news, history

LEMMA InitTyped == Init => Typed
<1>. SUFFICES ASSUME Init PROVE Typed
  OBVIOUS
<1>1. cases \in Seq(CaseRow) /\ verifs \in Seq(VerificationStatus) /\ Len(cases) = 0
  BY EmptySeq DEF Init
<1>2. req \in [Req -> Task]
  BY IdleType DEF Init
<1>3. Placed
  BY <1>1 DEF Init, Placed, Idle
<1>4. pushes \in [Milestone -> Nat] /\ started \in Nat /\ ocrDue \in BOOLEAN
  BY DEF Init
<1>5. status \in BillStatus /\ data \in DataVersion /\ reached \subseteq BillStatus
  BY DEF Init, Uploaded, BillStatus, DataVersion
<1>. QED
  BY <1>1, <1>2, <1>3, <1>4, <1>5 DEF Init, Typed, TypeOK

LEMMA NextTyped == Typed /\ [Next]_vars => Typed'
<1>. SUFFICES ASSUME Typed, [Next]_vars PROVE Typed'
  OBVIOUS
<1>1. CASE Next
  BY <1>1, RequestTyped, ContinueTyped, FailTyped DEF Next
<1>2. CASE UNCHANGED vars
  BY <1>2 DEF vars, bill, news, history, Typed, TypeOK, Placed
<1>. QED
  BY <1>1, <1>2

(***************************************************************************)
(* Every variable keeps its type, a task is never sent to a case that does *)
(* not exist, and what it announces is a milestone.                        *)
(***************************************************************************)
THEOREM TypeCorrect == Spec => []TypeOK
<1>1. Typed => TypeOK
  BY DEF Typed
<1>. QED
  BY <1>1, InitTyped, NextTyped, PTL DEF Spec

-----------------------------------------------------------------------------
(* What a step leaves alone: other tasks, and what is already history. *)

Moves(r) == Request(r) \/ Continue(r) \/ Fail(r)

LEMMA OthersStay ==
  ASSUME Typed, NEW r \in Req, Moves(r), NEW q \in Req, q # r
  PROVE  req'[q] = req[q]
<1>0. req \in [Req -> Task]
  BY DEF Typed, TypeOK
<1>1. CASE Request(r)
  BY <1>0, <1>1 DEF Request, ReadTransition, ReadRequest, ReadSubmit, ReadSend, ReadAccept,
     ReadEdit, ReadCorrect, StartOcr, Start
<1>2. CASE Continue(r)
  BY <1>0, <1>2 DEF Continue, ResolvePending, InsertVerification, SetRequired, FindPending,
     SaveVerification, CheckSend, DraftOffers, SaveOffers, CheckAccept, CheckProposed,
     DrawNumber, InsertCase, SaveBill, SaveRejected, Extract, ReadCase, SaveCase, MirrorCase, Announce,
     Push, Milestones, Goto, Finish
<1>3. CASE Fail(r)
  BY <1>0, <1>3 DEF Fail, Finish
<1>. QED
  BY <1>1, <1>2, <1>3 DEF Moves

LEMMA HistoryGrows ==
  ASSUME Typed, NEW r \in Req, Moves(r)
  PROVE  reached \subseteq reached' /\ caseReached \subseteq caseReached' /\ sent \subseteq sent'
<1>1. CASE Request(r)
  BY <1>1 DEF Request, ReadTransition, ReadRequest, ReadSubmit, ReadSend, ReadAccept,
     ReadEdit, ReadCorrect, StartOcr, history
<1>2. CASE Continue(r)
  BY <1>2 DEF Continue, ResolvePending, InsertVerification, SetRequired, FindPending,
     SaveVerification, CheckSend, DraftOffers, SaveOffers, CheckAccept, CheckProposed,
     DrawNumber, InsertCase, SaveBill, SaveRejected, Extract, ReadCase, SaveCase, MirrorCase, Announce,
     Push, StoreBill, StoreCase, history
<1>3. CASE Fail(r)
  BY <1>3 DEF Fail, history
<1>. QED
  BY <1>1, <1>2, <1>3 DEF Moves

\* The fields of a task the proofs below follow, all but its pc.
Same(t, u) ==
  /\ t.op = u.op /\ t.crow = u.crow /\ t.target = u.target
  /\ t.say = u.say /\ t.offers = u.offers

LEMMA GotoFields ==
  ASSUME Typed, NEW r \in Req, NEW p, Goto(r, p)
  PROVE  req'[r].pc = p /\ Same(req'[r], req[r])
<1>1. req \in [Req -> Task] /\ req[r] \in Task
  BY DEF Typed, TypeOK
<1>2. req'[r] = [req[r] EXCEPT !.pc = p]
  BY <1>1 DEF Goto
<1>. QED
  BY <1>1, <1>2 DEF Task, Same

LEMMA FinishFields ==
  ASSUME Typed, NEW r \in Req, Finish(r)
  PROVE  req'[r] = Idle
BY DEF Typed, TypeOK, Finish

Dated(row) == row.act # NoDate /\ row.exp # NoDate

\* What a task has just been given to do.
Asked(t) ==
  \/ /\ t.op = "transition" /\ t.pc = "resolve"
     /\ t.target \in Target \ {status} /\ DatesAccepted(t.target, t.act, t.exp)
     /\ t.case = Len(cases) /\ t.kin = Kin
     /\ t.case # 0 => t.mirror = MirrorOf(t.target, cases[t.case].status)
  \/ t.op = "request" /\ t.pc = "resolve" /\ t.target = "verification_required" /\ t.case = 0
  \/ t.op = "submit" /\ t.pc = "find" /\ t.target = "verification_review" /\ t.case = 0
     /\ t.kin = Kin
  \/ t.op = "send" /\ t.pc = "checkSend" /\ t.target = "offer_sent" /\ t.case = 0 /\ t.kin = Kin
  \/ t.op = "accept" /\ t.pc = "checkAccept" /\ t.target = "offer_accepted" /\ t.case = 0
  \/ /\ t.op = "edit" /\ t.pc = "saveCase"
     /\ t.crow.status = "awaiting_activation" => Dated(t.crow)
  \/ t.op = "correct" /\ t.pc = "saveBill" /\ t.target = status /\ t.case = 0 /\ t.kin = Kin
  \/ t.op = "ocr" /\ t.pc = "saveBill" /\ t.target = "analyzing" /\ t.case = 0

LEMMA RequestAsks ==
  ASSUME Typed, NEW r \in Req, Request(r)
  PROVE  req[r] = Idle /\ UNCHANGED <<bill, cases, verifs, news>> /\ Asked(req'[r])
<1>0. req \in [Req -> Task]
  BY DEF Typed, TypeOK
<1>1. CASE ReadTransition(r)
  <2>1. PICK t \in Target \ {status}, d \in DatePair : ReadTransition(r)!(t, d)
    BY <1>1 DEF ReadTransition
  <2>2. /\ req'[r].op = "transition" /\ req'[r].pc = "resolve" /\ req'[r].target = t
        /\ req'[r].act = d[1] /\ req'[r].exp = d[2] /\ req'[r].case = Len(cases)
        /\ req'[r].kin = Kin
    BY <2>1, <1>0 DEF Start, Idle, ActiveCase
  <2>3. Len(cases) # 0 => req'[r].mirror = MirrorOf(t, cases[Len(cases)].status)
    BY <2>1, <1>0 DEF Start, Idle, ActiveCase
  <2>. QED
    BY <2>1, <2>2, <2>3 DEF Asked, Start, ActiveCase
<1>2. CASE ReadRequest(r)
  BY <1>2, <1>0 DEF ReadRequest, Start, Idle, Asked
<1>3. CASE ReadSubmit(r)
  BY <1>3, <1>0 DEF ReadSubmit, Start, Idle, Asked
<1>4. CASE ReadSend(r)
  <2>1. PICK os \in SUBSET Offer \ {{}} : ReadSend(r)!(os)
    BY <1>4 DEF ReadSend
  <2>. QED
    BY <2>1, <1>0 DEF Start, Idle, Asked
<1>5. CASE ReadAccept(r)
  <2>1. PICK o \in Offer, d \in {data, "customer"} : ReadAccept(r)!(o, d)
    BY <1>5 DEF ReadAccept
  <2>. QED
    BY <2>1, <1>0 DEF Start, Idle, Asked
<1>6. CASE ReadEdit(r)
  <2>1. PICK c \in DOMAIN cases : \E s \in EditTarget \cup {cases[c].status}, o \in Offer,
               d \in EditDates(cases[c]) : ReadEdit(r)!(c)!(s, o, d)
    BY <1>6 DEF ReadEdit
  <2>2. PICK s \in EditTarget \cup {cases[c].status}, o \in Offer,
             d \in EditDates(cases[c]) : ReadEdit(r)!(c)!(s, o, d)
    BY <2>1
  <2>3. /\ req'[r].op = "edit" /\ req'[r].pc = "saveCase"
        /\ req'[r].crow = [offer |-> o, status |-> s, act |-> d[1], exp |-> d[2]]
    BY <2>2, <1>0 DEF Start, Idle
  <2>. QED
    BY <2>2, <2>3 DEF Asked, Dated, EditAccepted, Start
<1>7. CASE ReadCorrect(r)
  BY <1>7, <1>0 DEF ReadCorrect, Start, Idle, Asked
<1>8. CASE StartOcr(r)
  BY <1>8, <1>0 DEF StartOcr, Start, Idle, Asked
<1>. QED
  BY <1>1, <1>2, <1>3, <1>4, <1>5, <1>6, <1>7, <1>8 DEF Request

-----------------------------------------------------------------------------
(* The customer is told only what happened. *)

\* What a task is to announce is the milestone of the status it stores, and
\* by the time it announces it, the status is stored.
Heralds(t, stored, hap) ==
  /\ t.op = "edit" => t.pc \in {"saveCase", "announce", "push"}
  /\ t.op = "ocr" => t.say = None
  /\ t.op # "edit" => t.say \in {None, BillMilestone(t.target)}
  /\ t.op # "edit" /\ t.pc \in {"readCase", "saveCase", "mirror"} => t.target \in stored
  /\ t.op = "edit" /\ t.pc = "saveCase" => t.say \in {None, CaseMilestone(t.crow.status)}
  /\ t.pc = "extract" => t.op = "ocr"
  /\ t.pc \in {"insertVerif", "setRequired"} => t.target = "verification_required"
  /\ t.pc \in {"announce", "push"} => t.say \in hap

NewsInv ==
  /\ told \subseteq Happened
  /\ \A r \in Req : Heralds(req[r], reached, Happened)

LEMMA IdleHeralds == ASSUME NEW S, NEW H PROVE Heralds(Idle, S, H)
BY DEF Heralds, Idle, None

LEMMA HappenedGrows ==
  ASSUME reached \subseteq reached', caseReached \subseteq caseReached'
  PROVE  Happened \subseteq Happened'
BY DEF Happened

LEMMA BillSaid ==
  ASSUME NEW s \in reached', BillMilestone(s) # None
  PROVE  BillMilestone(s) \in Happened'
BY DEF Happened

LEMMA CaseSaid ==
  ASSUME NEW s \in caseReached', CaseMilestone(s) # None
  PROVE  CaseMilestone(s) \in Happened'
BY DEF Happened

\* The step of r keeps the invariant if the task it leaves behind does.
LEMMA NewsKeeps ==
  ASSUME Typed, NewsInv, NEW r \in Req, Moves(r), told' \subseteq Happened',
         Heralds(req'[r], reached', Happened')
  PROVE  NewsInv'
<1>1. reached \subseteq reached' /\ Happened \subseteq Happened'
  BY HistoryGrows, HappenedGrows
<1>2. ASSUME NEW q \in Req PROVE Heralds(req'[q], reached', Happened')
  <2>1. CASE q = r
    BY <2>1
  <2>2. CASE q # r
    <3>1. req'[q] = req[q] /\ Heralds(req[q], reached, Happened)
      BY <2>2, OthersStay DEF NewsInv
    <3>2. Heralds(req[q], reached', Happened')
      BY <1>1, <3>1 DEF Heralds
    <3>. QED
      BY <3>1, <3>2
  <2>. QED
    BY <2>1, <2>2
<1>. QED
  BY <1>2 DEF NewsInv

LEMMA RequestHeralds ==
  ASSUME Typed, NEW r \in Req, Request(r)
  PROVE  Heralds(req'[r], reached', Happened')
<1>0. req \in [Req -> Task]
  BY DEF Typed, TypeOK
<1>1. CASE ReadTransition(r)
  <2>1. PICK t \in Target \ {status}, d \in DatePair : ReadTransition(r)!(t, d)
    BY <1>1 DEF ReadTransition
  <2>2. /\ req'[r].op = "transition" /\ req'[r].pc = "resolve"
        /\ req'[r].target = t /\ req'[r].say = BillMilestone(t)
    BY <2>1, <1>0 DEF Start, Idle
  <2>. QED
    BY <2>2 DEF Heralds
<1>2. CASE ReadRequest(r)
  <2>1. req'[r].op = "request" /\ req'[r].pc = "resolve" /\ req'[r].say = None
    BY <1>2, <1>0 DEF Start, ReadRequest, Idle
  <2>. QED
    BY <2>1 DEF Heralds
<1>3. CASE ReadSubmit(r)
  <2>1. req'[r].op = "submit" /\ req'[r].pc = "find" /\ req'[r].say = None
    BY <1>3, <1>0 DEF Start, ReadSubmit, Idle
  <2>. QED
    BY <2>1 DEF Heralds
<1>4. CASE ReadSend(r)
  <2>0. PICK os \in SUBSET Offer \ {{}} : ReadSend(r)!(os)
    BY <1>4 DEF ReadSend
  <2>1. /\ req'[r].op = "send" /\ req'[r].pc = "checkSend"
        /\ req'[r].target = "offer_sent" /\ req'[r].say = "offers_available"
    BY <2>0, <1>0 DEF Start, Idle
  <2>. QED
    BY <2>1 DEF Heralds, BillMilestone
<1>5. CASE ReadAccept(r)
  <2>0. PICK o \in Offer, d \in {data, "customer"} : ReadAccept(r)!(o, d)
    BY <1>5 DEF ReadAccept
  <2>1. req'[r].op = "accept" /\ req'[r].pc = "checkAccept" /\ req'[r].say = None
    BY <2>0, <1>0 DEF Start, Idle
  <2>. QED
    BY <2>1 DEF Heralds
<1>6. CASE ReadEdit(r)
  <2>0. PICK c \in DOMAIN cases : \E s \in EditTarget \cup {cases[c].status}, o \in Offer,
               d \in EditDates(cases[c]) : ReadEdit(r)!(c)!(s, o, d)
    BY <1>6 DEF ReadEdit
  <2>1. PICK s \in EditTarget \cup {cases[c].status}, o \in Offer,
             d \in EditDates(cases[c]) : ReadEdit(r)!(c)!(s, o, d)
    BY <2>0
  <2>2. /\ req'[r].op = "edit" /\ req'[r].pc = "saveCase" /\ req'[r].crow.status = s
        /\ req'[r].say \in {None, CaseMilestone(s)}
    BY <2>1, <1>0 DEF Start, Idle
  <2>. QED
    BY <2>2 DEF Heralds
<1>7. CASE ReadCorrect(r)
  <2>1. req'[r].op = "correct" /\ req'[r].pc = "saveBill" /\ req'[r].say = None
    BY <1>7, <1>0 DEF Start, ReadCorrect, Idle
  <2>. QED
    BY <2>1 DEF Heralds
<1>8. CASE StartOcr(r)
  <2>1. req'[r].op = "ocr" /\ req'[r].pc = "saveBill" /\ req'[r].say = None
    BY <1>8, <1>0 DEF Start, StartOcr, Idle
  <2>. QED
    BY <2>1 DEF Heralds
<1>. QED
  BY <1>1, <1>2, <1>3, <1>4, <1>5, <1>6, <1>7, <1>8 DEF Request

\* The three ways a handler ends: it finishes, it moves on, it announces.
LEMMA FinishHeralds ==
  ASSUME Typed, NEW r \in Req, Finish(r)
  PROVE  Heralds(req'[r], reached', Happened')
BY FinishFields, IdleHeralds

LEMMA PlainHeralds ==
  ASSUME Typed, NewsInv, NEW r \in Req, req[r].op # "edit" \/ req[r].pc # "saveCase",
         req'[r].pc \in {"saveBill", "saveVerif", "find", "draft", "saveOffers",
                         "checkSent", "number", "insertCase"},
         Same(req'[r], req[r]), req[r].pc \notin {"announce", "push"}
  PROVE  Heralds(req'[r], reached', Happened')
BY DEF NewsInv, Heralds, Same

LEMMA MilestonesHerald ==
  ASSUME Typed, NewsInv, NEW r \in Req, Milestones(r), req[r].say # None => req[r].say \in Happened',
         req[r].pc = "saveCase" \/ req[r].op # "edit"
  PROVE  Heralds(req'[r], reached', Happened')
<1>1. CASE req[r].say = None /\ Finish(r)
  BY <1>1, FinishHeralds
<1>2. CASE req[r].say # None /\ Goto(r, "announce")
  BY <1>2, GotoFields DEF NewsInv, Heralds, Same
<1>. QED
  BY <1>1, <1>2 DEF Milestones

LEMMA ContinueHeralds ==
  ASSUME Typed, NewsInv, NEW r \in Req, Continue(r)
  PROVE  Heralds(req'[r], reached', Happened') /\ told' \subseteq Happened'
<1>0. Moves(r) /\ reached \subseteq reached' /\ Happened \subseteq Happened'
  BY HistoryGrows, HappenedGrows DEF Moves
<1>00. req[r] \in Task /\ req \in [Req -> Task] /\ Heralds(req[r], reached, Happened)
  BY DEF Typed, TypeOK, NewsInv
<1>a. told \subseteq Happened'
  BY <1>0 DEF NewsInv
<1>1. CASE ResolvePending(r)
  BY <1>1, <1>00, <1>a, GotoFields DEF ResolvePending, At, news, Heralds, Same
<1>2. CASE InsertVerification(r)
  BY <1>2, <1>00, <1>a, GotoFields DEF InsertVerification, At, news, Heralds, Same
<1>3. CASE SetRequired(r)
  <2>1. "verification_required" \in reached' /\ req[r].target = "verification_required"
    BY <1>3, <1>00 DEF SetRequired, StoreBill, BillNow, Heralds, At
  <2>2. CASE Finish(r)
    BY <2>2, <1>3, <1>a, FinishHeralds DEF SetRequired, news
  <2>3. CASE Goto(r, "readCase")
    BY <2>1, <2>3, <1>3, <1>00, <1>a, GotoFields DEF SetRequired, At, news, Heralds, Same
  <2>. QED
    BY <2>2, <2>3, <1>3 DEF SetRequired
<1>4. CASE FindPending(r)
  <2>1. CASE Finish(r)
    BY <2>1, <1>4, <1>a, FinishHeralds DEF FindPending, news
  <2>2. CASE ~Finish(r)
    <3>1. PICK v \in Pending : req' = [req EXCEPT ![r].pc = "saveVerif", ![r].n = v]
      BY <2>2, <1>4 DEF FindPending
    <3>2. req'[r].pc = "saveVerif" /\ Same(req'[r], req[r])
      BY <3>1, <1>00 DEF Task, Same
    <3>. QED
      BY <3>2, <1>4, <1>a, PlainHeralds DEF FindPending, At, news
  <2>. QED
    BY <2>1, <2>2
<1>5. CASE SaveVerification(r)
  BY <1>5, <1>a, GotoFields, PlainHeralds DEF SaveVerification, At, news
<1>6. CASE CheckSend(r)
  BY <1>6, <1>a, GotoFields, PlainHeralds, FinishHeralds DEF CheckSend, At, news
<1>7. CASE DraftOffers(r)
  <2>1. /\ req'[r].pc \in {"saveBill", "saveOffers"}
        /\ req'[r].op = req[r].op /\ req'[r].target = req[r].target
        /\ req'[r].say = req[r].say
    BY <1>7, <1>00 DEF DraftOffers, Task
  <2>. QED
    BY <2>1, <1>7, <1>00, <1>a DEF DraftOffers, At, news, Heralds
<1>8. CASE SaveOffers(r)
  BY <1>8, <1>a, GotoFields, PlainHeralds, FinishHeralds DEF SaveOffers, At, news
<1>9. CASE CheckAccept(r)
  BY <1>9, <1>a, GotoFields, PlainHeralds, FinishHeralds DEF CheckAccept, At, news
<1>10. CASE CheckProposed(r)
  BY <1>10, <1>a, GotoFields, PlainHeralds, FinishHeralds DEF CheckProposed, At, news
<1>11. CASE DrawNumber(r)
  <2>1. req'[r].pc = "insertCase" /\ Same(req'[r], req[r])
    BY <1>11, <1>00 DEF DrawNumber, Task, Same
  <2>. QED
    BY <2>1, <1>11, <1>a, PlainHeralds DEF DrawNumber, At, news
<1>12. CASE InsertCase(r)
  BY <1>12, <1>a, GotoFields, PlainHeralds, FinishHeralds DEF InsertCase, At, news
<1>13. CASE SaveBill(r)
  <2>1. req[r].target \in reached'
    <3>1. [req[r].brow EXCEPT !.status = req[r].target].status = req[r].target
      BY <1>00 DEF Task, BillRow
    <3>. QED
      BY <3>1, <1>13 DEF SaveBill, StoreBill
  <2>2. req[r].op # "edit" /\ req[r].pc = "saveBill"
    BY <1>13, <1>00 DEF SaveBill, At, Heralds
  <2>3. req[r].say # None => req[r].say \in Happened'
    BY <2>1, <2>2, <1>00, BillSaid DEF Heralds
  <2>0. told' \subseteq Happened'
    BY <1>13, <1>a DEF SaveBill, news
  <2>4. CASE Goto(r, "readCase")
    BY <2>4, <2>0, <2>1, <2>2, <1>00, GotoFields DEF Heralds, Same
  <2>5. CASE Goto(r, "extract") /\ req[r].op = "ocr"
    BY <2>5, <2>0, <2>2, <1>00, GotoFields DEF Heralds, Same
  <2>6. CASE Milestones(r)
    BY <2>6, <2>0, <2>2, <2>3, MilestonesHerald
  <2>7. Goto(r, "readCase") \/ (Goto(r, "extract") /\ req[r].op = "ocr") \/ Milestones(r)
    BY <1>13 DEF SaveBill
  <2>. QED
    BY <2>4, <2>5, <2>6, <2>7
<1>14. CASE Extract(r)
  <2>1. /\ req'[r].pc = "saveBill" /\ req'[r].op = req[r].op
        /\ req'[r].say = req[r].say
    BY <1>14, <1>00 DEF Extract, Task
  <2>2. req[r].op = "ocr" /\ req[r].say = None
    BY <1>14, <1>00 DEF Extract, At, Heralds
  <2>. QED
    BY <2>1, <2>2, <1>14, <1>a DEF Extract, news, Heralds
<1>15. CASE ReadCase(r)
  <2>1. /\ req'[r].pc = "saveCase" /\ req'[r].op = req[r].op
        /\ req'[r].say = req[r].say /\ req'[r].target = req[r].target
    BY <1>15, <1>00 DEF ReadCase, Task
  <2>2. req[r].op # "edit" /\ req[r].target \in reached'
    BY <1>0, <1>15, <1>00 DEF ReadCase, At, Heralds
  <2>. QED
    BY <2>1, <2>2, <1>15, <1>00, <1>a DEF ReadCase, news, Heralds
<1>16. CASE SaveCase(r)
  <2>1. req[r].crow.status \in caseReached' /\ req[r].pc = "saveCase"
    BY <1>16 DEF SaveCase, StoreCase, At
  <2>2. CASE req[r].op = "edit"
    <3>1. req[r].say # None => req[r].say \in Happened'
      BY <2>1, <2>2, <1>00, CaseSaid DEF Heralds
    <3>. QED
      BY <3>1, <2>1, <2>2, <1>16, <1>a, MilestonesHerald DEF SaveCase, news
  <2>3. CASE req[r].op # "edit"
    BY <2>1, <2>3, <1>0, <1>16, <1>00, <1>a, GotoFields DEF SaveCase, news, Heralds, Same
  <2>. QED
    BY <2>2, <2>3
<1>17. CASE MirrorCase(r)
  <2>1. req[r].op # "edit" /\ req[r].target \in reached'
    BY <1>0, <1>17, <1>00 DEF MirrorCase, At, Heralds
  <2>2. req[r].say # None => req[r].say \in Happened'
    BY <2>1, <1>00, BillSaid DEF Heralds
  <2>. QED
    BY <2>1, <2>2, <1>17, <1>a, MilestonesHerald DEF MirrorCase, news
<1>18. CASE Announce(r)
  <2>1. req[r].say \in Happened' /\ req[r].pc = "announce"
    BY <1>0, <1>18, <1>00 DEF Announce, At, Heralds
  <2>2. told' \subseteq Happened'
    BY <2>1, <1>18, <1>a DEF Announce
  <2>3. CASE Goto(r, "push")
    BY <2>1, <2>2, <2>3, <1>00, GotoFields DEF Heralds, Same
  <2>4. CASE Finish(r)
    BY <2>2, <2>4, FinishHeralds
  <2>. QED
    BY <2>3, <2>4, <1>18 DEF Announce
<1>19. CASE Push(r)
  BY <1>19, <1>a, FinishHeralds DEF Push
<1>20. CASE SaveRejected(r)
  BY <1>20, <1>a, FinishHeralds DEF SaveRejected, news
<1>. QED
  BY <1>1, <1>2, <1>3, <1>4, <1>5, <1>6, <1>7, <1>8, <1>9, <1>10, <1>11, <1>12,
     <1>13, <1>14, <1>15, <1>16, <1>17, <1>18, <1>19, <1>20 DEF Continue

LEMMA InitNews == Init => NewsInv
BY IdleHeralds DEF Init, NewsInv

LEMMA NewsNext == Typed /\ NewsInv /\ [Next]_vars => NewsInv'
<1>. SUFFICES ASSUME Typed, NewsInv, [Next]_vars PROVE NewsInv'
  OBVIOUS
<1>1. ASSUME NEW r \in Req, Request(r) PROVE NewsInv'
  <2>1. Moves(r) /\ UNCHANGED told
    BY <1>1 DEF Moves, Request, ReadTransition, ReadRequest, ReadSubmit, ReadSend, ReadAccept,
       ReadEdit, ReadCorrect, StartOcr, news
  <2>2. told' \subseteq Happened'
    BY <2>1, HistoryGrows, HappenedGrows DEF NewsInv
  <2>. QED
    BY <1>1, <2>1, <2>2, RequestHeralds, NewsKeeps
<1>2. ASSUME NEW r \in Req, Continue(r) PROVE NewsInv'
  BY <1>2, ContinueHeralds, NewsKeeps DEF Moves
<1>3. ASSUME NEW r \in Req, Fail(r) PROVE NewsInv'
  <2>1. Moves(r) /\ UNCHANGED told /\ Finish(r)
    BY <1>3 DEF Moves, Fail, news
  <2>2. told' \subseteq Happened'
    BY <2>1, HistoryGrows, HappenedGrows DEF NewsInv
  <2>. QED
    BY <2>1, <2>2, FinishHeralds, NewsKeeps
<1>4. CASE UNCHANGED vars
  BY <1>4 DEF vars, news, history, NewsInv, Happened
<1>. QED
  BY <1>1, <1>2, <1>3, <1>4 DEF Next

(***************************************************************************)
(* However many tasks run, and wherever they die, the notification centre  *)
(* shows only milestones that the bill or one of its cases really reached. *)
(***************************************************************************)
THEOREM NewsIsTrue == Spec => []ToldOnlyWhatHappened
<1>2. NewsInv => ToldOnlyWhatHappened
  BY DEF NewsInv, ToldOnlyWhatHappened
<1>. QED
  BY <1>2, InitTyped, NextTyped, InitNews, NewsNext, PTL DEF Spec

-----------------------------------------------------------------------------
(* One push per milestone, after the milestone: CustomerNews is implemented. *)

\* A task about to push inserted the row itself, nobody else is about to push
\* the same milestone, and nobody has.
OneVoice ==
  /\ \A r \in Req : req[r].pc = "push" => req[r].say \in told /\ pushes[req[r].say] = 0
  /\ \A q, r \in Req : req[q].pc = "push" /\ req[r].pc = "push" /\ req[q].say = req[r].say
                     => q = r
  /\ \A m \in Milestone : pushes[m] = 0 \/ (pushes[m] = 1 /\ m \in told)

\* Only two steps have anything to do with the notification centre.
LEMMA QuietStep ==
  ASSUME Typed, NEW r \in Req, Moves(r), ~Announce(r), ~Push(r)
  PROVE  UNCHANGED news /\ req'[r].pc # "push"
<1>0. req \in [Req -> Task] /\ req[r] \in Task /\ Idle.pc # "push"
  BY DEF Typed, TypeOK, Idle
<1>1. CASE Request(r)
  BY <1>1, RequestAsks DEF Asked
<1>2. CASE Continue(r)
  <2>1. ASSUME NEW p, Goto(r, p) PROVE req'[r].pc = p
    BY <2>1, GotoFields
  <2>2. Finish(r) => req'[r].pc # "push"
    BY <1>0, FinishFields
  <2>3. Milestones(r) => req'[r].pc # "push"
    BY <2>1, <2>2 DEF Milestones
  <2>4. CASE ResolvePending(r) \/ InsertVerification(r) \/ SetRequired(r)
    BY <2>1, <2>2, <2>4 DEF ResolvePending, InsertVerification, SetRequired
  <2>5. CASE SaveVerification(r) \/ CheckSend(r) \/ SaveOffers(r) \/ CheckAccept(r)
             \/ CheckProposed(r) \/ InsertCase(r)
    BY <2>1, <2>2, <2>5 DEF SaveVerification, CheckSend, SaveOffers, CheckAccept,
       CheckProposed, InsertCase
  <2>6. CASE FindPending(r)
    BY <1>0, <2>2, <2>6 DEF FindPending, Task
  <2>7. CASE DraftOffers(r) \/ DrawNumber(r) \/ Extract(r) \/ ReadCase(r)
    BY <1>0, <2>7 DEF DraftOffers, DrawNumber, Extract, ReadCase, Task
  <2>8. CASE SaveBill(r) \/ SaveCase(r) \/ MirrorCase(r)
    BY <2>1, <2>3, <2>8 DEF SaveBill, SaveCase, MirrorCase
  <2>9. CASE SaveRejected(r)
    BY <2>2, <2>9 DEF SaveRejected
  <2>. QED
    BY <1>2, <2>4, <2>5, <2>6, <2>7, <2>8, <2>9 DEF Continue
<1>3. CASE Fail(r)
  BY <1>0, <1>3, FinishFields DEF Fail
<1>. QED
  BY <1>1, <1>2, <1>3 DEF Moves

LEMMA VoiceNext == Typed /\ OneVoice /\ [Next]_vars => OneVoice'
<1>. SUFFICES ASSUME Typed, OneVoice, [Next]_vars PROVE OneVoice'
  OBVIOUS
<1>1. ASSUME NEW r \in Req, Announce(r) PROVE OneVoice'
  <2>0. Moves(r) /\ UNCHANGED pushes /\ told \subseteq told' /\ req[r].say \in told'
    BY <1>1 DEF Moves, Continue, Announce
  <2>1. CASE Fresh(req[r].say) /\ Goto(r, "push")
    <3>1. req'[r].pc = "push" /\ req'[r].say = req[r].say
      BY <2>1, GotoFields DEF Same
    <3>2. req[r].say \in Milestone /\ req[r].say \notin told
      BY <1>1, <2>1 DEF Announce, At, Fresh, Typed, TypeOK, Placed, Task
    <3>3. pushes[req[r].say] = 0
      BY <3>2 DEF OneVoice
    <3>4. ASSUME NEW q \in Req, q # r
          PROVE  /\ req'[q] = req[q]
                 /\ req[q].pc = "push" => req[q].say # req[r].say
      BY <2>0, <3>2, <3>4, OthersStay DEF OneVoice
    <3>. QED
      BY <2>0, <3>1, <3>3, <3>4 DEF OneVoice
  <2>2. CASE Finish(r)
    BY <2>0, <2>2, FinishFields, OthersStay DEF OneVoice, Idle
  <2>. QED
    BY <1>1, <2>1, <2>2 DEF Announce
<1>2. ASSUME NEW r \in Req, Push(r) PROVE OneVoice'
  <2>0. Moves(r) /\ UNCHANGED told /\ req'[r] = Idle /\ req[r].pc = "push"
    BY <1>2, FinishFields DEF Moves, Continue, Push, At
  <2>1. req[r].say \in Milestone /\ pushes \in [Milestone -> Nat]
    BY <2>0 DEF Typed, TypeOK, Placed, Task
  <2>2. pushes' = [pushes EXCEPT ![req[r].say] = 1] /\ req[r].say \in told
    <3>1. pushes[req[r].say] = 0 /\ req[r].say \in told
      BY <2>0 DEF OneVoice
    <3>. QED
      BY <1>2, <2>1, <3>1 DEF Push
  <2>3. ASSUME NEW q \in Req, q # r
        PROVE  /\ req'[q] = req[q]
               /\ req[q].pc = "push" => req[q].say # req[r].say
    BY <2>0, <2>3, OthersStay DEF OneVoice
  <2>4. \A q \in Req : req[q].pc = "push" => req[q].say \in Milestone
    BY DEF Typed, TypeOK, Placed, Task
  <2>5. Idle.pc # "push"
    BY DEF Idle
  <2>6. \A q \in Req : req'[q].pc = "push" => q # r /\ req'[q] = req[q] /\ req[q].pc = "push"
    BY <2>0, <2>3, <2>5
  <2>7. \A m \in Milestone : pushes'[m] = 0 \/ (pushes'[m] = 1 /\ m \in told')
    BY <2>0, <2>1, <2>2 DEF OneVoice
  <2>8. \A q \in Req : req'[q].pc = "push" => req'[q].say \in told' /\ pushes'[req'[q].say] = 0
    BY <2>0, <2>1, <2>2, <2>3, <2>4, <2>6 DEF OneVoice
  <2>9. \A p, q \in Req : req'[p].pc = "push" /\ req'[q].pc = "push" /\ req'[p].say = req'[q].say
                        => p = q
    BY <2>6 DEF OneVoice
  <2>. QED
    BY <2>7, <2>8, <2>9 DEF OneVoice
<1>3. ASSUME NEW r \in Req, Moves(r), ~Announce(r), ~Push(r) PROVE OneVoice'
  <2>1. UNCHANGED news /\ req'[r].pc # "push"
    BY <1>3, QuietStep
  <2>2. \A q \in Req : q # r => req'[q] = req[q]
    BY <1>3, OthersStay
  <2>. QED
    BY <2>1, <2>2 DEF OneVoice, news
<1>4. CASE UNCHANGED vars
  BY <1>4 DEF vars, news, OneVoice
<1>. QED
  BY <1>1, <1>2, <1>3, <1>4 DEF Next, Moves, Continue

LEMMA HappenedType == Happened \subseteq Milestone /\ Happened' \subseteq Milestone
BY BillMilestoneType, CaseMilestoneType DEF Happened

LEMMA NewsStep ==
  ASSUME Typed, NewsInv, OneVoice, [Next]_vars
  PROVE  [News!Next]_(News!vars)
<1>1. ASSUME NEW r \in Req, Moves(r), UNCHANGED pushes PROVE News!Next
  BY <1>1, HistoryGrows, HappenedGrows, HappenedType DEF News!Next, News!Happen
<1>2. ASSUME NEW r \in Req, Push(r) PROVE News!Next
  <2>1. req[r].pc = "push"
    BY <1>2 DEF Push, At
  <2>2. req[r].say \in Happened /\ req[r].say \in Milestone /\ pushes[req[r].say] = 0
    BY <2>1 DEF NewsInv, Heralds, OneVoice, Typed, TypeOK, Placed, Task
  <2>3. UNCHANGED Happened
    BY <1>2 DEF Push, history, Happened
  <2>4. pushes' = [pushes EXCEPT ![req[r].say] = 1]
    BY <1>2, <2>2 DEF Push, Typed, TypeOK
  <2>5. News!Hear(req[r].say)
    BY <2>2, <2>3, <2>4 DEF News!Hear
  <2>. QED
    BY <2>2, <2>5 DEF News!Next
<1>3. ASSUME NEW r \in Req, Moves(r), ~Push(r) PROVE UNCHANGED pushes
  <2>1. CASE Announce(r)
    BY <2>1 DEF Announce
  <2>2. CASE ~Announce(r)
    BY <2>2, <1>3, QuietStep DEF news
  <2>. QED
    BY <2>1, <2>2
<1>4. CASE UNCHANGED vars
  BY <1>4 DEF vars, news, history, Happened, News!vars
<1>. QED
  BY <1>1, <1>2, <1>3, <1>4 DEF Next, Moves, Continue

(***************************************************************************)
(* BillPipeline implements CustomerNews: to the customer, every            *)
(* interleaving of the handlers looks like milestones being reached and    *)
(* each being heard about at most once, afterwards.                        *)
(***************************************************************************)
THEOREM KeepsItsPromise == Spec => KeepsThePromise
<1>1. Init => OneVoice
  BY DEF Init, OneVoice, Idle
<1>2. Init => News!Init
  BY DEF Init, News!Init, Happened, BillMilestone, Uploaded, None
<1>. QED
  BY <1>1, <1>2, InitTyped, NextTyped, InitNews, NewsNext, VoiceNext, NewsStep, PTL
     DEF Spec, KeepsThePromise, News!Spec

-----------------------------------------------------------------------------
(* No switch before a review, and none on an offer never proposed. *)

Cautious(t, reviewed, proposed) ==
  /\ t.pc \in {"checkSend", "draft", "saveOffers"} => reviewed
  /\ t.pc \in {"number", "insertCase"} => t.offers \subseteq proposed

ReviewInv ==
  /\ status \in reached
  /\ sent # {} => Reviewed
  /\ cases # <<>> => Reviewed
  /\ \A r \in Req : Cautious(req[r], Reviewed, sent)

LEMMA ReviewKeeps ==
  ASSUME Typed, ReviewInv, NEW r \in Req, Moves(r), status' \in reached',
         sent' = sent \/ Reviewed, cases' = cases \/ cases # <<>> \/ Reviewed,
         Cautious(req'[r], Reviewed', sent')
  PROVE  ReviewInv'
<1>1. (Reviewed => Reviewed') /\ sent \subseteq sent'
  BY HistoryGrows DEF Reviewed
<1>2. ASSUME NEW q \in Req PROVE Cautious(req'[q], Reviewed', sent')
  <2>1. CASE q # r
    BY <1>1, <2>1, OthersStay DEF ReviewInv, Cautious
  <2>. QED
    BY <2>1
<1>. QED
  BY <1>1, <1>2 DEF ReviewInv

LEMMA StatusRecorded ==
  ASSUME Typed, status \in reached, NEW r \in Req, Moves(r)
  PROVE  status' \in reached'
<1>1. CASE Request(r)
  <2>1. UNCHANGED <<bill, history>>
    BY <1>1 DEF Request, ReadTransition, ReadRequest, ReadSubmit, ReadSend, ReadAccept,
       ReadEdit, ReadCorrect, StartOcr
  <2>. QED
    BY <2>1 DEF bill, history
<1>3. CASE Fail(r)
  BY <1>3 DEF Fail, bill, history
<1>2. CASE Continue(r)
  BY <1>2 DEF Continue, ResolvePending, InsertVerification, SetRequired, FindPending,
     SaveVerification, CheckSend, DraftOffers, SaveOffers, CheckAccept, CheckProposed,
     DrawNumber, InsertCase, SaveBill, SaveRejected, Extract, ReadCase, SaveCase, MirrorCase, Announce,
     Push, StoreBill, bill, history
<1>. QED
  BY <1>1, <1>2, <1>3 DEF Moves

\* The places where a task's offers and its licence to propose them matter.
Watched == {"checkSend", "draft", "saveOffers", "number", "insertCase"}

LEMMA ReviewRequest ==
  ASSUME Typed, ReviewInv, NEW r \in Req, Request(r)
  PROVE  ReviewInv'
<1>0. req \in [Req -> Task] /\ Moves(r) /\ status' \in reached'
  BY StatusRecorded DEF Typed, TypeOK, ReviewInv, Moves
<1>1. sent' = sent /\ cases' = cases /\ (Reviewed <=> Reviewed')
  BY DEF Request, ReadTransition, ReadRequest, ReadSubmit, ReadSend, ReadAccept,
     ReadEdit, ReadCorrect, StartOcr, history, Reviewed
<1>2. req'[r].pc \in Watched => req'[r].pc = "checkSend" /\ Reviewed
  <2>1. CASE ReadTransition(r)
    BY <1>0, <2>1 DEF ReadTransition, Start, Idle, Watched
  <2>2. CASE ReadRequest(r) \/ ReadSubmit(r)
    BY <1>0, <2>2 DEF ReadRequest, ReadSubmit, Start, Idle, Watched
  <2>3. CASE ReadSend(r)
    <3>1. Reviewed
      BY <2>3 DEF ReadSend, ReviewInv, Reviewed
    <3>. QED
      BY <1>0, <2>3, <3>1 DEF ReadSend, Start, Idle, Watched
  <2>4. CASE ReadAccept(r)
    BY <1>0, <2>4 DEF ReadAccept, Start, Idle, Watched
  <2>5. CASE ReadEdit(r)
    BY <1>0, <2>5 DEF ReadEdit, Start, Idle, Watched
  <2>6. CASE ReadCorrect(r) \/ StartOcr(r)
    BY <1>0, <2>6 DEF ReadCorrect, StartOcr, Start, Idle, Watched
  <2>. QED
    BY <2>1, <2>2, <2>3, <2>4, <2>5, <2>6 DEF Request
<1>3. Cautious(req'[r], Reviewed', sent')
  BY <1>1, <1>2 DEF Cautious, Watched
<1>. QED
  BY <1>0, <1>1, <1>3, ReviewKeeps

LEMMA ReviewContinue ==
  ASSUME Typed, ReviewInv, NEW r \in Req, Continue(r)
  PROVE  ReviewInv'
<1>0. /\ req \in [Req -> Task] /\ req[r] \in Task /\ Moves(r) /\ status' \in reached'
      /\ Cautious(req[r], Reviewed, sent) /\ (Reviewed => Reviewed')
  BY StatusRecorded, HistoryGrows DEF Typed, TypeOK, ReviewInv, Moves, Reviewed
<1>1. ASSUME req'[r].pc \notin Watched PROVE Cautious(req'[r], Reviewed', sent')
  BY <1>1 DEF Cautious, Watched
<1>2. Finish(r) => req'[r].pc \notin Watched
  BY FinishFields DEF Idle, Watched
<1>3. Milestones(r) => req'[r].pc \notin Watched
  BY <1>2, GotoFields DEF Milestones, Watched
<1>4. CASE ResolvePending(r) \/ InsertVerification(r) \/ SetRequired(r) \/ SaveVerification(r)
  <2>1. req'[r].pc \notin Watched /\ UNCHANGED <<sent, cases>>
    BY <1>2, <1>4, GotoFields DEF ResolvePending, InsertVerification, SetRequired,
       SaveVerification, Watched
  <2>. QED
    BY <1>0, <1>1, <2>1, ReviewKeeps
<1>5. CASE FindPending(r) \/ Extract(r) \/ ReadCase(r)
  <2>1. req'[r].pc \notin Watched /\ UNCHANGED <<sent, cases>>
    BY <1>0, <1>2, <1>5 DEF FindPending, Extract, ReadCase, Task, Watched
  <2>. QED
    BY <1>0, <1>1, <2>1, ReviewKeeps
<1>6. CASE CheckSend(r)
  <2>1. Reviewed /\ UNCHANGED <<sent, cases>>
    BY <1>0, <1>6 DEF CheckSend, At, Cautious
  <2>2. req'[r].pc \in {"draft"} \/ req'[r].pc \notin Watched
    BY <1>2, <1>6, GotoFields DEF CheckSend
  <2>3. Cautious(req'[r], Reviewed', sent')
    BY <1>0, <1>1, <2>1, <2>2 DEF Cautious
  <2>. QED
    BY <1>0, <2>1, <2>3, ReviewKeeps
<1>7. CASE DraftOffers(r)
  <2>1. Reviewed /\ UNCHANGED <<sent, cases>>
    BY <1>0, <1>7 DEF DraftOffers, At, Cautious
  <2>2. req'[r].pc \in {"saveBill", "saveOffers"}
    BY <1>0, <1>7 DEF DraftOffers, Task
  <2>3. Cautious(req'[r], Reviewed', sent')
    BY <1>0, <2>1, <2>2 DEF Cautious
  <2>. QED
    BY <1>0, <2>1, <2>3, ReviewKeeps
<1>8. CASE SaveOffers(r)
  <2>1. Reviewed /\ UNCHANGED cases
    BY <1>0, <1>8 DEF SaveOffers, At, Cautious
  <2>2. req'[r].pc \notin Watched
    BY <1>2, <1>8, GotoFields DEF SaveOffers, Watched
  <2>. QED
    BY <1>0, <1>1, <2>1, <2>2, ReviewKeeps
<1>9. CASE CheckAccept(r)
  <2>1. req'[r].pc \notin Watched /\ UNCHANGED <<sent, cases>>
    BY <1>2, <1>9, GotoFields DEF CheckAccept, Watched
  <2>. QED
    BY <1>0, <1>1, <2>1, ReviewKeeps
<1>10. CASE CheckProposed(r)
  <2>1. UNCHANGED <<sent, cases>>
    BY <1>10 DEF CheckProposed
  <2>2. CASE req[r].offers \subseteq sent
    <3>1. req'[r].pc = "number" /\ req'[r].offers = req[r].offers
      BY <1>10, <2>2, GotoFields DEF CheckProposed, Same
    <3>2. Cautious(req'[r], Reviewed', sent')
      BY <2>1, <2>2, <3>1 DEF Cautious
    <3>. QED
      BY <1>0, <2>1, <3>2, ReviewKeeps
  <2>3. CASE ~(req[r].offers \subseteq sent)
    BY <1>0, <1>1, <1>2, <1>10, <2>1, <2>3, ReviewKeeps DEF CheckProposed
  <2>. QED
    BY <2>2, <2>3
<1>11. CASE DrawNumber(r)
  <2>1. UNCHANGED <<sent, cases>> /\ req[r].offers \subseteq sent
    BY <1>0, <1>11 DEF DrawNumber, At, Cautious
  <2>2. req'[r].pc = "insertCase" /\ req'[r].offers = req[r].offers
    BY <1>0, <1>11 DEF DrawNumber, Task
  <2>3. Cautious(req'[r], Reviewed', sent')
    BY <2>1, <2>2 DEF Cautious
  <2>. QED
    BY <1>0, <2>1, <2>3, ReviewKeeps
<1>12. CASE InsertCase(r)
  <2>0. Goto(r, "saveBill") \/ Finish(r)
    BY <1>12 DEF InsertCase
  <2>1. UNCHANGED sent /\ req'[r].pc \notin Watched
    BY <1>2, <1>12, <2>0, GotoFields DEF InsertCase, Watched
  <2>2. cases' = cases \/ Reviewed
    <3>1. ASSUME NEW o \in req[r].offers PROVE Reviewed
      BY <1>0, <1>12, <3>1 DEF InsertCase, At, Cautious, ReviewInv
    <3>. QED
      BY <1>12, <3>1 DEF InsertCase
  <2>. QED
    BY <1>0, <1>1, <2>1, <2>2, ReviewKeeps
<1>13. CASE SaveBill(r)
  <2>1. req'[r].pc \notin Watched /\ UNCHANGED <<sent, cases>>
    BY <1>3, <1>13, GotoFields DEF SaveBill, Watched
  <2>. QED
    BY <1>0, <1>1, <2>1, ReviewKeeps
<1>14. CASE SaveCase(r) \/ MirrorCase(r)
  <2>1. req'[r].pc \notin Watched /\ UNCHANGED sent
    BY <1>3, <1>14, GotoFields DEF SaveCase, MirrorCase, Watched
  <2>2. cases # <<>>
    <3>1. req[r].case # 0 /\ req[r].case <= Len(cases) /\ req[r].case \in Nat
      BY <1>0, <1>14 DEF SaveCase, MirrorCase, At, Typed, Placed, Task
    <3>2. Len(<<>>) = 0
      BY EmptySeq
    <3>. QED
      BY <3>1, <3>2
  <2>. QED
    BY <1>0, <1>1, <2>1, <2>2, ReviewKeeps
<1>15. CASE Announce(r) \/ Push(r)
  <2>1. req'[r].pc \notin Watched /\ UNCHANGED <<sent, cases>>
    BY <1>2, <1>15, GotoFields DEF Announce, Push, Watched
  <2>. QED
    BY <1>0, <1>1, <2>1, ReviewKeeps
<1>16. CASE SaveRejected(r)
  <2>1. req'[r].pc \notin Watched /\ UNCHANGED <<sent, cases>>
    BY <1>2, <1>16 DEF SaveRejected
  <2>. QED
    BY <1>0, <1>1, <2>1, ReviewKeeps
<1>. QED
  BY <1>4, <1>5, <1>6, <1>7, <1>8, <1>9, <1>10, <1>11, <1>12, <1>13, <1>14, <1>15, <1>16 DEF Continue

LEMMA ReviewNext == Typed /\ ReviewInv /\ [Next]_vars => ReviewInv'
<1>. SUFFICES ASSUME Typed, ReviewInv, [Next]_vars PROVE ReviewInv'
  OBVIOUS
<1>1. ASSUME NEW r \in Req, Fail(r) PROVE ReviewInv'
  <2>1. Moves(r) /\ req'[r] = Idle /\ UNCHANGED <<sent, cases>>
    BY <1>1, FinishFields DEF Moves, Fail
  <2>2. Cautious(req'[r], Reviewed', sent')
    BY <2>1 DEF Cautious, Idle
  <2>3. status' \in reached'
    BY <2>1, StatusRecorded DEF ReviewInv
  <2>. QED
    BY <2>1, <2>2, <2>3, ReviewKeeps
<1>2. CASE UNCHANGED vars
  BY <1>2 DEF vars, bill, history, ReviewInv, Reviewed
<1>. QED
  BY <1>1, <1>2, ReviewRequest, ReviewContinue DEF Next

LEMMA InitReview == Init => ReviewInv
BY DEF Init, ReviewInv, Cautious, Idle

(***************************************************************************)
(* A case exists only once an operator had the bill in `verified' or       *)
(* `offer_sent', whatever raced with whatever before that.                 *)
(***************************************************************************)
THEOREM ReviewedFirst == Spec => []NoSwitchBeforeReview
<1>1. ReviewInv => NoSwitchBeforeReview
  BY DEF ReviewInv, NoSwitchBeforeReview
<1>. QED
  BY <1>1, InitTyped, NextTyped, InitReview, ReviewNext, PTL DEF Spec

LEMMA CaseAppended ==
  ASSUME Typed, NEW o, cases' = Append(cases, [NoCase EXCEPT !.offer = o])
  PROVE  cases'[Len(cases')].offer = o
<1>1. cases \in Seq(CaseRow) /\ [NoCase EXCEPT !.offer = o].offer = o
  BY DEF Typed, TypeOK, NoCase
<1>. QED
  BY <1>1

(***************************************************************************)
(* The offer a new case is opened on was proposed for this bill.           *)
(***************************************************************************)
THEOREM OpensOnProposal == Spec => OpenedOnProposal
<1>. DEFINE Opens == Len(cases') > Len(cases) => cases'[Len(cases')].offer \in sent
<1>1. ASSUME Typed, ReviewInv, NEW r \in Req, Moves(r) PROVE Opens
  <2>0. Len(cases) \in Nat
    BY <1>1, LenProperties DEF Typed, TypeOK
  <2>1. CASE InsertCase(r)
    <3>1. CASE UNCHANGED cases
      BY <2>0, <3>1
    <3>2. ASSUME NEW o \in req[r].offers, cases' = Append(cases, [NoCase EXCEPT !.offer = o])
          PROVE  Opens
      <4>1. cases'[Len(cases')].offer = o
        BY <1>1, <3>2, CaseAppended
      <4>2. o \in sent
        BY <1>1, <2>1 DEF InsertCase, At, ReviewInv, Cautious
      <4>. QED
        BY <4>1, <4>2
    <3>. QED
      BY <2>1, <3>1, <3>2 DEF InsertCase
  <2>2. CASE SaveCase(r)
    <3>1. req[r].crow \in CaseRow
      BY <1>1 DEF Typed, TypeOK, Task
    <3>2. Len(cases') = Len(cases)
      BY <1>1, <2>2, <3>1, StoreCaseType DEF SaveCase
    <3>. QED
      BY <2>0, <3>2
  <2>3. CASE MirrorCase(r)
    <3>1. cases' = cases \/ \E c, row : cases' = [cases EXCEPT ![c] = row]
      BY <2>3 DEF MirrorCase, StoreCase
    <3>2. ASSUME NEW c, NEW row, cases' = [cases EXCEPT ![c] = row] PROVE Len(cases') = Len(cases)
      BY <1>1, <3>2 DEF Typed, TypeOK
    <3>. QED
      BY <2>0, <3>1, <3>2
  <2>4. CASE ~InsertCase(r) /\ ~SaveCase(r) /\ ~MirrorCase(r)
    <3>1. UNCHANGED cases
      BY <1>1, <2>4 DEF Moves, Request, ReadTransition, ReadRequest, ReadSubmit, ReadSend,
         ReadAccept, ReadEdit, ReadCorrect, StartOcr, Fail, Continue, ResolvePending,
         InsertVerification, SetRequired, FindPending, SaveVerification, CheckSend, DraftOffers,
         SaveOffers, CheckAccept, CheckProposed, DrawNumber, SaveBill, SaveRejected, Extract, ReadCase,
         Announce, Push
    <3>. QED
      BY <2>0, <3>1
  <2>. QED
    BY <2>1, <2>2, <2>3, <2>4
<1>2. Typed /\ ReviewInv /\ [Next]_vars => [Opens]_vars
  BY <1>1 DEF Next, Moves
<1>. HIDE DEF Opens
<1>3. Spec => [][Opens]_vars
  BY <1>2, InitTyped, NextTyped, InitReview, ReviewNext, PTL DEF Spec
<1>. QED
  BY <1>3 DEF OpenedOnProposal, Opens

-----------------------------------------------------------------------------
(* The requests for documents, and handlers that leave each other alone. *)

\* All of a task but its pc.
Kept(t, u) ==
  /\ t.op = u.op /\ t.case = u.case /\ t.crow = u.crow /\ t.target = u.target
  /\ t.mirror = u.mirror /\ t.act = u.act /\ t.exp = u.exp /\ t.n = u.n /\ t.say = u.say
  /\ t.kin = u.kin

LEMMA GotoKept ==
  ASSUME Typed, NEW r \in Req, NEW p, Goto(r, p)
  PROVE  req'[r].pc = p /\ Kept(req'[r], req[r])
<1>1. req \in [Req -> Task] /\ req[r] \in Task
  BY DEF Typed, TypeOK
<1>2. req'[r] = [req[r] EXCEPT !.pc = p]
  BY <1>1 DEF Goto
<1>. QED
  BY <1>1, <1>2 DEF Task, Kept

LEMMA Says ==
  ASSUME Typed, NEW r \in Req, Milestones(r)
  PROVE  \/ req'[r] = Idle /\ req[r].say = None
         \/ req'[r].pc = "announce" /\ Kept(req'[r], req[r])
BY FinishFields, GotoKept DEF Milestones

\* The awaits of sendOffersToUser and createCase before they save the bill.
Aside == {"checkSend", "draft", "saveOffers", "checkAccept", "checkSent", "number", "insertCase"}

Prepares(r) ==
  \/ CheckSend(r) \/ DraftOffers(r) \/ SaveOffers(r)
  \/ CheckAccept(r) \/ CheckProposed(r) \/ DrawNumber(r) \/ InsertCase(r)

LEMMA Prepared ==
  ASSUME Typed, NEW r \in Req, Prepares(r)
  PROVE  /\ req[r].pc \in Aside /\ UNCHANGED <<bill, verifs>>
         /\ \/ req'[r] = Idle
            \/ /\ req'[r].pc \in Aside \cup {"saveBill"} /\ req'[r].op = req[r].op
               /\ req'[r].target = req[r].target /\ req'[r].case = req[r].case
<1>0. req \in [Req -> Task] /\ req[r] \in Task
  BY DEF Typed, TypeOK
<1>1. CASE CheckSend(r)
  BY <1>1, GotoKept, FinishFields DEF CheckSend, At, Aside, Kept
<1>2. CASE DraftOffers(r)
  <2>1. /\ req'[r].pc \in {"saveBill", "saveOffers"} /\ req'[r].op = req[r].op
        /\ req'[r].target = req[r].target /\ req'[r].case = req[r].case
    BY <1>2, <1>0 DEF DraftOffers, Task
  <2>. QED
    BY <2>1, <1>2 DEF DraftOffers, At, Aside
<1>3. CASE SaveOffers(r)
  BY <1>3, GotoKept, FinishFields DEF SaveOffers, At, Aside, Kept
<1>4. CASE CheckAccept(r)
  BY <1>4, GotoKept, FinishFields DEF CheckAccept, At, Aside, Kept
<1>5. CASE CheckProposed(r)
  BY <1>5, GotoKept, FinishFields DEF CheckProposed, At, Aside, Kept
<1>6. CASE DrawNumber(r)
  <2>1. /\ req'[r].pc = "insertCase" /\ req'[r].op = req[r].op
        /\ req'[r].target = req[r].target /\ req'[r].case = req[r].case
    BY <1>6, <1>0 DEF DrawNumber, Task
  <2>. QED
    BY <2>1, <1>6 DEF DrawNumber, At, Aside
<1>7. CASE InsertCase(r)
  <2>1. Finish(r) \/ Goto(r, "saveBill")
    BY <1>7 DEF InsertCase
  <2>2. req[r].pc \in Aside /\ UNCHANGED <<bill, verifs>>
    BY <1>7 DEF InsertCase, At, Aside, bill
  <2>. QED
    BY <2>1, <2>2, GotoKept, FinishFields DEF Kept
<1>. QED
  BY <1>1, <1>2, <1>3, <1>4, <1>5, <1>6, <1>7 DEF Prepares

Tells(r) == Announce(r) \/ Push(r)

LEMMA Told ==
  ASSUME Typed, NEW r \in Req, Tells(r)
  PROVE  /\ req[r].pc \in {"announce", "push"} /\ UNCHANGED <<bill, cases, verifs>>
         /\ req'[r] = Idle \/ (req'[r].pc = "push" /\ Kept(req'[r], req[r]))
<1>1. CASE Announce(r)
  BY <1>1, GotoKept, FinishFields DEF Announce, At
<1>2. CASE Push(r)
  BY <1>2, FinishFields DEF Push, At
<1>. QED
  BY <1>1, <1>2 DEF Tells

\* The requests for documents.

LEMMA PendingIs ==
  ASSUME Typed
  PROVE  /\ Pending \subseteq 1 .. Len(verifs) /\ Len(verifs) \in Nat
         /\ \A v \in Pending : verifs[v] = "pending"
         /\ DOMAIN verifs = 1 .. Len(verifs)
BY LenProperties DEF Typed, TypeOK, Pending

LEMMA AfterResolve ==
  ASSUME Typed, verifs' = Resolved
  PROVE  /\ Pending' = {}
         /\ \A v \in DOMAIN verifs : verifs[v] # "pending" => verifs'[v] = verifs[v]
<1>1. DOMAIN verifs' = DOMAIN verifs
  BY DEF Resolved
<1>2. \A v \in DOMAIN verifs : verifs'[v] = IF v \in Pending THEN "resolved" ELSE verifs[v]
  BY DEF Resolved
<1>. QED
  BY <1>1, <1>2 DEF Pending

LEMMA AfterInsert ==
  ASSUME Typed, verifs' = Append(verifs, "pending")
  PROVE  /\ Pending' = Pending \cup {Len(verifs) + 1}
         /\ \A v \in DOMAIN verifs : verifs'[v] = verifs[v]
<1>1. verifs \in Seq(VerificationStatus) /\ "pending" \in VerificationStatus /\ Len(verifs) \in Nat
  BY LenProperties DEF Typed, TypeOK, VerificationStatus
<1>2. /\ DOMAIN verifs = 1 .. Len(verifs) /\ DOMAIN verifs' = 1 .. Len(verifs) + 1
      /\ \A v \in 1 .. Len(verifs) : verifs'[v] = verifs[v]
      /\ verifs'[Len(verifs) + 1] = "pending"
  BY <1>1, AppendProperties, LenProperties
<1>. QED
  BY <1>1, <1>2 DEF Pending

LEMMA AfterAnswer ==
  ASSUME Typed, NEW n, verifs' = [verifs EXCEPT ![n] = "submitted"]
  PROVE  /\ Pending' = Pending \ {n}
         /\ \A v \in DOMAIN verifs \ {n} : verifs'[v] = verifs[v]
<1>1. DOMAIN verifs' = DOMAIN verifs
  OBVIOUS
<1>2. \A v \in DOMAIN verifs : verifs'[v] = IF v = n THEN "submitted" ELSE verifs[v]
  OBVIOUS
<1>. QED
  BY <1>1, <1>2 DEF Pending

\* Who answers a request answers one that waits; who opens one closed the others.
Asking(t) ==
  /\ t.pc = "saveVerif" => t.n \in Pending
  /\ t.pc = "insertVerif" => Pending = {}

AskInv == OnePendingRequest /\ \A r \in Req : Asking(req[r])

Settled == \A v \in DOMAIN verifs : verifs[v] # "pending" => verifs'[v] = verifs[v]

\* Between closing the open requests and inserting the new one, and between finding
\* the request to answer and saving the answer, no other task writes a request.
RequestsApart ==
  \A q, r \in Req :
    /\ req[r].pc \in {"insertVerif", "saveVerif"}
    /\ req[q].pc \in {"resolve", "insertVerif", "saveVerif"}
    => q = r

\* A step that leaves the requests for documents alone.
LEMMA AskKeeps ==
  ASSUME Typed, AskInv, NEW r \in Req, Moves(r), UNCHANGED verifs,
         req'[r].pc \notin {"saveVerif", "insertVerif"}
  PROVE  AskInv' /\ Settled
<1>1. Pending' = Pending
  BY DEF Pending
<1>2. \A q \in Req : q # r => req'[q] = req[q]
  BY OthersStay
<1>. QED
  BY <1>1, <1>2 DEF AskInv, OnePendingRequest, Asking, Settled

\* A step that settles or opens one.
LEMMA AskMoves ==
  ASSUME RequestsApart, Typed, AskInv, NEW r \in Req, Moves(r), OnePendingRequest',
         req[r].pc \in {"resolve", "insertVerif", "saveVerif"}, Asking(req[r])'
  PROVE  AskInv'
<1>1. ASSUME NEW q \in Req, q # r PROVE Asking(req[q])'
  <2>1. req'[q] = req[q] /\ req[q].pc \notin {"insertVerif", "saveVerif"}
    BY <1>1, OthersStay DEF RequestsApart
  <2>. QED
    BY <2>1 DEF Asking
<1>. QED
  BY <1>1 DEF AskInv

LEMMA AskStep ==
  ASSUME RequestsApart, Typed, AskInv, NEW r \in Req, Moves(r)
  PROVE  AskInv' /\ Settled
<1>0. req \in [Req -> Task] /\ req[r] \in Task /\ Asking(req[r]) /\ OnePendingRequest
  BY DEF Typed, TypeOK, AskInv
<1>1. CASE Request(r)
  BY <1>1, RequestAsks, AskKeeps DEF Asked
<1>2. CASE Prepares(r)
  BY <1>2, Prepared, AskKeeps DEF Aside, Idle
<1>3. CASE Tells(r)
  BY <1>3, Told, AskKeeps DEF Idle
<1>4. CASE Fail(r)
  BY <1>4, FinishFields, AskKeeps DEF Fail, Idle
<1>5. CASE ResolvePending(r)
  <2>1. Pending' = {} /\ Settled
    BY <1>5, AfterResolve DEF ResolvePending, Settled
  <2>2. req'[r].pc # "saveVerif" /\ req[r].pc = "resolve"
    BY <1>5, GotoKept DEF ResolvePending, At
  <2>3. OnePendingRequest' /\ Asking(req[r])'
    BY <2>1, <2>2 DEF OnePendingRequest, Asking
  <2>. QED
    BY <2>1, <2>2, <2>3, AskMoves
<1>6. CASE InsertVerification(r)
  <2>1. Pending' = Pending \cup {Len(verifs) + 1} /\ Settled /\ Pending = {}
    BY <1>6, <1>0, AfterInsert DEF InsertVerification, Settled, At, Asking
  <2>2. req'[r].pc = "setRequired" /\ req[r].pc = "insertVerif"
    BY <1>6, GotoKept DEF InsertVerification, At
  <2>3. OnePendingRequest' /\ Asking(req[r])'
    BY <2>1, <2>2 DEF OnePendingRequest, Asking
  <2>. QED
    BY <2>1, <2>2, <2>3, AskMoves
<1>7. CASE SaveVerification(r)
  <2>1. Pending' = Pending \ {req[r].n} /\ \A v \in DOMAIN verifs \ {req[r].n} : verifs'[v] = verifs[v]
    BY <1>7, AfterAnswer DEF SaveVerification
  <2>2. req[r].n \in Pending /\ verifs[req[r].n] = "pending"
    BY <1>7, <1>0, PendingIs DEF SaveVerification, At, Asking
  <2>3. req'[r].pc = "saveBill" /\ req[r].pc = "saveVerif"
    BY <1>7, GotoKept DEF SaveVerification, At
  <2>4. OnePendingRequest' /\ Asking(req[r])' /\ Settled
    BY <1>0, <2>1, <2>2, <2>3 DEF OnePendingRequest, Asking, Settled
  <2>. QED
    BY <2>3, <2>4, AskMoves
<1>8. CASE FindPending(r)
  <2>1. UNCHANGED verifs /\ Pending' = Pending
    BY <1>8 DEF FindPending, Pending
  <2>2. CASE Finish(r)
    BY <2>1, <2>2, FinishFields, AskKeeps DEF Idle
  <2>3. CASE ~Finish(r)
    <3>1. PICK v \in Pending : req' = [req EXCEPT ![r].pc = "saveVerif", ![r].n = v]
      BY <1>8, <2>3 DEF FindPending
    <3>2. req'[r].pc = "saveVerif" /\ req'[r].n = v
      BY <1>0, <3>1 DEF Task
    <3>3. OnePendingRequest' /\ Asking(req[r])' /\ Settled
      BY <1>0, <2>1, <3>2 DEF OnePendingRequest, Asking, Settled
    <3>4. \A q \in Req : q # r => req'[q] = req[q]
      BY OthersStay
    <3>5. \A q \in Req : Asking(req[q])'
      BY <2>1, <3>3, <3>4 DEF AskInv, Asking
    <3>. QED
      BY <3>3, <3>5 DEF AskInv
  <2>. QED
    BY <2>2, <2>3
<1>9. CASE SetRequired(r)
  BY <1>9, GotoKept, FinishFields, AskKeeps DEF SetRequired, Idle
<1>10. CASE SaveBill(r)
  <2>1. UNCHANGED verifs
    BY <1>10 DEF SaveBill
  <2>2. Goto(r, "readCase") \/ Goto(r, "extract") \/ Milestones(r)
    BY <1>10 DEF SaveBill
  <2>. QED
    BY <2>1, <2>2, GotoKept, Says, AskKeeps DEF Idle
<1>11. CASE Extract(r)
  <2>1. req'[r].pc = "saveBill"
    BY <1>11, <1>0 DEF Extract, Task
  <2>. QED
    BY <2>1, <1>11, AskKeeps DEF Extract
<1>12. CASE ReadCase(r)
  <2>1. req'[r].pc = "saveCase"
    BY <1>12, <1>0 DEF ReadCase, Task
  <2>. QED
    BY <2>1, <1>12, AskKeeps DEF ReadCase
<1>13. CASE SaveCase(r) \/ MirrorCase(r)
  <2>1. UNCHANGED verifs /\ (Milestones(r) \/ Goto(r, "mirror"))
    BY <1>13 DEF SaveCase, MirrorCase
  <2>. QED
    BY <2>1, GotoKept, Says, AskKeeps DEF Idle
<1>14. CASE SaveRejected(r)
  BY <1>14, Rejected, AskKeeps DEF Idle
<1>. QED
  BY <1>1, <1>2, <1>3, <1>4, <1>5, <1>6, <1>7, <1>8, <1>9, <1>10, <1>11, <1>12, <1>13, <1>14
     DEF Moves, Continue, Prepares, Tells

LEMMA InitAsks == Init => AskInv
BY DEF Init, AskInv, OnePendingRequest, Pending, Asking, Idle

LEMMA AskNext == Typed /\ AskInv /\ RequestsApart /\ [Next]_vars => AskInv' /\ Settled
<1>. SUFFICES ASSUME Typed, AskInv, RequestsApart, [Next]_vars PROVE AskInv' /\ Settled
  OBVIOUS
<1>1. CASE UNCHANGED vars
  BY <1>1 DEF vars, AskInv, OnePendingRequest, Pending, Asking, Settled
<1>. QED
  BY <1>1, AskStep DEF Next, Moves

(***************************************************************************)
(* No second request for documents is ever open, whichever handlers        *)
(* overlap and wherever they die, if only the two windows stay apart that  *)
(* requestVerification and submitVerification leave between a look at the  *)
(* open requests and the write that relies on it.                          *)
(***************************************************************************)
THEOREM OneRequestWaits == Spec /\ []RequestsApart => []OnePendingRequest
<1>1. AskInv => OnePendingRequest
  BY DEF AskInv
<1>2. Typed /\ AskInv /\ RequestsApart /\ [Next]_vars => AskInv'
  BY AskNext
<1>. QED
  BY <1>1, <1>2, InitTyped, NextTyped, InitAsks, PTL DEF Spec

(***************************************************************************)
(* While those windows stay apart, a request for documents that was        *)
(* answered or closed out stays so.                                        *)
(***************************************************************************)
THEOREM SettledForGood == Spec /\ []RequestsApart => SettledStays
<1>1. Typed /\ AskInv /\ RequestsApart /\ [Next]_vars => AskInv'
  BY AskNext
<1>2. Typed /\ AskInv /\ RequestsApart /\ [Next]_vars
      => [\A v \in DOMAIN verifs : verifs[v] # "pending" => verifs'[v] = verifs[v]]_vars
  BY AskNext DEF Settled
<1>. QED
  BY <1>1, <1>2, InitTyped, NextTyped, InitAsks, PTL DEF Spec, SettledStays

\* One task at a time.
OneTask == \A q, r \in Req : q = r

\* The awaits of a handler from its read of the bill to its save.
Holding == {"resolve", "find", "saveVerif", "checkSend", "draft", "saveOffers", "saveBill"}

\* A task that runs alone holds the bill with all of its requests and cases; whoever
\* inserts a case does not hold them at all.
Whole(t) ==
  /\ t.op \in WithKin /\ t.pc \in Holding => t.kin = Kin
  /\ t.pc \in {"checkAccept", "checkSent", "number", "insertCase"} => t.op = "accept"

KinInv == \A r \in Req : Whole(req[r])

LEMMA KinMoves ==
  ASSUME OneTask, NEW r \in Req, Whole(req[r])'
  PROVE  KinInv'
<1>1. \A q \in Req : q = r
  BY DEF OneTask
<1>. QED
  BY <1>1 DEF KinInv

LEMMA KinStays ==
  ASSUME Typed, NEW r \in Req, ResolvePending(r) \/ SaveVerification(r)
  PROVE  Kin' = Kin
<1>1. verifs \in Seq(VerificationStatus) /\ Len(verifs) \in Nat
  BY LenProperties DEF Typed, TypeOK
<1>2. CASE ResolvePending(r)
  <2>1. /\ Resolved \in [1 .. Len(verifs) -> VerificationStatus]
    BY <1>1, ElementOfSeq, LenProperties DEF Resolved, VerificationStatus
  <2>2. Len(Resolved) = Len(verifs)
    BY <1>1, <2>1, LenProperties DEF Resolved
  <2>. QED
    BY <1>2, <2>2 DEF ResolvePending, Kin
<1>3. CASE SaveVerification(r)
  <2>1. Len(verifs') = Len(verifs)
    BY <1>1, <1>3, Overwrite DEF SaveVerification, VerificationStatus
  <2>. QED
    BY <1>3, <2>1 DEF SaveVerification, Kin
<1>. QED
  BY <1>2, <1>3

LEMMA KinStep ==
  ASSUME OneTask, Typed, KinInv, NEW r \in Req, Moves(r)
  PROVE  KinInv'
<1>0. req \in [Req -> Task] /\ req[r] \in Task /\ Whole(req[r])
  BY DEF Typed, TypeOK, KinInv
<1>a. ASSUME req'[r].pc \notin Holding, req'[r].pc \notin {"checkAccept", "checkSent", "number", "insertCase"}
      PROVE  Whole(req[r])'
  BY <1>a DEF Whole
<1>b. req'[r] = Idle => Whole(req[r])'
  BY <1>a DEF Idle, Holding
<1>c. ASSUME NEW p \in Holding, Goto(r, p), req[r].pc \in Holding, Kin' = Kin
      PROVE  Whole(req[r])'
  BY <1>0, <1>c, GotoKept DEF Whole, Kept, Holding
<1>1. CASE Request(r)
  <2>1. Asked(req'[r]) /\ UNCHANGED <<cases, verifs>>
    BY <1>1, RequestAsks
  <2>. QED
    BY <2>1, KinMoves DEF Asked, Whole, WithKin, Holding, Kin
<1>2. CASE ResolvePending(r)
  <2>1. CASE Goto(r, "saveBill")
    BY <1>2, <1>c, <2>1, KinStays, KinMoves DEF ResolvePending, At, Holding
  <2>2. CASE Goto(r, "insertVerif")
    BY <1>a, <2>2, GotoKept, KinMoves DEF Holding
  <2>. QED
    BY <1>2, <2>1, <2>2 DEF ResolvePending
<1>3. CASE InsertVerification(r) \/ SetRequired(r)
  BY <1>3, <1>a, <1>b, GotoKept, FinishFields, KinMoves DEF InsertVerification, SetRequired, Holding
<1>4. CASE FindPending(r)
  <2>1. CASE Finish(r)
    BY <1>b, <2>1, FinishFields, KinMoves
  <2>2. CASE ~Finish(r)
    <3>1. PICK v : req' = [req EXCEPT ![r].pc = "saveVerif", ![r].n = v]
      BY <1>4, <2>2 DEF FindPending
    <3>2. req'[r].pc = "saveVerif" /\ req'[r].op = req[r].op /\ req'[r].kin = req[r].kin
      BY <1>0, <3>1 DEF Task
    <3>3. req[r].pc = "find" /\ Kin' = Kin
      BY <1>4 DEF FindPending, At, Kin
    <3>. QED
      BY <1>0, <3>2, <3>3, KinMoves DEF Whole, Holding
  <2>. QED
    BY <2>1, <2>2
<1>5. CASE SaveVerification(r)
  BY <1>5, <1>c, KinStays, KinMoves DEF SaveVerification, At, Holding
<1>6. CASE CheckSend(r) \/ SaveOffers(r)
  <2>1. req[r].pc \in Holding /\ Kin' = Kin
    BY <1>6 DEF CheckSend, SaveOffers, At, Kin, Holding
  <2>2. Finish(r) \/ Goto(r, "draft") \/ Goto(r, "saveBill")
    BY <1>6 DEF CheckSend, SaveOffers
  <2>. QED
    BY <1>b, <1>c, <2>1, <2>2, FinishFields, KinMoves DEF Holding
<1>7. CASE DraftOffers(r)
  <2>1. req[r].pc = "draft" /\ Kin' = Kin
    BY <1>7 DEF DraftOffers, At, Kin
  <2>2. /\ req'[r].pc \in {"saveBill", "saveOffers"} /\ req'[r].op = req[r].op
        /\ req'[r].kin = req[r].kin
    BY <1>7, <1>0 DEF DraftOffers, Task
  <2>. QED
    BY <1>0, <2>1, <2>2, KinMoves DEF Whole, Holding
<1>8. CASE CheckAccept(r) \/ CheckProposed(r) \/ InsertCase(r)
  <2>1. req[r].op = "accept"
    BY <1>0, <1>8 DEF CheckAccept, CheckProposed, InsertCase, At, Whole
  <2>2. CASE Finish(r)
    BY <1>b, <2>2, FinishFields, KinMoves
  <2>3. CASE ~Finish(r)
    <3>1. PICK p \in {"checkSent", "number", "saveBill"} : Goto(r, p)
      BY <1>8, <2>3 DEF CheckAccept, CheckProposed, InsertCase
    <3>. QED
      BY <2>1, <3>1, GotoKept, KinMoves DEF Whole, Kept, WithKin
  <2>. QED
    BY <2>2, <2>3
<1>9. CASE DrawNumber(r)
  <2>1. req[r].op = "accept" /\ req'[r].op = req[r].op
    BY <1>0, <1>9 DEF DrawNumber, At, Whole, Task
  <2>. QED
    BY <2>1, KinMoves DEF Whole, WithKin
<1>10. CASE SaveBill(r) \/ SaveCase(r) \/ MirrorCase(r)
  <2>1. Goto(r, "readCase") \/ Goto(r, "extract") \/ Goto(r, "mirror") \/ Milestones(r)
    BY <1>10 DEF SaveBill, SaveCase, MirrorCase
  <2>. QED
    BY <1>a, <1>b, <2>1, GotoKept, Says, KinMoves DEF Holding
<1>11. CASE Extract(r)
  <2>1. req'[r].op = "ocr" /\ req'[r].pc = "saveBill"
    BY <1>0, <1>11 DEF Extract, Task
  <2>. QED
    BY <2>1, KinMoves DEF Whole, WithKin
<1>12. CASE ReadCase(r)
  <2>1. req'[r].pc = "saveCase"
    BY <1>0, <1>12 DEF ReadCase, Task
  <2>. QED
    BY <1>a, <2>1, KinMoves DEF Holding
<1>13. CASE Tells(r)
  BY <1>13, <1>a, <1>b, Told, KinMoves DEF Holding
<1>14. CASE SaveRejected(r) \/ Fail(r)
  BY <1>14, <1>b, Rejected, FinishFields, KinMoves DEF Fail
<1>. QED
  BY <1>1, <1>2, <1>3, <1>4, <1>5, <1>6, <1>7, <1>8, <1>9, <1>10, <1>11, <1>12, <1>13, <1>14
     DEF Moves, Continue, Tells

LEMMA InitKin == Init => KinInv
BY DEF Init, KinInv, Whole, Idle, Holding

LEMMA KinNext == ASSUME OneTask PROVE Typed /\ KinInv /\ [Next]_vars => KinInv'
<1>. SUFFICES ASSUME Typed, KinInv, [Next]_vars PROVE KinInv'
  OBVIOUS
<1>1. CASE UNCHANGED vars
  BY <1>1 DEF vars, KinInv, Whole, Kin
<1>. QED
  BY <1>1, KinStep DEF Next, Moves

\* So no save of its own is rejected.
LEMMA NoneRejected == ASSUME KinInv, NEW r \in Req PROVE ~SaveRejected(r)
BY DEF KinInv, Whole, Holding, SaveRejected, Orphaning, At

-----------------------------------------------------------------------------
(* A bill that waits for documents waits for some.                         *)

Waiting(t) ==
  /\ t.pc \in {"insertVerif", "setRequired"} => t.target = "verification_required"
  /\ t.pc = "setRequired" => Pending # {}
  /\ t.pc = "saveBill" /\ t.target = "verification_required" => Pending # {}
  /\ t.pc \in Aside \cup {"find", "saveVerif", "extract"} => t.target # "verification_required"

\* Between closing the requests that are open and storing what comes instead.
Excused(t) == t.pc = "insertVerif" \/ (t.pc = "saveBill" /\ t.target # "verification_required")

WaitInv ==
  /\ \A r \in Req : Waiting(req[r])
  /\ status = "verification_required" /\ Pending = {} => \E r \in Req : Excused(req[r])

\* A step that leaves both bill and requests for documents alone, by a task nothing hangs on.
LEMMA WaitKeeps ==
  ASSUME OneTask, Typed, WaitInv, NEW r \in Req, UNCHANGED <<bill, verifs>>,
         Waiting(req[r])', Excused(req[r]) => Excused(req[r])'
  PROVE  WaitInv'
<1>1. Pending' = Pending /\ status' = status
  BY DEF Pending, bill
<1>2. \A q \in Req : q = r
  BY DEF OneTask
<1>. QED
  BY <1>1, <1>2 DEF WaitInv

LEMMA WaitMoves ==
  ASSUME OneTask, Typed, NEW r \in Req, Waiting(req[r])',
         status' = "verification_required" /\ Pending' = {} => Excused(req[r])'
  PROVE  WaitInv'
<1>1. \A q \in Req : q = r
  BY DEF OneTask
<1>. QED
  BY <1>1 DEF WaitInv

LEMMA IdleWaits == ASSUME NEW r \in Req, req'[r] = Idle PROVE Waiting(req[r])'
BY DEF Waiting, Idle, Aside

LEMMA WaitRequest ==
  ASSUME OneTask, Typed, WaitInv, NEW r \in Req, Request(r)
  PROVE  WaitInv'
<1>1. req[r] = Idle /\ UNCHANGED <<bill, verifs>> /\ Asked(req'[r])
  BY RequestAsks
<1>2. ~Excused(req[r])
  BY <1>1 DEF Excused, Idle
<1>3. status = "verification_required" => Pending # {}
  BY <1>2 DEF WaitInv, OneTask
<1>4. Pending' = Pending
  BY <1>1 DEF Pending
<1>5. Waiting(req[r])'
  BY <1>1, <1>3, <1>4 DEF Asked, Waiting, Aside
<1>. QED
  BY <1>1, <1>2, <1>5, WaitKeeps

LEMMA WaitSaves ==
  ASSUME OneTask, Typed, WaitInv, NEW r \in Req, SaveBill(r)
  PROVE  WaitInv'
<1>0. req[r] \in Task /\ req[r].pc = "saveBill" /\ Waiting(req[r]) /\ Pending' = Pending
  BY DEF Typed, TypeOK, WaitInv, SaveBill, At, Pending
<1>1. status' = req[r].target
  <2>1. req[r].brow \in BillRow
    BY <1>0 DEF Task
  <2>2. [req[r].brow EXCEPT !.status = req[r].target].status = req[r].target
    BY <2>1 DEF BillRow
  <2>. QED
    BY <2>2 DEF SaveBill, StoreBill
<1>2. status' = "verification_required" => Pending' # {}
  BY <1>0, <1>1 DEF Waiting
<1>3. \/ Goto(r, "readCase")
      \/ Goto(r, "extract") /\ req[r].target = "analyzing"
      \/ Milestones(r)
  BY DEF SaveBill
<1>4. Waiting(req[r])'
  <2>1. CASE Goto(r, "readCase")
    BY <2>1, GotoKept DEF Waiting, Aside
  <2>2. CASE Goto(r, "extract") /\ req[r].target = "analyzing"
    BY <2>2, GotoKept DEF Waiting, Aside, Kept
  <2>3. CASE Milestones(r)
    <3>1. CASE req'[r] = Idle
      BY <3>1, IdleWaits
    <3>2. CASE req'[r].pc = "announce"
      BY <3>2 DEF Waiting, Aside
    <3>. QED
      BY <2>3, <3>1, <3>2, Says
  <2>. QED
    BY <1>3, <2>1, <2>2, <2>3
<1>. QED
  BY <1>2, <1>4, WaitMoves

\* A task that dies does not do so while a bill owes its documents to what it has yet to do.
SparesAnswers == \A r \in Req : Fail(r) => ~Excused(req[r])

LEMMA WaitStep ==
  ASSUME OneTask, SparesAnswers, Typed, KinInv, WaitInv, NEW r \in Req, Moves(r)
  PROVE  WaitInv'
<1>0. req \in [Req -> Task] /\ req[r] \in Task /\ Waiting(req[r])
  BY DEF Typed, TypeOK, WaitInv
<1>a. status = "verification_required" /\ Pending = {} => Excused(req[r])
  BY DEF WaitInv, OneTask
<1>1. CASE Request(r)
  BY <1>1, WaitRequest
<1>2. CASE Prepares(r)
  <2>1. ~Excused(req[r]) /\ req[r].target # "verification_required"
    BY <1>0, <1>2, Prepared DEF Excused, Aside, Waiting
  <2>2. Waiting(req[r])'
    <3>1. CASE req'[r] = Idle
      BY <3>1, IdleWaits
    <3>2. CASE req'[r].pc \in Aside \cup {"saveBill"} /\ req'[r].target = req[r].target
      BY <2>1, <3>2 DEF Waiting, Aside
    <3>. QED
      BY <1>2, <3>1, <3>2, Prepared
  <2>. QED
    BY <2>1, <2>2, <1>2, Prepared, WaitKeeps
<1>3. CASE Tells(r)
  <2>1. ~Excused(req[r])
    BY <1>3, Told DEF Excused
  <2>2. Waiting(req[r])'
    <3>1. CASE req'[r] = Idle
      BY <3>1, IdleWaits
    <3>2. CASE req'[r].pc = "push"
      BY <3>2 DEF Waiting, Aside
    <3>. QED
      BY <1>3, <3>1, <3>2, Told
  <2>. QED
    BY <2>1, <2>2, <1>3, Told, WaitKeeps
<1>4. CASE ResolvePending(r)
  <2>1. req'[r].target = req[r].target
    BY <1>4, GotoKept DEF ResolvePending, Kept
  <2>2. req'[r].pc = IF req[r].target = "verification_required" THEN "insertVerif" ELSE "saveBill"
    BY <1>4, GotoKept DEF ResolvePending
  <2>3. Waiting(req[r])' /\ Excused(req[r])'
    BY <2>1, <2>2 DEF Waiting, Excused, Aside
  <2>. QED
    BY <2>3, WaitMoves
<1>5. CASE InsertVerification(r)
  <2>1. Pending' # {}
    BY <1>5, AfterInsert DEF InsertVerification
  <2>2. req'[r].pc = "setRequired" /\ req'[r].target = req[r].target /\ req[r].pc = "insertVerif"
    BY <1>5, GotoKept DEF InsertVerification, Kept, At
  <2>3. Waiting(req[r])'
    BY <1>0, <2>1, <2>2 DEF Waiting, Aside
  <2>. QED
    BY <2>1, <2>3, WaitMoves
<1>6. CASE SetRequired(r)
  <2>1. Pending' = Pending /\ Pending # {}
    BY <1>6, <1>0 DEF SetRequired, At, Waiting, Pending
  <2>2. Waiting(req[r])'
    <3>1. CASE Finish(r)
      BY <3>1, FinishFields, IdleWaits
    <3>2. CASE Goto(r, "readCase")
      BY <3>2, GotoKept DEF Waiting, Aside
    <3>. QED
      BY <1>6, <3>1, <3>2 DEF SetRequired
  <2>. QED
    BY <2>1, <2>2, WaitMoves
<1>7. CASE FindPending(r)
  <2>1. UNCHANGED <<bill, verifs>> /\ ~Excused(req[r]) /\ req[r].target # "verification_required"
    BY <1>0, <1>7 DEF FindPending, At, Excused, Waiting
  <2>2. CASE Finish(r)
    BY <2>1, <2>2, FinishFields, IdleWaits, WaitKeeps
  <2>3. CASE ~Finish(r)
    <3>1. PICK v \in Pending : req' = [req EXCEPT ![r].pc = "saveVerif", ![r].n = v]
      BY <1>7, <2>3 DEF FindPending
    <3>2. req'[r].pc = "saveVerif" /\ req'[r].target = req[r].target
      BY <1>0, <3>1 DEF Task
    <3>3. Waiting(req[r])'
      BY <2>1, <3>2 DEF Waiting, Aside
    <3>. QED
      BY <2>1, <3>3, WaitKeeps
  <2>. QED
    BY <2>2, <2>3
<1>8. CASE SaveVerification(r)
  <2>1. req[r].target # "verification_required"
    BY <1>0, <1>8 DEF SaveVerification, At, Waiting
  <2>2. req'[r].pc = "saveBill" /\ req'[r].target = req[r].target
    BY <1>8, GotoKept DEF SaveVerification, Kept
  <2>3. Waiting(req[r])' /\ Excused(req[r])'
    BY <2>1, <2>2 DEF Waiting, Excused, Aside
  <2>. QED
    BY <2>3, WaitMoves
<1>9. CASE SaveBill(r)
  BY <1>9, WaitSaves
<1>10. CASE Extract(r)
  <2>1. UNCHANGED <<bill, verifs>>
    BY <1>10 DEF Extract
  <2>2. req'[r].pc = "saveBill" /\ req'[r].target = "verification_review"
    BY <1>10, <1>0 DEF Extract, Task
  <2>3. Waiting(req[r])' /\ Excused(req[r])'
    BY <2>2 DEF Waiting, Excused, Aside
  <2>. QED
    BY <2>1, <2>3, WaitKeeps
<1>11. CASE ReadCase(r)
  <2>1. req'[r].pc = "saveCase"
    BY <1>11, <1>0 DEF ReadCase, Task
  <2>2. Waiting(req[r])' /\ ~Excused(req[r])
    BY <1>11, <2>1 DEF ReadCase, At, Waiting, Excused, Aside
  <2>. QED
    BY <2>2, <1>11, WaitKeeps DEF ReadCase
<1>12. CASE SaveCase(r) \/ MirrorCase(r)
  <2>1. UNCHANGED <<bill, verifs>> /\ ~Excused(req[r]) /\ (Milestones(r) \/ Goto(r, "mirror"))
    BY <1>12 DEF SaveCase, MirrorCase, At, Excused
  <2>2. Waiting(req[r])'
    <3>1. CASE req'[r] = Idle
      BY <3>1, IdleWaits
    <3>2. CASE req'[r].pc \in {"announce", "mirror"}
      BY <3>2 DEF Waiting, Aside
    <3>. QED
      BY <2>1, <3>1, <3>2, GotoKept, Says
  <2>. QED
    BY <2>1, <2>2, WaitKeeps
<1>13. CASE Fail(r)
  <2>1. UNCHANGED <<bill, verifs>> /\ ~Excused(req[r]) /\ Waiting(req[r])'
    BY <1>13, FinishFields, IdleWaits DEF Fail, SparesAnswers
  <2>. QED
    BY <2>1, WaitKeeps
<1>. QED
  BY <1>1, <1>2, <1>3, <1>4, <1>5, <1>6, <1>7, <1>8, <1>9, <1>10, <1>11, <1>12, <1>13, NoneRejected
     DEF Moves, Continue, Prepares, Tells

LEMMA InitWaits == Init => WaitInv
BY DEF Init, WaitInv, Uploaded, Waiting, Idle, Aside

LEMMA WaitNext ==
  ASSUME OneTask
  PROVE  Typed /\ KinInv /\ WaitInv /\ [Next]_vars /\ [SparesAnswers]_vars => WaitInv'
<1>. SUFFICES ASSUME Typed, KinInv, WaitInv, [Next]_vars, [SparesAnswers]_vars PROVE WaitInv'
  OBVIOUS
<1>1. CASE UNCHANGED vars
  BY <1>1 DEF vars, bill, WaitInv, Waiting, Excused, Pending
<1>. QED
  BY <1>1, WaitStep DEF Next, Moves

(***************************************************************************)
(* As long as tasks do not overlap, a bill that waits for documents has a  *)
(* request the customer can answer, wherever tasks die but in one place:   *)
(* after the open requests were closed or answered, and before the new     *)
(* request or the new status of the bill is stored.                        *)
(***************************************************************************)
THEOREM AskedUnlessCut ==
  ASSUME OneTask PROVE Spec /\ [][SparesAnswers]_vars => []RequiredHasPending
<1>1. WaitInv => RequiredHasPending
  BY DEF WaitInv, RequiredHasPending, Quiet, Excused, Idle
<1>2. Typed /\ KinInv /\ WaitInv /\ [Next]_vars /\ [SparesAnswers]_vars => WaitInv'
  BY WaitNext
<1>3. Typed /\ KinInv /\ [Next]_vars => KinInv'
  BY KinNext
<1>. QED
  BY <1>1, <1>2, <1>3, InitTyped, NextTyped, InitKin, InitWaits, PTL DEF Spec

(***************************************************************************)
(* As long as tasks do not overlap and none dies, a bill that waits for    *)
(* documents has a request the customer can answer.                        *)
(***************************************************************************)
THEOREM RequiredIsAsked == ASSUME OneTask, ~MayFail PROVE Spec => []RequiredHasPending
<1>1. [SparesAnswers]_vars
  BY DEF SparesAnswers, Fail
<1>2. Spec /\ [][SparesAnswers]_vars => []RequiredHasPending
  BY AskedUnlessCut
<1>. QED
  BY <1>1, <1>2, PTL

-----------------------------------------------------------------------------
(* The case follows the bill. *)

\* The awaits of a transition until its case is mirrored.
Under == {"resolve", "insertVerif", "setRequired", "saveBill", "readCase", "saveCase", "mirror"}

\* Whose awaits these are.
Placing(t) ==
  /\ t.op \notin {"transition", "edit"} => t.case = 0
  /\ t.op = "transition" => t.pc \in Under \cup {"announce", "push"}
  /\ t.op = "edit" => t.pc \in {"saveCase", "announce", "push"}
  /\ t.pc \in {"insertVerif", "setRequired"} => t.target = "verification_required"

\* A transition works on the newest case, and knows what it is to become.
Following(t) ==
  /\ t.op = "transition" /\ t.pc \in Under =>
       /\ t.case = Len(cases)
       /\ t.case # 0 => t.mirror = MirrorOf(t.target, cases[t.case].status)
  /\ t.op = "transition" /\ t.pc \in {"readCase", "saveCase", "mirror"} => status = t.target
  /\ t.op = "transition" /\ t.pc = "saveCase" => t.crow.status = cases[t.case].status

\* The newest case shows the bill's status, if it has one for it.
Mirrored == cases # <<>> /\ CaseStatusOf(status) # None => cases[Len(cases)].status = CaseStatusOf(status)

FollowInv ==
  \A r \in Req :
    /\ Placing(req[r]) /\ Following(req[r])
    /\ req[r].op = "transition" /\ req[r].pc \in {"announce", "push"} => Mirrored

LEMMA FollowMoves ==
  ASSUME OneTask, Typed, NEW r \in Req, Placing(req[r])', Following(req[r])',
         req'[r].op = "transition" /\ req'[r].pc \in {"announce", "push"} => Mirrored'
  PROVE  FollowInv'
<1>1. \A q \in Req : q = r
  BY DEF OneTask
<1>. QED
  BY <1>1 DEF FollowInv

LEMMA IdleFollows == ASSUME NEW t, t = Idle PROVE Placing(t) /\ Following(t) /\ t.op = None
BY DEF Placing, Following, Idle, None

\* A task that dies where its case is not yet what it is to be.
CutShort(r) ==
  /\ Fail(r)
  /\ req[r].pc \in Under
  /\ req[r].pc = "mirror" => req[r].mirror # None

Follows(r) ==
  FollowInv' /\ (req[r].op = "transition" /\ req'[r] = Idle /\ ~CutShort(r) => Mirrored')

LEMMA FollowEnds ==
  ASSUME OneTask, Typed, NEW r \in Req, req'[r] = Idle,
         req[r].op = "transition" /\ ~CutShort(r) => Mirrored'
  PROVE  Follows(r)
<1>1. Placing(req[r])' /\ Following(req[r])'
  BY DEF Placing, Following, Idle, None
<1>2. req'[r].op # "transition"
  BY DEF Idle, None
<1>. QED
  BY <1>1, <1>2, FollowMoves DEF Follows

\* The handlers that follow no case.
LEMMA FollowOthers ==
  ASSUME OneTask, Typed, FollowInv, NEW r \in Req, req[r].op \notin {"transition", "edit"},
         \/ req'[r] = Idle
         \/ /\ req'[r].op = req[r].op /\ req'[r].case = req[r].case
            /\ \/ req'[r].pc \notin {"insertVerif", "setRequired"}
               \/ req'[r].target = "verification_required"
  PROVE  Follows(r)
<1>1. CASE req'[r] = Idle
  BY <1>1, FollowEnds
<1>2. CASE req'[r] # Idle
  <2>1. Placing(req[r]) /\ req'[r].op \notin {"transition", "edit"}
    BY <1>2 DEF FollowInv
  <2>2. Placing(req[r])' /\ Following(req[r])'
    BY <1>2, <2>1 DEF Placing, Following
  <2>. QED
    BY <2>1, <2>2, FollowMoves DEF Follows
<1>. QED
  BY <1>1, <1>2

\* A case is there, and whoever uses it is a transition or an edit.
LEMMA CaseIs ==
  ASSUME Typed, FollowInv, NEW r \in Req, req[r].pc \in {"readCase", "saveCase", "mirror"}
  PROVE  /\ req[r].case \in DOMAIN cases /\ cases[req[r].case] \in CaseRow
         /\ req[r].op \in {"transition", "edit"}
         /\ req[r].op = "edit" => req[r].pc = "saveCase"
<1>1. cases \in Seq(CaseRow) /\ req[r] \in Task
  BY DEF Typed, TypeOK
<1>2. req[r].case \in Nat /\ req[r].case # 0 /\ req[r].case <= Len(cases)
  BY <1>1 DEF Task, Typed, Placed
<1>3. req[r].case \in 1 .. Len(cases) /\ DOMAIN cases = 1 .. Len(cases)
  BY <1>1, <1>2, LenProperties
<1>4. cases[req[r].case] \in CaseRow
  BY <1>1, <1>3, ElementOfSeq
<1>5. Placing(req[r])
  BY DEF FollowInv
<1>. QED
  BY <1>2, <1>3, <1>4, <1>5 DEF Placing

\* Where a transition ends, the case is as it should be.
LEMMA FollowMilestones ==
  ASSUME OneTask, Typed, FollowInv, NEW r \in Req, Milestones(r),
         req[r].pc # "insertVerif" /\ req[r].pc # "setRequired",
         req[r].op = "transition" => Mirrored'
  PROVE  Follows(r)
<1>1. CASE req'[r] = Idle
  BY <1>1, FollowEnds
<1>2. CASE req'[r].pc = "announce" /\ Kept(req'[r], req[r])
  <2>1. Placing(req[r])
    BY DEF FollowInv
  <2>2. Placing(req[r])' /\ Following(req[r])'
    BY <1>2, <2>1 DEF Placing, Following, Kept, Under
  <2>3. req'[r] # Idle /\ (req'[r].op = "transition" => Mirrored')
    BY <1>2 DEF Kept, Idle
  <2>. QED
    BY <2>2, <2>3, FollowMoves DEF Follows
<1>. QED
  BY <1>1, <1>2, Says

LEMMA FollowRequest ==
  ASSUME OneTask, Typed, FollowInv, NEW r \in Req, Request(r)
  PROVE  Follows(r)
<1>1. req[r] = Idle /\ UNCHANGED <<bill, cases, verifs, news>> /\ Asked(req'[r])
  BY RequestAsks
<1>2. req[r].op # "transition"
  BY <1>1 DEF Idle, None
<1>3. Placing(req[r])' /\ Following(req[r])'
  BY <1>1 DEF Asked, Placing, Following, Under
<1>4. ~(req'[r].op = "transition" /\ req'[r].pc \in {"announce", "push"})
  BY <1>1 DEF Asked
<1>. QED
  BY <1>2, <1>3, <1>4, FollowMoves DEF Follows

\* A step of a transition on its way to the case, which leaves all cases alone.
LEMMA FollowOn ==
  ASSUME OneTask, Typed, FollowInv, NEW r \in Req, NEW p, Goto(r, p), UNCHANGED cases,
         req[r].op = "transition", req[r].pc \in Under,
         p \in {"saveBill", "insertVerif", "setRequired", "readCase"},
         p \in {"insertVerif", "setRequired"} => req[r].target = "verification_required",
         p = "readCase" => status' = req[r].target
  PROVE  Follows(r)
<1>1. req'[r].pc = p /\ Kept(req'[r], req[r])
  BY GotoKept
<1>2. Placing(req[r]) /\ Following(req[r])
  BY DEF FollowInv
<1>3. Placing(req[r])'
  BY <1>1, <1>2 DEF Placing, Kept, Under
<1>4. Following(req[r])'
  BY <1>1, <1>2 DEF Following, Kept, Under
<1>5. req'[r] # Idle /\ req'[r].pc \notin {"announce", "push"}
  BY <1>1 DEF Idle
<1>. QED
  BY <1>3, <1>4, <1>5, FollowMoves DEF Follows

LEMMA FollowSaves ==
  ASSUME OneTask, Typed, FollowInv, NEW r \in Req, SaveBill(r)
  PROVE  Follows(r)
<1>0. /\ req[r] \in Task /\ req[r].pc = "saveBill" /\ UNCHANGED cases
      /\ Placing(req[r]) /\ Following(req[r]) /\ Len(cases) \in Nat
  BY LenProperties DEF Typed, TypeOK, FollowInv, SaveBill, At
<1>1. status' = req[r].target
  <2>1. req[r].brow \in BillRow
    BY <1>0 DEF Task
  <2>2. [req[r].brow EXCEPT !.status = req[r].target].status = req[r].target
    BY <2>1 DEF BillRow
  <2>. QED
    BY <2>2 DEF SaveBill, StoreBill
<1>2. CASE req[r].op = "transition" /\ req[r].case # 0
  <2>1. Goto(r, "readCase") /\ req[r].pc \in Under
    BY <1>0, <1>2 DEF SaveBill, Under
  <2>. QED
    BY <1>0, <1>1, <1>2, <2>1, FollowOn
<1>3. CASE req[r].op = "transition" /\ req[r].case = 0
  <2>1. cases = <<>>
    <3>1. Len(cases) = 0
      BY <1>0, <1>3 DEF Following, Under
    <3>. QED
      BY <3>1, EmptySeq DEF Typed, TypeOK
  <2>2. Mirrored' /\ Milestones(r)
    BY <1>0, <1>3, <2>1 DEF Mirrored, SaveBill
  <2>. QED
    BY <1>0, <2>2, FollowMilestones
<1>4. CASE req[r].op # "transition"
  <2>1. req[r].op # "edit" /\ req[r].case = 0
    BY <1>0, <1>4 DEF Placing
  <2>2. Goto(r, "extract") \/ Milestones(r)
    BY <2>1 DEF SaveBill
  <2>. QED
    BY <1>4, <2>1, <2>2, GotoKept, Says, FollowOthers DEF Kept
<1>. QED
  BY <1>2, <1>3, <1>4

LEMMA FollowReads ==
  ASSUME OneTask, Typed, FollowInv, NEW r \in Req, ReadCase(r)
  PROVE  Follows(r)
<1>0. /\ req \in [Req -> Task] /\ req[r] \in Task /\ req[r].pc = "readCase" /\ UNCHANGED <<bill, cases>>
      /\ Placing(req[r]) /\ Following(req[r])
  BY DEF Typed, TypeOK, FollowInv, ReadCase, At
<1>1. req[r].op = "transition" /\ cases[req[r].case] \in CaseRow
  BY <1>0, CaseIs
<1>2. PICK row : row = ActivationAfter(req[r].target, cases[req[r].case], req[r].act, req[r].exp)
  OBVIOUS
<1>3. row.status = cases[req[r].case].status
  BY <1>1, <1>2 DEF ActivationAfter, CaseRow
<1>4. /\ req'[r].pc = "saveCase" /\ req'[r].crow = row /\ req'[r].op = req[r].op
      /\ req'[r].case = req[r].case /\ req'[r].target = req[r].target
      /\ req'[r].mirror = req[r].mirror
  BY <1>0, <1>2 DEF ReadCase, Task
<1>5. Placing(req[r])' /\ Following(req[r])'
  BY <1>0, <1>1, <1>3, <1>4 DEF Placing, Following, Under, bill
<1>6. req'[r] # Idle
  BY <1>4 DEF Idle
<1>. QED
  BY <1>4, <1>5, <1>6, FollowMoves DEF Follows

\* Saving a case, of which the status is none other.
LEMMA CaseStored ==
  ASSUME Typed, NEW c \in DOMAIN cases, NEW row, StoreCase(c, row)
  PROVE  /\ DOMAIN cases' = DOMAIN cases /\ Len(cases') = Len(cases)
         /\ cases'[c] = row /\ \A d \in DOMAIN cases \ {c} : cases'[d] = cases[d]
BY DEF StoreCase, Typed, TypeOK

LEMMA FollowSavesCase ==
  ASSUME OneTask, Typed, FollowInv, NEW r \in Req, SaveCase(r)
  PROVE  Follows(r)
<1>0. /\ req[r] \in Task /\ req[r].pc = "saveCase" /\ UNCHANGED bill
      /\ Placing(req[r]) /\ Following(req[r])
  BY DEF Typed, TypeOK, FollowInv, SaveCase, At
<1>1. req[r].case \in DOMAIN cases /\ req[r].op \in {"transition", "edit"}
  BY <1>0, CaseIs
<1>2. CASE req[r].op = "edit"
  BY <1>0, <1>2, FollowMilestones DEF SaveCase
<1>3. CASE req[r].op = "transition"
  <2>1. req'[r].pc = "mirror" /\ Kept(req'[r], req[r])
    BY <1>3, GotoKept DEF SaveCase
  <2>2. Len(cases') = Len(cases) /\ cases'[req[r].case] = req[r].crow
    BY <1>1, CaseStored DEF SaveCase
  <2>3. Placing(req[r])' /\ Following(req[r])'
    BY <1>0, <1>3, <2>1, <2>2 DEF Placing, Following, Under, Kept, bill
  <2>4. req'[r] # Idle
    BY <2>1 DEF Idle
  <2>. QED
    BY <2>1, <2>3, <2>4, FollowMoves DEF Follows
<1>. QED
  BY <1>1, <1>2, <1>3

LEMMA FollowMirrors ==
  ASSUME OneTask, Typed, FollowInv, NEW r \in Req, MirrorCase(r)
  PROVE  Follows(r)
<1>0. /\ req[r] \in Task /\ req[r].pc = "mirror" /\ UNCHANGED bill /\ Milestones(r)
      /\ Placing(req[r]) /\ Following(req[r])
  BY DEF Typed, TypeOK, FollowInv, MirrorCase, At
<1>1. /\ req[r].case \in DOMAIN cases /\ cases[req[r].case] \in CaseRow
      /\ req[r].op = "transition" /\ req[r].case # 0
  BY <1>0, CaseIs DEF Typed, Placed
<1>2. /\ req[r].case = Len(cases) /\ status' = req[r].target
      /\ req[r].mirror = MirrorOf(req[r].target, cases[req[r].case].status)
  BY <1>0, <1>1 DEF Following, Under, bill
<1>3. CASE req[r].mirror = None
  <2>1. UNCHANGED cases
    BY <1>3, <1>0 DEF MirrorCase
  <2>2. CaseStatusOf(req[r].target) \in {None, cases[req[r].case].status}
    BY <1>2, <1>3 DEF MirrorOf
  <2>3. Mirrored'
    BY <1>2, <2>1, <2>2 DEF Mirrored
  <2>. QED
    BY <2>3, <1>0, FollowMilestones
<1>4. CASE req[r].mirror # None
  <2>1. StoreCase(req[r].case, [cases[req[r].case] EXCEPT !.status = req[r].mirror])
    BY <1>4, <1>0 DEF MirrorCase
  <2>2. [cases[req[r].case] EXCEPT !.status = req[r].mirror].status = req[r].mirror
    BY <1>1 DEF CaseRow
  <2>3. Len(cases') = Len(cases) /\ cases'[req[r].case].status = req[r].mirror
    <3>1. PICK row : row = [cases[req[r].case] EXCEPT !.status = req[r].mirror]
      OBVIOUS
    <3>2. StoreCase(req[r].case, row) /\ row.status = req[r].mirror
      BY <2>1, <2>2, <3>1
    <3>. QED
      BY <1>1, <3>2, CaseStored
  <2>4. req[r].mirror = CaseStatusOf(req[r].target)
    BY <1>2, <1>4 DEF MirrorOf
  <2>5. Mirrored'
    BY <1>2, <2>3, <2>4 DEF Mirrored
  <2>. QED
    BY <2>5, <1>0, FollowMilestones
<1>. QED
  BY <1>3, <1>4

\* A task that dies leaves the case as it found it.
LEMMA FollowFails ==
  ASSUME OneTask, Typed, FollowInv, NEW r \in Req, Fail(r)
  PROVE  Follows(r)
<1>0. req'[r] = Idle /\ UNCHANGED <<bill, cases>> /\ req[r] \in Task
  BY FinishFields DEF Fail, Typed, TypeOK
<1>1. ASSUME req[r].op = "transition", ~CutShort(r) PROVE Mirrored'
  <2>0. Placing(req[r]) /\ Following(req[r]) /\ Mirrored' = Mirrored
    BY <1>0 DEF FollowInv, Mirrored, bill
  <2>1. CASE req[r].pc \in {"announce", "push"}
    BY <2>0, <2>1, <1>1 DEF FollowInv
  <2>2. CASE req[r].pc = "mirror" /\ req[r].mirror = None
    <3>1. req[r].case = Len(cases) /\ req[r].case # 0 /\ status = req[r].target
      BY <1>1, <2>0, <2>2, CaseIs DEF Following, Under, Typed, Placed
    <3>2. CaseStatusOf(status) \in {None, cases[Len(cases)].status}
      BY <1>1, <2>0, <2>2, <3>1 DEF Following, MirrorOf, Under
    <3>. QED
      BY <2>0, <3>2 DEF Mirrored
  <2>. QED
    BY <1>1, <2>0, <2>1, <2>2 DEF CutShort, Placing
<1>. QED
  BY <1>0, <1>1, FollowEnds

LEMMA FollowStep ==
  ASSUME OneTask, Typed, KinInv, FollowInv, NEW r \in Req, Moves(r)
  PROVE  Follows(r)
<1>0. /\ req \in [Req -> Task] /\ req[r] \in Task /\ Placing(req[r]) /\ Following(req[r])
      /\ req[r].op = "transition" /\ req[r].pc \in {"announce", "push"} => Mirrored
  BY DEF Typed, TypeOK, FollowInv
<1>1. CASE Request(r)
  BY <1>1, FollowRequest
<1>2. CASE Prepares(r)
  <2>1. req[r].op \notin {"transition", "edit"}
    BY <1>0, <1>2, Prepared DEF Placing, Aside, Under
  <2>2. \/ req'[r] = Idle
        \/ /\ req'[r].op = req[r].op /\ req'[r].case = req[r].case
           /\ req'[r].pc \notin {"insertVerif", "setRequired"}
    BY <1>2, Prepared DEF Aside
  <2>. QED
    BY <2>1, <2>2, FollowOthers
<1>3. CASE Tells(r)
  <2>1. req[r].op = "transition" => Mirrored'
    BY <1>0, <1>3, Told DEF Mirrored, bill
  <2>2. CASE req'[r] = Idle
    BY <2>1, <2>2, FollowEnds
  <2>3. CASE req'[r].pc = "push" /\ Kept(req'[r], req[r])
    <3>1. Placing(req[r])' /\ Following(req[r])'
      BY <1>0, <2>3 DEF Placing, Following, Kept, Under
    <3>2. req'[r] # Idle /\ (req'[r].op = "transition" => Mirrored')
      BY <2>1, <2>3 DEF Kept, Idle
    <3>. QED
      BY <3>1, <3>2, FollowMoves DEF Follows
  <2>. QED
    BY <2>2, <2>3, <1>3, Told
<1>4. CASE ResolvePending(r)
  <2>1. PICK p : p = IF req[r].target = "verification_required" THEN "insertVerif" ELSE "saveBill"
    OBVIOUS
  <2>2. Goto(r, p) /\ UNCHANGED cases /\ req[r].pc = "resolve"
    BY <1>4, <2>1 DEF ResolvePending, At
  <2>3. CASE req[r].op = "transition"
    BY <2>1, <2>2, <2>3, FollowOn DEF Under
  <2>4. CASE req[r].op # "transition"
    <3>1. req[r].op # "edit" /\ req'[r].pc = p /\ Kept(req'[r], req[r])
      BY <1>0, <2>2, <2>4, GotoKept DEF Placing
    <3>. QED
      BY <2>1, <2>4, <3>1, FollowOthers DEF Kept
  <2>. QED
    BY <2>3, <2>4
<1>5. CASE InsertVerification(r)
  <2>1. Goto(r, "setRequired") /\ UNCHANGED cases /\ req[r].pc = "insertVerif"
    BY <1>5 DEF InsertVerification, At
  <2>2. req[r].target = "verification_required"
    BY <1>0, <2>1 DEF Placing
  <2>3. CASE req[r].op = "transition"
    BY <2>1, <2>2, <2>3, FollowOn DEF Under
  <2>4. CASE req[r].op # "transition"
    <3>1. req[r].op # "edit" /\ req'[r].pc = "setRequired" /\ Kept(req'[r], req[r])
      BY <1>0, <2>1, <2>4, GotoKept DEF Placing
    <3>. QED
      BY <2>2, <2>4, <3>1, FollowOthers DEF Kept
  <2>. QED
    BY <2>3, <2>4
<1>6. CASE SetRequired(r)
  <2>1. UNCHANGED cases /\ req[r].pc = "setRequired" /\ req[r].op # "edit"
    BY <1>0, <1>6 DEF SetRequired, At, Placing
  <2>2. status' = req[r].target
    BY <1>0, <1>6, <2>1 DEF SetRequired, StoreBill, BillNow, Placing
  <2>3. CASE req[r].op = "transition" /\ req[r].case # 0
    BY <1>6, <2>1, <2>2, <2>3, FollowOn DEF SetRequired, Under
  <2>4. CASE req[r].op = "transition" /\ req[r].case = 0
    <3>1. cases = <<>>
      <4>1. Len(cases) = 0
        BY <1>0, <2>1, <2>4 DEF Following, Under
      <4>. QED
        BY <4>1, EmptySeq DEF Typed, TypeOK
    <3>2. Mirrored' /\ req'[r] = Idle
      BY <1>6, <2>1, <2>4, <3>1, FinishFields DEF Mirrored, SetRequired
    <3>. QED
      BY <3>2, FollowEnds
  <2>5. CASE req[r].op # "transition"
    <3>1. req[r].case = 0
      BY <1>0, <2>1, <2>5 DEF Placing
    <3>2. req'[r] = Idle
      BY <1>6, <3>1, FinishFields DEF SetRequired
    <3>. QED
      BY <2>5, <3>2, FollowEnds
  <2>. QED
    BY <2>3, <2>4, <2>5
<1>7. CASE FindPending(r)
  <2>1. req[r].op \notin {"transition", "edit"}
    BY <1>0, <1>7 DEF FindPending, At, Placing, Under
  <2>2. CASE Finish(r)
    BY <2>1, <2>2, FinishFields, FollowOthers
  <2>3. CASE ~Finish(r)
    <3>1. PICK v \in Pending : req' = [req EXCEPT ![r].pc = "saveVerif", ![r].n = v]
      BY <1>7, <2>3 DEF FindPending
    <3>2. req'[r].pc = "saveVerif" /\ req'[r].op = req[r].op /\ req'[r].case = req[r].case
      BY <1>0, <3>1 DEF Task
    <3>. QED
      BY <2>1, <3>2, FollowOthers
  <2>. QED
    BY <2>2, <2>3
<1>8. CASE SaveVerification(r)
  <2>1. req[r].op \notin {"transition", "edit"}
    BY <1>0, <1>8 DEF SaveVerification, At, Placing, Under
  <2>2. req'[r].pc = "saveBill" /\ Kept(req'[r], req[r])
    BY <1>8, GotoKept DEF SaveVerification
  <2>. QED
    BY <2>1, <2>2, FollowOthers DEF Kept
<1>9. CASE SaveBill(r)
  BY <1>9, FollowSaves
<1>10. CASE Extract(r)
  <2>1. req'[r].pc = "saveBill" /\ req'[r].op = req[r].op /\ req'[r].case = req[r].case
    BY <1>10, <1>0 DEF Extract, Task
  <2>2. req[r].op = "ocr"
    BY <1>10 DEF Extract
  <2>. QED
    BY <2>1, <2>2, FollowOthers
<1>11. CASE ReadCase(r)
  BY <1>11, FollowReads
<1>12. CASE SaveCase(r)
  BY <1>12, FollowSavesCase
<1>13. CASE MirrorCase(r)
  BY <1>13, FollowMirrors
<1>14. CASE Fail(r)
  BY <1>14, FollowFails
<1>. QED
  BY <1>1, <1>2, <1>3, <1>4, <1>5, <1>6, <1>7, <1>8, <1>9, <1>10, <1>11, <1>12, <1>13, <1>14, NoneRejected
     DEF Moves, Continue, Prepares, Tells

LEMMA InitFollows == Init => FollowInv
BY IdleFollows DEF Init, FollowInv, None

Mirrors ==
  \A r \in Req :
    /\ req[r].op = "transition" /\ req'[r] = Idle /\ ~CutShort(r)
    /\ cases' # <<>> /\ CaseStatusOf(status') # None
    => cases'[Len(cases')].status = CaseStatusOf(status')

\* TransitionMirrors where tasks die.
CompletedMirrors == [][Mirrors]_vars

LEMMA FollowNext ==
  ASSUME OneTask
  PROVE  Typed /\ KinInv /\ FollowInv /\ [Next]_vars => FollowInv' /\ [Mirrors]_vars
<1>. SUFFICES ASSUME Typed, KinInv, FollowInv, [Next]_vars PROVE FollowInv' /\ [Mirrors]_vars
  OBVIOUS
<1>1. CASE UNCHANGED vars
  BY <1>1 DEF vars, bill, FollowInv, Placing, Following, Mirrored
<1>2. ASSUME NEW r \in Req, Moves(r) PROVE FollowInv' /\ Mirrors
  <2>1. FollowInv' /\ (req[r].op = "transition" /\ req'[r] = Idle /\ ~CutShort(r) => Mirrored')
    BY <1>2, FollowStep DEF Follows
  <2>2. \A q \in Req : q = r
    BY DEF OneTask
  <2>. QED
    BY <2>1, <2>2 DEF Mirrors, Mirrored
<1>. QED
  BY <1>1, <1>2 DEF Next, Moves

(***************************************************************************)
(* As long as tasks do not overlap, a transition leaves the newest case in *)
(* the status the bill is mirrored onto, wherever other tasks died before  *)
(* it and unless it dies itself before that status is stored: what one     *)
(* task left half done, the next transition makes good.                    *)
(***************************************************************************)
THEOREM CaseFollowsUnlessCut == ASSUME OneTask PROVE Spec => CompletedMirrors
<1>1. Typed /\ KinInv /\ FollowInv /\ [Next]_vars => FollowInv' /\ [Mirrors]_vars
  BY FollowNext
<1>2. Typed /\ KinInv /\ [Next]_vars => KinInv'
  BY KinNext
<1>. QED
  BY <1>1, <1>2, InitTyped, NextTyped, InitKin, InitFollows, PTL DEF Spec, CompletedMirrors

(***************************************************************************)
(* As long as tasks do not overlap and none dies, a transition leaves the  *)
(* newest case in the status the bill is mirrored onto.                    *)
(***************************************************************************)
THEOREM CaseFollowsBill == ASSUME OneTask, ~MayFail PROVE Spec => TransitionMirrors
<1>1. Typed /\ KinInv /\ FollowInv /\ [Next]_vars => FollowInv'
  BY FollowNext
<1>3. Typed /\ KinInv /\ [Next]_vars => KinInv'
  BY KinNext
<1>2. Typed /\ KinInv /\ FollowInv /\ [Next]_vars
      => [\A r \in Req :
            /\ req[r].op = "transition" /\ req'[r] = Idle
            /\ cases' # <<>> /\ CaseStatusOf(status') # None
            => cases'[Len(cases')].status = CaseStatusOf(status')]_vars
  BY FollowNext DEF Mirrors, CutShort, Fail
<1>. QED
  BY <1>1, <1>2, <1>3, InitTyped, NextTyped, InitKin, InitFollows, PTL DEF Spec, TransitionMirrors

-----------------------------------------------------------------------------
(* A case in activation has its dates. *)

\* Every status that operators move a bill to has one for the case; `error' alone has none.
OnPipeline == \A t \in Target : CaseStatusOf(t) # None

Covered(c) == cases[c].status = "awaiting_activation" => Dated(cases[c])

\* Dates that were cleared are those of a case that the mirror is to take out of activation.
Clearing(t, c) == t.pc = "mirror" /\ t.case = c /\ t.target # "awaiting_activation"

Dating(t) ==
  /\ t.op = "transition" /\ t.pc \in Under =>
       /\ t.target \in Target
       /\ t.target = "awaiting_activation" =>
            /\ t.act # NoDate /\ t.exp # NoDate
            /\ t.pc = "saveCase" => Dated(t.crow)
            /\ t.pc = "mirror" => Dated(cases[t.case])
  /\ t.op = "edit" /\ t.pc = "saveCase" /\ t.crow.status = "awaiting_activation" => Dated(t.crow)

DateInv ==
  /\ \A r \in Req : Dating(req[r])
  /\ \A c \in DOMAIN cases : Covered(c) \/ \E r \in Req : Clearing(req[r], c)

\* A step that leaves the cases alone.
LEMMA DatesKeep ==
  ASSUME OneTask, Typed, DateInv, NEW r \in Req, UNCHANGED cases, req[r].pc # "mirror",
         Dating(req[r])'
  PROVE  DateInv'
<1>1. \A q \in Req : q = r
  BY DEF OneTask
<1>2. \A c \in DOMAIN cases : Covered(c)
  BY <1>1 DEF DateInv, Clearing
<1>. QED
  BY <1>1, <1>2 DEF DateInv, Covered, Dated

LEMMA DatesMove ==
  ASSUME OneTask, Typed, NEW r \in Req, Dating(req[r])',
         \A c \in DOMAIN cases' : Covered(c)' \/ Clearing(req[r], c)'
  PROVE  DateInv'
<1>1. \A q \in Req : q = r
  BY DEF OneTask
<1>. QED
  BY <1>1 DEF DateInv

LEMMA IdleDates == ASSUME NEW t, t = Idle PROVE Dating(t)
BY DEF Dating, Idle, None

\* A task that goes on to an await where it holds nothing new of a case.
LEMMA DatesGoOn ==
  ASSUME Typed, FollowInv, DateInv, NEW r \in Req,
         req'[r] = Idle \/ (/\ req'[r].op = req[r].op /\ req'[r].target = req[r].target
                            /\ req'[r].act = req[r].act /\ req'[r].exp = req[r].exp
                            /\ req'[r].pc \notin {"saveCase", "mirror"}
                            /\ req[r].pc \in Under \/ req[r].op # "transition" \/ req'[r].pc \notin Under)
  PROVE  Dating(req[r])'
<1>1. Dating(req[r])
  BY DEF DateInv
<1>2. CASE req'[r] = Idle
  BY <1>2, IdleDates DEF Dating, Idle, None
<1>3. CASE req'[r] # Idle
  BY <1>1, <1>3 DEF Dating
<1>. QED
  BY <1>2, <1>3

LEMMA DateRequest ==
  ASSUME OneTask, Typed, DateInv, NEW r \in Req, Request(r)
  PROVE  DateInv'
<1>1. req[r] = Idle /\ UNCHANGED <<bill, cases, verifs, news>> /\ Asked(req'[r])
  BY RequestAsks
<1>2. Dating(req[r])'
  BY <1>1 DEF Asked, Dating, DatesAccepted
<1>3. req[r].pc # "mirror"
  BY <1>1 DEF Idle
<1>. QED
  BY <1>1, <1>2, <1>3, DatesKeep

LEMMA DateReads ==
  ASSUME OneTask, Typed, FollowInv, DateInv, NEW r \in Req, ReadCase(r)
  PROVE  DateInv'
<1>0. /\ req \in [Req -> Task] /\ req[r] \in Task /\ req[r].pc = "readCase" /\ UNCHANGED cases
      /\ Dating(req[r])
  BY DEF Typed, TypeOK, DateInv, ReadCase, At
<1>1. req[r].op = "transition" /\ cases[req[r].case] \in CaseRow
  BY <1>0, CaseIs
<1>2. PICK row : row = ActivationAfter(req[r].target, cases[req[r].case], req[r].act, req[r].exp)
  OBVIOUS
<1>3. /\ req'[r].pc = "saveCase" /\ req'[r].crow = row /\ req'[r].op = req[r].op
      /\ req'[r].target = req[r].target /\ req'[r].act = req[r].act /\ req'[r].exp = req[r].exp
  BY <1>0, <1>2 DEF ReadCase, Task
<1>4. ASSUME req[r].target = "awaiting_activation" PROVE Dated(row)
  <2>1. req[r].act # NoDate /\ req[r].exp # NoDate
    BY <1>0, <1>1, <1>4 DEF Dating, Under
  <2>. QED
    BY <1>1, <1>2, <1>4, <2>1 DEF Dated, ActivationAfter, LiveUtility, CaseRow
<1>5. Dating(req[r])'
  BY <1>0, <1>1, <1>3, <1>4 DEF Dating, Under
<1>. QED
  BY <1>0, <1>5, DatesKeep

LEMMA DateSavesCase ==
  ASSUME OneTask, Typed, FollowInv, DateInv, NEW r \in Req, SaveCase(r)
  PROVE  DateInv'
<1>0. /\ req[r] \in Task /\ req[r].pc = "saveCase" /\ Dating(req[r])
      /\ req[r].op = "transition" => req[r].target \in Target
  BY DEF Typed, TypeOK, DateInv, Dating, SaveCase, At, Under
<1>1. req[r].case \in DOMAIN cases /\ req[r].op \in {"transition", "edit"}
  BY <1>0, CaseIs
<1>2. /\ DOMAIN cases' = DOMAIN cases /\ cases'[req[r].case] = req[r].crow
      /\ \A d \in DOMAIN cases \ {req[r].case} : cases'[d] = cases[d]
  BY <1>1, CaseStored DEF SaveCase
<1>3. \A d \in DOMAIN cases \ {req[r].case} : Covered(d)'
  <2>1. \A d \in DOMAIN cases : Covered(d)
    BY <1>0 DEF DateInv, Clearing, OneTask
  <2>. QED
    BY <1>2, <2>1 DEF Covered, Dated
<1>4. CASE req[r].op = "edit"
  <2>1. ASSUME NEW c, c = req[r].case PROVE Covered(c)'
    <3>1. req[r].crow.status = "awaiting_activation" => Dated(req[r].crow)
      BY <1>0, <1>4 DEF Dating
    <3>. QED
      BY <1>2, <2>1, <3>1 DEF Covered, Dated
  <2>2. Milestones(r)
    BY <1>4 DEF SaveCase
  <2>3. Dating(req[r])'
    <3>1. CASE req'[r] = Idle
      BY <3>1 DEF Dating, Idle, None
    <3>2. CASE req'[r].pc = "announce"
      BY <3>2 DEF Dating, Under
    <3>. QED
      BY <2>2, <3>1, <3>2, Says
  <2>4. \A c \in DOMAIN cases' : Covered(c)'
    BY <1>2, <1>3, <2>1
  <2>. QED
    BY <2>3, <2>4, DatesMove
<1>5. CASE req[r].op = "transition"
  <2>1. req'[r].pc = "mirror" /\ Kept(req'[r], req[r])
    BY <1>5, GotoKept DEF SaveCase
  <2>2. req[r].target = "awaiting_activation" => Dated(req[r].crow)
    BY <1>0, <1>5 DEF Dating, Under
  <2>3. Dating(req[r])'
    BY <1>0, <1>2, <1>5, <2>1, <2>2 DEF Dating, Kept, Dated, Under
  <2>4. Covered(req[r].case)' \/ Clearing(req[r], req[r].case)'
    BY <1>2, <2>1, <2>2 DEF Covered, Clearing, Kept, Dated
  <2>5. req'[r].case = req[r].case
    BY <2>1 DEF Kept
  <2>6. \A c \in DOMAIN cases' : Covered(c)' \/ Clearing(req[r], c)'
    BY <1>2, <1>3, <2>4, <2>5 DEF Clearing
  <2>. QED
    BY <2>3, <2>6, DatesMove
<1>. QED
  BY <1>1, <1>4, <1>5

LEMMA AwaitsAlone ==
  ASSUME NEW t, CaseStatusOf(t) = "awaiting_activation"
  PROVE  t = "awaiting_activation"
BY DEF CaseStatusOf, None

LEMMA DateMirrors ==
  ASSUME OneTask, OnPipeline, Typed, FollowInv, DateInv, NEW r \in Req, MirrorCase(r)
  PROVE  DateInv'
<1>0. /\ req[r] \in Task /\ req[r].pc = "mirror" /\ Milestones(r) /\ Dating(req[r]) /\ Following(req[r])
  BY DEF Typed, TypeOK, DateInv, FollowInv, MirrorCase, At
<1>1. /\ req[r].case \in DOMAIN cases /\ cases[req[r].case] \in CaseRow
      /\ req[r].op = "transition" /\ req[r].case # 0
  BY <1>0, CaseIs DEF Typed, Placed
<1>2. /\ req[r].mirror = MirrorOf(req[r].target, cases[req[r].case].status)
      /\ CaseStatusOf(req[r].target) # None
      /\ req[r].target = "awaiting_activation" => Dated(cases[req[r].case])
  BY <1>0, <1>1 DEF Following, Dating, Under, OnPipeline
<1>3. Dating(req[r])'
  BY <1>0, <1>1, Says, IdleDates DEF Dating, Kept, Idle, None, Under
<1>4. \A d \in DOMAIN cases \ {req[r].case} : Covered(d)
  BY <1>0 DEF DateInv, Clearing, OneTask
<1>5. CASE req[r].mirror = None
  <2>1. UNCHANGED cases
    BY <1>0, <1>5 DEF MirrorCase
  <2>2. CaseStatusOf(req[r].target) = cases[req[r].case].status
    BY <1>2, <1>5 DEF MirrorOf
  <2>3. Covered(req[r].case)
    BY <1>2, <2>2, AwaitsAlone DEF Covered
  <2>4. \A c \in DOMAIN cases' : Covered(c)'
    BY <1>4, <2>1, <2>3 DEF Covered, Dated
  <2>. QED
    BY <1>3, <2>4, DatesMove
<1>6. CASE req[r].mirror # None
  <2>1. PICK row : row = [cases[req[r].case] EXCEPT !.status = req[r].mirror]
    OBVIOUS
  <2>2. /\ row.status = req[r].mirror
        /\ row.act = cases[req[r].case].act /\ row.exp = cases[req[r].case].exp
    BY <1>1, <2>1 DEF CaseRow
  <2>3. StoreCase(req[r].case, row)
    BY <1>0, <1>6, <2>1 DEF MirrorCase
  <2>4. /\ DOMAIN cases' = DOMAIN cases /\ cases'[req[r].case] = row
        /\ \A d \in DOMAIN cases \ {req[r].case} : cases'[d] = cases[d]
    BY <1>1, <2>3, CaseStored
  <2>5. req[r].mirror = CaseStatusOf(req[r].target)
    BY <1>2, <1>6 DEF MirrorOf
  <2>6. row.status = "awaiting_activation" => Dated(row)
    BY <1>2, <2>2, <2>5, AwaitsAlone DEF Dated
  <2>7. \A c \in DOMAIN cases' : Covered(c)'
    BY <1>4, <2>4, <2>6 DEF Covered, Dated
  <2>. QED
    BY <1>3, <2>7, DatesMove
<1>. QED
  BY <1>5, <1>6

\* A new case is not in activation.
LEMMA DateInserts ==
  ASSUME OneTask, Typed, FollowInv, DateInv, NEW r \in Req, InsertCase(r)
  PROVE  DateInv'
<1>0. /\ req[r] \in Task /\ req[r].pc = "insertCase" /\ Placing(req[r]) /\ Dating(req[r])
      /\ cases \in Seq(CaseRow) /\ Len(cases) \in Nat
  BY LenProperties DEF Typed, TypeOK, DateInv, FollowInv, InsertCase, At
<1>1. req[r].op \notin {"transition", "edit"}
  BY <1>0 DEF Placing, Under
<1>2. Finish(r) \/ Goto(r, "saveBill")
  BY DEF InsertCase
<1>3. Dating(req[r])'
  BY <1>1, <1>2, FinishFields, GotoKept, IdleDates DEF Dating, Kept, Idle, None
<1>4. CASE UNCHANGED cases
  BY <1>0, <1>3, <1>4, DatesKeep
<1>5. ASSUME NEW o \in Offer, cases' = Append(cases, [NoCase EXCEPT !.offer = o])
      PROVE  DateInv'
  <2>1. PICK row : row = [NoCase EXCEPT !.offer = o]
    OBVIOUS
  <2>2. row \in CaseRow /\ row.status = "new"
    BY <2>1, IdleType DEF NoCase, CaseRow
  <2>3. /\ DOMAIN cases = 1 .. Len(cases) /\ DOMAIN cases' = 1 .. Len(cases) + 1
        /\ \A c \in 1 .. Len(cases) : cases'[c] = cases[c]
        /\ cases'[Len(cases) + 1] = row
    BY <1>0, <1>5, <2>1, <2>2, AppendProperties, LenProperties
  <2>4. \A c \in DOMAIN cases : Covered(c)
    BY <1>0 DEF DateInv, Clearing, OneTask
  <2>5. \A c \in DOMAIN cases' : Covered(c)'
    BY <1>0, <2>2, <2>3, <2>4 DEF Covered, Dated
  <2>. QED
    BY <1>3, <2>5, DatesMove
<1>6. UNCHANGED cases \/ \E o \in req[r].offers : cases' = Append(cases, [NoCase EXCEPT !.offer = o])
  BY DEF InsertCase
<1>7. req[r].offers \subseteq Offer
  BY <1>0 DEF Task
<1>. QED
  BY <1>4, <1>5, <1>6, <1>7

\* A task that dies does not do so between clearing the dates of a case and mirroring it.
SparesDates ==
  \A r \in Req : Fail(r) => ~(req[r].pc = "mirror" /\ req[r].target # "awaiting_activation")

LEMMA DateFails ==
  ASSUME OneTask, SparesDates, Typed, DateInv, NEW r \in Req, Fail(r)
  PROVE  DateInv'
<1>1. req'[r] = Idle /\ UNCHANGED cases
  BY FinishFields DEF Fail
<1>2. \A c \in DOMAIN cases : Covered(c)
  BY DEF DateInv, Clearing, SparesDates, OneTask
<1>3. Dating(req[r])'
  BY <1>1 DEF Dating, Idle, None
<1>. QED
  BY <1>1, <1>2, <1>3, DatesMove DEF Covered, Dated

LEMMA DateStep ==
  ASSUME OneTask, SparesDates, OnPipeline, Typed, FollowInv, DateInv, NEW r \in Req, Moves(r)
  PROVE  DateInv'
<1>0. req \in [Req -> Task] /\ req[r] \in Task /\ Placing(req[r]) /\ Dating(req[r])
  BY DEF Typed, TypeOK, FollowInv, DateInv
<1>1. CASE Request(r)
  BY <1>1, DateRequest
<1>2. CASE InsertCase(r)
  BY <1>2, DateInserts
<1>3. CASE Prepares(r) /\ ~InsertCase(r)
  <2>1. UNCHANGED cases
    BY <1>3 DEF Prepares, CheckSend, DraftOffers, SaveOffers, CheckAccept, CheckProposed, DrawNumber
  <2>2. req[r].op \notin {"transition", "edit"} /\ req[r].pc # "mirror"
    BY <1>0, <1>3, Prepared DEF Placing, Aside, Under
  <2>3. Dating(req[r])'
    BY <2>2, <1>3, Prepared, IdleDates DEF Dating, Idle, None
  <2>. QED
    BY <2>1, <2>2, <2>3, DatesKeep
<1>4. CASE Tells(r)
  <2>1. UNCHANGED cases /\ req[r].pc # "mirror"
    BY <1>4, Told
  <2>2. Dating(req[r])'
    BY <1>0, <1>4, Told, IdleDates DEF Dating, Kept, Under, Idle, None
  <2>. QED
    BY <2>1, <2>2, DatesKeep
<1>5. CASE ResolvePending(r) \/ InsertVerification(r) \/ SetRequired(r) \/ SaveVerification(r)
  <2>1. UNCHANGED cases /\ req[r].pc # "mirror"
    BY <1>5 DEF ResolvePending, InsertVerification, SetRequired, SaveVerification, At
  <2>2. \/ req'[r] = Idle
        \/ req'[r].pc \in {"insertVerif", "saveBill", "setRequired", "readCase"} /\ Kept(req'[r], req[r])
    BY <1>5, GotoKept, FinishFields DEF ResolvePending, InsertVerification, SetRequired, SaveVerification
  <2>3. req[r].pc \in Under \/ req[r].op # "transition"
    BY <1>0, <1>5 DEF ResolvePending, InsertVerification, SetRequired, SaveVerification, At,
       Placing, Under
  <2>4. Dating(req[r])'
    BY <2>2, <2>3, DatesGoOn DEF Kept
  <2>. QED
    BY <2>1, <2>4, DatesKeep
<1>6. CASE FindPending(r)
  <2>1. UNCHANGED cases /\ req[r].pc = "find"
    BY <1>6 DEF FindPending, At
  <2>2. req[r].op \notin {"transition", "edit"}
    BY <1>0, <2>1 DEF Placing, Under
  <2>3. Finish(r) \/ \E v : req' = [req EXCEPT ![r].pc = "saveVerif", ![r].n = v]
    BY <1>6 DEF FindPending
  <2>4. req'[r] = Idle \/ req'[r].op = req[r].op
    BY <1>0, <2>3, FinishFields DEF Task
  <2>5. Dating(req[r])'
    BY <2>2, <2>4, IdleDates DEF Dating, Idle, None
  <2>. QED
    BY <2>1, <2>5, DatesKeep
<1>7. CASE SaveBill(r)
  <2>1. UNCHANGED cases /\ req[r].pc = "saveBill"
    BY <1>7 DEF SaveBill, At
  <2>2. Goto(r, "readCase") \/ Goto(r, "extract") \/ Milestones(r)
    BY <1>7 DEF SaveBill
  <2>3. \/ req'[r] = Idle
        \/ req'[r].pc \in {"readCase", "extract", "announce"} /\ Kept(req'[r], req[r])
    BY <2>2, GotoKept, Says
  <2>4. req[r].pc \in Under
    BY <2>1 DEF Under
  <2>5. Dating(req[r])'
    BY <2>3, <2>4, DatesGoOn DEF Kept
  <2>. QED
    BY <2>1, <2>5, DatesKeep
<1>8. CASE Extract(r)
  <2>1. req'[r].op = req[r].op /\ req[r].op = "ocr" /\ UNCHANGED cases
    BY <1>8, <1>0 DEF Extract, Task
  <2>2. Dating(req[r])' /\ req[r].pc # "mirror"
    BY <1>8, <2>1 DEF Dating, Extract, At
  <2>. QED
    BY <2>1, <2>2, DatesKeep
<1>9. CASE ReadCase(r)
  BY <1>9, DateReads
<1>10. CASE SaveCase(r)
  BY <1>10, DateSavesCase
<1>11. CASE MirrorCase(r)
  BY <1>11, DateMirrors
<1>12. CASE Fail(r)
  BY <1>12, DateFails
<1>13. CASE SaveRejected(r)
  <2>1. UNCHANGED cases /\ req[r].pc # "mirror" /\ Dating(req[r])'
    BY <1>13, Rejected, IdleDates DEF Dating, Idle, None
  <2>. QED
    BY <2>1, DatesKeep
<1>. QED
  BY <1>1, <1>2, <1>3, <1>4, <1>5, <1>6, <1>7, <1>8, <1>9, <1>10, <1>11, <1>12, <1>13
     DEF Moves, Continue, Prepares, Tells

LEMMA InitDates == Init => DateInv
BY IdleDates DEF Init, DateInv

LEMMA DateNext ==
  ASSUME OneTask, OnPipeline
  PROVE  Typed /\ FollowInv /\ DateInv /\ [Next]_vars /\ [SparesDates]_vars => DateInv'
<1>. SUFFICES ASSUME Typed, FollowInv, DateInv, [Next]_vars, [SparesDates]_vars PROVE DateInv'
  OBVIOUS
<1>1. CASE UNCHANGED vars
  BY <1>1 DEF vars, DateInv, Dating, Covered, Clearing, Dated
<1>. QED
  BY <1>1, DateStep DEF Next, Moves

(***************************************************************************)
(* As long as tasks do not overlap and no operator moves a bill to         *)
(* `error', a case in activation has both its dates, wherever tasks die    *)
(* but in one place: after updateBillStatus cleared the dates of a case    *)
(* that leaves activation, and before it wrote the case's new status.      *)
(***************************************************************************)
THEOREM DatedUnlessCut ==
  ASSUME OneTask, OnPipeline PROVE Spec /\ [][SparesDates]_vars => []AwaitingHasDates
<1>1. DateInv => AwaitingHasDates
  BY DEF DateInv, AwaitingHasDates, Quiet, Covered, Clearing, Dated, Idle
<1>2. Typed /\ KinInv /\ FollowInv /\ [Next]_vars => FollowInv'
  BY FollowNext
<1>4. Typed /\ KinInv /\ [Next]_vars => KinInv'
  BY KinNext
<1>3. Typed /\ FollowInv /\ DateInv /\ [Next]_vars /\ [SparesDates]_vars => DateInv'
  BY DateNext
<1>. QED
  BY <1>1, <1>2, <1>3, <1>4, InitTyped, NextTyped, InitKin, InitFollows, InitDates, PTL DEF Spec

(***************************************************************************)
(* As long as tasks do not overlap, none dies and no operator moves a bill *)
(* to `error', a case in activation has both its dates.                    *)
(***************************************************************************)
THEOREM AwaitingIsDated == ASSUME OneTask, ~MayFail, OnPipeline PROVE Spec => []AwaitingHasDates
<1>1. [SparesDates]_vars
  BY DEF SparesDates, Fail
<1>2. Spec /\ [][SparesDates]_vars => []AwaitingHasDates
  BY DatedUnlessCut
<1>. QED
  BY <1>1, <1>2, PTL

-----------------------------------------------------------------------------
(* What it would take to keep the promises the code breaks. *)

\* Whose steps write the cases.
LEMMA CasesStay ==
  ASSUME NEW r \in Req, Moves(r), ~InsertCase(r), ~SaveCase(r), ~MirrorCase(r)
  PROVE  UNCHANGED cases
BY DEF Moves, Request, ReadTransition, ReadRequest, ReadSubmit, ReadSend, ReadAccept, ReadEdit,
   ReadCorrect, StartOcr, Fail, Continue, ResolvePending, InsertVerification, SetRequired,
   FindPending, SaveVerification, CheckSend, DraftOffers, SaveOffers, CheckAccept, CheckProposed,
   DrawNumber, SaveBill, SaveRejected, Extract, ReadCase, Announce, Push

\* Saving or mirroring a case leaves every other case alone.
LEMMA CasesSaved ==
  ASSUME Typed, NEW r \in Req, SaveCase(r) \/ MirrorCase(r)
  PROVE  /\ DOMAIN cases' = DOMAIN cases /\ Len(cases') = Len(cases)
         /\ \A c \in DOMAIN cases : c # req[r].case => cases'[c] = cases[c]
<1>1. UNCHANGED cases \/ \E row : cases' = [cases EXCEPT ![req[r].case] = row]
  BY DEF SaveCase, MirrorCase, StoreCase
<1>2. ASSUME NEW row, cases' = [cases EXCEPT ![req[r].case] = row]
      PROVE  /\ DOMAIN cases' = DOMAIN cases /\ Len(cases') = Len(cases)
             /\ \A c \in DOMAIN cases : c # req[r].case => cases'[c] = cases[c]
  BY <1>2 DEF Typed, TypeOK
<1>. QED
  BY <1>1, <1>2

\* The awaits of createCase between its look at the open cases and the insert, and
\* those at which a case is about to be written.
Accepting == {"checkSent", "number", "insertCase"}
WritesCase == Accepting \cup {"saveCase", "mirror"}

\* Nobody writes a case while an acceptance relies on what it saw of them.
AcceptsUndisturbed ==
  \A q, r \in Req : req[r].pc \in Accepting /\ req[q].pc \in WritesCase => q = r

\* No closed case is opened again but the newest.
NothingReopened ==
  \A c \in DOMAIN cases :
    c # Len(cases) /\ cases[c].status \in ClosedCase => cases'[c].status \in ClosedCase

SwitchInv ==
  /\ \A c \in Open : c = Len(cases)
  /\ \A r \in Req : req[r].pc \in Accepting => Open = {}

\* Where a task goes that does not pass createCase's look at the open cases.
LEMMA AcceptsFrom ==
  ASSUME Typed, NEW r \in Req, Moves(r), req'[r].pc \in Accepting
  PROVE  \/ req[r].pc \in Accepting /\ UNCHANGED cases
         \/ CheckAccept(r) /\ Open = {}
<1>0. req \in [Req -> Task] /\ req[r] \in Task /\ req'[r] # Idle
  BY DEF Typed, TypeOK, Accepting, Idle
<1>1. CASE Request(r)
  <2>1. Asked(req'[r])
    BY <1>1, RequestAsks
  <2>. QED
    BY <2>1 DEF Asked, Accepting
<1>2. CASE Fail(r)
  BY <1>0, <1>2, FinishFields DEF Fail
<1>3. CASE CheckAccept(r)
  BY <1>0, <1>3, FinishFields DEF CheckAccept
<1>4. CASE CheckProposed(r) \/ DrawNumber(r)
  BY <1>4 DEF CheckProposed, DrawNumber, At, Accepting
<1>5. CASE InsertCase(r)
  <2>1. Goto(r, "saveBill")
    BY <1>0, <1>5, FinishFields DEF InsertCase
  <2>. QED
    BY <2>1, GotoKept DEF Accepting
<1>6. CASE ResolvePending(r) \/ InsertVerification(r) \/ SetRequired(r) \/ SaveVerification(r)
           \/ CheckSend(r) \/ SaveOffers(r)
  <2>1. PICK p \in {"insertVerif", "saveBill", "setRequired", "readCase", "draft"} : Goto(r, p)
    BY <1>0, <1>6, FinishFields DEF ResolvePending, InsertVerification, SetRequired,
       SaveVerification, CheckSend, SaveOffers
  <2>. QED
    BY <2>1, GotoKept DEF Accepting
<1>7. CASE FindPending(r)
  <2>1. PICK v : req' = [req EXCEPT ![r].pc = "saveVerif", ![r].n = v]
    BY <1>0, <1>7, FinishFields DEF FindPending
  <2>. QED
    BY <1>0, <2>1 DEF Task, Accepting
<1>8. CASE DraftOffers(r)
  BY <1>0, <1>8 DEF DraftOffers, Task, Accepting
<1>9. CASE SaveBill(r) \/ SaveCase(r) \/ MirrorCase(r)
  <2>1. Goto(r, "readCase") \/ Goto(r, "extract") \/ Goto(r, "mirror") \/ Milestones(r)
    BY <1>9 DEF SaveBill, SaveCase, MirrorCase
  <2>. QED
    BY <1>0, <2>1, GotoKept, Says DEF Accepting
<1>10. CASE Extract(r) \/ ReadCase(r)
  BY <1>0, <1>10 DEF Extract, ReadCase, Task, Accepting
<1>11. CASE Tells(r)
  BY <1>0, <1>11, Told DEF Accepting
<1>12. CASE SaveRejected(r)
  BY <1>0, <1>12, Rejected
<1>. QED
  BY <1>1, <1>2, <1>3, <1>4, <1>5, <1>6, <1>7, <1>8, <1>9, <1>10, <1>11, <1>12
     DEF Moves, Continue, Tells

LEMMA SwitchStep ==
  ASSUME Typed, SwitchInv, AcceptsUndisturbed, NothingReopened, NEW r \in Req, Moves(r)
  PROVE  SwitchInv'
<1>0. cases \in Seq(CaseRow) /\ DOMAIN cases = 1 .. Len(cases) /\ Len(cases) \in Nat
  BY LenProperties DEF Typed, TypeOK
<1>1. \A q \in Req : q # r => req'[q] = req[q]
  BY OthersStay
<1>2. CASE UNCHANGED cases
  <2>1. Open' = Open
    BY <1>2 DEF Open
  <2>2. req'[r].pc \in Accepting => Open = {}
    BY AcceptsFrom DEF SwitchInv
  <2>3. \A q \in Req : req'[q].pc \in Accepting => Open = {}
    BY <1>1, <2>2 DEF SwitchInv
  <2>. QED
    BY <1>2, <2>1, <2>3 DEF SwitchInv
<1>3. CASE ~UNCHANGED cases
  <2>1. InsertCase(r) \/ SaveCase(r) \/ MirrorCase(r)
    BY <1>3, CasesStay
  <2>2. req[r].pc \in WritesCase
    BY <2>1 DEF InsertCase, SaveCase, MirrorCase, At, WritesCase, Accepting
  <2>3. req'[r].pc \notin Accepting
    BY <1>3, AcceptsFrom DEF CheckAccept
  <2>4. \A q \in Req : req'[q].pc \notin Accepting
    BY <1>1, <2>2, <2>3 DEF AcceptsUndisturbed
  <2>5. CASE InsertCase(r)
    <3>1. Open = {}
      BY <2>5 DEF InsertCase, At, SwitchInv, Accepting
    <3>2. PICK row : cases' = Append(cases, row) /\ row \in CaseRow
      <4>1. PICK o \in req[r].offers : cases' = Append(cases, [NoCase EXCEPT !.offer = o])
        BY <1>3, <2>5 DEF InsertCase
      <4>2. o \in Offer
        BY DEF Typed, TypeOK, Task
      <4>3. [NoCase EXCEPT !.offer = o] \in CaseRow
        BY <4>2, IdleType DEF NoCase, CaseRow
      <4>. QED
        BY <4>1, <4>3
    <3>3. /\ DOMAIN cases' = 1 .. Len(cases) + 1 /\ Len(cases') = Len(cases) + 1
          /\ \A c \in 1 .. Len(cases) : cases'[c] = cases[c]
      BY <1>0, <3>2, AppendProperties, LenProperties
    <3>4. \A c \in Open' : c = Len(cases')
      <4>1. \A c \in DOMAIN cases : cases[c].status \in ClosedCase
        BY <3>1 DEF Open
      <4>. QED
        BY <1>0, <3>3, <4>1 DEF Open
    <3>. QED
      BY <2>4, <3>4 DEF SwitchInv
  <2>6. CASE SaveCase(r) \/ MirrorCase(r)
    <3>1. DOMAIN cases' = DOMAIN cases /\ Len(cases') = Len(cases)
      BY <2>6, CasesSaved
    <3>2. \A c \in DOMAIN cases : c # Len(cases) => cases[c].status \in ClosedCase
      BY DEF SwitchInv, Open
    <3>3. \A c \in DOMAIN cases : c # Len(cases) => cases'[c].status \in ClosedCase
      BY <3>2 DEF NothingReopened
    <3>4. \A c \in Open' : c = Len(cases')
      BY <3>1, <3>3 DEF Open
    <3>. QED
      BY <2>4, <3>4 DEF SwitchInv
  <2>. QED
    BY <2>1, <2>5, <2>6
<1>. QED
  BY <1>2, <1>3

LEMMA InitSwitch == Init => SwitchInv
BY EmptySeq DEF Init, SwitchInv, Open, Accepting, Idle

(***************************************************************************)
(* "One bill, one switch" would hold if createCase kept the cases of the   *)
(* bill to itself from its look at them to its insert, and if no operator  *)
(* opened again a closed case that is not the newest, however much else    *)
(* overlaps and wherever tasks die.                                        *)
(***************************************************************************)
THEOREM OneSwitchUnderLock ==
  Spec /\ []AcceptsUndisturbed /\ [][NothingReopened]_vars => []OneOpenSwitch
<1>1. SwitchInv => OneOpenSwitch
  BY DEF SwitchInv, OneOpenSwitch
<1>2. Typed /\ SwitchInv /\ AcceptsUndisturbed /\ [Next]_vars /\ [NothingReopened]_vars => SwitchInv'
  <2>1. CASE UNCHANGED vars
    BY <2>1 DEF vars, SwitchInv, Open
  <2>2. CASE ~UNCHANGED vars
    BY <2>2, SwitchStep DEF Next, Moves
  <2>. QED
    BY <2>1, <2>2
<1>. QED
  BY <1>1, <1>2, InitTyped, NextTyped, InitSwitch, PTL DEF Spec

\* What an answer to a request for documents holds of the bill while nobody else saves it.
AnswerInv == \A r \in Req : req[r].op = "submit" => req[r].brow.data = data

\* Nobody saves the bill while an answer holds it.
AnswersAlone ==
  \A q, r \in Req : req[r].op = "submit" /\ req[q].pc = "saveBill" => q = r

\* Only saving the bill whole writes its data.
LEMMA DataSaved ==
  ASSUME Typed, NEW r \in Req, Moves(r), ~SaveBill(r)
  PROVE  data' = data
BY DEF Moves, Request, ReadTransition, ReadRequest, ReadSubmit, ReadSend, ReadAccept, ReadEdit,
   ReadCorrect, StartOcr, Fail, Continue, ResolvePending, InsertVerification, SetRequired, StoreBill,
   BillNow, FindPending, SaveVerification, CheckSend, DraftOffers, SaveOffers, CheckAccept,
   CheckProposed, DrawNumber, InsertCase, SaveRejected, Extract, ReadCase, SaveCase, MirrorCase, Announce, Push, bill

LEMMA AnswerSaves ==
  ASSUME Typed, AnswerInv, NEW r \in Req, SaveBill(r), req[r].op = "submit"
  PROVE  data' = data
<1>1. req[r].brow \in BillRow /\ req[r].brow.data = data
  BY DEF Typed, TypeOK, Task, AnswerInv
<1>2. [req[r].brow EXCEPT !.status = req[r].target].data = data
  BY <1>1 DEF BillRow
<1>. QED
  BY <1>2 DEF SaveBill, StoreBill

\* An answer read the bill as it is, and carries it to its end.
LEMMA AnswerCarries ==
  ASSUME Typed, AnswerInv, NEW r \in Req, Moves(r), req'[r].op = "submit"
  PROVE  req'[r].brow.data = data
<1>0. req \in [Req -> Task] /\ req[r] \in Task /\ req'[r] # Idle
  BY DEF Typed, TypeOK, Idle, None
<1>1. CASE Request(r)
  <2>1. CASE ReadSubmit(r)
    <3>1. PICK t : t = [Idle EXCEPT !.op = "submit", !.pc = "find", !.brow = BillNow,
                                    !.kin = Kin, !.target = "verification_review"]
      OBVIOUS
    <3>2. t.brow.data = data
      BY <3>1 DEF Idle, BillNow
    <3>3. req'[r] = t
      BY <1>0, <2>1, <3>1 DEF ReadSubmit, Start
    <3>. QED
      BY <3>2, <3>3
  <2>2. CASE ~ReadSubmit(r)
    <3>1. ASSUME NEW op, NEW t, Start(r, op, t), t.op # "submit" PROVE FALSE
      BY <1>0, <3>1 DEF Start
    <3>2. ~ReadTransition(r)
      <4>1. ASSUME NEW t, NEW d, ReadTransition(r)!(t, d) PROVE FALSE
        BY <3>1, <4>1 DEF Idle
      <4>. QED
        BY <4>1 DEF ReadTransition
    <3>3. ~ReadRequest(r) /\ ~ReadCorrect(r) /\ ~StartOcr(r)
      BY <3>1 DEF ReadRequest, ReadCorrect, StartOcr, Idle
    <3>4. ~ReadSend(r)
      <4>1. ASSUME NEW os, ReadSend(r)!(os) PROVE FALSE
        BY <3>1, <4>1 DEF Idle
      <4>. QED
        BY <4>1 DEF ReadSend
    <3>5. ~ReadAccept(r)
      <4>1. ASSUME NEW o, NEW d, ReadAccept(r)!(o, d) PROVE FALSE
        BY <3>1, <4>1 DEF Idle
      <4>. QED
        BY <4>1 DEF ReadAccept
    <3>6. ~ReadEdit(r)
      <4>1. ASSUME NEW c \in DOMAIN cases, NEW s, NEW o, NEW d, ReadEdit(r)!(c)!(s, o, d) PROVE FALSE
        BY <3>1, <4>1 DEF Idle
      <4>. QED
        BY <4>1 DEF ReadEdit
    <3>. QED
      BY <1>1, <2>2, <3>2, <3>3, <3>4, <3>5, <3>6 DEF Request
  <2>. QED
    BY <2>1, <2>2
<1>2. ASSUME Continue(r), ~Extract(r)
      PROVE  req'[r].op = req[r].op /\ req'[r].brow = req[r].brow
  <2>1. CASE FindPending(r)
    <3>1. PICK v : req' = [req EXCEPT ![r].pc = "saveVerif", ![r].n = v]
      BY <1>0, <2>1, FinishFields DEF FindPending
    <3>. QED
      BY <1>0, <3>1 DEF Task
  <2>2. CASE DraftOffers(r) \/ DrawNumber(r) \/ ReadCase(r)
    BY <1>0, <2>2 DEF DraftOffers, DrawNumber, ReadCase, Task
  <2>3. ASSUME NEW p, Goto(r, p) PROVE req'[r].op = req[r].op /\ req'[r].brow = req[r].brow
    BY <1>0, <2>3 DEF Goto, Task
  <2>4. CASE ~FindPending(r) /\ ~DraftOffers(r) /\ ~DrawNumber(r) /\ ~ReadCase(r)
    <3>1. \E p : Goto(r, p)
      BY <1>0, <1>2, <2>4, FinishFields DEF Continue, ResolvePending, InsertVerification, SetRequired,
         SaveVerification, CheckSend, SaveOffers, CheckAccept, CheckProposed, InsertCase, SaveBill, SaveRejected,
         Milestones, SaveCase, MirrorCase, Announce, Push
    <3>. QED
      BY <2>3, <3>1
  <2>. QED
    BY <2>1, <2>2, <2>4
<1>3. CASE Extract(r)
  BY <1>0, <1>3 DEF Extract, Task
<1>. QED
  BY <1>0, <1>1, <1>2, <1>3, FinishFields DEF Moves, Fail, AnswerInv

LEMMA SavesOn ==
  ASSUME Typed, NEW r \in Req, SaveBill(r)
  PROVE  req'[r] = Idle \/ req'[r].op = req[r].op
<1>1. Goto(r, "readCase") \/ Goto(r, "extract") \/ Milestones(r)
  BY DEF SaveBill
<1>. QED
  BY <1>1, GotoKept, Says DEF Kept

LEMMA AnswerStep ==
  ASSUME Typed, AnswerInv, AnswersAlone, NEW r \in Req, Moves(r)
  PROVE  /\ AnswerInv'
         /\ \A q \in Req : req[q].op = "submit" => data' = data
<1>1. ASSUME NEW q \in Req, req[q].op = "submit" PROVE data' = data
  <2>1. CASE SaveBill(r)
    <3>1. q = r
      BY <1>1, <2>1 DEF SaveBill, At, AnswersAlone
    <3>. QED
      BY <1>1, <2>1, <3>1, AnswerSaves
  <2>2. CASE ~SaveBill(r)
    BY <2>2, DataSaved
  <2>. QED
    BY <2>1, <2>2
<1>2. ASSUME NEW q \in Req, req'[q].op = "submit" PROVE req'[q].brow.data = data'
  <2>1. CASE q # r
    <3>1. req'[q] = req[q]
      BY <2>1, OthersStay
    <3>. QED
      BY <1>1, <1>2, <3>1 DEF AnswerInv
  <2>2. CASE q = r
    <3>1. req'[r].brow.data = data
      BY <1>2, <2>2, AnswerCarries
    <3>2. data' = data
      <4>1. CASE SaveBill(r)
        <5>1. req[r].op = "submit"
          BY <1>2, <2>2, <4>1, SavesOn DEF Idle, None
        <5>. QED
          BY <4>1, <5>1, AnswerSaves
      <4>. QED
        BY <4>1, DataSaved
    <3>. QED
      BY <2>2, <3>1, <3>2
  <2>. QED
    BY <2>1, <2>2
<1>. QED
  BY <1>1, <1>2 DEF AnswerInv

LEMMA InitAnswers == Init => AnswerInv
BY DEF Init, AnswerInv, Idle, None

(***************************************************************************)
(* Answering a request for documents would overwrite nothing of the bill,  *)
(* whatever else overlaps with it and wherever tasks die, if no other      *)
(* handler saved the bill between submitVerification's read of the row and *)
(* its save.                                                               *)
(***************************************************************************)
THEOREM AnswerKeepsAlone == Spec /\ []AnswersAlone => AnswerKeepsData
<1>1. Typed /\ AnswerInv /\ AnswersAlone /\ [Next]_vars
      => /\ AnswerInv'
         /\ [\A r \in Req : req[r].op = "submit" /\ req'[r] # req[r] => data' = data]_vars
  <2>1. CASE UNCHANGED vars
    BY <2>1 DEF vars, bill, AnswerInv
  <2>2. CASE ~UNCHANGED vars
    BY <2>2, AnswerStep DEF Next, Moves
  <2>. QED
    BY <2>1, <2>2
<1>. QED
  BY <1>1, InitTyped, NextTyped, InitAnswers, PTL DEF Spec, AnswerKeepsData

\* From which await to which, but for the steps that load or store a case and for OCR.
Hops ==
  ({"resolve"} \X {"insertVerif", "saveBill"}) \cup {<<"insertVerif", "setRequired">>}
  \cup ({"setRequired", "saveBill"} \X {"readCase"}) \cup {<<"find", "saveVerif">>}
  \cup (Aside \X (Aside \cup {"saveBill"})) \cup {<<"saveVerif", "saveBill">>}
  \cup ({"saveBill"} \X {"extract", "announce"}) \cup {<<"mirror", "announce">>, <<"announce", "push">>}

LEMMA Hop ==
  ASSUME Typed, NEW r \in Req, Continue(r) \/ Fail(r), ~Extract(r), ~ReadCase(r), ~SaveCase(r)
  PROVE  \/ req'[r] = Idle
         \/ /\ req'[r].op = req[r].op /\ req'[r].case = req[r].case
            /\ req'[r].target = req[r].target /\ req'[r].mirror = req[r].mirror
            /\ <<req[r].pc, req'[r].pc>> \in Hops
            /\ req'[r].pc = "insertVerif" => req[r].target = "verification_required"
            /\ req'[r].pc = "extract" => req[r].op = "ocr"
<1>. DEFINE Hopped == /\ req'[r].op = req[r].op /\ req'[r].case = req[r].case
                      /\ req'[r].target = req[r].target /\ req'[r].mirror = req[r].mirror
                      /\ <<req[r].pc, req'[r].pc>> \in Hops
                      /\ req'[r].pc = "insertVerif" => req[r].target = "verification_required"
                      /\ req'[r].pc = "extract" => req[r].op = "ocr"
<1>0. req \in [Req -> Task] /\ req[r] \in Task
  BY DEF Typed, TypeOK
<1>1. ASSUME NEW p, Goto(r, p), <<req[r].pc, p>> \in Hops,
             p = "insertVerif" => req[r].target = "verification_required",
             p = "extract" => req[r].op = "ocr"
      PROVE  Hopped
  BY <1>1, GotoKept DEF Kept
<1>2. CASE ResolvePending(r)
  <2>1. CASE req[r].target = "verification_required"
    BY <1>1, <1>2, <2>1 DEF ResolvePending, At, Hops
  <2>2. CASE req[r].target # "verification_required"
    BY <1>1, <1>2, <2>2 DEF ResolvePending, At, Hops
  <2>. QED
    BY <2>1, <2>2
<1>3. CASE InsertVerification(r) \/ SaveVerification(r)
  BY <1>1, <1>3 DEF InsertVerification, SaveVerification, At, Hops
<1>4. CASE SetRequired(r)
  BY <1>1, <1>4, FinishFields DEF SetRequired, At, Hops
<1>5. CASE FindPending(r)
  <2>1. CASE ~Finish(r)
    <3>1. PICK v : req' = [req EXCEPT ![r].pc = "saveVerif", ![r].n = v]
      BY <1>5, <2>1 DEF FindPending
    <3>. QED
      BY <1>0, <1>5, <3>1 DEF Task, FindPending, At, Hops
  <2>. QED
    BY <2>1, FinishFields
<1>6. CASE CheckSend(r) \/ SaveOffers(r) \/ CheckAccept(r) \/ CheckProposed(r) \/ InsertCase(r)
  <2>1. CASE ~Finish(r)
    <3>1. PICK p \in {"draft", "saveBill", "checkSent", "number"} : Goto(r, p)
      BY <1>6, <2>1 DEF CheckSend, SaveOffers, CheckAccept, CheckProposed, InsertCase
    <3>2. req[r].pc \in Aside
      BY <1>6 DEF CheckSend, SaveOffers, CheckAccept, CheckProposed, InsertCase, At, Aside
    <3>3. <<req[r].pc, p>> \in Hops /\ p \notin {"insertVerif", "extract"}
      BY <3>1, <3>2 DEF Hops, Aside
    <3>. QED
      BY <1>1, <3>1, <3>3
  <2>. QED
    BY <2>1, FinishFields
<1>7. CASE DraftOffers(r) \/ DrawNumber(r)
  <2>1. /\ req'[r].op = req[r].op /\ req'[r].case = req[r].case
        /\ req'[r].target = req[r].target /\ req'[r].mirror = req[r].mirror
        /\ req'[r].pc \in {"saveBill", "saveOffers", "insertCase"}
    BY <1>0, <1>7 DEF DraftOffers, DrawNumber, Task
  <2>2. req[r].pc \in Aside
    BY <1>7 DEF DraftOffers, DrawNumber, At, Aside
  <2>. QED
    BY <2>1, <2>2 DEF Hops, Aside
<1>8. CASE SaveBill(r) \/ MirrorCase(r)
  <2>1. req[r].pc = "saveBill" \/ (req[r].pc = "mirror" /\ Milestones(r))
    BY <1>8 DEF SaveBill, MirrorCase, At
  <2>2. Goto(r, "readCase") \/ (Goto(r, "extract") /\ req[r].op = "ocr") \/ Milestones(r)
    BY <1>8 DEF SaveBill, MirrorCase
  <2>3. CASE Milestones(r)
    BY <1>1, <2>1, <2>3, FinishFields DEF Milestones, Hops
  <2>4. CASE ~Milestones(r)
    BY <1>1, <2>1, <2>2, <2>4 DEF Hops
  <2>. QED
    BY <2>3, <2>4
<1>9. CASE Tells(r) \/ Fail(r)
  BY <1>1, <1>9, FinishFields DEF Tells, Announce, Push, Fail, At, Hops
<1>10. CASE SaveRejected(r)
  BY <1>10, Rejected
<1>. QED
  BY <1>2, <1>3, <1>4, <1>5, <1>6, <1>7, <1>8, <1>9, <1>10 DEF Continue, Tells

LEMMA PlacingOn ==
  ASSUME Typed, NEW r \in Req, Placing(req[r]), Moves(r)
  PROVE  Placing(req[r])'
<1>0. req \in [Req -> Task] /\ req[r] \in Task
  BY DEF Typed, TypeOK
<1>1. CASE Request(r)
  BY <1>1, RequestAsks DEF Asked, Placing, Under
<1>2. CASE Extract(r)
  BY <1>0, <1>2 DEF Extract, Task, Placing, Under
<1>3. CASE ReadCase(r)
  <2>1. /\ req'[r].op = req[r].op /\ req'[r].case = req[r].case /\ req'[r].pc = "saveCase"
        /\ req[r].pc = "readCase"
    BY <1>0, <1>3 DEF ReadCase, Task, At
  <2>. QED
    BY <2>1 DEF Placing, Under
<1>4. CASE SaveCase(r)
  <2>1. \/ req'[r] = Idle
        \/ req[r].op = "edit" /\ req'[r].pc = "announce" /\ Kept(req'[r], req[r])
        \/ req[r].op # "edit" /\ req'[r].pc = "mirror" /\ Kept(req'[r], req[r])
    BY <1>4, GotoKept, Says DEF SaveCase
  <2>. QED
    BY <2>1, IdleFollows DEF Placing, Under, Kept, Idle, None
<1>5. CASE (Continue(r) \/ Fail(r)) /\ ~Extract(r) /\ ~ReadCase(r) /\ ~SaveCase(r)
  <2>1. CASE req'[r] = Idle
    BY <2>1 DEF Placing, Idle, None
  <2>2. CASE req'[r] # Idle
    <3>1. /\ req'[r].op = req[r].op /\ req'[r].case = req[r].case
          /\ req'[r].target = req[r].target
          /\ <<req[r].pc, req'[r].pc>> \in Hops
          /\ req'[r].pc = "insertVerif" => req[r].target = "verification_required"
          /\ req'[r].pc = "extract" => req[r].op = "ocr"
      BY <1>5, <2>2, Hop
    <3>2. /\ req[r].pc \in Under \cup {"announce", "push"} =>
               req'[r].pc \in Under \cup {"announce", "push", "extract"}
          /\ req[r].pc \in {"saveCase", "announce", "push"} => req'[r].pc = "push"
          /\ req'[r].pc = "setRequired" => req[r].pc = "insertVerif"
      BY <3>1 DEF Under, Hops, Aside
    <3>. QED
      BY <3>1, <3>2 DEF Placing
  <2>. QED
    BY <2>1, <2>2
<1>. QED
  BY <1>1, <1>2, <1>3, <1>4, <1>5 DEF Moves

\* No two tasks are about to write a case.
OneOnCase ==
  \A q, r \in Req :
    req[q].pc \in {"saveCase", "mirror"} /\ req[r].pc \in {"saveCase", "mirror"} => q = r

Cleared(row) == row.act = NoDate /\ row.exp = NoDate

\* A transition clears the dates of a case that leaves activation before its status goes.
Leaving(t) ==
  t.op = "transition" =>
    /\ t.case # 0 => t.mirror \in {None, CaseStatusOf(t.target)}
    /\ t.pc = "saveCase" =>
         /\ t.crow.status = cases[t.case].status
         /\ t.target \notin LiveUtility => Cleared(t.crow)
    /\ t.pc = "mirror" /\ t.target \notin LiveUtility => Cleared(cases[t.case])

LeaveInv == \A r \in Req : Placing(req[r]) /\ Leaving(req[r])

\* A case is there to be written.
LEMMA CaseThere ==
  ASSUME Typed, NEW r \in Req, Placing(req[r]), req[r].pc \in {"readCase", "saveCase", "mirror"}
  PROVE  /\ req[r].case \in DOMAIN cases /\ cases[req[r].case] \in CaseRow /\ req[r].case # 0
         /\ req[r].op = "transition" \/ (req[r].op = "edit" /\ req[r].pc = "saveCase")
<1>1. cases \in Seq(CaseRow) /\ req[r] \in Task /\ DOMAIN cases = 1 .. Len(cases) /\ Len(cases) \in Nat
  BY LenProperties DEF Typed, TypeOK
<1>2. req[r].case \in Nat /\ req[r].case # 0 /\ req[r].case <= Len(cases)
  BY <1>1 DEF Task, Typed, Placed
<1>3. cases[req[r].case] \in CaseRow
  BY <1>1, <1>2, ElementOfSeq
<1>. QED
  BY <1>1, <1>2, <1>3 DEF Placing

LEMMA LeavesRead ==
  ASSUME Typed, NEW r \in Req, Placing(req[r]), Leaving(req[r]), ReadCase(r)
  PROVE  Leaving(req[r])'
<1>0. /\ req \in [Req -> Task] /\ req[r] \in Task /\ req[r].pc = "readCase" /\ UNCHANGED cases
  BY DEF Typed, TypeOK, ReadCase, At
<1>1. req[r].op = "transition" /\ cases[req[r].case] \in CaseRow
  BY <1>0, CaseThere
<1>2. PICK row : row = ActivationAfter(req[r].target, cases[req[r].case], req[r].act, req[r].exp)
  OBVIOUS
<1>3. row.status = cases[req[r].case].status
  BY <1>1, <1>2 DEF ActivationAfter, CaseRow
<1>4. req[r].target \notin LiveUtility => Cleared(row)
  BY <1>1, <1>2 DEF ActivationAfter, CaseRow, Cleared
<1>5. /\ req'[r].pc = "saveCase" /\ req'[r].crow = row /\ req'[r].op = req[r].op
      /\ req'[r].case = req[r].case /\ req'[r].target = req[r].target
      /\ req'[r].mirror = req[r].mirror
  BY <1>0, <1>2 DEF ReadCase, Task
<1>. QED
  BY <1>0, <1>1, <1>3, <1>4, <1>5 DEF Leaving, Cleared

LEMMA LeavesOn ==
  ASSUME Typed, NEW r \in Req, Placing(req[r]), Leaving(req[r]), Moves(r)
  PROVE  Leaving(req[r])'
<1>0. req \in [Req -> Task] /\ req[r] \in Task
  BY DEF Typed, TypeOK
<1>1. CASE Request(r)
  BY <1>1, RequestAsks DEF Asked, Leaving, MirrorOf
<1>2. CASE Extract(r)
  BY <1>0, <1>2 DEF Extract, Task, Leaving
<1>3. CASE ReadCase(r)
  BY <1>3, LeavesRead
<1>4. CASE SaveCase(r)
  <2>1. CASE req[r].op = "edit"
    BY <1>4, <2>1, Says DEF SaveCase, Kept, Leaving, Idle, None
  <2>2. CASE req[r].op = "transition"
    <3>1. req'[r].pc = "mirror" /\ Kept(req'[r], req[r]) /\ req[r].pc = "saveCase"
      BY <1>4, <2>2, GotoKept DEF SaveCase, At
    <3>2. cases'[req[r].case] = req[r].crow
      BY <1>4, <3>1, CaseThere, CaseStored DEF SaveCase
    <3>. QED
      BY <3>1, <3>2 DEF Leaving, Kept, Cleared
  <2>. QED
    BY <1>4, <2>1, <2>2, CaseThere DEF SaveCase, At
<1>5. CASE (Continue(r) \/ Fail(r)) /\ ~Extract(r) /\ ~ReadCase(r) /\ ~SaveCase(r)
  <2>1. CASE req'[r] = Idle
    BY <2>1 DEF Leaving, Idle, None
  <2>2. CASE req'[r] # Idle
    <3>1. /\ req'[r].op = req[r].op /\ req'[r].case = req[r].case
          /\ req'[r].target = req[r].target /\ req'[r].mirror = req[r].mirror
          /\ <<req[r].pc, req'[r].pc>> \in Hops
      BY <1>5, <2>2, Hop
    <3>. QED
      BY <3>1 DEF Leaving, Hops, Aside
  <2>. QED
    BY <2>1, <2>2
<1>. QED
  BY <1>1, <1>2, <1>3, <1>4, <1>5 DEF Moves

\* A step on the cases leaves what another transition saw of its own.
LEMMA LeaveStep ==
  ASSUME Typed, LeaveInv, OneOnCase, NEW r \in Req, Moves(r)
  PROVE  LeaveInv'
<1>0. cases \in Seq(CaseRow) /\ DOMAIN cases = 1 .. Len(cases) /\ Len(cases) \in Nat
  BY LenProperties DEF Typed, TypeOK
<1>1. Placing(req[r])' /\ Leaving(req[r])'
  BY PlacingOn, LeavesOn DEF LeaveInv
<1>2. ASSUME NEW q \in Req, q # r PROVE Placing(req[q])' /\ Leaving(req[q])'
  <2>1. req'[q] = req[q] /\ Placing(req[q]) /\ Leaving(req[q])
    BY <1>2, OthersStay DEF LeaveInv
  <2>2. req[q].pc \in {"saveCase", "mirror"} => cases'[req[q].case] = cases[req[q].case]
    <3>1. ASSUME req[q].pc \in {"saveCase", "mirror"}, SaveCase(r) \/ MirrorCase(r) PROVE FALSE
      BY <1>2, <3>1 DEF OneOnCase, SaveCase, MirrorCase, At
    <3>2. ASSUME req[q].pc \in {"saveCase", "mirror"}, InsertCase(r)
          PROVE  cases'[req[q].case] = cases[req[q].case]
      <4>1. req[q].case \in 1 .. Len(cases)
        BY <1>0, <2>1, <3>2, CaseThere
      <4>2. ASSUME NEW o \in Offer, cases' = Append(cases, [NoCase EXCEPT !.offer = o])
            PROVE  cases'[req[q].case] = cases[req[q].case]
        <5>1. PICK row : row = [NoCase EXCEPT !.offer = o]
          OBVIOUS
        <5>2. row \in CaseRow
          BY <5>1, IdleType DEF NoCase, CaseRow
        <5>. QED
          BY <1>0, <4>1, <4>2, <5>1, <5>2, AppendProperties
      <4>3. req[r].offers \subseteq Offer
        BY DEF Typed, TypeOK, Task
      <4>. QED
        BY <3>2, <4>2, <4>3 DEF InsertCase
    <3>. QED
      BY <3>1, <3>2, CasesStay
  <2>3. Leaving(req[q])'
    BY <2>1, <2>2 DEF Leaving, Cleared
  <2>4. Placing(req[q])'
    BY <2>1 DEF Placing
  <2>. QED
    BY <2>3, <2>4
<1>. QED
  BY <1>1, <1>2 DEF LeaveInv

LEMMA LiveMirrored ==
  ASSUME NEW t \in LiveUtility PROVE CaseStatusOf(t) \in LiveUtility
BY DEF LiveUtility, CaseStatusOf

\* Who takes a case out of activation without clearing its dates: an edit.
LEMMA LeaveTaken ==
  ASSUME Typed, LeaveInv, NEW r \in Req, Moves(r), NEW c \in DOMAIN cases,
         cases[c].status \in LiveUtility, cases'[c].status \notin LiveUtility
  PROVE  \/ cases'[c].act = NoDate /\ cases'[c].exp = NoDate
         \/ req[r].op = "edit" /\ SaveCase(r)
<1>0. /\ cases \in Seq(CaseRow) /\ DOMAIN cases = 1 .. Len(cases) /\ Len(cases) \in Nat
      /\ Placing(req[r]) /\ Leaving(req[r])
  BY LenProperties DEF Typed, TypeOK, LeaveInv
<1>1. ~InsertCase(r)
  <2>1. ASSUME NEW o \in Offer, cases' = Append(cases, [NoCase EXCEPT !.offer = o]) PROVE FALSE
    <3>1. PICK row : row = [NoCase EXCEPT !.offer = o]
      OBVIOUS
    <3>2. row \in CaseRow
      BY <3>1, IdleType DEF NoCase, CaseRow
    <3>3. cases'[c] = cases[c]
      BY <1>0, <2>1, <3>1, <3>2, AppendProperties
    <3>. QED
      BY <3>3
  <2>2. req[r].offers \subseteq Offer
    BY DEF Typed, TypeOK, Task
  <2>. QED
    BY <2>1, <2>2 DEF InsertCase
<1>2. CASE SaveCase(r)
  <2>1. c = req[r].case /\ req[r].pc = "saveCase"
    BY <1>2, CasesSaved DEF SaveCase, At
  <2>2. cases'[c] = req[r].crow
    BY <1>0, <1>2, <2>1, CaseStored DEF SaveCase
  <2>3. req[r].op # "transition"
    BY <1>0, <2>1, <2>2 DEF Leaving
  <2>. QED
    BY <1>0, <1>2, <2>1, <2>3, CaseThere
<1>3. CASE MirrorCase(r)
  <2>1. c = req[r].case /\ req[r].pc = "mirror"
    BY <1>3, CasesSaved DEF MirrorCase, At
  <2>2. req[r].op = "transition" /\ cases[c] \in CaseRow /\ c # 0
    BY <1>0, <2>1, CaseThere
  <2>3. req[r].mirror # None
    BY <1>3 DEF MirrorCase
  <2>4. PICK row : row = [cases[c] EXCEPT !.status = req[r].mirror]
    OBVIOUS
  <2>5. row.status = req[r].mirror /\ row.act = cases[c].act /\ row.exp = cases[c].exp
    BY <2>2, <2>4 DEF CaseRow
  <2>6. cases'[c] = row
    <3>1. StoreCase(c, row)
      BY <1>3, <2>1, <2>3, <2>4 DEF MirrorCase
    <3>. QED
      BY <3>1, CaseStored
  <2>7. req[r].target \notin LiveUtility
    BY <1>0, <2>1, <2>2, <2>3, <2>5, <2>6, LiveMirrored DEF Leaving
  <2>. QED
    BY <1>0, <2>1, <2>2, <2>5, <2>6, <2>7 DEF Leaving, Cleared
<1>. QED
  BY <1>1, <1>2, <1>3, CasesStay

LEMMA InitLeaves == Init => LeaveInv
BY IdleFollows DEF Init, LeaveInv, Leaving, None

\* MovedBackClearsDates, but for the edit of the case itself.
Moved ==
  \A c \in DOMAIN cases :
    cases[c].status \in LiveUtility /\ cases'[c].status \notin LiveUtility
    => \/ cases'[c].act = NoDate /\ cases'[c].exp = NoDate
       \/ \E r \in Req : req[r].op = "edit" /\ SaveCase(r)

OnlyEditsKeepDates == [][Moved]_vars

(***************************************************************************)
(* While no two tasks write the cases at a time, a case that is moved back *)
(* from activation loses its dates, wherever tasks die, unless it is       *)
(* updateCase that moves it: that endpoint, and no transition of the bill, *)
(* is where the code departs from its documentation.                       *)
(***************************************************************************)
THEOREM OnlyEditsMoveBack == Spec /\ []OneOnCase => OnlyEditsKeepDates
<1>1. Typed /\ LeaveInv /\ OneOnCase /\ [Next]_vars => LeaveInv' /\ [Moved]_vars
  <2>1. CASE UNCHANGED vars
    BY <2>1 DEF vars, LeaveInv, Leaving, Placing, Cleared
  <2>2. ASSUME Typed, LeaveInv, OneOnCase, NEW r \in Req, Moves(r) PROVE LeaveInv' /\ Moved
    BY <2>2, LeaveStep, LeaveTaken DEF Moved
  <2>. QED
    BY <2>1, <2>2 DEF Next, Moves
<1>. QED
  BY <1>1, InitTyped, NextTyped, InitLeaves, PTL DEF Spec, OnlyEditsKeepDates

=============================================================================
