---------------------------- MODULE BillPipeline ----------------------------
(***************************************************************************)
(* One energy bill on its way to a new supplier: the bill row, the switch  *)
(* cases opened on it, the documents the operators asked for, the offers   *)
(* proposed, and the milestone notifications sent to the customer.         *)
(*                                                                         *)
(* Every handler of the API runs as a task of its own, and control passes  *)
(* to other tasks at each `await': a task is the place it has reached (pc) *)
(* and the rows it still holds in memory.  Nothing is transactional, so a  *)
(* task that dies leaves what it wrote, and `save' writes back the whole   *)
(* in-memory row, columns the handler never touched included, or rejects   *)
(* it when a request or a case was added to the relations it came with.    *)
(*                                                                         *)
(* Bills do not share any of this state, so one bill is modelled.          *)
(***************************************************************************)
EXTENDS PipelineStatus, Integers, Sequences

CONSTANTS
  Req,          \* the request slots of the server: tasks that may run at once
  Offer,        \* the offers of the catalogue
  NoOffer,      \* the offer of a case row that is not a case
  DatePair,     \* the <<activation, expiry>> dates a client may send
  Target,       \* the bill statuses an administrator moves the bill to
  EditTarget,   \* the case statuses an administrator sets on the case itself
  Ops,          \* the operations the clients of this instance call
  MayFail,      \* whether a task may die, or a database call reject, at an await
  MaxRequests   \* bound: how many tasks are started in all

NoDate == 0
Date == Nat

OpName == {"transition", "request", "submit", "send", "accept", "edit", "correct", "ocr"}

ASSUME BillPipelineAssumption ==
  /\ NoOffer \notin Offer
  /\ DatePair \subseteq Date \X Date
  /\ Target \subseteq BillStatus
  /\ EditTarget \subseteq CaseStatus
  /\ Ops \subseteq OpName
  /\ MayFail \in BOOLEAN
  /\ MaxRequests \in Nat

VARIABLES
  status,       \* energy_bills.status
  data,         \* who last wrote the values read off the bill
  cases,        \* switch_cases of the bill, oldest first; the index is the case number
  verifs,       \* bill_verifications of the bill, oldest first: their statuses
  sent,         \* sent_offers of the bill
  told,         \* notifications: the milestones with a row under `bill:<id>:<event>'
  pushes,       \* how many times each milestone went out as a push
  req,          \* the running tasks
  ocrDue,       \* the upload came without OCR values, extraction not yet started
  started,      \* how many tasks were started (bounded by MaxRequests)
  reached,      \* history: the bill statuses ever stored
  caseReached   \* history: the case statuses ever stored

bill == <<status, data>>
news == <<told, pushes>>
history == <<reached, caseReached>>
vars == <<bill, cases, verifs, sent, news, req, ocrDue, started, history>>

DataVersion == {"intake", "ocr", "admin", "customer"}
VerificationStatus == {"pending", "submitted", "resolved"}
BillRow == [status : BillStatus, data : DataVersion]
CaseRow == [offer : Offer \cup {NoOffer}, status : CaseStatus, act : Date, exp : Date]

Pc == {"idle", "resolve", "saveBill", "insertVerif", "setRequired", "readCase",
       "saveCase", "mirror", "find", "saveVerif", "checkSend", "draft",
       "saveOffers", "checkAccept", "checkSent", "number", "insertCase", "extract",
       "announce", "push"}

Task ==
  [op     : OpName \cup {None},          \* the handler
   pc     : Pc,                          \* the await it has reached
   brow   : BillRow,                     \* the bill entity it loaded
   kin    : Nat \X Nat,                  \* how many requests and cases came with it
   case   : Nat,                         \* the case it works on, 0 for none
   crow   : CaseRow,                     \* the case entity it loaded
   target : BillStatus,                  \* the bill status it is to save
   mirror : CaseStatus \cup {None},      \* the case status it is to mirror
   say    : Milestone \cup {None},       \* the milestone it is to announce
   act    : Date, exp : Date,            \* the dates it was sent
   offers : SUBSET Offer,                \* the offers it was sent
   n      : Nat]                         \* a verification, or a drawn case number

NoCase == [offer |-> NoOffer, status |-> "new", act |-> NoDate, exp |-> NoDate]
Uploaded == [status |-> "verification_review", data |-> "intake"]
Idle ==
  [op |-> None, pc |-> "idle", brow |-> Uploaded, kin |-> <<0, 0>>, case |-> 0,
   crow |-> NoCase, target |-> "uploaded", mirror |-> None, say |-> None, act |-> NoDate,
   exp |-> NoDate, offers |-> {}, n |-> 0]

TypeOK ==
  /\ status \in BillStatus
  /\ data \in DataVersion
  /\ cases \in Seq(CaseRow)
  /\ verifs \in Seq(VerificationStatus)
  /\ sent \subseteq Offer
  /\ told \subseteq Milestone
  /\ pushes \in [Milestone -> Nat]
  /\ req \in [Req -> Task]
  /\ ocrDue \in BOOLEAN
  /\ started \in Nat
  /\ reached \subseteq BillStatus
  /\ caseReached \subseteq CaseStatus

-----------------------------------------------------------------------------
(* What the handlers look at. *)

BillNow == [status |-> status, data |-> data]
Kin == <<Len(verifs), Len(cases)>>
Pending == {v \in DOMAIN verifs : verifs[v] = "pending"}
Open == {c \in DOMAIN cases : cases[c].status \notin ClosedCase}
InOrder(act, exp) == act # NoDate /\ exp # NoDate => exp > act

\* A slip: a bill put in activation without its dates.
DatesInOrder(t, act, exp) == InOrder(act, exp)

\* assertActivationDates: what the dates sent with a transition must satisfy.
DatesAccepted(t, act, exp) ==
  /\ t = "awaiting_activation" => act # NoDate /\ exp # NoDate
  /\ InOrder(act, exp)

\* updateCase: each date of the case is set, cleared, or left alone.
EditDates(row) ==
  {<<a, e>> : a \in {row.act} \cup {d[1] : d \in DatePair},
              e \in {row.exp} \cup {d[2] : d \in DatePair}}

\* updateCase: what the dates of the resulting case must satisfy.
EditAccepted(s, act, exp) ==
  /\ s = "awaiting_activation" => act # NoDate /\ exp # NoDate
  /\ InOrder(act, exp)

\* applyActivationDates: the dates the case is left with.
ActivationAfter(t, crow, act, exp) ==
  IF t \in LiveUtility
  THEN [crow EXCEPT !.act = IF act # NoDate THEN act ELSE @,
                    !.exp = IF exp # NoDate THEN exp ELSE @]
  ELSE [crow EXCEPT !.act = NoDate, !.exp = NoDate]

\* A slip: the oldest case.
OldestCase == IF cases = <<>> THEN 0 ELSE 1

\* The case a transition follows: the most recently created one, open or not.
ActiveCase == Len(cases)

\* The status to mirror onto a case last seen in status s, None for no update.
MirrorOf(t, s) == IF CaseStatusOf(t) = s THEN None ELSE CaseStatusOf(t)

\* Two slips: the open requests are left open; the answered ones are closed too.
LeftOpen == verifs
AllResolved == [v \in DOMAIN verifs |-> "resolved"]

\* Closing out every request still open.
Resolved == [v \in DOMAIN verifs |-> IF v \in Pending THEN "resolved" ELSE verifs[v]]

\* A slip: every row counts as just inserted.
AlwaysFresh(m) == m \in Milestone

\* ON CONFLICT DO NOTHING on the unique (user, dedupe key) index.
Fresh(m) == m \notin told

-----------------------------------------------------------------------------
(* How tasks move. *)

Start(r, op, task) ==
  /\ op \in Ops
  /\ started < MaxRequests
  /\ req[r] = Idle
  /\ req' = [req EXCEPT ![r] = task]
  /\ started' = started + 1

At(r, p) == req[r].pc = p
Goto(r, p) == req' = [req EXCEPT ![r].pc = p]
Finish(r) == req' = [req EXCEPT ![r] = Idle]

\* The one write of the bill row, and of a case row, with what it makes history.
StoreBill(row) ==
  /\ status' = row.status
  /\ data' = row.data
  /\ reached' = reached \cup {row.status}

StoreCase(c, row) ==
  /\ cases' = [cases EXCEPT ![c] = row]
  /\ caseReached' = caseReached \cup {row.status}

-----------------------------------------------------------------------------
(* The requests: each reads the bill or the case, and validates. *)

\* transitionBillStatus, to any status but the present one.  A move to
\* verification_required takes the path of requestVerification.
ReadTransition(r) ==
  \E t \in Target \ {status}, d \in DatePair :
    LET newest == ActiveCase
        was == IF newest = 0 THEN NoCase ELSE cases[newest] IN
    /\ DatesAccepted(t, d[1], d[2])
    /\ Start(r, "transition",
         [Idle EXCEPT !.op = "transition", !.pc = "resolve", !.brow = BillNow, !.kin = Kin,
                      !.case = newest, !.crow = was, !.target = t,
                      !.mirror = IF newest = 0 THEN None ELSE MirrorOf(t, was.status),
                      !.say = BillMilestone(t), !.act = d[1], !.exp = d[2]])
    /\ UNCHANGED <<bill, cases, verifs, sent, news, ocrDue, history>>

\* requestVerification called on its own.
ReadRequest(r) ==
  /\ Start(r, "request",
       [Idle EXCEPT !.op = "request", !.pc = "resolve", !.brow = BillNow,
                    !.target = "verification_required"])
  /\ UNCHANGED <<bill, cases, verifs, sent, news, ocrDue, history>>

\* A slip: the answer leaves the bill where it is.
ReadSubmitInPlace(r) ==
  /\ Start(r, "submit",
       [Idle EXCEPT !.op = "submit", !.pc = "find", !.brow = BillNow, !.kin = Kin,
                    !.target = status])
  /\ UNCHANGED <<bill, cases, verifs, sent, news, ocrDue, history>>

\* submitVerification: the customer answers a request for documents.
ReadSubmit(r) ==
  /\ Start(r, "submit",
       [Idle EXCEPT !.op = "submit", !.pc = "find", !.brow = BillNow, !.kin = Kin,
                    !.target = "verification_review"])
  /\ UNCHANGED <<bill, cases, verifs, sent, news, ocrDue, history>>

\* sendOffersToUser: a batch of offers for a bill read as verified.
ReadSend(r) ==
  \E os \in SUBSET Offer \ {{}} :
    /\ status \in {"verified", "offer_sent"}
    /\ Start(r, "send",
         [Idle EXCEPT !.op = "send", !.pc = "checkSend", !.brow = BillNow, !.kin = Kin,
                      !.offers = os, !.target = "offer_sent",
                      !.say = "offers_available"])
    /\ UNCHANGED <<bill, cases, verifs, sent, news, ocrDue, history>>

\* createCase: the customer accepts one offer, and may correct the POD on the way.
ReadAccept(r) ==
  \E o \in Offer, d \in {data, "customer"} :
    /\ Start(r, "accept",
         [Idle EXCEPT !.op = "accept", !.pc = "checkAccept",
                      !.brow = [BillNow EXCEPT !.data = d],
                      !.offers = {o}, !.target = "offer_accepted"])
    /\ UNCHANGED <<bill, cases, verifs, sent, news, ocrDue, history>>

\* updateCase: an administrator rewrites a case, in any state, on any offer.
ReadEdit(r) ==
  \E c \in DOMAIN cases : \E s \in EditTarget \cup {cases[c].status}, o \in Offer,
                             d \in EditDates(cases[c]) :
    /\ EditAccepted(s, d[1], d[2])
    /\ Start(r, "edit",
         [Idle EXCEPT !.op = "edit", !.pc = "saveCase", !.case = c,
                      !.crow = [offer |-> o, status |-> s, act |-> d[1], exp |-> d[2]],
                      !.say = IF s = cases[c].status THEN None ELSE CaseMilestone(s)])
    /\ UNCHANGED <<bill, cases, verifs, sent, news, ocrDue, history>>

\* adminUpdateBill: an administrator corrects the values read off the bill.
ReadCorrect(r) ==
  /\ Start(r, "correct",
       [Idle EXCEPT !.op = "correct", !.pc = "saveBill", !.target = status, !.kin = Kin,
                    !.brow = [BillNow EXCEPT !.data = "admin"]])
  /\ UNCHANGED <<bill, cases, verifs, sent, news, ocrDue, history>>

\* processOcrInBackground goes on working with the row the upload inserted.
StartOcr(r) ==
  /\ ocrDue
  /\ ocrDue' = FALSE
  /\ Start(r, "ocr",
       [Idle EXCEPT !.op = "ocr", !.pc = "saveBill", !.brow = Uploaded,
                    !.target = "analyzing"])
  /\ UNCHANGED <<bill, cases, verifs, sent, news, history>>

-----------------------------------------------------------------------------
(* The awaits of the handlers. *)

\* verificationRepository.update(PENDING -> RESOLVED)
ResolvePending(r) ==
  /\ At(r, "resolve")
  /\ verifs' = Resolved
  /\ Goto(r, IF req[r].target = "verification_required"
             THEN "insertVerif" ELSE "saveBill")
  /\ UNCHANGED <<bill, cases, sent, news, ocrDue, started, history>>

InsertVerification(r) ==
  /\ At(r, "insertVerif")
  /\ verifs' = Append(verifs, "pending")
  /\ Goto(r, "setRequired")
  /\ UNCHANGED <<bill, cases, sent, news, ocrDue, started, history>>

\* billRepository.update: the status column alone.
SetRequired(r) ==
  /\ At(r, "setRequired")
  /\ StoreBill([BillNow EXCEPT !.status = "verification_required"])
  /\ IF req[r].case = 0 THEN Finish(r) ELSE Goto(r, "readCase")
  /\ UNCHANGED <<cases, verifs, sent, news, ocrDue, started, caseReached>>

\* The newest request still waiting, or 404.
FindPending(r) ==
  /\ At(r, "find")
  /\ IF Pending = {}
     THEN Finish(r)
     ELSE \E v \in Pending :
            /\ \A w \in Pending : w <= v
            /\ req' = [req EXCEPT ![r].pc = "saveVerif", ![r].n = v]
  /\ UNCHANGED <<bill, cases, verifs, sent, news, ocrDue, started, history>>

SaveVerification(r) ==
  /\ At(r, "saveVerif")
  /\ verifs' = [verifs EXCEPT ![req[r].n] = "submitted"]
  /\ Goto(r, "saveBill")
  /\ UNCHANGED <<bill, cases, sent, news, ocrDue, started, history>>

\* An offer accepted meanwhile, or 400.
CheckSend(r) ==
  /\ At(r, "checkSend")
  /\ IF Open # {} THEN Finish(r) ELSE Goto(r, "draft")
  /\ UNCHANGED <<bill, cases, verifs, sent, news, ocrDue, started, history>>

\* A slip: with nothing new to propose, the customer is told straight away.
DraftAndTell(r) ==
  /\ At(r, "draft")
  /\ req' = [req EXCEPT ![r].pc = IF req[r].offers \subseteq sent
                                  THEN "announce" ELSE "saveOffers",
                        ![r].offers = @ \ sent]
  /\ UNCHANGED <<bill, cases, verifs, sent, news, ocrDue, started, history>>

\* Offers already proposed are dropped from the batch.
DraftOffers(r) ==
  /\ At(r, "draft")
  /\ req' = [req EXCEPT ![r].pc = IF req[r].offers \subseteq sent
                                  THEN "saveBill" ELSE "saveOffers",
                        ![r].offers = @ \ sent]
  /\ UNCHANGED <<bill, cases, verifs, sent, news, ocrDue, started, history>>

\* One insert for the batch; the unique (bill, offer) index rejects all of it.
SaveOffers(r) ==
  /\ At(r, "saveOffers")
  /\ IF req[r].offers \cap sent # {}
     THEN Finish(r) /\ UNCHANGED sent
     ELSE sent' = sent \cup req[r].offers /\ Goto(r, "saveBill")
  /\ UNCHANGED <<bill, cases, verifs, news, ocrDue, started, history>>

\* One bill, one switch, or 400.
CheckAccept(r) ==
  /\ At(r, "checkAccept")
  /\ IF Open = {} THEN Goto(r, "checkSent") ELSE Finish(r)
  /\ UNCHANGED <<bill, cases, verifs, sent, news, ocrDue, started, history>>

\* A slip: any offer of the catalogue will do.
SkipProposed(r) ==
  /\ At(r, "checkSent")
  /\ Goto(r, "number")
  /\ UNCHANGED <<bill, cases, verifs, sent, news, ocrDue, started, history>>

\* The offer was proposed for this bill, or 400.
CheckProposed(r) ==
  /\ At(r, "checkSent")
  /\ IF req[r].offers \subseteq sent THEN Goto(r, "number") ELSE Finish(r)
  /\ UNCHANGED <<bill, cases, verifs, sent, news, ocrDue, started, history>>

\* generateCaseNumber: the last number drawn today, plus one.
DrawNumber(r) ==
  /\ At(r, "number")
  /\ req' = [req EXCEPT ![r].pc = "insertCase", ![r].n = Len(cases) + 1]
  /\ UNCHANGED <<bill, cases, verifs, sent, news, ocrDue, started, history>>

\* The unique case number rejects the second of two that drew the same one.
InsertCase(r) ==
  /\ At(r, "insertCase")
  /\ IF req[r].n = Len(cases) + 1
     THEN \E o \in req[r].offers :
            /\ cases' = Append(cases, [NoCase EXCEPT !.offer = o])
            /\ caseReached' = caseReached \cup {"new"}
            /\ Goto(r, "saveBill")
     ELSE Finish(r) /\ UNCHANGED <<cases, caseReached>>
  /\ UNCHANGED <<bill, verifs, sent, news, ocrDue, started, reached>>

\* A milestone is announced next, if the status is one.
Milestones(r) == IF req[r].say = None THEN Finish(r) ELSE Goto(r, "announce")

\* The handlers that load the bill with its relations (getBillById), and whose
\* copy lacks a row that was inserted since.
WithKin == {"transition", "submit", "send", "correct"}
Orphaning(r) == req[r].op \in WithKin /\ req[r].kin # Kin

\* billRepository.save: the whole row as this task holds it, in the new status ...
SaveBill(r) ==
  /\ At(r, "saveBill")
  /\ ~Orphaning(r)
  /\ StoreBill([req[r].brow EXCEPT !.status = req[r].target])
  /\ CASE req[r].case # 0 -> Goto(r, "readCase")
       [] req[r].target = "analyzing" /\ req[r].op = "ocr" -> Goto(r, "extract")
       [] OTHER -> Milestones(r)
  /\ UNCHANGED <<cases, verifs, sent, news, ocrDue, started, caseReached>>

\* ... or none of it: TypeORM would take the rows the copy lacks from the bill, and
\* their bill_id is NOT NULL.
SaveRejected(r) ==
  /\ At(r, "saveBill")
  /\ Orphaning(r)
  /\ Finish(r)
  /\ UNCHANGED <<bill, cases, verifs, sent, news, ocrDue, started, history>>

\* The vision service answers or fails, or `analyzing' could not be saved:
\* whichever it is, the row goes to review with what was collected.
Extract(r) ==
  /\ req[r].op = "ocr"
  /\ \E d \in {"ocr", req[r].brow.data} :
       /\ \/ At(r, "extract")
          \/ MayFail /\ At(r, "saveBill") /\ d = req[r].brow.data
       /\ req' = [req EXCEPT ![r].pc = "saveBill", ![r].brow = [@ EXCEPT !.data = d],
                             ![r].target = "verification_review"]
  /\ UNCHANGED <<bill, cases, verifs, sent, news, ocrDue, started, history>>

\* applyActivationDates: the case is read afresh, and then saved whole.
ReadCase(r) ==
  /\ At(r, "readCase")
  /\ req' = [req EXCEPT ![r].pc = "saveCase",
                        ![r].crow = ActivationAfter(req[r].target, cases[req[r].case],
                                                    req[r].act, req[r].exp)]
  /\ UNCHANGED <<bill, cases, verifs, sent, news, ocrDue, started, history>>

SaveCase(r) ==
  /\ At(r, "saveCase")
  /\ StoreCase(req[r].case, req[r].crow)
  /\ IF req[r].op = "edit" THEN Milestones(r) ELSE Goto(r, "mirror")
  /\ UNCHANGED <<bill, verifs, sent, news, ocrDue, started, reached>>

\* logStatusChangeOnCase: the status column of the case alone.
MirrorCase(r) ==
  /\ At(r, "mirror")
  /\ IF req[r].mirror = None
     THEN UNCHANGED <<cases, caseReached>>
     ELSE StoreCase(req[r].case,
                    [cases[req[r].case] EXCEPT !.status = req[r].mirror])
  /\ Milestones(r)
  /\ UNCHANGED <<bill, verifs, sent, news, ocrDue, started, reached>>

\* The in-app row; a milestone the customer was already told of ends here.
Announce(r) ==
  /\ At(r, "announce")
  /\ told' = told \cup {req[r].say}
  /\ IF Fresh(req[r].say) THEN Goto(r, "push") ELSE Finish(r)
  /\ UNCHANGED <<bill, cases, verifs, sent, pushes, ocrDue, started, history>>

\* deliverPush, for the rows just inserted only.
Push(r) ==
  /\ At(r, "push")
  /\ pushes' = [pushes EXCEPT ![req[r].say] = @ + 1]
  /\ Finish(r)
  /\ UNCHANGED <<bill, cases, verifs, sent, told, ocrDue, started, history>>

\* The process is killed, or the database rejects a call: the rest never runs.
Fail(r) ==
  /\ MayFail
  /\ req[r] # Idle
  /\ Finish(r)
  /\ UNCHANGED <<bill, cases, verifs, sent, news, ocrDue, started, history>>

-----------------------------------------------------------------------------

Init ==
  /\ status = Uploaded.status
  /\ data = Uploaded.data
  /\ cases = <<>>
  /\ verifs = <<>>
  /\ sent = {}
  /\ told = {}
  /\ pushes = [m \in Milestone |-> 0]
  /\ req = [r \in Req |-> Idle]
  /\ ocrDue = ("ocr" \in Ops)
  /\ started = 0
  /\ reached = {Uploaded.status}
  /\ caseReached = {}

Request(r) ==
  \/ ReadTransition(r) \/ ReadRequest(r) \/ ReadSubmit(r) \/ ReadSend(r)
  \/ ReadAccept(r) \/ ReadEdit(r) \/ ReadCorrect(r) \/ StartOcr(r)

Continue(r) ==
  \/ ResolvePending(r) \/ InsertVerification(r) \/ SetRequired(r)
  \/ FindPending(r) \/ SaveVerification(r)
  \/ CheckSend(r) \/ DraftOffers(r) \/ SaveOffers(r)
  \/ CheckAccept(r) \/ CheckProposed(r) \/ DrawNumber(r) \/ InsertCase(r)
  \/ SaveBill(r) \/ SaveRejected(r) \/ Extract(r)
  \/ ReadCase(r) \/ SaveCase(r) \/ MirrorCase(r)
  \/ Announce(r) \/ Push(r)

Next == \E r \in Req : Request(r) \/ Continue(r) \/ Fail(r)

Spec == Init /\ [][Next]_vars

-----------------------------------------------------------------------------
(* What holds however the tasks interleave and wherever they die. *)

Happened ==
  ({BillMilestone(s) : s \in reached} \cup {CaseMilestone(s) : s \in caseReached}) \ {None}

(***************************************************************************)
(* Whichever of the bill's column, the case's column and the offers batch  *)
(* gets there first, the customer's notification centre only ever shows    *)
(* milestones the application really reached: the row is written after the *)
(* status, never instead of it (billMilestone, caseMilestone,              *)
(* offersAvailable).                                                       *)
(***************************************************************************)
ToldOnlyWhatHappened == told \subseteq Happened

(***************************************************************************)
(* No switch is opened on a bill nobody looked at: a case needs a proposed *)
(* offer, and an offer needs an operator to have put the bill in           *)
(* `verified' or `offer_sent'.  The upload, the OCR task and the           *)
(* customer's answers cannot get it there between them, in any order.      *)
(***************************************************************************)
Reviewed == reached \cap {"verified", "offer_sent"} # {}
NoSwitchBeforeReview == cases # <<>> => Reviewed

(***************************************************************************)
(* A case comes into being on an offer that was proposed for its bill,     *)
(* however long ago createCase looked.                                     *)
(***************************************************************************)
OpenedOnProposal ==
  [][Len(cases') > Len(cases) => cases'[Len(cases')].offer \in sent]_vars

(***************************************************************************)
(* The pipeline keeps the promise of CustomerNews to this customer: a push *)
(* goes out once per milestone, and only after the milestone.              *)
(***************************************************************************)
News == INSTANCE CustomerNews
          WITH News <- Milestone, happened <- Happened, heard <- pushes
KeepsThePromise == News!Spec

-----------------------------------------------------------------------------
(* What holds when one task runs at a time and none dies. *)

Quiet == \A r \in Req : req[r] = Idle

(***************************************************************************)
(* A bill waiting for documents has a request the customer can answer:     *)
(* else submitVerification is a 404 and only an operator can move it on.   *)
(***************************************************************************)
RequiredHasPending == Quiet /\ status = "verification_required" => Pending # {}

\* There is never a second request waiting, which no answer would ever settle.
OnePendingRequest == \A v, w \in Pending : v = w

(***************************************************************************)
(* "In Attivazione" always carries both of its dates, through the bill's   *)
(* transition, the case's own edit, and any sequence of the two.  A move   *)
(* to `error', which mirrors nothing onto the case, would clear them.      *)
(***************************************************************************)
AwaitingHasDates ==
  Quiet => \A c \in DOMAIN cases :
             cases[c].status = "awaiting_activation" =>
               cases[c].act # NoDate /\ cases[c].exp # NoDate

\* A request for documents is answered, or closed out, and then stays so.
SettledStays ==
  [][\A v \in DOMAIN verifs : verifs[v] # "pending" => verifs'[v] = verifs[v]]_vars

(***************************************************************************)
(* When a transition is over, the case of the switch that is under way     *)
(* shows the status the bill is mirrored onto, if it has one.              *)
(***************************************************************************)
TransitionMirrors ==
  [][\A r \in Req :
       /\ req[r].op = "transition" /\ req'[r] = Idle
       /\ cases' # <<>> /\ CaseStatusOf(status') # None
       => cases'[Len(cases')].status = CaseStatusOf(status')]_vars

-----------------------------------------------------------------------------
(* What the documentation says, and the code does not keep to. *)

\* "One bill, one switch": no two cases compete over the same supply point.
OneOpenSwitch == \A c, d \in Open : c = d

\* A case moved back before activation loses its dates, through either endpoint.
MovedBackClearsDates ==
  [][\A c \in DOMAIN cases :
       cases[c].status \in LiveUtility /\ cases'[c].status \notin LiveUtility
       => cases'[c].act = NoDate /\ cases'[c].exp = NoDate]_vars

\* Answering a request for documents never overwrites the data of the bill.
AnswerKeepsData ==
  [][\A r \in Req : req[r].op = "submit" /\ req'[r] # req[r] => data' = data]_vars
=============================================================================
