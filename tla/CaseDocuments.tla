--------------------------- MODULE CaseDocuments ---------------------------
(***************************************************************************)
(* The documents of one switch case: uploaded by the customer or for them, *)
(* verified or rejected by an operator, and replaced when rejected.  A     *)
(* rejected document is kept, and what replaces it points back at it.      *)
(***************************************************************************)
EXTENDS Notices

VARIABLE docs      \* case_documents of the case, by creation

Doc == Row
NoDoc == 0

\* verified, rejectedAt and the columns that go with them: always set together.
Verdict == {"none", "verified", "rejected"}

DocRow == [verdict : Verdict, of : {NoDoc} \cup Doc]     \* of: replaces_document_id

DocTask ==
       [pc : {"checkReplaced", "saveVerdict"}, doc : Doc, verdict : {"verified", "rejected"}]
  \cup [pc : {"insertDoc"}, of : {NoDoc} \cup Doc, by : {"customer", "operator"}]

DocOK == docs \in Seq(DocRow) /\ Len(docs) <= MaxRequests

Replaced(d) == \E e \in DOMAIN docs : docs[e].of = d

\* uploadDocument, of a document nobody asked for.
UploadDoc(r) ==
  /\ \E by \in {"customer", "operator"} :
       Call(r, [pc |-> "insertDoc", of |-> NoDoc, by |-> by])
  /\ UNCHANGED <<docs, notices>>

\* uploadDocument, in place of a document that was rejected, or 400.
ReplaceDoc(r) ==
  /\ \E d \in DOMAIN docs, by \in {"customer", "operator"} :
       /\ docs[d].verdict = "rejected"
       /\ Call(r, [pc |-> "insertDoc", of |-> d, by |-> by])
  /\ UNCHANGED <<docs, notices>>

\* Only a customer's replacement is news to the operators.
InsertDoc(r) ==
  LET t == task[r]
      news == IF t.of # NoDoc /\ t.by = "customer" THEN <<"replaced", t.of>> ELSE <<>> IN
  /\ At(r, "insertDoc")
  /\ docs' = Append(docs, [verdict |-> "none", of |-> t.of])
  /\ IF news = <<>> THEN UNCHANGED notices ELSE Happens({news})
  /\ Tell(r, IF news = <<>> THEN <<>> ELSE <<news>>)

\* verifyDocument and rejectDocument: the document is read ...
JudgeDoc(r) ==
  /\ \E d \in DOMAIN docs, v \in {"verified", "rejected"} :
       Call(r, [pc |-> "checkReplaced", doc |-> d, verdict |-> v])
  /\ UNCHANGED <<docs, notices>>

\* A slip: it is ruled on whatever came in its place.
SkipReplaced(r) ==
  /\ At(r, "checkReplaced")
  /\ Goto(r, "saveVerdict")
  /\ UNCHANGED <<docs, notices>>

\* ... and must not have been replaced, or 400 (findReviewableDocument).
CheckReplaced(r) ==
  /\ At(r, "checkReplaced")
  /\ IF Replaced(task[r].doc) THEN Finish(r) ELSE Goto(r, "saveVerdict")
  /\ UNCHANGED <<docs, notices>>

\* Every column of the verdict is written, or cleared.
SaveVerdict(r) ==
  LET t == task[r]
      news == <<"rejected", t.doc>> IN
  /\ At(r, "saveVerdict")
  /\ docs' = [docs EXCEPT ![t.doc].verdict = t.verdict]
  /\ IF t.verdict = "rejected"
     THEN Happens({news}) /\ Tell(r, <<news>>)
     ELSE UNCHANGED notices /\ Finish(r)

DocRequest(r) == UploadDoc(r) \/ ReplaceDoc(r) \/ JudgeDoc(r)
DocStep(r) == InsertDoc(r) \/ CheckReplaced(r) \/ SaveVerdict(r)

DocInit == docs = <<>>

-----------------------------------------------------------------------------

(***************************************************************************)
(* What was replaced stays rejected, so a replacement never comes in place *)
(* of a document that counts: as long as tasks do not overlap.  (A verdict *)
(* that looked before the replacement came in may still be saved after.)   *)
(***************************************************************************)
ReplacedIsRejected ==
  alone => \A d \in DOMAIN docs : Replaced(d) => docs[d].verdict = "rejected"
=============================================================================
