----------------------------- MODULE BillIntake ----------------------------
(***************************************************************************)
(* How the bills of one customer come in: uploaded in the app, or promised *)
(* by e-mail, with a placeholder that waits for an operator to upload the  *)
(* file or to merge a bill uploaded elsewhere into it.  What becomes of a  *)
(* bill after that is BillPipeline's.                                      *)
(***************************************************************************)
EXTENDS Notices

CONSTANT BillType  \* electricity, gas

VARIABLES
  bills,           \* energy_bills of the customer, by creation
  files,           \* bill_files: the <<bill, file>> rows
  kept             \* history: the files that were ever stored as a bill's own

intake == <<bills, files, kept>>

NoFile == 0
File == Row            \* a request brings at most one file, numbered as it is

Status == {"pending_email", "analyzing", "verification_review"}

BillRow ==
  [type : BillType, source : {"upload", "email"}, status : Status,
   file : {NoFile} \cup File, live : BOOLEAN]

Filed == {row \in BillRow : row.file # NoFile}

IntakeTask ==
       [pc : {"insertBill"}, row : BillRow, told : BOOLEAN, read : BOOLEAN]
  \cup [pc : {"saveUpload"}, bill : Row, row : Filed, read : BOOLEAN]
  \cup [pc : {"insertFile"}, bill : Row, row : Filed, told : BOOLEAN, read : BOOLEAN]
  \cup [pc : {"saveRead", "addFile"}, bill : Row, row : Filed]
  \cup [pc : {"saveMerged"}, bill : Row, into : Row, row : BillRow]
  \cup [pc : {"dropMerged"}, bill : Row]

IntakeOK ==
  /\ bills \in Seq(BillRow) /\ Len(bills) <= MaxRequests
  /\ files \subseteq Row \X File
  /\ kept \subseteq File

Live == {b \in DOMAIN bills : bills[b].live}

\* The placeholders of a type that wait for their file.
Waiting(type) ==
  {b \in Live : bills[b].type = type /\ bills[b].status = "pending_email"
                                     /\ bills[b].source = "email"}

\* save writes the whole row: a bill deleted since it was read is back.
Store(b, row) ==
  /\ bills' = [bills EXCEPT ![b] = row]
  /\ kept' = kept \cup ({row.file} \ {NoFile})

\* What is told of bill b when the task is through with it.
Submitted(t, b) == IF t.told THEN <<<<"submitted", b>>, <<"check", b>>>> ELSE <<>>

\* uploadBill
Upload(r) ==
  /\ \E type \in BillType :
       Call(r, [pc |-> "insertBill", told |-> TRUE, read |-> FALSE,
                row |-> [type |-> type, source |-> "upload", live |-> TRUE,
                         status |-> "verification_review", file |-> started']])
  /\ UNCHANGED <<intake, notices>>

\* A slip: the customer may ask as often as they like.
PromiseAgain(r) ==
  /\ \E type \in BillType :
       Call(r, [pc |-> "insertBill", told |-> TRUE, read |-> FALSE,
                row |-> [type |-> type, source |-> "email", live |-> TRUE,
                         status |-> "pending_email", file |-> NoFile]])
  /\ UNCHANGED <<intake, notices>>

\* createEmailBillPlaceholder, unless one of the type waits already: 400.
Promise(r) ==
  /\ \E type \in BillType :
       /\ Waiting(type) = {}
       /\ Call(r, [pc |-> "insertBill", told |-> TRUE, read |-> FALSE,
                   row |-> [type |-> type, source |-> "email", live |-> TRUE,
                            status |-> "pending_email", file |-> NoFile]])
  /\ UNCHANGED <<intake, notices>>

\* adminUploadEmailBill: into the newest placeholder of the type, or a new bill;
\* the client may have had the file read already.
UploadEmail(r) ==
  /\ \E type \in BillType, read \in BOOLEAN :
       LET waiting == Waiting(type) IN
       IF waiting = {}
       THEN Call(r, [pc |-> "insertBill", told |-> FALSE, read |-> read,
                     row |-> [type |-> type, source |-> "email", live |-> TRUE,
                              status |-> "analyzing", file |-> started']])
       ELSE \E b \in waiting :
              /\ \A c \in waiting : c <= b
              /\ Call(r, [pc |-> "saveUpload", bill |-> b, read |-> read,
                          row |-> [bills[b] EXCEPT !.file = started',
                                                   !.status = "analyzing"]])
  /\ UNCHANGED <<intake, notices>>

\* addFileToBill and adminAddFileToBill: one more file of a bill.
AddFile(r) ==
  /\ \E b \in Live : Call(r, [pc |-> "addFile", bill |-> b,
                              row |-> [bills[b] EXCEPT !.file = started']])
  /\ UNCHANGED <<intake, notices>>

\* adminAssociateBillWithUser, with a placeholder of the customer to merge into.
Merge(r) ==
  /\ \E b \in Live, p \in Live :
       /\ bills[p].status = "pending_email"
       /\ Call(r, [pc |-> "saveMerged", bill |-> b, into |-> p,
                   row |-> [bills[p] EXCEPT !.file = bills[b].file,
                              !.status = IF bills[b].file = NoFile
                                         THEN "pending_email" ELSE "analyzing"]])
  /\ UNCHANGED <<intake, notices>>

\* A bill that has no file has nothing more to store.
InsertBill(r) ==
  LET t == task[r]
      b == Len(bills) + 1 IN
  /\ At(r, "insertBill")
  /\ bills' = Append(bills, t.row)
  /\ kept' = kept \cup ({t.row.file} \ {NoFile})
  /\ IF t.told THEN Happens({<<"submitted", b>>, <<"check", b>>}) ELSE UNCHANGED notices
  /\ IF t.row.file = NoFile
     THEN Tell(r, Submitted(t, b))
     ELSE Resume(r, [pc |-> "insertFile", bill |-> b, row |-> t.row,
                     told |-> t.told, read |-> t.read])
  /\ UNCHANGED files

SaveUpload(r) ==
  LET t == task[r] IN
  /\ At(r, "saveUpload")
  /\ Store(t.bill, t.row)
  /\ Resume(r, [pc |-> "insertFile", bill |-> t.bill, row |-> t.row,
                told |-> FALSE, read |-> t.read])
  /\ UNCHANGED <<files, notices>>

\* createBillFileRecord
InsertFile(r) ==
  LET t == task[r] IN
  /\ At(r, "insertFile")
  /\ files' = files \cup {<<t.bill, t.row.file>>}
  /\ IF t.read THEN Resume(r, [pc |-> "saveRead", bill |-> t.bill, row |-> t.row])
     ELSE Tell(r, Submitted(t, t.bill))
  /\ UNCHANGED <<bills, kept, notices>>

InsertAdded(r) ==
  /\ At(r, "addFile")
  /\ files' = files \cup {<<task[r].bill, task[r].row.file>>}
  /\ Finish(r)
  /\ UNCHANGED <<bills, kept, notices>>

\* The values read off the file are in: the whole row again, up for review.
SaveRead(r) ==
  LET t == task[r] IN
  /\ At(r, "saveRead")
  /\ Store(t.bill, [t.row EXCEPT !.status = "verification_review"])
  /\ Finish(r)
  /\ UNCHANGED <<files, notices>>

\* A slip: the merged bill goes first, and takes the only copy with it.
DropFirst(r) ==
  LET b == task[r].bill IN
  /\ At(r, "saveMerged")
  /\ bills' = IF \E f \in files : f[1] = b THEN bills
              ELSE [bills EXCEPT ![b].live = FALSE]
  /\ Finish(r)
  /\ UNCHANGED <<files, kept, notices>>

\* The placeholder has the file of the bill it is merged with ...
SaveMerged(r) ==
  LET t == task[r] IN
  /\ At(r, "saveMerged")
  /\ Store(t.into, t.row)
  /\ Resume(r, [pc |-> "dropMerged", bill |-> t.bill])
  /\ UNCHANGED <<files, notices>>

\* ... which is then soft-deleted, unless it has rows of files: they can be neither
\* soft-deleted with it nor left without a bill, and the delete is rejected.
DropMerged(r) ==
  LET b == task[r].bill IN
  /\ At(r, "dropMerged")
  /\ bills' = IF \E f \in files : f[1] = b THEN bills
              ELSE [bills EXCEPT ![b].live = FALSE]
  /\ Finish(r)
  /\ UNCHANGED <<files, kept, notices>>

IntakeRequest(r) == Upload(r) \/ Promise(r) \/ UploadEmail(r) \/ AddFile(r) \/ Merge(r)

IntakeStep(r) ==
  \/ InsertBill(r) \/ SaveUpload(r) \/ InsertFile(r) \/ InsertAdded(r)
  \/ SaveRead(r) \/ SaveMerged(r) \/ DropMerged(r)

IntakeInit == bills = <<>> /\ files = {} /\ kept = {}

-----------------------------------------------------------------------------

\* The task has looked, and is to store a placeholder of the type.
Places(r, type) ==
  /\ task[r].pc \in {"insertBill", "saveMerged"}
  /\ task[r].row.type = type /\ task[r].row.status = "pending_email"

\* No two such tasks at once: they would meet between the look and the store.
PlaceholdersApart ==
  \A type \in BillType : \A r, s \in Req : Places(r, type) /\ Places(s, type) => r = s

(***************************************************************************)
(* A customer waits for one e-mail of a kind at a time, whatever became of *)
(* the earlier ones and whatever else overlaps, as long as no two tasks    *)
(* are both past the look and before the store of a placeholder of the     *)
(* kind: createEmailBillPlaceholder looks, and inserts one await later.    *)
(***************************************************************************)
OneWaits == \A type \in BillType : \A b, c \in Waiting(type) : b = c

(***************************************************************************)
(* The file a bill came with is never lost: through uploads into a         *)
(* placeholder, and merges that die half-way, some bill that was not       *)
(* deleted has it.  (Two uploads into one placeholder at once keep one.)   *)
(***************************************************************************)
FilesKept == alone => kept \subseteq {bills[b].file : b \in Live}
=============================================================================
