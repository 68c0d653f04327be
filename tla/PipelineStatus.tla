--------------------------- MODULE PipelineStatus ---------------------------
(***************************************************************************)
(* The vocabulary of the switching pipeline: the statuses of a bill and of *)
(* a switch case, how one is mirrored onto the other, and which of them    *)
(* the customer hears about.  Constant definitions only, so that every     *)
(* module of the pipeline, and every proof about it, shares them.          *)
(***************************************************************************)

BillStatus ==
  {"pending_email", "uploaded", "analyzing", "analyzed", "error",
   "verification_review", "verification_required", "verified",
   "offer_sent", "offer_accepted", "contract_sent",
   "awaiting_activation", "activated", "cancelled"}

CaseStatus ==
  {"new", "in_progress", "documents_pending", "contract_sent",
   "activated", "rejected", "cancelled", "awaiting_activation"}

\* The cases whose utility belongs to the customer.
LiveUtility == {"awaiting_activation", "activated"}

\* The cases that no longer hold on to their bill.
ClosedCase == {"cancelled", "rejected"}

\* "none" stands for the absent value of each partial map below.
None == "none"

\* A slip: the bill status copied as it is.
CaseStatusCopied(s) == s

(***************************************************************************)
(* The case status a bill status is mirrored onto; `error' has none.       *)
(***************************************************************************)
CaseStatusOf(s) ==
  CASE s \in {"pending_email", "uploaded", "analyzing", "analyzed"} -> "new"
    [] s \in {"verification_review", "verified", "offer_sent", "offer_accepted"}
         -> "in_progress"
    [] s = "verification_required" -> "documents_pending"
    [] s \in {"contract_sent", "awaiting_activation", "activated", "cancelled"} -> s
    [] OTHER -> None

(***************************************************************************)
(* The milestones of an application, which are the suffixes of the dedupe  *)
(* key `bill:<id>:<event>', and the two columns they are reached through.  *)
(***************************************************************************)
Milestone ==
  {"offers_available", "contract_ready", "in_activation", "activated", "cancelled"}

BillMilestone(s) ==
  CASE s = "offer_sent"          -> "offers_available"
    [] s = "contract_sent"       -> "contract_ready"
    [] s = "awaiting_activation" -> "in_activation"
    [] s = "activated"           -> "activated"
    [] s = "cancelled"           -> "cancelled"
    [] OTHER -> None

CaseMilestone(s) ==
  CASE s = "contract_sent"       -> "contract_ready"
    [] s = "awaiting_activation" -> "in_activation"
    [] s = "activated"           -> "activated"
    [] s \in ClosedCase          -> "cancelled"
    [] OTHER -> None

=============================================================================
