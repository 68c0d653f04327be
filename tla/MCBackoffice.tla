---------------------------- MODULE MCBackoffice ---------------------------
(* The instance of Backoffice that TLC checks; its other constants have    *)
(* their values in MCBackoffice_desk.cfg.                                  *)
EXTENDS Backoffice, TLC

VARIABLE apart     \* history: no two placeholders of a kind were on their way at once

\* Tasks differ by their names only.
MCSlots == Permutations(Req)

MCQuota == [documents |-> 5, support |-> 5, intake |-> 4, reading |-> 1, order |-> 4]

\* Zero, a plausible number and one that is not, where they differ.
MCShown ==
  [totalAmount  |-> {0, 7},       consumption |-> {0, 2, 7}, costPerUnit |-> {1, 2, 11},
   fixedCharges |-> {0, 2},       taxes |-> {0, 2},
   billingPeriodStart |-> {0, 7}, billingPeriodEnd |-> {0, 7}]

\* Nothing, or all that may be typed in of a bill that is still to be read.
MCTyped ==
  {Blank, [f \in Field |-> IF f = "totalAmount" THEN None ELSE 2]}

MCInit == Init /\ apart = TRUE
MCNext == Next /\ apart' = (apart /\ PlaceholdersApart')
MCSpec == MCInit /\ [][MCNext]_<<vars, apart>>

(***************************************************************************)
(* A customer waits for one e-mail of a kind, in every behaviour in which  *)
(* no two tasks were both past their look and before the store of a        *)
(* placeholder of the kind (createEmailBillPlaceholder).                   *)
(***************************************************************************)
OneWaitsApart == apart => OneWaits
=============================================================================
