---------------------------- MODULE MCMembership ---------------------------
(* The instance of Membership that TLC checks; its other constants have    *)
(* their values in MCMembership_customer.cfg.                              *)
EXTENDS Membership, TLC

VARIABLE apart     \* history: nothing met in the windows of codes and devices yet

\* Tasks differ by their names only.
MCSlots == Permutations(Req)

MCQuota == [codes |-> 5, account |-> 4, consent |-> 5, devices |-> 5]

MCInit == Init /\ apart = TRUE
MCNext == Next /\ apart' = (apart /\ DrawsApart /\ SignInsApart)
MCSpec == MCInit /\ [][MCNext]_<<vars, apart>>

-----------------------------------------------------------------------------
(* What holds of every behaviour that stays out of those windows. *)

(***************************************************************************)
(* There is one code of a kind to type in, unless two tasks were about to  *)
(* insert one at once (generateAndSaveOtp).                                *)
(***************************************************************************)
OneUnusedApart == apart => OneUnused

(***************************************************************************)
(* A user is reached where they are signed in, unless somebody signed in   *)
(* on a device whose token a push was about to give up (saveToken,         *)
(* deliverPush).                                                           *)
(***************************************************************************)
ActiveApart == apart => ActiveWhereSignedIn
=============================================================================
