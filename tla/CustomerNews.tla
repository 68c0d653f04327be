---------------------------- MODULE CustomerNews ----------------------------
(***************************************************************************)
(* What the milestone notifications promise a customer about one           *)
(* application, with no request, status column or database in sight: a     *)
(* milestone is heard about only after the application reached it, and is  *)
(* heard about at most once, for ever.                                     *)
(***************************************************************************)
EXTENDS Naturals

CONSTANT News            \* the milestones

VARIABLES
  happened,              \* the milestones the application has reached
  heard                  \* how many times each was pushed to the customer

vars == <<happened, heard>>

Init ==
  /\ happened = {}
  /\ heard = [m \in News |-> 0]

\* The application reaches milestones; it never un-reaches one.
Happen ==
  /\ happened \subseteq happened'
  /\ happened' \subseteq News
  /\ UNCHANGED heard

\* The customer is told, once, about something that did happen.
Hear(m) ==
  /\ m \in happened
  /\ heard[m] = 0
  /\ heard' = [heard EXCEPT ![m] = 1]
  /\ UNCHANGED happened

Next == Happen \/ \E m \in News : Hear(m)

Spec == Init /\ [][Next]_vars

=============================================================================
