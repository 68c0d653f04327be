----------------------- MODULE MCSupplierLifecycle -----------------------
(* Instances of SupplierLifecycle for TLC; the constants have their values *)
(* in the two MCSupplierLifecycle_*.cfg.                                   *)
EXTENDS SupplierLifecycle, TLC

CONSTANT First   \* offers differ by their names only: this one is made first

VARIABLE cut     \* history: a deletion died between its schedule and its early cases

\* Where two tasks run at once they keep out of each other's windows; one alone always does.
Clear == MovesStayClear /\ NewOffers /\ OffersMadeApart /\ SavesApart /\ AcceptedApart

Making == UNION {req[r].offers : r \in {r \in Req : At(r, "insertOffer")}}
InOrder == First \notin Making /\ offers[First] = "absent" => Making' \subseteq Making \cup {First}

\* The behaviours of Spec that keep clear, up to the names of offers.
MCInit == Init /\ cut = FALSE
MCNext == Next /\ InOrder /\ Clear /\ cut' = (cut \/ ~SparesCancel)
MCSpec == MCInit /\ [][MCNext]_<<vars, cut>> /\ Fairness

(***************************************************************************)
(* A supplier that is to go has no case at an early stage once its         *)
(* deletion got to cancelling them (deleteSupplier,                        *)
(* cancelEarlyStageCases).                                                 *)
(***************************************************************************)
NoEarlyUncut == ~cut => NoEarlyWhileScheduled
=============================================================================
