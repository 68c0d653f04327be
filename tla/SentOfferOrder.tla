-------------------------- MODULE SentOfferOrder ---------------------------
(***************************************************************************)
(* The order in which the customer sees the offers sent for one bill:      *)
(* every batch joins the end, and an operator rearranges the list by hand. *)
(***************************************************************************)
EXTENDS Calls, Sequences, FiniteSets

CONSTANT Offer     \* the offers of the catalogue

ASSUME OrderAssumption == IsFiniteSet(Offer)

VARIABLE sent      \* sent_offers of the bill, by creation

SentRow == [offer : Offer, place : Nat]

\* Lists without a repetition: what a batch, or an order, may name.
Lists == {s \in UNION {[1 .. n -> Offer] : n \in 1 .. Cardinality(Offer)} :
            \A i, j \in DOMAIN s : s[i] = s[j] => i = j}

OrderTask ==
       [pc : {"insertSent"}, rows : Seq(SentRow)]
  \cup [pc : {"saveOrder"}, listed : Lists, order : Seq(Nat)]

OrderOK == sent \in Seq(SentRow)

Sent == {sent[i].offer : i \in DOMAIN sent}

\* One after the last place taken.
NextPlace ==
  LET taken == {sent[i].place : i \in DOMAIN sent} IN
  IF taken = {} THEN 0 ELSE 1 + CHOOSE n \in taken : \A m \in taken : m <= n

Listed(list, i) == \E k \in DOMAIN list : list[k] = sent[i].offer
Rank(list, i) == CHOOSE k \in DOMAIN list : list[k] = sent[i].offer

\* A slip: the rest follows in the order of its creation.
EarlierRow(i, j) == i < j

\* The rest follows by its present place, and by creation where that is shared.
Earlier(i, j) ==
  sent[i].place < sent[j].place \/ (sent[i].place = sent[j].place /\ i < j)

\* A slip: the listed offers go first, and the others stay where they are.
PlaceNudged(list, i) == IF Listed(list, i) THEN Rank(list, i) - 1 ELSE sent[i].place

\* Positions are dense from 0: the list first, then the rest (reorderSentOffers).
PlaceIn(list, i) ==
  IF Listed(list, i) THEN Rank(list, i) - 1
  ELSE Len(list) + Cardinality({j \in DOMAIN sent : ~Listed(list, j) /\ Earlier(j, i)})

\* sendOffersToUser: the offers not sent yet, in the order the operator chose.
SendOffers(r) ==
  /\ \E new \in Lists :
       /\ \A k \in DOMAIN new : new[k] \notin Sent
       /\ Call(r, [pc |-> "insertSent",
                   rows |-> [k \in DOMAIN new |->
                               [offer |-> new[k], place |-> NextPlace + k - 1]]])
  /\ UNCHANGED sent

\* One insert; the unique (bill, offer) index rejects all of it.
InsertSent(r) ==
  LET rows == task[r].rows IN
  /\ At(r, "insertSent")
  /\ sent' = IF \E k \in DOMAIN rows : rows[k].offer \in Sent THEN sent ELSE sent \o rows
  /\ Finish(r)

\* reorderSentOffers, by a list of offers that were all sent, or 400.
Reorder(r) ==
  /\ \E list \in Lists :
       /\ \A k \in DOMAIN list : list[k] \in Sent
       /\ Call(r, [pc |-> "saveOrder", listed |-> list,
                   order |-> [i \in DOMAIN sent |-> PlaceIn(list, i)]])
  /\ UNCHANGED sent

\* The rows it read get their places; one sent meanwhile keeps its own.
SaveOrder(r) ==
  LET order == task[r].order IN
  /\ At(r, "saveOrder")
  /\ sent' = [i \in DOMAIN sent |-> IF i \in DOMAIN order
                                    THEN [sent[i] EXCEPT !.place = order[i]] ELSE sent[i]]
  /\ Finish(r)

OrderRequest(r) == SendOffers(r) \/ Reorder(r)
OrderStep(r) == InsertSent(r) \/ SaveOrder(r)

OrderInit == sent = <<>>

-----------------------------------------------------------------------------

(***************************************************************************)
(* "Dense per bill (0, 1, 2 ...)": no two offers share a place and none is *)
(* left empty, by any sequence of batches and rearrangements that do not   *)
(* overlap.  (A batch sent while a list is saved may share a place.)       *)
(***************************************************************************)
PlacesDense == alone => {sent[i].place : i \in DOMAIN sent} = 0 .. Len(sent) - 1

(***************************************************************************)
(* Rearranging shows the listed offers first, in the order listed, and     *)
(* leaves the others in the order they were shown in.                      *)
(***************************************************************************)
RestKeepsOrder ==
  [][\A r \in Req :
       LET list == task[r].listed
           After(i, j) == sent'[i].place < sent'[j].place IN
       alone /\ At(r, "saveOrder") /\ ~At(r, "saveOrder")' /\ fails' = fails =>
         \A i, j \in DOMAIN sent : i # j =>
           (After(i, j) <=>
              \/ Listed(list, i) /\ ~Listed(list, j)
              \/ Listed(list, i) /\ Listed(list, j) /\ Rank(list, i) < Rank(list, j)
              \/ ~Listed(list, i) /\ ~Listed(list, j) /\ sent[i].place < sent[j].place)]_<<sent, calls>>
=============================================================================
