----------------------------- MODULE BillReading ---------------------------
(***************************************************************************)
(* How the figures and the period of a bill are read off its pages by a    *)
(* vision model (vision-ocr.service.ts): one look, a second at what is     *)
(* missing, and the one figure that follows from the four others derived   *)
(* (italian-bill.utils.ts); then kept on the bill, over what the client    *)
(* typed in.  The text on a bill is read likewise, and nothing is derived. *)
(***************************************************************************)
EXTENDS Calls, Integers

CONSTANTS
  Shown,        \* bound: the numbers that may be read, by field
  Typed,        \* bound: what may be typed in with an upload
  Unit,         \* the smallest price, in money: one Unit-th of a cent (10000)
  MinPrice,     \* the lowest plausible price, in the smallest (a tenth of a cent)
  MaxPrice      \* the highest (5 euro)

VARIABLES
  uploaded,     \* whether the bill is in: each is read once
  sheet,        \* the figures and the period on it
  guessed       \* history: the figures that were derived, not read

Figure == {"totalAmount", "consumption", "costPerUnit", "fixedCharges", "taxes"}
Period == {"billingPeriodStart", "billingPeriodEnd"}
Field == Figure \cup Period

ASSUME ReadingAssumption ==
  /\ Shown \in [Field -> SUBSET Int]
  /\ Typed \subseteq [Field -> Int \cup {None}]
  /\ Unit \in Nat \ {0}
  /\ MinPrice \in Nat \ {0} /\ MaxPrice \in Nat
  /\ None \notin Int

\* getMissingMandatoryFields: the price is not one of them.
Mandatory == Field \ {"costPerUnit"}

Blank == [f \in Field |-> None]
Has(s, F) == \A f \in F : s[f] # None

\* What the model may answer: of the figures, or of the period, in any part.
Answer ==
  {[f \in Field |-> IF f \in F THEN a[f] ELSE None] :
     F \in {Figure, Period},
     a \in {b \in [Field -> UNION {Shown[f] : f \in Field} \cup {None}] :
              \A f \in Field : b[f] \in Shown[f] \cup {None}}}

\* A reading, and what of it was derived.
Reading == [read : [Field -> Int \cup {None}], derived : SUBSET Figure]

ReadTask ==
  [pc : {"look", "lookAgain", "retry", "store"}, reading : Reading, tries : 0 .. 2]

ReadingOK ==
  /\ uploaded \in BOOLEAN
  /\ sheet \in [Field -> Int \cup {None}]
  /\ guessed \subseteq Figure

\* validateNumericRange, but for the upper ends of the amounts.
Plausible(f, v) ==
  CASE f = "totalAmount" -> v > 0
    [] f = "costPerUnit" -> v \in MinPrice .. MaxPrice
    [] OTHER             -> v >= 0

Validated(a) ==
  [f \in Field |-> IF a[f] # None /\ Plausible(f, a[f]) THEN a[f] ELSE None]

\* toFixed: x over y, to the nearest whole; a half goes away from zero.
Round(x, y) ==
  IF x >= 0 THEN (2 * x + y) \div (2 * y) ELSE -((y - 2 * x) \div (2 * y))

\* What a figure comes to, by the four others.
Worth(s, f) ==
  CASE f = "costPerUnit"  -> Round((s.totalAmount - s.fixedCharges - s.taxes) * Unit,
                                   s.consumption)
    [] f = "taxes"        -> Round((s.totalAmount - s.fixedCharges) * Unit
                                     - s.consumption * s.costPerUnit, Unit)
    [] f = "fixedCharges" -> Round((s.totalAmount - s.taxes) * Unit
                                     - s.consumption * s.costPerUnit, Unit)

\* Whether it is derived: it is missing, the others are there, and it makes sense.
Derivable(s) ==
  {f \in {"costPerUnit", "taxes", "fixedCharges"} :
     /\ s[f] = None
     /\ Has(s, Figure \ {f})
     /\ IF f = "costPerUnit"
        THEN /\ s.consumption > 0
             /\ s.totalAmount - s.fixedCharges - s.taxes > 0
             /\ Worth(s, f) \in MinPrice .. MaxPrice
        ELSE Worth(s, f) >= 0}

\* deriveFields
Derived(s) ==
  LET new == Derivable(s) IN [f \in Field |-> IF f \in new THEN Worth(s, f) ELSE s[f]]

\* A period that ends before it starts was read the wrong way round.
Ordered(s) ==
  IF Has(s, Period) /\ s.billingPeriodStart > s.billingPeriodEnd
  THEN [s EXCEPT !.billingPeriodStart = s.billingPeriodEnd,
                 !.billingPeriodEnd = s.billingPeriodStart]
  ELSE s

\* processRawExtraction
Process(a) ==
  LET s == Ordered(Validated(a)) IN [read |-> Derived(s), derived |-> Derivable(s)]

\* A slip: the second look corrects the first.
FillOver(reading, a) ==
  LET v == Validated(a)
      s == [f \in Field |-> IF v[f] # None THEN v[f] ELSE reading.read[f]] IN
  [read |-> Ordered(Derived(s)), derived |-> reading.derived \cup Derivable(s)]

\* mergeSecondPassResult: it fills what the first left open, and no more.
FillIn(reading, a) ==
  LET v == Validated(a)
      s == [f \in Field |-> IF reading.read[f] = None THEN v[f] ELSE reading.read[f]] IN
  [read |-> Ordered(Derived(s)), derived |-> reading.derived \cup Derivable(s)]

Nothing == [read |-> Blank, derived |-> {}]

\* uploadBill without what a bill is known by: it is read in the background.
UploadUnread(r) ==
  /\ ~uploaded
  /\ uploaded' = TRUE
  /\ sheet' \in Typed
  /\ Call(r, [pc |-> "look", reading |-> Nothing, tries |-> 0])
  /\ UNCHANGED guessed

\* The model answers, ...
Look(r) ==
  /\ At(r, "look")
  /\ \E a \in Answer :
       LET reading == Process(a) IN
       Resume(r, [task[r] EXCEPT
                    !.reading = reading,
                    !.pc = IF Has(reading.read, Mandatory) THEN "store" ELSE "lookAgain"])
  /\ UNCHANGED <<uploaded, sheet, guessed>>

\* ... or refuses; 429 and 50x are tried again, twice.
Refused(r) ==
  LET t == task[r] IN
  /\ t.pc \in {"look", "retry"} /\ t.tries < 2
  /\ Resume(r, [t EXCEPT !.pc = "retry", !.tries = @ + 1])
  /\ UNCHANGED <<uploaded, sheet, guessed>>

\* What it then answers is not looked at a second time.
Retry(r) ==
  /\ At(r, "retry")
  /\ \E a \in Answer : Resume(r, [task[r] EXCEPT !.reading = Process(a), !.pc = "store"])
  /\ UNCHANGED <<uploaded, sheet, guessed>>

\* Any other error, or too many: the bill keeps what was typed in.
GiveUp(r) ==
  /\ task[r].pc \in {"look", "retry"}
  /\ Finish(r)
  /\ UNCHANGED <<uploaded, sheet, guessed>>

\* A second look that fails leaves the first reading.
LookAgain(r) ==
  LET t == task[r] IN
  /\ At(r, "lookAgain")
  /\ \/ \E a \in Answer :
          Resume(r, [t EXCEPT !.reading = FillIn(t.reading, a), !.pc = "store"])
     \/ Goto(r, "store")
  /\ UNCHANGED <<uploaded, sheet, guessed>>

\* What was read goes over what was typed in; what was not leaves it.
StoreReading(r) ==
  LET reading == task[r].reading
      read == {f \in Field : reading.read[f] # None} IN
  /\ At(r, "store")
  /\ sheet' = [f \in Field |-> IF f \in read THEN reading.read[f] ELSE sheet[f]]
  /\ guessed' = (guessed \ read) \cup reading.derived
  /\ Finish(r)
  /\ UNCHANGED uploaded

ReadStep(r) ==
  Look(r) \/ Refused(r) \/ Retry(r) \/ GiveUp(r) \/ LookAgain(r) \/ StoreReading(r)

ReadingInit == uploaded = FALSE /\ sheet = Blank /\ guessed = {}

-----------------------------------------------------------------------------

\* The figures of a sheet add up, but for the rounding of the one derived.
AddsUp(s, derived) ==
  LET off == (s.totalAmount - s.fixedCharges - s.taxes) * Unit
               - s.consumption * s.costPerUnit
      most == IF "costPerUnit" \in derived THEN s.consumption ELSE Unit IN
  2 * off <= most /\ -2 * off <= most

(***************************************************************************)
(* A bill on which a figure was derived adds up: what one look read, what  *)
(* a second filled in and what was typed in before are never mixed so that *)
(* the derived figure no longer follows from the others; and a reading's   *)
(* period does not end before it starts (deriveFields, the two passes of   *)
(* vision-ocr.service.ts and the background upload).                       *)
(***************************************************************************)
ReadingCoheres ==
  /\ guessed # {} => Has(sheet, Figure) /\ AddsUp(sheet, guessed)
  /\ \A r \in Req :
       At(r, "store") /\ Has(task[r].reading.read, Period) =>
         task[r].reading.read.billingPeriodStart <= task[r].reading.read.billingPeriodEnd
=============================================================================
