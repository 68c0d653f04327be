--------------------------- MODULE MCBillPipeline ---------------------------
(* Instances of BillPipeline for TLC. *)
EXTENDS BillPipeline

\* No dates at all; a supply of days 1 to 2; an end without a beginning.
MCDatePair == {<<NoDate, NoDate>>, <<1, 2>>, <<NoDate, 1>>}
MCNoDates == {<<NoDate, NoDate>>}
MCPlainDates == {<<NoDate, NoDate>>, <<1, 2>>}
=============================================================================
