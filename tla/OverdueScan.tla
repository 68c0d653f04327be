---------------------------- MODULE OverdueScan ----------------------------
(***************************************************************************)
(* The two scheduled jobs that speak up because time passed: the reminder  *)
(* for a document request the customer left unanswered, and the alert for  *)
(* an application the operators left where it is.                          *)
(*                                                                         *)
(* Both are the same machine.  A row waits; when it has waited long enough *)
(* it is overdue; a job reads the oldest overdue rows, MAX_ROWS_PER_RUN of *)
(* them, and announces them one by one under a dedupe key that names the   *)
(* wait.  The rows go on changing under a job that has read them, a job    *)
(* does not wait for the one before it, and either may die half-way.       *)
(*                                                                         *)
(* A request waits once.  A bill waits anew each time its status moves to  *)
(* one where the next step is the operators': a new wait, and a new key.   *)
(***************************************************************************)
EXTENDS Naturals, Sequences, FiniteSets

CONSTANTS
  Job,         \* the runs of the job that may be under way at once
  Kind,        \* the jobs of this instance: over requests, over bills, or each
  MaxRows,     \* MAX_ROWS_PER_RUN
  MaxMade,     \* bound: how many rows there ever are
  MaxWaits,    \* bound: how many times one bill waits
  MaxFails     \* bound: how many failures there are

ASSUME OverdueScanAssumption ==
  /\ Kind \subseteq {"request", "bill"}
  /\ MaxRows \in Nat \ {0}
  /\ MaxMade \in Nat
  /\ MaxWaits \in Nat \ {0}
  /\ MaxFails \in Nat

VARIABLES
  kind,        \* the job this is: over document requests, or over bills
  rows,        \* the rows of its table, oldest first
  todo,        \* what each run has read and not yet announced: keys
  pushing,     \* whether a run has stored the announcement and not yet pushed it
  nudged,      \* notifications: the dedupe keys stored
  pushes,      \* how many times each key went out as a push
  fails,       \* how many failures there were (bounded by MaxFails)
  overdueEver  \* history: the waits that ever were overdue

vars == <<kind, rows, todo, pushing, nudged, pushes, fails, overdueEver>>
table == <<kind, rows, overdueEver>>
jobs == <<todo, pushing, nudged, pushes, fails>>

Row ==
  [waiting : BOOLEAN,          \* in a status the job selects
   wait    : 1 .. MaxWaits,    \* which of its waits this is
   ripe    : BOOLEAN,          \* it has waited long enough
   orphan  : BOOLEAN]          \* its bill was deleted

Key == (1 .. MaxMade) \X (1 .. MaxWaits)

TypeOK ==
  /\ kind \in Kind
  /\ rows \in Seq(Row) /\ Len(rows) <= MaxMade
  /\ todo \in [Job -> SUBSET Key]
  /\ pushing \in [Job -> BOOLEAN]
  /\ nudged \subseteq Key
  /\ pushes \in [Key -> Nat]
  /\ fails \in 0 .. MaxFails
  /\ overdueEver \subseteq Key

-----------------------------------------------------------------------------

\* A slip: the key forgets which wait it is about.
RowOnly(v) == <<v, 0>>

\* `verification:<id>:reminder', `bill:<id>:stalled:<since>'
KeyOf(v) == <<v, rows[v].wait>>

\* What the query selects.  It never returns a deleted bill, but a request on one
\* comes back without it.
Overdue ==
  {v \in DOMAIN rows :
     rows[v].waiting /\ rows[v].ripe /\ (kind = "bill" => ~rows[v].orphan)}

Older(v) == {w \in Overdue : w < v}

\* A slip: newest first.
NewestBatch == {v \in Overdue : Cardinality({w \in Overdue : w > v}) < MaxRows}

\* Oldest first, and no more than the cap.
Batch == {v \in Overdue : Cardinality(Older(v)) < MaxRows}

\* The one a run announces next: it reads them oldest first.
Current(j) == CHOOSE k \in todo[j] : \A l \in todo[j] : k[1] <= l[1]

\* A slip: every row counts as just inserted.
AlwaysFresh(k) == k \in Key

\* ON CONFLICT DO NOTHING on the unique (user, dedupe key) index.
Fresh(k) == k \notin nudged

-----------------------------------------------------------------------------
(* The rows, under the hands of customers and operators. *)

\* A document is requested, or a bill comes in.
Open ==
  /\ Len(rows) < MaxMade
  /\ rows' = Append(rows, [waiting |-> TRUE, wait |-> 1, ripe |-> FALSE, orphan |-> FALSE])
  /\ UNCHANGED <<kind, overdueEver, jobs>>

\* The request is answered or resolved; the bill moves on.
Leave(v) ==
  /\ rows[v].waiting
  /\ rows' = [rows EXCEPT ![v].waiting = FALSE]
  /\ UNCHANGED <<kind, overdueEver, jobs>>

\* A bill moves to a status that is the operators' turn, from any other.
WaitAnew(v) ==
  /\ kind = "bill"
  /\ rows[v].wait < MaxWaits
  /\ rows' = [rows EXCEPT ![v].waiting = TRUE, ![v].wait = @ + 1, ![v].ripe = FALSE]
  /\ UNCHANGED <<kind, overdueEver, jobs>>

Delete(v) ==
  /\ ~rows[v].orphan
  /\ rows' = [rows EXCEPT ![v].orphan = TRUE]
  /\ UNCHANGED <<kind, overdueEver, jobs>>

\* 48 hours since the request was made, or three days since the status changed.
\* Requests are made in the order they are read in, so they ripen in it.
Ripen(v) ==
  /\ rows[v].waiting /\ ~rows[v].ripe
  /\ kind = "request" => \A w \in 1 .. v - 1 : rows[w].waiting => rows[w].ripe
  /\ rows' = [rows EXCEPT ![v].ripe = TRUE]
  /\ overdueEver' = overdueEver \cup {KeyOf(v)}
  /\ UNCHANGED <<kind, jobs>>

-----------------------------------------------------------------------------
(* The jobs. *)

\* The clock strikes; a request without its bill is passed over.
Scan(j) ==
  /\ todo[j] = {}
  /\ todo' = [todo EXCEPT ![j] = {KeyOf(v) : v \in {w \in Batch : ~rows[w].orphan}}]
  /\ UNCHANGED <<table, pushing, nudged, pushes, fails>>

\* The run is done with a row.
Drop(j) ==
  /\ todo' = [todo EXCEPT ![j] = @ \ {Current(j)}]
  /\ pushing' = [pushing EXCEPT ![j] = FALSE]

\* The in-app row, unless this wait was announced before.
Nudge(j) ==
  /\ todo[j] # {} /\ ~pushing[j]
  /\ IF Fresh(Current(j))
     THEN /\ nudged' = nudged \cup {Current(j)}
          /\ pushing' = [pushing EXCEPT ![j] = TRUE]
          /\ UNCHANGED todo
     ELSE Drop(j) /\ UNCHANGED nudged
  /\ UNCHANGED <<table, pushes, fails>>

Push(j) ==
  /\ pushing[j]
  /\ pushes' = [pushes EXCEPT ![Current(j)] = @ + 1]
  /\ Drop(j)
  /\ UNCHANGED <<table, nudged, fails>>

Fail ==
  /\ fails < MaxFails
  /\ fails' = fails + 1

\* A call fails for one row: it is logged, and the run goes on with the next.
Trip(j) ==
  /\ todo[j] # {}
  /\ Fail
  /\ Drop(j)
  /\ UNCHANGED <<table, nudged, pushes>>

\* The process is killed.
Die(j) ==
  /\ todo[j] # {}
  /\ Fail
  /\ todo' = [todo EXCEPT ![j] = {}]
  /\ pushing' = [pushing EXCEPT ![j] = FALSE]
  /\ UNCHANGED <<table, nudged, pushes>>

-----------------------------------------------------------------------------

Init ==
  /\ kind \in Kind
  /\ rows = <<>>
  /\ todo = [j \in Job |-> {}]
  /\ pushing = [j \in Job |-> FALSE]
  /\ nudged = {}
  /\ pushes = [k \in Key |-> 0]
  /\ fails = 0
  /\ overdueEver = {}

Change ==
  \/ Open
  \/ \E v \in DOMAIN rows : Leave(v) \/ WaitAnew(v) \/ Delete(v) \/ Ripen(v)

Run(j) == Scan(j) \/ Nudge(j) \/ Push(j) \/ Trip(j) \/ Die(j)

Next == Change \/ \E j \in Job : Run(j)

\* The clock strikes again and again, and a run that is not killed goes on.
Fairness == \A j \in Job : WF_vars(Scan(j)) /\ WF_vars(Nudge(j) \/ Push(j))

Spec == Init /\ [][Next]_vars /\ Fairness

-----------------------------------------------------------------------------

(***************************************************************************)
(* However the runs overlap, wherever they die, and whatever becomes of    *)
(* the rows they have read: a wait is announced only once it was overdue,  *)
(* and pushed at most once.                                                *)
(***************************************************************************)
News == INSTANCE CustomerNews
          WITH News <- Key, happened <- overdueEver, heard <- pushes
KeepsThePromise == News!Spec

(***************************************************************************)
(* A row that stays overdue, with fewer than MAX_ROWS_PER_RUN older ones   *)
(* overdue with it, is announced; a bill that moved and stalled again is   *)
(* announced again.                                                        *)
(***************************************************************************)
Stays(k) ==
  /\ k[1] \in Overdue
  /\ KeyOf(k[1]) = k
  /\ ~rows[k[1]].orphan

OldestAnnounced ==
  \A k \in Key :
    <>[](Stays(k) /\ Cardinality(Older(k[1])) < MaxRows) => <>(k \in nudged)

\* The rows over the cap are picked up by a later run.
RestPickedUp == \A k \in Key : <>[]Stays(k) => <>(k \in nudged)
=============================================================================
