-------------------------- MODULE OverdueScanProofs --------------------------
(***************************************************************************)
(* What OverdueScan guarantees for every number of overlapping runs, rows, *)
(* waits and failures, and every cap: type correctness, and the promise of *)
(* CustomerNews, that a wait is announced only once it was overdue and     *)
(* pushed at most once.  A run takes on no more than the cap and announces *)
(* all it has taken on, and only a failure can lose a push.                *)
(***************************************************************************)
EXTENDS OverdueScan, SequenceTheorems, FiniteSetTheorems, WellFoundedInduction, TLAPS

-----------------------------------------------------------------------------
(* The inductive invariant. *)

\* A row that is ripe was overdue in its present wait.
RipeRecorded == \A v \in DOMAIN rows : rows[v].ripe => KeyOf(v) \in overdueEver

\* A run only holds, and a notification was only stored for, what was overdue.
AllOverdue ==
  /\ \A j \in Job : todo[j] \subseteq overdueEver
  /\ nudged \subseteq overdueEver

\* A key is pushed by the one run that stored it, once, after storing it.
OneVoice ==
  /\ \A k \in Key : pushes[k] \in {0, 1}
  /\ \A k \in Key : k \notin nudged => pushes[k] = 0
  /\ \A j \in Job : pushing[j] =>
       /\ todo[j] # {}
       /\ Current(j) \in nudged
       /\ pushes[Current(j)] = 0
  /\ \A i, j \in Job : pushing[i] /\ pushing[j] /\ Current(i) = Current(j) => i = j

Inv == TypeOK /\ RipeRecorded /\ AllOverdue /\ OneVoice

-----------------------------------------------------------------------------
(* The key a run is at. *)

\* A set of keys that is not empty has an oldest one.
LEMMA OldestExists ==
  ASSUME NEW T, T \subseteq Key, T # {}
  PROVE  \E k \in T : \A l \in T : k[1] <= l[1]
<1>. DEFINE N == {k[1] : k \in T}
            Less == OpToRel(<, Nat)
<1>1. N \subseteq Nat /\ N # {}
  BY OverdueScanAssumption DEF Key
<1>2. IsWellFoundedOn(Less, Nat)
  BY NatLessThanWellFounded
<1>3. \A m, n \in Nat : m < n => <<m, n>> \in Less
  BY DEF OpToRel
<1>. HIDE DEF N, Less
<1>4. PICK n \in N : \A m \in N : ~(<<m, n>> \in Less)
  BY <1>1, <1>2, WFMin
<1>5. ASSUME NEW m \in N PROVE n <= m
  <2>1. m \in Nat /\ n \in Nat
    BY <1>1
  <2>2. ~(m < n)
    BY <2>1, <1>3, <1>4
  <2>. QED
    BY <2>1, <2>2
<1>. QED
  BY <1>5 DEF N

\* While a run holds keys, the one it is at is one of them.
LEMMA CurrentHeld ==
  ASSUME TypeOK, NEW j \in Job, todo[j] # {}
  PROVE  Current(j) \in todo[j] /\ Current(j) \in Key
<1>1. todo[j] \subseteq Key
  BY DEF TypeOK
<1>. QED
  BY <1>1, OldestExists DEF Current

LEMMA KeyOfType ==
  ASSUME TypeOK, NEW v \in DOMAIN rows
  PROVE  v \in 1 .. MaxMade /\ rows[v] \in Row /\ KeyOf(v) \in Key
<1>1. rows \in Seq(Row) /\ Len(rows) <= MaxMade
  BY DEF TypeOK
<1>2. DOMAIN rows = 1 .. Len(rows) /\ Len(rows) \in Nat /\ rows[v] \in Row
  BY <1>1, LenProperties, ElementOfSeq
<1>. QED
  BY <1>1, <1>2, OverdueScanAssumption DEF KeyOf, Key, Row

-----------------------------------------------------------------------------
(* The rows change under the runs. *)

\* Rewriting one row leaves the table typed and the other rows alone.
LEMMA RowRewritten ==
  ASSUME TypeOK, NEW v \in DOMAIN rows, NEW row \in Row,
         rows' = [rows EXCEPT ![v] = row]
  PROVE  /\ rows' \in Seq(Row) /\ Len(rows') = Len(rows)
         /\ DOMAIN rows' = DOMAIN rows
         /\ rows'[v] = row
         /\ \A w \in DOMAIN rows : w # v => rows'[w] = rows[w]
<1>1. rows \in Seq(Row) /\ v \in 1 .. Len(rows)
  BY LenProperties DEF TypeOK
<1>2. rows' \in Seq(Row) /\ Len(rows') = Len(rows)
  BY <1>1, ExceptSeq
<1>. QED
  BY <1>1, <1>2

\* What is left to show of a step that changes rows and no run.
LEMMA RunsUndisturbed ==
  ASSUME Inv, UNCHANGED <<kind, jobs>>,
         rows' \in Seq(Row), Len(rows') <= MaxMade,
         overdueEver \subseteq overdueEver', overdueEver' \subseteq Key,
         RipeRecorded'
  PROVE  Inv'
<1>1. TypeOK'
  BY DEF Inv, TypeOK, jobs
<1>2. AllOverdue'
  BY DEF Inv, AllOverdue, jobs
<1>3. \A j \in Job : Current(j)' = Current(j)
  BY DEF Current, jobs
<1>4. OneVoice'
  BY <1>3 DEF Inv, OneVoice, jobs
<1>. QED
  BY <1>1, <1>2, <1>4 DEF Inv

LEMMA OpenKeeps == Inv /\ Open => Inv'
<1>. SUFFICES ASSUME Inv, Open PROVE Inv'
  OBVIOUS
<1>. DEFINE new == [waiting |-> TRUE, wait |-> 1, ripe |-> FALSE, orphan |-> FALSE]
<1>1. new \in Row
  BY OverdueScanAssumption DEF Row
<1>2. rows \in Seq(Row) /\ Len(rows) < MaxMade /\ rows' = Append(rows, new)
  BY DEF Inv, TypeOK, Open
<1>. HIDE DEF new
<1>3. rows' \in Seq(Row) /\ Len(rows') = Len(rows) + 1
  BY <1>1, <1>2, AppendProperties
<1>4. Len(rows') <= MaxMade
  BY <1>2, <1>3, LenProperties, OverdueScanAssumption
<1>5. ~rows'[Len(rows) + 1].ripe
  BY <1>2, AppendProperties DEF new
<1>6. \A v \in DOMAIN rows : rows'[v] = rows[v]
  BY <1>1, <1>2, AppendProperties
<1>7. \A v \in DOMAIN rows' : v \in DOMAIN rows \/ v = Len(rows) + 1
  BY <1>2, <1>3, LenProperties
<1>8. RipeRecorded'
  BY <1>5, <1>6, <1>7 DEF Inv, RipeRecorded, KeyOf, Open
<1>. QED
  BY <1>3, <1>4, <1>8, RunsUndisturbed DEF Open, Inv, TypeOK

LEMMA ChangeKeeps ==
  ASSUME Inv, NEW v \in DOMAIN rows, Leave(v) \/ WaitAnew(v) \/ Delete(v) \/ Ripen(v)
  PROVE  Inv'
<1>1. rows[v] \in Row /\ KeyOf(v) \in Key
  BY KeyOfType DEF Inv
<1>2. PICK row \in Row :
        /\ rows' = [rows EXCEPT ![v] = row]
        /\ row.ripe => <<v, row.wait>> \in overdueEver'
  <2>1. CASE Leave(v)
    <3>. DEFINE row == [rows[v] EXCEPT !.waiting = FALSE]
    <3>1. row \in Row /\ row.ripe = rows[v].ripe /\ row.wait = rows[v].wait
      BY <1>1 DEF Row
    <3>2. rows' = [rows EXCEPT ![v] = row] /\ overdueEver' = overdueEver
      BY <2>1 DEF Leave
    <3>. HIDE DEF row
    <3>. QED
      BY <3>1, <3>2 DEF Inv, RipeRecorded, KeyOf
  <2>2. CASE WaitAnew(v)
    <3>. DEFINE row == [rows[v] EXCEPT !.waiting = TRUE, !.wait = @ + 1, !.ripe = FALSE]
    <3>a. rows[v].wait + 1 \in 1 .. MaxWaits
      BY <1>1, <2>2, OverdueScanAssumption DEF Row, WaitAnew
    <3>1. row \in Row /\ ~row.ripe
      BY <1>1, <3>a DEF Row
    <3>2. rows' = [rows EXCEPT ![v] = row]
      BY <2>2 DEF WaitAnew
    <3>. HIDE DEF row
    <3>. QED
      BY <3>1, <3>2
  <2>3. CASE Delete(v)
    <3>. DEFINE row == [rows[v] EXCEPT !.orphan = TRUE]
    <3>1. row \in Row /\ row.ripe = rows[v].ripe /\ row.wait = rows[v].wait
      BY <1>1 DEF Row
    <3>2. rows' = [rows EXCEPT ![v] = row] /\ overdueEver' = overdueEver
      BY <2>3 DEF Delete
    <3>. HIDE DEF row
    <3>. QED
      BY <3>1, <3>2 DEF Inv, RipeRecorded, KeyOf
  <2>4. CASE Ripen(v)
    <3>. DEFINE row == [rows[v] EXCEPT !.ripe = TRUE]
    <3>1. row \in Row /\ row.wait = rows[v].wait
      BY <1>1 DEF Row
    <3>2. rows' = [rows EXCEPT ![v] = row] /\ KeyOf(v) \in overdueEver'
      BY <2>4 DEF Ripen
    <3>. HIDE DEF row
    <3>. QED
      BY <3>1, <3>2 DEF KeyOf
  <2>. QED
    BY <2>1, <2>2, <2>3, <2>4
<1>3. /\ rows' \in Seq(Row) /\ Len(rows') = Len(rows)
      /\ DOMAIN rows' = DOMAIN rows
      /\ rows'[v] = row
      /\ \A w \in DOMAIN rows : w # v => rows'[w] = rows[w]
  BY <1>2, RowRewritten DEF Inv
<1>4. overdueEver \subseteq overdueEver' /\ overdueEver' \subseteq Key
  BY <1>1 DEF Inv, TypeOK, Leave, WaitAnew, Delete, Ripen
<1>5. RipeRecorded'
  <2>. SUFFICES ASSUME NEW w \in DOMAIN rows', rows'[w].ripe
                PROVE  <<w, rows'[w].wait>> \in overdueEver'
    BY DEF RipeRecorded, KeyOf
  <2>1. CASE w = v
    BY <2>1, <1>2, <1>3
  <2>2. CASE w # v
    BY <2>2, <1>3, <1>4 DEF Inv, RipeRecorded, KeyOf
  <2>. QED
    BY <2>1, <2>2
<1>6. UNCHANGED <<kind, jobs>> /\ Len(rows') <= MaxMade
  BY <1>3 DEF Inv, TypeOK, Leave, WaitAnew, Delete, Ripen
<1>. QED
  BY <1>3, <1>4, <1>5, <1>6, RunsUndisturbed

-----------------------------------------------------------------------------
(* The runs move over the rows. *)

\* A run is at a key of its own: what others hold does not move it.
LEMMA OthersStay ==
  ASSUME TypeOK, NEW i \in Job, NEW j \in Job, i # j, NEW S,
         todo' = [todo EXCEPT ![j] = S]
  PROVE  todo'[i] = todo[i] /\ Current(i)' = Current(i)
BY DEF Current, TypeOK

\* A run that lets go of keys, and is no longer pushing, disturbs nothing.
LEMMA LettingGo ==
  ASSUME Inv, NEW j \in Job, NEW S \in SUBSET todo[j],
         todo' = [todo EXCEPT ![j] = S],
         pushing' = [pushing EXCEPT ![j] = FALSE],
         UNCHANGED <<table, nudged>>,
         pushes' \in [Key -> Nat], fails' \in 0 .. MaxFails,
         \A k \in Key : pushes'[k] \in {0, 1},
         \A k \in Key : k \notin nudged => pushes'[k] = 0,
         \A i \in Job \ {j} : pushing[i] => pushes'[Current(i)] = 0
  PROVE  Inv'
<1>1. TypeOK'
  BY DEF Inv, TypeOK, table
<1>2. RipeRecorded'
  BY DEF Inv, RipeRecorded, KeyOf, table
<1>3. AllOverdue'
  BY DEF Inv, AllOverdue, TypeOK, table
<1>4. ASSUME NEW i \in Job, pushing'[i]
      PROVE  /\ i # j /\ pushing[i]
             /\ todo'[i] = todo[i] /\ Current(i)' = Current(i)
  <2>1. i # j /\ pushing[i]
    BY <1>4 DEF Inv, TypeOK
  <2>. QED
    BY <2>1, OthersStay DEF Inv
<1>5. OneVoice'
  <2>1. \A k \in Key : k \notin nudged' => pushes'[k] = 0
    BY DEF table
  <2>2. \A i \in Job : pushing'[i] =>
          todo'[i] # {} /\ Current(i)' \in nudged' /\ pushes'[Current(i)'] = 0
    BY <1>4 DEF Inv, OneVoice
  <2>3. \A h, i \in Job : pushing'[h] /\ pushing'[i] /\ Current(h)' = Current(i)' => h = i
    BY <1>4 DEF Inv, OneVoice
  <2>. QED
    BY <2>1, <2>2, <2>3 DEF OneVoice
<1>. QED
  BY <1>1, <1>2, <1>3, <1>5 DEF Inv

LEMMA ScanKeeps ==
  ASSUME Inv, NEW j \in Job, Scan(j)
  PROVE  Inv'
<1>. DEFINE S == {KeyOf(v) : v \in {w \in Batch : ~rows[w].orphan}}
<1>1. S \subseteq Key /\ S \subseteq overdueEver
  <2>. SUFFICES ASSUME NEW v \in DOMAIN rows, rows[v].ripe
                PROVE  KeyOf(v) \in Key /\ KeyOf(v) \in overdueEver
    BY DEF Batch, Overdue
  <2>. QED
    BY KeyOfType DEF Inv, RipeRecorded
<1>2. todo' = [todo EXCEPT ![j] = S] /\ UNCHANGED <<table, pushing, nudged, pushes, fails>>
  BY DEF Scan
<1>. HIDE DEF S
<1>3. TypeOK'
  BY <1>1, <1>2 DEF Inv, TypeOK, table
<1>4. RipeRecorded'
  BY <1>2 DEF Inv, RipeRecorded, KeyOf, table
<1>5. AllOverdue'
  BY <1>1, <1>2 DEF Inv, AllOverdue, TypeOK, table
<1>6. ASSUME NEW i \in Job, pushing[i]
      PROVE  todo'[i] = todo[i] /\ Current(i)' = Current(i)
  <2>1. i # j
    BY <1>6 DEF Inv, OneVoice, Scan
  <2>. QED
    BY <1>2, <2>1, OthersStay DEF Inv
<1>7. OneVoice'
  BY <1>2, <1>6 DEF Inv, OneVoice
<1>. QED
  BY <1>3, <1>4, <1>5, <1>7 DEF Inv

LEMMA NudgeKeeps ==
  ASSUME Inv, NEW j \in Job, Nudge(j)
  PROVE  Inv'
<1>1. Current(j) \in todo[j] /\ Current(j) \in Key
  BY CurrentHeld DEF Inv, Nudge
<1>2. CASE Fresh(Current(j))
  <2>1. /\ nudged' = nudged \cup {Current(j)}
        /\ pushing' = [pushing EXCEPT ![j] = TRUE]
        /\ UNCHANGED <<table, todo, pushes, fails>>
    BY <1>2 DEF Nudge
  <2>2. TypeOK'
    BY <1>1, <2>1 DEF Inv, TypeOK, table
  <2>3. RipeRecorded'
    BY <2>1 DEF Inv, RipeRecorded, KeyOf, table
  <2>4. AllOverdue'
    BY <1>1, <2>1 DEF Inv, AllOverdue, table
  <2>5. \A i \in Job : Current(i)' = Current(i)
    BY <2>1 DEF Current
  <2>6. \A i \in Job : pushing'[i] => i = j \/ pushing[i]
    BY <2>1 DEF Inv, TypeOK
  <2>7. Current(j) \notin nudged /\ pushes[Current(j)] = 0
    BY <1>1, <1>2 DEF Fresh, Inv, OneVoice
  <2>8. OneVoice'
    <3>1. \A i \in Job : pushing'[i] =>
            todo'[i] # {} /\ Current(i)' \in nudged' /\ pushes'[Current(i)'] = 0
      BY <1>1, <2>1, <2>5, <2>6, <2>7 DEF Inv, OneVoice
    <3>2. \A h, i \in Job :
            pushing'[h] /\ pushing'[i] /\ Current(h)' = Current(i)' => h = i
      BY <2>5, <2>6, <2>7 DEF Inv, OneVoice
    <3>. QED
      BY <2>1, <3>1, <3>2 DEF Inv, OneVoice
  <2>. QED
    BY <2>2, <2>3, <2>4, <2>8 DEF Inv
<1>3. CASE ~Fresh(Current(j))
  <2>. DEFINE S == todo[j] \ {Current(j)}
  <2>1. /\ todo' = [todo EXCEPT ![j] = S]
        /\ pushing' = [pushing EXCEPT ![j] = FALSE]
        /\ UNCHANGED <<table, nudged, pushes, fails>>
    BY <1>3 DEF Nudge, Drop
  <2>2. S \in SUBSET todo[j]
    OBVIOUS
  <2>. HIDE DEF S
  <2>. QED
    BY <2>1, <2>2, LettingGo DEF Inv, TypeOK, OneVoice
<1>. QED
  BY <1>2, <1>3

LEMMA PushKeeps ==
  ASSUME Inv, NEW j \in Job, Push(j)
  PROVE  Inv' /\ Current(j) \in overdueEver /\ pushes[Current(j)] = 0
<1>. DEFINE S == todo[j] \ {Current(j)}
<1>1. /\ Current(j) \in todo[j] /\ Current(j) \in Key
      /\ Current(j) \in nudged /\ pushes[Current(j)] = 0
  BY CurrentHeld DEF Inv, OneVoice, Push
<1>2. /\ todo' = [todo EXCEPT ![j] = S]
      /\ pushing' = [pushing EXCEPT ![j] = FALSE]
      /\ UNCHANGED <<table, nudged, fails>>
  BY DEF Push, Drop
<1>3. pushes' = [pushes EXCEPT ![Current(j)] = 1]
  BY <1>1 DEF Push
<1>4. pushes' \in [Key -> Nat] /\ \A k \in Key : pushes'[k] \in {0, 1}
  BY <1>1, <1>3 DEF Inv, TypeOK, OneVoice
<1>5. \A k \in Key : k \notin nudged => pushes'[k] = 0
  BY <1>1, <1>3 DEF Inv, TypeOK, OneVoice
<1>6. \A i \in Job \ {j} : pushing[i] => pushes'[Current(i)] = 0
  BY <1>3 DEF Inv, TypeOK, OneVoice, Push
<1>7. S \in SUBSET todo[j] /\ fails' \in 0 .. MaxFails
  BY <1>2 DEF Inv, TypeOK
<1>8. Current(j) \in overdueEver
  BY <1>1 DEF Inv, AllOverdue
<1>. HIDE DEF S
<1>9. Inv'
  BY <1>2, <1>4, <1>5, <1>6, <1>7, LettingGo
<1>. QED
  BY <1>1, <1>8, <1>9

LEMMA FailureKeeps ==
  ASSUME Inv, NEW j \in Job, Trip(j) \/ Die(j)
  PROVE  Inv'
<1>1. PICK S \in SUBSET todo[j] : todo' = [todo EXCEPT ![j] = S]
  BY DEF Trip, Die, Drop
<1>2. /\ pushing' = [pushing EXCEPT ![j] = FALSE]
      /\ UNCHANGED <<table, nudged, pushes>>
  BY DEF Trip, Die, Drop
<1>3. fails' \in 0 .. MaxFails
  BY OverdueScanAssumption DEF Inv, TypeOK, Trip, Die, Fail
<1>. QED
  BY <1>1, <1>2, <1>3, LettingGo DEF Inv, TypeOK, OneVoice

-----------------------------------------------------------------------------
(* The theorems. *)

LEMMA InitInv == Init => Inv
<1>. SUFFICES ASSUME Init PROVE Inv
  OBVIOUS
<1>1. rows \in Seq(Row) /\ Len(rows) = 0 /\ DOMAIN rows = {}
  BY EmptySeq DEF Init
<1>2. TypeOK
  BY <1>1, OverdueScanAssumption DEF Init, TypeOK
<1>3. RipeRecorded /\ AllOverdue /\ OneVoice
  BY <1>1 DEF Init, RipeRecorded, AllOverdue, OneVoice
<1>. QED
  BY <1>2, <1>3 DEF Inv

LEMMA NextInv == Inv /\ [Next]_vars => Inv'
<1>. SUFFICES ASSUME Inv, [Next]_vars PROVE Inv'
  OBVIOUS
<1>1. CASE Change
  BY <1>1, OpenKeeps, ChangeKeeps DEF Change
<1>2. ASSUME NEW j \in Job, Run(j) PROVE Inv'
  BY <1>2, ScanKeeps, NudgeKeeps, PushKeeps, FailureKeeps DEF Run
<1>3. CASE UNCHANGED vars
  <2>1. \A j \in Job : Current(j)' = Current(j)
    BY <1>3 DEF Current, vars
  <2>. QED
    BY <1>3, <2>1 DEF vars, Inv, TypeOK, RipeRecorded, KeyOf, AllOverdue, OneVoice
<1>. QED
  BY <1>1, <1>2, <1>3 DEF Next

(***************************************************************************)
(* Every reachable state of the scheduled jobs and of the rows they read   *)
(* is typed, for any number of overlapping runs, rows, waits and failures. *)
(***************************************************************************)
THEOREM ScanTypeCorrect == Spec => []TypeOK
<1>1. Inv => TypeOK
  BY DEF Inv
<1>. QED
  BY <1>1, InitInv, NextInv, PTL DEF Spec

\* Every step is a step of CustomerNews, or one the customer does not see.
LEMMA ScanStep ==
  ASSUME Inv, [Next]_vars
  PROVE  [News!Next]_(News!vars)
<1>. USE DEF News!Next, News!vars, News!Happen, News!Hear
<1>1. CASE Change
  <2>1. overdueEver \subseteq overdueEver' /\ UNCHANGED pushes
    BY <1>1 DEF Change, Open, Leave, WaitAnew, Delete, Ripen, jobs
  <2>2. overdueEver' \subseteq Key
    BY NextInv DEF Inv, TypeOK
  <2>. QED
    BY <2>1, <2>2
<1>2. ASSUME NEW j \in Job, Push(j) PROVE [News!Next]_(News!vars)
  <2>1. Current(j) \in overdueEver /\ pushes[Current(j)] = 0
    BY <1>2, PushKeeps
  <2>2. Current(j) \in Key /\ UNCHANGED overdueEver
    BY <1>2, <2>1 DEF Inv, TypeOK, Push, table
  <2>3. pushes' = [pushes EXCEPT ![Current(j)] = 1]
    BY <1>2, <2>1 DEF Push
  <2>. QED
    BY <2>1, <2>2, <2>3
<1>3. ASSUME NEW j \in Job, Run(j), ~Push(j) PROVE [News!Next]_(News!vars)
  BY <1>3 DEF Run, Scan, Nudge, Trip, Die, table
<1>4. CASE UNCHANGED vars
  BY <1>4 DEF vars
<1>. QED
  BY <1>1, <1>2, <1>3, <1>4 DEF Next

(***************************************************************************)
(* The scheduled jobs implement CustomerNews: a document request or a      *)
(* stalled application is announced only once it was overdue, and pushed   *)
(* at most once per wait, however the runs overlap and wherever they die.  *)
(***************************************************************************)
THEOREM RemindersKeepThePromise == Spec => KeepsThePromise
<1>1. Init => News!Init
  BY DEF Init, News!Init
<1>2. Spec => []Inv
  BY InitInv, NextInv, PTL DEF Spec
<1>3. Inv /\ [Next]_vars => [News!Next]_(News!vars)
  BY ScanStep
<1>. QED
  BY <1>1, <1>2, <1>3, PTL DEF Spec, KeepsThePromise, News!Spec

-----------------------------------------------------------------------------
(* What a run reads, and what becomes of it. *)

LEMMA OverdueFinite ==
  ASSUME TypeOK
  PROVE  IsFiniteSet(Overdue) /\ Overdue \subseteq Nat /\ \A v \in Overdue : v \in DOMAIN rows
<1>1. DOMAIN rows = 1 .. Len(rows) /\ Len(rows) \in Nat
  BY DEF TypeOK
<1>2. IsFiniteSet(1 .. Len(rows))
  BY <1>1, FS_Interval
<1>3. Overdue \subseteq 1 .. Len(rows)
  BY <1>1 DEF Overdue
<1>4. Overdue \subseteq Nat /\ \A v \in Overdue : v \in DOMAIN rows
  BY <1>1, <1>3
<1>5. IsFiniteSet(Overdue)
  BY <1>2, <1>3, FS_Subset
<1>. QED
  BY <1>4, <1>5

\* A finite set of numbers that is not empty has a greatest element.
LEMMA FiniteHasGreatest ==
  ASSUME NEW n \in Nat, NEW S, S \subseteq 1 .. n, S # {}
  PROVE  \E m \in S : \A w \in S : w <= m
<1>. DEFINE Less == OpToRel(<, Nat)
            N == {k \in Nat : \E w \in S : k = n - w}
<1>1. IsWellFoundedOn(Less, Nat)
  BY NatLessThanWellFounded
<1>2. \A x, y \in Nat : x < y => <<x, y>> \in Less
  BY DEF OpToRel
<1>3. N \subseteq Nat /\ N # {}
  <2>1. PICK w \in S : w \in 1 .. n
    OBVIOUS
  <2>2. n - w \in N
    BY <2>1
  <2>. QED
    BY <2>2
<1>. HIDE DEF Less, N
<1>4. PICK k \in N : \A y \in N : ~(<<y, k>> \in Less)
  BY <1>1, <1>3, WFMin
<1>5. PICK m \in S : k = n - m
  BY DEF N
<1>6. ASSUME NEW w \in S PROVE w <= m
  <2>1. n - w \in N /\ n - w \in Nat /\ k \in Nat
    <3>1. w \in 1 .. n
      OBVIOUS
    <3>. QED
      BY <3>1 DEF N
  <2>2. ~(n - w < k)
    BY <1>2, <1>4, <2>1
  <2>. QED
    BY <1>5, <2>1, <2>2
<1>. QED
  BY <1>6

\* The last of a batch has all the others before it.
LEMMA BatchCapped ==
  ASSUME TypeOK
  PROVE  IsFiniteSet(Batch) /\ Cardinality(Batch) <= MaxRows
<1>1. PICK B : B = Batch
  OBVIOUS
<1>2. B \subseteq Overdue /\ IsFiniteSet(Overdue) /\ Overdue \subseteq Nat
  BY <1>1, OverdueFinite DEF Batch
<1>3. IsFiniteSet(B) /\ Cardinality(B) \in Nat
  BY <1>2, FS_Subset, FS_CardinalityType
<1>4. CASE B = {}
  BY <1>1, <1>3, <1>4, FS_EmptySet, OverdueScanAssumption
<1>5. CASE B # {}
  <2>1. PICK n \in Nat : Overdue \subseteq 1 .. n
    <3>1. DOMAIN rows = 1 .. Len(rows) /\ Len(rows) \in Nat
      BY DEF TypeOK
    <3>. QED
      BY <3>1 DEF Overdue
  <2>2. PICK m \in B : \A w \in B : w <= m
    BY <1>2, <1>5, <2>1, FiniteHasGreatest
  <2>3. PICK O : O = Older(m)
    OBVIOUS
  <2>4. O \subseteq Overdue /\ B \ {m} \subseteq O
    BY <1>2, <2>2, <2>3 DEF Older
  <2>5. IsFiniteSet(O) /\ Cardinality(O) \in Nat /\ Cardinality(B \ {m}) <= Cardinality(O)
    BY <1>2, <2>4, FS_Subset, FS_CardinalityType
  <2>6. Cardinality(B \ {m}) = Cardinality(B) - 1
    BY <1>3, FS_RemoveElement
  <2>7. Cardinality(O) < MaxRows
    BY <1>1, <2>3 DEF Batch
  <2>. QED
    BY <1>1, <1>3, <2>5, <2>6, <2>7, OverdueScanAssumption
<1>. QED
  BY <1>4, <1>5

\* What a run holds was read in one go, and only gets less.
Capped == \A j \in Job : IsFiniteSet(todo[j]) /\ Cardinality(todo[j]) <= MaxRows

LEMMA CappedStep ==
  ASSUME TypeOK, Capped, [Next]_vars
  PROVE  Capped'
<1>1. ASSUME NEW j \in Job, todo'[j] \subseteq todo[j]
      PROVE  IsFiniteSet(todo'[j]) /\ Cardinality(todo'[j]) <= MaxRows
  <2>1. PICK S : S = todo[j]
    OBVIOUS
  <2>2. PICK T : T = todo'[j]
    OBVIOUS
  <2>3. IsFiniteSet(S) /\ Cardinality(S) <= MaxRows /\ T \subseteq S
    BY <1>1, <2>1, <2>2 DEF Capped
  <2>4. IsFiniteSet(T) /\ Cardinality(T) <= Cardinality(S)
        /\ Cardinality(T) \in Nat /\ Cardinality(S) \in Nat
    BY <2>3, FS_Subset, FS_CardinalityType
  <2>. QED
    BY <2>2, <2>3, <2>4, OverdueScanAssumption
<1>2. ASSUME NEW j \in Job, Scan(j)
      PROVE  IsFiniteSet(todo'[j]) /\ Cardinality(todo'[j]) <= MaxRows
  <2>1. PICK B : B = {w \in Batch : ~rows[w].orphan}
    OBVIOUS
  <2>2. PICK T : T = {KeyOf(v) : v \in B}
    OBVIOUS
  <2>3. todo'[j] = T
    BY <1>2, <2>1, <2>2 DEF Scan, TypeOK
  <2>4. /\ IsFiniteSet(B) /\ Cardinality(B) <= Cardinality(Batch)
        /\ Cardinality(B) \in Nat /\ Cardinality(Batch) \in Nat /\ Cardinality(Batch) <= MaxRows
    <3>1. PICK A : A = Batch
      OBVIOUS
    <3>2. IsFiniteSet(A) /\ Cardinality(A) <= MaxRows /\ B \subseteq A
      BY <2>1, <3>1, BatchCapped
    <3>. QED
      BY <3>1, <3>2, FS_Subset, FS_CardinalityType
  <2>5. IsFiniteSet(T) /\ Cardinality(T) <= Cardinality(B)
    <3>1. PICK f : f = [v \in B |-> KeyOf(v)]
      OBVIOUS
    <3>2. f \in Surjection(B, T)
      BY <2>2, <3>1 DEF Surjection
    <3>. QED
      BY <2>4, <3>2, FS_Surjection
  <2>6. Cardinality(T) \in Nat
    BY <2>5, FS_CardinalityType
  <2>. QED
    BY <2>3, <2>4, <2>5, <2>6, OverdueScanAssumption
<1>3. ASSUME NEW j \in Job, Run(j), NEW i \in Job
      PROVE  todo'[i] \subseteq todo[i] \/ (i = j /\ Scan(j))
  <2>1. CASE Scan(j)
    BY <2>1 DEF Scan, TypeOK
  <2>2. CASE ~Scan(j)
    <3>1. UNCHANGED todo \/ \E S \in SUBSET todo[j] : todo' = [todo EXCEPT ![j] = S]
      BY <1>3, <2>2 DEF Run, Nudge, Push, Trip, Die, Drop
    <3>2. CASE UNCHANGED todo
      BY <3>2
    <3>3. ASSUME NEW S \in SUBSET todo[j], todo' = [todo EXCEPT ![j] = S]
          PROVE  todo'[i] \subseteq todo[i]
      BY <3>3 DEF TypeOK
    <3>. QED
      BY <3>1, <3>2, <3>3
  <2>. QED
    BY <2>1, <2>2
<1>4. CASE Change \/ UNCHANGED vars
  <2>1. UNCHANGED todo
    BY <1>4 DEF Change, Open, Leave, WaitAnew, Delete, Ripen, vars, jobs
  <2>. QED
    BY <1>1, <2>1 DEF Capped
<1>5. ASSUME NEW j \in Job, Run(j) PROVE Capped'
  BY <1>1, <1>2, <1>3, <1>5 DEF Capped
<1>. QED
  BY <1>4, <1>5 DEF Next

(***************************************************************************)
(* No run takes on more than MAX_ROWS_PER_RUN rows, however many are       *)
(* overdue, and it takes on none while it goes through them (`take' in the *)
(* queries of both jobs).                                                  *)
(***************************************************************************)
THEOREM RunsAreCapped == Spec => [](\A j \in Job : Cardinality(todo[j]) <= MaxRows)
<1>1. Init => Capped
  BY FS_EmptySet, OverdueScanAssumption DEF Init, Capped
<1>2. Inv /\ Capped /\ [Next]_vars => Inv' /\ Capped'
  BY NextInv, CappedStep DEF Inv
<1>3. Capped => \A j \in Job : Cardinality(todo[j]) <= MaxRows
  BY DEF Capped
<1>. QED
  BY InitInv, <1>1, <1>2, <1>3, PTL DEF Spec

\* A row that is overdue has fewer overdue before it than there are.
LEMMA FewOlder ==
  ASSUME TypeOK, NEW v \in Overdue, Cardinality(Overdue) <= MaxRows
  PROVE  v \in Batch
<1>1. PICK S : S = Overdue
  OBVIOUS
<1>2. PICK O : O = Older(v)
  OBVIOUS
<1>3. IsFiniteSet(S) /\ Cardinality(S) \in Nat /\ v \in S
  BY <1>1, OverdueFinite, FS_CardinalityType
<1>4. O \subseteq S \ {v}
  BY <1>1, <1>2, OverdueFinite DEF Older
<1>5. IsFiniteSet(S \ {v}) /\ Cardinality(S \ {v}) = Cardinality(S) - 1
  BY <1>3, FS_RemoveElement
<1>6. Cardinality(O) <= Cardinality(S \ {v}) /\ Cardinality(O) \in Nat
  BY <1>4, <1>5, FS_Subset, FS_CardinalityType
<1>. QED
  BY <1>1, <1>2, <1>3, <1>5, <1>6, OverdueScanAssumption DEF Batch

\* A run takes on every row that is overdue when it starts.
ReadsAll == \A j \in Job : Scan(j) => \A v \in Overdue : ~rows[v].orphan => KeyOf(v) \in todo'[j]

(***************************************************************************)
(* As long as no more rows than the cap are overdue at once, every run     *)
(* takes on all of them: what RestPickedUp loses, it loses to rows over    *)
(* the cap alone.                                                          *)
(***************************************************************************)
THEOREM NoneLeftOut == Spec /\ [](Cardinality(Overdue) <= MaxRows) => [][ReadsAll]_vars
<1>1. Inv /\ [Next]_vars => Inv'
  BY NextInv
<1>2. Inv /\ Cardinality(Overdue) <= MaxRows => ReadsAll
  BY FewOlder DEF Inv, TypeOK, ReadsAll, Scan
<1>. QED
  BY InitInv, <1>1, <1>2, PTL DEF Spec

\* What a run lets go of has been announced, or a failure took it.
Forgets(j) == todo[j] \ todo'[j]
ForgetsNone == (\E j \in Job : ~(Forgets(j) \subseteq nudged')) => fails' = fails + 1

(***************************************************************************)
(* A run announces all it has taken on: a wait leaves its list only with   *)
(* its notification stored, by this run or another, or by a failure, and   *)
(* whatever customers and operators do to the rows meanwhile (the loops of *)
(* both jobs, and notifyOnce).                                             *)
(***************************************************************************)
THEOREM RunsForgetNothing == Spec => [][ForgetsNone]_vars
<1>1. Inv /\ [Next]_vars => Inv'
  BY NextInv
<1>2. Inv /\ [Next]_vars => [ForgetsNone]_vars
  <2>. SUFFICES ASSUME Inv, [Next]_vars, NEW i \in Job, NEW k \in todo[i], k \notin todo'[i],
                       k \notin nudged'
                PROVE  fails' = fails + 1
    BY DEF ForgetsNone, Forgets
  <2>1. ~(Change \/ UNCHANGED vars)
    BY DEF Change, Open, Leave, WaitAnew, Delete, Ripen, vars, jobs
  <2>2. PICK j \in Job : Run(j)
    BY <2>1 DEF Next
  <2>3. ~Scan(j)
    BY DEF Inv, TypeOK, Scan
  <2>4. ASSUME Drop(j), UNCHANGED nudged, Current(j) \in nudged PROVE FALSE
    BY <2>4 DEF Drop, Inv, TypeOK
  <2>5. ~Nudge(j)
    <3>1. CASE Fresh(Current(j))
      BY <3>1 DEF Nudge
    <3>2. CASE ~Fresh(Current(j))
      BY <2>4, <3>2 DEF Nudge, Fresh
    <3>. QED
      BY <3>1, <3>2
  <2>6. ~Push(j)
    BY <2>4 DEF Push, Inv, OneVoice
  <2>. QED
    BY <2>2, <2>3, <2>5, <2>6 DEF Run, Trip, Die, Fail
<1>. QED
  BY InitInv, <1>1, <1>2, PTL DEF Spec

\* Stored, but neither pushed nor about to be: nobody will push it any more.
Lost == {k \in nudged : pushes[k] = 0 /\ \A j \in Job : pushing[j] => Current(j) # k}

LostFew == IsFiniteSet(Lost) /\ Cardinality(Lost) <= fails

LEMMA LostStep ==
  ASSUME Inv, [Next]_vars
  PROVE  \/ Lost' \subseteq Lost /\ fails' = fails
         \/ fails' = fails + 1 /\ \E k : Lost' \subseteq Lost \cup {k}
<1>0. /\ todo \in [Job -> SUBSET Key] /\ pushing \in [Job -> BOOLEAN] /\ nudged \subseteq Key
      /\ pushes \in [Key -> Nat] /\ TypeOK
  BY DEF Inv, TypeOK
<1>1. CASE Change \/ UNCHANGED vars
  <2>1. UNCHANGED jobs
    BY <1>1 DEF Change, Open, Leave, WaitAnew, Delete, Ripen, vars, jobs
  <2>2. \A j \in Job : Current(j)' = Current(j)
    BY <2>1 DEF Current, jobs
  <2>. QED
    BY <2>1, <2>2 DEF Lost, jobs
<1>2. ASSUME NEW j \in Job, NEW S, todo' = [todo EXCEPT ![j] = S], NEW i \in Job \ {j}
      PROVE  Current(i)' = Current(i)
  BY <1>0, <1>2, OthersStay
<1>3. ASSUME NEW j \in Job, Scan(j) PROVE Lost' \subseteq Lost /\ fails' = fails
  <2>1. /\ \E S : todo' = [todo EXCEPT ![j] = S]
        /\ UNCHANGED <<pushing, nudged, pushes, fails>> /\ ~pushing[j]
    BY <1>3 DEF Scan, Inv, OneVoice
  <2>. QED
    BY <1>2, <2>1 DEF Lost
<1>4. ASSUME NEW j \in Job, Nudge(j) PROVE Lost' \subseteq Lost /\ fails' = fails
  <2>1. CASE Fresh(Current(j))
    <3>1. /\ nudged' = nudged \cup {Current(j)} /\ pushing' = [pushing EXCEPT ![j] = TRUE]
          /\ UNCHANGED <<todo, pushes, fails>> /\ ~pushing[j]
      BY <1>4, <2>1 DEF Nudge
    <3>2. \A i \in Job : Current(i)' = Current(i)
      BY <3>1 DEF Current
    <3>. QED
      BY <1>0, <3>1, <3>2 DEF Lost
  <2>2. CASE ~Fresh(Current(j))
    <3>1. /\ \E S : todo' = [todo EXCEPT ![j] = S]
          /\ pushing' = [pushing EXCEPT ![j] = FALSE] /\ ~pushing[j]
          /\ UNCHANGED <<nudged, pushes, fails>>
      BY <1>4, <2>2 DEF Nudge, Drop
    <3>2. pushing' = pushing
      BY <1>0, <3>1
    <3>. QED
      BY <1>2, <3>1, <3>2 DEF Lost
  <2>. QED
    BY <2>1, <2>2
<1>5. ASSUME NEW j \in Job, Push(j) PROVE Lost' \subseteq Lost /\ fails' = fails
  <2>1. /\ \E S : todo' = [todo EXCEPT ![j] = S]
        /\ pushing' = [pushing EXCEPT ![j] = FALSE] /\ pushing[j]
        /\ pushes' = [pushes EXCEPT ![Current(j)] = @ + 1]
        /\ UNCHANGED <<nudged, fails>>
    BY <1>5 DEF Push, Drop
  <2>2. Current(j) \in Key /\ pushes[Current(j)] \in Nat
    BY <1>0, <1>5, CurrentHeld DEF Push, Inv, OneVoice
  <2>3. pushes'[Current(j)] # 0 /\ \A k \in Key : k # Current(j) => pushes'[k] = pushes[k]
    BY <1>0, <2>1, <2>2
  <2>4. \A i \in Job : pushing[i] => i = j \/ (pushing'[i] /\ Current(i)' = Current(i))
    BY <1>0, <1>2, <2>1
  <2>. QED
    BY <1>0, <2>1, <2>3, <2>4 DEF Lost
<1>6. ASSUME NEW j \in Job, Trip(j) \/ Die(j)
      PROVE  fails' = fails + 1 /\ Lost' \subseteq Lost \cup {Current(j)}
  <2>1. /\ \E S : todo' = [todo EXCEPT ![j] = S]
        /\ pushing' = [pushing EXCEPT ![j] = FALSE]
        /\ UNCHANGED <<nudged, pushes>> /\ fails' = fails + 1
    BY <1>6 DEF Trip, Die, Drop, Fail
  <2>2. \A i \in Job : pushing[i] => i = j \/ (pushing'[i] /\ Current(i)' = Current(i))
    BY <1>0, <1>2, <2>1
  <2>. QED
    BY <2>1, <2>2 DEF Lost
<1>. QED
  BY <1>1, <1>3, <1>4, <1>5, <1>6 DEF Next, Run

LEMMA LostFewStep ==
  ASSUME Inv, LostFew, [Next]_vars
  PROVE  LostFew'
<1>1. PICK S : S = Lost
  OBVIOUS
<1>2. PICK T : T = Lost'
  OBVIOUS
<1>3. IsFiniteSet(S) /\ Cardinality(S) \in Nat /\ Cardinality(S) <= fails /\ fails \in Nat
  BY <1>1, FS_CardinalityType, OverdueScanAssumption DEF LostFew, Inv, TypeOK
<1>4. CASE T \subseteq S /\ fails' = fails
  <2>1. IsFiniteSet(T) /\ Cardinality(T) <= Cardinality(S)
    BY <1>3, <1>4, FS_Subset
  <2>2. Cardinality(T) \in Nat
    BY <2>1, FS_CardinalityType
  <2>. QED
    BY <1>2, <1>3, <1>4, <2>1, <2>2 DEF LostFew
<1>5. ASSUME NEW k, T \subseteq S \cup {k}, fails' = fails + 1
      PROVE  LostFew'
  <2>1. IsFiniteSet(S \cup {k}) /\ Cardinality(S \cup {k}) <= Cardinality(S) + 1
        /\ Cardinality(S \cup {k}) \in Nat
    BY <1>3, FS_AddElement
  <2>2. IsFiniteSet(T) /\ Cardinality(T) <= Cardinality(S \cup {k})
    BY <1>5, <2>1, FS_Subset
  <2>3. Cardinality(T) \in Nat
    BY <2>2, FS_CardinalityType
  <2>. QED
    BY <1>2, <1>3, <1>5, <2>1, <2>2, <2>3 DEF LostFew
<1>. QED
  BY <1>1, <1>2, <1>4, <1>5, LostStep

(***************************************************************************)
(* A notification that is stored and will never be pushed costs a failure  *)
(* of its own: there are never more of them than calls that failed or      *)
(* runs that were killed.  Storing before pushing loses one push at most   *)
(* per failure, and overlapping runs lose none (notifyOnce, sendPush).     *)
(***************************************************************************)
THEOREM PushesLostToFailures == Spec => []LostFew
<1>1. Init => LostFew
  <2>1. Init => Lost = {} /\ fails = 0
    BY DEF Init, Lost
  <2>2. Init => IsFiniteSet(Lost) /\ Cardinality(Lost) = 0
    <3>1. SUFFICES ASSUME Init PROVE IsFiniteSet(Lost) /\ Cardinality(Lost) = 0
      OBVIOUS
    <3>2. PICK S : S = Lost
      OBVIOUS
    <3>. QED
      BY <2>1, <3>1, <3>2, FS_EmptySet
  <2>. QED
    BY <2>1, <2>2 DEF LostFew
<1>2. Inv /\ LostFew /\ [Next]_vars => Inv' /\ LostFew'
  BY NextInv, LostFewStep
<1>. QED
  BY InitInv, <1>1, <1>2, PTL DEF Spec

=============================================================================
