------------------------------- MODULE Calls -------------------------------
(***************************************************************************)
(* The tasks of the server, for the components that follow.  A handler     *)
(* runs as a task, control may pass to any other task at each await, and a *)
(* task that dies leaves what it wrote: nothing is rolled back.            *)
(*                                                                         *)
(* A task is a record: the place it has reached (pc) and what it holds in  *)
(* memory, different for each kind of handler.                             *)
(***************************************************************************)
EXTENDS Naturals, FiniteSets

CONSTANTS
  Req,          \* the tasks that may run at once
  None,         \* no such thing
  MaxRequests,  \* bound: how many requests clients make
  MaxFails      \* bound: how many failures there are

ASSUME CallsAssumption ==
  /\ IsFiniteSet(Req)
  /\ MaxRequests \in Nat \ {0}
  /\ MaxFails \in Nat

VARIABLES
  task,         \* the running tasks
  started,      \* how many requests were made (bounded by MaxRequests)
  fails,        \* how many failures there were (bounded by MaxFails)
  alone         \* history: no two tasks ever ran at the same time

calls == <<task, started, fails, alone>>

\* Rows are numbered in the order of their creation; a request makes one of a kind.
Row == 1 .. MaxRequests

Idle == [pc |-> "idle"]

Busy(r) == task[r] # Idle
Quiet == \A r \in Req : ~Busy(r)

At(r, pc) == task[r].pc = pc

\* A request arrives, and reaches its first await as t.
Call(r, t) ==
  /\ ~Busy(r)
  /\ started < MaxRequests
  /\ started' = started + 1
  /\ task' = [task EXCEPT ![r] = t]
  /\ alone' = (alone /\ \A s \in Req \ {r} : ~Busy(s))
  /\ UNCHANGED fails

\* A request that is over with its first write.
CallOnce(r) == Call(r, Idle)

\* The task goes on, as t, to its next await.
Resume(r, t) ==
  /\ task' = [task EXCEPT ![r] = t]
  /\ UNCHANGED <<started, fails, alone>>

Goto(r, pc) == Resume(r, [task[r] EXCEPT !.pc = pc])
Finish(r) == Resume(r, Idle)

\* The process is killed, or the database rejects a call: the rest never runs.
Fail(r) ==
  /\ Busy(r)
  /\ fails < MaxFails
  /\ fails' = fails + 1
  /\ task' = [task EXCEPT ![r] = Idle]
  /\ UNCHANGED <<started, alone>>

CallsInit ==
  /\ task = [r \in Req |-> Idle]
  /\ started = 0
  /\ fails = 0
  /\ alone = TRUE

CallsOK(Task) ==
  /\ task \in [Req -> Task \cup {Idle}]
  /\ started \in 0 .. MaxRequests
  /\ fails \in 0 .. MaxFails
  /\ alone \in BOOLEAN
=============================================================================
