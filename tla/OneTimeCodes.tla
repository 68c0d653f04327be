---------------------------- MODULE OneTimeCodes ---------------------------
(***************************************************************************)
(* The six-digit codes of one account, for the verification of its address *)
(* and for resetting its password: drawn, mailed, guessed, and retired.    *)
(*                                                                         *)
(* A task carries what it has still to do, as the list of its awaits.      *)
(***************************************************************************)
EXTENDS Calls, Sequences, FiniteSets

CONSTANT MaxTries  \* wrong guesses after which a code is locked (5 in the code)

ASSUME CodesAssumption == MaxTries \in Nat \ {0}

VARIABLE codes     \* otp_codes of the account, by creation

CodeType == {"email", "reset"}
NoCode == 0
Code == Row

CodeRow ==
  [type    : CodeType,
   \* retired: used, but not by the customer; gone: the row was deleted
   state   : {"live", "retired", "redeemed", "gone"},
   tries   : Nat,                              \* the attempts column
   age     : {"new", "cooled", "expired"},     \* within the cooldown, the ten minutes
   mailed  : BOOLEAN,                          \* history: the mail went out
   wrong   : Nat]                              \* history: the wrong guesses at it

CodesOK == codes \in Seq(CodeRow) /\ Len(codes) <= MaxRequests

Rows(type) == {i \in DOMAIN codes : codes[i].type = type /\ codes[i].state # "gone"}
Unused(type) == {i \in Rows(type) : codes[i].state = "live"}
Valid(type) == {i \in Unused(type) : codes[i].age # "expired"}

IsNewest(i, S) == i \in S /\ \A j \in S : j <= i

\* otpCooldownRemaining: the newest row counts, used or not.
Cooling(type) == \E i \in Rows(type) : IsNewest(i, Rows(type)) /\ codes[i].age = "new"

\* The next await of the task, with what it learnt; none is left: it is over.
Proceed(r, t) ==
  IF t.todo = <<>> THEN Finish(r)
  ELSE Resume(r, [t EXCEPT !.pc = Head(t.todo), !.todo = Tail(t.todo)])

\* generateAndSaveOtp
SendCode == <<"retire", "insertCode", "mail">>

\* A slip: the earlier codes are left to expire.
RetireNone(r) ==
  /\ At(r, "retire")
  /\ Proceed(r, task[r])
  /\ UNCHANGED codes

\* The unused codes of the type are marked used.
Retire(r) ==
  /\ At(r, "retire")
  /\ codes' = [i \in DOMAIN codes |-> IF i \in Unused(task[r].type)
                                      THEN [codes[i] EXCEPT !.state = "retired"] ELSE codes[i]]
  /\ Proceed(r, task[r])

InsertCode(r) ==
  /\ At(r, "insertCode")
  /\ codes' = Append(codes, [type |-> task[r].type, state |-> "live", tries |-> 0,
                             age |-> "new", mailed |-> FALSE, wrong |-> 0])
  /\ Proceed(r, [task[r] EXCEPT !.code = Len(codes')])

\* A slip: the transport's refusal is only logged.
MailAnyway(r) ==
  LET t == task[r] IN
  /\ At(r, "mail")
  /\ \/ codes' = [codes EXCEPT ![t.code].mailed = TRUE]
     \/ UNCHANGED codes
  /\ Proceed(r, t)

\* The transport takes the mail, or refuses it.
Mail(r) ==
  LET t == task[r] IN
  /\ At(r, "mail")
  /\ \/ codes' = [codes EXCEPT ![t.code].mailed = TRUE] /\ Proceed(r, t)
     \/ UNCHANGED codes /\ Resume(r, [t EXCEPT !.pc = "dropCode"])

\* The row goes, lest its cooldown keep the customer from trying again: 503.
DropCode(r) ==
  /\ At(r, "dropCode")
  /\ codes' = [codes EXCEPT ![task[r].code].state = "gone"]
  /\ Finish(r)

\* consumeOtp: the newest valid code of the type, unless it had too many tries.
FindCode(r) ==
  LET t == task[r]
      valid == Valid(t.type) IN
  /\ At(r, "findCode")
  /\ IF valid = {} THEN Finish(r)
     ELSE \E i \in valid :
            /\ IsNewest(i, valid)
            /\ Resume(r, [t EXCEPT !.code = i,
                            !.pc = IF codes[i].tries >= MaxTries THEN "lockCode" ELSE "judge",
                            !.seen = codes[i].tries])
  /\ UNCHANGED codes

LockCode(r) ==
  /\ At(r, "lockCode")
  /\ codes' = [codes EXCEPT ![task[r].code].state = IF @ = "live" THEN "retired" ELSE @]
  /\ Finish(r)

\* A slip: the number of tries is the one that was read, plus one.
CountRead(r) ==
  [codes EXCEPT ![task[r].code].tries = task[r].seen + 1, ![task[r].code].wrong = @ + 1]

\* Incremented in the database.
Count(r) ==
  [codes EXCEPT ![task[r].code].tries = @ + 1, ![task[r].code].wrong = @ + 1]

\* The guess is compared with the code found, whatever became of that since.
Judge(r) ==
  LET t == task[r] IN
  /\ At(r, "judge")
  /\ IF t.guess = t.code
     THEN /\ codes' = [codes EXCEPT ![t.code].state = IF @ = "gone" THEN @ ELSE "redeemed"]
          /\ Proceed(r, t)
     ELSE codes' = Count(r) /\ Finish(r)

\* Time passes: no code is within the cooldown any more; the older ones expire.
Cool ==
  /\ \E i \in DOMAIN codes : codes[i].age = "new"
  /\ codes' = [i \in DOMAIN codes |-> [codes[i] EXCEPT
                 !.age = IF @ = "new" THEN "cooled" ELSE @]]
  /\ UNCHANGED calls

Expire ==
  /\ \E i \in DOMAIN codes :
       /\ codes[i].age = "cooled"
       /\ codes' = [j \in DOMAIN codes |-> [codes[j] EXCEPT
                      !.age = IF j <= i THEN "expired" ELSE @]]
  /\ UNCHANGED calls

CodeStep(r) ==
  \/ Retire(r) \/ InsertCode(r) \/ Mail(r) \/ DropCode(r)
  \/ FindCode(r) \/ LockCode(r) \/ Judge(r)

CodesInit == codes = <<>>

-----------------------------------------------------------------------------

\* No code is inserted while another task is about to insert one of its kind.
DrawsApart ==
  \A r \in Req : InsertCode(r) =>
    \A s \in Req \ {r} : At(s, "insertCode") => task[s].type # task[r].type

(***************************************************************************)
(* There is one code of a kind to type in, however requests, deaths and    *)
(* refused mails overlap, if DrawsApart holds of every step                *)
(* (generateAndSaveOtp).                                                   *)
(***************************************************************************)
OneUnused == \A type \in CodeType : \A i, j \in Unused(type) : i = j

(***************************************************************************)
(* A code that could not be mailed does not stay and keep the customer     *)
(* from asking for another: it goes, whatever else runs meanwhile, unless  *)
(* the process dies on the way.                                            *)
(***************************************************************************)
UnmailedIsGone ==
  fails = 0 =>
    \A i \in DOMAIN codes :
      ~codes[i].mailed /\ codes[i].state # "gone" =>
        \E r \in Req : task[r].pc \in {"mail", "dropCode"} /\ task[r].code = i

(***************************************************************************)
(* A code is compared with a wrong guess no more often than it may be, and *)
(* once more for each other guess under way when the last of these came:   *)
(* no guess goes uncounted, however many race (consumeOtp's increment).    *)
(***************************************************************************)
GuessesBounded ==
  \A i \in DOMAIN codes : codes[i].wrong <= MaxTries + Cardinality(Req) - 1
=============================================================================
