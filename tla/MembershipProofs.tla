-------------------------- MODULE MembershipProofs --------------------------
(***************************************************************************)
(* What Membership guarantees for every number of tasks, requests and      *)
(* failures.  Here: how its tasks move, and the devices a user is reached  *)
(* on.                                                                     *)
(***************************************************************************)
EXTENDS Membership, SequenceTheorems, FiniteSetTheorems, WellFoundedInduction, TLAPS

-----------------------------------------------------------------------------
(* Tasks, whatever they are about. *)

\* As long as tasks do not overlap, one is busy at most.
OneBusy == alone => \A r, s \in Req : Busy(r) /\ Busy(s) => r = s

Calling ==
  /\ task = [r \in Req |-> task[r]]
  /\ part \in PartName
  /\ started \in 0 .. MaxRequests /\ fails \in 0 .. MaxFails /\ alone \in BOOLEAN
  /\ OneBusy

\* A step makes a request, or moves a task that was busy.
Moves(r) ==
  \/ \E t : Call(r, t)
  \/ /\ Busy(r) /\ UNCHANGED <<started, alone>> /\ fails' \in {fails, fails + 1} \cap 0 .. MaxFails
     /\ \E t : task' = [task EXCEPT ![r] = t]

LEMMA AtBusy ==
  ASSUME NEW r \in Req, NEW pc, At(r, pc), pc # "idle"
  PROVE  Busy(r)
BY DEF At, Busy, Idle

LEMMA ResumeMoves ==
  ASSUME Calling, NEW r \in Req, Busy(r), NEW t, Resume(r, t)
  PROVE  Moves(r)
BY DEF Moves, Resume, Calling

LEMMA FinishMoves ==
  ASSUME Calling, NEW r \in Req, Busy(r), Finish(r)
  PROVE  Moves(r)
BY ResumeMoves DEF Finish

LEMMA ProceedMoves ==
  ASSUME Calling, NEW r \in Req, Busy(r), NEW t, Proceed(r, t)
  PROVE  Moves(r)
BY ResumeMoves, FinishMoves DEF Proceed

LEMMA TaskAt ==
  ASSUME Calling, NEW r \in Req, NEW t, task' = [task EXCEPT ![r] = t]
  PROVE  /\ task'[r] = t /\ \A s \in Req \ {r} : task'[s] = task[s]
         /\ task' = [s \in Req |-> task'[s]]
<1>1. task = [s \in Req |-> task[s]]
  BY DEF Calling
<1>. QED
  BY <1>1

LEMMA MovesTo ==
  ASSUME NEW r \in Req, Moves(r)
  PROVE  \E t : task' = [task EXCEPT ![r] = t]
BY DEF Moves, Call

LEMMA MovesCount ==
  ASSUME Calling, NEW r \in Req, Moves(r)
  PROVE  /\ started' # 0 \/ (Busy(r) /\ started' = started)
         /\ started' \in Nat /\ fails \in Nat /\ fails' \in {fails, fails + 1}
<1>0. started \in Nat /\ fails \in Nat
  BY CallsAssumption DEF Calling
<1>1. CASE \E t : Call(r, t)
  <2>1. started' = started + 1 /\ fails' = fails
    BY <1>1 DEF Call
  <2>. QED
    BY <1>0, <2>1
<1>2. CASE Busy(r) /\ UNCHANGED <<started, alone>> /\ fails' \in {fails, fails + 1} \cap 0 .. MaxFails
  BY <1>0, <1>2
<1>. QED
  BY <1>1, <1>2 DEF Moves

\* If tasks never overlapped, only the one that moves is busy.
LEMMA Alone ==
  ASSUME Calling, NEW r \in Req, Moves(r), alone'
  PROVE  alone /\ \A s \in Req \ {r} : task[s] = Idle /\ task'[s] = Idle
<1>1. PICK t : task' = [task EXCEPT ![r] = t]
  BY MovesTo
<1>2. \A s \in Req \ {r} : task'[s] = task[s]
  BY <1>1, TaskAt
<1>. QED
  BY <1>2 DEF Moves, Call, Calling, OneBusy, Busy

LEMMA MoveCalling ==
  ASSUME Calling, NEW r \in Req, Moves(r), UNCHANGED part
  PROVE  Calling'
<1>1. PICK t : task' = [task EXCEPT ![r] = t]
  BY MovesTo
<1>2. task'[r] = t /\ (\A s \in Req \ {r} : task'[s] = task[s]) /\ task' = [s \in Req |-> task'[s]]
  BY <1>1, TaskAt
<1>3. alone' => alone /\ \A s \in Req \ {r} : ~Busy(s)
  BY DEF Moves, Call, Calling, OneBusy
<1>4. alone' => \A s \in Req \ {r} : ~Busy(s)'
  BY <1>2, <1>3 DEF Busy
<1>5. OneBusy'
  BY <1>4 DEF OneBusy
<1>6. started' \in 0 .. MaxRequests /\ fails' \in 0 .. MaxFails /\ alone' \in BOOLEAN
  <2>1. CASE \E u : Call(r, u)
    BY <2>1, CallsAssumption DEF Call, Calling
  <2>2. CASE UNCHANGED <<started, alone>> /\ fails' \in 0 .. MaxFails
    BY <2>2 DEF Calling
  <2>. QED
    BY <2>1, <2>2 DEF Moves
<1>. QED
  BY <1>2, <1>5, <1>6 DEF Calling

LEMMA DieMoves ==
  ASSUME Calling, NEW r \in Req, Die(r)
  PROVE  Moves(r) /\ fails' = fails + 1 /\ task' = [task EXCEPT ![r] = Idle]
<1>1. Fail(r)
  BY DEF Die
<1>2. fails' \in {fails, fails + 1} \cap 0 .. MaxFails
  BY <1>1, CallsAssumption DEF Fail, Calling
<1>. QED
  BY <1>1, <1>2 DEF Fail, Moves

LEMMA DevicesMove ==
  ASSUME Calling, NEW r \in Req, DeviceRequest(r) \/ DeviceStep(r)
  PROVE  Moves(r)
<1>1. CASE DeviceRequest(r)
  BY <1>1 DEF DeviceRequest, RegisterPushToken, RemovePushToken, DeliverPush, Moves
<1>2. CASE DeviceStep(r)
  BY <1>2, AtBusy, ResumeMoves, FinishMoves
     DEF DeviceStep, SaveToken, InsertToken, SaveRemoved, SendEach, Deactivate
<1>. QED
  BY <1>1, <1>2

LEMMA ConsentsMove ==
  ASSUME Calling, NEW r \in Req, ConsentRequest(r) \/ ConsentStep(r)
  PROVE  Moves(r)
<1>1. CASE ConsentRequest(r)
  BY <1>1 DEF ConsentRequest, CreatePage, UpdatePage, DeletePage, Accept, Moves
<1>2. CASE ConsentStep(r)
  BY <1>2, AtBusy, ResumeMoves, FinishMoves
     DEF ConsentStep, ReadSiblings, InsertPage, SavePage, Propagate, RemovePage, Persist, Goto
<1>. QED
  BY <1>1, <1>2

LEMMA CodesMove ==
  ASSUME Calling, NEW r \in Req, CodeStep(r)
  PROVE  Moves(r)
BY AtBusy, ResumeMoves, FinishMoves, ProceedMoves
   DEF CodeStep, Retire, InsertCode, Mail, DropCode, FindCode, LockCode, Judge

LEMMA AccountMoves ==
  ASSUME Calling, NEW r \in Req, AccountRequest(r) \/ AccountStep(r)
  PROVE  Moves(r)
<1>1. CASE AccountRequest(r)
  <2>1. \E t : Call(r, t)
    BY <1>1 DEF AccountRequest, CodeRequest, AskCode, ExchangeCode, Register, Login,
                VerifyAddress, ResetByCode, ResetByToken, ChangePassword, SocialLogin,
                Refresh, Logout, Toggle, SoftDelete, AdminResetPassword, EditProfile
  <2>. QED
    BY <2>1 DEF Moves
<1>2. CASE AccountStep(r)
  BY <1>2, AtBusy, FinishMoves, ProceedMoves
     DEF AccountStep, InsertUser, ReadUser, SaveUser, DeleteCodes, RevokeAll, Mint, Rotate, Revoke
<1>. QED
  BY <1>1, <1>2

LEMMA Ticks ==
  ASSUME Cool \/ Expire
  PROVE  UNCHANGED calls
BY DEF Cool, Expire

LEMMA StepCalling ==
  ASSUME Calling, [Next]_vars
  PROVE  Calling'
<1>1. CASE UNCHANGED <<part, calls>>
  BY <1>1 DEF calls, Calling, OneBusy, Busy
<1>2. CASE UNCHANGED part /\ \E r \in Req : Moves(r)
  BY <1>2, MoveCalling
<1>3. CASE Codes
  BY <1>1, <1>2, <1>3, Ticks, CodesMove DEF Codes
<1>4. CASE Leave
  BY <1>1, <1>4 DEF Leave, Uninstall
<1>5. ASSUME NEW r \in Req, Account(r) \/ Consents(r) \/ Reach(r) \/ Die(r)
      PROVE  UNCHANGED part /\ Moves(r)
  BY <1>5, AccountMoves, ConsentsMove, DevicesMove, DieMoves
     DEF Account, Consents, Reach, Die, AccountRequest
<1>. QED
  BY <1>1, <1>2, <1>3, <1>4, <1>5 DEF Next, vars

LEMMA InitCalling == Init => Calling
BY CallsAssumption DEF Init, CallsInit, Calling, OneBusy, Busy

-----------------------------------------------------------------------------
(* Devices. *)

\* The place a task has reached tells what it holds.
LEMMA DeviceTasks ==
  ASSUME NEW t \in DeviceTask \cup {Idle}
  PROVE  /\ t.pc \in {"saveToken", "insertToken", "removeToken"} =>
              t \in [pc : {"saveToken", "insertToken", "removeToken"}, device : Device,
                     user : Person]
         /\ t.pc = "sendEach" => t.to \in SUBSET Device
         /\ t.pc = "deactivate" => t.gone \in SUBSET Device
BY DEF DeviceTask, Idle

\* Whoever is signed in has the token; and nobody is, where one is given up.
Reached ==
  /\ \A d \in Device :
       signedIn[d] # None => tokens[d] = [user |-> signedIn[d], active |-> TRUE]
  /\ \A r \in Req : At(r, "deactivate") => \A d \in task[r].gone : signedIn[d] = None

DeviceInv ==
  IF part = "devices"
  THEN task \in [Req -> DeviceTask \cup {Idle}] /\ DevicesOK
  ELSE DevicesInit

LEMMA DeviceStepHolds ==
  ASSUME Calling, part = "devices", DeviceInv, NEW r \in Req, DeviceRequest(r) \/ DeviceStep(r)
  PROVE  /\ task' \in [Req -> DeviceTask \cup {Idle}] /\ DevicesOK'
         /\ At(r, "deactivate")' => \A d \in task'[r].gone : signedIn'[d] = None
<1>. DEFINE x == task[r]
<1>0. task \in [Req -> DeviceTask \cup {Idle}] /\ DevicesOK
  BY DEF DeviceInv
<1>1. x \in DeviceTask \cup {Idle}
  BY <1>0
<1>3. SUFFICES /\ DevicesOK'
               /\ \E t \in DeviceTask \cup {Idle} :
                     /\ task' = [task EXCEPT ![r] = t]
                     /\ t.pc = "deactivate" => \A d \in t.gone : signedIn'[d] = None
  BY <1>0 DEF At
<1>4. CASE DeviceRequest(r)
  <2>1. UNCHANGED <<tokens, signedIn>>
    BY <1>4 DEF DeviceRequest, RegisterPushToken, RemovePushToken, DeliverPush
  <2>2. \E t \in DeviceTask \cup {Idle} : task' = [task EXCEPT ![r] = t] /\ t.pc # "deactivate"
    <3>1. CASE RegisterPushToken(r)
      <4>1. PICK d \in Device, p \in Person :
              Call(r, [pc |-> IF Known(d) THEN "saveToken" ELSE "insertToken",
                       device |-> d, user |-> p])
        BY <3>1 DEF RegisterPushToken
      <4>2. PICK pc \in {"saveToken", "insertToken"} :
              pc = IF Known(d) THEN "saveToken" ELSE "insertToken"
        OBVIOUS
      <4>3. PICK t : t = [pc |-> pc, device |-> d, user |-> p]
        OBVIOUS
      <4>4. t \in DeviceTask /\ t.pc # "deactivate"
        BY <4>2, <4>3 DEF DeviceTask
      <4>5. Call(r, t)
        BY <4>1, <4>2, <4>3
      <4>. QED
        BY <4>4, <4>5 DEF Call
    <3>2. CASE RemovePushToken(r)
      <4>1. PICK d \in Device :
              /\ Known(d)
              /\ Call(r, [pc |-> "removeToken", device |-> d, user |-> tokens[d].user])
        BY <3>2 DEF RemovePushToken
      <4>2. tokens[d].user \in Person
        BY <1>0, <4>1 DEF DevicesOK, Known, TokenRow
      <4>3. PICK t : t = [pc |-> "removeToken", device |-> d, user |-> tokens[d].user]
        OBVIOUS
      <4>4. t \in DeviceTask /\ t.pc # "deactivate"
        BY <4>2, <4>3 DEF DeviceTask
      <4>5. Call(r, t)
        BY <4>1, <4>3
      <4>. QED
        BY <4>4, <4>5 DEF Call
    <3>3. CASE DeliverPush(r)
      <4>1. PICK to \in SUBSET Device : Call(r, [pc |-> "sendEach", to |-> to])
        BY <3>3 DEF DeliverPush
      <4>2. PICK t : t = [pc |-> "sendEach", to |-> to]
        OBVIOUS
      <4>4. t \in DeviceTask /\ t.pc # "deactivate"
        BY <4>2 DEF DeviceTask
      <4>5. Call(r, t)
        BY <4>1, <4>2
      <4>. QED
        BY <4>4, <4>5 DEF Call
    <3>. QED
      BY <1>4, <3>1, <3>2, <3>3 DEF DeviceRequest
  <2>. QED
    BY <1>0, <2>1, <2>2 DEF DevicesOK
<1>5. CASE SaveToken(r) \/ InsertToken(r)
  <2>1. task' = [task EXCEPT ![r] = Idle] /\ Idle.pc # "deactivate"
    BY <1>5 DEF SaveToken, InsertToken, Finish, Resume, Idle
  <2>2. x.device \in Device /\ x.user \in Person
    BY <1>1, <1>5, DeviceTasks DEF SaveToken, InsertToken, At
  <2>3. UNCHANGED <<tokens, signedIn>> \/ Registered(x)
    BY <1>5 DEF SaveToken, InsertToken
  <2>4. DevicesOK'
    <3>. HIDE DEF x
    <3>1. CASE UNCHANGED <<tokens, signedIn>>
      BY <1>0, <3>1 DEF DevicesOK
    <3>2. CASE Registered(x)
      <4>1. /\ tokens' = [tokens EXCEPT ![x.device] = [user |-> x.user, active |-> TRUE]]
            /\ signedIn' = [signedIn EXCEPT ![x.device] = x.user]
        BY <3>2 DEF Registered
      <4>2. [user |-> x.user, active |-> TRUE] \in TokenRow
        BY <2>2 DEF TokenRow
      <4>. QED
        BY <1>0, <2>2, <4>1, <4>2 DEF DevicesOK
    <3>. QED
      BY <2>3, <3>1, <3>2
  <2>. QED
    BY <2>1, <2>4
<1>6. CASE SaveRemoved(r)
  <2>1. task' = [task EXCEPT ![r] = Idle] /\ Idle.pc # "deactivate"
    BY <1>6 DEF SaveRemoved, Finish, Resume, Idle
  <2>2. x.device \in Device /\ x.user \in Person
    BY <1>1, <1>6, DeviceTasks DEF SaveRemoved, At
  <2>3. /\ tokens' = [tokens EXCEPT ![x.device] = [user |-> x.user, active |-> FALSE]]
        /\ signedIn' = [signedIn EXCEPT ![x.device] = None]
    BY <1>6 DEF SaveRemoved
  <2>4. [user |-> x.user, active |-> FALSE] \in TokenRow
    BY <2>2 DEF TokenRow
  <2>5. DevicesOK'
    <3>. HIDE DEF x
    <3>. QED
      BY <1>0, <2>2, <2>3, <2>4 DEF DevicesOK
  <2>. QED
    BY <2>1, <2>5
<1>7. CASE SendEach(r)
  <2>. DEFINE gone == {d \in x.to : signedIn[d] = None}
  <2>1. UNCHANGED <<tokens, signedIn>>
        /\ (Finish(r) \/ Resume(r, [pc |-> "deactivate", gone |-> gone]))
    BY <1>7 DEF SendEach
  <2>2. gone \in SUBSET Device /\ \A d \in gone : signedIn[d] = None
    BY <1>1, <1>7, DeviceTasks DEF SendEach, At
  <2>. HIDE DEF gone
  <2>3. PICK t : t = [pc |-> "deactivate", gone |-> gone]
    OBVIOUS
  <2>6. t \in DeviceTask /\ t.gone = gone
    BY <2>2, <2>3 DEF DeviceTask
  <2>4. task' = [task EXCEPT ![r] = Idle] \/ task' = [task EXCEPT ![r] = t]
    BY <2>1, <2>3 DEF Finish, Resume
  <2>5. Idle.pc # "deactivate"
    BY DEF Idle
  <2>7. DevicesOK'
    BY <1>0, <2>1 DEF DevicesOK
  <2>8. \A d \in t.gone : signedIn'[d] = None
    BY <2>1, <2>2, <2>6
  <2>. QED
    BY <2>4, <2>5, <2>6, <2>7, <2>8
<1>8. CASE Deactivate(r)
  <2>1. task' = [task EXCEPT ![r] = Idle] /\ Idle.pc # "deactivate" /\ UNCHANGED signedIn
    BY <1>8 DEF Deactivate, Finish, Resume, Idle
  <2>2. tokens' = [d \in Device |-> IF d \in x.gone
                                    THEN [tokens[d] EXCEPT !.active = FALSE] ELSE tokens[d]]
    BY <1>8 DEF Deactivate
  <2>3. DevicesOK'
    <3>1. \A row \in TokenRow : [row EXCEPT !.active = FALSE] \in TokenRow
      BY DEF TokenRow
    <3>2. [NoToken EXCEPT !.active = FALSE] = NoToken
      <4>1. \A row \in [user : {None}, active : BOOLEAN] :
              row.active = FALSE => [row EXCEPT !.active = FALSE] = row
        OBVIOUS
      <4>2. NoToken \in [user : {None}, active : BOOLEAN] /\ NoToken.active = FALSE
        BY DEF NoToken
      <4>. QED
        BY <4>1, <4>2
    <3>3. ASSUME NEW d \in Device PROVE tokens'[d] \in TokenRow \cup {NoToken}
      <4>1. PICK row \in TokenRow \cup {NoToken} : row = tokens[d]
        BY <1>0 DEF DevicesOK
      <4>2. tokens'[d] = [row EXCEPT !.active = FALSE] \/ tokens'[d] = row
        BY <2>2, <4>1
      <4>. QED
        BY <3>1, <3>2, <4>2
    <3>. QED
      BY <1>0, <2>1, <2>2, <3>3 DEF DevicesOK
  <2>. QED
    BY <2>1, <2>3
<1>. QED
  BY <1>4, <1>5, <1>6, <1>7, <1>8 DEF DeviceStep

LEMMA InitDevice == Init => DeviceInv
BY DEF Init, DevicesInit, DeviceInv, DevicesOK, CallsInit

LEMMA StepDevice ==
  ASSUME Calling, DeviceInv, [Next]_vars
  PROVE  DeviceInv'
<1>1. CASE UNCHANGED vars
  BY <1>1 DEF vars, calls, devices, DeviceInv, DevicesOK, DevicesInit
<1>2. CASE part # "devices" /\ UNCHANGED <<part, devices>>
  BY <1>2 DEF DeviceInv, DevicesInit, devices
<1>3. CASE Leave
  <2>1. PICK d \in Device : signedIn' = [signedIn EXCEPT ![d] = None]
                            /\ part = "devices" /\ UNCHANGED <<part, tokens, calls>>
    BY <1>3 DEF Leave, Uninstall
  <2>. QED
    BY <2>1 DEF DeviceInv, DevicesOK, calls
<1>4. ASSUME NEW r \in Req, Reach(r) PROVE DeviceInv'
  <2>1. part = "devices" /\ UNCHANGED part /\ (DeviceRequest(r) \/ DeviceStep(r))
    BY <1>4 DEF Reach
  <2>. QED
    BY <2>1, DeviceStepHolds DEF DeviceInv
<1>5. ASSUME NEW r \in Req, Die(r), part = "devices" PROVE DeviceInv'
  <2>1. UNCHANGED <<part, devices>> /\ task' = [task EXCEPT ![r] = Idle] /\ UNCHANGED alone
    BY <1>5 DEF Die, Fail
  <2>2. task \in [Req -> DeviceTask \cup {Idle}] /\ DevicesOK
    BY <1>5 DEF DeviceInv
  <2>3. task' \in [Req -> DeviceTask \cup {Idle}] /\ DevicesOK'
    BY <2>1, <2>2 DEF DevicesOK, devices
  <2>. QED
    BY <1>5, <2>1, <2>3 DEF DeviceInv
<1>6. \A r \in Req : Account(r) \/ Consents(r) => part # "devices" /\ UNCHANGED <<part, devices>>
  BY DEF Account, Consents
<1>7. Codes => part # "devices" /\ UNCHANGED <<part, devices>>
  BY DEF Codes
<1>8. \A r \in Req : Die(r) => UNCHANGED <<part, devices>>
  BY DEF Die
<1>. QED
  BY <1>1, <1>2, <1>3, <1>4, <1>5, <1>6, <1>7, <1>8 DEF Next

\* Whoever is on another device stays so, and a task that waits goes on waiting.
LEMMA OthersReached ==
  ASSUME Reached, NEW r \in Req, DevicesOK,
         \A s \in Req \ {r} : task'[s] = task[s],
         At(r, "deactivate")' => \A d \in task'[r].gone : signedIn'[d] = None,
         NEW e \in Device, NEW who, NEW row,
         signedIn' = [signedIn EXCEPT ![e] = who], tokens' = [tokens EXCEPT ![e] = row],
         who # None => row = [user |-> who, active |-> TRUE],
         who = None \/ \A s \in Req \ {r} : At(s, "deactivate") => e \notin task[s].gone,
         \A s \in Req \ {r} : At(s, "deactivate") => task[s].gone \subseteq Device
  PROVE  Reached'
<1>1. ASSUME NEW d \in Device, signedIn'[d] # None
      PROVE  tokens'[d] = [user |-> signedIn'[d], active |-> TRUE]
  BY <1>1 DEF Reached, DevicesOK
<1>2. ASSUME NEW s \in Req, At(s, "deactivate")', NEW d \in task'[s].gone
      PROVE  signedIn'[d] = None
  <2>1. CASE s = r
    BY <1>2, <2>1
  <2>2. CASE s # r
    <3>1. At(s, "deactivate") /\ d \in task[s].gone /\ d \in Device
      BY <1>2, <2>2 DEF At
    <3>2. signedIn[d] = None
      BY <3>1 DEF Reached
    <3>3. CASE d = e
      <4>1. who = None
        BY <2>2, <3>1, <3>3
      <4>. QED
        BY <3>1, <3>3, <4>1 DEF DevicesOK
    <3>4. CASE d # e
      BY <3>1, <3>2, <3>4 DEF DevicesOK
    <3>. QED
      BY <3>3, <3>4
  <2>. QED
    BY <2>1, <2>2
<1>. QED
  BY <1>1, <1>2 DEF Reached

LEMMA ReachedStep ==
  ASSUME Calling, part = "devices", DeviceInv, SignInsApart, Reached, NEW r \in Req,
         DeviceRequest(r) \/ DeviceStep(r)
  PROVE  Reached'
<1>. DEFINE x == task[r]
<1>0. /\ task \in [Req -> DeviceTask \cup {Idle}] /\ DevicesOK
      /\ At(r, "deactivate")' => \A d \in task'[r].gone : signedIn'[d] = None
      /\ \A s \in Req \ {r} : task'[s] = task[s]
  <2>1. \E t : task' = [task EXCEPT ![r] = t]
    BY DevicesMove, MovesTo
  <2>. QED
    BY <2>1, DeviceStepHolds, TaskAt DEF DeviceInv
<1>1. ASSUME NEW s \in Req, At(s, "deactivate") PROVE task[s].gone \subseteq Device
  <2>1. task[s] \in DeviceTask \cup {Idle}
    BY <1>0
  <2>. QED
    BY <1>1, <2>1, DeviceTasks DEF At
<1>2. CASE UNCHANGED <<tokens, signedIn>>
  <2>1. ASSUME NEW s \in Req, At(s, "deactivate")', NEW d \in task'[s].gone
        PROVE  signedIn'[d] = None
    BY <1>0, <1>2, <2>1 DEF Reached, At
  <2>. QED
    BY <1>2, <2>1 DEF Reached
<1>3. CASE (SaveToken(r) \/ InsertToken(r)) /\ Registered(x)
  <2>1. x \in DeviceTask \cup {Idle} /\ x.pc \in {"saveToken", "insertToken"}
    BY <1>0, <1>3 DEF SaveToken, InsertToken, At
  <2>2. x.device \in Device /\ x.user \in Person
    BY <2>1, DeviceTasks
  <2>3. \A s \in Req \ {r} : At(s, "deactivate") => x.device \notin task[s].gone
    BY <1>3 DEF SignInsApart
  <2>4. /\ signedIn' = [signedIn EXCEPT ![x.device] = x.user]
        /\ tokens' = [tokens EXCEPT ![x.device] = [user |-> x.user, active |-> TRUE]]
    BY <1>3 DEF Registered
  <2>. HIDE DEF x
  <2>. QED
    BY <1>0, <1>1, <2>2, <2>3, <2>4, OthersReached
<1>4. CASE SaveRemoved(r)
  <2>1. x \in DeviceTask \cup {Idle} /\ x.pc = "removeToken"
    BY <1>0, <1>4 DEF SaveRemoved, At
  <2>2. x.device \in Device
    BY <2>1, DeviceTasks
  <2>3. /\ signedIn' = [signedIn EXCEPT ![x.device] = None]
        /\ tokens' = [tokens EXCEPT ![x.device] = [user |-> x.user, active |-> FALSE]]
    BY <1>4 DEF SaveRemoved
  <2>. HIDE DEF x
  <2>. QED
    BY <1>0, <1>1, <2>2, <2>3, OthersReached
<1>5. CASE Deactivate(r)
  <2>1. /\ At(r, "deactivate") /\ UNCHANGED signedIn
        /\ tokens' = [d \in Device |-> IF d \in x.gone
                                       THEN [tokens[d] EXCEPT !.active = FALSE] ELSE tokens[d]]
    BY <1>5 DEF Deactivate
  <2>2. \A d \in x.gone : signedIn[d] = None
    BY <2>1 DEF Reached
  <2>3. ASSUME NEW d \in Device, signedIn'[d] # None
        PROVE  tokens'[d] = [user |-> signedIn'[d], active |-> TRUE]
    BY <2>1, <2>2, <2>3 DEF Reached
  <2>4. ASSUME NEW s \in Req, At(s, "deactivate")', NEW d \in task'[s].gone
        PROVE  signedIn'[d] = None
    BY <1>0, <2>1, <2>4 DEF Reached, At
  <2>. QED
    BY <2>3, <2>4 DEF Reached
<1>6. DeviceRequest(r) \/ SendEach(r) => UNCHANGED <<tokens, signedIn>>
  BY DEF DeviceRequest, RegisterPushToken, RemovePushToken, DeliverPush, SendEach
<1>7. SaveToken(r) \/ InsertToken(r) => UNCHANGED <<tokens, signedIn>> \/ Registered(x)
  BY DEF SaveToken, InsertToken
<1>. QED
  BY <1>2, <1>3, <1>4, <1>5, <1>6, <1>7 DEF DeviceStep

LEMMA NextReached ==
  ASSUME Calling, part = "devices", DeviceInv, [Next]_vars, SignInsApart, Reached
  PROVE  Reached'
<1>1. CASE UNCHANGED vars
  BY <1>1 DEF vars, calls, devices, Reached, At
<1>2. CASE Leave
  <2>1. PICK e \in Device : signedIn' = [signedIn EXCEPT ![e] = None]
                            /\ part = "devices" /\ UNCHANGED <<tokens, calls>>
    BY <1>2 DEF Leave, Uninstall
  <2>2. signedIn \in [Device -> Person \cup {None}]
    BY <2>1 DEF DeviceInv, DevicesOK
  <2>3. \A d : signedIn[d] = None => signedIn'[d] = None
    BY <2>1, <2>2
  <2>4. \A d \in Device : signedIn'[d] # None => signedIn'[d] = signedIn[d]
    BY <2>1, <2>2
  <2>. QED
    BY <2>1, <2>3, <2>4 DEF Reached, calls, At
<1>3. ASSUME NEW r \in Req, Reach(r) PROVE Reached'
  BY <1>3, ReachedStep DEF Reach
<1>4. ASSUME NEW r \in Req, Die(r) PROVE Reached'
  <2>1. UNCHANGED <<tokens, signedIn>> /\ task' = [task EXCEPT ![r] = Idle]
    BY <1>4, DieMoves DEF Die, devices
  <2>2. \A s \in Req : task'[s] = task[s] \/ task'[s].pc = "idle"
    BY <2>1, TaskAt DEF Idle
  <2>. QED
    BY <2>1, <2>2 DEF Reached, At
<1>5. ~Codes /\ \A r \in Req : ~Account(r) /\ ~Consents(r)
  BY DEF Codes, Account, Consents, CodeRequest, AccountRequest
<1>. QED
  BY <1>1, <1>2, <1>3, <1>4, <1>5 DEF Next

\* Which part is exercised never changes, and tasks that overlapped did.
LEMMA PartStays ==
  ASSUME Calling, [Next]_vars
  PROVE  UNCHANGED part /\ (alone' => alone)
<1>1. \A r \in Req : Moves(r) => (alone' => alone)
  BY DEF Moves, Call
<1>2. CASE UNCHANGED <<part, calls>>
  BY <1>2 DEF calls
<1>3. CASE Codes
  BY <1>1, <1>2, <1>3, Ticks, CodesMove DEF Codes
<1>4. CASE Leave
  BY <1>2, <1>4 DEF Leave, Uninstall
<1>5. ASSUME NEW r \in Req, Account(r) \/ Consents(r) \/ Reach(r) \/ Die(r)
      PROVE  UNCHANGED part /\ (alone' => alone)
  BY <1>1, <1>5, AccountMoves, ConsentsMove, DevicesMove, DieMoves
     DEF Account, Consents, Reach, Die, AccountRequest
<1>. QED
  BY <1>2, <1>3, <1>4, <1>5 DEF Next, vars

LEMMA InitReached == Init => Reached
BY DEF Init, DevicesInit, CallsInit, Reached, At, Idle

LEMMA NotDevices ==
  ASSUME DeviceInv, part # "devices"
  PROVE  \A d \in Device : signedIn[d] = None
BY DEF DeviceInv, DevicesInit

(***************************************************************************)
(* Through any number of registrations, sign-outs, pushes and deaths that  *)
(* overlap as they like, a user is reached on the devices they are signed  *)
(* in on, and on none that was handed on to another since, unless somebody *)
(* signs in on a device while a push is about to give up its token         *)
(* (deliverPush deactivates what it sent to, whoever has it by then:       *)
(* notifications.service.ts).                                              *)
(***************************************************************************)
THEOREM SignedInIsReachedApart ==
  Spec /\ [][SignInsApart]_vars => []ActiveWhereSignedIn
<1>. DEFINE Inv == Calling /\ DeviceInv /\ (part = "devices" => Reached)
<1>1. Init => Inv
  BY InitCalling, InitDevice, InitReached
<1>2. Inv /\ [Next]_vars /\ [SignInsApart]_vars => Inv'
  <2>1. ASSUME Calling, part = "devices", DeviceInv, Reached, [Next]_vars, [SignInsApart]_vars
        PROVE  Reached'
    <3>1. CASE SignInsApart
      BY <2>1, <3>1, NextReached
    <3>2. CASE UNCHANGED vars
      BY <2>1, <3>2 DEF vars, calls, devices, Reached, At
    <3>. QED
      BY <2>1, <3>1, <3>2
  <2>. QED
    BY <2>1, StepCalling, StepDevice, PartStays
<1>3. Inv => ActiveWhereSignedIn
  BY NotDevices DEF Reached, ActiveWhereSignedIn
<1>. HIDE DEF Inv
<1>. QED
  BY <1>1, <1>2, <1>3, PTL DEF Spec

-----------------------------------------------------------------------------
(* Consent. *)

CurrentOf(p) ==
  Newest({NoVersion} \cup {p[l].version : l \in {k \in Locale : p[k].active}})

\* A bounded set of numbers has a greatest one.
LEMMA GreatestIs ==
  ASSUME NEW n \in Nat, NEW S \in SUBSET (0 .. n), S # {}
  PROVE  \E m \in S : \A w \in S : w <= m
<1>. DEFINE Below == OpToRel(<, Nat)
            T == {k \in Nat : \E w \in S : k = n - w}
<1>1. IsWellFoundedOn(Below, Nat)
  BY NatLessThanWellFounded
<1>2. \A x, y \in Nat : x < y => <<x, y>> \in Below
  BY DEF OpToRel
<1>3. T \subseteq Nat /\ T # {}
  <2>1. PICK w \in S : TRUE
    OBVIOUS
  <2>2. n - w \in Nat
    OBVIOUS
  <2>3. n - w \in T
    BY <2>2
  <2>. QED
    BY <2>3
<1>4. PICK k \in T : \A y \in T : <<y, k>> \notin Below
  <2>. HIDE DEF Below, T
  <2>. QED
    BY <1>1, <1>3, WFMin
<1>5. PICK m \in S : k = n - m
  OBVIOUS
<1>6. ASSUME NEW w \in S PROVE w <= m
  <2>1. n - w \in T /\ n - w \in Nat /\ k \in Nat
    OBVIOUS
  <2>. HIDE DEF T
  <2>2. ~(n - w < k)
    <3>. HIDE DEF Below
    <3>. QED
      BY <1>2, <1>4, <2>1
  <2>. QED
    BY <1>5, <2>2
<1>. QED
  BY <1>6

LEMMA NewestIs ==
  ASSUME NEW S \in SUBSET (0 .. MaxVersion), S # {}
  PROVE  Newest(S) \in S /\ \A w \in S : w <= Newest(S)
<1>1. \E m \in S : \A w \in S : w <= m
  BY GreatestIs, ConsentAssumption
<1>. QED
  BY <1>1 DEF Newest

LEMMA CurrentTyped ==
  ASSUME NEW p \in [Locale -> PageRow]
  PROVE  CurrentOf(p) \in 0 .. MaxVersion
<1>. DEFINE S == {NoVersion} \cup {p[l].version : l \in {k \in Locale : p[k].active}}
<1>1. \A l \in Locale : p[l].version \in 0 .. MaxVersion
  BY ConsentAssumption DEF PageRow, NoVersion, Version
<1>2. S \in SUBSET (0 .. MaxVersion) /\ S # {}
  BY <1>1, ConsentAssumption DEF NoVersion
<1>. HIDE DEF S
<1>3. Newest(S) \in S
  BY <1>2, NewestIs
<1>. QED
  BY <1>2, <1>3 DEF CurrentOf, S

\* Where active pages are at one of two versions, one of these is in force, or none.
LEMMA TwoVersions ==
  ASSUME NEW p \in [Locale -> PageRow], NEW V, NEW v,
         \A l \in Locale : p[l].active => p[l].version \in {V, v}
  PROVE  CurrentOf(p) \in {NoVersion, V, v}
<1>. DEFINE S == {NoVersion} \cup {p[l].version : l \in {k \in Locale : p[k].active}}
<1>1. \A l \in Locale : p[l].version \in 0 .. MaxVersion
  BY ConsentAssumption DEF PageRow, NoVersion, Version
<1>2. S \in SUBSET (0 .. MaxVersion) /\ S # {} /\ S \subseteq {NoVersion, V, v}
  BY <1>1, ConsentAssumption DEF NoVersion
<1>. HIDE DEF S
<1>3. Newest(S) \in S
  BY <1>2, NewestIs
<1>. QED
  BY <1>2, <1>3 DEF CurrentOf, S

\* The place a task has reached tells what it holds.
LEMMA ConsentTasks ==
  ASSUME NEW t \in ConsentTask \cup {Idle}
  PROVE  /\ t.pc \in {"readSiblings", "removePage"} => t.locale \in Locale /\ t.version \in Version
         /\ t.pc = "insertPage" => t.locale \in Locale /\ t.row \in PageRow
         /\ t.pc \in {"savePage", "propagate"} =>
              t \in [pc : {"savePage", "propagate"}, locale : Locale, row : PageRow, bumped : BOOLEAN]
         /\ t.pc = "persist" => t.version \in Version
BY DEF ConsentTask, Idle

\* What all that runs keeps, overlapping or not.
Published ==
  /\ task \in [Req -> ConsentTask \cup {Idle}] /\ ConsentOK
  /\ \A l \in Locale : ~There(l) => ~pages[l].active
  /\ \A r \in Req : Busy(r) => started # 0
  /\ \A r \in Req : task[r].pc \in {"insertPage", "savePage"} => task[r].row.born # 0

\* All translations are at one version, ...
AtOne(V) == \A l \in Locale : There(l) => pages[l].version = V

\* ... or one of them is at the next, to which the others are to follow.
Following(t, V) ==
  /\ V <= t.row.version /\ There(t.locale) /\ pages[t.locale].version = t.row.version
  /\ \A l \in Locale \ {t.locale} : There(l) => pages[l].version = V

Together ==
  alone /\ fails = 0 =>
    /\ (\E V \in Nat : AtOne(V)) \/ \E r \in Req : At(r, "propagate")
    /\ \A r \in Req :
         /\ At(r, "propagate") => \E V \in Nat : Following(task[r], V)
         /\ At(r, "insertPage") => AtOne(task[r].row.version)
         /\ At(r, "savePage") =>
              /\ There(task[r].locale)
              /\ pages[task[r].locale].version <= task[r].row.version
              /\ task[r].row.born = pages[task[r].locale].born
              /\ ~task[r].bumped => task[r].row.version = pages[task[r].locale].version

ConsentInv == IF part = "consent" THEN Published /\ Together ELSE ConsentInit

\* A task moves on, the pages being as they should.
LEMMA ConsentMove ==
  ASSUME Calling, Published, NEW r \in Req, Moves(r), NEW t \in ConsentTask \cup {Idle},
         task' = [task EXCEPT ![r] = t], ConsentOK',
         \A l \in Locale : pages'[l].born = 0 => ~pages'[l].active,
         t.pc \in {"insertPage", "savePage"} => t.row.born # 0
  PROVE  Published'
<1>1. task'[r] = t /\ \A s \in Req \ {r} : task'[s] = task[s]
  BY TaskAt
<1>2. started' # 0
  BY MovesCount DEF Published
<1>. QED
  BY <1>1, <1>2 DEF Published, There

LEMMA TogetherMove ==
  ASSUME Calling, Together, NEW r \in Req, Moves(r), NEW t, task' = [task EXCEPT ![r] = t],
         alone' /\ fails' = 0 =>
           /\ (\E V \in Nat : AtOne(V)') \/ t.pc = "propagate"
           /\ t.pc = "propagate" => \E V \in Nat : Following(t, V)'
           /\ t.pc = "insertPage" => \A l \in Locale : There(l)' => pages'[l].version = t.row.version
           /\ t.pc = "savePage" =>
                /\ pages'[t.locale].born # 0
                /\ pages'[t.locale].version <= t.row.version
                /\ t.row.born = pages'[t.locale].born
                /\ ~t.bumped => t.row.version = pages'[t.locale].version
  PROVE  Together'
<1>1. task'[r] = t /\ \A s \in Req \ {r} : task'[s] = task[s]
  BY TaskAt
<1>2. SUFFICES ASSUME alone', fails' = 0 PROVE Together'
  BY DEF Together
<1>3. \A s \in Req \ {r} : task'[s].pc = "idle"
  BY <1>1, <1>2, Alone DEF Idle
<1>4. /\ (\E V \in Nat : AtOne(V)') \/ At(r, "propagate")'
      /\ At(r, "propagate")' => \E V \in Nat : Following(task[r], V)'
      /\ At(r, "insertPage")' => \A l \in Locale : There(l)' => pages'[l].version = task'[r].row.version
      /\ At(r, "savePage")' =>
           /\ There(task[r].locale)'
           /\ pages'[task'[r].locale].version <= task'[r].row.version
           /\ task'[r].row.born = pages'[task'[r].locale].born
           /\ ~task'[r].bumped => task'[r].row.version = pages'[task'[r].locale].version
  BY <1>1, <1>2 DEF At, Following, There
<1>5. \A s \in Req : \A pc \in {"propagate", "insertPage", "savePage"} : At(s, pc)' => s = r
  BY <1>3 DEF At
<1>. QED
  BY <1>4, <1>5 DEF Together, AtOne

\* Where nobody else runs.
LEMMA ConsentAlone ==
  ASSUME Calling, Together, NEW r \in Req, Moves(r), alone', fails' = 0
  PROVE  /\ alone /\ fails = 0
         /\ (\E V \in Nat : AtOne(V)) \/ At(r, "propagate")
         /\ \A s \in Req \ {r} : task[s] = Idle
<1>1. fails = 0
  BY MovesCount
<1>. QED
  BY <1>1, Alone DEF Together, At, Idle

\* A request: its first task, and nothing is written yet.
LEMMA ConsentAsks ==
  ASSUME Calling, Published, Together, NEW r \in Req, ConsentRequest(r)
  PROVE  Published' /\ Together' /\ UNCHANGED <<pages, accepted>>
<1>0. /\ UNCHANGED <<pages, accepted>> /\ Moves(r)
      /\ ConsentOK /\ pages \in [Locale -> PageRow] /\ \A l \in Locale : pages[l] \in PageRow
  BY ConsentsMove DEF ConsentRequest, CreatePage, UpdatePage, DeletePage, Accept, Published, ConsentOK
<1>1. alone' /\ fails' = 0 => \E V \in Nat : AtOne(V)'
  <2>1. SUFFICES ASSUME alone', fails' = 0 PROVE \E V \in Nat : AtOne(V)'
    OBVIOUS
  <2>2. \A s \in Req : task[s] = Idle
    <3>1. \E t : Call(r, t)
      BY DEF ConsentRequest, CreatePage, UpdatePage, DeletePage, Accept
    <3>2. task[r] = Idle
      BY <3>1 DEF Call, Busy
    <3>. QED
      BY <1>0, <2>1, <3>2, ConsentAlone
  <2>3. PICK V \in Nat : AtOne(V)
    BY <1>0, <2>1, <2>2, ConsentAlone DEF At, Idle
  <2>. QED
    BY <1>0, <2>3 DEF AtOne, There
<1>2. ASSUME NEW t \in ConsentTask, Call(r, t), t.pc \in {"readSiblings", "removePage", "persist"}
      PROVE  Published' /\ Together'
  <2>1. task' = [task EXCEPT ![r] = t] /\ ConsentOK'
    BY <1>0, <1>2 DEF Call, ConsentOK
  <2>2. Published'
    BY <1>0, <1>2, <2>1, ConsentMove DEF Published, There
  <2>3. Together'
    BY <1>0, <1>1, <1>2, <2>1, TogetherMove
  <2>. QED
    BY <2>2, <2>3
<1>3. CASE CreatePage(r) \/ DeletePage(r)
  <2>0. 1 \in Version
    BY ConsentAssumption DEF Version
  <2>1. \E pc \in {"readSiblings", "removePage"}, l \in Locale, v \in Version :
          Call(r, [pc |-> pc, locale |-> l, version |-> v])
    <3>1. CASE CreatePage(r)
      <4>1. PICK l \in Locale, v \in Version :
              Call(r, [pc |-> "readSiblings", locale |-> l, version |-> v])
        BY <3>1 DEF CreatePage
      <4>. QED
        BY <4>1
    <3>2. CASE DeletePage(r)
      <4>1. PICK l \in Locale : Call(r, [pc |-> "removePage", locale |-> l, version |-> 1])
        BY <3>2 DEF DeletePage
      <4>. QED
        BY <2>0, <4>1
    <3>. QED
      BY <1>3, <3>1, <3>2
  <2>2. PICK pc \in {"readSiblings", "removePage"}, l \in Locale, v \in Version :
          Call(r, [pc |-> pc, locale |-> l, version |-> v])
    BY <2>1
  <2>3. PICK t : t = [pc |-> pc, locale |-> l, version |-> v]
    OBVIOUS
  <2>4. t \in ConsentTask /\ t.pc = pc
    BY <2>3 DEF ConsentTask
  <2>5. Call(r, t)
    BY <2>2, <2>3
  <2>. QED
    BY <1>0, <1>2, <2>4, <2>5
<1>4. CASE Accept(r)
  <2>1. Current # NoVersion /\ Call(r, [pc |-> "persist", version |-> Current])
    BY <1>4 DEF Accept
  <2>2. PICK v : v = Current
    OBVIOUS
  <2>3. CurrentOf(pages) \in 0 .. MaxVersion
    BY <1>0, CurrentTyped
  <2>4. v \in Version
    BY <2>1, <2>2, <2>3, ConsentAssumption DEF Current, CurrentOf, Version, NoVersion
  <2>5. PICK t : t = [pc |-> "persist", version |-> v]
    OBVIOUS
  <2>6. t \in ConsentTask /\ t.pc = "persist"
    BY <2>4, <2>5 DEF ConsentTask
  <2>7. Call(r, t)
    BY <2>1, <2>2, <2>5
  <2>. QED
    BY <1>0, <1>2, <2>6, <2>7
<1>5. CASE UpdatePage(r)
  <2>1. PICK l \in Locale, v \in Version, a \in BOOLEAN :
          /\ There(l) /\ v >= pages[l].version
          /\ Call(r, [pc |-> "savePage", locale |-> l, bumped |-> v # pages[l].version,
                      row |-> [pages[l] EXCEPT !.version = v, !.active = a]])
    BY <1>5 DEF UpdatePage
  <2>2. PICK old \in PageRow : old = pages[l]
    BY <1>0
  <2>3. PICK row : row = [old EXCEPT !.version = v, !.active = a]
    OBVIOUS
  <2>4. row \in PageRow /\ row.version = v /\ row.born = old.born
    BY <2>2, <2>3 DEF PageRow
  <2>5. PICK bumped \in BOOLEAN : bumped = (v # old.version)
    OBVIOUS
  <2>6. PICK t : t = [pc |-> "savePage", locale |-> l, bumped |-> bumped, row |-> row]
    OBVIOUS
  <2>7. t \in ConsentTask /\ t.pc = "savePage" /\ t.locale = l /\ t.row = row /\ t.bumped = bumped
    BY <2>4, <2>6 DEF ConsentTask
  <2>8. Call(r, t)
    BY <2>1, <2>2, <2>3, <2>5, <2>6
  <2>9. task' = [task EXCEPT ![r] = t] /\ ConsentOK' /\ row.born # 0
    BY <1>0, <2>1, <2>2, <2>4, <2>8 DEF Call, ConsentOK, There
  <2>10. Published'
    BY <1>0, <2>4, <2>7, <2>9, ConsentMove DEF Published, There
  <2>11. old.version <= v
    BY <2>1, <2>2, ConsentAssumption DEF PageRow, NoVersion, Version
  <2>12. Together'
    BY <1>0, <1>1, <2>2, <2>4, <2>5, <2>7, <2>9, <2>11, TogetherMove
  <2>. QED
    BY <1>0, <2>10, <2>12
<1>. QED
  BY <1>3, <1>4, <1>5 DEF ConsentRequest

\* What is in force does not fall back.
Rises == Current # NoVersion /\ Current' # NoVersion => Current <= Current'

LEMMA Rising ==
  ASSUME pages \in [Locale -> PageRow], pages' \in [Locale -> PageRow],
         NEW A \in Nat, NEW B \in Nat, NEW C \in Nat, NEW D \in Nat,
         A <= C, A <= D, B <= C, B <= D,
         \A l \in Locale : pages[l].active => pages[l].version \in {A, B},
         \A l \in Locale : pages'[l].active => pages'[l].version \in {C, D}
  PROVE  Rises
<1>1. CurrentOf(pages) \in {NoVersion, A, B} /\ CurrentOf(pages') \in {NoVersion, C, D}
  BY TwoVersions
<1>2. Current = CurrentOf(pages) /\ Current' = CurrentOf(pages')
  BY DEF Current, CurrentOf
<1>. QED
  BY <1>1, <1>2 DEF Rises

\* A step that leaves the pages alone, and one that is over.
LEMMA ConsentStays ==
  ASSUME Calling, Published, UNCHANGED pages
  PROVE  Rises /\ \A l \in Locale : pages'[l].born = 0 => ~pages'[l].active
<1>1. CurrentOf(pages) \in 0 .. MaxVersion
  BY CurrentTyped DEF Published, ConsentOK
<1>2. Current = CurrentOf(pages) /\ Current' = Current
  BY DEF Current, CurrentOf
<1>. QED
  BY <1>1, <1>2, ConsentAssumption DEF Rises, Published, There

LEMMA ConsentEnds ==
  ASSUME Calling, Published, Together, NEW r \in Req, Busy(r), Finish(r), ConsentOK',
         \A l \in Locale : pages'[l].born = 0 => ~pages'[l].active,
         alone' /\ fails' = 0 => \E V \in Nat : AtOne(V)'
  PROVE  Published' /\ Together'
<1>1. Moves(r) /\ task' = [task EXCEPT ![r] = Idle]
  BY FinishMoves DEF Finish, Resume
<1>2. Idle.pc = "idle"
  BY DEF Idle
<1>. QED
  BY <1>1, <1>2, ConsentMove, TogetherMove

LEMMA ReadSiblingsHolds ==
  ASSUME Calling, Published, Together, NEW r \in Req, ReadSiblings(r)
  PROVE  Published' /\ Together' /\ Rises
<1>. DEFINE x == task[r]
            siblings == {pages[l].version : l \in {k \in Locale : There(k)}}
<1>1. /\ Moves(r) /\ Busy(r) /\ x \in ConsentTask \cup {Idle} /\ At(r, "readSiblings")
      /\ UNCHANGED <<pages, accepted, started, fails, alone>>
      /\ ConsentOK /\ \A l \in Locale : pages[l] \in PageRow
  BY ConsentsMove, AtBusy DEF ConsentStep, ReadSiblings, Resume, Published, ConsentOK
<1>2. x.locale \in Locale /\ x.version \in Version
  BY <1>1, ConsentTasks DEF At
<1>3. siblings \in SUBSET (0 .. MaxVersion)
  BY <1>1, ConsentAssumption DEF PageRow, NoVersion, Version
<1>. HIDE DEF siblings
<1>4. PICK v : v = IF siblings = {} THEN x.version ELSE Newest(siblings)
  OBVIOUS
<1>5. v \in {NoVersion} \cup Version /\ (siblings # {} => v \in siblings)
  <2>1. CASE siblings = {}
    BY <1>2, <1>4, <2>1
  <2>2. CASE siblings # {}
    <3>1. v \in siblings
      BY <1>3, <1>4, <2>2, NewestIs
    <3>. QED
      BY <1>3, <3>1, ConsentAssumption DEF Version, NoVersion
  <2>. QED
    BY <2>1, <2>2
<1>6. PICK n : n = started
  OBVIOUS
<1>7. n \in Row /\ n # 0
  BY <1>1, <1>6 DEF Published, Calling, Row
<1>8. PICK row : row = [version |-> v, active |-> TRUE, born |-> n]
  OBVIOUS
<1>9. row \in PageRow /\ row.version = v /\ row.born = n
  BY <1>5, <1>7, <1>8 DEF PageRow
<1>10. PICK t : t = [pc |-> "insertPage", locale |-> x.locale, row |-> row]
  OBVIOUS
<1>11. t \in ConsentTask /\ t.pc = "insertPage" /\ t.row = row
  BY <1>2, <1>9, <1>10 DEF ConsentTask
<1>12. task' = [task EXCEPT ![r] = t]
  BY <1>4, <1>6, <1>8, <1>10 DEF ReadSiblings, Resume, siblings
<1>13. ConsentOK' /\ Rises /\ \A l \in Locale : pages'[l].born = 0 => ~pages'[l].active
  BY <1>1, ConsentStays DEF ConsentOK
<1>14. Published'
  BY <1>1, <1>7, <1>9, <1>11, <1>12, <1>13, ConsentMove
<1>15. ASSUME alone', fails' = 0
       PROVE  /\ \E V \in Nat : AtOne(V)'
              /\ \A l \in Locale : There(l)' => pages'[l].version = t.row.version
  <2>1. PICK V \in Nat : AtOne(V)
    BY <1>1, <1>15, ConsentAlone DEF At
  <2>2. siblings \subseteq {V}
    BY <2>1 DEF AtOne, siblings
  <2>3. \A l \in Locale : There(l) => pages[l].version \in siblings
    BY DEF siblings
  <2>. QED
    BY <1>1, <1>5, <1>9, <1>11, <2>1, <2>2, <2>3 DEF AtOne, There
<1>16. Together'
  BY <1>1, <1>11, <1>12, <1>15, TogetherMove
<1>. QED
  BY <1>13, <1>14, <1>16

LEMMA InsertPageHolds ==
  ASSUME Calling, Published, Together, NEW r \in Req, InsertPage(r)
  PROVE  Published' /\ Together' /\ (alone' /\ fails' = 0 => Rises)
<1>. DEFINE x == task[r]
<1>1. /\ Moves(r) /\ Busy(r) /\ x \in ConsentTask \cup {Idle} /\ At(r, "insertPage")
      /\ Finish(r) /\ UNCHANGED <<accepted, started, fails, alone>>
      /\ ConsentOK /\ pages \in [Locale -> PageRow]
  BY ConsentsMove, AtBusy DEF ConsentStep, InsertPage, Finish, Resume, Published, ConsentOK
<1>2. x.locale \in Locale /\ x.row \in PageRow /\ x.row.born # 0
  BY <1>1, ConsentTasks DEF At, Published
<1>3. pages' = pages \/ pages' = [pages EXCEPT ![x.locale] = x.row]
  BY DEF InsertPage
<1>4. pages' \in [Locale -> PageRow] /\ \A l \in Locale : pages'[l] = pages[l] \/ (l = x.locale /\ pages'[l] = x.row)
  BY <1>1, <1>2, <1>3
<1>5. ConsentOK' /\ \A l \in Locale : pages'[l].born = 0 => ~pages'[l].active
  BY <1>1, <1>2, <1>4 DEF ConsentOK, Published, There
<1>6. ASSUME alone', fails' = 0 PROVE (\E V \in Nat : AtOne(V)') /\ Rises
  <2>1. PICK V : V = x.row.version
    OBVIOUS
  <2>2. V \in Nat
    BY <1>2, <2>1, ConsentAssumption DEF PageRow, NoVersion, Version
  <2>3. AtOne(V)
    BY <1>1, <1>6, <2>1 DEF Together
  <2>4. AtOne(V)'
    BY <1>4, <2>1, <2>3 DEF AtOne, There
  <2>5. /\ \A l \in Locale : pages[l].active => pages[l].version \in {V, V}
        /\ \A l \in Locale : pages'[l].active => pages'[l].version \in {V, V}
    BY <1>5, <2>3, <2>4 DEF AtOne, There, Published
  <2>6. Rises
    BY <1>1, <1>4, <2>2, <2>5, Rising
  <2>. QED
    BY <2>2, <2>4, <2>6
<1>. QED
  BY <1>1, <1>5, <1>6, ConsentEnds

LEMMA RemovePageHolds ==
  ASSUME Calling, Published, Together, NEW r \in Req, RemovePage(r)
  PROVE  Published' /\ Together' /\ (alone' /\ fails' = 0 => Rises)
<1>. DEFINE x == task[r]
<1>1. /\ Moves(r) /\ Busy(r) /\ x \in ConsentTask \cup {Idle} /\ At(r, "removePage")
      /\ Finish(r) /\ UNCHANGED <<accepted, started, fails, alone>>
      /\ ConsentOK /\ pages \in [Locale -> PageRow]
  BY ConsentsMove, AtBusy DEF ConsentStep, RemovePage, Finish, Resume, Published, ConsentOK
<1>2. x.locale \in Locale
  BY <1>1, ConsentTasks DEF At
<1>3. NoPage \in PageRow /\ NoPage.born = 0 /\ ~NoPage.active
  BY DEF NoPage, PageRow
<1>4. pages' \in [Locale -> PageRow] /\ \A l \in Locale : pages'[l] = pages[l] \/ pages'[l] = NoPage
  BY <1>1, <1>2, <1>3 DEF RemovePage
<1>5. ConsentOK' /\ \A l \in Locale : pages'[l].born = 0 => ~pages'[l].active
  BY <1>1, <1>3, <1>4 DEF ConsentOK, Published, There
<1>6. ASSUME alone', fails' = 0 PROVE (\E V \in Nat : AtOne(V)') /\ Rises
  <2>1. PICK V \in Nat : AtOne(V)
    BY <1>1, <1>6, ConsentAlone DEF At
  <2>2. AtOne(V)'
    BY <1>3, <1>4, <2>1 DEF AtOne, There
  <2>3. /\ \A l \in Locale : pages[l].active => pages[l].version \in {V, V}
        /\ \A l \in Locale : pages'[l].active => pages'[l].version \in {V, V}
    BY <1>5, <2>1, <2>2 DEF AtOne, There, Published
  <2>4. Rises
    BY <1>1, <1>4, <2>3, Rising
  <2>. QED
    BY <2>2, <2>4
<1>. QED
  BY <1>1, <1>5, <1>6, ConsentEnds

LEMMA PropagateHolds ==
  ASSUME Calling, Published, Together, NEW r \in Req, Propagate(r)
  PROVE  Published' /\ Together' /\ (alone' /\ fails' = 0 => Rises)
<1>. DEFINE x == task[r]
<1>1. /\ Moves(r) /\ Busy(r) /\ x \in ConsentTask \cup {Idle} /\ At(r, "propagate")
      /\ Finish(r) /\ UNCHANGED <<accepted, started, fails, alone>>
      /\ ConsentOK /\ pages \in [Locale -> PageRow]
  BY ConsentsMove, AtBusy DEF ConsentStep, Propagate, Finish, Resume, Published, ConsentOK
<1>2. x.locale \in Locale /\ x.row \in PageRow
  BY <1>1, ConsentTasks DEF At
<1>3. PICK v : v = x.row.version
  OBVIOUS
<1>4. v \in {NoVersion} \cup Version /\ v \in Nat
  BY <1>2, <1>3, ConsentAssumption DEF PageRow, NoVersion, Version
<1>5. pages' = [l \in Locale |-> IF There(l) /\ l # x.locale
                                 THEN [pages[l] EXCEPT !.version = v] ELSE pages[l]]
  BY <1>3 DEF Propagate
<1>6. ASSUME NEW l \in Locale
      PROVE  /\ pages'[l] \in PageRow /\ pages'[l].born = pages[l].born
             /\ pages'[l].active = pages[l].active
             /\ IF There(l) /\ l # x.locale THEN pages'[l].version = v
                ELSE pages'[l].version = pages[l].version
  <2>1. PICK old \in PageRow : old = pages[l]
    BY <1>1
  <2>2. pages'[l] = IF There(l) /\ l # x.locale THEN [old EXCEPT !.version = v] ELSE old
    BY <1>5, <2>1
  <2>3. /\ [old EXCEPT !.version = v] \in PageRow /\ [old EXCEPT !.version = v].born = old.born
        /\ [old EXCEPT !.version = v].active = old.active /\ [old EXCEPT !.version = v].version = v
    BY <1>4 DEF PageRow
  <2>. QED
    BY <2>1, <2>2, <2>3
<1>7. pages' \in [Locale -> PageRow]
  BY <1>5, <1>6
<1>8. ConsentOK' /\ \A l \in Locale : pages'[l].born = 0 => ~pages'[l].active
  BY <1>1, <1>6, <1>7 DEF ConsentOK, Published, There
<1>9. ASSUME alone', fails' = 0 PROVE (\E V \in Nat : AtOne(V)') /\ Rises
  <2>1. PICK V \in Nat : Following(x, V)
    BY <1>1, <1>9 DEF Together
  <2>2. AtOne(v)'
    BY <1>2, <1>3, <1>6, <2>1 DEF AtOne, There, Following
  <2>3. /\ \A l \in Locale : pages[l].active => pages[l].version \in {V, v}
        /\ \A l \in Locale : pages'[l].active => pages'[l].version \in {v, v}
        /\ V <= v
    BY <1>2, <1>3, <1>8, <2>1, <2>2 DEF AtOne, There, Published, Following
  <2>4. v <= v /\ V \in Nat /\ v \in Nat
    BY <1>4
  <2>5. Rises
    <3>. HIDE DEF x
    <3>. QED
      BY <1>1, <1>7, <2>3, <2>4, Rising
  <2>. QED
    BY <1>4, <2>2, <2>5
<1>. QED
  BY <1>1, <1>8, <1>9, ConsentEnds

LEMMA SavePageHolds ==
  ASSUME Calling, Published, Together, NEW r \in Req, SavePage(r)
  PROVE  Published' /\ Together' /\ (alone' /\ fails' = 0 => Rises)
<1>. DEFINE x == task[r]
            clash == There(x.locale) /\ pages[x.locale].born # x.row.born
<1>1. /\ Moves(r) /\ Busy(r) /\ x \in ConsentTask \cup {Idle} /\ At(r, "savePage")
      /\ UNCHANGED <<accepted, started, fails, alone>>
      /\ ConsentOK /\ pages \in [Locale -> PageRow]
  BY ConsentsMove, AtBusy DEF ConsentStep, SavePage, Finish, Goto, Resume, Published, ConsentOK
<1>2. /\ x \in [pc : {"savePage", "propagate"}, locale : Locale, row : PageRow, bumped : BOOLEAN]
      /\ x.locale \in Locale /\ x.row \in PageRow /\ x.row.born # 0
  BY <1>1, ConsentTasks DEF At, Published
<1>3. pages' = IF clash THEN pages ELSE [pages EXCEPT ![x.locale] = x.row]
  BY DEF SavePage
<1>4. pages' \in [Locale -> PageRow]
      /\ \A l \in Locale : pages'[l] = IF l = x.locale /\ ~clash THEN x.row ELSE pages[l]
  BY <1>1, <1>2, <1>3
<1>5. ConsentOK' /\ \A l \in Locale : pages'[l].born = 0 => ~pages'[l].active
  BY <1>1, <1>2, <1>4 DEF ConsentOK, Published, There
<1>6. PICK t : t = [x EXCEPT !.pc = "propagate"]
  OBVIOUS
<1>7. t \in ConsentTask /\ t.pc = "propagate" /\ t.locale = x.locale /\ t.row = x.row
  BY <1>2, <1>6 DEF ConsentTask
<1>8. IF x.bumped /\ ~clash THEN task' = [task EXCEPT ![r] = t] ELSE Finish(r)
  BY <1>6 DEF SavePage, Goto, Resume
<1>9. ASSUME alone', fails' = 0
      PROVE  /\ ~clash /\ Rises
             /\ \E V \in Nat : AtOne(V) /\ V <= x.row.version /\ (~x.bumped => x.row.version = V)
  <2>1. PICK V \in Nat : AtOne(V)
    BY <1>1, <1>9, ConsentAlone DEF At
  <2>2. /\ There(x.locale) /\ pages[x.locale].version <= x.row.version
        /\ x.row.born = pages[x.locale].born
        /\ ~x.bumped => x.row.version = pages[x.locale].version
    BY <1>1, <1>9 DEF Together
  <2>3. pages[x.locale].version = V
    BY <1>2, <2>1, <2>2 DEF AtOne
  <2>4. PICK v : v = x.row.version
    OBVIOUS
  <2>5. v \in Nat /\ V <= v /\ V <= V
    BY <1>2, <2>2, <2>3, <2>4, ConsentAssumption DEF PageRow, NoVersion, Version
  <2>6. /\ \A l \in Locale : pages[l].active => pages[l].version \in {V, V}
        /\ \A l \in Locale : pages'[l].active => pages'[l].version \in {V, v}
    BY <1>4, <2>1, <2>4 DEF AtOne, There, Published
  <2>7. Rises
    BY <1>1, <1>4, <2>5, <2>6, Rising
  <2>. QED
    BY <2>1, <2>2, <2>3, <2>4, <2>5, <2>7
<1>10. CASE x.bumped /\ ~clash
  <2>1. task' = [task EXCEPT ![r] = t]
    BY <1>8, <1>10
  <2>2. Published'
    BY <1>1, <1>5, <1>7, <2>1, ConsentMove
  <2>3. ASSUME alone', fails' = 0 PROVE \E V \in Nat : Following(t, V)'
    <3>1. PICK V \in Nat : AtOne(V) /\ V <= x.row.version
      BY <1>9, <2>3
    <3>2. Following(t, V)'
      BY <1>2, <1>4, <1>7, <1>10, <3>1 DEF Following, AtOne, There
    <3>. QED
      BY <3>2
  <2>4. Together'
    BY <1>1, <1>7, <2>1, <2>3, TogetherMove
  <2>. QED
    BY <1>9, <2>2, <2>4
<1>11. CASE ~(x.bumped /\ ~clash)
  <2>1. ASSUME alone', fails' = 0 PROVE \E V \in Nat : AtOne(V)'
    <3>1. PICK V \in Nat : AtOne(V) /\ x.row.version = V
      BY <1>9, <1>11, <2>1
    <3>2. AtOne(V)'
      BY <1>4, <3>1 DEF AtOne, There
    <3>. QED
      BY <3>2
  <2>2. Finish(r)
    BY <1>8, <1>11
  <2>. QED
    BY <1>1, <1>5, <1>9, <2>1, <2>2, ConsentEnds
<1>. QED
  BY <1>10, <1>11

LEMMA PersistHolds ==
  ASSUME Calling, Published, Together, NEW r \in Req, Persist(r)
  PROVE  Published' /\ Together' /\ Rises
<1>. DEFINE x == task[r]
<1>1. /\ Moves(r) /\ Busy(r) /\ x \in ConsentTask \cup {Idle} /\ At(r, "persist")
      /\ Finish(r) /\ UNCHANGED <<pages, started, fails, alone>>
      /\ ConsentOK /\ accepted' = accepted \cup {x.version}
  BY ConsentsMove, AtBusy DEF ConsentStep, Persist, Finish, Resume, Published, ConsentOK
<1>2. x.version \in Version
  BY <1>1, ConsentTasks DEF At
<1>3. ConsentOK'
  BY <1>1, <1>2 DEF ConsentOK
<1>4. alone' /\ fails' = 0 => \E V \in Nat : AtOne(V)'
  <2>1. SUFFICES ASSUME alone', fails' = 0 PROVE \E V \in Nat : AtOne(V)'
    OBVIOUS
  <2>2. PICK V \in Nat : AtOne(V)
    BY <1>1, <2>1, ConsentAlone DEF At
  <2>. QED
    BY <1>1, <2>2 DEF AtOne, There
<1>. QED
  BY <1>1, <1>3, <1>4, ConsentStays, ConsentEnds

LEMMA InitConsent == Init => ConsentInv
<1>1. ConsentInit /\ CallsInit => Published /\ Together
  <2>. SUFFICES ASSUME ConsentInit, CallsInit PROVE Published /\ Together
    OBVIOUS
  <2>1. NoPage \in PageRow /\ NoPage.born = 0 /\ ~NoPage.active
    BY DEF NoPage, PageRow
  <2>2. \A r \in Req : task[r] = Idle /\ Idle.pc = "idle"
    BY DEF CallsInit, Idle
  <2>3. \A l \in Locale : ~There(l) /\ ~pages[l].active
    BY <2>1 DEF ConsentInit, There
  <2>4. Published
    BY <2>1, <2>2, <2>3 DEF ConsentInit, CallsInit, Published, ConsentOK, Busy
  <2>5. AtOne(0)
    BY <2>3 DEF AtOne
  <2>. QED
    BY <2>2, <2>4, <2>5 DEF Together, At
<1>. QED
  BY <1>1 DEF Init, ConsentInv

LEMMA ConsentStepHolds ==
  ASSUME Calling, Published, Together, NEW r \in Req, ConsentStep(r)
  PROVE  Published' /\ Together' /\ (alone' /\ fails' = 0 => Rises)
BY ReadSiblingsHolds, InsertPageHolds, SavePageHolds, PropagateHolds, RemovePageHolds, PersistHolds
   DEF ConsentStep

\* A step is a consent's, or leaves the document as it is.
LEMMA ConsentShapes ==
  ASSUME [Next]_vars
  PROVE  /\ part' = part
         /\ \/ part = "consent" /\ \E r \in Req : ConsentRequest(r) \/ ConsentStep(r)
            \/ part = "consent" /\ \E r \in Req : Die(r)
            \/ UNCHANGED consent /\ (part = "consent" => UNCHANGED calls)
BY DEF Next, vars, Codes, Leave, Account, Consents, Reach, Die

LEMMA StepConsent ==
  ASSUME Calling, ConsentInv, [Next]_vars
  PROVE  ConsentInv'
<1>0. part' = part
  BY ConsentShapes
<1>1. CASE part # "consent"
  <2>1. UNCHANGED consent
    BY <1>1, ConsentShapes
  <2>. QED
    BY <1>0, <1>1, <2>1 DEF ConsentInv, ConsentInit, consent
<1>2. CASE part = "consent"
  <2>0. Published /\ Together
    BY <1>2 DEF ConsentInv
  <2>1. ASSUME NEW r \in Req, ConsentRequest(r) \/ ConsentStep(r) PROVE Published' /\ Together'
    BY <2>0, <2>1, ConsentAsks, ConsentStepHolds
  <2>2. ASSUME NEW r \in Req, Die(r) PROVE Published' /\ Together'
    <3>1. /\ UNCHANGED <<consent, started>> /\ fails' # 0
          /\ task' = [task EXCEPT ![r] = Idle]
      BY <2>2, DieMoves, MovesCount DEF Die, Fail, Calling
    <3>2. Moves(r) /\ Idle.pc = "idle"
      BY <2>2, DieMoves DEF Idle
    <3>3. Published'
      BY <2>0, <3>1, <3>2, ConsentMove DEF consent, Published, ConsentOK, There
    <3>. QED
      BY <3>1, <3>3 DEF Together
  <2>3. ASSUME UNCHANGED <<consent, calls>> PROVE Published' /\ Together'
    BY <2>0, <2>3 DEF consent, calls, Published, Together, ConsentOK, There, AtOne, Following, At, Busy
  <2>4. Published' /\ Together'
    BY <1>2, <2>1, <2>2, <2>3, ConsentShapes
  <2>. QED
    BY <1>0, <1>2, <2>4 DEF ConsentInv
<1>. QED
  BY <1>1, <1>2

\* Whoever was to be asked still is.
LEMMA StillAsks ==
  ASSUME Calling, ConsentInv, [Next]_vars, alone, fails = 0, Asks, Current' # NoVersion,
         accepted' = accepted
  PROVE  Asks'
<1>1. pages \in [Locale -> PageRow] /\ accepted \subseteq Version
      /\ pages' \in [Locale -> PageRow]
  <2>1. CASE part = "consent"
    BY <2>1, StepConsent, ConsentShapes DEF ConsentInv, Published, ConsentOK
  <2>2. CASE part # "consent"
    <3>1. UNCHANGED consent /\ ConsentInit /\ NoPage \in PageRow
      BY <2>2, ConsentShapes DEF ConsentInv, NoPage, PageRow
    <3>. QED
      BY <3>1 DEF ConsentInit, consent
  <2>. QED
    BY <2>1, <2>2
<1>2. Current \in 0 .. MaxVersion /\ Current' \in 0 .. MaxVersion
  <2>1. CurrentOf(pages) \in 0 .. MaxVersion /\ CurrentOf(pages') \in 0 .. MaxVersion
    BY <1>1, CurrentTyped
  <2>. QED
    BY <2>1 DEF Current, CurrentOf
<1>3. Current <= Current'
  <2>1. CASE UNCHANGED pages
    <3>1. Current' = Current
      BY <2>1 DEF Current
    <3>. QED
      BY <1>2, <3>1, ConsentAssumption
  <2>2. CASE ~UNCHANGED pages
    <3>1. PICK r \in Req : part = "consent" /\ (ConsentRequest(r) \/ ConsentStep(r))
      BY <2>2, ConsentShapes DEF consent, Die
    <3>2. Published /\ Together
      BY <3>1 DEF ConsentInv
    <3>3. ConsentStep(r)
      BY <2>2, <3>1, <3>2, ConsentAsks
    <3>4. UNCHANGED <<alone, fails>>
      BY <3>3 DEF ConsentStep, ReadSiblings, InsertPage, SavePage, Propagate, RemovePage, Persist,
                  Goto, Finish, Resume
    <3>. QED
      BY <3>2, <3>3, <3>4, ConsentStepHolds DEF Rises, Asks
  <2>. QED
    BY <2>1, <2>2
<1>4. \A a \in accepted : ~(a >= Current')
  BY <1>1, <1>2, <1>3, ConsentAssumption DEF Asks, Version
<1>. QED
  BY <1>4 DEF Asks

(***************************************************************************)
(* Whoever was to be asked for consent is asked until they give it, for    *)
(* any locales and versions, as long as publications do not overlap or die *)
(* (legal.service.ts, pages.service.ts).                                   *)
(***************************************************************************)
THEOREM AskedUntilAccepted == Spec => AsksUntilAccepted
<1>1. Calling /\ ConsentInv /\ [Next]_vars => (Calling /\ ConsentInv)'
  BY StepCalling, StepConsent
<1>2. Calling /\ ConsentInv /\ [Next]_vars =>
        [alone /\ fails = 0 /\ Asks /\ Current' # NoVersion /\ accepted' = accepted
           => Asks']_<<pages, accepted, calls>>
  BY StillAsks
<1>. QED
  BY <1>1, <1>2, InitCalling, InitConsent, PTL DEF Spec, AsksUntilAccepted

=============================================================================
