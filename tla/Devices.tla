------------------------------- MODULE Devices -----------------------------
(***************************************************************************)
(* The devices that notifications are pushed to: registered by the app at  *)
(* sign-in, handed on to whoever signs in next, removed at sign-out, and   *)
(* given up when the push service says that the app is gone.               *)
(***************************************************************************)
EXTENDS Calls

CONSTANTS
  Device,       \* each has one token of the push service
  Person        \* the users

VARIABLES
  tokens,       \* push_tokens, by device: NoToken when there is no row
  signedIn      \* history: who the app on the device registered last, and still is

TokenRow == [user : Person, active : BOOLEAN]
NoToken == [user |-> None, active |-> FALSE]

DeviceTask ==
       [pc : {"saveToken", "insertToken", "removeToken"}, device : Device, user : Person]
  \cup [pc : {"sendEach"}, to : SUBSET Device]
  \cup [pc : {"deactivate"}, gone : SUBSET Device]

DevicesOK ==
  /\ tokens \in [Device -> TokenRow \cup {NoToken}]
  /\ signedIn \in [Device -> Person \cup {None}]

Known(d) == tokens[d] # NoToken

\* registerPushToken: the row of the token is looked up ...
RegisterPushToken(r) ==
  /\ \E d \in Device, p \in Person :
       Call(r, [pc |-> IF Known(d) THEN "saveToken" ELSE "insertToken",
                device |-> d, user |-> p])
  /\ UNCHANGED <<tokens, signedIn>>

Registered(t) ==
  /\ tokens' = [tokens EXCEPT ![t.device] = [user |-> t.user, active |-> TRUE]]
  /\ signedIn' = [signedIn EXCEPT ![t.device] = t.user]

\* ... and handed on, whoever had it ...
SaveToken(r) ==
  /\ At(r, "saveToken")
  /\ Registered(task[r])
  /\ Finish(r)

\* ... or inserted; its unique index rejects the second of two.
InsertToken(r) ==
  LET t == task[r] IN
  /\ At(r, "insertToken")
  /\ IF Known(t.device) THEN UNCHANGED <<tokens, signedIn>> ELSE Registered(t)
  /\ Finish(r)

\* removePushToken: the row as it was read, no longer active.
RemovePushToken(r) ==
  /\ \E d \in Device :
       /\ Known(d)
       /\ Call(r, [pc |-> "removeToken", device |-> d, user |-> tokens[d].user])
  /\ UNCHANGED <<tokens, signedIn>>

SaveRemoved(r) ==
  LET t == task[r] IN
  /\ At(r, "removeToken")
  /\ tokens' = [tokens EXCEPT ![t.device] = [user |-> t.user, active |-> FALSE]]
  /\ signedIn' = [signedIn EXCEPT ![t.device] = None]
  /\ Finish(r)

\* The app is uninstalled: the push service reports its token gone from now on.
Uninstall(d) ==
  /\ signedIn[d] # None
  /\ signedIn' = [signedIn EXCEPT ![d] = None]
  /\ UNCHANGED <<tokens, calls>>

\* deliverPush, to a user: their active devices are read ...
DeliverPush(r) ==
  /\ \E p \in Person :
       LET to == {d \in Device : tokens[d].active /\ tokens[d].user = p} IN
       to # {} /\ Call(r, [pc |-> "sendEach", to |-> to])
  /\ UNCHANGED <<tokens, signedIn>>

\* A slip: every device that the service rejects is given up.
SendAndGiveUp(r) ==
  LET t == task[r] IN
  /\ At(r, "sendEach")
  /\ \E rejected \in SUBSET t.to :
       IF rejected = {} THEN Finish(r) ELSE Resume(r, [pc |-> "deactivate", gone |-> rejected])
  /\ UNCHANGED <<tokens, signedIn>>

\* ... and sent to; what the service rejects for any other reason is logged ...
SendEach(r) ==
  LET gone == {d \in task[r].to : signedIn[d] = None} IN
  /\ At(r, "sendEach")
  /\ IF gone = {} THEN Finish(r) ELSE Resume(r, [pc |-> "deactivate", gone |-> gone])
  /\ UNCHANGED <<tokens, signedIn>>

\* ... and the tokens it reports gone are deactivated.
Deactivate(r) ==
  /\ At(r, "deactivate")
  /\ tokens' = [d \in Device |-> IF d \in task[r].gone
                                 THEN [tokens[d] EXCEPT !.active = FALSE] ELSE tokens[d]]
  /\ Finish(r)
  /\ UNCHANGED signedIn

DeviceRequest(r) == RegisterPushToken(r) \/ RemovePushToken(r) \/ DeliverPush(r)

DeviceStep(r) ==
  \/ SaveToken(r) \/ InsertToken(r) \/ SaveRemoved(r) \/ SendEach(r) \/ Deactivate(r)

DevicesInit ==
  /\ tokens = [d \in Device |-> NoToken]
  /\ signedIn = [d \in Device |-> None]

-----------------------------------------------------------------------------

\* Nobody signs in on a device while a push is about to give up its token.
SignInsApart ==
  \A r, s \in Req :
    (SaveToken(r) \/ InsertToken(r)) /\ At(s, "deactivate") => task[r].device \notin task[s].gone

(***************************************************************************)
(* A user is reached on the devices they are signed in on, and not on one  *)
(* that was handed on to another since, however registrations, sign-outs   *)
(* and pushes overlap, if SignInsApart holds of every step.  (A device     *)
(* that registers while an earlier push is being given up is silent until  *)
(* it registers again.)                                                    *)
(***************************************************************************)
ActiveWhereSignedIn ==
  \A d \in Device : signedIn[d] # None => tokens[d] = [user |-> signedIn[d], active |-> TRUE]
=============================================================================
