----------------------------- MODULE Membership ----------------------------
(***************************************************************************)
(* A customer's membership: the account with its codes and sessions, the   *)
(* legal documents it consents to, and the devices it is reached on.  The  *)
(* parts share the server's tasks and no row (what legal.service and       *)
(* notifications.service read of a user is that it exists): a behaviour    *)
(* exercises one of them, chosen at the start.                             *)
(***************************************************************************)
EXTENDS Accounts, Consent, Devices

CONSTANT Quota     \* bound: how many requests each part makes

PartName == {"codes", "account", "consent", "devices"}

ASSUME MembershipAssumption == Quota \in [PartName -> 0 .. MaxRequests]

VARIABLE part      \* the part this behaviour exercises

customer == <<account, codes, sessions>>
consent == <<pages, accepted>>
devices == <<tokens, signedIn>>

vars == <<part, customer, consent, devices, calls>>

Task == AccountTask \cup ConsentTask \cup DeviceTask

TypeOK ==
  /\ part \in PartName
  /\ CodesOK /\ AccountOK /\ ConsentOK /\ DevicesOK
  /\ CallsOK(Task)

More == started < Quota[part]

\* Time is that of the codes; nothing else here is timed.
Codes ==
  /\ part \in {"codes", "account"}
  /\ Cool \/ Expire \/ \E r \in Req : CodeStep(r)
  /\ UNCHANGED <<part, account, sessions, consent, devices>>

Account(r) ==
  /\ \/ part = "codes" /\ More /\ CodeRequest(r) /\ UNCHANGED customer
     \/ part = "account" /\ More /\ AccountRequest(r) /\ UNCHANGED customer
     \/ part = "account" /\ AccountStep(r)
  /\ UNCHANGED <<part, consent, devices>>

Consents(r) ==
  /\ part = "consent"
  /\ (More /\ ConsentRequest(r)) \/ ConsentStep(r)
  /\ UNCHANGED <<part, customer, devices>>

Reach(r) ==
  /\ part = "devices"
  /\ (More /\ DeviceRequest(r)) \/ DeviceStep(r)
  /\ UNCHANGED <<part, customer, consent>>

Leave ==
  /\ part = "devices"
  /\ \E d \in Device : Uninstall(d)
  /\ UNCHANGED <<part, customer, consent>>

Die(r) == Fail(r) /\ UNCHANGED <<part, customer, consent, devices>>

Init ==
  /\ part \in {p \in PartName : Quota[p] > 0}
  /\ CodesInit /\ AccountInit /\ ConsentInit /\ DevicesInit
  /\ CallsInit
  /\ part \in {"consent", "devices"} => Is("active")   \* what these do not look at

Next ==
  \/ Codes \/ Leave
  \/ \E r \in Req : Account(r) \/ Consents(r) \/ Reach(r) \/ Die(r)

Spec == Init /\ [][Next]_vars
=============================================================================
