\* Two acceptances of the same bill, interleaved: see OneOpenSwitch.
CONSTANTS
  Req = {r1, r2}
  Offer = {o1}
  NoOffer = NoOffer
  DatePair <- MCNoDates
  Target = {"verified"}
  EditTarget = {}
  Ops = {"transition", "send", "accept"}
  MayFail = FALSE
  MaxRequests = 4
SPECIFICATION Spec
INVARIANT OneOpenSwitch
CHECK_DEADLOCK FALSE
