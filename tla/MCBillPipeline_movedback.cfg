\* A live case moved back by editing the case: see MovedBackClearsDates.
CONSTANTS
  Req = {r1}
  Offer = {o1}
  NoOffer = NoOffer
  DatePair <- MCPlainDates
  Target = {"verified", "awaiting_activation"}
  EditTarget = {"in_progress"}
  Ops = {"transition", "send", "accept", "edit"}
  MayFail = FALSE
  MaxRequests = 5
SPECIFICATION Spec
PROPERTY MovedBackClearsDates
CHECK_DEADLOCK FALSE
