\* One task at a time, none of which dies: what the handlers do when left alone.
CONSTANTS
  Req = {r1}
  Offer = {o1, o2}
  NoOffer = NoOffer
  DatePair <- MCDatePair
  Target = {"verified", "verification_required", "awaiting_activation", "activated", "cancelled"}
  EditTarget = {"in_progress", "awaiting_activation", "rejected"}
  Ops = {"transition", "request", "submit", "send", "accept", "edit", "correct", "ocr"}
  MayFail = FALSE
  MaxRequests = 6
SPECIFICATION Spec
INVARIANTS RequiredHasPending OnePendingRequest AwaitingHasDates
PROPERTIES SettledStays TransitionMirrors
CHECK_DEADLOCK FALSE
