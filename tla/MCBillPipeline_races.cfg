\* Two tasks at a time, of every kind, each of which may die at any await.
CONSTANTS
  Req = {r1, r2}
  Offer = {o1}
  NoOffer = NoOffer
  DatePair <- MCPlainDates
  Target = {"verified", "verification_required", "awaiting_activation", "cancelled"}
  EditTarget = {"in_progress", "rejected"}
  Ops = {"transition", "request", "submit", "send", "accept", "edit", "correct", "ocr"}
  MayFail = TRUE
  MaxRequests = 4
SPECIFICATION Spec
INVARIANTS TypeOK ToldOnlyWhatHappened NoSwitchBeforeReview
PROPERTIES OpenedOnProposal KeepsThePromise
CHECK_DEADLOCK FALSE
