\* A correction saved while the customer's answer is in flight: see AnswerKeepsData.
CONSTANTS
  Req = {r1, r2}
  Offer = {o1}
  NoOffer = NoOffer
  DatePair <- MCNoDates
  Target = {}
  EditTarget = {}
  Ops = {"request", "submit", "correct"}
  MayFail = FALSE
  MaxRequests = 3
SPECIFICATION Spec
PROPERTY AnswerKeepsData
CHECK_DEADLOCK FALSE
