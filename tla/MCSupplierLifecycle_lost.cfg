\* A supply under an offer that was deleted while it had expired, and was then
\* prolonged: see DeletedUnsupplied.
CONSTANTS
  Req = {r1}
  First = o1
  Offer = {o1}
  CaseTarget = {"activated"}
  LastDay = 3
  MaxCases = 1
  MaxRequests = 6
  MaxFails = 0
SPECIFICATION MCSpec
PROPERTY DeletedUnsupplied
CHECK_DEADLOCK FALSE
