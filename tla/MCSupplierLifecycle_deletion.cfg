\* Two tasks that keep out of each other's windows, one of which may fail; a nightly run
\* is one of them.
CONSTANTS
  Req = {r1, r2}
  First = o1
  Offer = {o1, o2}
  CaseTarget = {"awaiting_activation", "activated", "cancelled"}
  LastDay = 3
  MaxCases = 2
  MaxRequests = 6
  MaxFails = 1
SPECIFICATION MCSpec
INVARIANTS TypeOK DeletedTakesOffers NoEarlyUncut
PROPERTIES OffersOutliveSupply ScheduleStands DeletionEnds
CHECK_DEADLOCK FALSE
