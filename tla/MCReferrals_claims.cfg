\* Two tasks of any kind at once, one of which may fail at any await.
CONSTANTS
  Req = {r1, r2}
  User = {u1, u2}
  None = None
  Life = 1
  LastDay = 2
  MaxRequests = 4
  MaxFails = 1
SPECIFICATION Spec
INVARIANT TypeOK
PROPERTIES ClaimedOnce KeepsThePromise InvitesEnd
CHECK_DEADLOCK FALSE
