\* Two tasks of one part at once, one of which may fail at any await.
CONSTANTS
  Req = {r1, r2}
  None = None
  MaxRequests = 5
  MaxFails = 1
  BillType = {electricity}
  Offer = {o1, o2, o3}
  Unit = 4
  MinPrice = 2
  MaxPrice = 10
  Shown <- MCShown
  Typed <- MCTyped
  Quota <- MCQuota
SYMMETRY MCSlots
SPECIFICATION MCSpec
INVARIANTS TypeOK ReplacedIsRejected TicketsHaveTopic FilesKept ReadingCoheres PlacesDense OneWaitsApart
PROPERTIES KeepsThePromise RestKeepsOrder
CHECK_DEADLOCK FALSE
