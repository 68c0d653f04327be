\* Two tasks of one part at once, one of which may fail at any await.
CONSTANTS
  Req = {r1, r2}
  None = None
  MaxRequests = 5
  MaxFails = 1
  MaxTries = 2
  Locale = {it, en}
  MaxVersion = 3
  Device = {phone, tablet}
  Person = {ada, bob}
  Quota <- MCQuota
SYMMETRY MCSlots
SPECIFICATION MCSpec
INVARIANTS TypeOK UnmailedIsGone GuessesBounded NewPasswordEvicts OneUnusedApart ActiveApart
PROPERTIES SuspensionHolds AsksUntilAccepted
CHECK_DEADLOCK FALSE
