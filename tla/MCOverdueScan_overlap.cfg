\* Both jobs, two runs at a time, one of which may die; the cap below the rows.
CONSTANTS
  Job = {j1, j2}
  Kind = {"request", "bill"}
  MaxRows = 1
  MaxMade = 2
  MaxWaits = 2
  MaxFails = 1
SPECIFICATION Spec
INVARIANT TypeOK
PROPERTIES KeepsThePromise OldestAnnounced
CHECK_DEADLOCK FALSE
