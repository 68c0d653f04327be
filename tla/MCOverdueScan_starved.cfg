\* Requests nobody answers, one more of them than the cap: see RestPickedUp.
CONSTANTS
  Job = {j1}
  Kind = {"request"}
  MaxRows = 2
  MaxMade = 3
  MaxWaits = 1
  MaxFails = 0
SPECIFICATION Spec
PROPERTY RestPickedUp
CHECK_DEADLOCK FALSE
