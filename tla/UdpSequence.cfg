SPECIFICATION FairSpec
CONSTANTS
  c1 = c1
  c2 = c2
  Client = {c1, c2}
  Count = 3
  MaxFaults = 2
CHECK_DEADLOCK FALSE
INVARIANTS TypeOK NumbersUnique InTurn
PROPERTIES Finishes
