SPECIFICATION FairSpec
CONSTANTS
  Digests = {v, w}
  MaxPeople = 2
  MaxOutside = 1
  MaxFaults = 2
INVARIANTS StopBinds PublishedTrue
PROPERTIES KeepsOutbox ForeignKept CheckWithdrawn LostAnswerFound
CHECK_DEADLOCK FALSE
