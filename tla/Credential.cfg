SPECIFICATION FairSpec
CONSTANTS
  i1 = i1
  i2 = i2
  w1 = w1
  None = None
  Orphan = Orphan
  Flights <- MCFlights
  Writers = {w1}
  UnclassifiedLimit = 2
  MaxToken = 2
  MaxFaults = 1
  MaxBusy = 1
INVARIANTS
  OneRefreshAtATime
  PresentedOnce
  NoTokenStranded
  GoodCredentialKept
PROPERTIES
  LockStays
  DeadCredentialLeaves
