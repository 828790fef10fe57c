SPECIFICATION Spec
CONSTANTS
  k1 = k1
  e1 = e1
  e2 = e2
  i1 = i1
  i2 = i2
  NoReservation = NoReservation
  NoRecord = NoRecord
  Keys = {k1}
  Events = {e1, e2}
  Instances = {i1}
  KeyOf <- OneKey
  Home <- SameHome
  Ttl = 1
  MaxTicks = 5
  QueueSize = 1
  BatchSize = 2
  Estimates = {2}
  Costs = {1, 3}
  Limits = {3}
  InitialLimit = 3
  Validity = {TRUE, FALSE}
  MaxClock = 2
  MaxCrashes = 1
  Closable = {i1}
  CleanupLimit = 2
  Cleaning = {i1}
INVARIANTS
  TypeOK
  BilledExactlyOnce
  SettledHoldsNothing
  AckMeansDurable
  AcceptedIsAccounted
  ProtectedUntilSettled
  MarkersReclaimed
PROPERTIES
  KeepsWriterPromise
SYMMETRY Requests
CHECK_DEADLOCK FALSE
