CONSTANTS
  r1 = r1
  r2 = r2
  i1 = i1
  i2 = i2
  a1 = a1
  a2 = a2
  k1 = k1
  Requests = {r1, r2}
  Instances = {i1, i2}
  Accounts = {a1, a2}
  Keys = {k1}
  Entries <- MCEntries
  KeyOf <- MCKeyOf
  Pins <- MCPins
  Limits = {0, 1}
  FirstLimit <- MCFirstLimit
  DefaultLimit = 2
  MaxAttempts = 2
  MaxEvents = 1
  Leaked = leaked
  None = none
SPECIFICATION Spec
INVARIANTS
  TypeOK
  LimitKept
  SlotsAccounted
PROPERTIES
  NotSentBack
  SaturationKeepsBinding
  EveryRequestEnds
