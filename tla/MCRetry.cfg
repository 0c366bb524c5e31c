SPECIFICATION Spec
CONSTANTS
  Requests = 3
  Retries = 3
  Due <- MCDue
  MaxCall = 1
  Headroom = 6
  Lifetime = 8
  MaxExpiry = 2
  MaxClock = 5
INVARIANTS TypeOK RefusedOnlyIfLate DurationBounded
PROPERTY RequestsEnd
CHECK_DEADLOCK FALSE
