SPECIFICATION Spec
CONSTANTS
  p1 = p1  p2 = p2  p3 = p3  i1 = i1  i2 = i2  i3 = i3  i4 = i4
  grocer = grocer  cafe = cafe  None = None
  Purchases = {p1, p3}
  Look <- MCLook
  Rank <- MCRank
  PendingId <- MCPendingId
  SettledId <- MCSettledId
  Prompt = {p1, p3}
  MatchWindow = 1
  PendingExpiry = 2
  Midnights = 1
  HasExporter = TRUE
  MaxDay = 3
INVARIANTS SettledExact SettledArrives
PROPERTIES SettledStays Idempotent
CHECK_DEADLOCK FALSE
