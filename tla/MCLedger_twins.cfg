SPECIFICATION Spec
CONSTANTS
  p1 = p1  p2 = p2  p3 = p3  i1 = i1  i2 = i2  i3 = i3  i4 = i4
  grocer = grocer  cafe = cafe  None = None
  Purchases = {p1, p2}
  Look <- MCTwinLook
  Rank <- MCRank
  PendingId <- MCTwinPendingId
  SettledId <- MCTwinSettledId
  Prompt = {}
  MatchWindow = 1
  PendingExpiry = 1
  Midnights = 1
  HasExporter = FALSE
  MaxDay = 3
INVARIANTS TypeOK SettledExact NoDoubleCount ReportedIsKept GoneDoNotLinger
PROPERTY SettledStays
CHECK_DEADLOCK FALSE
