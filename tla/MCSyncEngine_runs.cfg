SPECIFICATION Spec
CONSTANTS
  c1 = c1  c2 = c2  a1 = a1  a2 = a2  a3 = a3  t1 = t1  t2 = t2  None = None
  Connections = {c1, c2}
  Accounts = {a1, a3}
  Owner <- MCOwnerPair
  Tasks = {t1, t2}
  RunIds = {1, 2, 3, 4}
  BankFaults = {"http_5xx"}
  HasExporter = FALSE
  MaxPasses = 2
  MaxConsents = 1
SYMMETRY TaskSymmetry
INVARIANTS NoLeakedLock LastSyncTruthful
PROPERTY KeepsRunLog
CHECK_DEADLOCK FALSE
