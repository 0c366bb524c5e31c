SPECIFICATION Spec
CONSTANTS
  c1 = c1  c2 = c2  a1 = a1  a2 = a2  a3 = a3  t1 = t1  t2 = t2  None = None
  Connections = {c1}
  Accounts = {a1, a2}
  Owner <- MCOwnerSingle
  Tasks = {t1, t2}
  RunIds = {1, 2}
  BankFaults = {"http_5xx"}
  HasExporter = TRUE
  MaxPasses = 2
  MaxConsents = 2
SYMMETRY TaskSymmetry
INVARIANTS
  TypeOK OneSyncPerConnection NoLeakedLock VerdictTruthful EveryAccountAttempted
  NoHammering ProcessedIsFresh LastSyncTruthful DeadConsentSurfaces
CHECK_DEADLOCK FALSE
