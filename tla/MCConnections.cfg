SPECIFICATION Spec
CONSTANTS
  None = None
  Connections = {c1, c2}
  States = {s1, s2}
  Callbacks = {t1, t2}
  BankAccounts = {x1, x2}
  MaxTokens = 2
SYMMETRY MCSymmetry
INVARIANTS
  TypeOK StateUsedOnce CredentialsMatch DiscoveredIsComplete TokenUsable
CHECK_DEADLOCK FALSE
