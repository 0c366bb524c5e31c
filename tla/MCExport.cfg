SPECIFICATION Spec
CONSTANTS
  c1 = c1  c2 = c2  a1 = a1  a2 = a2  r1 = r1  r2 = r2  r3 = r3
  b1 = b1  b2 = b2  b3 = b3  wise = wise  gbp = gbp  eur = eur  None = None
  Connections = {c1, c2}
  Accounts = {a1, a2}
  ConnectionOf <- MCConnectionOf
  AccountName <- MCAccountName
  Currency <- MCCurrency
  Rows = {r1, r2, r3}
  AccountOf <- MCAccountOf
  Position <- MCPosition
  Books = {b1, b2}
  UserNames <- MCUserNames
  MaxVersion <- MCMaxVersion
  MaxExports = 2
SYMMETRY BookSymmetry
INVARIANTS TypeOK MarkedIsThere OncePerRow OwnBook IdsDistinct
PROPERTY SendsOnlyNews
CHECK_DEADLOCK FALSE
