\* One request thread, steps may raise.
CONSTANTS
  s1 = s1  s2 = s2  t1 = t1  c1 = c1  c2 = c2
  Users = {s1, s2}
  Threads = {t1}
  Codes = {c1, c2}
  Nobody = Nobody
  Packages <- MCAllPackages
  Amounts <- MCAllAmounts
  Unsaveable = {s2}
  Faults = TRUE
  MaxFunding = 15
SPECIFICATION Spec
INVARIANTS Conservation
PROPERTY LedgerSpec
