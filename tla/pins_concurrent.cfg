\* Two request threads, steps may raise.
CONSTANTS
  s1 = s1  s2 = s2  t1 = t1  t2 = t2  c1 = c1  c2 = c2
  Users = {s1, s2}
  Threads = {t1, t2}
  Codes = {c1, c2}
  Nobody = Nobody
  Packages <- MCPackages
  Amounts <- MCAmounts
  Unsaveable = {s2}
  Faults = TRUE
  MaxFunding = 5
SYMMETRY MCSymmetry
SPECIFICATION Spec
INVARIANTS TypeOK CreditBounded PaidBeforeIssued 
