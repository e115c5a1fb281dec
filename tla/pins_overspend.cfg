\* Two request threads: what two purchases from one loaded balance do.
CONSTANTS
  s1 = s1  s2 = s2  t1 = t1  t2 = t2  c1 = c1  c2 = c2
  Users = {s1, s2}
  Threads = {t1, t2}
  Codes = {c1, c2}
  Nobody = Nobody
  Packages <- MCPackages
  Amounts <- MCAmounts
  Unsaveable = {s2}
  Faults = FALSE
  MaxFunding = 5
SPECIFICATION Spec
INVARIANT NoOverspend
