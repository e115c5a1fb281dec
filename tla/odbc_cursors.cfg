\* Two statements, two prepared statements and cursors at a time.
CONSTANTS
  Stmts = {s1, s2}
  MaxObjs = 2
SPECIFICATION OdSpec
INVARIANT CursorsListed
CHECK_DEADLOCK FALSE
