\* One connection of db-lib: a buffer of three rows or none, answers of up to
\* six tokens (four rows, so that the ring wraps), two requests, two procedures.
\* One connection of ct-lib: two commands, answers of up to five tokens (a
\* result set of one row and a status), two requests.
\* One connection of ODBC: two statements, two prepared statements or cursors.
CONSTANTS
  Capacities = {3}
  Procs = {p, q}
  MaxTokens = 6
  MaxSends = 2
  Cmds = {c1, c2}
  CtTokens = 5
  CtSends = 2
  Stmts = {s1, s2}
  MaxObjs = 2
SYMMETRY MCSymmetry
SPECIFICATION MCSpec
INVARIANTS Ring RowsAsReceived EachAnnounced SentOnce
   EachCommandDone OverMeansQuiet
  CountsAgree NothingForgotten OwnerReadsOwn
\* The connection may break, and the application may stop calling.
CHECK_DEADLOCK FALSE
