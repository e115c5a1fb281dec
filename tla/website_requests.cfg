\* Tickets: three request threads; one ticket with one comment.  All accounts
\* may be cancelled, and then nobody is left to do anything.
\* Accounts: two request threads, two accounts, usernames and passwords; two
\* confirmations, of two sign-ups or of a sign-up and a new e-mail.
CONSTANTS
  ad = ad  us = us  k1 = k1  c1 = c1  h1 = h1  h2 = h2  h3 = h3
  Users = {ad, us}
  Admins = {ad}
  Tickets = {k1}
  Comments = {c1}
  Threads = {h1, h2, h3}
  Ids = {i1, i2}
  Names = {n1, n2}
  Passwords = {p1, p2}
  Handlers = {g1, g2}
  MaxDue = 2
SYMMETRY MCSymmetry
SPECIFICATION MCSpec
INVARIANTS TypeOK LateChangesBounded ReportedIsClosed
  MirrorFollows GameUsersBounded
CHECK_DEADLOCK FALSE
