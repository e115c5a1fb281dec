\* Saves: three connections and accounts, two names; waits may time out and
\* transactions fail.
\* Pages: two request threads; an article of two texts with two comments;
\* the category every page reads and another.
CONSTANTS
  k1 = k1  k2 = k2  k3 = k3  a1 = a1  a2 = a2  a3 = a3  n1 = n1  n2 = n2
  Connections = {k1, k2, k3}
  Accounts = {a1, a2, a3}
  Names = {n1, n2}
  NoName = NoName
  Timeouts = TRUE
  Faults = TRUE
  Users = {ad, us}
  Admins = {ad}
  Articles = {r1}
  Texts = {t1, t2}
  Comments = {m1, m2}
  Categories = {g1, g2}
  CategoryNames = {Announcements, Events}
  Announcements = Announcements
  NoCategory = NoCategory
  Threads = {h1, h2}
SYMMETRY MCSymmetry
SPECIFICATION MCSpec
INVARIANTS CommentsHaveAuthors OrphansBounded SpamBounded
PROPERTIES UniqueSpec WriterCommits DownForGood
