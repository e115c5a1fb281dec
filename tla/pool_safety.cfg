\* every fault, two protocol versions
CONSTANTS
  Users = {u1, u2}
  Members = {m1, m2}
  None = None
  Versions = {v71, v72}
  FirstVersion = v71
  MinOpen = 1
  MaxOpen = 2
  MaxUsers = 2
  Faults = {"server", "reset", "memory", "thread", "ack", "write", "age"}
SYMMETRY MCSymmetry
SPECIFICATION Spec
INVARIANTS TypeOK Paired  Counted RestIsScheduled OwnSession
\* the loop blocks in select when every record is leaked and nobody connects
CHECK_DEADLOCK FALSE
