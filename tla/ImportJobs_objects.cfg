CONSTANTS
  Upload = {u1}
  Chunk = {c1}
  Exec = {x1}
  Worker = {w1}
  Request = {r1}
  Drainer = {d1}
  Book = {b1}
  b1 = b1
  None = None
  BookOf <- OneBook
  MaxTries = 2
  MaxUpsets = 1
  MaxPauses = 0
SPECIFICATION FairSpec
INVARIANTS ReferencedObjectStoredUnlessReused StoredIsAccountedForUnlessReplaced
PROPERTY AbandonedObjectGoes
CHECK_DEADLOCK FALSE
