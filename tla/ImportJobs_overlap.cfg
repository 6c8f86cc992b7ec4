CONSTANTS
  Upload = {u1}
  Chunk = {c1}
  Exec = {x1, x2}
  Worker = {w1, w2}
  Request = {r1}
  Drainer = {}
  Book = {b1}
  b1 = b1
  None = None
  BookOf <- OneBook
  MaxTries = 1
  MaxUpsets = 1
  MaxPauses = 1
SPECIFICATION Spec
SYMMETRY ImportSymmetry
INVARIANTS TypeOK LandsOnceUnlessCancelled OutcomesAgree ChunksKeptUnlessPaused
CHECK_DEADLOCK FALSE
