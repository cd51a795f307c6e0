\* Two sectors, one failure: queries after the next open.
CONSTANTS
  N = 2
  SecSize = 128
  MaxLen = 20
  NoAddr = NoAddr
  Lens = {13, 20}
  Marks = {"Deleted"}
  Times = {2, 4, 6, 8, 10, 12}
  MaxTime = 12
  MaxMarks = 0
  MaxFailures = 1
SPECIFICATION Spec
INVARIANTS
  QueriesComplete
