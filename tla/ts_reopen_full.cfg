\* Two sectors, no failure: the database is filled without rollover and opened again.
CONSTANTS
  N = 2
  SecSize = 128
  MaxLen = 20
  NoAddr = NoAddr
  Lens = {20}
  Marks = {"Deleted"}
  Times = {2, 4, 6, 8, 10}
  MaxTime = 10
  MaxMarks = 0
  MaxFailures = 0
SPECIFICATION Spec
INVARIANTS
  OpenUsable
