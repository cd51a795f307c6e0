\* Two sectors, the ring overwrites its oldest one; one failure at any storage call.
CONSTANTS
  N = 2
  SecSize = 128
  MaxLen = 20
  NoAddr = NoAddr
  Lens = {16, 20, 21}
  Marks = {"Deleted", "Write"}
  Times = {2, 4, 6, 8, 10}
  MaxTime = 10
  MaxMarks = 2
  MaxFailures = 1
SPECIFICATION Spec
INVARIANTS
  TsTypeOK
  TsIInv
  TsRInv
  LogInv
  DataApart
  IterationsAgree
  QueriesAgree
  ReopenAgrees
  TimesIncrease
  NoRoomWasted
  HeadsOK
PROPERTIES
  ImplementsLog
  TsProgramOnlyClears
