\* Three sectors, no failure: sessions of sets and deletions with garbage collection.
CONSTANTS
  N = 3
  SecSize = 256
  k1 = k1
  k2 = k2
  k3 = k3
  k64 = k64
  k65 = k65
  small1 = small1
  small2 = small2
  big = big
  Keys = {k1, k2}
  Values = {small1, big}
  KeyLen <- MCKeyLen
  ValueLen <- MCValueLen
  None = None
  Defaults <- NoDefaults
  Updates <- AllUpdates
  LossInGc = TRUE
  MaxPowerLoss = 0
  MaxFaults = 0
SPECIFICATION IterSpec
INVARIANTS
  LogOK
  CheckPasses
  MapInv
PROPERTIES
  ImplementsMap
  CallsReturn
  EveryEntryOnce
  ReportsCurrent
