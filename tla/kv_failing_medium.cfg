\* Two sectors and default entries; the medium fails once, not during garbage collection.
\* A key that is too long.
CONSTANTS
  N = 2
  SecSize = 256
  k1 = k1
  k2 = k2
  k3 = k3
  k64 = k64
  k65 = k65
  small1 = small1
  small2 = small2
  big = big
  Keys = {k1, k2, k65}
  Values = {small1, big}
  KeyLen <- MCKeyLen
  ValueLen <- MCValueLen
  None = None
  Defaults <- TwoDefaults
  Updates <- AllUpdates
  LossInGc = FALSE
  MaxPowerLoss = 0
  MaxFaults = 1
SPECIFICATION Spec
INVARIANTS
  TypeOK
  IInv
  DefaultsThere
PROPERTIES
  ImplementsMap
  CallsReturn
