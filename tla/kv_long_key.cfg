\* A key of KV_NAME_MAX bytes.
CONSTANTS
  N = 2
  SecSize = 256
  k1 = k1
  k2 = k2
  k3 = k3
  k64 = k64
  k65 = k65
  small1 = small1
  small2 = small2
  big = big
  Keys = {k1, k64}
  Values = {small1}
  KeyLen <- MCKeyLen
  ValueLen <- MCValueLen
  None = None
  Defaults <- NoDefaults
  Updates <- AllUpdates
  LossInGc = FALSE
  MaxPowerLoss = 0
  MaxFaults = 0
SPECIFICATION Spec
INVARIANTS
  ReadsAgree
