\* Power is lost once, while garbage collection moves a node.
CONSTANTS
  N = 2
  SecSize = 512
  k1 = k1
  k2 = k2
  k3 = k3
  k64 = k64
  k65 = k65
  small1 = small1
  small2 = small2
  big = big
  Keys = {k1, k2}
  Values = {small1, big}
  KeyLen <- MCKeyLen
  ValueLen <- MCValueLen
  None = None
  Defaults <- NoDefaults
  Updates <- AllUpdates
  LossInGc = TRUE
  MaxPowerLoss = 1
  MaxFaults = 0
SPECIFICATION Spec
PROPERTIES
  UntouchedSurvives
