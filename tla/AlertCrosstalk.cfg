SPECIFICATION AlertsSpec
CONSTANTS
  Keys <- MCKeys
  Order <- MCOrder
  TypeOf <- MCTypeOf
  Mounts <- MCMounts
  Warnings <- MCWarnings
  DefaultThresholds <- MCDefaultThresholds
  Values <- MCValues
  AlertIds = {1, 2, 3}
  NoKey = "none"
  MaxFaults = 1
PROPERTY ResolvedByOwnMetric
