\* One invocation at a time, three devices in batches of two.
SPECIFICATION Spec
CONSTANTS
  Runs = {r1}
  Devices = {d1, d2, d3}
  MaxTime = 2
  MaxClock = 0
  Skew = 2
  Offsets = {0}
  BatchSize = 2
  MaxAttempts = 2
  MaxFaults = 2
  Serial = TRUE
  Absent = Absent
  Garbled = Garbled
  Unusable = Unusable
  Leftovers = {Absent, Garbled, Unusable}
SYMMETRY Symmetry
INVARIANTS NoNeedlessResend EarlierBatchesRecorded
PROPERTIES ImplementsDeliveryLog
