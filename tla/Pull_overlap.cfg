\* Fair overlapping invocations, failures that stop, parseable leftovers.
SPECIFICATION FairSpec
CONSTANTS
  Runs = {r1, r2}
  Devices = {d1}
  MaxTime = 3
  MaxClock = 1
  Skew = 0
  Offsets = {0, 1}
  BatchSize = 1
  MaxAttempts = 2
  MaxFaults = 2
  Serial = FALSE
  Absent = Absent
  Garbled = Garbled
  Unusable = Unusable
  Leftovers = {Absent, Garbled}
INVARIANTS TypeOK WatermarkBacked NoSilentGap NotPoisoned
PROPERTIES ImplementsDeliveryLog FixDelivered
