\* A stored value that get_state or the comparison rejects.
SPECIFICATION FairSpec
CONSTANTS
  Runs = {r1}
  Devices = {d1, d2}
  MaxTime = 1
  MaxClock = 0
  Skew = 1
  Offsets = {0}
  BatchSize = 1
  MaxAttempts = 1
  MaxFaults = 0
  Serial = TRUE
  Absent = Absent
  Garbled = Garbled
  Unusable = Unusable
  Leftovers = {Absent, Garbled, Unusable}
PROPERTIES FixDelivered
