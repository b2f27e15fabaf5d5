\* Three overlapping runs, three faults, and runs that keep coming.
SPECIFICATION FairSpec
CONSTANTS
  Runs = {r1, r2, r3}
  MaxAttempts = 2
  MaxFaults = 3
INVARIANTS TypeOK OneWarningPerWindow
PROPERTIES StaysNoticeable
