\* One run whose first reply is lost.
SPECIFICATION Spec
CONSTANTS
  Runs = {r1}
  MaxAttempts = 2
  MaxFaults = 1
INVARIANTS FirstGetsTrue
