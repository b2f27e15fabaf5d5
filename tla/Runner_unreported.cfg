\* The configuration cannot be read.
SPECIFICATION Spec
CONSTANTS
  Routes = {"pubsub", "push", "api"}
  Faults = {"config"}
  MaxFaults = 1
INVARIANTS FailedRunPublishes
CHECK_DEADLOCK FALSE
