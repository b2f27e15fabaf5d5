\* The handler can fail for the Gundi API.
SPECIFICATION Spec
CONSTANTS
  Routes = {"pubsub", "push", "api"}
  Faults = {}
  MaxFaults = 0
INVARIANTS PortalNeverBlamed
CHECK_DEADLOCK FALSE
