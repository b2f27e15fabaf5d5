\* Requests and events one at a time and in order; processes die.
SPECIFICATION Spec
CONSTANTS
  Actions = {"pull_observations"}
  Fields = {f, g}
  Procs = {p1}
  Users = {"action", "webhook"}
  Edited = {"integration", "pull_observations"}
  Ordered = TRUE
  MaxEdits = 2
  Faults = {"crash"}
  MaxFaults = 1
  Missing = Missing
  Empty = Empty
INVARIANTS TypeOK Fresh RunSeesPortal
