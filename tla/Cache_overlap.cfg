\* Two requests or events at a time, events in any order, calls that fail.
SPECIFICATION Spec
CONSTANTS
  Actions = {"pull_observations"}
  Fields = {f}
  Procs = {p1, p2}
  Users = {"action"}
  Edited = {"pull_observations"}
  Ordered = FALSE
  MaxEdits = 2
  Faults = {"raise", "crash"}
  MaxFaults = 1
  Missing = Missing
  Empty = Empty
SYMMETRY Symmetry
INVARIANTS NoFalseAbsence
