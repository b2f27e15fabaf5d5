\* An action run fills the cache that webhook requests read.
SPECIFICATION FairSpec
CONSTANTS
  Actions = {"pull_observations"}
  Fields = {f}
  Procs = {p1}
  Users = {"action", "webhook"}
  Edited = {"webhook"}
  Ordered = FALSE
  MaxEdits = 1
  Faults = {}
  MaxFaults = 0
  Missing = Missing
  Empty = Empty
PROPERTIES WebhookRefreshed
