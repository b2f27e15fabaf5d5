\* One action request of any route with any faults, or two webhooks, from start-up to shutdown.
SPECIFICATION FairServiceSpec
CONSTANTS
  Routes = {"pubsub", "push", "api"}
  Faults = {"details", "config", "store", "publish", "timeout", "crash"}
  MaxFaults = 3
  MaxTries = 2
  Hooks = {w1, w2}
INVARIANTS ServiceTypeOK AnsweredErrorIsReported SkipsOnlyOnSchedule
  OneVerdict DetailsNotBlamed
  NoFailureHidden UnreportedOnlyIf OneHookVerdict
  ServesAsRegistered ClosedAtExit
PROPERTIES PubSubSettles ImplementsLedger
CHECK_DEADLOCK FALSE
