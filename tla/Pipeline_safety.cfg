\* Every snapshot of up to three rows over two devices, watermarks read one at a time.
SPECIFICATION FairPipelineSpec
CONSTANTS
  Imeis = {d1, d2}
  MaxTime = 2
  MaxRows = 3
  Offsets <- WestAndEast
  Now = 0
  Skew = 1
  Malformed = Malformed
  NoFix = NoFix
  Absent = Absent
  Unusable = Unusable
  MaxAttempts = 3
  Ops = {d1, d2}
  Limit = 1
INVARIANTS PipelineTypeOK NewestRowKept NoOffsetGap NothingLeftRunning DecidedOnWatermarks
  RefusalIsToldAsSuch CallVerdictHasEvidence AnswerEndsRetries
  SlotsAccounted EveryOpTried
PROPERTIES EveryActionEnds ImplementsPull
CHECK_DEADLOCK FALSE
