SPECIFICATION FairSpec
CONSTANTS
  Targets = {t1}
  Lanes = {"browser", "session"}
  BrowserLane = "browser"
  MaxCommands = 4
INVARIANTS TypeOK AutoAttachedOnce NothingLeftOfTheGone
PROPERTIES EventsInOrder EveryTargetReported EveryTargetAttached
CHECK_DEADLOCK FALSE
