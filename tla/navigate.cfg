SPECIFICATION FairSpec
CONSTANTS
  Lanes = {"l1"}
  MaxNavs = 2
  Capacity = 2
INVARIANTS TypeOK LoadersNameDocuments
PROPERTIES NavigateAnswersItsDocument LabelsKeepUp WaitEnds
CHECK_DEADLOCK FALSE
