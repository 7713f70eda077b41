SPECIFICATION FairSpec
CONSTANTS
  Markups <- Pages
  MaxElements = 3
  MaxDocuments = 2
  MaxSuspends = 1
INVARIANTS TypeOK CountersExact ScriptsInOrder
PROPERTIES ScriptsSeeTheirSheets LoadWaitsForAll LoadingEnds
CHECK_DEADLOCK FALSE
