SPECIFICATION Spec
CONSTANTS
  Lanes = {"l1"}
  MaxNavs = 1
  Capacity = 4
PROPERTIES InitNamesNewLoader
CHECK_DEADLOCK FALSE
