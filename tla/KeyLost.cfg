SPECIFICATION Spec
CONSTANTS
  Pages = {"site"}
  Saves <- MCSaves
  MaxInputs = 2
  MaxSaves = 2
  MaxFaults = 1
PROPERTIES KeysOnlyTyped
CHECK_DEADLOCK FALSE
