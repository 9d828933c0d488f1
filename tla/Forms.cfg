SPECIFICATION Spec
CONSTANTS
  Pages <- AllPages
  Saves <- MCSaves
  MaxInputs = 2
  MaxSaves = 2
  MaxFaults = 1
INVARIANTS FormsSound SaveCarriesBoxes
PROPERTIES SecretsKept
CHECK_DEADLOCK FALSE
