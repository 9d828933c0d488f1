SPECIFICATION FairSpec
CONSTANTS
  Scenes <- AllScenes
  Limit = 2
  PageSize = 2
  Window = 1
  MaxRows = 2
  MaxPresses = 2
  MaxFaults = 1
INVARIANTS CountsExactApart WidgetsSound ThreadComplete
PROPERTIES SidebarCatchesUp
CHECK_DEADLOCK FALSE
