SPECIFICATION Spec
CONSTANTS
    ann = ann
    bea = bea
    None = None
    Admins <- MCAdmins
    Ids <- MCIds
    Lanes <- MCLanes
    Pages <- AllPages
    Shared <- SharedPages
    MaxPresses = 2
    MaxFaults = 1
INVARIANTS ScreensSound  ClosedMeansDone
PROPERTIES OnlyMeantChanges
SYMMETRY Symmetry
CHECK_DEADLOCK FALSE
