SPECIFICATION NavSpec
PROPERTY NavigationEnds
CHECK_DEADLOCK FALSE
