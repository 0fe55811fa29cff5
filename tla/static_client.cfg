SPECIFICATION Spec
CONSTANTS
  p1 = p1
  p2 = p2
  None = None
  Projects = {p1, p2}
  Limit = 2
  MaxReconnects = 2
  MaxEvents = 2
  MaxClicks = 2
INVARIANTS NeverCutOff TimelineIsOrdered HighFirst
PROPERTIES ReconnectionsEnd AlwaysDrains
CHECK_DEADLOCK FALSE
