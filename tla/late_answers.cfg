SPECIFICATION PanelSpec
CONSTANTS
  p1 = p1
  p2 = p2
  None = None
  Projects = {p1, p2}
  Changed = {p1}
  MaxRevision = 2
  MaxLoads = 2
  MaxScenarios = 1
  MaxAsks = 1
INVARIANT LateAnswersAreRejected
CHECK_DEADLOCK FALSE
